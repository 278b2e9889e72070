------------------------------- MODULE Trust -------------------------------
(***************************************************************************)
(* Identities and signatures: the device key and the vault trust key that  *)
(* certifies devices (device.rs, issueDeviceCert of the SDK), attestations *)
(* under the vault's identity key (attest.rs), and the signatures with     *)
(* which a device proves to the relay that a bucket is its own             *)
(* (relay_auth.rs, authorize of relay-server.mjs).                         *)
(*                                                                         *)
(* Signatures are ideal: one verifies for the key that made it and for the *)
(* very message it was made over.  Hashes are injective, so a device id or *)
(* a bucket id is the public key it commits to.  A message keeps what the  *)
(* code's length-prefixed layouts keep apart: its domain and each field.   *)
(*                                                                         *)
(* SDK calls are split where the code awaits: a read of IndexedDB, a call  *)
(* of the worker, each write of IndexedDB.                                 *)
(***************************************************************************)
EXTENDS Naturals, Sequences, FiniteSetsExt, SequencesExt

CONSTANTS
    Calls,         \* SDK calls that may be in flight
    CapsInputs,    \* scope lists an application asks for; 0 is a blank scope
    Overlaps,      \* may a call start while another is in flight?
    MaxTime, MaxKeys, MaxRotations, MaxSigs,  \* bounds
    None

DeviceKeys == {<<"device", i>> : i \in 0 .. MaxKeys}
TrustKeys  == {<<"trust", i>> : i \in 1 .. MaxKeys}
Seals(d)   == [dek : 0 .. d, key : TrustKeys]   \* of the trust seed, up to data key d

ASSUME TrustAssumption ==
    /\ MaxTime \in Nat /\ MaxKeys \in Nat /\ MaxRotations \in Nat /\ MaxSigs \in Nat
    /\ CapsInputs \subseteq Seq(Nat)
    /\ Overlaps \in BOOLEAN
    /\ None \notin DeviceKeys /\ None \notin Seals(MaxRotations)

VARIABLES
    dek,    \* the vault's data key, counted by rotations
    idb,    \* IndexedDB: idKey, idWrap, idPub, certId, trustSeed, cert
    call,   \* call[c]: an SDK call in flight, or Idle
    keys,   \* keys generated so far, device and trust keys alike
    sigs,   \* every signature that left the worker, with what it was asked for
    certs,  \* every certificate returned to the application
    now     \* the clock, in the unit of validity windows

vars == <<dek, idb, call, keys, sigs, certs, now>>

-----------------------------------------------------------------------------
(* Signed messages *)

\* Ed25519 with verify_strict
Sign(key, msg) == [key |-> key, msg |-> msg]
Verify(key, msg, sig) == sig.key = key /\ sig.msg = msg

\* vault_identity_seed, signing_seed: derived from the data key.
IdentityKey(d) == <<"identity", d>>
RelayKey(d, db) == <<"relay", d, db>>

\* attest.rs canonical_message; attest_with_seed; verify
AttestMessage(claim, audience, from, to) ==
    [domain |-> "attestation", claim |-> claim, audience |-> audience, from |-> from, to |-> to]

AttestWithSeed(key, claim, audience, from, to) ==
    Sign(key, AttestMessage(claim, audience, from, to))

VerifyAttestation(key, claim, audience, from, to, sig) ==
    Verify(key, AttestMessage(claim, audience, from, to), sig)

\* relay_auth.rs canonical_message: a push binds the blob, a read binds none.
Push == 1
Reads == {2, 3, 4}
NoBlob == 0

\* Reads and pushes signed alike.
RelayMessageAnyMethod(method, bucket, arg) ==
    [domain |-> "relay", method |-> Push, bucket |-> bucket, arg |-> arg]

RelayMessage(method, bucket, arg) ==
    [domain |-> "relay", method |-> method, bucket |-> bucket, arg |-> arg]

RelaySign(d, db, method, arg) ==
    Sign(RelayKey(d, db), RelayMessage(method, RelayKey(d, db), arg))

\* authorize: the bucket commits to the key, and the key signed the request.
Authorize(method, bucket, key, blob, sig) ==
    /\ bucket = key
    /\ Verify(key, RelayMessage(method, bucket, IF method = Push THEN blob ELSE NoBlob), sig)

-----------------------------------------------------------------------------
(* Device certificates *)

\* Scopes taken as they come.
CapsAsGiven(caps) == caps

\* canonicalize_caps: blanks dropped, sorted, without duplicates.
\* A scope's place is the number of smaller ones.
Scopes(caps) == Range(caps) \ {0}
CanonicalizeCaps(caps) ==
    [i \in 1 .. Cardinality(Scopes(caps)) |->
        CHOOSE s \in Scopes(caps) : Cardinality({t \in Scopes(caps) : t < s}) = i - 1]

\* caps_well_formed
CapsWellFormed(canon) == 0 \notin Range(canon) /\ CanonicalizeCaps(canon) = canon

\* build_device_cert_claim; parse_device_cert_claim gives the fields back.
BuildClaim(trust, device, caps, from, to) ==
    [trust |-> trust, id |-> device, device |-> device, caps |-> CanonicalizeCaps(caps),
     from |-> from, to |-> to]
IsCertClaim(claim) == "trust" \in DOMAIN claim

\* issue_device_cert: the claim and its signature, with the device id as
\* the audience.
IssueCert(trust, device, caps, from, to) ==
    LET claim == BuildClaim(trust, device, caps, from, to)
    IN  [claim |-> claim, sig |-> AttestWithSeed(trust, claim, device, from, to)]

\* verify_device_cert
VerifyCert(trust, claim, device, sig, time) ==
    /\ IsCertClaim(claim)
    /\ claim.trust = trust /\ claim.device = device
    /\ claim.id = device
    /\ CapsWellFormed(claim.caps)
    /\ VerifyAttestation(trust, claim, claim.id, claim.from, claim.to, sig)
    /\ claim.from <= time /\ time <= claim.to

-----------------------------------------------------------------------------
(* SDK calls.  `writes' are the IndexedDB writes that remain, in order, and
   `then' is where the call goes on after them. *)

Idle == [op |-> "idle"]
Foreign == <<"device", 0>>   \* another device's key, handed in by the application

Begins(c) ==
    /\ call[c] = Idle
    /\ Overlaps \/ \A b \in Calls : call[b] = Idle

Goes(c, r) == call' = [call EXCEPT ![c] = r]

\* deviceId(), devicePublicKey()
StartDeviceId(c) ==
    /\ Begins(c)
    /\ Goes(c, [op |-> "identity", then |-> "return"])
    /\ UNCHANGED <<dek, idb, keys, sigs, certs, now>>

\* issueDeviceCert(), for this device or for a key handed in.
StartIssue(c) ==
    /\ Begins(c) /\ Cardinality(sigs) < MaxSigs
    /\ \E caps \in CapsInputs :
          \/ Goes(c, [op |-> "identity", then |-> "readTrust", caps |-> caps])
          \/ Goes(c, [op |-> "readTrust", caps |-> caps, device |-> Foreign])
    /\ UNCHANGED <<dek, idb, keys, sigs, certs, now>>

\* Every certificate kept as this device's own.
AfterIdentityKeepsAny(r, own) ==
    CASE r.then = "return"    -> Idle
      [] r.then = "readTrust" -> [op |-> "readTrust", caps |-> r.caps, device |-> own]
      [] r.then = "own"       -> [op |-> "put", writes |-> <<[field |-> "cert", value |-> r.cert]>>,
                                  then |-> "issued", cert |-> r.cert]

\* What follows #deviceIdentity, once the device's key is known.
AfterIdentity(r, own) ==
    CASE r.then = "return"    -> Idle
      [] r.then = "readTrust" -> [op |-> "readTrust", caps |-> r.caps, device |-> own]
      [] r.then = "own"       -> IF r.cert.claim.device = own
                                 THEN [op |-> "put", writes |-> <<[field |-> "cert", value |-> r.cert]>>,
                                       then |-> "issued", cert |-> r.cert]
                                 ELSE [op |-> "issued", cert |-> r.cert]

\* #deviceIdentity: the stored key, or none.
ReadIdentity(c) ==
    /\ call[c].op = "identity"
    /\ Goes(c, IF idb.idPub # None THEN AfterIdentity(call[c], idb.idPub)
               ELSE [call[c] EXCEPT !.op = "keygen"])
    /\ UNCHANGED <<dek, idb, keys, sigs, certs, now>>

\* device_keygen; the seed is wrapped and the four records are written.
Keygen(c) ==
    /\ call[c].op = "keygen" /\ keys < MaxKeys
    /\ keys' = keys + 1
    /\ LET k == <<"device", keys + 1>>
       IN  Goes(c, [op |-> "put", then |-> "identity", caller |-> call[c], own |-> k,
                    writes |-> <<[field |-> "idKey",  value |-> k],
                                 [field |-> "idWrap", value |-> k],
                                 [field |-> "idPub",  value |-> k],
                                 [field |-> "certId", value |-> k]>>])
    /\ UNCHANGED <<dek, idb, sigs, certs, now>>

\* Where a call goes once a record is written.
AfterPut(r) ==
    IF r.writes # <<>> THEN r
    ELSE CASE r.then = "identity" -> AfterIdentity(r.caller, r.own)
           [] r.then = "own"      -> [op |-> "identity", then |-> "own", cert |-> r.cert]
           [] r.then = "issued"   -> [op |-> "issued", cert |-> r.cert]

\* idbSet, one record.
Put(c) ==
    /\ call[c].op = "put"
    /\ LET w == Head(call[c].writes)
       IN  idb' = [idb EXCEPT ![w.field] = w.value]
    /\ Goes(c, AfterPut([call[c] EXCEPT !.writes = Tail(@)]))
    /\ UNCHANGED <<dek, keys, sigs, certs, now>>

ReadTrust(c) ==
    /\ call[c].op = "readTrust"
    /\ Goes(c, [op |-> "sign", caps |-> call[c].caps, device |-> call[c].device,
                from |-> now, sealed |-> idb.trustSeed])
    /\ UNCHANGED <<dek, idb, keys, sigs, certs, now>>

\* trust_seed: with nothing sealed a fresh seed; what is sealed under another
\* data key does not open.
OpensTrust(sealed) == sealed # None => sealed.dek = dek
TrustKey(sealed) == IF sealed = None THEN <<"trust", keys + 1>> ELSE sealed.key

\* A provisioned seed that is never saved.
SignCertUnsaved(c) ==
    /\ call[c].op = "sign"
    /\ OpensTrust(call[c].sealed)
    /\ call[c].sealed = None => keys < MaxKeys
    /\ keys' = keys + (IF call[c].sealed = None THEN 1 ELSE 0)
    /\ LET r    == call[c]
           root == TrustKey(r.sealed)
           cert == IssueCert(root, r.device, r.caps, r.from, r.from + 1)
       IN  /\ sigs' = sigs \cup {[sig |-> cert.sig,
                                  asked |-> [what |-> "cert", by |-> root, device |-> r.device,
                                             scopes |-> Scopes(r.caps), from |-> r.from]]}
           /\ Goes(c, [op |-> "identity", then |-> "own", cert |-> cert])
    /\ UNCHANGED <<dek, idb, certs, now>>

\* session_issue_device_cert
SignCert(c) ==
    /\ call[c].op = "sign"
    /\ OpensTrust(call[c].sealed)
    /\ call[c].sealed = None => keys < MaxKeys
    /\ keys' = keys + (IF call[c].sealed = None THEN 1 ELSE 0)
    /\ LET r    == call[c]
           root == TrustKey(r.sealed)
           cert == IssueCert(root, r.device, r.caps, r.from, r.from + 1)
       IN  /\ sigs' = sigs \cup {[sig |-> cert.sig,
                                  asked |-> [what |-> "cert", by |-> root, device |-> r.device,
                                             scopes |-> Scopes(r.caps), from |-> r.from]]}
           /\ Goes(c, [op |-> "put", then |-> "own", cert |-> cert,
                       writes |-> <<[field |-> "trustSeed",
                                     value |-> [dek |-> dek, key |-> root]]>>])
    /\ UNCHANGED <<dek, idb, certs, now>>

SignRefused(c) ==
    /\ call[c].op = "sign" /\ ~OpensTrust(call[c].sealed)
    /\ Goes(c, Idle)
    /\ UNCHANGED <<dek, idb, keys, sigs, certs, now>>

Issued(c) ==
    /\ call[c].op = "issued"
    /\ certs' = certs \cup {call[c].cert}
    /\ Goes(c, Idle)
    /\ UNCHANGED <<dek, idb, keys, sigs, now>>

\* attest() and relayAuth(): the worker signs with keys of the data key.  The
\* claim is the application's: a text, or the claim of a certificate it has.
Attest ==
    /\ Cardinality(sigs) < MaxSigs
    /\ \E claim \in {[text |-> TRUE]} \cup {x.claim : x \in certs} :
          sigs' = sigs \cup {[sig |-> AttestWithSeed(IdentityKey(dek), claim, Foreign, now, now + 1),
                              asked |-> [what |-> "attestation", by |-> IdentityKey(dek)]]}
    /\ UNCHANGED <<dek, idb, call, keys, certs, now>>

AuthorizeRelay ==
    /\ Cardinality(sigs) < MaxSigs
    /\ \E method \in {Push} \cup Reads :
       \E arg \in IF method = Push THEN {1, 2} ELSE {NoBlob} :
          sigs' = sigs \cup {[sig |-> RelaySign(dek, "db", method, arg),
                              asked |-> [what |-> "relay", by |-> RelayKey(dek, "db"),
                                         method |-> method, arg |-> arg]]}
    /\ UNCHANGED <<dek, idb, call, keys, certs, now>>

\* rotateKey(), whole: the vault has a new data key.  The sealed trust seed
\* is not touched.
Rotate ==
    /\ dek < MaxRotations
    /\ Overlaps \/ \A c \in Calls : call[c] = Idle
    /\ dek' = dek + 1
    /\ UNCHANGED <<idb, call, keys, sigs, certs, now>>

\* The tab is closed: calls in flight are gone, IndexedDB stays.
CloseTab ==
    /\ \E c \in Calls : call[c] # Idle
    /\ call' = [c \in Calls |-> Idle]
    /\ UNCHANGED <<dek, idb, keys, sigs, certs, now>>

Tick ==
    /\ now < MaxTime /\ now' = now + 1
    /\ UNCHANGED <<dek, idb, call, keys, sigs, certs>>

-----------------------------------------------------------------------------
Init ==
    /\ dek = 0 /\ keys = 0 /\ now = 0
    /\ idb = [f \in {"idKey", "idWrap", "idPub", "certId", "trustSeed", "cert"} |-> None]
    /\ call = [c \in Calls |-> Idle]
    /\ sigs = {} /\ certs = {}

Step(c) == \/ StartDeviceId(c) \/ StartIssue(c) \/ ReadIdentity(c) \/ Keygen(c) \/ Put(c)
           \/ ReadTrust(c) \/ SignCert(c) \/ SignRefused(c) \/ Issued(c)

Next == (\E c \in Calls : Step(c)) \/ Attest \/ AuthorizeRelay \/ Rotate \/ CloseTab \/ Tick

Spec == Init /\ [][Next]_vars

-----------------------------------------------------------------------------
(* Properties *)

\* Type invariant.
TypeOK ==
    /\ dek \in 0 .. MaxRotations /\ keys \in 0 .. MaxKeys /\ now \in 0 .. MaxTime
    /\ \A f \in {"idKey", "idWrap", "idPub", "certId"} : idb[f] \in DeviceKeys \cup {None}
    /\ idb.trustSeed = None \/ (idb.trustSeed.dek \in 0 .. dek /\ idb.trustSeed.key \in TrustKeys)
    /\ \A c \in Calls : call[c].op \in {"idle", "identity", "keygen", "put", "readTrust",
                                         "sign", "issued"}
    /\ \A x \in certs : x.sig.key \in TrustKeys /\ CapsWellFormed(x.claim.caps)

\* SignedForIt: no signature the vault ever made serves another purpose than
\* the one it was asked for.  A certificate that verifies was issued by that
\* trust key for that device, with those scopes, in that window; a relay
\* request that is authorized was signed for that method and, if a push, for
\* that blob (canonical_message of attest.rs and relay_auth.rs, the checks of
\* verify_device_cert, authorize of the relay).
SignedForIt ==
    \A s \in sigs :
        /\ \A t \in TrustKeys \cup {s.sig.key}, d \in DeviceKeys, time \in 0 .. MaxTime :
              LET claim == IF s.sig.msg.domain = "attestation" THEN s.sig.msg.claim ELSE [text |-> TRUE]
              IN  VerifyCert(t, claim, d, s.sig, time) =>
                     /\ s.asked.what = "cert" /\ s.asked.by = t /\ s.asked.device = d
                     /\ s.asked.scopes = Range(claim.caps)
                     /\ time \in s.asked.from .. s.asked.from + 1
        /\ \A method \in {Push} \cup Reads, blob \in {1, 2} :
              Authorize(method, s.sig.key, s.sig.key, blob, s.sig) =>
                 /\ s.asked.what = "relay" /\ s.asked.by = s.sig.key
                 /\ s.asked.method = method
                 /\ method = Push => s.asked.arg = blob

\* OneRoot: every certificate the application was given, and the one stored,
\* chains to the trust key whose seed is stored: the root is provisioned once
\* and never replaced, whatever is interrupted (trust_seed, issueDeviceCert).
OneRoot ==
    \A x \in certs \cup ({idb.cert} \ {None}) :
        idb.trustSeed # None /\ x.claim.trust = idb.trustSeed.key

\* OwnCert: the stored certificate is this device's: it is for the stored
\* device key and verifies under the stored root at every time of its window.
OwnCert ==
    idb.cert # None =>
        /\ idb.cert.claim.device = idb.idPub
        /\ \A time \in idb.cert.claim.from .. idb.cert.claim.to :
              VerifyCert(idb.cert.claim.trust, idb.cert.claim, idb.idPub, idb.cert.sig, time)

\* IdentityWhole: a device that has a public key has the id that goes with it,
\* and the seed wrapped under the key that is stored (#deviceIdentity).
IdentityWhole ==
    (\A c \in Calls : call[c] = Idle) =>
        /\ idb.certId = idb.idPub
        /\ idb.idPub # None => idb.idKey = idb.idPub /\ idb.idWrap = idb.idPub

\* RootUsable: the vault can certify a device: what it sealed, it can open
\* (trust_seed, rotateKey).
RootUsable == (\A c \in Calls : call[c] = Idle) => OpensTrust(idb.trustSeed)
=============================================================================
