---------------------------- MODULE TrustProofs ----------------------------
(***************************************************************************)
(* Theorems about Trust, for any number of calls, keys, signatures,        *)
(* rotations and scope lists: no signature serves another purpose, and     *)
(* while calls do not overlap certificates chain to one root and the       *)
(* stored one is the device's own.                                         *)
(***************************************************************************)
EXTENDS Trust, FiniteSetTheorems, TLAPS

-----------------------------------------------------------------------------
(* Scope lists *)

LEMMA ScopesFinite ==
    ASSUME NEW caps \in Seq(Nat)
    PROVE  IsFiniteSet(Scopes(caps)) /\ Scopes(caps) \subseteq Nat
<1>1. IsFiniteSet(1 .. Len(caps))  BY FS_Interval
<1>2. Range(caps) = {caps[i] : i \in 1 .. Len(caps)}  BY DEF Range
<1>3. caps \in Surjection(1 .. Len(caps), Range(caps))
  <2>1. caps \in [1 .. Len(caps) -> Range(caps)]  BY <1>2
  <2> QED  BY <1>2, <2>1 DEF Surjection
<1>4. IsFiniteSet(Range(caps))  BY <1>1, <1>3, FS_Surjection
<1>5. Scopes(caps) \in SUBSET Range(caps)  BY DEF Scopes
<1>6. IsFiniteSet(Scopes(caps))  BY <1>4, <1>5, FS_Subset
<1>7. Scopes(caps) \subseteq Nat  BY <1>2 DEF Scopes
<1> QED  BY <1>6, <1>7

\* In a finite set of numbers every rank is taken: the number of smaller
\* members is an injection into, hence onto, 0 .. size - 1.
LEMMA RanksTaken ==
    ASSUME NEW S, S \subseteq Nat, IsFiniteSet(S)
    PROVE  /\ Cardinality(S) \in Nat
           /\ \A s \in S : Cardinality({t \in S : t < s}) \in 0 .. Cardinality(S) - 1
           /\ \A i \in 0 .. Cardinality(S) - 1 :
                 \E s \in S : Cardinality({t \in S : t < s}) = i
           /\ \A r, s \in S :
                 Cardinality({t \in S : t < r}) = Cardinality({t \in S : t < s}) => r = s
<1> DEFINE n == Cardinality(S)
           below(s) == {t \in S : t < s}
           f == [s \in S |-> Cardinality(below(s))]
<1>1. n \in Nat  BY FS_CardinalityType
<1>2. \A s \in S : below(s) \in SUBSET S /\ s \notin below(s)  OBVIOUS
<1>3. \A s \in S : IsFiniteSet(below(s))
  <2> TAKE s \in S
  <2> QED  BY <1>2, FS_Subset
<1>4. \A s \in S : Cardinality(below(s)) \in Nat  BY <1>3, FS_CardinalityType
<1>5. \A s \in S : Cardinality(below(s)) < n
  <2> TAKE s \in S
  <2>1. below(s) \in SUBSET S /\ below(s) # S  BY <1>2
  <2>2. Cardinality(below(s)) <= n /\ n # Cardinality(below(s))
    <3> HIDE DEF below
    <3> QED  BY <2>1, FS_Subset
  <2> QED  BY <2>2, <1>1, <1>4
<1>6. \A r, s \in S : r < s => Cardinality(below(r)) < Cardinality(below(s))
  <2> SUFFICES ASSUME NEW r \in S, NEW s \in S, r < s
               PROVE  Cardinality(below(r)) < Cardinality(below(s))
    OBVIOUS
  <2>0. r \in Nat /\ s \in Nat /\ \A t \in S : t \in Nat  OBVIOUS
  <2>1. below(r) \in SUBSET below(s) /\ r \in below(s) /\ r \notin below(r)
    <3>1. \A t \in S : t < r => t < s  BY <2>0
    <3>2. below(r) \subseteq below(s)  BY <3>1
    <3>3. r \in below(s)  OBVIOUS
    <3>4. ~(r < r)  BY <2>0
    <3>5. r \notin below(r)  BY <3>4
    <3> QED  BY <3>2, <3>3, <3>5
  <2>2. IsFiniteSet(below(s))  BY <1>3
  <2>3. Cardinality(below(r)) <= Cardinality(below(s))
        /\ Cardinality(below(s)) # Cardinality(below(r))
    <3> HIDE DEF below
    <3> QED  BY <2>1, <2>2, FS_Subset
  <2> QED  BY <2>3, <1>4
<1>7. \A r, s \in S : Cardinality(below(r)) = Cardinality(below(s)) => r = s
  <2> SUFFICES ASSUME NEW r \in S, NEW s \in S, r # s
               PROVE  Cardinality(below(r)) # Cardinality(below(s))
    OBVIOUS
  <2>1. r \in Nat /\ s \in Nat  OBVIOUS
  <2>2. r < s \/ s < r  BY <2>1
  <2> HIDE DEF below
  <2> QED  BY <2>2, <1>6, <1>4
<1>8. \A s \in S : f[s] = Cardinality(below(s)) /\ f[s] \in 0 .. n - 1
  BY <1>1, <1>4, <1>5
<1>9. f \in Injection(S, 0 .. n - 1)
  <2>1. f \in [S -> 0 .. n - 1]  BY <1>8
  <2>2. \A r, s \in S : f[r] = f[s] => r = s  BY <1>7, <1>8
  <2> HIDE DEF f
  <2> QED  BY <2>1, <2>2 DEF Injection, IsInjective
<1>10. IsFiniteSet(0 .. n - 1) /\ Cardinality(0 .. n - 1) = n
  <2> HIDE DEF n
  <2>1. /\ IsFiniteSet(0 .. n - 1)
        /\ Cardinality(0 .. n - 1) = IF 0 > n - 1 THEN 0 ELSE (n - 1) - 0 + 1
    BY <1>1, FS_Interval
  <2> QED  BY <1>1, <2>1
<1>11. f \in Surjection(S, 0 .. n - 1)
  <2> HIDE DEF f
  <2> QED  BY <1>9, <1>10, FS_Injection
<1>12. \A i \in 0 .. n - 1 : \E s \in S : f[s] = i  BY <1>11 DEF Surjection
<1> HIDE DEF f
<1> QED  BY <1>1, <1>7, <1>8, <1>12

\* canonicalize_caps keeps the scopes, and what it returns is well formed.
LEMMA CanonKeeps ==
    ASSUME NEW caps \in Seq(Nat)
    PROVE  /\ Range(CanonicalizeCaps(caps)) = Scopes(caps)
           /\ CapsWellFormed(CanonicalizeCaps(caps))
<1> DEFINE S == Scopes(caps)
           n == Cardinality(S)
           rank(s) == Cardinality({t \in S : t < s})
           canon == CanonicalizeCaps(caps)
<1>1. IsFiniteSet(S) /\ S \subseteq Nat  BY ScopesFinite
<1>2. /\ n \in Nat
      /\ \A s \in S : rank(s) \in 0 .. n - 1
      /\ \A i \in 0 .. n - 1 : \E s \in S : rank(s) = i
      /\ \A r, s \in S : rank(r) = rank(s) => r = s
  <2> HIDE DEF S
  <2> QED  BY <1>1, RanksTaken
<1>3. canon = [i \in 1 .. n |-> CHOOSE s \in S : rank(s) = i - 1]  BY DEF CanonicalizeCaps
<1>4. \A i \in 1 .. n : canon[i] \in S /\ rank(canon[i]) = i - 1
  <2> TAKE i \in 1 .. n
  <2>1. i - 1 \in 0 .. n - 1
    <3> HIDE DEF n
    <3> QED  BY <1>2
  <2>2. \E s \in S : rank(s) = i - 1  BY <1>2, <2>1
  <2>3. canon[i] = CHOOSE s \in S : rank(s) = i - 1  BY <1>3
  <2> HIDE DEF canon, rank, S
  <2> QED  BY <2>2, <2>3
<1>5. DOMAIN canon = 1 .. n  BY <1>3
<1>6. \A s \in S : \E i \in 1 .. n : canon[i] = s
  <2> TAKE s \in S
  <2>1. PICK i \in 1 .. n : i - 1 = rank(s)
    <3>1. rank(s) \in 0 .. n - 1 /\ n \in Nat  BY <1>2
    <3>2. rank(s) + 1 \in 1 .. n /\ (rank(s) + 1) - 1 = rank(s)
      <4> HIDE DEF rank, n
      <4> QED  BY <3>1
    <3> QED  BY <3>2
  <2>2. canon[i] \in S /\ rank(canon[i]) = rank(s)
    <3> HIDE DEF rank, n, S, canon
    <3> QED  BY <2>1, <1>4
  <2>3. canon[i] = s
    <3> HIDE DEF rank, n, S, canon
    <3> QED  BY <2>2, <1>2
  <2> QED  BY <2>3
<1>7. Range(canon) = S
  <2> HIDE DEF S, canon, n
  <2> QED  BY <1>4, <1>5, <1>6 DEF Range
<1>8. Scopes(canon) = S  BY <1>7 DEF Scopes
<1>9. CanonicalizeCaps(canon) = canon
  <2> HIDE DEF canon
  <2>1. CanonicalizeCaps(canon) = [i \in 1 .. n |-> CHOOSE s \in S : rank(s) = i - 1]
    BY <1>8 DEF CanonicalizeCaps
  <2> QED  BY <2>1, <1>3
<1>10. 0 \notin S  BY DEF Scopes
<1> QED  BY <1>7, <1>9, <1>10 DEF CapsWellFormed

-----------------------------------------------------------------------------
(* What a call may hold.  A record read from IndexedDB or about to be written
   there is a device key, a sealed trust seed, or a certificate that the
   worker issued. *)

Certs == {IssueCert(t, d, caps, f, f + 1) :
              t \in TrustKeys, d \in DeviceKeys, caps \in CapsInputs, f \in 0 .. MaxTime}

\* A call in #deviceIdentity, with what it goes on to do.
Asks == [op : {"identity", "keygen"}, then : {"return"}]
        \cup [op : {"identity", "keygen"}, then : {"readTrust"}, caps : CapsInputs]
        \cup [op : {"identity", "keygen"}, then : {"own"}, cert : Certs]

\* What is left to write of a new device key: the certificate id comes last.
LastWrite(k) == <<[field |-> "certId", value |-> k]>>
EarlierWrites(k) ==
    {<<[field |-> "idKey",  value |-> k], [field |-> "idWrap", value |-> k],
       [field |-> "idPub",  value |-> k], [field |-> "certId", value |-> k]>>,
     <<[field |-> "idWrap", value |-> k], [field |-> "idPub",  value |-> k],
       [field |-> "certId", value |-> k]>>,
     <<[field |-> "idPub",  value |-> k], [field |-> "certId", value |-> k]>>}

IsIdPut(r) ==
    \E ask \in Asks, k \in DeviceKeys : \E w \in EarlierWrites(k) \cup {LastWrite(k)} :
        r = [op |-> "put", then |-> "identity", caller |-> ask, own |-> k, writes |-> w]
IsSealPut(r, d) ==
    \E x \in Certs, v \in Seals(d) :
        r = [op |-> "put", then |-> "own", cert |-> x,
             writes |-> <<[field |-> "trustSeed", value |-> v]>>]
IsCertPut(r) ==
    \E x \in Certs :
        r = [op |-> "put", writes |-> <<[field |-> "cert", value |-> x]>>,
             then |-> "issued", cert |-> x]

IsCall(r, d) ==
    \/ r = Idle
    \/ r \in Asks
    \/ IsIdPut(r) \/ IsSealPut(r, d) \/ IsCertPut(r)
    \/ r \in [op : {"readTrust"}, caps : CapsInputs, device : DeviceKeys]
    \/ r \in [op : {"sign"}, caps : CapsInputs, device : DeviceKeys,
               from : 0 .. MaxTime, sealed : Seals(d) \cup {None}]
    \/ r \in [op : {"issued"}, cert : Certs]

\* The three kinds of signatures, each with what it was asked for.
IsCertSig(s) ==
    \E t \in TrustKeys, d \in DeviceKeys, caps \in CapsInputs, f \in 0 .. MaxTime :
        s = [sig |-> IssueCert(t, d, caps, f, f + 1).sig,
             asked |-> [what |-> "cert", by |-> t, device |-> d, scopes |-> Scopes(caps),
                        from |-> f]]
IsAttestation(s) ==
    \E k \in 0 .. MaxRotations, n \in 0 .. MaxTime :
    \E claim \in {[text |-> TRUE]} \cup {x.claim : x \in Certs} :
        s = [sig |-> AttestWithSeed(IdentityKey(k), claim, Foreign, n, n + 1),
             asked |-> [what |-> "attestation", by |-> IdentityKey(k)]]
IsRelaySig(s) ==
    \E k \in 0 .. MaxRotations, method \in {Push} \cup Reads, arg \in {NoBlob, 1, 2} :
        s = [sig |-> RelaySign(k, "db", method, arg),
             asked |-> [what |-> "relay", by |-> RelayKey(k, "db"),
                        method |-> method, arg |-> arg]]

Records(d) ==
    [idKey : DeviceKeys \cup {None}, idWrap : DeviceKeys \cup {None},
     idPub : DeviceKeys \cup {None}, certId : DeviceKeys \cup {None},
     trustSeed : Seals(d) \cup {None}, cert : Certs \cup {None}]

TypeInv ==
    /\ dek \in 0 .. MaxRotations /\ keys \in 0 .. MaxKeys /\ now \in 0 .. MaxTime
    /\ idb \in Records(dek)
    /\ call = [c \in Calls |-> call[c]]
    /\ \A c \in Calls : IsCall(call[c], dek)
    /\ certs \subseteq Certs
    /\ \A s \in sigs : IsCertSig(s) \/ IsAttestation(s) \/ IsRelaySig(s)

(* With one call at a time, a call holds no more than what is stored, but for
   the seed and the key that it is about to store itself. *)

OneAtATime ==
    /\ ~Overlaps
    /\ \A a, b \in Calls : call[a] # Idle /\ call[b] # Idle => a = b

Chains(x) == idb.trustSeed # None /\ x.claim.trust = idb.trustSeed.key

CallChains(r) ==
    /\ r.op \in {"identity", "keygen"} /\ r.then = "own" => Chains(r.cert)
    /\ r.op = "put" /\ r.then = "identity" /\ r.caller.then = "own" => Chains(r.caller.cert)
    /\ r.op = "put" /\ r.then = "issued" => Chains(r.cert)
    /\ r.op = "issued" => Chains(r.cert)
    /\ r.op = "sign" => r.sealed = idb.trustSeed
    /\ r.op = "put" /\ r.then = "own" =>
          /\ r.cert.claim.trust = r.writes[1].value.key
          /\ idb.trustSeed # None => idb.trustSeed.key = r.writes[1].value.key

RootInv == OneRoot /\ \A c \in Calls : CallChains(call[c])

CallOwns(r) ==
    /\ r.op = "keygen" => idb.idPub = None
    /\ r.op = "put" /\ r.then = "identity" =>
          idb.idPub = IF r.writes = LastWrite(r.own) THEN r.own ELSE None
    /\ r.op = "put" /\ r.then = "issued" => r.cert.claim.device = idb.idPub

OwnInv ==
    /\ idb.cert # None => idb.cert.claim.device = idb.idPub
    /\ \A c \in Calls : CallOwns(call[c])

-----------------------------------------------------------------------------
(* Types *)

LEMMA CertFacts ==
    ASSUME NEW x \in Certs
    PROVE  /\ x.claim.trust \in TrustKeys /\ x.sig.key = x.claim.trust
           /\ x.claim.device \in DeviceKeys /\ x.claim.id = x.claim.device
           /\ x.sig.msg = AttestMessage(x.claim, x.claim.id, x.claim.from, x.claim.to)
           /\ IsCertClaim(x.claim)
           /\ CapsWellFormed(x.claim.caps)
<1>1. PICK t \in TrustKeys, d \in DeviceKeys, caps \in CapsInputs, f \in 0 .. MaxTime :
          x = IssueCert(t, d, caps, f, f + 1)
  BY DEF Certs
<1> DEFINE claim == BuildClaim(t, d, caps, f, f + 1)
<1>2. x = [claim |-> claim, sig |-> AttestWithSeed(t, claim, d, f, f + 1)]
  BY <1>1 DEF IssueCert
<1>3. CapsWellFormed(CanonicalizeCaps(caps))  BY CanonKeeps, TrustAssumption
<1>4. claim.caps = CanonicalizeCaps(caps)  BY DEF BuildClaim
<1> QED  BY <1>2, <1>3, <1>4 DEF BuildClaim, AttestWithSeed, Sign, IsCertClaim

LEMMA IssuedIsCert ==
    ASSUME NEW t \in TrustKeys, NEW d \in DeviceKeys, NEW caps \in CapsInputs, NEW f \in 0 .. MaxTime
    PROVE  /\ IssueCert(t, d, caps, f, f + 1) \in Certs
           /\ IssueCert(t, d, caps, f, f + 1).claim.trust = t
<1>1. IssueCert(t, d, caps, f, f + 1) \in Certs  BY DEF Certs
<1>2. IssueCert(t, d, caps, f, f + 1).claim.trust = t  BY DEF IssueCert, BuildClaim
<1> QED  BY <1>1, <1>2

LEMMA AskKinds ==
    ASSUME NEW r \in Asks
    PROVE  /\ r.op \in {"identity", "keygen"}
           /\ r.then \in {"return", "readTrust", "own"}
           /\ r.then = "readTrust" => r.caps \in CapsInputs
           /\ r.then = "own" => r.cert \in Certs
           /\ [r EXCEPT !.op = "keygen"] \in Asks
           /\ [r EXCEPT !.op = "keygen"].op = "keygen"
           /\ [r EXCEPT !.op = "keygen"].then = r.then
           /\ r.then = "own" => [r EXCEPT !.op = "keygen"].cert = r.cert
<1>1. CASE r \in [op : {"identity", "keygen"}, then : {"return"}]  BY <1>1 DEF Asks
<1>2. CASE r \in [op : {"identity", "keygen"}, then : {"readTrust"}, caps : CapsInputs]
  BY <1>2 DEF Asks
<1>3. CASE r \in [op : {"identity", "keygen"}, then : {"own"}, cert : Certs]
  BY <1>3 DEF Asks
<1> QED  BY <1>1, <1>2, <1>3 DEF Asks

\* What follows #deviceIdentity, case by case.
LEMMA AfterIdentityCases ==
    ASSUME NEW r, NEW own
    PROVE  /\ r.then = "return" => AfterIdentity(r, own) = Idle
           /\ r.then = "readTrust" =>
                 AfterIdentity(r, own) = [op |-> "readTrust", caps |-> r.caps, device |-> own]
           /\ r.then = "own" /\ r.cert.claim.device = own =>
                 AfterIdentity(r, own) =
                    [op |-> "put", writes |-> <<[field |-> "cert", value |-> r.cert]>>,
                     then |-> "issued", cert |-> r.cert]
           /\ r.then = "own" /\ r.cert.claim.device # own =>
                 AfterIdentity(r, own) = [op |-> "issued", cert |-> r.cert]
  BY DEF AfterIdentity

LEMMA AfterIdentityType ==
    ASSUME NEW r \in Asks, NEW own \in DeviceKeys, NEW d
    PROVE  IsCall(AfterIdentity(r, own), d)
<1>1. CASE r.then = "return"  BY <1>1, AfterIdentityCases DEF IsCall
<1>2. CASE r.then = "readTrust"
  <2>1. r.caps \in CapsInputs  BY <1>2, AskKinds
  <2> QED  BY <1>2, <2>1, AfterIdentityCases DEF IsCall
<1>3. CASE r.then = "own"
  <2>1. r.cert \in Certs  BY <1>3, AskKinds
  <2>2. CASE r.cert.claim.device = own
    <3>1. IsCertPut(AfterIdentity(r, own))  BY <1>3, <2>1, <2>2, AfterIdentityCases DEF IsCertPut
    <3> QED  BY <3>1 DEF IsCall
  <2>3. CASE r.cert.claim.device # own
    BY <1>3, <2>1, <2>3, AfterIdentityCases DEF IsCall
  <2> QED  BY <2>2, <2>3
<1> QED  BY <1>1, <1>2, <1>3, AskKinds

\* The step of a call from one record to the next.
LEMMA CallStep ==
    ASSUME TypeInv, NEW c \in Calls, NEW r, Goes(c, r)
    PROVE  /\ call'[c] = r
           /\ \A b \in Calls : b # c => call'[b] = call[b]
           /\ call' = [b \in Calls |-> call'[b]]
  BY DEF TypeInv, Goes

LEMMA CallStepType ==
    ASSUME TypeInv, NEW c \in Calls, NEW r, Goes(c, r), IsCall(r, dek)
    PROVE  /\ call' = [b \in Calls |-> call'[b]]
           /\ \A b \in Calls : IsCall(call'[b], dek)
<1>1. \A b \in Calls : IsCall(call[b], dek)  BY DEF TypeInv
<1> QED  BY <1>1, CallStep

LEMMA IdPutShape ==
    ASSUME NEW r, IsIdPut(r)
    PROVE  /\ r.op = "put" /\ r.then = "identity" /\ r.caller \in Asks /\ r.own \in DeviceKeys
           /\ r.writes \in EarlierWrites(r.own) \/ r.writes = LastWrite(r.own)
           /\ r = [op |-> "put", then |-> "identity", caller |-> r.caller, own |-> r.own,
                   writes |-> r.writes]
<1>1. PICK ask \in Asks, k \in DeviceKeys : \E w \in EarlierWrites(k) \cup {LastWrite(k)} :
        r = [op |-> "put", then |-> "identity", caller |-> ask, own |-> k, writes |-> w]
  BY DEF IsIdPut
<1>2. PICK w \in EarlierWrites(k) \cup {LastWrite(k)} :
        r = [op |-> "put", then |-> "identity", caller |-> ask, own |-> k, writes |-> w]
  BY <1>1
<1> QED  BY <1>2

LEMMA SealPutShape ==
    ASSUME NEW r, NEW d, IsSealPut(r, d)
    PROVE  /\ r.op = "put" /\ r.then = "own" /\ r.cert \in Certs
           /\ r.writes = <<r.writes[1]>> /\ r.writes[1].field = "trustSeed"
           /\ r.writes[1].value \in Seals(d)
  BY DEF IsSealPut

LEMMA CertPutShape ==
    ASSUME NEW r, IsCertPut(r)
    PROVE  /\ r.op = "put" /\ r.then = "issued" /\ r.cert \in Certs
           /\ r.writes = <<[field |-> "cert", value |-> r.cert]>>
  BY DEF IsCertPut

\* The step of a call tells what it holds.
LEMMA CallKinds ==
    ASSUME NEW r, NEW d, IsCall(r, d)
    PROVE  /\ r.op \in {"idle", "identity", "keygen", "put", "readTrust", "sign", "issued"}
           /\ r.op = "idle" => r = Idle
           /\ r.op \in {"identity", "keygen"} => r \in Asks
           /\ r.op = "put" => IsIdPut(r) \/ IsSealPut(r, d) \/ IsCertPut(r)
           /\ r.op = "readTrust" => r.caps \in CapsInputs /\ r.device \in DeviceKeys
           /\ r.op = "sign" => /\ r.caps \in CapsInputs /\ r.device \in DeviceKeys
                               /\ r.from \in 0 .. MaxTime /\ r.sealed \in Seals(d) \cup {None}
           /\ r.op = "issued" => r.cert \in Certs
<1>1. CASE r = Idle  BY <1>1 DEF Idle
<1>2. CASE r \in Asks  BY <1>2, AskKinds
<1>3. CASE IsIdPut(r)  BY <1>3, IdPutShape
<1>4. CASE IsSealPut(r, d)  BY <1>4, SealPutShape
<1>5. CASE IsCertPut(r)  BY <1>5, CertPutShape
<1>6. CASE r \in [op : {"readTrust"}, caps : CapsInputs, device : DeviceKeys]  BY <1>6
<1>7. CASE r \in [op : {"sign"}, caps : CapsInputs, device : DeviceKeys,
                  from : 0 .. MaxTime, sealed : Seals(d) \cup {None}]
  BY <1>7
<1>8. CASE r \in [op : {"issued"}, cert : Certs]  BY <1>8
<1> QED  BY <1>1, <1>2, <1>3, <1>4, <1>5, <1>6, <1>7, <1>8 DEF IsCall

\* A later data key opens no fewer seals to a call.
LEMMA CallGrows ==
    ASSUME NEW r, NEW d \in Nat, IsCall(r, d)
    PROVE  IsCall(r, d + 1)
<1>1. \A v \in Seals(d) : v \in Seals(d + 1)  BY DEF Seals
<1>2. IsSealPut(r, d) => IsSealPut(r, d + 1)  BY <1>1 DEF IsSealPut
<1>3. r \in [op : {"sign"}, caps : CapsInputs, device : DeviceKeys,
             from : 0 .. MaxTime, sealed : Seals(d) \cup {None}]
      => r \in [op : {"sign"}, caps : CapsInputs, device : DeviceKeys,
                from : 0 .. MaxTime, sealed : Seals(d + 1) \cup {None}]
  BY <1>1
<1> QED  BY <1>2, <1>3 DEF IsCall

(* A write of IndexedDB, by what the call is writing. *)

LEMMA AfterPutCases ==
    ASSUME NEW r
    PROVE  /\ r.writes # <<>> => AfterPut(r) = r
           /\ r.writes = <<>> /\ r.then = "identity" => AfterPut(r) = AfterIdentity(r.caller, r.own)
           /\ r.writes = <<>> /\ r.then = "own" =>
                 AfterPut(r) = [op |-> "identity", then |-> "own", cert |-> r.cert]
           /\ r.writes = <<>> /\ r.then = "issued" =>
                 AfterPut(r) = [op |-> "issued", cert |-> r.cert]
  BY DEF AfterPut

\* A write of a new device key that leaves others to write.
WritesKey(c, r) ==
    /\ Goes(c, r) /\ IsIdPut(r)
    /\ r.own = call[c].own /\ r.caller = call[c].caller
    /\ \/ /\ r.writes = LastWrite(r.own)
          /\ idb' = [idb EXCEPT !["idPub"] = r.own]
       \/ /\ r.writes # LastWrite(r.own)
          /\ \/ idb' = [idb EXCEPT !["idKey"] = r.own]
             \/ idb' = [idb EXCEPT !["idWrap"] = r.own]

LEMMA IdPutTail ==
    ASSUME NEW ask, NEW k, NEW w, NEW t
    PROVE  [[op |-> "put", then |-> "identity", caller |-> ask, own |-> k, writes |-> w]
               EXCEPT !.writes = t]
           = [op |-> "put", then |-> "identity", caller |-> ask, own |-> k, writes |-> t]
  OBVIOUS

\* The record that Put writes.
LEMMA PutWrites ==
    ASSUME NEW c \in Calls, Put(c), NEW w, Head(call[c].writes) = w, NEW f, NEW v, w.field = f, w.value = v
    PROVE  idb' = [idb EXCEPT ![f] = v]
  BY DEF Put

LEMMA PutEarlier ==
    ASSUME NEW c \in Calls, Put(c), IsIdPut(call[c]), call[c].writes # LastWrite(call[c].own)
    PROVE  \E r : WritesKey(c, r)
<1>1. PICK ask \in Asks, k \in DeviceKeys : \E w \in EarlierWrites(k) \cup {LastWrite(k)} :
        call[c] = [op |-> "put", then |-> "identity", caller |-> ask, own |-> k, writes |-> w]
  BY DEF IsIdPut
<1>2. PICK w \in EarlierWrites(k) \cup {LastWrite(k)} :
        call[c] = [op |-> "put", then |-> "identity", caller |-> ask, own |-> k, writes |-> w]
  BY <1>1
<1>3. call[c].own = k /\ call[c].caller = ask /\ call[c].writes = w  BY <1>2
<1> DEFINE a == [field |-> "idKey",  value |-> k]
           b == [field |-> "idWrap", value |-> k]
           e == [field |-> "idPub",  value |-> k]
           f == [field |-> "certId", value |-> k]
           r == [op |-> "put", then |-> "identity", caller |-> ask, own |-> k, writes |-> Tail(w)]
<1>4. [call[c] EXCEPT !.writes = Tail(@)] = r
  <2>1. [call[c] EXCEPT !.writes = Tail(@)] = [call[c] EXCEPT !.writes = Tail(w)]  BY <1>3
  <2>2. PICK t : t = Tail(w)  OBVIOUS
  <2>3. [call[c] EXCEPT !.writes = t]
        = [op |-> "put", then |-> "identity", caller |-> ask, own |-> k, writes |-> t]
    BY <1>2, IdPutTail
  <2> QED  BY <2>1, <2>2, <2>3
<1>5. Goes(c, AfterPut(r))
  <2> HIDE DEF r
  <2> QED  BY <1>4 DEF Put
<1>6. r.writes = Tail(w) /\ r.own = k /\ r.caller = ask  OBVIOUS
<1>7. Tail(w) \in EarlierWrites(k) \cup {LastWrite(k)} => IsIdPut(r)  BY DEF IsIdPut
<1>8. Tail(w) # <<>> => Goes(c, r)
  <2> HIDE DEF r
  <2> QED  BY <1>5, <1>6, AfterPutCases
<1>9. CASE w = <<a, b, e, f>>
  <2>1. Head(w) = a /\ Tail(w) = <<b, e, f>>  BY <1>9
  <2>2. Tail(w) # <<>> /\ Tail(w) # LastWrite(k) /\ Tail(w) \in EarlierWrites(k)
    BY <2>1 DEF LastWrite, EarlierWrites
  <2>3. idb' = [idb EXCEPT !["idKey"] = k]  BY <1>3, <2>1, PutWrites
  <2> HIDE DEF r
  <2>4. WritesKey(c, r)  BY <1>3, <1>6, <1>7, <1>8, <2>2, <2>3 DEF WritesKey
  <2> QED  BY <2>4
<1>10. CASE w = <<b, e, f>>
  <2>1. Head(w) = b /\ Tail(w) = <<e, f>>  BY <1>10
  <2>2. Tail(w) # <<>> /\ Tail(w) # LastWrite(k) /\ Tail(w) \in EarlierWrites(k)
    BY <2>1 DEF LastWrite, EarlierWrites
  <2>3. idb' = [idb EXCEPT !["idWrap"] = k]  BY <1>3, <2>1, PutWrites
  <2> HIDE DEF r
  <2>4. WritesKey(c, r)  BY <1>3, <1>6, <1>7, <1>8, <2>2, <2>3 DEF WritesKey
  <2> QED  BY <2>4
<1>11. CASE w = <<e, f>>
  <2>1. Head(w) = e /\ Tail(w) = <<f>>  BY <1>11
  <2>2. Tail(w) # <<>> /\ Tail(w) = LastWrite(k)  BY <2>1 DEF LastWrite
  <2>3. idb' = [idb EXCEPT !["idPub"] = k]  BY <1>3, <2>1, PutWrites
  <2> HIDE DEF r
  <2>4. WritesKey(c, r)  BY <1>3, <1>6, <1>7, <1>8, <2>2, <2>3 DEF WritesKey
  <2> QED  BY <2>4
<1>12. w \in EarlierWrites(k)  BY <1>3
<1> QED  BY <1>9, <1>10, <1>11, <1>12 DEF EarlierWrites

LEMMA PutLast ==
    ASSUME NEW c \in Calls, Put(c), IsIdPut(call[c]), call[c].writes = LastWrite(call[c].own)
    PROVE  /\ idb' = [idb EXCEPT !["certId"] = call[c].own]
           /\ Goes(c, AfterIdentity(call[c].caller, call[c].own))
<1>1. PICK ask \in Asks, k \in DeviceKeys : \E w \in EarlierWrites(k) \cup {LastWrite(k)} :
        call[c] = [op |-> "put", then |-> "identity", caller |-> ask, own |-> k, writes |-> w]
  BY DEF IsIdPut
<1>2. PICK w \in EarlierWrites(k) \cup {LastWrite(k)} :
        call[c] = [op |-> "put", then |-> "identity", caller |-> ask, own |-> k, writes |-> w]
  BY <1>1
<1>3. call[c].own = k /\ call[c].caller = ask /\ call[c].writes = w /\ w = LastWrite(k)
  BY <1>2
<1>4. Head(w) = [field |-> "certId", value |-> k] /\ Tail(w) = <<>>  BY <1>3 DEF LastWrite
<1> DEFINE r == [op |-> "put", then |-> "identity", caller |-> ask, own |-> k, writes |-> <<>>]
<1>5. [call[c] EXCEPT !.writes = Tail(@)] = r
  <2>1. [call[c] EXCEPT !.writes = Tail(@)] = [call[c] EXCEPT !.writes = <<>>]  BY <1>3, <1>4
  <2> QED  BY <2>1, <1>2, IdPutTail
<1>6. r.writes = <<>> /\ r.then = "identity" /\ r.caller = ask /\ r.own = k  OBVIOUS
<1> HIDE DEF r
<1>7. AfterPut(r) = AfterIdentity(ask, k)  BY <1>6, AfterPutCases
<1>8. Goes(c, AfterPut(r))  BY <1>5 DEF Put
<1>9. idb' = [idb EXCEPT !["certId"] = k]  BY <1>3, <1>4, PutWrites
<1> QED  BY <1>3, <1>7, <1>8, <1>9

LEMMA PutSeal ==
    ASSUME NEW c \in Calls, Put(c), IsSealPut(call[c], dek)
    PROVE  /\ idb' = [idb EXCEPT !["trustSeed"] = call[c].writes[1].value]
           /\ Goes(c, [op |-> "identity", then |-> "own", cert |-> call[c].cert])
<1>1. PICK x \in Certs, v \in Seals(dek) :
        call[c] = [op |-> "put", then |-> "own", cert |-> x,
                   writes |-> <<[field |-> "trustSeed", value |-> v]>>]
  BY DEF IsSealPut
<1> DEFINE r == [op |-> "put", then |-> "own", cert |-> x, writes |-> <<>>]
<1>2. [call[c] EXCEPT !.writes = Tail(@)] = r  BY <1>1
<1>3. r.writes = <<>> /\ r.then = "own" /\ r.cert = x  OBVIOUS
<1>4. Head(call[c].writes) = [field |-> "trustSeed", value |-> v]
      /\ call[c].writes[1].value = v /\ call[c].cert = x
  BY <1>1
<1> HIDE DEF r
<1>5. AfterPut(r) = [op |-> "identity", then |-> "own", cert |-> x]  BY <1>3, AfterPutCases
<1>6. Goes(c, AfterPut(r))  BY <1>2 DEF Put
<1>7. idb' = [idb EXCEPT !["trustSeed"] = v]  BY <1>4, PutWrites
<1> QED  BY <1>4, <1>5, <1>6, <1>7

LEMMA PutCert ==
    ASSUME NEW c \in Calls, Put(c), IsCertPut(call[c])
    PROVE  /\ idb' = [idb EXCEPT !["cert"] = call[c].cert]
           /\ Goes(c, [op |-> "issued", cert |-> call[c].cert])
<1>1. PICK x \in Certs :
        call[c] = [op |-> "put", writes |-> <<[field |-> "cert", value |-> x]>>,
                   then |-> "issued", cert |-> x]
  BY DEF IsCertPut
<1> DEFINE r == [op |-> "put", writes |-> <<>>, then |-> "issued", cert |-> x]
<1>2. [call[c] EXCEPT !.writes = Tail(@)] = r  BY <1>1
<1>3. r.writes = <<>> /\ r.then = "issued" /\ r.cert = x  OBVIOUS
<1>4. Head(call[c].writes) = [field |-> "cert", value |-> x] /\ call[c].cert = x  BY <1>1
<1> HIDE DEF r
<1>5. AfterPut(r) = [op |-> "issued", cert |-> x]  BY <1>3, AfterPutCases
<1>6. Goes(c, AfterPut(r))  BY <1>2 DEF Put
<1>7. idb' = [idb EXCEPT !["cert"] = x]  BY <1>4, PutWrites
<1> QED  BY <1>4, <1>5, <1>6, <1>7

(* The type invariant, action by action. *)

LEMMA CallOnly ==
    ASSUME TypeInv, NEW c \in Calls, NEW r, Goes(c, r), IsCall(r, dek),
           UNCHANGED <<dek, idb, keys, sigs, certs, now>>
    PROVE  TypeInv'
<1>1. /\ call' = [b \in Calls |-> call'[b]]
      /\ \A b \in Calls : IsCall(call'[b], dek)
  BY CallStepType
<1> QED  BY <1>1 DEF TypeInv

LEMMA CallTyped ==
    ASSUME TypeInv, NEW c \in Calls
    PROVE  IsCall(call[c], dek)
  BY DEF TypeInv

LEMMA ForeignKey == Foreign \in DeviceKeys
  BY TrustAssumption DEF Foreign, DeviceKeys

\* How a call begins.
Beginning(r) ==
    \/ r = [op |-> "identity", then |-> "return"]
    \/ \E caps \in CapsInputs :
          \/ r = [op |-> "identity", then |-> "readTrust", caps |-> caps]
          \/ r = [op |-> "readTrust", caps |-> caps, device |-> Foreign]

LEMMA StartFacts ==
    ASSUME NEW c \in Calls, StartDeviceId(c) \/ StartIssue(c)
    PROVE  \E r : Beginning(r) /\ Goes(c, r)
<1>1. CASE StartDeviceId(c)  BY <1>1 DEF StartDeviceId, Beginning
<1>2. CASE StartIssue(c)
  <2>1. PICK caps \in CapsInputs :
          \/ Goes(c, [op |-> "identity", then |-> "readTrust", caps |-> caps])
          \/ Goes(c, [op |-> "readTrust", caps |-> caps, device |-> Foreign])
    BY <1>2 DEF StartIssue
  <2> QED  BY <2>1 DEF Beginning
<1> QED  BY <1>1, <1>2

LEMMA TypeStart ==
    ASSUME TypeInv, NEW c \in Calls, StartDeviceId(c) \/ StartIssue(c)
    PROVE  TypeInv'
<1>1. PICK r : Beginning(r) /\ Goes(c, r)  BY StartFacts
<1>2. CASE r = [op |-> "identity", then |-> "return"]
  <2>1. r \in Asks  BY <1>2 DEF Asks
  <2>2. IsCall(r, dek)  BY <2>1 DEF IsCall
  <2> QED  BY <1>1, <2>2, CallOnly DEF StartDeviceId, StartIssue
<1>3. ASSUME NEW caps \in CapsInputs, r = [op |-> "identity", then |-> "readTrust", caps |-> caps]
      PROVE  TypeInv'
  <2>1. r \in Asks  BY <1>3 DEF Asks
  <2>2. IsCall(r, dek)  BY <2>1 DEF IsCall
  <2> QED  BY <1>1, <2>2, CallOnly DEF StartDeviceId, StartIssue
<1>4. ASSUME NEW caps \in CapsInputs, r = [op |-> "readTrust", caps |-> caps, device |-> Foreign]
      PROVE  TypeInv'
  <2>1. IsCall(r, dek)  BY <1>4, ForeignKey DEF IsCall
  <2> QED  BY <1>1, <2>1, CallOnly DEF StartDeviceId, StartIssue
<1> QED  BY <1>1, <1>2, <1>3, <1>4 DEF Beginning

LEMMA TypeReadIdentity ==
    ASSUME TypeInv, NEW c \in Calls, ReadIdentity(c)
    PROVE  TypeInv'
<1>1. call[c] \in Asks  BY CallTyped, CallKinds DEF ReadIdentity
<1>2. idb.idPub \in DeviceKeys \cup {None}  BY DEF TypeInv, Records
<1>3. CASE idb.idPub # None
  <2>1. IsCall(AfterIdentity(call[c], idb.idPub), dek)  BY <1>1, <1>2, <1>3, AfterIdentityType
  <2>2. Goes(c, AfterIdentity(call[c], idb.idPub))  BY <1>3 DEF ReadIdentity
  <2> QED  BY <2>1, <2>2, CallOnly DEF ReadIdentity
<1>4. CASE idb.idPub = None
  <2>1. IsCall([call[c] EXCEPT !.op = "keygen"], dek)  BY <1>1, AskKinds DEF IsCall
  <2>2. Goes(c, [call[c] EXCEPT !.op = "keygen"])  BY <1>4 DEF ReadIdentity
  <2> QED  BY <2>1, <2>2, CallOnly DEF ReadIdentity
<1> QED  BY <1>3, <1>4

\* The four writes of a new device key.
LEMMA KeygenFacts ==
    ASSUME TypeInv, NEW c \in Calls, Keygen(c)
    PROVE  /\ call[c] \in Asks
           /\ keys + 1 \in 0 .. MaxKeys
           /\ \E r : /\ Goes(c, r) /\ IsIdPut(r)
                     /\ r.caller = call[c] /\ r.writes # LastWrite(r.own)
<1>1. call[c] \in Asks  BY CallTyped, CallKinds DEF Keygen
<1>2. keys + 1 \in 0 .. MaxKeys  BY TrustAssumption DEF TypeInv, Keygen
<1> DEFINE k == <<"device", keys + 1>>
           w == <<[field |-> "idKey",  value |-> k], [field |-> "idWrap", value |-> k],
                  [field |-> "idPub",  value |-> k], [field |-> "certId", value |-> k]>>
           r == [op |-> "put", then |-> "identity", caller |-> call[c], own |-> k, writes |-> w]
<1>3. k \in DeviceKeys  BY <1>2 DEF DeviceKeys
<1>4. w \in EarlierWrites(k) /\ w # LastWrite(k)  BY DEF EarlierWrites, LastWrite
<1>5. IsIdPut(r)
  <2> HIDE DEF w, k
  <2> QED  BY <1>1, <1>3, <1>4 DEF IsIdPut
<1>6. Goes(c, r)
  <2>1. r = [op |-> "put", then |-> "identity", caller |-> call[c], own |-> k, writes |-> w]
    OBVIOUS
  <2> QED  BY <2>1 DEF Keygen
<1>7. r.caller = call[c] /\ r.own = k /\ r.writes = w
  <2> HIDE DEF w, k
  <2> QED  OBVIOUS
<1> HIDE DEF w, k, r
<1> QED  BY <1>1, <1>2, <1>4, <1>5, <1>6, <1>7

LEMMA TypeKeygen ==
    ASSUME TypeInv, NEW c \in Calls, Keygen(c)
    PROVE  TypeInv'
<1>1. PICK r : Goes(c, r) /\ IsIdPut(r)  BY KeygenFacts
<1>2. IsCall(r, dek)  BY <1>1 DEF IsCall
<1>3. /\ call' = [b \in Calls |-> call'[b]]
      /\ \A b \in Calls : IsCall(call'[b], dek)
  BY <1>1, <1>2, CallStepType
<1>4. keys' \in 0 .. MaxKeys  BY KeygenFacts DEF Keygen
<1> QED  BY <1>3, <1>4 DEF TypeInv, Keygen

\* A write of one record leaves the others.
LEMMA RecordWritten ==
    ASSUME NEW d, NEW i \in Records(d), NEW v
    PROVE  /\ v \in DeviceKeys => /\ [i EXCEPT !["idKey"] = v] \in Records(d)
                                  /\ [i EXCEPT !["idWrap"] = v] \in Records(d)
                                  /\ [i EXCEPT !["idPub"] = v] \in Records(d)
                                  /\ [i EXCEPT !["certId"] = v] \in Records(d)
           /\ v \in Seals(d) => [i EXCEPT !["trustSeed"] = v] \in Records(d)
           /\ v \in Certs => [i EXCEPT !["cert"] = v] \in Records(d)
  BY DEF Records

LEMMA PutTyped ==
    ASSUME TypeInv, NEW c \in Calls, Put(c), NEW r, Goes(c, r), IsCall(r, dek), idb' \in Records(dek)
    PROVE  TypeInv'
<1>1. /\ call' = [b \in Calls |-> call'[b]]
      /\ \A b \in Calls : IsCall(call'[b], dek)
  BY CallStepType
<1> QED  BY <1>1 DEF TypeInv, Put

LEMMA TypePut ==
    ASSUME TypeInv, NEW c \in Calls, Put(c)
    PROVE  TypeInv'
<1>1. IsIdPut(call[c]) \/ IsSealPut(call[c], dek) \/ IsCertPut(call[c])
  BY CallTyped, CallKinds DEF Put
<1>2. idb \in Records(dek)  BY DEF TypeInv
<1>3. CASE IsIdPut(call[c]) /\ call[c].writes # LastWrite(call[c].own)
  <2>1. PICK r : WritesKey(c, r)  BY <1>3, PutEarlier
  <2>2. IsIdPut(r) /\ Goes(c, r)  BY <2>1 DEF WritesKey
  <2>3. r.own \in DeviceKeys  BY <2>2, IdPutShape
  <2>4. idb' \in Records(dek)
    <3>1. \/ idb' = [idb EXCEPT !["idPub"] = r.own]
          \/ idb' = [idb EXCEPT !["idKey"] = r.own]
          \/ idb' = [idb EXCEPT !["idWrap"] = r.own]
      BY <2>1 DEF WritesKey
    <3>2. /\ [idb EXCEPT !["idPub"] = r.own] \in Records(dek)
          /\ [idb EXCEPT !["idKey"] = r.own] \in Records(dek)
          /\ [idb EXCEPT !["idWrap"] = r.own] \in Records(dek)
      BY <1>2, <2>3, RecordWritten
    <3> QED  BY <3>1, <3>2
  <2>5. IsCall(r, dek)  BY <2>2 DEF IsCall
  <2> QED  BY <2>2, <2>4, <2>5, PutTyped
<1>4. CASE IsIdPut(call[c]) /\ call[c].writes = LastWrite(call[c].own)
  <2>1. /\ idb' = [idb EXCEPT !["certId"] = call[c].own]
        /\ Goes(c, AfterIdentity(call[c].caller, call[c].own))
    BY <1>4, PutLast
  <2>2. call[c].own \in DeviceKeys /\ call[c].caller \in Asks  BY <1>4, IdPutShape
  <2>3. idb' \in Records(dek)  BY <1>2, <2>1, <2>2, RecordWritten
  <2>4. IsCall(AfterIdentity(call[c].caller, call[c].own), dek)  BY <2>2, AfterIdentityType
  <2> QED  BY <2>1, <2>3, <2>4, PutTyped
<1>5. CASE IsSealPut(call[c], dek)
  <2>1. /\ idb' = [idb EXCEPT !["trustSeed"] = call[c].writes[1].value]
        /\ Goes(c, [op |-> "identity", then |-> "own", cert |-> call[c].cert])
    BY <1>5, PutSeal
  <2>2. call[c].cert \in Certs /\ call[c].writes[1].value \in Seals(dek)  BY <1>5, SealPutShape
  <2>3. idb' \in Records(dek)  BY <1>2, <2>1, <2>2, RecordWritten
  <2>4. IsCall([op |-> "identity", then |-> "own", cert |-> call[c].cert], dek)
    BY <2>2 DEF IsCall, Asks
  <2> QED  BY <2>1, <2>3, <2>4, PutTyped
<1>6. CASE IsCertPut(call[c])
  <2>1. /\ idb' = [idb EXCEPT !["cert"] = call[c].cert]
        /\ Goes(c, [op |-> "issued", cert |-> call[c].cert])
    BY <1>6, PutCert
  <2>2. call[c].cert \in Certs  BY <1>6, CertPutShape
  <2>3. idb' \in Records(dek)  BY <1>2, <2>1, <2>2, RecordWritten
  <2>4. IsCall([op |-> "issued", cert |-> call[c].cert], dek)  BY <2>2 DEF IsCall
  <2> QED  BY <2>1, <2>3, <2>4, PutTyped
<1> QED  BY <1>1, <1>3, <1>4, <1>5, <1>6

LEMMA TypeReadTrust ==
    ASSUME TypeInv, NEW c \in Calls, ReadTrust(c)
    PROVE  TypeInv'
<1> DEFINE r == [op |-> "sign", caps |-> call[c].caps, device |-> call[c].device,
                 from |-> now, sealed |-> idb.trustSeed]
<1>1. call[c].caps \in CapsInputs /\ call[c].device \in DeviceKeys
  BY CallTyped, CallKinds DEF ReadTrust
<1>2. now \in 0 .. MaxTime /\ idb.trustSeed \in Seals(dek) \cup {None}
  BY DEF TypeInv, Records
<1>3. IsCall(r, dek)  BY <1>1, <1>2 DEF IsCall
<1>4. Goes(c, r)  BY DEF ReadTrust
<1> HIDE DEF r
<1> QED  BY <1>3, <1>4, CallOnly DEF ReadTrust

\* session_issue_device_cert: the certificate, the seal and the signature.
LEMMA SignFacts ==
    ASSUME TypeInv, NEW c \in Calls, SignCert(c)
    PROVE  LET root == TrustKey(call[c].sealed)
               seal == [dek |-> dek, key |-> root]
               cert == IssueCert(root, call[c].device, call[c].caps, call[c].from, call[c].from + 1)
               r    == [op |-> "put", then |-> "own", cert |-> cert,
                        writes |-> <<[field |-> "trustSeed", value |-> seal]>>]
               s    == [sig |-> cert.sig,
                        asked |-> [what |-> "cert", by |-> root, device |-> call[c].device,
                                   scopes |-> Scopes(call[c].caps), from |-> call[c].from]]
           IN  /\ root \in TrustKeys /\ cert \in Certs /\ cert.claim.trust = root
               /\ call[c].sealed # None => root = call[c].sealed.key
               /\ keys' \in 0 .. MaxKeys
               /\ Goes(c, r) /\ IsSealPut(r, dek)
               /\ r.cert = cert /\ r.writes[1].value.key = root
               /\ sigs' = sigs \cup {s} /\ IsCertSig(s)
<1> DEFINE root == TrustKey(call[c].sealed)
           seal == [dek |-> dek, key |-> root]
           cert == IssueCert(root, call[c].device, call[c].caps, call[c].from, call[c].from + 1)
           r    == [op |-> "put", then |-> "own", cert |-> cert,
                    writes |-> <<[field |-> "trustSeed", value |-> seal]>>]
           s    == [sig |-> cert.sig,
                    asked |-> [what |-> "cert", by |-> root, device |-> call[c].device,
                               scopes |-> Scopes(call[c].caps), from |-> call[c].from]]
<1>1. /\ call[c].caps \in CapsInputs /\ call[c].device \in DeviceKeys
      /\ call[c].from \in 0 .. MaxTime /\ call[c].sealed \in Seals(dek) \cup {None}
  BY CallTyped, CallKinds DEF SignCert
<1>2. keys \in 0 .. MaxKeys /\ dek \in 0 .. MaxRotations  BY DEF TypeInv
<1>3. MaxKeys \in Nat /\ MaxRotations \in Nat  BY TrustAssumption
<1>4. /\ call[c].sealed = None => keys < MaxKeys
      /\ keys' = keys + (IF call[c].sealed = None THEN 1 ELSE 0)
  BY DEF SignCert
<1>5. keys' \in 0 .. MaxKeys  BY <1>2, <1>3, <1>4
<1>6. root \in TrustKeys
  <2>1. CASE call[c].sealed = None
    <3>1. keys + 1 \in 1 .. MaxKeys  BY <1>2, <1>3, <1>4, <2>1
    <3>2. root = <<"trust", keys + 1>>  BY <2>1 DEF TrustKey
    <3> HIDE DEF root
    <3> QED  BY <3>1, <3>2 DEF TrustKeys
  <2>2. CASE call[c].sealed # None
    <3>1. call[c].sealed.key \in TrustKeys  BY <1>1, <2>2 DEF Seals
    <3> QED  BY <2>2, <3>1 DEF TrustKey
  <2> QED  BY <2>1, <2>2
<1>7. call[c].sealed # None => root = call[c].sealed.key  BY DEF TrustKey
<1>8. Goes(c, r) /\ sigs' = sigs \cup {s}  BY DEF SignCert
<1> HIDE DEF root
<1>9. cert \in Certs /\ cert.claim.trust = root  BY <1>1, <1>6, IssuedIsCert
<1>10. seal \in Seals(dek) /\ seal.key = root  BY <1>2, <1>3, <1>6 DEF Seals
<1>11. IsCertSig(s)  BY <1>1, <1>6 DEF IsCertSig
<1> HIDE DEF cert, seal
<1>12. IsSealPut(r, dek)  BY <1>9, <1>10 DEF IsSealPut
<1>13. r.cert = cert /\ r.writes[1].value = seal  OBVIOUS
<1> HIDE DEF r, s
<1>14. r.writes[1].value.key = root  BY <1>10, <1>13
<1> USE DEF root, cert, seal, r, s
<1> QED  BY <1>5, <1>6, <1>7, <1>8, <1>9, <1>11, <1>12, <1>13, <1>14

LEMMA TypeSign ==
    ASSUME TypeInv, NEW c \in Calls, SignCert(c)
    PROVE  TypeInv'
<1>1. PICK r, s : /\ Goes(c, r) /\ IsSealPut(r, dek)
                  /\ sigs' = sigs \cup {s} /\ IsCertSig(s)
  BY SignFacts
<1>2. IsCall(r, dek)  BY <1>1 DEF IsCall
<1>3. /\ call' = [b \in Calls |-> call'[b]]
      /\ \A b \in Calls : IsCall(call'[b], dek)
  BY <1>1, <1>2, CallStepType
<1>4. keys' \in 0 .. MaxKeys  BY SignFacts
<1>5. \A t \in sigs' : IsCertSig(t) \/ IsAttestation(t) \/ IsRelaySig(t)  BY <1>1 DEF TypeInv
<1> QED  BY <1>3, <1>4, <1>5 DEF TypeInv, SignCert

LEMMA TypeReturn ==
    ASSUME TypeInv, NEW c \in Calls, SignRefused(c) \/ Issued(c)
    PROVE  TypeInv'
<1>1. IsCall(Idle, dek)  BY DEF IsCall
<1>2. Goes(c, Idle)  BY DEF SignRefused, Issued
<1>3. /\ call' = [b \in Calls |-> call'[b]]
      /\ \A b \in Calls : IsCall(call'[b], dek)
  BY <1>1, <1>2, CallStepType
<1>4. certs' \subseteq Certs
  <2>1. Issued(c) => call[c].cert \in Certs  BY CallTyped, CallKinds DEF Issued
  <2> QED  BY <2>1 DEF TypeInv, SignRefused, Issued
<1> QED  BY <1>3, <1>4 DEF TypeInv, SignRefused, Issued

LEMMA TypeAttest ==
    ASSUME TypeInv, Attest
    PROVE  TypeInv'
<1>1. PICK claim \in {[text |-> TRUE]} \cup {x.claim : x \in certs} :
        sigs' = sigs \cup {[sig |-> AttestWithSeed(IdentityKey(dek), claim, Foreign, now, now + 1),
                            asked |-> [what |-> "attestation", by |-> IdentityKey(dek)]]}
  BY DEF Attest
<1>2. claim \in {[text |-> TRUE]} \cup {x.claim : x \in Certs}  BY <1>1 DEF TypeInv
<1>3. dek \in 0 .. MaxRotations /\ now \in 0 .. MaxTime  BY DEF TypeInv
<1>4. IsAttestation([sig |-> AttestWithSeed(IdentityKey(dek), claim, Foreign, now, now + 1),
                     asked |-> [what |-> "attestation", by |-> IdentityKey(dek)]])
  BY <1>2, <1>3 DEF IsAttestation
<1>5. \A t \in sigs' : IsCertSig(t) \/ IsAttestation(t) \/ IsRelaySig(t)
  BY <1>1, <1>4 DEF TypeInv
<1> QED  BY <1>5 DEF TypeInv, Attest

LEMMA TypeAuthorizeRelay ==
    ASSUME TypeInv, AuthorizeRelay
    PROVE  TypeInv'
<1>1. PICK method \in {Push} \cup Reads : \E arg \in IF method = Push THEN {1, 2} ELSE {NoBlob} :
        sigs' = sigs \cup {[sig |-> RelaySign(dek, "db", method, arg),
                            asked |-> [what |-> "relay", by |-> RelayKey(dek, "db"),
                                       method |-> method, arg |-> arg]]}
  BY DEF AuthorizeRelay
<1>2. PICK arg \in {NoBlob, 1, 2} :
        sigs' = sigs \cup {[sig |-> RelaySign(dek, "db", method, arg),
                            asked |-> [what |-> "relay", by |-> RelayKey(dek, "db"),
                                       method |-> method, arg |-> arg]]}
  BY <1>1
<1>3. dek \in 0 .. MaxRotations  BY DEF TypeInv
<1>4. IsRelaySig([sig |-> RelaySign(dek, "db", method, arg),
                  asked |-> [what |-> "relay", by |-> RelayKey(dek, "db"),
                             method |-> method, arg |-> arg]])
  BY <1>3 DEF IsRelaySig
<1>5. \A t \in sigs' : IsCertSig(t) \/ IsAttestation(t) \/ IsRelaySig(t)
  BY <1>2, <1>4 DEF TypeInv
<1> QED  BY <1>5 DEF TypeInv, AuthorizeRelay

LEMMA TypeRotate ==
    ASSUME TypeInv, Rotate
    PROVE  TypeInv'
<1>1. dek \in Nat /\ dek' = dek + 1 /\ dek' \in 0 .. MaxRotations
  BY TrustAssumption DEF TypeInv, Rotate
<1>2. \A c \in Calls : IsCall(call[c], dek')  BY <1>1, CallGrows DEF TypeInv
<1>3. \A v \in Seals(dek) : v \in Seals(dek')  BY <1>1 DEF Seals
<1>4. idb \in Records(dek')  BY <1>3 DEF TypeInv, Records
<1> QED  BY <1>1, <1>2, <1>4 DEF TypeInv, Rotate

LEMMA TypeStep == TypeInv /\ [Next]_vars => TypeInv'
<1> SUFFICES ASSUME TypeInv, [Next]_vars PROVE TypeInv'
  OBVIOUS
<1>1. ASSUME NEW c \in Calls, Step(c) PROVE TypeInv'
  BY <1>1, TypeStart, TypeReadIdentity, TypeKeygen, TypePut, TypeReadTrust, TypeSign, TypeReturn
  DEF Step
<1>2. CASE CloseTab
  <2>1. IsCall(Idle, dek)  BY DEF IsCall
  <2> QED  BY <1>2, <2>1 DEF CloseTab, TypeInv
<1>3. CASE Tick
  <2>1. now' \in 0 .. MaxTime  BY <1>3, TrustAssumption DEF Tick, TypeInv
  <2> QED  BY <1>3, <2>1 DEF Tick, TypeInv
<1>4. CASE UNCHANGED vars  BY <1>4 DEF vars, TypeInv
<1> QED  BY <1>1, <1>2, <1>3, <1>4, TypeAttest, TypeAuthorizeRelay, TypeRotate DEF Next

LEMMA TypeInit == Init => TypeInv
<1> SUFFICES ASSUME Init PROVE TypeInv
  OBVIOUS
<1>1. idb = [f \in {"idKey", "idWrap", "idPub", "certId", "trustSeed", "cert"} |-> None]  BY DEF Init
<1>2. idb \in Records(dek)  BY <1>1 DEF Records
<1>3. IsCall(Idle, dek)  BY DEF IsCall
<1> QED  BY <1>2, <1>3, TrustAssumption DEF Init, TypeInv

LEMMA TypeInvHolds == Spec => []TypeInv
  BY TypeInit, TypeStep, PTL DEF Spec

\* TrustTypeCorrect: every record that device identity and trust keep has its
\* type, and every certificate returned is under a trust key and canonical.
THEOREM TrustTypeCorrect == Spec => []TypeOK
<1>1. TypeInv => TypeOK
  <2> SUFFICES ASSUME TypeInv PROVE TypeOK
    OBVIOUS
  <2>1. \A f \in {"idKey", "idWrap", "idPub", "certId"} : idb[f] \in DeviceKeys \cup {None}
    BY DEF TypeInv, Records
  <2>2. idb.trustSeed \in Seals(dek) \cup {None}  BY DEF TypeInv, Records
  <2>3. idb.trustSeed = None \/ (idb.trustSeed.dek \in 0 .. dek /\ idb.trustSeed.key \in TrustKeys)
    BY <2>2 DEF Seals
  <2>4. \A c \in Calls : call[c].op \in {"idle", "identity", "keygen", "put", "readTrust",
                                          "sign", "issued"}
    BY CallKinds DEF TypeInv
  <2>5. \A x \in certs : x.sig.key \in TrustKeys /\ CapsWellFormed(x.claim.caps)
    BY CertFacts DEF TypeInv
  <2> QED  BY <2>1, <2>3, <2>4, <2>5 DEF TypeInv, TypeOK
<1> QED  BY <1>1, TypeInvHolds, PTL

-----------------------------------------------------------------------------
(* Purposes.  Certificates and attestations share a message layout, so what
   keeps them apart is the key: a trust key is no identity key. *)

\* The claim that a verifier of certificates reads in a signature.
ClaimOf(s) == IF s.sig.msg.domain = "attestation" THEN s.sig.msg.claim ELSE [text |-> TRUE]

CertAsAsked(s, t, d, time) ==
    VerifyCert(t, ClaimOf(s), d, s.sig, time) =>
        /\ s.asked.what = "cert" /\ s.asked.by = t /\ s.asked.device = d
        /\ s.asked.scopes = Range(ClaimOf(s).caps)
        /\ time \in s.asked.from .. s.asked.from + 1

RelayAsAsked(s, method, blob) ==
    Authorize(method, s.sig.key, s.sig.key, blob, s.sig) =>
        /\ s.asked.what = "relay" /\ s.asked.by = s.sig.key
        /\ s.asked.method = method
        /\ method = Push => s.asked.arg = blob

LEMMA CertServesAsAsked ==
    ASSUME NEW s, IsCertSig(s), NEW t, NEW d, NEW time \in Nat, NEW method, NEW blob
    PROVE  CertAsAsked(s, t, d, time) /\ RelayAsAsked(s, method, blob)
<1>1. PICK root \in TrustKeys, dev \in DeviceKeys, caps \in CapsInputs, f \in 0 .. MaxTime :
        s = [sig |-> IssueCert(root, dev, caps, f, f + 1).sig,
             asked |-> [what |-> "cert", by |-> root, device |-> dev, scopes |-> Scopes(caps),
                        from |-> f]]
  BY DEF IsCertSig
<1> DEFINE claim == BuildClaim(root, dev, caps, f, f + 1)
<1>2. s.sig = [key |-> root, msg |-> AttestMessage(claim, dev, f, f + 1)]
  BY <1>1 DEF IssueCert, AttestWithSeed, Sign
<1>3. s.sig.key = root /\ s.sig.msg.domain = "attestation" /\ s.sig.msg.claim = claim
  BY <1>2 DEF AttestMessage
<1>4. ClaimOf(s) = claim  BY <1>3 DEF ClaimOf
<1>5. /\ claim.trust = root /\ claim.device = dev /\ claim.from = f /\ claim.to = f + 1
      /\ claim.caps = CanonicalizeCaps(caps)
  BY DEF BuildClaim
<1>6. Range(claim.caps) = Scopes(caps)  BY <1>5, CanonKeeps, TrustAssumption
<1>7. /\ s.asked.what = "cert" /\ s.asked.by = root /\ s.asked.device = dev
      /\ s.asked.scopes = Scopes(caps) /\ s.asked.from = f
  BY <1>1
<1>8. f \in Nat  BY TrustAssumption
<1> HIDE DEF claim
<1>9. CertAsAsked(s, t, d, time)
  BY <1>4, <1>5, <1>6, <1>7, <1>8 DEF CertAsAsked, VerifyCert
<1>10. RelayAsAsked(s, method, blob)
  BY <1>3 DEF RelayAsAsked, Authorize, Verify, RelayMessage
<1> QED  BY <1>9, <1>10

LEMMA AttestationServesAsAsked ==
    ASSUME NEW s, IsAttestation(s), NEW t, NEW d, NEW time, NEW method, NEW blob
    PROVE  CertAsAsked(s, t, d, time) /\ RelayAsAsked(s, method, blob)
<1>1. PICK k \in 0 .. MaxRotations, n \in 0 .. MaxTime :
        \E claim \in {[text |-> TRUE]} \cup {x.claim : x \in Certs} :
          s = [sig |-> AttestWithSeed(IdentityKey(k), claim, Foreign, n, n + 1),
               asked |-> [what |-> "attestation", by |-> IdentityKey(k)]]
  BY DEF IsAttestation
<1>2. PICK claim \in {[text |-> TRUE]} \cup {x.claim : x \in Certs} :
          s = [sig |-> AttestWithSeed(IdentityKey(k), claim, Foreign, n, n + 1),
               asked |-> [what |-> "attestation", by |-> IdentityKey(k)]]
  BY <1>1
<1>3. /\ s.sig.key = IdentityKey(k) /\ s.sig.msg.domain = "attestation"
      /\ s.sig.msg.claim = claim
  BY <1>2 DEF AttestWithSeed, Sign, AttestMessage
<1>4. ClaimOf(s) = claim  BY <1>3 DEF ClaimOf
<1>5. IsCertClaim(claim) => claim.trust \in TrustKeys
  <2>1. CASE claim = [text |-> TRUE]  BY <2>1 DEF IsCertClaim
  <2>2. CASE \E x \in Certs : claim = x.claim  BY <2>2, CertFacts
  <2> QED  BY <2>1, <2>2
<1>6. IdentityKey(k) \notin TrustKeys  BY DEF IdentityKey, TrustKeys
<1>7. CertAsAsked(s, t, d, time)
  BY <1>3, <1>4, <1>5, <1>6 DEF CertAsAsked, VerifyCert, VerifyAttestation, Verify
<1>8. RelayAsAsked(s, method, blob)
  BY <1>3 DEF RelayAsAsked, Authorize, Verify, RelayMessage
<1> QED  BY <1>7, <1>8

LEMMA RelayServesAsAsked ==
    ASSUME NEW s, IsRelaySig(s), NEW t, NEW d, NEW time, NEW method, NEW blob
    PROVE  CertAsAsked(s, t, d, time) /\ RelayAsAsked(s, method, blob)
<1>1. PICK k \in 0 .. MaxRotations, m \in {Push} \cup Reads, arg \in {NoBlob, 1, 2} :
        s = [sig |-> RelaySign(k, "db", m, arg),
             asked |-> [what |-> "relay", by |-> RelayKey(k, "db"), method |-> m, arg |-> arg]]
  BY DEF IsRelaySig
<1>2. s.sig = [key |-> RelayKey(k, "db"),
               msg |-> [domain |-> "relay", method |-> m, bucket |-> RelayKey(k, "db"), arg |-> arg]]
  BY <1>1 DEF RelaySign, Sign, RelayMessage
<1>3. /\ s.sig.key = RelayKey(k, "db") /\ s.sig.msg.domain = "relay"
      /\ s.sig.msg.method = m /\ s.sig.msg.arg = arg
  BY <1>2
<1>4. /\ s.asked.what = "relay" /\ s.asked.by = RelayKey(k, "db")
      /\ s.asked.method = m /\ s.asked.arg = arg
  BY <1>1
<1>5. ~IsCertClaim(ClaimOf(s))  BY <1>3 DEF ClaimOf, IsCertClaim
<1>6. CertAsAsked(s, t, d, time)  BY <1>5 DEF CertAsAsked, VerifyCert
<1>7. RelayAsAsked(s, method, blob)
  <2> SUFFICES ASSUME Authorize(method, s.sig.key, s.sig.key, blob, s.sig)
               PROVE  m = method /\ (method = Push => arg = blob)
    BY <1>3, <1>4 DEF RelayAsAsked
  <2>1. s.sig.msg = RelayMessage(method, s.sig.key, IF method = Push THEN blob ELSE NoBlob)
    BY DEF Authorize, Verify
  <2>2. /\ s.sig.msg.method = method
        /\ s.sig.msg.arg = IF method = Push THEN blob ELSE NoBlob
    BY <2>1 DEF RelayMessage
  <2> QED  BY <1>3, <2>2
<1> QED  BY <1>6, <1>7

\* NoOtherPurpose: whatever is certified, attested and signed for the relay,
\* in whatever order, before and after rotations and by overlapping calls,
\* no signature verifies for another purpose than the one it was made for.
THEOREM NoOtherPurpose == Spec => []SignedForIt
<1>1. TypeInv => SignedForIt
  <2> SUFFICES ASSUME TypeInv, NEW s \in sigs
               PROVE  /\ \A t \in TrustKeys \cup {s.sig.key}, d \in DeviceKeys, time \in 0 .. MaxTime :
                            CertAsAsked(s, t, d, time)
                      /\ \A method \in {Push} \cup Reads, blob \in {1, 2} :
                            RelayAsAsked(s, method, blob)
    BY DEF SignedForIt, CertAsAsked, RelayAsAsked, ClaimOf
  <2>1. IsCertSig(s) \/ IsAttestation(s) \/ IsRelaySig(s)  BY DEF TypeInv
  <2>2. \A t, d, method, blob : \A time \in Nat :
          CertAsAsked(s, t, d, time) /\ RelayAsAsked(s, method, blob)
    BY <2>1, CertServesAsAsked, AttestationServesAsAsked, RelayServesAsAsked
  <2>3. \A time \in 0 .. MaxTime : time \in Nat  BY TrustAssumption
  <2>4. 0 \in Nat  OBVIOUS
  <2> QED  BY <2>2, <2>3, <2>4
<1> QED  BY <1>1, TypeInvHolds, PTL

-----------------------------------------------------------------------------
(* One root, one device.  While calls do not overlap, what a call read is
   still what is stored when it writes. *)

SoleInv == TypeInv /\ OneAtATime /\ RootInv /\ OwnInv

\* While a call takes a step the others are idle.
LEMMA OthersIdle ==
    ASSUME TypeInv, OneAtATime, NEW c \in Calls, Step(c)
    PROVE  /\ \A b \in Calls : b # c => call[b] = Idle /\ call'[b] = Idle
           /\ OneAtATime'
<1>1. \E r : Goes(c, r)
  <2>1. CASE StartDeviceId(c) \/ StartIssue(c)  BY <2>1, StartFacts
  <2>2. CASE ReadIdentity(c)  BY <2>2 DEF ReadIdentity
  <2>3. CASE Keygen(c)  BY <2>3, KeygenFacts
  <2>4. CASE Put(c)  BY <2>4 DEF Put
  <2>5. CASE ReadTrust(c)  BY <2>5 DEF ReadTrust
  <2>6. CASE SignCert(c)  BY <2>6, SignFacts
  <2>7. CASE SignRefused(c) \/ Issued(c)  BY <2>7 DEF SignRefused, Issued
  <2> QED  BY <2>1, <2>2, <2>3, <2>4, <2>5, <2>6, <2>7 DEF Step
<1>2. \A b \in Calls : b # c => call'[b] = call[b]  BY <1>1, CallStep
<1>3. \A b \in Calls : b # c => call[b] = Idle
  <2>1. CASE StartDeviceId(c) \/ StartIssue(c)
    BY <2>1 DEF StartDeviceId, StartIssue, Begins, OneAtATime
  <2>2. CASE call[c].op # "idle"  BY <2>2 DEF OneAtATime, Idle
  <2>3. Step(c) => StartDeviceId(c) \/ StartIssue(c) \/ call[c].op # "idle"
    BY DEF Step, ReadIdentity, Keygen, Put, ReadTrust, SignCert, SignRefused, Issued
  <2> QED  BY <2>1, <2>2, <2>3
<1>4. OneAtATime'  BY <1>2, <1>3 DEF OneAtATime
<1> QED  BY <1>2, <1>3, <1>4

LEMMA IdleHoldsNothing == /\ CallChains(Idle) /\ CallChains(Idle)'
                          /\ CallOwns(Idle) /\ CallOwns(Idle)'
  BY DEF CallChains, CallOwns, Idle

\* It is enough to look at the call that takes the step.
LEMMA SoleStep ==
    ASSUME SoleInv, TypeInv', NEW c \in Calls, Step(c), NEW r, Goes(c, r),
           OneRoot', CallChains(r)', CallOwns(r)',
           (idb.cert # None => idb.cert.claim.device = idb.idPub)'
    PROVE  SoleInv'
<1>1. /\ \A b \in Calls : b # c => call'[b] = Idle
      /\ OneAtATime'
  BY OthersIdle DEF SoleInv
<1>2. call'[c] = r  BY CallStep DEF SoleInv
<1>3. \A b \in Calls : CallChains(call[b])'
  <2> TAKE b \in Calls
  <2>1. CASE b = c  BY <1>2, <2>1 DEF CallChains, Chains
  <2>2. CASE b # c  BY <1>1, <2>2 DEF CallChains, Idle
  <2> QED  BY <2>1, <2>2
<1>4. \A b \in Calls : CallOwns(call[b])'
  <2> TAKE b \in Calls
  <2>1. CASE b = c  BY <1>2, <2>1 DEF CallOwns
  <2>2. CASE b # c  BY <1>1, <2>2 DEF CallOwns, Idle
  <2> QED  BY <2>1, <2>2
<1> QED  BY <1>1, <1>3, <1>4 DEF SoleInv, RootInv, OwnInv

LEMMA SoleCall ==
    ASSUME SoleInv, NEW c \in Calls
    PROVE  /\ IsCall(call[c], dek) /\ CallChains(call[c]) /\ CallOwns(call[c])
           /\ OneRoot
           /\ idb.cert # None => idb.cert.claim.device = idb.idPub
           /\ idb \in Records(dek) /\ dek \in 0 .. MaxRotations
  BY DEF SoleInv, RootInv, OwnInv, TypeInv

LEMMA SoleTyped ==
    ASSUME SoleInv, [Next]_vars
    PROVE  TypeInv'
  BY TypeStep DEF SoleInv

\* Steps that write nothing and return nothing.
LEMMA SoleQuiet ==
    ASSUME SoleInv, NEW c \in Calls, Step(c), NEW r, Goes(c, r),
           UNCHANGED <<idb, certs>>, CallChains(r), CallOwns(r)
    PROVE  SoleInv'
<1>1. TypeInv'
  <2>1. Next  BY DEF Next
  <2> QED  BY <2>1, SoleTyped
<1>2. OneRoot'  BY SoleCall DEF OneRoot
<1>3. CallChains(r)' /\ CallOwns(r)'  BY DEF CallChains, CallOwns, Chains
<1>4. (idb.cert # None => idb.cert.claim.device = idb.idPub)'  BY SoleCall
<1> QED  BY <1>1, <1>2, <1>3, <1>4, SoleStep

LEMMA SoleStart ==
    ASSUME SoleInv, NEW c \in Calls, StartDeviceId(c) \/ StartIssue(c)
    PROVE  SoleInv'
<1>1. PICK r : Beginning(r) /\ Goes(c, r)  BY StartFacts
<1>2. /\ r.op \in {"identity", "readTrust"}
      /\ r.op = "identity" => r.then \in {"return", "readTrust"}
  BY <1>1 DEF Beginning
<1>3. CallChains(r) /\ CallOwns(r)  BY <1>2 DEF CallChains, CallOwns
<1>4. Step(c) /\ UNCHANGED <<idb, certs>>  BY DEF Step, StartDeviceId, StartIssue
<1> QED  BY <1>1, <1>3, <1>4, SoleQuiet

\* Once the device's key is known, a certificate is kept if it is for it.
LEMMA SoleAfterIdentity ==
    ASSUME NEW a \in Asks, NEW own, a.then = "own" => Chains(a.cert), own = idb.idPub
    PROVE  CallChains(AfterIdentity(a, own)) /\ CallOwns(AfterIdentity(a, own))
<1>1. PICK r : r = AfterIdentity(a, own)  OBVIOUS
<1>2. CASE a.then = "return"
  <2>1. r = Idle  BY <1>1, <1>2, AfterIdentityCases
  <2> QED  BY <1>1, <2>1, IdleHoldsNothing
<1>3. CASE a.then = "readTrust"
  <2>1. r.op = "readTrust"  BY <1>1, <1>3, AfterIdentityCases
  <2>2. CallChains(r) /\ CallOwns(r)  BY <2>1 DEF CallChains, CallOwns
  <2> QED  BY <1>1, <2>2
<1>4. CASE a.then = "own" /\ a.cert.claim.device = own
  <2>1. r = [op |-> "put", writes |-> <<[field |-> "cert", value |-> a.cert]>>,
             then |-> "issued", cert |-> a.cert]
    BY <1>1, <1>4, AfterIdentityCases
  <2>2. r.op = "put" /\ r.then = "issued" /\ r.cert = a.cert  BY <2>1
  <2>3. CallChains(r) /\ CallOwns(r)  BY <1>4, <2>2 DEF CallChains, CallOwns
  <2> QED  BY <1>1, <2>3
<1>5. CASE a.then = "own" /\ a.cert.claim.device # own
  <2>1. r = [op |-> "issued", cert |-> a.cert]  BY <1>1, <1>5, AfterIdentityCases
  <2>2. r.op = "issued" /\ r.cert = a.cert  BY <2>1
  <2>3. CallChains(r) /\ CallOwns(r)  BY <1>5, <2>2 DEF CallChains, CallOwns
  <2> QED  BY <1>1, <2>3
<1> QED  BY <1>2, <1>3, <1>4, <1>5, AskKinds

LEMMA SoleReadIdentity ==
    ASSUME SoleInv, NEW c \in Calls, ReadIdentity(c)
    PROVE  SoleInv'
<1>1. /\ call[c] \in Asks
      /\ call[c].then = "own" => Chains(call[c].cert)
  BY SoleCall, CallKinds DEF ReadIdentity, CallChains
<1>2. Step(c) /\ UNCHANGED <<idb, certs>>  BY DEF Step, ReadIdentity
<1>3. CASE idb.idPub # None
  <2>1. PICK r : r = AfterIdentity(call[c], idb.idPub)  OBVIOUS
  <2>2. CallChains(r) /\ CallOwns(r)  BY <1>1, <2>1, SoleAfterIdentity
  <2>3. Goes(c, r)  BY <1>3, <2>1 DEF ReadIdentity
  <2> QED  BY <1>2, <2>2, <2>3, SoleQuiet
<1>4. CASE idb.idPub = None
  <2>1. PICK r : r = [call[c] EXCEPT !.op = "keygen"]  OBVIOUS
  <2>2. r.op = "keygen" /\ r.then = call[c].then /\ (r.then = "own" => r.cert = call[c].cert)
    BY <1>1, <2>1, AskKinds
  <2>3. CallChains(r) /\ CallOwns(r)  BY <1>1, <1>4, <2>2 DEF CallChains, CallOwns
  <2>4. Goes(c, r)  BY <1>4, <2>1 DEF ReadIdentity
  <2> QED  BY <1>2, <2>3, <2>4, SoleQuiet
<1> QED  BY <1>3, <1>4

LEMMA SoleKeygen ==
    ASSUME SoleInv, NEW c \in Calls, Keygen(c)
    PROVE  SoleInv'
<1>1. PICK r : /\ Goes(c, r) /\ IsIdPut(r)
               /\ r.caller = call[c] /\ r.writes # LastWrite(r.own)
  BY KeygenFacts DEF SoleInv
<1>2. call[c].then = "own" => Chains(call[c].cert)  BY SoleCall DEF CallChains, Keygen
<1>3. idb.idPub = None  BY SoleCall DEF CallOwns, Keygen
<1>4. r.op = "put" /\ r.then = "identity"  BY <1>1, IdPutShape
<1>5. CallChains(r) /\ CallOwns(r)  BY <1>1, <1>2, <1>3, <1>4 DEF CallChains, CallOwns
<1>6. Step(c) /\ UNCHANGED <<idb, certs>>  BY DEF Step, Keygen
<1> QED  BY <1>1, <1>5, <1>6, SoleQuiet

LEMMA SoleReadTrust ==
    ASSUME SoleInv, NEW c \in Calls, ReadTrust(c)
    PROVE  SoleInv'
<1>1. PICK r : r = [op |-> "sign", caps |-> call[c].caps, device |-> call[c].device,
                    from |-> now, sealed |-> idb.trustSeed]
  OBVIOUS
<1>2. r.op = "sign" /\ r.sealed = idb.trustSeed  BY <1>1
<1>3. Goes(c, r)  BY <1>1 DEF ReadTrust
<1>4. CallChains(r) /\ CallOwns(r)  BY <1>2 DEF CallChains, CallOwns
<1>5. Step(c) /\ UNCHANGED <<idb, certs>>  BY DEF Step, ReadTrust
<1> QED  BY <1>3, <1>4, <1>5, SoleQuiet

LEMMA SoleSign ==
    ASSUME SoleInv, NEW c \in Calls, SignCert(c)
    PROVE  SoleInv'
<1>1. PICK root, r :
        /\ call[c].sealed # None => root = call[c].sealed.key
        /\ Goes(c, r) /\ IsSealPut(r, dek)
        /\ r.cert.claim.trust = root /\ r.writes[1].value.key = root
  BY SignFacts DEF SoleInv
<1>2. call[c].sealed = idb.trustSeed  BY SoleCall DEF CallChains, SignCert
<1>3. r.op = "put" /\ r.then = "own"  BY <1>1, SealPutShape
<1>4. CallChains(r) /\ CallOwns(r)  BY <1>1, <1>2, <1>3 DEF CallChains, CallOwns
<1>5. Step(c) /\ UNCHANGED <<idb, certs>>  BY DEF Step, SignCert
<1> QED  BY <1>1, <1>4, <1>5, SoleQuiet

LEMMA SoleReturn ==
    ASSUME SoleInv, NEW c \in Calls, SignRefused(c) \/ Issued(c)
    PROVE  SoleInv'
<1>1. Goes(c, Idle) /\ Step(c) /\ idb' = idb  BY DEF Step, SignRefused, Issued
<1>2. TypeInv'  BY <1>1, SoleTyped DEF Next
<1>3. OneRoot'
  <2>1. CASE SignRefused(c)  BY <2>1, <1>1, SoleCall DEF SignRefused, OneRoot
  <2>2. CASE Issued(c)
    <3>1. Chains(call[c].cert)  BY <2>2, SoleCall DEF Issued, CallChains
    <3>2. certs' = certs \cup {call[c].cert}  BY <2>2 DEF Issued
    <3> QED  BY <1>1, <3>1, <3>2, SoleCall DEF OneRoot, Chains
  <2> QED  BY <2>1, <2>2
<1>4. (idb.cert # None => idb.cert.claim.device = idb.idPub)'  BY <1>1, SoleCall
<1> QED  BY <1>1, <1>2, <1>3, <1>4, IdleHoldsNothing, SoleStep

\* Writes of the device's records leave the root's alone.
LEMMA KeptSeed ==
    ASSUME NEW i \in Records(dek), NEW v
    PROVE  /\ LET j == [i EXCEPT !["idKey"] = v]
              IN  j.trustSeed = i.trustSeed /\ j.cert = i.cert /\ j.idPub = i.idPub
           /\ LET j == [i EXCEPT !["idWrap"] = v]
              IN  j.trustSeed = i.trustSeed /\ j.cert = i.cert /\ j.idPub = i.idPub
           /\ LET j == [i EXCEPT !["certId"] = v]
              IN  j.trustSeed = i.trustSeed /\ j.cert = i.cert /\ j.idPub = i.idPub
           /\ LET j == [i EXCEPT !["idPub"] = v]
              IN  j.trustSeed = i.trustSeed /\ j.cert = i.cert /\ j.idPub = v
           /\ LET j == [i EXCEPT !["trustSeed"] = v]
              IN  j.trustSeed = v /\ j.cert = i.cert /\ j.idPub = i.idPub
           /\ LET j == [i EXCEPT !["cert"] = v]
              IN  j.trustSeed = i.trustSeed /\ j.cert = v /\ j.idPub = i.idPub
  BY DEF Records

LEMMA SolePutEarlier ==
    ASSUME SoleInv, NEW c \in Calls, Put(c), IsIdPut(call[c]),
           call[c].writes # LastWrite(call[c].own)
    PROVE  SoleInv'
<1>1. PICK r : WritesKey(c, r)  BY PutEarlier
<1>2. /\ Goes(c, r) /\ IsIdPut(r)
      /\ r.own = call[c].own /\ r.caller = call[c].caller
  BY <1>1 DEF WritesKey
<1>3. r.op = "put" /\ r.then = "identity"  BY <1>2, IdPutShape
<1>4. call[c].op = "put" /\ call[c].then = "identity"  BY IdPutShape
<1>5. call[c].caller.then = "own" => Chains(call[c].caller.cert)
  BY <1>4, SoleCall DEF CallChains
<1>6. idb.idPub = None  BY <1>4, SoleCall DEF CallOwns
<1>7. /\ idb'.trustSeed = idb.trustSeed /\ idb'.cert = idb.cert
      /\ idb'.idPub = IF r.writes = LastWrite(r.own) THEN r.own ELSE None
  <2>1. idb \in Records(dek)  BY SoleCall
  <2>2. CASE r.writes = LastWrite(r.own)
    <3>1. idb' = [idb EXCEPT !["idPub"] = r.own]  BY <1>1, <2>2 DEF WritesKey
    <3> QED  BY <2>1, <2>2, <3>1, KeptSeed
  <2>3. CASE r.writes # LastWrite(r.own) /\ idb' = [idb EXCEPT !["idKey"] = r.own]
    BY <1>6, <2>1, <2>3, KeptSeed
  <2>4. CASE r.writes # LastWrite(r.own) /\ idb' = [idb EXCEPT !["idWrap"] = r.own]
    BY <1>6, <2>1, <2>4, KeptSeed
  <2> QED  BY <1>1, <2>2, <2>3, <2>4 DEF WritesKey
<1>8. idb.cert = None
  <2>1. idb.cert \in Certs \cup {None}  BY SoleCall DEF Records
  <2>2. idb.cert \in Certs => idb.cert.claim.device \in DeviceKeys  BY CertFacts
  <2> QED  BY <1>6, <2>1, <2>2, SoleCall, TrustAssumption
<1>9. Step(c) /\ certs' = certs  BY DEF Step, Put
<1>10. TypeInv'  BY <1>9, SoleTyped DEF Next
<1>11. OneRoot'  BY <1>7, <1>9, SoleCall DEF OneRoot
<1>12. CallChains(r)'  BY <1>2, <1>3, <1>5, <1>7 DEF CallChains, Chains
<1>13. CallOwns(r)'  BY <1>3, <1>7 DEF CallOwns
<1>14. (idb.cert # None => idb.cert.claim.device = idb.idPub)'  BY <1>7, <1>8
<1> QED  BY <1>2, <1>9, <1>10, <1>11, <1>12, <1>13, <1>14, SoleStep

LEMMA SolePutLast ==
    ASSUME SoleInv, NEW c \in Calls, Put(c), IsIdPut(call[c]),
           call[c].writes = LastWrite(call[c].own)
    PROVE  SoleInv'
<1>1. PICK r : r = AfterIdentity(call[c].caller, call[c].own)  OBVIOUS
<1>2. idb' = [idb EXCEPT !["certId"] = call[c].own] /\ Goes(c, r)  BY <1>1, PutLast
<1>3. call[c].op = "put" /\ call[c].then = "identity" /\ call[c].caller \in Asks  BY IdPutShape
<1>4. call[c].caller.then = "own" => Chains(call[c].caller.cert)
  BY <1>3, SoleCall DEF CallChains
<1>5. idb.idPub = call[c].own  BY <1>3, SoleCall DEF CallOwns
<1>6. CallChains(r) /\ CallOwns(r)  BY <1>1, <1>3, <1>4, <1>5, SoleAfterIdentity
<1>7. idb'.trustSeed = idb.trustSeed /\ idb'.cert = idb.cert /\ idb'.idPub = idb.idPub
  BY <1>2, SoleCall, KeptSeed
<1>8. Step(c) /\ certs' = certs  BY DEF Step, Put
<1>9. TypeInv'  BY <1>8, SoleTyped DEF Next
<1>10. OneRoot'  BY <1>7, <1>8, SoleCall DEF OneRoot
<1>11. CallChains(r)'  BY <1>6, <1>7 DEF CallChains, Chains
<1>12. CallOwns(r)'  BY <1>6, <1>7 DEF CallOwns
<1>13. (idb.cert # None => idb.cert.claim.device = idb.idPub)'  BY <1>7, SoleCall
<1> QED  BY <1>2, <1>8, <1>9, <1>10, <1>11, <1>12, <1>13, SoleStep

LEMMA SolePutSeal ==
    ASSUME SoleInv, NEW c \in Calls, Put(c), IsSealPut(call[c], dek)
    PROVE  SoleInv'
<1>1. PICK r : r = [op |-> "identity", then |-> "own", cert |-> call[c].cert]  OBVIOUS
<1>2. PICK v : v = call[c].writes[1].value  OBVIOUS
<1>3. idb' = [idb EXCEPT !["trustSeed"] = v] /\ Goes(c, r)  BY <1>1, <1>2, PutSeal
<1>4. /\ call[c].op = "put" /\ call[c].then = "own" /\ v \in Seals(dek)
  BY <1>2, SealPutShape
<1>5. v # None
  <2>1. Seals(dek) \subseteq Seals(MaxRotations)  BY SoleCall, TrustAssumption DEF Seals
  <2> QED  BY <1>4, <2>1, TrustAssumption
<1>6. /\ call[c].cert.claim.trust = v.key
      /\ idb.trustSeed # None => idb.trustSeed.key = v.key
  BY <1>2, <1>4, SoleCall DEF CallChains
<1>7. idb'.trustSeed = v /\ idb'.cert = idb.cert /\ idb'.idPub = idb.idPub
  BY <1>3, SoleCall, KeptSeed
<1>8. Step(c) /\ certs' = certs  BY DEF Step, Put
<1>9. TypeInv'  BY <1>8, SoleTyped DEF Next
<1>10. OneRoot'  BY <1>5, <1>6, <1>7, <1>8, SoleCall DEF OneRoot
<1>11. r.op = "identity" /\ r.then = "own" /\ r.cert = call[c].cert  BY <1>1
<1>12. Chains(r.cert)'
  <2>1. r.cert.claim.trust = v.key  BY <1>6, <1>11
  <2> QED  BY <1>5, <1>7, <2>1 DEF Chains
<1>13. CallChains(r)' /\ CallOwns(r)'  BY <1>11, <1>12 DEF CallChains, CallOwns
<1>14. (idb.cert # None => idb.cert.claim.device = idb.idPub)'  BY <1>7, SoleCall
<1> QED  BY <1>3, <1>8, <1>9, <1>10, <1>13, <1>14, SoleStep

LEMMA SolePutCert ==
    ASSUME SoleInv, NEW c \in Calls, Put(c), IsCertPut(call[c])
    PROVE  SoleInv'
<1>1. PICK x : x = call[c].cert  OBVIOUS
<1>2. PICK r : r = [op |-> "issued", cert |-> x]  OBVIOUS
<1>3. idb' = [idb EXCEPT !["cert"] = x] /\ Goes(c, r)  BY <1>1, <1>2, PutCert
<1>4. call[c].op = "put" /\ call[c].then = "issued"  BY CertPutShape
<1>5. Chains(x)  BY <1>1, <1>4, SoleCall DEF CallChains
<1>6. x.claim.device = idb.idPub  BY <1>1, <1>4, SoleCall DEF CallOwns
<1>7. idb'.trustSeed = idb.trustSeed /\ idb'.cert = x /\ idb'.idPub = idb.idPub
  BY <1>3, SoleCall, KeptSeed
<1>8. Step(c) /\ certs' = certs  BY DEF Step, Put
<1>9. TypeInv'  BY <1>8, SoleTyped DEF Next
<1>10. Chains(x)'  BY <1>5, <1>7 DEF Chains
<1>11. OneRoot'  BY <1>5, <1>7, <1>8, SoleCall DEF OneRoot, Chains
<1>12. r.op = "issued" /\ r.cert = x  BY <1>2
<1>13. CallChains(r)' /\ CallOwns(r)'  BY <1>10, <1>12 DEF CallChains, CallOwns, Chains
<1>14. (idb.cert # None => idb.cert.claim.device = idb.idPub)'  BY <1>6, <1>7
<1> QED  BY <1>3, <1>8, <1>9, <1>11, <1>13, <1>14, SoleStep

LEMMA SoleNext == SoleInv /\ [Next]_vars => SoleInv'
<1> SUFFICES ASSUME SoleInv, [Next]_vars PROVE SoleInv'
  OBVIOUS
<1>1. ASSUME NEW c \in Calls, Step(c) PROVE SoleInv'
  <2>1. CASE Put(c)
    <3>1. IsIdPut(call[c]) \/ IsSealPut(call[c], dek) \/ IsCertPut(call[c])
      BY <2>1, SoleCall, CallKinds DEF Put
    <3> QED  BY <2>1, <3>1, SolePutEarlier, SolePutLast, SolePutSeal, SolePutCert
  <2> QED  BY <1>1, <2>1, SoleStart, SoleReadIdentity, SoleKeygen, SoleReadTrust, SoleSign,
              SoleReturn DEF Step
<1>2. TypeInv'  BY SoleTyped
<1>3. ASSUME UNCHANGED <<idb, certs, call>> PROVE SoleInv'
  BY <1>2, <1>3 DEF SoleInv, OneAtATime, RootInv, OneRoot, OwnInv, CallChains, CallOwns, Chains
<1>4. CASE CloseTab
  <2>1. /\ \A c \in Calls : call'[c] = Idle
        /\ idb' = idb /\ certs' = certs
    BY <1>4 DEF CloseTab
  <2>2. OneAtATime'  BY <2>1 DEF OneAtATime, SoleInv
  <2>3. OneRoot'  BY <2>1 DEF OneRoot, SoleInv, RootInv
  <2>4. (idb.cert # None => idb.cert.claim.device = idb.idPub)'  BY <2>1 DEF SoleInv, OwnInv
  <2>5. \A c \in Calls : CallChains(call[c])' /\ CallOwns(call[c])'
    BY <2>1 DEF CallChains, CallOwns, Idle
  <2> QED  BY <1>2, <2>2, <2>3, <2>4, <2>5 DEF SoleInv, RootInv, OwnInv
<1>5. Attest \/ AuthorizeRelay \/ Rotate \/ Tick \/ UNCHANGED vars => UNCHANGED <<idb, certs, call>>
  BY DEF Attest, AuthorizeRelay, Rotate, Tick, vars
<1> QED  BY <1>1, <1>3, <1>4, <1>5 DEF Next

LEMMA SoleInit == ~Overlaps /\ Init => SoleInv
<1> SUFFICES ASSUME ~Overlaps, Init PROVE SoleInv
  OBVIOUS
<1>1. TypeInv  BY TypeInit
<1>2. \A c \in Calls : call[c] = Idle  BY DEF Init
<1>3. certs = {} /\ idb.cert = None  BY DEF Init
<1>4. OneAtATime  BY <1>2 DEF OneAtATime
<1>5. OneRoot  BY <1>3 DEF OneRoot
<1>6. \A c \in Calls : CallChains(call[c]) /\ CallOwns(call[c])
  BY <1>2 DEF CallChains, CallOwns, Idle
<1> QED  BY <1>1, <1>3, <1>4, <1>5, <1>6 DEF SoleInv, RootInv, OwnInv

\* OneRootForAll: with one call at a time, however many certificates are
\* issued and wherever the tab is closed, all of them chain to the trust key
\* whose seed is stored.
THEOREM OneRootForAll == ~Overlaps /\ Spec => []OneRoot
<1>1. SoleInv => OneRoot  BY DEF SoleInv, RootInv
<1> QED  BY <1>1, SoleInit, SoleNext, PTL DEF Spec

\* StoredCertIsOwn: with one call at a time, the stored certificate is for
\* the stored device key and verifies under the stored root.
THEOREM StoredCertIsOwn == ~Overlaps /\ Spec => []OwnCert
<1>1. SoleInv => OwnCert
  <2> SUFFICES ASSUME SoleInv, idb.cert # None
               PROVE  /\ idb.cert.claim.device = idb.idPub
                      /\ \A time \in idb.cert.claim.from .. idb.cert.claim.to :
                            VerifyCert(idb.cert.claim.trust, idb.cert.claim, idb.idPub,
                                       idb.cert.sig, time)
    BY DEF OwnCert
  <2>1. idb.cert.claim.device = idb.idPub  BY DEF SoleInv, OwnInv
  <2>2. idb.cert \in Certs  BY DEF SoleInv, TypeInv, Records
  <2>3. PICK x \in Certs : x = idb.cert  BY <2>2
  <2>4. \A time \in x.claim.from .. x.claim.to :
          VerifyCert(x.claim.trust, x.claim, x.claim.device, x.sig, time)
    BY CertFacts DEF VerifyCert, VerifyAttestation, Verify
  <2> QED  BY <2>1, <2>3, <2>4
<1> QED  BY <1>1, SoleInit, SoleNext, PTL DEF Spec
=============================================================================
