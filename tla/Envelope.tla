------------------------------ MODULE Envelope ------------------------------
(***************************************************************************)
(* The key envelope of crates/freehold/src/envelope.rs: slots that each    *)
(* wrap the data-encryption key (DEK) under the key of one unlock method,  *)
(* a generation counter, and a MAC keyed by the DEK over both.             *)
(*                                                                         *)
(* Sealing and MACs are ideal: a slot opens with the secret it was wrapped *)
(* under and with no other, and a MAC verifies only for the key and the    *)
(* body it was computed over.  The salt travels with the envelope and is   *)
(* the same for all its slots, so a recovery code's key is the code.       *)
(* Generations are unbounded (64 bits in the code); slot ids and the       *)
(* number of slots have the code's one byte, with IdSpace values.          *)
(***************************************************************************)
EXTENDS Naturals, Sequences, FiniteSetsExt, SequencesExt

CONSTANT IdSpace  \* number of values of a byte: 256 in the code

ASSUME IdSpaceAssumption == IdSpace \in Nat /\ IdSpace > 2

Passkey  == "passkey"
Recovery == "recovery"
Device   == "device"
Kinds    == {Passkey, Recovery, Device}

\* What a fallible operation returns instead of an envelope or a key.
Refused == [error |-> TRUE]
IsRefused(r) == "error" \in DOMAIN r

-----------------------------------------------------------------------------
\* wrap_slot: the DEK sealed under the method's key, bound to id and kind.
WrapSlot(dek, secret, id, kind) ==
    [id |-> id, kind |-> kind, secret |-> secret, dek |-> dek]

\* compute_mac, finalize
ComputeMac(gen, slots, dek) == [gen |-> gen, slots |-> slots, key |-> dek]

Finalize(gen, slots, dek) ==
    [gen |-> gen, slots |-> slots, mac |-> ComputeMac(gen, slots, dek)]

\* parse: the header has one byte for the number of slots, and a blob whose
\* length is not that of so many slots is malformed.  finalize writes the
\* byte without looking whether it holds the number.
Parses(env) == Len(env.slots) < IdSpace

\* envelope_generation: of a malformed envelope it is 0.
Generation(env) == IF Parses(env) THEN env.gen ELSE 0

SlotIds(env) == {env.slots[i].id : i \in DOMAIN env.slots}

\* next_kek_id: one more than the largest id, wrapping at a byte.
NextKekId(env) == IF env.slots = <<>> THEN 0 ELSE (Max(SlotIds(env)) + 1) % IdSpace

\* create_envelope_kind
CreateEnvelope(dek, secret, kind) ==
    Finalize(1, <<WrapSlot(dek, secret, 0, kind)>>, dek)

\* rebuild: a mutation, so the generation advances and the MAC is renewed.
Rebuild(env, slots, dek) == Finalize(env.gen + 1, slots, dek)

\* add_passkey_slot, add_recovery_slot, of an envelope that parses
AddSlot(env, dek, secret, kind) ==
    Rebuild(env, Append(env.slots, WrapSlot(dek, secret, NextKekId(env), kind)), dek)

\* The i-th smallest element of a set of numbers.
Nth(set, i) == CHOOSE x \in set : Cardinality({y \in set : y <= x}) = i

\* The slots at the given places, in their order.
SlotsAt(env, at) == [i \in 1 .. Cardinality(at) |-> env.slots[Nth(at, i)]]

\* remove_slot: every slot of that id goes; the last slot may not.
RemoveSlot(env, dek, id) ==
    LET at == {i \in DOMAIN env.slots : env.slots[i].id # id}
    IN  IF ~Parses(env) \/ Len(env.slots) <= 1 \/ at = DOMAIN env.slots THEN Refused
        ELSE Rebuild(env, SlotsAt(env, at), dek)

NotOf(env, kind) == {i \in DOMAIN env.slots : env.slots[i].kind # kind}

\* Mutant: the MAC of the full envelope is kept.
StripKindOldMac(env, dek, kind) ==
    LET at == NotOf(env, kind)
    IN  IF ~Parses(env) \/ at = {} THEN Refused ELSE [env EXCEPT !.slots = SlotsAt(env, at)]

\* strip_kind: for export; the generation stays.
StripKind(env, dek, kind) ==
    LET at == NotOf(env, kind)
    IN  IF ~Parses(env) \/ at = {} THEN Refused
        ELSE IF at = DOMAIN env.slots THEN env ELSE Finalize(env.gen, SlotsAt(env, at), dek)

\* rotate_envelope: a fresh envelope under the new key, with the presenting
\* passkey and a new recovery code only, one generation past the old one.
RotateEnvelope(old, newDek, prf, code) ==
    LET fresh == AddSlot(CreateEnvelope(newDek, prf, Passkey), newDek, code, Recovery)
    IN  Finalize(old.gen + 1, fresh.slots, newDek)

\* mac_ok
MacOk(env, dek) == env.mac = ComputeMac(env.gen, env.slots, dek)

\* open_with_kek: the envelope parses, the first slot that authenticates,
\* then the MAC.
OpenWith(env, secret) ==
    LET i == SelectInSeq(env.slots, LAMBDA s : s.secret = secret)
    IN  IF ~Parses(env) \/ i = 0 \/ ~MacOk(env, env.slots[i].dek) THEN Refused
        ELSE [dek |-> env.slots[i].dek]

\* check_fresh, and #envelope() of the SDK: refuse what is below the floor.
CheckFresh(env, floor) == Generation(env) >= floor

-----------------------------------------------------------------------------
\* The secrets that open an envelope.
Openers(env) == {s \in {env.slots[i].secret : i \in DOMAIN env.slots} :
                    ~IsRefused(OpenWith(env, s))}
=============================================================================
