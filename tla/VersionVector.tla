--------------------------- MODULE VersionVector ---------------------------
(***************************************************************************)
(* The version-vector algebra of the sync engine (crates/freehold/src/     *)
(* sync.rs).  A vector is a function from devices to commit counts; an     *)
(* absent component is 0, which encode() makes indistinguishable.  Device  *)
(* ids are compared as byte strings in the code and as numbers here.       *)
(*                                                                         *)
(* Abstraction: counts stay below 256, so the little-endian bytes of       *)
(* encode() order like the numbers; saturation at 2^64 is out of reach.    *)
(***************************************************************************)
EXTENDS Integers, FiniteSets, Functions

CONSTANT NumDevices

ASSUME DevicesAssumption == NumDevices \in Nat \ {0}

Devices == 1 .. NumDevices
Vectors == [Devices -> Nat]

ZeroVector == [d \in Devices |-> 0]

\* Mutant: a component that is already present is not counted up.
IncrementInserts(v, d) == [v EXCEPT ![d] = IF @ = 0 THEN 1 ELSE @]

\* increment(device)
Increment(v, d) == [v EXCEPT ![d] = @ + 1]

\* merge_max
MergeMax(v, w) == [d \in Devices |-> IF w[d] > v[d] THEN w[d] ELSE v[d]]

TotalCount(v)  == SumFunction(v)
DeviceIdSet(v) == {d \in Devices : v[d] > 0}

\* relation(self, other)
Relation(v, w) ==
    LET selfGreater  == \E d \in Devices : v[d] > w[d]
        otherGreater == \E d \in Devices : w[d] > v[d]
    IN CASE ~selfGreater /\ ~otherGreater -> "equal"
         [] selfGreater  /\ ~otherGreater -> "dominates"
         [] ~selfGreater /\ otherGreater  -> "dominatedBy"
         [] selfGreater  /\ otherGreater  -> "concurrent"

\* v carries nothing that w has not seen.
Seen(v, w) == Relation(v, w) \in {"equal", "dominatedBy"}

\* Two ascending lists of ids, compared lexicographically: at the first id
\* they do not share, the list that has it is smaller unless the other one
\* has ended there.
IdListLess(S, T) ==
    LET diff == (S \ T) \cup (T \ S)
        m    == CHOOSE d \in diff : \A e \in diff : d <= e
    IN /\ diff # {}
       /\ IF m \in S THEN \E t \in T : t > m ELSE \A s \in S : s < m

\* The encodings of two vectors with the same ids.
EncodingLess(v, w) ==
    \E d \in Devices : v[d] < w[d] /\ \A e \in 1 .. d - 1 : v[e] = w[e]

\* incoming_wins(local, incoming)
IncomingWins(local, incoming) ==
    LET lt == TotalCount(local)    it == TotalCount(incoming)
        ls == DeviceIdSet(local)   is == DeviceIdSet(incoming)
    IN IF it # lt THEN it > lt
       ELSE IF is # ls THEN IdListLess(is, ls)
       ELSE EncodingLess(incoming, local)

\* reconcile(local, incoming)
Reconcile(local, incoming) ==
    CASE Relation(incoming, local) = "dominates" -> "fastforward"
      [] Seen(incoming, local) -> "stale"
      [] OTHER -> IF IncomingWins(local, incoming) THEN "forkIncoming" ELSE "forkLocal"
=============================================================================
