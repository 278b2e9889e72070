----------------------------- MODULE SyncProofs -----------------------------
(***************************************************************************)
(* The algebra of version vectors, and what sync() keeps, for any number   *)
(* of devices, edits, passes and blobs.                                    *)
(*                                                                         *)
(*  - Nothing published is dropped as long as no pass is abandoned: what   *)
(*    a device's vector covers is in its live image or kept as a fork.     *)
(*  - Whatever passes are abandoned, and however often, no image is pushed *)
(*    whose import was cut short.                                          *)
(*                                                                         *)
(* Both need that a device runs one pass at a time (OneEach).              *)
(***************************************************************************)
EXTENDS Sync, TLAPS, WellFoundedInduction, SequenceTheorems

-----------------------------------------------------------------------------
(* Vectors: comparing two has one answer, which the other side sees mirrored; *)
(* merging gives the least vector that covers both; and of two concurrent     *)
(* images both devices pick the same winner.  That the sum of a vector's      *)
(* counts is a number would take an induction over the devices; it is a       *)
(* hypothesis where it is needed.                                             *)

\* A non-empty set of devices has a least member.
LEMMA LeastDevice ==
    ASSUME NEW S, S \subseteq Devices, S # {}
    PROVE  \E m \in S : \A e \in S : m <= e
<1>1. S \subseteq Nat
    BY DevicesAssumption DEF Devices
<1>2. PICK m \in S : \A e \in S : ~(<<e, m>> \in OpToRel(<, Nat))
    BY <1>1, NatLessThanWellFounded, WFMin
<1>3. \A e \in S : ~(e < m)
    BY <1>1, <1>2 DEF OpToRel
<1>. QED
    BY <1>1, <1>3

\* relation(): each side sees the mirror of what the other sees, so that a
\* fast-forward for one device is stale for the other and a fork is a fork
\* for both.
THEOREM RelationMirrors ==
    ASSUME NEW v \in Vectors, NEW w \in Vectors
    PROVE  /\ Relation(v, w) = "equal"       <=> v = w
           /\ Relation(v, w) = "equal"       <=> Relation(w, v) = "equal"
           /\ Relation(v, w) = "dominates"   <=> Relation(w, v) = "dominatedBy"
           /\ Relation(v, w) = "concurrent"  <=> Relation(w, v) = "concurrent"
<1>. DEFINE g == \E d \in Devices : v[d] > w[d]
            h == \E d \in Devices : w[d] > v[d]
<1>1. /\ ~g /\ ~h => Relation(v, w) = "equal"       /\ Relation(w, v) = "equal"
      /\ g /\ ~h  => Relation(v, w) = "dominates"   /\ Relation(w, v) = "dominatedBy"
      /\ ~g /\ h  => Relation(v, w) = "dominatedBy" /\ Relation(w, v) = "dominates"
      /\ g /\ h   => Relation(v, w) = "concurrent"  /\ Relation(w, v) = "concurrent"
    BY DEF Relation
<1>2. (~g /\ ~h) <=> v = w
  <2>1. ASSUME ~g, ~h PROVE v = w
    <3>1. \A d \in Devices : v[d] \in Nat /\ w[d] \in Nat
        BY DEF Vectors
    <3>2. \A d \in Devices : v[d] = w[d]
        BY <2>1, <3>1
    <3>. QED
        BY <3>2 DEF Vectors
  <2>2. ASSUME v = w PROVE ~g /\ ~h
      BY <2>2 DEF Vectors
  <2>. QED
      BY <2>1, <2>2
<1>. HIDE DEF g, h
<1>. QED
    BY <1>1, <1>2

\* Seen() is the componentwise order.
LEMMA SeenIsBelow ==
    ASSUME NEW v \in Vectors, NEW w \in Vectors
    PROVE  Seen(v, w) <=> \A d \in Devices : v[d] <= w[d]
<1>. DEFINE g == \E d \in Devices : v[d] > w[d]
            h == \E d \in Devices : w[d] > v[d]
<1>1. Relation(v, w) = CASE ~g /\ ~h -> "equal" [] g /\ ~h -> "dominates"
                         [] ~g /\ h -> "dominatedBy" [] g /\ h -> "concurrent"
    BY DEF Relation
<1>2. g <=> ~(\A d \in Devices : v[d] <= w[d])
    BY DEF Vectors
<1>. HIDE DEF g, h
<1>3. Seen(v, w) <=> ~g
    BY <1>1 DEF Seen
<1>. QED
    BY <1>2, <1>3

\* merge_max: the merged vector has seen both, and every vector that has seen
\* both has seen it; merging what was seen already changes nothing.
THEOREM MergeIsLeast ==
    ASSUME NEW v \in Vectors, NEW w \in Vectors
    PROVE  /\ MergeMax(v, w) \in Vectors
           /\ Seen(v, MergeMax(v, w)) /\ Seen(w, MergeMax(v, w))
           /\ \A u \in Vectors : Seen(v, u) /\ Seen(w, u) => Seen(MergeMax(v, w), u)
           /\ Seen(w, v) => MergeMax(v, w) = v
           /\ MergeMax(v, w) = MergeMax(w, v)
<1>1. MergeMax(v, w) \in Vectors
    BY DEF MergeMax, Vectors
<1>2. \A d \in Devices : v[d] <= MergeMax(v, w)[d] /\ w[d] <= MergeMax(v, w)[d]
    BY DEF MergeMax, Vectors
<1>3. Seen(v, MergeMax(v, w)) /\ Seen(w, MergeMax(v, w))
    BY <1>1, <1>2, SeenIsBelow
<1>4. ASSUME NEW u \in Vectors, Seen(v, u), Seen(w, u)
      PROVE  Seen(MergeMax(v, w), u)
  <2>1. \A d \in Devices : v[d] <= u[d] /\ w[d] <= u[d]
      BY <1>4, SeenIsBelow
  <2>2. \A d \in Devices : MergeMax(v, w)[d] <= u[d]
      BY <2>1 DEF MergeMax
  <2>. QED
      BY <1>1, <2>2, SeenIsBelow
<1>5. ASSUME Seen(w, v) PROVE MergeMax(v, w) = v
  <2>1. \A d \in Devices : w[d] <= v[d]
      BY <1>5, SeenIsBelow
  <2>. QED
      BY <2>1 DEF MergeMax, Vectors
<1>6. MergeMax(v, w) = MergeMax(w, v)
  <2>1. \A d \in Devices : (IF w[d] > v[d] THEN w[d] ELSE v[d])
                           = (IF v[d] > w[d] THEN v[d] ELSE w[d])
      BY DEF Vectors
  <2>. QED
      BY <2>1 DEF MergeMax
<1>. QED
    BY <1>1, <1>3, <1>4, <1>5, <1>6

-----------------------------------------------------------------------------
(* The winner of a fork *)

\* Of two different id lists exactly one is smaller.
LEMMA IdListsCompare ==
    ASSUME NEW S, NEW T, S \subseteq Devices, T \subseteq Devices, S # T
    PROVE  IdListLess(S, T) <=> ~IdListLess(T, S)
<1>. DEFINE diff == (S \ T) \cup (T \ S)
            m    == CHOOSE d \in diff : \A e \in diff : d <= e
<1>1. diff # {} /\ diff \subseteq Devices
    BY DEF diff
<1>2. m \in diff /\ \A e \in diff : m <= e
  <2>1. \E d \in diff : \A e \in diff : d <= e
      BY <1>1, LeastDevice
  <2>. QED
      BY <2>1
<1>3. (T \ S) \cup (S \ T) = diff
    BY DEF diff
<1>4. IdListLess(S, T) <=> IF m \in S THEN \E t \in T : t > m ELSE \A s \in S : s < m
    BY <1>1 DEF IdListLess
<1>5. IdListLess(T, S) <=> IF m \in T THEN \E s \in S : s > m ELSE \A t \in T : t < m
    BY <1>1, <1>3 DEF IdListLess
<1>6. \A d \in S \cup T : d \in Int
    BY DevicesAssumption DEF Devices
<1>7. (m \in S /\ m \notin T) \/ (m \in T /\ m \notin S)
    BY <1>2 DEF diff
<1>8. m \in Int
    BY <1>6, <1>7
<1>. HIDE DEF m, diff
<1>9. CASE m \in S /\ m \notin T
  <2>1. (\E t \in T : t > m) <=> ~(\A t \in T : t < m)
      BY <1>6, <1>8, <1>9
  <2>. QED
      BY <1>4, <1>5, <1>9, <2>1
<1>10. CASE m \in T /\ m \notin S
  <2>1. (\E s \in S : s > m) <=> ~(\A s \in S : s < m)
      BY <1>6, <1>8, <1>10
  <2>. QED
      BY <1>4, <1>5, <1>10, <2>1
<1>. QED
    BY <1>7, <1>9, <1>10

\* Of two different vectors exactly one encodes to the smaller bytes.
LEMMA EncodingsCompare ==
    ASSUME NEW v \in Vectors, NEW w \in Vectors, v # w
    PROVE  EncodingLess(v, w) <=> ~EncodingLess(w, v)
<1>. DEFINE D == {d \in Devices : v[d] # w[d]}
<1>1. D # {}
    BY DEF Vectors
<1>2. PICK m \in D : \A e \in D : m <= e
    BY <1>1, LeastDevice
<1>3. \A d \in Devices : d \in Nat /\ v[d] \in Nat /\ w[d] \in Nat
    BY DevicesAssumption DEF Vectors, Devices
<1>4. \A e \in 1 .. m - 1 : v[e] = w[e]
    BY <1>2, <1>3, DevicesAssumption DEF Devices
<1>5. \A d \in Devices : (\A e \in 1 .. d - 1 : v[e] = w[e]) /\ v[d] # w[d] => d = m
  <2>1. SUFFICES ASSUME NEW d \in Devices, \A e \in 1 .. d - 1 : v[e] = w[e], v[d] # w[d]
                 PROVE  d = m
      OBVIOUS
  <2>2. m <= d
      BY <1>2, <2>1
  <2>3. m \in 1 .. d - 1 => FALSE
      BY <1>2, <2>1
  <2>. QED
      BY <1>2, <1>3, <2>2, <2>3, DevicesAssumption DEF Devices
<1>6. EncodingLess(v, w) <=> v[m] < w[m]
    BY <1>2, <1>3, <1>4, <1>5 DEF EncodingLess
<1>7. EncodingLess(w, v) <=> w[m] < v[m]
  <2>1. ASSUME w[m] < v[m] PROVE EncodingLess(w, v)
      BY <1>2, <1>3, <1>4, <2>1 DEF EncodingLess
  <2>2. ASSUME EncodingLess(w, v) PROVE w[m] < v[m]
    <3>1. PICK d \in Devices : w[d] < v[d] /\ \A e \in 1 .. d - 1 : w[e] = v[e]
        BY <2>2 DEF EncodingLess
    <3>2. v[d] # w[d]
        BY <1>3, <3>1
    <3>3. \A e \in 1 .. d - 1 : v[e] = w[e]
        BY <3>1
    <3>4. d = m
        BY <1>5, <3>2, <3>3
    <3>. QED
        BY <3>1, <3>4
  <2>. QED
      BY <2>1, <2>2
<1>. QED
    BY <1>2, <1>3, <1>6, <1>7

\* incoming_wins(): two devices that meet each other's image pick the same
\* winner: the incoming one wins here exactly if it loses there.
THEOREM OneWinner ==
    ASSUME NEW v \in Vectors, NEW w \in Vectors, v # w,
           TotalCount(v) \in Nat, TotalCount(w) \in Nat
    PROVE  IncomingWins(v, w) <=> ~IncomingWins(w, v)
<1>1. CASE TotalCount(v) # TotalCount(w)
    BY <1>1 DEF IncomingWins
<1>2. CASE TotalCount(v) = TotalCount(w) /\ DeviceIdSet(v) # DeviceIdSet(w)
  <2>1. IdListLess(DeviceIdSet(v), DeviceIdSet(w)) <=> ~IdListLess(DeviceIdSet(w), DeviceIdSet(v))
      BY <1>2, IdListsCompare DEF DeviceIdSet
  <2>. QED
      BY <1>2, <2>1 DEF IncomingWins
<1>3. CASE TotalCount(v) = TotalCount(w) /\ DeviceIdSet(v) = DeviceIdSet(w)
    BY <1>3, EncodingsCompare DEF IncomingWins
<1>. QED
    BY <1>1, <1>2, <1>3

\* reconcile(): whatever one device decides, the other decides its
\* counterpart.  Two devices that exchange their images never both keep
\* their own, never both take the other's, and never both call it stale.
THEOREM ReconcileAgrees ==
    ASSUME NEW v \in Vectors, NEW w \in Vectors, v # w,
           TotalCount(v) \in Nat, TotalCount(w) \in Nat
    PROVE  /\ Reconcile(v, w) = "fastforward"  <=> Reconcile(w, v) = "stale"
           /\ Reconcile(v, w) = "forkIncoming" <=> Reconcile(w, v) = "forkLocal"
<1>1. Relation(v, w) # "equal" /\ Relation(w, v) # "equal"
    BY RelationMirrors
<1>2. Relation(v, w) = "dominates" <=> Relation(w, v) = "dominatedBy"
    BY RelationMirrors
<1>3. Relation(w, v) = "dominates" <=> Relation(v, w) = "dominatedBy"
    BY RelationMirrors
<1>4. IncomingWins(v, w) <=> ~IncomingWins(w, v)
    BY OneWinner
<1>5. Reconcile(v, w) = IF Relation(w, v) = "dominates" THEN "fastforward"
                        ELSE IF Relation(w, v) = "dominatedBy" THEN "stale"
                        ELSE IF IncomingWins(v, w) THEN "forkIncoming" ELSE "forkLocal"
    BY <1>1 DEF Reconcile, Seen
<1>6. Reconcile(w, v) = IF Relation(v, w) = "dominates" THEN "fastforward"
                        ELSE IF Relation(v, w) = "dominatedBy" THEN "stale"
                        ELSE IF IncomingWins(w, v) THEN "forkIncoming" ELSE "forkLocal"
    BY <1>1 DEF Reconcile, Seen
<1>7. ~(Relation(v, w) = "dominates" /\ Relation(w, v) = "dominates")
    BY <1>2
<1>. QED
    BY <1>1, <1>2, <1>3, <1>4, <1>5, <1>6, <1>7

-----------------------------------------------------------------------------
(* Types *)

Pcs == {"idle", "list", "pull", "apply", "seal", "put", "relist", "saveVv",
        "saveCursor", "saveForks"}

Passes == [pc : Pcs, vv : Vectors, cursor : Nat, count : Nat, i : Nat,
           forks : SUBSET Images, next : Seq(Blobs), push : BOOLEAN, solo : BOOLEAN]

\* A pass lists and pulls within the log, applies the blob it pulled, and
\* puts one blob.
InLog(p, l) ==
    /\ p.i <= p.count
    /\ p.cursor <= Len(l)
    /\ p.pc \in {"pull", "apply"} => p.cursor + p.count <= Len(l)
    /\ p.pc = "apply" => p.i < p.count /\ p.next = <<l[p.cursor + p.i + 1]>>
    /\ p.pc = "list" => p.i = 0
    /\ p.pc = "put" => Len(p.next) = 1

TypeInv ==
    /\ log \in Seq(Blobs)
    /\ img \in [Devices -> Images] /\ anchor \in [Devices -> Nat]
    /\ idb \in [Devices -> [vv : Vectors, cursor : Nat, forks : SUBSET Images]]
    /\ pass \in [Callers -> Passes]
    /\ edits \in 0 .. MaxEdits /\ passes \in 0 .. MaxPasses /\ aborts \in 0 .. MaxAborts
    /\ \A d \in Devices : idb[d].cursor <= Len(log)
    /\ \A c \in Callers : InLog(pass[c], log)

\* The values the operators build.
LEMMA VectorTypes ==
    /\ ZeroVector \in Vectors
    /\ \A v, w \in Vectors : MergeMax(v, w) \in Vectors
    /\ \A v \in Vectors, d \in Devices : Increment(v, d) \in Vectors
BY DEF ZeroVector, Vectors, MergeMax, Increment

LEMMA IdleType == Idle \in Passes
BY VectorTypes, EmptySeq DEF Idle, Passes, Pcs

\* A blob of the log.
LEMMA LogBlob ==
    ASSUME TypeInv, NEW k \in 1 .. Len(log)
    PROVE  log[k] \in Blobs
BY ElementOfSeq DEF TypeInv

LEMMA TypeInit == Init => TypeInv
<1>. SUFFICES ASSUME Init PROVE TypeInv
    OBVIOUS
<1>1. log \in Seq(Blobs) /\ Len(log) = 0
    BY DEF Init
<1>2. /\ img \in [Devices -> Images]
      /\ anchor \in [Devices -> Nat]
      /\ idb \in [Devices -> [vv : Vectors, cursor : Nat, forks : SUBSET Images]]
    BY VectorTypes DEF Init, Images
<1>3. pass \in [Callers -> Passes] /\ \A c \in Callers : pass[c] = Idle
    BY IdleType DEF Init
<1>4. \A c \in Callers : InLog(pass[c], log)
    BY <1>1, <1>3 DEF InLog, Idle
<1>. QED
    BY <1>1, <1>2, <1>3, <1>4, CallersAssumption DEF TypeInv, Init

\* A step of one pass that leaves the log and the device alone.
LEMMA PassTypes ==
    ASSUME TypeInv, NEW c \in Callers, NEW r \in Passes, InLog(r, log),
           pass' = [pass EXCEPT ![c] = r],
           UNCHANGED <<log, img, anchor, idb, edits, passes, aborts>>
    PROVE  TypeInv'
<1>1. pass' \in [Callers -> Passes]
    BY DEF TypeInv
<1>2. \A o \in Callers : InLog(pass'[o], log)
    BY DEF TypeInv
<1>. QED
    BY <1>1, <1>2 DEF TypeInv

\* The log is as long or longer, with the same blobs.
LEMMA LogGrows ==
    ASSUME NEW p \in Passes, NEW l \in Seq(Blobs), NEW m \in Seq(Blobs), InLog(p, l),
           Len(l) <= Len(m), \A k \in 1 .. Len(l) : m[k] = l[k]
    PROVE  InLog(p, m)
<1>1. p.pc = "apply" => p.cursor + p.i + 1 \in 1 .. Len(l)
    BY DEF InLog, Passes
<1>2. Len(l) \in Nat /\ Len(m) \in Nat
    OBVIOUS
<1>. QED
    BY <1>1, <1>2 DEF InLog, Passes

\* p and q differ at most in the history of undisturbed passes.
Alike(p, q) ==
    /\ p.pc = q.pc /\ p.vv = q.vv /\ p.cursor = q.cursor /\ p.count = q.count
    /\ p.i = q.i /\ p.forks = q.forks /\ p.next = q.next /\ p.push = q.push

LEMMA SoloTypes ==
    ASSUME NEW p \in Passes
    PROVE  [p EXCEPT !.solo = FALSE] \in Passes /\ Alike([p EXCEPT !.solo = FALSE], p)
BY DEF Passes, Alike

LEMMA AlikeInLog ==
    ASSUME NEW p, NEW q, NEW l, Alike(p, q), InLog(q, l)
    PROVE  InLog(p, l)
BY DEF Alike, InLog

\* The records that the steps of a pass make.
LEMMA PassRecords ==
    ASSUME NEW p \in Passes
    PROVE  /\ \A pc \in Pcs : [p EXCEPT !.pc = pc] \in Passes
           /\ \A pc \in Pcs, n \in Nat :
                [p EXCEPT !.cursor = n, !.pc = pc] \in Passes
           /\ \A pc \in Pcs, next \in Seq(Blobs) :
                [p EXCEPT !.pc = pc, !.next = next] \in Passes
           /\ \A n \in Nat, forks \in SUBSET Images, vv \in Vectors :
                [p EXCEPT !.i = n, !.forks = forks, !.vv = vv] \in Passes
           /\ \A pc \in Pcs, next \in Seq(Blobs), forks \in SUBSET Images :
                [p EXCEPT !.pc = pc, !.next = next, !.forks = forks] \in Passes
           /\ \A pc \in Pcs, n \in Nat, next \in Seq(Blobs), vv \in Vectors :
                [p EXCEPT !.pc = pc, !.i = n, !.next = next, !.vv = vv] \in Passes
           /\ \A pc \in Pcs, vv \in Vectors, next \in Seq(Blobs) :
                [p EXCEPT !.pc = pc, !.vv = vv, !.next = next] \in Passes
BY DEF Passes

\* An edit changes the image, the anchor and the history.
LEMMA EditFacts ==
    ASSUME TypeInv, NEW d \in Devices, Edit(d)
    PROVE  /\ pass' \in [Callers -> Passes]
           /\ \A c \in Callers : Alike(pass'[c], pass[c])
           /\ img' \in [Devices -> Images]
           /\ \A e \in Devices : /\ img[e].edits \subseteq img'[e].edits
                                 /\ img'[e].whole = img[e].whole
<1>1. pass' = [c \in Callers |-> [pass[c] EXCEPT !.solo = FALSE]]
    BY DEF Edit
<1>2. \A c \in Callers : pass'[c] \in Passes /\ Alike(pass'[c], pass[c])
    BY <1>1, SoloTypes DEF TypeInv
<1>3. img' \in [Devices -> Images]
    BY CallersAssumption DEF TypeInv, Edit, Images
<1>4. \A e \in Devices : /\ img[e].edits \subseteq img'[e].edits
                         /\ img'[e].whole = img[e].whole
    BY DEF TypeInv, Edit, Images
<1>. QED
    BY <1>1, <1>2, <1>3, <1>4

LEMMA TypeEdit == ASSUME TypeInv, NEW d \in Devices, Edit(d) PROVE TypeInv'
<1>. DEFINE mark == IF anchor[d] > img[d].gen + 1 THEN anchor[d] ELSE img[d].gen + 1
<1>0. mark \in Nat
    BY DEF TypeInv, Images
<1>1. anchor' \in [Devices -> Nat]
    BY <1>0 DEF TypeInv, Edit
<1>2. \A c \in Callers : InLog(pass'[c], log)
    BY EditFacts, AlikeInLog DEF TypeInv
<1>3. edits < MaxEdits /\ edits' = edits + 1
    BY DEF Edit
<1>4. edits' \in 0 .. MaxEdits
    BY <1>3, CallersAssumption DEF TypeInv
<1>. QED
    BY <1>1, <1>2, <1>4, EditFacts DEF TypeInv, Edit

LEMMA TypeQuery == ASSUME TypeInv, NEW d \in Devices, Query(d) PROVE TypeInv'
<1>1. anchor' \in [Devices -> Nat]
    BY DEF TypeInv, Query, Images
<1>. QED
    BY <1>1 DEF TypeInv, Query

LEMMA OwnerType == \A c \in Callers : Owner[c] \in Devices
BY CallersAssumption

\* A pass begins with what its device has saved.
LEMMA BeginFacts ==
    ASSUME TypeInv, NEW c \in Callers, Begin(c)
    PROVE  /\ pass' \in [Callers -> Passes]
           /\ \A o \in Callers \ {c} : Alike(pass'[o], pass[o])
           /\ pass'[c].pc = "list" /\ pass'[c].i = 0 /\ pass'[c].count = 0
           /\ pass'[c].vv = idb[Owner[c]].vv /\ pass'[c].cursor = idb[Owner[c]].cursor
           /\ pass'[c].forks = idb[Owner[c]].forks
<1>. DEFINE saved == idb[Owner[c]]
            New(s, push) == [Idle EXCEPT !.pc = "list", !.vv = saved.vv, !.solo = s,
                             !.cursor = saved.cursor, !.forks = saved.forks, !.push = push]
<1>1. saved \in [vv : Vectors, cursor : Nat, forks : SUBSET Images]
    BY OwnerType DEF TypeInv
<1>2. \A s, push \in BOOLEAN :
        /\ New(s, push) \in Passes /\ New(s, push).pc = "list"
        /\ New(s, push).i = 0 /\ New(s, push).count = 0
        /\ New(s, push).vv = saved.vv /\ New(s, push).cursor = saved.cursor
        /\ New(s, push).forks = saved.forks
    BY <1>1, EmptySeq DEF Passes, Pcs, Idle
<1>. DEFINE alone == \A o \in Callers : ~Active(o)
<1>3. \E push \in IF PullOnly THEN BOOLEAN ELSE {TRUE} :
        pass' = [o \in Callers |-> IF o # c THEN [pass[o] EXCEPT !.solo = FALSE]
                                   ELSE New(alone /\ push, push)]
    BY DEF Begin
<1>4. PICK s, push \in BOOLEAN :
        pass' = [o \in Callers |-> IF o # c THEN [pass[o] EXCEPT !.solo = FALSE]
                                   ELSE New(s, push)]
    BY <1>3, CallersAssumption
<1>. HIDE DEF New
<1>5. pass'[c] = New(s, push)
    BY <1>4
<1>6. \A o \in Callers \ {c} : pass'[o] \in Passes /\ Alike(pass'[o], pass[o])
    BY <1>4, SoloTypes DEF TypeInv
<1>7. pass' = [o \in Callers |-> pass'[o]]
    BY <1>4
<1>8. pass'[c] \in Passes
    BY <1>2, <1>5
<1>9. pass' \in [Callers -> Passes]
    BY <1>6, <1>7, <1>8
<1>. QED
    BY <1>2, <1>5, <1>6, <1>9

LEMMA TypeBegin == ASSUME TypeInv, NEW c \in Callers, Begin(c) PROVE TypeInv'
<1>1. InLog(pass'[c], log)
    BY BeginFacts, OwnerType DEF TypeInv, InLog
<1>2. \A o \in Callers \ {c} : InLog(pass'[o], log)
    BY BeginFacts DEF TypeInv, InLog, Alike
<1>3. \A o \in Callers : InLog(pass'[o], log)
    BY <1>1, <1>2
<1>4. passes < MaxPasses /\ passes' = passes + 1
    BY DEF Begin
<1>5. passes' \in 0 .. MaxPasses
    BY <1>4, CallersAssumption DEF TypeInv
<1>. QED
    BY <1>3, <1>5, BeginFacts DEF TypeInv, Begin

LEMMA TypeList == ASSUME TypeInv, NEW c \in Callers, List(c) PROVE TypeInv'
<1>. DEFINE n == IF Len(log) > pass[c].cursor THEN Len(log) - pass[c].cursor ELSE 0
            r == [pass[c] EXCEPT !.pc = "pull", !.count = n]
<1>0. Len(log) \in Nat /\ pass[c] \in Passes /\ InLog(pass[c], log)
    BY DEF TypeInv
<1>1. pass' = [pass EXCEPT ![c] = r]
    BY <1>0 DEF TypeInv, List, Passes
<1>2. n \in Nat /\ pass[c].cursor + n <= Len(log)
    BY <1>0 DEF InLog, Passes
<1>3. r \in Passes /\ r.cursor = pass[c].cursor /\ r.count = n /\ r.pc = "pull" /\ r.i = pass[c].i
    BY <1>0, <1>2 DEF Passes, Pcs
<1>. HIDE DEF n, r
<1>4. InLog(r, log)
    BY <1>0, <1>2, <1>3 DEF InLog, List, At
<1>. QED
    BY <1>1, <1>3, <1>4, PassTypes DEF List

\* What Pull makes of a pass, for each answer of reconcile() on the blob b.
PullsInto(c, b, r) ==
    LET p == pass[c]
        w == Reconcile(p.vv, b.vv)
    IN  /\ p.pc = "pull" /\ p.i < p.count
        /\ p.cursor + p.i + 1 \in 1 .. Len(log) /\ b = log[p.cursor + p.i + 1]
        /\ pass' = [pass EXCEPT ![c] = r]
        /\ r.cursor = p.cursor /\ r.count = p.count
        /\ \/ /\ w \in {"stale", "forkLocal"} /\ r.pc = "pull" /\ r.i = p.i + 1
              /\ \/ w = "stale" /\ r.vv = p.vv /\ r.forks = p.forks
                 \/ /\ w = "forkLocal" /\ r.vv = MergeMax(p.vv, b.vv)
                    /\ r.forks = p.forks \cup {b.image}
           \/ /\ w \notin {"stale", "forkLocal"}
              /\ r.pc = "apply" /\ r.i = p.i /\ r.next = <<b>> /\ r.vv = p.vv
              /\ \/ w = "fastforward" /\ r.forks = p.forks
                 \/ w # "fastforward" /\ r.forks = p.forks \cup {img[Owner[c]]}

LEMMA PullFacts ==
    ASSUME TypeInv, NEW c \in Callers, Pull(c)
    PROVE  \E b \in Blobs, r \in Passes : PullsInto(c, b, r)
<1>. DEFINE p == pass[c]
            b == log[p.cursor + p.i + 1]
            w == Reconcile(p.vv, b.vv)
            r1 == [p EXCEPT !.i = @ + 1]
            r2 == [p EXCEPT !.pc = "apply", !.next = <<b>>]
            r3 == [p EXCEPT !.i = @ + 1, !.forks = @ \cup {b.image}, !.vv = MergeMax(@, b.vv)]
            r4 == [p EXCEPT !.pc = "apply", !.next = <<b>>, !.forks = @ \cup {img[Owner[c]]}]
<1>1. p \in Passes /\ InLog(p, log) /\ p.pc = "pull" /\ p.i < p.count /\ Len(log) \in Nat
    BY DEF TypeInv, Pull, At
<1>2. p.cursor + p.i + 1 \in 1 .. Len(log)
    BY <1>1 DEF InLog, Passes
<1>3. b \in Blobs /\ b.vv \in Vectors /\ b.image \in Images
    BY <1>2, LogBlob DEF Blobs
<1>4. img[Owner[c]] \in Images
    BY OwnerType DEF TypeInv
<1>5. pass' = [pass EXCEPT ![c] = CASE w = "stale" -> r1
                                    [] w = "fastforward" -> r2
                                    [] w = "forkLocal" -> r3
                                    [] OTHER -> r4]
    BY DEF Pull
<1>. HIDE DEF b
<1>30. <<b>> \in Seq(Blobs) /\ "apply" \in Pcs
    BY <1>3 DEF Pcs
<1>6. r1 \in Passes /\ r1.pc = p.pc /\ r1.i = p.i + 1 /\ r1.cursor = p.cursor
      /\ r1.count = p.count /\ r1.next = p.next /\ r1.vv = p.vv /\ r1.forks = p.forks
      /\ r1.push = p.push /\ r1.solo = p.solo
    BY <1>1 DEF Passes
<1>7. r2 \in Passes /\ r2.pc = "apply" /\ r2.i = p.i /\ r2.cursor = p.cursor
      /\ r2.count = p.count /\ r2.next = <<b>> /\ r2.vv = p.vv /\ r2.forks = p.forks
      /\ r2.push = p.push /\ r2.solo = p.solo
  <2>1. r2 \in Passes
      BY <1>1, <1>3, <1>30, PassRecords
  <2>. QED
      BY <1>1, <2>1 DEF Passes
<1>8. r3 \in Passes /\ r3.pc = p.pc /\ r3.i = p.i + 1 /\ r3.cursor = p.cursor
      /\ r3.count = p.count /\ r3.next = p.next /\ r3.vv = MergeMax(p.vv, b.vv)
      /\ r3.forks = p.forks \cup {b.image}
      /\ r3.push = p.push /\ r3.solo = p.solo
  <2>1. p.i + 1 \in Nat /\ p.forks \cup {b.image} \in SUBSET Images
        /\ MergeMax(p.vv, b.vv) \in Vectors
      BY <1>1, <1>3, VectorTypes DEF Passes
  <2>2. r3 \in Passes
      BY <1>1, <2>1, PassRecords
  <2>. QED
      BY <1>1, <2>2 DEF Passes
<1>9. r4 \in Passes /\ r4.pc = "apply" /\ r4.i = p.i /\ r4.cursor = p.cursor
      /\ r4.count = p.count /\ r4.next = <<b>> /\ r4.vv = p.vv
      /\ r4.forks = p.forks \cup {img[Owner[c]]}
      /\ r4.push = p.push /\ r4.solo = p.solo
  <2>1. p.forks \cup {img[Owner[c]]} \in SUBSET Images
      BY <1>1, <1>4 DEF Passes
  <2>2. r4 \in Passes
      BY <1>1, <1>30, <2>1, PassRecords
  <2>. QED
      BY <1>1, <2>2 DEF Passes
<1>. HIDE DEF r1, r2, r3, r4, w
<1>10. CASE w = "stale"
  <2>1. pass' = [pass EXCEPT ![c] = r1]
      BY <1>5, <1>10
  <2>. QED
      BY <1>1, <1>2, <1>3, <1>6, <1>10, <2>1 DEF b, w, PullsInto
<1>11. CASE w = "forkLocal"
  <2>1. pass' = [pass EXCEPT ![c] = r3]
      BY <1>5, <1>11
  <2>. QED
      BY <1>1, <1>2, <1>3, <1>8, <1>11, <2>1 DEF b, w, PullsInto
<1>12. CASE w = "fastforward"
  <2>1. pass' = [pass EXCEPT ![c] = r2]
      BY <1>5, <1>12
  <2>. QED
      BY <1>1, <1>2, <1>3, <1>7, <1>12, <2>1 DEF b, w, PullsInto
<1>13. CASE w \notin {"stale", "forkLocal", "fastforward"}
  <2>1. pass' = [pass EXCEPT ![c] = r4]
      BY <1>5, <1>13
  <2>. QED
      BY <1>1, <1>2, <1>3, <1>9, <1>13, <2>1 DEF b, w, PullsInto
<1>. QED
    BY <1>10, <1>11, <1>12, <1>13

LEMMA TypePull == ASSUME TypeInv, NEW c \in Callers, Pull(c) PROVE TypeInv'
<1>0. PICK b \in Blobs, r \in Passes : PullsInto(c, b, r)
    BY PullFacts
<1>1. /\ pass[c].pc = "pull" /\ pass[c].i < pass[c].count
      /\ b = log[pass[c].cursor + pass[c].i + 1]
      /\ pass' = [pass EXCEPT ![c] = r]
      /\ r.cursor = pass[c].cursor /\ r.count = pass[c].count
      /\ \/ r.pc = "pull" /\ r.i = pass[c].i + 1
         \/ r.pc = "apply" /\ r.i = pass[c].i /\ r.next = <<b>>
    BY <1>0 DEF PullsInto
<1>2. InLog(pass[c], log) /\ pass[c] \in Passes /\ Len(log) \in Nat
    BY DEF TypeInv
<1>3. InLog(r, log)
    BY <1>1, <1>2 DEF InLog, Passes
<1>. QED
    BY <1>1, <1>3, PassTypes DEF Pull

\* What the other steps make of a pass.
LEMMA ApplyFacts ==
    ASSUME TypeInv, NEW c \in Callers, Apply(c)
    PROVE  \E b \in Blobs, r \in Passes :
              /\ pass[c].pc = "apply" /\ pass[c].i < pass[c].count
              /\ pass[c].cursor + pass[c].i + 1 \in 1 .. Len(log)
              /\ b = log[pass[c].cursor + pass[c].i + 1] /\ b = pass[c].next[1]
              /\ pass' = [pass EXCEPT ![c] = r]
              /\ img' = [img EXCEPT ![Owner[c]] = b.image]
              /\ r.pc = "pull" /\ r.i = pass[c].i + 1 /\ r.next = <<>>
              /\ r.vv = MergeMax(pass[c].vv, b.vv)
              /\ r.cursor = pass[c].cursor /\ r.count = pass[c].count
              /\ r.forks = pass[c].forks
<1>. DEFINE p == pass[c]
            b == p.next[1]
            r == [p EXCEPT !.pc = "pull", !.i = p.i + 1, !.next = <<>>,
                           !.vv = MergeMax(p.vv, b.vv)]
<1>1. p \in Passes /\ InLog(p, log) /\ p.pc = "apply" /\ Len(log) \in Nat
    BY DEF TypeInv, Apply, At
<1>2. p.cursor + p.i + 1 \in 1 .. Len(log) /\ p.i < p.count
    BY <1>1 DEF InLog, Passes
<1>3. b = log[p.cursor + p.i + 1]
    BY <1>1 DEF InLog
<1>4. b \in Blobs /\ b.vv \in Vectors
    BY <1>2, <1>3, LogBlob DEF Blobs
<1>5. pass' = [pass EXCEPT ![c] = r] /\ img' = [img EXCEPT ![Owner[c]] = b.image]
    BY DEF Apply, TypeInv
<1>6. p.i + 1 \in Nat /\ <<>> \in Seq(Blobs) /\ "pull" \in Pcs /\ MergeMax(p.vv, b.vv) \in Vectors
    BY <1>1, <1>4, VectorTypes DEF Passes, Pcs
<1>. HIDE DEF b
<1>7. r \in Passes
    BY <1>1, <1>6, PassRecords
<1>8. /\ r.pc = "pull" /\ r.i = p.i + 1 /\ r.next = <<>> /\ r.vv = MergeMax(p.vv, b.vv)
      /\ r.cursor = p.cursor /\ r.count = p.count /\ r.forks = p.forks
    BY <1>1 DEF Passes
<1>. HIDE DEF r
<1>. QED
    BY <1>1, <1>2, <1>3, <1>4, <1>5, <1>7, <1>8 DEF b

LEMMA TypeApply == ASSUME TypeInv, NEW c \in Callers, Apply(c) PROVE TypeInv'
<1>1. PICK b \in Blobs, r \in Passes :
              /\ pass[c].i < pass[c].count /\ pass[c].pc = "apply"
              /\ pass' = [pass EXCEPT ![c] = r]
              /\ img' = [img EXCEPT ![Owner[c]] = b.image]
              /\ r.pc = "pull" /\ r.i = pass[c].i + 1
              /\ r.cursor = pass[c].cursor /\ r.count = pass[c].count
    BY ApplyFacts
<1>2. InLog(pass[c], log) /\ pass[c] \in Passes /\ Len(log) \in Nat
    BY DEF TypeInv
<1>3. InLog(r, log)
    BY <1>1, <1>2 DEF InLog, Passes
<1>4. b.image \in Images
    BY DEF Blobs
<1>5. img' \in [Devices -> Images]
    BY <1>1, <1>4 DEF TypeInv
<1>6. pass' \in [Callers -> Passes] /\ \A o \in Callers : InLog(pass'[o], log)
    BY <1>1, <1>3 DEF TypeInv
<1>. QED
    BY <1>5, <1>6 DEF TypeInv, Apply

LEMMA EndPullFacts ==
    ASSUME TypeInv, NEW c \in Callers, EndPull(c)
    PROVE  \E r \in Passes :
              /\ pass[c].pc = "pull" /\ pass[c].i = pass[c].count
              /\ pass' = [pass EXCEPT ![c] = r]
              /\ r.pc \in {"seal", "saveVv"} /\ r.cursor = pass[c].cursor + pass[c].count
              /\ r.vv = pass[c].vv /\ r.i = pass[c].i /\ r.count = pass[c].count
              /\ r.forks = pass[c].forks /\ r.next = pass[c].next
<1>. DEFINE p == pass[c]
            pc == IF p.push THEN "seal" ELSE "saveVv"
            r == [p EXCEPT !.cursor = p.cursor + p.count, !.pc = pc]
<1>1. p \in Passes /\ p.pc = "pull" /\ p.i = p.count
    BY DEF TypeInv, EndPull, At
<1>2. p.cursor + p.count \in Nat /\ pc \in {"seal", "saveVv"} /\ pc \in Pcs
    BY <1>1 DEF Passes, Pcs
<1>3. pass' = [pass EXCEPT ![c] = r]
    BY DEF EndPull, TypeInv
<1>. HIDE DEF pc
<1>4. r \in Passes
    BY <1>1, <1>2, PassRecords
<1>5. /\ r.pc = pc /\ r.cursor = p.cursor + p.count /\ r.vv = p.vv /\ r.i = p.i
      /\ r.count = p.count /\ r.forks = p.forks /\ r.next = p.next
    BY <1>1 DEF Passes
<1>. HIDE DEF r
<1>. QED
    BY <1>1, <1>2, <1>3, <1>4, <1>5

LEMMA TypeEndPull == ASSUME TypeInv, NEW c \in Callers, EndPull(c) PROVE TypeInv'
<1>1. PICK r \in Passes :
              /\ pass[c].pc = "pull" /\ pass' = [pass EXCEPT ![c] = r]
              /\ r.pc \in {"seal", "saveVv"} /\ r.cursor = pass[c].cursor + pass[c].count
              /\ r.i = pass[c].i /\ r.count = pass[c].count
    BY EndPullFacts
<1>2. InLog(pass[c], log) /\ pass[c] \in Passes
    BY DEF TypeInv
<1>3. InLog(r, log)
    BY <1>1, <1>2 DEF InLog
<1>. QED
    BY <1>1, <1>3, PassTypes DEF EndPull

LEMMA SealFacts ==
    ASSUME TypeInv, NEW c \in Callers, Seal(c)
    PROVE  \E b \in Blobs, r \in Passes :
              /\ pass[c].pc = "seal" /\ pass' = [pass EXCEPT ![c] = r]
              /\ b.vv = Increment(pass[c].vv, Owner[c]) /\ b.image = img[Owner[c]]
              /\ r.pc = "put" /\ r.vv = b.vv /\ r.next = <<b>>
              /\ r.cursor = pass[c].cursor /\ r.count = pass[c].count /\ r.i = pass[c].i
              /\ r.forks = pass[c].forks
<1>. DEFINE p == pass[c]
            vv == Increment(p.vv, Owner[c])
            b == [vv |-> vv, image |-> img[Owner[c]]]
            r == [p EXCEPT !.pc = "put", !.vv = vv, !.next = <<b>>]
<1>1. p \in Passes /\ p.pc = "seal"
    BY DEF TypeInv, Seal, At
<1>2. vv \in Vectors
    BY <1>1, VectorTypes, OwnerType DEF Passes
<1>3. b \in Blobs /\ b.vv = vv /\ b.image = img[Owner[c]]
    BY <1>2, OwnerType DEF Blobs, TypeInv
<1>4. pass' = [pass EXCEPT ![c] = r]
    BY DEF Seal, TypeInv
<1>5. <<b>> \in Seq(Blobs) /\ "put" \in Pcs
    BY <1>3 DEF Pcs
<1>. HIDE DEF b, vv
<1>6. r \in Passes
    BY <1>1, <1>2, <1>5, PassRecords
<1>7. /\ r.pc = "put" /\ r.vv = vv /\ r.next = <<b>> /\ r.cursor = p.cursor
      /\ r.count = p.count /\ r.i = p.i /\ r.forks = p.forks
    BY <1>1 DEF Passes
<1>. HIDE DEF r
<1>. QED
    BY <1>1, <1>3, <1>4, <1>6, <1>7 DEF vv

LEMMA TypeSeal == ASSUME TypeInv, NEW c \in Callers, Seal(c) PROVE TypeInv'
<1>1. PICK b \in Blobs, r \in Passes :
              /\ pass' = [pass EXCEPT ![c] = r]
              /\ r.pc = "put" /\ r.next = <<b>> /\ r.cursor = pass[c].cursor
              /\ r.count = pass[c].count /\ r.i = pass[c].i
    BY SealFacts
<1>2. InLog(pass[c], log)
    BY DEF TypeInv
<1>3. InLog(r, log)
    BY <1>1, <1>2 DEF InLog
<1>. QED
    BY <1>1, <1>3, PassTypes DEF Seal

LEMMA PutFacts ==
    ASSUME TypeInv, NEW c \in Callers, Put(c)
    PROVE  \E b \in Blobs, r \in Passes :
              /\ pass[c].pc = "put" /\ pass[c].next = <<b>> /\ b = pass[c].next[1]
              /\ pass' = [pass EXCEPT ![c] = r]
              /\ r.pc = "relist" /\ r.vv = pass[c].vv /\ r.next = <<>>
              /\ r.cursor = pass[c].cursor /\ r.count = pass[c].count /\ r.i = pass[c].i
              /\ r.forks = pass[c].forks
              /\ log' \in Seq(Blobs) /\ Len(log') = Len(log) + 1 /\ Len(log) \in Nat
              /\ log'[Len(log) + 1] = b
              /\ \A k \in 1 .. Len(log) : log'[k] = log[k]
<1>. DEFINE p == pass[c]
            b == p.next[1]
            r == [p EXCEPT !.pc = "relist", !.next = <<>>]
<1>1. p \in Passes /\ p.pc = "put" /\ Len(p.next) = 1 /\ p.next \in Seq(Blobs)
    BY DEF TypeInv, Put, At, InLog, Passes
<1>2. b \in Blobs /\ p.next = <<b>>
    BY <1>1
<1>3. pass' = [pass EXCEPT ![c] = r] /\ log' = log \o p.next
    BY DEF Put, TypeInv
<1>4. <<>> \in Seq(Blobs) /\ "relist" \in Pcs
    BY DEF Pcs
<1>. HIDE DEF b
<1>5. log' = log \o <<b>> /\ log \in Seq(Blobs)
    BY <1>2, <1>3 DEF TypeInv
<1>6. /\ log' \in Seq(Blobs) /\ Len(log') = Len(log) + 1 /\ Len(log) \in Nat
      /\ log'[Len(log) + 1] = b
      /\ \A k \in 1 .. Len(log) : log'[k] = log[k]
    BY <1>2, <1>5
<1>7. r \in Passes
    BY <1>1, <1>4, PassRecords
<1>8. /\ r.pc = "relist" /\ r.next = <<>> /\ r.cursor = p.cursor /\ r.vv = p.vv
      /\ r.count = p.count /\ r.i = p.i /\ r.forks = p.forks
    BY <1>1 DEF Passes
<1>. HIDE DEF r
<1>. QED
    BY <1>1, <1>2, <1>3, <1>6, <1>7, <1>8 DEF b

LEMMA TypePut == ASSUME TypeInv, NEW c \in Callers, Put(c) PROVE TypeInv'
<1>1. PICK b \in Blobs, r \in Passes :
              /\ pass' = [pass EXCEPT ![c] = r]
              /\ r.pc = "relist" /\ r.cursor = pass[c].cursor
              /\ r.count = pass[c].count /\ r.i = pass[c].i
              /\ log' \in Seq(Blobs) /\ Len(log') = Len(log) + 1 /\ Len(log) \in Nat
              /\ \A k \in 1 .. Len(log) : log'[k] = log[k]
    BY PutFacts
<1>2. InLog(r, log)
    BY <1>1 DEF InLog, TypeInv
<1>3. pass' \in [Callers -> Passes] /\ \A o \in Callers : InLog(pass'[o], log)
    BY <1>1, <1>2 DEF TypeInv
<1>4. log \in Seq(Blobs) /\ Len(log) <= Len(log')
    BY <1>1 DEF TypeInv
<1>5. \A o \in Callers : InLog(pass'[o], log')
    BY <1>1, <1>3, <1>4, LogGrows
<1>6. idb' = idb /\ \A d \in Devices : idb[d].cursor \in Nat /\ idb[d].cursor <= Len(log)
    BY DEF TypeInv, Put
<1>7. \A d \in Devices : idb'[d].cursor <= Len(log')
    BY <1>1, <1>6
<1>. QED
    BY <1>1, <1>3, <1>5, <1>7 DEF TypeInv, Put

LEMMA RelistFacts ==
    ASSUME TypeInv, NEW c \in Callers, Relist(c)
    PROVE  \E r \in Passes :
              /\ pass[c].pc = "relist" /\ pass' = [pass EXCEPT ![c] = r]
              /\ r.pc = "saveVv" /\ r.vv = pass[c].vv /\ r.next = pass[c].next
              /\ r.cursor = Len(log) /\ r.count = pass[c].count /\ r.i = pass[c].i
              /\ r.forks = pass[c].forks
<1>. DEFINE p == pass[c]
            r == [p EXCEPT !.cursor = Len(log), !.pc = "saveVv"]
<1>1. p \in Passes /\ p.pc = "relist" /\ Len(log) \in Nat /\ "saveVv" \in Pcs
    BY DEF TypeInv, Relist, At, Pcs
<1>2. pass' = [pass EXCEPT ![c] = r]
    BY DEF Relist, TypeInv
<1>3. r \in Passes
    BY <1>1, PassRecords
<1>4. /\ r.pc = "saveVv" /\ r.next = p.next /\ r.cursor = Len(log) /\ r.vv = p.vv
      /\ r.count = p.count /\ r.i = p.i /\ r.forks = p.forks
    BY <1>1 DEF Passes
<1>. HIDE DEF r
<1>. QED
    BY <1>1, <1>2, <1>3, <1>4

LEMMA TypeRelist == ASSUME TypeInv, NEW c \in Callers, Relist(c) PROVE TypeInv'
<1>1. PICK r \in Passes :
              /\ pass' = [pass EXCEPT ![c] = r] /\ r.pc = "saveVv"
              /\ r.cursor = Len(log) /\ r.count = pass[c].count /\ r.i = pass[c].i
    BY RelistFacts
<1>2. InLog(r, log)
    BY <1>1 DEF InLog, TypeInv
<1>. QED
    BY <1>1, <1>2, PassTypes DEF Relist

\* The saves: what the device keeps of a pass, and where the pass goes on.
LEMMA SaveFacts ==
    ASSUME TypeInv, NEW c \in Callers, SaveVv(c) \/ SaveCursor(c) \/ SaveForks(c)
    PROVE  \E r \in Passes, s \in [vv : Vectors, cursor : Nat, forks : SUBSET Images] :
              /\ pass' = [pass EXCEPT ![c] = r] /\ idb' = [idb EXCEPT ![Owner[c]] = s]
              /\ \/ /\ pass[c].pc = "saveVv" /\ r.pc = "saveCursor"
                    /\ s.vv = pass[c].vv /\ s.cursor = idb[Owner[c]].cursor
                    /\ s.forks = idb[Owner[c]].forks
                 \/ /\ pass[c].pc = "saveCursor" /\ r.pc = "saveForks"
                    /\ s.vv = idb[Owner[c]].vv /\ s.cursor = pass[c].cursor
                    /\ s.forks = idb[Owner[c]].forks
                 \/ /\ pass[c].pc = "saveForks" /\ r = Idle
                    /\ s.vv = idb[Owner[c]].vv /\ s.cursor = idb[Owner[c]].cursor
                    /\ s.forks = pass[c].forks
              /\ r # Idle => /\ r.vv = pass[c].vv /\ r.forks = pass[c].forks
                             /\ r.cursor = pass[c].cursor /\ r.next = pass[c].next
                             /\ r.count = pass[c].count /\ r.i = pass[c].i
<1>. DEFINE p == pass[c]
            saved == idb[Owner[c]]
            Saves == [vv : Vectors, cursor : Nat, forks : SUBSET Images]
            At1(pc) == [p EXCEPT !.pc = pc]
<1>1. p \in Passes /\ saved \in Saves
    BY OwnerType DEF TypeInv
<1>2. \A pc \in Pcs : /\ At1(pc) \in Passes /\ At1(pc).pc = pc /\ At1(pc).vv = p.vv
                      /\ At1(pc).forks = p.forks /\ At1(pc).cursor = p.cursor
                      /\ At1(pc).next = p.next /\ At1(pc).count = p.count /\ At1(pc).i = p.i
    BY <1>1, PassRecords DEF Passes
<1>3. "saveCursor" \in Pcs /\ "saveForks" \in Pcs
    BY DEF Pcs
<1>4. CASE SaveVv(c)
  <2>. DEFINE s == [saved EXCEPT !.vv = p.vv]
              r == At1("saveCursor")
  <2>1. p.pc = "saveVv" /\ pass' = [pass EXCEPT ![c] = r] /\ idb' = [idb EXCEPT ![Owner[c]] = s]
      BY <1>4 DEF SaveVv, At, TypeInv
  <2>2. s \in Saves /\ s.vv = p.vv /\ s.cursor = saved.cursor /\ s.forks = saved.forks
      BY <1>1 DEF Passes
  <2>. HIDE DEF s, At1
  <2>. QED
      BY <2>1, <2>2, <1>2, <1>3
<1>5. CASE SaveCursor(c)
  <2>. DEFINE s == [saved EXCEPT !.cursor = p.cursor]
              r == At1("saveForks")
  <2>1. p.pc = "saveCursor" /\ pass' = [pass EXCEPT ![c] = r] /\ idb' = [idb EXCEPT ![Owner[c]] = s]
      BY <1>5 DEF SaveCursor, At, TypeInv
  <2>2. s \in Saves /\ s.vv = saved.vv /\ s.cursor = p.cursor /\ s.forks = saved.forks
      BY <1>1 DEF Passes
  <2>. HIDE DEF s, At1
  <2>. QED
      BY <2>1, <2>2, <1>2, <1>3
<1>6. CASE SaveForks(c)
  <2>. DEFINE s == [saved EXCEPT !.forks = p.forks]
  <2>1. p.pc = "saveForks" /\ pass' = [pass EXCEPT ![c] = Idle] /\ idb' = [idb EXCEPT ![Owner[c]] = s]
      BY <1>6 DEF SaveForks, At, TypeInv
  <2>2. s \in Saves /\ s.vv = saved.vv /\ s.cursor = saved.cursor /\ s.forks = p.forks
      BY <1>1 DEF Passes
  <2>. HIDE DEF s
  <2>. QED
      BY <2>1, <2>2, IdleType
<1>. QED
    BY <1>4, <1>5, <1>6

LEMMA TypeSave ==
    ASSUME TypeInv, NEW c \in Callers, SaveVv(c) \/ SaveCursor(c) \/ SaveForks(c)
    PROVE  TypeInv'
<1>1. PICK r \in Passes, s \in [vv : Vectors, cursor : Nat, forks : SUBSET Images] :
        /\ pass' = [pass EXCEPT ![c] = r] /\ idb' = [idb EXCEPT ![Owner[c]] = s]
        /\ s.cursor \in {idb[Owner[c]].cursor, pass[c].cursor}
        /\ r.pc \in {"saveCursor", "saveForks"} \/ r = Idle
        /\ r # Idle => /\ r.cursor = pass[c].cursor /\ r.count = pass[c].count
                       /\ r.i = pass[c].i
    BY SaveFacts
<1>2. InLog(pass[c], log) /\ Len(log) \in Nat /\ idb[Owner[c]].cursor <= Len(log)
    BY OwnerType DEF TypeInv
<1>3. InLog(r, log)
    BY <1>1, <1>2 DEF InLog, Idle
<1>4. pass' \in [Callers -> Passes] /\ \A o \in Callers : InLog(pass'[o], log)
    BY <1>1, <1>3 DEF TypeInv
<1>5. s.cursor <= Len(log)
    BY <1>1, <1>2 DEF InLog
<1>6. /\ idb' \in [Devices -> [vv : Vectors, cursor : Nat, forks : SUBSET Images]]
      /\ \A d \in Devices : idb'[d].cursor <= Len(log)
    BY <1>1, <1>5, OwnerType DEF TypeInv
<1>7. UNCHANGED <<log, img, anchor, edits, passes, aborts>>
    BY DEF SaveVv, SaveCursor, SaveForks
<1>. QED
    BY <1>4, <1>6, <1>7 DEF TypeInv

\* What is left when a pass is abandoned.
LEMMA AbortFacts ==
    ASSUME TypeInv, NEW c \in Callers, Abort(c)
    PROVE  /\ aborts < MaxAborts /\ aborts' = aborts + 1
           /\ pass' = [pass EXCEPT ![c] = Idle]
           /\ UNCHANGED <<log, anchor, idb, edits, passes>>
           /\ img' \in [Devices -> Images]
           /\ \/ img' = img
              \/ pass[c].pc = "apply" /\ \A d \in Devices \ {Owner[c]} : img'[d] = img[d]
<1>1. CASE img' = img
    BY <1>1 DEF Abort, TypeInv
<1>2. CASE At(c, "apply") /\ img' = [img EXCEPT ![Owner[c]].whole = FALSE,
                                               ![Owner[c]].edits = {}]
  <2>1. img' \in [Devices -> Images]
      BY <1>2, OwnerType DEF TypeInv, Images
  <2>2. \A d \in Devices \ {Owner[c]} : img'[d] = img[d]
      BY <1>2, OwnerType DEF TypeInv
  <2>. QED
      BY <1>2, <2>1, <2>2 DEF Abort, At
<1>. QED
    BY <1>1, <1>2 DEF Abort

LEMMA TypeAbort == ASSUME TypeInv, NEW c \in Callers, Abort(c) PROVE TypeInv'
<1>1. InLog(Idle, log)
    BY DEF InLog, Idle, TypeInv
<1>2. pass' \in [Callers -> Passes] /\ \A o \in Callers : InLog(pass'[o], log)
    BY <1>1, AbortFacts, IdleType DEF TypeInv
<1>3. aborts' \in 0 .. MaxAborts
    BY AbortFacts, CallersAssumption DEF TypeInv
<1>. QED
    BY <1>2, <1>3, AbortFacts DEF TypeInv

LEMMA TypeNext == TypeInv /\ [Next]_vars => TypeInv'
<1>. SUFFICES ASSUME TypeInv, [Next]_vars PROVE TypeInv'
    OBVIOUS
<1>1. CASE UNCHANGED vars
    BY <1>1 DEF vars, TypeInv
<1>2. ASSUME NEW d \in Devices, Edit(d) \/ Query(d) PROVE TypeInv'
    BY <1>2, TypeEdit, TypeQuery
<1>3. ASSUME NEW c \in Callers, Step(c) PROVE TypeInv'
  <2>1. CASE Begin(c) \/ List(c) \/ Pull(c) \/ Apply(c) \/ EndPull(c)
      BY <2>1, TypeBegin, TypeList, TypePull, TypeApply, TypeEndPull
  <2>2. CASE Seal(c) \/ Put(c) \/ Relist(c)
      BY <2>2, TypeSeal, TypePut, TypeRelist
  <2>3. CASE SaveVv(c) \/ SaveCursor(c) \/ SaveForks(c) \/ Abort(c)
      BY <2>3, TypeSave, TypeAbort
  <2>. QED
      BY <1>3, <2>1, <2>2, <2>3 DEF Step
<1>. QED
    BY <1>1, <1>2, <1>3 DEF Next

\* Every state of the sync engine is well typed, for any number of devices,
\* calls, edits, passes and aborts: a pass never reads past the end of the
\* log, whatever the other devices push meanwhile (TypeOK, the loop of sync()).
THEOREM SyncTypeCorrect == Spec => []TypeOK
<1>1. TypeInv => TypeOK
    BY DEF TypeInv, TypeOK, Passes, InLog
<1>. QED
    BY <1>1, TypeInit, TypeNext, PTL DEF Spec

-----------------------------------------------------------------------------
(* Causality.  P is a set of blobs, V a set of vectors, K a set of edits.   *)

Below(v, w) == \A d \in Devices : v[d] <= w[d]

\* Every blob has an author whose count dates it: a vector that has the
\* count has everything the blob had.
Causal(P, V) ==
    \A b \in P : \E d \in Devices : \A v \in V : v[d] >= b.vv[d] => Below(b.vv, v)

\* What v covers of P is in the edits X or in K.
Covers(P, v, X, K) ==
    \A b \in P : Below(b.vv, v) => b.image.edits \subseteq X \cup K


LEMMA CoversMono ==
    ASSUME NEW P, NEW v, NEW X, NEW Y, NEW K, NEW L,
           Covers(P, v, X, K), X \subseteq Y, K \subseteq L
    PROVE  Covers(P, v, Y, L)
BY DEF Covers

LEMMA CausalSub ==
    ASSUME NEW P, NEW V, NEW W, Causal(P, V), W \subseteq V
    PROVE  Causal(P, W)
<1>. SUFFICES ASSUME NEW b \in P
              PROVE  \E d \in Devices : \A v \in W : v[d] >= b.vv[d] => Below(b.vv, v)
    BY DEF Causal
<1>1. PICK d \in Devices : \A v \in V : v[d] >= b.vv[d] => Below(b.vv, v)
    BY DEF Causal
<1>. QED
    BY <1>1

\* merge_max, component by component.
LEMMA MergeAt ==
    ASSUME NEW v \in Vectors, NEW w \in Vectors
    PROVE  /\ MergeMax(v, w) \in Vectors
           /\ \A d \in Devices : /\ MergeMax(v, w)[d] \in {v[d], w[d]}
                                 /\ v[d] <= MergeMax(v, w)[d] /\ w[d] <= MergeMax(v, w)[d]
BY DEF MergeMax, Vectors

LEMMA BelowMerge ==
    ASSUME NEW u \in Vectors, NEW v \in Vectors, NEW w \in Vectors
    PROVE  /\ Below(u, v) => Below(u, MergeMax(v, w))
           /\ Below(u, w) => Below(u, MergeMax(v, w))
<1>1. \A d \in Devices : /\ u[d] \in Nat /\ v[d] \in Nat /\ w[d] \in Nat
                         /\ MergeMax(v, w)[d] \in Nat
                         /\ v[d] <= MergeMax(v, w)[d] /\ w[d] <= MergeMax(v, w)[d]
    BY MergeAt DEF Vectors
<1>. QED
    BY <1>1 DEF Below

\* A merged vector dates blobs by the vector it has the author's count from.
LEMMA MergeDates ==
    ASSUME NEW b \in Blobs, NEW d \in Devices, NEW v \in Vectors, NEW w \in Vectors,
           v[d] >= b.vv[d] => Below(b.vv, v),
           w[d] >= b.vv[d] => Below(b.vv, w),
           MergeMax(v, w)[d] >= b.vv[d]
    PROVE  Below(b.vv, v) \/ Below(b.vv, w)
BY MergeAt

LEMMA CausalMerge ==
    ASSUME NEW P \in SUBSET Blobs, NEW V \in SUBSET Vectors, Causal(P, V),
           NEW v \in V, NEW w \in V
    PROVE  Causal(P, V \cup {MergeMax(v, w)})
<1>. SUFFICES ASSUME NEW b \in P
              PROVE  \E d \in Devices : \A u \in V \cup {MergeMax(v, w)} :
                        u[d] >= b.vv[d] => Below(b.vv, u)
    BY DEF Causal
<1>1. PICK d \in Devices : \A u \in V : u[d] >= b.vv[d] => Below(b.vv, u)
    BY DEF Causal
<1>2. b \in Blobs /\ b.vv \in Vectors /\ v \in Vectors /\ w \in Vectors
    BY DEF Blobs
<1>3. MergeMax(v, w)[d] >= b.vv[d] => Below(b.vv, v) \/ Below(b.vv, w)
    BY <1>1, <1>2, MergeDates
<1>4. MergeMax(v, w)[d] >= b.vv[d] => Below(b.vv, MergeMax(v, w))
    BY <1>2, <1>3, BelowMerge
<1>. QED
    BY <1>1, <1>4

\* What two vectors cover, their merge covers: it brings in no third blob.
LEMMA CoversMerge ==
    ASSUME NEW P \in SUBSET Blobs, NEW V \in SUBSET Vectors, Causal(P, V),
           NEW v \in V, NEW w \in V, NEW X, NEW K,
           Covers(P, v, X, K), Covers(P, w, X, K)
    PROVE  Covers(P, MergeMax(v, w), X, K)
<1>. SUFFICES ASSUME NEW b \in P, Below(b.vv, MergeMax(v, w))
              PROVE  b.image.edits \subseteq X \cup K
    BY DEF Covers
<1>1. PICK d \in Devices : \A u \in V : u[d] >= b.vv[d] => Below(b.vv, u)
    BY DEF Causal
<1>2. b \in Blobs /\ b.vv \in Vectors /\ v \in Vectors /\ w \in Vectors
    BY DEF Blobs
<1>3. MergeMax(v, w) \in Vectors
    BY <1>2, MergeAt
<1>4. MergeMax(v, w)[d] >= b.vv[d]
    BY <1>2, <1>3 DEF Below, Vectors
<1>5. Below(b.vv, v) \/ Below(b.vv, w)
    BY <1>1, <1>2, <1>4, MergeDates
<1>. QED
    BY <1>5 DEF Covers

\* A device that counts itself up dates its blob with a count nobody has.
LEMMA SealDates ==
    ASSUME NEW V \in SUBSET Vectors, NEW v \in V, NEW d \in Devices,
           \A x \in V : x[d] <= v[d]
    PROVE  /\ Increment(v, d) \in Vectors
           /\ \A x \in V : ~Below(Increment(v, d), x)
           /\ \A x \in V : Below(x, Increment(v, d)) => Below(x, v)
           /\ \A x \in V : Below(x, v) => Below(x, Increment(v, d))
           /\ \A e \in Devices \ {d} : Increment(v, d)[e] = v[e]
           /\ Increment(v, d)[d] = v[d] + 1 /\ v[d] \in Nat
<1>1. v \in Vectors /\ \A x \in V : x \in Vectors
    OBVIOUS
<1>2. /\ Increment(v, d) \in Vectors
      /\ \A e \in Devices \ {d} : Increment(v, d)[e] = v[e]
      /\ Increment(v, d)[d] = v[d] + 1 /\ v[d] \in Nat
    BY <1>1 DEF Increment, Vectors
<1>3. \A x \in V : x[d] \in Nat /\ x[d] < Increment(v, d)[d]
    BY <1>1, <1>2 DEF Vectors
<1>4. ASSUME NEW x \in V PROVE ~Below(Increment(v, d), x)
    BY <1>2, <1>3 DEF Below
<1>5. ASSUME NEW x \in V, Below(x, Increment(v, d)) PROVE Below(x, v)
    BY <1>2, <1>5 DEF Below
<1>6. ASSUME NEW x \in V, Below(x, v) PROVE Below(x, Increment(v, d))
    BY <1>2, <1>3, <1>6 DEF Below
<1>. QED
    BY <1>2, <1>4, <1>5, <1>6

LEMMA CausalSeal ==
    ASSUME NEW P \in SUBSET Blobs, NEW V \in SUBSET Vectors, Causal(P, V),
           \A b \in P : b.vv \in V, NEW v \in V, NEW d \in Devices,
           \A x \in V : x[d] <= v[d],
           NEW n \in Blobs, n.vv = Increment(v, d)
    PROVE  Causal(P \cup {n}, V \cup {n.vv})
<1>1. /\ n.vv \in Vectors
      /\ \A x \in V : Below(x, v) => Below(x, n.vv)
      /\ \A e \in Devices \ {d} : n.vv[e] = v[e]
      /\ n.vv[d] = v[d] + 1 /\ v[d] \in Nat
    BY SealDates
<1>2. ASSUME NEW b \in P
      PROVE  \E a \in Devices : \A u \in V \cup {n.vv} : u[a] >= b.vv[a] => Below(b.vv, u)
  <2>1. PICK a \in Devices : \A u \in V : u[a] >= b.vv[a] => Below(b.vv, u)
      BY DEF Causal
  <2>2. b.vv \in V /\ b.vv[d] <= v[d]
      OBVIOUS
  <2>3. ASSUME n.vv[a] >= b.vv[a] PROVE Below(b.vv, n.vv)
    <3>1. v[a] >= b.vv[a]
        BY <1>1, <2>2, <2>3 DEF Vectors
    <3>. QED
        BY <1>1, <2>1, <2>2, <3>1
  <2>. QED
      BY <2>1, <2>3
<1>3. \A u \in V \cup {n.vv} : u[d] >= n.vv[d] => Below(n.vv, u)
  <2>1. \A u \in V : ~(u[d] >= n.vv[d])
      BY <1>1 DEF Vectors
  <2>2. Below(n.vv, n.vv)
      BY <1>1 DEF Below, Vectors
  <2>. QED
      BY <2>1, <2>2
<1>. QED
    BY <1>2, <1>3 DEF Causal

-----------------------------------------------------------------------------
(* Nothing published is dropped *)

\* A device runs one pass at a time.
OneEach == \A a, b \in Callers : Owner[a] = Owner[b] => a = b

\* The vector a device stands for (Knows, where there is one pass at most).
Clock(d) ==
    IF \E c \in Callers : Owner[c] = d /\ Active(c)
    THEN pass[CHOOSE c \in Callers : Owner[c] = d /\ Active(c)].vv ELSE idb[d].vv

\* Blobs on the relay, and sealed ones on their way to it.
Published == {log[k] : k \in 1 .. Len(log)}
             \cup {pass[c].next[1] : c \in {o \in Callers : At(o, "put")}}

Stamps == {b.vv : b \in Published} \cup {Clock(d) : d \in Devices}

\* What a pass saved already is what it has, and no fork is forgotten.
Saving(c) ==
    /\ IF Active(c) THEN idb[Owner[c]].forks \subseteq pass[c].forks ELSE pass[c].forks = {}
    /\ pass[c].pc \in {"saveCursor", "saveForks"} => idb[Owner[c]].vv = pass[c].vv

\* Nobody has a higher count of a device than the device itself.
CountsOwn == \A v \in Stamps, d \in Devices : v[d] <= Clock(d)[d]

Survives ==
    /\ \A b \in Published : Covers(Published, b.vv, b.image.edits, Preserved)
    /\ \A d \in Devices : Covers(Published, Clock(d), img[d].edits, Preserved)
    /\ \A c \in Callers : At(c, "apply") =>
          Covers(Published, pass[c].vv, pass[c].next[1].image.edits, Preserved)

SurvivalInv ==
    /\ OneEach
    /\ TypeInv
    /\ \A c \in Callers : Saving(c)
    /\ Causal(Published, Stamps)
    /\ CountsOwn
    /\ Survives


\* A running pass has its device's clock, an idle device its saved vector.
LEMMA ClockRuns ==
    ASSUME OneEach, NEW c \in Callers, Active(c)
    PROVE  Clock(Owner[c]) = pass[c].vv
<1>1. (CHOOSE o \in Callers : Owner[o] = Owner[c] /\ Active(o)) = c
    BY DEF OneEach
<1>. QED
    BY <1>1 DEF Clock

LEMMA ClockRunsNext ==
    ASSUME OneEach, NEW c \in Callers, Active(c)'
    PROVE  Clock(Owner[c])' = pass'[c].vv
<1>1. (CHOOSE o \in Callers : Owner[o] = Owner[c] /\ Active(o)') = c
    BY DEF OneEach
<1>. QED
    BY <1>1 DEF Clock

LEMMA ClockRests ==
    ASSUME NEW d \in Devices
    PROVE  /\ (\A c \in Callers : Owner[c] = d => ~Active(c)) => Clock(d) = idb[d].vv
           /\ (\A c \in Callers : Owner[c] = d => ~Active(c)') => Clock(d)' = idb'[d].vv
BY DEF Clock

\* The clocks of the devices whose passes go on as they were.
LEMMA ClockKept ==
    ASSUME OneEach, NEW d \in Devices, idb'[d].vv = idb[d].vv,
           \A c \in Callers : Owner[c] = d => pass'[c].pc = pass[c].pc /\ pass'[c].vv = pass[c].vv
    PROVE  Clock(d)' = Clock(d)
<1>1. \A c \in Callers : Owner[c] = d => (Active(c)' <=> Active(c))
    BY DEF Active
<1>2. CASE \E c \in Callers : Owner[c] = d /\ Active(c)
  <2>1. PICK c \in Callers : Owner[c] = d /\ Active(c)
      BY <1>2
  <2>2. Clock(d) = pass[c].vv
      BY <2>1, ClockRuns
  <2>3. Clock(d)' = pass'[c].vv
      BY <1>1, <2>1, ClockRunsNext
  <2>. QED
      BY <2>1, <2>2, <2>3
<1>3. CASE \A c \in Callers : Owner[c] = d => ~Active(c)
    BY <1>1, <1>3, ClockRests
<1>. QED
    BY <1>2, <1>3

LEMMA ClockType ==
    ASSUME OneEach, TypeInv, NEW d \in Devices
    PROVE  Clock(d) \in Vectors
<1>1. CASE \E c \in Callers : Owner[c] = d /\ Active(c)
  <2>1. PICK c \in Callers : Owner[c] = d /\ Active(c)
      BY <1>1
  <2>. QED
      BY <2>1, ClockRuns DEF TypeInv, Passes
<1>2. CASE \A c \in Callers : Owner[c] = d => ~Active(c)
    BY <1>2, ClockRests DEF TypeInv
<1>. QED
    BY <1>1, <1>2

LEMMA PublishedType == TypeInv => Published \subseteq Blobs
<1>. SUFFICES ASSUME TypeInv PROVE Published \subseteq Blobs
    OBVIOUS
<1>1. \A k \in 1 .. Len(log) : log[k] \in Blobs
    BY LogBlob
<1>2. ASSUME NEW c \in Callers, At(c, "put") PROVE pass[c].next[1] \in Blobs
  <2>1. pass[c].next \in Seq(Blobs) /\ Len(pass[c].next) = 1
      BY <1>2 DEF TypeInv, Passes, InLog, At
  <2>. QED
      BY <2>1
<1>. QED
    BY <1>1, <1>2 DEF Published

LEMMA StampsType == OneEach /\ TypeInv => Stamps \subseteq Vectors
BY PublishedType, ClockType DEF Stamps, Blobs

\* What is preserved, edit by edit.
LEMMA PreservedGrows ==
    ASSUME \A d \in Devices : \A f \in idb[d].forks :
               \/ \E e \in Devices : f \in idb'[e].forks
               \/ \E c \in Callers : f \in pass'[c].forks,
           \A c \in Callers : \A f \in pass[c].forks :
               \/ \E e \in Devices : f \in idb'[e].forks
               \/ \E o \in Callers : f \in pass'[o].forks
    PROVE  Preserved \subseteq Preserved'
<1>. SUFFICES ASSUME NEW x \in Preserved PROVE x \in Preserved'
    OBVIOUS
<1>1. PICK f : /\ x \in f.edits
               /\ \/ \E d \in Devices : f \in idb[d].forks
                  \/ \E c \in Callers : f \in pass[c].forks
    BY DEF Preserved
<1>2. \/ \E e \in Devices : f \in idb'[e].forks
      \/ \E c \in Callers : f \in pass'[c].forks
    BY <1>1
<1>. QED
    BY <1>1, <1>2 DEF Preserved

LEMMA ForkPreserved ==
    ASSUME NEW c \in Callers, NEW f \in pass'[c].forks
    PROVE  f.edits \subseteq Preserved'
BY DEF Preserved

\* A step that publishes nothing and moves no clock.
LEMMA SurvivesQuiet ==
    ASSUME Causal(Published, Stamps), CountsOwn, Survives,
           Published' = Published, \A d \in Devices : Clock(d)' = Clock(d),
           Preserved \subseteq Preserved',
           \A d \in Devices : img[d].edits \subseteq img'[d].edits,
           \A c \in Callers : At(c, "apply")' =>
              Covers(Published, pass'[c].vv, pass'[c].next[1].image.edits, Preserved')
    PROVE  Causal(Published, Stamps)' /\ CountsOwn' /\ Survives'
<1>1. Stamps' = Stamps
    BY DEF Stamps
<1>2. Causal(Published, Stamps)'
    BY <1>1 DEF Causal, Below
<1>3. CountsOwn'
    BY <1>1 DEF CountsOwn
<1>4. ASSUME NEW b \in Published
      PROVE  Covers(Published, b.vv, b.image.edits, Preserved')
    BY CoversMono DEF Survives
<1>5. ASSUME NEW d \in Devices
      PROVE  Covers(Published, Clock(d), img'[d].edits, Preserved')
  <2>1. Covers(Published, Clock(d), img[d].edits, Preserved)
      BY DEF Survives
  <2>. QED
      BY <2>1, CoversMono
<1>. QED
    BY <1>2, <1>3, <1>4, <1>5 DEF Survives, Covers, Below

\* A step in which device d takes note of the blob b.
LEMMA SurvivesMerge ==
    ASSUME OneEach, TypeInv, Causal(Published, Stamps), CountsOwn, Survives,
           NEW d \in Devices, NEW b \in Published,
           Published' = Published,
           \A e \in Devices \ {d} : Clock(e)' = Clock(e),
           Clock(d)' = MergeMax(Clock(d), b.vv),
           Preserved \subseteq Preserved',
           \A e \in Devices \ {d} : img[e].edits \subseteq img'[e].edits,
           Covers(Published, Clock(d), img'[d].edits, Preserved'),
           Covers(Published, b.vv, img'[d].edits, Preserved'),
           \A c \in Callers : At(c, "apply")' =>
              Covers(Published, pass'[c].vv, pass'[c].next[1].image.edits, Preserved')
    PROVE  Causal(Published, Stamps)' /\ CountsOwn' /\ Survives'
<1>. DEFINE w == MergeMax(Clock(d), b.vv)
<1>1. Published \in SUBSET Blobs /\ Stamps \in SUBSET Vectors
    BY PublishedType, StampsType
<1>2. Clock(d) \in Stamps /\ b.vv \in Stamps
    BY DEF Stamps
<1>3. Stamps' \subseteq Stamps \cup {w}
    BY DEF Stamps
<1>4. Causal(Published, Stamps \cup {w})
    BY <1>1, <1>2, CausalMerge
<1>5. Causal(Published, Stamps')
    BY <1>3, <1>4, CausalSub
<1>6. Causal(Published, Stamps)'
    BY <1>5 DEF Causal, Below
<1>7. w \in Vectors /\ Clock(d) \in Vectors /\ b.vv \in Vectors
    BY <1>1, <1>2, MergeAt
<1>8. \A e \in Devices : /\ w[e] \in {Clock(d)[e], b.vv[e]}
                         /\ Clock(d)[e] <= w[e] /\ b.vv[e] <= w[e]
    BY <1>7, MergeAt
<1>9. CountsOwn'
  <2>. HIDE DEF w
  <2>1. ASSUME NEW v \in Stamps', NEW e \in Devices \ {d} PROVE v[e] <= Clock(e)[e]
      BY <1>2, <1>3, <1>8 DEF CountsOwn
  <2>2. ASSUME NEW v \in Stamps' PROVE v[d] <= w[d]
    <3>1. CASE v \in Stamps
      <4>1. v[d] <= Clock(d)[d] /\ v \in Vectors
          BY <1>1, <3>1 DEF CountsOwn
      <4>. QED
          BY <1>7, <1>8, <4>1 DEF Vectors
    <3>2. CASE v = w
        BY <3>2, <1>7 DEF Vectors
    <3>. QED
        BY <1>3, <3>1, <3>2
  <2>3. Clock(d)' = w
      BY DEF w
  <2>. QED
      BY <2>1, <2>2, <2>3 DEF CountsOwn
<1>10. ASSUME NEW x \in Published
       PROVE  Covers(Published, x.vv, x.image.edits, Preserved')
    BY CoversMono DEF Survives
<1>11. Covers(Published, w, img'[d].edits, Preserved')
    BY <1>1, <1>2, CoversMerge
<1>12. ASSUME NEW e \in Devices \ {d}
       PROVE  Covers(Published, Clock(e), img'[e].edits, Preserved')
  <2>1. Covers(Published, Clock(e), img[e].edits, Preserved)
      BY DEF Survives
  <2>. QED
      BY <2>1, CoversMono
<1>. HIDE DEF w
<1>13. Clock(d)' = w
    BY DEF w
<1>. QED
    BY <1>6, <1>9, <1>10, <1>11, <1>12, <1>13 DEF Survives, Covers, Below

\* A step in which device d seals its live image as the blob n.
LEMMA SurvivesSeal ==
    ASSUME OneEach, TypeInv, Causal(Published, Stamps), CountsOwn, Survives,
           NEW d \in Devices, NEW n \in Blobs,
           n.vv = Increment(Clock(d), d), n.image.edits = img[d].edits,
           Published' = Published \cup {n},
           \A e \in Devices \ {d} : Clock(e)' = Clock(e),
           Clock(d)' = n.vv,
           Preserved \subseteq Preserved', img' = img,
           \A c \in Callers : At(c, "apply")' =>
              /\ pass'[c].vv \in Stamps
              /\ Covers(Published, pass'[c].vv, pass'[c].next[1].image.edits, Preserved')
    PROVE  Causal(Published, Stamps)' /\ CountsOwn' /\ Survives'
<1>1. Published \in SUBSET Blobs /\ Stamps \in SUBSET Vectors
    BY PublishedType, StampsType
<1>2. Clock(d) \in Stamps /\ \A b \in Published : b.vv \in Stamps
    BY DEF Stamps
<1>3. \A x \in Stamps : x[d] <= Clock(d)[d]
    BY DEF CountsOwn
<1>4. Stamps' \subseteq Stamps \cup {n.vv}
    BY DEF Stamps
<1>5. Causal(Published \cup {n}, Stamps \cup {n.vv})
    BY <1>1, <1>2, <1>3, CausalSeal
<1>6. Causal(Published, Stamps)'
  <2>1. Causal(Published \cup {n}, Stamps')
      BY <1>4, <1>5, CausalSub
  <2>. QED
      BY <2>1 DEF Causal, Below
<1>7. /\ \A x \in Stamps : ~Below(n.vv, x)
      /\ \A x \in Stamps : Below(x, n.vv) => Below(x, Clock(d))
      /\ \A e \in Devices \ {d} : n.vv[e] = Clock(d)[e]
      /\ n.vv[d] = Clock(d)[d] + 1 /\ Clock(d)[d] \in Nat /\ n.vv \in Vectors
  <2>. DEFINE v == Clock(d)
              V == Stamps
  <2>1. V \in SUBSET Vectors /\ v \in V /\ \A x \in V : x[d] <= v[d]
      BY <1>1, <1>2, <1>3
  <2>2. n.vv = Increment(v, d)
      OBVIOUS
  <2>. HIDE DEF v, V
  <2>3. /\ Increment(v, d) \in Vectors
        /\ \A x \in V : ~Below(Increment(v, d), x)
        /\ \A x \in V : Below(x, Increment(v, d)) => Below(x, v)
        /\ \A e \in Devices \ {d} : Increment(v, d)[e] = v[e]
        /\ Increment(v, d)[d] = v[d] + 1 /\ v[d] \in Nat
      BY <2>1, SealDates
  <2>. QED
      BY <2>2, <2>3 DEF v, V
<1>8. CountsOwn'
  <2>1. ASSUME NEW v \in Stamps', NEW e \in Devices \ {d} PROVE v[e] <= Clock(e)[e]
      BY <1>2, <1>4, <1>7 DEF CountsOwn
  <2>2. ASSUME NEW v \in Stamps' PROVE v[d] <= n.vv[d]
    <3>1. CASE v \in Stamps
        BY <1>1, <1>3, <1>7, <3>1 DEF Vectors
    <3>2. CASE v = n.vv
        BY <1>7, <3>2
    <3>. QED
        BY <1>4, <3>1, <3>2
  <2>. QED
      BY <2>1, <2>2 DEF CountsOwn
<1>9. ASSUME NEW v \in Stamps, NEW X, Covers(Published, v, X, Preserved')
      PROVE  Covers(Published \cup {n}, v, X, Preserved')
    BY <1>7, <1>9 DEF Covers
<1>10. Covers(Published \cup {n}, n.vv, img[d].edits, Preserved')
  <2>1. Covers(Published, Clock(d), img[d].edits, Preserved')
    <3>1. Covers(Published, Clock(d), img[d].edits, Preserved)
        BY DEF Survives
    <3>. QED
        BY <3>1, CoversMono
  <2>. QED
      BY <2>1, <1>2, <1>7 DEF Covers
<1>11. ASSUME NEW x \in Published
       PROVE  Covers(Published \cup {n}, x.vv, x.image.edits, Preserved')
  <2>1. Covers(Published, x.vv, x.image.edits, Preserved')
      BY CoversMono DEF Survives
  <2>. QED
      BY <2>1, <1>2, <1>9
<1>12. ASSUME NEW e \in Devices \ {d}
       PROVE  Covers(Published \cup {n}, Clock(e), img[e].edits, Preserved')
  <2>1. Covers(Published, Clock(e), img[e].edits, Preserved)
      BY DEF Survives
  <2>2. Covers(Published, Clock(e), img[e].edits, Preserved') /\ Clock(e) \in Stamps
      BY <2>1, CoversMono DEF Stamps
  <2>. QED
      BY <2>2, <1>9
<1>13. ASSUME NEW c \in Callers, At(c, "apply")'
       PROVE  Covers(Published \cup {n}, pass'[c].vv, pass'[c].next[1].image.edits, Preserved')
    BY <1>9, <1>13
<1>. QED
    BY <1>6, <1>8, <1>10, <1>11, <1>12, <1>13 DEF Survives, Covers, Below

LEMMA PublishedKept ==
    ASSUME log' = log,
           \A c \in Callers : /\ At(c, "put")' <=> At(c, "put")
                              /\ At(c, "put") => pass'[c].next = pass[c].next
    PROVE  Published' = Published
BY DEF Published

\* A step of one pass that takes nothing in and gives nothing away.
LEMMA SurvivalPass ==
    ASSUME SurvivalInv, TypeInv', NEW c \in Callers, NEW r \in Passes,
           pass' = [pass EXCEPT ![c] = r], UNCHANGED <<log, img, idb>>,
           pass[c].pc \notin {"idle", "put", "apply"},
           r.pc \notin {"idle", "put", "saveCursor", "saveForks"},
           r.vv = pass[c].vv, pass[c].forks \subseteq r.forks,
           r.pc = "apply" => Covers(Published, r.vv, r.next[1].image.edits, Preserved')
    PROVE  SurvivalInv'
<1>0. /\ pass'[c] = r /\ \A o \in Callers \ {c} : pass'[o] = pass[o]
      /\ OneEach /\ TypeInv
    BY DEF SurvivalInv, TypeInv
<1>1. Published' = Published
    BY <1>0, PublishedKept DEF At
<1>2. ASSUME NEW d \in Devices PROVE Clock(d)' = Clock(d)
  <2>1. CASE d = Owner[c]
      BY <1>0, <2>1, ClockRuns, ClockRunsNext DEF Active
  <2>2. CASE d # Owner[c]
      BY <1>0, <2>2, ClockKept
  <2>. QED
      BY <2>1, <2>2
<1>3. Preserved \subseteq Preserved'
    BY <1>0, PreservedGrows
<1>4. ASSUME NEW o \in Callers, At(o, "apply")'
      PROVE  Covers(Published, pass'[o].vv, pass'[o].next[1].image.edits, Preserved')
  <2>1. CASE o = c
      BY <1>0, <1>4, <2>1 DEF At
  <2>2. CASE o # c
    <3>1. Covers(Published, pass[o].vv, pass[o].next[1].image.edits, Preserved)
        BY <1>0, <1>4, <2>2 DEF SurvivalInv, Survives, At
    <3>. QED
        BY <1>0, <2>2, <3>1, <1>3, CoversMono
  <2>. QED
      BY <2>1, <2>2
<1>5. (Causal(Published, Stamps) /\ CountsOwn /\ Survives)'
    BY <1>1, <1>2, <1>3, <1>4, SurvivesQuiet DEF SurvivalInv
<1>6. \A o \in Callers : Saving(o)'
    BY <1>0 DEF SurvivalInv, Saving, Active
<1>. QED
    BY <1>0, <1>5, <1>6 DEF SurvivalInv

LEMMA SurvivalInit == OneEach /\ Init => SurvivalInv
<1>. SUFFICES ASSUME OneEach, Init PROVE SurvivalInv
    OBVIOUS
<1>1. TypeInv
    BY TypeInit
<1>2. \A c \in Callers : pass[c] = Idle /\ ~Active(c) /\ pass[c].pc = "idle"
    BY DEF Init, Active, Idle
<1>3. Published = {}
    BY <1>2 DEF Published, At, Init
<1>4. \A d \in Devices : Clock(d) = ZeroVector
    BY <1>2, ClockRests DEF Init
<1>5. \A v \in Stamps : v = ZeroVector
    BY <1>3, <1>4 DEF Stamps
<1>6. CountsOwn
    BY <1>4, <1>5 DEF CountsOwn, ZeroVector
<1>7. Causal(Published, Stamps) /\ Survives
    BY <1>2, <1>3 DEF Causal, Survives, Covers, At
<1>8. \A c \in Callers : Saving(c)
    BY <1>2 DEF Saving, Idle
<1>. QED
    BY <1>1, <1>6, <1>7, <1>8 DEF SurvivalInv

\* Steps that leave the passes as they are, but for their history.
LEMMA SurvivalEdit ==
    ASSUME SurvivalInv, TypeInv', log' = log, idb' = idb,
           \A c \in Callers : Alike(pass'[c], pass[c]),
           \A d \in Devices : img[d].edits \subseteq img'[d].edits
    PROVE  SurvivalInv'
<1>0. OneEach /\ TypeInv
    BY DEF SurvivalInv
<1>1. Published' = Published
    BY PublishedKept DEF At, Alike
<1>2. \A d \in Devices : Clock(d)' = Clock(d)
    BY <1>0, ClockKept DEF Alike
<1>3. Preserved \subseteq Preserved'
    BY PreservedGrows DEF Alike
<1>4. ASSUME NEW o \in Callers, At(o, "apply")'
      PROVE  Covers(Published, pass'[o].vv, pass'[o].next[1].image.edits, Preserved')
  <2>1. Covers(Published, pass[o].vv, pass[o].next[1].image.edits, Preserved)
      BY <1>4 DEF SurvivalInv, Survives, At, Alike
  <2>. QED
      BY <2>1, <1>3, CoversMono DEF Alike
<1>5. (Causal(Published, Stamps) /\ CountsOwn /\ Survives)'
    BY <1>1, <1>2, <1>3, <1>4, SurvivesQuiet DEF SurvivalInv
<1>6. \A o \in Callers : Saving(o)'
    BY DEF SurvivalInv, Saving, Active, Alike
<1>. QED
    BY <1>0, <1>5, <1>6 DEF SurvivalInv

LEMMA SurvivalBegin ==
    ASSUME SurvivalInv, TypeInv', NEW c \in Callers, Begin(c)
    PROVE  SurvivalInv'
<1>0. OneEach /\ TypeInv /\ pass[c].pc = "idle" /\ UNCHANGED <<log, img, idb>>
    BY DEF SurvivalInv, Begin, At
<1>a. /\ \A o \in Callers \ {c} : Alike(pass'[o], pass[o])
      /\ pass'[c].pc = "list" /\ pass'[c].vv = idb[Owner[c]].vv
      /\ pass'[c].forks = idb[Owner[c]].forks
    BY <1>0, BeginFacts
<1>b. \A o \in Callers : Owner[o] = Owner[c] => o = c
    BY <1>0 DEF OneEach
<1>1. Published' = Published
    BY <1>0, <1>a, PublishedKept DEF At, Alike
<1>2. ASSUME NEW d \in Devices PROVE Clock(d)' = Clock(d)
  <2>1. CASE d = Owner[c]
    <3>1. Clock(d)' = pass'[c].vv
        BY <1>0, <1>a, <2>1, ClockRunsNext DEF Active
    <3>2. Clock(d) = idb[d].vv
        BY <1>0, <1>b, <2>1, ClockRests DEF Active
    <3>. QED
        BY <1>a, <2>1, <3>1, <3>2
  <2>2. CASE d # Owner[c]
    <3>1. \A o \in Callers : Owner[o] = d => o # c
        BY <2>2
    <3>. QED
        BY <1>0, <1>a, <3>1, ClockKept DEF Alike
  <2>. QED
      BY <2>1, <2>2
<1>3. pass[c].forks = {}
    BY <1>0 DEF SurvivalInv, Saving, Active
<1>4. Preserved \subseteq Preserved'
    BY <1>0, <1>a, <1>3, PreservedGrows DEF Alike
<1>5. ASSUME NEW o \in Callers, At(o, "apply")'
      PROVE  Covers(Published, pass'[o].vv, pass'[o].next[1].image.edits, Preserved')
  <2>0. o # c
      BY <1>a, <1>5 DEF At
  <2>1. Covers(Published, pass[o].vv, pass[o].next[1].image.edits, Preserved)
      BY <1>5, <1>a, <2>0 DEF SurvivalInv, Survives, At, Alike
  <2>. QED
      BY <1>a, <2>0, <2>1, <1>4, CoversMono DEF Alike
<1>6. (Causal(Published, Stamps) /\ CountsOwn /\ Survives)'
    BY <1>0, <1>1, <1>2, <1>4, <1>5, SurvivesQuiet DEF SurvivalInv
<1>7. \A o \in Callers : Saving(o)'
    BY <1>0, <1>a DEF SurvivalInv, Saving, Active, Alike
<1>. QED
    BY <1>0, <1>6, <1>7 DEF SurvivalInv

LEMMA SurvivalList ==
    ASSUME SurvivalInv, TypeInv', NEW c \in Callers, List(c)
    PROVE  SurvivalInv'
<1>. DEFINE n == IF Len(log) > pass[c].cursor THEN Len(log) - pass[c].cursor ELSE 0
            r == [pass[c] EXCEPT !.pc = "pull", !.count = n]
<1>1. pass[c] \in Passes /\ pass[c].pc = "list" /\ TypeInv
    BY DEF SurvivalInv, TypeInv, List, At
<1>2. pass' = [pass EXCEPT ![c] = r]
    BY <1>1 DEF TypeInv, List
<1>. HIDE DEF n
<1>3. r.pc = "pull" /\ r.vv = pass[c].vv /\ r.forks = pass[c].forks
    BY <1>1 DEF Passes
<1>. HIDE DEF r
<1>4. r \in Passes
  <2>1. r = pass'[c]
      BY <1>1, <1>2 DEF TypeInv
  <2>. QED
      BY <2>1 DEF TypeInv
<1>. QED
    BY <1>1, <1>2, <1>3, <1>4, SurvivalPass DEF List

LEMMA SurvivalPull ==
    ASSUME SurvivalInv, TypeInv', NEW c \in Callers, Pull(c)
    PROVE  SurvivalInv'
<1>0. OneEach /\ TypeInv /\ UNCHANGED <<log, img, idb>>
    BY DEF SurvivalInv, Pull
<1>. DEFINE p == pass[c]
            d == Owner[c]
<1>a. PICK b \in Blobs, r \in Passes : PullsInto(c, b, r)
    BY <1>0, PullFacts
<1>1.   /\ p.pc = "pull" /\ p.cursor + p.i + 1 \in 1 .. Len(log)
        /\ b = log[p.cursor + p.i + 1] /\ pass' = [pass EXCEPT ![c] = r]
        /\ \/ /\ r.pc = "pull" /\ r.vv = p.vv /\ r.forks = p.forks
           \/ /\ r.pc = "pull" /\ r.vv = MergeMax(p.vv, b.vv)
              /\ r.forks = p.forks \cup {b.image}
           \/ /\ Reconcile(p.vv, b.vv) = "fastforward"
              /\ r.pc = "apply" /\ r.next = <<b>> /\ r.vv = p.vv /\ r.forks = p.forks
           \/ /\ r.pc = "apply" /\ r.next = <<b>> /\ r.vv = p.vv
              /\ r.forks = p.forks \cup {img[d]}
    BY <1>a DEF PullsInto
<1>2. b \in Published /\ d \in Devices /\ Clock(d) = p.vv
    BY <1>0, <1>1, OwnerType, ClockRuns DEF Published, Active
<1>3. /\ pass'[c] = r /\ \A o \in Callers \ {c} : pass'[o] = pass[o]
    BY <1>0, <1>1 DEF TypeInv
<1>4. Preserved \subseteq Preserved'
    BY <1>0, <1>1, <1>3, PreservedGrows
<1>5. /\ Covers(Published, p.vv, img[d].edits, Preserved)
      /\ Covers(Published, b.vv, b.image.edits, Preserved)
    BY <1>2 DEF SurvivalInv, Survives
<1>6. CASE r.pc = "pull" /\ r.vv = p.vv /\ r.forks = p.forks
    BY <1>0, <1>1, <1>6, SurvivalPass
<1>7. CASE Reconcile(p.vv, b.vv) = "fastforward" /\ r.pc = "apply" /\ r.next = <<b>>
           /\ r.vv = p.vv /\ r.forks = p.forks
  <2>1. p.vv \in Vectors /\ b.vv \in Vectors
      BY <1>0 DEF TypeInv, Passes, Blobs
  <2>2. Relation(b.vv, p.vv) = "dominates"
      BY <1>7 DEF Reconcile
  <2>3. Seen(p.vv, b.vv)
      BY <2>1, <2>2, RelationMirrors DEF Seen
  <2>4. Below(p.vv, b.vv)
      BY <2>1, <2>3, SeenIsBelow DEF Below
  <2>5. \A x \in Published : Below(x.vv, p.vv) => Below(x.vv, b.vv)
    <3>1. \A x \in Published : x.vv \in Vectors
        BY <1>0, PublishedType DEF Blobs
    <3>. QED
        BY <2>1, <2>4, <3>1 DEF Below, Vectors
  <2>6. Covers(Published, p.vv, b.image.edits, Preserved)
      BY <1>5, <2>5 DEF Covers
  <2>7. Covers(Published, p.vv, b.image.edits, Preserved')
      BY <2>6, <1>4, CoversMono
  <2>8. Covers(Published, r.vv, r.next[1].image.edits, Preserved') /\ p.forks \subseteq r.forks
      BY <1>7, <2>7
  <2>9. r.pc = "apply" /\ r.vv = p.vv
      BY <1>7
  <2>. QED
      BY <1>0, <1>1, <2>8, <2>9, SurvivalPass
<1>8. CASE r.pc = "apply" /\ r.next = <<b>> /\ r.vv = p.vv /\ r.forks = p.forks \cup {img[d]}
  <2>1. img[d].edits \subseteq Preserved'
      BY <1>3, <1>8, ForkPreserved
  <2>2. Covers(Published, p.vv, b.image.edits, Preserved')
      BY <1>4, <1>5, <2>1 DEF Covers
  <2>3. Covers(Published, r.vv, r.next[1].image.edits, Preserved') /\ p.forks \subseteq r.forks
      BY <1>8, <2>2
  <2>4. r.pc = "apply" /\ r.vv = p.vv
      BY <1>8
  <2>. QED
      BY <1>0, <1>1, <2>3, <2>4, SurvivalPass
<1>9. CASE r.pc = "pull" /\ r.vv = MergeMax(p.vv, b.vv) /\ r.forks = p.forks \cup {b.image}
  <2>1. Published' = Published
      BY <1>0, <1>1, <1>3, <1>9, PublishedKept DEF At
  <2>2. Clock(d)' = MergeMax(Clock(d), b.vv)
      BY <1>0, <1>2, <1>3, <1>9, ClockRunsNext DEF Active
  <2>3. \A e \in Devices \ {d} : Clock(e)' = Clock(e)
      BY <1>0, <1>3, ClockKept
  <2>4. b.image.edits \subseteq Preserved'
      BY <1>3, <1>9, ForkPreserved
  <2>5. /\ Covers(Published, Clock(d), img'[d].edits, Preserved')
        /\ Covers(Published, b.vv, img'[d].edits, Preserved')
      BY <1>0, <1>2, <1>4, <1>5, <2>4 DEF Covers
  <2>6. ASSUME NEW o \in Callers, At(o, "apply")'
        PROVE  Covers(Published, pass'[o].vv, pass'[o].next[1].image.edits, Preserved')
    <3>0. o # c
        BY <1>3, <1>9, <2>6 DEF At
    <3>1. Covers(Published, pass[o].vv, pass[o].next[1].image.edits, Preserved)
        BY <1>3, <2>6, <3>0 DEF SurvivalInv, Survives, At
    <3>. QED
        BY <1>3, <1>4, <3>0, <3>1, CoversMono
  <2>7. (Causal(Published, Stamps) /\ CountsOwn /\ Survives)'
      BY <1>0, <1>2, <1>4, <2>1, <2>2, <2>3, <2>5, <2>6, SurvivesMerge DEF SurvivalInv
  <2>8. \A o \in Callers : Saving(o)'
      BY <1>0, <1>1, <1>3, <1>9 DEF SurvivalInv, Saving, Active
  <2>. QED
      BY <1>0, <2>7, <2>8 DEF SurvivalInv
<1>. QED
    BY <1>1, <1>6, <1>7, <1>8, <1>9

LEMMA SurvivalApply ==
    ASSUME SurvivalInv, TypeInv', NEW c \in Callers, Apply(c)
    PROVE  SurvivalInv'
<1>0. OneEach /\ TypeInv /\ UNCHANGED <<log, idb>>
    BY DEF SurvivalInv, Apply
<1>. DEFINE p == pass[c]
            d == Owner[c]
<1>1. PICK b \in Blobs, r \in Passes :
        /\ p.pc = "apply" /\ p.cursor + p.i + 1 \in 1 .. Len(log)
        /\ b = log[p.cursor + p.i + 1] /\ b = p.next[1] /\ pass' = [pass EXCEPT ![c] = r]
        /\ img' = [img EXCEPT ![d] = b.image]
        /\ r.pc = "pull" /\ r.vv = MergeMax(p.vv, b.vv) /\ r.forks = p.forks
    BY <1>0, ApplyFacts
<1>2. b \in Published /\ d \in Devices /\ Clock(d) = p.vv
    BY <1>0, <1>1, OwnerType, ClockRuns DEF Published, Active
<1>3. /\ pass'[c] = r /\ \A o \in Callers \ {c} : pass'[o] = pass[o]
      /\ img'[d] = b.image /\ \A e \in Devices \ {d} : img'[e] = img[e]
    BY <1>0, <1>1, <1>2 DEF TypeInv
<1>4. Preserved \subseteq Preserved'
    BY <1>0, <1>1, <1>3, PreservedGrows
<1>5. Published' = Published
    BY <1>0, <1>1, <1>3, PublishedKept DEF At
<1>6. Clock(d)' = MergeMax(Clock(d), b.vv)
    BY <1>0, <1>1, <1>2, <1>3, ClockRunsNext DEF Active
<1>7. \A e \in Devices \ {d} : Clock(e)' = Clock(e)
    BY <1>0, <1>3, ClockKept
<1>8. /\ Covers(Published, Clock(d), b.image.edits, Preserved)
      /\ Covers(Published, b.vv, b.image.edits, Preserved)
    BY <1>1, <1>2 DEF SurvivalInv, Survives, At
<1>9. /\ Covers(Published, Clock(d), img'[d].edits, Preserved')
      /\ Covers(Published, b.vv, img'[d].edits, Preserved')
    BY <1>3, <1>4, <1>8, CoversMono
<1>10. ASSUME NEW o \in Callers, At(o, "apply")'
       PROVE  Covers(Published, pass'[o].vv, pass'[o].next[1].image.edits, Preserved')
  <2>0. o # c
      BY <1>1, <1>3, <1>10 DEF At
  <2>1. Covers(Published, pass[o].vv, pass[o].next[1].image.edits, Preserved)
      BY <1>3, <1>10, <2>0 DEF SurvivalInv, Survives, At
  <2>. QED
      BY <1>3, <1>4, <2>0, <2>1, CoversMono
<1>11. (Causal(Published, Stamps) /\ CountsOwn /\ Survives)'
    BY <1>0, <1>2, <1>3, <1>4, <1>5, <1>6, <1>7, <1>9, <1>10, SurvivesMerge DEF SurvivalInv
<1>12. \A o \in Callers : Saving(o)'
    BY <1>0, <1>1, <1>3 DEF SurvivalInv, Saving, Active
<1>. QED
    BY <1>0, <1>11, <1>12 DEF SurvivalInv

LEMMA SurvivalSeal ==
    ASSUME SurvivalInv, TypeInv', NEW c \in Callers, Seal(c)
    PROVE  SurvivalInv'
<1>0. OneEach /\ TypeInv /\ UNCHANGED <<log, img, idb>>
    BY DEF SurvivalInv, Seal
<1>. DEFINE p == pass[c]
            d == Owner[c]
<1>1. PICK b \in Blobs, r \in Passes :
        /\ p.pc = "seal" /\ pass' = [pass EXCEPT ![c] = r]
        /\ b.vv = Increment(p.vv, d) /\ b.image = img[d]
        /\ r.pc = "put" /\ r.vv = b.vv /\ r.next = <<b>> /\ r.forks = p.forks
    BY <1>0, SealFacts
<1>2. d \in Devices /\ Clock(d) = p.vv
    BY <1>0, <1>1, OwnerType, ClockRuns DEF Active
<1>3. /\ pass'[c] = r /\ \A o \in Callers \ {c} : pass'[o] = pass[o]
    BY <1>0, <1>1 DEF TypeInv
<1>4. Preserved \subseteq Preserved'
    BY <1>0, <1>1, <1>3, PreservedGrows
<1>5. Published' = Published \cup {b}
  <2>1. {o \in Callers : At(o, "put")'} = {o \in Callers : At(o, "put")} \cup {c}
      BY <1>1, <1>3 DEF At
  <2>2. ~At(c, "put") /\ pass'[c].next[1] = b
      BY <1>1, <1>3 DEF At
  <2>. QED
      BY <1>0, <1>3, <2>1, <2>2 DEF Published
<1>6. Clock(d)' = b.vv
    BY <1>0, <1>1, <1>2, <1>3, ClockRunsNext DEF Active
<1>7. \A e \in Devices \ {d} : Clock(e)' = Clock(e)
    BY <1>0, <1>3, ClockKept
<1>8. ASSUME NEW o \in Callers, At(o, "apply")'
      PROVE  /\ pass'[o].vv \in Stamps
             /\ Covers(Published, pass'[o].vv, pass'[o].next[1].image.edits, Preserved')
  <2>0. o # c
      BY <1>1, <1>3, <1>8 DEF At
  <2>1. pass[o].pc = "apply" /\ pass'[o] = pass[o]
      BY <1>3, <1>8, <2>0 DEF At
  <2>2. Covers(Published, pass[o].vv, pass[o].next[1].image.edits, Preserved)
      BY <2>1 DEF SurvivalInv, Survives, At
  <2>3. Clock(Owner[o]) = pass[o].vv /\ Owner[o] \in Devices
      BY <1>0, <2>1, ClockRuns, OwnerType DEF Active
  <2>. QED
      BY <1>4, <2>1, <2>2, <2>3, CoversMono DEF Stamps
<1>9. (Causal(Published, Stamps) /\ CountsOwn /\ Survives)'
    BY <1>0, <1>1, <1>2, <1>4, <1>5, <1>6, <1>7, <1>8, SurvivesSeal DEF SurvivalInv
<1>10. \A o \in Callers : Saving(o)'
    BY <1>0, <1>1, <1>3 DEF SurvivalInv, Saving, Active
<1>. QED
    BY <1>0, <1>9, <1>10 DEF SurvivalInv

\* A step that publishes nothing new and saves at most what the pass has.
LEMMA SurvivalPut ==
    ASSUME SurvivalInv, TypeInv', NEW c \in Callers, Put(c)
    PROVE  SurvivalInv'
<1>0. OneEach /\ TypeInv /\ UNCHANGED <<img, idb>>
    BY DEF SurvivalInv, Put
<1>. DEFINE p == pass[c]
<1>1. PICK b \in Blobs, r \in Passes :
        /\ p.pc = "put" /\ b = p.next[1] /\ pass' = [pass EXCEPT ![c] = r]
        /\ r.pc = "relist" /\ r.vv = p.vv /\ r.forks = p.forks
        /\ Len(log') = Len(log) + 1 /\ Len(log) \in Nat /\ log'[Len(log) + 1] = b
        /\ \A k \in 1 .. Len(log) : log'[k] = log[k]
    BY <1>0, PutFacts
<1>2. /\ pass'[c] = r /\ \A o \in Callers \ {c} : pass'[o] = pass[o]
    BY <1>0, <1>1 DEF TypeInv
<1>3. Preserved \subseteq Preserved'
    BY <1>0, <1>1, <1>2, PreservedGrows
<1>4. Published' = Published
  <2>. DEFINE L == {log[k] : k \in 1 .. Len(log)}
              N == {pass[o].next[1] : o \in {o \in Callers \ {c} : At(o, "put")}}
  <2>1. Published = L \cup N \cup {b}
      BY <1>1 DEF Published, At
  <2>2. {log'[k] : k \in 1 .. Len(log')} = L \cup {b}
    <3>1. 1 .. Len(log') = 1 .. Len(log) \cup {Len(log) + 1}
        BY <1>1
    <3>. QED
        BY <1>1, <3>1
  <2>3. {pass'[o].next[1] : o \in {o \in Callers : At(o, "put")'}} = N
      BY <1>1, <1>2 DEF At
  <2>. QED
      BY <2>1, <2>2, <2>3 DEF Published
<1>5. ASSUME NEW e \in Devices PROVE Clock(e)' = Clock(e)
  <2>1. CASE e = Owner[c]
      BY <1>0, <1>1, <1>2, <2>1, ClockRuns, ClockRunsNext DEF Active
  <2>2. CASE e # Owner[c]
      BY <1>0, <1>2, <2>2, ClockKept
  <2>. QED
      BY <2>1, <2>2
<1>6. ASSUME NEW o \in Callers, At(o, "apply")'
      PROVE  Covers(Published, pass'[o].vv, pass'[o].next[1].image.edits, Preserved')
  <2>1. pass'[o] = pass[o] /\ At(o, "apply")
      BY <1>1, <1>2, <1>6 DEF At
  <2>. QED
      BY <1>3, <2>1, CoversMono DEF SurvivalInv, Survives
<1>7. (Causal(Published, Stamps) /\ CountsOwn /\ Survives)'
    BY <1>0, <1>3, <1>4, <1>5, <1>6, SurvivesQuiet DEF SurvivalInv
<1>8. \A o \in Callers : Saving(o)'
    BY <1>0, <1>1, <1>2 DEF SurvivalInv, Saving, Active
<1>. QED
    BY <1>0, <1>7, <1>8 DEF SurvivalInv

LEMMA SurvivalSave ==
    ASSUME SurvivalInv, TypeInv', NEW c \in Callers,
           SaveVv(c) \/ SaveCursor(c) \/ SaveForks(c)
    PROVE  SurvivalInv'
<1>0. OneEach /\ TypeInv /\ UNCHANGED <<log, img>>
    BY DEF SurvivalInv, SaveVv, SaveCursor, SaveForks
<1>. DEFINE p == pass[c]
            d == Owner[c]
<1>1. PICK r \in Passes, s \in [vv : Vectors, cursor : Nat, forks : SUBSET Images] :
        /\ pass' = [pass EXCEPT ![c] = r] /\ idb' = [idb EXCEPT ![d] = s]
        /\ \/ /\ p.pc = "saveVv" /\ r.pc = "saveCursor"
              /\ s.vv = p.vv /\ s.forks = idb[d].forks
           \/ /\ p.pc = "saveCursor" /\ r.pc = "saveForks"
              /\ s.vv = idb[d].vv /\ s.forks = idb[d].forks
           \/ /\ p.pc = "saveForks" /\ r = Idle
              /\ s.vv = idb[d].vv /\ s.forks = p.forks
        /\ r # Idle => r.vv = p.vv /\ r.forks = p.forks
    BY <1>0, SaveFacts
<1>2. /\ pass'[c] = r /\ \A o \in Callers \ {c} : pass'[o] = pass[o]
      /\ idb'[d] = s /\ \A e \in Devices \ {d} : idb'[e] = idb[e]
      /\ d \in Devices
      /\ \A o \in Callers : Owner[o] = d => o = c
    BY <1>0, <1>1, OwnerType DEF TypeInv, OneEach
<1>3. Idle.pc = "idle" /\ Idle.forks = {}
    BY DEF Idle
<1>4. idb[d].forks \subseteq p.forks /\ (p.pc # "saveVv" => idb[d].vv = p.vv)
    BY <1>1 DEF SurvivalInv, Saving, Active
<1>5. Preserved \subseteq Preserved'
  <2>1. idb[d].forks \subseteq idb'[d].forks
      BY <1>1, <1>2, <1>4
  <2>2. pass'[c].forks = p.forks \/ idb'[d].forks = p.forks
      BY <1>1, <1>2, <1>3
  <2>3. \A e \in Devices : idb[e].forks \subseteq idb'[e].forks
      BY <1>2, <2>1
  <2>4. \A o \in Callers : pass[o].forks \subseteq pass'[o].forks \/ pass[o].forks \subseteq idb'[d].forks
      BY <1>2, <2>2
  <2>. QED
      BY <1>2, <2>3, <2>4, PreservedGrows
<1>6. Published' = Published
    BY <1>0, <1>1, <1>2, <1>3, PublishedKept DEF At
<1>7. ASSUME NEW e \in Devices PROVE Clock(e)' = Clock(e)
  <2>1. CASE e # d
      BY <1>0, <1>2, <2>1, ClockKept
  <2>2. CASE e = d
    <3>1. Clock(d) = p.vv
        BY <1>0, <1>1, ClockRuns DEF Active
    <3>2. CASE r # Idle /\ r.pc # "idle"
        BY <1>0, <1>1, <1>2, <2>2, <3>1, <3>2, ClockRunsNext DEF Active
    <3>3. CASE r = Idle
      <4>1. \A o \in Callers : Owner[o] = d => ~Active(o)'
          BY <1>2, <1>3, <3>3 DEF Active
      <4>2. Clock(d)' = s.vv
          BY <1>2, <4>1, ClockRests
      <4>3. s.vv = p.vv
          BY <1>1, <1>3, <1>4, <3>3
      <4>. QED
          BY <2>2, <3>1, <4>2, <4>3
    <3>. QED
        BY <1>1, <3>2, <3>3, <1>3
  <2>. QED
      BY <2>1, <2>2
<1>8. ASSUME NEW o \in Callers, At(o, "apply")'
      PROVE  Covers(Published, pass'[o].vv, pass'[o].next[1].image.edits, Preserved')
  <2>1. pass'[o] = pass[o] /\ At(o, "apply")
      BY <1>1, <1>2, <1>3, <1>8 DEF At
  <2>. QED
      BY <1>5, <2>1, CoversMono DEF SurvivalInv, Survives
<1>9. (Causal(Published, Stamps) /\ CountsOwn /\ Survives)'
    BY <1>0, <1>5, <1>6, <1>7, <1>8, SurvivesQuiet DEF SurvivalInv
<1>10. Saving(c)'
    BY <1>1, <1>2, <1>3, <1>4 DEF Saving, Active
<1>11. \A o \in Callers \ {c} : Saving(o)'
  <2>1. \A o \in Callers \ {c} : idb'[Owner[o]] = idb[Owner[o]]
      BY <1>2, OwnerType
  <2>. QED
      BY <1>2, <2>1 DEF SurvivalInv, Saving, Active
<1>. QED
    BY <1>0, <1>9, <1>10, <1>11 DEF SurvivalInv

LEMMA SurvivalNext == SurvivalInv /\ [Next]_vars /\ aborts' = 0 => SurvivalInv'
<1>. SUFFICES ASSUME SurvivalInv, [Next]_vars, aborts' = 0 PROVE SurvivalInv'
    OBVIOUS
<1>0. TypeInv /\ TypeInv'
    BY TypeNext DEF SurvivalInv
<1>1. CASE UNCHANGED vars
    BY <1>0, <1>1, SurvivalEdit DEF vars, Alike
<1>2. ASSUME NEW d \in Devices, Edit(d) PROVE SurvivalInv'
    BY <1>0, <1>2, EditFacts, SurvivalEdit DEF Edit
<1>3. ASSUME NEW d \in Devices, Query(d) PROVE SurvivalInv'
    BY <1>0, <1>3, SurvivalEdit DEF Query, Alike
<1>4. ASSUME NEW c \in Callers, Begin(c) \/ List(c) \/ Pull(c) \/ Apply(c) PROVE SurvivalInv'
    BY <1>0, <1>4, SurvivalBegin, SurvivalList, SurvivalPull, SurvivalApply
<1>5. ASSUME NEW c \in Callers, EndPull(c) PROVE SurvivalInv'
  <2>1. PICK r \in Passes : /\ pass[c].pc = "pull" /\ pass' = [pass EXCEPT ![c] = r]
                            /\ r.pc \in {"seal", "saveVv"}
                            /\ r.vv = pass[c].vv /\ r.forks = pass[c].forks
      BY <1>0, <1>5, EndPullFacts
  <2>2. UNCHANGED <<log, img, idb>>
      BY <1>5 DEF EndPull
  <2>. QED
      BY <1>0, <2>1, <2>2, SurvivalPass
<1>6. ASSUME NEW c \in Callers, Seal(c) \/ Put(c) PROVE SurvivalInv'
    BY <1>0, <1>6, SurvivalSeal, SurvivalPut
<1>7. ASSUME NEW c \in Callers, Relist(c) PROVE SurvivalInv'
  <2>1. PICK r \in Passes : /\ pass[c].pc = "relist" /\ pass' = [pass EXCEPT ![c] = r]
                            /\ r.pc = "saveVv"
                            /\ r.vv = pass[c].vv /\ r.forks = pass[c].forks
      BY <1>0, <1>7, RelistFacts
  <2>2. UNCHANGED <<log, img, idb>>
      BY <1>7 DEF Relist
  <2>. QED
      BY <1>0, <2>1, <2>2, SurvivalPass
<1>8. ASSUME NEW c \in Callers, SaveVv(c) \/ SaveCursor(c) \/ SaveForks(c) PROVE SurvivalInv'
    BY <1>0, <1>8, SurvivalSave
<1>9. ASSUME NEW c \in Callers PROVE ~Abort(c)
    BY <1>0 DEF Abort, TypeInv
<1>. QED
    BY <1>1, <1>2, <1>3, <1>4, <1>5, <1>6, <1>7, <1>8, <1>9 DEF Next, Step

\* Only an abandoned pass counts as one.
LEMMA AbortsNext == [Next]_vars => aborts' = aborts \/ aborts' = aborts + 1
BY DEF Next, Step, vars, Edit, Query, Begin, List, Pull, Apply, EndPull, Seal, Put,
       Relist, SaveVv, SaveCursor, SaveForks, Abort

\* The inductive invariant: what holds until the first pass is abandoned.
SurvivalUntilAbort == OneEach /\ TypeInv /\ (aborts = 0 => SurvivalInv)

\* Nothing published is dropped: until a pass is abandoned, what a device's
\* vector says it has taken note of is in its live image or preserved as a
\* fork, however the passes of any number of devices and the edits of the
\* applications interleave (PublishedSurvives, the loop of sync()).
THEOREM PublishedIsKept == OneEach /\ Spec => []PublishedSurvives
<1>1. SurvivalUntilAbort => PublishedSurvives
  <2>. SUFFICES ASSUME SurvivalInv, NEW k \in DOMAIN log, NEW d \in Devices,
                       NEW v \in Knows(d), Seen(log[k].vv, v)
                PROVE  log[k].image.edits \subseteq img[d].edits \cup Preserved
      BY DEF PublishedSurvives, NothingDropped, SurvivalUntilAbort
  <2>1. OneEach /\ TypeInv /\ k \in 1 .. Len(log) /\ log[k] \in Published
      BY DEF SurvivalInv, TypeInv, Published
  <2>2. v = Clock(d)
    <3>1. CASE \E o \in Callers : Owner[o] = d /\ Active(o)
        BY <2>1, <3>1, ClockRuns DEF Knows
    <3>2. CASE ~ \E o \in Callers : Owner[o] = d /\ Active(o)
        BY <3>2, ClockRests DEF Knows
    <3>. QED
        BY <3>1, <3>2
  <2>3. v \in Vectors /\ log[k].vv \in Vectors
      BY <2>1, <2>2, ClockType, PublishedType DEF Blobs
  <2>4. Below(log[k].vv, Clock(d))
      BY <2>2, <2>3, SeenIsBelow DEF Below
  <2>. QED
      BY <2>1, <2>4 DEF SurvivalInv, Survives, Covers
<1>2. OneEach /\ Init => SurvivalUntilAbort
    BY SurvivalInit, TypeInit DEF SurvivalUntilAbort
<1>3. SurvivalUntilAbort /\ [Next]_vars => SurvivalUntilAbort'
  <2>. SUFFICES ASSUME SurvivalUntilAbort, [Next]_vars PROVE SurvivalUntilAbort'
      OBVIOUS
  <2>1. OneEach' /\ TypeInv'
      BY TypeNext DEF SurvivalUntilAbort, OneEach
  <2>2. ASSUME aborts' = 0 PROVE SurvivalInv'
    <3>1. aborts = 0
        BY <2>2, AbortsNext DEF SurvivalUntilAbort, TypeInv
    <3>. QED
        BY <2>2, <3>1, SurvivalNext DEF SurvivalUntilAbort
  <2>. QED
      BY <2>1, <2>2 DEF SurvivalUntilAbort
<1>. QED
    BY <1>1, <1>2, <1>3, PTL DEF Spec
-----------------------------------------------------------------------------
(* An import that was cut short is done again *)

\* v is the least vector above all of S.
IsLub(v, S) ==
    /\ \A w \in S : Below(w, v)
    /\ \A d \in Devices : \E w \in S : v[d] = w[d]

\* What the device will have heard of when its pass has pulled up to j.
Heard(d, j) == {idb[d].vv} \cup {log[k].vv : k \in idb[d].cursor + 1 .. j}

\* The blob at j is one the device's next pass will import, if no earlier one.
Due(d, j) ==
    /\ j \in idb[d].cursor + 1 .. Len(log)
    /\ \E v \in Vectors : /\ IsLub(v, Heard(d, j - 1))
                          /\ Reconcile(v, log[j].vv) \notin {"stale", "forkLocal"}

\* The pass has not yet gone past j, and will get there.
Before(c, j) ==
    \/ pass[c].pc = "list"
    \/ /\ pass[c].pc \in {"pull", "apply"}
       /\ pass[c].cursor + pass[c].i < j /\ j <= pass[c].cursor + pass[c].count

Pulling(c) ==
    pass[c].pc \in {"list", "pull", "apply"} =>
        /\ pass[c].cursor = idb[Owner[c]].cursor
        /\ IsLub(pass[c].vv, Heard(Owner[c], pass[c].cursor + pass[c].i))
        /\ pass[c].pc = "apply" =>
              Reconcile(pass[c].vv, pass[c].next[1].vv) \notin {"stale", "forkLocal"}

Reimports(d) ==
    ~img[d].whole =>
        \E j \in 1 .. Len(log) :
            /\ Due(d, j)
            /\ \A c \in Callers : Owner[c] = d /\ Active(c) => Before(c, j)

WholeInv ==
    /\ OneEach
    /\ TypeInv
    /\ \A c \in Callers : Pulling(c)
    /\ \A d \in Devices : Reimports(d)
    /\ \A k \in 1 .. Len(log) : log[k].image.whole
    /\ \A c \in Callers : At(c, "put") => pass[c].next[1].image.whole

LEMMA LubUnique ==
    ASSUME NEW S \in SUBSET Vectors, NEW v \in Vectors, NEW w \in Vectors,
           IsLub(v, S), IsLub(w, S)
    PROVE  v = w
<1>1. ASSUME NEW d \in Devices PROVE v[d] = w[d]
  <2>1. PICK x \in S : v[d] = x[d]
      BY DEF IsLub
  <2>2. PICK y \in S : w[d] = y[d]
      BY DEF IsLub
  <2>3. x[d] <= w[d] /\ y[d] <= v[d]
      BY DEF IsLub, Below
  <2>. QED
      BY <2>1, <2>2, <2>3 DEF Vectors
<1>. QED
    BY <1>1 DEF Vectors

LEMMA LubMerge ==
    ASSUME NEW S \in SUBSET Vectors, NEW v \in Vectors, NEW b \in Vectors, IsLub(v, S)
    PROVE  IsLub(MergeMax(v, b), S \cup {b})
<1>1. ASSUME NEW w \in S PROVE Below(w, MergeMax(v, b))
    BY BelowMerge DEF IsLub
<1>2. Below(b, MergeMax(v, b))
    BY MergeAt DEF Below
<1>3. ASSUME NEW d \in Devices PROVE \E w \in S \cup {b} : MergeMax(v, b)[d] = w[d]
  <2>1. MergeMax(v, b)[d] \in {v[d], b[d]}
      BY MergeAt
  <2>2. \E w \in S : v[d] = w[d]
      BY DEF IsLub
  <2>. QED
      BY <2>1, <2>2
<1>. QED
    BY <1>1, <1>2, <1>3 DEF IsLub

LEMMA LubSeen ==
    ASSUME NEW S \in SUBSET Vectors, NEW v \in Vectors, NEW b \in Vectors, IsLub(v, S),
           Reconcile(v, b) = "stale"
    PROVE  IsLub(v, S \cup {b})
<1>1. Seen(b, v)
  <2>1. CASE Relation(b, v) = "dominates"
      BY <2>1 DEF Reconcile
  <2>2. CASE Relation(b, v) # "dominates" /\ ~Seen(b, v)
      BY <2>2 DEF Reconcile
  <2>. QED
      BY <2>1, <2>2
<1>2. Below(b, v)
    BY <1>1, SeenIsBelow DEF Below
<1>. QED
    BY <1>2 DEF IsLub

LEMMA HeardType ==
    ASSUME TypeInv, NEW d \in Devices, NEW j \in Nat, j <= Len(log)
    PROVE  Heard(d, j) \in SUBSET Vectors
<1>1. idb[d].vv \in Vectors /\ idb[d].cursor \in Nat /\ Len(log) \in Nat
    BY DEF TypeInv
<1>2. \A k \in idb[d].cursor + 1 .. j : k \in 1 .. Len(log)
    BY <1>1
<1>3. \A k \in idb[d].cursor + 1 .. j : log[k].vv \in Vectors
    BY <1>2, LogBlob DEF Blobs
<1>. QED
    BY <1>1, <1>3 DEF Heard

LEMMA HeardNext ==
    ASSUME TypeInv, NEW d \in Devices, NEW j \in Nat, idb[d].cursor <= j
    PROVE  Heard(d, j + 1) = Heard(d, j) \cup {log[j + 1].vv}
<1>1. idb[d].cursor \in Nat
    BY DEF TypeInv
<1>2. idb[d].cursor + 1 .. j + 1 = (idb[d].cursor + 1 .. j) \cup {j + 1}
    BY <1>1
<1>. QED
    BY <1>2 DEF Heard

\* The log only grows, so what a device has heard of and what is due stay.
LEMMA HeardKept ==
    ASSUME TypeInv, NEW d \in Devices, idb'[d] = idb[d], NEW j \in Nat, j <= Len(log),
           \A k \in 1 .. Len(log) : log'[k] = log[k]
    PROVE  Heard(d, j)' = Heard(d, j)
<1>1. idb[d].cursor \in Nat /\ Len(log) \in Nat
    BY DEF TypeInv
<1>2. \A k \in idb[d].cursor + 1 .. j : k \in 1 .. Len(log)
    BY <1>1
<1>3. \A k \in idb[d].cursor + 1 .. j : log'[k] = log[k]
    BY <1>2
<1>. QED
    BY <1>3 DEF Heard

LEMMA DueKept ==
    ASSUME TypeInv, NEW d \in Devices, idb'[d] = idb[d], NEW j, Due(d, j),
           Len(log) <= Len(log'), Len(log') \in Nat,
           \A k \in 1 .. Len(log) : log'[k] = log[k]
    PROVE  Due(d, j)'
<1>1. idb[d].cursor \in Nat /\ Len(log) \in Nat /\ j \in idb[d].cursor + 1 .. Len(log)
    BY DEF TypeInv, Due
<1>2. j - 1 \in Nat /\ j - 1 <= Len(log) /\ log'[j] = log[j] /\ j \in idb'[d].cursor + 1 .. Len(log')
    BY <1>1
<1>3. Heard(d, j - 1)' = Heard(d, j - 1)
    BY <1>2, HeardKept
<1>4. PICK v \in Vectors : /\ IsLub(v, Heard(d, j - 1))
                           /\ Reconcile(v, log[j].vv) \notin {"stale", "forkLocal"}
    BY DEF Due
<1>5. IsLub(v, Heard(d, j - 1)')
    BY <1>3, <1>4
<1>6. Reconcile(v, log'[j].vv) \notin {"stale", "forkLocal"}
    BY <1>2, <1>4
<1>. HIDE DEF Heard
<1>. QED
    BY <1>2, <1>5, <1>6 DEF Due

LEMMA PullingKept ==
    ASSUME TypeInv, NEW c \in Callers, Pulling(c), Alike(pass'[c], pass[c]),
           idb'[Owner[c]] = idb[Owner[c]],
           \A k \in 1 .. Len(log) : log'[k] = log[k]
    PROVE  Pulling(c)'
<1>0. pass'[c].cursor = pass[c].cursor /\ pass'[c].i = pass[c].i
    BY DEF Alike
<1>. SUFFICES ASSUME pass[c].pc \in {"list", "pull", "apply"} PROVE Pulling(c)'
    BY DEF Pulling, Alike
<1>1. pass[c] \in Passes /\ InLog(pass[c], log) /\ Len(log) \in Nat /\ Owner[c] \in Devices
    BY OwnerType DEF TypeInv
<1>2. PICK j \in Nat : j = pass[c].cursor + pass[c].i /\ j <= Len(log)
    BY <1>1 DEF InLog, Passes
<1>3. Heard(Owner[c], j)' = Heard(Owner[c], j)
    BY <1>1, <1>2, HeardKept
<1>. QED
    BY <1>0, <1>2, <1>3 DEF Pulling, Alike

LEMMA ReimportsKept ==
    ASSUME TypeInv, NEW d \in Devices, Reimports(d), idb'[d] = idb[d],
           img[d].whole => img'[d].whole,
           Len(log) <= Len(log'), Len(log') \in Nat,
           \A k \in 1 .. Len(log) : log'[k] = log[k],
           \A c \in Callers, j \in 1 .. Len(log) :
              Owner[c] = d /\ Due(d, j) /\ (Active(c) => Before(c, j)) =>
                 (Active(c)' => Before(c, j)')
    PROVE  Reimports(d)'
<1>. SUFFICES ASSUME ~img'[d].whole
              PROVE  \E j \in 1 .. Len(log') :
                        /\ Due(d, j)'
                        /\ \A c \in Callers : Owner[c] = d /\ Active(c)' => Before(c, j)'
    BY DEF Reimports
<1>1. PICK j \in 1 .. Len(log) :
        Due(d, j) /\ \A c \in Callers : Owner[c] = d /\ Active(c) => Before(c, j)
    BY DEF Reimports
<1>2. Due(d, j)'
    BY <1>1, DueKept
<1>3. j \in 1 .. Len(log')
    BY DEF TypeInv
<1>. QED
    BY <1>1, <1>2, <1>3

\* A device that is past pulling has a whole image.
LEMMA WholeAfterPull ==
    ASSUME WholeInv, NEW c \in Callers,
           \/ pass[c].pc \notin {"idle", "list", "pull", "apply"}
           \/ pass[c].pc = "pull" /\ pass[c].i = pass[c].count
    PROVE  img[Owner[c]].whole
<1>. SUFFICES ASSUME ~img[Owner[c]].whole PROVE FALSE
    OBVIOUS
<1>1. Owner[c] \in Devices /\ Reimports(Owner[c]) /\ Active(c) /\ pass[c] \in Passes
    BY OwnerType DEF WholeInv, Active, TypeInv
<1>2. PICK j \in 1 .. Len(log) : Before(c, j)
    BY <1>1 DEF Reimports
<1>. QED
    BY <1>1, <1>2 DEF Before, Passes

LEMMA WholeInit == OneEach /\ Init => WholeInv
<1>. SUFFICES ASSUME OneEach, Init PROVE WholeInv
    OBVIOUS
<1>1. \A c \in Callers : pass[c].pc = "idle"
    BY DEF Init, Idle
<1>2. \A d \in Devices : img[d].whole
    BY DEF Init
<1>3. Len(log) = 0
    BY DEF Init
<1>. QED
    BY <1>1, <1>2, <1>3, TypeInit DEF WholeInv, Pulling, Reimports, At

\* Steps that leave the passes as they are, but for their history.
LEMMA WholeEdit ==
    ASSUME WholeInv, TypeInv', log' = log, idb' = idb,
           \A c \in Callers : Alike(pass'[c], pass[c]),
           \A d \in Devices : img'[d].whole = img[d].whole
    PROVE  WholeInv'
<1>0. OneEach /\ TypeInv /\ Len(log) \in Nat
    BY DEF WholeInv, TypeInv
<1>1. \A c \in Callers : Pulling(c)'
    BY <1>0, PullingKept, OwnerType DEF WholeInv
<1>2. ASSUME NEW d \in Devices PROVE Reimports(d)'
  <2>1. \A c \in Callers, j \in 1 .. Len(log) :
           /\ Active(c)' <=> Active(c)
           /\ Before(c, j)' <=> Before(c, j)
      BY DEF Active, Before, Alike
  <2>2. Reimports(d)
      BY DEF WholeInv
  <2>. QED
      BY <1>0, <2>1, <2>2, ReimportsKept
<1>3. \A o \in Callers : At(o, "put")' => pass'[o].next[1].image.whole
    BY DEF WholeInv, At, Alike
<1>4. \A k \in 1 .. Len(log) : log[k].image.whole
    BY DEF WholeInv
<1>. QED
    BY <1>0, <1>1, <1>2, <1>3, <1>4 DEF WholeInv

LEMMA WholeBegin ==
    ASSUME WholeInv, TypeInv', NEW c \in Callers, Begin(c)
    PROVE  WholeInv'
<1>a. UNCHANGED <<log, img, idb>>
    BY DEF Begin
<1>b. OneEach /\ TypeInv /\ Len(log) \in Nat
    BY DEF WholeInv, TypeInv
<1>0. OneEach /\ TypeInv /\ Len(log) \in Nat /\ UNCHANGED <<log, img, idb>>
    BY <1>a, <1>b
<1>1. /\ \A o \in Callers \ {c} : Alike(pass'[o], pass[o])
      /\ pass'[c].pc = "list" /\ pass'[c].i = 0
      /\ pass'[c].vv = idb[Owner[c]].vv /\ pass'[c].cursor = idb[Owner[c]].cursor
    BY <1>0, BeginFacts
<1>2. Pulling(c)'
  <2>1. idb[Owner[c]].cursor \in Nat /\ idb[Owner[c]].vv \in Vectors
      BY <1>0, OwnerType DEF TypeInv
  <2>2. pass'[c].cursor + pass'[c].i = idb[Owner[c]].cursor
      BY <1>1, <2>1
  <2>3. idb[Owner[c]].cursor + 1 .. idb[Owner[c]].cursor = {}
      BY <2>1
  <2>4. Heard(Owner[c], pass[c].cursor + pass[c].i)' = {idb[Owner[c]].vv}
      BY <1>0, <2>2, <2>3 DEF Heard
  <2>5. IsLub(pass'[c].vv, {idb[Owner[c]].vv})
      BY <1>1, <2>1 DEF IsLub, Below, Vectors
  <2>. QED
      BY <1>0, <1>1, <2>4, <2>5 DEF Pulling
<1>3. \A o \in Callers \ {c} : Pulling(o)'
    BY <1>0, <1>1, PullingKept, OwnerType DEF WholeInv
<1>4. ASSUME NEW d \in Devices PROVE Reimports(d)'
  <2>1. \A o \in Callers \ {c}, j \in 1 .. Len(log) :
           /\ Active(o)' <=> Active(o)
           /\ Before(o, j)' <=> Before(o, j)
      BY <1>1 DEF Active, Before, Alike
  <2>2. \A j \in 1 .. Len(log) : Before(c, j)'
      BY <1>1 DEF Before
  <2>3. Reimports(d)
      BY DEF WholeInv
  <2>. QED
      BY <1>0, <2>1, <2>2, <2>3, ReimportsKept
<1>5. \A o \in Callers : At(o, "put")' => pass'[o].next[1].image.whole
    BY <1>1 DEF WholeInv, At, Alike
<1>6. \A k \in 1 .. Len(log) : log[k].image.whole
    BY DEF WholeInv
<1>. QED
    BY <1>0, <1>2, <1>3, <1>4, <1>5, <1>6 DEF WholeInv

\* A step of one pass that leaves the log, the images and what is saved alone.
LEMMA WholePass ==
    ASSUME WholeInv, TypeInv', NEW c \in Callers, NEW r \in Passes,
           pass' = [pass EXCEPT ![c] = r], UNCHANGED <<log, img, idb>>,
           Pulling(c)', pass[c].pc # "idle", r.pc # "idle",
           r.pc = "put" => r.next[1].image.whole,
           ~img[Owner[c]].whole =>
              \A j \in 1 .. Len(log) : Due(Owner[c], j) /\ Before(c, j) => Before(c, j)'
    PROVE  WholeInv'
<1>0. OneEach /\ TypeInv /\ Len(log) \in Nat
    BY DEF WholeInv, TypeInv
<1>1. /\ pass'[c] = r /\ \A o \in Callers \ {c} : pass'[o] = pass[o]
    BY <1>0 DEF TypeInv
<1>2. \A o \in Callers \ {c} : Pulling(o)'
    BY <1>0, <1>1, PullingKept, OwnerType DEF WholeInv, Alike
<1>3. ASSUME NEW d \in Devices PROVE Reimports(d)'
  <2>1. \A o \in Callers \ {c}, j \in 1 .. Len(log) :
           /\ Active(o)' <=> Active(o)
           /\ Before(o, j)' <=> Before(o, j)
      BY <1>1 DEF Active, Before
  <2>2. Reimports(d) /\ Active(c)
      BY DEF WholeInv, Active
  <2>3. CASE img[d].whole
      BY <2>3 DEF Reimports
  <2>4. CASE ~img[d].whole
      BY <1>0, <2>1, <2>2, <2>4, ReimportsKept
  <2>. QED
      BY <2>3, <2>4
<1>4. \A o \in Callers : At(o, "put")' => pass'[o].next[1].image.whole
    BY <1>1 DEF WholeInv, At
<1>5. \A k \in 1 .. Len(log) : log[k].image.whole
    BY DEF WholeInv
<1>. QED
    BY <1>0, <1>2, <1>3, <1>4, <1>5 DEF WholeInv

LEMMA WholeList ==
    ASSUME WholeInv, TypeInv', NEW c \in Callers, List(c)
    PROVE  WholeInv'
<1>. DEFINE n == IF Len(log) > pass[c].cursor THEN Len(log) - pass[c].cursor ELSE 0
            r == [pass[c] EXCEPT !.pc = "pull", !.count = n]
<1>1. TypeInv /\ Pulling(c) /\ pass[c].pc = "list" /\ UNCHANGED <<log, img, idb>>
    BY DEF WholeInv, List, At
<1>2. pass[c] \in Passes /\ InLog(pass[c], log) /\ Len(log) \in Nat /\ Owner[c] \in Devices
    BY <1>1, OwnerType DEF TypeInv
<1>3. pass' = [pass EXCEPT ![c] = r]
    BY <1>1 DEF TypeInv, List
<1>4. n = Len(log) - pass[c].cursor /\ pass[c].cursor \in Nat
    BY <1>2 DEF InLog, Passes
<1>. HIDE DEF n
<1>5. /\ r.pc = "pull" /\ r.vv = pass[c].vv /\ r.i = pass[c].i /\ r.count = n
      /\ r.cursor = pass[c].cursor
    BY <1>2 DEF Passes
<1>. HIDE DEF r
<1>6. r \in Passes /\ pass'[c] = r
    BY <1>1, <1>3 DEF TypeInv
<1>7. Pulling(c)'
  <2>1. Heard(Owner[c], pass[c].cursor + pass[c].i)' = Heard(Owner[c], pass[c].cursor + pass[c].i)
      BY <1>1, <1>5, <1>6 DEF Heard
  <2>. QED
      BY <1>1, <1>5, <1>6, <2>1 DEF Pulling
<1>8. ASSUME NEW j \in 1 .. Len(log), Due(Owner[c], j) PROVE Before(c, j)'
  <2>1. pass[c].i = 0 /\ pass[c].cursor = idb[Owner[c]].cursor
      BY <1>1, <1>2 DEF InLog, Pulling
  <2>2. pass[c].cursor < j /\ j <= Len(log)
      BY <1>2, <1>4, <1>8, <2>1 DEF Due
  <2>. QED
      BY <1>2, <1>4, <1>5, <1>6, <2>1, <2>2 DEF Before
<1>. QED
    BY <1>1, <1>3, <1>5, <1>6, <1>7, <1>8, WholePass

LEMMA WholePull ==
    ASSUME WholeInv, TypeInv', NEW c \in Callers, Pull(c)
    PROVE  WholeInv'
<1>. DEFINE p == pass[c]
            d == Owner[c]
            j == p.cursor + p.i + 1
<1>1. TypeInv /\ Pulling(c) /\ UNCHANGED <<log, img, idb>> /\ d \in Devices
    BY OwnerType DEF WholeInv, Pull
<1>a. PICK b \in Blobs, r \in Passes : PullsInto(c, b, r)
    BY <1>1, PullFacts
<1>2.   /\ p.pc = "pull" /\ p.i < p.count /\ j \in 1 .. Len(log)
        /\ b = log[j] /\ pass' = [pass EXCEPT ![c] = r]
        /\ r.cursor = p.cursor /\ r.count = p.count
        /\ \/ /\ r.pc = "pull" /\ r.i = p.i + 1
              /\ \/ Reconcile(p.vv, b.vv) = "stale" /\ r.vv = p.vv
                 \/ Reconcile(p.vv, b.vv) = "forkLocal" /\ r.vv = MergeMax(p.vv, b.vv)
           \/ /\ Reconcile(p.vv, b.vv) \notin {"stale", "forkLocal"}
              /\ r.pc = "apply" /\ r.i = p.i /\ r.next = <<b>> /\ r.vv = p.vv
    BY <1>a DEF PullsInto
<1>b. p \in Passes /\ Len(log) \in Nat /\ pass'[c] = r
    BY <1>1, <1>2 DEF TypeInv
<1>3. /\ p.vv \in Vectors /\ b.vv \in Vectors /\ Len(log) \in Nat /\ pass'[c] = r
      /\ p.cursor \in Nat /\ p.i \in Nat /\ p.count \in Nat
    BY <1>b DEF Passes, Blobs
<1>4. /\ p.cursor = idb[d].cursor
      /\ IsLub(p.vv, Heard(d, p.cursor + p.i))
    BY <1>1, <1>2 DEF Pulling
<1>5. Heard(d, p.cursor + p.i) \in SUBSET Vectors
  <2>1. p.cursor + p.i \in Nat /\ p.cursor + p.i <= Len(log)
      BY <1>2, <1>3
  <2>. QED
      BY <1>1, <2>1, HeardType
<1>6. CASE r.pc = "apply" /\ Reconcile(p.vv, b.vv) \notin {"stale", "forkLocal"}
  <2>1. r.i = p.i /\ r.next = <<b>> /\ r.vv = p.vv
      BY <1>2, <1>6
  <2>2. Heard(Owner[c], pass[c].cursor + pass[c].i)' = Heard(d, p.cursor + p.i)
      BY <1>1, <1>2, <1>3, <2>1 DEF Heard
  <2>3. Pulling(c)'
      BY <1>1, <1>2, <1>3, <1>4, <1>6, <2>1, <2>2 DEF Pulling
  <2>4. \A k \in 1 .. Len(log) : Before(c, k) => Before(c, k)'
      BY <1>2, <1>3, <1>6, <2>1 DEF Before
  <2>. QED
      BY <1>1, <1>2, <1>6, <2>3, <2>4, WholePass
<1>7. CASE /\ r.pc = "pull" /\ r.i = p.i + 1
           /\ \/ Reconcile(p.vv, b.vv) = "stale" /\ r.vv = p.vv
              \/ Reconcile(p.vv, b.vv) = "forkLocal" /\ r.vv = MergeMax(p.vv, b.vv)
  <2>1. Heard(d, p.cursor + p.i + 1) = Heard(d, p.cursor + p.i) \cup {b.vv}
    <3>1. p.cursor + p.i \in Nat /\ idb[d].cursor <= p.cursor + p.i
        BY <1>3, <1>4
    <3>. QED
        BY <1>1, <1>2, <3>1, HeardNext
  <2>2. IsLub(r.vv, Heard(d, p.cursor + p.i) \cup {b.vv})
      BY <1>3, <1>4, <1>5, <1>7, LubSeen, LubMerge
  <2>3. pass'[c].cursor + pass'[c].i = p.cursor + p.i + 1
      BY <1>2, <1>3, <1>7
  <2>4. Heard(Owner[c], pass[c].cursor + pass[c].i)' = Heard(d, p.cursor + p.i + 1)
      BY <1>1, <2>3 DEF Heard
  <2>5. Pulling(c)'
      BY <1>1, <1>2, <1>3, <1>4, <1>7, <2>1, <2>2, <2>4 DEF Pulling
  <2>6. ASSUME NEW k \in 1 .. Len(log), Due(d, k), Before(c, k) PROVE Before(c, k)'
    <3>1. p.cursor + p.i < k /\ k <= p.cursor + p.count
        BY <1>2, <2>6 DEF Before
    <3>2. k # j
      <4>. SUFFICES ASSUME k = j PROVE FALSE
          OBVIOUS
      <4>1. k - 1 = p.cursor + p.i
          BY <1>3
      <4>2. PICK v \in Vectors : /\ IsLub(v, Heard(d, p.cursor + p.i))
                                 /\ Reconcile(v, b.vv) \notin {"stale", "forkLocal"}
          BY <1>2, <2>6, <4>1 DEF Due
      <4>3. v = p.vv
          BY <1>3, <1>4, <1>5, <4>2, LubUnique
      <4>. QED
          BY <1>7, <4>2, <4>3
    <3>3. p.cursor + (p.i + 1) < k
        BY <1>3, <3>1, <3>2
    <3>. QED
        BY <1>2, <1>3, <1>7, <3>1, <3>3 DEF Before
  <2>7. r.pc = "pull"
      BY <1>7
  <2>. QED
      BY <1>1, <1>2, <2>5, <2>6, <2>7, WholePass
<1>. QED
    BY <1>2, <1>6, <1>7

LEMMA WholeApply ==
    ASSUME WholeInv, TypeInv', NEW c \in Callers, Apply(c)
    PROVE  WholeInv'
<1>. DEFINE p == pass[c]
            d == Owner[c]
            j == p.cursor + p.i + 1
<1>1. OneEach /\ TypeInv /\ Pulling(c) /\ UNCHANGED <<log, idb>> /\ d \in Devices
    BY OwnerType DEF WholeInv, Apply
<1>2. PICK b \in Blobs, r \in Passes :
        /\ p.pc = "apply" /\ j \in 1 .. Len(log) /\ b = log[j]
        /\ pass' = [pass EXCEPT ![c] = r] /\ img' = [img EXCEPT ![d] = b.image]
        /\ r.pc = "pull" /\ r.i = p.i + 1 /\ r.vv = MergeMax(p.vv, b.vv)
        /\ r.cursor = p.cursor
    BY <1>1, ApplyFacts
<1>b. p \in Passes /\ Len(log) \in Nat
    BY <1>1 DEF TypeInv
<1>3. /\ p.vv \in Vectors /\ b.vv \in Vectors /\ Len(log) \in Nat
      /\ p.cursor \in Nat /\ p.i \in Nat
    BY <1>b DEF Passes, Blobs
<1>4. /\ pass'[c] = r /\ \A o \in Callers \ {c} : pass'[o] = pass[o]
      /\ img'[d] = b.image /\ \A e \in Devices \ {d} : img'[e] = img[e]
    BY <1>1, <1>2 DEF TypeInv
<1>5. /\ p.cursor = idb[d].cursor
      /\ IsLub(p.vv, Heard(d, p.cursor + p.i))
    BY <1>1, <1>2 DEF Pulling
<1>6. Heard(d, p.cursor + p.i) \in SUBSET Vectors
  <2>1. p.cursor + p.i \in Nat /\ p.cursor + p.i <= Len(log)
      BY <1>2, <1>3
  <2>. QED
      BY <1>1, <2>1, HeardType
<1>7. Pulling(c)'
  <2>1. Heard(d, p.cursor + p.i + 1) = Heard(d, p.cursor + p.i) \cup {b.vv}
    <3>1. p.cursor + p.i \in Nat /\ idb[d].cursor <= p.cursor + p.i
        BY <1>3, <1>5
    <3>. QED
        BY <1>1, <1>2, <3>1, HeardNext
  <2>2. IsLub(r.vv, Heard(d, p.cursor + p.i) \cup {b.vv})
      BY <1>2, <1>3, <1>5, <1>6, LubMerge
  <2>3. pass'[c].cursor + pass'[c].i = p.cursor + p.i + 1
      BY <1>2, <1>3, <1>4
  <2>4. Heard(Owner[c], pass[c].cursor + pass[c].i)' = Heard(d, p.cursor + p.i + 1)
      BY <1>1, <2>3 DEF Heard
  <2>. QED
      BY <1>1, <1>2, <1>4, <1>5, <2>1, <2>2, <2>4 DEF Pulling
<1>8. \A o \in Callers \ {c} : Pulling(o)'
    BY <1>1, <1>4, PullingKept, OwnerType DEF WholeInv, Alike
<1>9. \A k \in 1 .. Len(log) : log[k].image.whole
    BY DEF WholeInv
<1>10. Reimports(d)'
    BY <1>2, <1>4, <1>9 DEF Reimports
<1>11. ASSUME NEW e \in Devices \ {d} PROVE Reimports(e)'
  <2>1. \A o \in Callers, k \in 1 .. Len(log) : Owner[o] = e =>
           /\ Active(o)' <=> Active(o)
           /\ Before(o, k)' <=> Before(o, k)
      BY <1>4 DEF Active, Before
  <2>2. Reimports(e)
      BY DEF WholeInv
  <2>. QED
      BY <1>1, <1>3, <1>4, <2>1, <2>2, ReimportsKept
<1>12. \A o \in Callers : At(o, "put")' => pass'[o].next[1].image.whole
    BY <1>2, <1>4 DEF WholeInv, At
<1>. QED
    BY <1>1, <1>7, <1>8, <1>9, <1>10, <1>11, <1>12 DEF WholeInv

\* A step of a pass that is done pulling.
LEMMA WholePush ==
    ASSUME WholeInv, TypeInv', NEW c \in Callers, EndPull(c) \/ Seal(c) \/ Relist(c)
    PROVE  WholeInv'
<1>1. TypeInv /\ UNCHANGED <<log, img, idb>>
    BY DEF WholeInv, EndPull, Seal, Relist
<1>2. PICK r \in Passes :
        /\ pass' = [pass EXCEPT ![c] = r]
        /\ r.pc \in {"seal", "saveVv", "put"}
        /\ r.pc = "put" => r.next[1].image = img[Owner[c]]
        /\ \/ pass[c].pc \in {"seal", "relist"}
           \/ pass[c].pc = "pull" /\ pass[c].i = pass[c].count
  <2>1. CASE EndPull(c)
      BY <1>1, <2>1, EndPullFacts
  <2>2. CASE Seal(c)
      BY <1>1, <2>2, SealFacts
  <2>3. CASE Relist(c)
      BY <1>1, <2>3, RelistFacts
  <2>. QED
      BY <2>1, <2>2, <2>3
<1>3. img[Owner[c]].whole
    BY <1>2, WholeAfterPull
<1>4. Pulling(c)'
    BY <1>1, <1>2 DEF Pulling, TypeInv
<1>. QED
    BY <1>1, <1>2, <1>3, <1>4, WholePass

LEMMA WholePut ==
    ASSUME WholeInv, TypeInv', NEW c \in Callers, Put(c)
    PROVE  WholeInv'
<1>0. OneEach /\ TypeInv /\ UNCHANGED <<img, idb>>
    BY DEF WholeInv, Put
<1>1. PICK b \in Blobs, r \in Passes :
        /\ pass[c].pc = "put" /\ b = pass[c].next[1] /\ pass' = [pass EXCEPT ![c] = r]
        /\ r.pc = "relist"
        /\ Len(log') = Len(log) + 1 /\ Len(log) \in Nat /\ log'[Len(log) + 1] = b
        /\ \A k \in 1 .. Len(log) : log'[k] = log[k]
    BY <1>0, PutFacts
<1>2. /\ pass'[c] = r /\ \A o \in Callers \ {c} : pass'[o] = pass[o]
    BY <1>0, <1>1 DEF TypeInv
<1>3. \A k \in 1 .. Len(log') : log'[k].image.whole
  <2>1. b.image.whole /\ \A k \in 1 .. Len(log) : log[k].image.whole
      BY <1>1 DEF WholeInv, At
  <2>. QED
      BY <1>1, <2>1
<1>4. Pulling(c)'
    BY <1>1, <1>2 DEF Pulling
<1>5. \A o \in Callers \ {c} : Pulling(o)'
    BY <1>0, <1>1, <1>2, PullingKept, OwnerType DEF WholeInv, Alike
<1>6. ASSUME NEW d \in Devices PROVE Reimports(d)'
  <2>1. CASE d = Owner[c]
      BY <1>0, <1>1, <2>1, WholeAfterPull DEF Reimports
  <2>2. CASE d # Owner[c]
    <3>1. \A o \in Callers, k \in 1 .. Len(log) : Owner[o] = d =>
             /\ Active(o)' <=> Active(o)
             /\ Before(o, k)' <=> Before(o, k)
        BY <1>2, <2>2 DEF Active, Before
    <3>2. Reimports(d) /\ Len(log) <= Len(log') /\ Len(log') \in Nat
        BY <1>1 DEF WholeInv
    <3>. QED
        BY <1>0, <1>1, <3>1, <3>2, ReimportsKept
  <2>. QED
      BY <2>1, <2>2
<1>7. \A o \in Callers : At(o, "put")' => pass'[o].next[1].image.whole
    BY <1>1, <1>2 DEF WholeInv, At
<1>. QED
    BY <1>0, <1>3, <1>4, <1>5, <1>6, <1>7 DEF WholeInv

LEMMA WholeSave ==
    ASSUME WholeInv, TypeInv', NEW c \in Callers,
           SaveVv(c) \/ SaveCursor(c) \/ SaveForks(c)
    PROVE  WholeInv'
<1>0. OneEach /\ TypeInv /\ Len(log) \in Nat /\ UNCHANGED <<log, img>>
    BY DEF WholeInv, TypeInv, SaveVv, SaveCursor, SaveForks
<1>. DEFINE d == Owner[c]
<1>1. PICK r \in Passes, s \in [vv : Vectors, cursor : Nat, forks : SUBSET Images] :
        /\ pass' = [pass EXCEPT ![c] = r] /\ idb' = [idb EXCEPT ![d] = s]
        /\ pass[c].pc \in {"saveVv", "saveCursor", "saveForks"}
        /\ r.pc \in {"saveCursor", "saveForks", "idle"}
  <2>1. Idle.pc = "idle"
      BY DEF Idle
  <2>. QED
      BY <1>0, <2>1, SaveFacts
<1>2. /\ pass'[c] = r /\ \A o \in Callers \ {c} : pass'[o] = pass[o]
      /\ \A e \in Devices \ {d} : idb'[e] = idb[e]
      /\ \A o \in Callers \ {c} : Owner[o] \in Devices \ {d}
    BY <1>0, <1>1, OwnerType DEF TypeInv, OneEach
<1>3. img[d].whole
    BY <1>1, WholeAfterPull
<1>4. Pulling(c)'
    BY <1>1, <1>2 DEF Pulling
<1>5. \A o \in Callers \ {c} : Pulling(o)'
    BY <1>0, <1>2, PullingKept DEF WholeInv, Alike
<1>6. ASSUME NEW e \in Devices PROVE Reimports(e)'
  <2>1. CASE e = d
      BY <1>0, <1>3, <2>1 DEF Reimports
  <2>2. CASE e # d
    <3>1. \A o \in Callers, k \in 1 .. Len(log) : Owner[o] = e =>
             /\ Active(o)' <=> Active(o)
             /\ Before(o, k)' <=> Before(o, k)
        BY <1>2, <2>2 DEF Active, Before
    <3>2. Reimports(e)
        BY DEF WholeInv
    <3>. QED
        BY <1>0, <1>2, <2>2, <3>1, <3>2, ReimportsKept
  <2>. QED
      BY <2>1, <2>2
<1>7. \A o \in Callers : At(o, "put")' => pass'[o].next[1].image.whole
    BY <1>1, <1>2 DEF WholeInv, At
<1>8. \A k \in 1 .. Len(log) : log[k].image.whole
    BY DEF WholeInv
<1>. QED
    BY <1>0, <1>4, <1>5, <1>6, <1>7, <1>8 DEF WholeInv

\* An import cut short at blob j leaves j due: the next pass will hear what
\* this one had heard, and decide as this one did.
LEMMA WholeAbort ==
    ASSUME WholeInv, TypeInv', NEW c \in Callers, Abort(c)
    PROVE  WholeInv'
<1>0. OneEach /\ TypeInv /\ Len(log) \in Nat /\ UNCHANGED <<log, idb>>
    BY DEF WholeInv, TypeInv, Abort
<1>. DEFINE d == Owner[c]
            p == pass[c]
<1>1. /\ pass' = [pass EXCEPT ![c] = Idle]
      /\ \/ img' = img
         \/ p.pc = "apply" /\ \A e \in Devices \ {d} : img'[e] = img[e]
    BY <1>0, AbortFacts
<1>2. /\ pass'[c].pc = "idle" /\ \A o \in Callers \ {c} : pass'[o] = pass[o]
      /\ \A o \in Callers : Owner[o] = d => o = c
      /\ d \in Devices
    BY <1>0, <1>1, OwnerType DEF TypeInv, OneEach, Idle
<1>3. Pulling(c)'
    BY <1>2 DEF Pulling
<1>4. \A o \in Callers \ {c} : Pulling(o)'
    BY <1>0, <1>2, PullingKept, OwnerType DEF WholeInv, Alike
<1>5. ASSUME NEW e \in Devices, e # d \/ img' = img PROVE Reimports(e)'
  <2>1. \A o \in Callers, k \in 1 .. Len(log) : Owner[o] = e =>
           /\ Active(o)' => Active(o)
           /\ Active(o)' /\ Before(o, k) => Before(o, k)'
      BY <1>2 DEF Active, Before
  <2>2. Reimports(e) /\ img'[e] = img[e]
      BY <1>1, <1>5 DEF WholeInv
  <2>. QED
      BY <1>0, <2>1, <2>2, ReimportsKept
<1>6. ASSUME p.pc = "apply" PROVE Reimports(d)'
  <2>. DEFINE j == p.cursor + p.i + 1
  <2>1. p \in Passes /\ InLog(p, log) /\ Pulling(c)
      BY <1>0 DEF WholeInv, TypeInv
  <2>2. p.cursor \in Nat /\ p.i \in Nat /\ p.vv \in Vectors
      BY <2>1 DEF Passes
  <2>3. j \in 1 .. Len(log) /\ p.next[1] = log[j]
      BY <1>0, <1>6, <2>1, <2>2 DEF InLog, Passes
  <2>4. /\ p.cursor = idb[d].cursor /\ IsLub(p.vv, Heard(d, p.cursor + p.i))
        /\ Reconcile(p.vv, log[j].vv) \notin {"stale", "forkLocal"}
      BY <1>6, <2>1, <2>3 DEF Pulling
  <2>5. j - 1 = p.cursor + p.i /\ j \in idb[d].cursor + 1 .. Len(log)
      BY <1>0, <2>2, <2>3, <2>4
  <2>6. Due(d, j)
      BY <2>2, <2>4, <2>5 DEF Due
  <2>7. PICK k \in 1 .. Len(log) : Due(d, k)
      BY <2>3, <2>6
  <2>8. Due(d, k)'
      BY <1>0, <1>2, <2>7, DueKept
  <2>9. \A o \in Callers : Owner[o] = d => ~Active(o)'
      BY <1>2 DEF Active
  <2>. QED
      BY <1>0, <2>8, <2>9 DEF Reimports
<1>7. \A e \in Devices : Reimports(e)'
    BY <1>1, <1>2, <1>5, <1>6
<1>8. \A o \in Callers : At(o, "put")' => pass'[o].next[1].image.whole
    BY <1>2 DEF WholeInv, At
<1>9. \A k \in 1 .. Len(log) : log[k].image.whole
    BY DEF WholeInv
<1>. QED
    BY <1>0, <1>3, <1>4, <1>7, <1>8, <1>9 DEF WholeInv

LEMMA WholeNext == WholeInv /\ [Next]_vars => WholeInv'
<1>. SUFFICES ASSUME WholeInv, [Next]_vars PROVE WholeInv'
    OBVIOUS
<1>0. TypeInv /\ TypeInv'
    BY TypeNext DEF WholeInv
<1>1. CASE UNCHANGED vars
    BY <1>0, <1>1, WholeEdit DEF vars, Alike
<1>2. ASSUME NEW d \in Devices, Edit(d) PROVE WholeInv'
    BY <1>0, <1>2, EditFacts, WholeEdit DEF Edit
<1>3. ASSUME NEW d \in Devices, Query(d) PROVE WholeInv'
    BY <1>0, <1>3, WholeEdit DEF Query, Alike
<1>4. ASSUME NEW c \in Callers, Step(c) PROVE WholeInv'
  <2>1. CASE Begin(c) \/ List(c) \/ Pull(c) \/ Apply(c)
      BY <1>0, <2>1, WholeBegin, WholeList, WholePull, WholeApply
  <2>2. CASE EndPull(c) \/ Seal(c) \/ Put(c) \/ Relist(c)
      BY <1>0, <2>2, WholePush, WholePut
  <2>3. CASE SaveVv(c) \/ SaveCursor(c) \/ SaveForks(c) \/ Abort(c)
      BY <1>0, <2>3, WholeSave, WholeAbort
  <2>. QED
      BY <1>4, <2>1, <2>2, <2>3 DEF Step
<1>. QED
    BY <1>1, <1>2, <1>3, <1>4 DEF Next

\* No blob on the relay holds a main file and a manifest that do not belong
\* together, although an import may be cut short between its files any number
\* of times: vector and cursor are saved only after the pull, so the next pass
\* hears the same blobs, decides the same and imports again before it pushes
\* (PushedWhole, the order of the writes at the end of sync()).
THEOREM OnlyWholeImagesPushed == OneEach /\ Spec => []PushedWhole
<1>1. WholeInv => PushedWhole
    BY DEF WholeInv, PushedWhole, TypeInv
<1>. QED
    BY <1>1, WholeInit, WholeNext, PTL DEF Spec
=============================================================================
