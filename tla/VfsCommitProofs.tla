-------------------------- MODULE VfsCommitProofs --------------------------
(***************************************************************************)
(* Theorems about VfsCommit, for every number of blocks, transactions and  *)
(* restarts: type correctness; the anchor only moves forward; the bounds   *)
(* the anchor and the epoch floor put on a stale copy; the generation      *)
(* ladder of databases whose files are not replaced behind the VFS; and    *)
(* what power loss leaves of the data itself: a committed transaction, an  *)
(* accepted root, a store that changes only while a transaction writes it. *)
(***************************************************************************)
EXTENDS VfsCommit, TLAPS

-----------------------------------------------------------------------------
(* Type correctness.                                                       *)

LEMMA SlotTypes ==
    /\ NoAnchor \in Anchors /\ NoManifest \in Manifests
    /\ NoImage \in Images /\ NoJournal \in Journals
    /\ \A n \in Blocks : StartImage(n) \in Images
BY ConstantsAssumption DEF NoAnchor, Anchors, NoManifest, Manifests, Roots,
    NoImage, NoJournal, Journals, Images, Content, StartImage

LEMMA LoadTypes ==
    ASSUME TypeOK
    PROVE  AnchorLoad \in Anchors /\ Manifest \in Manifests
BY DEF TypeOK, AnchorLoad, Manifest

\* anchor_record leaves a well-formed anchor.
LEMMA RecordTypes ==
    ASSUME TypeOK, NEW c \in Nat, NEW i \in Nat, NEW f \in Nat,
           AnchorRecord(c, i, f)
    PROVE  anchor' \in [0 .. 1 -> Anchors]
<1> DEFINE a == AnchorLoad
           r == [seq |-> a.seq + 1,
                 committed |-> Larger(a.committed, c),
                 inflight  |-> Larger(a.inflight, i),
                 floor     |-> Larger(a.floor, f)]
<1>1. a \in Anchors
  BY LoadTypes
<1>2. r \in Anchors
  BY <1>1 DEF Anchors, Larger
<1>3. AnchorSlot \in 0 .. 1
  BY <1>1 DEF AnchorSlot, Anchors
<1>4. anchor' = [anchor EXCEPT ![AnchorSlot] = r]
  BY DEF AnchorRecord
<1> HIDE DEF r
<1> QED BY <1>2, <1>3, <1>4 DEF TypeOK

\* write_manifest_slot leaves well-formed slots.
LEMMA WriteTypes ==
    ASSUME TypeOK, NEW p \in Manifests, WriteManifest(p)
    PROVE  mani' \in [0 .. 1 -> Manifests]
<1>1. p.gen % 2 \in 0 .. 1
  BY DEF Manifests
<1> QED BY <1>1 DEF WriteManifest, TypeOK

LEMMA ImageTypes ==
    ASSUME NEW img \in Images, NEW j \in Journals, NEW len
    PROVE  /\ Cut(img, len) \in Images
           /\ PreImages(img, j) \in Images
           /\ SqlitePlayback(img, j) \in Images
           /\ Present(img) \in SUBSET Blocks
<1>1. PreImages(img, j) \in Images
  BY DEF Images, PreImages, Journals
<1>2. \A x \in Images : \A l : Cut(x, l) \in Images
  BY DEF Images, Content, Cut
<1> QED BY <1>1, <1>2 DEF SqlitePlayback, Present

LEMMA TypeInit == Init => TypeOK
<1> SUFFICES ASSUME Init PROVE TypeOK
  OBVIOUS
<1> USE ConstantsAssumption, SlotTypes
<1>1. main \in Images
  BY DEF Init, StartFiles, NewDisk
<1>2. mani \in [0 .. 1 -> Manifests]
  <2>1. CASE NewDisk
    BY <2>1 DEF NewDisk
  <2>2. CASE \E n \in Blocks : \E r \in Roots : StartFiles(StartImage(n), r)
    BY <2>2 DEF StartFiles, Manifests, NoManifest, Roots, Present
  <2> QED BY <2>1, <2>2 DEF Init, Roots
<1>3. anchor \in [0 .. 1 -> Anchors] /\ ackGen \in Nat
  BY DEF Init, StartFiles, NewDisk, Anchors, NoAnchor
<1> QED BY <1>1, <1>2, <1>3 DEF Init, TypeOK, Roots, Pcs

LEMMA TypeStep == TypeOK /\ [Next]_vars => TypeOK'
<1> SUFFICES ASSUME TypeOK, [Next]_vars PROVE TypeOK'
  OBVIOUS
<1> USE ConstantsAssumption, SlotTypes, LoadTypes
<1>1. CASE OpenFresh
  <2>1. anchor' \in [0 .. 1 -> Anchors]
    BY <1>1 DEF OpenFresh, TypeOK, Anchors, NoAnchor
  <2> QED BY <1>1, <2>1 DEF OpenFresh, TypeOK, Goto, Pcs, files
<1>2. CASE OpenRead
  BY <1>2 DEF OpenRead, TypeOK, Goto, Pcs, files, env, hist
<1>3. CASE CreateManifest
  <2>1. mani' \in [0 .. 1 -> Manifests]
    BY <1>3 DEF CreateManifest, NoManifest, Manifests, Roots
  <2> QED BY <1>3, <2>1 DEF CreateManifest, TypeOK, Goto, Pcs, files, env, hist
<1>4. CASE CreateAnchor
  <2>1. anchor' \in [0 .. 1 -> Anchors]
    BY <1>4, RecordTypes DEF CreateAnchor
  <2> QED BY <1>4, <2>1 DEF CreateAnchor, TypeOK, Goto, Pcs, Roots, files, env, hist
<1>5. CASE OpenAnchor
  <2>1. anchor' \in [0 .. 1 -> Anchors]
    BY <1>5, RecordTypes DEF OpenAnchor, Manifests
  <2> QED BY <1>5, <2>1 DEF OpenAnchor, TypeOK, Goto, Pcs, files, env, hist
<1>6. CASE OpenVerify
  BY <1>6 DEF OpenVerify, TypeOK, Goto, Pcs, files, env, hist, Manifests
<1>7. CASE SealRootMigration
  <2>1. mani' \in [0 .. 1 -> Manifests] /\ st' \in [gen : Nat, root : Roots]
    <3>1. CASE Authentic(main)
      <4>1. [gen |-> st.gen, root |-> main, prev |-> ZeroRoot, len |-> Present(main)] \in Manifests
        BY ImageTypes DEF TypeOK, Manifests, Roots
      <4>2. mani' \in [0 .. 1 -> Manifests]
        BY <1>7, <3>1, <4>1, WriteTypes DEF SealRootMigration
      <4> QED BY <1>7, <3>1, <4>2 DEF SealRootMigration, TypeOK, Roots
    <3>2. CASE ~Authentic(main)
      BY <1>7, <3>2 DEF SealRootMigration, TypeOK
    <3> QED BY <3>1, <3>2
  <2> QED BY <1>7, <2>1 DEF SealRootMigration, TypeOK, Goto, Pcs, files, env, hist
<1>8. CASE Attach
  BY <1>8 DEF Attach, Served, TypeOK, Goto, Pcs, files, env, hist
<1>9. CASE Begin
  <2>1. tx' \in Images
    BY <1>9 DEF Begin, TypeOK, Images, Content
  <2> QED BY <1>9, <2>1 DEF Begin, TypeOK, Goto, Pcs, files, hist
<1>10. CASE JournalPages
  <2>1. jrnl' \in Journals
    BY <1>10 DEF JournalPages, Overwritten, Present, TypeOK, Journals
  <2> QED BY <1>10, <2>1 DEF JournalPages, TypeOK, env, hist
<1>11. CASE JournalMagic
  <2>1. jrnl' \in Journals
    BY <1>11 DEF JournalMagic, TypeOK, Journals
  <2> QED BY <1>11, <2>1 DEF JournalMagic, TypeOK, env, hist
<1>12. CASE JournalFlush
  BY <1>12 DEF JournalFlush, TypeOK, env, hist
<1>13. CASE WriteMain
  <2>1. main' \in Images
    BY <1>13 DEF WriteMain, TypeOK, Images, Present
  <2> QED BY <1>13, <2>1 DEF WriteMain, TypeOK, env, hist
<1>14. CASE Commit
  BY <1>14 DEF Commit, TypeOK, Goto, Pcs, files, env
<1>15. CASE Rollback
  BY <1>15, ImageTypes DEF Rollback, TypeOK, Goto, Pcs, env, hist
<1>16. CASE SyncMain
  BY <1>16 DEF SyncMain, TypeOK, Goto, Pcs, env, hist
<1>17. CASE RecordInFlight
  <2>1. anchor' \in [0 .. 1 -> Anchors]
    BY <1>17, RecordTypes DEF RecordInFlight, TypeOK
  <2> QED BY <1>17, <2>1 DEF RecordInFlight, TypeOK, Goto, Pcs, files, env, hist
<1>18. CASE SealManifest
  <2>1. mani' \in [0 .. 1 -> Manifests]
    <3>1. [gen |-> st.gen + 1, root |-> main, prev |-> st.root, len |-> Present(main)] \in Manifests
      BY ImageTypes DEF TypeOK, Manifests, Roots
    <3> QED BY <1>18, <3>1, WriteTypes DEF SealManifest, TypeOK
  <2> QED BY <1>18, <2>1 DEF SealManifest, TypeOK, Goto, Pcs, files, env, hist
<1>19. CASE RecordCommitted
  <2>1. anchor' \in [0 .. 1 -> Anchors]
    BY <1>19, RecordTypes DEF RecordCommitted, TypeOK
  <2> QED BY <1>19, <2>1 DEF RecordCommitted, TypeOK, Goto, Pcs, Roots, files, env, hist
<1>20. CASE ZeroHeader
  <2>1. jrnl' \in Journals
    BY <1>20 DEF ZeroHeader, TypeOK, Journals
  <2> QED BY <1>20, <2>1 DEF ZeroHeader, TypeOK, Goto, Pcs, env, hist
<1>21. CASE ZeroSync
  <2>1. /\ allowed' \subseteq Images /\ ackGen' \in Nat /\ epochSeen' \in Nat
        /\ overlaid' \in BOOLEAN /\ pc' \in Pcs
    BY <1>21 DEF ZeroSync, ZeroSyncTo, Served, Acknowledge, TypeOK, Goto, Pcs, hist, Larger
  <2> QED BY <1>21, <2>1 DEF ZeroSync, ZeroSyncTo, TypeOK, env
<1>22. CASE TruncateMain
  BY <1>22, ImageTypes DEF TruncateMain, Acknowledge, TypeOK, Goto, Pcs, env, Larger
<1>23. CASE Close
  BY <1>23 DEF Close, Restart, TypeOK, Goto, Pcs, hist
<1>24. CASE Retry
  BY <1>24 DEF Retry, Restart, TypeOK, Goto, Pcs, files, hist
<1>25. CASE ExportEpoch
  BY <1>25 DEF ExportEpoch, TypeOK, files, hist, Manifests
<1>26. CASE ApplyEpoch
  BY <1>26 DEF ApplyEpoch, Restart, TypeOK, Goto, Pcs, files, hist
<1>27. CASE SaveFloor
  <2>1. anchor' \in [0 .. 1 -> Anchors]
    BY <1>27, RecordTypes DEF SaveFloor, TypeOK
  <2> QED BY <1>27, <2>1 DEF SaveFloor, TypeOK, Goto, Pcs, files, env, Larger
<1>28. CASE Snapshot
  BY <1>28 DEF Snapshot, TypeOK, files, hist
<1>29. CASE Restore
  BY <1>29 DEF Restore, TypeOK, hist
<1>30. CASE Crash
  <2>1. main' \in Images /\ diskMain' \in Images
    BY <1>30 DEF Crash, Survivor, TypeOK, Images, Content
  <2>2. jrnl' \in Journals /\ diskJrnl' \in Journals
    BY <1>30 DEF Crash, TypeOK, Journals
  <2>3. anchor' \in [0 .. 1 -> Anchors]
    BY <1>30 DEF Crash, TypeOK
  <2>4. mani' \in [0 .. 1 -> Manifests]
    BY <1>30 DEF Crash, TypeOK
  <2> QED BY <1>30, <2>1, <2>2, <2>3, <2>4 DEF Crash, Restart, TypeOK, Goto, Pcs, Roots, hist
<1>31. CASE UNCHANGED vars
  BY <1>31 DEF vars, TypeOK, files, env, hist
<1> QED
  BY <1>1, <1>2, <1>3, <1>4, <1>5, <1>6, <1>7, <1>8, <1>9, <1>10, <1>11,
     <1>12, <1>13, <1>14, <1>15, <1>16, <1>17, <1>18, <1>19, <1>20, <1>21, <1>22,
     <1>23, <1>24, <1>25, <1>26, <1>27, <1>28, <1>29, <1>30, <1>31
     DEF Next, OpenStep, BarrierStep, TxStep, Environment

\* Every state vfs.rs can put its files and its DbState in is well formed.
THEOREM TypeCorrect == Spec => []TypeOK
BY TypeInit, TypeStep, PTL DEF Spec

-----------------------------------------------------------------------------
(* The inductive invariants.                                               *)

\* A slot that holds a record holds it at the parity of its sequence number
\* or generation: the next write never lands on the record in force.
AnchorParity   == \A s \in 0 .. 1 : anchor[s].seq = 0 \/ anchor[s].seq % 2 = s
ManifestParity == \A s \in 0 .. 1 : mani[s].gen = 0 \/ mani[s].gen % 2 = s

\* The places where a DbState is in force.
Session == {"migrate", "attach", "syncMain", "bar1", "bar2", "bar3", "zero",
             "zeroSync", "shrink", "idle", "tx"}

\* What the anchor knows of the running session, stale files or not.
StaleInv ==
    /\ AnchorParity
    /\ ackGen <= AnchorLoad.committed
    /\ epochSeen <= AnchorLoad.floor
    /\ pc \in {"openAnchor", "openVerify"} =>
          /\ AnchorLoad.committed <= Manifest.gen + 1
          /\ AnchorLoad.floor <= Manifest.gen
    /\ pc = "openVerify" => Manifest.gen <= AnchorLoad.committed
    /\ pc \in Session =>
          /\ st.gen <= AnchorLoad.committed /\ AnchorLoad.committed <= st.gen + 1
          /\ AnchorLoad.floor <= st.gen
    /\ pc \in {"create", "createAnchor"} =>
          AnchorLoad.committed = 0 /\ AnchorLoad.floor = 0

\* Nobody replaces the files, and the database was created with a root.
Untouched == ~Restores /\ "legacy" \notin Starts

\* How the manifest slots, the anchor and DbState agree in that case.
LadderInv ==
    /\ Untouched /\ snap = {}
    /\ ManifestParity
    /\ AnchorLoad.committed <= Manifest.gen
    /\ token <= Manifest.gen
    /\ \A s \in 0 .. 1 : mani[s].root = ZeroRoot => mani[s].len = {}
    /\ pc # "migrate"
    /\ pc = "create" => Manifest.gen = 0
    /\ pc = "createAnchor" => Manifest.gen = 1
    /\ pc \in Session \ {"bar3"} => st.gen = Manifest.gen
    /\ pc = "bar3" => Manifest.gen = st.gen + 1

-----------------------------------------------------------------------------
(* The double-buffered records.                                            *)

\* What anchor_load returns after anchor_record.
LEMMA Recorded ==
    ASSUME TypeOK, AnchorParity, NEW c \in Nat, NEW i \in Nat, NEW f \in Nat,
           AnchorRecord(c, i, f)
    PROVE  /\ AnchorParity'
           /\ AnchorLoad' = [seq |-> AnchorLoad.seq + 1,
                             committed |-> Larger(AnchorLoad.committed, c),
                             inflight  |-> Larger(AnchorLoad.inflight, i),
                             floor     |-> Larger(AnchorLoad.floor, f)]
<1> DEFINE r == [seq |-> AnchorLoad.seq + 1,
                 committed |-> Larger(AnchorLoad.committed, c),
                 inflight  |-> Larger(AnchorLoad.inflight, i),
                 floor     |-> Larger(AnchorLoad.floor, f)]
<1>1. /\ AnchorLoad.seq \in Nat
      /\ \A s \in 0 .. 1 : anchor[s].seq \in Nat /\ anchor[s].seq <= AnchorLoad.seq
  BY DEF AnchorLoad, TypeOK, Anchors
<1>2. AnchorSlot \in 0 .. 1 /\ r.seq % 2 = AnchorSlot /\ r.seq = AnchorLoad.seq + 1
  BY <1>1 DEF AnchorSlot
<1>3. anchor' = [anchor EXCEPT ![AnchorSlot] = r]
  BY DEF AnchorRecord
<1> HIDE DEF r
<1>4. \A s \in 0 .. 1 : anchor'[s] = IF s = AnchorSlot THEN r ELSE anchor[s]
  BY <1>2, <1>3 DEF TypeOK
<1>5. AnchorParity'
  BY <1>2, <1>4 DEF AnchorParity
<1>6. AnchorLoad' = r
  BY <1>1, <1>2, <1>4 DEF AnchorLoad
<1> QED BY <1>5, <1>6 DEF r

\* A torn anchor_save leaves what anchor_load returns as it was.
LEMMA TornAnchor ==
    ASSUME TypeOK, AnchorParity, anchor' = [anchor EXCEPT ![AnchorSlot] = NoAnchor]
    PROVE  AnchorParity' /\ AnchorLoad' = AnchorLoad
<1>1. /\ AnchorLoad.seq \in Nat
      /\ \A s \in 0 .. 1 : anchor[s].seq \in Nat /\ anchor[s].seq <= AnchorLoad.seq
  BY DEF AnchorLoad, TypeOK, Anchors
<1>2. AnchorSlot \in 0 .. 1 /\ AnchorSlot = (AnchorLoad.seq + 1) % 2
  BY <1>1 DEF AnchorSlot
<1>3. \A s \in 0 .. 1 : anchor'[s] = IF s = AnchorSlot THEN NoAnchor ELSE anchor[s]
  BY <1>2 DEF TypeOK
<1>4. AnchorParity'
  BY <1>3 DEF AnchorParity, NoAnchor
<1>5. CASE AnchorSlot = 1
  BY <1>1, <1>2, <1>3, <1>5 DEF AnchorLoad, AnchorParity, NoAnchor
<1>6. CASE AnchorSlot = 0
  BY <1>1, <1>2, <1>3, <1>6 DEF AnchorLoad, AnchorParity, NoAnchor
<1> QED BY <1>2, <1>4, <1>5, <1>6

LEMMA RecordedFields ==
    ASSUME TypeOK, AnchorParity, NEW c \in Nat, NEW i \in Nat, NEW f \in Nat,
           AnchorRecord(c, i, f)
    PROVE  /\ AnchorParity'
           /\ AnchorLoad'.committed = Larger(AnchorLoad.committed, c)
           /\ AnchorLoad'.floor = Larger(AnchorLoad.floor, f)
BY Recorded

LEMMA UnchangedAnchor ==
    ASSUME UNCHANGED anchor
    PROVE  AnchorLoad' = AnchorLoad /\ (AnchorParity => AnchorParity')
BY DEF AnchorLoad, AnchorParity

LEMMA UnchangedManifest ==
    ASSUME UNCHANGED mani
    PROVE  Manifest' = Manifest /\ (ManifestParity => ManifestParity')
BY DEF Manifest, ManifestParity

-----------------------------------------------------------------------------
(* The anchor moves forward.                                               *)

\* The steps that leave the anchor alone.
Quiet == \/ OpenRead \/ CreateManifest \/ OpenVerify \/ SealRootMigration \/ Attach
         \/ Begin \/ JournalPages \/ JournalMagic \/ JournalFlush
         \/ WriteMain \/ Commit \/ Rollback \/ SyncMain \/ SealManifest \/ ZeroHeader
         \/ ZeroSync \/ TruncateMain \/ Close \/ Retry \/ ExportEpoch \/ ApplyEpoch
         \/ Snapshot \/ Restore \/ UNCHANGED vars

LEMMA QuietAnchor == Quiet => UNCHANGED anchor
BY DEF Quiet, OpenRead, CreateManifest, OpenVerify, SealRootMigration, Attach,
    Begin, JournalPages, JournalMagic, JournalFlush, WriteMain, Commit,
    Rollback, SyncMain, SealManifest, ZeroHeader, ZeroSync, ZeroSyncTo, TruncateMain,
    Close, Retry, ExportEpoch, ApplyEpoch, Snapshot, Restore, vars

LEMMA StepKinds ==
    [Next]_vars => \/ Quiet \/ OpenFresh \/ CreateAnchor \/ OpenAnchor
                   \/ RecordInFlight \/ RecordCommitted \/ SaveFloor \/ Crash
BY DEF Next, OpenStep, BarrierStep, TxStep, Environment, Quiet

\* anchor_record keeps the maximum of every field.
LEMMA RecordedForward ==
    ASSUME TypeOK, AnchorParity, NEW c \in Nat, NEW i \in Nat, NEW f \in Nat,
           AnchorRecord(c, i, f)
    PROVE  /\ AnchorLoad'.committed >= AnchorLoad.committed
           /\ AnchorLoad'.inflight >= AnchorLoad.inflight
           /\ AnchorLoad'.floor >= AnchorLoad.floor
<1>1. AnchorLoad \in Anchors
  BY LoadTypes
<1> QED BY <1>1, Recorded DEF Larger, Anchors

LEMMA CrashAnchor ==
    ASSUME TypeOK, AnchorParity, Crash
    PROVE  AnchorParity' /\ AnchorLoad' = AnchorLoad
BY TornAnchor, UnchangedAnchor DEF Crash

LEMMA FreshAnchor ==
    ASSUME TypeOK, AnchorParity, OpenFresh
    PROVE  AnchorParity' /\ AnchorLoad'.committed = 0 /\ AnchorLoad'.floor = 0
<1>1. anchor' = [s \in 0 .. 1 |-> [NoAnchor EXCEPT !.seq = anchor[s].seq]]
  BY DEF OpenFresh
<1>2. \A s \in 0 .. 1 : /\ anchor'[s].seq = anchor[s].seq
                        /\ anchor'[s].committed = 0 /\ anchor'[s].floor = 0
  BY <1>1 DEF NoAnchor
<1> QED BY <1>2 DEF AnchorParity, AnchorLoad

LEMMA ForwardStep ==
    ASSUME TypeOK, AnchorParity, [Next]_vars
    PROVE  /\ AnchorParity'
           /\ pc' # "create" =>
                 /\ AnchorLoad'.committed >= AnchorLoad.committed
                 /\ AnchorLoad'.inflight >= AnchorLoad.inflight
                 /\ AnchorLoad'.floor >= AnchorLoad.floor
<1>1. AnchorLoad \in Anchors /\ Manifest \in Manifests
  BY LoadTypes
<1>2. CASE Quiet \/ Crash
  <2>1. AnchorParity' /\ AnchorLoad' = AnchorLoad
    BY <1>2, QuietAnchor, UnchangedAnchor, CrashAnchor
  <2> QED BY <1>1, <2>1 DEF Anchors
<1>3. CASE OpenFresh
  BY <1>3, FreshAnchor DEF OpenFresh, Goto
<1>4. CASE CreateAnchor
  BY <1>4, Recorded, RecordedForward DEF CreateAnchor
<1>5. CASE OpenAnchor
  BY <1>1, <1>5, Recorded, RecordedForward DEF OpenAnchor, Manifests
<1>6. CASE RecordInFlight
  BY <1>6, Recorded, RecordedForward DEF RecordInFlight, TypeOK
<1>7. CASE RecordCommitted
  BY <1>7, Recorded, RecordedForward DEF RecordCommitted, TypeOK
<1>8. CASE SaveFloor
  BY <1>8, Recorded, RecordedForward DEF SaveFloor, TypeOK
<1> QED BY <1>2, <1>3, <1>4, <1>5, <1>6, <1>7, <1>8, StepKinds

LEMMA ParityInit == Init => AnchorParity
<1> SUFFICES ASSUME Init PROVE AnchorParity
  OBVIOUS
<1>1. \A s \in 0 .. 1 : anchor[s].seq \in {0, 2 + s}
  BY DEF Init, StartFiles, NewDisk, NoAnchor
<1>2. \A s \in 0 .. 1 : (2 + s) % 2 = s
  OBVIOUS
<1> QED BY <1>1, <1>2 DEF AnchorParity

\* anchor_record's "values only move forward" survives ping-pong writes, torn
\* slots and restarts, and holds of what anchor_load returns.
THEOREM AnchorMovesForward == Spec => AnchorForward
<1>1. TypeOK /\ AnchorParity /\ [Next]_vars => AnchorParity'
  BY ForwardStep
<1>2. TypeOK /\ AnchorParity /\ [Next]_vars =>
        [pc' # "create" =>
          /\ AnchorLoad'.committed >= AnchorLoad.committed
          /\ AnchorLoad'.inflight >= AnchorLoad.inflight
          /\ AnchorLoad'.floor >= AnchorLoad.floor]_vars
  BY ForwardStep
<1> QED BY <1>1, <1>2, ParityInit, TypeCorrect, PTL DEF Spec, AnchorForward

-----------------------------------------------------------------------------
(* How stale a served database can be.                                     *)

LEMMA StaleInit == Init => StaleInv
<1> SUFFICES ASSUME Init PROVE StaleInv
  OBVIOUS
<1>1. ackGen <= AnchorLoad.committed /\ AnchorLoad.floor = 0
  BY DEF Init, StartFiles, NewDisk, AnchorLoad, NoAnchor
<1> QED BY <1>1, ParityInit DEF Init, StaleInv, Session

\* The quiet steps that keep DbState and its manifest, and the moves of pc
\* they make.
LEMMA StaleQuiet ==
    ASSUME TypeOK, StaleInv, Quiet
    PROVE  StaleInv'
<1>1. AnchorLoad \in Anchors /\ Manifest \in Manifests
  BY LoadTypes
<1>2. AnchorParity' /\ AnchorLoad' = AnchorLoad
  BY QuietAnchor, UnchangedAnchor DEF StaleInv
<1>3. ASSUME UNCHANGED <<mani, st, ackGen, epochSeen>>,
             \/ pc' = pc
             \/ pc \in Session \cup {"closed", "refused", "ioerr"}
                /\ pc' \in {"closed", "refused", "ioerr", "epoch1"}
             \/ pc \in Session /\ pc' \in Session
      PROVE  StaleInv'
  BY <1>2, <1>3, UnchangedManifest DEF StaleInv, Session
<1>4. CASE OpenRead
  <2>1. Manifest' = Manifest /\ UNCHANGED <<ackGen, epochSeen, st>>
    BY <1>4, UnchangedManifest DEF OpenRead, hist
  <2>2. CASE Manifest.gen > 0 /\ Fresh(Manifest.gen)
    BY <1>1, <1>2, <1>4, <2>1, <2>2 DEF OpenRead, Goto, Fresh, StaleInv, Session, Manifests, Anchors
  <2>3. CASE ~(Manifest.gen > 0 /\ Fresh(Manifest.gen))
    BY <1>2, <1>4, <2>1, <2>3 DEF OpenRead, Goto, StaleInv, Session
  <2> QED BY <2>2, <2>3
<1>5. CASE CreateManifest
  BY <1>2, <1>5 DEF CreateManifest, Goto, StaleInv, Session, hist
<1>6. CASE OpenVerify
  <2>1. Manifest' = Manifest /\ UNCHANGED <<ackGen, epochSeen>>
    BY <1>6, UnchangedManifest DEF OpenVerify, hist
  <2> QED BY <1>1, <1>2, <1>6, <2>1 DEF OpenVerify, Goto, StaleInv, Session, Manifests, Anchors
<1>7. CASE SealRootMigration
  BY <1>2, <1>7 DEF SealRootMigration, Goto, StaleInv, Session, hist, TypeOK
<1>8. CASE SealManifest
  BY <1>2, <1>8 DEF SealManifest, Goto, StaleInv, Session, hist
<1>9. CASE ZeroSync \/ TruncateMain
  <2>1. /\ UNCHANGED <<mani, st>> /\ epochSeen' = epochSeen
        /\ ackGen' \in {ackGen, Larger(ackGen, st.gen)}
        /\ pc \in Session /\ pc' \in Session
    BY <1>9 DEF ZeroSync, ZeroSyncTo, TruncateMain, Acknowledge, Goto, Session, hist
  <2> QED BY <1>1, <1>2, <2>1 DEF StaleInv, Larger, Session, TypeOK, Anchors
<1>10. CASE Restore
  BY <1>2, <1>10 DEF Restore, StaleInv, Session, hist
<1>11. CASE Attach
  BY <1>3, <1>11 DEF Attach, Goto, Session, hist
<1>12. CASE SyncMain \/ ZeroHeader
  BY <1>3, <1>12 DEF SyncMain, ZeroHeader, Goto, Session, hist
<1>13. CASE Begin \/ Commit \/ Rollback
  BY <1>3, <1>13 DEF Begin, Commit, Rollback, Goto, Session, hist
<1>14. CASE JournalPages \/ JournalMagic \/ JournalFlush \/ WriteMain
  BY <1>3, <1>14 DEF JournalPages, JournalMagic, JournalFlush, WriteMain, hist
<1>15. CASE Close \/ Retry \/ ApplyEpoch
  BY <1>3, <1>15 DEF Close, Retry, ApplyEpoch, Goto, Session, hist
<1>16. CASE ExportEpoch \/ Snapshot \/ UNCHANGED vars
  BY <1>3, <1>16 DEF ExportEpoch, Snapshot, vars, hist
<1> QED BY <1>4, <1>5, <1>6, <1>7, <1>8, <1>9, <1>10, <1>11, <1>12, <1>13, <1>14,
           <1>15, <1>16 DEF Quiet

LEMMA StaleStep == TypeOK /\ StaleInv /\ [Next]_vars => StaleInv'
<1> SUFFICES ASSUME TypeOK, StaleInv, [Next]_vars PROVE StaleInv'
  OBVIOUS
<1>1. AnchorLoad \in Anchors /\ Manifest \in Manifests /\ AnchorParity
  BY LoadTypes DEF StaleInv
<1>2. CASE Quiet
  BY <1>2, StaleQuiet
<1>3. CASE OpenFresh
  BY <1>1, <1>3, FreshAnchor DEF OpenFresh, Goto, StaleInv, Session
<1>4. CASE CreateAnchor
  <2>1. AnchorParity' /\ AnchorLoad'.committed = Larger(AnchorLoad.committed, 1)
        /\ AnchorLoad'.floor = Larger(AnchorLoad.floor, 0)
    <3>1. AnchorRecord(1, 1, 0)
      BY <1>4 DEF CreateAnchor
    <3> QED BY <1>1, <3>1, RecordedFields
  <2> QED BY <1>1, <1>4, <2>1 DEF CreateAnchor, Goto, StaleInv, Session, Larger, hist, Anchors, TypeOK
<1>5. CASE OpenAnchor
  <2>1. AnchorParity' /\ AnchorLoad'.committed = Larger(AnchorLoad.committed, Manifest.gen)
        /\ AnchorLoad'.floor = Larger(AnchorLoad.floor, 0)
    BY <1>1, <1>5, RecordedFields DEF OpenAnchor, Manifests
  <2>2. Manifest' = Manifest
    BY <1>5, UnchangedManifest DEF OpenAnchor
  <2> QED BY <1>1, <1>5, <2>1, <2>2 DEF OpenAnchor, Goto, StaleInv, Session, Larger, hist, Anchors, Manifests, TypeOK
<1>6. CASE RecordInFlight
  <2>1. AnchorParity' /\ AnchorLoad'.committed = Larger(AnchorLoad.committed, 0)
        /\ AnchorLoad'.floor = Larger(AnchorLoad.floor, 0)
    <3>1. AnchorRecord(0, st.gen + 1, 0) /\ st.gen + 1 \in Nat
      BY <1>6 DEF RecordInFlight, TypeOK
    <3> QED BY <1>1, <3>1, RecordedFields
  <2> QED BY <1>1, <1>6, <2>1 DEF RecordInFlight, Goto, StaleInv, Session, Larger, hist, Anchors, TypeOK
<1>7. CASE RecordCommitted
  <2>1. AnchorParity' /\ AnchorLoad'.committed = Larger(AnchorLoad.committed, st.gen + 1)
        /\ AnchorLoad'.floor = Larger(AnchorLoad.floor, 0)
    <3>1. AnchorRecord(st.gen + 1, st.gen + 1, 0) /\ st.gen + 1 \in Nat
      BY <1>7 DEF RecordCommitted, TypeOK
    <3> QED BY <1>1, <3>1, RecordedFields
  <2> QED BY <1>1, <1>7, <2>1 DEF RecordCommitted, Goto, StaleInv, Session, Larger, hist, Anchors, TypeOK
<1>8. CASE SaveFloor
  <2>1. AnchorParity' /\ AnchorLoad'.committed = Larger(AnchorLoad.committed, token)
        /\ AnchorLoad'.floor = Larger(AnchorLoad.floor, token)
    BY <1>1, <1>8, RecordedFields DEF SaveFloor, TypeOK
  <2> QED BY <1>1, <1>8, <2>1 DEF SaveFloor, Goto, StaleInv, Session, Larger, Anchors, TypeOK
<1>9. CASE Crash
  BY <1>1, <1>9, CrashAnchor DEF Crash, Goto, StaleInv, Session, hist
<1> QED BY <1>2, <1>3, <1>4, <1>5, <1>6, <1>7, <1>8, <1>9, StepKinds

LEMMA StaleInvariant == Spec => []StaleInv
BY StaleInit, StaleStep, TypeCorrect, PTL DEF Spec

\* Whatever copy of the files is put back, the database that open_main_db
\* admits is at most one generation behind the newest acknowledged commit.
THEOREM RollbackIsBounded == Spec => []RollbackBound
<1>1. TypeOK /\ StaleInv => RollbackBound
  <2> SUFFICES ASSUME TypeOK, StaleInv PROVE RollbackBound
    OBVIOUS
  <2>1. AnchorLoad \in Anchors
    BY LoadTypes
  <2> QED BY <2>1 DEF StaleInv, RollbackBound, Session, TypeOK, Anchors
<1> QED BY <1>1, TypeCorrect, StaleInvariant, PTL

\* Once apply_epoch has returned, no open admits a generation below the
\* attested one, with no slack.
THEOREM EpochIsStrict == Spec => []EpochStrict
<1>1. TypeOK /\ StaleInv => EpochStrict
  <2> SUFFICES ASSUME TypeOK, StaleInv PROVE EpochStrict
    OBVIOUS
  <2>1. AnchorLoad \in Anchors
    BY LoadTypes
  <2> QED BY <2>1 DEF StaleInv, EpochStrict, Session, TypeOK, Anchors
<1> QED BY <1>1, TypeCorrect, StaleInvariant, PTL

-----------------------------------------------------------------------------
(* The generation ladder.                                                  *)

LEMMA SlotBounds ==
    ASSUME TypeOK
    PROVE  /\ Manifest.gen \in Nat
           /\ \A s \in 0 .. 1 : mani[s].gen \in Nat /\ mani[s].gen <= Manifest.gen
BY DEF Manifest, TypeOK, Manifests

\* The slot of the next generation is not the slot in force.
LEMMA NextSlot ==
    ASSUME TypeOK, ManifestParity, NEW p \in Manifests,
           mani' = [mani EXCEPT ![(Manifest.gen + 1) % 2] = p]
    PROVE  /\ p.gen = Manifest.gen + 1 => Manifest' = p /\ ManifestParity'
           /\ p = NoManifest => Manifest' = Manifest /\ ManifestParity'
<1> DEFINE k == (Manifest.gen + 1) % 2
<1>1. k \in 0 .. 1
  BY SlotBounds
<1>2. \A s \in 0 .. 1 : mani'[s] = IF s = k THEN p ELSE mani[s]
  BY <1>1 DEF TypeOK
<1>3. ASSUME p.gen = Manifest.gen + 1 PROVE Manifest' = p /\ ManifestParity'
  BY <1>1, <1>2, <1>3, SlotBounds DEF Manifest, ManifestParity
<1>4. ASSUME p = NoManifest PROVE Manifest' = Manifest /\ ManifestParity'
  <2>1. p.gen = 0
    BY <1>4 DEF NoManifest
  <2>2. CASE k = 1
    BY <1>2, <2>1, <2>2, SlotBounds DEF Manifest, ManifestParity
  <2>3. CASE k = 0
    BY <1>2, <2>1, <2>3, SlotBounds DEF Manifest, ManifestParity
  <2> QED BY <1>1, <2>2, <2>3
<1> QED BY <1>3, <1>4

LEMMA LadderInit == Untouched /\ Init => LadderInv
<1> SUFFICES ASSUME Untouched, Init PROVE LadderInv
  OBVIOUS
<1>1. CASE NewDisk
  BY <1>1 DEF Init, NewDisk, LadderInv, Untouched, Session, ManifestParity, Manifest, NoManifest,
      AnchorLoad, NoAnchor
<1>2. CASE \E n \in Blocks : StartFiles(StartImage(n), StartImage(n))
  <2>1. PICK n \in Blocks : StartFiles(StartImage(n), StartImage(n))
    BY <1>2
  <2>2. mani[0].gen = 2 /\ mani[1].gen = 1 /\ mani[0].root # ZeroRoot /\ mani[1].len = {}
    BY <2>1, SlotTypes, ZeroRootAssumption DEF StartFiles, NoManifest
  <2>3. AnchorLoad.committed = 2
    BY <2>1 DEF StartFiles, AnchorLoad
  <2> QED BY <1>2, <2>2, <2>3 DEF Init, LadderInv, Untouched, Session, ManifestParity, Manifest
<1> QED BY <1>1, <1>2 DEF Init, Untouched

LEMMA LadderQuiet ==
    ASSUME TypeOK, StaleInv, LadderInv, Quiet
    PROVE  LadderInv'
<1>1. AnchorLoad \in Anchors /\ Manifest \in Manifests
  BY LoadTypes
<1>2. AnchorLoad' = AnchorLoad
  BY QuietAnchor, UnchangedAnchor DEF StaleInv
<1>3. ASSUME UNCHANGED <<mani, st, token, snap>>,
             \/ pc' = pc
             \/ pc' \in {"closed", "refused", "ioerr", "epoch1", "openAnchor"}
             \/ pc \in Session \ {"bar3"} /\ pc' \in Session \ {"bar3", "migrate"}
      PROVE  LadderInv'
  BY <1>2, <1>3, UnchangedManifest DEF LadderInv, Untouched, Session
<1>4. CASE OpenRead
  BY <1>3, <1>4 DEF OpenRead, Goto, env
<1>5. CASE CreateManifest
  <2>1. mani'[0] = NoManifest /\ mani'[1] = [NoManifest EXCEPT !.gen = 1]
    BY <1>5 DEF CreateManifest
  <2>2. Manifest'.gen = 1 /\ ManifestParity' /\ \A s \in 0 .. 1 : mani'[s].len = {}
    BY <2>1 DEF Manifest, ManifestParity, NoManifest
  <2> QED BY <1>1, <1>2, <1>5, <2>2 DEF CreateManifest, Goto, LadderInv, Untouched, Session, env, TypeOK, Anchors
<1>6. CASE OpenVerify
  <2>1. Manifest' = Manifest /\ ManifestParity' /\ UNCHANGED <<mani, token, snap>>
    BY <1>6, UnchangedManifest DEF OpenVerify, env, LadderInv
  <2>2. pc' # "migrate"
    <3> SUFFICES ASSUME pc' = "migrate" PROVE FALSE
      OBVIOUS
    <3>1. StructureOk(Manifest) /\ Manifest.root = ZeroRoot /\ ~Empty(main) /\ ~Hot(jrnl)
      BY <1>6 DEF OpenVerify, Goto
    <3>2. Manifest.len = {}
      BY <3>1 DEF Manifest, LadderInv
    <3> QED BY <3>1, <3>2 DEF StructureOk, Empty
  <2>3. pc' \in {"attach", "refused"} /\ (pc' = "attach" => st'.gen = Manifest.gen)
    BY <1>6, <2>2 DEF OpenVerify, Goto
  <2> QED BY <1>2, <2>1, <2>3 DEF LadderInv, Untouched, Session
<1>7. CASE SealManifest
  <2>1. CASE Authentic(main)
    <3> DEFINE p == [gen |-> st.gen + 1, root |-> main,
                     prev |-> st.root, len |-> Present(main)]
    <3>1. /\ p \in Manifests /\ p.root # ZeroRoot
          /\ st.gen = Manifest.gen /\ p.gen = st.gen + 1
      BY <1>7, ImageTypes, ZeroRootAssumption DEF SealManifest, LadderInv, Session, TypeOK, Manifests, Roots
    <3>2. mani' = [mani EXCEPT ![(Manifest.gen + 1) % 2] = p]
      BY <1>7, <2>1, <3>1 DEF SealManifest, WriteManifest
    <3> HIDE DEF p
    <3>3. Manifest' = p /\ ManifestParity'
      BY <3>1, <3>2, NextSlot DEF LadderInv
    <3>4. \A s \in 0 .. 1 : mani'[s].root = ZeroRoot => mani'[s].len = {}
      BY <3>1, <3>2 DEF LadderInv, TypeOK
    <3>5. pc' = "bar3" /\ UNCHANGED <<st, token, snap>>
      BY <1>7, <2>1 DEF SealManifest, Goto, env
    <3> QED BY <1>1, <1>2, <3>1, <3>3, <3>4, <3>5
            DEF LadderInv, Untouched, Session, TypeOK, Anchors, Manifests
  <2>2. CASE ~Authentic(main)
    BY <1>3, <1>7, <2>2 DEF SealManifest, Goto, env
  <2> QED BY <2>1, <2>2
<1>8. CASE SealRootMigration \/ Snapshot \/ Restore
  BY <1>8 DEF SealRootMigration, Snapshot, Restore, LadderInv, Untouched
<1>9. CASE Attach
  BY <1>3, <1>9 DEF Attach, Goto, Session, env
<1>10. CASE SyncMain \/ ZeroHeader \/ ZeroSync \/ TruncateMain
  BY <1>3, <1>10 DEF SyncMain, ZeroHeader, ZeroSync, ZeroSyncTo, TruncateMain,
      Acknowledge, Goto, Session, env
<1>11. CASE Begin \/ Commit \/ Rollback
  BY <1>3, <1>11 DEF Begin, Commit, Rollback, Goto, Session, env
<1>12. CASE JournalPages \/ JournalMagic \/ JournalFlush \/ WriteMain \/ UNCHANGED vars
  BY <1>3, <1>12 DEF JournalPages, JournalMagic, JournalFlush, WriteMain, vars, env
<1>13. CASE Close \/ Retry \/ ApplyEpoch
  BY <1>3, <1>13 DEF Close, Retry, ApplyEpoch, Goto
<1>14. CASE ExportEpoch
  BY <1>1, <1>2, <1>14, UnchangedManifest DEF ExportEpoch, LadderInv, Untouched, Session, Manifests
<1> QED BY <1>4, <1>5, <1>6, <1>7, <1>8, <1>9, <1>10, <1>11, <1>12, <1>13, <1>14 DEF Quiet

\* Power loss never lowers the generation in force: a torn slot write hits the
\* other slot.
LEMMA LadderCrash ==
    ASSUME TypeOK, StaleInv, LadderInv, Crash
    PROVE  LadderInv'
<1>1. AnchorLoad' = AnchorLoad
  BY CrashAnchor DEF StaleInv
<1>2. Manifest'.gen = Manifest.gen /\ ManifestParity'
  <2>1. CASE UNCHANGED mani
    BY <2>1, UnchangedManifest DEF LadderInv
  <2>2. CASE pc = "bar2" /\ mani' = [mani EXCEPT ![ManifestSlot] = NoManifest]
    <3>1. mani' = [mani EXCEPT ![(Manifest.gen + 1) % 2] = NoManifest]
      BY <2>2 DEF ManifestSlot, LadderInv, Session
    <3> QED BY <3>1, NextSlot, SlotTypes DEF LadderInv
  <2>3. CASE pc = "create" /\ mani' = [mani EXCEPT ![ManifestSlot] = NoManifest]
    <3>1. mani' = [mani EXCEPT ![(Manifest.gen + 1) % 2] = NoManifest]
      <4>1. ManifestSlot = 1
        BY <2>3 DEF ManifestSlot
      <4>2. (Manifest.gen + 1) % 2 = 1
        BY <2>3 DEF LadderInv
      <4> QED BY <2>3, <4>1, <4>2
    <3> QED BY <3>1, NextSlot, SlotTypes DEF LadderInv
  <2> QED BY <2>1, <2>2, <2>3 DEF Crash, ManifestWrites, LadderInv
<1>3. \A s \in 0 .. 1 : mani'[s].root = ZeroRoot => mani'[s].len = {}
  <2>1. \A s \in 0 .. 1 : mani'[s] \in {mani[s], NoManifest}
    BY DEF Crash, TypeOK
  <2> QED BY <2>1 DEF LadderInv, NoManifest
<1> QED BY <1>1, <1>2, <1>3 DEF Crash, Goto, LadderInv, Untouched, Session

LEMMA LadderStep == TypeOK /\ StaleInv /\ LadderInv /\ [Next]_vars => LadderInv'
<1> SUFFICES ASSUME TypeOK, StaleInv, LadderInv, [Next]_vars PROVE LadderInv'
  OBVIOUS
<1>1. AnchorLoad \in Anchors /\ Manifest \in Manifests /\ AnchorParity
  BY LoadTypes DEF StaleInv
<1>2. CASE Quiet \/ Crash
  BY <1>2, LadderQuiet, LadderCrash
<1>3. CASE OpenFresh
  <2>1. AnchorLoad'.committed = 0 /\ Manifest' = Manifest /\ ManifestParity'
    BY <1>1, <1>3, FreshAnchor, UnchangedManifest DEF OpenFresh, LadderInv
  <2> QED BY <1>1, <1>3, <2>1 DEF OpenFresh, Goto, LadderInv, Untouched, Session, Manifests
<1>4. ASSUME NEW c \in Nat, NEW i \in Nat, NEW f \in Nat, AnchorRecord(c, i, f),
             c <= Manifest.gen, UNCHANGED <<mani, snap, token>>
      PROVE  /\ AnchorLoad'.committed <= Manifest'.gen
             /\ token' <= Manifest'.gen
             /\ Manifest' = Manifest /\ ManifestParity'
  <2>1. AnchorLoad'.committed = Larger(AnchorLoad.committed, c)
    BY <1>1, <1>4, RecordedFields
  <2> QED BY <1>4, <2>1, UnchangedManifest DEF LadderInv, Larger
<1>5. CASE CreateAnchor
  <2>1. AnchorRecord(1, 1, 0) /\ Manifest.gen = 1 /\ UNCHANGED <<mani, snap, token>>
    BY <1>5 DEF CreateAnchor, LadderInv, env
  <2>2. /\ AnchorLoad'.committed <= Manifest'.gen /\ token' <= Manifest'.gen
        /\ Manifest' = Manifest /\ ManifestParity'
    BY <1>4, <2>1
  <2> QED BY <1>5, <2>1, <2>2 DEF CreateAnchor, Goto, LadderInv, Untouched, Session
<1>6. CASE OpenAnchor
  <2>1. /\ AnchorRecord(Manifest.gen, Manifest.gen, 0) /\ Manifest.gen \in Nat
        /\ Manifest.gen <= Manifest.gen /\ UNCHANGED <<mani, snap, token>>
    BY <1>1, <1>6 DEF OpenAnchor, Manifests, env
  <2>2. /\ AnchorLoad'.committed <= Manifest'.gen /\ token' <= Manifest'.gen
        /\ Manifest' = Manifest /\ ManifestParity'
    BY <1>4, <2>1
  <2> QED BY <1>6, <2>1, <2>2 DEF OpenAnchor, Goto, LadderInv, Untouched, Session
<1>7. CASE RecordInFlight
  <2>1. /\ AnchorRecord(0, st.gen + 1, 0) /\ st.gen + 1 \in Nat
        /\ 0 <= Manifest.gen /\ UNCHANGED <<mani, snap, token>>
    BY <1>1, <1>7 DEF RecordInFlight, TypeOK, env, Manifests
  <2>2. /\ AnchorLoad'.committed <= Manifest'.gen /\ token' <= Manifest'.gen
        /\ Manifest' = Manifest /\ ManifestParity'
    BY <1>4, <2>1
  <2> QED BY <1>7, <2>1, <2>2 DEF RecordInFlight, Goto, LadderInv, Untouched, Session
<1>8. CASE RecordCommitted
  <2>1. /\ AnchorRecord(st.gen + 1, st.gen + 1, 0) /\ st.gen + 1 \in Nat
        /\ st.gen + 1 <= Manifest.gen /\ UNCHANGED <<mani, snap, token>>
    BY <1>1, <1>8 DEF RecordCommitted, TypeOK, env, Manifests, LadderInv
  <2>2. /\ AnchorLoad'.committed <= Manifest'.gen /\ token' <= Manifest'.gen
        /\ Manifest' = Manifest /\ ManifestParity'
    BY <1>4, <2>1
  <2> QED BY <1>8, <2>1, <2>2 DEF RecordCommitted, Goto, LadderInv, Untouched, Session
<1>9. CASE SaveFloor
  <2>1. /\ AnchorRecord(token, token, token) /\ token \in Nat
        /\ token <= Manifest.gen /\ UNCHANGED <<mani, snap, token>>
    BY <1>9 DEF SaveFloor, TypeOK, env, LadderInv
  <2>2. /\ AnchorLoad'.committed <= Manifest'.gen /\ token' <= Manifest'.gen
        /\ Manifest' = Manifest /\ ManifestParity'
    BY <1>4, <2>1
  <2> QED BY <1>9, <2>1, <2>2 DEF SaveFloor, Goto, LadderInv, Untouched, Session
<1> QED BY <1>2, <1>3, <1>5, <1>6, <1>7, <1>8, <1>9, StepKinds

\* A database created with a root whose files nobody replaces: an acknowledged
\* generation is behind the committed mark, and the committed mark is never
\* ahead of the manifest, so a power loss is never taken for a rollback.
THEOREM LadderHolds == Untouched /\ Spec => []GenerationLadder
<1>1. StaleInv /\ LadderInv => GenerationLadder
  BY DEF StaleInv, LadderInv, GenerationLadder
<1> QED BY <1>1, LadderInit, LadderStep, TypeCorrect, StaleInvariant, PTL DEF Spec

-----------------------------------------------------------------------------
(* What power loss leaves of the data itself: the journal, the main file and *)
(* the roots the manifest accepts.                                           *)

\* Nobody replaces the files behind the VFS.
Recovering == ~Restores

\* In addition no transaction shortens the file and power loss tears no block.
Plain == Recovering /\ ~Shrinks /\ ~Tears

-----------------------------------------------------------------------------
(* The inductive invariants.                                               *)

\* m serves img: every block of img is there; m may be longer.
Agrees(m, img) == \A b \in Present(img) : m[b] = img[b]

\* Some image an open may serve is contained in img.
Keeps(img) == \E old \in allowed : Agrees(img, old)

\* Playing j back gives j.pre, whichever of their unsynced blocks survive.
Undoes(j) == \A b \in Present(j.pre) \ j.pages :
                main[b] = j.pre[b] /\ diskMain[b] = j.pre[b]

\* What the next open finds if j is the journal that survives.
Safe(j) ==
    /\ Hot(j) => Undoes(j) /\ Keeps(j.pre)
    /\ ~Hot(j) => \E old \in allowed : Agrees(main, old) /\ Agrees(diskMain, old)

\* Where the journal is not in use.
Resting == {"closed", "create", "createAnchor", "openAnchor", "openVerify", "migrate",
            "attach", "refused", "ioerr", "epoch1", "epoch2"}

\* From the end of a transaction to its acknowledgement, and the barrier that
\* precedes one begun over a hot journal.
Finishing == {"syncMain", "bar1", "bar2", "bar3", "zero", "zeroSync"}

\* The file and its journal while pages are written, and while they are sealed.
WritingInv ==
    /\ pc = "tx" =>
          /\ Keeps(jrnl.pre)
          /\ ~Hot(diskJrnl) => main = jrnl.pre /\ Agrees(diskMain, main)
          /\ Hot(diskJrnl) => Hot(jrnl) /\ diskJrnl.pages \subseteq jrnl.pages
    /\ pc \in Finishing /\ why = "commit" =>
          /\ tx \in allowed /\ Agrees(main, tx)
          /\ pc # "zeroSync" => jrnl = diskJrnl
    /\ pc \in Finishing /\ why = "rollback" =>
          main = jrnl.pre /\ Keeps(jrnl.pre)
    /\ pc \in Finishing \ {"syncMain"} /\ why # "begin" => diskMain = main
    /\ pc \in Finishing /\ Hot(diskJrnl) =>
          diskJrnl.pre = jrnl.pre /\ (pc # "zeroSync" => Hot(jrnl))
    /\ pc = "shrink" =>
          /\ why = "commit" /\ tx \in allowed /\ Agrees(main, tx)
          /\ diskMain = main /\ ~Hot(jrnl) /\ ~Hot(diskJrnl)

JournalInv ==
    /\ Safe(jrnl) /\ Safe(diskJrnl)
    /\ Hot(jrnl) /\ Hot(diskJrnl) => jrnl.pre = diskJrnl.pre
    /\ Hot(jrnl) /\ ~Hot(diskJrnl) => main = jrnl.pre
    /\ pc \in Resting \cup {"idle"} /\ ~Hot(jrnl) => ~Hot(diskJrnl) /\ Agrees(diskMain, main)
    /\ pc = "zero" /\ why = "begin" =>
          ~Hot(jrnl) /\ ~Hot(diskJrnl) /\ Agrees(diskMain, main)
    /\ pc = "zeroSync" => ~Hot(jrnl)
    /\ pc \in {"bar1", "bar2", "bar3"} => Hot(jrnl)
    /\ pc \in Finishing \ {"zero"} => why # "begin"
    /\ WritingInv

\* The files of a database that only ever grows and is never torn.
PlainInv ==
    /\ Authentic(main) /\ Authentic(diskMain) /\ Authentic(tx)
    /\ Authentic(jrnl.pre) /\ Authentic(diskJrnl.pre)
    /\ pc # "shrink"
    /\ ~Hot(diskJrnl) => main = diskMain
    /\ pc = "tx" \/ (pc = "zero" /\ why = "begin") \/ (pc \in Finishing /\ why = "commit") =>
          Present(main) \subseteq Present(tx)

\* The roots in force.  A database that has committed once is never empty.
RootInv ==
    /\ pc \notin {"create", "createAnchor"}
    /\ main[1] # Absent /\ diskMain[1] # Absent
    /\ Hot(jrnl) \/ pc = "tx" => jrnl.pre[1] # Absent
    /\ Hot(diskJrnl) => diskJrnl.pre[1] # Absent
    /\ Manifest.gen > 0
    /\ Manifest.len = Present(Manifest.root)
    /\ Manifest.root \in Images
    /\ AnchorLoad.floor <= Manifest.gen
    /\ ~Hot(jrnl) \/ ~Hot(diskJrnl) \/ pc \in {"bar3", "zero", "zeroSync"} => main = Manifest.root
    /\ Hot(jrnl) => jrnl.pre \in Accepted(Manifest)
    /\ Hot(diskJrnl) => diskJrnl.pre \in Accepted(Manifest)
    /\ pc \in Session \ {"bar3"} => st.root = Manifest.root
    /\ pc = "tx" \/ (pc \in {"syncMain", "bar1", "bar2"} /\ why = "commit") =>
          jrnl.pre = Manifest.root

\* The manifest slots, whatever files were put back.
SlotInv ==
    /\ ManifestParity
    /\ \A c \in snap : \A s \in 0 .. 1 : c.mani[s].gen = 0 \/ c.mani[s].gen % 2 = s
    /\ pc \in {"openAnchor", "openVerify"} => Manifest.gen > 0
    /\ pc = "createAnchor" => Manifest.gen = 1
    /\ pc \in Session \ {"bar3"} => st.gen = Manifest.gen /\ st.gen > 0
    /\ pc = "bar3" => Manifest.gen = st.gen + 1

Rooted == Manifest.root # ZeroRoot \/ Empty(main)

\* Where data is served, or about to be, without a root, a hot journal is in
\* the way that a seal must precede.
RootedInv ==
    /\ pc \in {"create", "createAnchor"} => Empty(main)
    /\ pc \in Session \ {"migrate"} => Rooted \/ Hot(jrnl)
    /\ pc \in {"bar3", "zero", "zeroSync", "shrink"} => Rooted
    /\ pc \in {"bar1", "bar2"} => Hot(jrnl)
    /\ pc = "tx" => Manifest.root # ZeroRoot \/ Empty(jrnl.pre)

-----------------------------------------------------------------------------
(* Images and playback.                                                    *)

LEMMA AgreesCut ==
    ASSUME NEW m \in Images, NEW img \in Images
    PROVE  Agrees(m, img) <=> Cut(m, Present(img)) = img
<1>1. Cut(m, Present(img)) \in Images
  BY ImageTypes, SlotTypes
<1>2. ASSUME Agrees(m, img) PROVE Cut(m, Present(img)) = img
  <2>1. \A b \in Blocks : Cut(m, Present(img))[b] = img[b]
    BY <1>2 DEF Agrees, Cut, Present
  <2> QED BY <1>1, <2>1 DEF Images
<1>3. ASSUME Cut(m, Present(img)) = img PROVE Agrees(m, img)
  <2>1. \A b \in Present(img) : Cut(m, Present(img))[b] = m[b]
    BY DEF Cut, Present
  <2> QED BY <1>3, <2>1 DEF Agrees
<1> QED BY <1>2, <1>3

\* A journal that holds every block that differs restores its starting image.
LEMMA PlaybackRestores ==
    ASSUME NEW m \in Images, NEW j \in Journals,
           \A b \in Present(j.pre) \ j.pages : m[b] = j.pre[b]
    PROVE  SqlitePlayback(m, j) = j.pre
<1>1. SqlitePlayback(m, j) \in Images /\ j.pre \in Images
  BY ImageTypes DEF Journals
<1>2. \A b \in Blocks : SqlitePlayback(m, j)[b] = j.pre[b]
  BY DEF SqlitePlayback, Cut, PreImages, Present
<1> QED BY <1>1, <1>2 DEF Images

\* An image contained in one that is contained in a third.
LEMMA AgreesTrans ==
    ASSUME NEW m, NEW img, NEW old, Agrees(m, img), Agrees(img, old)
    PROVE  Agrees(m, old)
BY DEF Agrees, Present

LEMMA AgreesSelf == \A img : Agrees(img, img)
BY DEF Agrees

-----------------------------------------------------------------------------
(* Journal and main file.                                                  *)

LEMMA JournalInit == Init => JournalInv
<1> SUFFICES ASSUME Init PROVE JournalInv
  OBVIOUS
<1>1. ~Hot(jrnl) /\ ~Hot(diskJrnl) /\ pc = "closed"
  BY DEF Init, NoJournal, Hot
<1>2. \E old \in allowed : Agrees(main, old) /\ Agrees(diskMain, old)
  BY AgreesSelf DEF Init
<1>3. Agrees(diskMain, main)
  BY AgreesSelf DEF Init
<1> QED BY <1>1, <1>2, <1>3 DEF JournalInv, WritingInv, Safe, Hot, Resting, Finishing

\* The steps of an open and of the seal, which leave the files alone.
LEMMA JournalKept ==
    ASSUME JournalInv, UNCHANGED <<files, allowed>>,
           \/ pc \in Resting /\ pc' \in Resting
           \/ UNCHANGED <<pc, why, tx>>
           \/ UNCHANGED <<why, tx>> /\ pc \in {"bar1", "bar2", "bar3"} /\ why # "begin"
              /\ pc' \in {"bar2", "bar3", "zero"}
           \/ pc = "bar2" /\ pc' = "ioerr"
    PROVE  JournalInv'
<1>1. Safe(jrnl)' /\ Safe(diskJrnl)'
  BY DEF JournalInv, Safe, Undoes, Keeps, files
<1> QED BY <1>1 DEF JournalInv, WritingInv, Resting, Finishing, Keeps, files

\* The file is served as it was found, with its journal or without.
LEMMA JournalAttach ==
    ASSUME TypeOK, JournalInv, Attach
    PROVE  JournalInv'
<1>1. UNCHANGED <<files, tx, why>> /\ pc = "attach" /\ pc' = "idle"
  BY DEF Attach, Goto
<1>2. CASE Hot(jrnl)
  <2>1. UNCHANGED allowed
    BY <1>2 DEF Attach
  <2>2. Safe(jrnl)' /\ Safe(diskJrnl)'
    BY <1>1, <2>1 DEF JournalInv, Safe, Undoes, Keeps, files
  <2> QED BY <1>1, <1>2, <2>1, <2>2 DEF JournalInv, WritingInv, Resting, Finishing, Hot, files
<1>3. CASE ~Hot(jrnl)
  <2>1. Served
    BY <1>3 DEF Attach
  <2>2. ~Hot(diskJrnl) /\ Agrees(diskMain, main)
    BY <1>1, <1>3 DEF JournalInv, Resting
  <2>3. \E old \in allowed' : Agrees(main, old) /\ Agrees(diskMain, old)
    <3>1. CASE main \in allowed
      BY <2>1, <2>2, <3>1, AgreesSelf DEF Served
    <3>2. CASE main \notin allowed
      BY <1>3, <2>1, <3>2 DEF Served, JournalInv, Safe
    <3> QED BY <3>1, <3>2
  <2>4. Safe(jrnl)' /\ Safe(diskJrnl)'
    BY <1>1, <1>3, <2>2, <2>3 DEF Safe, Hot, files
  <2> QED BY <1>1, <1>3, <2>2, <2>4 DEF JournalInv, WritingInv, Resting, Finishing, Hot, files
<1> QED BY <1>2, <1>3

LEMMA JournalBegin ==
    ASSUME JournalInv, Begin, ~Hot(jrnl)
    PROVE  JournalInv'
<1>1. /\ UNCHANGED <<files, allowed>> /\ pc = "idle" /\ pc' = "zero" /\ why' = "begin"
      /\ ~Hot(diskJrnl) /\ Agrees(diskMain, main)
  BY DEF Begin, Goto, JournalInv, hist, Hot
<1>2. Safe(jrnl)' /\ Safe(diskJrnl)'
  BY <1>1 DEF JournalInv, Safe, Undoes, Keeps, files
<1> QED BY <1>1, <1>2 DEF JournalInv, WritingInv, Resting, Finishing, files, Hot

\* The pager appends pre-images and makes them durable.
LEMMA JournalGrows ==
    ASSUME TypeOK, JournalInv, JournalPages \/ JournalMagic \/ JournalFlush
    PROVE  JournalInv'
<1>1. UNCHANGED <<main, diskMain, pc, why, tx, allowed>> /\ pc = "tx"
  BY DEF JournalPages, JournalMagic, JournalFlush, hist
<1>2. /\ jrnl \in Journals /\ Keeps(jrnl.pre)
      /\ ~Hot(diskJrnl) => main = jrnl.pre /\ Agrees(diskMain, main)
      /\ Hot(diskJrnl) => /\ Hot(jrnl) /\ diskJrnl.pages \subseteq jrnl.pages
                          /\ jrnl.pre = diskJrnl.pre
  BY <1>1 DEF JournalInv, WritingInv, Resting, TypeOK
<1>3. Undoes(jrnl)
  BY <1>2 DEF JournalInv, Safe, Undoes, Agrees
<1>4. /\ jrnl'.pre = jrnl.pre /\ jrnl.pages \subseteq jrnl'.pages
      /\ jrnl'.hdr \in {jrnl.hdr, "hot"} /\ (Hot(jrnl) => Hot(jrnl)')
      /\ diskJrnl' \in {diskJrnl, jrnl}
      /\ Hot(diskJrnl)' => Hot(jrnl)' /\ diskJrnl'.pages \subseteq jrnl'.pages
                           /\ diskJrnl'.pre = jrnl.pre
      /\ ~Hot(diskJrnl)' => ~Hot(diskJrnl)
  BY <1>2 DEF JournalPages, JournalMagic, JournalFlush, Journals, Hot
<1>5. Undoes(jrnl)' /\ Keeps(jrnl.pre)'
  BY <1>1, <1>2, <1>3, <1>4 DEF Undoes, Keeps
<1>6. Safe(jrnl)'
  BY <1>1, <1>4, <1>5 DEF Safe, JournalInv, Hot
<1>7. Safe(diskJrnl)'
  BY <1>1, <1>2, <1>3, <1>4 DEF Safe, JournalInv, Hot, Undoes, Keeps
<1> QED BY <1>1, <1>2, <1>4, <1>5, <1>6, <1>7 DEF JournalInv, WritingInv, Resting, Finishing, Agrees

\* A page is overwritten only once its pre-image is durable.
LEMMA JournalWrite ==
    ASSUME TypeOK, JournalInv, WriteMain
    PROVE  JournalInv'
<1>1. /\ UNCHANGED <<diskMain, jrnl, diskJrnl, pc, why, tx, allowed>> /\ pc = "tx"
      /\ Hot(jrnl) /\ Hot(diskJrnl)
  BY DEF WriteMain, hist
<1>2. PICK b \in Blocks : /\ b \in diskJrnl.pages \/ b \notin Present(jrnl.pre)
                          /\ main' = [main EXCEPT ![b] = tx[b]]
  BY DEF WriteMain, Present
<1>3. jrnl.pre = diskJrnl.pre /\ diskJrnl.pages \subseteq jrnl.pages /\ Keeps(jrnl.pre)
  BY <1>1 DEF JournalInv, WritingInv
<1>4. \A c \in Present(jrnl.pre) \ diskJrnl.pages : main'[c] = main[c]
  BY <1>2 DEF TypeOK, Images, Present
<1>5. Safe(jrnl)' /\ Safe(diskJrnl)'
  BY <1>1, <1>3, <1>4 DEF JournalInv, Safe, Undoes, Keeps, Hot
<1> QED BY <1>1, <1>3, <1>5 DEF JournalInv, WritingInv, Resting, Finishing, Hot, Keeps

LEMMA JournalCommit ==
    ASSUME TypeOK, JournalInv, Commit
    PROVE  JournalInv'
<1>1. /\ UNCHANGED <<main, diskMain, jrnl, diskJrnl, tx>> /\ pc = "tx"
      /\ pc' = "syncMain" /\ why' = "commit" /\ allowed' = allowed \cup {tx}
      /\ jrnl = diskJrnl /\ Agrees(main, tx)
  BY DEF Commit, Goto, files, Agrees
<1>2. Safe(jrnl)' /\ Safe(diskJrnl)'
  BY <1>1 DEF JournalInv, Safe, Undoes, Keeps, Hot
<1> QED BY <1>1, <1>2 DEF JournalInv, WritingInv, Resting, Finishing, Hot, Agrees, Present

LEMMA JournalRollback ==
    ASSUME TypeOK, JournalInv, Rollback
    PROVE  JournalInv'
<1>1. /\ UNCHANGED <<diskMain, jrnl, diskJrnl, tx, allowed>> /\ pc = "tx"
      /\ pc' = "syncMain" /\ why' = "rollback"
  BY DEF Rollback, Goto, hist
<1>2. Keeps(jrnl.pre)
  BY <1>1 DEF JournalInv, WritingInv
<1>3. main' = jrnl.pre
  <2>1. CASE Hot(jrnl)
    BY <2>1, PlaybackRestores DEF Rollback, JournalInv, Safe, Undoes, TypeOK
  <2>2. CASE ~Hot(jrnl)
    BY <1>1, <2>2 DEF Rollback, JournalInv, WritingInv
  <2> QED BY <2>1, <2>2
<1>4. ~Hot(diskJrnl) => main' = main
  BY <1>1, <1>3 DEF JournalInv, WritingInv
<1>5. Safe(jrnl)'
  <2>1. CASE Hot(jrnl)
    BY <1>1, <1>2, <1>3, <2>1 DEF JournalInv, Safe, Undoes, Keeps, Hot
  <2>2. CASE ~Hot(jrnl)
    BY <1>1, <1>4, <2>2 DEF JournalInv, WritingInv, Safe, Hot
  <2> QED BY <2>1, <2>2
<1>6. Safe(diskJrnl)'
  <2>1. CASE Hot(diskJrnl)
    BY <1>1, <1>2, <1>3, <2>1 DEF JournalInv, WritingInv, Safe, Undoes, Keeps, Hot
  <2>2. CASE ~Hot(diskJrnl)
    BY <1>1, <1>4, <2>2 DEF JournalInv, Safe, Hot
  <2> QED BY <2>1, <2>2
<1> QED BY <1>1, <1>2, <1>3, <1>5, <1>6 DEF JournalInv, WritingInv, Resting, Finishing, Hot, Keeps

LEMMA JournalSync ==
    ASSUME TypeOK, JournalInv, SyncMain
    PROVE  JournalInv'
<1>1. /\ UNCHANGED <<main, jrnl, diskJrnl, tx, why, allowed>> /\ pc = "syncMain"
      /\ diskMain' = main /\ pc' = IF Hot(jrnl) THEN "bar1" ELSE "zero"
      /\ why # "begin"
  BY DEF SyncMain, Goto, hist, JournalInv, Finishing
<1>2. Safe(jrnl)' /\ Safe(diskJrnl)'
  BY <1>1 DEF JournalInv, Safe, Undoes, Keeps, Hot
<1> QED BY <1>1, <1>2 DEF JournalInv, WritingInv, Resting, Finishing, Hot, Keeps

\* The header loses its magic only when the file holds what will be served.
LEMMA JournalZero ==
    ASSUME TypeOK, JournalInv, ZeroHeader
    PROVE  JournalInv'
<1>1. UNCHANGED <<main, diskMain, diskJrnl, tx, why, allowed>> /\ pc = "zero"
  BY DEF ZeroHeader, hist
<1>2. Safe(diskJrnl)'
  BY <1>1 DEF JournalInv, Safe, Undoes, Keeps, Hot
<1>3. CASE why = "begin"
  <2>1. /\ jrnl' = [hdr |-> "none", pages |-> {}, pre |-> main] /\ pc' = "tx"
        /\ ~Hot(jrnl) /\ ~Hot(diskJrnl) /\ Agrees(diskMain, main)
    BY <1>1, <1>3 DEF ZeroHeader, Goto, JournalInv
  <2>2. \E old \in allowed : Agrees(main, old) /\ Agrees(diskMain, old)
    BY <2>1 DEF JournalInv, Safe
  <2>3. Safe(jrnl)' /\ Keeps(jrnl.pre)' /\ ~Hot(jrnl)' /\ jrnl'.pre = main
    BY <1>1, <2>1, <2>2 DEF Safe, Keeps, Hot
  <2> QED BY <1>1, <1>2, <1>3, <2>1, <2>3 DEF JournalInv, WritingInv, Resting, Finishing, Hot
<1>4. CASE why # "begin"
  <2>1. /\ jrnl' = [jrnl EXCEPT !.hdr = "none"] /\ pc' = "zeroSync"
        /\ diskMain = main
    BY <1>1, <1>4 DEF ZeroHeader, Goto, JournalInv, WritingInv, Finishing
  <2>2. jrnl'.hdr = "none" /\ jrnl'.pre = jrnl.pre
    BY <2>1 DEF TypeOK, Journals
  <2>3. \E old \in allowed : Agrees(main, old) /\ Agrees(diskMain, old)
    <3>1. CASE why = "commit"
      BY <1>1, <2>1, <3>1 DEF JournalInv, WritingInv, Finishing
    <3>2. CASE why = "rollback"
      BY <1>1, <2>1, <3>2 DEF JournalInv, WritingInv, Finishing, Keeps
    <3> QED BY <1>4, <3>1, <3>2 DEF TypeOK
  <2>4. Safe(jrnl)'
    BY <1>1, <2>2, <2>3 DEF Safe, Hot
  <2> QED BY <1>1, <1>2, <1>4, <2>1, <2>2, <2>4
          DEF JournalInv, WritingInv, Resting, Finishing, Hot, Keeps
<1> QED BY <1>3, <1>4

LEMMA JournalZeroSync ==
    ASSUME TypeOK, JournalInv, ZeroSync
    PROVE  JournalInv'
<1>1. /\ UNCHANGED <<main, diskMain, jrnl, why, tx>> /\ pc = "zeroSync" /\ diskJrnl' = jrnl
  BY DEF ZeroSync, ZeroSyncTo
<1>2. ~Hot(jrnl) /\ diskMain = main /\ why # "begin"
  BY <1>1 DEF JournalInv, WritingInv, Finishing
<1>3. \E old \in allowed : Agrees(main, old) /\ Agrees(diskMain, old)
  BY <1>2 DEF JournalInv, Safe
<1>4. CASE why # "commit"
  <2>1. pc' = "idle" /\ Served
    BY <1>4 DEF ZeroSync, ZeroSyncTo, Goto
  <2>2. \E old \in allowed' : Agrees(main, old) /\ Agrees(diskMain, old)
    BY <1>2, <1>3, <2>1, AgreesSelf DEF Served
  <2>3. Safe(jrnl)' /\ Safe(diskJrnl)'
    BY <1>1, <1>2, <2>2 DEF Safe, Hot
  <2> QED BY <1>1, <1>2, <2>1, <2>3, AgreesSelf DEF JournalInv, WritingInv, Resting, Finishing, Hot
<1>5. CASE why = "commit"
  <2>1. tx \in allowed /\ Agrees(main, tx)
    BY <1>1, <1>5 DEF JournalInv, WritingInv, Finishing
  <2>2. \/ pc' = "idle" /\ allowed' = {tx}
        \/ pc' = "shrink" /\ allowed' = allowed
    BY <1>5 DEF ZeroSync, ZeroSyncTo, Acknowledge, Goto, hist
  <2>3. Safe(jrnl)' /\ Safe(diskJrnl)'
    BY <1>1, <1>2, <2>1, <2>2 DEF Safe, Hot
  <2> QED BY <1>1, <1>2, <1>5, <2>1, <2>2, <2>3, AgreesSelf
          DEF JournalInv, WritingInv, Resting, Finishing, Hot
<1> QED BY <1>4, <1>5

LEMMA JournalTruncate ==
    ASSUME TypeOK, JournalInv, TruncateMain
    PROVE  JournalInv'
<1>1. /\ UNCHANGED <<diskMain, jrnl, diskJrnl, why, tx>> /\ pc = "shrink"
      /\ pc' = "idle" /\ allowed' = {tx} /\ main' = Cut(main, Present(tx))
  BY DEF TruncateMain, Acknowledge, Goto
<1>2. Agrees(main, tx) /\ diskMain = main /\ ~Hot(jrnl) /\ ~Hot(diskJrnl)
  BY <1>1 DEF JournalInv, WritingInv
<1>3. main' = tx /\ Agrees(diskMain, main')
  BY <1>1, <1>2, AgreesCut DEF TypeOK
<1>4. Safe(jrnl)' /\ Safe(diskJrnl)'
  BY <1>1, <1>2, <1>3, AgreesSelf DEF Safe, Hot
<1> QED BY <1>1, <1>2, <1>3, <1>4 DEF JournalInv, WritingInv, Resting, Finishing, Hot

LEMMA JournalClose ==
    ASSUME TypeOK, JournalInv, Close
    PROVE  JournalInv'
<1>1. /\ UNCHANGED <<main, diskMain, diskJrnl, tx, why, allowed>>
      /\ pc = "idle" /\ pc' = "closed"
  BY DEF Close, Goto, hist
<1>2. \/ jrnl' = jrnl
      \/ /\ ~Hot(jrnl) /\ ~Hot(diskJrnl) /\ Agrees(diskMain, main)
         /\ jrnl' = NoJournal /\ ~Hot(jrnl)'
  BY <1>1 DEF Close, JournalInv, Hot, NoJournal
<1>3. Safe(jrnl)' /\ Safe(diskJrnl)'
  BY <1>1, <1>2 DEF JournalInv, Safe, Undoes, Keeps, Hot
<1> QED BY <1>1, <1>2, <1>3 DEF JournalInv, WritingInv, Resting, Finishing, Hot

\* Whichever unsynced blocks and whichever journal survive a power loss.
LEMMA JournalCrash ==
    ASSUME TypeOK, JournalInv, Crash
    PROVE  JournalInv'
<1>1. UNCHANGED allowed /\ pc' = "closed" /\ diskMain' = main' /\ diskJrnl' = jrnl'
  BY DEF Crash, Goto, hist
<1>2. \A b \in Blocks : main[b] = diskMain[b] => main'[b] = main[b]
  BY DEF Crash, Survivor, Unsynced
<1>3. \/ jrnl' \in {jrnl, diskJrnl}
      \/ ~Hot(jrnl)' /\ (~Hot(jrnl) \/ ~Hot(diskJrnl))
  BY DEF Crash, TypeOK, Journals, Hot
<1>4. ASSUME NEW j \in Journals, Safe(j), jrnl' = j \/ (~Hot(j) /\ ~Hot(jrnl)')
      PROVE Safe(jrnl)'
  <2>1. ASSUME Hot(j), jrnl' = j PROVE Undoes(j)' /\ Keeps(j.pre)'
    BY <1>1, <1>2, <1>4, <2>1 DEF Safe, Undoes, Keeps, Present
  <2>2. ASSUME ~Hot(j) PROVE \E old \in allowed' : Agrees(main', old) /\ Agrees(diskMain', old)
    <3>1. PICK old \in allowed : Agrees(main, old) /\ Agrees(diskMain, old)
      BY <1>4, <2>2 DEF Safe
    <3>2. Agrees(main', old)
      BY <1>2, <3>1 DEF Agrees, Present
    <3> QED BY <1>1, <3>1, <3>2
  <2> QED BY <1>4, <2>1, <2>2 DEF Safe, Undoes, Keeps, Hot
<1>5. Safe(jrnl)'
  BY <1>3, <1>4 DEF JournalInv, TypeOK
<1>6. Safe(diskJrnl)'
  BY <1>1, <1>5 DEF Safe, Undoes
<1> QED BY <1>1, <1>5, <1>6, AgreesSelf DEF JournalInv, WritingInv, Resting, Finishing, Hot

LEMMA NoCopies ==
    ASSUME ~Restores, snap = {}, [Next]_vars
    PROVE  snap' = {} /\ ~Restore
<1>1. ~Restore /\ ~Snapshot
  BY DEF Restore, Snapshot
<1> QED BY <1>1 DEF Next, OpenStep, BarrierStep, TxStep, Environment, OpenFresh, OpenRead,
     CreateManifest, CreateAnchor, OpenAnchor, OpenVerify, SealRootMigration, Attach,
     Begin, JournalPages, JournalMagic, JournalFlush, WriteMain, Commit, Rollback, SyncMain,
     RecordInFlight, SealManifest, RecordCommitted, ZeroHeader, ZeroSync, ZeroSyncTo,
     TruncateMain, Close, Retry, ExportEpoch, ApplyEpoch, SaveFloor, Crash, vars, env

LEMMA JournalStep ==
    ASSUME Recovering, TypeOK, snap = {}, JournalInv, [Next]_vars, ~overlaid'
    PROVE  JournalInv'
<1>1. CASE OpenFresh \/ OpenRead \/ CreateManifest \/ CreateAnchor \/ OpenAnchor
           \/ OpenVerify \/ SealRootMigration \/ Retry \/ ApplyEpoch \/ SaveFloor
  BY <1>1, JournalKept DEF OpenFresh, OpenRead, CreateManifest, CreateAnchor, OpenAnchor,
     OpenVerify, SealRootMigration, Retry, ApplyEpoch, SaveFloor, Goto, Resting, hist
<1>2. CASE ExportEpoch \/ Snapshot \/ UNCHANGED vars
  BY <1>2, JournalKept DEF ExportEpoch, Snapshot, vars, hist
<1>3. CASE RecordInFlight \/ SealManifest \/ RecordCommitted
  <2>1. why # "begin"
    BY <1>3 DEF RecordInFlight, SealManifest, RecordCommitted, JournalInv, Finishing
  <2> QED BY <1>3, <2>1, JournalKept DEF RecordInFlight, SealManifest, RecordCommitted, Goto, hist
<1>4. CASE Begin
  BY <1>4, JournalBegin DEF Begin
<1>5. ~Restore
  BY NoCopies DEF Recovering
<1> QED BY <1>1, <1>2, <1>3, <1>4, <1>5, JournalAttach, JournalGrows, JournalWrite, JournalCommit,
           JournalRollback, JournalSync, JournalZero, JournalZeroSync, JournalTruncate,
           JournalClose, JournalCrash
        DEF Next, OpenStep, BarrierStep, TxStep, Environment

\* A journal that was overwritten unread is not forgotten.
LEMMA OverlaidStays == [Next]_vars /\ overlaid => overlaid'
BY DEF Next, OpenStep, BarrierStep, TxStep, Environment, OpenFresh, OpenRead, CreateManifest,
   CreateAnchor, OpenAnchor, OpenVerify, SealRootMigration, Attach, Begin, JournalPages,
   JournalMagic, JournalFlush, WriteMain, Commit, Rollback, SyncMain, RecordInFlight,
   SealManifest, RecordCommitted, ZeroHeader, ZeroSync, ZeroSyncTo, Acknowledge, TruncateMain,
   Close, Retry, ExportEpoch, ApplyEpoch, SaveFloor, Snapshot, Restore, Crash, vars, hist

\* The switch, the absence of copies and, until a transaction is begun over a
\* journal nobody played back, the invariant of the journal.
RecoveryInv == Recovering /\ snap = {} /\ (~overlaid => JournalInv)

LEMMA JournalInvariant == Recovering /\ Spec => []RecoveryInv
<1>1. Recovering /\ Init => RecoveryInv
  BY JournalInit DEF RecoveryInv, Init
<1>2. TypeOK /\ RecoveryInv /\ [Next]_vars => RecoveryInv'
  BY JournalStep, NoCopies, OverlaidStays DEF RecoveryInv, Recovering
<1> QED BY <1>1, <1>2, TypeCorrect, PTL DEF Spec

\* Whatever is interrupted, torn or shortened, the file an idle connection
\* serves contains the last acknowledged image or that of an interrupted commit,
\* or lies beside the hot journal whose playback would restore one of them,
\* until a transaction is begun over such a journal.
THEOREM CommitsAreDurable == Recovering /\ Spec => []Durable
<1>1. TypeOK /\ RecoveryInv => Durable
  <2> SUFFICES ASSUME TypeOK, JournalInv, pc = "idle"
               PROVE  Whole(IF Hot(jrnl) THEN SqlitePlayback(main, jrnl) ELSE main)
    BY DEF Durable, RecoveryInv
  <2>1. CASE Hot(jrnl)
    <3>1. SqlitePlayback(main, jrnl) = jrnl.pre
      BY <2>1, PlaybackRestores DEF JournalInv, Safe, Undoes, TypeOK
    <3>2. PICK old \in allowed : Agrees(jrnl.pre, old)
      BY <2>1 DEF JournalInv, Safe, Keeps
    <3>3. jrnl.pre \in Images /\ old \in Images
      BY DEF TypeOK, Journals
    <3> QED BY <2>1, <3>1, <3>2, <3>3, AgreesCut DEF Whole
  <2>2. CASE ~Hot(jrnl)
    <3>1. PICK old \in allowed : Agrees(main, old)
      BY <2>2 DEF JournalInv, Safe
    <3> QED BY <2>2, <3>1, AgreesCut DEF TypeOK, Whole
  <2> QED BY <2>1, <2>2
<1> QED BY <1>1, JournalInvariant, TypeCorrect, PTL

-----------------------------------------------------------------------------
(* The refinement of PageStore.                                            *)

\* Where the main file, the disk and the running transaction stand, whether
\* or not a journal was left unread.
PageInv ==
    /\ pc \notin {"tx", "syncMain"} => main = diskMain
    /\ pc # "shrink"
    /\ pc \in {"tx", "syncMain"} =>
          /\ diskMain = jrnl.pre
          /\ Present(jrnl.pre) \subseteq Present(tx)
          /\ \A b \in Blocks : main[b] \in {jrnl.pre[b], tx[b]}
    /\ pc = "tx" =>
          /\ ~Hot(jrnl) => main = jrnl.pre
          /\ \A b \in Present(jrnl.pre) \ jrnl.pages : main[b] = jrnl.pre[b]
          /\ Hot(jrnl) => diskJrnl.pages \subseteq jrnl.pages
    /\ pc = "syncMain" => why \in {"commit", "rollback"}
    /\ pc = "syncMain" /\ why = "rollback" => main = jrnl.pre
    /\ pc \in Finishing /\ why = "commit" => main = tx
    /\ pc \in Finishing /\ why = "begin" => Present(main) \subseteq Present(tx)

\* The switches and the invariants a step of the store is derived from.
StoreInv == Plain /\ TypeOK /\ snap = {} /\ PageInv

LEMMA PageInit == Init => PageInv
BY DEF Init, PageInv, Finishing

\* The steps that leave the files alone.
LEMMA PageKept ==
    ASSUME PageInv, UNCHANGED <<main, diskMain>>, pc \notin {"tx", "syncMain"},
           \/ pc' \notin Finishing \cup {"tx", "shrink"}
           \/ UNCHANGED <<tx, why>> /\ pc \in Finishing /\ pc' \in Finishing \ {"syncMain"}
    PROVE  PageInv'
BY DEF PageInv, Finishing

LEMMA PageBegin ==
    ASSUME StoreInv, Begin
    PROVE  PageInv'
<1>1. /\ UNCHANGED files /\ pc = "idle" /\ pc' \in {"bar1", "zero"} /\ why' = "begin"
      /\ txs + 1 \in Nat
  BY DEF Begin, Goto, StoreInv, TypeOK
<1>2. PICK n \in Blocks, D \in SUBSET Blocks :
          /\ Present(main) \subseteq 1 .. n
          /\ (1 .. n) \ Present(main) \subseteq D
          /\ tx' = [b \in Blocks |-> IF b \in D THEN txs + 1
                                    ELSE IF b \in 1 .. n THEN main[b] ELSE Absent]
  BY DEF Begin, StoreInv, Plain
<1>3. Present(main) \subseteq Present(tx')
  BY <1>1, <1>2, ConstantsAssumption DEF Present
<1> QED BY <1>1, <1>3 DEF StoreInv, PageInv, files, Finishing, Present

LEMMA PageJournal ==
    ASSUME StoreInv, JournalPages \/ JournalMagic \/ JournalFlush
    PROVE  PageInv'
<1>1. UNCHANGED <<main, diskMain, pc, tx>> /\ pc = "tx"
  BY DEF JournalPages, JournalMagic, JournalFlush
<1>2. /\ jrnl'.pre = jrnl.pre /\ jrnl.pages \subseteq jrnl'.pages
      /\ ~Hot(jrnl)' => ~Hot(jrnl)
      /\ Hot(jrnl)' => diskJrnl'.pages \subseteq jrnl'.pages
  BY DEF JournalPages, JournalMagic, JournalFlush, Hot, StoreInv, PageInv, TypeOK, Journals
<1> QED BY <1>1, <1>2 DEF StoreInv, PageInv, Finishing, Present

LEMMA PageWrite ==
    ASSUME StoreInv, WriteMain
    PROVE  PageInv'
<1>1. /\ UNCHANGED <<diskMain, jrnl, diskJrnl, pc, why, tx>> /\ pc = "tx" /\ Hot(jrnl)
  BY DEF WriteMain
<1>2. PICK b \in Blocks : /\ b \in diskJrnl.pages \/ b \notin Present(jrnl.pre)
                          /\ main' = [main EXCEPT ![b] = tx[b]]
  BY DEF WriteMain, Present
<1>3. \A c \in Blocks : main'[c] = IF c = b THEN tx[c] ELSE main[c]
  BY <1>2 DEF StoreInv, TypeOK, Images
<1> QED BY <1>1, <1>2, <1>3 DEF StoreInv, PageInv, Finishing, Present, Hot

\* COMMIT has written every page of the image; ROLLBACK has put every page back.
LEMMA PageEnd ==
    ASSUME StoreInv, Commit \/ Rollback
    PROVE  PageInv'
<1>1. UNCHANGED <<diskMain, jrnl, tx>> /\ pc = "tx" /\ pc' = "syncMain"
  BY DEF Commit, Rollback, Goto, files
<1>2. CASE Commit
  <2>1. why' = "commit" /\ main' = main /\ \A b \in Present(tx) : main[b] = tx[b]
    BY <1>2 DEF Commit, files
  <2>2. \A b \in Blocks : main[b] = tx[b]
    BY <1>1, <2>1 DEF StoreInv, PageInv, Present
  <2>3. main = tx
    BY <2>2 DEF StoreInv, TypeOK, Images
  <2> QED BY <1>1, <2>1, <2>3 DEF StoreInv, PageInv, Finishing, Present
<1>3. CASE Rollback
  <2>1. why' = "rollback"
    BY <1>3 DEF Rollback
  <2>2. main' = jrnl.pre
    <3>1. CASE Hot(jrnl)
      BY <1>1, <1>3, <3>1, PlaybackRestores DEF Rollback, StoreInv, PageInv, TypeOK
    <3>2. CASE ~Hot(jrnl)
      BY <1>1, <1>3, <3>2 DEF Rollback, StoreInv, PageInv
    <3> QED BY <3>1, <3>2
  <2> QED BY <1>1, <2>1, <2>2 DEF StoreInv, PageInv, Finishing, Present
<1> QED BY <1>2, <1>3

LEMMA PageFinish ==
    ASSUME StoreInv, SyncMain \/ ZeroHeader \/ ZeroSync
    PROVE  PageInv' /\ (ZeroSync => pc' = "idle")
<1>1. UNCHANGED <<main, tx, why>>
  BY DEF SyncMain, ZeroHeader, ZeroSync, ZeroSyncTo
<1>2. CASE SyncMain
  BY <1>1, <1>2 DEF SyncMain, Goto, StoreInv, PageInv, Finishing, ZeroSync, ZeroSyncTo
<1>3. CASE ZeroHeader
  <2>1. UNCHANGED diskMain /\ pc = "zero" /\ main = diskMain
    BY <1>3 DEF ZeroHeader, StoreInv, PageInv
  <2>2. CASE why = "begin"
    <3>1. pc' = "tx" /\ jrnl'.pre = main /\ ~Hot(jrnl)'
      BY <1>3, <2>2 DEF ZeroHeader, Goto, Hot
    <3> QED BY <1>1, <2>1, <2>2, <3>1 DEF StoreInv, PageInv, Finishing, ZeroSync, ZeroSyncTo, Present
  <2>3. CASE why # "begin"
    <3>1. pc' = "zeroSync"
      BY <1>3, <2>3 DEF ZeroHeader, Goto
    <3> QED BY <1>1, <2>1, <3>1, PageKept DEF StoreInv, Finishing, ZeroSync, ZeroSyncTo
  <2> QED BY <2>2, <2>3
<1>4. CASE ZeroSync
  <2>1. UNCHANGED diskMain /\ pc = "zeroSync"
    BY <1>4 DEF ZeroSync, ZeroSyncTo
  <2>2. why = "commit" => main = tx
    BY <2>1 DEF StoreInv, PageInv, Finishing
  <2>3. pc' = "idle"
    BY <1>4, <2>2 DEF ZeroSync, ZeroSyncTo, Acknowledge, Goto
  <2> QED BY <1>1, <2>1, <2>3, PageKept DEF StoreInv, Finishing
<1> QED BY <1>2, <1>3, <1>4

LEMMA PageCrash ==
    ASSUME StoreInv, Crash
    PROVE  /\ PageInv'
           /\ pc' = "closed" /\ main' \in Images
           /\ \A b \in Blocks : main'[b] \in {main[b], diskMain[b]}
           /\ main = diskMain => main' = main
<1>1. pc' = "closed" /\ diskMain' = main' /\ main' \in Images
  <2>1. TypeOK'
    BY TypeStep DEF StoreInv, Next, Environment
  <2> QED BY <2>1 DEF Crash, Goto, TypeOK
<1>2. \A b \in Blocks : main'[b] \in {main[b], diskMain[b]}
  BY DEF Crash, Survivor, StoreInv, Plain
<1>3. main = diskMain => main' = main
  BY <1>1, <1>2 DEF StoreInv, TypeOK, Images
<1> QED BY <1>1, <1>2, <1>3 DEF PageInv, Finishing

LEMMA PageStep ==
    ASSUME StoreInv, [Next]_vars
    PROVE  PageInv'
<1>1. CASE OpenFresh \/ OpenRead \/ CreateManifest \/ CreateAnchor \/ OpenAnchor \/ OpenVerify
           \/ SealRootMigration \/ Attach \/ Close \/ Retry \/ ApplyEpoch \/ SaveFloor
  BY <1>1, PageKept DEF OpenFresh, OpenRead, CreateManifest, CreateAnchor, OpenAnchor, OpenVerify,
     SealRootMigration, Attach, Close, Retry, ApplyEpoch, SaveFloor, Goto, files, Finishing, StoreInv
<1>2. CASE RecordInFlight \/ SealManifest \/ RecordCommitted
  BY <1>2, PageKept DEF RecordInFlight, SealManifest, RecordCommitted, Goto, files, Finishing, StoreInv
<1>3. CASE ExportEpoch \/ Snapshot \/ UNCHANGED vars
  BY <1>3 DEF ExportEpoch, Snapshot, vars, files, StoreInv, PageInv, Finishing, Present, Hot
<1>4. ~Restore /\ ~TruncateMain
  BY NoCopies DEF StoreInv, Plain, Recovering, PageInv, TruncateMain
<1> QED BY <1>1, <1>2, <1>3, <1>4, PageBegin, PageJournal, PageWrite, PageEnd, PageFinish, PageCrash
        DEF Next, OpenStep, BarrierStep, TxStep, Environment

StoreImage == IF InTx THEN jrnl.pre ELSE main
Writing    == IF InTx /\ (Hot(jrnl) \/ pc = "syncMain") THEN {tx} ELSE {}
storeVars  == <<pc # "closed", StoreImage, Writing>>

\* Outside the transaction, steps that leave the file alone start, end or keep
\* the session.
LEMMA StoreSession ==
    ASSUME StoreInv, UNCHANGED main, ~InTx, ~InTx'
    PROVE  [Store!Next]_storeVars
<1>1. /\ StoreImage = main /\ StoreImage' = main /\ Writing = {} /\ Writing' = {}
      /\ main \in Images
  BY DEF StoreImage, Writing, StoreInv, TypeOK
<1>2. CASE (pc = "closed") <=> (pc' = "closed")
  BY <1>1, <1>2 DEF storeVars
<1>3. CASE pc = "closed" /\ pc' # "closed"
  BY <1>1, <1>3 DEF Store!Next, Store!Boot, StoreImage, Writing
<1>4. CASE pc # "closed" /\ pc' = "closed"
  <2>1. Store!Between(main, main)
    BY DEF Store!Between
  <2> QED BY <1>1, <1>4, <2>1 DEF Store!Next, Store!Stop, StoreImage, Writing
<1> QED BY <1>2, <1>3, <1>4

\* The transaction writes pages from the magic of its journal on.
LEMMA StoreWrite ==
    ASSUME StoreInv, JournalPages \/ JournalMagic \/ JournalFlush \/ WriteMain \/ Commit \/ Rollback
    PROVE  [Store!Next]_storeVars
<1>1. /\ pc = "tx" /\ pc' \in {"tx", "syncMain"} /\ UNCHANGED tx /\ jrnl'.pre = jrnl.pre
      /\ Hot(jrnl) => Hot(jrnl)'
  BY DEF JournalPages, JournalMagic, JournalFlush, WriteMain, Commit, Rollback, Goto, files, Hot,
     StoreInv, TypeOK, Journals
<1>2. /\ InTx /\ InTx' /\ StoreImage' = StoreImage
      /\ Writing \in {{}, {tx}} /\ Writing' \in {{}, {tx}} /\ tx \in Images
      /\ Writing = {tx} => Writing' = {tx}
  BY <1>1 DEF InTx, StoreImage, Writing, StoreInv, TypeOK
<1>3. CASE Writing' = Writing
  BY <1>1, <1>2, <1>3 DEF storeVars
<1>4. CASE Writing = {} /\ Writing' = {tx}
  BY <1>1, <1>2, <1>4 DEF Store!Next, Store!Write, StoreImage, Writing
<1> QED BY <1>2, <1>3, <1>4

\* Once the main file is synced, the transaction has happened or it has not.
LEMMA StoreSync ==
    ASSUME StoreInv, SyncMain
    PROVE  Store!Next
<1>1. /\ pc = "syncMain" /\ pc' \in {"bar1", "zero"} /\ UNCHANGED <<main, tx, why>>
      /\ (why = "commit" /\ main = tx) \/ (why = "rollback" /\ main = jrnl.pre)
  BY DEF SyncMain, Goto, StoreInv, PageInv, Finishing
<1>2. /\ InTx /\ ~InTx' /\ StoreImage = jrnl.pre /\ StoreImage' = main
      /\ Writing = {tx} /\ Writing' = {}
  BY <1>1 DEF InTx, StoreImage, Writing
<1>3. CASE why = "commit"
  BY <1>1, <1>2, <1>3 DEF Store!Next, Store!Commit, StoreImage, Writing
<1>4. CASE why = "rollback"
  BY <1>1, <1>2, <1>4 DEF Store!Next, Store!Rollback, StoreImage, Writing
<1> QED BY <1>1, <1>3, <1>4

\* A power loss leaves of a transaction some of its pages, and of anything
\* else nothing.
LEMMA StoreCrash ==
    ASSUME StoreInv, Crash
    PROVE  [Store!Next]_storeVars
<1>1. /\ pc' = "closed" /\ main' \in Images /\ ~InTx'
      /\ \A b \in Blocks : main'[b] \in {main[b], diskMain[b]}
      /\ main = diskMain => main' = main
  BY PageCrash DEF InTx
<1>2. CASE ~InTx
  BY <1>1, <1>2, StoreSession DEF InTx, StoreInv, PageInv
<1>3. CASE InTx
  <2>1. /\ pc # "closed" /\ StoreImage = jrnl.pre /\ StoreImage' = main' /\ Writing' = {}
    BY <1>1, <1>3 DEF InTx, StoreImage, Writing
  <2>2. \A b \in Blocks : main'[b] \in {jrnl.pre[b]} \cup {img[b] : img \in Writing}
    <3>1. CASE Writing = {}
      BY <1>1, <1>3, <3>1 DEF Writing, InTx, StoreInv, PageInv
    <3>2. CASE Writing = {tx}
      BY <1>1, <1>3, <3>2 DEF InTx, StoreInv, PageInv
    <3> QED BY <3>1, <3>2 DEF Writing
  <2>3. Store!Between(StoreImage, StoreImage')
    BY <2>1, <2>2 DEF Store!Between, Writing
  <2> QED BY <1>1, <2>1, <2>3 DEF Store!Next, Store!Stop, StoreImage, Writing
<1> QED BY <1>2, <1>3

LEMMA StoreStep ==
    ASSUME StoreInv, [Next]_vars
    PROVE  [Store!Next]_storeVars
<1>1. CASE OpenFresh \/ OpenRead \/ CreateManifest \/ CreateAnchor \/ OpenAnchor \/ OpenVerify
           \/ SealRootMigration \/ Attach \/ Begin \/ RecordInFlight \/ SealManifest
           \/ RecordCommitted \/ ZeroSync \/ Close \/ Retry \/ ApplyEpoch \/ SaveFloor
  <2>1. UNCHANGED main
    BY <1>1 DEF OpenFresh, OpenRead, CreateManifest, CreateAnchor, OpenAnchor, OpenVerify,
       SealRootMigration, Attach, Begin, RecordInFlight, SealManifest, RecordCommitted,
       ZeroSync, ZeroSyncTo, Close, Retry, ApplyEpoch, SaveFloor, files
  <2>2. ~InTx /\ ~InTx'
    BY <1>1, PageFinish DEF OpenFresh, OpenRead, CreateManifest, CreateAnchor, OpenAnchor, OpenVerify,
       SealRootMigration, Attach, Begin, RecordInFlight, SealManifest, RecordCommitted,
       ZeroSync, ZeroSyncTo, Close, Retry, ApplyEpoch, SaveFloor, Goto, InTx
  <2> QED BY <2>1, <2>2, StoreSession
<1>2. CASE ZeroHeader
  <2>1. /\ pc = "zero" /\ pc' \in {"tx", "zeroSync"} /\ UNCHANGED main
        /\ pc' = "tx" => jrnl'.pre = main /\ ~Hot(jrnl)'
    BY <1>2 DEF ZeroHeader, Goto, Hot
  <2> QED BY <2>1 DEF storeVars, StoreImage, Writing, InTx
<1>3. CASE ExportEpoch \/ Snapshot \/ UNCHANGED vars
  BY <1>3 DEF ExportEpoch, Snapshot, vars, files, storeVars, StoreImage, Writing, InTx, Hot
<1>4. ~Restore /\ ~TruncateMain
  BY NoCopies DEF StoreInv, Plain, Recovering, PageInv, TruncateMain
<1> QED BY <1>1, <1>2, <1>3, <1>4, StoreWrite, StoreSync, StoreCrash
        DEF Next, OpenStep, BarrierStep, TxStep, Environment

\* Where transactions do not shorten the file and power loss tears no block,
\* the VFS is a store whose content changes page by page while a transaction
\* writes and at no other time: not at an open, a seal or a rollback, and not
\* by losing power in one of them.
THEOREM VfsIsPageStore == Plain /\ Spec => StoreSpec
<1>1. Plain /\ Init => Plain /\ snap = {} /\ PageInv
  BY PageInit DEF Init
<1>2. TypeOK /\ (Plain /\ snap = {} /\ PageInv) /\ [Next]_vars => (Plain /\ snap = {} /\ PageInv)'
  BY PageStep, NoCopies DEF StoreInv, Plain, Recovering
<1>3. TypeOK /\ Init => Store!Init
  <2> SUFFICES ASSUME TypeOK, Init PROVE Store!Init
    OBVIOUS
  <2> QED BY DEF Init, TypeOK, Store!Init, InTx
<1>4. TypeOK /\ Plain /\ snap = {} /\ PageInv /\ [Next]_vars => [Store!Next]_storeVars
  BY StoreStep DEF StoreInv
<1> QED BY <1>1, <1>2, <1>3, <1>4, TypeCorrect, PTL
        DEF Spec, StoreSpec, Store!Spec, storeVars, StoreImage, Writing

-----------------------------------------------------------------------------
(* No brick.                                                               *)

LEMMA PlainInit == Init => PlainInv
<1> SUFFICES ASSUME Init PROVE PlainInv
  OBVIOUS
<1>1. Authentic(NoImage) /\ \A n \in Blocks : Authentic(StartImage(n))
  BY ConstantsAssumption DEF Authentic, NoImage, StartImage
<1>2. Authentic(main)
  BY <1>1 DEF Init, NewDisk, StartFiles
<1> QED BY <1>1, <1>2 DEF Init, PlainInv, NoJournal, Finishing

\* The steps that leave the files alone.
LEMMA PlainKept ==
    ASSUME PlainInv, UNCHANGED <<files, tx>>,
           \/ UNCHANGED <<pc, why>>
           \/ pc' \in Resting \cup {"idle"}
           \/ UNCHANGED why /\ why # "begin" /\ pc \in Finishing /\ pc' \in Finishing
    PROVE  PlainInv'
BY DEF PlainInv, files, Resting, Finishing, Authentic, Present, Hot

LEMMA PlainBegin ==
    ASSUME Plain, TypeOK, PlainInv, JournalInv, Begin
    PROVE  PlainInv'
<1>1. /\ UNCHANGED files /\ pc = "idle" /\ pc' \in {"bar1", "zero"} /\ why' = "begin"
      /\ txs + 1 \in Nat
  BY DEF Begin, Goto, TypeOK
<1>2. PICK n \in Blocks, D \in SUBSET Blocks :
          /\ Present(main) \subseteq 1 .. n
          /\ (1 .. n) \ Present(main) \subseteq D
          /\ tx' = [b \in Blocks |-> IF b \in D THEN txs + 1
                                    ELSE IF b \in 1 .. n THEN main[b] ELSE Absent]
  BY DEF Begin, Plain
<1>3. Authentic(tx')
  BY <1>1, <1>2, ConstantsAssumption DEF Authentic, PlainInv
<1>4. Present(main) \subseteq Present(tx')
  BY <1>1, <1>2, ConstantsAssumption DEF Present
<1> QED BY <1>1, <1>3, <1>4 DEF PlainInv, files, Finishing

LEMMA PlainTx ==
    ASSUME TypeOK, JournalInv, PlainInv,
           JournalPages \/ JournalMagic \/ JournalFlush \/ WriteMain \/ Commit
    PROVE  PlainInv'
<1>1. UNCHANGED <<diskMain, tx>> /\ pc = "tx" /\ pc' \in {"tx", "syncMain"}
  BY DEF JournalPages, JournalMagic, JournalFlush, WriteMain, Commit, Goto, files
<1>2. jrnl'.pre = jrnl.pre /\ jrnl'.hdr \in {jrnl.hdr, "hot"} /\ diskJrnl' \in {diskJrnl, jrnl}
  BY DEF JournalPages, JournalMagic, JournalFlush, WriteMain, Commit, files, TypeOK, Journals
<1>3. Authentic(main)' /\ Present(main)' \subseteq Present(tx)
  <2>1. CASE WriteMain
    BY <1>1, <2>1 DEF WriteMain, PlainInv, Authentic, Present, TypeOK, Images
  <2>2. CASE UNCHANGED main
    BY <1>1, <2>2 DEF PlainInv, Authentic, Present
  <2> QED BY <2>1, <2>2 DEF JournalPages, JournalMagic, JournalFlush, Commit, files
<1>4. ~Hot(diskJrnl)' => main' = main /\ ~Hot(diskJrnl)
  BY <1>1 DEF JournalPages, JournalMagic, JournalFlush, WriteMain, Commit, files, Hot,
     JournalInv, WritingInv
<1> QED BY <1>1, <1>2, <1>3, <1>4 DEF PlainInv, Finishing, Authentic, Present

\* Rollback writes the image the journal started from.
LEMMA PlainUndo ==
    ASSUME TypeOK, JournalInv, PlainInv, Rollback
    PROVE  PlainInv' /\ main' = jrnl.pre
<1>1. /\ UNCHANGED <<diskMain, jrnl, diskJrnl, tx>> /\ pc' = "syncMain"
      /\ why' = "rollback"
  BY DEF Rollback, Goto
<1>2. main' = jrnl.pre
  <2>1. CASE Hot(jrnl)
    <3>1. main' = SqlitePlayback(main, jrnl)
      BY <2>1 DEF Rollback
    <3> QED BY <2>1, <3>1, PlaybackRestores DEF JournalInv, Safe, Undoes, TypeOK
  <2>2. CASE ~Hot(jrnl)
    BY <2>2 DEF Rollback, JournalInv, WritingInv
  <2> QED BY <2>1, <2>2
<1>3. ~Hot(diskJrnl) => main' = main
  BY <1>2 DEF Rollback, JournalInv, WritingInv
<1> QED BY <1>1, <1>2, <1>3 DEF PlainInv, Finishing, Authentic

\* The file a commit seals is the image the transaction asked for.
LEMMA CommittedIs ==
    ASSUME TypeOK, JournalInv, PlainInv, pc \in Finishing, why = "commit"
    PROVE  main = tx /\ Present(tx) = Present(main)
<1>1. Present(main) \subseteq Present(tx) /\ Agrees(main, tx)
  BY DEF PlainInv, JournalInv, WritingInv
<1>2. \A b \in Blocks : main[b] = tx[b]
  BY <1>1 DEF Agrees, Present
<1> QED BY <1>2 DEF Present, TypeOK, Images

LEMMA PlainFinish ==
    ASSUME TypeOK, JournalInv, PlainInv, SyncMain \/ ZeroHeader \/ ZeroSync
    PROVE  PlainInv' /\ (ZeroSync => pc' = "idle") /\ (ZeroSync /\ why = "commit" => main = tx)
<1>1. UNCHANGED <<main, tx, why>>
  BY DEF SyncMain, ZeroHeader, ZeroSync, ZeroSyncTo
<1>2. CASE SyncMain
  BY <1>1, <1>2 DEF SyncMain, Goto, PlainInv, JournalInv, Finishing, Authentic, ZeroSync, ZeroSyncTo
<1>3. CASE ZeroHeader
  <2>1. /\ UNCHANGED <<diskMain, diskJrnl>> /\ pc = "zero"
        /\ jrnl'.hdr = "none" /\ jrnl'.pre \in {jrnl.pre, main} /\ pc' \in {"tx", "zeroSync"}
        /\ pc' = "tx" => why = "begin"
    BY <1>3 DEF ZeroHeader, Goto, TypeOK, Journals
  <2> QED BY <1>1, <2>1 DEF PlainInv, Finishing, Authentic, ZeroSync, ZeroSyncTo
<1>4. CASE ZeroSync
  <2>1. UNCHANGED <<diskMain, jrnl>> /\ diskJrnl' = jrnl /\ pc = "zeroSync" /\ diskMain = main
    BY <1>4 DEF ZeroSync, ZeroSyncTo, JournalInv, WritingInv, Finishing
  <2>2. ASSUME why = "commit" PROVE Present(tx) = Present(main) /\ main = tx
    BY <2>1, <2>2, CommittedIs DEF Finishing
  <2>3. pc' = "idle"
    BY <1>4, <2>2 DEF ZeroSync, ZeroSyncTo, Acknowledge, Goto
  <2> QED BY <1>1, <2>1, <2>2, <2>3 DEF PlainInv, Finishing, Authentic
<1> QED BY <1>2, <1>3, <1>4

LEMMA PlainCrash ==
    ASSUME Plain, TypeOK, JournalInv, PlainInv, Crash
    PROVE  PlainInv'
<1>1. pc' = "closed" /\ diskMain' = main' /\ diskJrnl' = jrnl' /\ tx' = tx
  BY DEF Crash, Goto
<1>2. \A b \in Blocks : main'[b] \in {main[b], diskMain[b]}
  BY DEF Crash, Survivor, Plain
<1>3. jrnl' \in {jrnl, diskJrnl}
  BY DEF Crash, Plain
<1>4. Authentic(main)'
  BY <1>2 DEF PlainInv, Authentic
<1> QED BY <1>1, <1>3, <1>4 DEF PlainInv, JournalInv, Finishing, Authentic

LEMMA PlainStep ==
    ASSUME Plain, TypeOK, snap = {}, JournalInv, PlainInv, [Next]_vars, ~overlaid'
    PROVE  PlainInv'
<1>1. CASE OpenFresh \/ OpenRead \/ CreateManifest \/ CreateAnchor \/ OpenAnchor
           \/ OpenVerify \/ SealRootMigration \/ Retry \/ ApplyEpoch \/ SaveFloor \/ Attach
  BY <1>1, PlainKept DEF OpenFresh, OpenRead, CreateManifest, CreateAnchor, OpenAnchor,
     OpenVerify, SealRootMigration, Retry, ApplyEpoch, SaveFloor, Attach, Goto, Resting
<1>2. CASE ExportEpoch \/ Snapshot \/ UNCHANGED vars
  BY <1>2, PlainKept DEF ExportEpoch, Snapshot, vars
<1>3. CASE RecordInFlight \/ SealManifest \/ RecordCommitted
  <2>1. why # "begin"
    BY <1>3 DEF RecordInFlight, SealManifest, RecordCommitted, JournalInv, Finishing
  <2> QED BY <1>3, <2>1, PlainKept
          DEF RecordInFlight, SealManifest, RecordCommitted, Goto, Finishing, PlainInv
<1>4. CASE Close
  <2>1. /\ UNCHANGED <<main, diskMain, diskJrnl, tx>> /\ pc' = "closed"
        /\ jrnl' \in {jrnl, NoJournal}
    BY <1>4 DEF Close, Goto
  <2>2. Authentic(NoJournal.pre)
    BY ConstantsAssumption DEF Authentic, NoImage, NoJournal
  <2> QED BY <2>1, <2>2 DEF PlainInv, Finishing, Authentic
<1>5. ~Restore
  BY NoCopies DEF Plain, Recovering
<1>6. ~TruncateMain
  BY DEF PlainInv, TruncateMain
<1> QED BY <1>1, <1>2, <1>3, <1>4, <1>5, <1>6, PlainBegin, PlainTx, PlainUndo, PlainFinish, PlainCrash
        DEF Next, OpenStep, BarrierStep, TxStep, Environment

\* The database has committed once, before the first step.
Populated == Plain /\ Starts \subseteq {"populated"}

LEMMA RootInit == Populated /\ Init => RootInv
<1> SUFFICES ASSUME Populated, Init PROVE RootInv
  OBVIOUS
<1>1. PICK n \in Blocks : StartFiles(StartImage(n), StartImage(n))
  BY DEF Populated, Init
<1>2. main = StartImage(n) /\ StartImage(n) \in Images
  BY <1>1, SlotTypes DEF StartFiles
<1>3. main[1] # Absent
  BY <1>2, ConstantsAssumption DEF StartImage, Blocks
<1>4. mani[0].gen = 2 /\ mani[1].gen = 1 /\ mani[0].root = main /\ mani[0].len = Present(main)
  BY <1>1, <1>2 DEF StartFiles, NoManifest
<1>5. Manifest = mani[0]
  BY <1>4 DEF Manifest
<1>6. AnchorLoad.floor = 0
  BY <1>1 DEF StartFiles, AnchorLoad
<1> QED BY <1>2, <1>3, <1>4, <1>5, <1>6 DEF Init, RootInv, NoJournal, Hot, Session

\* The steps that leave files and manifest alone.
LEMMA RootKept ==
    ASSUME RootInv, UNCHANGED <<files, mani>>, AnchorLoad'.floor <= Manifest.gen,
           \/ UNCHANGED <<pc, why, st>>
           \/ pc' \in Resting \ {"create", "createAnchor", "migrate", "attach"}
           \/ pc' = "attach" /\ st'.root = Manifest.root
           \/ /\ UNCHANGED <<why, st>> /\ pc \in {"bar1", "tx"}
              /\ pc' = "bar2" \/ (pc' = "tx" /\ pc = "tx")
           \/ pc = "bar3" /\ pc' = "zero" /\ st'.root = main
           \/ UNCHANGED st /\ pc = "attach" /\ pc' = "idle"
           \/ UNCHANGED st /\ pc = "idle" /\ pc' = "zero" /\ ~Hot(jrnl)
    PROVE  RootInv'
<1>1. Manifest' = Manifest
  BY UnchangedManifest
<1> QED BY <1>1 DEF RootInv, files, Resting, Session, Accepted, Present, Hot

\* The floor never passes the manifest: a token is an exported generation.
LEMMA FloorBehind ==
    ASSUME TypeOK, StaleInv, LadderInv, RootInv,
           OpenAnchor \/ RecordInFlight \/ RecordCommitted \/ SaveFloor
    PROVE  AnchorLoad'.floor <= Manifest.gen
<1>1. AnchorLoad \in Anchors /\ Manifest \in Manifests /\ AnchorParity
  BY LoadTypes DEF StaleInv
<1>2. PICK c \in Nat, i \in Nat, f \in Nat : AnchorRecord(c, i, f) /\ f \in {0, token}
  BY <1>1 DEF OpenAnchor, RecordInFlight, RecordCommitted, SaveFloor, TypeOK, Manifests
<1>3. AnchorLoad'.floor = Larger(AnchorLoad.floor, f)
  BY <1>1, <1>2, RecordedFields
<1> QED BY <1>1, <1>2, <1>3 DEF Larger, RootInv, LadderInv, Manifests

LEMMA RootSeal ==
    ASSUME TypeOK, LadderInv, JournalInv, PlainInv, RootInv, SealManifest
    PROVE  RootInv'
<1> DEFINE p == [gen |-> st.gen + 1, root |-> main,
                 prev |-> st.root, len |-> Present(main)]
<1>1. /\ p \in Manifests /\ p.root = main /\ p.prev = st.root /\ p.len = Present(main)
      /\ st.gen = Manifest.gen /\ p.gen = Manifest.gen + 1
  BY ImageTypes DEF SealManifest, LadderInv, Session, TypeOK, Manifests, Roots
<1>2. mani' = [mani EXCEPT ![(Manifest.gen + 1) % 2] = p] /\ pc' = "bar3"
  BY <1>1 DEF SealManifest, WriteManifest, PlainInv, Goto
<1> HIDE DEF p
<1>3. Manifest' = p
  BY <1>1, <1>2, NextSlot DEF LadderInv
<1>4. /\ UNCHANGED <<files, st, why, anchor>> /\ pc = "bar2" /\ Hot(jrnl)
      /\ why \in {"commit", "rollback"}
  BY DEF SealManifest, JournalInv, TypeOK, Finishing
<1>5. AnchorLoad' = AnchorLoad /\ Manifest.gen \in Nat /\ AnchorLoad.floor \in Nat
  BY <1>4, LoadTypes DEF AnchorLoad, Manifests, Anchors
<1>6. st.root = Manifest.root /\ st.root # ZeroRoot
  BY <1>4, ZeroRootAssumption DEF RootInv, Session
<1>7. jrnl.pre \in {main, st.root}
  BY <1>4, <1>6 DEF RootInv, JournalInv, WritingInv, Finishing
<1>8. jrnl.pre \in Accepted(p) /\ (Hot(diskJrnl) => diskJrnl.pre \in Accepted(p))
  BY <1>1, <1>4, <1>6, <1>7 DEF Accepted, JournalInv
<1>9. Manifest'.gen > 0 /\ AnchorLoad'.floor <= Manifest'.gen
  BY <1>1, <1>3, <1>5 DEF RootInv
<1> QED BY <1>1, <1>2, <1>3, <1>4, <1>8, <1>9 DEF RootInv, Session, files, Hot, TypeOK, Accepted

\* The steps that write the file or its journal keep anchor and manifest.
LEMMA RootFiles ==
    ASSUME TypeOK, JournalInv, PlainInv, RootInv,
           \/ JournalPages \/ JournalMagic \/ JournalFlush \/ WriteMain
           \/ Commit \/ Rollback \/ SyncMain \/ ZeroHeader \/ ZeroSync \/ Close
    PROVE  RootInv'
<1>1. UNCHANGED <<mani, anchor, st>>
  BY DEF JournalPages, JournalMagic, JournalFlush, WriteMain, Commit, Rollback,
     SyncMain, ZeroHeader, ZeroSync, ZeroSyncTo, Close
<1>2. Manifest' = Manifest /\ AnchorLoad' = AnchorLoad
  BY <1>1, UnchangedManifest, UnchangedAnchor
<1>3. CASE Rollback
  <2>1. /\ UNCHANGED <<diskMain, jrnl, diskJrnl>> /\ pc' = "syncMain" /\ pc = "tx"
        /\ why' = "rollback" /\ main' = jrnl.pre
    BY <1>3, PlainUndo DEF Rollback, Goto
  <2>2. jrnl.pre[1] # Absent
    BY <2>1 DEF RootInv, JournalInv
  <2>3. ~Hot(jrnl) \/ ~Hot(diskJrnl) => jrnl.pre = Manifest.root
    BY <2>1 DEF RootInv, JournalInv
  <2> QED BY <1>1, <1>2, <2>1, <2>2, <2>3 DEF RootInv, Session, Hot, Accepted
<1>4. CASE JournalPages \/ JournalMagic \/ JournalFlush
  <2>1. /\ UNCHANGED <<main, diskMain, pc, why>> /\ pc = "tx" /\ jrnl'.pre = jrnl.pre
        /\ diskJrnl' \in {diskJrnl, jrnl} /\ (Hot(jrnl) => Hot(jrnl)')
        /\ Hot(diskJrnl)' => Hot(jrnl)'
        /\ ~Hot(diskJrnl)' => ~Hot(diskJrnl)
    BY <1>4 DEF JournalPages, JournalMagic, JournalFlush, TypeOK, Journals, Hot, JournalInv, WritingInv
  <2>2. jrnl.pre = Manifest.root
    BY <2>1 DEF RootInv
  <2> QED BY <1>1, <1>2, <2>1, <2>2 DEF RootInv, Session, Accepted, Hot
<1>5. CASE WriteMain
  <2>1. /\ UNCHANGED <<diskMain, jrnl, diskJrnl, pc, why>> /\ pc = "tx" /\ Hot(jrnl) /\ Hot(diskJrnl)
    BY <1>5 DEF WriteMain
  <2>2. main'[1] # Absent
    BY <1>5 DEF WriteMain, Present, TypeOK, Images, RootInv
  <2> QED BY <1>1, <1>2, <2>1, <2>2 DEF RootInv, Session, Accepted, Hot
<1>6. CASE Commit
  <2>1. UNCHANGED files /\ pc = "tx" /\ pc' = "syncMain"
    BY <1>6 DEF Commit, Goto
  <2> QED BY <1>1, <1>2, <2>1 DEF RootInv, Session, Accepted, Hot, files
<1>7. CASE SyncMain
  <2>1. /\ UNCHANGED <<main, jrnl, diskJrnl, why>> /\ pc = "syncMain" /\ diskMain' = main
        /\ pc' = IF Hot(jrnl) THEN "bar1" ELSE "zero"
    BY <1>7 DEF SyncMain, Goto
  <2> QED BY <1>1, <1>2, <2>1 DEF RootInv, Session, Accepted, Hot
<1>8. CASE ZeroHeader
  <2>1. /\ UNCHANGED <<main, diskMain, diskJrnl, why>> /\ pc = "zero"
        /\ jrnl'.hdr = "none" /\ pc' \in {"tx", "zeroSync"}
        /\ pc' = "tx" => jrnl'.pre = main
    BY <1>8 DEF ZeroHeader, Goto, TypeOK, Journals
  <2> QED BY <1>1, <1>2, <2>1 DEF RootInv, Session, Accepted, Hot
<1>9. CASE ZeroSync
  <2>1. /\ UNCHANGED <<main, diskMain, jrnl, why>> /\ pc = "zeroSync" /\ diskJrnl' = jrnl
        /\ pc' = "idle" /\ ~Hot(jrnl)
    BY <1>9, PlainFinish DEF ZeroSync, ZeroSyncTo, JournalInv
  <2> QED BY <1>1, <1>2, <2>1 DEF RootInv, Session, Accepted, Hot
<1>10. CASE Close
  <2>1. /\ UNCHANGED <<main, diskMain, diskJrnl>> /\ pc' = "closed"
        /\ jrnl' = jrnl \/ (jrnl' = NoJournal /\ ~Hot(jrnl))
    BY <1>10 DEF Close, Goto, Hot
  <2> QED BY <1>1, <1>2, <2>1 DEF RootInv, Session, Accepted, Hot, NoJournal
<1> QED BY <1>3, <1>4, <1>5, <1>6, <1>7, <1>8, <1>9, <1>10

\* A torn manifest write hits the other slot: the manifest in force stays.
LEMMA CrashManifest ==
    ASSUME TypeOK, LadderInv, Crash, pc \notin {"create"}
    PROVE  Manifest' = Manifest
<1>1. CASE UNCHANGED mani
  BY <1>1, UnchangedManifest
<1>2. CASE pc = "bar2" /\ mani' = [mani EXCEPT ![ManifestSlot] = NoManifest]
  <2>1. mani' = [mani EXCEPT ![(Manifest.gen + 1) % 2] = NoManifest]
    BY <1>2 DEF ManifestSlot, LadderInv, Session
  <2> QED BY <2>1, NextSlot, SlotTypes DEF LadderInv
<1> QED BY <1>1, <1>2 DEF Crash, ManifestWrites, LadderInv

LEMMA RootCrash ==
    ASSUME Plain, TypeOK, StaleInv, LadderInv, JournalInv, PlainInv, RootInv, Crash
    PROVE  RootInv'
<1>1. pc' = "closed" /\ diskMain' = main' /\ diskJrnl' = jrnl'
  BY DEF Crash, Goto
<1>2. Manifest' = Manifest /\ AnchorLoad' = AnchorLoad
  BY CrashManifest, CrashAnchor DEF RootInv, StaleInv
<1>3. main = diskMain => main' = main
  <2>1. \A b \in Blocks : main[b] = diskMain[b] => main'[b] = main[b]
    BY DEF Crash, Survivor, Unsynced
  <2>2. main' \in Images
    BY TypeStep DEF Next, Environment, TypeOK
  <2> QED BY <2>1, <2>2 DEF TypeOK, Images
<1>4. main'[1] # Absent
  BY ConstantsAssumption DEF Crash, Survivor, Plain, RootInv, Blocks
<1>5. jrnl' \in {jrnl, diskJrnl}
  BY DEF Crash, Plain
<1>6. ~Hot(jrnl)' => main' = Manifest.root
  <2>1. CASE ~Hot(diskJrnl)
    BY <1>3, <2>1 DEF PlainInv, RootInv
  <2>2. CASE Hot(diskJrnl) /\ ~Hot(jrnl)
    <3>1. pc = "zeroSync"
      BY <2>2 DEF JournalInv, WritingInv, PlainInv, TypeOK, Pcs, Resting, Finishing
    <3> QED BY <1>3, <3>1 DEF JournalInv, WritingInv, Finishing, RootInv
  <2>3. CASE Hot(diskJrnl) /\ Hot(jrnl)
    BY <1>5, <2>3 DEF Hot
  <2> QED BY <2>1, <2>2, <2>3
<1>7. Hot(jrnl)' => jrnl'.pre[1] # Absent /\ jrnl'.pre \in Accepted(Manifest)
  BY <1>5 DEF RootInv, Hot
<1> QED BY <1>1, <1>2, <1>4, <1>6, <1>7 DEF RootInv, Session, Hot, Accepted

LEMMA RootStep ==
    ASSUME Plain, TypeOK, StaleInv, LadderInv, snap = {}, JournalInv, PlainInv, RootInv,
           [Next]_vars, ~overlaid'
    PROVE  RootInv'
<1>1. AnchorLoad.floor <= Manifest.gen
  BY DEF RootInv
<1>2. CASE OpenRead \/ Retry \/ ApplyEpoch \/ ExportEpoch \/ Snapshot \/ UNCHANGED vars
  <2>1. UNCHANGED <<files, mani, anchor>>
    BY <1>2 DEF OpenRead, Retry, ApplyEpoch, ExportEpoch, Snapshot, vars
  <2>2. UNCHANGED <<pc, why, st>> \/ pc' \in {"openAnchor", "refused", "closed", "epoch1"}
    BY <1>2 DEF OpenRead, Retry, ApplyEpoch, ExportEpoch, Snapshot, vars, Goto
  <2> QED BY <1>1, <2>1, <2>2, RootKept, UnchangedAnchor DEF Resting
<1>3. CASE OpenVerify \/ Attach \/ Begin
  <2>1. UNCHANGED <<files, mani, anchor>>
    BY <1>3 DEF OpenVerify, Attach, Begin
  <2>2. pc' # "migrate"
    BY <1>3, LadderStep DEF Begin, Attach, Goto, LadderInv
  <2>3. \/ pc' \in {"refused", "ioerr"}
        \/ pc' = "attach" /\ st'.root = Manifest.root
        \/ UNCHANGED st /\ pc = "attach" /\ pc' = "idle"
        \/ UNCHANGED st /\ pc = "idle" /\ pc' = "zero" /\ ~Hot(jrnl)
    <3>1. CASE OpenVerify \/ Attach
      BY <2>2, <3>1 DEF OpenVerify, Attach, Goto
    <3>2. CASE Begin
      BY <3>2 DEF Begin, Goto
    <3> QED BY <1>3, <3>1, <3>2
  <2> QED BY <1>1, <2>1, <2>3, RootKept, UnchangedAnchor DEF Resting
<1>4. CASE OpenAnchor \/ RecordInFlight \/ RecordCommitted \/ SaveFloor
  <2>1. UNCHANGED <<files, mani>> /\ AnchorLoad'.floor <= Manifest.gen
    BY <1>4, FloorBehind DEF OpenAnchor, RecordInFlight, RecordCommitted, SaveFloor
  <2>2. \/ pc' \in {"openVerify", "epoch2", "closed"}
        \/ UNCHANGED <<why, st>> /\ pc = "bar1" /\ pc' = "bar2"
        \/ pc = "bar3" /\ pc' = "zero" /\ st'.root = main
    BY <1>4 DEF OpenAnchor, RecordInFlight, RecordCommitted, SaveFloor, Goto
  <2> QED BY <2>1, <2>2, RootKept DEF Resting
<1>5. ~OpenFresh /\ ~CreateManifest /\ ~CreateAnchor /\ ~SealRootMigration /\ ~TruncateMain
  BY DEF OpenFresh, CreateManifest, CreateAnchor, SealRootMigration, TruncateMain,
     RootInv, LadderInv, PlainInv
<1>6. ~Restore
  BY NoCopies DEF Plain, Recovering
<1> QED BY <1>2, <1>3, <1>4, <1>5, <1>6, RootSeal, RootFiles, RootCrash
        DEF Next, OpenStep, BarrierStep, TxStep, Environment

\* Wherever power failed, the closed database passes every check of
\* open_main_db.
LEMMA RootsOpen ==
    ASSUME TypeOK, LadderInv, JournalInv, PlainInv, RootInv
    PROVE  NeverBricked
<1> SUFFICES ASSUME pc = "closed" PROVE Opens
  BY DEF NeverBricked
<1>1. AnchorLoad \in Anchors /\ Manifest \in Manifests
  BY LoadTypes
<1>2. Fresh(Manifest.gen)
  BY <1>1 DEF Fresh, RootInv, LadderInv, Anchors, Manifests
<1>3. CASE Hot(jrnl)
  <2>1. ReplayJournal(main, jrnl) = jrnl.pre
    <3>1. jrnl.pre[1] # Absent /\ 1 \in Blocks
      BY <1>3, ConstantsAssumption DEF RootInv, Blocks
    <3>2. ReplayJournal(main, jrnl) = SqlitePlayback(main, jrnl)
      BY <3>1 DEF ReplayJournal, SqlitePlayback, Empty, Present
    <3> QED BY <1>3, <3>2, PlaybackRestores DEF JournalInv, Safe, Undoes, TypeOK
  <2>2. RootOk(Manifest)
    BY <1>3, <2>1 DEF RootOk, PlainInv, RootInv
  <2> QED BY <1>2, <1>3, <2>2 DEF Opens, StructureOk, RootInv
<1>4. CASE ~Hot(jrnl)
  <2>1. main = Manifest.root /\ Manifest.len = Present(main)
    BY <1>4 DEF RootInv
  <2>2. Authentic(main) /\ main[1] # Torn
    BY ConstantsAssumption DEF PlainInv, Authentic, Blocks
  <2>3. RootOk(Manifest) /\ StructureOk(Manifest)
    BY <1>4, <2>1, <2>2 DEF RootOk, StructureOk, Accepted
  <2> QED BY <1>2, <2>3 DEF Opens, RootInv
<1> QED BY <1>3, <1>4

\* A database that has committed once opens again after every power loss,
\* where transactions do not shorten the file and no block is torn, up to the
\* first transaction that is begun over a journal nobody played back: how far
\* "every reopen succeeds ... zero bricks" of the crash tests is true.
THEOREM PopulatedNeverBricked == Populated /\ Spec => []NeverBricked
<1>1. Populated => Plain /\ Recovering /\ Untouched
  BY DEF Populated, Plain, Recovering, Untouched
<1>2. Populated /\ Init => LadderInv /\ PlainInv /\ RootInv
  BY <1>1, LadderInit, PlainInit, RootInit
<1> DEFINE I == Populated /\ LadderInv /\ (~overlaid => PlainInv /\ RootInv)
<1>3. TypeOK /\ StaleInv /\ RecoveryInv /\ I /\ [Next]_vars => I'
  BY <1>1, LadderStep, PlainStep, RootStep, OverlaidStays
     DEF RecoveryInv, Populated, Plain, Recovering
<1>4. TypeOK /\ RecoveryInv /\ I => NeverBricked
  BY RootsOpen DEF RecoveryInv, NeverBricked
<1> QED BY <1>1, <1>2, <1>3, <1>4, TypeCorrect, StaleInvariant, JournalInvariant, PTL DEF Spec

-----------------------------------------------------------------------------
(* Data is served without a root only beside a hot journal.                *)

LEMMA SlotInit == Init => SlotInv
<1> SUFFICES ASSUME Init PROVE SlotInv
  OBVIOUS
<1>1. mani[0].gen \in {0, 2} /\ mani[1].gen \in {0, 1}
  BY DEF Init, NewDisk, StartFiles, NoManifest
<1> QED BY <1>1 DEF Init, SlotInv, ManifestParity, Session

\* Overwriting the slot in force, as seal_root_migration does.
LEMMA SameSlot ==
    ASSUME TypeOK, ManifestParity, NEW p \in Manifests, p.gen = Manifest.gen, Manifest.gen > 0,
           mani' = [mani EXCEPT ![Manifest.gen % 2] = p]
    PROVE  Manifest' = p /\ ManifestParity'
<1> DEFINE k == Manifest.gen % 2
<1>1. k \in 0 .. 1 /\ Manifest.gen \in Nat
  BY SlotBounds
<1>2. \A s \in 0 .. 1 : mani'[s] = IF s = k THEN p ELSE mani[s]
  BY <1>1 DEF TypeOK
<1>3. \A s \in 0 .. 1 : s # k => mani[s].gen < Manifest.gen
  BY <1>1, SlotBounds DEF ManifestParity
<1>4. CASE k = 1
  BY <1>2, <1>3, <1>4, SlotBounds DEF Manifest, ManifestParity
<1>5. CASE k = 0
  BY <1>2, <1>3, <1>5, SlotBounds DEF Manifest, ManifestParity
<1> QED BY <1>1, <1>4, <1>5

\* What the two sealing steps leave in force.
LEMMA Sealed ==
    ASSUME TypeOK, SlotInv, SealManifest \/ SealRootMigration, Authentic(main)
    PROVE  /\ Manifest'.root = main /\ ManifestParity'
           /\ SealManifest => Manifest'.gen = st.gen + 1
           /\ SealRootMigration => Manifest'.gen = st.gen
<1>1. CASE SealManifest
  <2> DEFINE p == [gen |-> st.gen + 1, root |-> main, prev |-> st.root, len |-> Present(main)]
  <2>1. p \in Manifests /\ p.root = main /\ st.gen = Manifest.gen /\ p.gen = Manifest.gen + 1
    BY <1>1, ImageTypes DEF SealManifest, SlotInv, Session, TypeOK, Manifests, Roots
  <2>2. mani' = [mani EXCEPT ![(Manifest.gen + 1) % 2] = p]
    BY <1>1, <2>1 DEF SealManifest, WriteManifest
  <2> HIDE DEF p
  <2>3. Manifest' = p /\ ManifestParity'
    BY <2>1, <2>2, NextSlot DEF SlotInv
  <2> QED BY <1>1, <2>1, <2>3 DEF SealManifest, SealRootMigration
<1>2. CASE SealRootMigration
  <2> DEFINE p == [gen |-> st.gen, root |-> main, prev |-> ZeroRoot, len |-> Present(main)]
  <2>1. /\ p \in Manifests /\ p.root = main /\ st.gen = Manifest.gen /\ p.gen = Manifest.gen
        /\ Manifest.gen > 0
    BY <1>2, ImageTypes DEF SealRootMigration, SlotInv, Session, TypeOK, Manifests, Roots
  <2>2. mani' = [mani EXCEPT ![Manifest.gen % 2] = p]
    BY <1>2, <2>1 DEF SealRootMigration, WriteManifest
  <2> HIDE DEF p
  <2>3. Manifest' = p /\ ManifestParity'
    BY <2>1, <2>2, SameSlot DEF SlotInv
  <2> QED BY <1>2, <2>1, <2>3 DEF SealManifest, SealRootMigration
<1> QED BY <1>1, <1>2

LEMMA SlotStep ==
    ASSUME TypeOK, SlotInv, [Next]_vars
    PROVE  SlotInv'
<1>1. Manifest.gen \in Nat
  BY SlotBounds
<1>2. ASSUME UNCHANGED <<mani, snap>>,
             \/ UNCHANGED <<pc, st>>
             \/ pc' \in {"closed", "create", "refused", "ioerr", "epoch1", "epoch2"}
             \/ pc' \in {"openAnchor", "openVerify"} /\ Manifest.gen > 0
             \/ pc' \in Session \ {"bar3"} /\ st'.gen = Manifest.gen /\ Manifest.gen > 0
      PROVE  SlotInv'
  BY <1>2, UnchangedManifest DEF SlotInv, Session, ManifestParity
<1>3. CASE OpenFresh \/ OpenRead \/ CreateAnchor \/ OpenAnchor \/ OpenVerify \/ Attach
  BY <1>1, <1>2, <1>3 DEF OpenFresh, OpenRead, CreateAnchor, OpenAnchor, OpenVerify, Attach,
     Goto, env, Session, SlotInv
<1>4. CASE Begin \/ JournalPages \/ JournalMagic \/ JournalFlush \/ WriteMain \/ Commit \/ Rollback
  BY <1>2, <1>4 DEF Begin, JournalPages, JournalMagic, JournalFlush, WriteMain, Commit,
     Rollback, Goto, env, Session, SlotInv
<1>5. CASE SyncMain \/ RecordInFlight \/ RecordCommitted \/ ZeroHeader \/ ZeroSync \/ TruncateMain
  BY <1>1, <1>2, <1>5 DEF SyncMain, RecordInFlight, RecordCommitted, ZeroHeader, ZeroSync,
     ZeroSyncTo, TruncateMain, Acknowledge, Goto, env, Session, SlotInv, TypeOK
<1>6. CASE Close \/ Retry \/ ApplyEpoch \/ SaveFloor \/ ExportEpoch \/ UNCHANGED vars
  BY <1>2, <1>6 DEF Close, Retry, ApplyEpoch, SaveFloor, ExportEpoch, vars, Goto, env
<1>7. CASE CreateManifest
  <2>1. mani'[0] = NoManifest /\ mani'[1] = [NoManifest EXCEPT !.gen = 1]
    BY <1>7 DEF CreateManifest
  <2>2. Manifest'.gen = 1 /\ ManifestParity'
    BY <2>1 DEF Manifest, ManifestParity, NoManifest
  <2> QED BY <1>7, <2>2 DEF CreateManifest, Goto, env, SlotInv, Session
<1>8. CASE SealManifest \/ SealRootMigration
  <2>1. CASE ~Authentic(main)
    BY <1>2, <1>8, <2>1 DEF SealManifest, SealRootMigration, Goto, env
  <2>2. CASE Authentic(main)
    <3>1. /\ ManifestParity' /\ snap' = snap
          /\ \/ pc' = "bar3" /\ st' = st /\ Manifest'.gen = st.gen + 1
             \/ pc' = "attach" /\ st'.gen = st.gen /\ Manifest'.gen = st.gen /\ st.gen > 0
      BY <1>8, <2>2, Sealed DEF SealManifest, SealRootMigration, Goto, env, SlotInv, Session, TypeOK
    <3> QED BY <3>1 DEF SlotInv, Session
  <2> QED BY <2>1, <2>2
<1>9. CASE Snapshot
  <2>1. snap' = {[main |-> main, jrnl |-> jrnl, mani |-> mani]} /\ UNCHANGED <<mani, pc, st>>
    BY <1>9 DEF Snapshot
  <2>2. \A c \in snap' : c.mani = mani
    BY <2>1
  <2> QED BY <2>1, <2>2, UnchangedManifest DEF SlotInv, ManifestParity, Session
<1>10. CASE Restore
  BY <1>10 DEF Restore, SlotInv, ManifestParity, Session
<1>11. CASE Crash
  <2>1. \A s \in 0 .. 1 : mani'[s] \in {mani[s], NoManifest}
    BY <1>11 DEF Crash, TypeOK
  <2>2. ManifestParity'
    BY <2>1 DEF SlotInv, ManifestParity, NoManifest
  <2> QED BY <1>11, <2>2 DEF Crash, Goto, SlotInv, Session
<1> QED BY <1>3, <1>4, <1>5, <1>6, <1>7, <1>8, <1>9, <1>10, <1>11
        DEF Next, OpenStep, BarrierStep, TxStep, Environment

LEMMA RootedStep ==
    ASSUME TypeOK, SlotInv, RootedInv, [Next]_vars
    PROVE  RootedInv'
<1>1. ASSUME UNCHANGED <<main, jrnl, mani>>,
             \/ pc' = pc
             \/ pc' \notin Session \cup {"create", "createAnchor"} \/ pc' = "migrate"
             \/ pc' \in {"create", "createAnchor"} /\ Empty(main)
             \/ pc' \in {"attach", "syncMain", "idle"} /\ (Rooted \/ Hot(jrnl))
             \/ pc' \in {"bar3", "zero", "zeroSync", "shrink", "idle"} /\ Rooted
             \/ pc' \in {"bar1", "bar2"} /\ Hot(jrnl)
      PROVE  RootedInv'
  BY <1>1, UnchangedManifest DEF RootedInv, Rooted, Session, Hot
<1>2. CASE OpenFresh \/ OpenRead \/ OpenAnchor \/ OpenVerify \/ Attach \/ Begin \/ Commit
  BY <1>1, <1>2 DEF OpenFresh, OpenRead, OpenAnchor, OpenVerify, Attach, Begin, Commit,
     Goto, files, RootedInv, Rooted, Session, Hot
<1>3. CASE SyncMain \/ RecordInFlight \/ RecordCommitted \/ ZeroSync
  BY <1>1, <1>3 DEF SyncMain, RecordInFlight, RecordCommitted, ZeroSync,
     ZeroSyncTo, Acknowledge, Goto, files, RootedInv, Rooted, Session, Hot
<1>4. CASE Retry \/ ApplyEpoch \/ SaveFloor \/ ExportEpoch \/ Snapshot \/ UNCHANGED vars \/ JournalFlush
  BY <1>1, <1>4 DEF Retry, ApplyEpoch, SaveFloor, ExportEpoch, Snapshot, JournalFlush, vars, Goto, files, Session
<1>5. CASE Close \/ Restore \/ Crash \/ CreateManifest
  BY <1>5 DEF Close, Restore, Crash, CreateManifest, Goto, RootedInv, Session, files, Empty, Present
<1>6. CASE CreateAnchor
  <2>1. pc' = "attach" /\ UNCHANGED <<main, jrnl, mani>> /\ Empty(main)
    BY <1>6 DEF CreateAnchor, Goto, files, RootedInv
  <2> QED BY <1>1, <2>1 DEF Rooted
<1>7. CASE WriteMain \/ JournalPages \/ JournalMagic
  <2>1. /\ UNCHANGED <<mani, pc>> /\ pc = "tx" /\ jrnl'.pre = jrnl.pre
        /\ Hot(jrnl)' \/ (main' = main /\ ~Hot(jrnl))
    BY <1>7 DEF WriteMain, JournalPages, JournalMagic, RootedInv, Hot, TypeOK, Journals
  <2> QED BY <2>1, UnchangedManifest DEF RootedInv, Rooted, Session, Empty, Present
<1>8. CASE Rollback
  <2>1. /\ UNCHANGED <<mani, jrnl>> /\ pc = "tx" /\ pc' = "syncMain"
        /\ Hot(jrnl) \/ main' = main
    BY <1>8 DEF Rollback, Goto
  <2> QED BY <2>1, UnchangedManifest DEF RootedInv, Rooted, Session, Hot
<1>9. CASE ZeroHeader
  <2>1. /\ UNCHANGED <<mani, main>> /\ pc = "zero" /\ pc' \in {"tx", "zeroSync"}
        /\ pc' = "tx" => jrnl'.pre = main
    BY <1>9 DEF ZeroHeader, Goto
  <2> QED BY <2>1, UnchangedManifest DEF RootedInv, Rooted, Session
<1>10. CASE TruncateMain
  <2>1. /\ UNCHANGED mani /\ pc = "shrink" /\ pc' = "idle" /\ main' = Cut(main, Present(tx))
    BY <1>10 DEF TruncateMain, Acknowledge, Goto
  <2>2. Empty(main) => Empty(main)'
    BY <2>1 DEF Empty, Present, Cut
  <2> QED BY <2>1, <2>2, UnchangedManifest DEF RootedInv, Rooted, Session
<1>11. CASE SealManifest \/ SealRootMigration
  <2>1. UNCHANGED <<main, jrnl>> /\ pc \in {"bar2", "migrate"}
    BY <1>11 DEF SealManifest, SealRootMigration, files
  <2>2. CASE pc' \in {"ioerr", "refused"}
    BY <2>2 DEF RootedInv, Session
  <2>3. CASE pc' \notin {"ioerr", "refused"}
    <3>1. pc' \in {"bar3", "attach"} /\ Authentic(main)
      BY <1>11, <2>3 DEF SealManifest, SealRootMigration, Goto
    <3>2. Manifest'.root = main
      BY <1>11, <3>1, Sealed
    <3>3. Rooted'
      BY <3>2, ZeroRootAssumption DEF Rooted, TypeOK
    <3> QED BY <3>1, <3>3 DEF RootedInv, Session
  <2> QED BY <2>2, <2>3
<1> QED BY <1>2, <1>3, <1>4, <1>5, <1>6, <1>7, <1>8, <1>9, <1>10, <1>11
        DEF Next, OpenStep, BarrierStep, TxStep, Environment

\* "a durable zero-root DB self-populates a root on its first writable,
\* journal-free open": whatever is torn, restored or shortened, and however
\* old the format of the files, data is served without a root in force only
\* beside a hot journal, and no transaction is journalled over such data.
THEOREM ServedHasRoot == Spec => []ServedIsRooted
<1>1. Init => SlotInv /\ RootedInv
  BY SlotInit DEF Init, RootedInv, Session
<1>2. TypeOK /\ (SlotInv /\ RootedInv) /\ [Next]_vars => (SlotInv /\ RootedInv)'
  BY SlotStep, RootedStep
<1>3. RootedInv => ServedIsRooted
  BY DEF RootedInv, Rooted, ServedIsRooted, Session
<1> QED BY <1>1, <1>2, <1>3, TypeCorrect, PTL DEF Spec
=============================================================================
