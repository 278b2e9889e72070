----------------------------- MODULE VfsCommit -----------------------------
(***************************************************************************)
(* The commit protocol of one encrypted database of freehold's VFS         *)
(* (crates/freehold/src/vfs.rs): the main file and its rollback journal,   *)
(* the two ping-pong manifest slots, the two ping-pong anchor slots, the   *)
(* barrier that seals a new generation before a journal is invalidated,    *)
(* the checks of open_main_db, and power loss between any two writes.      *)
(*                                                                         *)
(* Abstractions.                                                           *)
(*  - A 4096-byte block is its content: the number of the transaction that *)
(*    last wrote it, Absent (past the end of the file) or Torn (present    *)
(*    but failing AEAD authentication).  An image is a function on Blocks. *)
(*  - The full-state root of an image is the image itself: SHA-256 over    *)
(*    the indexed blocks and their count is taken as collision free.       *)
(*  - The authenticated length of the main file is its set of present      *)
(*    blocks (a prefix of Blocks).                                         *)
(*  - The journal is its header, the set of pages whose pre-images it      *)
(*    holds, and the image its transaction started from.                   *)
(*  - SQLite's pager is external: it journals and syncs pre-images before  *)
(*    it overwrites them, syncs the main file before it invalidates the    *)
(*    journal, and plays back its own journal when it rolls back.  It does *)
(*    not play back a journal it finds: hasHotJournal asks first whether   *)
(*    somebody holds the reserved lock, and xCheckReservedLock always says *)
(*    so.                                                                  *)
(*  - A slot write and the flush that follows it are one step; a power     *)
(*    loss during it leaves the old slot, the new slot or a torn one.      *)
(***************************************************************************)
EXTENDS Integers, FiniteSets

CONSTANTS
    NumBlocks,      \* blocks a main file may have
    MaxTx,          \* bound: transactions begun
    MaxRestarts,    \* bound: closes, refusals and power losses
    Absent, Torn,   \* block contents that are not data
    ZeroRoot,       \* the all-zero "no root yet" sentinel
    Starts,         \* the states the disk may be in at the beginning
    Shrinks,        \* may a transaction shorten the file (VACUUM)?
    Tears,          \* may power loss tear a main or journal block?
    Restores,       \* may a stale copy of the files be put back?
    Epochs          \* are epoch tokens exported and applied?

ASSUME ConstantsAssumption ==
    /\ NumBlocks \in Nat \ {0}
    /\ MaxTx \in Nat /\ MaxRestarts \in Nat
    /\ Absent \notin Nat /\ Torn \notin Nat /\ Absent # Torn
    /\ Starts \subseteq {"none", "populated", "legacy"}
    /\ {Shrinks, Tears, Restores, Epochs} \subseteq BOOLEAN

Blocks   == 1 .. NumBlocks
Content  == Nat \cup {Absent, Torn}
Images   == [Blocks -> Content]

ASSUME ZeroRootAssumption == ZeroRoot \notin Images

VARIABLES
    main,     \* the main file as the running program reads it
    diskMain, \* the part of it that survives power loss
    jrnl,     \* the -journal file as read: [hdr, pages, pre]
    diskJrnl, \* the part of it that survives power loss
    mani,     \* manifest slots 0 and 1: [gen, root, prev, len]
    anchor,   \* anchor slots 0 and 1: [seq, committed, inflight, floor]
    st,       \* DbState of the open database: [gen, root]
    pc,       \* where the session is
    why,      \* what the running finalization is for
    tx,       \* the image the open transaction commits, or the last one would have
    token,    \* last exported epoch token: its generation, 0 if none
    txs, restarts, \* counters for the bounds
    snap,     \* a stale copy of the files: [main, jrnl, mani]
    allowed,  \* history: images an open may serve without losing data
    ackGen,   \* history: highest acknowledged generation of this db_uuid
    epochSeen, \* history: highest floor apply_epoch has returned for this db_uuid
    overlaid   \* history: has a transaction begun over a journal nobody played back?

files == <<main, diskMain, jrnl, diskJrnl>>
hist  == <<allowed, ackGen, epochSeen, overlaid>>
env   == <<token, snap, txs, restarts>>
vars  == <<files, mani, anchor, st, pc, why, tx, env, hist>>

-----------------------------------------------------------------------------
(* Images and the journal.                                                 *)

Present(img)   == {b \in Blocks : img[b] # Absent}
Authentic(img) == \A b \in Blocks : img[b] # Torn
Empty(img)     == Present(img) = {}
Cut(img, len)  == [b \in Blocks |-> IF b \in len THEN img[b] ELSE Absent]
Contiguous(img) == \A b \in Present(img) : \A c \in 1 .. b : c \in Present(img)

NoImage == [b \in Blocks |-> Absent]
NoJournal == [hdr |-> "none", pages |-> {}, pre |-> NoImage]

\* journal_is_hot: block 0 authenticates and starts with the magic.
Hot(j) == j.hdr = "hot"

PreImages(img, j) == [b \in Blocks |-> IF b \in j.pages THEN j.pre[b] ELSE img[b]]

\* replay_journal_root: the image the VFS takes SQLite's replay to produce.
\* It truncates to the journal's initial page count only when that is not 0.
ReplayJournal(img, j) ==
    IF Empty(j.pre) THEN PreImages(img, j)
                    ELSE Cut(PreImages(img, j), Present(j.pre))

\* Mutants: the playback keeps the journalled pages only; it does not cut the
\* file back to its initial length.
PlaybackJournalOnly(img, j) == [b \in j.pages |-> j.pre[b]]
PlaybackUncut(img, j) == PreImages(img, j)

\* SQLite's pager_playback, when it rolls back its own transaction: it always
\* truncates to the initial page count.
SqlitePlayback(img, j) == Cut(PreImages(img, j), Present(j.pre))

-----------------------------------------------------------------------------
(* The two double-buffered records.  A slot that does not authenticate     *)
(* reads as sequence or generation 0, lower than any that does.            *)

NoAnchor == [seq |-> 0, committed |-> 0, inflight |-> 0, floor |-> 0]
NoManifest == [gen |-> 0, root |-> ZeroRoot, prev |-> ZeroRoot, len |-> {}]

Larger(a, b) == IF a >= b THEN a ELSE b

\* anchor_load: the highest-sequence slot that authenticates.
AnchorLoad == IF anchor[1].seq > anchor[0].seq THEN anchor[1] ELSE anchor[0]

\* The slot the next anchor_save overwrites.
AnchorSlot == (AnchorLoad.seq + 1) % 2

\* Mutant: the new values replace the recorded ones.
AnchorRecordUnmerged(committed, inflight, floor) ==
    anchor' = [anchor EXCEPT ![AnchorSlot] =
        [seq |-> AnchorLoad.seq + 1, committed |-> committed,
         inflight |-> inflight, floor |-> floor]]

\* anchor_record: forward-only merge, saved to the slot of the next sequence.
AnchorRecord(committed, inflight, floor) ==
    LET a == AnchorLoad IN
    anchor' = [anchor EXCEPT ![AnchorSlot] =
        [seq |-> a.seq + 1,
         committed |-> Larger(a.committed, committed),
         inflight  |-> Larger(a.inflight, inflight),
         floor     |-> Larger(a.floor, floor)]]

\* read_manifest: the highest-generation slot that authenticates.
Manifest == IF mani[1].gen > mani[0].gen THEN mani[1] ELSE mani[0]

\* write_manifest_slot: the payload goes to slot db_generation % 2.
WriteManifest(payload) == mani' = [mani EXCEPT ![payload.gen % 2] = payload]

\* Mutants: one more generation of slack; the slack applied to the floor too.
FreshTwoBehind(gen) ==
    ~(gen + 2 < AnchorLoad.committed) /\ (AnchorLoad.floor > 0 => gen >= AnchorLoad.floor)
FreshLooseFloor(gen) ==
    ~(gen + 1 < AnchorLoad.committed) /\ (AnchorLoad.floor > 0 => gen + 1 >= AnchorLoad.floor)

\* open_main_db's freshness rule.
Fresh(gen) ==
    LET a == AnchorLoad IN
    /\ ~(gen + 1 < a.committed)
    /\ a.floor > 0 => gen >= a.floor

\* Mutant: the previous root is not accepted.
AcceptedCurrentOnly(m) == {m.root}

\* The roots open_main_db admits under a manifest.
Accepted(m) == {m.root} \cup (IF m.prev # ZeroRoot THEN {m.prev} ELSE {})

\* The length and block-0 checks, deferred behind a hot journal.
StructureOk(m) ==
    \/ Empty(main)
    \/ Hot(jrnl)
    \/ m.len = Present(main) /\ main[1] # Torn

\* The full-state root check: decrypt_whole_file and full_state_root both
\* fail on any block that does not authenticate.
RootOk(m) ==
    \/ Empty(main)
    \/ m.root = ZeroRoot
    \/ /\ Authentic(main)
       /\ (IF Hot(jrnl) THEN ReplayJournal(main, jrnl) ELSE main) \in Accepted(m)

\* Every check between a closed database and a served page.
Opens == /\ Manifest.gen > 0
         /\ Fresh(Manifest.gen)
         /\ StructureOk(Manifest)
         /\ RootOk(Manifest)

-----------------------------------------------------------------------------
(* Opening: open_main_db, run from xOpen before SQLite reads a byte.       *)

Goto(p) == pc' = p

\* No manifest authenticates and there is no data: a database is created.  Its
\* fresh uuid has no anchor entry, and nothing was acknowledged under it.
OpenFresh ==
    /\ pc = "closed" /\ Manifest.gen = 0 /\ Empty(main)
    /\ anchor' = [s \in 0 .. 1 |-> [NoAnchor EXCEPT !.seq = anchor[s].seq]]
    /\ token' = 0 /\ ackGen' = 0 /\ epochSeen' = 0
    /\ Goto("create")
    /\ UNCHANGED <<files, mani, st, why, tx, snap, txs, restarts, allowed, overlaid>>

\* The freshness rule, or the refusal of data without a manifest.
OpenRead ==
    /\ pc = "closed" /\ (Manifest.gen > 0 \/ ~Empty(main))
    /\ Goto(IF Manifest.gen > 0 /\ Fresh(Manifest.gen) THEN "openAnchor" ELSE "refused")
    /\ UNCHANGED <<files, mani, anchor, st, why, tx, env, hist>>

\* create_manifest: the manifest is durable before the anchor is touched.
CreateManifest ==
    /\ pc = "create"
    /\ mani' = [s \in 0 .. 1 |-> IF s = 1 THEN [NoManifest EXCEPT !.gen = 1]
                                         ELSE NoManifest]
    /\ Goto("createAnchor")
    /\ UNCHANGED <<files, anchor, st, why, tx, env, hist>>

CreateAnchor ==
    /\ pc = "createAnchor"
    /\ AnchorRecord(1, 1, 0)
    /\ st' = [gen |-> 1, root |-> ZeroRoot]
    /\ Goto("attach")
    /\ UNCHANGED <<files, mani, why, tx, env, hist>>

\* The accepted generation is recorded before the other checks run.
OpenAnchor ==
    /\ pc = "openAnchor"
    /\ AnchorRecord(Manifest.gen, Manifest.gen, 0)
    /\ Goto("openVerify")
    /\ UNCHANGED <<files, mani, st, why, tx, env, hist>>

\* Mutant: a database without a root is served without being migrated.
OpenVerifyUnmigrated ==
    /\ pc = "openVerify"
    /\ StructureOk(Manifest) /\ RootOk(Manifest)
    /\ st' = [gen |-> Manifest.gen, root |-> Manifest.root]
    /\ Goto("attach")
    /\ UNCHANGED <<files, mani, anchor, why, tx, env, hist>>

OpenVerify ==
    /\ pc = "openVerify"
    /\ LET m == Manifest IN
       \/ /\ StructureOk(m) /\ RootOk(m)
          /\ st' = [gen |-> m.gen, root |-> m.root]
          /\ Goto(IF m.root = ZeroRoot /\ ~Empty(main) /\ ~Hot(jrnl)
                  THEN "migrate" ELSE "attach")
       \/ /\ ~(StructureOk(m) /\ RootOk(m))
          /\ Goto("refused") /\ UNCHANGED st
    /\ UNCHANGED <<files, mani, anchor, why, tx, env, hist>>

\* seal_root_migration: same generation, so the current slot is overwritten.
SealRootMigration ==
    /\ pc = "migrate"
    /\ IF Authentic(main)
       THEN /\ WriteManifest([gen |-> st.gen, root |-> main,
                              prev |-> ZeroRoot, len |-> Present(main)])
            /\ st' = [st EXCEPT !.root = main]
            /\ Goto("attach")
       ELSE Goto("refused") /\ UNCHANGED <<mani, st>>
    /\ UNCHANGED <<files, anchor, why, tx, env, hist>>

-----------------------------------------------------------------------------
(* SQLite's pager (external): the order of its VFS calls.                  *)

\* An idle connection serves the main file.
Served == allowed' = IF main \in allowed THEN {main} ELSE allowed

\* The first read of the main file.  hasHotJournal answers no while
\* xCheckReservedLock reports the lock as held, which is always, so that a
\* journal left by a power loss stays where it is and the file is served as
\* it was found.
Attach ==
    /\ pc = "attach"
    /\ Goto("idle")
    /\ IF Hot(jrnl) THEN UNCHANGED allowed ELSE Served
    /\ UNCHANGED <<files, mani, anchor, st, why, tx, env, ackGen, epochSeen, overlaid>>

\* A write transaction starts: its first journal write has a zeroed magic,
\* so xWrite runs the finalization barrier on whatever journal is there; a
\* journal nobody has played back is hot, and the file as it is gets sealed.
Begin ==
    /\ pc = "idle" /\ txs < MaxTx
    /\ \E n \in Blocks, D \in SUBSET Blocks :
          LET len == 1 .. n IN
          /\ Shrinks \/ Present(main) \subseteq len
          /\ 1 \in D /\ D \subseteq len /\ len \ Present(main) \subseteq D
          /\ tx' = [b \in Blocks |-> IF b \in D THEN txs + 1
                                    ELSE IF b \in len THEN main[b] ELSE Absent]
    /\ txs' = txs + 1
    /\ why' = "begin"
    /\ overlaid' = (overlaid \/ Hot(jrnl))
    /\ Goto(IF Hot(jrnl) THEN "bar1" ELSE "zero")
    /\ UNCHANGED <<files, mani, anchor, st, token, snap, restarts, allowed, ackGen, epochSeen>>

\* Blocks of the starting image the transaction overwrites or cuts off.
Overwritten == {b \in Present(jrnl.pre) : tx[b] # jrnl.pre[b]}

\* Pre-images are appended to the journal; not yet durable.
JournalPages ==
    /\ pc = "tx"
    /\ \E S \in SUBSET (Overwritten \ jrnl.pages) :
          /\ S # {}
          /\ jrnl' = [jrnl EXCEPT !.pages = @ \cup S]
    /\ UNCHANGED <<main, diskMain, diskJrnl, mani, anchor, st, pc, why, tx, env, hist>>

\* syncJournal, first half: records durable, then the magic is written.
JournalMagic ==
    /\ pc = "tx" /\ ~Hot(jrnl)
    /\ jrnl.pages # {} \/ Empty(jrnl.pre)
    /\ diskJrnl' = jrnl
    /\ jrnl' = [jrnl EXCEPT !.hdr = "hot"]
    /\ UNCHANGED <<main, diskMain, mani, anchor, st, pc, why, tx, env, hist>>

\* syncJournal, second half (and the sync of a later segment after a spill).
JournalFlush ==
    /\ pc = "tx" /\ Hot(jrnl) /\ diskJrnl # jrnl
    /\ diskJrnl' = jrnl
    /\ UNCHANGED <<main, diskMain, jrnl, mani, anchor, st, pc, why, tx, env, hist>>

\* A dirty page reaches the main file, by a spill or at commit; only once
\* its pre-image is durable, and never leaving a hole.
WriteMain ==
    /\ pc = "tx" /\ Hot(jrnl) /\ Hot(diskJrnl)
    /\ \E b \in Present(tx) :
          /\ main[b] # tx[b]
          /\ b \in diskJrnl.pages \/ b \notin Present(jrnl.pre)
          /\ \A c \in 1 .. b - 1 : main[c] # Absent
          /\ main' = [main EXCEPT ![b] = tx[b]]
    /\ UNCHANGED <<diskMain, jrnl, diskJrnl, mani, anchor, st, pc, why, tx, env, hist>>

Commit ==
    /\ pc = "tx"
    /\ Overwritten \subseteq jrnl.pages /\ jrnl = diskJrnl
    /\ \A b \in Present(tx) : main[b] = tx[b]
    /\ why' = "commit"
    /\ Goto("syncMain")
    /\ allowed' = allowed \cup {tx}
    /\ UNCHANGED <<files, mani, anchor, st, tx, env, ackGen, epochSeen, overlaid>>

Rollback ==
    /\ pc = "tx"
    /\ main' = IF Hot(jrnl) THEN SqlitePlayback(main, jrnl) ELSE main
    /\ why' = "rollback"
    /\ Goto("syncMain")
    /\ UNCHANGED <<diskMain, jrnl, diskJrnl, mani, anchor, st, tx, env, hist>>

\* xSync of the main file: flush only, no seal (D-MR6).  The finalization
\* write that follows runs journal_finalize_barrier first: it seals iff the
\* journal is hot.
SyncMain ==
    /\ pc = "syncMain"
    /\ diskMain' = main
    /\ Goto(IF Hot(jrnl) THEN "bar1" ELSE "zero")
    /\ UNCHANGED <<main, jrnl, diskJrnl, mani, anchor, st, why, tx, env, hist>>

-----------------------------------------------------------------------------
(* on_main_synced: in-flight mark, sealed manifest, committed mark.        *)

\* Mutants: the committed mark is raised before the seal; a mark that an
\* interrupted barrier has already raised is taken for one in progress.
RecordInFlightEarly ==
    /\ pc = "bar1"
    /\ AnchorRecord(st.gen + 1, st.gen + 1, 0)
    /\ Goto("bar2")
    /\ UNCHANGED <<files, mani, st, why, tx, env, hist>>
RecordInFlightOnce ==
    /\ pc = "bar1" /\ AnchorLoad.inflight <= st.gen
    /\ AnchorRecord(0, st.gen + 1, 0)
    /\ Goto("bar2")
    /\ UNCHANGED <<files, mani, st, why, tx, env, hist>>

RecordInFlight ==
    /\ pc = "bar1"
    /\ AnchorRecord(0, st.gen + 1, 0)
    /\ Goto("bar2")
    /\ UNCHANGED <<files, mani, st, why, tx, env, hist>>

SealManifest ==
    /\ pc = "bar2"
    /\ IF Authentic(main)
       THEN /\ WriteManifest([gen |-> st.gen + 1, root |-> main,
                              prev |-> st.root, len |-> Present(main)])
            /\ Goto("bar3")
       ELSE Goto("ioerr") /\ UNCHANGED mani
    /\ UNCHANGED <<files, anchor, st, why, tx, env, hist>>

RecordCommitted ==
    /\ pc = "bar3"
    /\ AnchorRecord(st.gen + 1, st.gen + 1, 0)
    /\ st' = [gen |-> st.gen + 1, root |-> main]
    /\ Goto("zero")
    /\ UNCHANGED <<files, mani, why, tx, env, hist>>

\* The write that was held back: the journal header loses its magic.
ZeroHeader ==
    /\ pc = "zero"
    /\ IF why = "begin"
       THEN /\ jrnl' = [hdr |-> "none", pages |-> {}, pre |-> main]
            /\ Goto("tx")
       ELSE /\ jrnl' = [jrnl EXCEPT !.hdr = "none"]
            /\ Goto("zeroSync")
    /\ UNCHANGED <<main, diskMain, diskJrnl, mani, anchor, st, why, tx, env, hist>>

\* The commit is reported to the application.
Acknowledge ==
    /\ Goto("idle")
    /\ allowed' = {tx}
    /\ ackGen' = Larger(ackGen, st.gen)
    /\ UNCHANGED <<epochSeen, overlaid>>

\* The zeroed header is synced, leaving j on disk.  A transaction that
\* shortened the database truncates the file only after this point.
ZeroSyncTo(j) ==
    /\ pc = "zeroSync"
    /\ diskJrnl' = j
    /\ CASE why # "commit" -> /\ Goto("idle") /\ Served
                              /\ UNCHANGED <<ackGen, epochSeen, overlaid>>
         [] why = "commit" /\ Present(tx) = Present(main) -> Acknowledge
         [] OTHER -> Goto("shrink") /\ UNCHANGED hist
    /\ UNCHANGED <<main, diskMain, jrnl, mani, anchor, st, why, tx, env>>

\* Mutant: the journal is not flushed.
ZeroSyncUnflushed == ZeroSyncTo(diskJrnl)

ZeroSync == ZeroSyncTo(jrnl)

TruncateMain ==
    /\ pc = "shrink"
    /\ main' = Cut(main, Present(tx))
    /\ Acknowledge
    /\ UNCHANGED <<diskMain, jrnl, diskJrnl, mani, anchor, st, why, tx, env>>

-----------------------------------------------------------------------------
(* Sessions, epochs, stale copies and power loss.                          *)

Restart == restarts < MaxRestarts /\ restarts' = restarts + 1

\* The connection closes; SQLite deletes the dead journal it has open.
Close ==
    /\ pc = "idle" /\ Restart
    /\ jrnl' = IF jrnl.hdr = "none" THEN NoJournal ELSE jrnl
    /\ Goto("closed")
    /\ UNCHANGED <<main, diskMain, diskJrnl, mani, anchor, st, why, tx,
                   token, snap, txs, hist>>

\* The application tries again after a failed open or query.
Retry ==
    /\ pc \in {"refused", "ioerr"} /\ Restart
    /\ Goto("closed")
    /\ UNCHANGED <<files, mani, anchor, st, why, tx, token, snap, txs, hist>>

ExportEpoch ==
    /\ Epochs /\ pc = "idle" /\ token # Manifest.gen
    /\ token' = Manifest.gen
    /\ UNCHANGED <<files, mani, anchor, st, pc, why, tx, snap, txs, restarts, hist>>

\* apply_epoch at unlock, before the database is opened: the floor is saved
\* to both anchor slots.
ApplyEpoch ==
    /\ Epochs /\ pc = "closed" /\ token > 0 /\ Restart
    /\ Goto("epoch1")
    /\ UNCHANGED <<files, mani, anchor, st, why, tx, token, snap, txs, hist>>

SaveFloor ==
    /\ pc \in {"epoch1", "epoch2"}
    /\ AnchorRecord(token, token, token)
    /\ Goto(IF pc = "epoch1" THEN "epoch2" ELSE "closed")
    /\ epochSeen' = IF pc = "epoch1" THEN epochSeen ELSE Larger(epochSeen, token)
    /\ UNCHANGED <<files, mani, st, why, tx, env, allowed, ackGen, overlaid>>

\* A copy of the database files is taken, and later put back over them
\* (a backup or a profile restored); the anchor file is not part of it.
Snapshot ==
    /\ Restores /\ snap = {}
    /\ snap' = {[main |-> main, jrnl |-> jrnl, mani |-> mani]}
    /\ UNCHANGED <<files, mani, anchor, st, pc, why, tx, token, txs, restarts, hist>>

Restore ==
    /\ pc = "closed"
    /\ \E c \in snap : /\ main' = c.main /\ diskMain' = c.main
                       /\ jrnl' = c.jrnl /\ diskJrnl' = c.jrnl
                       /\ mani' = c.mani
    /\ snap' = {}
    /\ UNCHANGED <<anchor, st, pc, why, tx, token, txs, restarts, hist>>

Unsynced == {b \in Blocks : main[b] # diskMain[b]}

\* What is left of the main file: of its unflushed blocks, T are torn, S are
\* the new ones and the rest the old ones.
Survivor(S, T) == [b \in Blocks |-> IF b \in T THEN Torn
                                    ELSE IF b \in S THEN main[b] ELSE diskMain[b]]

\* A file grows block by block but is cut by a single truncate call.
LengthAtomic(img) ==
    Present(main) \subseteq Present(diskMain) =>
        Present(img) \in {Present(main), Present(diskMain)}

\* The steps that are a slot write, and the slot a torn one destroys.
AnchorWrites   == {"openAnchor", "createAnchor", "bar1", "bar3", "epoch1", "epoch2"}
ManifestWrites == {"create", "migrate", "bar2"}
ManifestSlot   == CASE pc = "bar2"    -> (st.gen + 1) % 2
                    [] pc = "migrate" -> st.gen % 2
                    [] OTHER          -> 1

\* Power loss or a killed worker, at any point.
Crash ==
    /\ Restart
    /\ \E S \in SUBSET Unsynced : \E T \in SUBSET (IF Tears THEN Unsynced ELSE {}) :
          LET img == Survivor(S, T) IN
          /\ Contiguous(img) /\ LengthAtomic(img)
          /\ main' = img /\ diskMain' = img
    /\ \/ jrnl' \in {diskJrnl, jrnl}
       \/ /\ Tears /\ diskJrnl.hdr # jrnl.hdr
          /\ jrnl' = [jrnl EXCEPT !.hdr = "torn"]
    /\ diskJrnl' = jrnl'
    /\ \/ UNCHANGED anchor
       \/ pc \in AnchorWrites /\ anchor' = [anchor EXCEPT ![AnchorSlot] = NoAnchor]
    /\ \/ UNCHANGED mani
       \/ pc \in ManifestWrites /\ mani' = [mani EXCEPT ![ManifestSlot] = NoManifest]
    /\ Goto("closed") /\ why' = "begin"
    /\ st' = [gen |-> 0, root |-> ZeroRoot]
    /\ UNCHANGED <<tx, token, snap, txs, hist>>

-----------------------------------------------------------------------------
(* The states a session may find the disk in.                              *)

StartImage(n) == [b \in Blocks |-> IF b \in 1 .. n THEN 0 ELSE Absent]

\* After creation and one commit: generation 2, sealed with or without root.
StartFiles(img, root) ==
    /\ main = img
    /\ mani = [s \in 0 .. 1 |->
                 IF s = 1 THEN [NoManifest EXCEPT !.gen = 1]
                 ELSE [gen |-> 2, root |-> root, prev |-> ZeroRoot,
                       len |-> Present(img)]]
    /\ anchor = [s \in 0 .. 1 |->
                 [seq |-> 2 + s, committed |-> 1 + s, inflight |-> 2, floor |-> 0]]
    /\ ackGen = 2

\* Before the first open.
NewDisk ==
    /\ main = NoImage
    /\ mani = [s \in 0 .. 1 |-> NoManifest]
    /\ anchor = [s \in 0 .. 1 |-> NoAnchor]
    /\ ackGen = 0

Init ==
    /\ \/ "none" \in Starts /\ NewDisk
       \/ "populated" \in Starts /\ \E n \in Blocks : StartFiles(StartImage(n), StartImage(n))
       \/ "legacy" \in Starts /\ \E n \in Blocks : StartFiles(StartImage(n), ZeroRoot)
    /\ diskMain = main
    /\ jrnl = NoJournal /\ diskJrnl = NoJournal
    /\ st = [gen |-> 0, root |-> ZeroRoot]
    /\ pc = "closed" /\ why = "begin" /\ tx = NoImage
    /\ token = 0 /\ snap = {} /\ txs = 0 /\ restarts = 0
    /\ allowed = {main}
    /\ epochSeen = 0 /\ overlaid = FALSE

OpenStep     == OpenFresh \/ OpenRead \/ CreateManifest \/ CreateAnchor \/ OpenAnchor
                \/ OpenVerify \/ SealRootMigration \/ Attach
BarrierStep  == RecordInFlight \/ SealManifest \/ RecordCommitted
                \/ SyncMain \/ ZeroHeader \/ ZeroSync \/ TruncateMain
TxStep       == JournalPages \/ JournalMagic \/ JournalFlush \/ WriteMain
                \/ Commit \/ Rollback
Environment  == Begin \/ Close \/ Retry \/ ExportEpoch \/ ApplyEpoch
                \/ Snapshot \/ Restore \/ Crash

Next == OpenStep \/ BarrierStep \/ TxStep \/ SaveFloor \/ Environment

Spec == Init /\ [][Next]_vars

\* A synchronous worker runs an operation it has started to its end unless it
\* is killed; nobody is obliged to begin, end or write a transaction, to close,
\* to retry or to crash.
FairSpec == Spec /\ WF_vars(OpenStep \/ BarrierStep \/ SaveFloor)

-----------------------------------------------------------------------------
(* Properties.                                                             *)

Pcs == {"closed", "create", "createAnchor", "openAnchor", "openVerify",
        "migrate", "attach", "syncMain", "bar1", "bar2", "bar3",
        "zero", "zeroSync", "shrink", "idle", "tx", "refused", "ioerr",
        "epoch1", "epoch2"}

Roots      == Images \cup {ZeroRoot}
Journals   == [hdr : {"none", "hot", "torn"}, pages : SUBSET Blocks, pre : Images]
Manifests  == [gen : Nat, root : Roots, prev : Roots, len : SUBSET Blocks]
Anchors    == [seq : Nat, committed : Nat, inflight : Nat, floor : Nat]

\* The type of every variable of vfs.rs that the model keeps.
TypeOK ==
    /\ main \in Images /\ diskMain \in Images /\ tx \in Images
    /\ jrnl \in Journals /\ diskJrnl \in Journals
    /\ mani \in [0 .. 1 -> Manifests]
    /\ anchor \in [0 .. 1 -> Anchors]
    /\ st \in [gen : Nat, root : Roots]
    /\ pc \in Pcs
    /\ why \in {"begin", "commit", "rollback"}
    /\ token \in Nat /\ txs \in Nat /\ restarts \in Nat
    /\ snap \subseteq [main : Images, jrnl : Journals, mani : [0 .. 1 -> Manifests]]
    /\ allowed \subseteq Images
    /\ ackGen \in Nat /\ epochSeen \in Nat /\ overlaid \in BOOLEAN

\* "every reopen succeeds ... zero bricks": whatever was lost, a closed
\* database is one that open_main_db admits, or an empty one it creates; up to
\* the first transaction begun over a journal that nobody played back.
NeverBricked ==
    pc = "closed" /\ ~overlaid => Opens \/ (Manifest.gen = 0 /\ Empty(main))

\* The same without the exception, as docs/BUILD-NOTES.md states it.
EveryReopenSucceeds ==
    pc = "closed" => Opens \/ (Manifest.gen = 0 /\ Empty(main))

\* img contains the last acknowledged image, or that of a commit that was
\* interrupted after it had been requested.
Whole(img) == \E old \in allowed : Cut(img, Present(old)) = old

\* "the count is always exactly pre- or post-transaction", of what an idle
\* connection serves, be the transaction committed or not.
PreOrPost == pc = "idle" => Whole(main) \/ main = tx

\* What is true of it: the file that is served is whole, unless it lies beside
\* a hot journal, and then playing that back would make it so.  Nothing keeps
\* it true once a transaction overwrites the journal.
Durable ==
    pc = "idle" /\ ~overlaid =>
        Whole(IF Hot(jrnl) THEN SqlitePlayback(main, jrnl) ELSE main)

\* An acknowledged generation is behind the anchor's committed mark, and the
\* committed mark is never ahead of the manifest a crash leaves readable, so
\* the rollback test of open_main_db cannot fire on a database that merely
\* lost power.
GenerationLadder ==
    /\ ackGen <= AnchorLoad.committed
    /\ AnchorLoad.committed <= Manifest.gen

\* "Values only move forward", across ping-pong writes and torn slots: no
\* step lowers what anchor_load returns, unless a fresh uuid replaces it.
AnchorForward ==
    [][pc' # "create" =>
          /\ AnchorLoad'.committed >= AnchorLoad.committed
          /\ AnchorLoad'.inflight >= AnchorLoad.inflight
          /\ AnchorLoad'.floor >= AnchorLoad.floor]_vars

\* Every open, commit and rollback comes to its end, or the database is served
\* again after the power loss that interrupted it, once power stops failing.
Reopens ==
    (pc \notin {"idle", "tx"} /\ ~overlaid) ~> (pc \in {"idle", "tx"})

\* Whatever stale copy of the files is put back, the database that opens is
\* at most one generation behind the newest acknowledged commit.
RollbackBound == pc \in {"attach", "idle", "tx"} => st.gen >= ackGen - 1

\* A generation a peer attested is a floor without slack once apply_epoch
\* has returned, even if power fails during a later anchor write.
EpochStrict == pc \in {"attach", "idle", "tx"} => st.gen >= epochSeen

\* "a durable zero-root DB self-populates a root on its first writable,
\* journal-free open": data is served without a root only beside a hot journal,
\* and no transaction is journalled over data without a root.
ServedIsRooted ==
    Manifest.root = ZeroRoot =>
        /\ pc = "idle" => Empty(main) \/ Hot(jrnl)
        /\ pc = "tx" => Empty(jrnl.pre)

\* The VFS implements the page store.  A transaction writes its pages between
\* the write of the journal's magic and the sync of the main file; before and
\* after, the store is the image it started from, or the main file.
InTx  == pc \in {"tx", "syncMain"}
Store == INSTANCE PageStore WITH
             Page    <- Blocks,
             Image   <- Images,
             up      <- pc # "closed",
             store   <- IF InTx THEN jrnl.pre ELSE main,
             writing <- IF InTx /\ (Hot(jrnl) \/ pc = "syncMain") THEN {tx} ELSE {}
StoreSpec == Store!Spec

=============================================================================
