------------------------------- MODULE Vault --------------------------------
(***************************************************************************)
(* One vault on one device: the calls of the JavaScript SDK                *)
(* (packages/db/index.js) that unlock it, change its unlock methods and    *)
(* rotate its key, the worker operations they post                         *)
(* (crates/freehold/src/lib.rs), and the files of the pool those           *)
(* operations rewrite (crates/freehold/src/vfs.rs).                        *)
(*                                                                         *)
(* The vault lives in two stores that no transaction spans: IndexedDB      *)
(* holds the envelope, its generation floor and a peer's epoch token; the  *)
(* pool holds the databases, the anchor and what a rotation stages.  One   *)
(* step is one durable write of either store, or what runs between two     *)
(* awaits.  Power loss, a closed tab or a killed worker may come between   *)
(* any two steps.                                                          *)
(*                                                                         *)
(* Abstractions.                                                           *)
(*  - The beginning and the commit of a transaction are one step each (the *)
(*    steps are VfsCommit's).  A database file is its version, or Mid      *)
(*    between a transaction's first write and its commit; the journal then *)
(*    holds the version before it.  A journal that power loss leaves is    *)
(*    not played back: it lets the VFS accept the file, which is served as *)
(*    it is, and the next transaction begins by sealing it as a version.   *)
(*  - The manifest's generation is the version.  The anchor's two slots    *)
(*    are one record, readable under the key that sealed it.               *)
(*  - A file being imported is Partial until its last byte is flushed.     *)
(*  - WebAuthn shows one prompt at a time; a request made while one is     *)
(*    showing is rejected (external).                                      *)
(***************************************************************************)
EXTENDS Envelope

CONSTANTS
    NumDbs,     \* databases of the vault
    Capacities, \* sizes the pool may have, in files
    Calls,      \* SDK calls that may be under way at once
    MaxCalls,   \* bound: calls begun
    MaxWrites,  \* bound: transactions begun
    MaxCrashes, \* bound: crashes
    MaxRotations, \* bound: rotations begun
    RotatesOverJournal \* may rotateKey() be called while a journal that an
                       \* earlier crash left behind is still in the pool?

ASSUME VaultAssumption ==
    /\ NumDbs \in Nat \ {0}
    /\ Capacities \subseteq Nat /\ \A room \in Capacities : room >= 2 * NumDbs
    /\ MaxCalls \in Nat /\ MaxWrites \in Nat /\ MaxCrashes \in Nat /\ MaxRotations \in Nat
    /\ RotatesOverJournal \in BOOLEAN

Dbs == 1 .. NumDbs
Mid == 0                       \* a main file in the middle of a transaction
NoDek == 0
Prf == 0                       \* the secret of the user's passkey
Code(n) == n                   \* the n-th recovery code minted

Main(db)   == <<"main", db>>
Mani(db)   == <<"manifest", db>>
Jrnl(db)   == <<"journal", db>>
Shadow(n)  == <<"shadow", n>>
Intent     == <<"intent", 0>>
LiveNames  == {Main(db) : db \in Dbs} \cup {Mani(db) : db \in Dbs}
Names      == LiveNames \cup {Shadow(n) : n \in LiveNames}
              \cup {Jrnl(db) : db \in Dbs} \cup {Intent}

Missing == [is |-> "missing"]
Partial == [is |-> "partial"]
File(dek, ver)          == [is |-> "file", dek |-> dek, ver |-> ver]
Journal(dek, hot, pre)  == [is |-> "journal", dek |-> dek, hot |-> hot, pre |-> pre]
NoToken == [dek |-> NoDek, db |-> 1, gen |-> 0, env |-> 0]
NoEnv   == CreateEnvelope(NoDek, Prf, Passkey)

VARIABLES
    idb,    \* IndexedDB: [env, floor, epoch]
    files,  \* the pool's files, by name
    anchor, \* the freshness anchor: [dek, committed, floor]
    sess,   \* the worker: [on, pool, open, wrote, leaked]
    call,   \* the local variables of each SDK call
    queue,  \* the calls whose message the worker has not taken yet
    busy,   \* the call the worker is running, as a set of at most one
    answered, \* the calls whose new envelope is on its way to IndexedDB, in
              \* the order of the worker's answers
    acked,  \* history: the version each database was last sealed at, by a
            \* commit or by a transaction that found a half-written file
    overtaken, \* history: has a call written an envelope over one it had not
               \* read or under a session's feet, opened a session with an
               \* envelope that was replaced meanwhile or over one that was
               \* open, or discarded what another was about to commit?
    n       \* counters, and the size of the pool:
            \* [calls, writes, crashes, deks, codes, room]

durable == <<idb, files, anchor>>
vars == <<idb, files, anchor, sess, call, queue, busy, answered, acked, overtaken, n>>

Rest == [op |-> "none", pc |-> "idle", env |-> NoEnv, next |-> NoEnv, epoch |-> NoToken,
         dek |-> NoDek, todo |-> <<>>, db |-> 1, floor |-> 0]

At(c, p) == call[c].pc = p
Go(c, p) == [call EXCEPT ![c].pc = p]
Return(c) == [call EXCEPT ![c] = Rest]
Runs(c, p) == busy = {c} /\ At(c, p)

Used == Cardinality({f \in Names : files[f] # Missing})
HasRoom(f) == files[f] # Missing \/ Used < n.room

-----------------------------------------------------------------------------
(* The pool as one key sees it. *)

\* anchor_load: an anchor sealed under another key reads as empty.
AnchorLoad(dek) ==
    IF anchor.dek = dek THEN anchor
    ELSE [dek |-> dek, committed |-> [db \in Dbs |-> 0], floor |-> [db \in Dbs |-> 0]]

\* anchor_record_full: each mark moves forward only.
AnchorRecord(dek, db, committed, floor) ==
    LET a == AnchorLoad(dek)
    IN  [a EXCEPT !.committed[db] = Max({@, committed}), !.floor[db] = Max({@, floor})]

\* The version as which opening db under dek accepts it, in a pool with files
\* f: the files authenticate, a journal (if any) authenticates, and the main
\* file, or what its hot journal says was there before, is that version.
Serves(f, dek, db, ver) ==
    LET main == f[Main(db)]
        mani == f[Mani(db)]
        jrnl == f[Jrnl(db)]
    IN  /\ main.is = "file" /\ main.dek = dek
        /\ mani.is = "file" /\ mani.dek = dek /\ mani.ver = ver
        /\ jrnl # Missing => jrnl.dek = dek
        /\ ver = IF jrnl # Missing /\ jrnl.hot THEN jrnl.pre ELSE main.ver

IsHot(db) == files[Jrnl(db)] # Missing /\ files[Jrnl(db)].hot

\* open_main_db's freshness rule, on top.
Fresh(dek, db) ==
    LET a == AnchorLoad(dek)
        g == files[Mani(db)].ver
    IN  ~(g + 1 < a.committed[db]) /\ ~(g < a.floor[db])

\* recover_rotation, run to its end on files f under dek.
Recovered(f, dek) ==
    IF f[Intent] = Missing THEN f
    ELSE IF f[Intent] # Partial /\ f[Intent].dek = dek
         THEN [x \in Names |->
                IF x \in LiveNames /\ f[Shadow(x)] # Missing THEN f[Shadow(x)]
                ELSE IF x = Intent \/ \E y \in LiveNames : x = Shadow(y) THEN Missing
                ELSE f[x]]
         ELSE [x \in Names |->
                IF x = Intent \/ \E y \in LiveNames : x = Shadow(y) THEN Missing ELSE f[x]]

-----------------------------------------------------------------------------
(* The SDK: a call up to the message it posts. *)

\* #envelope(): the stored envelope, refused below the floor, once the worker
\* has answered envelope_generation.
Starts(c, op) ==
    /\ At(c, "idle") /\ n.calls < MaxCalls
    /\ n' = [n EXCEPT !.calls = @ + 1]
    /\ CheckFresh(idb.env, idb.floor)
    /\ call' = [call EXCEPT ![c] = [Rest EXCEPT !.op = op, !.pc = "check",
                                    !.env = idb.env, !.epoch = idb.epoch]]
    /\ queue' = Append(queue, c)
    /\ UNCHANGED <<idb, files, anchor, sess, busy, answered, acked, overtaken>>

\* unlock()
Unlock(c) == Starts(c, "unlock")

\* addRecoveryCode(); addPasskey() differs in the kind of slot only.
AddRecoveryCode(c) == Starts(c, "add")

\* removeMethod(kekId)
RemoveMethod(c) == Starts(c, "remove")

\* rotateKey(), of an unlocked vault.
RotateKey(c) ==
    /\ sess.on /\ n.deks < 1 + MaxRotations
    /\ RotatesOverJournal \/ \A db \in Dbs : files[Jrnl(db)] # Missing => db \in sess.wrote
    /\ Starts(c, "rotate")

\* sql() and lock() post their message at once; the auto-lock timer is a
\* call of lock() as well.
Posts(c, op) ==
    /\ At(c, "idle") /\ n.calls < MaxCalls
    /\ n' = [n EXCEPT !.calls = @ + 1]
    /\ queue' = Append(queue, c)
    /\ UNCHANGED <<idb, files, anchor, sess, busy, answered, acked, overtaken>>

Sql(c) == /\ Posts(c, "sql")
          /\ \E db \in Dbs :
                call' = [call EXCEPT ![c] = [Rest EXCEPT !.op = "sql", !.pc = "sent", !.db = db]]

Lock(c) == /\ Posts(c, "lock")
           /\ call' = [call EXCEPT ![c] = [Rest EXCEPT !.op = "lock", !.pc = "sent"]]

\* The user is slower than IndexedDB: what a call does between two short
\* awaits is over before a prompt is confirmed.  Work in the worker (sealing
\* files again, Argon2) may take longer than the user.
StorageIsIdle ==
    /\ \A c \in Calls :
        call[c].pc \notin {"put", "floor", "raise", "token", "reopen", "install"}
    /\ busy = {} => queue = <<>>

\* assertPrf: the prompt is showing; the user confirms, and the call posts
\* its message, or cancels.
Confirm(c) ==
    /\ At(c, "showing") /\ StorageIsIdle
    /\ call' = Go(c, "sent") /\ queue' = Append(queue, c)
    /\ UNCHANGED <<idb, files, anchor, sess, busy, answered, acked, overtaken, n>>

Cancel(c) ==
    /\ At(c, "showing")
    /\ call' = Return(c)
    /\ UNCHANGED <<idb, files, anchor, sess, queue, busy, answered, acked, overtaken, n>>

-----------------------------------------------------------------------------
(* The worker: one message at a time, in the order they were posted. *)

\* session_lock_inner: close every connection (one that has written deletes
\* its journal), then pause_vfs, which refuses while a file is still open.
\* open_files is a set of names: a second connection of a database that is
\* closed takes the name of a leaked one with it.
Closed == [f \in Names |-> IF \E db \in sess.wrote : f = Jrnl(db) THEN Missing ELSE files[f]]
\* Mutant: the set of connections that have written is not reset.
LockedKeepsWrote == IF ~sess.on THEN sess
                    ELSE [sess EXCEPT !.on = FALSE, !.pool = NoDek, !.open = {}]

Locked == IF ~sess.on THEN sess
          ELSE [on |-> FALSE, open |-> {}, wrote |-> {}, leaked |-> sess.leaked \ sess.open,
                pool |-> IF sess.leaked \subseteq sess.open THEN NoDek ELSE sess.pool]

LockFails == sess.on /\ ~(sess.leaked \subseteq sess.open)

\* A new envelope is answered.  The answers arrive in the order the worker
\* gave them, and IndexedDB runs the idbSet of each in that order.
Answers(c, next) ==
    /\ call' = [call EXCEPT ![c].pc = "put", ![c].next = next]
    /\ answered' = Append(answered, c)

Takes(c, op) ==
    /\ busy = {} /\ queue # <<>> /\ c = Head(queue) /\ At(c, "sent")
    /\ call[c].op \in op
    /\ queue' = Tail(queue)

\* envelope_generation: the call asks for the passkey next.  It throws when
\* another prompt is showing.
TakeCheck(c) ==
    /\ busy = {} /\ queue # <<>> /\ c = Head(queue) /\ At(c, "check")
    /\ queue' = Tail(queue)
    /\ call' = IF \E o \in Calls : At(o, "showing") THEN Return(c) ELSE Go(c, "showing")
    /\ UNCHANGED <<idb, files, anchor, sess, busy, answered, acked, overtaken, n>>

\* envelope_generation, asked by #bumpFloor of the envelope just stored.
TakeAsk(c) ==
    /\ busy = {} /\ queue # <<>> /\ c = Head(queue) /\ At(c, "ask")
    /\ queue' = Tail(queue)
    /\ call' = Go(c, "floor")
    /\ UNCHANGED <<idb, files, anchor, sess, busy, answered, acked, overtaken, n>>

\* session_lock
TakeLock(c) ==
    /\ Takes(c, {"lock"})
    /\ files' = Closed /\ sess' = Locked /\ call' = Return(c)
    /\ UNCHANGED <<idb, anchor, busy, answered, acked, overtaken, n>>

\* add_recovery: the passkey must open the envelope it was handed.
TakeAdd(c) ==
    /\ Takes(c, {"add"})
    /\ LET key == OpenWith(call[c].env, Prf)
       IN IF IsRefused(key) THEN call' = Return(c) /\ UNCHANGED answered
          ELSE Answers(c, AddSlot(call[c].env, key.dek, Code(n.codes + 1), Recovery))
    /\ n' = [n EXCEPT !.codes = @ + 1]
    /\ UNCHANGED <<idb, files, anchor, sess, busy, acked, overtaken>>

\* remove_method
TakeRemove(c) ==
    /\ Takes(c, {"remove"})
    /\ LET key == OpenWith(call[c].env, Prf)
       IN \E id \in SlotIds(call[c].env) :
            LET next == IF IsRefused(key) THEN Refused ELSE RemoveSlot(call[c].env, key.dek, id)
            IN IF IsRefused(next) THEN call' = Return(c) /\ UNCHANGED answered
               ELSE Answers(c, next)
    /\ UNCHANGED <<idb, files, anchor, sess, busy, acked, overtaken, n>>

\* The files of the given databases in the order they are re-sealed and
\* swapped: main file, then manifest, one database after the other.
Work(dbs) ==
    [i \in 1 .. 2 * Cardinality(dbs) |->
        LET db == Nth(dbs, (i + 1) \div 2) IN IF i % 2 = 1 THEN Main(db) ELSE Mani(db)]

\* rotate_dek_inner up to stage_rotation: authorize, mint the key and the
\* envelope, close the connections.
TakeRotate(c) ==
    /\ Takes(c, {"rotate"})
    /\ LET key == OpenWith(call[c].env, Prf)
           dbs == {db \in Dbs : files[Main(db)] # Missing}
       IN IF ~sess.on \/ IsRefused(key)
          THEN call' = Return(c) /\ UNCHANGED <<files, sess, busy, n>>
          ELSE /\ n' = [n EXCEPT !.deks = @ + 1, !.codes = @ + 1]
               /\ call' = [call EXCEPT ![c].pc = "stage", ![c].dek = n.deks + 1,
                             ![c].todo = Work(dbs),
                             ![c].next = RotateEnvelope(call[c].env, n.deks + 1, Prf,
                                                        Code(n.codes + 1))]
               /\ files' = Closed
               /\ sess' = [sess EXCEPT !.open = {}, !.wrote = {}, !.leaked = @ \ sess.open]
               /\ busy' = {c}
    /\ UNCHANGED <<idb, anchor, answered, acked, overtaken>>

\* reseal_db_ciphertext of one file; a manifest slot that does not
\* authenticate under the old key is copied as it is.
Resealed(f, dek) == IF f.dek = sess.pool THEN [f EXCEPT !.dek = dek] ELSE f

\* An operation of the worker fails; what it wrote stays.
Fails(c) == /\ call' = Return(c) /\ busy' = {}
            /\ UNCHANGED <<files, sess>>

\* stage_rotation, one file at a time (import_ciphertext_file).
StageFile(c) ==
    /\ Runs(c, "stage") /\ call[c].todo # <<>>
    /\ LET f == Head(call[c].todo)
       IN IF files[f].is # "file" \/ (f[1] = "main" /\ files[f].dek # sess.pool)
             \/ ~HasRoom(Shadow(f))
          THEN Fails(c)
          ELSE /\ files' = [files EXCEPT ![Shadow(f)] = Partial]
               /\ call' = Go(c, "stageFill")
               /\ UNCHANGED <<sess, busy>>
    /\ UNCHANGED <<idb, anchor, queue, answered, acked, overtaken, n>>

StageFill(c) ==
    /\ Runs(c, "stageFill")
    /\ LET f == Head(call[c].todo)
       IN files' = [files EXCEPT ![Shadow(f)] = Resealed(files[f], call[c].dek)]
    /\ call' = [call EXCEPT ![c].pc = "stage", ![c].todo = Tail(@)]
    /\ UNCHANGED <<idb, anchor, sess, queue, busy, answered, acked, overtaken, n>>

\* The intent record lands last.
StageIntent(c) ==
    /\ Runs(c, "stage") /\ call[c].todo = <<>>
    /\ IF ~HasRoom(Intent) THEN Fails(c)
       ELSE /\ files' = [files EXCEPT ![Intent] = Partial]
            /\ call' = Go(c, "intentFill")
            /\ UNCHANGED <<sess, busy>>
    /\ UNCHANGED <<idb, anchor, queue, answered, acked, overtaken, n>>

\* Mutant: the record of the first layout, without the anchor's marks.
IntentFillV1(c) ==
    /\ Runs(c, "intentFill")
    /\ files' = [files EXCEPT ![Intent] =
            [is |-> "intent", dek |-> call[c].dek, dbs |-> {db \in Dbs : files[Main(db)] # Missing},
             committed |-> [db \in Dbs |-> 0], floor |-> [db \in Dbs |-> 0]]]
    /\ sess' = Locked
    /\ IF LockFails THEN call' = Return(c) /\ UNCHANGED answered
       ELSE Answers(c, call[c].next)
    /\ busy' = {}
    /\ UNCHANGED <<idb, anchor, queue, acked, overtaken, n>>

\* The record is complete; rotate_dek_inner locks the session and answers.
IntentFill(c) ==
    /\ Runs(c, "intentFill")
    /\ LET a == AnchorLoad(sess.pool)
       IN files' = [files EXCEPT ![Intent] =
            [is |-> "intent", dek |-> call[c].dek, dbs |-> {db \in Dbs : files[Main(db)] # Missing},
             committed |-> a.committed, floor |-> a.floor]]
    /\ sess' = Locked
    /\ IF LockFails THEN call' = Return(c) /\ UNCHANGED answered
       ELSE Answers(c, call[c].next)
    /\ busy' = {}
    /\ UNCHANGED <<idb, anchor, queue, acked, overtaken, n>>

\* session_open up to its one await: unwrap the key, lock what was open.
TakeOpen(c) ==
    /\ Takes(c, {"unlock", "reopen"})
    /\ LET key == OpenWith(call[c].env, Prf)
       IN IF IsRefused(key)
          THEN call' = Return(c) /\ UNCHANGED <<files, sess>>
          ELSE /\ files' = Closed /\ sess' = Locked
               /\ call' = IF LockFails THEN Return(c)
                          ELSE [call EXCEPT ![c].pc = "install", ![c].dek = key.dek]
    /\ UNCHANGED <<idb, anchor, busy, answered, acked, overtaken, n>>

\* install: a pool that is still registered is returned as it is, with the
\* key it has.  Then recover_rotation chooses its direction.
Install(c) ==
    /\ At(c, "install") /\ busy = {}
    /\ LET pool == IF sess.pool = NoDek THEN call[c].dek ELSE sess.pool
           it   == files[Intent]
       IN /\ sess' = [sess EXCEPT !.pool = pool]
          /\ call' = IF it = Missing THEN Go(c, "apply")
                     ELSE IF it # Partial /\ it.dek = pool
                          THEN [call EXCEPT ![c].pc = "swap", ![c].todo = Work(it.dbs)]
                          ELSE Go(c, "discard")
          /\ overtaken' = (overtaken \/ pool # idb.env.mac.key)
    /\ busy' = {c}
    /\ UNCHANGED <<idb, files, anchor, queue, answered, acked, n>>

\* Mutant: the intent is dropped when the swap begins.
SwapFileDisarmed(c) ==
    /\ Runs(c, "swap") /\ call[c].todo # <<>>
    /\ files' = [files EXCEPT ![Head(call[c].todo)] = Partial, ![Intent] = Missing]
    /\ call' = Go(c, "swapFill")
    /\ UNCHANGED <<idb, anchor, sess, queue, busy, answered, acked, overtaken, n>>

\* recover_rotation, forward: each live file is replaced by its shadow.
SwapFile(c) ==
    /\ Runs(c, "swap") /\ call[c].todo # <<>>
    /\ LET f == Head(call[c].todo)
       IN IF files[Shadow(f)] = Missing
          THEN call' = [call EXCEPT ![c].todo = Tail(@)] /\ UNCHANGED files
          ELSE /\ files' = [files EXCEPT ![f] = Partial]
               /\ call' = Go(c, "swapFill")
    /\ UNCHANGED <<idb, anchor, sess, queue, busy, answered, acked, overtaken, n>>

SwapFill(c) ==
    /\ Runs(c, "swapFill")
    /\ LET f == Head(call[c].todo)
       IN files' = [files EXCEPT ![f] = files[Shadow(f)]]
    /\ call' = Go(c, "swapDrop")
    /\ UNCHANGED <<idb, anchor, sess, queue, busy, answered, acked, overtaken, n>>

SwapDrop(c) ==
    /\ Runs(c, "swapDrop")
    /\ files' = [files EXCEPT ![Shadow(Head(call[c].todo))] = Missing]
    /\ call' = [call EXCEPT ![c].pc = "swap", ![c].todo = Tail(@)]
    /\ UNCHANGED <<idb, anchor, sess, queue, busy, answered, acked, overtaken, n>>

\* The anchor's marks are carried to the new key, then the intent goes.
Uncarried == LET it == files[Intent]
                 a  == AnchorLoad(sess.pool)
             IN {db \in Dbs : a.committed[db] < it.committed[db] \/ a.floor[db] < it.floor[db]}

CarryAnchor(c) ==
    /\ Runs(c, "swap") /\ call[c].todo = <<>>
    /\ \E db \in Uncarried :
         anchor' = AnchorRecord(sess.pool, db, files[Intent].committed[db], files[Intent].floor[db])
    /\ UNCHANGED <<idb, files, sess, call, queue, busy, answered, acked, overtaken, n>>

DropIntent(c) ==
    /\ Runs(c, "swap") /\ call[c].todo = <<>> /\ Uncarried = {}
    /\ files' = [files EXCEPT ![Intent] = Missing]
    /\ call' = Go(c, "apply")
    /\ UNCHANGED <<idb, anchor, sess, queue, busy, answered, acked, overtaken, n>>

\* discard_rotation_staging: shadows and intent go, in any order.
Staging == {f \in Names : files[f] # Missing /\ (f = Intent \/ f[1] = "shadow")}

Discard(c) ==
    /\ Runs(c, "discard")
    /\ \E f \in Staging :
         /\ files' = [files EXCEPT ![f] = Missing]
         /\ call' = IF Staging = {f} THEN Go(c, "apply") ELSE call
    /\ overtaken' = (overtaken \/ \E o \in Calls : call[o].op = "rotate" /\ At(o, "put"))
    /\ UNCHANGED <<idb, anchor, sess, queue, busy, answered, acked, n>>

\* session_begin from the epoch token on.  A token that does not open fails
\* the unlock and leaves the pool installed; an envelope below the attested
\* generation fails it too, and pauses the pool.
ApplyEpoch(c) ==
    /\ Runs(c, "apply")
    /\ LET t  == call[c].epoch
           on == [sess EXCEPT !.on = TRUE, !.open = {}, !.wrote = {},
                              !.leaked = @ \cup sess.open]
       IN \/ /\ t = NoToken
             /\ sess' = on /\ UNCHANGED anchor
          \/ /\ t # NoToken /\ t.dek # sess.pool
             /\ UNCHANGED <<sess, anchor>>
          \/ /\ t # NoToken /\ t.dek = sess.pool
             /\ anchor' = AnchorRecord(sess.pool, t.db, t.gen, t.gen)
             /\ sess' = IF call[c].env.gen >= t.env THEN on
                        ELSE IF sess.open \cup sess.leaked = {}
                             THEN [sess EXCEPT !.pool = NoDek] ELSE sess
    /\ call' = Return(c) /\ busy' = {}
    /\ overtaken' = (overtaken \/ sess.open # {})
    /\ UNCHANGED <<idb, files, queue, answered, acked, n>>

\* session_sql opens the database on first use: freshness and authenticity.
\* A hot journal stays as it is, and so does the main file.
TakeSql(c) ==
    /\ Takes(c, {"sql"})
    /\ LET db == call[c].db
       IN IF ~sess.on \/ sess.pool = NoDek
             \/ (db \notin sess.open /\
                 ~(Serves(files, sess.pool, db, files[Mani(db)].ver) /\ Fresh(sess.pool, db)))
          THEN call' = Return(c) /\ UNCHANGED <<anchor, sess, busy>>
          ELSE /\ call' = Go(c, "ready") /\ busy' = {c}
               /\ IF db \in sess.open THEN UNCHANGED <<anchor, sess>>
                  ELSE /\ sess' = [sess EXCEPT !.open = @ \cup {db}]
                       /\ anchor' = AnchorRecord(sess.pool, db, files[Mani(db)].ver, 0)
    /\ UNCHANGED <<idb, files, answered, acked, overtaken, n>>

\* The statement only reads.
SqlRead(c) ==
    /\ Runs(c, "ready")
    /\ call' = Return(c) /\ busy' = {}
    /\ UNCHANGED <<idb, files, anchor, sess, queue, answered, acked, overtaken, n>>

\* The statement writes: the journal is made hot, the main file changes.  A
\* journal that is not there yet needs a free file of the pool.
SqlBegin(c) ==
    /\ Runs(c, "ready") /\ n.writes < MaxWrites
    /\ ~IsHot(call[c].db)
    /\ LET db == call[c].db
       IN IF ~HasRoom(Jrnl(db)) THEN Fails(c) /\ UNCHANGED n
          ELSE /\ files' = [files EXCEPT
                     ![Jrnl(db)] = Journal(sess.pool, TRUE, files[Main(db)].ver),
                     ![Main(db)].ver = Mid]
               /\ sess' = [sess EXCEPT !.wrote = @ \cup {db}]
               /\ call' = Go(c, "commit")
               /\ n' = [n EXCEPT !.writes = @ + 1]
               /\ UNCHANGED busy
    /\ UNCHANGED <<idb, anchor, queue, answered, acked, overtaken>>

\* The same over a hot journal: its header is zeroed first, and the barrier
\* that runs before that seals the half-written file as the next version.
SqlBeginOver(c) ==
    /\ Runs(c, "ready") /\ n.writes < MaxWrites
    /\ IsHot(call[c].db)
    /\ LET db  == call[c].db
           ver == files[Jrnl(db)].pre + 1
       IN /\ files' = [files EXCEPT ![Jrnl(db)] = Journal(sess.pool, TRUE, ver),
                                    ![Main(db)].ver = Mid, ![Mani(db)].ver = ver]
          /\ anchor' = AnchorRecord(sess.pool, db, ver, 0)
          /\ acked' = [acked EXCEPT ![db] = ver]
          /\ sess' = [sess EXCEPT !.wrote = @ \cup {db}]
    /\ call' = Go(c, "commit")
    /\ n' = [n EXCEPT !.writes = @ + 1]
    /\ UNCHANGED <<idb, queue, busy, answered, overtaken>>

SqlCommit(c) ==
    /\ Runs(c, "commit")
    /\ LET db  == call[c].db
           ver == files[Jrnl(db)].pre + 1
       IN /\ files' = [files EXCEPT ![Main(db)].ver = ver, ![Mani(db)].ver = ver,
                                    ![Jrnl(db)].hot = FALSE]
          /\ anchor' = AnchorRecord(sess.pool, db, ver, 0)
          /\ acked' = [acked EXCEPT ![db] = ver]
    /\ call' = Return(c) /\ busy' = {}
    /\ UNCHANGED <<idb, sess, queue, answered, overtaken, n>>

-----------------------------------------------------------------------------
(* The SDK: what a call does with the worker's answer. *)

\* Mutant: the floor is raised before the envelope is stored.
PutFloorFirst(c) ==
    /\ At(c, "put") /\ c = Head(answered)
    /\ idb' = [idb EXCEPT !.floor = call[c].next.gen]
    /\ call' = Go(c, "ask") /\ answered' = Tail(answered)
    /\ queue' = Append(queue, c)
    /\ UNCHANGED <<files, anchor, sess, busy, acked, overtaken, n>>

\* idbSet('envelope'): of a rotation, the commit barrier.
Put(c) ==
    /\ At(c, "put") /\ c = Head(answered)
    /\ idb' = [idb EXCEPT !.env = call[c].next]
    /\ overtaken' = (overtaken \/ idb.env # call[c].env
                       \/ (call[c].op = "rotate" /\ sess.pool # NoDek))
    /\ call' = Go(c, "ask") /\ answered' = Tail(answered)
    /\ queue' = Append(queue, c)
    /\ UNCHANGED <<files, anchor, sess, busy, acked, n>>

\* #bumpFloor(): the worker has answered the generation; the floor is read ...
ReadFloor(c) ==
    /\ At(c, "floor")
    /\ call' = [call EXCEPT ![c].pc = "raise", ![c].floor = idb.floor]
    /\ UNCHANGED <<idb, files, anchor, sess, queue, busy, answered, acked, overtaken, n>>

\* ... and replaced, if the one that was read is lower.  A rotation goes on.
BumpFloor(c) ==
    /\ At(c, "raise")
    /\ LET gen == Generation(call[c].next)
       IN idb' = IF gen > call[c].floor THEN [idb EXCEPT !.floor = gen] ELSE idb
    /\ call' = IF call[c].op = "rotate" THEN Go(c, "token") ELSE Return(c)
    /\ UNCHANGED <<files, anchor, sess, queue, busy, answered, acked, overtaken, n>>

\* idbDel('epoch'): the token was sealed under the old key.
DelEpoch(c) ==
    /\ At(c, "token")
    /\ idb' = [idb EXCEPT !.epoch = NoToken]
    /\ call' = Go(c, "reopen")
    /\ UNCHANGED <<files, anchor, sess, queue, busy, answered, acked, overtaken, n>>

\* rotateKey() ends with unlock().
Reopen(c) ==
    /\ At(c, "reopen")
    /\ call' = IF ~CheckFresh(idb.env, idb.floor) THEN Return(c)
               ELSE [call EXCEPT ![c] = [Rest EXCEPT !.op = "reopen", !.pc = "check",
                                         !.env = idb.env, !.epoch = idb.epoch]]
    /\ queue' = IF CheckFresh(idb.env, idb.floor) THEN Append(queue, c) ELSE queue
    /\ UNCHANGED <<idb, files, anchor, sess, busy, answered, acked, overtaken, n>>

NoSession == [on |-> FALSE, pool |-> NoDek, open |-> {}, wrote |-> {}, leaked |-> {}]

\* Power loss, a closed tab, a killed worker: what is in memory is gone.
Crash ==
    /\ n.crashes < MaxCrashes
    /\ n' = [n EXCEPT !.crashes = @ + 1]
    /\ sess' = NoSession /\ queue' = <<>> /\ busy' = {} /\ answered' = <<>>
    /\ call' = [c \in Calls |-> Rest]
    /\ UNCHANGED <<idb, files, anchor, acked, overtaken>>

-----------------------------------------------------------------------------
\* The vault was enrolled here, or imported together with a token of its
\* first database; the token may attest a newer envelope than the one that
\* came along.
Init ==
    /\ \E t \in {NoToken} \cup {[dek |-> 1, db |-> 1, gen |-> 1, env |-> g] : g \in {1, 2}} :
         idb = [env |-> CreateEnvelope(1, Prf, Passkey), floor |-> 1, epoch |-> t]
    /\ files = [f \in Names |-> IF f \in LiveNames THEN File(1, 1) ELSE Missing]
    /\ anchor = [dek |-> 1, committed |-> [db \in Dbs |-> 1], floor |-> [db \in Dbs |-> 0]]
    /\ sess = NoSession
    /\ call = [c \in Calls |-> Rest]
    /\ queue = <<>> /\ busy = {} /\ answered = <<>>
    /\ acked = [db \in Dbs |-> 1]
    /\ overtaken = FALSE
    /\ \E room \in Capacities :
         n = [calls |-> 0, writes |-> 0, crashes |-> 0, deks |-> 1, codes |-> 0, room |-> room]

SdkStep(c) ==
    \/ Unlock(c) \/ AddRecoveryCode(c) \/ RemoveMethod(c) \/ RotateKey(c) \/ Sql(c) \/ Lock(c)
    \/ Confirm(c) \/ Cancel(c)
    \/ Put(c) \/ ReadFloor(c) \/ BumpFloor(c) \/ DelEpoch(c) \/ Reopen(c)

WorkerStep(c) ==
    \/ TakeCheck(c) \/ TakeAsk(c) \/ TakeLock(c) \/ TakeAdd(c) \/ TakeRemove(c)
    \/ TakeRotate(c) \/ StageFile(c) \/ StageFill(c) \/ StageIntent(c) \/ IntentFill(c)
    \/ TakeOpen(c) \/ Install(c) \/ SwapFile(c) \/ SwapFill(c) \/ SwapDrop(c)
    \/ CarryAnchor(c) \/ DropIntent(c) \/ Discard(c) \/ ApplyEpoch(c)
    \/ TakeSql(c) \/ SqlRead(c) \/ SqlBegin(c) \/ SqlBeginOver(c) \/ SqlCommit(c)

Next == Crash \/ \E c \in Calls : SdkStep(c) \/ WorkerStep(c)

Spec == Init /\ [][Next]_vars

-----------------------------------------------------------------------------
(* Properties *)

\* Type invariant: the worker runs one call at a time, the session's sets are
\* of databases, one that has written is open, and the pool never holds more
\* files than it has room for (with_new_file).
TypeOK ==
    /\ idb.env.gen \in Nat /\ idb.floor \in Nat
    /\ DOMAIN files = Names
    /\ sess.open \subseteq Dbs /\ sess.wrote \subseteq sess.open /\ sess.leaked \subseteq Dbs
    /\ busy \subseteq Calls /\ Cardinality(busy) <= 1
    /\ \A c \in Calls : c \in busy => call[c].pc # "idle"
    /\ Used <= n.room

\* The floor a peer attested for db, as the stored key can recover it: from
\* the anchor, or from the intent record a roll-forward will carry over.
FloorOf(db) ==
    LET key == idb.env.mac.key
        it  == files[Intent]
    IN  Max({AnchorLoad(key).floor[db],
             IF it \notin {Missing, Partial} /\ it.dek = key THEN it.floor[db] ELSE 0})

\* The stored key fits the pool's files: after recover_rotation every database
\* is accepted under it at the version it was last sealed at, and no floor
\* forbids it.
KeyFitsFiles ==
    LET key == idb.env.mac.key
    IN  \A db \in Dbs : /\ Serves(Recovered(files, key), key, db, acked[db])
                        /\ FloorOf(db) <= acked[db]

\* Rotation is crash-safe across the two stores: whatever step of rotateKey(),
\* stage_rotation or recover_rotation is interrupted, and however often, the
\* envelope in IndexedDB and the files in the pool belong together.  Only
\* overlapping calls, one of which overwrites or discards what the other has
\* just made, can separate them.
Recoverable == overtaken \/ KeyFitsFiles

\* The stored envelope is never below the stored floor, however calls that
\* change it overlap: #envelope() never refuses the vault's own envelope
\* (while a byte holds the number of its slots).
NotLockedOut == CheckFresh(idb.env, idb.floor)

\* Any single method opens the vault, however many there are.
AnyMethodOpens == \A i \in DOMAIN idb.env.slots :
                    ~IsRefused(OpenWith(idb.env, idb.env.slots[i].secret))

\* The freshness floor that a peer attested survives rotation.
FloorKept == [][overtaken' \/ \A db \in Dbs : FloorOf(db)' >= FloorOf(db)]_vars

\* A vault can be unlocked with its envelope: a stored token opens under it.
Unlockable == idb.epoch = NoToken \/ idb.epoch.dek = idb.env.mac.key \/ overtaken
              \/ \E c \in Calls : call[c].pc \in {"ask", "floor", "raise", "token"}
=============================================================================
