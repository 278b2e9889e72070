------------------------------ MODULE Transfer ------------------------------
(***************************************************************************)
(* Vaults that move between devices in bundles: enrolment, unlocking,      *)
(* export, import and reset as the SDK (packages/db/index.js) drives them, *)
(* the worker operations behind them (crates/freehold/src/lib.rs,          *)
(* bundle.rs, vfs.rs), and the offline decryptor (crates/freehold-decrypt).*)
(*                                                                         *)
(* A bundle may be carried anywhere, imported late, twice or not at all.   *)
(* A call that replaces a vault clears the pool name by name, writes the   *)
(* new files one at a time and then IndexedDB entry by entry; a crash may  *)
(* come between any two of these steps.                                    *)
(*                                                                         *)
(* Abstractions.                                                           *)
(*  - A database's content is the number of the transaction that wrote it, *)
(*    and the full-state root is the content.  A commit is atomic, or a    *)
(*    crash leaves the main file in the middle of it with a hot journal,   *)
(*    which nobody plays back (VfsCommit has the steps).                   *)
(*  - The anchor's two slots are one record, readable under the key that   *)
(*    sealed it.                                                           *)
(*  - Devices share nothing but the bundles, so a call of one device is    *)
(*    not interleaved with those of another; calls of one device that      *)
(*    overlap are the subject of Vault, as is key rotation.                *)
(*  - A passkey is synced: every device can assert it (external).          *)
(***************************************************************************)
EXTENDS Envelope, TLC

CONSTANTS
    Devices,
    NumDbs,     \* databases of a vault; the first is app.db
    MaxCalls,   \* bound: calls that enrol, unlock, export, import or change methods
    MaxEnrolls, \* bound: enrolments
    MaxCodes,   \* bound: recovery codes added after enrolment
    MaxExports, \* bound: bundles
    MaxWrites,  \* bound: transactions begun
    MaxUuids,   \* bound: databases created
    MaxCrashes, \* bound: crashes
    ExportsOverJournal \* may exportBundle() be called while a journal that an
                       \* earlier crash left behind is still hot?

ASSUME TransferAssumption ==
    /\ NumDbs \in Nat \ {0} /\ MaxCalls \in Nat /\ MaxEnrolls \in Nat
    /\ MaxCodes \in Nat /\ MaxExports \in Nat /\ MaxWrites \in Nat /\ MaxUuids \in Nat /\ MaxCrashes \in Nat
    /\ ExportsOverJournal \in BOOLEAN

Dbs   == 1 .. NumDbs
Uuids == 1 .. MaxUuids
NoDek == 0
Void  == 0                     \* the content of an empty database, the zero root
Hollow == MaxWrites + 1        \* the root sealed over a file without bytes
Cold  == MaxWrites + 2         \* no journal to go back by

Prf(i)  == <<"prf", i>>        \* the i-th enrolment's passkey
Key(i)  == <<"device", i>>     \* the i-th enrolment's device secret
Code(i) == <<"code", i>>       \* the i-th recovery code
None    == <<"none", 0>>
Garbage == <<"garbage", 0>>    \* a secret that opens nothing

NoEnv   == Finalize(0, <<>>, NoDek)
NoToken == [dek |-> NoDek, uuid |-> 0, gen |-> 0, env |-> 0]

Missing == [is |-> "missing"]
Empty   == [is |-> "empty"]    \* a name and no bytes
Partial == [is |-> "partial"]  \* sized, the bytes not written
Main(dek, uuid, val) == [is |-> "file", dek |-> dek, uuid |-> uuid, val |-> val]
Manifest(dek, uuid, gen, root, prev) ==
    [is |-> "file", dek |-> dek, uuid |-> uuid, gen |-> gen, root |-> root, prev |-> prev]

Closed == [is |-> "closed"]
Image(uuid, gen, val) == [is |-> "image", uuid |-> uuid, gen |-> gen, val |-> val]
Absent == [is |-> "absent"]

VARIABLES
    dev,    \* what a device stores: IndexedDB (env, floor, epoch, cred, key,
            \* wrap), the pool (main, mani, and in hot the content that a hot
            \* journal would go back to) and the anchor
    sess,   \* each device's worker: [dek, served]
    job,    \* the call under way
    air,    \* the bundles exported so far
    base,   \* history: the bundle a device was last set up from, untouched since
    images, \* history: every image a manifest was sealed for
    known,  \* history: per device, the keys used and the generations seen
    n       \* counters

vars == <<dev, sess, job, air, base, images, known, n>>

NoMarks == [u \in Uuids |-> 0]
NoSession == [dek |-> NoDek, served |-> [db \in Dbs |-> Closed]]
NoBundle == [env |-> NoEnv]
Idle == [d |-> NoDek, pc |-> "idle", files |-> {}, bundle |-> NoBundle, puts |-> <<>>,
         dek |-> NoDek]

Blank == [env |-> NoEnv, floor |-> 0, epoch |-> NoToken, cred |-> 0, key |-> 0, wrap |-> 0,
          main |-> [db \in Dbs |-> Missing], mani |-> [db \in Dbs |-> Missing],
          hot |-> [db \in Dbs |-> Cold],
          anchor |-> [dek |-> NoDek, committed |-> NoMarks, floor |-> NoMarks]]

Init ==
    /\ dev = [d \in Devices |-> Blank]
    /\ sess = [d \in Devices |-> NoSession]
    /\ job = Idle
    /\ air = {}
    /\ base = [d \in Devices |-> NoBundle]
    /\ images = {}
    /\ known = [d \in Devices |-> [deks |-> {}, seen |-> NoMarks, attested |-> NoMarks]]
    /\ n = [calls |-> 0, enrolls |-> 0, codes |-> 0, writes |-> 0, uuids |-> 0, crashes |-> 0]

-----------------------------------------------------------------------------
(* Opening: what a device v holds, as one key sees it. *)

\* anchor_load: an anchor sealed under another key reads as empty.
AnchorLoad(v, dek) ==
    IF v.anchor.dek = dek THEN v.anchor
    ELSE [dek |-> dek, committed |-> NoMarks, floor |-> NoMarks]

\* Mutant: the newest record wins, higher or lower.
AnchorRecordLast(v, dek, uuid, committed, floor) ==
    LET a == AnchorLoad(v, dek)
    IN  [a EXCEPT !.committed[uuid] = committed, !.floor[uuid] = floor]

\* anchor_record_full: each mark moves forward only.
AnchorRecord(v, dek, uuid, committed, floor) ==
    LET a == AnchorLoad(v, dek)
    IN  [a EXCEPT !.committed[uuid] = Max({@, committed}), !.floor[uuid] = Max({@, floor})]

\* session_open with a secret: the envelope opens and is not below the floor,
\* the stored epoch token authenticates and raises the anchor, and the
\* envelope is not older than the token attests.
SessionOpen(v, secret) ==
    LET key == OpenWith(v.env, secret)
    IN  IF v.env = NoEnv \/ ~CheckFresh(v.env, v.floor) \/ IsRefused(key) THEN Refused
        ELSE IF v.epoch = NoToken THEN [dek |-> key.dek, anchor |-> v.anchor, ok |-> TRUE]
        ELSE IF v.epoch.dek # key.dek THEN Refused
        ELSE [dek |-> key.dek, ok |-> CheckFresh(v.env, v.epoch.env),
              anchor |-> AnchorRecord(v, key.dek, v.epoch.uuid, v.epoch.gen, v.epoch.gen)]

\* open_main_db: the image that opening db serves.  Without bytes in the
\* main file there is no root to check, and without a readable manifest the
\* database is created anew (uuid 0 stands for a fresh one).  Beside a hot
\* journal it is the content before the transaction that is checked, and the
\* file as it is that is served.
OpenMainDb(v, dek, db) ==
    LET main == v.main[db]
        mani == v.mani[db]
        read == mani.is = "file" /\ mani.dek = dek
        void == main.is \in {"missing", "empty"}
        a    == AnchorLoad(v, dek)
        val  == IF v.hot[db] = Cold THEN main.val ELSE v.hot[db]
    IN  IF void /\ ~read THEN Image(0, 0, Void)
        ELSE IF ~read \/ mani.gen + 1 < a.committed[mani.uuid] \/ mani.gen < a.floor[mani.uuid]
             THEN Refused
        ELSE IF void THEN Image(mani.uuid, mani.gen, Void)
        ELSE IF main.is = "file" /\ main.dek = dek /\ main.uuid = mani.uuid
                /\ (val = mani.root \/ (mani.prev # Void /\ val = mani.prev))
             THEN Image(mani.uuid, mani.gen, main.val)
        ELSE Refused

-----------------------------------------------------------------------------
(* A call that rewrites IndexedDB, and the pool before it. *)

\* #deviceSecret, and the secret unlock() presents: the device's own when it
\* has one, the stored credential's passkey otherwise (any passkey when no
\* credential is stored).
DeviceSecret(v) == IF v.key = 0 \/ v.wrap = 0 THEN None
                   ELSE IF v.key = v.wrap THEN Key(v.key) ELSE Garbage
Passkeys(v) == IF v.cred # 0 THEN {Prf(v.cred)} ELSE {Prf(i) : i \in 1 .. n.enrolls}
Presented(v) == IF DeviceSecret(v) # None THEN {DeviceSecret(v)} ELSE Passkeys(v)

\* The call starts; lock() comes first where the pool is replaced.
Begin(d, pc, files, bundle, puts, dek) ==
    /\ job = Idle /\ n.calls < MaxCalls
    /\ job' = [d |-> d, pc |-> pc, files |-> files, bundle |-> bundle, puts |-> puts, dek |-> dek]
    /\ sess' = IF pc = "clear" THEN [sess EXCEPT ![d] = NoSession] ELSE sess
    /\ base' = [base EXCEPT ![d] = NoBundle]
    /\ UNCHANGED <<dev, air, images, known>>

\* enroll(): a new passkey and key; the session is open when it returns.
Enroll(d) ==
    /\ n.enrolls < MaxEnrolls
    /\ LET e   == n.enrolls + 1
           env == CreateEnvelope(e, Prf(e), Passkey)
       IN Begin(d, "clear", {}, NoBundle,
                <<<<"env", env>>, <<"cred", e>>, <<"epoch", NoToken>>, <<"floor", 0>>,
                  <<"floor", env.gen>>>>, e)
    /\ n' = [n EXCEPT !.calls = @ + 1, !.enrolls = @ + 1]

\* enrollConvenience(): a device secret, with or without a recovery code.
EnrollConvenience(d, backup) ==
    /\ n.enrolls < MaxEnrolls /\ (backup => n.codes < MaxCodes)
    /\ LET e    == n.enrolls + 1
           env  == CreateEnvelope(e, Key(e), Device)
           next == AddSlot(env, e, Code(n.codes + 1), Recovery)
       IN Begin(d, "clear", {}, NoBundle,
                <<<<"key", e>>, <<"wrap", e>>, <<"env", env>>, <<"cred", 0>>,
                  <<"epoch", NoToken>>, <<"floor", 0>>, <<"floor", env.gen>>>>
                \o IF backup THEN <<<<"env", next>>, <<"floor", next.gen>>>> ELSE <<>>, NoDek)
    /\ n' = [n EXCEPT !.calls = @ + 1, !.enrolls = @ + 1, !.codes = @ + IF backup THEN 1 ELSE 0]

\* addRecoveryCode(), authorized by a passkey.
AddRecoveryCode(d) ==
    /\ n.codes < MaxCodes /\ CheckFresh(dev[d].env, dev[d].floor)
    /\ \E s \in Passkeys(dev[d]) :
        LET key  == OpenWith(dev[d].env, s)
            next == AddSlot(dev[d].env, key.dek, Code(n.codes + 1), Recovery)
        IN /\ ~IsRefused(key)
           /\ Begin(d, "write", {}, NoBundle,
                    <<<<"env", next>>, <<"floor", Max({Generation(next), dev[d].floor})>>>>, NoDek)
    /\ n' = [n EXCEPT !.calls = @ + 1, !.codes = @ + 1]

\* reset(): the entries go; the files stay.
Reset(d) ==
    /\ dev[d].env # NoEnv
    /\ Begin(d, "write", {}, NoBundle,
             <<<<"env", NoEnv>>, <<"cred", 0>>, <<"epoch", NoToken>>, <<"floor", 0>>,
               <<"key", 0>>, <<"wrap", 0>>>>, NoDek)
    /\ n' = [n EXCEPT !.calls = @ + 1]

\* The files of a bundle, and the order export wrote them in: databases by
\* name, the main file before its manifest.
FilesOf(b) == {f \in {"main", "mani"} \X Dbs : b[f[1]][f[2]] # Missing}
NextFile(files) ==
    LET db == Min({f[2] : f \in files})
    IN  IF <<"main", db>> \in files THEN <<"main", db>> ELSE <<"mani", db>>

\* Mutant: the floor is only ever raised, as #bumpFloor does.
ImportPutsRaise(b) ==
    <<<<"env", b.env>>>> \o (IF b.cred # 0 THEN <<<<"cred", b.cred>>>> ELSE <<>>)
    \o <<<<"epoch", b.epoch>>, <<"floor", Max({b.env.gen} \cup {dev[d].floor : d \in Devices})>>>>

\* What importBundle writes to IndexedDB; the imported generation becomes
\* the floor, higher or lower.
ImportPuts(b) ==
    <<<<"env", b.env>>>> \o (IF b.cred # 0 THEN <<<<"cred", b.cred>>>> ELSE <<>>)
    \o <<<<"epoch", b.epoch>>, <<"floor", b.env.gen>>>>

\* importBundle() and import_bundle: lock, decode, then replace the pool.
ImportBundle(d) ==
    /\ \E b \in air : Begin(d, "clear", FilesOf(b), b, ImportPuts(b), NoDek)
    /\ n' = [n EXCEPT !.calls = @ + 1]

\* acquire_access_handles(clear): the names of the pool go one by one, in
\* whatever order the directory lists them.
ClearName ==
    /\ job.pc = "clear"
    /\ LET d == job.d
       IN \E db \in Dbs :
            \/ dev[d].main[db] # Missing /\ dev' = [dev EXCEPT ![d].main[db] = Missing]
            \/ dev[d].mani[db] # Missing /\ dev' = [dev EXCEPT ![d].mani[db] = Missing]
            \/ dev[d].hot[db] # Cold /\ dev' = [dev EXCEPT ![d].hot[db] = Cold]
    /\ UNCHANGED <<sess, job, air, base, images, known, n>>

\* Mutant: the pool is installed without clear_on_init.
ClearedEarly ==
    /\ job.pc = "clear"
    /\ job' = [job EXCEPT !.pc = "write"]
    /\ UNCHANGED <<dev, sess, air, base, images, known, n>>

Cleared ==
    /\ job.pc = "clear"
    /\ LET v == dev[job.d]
       IN \A db \in Dbs : v.main[db] = Missing /\ v.mani[db] = Missing /\ v.hot[db] = Cold
    /\ job' = [job EXCEPT !.pc = "write"]
    /\ UNCHANGED <<dev, sess, air, base, images, known, n>>

\* import_files: each file is named, sized, then written and flushed.
ImportFile ==
    /\ job.pc = "write" /\ job.files # {}
    /\ LET d    == job.d
           f    == NextFile(job.files)
           copy == job.bundle[f[1]][f[2]]
           next == CASE dev[d][f[1]][f[2]].is = "empty" /\ copy # Empty -> Partial
                     [] dev[d][f[1]][f[2]].is = "partial" -> copy
                     [] OTHER -> Empty
       IN /\ dev' = [dev EXCEPT ![d][f[1]][f[2]] = next]
          /\ job' = IF next = copy THEN [job EXCEPT !.files = @ \ {f}] ELSE job
    /\ UNCHANGED <<sess, air, base, images, known, n>>

\* idbSet, idbDel: one entry.
Put ==
    /\ job.pc = "write" /\ job.files = {} /\ job.puts # <<>>
    /\ LET p == Head(job.puts)
       IN dev' = [dev EXCEPT ![job.d][p[1]] = p[2]]
    /\ job' = [job EXCEPT !.puts = Tail(@)]
    /\ UNCHANGED <<sess, air, base, images, known, n>>

\* The call returns; enroll() has opened the session by then.
Done ==
    /\ job.pc = "write" /\ job.files = {} /\ job.puts = <<>>
    /\ job' = Idle
    /\ base' = [base EXCEPT ![job.d] = job.bundle]
    /\ sess' = IF job.dek = NoDek THEN sess
               ELSE [sess EXCEPT ![job.d] = [NoSession EXCEPT !.dek = job.dek]]
    /\ known' = IF job.dek = NoDek THEN known
                ELSE [known EXCEPT ![job.d].deks = @ \cup {job.dek}]
    /\ UNCHANGED <<dev, air, images, n>>

-----------------------------------------------------------------------------
(* The session. *)

\* unlock(), and unlockWithRecovery() with some code.
Unlock(d) ==
    /\ job = Idle /\ n.calls < MaxCalls
    /\ \E s \in Presented(dev[d]) \cup {Code(i) : i \in 1 .. n.codes} :
        LET r == SessionOpen(dev[d], s)
            e == dev[d].epoch
        IN /\ ~IsRefused(r)
           /\ dev' = [dev EXCEPT ![d].anchor = r.anchor]
           /\ sess' = [sess EXCEPT ![d] = IF r.ok THEN [NoSession EXCEPT !.dek = r.dek]
                                          ELSE NoSession]
           /\ known' = [known EXCEPT ![d].deks = @ \cup {r.dek},
                          ![d].attested = [u \in Uuids |-> IF u = e.uuid THEN Max({@[u], e.gen})
                                                           ELSE @[u]]]
    /\ n' = [n EXCEPT !.calls = @ + 1]
    /\ UNCHANGED <<job, air, base, images>>

\* Mutant: the connections are not closed with the session.
LockKeepsHandles(d) ==
    /\ job = Idle /\ sess[d].dek # NoDek
    /\ sess' = [sess EXCEPT ![d].dek = NoDek]
    /\ UNCHANGED <<dev, job, air, base, images, known, n>>

\* session_lock
Lock(d) ==
    /\ job = Idle /\ sess[d].dek # NoDek
    /\ sess' = [sess EXCEPT ![d] = NoSession]
    /\ UNCHANGED <<dev, job, air, base, images, known, n>>

\* Device d has seen generation gen of a database.
Sees(d, uuid, gen) == [known EXCEPT ![d].seen[uuid] = Max({@, gen})]

\* The first statement on a database opens it; a database that is not there
\* is created, and under its new key a journal left there is not hot.
SqlOpen(d, db) ==
    /\ job = Idle /\ sess[d].dek # NoDek /\ sess[d].served[db] = Closed
    /\ LET v == dev[d]
           k == sess[d].dek
           r == OpenMainDb(v, k, db)
           u == n.uuids + 1
           i == IF ~IsRefused(r) /\ r.uuid = 0 THEN Image(u, 1, Void) ELSE r
       IN /\ ~IsRefused(r)
          /\ r.uuid = 0 => n.uuids < MaxUuids
          /\ dev' = [dev EXCEPT
                ![d].main[db] = IF r.val = Void THEN Empty ELSE @,
                ![d].mani[db] = IF r.uuid = 0 THEN Manifest(k, u, 1, Void, Void) ELSE @,
                ![d].hot[db]  = IF r.uuid = 0 THEN Cold ELSE @,
                ![d].anchor   = AnchorRecord(v, k, i.uuid, i.gen, 0)]
          /\ sess' = [sess EXCEPT ![d].served[db] = i]
          /\ images' = IF r.uuid = 0 THEN images \cup {i} ELSE images
          /\ known' = Sees(d, i.uuid, i.gen)
          /\ n' = IF r.uuid = 0 THEN [n EXCEPT !.uuids = @ + 1] ELSE n
          /\ base' = IF r.uuid = 0 THEN [base EXCEPT ![d] = NoBundle] ELSE base
    /\ UNCHANGED <<job, air>>

\* A transaction begins over a hot journal: before the journal's header goes,
\* the barrier seals the main file as it was found.  The transaction may then
\* commit, be rolled back or be torn.
SqlSeal(d, db) ==
    /\ job = Idle /\ sess[d].served[db] # Closed /\ dev[d].hot[db] # Cold
    /\ LET k    == sess[d].dek
           main == dev[d].main[db]
           old  == dev[d].mani[db]
           root == IF main = Empty THEN Hollow ELSE main.val
           i    == Image(old.uuid, old.gen + 1, sess[d].served[db].val)
       IN /\ dev' = [dev EXCEPT
                ![d].mani[db] = Manifest(k, old.uuid, old.gen + 1, root, old.root),
                ![d].hot[db]  = Cold,
                ![d].anchor   = AnchorRecord(dev[d], k, old.uuid, old.gen + 1, 0)]
          /\ sess' = [sess EXCEPT ![d].served[db] = i]
          /\ images' = images \cup {i}
          /\ known' = Sees(d, i.uuid, i.gen)
    /\ base' = [base EXCEPT ![d] = NoBundle]
    /\ UNCHANGED <<job, air, n>>

\* A transaction commits.
SqlCommit(d, db) ==
    /\ job = Idle /\ sess[d].served[db] # Closed /\ dev[d].hot[db] = Cold
    /\ n.writes < MaxWrites
    /\ LET k   == sess[d].dek
           old == dev[d].mani[db]
           val == n.writes + 1
           i   == Image(old.uuid, old.gen + 1, val)
       IN /\ dev' = [dev EXCEPT
                ![d].main[db] = Main(k, old.uuid, val),
                ![d].mani[db] = Manifest(k, old.uuid, old.gen + 1, val, old.root),
                ![d].anchor   = AnchorRecord(dev[d], k, old.uuid, old.gen + 1, 0)]
          /\ sess' = [sess EXCEPT ![d].served[db] = i]
          /\ images' = images \cup {i}
          /\ known' = Sees(d, i.uuid, i.gen)
    /\ n' = [n EXCEPT !.writes = @ + 1]
    /\ base' = [base EXCEPT ![d] = NoBundle]
    /\ UNCHANGED <<job, air>>

\* Power is lost in the middle of a transaction ...
SqlTorn(d, db) ==
    /\ job = Idle /\ sess[d].served[db] # Closed /\ dev[d].hot[db] = Cold
    /\ n.writes < MaxWrites /\ n.crashes < MaxCrashes
    /\ dev' = [dev EXCEPT ![d].main[db] = Main(sess[d].dek, dev[d].mani[db].uuid, n.writes + 1),
                          ![d].hot[db] = sess[d].served[db].val]
    /\ sess' = [sess EXCEPT ![d] = NoSession]
    /\ n' = [n EXCEPT !.writes = @ + 1, !.crashes = @ + 1]
    /\ base' = [base EXCEPT ![d] = NoBundle]
    /\ UNCHANGED <<job, air, images, known>>

\* ... or of a call.
Crash ==
    /\ job # Idle /\ n.crashes < MaxCrashes
    /\ sess' = [sess EXCEPT ![job.d] = NoSession]
    /\ job' = Idle
    /\ n' = [n EXCEPT !.crashes = @ + 1]
    /\ UNCHANGED <<dev, air, base, images, known>>

-----------------------------------------------------------------------------
(* Export and the offline decryptor. *)

\* The databases export lists, and the one the epoch token attests.
Listed(v) == {db \in Dbs : v.main[db] # Missing}
Primary(v) == Min(Listed(v))

\* exportBundle(), session_export: the stored envelope without its device
\* slots, the files as they lie in the pool, and a token for the first
\* database, which must have a readable manifest.  served and secrets are
\* history: what the exporting session can open, and who can open its vault.
ExportBundle(d) ==
    /\ job = Idle /\ n.calls < MaxCalls
    /\ sess[d].dek # NoDek /\ Cardinality(air) < MaxExports
    /\ ExportsOverJournal \/ \A db \in Dbs : dev[d].hot[db] = Cold
    /\ LET v    == dev[d]
           k    == sess[d].dek
           env  == StripKind(v.env, k, Device)
           mani == v.mani[Primary(v)]
       IN /\ v.env # NoEnv /\ CheckFresh(v.env, v.floor)
          /\ Listed(v) # {} /\ ~IsRefused(env)
          /\ mani.is = "file" /\ mani.dek = k
          /\ air' = air \cup
                {[env |-> env, cred |-> v.cred,
                  main |-> v.main,
                  mani |-> [db \in Dbs |-> IF db \in Listed(v) THEN v.mani[db] ELSE Missing],
                  epoch |-> [dek |-> k, uuid |-> mani.uuid, gen |-> mani.gen, env |-> env.gen],
                  served |-> [db \in Dbs |-> IF db \in Listed(v) THEN OpenMainDb(v, k, db)
                                             ELSE Absent],
                  secrets |-> {s \in Openers(v.env) : s[1] # "device"}]}
    /\ n' = [n EXCEPT !.calls = @ + 1]
    /\ UNCHANGED <<dev, sess, job, base, images, known>>

\* open_envelope of the decryptor: recovery slots only.
OpenEnvelope(env, code) ==
    LET i == SelectInSeq(env.slots, LAMBDA s : s.kind = Recovery /\ s.secret = code)
    IN  IF ~Parses(env) \/ i = 0 \/ ~MacOk(env, env.slots[i].dek) THEN Refused ELSE [dek |-> env.slots[i].dek]

\* decrypt_db_file: the uuid comes from the manifest's plaintext header, and
\* every block must authenticate; an empty file has none.
DecryptDbFile(main, mani, dek) ==
    IF mani.is # "file" THEN Refused
    ELSE IF main = Empty THEN [val |-> Void]
    ELSE IF main.is = "file" /\ main.dek = dek /\ main.uuid = mani.uuid THEN [val |-> main.val]
    ELSE Refused

\* recover: every database of the bundle, or an error.
Recover(b, code) ==
    LET key == OpenEnvelope(b.env, code)
        dbs == {db \in Dbs : b.main[db] # Missing}
        out(db) == DecryptDbFile(b.main[db], b.mani[db], key.dek)
    IN  IF IsRefused(key) \/ dbs = {} THEN Refused
        ELSE IF \E db \in dbs : IsRefused(out(db)) THEN Refused
        ELSE [vals |-> [db \in dbs |-> out(db).val]]

-----------------------------------------------------------------------------
Next ==
    \/ \E d \in Devices :
        \/ Enroll(d) \/ EnrollConvenience(d, TRUE) \/ EnrollConvenience(d, FALSE)
        \/ AddRecoveryCode(d) \/ Reset(d) \/ ImportBundle(d) \/ ExportBundle(d)
        \/ Unlock(d) \/ Lock(d)
        \/ \E db \in Dbs : SqlOpen(d, db) \/ SqlSeal(d, db) \/ SqlCommit(d, db) \/ SqlTorn(d, db)
    \/ ClearName \/ Cleared \/ ImportFile \/ Put \/ Done \/ Crash

Spec == Init /\ [][Next]_vars

-----------------------------------------------------------------------------
(* Properties. *)

FileOk(f) == f.is \in {"missing", "empty", "partial"}
             \/ (f.is = "file" /\ f.dek \in 1 .. MaxEnrolls /\ f.uuid \in Uuids)

\* What each store holds, and that a session serves a database only under its
\* own key and from the manifest in force.
TypeOK ==
    /\ \A d \in Devices :
        LET v == dev[d]
        IN  /\ v.floor \in Nat /\ v.cred \in 0 .. MaxEnrolls
            /\ {v.key, v.wrap} \subseteq 0 .. MaxEnrolls
            /\ v.epoch.dek \in 0 .. MaxEnrolls
            /\ \A db \in Dbs : FileOk(v.main[db]) /\ FileOk(v.mani[db]) /\ v.hot[db] \in 0 .. Cold
            /\ sess[d].dek \in 0 .. MaxEnrolls
            /\ \A db \in Dbs : sess[d].served[db] # Closed =>
                    /\ sess[d].dek # NoDek
                    /\ v.mani[db].is = "file" /\ v.mani[db].dek = sess[d].dek
                    /\ v.mani[db].uuid = sess[d].served[db].uuid
    /\ job.pc \in {"idle", "clear", "write"}
    /\ \A b \in air : b.epoch.env = b.env.gen

\* A database of a bundle that its exporter had, and could open.
Readable(b, db) == b.served[db] # Absent /\ ~IsRefused(b.served[db]) /\ b.served[db].uuid # 0

\* A bundle is a complete backup: whoever can open the vault with something
\* other than a key of the exporting device can open the bundle, no device
\* key travels in it, and (when the exporting session could open all its
\* databases) the offline tool recovers, with any recovery code and nothing
\* else, exactly the contents that session served.
BundleOpens ==
    \A b \in air :
        /\ Openers(b.env) = b.secrets
        /\ \A i \in DOMAIN b.env.slots : b.env.slots[i].kind # Device
        /\ \A s \in b.secrets : s[1] # "code" => IsRefused(Recover(b, s))
        /\ (\A db \in Dbs : b.served[db] = Absent \/ Readable(b, db)) =>
            \A s \in b.secrets : s[1] = "code" =>
                LET r == Recover(b, s)
                IN  /\ ~IsRefused(r)
                    /\ \A db \in DOMAIN r.vals : r.vals[db] = b.served[db].val

\* A completed import serves what was exported: every secret of the bundle
\* opens the session, and each database the exporter could open is served
\* with the same image, whatever the device held and whatever interrupted
\* earlier imports; it is refused only by a device that has seen a newer
\* generation of it.
ImportServes ==
    \A d \in Devices : base[d] # NoBundle =>
        \A s \in base[d].secrets :
            LET b == base[d]
                r == SessionOpen(dev[d], s)
                v == [dev[d] EXCEPT !.anchor = r.anchor]
            IN  /\ ~IsRefused(r) /\ r.ok
                /\ \A db \in Dbs :
                    Readable(b, db) =>
                        LET i == OpenMainDb(v, r.dek, db)
                        IN  \/ i = b.served[db]
                            \/ /\ IsRefused(i)
                               /\ Max({known[d].seen[b.served[db].uuid],
                                       known[d].attested[b.served[db].uuid]}) > b.served[db].gen

\* Nothing is served that was not sealed as such: the contents, the
\* database's identity and the generation belong together, also after an
\* import that was cut short.  (An emptied pool serves empty databases, and a
\* half-written file is served as it is while its journal is hot.)
ServesSealed ==
    \A d \in Devices : \A db \in Dbs :
        LET i == sess[d].served[db]
        IN  i # Closed => i.val = Void \/ i \in images \/ dev[d].hot[db] # Cold

\* A device that has used one key only never serves a database more than one
\* generation behind what it has seen, nor at all behind what an epoch token
\* attested to it, however old the bundle it imports.
NoRollback ==
    [][\A d \in Devices : \A db \in Dbs :
        LET i == sess'[d].served[db]
        IN  (sess[d].served[db] = Closed /\ i # Closed /\ Cardinality(known[d].deks) = 1) =>
                /\ known[d].seen[i.uuid] <= i.gen + 1
                /\ known[d].attested[i.uuid] <= i.gen]_vars

\* unlock() presents a secret that the imported vault has: what importBundle
\* says of the synced passkey.  A device key that an earlier vault left in
\* IndexedDB is presented instead of it.
PasskeyUnlocks ==
    \A d \in Devices :
        (base[d] # NoBundle /\ \E s \in base[d].secrets : s[1] = "prf") =>
            \E s \in Presented(dev[d]) : ~IsRefused(SessionOpen(dev[d], s))
=============================================================================
