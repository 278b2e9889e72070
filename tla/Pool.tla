-------------------------------- MODULE Pool --------------------------------
(***************************************************************************)
(* The pool of crates/freehold/src/vfs.rs (OpfsSAHPool): a fixed set of    *)
(* opaque files on disk, each with a header that names the SQLite file it  *)
(* holds, and in memory the table from names to handles, the free handles, *)
(* and per handle the block key and the byte size.                         *)
(*                                                                         *)
(* A database d has a main file, a rollback journal and a manifest; its    *)
(* files are sealed under its key d, files of no database under PoolKey.   *)
(* The manifest's content and the commit protocol are VfsCommit's: here a  *)
(* manifest is a file that takes up a handle.                              *)
(*                                                                         *)
(* A power loss lets the first persistence operations of a call land and   *)
(* none of the later ones, as FaultState does; an operation lands whole.   *)
(* SQLite's conduct is the environment: it writes no file past a gap of a  *)
(* whole block, only shortens with xTruncate, and writes pages of a main   *)
(* file one at a time, whole.                                              *)
(***************************************************************************)
EXTENDS BlockDevice, Sequences, FiniteSets, SequencesExt

CONSTANTS
    Db,               \* databases
    Temp,             \* names SQLite makes up for temporary files
    Handle,           \* every opaque file the directory may come to hold
    InitialCapacity,  \* handles that an install provides for
    MaxBlocks,        \* bound: blocks in a journal; the other files have one
    Byte,             \* values of a byte
    NoHandle, NoName, PoolKey, Unknown

VARIABLES
    disk,  \* disk[h]: made (does the opaque file exist?), header, data
    pool,  \* what the worker holds in memory
    cut    \* the request that the last step interrupted, for the abstraction

vars == <<disk, pool, cut>>

Main(d)     == <<"main", d>>
Journal(d)  == <<"journal", d>>
Manifest(d) == <<"manifest", d>>
TempFile(t) == <<"temp", t>>

Mains      == {Main(d) : d \in Db}
Journals   == {Journal(d) : d \in Db}
Temps      == {TempFile(t) : t \in Temp}
SqliteName == Mains \cup Journals \cup Temps
Name       == SqliteName \cup {Manifest(d) : d \in Db}

ASSUME PoolAssumption ==
    /\ IsFiniteSet(Handle) /\ InitialCapacity \in 1 .. Cardinality(Handle)
    /\ MaxBlocks \in Nat \ {0}
    /\ NoHandle \notin Handle /\ PoolKey \notin Db /\ NoName \notin Name
    /\ Unknown \notin 0 .. MaxBlocks * B
    /\ 0 \in Byte /\ Byte \subseteq Nat

MaxSize(n) == IF n \in Journals THEN MaxBlocks * B ELSE B
NoRequest  == [op |-> "none"]

Fresh == [made |-> TRUE, name |-> NoName, data |-> Empty]
Unmade == [Fresh EXCEPT !.made = FALSE]

\* The memory of a worker without a running pool.
Down == [up |-> FALSE, avail |-> <<>>, map |-> [n \in Name |-> NoHandle],
         key |-> [h \in Handle |-> PoolKey], logical |-> [h \in Handle |-> Unknown],
         open |-> {}, dbs |-> {}]

Made    == {h \in Handle : disk[h].made}
Has(n)  == pool.map[n] # NoHandle                        \* has_filename
Data(n) == disk[pool.map[n]].data
Domain(n) == [key |-> pool.key[pool.map[n]], name |-> n]
Sealed(d, n) == [key |-> d, name |-> n]                  \* under d's key

\* ensure_logical, size
SizeIn(p, dk, n) ==
    LET h == p.map[n]
    IN  IF p.logical[h] = Unknown THEN PhysicalSize(dk[h].data) ELSE p.logical[h]
Size(n) == SizeIn(pool, disk, n)

-----------------------------------------------------------------------------
(* Persistence.  A call is the sequence of disks its persistence operations
   produce and the memory it leaves; a power loss keeps a prefix. *)

Completes(disks, p) ==
    /\ disk' = IF disks = <<>> THEN disk ELSE Last(disks)
    /\ pool' = p
    /\ cut' = NoRequest

PowerLost(disks, request) ==
    /\ \E i \in 1 .. Len(disks) - 1 : disk' = disks[i]
    /\ pool' = Down
    /\ cut' = request

Performs(disks, p, request) == Completes(disks, p) \/ PowerLost(disks, request)

WithData(dk, h, data) == [dk EXCEPT ![h].data = data]

-----------------------------------------------------------------------------
(* The file table *)

\* delete_file: the handle goes back to the free ones with the key it had;
\* set_associated_filename drops the data, then clears the header.
Unlinked(p, n) == [p EXCEPT !.map[n] = NoHandle, !.avail = Append(@, p.map[n])]

\* A deletion that never writes the header.
UnlinkKeepsName(dk, h) == <<WithData(dk, h, Empty)>>

UnlinkDisks(dk, h) == <<WithData(dk, h, Empty), [dk EXCEPT ![h] = Fresh]>>

\* with_new_file: the handle freed last, its size reset, its key kept.
Linked(p, n) ==
    LET h == Last(p.avail)
    IN  [p EXCEPT !.map[n] = h, !.avail = Front(@), !.logical[h] = 0]
LinkDisk(dk, p, n) == [dk EXCEPT ![Last(p.avail)].name = n]

\* acquire_access_handles: a handle with no name, or with a temporary one,
\* is cleared into the free list; the directory lists them in any order.
Leftover(clear) == {h \in Made : clear \/ disk[h].name \in {NoName} \cup Temps}

Install(clear) ==
    /\ ~pool.up
    /\ LET old   == Leftover(clear)
           named == Made \ old
           lacks == IF Cardinality(Made) < InitialCapacity
                    THEN InitialCapacity - Cardinality(Made) ELSE 0
       IN  \E new \in {s \in SUBSET (Handle \ Made) : Cardinality(s) = lacks} :
           \E first \in SetToSeqs(old), then \in SetToSeqs(new) :
             Completes(
               <<[h \in Handle |-> IF h \in old \cup new THEN Fresh ELSE disk[h]]>>,
               [Down EXCEPT
                  !.up = TRUE,
                  !.avail = first \o then,
                  !.map = [n \in Name |-> IF \E h \in named : disk[h].name = n
                                          THEN CHOOSE h \in named : disk[h].name = n
                                          ELSE NoHandle]])

\* add_capacity, reduce_capacity: by one.
AddCapacity ==
    /\ pool.up
    /\ \E h \in Handle \ Made :
           Completes(<<[disk EXCEPT ![h] = Fresh]>>, [pool EXCEPT !.avail = Append(@, h)])

ReduceCapacity ==
    /\ pool.up /\ pool.avail # <<>>
    /\ Completes(<<[disk EXCEPT ![Last(pool.avail)] = Unmade]>>,
                 [pool EXCEPT !.avail = Front(@)])

\* pause_vfs, release_access_handles
Pause == pool.up /\ pool.open = {} /\ Completes(<<>>, Down)

-----------------------------------------------------------------------------
(* Opening and closing *)

\* open_main_db on a file that exists, with its manifest, and authenticates:
\* the database's key goes to the main file and to the satellites on disk.
Bound(p, dk, d) ==
    LET own == {p.map[Main(d)], p.map[Journal(d)]} \ {NoHandle}
    IN  [p EXCEPT
           !.key = [h \in Handle |-> IF h \in own THEN d ELSE @[h]],
           !.logical[p.map[Main(d)]] = PhysicalSize(dk[p.map[Main(d)]].data),
           !.open = @ \cup {Main(d)},
           !.dbs = @ \cup {d}]

OpenExistingMain(d) ==
    /\ Has(Main(d)) /\ Has(Manifest(d))
    /\ AllAuthentic(Data(Main(d)), Sealed(d, Main(d)))   \* full_state_root
    /\ Completes(<<>>, Bound(pool, disk, d))

\* xOpen creates the main file, open_main_db its manifest.  With no handle
\* left for the manifest the open fails and the empty main file stays.
OpenNewMain(d) ==
    /\ ~Has(Manifest(d))
    /\ Has(Main(d)) => Data(Main(d)) = Empty
    /\ Has(Main(d)) \/ pool.avail # <<>>
    /\ LET p1 == IF Has(Main(d)) THEN pool ELSE Linked(pool, Main(d))
           d1 == IF Has(Main(d)) THEN disk ELSE LinkDisk(disk, pool, Main(d))
       IN  IF p1.avail = <<>> THEN Completes(<<d1>>, p1)
           ELSE LET p2 == Linked(p1, Manifest(d))
                    d2 == LinkDisk(d1, p1, Manifest(d))
                IN  Performs(<<d1, d2>>, Bound(p2, d2, d), [op |-> "create", name |-> Main(d)])

\* With the manifest on disk and the main file gone (an import cut short).
OpenLostMain(d) ==
    /\ Has(Manifest(d)) /\ ~Has(Main(d)) /\ pool.avail # <<>>
    /\ LET p == Linked(pool, Main(d))
           dk == LinkDisk(disk, pool, Main(d))
       IN  Completes(<<dk>>, Bound(p, dk, d))

OpenMain(d) ==
    /\ pool.up /\ Main(d) \notin pool.open
    /\ OpenExistingMain(d) \/ OpenNewMain(d) \/ OpenLostMain(d)

\* A journal left on the key its handle happens to have.
BindNothing(p, d) == p

\* bind_satellite
BindSatellite(p, d) == IF d \in p.dbs THEN [p EXCEPT !.key[p.map[Journal(d)]] = d] ELSE p

OpenJournal(d) ==
    /\ Main(d) \in pool.open /\ Journal(d) \notin pool.open
    /\ Has(Journal(d)) \/ pool.avail # <<>>
    /\ LET p  == IF Has(Journal(d)) THEN pool ELSE Linked(pool, Journal(d))
           dk == IF Has(Journal(d)) THEN disk ELSE LinkDisk(disk, pool, Journal(d))
       IN  Completes(<<dk>>, [BindSatellite(p, d) EXCEPT !.open = @ \cup {Journal(d)}])

OpenTemp(t) ==
    /\ pool.up /\ ~Has(TempFile(t)) /\ pool.avail # <<>>
    /\ Completes(<<LinkDisk(disk, pool, TempFile(t))>>,
                 [Linked(pool, TempFile(t)) EXCEPT !.open = @ \cup {TempFile(t)}])

\* xClose: a temporary file is deleted.  SQLite closes a journal before its
\* main file.
Close(n) ==
    /\ n \in pool.open
    /\ \A d \in Db : n = Main(d) => Journal(d) \notin pool.open
    /\ LET p == [pool EXCEPT !.open = @ \ {n}]
       IN  IF n \in Temps
           THEN Performs(UnlinkDisks(disk, pool.map[n]), Unlinked(p, n),
                         [op |-> "delete", name |-> n])
           ELSE Completes(<<>>, p)

\* xDelete of a journal, once journal_finalize_barrier let it pass.
DeleteJournal(d) ==
    /\ Main(d) \in pool.open /\ Has(Journal(d)) /\ Journal(d) \notin pool.open
    /\ d \in pool.dbs \/ Data(Journal(d)).len = 0
    /\ Performs(UnlinkDisks(disk, pool.map[Journal(d)]), Unlinked(pool, Journal(d)),
                [op |-> "delete", name |-> Journal(d)])

-----------------------------------------------------------------------------
(* Reading and writing *)

\* xWrite: one persistence operation for each block, then the size.  A block
\* that does not authenticate ends the loop with an error.
XWrite(n, off, len, v) ==
    /\ n \in pool.open
    /\ off <= Blocks(Size(n)) * B /\ off + len <= MaxSize(n)
    /\ n \in Mains => off % B = 0 /\ len = B
    /\ LET h    == pool.map[n]
           stop == WritesUpTo(Data(n), Domain(n), off, len)
           step(i) == WithData(disk, h, Written(Data(n), Domain(n), off, len, v,
                                                FirstBlock(off) - 1 + i))
       IN  Performs([i \in 1 .. stop - FirstBlock(off) + 1 |-> step(i)],
                    IF stop < LastBlock(off, len) THEN pool
                    ELSE [pool EXCEPT !.logical[h] = Larger(Size(n), off + len)],
                    [op |-> "write", name |-> n, off |-> off, len |-> len, byte |-> v])

XTruncate(n, size) ==
    /\ n \in pool.open
    /\ size <= Size(n)
    /\ n \in Mains => size % B = 0
    /\ ~TruncateFails(Data(n), Domain(n), size)
    /\ LET h == pool.map[n]
       IN  Performs(<<WithData(disk, h, Resealed(Data(n), Domain(n), size)),
                      WithData(disk, h, Truncated(Data(n), Domain(n), size))>>,
                    [pool EXCEPT !.logical[h] = size],
                    [op |-> "truncate", name |-> n, size |-> size])

\* import_ciphertext_file, as import_files and recover_rotation call it, on a
\* pool where no database has been opened: the old file of that name goes,
\* a new one is sized, written and flushed.  Its byte size in memory stays 0.
ImportFile(d, blocks, v) ==
    /\ pool.up /\ pool.open = {} /\ pool.dbs = {}
    /\ Has(Main(d)) \/ pool.avail # <<>>
    /\ LET n  == Main(d)
           p1 == IF Has(n) THEN Unlinked(pool, n) ELSE pool
           u  == IF Has(n) THEN UnlinkDisks(disk, pool.map[n]) ELSE <<>>
           d1 == IF Has(n) THEN Last(u) ELSE disk
           p2 == Linked(p1, n)
           d2 == LinkDisk(d1, p1, n)
           image == Written(Empty, Sealed(d, n), 0, blocks * B, v, blocks - 1)
       IN  Performs(u \o <<d2, WithData(d2, p2.map[n], PhysTruncated(Empty, blocks)),
                           WithData(d2, p2.map[n], image)>>,
                    p2, [op |-> "import", name |-> n, size |-> blocks * B])

\* A power loss between two calls.
Crash == pool.up /\ Completes(<<>>, Down)

-----------------------------------------------------------------------------
Init ==
    /\ disk = [h \in Handle |-> Unmade]
    /\ pool = Down
    /\ cut = NoRequest

Next ==
    \/ \E clear \in BOOLEAN : Install(clear)
    \/ AddCapacity \/ ReduceCapacity \/ Pause \/ Crash
    \/ \E d \in Db : OpenMain(d) \/ OpenJournal(d) \/ DeleteJournal(d)
    \/ \E t \in Temp : OpenTemp(t)
    \/ \E n \in SqliteName : Close(n)
    \/ \E n \in SqliteName, v \in Byte :
          \E off \in 0 .. MaxSize(n) - 1 : \E len \in 1 .. MaxSize(n) - off : XWrite(n, off, len, v)
    \/ \E n \in SqliteName : \E size \in 0 .. MaxSize(n) : XTruncate(n, size)
    \/ \E d \in Db, v \in Byte : ImportFile(d, MaxSize(Main(d)) \div B, v)

Spec == Init /\ [][Next]_vars

-----------------------------------------------------------------------------
(* Properties *)

DataOK(data) ==
    /\ data.len \in 0 .. MaxBlocks
    /\ DOMAIN data.at = 0 .. data.len - 1
    /\ \A k \in DOMAIN data.at : data.at[k].plain \in [0 .. B - 1 -> Byte]

\* Type invariant.
TypeOK ==
    /\ \A h \in Handle : /\ disk[h].made \in BOOLEAN
                         /\ disk[h].name \in Name \cup {NoName}
                         /\ DataOK(disk[h].data)
    /\ pool.up \in BOOLEAN
    /\ pool.avail \in Seq(Handle)
    /\ pool.map \in [Name -> Handle \cup {NoHandle}]
    /\ pool.key \in [Handle -> Db \cup {PoolKey}]
    /\ pool.logical \in [Handle -> 0 .. MaxBlocks * B \cup {Unknown}]
    /\ pool.open \subseteq SqliteName /\ pool.dbs \subseteq Db

\* HandlesAccounted: no two opaque files ever carry one name, so no order of
\* the directory listing decides which of them is served; and while the pool
\* runs each opaque file is either free, nameless and empty, or the one the
\* table gives for the name in its header (with_new_file, delete_file,
\* acquire_access_handles, and a power loss inside any of them).
HandlesAccounted ==
    /\ \A g, h \in Handle : g # h /\ disk[g].name = disk[h].name => disk[g].name = NoName
    /\ pool.up =>
         /\ IsInjective(pool.avail)
         /\ \A h \in Handle :
               IF h \in Range(pool.avail) THEN disk[h] = Fresh
               ELSE disk[h].made => /\ disk[h].name # NoName
                                    /\ pool.map[disk[h].name] = h
         /\ \A n \in Name : Has(n) => disk[pool.map[n]].made /\ disk[pool.map[n]].name = n

\* Readable: on a disk nobody tampers with, no read, write or truncate of an
\* open file ever fails to authenticate, whatever handle the file was given,
\* whatever key that handle last had, and whatever was interrupted before;
\* and what is on disk for a database is sealed under its key, so that the
\* next session can read it (crypto and key_domain are set at open and never
\* reset when a handle is freed).  The one exception are the blank blocks of
\* an import that was cut short.
Readable ==
    /\ \A n \in pool.open : AllAuthentic(Data(n), Domain(n))
    /\ \A d \in Db, h \in Handle :
          disk[h].name \in {Main(d), Journal(d)} =>
             \A k \in 0 .. disk[h].data.len - 1 :
                \/ Authentic(Sealed(d, disk[h].name), k, disk[h].data.at[k])
                \/ disk[h].name = Main(d) /\ disk[h].data.at[k] = Hole

(* The files as SQLite sees them.  A main file's size is its physical size;
   the other sizes are known only while the session lasts. *)
NoFile == [size |-> 0]

SqliteFile(n) ==
    LET holders == {h \in Handle : disk[h].name = n}
        h       == CHOOSE g \in holders : TRUE
        size    == IF pool.up /\ n \notin Mains THEN Size(n) ELSE PhysicalSize(disk[h].data)
    IN  IF holders = {} \/ (~pool.up /\ n \in Temps) THEN NoFile
        ELSE [size |-> size, byte |-> [i \in 0 .. size - 1 |-> ByteAt(disk[h].data, i)]]

Files == INSTANCE ByteFiles WITH
    Name      <- SqliteName,
    Temporary <- Temps,
    content   <- [n \in SqliteName |-> SqliteFile(n)]

\* FilesSpec: the pool implements plain byte files.  Read-modify-write over
\* sealed blocks, growth over a gap, shortening inside a block and growing
\* again, reuse of a deleted file's handle, and a power loss at any
\* persistence operation never show a byte that was not written there last.
FilesSpec == Files!Spec
=============================================================================
