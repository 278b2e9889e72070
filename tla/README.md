# freehold: TLA+ verification project

freehold is an encrypted, local-first SQLite for the browser. A Rust crate, compiled
to wasm and run in a dedicated worker, implements a SQLite VFS over OPFS files whose
blocks are sealed with a data-encryption key (DEK). A JavaScript SDK drives it: it
unlocks the DEK from an envelope of key slots, runs SQL, rotates the key, exports
bundles, certifies devices and synchronises them through a relay that sees ciphertext
only.

This directory holds TLA+ modules translated from that code, the TLC runs that check
them on small instances, and TLAPS proofs of the results that matter most. Paths
below are relative to the repository; `vfs.rs`, `lib.rs` and the other Rust files
without a path are in `crates/freehold/src`, `index.js` is `packages/db/index.js`.

## 1. Inventory

| Component | Code | State | Operations | What makes it correct |
|---|---|---|---|---|
| Commit protocol of the VFS | `vfs.rs`, `manifest.rs` | main file, rollback journal, two manifest slots, two anchor slots, `DbState` | create, open, begin, commit, roll back, close, export and apply an epoch token | an acknowledged commit survives power loss; power loss never makes a database refuse to open; a restored old copy is refused |
| Encrypted block device | `vfs.rs` (`SyncAccessFile`) | sealed blocks, logical length | read, write, truncate, flush | behaves as a byte file; a partial block is read, merged and sealed again |
| SAH pool | `vfs.rs` (`OpfsSAHPool`) | file name to handle table, free handles, capacity, a key per handle | install, open, close, create, delete, import, grow, shrink, pause | a name has one handle; no handle is lost; a reused handle never carries a foreign key |
| DEK rotation | `vfs.rs`, `lib.rs`, `index.js` | shadow files, intent record, envelope | stage, swap the envelope, roll forward, roll back | a crash at any point leaves old key with old files or new key with new files |
| Key envelope | `envelope.rs`, `index.js` | slots, generation, MAC; generation floor | create, add, remove, strip, rotate, open | some slot always unwraps the DEK; an old envelope is refused, the vault's own never |
| Session lifecycle | `lib.rs`, `index.js`, `packages/db/vault-worker.js` | the session, open connections, auto-lock timer, message queue | enrol, unlock, lock, SQL, auto-lock, reset | a call that overlaps or is cut short leaves a vault that opens |
| Bundles, offline decryptor | `bundle.rs`, `lib.rs`, `index.js`, `crates/freehold-decrypt` | a set of files with envelope, credential and epoch token | export, import, recover offline | an import serves what was exported; an old bundle does not roll a device back |
| Sync engine | `sync.rs`, `lib.rs`, `index.js` | version vector, cursor, preserved forks, live image | pull, reconcile, apply, preserve, push, save | nothing published is dropped; peers converge; an applied image opens |
| Blind relay | `server/relay-server.mjs`, `relay-http.js`, `relay-mem.js`, `relay_auth.rs` | one append-only log per bucket, rate limiter, waiters | put, list, get, subscribe | indices are stable; only the owner of a bucket's key uses it |
| Device trust, attestation | `device.rs`, `attest.rs`, `index.js` | device key, sealed trust seed, certificate | generate, certify, attest, verify | one trust root; a signature serves the purpose it was made for |
| Custody broker (example) | `examples/demo/custody` | grants, tokens | grant, revoke, call | a call needs a live grant of that scope |
| Crypto primitives | `crypto.rs` | none | seal, open, derive, hash | taken as ideal |
| Self-tests and demo pages | `lib.rs`, `examples/demo` | none of its own | | not modelled |

How they interact. The SDK calls the worker by messages and awaits the answer; inside
the worker one call runs to its end, except that unlocking awaits the browser once, so
two SDK operations interleave only at their awaits. SQLite calls the VFS
synchronously. A commit's last journal write enters the commit barrier, which writes
anchor, manifest and anchor again. Rotation, import and sync replace whole database
files underneath the VFS and rely on the next open to check them; the anchor lives in
the pool and outlives all three. IndexedDB holds what the SDK keeps (envelope, floor,
epoch token, credential, device records, sync state) and is written by separate
transactions, not atomically with the files in OPFS.

What is hard here: power loss between and during the writes of the barrier; records
in one store (IndexedDB) that must agree with files in another (OPFS); SDK operations
that read state, await, and write it back; restored copies of the files and old
bundles; handles that are reused; peers that exchange images in different orders.
`PROJECT.json` lists each hazard at its line.

## 2. Modules

| Module | Contents |
|---|---|
| `VfsCommit` | the commit protocol of one database: files, slots, session, SQLite's pager as environment, power loss, restored copies, epoch tokens |
| `PageStore` | its abstract specification: a durable image whose pages change only while a transaction writes them; a commit changes all of them, a rollback none |
| `BlockDevice` | operators: byte ranges over sealed blocks (read, write, truncate) |
| `Pool` | the file table over those blocks, with power loss at each persistence operation |
| `ByteFiles` | its abstract specification: named files of plain bytes |
| `Envelope` | operators: the key envelope |
| `Vault` | one vault on one device: SDK calls, worker, rotation, unlock methods, lock, SQL; extends `Envelope` |
| `Transfer` | vaults carried between devices in bundles: enrolment, export, import, reset, the offline decryptor; extends `Envelope` |
| `Trust` | device keys, trust root, certificates, attestations, relay requests |
| `VersionVector` | operators: the algebra of `sync.rs` |
| `Sync` | `sync()` on several devices over one relay log; extends `VersionVector` |
| `VfsCommitProofs`, `BlockDeviceProofs`, `PoolProofs`, `PoolFilesProofs`, `VaultProofs`, `TransferProofs`, `SyncProofs`, `TrustProofs` | theorems (section 4) |
| `MC...` | instances for TLC |

### VfsCommit

| Variable | Code |
|---|---|
| `main`, `diskMain` | the main file as read now, and the part of it that has been flushed |
| `jrnl`, `diskJrnl` | the `-journal` file: header, journalled pages, initial image; same split |
| `mani` | the manifest slots `write_manifest_slot` alternates by `db_generation % 2` |
| `anchor` | the anchor slots `anchor_save` alternates by sequence; only this database's entry |
| `st` | `DbState`: `db_generation` and `current_root` |
| `pc`, `why`, `tx` | where the session is, what a journal finalization is for, the image being committed |
| `token` | the generation in the last exported epoch token |
| `snap` | a copy of the files taken earlier |
| `allowed`, `ackGen`, `epochSeen`, `overlaid` | history variables of the properties |

One action is one durable write, or one stretch of code without any. Opening:
`OpenFresh`/`OpenRead` (`open_main_db` up to the freshness rule), `CreateManifest`,
`CreateAnchor` (`create_manifest`), `OpenAnchor` (`anchor_record`, which the code
runs *before* the structural and root checks), `OpenVerify` (length, block 0,
full-state root, of what a hot journal would make of the file), `SealRootMigration`, then
`Attach` when SQLite first reads. Writing: `Begin`, `JournalPages`,
`JournalMagic`, `JournalFlush`, `WriteMain`, `Commit` or `Rollback`, `SyncMain`. The
barrier `journal_finalize_barrier` with `on_main_synced` is `RecordInFlight`,
`SealManifest`, `RecordCommitted`; then `ZeroHeader`, `ZeroSync`, `Acknowledge`,
`TruncateMain`. `Crash` keeps any subset of the unflushed blocks and leaves the slot
being written old, new or torn. `ExportEpoch`, `ApplyEpoch`, `SaveFloor` are the epoch
token; `Snapshot` and `Restore` put a stale copy of the files back while the anchor
stays.

A block is the number of the transaction that last wrote it, `Absent` or `Torn`; the
full-state root of an image is the image (no hash collisions). SQLite is external and
modelled from the callbacks it makes in `vfs.rs`.

`Starts` is the set of states a run begins in: no database, a populated one, or a
legacy one (sealed before roots existed). Two switches stand for assumptions about the
surroundings: `Tears` (a block write may be torn by power loss) and `Shrinks` (a
transaction may shorten the file).

A journal that a power loss left behind is never played back. SQLite's `hasHotJournal`
asks `xCheckReservedLock` whether somebody else holds the reserved lock, and plays back
only if not; the VFS answers 1, always (`vfs.rs:2677`). So `Attach` serves the main file
as it was found, beside the hot journal that made `OpenVerify` accept it
(`replay_journal_root` works on a copy). The pager opens that journal for its next
transaction: `Begin` finds it hot, the first journal write has no magic, and the barrier
seals the file as it is before the header goes. `overlaid` is set from there on. The 11
pre- and 7 post-transaction outcomes, and the 13 and 5, that the repository's crash
sweeps record (`docs/BUILD-NOTES.md:91`, `:168`) need no playback: a power loss counts as
rolled back when it comes before the page that the sweep's query counts is written, and as
committed when it comes later. The only playback in the model is SQLite's own `ROLLBACK`
(`SqlitePlayback`), with the journal it has open.

### BlockDevice, Pool, ByteFiles

A data region is a number of blocks, each sealed for a domain (key and file name) and
an index. `Written` is what the write loop leaves once it has reached a given block,
`WritesUpTo` where it stops when a block it must read first does not authenticate;
`Truncated` seals the kept tail block again and drops the rest.

`Pool` has three variables: `disk` (each opaque file: does it exist, the name in its
header, its data), `pool` (the worker's memory: free handles as a stack, name table,
key and byte size per handle, open files, databases) and `cut`, the request that the
last step interrupted, which the abstraction needs. A call is the sequence of disks its
persistence operations produce: `Completes` takes the last, `PowerLost` any earlier
one. Actions: `Install` (`acquire_access_handles`, with or without clearing),
`AddCapacity`, `ReduceCapacity`, `Pause`, `OpenMain` (existing, new, or with the main
file lost to an interrupted import), `OpenJournal` with `bind_satellite`, `OpenTemp`,
`Close`, `DeleteJournal`, `XWrite`, `XTruncate`, `ImportFile`, `Crash`. Header
digests are ideal, and a persistence operation lands whole, as in the crate's own
`FaultState`. The manifest is a file that takes up a handle.

`ByteFiles` says what SQLite is promised: each operation changes one file as it would
change a byte array; a restart drops temporary files, pads the others to a block, and
may have done the one interrupted request in part. `FilesSpec` is that `Pool`
implements it, with the files read through the handle that carries their name.

### Envelope, Vault

An envelope is a generation, a sequence of slots and a MAC keyed by the DEK.
Operators keep the code's names (`WrapSlot`, `NextKekId`, `AddSlot`, `RemoveSlot`,
`StripKind`, `RotateEnvelope`, `OpenWith`, `CheckFresh`). Slot ids and the number of slots
have the code's one byte, with `IdSpace` values: an envelope of more slots is written,
but does not parse (`Parses`), has generation 0 (`Generation`) and opens with nothing.

`Vault` holds IndexedDB (`idb`: envelope, floor, epoch token), the pool's `files`, the
`anchor`, the worker's session `sess`, the local variables of each SDK call (`call`),
the worker's message `queue`, the call it is `busy` with, and the calls whose new
envelope is on its way to IndexedDB (`answered`): the worker's answers arrive in the
order it gave them, and IndexedDB runs the `idbSet` of each in that order, so `Put`
takes the first. SDK side: `Unlock`,
`AddRecoveryCode`, `RemoveMethod`, `RotateKey`, `Sql`, `Lock` begin a call (auto-lock is
a call of `lock()`); `Confirm` and `Cancel` are the passkey prompt; `Put`, then `TakeAsk`
(in the worker), `ReadFloor` and `BumpFloor` (the three awaits of `#bumpFloor`),
`DelEpoch`, `Reopen` what follows the worker's answer. Worker side: `TakeRotate`,
`StageFile`, `StageFill`, `StageIntent`, `IntentFill` are `rotate_dek_inner` and
`stage_rotation`; `TakeOpen`, `Install` are `session_open` on either side of its await;
`SwapFile`, `SwapFill`, `SwapDrop`, `CarryAnchor`, `DropIntent`, `Discard` are
`recover_rotation`; `ApplyEpoch`, `TakeSql`, `SqlRead`, `SqlBegin`, `SqlBeginOver`,
`SqlCommit`, `TakeLock`, `TakeAdd`, `TakeRemove`, `TakeCheck` the rest. The beginning and
the commit of a transaction are one step each; in between the main file is `Mid`, and a
crash leaves it so beside a hot journal. `TakeSql` opens such a database as it is;
`SqlBeginOver` is a transaction that finds the journal hot, whose barrier seals the
half-written file as the next version.

`overtaken` marks histories in which one call has overwritten or discarded what
another was about to commit, stored a rotated envelope under a session that is open
with the old key, or opened a session with a replaced envelope or over connections that
are open; `StorageIsIdle` says that nobody confirms a passkey prompt
faster than IndexedDB stores a record. `RotatesOverJournal` allows a rotation while an
earlier crash's journal is still in the pool.

### Transfer

`dev` is what a device stores (IndexedDB entries, files, anchor), `sess` its worker,
`job` the call under way, `air` the bundles exported so far. `Enroll`,
`EnrollConvenience`, `AddRecoveryCode`, `Reset`, `ImportBundle` begin a call that runs
through `ClearName`, `Cleared`, `ImportFile`, `Put`, `Done`, one name, file write or
entry at a time, with a `Crash` between any two; `Unlock`, `Lock`, `SqlOpen`, `SqlSeal`,
`SqlCommit`, `SqlTorn`, `ExportBundle` are single steps. `SessionOpen` and `OpenMainDb`
are what unlocking and opening decide on a device's stores; `Recover` is the offline
tool. A bundle stays in `air` forever, so it may be imported late, twice or never. A
hot journal is the content it would go back to (`hot`, `Cold` without one), which is what
`OpenMainDb` checks, while the file that `SqlTorn` left half-written is what it serves;
`SqlSeal` is the barrier of the next transaction, which seals that file. The files an
import has left are a set, of which `NextFile` takes the one that the bundle has first.

### Trust

`idb` has the six records of device identity and trust; `call` the SDK call in flight
and the IndexedDB writes it has left; `sigs` every signature made, with what it was
asked for; `certs` the certificates returned. Actions follow the awaits of
`deviceId()`, `issueDeviceCert()` and `#deviceIdentity()`; `Attest` and
`AuthorizeRelay` are the other two signers, `Rotate` a whole rotation, `CloseTab` the
end of every call in flight. `VerifyCert` and `Authorize` are the verifiers.

### VersionVector, Sync

`log` is the relay's log of the bucket; `img`, `anchor`, `idb` are, per device, the
live image, the committed mark of its anchor, and `syncVv`/`syncCursor`/`syncForks` in
IndexedDB; `pass` holds the local variables of each running call of `sync()`. The
actions follow the awaits: `Begin` (the reads), `List`, `Pull` (get, open, reconcile;
of a fork the loser is kept), `Apply` (`session_sync_apply`), `EndPull`, `Seal`
(`sync_vv_increment`, `session_sync_seal`), `Put`, `Relist`, `SaveVv`, `SaveCursor`,
`SaveForks`. `Edit` and `Query` are the application's SQL, `Abort` an exception from
the relay, an auto-lock or a closed tab at any await; during an import it may leave a
main file and a manifest that do not belong together. `calm` counts rounds of
undisturbed passes for the convergence property, and `CalmAfter` is the number of
passes after which nothing disturbs any more.

An image is the set of edits in it, its `db_generation` and whether its two files
belong together; sealing is ideal. A device id is a number, and counts stay small, so
the byte order of `encode()` is the order of numbers. All devices start from one
imported bundle. Several callers on one device model two tabs or a timer and a button.

## 3. Runs

Passing runs:

| Run | Shows | Bounds |
|---|---|---|
| `VfsCrash` | power loss between any two writes of commits and rollbacks never bricks a populated database (`NeverBricked`) and leaves an image that is whole, or that its unplayed journal would make whole (`Durable`), up to the first transaction begun over such a journal; the anchor never overtakes the manifest (`GenerationLadder`); the image changes only while a transaction writes its pages (`StoreSpec`, the refinement of `PageStore`); a database left alone after a restart is served (`Reopens`) | 2 blocks, 2 transactions, 3 restarts |
| `VfsStale` | with copies restored at any time: at most one generation back (`RollbackBound`), never below an applied epoch (`EpochStrict`), the anchor only moves forward (`AnchorForward`) | 1 block, 2 transactions, 3 restarts |
| `VfsTorn` | data of a database created here, or of a legacy one, is served without a root only beside a hot journal, and no transaction is journalled over it (`ServedIsRooted`); torn blocks and shrinking transactions may be refused, but what is served is as in `VfsCrash` (`Durable`) | 2, 2, 3 |
| `Pool` | the pool implements byte files (`FilesSpec`); every opaque file is accounted for and no name is carried twice (`HandlesAccounted`); no block of an open file fails to authenticate (`Readable`) | 1 database, 1 temporary file, 4 handles (3 at install), blocks of 2 bytes, journals of 2 blocks, bytes 0 and 1 |
| `Vault` | rotation and its recovery keep key and files together, with transactions that begin, commit, are rolled back or are cut short over a half-written file and its unplayed journal too (`Recoverable`), overlapping method changes never put the envelope below its floor (`NotLockedOut`), an attested floor survives rotation (`FloorKept`) | 2 databases, room for 6 or 9 files, 2 calls at once, 5 in all, 2 transactions, 2 crashes, 1 rotation |
| `Transfer` | a bundle opens with every secret that travels, and offline with a recovery code and nothing else (`BundleOpens`); a completed import serves what was exported (`ImportServes`); what is served was sealed by some barrier, or lies half-written beside a hot journal (`ServesSealed`); no device is rolled back (`NoRollback`) | 2 devices, 1 database, 5 calls, 2 enrolments, 2 bundles, 2 transactions, 1 crash |
| `Trust` | no signature serves another purpose (`SignedForIt`), certificates chain to the stored root (`OneRoot`), the stored one is the device's own (`OwnCert`) | 1 call at a time, 3 keys, 2 signatures, 1 rotation, 2 points in time |
| `Sync` | no published edit a device has taken note of is in neither its live image nor a preserved fork, until a pass is abandoned (`PublishedSurvives`), with passes overlapping each other and the application's edits, pull-only passes included; after any disturbance two undisturbed rounds leave all devices with one image (`Converged`); an abandoned pass never lets mismatched files reach the relay (`PushedWhole`) | 2 devices, 2 edits, 7 passes, 1 of them abandoned, calm after 3 |

`TypeOK` is checked in `VfsCrash`, `Pool`, `Vault`, `Transfer`, `Trust` and `Sync`.

Why the bounds are enough. Two blocks are the least with which a crash can persist part of a
transaction, with one that is overwritten and one that grows the file. Two transactions use
both manifest slots and both anchor slots and overwrite each once; the second may begin over
the journal of the first. Three restarts allow a crash, a crash during the open or the
barrier that follows, and the open that shows the result. `VfsStale` needs no partial images
and takes one block.

Two bytes per block and two blocks give every position of a write or truncate
relative to block boundaries; three handles are used up by a main file, its manifest
and a journal, so that a temporary file needs an added handle or one that was freed,
with the key of another file. `BlockDeviceProofs` lifts the arithmetic to every block
size.

In `Vault`, nine files are just enough for the rotation of two databases (two live files and
two shadows each, and the intent); six, the size the worker installs, are too few, and
staging fails in its middle. Two crashes interrupt the rotation and then its recovery.
The second of two transactions is the one that may find the first one's journal. In
`Transfer`, two enrolments give bundles of
two different vaults, two bundles of one vault give an older and a newer one. It was also
run once with six calls (6.9 million states), and with two databases, three identities and
four calls (3.8 million), without an error; these take longer than a routine run should.

In `Sync` two devices with two edits give forks with either winner; three passes that
may overlap, only pull or be abandoned make the fork and resolve it on one device, and
four undisturbed ones are two rounds. Every bound is a guard; a run may stop
there, hence `CHECK_DEADLOCK FALSE`, except in `Pool`, where some operation is always
possible. Handles, calls and devices are interchangeable, which `Pool`, `Vault` and
`Transfer` use as symmetry (no liveness is checked there).

Runs that end in a violation. Each states a sentence of the repository and shows a
behaviour of the code that disagrees; `PROJECT.json` quotes the sentence.

| Run | Property | What happens |
|---|---|---|
| `RotateHot` | `Recoverable` | a vault unlocked after a crash inside a transaction and rotated before another transaction has begun: the half-written main file goes to the new key, the journal stays under the old one |
| `VfsHotJournal` | `PreOrPost` | power is lost between two page writes of a transaction; the next session accepts the file, because the journal would restore it, and serves it half-written, because nobody plays the journal back (`vfs.rs:2677`) |
| `VfsVacuumBrick` | `NeverBricked` | SQLite shortens the file after the seal, and nothing seals the new length |
| `SyncDirty` | `NoEditLost` | a fast-forward replaces an image with edits made since the last push |

Further disagreements were met and can be reproduced with the same modules; they have
no run of their own. The second column names the configuration to start from and what
to change in it.

| Property | Configuration | What happens |
|---|---|---|
| `EveryReopenSucceeds` | `VfsCrash` | power is lost after a commit's seal and before the journal header goes; the next transaction seals again over that journal (`vfs.rs:1552`), so that neither of the manifest's two roots is the one the journal leads back to, and power lost in this barrier leaves a database that is refused; `BUILD-NOTES.md:91` says "every reopen succeeds" |
| `AnyMethodOpens` | `Vault`, `IdSpace = 4`, `NumDbs = 1`, `Capacities = {6}`, `Calls = {c1}`, `MaxCalls = 3`, no writes, crashes or rotations | the slot count is one byte (`envelope.rs:372`): the envelope written with the 256th slot (here the fourth) does not parse, its generation is 0 and below the floor, and no method opens the vault |
| `NeverBricked` | `VfsCrash`, `Tears = TRUE` | a main-file block torn behind a hot journal is refused (`vfs.rs:1598`) although the journal holds its pre-image |
| `NeverBricked` | `VfsCrash`, `Starts = {"none"}` | `replay_journal_root` (`vfs.rs:1782`) does not truncate when the journal's initial page count is 0, SQLite does: after a first transaction is rolled back and the next is interrupted, the open is refused |
| `NeverBricked` | `VfsCrash`, `Starts = {"legacy"}` | `seal_root_migration` (`vfs.rs:1459`) writes the same generation and so overwrites the slot in force; a torn write falls back to a manifest of another length |
| `KeyFitsFiles` | `Vault`, `NumDbs = 1`, `Capacities = {6}`, `MaxCrashes = 1` | a second call that read the envelope before the rotation's commit barrier writes it back over the new one: the stored key no longer fits the files |
| `Unlockable` | `Vault` | a crash between storing the rotated envelope and deleting the epoch token (`index.js:540`-`544`) leaves a token no key opens, and `unlock()` is refused |
| `ImportServes` | `Transfer`, `ExportsOverJournal = TRUE` | an export copies a half-written main file without its hot journal; what the exporter serves, the importer refuses |
| `PasskeyUnlocks` | `Transfer` | `importBundle()` and `enroll()` leave the device key of an earlier convenience vault, which `unlock()` (`index.js:431`) presents instead of the synced passkey that `index.js:735` speaks of |
| `RootUsable` | `Trust` | rotation never re-seals the trust seed; the comment in `vfs.rs` on the trust seed says that "re-sealing under a rotated DEK keeps the SAME keypair" |
| `IdentityWhole` | `Trust` | a tab closed between storing the device's public key and its certificate id leaves the first without the second for good |
| `OneRoot` | `Trust`, `Calls = {c1, c2}`, `Overlaps = TRUE` | two overlapping calls each provision a root; `device.rs` says it is "Generated ONCE per vault" |
| `NothingDropped` | `Sync` | a pass abandoned after the winner was applied has not saved the loser (`index.js:853`, `:887`) |
| `AppliedOpens` | `SyncDirty` | the winner is chosen by pushes, the anchor counts commits: a winning image can be refused as a rollback (`lib.rs:3326`) |
| `CursorSeen` | `SyncDirty` | the cursor after a push (`index.js:881`) passes blobs a peer appended meanwhile; "seen everything up to and including our push" |
| `EqualIsNoOp` | `SyncDirty`, `Callers = {1, 2, 3}`, `Owner <- TwoOnFirst` | two calls of `sync()` on one vault publish different images under one vector; a peer ignores the second (`sync.rs:242`, "Equal is a no-op; incoming carries nothing new") |

Smaller observations, made while reading and outside the models' properties: after an
import is cut short right after the pool was cleared, the old envelope unlocks an empty
vault without a word, because an empty main file has no root to check; a device's own
older backup is refused as a rollback although `index.js:748` calls an import "an
explicit re-baseline"; offline recovery is all or nothing when one database lacks its
manifest; a pool of six files, the installed size, is too small to rotate two
databases, and shadows staged before the intent record was written are not rolled back
by the next open, although the comment on `stage_rotation` says so, but stay until a
rotation succeeds; `next_kek_id` wraps at 256 too, and removing a method by an id that two
slots have come to share removes both; an epoch token that fails to apply
(`lib.rs:2837`) leaves the pool registered without a session, and a later unlock gets that
pool with the key it was installed with, the one before a rotation for instance
(`overtaken` excuses what is rotated in such a pool); `attest()` asks
the worker for the public key and the signature in two calls, between which a rotation
may fall; pool headers are written without a flush, so that a power loss of the whole
machine can leave one name on two files; SQLite skips the page at 1 GiB, and the hole
that leaves in a block file does not authenticate.

The passing runs keep apart from these: `Tears` and `Shrinks` are off where `NeverBricked`
is checked and the database is populated there; `NeverBricked`, `Durable` and `Reopens` end
where a transaction is begun over an unplayed journal (`overlaid`), and `Durable` excepts
the half-written file beside its journal; `VfsTorn` does not assert `NeverBricked`, `Vault`
rotates no pool with a left-over journal and excepts the histories marked `overtaken`,
`NotLockedOut` is asked where the slot byte does not overflow, `Transfer`
exports no half-written database, `Trust` runs one call at a time, and the properties of
`Sync` speak of published edits until a pass is abandoned, of images after undisturbed
passes and of what is pushed.

Fairness. Only `VfsCrash` has a liveness property. `FairSpec` adds weak fairness of
`OpenStep \/ BarrierStep \/ SaveFloor`: these run inside one synchronous call in the
worker, which continues to its end unless power fails. Nothing is assumed of the
application (it need not begin, commit or close), and crashes are bounded by
`MaxRestarts`, which stands for "power eventually stays on". The SDK's calls wait for
users, relays and the browser, which promise nothing; convergence of sync is therefore
stated as an invariant of histories that contain two undisturbed rounds.

## 4. Proofs

### The commit protocol

`VfsCommitProofs` proves, for every number of blocks, transactions and restarts and
every setting of the switches (from `ConstantsAssumption` and `ZeroRootAssumption`
only, unless said otherwise):

| Theorem | Statement |
|---|---|
| `TypeCorrect` | `Spec => []TypeOK` |
| `AnchorMovesForward` | `Spec => AnchorForward` |
| `RollbackIsBounded` | `Spec => []RollbackBound` |
| `EpochIsStrict` | `Spec => []EpochStrict` |
| `LadderHolds` | `Untouched /\ Spec => []GenerationLadder`, where `Untouched` says that no copy is restored and no start is a legacy database |

The argument. `AnchorForward` is not inductive: a torn slot is harmless only if the
write went to the *older* slot. `AnchorParity` says that slot `s` holds a sequence of
parity `s`, so that the slot of the next sequence is never the one `anchor_load`
returns. The lemma `Recorded` then describes what `anchor_record` does to the loaded
entry and `TornAnchor` what a torn write leaves.

`RollbackBound` and `EpochStrict` follow from `StaleInv`: the loaded anchor's committed
mark is at least `ackGen` and its floor at least `epochSeen`, and once a session is
past the freshness rule its generation is at most one below the committed mark and not
below the floor, whatever files were put back. The open itself needs two intermediate
clauses, because `anchor_record` runs between the freshness rule and the checks that
may still refuse; and creation needs one, because a fresh `db_uuid` starts with an
empty entry.

`GenerationLadder` needs `ManifestParity` for the manifest slots, for the same reason
as above, and `LadderInv`, which ties the session's generation to the manifest on disk
at each stage: equal everywhere but between the seal and the committed mark, where the
manifest is one ahead. `LadderStep` has one case per action that writes a slot; the
others are `Quiet` or leave the two records alone. A legacy database is excluded
because its migration overwrites the slot in force (see section 3).

The second half of `VfsCommitProofs` is about the data those records describe, again for
every number of blocks, transactions and restarts:

| Theorem | Statement | Hypotheses |
|---|---|---|
| `CommitsAreDurable` | `Spec => []Durable` | `Recovering`: no copy is restored |
| `VfsIsPageStore` | `Spec => StoreSpec` | `Plain`: also no shortening transaction, no torn block |
| `PopulatedNeverBricked` | `Spec => []NeverBricked` | `Populated`: also every start is a populated database |
| `ServedHasRoot` | `Spec => []ServedIsRooted` | none |

No journal is played back in any of them. `Durable` and `NeverBricked` speak of histories
in which no transaction has begun over an unplayed journal (`~overlaid`); the run
`VfsHotJournal` and the first row of the second table in section 3 show what the exceptions
are for. `StoreSpec` has no
such exception: a transaction over such a journal is one that starts from the half-written
file. The hypotheses are needed. With `Shrinks`, `Tears` or a start without a database or
with a legacy one `NeverBricked` fails (section 3); the file of a shortening transaction is
longer than the image it committed until SQLite truncates it, and a torn block is neither
the old page nor the new one, which `StoreSpec` does not allow; and a restored copy is an
older image by definition, which `RollbackBound` and not `Durable` is about.
`CommitsAreDurable` covers torn blocks and shortening transactions.

The argument. `Durable` speaks of what the *next* open finds, so `JournalInv` says of the
journal in the page cache and of the one on disk alike (`Safe`): if it is hot, playing it
back over any surviving mixture of old and new blocks would restore its initial image
(`Undoes`: every block the journal lacks is unchanged in both copies of the main file),
and that image contains an allowed one; if it has no header, main file and disk agree on
an allowed image. An open, which plays nothing back, leaves this as it is: it serves the
file beside the journal. The two copies of the journal differ only in the windows that
`WritingInv` spells out by stage: before the journal is flushed the main file is
untouched, and once it is sealed the file is flushed before the header is zeroed. With
this, `Crash` is a single lemma: it keeps some of the unflushed blocks, and both cases of
`Safe` are insensitive to which. A `Begin` over a hot journal ends it and sets `overlaid`.

The refinement does not rest on it, since it holds beyond that point. `PageInv` says that
outside a transaction nothing is unflushed, that inside one the flushed file is the image
the transaction started from and each block of the other is the old one or the new one,
and that the journal can take each changed block back, so that SQLite's rollback gives
that image again. The abstract store is that image until the main file is synced, and the
main file from there on: it adopts a commit in `SyncMain`, a crash before that is a `Stop`
with some of the pages, and every other step leaves the store alone (`StoreStep`).

`PopulatedNeverBricked` adds to `LadderInv` and `JournalInv` that blocks authenticate and
that a file only grows (`PlainInv`), and `RootInv`: the image that the VFS takes the
journal to restore, or the main file without one, is among the roots the manifest in force
accepts, at every stage of the barrier. `ServedHasRoot` holds with stale files put back as
well, since `SlotInv` keeps the parity of the slots of every copy. A database without a
root is migrated before it is served or stands behind a hot journal; a transaction must
take that journal's header first, and the barrier that runs before it seals a root
(`RootedInv`).

### The block device

`BlockDeviceProofs` proves, for every block size (`BAssumption`) and every region of
sealed blocks, `ReadsWhatWasWritten` (after a write each byte of the range reads as
written and every other byte as before) and `ForgetsWhatWasCut` (after a truncate the
bytes kept read as before and all others as zero, those of the kept tail block
included), and that both leave every block authentic. The one arithmetic fact behind
both is `BlockOf`: a byte lies at or past the start of block `k` exactly if its block
number is at least `k`. `BlocksCover` says the same of the rounded-up block count.
`ReadsWhatWasWritten` assumes that the write begins at or before the end of the last
block, which is what SQLite does and `Pool` guards.

### The pool

`PoolProofs` proves `PoolTypeCorrect` (`TypeOK`), `EveryHandleAccounted`
(`HandlesAccounted`) and `AlwaysReadable` (`Readable`) of `Spec`, for every block size and
any number of databases, temporary files and handles, from `PoolAssumption` and
`BAssumption`.

The invariant is `PoolInv == DiskOK(disk) /\ MemoryOK(disk, pool)`, stated of a disk and
of a worker's memory on that disk rather than of the state: a call is a sequence of
disks, and a power loss may leave any of them with no memory at all, so every action
owes `DiskOK` of each disk on the way and `MemoryOK` only at its end. `DiskOK` says that
no name is carried by two opaque files and that what carries the name of a database's
file is sealed under that database's key, but for the blank blocks of an interrupted
import. `MemoryOK` has two clauses that the properties do not mention: `SizesFit` (the
cached byte size never exceeds the blocks on disk), without which a write could begin
past the last block and leave a hole that does not authenticate; and `OpenOK` (the
handle of an open main file or journal has the key of its database), without which a
handle that was freed and reused would seal under the key of the file it had before.
There is one lemma per operator (`LinkOK`, `UnlinkOK`, `BoundOK`, `SatelliteOK`,
`TempOK`, `ContentOK`, `CapacityOK`) and one per action.

`PoolFilesProofs` proves the refinement, `PoolIsByteFiles == Spec => FilesSpec`, with the
same parameters and from the same assumptions. What SQLite sees of a file
(`SqliteFile`, here `Seen` while the pool runs and `View` between sessions) depends on
its handle, its blocks and its byte size. `PoolInv` says too little about the three:
`FilesInv` adds `Exact`, that the blocks of a file are those its byte size needs and that
the rest of the last block is zero. Without it the padding found after a power loss could
hold bytes that a truncate had cut off. A main file is written in whole blocks, and its
size on the blocks counts once it is open. TLC checked `FilesInv` on the instance of the
`Pool` run before it was proved.

The argument has three layers. `WrittenBytes`, `TruncatedBytes` and `ResealedBytes` say
that what `xWrite` and `xTruncate` have done to the blocks at each persistence operation
is a write, a truncate or a wipe of the bytes so far; they rest on the theorems of
`BlockDeviceProofs`, and on `WriteSoFar`: a write that has reached a block is a shorter
write that ends there. `LinkFiles`, `UnlinkFiles`, `OpenFiles`, `RewriteFiles` and
`RewriteCut` say what the operators of the file table make of one file, and that every
other file is as it was (`Others`) or as the end of the session makes it (`Ended`).
`StepOne`, `StepNone`, `StepEnd` and `StepCut` turn this into a step of `ByteFiles`, and
there is one lemma per action of `Pool`.

### The vault

`VaultProofs` proves every property that the `Vault` run checks, for any number of
databases, overlapping calls, transactions, rotations and crashes, from `VaultAssumption` (the pool has room for the files of its databases) and
`IdSpaceAssumption`:

| Theorem | Statement | Hypotheses |
|---|---|---|
| `VaultTypeCorrect` | `Spec => []TypeOK` | none |
| `VaultNotLockedOut` | `Spec => [](Parses(idb.env) => NotLockedOut)` and `Spec => [](FewMethods => Parses(idb.env))` | none |
| `VaultRecoverable` | `Spec => []Recoverable` | `RotatesOverJournal = FALSE` |
| `VaultFloorKept` | `Spec => FloorKept` | `RotatesOverJournal = FALSE` |

`FewMethods` says that fewer codes have been added than the slot byte counts, removed ones
included (`1 + n.codes < IdSpace`); beyond it an envelope need not parse, and then it is
refused (`AnyMethodOpens` in section 3). The hypothesis is needed: the run `RotateHot` shows what a rotation
over a left-over journal does. It is used only where `RotateKey` posts its message.

The argument has three layers. `TypeInv` types every store and says what the running
call may rely on at its stage (`RunOk`): that the shadow it fills is there, that nothing
is open while files are staged or swapped, that there is no intent under an open session.

`NotLockedOut` is about calls that overlap, each of which read the envelope some time before
it writes its own. Nothing in the code makes a later writer read later; what does is that
every such call goes through the same stations (asked, prompted, posted, run, answered,
stored), each first-in first-out and the prompt for one call only. `OrderInv` says so: of
the calls at one station those further ahead read no later (`InOrder`), the nearer a station
is to the end the earlier its calls read (`RanksOrder`), and the stored generation is at
most one above what a call that is going to write has read (`NearStored`). So a stored
generation never falls, and the floor, which is raised to what was stored, is never above
it. `FewInv` counts the slots: the stored envelope and those in the calls have no more than
one for the passkey and one for each code added. `OrderTake`, `OrderAnswer`, `OrderPut` and
`OrderPost` move a call from one station to the next.

`Recoverable` needs to know, of every stage of a rotation and of its recovery, which of
the three stores is ahead. `Safe` has one clause for each: `Fits` (the files that the
stored key will find after recovery: live ones, or what the intent rolls forward to),
`StageFits` (the shadow of each file staged so far is that file under the new key, and no
journal is left), `CommitFits` (a complete intent waits for its envelope: it rolls forward
to what the old key serves now, and carries the old anchor's floors), `RunFits` for the
roll-forward and its reversal, `PoolFits` (the pool in memory has the stored key or is
paused), `FloorFits`. A crash keeps all of it, since only the two stores are mentioned
once the worker's memory is gone (`SafeCrash`); the commit barrier is one lemma
(`SafePutRotate`), where `CommitFits` becomes `Fits`. `SafeInv` is `Safe` unless `overtaken`;
TLC checked it on the instance of the run before it was proved. Two conditions that
`overtaken` had to include were found there.

For `FloorKept`, a floor has two carriers, the anchor (`Loaded`) and an intent that rolls
forward (`Carried`), and each step hands it over from one of them to the other or raises it
(`FloorUp`): at the barrier from the old anchor to the intent, in the roll-forward to the
new anchor, which is complete when the intent goes.

### Bundles

`TransferProofs` proves every property that the `Transfer` run checks, for any number of
devices, databases, enrolments, codes, bundles, transactions and crashes, from
`TransferAssumption` and `IdSpaceAssumption`:

| Theorem | Statement | Hypotheses |
|---|---|---|
| `TransferInvariant` | `Spec => []Inv` | none |
| `TransferTypeCorrect` | `Spec => []TypeOK` | none |
| `TransferServesSealed` | `Spec => []ServesSealed` | none |
| `TransferNoRollback` | `Spec => NoRollback` | none |
| `TransferBundleOpens` | `Spec => []BundleOpens` | none |
| `TransferImportServes` | `Spec => []ImportServes` | `ExportsOverJournal = FALSE` |

Without the hypothesis the last one is false (section 3): an export over a hot journal
carries the half-written main file and leaves the journal behind. The decryptor, which
checks no root, yields that file as the exporter served it; an import refuses it. `Inv`
holds with such exports too; only one conjunct of `BundleOk` depends on the switch.

No property is inductive by itself: what an import serves depends on what each of its
interrupted steps left in three stores, and what a bundle carries on everything its
exporter did before. `Inv` is a consistency of each store and of each pair that meets;
TLC checked it on the instance of the run before it was proved.

- `DevsOk`: envelopes are sealed under one key (`Envs`); every manifest vouches for an
  image that a barrier sealed, or for a file without bytes, and the main file beside it
  holds that image or one that is not its predecessor, which only a hot journal that leads
  back to it can make acceptable (`Vouched`); no two manifests on one device have the same
  identity.
- `Written`: the content of a transaction is new, since no file holds and no manifest names
  one that is still to begin (`Begun`). A half-written file is therefore never taken for
  the manifest's previous root.
- `SesssOk`: what is served is the main file, which is what the manifest of that moment says
  unless a journal is hot (`Serves`), and the stored envelope is the session's.
- `KnownsOk`: while one key is used, what a device has seen is at most the committed mark
  of its anchor, and what it was attested at most the floor; each mark is one of the two
  histories' numbers (`KnownOk`). The first half gives `NoRollback`; the second shows that
  a refusal after an import is deserved, not the trace of a foreign vault.
- `AirOk`: a bundle is sealed and stripped of device slots, its secrets are those that
  open its envelope, its token attests the generations in it, and each database its
  exporter could open is in it as served (`Carries`), and accepted again if no journal was
  hot (`Holds`).
- `BasesOk`: a device that completed an import and was left alone has the bundle's
  entries and files.
- `TheJobOk`: while a call runs, each entry it sets is still to be written, with the right
  value, or holds it already (`Settles`, `Keyed`); each file is still to be written or is
  the bundle's (`Imported`). `Put` and `ImportFile` move one of them across; `Done` makes
  `BasesOk` of `ImportOk` when nothing is left; a crash forgets the call.

There is one lemma per action (`EnrollInv` to `ExportBundleInv`) that proves all of `Inv`
again. The envelope operators have theirs: `StripT`, `StripOpeners` (stripping device
slots keeps the envelope sealed and exactly the other secrets), `AddT`, `OpensT`. `Numbered`
(every finite set of numbers is numbered in order by `Nth`) and `GreatestNumber` are what
they and the marks rest on. `BundleOpens` then follows from `AirOk` alone, `ImportServes`
from `AirOk`, `BasesOk` and `KnownsOk`.

### Version vectors

`SyncProofs` begins with the algebra of vectors. It proves, for every number of devices,
`RelationMirrors` (two devices see each other's relation mirrored), `MergeIsLeast`
(`merge_max` is the least upper bound), `OneWinner` (the incoming image of a fork wins on
one side exactly if it loses on the other) and `ReconcileAgrees` (what one device decides,
the other decides the counterpart of). The order of winners compares totals, then id lists,
then encodings; the last two rest on the least device at which two lists or vectors differ
(`LeastDevice`). That a vector's total is a number would need an induction over the devices,
which is outside the prover; it is a hypothesis of `OneWinner`.

### Sync

`SyncProofs` proves, for any number of devices and edits, passes and blobs in the log:

| Theorem | Statement | Hypotheses |
|---|---|---|
| `SyncTypeCorrect` | `Spec => []TypeOK` | none |
| `PublishedIsKept` | `Spec => []PublishedSurvives` | `OneEach` (one call of `sync()` at a time on a device) |
| `OnlyWholeImagesPushed` | `Spec => []PushedWhole` | `OneEach` |

The hypothesis has a counterexample in section 3 (`EqualIsNoOp`), and so has what
`PublishedSurvives` excepts, a pass that was abandoned (`NothingDropped`).

`PublishedSurvives` is about what a device has taken note of, which its saved vector
states; it needs that vectors tell the truth. `SurvivalInv`, which holds until the first pass is
abandoned, therefore has `Causal`: every
blob has an author whose count dates it, so that a vector with that count has everything
the blob had; `CountsOwn`: nobody has a higher count of a device than the device itself;
`Saving`: no fork is forgotten between the reads of a pass and its writes; and `Survives`:
what the vector of a blob, of a device or of an import about to be applied covers is in
the image that goes with it or in a preserved fork.

`PushedWhole` with abandoned passes needs a different invariant. A pass abandoned after
the main file was replaced and before the manifest leaves mismatched files, and what
protects the relay is that the next pass repeats the decision. `WholeInv` says why: while
a pass pulls, its vector is the least upper bound of the saved vector and of the blobs
heard since the saved cursor (`Pulling`), so a pass that starts over decides the same; and
while the files are mismatched, a blob that will be imported is still ahead of every pass
of the device (`Reimports`).

### Trust

`TrustProofs` proves every property that the `Trust` run checks, for any number of keys,
signatures, rotations, calls and points in time, from `TrustAssumption`:
`TrustTypeCorrect` (`TypeOK`), `NoOtherPurpose` (`SignedForIt`), and, when no two calls
overlap (`~Overlaps`), `OneRootForAll` (`OneRoot`) and `StoredCertIsOwn` (`OwnCert`). With
overlapping calls `OneRoot` is false (section 3).

Certificates and attestations share a message layout; what keeps them apart is that a
trust key is never an identity key, which `TypeInv` carries for every signature made.
Relay requests have a domain of their own. `CanonKeeps` says that canonicalizing the
capabilities of a claim keeps their set and gives the one form verifiers accept, so that a
certificate verifies for the scopes it was asked for. `OneRoot` and `OwnCert` need
`SoleInv`: at most one call is in flight (`OneAtATime`); a certificate in its hands chains
to the stored root, or to the seed that its next write stores (`RootInv`); no new device
key is generated when one is stored, and a certificate about to be stored is for the
stored key (`OwnInv`). These hold between any two of the writes, so that a tab may be
closed at each.

### Model-checked only

- `Reopens` of `VfsCommit`: liveness is outside the prover.
- `Converged` of `Sync`: it is about histories with two undisturbed rounds, and who wins a
  fork depends on totals of vectors, an induction over the devices.
- The properties of the runs that end in a violation, and those of the second table of
  section 3: a counterexample needs no proof.

## 5. Plan

Done: `VfsCommit`, `PageStore`; `VersionVector`, `Sync`; `Envelope`, `Vault`;
`BlockDevice`, `Pool`, `ByteFiles`; `Transfer`; `Trust`; the proofs of section 4.

Left: the relay's token bucket, its subscription stream and a restart that empties its
logs.

### Not modelled

- The custody broker: an example application, a grant table in memory consulted in one
  synchronous call.
- The cryptographic primitives (ideal), and with them key derivation and the advisory
  checksum of recovery codes.
- The self-tests in `lib.rs` (about 2100 lines) and the demo pages: no state of their
  own.
- The byte layouts of bundles, manifests, blobs and claims: round-trip tests in the
  repository cover them, and no property here depends on them.
- Of the relay: the rate limiter, the subscription stream, a restart. The reference
  server keeps everything in memory and is meant for tests.
- Of device trust: `reset()` of its records, and a sealed seed that is moved to another
  device. The repository has no revocation list.
- The capacity of the anchor table: the instances follow fewer databases than it holds.
