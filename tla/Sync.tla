-------------------------------- MODULE Sync --------------------------------
(***************************************************************************)
(* sync() of the JavaScript SDK (packages/db/index.js) on several devices  *)
(* of one vault over a blind relay, with the wasm operations it calls      *)
(* (crates/freehold/src/lib.rs) and the append-only relay log              *)
(* (server/relay-server.mjs, packages/db/relay-mem.js).                    *)
(*                                                                         *)
(* Abstractions.                                                           *)
(*  - An image is the set of edits it contains, the db_generation of its   *)
(*    manifest and whether its main file and manifest belong together.     *)
(*  - Sealing and authentication are ideal; every device holds the DEK.    *)
(*  - The anchor of a device is its committed mark for the database.       *)
(*  - A step is what happens between two awaits of sync().  The            *)
(*    application may run SQL in between; a pass may be abandoned at any   *)
(*    await, because a relay call throws, the vault auto-locks or the tab  *)
(*    closes.  Relay and worker calls that fail have had no effect or      *)
(*    their full effect, except an import cut short between its files; the *)
(*    application does not recreate a database the cut left without a main *)
(*    file before the next pass imports it again.                          *)
(***************************************************************************)
EXTENDS VersionVector, Sequences

CONSTANTS
    Callers,   \* calls of sync() that may be under way at once
    Owner,     \* the device each of them runs on
    MaxEdits,  \* bound: edits made
    MaxPasses, \* bound: passes begun
    MaxAborts, \* bound: passes abandoned
    CalmAfter, \* bound: passes after which every pass runs alone, undisturbed
    PullOnly   \* is sync({ push: false }) called too?

ASSUME CallersAssumption ==
    /\ Owner \in [Callers -> Devices]
    /\ MaxEdits \in Nat /\ MaxPasses \in Nat /\ MaxAborts \in Nat
    /\ CalmAfter \in Nat /\ PullOnly \in BOOLEAN

VARIABLES
    log,     \* the relay's log for the vault's bucket: [vv, image]
    img,     \* the live image of each device, in OPFS
    anchor,  \* the committed mark of each device
    idb,     \* syncVv, syncCursor and syncForks in IndexedDB, per device
    pass,    \* the local variables of each call of sync()
    edits, passes, aborts, \* counters for the bounds
    calm     \* history: undisturbed passes, [round, rounds]

vars == <<log, img, anchor, idb, pass, edits, passes, aborts, calm>>

Idle == [pc |-> "idle", vv |-> ZeroVector, cursor |-> 0, count |-> 0, i |-> 0,
         forks |-> {}, next |-> <<>>, push |-> FALSE, solo |-> FALSE]

NoCalm == [round |-> {}, rounds |-> 0]

Active(c) == pass[c].pc # "idle"

\* open_main_db admits the image: consistent files, at most one behind.
Opens(d) == img[d].whole /\ ~(img[d].gen + 1 < anchor[d])

At(c, p) == pass[c].pc = p

-----------------------------------------------------------------------------
\* session_sql commits a change: a new generation, recorded in the anchor.
Edit(d) ==
    /\ edits < MaxEdits /\ passes <= CalmAfter /\ Opens(d)
    /\ edits' = edits + 1
    /\ img' = [img EXCEPT ![d].edits = @ \cup {edits + 1}, ![d].gen = @ + 1]
    /\ anchor' = [anchor EXCEPT ![d] = IF @ > img[d].gen + 1 THEN @ ELSE img[d].gen + 1]
    /\ calm' = NoCalm
    /\ pass' = [c \in Callers |-> [pass[c] EXCEPT !.solo = FALSE]]
    /\ UNCHANGED <<log, idb, passes, aborts>>

\* session_sql only reads: opening the image records its generation.
Query(d) ==
    /\ Opens(d) /\ anchor[d] < img[d].gen
    /\ anchor' = [anchor EXCEPT ![d] = img[d].gen]
    /\ UNCHANGED <<log, img, idb, pass, edits, passes, aborts, calm>>

\* sync() reads the vector, the cursor and the forks of its device.
Begin(c) ==
    /\ At(c, "idle") /\ passes < MaxPasses
    /\ passes' = passes + 1
    /\ LET alone == \A o \in Callers : ~Active(o)
           saved == idb[Owner[c]]
       IN /\ passes < CalmAfter \/ alone
          /\ \E push \in IF PullOnly /\ passes < CalmAfter THEN BOOLEAN ELSE {TRUE} :
                pass' = [o \in Callers |->
                    IF o # c THEN [pass[o] EXCEPT !.solo = FALSE]
                    ELSE [Idle EXCEPT !.pc = "list", !.vv = saved.vv, !.solo = alone /\ push,
                          !.cursor = saved.cursor, !.forks = saved.forks, !.push = push]]
          /\ calm' = IF alone THEN calm ELSE NoCalm
    /\ UNCHANGED <<log, img, anchor, idb, edits, aborts>>

\* relay.list(syncId, cursor)
List(c) ==
    /\ At(c, "list")
    /\ pass' = [pass EXCEPT ![c].pc = "pull",
                            ![c].count = IF Len(log) > pass[c].cursor
                                         THEN Len(log) - pass[c].cursor ELSE 0]
    /\ UNCHANGED <<log, img, anchor, idb, edits, passes, aborts, calm>>

\* Mutants: the live image is sealed as the loser only after it was replaced;
\* the cursor is saved as soon as a blob has been fetched.
PullSealLate(c) ==
    /\ At(c, "pull") /\ pass[c].i < pass[c].count
    /\ LET p == pass[c]
           b == log[p.cursor + p.i + 1]
       IN pass' = [pass EXCEPT ![c] =
            CASE Reconcile(p.vv, b.vv) = "stale" -> [p EXCEPT !.i = @ + 1]
              [] Reconcile(p.vv, b.vv) = "forkLocal" ->
                    [p EXCEPT !.i = @ + 1, !.forks = @ \cup {b.image},
                              !.vv = MergeMax(@, b.vv)]
              [] OTHER -> [p EXCEPT !.pc = "apply", !.next = <<b>>,
                                    !.forks = @ \cup {b.image}]]
    /\ UNCHANGED <<log, img, anchor, idb, edits, passes, aborts, calm>>
PullSavesCursor(c) ==
    /\ At(c, "pull") /\ pass[c].i < pass[c].count
    /\ LET p == pass[c]
           b == log[p.cursor + p.i + 1]
       IN /\ pass' = [pass EXCEPT ![c] =
                IF Reconcile(p.vv, b.vv) = "fastforward"
                THEN [p EXCEPT !.pc = "apply", !.next = <<b>>] ELSE [p EXCEPT !.i = @ + 1]]
          /\ idb' = [idb EXCEPT ![Owner[c]].cursor = p.cursor + p.i + 1]
    /\ UNCHANGED <<log, img, anchor, edits, passes, aborts, calm>>

\* get, open and reconcile the next blob.  A stale one is ignored; of a fork
\* the loser is kept: the incoming blob, or the live image sealed now.
Pull(c) ==
    /\ At(c, "pull") /\ pass[c].i < pass[c].count
    /\ LET p == pass[c]
           b == log[p.cursor + p.i + 1]
       IN pass' = [pass EXCEPT ![c] =
            CASE Reconcile(p.vv, b.vv) = "stale" -> [p EXCEPT !.i = @ + 1]
              [] Reconcile(p.vv, b.vv) = "fastforward" ->
                    [p EXCEPT !.pc = "apply", !.next = <<b>>]
              [] Reconcile(p.vv, b.vv) = "forkLocal" ->
                    [p EXCEPT !.i = @ + 1, !.forks = @ \cup {b.image},
                              !.vv = MergeMax(@, b.vv)]
              [] OTHER ->
                    [p EXCEPT !.pc = "apply", !.next = <<b>>,
                              !.forks = @ \cup {img[Owner[c]]}]]
    /\ UNCHANGED <<log, img, anchor, idb, edits, passes, aborts, calm>>

\* Mutant: the next blob is skipped after an import.
ApplySkips(c) ==
    /\ At(c, "apply")
    /\ LET b == pass[c].next[1] IN
       /\ img' = [img EXCEPT ![Owner[c]] = b.image]
       /\ pass' = [pass EXCEPT ![c].pc = "pull", ![c].i = @ + 2, ![c].next = <<>>,
                               ![c].vv = MergeMax(@, b.vv)]
    /\ UNCHANGED <<log, anchor, idb, edits, passes, aborts, calm>>

\* session_sync_apply: the handles are closed and the files replaced.
Apply(c) ==
    /\ At(c, "apply")
    /\ LET b == pass[c].next[1] IN
       /\ img' = [img EXCEPT ![Owner[c]] = b.image]
       /\ pass' = [pass EXCEPT ![c].pc = "pull", ![c].i = @ + 1, ![c].next = <<>>,
                               ![c].vv = MergeMax(@, b.vv)]
    /\ UNCHANGED <<log, anchor, idb, edits, passes, aborts, calm>>

EndPull(c) ==
    /\ At(c, "pull") /\ pass[c].i = pass[c].count
    /\ pass' = [pass EXCEPT ![c].cursor = @ + pass[c].count,
                            ![c].pc = IF pass[c].push THEN "seal" ELSE "saveVv"]
    /\ UNCHANGED <<log, img, anchor, idb, edits, passes, aborts, calm>>

\* The device's component is incremented and the live image sealed.
Seal(c) ==
    /\ At(c, "seal")
    /\ LET vv == Increment(pass[c].vv, Owner[c]) IN
       pass' = [pass EXCEPT ![c].pc = "put", ![c].vv = vv,
                            ![c].next = <<[vv |-> vv, image |-> img[Owner[c]]]>>]
    /\ UNCHANGED <<log, img, anchor, idb, edits, passes, aborts, calm>>

\* PushBlob: the blob takes the next index of the log.
Put(c) ==
    /\ At(c, "put")
    /\ log' = log \o pass[c].next
    /\ pass' = [pass EXCEPT ![c].pc = "relist", ![c].next = <<>>]
    /\ UNCHANGED <<img, anchor, idb, edits, passes, aborts, calm>>

\* relay.list(syncId, 0): the cursor becomes the length of the whole log.
Relist(c) ==
    /\ At(c, "relist")
    /\ pass' = [pass EXCEPT ![c].pc = "saveVv", ![c].cursor = Len(log)]
    /\ UNCHANGED <<log, img, anchor, idb, edits, passes, aborts, calm>>

SaveVv(c) ==
    /\ At(c, "saveVv")
    /\ idb' = [idb EXCEPT ![Owner[c]].vv = pass[c].vv]
    /\ pass' = [pass EXCEPT ![c].pc = "saveCursor"]
    /\ UNCHANGED <<log, img, anchor, edits, passes, aborts, calm>>

SaveCursor(c) ==
    /\ At(c, "saveCursor")
    /\ idb' = [idb EXCEPT ![Owner[c]].cursor = pass[c].cursor]
    /\ pass' = [pass EXCEPT ![c].pc = "saveForks"]
    /\ UNCHANGED <<log, img, anchor, edits, passes, aborts, calm>>

\* History: a round is over when every device has had an undisturbed pass.
AfterPass(c) ==
    LET r == calm.round \cup {Owner[c]} IN
    IF ~pass[c].solo THEN calm
    ELSE IF r = Devices THEN [round |-> {}, rounds |-> IF calm.rounds < 2 THEN calm.rounds + 1 ELSE 2]
    ELSE [calm EXCEPT !.round = r]

SaveForks(c) ==
    /\ At(c, "saveForks")
    /\ idb' = [idb EXCEPT ![Owner[c]].forks = pass[c].forks]
    /\ calm' = AfterPass(c)
    /\ pass' = [pass EXCEPT ![c] = Idle]
    /\ UNCHANGED <<log, img, anchor, edits, passes, aborts>>

\* The pass ends early; nothing it kept in memory is saved.  An import that
\* is cut short leaves a new main file beside an old manifest.
Abort(c) ==
    /\ aborts < MaxAborts /\ passes <= CalmAfter /\ Active(c)
    /\ aborts' = aborts + 1
    /\ pass' = [pass EXCEPT ![c] = Idle]
    /\ calm' = NoCalm
    /\ \/ UNCHANGED img
       \/ At(c, "apply") /\ img' = [img EXCEPT ![Owner[c]].whole = FALSE,
                                               ![Owner[c]].edits = {}]
    /\ UNCHANGED <<log, anchor, idb, edits, passes>>

\* Every device starts from the same bundle, generation 2.
Init ==
    /\ log = <<>>
    /\ img = [d \in Devices |-> [edits |-> {}, gen |-> 2, whole |-> TRUE]]
    /\ anchor = [d \in Devices |-> 2]
    /\ idb = [d \in Devices |-> [vv |-> ZeroVector, cursor |-> 0, forks |-> {}]]
    /\ pass = [c \in Callers |-> Idle]
    /\ edits = 0 /\ passes = 0 /\ aborts = 0 /\ calm = NoCalm

Step(c) == Begin(c) \/ List(c) \/ Pull(c) \/ Apply(c) \/ EndPull(c) \/ Seal(c)
           \/ Put(c) \/ Relist(c) \/ SaveVv(c) \/ SaveCursor(c) \/ SaveForks(c)
           \/ Abort(c)

Next == (\E d \in Devices : Edit(d) \/ Query(d)) \/ (\E c \in Callers : Step(c))

Spec == Init /\ [][Next]_vars

-----------------------------------------------------------------------------
(* Properties.                                                             *)

Images == [edits : SUBSET (1 .. MaxEdits), gen : Nat, whole : BOOLEAN]
Blobs  == [vv : Vectors, image : Images]

\* The type of the relay's and the devices' state.
TypeOK ==
    /\ log \in Seq(Blobs)
    /\ img \in [Devices -> Images] /\ anchor \in [Devices -> Nat]
    /\ idb \in [Devices -> [vv : Vectors, cursor : Nat, forks : SUBSET Images]]
    /\ \A c \in Callers : /\ pass[c].vv \in Vectors /\ pass[c].forks \subseteq Images
                          /\ pass[c].i <= pass[c].count
                          /\ pass[c].next \in Seq(Blobs)
    /\ edits \in 0 .. MaxEdits /\ passes \in 0 .. MaxPasses /\ aborts \in 0 .. MaxAborts

\* Every edit kept as the loser of some fork.
Preserved == UNION {f.edits : f \in UNION ({idb[d].forks : d \in Devices}
                                           \cup {pass[c].forks : c \in Callers})}

\* The vector a device stands for: that of its pass, or the saved one.
Knows(d) == {pass[c].vv : c \in {o \in Callers : Owner[o] = d /\ Active(o)}}
            \cup (IF \E o \in Callers : Owner[o] = d /\ Active(o) THEN {} ELSE {idb[d].vv})

\* "the LWW losers, never silently dropped": what a device has taken note of
\* is in its live image or preserved as a fork somewhere...
NothingDropped ==
    \A k \in DOMAIN log : \A d \in Devices : \A v \in Knows(d) :
        img[d].whole /\ Seen(log[k].vv, v) =>
            log[k].image.edits \subseteq img[d].edits \cup Preserved

\* ...until a pass of sync() is abandoned, which may drop the forks it found.
PublishedSurvives == aborts = 0 => NothingDropped

\* "v1.0 pushes every sync so peers always converge": after two rounds of
\* passes that nothing disturbs, every device has the same image.
Converged ==
    calm.rounds = 2 => \A d, e \in Devices : img[d] = img[e]

\* An import that was cut short is done again before the device pushes: no
\* blob holds a main file and a manifest that do not belong together.
PushedWhole == \A k \in DOMAIN log : log[k].image.whole

\* "Equal is a no-op; incoming carries nothing new".
EqualIsNoOp ==
    \A j, k \in DOMAIN log : log[j].vv = log[k].vv => log[j].image = log[k].image

\* "seen everything up to and including our push".
CursorSeen ==
    \A d \in Devices : \A k \in 1 .. idb[d].cursor : Seen(log[k].vv, idb[d].vv)

\* "the anti-rollback anchor admits it at reopen": an applied image opens.
AppliedOpens == \A d \in Devices : img[d].whole => Opens(d)

\* An edit is in a live image, in a preserved fork or on its way to the relay.
NoEditLost ==
    1 .. edits \subseteq Preserved \cup UNION {img[d].edits : d \in Devices}
                         \cup UNION {log[k].image.edits : k \in DOMAIN log}
=============================================================================
