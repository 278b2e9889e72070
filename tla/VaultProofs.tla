---------------------------- MODULE VaultProofs ----------------------------
(***************************************************************************)
(* Theorems about Vault, for any number of databases, overlapping calls,   *)
(* transactions, rotations and crashes: type correctness and the room of   *)
(* the pool; the stored envelope is never below its floor while it parses, *)
(* and parses while a byte can count its methods; the stored key fits the  *)
(* files; and an attested floor survives.                                  *)
(***************************************************************************)
EXTENDS Vault, FiniteSetTheorems, SequenceTheorems, TLAPS

-----------------------------------------------------------------------------
(* The types. *)

LiveT   == {Partial} \cup [is : {"file"}, dek : Nat, ver : Nat]
ShadowT == {Missing} \cup LiveT
JrnlT   == {Missing} \cup [is : {"journal"}, dek : Nat, hot : BOOLEAN, pre : Nat]
IntentT == {Missing, Partial} \cup
           [is : {"intent"}, dek : Nat, dbs : {Dbs}, committed : [Dbs -> Nat],
            floor : [Dbs -> Nat]]
Anchors == [dek : Nat, committed : [Dbs -> Nat], floor : [Dbs -> Nat]]
Sessions == [on : BOOLEAN, pool : Nat, open : SUBSET Dbs, wrote : SUBSET Dbs,
             leaked : SUBSET Dbs]
Counters == [calls : Nat, writes : Nat, crashes : Nat, deks : Nat \ {0}, codes : Nat, room : Nat]
Tokens  == [dek : Nat, db : Dbs, gen : 0 .. 1, env : Nat]

StagePcs == {"stage", "stageFill", "intentFill"}
SwapPcs  == {"swap", "swapFill", "swapDrop"}
BusyPcs  == StagePcs \cup SwapPcs \cup {"discard", "apply", "ready", "commit"}
SdkPcs   == {"idle", "check", "showing", "sent", "install", "put", "ask", "floor",
             "raise", "token", "reopen"}

\* An envelope, up to its slots; no key is beyond the k minted so far.
EnvT(e, k) == e.gen \in Nat /\ e.mac.key \in 0 .. k

IdbOk == /\ idb = [env |-> idb.env, floor |-> idb.floor, epoch |-> idb.epoch]
         /\ EnvT(idb.env, n.deks)
         /\ idb.floor \in Nat /\ idb.epoch \in Tokens

FilesT(f) == /\ f = [x \in Names |-> f[x]]
             /\ \A x \in LiveNames : f[x] \in LiveT /\ f[Shadow(x)] \in ShadowT
             /\ \A db \in Dbs : f[Jrnl(db)] \in JrnlT
             /\ f[Intent] \in IntentT

Shaped(r) == r = [op |-> r.op, pc |-> r.pc, env |-> r.env, next |-> r.next, epoch |-> r.epoch,
                  dek |-> r.dek, todo |-> r.todo, db |-> r.db, floor |-> r.floor]

CallT(r, k) ==
    /\ Shaped(r)
    /\ r.pc \in BusyPcs \cup SdkPcs /\ EnvT(r.env, k) /\ EnvT(r.next, k)
    /\ r.epoch \in Tokens /\ r.dek \in 0 .. k /\ r.todo \in Seq(LiveNames)
    /\ r.db \in Dbs /\ r.floor \in Nat

CallsOk == call = [c \in Calls |-> call[c]] /\ \A c \in Calls : CallT(call[c], n.deks)

RestOk == /\ anchor \in Anchors /\ sess \in Sessions /\ n \in Counters
          /\ queue \in Seq(Calls) /\ answered \in Seq(Calls)
          /\ busy \in SUBSET Calls
          /\ acked \in [Dbs -> Nat \ {0}] /\ overtaken \in BOOLEAN

\* The worker runs the calls that are in its stages, one at a time.
BusyOk == /\ \A c \in Calls : c \in busy <=> call[c].pc \in BusyPcs
          /\ \A c, d \in busy : c = d

\* What the session and the running call may rely on in the pool.
SessOk == /\ sess.wrote \subseteq sess.open
          /\ sess.open # {} => sess.on
          /\ sess.on => \/ files[Intent] = Missing
                        \/ \E c \in busy : At(c, "intentFill")
          /\ \A db \in sess.open : files[Main(db)].is = "file" /\ files[Mani(db)].is = "file"

RunOk(c) ==
    LET r == call[c]
        f == Head(r.todo)
    IN  /\ r.pc \in {"stageFill", "swapFill", "swapDrop"} =>
                r.todo # <<>> /\ files[Shadow(f)] # Missing
        /\ r.pc = "stageFill" => files[f].is = "file"
        /\ r.pc \in StagePcs => sess.on /\ sess.open = {}
        /\ r.pc \in SwapPcs => files[Intent] \notin {Missing, Partial}
        /\ r.pc = "intentFill" => files[Intent] # Missing
        /\ r.pc \in SwapPcs \cup {"discard"} => ~sess.on
        /\ r.pc = "apply" => files[Intent] = Missing
        /\ r.pc \in {"ready", "commit"} => sess.on /\ r.db \in sess.open
        /\ r.pc = "commit" => files[Jrnl(r.db)] # Missing

TypeInv == /\ IdbOk /\ FilesT(files) /\ CallsOk /\ RestOk /\ BusyOk /\ SessOk
           /\ \A c \in busy : RunOk(c)

-----------------------------------------------------------------------------
(* The order of the calls that change the envelope: they ask, prompt, post,  *)
(* run and write in the order in which they read it.                         *)

\* How far a call that has read the envelope is from writing one.
Rank(r) == IF r.pc = "put" THEN 1
           ELSE IF r.pc \in StagePcs THEN 2
           ELSE IF r.pc = "sent" /\ r.op \notin {"sql", "lock"} THEN 3
           ELSE IF r.pc = "showing" THEN 4
           ELSE IF r.pc = "check" THEN 5 ELSE 0

\* Of the calls cl, those at pcs are the ones of the sequence s, each once.
Lists(cl, s, pcs) == /\ \A i \in 1 .. Len(s) : cl[s[i]].pc \in pcs
                     /\ \A i, j \in 1 .. Len(s) : s[i] = s[j] => i = j
                     /\ \A c \in Calls : cl[c].pc \in pcs => \E i \in 1 .. Len(s) : s[i] = c

\* In s, calls of the same rank read the envelope one after the other.
InOrder(cl, s) == \A i, j \in 1 .. Len(s) :
                    (i < j /\ Rank(cl[s[i]]) # 0 /\ Rank(cl[s[i]]) = Rank(cl[s[j]]))
                        => cl[s[i]].env.gen <= cl[s[j]].env.gen

\* The nearer a call is to writing, the earlier it read.
RanksOrder(cl) == \A c, d \in Calls : (Rank(cl[c]) # 0 /\ Rank(cl[c]) < Rank(cl[d]))
                        => cl[c].env.gen <= cl[d].env.gen

OneShows(cl) == \A c, d \in Calls : cl[c].pc = "showing" /\ cl[d].pc = "showing" => c = d

\* A call that will write finds the stored generation g where it read it, or
\* one further.
NearStored(r, g) == /\ Rank(r) # 0 => r.env.gen <= g /\ g <= r.env.gen + 1
                    /\ Rank(r) \in {1, 2} => r.next.gen = r.env.gen + 1
                    /\ r.pc \in {"ask", "floor", "raise"} => r.next.gen <= g

\* The stored floor is not above the stored envelope's counter.
FloorBelow == idb.floor <= idb.env.gen

OrderInv == /\ Lists(call, queue, {"check", "sent", "ask"}) /\ Lists(call, answered, {"put"})
            /\ InOrder(call, queue) /\ InOrder(call, answered)
            /\ RanksOrder(call) /\ OneShows(call)
            /\ \A c \in Calls : NearStored(call[c], idb.env.gen)
            /\ FloorBelow

-----------------------------------------------------------------------------
(* The stored key and the files. *)

StoredKey == idb.env.mac.key
Written(f) == f \notin {Missing, Partial}
Rolling == Written(files[Intent]) /\ files[Intent].dek = StoredKey

\* What a roll-forward will leave under a live name.
RollsTo(x) == IF files[Shadow(x)] # Missing THEN files[Shadow(x)] ELSE files[x]

Fits == IF Rolling
        THEN /\ files[Intent].dbs = Dbs
             /\ \A db \in Dbs : /\ RollsTo(Main(db)) = File(StoredKey, acked[db])
                                /\ RollsTo(Mani(db)) = File(StoredKey, acked[db])
                                /\ files[Jrnl(db)] = Missing
        ELSE \A db \in Dbs : Serves(files, StoredKey, db, acked[db])

FloorFits == \A db \in Dbs : /\ AnchorLoad(StoredKey).floor[db] <= acked[db]
                             /\ Rolling => files[Intent].floor[db] <= acked[db]

PoolFits == /\ sess.pool \in {NoDek, StoredKey} /\ sess.leaked = {}
            /\ Rolling /\ sess.pool # NoDek => \E c \in busy : call[c].pc \in SwapPcs
            /\ \A db \in sess.wrote : files[Jrnl(db)] # Missing /\ files[Jrnl(db)].hot =>
                    \E c \in busy : At(c, "commit") /\ call[c].db = db

NoJournals == \A db \in Dbs : files[Jrnl(db)] = Missing

\* The shadow of x is x sealed under dek.
Shadowed(x, dek) == files[Shadow(x)] = [files[x] EXCEPT !.dek = dek]

StageFits(c) ==
    LET r == call[c]
    IN  /\ r.op = "rotate" /\ r.dek \notin {NoDek, StoredKey, anchor.dek} /\ r.next.mac.key = r.dek
        /\ NoJournals
        /\ sess.pool = StoredKey \/ (r.pc = "stage" /\ r.todo = Work(Dbs))
        /\ \A x \in LiveNames : x \notin {r.todo[i] : i \in DOMAIN r.todo} => Shadowed(x, r.dek)
        /\ r.pc = "intentFill" => r.todo = <<>> /\ files[Intent] = Partial

\* A rotation that is about to store its envelope.
Committing(c) == call[c].op = "rotate" /\ At(c, "put")

CommitFits(c) ==
    LET k  == call[c].next.mac.key
        it == files[Intent]
    IN  /\ k \notin {NoDek, StoredKey, anchor.dek} /\ NoJournals
        /\ Written(it) /\ it.dek = k /\ it.dbs = Dbs
        /\ \A x \in LiveNames : Shadowed(x, k)
        /\ \A db \in Dbs : it.floor[db] = AnchorLoad(StoredKey).floor[db]
        /\ sess.pool = NoDek \/ \E o \in busy : At(o, "discard")

RunFits(c) ==
    LET r == call[c]
    IN  /\ r.pc \in StagePcs => StageFits(c)
        /\ r.pc \notin StagePcs => sess.pool = StoredKey
        /\ r.pc \in SwapPcs =>
            /\ Rolling
            /\ \A x \in LiveNames : x \notin {r.todo[i] : i \in DOMAIN r.todo} =>
                                        files[Shadow(x)] = Missing
            /\ r.pc = "swapDrop" => files[Head(r.todo)] = files[Shadow(Head(r.todo))]
        /\ r.pc = "discard" => ~Rolling
        /\ r.pc = "commit" => files[Jrnl(r.db)].hot

CallFits(c) ==
    /\ (call[c].op = "rotate" /\ call[c].pc \in {"check", "showing", "sent"}) =>
            \A db \in Dbs : files[Jrnl(db)] # Missing => db \in sess.wrote
    /\ At(c, "put") /\ call[c].op # "rotate" => call[c].next.mac.key = call[c].env.mac.key
    /\ Committing(c) => CommitFits(c) /\ \A d \in Calls : Committing(d) => d = c

Safe == /\ StoredKey # NoDek /\ anchor.dek <= n.deks
        /\ Fits /\ FloorFits /\ PoolFits
        /\ \A c \in busy : RunFits(c)
        /\ \A c \in Calls : CallFits(c)

SafeInv == overtaken \/ Safe

-----------------------------------------------------------------------------
(* The names of the pool. *)

LEMMA NameFacts ==
    /\ \A a, b \in Dbs : /\ Main(a) = Main(b) => a = b
                         /\ Mani(a) = Mani(b) => a = b
                         /\ Jrnl(a) = Jrnl(b) => a = b
                         /\ Main(a) # Mani(b)
    /\ \A a \in Dbs : /\ Main(a) \in LiveNames /\ Mani(a) \in LiveNames
                      /\ Jrnl(a) \in Names /\ Jrnl(a) \notin LiveNames /\ Jrnl(a) # Intent
    /\ \A x \in LiveNames : /\ x \in Names /\ Shadow(x) \in Names
                            /\ Shadow(x) \notin LiveNames /\ Shadow(x) # Intent
                            /\ \E a \in Dbs : x = Main(a) \/ x = Mani(a)
    /\ \A x \in LiveNames : \A a \in Dbs : Shadow(x) # Jrnl(a)
    /\ \A x, y \in LiveNames : Shadow(x) = Shadow(y) => x = y
    /\ Intent \in Names /\ Intent \notin LiveNames
    /\ \A f \in Names : \/ f \in LiveNames \/ f = Intent \/ \E x \in LiveNames : f = Shadow(x)
                        \/ \E a \in Dbs : f = Jrnl(a)
BY DEF Main, Mani, Jrnl, Shadow, Intent, LiveNames, Names

LEMMA StagingFacts ==
    /\ \A x \in LiveNames : Shadow(x)[1] = "shadow" /\ x[1] # "shadow"
    /\ \A a \in Dbs : Jrnl(a)[1] # "shadow"
    /\ \A a \in Dbs : Main(a)[1] = "main" /\ Mani(a)[1] # "main"
BY DEF Main, Mani, Jrnl, Shadow, LiveNames

-----------------------------------------------------------------------------
(* The envelope's operations. *)

LEMMA CreateFacts ==
    ASSUME NEW d, NEW s, NEW k
    PROVE  CreateEnvelope(d, s, k).gen = 1 /\ CreateEnvelope(d, s, k).mac.key = d
BY DEF CreateEnvelope, Finalize, ComputeMac

LEMMA AddFacts ==
    ASSUME NEW e, NEW d, NEW s, NEW k
    PROVE  AddSlot(e, d, s, k).gen = e.gen + 1 /\ AddSlot(e, d, s, k).mac.key = d
BY DEF AddSlot, Rebuild, Finalize, ComputeMac

LEMMA RemoveFacts ==
    ASSUME NEW e, NEW d, NEW id, ~IsRefused(RemoveSlot(e, d, id))
    PROVE  RemoveSlot(e, d, id).gen = e.gen + 1 /\ RemoveSlot(e, d, id).mac.key = d
<1> DEFINE at   == {i \in DOMAIN e.slots : e.slots[i].id # id}
           keep == SlotsAt(e, at)
<1>1. RemoveSlot(e, d, id) = IF ~Parses(e) \/ Len(e.slots) <= 1 \/ at = DOMAIN e.slots
                             THEN Refused ELSE Rebuild(e, keep, d)
  BY DEF RemoveSlot
<1> HIDE DEF at, keep
<1>2. IsRefused(Refused)
  BY DEF IsRefused, Refused
<1>3. Rebuild(e, keep, d).gen = e.gen + 1 /\ Rebuild(e, keep, d).mac.key = d
  BY DEF Rebuild, Finalize, ComputeMac
<1> QED BY <1>1, <1>2, <1>3

LEMMA RotateFacts ==
    ASSUME NEW e, NEW d, NEW p, NEW s
    PROVE  RotateEnvelope(e, d, p, s).gen = e.gen + 1 /\ RotateEnvelope(e, d, p, s).mac.key = d
BY DEF RotateEnvelope, Finalize, ComputeMac

\* The key that a slot yields is the one the envelope is MACed under.
LEMMA OpenFacts ==
    ASSUME NEW e, NEW s, ~IsRefused(OpenWith(e, s))
    PROVE  OpenWith(e, s).dek = e.mac.key
<1> DEFINE i == SelectInSeq(e.slots, LAMBDA x : x.secret = s)
<1>1. OpenWith(e, s) = IF ~Parses(e) \/ i = 0 \/ ~MacOk(e, e.slots[i].dek) THEN Refused
                       ELSE [dek |-> e.slots[i].dek]
  BY DEF OpenWith
<1> HIDE DEF i
<1>2. IsRefused(Refused)
  BY DEF IsRefused, Refused
<1>3. MacOk(e, e.slots[i].dek) /\ OpenWith(e, s) = [dek |-> e.slots[i].dek]
  BY <1>1, <1>2
<1> QED BY <1>3 DEF MacOk, ComputeMac

-----------------------------------------------------------------------------
(* The work of a rotation is every live file. *)

LEMMA DbsFacts ==
    /\ NumDbs \in Nat /\ NumDbs > 0 /\ 1 \in Dbs
    /\ Cardinality(Dbs) = NumDbs /\ IsFiniteSet(Dbs)
    /\ \A i \in Dbs : Nth(Dbs, i) = i
<1>1. NumDbs \in Nat /\ NumDbs > 0
  BY VaultAssumption
<1>2. Cardinality(Dbs) = NumDbs /\ IsFiniteSet(Dbs)
  BY <1>1, FS_Interval DEF Dbs
<1>3. ASSUME NEW db \in Dbs PROVE Cardinality({e \in Dbs : e <= db}) = db
  <2>1. {e \in Dbs : e <= db} = 1 .. db
    BY <1>1 DEF Dbs
  <2>2. db \in Nat /\ db >= 1
    BY <1>1 DEF Dbs
  <2>3. Cardinality(1 .. db) = db
    BY <2>2, FS_Interval
  <2> QED BY <2>1, <2>3
<1>4. ASSUME NEW i \in Dbs PROVE Nth(Dbs, i) = i
  <2> DEFINE P(db) == Cardinality({e \in Dbs : e <= db}) = i
  <2>1. P(i) /\ \A db \in Dbs : P(db) => db = i
    BY <1>3
  <2>2. Nth(Dbs, i) = CHOOSE db \in Dbs : P(db)
    BY DEF Nth
  <2> HIDE DEF P
  <2> QED BY <2>1, <2>2
<1> QED BY <1>1, <1>2, <1>4 DEF Dbs

LEMMA WorkFacts ==
    /\ Work(Dbs) \in Seq(LiveNames)
    /\ \A x \in LiveNames : x \in {Work(Dbs)[i] : i \in DOMAIN Work(Dbs)}
<1> DEFINE W(i) == LET db == Nth(Dbs, (i + 1) \div 2) IN IF i % 2 = 1 THEN Main(db) ELSE Mani(db)
           m == 2 * NumDbs
<1>1. Work(Dbs) = [i \in 1 .. m |-> W(i)]
  BY DbsFacts DEF Work
<1>2. m \in Nat /\ NumDbs \in Nat
  BY DbsFacts
<1>3. ASSUME NEW i \in 1 .. m PROVE W(i) \in LiveNames
  <2>1. (i + 1) \div 2 \in Dbs
    BY <1>2 DEF Dbs
  <2> QED BY <2>1, DbsFacts, NameFacts
<1>4. ASSUME NEW a \in Dbs PROVE \E i, j \in 1 .. m : W(i) = Main(a) /\ W(j) = Mani(a)
  <2>1. 2 * a - 1 \in 1 .. m /\ 2 * a \in 1 .. m
    BY <1>2 DEF Dbs
  <2>2. ((2 * a - 1) + 1) \div 2 = a /\ (2 * a + 1) \div 2 = a
    BY <1>2 DEF Dbs
  <2>3. (2 * a - 1) % 2 = 1 /\ (2 * a) % 2 = 0
    BY <1>2 DEF Dbs
  <2>4. Nth(Dbs, a) = a
    BY DbsFacts
  <2>5. W(2 * a - 1) = Main(a)
    BY <2>2, <2>3, <2>4
  <2>6. W(2 * a) = Mani(a)
    BY <2>2, <2>3, <2>4
  <2> QED BY <2>1, <2>5, <2>6
<1> HIDE DEF W, m
<1>5. Work(Dbs) \in Seq(LiveNames) /\ DOMAIN Work(Dbs) = 1 .. m
  BY <1>1, <1>2, <1>3
<1>6. ASSUME NEW x \in LiveNames PROVE x \in {Work(Dbs)[i] : i \in DOMAIN Work(Dbs)}
  <2>1. PICK a \in Dbs : x = Main(a) \/ x = Mani(a)
    BY NameFacts
  <2>2. PICK i \in 1 .. m : W(i) = x
    BY <1>4, <2>1
  <2> QED BY <1>1, <1>5, <2>2
<1> QED BY <1>5, <1>6

LEMMA MaxFacts ==
    ASSUME NEW a \in Nat, NEW b \in Nat
    PROVE  Max({a, b}) = IF a >= b THEN a ELSE b
<1> DEFINE m == IF a >= b THEN a ELSE b
<1>1. m \in {a, b} /\ \A y \in {a, b} : m >= y
  OBVIOUS
<1>2. \A x \in {a, b} : (\A y \in {a, b} : x >= y) => x = m
  OBVIOUS
<1> HIDE DEF m
<1>3. Max({a, b}) = CHOOSE x \in {a, b} : \A y \in {a, b} : x >= y
  BY DEF Max
<1>4. Max({a, b}) = m
  BY <1>1, <1>2, <1>3
<1> QED BY <1>4 DEF m

-----------------------------------------------------------------------------
(* Writing a file of the pool. *)

LEMMA WriteLive ==
    ASSUME NEW f, FilesT(f), NEW x \in LiveNames, NEW v \in LiveT
    PROVE  FilesT([f EXCEPT ![x] = v])
BY NameFacts DEF FilesT

LEMMA WriteShadow ==
    ASSUME NEW f, FilesT(f), NEW x \in LiveNames, NEW v \in ShadowT
    PROVE  FilesT([f EXCEPT ![Shadow(x)] = v])
BY NameFacts DEF FilesT

LEMMA WriteJrnl ==
    ASSUME NEW f, FilesT(f), NEW db \in Dbs, NEW v \in JrnlT
    PROVE  FilesT([f EXCEPT ![Jrnl(db)] = v])
BY NameFacts DEF FilesT

LEMMA WriteIntent ==
    ASSUME NEW f, FilesT(f), NEW v \in IntentT
    PROVE  FilesT([f EXCEPT ![Intent] = v])
BY NameFacts DEF FilesT

\* A file is not missing, nor partial, by its type.
LEMMA FileKinds ==
    /\ Missing # Partial /\ Missing \notin LiveT /\ Partial.is # "file"
    /\ \A v \in LiveT : /\ v.is = "file" <=> v # Partial
                        /\ v # Partial => v.dek \in Nat /\ v.ver \in Nat /\ v = File(v.dek, v.ver)
    /\ \A v \in ShadowT : v # Missing => v \in LiveT
    /\ \A d, v \in Nat : File(d, v) \in LiveT /\ File(d, v).is = "file"
                         /\ File(d, v).dek = d /\ File(d, v).ver = v /\ File(d, v) # Missing
    /\ \A v \in JrnlT : v # Missing => /\ v.dek \in Nat /\ v.hot \in BOOLEAN /\ v.pre \in Nat
                                       /\ v = Journal(v.dek, v.hot, v.pre)
    /\ \A d, p \in Nat : \A h \in BOOLEAN :
         /\ Journal(d, h, p) \in JrnlT /\ Journal(d, h, p) # Missing
         /\ Journal(d, h, p).dek = d /\ Journal(d, h, p).pre = p /\ Journal(d, h, p).hot = h
    /\ \A v \in IntentT : v \notin {Missing, Partial} =>
         v.dek \in Nat /\ v.dbs = Dbs /\ v.committed \in [Dbs -> Nat] /\ v.floor \in [Dbs -> Nat]
    /\ Missing \in ShadowT /\ Partial \in ShadowT /\ Partial \in LiveT
    /\ Missing \in JrnlT /\ Missing \in IntentT /\ Partial \in IntentT
<1>1. Missing # Partial /\ Missing \notin LiveT /\ Partial.is # "file"
  BY DEF Missing, Partial, LiveT
<1>2. ASSUME NEW v \in LiveT
      PROVE /\ v.is = "file" <=> v # Partial
            /\ v # Partial => v.dek \in Nat /\ v.ver \in Nat /\ v = File(v.dek, v.ver)
  BY DEF Partial, LiveT, File
<1>3. \A v \in ShadowT : v # Missing => v \in LiveT
  BY DEF ShadowT
<1>4. ASSUME NEW d \in Nat, NEW v \in Nat
      PROVE  File(d, v) \in LiveT /\ File(d, v).is = "file"
             /\ File(d, v).dek = d /\ File(d, v).ver = v /\ File(d, v) # Missing
  BY DEF LiveT, File, Missing
<1>5. ASSUME NEW v \in JrnlT, v # Missing
      PROVE  /\ v.dek \in Nat /\ v.hot \in BOOLEAN /\ v.pre \in Nat
             /\ v = Journal(v.dek, v.hot, v.pre)
  BY <1>5 DEF JrnlT, Journal
<1>6. ASSUME NEW d \in Nat, NEW p \in Nat, NEW h \in BOOLEAN
      PROVE  /\ Journal(d, h, p) \in JrnlT /\ Journal(d, h, p) # Missing
             /\ Journal(d, h, p).dek = d /\ Journal(d, h, p).pre = p /\ Journal(d, h, p).hot = h
  BY DEF JrnlT, Journal, Missing
<1>7. ASSUME NEW v \in IntentT, v \notin {Missing, Partial}
      PROVE  v.dek \in Nat /\ v.dbs = Dbs /\ v.committed \in [Dbs -> Nat] /\ v.floor \in [Dbs -> Nat]
  BY <1>7 DEF IntentT
<1>8. /\ Missing \in ShadowT /\ Partial \in ShadowT /\ Partial \in LiveT
      /\ Missing \in JrnlT /\ Missing \in IntentT /\ Partial \in IntentT
  BY DEF ShadowT, LiveT, JrnlT, IntentT
<1> QED BY <1>1, <1>2, <1>3, <1>4, <1>5, <1>6, <1>7, <1>8

LEMMA ClosedT ==
    ASSUME FilesT(files), sess.wrote \subseteq Dbs
    PROVE  /\ FilesT(Closed)
           /\ \A x \in LiveNames : Closed[x] = files[x] /\ Closed[Shadow(x)] = files[Shadow(x)]
           /\ Closed[Intent] = files[Intent]
           /\ \A db \in Dbs : Closed[Jrnl(db)] = IF db \in sess.wrote THEN Missing ELSE files[Jrnl(db)]
<1>1. \A x \in LiveNames : Closed[x] = files[x] /\ Closed[Shadow(x)] = files[Shadow(x)]
  BY NameFacts DEF Closed
<1>2. Closed[Intent] = files[Intent]
  BY NameFacts DEF Closed
<1>3. \A db \in Dbs : Closed[Jrnl(db)] = IF db \in sess.wrote THEN Missing ELSE files[Jrnl(db)]
  BY NameFacts DEF Closed
<1>4. Closed = [x \in Names |-> Closed[x]]
  BY DEF Closed
<1> HIDE DEF Closed
<1>5. \A x \in LiveNames : Closed[x] \in LiveT /\ Closed[Shadow(x)] \in ShadowT
  BY <1>1 DEF FilesT
<1>6. Closed[Intent] \in IntentT
  BY <1>2 DEF FilesT
<1>7. \A db \in Dbs : Closed[Jrnl(db)] \in JrnlT
  <2>1. Missing \in JrnlT
    BY DEF JrnlT
  <2>2. \A db \in Dbs : files[Jrnl(db)] \in JrnlT
    BY DEF FilesT
  <2> QED BY <1>3, <2>1, <2>2
<1> QED BY <1>1, <1>2, <1>3, <1>4, <1>5, <1>6, <1>7 DEF FilesT

-----------------------------------------------------------------------------
(* The steps of a call, by what they leave alone. *)

\* Only call c changes, and stays well typed.
Touches(c) == /\ call' = [call EXCEPT ![c] = call'[c]]
              /\ CallT(call'[c], n'.deks)

LEMMA CallWider ==
    ASSUME NEW k \in Nat, NEW m \in Nat, m >= k, NEW r, CallT(r, k)
    PROVE  CallT(r, m)
<1>1. \A e : EnvT(e, k) => EnvT(e, m)
  BY DEF EnvT
<1>2. r.dek \in 0 .. m
  BY DEF CallT
<1> QED BY <1>1, <1>2 DEF CallT

\* The fields of a call after one of them is set.
LEMMA SetOp ==
    ASSUME NEW r, Shaped(r), NEW v, NEW q, q = [r EXCEPT !.op = v]
    PROVE  /\ Shaped(q) /\ q.op = v /\ q.pc = r.pc /\ q.env = r.env
           /\ q.next = r.next /\ q.epoch = r.epoch /\ q.dek = r.dek
           /\ q.todo = r.todo /\ q.db = r.db /\ q.floor = r.floor
BY DEF Shaped

LEMMA SetPc ==
    ASSUME NEW r, Shaped(r), NEW v, NEW q, q = [r EXCEPT !.pc = v]
    PROVE  /\ Shaped(q) /\ q.pc = v /\ q.op = r.op /\ q.env = r.env
           /\ q.next = r.next /\ q.epoch = r.epoch /\ q.dek = r.dek
           /\ q.todo = r.todo /\ q.db = r.db /\ q.floor = r.floor
BY DEF Shaped

LEMMA SetEnv ==
    ASSUME NEW r, Shaped(r), NEW v, NEW q, q = [r EXCEPT !.env = v]
    PROVE  /\ Shaped(q) /\ q.env = v /\ q.op = r.op /\ q.pc = r.pc
           /\ q.next = r.next /\ q.epoch = r.epoch /\ q.dek = r.dek
           /\ q.todo = r.todo /\ q.db = r.db /\ q.floor = r.floor
BY DEF Shaped

LEMMA SetNext ==
    ASSUME NEW r, Shaped(r), NEW v, NEW q, q = [r EXCEPT !.next = v]
    PROVE  /\ Shaped(q) /\ q.next = v /\ q.op = r.op /\ q.pc = r.pc
           /\ q.env = r.env /\ q.epoch = r.epoch /\ q.dek = r.dek
           /\ q.todo = r.todo /\ q.db = r.db /\ q.floor = r.floor
BY DEF Shaped

LEMMA SetEpoch ==
    ASSUME NEW r, Shaped(r), NEW v, NEW q, q = [r EXCEPT !.epoch = v]
    PROVE  /\ Shaped(q) /\ q.epoch = v /\ q.op = r.op /\ q.pc = r.pc
           /\ q.env = r.env /\ q.next = r.next /\ q.dek = r.dek
           /\ q.todo = r.todo /\ q.db = r.db /\ q.floor = r.floor
BY DEF Shaped

LEMMA SetDek ==
    ASSUME NEW r, Shaped(r), NEW v, NEW q, q = [r EXCEPT !.dek = v]
    PROVE  /\ Shaped(q) /\ q.dek = v /\ q.op = r.op /\ q.pc = r.pc
           /\ q.env = r.env /\ q.next = r.next /\ q.epoch = r.epoch
           /\ q.todo = r.todo /\ q.db = r.db /\ q.floor = r.floor
BY DEF Shaped

LEMMA SetTodo ==
    ASSUME NEW r, Shaped(r), NEW v, NEW q, q = [r EXCEPT !.todo = v]
    PROVE  /\ Shaped(q) /\ q.todo = v /\ q.op = r.op /\ q.pc = r.pc
           /\ q.env = r.env /\ q.next = r.next /\ q.epoch = r.epoch
           /\ q.dek = r.dek /\ q.db = r.db /\ q.floor = r.floor
BY DEF Shaped

LEMMA SetDb ==
    ASSUME NEW r, Shaped(r), NEW v, NEW q, q = [r EXCEPT !.db = v]
    PROVE  /\ Shaped(q) /\ q.db = v /\ q.op = r.op /\ q.pc = r.pc
           /\ q.env = r.env /\ q.next = r.next /\ q.epoch = r.epoch
           /\ q.dek = r.dek /\ q.todo = r.todo /\ q.floor = r.floor
BY DEF Shaped

LEMMA SetFloor ==
    ASSUME NEW r, Shaped(r), NEW v, NEW q, q = [r EXCEPT !.floor = v]
    PROVE  /\ Shaped(q) /\ q.floor = v /\ q.op = r.op /\ q.pc = r.pc
           /\ q.env = r.env /\ q.next = r.next /\ q.epoch = r.epoch
           /\ q.dek = r.dek /\ q.todo = r.todo /\ q.db = r.db
BY DEF Shaped

LEMMA PcFacts ==
    /\ {"stage", "stageFill", "intentFill", "swap", "swapFill", "swapDrop"} \subseteq BusyPcs
    /\ {"discard", "apply", "ready", "commit"} \subseteq BusyPcs
    /\ \A p \in SdkPcs : p \notin BusyPcs
BY DEF BusyPcs, SdkPcs, StagePcs, SwapPcs

LEMMA CallsKept ==
    ASSUME CallsOk, n \in Counters, n' \in Counters, n'.deks >= n.deks, NEW c \in Calls, Touches(c)
    PROVE  CallsOk' /\ \A d \in Calls : d # c => call'[d] = call[d]
<1>1. \A d \in Calls : d # c => call'[d] = call[d]
  BY DEF Touches, CallsOk
<1>2. call' = [d \in Calls |-> call'[d]]
  BY DEF Touches, CallsOk
<1>3. ASSUME NEW d \in Calls, d # c PROVE CallT(call'[d], n'.deks)
  <2>1. CallT(call[d], n.deks) /\ n.deks \in Nat /\ n'.deks \in Nat
    BY DEF CallsOk, Counters
  <2> QED BY <1>1, <1>3, <2>1, CallWider
<1> QED BY <1>1, <1>2, <1>3 DEF CallsOk, Touches

LEMMA RestT == \A k \in Nat : CallT(Rest, k)
BY DbsFacts, CreateFacts DEF CallT, Shaped, Rest, EnvT, NoEnv, NoToken, NoDek, Tokens, SdkPcs, Prf

\* A call returns.
LEMMA ReturnTouches ==
    ASSUME CallsOk, NEW c \in Calls, n' \in Counters, call' = Return(c)
    PROVE  Touches(c) /\ call'[c] = Rest
BY RestT DEF Return, Touches, CallsOk, Counters

LEMMA GoTouches ==
    ASSUME CallsOk, NEW c \in Calls, n \in Counters, n' \in Counters, n'.deks >= n.deks,
           NEW p \in BusyPcs \cup SdkPcs, call' = Go(c, p)
    PROVE  /\ Touches(c) /\ call'[c].pc = p
           /\ call'[c].op = call[c].op /\ call'[c].env = call[c].env /\ call'[c].next = call[c].next
           /\ call'[c].epoch = call[c].epoch /\ call'[c].dek = call[c].dek
           /\ call'[c].todo = call[c].todo /\ call'[c].db = call[c].db
           /\ call'[c].floor = call[c].floor
<1>1. CallT(call[c], n.deks) /\ n.deks \in Nat /\ n'.deks \in Nat
  BY DEF CallsOk, Counters
<1>2. CallT(call[c], n'.deks)
  BY <1>1, CallWider
<1>3. call'[c] = [call[c] EXCEPT !.pc = p] /\ call' = [call EXCEPT ![c] = call'[c]]
  BY DEF Go, CallsOk
<1> HIDE DEF BusyPcs, SdkPcs
<1>4. Shaped(call[c])
  BY <1>2 DEF CallT
<1>5. /\ Shaped(call'[c]) /\ call'[c].pc = p
      /\ call'[c].op = call[c].op /\ call'[c].env = call[c].env /\ call'[c].next = call[c].next
      /\ call'[c].epoch = call[c].epoch /\ call'[c].dek = call[c].dek
      /\ call'[c].todo = call[c].todo /\ call'[c].db = call[c].db
      /\ call'[c].floor = call[c].floor
  BY <1>3, <1>4, SetPc
<1>6. CallT(call'[c], n'.deks)
  BY <1>2, <1>5 DEF CallT
<1> QED BY <1>3, <1>5, <1>6 DEF Touches

LEMMA IdbKept ==
    ASSUME IdbOk, n \in Counters, n' \in Counters, n'.deks >= n.deks, idb' = idb
    PROVE  IdbOk'
<1>1. n.deks \in Nat /\ n'.deks \in Nat
  BY DEF Counters
<1>2. EnvT(idb.env, n'.deks)
  BY <1>1 DEF IdbOk, EnvT
<1> QED BY <1>2 DEF IdbOk

\* A step of the SDK, or an answer of the worker without work in the pool.
LEMMA QuietKeeps ==
    ASSUME TypeInv, NEW c \in Calls, n' \in Counters, n'.deks >= n.deks, Touches(c),
           call[c].pc \in SdkPcs, call'[c].pc \in SdkPcs, UNCHANGED <<files, sess, busy>>
    PROVE  CallsOk' /\ BusyOk' /\ SessOk' /\ FilesT(files)' /\ \A d \in busy' : RunOk(d)'
<1> USE DEF TypeInv
<1>1. n \in Counters /\ CallsOk
  BY DEF RestOk
<1>2. CallsOk' /\ \A d \in Calls : d # c => call'[d] = call[d]
  BY <1>1, CallsKept
<1>3. c \notin busy /\ call'[c].pc \notin BusyPcs /\ busy \subseteq Calls
  BY DEF BusyOk, RestOk, SdkPcs, BusyPcs, StagePcs, SwapPcs
<1>4. BusyOk'
  BY <1>2, <1>3 DEF BusyOk
<1>5. \A d \in busy : call'[d] = call[d]
  BY <1>2, <1>3
<1>6. SessOk'
  BY <1>5 DEF SessOk, At
<1>7. FilesT(files)'
  OBVIOUS
<1>8. ASSUME NEW d \in busy' PROVE RunOk(d)'
  <2>1. d \in busy /\ call'[d] = call[d] /\ RunOk(d)
    BY <1>5
  <2> QED BY <2>1 DEF RunOk
<1> QED BY <1>2, <1>4, <1>6, <1>7, <1>8

\* The counters of a step that mints no key.
LEMMA CountersT ==
    ASSUME NEW m \in Counters
    PROVE  /\ m.deks \in Nat /\ m.deks > 0
           /\ [m EXCEPT !.calls = @ + 1] \in Counters /\ [m EXCEPT !.calls = @ + 1].deks = m.deks
           /\ [m EXCEPT !.codes = @ + 1] \in Counters /\ [m EXCEPT !.codes = @ + 1].deks = m.deks
           /\ [m EXCEPT !.writes = @ + 1] \in Counters /\ [m EXCEPT !.writes = @ + 1].deks = m.deks
           /\ [m EXCEPT !.crashes = @ + 1] \in Counters /\ [m EXCEPT !.crashes = @ + 1].deks = m.deks
BY DEF Counters

LEMMA RestFields ==
    /\ Shaped(Rest) /\ Rest.op = "none" /\ Rest.pc = "idle" /\ Rest.env = NoEnv
    /\ Rest.next = NoEnv /\ Rest.epoch = NoToken /\ Rest.dek = NoDek /\ Rest.todo = <<>>
    /\ Rest.db = 1 /\ Rest.floor = 0
BY DEF Rest, Shaped

StartOf(r, op, p, e, t) == [r EXCEPT !.op = op, !.pc = p, !.env = e, !.epoch = t]
PostOf(r, op, p, db) == [r EXCEPT !.op = op, !.pc = p, !.db = db]

LEMMA StartRec ==
    ASSUME NEW r0, Shaped(r0), NEW op, NEW p, NEW e, NEW t, NEW r, r = StartOf(r0, op, p, e, t)
    PROVE  /\ Shaped(r) /\ r.op = op /\ r.pc = p /\ r.env = e /\ r.epoch = t
           /\ r.next = r0.next /\ r.dek = r0.dek /\ r.todo = r0.todo /\ r.db = r0.db
           /\ r.floor = r0.floor
<1>1. PICK r1 : r1 = [r0 EXCEPT !.op = op]
  OBVIOUS
<1>2. PICK r2 : r2 = [r1 EXCEPT !.pc = p]
  OBVIOUS
<1>3. PICK r3 : r3 = [r2 EXCEPT !.env = e]
  OBVIOUS
<1>4. PICK r4 : r4 = [r3 EXCEPT !.epoch = t]
  OBVIOUS
<1>5. r = r4
  BY <1>1, <1>2, <1>3, <1>4 DEF StartOf
<1>6. /\ Shaped(r1) /\ r1.op = op /\ r1.next = r0.next /\ r1.dek = r0.dek
      /\ r1.todo = r0.todo /\ r1.db = r0.db /\ r1.floor = r0.floor
  BY <1>1, SetOp
<1>7. /\ Shaped(r2) /\ r2.op = op /\ r2.pc = p /\ r2.next = r1.next /\ r2.dek = r1.dek
      /\ r2.todo = r1.todo /\ r2.db = r1.db /\ r2.floor = r1.floor
  BY <1>2, <1>6, SetPc
<1>8. /\ Shaped(r3) /\ r3.op = r2.op /\ r3.pc = r2.pc /\ r3.env = e /\ r3.next = r2.next
      /\ r3.dek = r2.dek /\ r3.todo = r2.todo /\ r3.db = r2.db /\ r3.floor = r2.floor
  BY <1>3, <1>7, SetEnv
<1>9. /\ Shaped(r4) /\ r4.op = r3.op /\ r4.pc = r3.pc /\ r4.env = r3.env /\ r4.epoch = t
      /\ r4.next = r3.next /\ r4.dek = r3.dek /\ r4.todo = r3.todo /\ r4.db = r3.db
      /\ r4.floor = r3.floor
  BY <1>4, <1>8, SetEpoch
<1> QED BY <1>5, <1>6, <1>7, <1>8, <1>9

LEMMA PostRec ==
    ASSUME NEW r0, Shaped(r0), NEW op, NEW p, NEW db, NEW r, r = PostOf(r0, op, p, db)
    PROVE  /\ Shaped(r) /\ r.op = op /\ r.pc = p /\ r.db = db /\ r.env = r0.env
           /\ r.epoch = r0.epoch /\ r.next = r0.next /\ r.dek = r0.dek /\ r.todo = r0.todo
           /\ r.floor = r0.floor
<1>1. PICK r1 : r1 = [r0 EXCEPT !.op = op]
  OBVIOUS
<1>2. PICK r2 : r2 = [r1 EXCEPT !.pc = p]
  OBVIOUS
<1>3. PICK r3 : r3 = [r2 EXCEPT !.db = db]
  OBVIOUS
<1>4. r = r3
  BY <1>1, <1>2, <1>3 DEF PostOf
<1>5. /\ Shaped(r1) /\ r1.op = op /\ r1.next = r0.next /\ r1.dek = r0.dek
      /\ r1.todo = r0.todo /\ r1.env = r0.env /\ r1.epoch = r0.epoch /\ r1.floor = r0.floor
  BY <1>1, SetOp
<1>6. /\ Shaped(r2) /\ r2.op = op /\ r2.pc = p /\ r2.next = r1.next /\ r2.dek = r1.dek
      /\ r2.todo = r1.todo /\ r2.env = r1.env /\ r2.epoch = r1.epoch /\ r2.floor = r1.floor
  BY <1>2, <1>5, SetPc
<1>7. /\ Shaped(r3) /\ r3.op = r2.op /\ r3.pc = r2.pc /\ r3.db = db /\ r3.next = r2.next
      /\ r3.dek = r2.dek /\ r3.todo = r2.todo /\ r3.env = r2.env /\ r3.epoch = r2.epoch
      /\ r3.floor = r2.floor
  BY <1>3, <1>6, SetDb
<1> QED BY <1>4, <1>5, <1>6, <1>7

\* A call's first record is well typed.
LEMMA NewCallT ==
    ASSUME NEW k \in Nat, NEW r, Shaped(r), r.pc \in SdkPcs, EnvT(r.env, k), r.epoch \in Tokens,
           r.next = NoEnv, r.dek = NoDek, r.todo = <<>>, r.db \in Dbs, r.floor = 0
    PROVE  CallT(r, k)
<1>1. EnvT(NoEnv, k)
  BY CreateFacts DEF EnvT, NoEnv, NoDek
<1>2. NoDek \in 0 .. k
  BY DEF NoDek
<1> QED BY <1>1, <1>2 DEF CallT

LEMMA StartsT ==
    ASSUME TypeInv, NEW c \in Calls, NEW op, Starts(c, op)
    PROVE  TypeInv'
<1>1. /\ n \in Counters /\ n' \in Counters /\ n'.deks = n.deks /\ n.deks \in Nat
      /\ CallsOk
  BY CountersT DEF TypeInv, RestOk, Starts
<1>0. PICK r0 : r0 = Rest
  OBVIOUS
<1>2. PICK r : r = StartOf(r0, op, "check", idb.env, idb.epoch)
  OBVIOUS
<1>3. /\ Shaped(r) /\ r.pc = "check" /\ r.env = idb.env /\ r.epoch = idb.epoch
      /\ r.next = r0.next /\ r.dek = r0.dek /\ r.todo = r0.todo /\ r.db = r0.db
      /\ r.floor = r0.floor
  <2>1. Shaped(r0)
    BY <1>0, RestFields
  <2> QED BY <1>2, <2>1, StartRec
<1>10. call' = [call EXCEPT ![c] = r] /\ call[c].pc \in SdkPcs
  BY <1>0, <1>2 DEF Starts, At, SdkPcs, StartOf
<1>4. CallT(r, n.deks) /\ r.pc \in SdkPcs
  <2>1. EnvT(r.env, n.deks) /\ r.epoch \in Tokens /\ r.pc \in SdkPcs /\ r.db \in Dbs
    BY <1>0, <1>3, DbsFacts, RestFields DEF TypeInv, IdbOk, SdkPcs
  <2> QED BY <1>0, <1>1, <1>3, <2>1, NewCallT, RestFields
<1>5. Touches(c) /\ call'[c] = r
  BY <1>1, <1>10, <1>4 DEF Touches, CallsOk
<1>6. UNCHANGED <<idb, files, anchor, sess, busy, answered, acked, overtaken>> /\ queue' = Append(queue, c)
  BY DEF Starts
<1>7. CallsOk' /\ BusyOk' /\ SessOk' /\ FilesT(files)' /\ \A d \in busy' : RunOk(d)'
  <2>1. /\ n' \in Counters /\ n'.deks >= n.deks /\ Touches(c)
        /\ call[c].pc \in SdkPcs /\ call'[c].pc \in SdkPcs /\ UNCHANGED <<files, sess, busy>>
    BY <1>1, <1>10, <1>4, <1>5, <1>6
  <2> QED BY <2>1, QuietKeeps
<1>8. RestOk'
  BY <1>1, <1>6 DEF TypeInv, RestOk
<1>9. IdbOk'
  BY <1>1, <1>6, IdbKept DEF TypeInv
<1> QED BY <1>7, <1>8, <1>9 DEF TypeInv

LEMMA PostsT ==
    ASSUME TypeInv, NEW c \in Calls, NEW op, Posts(c, op), NEW db \in Dbs,
           call' = [call EXCEPT ![c] = PostOf(Rest, op, "sent", db)]
    PROVE  TypeInv'
<1>1. /\ n \in Counters /\ n' \in Counters /\ n'.deks = n.deks /\ n.deks \in Nat
      /\ CallsOk
  BY CountersT DEF TypeInv, RestOk, Posts
<1>0. PICK r0 : r0 = Rest
  OBVIOUS
<1>2. PICK r : r = PostOf(r0, op, "sent", db)
  OBVIOUS
<1>3. /\ Shaped(r) /\ r.pc = "sent" /\ r.env = r0.env /\ r.epoch = r0.epoch
      /\ r.next = r0.next /\ r.dek = r0.dek /\ r.todo = r0.todo /\ r.db = db
      /\ r.floor = r0.floor
  <2>1. Shaped(r0)
    BY <1>0, RestFields
  <2> QED BY <1>2, <2>1, PostRec
<1>10. call' = [call EXCEPT ![c] = r] /\ call[c].pc \in SdkPcs
  BY <1>0, <1>2 DEF Posts, At, SdkPcs
<1>4. CallT(r, n.deks) /\ r.pc \in SdkPcs
  <2>1. EnvT(Rest.env, n.deks) /\ Rest.epoch \in Tokens
    BY <1>1, RestT DEF CallT
  <2>2. r.pc \in SdkPcs
    BY <1>3 DEF SdkPcs
  <2> QED BY <1>0, <1>1, <1>3, <2>1, <2>2, NewCallT, RestFields
<1>5. Touches(c) /\ call'[c] = r
  BY <1>1, <1>10, <1>4 DEF Touches, CallsOk
<1>6. UNCHANGED <<idb, files, anchor, sess, busy, answered, acked, overtaken>> /\ queue' = Append(queue, c)
  BY DEF Posts
<1>7. CallsOk' /\ BusyOk' /\ SessOk' /\ FilesT(files)' /\ \A d \in busy' : RunOk(d)'
  <2>1. /\ n' \in Counters /\ n'.deks >= n.deks /\ Touches(c)
        /\ call[c].pc \in SdkPcs /\ call'[c].pc \in SdkPcs /\ UNCHANGED <<files, sess, busy>>
    BY <1>1, <1>10, <1>4, <1>5, <1>6
  <2> QED BY <2>1, QuietKeeps
<1>8. RestOk'
  BY <1>1, <1>6 DEF TypeInv, RestOk
<1>9. IdbOk'
  BY <1>1, <1>6, IdbKept DEF TypeInv
<1> QED BY <1>7, <1>8, <1>9 DEF TypeInv

LEMMA ConfirmT ==
    ASSUME TypeInv, NEW c \in Calls, Confirm(c)
    PROVE  TypeInv'
<1>1. n \in Counters /\ n' = n /\ n.deks \in Nat /\ CallsOk /\ queue \in Seq(Calls)
  BY CountersT DEF TypeInv, RestOk, Confirm
<1>2. UNCHANGED <<idb, files, anchor, sess, busy, answered, acked, overtaken, n>> /\ queue' = Append(queue, c)
  BY DEF Confirm
<1>3. call' = Go(c, "sent") /\ call[c].pc \in SdkPcs /\ "sent" \in SdkPcs
  BY DEF Confirm, At, SdkPcs
<1>4. Touches(c) /\ call'[c].pc = "sent"
  BY <1>1, <1>3, GoTouches
<1>5. CallsOk' /\ BusyOk' /\ SessOk' /\ FilesT(files)' /\ \A d \in busy' : RunOk(d)'
  <2>1. /\ n' \in Counters /\ n'.deks >= n.deks /\ Touches(c)
        /\ call[c].pc \in SdkPcs /\ call'[c].pc \in SdkPcs /\ UNCHANGED <<files, sess, busy>>
    BY <1>1, <1>2, <1>3, <1>4
  <2> QED BY <2>1, QuietKeeps
<1>6. RestOk'
  BY <1>1, <1>2 DEF TypeInv, RestOk
<1>7. IdbOk'
  BY <1>1, <1>2, IdbKept DEF TypeInv
<1> QED BY <1>5, <1>6, <1>7 DEF TypeInv

\* A call returns, or goes on, without anything else having changed but what
\* the SDK keeps.
LEMMA TailT ==
    ASSUME TypeInv, NEW c \in Calls, Touches(c), n' = n, call[c].pc \in SdkPcs, call'[c].pc \in SdkPcs,
           UNCHANGED <<files, sess, busy>>, IdbOk', RestOk'
    PROVE  TypeInv'
<1>1. n \in Counters /\ n.deks \in Nat
  BY CountersT DEF TypeInv, RestOk
<1>2. n' \in Counters /\ n'.deks >= n.deks
  BY <1>1
<1>3. CallsOk' /\ BusyOk' /\ SessOk' /\ FilesT(files)' /\ \A d \in busy' : RunOk(d)'
  BY <1>2, QuietKeeps
<1> QED BY <1>3 DEF TypeInv

LEMMA CancelT ==
    ASSUME TypeInv, NEW c \in Calls, Cancel(c)
    PROVE  TypeInv'
<1>1. n \in Counters /\ n' = n /\ CallsOk /\ n.deks \in Nat
  BY CountersT DEF TypeInv, RestOk, Cancel
<1>2. UNCHANGED <<idb, files, anchor, sess, busy, queue, answered, acked, overtaken, n>>
  BY DEF Cancel
<1>3. call' = Return(c) /\ call[c].pc \in SdkPcs
  BY DEF Cancel, At, SdkPcs
<1>4. Touches(c) /\ call'[c].pc \in SdkPcs
  BY <1>1, <1>3, ReturnTouches, RestFields DEF SdkPcs
<1>6. RestOk'
  BY <1>1, <1>2 DEF TypeInv, RestOk
<1>7. IdbOk'
  BY <1>1, <1>2, IdbKept DEF TypeInv
<1> QED BY <1>2, <1>3, <1>4, <1>6, <1>7, TailT

LEMMA ReadFloorRec ==
    ASSUME TypeInv, NEW c \in Calls, ReadFloor(c)
    PROVE  /\ call' = [call EXCEPT ![c] = call'[c]] /\ CallT(call'[c], n'.deks)
           /\ call'[c].pc = "raise" /\ call'[c].op = call[c].op /\ call'[c].env = call[c].env
           /\ call'[c].next = call[c].next /\ call'[c].dek = call[c].dek
<1>1. CallsOk /\ CallT(call[c], n.deks) /\ n' = n /\ idb.floor \in Nat
  BY DEF TypeInv, CallsOk, IdbOk, ReadFloor
<1>2. PICK r : r = call[c]
  OBVIOUS
<1>3. PICK m : m = [r EXCEPT !.pc = "raise"]
  OBVIOUS
<1>4. PICK q : q = [m EXCEPT !.floor = idb.floor]
  OBVIOUS
<1>5. call'[c] = q /\ call' = [call EXCEPT ![c] = call'[c]]
  BY <1>1, <1>2, <1>3, <1>4 DEF ReadFloor, CallsOk
<1>6. Shaped(r)
  BY <1>1, <1>2 DEF CallT
<1>7. /\ Shaped(m) /\ m.pc = "raise" /\ m.op = r.op /\ m.env = r.env /\ m.epoch = r.epoch
      /\ m.next = r.next /\ m.dek = r.dek /\ m.todo = r.todo /\ m.db = r.db
  BY <1>3, <1>6, SetPc
<1>8. /\ Shaped(q) /\ q.floor = idb.floor /\ q.pc = m.pc /\ q.op = m.op /\ q.env = m.env
      /\ q.epoch = m.epoch /\ q.next = m.next /\ q.dek = m.dek /\ q.todo = m.todo /\ q.db = m.db
  BY <1>4, <1>7, SetFloor
<1>9. CallT(q, n'.deks)
  BY <1>1, <1>2, <1>7, <1>8 DEF CallT, SdkPcs
<1> QED BY <1>2, <1>5, <1>7, <1>8, <1>9

\* The generation that the worker reads off an envelope.
LEMMA GenerationFacts ==
    ASSUME NEW e, e.gen \in Nat
    PROVE  Generation(e) \in Nat /\ Generation(e) <= e.gen /\ (Parses(e) => Generation(e) = e.gen)
BY DEF Generation

LEMMA PutT ==
    ASSUME TypeInv, NEW c \in Calls, Put(c), answered # <<>>
    PROVE  TypeInv'
<1>1. /\ n \in Counters /\ n' = n /\ CallsOk /\ n.deks \in Nat /\ answered \in Seq(Calls)
      /\ queue \in Seq(Calls)
  BY CountersT DEF TypeInv, RestOk, Put
<1>2. /\ UNCHANGED <<files, anchor, sess, busy, acked, n>> /\ answered' = Tail(answered)
      /\ queue' = Append(queue, c)
  BY DEF Put
<1>3. call' = Go(c, "ask") /\ call[c].pc \in SdkPcs /\ "ask" \in SdkPcs
  BY DEF Put, At, SdkPcs
<1>4. Touches(c) /\ call'[c].pc \in SdkPcs
  BY <1>1, <1>3, GoTouches
<1>5. EnvT(call[c].next, n.deks)
  BY DEF TypeInv, CallsOk, CallT
<1>6. RestOk'
  <2>1. Tail(answered) \in Seq(Calls) /\ queue' \in Seq(Calls)
    BY <1>1, <1>2
  <2>2. overtaken' \in BOOLEAN
    BY DEF Put
  <2> QED BY <1>2, <2>1, <2>2 DEF TypeInv, RestOk
<1>7. IdbOk'
  <2>1. idb' = [idb EXCEPT !.env = call[c].next]
    BY DEF Put
  <2> QED BY <1>1, <1>5, <2>1 DEF TypeInv, IdbOk
<1> QED BY <1>2, <1>3, <1>4, <1>6, <1>7, TailT

LEMMA ReadFloorT ==
    ASSUME TypeInv, NEW c \in Calls, ReadFloor(c)
    PROVE  TypeInv'
<1>1. n \in Counters /\ n' = n /\ CallsOk /\ n.deks \in Nat
  BY CountersT DEF TypeInv, RestOk, ReadFloor
<1>2. UNCHANGED <<idb, files, anchor, sess, busy, queue, answered, acked, overtaken, n>>
  BY DEF ReadFloor
<1>3. call[c].pc \in SdkPcs /\ "raise" \in SdkPcs
  BY DEF ReadFloor, At, SdkPcs
<1>4. Touches(c) /\ call'[c].pc \in SdkPcs
  BY <1>1, <1>3, ReadFloorRec DEF Touches
<1>6. RestOk'
  BY <1>1, <1>2 DEF TypeInv, RestOk
<1>7. IdbOk'
  BY <1>1, <1>2, IdbKept DEF TypeInv
<1> QED BY <1>2, <1>3, <1>4, <1>6, <1>7, TailT

LEMMA BumpFloorT ==
    ASSUME TypeInv, NEW c \in Calls, BumpFloor(c)
    PROVE  TypeInv'
<1>1. n \in Counters /\ n' = n /\ CallsOk /\ n.deks \in Nat
  BY CountersT DEF TypeInv, RestOk, BumpFloor
<1>2. UNCHANGED <<files, anchor, sess, busy, queue, answered, acked, overtaken, n>>
  BY DEF BumpFloor
<1>3. call[c].pc \in SdkPcs /\ "token" \in SdkPcs
  BY DEF BumpFloor, At, SdkPcs
<1>4. Touches(c) /\ call'[c].pc \in SdkPcs
  <2>1. CASE call' = Go(c, "token")
    BY <1>1, <1>3, <2>1, GoTouches
  <2>2. CASE call' = Return(c)
    BY <1>1, <2>2, ReturnTouches, RestFields DEF SdkPcs
  <2> QED BY <2>1, <2>2 DEF BumpFloor
<1>6. RestOk'
  BY <1>1, <1>2 DEF TypeInv, RestOk
<1>7. IdbOk'
  <2>1. PICK g : g = Generation(call[c].next)
    OBVIOUS
  <2>2. g \in Nat
    <3>1. call[c].next.gen \in Nat
      BY DEF TypeInv, CallsOk, CallT, EnvT
    <3> QED BY <2>1, <3>1, GenerationFacts
  <2>3. idb' = [idb EXCEPT !.floor = g] \/ idb' = idb
    BY <2>1 DEF BumpFloor
  <2> QED BY <1>1, <2>2, <2>3 DEF TypeInv, IdbOk
<1> QED BY <1>2, <1>3, <1>4, <1>6, <1>7, TailT

LEMMA DelEpochT ==
    ASSUME TypeInv, NEW c \in Calls, DelEpoch(c)
    PROVE  TypeInv'
<1>1. n \in Counters /\ n' = n /\ CallsOk /\ n.deks \in Nat
  BY CountersT DEF TypeInv, RestOk, DelEpoch
<1>2. UNCHANGED <<files, anchor, sess, busy, queue, answered, acked, overtaken, n>>
  BY DEF DelEpoch
<1>3. call' = Go(c, "reopen") /\ call[c].pc \in SdkPcs /\ "reopen" \in SdkPcs
  BY DEF DelEpoch, At, SdkPcs
<1>4. Touches(c) /\ call'[c].pc \in SdkPcs
  BY <1>1, <1>3, GoTouches
<1>6. RestOk'
  BY <1>1, <1>2 DEF TypeInv, RestOk
<1>7. IdbOk'
  <2>1. idb' = [idb EXCEPT !.epoch = NoToken]
    BY DEF DelEpoch
  <2>2. NoToken \in Tokens
    BY <1>1, RestT, RestFields DEF CallT
  <2> QED BY <1>1, <2>1, <2>2 DEF TypeInv, IdbOk
<1> QED BY <1>2, <1>3, <1>4, <1>6, <1>7, TailT

LEMMA ReopenT ==
    ASSUME TypeInv, NEW c \in Calls, Reopen(c)
    PROVE  TypeInv'
<1>1. n \in Counters /\ n' = n /\ CallsOk /\ n.deks \in Nat /\ queue \in Seq(Calls)
  BY CountersT DEF TypeInv, RestOk, Reopen
<1>2. UNCHANGED <<idb, files, anchor, sess, busy, answered, acked, overtaken, n>>
  BY DEF Reopen
<1>3. call[c].pc \in SdkPcs
  BY DEF Reopen, At, SdkPcs
<1>4. Touches(c) /\ call'[c].pc \in SdkPcs
  <2>1. CASE call' = Return(c)
    BY <1>1, <2>1, ReturnTouches, RestFields DEF SdkPcs
  <2>2. CASE CheckFresh(idb.env, idb.floor)
    <3>0. PICK r0 : r0 = Rest
      OBVIOUS
    <3>1. PICK r : r = StartOf(r0, "reopen", "check", idb.env, idb.epoch)
      OBVIOUS
    <3>2. call' = [call EXCEPT ![c] = r]
      BY <2>2, <3>0, <3>1 DEF Reopen, StartOf
    <3>3. /\ Shaped(r0) /\ r0.next = NoEnv /\ r0.dek = NoDek /\ r0.todo = <<>> /\ r0.db = 1
          /\ r0.floor = 0
      BY <3>0, RestFields
    <3>4. /\ Shaped(r) /\ r.pc = "check" /\ r.env = idb.env /\ r.epoch = idb.epoch
          /\ r.next = r0.next /\ r.dek = r0.dek /\ r.todo = r0.todo /\ r.db = r0.db
          /\ r.floor = r0.floor
      BY <3>1, <3>3, StartRec
    <3>5. EnvT(r.env, n.deks) /\ r.epoch \in Tokens /\ r.pc \in SdkPcs /\ r.db \in Dbs
      BY <3>3, <3>4, DbsFacts DEF TypeInv, IdbOk, SdkPcs
    <3>6. CallT(r, n.deks)
      BY <1>1, <3>3, <3>4, <3>5, NewCallT
    <3>7. call'[c] = r
      BY <1>1, <3>2 DEF CallsOk
    <3> QED BY <1>1, <3>2, <3>5, <3>6, <3>7 DEF Touches
  <2> QED BY <2>1, <2>2 DEF Reopen
<1>6. RestOk'
  <2>1. queue' \in Seq(Calls)
    BY <1>1 DEF Reopen
  <2> QED BY <1>1, <1>2, <2>1 DEF TypeInv, RestOk
<1>7. IdbOk'
  BY <1>1, <1>2, IdbKept DEF TypeInv
<1> QED BY <1>2, <1>3, <1>4, <1>6, <1>7, TailT

LEMMA TakeCheckT ==
    ASSUME TypeInv, NEW c \in Calls, TakeCheck(c)
    PROVE  TypeInv'
<1>1. n \in Counters /\ n' = n /\ CallsOk /\ n.deks \in Nat /\ queue \in Seq(Calls)
  BY CountersT DEF TypeInv, RestOk, TakeCheck
<1>2. UNCHANGED <<idb, files, anchor, sess, busy, answered, acked, overtaken, n>>
  BY DEF TakeCheck
<1>3. call[c].pc \in SdkPcs /\ "showing" \in SdkPcs
  BY DEF TakeCheck, At, SdkPcs
<1>4. Touches(c) /\ call'[c].pc \in SdkPcs
  <2>1. CASE call' = Return(c)
    BY <1>1, <2>1, ReturnTouches, RestFields DEF SdkPcs
  <2>2. CASE call' = Go(c, "showing")
    BY <1>1, <1>3, <2>2, GoTouches
  <2> QED BY <2>1, <2>2 DEF TakeCheck
<1>6. RestOk'
  <2>1. queue' \in Seq(Calls)
    BY <1>1 DEF TakeCheck
  <2> QED BY <1>1, <1>2, <2>1 DEF TypeInv, RestOk
<1>7. IdbOk'
  BY <1>1, <1>2, IdbKept DEF TypeInv
<1> QED BY <1>2, <1>3, <1>4, <1>6, <1>7, TailT

LEMMA TakeAskT ==
    ASSUME TypeInv, NEW c \in Calls, TakeAsk(c)
    PROVE  TypeInv'
<1>1. n \in Counters /\ n' = n /\ CallsOk /\ n.deks \in Nat /\ queue \in Seq(Calls)
  BY CountersT DEF TypeInv, RestOk, TakeAsk
<1>2. UNCHANGED <<idb, files, anchor, sess, busy, answered, acked, overtaken, n>>
  BY DEF TakeAsk
<1>3. call[c].pc \in SdkPcs /\ "floor" \in SdkPcs /\ call' = Go(c, "floor")
  BY DEF TakeAsk, At, SdkPcs
<1>4. Touches(c) /\ call'[c].pc \in SdkPcs
  BY <1>1, <1>3, GoTouches
<1>6. RestOk'
  <2>1. queue' \in Seq(Calls)
    BY <1>1 DEF TakeAsk
  <2> QED BY <1>1, <1>2, <2>1 DEF TypeInv, RestOk
<1>7. IdbOk'
  BY <1>1, <1>2, IdbKept DEF TypeInv
<1> QED BY <1>2, <1>3, <1>4, <1>6, <1>7, TailT

\* The call is answered with a new envelope.
LEMMA AnswersTouches ==
    ASSUME CallsOk, NEW c \in Calls, n \in Counters, n' \in Counters, n'.deks >= n.deks, NEW x,
           EnvT(x, n'.deks), Answers(c, x)
    PROVE  /\ Touches(c) /\ call'[c].pc = "put" /\ call'[c].next = x
           /\ call'[c].op = call[c].op /\ call'[c].env = call[c].env
<1>1. CallT(call[c], n.deks) /\ n.deks \in Nat /\ n'.deks \in Nat
  BY DEF CallsOk, Counters
<1>2. CallT(call[c], n'.deks)
  BY <1>1, CallWider
<1>3. PICK r : r = call[c]
  OBVIOUS
<1>4. PICK m : m = [r EXCEPT !.pc = "put"]
  OBVIOUS
<1>5. PICK q : q = [m EXCEPT !.next = x]
  OBVIOUS
<1>6. call'[c] = q /\ call' = [call EXCEPT ![c] = call'[c]]
  BY <1>3, <1>4, <1>5 DEF Answers, CallsOk
<1>7. Shaped(r)
  BY <1>2, <1>3 DEF CallT
<1>8. /\ Shaped(m) /\ m.pc = "put" /\ m.op = r.op /\ m.env = r.env /\ m.epoch = r.epoch
      /\ m.dek = r.dek /\ m.todo = r.todo /\ m.db = r.db /\ m.floor = r.floor
  BY <1>4, <1>7, SetPc
<1>9. /\ Shaped(q) /\ q.next = x /\ q.pc = m.pc /\ q.op = m.op /\ q.env = m.env /\ q.epoch = m.epoch
      /\ q.dek = m.dek /\ q.todo = m.todo /\ q.db = m.db /\ q.floor = m.floor
  BY <1>5, <1>8, SetNext
<1>10. CallT(q, n'.deks)
  BY <1>2, <1>3, <1>8, <1>9 DEF CallT, SdkPcs
<1> QED BY <1>3, <1>6, <1>8, <1>9, <1>10 DEF Touches

LEMMA TakesFacts ==
    ASSUME TypeInv, NEW c \in Calls, NEW ops, Takes(c, ops)
    PROVE  /\ busy = {} /\ At(c, "sent") /\ call[c].op \in ops /\ call[c].pc \in SdkPcs
           /\ queue # <<>> /\ c = Head(queue) /\ queue' = Tail(queue) /\ queue' \in Seq(Calls)
BY DEF Takes, At, SdkPcs, TypeInv, RestOk

LEMMA TakeAddT ==
    ASSUME TypeInv, NEW c \in Calls, TakeAdd(c)
    PROVE  TypeInv'
<1>1. n \in Counters /\ n' \in Counters /\ n'.deks = n.deks /\ CallsOk /\ n.deks \in Nat
      /\ answered \in Seq(Calls)
  BY CountersT DEF TypeInv, RestOk, TakeAdd
<1>2. UNCHANGED <<idb, files, anchor, sess, busy, acked, overtaken>>
  BY DEF TakeAdd
<1>3. call[c].pc \in SdkPcs /\ queue' \in Seq(Calls)
  BY TakesFacts DEF TakeAdd
<1>4. Touches(c) /\ call'[c].pc \in SdkPcs /\ answered' \in Seq(Calls)
  <2>1. CASE call' = Return(c) /\ UNCHANGED answered
    BY <1>1, <2>1, ReturnTouches, RestFields DEF SdkPcs
  <2>2. CASE ~IsRefused(OpenWith(call[c].env, Prf))
    <3> DEFINE key == OpenWith(call[c].env, Prf)
               x == AddSlot(call[c].env, key.dek, Code(n.codes + 1), Recovery)
    <3>1. Answers(c, x)
      BY <2>2 DEF TakeAdd
    <3>2. x.gen = call[c].env.gen + 1 /\ x.mac.key = call[c].env.mac.key
      BY <2>2, AddFacts, OpenFacts
    <3> HIDE DEF x
    <3>3. EnvT(x, n'.deks)
      BY <1>1, <3>2 DEF CallsOk, CallT, EnvT
    <3>4. Touches(c) /\ call'[c].pc = "put"
      BY <1>1, <3>1, <3>3, AnswersTouches
    <3>5. answered' \in Seq(Calls)
      BY <1>1, <3>1 DEF Answers
    <3> QED BY <3>4, <3>5 DEF SdkPcs
  <2> QED BY <2>1, <2>2 DEF TakeAdd
<1>5. CallsOk' /\ BusyOk' /\ SessOk' /\ FilesT(files)' /\ \A d \in busy' : RunOk(d)'
  <2>1. /\ n' \in Counters /\ n'.deks >= n.deks /\ Touches(c)
        /\ call[c].pc \in SdkPcs /\ call'[c].pc \in SdkPcs /\ UNCHANGED <<files, sess, busy>>
    BY <1>1, <1>2, <1>3, <1>4
  <2> QED BY <2>1, QuietKeeps
<1>6. RestOk'
  BY <1>1, <1>2, <1>3, <1>4 DEF TypeInv, RestOk
<1>7. IdbOk'
  BY <1>1, <1>2, IdbKept DEF TypeInv
<1> QED BY <1>5, <1>6, <1>7 DEF TypeInv

LEMMA TakeRemoveT ==
    ASSUME TypeInv, NEW c \in Calls, TakeRemove(c)
    PROVE  TypeInv'
<1>1. n \in Counters /\ n' = n /\ CallsOk /\ n.deks \in Nat /\ answered \in Seq(Calls)
  BY CountersT DEF TypeInv, RestOk, TakeRemove
<1>2. UNCHANGED <<idb, files, anchor, sess, busy, acked, overtaken>>
  BY DEF TakeRemove
<1>3. call[c].pc \in SdkPcs /\ queue' \in Seq(Calls)
  BY TakesFacts DEF TakeRemove
<1>4. Touches(c) /\ call'[c].pc \in SdkPcs /\ answered' \in Seq(Calls)
  <2>1. CASE call' = Return(c) /\ UNCHANGED answered
    BY <1>1, <2>1, ReturnTouches, RestFields DEF SdkPcs
  <2>2. CASE \E id : /\ ~IsRefused(OpenWith(call[c].env, Prf))
                     /\ ~IsRefused(RemoveSlot(call[c].env, OpenWith(call[c].env, Prf).dek, id))
                     /\ Answers(c, RemoveSlot(call[c].env, OpenWith(call[c].env, Prf).dek, id))
    <3>1. PICK id : /\ ~IsRefused(OpenWith(call[c].env, Prf))
                    /\ ~IsRefused(RemoveSlot(call[c].env, OpenWith(call[c].env, Prf).dek, id))
                    /\ Answers(c, RemoveSlot(call[c].env, OpenWith(call[c].env, Prf).dek, id))
      BY <2>2
    <3> DEFINE x == RemoveSlot(call[c].env, OpenWith(call[c].env, Prf).dek, id)
    <3>2. x.gen = call[c].env.gen + 1 /\ x.mac.key = call[c].env.mac.key
      BY <3>1, RemoveFacts, OpenFacts
    <3> HIDE DEF x
    <3>3. EnvT(x, n'.deks)
      BY <1>1, <3>2 DEF CallsOk, CallT, EnvT
    <3>4. Answers(c, x)
      BY <3>1 DEF x
    <3>5. Touches(c) /\ call'[c].pc = "put"
      BY <1>1, <3>4, <3>3, AnswersTouches
    <3>6. answered' \in Seq(Calls)
      BY <1>1, <3>4 DEF Answers
    <3> QED BY <3>5, <3>6 DEF SdkPcs
  <2>3. IsRefused(Refused)
    BY DEF IsRefused, Refused
  <2> QED BY <2>1, <2>2, <2>3 DEF TakeRemove
<1>6. RestOk'
  BY <1>1, <1>2, <1>3, <1>4 DEF TypeInv, RestOk
<1>7. IdbOk'
  BY <1>1, <1>2, IdbKept DEF TypeInv
<1> QED BY <1>1, <1>2, <1>3, <1>4, <1>6, <1>7, TailT

-----------------------------------------------------------------------------
(* A step of the worker: the call it runs, the session and the files. *)

LEMMA WorkT ==
    ASSUME TypeInv, NEW c \in Calls, Touches(c), n' \in Counters, n'.deks >= n.deks,
           busy \subseteq {c}, busy' \subseteq {c}, c \in busy' <=> call'[c].pc \in BusyPcs,
           IdbOk', RestOk', FilesT(files)', SessOk', c \in busy' => RunOk(c)'
    PROVE  TypeInv'
<1>1. n \in Counters /\ CallsOk
  BY DEF TypeInv, RestOk
<1>2. CallsOk' /\ \A d \in Calls : d # c => call'[d] = call[d]
  BY <1>1, CallsKept
<1>3. \A d \in Calls : d # c => call[d].pc \notin BusyPcs
  BY DEF TypeInv, BusyOk
<1> HIDE DEF BusyPcs
<1>4. BusyOk'
  BY <1>2, <1>3 DEF BusyOk
<1>5. \A d \in busy' : RunOk(d)'
  <2> SUFFICES ASSUME NEW d \in busy' PROVE RunOk(d)'
    OBVIOUS
  <2>1. d = c
    OBVIOUS
  <2> QED BY <2>1
<1> QED BY <1>2, <1>4, <1>5 DEF TypeInv

LEMMA LockedT ==
    ASSUME TypeInv
    PROVE  /\ Locked \in Sessions /\ ~Locked.on /\ Locked.open = {} /\ Locked.wrote = {}
           /\ Locked.pool \in {NoDek, sess.pool}
           /\ sess.on => Locked.leaked = sess.leaked \ sess.open
           /\ (sess.on /\ ~LockFails) => Locked.pool = NoDek
<1>1. sess \in Sessions /\ SessOk
  BY DEF TypeInv, RestOk
<1>2. CASE ~sess.on
  BY <1>1, <1>2 DEF Locked, SessOk, Sessions
<1>3. CASE sess.on
  BY <1>1, <1>3 DEF Locked, LockFails, Sessions, NoDek
<1> QED BY <1>2, <1>3

\* A closed session asks nothing of the pool.
LEMMA ClosedSess ==
    ASSUME ~sess'.on, sess'.open = {}, sess'.wrote = {}
    PROVE  SessOk'
BY DEF SessOk

LEMMA TakeLockT ==
    ASSUME TypeInv, NEW c \in Calls, TakeLock(c)
    PROVE  TypeInv'
<1>1. n \in Counters /\ n' = n /\ CallsOk /\ n.deks \in Nat
  BY CountersT DEF TypeInv, RestOk, TakeLock
<1>2. /\ UNCHANGED <<idb, anchor, busy, answered, acked, overtaken, n>>
      /\ files' = Closed /\ sess' = Locked /\ call' = Return(c)
  BY DEF TakeLock
<1>3. busy = {} /\ queue' \in Seq(Calls)
  BY TakesFacts DEF TakeLock
<1>4. Touches(c) /\ call'[c].pc = "idle"
  BY <1>1, <1>2, ReturnTouches, RestFields
<1>5. RestOk'
  BY <1>1, <1>2, <1>3, LockedT DEF TypeInv, RestOk
<1>6. IdbOk'
  BY <1>1, <1>2, IdbKept DEF TypeInv
<1>7. FilesT(files)'
  <2>1. sess.wrote \subseteq Dbs
    BY DEF TypeInv, RestOk, Sessions
  <2> QED BY <1>2, <2>1, ClosedT DEF TypeInv
<1>8. SessOk'
  BY <1>2, LockedT, ClosedSess
<1>9. call'[c].pc \notin BusyPcs
  BY <1>4 DEF BusyPcs, StagePcs, SwapPcs
<1> QED BY <1>1, <1>2, <1>3, <1>4, <1>5, <1>6, <1>7, <1>8, <1>9, WorkT

\* Everything but the files, the session and the calls is as it was.
LEMMA WorkRest ==
    ASSUME TypeInv, n' = n, sess' \in Sessions, busy' \in SUBSET Calls,
           queue' \in Seq(Calls), UNCHANGED <<idb, anchor, answered, acked, overtaken>>
    PROVE  IdbOk' /\ RestOk' /\ n' \in Counters /\ n'.deks >= n.deks
<1>1. n \in Counters /\ n.deks \in Nat
  BY CountersT DEF TypeInv, RestOk
<1>2. IdbOk'
  BY <1>1, IdbKept DEF TypeInv
<1>3. RestOk'
  BY <1>1 DEF TypeInv, RestOk
<1> QED BY <1>1, <1>2, <1>3

\* An operation of the worker that fails.
LEMMA FailsT ==
    ASSUME TypeInv, NEW c \in Calls, busy = {c}, Fails(c), ~At(c, "intentFill"),
           UNCHANGED <<idb, anchor, queue, answered, acked, overtaken, n>>
    PROVE  TypeInv'
<1>1. n \in Counters /\ n' = n /\ CallsOk /\ n.deks \in Nat /\ RestOk
  BY CountersT DEF TypeInv, RestOk
<1>2. call' = Return(c) /\ busy' = {} /\ UNCHANGED <<files, sess>>
  BY DEF Fails
<1>3. Touches(c) /\ call'[c].pc = "idle"
  BY <1>1, <1>2, ReturnTouches, RestFields
<1>4. IdbOk' /\ RestOk' /\ n' \in Counters /\ n'.deks >= n.deks
  BY <1>1, <1>2, WorkRest DEF RestOk
<1>5. SessOk'
  <2>1. sess.on => files[Intent] = Missing
    BY DEF TypeInv, SessOk
  <2> QED BY <1>2, <2>1 DEF TypeInv, SessOk
<1>6. call'[c].pc \notin BusyPcs
  BY <1>3 DEF BusyPcs, StagePcs, SwapPcs
<1>7. FilesT(files)'
  BY <1>2 DEF TypeInv
<1> QED BY <1>2, <1>3, <1>4, <1>5, <1>6, <1>7, WorkT

\* A call moves on with other work to do.
MoveOf(r, p, t) == [r EXCEPT !.pc = p, !.todo = t]

LEMMA MoveRec ==
    ASSUME NEW r0, Shaped(r0), NEW p, NEW t, NEW r, r = MoveOf(r0, p, t)
    PROVE  /\ Shaped(r) /\ r.op = r0.op /\ r.pc = p /\ r.dek = r0.dek /\ r.todo = t
           /\ r.next = r0.next /\ r.env = r0.env /\ r.epoch = r0.epoch /\ r.db = r0.db /\ r.floor = r0.floor
<1>1. PICK r1 : r1 = [r0 EXCEPT !.pc = p]
  OBVIOUS
<1>2. PICK r2 : r2 = [r1 EXCEPT !.todo = t]
  OBVIOUS
<1>3. r = r2
  BY <1>1, <1>2 DEF MoveOf
<1>4. /\ Shaped(r1) /\ r1.pc = p /\ r1.op = r0.op /\ r1.env = r0.env /\ r1.epoch = r0.epoch
      /\ r1.db = r0.db /\ r1.floor = r0.floor /\ r1.dek = r0.dek /\ r1.next = r0.next
  BY <1>1, SetPc
<1>5. /\ Shaped(r2) /\ r2.todo = t /\ r2.dek = r1.dek /\ r2.pc = r1.pc /\ r2.op = r1.op
      /\ r2.env = r1.env /\ r2.epoch = r1.epoch /\ r2.db = r1.db /\ r2.floor = r1.floor /\ r2.next = r1.next
  BY <1>2, <1>4, SetTodo
<1> QED BY <1>3, <1>4, <1>5

LEMMA TodoTouches ==
    ASSUME CallsOk, NEW c \in Calls, n' = n, NEW p \in BusyPcs \cup SdkPcs,
           NEW t \in Seq(LiveNames), call' = [call EXCEPT ![c] = MoveOf(call[c], p, t)]
    PROVE  /\ Touches(c) /\ call'[c].pc = p /\ call'[c].todo = t
           /\ call'[c].op = call[c].op /\ call'[c].env = call[c].env /\ call'[c].next = call[c].next
           /\ call'[c].dek = call[c].dek /\ call'[c].epoch = call[c].epoch
<1>1. CallT(call[c], n'.deks)
  BY DEF CallsOk
<1>2. call'[c] = MoveOf(call[c], p, t) /\ call' = [call EXCEPT ![c] = call'[c]]
  BY DEF CallsOk
<1>3. /\ Shaped(call'[c]) /\ call'[c].op = call[c].op /\ call'[c].pc = p
      /\ call'[c].dek = call[c].dek /\ call'[c].todo = t /\ call'[c].next = call[c].next
      /\ call'[c].env = call[c].env /\ call'[c].epoch = call[c].epoch /\ call'[c].db = call[c].db /\ call'[c].floor = call[c].floor
  <2>1. Shaped(call[c])
    BY <1>1 DEF CallT
  <2> QED BY <1>2, <2>1, MoveRec
<1>4. CallT(call'[c], n'.deks)
  BY <1>1, <1>3 DEF CallT
<1> QED BY <1>2, <1>3, <1>4 DEF Touches

\* The call of a rotation that begins.
RotateOf(r, p, d, t, e) == [r EXCEPT !.pc = p, !.dek = d, !.todo = t, !.next = e]

LEMMA RotateRec ==
    ASSUME NEW r0, Shaped(r0), NEW p, NEW d, NEW t, NEW e, NEW r, r = RotateOf(r0, p, d, t, e)
    PROVE  /\ Shaped(r) /\ r.op = r0.op /\ r.pc = p /\ r.dek = d /\ r.todo = t /\ r.next = e
           /\ r.env = r0.env /\ r.epoch = r0.epoch /\ r.db = r0.db /\ r.floor = r0.floor
<1>1. PICK r1 : r1 = [r0 EXCEPT !.pc = p]
  OBVIOUS
<1>2. PICK r2 : r2 = [r1 EXCEPT !.dek = d]
  OBVIOUS
<1>3. PICK r3 : r3 = [r2 EXCEPT !.todo = t]
  OBVIOUS
<1>4. PICK r4 : r4 = [r3 EXCEPT !.next = e]
  OBVIOUS
<1>5. r = r4
  BY <1>1, <1>2, <1>3, <1>4 DEF RotateOf
<1>6. /\ Shaped(r1) /\ r1.pc = p /\ r1.op = r0.op /\ r1.env = r0.env /\ r1.epoch = r0.epoch
      /\ r1.db = r0.db /\ r1.floor = r0.floor
  BY <1>1, SetPc
<1>7. /\ Shaped(r2) /\ r2.dek = d /\ r2.pc = r1.pc /\ r2.op = r1.op /\ r2.env = r1.env
      /\ r2.epoch = r1.epoch /\ r2.db = r1.db /\ r2.floor = r1.floor
  BY <1>2, <1>6, SetDek
<1>8. /\ Shaped(r3) /\ r3.todo = t /\ r3.dek = r2.dek /\ r3.pc = r2.pc /\ r3.op = r2.op
      /\ r3.env = r2.env /\ r3.epoch = r2.epoch /\ r3.db = r2.db /\ r3.floor = r2.floor
  BY <1>3, <1>7, SetTodo
<1>9. /\ Shaped(r4) /\ r4.next = e /\ r4.todo = r3.todo /\ r4.dek = r3.dek /\ r4.pc = r3.pc
      /\ r4.op = r3.op /\ r4.env = r3.env /\ r4.epoch = r3.epoch /\ r4.db = r3.db /\ r4.floor = r3.floor
  BY <1>4, <1>8, SetNext
<1> QED BY <1>5, <1>6, <1>7, <1>8, <1>9

\* The databases whose main file is there are all of them.
LEMMA AllDbs == TypeInv => {db \in Dbs : files[Main(db)] # Missing} = Dbs
<1> SUFFICES ASSUME TypeInv PROVE \A db \in Dbs : files[Main(db)] # Missing
  OBVIOUS
<1>1. \A db \in Dbs : files[Main(db)] \in LiveT
  BY NameFacts DEF TypeInv, FilesT
<1> QED BY <1>1, FileKinds

\* What TakeRotate does when it does not refuse.
RotateBegins(c) ==
    /\ sess.on /\ ~IsRefused(OpenWith(call[c].env, Prf))
    /\ n' = [n EXCEPT !.deks = @ + 1, !.codes = @ + 1]
    /\ call' = [call EXCEPT ![c] = RotateOf(call[c], "stage", n.deks + 1, Work(Dbs),
                                     RotateEnvelope(call[c].env, n.deks + 1, Prf, Code(n.codes + 1)))]
    /\ files' = Closed
    /\ sess' = [sess EXCEPT !.open = {}, !.wrote = {}, !.leaked = @ \ sess.open]
    /\ busy' = {c}

LEMMA TakeRotateCases ==
    ASSUME TypeInv, NEW c \in Calls, TakeRotate(c)
    PROVE  \/ call' = Return(c) /\ UNCHANGED <<files, sess, busy, n>>
           \/ RotateBegins(c)
<1>1. CASE ~sess.on \/ IsRefused(OpenWith(call[c].env, Prf))
  BY <1>1 DEF TakeRotate
<1>2. CASE ~(~sess.on \/ IsRefused(OpenWith(call[c].env, Prf)))
  <2> DEFINE e == RotateEnvelope(call[c].env, n.deks + 1, Prf, Code(n.codes + 1))
  <2>1. call' = [call EXCEPT ![c].pc = "stage", ![c].dek = n.deks + 1,
                             ![c].todo = Work(Dbs), ![c].next = e]
    BY <1>2, AllDbs DEF TakeRotate
  <2> HIDE DEF e
  <2>2. call' = [call EXCEPT ![c] = RotateOf(call[c], "stage", n.deks + 1, Work(Dbs), e)]
    BY <2>1 DEF RotateOf, TypeInv, CallsOk
  <2> QED BY <1>2, <2>2 DEF TakeRotate, RotateBegins, e
<1> QED BY <1>1, <1>2

LEMMA RotateBeginsT ==
    ASSUME TypeInv, NEW c \in Calls, RotateBegins(c)
    PROVE  /\ Touches(c) /\ n' \in Counters /\ n'.deks = n.deks + 1 /\ n.deks \in Nat
           /\ n'.room = n.room /\ n'.codes = n.codes + 1
           /\ call'[c].next = RotateEnvelope(call[c].env, n.deks + 1, Prf, Code(n.codes + 1))
           /\ call'[c].pc = "stage" /\ call'[c].op = call[c].op /\ call'[c].env = call[c].env
           /\ call'[c].dek = n.deks + 1 /\ call'[c].todo = Work(Dbs)
           /\ call'[c].next.gen = call[c].env.gen + 1 /\ call'[c].next.mac.key = n.deks + 1
           /\ sess' \in Sessions /\ sess'.on /\ sess'.pool = sess.pool /\ sess'.open = {}
           /\ sess'.wrote = {} /\ sess'.leaked = sess.leaked \ sess.open
<1>1. n \in Counters /\ CallsOk /\ sess \in Sessions
  BY DEF TypeInv, RestOk
<1>2. n' \in Counters /\ n'.deks = n.deks + 1 /\ n.deks \in Nat /\ n'.room = n.room
      /\ n'.codes = n.codes + 1
  <2>1. PICK m : m = [n EXCEPT !.deks = n.deks + 1]
    OBVIOUS
  <2>2. /\ m \in Counters /\ m.deks = n.deks + 1 /\ n.deks \in Nat /\ m.room = n.room
        /\ m.codes = n.codes
    BY <1>1, <2>1 DEF Counters
  <2>3. n' = [m EXCEPT !.codes = m.codes + 1]
    BY <1>1, <2>1 DEF Counters, RotateBegins
  <2> QED BY <2>2, <2>3 DEF Counters
<1>3. /\ sess' \in Sessions /\ sess'.on /\ sess'.pool = sess.pool /\ sess'.open = {}
      /\ sess'.wrote = {} /\ sess'.leaked = sess.leaked \ sess.open
  BY <1>1 DEF Sessions, RotateBegins
<1>4. PICK e : e = RotateEnvelope(call[c].env, n.deks + 1, Prf, Code(n.codes + 1))
  OBVIOUS
<1>5. e.gen = call[c].env.gen + 1 /\ e.mac.key = n.deks + 1
  BY <1>4, RotateFacts
<1>6. PICK r0 : r0 = call[c]
  OBVIOUS
<1>7. PICK r : r = RotateOf(r0, "stage", n.deks + 1, Work(Dbs), e)
  OBVIOUS
<1>8. call'[c] = r /\ call' = [call EXCEPT ![c] = call'[c]]
  BY <1>1, <1>4, <1>6, <1>7 DEF RotateBegins, CallsOk
<1>9. CallT(r0, n.deks) /\ CallT(r0, n'.deks)
  <2>1. CallT(r0, n.deks)
    BY <1>1, <1>6 DEF CallsOk
  <2>2. n'.deks \in Nat /\ n'.deks >= n.deks
    BY <1>2
  <2> QED BY <1>2, <2>1, <2>2, CallWider
<1>10. /\ Shaped(r) /\ r.op = r0.op /\ r.pc = "stage" /\ r.dek = n.deks + 1 /\ r.todo = Work(Dbs)
       /\ r.next = e /\ r.env = r0.env /\ r.epoch = r0.epoch /\ r.db = r0.db /\ r.floor = r0.floor
  <2>1. Shaped(r0)
    BY <1>9 DEF CallT
  <2> QED BY <1>7, <2>1, RotateRec
<1>11. EnvT(e, n'.deks)
  <2>1. r0.env.gen \in Nat
    BY <1>9 DEF CallT, EnvT
  <2> QED BY <1>2, <1>5, <1>6, <2>1 DEF EnvT
<1>12. CallT(r, n'.deks)
  <2>1. r.pc \in BusyPcs \cup SdkPcs
    BY <1>10 DEF BusyPcs, StagePcs
  <2>2. r.dek \in 0 .. n'.deks
    BY <1>2, <1>10
  <2> QED BY <1>9, <1>10, <1>11, <2>1, <2>2, WorkFacts DEF CallT
<1> QED BY <1>2, <1>3, <1>4, <1>5, <1>6, <1>8, <1>10, <1>12 DEF Touches

LEMMA TakeRotateT ==
    ASSUME TypeInv, NEW c \in Calls, TakeRotate(c)
    PROVE  TypeInv'
<1>1. busy = {} /\ queue' \in Seq(Calls) /\ call[c].pc \in SdkPcs
  BY TakesFacts DEF TakeRotate
<1>2. UNCHANGED <<idb, anchor, answered, acked, overtaken>>
  BY DEF TakeRotate
<1>3. n \in Counters /\ CallsOk /\ n.deks \in Nat
  BY CountersT DEF TypeInv, RestOk
<1>4. CASE call' = Return(c) /\ UNCHANGED <<files, sess, busy, n>>
  <2>1. Touches(c) /\ call'[c].pc \in SdkPcs
    BY <1>3, <1>4, ReturnTouches, RestFields DEF SdkPcs
  <2>2. IdbOk' /\ RestOk'
    <3>1. sess' \in Sessions /\ busy' \in SUBSET Calls
      BY <1>4 DEF TypeInv, RestOk
    <3> QED BY <1>1, <1>2, <1>4, <3>1, WorkRest
  <2> QED BY <1>1, <1>4, <2>1, <2>2, TailT
<1>5. CASE RotateBegins(c)
  <2>1. /\ Touches(c) /\ n' \in Counters /\ n'.deks = n.deks + 1
        /\ call'[c].pc = "stage" /\ sess' \in Sessions /\ sess'.on /\ sess'.pool = sess.pool
        /\ sess'.open = {} /\ sess'.wrote = {}
    BY <1>5, RotateBeginsT
  <2>2. sess.on /\ files' = Closed /\ busy' = {c}
    BY <1>5 DEF RotateBegins
  <2>3. FilesT(files)' /\ files'[Intent] = files[Intent]
    <3>1. sess.wrote \subseteq Dbs
      BY DEF TypeInv, RestOk, Sessions
    <3> QED BY <2>2, <3>1, ClosedT DEF TypeInv
  <2>4. files[Intent] = Missing
    BY <1>1, <2>2 DEF TypeInv, SessOk
  <2>5. SessOk'
    BY <2>1, <2>3, <2>4 DEF SessOk
  <2>6. RunOk(c)'
    BY <2>1, <2>4 DEF RunOk, StagePcs, SwapPcs
  <2>7. call'[c].pc \in BusyPcs
    BY <2>1 DEF BusyPcs, StagePcs
  <2>8. RestOk'
    BY <1>1, <1>2, <2>1, <2>2 DEF TypeInv, RestOk
  <2>9. n'.deks >= n.deks
    BY <1>3, <2>1
  <2>10. IdbOk'
    BY <1>2, <1>3, <2>1, <2>9, IdbKept DEF TypeInv
  <2> QED BY <1>1, <2>1, <2>2, <2>3, <2>5, <2>6, <2>7, <2>8, <2>9, <2>10, WorkT
<1> QED BY <1>4, <1>5, TakeRotateCases

\* The call that the worker runs.
LEMMA RunsFacts ==
    ASSUME TypeInv, NEW c \in Calls, NEW p, Runs(c, p)
    PROVE  /\ busy = {c} /\ call[c].pc = p /\ RunOk(c) /\ n \in Counters /\ CallsOk
           /\ call[c].todo \in Seq(LiveNames) /\ CallT(call[c], n.deks)
           /\ n.deks \in Nat /\ call[c].dek \in Nat
           /\ call[c].todo # <<>> => /\ Head(call[c].todo) \in LiveNames
                                     /\ Tail(call[c].todo) \in Seq(LiveNames)
<1>1. CallT(call[c], n.deks)
  BY DEF TypeInv, CallsOk
<1>2. call[c].todo \in Seq(LiveNames)
  BY <1>1 DEF CallT
<1>3. call[c].todo # <<>> => /\ Head(call[c].todo) \in LiveNames
                             /\ Tail(call[c].todo) \in Seq(LiveNames)
  BY <1>2
<1>4. n \in Counters
  BY DEF TypeInv, RestOk
<1>5. n.deks \in Nat /\ call[c].dek \in Nat
  <2>1. n.deks \in Nat
    BY <1>4, CountersT
  <2>2. call[c].dek \in 0 .. n.deks
    BY <1>1 DEF CallT
  <2> QED BY <2>1, <2>2
<1> QED BY <1>1, <1>2, <1>3, <1>4, <1>5 DEF Runs, At, TypeInv

LEMMA StageFileT ==
    ASSUME TypeInv, NEW c \in Calls, StageFile(c)
    PROVE  TypeInv'
<1> DEFINE f == Head(call[c].todo)
<1>1. Runs(c, "stage") /\ call[c].todo # <<>>
      /\ UNCHANGED <<idb, anchor, queue, answered, acked, overtaken, n>>
  BY DEF StageFile
<1>2. /\ busy = {c} /\ call[c].pc = "stage" /\ RunOk(c) /\ n \in Counters /\ CallsOk
      /\ f \in LiveNames
  BY <1>1, RunsFacts
<1>3. CASE Fails(c)
  BY <1>1, <1>2, <1>3, FailsT DEF At
<1>4. CASE /\ files[f].is = "file" /\ files' = [files EXCEPT ![Shadow(f)] = Partial]
           /\ call' = Go(c, "stageFill") /\ UNCHANGED <<sess, busy>>
  <2> HIDE DEF f
  <2>1. sess.on /\ sess.open = {}
    BY <1>2 DEF RunOk, StagePcs
  <2>2. files[Intent] = Missing
    BY <1>2, <2>1 DEF TypeInv, SessOk, At
  <2>3. FilesT(files)'
    BY <1>2, <1>4, WriteShadow, FileKinds DEF TypeInv
  <2>4. files'[Shadow(f)] = Partial /\ files'[f] = files[f] /\ files'[Intent] = Missing
    BY <1>2, <1>4, <2>2, NameFacts DEF TypeInv, FilesT
  <2>5. SessOk'
    BY <1>4, <2>1, <2>4 DEF TypeInv, SessOk
  <2>6. Touches(c) /\ call'[c].pc = "stageFill" /\ call'[c].todo = call[c].todo
    BY <1>1, <1>2, <1>4, RunsFacts, GoTouches, PcFacts
  <2>7. RunOk(c)'
    BY <1>1, <1>4, <2>1, <2>4, <2>6, FileKinds DEF RunOk, f, SwapPcs
  <2>8. call'[c].pc \in BusyPcs
    BY <2>6 DEF BusyPcs, StagePcs
  <2>9. IdbOk' /\ RestOk' /\ n' \in Counters /\ n'.deks >= n.deks
    BY <1>1, <1>4, WorkRest DEF TypeInv, RestOk
  <2> QED BY <1>2, <1>4, <2>3, <2>5, <2>6, <2>7, <2>8, <2>9, WorkT
<1> QED BY <1>3, <1>4 DEF StageFile

LEMMA ResealedT ==
    ASSUME NEW v \in LiveT, v # Partial, NEW d \in Nat
    PROVE  /\ Resealed(v, d) \in LiveT /\ Resealed(v, d) # Partial
           /\ v.dek = sess.pool => Resealed(v, d) = [v EXCEPT !.dek = d]
BY DEF Resealed, LiveT, Partial

LEMMA StageFillT ==
    ASSUME TypeInv, NEW c \in Calls, StageFill(c)
    PROVE  TypeInv'
<1> DEFINE f == Head(call[c].todo)
           v == Resealed(files[f], call[c].dek)
<1>1. Runs(c, "stageFill") /\ UNCHANGED <<idb, anchor, sess, queue, busy, answered, acked, overtaken, n>>
      /\ files' = [files EXCEPT ![Shadow(f)] = v]
  BY DEF StageFill
<1>2. /\ busy = {c} /\ call[c].pc = "stageFill" /\ RunOk(c) /\ n \in Counters /\ CallsOk
  BY <1>1, RunsFacts
<1>3. call[c].todo # <<>> /\ files[f].is = "file" /\ sess.on /\ sess.open = {}
  BY <1>2 DEF RunOk, StagePcs
<1>4. f \in LiveNames /\ Tail(call[c].todo) \in Seq(LiveNames) /\ call[c].dek \in Nat
  BY <1>1, <1>3, RunsFacts
<1>5. v \in ShadowT
  <2>1. files[f] \in LiveT /\ call[c].dek \in Nat
    BY <1>4 DEF TypeInv, FilesT
  <2> QED BY <1>3, <2>1, ResealedT, FileKinds DEF ShadowT
<1> HIDE DEF v, f
<1>6. FilesT(files)'
  BY <1>1, <1>4, <1>5, WriteShadow DEF TypeInv
<1>7. files'[Intent] = Missing
  <2>1. files[Intent] = Missing
    BY <1>2, <1>3 DEF TypeInv, SessOk, At
  <2> QED BY <1>1, <1>4, <2>1, NameFacts DEF TypeInv, FilesT
<1>8. call' = [call EXCEPT ![c] = MoveOf(call[c], "stage", Tail(call[c].todo))]
  BY <1>2 DEF StageFill, MoveOf, CallsOk
<1>9. "stage" \in BusyPcs
  BY DEF BusyPcs, StagePcs
<1>10. Touches(c) /\ call'[c].pc = "stage"
  BY <1>1, <1>2, <1>4, <1>8, <1>9, TodoTouches
<1>11. SessOk'
  BY <1>1, <1>3, <1>7 DEF TypeInv, SessOk
<1>12. RunOk(c)'
  BY <1>1, <1>3, <1>10 DEF RunOk, SwapPcs, StagePcs
<1>13. IdbOk' /\ RestOk' /\ n' \in Counters /\ n'.deks >= n.deks
  BY <1>1, WorkRest DEF TypeInv, RestOk
<1> QED BY <1>1, <1>2, <1>6, <1>9, <1>10, <1>11, <1>12, <1>13, WorkT

LEMMA StageIntentT ==
    ASSUME TypeInv, NEW c \in Calls, StageIntent(c)
    PROVE  TypeInv'
<1>1. Runs(c, "stage") /\ call[c].todo = <<>>
      /\ UNCHANGED <<idb, anchor, queue, answered, acked, overtaken, n>>
  BY DEF StageIntent
<1>2. /\ busy = {c} /\ call[c].pc = "stage" /\ RunOk(c) /\ n \in Counters /\ CallsOk
  BY <1>1, RunsFacts
<1>3. CASE Fails(c)
  BY <1>1, <1>2, <1>3, FailsT DEF At
<1>4. CASE /\ files' = [files EXCEPT ![Intent] = Partial]
           /\ call' = Go(c, "intentFill") /\ UNCHANGED <<sess, busy>>
  <2>1. sess.on /\ sess.open = {}
    BY <1>2 DEF RunOk, StagePcs
  <2>3. FilesT(files)'
    BY <1>4, WriteIntent, FileKinds DEF TypeInv
  <2>4. files'[Intent] = Partial
    BY <1>4, NameFacts DEF TypeInv, FilesT
  <2>6. Touches(c) /\ call'[c].pc = "intentFill"
    BY <1>1, <1>2, <1>4, RunsFacts, GoTouches, PcFacts
  <2>5. SessOk'
    BY <1>2, <1>4, <2>1, <2>6 DEF TypeInv, SessOk, At
  <2>7. RunOk(c)'
    BY <1>4, <2>1, <2>4, <2>6, FileKinds DEF RunOk, SwapPcs
  <2>8. call'[c].pc \in BusyPcs
    BY <2>6 DEF BusyPcs, StagePcs
  <2>9. IdbOk' /\ RestOk' /\ n' \in Counters /\ n'.deks >= n.deks
    BY <1>1, <1>4, WorkRest DEF TypeInv, RestOk
  <2> QED BY <1>2, <1>4, <2>3, <2>5, <2>6, <2>7, <2>8, <2>9, WorkT
<1> QED BY <1>3, <1>4 DEF StageIntent

LEMMA AnchorT ==
    ASSUME anchor \in Anchors, NEW dek \in Nat
    PROVE  /\ AnchorLoad(dek) \in Anchors /\ AnchorLoad(dek).dek = dek
           /\ anchor.dek # dek => \A db \in Dbs : AnchorLoad(dek).floor[db] = 0
BY DEF AnchorLoad, Anchors

\* The record that the intent gets.
IntentOf(c) == [is |-> "intent", dek |-> call[c].dek, dbs |-> Dbs,
                committed |-> AnchorLoad(sess.pool).committed, floor |-> AnchorLoad(sess.pool).floor]

LEMMA IntentOfT ==
    ASSUME TypeInv, NEW c \in Calls
    PROVE  /\ IntentOf(c) \in IntentT /\ IntentOf(c) \notin {Missing, Partial}
           /\ IntentOf(c).dek = call[c].dek /\ IntentOf(c).dbs = Dbs
           /\ IntentOf(c).floor = AnchorLoad(sess.pool).floor
<1>1. call[c].dek \in Nat /\ AnchorLoad(sess.pool) \in Anchors
  BY AnchorT DEF TypeInv, CallsOk, CallT, RestOk, Sessions
<1>2. AnchorLoad(sess.pool).committed \in [Dbs -> Nat] /\ AnchorLoad(sess.pool).floor \in [Dbs -> Nat]
  BY <1>1 DEF Anchors
<1> QED BY <1>1, <1>2 DEF IntentOf, IntentT, Missing, Partial

LEMMA IntentFillT ==
    ASSUME TypeInv, NEW c \in Calls, IntentFill(c)
    PROVE  TypeInv'
<1>1. /\ Runs(c, "intentFill") /\ UNCHANGED <<idb, anchor, queue, acked, overtaken, n>>
      /\ sess' = Locked /\ busy' = {} /\ files' = [files EXCEPT ![Intent] = IntentOf(c)]
  BY AllDbs DEF IntentFill, IntentOf
<1>2. /\ busy = {c} /\ call[c].pc = "intentFill" /\ n \in Counters /\ CallsOk
      /\ CallT(call[c], n.deks) /\ n.deks \in Nat
  BY <1>1, RunsFacts
<1>3. Touches(c) /\ call'[c].pc \in SdkPcs /\ answered' \in Seq(Calls)
  <2>0. answered \in Seq(Calls)
    BY DEF TypeInv, RestOk
  <2>1. CASE call' = Return(c) /\ UNCHANGED answered
    BY <1>1, <1>2, <2>0, <2>1, ReturnTouches, RestFields DEF SdkPcs
  <2>2. CASE Answers(c, call[c].next)
    <3>1. EnvT(call[c].next, n'.deks) /\ n'.deks >= n.deks
      BY <1>1, <1>2 DEF CallT
    <3>2. Touches(c) /\ call'[c].pc = "put"
      BY <1>1, <1>2, <2>2, <3>1, AnswersTouches
    <3> QED BY <2>0, <2>2, <3>2 DEF Answers, SdkPcs
  <2> QED BY <2>1, <2>2 DEF IntentFill
<1>4. FilesT(files)'
  BY <1>1, WriteIntent, IntentOfT DEF TypeInv
<1>5. SessOk'
  BY <1>1, LockedT, ClosedSess
<1>6. IdbOk' /\ RestOk' /\ n' \in Counters /\ n'.deks >= n.deks
  <2>1. n.deks \in Nat
    BY <1>2, CountersT
  <2>2. IdbOk'
    BY <1>1, <1>2, <2>1, IdbKept DEF TypeInv
  <2>3. RestOk'
    BY <1>1, <1>3, LockedT DEF TypeInv, RestOk
  <2> QED BY <1>1, <1>2, <2>1, <2>2, <2>3
<1>7. call'[c].pc \notin BusyPcs
  BY <1>3 DEF SdkPcs, BusyPcs, StagePcs, SwapPcs
<1> QED BY <1>1, <1>2, <1>3, <1>4, <1>5, <1>6, <1>7, WorkT

\* An unlock whose key has been unwrapped.
KeyedOf(r, p, d) == [r EXCEPT !.pc = p, !.dek = d]

LEMMA KeyedRec ==
    ASSUME NEW r0, Shaped(r0), NEW p, NEW d, NEW r, r = KeyedOf(r0, p, d)
    PROVE  /\ Shaped(r) /\ r.op = r0.op /\ r.pc = p /\ r.dek = d /\ r.todo = r0.todo
           /\ r.next = r0.next /\ r.env = r0.env /\ r.epoch = r0.epoch /\ r.db = r0.db /\ r.floor = r0.floor
<1>1. PICK r1 : r1 = [r0 EXCEPT !.pc = p]
  OBVIOUS
<1>2. PICK r2 : r2 = [r1 EXCEPT !.dek = d]
  OBVIOUS
<1>3. r = r2
  BY <1>1, <1>2 DEF KeyedOf
<1>4. /\ Shaped(r1) /\ r1.pc = p /\ r1.op = r0.op /\ r1.env = r0.env /\ r1.epoch = r0.epoch
      /\ r1.db = r0.db /\ r1.floor = r0.floor /\ r1.todo = r0.todo /\ r1.next = r0.next
  BY <1>1, SetPc
<1>5. /\ Shaped(r2) /\ r2.dek = d /\ r2.todo = r1.todo /\ r2.pc = r1.pc /\ r2.op = r1.op
      /\ r2.env = r1.env /\ r2.epoch = r1.epoch /\ r2.db = r1.db /\ r2.floor = r1.floor /\ r2.next = r1.next
  BY <1>2, <1>4, SetDek
<1> QED BY <1>3, <1>4, <1>5

\* What TakeOpen does: it refuses, or it closes the session and the call goes
\* on, or returns.
LEMMA TakeOpenCases ==
    ASSUME TypeInv, NEW c \in Calls, TakeOpen(c)
    PROVE  /\ \/ UNCHANGED <<files, sess>> /\ call' = Return(c)
              \/ /\ files' = Closed /\ sess' = Locked
                 /\ \/ call' = Return(c)
                    \/ /\ Touches(c) /\ call'[c].pc = "install" /\ call'[c].op = call[c].op
                       /\ call'[c].env = call[c].env /\ call'[c].next = call[c].next
                       /\ ~LockFails
<1> DEFINE key == OpenWith(call[c].env, Prf)
<1>1. CASE IsRefused(key)
  BY <1>1 DEF TakeOpen
<1>2. CASE ~IsRefused(key) /\ LockFails
  BY <1>2 DEF TakeOpen
<1>3. CASE ~IsRefused(key) /\ ~LockFails
  <2>1. key.dek = call[c].env.mac.key
    BY <1>3, OpenFacts
  <2>2. files' = Closed /\ sess' = Locked /\ call' = [call EXCEPT ![c].pc = "install", ![c].dek = key.dek]
    BY <1>3 DEF TakeOpen
  <2> HIDE DEF key
  <2>3. CallsOk /\ n' = n
    BY DEF TakeOpen, TypeInv
  <2>4. call'[c] = KeyedOf(call[c], "install", key.dek) /\ call' = [call EXCEPT ![c] = call'[c]]
    BY <2>2, <2>3 DEF KeyedOf, CallsOk
  <2>5. CallT(call[c], n.deks)
    BY <2>3 DEF CallsOk
  <2>6. PICK q : q = call'[c]
    OBVIOUS
  <2>7. PICK r : r = call[c]
    OBVIOUS
  <2>8. /\ Shaped(q) /\ q.op = r.op /\ q.pc = "install" /\ q.dek = key.dek /\ q.todo = r.todo
        /\ q.next = r.next /\ q.env = r.env /\ q.epoch = r.epoch /\ q.db = r.db /\ q.floor = r.floor
    <3>1. Shaped(r) /\ q = KeyedOf(r, "install", key.dek)
      BY <2>4, <2>5, <2>6, <2>7 DEF CallT
    <3> QED BY <3>1, KeyedRec
  <2>9. key.dek \in 0 .. n.deks
    BY <2>1, <2>5 DEF CallT, EnvT
  <2>10. q.pc \in SdkPcs
    BY <2>8 DEF SdkPcs
  <2>11. CallT(q, n.deks)
    BY <2>5, <2>7, <2>8, <2>9, <2>10 DEF CallT
  <2> QED BY <1>3, <2>2, <2>3, <2>4, <2>6, <2>7, <2>8, <2>11 DEF Touches
<1> QED BY <1>1, <1>2, <1>3

LEMMA TakeOpenT ==
    ASSUME TypeInv, NEW c \in Calls, TakeOpen(c)
    PROVE  TypeInv'
<1>1. busy = {} /\ queue' \in Seq(Calls) /\ call[c].pc \in SdkPcs
  BY TakesFacts DEF TakeOpen
<1>2. UNCHANGED <<idb, anchor, busy, answered, acked, overtaken, n>>
  BY DEF TakeOpen
<1>3. n \in Counters /\ CallsOk /\ sess \in Sessions
  BY DEF TypeInv, RestOk
<1>4. Touches(c) /\ call'[c].pc \in SdkPcs
  <2>1. CASE call' = Return(c)
    BY <1>2, <1>3, <2>1, ReturnTouches, RestFields DEF SdkPcs
  <2>2. CASE Touches(c) /\ call'[c].pc = "install"
    BY <2>2 DEF SdkPcs
  <2> QED BY <2>1, <2>2, TakeOpenCases
<1>5. sess' \in Sessions /\ FilesT(files)' /\ SessOk'
  <2>1. CASE UNCHANGED <<files, sess>>
    BY <1>1, <1>2, <1>3, <2>1 DEF TypeInv, SessOk
  <2>2. CASE files' = Closed /\ sess' = Locked
    <3>1. sess.wrote \subseteq Dbs
      BY <1>3 DEF Sessions
    <3>2. FilesT(files)'
      BY <2>2, <3>1, ClosedT DEF TypeInv
    <3>3. SessOk' /\ sess' \in Sessions
      BY <2>2, LockedT, ClosedSess
    <3> QED BY <3>2, <3>3
  <2> QED BY <2>1, <2>2, TakeOpenCases
<1>6. IdbOk' /\ RestOk' /\ n' \in Counters /\ n'.deks >= n.deks
  <2>1. busy' \in SUBSET Calls
    BY <1>1, <1>2
  <2> QED BY <1>1, <1>2, <1>5, <2>1, WorkRest
<1> QED BY <1>1, <1>2, <1>4, <1>5, <1>6, WorkT, PcFacts

\* The three ways of Install.
LEMMA InstallCases ==
    ASSUME TypeInv, NEW c \in Calls, Install(c)
    PROVE  /\ Touches(c) /\ call'[c].op = call[c].op /\ call'[c].next = call[c].next
           /\ call'[c].env = call[c].env
           /\ \/ files[Intent] = Missing /\ call'[c].pc = "apply"
              \/ /\ files[Intent] \notin {Missing, Partial} /\ files[Intent].dek = sess'.pool
                 /\ call'[c].pc = "swap" /\ call'[c].todo = Work(Dbs)
              \/ /\ files[Intent] # Missing /\ call'[c].pc = "discard"
                 /\ ~(files[Intent] # Partial /\ files[Intent].dek = sess'.pool)
           /\ sess' = [sess EXCEPT !.pool = sess'.pool] /\ sess'.pool \in Nat /\ sess' \in Sessions
           /\ sess.pool # NoDek => sess'.pool = sess.pool
           /\ overtaken' = (overtaken \/ sess'.pool # StoredKey)
<1> DEFINE pool == IF sess.pool = NoDek THEN call[c].dek ELSE sess.pool
<1>1. n \in Counters /\ n' = n /\ CallsOk /\ n.deks \in Nat /\ sess \in Sessions
  BY CountersT DEF TypeInv, RestOk, Install
<1>2. CallT(call[c], n.deks) /\ call[c].dek \in Nat
  <2>1. CallT(call[c], n.deks)
    BY <1>1 DEF CallsOk
  <2>2. call[c].dek \in 0 .. n.deks
    BY <2>1 DEF CallT
  <2> QED BY <1>1, <2>1, <2>2
<1>3. pool \in Nat /\ (sess.pool # NoDek => pool = sess.pool)
  BY <1>1, <1>2 DEF Sessions
<1>4. /\ sess' = [sess EXCEPT !.pool = pool] /\ overtaken' = (overtaken \/ pool # idb.env.mac.key)
      /\ call' = IF files[Intent] = Missing THEN Go(c, "apply")
                 ELSE IF files[Intent] # Partial /\ files[Intent].dek = pool
                      THEN [call EXCEPT ![c].pc = "swap", ![c].todo = Work(files[Intent].dbs)]
                      ELSE Go(c, "discard")
  BY DEF Install
<1> HIDE DEF pool
<1>5. sess'.pool = pool /\ sess' = [sess EXCEPT !.pool = sess'.pool] /\ sess' \in Sessions
  BY <1>1, <1>3, <1>4 DEF Sessions
<1>6. CASE files[Intent] = Missing
  <2>1. call' = Go(c, "apply")
    BY <1>4, <1>6
  <2>2. Touches(c) /\ call'[c].pc = "apply" /\ call'[c].op = call[c].op /\ call'[c].next = call[c].next
        /\ call'[c].env = call[c].env
    BY <1>1, <2>1, GoTouches, PcFacts
  <2> QED BY <1>3, <1>4, <1>5, <1>6, <2>2 DEF StoredKey
<1>7. CASE files[Intent] # Missing /\ files[Intent] # Partial /\ files[Intent].dek = pool
  <2>1. files[Intent].dbs = Dbs
    BY <1>7, FileKinds DEF TypeInv, FilesT
  <2>2. call' = [call EXCEPT ![c].pc = "swap", ![c].todo = Work(Dbs)]
    BY <1>4, <1>7, <2>1
  <2>3. call' = [call EXCEPT ![c] = MoveOf(call[c], "swap", Work(Dbs))]
    BY <1>1, <2>2 DEF MoveOf, CallsOk
  <2>4. Touches(c) /\ call'[c].pc = "swap" /\ call'[c].op = call[c].op /\ call'[c].next = call[c].next
        /\ call'[c].todo = Work(Dbs) /\ call'[c].env = call[c].env
    <3>1. PICK t \in Seq(LiveNames) : t = Work(Dbs)
      BY WorkFacts
    <3>2. call' = [call EXCEPT ![c] = MoveOf(call[c], "swap", t)] /\ "swap" \in BusyPcs \cup SdkPcs
      BY <2>3, <3>1, PcFacts
    <3> QED BY <1>1, <3>1, <3>2, TodoTouches
  <2> QED BY <1>3, <1>4, <1>5, <1>7, <2>4 DEF StoredKey
<1>8. CASE files[Intent] # Missing /\ ~(files[Intent] # Partial /\ files[Intent].dek = pool)
  <2>1. call' = Go(c, "discard")
    BY <1>4, <1>8
  <2>2. Touches(c) /\ call'[c].pc = "discard" /\ call'[c].op = call[c].op /\ call'[c].next = call[c].next
        /\ call'[c].env = call[c].env
    BY <1>1, <2>1, GoTouches, PcFacts
  <2> QED BY <1>3, <1>4, <1>5, <1>8, <2>2 DEF StoredKey
<1> QED BY <1>6, <1>7, <1>8

LEMMA InstallT ==
    ASSUME TypeInv, NEW c \in Calls, Install(c)
    PROVE  TypeInv'
<1>1. /\ busy = {} /\ busy' = {c} /\ UNCHANGED <<idb, files, anchor, queue, answered, acked, n>>
  BY DEF Install
<1>2. n \in Counters /\ n.deks \in Nat /\ sess \in Sessions
  BY CountersT DEF TypeInv, RestOk
<1>3. /\ Touches(c) /\ sess' \in Sessions
      /\ sess'.on = sess.on /\ sess'.open = sess.open /\ sess'.wrote = sess.wrote
      /\ overtaken' \in BOOLEAN
  BY <1>2, InstallCases DEF Sessions
<1>4. sess.on => files[Intent] = Missing
  BY <1>1 DEF TypeInv, SessOk
<1>5. SessOk'
  BY <1>1, <1>3, <1>4 DEF TypeInv, SessOk
<1>6. RunOk(c)' /\ call'[c].pc \in BusyPcs
  <2>1. CASE files[Intent] = Missing /\ call'[c].pc = "apply"
    BY <1>1, <2>1, PcFacts DEF RunOk, StagePcs, SwapPcs
  <2>2. CASE files[Intent] \notin {Missing, Partial} /\ call'[c].pc = "swap"
    BY <1>1, <1>3, <1>4, <2>2, PcFacts DEF RunOk, StagePcs, SwapPcs
  <2>3. CASE files[Intent] # Missing /\ call'[c].pc = "discard"
    BY <1>1, <1>3, <1>4, <2>3, PcFacts DEF RunOk, StagePcs, SwapPcs
  <2> QED BY <2>1, <2>2, <2>3, InstallCases
<1>7. IdbOk' /\ RestOk'
  <2>1. IdbOk'
    BY <1>1, <1>2, IdbKept DEF TypeInv
  <2>2. RestOk'
    BY <1>1, <1>3 DEF TypeInv, RestOk
  <2> QED BY <2>1, <2>2
<1>8. FilesT(files)'
  BY <1>1 DEF TypeInv
<1> QED BY <1>1, <1>2, <1>3, <1>5, <1>6, <1>7, <1>8, WorkT

\* The session is closed while a rotation is recovered, so the files may
\* change under it.
LEMMA RecoverT ==
    ASSUME TypeInv, NEW c \in Calls, busy = {c}, busy' = {c}, ~sess.on, Touches(c), FilesT(files)',
           call'[c].pc \in BusyPcs, anchor' \in Anchors, overtaken' \in BOOLEAN,
           UNCHANGED <<idb, sess, queue, answered, acked, n>>, RunOk(c)'
    PROVE  TypeInv'
<1>1. n \in Counters /\ n.deks \in Nat
  BY CountersT DEF TypeInv, RestOk
<1>2. SessOk'
  BY DEF TypeInv, SessOk
<1>3. IdbOk'
  BY <1>1, IdbKept DEF TypeInv
<1>4. RestOk'
  BY <1>1 DEF TypeInv, RestOk
<1>5. n' \in Counters /\ n'.deks >= n.deks
  BY <1>1
<1> QED BY <1>2, <1>3, <1>4, <1>5, WorkT

LEMMA SwapFileT ==
    ASSUME TypeInv, NEW c \in Calls, SwapFile(c)
    PROVE  TypeInv'
<1> DEFINE f == Head(call[c].todo)
<1>1. /\ Runs(c, "swap") /\ call[c].todo # <<>>
      /\ UNCHANGED <<idb, anchor, sess, queue, busy, answered, acked, overtaken, n>>
  BY DEF SwapFile
<1>2. /\ busy = {c} /\ call[c].pc = "swap" /\ RunOk(c) /\ n \in Counters /\ CallsOk
      /\ f \in LiveNames /\ Tail(call[c].todo) \in Seq(LiveNames) /\ n.deks \in Nat
  BY <1>1, RunsFacts
<1>3. files[Intent] \notin {Missing, Partial} /\ ~sess.on
  BY <1>2 DEF RunOk, SwapPcs
<1>4. anchor' \in Anchors /\ overtaken' \in BOOLEAN
  BY <1>1 DEF TypeInv, RestOk
<1> HIDE DEF f
<1>5. CASE call' = [call EXCEPT ![c].todo = Tail(@)] /\ UNCHANGED files
  <2>1. call' = [call EXCEPT ![c] = MoveOf(call[c], "swap", Tail(call[c].todo))]
    <3>1. PICK r : r = call[c]
      OBVIOUS
    <3>2. Shaped(r) /\ r.pc = "swap"
      BY <1>2, <3>1 DEF CallsOk, CallT
    <3>3. [r EXCEPT !.pc = "swap"] = r
      BY <3>2 DEF Shaped
    <3>4. MoveOf(r, "swap", Tail(r.todo)) = [r EXCEPT !.todo = Tail(r.todo)]
      BY <3>3 DEF MoveOf
    <3>5. call' = [call EXCEPT ![c] = [r EXCEPT !.todo = Tail(r.todo)]]
      BY <1>2, <1>5, <3>1 DEF CallsOk
    <3> QED BY <3>1, <3>4, <3>5
  <2>2. Touches(c) /\ call'[c].pc = "swap"
    <3>1. PICK p, t : p = "swap" /\ t = Tail(call[c].todo)
      OBVIOUS
    <3>2. /\ CallsOk /\ n' = n /\ p \in BusyPcs \cup SdkPcs /\ t \in Seq(LiveNames)
          /\ call' = [call EXCEPT ![c] = MoveOf(call[c], p, t)]
      BY <1>1, <1>2, <2>1, <3>1, PcFacts
    <3>3. Touches(c) /\ call'[c].pc = p
      BY <3>2, TodoTouches
    <3> QED BY <3>1, <3>3
  <2>3. RunOk(c)'
    BY <1>1, <1>3, <1>5, <2>2 DEF RunOk, StagePcs, SwapPcs
  <2>4. FilesT(files)'
    BY <1>5 DEF TypeInv
  <2> QED BY <1>1, <1>2, <1>3, <1>4, <2>2, <2>3, <2>4, PcFacts, RecoverT
<1>6. CASE /\ files[Shadow(f)] # Missing /\ files' = [files EXCEPT ![f] = Partial]
           /\ call' = Go(c, "swapFill")
  <2>1. Touches(c) /\ call'[c].pc = "swapFill" /\ call'[c].todo = call[c].todo
    BY <1>1, <1>2, <1>6, GoTouches, PcFacts
  <2>2. FilesT(files)'
    BY <1>2, <1>6, WriteLive, FileKinds DEF TypeInv
  <2>3. files'[Shadow(f)] # Missing /\ files'[Intent] = files[Intent]
    BY <1>2, <1>6, NameFacts DEF TypeInv, FilesT
  <2>4. RunOk(c)'
    BY <1>1, <1>3, <2>1, <2>3 DEF RunOk, StagePcs, SwapPcs, f
  <2> QED BY <1>1, <1>2, <1>3, <1>4, <2>1, <2>2, <2>4, PcFacts, RecoverT
<1> QED BY <1>5, <1>6 DEF SwapFile, f

LEMMA SwapFillT ==
    ASSUME TypeInv, NEW c \in Calls, SwapFill(c)
    PROVE  TypeInv'
<1> DEFINE f == Head(call[c].todo)
<1>1. /\ Runs(c, "swapFill") /\ call' = Go(c, "swapDrop") /\ files' = [files EXCEPT ![f] = files[Shadow(f)]]
      /\ UNCHANGED <<idb, anchor, sess, queue, busy, answered, acked, overtaken, n>>
  BY DEF SwapFill
<1>2. /\ busy = {c} /\ call[c].pc = "swapFill" /\ RunOk(c) /\ n \in Counters /\ CallsOk /\ n.deks \in Nat
  BY <1>1, RunsFacts
<1>3. /\ files[Intent] \notin {Missing, Partial} /\ ~sess.on
      /\ call[c].todo # <<>> /\ files[Shadow(f)] # Missing
  BY <1>2 DEF RunOk, SwapPcs
<1>4. anchor' \in Anchors /\ overtaken' \in BOOLEAN
  BY <1>1 DEF TypeInv, RestOk
<1>5. f \in LiveNames
  BY <1>1, <1>3, RunsFacts
<1> HIDE DEF f
<1>6. files[Shadow(f)] \in LiveT
  BY <1>3, <1>5, FileKinds DEF TypeInv, FilesT
<1>7. FilesT(files)'
  BY <1>1, <1>5, <1>6, WriteLive DEF TypeInv
<1>8. files'[Shadow(f)] # Missing /\ files'[Intent] = files[Intent]
  BY <1>1, <1>3, <1>5, NameFacts DEF TypeInv, FilesT
<1>9. Touches(c) /\ call'[c].pc = "swapDrop" /\ call'[c].todo = call[c].todo
  BY <1>1, <1>2, GoTouches, PcFacts
<1>10. RunOk(c)'
  BY <1>1, <1>3, <1>8, <1>9 DEF RunOk, StagePcs, SwapPcs, f
<1> QED BY <1>1, <1>2, <1>3, <1>4, <1>7, <1>9, <1>10, PcFacts, RecoverT

LEMMA SwapDropT ==
    ASSUME TypeInv, NEW c \in Calls, SwapDrop(c)
    PROVE  TypeInv'
<1> DEFINE f == Head(call[c].todo)
<1>1. /\ Runs(c, "swapDrop") /\ files' = [files EXCEPT ![Shadow(f)] = Missing]
      /\ UNCHANGED <<idb, anchor, sess, queue, busy, answered, acked, overtaken, n>>
  BY DEF SwapDrop
<1>2. /\ busy = {c} /\ call[c].pc = "swapDrop" /\ RunOk(c) /\ n \in Counters /\ CallsOk /\ n.deks \in Nat
  BY <1>1, RunsFacts
<1>3. /\ files[Intent] \notin {Missing, Partial} /\ ~sess.on /\ call[c].todo # <<>>
  BY <1>2 DEF RunOk, SwapPcs
<1>4. anchor' \in Anchors /\ overtaken' \in BOOLEAN
  BY <1>1 DEF TypeInv, RestOk
<1>5. f \in LiveNames /\ Tail(call[c].todo) \in Seq(LiveNames)
  BY <1>1, <1>3, RunsFacts
<1> HIDE DEF f
<1>7. FilesT(files)'
  BY <1>1, <1>5, WriteShadow, FileKinds DEF TypeInv
<1>8. files'[Intent] = files[Intent]
  BY <1>1, <1>5, NameFacts DEF TypeInv, FilesT
<1>9. call' = [call EXCEPT ![c] = MoveOf(call[c], "swap", Tail(call[c].todo))]
  BY <1>2 DEF SwapDrop, MoveOf, CallsOk
<1>10. Touches(c) /\ call'[c].pc = "swap"
  BY <1>1, <1>2, <1>5, <1>9, TodoTouches, PcFacts
<1>11. RunOk(c)'
  BY <1>1, <1>3, <1>8, <1>10 DEF RunOk, StagePcs, SwapPcs
<1> QED BY <1>1, <1>2, <1>3, <1>4, <1>7, <1>10, <1>11, PcFacts, RecoverT

LEMMA AnchorRecordT ==
    ASSUME anchor \in Anchors, NEW dek \in Nat, NEW db \in Dbs, NEW g \in Nat, NEW h \in Nat
    PROVE  /\ AnchorRecord(dek, db, g, h) \in Anchors /\ AnchorRecord(dek, db, g, h).dek = dek
           /\ \A e \in Dbs : AnchorRecord(dek, db, g, h).floor[e] =
                IF e = db /\ AnchorLoad(dek).floor[e] < h THEN h ELSE AnchorLoad(dek).floor[e]
<1>1. PICK a : a = AnchorLoad(dek)
  OBVIOUS
<1>2. a \in Anchors /\ a.dek = dek
  BY <1>1, AnchorT
<1>3. a.committed[db] \in Nat /\ a.floor[db] \in Nat /\ \A e \in Dbs : a.floor[e] \in Nat
  BY <1>2 DEF Anchors
<1>4. PICK x \in Nat : x = Max({a.committed[db], g})
  BY <1>3, MaxFacts
<1>5. PICK y \in Nat : y = Max({a.floor[db], h})
  BY <1>3, MaxFacts
<1>6. y = IF a.floor[db] < h THEN h ELSE a.floor[db]
  BY <1>3, <1>5, MaxFacts
<1>7. PICK b : b = [a EXCEPT !.committed = [a.committed EXCEPT ![db] = x]]
  OBVIOUS
<1>8. b \in Anchors /\ b.dek = dek /\ b.floor = a.floor
  BY <1>2, <1>7 DEF Anchors
<1>9. AnchorRecord(dek, db, g, h) = [b EXCEPT !.floor = [a.floor EXCEPT ![db] = y]]
  BY <1>1, <1>2, <1>4, <1>5, <1>7, <1>8 DEF AnchorRecord, Anchors
<1>10. PICK q : q = [b EXCEPT !.floor = [a.floor EXCEPT ![db] = y]]
  OBVIOUS
<1>11. q \in Anchors /\ q.dek = dek /\ q.floor = [a.floor EXCEPT ![db] = y]
  BY <1>8, <1>10 DEF Anchors
<1>12. \A e \in Dbs : q.floor[e] = IF e = db THEN y ELSE a.floor[e]
  BY <1>2, <1>11 DEF Anchors
<1> QED BY <1>1, <1>6, <1>9, <1>10, <1>11, <1>12

\* Nothing of any call changes.
LEMMA SameTouches ==
    ASSUME CallsOk, NEW c \in Calls, call' = call, n' = n
    PROVE  Touches(c)
BY DEF Touches, CallsOk

LEMMA CarryAnchorT ==
    ASSUME TypeInv, NEW c \in Calls, CarryAnchor(c)
    PROVE  TypeInv'
<1>1. /\ Runs(c, "swap")
      /\ UNCHANGED <<idb, files, sess, call, queue, busy, answered, acked, overtaken, n>>
  BY DEF CarryAnchor
<1>2. /\ busy = {c} /\ call[c].pc = "swap" /\ RunOk(c) /\ n \in Counters /\ CallsOk
  BY <1>1, RunsFacts
<1>3. files[Intent] \notin {Missing, Partial} /\ ~sess.on
  BY <1>2 DEF RunOk, SwapPcs
<1>4. anchor' \in Anchors
  <2>1. PICK db \in Uncarried :
         anchor' = AnchorRecord(sess.pool, db, files[Intent].committed[db], files[Intent].floor[db])
    BY DEF CarryAnchor
  <2>2. db \in Dbs
    BY DEF Uncarried
  <2>3. files[Intent].committed \in [Dbs -> Nat] /\ files[Intent].floor \in [Dbs -> Nat]
    BY <1>3, FileKinds DEF TypeInv, FilesT
  <2>4. anchor \in Anchors /\ sess.pool \in Nat
    BY DEF TypeInv, RestOk, Sessions
  <2>5. files[Intent].committed[db] \in Nat /\ files[Intent].floor[db] \in Nat
    BY <2>2, <2>3
  <2> QED BY <2>1, <2>2, <2>4, <2>5, AnchorRecordT
<1>5. overtaken' \in BOOLEAN
  BY <1>1 DEF TypeInv, RestOk
<1>6. Touches(c)
  BY <1>1, <1>2, SameTouches
<1>7. RunOk(c)' /\ FilesT(files)' /\ call'[c].pc \in BusyPcs
  BY <1>1, <1>2, PcFacts DEF RunOk, TypeInv
<1> QED BY <1>1, <1>2, <1>3, <1>4, <1>5, <1>6, <1>7, RecoverT

LEMMA DropIntentT ==
    ASSUME TypeInv, NEW c \in Calls, DropIntent(c)
    PROVE  TypeInv'
<1>1. /\ Runs(c, "swap") /\ files' = [files EXCEPT ![Intent] = Missing] /\ call' = Go(c, "apply")
      /\ UNCHANGED <<idb, anchor, sess, queue, busy, answered, acked, overtaken, n>>
  BY DEF DropIntent
<1>2. /\ busy = {c} /\ call[c].pc = "swap" /\ RunOk(c) /\ n \in Counters /\ CallsOk /\ n.deks \in Nat
  BY <1>1, RunsFacts
<1>3. ~sess.on
  BY <1>2 DEF RunOk, SwapPcs
<1>4. anchor' \in Anchors /\ overtaken' \in BOOLEAN
  BY <1>1 DEF TypeInv, RestOk
<1>5. FilesT(files)' /\ files'[Intent] = Missing
  BY <1>1, WriteIntent, FileKinds, NameFacts DEF TypeInv, FilesT
<1>6. Touches(c) /\ call'[c].pc = "apply"
  BY <1>1, <1>2, GoTouches, PcFacts
<1>7. RunOk(c)'
  BY <1>5, <1>6 DEF RunOk, StagePcs, SwapPcs
<1> QED BY <1>1, <1>2, <1>3, <1>4, <1>5, <1>6, <1>7, PcFacts, RecoverT

LEMMA WriteStaging ==
    ASSUME FilesT(files), NEW f \in Staging
    PROVE  /\ FilesT([files EXCEPT ![f] = Missing])
           /\ f = Intent \/ \E x \in LiveNames : f = Shadow(x)
           /\ f \in Names /\ files[f] # Missing
<1>1. f \in Names /\ (f = Intent \/ f[1] = "shadow") /\ files[f] # Missing
  BY DEF Staging
<1>2. f = Intent \/ \E x \in LiveNames : f = Shadow(x)
  BY <1>1, NameFacts, StagingFacts
<1>3. CASE f = Intent
  BY <1>1, <1>2, <1>3, WriteIntent, FileKinds
<1>4. CASE \E x \in LiveNames : f = Shadow(x)
  <2>1. PICK x \in LiveNames : f = Shadow(x)
    BY <1>4
  <2> QED BY <1>1, <1>2, <2>1, WriteShadow, FileKinds
<1> QED BY <1>2, <1>3, <1>4

LEMMA DiscardT ==
    ASSUME TypeInv, NEW c \in Calls, Discard(c)
    PROVE  TypeInv'
<1>1. /\ Runs(c, "discard") /\ UNCHANGED <<idb, anchor, sess, queue, busy, answered, acked, n>>
      /\ overtaken' \in BOOLEAN
  BY DEF Discard
<1>2. /\ busy = {c} /\ call[c].pc = "discard" /\ RunOk(c) /\ n \in Counters /\ CallsOk /\ n.deks \in Nat
  BY <1>1, RunsFacts
<1>3. ~sess.on
  BY <1>2 DEF RunOk, SwapPcs
<1>4. anchor' \in Anchors
  BY <1>1 DEF TypeInv, RestOk
<1>5. PICK f \in Staging : /\ files' = [files EXCEPT ![f] = Missing]
                           /\ call' = IF Staging = {f} THEN Go(c, "apply") ELSE call
  BY DEF Discard
<1>6. FilesT(files)'
  BY <1>5, WriteStaging DEF TypeInv
<1>7. CASE call' = call
  <2>1. Touches(c) /\ call'[c].pc = "discard"
    BY <1>1, <1>2, <1>7, SameTouches
  <2>2. RunOk(c)'
    BY <1>1, <1>2, <2>1 DEF RunOk, StagePcs, SwapPcs
  <2> QED BY <1>1, <1>2, <1>3, <1>4, <1>6, <2>1, <2>2, PcFacts, RecoverT
<1>8. CASE Staging = {f} /\ call' = Go(c, "apply")
  <2>1. Touches(c) /\ call'[c].pc = "apply"
    BY <1>1, <1>2, <1>8, GoTouches, PcFacts
  <2>2. files'[Intent] = Missing
    <3>1. CASE f = Intent
      BY <1>5, <3>1, NameFacts DEF TypeInv, FilesT
    <3>2. CASE f # Intent
      <4>1. Intent \notin Staging
        BY <1>8, <3>2
      <4>2. files[Intent] = Missing
        BY <4>1, NameFacts DEF Staging
      <4> QED BY <1>5, <3>2, <4>2, NameFacts DEF TypeInv, FilesT
    <3> QED BY <3>1, <3>2
  <2>3. RunOk(c)'
    BY <2>1, <2>2 DEF RunOk, StagePcs, SwapPcs
  <2> QED BY <1>1, <1>2, <1>3, <1>4, <1>6, <2>1, <2>3, PcFacts, RecoverT
<1> QED BY <1>5, <1>7, <1>8

LEMMA ApplyEpochT ==
    ASSUME TypeInv, NEW c \in Calls, ApplyEpoch(c)
    PROVE  TypeInv'
<1>1. /\ Runs(c, "apply") /\ call' = Return(c) /\ busy' = {}
      /\ UNCHANGED <<idb, files, queue, answered, acked, n>> /\ overtaken' \in BOOLEAN
  BY DEF ApplyEpoch
<1>2. /\ busy = {c} /\ call[c].pc = "apply" /\ RunOk(c) /\ n \in Counters /\ CallsOk /\ n.deks \in Nat
      /\ CallT(call[c], n.deks)
  BY <1>1, RunsFacts
<1>3. files[Intent] = Missing
  BY <1>2 DEF RunOk
<1>4. sess \in Sessions /\ anchor \in Anchors /\ sess.pool \in Nat
  BY DEF TypeInv, RestOk, Sessions
<1> DEFINE t  == call[c].epoch
           on == [sess EXCEPT !.on = TRUE, !.open = {}, !.wrote = {}, !.leaked = @ \cup sess.open]
<1>5. t \in Tokens
  BY <1>2 DEF CallT
<1>6. on \in Sessions /\ on.open = {} /\ on.wrote = {}
  <2>1. on = [on |-> TRUE, pool |-> sess.pool, open |-> {}, wrote |-> {}, leaked |-> sess.leaked \cup sess.open]
    <3>1. PICK s1 : s1 = [sess EXCEPT !.on = TRUE]
      OBVIOUS
    <3>2. PICK s2 : s2 = [s1 EXCEPT !.open = {}]
      OBVIOUS
    <3>3. PICK s3 : s3 = [s2 EXCEPT !.wrote = {}]
      OBVIOUS
    <3>4. on = [s3 EXCEPT !.leaked = @ \cup sess.open]
      BY <3>1, <3>2, <3>3
    <3> HIDE DEF on
    <3>5. s1 = [on |-> TRUE, pool |-> sess.pool, open |-> sess.open, wrote |-> sess.wrote,
                leaked |-> sess.leaked]
      BY <1>4, <3>1 DEF Sessions
    <3>6. s2 = [on |-> TRUE, pool |-> sess.pool, open |-> {}, wrote |-> sess.wrote,
                leaked |-> sess.leaked]
      BY <3>2, <3>5
    <3>7. s3 = [on |-> TRUE, pool |-> sess.pool, open |-> {}, wrote |-> {}, leaked |-> sess.leaked]
      BY <3>3, <3>6
    <3> QED BY <3>4, <3>7
  <2> HIDE DEF on
  <2> QED BY <1>4, <2>1 DEF Sessions
<1>7. anchor' \in Anchors /\ sess' \in {on, sess, [sess EXCEPT !.pool = NoDek]}
  <2>1. CASE anchor' = anchor /\ sess' \in {on, sess}
    BY <1>4, <2>1
  <2>2. CASE /\ anchor' = AnchorRecord(sess.pool, t.db, t.gen, t.gen)
             /\ sess' \in {on, sess, [sess EXCEPT !.pool = NoDek]}
    <3>1. t.db \in Dbs /\ t.gen \in Nat
      BY <1>5 DEF Tokens
    <3> QED BY <1>4, <2>2, <3>1, AnchorRecordT
  <2> QED BY <2>1, <2>2 DEF ApplyEpoch
<1> HIDE DEF on, t
<1>8. sess' \in Sessions /\ SessOk'
  <2>1. CASE sess' = on
    BY <1>1, <1>3, <1>6, <2>1 DEF SessOk
  <2>2. CASE sess' = sess
    BY <1>1, <1>3, <1>4, <2>2 DEF TypeInv, SessOk
  <2>3. CASE sess' = [sess EXCEPT !.pool = NoDek]
    <3>1. sess' \in Sessions /\ sess'.on = sess.on /\ sess'.open = sess.open /\ sess'.wrote = sess.wrote
      BY <1>4, <2>3 DEF Sessions, NoDek
    <3> QED BY <1>1, <1>3, <3>1 DEF TypeInv, SessOk
  <2> QED BY <1>7, <2>1, <2>2, <2>3
<1>9. Touches(c) /\ call'[c].pc = "idle"
  BY <1>1, <1>2, ReturnTouches, RestFields
<1>10. call'[c].pc \notin BusyPcs
  BY <1>9 DEF BusyPcs, StagePcs, SwapPcs
<1>11. IdbOk'
  BY <1>1, <1>2, IdbKept DEF TypeInv
<1>12. RestOk'
  BY <1>1, <1>2, <1>7, <1>8 DEF TypeInv, RestOk
<1>13. FilesT(files)' /\ n' \in Counters /\ n'.deks >= n.deks
  BY <1>1, <1>2 DEF TypeInv
<1> QED BY <1>1, <1>2, <1>8, <1>9, <1>10, <1>11, <1>12, <1>13, WorkT

-----------------------------------------------------------------------------
(* SQL. *)

LEMMA JournalFacts ==
    ASSUME NEW d \in Nat, NEW p \in Nat
    PROVE  /\ Journal(d, TRUE, p) \in JrnlT /\ Journal(d, TRUE, p) # Missing
           /\ Journal(d, TRUE, p).hot /\ Journal(d, TRUE, p).dek = d /\ Journal(d, TRUE, p).pre = p
           /\ Journal(d, FALSE, p) \in JrnlT /\ Journal(d, FALSE, p) # Missing
           /\ ~Journal(d, FALSE, p).hot /\ Journal(d, FALSE, p).dek = d /\ Journal(d, FALSE, p).pre = p
<1>1. \A q \in BOOLEAN : /\ Journal(d, q, p) \in JrnlT /\ Journal(d, q, p) # Missing
                         /\ Journal(d, q, p).hot = q
                         /\ Journal(d, q, p).dek = d /\ Journal(d, q, p).pre = p
  BY FileKinds
<1>2. TRUE \in BOOLEAN /\ FALSE \in BOOLEAN
  OBVIOUS
<1> QED BY <1>1, <1>2, Zenon

LEMMA SetVer ==
    ASSUME NEW v \in LiveT, v # Partial, NEW p \in Nat
    PROVE  [v EXCEPT !.ver = p] = File(v.dek, p) /\ v.dek \in Nat
BY DEF LiveT, File

LEMMA SetHot ==
    ASSUME NEW v \in JrnlT, v # Missing
    PROVE  /\ [v EXCEPT !.hot = FALSE] = Journal(v.dek, FALSE, v.pre)
           /\ v.dek \in Nat /\ v.pre \in Nat
<1>1. v.dek \in Nat /\ v.pre \in Nat /\ v = Journal(v.dek, v.hot, v.pre)
  BY FileKinds
<1>2. \A d, h, p, q : [Journal(d, h, p) EXCEPT !.hot = q] = Journal(d, q, p)
  BY DEF Journal
<1>3. [Journal(v.dek, v.hot, v.pre) EXCEPT !.hot = FALSE] = Journal(v.dek, FALSE, v.pre)
  <2>1. PICK q : q = FALSE
    OBVIOUS
  <2>2. [Journal(v.dek, v.hot, v.pre) EXCEPT !.hot = q] = Journal(v.dek, q, v.pre)
    BY <1>2
  <2> QED BY <2>1, <2>2, Zenon
<1> QED BY <1>1, <1>3, Zenon

\* Two files of a database change in one step.
Writes2(f, g, db, v, w) == g = [f EXCEPT ![Main(db)] = v, ![Jrnl(db)] = w]

LEMMA TwoWrites ==
    ASSUME NEW f, FilesT(f), NEW db \in Dbs, NEW v \in LiveT, NEW w \in JrnlT, NEW g,
           Writes2(f, g, db, v, w)
    PROVE  /\ FilesT(g) /\ g[Main(db)] = v /\ g[Jrnl(db)] = w
           /\ \A x \in Names : x \notin {Main(db), Jrnl(db)} => g[x] = f[x]
<1>1. PICK m : m = [f EXCEPT ![Main(db)] = v]
  OBVIOUS
<1>2. FilesT(m)
  BY <1>1, WriteLive, NameFacts
<1>3. g = [m EXCEPT ![Jrnl(db)] = w]
  BY <1>1 DEF Writes2
<1>4. FilesT(g)
  BY <1>2, <1>3, WriteJrnl
<1>5. Main(db) # Jrnl(db) /\ Main(db) \in Names /\ Jrnl(db) \in Names
  BY NameFacts
<1>6. DOMAIN f = Names
  BY DEF FilesT
<1> QED BY <1>1, <1>3, <1>4, <1>5, <1>6

\* Opening a database: its files stay as they are.
Opens(c, db) ==
    /\ db \notin sess.open /\ Serves(files, sess.pool, db, files[Mani(db)].ver)
    /\ Fresh(sess.pool, db)
    /\ sess' = [sess EXCEPT !.open = @ \cup {db}]
    /\ anchor' = AnchorRecord(sess.pool, db, files[Mani(db)].ver, 0)

LEMMA TakeSqlCases ==
    ASSUME TypeInv, NEW c \in Calls, TakeSql(c)
    PROVE  /\ UNCHANGED files
           /\ \/ call' = Return(c) /\ UNCHANGED <<anchor, sess, busy>>
              \/ /\ sess.on /\ sess.pool # NoDek /\ call' = Go(c, "ready") /\ busy' = {c}
                 /\ \/ call[c].db \in sess.open /\ UNCHANGED <<anchor, sess>>
                    \/ Opens(c, call[c].db)
<1> DEFINE db == call[c].db
           no == \/ ~sess.on \/ sess.pool = NoDek
                 \/ (db \notin sess.open /\
                     ~(Serves(files, sess.pool, db, files[Mani(db)].ver) /\ Fresh(sess.pool, db)))
<1>1. CASE no
  BY <1>1 DEF TakeSql
<1>2. CASE ~no /\ db \in sess.open
  BY <1>2 DEF TakeSql
<1>3. CASE ~no /\ db \notin sess.open
  <2>1. /\ sess.on /\ sess.pool # NoDek /\ call' = Go(c, "ready") /\ busy' = {c}
        /\ sess' = [sess EXCEPT !.open = @ \cup {db}]
        /\ anchor' = AnchorRecord(sess.pool, db, files[Mani(db)].ver, 0)
        /\ files' = files
    BY <1>3 DEF TakeSql
  <2>2. Serves(files, sess.pool, db, files[Mani(db)].ver) /\ Fresh(sess.pool, db)
    BY <1>3
  <2> QED BY <1>3, <2>1, <2>2 DEF Opens
<1> QED BY <1>1, <1>2, <1>3

\* What opening leaves in the session and the anchor.
LEMMA OpensT ==
    ASSUME TypeInv, NEW c \in Calls, NEW db \in Dbs, Opens(c, db)
    PROVE  /\ anchor' \in Anchors /\ sess' \in Sessions
           /\ sess'.open = sess.open \cup {db} /\ sess'.on = sess.on /\ sess'.wrote = sess.wrote
           /\ sess'.pool = sess.pool /\ sess'.leaked = sess.leaked
           /\ files[Main(db)].is = "file" /\ files[Mani(db)].is = "file"
           /\ files[Mani(db)].ver \in Nat
<1>1. files[Main(db)].is = "file" /\ files[Mani(db)].is = "file"
  BY DEF Opens, Serves
<1>2. files[Mani(db)] \in LiveT
  BY NameFacts DEF TypeInv, FilesT
<1>3. files[Mani(db)].ver \in Nat
  BY <1>1, <1>2, FileKinds
<1>4. sess \in Sessions /\ anchor \in Anchors /\ sess.pool \in Nat
  BY DEF TypeInv, RestOk, Sessions
<1>5. anchor' \in Anchors
  BY <1>3, <1>4, AnchorRecordT DEF Opens
<1>6. /\ sess' \in Sessions /\ sess'.open = sess.open \cup {db} /\ sess'.on = sess.on
      /\ sess'.wrote = sess.wrote /\ sess'.pool = sess.pool /\ sess'.leaked = sess.leaked
  BY <1>4 DEF Opens, Sessions
<1> QED BY <1>1, <1>3, <1>5, <1>6

LEMMA TakeSqlT ==
    ASSUME TypeInv, NEW c \in Calls, TakeSql(c)
    PROVE  TypeInv'
<1>1. busy = {} /\ queue' \in Seq(Calls) /\ call[c].pc \in SdkPcs
  BY TakesFacts DEF TakeSql
<1>2. UNCHANGED <<idb, files, answered, acked, overtaken, n>>
  BY DEF TakeSql
<1>3. n \in Counters /\ CallsOk /\ n.deks \in Nat /\ sess \in Sessions
  BY CountersT DEF TypeInv, RestOk
<1>4. CASE call' = Return(c) /\ UNCHANGED <<anchor, sess, busy>>
  <2>1. Touches(c) /\ call'[c].pc \in SdkPcs
    BY <1>2, <1>3, <1>4, ReturnTouches, RestFields DEF SdkPcs
  <2>2. IdbOk' /\ RestOk'
    <3>1. sess' \in Sessions /\ busy' \in SUBSET Calls
      BY <1>3, <1>4 DEF TypeInv, RestOk
    <3> QED BY <1>1, <1>2, <1>4, <3>1, WorkRest
  <2> QED BY <1>1, <1>2, <1>4, <2>1, <2>2, TailT
<1>5. CASE /\ sess.on /\ call' = Go(c, "ready") /\ busy' = {c}
           /\ \/ call[c].db \in sess.open /\ UNCHANGED <<anchor, sess>>
              \/ Opens(c, call[c].db)
  <2>1. Touches(c) /\ call'[c].pc = "ready" /\ call'[c].db = call[c].db
    BY <1>2, <1>3, <1>5, GoTouches, PcFacts
  <2>2. call[c].db \in Dbs
    BY <1>3 DEF CallsOk, CallT
  <2>3. PICK db \in Dbs : db = call[c].db
    BY <2>2
  <2>4. files[Intent] = Missing /\ sess.wrote \subseteq sess.open
        /\ \A e \in sess.open : files[Main(e)].is = "file" /\ files[Mani(e)].is = "file"
    BY <1>1, <1>5 DEF TypeInv, SessOk
  <2>5. /\ FilesT(files)' /\ anchor' \in Anchors /\ sess' \in Sessions /\ sess'.on
        /\ sess'.wrote = sess.wrote /\ db \in sess'.open /\ sess.open \subseteq sess'.open
        /\ files'[Intent] = Missing
        /\ \A e \in sess'.open : files'[Main(e)].is = "file" /\ files'[Mani(e)].is = "file"
    <3>1. FilesT(files)' /\ files'[Intent] = Missing
      BY <1>2, <2>4 DEF TypeInv
    <3>2. CASE db \in sess.open /\ UNCHANGED <<anchor, sess>>
      <4>1. anchor' \in Anchors /\ sess' = sess /\ files' = files
        BY <1>2, <3>2 DEF TypeInv, RestOk
      <4>2. sess'.on /\ sess' \in Sessions /\ sess'.wrote = sess.wrote /\ db \in sess'.open
            /\ sess.open \subseteq sess'.open
        BY <1>3, <1>5, <3>2, <4>1
      <4>3. \A e \in sess'.open : files'[Main(e)].is = "file" /\ files'[Mani(e)].is = "file"
        BY <2>4, <4>1
      <4> QED BY <3>1, <4>1, <4>2, <4>3
    <3>3. CASE Opens(c, db)
      <4>1. /\ anchor' \in Anchors /\ sess' \in Sessions /\ sess'.open = sess.open \cup {db}
            /\ sess'.on = sess.on /\ sess'.wrote = sess.wrote
            /\ files[Main(db)].is = "file" /\ files[Mani(db)].is = "file" /\ files' = files
        BY <1>2, <3>3, OpensT
      <4>2. sess'.on
        BY <1>5, <4>1
      <4>3. \A e \in sess'.open : files'[Main(e)].is = "file" /\ files'[Mani(e)].is = "file"
        BY <2>4, <4>1
      <4> QED BY <3>1, <4>1, <4>2, <4>3
    <3> QED BY <1>5, <2>3, <3>2, <3>3
  <2>6. SessOk'
    BY <2>4, <2>5 DEF SessOk
  <2>7. RunOk(c)'
    BY <2>1, <2>3, <2>5 DEF RunOk, StagePcs, SwapPcs
  <2>8. RestOk'
    BY <1>1, <1>2, <1>5, <2>5 DEF TypeInv, RestOk
  <2>9. IdbOk'
    BY <1>2, <1>3, IdbKept DEF TypeInv
  <2>10. n' \in Counters /\ n'.deks >= n.deks
    BY <1>2, <1>3
  <2> QED BY <1>1, <1>5, <2>1, <2>5, <2>6, <2>7, <2>8, <2>9, <2>10, PcFacts, WorkT
<1> QED BY <1>4, <1>5, TakeSqlCases

\* A statement ends.
LEMMA SqlReadT ==
    ASSUME TypeInv, NEW c \in Calls, SqlRead(c)
    PROVE  TypeInv'
<1>1. Runs(c, "ready") /\ Fails(c) /\ UNCHANGED <<idb, anchor, queue, answered, acked, overtaken, n>>
  BY DEF SqlRead, Fails
<1>2. busy = {c} /\ ~At(c, "intentFill")
  BY <1>1 DEF Runs, At
<1> QED BY <1>1, <1>2, FailsT

\* The database a statement works on.
LEMMA SqlFacts ==
    ASSUME TypeInv, NEW c \in Calls, Runs(c, "ready") \/ Runs(c, "commit")
    PROVE  /\ busy = {c} /\ call[c].db \in Dbs /\ sess.on /\ call[c].db \in sess.open
           /\ files[Intent] = Missing /\ sess \in Sessions /\ n \in Counters /\ CallsOk
           /\ n.deks \in Nat /\ sess.pool \in Nat /\ anchor \in Anchors
           /\ \A e \in sess.open : /\ files[Main(e)] \in LiveT /\ files[Main(e)] # Partial
                                   /\ files[Mani(e)] \in LiveT /\ files[Mani(e)] # Partial
           /\ files[Jrnl(call[c].db)] \in JrnlT
<1>1. busy = {c} /\ call[c].pc \in {"ready", "commit"} /\ RunOk(c)
  BY DEF Runs, At, TypeInv
<1>2. sess \in Sessions /\ n \in Counters /\ CallsOk /\ anchor \in Anchors
  BY DEF TypeInv, RestOk
<1>3. call[c].db \in Dbs /\ sess.pool \in Nat /\ sess.open \subseteq Dbs
  BY <1>2 DEF CallsOk, CallT, Sessions
<1>4. sess.on /\ call[c].db \in sess.open
  BY <1>1 DEF RunOk
<1>5. files[Intent] = Missing /\ \A e \in sess.open : files[Main(e)].is = "file" /\ files[Mani(e)].is = "file"
  BY <1>1, <1>4 DEF TypeInv, SessOk, At
<1>6. ASSUME NEW e \in sess.open
      PROVE  /\ files[Main(e)] \in LiveT /\ files[Main(e)] # Partial
             /\ files[Mani(e)] \in LiveT /\ files[Mani(e)] # Partial
  <2>1. files[Main(e)] \in LiveT /\ files[Mani(e)] \in LiveT
    BY <1>3, NameFacts DEF TypeInv, FilesT
  <2> QED BY <1>5, <2>1, FileKinds
<1>7. files[Jrnl(call[c].db)] \in JrnlT
  BY <1>3 DEF TypeInv, FilesT
<1>8. n.deks \in Nat
  BY <1>2, CountersT
<1> QED BY <1>1, <1>2, <1>3, <1>4, <1>5, <1>6, <1>7, <1>8

\* A transaction's first write.
LEMMA SqlBeginCases ==
    ASSUME TypeInv, NEW c \in Calls, SqlBegin(c)
    PROVE  \/ Fails(c) /\ UNCHANGED n
           \/ /\ HasRoom(Jrnl(call[c].db))
              /\ Writes2(files, files', call[c].db, File(files[Main(call[c].db)].dek, Mid),
                         Journal(sess.pool, TRUE, files[Main(call[c].db)].ver))
              /\ sess' = [sess EXCEPT !.wrote = @ \cup {call[c].db}]
              /\ call' = Go(c, "commit") /\ n' = [n EXCEPT !.writes = @ + 1] /\ UNCHANGED busy
<1> DEFINE db == call[c].db
           w == Journal(sess.pool, TRUE, files[Main(db)].ver)
<1>1. CASE ~HasRoom(Jrnl(db))
  BY <1>1 DEF SqlBegin
<1>2. CASE HasRoom(Jrnl(db))
  <2>1. /\ files' = [files EXCEPT ![Jrnl(db)] = w, ![Main(db)].ver = Mid]
        /\ sess' = [sess EXCEPT !.wrote = @ \cup {db}]
        /\ call' = Go(c, "commit") /\ n' = [n EXCEPT !.writes = @ + 1] /\ UNCHANGED busy
    BY <1>2 DEF SqlBegin
  <2> HIDE DEF w
  <2>2. db \in Dbs /\ files[Main(db)] \in LiveT /\ files[Main(db)] # Partial
    BY SqlFacts DEF SqlBegin
  <2>3. [files[Main(db)] EXCEPT !.ver = Mid] = File(files[Main(db)].dek, Mid)
    BY <2>2, SetVer DEF Mid
  <2>4. Main(db) # Jrnl(db) /\ Main(db) \in Names /\ Jrnl(db) \in Names /\ DOMAIN files = Names
    BY <2>2, NameFacts DEF TypeInv, FilesT
  <2>5. PICK a : a = files[Main(db)]
    OBVIOUS
  <2>6. files' = [files EXCEPT ![Jrnl(db)] = w, ![Main(db)] = [a EXCEPT !.ver = Mid]]
    BY <2>1, <2>4, <2>5
  <2>7. PICK b : b = [a EXCEPT !.ver = Mid]
    OBVIOUS
  <2>8. files' = [files EXCEPT ![Main(db)] = b, ![Jrnl(db)] = w]
    BY <2>4, <2>6, <2>7
  <2>9. Writes2(files, files', db, File(files[Main(db)].dek, Mid), w)
    BY <2>3, <2>5, <2>7, <2>8 DEF Writes2
  <2> QED BY <1>2, <2>1, <2>9 DEF w
<1> QED BY <1>1, <1>2

Begins(c) ==
    /\ HasRoom(Jrnl(call[c].db))
    /\ Writes2(files, files', call[c].db, File(files[Main(call[c].db)].dek, Mid),
               Journal(sess.pool, TRUE, files[Main(call[c].db)].ver))
    /\ sess' = [sess EXCEPT !.wrote = @ \cup {call[c].db}]
    /\ call' = Go(c, "commit") /\ n' = [n EXCEPT !.writes = @ + 1] /\ UNCHANGED busy

LEMMA BeginsT ==
    ASSUME TypeInv, NEW c \in Calls, Runs(c, "ready"), Begins(c), NEW db, db = call[c].db
    PROVE  /\ FilesT(files)' /\ sess' \in Sessions
           /\ sess'.on = sess.on /\ sess'.pool = sess.pool /\ sess'.open = sess.open
           /\ sess'.wrote = sess.wrote \cup {db} /\ sess'.leaked = sess.leaked
           /\ \A x \in Names : x \notin {Main(db), Jrnl(db)} => files'[x] = files[x]
           /\ files'[Main(db)] = File(files[Main(db)].dek, Mid)
           /\ files'[Main(db)].is = "file" /\ files'[Main(db)].dek = files[Main(db)].dek
           /\ files'[Jrnl(db)] # Missing /\ files'[Jrnl(db)].dek = sess.pool
           /\ files'[Jrnl(db)].hot /\ files'[Jrnl(db)].pre = files[Main(db)].ver
<1> DEFINE a == files[Main(db)].dek
           p == files[Main(db)].ver
           v == File(a, Mid)
           w == Journal(sess.pool, TRUE, p)
<1>1. /\ db \in Dbs /\ sess \in Sessions /\ sess.pool \in Nat
      /\ files[Main(db)] \in LiveT /\ files[Main(db)] # Partial
  BY SqlFacts
<1>2. a \in Nat /\ p \in Nat /\ Mid \in Nat
  BY <1>1, FileKinds DEF Mid
<1>3. v \in LiveT /\ v.is = "file" /\ v.dek = a
  BY <1>2, FileKinds
<1>4. w \in JrnlT /\ w # Missing /\ w.dek = sess.pool /\ w.hot /\ w.pre = p
  <2>1. PICK k, m : k = sess.pool /\ m = p
    OBVIOUS
  <2>2. /\ Journal(k, TRUE, m) \in JrnlT /\ Journal(k, TRUE, m) # Missing
        /\ Journal(k, TRUE, m).hot /\ Journal(k, TRUE, m).dek = k /\ Journal(k, TRUE, m).pre = m
    <3>1. k \in Nat /\ m \in Nat
      BY <1>1, <1>2, <2>1
    <3> HIDE DEF w, v, a, p
    <3> QED BY <3>1, JournalFacts
  <2> QED BY <2>1, <2>2, Zenon
<1>5. Writes2(files, files', db, v, w)
  BY DEF Begins
<1> HIDE DEF v, w, a, p
<1>6. /\ FilesT(files') /\ files'[Main(db)] = v /\ files'[Jrnl(db)] = w
      /\ \A x \in Names : x \notin {Main(db), Jrnl(db)} => files'[x] = files[x]
  <2>1. FilesT(files)
    BY DEF TypeInv
  <2> QED BY <1>1, <1>3, <1>4, <1>5, <2>1, TwoWrites
<1>7. /\ sess' \in Sessions
      /\ sess'.on = sess.on /\ sess'.pool = sess.pool /\ sess'.open = sess.open
      /\ sess'.wrote = sess.wrote \cup {db} /\ sess'.leaked = sess.leaked
  <2>1. sess' = [sess EXCEPT !.wrote = @ \cup {db}]
    BY DEF Begins
  <2> QED BY <1>1, <2>1 DEF Sessions
<1> QED BY <1>3, <1>4, <1>6, <1>7 DEF FilesT, v, a, p

LEMMA SqlBeginT ==
    ASSUME TypeInv, NEW c \in Calls, SqlBegin(c)
    PROVE  TypeInv'
<1>1. Runs(c, "ready") /\ UNCHANGED <<idb, anchor, queue, answered, acked, overtaken>>
  BY DEF SqlBegin
<1>2. CASE Fails(c) /\ UNCHANGED n
  <2>1. busy = {c} /\ ~At(c, "intentFill")
    BY <1>1 DEF Runs, At
  <2> QED BY <1>1, <1>2, <2>1, FailsT
<1>3. CASE Begins(c)
  <2>1. PICK db : db = call[c].db
    OBVIOUS
  <2>2. /\ busy = {c} /\ db \in Dbs /\ sess.on /\ db \in sess.open /\ files[Intent] = Missing
        /\ n \in Counters /\ CallsOk /\ n.deks \in Nat
    BY <1>1, <2>1, SqlFacts
  <2>3. /\ FilesT(files)' /\ sess' \in Sessions /\ sess'.on = sess.on /\ sess'.open = sess.open
        /\ sess'.wrote = sess.wrote \cup {db}
        /\ \A x \in Names : x \notin {Main(db), Jrnl(db)} => files'[x] = files[x]
        /\ files'[Main(db)].is = "file" /\ files'[Jrnl(db)] # Missing
    BY <1>1, <1>3, <2>1, BeginsT
  <2>4. /\ n' \in Counters /\ n'.deks = n.deks /\ call' = Go(c, "commit") /\ busy' = busy
    BY <1>3, <2>2, CountersT DEF Begins
  <2>5. Touches(c) /\ call'[c].pc = "commit" /\ call'[c].db = db
    BY <2>1, <2>2, <2>4, GoTouches, PcFacts
  <2>6. files'[Intent] = Missing
    BY <2>2, <2>3, NameFacts
  <2>7. \A e \in sess'.open : files'[Main(e)].is = "file" /\ files'[Mani(e)].is = "file"
    <3> SUFFICES ASSUME NEW e \in sess'.open
                 PROVE  files'[Main(e)].is = "file" /\ files'[Mani(e)].is = "file"
      OBVIOUS
    <3>1. e \in Dbs /\ e \in sess.open
      BY <2>3 DEF Sessions
    <3>2. files'[Mani(e)] = files[Mani(e)] /\ (e # db => files'[Main(e)] = files[Main(e)])
      BY <2>2, <2>3, <3>1, NameFacts
    <3> QED BY <2>3, <3>1, <3>2 DEF TypeInv, SessOk
  <2>8. SessOk'
    BY <2>2, <2>3, <2>6, <2>7 DEF TypeInv, SessOk
  <2>9. RunOk(c)'
    BY <2>2, <2>3, <2>5 DEF RunOk, StagePcs, SwapPcs
  <2>10. IdbOk' /\ RestOk'
    <3>1. IdbOk'
      BY <1>1, <2>2, <2>4, IdbKept DEF TypeInv
    <3>2. RestOk'
      BY <1>1, <2>3, <2>4 DEF TypeInv, RestOk
    <3> QED BY <3>1, <3>2
  <2>11. n'.deks >= n.deks
    BY <2>2, <2>4
  <2> QED BY <2>2, <2>3, <2>4, <2>5, <2>8, <2>9, <2>10, <2>11, PcFacts, WorkT
<1> QED BY <1>2, <1>3, SqlBeginCases DEF Begins

\* The files after a commit.
LEMMA SqlCommitFiles ==
    ASSUME TypeInv, NEW c \in Calls, SqlCommit(c), NEW db, db = call[c].db,
           NEW ver, ver = files[Jrnl(db)].pre + 1
    PROVE  /\ FilesT(files)' /\ ver \in Nat \ {0} /\ files[Jrnl(db)] # Missing
           /\ \A x \in Names : x \notin {Main(db), Mani(db), Jrnl(db)} => files'[x] = files[x]
           /\ files'[Main(db)] = File(files[Main(db)].dek, ver)
           /\ files'[Mani(db)] = File(files[Mani(db)].dek, ver)
           /\ files'[Main(db)].is = "file" /\ files'[Mani(db)].is = "file"
           /\ files'[Jrnl(db)] # Missing /\ files'[Jrnl(db)].dek = files[Jrnl(db)].dek
           /\ ~files'[Jrnl(db)].hot
<1> DEFINE j == files[Jrnl(db)]
           v == File(files[Main(db)].dek, ver)
           w == Journal(j.dek, FALSE, j.pre)
           u == File(files[Mani(db)].dek, ver)
<1>1. Runs(c, "commit")
  BY DEF SqlCommit
<1>2. /\ busy = {c} /\ db \in Dbs /\ j \in JrnlT
      /\ files[Main(db)] \in LiveT /\ files[Main(db)] # Partial
      /\ files[Mani(db)] \in LiveT /\ files[Mani(db)] # Partial
  BY <1>1, SqlFacts
<1>3. j # Missing
  BY <1>1, <1>2, RunsFacts DEF RunOk
<1>4. j.dek \in Nat /\ j.pre \in Nat /\ [j EXCEPT !.hot = FALSE] = w
  BY <1>2, <1>3, SetHot
<1>5. ver \in Nat \ {0}
  BY <1>4
<1>6. /\ [files[Main(db)] EXCEPT !.ver = ver] = v /\ files[Main(db)].dek \in Nat
      /\ [files[Mani(db)] EXCEPT !.ver = ver] = u /\ files[Mani(db)].dek \in Nat
  BY <1>2, <1>5, SetVer
<1>7. w \in JrnlT /\ w # Missing /\ w.dek = j.dek /\ ~w.hot
  <2>1. PICK k, p : k = j.dek /\ p = j.pre
    OBVIOUS
  <2>2. k \in Nat /\ p \in Nat
    BY <1>4, <2>1
  <2>3. /\ Journal(k, FALSE, p) \in JrnlT /\ Journal(k, FALSE, p) # Missing
        /\ Journal(k, FALSE, p).dek = k /\ ~Journal(k, FALSE, p).hot
    BY <2>2, JournalFacts
  <2> QED BY <2>1, <2>3
<1>8. v \in LiveT /\ u \in LiveT /\ v.is = "file" /\ u.is = "file"
  <2>1. \A k, p \in Nat : File(k, p) \in LiveT /\ File(k, p).is = "file"
    BY FileKinds
  <2>2. ver \in Nat
    BY <1>5
  <2> QED BY <1>6, <2>1, <2>2
<1>9. /\ Main(db) # Jrnl(db) /\ Main(db) \in Names /\ Jrnl(db) \in Names /\ Mani(db) \in Names
      /\ Main(db) # Mani(db) /\ Mani(db) # Jrnl(db) /\ DOMAIN files = Names /\ Mani(db) \in LiveNames
  BY <1>2, NameFacts DEF TypeInv, FilesT
<1>10. files' = [files EXCEPT ![Main(db)].ver = ver, ![Mani(db)].ver = ver, ![Jrnl(db)].hot = FALSE]
  BY DEF SqlCommit
<1> HIDE DEF v, w, u
<1>11. PICK a, b : a = files[Main(db)] /\ b = files[Mani(db)]
  OBVIOUS
<1>12. PICK f1 : f1 = [files EXCEPT ![Main(db)] = [a EXCEPT !.ver = ver]]
  OBVIOUS
<1>13. PICK f2 : f2 = [f1 EXCEPT ![Mani(db)] = [b EXCEPT !.ver = ver]]
  OBVIOUS
<1>14. PICK k : k = j
  OBVIOUS
<1>15. f1[Mani(db)] = b /\ f2[Jrnl(db)] = k
  BY <1>9, <1>11, <1>12, <1>13, <1>14
<1>16. files' = [f2 EXCEPT ![Jrnl(db)] = [k EXCEPT !.hot = FALSE]]
  BY <1>9, <1>10, <1>11, <1>12, <1>13, <1>15
<1>17. f1 = [files EXCEPT ![Main(db)] = v] /\ f2 = [f1 EXCEPT ![Mani(db)] = u]
  BY <1>6, <1>11, <1>12, <1>13
<1>18. files' = [f2 EXCEPT ![Jrnl(db)] = w]
  BY <1>4, <1>14, <1>16
<1>19. FilesT(f1)
  BY <1>2, <1>8, <1>17, WriteLive, NameFacts DEF TypeInv
<1>20. FilesT(f2)
  BY <1>8, <1>9, <1>17, <1>19, WriteLive
<1>21. FilesT(files')
  BY <1>2, <1>7, <1>18, <1>20, WriteJrnl
<1>22. /\ files'[Main(db)] = v /\ files'[Mani(db)] = u /\ files'[Jrnl(db)] = w
       /\ \A x \in Names : x \notin {Main(db), Mani(db), Jrnl(db)} => files'[x] = files[x]
  BY <1>9, <1>17, <1>18
<1> QED BY <1>3, <1>5, <1>7, <1>8, <1>21, <1>22 DEF FilesT, v, u

LEMMA SqlCommitT ==
    ASSUME TypeInv, NEW c \in Calls, SqlCommit(c)
    PROVE  TypeInv'
<1>1. Runs(c, "commit") /\ UNCHANGED <<idb, sess, queue, answered, overtaken, n>>
      /\ call' = Return(c) /\ busy' = {}
  BY DEF SqlCommit
<1>2. PICK db, ver : db = call[c].db /\ ver = files[Jrnl(db)].pre + 1
  OBVIOUS
<1>3. /\ busy = {c} /\ db \in Dbs /\ sess.on /\ files[Intent] = Missing /\ sess \in Sessions
      /\ n \in Counters /\ CallsOk /\ n.deks \in Nat /\ sess.pool \in Nat /\ anchor \in Anchors
  BY <1>1, <1>2, SqlFacts
<1>4. /\ FilesT(files)' /\ ver \in Nat \ {0}
      /\ \A x \in Names : x \notin {Main(db), Mani(db), Jrnl(db)} => files'[x] = files[x]
      /\ files'[Main(db)].is = "file" /\ files'[Mani(db)].is = "file"
  BY <1>2, SqlCommitFiles
<1>5. anchor' = AnchorRecord(sess.pool, db, ver, 0) /\ acked' = [acked EXCEPT ![db] = ver]
  BY <1>2 DEF SqlCommit
<1>6. anchor' \in Anchors /\ acked' \in [Dbs -> Nat \ {0}]
  BY <1>3, <1>4, <1>5, AnchorRecordT DEF TypeInv, RestOk
<1>7. files'[Intent] = Missing
  BY <1>3, <1>4, NameFacts
<1>8. \A e \in sess.open : files'[Main(e)].is = "file" /\ files'[Mani(e)].is = "file"
  <2> SUFFICES ASSUME NEW e \in sess.open
               PROVE  files'[Main(e)].is = "file" /\ files'[Mani(e)].is = "file"
    OBVIOUS
  <2>1. e \in Dbs
    BY <1>3 DEF Sessions
  <2>2. e # db => files'[Mani(e)] = files[Mani(e)] /\ files'[Main(e)] = files[Main(e)]
    BY <1>3, <1>4, <2>1, NameFacts
  <2> QED BY <1>4, <2>2 DEF TypeInv, SessOk
<1>9. SessOk'
  BY <1>1, <1>7, <1>8 DEF TypeInv, SessOk
<1>10. Touches(c) /\ call'[c].pc = "idle"
  BY <1>1, <1>3, ReturnTouches, RestFields
<1>11. call'[c].pc \notin BusyPcs
  BY <1>10 DEF BusyPcs, StagePcs, SwapPcs
<1>12. IdbOk'
  BY <1>1, <1>3, IdbKept DEF TypeInv
<1>13. RestOk'
  BY <1>1, <1>6 DEF TypeInv, RestOk
<1>14. n' \in Counters /\ n'.deks >= n.deks
  BY <1>1, <1>3
<1> QED BY <1>1, <1>3, <1>4, <1>9, <1>10, <1>11, <1>12, <1>13, <1>14, WorkT

\* The files after the first write of a transaction over a hot journal.
LEMMA SqlBeginOverFiles ==
    ASSUME TypeInv, NEW c \in Calls, SqlBeginOver(c), NEW db, db = call[c].db,
           NEW ver, ver = files[Jrnl(db)].pre + 1
    PROVE  /\ FilesT(files)' /\ ver \in Nat \ {0} /\ files[Jrnl(db)] # Missing /\ files[Jrnl(db)].hot
           /\ \A x \in Names : x \notin {Main(db), Mani(db), Jrnl(db)} => files'[x] = files[x]
           /\ files'[Main(db)] = File(files[Main(db)].dek, Mid)
           /\ files'[Mani(db)] = File(files[Mani(db)].dek, ver)
           /\ files'[Main(db)].is = "file" /\ files'[Mani(db)].is = "file"
           /\ files'[Jrnl(db)] # Missing /\ files'[Jrnl(db)].dek = sess.pool
           /\ files'[Jrnl(db)].hot /\ files'[Jrnl(db)].pre = ver
<1> DEFINE j == files[Jrnl(db)]
           v == File(files[Main(db)].dek, Mid)
           w == Journal(sess.pool, TRUE, ver)
           u == File(files[Mani(db)].dek, ver)
<1>1. Runs(c, "ready")
  BY DEF SqlBeginOver
<1>2. /\ busy = {c} /\ db \in Dbs /\ j \in JrnlT /\ sess.pool \in Nat
      /\ files[Main(db)] \in LiveT /\ files[Main(db)] # Partial
      /\ files[Mani(db)] \in LiveT /\ files[Mani(db)] # Partial
  BY <1>1, SqlFacts
<1>3. j # Missing /\ j.hot
  BY DEF SqlBeginOver, IsHot
<1>4. j.pre \in Nat
  BY <1>2, <1>3, SetHot
<1>5. ver \in Nat \ {0}
  BY <1>4
<1>6. /\ [files[Main(db)] EXCEPT !.ver = Mid] = v /\ files[Main(db)].dek \in Nat
      /\ [files[Mani(db)] EXCEPT !.ver = ver] = u /\ files[Mani(db)].dek \in Nat
  BY <1>2, <1>5, SetVer DEF Mid
<1>7. w \in JrnlT /\ w # Missing /\ w.dek = sess.pool /\ w.hot /\ w.pre = ver
  <2>1. PICK k, p : k = sess.pool /\ p = ver
    OBVIOUS
  <2>2. k \in Nat /\ p \in Nat
    BY <1>2, <1>5, <2>1
  <2>3. /\ Journal(k, TRUE, p) \in JrnlT /\ Journal(k, TRUE, p) # Missing
        /\ Journal(k, TRUE, p).dek = k /\ Journal(k, TRUE, p).hot /\ Journal(k, TRUE, p).pre = p
    <3> HIDE DEF v, w, u, j
    <3> QED BY <2>2, JournalFacts
  <2>4. w = Journal(k, TRUE, p)
    BY <2>1
  <2> HIDE DEF w, v, u, j
  <2> QED BY <2>1, <2>3, <2>4, Zenon
<1>8. v \in LiveT /\ u \in LiveT /\ v.is = "file" /\ u.is = "file"
  <2>1. \A k, p \in Nat : File(k, p) \in LiveT /\ File(k, p).is = "file"
    BY FileKinds
  <2>2. Mid \in Nat /\ ver \in Nat
    BY <1>5 DEF Mid
  <2> QED BY <1>6, <2>1, <2>2
<1>9. /\ Main(db) # Jrnl(db) /\ Main(db) \in Names /\ Jrnl(db) \in Names /\ Mani(db) \in Names
      /\ Main(db) # Mani(db) /\ Mani(db) # Jrnl(db) /\ DOMAIN files = Names /\ Mani(db) \in LiveNames
  BY <1>2, NameFacts DEF TypeInv, FilesT
<1>10. files' = [files EXCEPT ![Jrnl(db)] = w, ![Main(db)].ver = Mid, ![Mani(db)].ver = ver]
  BY DEF SqlBeginOver
<1> HIDE DEF v, w, u
<1>11. PICK a, b : a = files[Main(db)] /\ b = files[Mani(db)]
  OBVIOUS
<1>12. PICK f1 : f1 = [files EXCEPT ![Jrnl(db)] = w]
  OBVIOUS
<1>13. PICK f2 : f2 = [f1 EXCEPT ![Main(db)] = [a EXCEPT !.ver = Mid]]
  OBVIOUS
<1>14. f1[Main(db)] = a /\ f2[Mani(db)] = b
  BY <1>9, <1>11, <1>12, <1>13
<1>15. files' = [f2 EXCEPT ![Mani(db)] = [b EXCEPT !.ver = ver]]
  BY <1>9, <1>10, <1>11, <1>12, <1>13, <1>14
<1>16. f2 = [f1 EXCEPT ![Main(db)] = v] /\ files' = [f2 EXCEPT ![Mani(db)] = u]
  BY <1>6, <1>11, <1>13, <1>15
<1>17. FilesT(f1)
  BY <1>2, <1>7, <1>12, WriteJrnl DEF TypeInv
<1>18. FilesT(f2)
  BY <1>2, <1>8, <1>16, <1>17, WriteLive, NameFacts
<1>19. FilesT(files')
  BY <1>8, <1>9, <1>16, <1>18, WriteLive
<1>20. /\ files'[Main(db)] = v /\ files'[Mani(db)] = u /\ files'[Jrnl(db)] = w
       /\ \A x \in Names : x \notin {Main(db), Mani(db), Jrnl(db)} => files'[x] = files[x]
  BY <1>9, <1>12, <1>16
<1> QED BY <1>3, <1>5, <1>7, <1>8, <1>19, <1>20 DEF FilesT, v, u

LEMMA SqlBeginOverT ==
    ASSUME TypeInv, NEW c \in Calls, SqlBeginOver(c)
    PROVE  TypeInv'
<1>1. /\ Runs(c, "ready") /\ UNCHANGED <<idb, queue, busy, answered, overtaken>>
      /\ call' = Go(c, "commit") /\ n' = [n EXCEPT !.writes = @ + 1]
  BY DEF SqlBeginOver
<1>2. PICK db, ver : db = call[c].db /\ ver = files[Jrnl(db)].pre + 1
  OBVIOUS
<1>3. /\ busy = {c} /\ db \in Dbs /\ sess.on /\ db \in sess.open /\ files[Intent] = Missing
      /\ sess \in Sessions /\ n \in Counters /\ CallsOk /\ n.deks \in Nat
      /\ sess.pool \in Nat /\ anchor \in Anchors
  BY <1>1, <1>2, SqlFacts
<1>4. /\ FilesT(files)' /\ ver \in Nat \ {0}
      /\ \A x \in Names : x \notin {Main(db), Mani(db), Jrnl(db)} => files'[x] = files[x]
      /\ files'[Main(db)].is = "file" /\ files'[Mani(db)].is = "file" /\ files'[Jrnl(db)] # Missing
  BY <1>2, SqlBeginOverFiles
<1>5. /\ anchor' = AnchorRecord(sess.pool, db, ver, 0) /\ acked' = [acked EXCEPT ![db] = ver]
      /\ sess' = [sess EXCEPT !.wrote = @ \cup {db}]
  BY <1>2 DEF SqlBeginOver
<1>6. anchor' \in Anchors /\ acked' \in [Dbs -> Nat \ {0}]
  BY <1>3, <1>4, <1>5, AnchorRecordT DEF TypeInv, RestOk
<1>7. /\ sess' \in Sessions /\ sess'.on = sess.on /\ sess'.open = sess.open
      /\ sess'.wrote = sess.wrote \cup {db}
  BY <1>3, <1>5 DEF Sessions
<1>8. files'[Intent] = Missing
  BY <1>3, <1>4, NameFacts
<1>9. \A e \in sess'.open : files'[Main(e)].is = "file" /\ files'[Mani(e)].is = "file"
  <2> SUFFICES ASSUME NEW e \in sess'.open
               PROVE  files'[Main(e)].is = "file" /\ files'[Mani(e)].is = "file"
    OBVIOUS
  <2>1. e \in Dbs /\ e \in sess.open
    BY <1>7 DEF Sessions
  <2>2. e # db => files'[Mani(e)] = files[Mani(e)] /\ files'[Main(e)] = files[Main(e)]
    BY <1>3, <1>4, <2>1, NameFacts
  <2> QED BY <1>4, <2>1, <2>2 DEF TypeInv, SessOk
<1>10. SessOk'
  BY <1>3, <1>7, <1>8, <1>9 DEF TypeInv, SessOk
<1>11. /\ n' \in Counters /\ n'.deks = n.deks
  BY <1>1, <1>3, CountersT
<1>12. Touches(c) /\ call'[c].pc = "commit" /\ call'[c].db = db
  BY <1>1, <1>2, <1>3, <1>11, GoTouches, PcFacts
<1>13. RunOk(c)'
  BY <1>3, <1>4, <1>7, <1>12 DEF RunOk, StagePcs, SwapPcs
<1>14. IdbOk'
  BY <1>1, <1>3, <1>11, IdbKept DEF TypeInv
<1>15. RestOk'
  BY <1>1, <1>6, <1>7, <1>11 DEF TypeInv, RestOk
<1>16. n'.deks >= n.deks
  BY <1>3, <1>11
<1> QED BY <1>1, <1>3, <1>4, <1>10, <1>11, <1>12, <1>13, <1>14, <1>15, <1>16, PcFacts, WorkT

LEMMA CrashT ==
    ASSUME TypeInv, Crash
    PROVE  TypeInv'
<1>1. /\ UNCHANGED <<idb, files, anchor, acked, overtaken>> /\ n' = [n EXCEPT !.crashes = @ + 1]
      /\ sess' = NoSession /\ queue' = <<>> /\ busy' = {} /\ answered' = <<>>
      /\ call' = [c \in Calls |-> Rest]
  BY DEF Crash
<1>2. n \in Counters /\ n' \in Counters /\ n'.deks = n.deks /\ n'.deks \in Nat
  BY <1>1, CountersT DEF TypeInv, RestOk
<1>3. IdbOk'
  BY <1>1, <1>2, IdbKept DEF TypeInv
<1>4. sess' \in Sessions /\ SessOk'
  BY <1>1 DEF NoSession, Sessions, SessOk, NoDek
<1>5. RestOk'
  BY <1>1, <1>2, <1>4 DEF TypeInv, RestOk
<1>6. CallsOk'
  BY <1>1, <1>2, RestT DEF CallsOk
<1>7. BusyOk'
  <2>1. \A c \in Calls : call'[c].pc = "idle"
    BY <1>1, RestFields
  <2> QED BY <1>1, <2>1 DEF BusyOk, BusyPcs, StagePcs, SwapPcs
<1> QED BY <1>1, <1>3, <1>4, <1>5, <1>6, <1>7 DEF TypeInv

LEMMA InitT == Init => TypeInv
<1> SUFFICES ASSUME Init PROVE TypeInv
  OBVIOUS
<1>1. /\ sess = NoSession /\ queue = <<>> /\ busy = {} /\ answered = <<>>
      /\ call = [c \in Calls |-> Rest] /\ acked = [db \in Dbs |-> 1] /\ overtaken = FALSE
      /\ files = [f \in Names |-> IF f \in LiveNames THEN File(1, 1) ELSE Missing]
      /\ anchor = [dek |-> 1, committed |-> [db \in Dbs |-> 1], floor |-> [db \in Dbs |-> 0]]
  BY DEF Init
<1>2. n \in Counters /\ n.deks = 1
  <2>1. PICK room \in Capacities :
          n = [calls |-> 0, writes |-> 0, crashes |-> 0, deks |-> 1, codes |-> 0, room |-> room]
    BY DEF Init
  <2>2. room \in Nat
    BY VaultAssumption
  <2> QED BY <2>1, <2>2 DEF Counters
<1>3. IdbOk
  <2>1. PICK t \in {NoToken} \cup {[dek |-> 1, db |-> 1, gen |-> 1, env |-> g] : g \in {1, 2}} :
          idb = [env |-> CreateEnvelope(1, Prf, Passkey), floor |-> 1, epoch |-> t]
    BY DEF Init
  <2>2. t \in Tokens
    BY DbsFacts DEF Tokens, NoToken, NoDek
  <2>3. PICK e : e = CreateEnvelope(1, Prf, Passkey)
    OBVIOUS
  <2>4. EnvT(e, 1)
    BY <2>3, CreateFacts DEF EnvT
  <2>5. idb = [env |-> e, floor |-> 1, epoch |-> t]
    BY <2>1, <2>3
  <2> QED BY <1>2, <2>2, <2>4, <2>5 DEF IdbOk
<1>4. sess \in Sessions /\ SessOk
  BY <1>1 DEF NoSession, Sessions, SessOk, NoDek
<1>5. anchor \in Anchors
  BY <1>1 DEF Anchors
<1>6. RestOk
  <2>1. overtaken \in BOOLEAN
    BY <1>1
  <2>2. acked \in [Dbs -> Nat \ {0}] /\ queue \in Seq(Calls) /\ answered \in Seq(Calls)
        /\ busy \in SUBSET Calls
    BY <1>1
  <2> QED BY <1>2, <1>4, <1>5, <2>1, <2>2 DEF RestOk
<1>7. CallsOk
  BY <1>1, <1>2, RestT DEF CallsOk
<1>8. BusyOk
  <2>1. \A c \in Calls : call[c].pc = "idle"
    BY <1>1, RestFields
  <2> QED BY <1>1, <2>1 DEF BusyOk, BusyPcs, StagePcs, SwapPcs
<1>9. FilesT(files)
  <2>1. /\ \A x \in LiveNames : files[x] = File(1, 1) /\ files[Shadow(x)] = Missing
        /\ \A db \in Dbs : files[Jrnl(db)] = Missing
        /\ files[Intent] = Missing
    BY <1>1, NameFacts
  <2>2. files = [x \in Names |-> files[x]]
    BY <1>1
  <2>3. File(1, 1) \in LiveT /\ Missing \in ShadowT /\ Missing \in JrnlT /\ Missing \in IntentT
    BY FileKinds
  <2> QED BY <2>1, <2>2, <2>3 DEF FilesT
<1> QED BY <1>1, <1>3, <1>4, <1>6, <1>7, <1>8, <1>9 DEF TypeInv

\* The calls on their way to IndexedDB are those at "put".
LEMMA PutFirst ==
    ASSUME TypeInv, Lists(call, answered, {"put"}), NEW c \in Calls, At(c, "put")
    PROVE  answered # <<>>
<1>1. \E i \in 1 .. Len(answered) : answered[i] = c
  BY DEF Lists, At
<1> QED BY <1>1

LEMMA TypeStep ==
    ASSUME TypeInv, Lists(call, answered, {"put"}), [Next]_vars
    PROVE  TypeInv'
<1>1. ASSUME NEW c \in Calls, SdkStep(c) PROVE TypeInv'
  <2>1. CASE Unlock(c) \/ AddRecoveryCode(c) \/ RemoveMethod(c) \/ RotateKey(c)
    BY <2>1, StartsT DEF Unlock, AddRecoveryCode, RemoveMethod, RotateKey
  <2>2. CASE Sql(c)
    <3>1. PICK db \in Dbs : call' = [call EXCEPT ![c] = PostOf(Rest, "sql", "sent", db)]
      BY <2>2 DEF Sql, PostOf
    <3> QED BY <2>2, <3>1, PostsT DEF Sql
  <2>3. CASE Lock(c)
    <3>1. PostOf(Rest, "lock", "sent", 1) = [Rest EXCEPT !.op = "lock", !.pc = "sent"]
      <4>1. PICK r : r = Rest
        OBVIOUS
      <4>2. PICK r1 : r1 = [r EXCEPT !.op = "lock"]
        OBVIOUS
      <4>3. PICK r2 : r2 = [r1 EXCEPT !.pc = "sent"]
        OBVIOUS
      <4>4. Shaped(r1) /\ r1.db = 1
        <5>1. Shaped(r) /\ r.db = 1
          BY <4>1, RestFields
        <5> QED BY <4>2, <5>1, SetOp
      <4>5. Shaped(r2) /\ r2.db = 1
        BY <4>3, <4>4, SetPc
      <4>6. [r2 EXCEPT !.db = 1] = r2
        <5>1. PICK q : q = [r2 EXCEPT !.db = 1]
          OBVIOUS
        <5>2. /\ Shaped(q) /\ q.db = r2.db /\ q.floor = r2.floor /\ q.op = r2.op /\ q.pc = r2.pc
              /\ q.env = r2.env
              /\ q.next = r2.next /\ q.epoch = r2.epoch /\ q.dek = r2.dek /\ q.todo = r2.todo
          BY <4>5, <5>1, SetDb
        <5>3. q = r2
          BY <4>5, <5>2 DEF Shaped
        <5> QED BY <5>1, <5>3
      <4>7. [r EXCEPT !.op = "lock", !.pc = "sent"] = r2
        BY <4>2, <4>3
      <4>8. PostOf(r, "lock", "sent", 1) = [r2 EXCEPT !.db = 1]
        BY <4>2, <4>3 DEF PostOf
      <4> QED BY <4>1, <4>6, <4>7, <4>8
    <3>2. call' = [call EXCEPT ![c] = PostOf(Rest, "lock", "sent", 1)]
      BY <2>3, <3>1 DEF Lock
    <3>3. Posts(c, "lock") /\ 1 \in Dbs
      BY <2>3, DbsFacts DEF Lock
    <3> QED BY <3>2, <3>3, PostsT
  <2>4. CASE Put(c)
    <3>1. answered # <<>>
      BY <2>4, PutFirst DEF Put
    <3> QED BY <2>4, <3>1, PutT
  <2> QED BY <1>1, <2>1, <2>2, <2>3, <2>4, ConfirmT, CancelT, ReadFloorT, BumpFloorT, DelEpochT,
            ReopenT DEF SdkStep
<1>2. ASSUME NEW c \in Calls, WorkerStep(c) PROVE TypeInv'
  BY <1>2, TakeCheckT, TakeAskT, TakeLockT, TakeAddT, TakeRemoveT, TakeRotateT, StageFileT, StageFillT,
     StageIntentT, IntentFillT, TakeOpenT, InstallT, SwapFileT, SwapFillT, SwapDropT, CarryAnchorT,
     DropIntentT, DiscardT, ApplyEpochT, TakeSqlT, SqlReadT, SqlBeginT, SqlBeginOverT, SqlCommitT
  DEF WorkerStep
<1>3. CASE UNCHANGED vars
  <2>1. UNCHANGED <<idb, files, anchor, sess, call, queue, busy, answered, acked, overtaken, n>>
    BY <1>3 DEF vars
  <2>2. IdbOk' /\ FilesT(files)' /\ CallsOk' /\ RestOk'
    BY <2>1 DEF TypeInv, IdbOk, CallsOk, RestOk
  <2>3. BusyOk' /\ SessOk'
    BY <2>1 DEF TypeInv, BusyOk, SessOk, At
  <2>4. \A c \in busy' : RunOk(c)'
    BY <2>1 DEF TypeInv, RunOk
  <2> QED BY <2>2, <2>3, <2>4 DEF TypeInv
<1> QED BY <1>1, <1>2, <1>3, CrashT DEF Next

-----------------------------------------------------------------------------
(* The room of the pool. *)

LEMMA NamesFinite == IsFiniteSet(Names) /\ IsFiniteSet(LiveNames) /\ Cardinality(LiveNames) <= 2 * NumDbs
<1>1. ASSUME NEW S, IsFiniteSet(S), NEW f, DOMAIN f = S, f = [x \in S |-> f[x]]
      PROVE  IsFiniteSet({f[x] : x \in S}) /\ Cardinality({f[x] : x \in S}) <= Cardinality(S)
  <2>1. f \in Surjection(S, {f[x] : x \in S})
    BY <1>1 DEF Surjection
  <2> QED BY <1>1, <2>1, FS_Surjection
<1>2. IsFiniteSet(Dbs) /\ Cardinality(Dbs) = NumDbs /\ NumDbs \in Nat
  BY DbsFacts
<1> DEFINE A == {Main(db) : db \in Dbs}
           B == {Mani(db) : db \in Dbs}
           J == {Jrnl(db) : db \in Dbs}
           H == {Shadow(x) : x \in LiveNames}
<1>3. IsFiniteSet(A) /\ Cardinality(A) <= NumDbs
  <2>1. PICK f : f = [db \in Dbs |-> Main(db)]
    OBVIOUS
  <2>2. A = {f[x] : x \in Dbs}
    BY <2>1
  <2> QED BY <1>1, <1>2, <2>1, <2>2
<1>4. IsFiniteSet(B) /\ Cardinality(B) <= NumDbs
  <2>1. PICK f : f = [db \in Dbs |-> Mani(db)]
    OBVIOUS
  <2>2. B = {f[x] : x \in Dbs}
    BY <2>1
  <2> QED BY <1>1, <1>2, <2>1, <2>2
<1>5. IsFiniteSet(J)
  <2>1. PICK f : f = [db \in Dbs |-> Jrnl(db)]
    OBVIOUS
  <2>2. J = {f[x] : x \in Dbs}
    BY <2>1
  <2> QED BY <1>1, <1>2, <2>1, <2>2
<1>6. LiveNames = A \cup B
  BY DEF LiveNames
<1> HIDE DEF A, B
<1>7. IsFiniteSet(LiveNames) /\ Cardinality(LiveNames) <= 2 * NumDbs
  <2>1. IsFiniteSet(A \cap B)
    BY <1>3, FS_Subset
  <2>2. Cardinality(A) \in Nat /\ Cardinality(B) \in Nat /\ Cardinality(A \cap B) \in Nat
    BY <1>3, <1>4, <2>1, FS_CardinalityType
  <2>3. IsFiniteSet(A \cup B)
        /\ Cardinality(A \cup B) = Cardinality(A) + Cardinality(B) - Cardinality(A \cap B)
    BY <1>3, <1>4, FS_Union
  <2> QED BY <1>2, <1>3, <1>4, <1>6, <2>2, <2>3
<1>8. IsFiniteSet(H)
  <2>1. PICK f : f = [x \in LiveNames |-> Shadow(x)]
    OBVIOUS
  <2>2. H = {f[x] : x \in LiveNames}
    BY <2>1
  <2> QED BY <1>1, <1>7, <2>1, <2>2
<1>9. Names = ((LiveNames \cup H) \cup J) \cup {Intent}
  BY DEF Names
<1> HIDE DEF H, J
<1>10. IsFiniteSet(LiveNames \cup H)
  BY <1>7, <1>8, FS_Union
<1>11. IsFiniteSet((LiveNames \cup H) \cup J)
  BY <1>5, <1>10, FS_Union
<1>12. IsFiniteSet(((LiveNames \cup H) \cup J) \cup {Intent})
  BY <1>11, FS_AddElement
<1> QED BY <1>7, <1>9, <1>12

\* A step takes at most one file of the pool, and only if there is room.
LEMMA RoomKept ==
    ASSUME TypeInv, Used <= n.room, NEW f \in Names, HasRoom(f), n'.room = n.room,
           \A x \in Names : files'[x] # Missing => files[x] # Missing \/ x = f
    PROVE  (Used <= n.room)'
<1> DEFINE S == {x \in Names : files[x] # Missing}
           T == {x \in Names : files'[x] # Missing}
<1>1. IsFiniteSet(S) /\ Cardinality(S) \in Nat
  BY NamesFinite, FS_Subset, FS_CardinalityType
<1>2. n.room \in Nat
  BY DEF TypeInv, RestOk, Counters
<1>3. T \subseteq S \cup {f}
  OBVIOUS
<1>4. f \in S \/ Cardinality(S) < n.room
  BY DEF HasRoom, Used
<1>5. Cardinality(S) <= n.room
  BY DEF Used
<1>6. (Used <= n.room)' <=> Cardinality(T) <= n.room
  BY DEF Used
<1> HIDE DEF S, T
<1>7. IsFiniteSet(S \cup {f}) /\ Cardinality(S \cup {f}) <= n.room
  <2>1. /\ IsFiniteSet(S \cup {f})
        /\ Cardinality(S \cup {f}) = IF f \in S THEN Cardinality(S) ELSE Cardinality(S) + 1
    BY <1>1, FS_AddElement
  <2> QED BY <1>1, <1>2, <1>4, <1>5, <2>1
<1>8. Cardinality(S \cup {f}) \in Nat /\ Cardinality(T) <= Cardinality(S \cup {f}) /\ Cardinality(T) \in Nat
  BY <1>3, <1>7, FS_Subset, FS_CardinalityType
<1> QED BY <1>2, <1>6, <1>7, <1>8

\* No step takes a file but those that ask for room.
LEMMA RoomSame ==
    ASSUME TypeInv, Used <= n.room, n'.room = n.room,
           \A x \in Names : files'[x] # Missing => files[x] # Missing
    PROVE  (Used <= n.room)'
<1>1. PICK a \in LiveNames : files[a] \in LiveT
  BY NameFacts, DbsFacts DEF TypeInv, FilesT
<1>2. a \in Names /\ HasRoom(a)
  <2>1. files[a] # Missing
    BY <1>1, FileKinds
  <2>2. a \in Names
    BY NameFacts
  <2> QED BY <2>1, <2>2 DEF HasRoom
<1> QED BY <1>2, RoomKept

LEMMA CountersRoom ==
    ASSUME NEW m \in Counters
    PROVE  /\ [m EXCEPT !.calls = @ + 1].room = m.room /\ [m EXCEPT !.codes = @ + 1].room = m.room
           /\ [m EXCEPT !.writes = @ + 1].room = m.room /\ [m EXCEPT !.crashes = @ + 1].room = m.room
BY DEF Counters

\* How the counters move.
LEMMA CounterSteps ==
    ASSUME TypeInv, [Next]_vars
    PROVE  \/ UNCHANGED n \/ n' = [n EXCEPT !.calls = @ + 1] \/ n' = [n EXCEPT !.codes = @ + 1]
           \/ n' = [n EXCEPT !.writes = @ + 1] \/ n' = [n EXCEPT !.crashes = @ + 1]
           \/ \E c \in Calls : RotateBegins(c)
<1>1. ASSUME NEW c \in Calls, SdkStep(c) PROVE UNCHANGED n \/ n' = [n EXCEPT !.calls = @ + 1]
  BY <1>1 DEF SdkStep, Unlock, AddRecoveryCode, RemoveMethod, RotateKey, Starts, Sql, Lock, Posts, Confirm,
        Cancel, Put, ReadFloor, BumpFloor, DelEpoch, Reopen
<1>2. ASSUME NEW c \in Calls, WorkerStep(c)
      PROVE  \/ UNCHANGED n \/ n' = [n EXCEPT !.codes = @ + 1] \/ n' = [n EXCEPT !.writes = @ + 1]
             \/ RotateBegins(c)
  <2>1. CASE TakeRotate(c)
    BY <2>1, TakeRotateCases
  <2>2. CASE TakeAdd(c)
    BY <2>2 DEF TakeAdd
  <2>3. CASE SqlBegin(c) \/ SqlBeginOver(c)
    BY <2>3 DEF SqlBegin, SqlBeginOver
  <2>4. CASE TakeCheck(c) \/ TakeAsk(c) \/ TakeLock(c) \/ TakeRemove(c) \/ StageFile(c) \/ StageFill(c) \/ StageIntent(c)
    BY <2>4 DEF TakeCheck, TakeAsk, TakeLock, TakeRemove, StageFile, StageFill, StageIntent
  <2>5. CASE IntentFill(c) \/ TakeOpen(c) \/ Install(c) \/ SwapFile(c) \/ SwapFill(c) \/ SwapDrop(c)
    BY <2>5 DEF IntentFill, TakeOpen, Install, SwapFile, SwapFill, SwapDrop
  <2>6. CASE CarryAnchor(c) \/ DropIntent(c) \/ Discard(c) \/ ApplyEpoch(c) \/ TakeSql(c) \/ SqlRead(c)
             \/ SqlCommit(c)
    BY <2>6 DEF CarryAnchor, DropIntent, Discard, ApplyEpoch, TakeSql, SqlRead, SqlCommit
  <2> QED BY <1>2, <2>1, <2>2, <2>3, <2>4, <2>5, <2>6 DEF WorkerStep
<1> QED BY <1>1, <1>2 DEF Next, Crash, vars

\* The size of the pool never changes.
LEMMA RoomFixed ==
    ASSUME TypeInv, [Next]_vars
    PROVE  n'.room = n.room
<1>0. n \in Counters
  BY DEF TypeInv, RestOk
<1>1. CASE UNCHANGED n
  BY <1>1
<1>2. CASE \/ n' = [n EXCEPT !.calls = @ + 1] \/ n' = [n EXCEPT !.codes = @ + 1]
           \/ n' = [n EXCEPT !.writes = @ + 1] \/ n' = [n EXCEPT !.crashes = @ + 1]
  BY <1>0, <1>2, CountersRoom
<1>3. CASE \E c \in Calls : RotateBegins(c)
  BY <1>3, RotateBeginsT
<1> QED BY <1>1, <1>2, <1>3, CounterSteps

\* Nothing but the pool's own writers takes a file.
LEMMA RoomStep ==
    ASSUME TypeInv, Used <= n.room, TypeInv', [Next]_vars
    PROVE  (Used <= n.room)'
<1>0. n'.room = n.room
  BY RoomFixed
<1>1. CASE UNCHANGED files
  BY <1>0, <1>1, RoomSame
<1>2. CASE files' = Closed
  BY <1>0, <1>2, RoomSame DEF Closed
<1>3. ASSUME NEW x \in Names, NEW v, files' = [files EXCEPT ![x] = v], v = Missing \/ HasRoom(x)
      PROVE  (Used <= n.room)'
  <2>1. \A y \in Names : y # x => files'[y] = files[y]
    BY <1>3 DEF TypeInv, FilesT
  <2>2. files'[x] = v
    BY <1>3 DEF TypeInv, FilesT
  <2>3. CASE v = Missing
    BY <1>0, <2>1, <2>2, <2>3, RoomSame
  <2>4. CASE HasRoom(x)
    BY <1>0, <1>3, <2>1, <2>4, RoomKept
  <2> QED BY <1>3, <2>3, <2>4
<1>4. \A x \in LiveNames : x \in Names /\ HasRoom(x) /\ files[x] # Missing
  <2> SUFFICES ASSUME NEW x \in LiveNames PROVE x \in Names /\ HasRoom(x) /\ files[x] # Missing
    OBVIOUS
  <2>1. files[x] \in LiveT /\ x \in Names
    BY NameFacts DEF TypeInv, FilesT
  <2>2. files[x] # Missing
    BY <2>1, FileKinds
  <2> QED BY <2>1, <2>2 DEF HasRoom
<1>5. ASSUME NEW c \in Calls, SdkStep(c) PROVE UNCHANGED files
  BY <1>5 DEF SdkStep, Unlock, AddRecoveryCode, RemoveMethod, RotateKey, Starts, Sql, Lock, Posts, Confirm,
        Cancel, Put, ReadFloor, BumpFloor, DelEpoch, Reopen
<1>6. ASSUME NEW c \in Calls, WorkerStep(c) PROVE (Used <= n.room)'
  <2>0. \A x \in LiveNames : Shadow(x) \in Names
    BY NameFacts
  <2>1. CASE TakeCheck(c) \/ TakeAsk(c) \/ TakeAdd(c) \/ TakeRemove(c) \/ Install(c) \/ CarryAnchor(c)
             \/ ApplyEpoch(c) \/ TakeSql(c) \/ SqlRead(c)
    BY <1>1, <2>1 DEF TakeCheck, TakeAsk, TakeAdd, TakeRemove, Install, CarryAnchor, ApplyEpoch, TakeSql,
                     SqlRead
  <2>2. CASE TakeLock(c)
    BY <1>2, <2>2 DEF TakeLock
  <2>3. CASE TakeRotate(c)
    BY <1>1, <1>2, <2>3, TakeRotateCases DEF RotateBegins
  <2>4. CASE StageFile(c)
    <3>1. CASE Fails(c)
      BY <1>1, <3>1 DEF Fails
    <3>2. CASE HasRoom(Shadow(Head(call[c].todo))) /\ files' = [files EXCEPT ![Shadow(Head(call[c].todo))] = Partial]
      <4>1. Head(call[c].todo) \in LiveNames
        BY <2>4, RunsFacts DEF StageFile
      <4> QED BY <1>3, <2>0, <3>2, <4>1
    <3> QED BY <2>4, <3>1, <3>2 DEF StageFile
  <2>5. CASE StageFill(c)
    <3>1. Runs(c, "stageFill")
      BY <2>5 DEF StageFill
    <3>2. call[c].pc = "stageFill" /\ RunOk(c)
      BY <3>1, RunsFacts
    <3>3. call[c].todo # <<>> /\ files[Shadow(Head(call[c].todo))] # Missing
      BY <3>2 DEF RunOk
    <3>4. Head(call[c].todo) \in LiveNames
      BY <3>1, <3>3, RunsFacts
    <3>5. HasRoom(Shadow(Head(call[c].todo)))
      BY <3>3 DEF HasRoom
    <3> QED BY <1>3, <2>0, <2>5, <3>4, <3>5 DEF StageFill
  <2>6. CASE StageIntent(c)
    <3>1. Intent \in Names
      BY NameFacts
    <3>2. CASE Fails(c)
      BY <1>1, <3>2 DEF Fails
    <3>3. CASE HasRoom(Intent) /\ files' = [files EXCEPT ![Intent] = Partial]
      BY <1>3, <3>1, <3>3
    <3> QED BY <2>6, <3>2, <3>3 DEF StageIntent
  <2>7. CASE IntentFill(c)
    <3>1. Intent \in Names
      BY NameFacts
    <3>2. files' = [files EXCEPT ![Intent] = IntentOf(c)] /\ Runs(c, "intentFill")
      BY <2>7, AllDbs DEF IntentFill, IntentOf
    <3>3. files[Intent] # Missing
      BY <3>2, RunsFacts DEF RunOk
    <3> QED BY <1>3, <3>1, <3>2, <3>3 DEF HasRoom
  <2>8. CASE TakeOpen(c)
    BY <1>1, <1>2, <2>8, TakeOpenCases
  <2>9. CASE SwapFile(c)
    <3>1. CASE UNCHANGED files
      BY <1>1, <3>1
    <3>2. CASE files' = [files EXCEPT ![Head(call[c].todo)] = Partial]
      <4>1. Head(call[c].todo) \in LiveNames
        BY <2>9, RunsFacts DEF SwapFile
      <4> QED BY <1>3, <1>4, <3>2, <4>1
    <3> QED BY <2>9, <3>1, <3>2 DEF SwapFile
  <2>10. CASE SwapFill(c)
    <3>1. Runs(c, "swapFill")
      BY <2>10 DEF SwapFill
    <3>2. call[c].todo # <<>>
      BY <3>1, RunsFacts DEF RunOk
    <3>3. Head(call[c].todo) \in LiveNames
      BY <3>1, <3>2, RunsFacts
    <3> QED BY <1>3, <1>4, <2>10, <3>3 DEF SwapFill
  <2>11. CASE SwapDrop(c)
    <3>1. Runs(c, "swapDrop")
      BY <2>11 DEF SwapDrop
    <3>2. call[c].todo # <<>>
      BY <3>1, RunsFacts DEF RunOk
    <3>3. Head(call[c].todo) \in LiveNames
      BY <3>1, <3>2, RunsFacts
    <3> QED BY <1>3, <2>0, <2>11, <3>3 DEF SwapDrop
  <2>12. CASE DropIntent(c)
    BY <1>3, <2>12, NameFacts DEF DropIntent
  <2>13. CASE Discard(c)
    <3>1. PICK f \in Staging : files' = [files EXCEPT ![f] = Missing]
      BY <2>13 DEF Discard
    <3> QED BY <1>3, <3>1 DEF Staging
  <2>14. CASE SqlBeginOver(c)
    <3>1. PICK db, ver : db = call[c].db /\ ver = files[Jrnl(db)].pre + 1
      OBVIOUS
    <3>2. Runs(c, "ready")
      BY <2>14 DEF SqlBeginOver
    <3>3. db \in Dbs
      BY <3>1, <3>2, SqlFacts
    <3>4. /\ \A x \in Names : x \notin {Main(db), Mani(db), Jrnl(db)} => files'[x] = files[x]
          /\ files[Jrnl(db)] # Missing
      BY <2>14, <3>1, SqlBeginOverFiles
    <3>5. files[Main(db)] # Missing /\ files[Mani(db)] # Missing
      BY <1>4, <3>3, NameFacts
    <3> QED BY <1>0, <3>4, <3>5, RoomSame
  <2>15. CASE SqlBegin(c)
    <3>1. CASE Fails(c)
      BY <1>1, <3>1 DEF Fails
    <3>2. CASE Begins(c)
      <4>1. PICK db : db = call[c].db
        OBVIOUS
      <4>2. Runs(c, "ready")
        BY <2>15 DEF SqlBegin
      <4>3. db \in Dbs
        BY <4>1, <4>2, SqlFacts
      <4>4. \A x \in Names : x \notin {Main(db), Jrnl(db)} => files'[x] = files[x]
        BY <3>2, <4>1, <4>2, BeginsT
      <4>5. files[Main(db)] # Missing
        BY <1>4, <4>3, NameFacts
      <4>6. HasRoom(Jrnl(db)) /\ Jrnl(db) \in Names
        BY <3>2, <4>1, <4>3, NameFacts DEF Begins
      <4> QED BY <1>0, <4>4, <4>5, <4>6, RoomKept
    <3> QED BY <2>15, <3>1, <3>2, SqlBeginCases DEF Begins
  <2>16. CASE SqlCommit(c)
    <3>1. PICK db, ver : db = call[c].db /\ ver = files[Jrnl(db)].pre + 1
      OBVIOUS
    <3>2. Runs(c, "commit")
      BY <2>16 DEF SqlCommit
    <3>3. db \in Dbs
      BY <3>1, <3>2, SqlFacts
    <3>4. /\ \A x \in Names : x \notin {Main(db), Mani(db), Jrnl(db)} => files'[x] = files[x]
          /\ files[Jrnl(db)] # Missing
      BY <2>16, <3>1, SqlCommitFiles
    <3>5. files[Main(db)] # Missing /\ files[Mani(db)] # Missing
      BY <1>4, <3>3, NameFacts
    <3> QED BY <1>0, <3>4, <3>5, RoomSame
  <2> QED BY <1>6, <2>1, <2>2, <2>3, <2>4, <2>5, <2>6, <2>7, <2>8, <2>9, <2>10, <2>11, <2>12, <2>13,
             <2>14, <2>15, <2>16 DEF WorkerStep
<1> QED BY <1>1, <1>5, <1>6 DEF Next, Crash, vars

LEMMA RoomInit == Init => Used <= n.room
<1> SUFFICES ASSUME Init PROVE Used <= n.room
  OBVIOUS
<1>1. n.room \in Capacities
  BY DEF Init
<1>2. n.room \in Nat /\ n.room >= 2 * NumDbs /\ NumDbs \in Nat
  BY <1>1, VaultAssumption
<1>3. {f \in Names : files[f] # Missing} \subseteq LiveNames
  BY DEF Init
<1>4. Cardinality({f \in Names : files[f] # Missing}) <= Cardinality(LiveNames)
      /\ IsFiniteSet({f \in Names : files[f] # Missing})
  BY <1>3, NamesFinite, FS_Subset
<1>5. Cardinality(LiveNames) \in Nat /\ Cardinality({f \in Names : files[f] # Missing}) \in Nat
  BY <1>4, NamesFinite, FS_CardinalityType
<1> QED BY <1>2, <1>4, <1>5, NamesFinite DEF Used

-----------------------------------------------------------------------------
(* The order of the calls. *)

LEMMA RankFacts ==
    ASSUME NEW r
    PROVE  /\ Rank(r) \in 0 .. 5
           /\ r.pc = "put" => Rank(r) = 1
           /\ r.pc \in StagePcs => Rank(r) = 2
           /\ (r.pc = "sent" /\ r.op \notin {"sql", "lock"}) => Rank(r) = 3
           /\ (r.pc = "sent" /\ r.op \in {"sql", "lock"}) => Rank(r) = 0
           /\ r.pc = "showing" => Rank(r) = 4
           /\ r.pc = "check" => Rank(r) = 5
           /\ r.pc \notin StagePcs \cup {"put", "sent", "showing", "check"} => Rank(r) = 0
           /\ Rank(r) = 1 => r.pc = "put"
           /\ Rank(r) = 2 => r.pc \in StagePcs
           /\ Rank(r) = 3 => r.pc = "sent"
           /\ Rank(r) = 4 => r.pc = "showing"
           /\ Rank(r) = 5 => r.pc = "check"
BY DEF Rank, StagePcs

\* All calls but c are the same in cl and in cm.
Apart(cl, cm, c) == \A d \in Calls : d # c => cm[d] = cl[d]

LEMMA ListsSame ==
    ASSUME NEW cl, NEW cm, NEW c \in Calls, Apart(cl, cm, c), NEW s \in Seq(Calls), NEW P,
           Lists(cl, s, P), cl[c].pc \in P <=> cm[c].pc \in P
    PROVE  Lists(cm, s, P)
<1>1. \A i \in 1 .. Len(s) : s[i] \in Calls
  OBVIOUS
<1> QED BY <1>1 DEF Lists, Apart

LEMMA ListsAppend ==
    ASSUME NEW cl, NEW cm, NEW c \in Calls, Apart(cl, cm, c), NEW s \in Seq(Calls), NEW P,
           Lists(cl, s, P), cl[c].pc \notin P, cm[c].pc \in P
    PROVE  Lists(cm, Append(s, c), P)
<1>1. \A i \in 1 .. Len(s) : s[i] \in Calls /\ s[i] # c
  BY DEF Lists
<1>2. PICK t : t = Append(s, c)
  OBVIOUS
<1>3. /\ Len(t) = Len(s) + 1 /\ Len(s) \in Nat /\ t[Len(s) + 1] = c
      /\ \A i \in 1 .. Len(s) : t[i] = s[i]
  BY <1>2
<1>4. \A i \in 1 .. Len(t) : cm[t[i]].pc \in P
  BY <1>1, <1>3 DEF Lists, Apart
<1>5. \A i, j \in 1 .. Len(t) : t[i] = t[j] => i = j
  BY <1>1, <1>3 DEF Lists
<1>6. \A d \in Calls : cm[d].pc \in P => \E i \in 1 .. Len(t) : t[i] = d
  <2> SUFFICES ASSUME NEW d \in Calls, cm[d].pc \in P PROVE \E i \in 1 .. Len(t) : t[i] = d
    OBVIOUS
  <2>1. CASE d = c
    BY <1>3, <2>1
  <2>2. CASE d # c
    <3>1. PICK i \in 1 .. Len(s) : s[i] = d
      BY <2>2 DEF Lists, Apart
    <3>2. i \in 1 .. Len(t) /\ t[i] = d
      BY <1>3, <3>1
    <3> QED BY <3>2
  <2> QED BY <2>1, <2>2
<1>7. Lists(cm, t, P)
  BY <1>4, <1>5, <1>6 DEF Lists
<1> QED BY <1>2, <1>7

LEMMA TailFacts ==
    ASSUME NEW s \in Seq(Calls), s # <<>>
    PROVE  /\ Tail(s) \in Seq(Calls) /\ Len(s) \in Nat \ {0} /\ Len(Tail(s)) = Len(s) - 1
           /\ \A i \in 1 .. Len(Tail(s)) : i + 1 \in 2 .. Len(s) /\ Tail(s)[i] = s[i + 1]
           /\ Head(s) = s[1]
OBVIOUS

LEMMA ListsTail ==
    ASSUME NEW cl, NEW cm, NEW c \in Calls, Apart(cl, cm, c), NEW s \in Seq(Calls), NEW P,
           Lists(cl, s, P), s # <<>>, c = Head(s), cm[c].pc \notin P
    PROVE  Lists(cm, Tail(s), P) /\ \A i \in 1 .. Len(Tail(s)) : Tail(s)[i] # c /\ Tail(s)[i] \in Calls
<1>1. PICK t : t = Tail(s)
  OBVIOUS
<1>2. /\ t \in Seq(Calls) /\ Len(s) \in Nat \ {0} /\ Len(t) = Len(s) - 1
      /\ \A i \in 1 .. Len(t) : i + 1 \in 2 .. Len(s) /\ t[i] = s[i + 1]
      /\ c = s[1]
  BY <1>1, TailFacts
<1>3. \A i \in 1 .. Len(t) : t[i] # c /\ t[i] \in Calls
  <2> SUFFICES ASSUME NEW i \in 1 .. Len(t) PROVE t[i] # c /\ t[i] \in Calls
    OBVIOUS
  <2>1. i + 1 \in 1 .. Len(s) /\ i + 1 # 1 /\ 1 \in 1 .. Len(s)
    BY <1>2
  <2>2. s[i + 1] # s[1]
    BY <2>1 DEF Lists
  <2> QED BY <1>2, <2>2
<1>4. \A i \in 1 .. Len(t) : cm[t[i]].pc \in P
  <2> SUFFICES ASSUME NEW i \in 1 .. Len(t) PROVE cm[t[i]].pc \in P
    OBVIOUS
  <2>1. i + 1 \in 1 .. Len(s) /\ t[i] = s[i + 1]
    BY <1>2
  <2>2. cl[t[i]].pc \in P
    BY <2>1 DEF Lists
  <2> QED BY <1>3, <2>2 DEF Apart
<1>5. \A i, j \in 1 .. Len(t) : t[i] = t[j] => i = j
  <2> SUFFICES ASSUME NEW i \in 1 .. Len(t), NEW j \in 1 .. Len(t), t[i] = t[j] PROVE i = j
    OBVIOUS
  <2>1. i + 1 \in 1 .. Len(s) /\ j + 1 \in 1 .. Len(s) /\ s[i + 1] = s[j + 1]
    BY <1>2
  <2>2. i + 1 = j + 1
    BY <2>1 DEF Lists
  <2> QED BY <2>2
<1>6. \A d \in Calls : cm[d].pc \in P => \E i \in 1 .. Len(t) : t[i] = d
  <2> SUFFICES ASSUME NEW d \in Calls, cm[d].pc \in P PROVE \E i \in 1 .. Len(t) : t[i] = d
    OBVIOUS
  <2>1. d # c /\ cl[d].pc \in P
    BY DEF Apart
  <2>2. PICK k \in 1 .. Len(s) : s[k] = d
    BY <2>1 DEF Lists
  <2>3. k # 1
    BY <1>2, <2>1, <2>2
  <2>4. k - 1 \in 1 .. Len(t) /\ t[k - 1] = d
    BY <1>2, <2>2, <2>3
  <2> QED BY <2>4
<1>7. Lists(cm, t, P)
  BY <1>4, <1>5, <1>6 DEF Lists
<1> QED BY <1>1, <1>3, <1>7

\* A call outside s, or one whose rank falls to none, or stays with what it
\* read, leaves the order of s.
LEMMA OrderSame ==
    ASSUME NEW cl, NEW cm, NEW c \in Calls, Apart(cl, cm, c), NEW s \in Seq(Calls), InOrder(cl, s),
           \/ Rank(cm[c]) = 0
           \/ Rank(cm[c]) = Rank(cl[c]) /\ cm[c].env = cl[c].env
           \/ \A i \in 1 .. Len(s) : s[i] # c
    PROVE  InOrder(cm, s)
<1>1. \A i \in 1 .. Len(s) : s[i] \in Calls
  OBVIOUS
<1> QED BY <1>1 DEF InOrder, Apart

LEMMA OrderAppend ==
    ASSUME NEW cl, NEW cm, NEW c \in Calls, Apart(cl, cm, c), NEW s \in Seq(Calls), InOrder(cl, s),
           \A i \in 1 .. Len(s) : s[i] # c,
           \A d \in Calls : d # c /\ Rank(cl[d]) # 0 /\ Rank(cl[d]) = Rank(cm[c])
                                => cl[d].env.gen <= cm[c].env.gen
    PROVE  InOrder(cm, Append(s, c))
<1>1. \A i \in 1 .. Len(s) : s[i] \in Calls /\ s[i] # c /\ cm[s[i]] = cl[s[i]]
  BY DEF Apart
<1>2. PICK t : t = Append(s, c)
  OBVIOUS
<1>3. /\ Len(t) = Len(s) + 1 /\ Len(s) \in Nat /\ t[Len(s) + 1] = c
      /\ \A i \in 1 .. Len(s) : t[i] = s[i]
  BY <1>2
<1>4. ASSUME NEW i \in 1 .. Len(t), NEW j \in 1 .. Len(t), i < j, Rank(cm[t[i]]) # 0,
             Rank(cm[t[i]]) = Rank(cm[t[j]])
      PROVE  cm[t[i]].env.gen <= cm[t[j]].env.gen
  <2>1. i \in 1 .. Len(s) /\ t[i] = s[i]
    BY <1>3, <1>4
  <2>2. CASE j = Len(s) + 1
    BY <1>1, <1>3, <1>4, <2>1, <2>2
  <2>3. CASE j \in 1 .. Len(s)
    BY <1>1, <1>3, <1>4, <2>1, <2>3 DEF InOrder
  <2> QED BY <1>3, <2>2, <2>3
<1>5. InOrder(cm, t)
  BY <1>4 DEF InOrder
<1> QED BY <1>2, <1>5

LEMMA OrderTail ==
    ASSUME NEW cl, NEW cm, NEW c \in Calls, Apart(cl, cm, c), NEW s \in Seq(Calls), s # <<>>,
           InOrder(cl, s), \A i \in 1 .. Len(Tail(s)) : Tail(s)[i] # c
    PROVE  InOrder(cm, Tail(s))
<1>1. PICK t : t = Tail(s)
  OBVIOUS
<1>2. /\ t \in Seq(Calls) /\ Len(s) \in Nat \ {0} /\ Len(t) = Len(s) - 1
      /\ \A i \in 1 .. Len(t) : i + 1 \in 2 .. Len(s) /\ t[i] = s[i + 1]
  BY <1>1, TailFacts
<1>3. \A i \in 1 .. Len(t) : cm[t[i]] = cl[t[i]]
  BY <1>1, <1>2 DEF Apart
<1>4. ASSUME NEW i \in 1 .. Len(t), NEW j \in 1 .. Len(t), i < j, Rank(cm[t[i]]) # 0,
             Rank(cm[t[i]]) = Rank(cm[t[j]])
      PROVE  cm[t[i]].env.gen <= cm[t[j]].env.gen
  <2>1. i + 1 \in 1 .. Len(s) /\ j + 1 \in 1 .. Len(s) /\ i + 1 < j + 1
        /\ t[i] = s[i + 1] /\ t[j] = s[j + 1]
    BY <1>2, <1>4
  <2>2. cm[t[i]] = cl[s[i + 1]] /\ cm[t[j]] = cl[s[j + 1]]
    BY <1>3, <2>1
  <2> QED BY <1>4, <2>1, <2>2 DEF InOrder
<1>5. InOrder(cm, t)
  BY <1>4 DEF InOrder
<1> QED BY <1>1, <1>5

\* The head of s read first among those of its rank in s.
LEMMA HeadFirst ==
    ASSUME NEW cl, NEW s \in Seq(Calls), s # <<>>, NEW P, Lists(cl, s, P), InOrder(cl, s),
           NEW d \in Calls, cl[d].pc \in P, d # Head(s), Rank(cl[d]) # 0,
           Rank(cl[d]) = Rank(cl[Head(s)])
    PROVE  cl[Head(s)].env.gen <= cl[d].env.gen
<1>1. PICK k \in 1 .. Len(s) : s[k] = d
  BY DEF Lists
<1>2. Head(s) = s[1] /\ 1 \in 1 .. Len(s) /\ k # 1
  BY <1>1, TailFacts
<1>3. 1 < k
  BY <1>2
<1> QED BY <1>1, <1>2, <1>3 DEF InOrder

LEMMA RanksMove ==
    ASSUME NEW cl, NEW cm, NEW c \in Calls, Apart(cl, cm, c), RanksOrder(cl),
           \A d \in Calls : d # c =>
               /\ (Rank(cl[d]) # 0 /\ Rank(cl[d]) < Rank(cm[c])) => cl[d].env.gen <= cm[c].env.gen
               /\ (Rank(cm[c]) # 0 /\ Rank(cm[c]) < Rank(cl[d])) => cm[c].env.gen <= cl[d].env.gen
    PROVE  RanksOrder(cm)
<1> SUFFICES ASSUME NEW d \in Calls, NEW e \in Calls, Rank(cm[d]) # 0, Rank(cm[d]) < Rank(cm[e])
             PROVE  cm[d].env.gen <= cm[e].env.gen
  BY DEF RanksOrder
<1>1. CASE d = c /\ e = c
  BY <1>1, RankFacts
<1>2. CASE d = c /\ e # c
  BY <1>2 DEF Apart
<1>3. CASE d # c /\ e = c
  BY <1>3 DEF Apart
<1>4. CASE d # c /\ e # c
  BY <1>4 DEF Apart, RanksOrder
<1> QED BY <1>1, <1>2, <1>3, <1>4

\* A step that moves no call between the lists.
LEMMA OrderQuiet ==
    ASSUME TypeInv, OrderInv, NEW c \in Calls, Apart(call, call', c), UNCHANGED <<queue, answered>>,
           idb'.env = idb.env, FloorBelow', call[c].pc \notin {"check", "sent", "ask", "put"},
           call'[c].pc \notin {"check", "sent", "ask", "put", "showing"},
           call'[c].pc \in {"floor", "raise"} =>
                call[c].pc \in {"floor", "raise"} /\ call'[c].next = call[c].next,
           \/ Rank(call'[c]) = 0
           \/ /\ Rank(call'[c]) = Rank(call[c])
              /\ call'[c].env = call[c].env /\ call'[c].next = call[c].next
    PROVE  OrderInv'
<1>1. queue \in Seq(Calls) /\ answered \in Seq(Calls)
  BY DEF TypeInv, RestOk
<1>2. PICK cm : cm = call'
  OBVIOUS
<1>3. Lists(cm, queue, {"check", "sent", "ask"}) /\ Lists(cm, answered, {"put"})
  <2>1. Lists(call, queue, {"check", "sent", "ask"}) /\ Lists(call, answered, {"put"})
    BY DEF OrderInv
  <2> QED BY <1>1, <1>2, <2>1, ListsSame
<1>4. InOrder(cm, queue) /\ InOrder(cm, answered)
  <2>1. InOrder(call, queue) /\ InOrder(call, answered)
    BY DEF OrderInv
  <2> QED BY <1>1, <1>2, <2>1, OrderSame
<1>5. RanksOrder(cm)
  <2>1. RanksOrder(call)
    BY DEF OrderInv
  <2>2. \A d \in Calls : d # c =>
               /\ (Rank(call[d]) # 0 /\ Rank(call[d]) < Rank(cm[c])) => call[d].env.gen <= cm[c].env.gen
               /\ (Rank(cm[c]) # 0 /\ Rank(cm[c]) < Rank(call[d])) => cm[c].env.gen <= call[d].env.gen
    BY <1>2, <2>1, RankFacts DEF RanksOrder
  <2> QED BY <1>2, <2>1, <2>2, RanksMove
<1>6. OneShows(cm)
  BY <1>2 DEF OrderInv, OneShows, Apart
<1>7. \A d \in Calls : NearStored(cm[d], idb.env.gen)
  <2>1. \A d \in Calls : NearStored(call[d], idb.env.gen)
    BY DEF OrderInv
  <2>2. NearStored(cm[c], idb.env.gen)
    BY <1>2, <2>1 DEF NearStored
  <2> QED BY <1>2, <2>1, <2>2 DEF Apart
<1> QED BY <1>2, <1>3, <1>4, <1>5, <1>6, <1>7 DEF OrderInv

\* The worker takes a message and the call is done with the envelope.
LEMMA OrderPop ==
    ASSUME TypeInv, OrderInv, NEW c \in Calls, Apart(call, call', c), queue # <<>>, c = Head(queue),
           queue' = Tail(queue), answered' = answered, idb'.env = idb.env, idb'.floor = idb.floor,
           call[c].pc \in {"check", "sent", "ask"},
           call'[c].pc \notin {"check", "sent", "ask", "put", "showing", "raise"}, Rank(call'[c]) = 0,
           call'[c].pc = "floor" => call[c].pc = "ask" /\ call'[c].next = call[c].next
    PROVE  OrderInv'
<1>1. queue \in Seq(Calls) /\ answered \in Seq(Calls)
  BY DEF TypeInv, RestOk
<1>2. PICK cm : cm = call'
  OBVIOUS
<1>3. Lists(cm, Tail(queue), {"check", "sent", "ask"}) /\ Lists(cm, answered, {"put"})
      /\ \A i \in 1 .. Len(Tail(queue)) : Tail(queue)[i] # c
  <2>1. Lists(call, queue, {"check", "sent", "ask"}) /\ Lists(call, answered, {"put"})
    BY DEF OrderInv
  <2>2. Lists(cm, answered, {"put"})
    BY <1>1, <1>2, <2>1, ListsSame
  <2> QED BY <1>1, <1>2, <2>1, <2>2, ListsTail
<1>4. InOrder(cm, Tail(queue)) /\ InOrder(cm, answered)
  <2>1. InOrder(call, queue) /\ InOrder(call, answered)
    BY DEF OrderInv
  <2>2. InOrder(cm, answered)
    BY <1>1, <1>2, <2>1, OrderSame
  <2>3. InOrder(cm, Tail(queue))
    BY <1>1, <1>2, <1>3, <2>1, OrderTail
  <2> QED BY <2>2, <2>3
<1>5. RanksOrder(cm)
  <2>1. RanksOrder(call)
    BY DEF OrderInv
  <2>2. \A d \in Calls : Rank(call[d]) \in 0 .. 5
    BY RankFacts
  <2> QED BY <1>2, <2>1, <2>2, RanksMove
<1>6. OneShows(cm)
  BY <1>2 DEF OrderInv, OneShows, Apart
<1>7. \A d \in Calls : NearStored(cm[d], idb.env.gen)
  <2>1. \A d \in Calls : NearStored(call[d], idb.env.gen)
    BY DEF OrderInv
  <2>2. NearStored(cm[c], idb.env.gen)
    BY <1>2, <2>1 DEF NearStored
  <2> QED BY <1>2, <2>1, <2>2 DEF Apart
<1>8. FloorBelow'
  BY DEF OrderInv, FloorBelow
<1> QED BY <1>2, <1>3, <1>4, <1>5, <1>6, <1>7, <1>8 DEF OrderInv

\* A call posts a message: it has just read the envelope, or is the one whose
\* prompt was showing, or does not change the envelope.
LEMMA OrderPost ==
    ASSUME TypeInv, OrderInv, NEW c \in Calls, Apart(call, call', c), queue' = Append(queue, c),
           answered' = answered, idb'.env = idb.env, idb'.floor = idb.floor,
           call[c].pc \notin {"check", "sent", "ask", "put"}, call'[c].pc \in {"check", "sent"},
           \/ Rank(call'[c]) = 0
           \/ Rank(call'[c]) = 5 /\ call'[c].env = idb.env
           \/ Rank(call[c]) = 4 /\ Rank(call'[c]) = 3 /\ call'[c].env = call[c].env
    PROVE  OrderInv'
<1>1. queue \in Seq(Calls) /\ answered \in Seq(Calls) /\ idb.env.gen \in Nat
      /\ \A d \in Calls : call[d].env.gen \in Nat
  BY DEF TypeInv, RestOk, IdbOk, EnvT, CallsOk, CallT
<1>2. PICK cm : cm = call'
  OBVIOUS
<1>3. Lists(call, queue, {"check", "sent", "ask"}) /\ Lists(call, answered, {"put"})
      /\ InOrder(call, queue) /\ InOrder(call, answered) /\ RanksOrder(call) /\ OneShows(call)
      /\ \A d \in Calls : NearStored(call[d], idb.env.gen)
  BY DEF OrderInv
<1>4. /\ \A i \in 1 .. Len(queue) : queue[i] # c
      /\ \A i \in 1 .. Len(answered) : answered[i] # c
  BY <1>3 DEF Lists
<1>5. Lists(cm, Append(queue, c), {"check", "sent", "ask"})
  BY <1>1, <1>2, <1>3, ListsAppend
<1>6. Lists(cm, answered, {"put"})
  BY <1>1, <1>2, <1>3, ListsSame
<1>7. InOrder(cm, answered)
  BY <1>1, <1>2, <1>3, <1>4, OrderSame
<1>8. \A d \in Calls : d # c =>
               /\ (Rank(call[d]) # 0 /\ Rank(call[d]) <= Rank(cm[c])) => call[d].env.gen <= cm[c].env.gen
               /\ (Rank(cm[c]) # 0 /\ Rank(cm[c]) < Rank(call[d])) => cm[c].env.gen <= call[d].env.gen
  <2> SUFFICES ASSUME NEW d \in Calls, d # c
               PROVE  /\ (Rank(call[d]) # 0 /\ Rank(call[d]) <= Rank(cm[c])) => call[d].env.gen <= cm[c].env.gen
                      /\ (Rank(cm[c]) # 0 /\ Rank(cm[c]) < Rank(call[d])) => cm[c].env.gen <= call[d].env.gen
    OBVIOUS
  <2>1. Rank(call[d]) \in 0 .. 5
    BY RankFacts
  <2>2. CASE Rank(cm[c]) = 0
    BY <2>1, <2>2
  <2>3. CASE Rank(cm[c]) = 5 /\ cm[c].env = idb.env
    BY <1>3, <2>1, <2>3 DEF NearStored
  <2>4. CASE Rank(call[c]) = 4 /\ Rank(cm[c]) = 3 /\ cm[c].env = call[c].env
    <3>1. Rank(call[d]) # 4
      BY <1>3, <2>4, RankFacts DEF OneShows
    <3>2. Rank(call[d]) # 0 /\ Rank(call[d]) < 4 => call[d].env.gen <= call[c].env.gen
      BY <1>3, <2>4 DEF RanksOrder
    <3>3. 4 < Rank(call[d]) => call[c].env.gen <= call[d].env.gen
      BY <1>3, <2>4 DEF RanksOrder
    <3> QED BY <2>1, <2>4, <3>1, <3>2, <3>3
  <2> QED BY <1>2, <2>2, <2>3, <2>4
<1>9. InOrder(cm, Append(queue, c))
  <2>1. \A d \in Calls : d # c /\ Rank(call[d]) # 0 /\ Rank(call[d]) = Rank(cm[c])
                                => call[d].env.gen <= cm[c].env.gen
    BY <1>8, RankFacts
  <2> QED BY <1>1, <1>2, <1>3, <1>4, <2>1, OrderAppend
<1>10. RanksOrder(cm)
  <2>1. \A d \in Calls : d # c =>
               /\ (Rank(call[d]) # 0 /\ Rank(call[d]) < Rank(cm[c])) => call[d].env.gen <= cm[c].env.gen
               /\ (Rank(cm[c]) # 0 /\ Rank(cm[c]) < Rank(call[d])) => cm[c].env.gen <= call[d].env.gen
    BY <1>8, RankFacts, SMTT(30)
  <2> QED BY <1>2, <1>3, <2>1, RanksMove
<1>11. OneShows(cm)
  BY <1>2, <1>3 DEF OneShows, Apart
<1>12. \A d \in Calls : NearStored(cm[d], idb.env.gen)
  <2>1. NearStored(cm[c], idb.env.gen)
    <3>1. NearStored(call[c], idb.env.gen)
      BY <1>3
    <3> QED BY <1>1, <1>2, <3>1 DEF NearStored
  <2> QED BY <1>2, <1>3, <2>1 DEF Apart
<1>13. FloorBelow'
  BY DEF OrderInv, FloorBelow
<1> QED BY <1>2, <1>5, <1>6, <1>7, <1>9, <1>10, <1>11, <1>12, <1>13 DEF OrderInv

\* Of the calls whose messages wait, the first to have read goes first.
LEMMA RanksTake ==
    ASSUME NEW cl, NEW cm, NEW c \in Calls, Apart(cl, cm, c), RanksOrder(cl), NEW s \in Seq(Calls), s # <<>>,
           Lists(cl, s, {"check", "sent", "ask"}), InOrder(cl, s), c = Head(s), cm[c].env = cl[c].env,
           Rank(cl[c]) \in {3, 5}, Rank(cm[c]) < Rank(cl[c]),
           \A d \in Calls : d # c => ~(Rank(cm[c]) < Rank(cl[d]) /\ Rank(cl[d]) < Rank(cl[c]))
    PROVE  RanksOrder(cm)
<1>1. ASSUME NEW d \in Calls, d # c
      PROVE  /\ (Rank(cl[d]) # 0 /\ Rank(cl[d]) < Rank(cm[c])) => cl[d].env.gen <= cm[c].env.gen
             /\ (Rank(cm[c]) # 0 /\ Rank(cm[c]) < Rank(cl[d])) => cm[c].env.gen <= cl[d].env.gen
  <2>1. Rank(cl[d]) \in 0 .. 5 /\ Rank(cm[c]) \in 0 .. 5
    BY RankFacts
  <2>2. ASSUME Rank(cl[d]) = Rank(cl[c]) PROVE cl[c].env.gen <= cl[d].env.gen
    <3>1. cl[d].pc \in {"check", "sent", "ask"} /\ Rank(cl[d]) # 0
      BY <2>2, RankFacts
    <3> QED BY <1>1, <2>2, <3>1, HeadFirst
  <2>3. Rank(cl[d]) > Rank(cl[c]) => cl[c].env.gen <= cl[d].env.gen
    BY <2>1 DEF RanksOrder
  <2>4. Rank(cl[d]) # 0 /\ Rank(cl[d]) < Rank(cl[c]) => cl[d].env.gen <= cl[c].env.gen
    BY <2>1 DEF RanksOrder
  <2> QED BY <1>1, <2>1, <2>2, <2>3, <2>4
<1> QED BY <1>1, RanksMove

\* What a step that pops the queue leaves of it.
LEMMA QueueTail ==
    ASSUME TypeInv, OrderInv, NEW c \in Calls, NEW cm, Apart(call, cm, c), queue # <<>>, c = Head(queue),
           cm[c].pc \notin {"check", "sent", "ask"}
    PROVE  Lists(cm, Tail(queue), {"check", "sent", "ask"}) /\ InOrder(cm, Tail(queue))
<1>1. queue \in Seq(Calls) /\ Lists(call, queue, {"check", "sent", "ask"}) /\ InOrder(call, queue)
  BY DEF TypeInv, RestOk, OrderInv
<1>2. Lists(cm, Tail(queue), {"check", "sent", "ask"}) /\ \A i \in 1 .. Len(Tail(queue)) : Tail(queue)[i] # c
  BY <1>1, ListsTail
<1> QED BY <1>1, <1>2, OrderTail

\* The worker answers envelope_generation, and the prompt shows.
LEMMA OrderShow ==
    ASSUME TypeInv, OrderInv, NEW c \in Calls, Apart(call, call', c), queue # <<>>, c = Head(queue),
           queue' = Tail(queue), answered' = answered, idb' = idb, call'[c].env = call[c].env,
           call[c].pc = "check", call'[c].pc = "showing", \A d \in Calls : call[d].pc # "showing"
    PROVE  OrderInv'
<1>1. queue \in Seq(Calls) /\ answered \in Seq(Calls)
  BY DEF TypeInv, RestOk
<1>2. PICK cm : cm = call'
  OBVIOUS
<1>3. Lists(call, queue, {"check", "sent", "ask"}) /\ Lists(call, answered, {"put"})
      /\ InOrder(call, queue) /\ InOrder(call, answered) /\ RanksOrder(call)
      /\ \A d \in Calls : NearStored(call[d], idb.env.gen)
  BY DEF OrderInv
<1>4. Rank(call[c]) = 5 /\ Rank(cm[c]) = 4
  BY <1>2, RankFacts
<1>5. Lists(cm, Tail(queue), {"check", "sent", "ask"}) /\ InOrder(cm, Tail(queue))
  BY <1>2, QueueTail
<1>6. \A i \in 1 .. Len(answered) : answered[i] # c
  BY <1>3 DEF Lists
<1>7. Lists(cm, answered, {"put"}) /\ InOrder(cm, answered)
  <2>1. Lists(cm, answered, {"put"})
    BY <1>1, <1>2, <1>3, ListsSame
  <2>2. InOrder(cm, answered)
    BY <1>1, <1>2, <1>3, <1>6, OrderSame
  <2> QED BY <2>1, <2>2
<1>8. \A d \in Calls : Rank(call[d]) # 4 /\ Rank(call[d]) \in 0 .. 5
  BY RankFacts
<1>9. RanksOrder(cm)
  <2>1. /\ RanksOrder(call) /\ queue \in Seq(Calls) /\ Lists(call, queue, {"check", "sent", "ask"})
        /\ InOrder(call, queue) /\ cm[c].env = call[c].env /\ Apart(call, cm, c)
        /\ Rank(call[c]) \in {3, 5} /\ Rank(cm[c]) < Rank(call[c])
    BY <1>1, <1>2, <1>3, <1>4
  <2>2. \A d \in Calls : d # c => ~(Rank(cm[c]) < Rank(call[d]) /\ Rank(call[d]) < Rank(call[c]))
    BY <1>4, <1>8
  <2> QED BY <2>1, <2>2, RanksTake
<1>10. OneShows(cm)
  BY <1>2 DEF OneShows, Apart
<1>11. \A d \in Calls : NearStored(cm[d], idb.env.gen)
  <2>1. NearStored(cm[c], idb.env.gen)
    BY <1>2, <1>3, <1>4 DEF NearStored
  <2> QED BY <1>2, <1>3, <2>1 DEF Apart
<1>12. FloorBelow'
  BY DEF OrderInv, FloorBelow
<1> QED BY <1>2, <1>5, <1>7, <1>9, <1>10, <1>11, <1>12 DEF OrderInv

\* The worker takes a message that changes the envelope, when it runs no
\* rotation: it answers at once, or begins one.
LEMMA OrderTake ==
    ASSUME TypeInv, OrderInv, NEW c \in Calls, Apart(call, call', c), queue # <<>>, c = Head(queue),
           queue' = Tail(queue), idb' = idb, call'[c].env = call[c].env,
           call'[c].next.gen = call[c].env.gen + 1, call[c].pc = "sent", call[c].op \notin {"sql", "lock"},
           \A d \in Calls : call[d].pc \notin StagePcs,
           \/ call'[c].pc = "put" /\ answered' = Append(answered, c)
           \/ call'[c].pc = "stage" /\ answered' = answered
    PROVE  OrderInv'
<1>1. queue \in Seq(Calls) /\ answered \in Seq(Calls)
  BY DEF TypeInv, RestOk
<1>2. PICK cm : cm = call'
  OBVIOUS
<1>3. Lists(call, queue, {"check", "sent", "ask"}) /\ Lists(call, answered, {"put"})
      /\ InOrder(call, queue) /\ InOrder(call, answered) /\ RanksOrder(call) /\ OneShows(call)
      /\ \A d \in Calls : NearStored(call[d], idb.env.gen)
  BY DEF OrderInv
<1>4. Rank(call[c]) = 3 /\ Rank(cm[c]) \in {1, 2} /\ cm[c].pc \in {"put", "stage"}
  <2>1. Rank(call[c]) = 3
    BY RankFacts
  <2>2. Rank(cm[c]) \in {1, 2}
    BY <1>2, RankFacts DEF StagePcs
  <2> QED BY <1>2, <2>1, <2>2
<1>5. Lists(cm, Tail(queue), {"check", "sent", "ask"}) /\ InOrder(cm, Tail(queue))
  BY <1>2, QueueTail
<1>6. \A i \in 1 .. Len(answered) : answered[i] # c
  BY <1>3 DEF Lists
<1>7. ASSUME call'[c].pc = "put", answered' = Append(answered, c)
      PROVE  Lists(cm, answered', {"put"}) /\ InOrder(cm, answered')
  <2>1. Rank(cm[c]) = 1
    BY <1>2, <1>7, RankFacts
  <2>2. \A d \in Calls : d # c /\ Rank(call[d]) # 0 /\ Rank(call[d]) = Rank(cm[c])
                            => call[d].env.gen <= cm[c].env.gen
    BY <1>2, <1>3, <1>4, <2>1 DEF RanksOrder
  <2>3. Lists(cm, Append(answered, c), {"put"})
    BY <1>1, <1>2, <1>3, <1>7, ListsAppend
  <2>4. InOrder(cm, Append(answered, c))
    BY <1>1, <1>2, <1>3, <1>6, <2>2, OrderAppend
  <2> QED BY <1>2, <1>7, <2>3, <2>4
<1>8. ASSUME call'[c].pc = "stage", answered' = answered
      PROVE  Lists(cm, answered', {"put"}) /\ InOrder(cm, answered')
  <2>1. Lists(cm, answered, {"put"}) /\ InOrder(cm, answered)
    BY <1>1, <1>2, <1>3, <1>6, <1>8, ListsSame, OrderSame
  <2> QED BY <1>2, <1>8, <2>1
<1>9. Lists(cm, answered', {"put"}) /\ InOrder(cm, answered')
  BY <1>2, <1>7, <1>8
<1>10. \A d \in Calls : Rank(call[d]) # 2 /\ Rank(call[d]) \in 0 .. 5
  BY RankFacts
<1>11. RanksOrder(cm)
  <2>1. /\ RanksOrder(call) /\ queue \in Seq(Calls) /\ Lists(call, queue, {"check", "sent", "ask"})
        /\ InOrder(call, queue) /\ cm[c].env = call[c].env /\ Apart(call, cm, c)
        /\ Rank(call[c]) \in {3, 5} /\ Rank(cm[c]) < Rank(call[c])
    BY <1>1, <1>2, <1>3, <1>4
  <2>2. \A d \in Calls : d # c => ~(Rank(cm[c]) < Rank(call[d]) /\ Rank(call[d]) < Rank(call[c]))
    BY <1>4, <1>10
  <2> QED BY <2>1, <2>2, RanksTake
<1>12. OneShows(cm)
  BY <1>2, <1>3 DEF OneShows, Apart
<1>13. \A d \in Calls : NearStored(cm[d], idb.env.gen)
  <2>1. NearStored(cm[c], idb.env.gen)
    BY <1>2, <1>3, <1>4 DEF NearStored
  <2> QED BY <1>2, <1>3, <2>1 DEF Apart
<1>14. FloorBelow'
  BY DEF OrderInv, FloorBelow
<1> QED BY <1>2, <1>5, <1>9, <1>11, <1>12, <1>13, <1>14 DEF OrderInv

\* A rotation answers: it was the only one to run.
LEMMA OrderAnswer ==
    ASSUME TypeInv, OrderInv, NEW c \in Calls, Apart(call, call', c), queue' = queue,
           answered' = Append(answered, c), idb' = idb, call'[c].env = call[c].env,
           call'[c].next = call[c].next, call[c].pc \in StagePcs, call'[c].pc = "put",
           \A d \in Calls : d # c => call[d].pc \notin StagePcs
    PROVE  OrderInv'
<1>1. queue \in Seq(Calls) /\ answered \in Seq(Calls)
  BY DEF TypeInv, RestOk
<1>2. PICK cm : cm = call'
  OBVIOUS
<1>3. Lists(call, queue, {"check", "sent", "ask"}) /\ Lists(call, answered, {"put"})
      /\ InOrder(call, queue) /\ InOrder(call, answered) /\ RanksOrder(call) /\ OneShows(call)
      /\ \A d \in Calls : NearStored(call[d], idb.env.gen)
  BY DEF OrderInv
<1>4. Rank(call[c]) = 2 /\ Rank(cm[c]) = 1 /\ call[c].pc \notin {"check", "sent", "ask", "put"}
  BY <1>2, RankFacts DEF StagePcs
<1>5. /\ \A i \in 1 .. Len(answered) : answered[i] # c
      /\ \A i \in 1 .. Len(queue) : queue[i] # c
  BY <1>3, <1>4 DEF Lists
<1>6. Lists(cm, queue, {"check", "sent", "ask"}) /\ InOrder(cm, queue)
  <2>1. InOrder(cm, queue)
    BY <1>1, <1>2, <1>3, <1>5, OrderSame
  <2>2. call[c].pc \in {"check", "sent", "ask"} <=> cm[c].pc \in {"check", "sent", "ask"}
    BY <1>2, <1>4
  <2> QED BY <1>1, <1>2, <1>3, <2>1, <2>2, ListsSame
<1>7. \A d \in Calls : /\ Rank(call[d]) = 1 => call[d].env.gen <= cm[c].env.gen
                       /\ Rank(call[d]) > 2 => cm[c].env.gen <= call[d].env.gen
                       /\ d # c => Rank(call[d]) # 2
                       /\ Rank(call[d]) \in 0 .. 5
  BY <1>2, <1>3, <1>4, RankFacts DEF RanksOrder
<1>8. Lists(cm, Append(answered, c), {"put"})
  BY <1>1, <1>2, <1>3, <1>4, ListsAppend
<1>9. InOrder(cm, Append(answered, c))
  BY <1>1, <1>2, <1>3, <1>4, <1>5, <1>7, OrderAppend
<1>10. RanksOrder(cm)
  BY <1>2, <1>3, <1>4, <1>7, RanksMove
<1>11. OneShows(cm)
  BY <1>2, <1>3 DEF OneShows, Apart
<1>12. \A d \in Calls : NearStored(cm[d], idb.env.gen)
  <2>1. NearStored(cm[c], idb.env.gen)
    BY <1>2, <1>3, <1>4 DEF NearStored
  <2> QED BY <1>2, <1>3, <2>1 DEF Apart
<1>13. FloorBelow'
  BY DEF OrderInv, FloorBelow
<1> QED BY <1>2, <1>6, <1>8, <1>9, <1>10, <1>11, <1>12, <1>13 DEF OrderInv

\* The first of the answered envelopes is stored: it is one past the stored
\* one, or as far; nothing that waits has read past it.
LEMMA OrderPut ==
    ASSUME TypeInv, OrderInv, NEW c \in Calls, Apart(call, call', c), queue' = Append(queue, c), answered # <<>>,
           c = Head(answered), answered' = Tail(answered), idb'.env = call[c].next,
           idb'.floor = idb.floor, call[c].pc = "put", call'[c].pc = "ask", call'[c].next = call[c].next
    PROVE  OrderInv'
<1>1. queue \in Seq(Calls) /\ answered \in Seq(Calls) /\ idb.env.gen \in Nat /\ idb.floor \in Nat
      /\ \A d \in Calls : call[d].env.gen \in Nat /\ call[d].next.gen \in Nat
  BY DEF TypeInv, RestOk, IdbOk, EnvT, CallsOk, CallT
<1>2. PICK cm : cm = call'
  OBVIOUS
<1>3. Lists(call, queue, {"check", "sent", "ask"}) /\ Lists(call, answered, {"put"})
      /\ InOrder(call, queue) /\ InOrder(call, answered) /\ RanksOrder(call) /\ OneShows(call)
      /\ \A d \in Calls : NearStored(call[d], idb.env.gen)
  BY DEF OrderInv
<1>4. Rank(call[c]) = 1 /\ Rank(cm[c]) = 0
  BY <1>2, RankFacts DEF StagePcs
<1>5. \A i \in 1 .. Len(queue) : queue[i] # c
  BY <1>3, <1>4 DEF Lists
<1>6. Lists(cm, Append(queue, c), {"check", "sent", "ask"}) /\ InOrder(cm, Append(queue, c))
  <2>1. Lists(cm, Append(queue, c), {"check", "sent", "ask"})
    BY <1>1, <1>2, <1>3, ListsAppend
  <2>2. \A d \in Calls : d # c /\ Rank(call[d]) # 0 /\ Rank(call[d]) = Rank(cm[c])
                                => call[d].env.gen <= cm[c].env.gen
    BY <1>4
  <2>3. InOrder(cm, Append(queue, c))
    BY <1>1, <1>2, <1>3, <1>5, <2>2, OrderAppend
  <2> QED BY <2>1, <2>3
<1>7. Lists(cm, Tail(answered), {"put"}) /\ \A i \in 1 .. Len(Tail(answered)) : Tail(answered)[i] # c
  BY <1>1, <1>2, <1>3, ListsTail
<1>8. InOrder(cm, Tail(answered))
  BY <1>1, <1>2, <1>3, <1>7, OrderTail
<1>9. RanksOrder(cm)
  <2>1. \A d \in Calls : Rank(call[d]) \in 0 .. 5
    BY RankFacts
  <2> QED BY <1>2, <1>3, <1>4, <2>1, RanksMove
<1>10. OneShows(cm)
  BY <1>2, <1>3 DEF OneShows, Apart
<1>11. PICK g : g = call[c].next.gen
  OBVIOUS
<1>12. g = call[c].env.gen + 1 /\ call[c].env.gen <= idb.env.gen /\ idb.env.gen <= g
  BY <1>3, <1>4, <1>11 DEF NearStored
<1>13. ASSUME NEW d \in Calls PROVE NearStored(cm[d], g)
  <2>1. CASE d = c
    BY <1>2, <1>4, <1>11, <1>1, <2>1 DEF NearStored
  <2>2. CASE d # c
    <3>1. cm[d] = call[d] /\ NearStored(call[d], idb.env.gen)
      BY <1>2, <1>3, <2>2 DEF Apart
    <3>2. ASSUME Rank(call[d]) # 0 PROVE call[c].env.gen <= call[d].env.gen
      <4>1. CASE Rank(call[d]) = 1
        <5>1. PICK P : P = {"put"}
          OBVIOUS
        <5>2. call[d].pc \in P
          BY <4>1, <5>1, RankFacts
        <5>3. Lists(call, answered, P) /\ InOrder(call, answered)
          BY <1>3, <5>1
        <5>4. d # Head(answered) /\ Rank(call[d]) # 0 /\ Rank(call[d]) = Rank(call[Head(answered)])
          BY <1>4, <2>2, <4>1
        <5>5. call[Head(answered)].env.gen <= call[d].env.gen
          BY <1>1, <5>2, <5>3, <5>4, HeadFirst
        <5> QED BY <5>5
      <4>2. CASE Rank(call[d]) # 1
        <5>1. Rank(call[d]) \in 0 .. 5
          BY RankFacts
        <5>2. Rank(call[c]) # 0 /\ Rank(call[c]) < Rank(call[d])
          BY <1>4, <3>2, <4>2, <5>1
        <5> QED BY <1>3, <5>2 DEF RanksOrder
      <4> QED BY <4>1, <4>2
    <3>3. Rank(call[d]) # 0 => call[d].env.gen <= g /\ g <= call[d].env.gen + 1
      <4>1. Rank(call[d]) # 0 => call[d].env.gen <= idb.env.gen
        BY <3>1 DEF NearStored
      <4>2. call[d].env.gen \in Nat /\ call[c].env.gen \in Nat /\ g \in Nat /\ idb.env.gen \in Nat
        BY <1>1, <1>11
      <4> QED BY <1>12, <3>2, <4>1, <4>2, SMTT(30)
    <3>4. call[d].pc \in {"ask", "floor", "raise"} => call[d].next.gen <= g
      BY <1>1, <1>12, <3>1, SMTT(30) DEF NearStored
    <3>5. Rank(call[d]) \in {1, 2} => call[d].next.gen = call[d].env.gen + 1
      BY <3>1 DEF NearStored
    <3> QED BY <3>1, <3>3, <3>4, <3>5 DEF NearStored
  <2> QED BY <2>1, <2>2
<1>14. FloorBelow'
  <2>1. idb.env.gen >= idb.floor
    BY <1>1 DEF OrderInv, FloorBelow
  <2> QED BY <1>1, <1>11, <1>12, <2>1 DEF FloorBelow
<1> QED BY <1>2, <1>6, <1>7, <1>8, <1>9, <1>10, <1>11, <1>13, <1>14 DEF OrderInv

LEMMA TouchApart ==
    ASSUME TypeInv, NEW c \in Calls, Touches(c)
    PROVE  Apart(call, call', c)
BY DEF TypeInv, CallsOk, Touches, Apart

\* A call that has just read the stored envelope.
LEMMA StartCall ==
    ASSUME TypeInv, NEW c \in Calls, NEW op,
           call' = [call EXCEPT ![c] = [Rest EXCEPT !.op = op, !.pc = "check",
                                        !.env = idb.env, !.epoch = idb.epoch]]
    PROVE  /\ Apart(call, call', c) /\ call'[c].op = op /\ call'[c].pc = "check"
           /\ call'[c].env = idb.env /\ call'[c].epoch = idb.epoch
<1>1. PICK r0 : r0 = Rest
  OBVIOUS
<1>2. PICK r : r = StartOf(r0, op, "check", idb.env, idb.epoch)
  OBVIOUS
<1>3. call' = [call EXCEPT ![c] = r]
  BY <1>1, <1>2 DEF StartOf
<1>4. Shaped(r0)
  BY <1>1, RestFields
<1>5. r.op = op /\ r.pc = "check" /\ r.env = idb.env /\ r.epoch = idb.epoch
  BY <1>2, <1>4, StartRec
<1> QED BY <1>3, <1>5 DEF TypeInv, CallsOk, Apart

\* A call of sql() or lock().
LEMMA PostCall ==
    ASSUME TypeInv, NEW c \in Calls, Sql(c) \/ Lock(c)
    PROVE  /\ Apart(call, call', c) /\ call'[c].op \in {"sql", "lock"} /\ call'[c].pc = "sent"
<1>1. CASE Sql(c)
  <2>1. PICK db \in Dbs : call' = [call EXCEPT ![c] = PostOf(Rest, "sql", "sent", db)]
    BY <1>1 DEF Sql, PostOf
  <2>2. PICK r0 : r0 = Rest
    OBVIOUS
  <2>3. PICK r : r = PostOf(r0, "sql", "sent", db)
    OBVIOUS
  <2>4. Shaped(r0)
    BY <2>2, RestFields
  <2>5. r.op = "sql" /\ r.pc = "sent"
    BY <2>3, <2>4, PostRec
  <2> QED BY <2>1, <2>2, <2>3, <2>5 DEF TypeInv, CallsOk, Apart
<1>2. CASE Lock(c)
  <2>1. PICK r0 : r0 = Rest
    OBVIOUS
  <2>2. PICK r1 : r1 = [r0 EXCEPT !.op = "lock"]
    OBVIOUS
  <2>3. PICK r2 : r2 = [r1 EXCEPT !.pc = "sent"]
    OBVIOUS
  <2>4. Shaped(r0)
    BY <2>1, RestFields
  <2>5. Shaped(r1) /\ r1.op = "lock"
    BY <2>2, <2>4, SetOp
  <2>6. r2.op = "lock" /\ r2.pc = "sent"
    BY <2>3, <2>5, SetPc
  <2>7. call' = [call EXCEPT ![c] = r2]
    BY <1>2, <2>1, <2>2, <2>3 DEF Lock
  <2> QED BY <2>6, <2>7 DEF TypeInv, CallsOk, Apart
<1> QED BY <1>1, <1>2

LEMMA ReturnApart ==
    ASSUME TypeInv, NEW c \in Calls, call' = Return(c)
    PROVE  Apart(call, call', c) /\ call'[c] = Rest /\ call'[c].pc = "idle" /\ Rank(call'[c]) = 0
<1>1. Apart(call, call', c) /\ call'[c] = Rest
  BY DEF TypeInv, CallsOk, Apart, Return
<1>2. Rest.pc = "idle"
  BY RestFields
<1>3. Rank(Rest) = 0
  BY <1>2, RankFacts DEF StagePcs
<1> QED BY <1>1, <1>2, <1>3

LEMMA GoApart ==
    ASSUME TypeInv, NEW c \in Calls, NEW p, call' = Go(c, p)
    PROVE  /\ Apart(call, call', c) /\ call'[c].pc = p
           /\ call'[c].op = call[c].op /\ call'[c].env = call[c].env /\ call'[c].next = call[c].next
           /\ call'[c].epoch = call[c].epoch /\ call'[c].dek = call[c].dek
           /\ call'[c].todo = call[c].todo /\ call'[c].db = call[c].db
<1>1. Apart(call, call', c) /\ call'[c] = [call[c] EXCEPT !.pc = p]
  BY DEF TypeInv, CallsOk, Apart, Go
<1>2. Shaped(call[c])
  BY DEF TypeInv, CallsOk, CallT
<1> QED BY <1>1, <1>2, SetPc

\* The steps of the SDK keep the order.
LEMMA OrderSdk ==
    ASSUME TypeInv, OrderInv, NEW c \in Calls, SdkStep(c)
    PROVE  OrderInv'
<1>1. CASE \E op : Starts(c, op)
  <2>1. PICK op : Starts(c, op)
    BY <1>1
  <2>2. Apart(call, call', c) /\ call'[c].pc = "check" /\ call'[c].env = idb.env
    BY <2>1, StartCall DEF Starts
  <2>3. call[c].pc = "idle" /\ queue' = Append(queue, c) /\ answered' = answered /\ idb' = idb
    BY <2>1 DEF Starts, At
  <2>4. Rank(call'[c]) = 5
    BY <2>2, RankFacts
  <2> QED BY <2>2, <2>3, <2>4, OrderPost
<1>2. CASE Sql(c) \/ Lock(c)
  <2>1. Apart(call, call', c) /\ call'[c].pc = "sent" /\ call'[c].op \in {"sql", "lock"}
    BY <1>2, PostCall
  <2>2. call[c].pc = "idle" /\ queue' = Append(queue, c) /\ answered' = answered /\ idb' = idb
    BY <1>2 DEF Sql, Lock, Posts, At
  <2>3. Rank(call'[c]) = 0
    BY <2>1, RankFacts
  <2> QED BY <2>1, <2>2, <2>3, OrderPost
<1>3. CASE Confirm(c)
  <2>1. /\ call[c].pc = "showing" /\ call' = Go(c, "sent") /\ queue' = Append(queue, c)
        /\ answered' = answered /\ idb' = idb
    BY <1>3 DEF Confirm, At
  <2>2. Apart(call, call', c) /\ call'[c].pc = "sent" /\ call'[c].env = call[c].env
    BY <2>1, GoApart
  <2>3. Rank(call[c]) = 4 /\ Rank(call'[c]) \in {0, 3}
    BY <2>1, <2>2, RankFacts
  <2> QED BY <2>1, <2>2, <2>3, OrderPost
<1>4. CASE Cancel(c)
  <2>1. /\ call[c].pc = "showing" /\ call' = Return(c) /\ UNCHANGED <<queue, answered, idb>>
    BY <1>4 DEF Cancel, At
  <2>2. Apart(call, call', c) /\ call'[c].pc = "idle" /\ Rank(call'[c]) = 0
    BY <2>1, ReturnApart
  <2>3. FloorBelow'
    BY <2>1 DEF OrderInv, FloorBelow
  <2> QED BY <2>1, <2>2, <2>3, OrderQuiet
<1>5. CASE Put(c)
  <2>1. /\ call[c].pc = "put" /\ c = Head(answered) /\ call' = Go(c, "ask") /\ queue' = Append(queue, c)
        /\ answered' = Tail(answered) /\ idb' = [idb EXCEPT !.env = call[c].next]
    BY <1>5 DEF Put, At
  <2>2. answered # <<>>
    BY <2>1, PutFirst DEF OrderInv, At
  <2>3. Apart(call, call', c) /\ call'[c].pc = "ask" /\ call'[c].next = call[c].next
    BY <2>1, GoApart
  <2>4. idb'.env = call[c].next /\ idb'.floor = idb.floor
    BY <2>1 DEF TypeInv, IdbOk
  <2> QED BY <2>1, <2>2, <2>3, <2>4, OrderPut
<1>6. CASE BumpFloor(c)
  <2>1. /\ call[c].pc = "raise" /\ UNCHANGED <<queue, answered>>
        /\ call' = Go(c, "token") \/ call' = Return(c)
    BY <1>6 DEF BumpFloor, At
  <2>2. PICK g : g = Generation(call[c].next)
    OBVIOUS
  <2>3. idb' = idb \/ idb' = [idb EXCEPT !.floor = g]
    BY <1>6, <2>2 DEF BumpFloor
  <2>4. idb'.env = idb.env /\ idb'.floor \in {idb.floor, g}
    BY <2>3 DEF TypeInv, IdbOk
  <2>5. Apart(call, call', c) /\ call'[c].pc \in {"token", "idle"}
    BY <2>1, GoApart, ReturnApart
  <2>6. Rank(call'[c]) = 0
    BY <2>5, RankFacts DEF StagePcs
  <2>7. idb.floor \in Nat /\ call[c].next.gen \in Nat /\ idb.env.gen \in Nat
    BY DEF TypeInv, IdbOk, EnvT, CallsOk, CallT
  <2>8. g \in Nat /\ g <= call[c].next.gen
    BY <2>2, <2>7, GenerationFacts
  <2>9. idb.floor <= idb.env.gen /\ call[c].next.gen <= idb.env.gen
    <3>1. FloorBelow /\ NearStored(call[c], idb.env.gen)
      BY DEF OrderInv
    <3> QED BY <2>1, <3>1 DEF NearStored, FloorBelow
  <2>10. FloorBelow'
    BY <2>4, <2>7, <2>8, <2>9 DEF FloorBelow
  <2> QED BY <2>1, <2>4, <2>5, <2>6, <2>10, OrderQuiet
<1>7. CASE DelEpoch(c)
  <2>1. /\ call[c].pc = "token" /\ UNCHANGED <<queue, answered>>
        /\ idb' = [idb EXCEPT !.epoch = NoToken] /\ call' = Go(c, "reopen")
    BY <1>7 DEF DelEpoch, At
  <2>2. idb'.env = idb.env /\ idb'.floor = idb.floor
    BY <2>1 DEF TypeInv, IdbOk
  <2>3. Apart(call, call', c) /\ call'[c].pc = "reopen"
    BY <2>1, GoApart
  <2>4. Rank(call'[c]) = 0
    BY <2>3, RankFacts DEF StagePcs
  <2>5. FloorBelow'
    BY <2>2 DEF OrderInv, FloorBelow
  <2> QED BY <2>1, <2>2, <2>3, <2>4, <2>5, OrderQuiet
<1>8. CASE Reopen(c)
  <2>1. call[c].pc = "reopen" /\ answered' = answered /\ idb' = idb
    BY <1>8 DEF Reopen, At
  <2>2. CASE CheckFresh(idb.env, idb.floor)
    <3>1. queue' = Append(queue, c)
      BY <1>8, <2>2 DEF Reopen
    <3>2. Apart(call, call', c) /\ call'[c].pc = "check" /\ call'[c].env = idb.env
      BY <1>8, <2>2, StartCall DEF Reopen
    <3>3. Rank(call'[c]) = 5
      BY <3>2, RankFacts
    <3> QED BY <2>1, <3>1, <3>2, <3>3, OrderPost
  <2>3. CASE ~CheckFresh(idb.env, idb.floor)
    <3>1. call' = Return(c) /\ queue' = queue
      BY <1>8, <2>3 DEF Reopen
    <3>2. Apart(call, call', c) /\ call'[c].pc = "idle" /\ Rank(call'[c]) = 0
      BY <3>1, ReturnApart
    <3>3. FloorBelow'
      BY <2>1 DEF OrderInv, FloorBelow
    <3> QED BY <2>1, <3>1, <3>2, <3>3, OrderQuiet
  <2> QED BY <2>2, <2>3
<1>9. CASE ReadFloor(c)
  <2>1. call[c].pc = "floor" /\ UNCHANGED <<queue, answered, idb>>
    BY <1>9 DEF ReadFloor, At
  <2>2. /\ call' = [call EXCEPT ![c] = call'[c]] /\ call'[c].pc = "raise"
        /\ call'[c].next = call[c].next
    BY <1>9, ReadFloorRec
  <2>3. Apart(call, call', c)
    BY <2>2 DEF TypeInv, CallsOk, Apart
  <2>4. Rank(call'[c]) = 0
    BY <2>2, RankFacts DEF StagePcs
  <2>5. FloorBelow'
    BY <2>1 DEF OrderInv, FloorBelow
  <2> QED BY <2>1, <2>2, <2>3, <2>4, <2>5, OrderQuiet
<1> QED BY <1>1, <1>2, <1>3, <1>4, <1>5, <1>6, <1>7, <1>8, <1>9
        DEF SdkStep, Unlock, AddRecoveryCode, RemoveMethod, RotateKey

LEMMA MoveApart ==
    ASSUME TypeInv, NEW c \in Calls, NEW p, NEW t,
           call' = [call EXCEPT ![c].pc = p, ![c].todo = t]
    PROVE  /\ Apart(call, call', c) /\ call'[c].pc = p /\ call'[c].todo = t
           /\ call'[c].op = call[c].op /\ call'[c].env = call[c].env /\ call'[c].next = call[c].next
           /\ call'[c].epoch = call[c].epoch /\ call'[c].dek = call[c].dek /\ call'[c].db = call[c].db
<1>1. PICK r : r = MoveOf(call[c], p, t)
  OBVIOUS
<1>2. Apart(call, call', c) /\ call'[c] = r
  BY <1>1 DEF TypeInv, CallsOk, Apart, MoveOf
<1>3. Shaped(call[c])
  BY DEF TypeInv, CallsOk, CallT
<1>4. /\ r.pc = p /\ r.todo = t /\ r.op = call[c].op /\ r.env = call[c].env /\ r.next = call[c].next
      /\ r.epoch = call[c].epoch /\ r.dek = call[c].dek /\ r.db = call[c].db
  BY <1>1, <1>3, MoveRec
<1> QED BY <1>2, <1>4

LEMMA TodoApart ==
    ASSUME TypeInv, NEW c \in Calls, NEW t, call' = [call EXCEPT ![c].todo = t]
    PROVE  /\ Apart(call, call', c) /\ call'[c].pc = call[c].pc /\ call'[c].todo = t
           /\ call'[c].op = call[c].op /\ call'[c].env = call[c].env /\ call'[c].next = call[c].next
           /\ call'[c].epoch = call[c].epoch /\ call'[c].dek = call[c].dek /\ call'[c].db = call[c].db
<1>1. PICK r : r = [call[c] EXCEPT !.todo = t]
  OBVIOUS
<1>2. Apart(call, call', c) /\ call'[c] = r
  BY <1>1 DEF TypeInv, CallsOk, Apart
<1>3. Shaped(call[c])
  BY DEF TypeInv, CallsOk, CallT
<1> QED BY <1>1, <1>2, <1>3, SetTodo, SMTT(30)

LEMMA AnswersApart ==
    ASSUME TypeInv, NEW c \in Calls, NEW x, Answers(c, x)
    PROVE  /\ Apart(call, call', c) /\ call'[c].pc = "put" /\ call'[c].next = x
           /\ call'[c].op = call[c].op /\ call'[c].env = call[c].env /\ answered' = Append(answered, c)
<1>1. PICK r : r = call[c]
  OBVIOUS
<1>2. PICK m : m = [r EXCEPT !.pc = "put"]
  OBVIOUS
<1>3. PICK q : q = [m EXCEPT !.next = x]
  OBVIOUS
<1>4. Apart(call, call', c) /\ call'[c] = q /\ answered' = Append(answered, c)
  BY <1>1, <1>2, <1>3 DEF Answers, TypeInv, CallsOk, Apart
<1>5. Shaped(r)
  BY <1>1 DEF TypeInv, CallsOk, CallT
<1>6. Shaped(m) /\ m.pc = "put" /\ m.op = r.op /\ m.env = r.env
  BY <1>2, <1>5, SetPc
<1>7. q.next = x /\ q.pc = m.pc /\ q.op = m.op /\ q.env = m.env
  BY <1>3, <1>6, SetNext
<1> QED BY <1>1, <1>4, <1>6, <1>7

\* The worker runs a call that has its message, and what it read stays.
LEMMA OrderRun ==
    ASSUME TypeInv, OrderInv, NEW c \in Calls, call[c].pc \in BusyPcs \cup {"install"},
           call' = call \/ Apart(call, call', c), UNCHANGED <<queue, answered, idb>>,
           call' = call \/ call'[c].pc \in BusyPcs \cup {"idle"},
           call'[c].pc \in StagePcs => /\ call[c].pc \in StagePcs
                                       /\ call'[c].env = call[c].env /\ call'[c].next = call[c].next
    PROVE  OrderInv'
<1>1. FloorBelow'
  BY DEF OrderInv, FloorBelow
<1>2. CASE call' = call
  BY <1>1, <1>2 DEF OrderInv
<1>3. CASE Apart(call, call', c) /\ call'[c].pc \in BusyPcs \cup {"idle"}
  <2>1. /\ call[c].pc \notin {"check", "sent", "ask", "put"}
        /\ call'[c].pc \notin {"check", "sent", "ask", "put", "showing", "floor", "raise"}
    BY <1>3 DEF BusyPcs, StagePcs, SwapPcs
  <2>2. \/ Rank(call'[c]) = 0
        \/ /\ Rank(call'[c]) = Rank(call[c])
           /\ call'[c].env = call[c].env /\ call'[c].next = call[c].next
    <3>1. CASE call'[c].pc \in StagePcs
      <4>1. Rank(call'[c]) = 2 /\ Rank(call[c]) = 2
        BY <3>1, RankFacts
      <4> QED BY <3>1, <4>1
    <3>2. CASE call'[c].pc \notin StagePcs
      BY <2>1, <3>2, RankFacts
    <3> QED BY <3>1, <3>2
  <2> QED BY <1>1, <1>3, <2>1, <2>2, OrderQuiet
<1> QED BY <1>2, <1>3

\* The steps of the worker keep the order.
LEMMA OrderWorker ==
    ASSUME TypeInv, OrderInv, NEW c \in Calls, WorkerStep(c)
    PROVE  OrderInv'
<1>0. /\ "stage" \in BusyPcs /\ "stageFill" \in BusyPcs /\ "intentFill" \in BusyPcs
      /\ "swap" \in BusyPcs /\ "swapFill" \in BusyPcs /\ "swapDrop" \in BusyPcs
      /\ "discard" \in BusyPcs /\ "apply" \in BusyPcs /\ "ready" \in BusyPcs /\ "commit" \in BusyPcs
  BY PcFacts
<1>1. ASSUME call' = Return(c), call[c].pc \in BusyPcs \cup {"install"}, UNCHANGED <<queue, answered, idb>>
      PROVE  OrderInv'
  <2>1. Apart(call, call', c) /\ call'[c].pc = "idle"
    BY <1>1, ReturnApart
  <2> QED BY <1>1, <2>1, OrderRun DEF StagePcs
<1>2. ASSUME NEW p \in BusyPcs, call' = Go(c, p), call[c].pc \in BusyPcs \cup {"install"},
             UNCHANGED <<queue, answered, idb>>, p \in StagePcs => call[c].pc \in StagePcs
      PROVE  OrderInv'
  <2>1. Apart(call, call', c) /\ call'[c].pc = p /\ call'[c].env = call[c].env /\ call'[c].next = call[c].next
    BY <1>2, GoApart
  <2> QED BY <1>2, <2>1, OrderRun
<1>3. ASSUME NEW p \in BusyPcs, NEW t, call' = [call EXCEPT ![c].pc = p, ![c].todo = t],
             call[c].pc \in BusyPcs, UNCHANGED <<queue, answered, idb>>,
             p \in StagePcs => call[c].pc \in StagePcs
      PROVE  OrderInv'
  <2>1. Apart(call, call', c) /\ call'[c].pc = p /\ call'[c].env = call[c].env /\ call'[c].next = call[c].next
    BY <1>3, MoveApart
  <2> QED BY <1>3, <2>1, OrderRun
<1>4. ASSUME call' = Return(c), call[c].pc \in {"check", "sent", "ask"}, queue # <<>>, c = Head(queue),
             queue' = Tail(queue), UNCHANGED <<answered, idb>>
      PROVE  OrderInv'
  <2>1. Apart(call, call', c) /\ call'[c].pc = "idle" /\ Rank(call'[c]) = 0
    BY <1>4, ReturnApart
  <2> QED BY <1>4, <2>1, OrderPop
<1>5. busy = {} => \A d \in Calls : call[d].pc \notin StagePcs
  BY DEF TypeInv, BusyOk, BusyPcs
<1>6. CASE TakeCheck(c)
  <2>1. /\ queue # <<>> /\ c = Head(queue) /\ call[c].pc = "check" /\ queue' = Tail(queue)
        /\ UNCHANGED <<answered, idb>>
    BY <1>6 DEF TakeCheck, At
  <2>2. CASE call' = Return(c)
    BY <1>4, <2>1, <2>2
  <2>3. CASE call' = Go(c, "showing") /\ \A d \in Calls : call[d].pc # "showing"
    <3>1. Apart(call, call', c) /\ call'[c].pc = "showing" /\ call'[c].env = call[c].env
      BY <2>3, GoApart
    <3> QED BY <2>1, <2>3, <3>1, OrderShow
  <2> QED BY <1>6, <2>2, <2>3 DEF TakeCheck, At
<1>7. CASE TakeLock(c)
  BY <1>4, <1>7, TakesFacts DEF TakeLock, At
<1>8. CASE TakeAdd(c)
  <2>1. /\ queue # <<>> /\ c = Head(queue) /\ call[c].pc = "sent" /\ queue' = Tail(queue)
        /\ busy = {} /\ call[c].op = "add" /\ idb' = idb
    BY <1>8, TakesFacts DEF TakeAdd, At
  <2>2. CASE call' = Return(c) /\ UNCHANGED answered
    BY <1>4, <2>1, <2>2
  <2>3. CASE Answers(c, AddSlot(call[c].env, OpenWith(call[c].env, Prf).dek, Code(n.codes + 1), Recovery))
    <3>1. PICK x : x = AddSlot(call[c].env, OpenWith(call[c].env, Prf).dek, Code(n.codes + 1), Recovery)
      OBVIOUS
    <3>2. x.gen = call[c].env.gen + 1
      BY <3>1, AddFacts
    <3>3. Answers(c, x)
      BY <2>3, <3>1
    <3>4. /\ Apart(call, call', c) /\ call'[c].pc = "put" /\ call'[c].next = x
          /\ call'[c].env = call[c].env /\ answered' = Append(answered, c)
      BY <3>3, AnswersApart
    <3> QED BY <1>5, <2>1, <3>2, <3>4, OrderTake
  <2> QED BY <1>8, <2>2, <2>3 DEF TakeAdd
<1>9. CASE TakeRemove(c)
  <2>1. /\ queue # <<>> /\ c = Head(queue) /\ call[c].pc = "sent" /\ queue' = Tail(queue)
        /\ busy = {} /\ call[c].op = "remove" /\ idb' = idb
    BY <1>9, TakesFacts DEF TakeRemove, At
  <2>2. CASE call' = Return(c) /\ UNCHANGED answered
    BY <1>4, <2>1, <2>2
  <2>3. CASE \E id : /\ ~IsRefused(RemoveSlot(call[c].env, OpenWith(call[c].env, Prf).dek, id))
                     /\ Answers(c, RemoveSlot(call[c].env, OpenWith(call[c].env, Prf).dek, id))
    <3>1. PICK id : /\ ~IsRefused(RemoveSlot(call[c].env, OpenWith(call[c].env, Prf).dek, id))
                    /\ Answers(c, RemoveSlot(call[c].env, OpenWith(call[c].env, Prf).dek, id))
      BY <2>3
    <3>2. PICK x : x = RemoveSlot(call[c].env, OpenWith(call[c].env, Prf).dek, id)
      OBVIOUS
    <3>3. x.gen = call[c].env.gen + 1
      BY <3>1, <3>2, RemoveFacts
    <3>4. Answers(c, x)
      BY <3>1, <3>2
    <3>5. /\ Apart(call, call', c) /\ call'[c].pc = "put" /\ call'[c].next = x
          /\ call'[c].env = call[c].env /\ answered' = Append(answered, c)
      BY <3>4, AnswersApart
    <3> QED BY <1>5, <2>1, <3>3, <3>5, OrderTake
  <2>4. IsRefused(Refused)
    BY DEF IsRefused, Refused
  <2> QED BY <1>9, <2>2, <2>3, <2>4 DEF TakeRemove
<1>10. CASE TakeRotate(c)
  <2>1. /\ queue # <<>> /\ c = Head(queue) /\ call[c].pc = "sent" /\ queue' = Tail(queue)
        /\ busy = {} /\ call[c].op = "rotate" /\ UNCHANGED <<answered, idb>>
    <3>1. Takes(c, {"rotate"}) /\ UNCHANGED <<answered, idb>>
      BY <1>10 DEF TakeRotate
    <3> QED BY <3>1, TakesFacts DEF At
  <2>2. CASE call' = Return(c)
    BY <1>4, <2>1, <2>2
  <2>3. CASE RotateBegins(c)
    <3>1. /\ Touches(c) /\ call'[c].pc = "stage" /\ call'[c].env = call[c].env
          /\ call'[c].next.gen = call[c].env.gen + 1
      BY <2>3, RotateBeginsT
    <3>2. Apart(call, call', c)
      BY <3>1, TouchApart
    <3> QED BY <1>5, <2>1, <3>1, <3>2, OrderTake
  <2> QED BY <1>10, <2>2, <2>3, TakeRotateCases
<1>11. CASE StageFile(c)
  <2>1. call[c].pc = "stage" /\ UNCHANGED <<queue, answered, idb>>
    BY <1>11 DEF StageFile, Runs, At
  <2>2. call' = Return(c) \/ call' = Go(c, "stageFill")
    BY <1>11 DEF StageFile, Fails
  <2> QED BY <1>0, <1>1, <1>2, <2>1, <2>2 DEF StagePcs
<1>12. CASE StageFill(c)
  <2>1. /\ call[c].pc = "stageFill" /\ UNCHANGED <<queue, answered, idb>>
        /\ call' = [call EXCEPT ![c].pc = "stage", ![c].todo = Tail(call[c].todo)]
    BY <1>12 DEF StageFill, Runs, At, TypeInv, CallsOk
  <2> QED BY <1>0, <1>3, <2>1 DEF StagePcs
<1>13. CASE StageIntent(c)
  <2>1. call[c].pc = "stage" /\ UNCHANGED <<queue, answered, idb>>
    BY <1>13 DEF StageIntent, Runs, At
  <2>2. call' = Return(c) \/ call' = Go(c, "intentFill")
    BY <1>13 DEF StageIntent, Fails
  <2> QED BY <1>0, <1>1, <1>2, <2>1, <2>2 DEF StagePcs
<1>14. CASE IntentFill(c)
  <2>1. call[c].pc = "intentFill" /\ UNCHANGED <<queue, idb>> /\ busy = {c}
    BY <1>14 DEF IntentFill, Runs, At
  <2>2. CASE call' = Return(c) /\ UNCHANGED answered
    BY <1>0, <1>1, <2>1, <2>2
  <2>3. CASE Answers(c, call[c].next)
    <3>1. /\ Apart(call, call', c) /\ call'[c].pc = "put" /\ call'[c].next = call[c].next
          /\ call'[c].env = call[c].env /\ answered' = Append(answered, c)
      BY <2>3, AnswersApart
    <3>2. \A d \in Calls : d # c => call[d].pc \notin StagePcs
      BY <2>1 DEF TypeInv, BusyOk, BusyPcs
    <3> QED BY <2>1, <3>1, <3>2, OrderAnswer DEF StagePcs
  <2> QED BY <1>14, <2>2, <2>3 DEF IntentFill
<1>15. CASE TakeOpen(c)
  <2>1. /\ queue # <<>> /\ c = Head(queue) /\ call[c].pc = "sent" /\ queue' = Tail(queue)
        /\ UNCHANGED <<answered, idb>>
    BY <1>15, TakesFacts DEF TakeOpen, At
  <2>2. CASE call' = Return(c)
    BY <1>4, <2>1, <2>2
  <2>3. CASE Touches(c) /\ call'[c].pc = "install"
    <3>1. Apart(call, call', c) /\ Rank(call'[c]) = 0
      BY <2>3, TouchApart, RankFacts DEF StagePcs
    <3> QED BY <2>1, <2>3, <3>1, OrderPop
  <2> QED BY <1>15, <2>2, <2>3, TakeOpenCases
<1>16. CASE Install(c)
  <2>1. call[c].pc = "install" /\ UNCHANGED <<queue, answered, idb>>
    BY <1>16 DEF Install, At
  <2>2. Touches(c) /\ call'[c].pc \in {"apply", "swap", "discard"}
    BY <1>16, InstallCases
  <2>3. Apart(call, call', c)
    BY <2>2, TouchApart
  <2>4. call'[c].pc \in BusyPcs /\ call'[c].pc \notin StagePcs
    BY <1>0, <2>2 DEF StagePcs
  <2> QED BY <2>1, <2>3, <2>4, OrderRun
<1>17. CASE SwapFile(c)
  <2>1. call[c].pc = "swap" /\ UNCHANGED <<queue, answered, idb>>
    BY <1>17 DEF SwapFile, Runs, At
  <2>2. CASE call' = Go(c, "swapFill")
    BY <1>0, <1>2, <2>1, <2>2 DEF StagePcs
  <2>3. CASE call' = [call EXCEPT ![c].todo = Tail(call[c].todo)]
    <3>1. Apart(call, call', c) /\ call'[c].pc = call[c].pc
      BY <2>3, TodoApart
    <3> QED BY <1>0, <2>1, <3>1, OrderRun DEF StagePcs
  <2>4. call' = Go(c, "swapFill") \/ call' = [call EXCEPT ![c].todo = Tail(call[c].todo)]
    BY <1>17 DEF SwapFile, TypeInv, CallsOk
  <2> QED BY <2>2, <2>3, <2>4
<1>18. CASE SwapFill(c)
  BY <1>0, <1>2, <1>18 DEF SwapFill, Runs, At, StagePcs
<1>19. CASE SwapDrop(c)
  <2>1. /\ call[c].pc = "swapDrop" /\ UNCHANGED <<queue, answered, idb>>
        /\ call' = [call EXCEPT ![c].pc = "swap", ![c].todo = Tail(call[c].todo)]
    BY <1>19 DEF SwapDrop, Runs, At, TypeInv, CallsOk
  <2> QED BY <1>0, <1>3, <2>1 DEF StagePcs
<1>20. CASE CarryAnchor(c)
  <2>1. call[c].pc = "swap" /\ call' = call /\ UNCHANGED <<queue, answered, idb>>
    BY <1>20 DEF CarryAnchor, Runs, At
  <2> QED BY <1>0, <2>1, OrderRun
<1>21. CASE DropIntent(c)
  BY <1>0, <1>2, <1>21 DEF DropIntent, Runs, At, StagePcs
<1>22. CASE Discard(c)
  <2>1. call[c].pc = "discard" /\ UNCHANGED <<queue, answered, idb>>
    BY <1>22 DEF Discard, Runs, At
  <2>2. CASE call' = call
    BY <1>0, <2>1, <2>2, OrderRun
  <2>3. CASE call' = Go(c, "apply")
    BY <1>0, <1>2, <2>1, <2>3 DEF StagePcs
  <2> QED BY <1>22, <2>2, <2>3 DEF Discard
<1>23. CASE ApplyEpoch(c)
  BY <1>0, <1>1, <1>23 DEF ApplyEpoch, Runs, At
<1>24. CASE TakeSql(c)
  <2>1. /\ queue # <<>> /\ c = Head(queue) /\ call[c].pc = "sent" /\ queue' = Tail(queue)
        /\ UNCHANGED <<answered, idb>>
    BY <1>24, TakesFacts DEF TakeSql, At
  <2>2. CASE call' = Return(c)
    BY <1>4, <2>1, <2>2
  <2>3. CASE call' = Go(c, "ready")
    <3>1. Apart(call, call', c) /\ call'[c].pc = "ready"
      BY <2>3, GoApart
    <3>2. Rank(call'[c]) = 0
      BY <3>1, RankFacts DEF StagePcs
    <3> QED BY <2>1, <3>1, <3>2, OrderPop
  <2> QED BY <1>24, <2>2, <2>3, TakeSqlCases
<1>25. CASE SqlRead(c)
  BY <1>0, <1>1, <1>25 DEF SqlRead, Runs, At
<1>26. CASE SqlBegin(c)
  <2>1. call[c].pc = "ready" /\ UNCHANGED <<queue, answered, idb>>
    BY <1>26 DEF SqlBegin, Runs, At
  <2>2. call' = Return(c) \/ call' = Go(c, "commit")
    BY <1>26 DEF SqlBegin, Fails
  <2> QED BY <1>0, <1>1, <1>2, <2>1, <2>2 DEF StagePcs
<1>27. CASE SqlCommit(c)
  BY <1>0, <1>1, <1>27 DEF SqlCommit, Runs, At
<1>28. CASE SqlBeginOver(c)
  BY <1>0, <1>2, <1>28 DEF SqlBeginOver, Runs, At, StagePcs
<1>29. CASE TakeAsk(c)
  <2>1. /\ queue # <<>> /\ c = Head(queue) /\ call[c].pc = "ask" /\ queue' = Tail(queue)
        /\ UNCHANGED <<answered, idb>> /\ call' = Go(c, "floor")
    BY <1>29 DEF TakeAsk, At
  <2>2. Apart(call, call', c) /\ call'[c].pc = "floor" /\ call'[c].next = call[c].next
    BY <2>1, GoApart
  <2>3. Rank(call'[c]) = 0
    BY <2>2, RankFacts DEF StagePcs
  <2> QED BY <2>1, <2>2, <2>3, OrderPop
<1> QED BY <1>6, <1>7, <1>8, <1>9, <1>10, <1>11, <1>12, <1>13, <1>14, <1>15, <1>16, <1>17, <1>18, <1>19,
           <1>20, <1>21, <1>22, <1>23, <1>24, <1>25, <1>26, <1>27, <1>28, <1>29 DEF WorkerStep

\* Every step keeps the order, and the envelope at or above its floor.
LEMMA OrderStep ==
    ASSUME TypeInv, OrderInv, [Next]_vars
    PROVE  OrderInv'
<1>1. CASE Crash
  <2>1. /\ queue' = <<>> /\ answered' = <<>> /\ idb' = idb /\ \A c \in Calls : call'[c] = Rest
    BY <1>1 DEF Crash
  <2>2. Rest.pc = "idle" /\ Rank(Rest) = 0
    BY RestFields, RankFacts DEF StagePcs
  <2>3. PICK cm : cm = call'
    OBVIOUS
  <2>4. Lists(cm, <<>>, {"check", "sent", "ask"}) /\ Lists(cm, <<>>, {"put"}) /\ InOrder(cm, <<>>)
    BY <2>1, <2>2, <2>3 DEF Lists, InOrder
  <2>5. RanksOrder(cm) /\ OneShows(cm) /\ \A c \in Calls : NearStored(cm[c], idb.env.gen)
    BY <2>1, <2>2, <2>3 DEF RanksOrder, OneShows, NearStored
  <2>6. FloorBelow'
    BY <2>1 DEF OrderInv, FloorBelow
  <2> QED BY <2>1, <2>3, <2>4, <2>5, <2>6 DEF OrderInv
<1>2. CASE UNCHANGED vars
  BY <1>2 DEF vars, OrderInv, FloorBelow
<1> QED BY <1>1, <1>2, OrderSdk, OrderWorker DEF Next

LEMMA OrderInit == Init => OrderInv
<1> SUFFICES ASSUME Init PROVE OrderInv
  OBVIOUS
<1>1. queue = <<>> /\ answered = <<>> /\ \A c \in Calls : call[c] = Rest
  BY DEF Init
<1>2. Rest.pc = "idle" /\ Rank(Rest) = 0
  BY RestFields, RankFacts DEF StagePcs
<1>3. Lists(call, queue, {"check", "sent", "ask"}) /\ Lists(call, answered, {"put"})
      /\ InOrder(call, queue) /\ InOrder(call, answered)
  BY <1>1, <1>2 DEF Lists, InOrder
<1>4. RanksOrder(call) /\ OneShows(call) /\ \A c \in Calls : NearStored(call[c], idb.env.gen)
  BY <1>1, <1>2 DEF RanksOrder, OneShows, NearStored
<1>5. FloorBelow
  <2>1. PICK e : e = CreateEnvelope(1, Prf, Passkey)
    OBVIOUS
  <2>2. e.gen = 1
    BY <2>1, CreateFacts
  <2>3. idb.env = e /\ idb.floor = 1
    BY <2>1 DEF Init
  <2> QED BY <2>2, <2>3 DEF FloorBelow
<1> QED BY <1>3, <1>4, <1>5 DEF OrderInv

-----------------------------------------------------------------------------
(* The number of slots. *)

\* The slots of e are a sequence of at most k.
FewSlots(e, k) == \E S : e.slots \in Seq(S) /\ Len(e.slots) <= k

\* A slot of the stored envelope is the passkey's or that of a code minted.
FewInv == /\ FewSlots(idb.env, 1 + n.codes)
          /\ \A c \in Calls : /\ FewSlots(call[c].env, 1 + n.codes)
                              /\ FewSlots(call[c].next, 1 + n.codes)

\* Fewer codes than a byte counts have been minted.
FewMethods == 1 + n.codes < IdSpace

LEMMA FewMore ==
    ASSUME NEW e, NEW k \in Nat, NEW m \in Nat, k <= m, FewSlots(e, k)
    PROVE  FewSlots(e, m)
<1>1. PICK S : e.slots \in Seq(S) /\ Len(e.slots) <= k
  BY DEF FewSlots
<1>2. Len(e.slots) \in Nat
  BY <1>1
<1> QED BY <1>1, <1>2 DEF FewSlots

LEMMA FewFinal ==
    ASSUME NEW g, NEW s, NEW S, s \in Seq(S), NEW k \in Nat, Len(s) <= k, NEW d
    PROVE  FewSlots(Finalize(g, s, d), k)
<1>1. Finalize(g, s, d).slots = s
  BY DEF Finalize
<1> QED BY <1>1 DEF FewSlots

LEMMA CreatedFew ==
    ASSUME NEW d, NEW s, NEW kind
    PROVE  FewSlots(CreateEnvelope(d, s, kind), 1)
<1>1. PICK w : w = WrapSlot(d, s, 0, kind)
  OBVIOUS
<1>2. PICK q : q = <<w>>
  OBVIOUS
<1>3. q \in Seq({w}) /\ Len(q) <= 1
  BY <1>2
<1>4. CreateEnvelope(d, s, kind) = Finalize(1, q, d)
  BY <1>1, <1>2 DEF CreateEnvelope
<1> QED BY <1>3, <1>4, FewFinal

LEMMA NoEnvFew ==
    ASSUME NEW k \in Nat, k >= 1
    PROVE  FewSlots(NoEnv, k)
BY CreatedFew, FewMore DEF NoEnv

LEMMA AppendFew ==
    ASSUME NEW S, NEW s \in Seq(S), NEW x
    PROVE  Append(s, x) \in Seq(S \cup {x}) /\ Len(Append(s, x)) = Len(s) + 1
<1>1. s \in Seq(S \cup {x})
  OBVIOUS
<1> QED BY <1>1

LEMMA AddFew ==
    ASSUME NEW e, NEW k \in Nat, FewSlots(e, k), NEW d, NEW s, NEW kind
    PROVE  FewSlots(AddSlot(e, d, s, kind), k + 1)
<1>1. PICK S : e.slots \in Seq(S) /\ Len(e.slots) <= k
  BY DEF FewSlots
<1>2. PICK w : w = WrapSlot(d, s, NextKekId(e), kind)
  OBVIOUS
<1>3. AddSlot(e, d, s, kind) = Finalize(e.gen + 1, Append(e.slots, w), d)
  BY <1>2 DEF AddSlot, Rebuild
<1>4. Append(e.slots, w) \in Seq(S \cup {w}) /\ Len(Append(e.slots, w)) = Len(e.slots) + 1
  BY <1>1, AppendFew
<1>5. PICK a, T : a = Append(e.slots, w) /\ T = S \cup {w}
  OBVIOUS
<1>6. a \in Seq(T) /\ Len(a) <= k + 1
  <2>1. Len(e.slots) \in Nat
    BY <1>1
  <2> QED BY <1>1, <1>4, <1>5, <2>1
<1>7. FewSlots(Finalize(e.gen + 1, a, d), k + 1)
  BY <1>6, FewFinal
<1> QED BY <1>3, <1>5, <1>7

LEMMA RemoveFew ==
    ASSUME NEW e, NEW k \in Nat, FewSlots(e, k), NEW d, NEW id, ~IsRefused(RemoveSlot(e, d, id))
    PROVE  FewSlots(RemoveSlot(e, d, id), k)
<1> DEFINE at   == {i \in DOMAIN e.slots : e.slots[i].id # id}
<1>1. PICK S : e.slots \in Seq(S) /\ Len(e.slots) <= k
  BY DEF FewSlots
<1>2. at \subseteq 1 .. Len(e.slots) /\ Len(e.slots) \in Nat
  BY <1>1
<1>3. RemoveSlot(e, d, id) = Rebuild(e, SlotsAt(e, at), d)
  <2>1. IsRefused(Refused)
    BY DEF IsRefused, Refused
  <2>2. RemoveSlot(e, d, id) = Refused \/ RemoveSlot(e, d, id) = Rebuild(e, SlotsAt(e, at), d)
    BY DEF RemoveSlot
  <2> QED BY <2>1, <2>2
<1> HIDE DEF at
<1>4. SlotsAt(e, at) = [i \in 1 .. Cardinality(at) |-> e.slots[Nth(at, i)]]
  BY DEF SlotsAt
<1>5. Cardinality(at) \in Nat /\ Cardinality(at) <= Len(e.slots)
  <2>1. PICK len \in Nat : len = Len(e.slots)
    BY <1>2
  <2>2. IsFiniteSet(1 .. len) /\ Cardinality(1 .. len) = len
    BY FS_Interval
  <2>3. at \subseteq 1 .. len
    BY <1>2, <2>1
  <2>4. IsFiniteSet(at) /\ Cardinality(at) <= Cardinality(1 .. len)
    BY <2>2, <2>3, FS_Subset
  <2> QED BY <2>1, <2>2, <2>4, FS_CardinalityType
<1>6. PICK c \in Nat : c = Cardinality(at)
  BY <1>5
<1>7. PICK s : s = [i \in 1 .. c |-> e.slots[Nth(at, i)]]
  OBVIOUS
<1>8. s \in Seq({s[i] : i \in 1 .. c}) /\ Len(s) = c
  BY <1>7
<1>9. RemoveSlot(e, d, id) = Finalize(e.gen + 1, s, d)
  BY <1>3, <1>4, <1>6, <1>7 DEF Rebuild
<1>10. Len(s) <= k
  BY <1>1, <1>2, <1>5, <1>6, <1>8
<1> QED BY <1>8, <1>9, <1>10, FewFinal

LEMMA RotateFew ==
    ASSUME NEW e, NEW d, NEW p, NEW s, NEW k \in Nat, k >= 2
    PROVE  FewSlots(RotateEnvelope(e, d, p, s), k)
<1>1. PICK f : f = CreateEnvelope(d, p, Passkey)
  OBVIOUS
<1>2. FewSlots(f, 1)
  BY <1>1, CreatedFew
<1>3. PICK a : a = AddSlot(f, d, s, Recovery)
  OBVIOUS
<1>4. FewSlots(a, 2)
  BY <1>2, <1>3, AddFew
<1>5. PICK S : a.slots \in Seq(S) /\ Len(a.slots) <= 2
  BY <1>4 DEF FewSlots
<1>6. Len(a.slots) \in Nat
  BY <1>5
<1>7. RotateEnvelope(e, d, p, s) = Finalize(e.gen + 1, a.slots, d)
  BY <1>1, <1>3 DEF RotateEnvelope
<1> QED BY <1>5, <1>6, <1>7, FewFinal

\* The counter of codes never falls.
LEMMA CodesStep ==
    ASSUME TypeInv, [Next]_vars
    PROVE  n.codes \in Nat /\ n'.codes \in Nat /\ n'.codes >= n.codes
<1>0. n \in Counters
  BY DEF TypeInv, RestOk
<1>1. CASE UNCHANGED n
  BY <1>0, <1>1 DEF Counters
<1>2. CASE \/ n' = [n EXCEPT !.calls = @ + 1] \/ n' = [n EXCEPT !.codes = @ + 1]
           \/ n' = [n EXCEPT !.writes = @ + 1] \/ n' = [n EXCEPT !.crashes = @ + 1]
  BY <1>0, <1>2 DEF Counters
<1>3. CASE \E c \in Calls : RotateBegins(c)
  BY <1>0, <1>3, RotateBeginsT DEF Counters
<1> QED BY <1>1, <1>2, <1>3, CounterSteps

\* A step that hands no new envelope to a call, and stores none.
LEMMA FewSame ==
    ASSUME TypeInv, FewInv, n.codes \in Nat, n'.codes \in Nat, n'.codes >= n.codes,
           FewSlots(idb'.env, 1 + n.codes), NEW c \in Calls, call' = call \/ Apart(call, call', c),
           call'[c].env \in {call[c].env, idb.env, NoEnv}, call'[c].next \in {call[c].next, NoEnv}
    PROVE  FewInv'
<1>1. \A e : FewSlots(e, 1 + n.codes) => FewSlots(e, 1 + n'.codes)
  BY FewMore
<1>2. FewSlots(NoEnv, 1 + n.codes)
  BY NoEnvFew
<1>3. ASSUME NEW d \in Calls
      PROVE  FewSlots(call'[d].env, 1 + n.codes) /\ FewSlots(call'[d].next, 1 + n.codes)
  <2>1. CASE d = c
    BY <1>2, <2>1 DEF FewInv
  <2>2. CASE d # c
    BY <2>2 DEF FewInv, Apart
  <2> QED BY <2>1, <2>2
<1> QED BY <1>1, <1>3 DEF FewInv

\* A step that hands call c an envelope of one slot more, at most.
LEMMA FewNew ==
    ASSUME TypeInv, FewInv, n.codes \in Nat, n'.codes \in Nat, n'.codes >= n.codes,
           idb' = idb, NEW c \in Calls, Apart(call, call', c),
           call'[c].env = call[c].env, FewSlots(call'[c].next, 1 + n'.codes)
    PROVE  FewInv'
<1>1. \A e : FewSlots(e, 1 + n.codes) => FewSlots(e, 1 + n'.codes)
  BY FewMore
<1>2. ASSUME NEW d \in Calls
      PROVE  FewSlots(call'[d].env, 1 + n'.codes) /\ FewSlots(call'[d].next, 1 + n'.codes)
  <2>1. CASE d = c
    BY <1>1, <2>1 DEF FewInv
  <2>2. CASE d # c
    BY <1>1, <2>2 DEF FewInv, Apart
  <2> QED BY <2>1, <2>2
<1> QED BY <1>1, <1>2 DEF FewInv

\* What a call that begins has not made yet.
LEMMA StartNext ==
    ASSUME TypeInv, NEW c \in Calls, NEW op,
           call' = [call EXCEPT ![c] = [Rest EXCEPT !.op = op, !.pc = "check",
                                        !.env = idb.env, !.epoch = idb.epoch]]
    PROVE  call'[c].next = NoEnv
<1>1. PICK r0 : r0 = Rest
  OBVIOUS
<1>2. PICK r : r = StartOf(r0, op, "check", idb.env, idb.epoch)
  OBVIOUS
<1>3. call' = [call EXCEPT ![c] = r]
  BY <1>1, <1>2 DEF StartOf
<1>4. Shaped(r0) /\ r0.next = NoEnv
  BY <1>1, RestFields
<1>5. r.next = NoEnv
  BY <1>2, <1>4, StartRec
<1> QED BY <1>3, <1>5 DEF TypeInv, CallsOk

LEMMA PostNext ==
    ASSUME TypeInv, NEW c \in Calls, Sql(c) \/ Lock(c)
    PROVE  call'[c].env = NoEnv /\ call'[c].next = NoEnv
<1>1. PICK r0 : r0 = Rest
  OBVIOUS
<1>2. Shaped(r0) /\ r0.env = NoEnv /\ r0.next = NoEnv
  BY <1>1, RestFields
<1>3. CASE Sql(c)
  <2>1. PICK db \in Dbs : call' = [call EXCEPT ![c] = PostOf(Rest, "sql", "sent", db)]
    BY <1>3 DEF Sql, PostOf
  <2>2. PICK r : r = PostOf(r0, "sql", "sent", db)
    OBVIOUS
  <2>3. r.env = NoEnv /\ r.next = NoEnv
    BY <1>2, <2>2, PostRec
  <2> QED BY <1>1, <2>1, <2>2, <2>3 DEF TypeInv, CallsOk
<1>4. CASE Lock(c)
  <2>1. PICK r1 : r1 = [r0 EXCEPT !.op = "lock"]
    OBVIOUS
  <2>2. PICK r2 : r2 = [r1 EXCEPT !.pc = "sent"]
    OBVIOUS
  <2>3. Shaped(r1) /\ r1.env = NoEnv /\ r1.next = NoEnv
    BY <1>2, <2>1, SetOp
  <2>4. r2.env = NoEnv /\ r2.next = NoEnv
    BY <2>2, <2>3, SetPc
  <2>5. call' = [call EXCEPT ![c] = r2]
    BY <1>1, <1>4, <2>1, <2>2 DEF Lock
  <2> QED BY <2>4, <2>5 DEF TypeInv, CallsOk
<1> QED BY <1>3, <1>4

LEMMA WorkerKeepsIdb ==
    ASSUME NEW c \in Calls, WorkerStep(c)
    PROVE  idb' = idb
<1>1. CASE TakeCheck(c) \/ TakeAsk(c) \/ TakeLock(c) \/ TakeAdd(c) \/ TakeRemove(c) \/ TakeRotate(c)
           \/ TakeOpen(c) \/ TakeSql(c)
  BY <1>1 DEF TakeCheck, TakeAsk, TakeLock, TakeAdd, TakeRemove, TakeRotate, TakeOpen, TakeSql
<1>2. CASE StageFile(c) \/ StageFill(c) \/ StageIntent(c) \/ IntentFill(c) \/ Install(c) \/ SwapFile(c)
           \/ SwapFill(c) \/ SwapDrop(c)
  BY <1>2 DEF StageFile, StageFill, StageIntent, IntentFill, Install, SwapFile, SwapFill, SwapDrop
<1>3. CASE CarryAnchor(c) \/ DropIntent(c) \/ Discard(c) \/ ApplyEpoch(c) \/ SqlRead(c) \/ SqlBegin(c)
           \/ SqlBeginOver(c) \/ SqlCommit(c)
  BY <1>3 DEF CarryAnchor, DropIntent, Discard, ApplyEpoch, SqlRead, SqlBegin, SqlBeginOver, SqlCommit
<1> QED BY <1>1, <1>2, <1>3 DEF WorkerStep

LEMMA FewSdk ==
    ASSUME TypeInv, FewInv, n.codes \in Nat, n'.codes \in Nat, n'.codes >= n.codes,
           NEW c \in Calls, SdkStep(c)
    PROVE  FewInv'
<1>0. FewSlots(idb.env, 1 + n.codes) /\ FewSlots(call[c].next, 1 + n.codes)
  BY DEF FewInv
<1>1. ASSUME idb'.env = idb.env, Apart(call, call', c), call'[c].env \in {call[c].env, idb.env, NoEnv},
             call'[c].next \in {call[c].next, NoEnv}
      PROVE  FewInv'
  BY <1>0, <1>1, FewSame
<1>2. ASSUME idb'.env = idb.env, NEW p, call' = Go(c, p) PROVE FewInv'
  BY <1>1, <1>2, GoApart
<1>3. ASSUME idb'.env = idb.env, call' = Return(c) PROVE FewInv'
  <2>1. Apart(call, call', c) /\ call'[c].env = NoEnv /\ call'[c].next = NoEnv
    BY <1>3, ReturnApart, RestFields
  <2> QED BY <1>1, <1>3, <2>1
<1>4. CASE \E op : Starts(c, op)
  <2>1. PICK op : Starts(c, op)
    BY <1>4
  <2>2. Apart(call, call', c) /\ call'[c].env = idb.env /\ call'[c].next = NoEnv /\ idb' = idb
    BY <2>1, StartNext, StartCall DEF Starts
  <2> QED BY <1>1, <2>2
<1>5. CASE Sql(c) \/ Lock(c)
  <2>1. Apart(call, call', c) /\ call'[c].env = NoEnv /\ call'[c].next = NoEnv /\ idb' = idb
    BY <1>5, PostNext, PostCall DEF Sql, Lock, Posts
  <2> QED BY <1>1, <2>1
<1>6. CASE Confirm(c)
  BY <1>2, <1>6 DEF Confirm
<1>7. CASE Cancel(c)
  BY <1>3, <1>7 DEF Cancel
<1>8. CASE Put(c)
  <2>1. idb'.env = call[c].next /\ call' = Go(c, "ask")
    BY <1>8 DEF Put, TypeInv, IdbOk
  <2>2. Apart(call, call', c) /\ call'[c].env = call[c].env /\ call'[c].next = call[c].next
    BY <2>1, GoApart
  <2> QED BY <1>0, <2>1, <2>2, FewSame
<1>9. CASE ReadFloor(c)
  <2>1. Apart(call, call', c)
    BY <1>9, ReadFloorRec DEF TypeInv, CallsOk, Apart
  <2>2. call'[c].env = call[c].env /\ call'[c].next = call[c].next /\ idb' = idb
    BY <1>9, ReadFloorRec DEF ReadFloor
  <2> QED BY <1>1, <2>1, <2>2
<1>10. CASE BumpFloor(c)
  <2>1. idb'.env = idb.env
    BY <1>10 DEF BumpFloor, TypeInv, IdbOk
  <2>2. call' = Go(c, "token") \/ call' = Return(c)
    BY <1>10 DEF BumpFloor
  <2> QED BY <1>2, <1>3, <2>1, <2>2
<1>11. CASE DelEpoch(c)
  <2>1. idb'.env = idb.env /\ call' = Go(c, "reopen")
    BY <1>11 DEF DelEpoch, TypeInv, IdbOk
  <2> QED BY <1>2, <2>1
<1>12. CASE Reopen(c)
  <2>1. CASE call' = Return(c)
    BY <1>3, <1>12, <2>1 DEF Reopen
  <2>2. CASE call' = [call EXCEPT ![c] = [Rest EXCEPT !.op = "reopen", !.pc = "check",
                                          !.env = idb.env, !.epoch = idb.epoch]]
    <3>1. Apart(call, call', c) /\ call'[c].env = idb.env /\ call'[c].next = NoEnv
      BY <2>2, StartNext, StartCall
    <3> QED BY <1>1, <1>12, <3>1 DEF Reopen
  <2> QED BY <1>12, <2>1, <2>2 DEF Reopen
<1> QED BY <1>4, <1>5, <1>6, <1>7, <1>8, <1>9, <1>10, <1>11, <1>12
        DEF SdkStep, Unlock, AddRecoveryCode, RemoveMethod, RotateKey

LEMMA FewWorker ==
    ASSUME TypeInv, FewInv, n.codes \in Nat, n'.codes \in Nat, n'.codes >= n.codes,
           NEW c \in Calls, WorkerStep(c)
    PROVE  FewInv'
<1>0. idb' = idb /\ FewSlots(idb.env, 1 + n.codes) /\ FewSlots(call[c].env, 1 + n.codes)
  <2>1. FewSlots(idb.env, 1 + n.codes) /\ FewSlots(call[c].env, 1 + n.codes)
    BY DEF FewInv
  <2> QED BY <2>1, WorkerKeepsIdb
<1>1. ASSUME call' = call \/ Apart(call, call', c), call'[c].env \in {call[c].env, NoEnv},
             call'[c].next \in {call[c].next, NoEnv}
      PROVE  FewInv'
  BY <1>0, <1>1, FewSame
<1>2. ASSUME NEW p, call' = Go(c, p) PROVE FewInv'
  BY <1>1, <1>2, GoApart
<1>3. ASSUME call' = Return(c) PROVE FewInv'
  <2>1. Apart(call, call', c) /\ call'[c].env = NoEnv /\ call'[c].next = NoEnv
    BY <1>3, ReturnApart, RestFields
  <2> QED BY <1>1, <2>1
<1>4. ASSUME NEW x, Answers(c, x), FewSlots(x, 1 + n'.codes) PROVE FewInv'
  BY <1>0, <1>4, AnswersApart, FewNew
<1>5. ASSUME NEW p, NEW t, call' = [call EXCEPT ![c].pc = p, ![c].todo = t] PROVE FewInv'
  BY <1>1, <1>5, MoveApart
<1>6. CASE TakeAdd(c)
  <2>1. CASE Answers(c, AddSlot(call[c].env, OpenWith(call[c].env, Prf).dek, Code(n.codes + 1), Recovery))
    <3>1. n'.codes = n.codes + 1
      BY <1>6 DEF TakeAdd, TypeInv, RestOk, Counters
    <3>2. PICK x : x = AddSlot(call[c].env, OpenWith(call[c].env, Prf).dek, Code(n.codes + 1), Recovery)
      OBVIOUS
    <3>3. FewSlots(x, (1 + n.codes) + 1) /\ (1 + n.codes) + 1 = 1 + n'.codes
      BY <1>0, <3>1, <3>2, AddFew
    <3> QED BY <1>4, <2>1, <3>2, <3>3
  <2> QED BY <1>3, <1>6, <2>1 DEF TakeAdd
<1>7. CASE TakeRemove(c)
  <2>1. CASE \E id : /\ ~IsRefused(RemoveSlot(call[c].env, OpenWith(call[c].env, Prf).dek, id))
                     /\ Answers(c, RemoveSlot(call[c].env, OpenWith(call[c].env, Prf).dek, id))
    <3>1. PICK id : /\ ~IsRefused(RemoveSlot(call[c].env, OpenWith(call[c].env, Prf).dek, id))
                    /\ Answers(c, RemoveSlot(call[c].env, OpenWith(call[c].env, Prf).dek, id))
      BY <2>1
    <3>2. PICK x : x = RemoveSlot(call[c].env, OpenWith(call[c].env, Prf).dek, id)
      OBVIOUS
    <3>3. FewSlots(x, 1 + n.codes)
      BY <1>0, <3>1, <3>2, RemoveFew
    <3>4. FewSlots(x, 1 + n'.codes)
      BY <3>3, FewMore
    <3> QED BY <1>4, <3>1, <3>2, <3>4
  <2>2. IsRefused(Refused)
    BY DEF IsRefused, Refused
  <2> QED BY <1>3, <1>7, <2>1, <2>2 DEF TakeRemove
<1>8. CASE TakeRotate(c)
  <2>1. CASE RotateBegins(c)
    <3>1. /\ Touches(c) /\ call'[c].env = call[c].env /\ n'.codes = n.codes + 1
          /\ call'[c].next = RotateEnvelope(call[c].env, n.deks + 1, Prf, Code(n.codes + 1))
      BY <2>1, RotateBeginsT
    <3>2. Apart(call, call', c)
      BY <3>1, TouchApart
    <3>3. FewSlots(call'[c].next, 1 + n'.codes)
      BY <3>1, RotateFew
    <3> QED BY <1>0, <3>1, <3>2, <3>3, FewNew
  <2> QED BY <1>3, <1>8, <2>1, TakeRotateCases
<1>9. CASE TakeCheck(c) \/ TakeAsk(c) \/ TakeLock(c) \/ ApplyEpoch(c) \/ SqlRead(c) \/ SqlCommit(c)
  BY <1>2, <1>3, <1>9 DEF TakeCheck, TakeAsk, TakeLock, ApplyEpoch, SqlRead, SqlCommit
<1>10. CASE StageFile(c) \/ StageIntent(c) \/ SqlBegin(c) \/ SqlBeginOver(c)
  BY <1>2, <1>3, <1>10 DEF StageFile, StageIntent, SqlBegin, SqlBeginOver, Fails
<1>11. CASE StageFill(c) \/ SwapDrop(c)
  <2>1. \E p : call' = [call EXCEPT ![c].pc = p, ![c].todo = Tail(call[c].todo)]
    BY <1>11 DEF StageFill, SwapDrop, TypeInv, CallsOk
  <2> QED BY <1>5, <2>1
<1>12. CASE SwapFill(c) \/ DropIntent(c)
  BY <1>2, <1>12 DEF SwapFill, DropIntent
<1>13. CASE CarryAnchor(c)
  BY <1>1, <1>13 DEF CarryAnchor
<1>14. CASE Discard(c)
  BY <1>1, <1>2, <1>14 DEF Discard
<1>15. CASE SwapFile(c)
  <2>1. CASE call' = Go(c, "swapFill")
    BY <1>2, <2>1
  <2>2. CASE call' = [call EXCEPT ![c].todo = Tail(call[c].todo)]
    BY <1>1, <2>2, TodoApart
  <2> QED BY <1>15, <2>1, <2>2 DEF SwapFile, TypeInv, CallsOk
<1>16. CASE IntentFill(c)
  <2>1. FewSlots(call[c].next, 1 + n'.codes)
    BY FewMore DEF FewInv
  <2> QED BY <1>3, <1>4, <1>16, <2>1 DEF IntentFill
<1>17. CASE TakeOpen(c)
  <2>1. CASE Touches(c) /\ call'[c].env = call[c].env /\ call'[c].next = call[c].next
    BY <1>1, <2>1, TouchApart
  <2> QED BY <1>3, <1>17, <2>1, TakeOpenCases
<1>18. CASE Install(c)
  BY <1>1, <1>18, InstallCases, TouchApart
<1>19. CASE TakeSql(c)
  BY <1>2, <1>3, <1>19, TakeSqlCases
<1> QED BY <1>6, <1>7, <1>8, <1>9, <1>10, <1>11, <1>12, <1>13, <1>14, <1>15, <1>16, <1>17, <1>18, <1>19
        DEF WorkerStep

LEMMA FewStep ==
    ASSUME TypeInv, FewInv, [Next]_vars
    PROVE  FewInv'
<1>1. n.codes \in Nat /\ n'.codes \in Nat /\ n'.codes >= n.codes
  BY CodesStep
<1>2. CASE Crash
  <2>1. idb' = idb /\ \A c \in Calls : call'[c].env = NoEnv /\ call'[c].next = NoEnv
    BY <1>2, RestFields DEF Crash
  <2>2. \A e : FewSlots(e, 1 + n.codes) => FewSlots(e, 1 + n'.codes)
    BY <1>1, FewMore
  <2>3. FewSlots(NoEnv, 1 + n.codes)
    BY <1>1, NoEnvFew
  <2> QED BY <2>1, <2>2, <2>3 DEF FewInv
<1>3. CASE UNCHANGED vars
  BY <1>3 DEF vars, FewInv
<1> QED BY <1>1, <1>2, <1>3, FewSdk, FewWorker DEF Next

LEMMA FewInit == Init => FewInv
<1> SUFFICES ASSUME Init PROVE FewInv
  OBVIOUS
<1>1. n.codes = 0 /\ \A c \in Calls : call[c].env = NoEnv /\ call[c].next = NoEnv
  BY RestFields DEF Init
<1>2. FewSlots(NoEnv, 1)
  BY NoEnvFew
<1>3. PICK e : e = CreateEnvelope(1, Prf, Passkey)
  OBVIOUS
<1>4. FewSlots(e, 1) /\ idb.env = e
  BY <1>3, CreatedFew DEF Init
<1> QED BY <1>1, <1>2, <1>4 DEF FewInv

LEMMA FewParses == TypeInv /\ FewInv /\ FewMethods => Parses(idb.env)
<1> SUFFICES ASSUME TypeInv, FewInv, FewMethods PROVE Parses(idb.env)
  OBVIOUS
<1>1. PICK S : idb.env.slots \in Seq(S) /\ Len(idb.env.slots) <= 1 + n.codes
  BY DEF FewInv, FewSlots
<1>2. n.codes \in Nat /\ IdSpace \in Nat /\ Len(idb.env.slots) \in Nat
  BY <1>1, IdSpaceAssumption DEF TypeInv, RestOk, Counters
<1> QED BY <1>1, <1>2 DEF FewMethods, Parses

\* TypeOK follows.
LEMMA TypeImplied ==
    ASSUME TypeInv, Used <= n.room
    PROVE  TypeOK
<1>1. idb.env.gen \in Nat /\ idb.floor \in Nat
  BY DEF TypeInv, IdbOk, EnvT
<1>2. DOMAIN files = Names
  BY DEF TypeInv, FilesT
<1>3. sess.open \subseteq Dbs /\ sess.wrote \subseteq sess.open /\ sess.leaked \subseteq Dbs
  BY DEF TypeInv, RestOk, Sessions, SessOk
<1>4. busy \subseteq Calls /\ Cardinality(busy) <= 1
  <2>1. busy \subseteq Calls /\ \A c, d \in busy : c = d
    BY DEF TypeInv, RestOk, BusyOk
  <2>2. CASE busy = {}
    BY <2>1, <2>2, FS_EmptySet
  <2>3. CASE busy # {}
    <3>1. PICK c \in busy : TRUE
      BY <2>3
    <3>2. busy = {c}
      BY <2>1, <3>1
    <3> QED BY <2>1, <3>2, FS_Singleton
  <2> QED BY <2>2, <2>3
<1>5. \A c \in Calls : c \in busy => call[c].pc # "idle"
  <2>1. "idle" \notin BusyPcs
    BY DEF BusyPcs, StagePcs, SwapPcs
  <2> QED BY <2>1 DEF TypeInv, BusyOk
<1> QED BY <1>1, <1>2, <1>3, <1>4, <1>5 DEF TypeOK

\* The worker runs one call at a time, and the pool never holds more files
\* than it has room for, whatever calls overlap and crashes come.
THEOREM VaultTypeCorrect == Spec => []TypeOK
<1>1. Init => TypeInv /\ OrderInv /\ Used <= n.room
  BY InitT, OrderInit, RoomInit
<1>2. TypeInv /\ OrderInv /\ Used <= n.room /\ [Next]_vars => (TypeInv /\ OrderInv /\ Used <= n.room)'
  <2> SUFFICES ASSUME TypeInv, OrderInv, Used <= n.room, [Next]_vars
               PROVE  TypeInv' /\ OrderInv' /\ (Used <= n.room)'
    OBVIOUS
  <2>1. TypeInv'
    BY TypeStep DEF OrderInv
  <2> QED BY <2>1, OrderStep, RoomStep
<1>3. TypeInv /\ OrderInv /\ Used <= n.room => TypeOK
  BY TypeImplied
<1> QED BY <1>1, <1>2, <1>3, PTL DEF Spec

\* However the calls that change the envelope overlap, #envelope() never refuses
\* the vault's own envelope while that parses, and it parses as long as fewer
\* methods have been added than its one byte counts, removed ones included.
THEOREM VaultNotLockedOut ==
    Spec => [](/\ Parses(idb.env) => NotLockedOut
               /\ FewMethods => Parses(idb.env))
<1>1. Init => TypeInv /\ OrderInv /\ FewInv
  BY InitT, OrderInit, FewInit
<1>2. TypeInv /\ OrderInv /\ FewInv /\ [Next]_vars => (TypeInv /\ OrderInv /\ FewInv)'
  <2> SUFFICES ASSUME TypeInv, OrderInv, FewInv, [Next]_vars PROVE TypeInv' /\ OrderInv' /\ FewInv'
    OBVIOUS
  <2>1. TypeInv'
    BY TypeStep DEF OrderInv
  <2> QED BY <2>1, OrderStep, FewStep
<1>3. TypeInv /\ OrderInv /\ FewInv
        => (Parses(idb.env) => NotLockedOut) /\ (FewMethods => Parses(idb.env))
  <2> SUFFICES ASSUME TypeInv, OrderInv, FewInv
               PROVE  (Parses(idb.env) => NotLockedOut) /\ (FewMethods => Parses(idb.env))
    OBVIOUS
  <2>1. idb.env.gen \in Nat /\ idb.floor \in Nat /\ FloorBelow
    BY DEF TypeInv, IdbOk, EnvT, OrderInv
  <2>2. Parses(idb.env) => Generation(idb.env) = idb.env.gen
    BY <2>1, GenerationFacts
  <2>3. Parses(idb.env) => NotLockedOut
    BY <2>1, <2>2 DEF NotLockedOut, CheckFresh, FloorBelow
  <2> QED BY <2>3, FewParses
<1> QED BY <1>1, <1>2, <1>3, PTL DEF Spec

-----------------------------------------------------------------------------
(* The stored key and the files: what steps leave alone. *)

LEMMA ServesSame ==
    ASSUME NEW f, NEW g, NEW db, NEW k, NEW v, Serves(f, k, db, v),
           g[Main(db)] = f[Main(db)], g[Mani(db)] = f[Mani(db)], g[Jrnl(db)] = f[Jrnl(db)]
    PROVE  Serves(g, k, db, v)
BY DEF Serves

LEMMA LoadSame ==
    ASSUME anchor' = anchor
    PROVE  \A k : AnchorLoad(k)' = AnchorLoad(k)
BY DEF AnchorLoad

LEMMA FloorSame ==
    ASSUME FloorFits, anchor' = anchor, StoredKey' = StoredKey, acked' = acked,
           Rolling' => Rolling /\ files'[Intent] = files[Intent]
    PROVE  FloorFits'
<1>1. AnchorLoad(StoredKey)' = AnchorLoad(StoredKey)
  BY DEF AnchorLoad
<1> QED BY <1>1 DEF FloorFits

\* A call that the worker does not run goes on, and the pool, the session and
\* the stored key stay as they are.
LEMMA SafeQuiet ==
    ASSUME TypeInv, Safe, NEW c \in Calls, Apart(call, call', c), call[c].pc \notin BusyPcs,
           UNCHANGED <<files, anchor, sess, busy, acked>>, StoredKey' = StoredKey, n'.deks >= n.deks,
           n.deks \in Nat, n'.deks \in Nat, ~Committing(c)',
           (call'[c].op = "rotate" /\ call'[c].pc \in {"check", "showing", "sent"}) =>
                \A db \in Dbs : files[Jrnl(db)] # Missing => db \in sess.wrote,
           (call'[c].pc = "put" /\ call'[c].op # "rotate") =>
                call'[c].next.mac.key = call'[c].env.mac.key
    PROVE  Safe'
<1>1. c \notin busy /\ busy \subseteq Calls /\ anchor.dek \in Nat
  BY DEF TypeInv, BusyOk, RestOk, Anchors
<1>2. \A d \in Calls : d # c => call'[d] = call[d]
  BY DEF Apart
<1>3. \A d \in busy : call'[d] = call[d]
  BY <1>1, <1>2
<1>4. Rolling' <=> Rolling
  BY DEF Rolling
<1>5. Fits'
  <2>1. \A x : RollsTo(x)' = RollsTo(x)
    BY DEF RollsTo
  <2> QED BY <1>4, <2>1 DEF Safe, Fits
<1>6. FloorFits'
  BY <1>4, FloorSame DEF Safe
<1>7. PoolFits'
  <2>1. PoolFits
    BY DEF Safe
  <2> QED BY <1>3, <1>4, <2>1 DEF PoolFits, At
<1>8. \A d \in busy' : RunFits(d)'
  <2> SUFFICES ASSUME NEW d \in busy PROVE RunFits(d)'
    OBVIOUS
  <2>1. call'[d] = call[d] /\ RunFits(d)
    BY <1>3 DEF Safe
  <2>2. StageFits(d) => StageFits(d)'
    BY <2>1 DEF StageFits, NoJournals, Shadowed
  <2> QED BY <1>4, <2>1, <2>2 DEF RunFits
<1>9. \A d \in Calls : CallFits(d)'
  <2> SUFFICES ASSUME NEW d \in Calls PROVE CallFits(d)'
    OBVIOUS
  <2>1. CallFits(d)
    BY DEF Safe
  <2>2. CASE d = c
    BY <2>2 DEF CallFits, At
  <2>3. CASE d # c
    <3>1. call'[d] = call[d]
      BY <1>2, <2>3
    <3>2. \A e \in Calls : Committing(e)' => Committing(e)
      BY <1>2 DEF Committing, At
    <3>3. CommitFits(d) => CommitFits(d)'
      <4>1. AnchorLoad(StoredKey)' = AnchorLoad(StoredKey)
        BY DEF AnchorLoad
      <4>2. (sess.pool = NoDek \/ \E o \in busy : At(o, "discard"))
                => (sess.pool = NoDek \/ \E o \in busy : At(o, "discard"))'
        BY <1>3 DEF At
      <4> QED BY <3>1, <4>1, <4>2 DEF CommitFits, NoJournals, Shadowed
    <3> QED BY <2>1, <3>1, <3>2, <3>3 DEF CallFits, At
  <2> QED BY <2>2, <2>3
<1> QED BY <1>1, <1>5, <1>6, <1>7, <1>8, <1>9 DEF Safe

\* A crash leaves the two stores.
LEMMA SafeCrash ==
    ASSUME TypeInv, Safe, Crash
    PROVE  Safe'
<1>1. /\ UNCHANGED <<idb, files, anchor, acked>> /\ busy' = {} /\ sess' = NoSession
      /\ \A c \in Calls : call'[c] = Rest
  BY DEF Crash
<1>2. Rest.pc = "idle"
  BY RestFields
<1>3. n'.deks = n.deks
  BY CountersT DEF Crash, TypeInv, RestOk
<1>4. (Rolling' <=> Rolling) /\ StoredKey' = StoredKey
  BY <1>1 DEF Rolling, StoredKey
<1>5. Fits'
  <2>1. \A x : RollsTo(x)' = RollsTo(x)
    BY <1>1 DEF RollsTo
  <2> QED BY <1>1, <1>4, <2>1 DEF Safe, Fits
<1>6. FloorFits'
  BY <1>1, <1>4, FloorSame DEF Safe
<1>7. PoolFits'
  BY <1>1 DEF PoolFits, NoSession
<1>8. \A d \in Calls : CallFits(d)'
  BY <1>1, <1>2 DEF CallFits, Committing, At
<1> QED BY <1>1, <1>3, <1>4, <1>5, <1>6, <1>7, <1>8 DEF Safe

\* No rotation is about to commit while there is no complete intent, or the
\* one there is has committed.
LEMMA NoneCommits ==
    ASSUME TypeInv, Safe, ~Written(files[Intent]) \/ Rolling
    PROVE  \A d \in Calls : ~Committing(d)
<1> SUFFICES ASSUME NEW d \in Calls, Committing(d) PROVE FALSE
  OBVIOUS
<1>1. CommitFits(d)
  BY DEF Safe, CallFits
<1>2. /\ call[d].next.mac.key # StoredKey /\ Written(files[Intent])
      /\ files[Intent].dek = call[d].next.mac.key
  BY <1>1 DEF CommitFits
<1> QED BY <1>2 DEF Rolling

\* What the other calls ask of the pool when none is about to commit.
LEMMA CallsFit ==
    ASSUME TypeInv, Safe, NEW c \in Calls, Apart(call, call', c), \A d \in Calls : ~Committing(d),
           call'[c].pc \notin {"check", "showing", "sent", "put"},
           (\A db \in Dbs : files[Jrnl(db)] # Missing => db \in sess.wrote)
                => (\A db \in Dbs : files'[Jrnl(db)] # Missing => db \in sess'.wrote)
    PROVE  \A d \in Calls : CallFits(d)'
<1> SUFFICES ASSUME NEW d \in Calls PROVE CallFits(d)'
  OBVIOUS
<1>1. CallFits(d)
  BY DEF Safe
<1>2. CASE d = c
  BY <1>2 DEF CallFits, Committing, At
<1>3. CASE d # c
  <2>1. call'[d] = call[d] /\ ~Committing(d)
    BY <1>3 DEF Apart
  <2> QED BY <1>1, <2>1 DEF CallFits, Committing, At
<1> QED BY <1>2, <1>3

\* An open session has no intent under it, unless one is being written.
LEMMA SessionFacts ==
    ASSUME TypeInv, Safe, sess.on, \A c \in busy : ~At(c, "intentFill")
    PROVE  /\ files[Intent] = Missing /\ ~Rolling /\ \A d \in Calls : ~Committing(d)
           /\ \A db \in Dbs : Serves(files, StoredKey, db, acked[db])
<1>1. files[Intent] = Missing
  BY DEF TypeInv, SessOk
<1>2. ~Rolling /\ ~Written(files[Intent])
  BY <1>1 DEF Rolling, Written
<1> QED BY <1>1, <1>2, NoneCommits DEF Safe, Fits

\* The types that the arguments about keys need.
LEMMA KeyFacts ==
    ASSUME TypeInv, Safe
    PROVE  /\ StoredKey \in Nat \ {0} /\ StoredKey <= n.deks /\ n.deks \in Nat
           /\ anchor \in Anchors /\ anchor.dek \in Nat /\ anchor.dek <= n.deks
           /\ sess \in Sessions /\ sess.leaked = {} /\ ~LockFails
           /\ \A db \in Dbs : acked[db] \in Nat \ {0}
<1>1. StoredKey \in 0 .. n.deks /\ n \in Counters /\ anchor \in Anchors /\ sess \in Sessions
      /\ acked \in [Dbs -> Nat \ {0}]
  BY DEF TypeInv, IdbOk, EnvT, StoredKey, RestOk
<1>2. n.deks \in Nat
  BY <1>1, CountersT
<1>3. StoredKey # 0 /\ anchor.dek <= n.deks /\ sess.leaked = {}
  BY DEF Safe, PoolFits, NoDek
<1> QED BY <1>1, <1>2, <1>3 DEF Anchors, LockFails

\* A rotation stores its envelope: from here on its intent rolls forward, and
\* the shadows are what the old key served.
LEMMA SafePutRotate ==
    ASSUME TypeInv, Safe, NEW c \in Calls, Put(c), call[c].op = "rotate", ~overtaken'
    PROVE  Safe'
<1>1. /\ Committing(c) /\ sess.pool = NoDek /\ UNCHANGED <<files, anchor, sess, busy, acked, n>>
      /\ call' = Go(c, "ask") /\ idb' = [idb EXCEPT !.env = call[c].next]
  BY DEF Put, Committing
<1>2. PICK k : k = call[c].next.mac.key
  OBVIOUS
<1>3. CommitFits(c) /\ \A d \in Calls : Committing(d) => d = c
  BY <1>1 DEF Safe, CallFits
<1>4. /\ k \notin {NoDek, StoredKey, anchor.dek} /\ NoJournals
      /\ Written(files[Intent]) /\ files[Intent].dek = k /\ files[Intent].dbs = Dbs
      /\ \A x \in LiveNames : Shadowed(x, k)
      /\ \A db \in Dbs : files[Intent].floor[db] = AnchorLoad(StoredKey).floor[db]
  BY <1>2, <1>3 DEF CommitFits
<1>5. StoredKey' = k
  BY <1>1, <1>2 DEF StoredKey, TypeInv, IdbOk
<1>6. Rolling' /\ ~Rolling
  BY <1>1, <1>4, <1>5 DEF Rolling
<1>7. busy = {}
  <2> SUFFICES ASSUME NEW o \in busy PROVE FALSE
    OBVIOUS
  <2>1. RunFits(o) /\ StoredKey # NoDek
    BY DEF Safe
  <2>2. call[o].pc \in StagePcs /\ sess.pool # StoredKey
    BY <1>1, <2>1 DEF RunFits
  <2>3. call[o].pc = "stage"
    BY <2>1, <2>2 DEF RunFits, StageFits
  <2>4. sess.on
    BY <2>2 DEF TypeInv, RunOk
  <2>5. files[Intent] # Missing
    BY <1>4 DEF Written
  <2>6. PICK q \in busy : call[q].pc = "intentFill"
    BY <2>4, <2>5 DEF TypeInv, SessOk, At
  <2>7. q = o
    BY DEF TypeInv, BusyOk
  <2> QED BY <2>3, <2>6, <2>7
<1>8. Fits'
  <2>1. ASSUME NEW db \in Dbs
        PROVE  /\ RollsTo(Main(db))' = File(k, acked[db]) /\ RollsTo(Mani(db))' = File(k, acked[db])
               /\ files[Jrnl(db)] = Missing
    <3>1. Serves(files, StoredKey, db, acked[db]) /\ files[Jrnl(db)] = Missing
      BY <1>4, <1>6 DEF Safe, Fits, NoJournals
    <3>2. /\ files[Main(db)].is = "file" /\ files[Main(db)].ver = acked[db]
          /\ files[Mani(db)].is = "file" /\ files[Mani(db)].ver = acked[db]
      BY <3>1 DEF Serves
    <3>3. Main(db) \in LiveNames /\ Mani(db) \in LiveNames
      BY NameFacts
    <3>4. ASSUME NEW x \in LiveNames, files[x].is = "file", files[x].ver = acked[db]
          PROVE  RollsTo(x)' = File(k, acked[db])
      <4>1. files[x] \in LiveT /\ files[x] # Partial
        BY <3>4, FileKinds DEF TypeInv, FilesT
      <4>2. files[Shadow(x)] = [files[x] EXCEPT !.dek = k]
        BY <1>4 DEF Shadowed
      <4>3. files[Shadow(x)] = File(k, acked[db])
        BY <3>4, <4>1, <4>2 DEF LiveT, File
      <4>4. File(k, acked[db]) # Missing
        BY DEF File, Missing
      <4> QED BY <1>1, <4>3, <4>4 DEF RollsTo
    <3> QED BY <3>1, <3>2, <3>3, <3>4
  <2> QED BY <1>1, <1>4, <1>5, <1>6, <2>1 DEF Fits
<1>9. FloorFits'
  <2>1. \A db \in Dbs : AnchorLoad(StoredKey)'.floor[db] = 0
    BY <1>1, <1>4, <1>5 DEF AnchorLoad
  <2>2. \A db \in Dbs : files[Intent].floor[db] <= acked[db]
    BY <1>4 DEF Safe, FloorFits
  <2>3. \A db \in Dbs : acked[db] \in Nat
    BY KeyFacts
  <2> QED BY <1>1, <2>1, <2>2, <2>3 DEF FloorFits
<1>10. PoolFits'
  <2>1. \A db \in sess.wrote : db \in Dbs
    BY KeyFacts DEF Sessions
  <2> QED BY <1>1, <1>4, <2>1, KeyFacts DEF PoolFits, NoJournals
<1>11. \A d \in Calls : CallFits(d)'
  <2> SUFFICES ASSUME NEW d \in Calls PROVE CallFits(d)'
    OBVIOUS
  <2>1. Apart(call, call', c) /\ call'[c].pc = "ask"
    BY <1>1, GoApart
  <2>2. CallFits(d)
    BY DEF Safe
  <2>3. CASE d = c
    BY <2>1, <2>3 DEF CallFits, Committing, At
  <2>4. CASE d # c
    <3>1. call'[d] = call[d] /\ ~Committing(d)
      BY <1>3, <2>1, <2>4 DEF Apart
    <3> QED BY <1>1, <1>4, <2>2, <3>1 DEF CallFits, Committing, At, NoJournals
  <2> QED BY <2>3, <2>4
<1>12. StoredKey' # NoDek /\ (anchor.dek <= n.deks)'
  BY <1>1, <1>4, <1>5 DEF Safe
<1> QED BY <1>1, <1>7, <1>8, <1>9, <1>10, <1>11, <1>12 DEF Safe

\* The steps of the SDK.
LEMMA SafeSdk ==
    ASSUME TypeInv, Safe, NEW c \in Calls, SdkStep(c), ~overtaken', RotatesOverJournal = FALSE
    PROVE  Safe'
<1>0. n.deks \in Nat /\ n \in Counters /\ idb = [env |-> idb.env, floor |-> idb.floor, epoch |-> idb.epoch]
  BY CountersT DEF TypeInv, RestOk, IdbOk
<1>1. ASSUME UNCHANGED n \/ n' = [n EXCEPT !.calls = @ + 1]
      PROVE  n'.deks = n.deks /\ n'.deks \in Nat /\ n'.deks >= n.deks
  <2>1. CASE n' = [n EXCEPT !.calls = @ + 1]
    <3>1. n'.deks = n.deks
      BY <1>0, <2>1, CountersT
    <3> QED BY <1>0, <3>1
  <2> QED BY <1>0, <1>1, <2>1
<1>2. ASSUME call[c].pc \in {"idle", "showing", "put", "floor", "raise", "token", "reopen"}
      PROVE  call[c].pc \notin BusyPcs
  BY <1>2 DEF BusyPcs, StagePcs, SwapPcs
<1>3. ASSUME NEW op, Starts(c, op),
             op = "rotate" => \A db \in Dbs : files[Jrnl(db)] # Missing => db \in sess.wrote
      PROVE  Safe'
  <2>1. Apart(call, call', c) /\ call'[c].pc = "check" /\ call'[c].op = op
    BY <1>3, StartCall DEF Starts
  <2>2. /\ call[c].pc = "idle" /\ UNCHANGED <<files, anchor, sess, busy, acked, idb>>
        /\ n' = [n EXCEPT !.calls = @ + 1]
    BY <1>3 DEF Starts, At
  <2>3. ~Committing(c)' /\ StoredKey' = StoredKey
    BY <2>1, <2>2 DEF Committing, At, StoredKey
  <2> QED BY <1>0, <1>1, <1>2, <1>3, <2>1, <2>2, <2>3, SafeQuiet
<1>4. CASE Unlock(c) \/ AddRecoveryCode(c) \/ RemoveMethod(c)
  BY <1>3, <1>4 DEF Unlock, AddRecoveryCode, RemoveMethod
<1>5. CASE RotateKey(c)
  BY <1>3, <1>5 DEF RotateKey
<1>6. CASE Sql(c) \/ Lock(c)
  <2>1. Apart(call, call', c) /\ call'[c].pc = "sent" /\ call'[c].op \in {"sql", "lock"}
    BY <1>6, PostCall
  <2>2. /\ call[c].pc = "idle" /\ UNCHANGED <<files, anchor, sess, busy, acked, idb>>
        /\ n' = [n EXCEPT !.calls = @ + 1]
    BY <1>6 DEF Sql, Lock, Posts, At
  <2>3. ~Committing(c)' /\ StoredKey' = StoredKey
    BY <2>1, <2>2 DEF Committing, At, StoredKey
  <2> QED BY <1>0, <1>1, <1>2, <2>1, <2>2, <2>3, SafeQuiet
<1>7. CASE Confirm(c)
  <2>1. /\ call[c].pc = "showing" /\ UNCHANGED <<files, anchor, sess, busy, acked, idb, n>>
        /\ call' = Go(c, "sent")
    BY <1>7 DEF Confirm, At
  <2>2. Apart(call, call', c) /\ call'[c].pc = "sent" /\ call'[c].op = call[c].op
    BY <2>1, GoApart
  <2>3. ~Committing(c)' /\ StoredKey' = StoredKey
    BY <2>1, <2>2 DEF Committing, At, StoredKey
  <2>4. call[c].op = "rotate" => \A db \in Dbs : files[Jrnl(db)] # Missing => db \in sess.wrote
    BY <2>1 DEF Safe, CallFits
  <2> QED BY <1>0, <1>1, <1>2, <2>1, <2>2, <2>3, <2>4, SafeQuiet
<1>8. CASE Cancel(c)
  <2>1. /\ call[c].pc = "showing" /\ UNCHANGED <<files, anchor, sess, busy, acked, idb, n>>
        /\ call' = Return(c)
    BY <1>8 DEF Cancel, At
  <2>2. Apart(call, call', c) /\ call'[c].pc = "idle"
    BY <2>1, ReturnApart
  <2>3. ~Committing(c)' /\ StoredKey' = StoredKey
    BY <2>1, <2>2 DEF Committing, At, StoredKey
  <2> QED BY <1>0, <1>1, <1>2, <2>1, <2>2, <2>3, SafeQuiet
<1>9. CASE Put(c) /\ call[c].op # "rotate"
  <2>1. /\ call[c].pc = "put" /\ UNCHANGED <<files, anchor, sess, busy, acked, n>>
        /\ call' = Go(c, "ask") /\ idb' = [idb EXCEPT !.env = call[c].next] /\ idb.env = call[c].env
    BY <1>9 DEF Put, At
  <2>2. Apart(call, call', c) /\ call'[c].pc = "ask"
    BY <2>1, GoApart
  <2>3. StoredKey' = StoredKey
    <3>1. call[c].next.mac.key = call[c].env.mac.key
      BY <1>9, <2>1 DEF Safe, CallFits, At
    <3>2. idb'.env = call[c].next
      BY <1>0, <2>1
    <3> QED BY <2>1, <3>1, <3>2 DEF StoredKey
  <2>4. ~Committing(c)'
    BY <2>2 DEF Committing, At
  <2> QED BY <1>0, <1>1, <1>2, <2>1, <2>2, <2>3, <2>4, SafeQuiet
<1>10. CASE Put(c) /\ call[c].op = "rotate"
  BY <1>10, SafePutRotate
<1>11. CASE BumpFloor(c) \/ DelEpoch(c)
  <2>1. /\ call[c].pc \in {"raise", "token"} /\ UNCHANGED <<files, anchor, sess, busy, acked, n>>
        /\ idb'.env = idb.env
        /\ call' = Go(c, "token") \/ call' = Return(c) \/ call' = Go(c, "reopen")
    BY <1>0, <1>11 DEF BumpFloor, DelEpoch, At
  <2>2. Apart(call, call', c) /\ call'[c].pc \in {"token", "idle", "reopen"}
    BY <2>1, GoApart, ReturnApart
  <2>3. ~Committing(c)' /\ StoredKey' = StoredKey
    BY <2>1, <2>2 DEF Committing, At, StoredKey
  <2> QED BY <1>0, <1>1, <1>2, <2>1, <2>2, <2>3, SafeQuiet
<1>12. CASE Reopen(c)
  <2>1. call[c].pc = "reopen" /\ UNCHANGED <<files, anchor, sess, busy, acked, idb, n>>
    BY <1>12 DEF Reopen, At
  <2>2. Apart(call, call', c) /\ (call'[c].pc = "idle" \/ (call'[c].pc = "check" /\ call'[c].op = "reopen"))
    <3>1. CASE CheckFresh(idb.env, idb.floor)
      BY <1>12, <3>1, StartCall DEF Reopen
    <3>2. CASE ~CheckFresh(idb.env, idb.floor)
      BY <1>12, <3>2, ReturnApart DEF Reopen
    <3> QED BY <3>1, <3>2
  <2>3. ~Committing(c)' /\ StoredKey' = StoredKey
    BY <2>1, <2>2 DEF Committing, At, StoredKey
  <2> QED BY <1>0, <1>1, <1>2, <2>1, <2>2, <2>3, SafeQuiet
<1>13. CASE ReadFloor(c)
  <2>1. call[c].pc = "floor" /\ UNCHANGED <<files, anchor, sess, busy, acked, idb, n>>
    BY <1>13 DEF ReadFloor, At
  <2>2. Apart(call, call', c) /\ call'[c].pc = "raise"
    BY <1>13, ReadFloorRec DEF TypeInv, CallsOk, Apart
  <2>3. ~Committing(c)' /\ StoredKey' = StoredKey
    BY <2>1, <2>2 DEF Committing, At, StoredKey
  <2> QED BY <1>0, <1>1, <1>2, <2>1, <2>2, <2>3, SafeQuiet
<1> QED BY <1>4, <1>5, <1>6, <1>7, <1>8, <1>9, <1>10, <1>11, <1>12, <1>13 DEF SdkStep

\* The session is closed, by session_lock or by an unlock: the journals of the
\* connections that have written go, and none of them was hot.
LEMMA SafeClosed ==
    ASSUME TypeInv, Safe, busy = {}, sess.on, FilesT(files)', files' = Closed
    PROVE  /\ files'[Intent] = Missing /\ ~Rolling'
           /\ \A db \in Dbs : Serves(files', StoredKey, db, acked[db])
           /\ \A db \in Dbs : files'[Jrnl(db)] # Missing => files[Jrnl(db)] # Missing /\ db \notin sess.wrote
<1>1. /\ files[Intent] = Missing /\ \A d \in Calls : ~Committing(d)
      /\ \A db \in Dbs : Serves(files, StoredKey, db, acked[db])
  BY SessionFacts
<1>2. /\ \A x \in LiveNames : files'[x] = files[x]
      /\ files'[Intent] = files[Intent]
      /\ \A db \in Dbs : files'[Jrnl(db)] = IF db \in sess.wrote THEN Missing ELSE files[Jrnl(db)]
  BY ClosedT DEF TypeInv, RestOk, Sessions
<1>3. ~Rolling'
  BY <1>1, <1>2 DEF Rolling, Written
<1>4. ASSUME NEW db \in Dbs PROVE Serves(files', StoredKey, db, acked[db])
  <2>1. files'[Main(db)] = files[Main(db)] /\ files'[Mani(db)] = files[Mani(db)]
    BY <1>2, NameFacts
  <2>2. CASE db \in sess.wrote
    <3>1. files[Jrnl(db)] # Missing => ~files[Jrnl(db)].hot
      BY <2>2 DEF Safe, PoolFits
    <3>2. files'[Jrnl(db)] = Missing
      BY <1>2, <2>2
    <3> QED BY <1>1, <2>1, <3>1, <3>2 DEF Serves
  <2>3. CASE db \notin sess.wrote
    BY <1>1, <1>2, <2>1, <2>3, ServesSame
  <2> QED BY <2>2, <2>3
<1> QED BY <1>1, <1>2, <1>3, <1>4

LEMMA SafeLock ==
    ASSUME TypeInv, Safe, NEW c \in Calls, busy = {}, busy' = {}, Apart(call, call', c),
           call'[c].pc \in {"idle", "install"}, FilesT(files)', files' = Closed, sess' = Locked,
           UNCHANGED <<idb, anchor, acked, n>>
    PROVE  Safe'
<1>0. n.deks \in Nat /\ StoredKey' = StoredKey /\ call[c].pc \notin BusyPcs /\ ~Committing(c)'
  BY KeyFacts DEF StoredKey, TypeInv, BusyOk, Committing, At
<1>1. CASE ~sess.on
  <2>1. sess' = sess /\ sess.wrote = {}
    BY <1>1 DEF Locked, TypeInv, SessOk
  <2>2. files' = files
    BY <2>1 DEF Closed, TypeInv, FilesT
  <2> QED BY <1>0, <2>1, <2>2, SafeQuiet
<1>2. CASE sess.on
  <2>1. /\ files'[Intent] = Missing /\ ~Rolling'
        /\ \A db \in Dbs : Serves(files', StoredKey, db, acked[db])
        /\ \A db \in Dbs : files'[Jrnl(db)] # Missing => files[Jrnl(db)] # Missing /\ db \notin sess.wrote
    BY <1>2, SafeClosed
  <2>2. sess'.open = {} /\ sess'.wrote = {} /\ sess'.pool = NoDek /\ sess'.leaked = {}
    BY <1>2, LockedT, KeyFacts
  <2>3. Fits'
    BY <1>0, <2>1 DEF Fits
  <2>4. FloorFits'
    BY <1>0, <2>1, FloorSame DEF Safe
  <2>5. PoolFits'
    BY <2>2 DEF PoolFits
  <2>6. \A d \in Calls : ~Committing(d)
    BY <1>2, SessionFacts
  <2>7. \A d \in Calls : CallFits(d)'
    BY <2>1, <2>6, CallsFit
  <2> QED BY <1>0, <2>3, <2>4, <2>5, <2>7 DEF Safe
<1> QED BY <1>1, <1>2

\* A message that the worker answers without touching the pool.
LEMMA SafeTaken ==
    ASSUME TypeInv, Safe, NEW c \in Calls, busy = {}, Apart(call, call', c), call[c].pc \in {"check", "sent", "ask"},
           UNCHANGED <<idb, files, anchor, sess, busy, acked>>, n'.deks = n.deks,
           \/ call'[c].pc \in {"idle", "floor"}
           \/ call[c].pc = "check" /\ call'[c].pc = "showing" /\ call'[c].op = call[c].op
           \/ /\ call'[c].pc = "put" /\ call'[c].op # "rotate"
              /\ call'[c].next.mac.key = call'[c].env.mac.key
    PROVE  Safe'
<1>1. n.deks \in Nat /\ StoredKey' = StoredKey /\ call[c].pc \notin BusyPcs /\ ~Committing(c)'
  BY KeyFacts DEF StoredKey, TypeInv, BusyOk, Committing, At
<1>2. (call[c].op = "rotate" /\ call[c].pc \in {"check", "showing", "sent"}) =>
                \A db \in Dbs : files[Jrnl(db)] # Missing => db \in sess.wrote
  BY DEF Safe, CallFits
<1>3. (call'[c].op = "rotate" /\ call'[c].pc \in {"check", "showing", "sent"}) =>
                \A db \in Dbs : files[Jrnl(db)] # Missing => db \in sess.wrote
  BY <1>2
<1>4. n'.deks >= n.deks /\ n'.deks \in Nat
  BY <1>1
<1> QED BY <1>1, <1>3, <1>4, SafeQuiet

LEMMA SafeTakeCheck ==
    ASSUME TypeInv, Safe, NEW c \in Calls, TakeCheck(c)
    PROVE  Safe'
<1>1. /\ busy = {} /\ call[c].pc = "check" /\ UNCHANGED <<idb, files, anchor, sess, busy, acked, n>>
      /\ call' = Return(c) \/ call' = Go(c, "showing")
  <2>1. /\ busy = {} /\ At(c, "check") /\ UNCHANGED <<idb, files, anchor, sess, busy, acked, n>>
        /\ call' = Return(c) \/ call' = Go(c, "showing")
    BY DEF TakeCheck
  <2> QED BY <2>1 DEF At
<1>2. Apart(call, call', c) /\ (call'[c].pc = "idle" \/ (call'[c].pc = "showing" /\ call'[c].op = call[c].op))
  <2>1. CASE call' = Return(c)
    BY <2>1, ReturnApart
  <2>2. CASE call' = Go(c, "showing")
    BY <2>2, GoApart
  <2> QED BY <1>1, <2>1, <2>2
<1> QED BY <1>1, <1>2, SafeTaken

LEMMA SafeTakeAsk ==
    ASSUME TypeInv, Safe, NEW c \in Calls, TakeAsk(c)
    PROVE  Safe'
<1>1. /\ busy = {} /\ call[c].pc = "ask" /\ UNCHANGED <<idb, files, anchor, sess, busy, acked, n>>
      /\ call' = Go(c, "floor")
  BY DEF TakeAsk, At
<1>2. Apart(call, call', c) /\ call'[c].pc = "floor"
  BY <1>1, GoApart
<1> QED BY <1>1, <1>2, SafeTaken

LEMMA SafeTakeAdd ==
    ASSUME TypeInv, Safe, NEW c \in Calls, TakeAdd(c)
    PROVE  Safe'
<1> DEFINE e == call[c].env
           x == AddSlot(e, OpenWith(e, Prf).dek, Code(n.codes + 1), Recovery)
<1>1. /\ busy = {} /\ call[c].pc = "sent" /\ call[c].op = "add"
      /\ UNCHANGED <<idb, files, anchor, sess, busy, acked>>
  <2>1. Takes(c, {"add"}) /\ UNCHANGED <<idb, files, anchor, sess, busy, acked>>
    BY DEF TakeAdd
  <2> QED BY <2>1, TakesFacts DEF At
<1>2. n'.deks = n.deks
  BY CountersT DEF TakeAdd, TypeInv, RestOk
<1>3. CASE call' = Return(c)
  BY <1>1, <1>2, <1>3, ReturnApart, SafeTaken
<1>4. CASE ~IsRefused(OpenWith(e, Prf)) /\ Answers(c, x)
  <2>1. x.mac.key = e.mac.key
    BY <1>4, AddFacts, OpenFacts
  <2> HIDE DEF x
  <2>2. /\ Apart(call, call', c) /\ call'[c].pc = "put" /\ call'[c].next = x
        /\ call'[c].op = call[c].op /\ call'[c].env = e
    BY <1>4, AnswersApart
  <2> QED BY <1>1, <1>2, <2>1, <2>2, SafeTaken
<1> QED BY <1>3, <1>4 DEF TakeAdd

LEMMA SafeTakeRemove ==
    ASSUME TypeInv, Safe, NEW c \in Calls, TakeRemove(c)
    PROVE  Safe'
<1> DEFINE e == call[c].env
<1>1. /\ busy = {} /\ call[c].pc = "sent" /\ call[c].op = "remove"
      /\ UNCHANGED <<idb, files, anchor, sess, busy, acked, n>>
  <2>1. Takes(c, {"remove"}) /\ UNCHANGED <<idb, files, anchor, sess, busy, acked, n>>
    BY DEF TakeRemove
  <2> QED BY <2>1, TakesFacts DEF At
<1>2. CASE call' = Return(c)
  BY <1>1, <1>2, ReturnApart, SafeTaken
<1>3. CASE \E id : /\ ~IsRefused(OpenWith(e, Prf)) /\ ~IsRefused(RemoveSlot(e, OpenWith(e, Prf).dek, id))
                   /\ Answers(c, RemoveSlot(e, OpenWith(e, Prf).dek, id))
  <2>1. PICK id : /\ ~IsRefused(OpenWith(e, Prf)) /\ ~IsRefused(RemoveSlot(e, OpenWith(e, Prf).dek, id))
                  /\ Answers(c, RemoveSlot(e, OpenWith(e, Prf).dek, id))
    BY <1>3
  <2>2. PICK x : x = RemoveSlot(e, OpenWith(e, Prf).dek, id)
    OBVIOUS
  <2>3. x.mac.key = e.mac.key
    BY <2>1, <2>2, RemoveFacts, OpenFacts
  <2>4. Answers(c, x)
    BY <2>1, <2>2
  <2>5. /\ Apart(call, call', c) /\ call'[c].pc = "put" /\ call'[c].next = x
        /\ call'[c].op = call[c].op /\ call'[c].env = e
    BY <2>4, AnswersApart
  <2> QED BY <1>1, <2>3, <2>5, SafeTaken
<1>4. IsRefused(Refused)
  BY DEF IsRefused, Refused
<1> QED BY <1>2, <1>3, <1>4 DEF TakeRemove

LEMMA SafeTakeLock ==
    ASSUME TypeInv, TypeInv', Safe, NEW c \in Calls, TakeLock(c)
    PROVE  Safe'
<1>1. /\ busy = {} /\ busy' = {} /\ call' = Return(c) /\ files' = Closed /\ sess' = Locked
      /\ UNCHANGED <<idb, anchor, acked, n>> /\ FilesT(files)'
  BY TakesFacts DEF TakeLock, TypeInv
<1>2. Apart(call, call', c) /\ call'[c].pc = "idle"
  BY <1>1, ReturnApart
<1> QED BY <1>1, <1>2, SafeLock

LEMMA SafeTakeOpen ==
    ASSUME TypeInv, TypeInv', Safe, NEW c \in Calls, TakeOpen(c)
    PROVE  Safe'
<1>1. /\ busy = {} /\ busy' = {} /\ UNCHANGED <<idb, anchor, acked, n>> /\ FilesT(files)'
      /\ call[c].pc = "sent"
  BY TakesFacts DEF TakeOpen, TypeInv, At
<1>2. CASE UNCHANGED <<files, sess>> /\ call' = Return(c)
  BY <1>1, <1>2, ReturnApart, SafeTaken
<1>3. CASE files' = Closed /\ sess' = Locked /\ call' = Return(c)
  BY <1>1, <1>3, ReturnApart, SafeLock
<1>4. CASE files' = Closed /\ sess' = Locked /\ Touches(c) /\ call'[c].pc = "install"
  BY <1>1, <1>4, TouchApart, SafeLock
<1> QED BY <1>2, <1>3, <1>4, TakeOpenCases

\* A rotation begins: the key is fresh, and closing has left no journal.
LEMMA SafeTakeRotate ==
    ASSUME TypeInv, TypeInv', Safe, NEW c \in Calls, TakeRotate(c)
    PROVE  Safe'
<1>1. /\ busy = {} /\ call[c].pc = "sent" /\ call[c].op = "rotate"
      /\ UNCHANGED <<idb, anchor, answered, acked>> /\ FilesT(files)'
  <2>1. Takes(c, {"rotate"}) /\ UNCHANGED <<idb, anchor, answered, acked>>
    BY DEF TakeRotate
  <2> QED BY <2>1, TakesFacts DEF At, TypeInv
<1>2. CASE call' = Return(c) /\ UNCHANGED <<files, sess, busy, n>>
  BY <1>1, <1>2, ReturnApart, SafeTaken
<1>3. CASE RotateBegins(c)
  <2>1. /\ Touches(c) /\ n'.deks = n.deks + 1 /\ call'[c].pc = "stage" /\ call'[c].op = call[c].op
        /\ call'[c].dek = n.deks + 1 /\ call'[c].todo = Work(Dbs) /\ call'[c].next.mac.key = n.deks + 1
        /\ sess'.on /\ sess'.pool = sess.pool /\ sess'.open = {}
        /\ sess'.wrote = {} /\ sess'.leaked = sess.leaked \ sess.open
    BY <1>3, RotateBeginsT
  <2>2. sess.on /\ files' = Closed /\ busy' = {c}
    BY <1>3 DEF RotateBegins
  <2>3. /\ files'[Intent] = Missing /\ ~Rolling'
        /\ \A db \in Dbs : Serves(files', StoredKey, db, acked[db])
        /\ \A db \in Dbs : files'[Jrnl(db)] # Missing => files[Jrnl(db)] # Missing /\ db \notin sess.wrote
    BY <1>1, <2>2, SafeClosed
  <2>4. \A db \in Dbs : files'[Jrnl(db)] = Missing
    <3>1. \A db \in Dbs : files[Jrnl(db)] # Missing => db \in sess.wrote
      BY <1>1 DEF Safe, CallFits
    <3> QED BY <2>3, <3>1
  <2>5. StoredKey' = StoredKey /\ Apart(call, call', c)
    BY <1>1, <2>1, TouchApart DEF StoredKey
  <2>6. Fits'
    BY <1>1, <2>3, <2>5 DEF Fits
  <2>7. FloorFits'
    BY <1>1, <2>3, <2>5, FloorSame DEF Safe
  <2>8. PoolFits'
    BY <2>1, <2>3, <2>5, KeyFacts DEF PoolFits, Safe
  <2>9. RunFits(c)'
    <3>1. n.deks + 1 \notin {NoDek, StoredKey, anchor.dek}
      BY KeyFacts DEF NoDek
    <3>2. \A x \in LiveNames : x \in {call'[c].todo[i] : i \in DOMAIN call'[c].todo}
      BY <2>1, WorkFacts
    <3>3. StageFits(c)'
      BY <1>1, <2>1, <2>4, <2>5, <3>1, <3>2 DEF StageFits, NoJournals
    <3> QED BY <2>1, <3>3 DEF RunFits, StagePcs, SwapPcs
  <2>10. \A d \in Calls : ~Committing(d)
    BY <1>1, <2>2, SessionFacts
  <2>11. \A d \in Calls : CallFits(d)'
    BY <2>1, <2>4, <2>5, <2>10, CallsFit
  <2>12. (anchor.dek <= n.deks)'
    BY <1>1, <2>1, KeyFacts
  <2> QED BY <2>2, <2>5, <2>6, <2>7, <2>8, <2>9, <2>11, <2>12 DEF Safe
<1> QED BY <1>2, <1>3, TakeRotateCases

-----------------------------------------------------------------------------
(* Staging. *)

LEMMA WriteAt ==
    ASSUME FilesT(files), NEW x \in Names, NEW v, files' = [files EXCEPT ![x] = v]
    PROVE  files'[x] = v /\ \A y \in Names : y # x => files'[y] = files[y]
BY DEF FilesT

\* The first file of a rotation is the main file of the first database.
LEMMA WorkFirst == Work(Dbs) # <<>> /\ Head(Work(Dbs)) = Main(1)
<1> DEFINE W(i) == LET db == Nth(Dbs, (i + 1) \div 2) IN IF i % 2 = 1 THEN Main(db) ELSE Mani(db)
           m == 2 * NumDbs
<1>1. Work(Dbs) = [i \in 1 .. m |-> W(i)]
  BY DbsFacts DEF Work
<1>2. m \in Nat /\ 1 \in 1 .. m
  BY DbsFacts
<1>3. W(1) = Main(1)
  <2>1. (1 + 1) \div 2 = 1 /\ 1 % 2 = 1
    OBVIOUS
  <2>2. Nth(Dbs, 1) = 1
    BY DbsFacts
  <2> QED BY <2>1, <2>2
<1> HIDE DEF W, m
<1>4. Work(Dbs)[1] = Main(1) /\ DOMAIN Work(Dbs) = 1 .. m
  BY <1>1, <1>2, <1>3
<1>5. Work(Dbs) \in Seq(LiveNames)
  BY WorkFacts
<1>6. PICK s \in Seq(LiveNames) : s = Work(Dbs)
  BY <1>5
<1>7. 1 \in DOMAIN s /\ s[1] = Main(1)
  BY <1>2, <1>4, <1>6
<1>8. s # <<>> /\ Head(s) = Main(1)
  BY <1>7
<1> QED BY <1>6, <1>8

\* Where a live file belongs, and what it holds while nothing rolls forward.
LEMMA LiveServed ==
    ASSUME TypeInv, \A db \in Dbs : Serves(files, StoredKey, db, acked[db]), NEW x \in LiveNames
    PROVE  files[x] \in LiveT /\ files[x] # Partial /\ files[x].is = "file" /\ files[x].dek = StoredKey
<1>1. PICK db \in Dbs : x = Main(db) \/ x = Mani(db)
  BY NameFacts
<1>2. files[x].is = "file" /\ files[x].dek = StoredKey
  BY <1>1 DEF Serves
<1>3. files[x] \in LiveT
  BY DEF TypeInv, FilesT
<1> QED BY <1>2, <1>3, FileKinds

\* An operation ends and leaves the pool and the session.
LEMMA SafeReturns ==
    ASSUME TypeInv, Safe, NEW c \in Calls, busy = {c}, busy' = {}, sess.on,
           call[c].pc \in {"stage", "ready"}, call' = Return(c),
           UNCHANGED <<idb, files, anchor, sess, acked, n>>
    PROVE  Safe'
<1>1. Apart(call, call', c) /\ call'[c].pc = "idle" /\ StoredKey' = StoredKey
  BY ReturnApart DEF StoredKey
<1>2. \A d \in busy : ~At(d, "intentFill") /\ ~At(d, "commit")
  BY DEF At
<1>3. /\ files[Intent] = Missing /\ ~Rolling /\ \A d \in Calls : ~Committing(d)
      /\ \A db \in Dbs : Serves(files, StoredKey, db, acked[db])
  BY <1>2, SessionFacts
<1>4. ~Rolling'
  BY <1>1, <1>3 DEF Rolling
<1>5. Fits'
  BY <1>1, <1>3, <1>4 DEF Fits
<1>6. FloorFits'
  BY <1>1, <1>4, FloorSame DEF Safe
<1>7. PoolFits'
  <2>1. PoolFits
    BY DEF Safe
  <2>2. \A db \in sess.wrote : ~(files[Jrnl(db)] # Missing /\ files[Jrnl(db)].hot)
    BY <1>2, <2>1 DEF PoolFits
  <2> QED BY <1>1, <1>4, <2>1, <2>2 DEF PoolFits
<1>8. \A d \in Calls : CallFits(d)'
  BY <1>1, <1>3, CallsFit
<1> QED BY <1>1, <1>5, <1>6, <1>7, <1>8 DEF Safe

\* A connection that has written is open.
LEMMA NoneWrote ==
    ASSUME TypeInv, sess.open = {}
    PROVE  sess.wrote = {}
BY DEF TypeInv, SessOk

\* A step of staging: it writes shadows and, last, the intent.
LEMMA SafeStage ==
    ASSUME TypeInv, Safe, NEW c \in Calls, busy = {c}, busy' = busy, call[c].pc \in {"stage", "stageFill"},
           Apart(call, call', c), call'[c].pc \in StagePcs, call'[c].op = call[c].op,
           call'[c].dek = call[c].dek, call'[c].next = call[c].next,
           UNCHANGED <<idb, anchor, sess, acked, n>>,
           \A x \in LiveNames : files'[x] = files[x],
           \A db \in Dbs : files'[Jrnl(db)] = files[Jrnl(db)],
           ~Written(files'[Intent]),
           sess.pool = StoredKey \/ (call'[c].pc = "stage" /\ call'[c].todo = Work(Dbs)),
           \A x \in LiveNames : x \notin {call'[c].todo[i] : i \in DOMAIN call'[c].todo}
                => files'[Shadow(x)] = [files[x] EXCEPT !.dek = call[c].dek],
           call'[c].pc = "intentFill" => call'[c].todo = <<>> /\ files'[Intent] = Partial
    PROVE  Safe'
<1>1. StoredKey' = StoredKey /\ RunOk(c) /\ RunFits(c) /\ call[c].pc \in StagePcs
  BY DEF StoredKey, TypeInv, Safe, StagePcs
<1>2. sess.on /\ sess.open = {} /\ StageFits(c)
  BY <1>1 DEF RunOk, RunFits
<1>3. \A d \in busy : ~At(d, "intentFill")
  BY DEF At
<1>4. /\ files[Intent] = Missing /\ ~Rolling /\ \A d \in Calls : ~Committing(d)
      /\ \A db \in Dbs : Serves(files, StoredKey, db, acked[db])
  BY <1>2, <1>3, SessionFacts
<1>5. ~Rolling'
  BY DEF Rolling
<1>6. Fits'
  <2>1. ASSUME NEW db \in Dbs PROVE Serves(files', StoredKey, db, acked[db])
    <3>1. files'[Main(db)] = files[Main(db)] /\ files'[Mani(db)] = files[Mani(db)]
      BY NameFacts
    <3> QED BY <1>4, <3>1, ServesSame
  <2> QED BY <1>1, <1>5, <2>1 DEF Fits
<1>7. FloorFits'
  BY <1>1, <1>5, FloorSame DEF Safe
<1>8. PoolFits'
  BY <1>1, <1>2, <1>5, NoneWrote DEF Safe, PoolFits
<1>9. StageFits(c)'
  BY <1>1, <1>2 DEF StageFits, NoJournals, Shadowed
<1>10. RunFits(c)'
  BY <1>9 DEF RunFits, StagePcs, SwapPcs
<1>11. call'[c].pc \notin {"check", "showing", "sent", "put"}
  BY DEF StagePcs
<1>12. \A d \in Calls : CallFits(d)'
  BY <1>4, <1>11, CallsFit
<1> QED BY <1>1, <1>6, <1>7, <1>8, <1>10, <1>12 DEF Safe

LEMMA StageFacts ==
    ASSUME TypeInv, Safe, NEW c \in Calls, Runs(c, "stage") \/ Runs(c, "stageFill")
    PROVE  /\ busy = {c} /\ call[c].pc \in {"stage", "stageFill"} /\ RunOk(c) /\ StageFits(c)
           /\ sess.on /\ files[Intent] = Missing
           /\ \A x \in LiveNames : files[x] \in LiveT /\ files[x] # Partial /\ files[x].is = "file"
                                   /\ files[x].dek = StoredKey
<1>1. busy = {c} /\ call[c].pc \in {"stage", "stageFill"}
  BY DEF Runs, At
<1>2. RunOk(c) /\ RunFits(c)
  BY <1>1 DEF TypeInv, Safe
<1>3. call[c].pc \in StagePcs
  BY <1>1 DEF StagePcs
<1>4. sess.on /\ StageFits(c)
  BY <1>2, <1>3 DEF RunOk, RunFits
<1>5. \A d \in busy : ~At(d, "intentFill")
  BY <1>1 DEF At
<1>6. /\ files[Intent] = Missing
      /\ \A db \in Dbs : Serves(files, StoredKey, db, acked[db])
  BY <1>4, <1>5, SessionFacts
<1>7. \A x \in LiveNames : files[x] \in LiveT /\ files[x] # Partial /\ files[x].is = "file"
                                   /\ files[x].dek = StoredKey
  BY <1>6, LiveServed
<1> QED BY <1>1, <1>2, <1>4, <1>6, <1>7

LEMMA SafeStageFile ==
    ASSUME TypeInv, Safe, NEW c \in Calls, StageFile(c)
    PROVE  Safe'
<1> DEFINE f == Head(call[c].todo)
<1>1. /\ Runs(c, "stage") /\ call[c].todo # <<>> /\ UNCHANGED <<idb, anchor, acked, n>>
  BY DEF StageFile
<1>2. /\ busy = {c} /\ StageFits(c) /\ sess.on /\ files[Intent] = Missing
      /\ \A x \in LiveNames : files[x].dek = StoredKey
  BY <1>1, StageFacts
<1>3. f \in LiveNames /\ call[c].pc = "stage" /\ call[c].todo \in Seq(LiveNames)
  BY <1>1, RunsFacts
<1>4. CASE Fails(c)
  BY <1>1, <1>2, <1>3, <1>4, SafeReturns DEF Fails
<1>5. CASE /\ ~(f[1] = "main" /\ files[f].dek # sess.pool)
           /\ files' = [files EXCEPT ![Shadow(f)] = Partial]
           /\ call' = Go(c, "stageFill") /\ UNCHANGED <<sess, busy>>
  <2>1. /\ Apart(call, call', c) /\ call'[c].pc = "stageFill" /\ call'[c].op = call[c].op
        /\ call'[c].dek = call[c].dek /\ call'[c].next = call[c].next /\ call'[c].todo = call[c].todo
    BY <1>5, GoApart
  <2>2. sess.pool = StoredKey
    <3>1. CASE call[c].todo = Work(Dbs)
      <4>1. f = Main(1)
        BY <3>1, WorkFirst
      <4>2. f[1] = "main"
        BY <4>1, DbsFacts, StagingFacts
      <4> QED BY <1>2, <1>3, <1>5, <4>2
    <3>2. CASE call[c].todo # Work(Dbs)
      BY <1>2, <3>2 DEF StageFits
    <3> QED BY <3>1, <3>2
  <2>3. f \in {call[c].todo[i] : i \in DOMAIN call[c].todo}
    BY <1>1, <1>3
  <2> HIDE DEF f
  <2>4. Shadow(f) \in Names /\ FilesT(files)
    BY <1>3, NameFacts DEF TypeInv
  <2>5. \A y \in Names : y # Shadow(f) => files'[y] = files[y]
    BY <1>5, <2>4, WriteAt
  <2>6. /\ \A x \in LiveNames : files'[x] = files[x]
        /\ \A x \in LiveNames : x # f => files'[Shadow(x)] = files[Shadow(x)]
        /\ \A db \in Dbs : files'[Jrnl(db)] = files[Jrnl(db)]
        /\ files'[Intent] = files[Intent]
    BY <1>3, <2>5, NameFacts
  <2>7. \A x \in LiveNames : x \notin {call'[c].todo[i] : i \in DOMAIN call'[c].todo}
                => files'[Shadow(x)] = [files[x] EXCEPT !.dek = call[c].dek]
    BY <1>2, <2>1, <2>3, <2>6 DEF StageFits, Shadowed
  <2>8. ~Written(files'[Intent]) /\ call'[c].pc \in StagePcs
    BY <1>2, <2>1, <2>6 DEF Written, StagePcs
  <2> QED BY <1>1, <1>2, <1>3, <1>5, <2>1, <2>2, <2>6, <2>7, <2>8, SafeStage
<1> QED BY <1>4, <1>5 DEF StageFile

LEMMA SafeStageFill ==
    ASSUME TypeInv, Safe, NEW c \in Calls, StageFill(c)
    PROVE  Safe'
<1> DEFINE f == Head(call[c].todo)
<1>1. /\ Runs(c, "stageFill") /\ UNCHANGED <<idb, anchor, sess, busy, acked, n>>
      /\ files' = [files EXCEPT ![Shadow(f)] = Resealed(files[f], call[c].dek)]
      /\ call' = [call EXCEPT ![c].pc = "stage", ![c].todo = Tail(call[c].todo)]
  BY DEF StageFill, TypeInv, CallsOk
<1>2. /\ busy = {c} /\ StageFits(c) /\ RunOk(c) /\ sess.on /\ files[Intent] = Missing
      /\ \A x \in LiveNames : files[x].dek = StoredKey
  BY <1>1, StageFacts
<1>3. call[c].pc = "stageFill" /\ call[c].todo \in Seq(LiveNames)
  BY <1>1, RunsFacts
<1>4. call[c].todo # <<>> /\ sess.pool = StoredKey
  BY <1>2, <1>3 DEF RunOk, StageFits
<1>5. f \in LiveNames
  BY <1>3, <1>4
<1>6. /\ Apart(call, call', c) /\ call'[c].pc = "stage" /\ call'[c].op = call[c].op
      /\ call'[c].dek = call[c].dek /\ call'[c].next = call[c].next /\ call'[c].todo = Tail(call[c].todo)
  <2>1. PICK t : t = Tail(call[c].todo)
    OBVIOUS
  <2>2. call' = [call EXCEPT ![c].pc = "stage", ![c].todo = t]
    BY <1>1, <2>1
  <2>3. PICK p : p = "stage"
    OBVIOUS
  <2>4. call' = [call EXCEPT ![c].pc = p, ![c].todo = t]
    BY <2>2, <2>3
  <2>5. /\ Apart(call, call', c) /\ call'[c].pc = p /\ call'[c].todo = t /\ call'[c].op = call[c].op
        /\ call'[c].dek = call[c].dek /\ call'[c].next = call[c].next
    <3>1. PICK r : r = MoveOf(call[c], p, t)
      OBVIOUS
    <3>2. Apart(call, call', c) /\ call'[c] = r
      BY <2>4, <3>1 DEF TypeInv, CallsOk, Apart, MoveOf
    <3>3. Shaped(call[c])
      BY DEF TypeInv, CallsOk, CallT
    <3> QED BY <3>1, <3>2, <3>3, MoveRec
  <2> QED BY <2>1, <2>3, <2>5
<1>7. \A x : x \in {call[c].todo[i] : i \in DOMAIN call[c].todo}
                => x = f \/ x \in {call'[c].todo[i] : i \in DOMAIN call'[c].todo}
  <2>1. PICK t \in Seq(LiveNames) : t = call[c].todo /\ t # <<>> /\ f = Head(t)
    BY <1>3, <1>4
  <2> HIDE DEF f
  <2> SUFFICES ASSUME NEW i \in DOMAIN t, t[i] # f PROVE t[i] \in {Tail(t)[j] : j \in DOMAIN Tail(t)}
    BY <1>6, <2>1
  <2>2. i \in 1 .. Len(t) /\ i # 1
    BY <2>1
  <2>3. i - 1 \in DOMAIN Tail(t) /\ Tail(t)[i - 1] = t[i]
    BY <2>1, <2>2
  <2> QED BY <2>3
<1> HIDE DEF f
<1>8. Shadow(f) \in Names /\ FilesT(files)
  BY <1>5, NameFacts DEF TypeInv
<1>9. /\ \A y \in Names : y # Shadow(f) => files'[y] = files[y]
      /\ files'[Shadow(f)] = [files[f] EXCEPT !.dek = call[c].dek]
  BY <1>1, <1>2, <1>4, <1>5, <1>8, WriteAt DEF Resealed
<1>10. /\ \A x \in LiveNames : files'[x] = files[x]
       /\ \A x \in LiveNames : x # f => files'[Shadow(x)] = files[Shadow(x)]
       /\ \A db \in Dbs : files'[Jrnl(db)] = files[Jrnl(db)]
       /\ files'[Intent] = files[Intent]
  BY <1>5, <1>9, NameFacts
<1>11. \A x \in LiveNames : x \notin {call'[c].todo[i] : i \in DOMAIN call'[c].todo}
                => files'[Shadow(x)] = [files[x] EXCEPT !.dek = call[c].dek]
  BY <1>2, <1>7, <1>9, <1>10 DEF StageFits, Shadowed
<1>12. ~Written(files'[Intent]) /\ call'[c].pc \in StagePcs
  BY <1>2, <1>6, <1>10 DEF Written, StagePcs
<1> QED BY <1>1, <1>2, <1>3, <1>4, <1>6, <1>10, <1>11, <1>12, SafeStage

LEMMA SafeStageIntent ==
    ASSUME TypeInv, Safe, NEW c \in Calls, StageIntent(c)
    PROVE  Safe'
<1>1. /\ Runs(c, "stage") /\ call[c].todo = <<>> /\ UNCHANGED <<idb, anchor, acked, n>>
  BY DEF StageIntent
<1>2. busy = {c} /\ StageFits(c) /\ sess.on /\ files[Intent] = Missing
  BY <1>1, StageFacts
<1>3. call[c].pc = "stage"
  BY <1>1, RunsFacts
<1>4. CASE Fails(c)
  BY <1>1, <1>2, <1>3, <1>4, SafeReturns DEF Fails
<1>5. CASE /\ files' = [files EXCEPT ![Intent] = Partial]
           /\ call' = Go(c, "intentFill") /\ UNCHANGED <<sess, busy>>
  <2>1. /\ Apart(call, call', c) /\ call'[c].pc = "intentFill" /\ call'[c].op = call[c].op
        /\ call'[c].dek = call[c].dek /\ call'[c].next = call[c].next /\ call'[c].todo = call[c].todo
    BY <1>5, GoApart
  <2>2. sess.pool = StoredKey
    BY <1>1, <1>2, WorkFirst DEF StageFits
  <2>3. Intent \in Names /\ FilesT(files)
    BY NameFacts DEF TypeInv
  <2>4. files'[Intent] = Partial /\ \A y \in Names : y # Intent => files'[y] = files[y]
    BY <1>5, <2>3, WriteAt
  <2>5. /\ \A x \in LiveNames : files'[x] = files[x] /\ files'[Shadow(x)] = files[Shadow(x)]
        /\ \A db \in Dbs : files'[Jrnl(db)] = files[Jrnl(db)]
    BY <2>4, NameFacts
  <2>6. \A x \in LiveNames : x \notin {call'[c].todo[i] : i \in DOMAIN call'[c].todo}
                => files'[Shadow(x)] = [files[x] EXCEPT !.dek = call[c].dek]
    BY <1>2, <2>1, <2>5 DEF StageFits, Shadowed
  <2>7. ~Written(files'[Intent]) /\ call'[c].pc \in StagePcs
    BY <2>1, <2>4 DEF Written, StagePcs
  <2> QED BY <1>1, <1>2, <1>3, <1>5, <2>1, <2>2, <2>4, <2>5, <2>6, <2>7, SafeStage
<1> QED BY <1>4, <1>5 DEF StageIntent

\* The intent is complete and the session is closed: the rotation waits for
\* its envelope to be stored.
LEMMA SafeIntentFill ==
    ASSUME TypeInv, Safe, NEW c \in Calls, IntentFill(c)
    PROVE  Safe'
<1>1. /\ Runs(c, "intentFill") /\ UNCHANGED <<idb, anchor, acked, n>>
      /\ sess' = Locked /\ busy' = {} /\ files' = [files EXCEPT ![Intent] = IntentOf(c)]
  BY AllDbs DEF IntentFill, IntentOf
<1>2. /\ busy = {c} /\ call[c].pc = "intentFill" /\ RunOk(c) /\ RunFits(c)
  BY <1>1, RunsFacts DEF Safe
<1>3. StageFits(c) /\ sess.on
  BY <1>2 DEF RunFits, RunOk, StagePcs
<1>4. /\ call[c].op = "rotate" /\ call[c].dek \notin {NoDek, StoredKey, anchor.dek}
      /\ call[c].next.mac.key = call[c].dek /\ NoJournals /\ sess.pool = StoredKey
      /\ call[c].todo = <<>> /\ files[Intent] = Partial
      /\ \A x \in LiveNames : Shadowed(x, call[c].dek)
  <2>1. call[c].todo = <<>>
    BY <1>2, <1>3 DEF StageFits
  <2>2. {call[c].todo[i] : i \in DOMAIN call[c].todo} = {}
    BY <2>1
  <2> QED BY <1>2, <1>3, <2>1, <2>2 DEF StageFits
<1>5. ~LockFails
  BY KeyFacts
<1>6. Answers(c, call[c].next)
  BY <1>5 DEF IntentFill
<1>7. /\ Apart(call, call', c) /\ call'[c].pc = "put" /\ call'[c].next = call[c].next
      /\ call'[c].op = call[c].op
  BY <1>6, AnswersApart
<1>8. sess'.wrote = {} /\ sess'.open = {} /\ sess'.pool = NoDek /\ sess'.leaked = {}
  BY <1>1, <1>3, <1>5, LockedT, KeyFacts
<1>9. files'[Intent] = IntentOf(c) /\ \A y \in Names : y # Intent => files'[y] = files[y]
  BY <1>1, NameFacts, WriteAt DEF TypeInv
<1>10. /\ \A x \in LiveNames : files'[x] = files[x] /\ files'[Shadow(x)] = files[Shadow(x)]
       /\ \A db \in Dbs : files'[Jrnl(db)] = files[Jrnl(db)]
  BY <1>9, NameFacts
<1>11. /\ Written(files'[Intent]) /\ files'[Intent].dek = call[c].dek /\ files'[Intent].dbs = Dbs
       /\ files'[Intent].floor = AnchorLoad(StoredKey).floor
  BY <1>4, <1>9, IntentOfT DEF Written
<1>12. StoredKey' = StoredKey /\ ~Rolling /\ ~Written(files[Intent])
  BY <1>1, <1>4 DEF StoredKey, Rolling, Written
<1>13. ~Rolling'
  BY <1>4, <1>11, <1>12 DEF Rolling
<1>14. Fits'
  <2>1. ASSUME NEW db \in Dbs PROVE Serves(files', StoredKey, db, acked[db])
    <3>1. /\ files'[Main(db)] = files[Main(db)] /\ files'[Mani(db)] = files[Mani(db)]
          /\ files'[Jrnl(db)] = files[Jrnl(db)]
      BY <1>10, NameFacts
    <3>2. Serves(files, StoredKey, db, acked[db])
      BY <1>12 DEF Safe, Fits
    <3> QED BY <3>1, <3>2, ServesSame
  <2> QED BY <1>1, <1>12, <1>13, <2>1 DEF Fits
<1>15. FloorFits'
  BY <1>1, <1>12, <1>13, FloorSame DEF Safe
<1>16. PoolFits'
  BY <1>8 DEF PoolFits
<1>17. \A d \in Calls : ~Committing(d)
  BY <1>12, NoneCommits
<1>18. CommitFits(c)'
  <2>1. AnchorLoad(StoredKey)' = AnchorLoad(StoredKey)
    BY <1>1, <1>12 DEF AnchorLoad
  <2>2. PICK k : k = call[c].dek
    OBVIOUS
  <2>3. call'[c].next.mac.key = k /\ k \notin {NoDek, StoredKey, anchor.dek}
    BY <1>4, <1>7, <2>2
  <2>4. \A db \in Dbs : files'[Jrnl(db)] = Missing
    BY <1>4, <1>10 DEF NoJournals
  <2>5. \A x \in LiveNames : files'[Shadow(x)] = [files'[x] EXCEPT !.dek = k]
    BY <1>4, <1>10, <2>2 DEF Shadowed
  <2>6. anchor' = anchor
    BY <1>1
  <2> QED BY <1>8, <1>11, <1>12, <2>1, <2>2, <2>3, <2>4, <2>5, <2>6 DEF CommitFits, NoJournals, Shadowed
<1>19. \A d \in Calls : CallFits(d)'
  <2> SUFFICES ASSUME NEW d \in Calls PROVE CallFits(d)'
    OBVIOUS
  <2>1. \A e \in Calls : e # c => ~Committing(e)' /\ call'[e] = call[e]
    BY <1>7, <1>17 DEF Committing, At, Apart
  <2>2. CASE d = c
    BY <1>4, <1>7, <1>18, <2>1, <2>2 DEF CallFits, At
  <2>3. CASE d # c
    <3>1. CallFits(d) /\ call'[d] = call[d] /\ ~Committing(d)'
      BY <2>1, <2>3 DEF Safe
    <3>2. \A db \in Dbs : files'[Jrnl(db)] = Missing
      BY <1>4, <1>10 DEF NoJournals
    <3> QED BY <3>1, <3>2 DEF CallFits, At
  <2> QED BY <2>2, <2>3
<1> QED BY <1>1, <1>12, <1>14, <1>15, <1>16, <1>19 DEF Safe

-----------------------------------------------------------------------------
(* Recovery. *)

\* Every element of a list but its head is in its tail.
LEMMA TodoTail ==
    ASSUME NEW S, NEW t \in Seq(S), t # <<>>, NEW i \in DOMAIN t
    PROVE  t[i] = Head(t) \/ \E j \in DOMAIN Tail(t) : Tail(t)[j] = t[i]
<1>1. CASE i = 1
  BY <1>1
<1>2. CASE i # 1
  <2>1. i \in 1 .. Len(t)
    OBVIOUS
  <2>2. i - 1 \in DOMAIN Tail(t) /\ Tail(t)[i - 1] = t[i]
    BY <1>2, <2>1
  <2> QED BY <2>2
<1> QED BY <1>1, <1>2

\* With a pool that was closed, or still has the stored key, recover_rotation
\* goes forward exactly when the intent is the stored key's.
LEMMA SafeInstall ==
    ASSUME TypeInv, Safe, NEW c \in Calls, Install(c), ~overtaken'
    PROVE  Safe'
<1>1. /\ busy = {} /\ busy' = {c} /\ UNCHANGED <<idb, files, anchor, acked, n>>
  BY DEF Install
<1>2. /\ Apart(call, call', c) /\ sess'.pool = StoredKey
      /\ sess'.wrote = sess.wrote /\ sess'.leaked = sess.leaked
  <2>1. /\ Touches(c) /\ sess' = [sess EXCEPT !.pool = sess'.pool]
        /\ overtaken' = (overtaken \/ sess'.pool # StoredKey)
    BY InstallCases
  <2>2. sess'.wrote = sess.wrote /\ sess'.leaked = sess.leaked
    BY <2>1, KeyFacts DEF Sessions
  <2> QED BY <2>1, <2>2, TouchApart
<1>3. /\ call'[c].pc \in {"apply", "swap", "discard"}
      /\ call'[c].pc = "swap" => call'[c].todo = Work(Dbs)
      /\ call'[c].pc = "swap" <=> Rolling
      /\ call'[c].pc # "discard" => files[Intent] = Missing \/ Rolling
  BY <1>2, InstallCases DEF Rolling, Written
<1>4. StoredKey' = StoredKey /\ (Rolling' <=> Rolling)
  BY <1>1 DEF StoredKey, Rolling
<1>5. Fits'
  <2>1. \A x : RollsTo(x)' = RollsTo(x)
    BY <1>1 DEF RollsTo
  <2> QED BY <1>1, <1>4, <2>1 DEF Safe, Fits
<1>6. FloorFits'
  BY <1>1, <1>4, FloorSame DEF Safe
<1>7. PoolFits'
  <2>1. PoolFits
    BY DEF Safe
  <2>2. \A db \in sess.wrote : ~(files[Jrnl(db)] # Missing /\ files[Jrnl(db)].hot)
    BY <1>1, <2>1 DEF PoolFits
  <2>3. Rolling' => call'[c].pc \in SwapPcs
    BY <1>3, <1>4 DEF SwapPcs
  <2> QED BY <1>1, <1>2, <1>4, <2>1, <2>2, <2>3 DEF PoolFits
<1>8. RunFits(c)'
  <2>1. call'[c].pc = "swap" => \A x \in LiveNames : x \in {call'[c].todo[i] : i \in DOMAIN call'[c].todo}
    BY <1>3, WorkFacts
  <2>2. call'[c].pc = "discard" => ~Rolling'
    BY <1>3, <1>4
  <2> QED BY <1>2, <1>3, <1>4, <2>1, <2>2 DEF RunFits, StagePcs, SwapPcs
<1>9. \A d \in Calls : CallFits(d)'
  <2> SUFFICES ASSUME NEW d \in Calls PROVE CallFits(d)'
    OBVIOUS
  <2>1. CASE d = c
    BY <1>3, <2>1 DEF CallFits, Committing, At
  <2>2. CASE d # c
    <3>1. call'[d] = call[d] /\ CallFits(d)
      BY <1>2, <2>2 DEF Apart, Safe
    <3>2. \A e \in Calls : Committing(e)' => Committing(e)
      BY <1>2, <1>3 DEF Committing, At, Apart
    <3>3. ASSUME CommitFits(d) PROVE CommitFits(d)'
      <4>1. AnchorLoad(StoredKey)' = AnchorLoad(StoredKey)
        BY <1>1, <1>4 DEF AnchorLoad
      <4>2. call'[c].pc = "discard"
        BY <1>3, <3>3 DEF CommitFits, Written, Rolling
      <4>3. \E o \in busy' : call'[o].pc = "discard"
        BY <1>1, <4>2
      <4> QED BY <1>1, <1>4, <3>1, <3>3, <4>1, <4>3 DEF CommitFits, NoJournals, Shadowed, At
    <3>4. (call[d].op = "rotate" /\ call[d].pc \in {"check", "showing", "sent"}) =>
            \A db \in Dbs : files[Jrnl(db)] # Missing => db \in sess'.wrote
      <4>1. sess'.wrote = sess.wrote
        BY InstallCases, KeyFacts DEF Sessions
      <4> QED BY <3>1, <4>1 DEF CallFits
    <3> QED BY <1>1, <3>1, <3>2, <3>3, <3>4 DEF CallFits, At, Committing
  <2> QED BY <2>1, <2>2
<1> QED BY <1>1, <1>4, <1>5, <1>6, <1>7, <1>8, <1>9 DEF Safe

LEMMA SwapFacts ==
    ASSUME TypeInv, Safe, NEW c \in Calls, busy = {c}, call[c].pc \in SwapPcs
    PROVE  /\ ~sess.on /\ sess.open = {} /\ sess.pool = StoredKey /\ Rolling
           /\ \A d \in Calls : ~Committing(d)
           /\ files[Intent].dbs = Dbs
           /\ \A db \in Dbs : /\ RollsTo(Main(db)) = File(StoredKey, acked[db])
                              /\ RollsTo(Mani(db)) = File(StoredKey, acked[db])
                              /\ files[Jrnl(db)] = Missing
           /\ \A x \in LiveNames : x \notin {call[c].todo[i] : i \in DOMAIN call[c].todo} =>
                                        files[Shadow(x)] = Missing
           /\ call[c].pc = "swapDrop" => files[Head(call[c].todo)] = files[Shadow(Head(call[c].todo))]
<1>1. RunOk(c) /\ RunFits(c) /\ call[c].pc \notin StagePcs
  BY DEF TypeInv, Safe, SwapPcs, StagePcs
<1>2. ~sess.on /\ sess.open = {}
  BY <1>1 DEF RunOk, TypeInv, SessOk
<1>3. /\ sess.pool = StoredKey /\ Rolling
      /\ \A x \in LiveNames : x \notin {call[c].todo[i] : i \in DOMAIN call[c].todo} =>
                                        files[Shadow(x)] = Missing
      /\ call[c].pc = "swapDrop" => files[Head(call[c].todo)] = files[Shadow(Head(call[c].todo))]
  BY <1>1 DEF RunFits
<1>4. \A d \in Calls : ~Committing(d)
  BY <1>3, NoneCommits
<1> QED BY <1>2, <1>3, <1>4 DEF Safe, Fits

\* A step of the roll-forward leaves what it will end in as it is.
LEMMA SafeSwap ==
    ASSUME TypeInv, Safe, NEW c \in Calls, busy = {c}, busy' = busy, call[c].pc \in SwapPcs,
           Apart(call, call', c), call'[c].pc \in SwapPcs,
           UNCHANGED <<idb, sess, acked, n>>, FloorFits', anchor'.dek <= n.deks,
           files'[Intent] = files[Intent],
           \A db \in Dbs : files'[Jrnl(db)] = files[Jrnl(db)],
           \A x \in LiveNames : RollsTo(x)' = RollsTo(x),
           \A x \in LiveNames : x \notin {call'[c].todo[i] : i \in DOMAIN call'[c].todo} =>
                                    files'[Shadow(x)] = Missing,
           call'[c].pc = "swapDrop" => files'[Head(call'[c].todo)] = files'[Shadow(Head(call'[c].todo))]
    PROVE  Safe'
<1>1. /\ sess.open = {} /\ sess.pool = StoredKey /\ Rolling
      /\ \A d \in Calls : ~Committing(d)
  BY SwapFacts
<1>2. StoredKey' = StoredKey
  BY DEF StoredKey
<1>3. Rolling'
  BY <1>1, <1>2 DEF Rolling
<1>4. Fits'
  <2>1. ASSUME NEW db \in Dbs
        PROVE  /\ RollsTo(Main(db))' = File(StoredKey, acked[db])
               /\ RollsTo(Mani(db))' = File(StoredKey, acked[db])
               /\ files'[Jrnl(db)] = Missing
    <3>1. Main(db) \in LiveNames /\ Mani(db) \in LiveNames
      BY NameFacts
    <3>2. /\ RollsTo(Main(db)) = File(StoredKey, acked[db])
          /\ RollsTo(Mani(db)) = File(StoredKey, acked[db]) /\ files[Jrnl(db)] = Missing
      BY SwapFacts
    <3> QED BY <3>1, <3>2
  <2>2. files'[Intent].dbs = Dbs
    BY SwapFacts
  <2> QED BY <1>2, <1>3, <2>1, <2>2 DEF Fits
<1>5. PoolFits'
  <2>1. sess.leaked = {}
    BY KeyFacts
  <2>2. sess.wrote = {}
    BY <1>1, NoneWrote
  <2> QED BY <1>1, <1>2, <2>1, <2>2 DEF PoolFits
<1>6. RunFits(c)'
  BY <1>1, <1>2, <1>3 DEF RunFits, StagePcs, SwapPcs
<1>7. \A d \in Calls : CallFits(d)'
  <2>1. call'[c].pc \notin {"check", "showing", "sent", "put"}
    BY DEF SwapPcs
  <2> QED BY <1>1, <2>1, CallsFit
<1>8. (StoredKey # NoDek /\ anchor.dek <= n.deks)'
  BY <1>2 DEF Safe
<1> QED BY <1>4, <1>5, <1>6, <1>7, <1>8 DEF Safe

LEMMA SafeSwapFile ==
    ASSUME TypeInv, Safe, NEW c \in Calls, SwapFile(c)
    PROVE  Safe'
<1> DEFINE f == Head(call[c].todo)
<1>1. /\ Runs(c, "swap") /\ call[c].todo # <<>>
      /\ UNCHANGED <<idb, anchor, sess, busy, acked, n>>
  BY DEF SwapFile
<1>2. /\ busy = {c} /\ call[c].pc = "swap" /\ call[c].todo \in Seq(LiveNames) /\ f \in LiveNames
      /\ call[c].pc \in SwapPcs
  BY <1>1, RunsFacts DEF SwapPcs
<1>3. \A x \in LiveNames : x \notin {call[c].todo[i] : i \in DOMAIN call[c].todo} =>
                                        files[Shadow(x)] = Missing
  BY <1>2, SwapFacts
<1>4. StoredKey' = StoredKey /\ FloorFits /\ anchor.dek <= n.deks
  BY <1>1 DEF StoredKey, Safe
<1>5. CASE /\ files[Shadow(f)] = Missing
           /\ call' = [call EXCEPT ![c].todo = Tail(@)] /\ UNCHANGED files
  <2>1. PICK t \in Seq(LiveNames) : t = call[c].todo
    BY <1>2
  <2>2. /\ Apart(call, call', c) /\ call'[c].pc = "swap" /\ call'[c].todo = Tail(t)
    <3>1. PICK s : s = Tail(t)
      OBVIOUS
    <3>2. call' = [call EXCEPT ![c].todo = s]
      BY <1>5, <2>1, <3>1
    <3> QED BY <1>2, <3>1, <3>2, TodoApart
  <2>3. \A x \in LiveNames : x \notin {call'[c].todo[i] : i \in DOMAIN call'[c].todo} =>
                                        files[Shadow(x)] = Missing
    <3> SUFFICES ASSUME NEW x \in LiveNames, x \notin {Tail(t)[i] : i \in DOMAIN Tail(t)}
                 PROVE  files[Shadow(x)] = Missing
      BY <2>2
    <3>1. ASSUME x # Head(t), NEW i \in DOMAIN t PROVE x # t[i]
      BY <1>1, <2>1, <3>1, TodoTail
    <3> QED BY <1>3, <1>5, <2>1, <3>1
  <2>4. \A x \in LiveNames : RollsTo(x)' = RollsTo(x)
    BY <1>5 DEF RollsTo
  <2>5. FloorFits'
    BY <1>1, <1>4, <1>5, FloorSame DEF Rolling
  <2>6. call'[c].pc \in SwapPcs
    BY <2>2 DEF SwapPcs
  <2> QED BY <1>1, <1>2, <1>4, <1>5, <2>2, <2>3, <2>4, <2>5, <2>6, SafeSwap
<1>6. CASE /\ files[Shadow(f)] # Missing /\ files' = [files EXCEPT ![f] = Partial]
           /\ call' = Go(c, "swapFill")
  <2>1. Apart(call, call', c) /\ call'[c].pc = "swapFill" /\ call'[c].todo = call[c].todo
    BY <1>6, GoApart
  <2> HIDE DEF f
  <2>2. f \in Names /\ FilesT(files)
    BY <1>2, NameFacts DEF TypeInv
  <2>3. \A y \in Names : y # f => files'[y] = files[y]
    BY <1>6, <2>2, WriteAt
  <2>4. /\ files'[Intent] = files[Intent]
        /\ \A db \in Dbs : files'[Jrnl(db)] = files[Jrnl(db)]
        /\ \A x \in LiveNames : files'[Shadow(x)] = files[Shadow(x)]
        /\ \A x \in LiveNames : x # f => files'[x] = files[x]
    BY <1>2, <2>3, NameFacts
  <2>5. \A x \in LiveNames : RollsTo(x)' = RollsTo(x)
    BY <1>6, <2>4 DEF RollsTo
  <2>6. FloorFits'
    BY <1>1, <1>4, <2>4, FloorSame DEF Rolling
  <2>7. call'[c].pc \in SwapPcs /\ call'[c].pc # "swapDrop"
    BY <2>1 DEF SwapPcs
  <2> QED BY <1>1, <1>2, <1>3, <1>4, <2>1, <2>4, <2>5, <2>6, <2>7, SafeSwap
<1> QED BY <1>5, <1>6 DEF SwapFile

LEMMA SafeSwapFill ==
    ASSUME TypeInv, Safe, NEW c \in Calls, SwapFill(c)
    PROVE  Safe'
<1> DEFINE f == Head(call[c].todo)
<1>1. /\ Runs(c, "swapFill") /\ call' = Go(c, "swapDrop") /\ files' = [files EXCEPT ![f] = files[Shadow(f)]]
      /\ UNCHANGED <<idb, anchor, sess, busy, acked, n>>
  BY DEF SwapFill
<1>2. /\ busy = {c} /\ call[c].pc = "swapFill" /\ RunOk(c) /\ call[c].pc \in SwapPcs
  BY <1>1, RunsFacts DEF SwapPcs
<1>3. call[c].todo # <<>> /\ files[Shadow(f)] # Missing
  BY <1>2 DEF RunOk
<1>4. f \in LiveNames
  BY <1>1, <1>3, RunsFacts
<1>5. \A x \in LiveNames : x \notin {call[c].todo[i] : i \in DOMAIN call[c].todo} =>
                                        files[Shadow(x)] = Missing
  BY <1>2, SwapFacts
<1>6. StoredKey' = StoredKey /\ FloorFits /\ anchor.dek <= n.deks
  BY <1>1 DEF StoredKey, Safe
<1>7. Apart(call, call', c) /\ call'[c].pc = "swapDrop" /\ call'[c].todo = call[c].todo
  BY <1>1, GoApart
<1>8. f = Head(call'[c].todo)
  BY <1>7
<1> HIDE DEF f
<1>9. f \in Names /\ FilesT(files)
  BY <1>4, NameFacts DEF TypeInv
<1>10. files'[f] = files[Shadow(f)] /\ \A y \in Names : y # f => files'[y] = files[y]
  <2>1. PICK v : v = files[Shadow(f)]
    OBVIOUS
  <2> QED BY <1>1, <1>9, <2>1, WriteAt
<1>11. /\ files'[Intent] = files[Intent]
       /\ \A db \in Dbs : files'[Jrnl(db)] = files[Jrnl(db)]
       /\ \A x \in LiveNames : files'[Shadow(x)] = files[Shadow(x)]
       /\ \A x \in LiveNames : x # f => files'[x] = files[x]
  BY <1>4, <1>10, NameFacts
<1>12. \A x \in LiveNames : RollsTo(x)' = RollsTo(x)
  BY <1>3, <1>11 DEF RollsTo
<1>13. FloorFits'
  BY <1>1, <1>6, <1>11, FloorSame DEF Rolling
<1>14. call'[c].pc \in SwapPcs
  BY <1>7 DEF SwapPcs
<1>15. files'[f] = files'[Shadow(f)]
  BY <1>4, <1>10, <1>11
<1> QED BY <1>1, <1>2, <1>5, <1>6, <1>7, <1>8, <1>11, <1>12, <1>13, <1>14, <1>15, SafeSwap

LEMMA SafeSwapDrop ==
    ASSUME TypeInv, Safe, NEW c \in Calls, SwapDrop(c)
    PROVE  Safe'
<1> DEFINE f == Head(call[c].todo)
<1>1. /\ Runs(c, "swapDrop") /\ files' = [files EXCEPT ![Shadow(f)] = Missing]
      /\ UNCHANGED <<idb, anchor, sess, busy, acked, n>>
  BY DEF SwapDrop
<1>2. /\ busy = {c} /\ call[c].pc = "swapDrop" /\ RunOk(c) /\ call[c].pc \in SwapPcs /\ CallsOk
      /\ call[c].todo \in Seq(LiveNames)
  BY <1>1, RunsFacts DEF SwapPcs
<1>3. call[c].todo # <<>> /\ files[Shadow(f)] # Missing
  BY <1>2 DEF RunOk
<1>4. f \in LiveNames
  BY <1>1, <1>3, RunsFacts
<1>5. /\ \A x \in LiveNames : x \notin {call[c].todo[i] : i \in DOMAIN call[c].todo} =>
                                        files[Shadow(x)] = Missing
      /\ files[f] = files[Shadow(f)]
  BY <1>2, SwapFacts
<1>6. StoredKey' = StoredKey /\ FloorFits /\ anchor.dek <= n.deks
  BY <1>1 DEF StoredKey, Safe
<1>7. PICK t \in Seq(LiveNames) : t = call[c].todo
  BY <1>2
<1>8. Apart(call, call', c) /\ call'[c].pc = "swap" /\ call'[c].todo = Tail(t)
  <2>0. CallsOk
    BY <1>2
  <2> HIDE DEF f
  <2>1. call' = [call EXCEPT ![c] = MoveOf(call[c], "swap", Tail(call[c].todo))]
    <3>1. call' = [call EXCEPT ![c].pc = "swap", ![c].todo = Tail(@)]
      BY DEF SwapDrop
    <3>2. PICK s : s = Tail(call[c].todo)
      OBVIOUS
    <3>3. call' = [call EXCEPT ![c].pc = "swap", ![c].todo = s]
      BY <2>0, <3>1, <3>2 DEF CallsOk
    <3>4. call' = [call EXCEPT ![c] = MoveOf(call[c], "swap", s)]
      BY <2>0, <3>3 DEF MoveOf, CallsOk
    <3> QED BY <3>2, <3>4
  <2>2. Tail(call[c].todo) \in Seq(LiveNames) /\ n' = n
    BY <1>1, <1>3, RunsFacts
  <2>3. Touches(c) /\ call'[c].pc = "swap" /\ call'[c].todo = Tail(call[c].todo)
    <3>1. PICK p \in BusyPcs \cup SdkPcs : p = "swap"
      BY PcFacts
    <3>2. PICK s \in Seq(LiveNames) : s = Tail(call[c].todo)
      BY <2>2
    <3>3. call' = [call EXCEPT ![c] = MoveOf(call[c], p, s)]
      BY <2>1, <3>1, <3>2
    <3>4. Touches(c) /\ call'[c].pc = p /\ call'[c].todo = s
      BY <2>0, <2>2, <3>3, TodoTouches
    <3> QED BY <3>1, <3>2, <3>4
  <2> QED BY <1>7, <2>3, TouchApart
<1> HIDE DEF f
<1>9. Shadow(f) \in Names /\ FilesT(files)
  BY <1>4, NameFacts DEF TypeInv
<1>10. files'[Shadow(f)] = Missing /\ \A y \in Names : y # Shadow(f) => files'[y] = files[y]
  BY <1>1, <1>9, WriteAt
<1>11. /\ files'[Intent] = files[Intent]
       /\ \A db \in Dbs : files'[Jrnl(db)] = files[Jrnl(db)]
       /\ \A x \in LiveNames : x # f => files'[Shadow(x)] = files[Shadow(x)]
       /\ \A x \in LiveNames : files'[x] = files[x]
  BY <1>4, <1>10, NameFacts
<1>12. \A x \in LiveNames : RollsTo(x)' = RollsTo(x)
  BY <1>5, <1>10, <1>11 DEF RollsTo
<1>13. FloorFits'
  BY <1>1, <1>6, <1>11, FloorSame DEF Rolling
<1>14. call'[c].pc \in SwapPcs /\ call'[c].pc # "swapDrop"
  BY <1>8 DEF SwapPcs
<1>15. \A x \in LiveNames : x \notin {call'[c].todo[i] : i \in DOMAIN call'[c].todo} =>
                                        files'[Shadow(x)] = Missing
  <2> SUFFICES ASSUME NEW x \in LiveNames, x \notin {Tail(t)[i] : i \in DOMAIN Tail(t)}
               PROVE  files'[Shadow(x)] = Missing
    BY <1>8
  <2>1. ASSUME x # Head(t), NEW i \in DOMAIN t PROVE x # t[i]
    BY <1>3, <1>7, <2>1, TodoTail
  <2>2. CASE x = f
    BY <1>10, <2>2
  <2>3. CASE x # f
    BY <1>5, <1>7, <1>11, <2>1, <2>3 DEF f
  <2> QED BY <2>2, <2>3
<1> QED BY <1>1, <1>2, <1>6, <1>8, <1>11, <1>12, <1>13, <1>14, <1>15, SafeSwap

LEMMA SafeCarryAnchor ==
    ASSUME TypeInv, Safe, NEW c \in Calls, CarryAnchor(c)
    PROVE  Safe'
<1>1. /\ Runs(c, "swap") /\ UNCHANGED <<idb, files, sess, call, busy, acked, n>>
  BY DEF CarryAnchor
<1>2. /\ busy = {c} /\ call[c].pc = "swap" /\ call[c].pc \in SwapPcs
  BY <1>1, RunsFacts DEF SwapPcs
<1>3. /\ sess.pool = StoredKey /\ Rolling
      /\ \A x \in LiveNames : x \notin {call[c].todo[i] : i \in DOMAIN call[c].todo} =>
                                        files[Shadow(x)] = Missing
  BY <1>2, SwapFacts
<1>4. PICK db \in Uncarried :
         anchor' = AnchorRecord(sess.pool, db, files[Intent].committed[db], files[Intent].floor[db])
  BY DEF CarryAnchor
<1>5. db \in Dbs
  BY DEF Uncarried
<1>6. files[Intent].committed[db] \in Nat /\ files[Intent].floor[db] \in Nat
  <2>1. files[Intent] \in IntentT /\ files[Intent] \notin {Missing, Partial}
    BY <1>3 DEF TypeInv, FilesT, Rolling, Written
  <2>2. files[Intent].committed \in [Dbs -> Nat] /\ files[Intent].floor \in [Dbs -> Nat]
    BY <2>1, FileKinds
  <2> QED BY <1>5, <2>2
<1>7. /\ anchor'.dek = StoredKey
      /\ \A e \in Dbs : anchor'.floor[e] = IF e = db /\ AnchorLoad(StoredKey).floor[e] < files[Intent].floor[db]
                                           THEN files[Intent].floor[db] ELSE AnchorLoad(StoredKey).floor[e]
  <2>1. PICK k, g, h : k = StoredKey /\ g = files[Intent].committed[db] /\ h = files[Intent].floor[db]
    OBVIOUS
  <2>2. anchor \in Anchors /\ k \in Nat /\ g \in Nat /\ h \in Nat /\ anchor' = AnchorRecord(k, db, g, h)
    BY <1>3, <1>4, <1>6, <2>1, KeyFacts
  <2>3. db \in Dbs /\ anchor \in Anchors /\ k \in Nat /\ g \in Nat /\ h \in Nat
    BY <1>5, <2>2
  <2>4. /\ AnchorRecord(k, db, g, h).dek = k
        /\ \A e \in Dbs : AnchorRecord(k, db, g, h).floor[e] =
                IF e = db /\ AnchorLoad(k).floor[e] < h THEN h ELSE AnchorLoad(k).floor[e]
    BY ONLY <2>3, AnchorRecordT
  <2> QED BY <2>1, <2>2, <2>4
<1>8. StoredKey' = StoredKey /\ (Rolling' <=> Rolling)
  BY <1>1 DEF StoredKey, Rolling
<1>9. FloorFits'
  <2>1. AnchorLoad(StoredKey)' = anchor'
    BY <1>7, <1>8 DEF AnchorLoad
  <2>2. \A e \in Dbs : AnchorLoad(StoredKey).floor[e] <= acked[e] /\ files[Intent].floor[e] <= acked[e]
    BY <1>3 DEF Safe, FloorFits
  <2>3. \A e \in Dbs : anchor'.floor[e] <= acked[e]
    BY <1>7, <2>2
  <2> QED BY <1>1, <1>8, <2>1, <2>2, <2>3 DEF FloorFits
<1>10. anchor'.dek <= n.deks
  BY <1>7, KeyFacts
<1>11. Apart(call, call', c) /\ \A x \in LiveNames : RollsTo(x)' = RollsTo(x)
  BY <1>1 DEF Apart, RollsTo
<1> QED BY <1>1, <1>2, <1>3, <1>9, <1>10, <1>11, SafeSwap

\* The roll-forward is over: every live file is in its place.
LEMMA SafeDropIntent ==
    ASSUME TypeInv, Safe, NEW c \in Calls, DropIntent(c)
    PROVE  Safe'
<1>1. /\ Runs(c, "swap") /\ call[c].todo = <<>> /\ files' = [files EXCEPT ![Intent] = Missing]
      /\ call' = Go(c, "apply") /\ UNCHANGED <<idb, anchor, sess, busy, acked, n>>
  BY DEF DropIntent
<1>2. /\ busy = {c} /\ call[c].pc = "swap" /\ call[c].pc \in SwapPcs
  BY <1>1, RunsFacts DEF SwapPcs
<1>3. /\ sess.open = {} /\ sess.pool = StoredKey /\ Rolling /\ \A d \in Calls : ~Committing(d)
      /\ \A db \in Dbs : /\ RollsTo(Main(db)) = File(StoredKey, acked[db])
                         /\ RollsTo(Mani(db)) = File(StoredKey, acked[db])
                         /\ files[Jrnl(db)] = Missing
  BY <1>2, SwapFacts
<1>4. \A x \in LiveNames : RollsTo(x) = files[x]
  <2>1. {call[c].todo[i] : i \in DOMAIN call[c].todo} = {}
    BY <1>1
  <2>2. \A x \in LiveNames : files[Shadow(x)] = Missing
    BY <1>2, <2>1, SwapFacts
  <2> QED BY <2>2 DEF RollsTo
<1>5. /\ Apart(call, call', c) /\ call'[c].pc = "apply"
  BY <1>1, GoApart
<1>6. Intent \in Names /\ FilesT(files)
  BY NameFacts DEF TypeInv
<1>7. files'[Intent] = Missing /\ \A y \in Names : y # Intent => files'[y] = files[y]
  BY <1>1, <1>6, WriteAt
<1>8. StoredKey' = StoredKey /\ ~Rolling'
  BY <1>1, <1>7 DEF StoredKey, Rolling, Written
<1>9. Fits'
  <2>1. ASSUME NEW db \in Dbs PROVE Serves(files', StoredKey, db, acked[db])
    <3>1. /\ Main(db) \in LiveNames /\ Mani(db) \in LiveNames
          /\ files'[Main(db)] = files[Main(db)] /\ files'[Mani(db)] = files[Mani(db)]
          /\ files'[Jrnl(db)] = files[Jrnl(db)]
      BY <1>7, NameFacts
    <3>2. /\ files'[Main(db)] = File(StoredKey, acked[db]) /\ files'[Mani(db)] = File(StoredKey, acked[db])
          /\ files'[Jrnl(db)] = Missing
      BY <1>3, <1>4, <3>1
    <3>3. StoredKey \in Nat /\ acked[db] \in Nat
      BY KeyFacts
    <3>4. PICK k, v : k = StoredKey /\ v = acked[db]
      OBVIOUS
    <3>5. File(k, v).is = "file" /\ File(k, v).dek = k /\ File(k, v).ver = v
      BY DEF File
    <3> QED BY <3>2, <3>4, <3>5 DEF Serves
  <2> QED BY <1>1, <1>8, <2>1 DEF Fits
<1>10. FloorFits'
  BY <1>1, <1>8, FloorSame DEF Safe
<1>11. PoolFits'
  <2>1. sess.leaked = {}
    BY KeyFacts
  <2>2. sess.wrote = {}
    BY <1>3, NoneWrote
  <2> QED BY <1>1, <1>3, <1>8, <2>1, <2>2 DEF PoolFits
<1>12. RunFits(c)'
  BY <1>1, <1>3, <1>5, <1>8 DEF RunFits, StagePcs, SwapPcs
<1>13. \A d \in Calls : CallFits(d)'
  <2>1. call'[c].pc \notin {"check", "showing", "sent", "put"}
    BY <1>5
  <2>2. \A db \in Dbs : files'[Jrnl(db)] = files[Jrnl(db)]
    BY <1>7, NameFacts
  <2>3. sess' = sess
    BY <1>1
  <2> QED BY <1>3, <1>5, <2>1, <2>2, <2>3, CallsFit
<1> QED BY <1>1, <1>2, <1>8, <1>9, <1>10, <1>11, <1>12, <1>13 DEF Safe

\* Without a rotation that is about to commit, what a discard drops belongs
\* to nobody.
LEMMA SafeDiscard ==
    ASSUME TypeInv, Safe, NEW c \in Calls, Discard(c), ~overtaken'
    PROVE  Safe'
<1>1. /\ Runs(c, "discard") /\ UNCHANGED <<idb, anchor, sess, busy, acked, n>>
      /\ \A d \in Calls : ~Committing(d)
  BY DEF Discard, Committing
<1>2. /\ busy = {c} /\ call[c].pc = "discard" /\ RunOk(c) /\ RunFits(c)
  BY <1>1, RunsFacts DEF Safe
<1>3. ~sess.on /\ sess.open = {} /\ ~Rolling /\ sess.pool = StoredKey
  BY <1>2 DEF RunOk, RunFits, TypeInv, SessOk, StagePcs
<1>4. PICK f \in Staging : /\ files' = [files EXCEPT ![f] = Missing]
                           /\ call' = IF Staging = {f} THEN Go(c, "apply") ELSE call
  BY DEF Discard
<1>5. FilesT(files) /\ f \in Names /\ (f = Intent \/ \E x \in LiveNames : f = Shadow(x))
  BY WriteStaging DEF TypeInv
<1>6. files'[f] = Missing /\ \A y \in Names : y # f => files'[y] = files[y]
  BY <1>4, <1>5, WriteAt
<1>7. /\ \A x \in LiveNames : files'[x] = files[x]
      /\ \A db \in Dbs : files'[Jrnl(db)] = files[Jrnl(db)]
      /\ files'[Intent] = files[Intent] \/ files'[Intent] = Missing
  BY <1>5, <1>6, NameFacts
<1>8. Apart(call, call', c) /\ call'[c].pc \in {"discard", "apply"}
  <2>1. CASE call' = call
    BY <1>2, <2>1 DEF Apart
  <2>2. CASE call' = Go(c, "apply")
    BY <2>2, GoApart
  <2> QED BY <1>4, <2>1, <2>2
<1>9. StoredKey' = StoredKey /\ ~Rolling'
  BY <1>1, <1>3, <1>7 DEF StoredKey, Rolling, Written
<1>10. Fits'
  <2>1. ASSUME NEW db \in Dbs PROVE Serves(files', StoredKey, db, acked[db])
    <3>1. files'[Main(db)] = files[Main(db)] /\ files'[Mani(db)] = files[Mani(db)]
      BY <1>7, NameFacts
    <3>2. Serves(files, StoredKey, db, acked[db])
      BY <1>3 DEF Safe, Fits
    <3> QED BY <1>7, <3>1, <3>2, ServesSame
  <2> QED BY <1>1, <1>9, <2>1 DEF Fits
<1>11. FloorFits'
  BY <1>1, <1>9, FloorSame DEF Safe
<1>12. PoolFits'
  <2>1. sess.leaked = {}
    BY KeyFacts
  <2>2. sess.wrote = {}
    BY <1>3, NoneWrote
  <2> QED BY <1>1, <1>3, <1>9, <2>1, <2>2 DEF PoolFits
<1>13. RunFits(c)'
  BY <1>1, <1>3, <1>8, <1>9 DEF RunFits, StagePcs, SwapPcs
<1>14. \A d \in Calls : CallFits(d)'
  <2>1. call'[c].pc \notin {"check", "showing", "sent", "put"}
    BY <1>8
  <2>2. sess' = sess
    BY <1>1
  <2> QED BY <1>1, <1>7, <1>8, <2>1, <2>2, CallsFit
<1> QED BY <1>1, <1>2, <1>9, <1>10, <1>11, <1>12, <1>13, <1>14 DEF Safe

\* A session that begins has nothing open.
LEMMA OnFacts ==
    ASSUME sess \in Sessions, NEW s,
           s = [sess EXCEPT !.on = TRUE, !.open = {}, !.wrote = {}, !.leaked = @ \cup sess.open]
    PROVE  s.pool = sess.pool /\ s.open = {} /\ s.wrote = {} /\ s.leaked = sess.leaked \cup sess.open
<1>1. PICK s1 : s1 = [sess EXCEPT !.on = TRUE]
  OBVIOUS
<1>2. PICK s2 : s2 = [s1 EXCEPT !.open = {}]
  OBVIOUS
<1>3. PICK s3 : s3 = [s2 EXCEPT !.wrote = {}]
  OBVIOUS
<1>4. s = [s3 EXCEPT !.leaked = @ \cup sess.open]
  BY <1>1, <1>2, <1>3
<1>5. s1 = [on |-> TRUE, pool |-> sess.pool, open |-> sess.open, wrote |-> sess.wrote,
            leaked |-> sess.leaked]
  BY <1>1 DEF Sessions
<1>6. s2 = [on |-> TRUE, pool |-> sess.pool, open |-> {}, wrote |-> sess.wrote,
            leaked |-> sess.leaked]
  BY <1>2, <1>5
<1>7. s3 = [on |-> TRUE, pool |-> sess.pool, open |-> {}, wrote |-> {}, leaked |-> sess.leaked]
  BY <1>3, <1>6
<1> QED BY <1>4, <1>7

\* A session begins, or does not, over files that are at rest.
LEMMA SafeApplyEpoch ==
    ASSUME TypeInv, Safe, NEW c \in Calls, ApplyEpoch(c), ~overtaken'
    PROVE  Safe'
<1> DEFINE t  == call[c].epoch
           on == [sess EXCEPT !.on = TRUE, !.open = {}, !.wrote = {}, !.leaked = @ \cup sess.open]
<1>1. /\ Runs(c, "apply") /\ call' = Return(c) /\ busy' = {}
      /\ UNCHANGED <<idb, files, acked, n>> /\ sess.open = {}
  BY DEF ApplyEpoch
<1>2. /\ busy = {c} /\ call[c].pc = "apply" /\ RunOk(c) /\ RunFits(c) /\ CallT(call[c], n.deks)
  BY <1>1, RunsFacts DEF Safe
<1>3. /\ files[Intent] = Missing /\ sess.pool = StoredKey /\ sess.wrote = {}
  BY <1>1, <1>2 DEF RunOk, RunFits, StagePcs, TypeInv, SessOk
<1>4. sess \in Sessions /\ anchor \in Anchors /\ sess.leaked = {} /\ StoredKey \in Nat
  BY KeyFacts
<1>5. t.db \in Dbs /\ t.gen \in 0 .. 1
  BY <1>2 DEF CallT, Tokens
<1>6. on.pool = sess.pool /\ on.open = {} /\ on.wrote = {} /\ on.leaked = {}
  BY <1>1, <1>4, OnFacts
<1>7. /\ anchor' = anchor \/ anchor' = AnchorRecord(StoredKey, t.db, t.gen, t.gen)
      /\ sess' \in {on, sess, [sess EXCEPT !.pool = NoDek]}
  BY <1>3 DEF ApplyEpoch
<1> HIDE DEF on, t
<1>8. /\ sess'.pool \in {NoDek, StoredKey} /\ sess'.open = {} /\ sess'.wrote = {} /\ sess'.leaked = {}
  <2>1. CASE sess' = on
    BY <1>3, <1>6, <2>1
  <2>2. CASE sess' = sess
    BY <1>1, <1>3, <1>4, <2>2
  <2>3. CASE sess' = [sess EXCEPT !.pool = NoDek]
    BY <1>1, <1>3, <1>4, <2>3 DEF Sessions
  <2> QED BY <1>7, <2>1, <2>2, <2>3
<1>9. StoredKey' = StoredKey /\ ~Rolling /\ ~Rolling' /\ \A d \in Calls : ~Committing(d)
  BY <1>1, <1>3, NoneCommits DEF StoredKey, Rolling, Written
<1>10. FloorFits' /\ anchor'.dek <= n.deks
  <2>1. CASE anchor' = anchor
    BY <1>1, <1>9, <2>1, FloorSame DEF Safe
  <2>2. CASE anchor' = AnchorRecord(StoredKey, t.db, t.gen, t.gen)
    <3>1. PICK k, e, g : k = StoredKey /\ e = t.db /\ g = t.gen
      OBVIOUS
    <3>2. /\ AnchorRecord(k, e, g, g).dek = k
          /\ \A d \in Dbs : AnchorRecord(k, e, g, g).floor[d] =
                IF d = e /\ AnchorLoad(k).floor[d] < g THEN g ELSE AnchorLoad(k).floor[d]
      <4>1. k \in Nat /\ e \in Dbs /\ g \in Nat
        BY <1>4, <1>5, <3>1
      <4> QED BY <1>4, <4>1, AnchorRecordT
    <3>3. anchor' = AnchorRecord(k, e, g, g) /\ g <= 1
      BY <1>5, <2>2, <3>1
    <3>4. anchor'.dek = StoredKey /\ AnchorLoad(StoredKey)' = anchor'
      BY <1>9, <3>1, <3>2, <3>3 DEF AnchorLoad
    <3>5. ASSUME NEW d \in Dbs PROVE anchor'.floor[d] <= acked[d]
      <4>1. AnchorLoad(StoredKey).floor[d] <= acked[d]
        BY DEF Safe, FloorFits
      <4>2. acked[d] \in Nat \ {0}
        BY KeyFacts
      <4>3. anchor'.floor[d] = g \/ anchor'.floor[d] = AnchorLoad(StoredKey).floor[d]
        BY <3>1, <3>2, <3>3
      <4>4. g \in 0 .. 1
        BY <1>5, <3>1
      <4> QED BY <4>1, <4>2, <4>3, <4>4
    <3> QED BY <1>1, <1>9, <3>4, <3>5, KeyFacts DEF FloorFits
  <2> QED BY <1>7, <2>1, <2>2
<1>11. Fits'
  BY <1>1, <1>9 DEF Safe, Fits
<1>12. PoolFits'
  BY <1>8, <1>9 DEF PoolFits
<1>13. \A d \in Calls : CallFits(d)'
  <2>1. Apart(call, call', c) /\ call'[c].pc \notin {"check", "showing", "sent", "put"}
    BY <1>1, ReturnApart
  <2> QED BY <1>1, <1>3, <1>8, <1>9, <2>1, CallsFit
<1> QED BY <1>1, <1>9, <1>10, <1>11, <1>12, <1>13 DEF Safe

-----------------------------------------------------------------------------
(* SQL. *)

\* A statement is about to run: its database is open, at its last version.
LEMMA SafeReady ==
    ASSUME TypeInv, Safe, NEW c \in Calls, busy = {}, busy' = {c}, sess.on, sess.pool # NoDek,
           Apart(call, call', c), call'[c].pc = "ready",
           UNCHANGED <<idb, files, acked, n>>, sess'.pool = sess.pool, sess'.leaked = sess.leaked,
           sess'.wrote = sess.wrote, anchor'.dek <= n.deks,
           \A db \in Dbs : AnchorLoad(StoredKey)'.floor[db] = AnchorLoad(StoredKey).floor[db]
    PROVE  Safe'
<1>1. /\ ~Rolling /\ \A d \in Calls : ~Committing(d)
      /\ \A db \in Dbs : Serves(files, StoredKey, db, acked[db])
  BY SessionFacts
<1>2. StoredKey' = StoredKey /\ ~Rolling'
  BY <1>1 DEF StoredKey, Rolling
<1>3. sess.pool = StoredKey /\ sess.leaked = {}
  BY DEF Safe, PoolFits
<1>4. Fits'
  BY <1>1, <1>2 DEF Fits
<1>5. FloorFits'
  BY <1>2 DEF Safe, FloorFits
<1>6. PoolFits'
  <2>1. \A db \in sess.wrote : ~(files[Jrnl(db)] # Missing /\ files[Jrnl(db)].hot)
    BY DEF Safe, PoolFits
  <2> QED BY <1>2, <1>3, <2>1 DEF PoolFits
<1>7. RunFits(c)'
  BY <1>2, <1>3 DEF RunFits, StagePcs, SwapPcs
<1>8. \A d \in Calls : CallFits(d)'
  BY <1>1, CallsFit
<1>9. (StoredKey # NoDek /\ anchor.dek <= n.deks)'
  BY <1>2 DEF Safe
<1> QED BY <1>4, <1>5, <1>6, <1>7, <1>8, <1>9 DEF Safe

LEMMA SafeTakeSql ==
    ASSUME TypeInv, Safe, NEW c \in Calls, TakeSql(c)
    PROVE  Safe'
<1>1. /\ busy = {} /\ call[c].pc = "sent" /\ UNCHANGED <<idb, files, answered, acked, overtaken, n>>
  <2>1. Takes(c, {"sql"}) /\ UNCHANGED <<idb, files, answered, acked, overtaken, n>>
    BY DEF TakeSql
  <2> QED BY <2>1, TakesFacts DEF At
<1>2. CASE call' = Return(c) /\ UNCHANGED <<anchor, sess, busy>>
  <2>1. Apart(call, call', c) /\ call'[c].pc = "idle"
    BY <1>2, ReturnApart
  <2> QED BY <1>1, <1>2, <2>1, SafeTaken
<1>3. CASE /\ sess.on /\ sess.pool # NoDek /\ call' = Go(c, "ready") /\ busy' = {c}
           /\ \/ call[c].db \in sess.open /\ UNCHANGED <<anchor, sess>>
              \/ Opens(c, call[c].db)
  <2>1. Apart(call, call', c) /\ call'[c].pc = "ready"
    BY <1>3, GoApart
  <2>2. PICK db \in Dbs : db = call[c].db
    BY DEF TypeInv, CallsOk, CallT
  <2>3. sess.pool = StoredKey /\ anchor.dek <= n.deks
    BY <1>3 DEF Safe, PoolFits
  <2>4. CASE UNCHANGED <<anchor, sess>>
    <3>1. \A e \in Dbs : AnchorLoad(StoredKey)'.floor[e] = AnchorLoad(StoredKey).floor[e]
      BY <1>1, <2>4 DEF AnchorLoad, StoredKey
    <3> QED BY <1>1, <1>3, <2>1, <2>3, <2>4, <3>1, SafeReady
  <2>5. CASE Opens(c, db)
    <3>1. /\ sess'.wrote = sess.wrote /\ sess'.pool = sess.pool /\ sess'.leaked = sess.leaked
          /\ files[Mani(db)].ver \in Nat
      BY <2>5, OpensT
    <3>2. /\ anchor'.dek = StoredKey
          /\ \A e \in Dbs : AnchorLoad(StoredKey)'.floor[e] = AnchorLoad(StoredKey).floor[e]
      <4>1. PICK k, g, h : k = StoredKey /\ g = files[Mani(db)].ver /\ h = 0
        OBVIOUS
      <4>2. k \in Nat /\ g \in Nat /\ h \in Nat /\ anchor \in Anchors
        BY <3>1, <4>1, KeyFacts
      <4>3. anchor' = AnchorRecord(k, db, g, h)
        BY <2>3, <2>5, <4>1 DEF Opens
      <4>4. /\ anchor'.dek = k
            /\ \A e \in Dbs : anchor'.floor[e] =
                IF e = db /\ AnchorLoad(k).floor[e] < h THEN h ELSE AnchorLoad(k).floor[e]
        BY <4>2, <4>3, AnchorRecordT
      <4>5. \A e \in Dbs : AnchorLoad(k).floor[e] \in Nat
        <5>1. AnchorLoad(k) \in Anchors
          BY <4>2, AnchorT
        <5> QED BY <5>1 DEF Anchors
      <4>6. \A e \in Dbs : anchor'.floor[e] = AnchorLoad(k).floor[e]
        BY <4>1, <4>4, <4>5
      <4>7. AnchorLoad(StoredKey)' = anchor'
        BY <1>1, <4>1, <4>4 DEF AnchorLoad, StoredKey
      <4> QED BY <4>1, <4>4, <4>6, <4>7
    <3>3. anchor'.dek <= n.deks
      BY <3>2, KeyFacts
    <3> QED BY <1>1, <1>3, <2>1, <3>1, <3>2, <3>3, SafeReady
  <2> QED BY <1>3, <2>2, <2>4, <2>5
<1> QED BY <1>2, <1>3, <1>1, TakeSqlCases

LEMMA SafeSqlRead ==
    ASSUME TypeInv, Safe, NEW c \in Calls, SqlRead(c)
    PROVE  Safe'
<1>1. /\ Runs(c, "ready") /\ call' = Return(c) /\ busy' = {} /\ UNCHANGED <<idb, files, anchor, sess, acked, n>>
  BY DEF SqlRead
<1>2. busy = {c} /\ call[c].pc = "ready" /\ sess.on
  BY <1>1, SqlFacts DEF Runs, At
<1> QED BY <1>1, <1>2, SafeReturns

\* The first write of a transaction: the version to go back to is in the
\* journal before the main file changes.
LEMMA SafeSqlBegin ==
    ASSUME TypeInv, Safe, NEW c \in Calls, SqlBegin(c)
    PROVE  Safe'
<1>1. Runs(c, "ready") /\ ~IsHot(call[c].db) /\ UNCHANGED <<idb, anchor, acked>>
  BY DEF SqlBegin
<1>2. PICK db : db = call[c].db
  OBVIOUS
<1>3. /\ busy = {c} /\ call[c].pc = "ready" /\ sess.on /\ db \in Dbs /\ db \in sess.open /\ n \in Counters
  BY <1>1, <1>2, SqlFacts DEF Runs, At
<1>4. CASE Fails(c) /\ UNCHANGED n
  BY <1>1, <1>3, <1>4, SafeReturns DEF Fails
<1>5. CASE Begins(c)
  <2>1. /\ sess'.on = sess.on /\ sess'.pool = sess.pool /\ sess'.open = sess.open
        /\ sess'.wrote = sess.wrote \cup {db} /\ sess'.leaked = sess.leaked
        /\ \A x \in Names : x \notin {Main(db), Jrnl(db)} => files'[x] = files[x]
        /\ files'[Main(db)].is = "file" /\ files'[Main(db)].dek = files[Main(db)].dek
        /\ files'[Jrnl(db)] # Missing /\ files'[Jrnl(db)].dek = sess.pool
        /\ files'[Jrnl(db)].hot /\ files'[Jrnl(db)].pre = files[Main(db)].ver
    BY <1>1, <1>2, <1>5, BeginsT
  <2>2. /\ busy' = busy /\ Apart(call, call', c) /\ call'[c].pc = "commit" /\ call'[c].db = db
        /\ n' = [n EXCEPT !.writes = @ + 1]
    BY <1>2, <1>5, GoApart DEF Begins
  <2>3. n'.deks = n.deks
    BY <1>3, <2>2, CountersT
  <2>4. /\ files[Intent] = Missing /\ ~Rolling /\ \A d \in Calls : ~Committing(d)
        /\ \A e \in Dbs : Serves(files, StoredKey, e, acked[e])
    <3>1. \A d \in busy : ~At(d, "intentFill")
      BY <1>3 DEF At
    <3> QED BY <1>3, <3>1, SessionFacts
  <2>5. sess.pool = StoredKey
    <3>1. RunFits(c)
      BY <1>3 DEF Safe
    <3> QED BY <1>3, <3>1 DEF RunFits, StagePcs
  <2>6. \A e \in sess.wrote : ~(files[Jrnl(e)] # Missing /\ files[Jrnl(e)].hot)
    <3>1. \A d \in busy : ~At(d, "commit")
      BY <1>3 DEF At
    <3> QED BY <3>1 DEF Safe, PoolFits
  <2>7. files'[Mani(db)] = files[Mani(db)] /\ files'[Intent] = files[Intent]
    BY <1>3, <2>1, NameFacts
  <2>8. \A e \in Dbs : e # db => /\ files'[Main(e)] = files[Main(e)] /\ files'[Mani(e)] = files[Mani(e)]
                                 /\ files'[Jrnl(e)] = files[Jrnl(e)]
    BY <1>3, <2>1, NameFacts
  <2>9. ASSUME NEW e \in Dbs PROVE Serves(files', StoredKey, e, acked[e])
    <3>1. CASE e = db
      <4>1. Serves(files, StoredKey, db, acked[db]) /\ ~(files[Jrnl(db)] # Missing /\ files[Jrnl(db)].hot)
        BY <1>1, <1>2, <1>3, <2>4 DEF IsHot
      <4>2. files[Main(db)].ver = acked[db]
        BY <4>1 DEF Serves
      <4> QED BY <2>1, <2>5, <2>7, <3>1, <4>1, <4>2 DEF Serves
    <3>2. CASE e # db
      BY <2>4, <2>8, <3>2, ServesSame
    <3> QED BY <3>1, <3>2
  <2>10. StoredKey' = StoredKey /\ ~Rolling'
    BY <1>1, <2>4, <2>7 DEF StoredKey, Rolling, Written
  <2>11. Fits'
    BY <1>1, <2>9, <2>10 DEF Fits
  <2>12. FloorFits'
    BY <1>1, <2>10, FloorSame DEF Safe
  <2>13. PoolFits'
    <3>1. ASSUME NEW e \in sess'.wrote, files'[Jrnl(e)] # Missing, files'[Jrnl(e)].hot PROVE e = db
      <4>1. e # db => e \in sess.wrote /\ e \in Dbs
        BY <2>1, <3>1, KeyFacts DEF Sessions
      <4> QED BY <2>6, <2>8, <3>1, <4>1
    <3>2. sess.leaked = {}
      BY KeyFacts
    <3>3. c \in busy' /\ call'[c].pc = "commit" /\ call'[c].db = db
      BY <1>3, <2>2
    <3> QED BY <2>1, <2>5, <2>10, <3>1, <3>2, <3>3 DEF PoolFits, At
  <2>14. RunFits(c)'
    BY <2>1, <2>2, <2>5, <2>10 DEF RunFits, StagePcs, SwapPcs
  <2>15. \A d \in Calls : CallFits(d)'
    <3>1. (\A e \in Dbs : files[Jrnl(e)] # Missing => e \in sess.wrote)
                => (\A e \in Dbs : files'[Jrnl(e)] # Missing => e \in sess'.wrote)
      BY <2>1, <2>8
    <3>2. call'[c].pc \notin {"check", "showing", "sent", "put"}
      BY <2>2
    <3> QED BY <2>2, <2>4, <3>1, <3>2, CallsFit
  <2>16. (StoredKey # NoDek /\ anchor.dek <= n.deks)'
    BY <1>1, <2>3, <2>10 DEF Safe
  <2> QED BY <1>3, <2>2, <2>11, <2>12, <2>13, <2>14, <2>15, <2>16 DEF Safe
<1> QED BY <1>4, <1>5, SqlBeginCases DEF Begins

\* The first write over a hot journal: the half-written file is sealed as the
\* version after the one it replaced, and that is what the new journal names.
LEMMA SafeSqlBeginOver ==
    ASSUME TypeInv, Safe, NEW c \in Calls, SqlBeginOver(c)
    PROVE  Safe'
<1>1. /\ Runs(c, "ready") /\ UNCHANGED <<idb, busy>> /\ call' = Go(c, "commit")
      /\ n' = [n EXCEPT !.writes = @ + 1]
  BY DEF SqlBeginOver
<1>2. PICK db, ver : db = call[c].db /\ ver = files[Jrnl(db)].pre + 1
  OBVIOUS
<1>3. /\ busy = {c} /\ call[c].pc = "ready" /\ db \in Dbs /\ sess.on /\ db \in sess.open
      /\ files[Intent] = Missing /\ n \in Counters /\ sess \in Sessions
  BY <1>1, <1>2, SqlFacts DEF Runs, At
<1>4. /\ ver \in Nat \ {0} /\ files[Jrnl(db)] # Missing /\ files[Jrnl(db)].hot
      /\ \A x \in Names : x \notin {Main(db), Mani(db), Jrnl(db)} => files'[x] = files[x]
      /\ files'[Main(db)] = File(files[Main(db)].dek, Mid)
      /\ files'[Mani(db)] = File(files[Mani(db)].dek, ver)
      /\ files'[Jrnl(db)] # Missing /\ files'[Jrnl(db)].dek = sess.pool
      /\ files'[Jrnl(db)].hot /\ files'[Jrnl(db)].pre = ver
  BY <1>2, SqlBeginOverFiles
<1>5. /\ anchor' = AnchorRecord(sess.pool, db, ver, 0) /\ acked' = [acked EXCEPT ![db] = ver]
      /\ sess' = [sess EXCEPT !.wrote = @ \cup {db}]
  BY <1>2 DEF SqlBeginOver
<1>6. /\ ~Rolling /\ \A d \in Calls : ~Committing(d)
      /\ \A e \in Dbs : Serves(files, StoredKey, e, acked[e])
  <2>1. \A d \in busy : ~At(d, "intentFill")
    BY <1>3 DEF At
  <2> QED BY <1>3, <2>1, SessionFacts
<1>7. sess.pool = StoredKey
  <2>1. RunFits(c)
    BY <1>3 DEF Safe
  <2> QED BY <1>3, <2>1 DEF RunFits, StagePcs
<1>8. /\ acked'[db] = ver /\ \A e \in Dbs : e # db => acked'[e] = acked[e]
      /\ \A e \in Dbs : acked'[e] >= acked[e] /\ acked[e] \in Nat
  <2>1. acked \in [Dbs -> Nat \ {0}]
    BY DEF TypeInv, RestOk
  <2>2. acked'[db] = ver /\ \A e \in Dbs : e # db => acked'[e] = acked[e]
    BY <1>3, <1>5, <2>1
  <2>3. ver = acked[db] + 1
    BY <1>2, <1>3, <1>4, <1>6 DEF Serves
  <2> QED BY <1>3, <2>1, <2>2, <2>3
<1>9. \A e \in Dbs : e # db => /\ files'[Main(e)] = files[Main(e)] /\ files'[Mani(e)] = files[Mani(e)]
                               /\ files'[Jrnl(e)] = files[Jrnl(e)]
  BY <1>3, <1>4, NameFacts
<1>10. files'[Intent] = Missing
  BY <1>3, <1>4, NameFacts
<1>11. StoredKey' = StoredKey /\ ~Rolling'
  BY <1>1, <1>10 DEF StoredKey, Rolling, Written
<1>12. ASSUME NEW e \in Dbs PROVE Serves(files', StoredKey, e, acked'[e])
  <2>1. CASE e = db
    <3>1. Serves(files, StoredKey, db, acked[db])
      BY <1>3, <1>6
    <3>2. /\ files'[Main(db)].is = "file" /\ files'[Main(db)].dek = files[Main(db)].dek
          /\ files'[Mani(db)].is = "file" /\ files'[Mani(db)].ver = ver
          /\ files'[Mani(db)].dek = files[Mani(db)].dek
      BY <1>4 DEF File
    <3> QED BY <1>4, <1>7, <1>8, <2>1, <3>1, <3>2 DEF Serves
  <2>2. CASE e # db
    BY <1>6, <1>8, <1>9, <2>2, ServesSame
  <2> QED BY <2>1, <2>2
<1>13. Fits'
  BY <1>11, <1>12 DEF Fits
<1>14. FloorFits' /\ anchor'.dek <= n.deks
  <2>1. PICK k, h : k = StoredKey /\ h = 0
    OBVIOUS
  <2>2. k \in Nat /\ ver \in Nat /\ h \in Nat /\ anchor \in Anchors
    BY <1>4, <2>1, KeyFacts
  <2>3. anchor' = AnchorRecord(k, db, ver, h)
    BY <1>5, <1>7, <2>1
  <2>4. /\ anchor'.dek = k
        /\ \A e \in Dbs : anchor'.floor[e] =
                IF e = db /\ AnchorLoad(k).floor[e] < h THEN h ELSE AnchorLoad(k).floor[e]
    BY <1>3, <2>2, <2>3, AnchorRecordT
  <2>5. AnchorLoad(StoredKey)' = anchor'
    BY <1>11, <2>1, <2>4 DEF AnchorLoad
  <2>6. ASSUME NEW e \in Dbs PROVE anchor'.floor[e] <= acked'[e]
    <3>1. AnchorLoad(k).floor[e] <= acked[e]
      BY <2>1 DEF Safe, FloorFits
    <3>2. AnchorLoad(k).floor[e] \in Nat
      BY <2>2, AnchorT DEF Anchors
    <3>3. acked'[e] >= acked[e] /\ acked[e] \in Nat /\ acked'[e] \in Nat
      BY <1>4, <1>8
    <3> QED BY <2>1, <2>4, <3>1, <3>2, <3>3
  <2> QED BY <1>11, <2>1, <2>4, <2>5, <2>6, KeyFacts DEF FloorFits
<1>15. /\ Apart(call, call', c) /\ call'[c].pc = "commit" /\ call'[c].db = db
       /\ n'.deks = n.deks
  BY <1>1, <1>2, <1>3, GoApart, CountersT
<1>16. /\ sess'.wrote = sess.wrote \cup {db} /\ sess'.pool = sess.pool
       /\ sess'.leaked = sess.leaked /\ sess.wrote \subseteq Dbs
  BY <1>3, <1>5 DEF Sessions
<1>17. PoolFits'
  <2>1. ASSUME NEW e \in sess'.wrote, files'[Jrnl(e)] # Missing, files'[Jrnl(e)].hot PROVE e = db
    <3>1. \A d \in busy : ~At(d, "commit")
      BY <1>3 DEF At
    <3>2. e # db => ~(files[Jrnl(e)] # Missing /\ files[Jrnl(e)].hot) /\ e \in Dbs
      BY <1>16, <2>1, <3>1 DEF Safe, PoolFits
    <3> QED BY <1>9, <2>1, <3>2
  <2>2. sess.leaked = {}
    BY KeyFacts
  <2>3. c \in busy' /\ call'[c].pc = "commit" /\ call'[c].db = db
    BY <1>1, <1>3, <1>15
  <2> QED BY <1>7, <1>11, <1>16, <2>1, <2>2, <2>3 DEF PoolFits, At
<1>18. RunFits(c)'
  BY <1>4, <1>7, <1>11, <1>15, <1>16 DEF RunFits, StagePcs, SwapPcs
<1>19. \A d \in Calls : CallFits(d)'
  <2>1. (\A e \in Dbs : files[Jrnl(e)] # Missing => e \in sess.wrote)
                => (\A e \in Dbs : files'[Jrnl(e)] # Missing => e \in sess'.wrote)
    BY <1>9, <1>16
  <2>2. call'[c].pc \notin {"check", "showing", "sent", "put"}
    BY <1>15
  <2> QED BY <1>6, <1>15, <2>1, <2>2, CallsFit
<1> QED BY <1>1, <1>3, <1>11, <1>13, <1>14, <1>15, <1>17, <1>18, <1>19 DEF Safe

\* A commit: the version after the one in the journal.
LEMMA SafeSqlCommit ==
    ASSUME TypeInv, Safe, NEW c \in Calls, SqlCommit(c)
    PROVE  Safe'
<1>1. /\ Runs(c, "commit") /\ UNCHANGED <<idb, sess, n>> /\ call' = Return(c) /\ busy' = {}
  BY DEF SqlCommit
<1>2. PICK db, ver : db = call[c].db /\ ver = files[Jrnl(db)].pre + 1
  OBVIOUS
<1>3. /\ busy = {c} /\ call[c].pc = "commit" /\ db \in Dbs /\ sess.on /\ db \in sess.open
      /\ files[Intent] = Missing
  BY <1>1, <1>2, SqlFacts DEF Runs, At
<1>4. /\ ver \in Nat \ {0} /\ files[Jrnl(db)] # Missing
      /\ \A x \in Names : x \notin {Main(db), Mani(db), Jrnl(db)} => files'[x] = files[x]
      /\ files'[Main(db)] = File(files[Main(db)].dek, ver)
      /\ files'[Mani(db)] = File(files[Mani(db)].dek, ver)
      /\ files'[Jrnl(db)] # Missing /\ files'[Jrnl(db)].dek = files[Jrnl(db)].dek
      /\ ~files'[Jrnl(db)].hot
  BY <1>2, SqlCommitFiles
<1>5. anchor' = AnchorRecord(sess.pool, db, ver, 0) /\ acked' = [acked EXCEPT ![db] = ver]
  BY <1>2 DEF SqlCommit
<1>6. /\ ~Rolling /\ \A d \in Calls : ~Committing(d)
      /\ \A e \in Dbs : Serves(files, StoredKey, e, acked[e])
  <2>1. \A d \in busy : ~At(d, "intentFill")
    BY <1>3 DEF At
  <2> QED BY <1>3, <2>1, SessionFacts
<1>7. sess.pool = StoredKey /\ files[Jrnl(db)].hot
  <2>1. RunFits(c)
    BY <1>3 DEF Safe
  <2> QED BY <1>2, <1>3, <2>1 DEF RunFits, StagePcs
<1>8. /\ acked'[db] = ver /\ \A e \in Dbs : e # db => acked'[e] = acked[e]
      /\ \A e \in Dbs : acked'[e] >= acked[e] /\ acked[e] \in Nat
  <2>1. acked \in [Dbs -> Nat \ {0}]
    BY DEF TypeInv, RestOk
  <2>2. acked'[db] = ver /\ \A e \in Dbs : e # db => acked'[e] = acked[e]
    BY <1>3, <1>5, <2>1
  <2>3. ver = acked[db] + 1
    BY <1>2, <1>3, <1>4, <1>6, <1>7 DEF Serves
  <2> QED BY <1>3, <2>1, <2>2, <2>3
<1>9. \A e \in Dbs : e # db => /\ files'[Main(e)] = files[Main(e)] /\ files'[Mani(e)] = files[Mani(e)]
                               /\ files'[Jrnl(e)] = files[Jrnl(e)]
  BY <1>3, <1>4, NameFacts
<1>10. files'[Intent] = Missing
  BY <1>3, <1>4, NameFacts
<1>11. StoredKey' = StoredKey /\ ~Rolling'
  BY <1>1, <1>10 DEF StoredKey, Rolling, Written
<1>12. ASSUME NEW e \in Dbs PROVE Serves(files', StoredKey, e, acked'[e])
  <2>1. CASE e = db
    <3>1. Serves(files, StoredKey, db, acked[db])
      BY <1>3, <1>6
    <3>2. /\ files'[Main(db)].is = "file" /\ files'[Main(db)].ver = ver
          /\ files'[Main(db)].dek = files[Main(db)].dek
          /\ files'[Mani(db)].is = "file" /\ files'[Mani(db)].ver = ver
          /\ files'[Mani(db)].dek = files[Mani(db)].dek
      BY <1>4 DEF File
    <3> QED BY <1>4, <1>8, <2>1, <3>1, <3>2 DEF Serves
  <2>2. CASE e # db
    BY <1>6, <1>8, <1>9, <2>2, ServesSame
  <2> QED BY <2>1, <2>2
<1>13. Fits'
  BY <1>11, <1>12 DEF Fits
<1>14. FloorFits' /\ anchor'.dek <= n.deks
  <2>1. PICK k, h : k = StoredKey /\ h = 0
    OBVIOUS
  <2>2. k \in Nat /\ ver \in Nat /\ h \in Nat /\ anchor \in Anchors
    BY <1>4, <2>1, KeyFacts
  <2>3. anchor' = AnchorRecord(k, db, ver, h)
    BY <1>5, <1>7, <2>1
  <2>4. /\ anchor'.dek = k
        /\ \A e \in Dbs : anchor'.floor[e] =
                IF e = db /\ AnchorLoad(k).floor[e] < h THEN h ELSE AnchorLoad(k).floor[e]
    BY <1>3, <2>2, <2>3, AnchorRecordT
  <2>5. AnchorLoad(StoredKey)' = anchor'
    BY <1>11, <2>1, <2>4 DEF AnchorLoad
  <2>6. ASSUME NEW e \in Dbs PROVE anchor'.floor[e] <= acked'[e]
    <3>1. AnchorLoad(k).floor[e] <= acked[e]
      BY <2>1 DEF Safe, FloorFits
    <3>2. AnchorLoad(k).floor[e] \in Nat
      BY <2>2, AnchorT DEF Anchors
    <3>3. acked'[e] >= acked[e] /\ acked[e] \in Nat /\ acked'[e] \in Nat
      BY <1>4, <1>8
    <3> QED BY <2>1, <2>4, <3>1, <3>2, <3>3
  <2> QED BY <1>11, <2>1, <2>4, <2>5, <2>6, KeyFacts DEF FloorFits
<1>15. PoolFits'
  <2>1. ASSUME NEW e \in sess.wrote PROVE ~(files'[Jrnl(e)] # Missing /\ files'[Jrnl(e)].hot)
    <3>1. e \in Dbs
      BY KeyFacts DEF Sessions
    <3>2. CASE e = db
      BY <1>4, <3>2
    <3>3. CASE e # db
      <4>1. ~(files[Jrnl(e)] # Missing /\ files[Jrnl(e)].hot)
        BY <1>2, <1>3, <3>3 DEF Safe, PoolFits
      <4> QED BY <1>9, <3>1, <3>3, <4>1
    <3> QED BY <3>2, <3>3
  <2>2. sess.leaked = {}
    BY KeyFacts
  <2> QED BY <1>1, <1>7, <1>11, <2>1, <2>2 DEF PoolFits
<1>16. \A d \in Calls : CallFits(d)'
  <2>1. Apart(call, call', c) /\ call'[c].pc = "idle"
    BY <1>1, ReturnApart
  <2>2. \A e \in Dbs : files'[Jrnl(e)] # Missing => files[Jrnl(e)] # Missing
    BY <1>4, <1>9
  <2>3. call'[c].pc \notin {"check", "showing", "sent", "put"}
    BY <2>1
  <2> QED BY <1>1, <1>6, <2>1, <2>2, <2>3, CallsFit
<1> QED BY <1>1, <1>11, <1>13, <1>14, <1>15, <1>16 DEF Safe

-----------------------------------------------------------------------------
(* The stored key fits the files. *)

\* What overtook a call stays on record.
LEMMA OvertakenStays ==
    ASSUME TypeInv, [Next]_vars, overtaken
    PROVE  overtaken'
<1>1. CASE UNCHANGED vars \/ Crash
  BY <1>1 DEF vars, Crash
<1>2. ASSUME NEW c \in Calls, SdkStep(c) PROVE overtaken'
  BY <1>2 DEF SdkStep, Unlock, AddRecoveryCode, RemoveMethod, RotateKey, Sql, Lock, Starts, Posts,
              Confirm, Cancel, Put, ReadFloor, BumpFloor, DelEpoch, Reopen
<1>3. ASSUME NEW c \in Calls, WorkerStep(c) PROVE overtaken'
  <2>1. CASE TakeCheck(c) \/ TakeAsk(c) \/ TakeLock(c) \/ TakeAdd(c) \/ TakeRemove(c) \/ TakeRotate(c)
    BY <2>1 DEF TakeCheck, TakeAsk, TakeLock, TakeAdd, TakeRemove, TakeRotate
  <2>2. CASE StageFile(c) \/ StageFill(c) \/ StageIntent(c) \/ IntentFill(c) \/ TakeOpen(c) \/ Install(c)
    BY <2>2 DEF StageFile, StageFill, StageIntent, IntentFill, TakeOpen, Install
  <2>3. CASE SwapFile(c) \/ SwapFill(c) \/ SwapDrop(c) \/ CarryAnchor(c) \/ DropIntent(c)
    BY <2>3 DEF SwapFile, SwapFill, SwapDrop, CarryAnchor, DropIntent
  <2>4. CASE Discard(c) \/ ApplyEpoch(c)
    BY <2>4 DEF Discard, ApplyEpoch
  <2>5. CASE TakeSql(c) \/ SqlRead(c) \/ SqlBegin(c) \/ SqlBeginOver(c) \/ SqlCommit(c)
    BY <2>5 DEF TakeSql, SqlRead, SqlBegin, SqlBeginOver, SqlCommit
  <2> QED BY <1>3, <2>1, <2>2, <2>3, <2>4, <2>5 DEF WorkerStep
<1> QED BY <1>1, <1>2, <1>3 DEF Next

LEMMA SafeStep ==
    ASSUME TypeInv, TypeInv', SafeInv, RotatesOverJournal = FALSE, [Next]_vars
    PROVE  SafeInv'
<1> SUFFICES ASSUME ~overtaken', Safe PROVE Safe'
  BY OvertakenStays DEF SafeInv
<1>1. CASE UNCHANGED vars
  BY <1>1 DEF vars, Safe, Fits, FloorFits, PoolFits, RunFits, CallFits, StageFits, CommitFits,
              Committing, At, StoredKey, Rolling, RollsTo, AnchorLoad, NoJournals, Shadowed
<1>2. CASE Crash
  BY <1>2, SafeCrash
<1>3. ASSUME NEW c \in Calls, SdkStep(c) PROVE Safe'
  BY <1>3, SafeSdk
<1>4. ASSUME NEW c \in Calls, WorkerStep(c) PROVE Safe'
  <2>1. CASE TakeCheck(c) \/ TakeAsk(c) \/ TakeLock(c) \/ TakeAdd(c) \/ TakeRemove(c) \/ TakeRotate(c)
    BY <2>1, SafeTakeCheck, SafeTakeAsk, SafeTakeLock, SafeTakeAdd, SafeTakeRemove, SafeTakeRotate
  <2>2. CASE StageFile(c) \/ StageFill(c) \/ StageIntent(c) \/ IntentFill(c)
    BY <2>2, SafeStageFile, SafeStageFill, SafeStageIntent, SafeIntentFill
  <2>3. CASE TakeOpen(c) \/ Install(c)
    BY <2>3, SafeTakeOpen, SafeInstall
  <2>4. CASE SwapFile(c) \/ SwapFill(c) \/ SwapDrop(c) \/ CarryAnchor(c) \/ DropIntent(c)
    BY <2>4, SafeSwapFile, SafeSwapFill, SafeSwapDrop, SafeCarryAnchor, SafeDropIntent
  <2>5. CASE Discard(c) \/ ApplyEpoch(c)
    BY <2>5, SafeDiscard, SafeApplyEpoch
  <2>6. CASE TakeSql(c) \/ SqlRead(c) \/ SqlBegin(c) \/ SqlBeginOver(c) \/ SqlCommit(c)
    BY <2>6, SafeTakeSql, SafeSqlRead, SafeSqlBegin, SafeSqlBeginOver, SafeSqlCommit
  <2> QED BY <1>4, <2>1, <2>2, <2>3, <2>4, <2>5, <2>6 DEF WorkerStep
<1> QED BY <1>1, <1>2, <1>3, <1>4 DEF Next

LEMMA SafeInit ==
    ASSUME Init
    PROVE  SafeInv
<1>1. /\ files = [f \in Names |-> IF f \in LiveNames THEN File(1, 1) ELSE Missing]
      /\ anchor = [dek |-> 1, committed |-> [db \in Dbs |-> 1], floor |-> [db \in Dbs |-> 0]]
      /\ sess = NoSession /\ call = [c \in Calls |-> Rest] /\ busy = {}
      /\ acked = [db \in Dbs |-> 1]
  BY DEF Init
<1>2. StoredKey = 1
  <2>1. PICK t : idb = [env |-> CreateEnvelope(1, Prf, Passkey), floor |-> 1, epoch |-> t]
    BY DEF Init
  <2>2. PICK e : e = CreateEnvelope(1, Prf, Passkey)
    OBVIOUS
  <2>3. idb.env = e
    BY <2>1, <2>2
  <2> QED BY <2>2, <2>3, CreateFacts DEF StoredKey
<1>3. n.deks = 1
  BY DEF Init
<1>4. files[Intent] = Missing /\ ~Rolling
  BY <1>1, NameFacts DEF Rolling, Written
<1>5. Fits
  <2>1. ASSUME NEW db \in Dbs PROVE Serves(files, 1, db, 1)
    <3>1. files[Main(db)] = File(1, 1) /\ files[Mani(db)] = File(1, 1) /\ files[Jrnl(db)] = Missing
      BY <1>1, NameFacts
    <3>2. File(1, 1).is = "file" /\ File(1, 1).dek = 1 /\ File(1, 1).ver = 1
      BY DEF File
    <3> QED BY <3>1, <3>2 DEF Serves
  <2> QED BY <1>1, <1>2, <1>4, <2>1 DEF Fits
<1>6. FloorFits
  BY <1>1, <1>2, <1>4 DEF FloorFits, AnchorLoad
<1>7. PoolFits
  BY <1>1, <1>4 DEF PoolFits, NoSession
<1>8. \A c \in Calls : CallFits(c)
  BY <1>1, RestFields DEF CallFits, Committing, At
<1> QED BY <1>1, <1>2, <1>3, <1>5, <1>6, <1>7, <1>8 DEF SafeInv, Safe, NoDek

\* The pool after recover_rotation has run to its end.
LEMMA RecoveredFits ==
    ASSUME TypeInv, Safe, NEW db \in Dbs
    PROVE  Serves(Recovered(files, StoredKey), StoredKey, db, acked[db])
<1> DEFINE g == Recovered(files, StoredKey)
<1>1. /\ Main(db) \in LiveNames /\ Mani(db) \in LiveNames /\ Main(db) \in Names /\ Mani(db) \in Names
      /\ Jrnl(db) \in Names /\ Jrnl(db) \notin LiveNames /\ Jrnl(db) # Intent /\ Intent \notin LiveNames
      /\ \A y \in LiveNames : Shadow(y) \notin LiveNames /\ Shadow(y) # Jrnl(db)
  BY NameFacts
<1>2. CASE files[Intent] = Missing
  <2>1. g = files /\ ~Rolling
    BY <1>2 DEF Recovered, Rolling, Written
  <2> QED BY <2>1 DEF Safe, Fits
<1>3. CASE Rolling
  <2>1. g = [x \in Names |->
                IF x \in LiveNames /\ files[Shadow(x)] # Missing THEN files[Shadow(x)]
                ELSE IF x = Intent \/ \E y \in LiveNames : x = Shadow(y) THEN Missing
                ELSE files[x]]
    BY <1>3 DEF Recovered, Rolling, Written
  <2> HIDE DEF g
  <2>2. g[Main(db)] = RollsTo(Main(db)) /\ g[Mani(db)] = RollsTo(Mani(db)) /\ g[Jrnl(db)] = files[Jrnl(db)]
    BY <1>1, <2>1 DEF RollsTo
  <2>3. PICK k, v : k = StoredKey /\ v = acked[db]
    OBVIOUS
  <2>4. g[Main(db)] = File(k, v) /\ g[Mani(db)] = File(k, v) /\ g[Jrnl(db)] = Missing
    BY <1>3, <2>2, <2>3 DEF Safe, Fits
  <2>5. File(k, v).is = "file" /\ File(k, v).dek = k /\ File(k, v).ver = v
    BY DEF File
  <2>6. Serves(g, k, db, v)
    BY <2>4, <2>5 DEF Serves
  <2> QED BY <2>3, <2>6 DEF g
<1>4. CASE files[Intent] # Missing /\ ~Rolling
  <2>1. g = [x \in Names |->
                IF x = Intent \/ \E y \in LiveNames : x = Shadow(y) THEN Missing ELSE files[x]]
    BY <1>4 DEF Recovered, Rolling, Written
  <2> HIDE DEF g
  <2>2. g[Main(db)] = files[Main(db)] /\ g[Mani(db)] = files[Mani(db)] /\ g[Jrnl(db)] = files[Jrnl(db)]
    BY <1>1, <2>1
  <2>3. Serves(files, StoredKey, db, acked[db])
    BY <1>4 DEF Safe, Fits
  <2>4. Serves(g, StoredKey, db, acked[db])
    BY <2>2, <2>3, ServesSame
  <2> QED BY <2>4 DEF g
<1> QED BY <1>2, <1>3, <1>4

\* A database's floor, from the anchor and from an intent that rolls forward.
Loaded(db) == AnchorLoad(StoredKey).floor[db]
Carried(db) == IF Rolling THEN files[Intent].floor[db] ELSE 0

LEMMA FloorIs ==
    ASSUME NEW db \in Dbs
    PROVE  FloorOf(db) = Max({Loaded(db), Carried(db)})
BY DEF FloorOf, Loaded, Carried, Rolling, Written, StoredKey

LEMMA LoadedT ==
    ASSUME TypeInv, NEW db \in Dbs
    PROVE  Loaded(db) \in Nat /\ Carried(db) \in Nat
<1>1. anchor \in Anchors /\ files[Intent] \in IntentT
  BY DEF TypeInv, RestOk, FilesT
<1>2. Loaded(db) \in Nat
  BY <1>1 DEF Loaded, AnchorLoad, Anchors
<1>3. Carried(db) \in Nat
  <2>1. CASE Rolling
    <3>1. files[Intent] \notin {Missing, Partial}
      BY <2>1 DEF Rolling, Written
    <3>2. files[Intent].floor \in [Dbs -> Nat]
      BY <1>1, <3>1, FileKinds
    <3> QED BY <2>1, <3>2 DEF Carried
  <2>2. CASE ~Rolling
    BY <2>2 DEF Carried
  <2> QED BY <2>1, <2>2
<1> QED BY <1>2, <1>3

LEMMA SafeRecovers ==
    ASSUME TypeInv, SafeInv
    PROVE  Recoverable
<1> SUFFICES ASSUME Safe PROVE KeyFitsFiles
  BY DEF SafeInv, Recoverable
<1>1. ASSUME NEW db \in Dbs PROVE Serves(Recovered(files, StoredKey), StoredKey, db, acked[db])
  BY RecoveredFits
<1>2. ASSUME NEW db \in Dbs PROVE FloorOf(db) <= acked[db]
  <2>1. Loaded(db) \in Nat /\ Carried(db) \in Nat /\ acked[db] \in Nat
    BY LoadedT, KeyFacts
  <2>2. Loaded(db) <= acked[db] /\ Carried(db) <= acked[db]
    BY <2>1 DEF Safe, FloorFits, Loaded, Carried
  <2> QED BY <2>1, <2>2, FloorIs, MaxFacts
<1> QED BY <1>1, <1>2 DEF KeyFitsFiles, StoredKey

\* The stored key fits the files: whatever step of rotateKey(), stage_rotation
\* or recover_rotation a crash interrupts, and however often, under the key in
\* IndexedDB every database is accepted after recovery at the version it was
\* last sealed at, unless overlapping calls overtook one another.  rotateKey()
\* must not be called over a journal that an earlier crash left behind (the
\* run RotateHot shows what happens if it is).
THEOREM VaultRecoverable == RotatesOverJournal = FALSE => (Spec => []Recoverable)
<1> SUFFICES ASSUME RotatesOverJournal = FALSE PROVE Spec => []Recoverable
  OBVIOUS
<1> DEFINE I == TypeInv /\ OrderInv /\ SafeInv
<1>1. Init => I
  BY InitT, OrderInit, SafeInit
<1>2. I /\ [Next]_vars => I'
  <2> SUFFICES ASSUME TypeInv, OrderInv, SafeInv, [Next]_vars PROVE TypeInv' /\ OrderInv' /\ SafeInv'
    OBVIOUS
  <2>1. TypeInv'
    BY TypeStep DEF OrderInv
  <2>2. OrderInv'
    BY <2>1, OrderStep
  <2> QED BY <2>1, <2>2, SafeStep
<1>3. I => Recoverable
  BY SafeRecovers
<1> QED BY <1>1, <1>2, <1>3, PTL DEF Spec

-----------------------------------------------------------------------------
(* An attested floor survives. *)

LEMMA LoadedNext ==
    ASSUME TypeInv', NEW db \in Dbs
    PROVE  Loaded(db)' \in Nat /\ Carried(db)' \in Nat
<1>1. anchor' \in Anchors /\ files'[Intent] \in IntentT
  BY DEF TypeInv, RestOk, FilesT
<1>2. Loaded(db)' \in Nat
  BY <1>1 DEF Loaded, AnchorLoad, Anchors
<1>3. Carried(db)' \in Nat
  <2>1. CASE Rolling'
    <3>1. files'[Intent] \notin {Missing, Partial}
      BY <2>1 DEF Rolling, Written
    <3>2. files'[Intent].floor \in [Dbs -> Nat]
      BY <1>1, <3>1, FileKinds
    <3> QED BY <2>1, <3>2 DEF Carried
  <2>2. CASE ~Rolling'
    BY <2>2 DEF Carried
  <2> QED BY <2>1, <2>2
<1> QED BY <1>2, <1>3

\* A floor stays when each of its two carriers is taken over by one of them.
LEMMA FloorUp ==
    ASSUME TypeInv, TypeInv', NEW db \in Dbs,
           Loaded(db)' >= Loaded(db) \/ Carried(db)' >= Loaded(db),
           Carried(db)' >= Carried(db) \/ Loaded(db)' >= Carried(db)
    PROVE  FloorOf(db)' >= FloorOf(db)
<1>1. PICK a \in Nat, b \in Nat : a = Loaded(db) /\ b = Carried(db)
  BY LoadedT
<1>2. PICK x \in Nat, y \in Nat : x = Loaded(db)' /\ y = Carried(db)'
  BY LoadedNext
<1>3. FloorOf(db) = IF a >= b THEN a ELSE b
  BY <1>1, FloorIs, MaxFacts
<1>4. FloorOf(db)' = Max({x, y})
  BY <1>2 DEF FloorOf, Loaded, Carried, Rolling, Written, StoredKey
<1>5. FloorOf(db)' = IF x >= y THEN x ELSE y
  BY <1>4, MaxFacts
<1> QED BY <1>1, <1>2, <1>3, <1>5

LEMMA FloorQuiet ==
    ASSUME TypeInv, TypeInv', NEW db \in Dbs, anchor' = anchor, StoredKey' = StoredKey,
           ~Rolling \/ files'[Intent] = files[Intent]
    PROVE  FloorOf(db)' >= FloorOf(db)
<1>1. Loaded(db)' = Loaded(db)
  BY DEF Loaded, AnchorLoad
<1>2. Loaded(db) \in Nat /\ Carried(db) \in Nat /\ Carried(db)' \in Nat
  BY LoadedT, LoadedNext
<1>3. Carried(db)' >= Carried(db)
  <2>1. CASE ~Rolling
    BY <1>2, <2>1 DEF Carried
  <2>2. CASE files'[Intent] = files[Intent]
    <3>1. Carried(db)' = Carried(db)
      BY <2>2 DEF Carried, Rolling
    <3> QED BY <1>2, <3>1
  <2> QED BY <2>1, <2>2
<1> QED BY <1>1, <1>2, <1>3, FloorUp

\* The anchor records a mark under the stored key.
LEMMA AnchorUp ==
    ASSUME TypeInv, TypeInv', NEW db \in Dbs, StoredKey' = StoredKey,
           ~Rolling \/ files'[Intent] = files[Intent],
           NEW e \in Dbs, NEW g \in Nat, NEW h \in Nat, anchor' = AnchorRecord(StoredKey, e, g, h)
    PROVE  FloorOf(db)' >= FloorOf(db)
<1>1. PICK k : k = StoredKey
  OBVIOUS
<1>2. k \in Nat /\ anchor \in Anchors
  <2>1. n.deks \in Nat /\ StoredKey \in 0 .. n.deks
    BY CountersT DEF TypeInv, IdbOk, EnvT, RestOk, StoredKey
  <2> QED BY <1>1, <2>1 DEF TypeInv, RestOk
<1>3. /\ anchor'.dek = k
      /\ anchor'.floor[db] = IF db = e /\ AnchorLoad(k).floor[db] < h THEN h ELSE AnchorLoad(k).floor[db]
  BY <1>1, <1>2, AnchorRecordT
<1>4. Loaded(db)' = anchor'.floor[db] /\ Loaded(db) = AnchorLoad(k).floor[db]
  BY <1>1, <1>3 DEF Loaded, AnchorLoad
<1>5. Loaded(db) \in Nat /\ Carried(db) \in Nat /\ Carried(db)' \in Nat
  BY LoadedT, LoadedNext
<1>6. Loaded(db)' >= Loaded(db)
  BY <1>3, <1>4, <1>5
<1>7. Carried(db)' >= Carried(db)
  <2>1. CASE ~Rolling
    BY <1>5, <2>1 DEF Carried
  <2>2. CASE files'[Intent] = files[Intent]
    <3>1. Carried(db)' = Carried(db)
      BY <2>2 DEF Carried, Rolling
    <3> QED BY <1>5, <3>1
  <2> QED BY <2>1, <2>2
<1> QED BY <1>6, <1>7, FloorUp

\* The commit barrier: the anchor reads as empty under the new key, and the
\* intent, which now rolls forward, has its floors.
LEMMA FloorPutRotate ==
    ASSUME TypeInv, TypeInv', Safe, NEW c \in Calls, Put(c), call[c].op = "rotate", NEW db \in Dbs
    PROVE  FloorOf(db)' >= FloorOf(db)
<1>1. /\ Committing(c) /\ UNCHANGED <<files, anchor>> /\ idb' = [idb EXCEPT !.env = call[c].next]
  BY DEF Put, Committing
<1>2. CommitFits(c)
  BY <1>1 DEF Safe, CallFits
<1>3. PICK k : k = call[c].next.mac.key
  OBVIOUS
<1>4. /\ k \notin {NoDek, StoredKey, anchor.dek} /\ Written(files[Intent]) /\ files[Intent].dek = k
      /\ files[Intent].floor[db] = AnchorLoad(StoredKey).floor[db]
  BY <1>2, <1>3 DEF CommitFits
<1>5. StoredKey' = k
  BY <1>1, <1>3 DEF StoredKey, TypeInv, IdbOk
<1>6. Rolling' /\ ~Rolling
  BY <1>1, <1>4, <1>5 DEF Rolling
<1>7. Carried(db)' = Loaded(db) /\ Carried(db) = 0
  BY <1>1, <1>4, <1>6 DEF Carried, Loaded
<1>8. Loaded(db) \in Nat /\ Loaded(db)' \in Nat
  BY LoadedT, LoadedNext
<1> QED BY <1>7, <1>8, FloorUp

LEMMA FloorSdk ==
    ASSUME TypeInv, TypeInv', Safe, NEW c \in Calls, SdkStep(c), ~overtaken', NEW db \in Dbs
    PROVE  FloorOf(db)' >= FloorOf(db)
<1>1. UNCHANGED <<files, anchor>>
  BY DEF SdkStep, Unlock, AddRecoveryCode, RemoveMethod, RotateKey, Sql, Lock, Starts, Posts,
         Confirm, Cancel, Put, ReadFloor, BumpFloor, DelEpoch, Reopen
<1>2. idb = [env |-> idb.env, floor |-> idb.floor, epoch |-> idb.epoch]
  BY DEF TypeInv, IdbOk
<1>3. CASE Put(c) /\ call[c].op = "rotate"
  BY <1>3, FloorPutRotate
<1>4. CASE Put(c) /\ call[c].op # "rotate"
  <2>1. At(c, "put") /\ idb' = [idb EXCEPT !.env = call[c].next] /\ idb.env = call[c].env
    BY <1>4 DEF Put
  <2>2. call[c].next.mac.key = call[c].env.mac.key
    BY <1>4, <2>1 DEF Safe, CallFits
  <2>3. StoredKey' = StoredKey
    BY <1>2, <2>1, <2>2 DEF StoredKey
  <2> QED BY <1>1, <2>3, FloorQuiet
<1>5. CASE BumpFloor(c) \/ DelEpoch(c)
  <2>1. idb'.env = idb.env
    BY <1>2, <1>5 DEF BumpFloor, DelEpoch
  <2> QED BY <1>1, <2>1, FloorQuiet DEF StoredKey
<1>6. CASE \/ Unlock(c) \/ AddRecoveryCode(c) \/ RemoveMethod(c) \/ RotateKey(c) \/ Sql(c) \/ Lock(c)
           \/ Confirm(c) \/ Cancel(c) \/ ReadFloor(c) \/ Reopen(c)
  <2>1. idb' = idb
    BY <1>6 DEF Unlock, AddRecoveryCode, RemoveMethod, RotateKey, Sql, Lock, Starts, Posts,
                Confirm, Cancel, ReadFloor, Reopen
  <2> QED BY <1>1, <2>1, FloorQuiet DEF StoredKey
<1> QED BY <1>3, <1>4, <1>5, <1>6 DEF SdkStep

\* The worker takes a message, or installs the pool: the intent stays.
LEMMA FloorTake ==
    ASSUME TypeInv, TypeInv', Safe, NEW c \in Calls, NEW db \in Dbs,
           TakeCheck(c) \/ TakeAsk(c) \/ TakeLock(c) \/ TakeAdd(c) \/ TakeRemove(c) \/ TakeRotate(c)
              \/ TakeOpen(c) \/ Install(c)
    PROVE  FloorOf(db)' >= FloorOf(db)
<1>1. UNCHANGED <<idb, anchor>> /\ (files' = files \/ files' = Closed)
  BY DEF TakeCheck, TakeAsk, TakeLock, TakeAdd, TakeRemove, TakeRotate, TakeOpen, Install
<1>2. Closed[Intent] = files[Intent]
  <2>1. FilesT(files) /\ sess.wrote \subseteq Dbs
    BY DEF TypeInv, RestOk, Sessions
  <2> QED BY <2>1, ClosedT
<1> QED BY <1>1, <1>2, FloorQuiet DEF StoredKey

\* Nothing rolls forward while a rotation is being staged.
LEMMA FloorStage ==
    ASSUME TypeInv, TypeInv', Safe, NEW c \in Calls, NEW db \in Dbs,
           StageFile(c) \/ StageFill(c) \/ StageIntent(c) \/ IntentFill(c)
    PROVE  FloorOf(db)' >= FloorOf(db)
<1>1. UNCHANGED <<idb, anchor>>
  BY DEF StageFile, StageFill, StageIntent, IntentFill
<1>2. ~Rolling
  <2>1. CASE StageFile(c) \/ StageFill(c) \/ StageIntent(c)
    <3>1. files[Intent] = Missing
      BY <2>1, StageFacts DEF StageFile, StageFill, StageIntent
    <3> QED BY <3>1 DEF Rolling, Written
  <2>2. CASE IntentFill(c)
    <3>1. c \in busy /\ call[c].pc = "intentFill"
      BY <2>2 DEF IntentFill, Runs, At
    <3>2. RunFits(c)
      BY <3>1 DEF Safe
    <3>3. files[Intent] = Partial
      BY <3>1, <3>2 DEF RunFits, StageFits, StagePcs
    <3> QED BY <3>3 DEF Rolling, Written
  <2> QED BY <2>1, <2>2
<1> QED BY <1>1, <1>2, FloorQuiet DEF StoredKey

\* The roll-forward swaps the live files, then carries the marks, and drops
\* the intent when the anchor has them all.
LEMMA FloorSwap ==
    ASSUME TypeInv, TypeInv', Safe, NEW c \in Calls, NEW db \in Dbs,
           SwapFile(c) \/ SwapFill(c) \/ SwapDrop(c)
    PROVE  FloorOf(db)' >= FloorOf(db)
<1> DEFINE f == Head(call[c].todo)
<1>1. UNCHANGED <<idb, anchor>>
  BY DEF SwapFile, SwapFill, SwapDrop
<1>2. call[c].todo # <<>>
  <2>1. CASE SwapFile(c)
    BY <2>1 DEF SwapFile
  <2>2. CASE SwapFill(c) \/ SwapDrop(c)
    <3>1. c \in busy /\ call[c].pc \in {"swapFill", "swapDrop"}
      BY <2>2 DEF SwapFill, SwapDrop, Runs, At
    <3> QED BY <3>1 DEF TypeInv, RunOk
  <2> QED BY <2>1, <2>2
<1>3. f \in LiveNames
  <2>1. call[c].todo \in Seq(LiveNames)
    BY DEF TypeInv, CallsOk, CallT
  <2> QED BY <1>2, <2>1
<1>4. Intent # f /\ Intent # Shadow(f) /\ Intent \in Names /\ DOMAIN files = Names
  BY <1>3, NameFacts DEF TypeInv, FilesT
<1>5. files' = files \/ \E v : files' = [files EXCEPT ![f] = v] \/ files' = [files EXCEPT ![Shadow(f)] = v]
  BY DEF SwapFile, SwapFill, SwapDrop
<1> HIDE DEF f
<1>6. files'[Intent] = files[Intent]
  BY <1>4, <1>5
<1> QED BY <1>1, <1>6, FloorQuiet DEF StoredKey

LEMMA FloorCarry ==
    ASSUME TypeInv, TypeInv', Safe, NEW c \in Calls, NEW db \in Dbs, CarryAnchor(c)
    PROVE  FloorOf(db)' >= FloorOf(db)
<1>1. Runs(c, "swap") /\ UNCHANGED <<idb, files>>
  BY DEF CarryAnchor
<1>2. busy = {c} /\ call[c].pc \in SwapPcs
  BY <1>1, RunsFacts DEF SwapPcs
<1>3. sess.pool = StoredKey /\ Rolling
  BY <1>2, SwapFacts
<1>4. PICK e \in Dbs : anchor' = AnchorRecord(StoredKey, e, files[Intent].committed[e], files[Intent].floor[e])
  BY <1>3 DEF CarryAnchor, Uncarried
<1>5. PICK g \in Nat, h \in Nat : g = files[Intent].committed[e] /\ h = files[Intent].floor[e]
  <2>1. files[Intent] \in IntentT /\ files[Intent] \notin {Missing, Partial}
    BY <1>3 DEF TypeInv, FilesT, Rolling, Written
  <2>2. files[Intent].committed \in [Dbs -> Nat] /\ files[Intent].floor \in [Dbs -> Nat]
    BY <2>1, FileKinds
  <2> QED BY <2>2
<1>6. StoredKey' = StoredKey /\ files'[Intent] = files[Intent]
  BY <1>1 DEF StoredKey
<1> QED BY <1>4, <1>5, <1>6, AnchorUp

LEMMA FloorDrop ==
    ASSUME TypeInv, TypeInv', Safe, NEW c \in Calls, NEW db \in Dbs, DropIntent(c)
    PROVE  FloorOf(db)' >= FloorOf(db)
<1>1. Runs(c, "swap") /\ UNCHANGED <<idb, anchor>> /\ Uncarried = {}
  BY DEF DropIntent
<1>2. busy = {c} /\ call[c].pc \in SwapPcs
  BY <1>1, RunsFacts DEF SwapPcs
<1>3. sess.pool = StoredKey /\ Rolling
  BY <1>2, SwapFacts
<1>4. Loaded(db) \in Nat /\ Carried(db) \in Nat /\ Loaded(db)' \in Nat
  BY LoadedT, LoadedNext
<1>5. Carried(db) = files[Intent].floor[db] /\ Loaded(db) = AnchorLoad(sess.pool).floor[db]
  BY <1>3 DEF Carried, Loaded
<1>6. ~(AnchorLoad(sess.pool).floor[db] < files[Intent].floor[db])
  BY <1>1 DEF Uncarried
<1>7. Loaded(db)' = Loaded(db)
  BY <1>1 DEF Loaded, AnchorLoad, StoredKey
<1> QED BY <1>4, <1>5, <1>6, <1>7, FloorUp

LEMMA FloorDiscard ==
    ASSUME TypeInv, TypeInv', Safe, NEW c \in Calls, NEW db \in Dbs, Discard(c)
    PROVE  FloorOf(db)' >= FloorOf(db)
<1>1. c \in busy /\ call[c].pc = "discard" /\ UNCHANGED <<idb, anchor>>
  BY DEF Discard, Runs, At
<1>2. ~Rolling
  BY <1>1 DEF Safe, RunFits
<1> QED BY <1>1, <1>2, FloorQuiet DEF StoredKey

\* A session begins: what a peer attested is recorded.
LEMMA FloorApply ==
    ASSUME TypeInv, TypeInv', Safe, NEW c \in Calls, NEW db \in Dbs, ApplyEpoch(c)
    PROVE  FloorOf(db)' >= FloorOf(db)
<1>1. c \in busy /\ call[c].pc = "apply" /\ UNCHANGED <<idb, files>>
  BY DEF ApplyEpoch, Runs, At
<1>2. sess.pool = StoredKey /\ CallT(call[c], n.deks)
  <2>1. RunFits(c)
    BY <1>1 DEF Safe
  <2>2. call[c].pc \notin StagePcs
    BY <1>1 DEF StagePcs
  <2> QED BY <2>1, <2>2 DEF RunFits, TypeInv, CallsOk
<1>3. PICK e \in Dbs, g \in Nat : e = call[c].epoch.db /\ g = call[c].epoch.gen
  <2>1. call[c].epoch \in Tokens
    BY <1>2 DEF CallT
  <2>2. call[c].epoch.db \in Dbs /\ call[c].epoch.gen \in 0 .. 1
    BY <2>1 DEF Tokens
  <2> QED BY <2>2
<1>4. anchor' = anchor \/ anchor' = AnchorRecord(StoredKey, e, g, g)
  BY <1>2, <1>3 DEF ApplyEpoch
<1>5. StoredKey' = StoredKey /\ files'[Intent] = files[Intent]
  BY <1>1 DEF StoredKey
<1> QED BY <1>4, <1>5, AnchorUp, FloorQuiet

LEMMA FloorTakeSql ==
    ASSUME TypeInv, TypeInv', Safe, NEW c \in Calls, NEW db \in Dbs, TakeSql(c)
    PROVE  FloorOf(db)' >= FloorOf(db)
<1>1. StoredKey' = StoredKey /\ files' = files
  BY DEF TakeSql, StoredKey
<1>2. CASE UNCHANGED anchor
  BY <1>1, <1>2, FloorQuiet
<1>3. CASE sess.pool # NoDek /\ Opens(c, call[c].db)
  <2>1. PICK e \in Dbs : e = call[c].db
    BY DEF TypeInv, CallsOk, CallT
  <2>2. Opens(c, e)
    BY <1>3, <2>1
  <2>3. files[Mani(e)].ver \in Nat
    BY <2>2, OpensT
  <2>4. PICK g \in Nat, h \in Nat : g = files[Mani(e)].ver /\ h = 0
    BY <2>3
  <2>5. anchor' = AnchorRecord(StoredKey, e, g, h)
    BY <1>3, <2>2, <2>4 DEF Opens, Safe, PoolFits
  <2> QED BY <1>1, <2>5, AnchorUp
<1> QED BY <1>2, <1>3, TakeSqlCases

LEMMA FloorSql ==
    ASSUME TypeInv, TypeInv', Safe, NEW c \in Calls, NEW db \in Dbs,
           SqlRead(c) \/ SqlBegin(c) \/ SqlBeginOver(c) \/ SqlCommit(c)
    PROVE  FloorOf(db)' >= FloorOf(db)
<1>1. Runs(c, "ready") \/ Runs(c, "commit")
  BY DEF SqlRead, SqlBegin, SqlBeginOver, SqlCommit
<1>2. /\ busy = {c} /\ call[c].db \in Dbs /\ files[Intent] = Missing
      /\ files[Jrnl(call[c].db)] \in JrnlT
  BY <1>1, SqlFacts
<1>3. StoredKey' = StoredKey
  BY DEF SqlRead, SqlBegin, SqlBeginOver, SqlCommit, StoredKey
<1>4. ~Rolling
  BY <1>2 DEF Rolling, Written
<1>5. CASE SqlRead(c) \/ SqlBegin(c)
  <2>1. anchor' = anchor
    BY <1>5 DEF SqlRead, SqlBegin
  <2> QED BY <1>3, <1>4, <2>1, FloorQuiet
<1>6. CASE SqlBeginOver(c) \/ SqlCommit(c)
  <2>1. call[c].pc \in {"ready", "commit"} /\ RunFits(c)
    BY <1>1, <1>2 DEF Runs, At, Safe
  <2>2. sess.pool = StoredKey
    BY <2>1 DEF RunFits, StagePcs
  <2>3. PICK e, g : e = call[c].db /\ g = files[Jrnl(e)].pre + 1
    OBVIOUS
  <2>4. g \in Nat /\ e \in Dbs /\ 0 \in Nat
    BY <1>2, <1>6, <2>3, SqlCommitFiles, SqlBeginOverFiles
  <2>5. anchor' = AnchorRecord(StoredKey, e, g, 0)
    BY <1>6, <2>2, <2>3 DEF SqlCommit, SqlBeginOver
  <2> QED BY <1>3, <1>4, <2>4, <2>5, AnchorUp
<1> QED BY <1>5, <1>6

LEMMA FloorStep ==
    ASSUME TypeInv, TypeInv', Safe, ~overtaken', [Next]_vars, NEW db \in Dbs
    PROVE  FloorOf(db)' >= FloorOf(db)
<1>1. CASE UNCHANGED vars \/ Crash
  <2>1. UNCHANGED <<idb, files, anchor>>
    BY <1>1 DEF vars, Crash
  <2> QED BY <2>1, FloorQuiet DEF StoredKey
<1>2. ASSUME NEW c \in Calls, SdkStep(c) PROVE FloorOf(db)' >= FloorOf(db)
  BY <1>2, FloorSdk
<1>3. ASSUME NEW c \in Calls, WorkerStep(c) PROVE FloorOf(db)' >= FloorOf(db)
  BY <1>3, FloorTake, FloorStage, FloorSwap, FloorCarry, FloorDrop, FloorDiscard, FloorApply,
     FloorTakeSql, FloorSql DEF WorkerStep
<1> QED BY <1>1, <1>2, <1>3 DEF Next

\* An attested floor survives: no step of a rotation, of its recovery or of a
\* session, and no crash between two of them, lowers the floor that the stored
\* key can recover for a database (anchor_record_full, the marks that the
\* intent record carries across the commit barrier).
THEOREM VaultFloorKept == RotatesOverJournal = FALSE => (Spec => FloorKept)
<1> SUFFICES ASSUME RotatesOverJournal = FALSE PROVE Spec => FloorKept
  OBVIOUS
<1> DEFINE I == TypeInv /\ OrderInv /\ SafeInv
           Kept == overtaken' \/ \A db \in Dbs : FloorOf(db)' >= FloorOf(db)
<1>1. Init => I
  BY InitT, OrderInit, SafeInit
<1>2. I /\ [Next]_vars => I' /\ Kept
  <2> SUFFICES ASSUME TypeInv, OrderInv, SafeInv, [Next]_vars
               PROVE  TypeInv' /\ OrderInv' /\ SafeInv' /\ Kept
    OBVIOUS
  <2>1. TypeInv'
    BY TypeStep DEF OrderInv
  <2>2. OrderInv'
    BY <2>1, OrderStep
  <2>3. SafeInv'
    BY <2>1, SafeStep
  <2>4. Kept
    <3> SUFFICES ASSUME ~overtaken', NEW db \in Dbs PROVE FloorOf(db)' >= FloorOf(db)
      OBVIOUS
    <3>1. Safe
      BY OvertakenStays DEF SafeInv
    <3> QED BY <2>1, <3>1, FloorStep
  <2> QED BY <2>1, <2>2, <2>3, <2>4
<1>3. I /\ I' /\ [Next]_vars => [Kept]_vars
  BY <1>2
<1> QED BY <1>1, <1>2, <1>3, PTL DEF Spec, FloorKept
=============================================================================
