--------------------------- MODULE TransferProofs ---------------------------
(***************************************************************************)
(* What bundles keep, for any number of devices, databases, enrolments,    *)
(* bundles and crashes.                                                    *)
(*                                                                         *)
(*  - A device, a bundle and the import under way each satisfy a           *)
(*    consistency of their own (DevOk, BundleOk, JobOk), which all the     *)
(*    properties follow from: what a manifest vouches for was sealed, and  *)
(*    a main file holds what its manifest vouches for, has a hot journal   *)
(*    beside it, or is refused.                                            *)
(*  - The content of a half-written file is one that no manifest has       *)
(*    vouched for (Written): each transaction writes a new one.            *)
(*  - The marks of the anchor lie between what the device has seen and     *)
(*    what it has seen or was attested (KnownOk).                          *)
(*  - While an import is under way each entry and each file is either      *)
(*    still to be written or already the bundle's.                         *)
(***************************************************************************)
EXTENDS Transfer, TLAPS, FiniteSetTheorems, WellFoundedInduction

-----------------------------------------------------------------------------
(* What each store holds. *)

Keys     == 1 .. MaxEnrolls
Secrets  == {"prf", "device", "code"} \X Nat
KindOf(s) == IF s[1] = "prf" THEN Passkey ELSE IF s[1] = "code" THEN Recovery ELSE Device
Contents == 0 .. MaxWrites
Roots    == Contents \cup {Hollow}
Stub     == {Missing, Empty, Partial}

\* The slots that wrap a key of ks, the envelopes of key k that open, and
\* all envelopes that may be stored.
Slots(ks)   == {s \in [id : 0 .. IdSpace - 1, kind : Kinds, secret : Secrets, dek : ks] :
                  s.kind = KindOf(s.secret)}
Sealed(ks)  == {e \in [gen : Nat, slots : Seq(Slots(ks)),
                       mac : [gen : Nat, slots : Seq(Slots(ks)), key : ks]] :
                  e.mac.gen = e.gen /\ e.mac.slots = e.slots}
KeyEnvs(k)  == Sealed({k})
Envs == {NoEnv} \cup {e \in Sealed(Keys) : e \in KeyEnvs(e.mac.key)}

\* Tokens, main files and manifests of the databases 1 .. u created so far.
Tokens(u) == {NoToken} \cup [dek : Keys, uuid : 1 .. u, gen : Nat, env : Nat]
Mains(u)  == Stub \cup [is : {"file"}, dek : Keys, uuid : 1 .. u, val : 1 .. MaxWrites]
Manis(u)  == Stub \cup [is : {"file"}, dek : Keys, uuid : 1 .. u, gen : Nat,
                        root : Roots, prev : Roots]
Anchors   == [dek : 0 .. MaxEnrolls, committed : [Uuids -> Nat], floor : [Uuids -> Nat]]

\* A manifest vouches for a sealed image, or for a file without bytes; the
\* main file beside it holds that image, or what the manifest refuses.  A hot
\* journal goes back to the image, or to an empty file.
Vouched(main, mani, h, img) ==
    mani.is = "file" =>
        /\ mani.root \in {Void, Hollow} \/ Image(mani.uuid, mani.gen, mani.root) \in img
        /\ main.is = "file" => main.val = mani.root \/ main.val # mani.prev
        /\ h # Cold => h \in {Void, mani.root}

DbOk(main, mani, h, img, u) ==
    /\ main \in Mains(u) /\ mani \in Manis(u) /\ h \in Contents \cup {Cold}
    /\ Vouched(main, mani, h, img)

PoolOk(main, mani, hot, img, u) ==
    /\ main = [db \in Dbs |-> main[db]] /\ mani = [db \in Dbs |-> mani[db]]
    /\ hot = [db \in Dbs |-> hot[db]]
    /\ \A db \in Dbs : DbOk(main[db], mani[db], hot[db], img, u)
    /\ \A db, e \in Dbs :
         (mani[db].is = "file" /\ mani[e].is = "file" /\ mani[db].uuid = mani[e].uuid) => db = e

Shaped(v) == v = [env |-> v.env, floor |-> v.floor, epoch |-> v.epoch, cred |-> v.cred,
                  key |-> v.key, wrap |-> v.wrap, main |-> v.main, mani |-> v.mani,
                  hot |-> v.hot, anchor |-> v.anchor]

EntriesOk(v, u) ==
    /\ v.env \in Envs /\ v.floor \in Nat /\ v.epoch \in Tokens(u)
    /\ v.cred \in 0 .. MaxEnrolls /\ v.key \in 0 .. MaxEnrolls /\ v.wrap \in 0 .. MaxEnrolls

DevOk(v, img, u) ==
    /\ Shaped(v) /\ EntriesOk(v, u) /\ v.anchor \in Anchors
    /\ PoolOk(v.main, v.mani, v.hot, img, u)

-----------------------------------------------------------------------------
(* Sessions, histories, bundles. *)

\* Image i is what a session of key k serves of a database: the main file as
\* it is, which the manifest vouches for unless a journal is hot.
Serves(i, main, mani, h, k) ==
    /\ mani.is = "file" /\ mani.dek = k /\ i = Image(mani.uuid, mani.gen, i.val)
    /\ \/ main = Empty /\ i.val = Void
       \/ main.is = "file" /\ i.val = main.val
    /\ h = Cold => i.val \in {Void, mani.root}

SessOk(s, v, kn) ==
    /\ s = [dek |-> s.dek, served |-> s.served] /\ s.served = [db \in Dbs |-> s.served[db]]
    /\ s.dek \in 0 .. MaxEnrolls
    /\ s.dek # NoDek => s.dek \in kn.deks /\ (v.env = NoEnv \/ v.env.mac.key = s.dek)
    /\ \A db \in Dbs : s.served[db] # Closed =>
         s.dek # NoDek /\ Serves(s.served[db], v.main[db], v.mani[db], v.hot[db], s.dek)

\* The marks of an anchor against what its device has seen and was attested.
KnownOk(kn, v, u) ==
    /\ kn = [deks |-> kn.deks, seen |-> kn.seen, attested |-> kn.attested]
    /\ kn.deks \subseteq 0 .. MaxEnrolls
    /\ kn.seen \in [Uuids -> Nat] /\ kn.attested \in [Uuids -> Nat]
    /\ \A w \in Uuids : w > u => kn.seen[w] = 0 /\ kn.attested[w] = 0
    /\ \A k \in Keys : kn.deks \subseteq {k} =>
         \A w \in Uuids : /\ kn.seen[w] <= AnchorLoad(v, k).committed[w]
                          /\ kn.attested[w] <= AnchorLoad(v, k).floor[w]
    /\ \A w \in Uuids :
         /\ v.anchor.committed[w] <= kn.seen[w] \/ v.anchor.committed[w] <= kn.attested[w]
         /\ v.anchor.floor[w] <= kn.attested[w]

\* What the exporting session could open is in the bundle as it served it, ...
Carries(main, mani, i, k) ==
    /\ mani.is = "file" /\ mani.dek = k /\ i = Image(mani.uuid, mani.gen, i.val)
    /\ \/ main = Empty /\ i.val = Void
       \/ main.is = "file" /\ main.dek = k /\ main.uuid = mani.uuid /\ main.val = i.val

\* ... and, without a journal beside it, accepted when it is opened.
Holds(main, mani, i, k) ==
    /\ mani.is = "file" /\ mani.dek = k /\ i = Image(mani.uuid, mani.gen, i.val)
    /\ \/ main = Empty /\ i.val = Void
       \/ /\ main.is = "file" /\ main.dek = k /\ main.uuid = mani.uuid /\ main.val = i.val
          /\ i.val = mani.root \/ (mani.prev # Void /\ i.val = mani.prev)

BundleOk(b, img, u) ==
    /\ b = [env |-> b.env, cred |-> b.cred, main |-> b.main, mani |-> b.mani,
            epoch |-> b.epoch, served |-> b.served, secrets |-> b.secrets]
    /\ b.cred \in 0 .. MaxEnrolls
    /\ b.epoch \in Tokens(u) /\ b.epoch # NoToken /\ b.epoch.env = b.env.gen
    /\ b.env \in KeyEnvs(b.epoch.dek) /\ \A i \in DOMAIN b.env.slots : b.env.slots[i].kind # Device
    /\ Parses(b.env) /\ b.secrets = Openers(b.env)
    /\ PoolOk(b.main, b.mani, [db \in Dbs |-> Cold], img, u)
    /\ \E db \in Dbs : b.main[db] # Missing
    /\ \A db \in Dbs : (b.mani[db].is = "file" /\ b.mani[db].uuid = b.epoch.uuid)
                         => b.mani[db].gen = b.epoch.gen
    /\ \A db \in Dbs : b.served[db] = Absent => b.main[db] = Missing
    /\ \A db \in Dbs : b.main[db] = Missing => b.mani[db] = Missing
    /\ \A db \in Dbs : Readable(b, db) =>
         /\ Carries(b.main[db], b.mani[db], b.served[db], b.epoch.dek)
         /\ ~ExportsOverJournal => Holds(b.main[db], b.mani[db], b.served[db], b.epoch.dek)

BaseOk(b, v, a) ==
    b # NoBundle =>
        /\ b \in a
        /\ v.env = b.env /\ v.floor = b.env.gen /\ v.epoch = b.epoch
        /\ v.main = b.main /\ v.mani = b.mani /\ v.hot = [db \in Dbs |-> Cold]

-----------------------------------------------------------------------------
(* The call under way. *)

PutT(u) == ({"env"} \X Envs) \cup ({"floor"} \X Nat) \cup ({"epoch"} \X Tokens(u))
           \cup ({"cred", "key", "wrap"} \X (0 .. MaxEnrolls))

\* Entry x holds val once the remaining writes are done: each of them that
\* writes x writes val, and without one x holds val already.
Settles(puts, x, cur, val) ==
    /\ \A i \in 1 .. Len(puts) : puts[i][1] = x => puts[i][2] = val
    /\ (\A i \in 1 .. Len(puts) : puts[i][1] # x) => cur = val

\* The stored envelope is one of key k once the remaining writes are done.
Keyed(puts, cur, k) ==
    /\ \A i \in 1 .. Len(puts) : puts[i][1] = "env" => puts[i][2].mac.key = k
    /\ (\A i \in 1 .. Len(puts) : puts[i][1] # "env") => cur.mac.key = k

\* Each file of an import is still to be written or is the bundle's.
Imported(j, v) ==
    /\ v.hot = [db \in Dbs |-> Cold]
    /\ \A f \in {"main", "mani"} \X Dbs :
         IF f \in j.files THEN v[f[1]][f[2]] \in Stub ELSE v[f[1]][f[2]] = j.bundle[f[1]][f[2]]

ImportOk(j, v, a) ==
    /\ j.bundle \in a /\ j.dek = NoDek
    /\ Settles(j.puts, "env", v.env, j.bundle.env)
    /\ Settles(j.puts, "epoch", v.epoch, j.bundle.epoch)
    /\ Settles(j.puts, "floor", v.floor, j.bundle.env.gen)
    /\ j.files \subseteq FilesOf(j.bundle)
    /\ j.pc = "clear" => j.files = FilesOf(j.bundle)
    /\ j.pc = "write" => Imported(j, v)

JobOk(j, dv, ss, bs, a, u) ==
    j = Idle \/
    /\ j = [d |-> j.d, pc |-> j.pc, files |-> j.files, bundle |-> j.bundle, puts |-> j.puts,
            dek |-> j.dek]
    /\ j.d \in Devices /\ j.pc \in {"clear", "write"}
    /\ j.puts \in Seq(PutT(u)) /\ j.dek \in 0 .. MaxEnrolls
    /\ bs[j.d] = NoBundle
    /\ (j.pc = "clear" \/ j.bundle # NoBundle \/ j.dek # NoDek) => ss[j.d] = NoSession
    /\ ss[j.d].dek # NoDek => \A i \in 1 .. Len(j.puts) :
         j.puts[i][1] = "env" => (j.puts[i][2] = NoEnv \/ j.puts[i][2].mac.key = ss[j.d].dek)
    /\ j.dek # NoDek => Keyed(j.puts, dv[j.d].env, j.dek)
    /\ j.bundle = NoBundle => j.files = {}
    /\ j.bundle # NoBundle => ImportOk(j, dv[j.d], a)

-----------------------------------------------------------------------------
(* The inductive invariant. *)

Counters == [calls : Nat, enrolls : 0 .. MaxEnrolls, codes : Nat, writes : Contents,
             uuids : 0 .. MaxUuids, crashes : Nat]

DevsOk  == /\ dev = [d \in Devices |-> dev[d]]
           /\ \A d \in Devices : DevOk(dev[d], images, n.uuids)
SesssOk == /\ sess = [d \in Devices |-> sess[d]]
           /\ \A d \in Devices : SessOk(sess[d], dev[d], known[d])
KnownsOk == /\ known = [d \in Devices |-> known[d]]
            /\ \A d \in Devices : KnownOk(known[d], dev[d], n.uuids)
AirOk   == \A b \in air : BundleOk(b, images, n.uuids)
BasesOk == /\ base = [d \in Devices |-> base[d]]
           /\ \A d \in Devices : BaseOk(base[d], dev[d], air)
TheJobOk == JobOk(job, dev, sess, base, air, n.uuids)

\* No file holds, and no manifest names, the content of a transaction that is
\* still to begin: w of them have.
Begun(main, mani, w) ==
    /\ main.is = "file" => main.val <= w
    /\ mani.is = "file" => {mani.root, mani.prev} \subseteq (0 .. w) \cup {Hollow}
PoolBegun(main, mani, w) == \A db \in Dbs : Begun(main[db], mani[db], w)
Written == /\ \A d \in Devices : PoolBegun(dev[d].main, dev[d].mani, n.writes)
           /\ \A b \in air : PoolBegun(b.main, b.mani, n.writes)

Inv == /\ n \in Counters /\ DevsOk /\ SesssOk /\ KnownsOk /\ AirOk /\ BasesOk /\ TheJobOk
       /\ Written

\* What a step of device d must keep of Written.
StillBegun(d) ==
    /\ n.writes <= n'.writes /\ PoolBegun(dev'[d].main, dev'[d].mani, n'.writes)
    /\ \A b \in air' : b \in air \/ PoolBegun(b.main, b.mani, n'.writes)

-----------------------------------------------------------------------------
(* Numbers. *)

\* A nonempty set of numbers has a least one, and Min finds it.
LEMMA LeastNumber ==
    ASSUME NEW S \in SUBSET Nat, S # {}
    PROVE  Min(S) \in S /\ \A x \in S : Min(S) <= x
<1>1. PICK x \in S : \A y \in S : ~(<<y, x>> \in OpToRel(<, Nat))
  BY NatLessThanWellFounded, WFMin
<1>2. \A y \in S : ~(y < x)
  BY <1>1 DEF OpToRel
<1>3. \A y \in S : x <= y
  BY <1>2
<1> QED BY <1>3 DEF Min

\* Counting the elements up to each one numbers a set from 1 to its size.
LEMMA Numbered ==
    ASSUME NEW S \in SUBSET Nat, IsFiniteSet(S)
    PROVE  /\ \A i \in 1 .. Cardinality(S) : Nth(S, i) \in S
           /\ \A x \in S : \E i \in 1 .. Cardinality(S) : Nth(S, i) = x
<1> DEFINE U(x) == {y \in S : y <= x}
           rank == [x \in S |-> Cardinality(U(x))]
           N == 1 .. Cardinality(S)
<1>1. Cardinality(S) \in Nat /\ IsFiniteSet(N) /\ Cardinality(N) = Cardinality(S)
  BY FS_CardinalityType, FS_Interval
<1>2. ASSUME NEW x \in S PROVE IsFiniteSet(U(x)) /\ rank[x] \in N
  <2>1. IsFiniteSet(U(x)) /\ Cardinality(U(x)) <= Cardinality(S) /\ Cardinality(U(x)) \in Nat
    BY FS_Subset, FS_CardinalityType
  <2>2. Cardinality(U(x)) # 0
    BY <2>1, FS_EmptySet
  <2> QED BY <1>1, <2>1, <2>2
<1>3. ASSUME NEW x \in S, NEW z \in S, x < z PROVE rank[x] < rank[z]
  <2>1. U(x) \in SUBSET U(z) /\ U(x) # U(z)
    <3>1. z \in U(z) /\ z \notin U(x)
      BY <1>3
    <3>2. ASSUME NEW y \in U(x) PROVE y \in U(z)
      <4>1. y \in S /\ y \in Nat /\ x \in Nat /\ z \in Nat /\ y <= x
        OBVIOUS
      <4> QED BY <1>3, <4>1
    <3> QED BY <3>1, <3>2
  <2>2. IsFiniteSet(U(z)) /\ rank[x] \in N /\ rank[z] \in N
    BY <1>2
  <2>3. Cardinality(U(x)) <= Cardinality(U(z)) /\ Cardinality(U(x)) # Cardinality(U(z))
    BY <2>1, <2>2, FS_Subset
  <2> QED BY <1>1, <2>2, <2>3
<1>4. \A x, z \in S : rank[x] = rank[z] => x = z
  <2>1. \A x \in S : x \in Nat /\ rank[x] \in N
    BY <1>2
  <2> HIDE DEF rank
  <2> QED BY <1>1, <1>3, <2>1
<1>5. rank \in Injection(S, N)
  BY <1>2, <1>4 DEF Injection, IsInjective
<1>6. rank \in Surjection(S, N)
  BY <1>1, <1>5, FS_Injection
<1>7. ASSUME NEW x \in S PROVE Nth(S, rank[x]) = x
  <2>1. Nth(S, rank[x]) = CHOOSE y \in S : rank[y] = rank[x]
    BY DEF Nth
  <2> HIDE DEF rank
  <2> QED BY <2>1, <1>4
<1>8. ASSUME NEW i \in N PROVE \E x \in S : rank[x] = i
  BY <1>6 DEF Surjection
<1> HIDE DEF rank
<1> QED BY <1>2, <1>7, <1>8

LEMMA MaxFacts ==
    ASSUME NEW a \in Nat, NEW b \in Nat
    PROVE  Max({a, b}) = IF a >= b THEN a ELSE b
<1> DEFINE m == IF a >= b THEN a ELSE b
<1>1. m \in {a, b} /\ \A y \in {a, b} : m >= y
  OBVIOUS
<1>2. \A x \in {a, b} : (\A y \in {a, b} : x >= y) => x = m
  OBVIOUS
<1> HIDE DEF m
<1>3. Max({a, b}) = CHOOSE x \in {a, b} : \A y \in {a, b} : x >= y
  BY DEF Max
<1>4. Max({a, b}) = m
  BY <1>1, <1>2, <1>3
<1> QED BY <1>4 DEF m

\* The largest of a nonempty set of numbers below a bound.
LEMMA GreatestNumber ==
    ASSUME NEW b \in Nat, NEW S \in SUBSET (0 .. b), S # {}
    PROVE  Max(S) \in S
<1> DEFINE T == {b - x : x \in S}
<1>1. T \in SUBSET Nat /\ T # {}
  <2>1. \A x \in S : b - x \in Nat
    OBVIOUS
  <2> QED BY <2>1
<1>2. Min(T) \in T /\ \A y \in T : Min(T) <= y
  BY <1>1, LeastNumber
<1>3. PICK m \in S : Min(T) = b - m
  BY <1>2
<1>4. ASSUME NEW x \in S PROVE m >= x
  <2>1. b - m <= b - x
    BY <1>2, <1>3
  <2> QED BY <2>1
<1> QED BY <1>4 DEF Max

-----------------------------------------------------------------------------
(* Values. *)

LEMMA Numerals ==
    /\ MaxWrites \in Nat /\ Void \in Contents /\ Hollow \in Nat /\ Cold \in Nat /\ NoDek \notin Keys
    /\ Hollow \notin Contents /\ Cold \notin Contents /\ Cold # Hollow /\ Hollow # Void
    /\ Contents \subseteq Roots /\ Hollow \in Roots /\ \A x \in Roots : x \in Nat
    /\ \A x \in 1 .. MaxWrites : x \in Contents /\ x \in Roots /\ x # Void /\ x # Hollow
    /\ Dbs \subseteq Nat /\ Uuids \subseteq Nat /\ Keys \subseteq Nat /\ Keys \subseteq 0 .. MaxEnrolls
    /\ NoDek \in 0 .. MaxEnrolls /\ \A k \in 0 .. MaxEnrolls : k = NoDek \/ k \in Keys
BY TransferAssumption DEF Void, Contents, Roots, Hollow, Cold, Dbs, Uuids, NoDek, Keys

LEMMA FileKinds ==
    /\ Missing # Empty /\ Missing # Partial /\ Empty # Partial
    /\ \A m \in Stub : m.is # "file"
    /\ Missing.is = "missing" /\ Empty.is = "empty" /\ Partial.is = "partial"
    /\ \A u, m : m \in Mains(u) => /\ m.is = "file" <=> m \notin Stub
                                   /\ m.is \in {"missing", "empty", "partial", "file"}
                                   /\ m.is = "missing" => m = Missing
                                   /\ m.is = "empty" => m = Empty
                                   /\ m.is = "partial" => m = Partial
                                   /\ m.is = "file" => /\ m = Main(m.dek, m.uuid, m.val)
                                                       /\ m.dek \in Keys /\ m.uuid \in 1 .. u
                                                       /\ m.val \in 1 .. MaxWrites
    /\ \A u, m : m \in Manis(u) => /\ m.is = "file" <=> m \notin Stub
                                   /\ m.is \in {"missing", "empty", "partial", "file"}
                                   /\ m.is = "missing" => m = Missing
                                   /\ m.is = "empty" => m = Empty
                                   /\ m.is = "partial" => m = Partial
                                   /\ m.is = "file" => /\ m = Manifest(m.dek, m.uuid, m.gen, m.root, m.prev)
                                                       /\ m.dek \in Keys /\ m.uuid \in 1 .. u
                                                       /\ m.gen \in Nat /\ m.root \in Roots
                                                       /\ m.prev \in Roots
<1>1. /\ Missing # Empty /\ Missing # Partial /\ Empty # Partial
      /\ \A m \in Stub : m.is # "file"
      /\ Missing.is = "missing" /\ Empty.is = "empty" /\ Partial.is = "partial"
  BY DEF Missing, Empty, Partial, Stub
<1>2. ASSUME NEW u, NEW m, m \in Mains(u)
      PROVE  /\ m.is = "file" <=> m \notin Stub
             /\ m.is \in {"missing", "empty", "partial", "file"}
             /\ m.is = "missing" => m = Missing
             /\ m.is = "empty" => m = Empty
             /\ m.is = "partial" => m = Partial
             /\ m.is = "file" => /\ m = Main(m.dek, m.uuid, m.val)
                                 /\ m.dek \in Keys /\ m.uuid \in 1 .. u
                                 /\ m.val \in 1 .. MaxWrites
  <2>1. CASE m \in Stub
    BY <2>1 DEF Missing, Empty, Partial, Stub
  <2>2. CASE m \in [is : {"file"}, dek : Keys, uuid : 1 .. u, val : 1 .. MaxWrites]
    BY <2>2, <1>1 DEF Main
  <2> QED BY <1>2, <2>1, <2>2 DEF Mains
<1>3. ASSUME NEW u, NEW m, m \in Manis(u)
      PROVE  /\ m.is = "file" <=> m \notin Stub
             /\ m.is \in {"missing", "empty", "partial", "file"}
             /\ m.is = "missing" => m = Missing
             /\ m.is = "empty" => m = Empty
             /\ m.is = "partial" => m = Partial
             /\ m.is = "file" => /\ m = Manifest(m.dek, m.uuid, m.gen, m.root, m.prev)
                                 /\ m.dek \in Keys /\ m.uuid \in 1 .. u
                                 /\ m.gen \in Nat /\ m.root \in Roots
                                 /\ m.prev \in Roots
  <2>1. CASE m \in Stub
    BY <2>1 DEF Missing, Empty, Partial, Stub
  <2>2. CASE m \in [is : {"file"}, dek : Keys, uuid : 1 .. u, gen : Nat, root : Roots, prev : Roots]
    BY <2>2, <1>1 DEF Manifest
  <2> QED BY <1>3, <2>1, <2>2 DEF Manis
<1> QED BY <1>1, <1>2, <1>3

LEMMA NewFiles ==
    ASSUME NEW u \in Nat, NEW k \in Keys, NEW w \in 1 .. u
    PROVE  /\ \A x \in 1 .. MaxWrites : /\ Main(k, w, x) \in Mains(u) /\ Main(k, w, x).is = "file"
                                        /\ Main(k, w, x).val = x /\ Main(k, w, x).dek = k
                                        /\ Main(k, w, x).uuid = w
           /\ \A g \in Nat : \A r, p \in Roots :
                LET m == Manifest(k, w, g, r, p)
                IN  /\ m \in Manis(u) /\ m.is = "file" /\ m.dek = k /\ m.uuid = w /\ m.gen = g
                    /\ m.root = r /\ m.prev = p
           /\ Stub \subseteq Mains(u) /\ Stub \subseteq Manis(u)
           /\ Missing \in Stub /\ Empty \in Stub /\ Partial \in Stub
BY DEF Main, Manifest, Mains, Manis, Stub

LEMMA ImageFacts ==
    /\ \A w, g, x : /\ Image(w, g, x) # Closed /\ Image(w, g, x) # Absent /\ Image(w, g, x) # Refused
                    /\ ~IsRefused(Image(w, g, x))
                    /\ Image(w, g, x).uuid = w /\ Image(w, g, x).gen = g /\ Image(w, g, x).val = x
    /\ IsRefused(Refused) /\ Refused # Absent /\ Refused # Closed
    /\ \A k : ~IsRefused([dek |-> k]) /\ [dek |-> k].dek = k
<1>1. /\ IsRefused(Refused)
      /\ \A w, g, x : /\ ~IsRefused(Image(w, g, x))
                      /\ Image(w, g, x).uuid = w /\ Image(w, g, x).gen = g /\ Image(w, g, x).val = x
                      /\ Image(w, g, x).is = "image"
      /\ \A k : ~IsRefused([dek |-> k]) /\ [dek |-> k].dek = k
      /\ ~IsRefused(Absent) /\ ~IsRefused(Closed) /\ Absent.is = "absent" /\ Closed.is = "closed"
  BY DEF Image, Refused, IsRefused, Absent, Closed
<1> QED BY <1>1

-----------------------------------------------------------------------------
(* Envelopes. *)

LEMMA SlotFacts ==
    ASSUME NEW k, NEW s \in Secrets, NEW id \in 0 .. IdSpace - 1
    PROVE  WrapSlot(k, s, id, KindOf(s)) \in Slots({k})
BY DEF WrapSlot, Slots, KindOf, Kinds

LEMMA SealedFacts ==
    ASSUME NEW k, NEW e \in KeyEnvs(k)
    PROVE  /\ e.gen \in Nat /\ e.slots \in Seq(Slots({k})) /\ e.mac.key = k
           /\ e = Finalize(e.gen, e.slots, k) /\ MacOk(e, k)
           /\ \A i \in 1 .. Len(e.slots) : /\ e.slots[i].dek = k /\ e.slots[i].secret \in Secrets
                                           /\ e.slots[i].kind = KindOf(e.slots[i].secret)
                                           /\ e.slots[i].id \in 0 .. IdSpace - 1
           /\ DOMAIN e.slots = 1 .. Len(e.slots) /\ Len(e.slots) \in Nat
<1>1. /\ e.gen \in Nat /\ e.slots \in Seq(Slots({k})) /\ e.mac.key = k
      /\ e = Finalize(e.gen, e.slots, k) /\ MacOk(e, k)
  BY DEF KeyEnvs, Sealed, Finalize, ComputeMac, MacOk
<1>2. \A s \in Slots({k}) : /\ s.dek = k /\ s.secret \in Secrets /\ s.kind = KindOf(s.secret)
                            /\ s.id \in 0 .. IdSpace - 1
  BY DEF Slots
<1>3. /\ \A i \in 1 .. Len(e.slots) : e.slots[i] \in Slots({k})
      /\ DOMAIN e.slots = 1 .. Len(e.slots) /\ Len(e.slots) \in Nat
  BY <1>1
<1> QED BY <1>1, <1>2, <1>3

LEMMA SealedSlots ==
    ASSUME NEW k, NEW e \in KeyEnvs(k)
    PROVE  /\ MacOk(e, k)
           /\ \A i \in 1 .. Len(e.slots) : /\ e.slots[i].dek = k /\ e.slots[i].secret \in Secrets
                                           /\ e.slots[i].kind = KindOf(e.slots[i].secret)
<1>1. e.slots \in Seq(Slots({k}))
  BY DEF KeyEnvs, Sealed
<1>2. MacOk(e, k)
  BY DEF KeyEnvs, Sealed, Finalize, ComputeMac, MacOk
<1>3. \A s \in Slots({k}) : s.dek = k /\ s.secret \in Secrets /\ s.kind = KindOf(s.secret)
  BY DEF Slots
<1>4. \A i \in 1 .. Len(e.slots) : e.slots[i] \in Slots({k})
  BY <1>1
<1> QED BY <1>2, <1>3, <1>4

LEMMA FinalizeT ==
    ASSUME NEW k, NEW g \in Nat, NEW s \in Seq(Slots({k}))
    PROVE  /\ Finalize(g, s, k) \in KeyEnvs(k) /\ Finalize(g, s, k).gen = g
           /\ Finalize(g, s, k).slots = s
BY DEF KeyEnvs, Sealed, Finalize, ComputeMac

LEMMA CreateT ==
    ASSUME NEW k, NEW s \in Secrets
    PROVE  CreateEnvelope(k, s, KindOf(s)) \in KeyEnvs(k) /\ CreateEnvelope(k, s, KindOf(s)).gen = 1
<1>1. 0 \in 0 .. IdSpace - 1
  BY IdSpaceAssumption
<1>2. PICK t \in Slots({k}) : t = WrapSlot(k, s, 0, KindOf(s))
  BY <1>1, SlotFacts
<1>3. <<t>> \in Seq(Slots({k}))
  BY <1>2
<1> QED BY <1>2, <1>3, FinalizeT DEF CreateEnvelope

LEMMA AddT ==
    ASSUME NEW k, NEW e \in KeyEnvs(k), NEW s \in Secrets
    PROVE  AddSlot(e, k, s, KindOf(s)) \in KeyEnvs(k) /\ AddSlot(e, k, s, KindOf(s)).gen = e.gen + 1
<1>1. NextKekId(e) \in 0 .. IdSpace - 1
  <2>1. CASE e.slots = <<>>
    BY <2>1, IdSpaceAssumption DEF NextKekId
  <2>2. CASE e.slots # <<>>
    <3>1. SlotIds(e) \in SUBSET (0 .. IdSpace - 1) /\ SlotIds(e) # {}
      <4>1. /\ \A i \in 1 .. Len(e.slots) : e.slots[i].id \in 0 .. IdSpace - 1
            /\ DOMAIN e.slots = 1 .. Len(e.slots) /\ e.slots \in Seq(Slots({k}))
        BY SealedFacts
      <4>2. 1 \in DOMAIN e.slots
        BY <2>2, <4>1
      <4>3. \A x \in SlotIds(e) : x \in 0 .. IdSpace - 1
        BY <4>1 DEF SlotIds
      <4> QED BY <4>2, <4>3 DEF SlotIds
    <3>2. Max(SlotIds(e)) \in Nat
      <4>1. PICK b \in Nat : b = IdSpace - 1
        BY IdSpaceAssumption
      <4>2. Max(SlotIds(e)) \in SlotIds(e)
        BY <3>1, <4>1, GreatestNumber
      <4> QED BY <3>1, <4>2, IdSpaceAssumption
    <3>3. (Max(SlotIds(e)) + 1) % IdSpace \in 0 .. IdSpace - 1
      BY <3>2, IdSpaceAssumption
    <3> QED BY <2>2, <3>3 DEF NextKekId
  <2> QED BY <2>1, <2>2
<1>2. PICK t \in Slots({k}) : t = WrapSlot(k, s, NextKekId(e), KindOf(s))
  BY <1>1, SlotFacts
<1>3. Append(e.slots, t) \in Seq(Slots({k})) /\ e.gen + 1 \in Nat
  BY <1>2, SealedFacts
<1> QED BY <1>2, <1>3, FinalizeT DEF AddSlot, Rebuild

\* An envelope opens with the secret of any of its slots, and no other.
LEMMA OpensT ==
    ASSUME NEW k, NEW e \in KeyEnvs(k)
    PROVE  /\ \A s : OpenWith(e, s) =
                IF Parses(e) /\ \E i \in 1 .. Len(e.slots) : e.slots[i].secret = s
                THEN [dek |-> k] ELSE Refused
           /\ Openers(e) = IF Parses(e) THEN {e.slots[i].secret : i \in 1 .. Len(e.slots)} ELSE {}
<1>1. ASSUME NEW s
      PROVE  OpenWith(e, s) = IF Parses(e) /\ \E i \in 1 .. Len(e.slots) : e.slots[i].secret = s
                              THEN [dek |-> k] ELSE Refused
  <2> DEFINE I == {i \in 1 .. Len(e.slots) : e.slots[i].secret = s}
             j == IF I # {} THEN Min(I) ELSE 0
  <2>1. OpenWith(e, s) = IF ~Parses(e) \/ j = 0 \/ ~MacOk(e, e.slots[j].dek) THEN Refused
                         ELSE [dek |-> e.slots[j].dek]
    BY DEF OpenWith, SelectInSeq
  <2>2. CASE I = {}
    <3>1. j = 0
      BY <2>2
    <3> HIDE DEF j
    <3> QED BY <2>1, <2>2, <3>1
  <2>3. CASE I # {}
    <3>1. I \in SUBSET Nat
      OBVIOUS
    <3>2. j = Min(I) /\ Min(I) \in I
      BY <2>3, <3>1, LeastNumber
    <3>3. j \in 1 .. Len(e.slots) /\ e.slots[j].secret = s /\ j # 0
      BY <3>2
    <3> HIDE DEF j, I
    <3>4. e.slots[j].dek = k /\ MacOk(e, k)
      BY <3>3, SealedFacts
    <3> QED BY <2>1, <3>3, <3>4
  <2> QED BY <2>2, <2>3
<1>2. DOMAIN e.slots = 1 .. Len(e.slots)
  BY SealedFacts
<1> QED BY <1>1, <1>2, ImageFacts DEF Openers

\* strip_kind keeps exactly the slots of other kinds.
LEMMA StripT ==
    ASSUME NEW k, NEW e \in KeyEnvs(k), NEW kind, ~IsRefused(StripKind(e, k, kind))
    PROVE  /\ StripKind(e, k, kind) \in KeyEnvs(k) /\ StripKind(e, k, kind).gen = e.gen
           /\ Parses(e) /\ Parses(StripKind(e, k, kind))
           /\ \A i \in 1 .. Len(StripKind(e, k, kind).slots) :
                /\ StripKind(e, k, kind).slots[i].kind # kind
                /\ \E j \in 1 .. Len(e.slots) : StripKind(e, k, kind).slots[i] = e.slots[j]
           /\ \A j \in 1 .. Len(e.slots) : e.slots[j].kind # kind =>
                \E i \in 1 .. Len(StripKind(e, k, kind).slots) :
                    StripKind(e, k, kind).slots[i] = e.slots[j]
<1> DEFINE at == NotOf(e, kind)
           r == StripKind(e, k, kind)
<1>1. /\ e.gen \in Nat /\ e.slots \in Seq(Slots({k}))
      /\ DOMAIN e.slots = 1 .. Len(e.slots) /\ Len(e.slots) \in Nat
  BY SealedFacts
<1>2. /\ at \in SUBSET (1 .. Len(e.slots)) /\ at \in SUBSET Nat
      /\ \A i \in 1 .. Len(e.slots) : i \in at <=> e.slots[i].kind # kind
  BY <1>1 DEF NotOf
<1>3. IsFiniteSet(at) /\ Cardinality(at) \in Nat /\ Cardinality(at) <= Len(e.slots)
  <2>1. IsFiniteSet(1 .. Len(e.slots)) /\ Cardinality(1 .. Len(e.slots)) = Len(e.slots)
    BY <1>1, FS_Interval
  <2>2. IsFiniteSet(at) /\ Cardinality(at) <= Cardinality(1 .. Len(e.slots))
    BY <1>2, <2>1, FS_Subset
  <2> QED BY <2>1, <2>2, FS_CardinalityType
<1>4. r = IF ~Parses(e) \/ at = {} THEN Refused ELSE IF at = DOMAIN e.slots THEN e ELSE Finalize(e.gen, SlotsAt(e, at), k)
  BY DEF StripKind
<1>5. CASE at = DOMAIN e.slots
  <2>1. r = e /\ Parses(e)
    BY <1>4, <1>5, ImageFacts
  <2> QED BY <1>1, <1>2, <1>5, <2>1
<1>6. CASE at # DOMAIN e.slots
  <2>1. r = Finalize(e.gen, SlotsAt(e, at), k) /\ Parses(e)
    BY <1>4, <1>6, ImageFacts
  <2>2. /\ \A i \in 1 .. Cardinality(at) : Nth(at, i) \in at
        /\ \A x \in at : \E i \in 1 .. Cardinality(at) : Nth(at, i) = x
    BY <1>2, <1>3, Numbered
  <2>3. SlotsAt(e, at) = [i \in 1 .. Cardinality(at) |-> e.slots[Nth(at, i)]]
    BY DEF SlotsAt
  <2> HIDE DEF at, r
  <2>4. ASSUME NEW i \in 1 .. Cardinality(at) PROVE SlotsAt(e, at)[i] \in Slots({k})
    <3>1. PICK x \in at : x = Nth(at, i)
      BY <2>2
    <3>2. x \in 1 .. Len(e.slots) /\ e.slots[x] \in Slots({k})
      BY <1>1, <1>2
    <3> QED BY <2>3, <3>1, <3>2
  <2>5. SlotsAt(e, at) \in Seq(Slots({k})) /\ Len(SlotsAt(e, at)) = Cardinality(at)
    <3>1. PICK c \in Nat : c = Cardinality(at)
      BY <1>3
    <3>2. /\ SlotsAt(e, at) = [i \in 1 .. c |-> e.slots[Nth(at, i)]]
          /\ \A i \in 1 .. c : e.slots[Nth(at, i)] \in Slots({k})
      BY <2>3, <2>4, <3>1
    <3>3. /\ [i \in 1 .. c |-> e.slots[Nth(at, i)]] \in Seq(Slots({k}))
          /\ Len([i \in 1 .. c |-> e.slots[Nth(at, i)]]) = c
      BY ONLY <3>2, c \in Nat
    <3> QED BY <3>1, <3>2, <3>3
  <2>6. r \in KeyEnvs(k) /\ r.gen = e.gen /\ r.slots = SlotsAt(e, at)
    BY <1>1, <2>1, <2>5, FinalizeT
  <2>7. ASSUME NEW i \in 1 .. Len(r.slots)
        PROVE  r.slots[i].kind # kind /\ \E j \in 1 .. Len(e.slots) : r.slots[i] = e.slots[j]
    <3>1. i \in 1 .. Cardinality(at) /\ r.slots[i] = e.slots[Nth(at, i)] /\ Nth(at, i) \in at
      BY <2>2, <2>3, <2>5, <2>6
    <3> QED BY <1>2, <3>1
  <2>8. ASSUME NEW j \in 1 .. Len(e.slots), e.slots[j].kind # kind
        PROVE  \E i \in 1 .. Len(r.slots) : r.slots[i] = e.slots[j]
    <3>1. PICK i \in 1 .. Cardinality(at) : Nth(at, i) = j
      BY <1>2, <2>2, <2>8
    <3>2. i \in 1 .. Len(r.slots) /\ r.slots[i] = e.slots[j]
      BY <2>3, <2>5, <2>6, <3>1
    <3> QED BY <3>2
  <2>9. Parses(r)
    <3>1. Len(r.slots) <= Len(e.slots) /\ Len(r.slots) \in Nat
      BY <1>3, <2>5, <2>6
    <3> QED BY <1>1, <2>1, <3>1, IdSpaceAssumption DEF Parses
  <2> QED BY <2>1, <2>6, <2>7, <2>8, <2>9 DEF r
<1> QED BY <1>5, <1>6

LEMMA EnvFacts ==
    /\ NoEnv \in Envs /\ NoEnv.mac.key = NoDek
    /\ \A k \in Keys : \A e \in KeyEnvs(k) : e \in Envs /\ e # NoEnv /\ e.mac.key = k
    /\ \A e \in Envs : e.gen \in Nat /\ (e # NoEnv => e.mac.key \in Keys /\ e \in KeyEnvs(e.mac.key))
<1>1. NoEnv.gen = 0 /\ NoEnv.mac.key = NoDek
  BY DEF NoEnv, Finalize, ComputeMac
<1>2. ASSUME NEW k \in Keys, NEW e \in KeyEnvs(k) PROVE e \in Sealed(Keys) /\ e.mac.key = k
  <2>1. Slots({k}) \subseteq Slots(Keys)
    BY DEF Slots
  <2>2. /\ e.gen \in Nat /\ e.slots \in Seq(Slots({k})) /\ e.mac \in [gen : Nat, slots : Seq(Slots({k})), key : {k}]
        /\ e = [gen |-> e.gen, slots |-> e.slots, mac |-> e.mac]
        /\ e.mac.gen = e.gen /\ e.mac.slots = e.slots
    BY DEF KeyEnvs, Sealed
  <2>3. e.slots \in Seq(Slots(Keys))
    BY <2>1, <2>2
  <2> QED BY <2>2, <2>3 DEF Sealed
<1>3. ASSUME NEW e \in Envs, e # NoEnv PROVE e.mac.key \in Keys /\ e \in KeyEnvs(e.mac.key) /\ e.gen \in Nat
  BY <1>3 DEF Envs, Sealed
<1> QED BY <1>1, <1>2, <1>3, Numerals DEF Envs

-----------------------------------------------------------------------------
(* One device changes, the histories grow. *)

LEMMA SetsGrow ==
    ASSUME NEW u \in Nat, NEW u2 \in Nat, u <= u2
    PROVE  Mains(u) \subseteq Mains(u2) /\ Manis(u) \subseteq Manis(u2) /\ Tokens(u) \subseteq Tokens(u2)
<1>1. 1 .. u \subseteq 1 .. u2
  OBVIOUS
<1> QED BY <1>1 DEF Mains, Manis, Tokens

LEMMA PoolGrows ==
    ASSUME NEW u \in Nat, NEW u2 \in Nat, u <= u2, NEW img, NEW img2, img \subseteq img2,
           NEW main, NEW mani, NEW hot, PoolOk(main, mani, hot, img, u)
    PROVE  PoolOk(main, mani, hot, img2, u2)
<1>1. ASSUME NEW db \in Dbs PROVE DbOk(main[db], mani[db], hot[db], img2, u2)
  <2>1. DbOk(main[db], mani[db], hot[db], img, u)
    BY DEF PoolOk
  <2>2. Vouched(main[db], mani[db], hot[db], img2)
    BY <2>1 DEF DbOk, Vouched
  <2> QED BY <2>1, <2>2, SetsGrow DEF DbOk
<1> QED BY <1>1 DEF PoolOk

LEMMA DevGrows ==
    ASSUME NEW u \in Nat, NEW u2 \in Nat, u <= u2, NEW img, NEW img2, img \subseteq img2,
           NEW v, DevOk(v, img, u)
    PROVE  DevOk(v, img2, u2)
<1>1. PoolOk(v.main, v.mani, v.hot, img2, u2)
  BY PoolGrows DEF DevOk
<1>2. EntriesOk(v, u2)
  BY SetsGrow DEF DevOk, EntriesOk
<1> QED BY <1>1, <1>2 DEF DevOk

LEMMA BundleGrows ==
    ASSUME NEW u \in Nat, NEW u2 \in Nat, u <= u2, NEW img, NEW img2, img \subseteq img2,
           NEW b, BundleOk(b, img, u)
    PROVE  BundleOk(b, img2, u2)
<1>1. PoolOk(b.main, b.mani, [db \in Dbs |-> Cold], img2, u2)
  BY PoolGrows DEF BundleOk
<1>2. b.epoch \in Tokens(u2)
  BY SetsGrow DEF BundleOk
<1> QED BY <1>1, <1>2 DEF BundleOk

LEMMA KnownGrows ==
    ASSUME NEW u \in Nat, NEW u2 \in Nat, u <= u2, NEW kn, NEW v, KnownOk(kn, v, u)
    PROVE  KnownOk(kn, v, u2)
<1>1. \A w \in Uuids : w > u2 => w > u
  BY Numerals
<1> QED BY <1>1 DEF KnownOk

LEMMA BegunGrows ==
    ASSUME n \in Counters, n' \in Counters, n.writes <= n'.writes,
           NEW main, NEW mani, NEW db \in Dbs, NEW u, main[db] \in Mains(u),
           PoolBegun(main, mani, n.writes)
    PROVE  Begun(main[db], mani[db], n'.writes)
<1>1. n.writes \in Nat /\ n'.writes \in Nat
  BY TransferAssumption DEF Counters, Contents
<1>2. main[db].is = "file" => main[db].val \in Nat
  BY FileKinds
<1>3. Begun(main[db], mani[db], n.writes)
  BY DEF PoolBegun
<1>4. main[db].is = "file" => main[db].val <= n'.writes
  BY <1>1, <1>2, <1>3 DEF Begun
<1>5. 0 .. n.writes \subseteq 0 .. n'.writes
  BY <1>1
<1> QED BY <1>3, <1>4, <1>5 DEF Begun

LEMMA Elsewhere ==
    ASSUME Inv, NEW d \in Devices, n' \in Counters, n.uuids <= n'.uuids,
           images \subseteq images', air \subseteq air',
           dev' = [dev EXCEPT ![d] = dev'[d]], sess' = [sess EXCEPT ![d] = sess'[d]],
           known' = [known EXCEPT ![d] = known'[d]], base' = [base EXCEPT ![d] = base'[d]],
           DevOk(dev'[d], images', n'.uuids), SessOk(sess'[d], dev'[d], known'[d]),
           KnownOk(known'[d], dev'[d], n'.uuids), BaseOk(base'[d], dev'[d], air'),
           \A b \in air' : b \in air \/ BundleOk(b, images', n'.uuids),
           StillBegun(d), TheJobOk'
    PROVE  Inv'
<1>1. n.uuids \in Nat /\ n'.uuids \in Nat
  BY TransferAssumption DEF Inv, Counters
<1>2. \A e \in Devices : e # d => /\ dev'[e] = dev[e] /\ sess'[e] = sess[e]
                                  /\ known'[e] = known[e] /\ base'[e] = base[e]
  BY DEF Inv, DevsOk, SesssOk, KnownsOk, BasesOk
<1>3. DevsOk'
  <2>1. dev' = [e \in Devices |-> dev'[e]]
    BY DEF Inv, DevsOk
  <2>2. ASSUME NEW e \in Devices PROVE DevOk(dev'[e], images', n'.uuids)
    <3>1. CASE e = d
      BY <3>1
    <3>2. CASE e # d
      <4>1. DevOk(dev[e], images, n.uuids)
        BY DEF Inv, DevsOk
      <4> QED BY <1>1, <1>2, <3>2, <4>1, DevGrows
    <3> QED BY <3>1, <3>2
  <2> QED BY <2>1, <2>2 DEF DevsOk
<1>4. SesssOk'
  <2>1. sess' = [e \in Devices |-> sess'[e]]
    BY DEF Inv, SesssOk
  <2>2. ASSUME NEW e \in Devices PROVE SessOk(sess'[e], dev'[e], known'[e])
    BY <1>2 DEF Inv, SesssOk
  <2> QED BY <2>1, <2>2 DEF SesssOk
<1>5. KnownsOk'
  <2>1. known' = [e \in Devices |-> known'[e]]
    BY DEF Inv, KnownsOk
  <2>2. ASSUME NEW e \in Devices PROVE KnownOk(known'[e], dev'[e], n'.uuids)
    <3>1. CASE e = d
      BY <3>1
    <3>2. CASE e # d
      <4>1. KnownOk(known[e], dev[e], n.uuids)
        BY DEF Inv, KnownsOk
      <4> QED BY <1>1, <1>2, <3>2, <4>1, KnownGrows
    <3> QED BY <3>1, <3>2
  <2> QED BY <2>1, <2>2 DEF KnownsOk
<1>6. AirOk'
  <2>1. ASSUME NEW b \in air' PROVE BundleOk(b, images', n'.uuids)
    <3>1. CASE b \in air
      <4>1. BundleOk(b, images, n.uuids)
        BY <3>1 DEF Inv, AirOk
      <4> QED BY <1>1, <4>1, BundleGrows
    <3> QED BY <3>1
  <2> QED BY <2>1 DEF AirOk
<1>7. BasesOk'
  <2>1. base' = [e \in Devices |-> base'[e]]
    BY DEF Inv, BasesOk
  <2>2. ASSUME NEW e \in Devices PROVE BaseOk(base'[e], dev'[e], air')
    <3>1. CASE e = d
      BY <3>1
    <3>2. CASE e # d
      <4>1. BaseOk(base[e], dev[e], air)
        BY DEF Inv, BasesOk
      <4> QED BY <1>2, <3>2, <4>1 DEF BaseOk
    <3> QED BY <3>1, <3>2
  <2> QED BY <2>1, <2>2 DEF BasesOk
<1>8. Written'
  <2>1. n \in Counters /\ n.writes <= n'.writes /\ Written
    BY DEF Inv, StillBegun
  <2>2. ASSUME NEW e \in Devices PROVE PoolBegun(dev'[e].main, dev'[e].mani, n'.writes)
    <3>1. CASE e = d
      BY <3>1 DEF StillBegun
    <3>2. CASE e # d
      <4>1. \A db \in Dbs : dev[e].main[db] \in Mains(n.uuids)
        BY DEF Inv, DevsOk, DevOk, PoolOk, DbOk
      <4>2. PoolBegun(dev[e].main, dev[e].mani, n.writes)
        BY <2>1 DEF Written
      <4> QED BY <1>2, <2>1, <3>2, <4>1, <4>2, BegunGrows DEF PoolBegun
    <3> QED BY <3>1, <3>2
  <2>3. ASSUME NEW b \in air' PROVE PoolBegun(b.main, b.mani, n'.writes)
    <3>1. CASE b \in air
      <4>1. \A db \in Dbs : b.main[db] \in Mains(n.uuids)
        BY <3>1 DEF Inv, AirOk, BundleOk, PoolOk, DbOk
      <4>2. PoolBegun(b.main, b.mani, n.writes)
        BY <2>1, <3>1 DEF Written
      <4> QED BY <2>1, <4>1, <4>2, BegunGrows DEF PoolBegun
    <3>2. CASE b \notin air
      BY <3>2 DEF StillBegun
    <3> QED BY <3>1, <3>2
  <2> QED BY <2>2, <2>3 DEF Written
<1> QED BY <1>3, <1>4, <1>5, <1>6, <1>7, <1>8 DEF Inv

LEMMA FilesSame ==
    ASSUME Inv, NEW d \in Devices, air' = air, n'.writes = n.writes,
           dev'[d].main = dev[d].main, dev'[d].mani = dev[d].mani
    PROVE  StillBegun(d)
<1>1. n.writes \in Nat
  BY TransferAssumption DEF Inv, Counters, Contents
<1> QED BY <1>1 DEF Inv, Written, StillBegun

LEMMA FilesWrite ==
    ASSUME Inv, NEW d \in Devices, air' = air, n' \in Counters, n.writes <= n'.writes,
           NEW db \in Dbs, NEW m, NEW o, Begun(m, o, n'.writes),
           dev'[d].main = [dev[d].main EXCEPT ![db] = m],
           dev'[d].mani = [dev[d].mani EXCEPT ![db] = o]
    PROVE  StillBegun(d)
<1>1. n \in Counters /\ PoolBegun(dev[d].main, dev[d].mani, n.writes)
  BY DEF Inv, Written
<1>2. PoolOk(dev[d].main, dev[d].mani, dev[d].hot, images, n.uuids)
  BY DEF Inv, DevsOk, DevOk
<1>3. ASSUME NEW e \in Dbs PROVE Begun(dev'[d].main[e], dev'[d].mani[e], n'.writes)
  <2>1. CASE e = db
    BY <1>2, <2>1 DEF PoolOk
  <2>2. CASE e # db
    <3>1. dev'[d].main[e] = dev[d].main[e] /\ dev'[d].mani[e] = dev[d].mani[e]
      BY <2>2
    <3>2. dev[d].main[e] \in Mains(n.uuids)
      BY <1>2 DEF PoolOk, DbOk
    <3> QED BY <1>1, <3>1, <3>2, BegunGrows
  <2> QED BY <2>1, <2>2
<1> QED BY <1>3 DEF StillBegun, PoolBegun

\* The invariant at one device, and what a step that leaves a variable alone
\* leaves of it.
LEMMA At ==
    ASSUME Inv, NEW d \in Devices
    PROVE  /\ DevOk(dev[d], images, n.uuids) /\ SessOk(sess[d], dev[d], known[d])
           /\ KnownOk(known[d], dev[d], n.uuids) /\ BaseOk(base[d], dev[d], air)
           /\ n \in Counters /\ n.uuids \in Nat /\ n.uuids <= MaxUuids
           /\ dev = [e \in Devices |-> dev[e]] /\ sess = [e \in Devices |-> sess[e]]
           /\ known = [e \in Devices |-> known[e]] /\ base = [e \in Devices |-> base[e]]
           /\ dev = [dev EXCEPT ![d] = dev[d]] /\ sess = [sess EXCEPT ![d] = sess[d]]
           /\ known = [known EXCEPT ![d] = known[d]] /\ base = [base EXCEPT ![d] = base[d]]
<1>1. n \in Counters /\ n.uuids \in Nat /\ n.uuids <= MaxUuids
  BY TransferAssumption DEF Inv, Counters
<1> QED BY <1>1 DEF Inv, DevsOk, SesssOk, KnownsOk, BasesOk

LEMMA IdleFacts ==
    /\ Idle.pc = "idle" /\ Idle.files = {} /\ Idle.puts = <<>> /\ Idle.dek = NoDek
    /\ \A j : j.pc # "idle" => j # Idle
    /\ NoSession = [dek |-> NoDek, served |-> [db \in Dbs |-> Closed]]
    /\ NoSession.dek = NoDek /\ \A db \in Dbs : NoSession.served[db] = Closed
BY DEF Idle, NoSession

LEMMA NoSessionOk ==
    ASSUME NEW v, NEW kn
    PROVE  SessOk(NoSession, v, kn)
BY IdleFacts, Numerals DEF SessOk

-----------------------------------------------------------------------------
(* The calls that begin. *)

LEMMA SecretFacts ==
    ASSUME NEW i \in Nat
    PROVE  /\ Prf(i) \in Secrets /\ KindOf(Prf(i)) = Passkey
           /\ Key(i) \in Secrets /\ KindOf(Key(i)) = Device
           /\ Code(i) \in Secrets /\ KindOf(Code(i)) = Recovery
BY DEF Prf, Key, Code, Secrets, KindOf

LEMMA NoEnvRefuses ==
    \A s : IsRefused(OpenWith(NoEnv, s))
<1>1. NoEnv \in KeyEnvs(NoDek) /\ NoEnv.slots = <<>>
  <2>1. PICK g, s : g = 0 /\ s = <<>>
    OBVIOUS
  <2>2. PICK P : P = Slots({NoDek})
    OBVIOUS
  <2>3. g \in Nat /\ s \in Seq(P)
    BY <2>1
  <2>4. NoEnv = Finalize(g, s, NoDek)
    BY <2>1 DEF NoEnv
  <2>5. Finalize(g, s, NoDek) \in KeyEnvs(NoDek) /\ Finalize(g, s, NoDek).slots = s
    BY <2>2, <2>3, FinalizeT
  <2> QED BY <2>1, <2>4, <2>5
<1> QED BY <1>1, OpensT, ImageFacts

\* An opened envelope is one of the key it yields.
LEMMA OpenedT ==
    ASSUME NEW e \in Envs, NEW s, ~IsRefused(OpenWith(e, s))
    PROVE  /\ e # NoEnv /\ OpenWith(e, s) = [dek |-> e.mac.key] /\ e.mac.key \in Keys
           /\ e \in KeyEnvs(e.mac.key)
<1>1. e # NoEnv
  BY NoEnvRefuses
<1>2. e.mac.key \in Keys /\ e \in KeyEnvs(e.mac.key)
  BY <1>1, EnvFacts
<1> QED BY <1>1, <1>2, OpensT, ImageFacts

LEMMA PutFacts ==
    ASSUME NEW u
    PROVE  /\ \A e \in Envs : <<"env", e>> \in PutT(u)
           /\ \A g \in Nat : <<"floor", g>> \in PutT(u)
           /\ \A t \in Tokens(u) : <<"epoch", t>> \in PutT(u)
           /\ \A x \in {"cred", "key", "wrap"} : \A i \in 0 .. MaxEnrolls : <<x, i>> \in PutT(u)
           /\ NoToken \in Tokens(u)
BY DEF PutT, Tokens

LEMMA TwoPuts ==
    ASSUME NEW P, NEW x \in P, NEW y \in P
    PROVE  <<x, y>> \in Seq(P) /\ <<>> \in Seq(P)
OBVIOUS

LEMMA ThreePuts ==
    ASSUME NEW P, NEW x \in P, NEW p \in P, NEW q \in P
    PROVE  LET s == <<x>> \o <<>> \o <<p, q>>
           IN  s \in Seq(P) /\ Len(s) = 3 /\ s[1] = x /\ s[2] = p /\ s[3] = q
<1>1. <<x>> \in Seq(P) /\ <<>> \in Seq(P) /\ <<p, q>> \in Seq(P)
  OBVIOUS
<1>2. (<<x>> \o <<>>) \in Seq(P) /\ Len(<<x>> \o <<>>) = 1 /\ (<<x>> \o <<>>)[1] = x
  OBVIOUS
<1> QED BY <1>1, <1>2

LEMMA FourPuts ==
    ASSUME NEW P, NEW x \in P, NEW y \in P, NEW p \in P, NEW q \in P
    PROVE  LET s == <<x>> \o <<y>> \o <<p, q>>
           IN  s \in Seq(P) /\ Len(s) = 4 /\ s[1] = x /\ s[2] = y /\ s[3] = p /\ s[4] = q
OBVIOUS

LEMMA SevenPuts ==
    ASSUME NEW P, NEW a \in P, NEW b \in P, NEW c \in P, NEW d \in P, NEW e \in P,
           NEW f \in P, NEW g \in P
    PROVE  <<a, b, c, d, e, f, g>> \in Seq(P)
OBVIOUS

LEMMA CountsCall ==
    ASSUME NEW m \in Counters
    PROVE  /\ [m EXCEPT !.calls = @ + 1] \in Counters
           /\ [m EXCEPT !.calls = @ + 1].uuids = m.uuids
           /\ [m EXCEPT !.calls = @ + 1].writes = m.writes
           /\ [m EXCEPT !.calls = @ + 1, !.codes = @ + 1] \in Counters
           /\ [m EXCEPT !.calls = @ + 1, !.codes = @ + 1].uuids = m.uuids
           /\ [m EXCEPT !.calls = @ + 1, !.codes = @ + 1].writes = m.writes
<1>1. m.calls + 1 \in Nat /\ m.codes + 1 \in Nat
  BY DEF Counters
<1> QED BY <1>1 DEF Counters

LEMMA CountsEnroll ==
    ASSUME NEW m \in Counters, m.enrolls < MaxEnrolls, NEW backup \in BOOLEAN
    PROVE  /\ [m EXCEPT !.calls = @ + 1, !.enrolls = @ + 1] \in Counters
           /\ [m EXCEPT !.calls = @ + 1, !.enrolls = @ + 1].uuids = m.uuids
           /\ [m EXCEPT !.calls = @ + 1, !.enrolls = @ + 1].writes = m.writes
           /\ [m EXCEPT !.calls = @ + 1, !.enrolls = @ + 1,
                        !.codes = @ + IF backup THEN 1 ELSE 0] \in Counters
           /\ [m EXCEPT !.calls = @ + 1, !.enrolls = @ + 1,
                        !.codes = @ + IF backup THEN 1 ELSE 0].uuids = m.uuids
           /\ [m EXCEPT !.calls = @ + 1, !.enrolls = @ + 1,
                        !.codes = @ + IF backup THEN 1 ELSE 0].writes = m.writes
<1>1. m.calls + 1 \in Nat /\ m.enrolls + 1 \in 0 .. MaxEnrolls
  BY TransferAssumption DEF Counters
<1>2. PICK c : c = m.codes + IF backup THEN 1 ELSE 0
  OBVIOUS
<1>3. c \in Nat
  BY <1>2 DEF Counters
<1> QED BY <1>1, <1>2, <1>3 DEF Counters

LEMMA BeginOk ==
    ASSUME Inv, NEW d \in Devices, NEW pc \in {"clear", "write"}, NEW files, NEW bundle,
           NEW puts \in Seq(PutT(n.uuids)), NEW dek \in 0 .. MaxEnrolls,
           Begin(d, pc, files, bundle, puts, dek), n' \in Counters, n'.uuids = n.uuids, n'.writes = n.writes,
           pc = "write" => bundle = NoBundle /\ dek = NoDek,
           pc = "write" => (sess[d].dek # NoDek => \A i \in 1 .. Len(puts) : puts[i][1] = "env" =>
                                (puts[i][2] = NoEnv \/ puts[i][2].mac.key = sess[d].dek)),
           dek # NoDek => Keyed(puts, dev[d].env, dek),
           bundle = NoBundle => files = {},
           bundle # NoBundle => /\ bundle \in air /\ dek = NoDek /\ files = FilesOf(bundle)
                                /\ Settles(puts, "env", dev[d].env, bundle.env)
                                /\ Settles(puts, "epoch", dev[d].epoch, bundle.epoch)
                                /\ Settles(puts, "floor", dev[d].floor, bundle.env.gen)
    PROVE  Inv'
<1> DEFINE j == [d |-> d, pc |-> pc, files |-> files, bundle |-> bundle, puts |-> puts, dek |-> dek]
<1>1. /\ job' = j /\ base' = [base EXCEPT ![d] = NoBundle]
      /\ sess' = IF pc = "clear" THEN [sess EXCEPT ![d] = NoSession] ELSE sess
      /\ UNCHANGED <<dev, air, images, known>>
  BY DEF Begin
<1>2. /\ base'[d] = NoBundle /\ base' = [base EXCEPT ![d] = base'[d]]
      /\ sess' = [sess EXCEPT ![d] = sess'[d]]
      /\ sess'[d] = IF pc = "clear" THEN NoSession ELSE sess[d]
  BY <1>1, At
<1>3. SessOk(sess'[d], dev'[d], known'[d])
  BY <1>1, <1>2, At, NoSessionOk
<1>4. /\ DevOk(dev'[d], images', n'.uuids) /\ KnownOk(known'[d], dev'[d], n'.uuids)
      /\ BaseOk(base'[d], dev'[d], air')
      /\ dev' = [dev EXCEPT ![d] = dev'[d]] /\ known' = [known EXCEPT ![d] = known'[d]]
  BY <1>1, <1>2, At DEF BaseOk
<1>5. /\ j.d = d /\ j.pc = pc /\ j.files = files /\ j.bundle = bundle /\ j.puts = puts /\ j.dek = dek
      /\ j = [d |-> j.d, pc |-> j.pc, files |-> j.files, bundle |-> j.bundle, puts |-> j.puts,
              dek |-> j.dek]
  OBVIOUS
<1> HIDE DEF j
<1>6. /\ (pc = "clear" \/ bundle # NoBundle \/ dek # NoDek) => sess'[d] = NoSession
      /\ sess'[d].dek # NoDek => pc = "write" /\ sess'[d] = sess[d]
  BY <1>2, IdleFacts
<1>7. bundle # NoBundle => ImportOk(j, dev[d], air)
  BY <1>5 DEF ImportOk
<1>8. JobOk(j, dev, sess', base', air, n.uuids)
  BY <1>2, <1>5, <1>6, <1>7 DEF JobOk
<1>9. TheJobOk'
  BY <1>1, <1>8 DEF TheJobOk
<1>10. n' \in Counters /\ n.uuids <= n'.uuids /\ images \subseteq images' /\ air \subseteq air'
       /\ \A b \in air' : b \in air \/ BundleOk(b, images', n'.uuids)
  BY <1>1, At
<1>11. StillBegun(d)
  BY <1>1, FilesSame
<1> QED BY <1>2, <1>3, <1>4, <1>9, <1>10, <1>11, Elsewhere

LEMMA EnrollInv ==
    ASSUME Inv, NEW d \in Devices, Enroll(d)
    PROVE  Inv'
<1>1. PICK e : e = n.enrolls + 1
  OBVIOUS
<1>2. PICK env : env = CreateEnvelope(e, Prf(e), Passkey)
  OBVIOUS
<1> DEFINE puts == <<<<"env", env>>, <<"cred", e>>, <<"epoch", NoToken>>, <<"floor", 0>>,
                     <<"floor", env.gen>>>>
<1>3. Begin(d, "clear", {}, NoBundle, puts, e) /\ n.enrolls < MaxEnrolls
  BY <1>1, <1>2 DEF Enroll
<1>4. n \in Counters /\ e \in Keys /\ e \in Nat
  BY <1>1, <1>3, TransferAssumption DEF Inv, Counters, Keys
<1>5. n' \in Counters /\ n'.uuids = n.uuids /\ n'.writes = n.writes
  <2>1. n' = [n EXCEPT !.calls = @ + 1, !.enrolls = @ + 1]
    BY DEF Enroll
  <2> QED BY <1>3, <1>4, <2>1, CountsEnroll
<1>6. env \in KeyEnvs(e) /\ env \in Envs /\ env.mac.key = e /\ env.gen \in Nat
  BY <1>2, <1>4, SecretFacts, CreateT, EnvFacts
<1>7. /\ <<"env", env>> \in PutT(n.uuids) /\ <<"cred", e>> \in PutT(n.uuids)
      /\ <<"epoch", NoToken>> \in PutT(n.uuids) /\ <<"floor", 0>> \in PutT(n.uuids)
      /\ <<"floor", env.gen>> \in PutT(n.uuids)
  BY <1>4, <1>6, PutFacts, Numerals
<1>8. puts \in Seq(PutT(n.uuids))
  BY <1>7
<1>9. Keyed(puts, dev[d].env, e)
  BY <1>6 DEF Keyed
<1> HIDE DEF puts
<1> QED BY <1>3, <1>4, <1>5, <1>8, <1>9, BeginOk, Numerals

LEMMA EnrollConvenienceInv ==
    ASSUME Inv, NEW d \in Devices, NEW backup \in BOOLEAN, EnrollConvenience(d, backup)
    PROVE  Inv'
<1>1. PICK e, c : e = n.enrolls + 1 /\ c = n.codes + 1
  OBVIOUS
<1>2. PICK env : env = CreateEnvelope(e, Key(e), Device)
  OBVIOUS
<1>3. PICK next : next = AddSlot(env, e, Code(c), Recovery)
  OBVIOUS
<1> DEFINE first == <<<<"key", e>>, <<"wrap", e>>, <<"env", env>>, <<"cred", 0>>,
                      <<"epoch", NoToken>>, <<"floor", 0>>, <<"floor", env.gen>>>>
           more == IF backup THEN <<<<"env", next>>, <<"floor", next.gen>>>> ELSE <<>>
           puts == first \o more
<1>4. Begin(d, "clear", {}, NoBundle, puts, NoDek) /\ n.enrolls < MaxEnrolls
  BY <1>1, <1>2, <1>3 DEF EnrollConvenience
<1>5. n \in Counters /\ e \in Keys /\ e \in Nat /\ c \in Nat
  <2>1. n \in Counters
    BY DEF Inv
  <2>2. n.enrolls \in Nat /\ n.codes \in Nat
    BY <2>1, TransferAssumption DEF Counters
  <2>3. n.enrolls < MaxEnrolls
    BY <1>4
  <2> QED BY <1>1, <2>1, <2>2, <2>3, TransferAssumption DEF Keys
<1>6. n' \in Counters /\ n'.uuids = n.uuids /\ n'.writes = n.writes
  <2>1. n' = [n EXCEPT !.calls = @ + 1, !.enrolls = @ + 1, !.codes = @ + IF backup THEN 1 ELSE 0]
    BY DEF EnrollConvenience
  <2> QED BY <1>4, <1>5, <2>1, CountsEnroll
<1>7. env \in KeyEnvs(e) /\ env \in Envs /\ env.gen \in Nat
  BY <1>2, <1>5, SecretFacts, CreateT, EnvFacts
<1>8. next \in Envs /\ next.gen \in Nat
  <2>1. next \in KeyEnvs(e)
    BY <1>3, <1>5, <1>7, SecretFacts, AddT
  <2> QED BY <1>5, <2>1, EnvFacts
<1>9. /\ <<"key", e>> \in PutT(n.uuids) /\ <<"wrap", e>> \in PutT(n.uuids)
      /\ <<"env", env>> \in PutT(n.uuids) /\ <<"cred", 0>> \in PutT(n.uuids)
      /\ <<"epoch", NoToken>> \in PutT(n.uuids) /\ <<"floor", 0>> \in PutT(n.uuids)
      /\ <<"floor", env.gen>> \in PutT(n.uuids)
      /\ <<"env", next>> \in PutT(n.uuids) /\ <<"floor", next.gen>> \in PutT(n.uuids)
  <2>1. e \in 0 .. MaxEnrolls /\ 0 \in 0 .. MaxEnrolls
    BY <1>5, Numerals DEF NoDek
  <2> QED BY <1>7, <1>8, <2>1, PutFacts
<1>10. puts \in Seq(PutT(n.uuids))
  <2>1. first \in Seq(PutT(n.uuids))
    BY <1>9, SevenPuts
  <2>2. more \in Seq(PutT(n.uuids))
    BY <1>9, TwoPuts
  <2> HIDE DEF first, more
  <2> QED BY <2>1, <2>2
<1> HIDE DEF puts
<1> QED BY <1>4, <1>6, <1>10, BeginOk, Numerals

LEMMA AddRecoveryCodeInv ==
    ASSUME Inv, NEW d \in Devices, AddRecoveryCode(d)
    PROVE  Inv'
<1>1. PICK v : v = dev[d]
  OBVIOUS
<1>2. PICK s : LET key  == OpenWith(v.env, s)
                   next == AddSlot(v.env, key.dek, Code(n.codes + 1), Recovery)
               IN  /\ ~IsRefused(key)
                   /\ Begin(d, "write", {}, NoBundle,
                            <<<<"env", next>>, <<"floor", Max({Generation(next), v.floor})>>>>, NoDek)
  BY <1>1 DEF AddRecoveryCode
<1>3. PICK k, c : k = OpenWith(v.env, s).dek /\ c = n.codes + 1
  OBVIOUS
<1>4. PICK next : next = AddSlot(v.env, k, Code(c), Recovery)
  OBVIOUS
<1>5. PICK g : g = Max({Generation(next), v.floor})
  OBVIOUS
<1> DEFINE puts == <<<<"env", next>>, <<"floor", g>>>>
<1>6. Begin(d, "write", {}, NoBundle, puts, NoDek) /\ ~IsRefused(OpenWith(v.env, s))
  BY <1>2, <1>3, <1>4, <1>5
<1>7. n \in Counters /\ c \in Nat /\ v.env \in Envs /\ v.floor \in Nat
  BY <1>1, <1>3, At DEF Counters, DevOk, EntriesOk
<1>8. n' \in Counters /\ n'.uuids = n.uuids /\ n'.writes = n.writes
  <2>1. n' = [n EXCEPT !.calls = @ + 1, !.codes = @ + 1]
    BY DEF AddRecoveryCode
  <2> QED BY <1>7, <2>1, CountsCall
<1>9. v.env # NoEnv /\ k = v.env.mac.key /\ k \in Keys /\ v.env \in KeyEnvs(k)
  BY <1>3, <1>6, <1>7, OpenedT, ImageFacts
<1>10. next \in KeyEnvs(k) /\ next \in Envs /\ next.gen \in Nat /\ next.mac.key = k
  <2>1. next \in KeyEnvs(k)
    BY <1>4, <1>7, <1>9, SecretFacts, AddT
  <2> QED BY <1>9, <2>1, EnvFacts
<1>11. g \in Nat
  <2>1. Generation(next) \in Nat
    BY <1>10 DEF Generation
  <2> QED BY <1>5, <1>7, <2>1, MaxFacts
<1>12. <<"env", next>> \in PutT(n.uuids) /\ <<"floor", g>> \in PutT(n.uuids)
  BY <1>10, <1>11, PutFacts
<1>13. puts \in Seq(PutT(n.uuids))
  BY <1>12
<1>14. sess[d].dek # NoDek => sess[d].dek = k
  BY <1>1, <1>9, At DEF SessOk
<1>15. \A i \in 1 .. Len(puts) : puts[i][1] = "env" => puts[i][2].mac.key = k
  BY <1>10
<1> HIDE DEF puts
<1> QED BY <1>6, <1>8, <1>13, <1>14, <1>15, BeginOk, Numerals

LEMMA ResetInv ==
    ASSUME Inv, NEW d \in Devices, Reset(d)
    PROVE  Inv'
<1> DEFINE puts == <<<<"env", NoEnv>>, <<"cred", 0>>, <<"epoch", NoToken>>, <<"floor", 0>>,
                     <<"key", 0>>, <<"wrap", 0>>>>
<1>1. Begin(d, "write", {}, NoBundle, puts, NoDek)
  BY DEF Reset
<1>2. n' \in Counters /\ n'.uuids = n.uuids /\ n'.writes = n.writes
  <2>1. n' = [n EXCEPT !.calls = @ + 1]
    BY DEF Reset
  <2> QED BY At, <2>1, CountsCall
<1>3. /\ <<"env", NoEnv>> \in PutT(n.uuids) /\ <<"cred", 0>> \in PutT(n.uuids)
      /\ <<"epoch", NoToken>> \in PutT(n.uuids) /\ <<"floor", 0>> \in PutT(n.uuids)
      /\ <<"key", 0>> \in PutT(n.uuids) /\ <<"wrap", 0>> \in PutT(n.uuids)
  BY EnvFacts, PutFacts, Numerals DEF NoDek
<1>4. puts \in Seq(PutT(n.uuids))
  BY <1>3
<1>5. \A i \in 1 .. Len(puts) : puts[i][1] = "env" => puts[i][2] = NoEnv
  OBVIOUS
<1> HIDE DEF puts
<1> QED BY <1>1, <1>2, <1>4, <1>5, BeginOk, Numerals

LEMMA ImportBundleInv ==
    ASSUME Inv, NEW d \in Devices, ImportBundle(d)
    PROVE  Inv'
<1>1. PICK b \in air : Begin(d, "clear", FilesOf(b), b, ImportPuts(b), NoDek)
  BY DEF ImportBundle
<1>2. n' \in Counters /\ n'.uuids = n.uuids /\ n'.writes = n.writes
  <2>1. n' = [n EXCEPT !.calls = @ + 1]
    BY DEF ImportBundle
  <2> QED BY At, <2>1, CountsCall
<1>3. BundleOk(b, images, n.uuids)
  BY DEF Inv, AirOk
<1>4. /\ b.cred \in 0 .. MaxEnrolls /\ b.epoch \in Tokens(n.uuids) /\ b.env \in Envs
      /\ b.env.gen \in Nat /\ b.env # NoEnv
  <2>1. b.cred \in 0 .. MaxEnrolls /\ b.epoch \in Tokens(n.uuids) /\ b.epoch # NoToken /\ b.env \in KeyEnvs(b.epoch.dek)
    BY <1>3 DEF BundleOk
  <2>2. b.epoch.dek \in Keys
    BY <2>1 DEF Tokens
  <2> QED BY <2>1, <2>2, EnvFacts
<1>5. /\ <<"env", b.env>> \in PutT(n.uuids) /\ <<"cred", b.cred>> \in PutT(n.uuids)
      /\ <<"epoch", b.epoch>> \in PutT(n.uuids) /\ <<"floor", b.env.gen>> \in PutT(n.uuids)
  BY <1>4, PutFacts
<1>6. b # NoBundle
  BY <1>4 DEF NoBundle
<1>7. PICK x, y, p, q : /\ x = <<"env", b.env>> /\ y = <<"cred", b.cred>>
                        /\ p = <<"epoch", b.epoch>> /\ q = <<"floor", b.env.gen>>
  OBVIOUS
<1>8. PICK puts : puts = ImportPuts(b)
  OBVIOUS
<1>9. /\ puts \in Seq(PutT(n.uuids))
      /\ \/ Len(puts) = 4 /\ puts[1] = x /\ puts[2] = y /\ puts[3] = p /\ puts[4] = q
         \/ Len(puts) = 3 /\ puts[1] = x /\ puts[2] = p /\ puts[3] = q
  <2>1. x \in PutT(n.uuids) /\ y \in PutT(n.uuids) /\ p \in PutT(n.uuids) /\ q \in PutT(n.uuids)
    BY <1>5, <1>7
  <2>2. CASE b.cred # 0
    <3>1. puts = <<x>> \o <<y>> \o <<p, q>>
      BY <1>7, <1>8, <2>2 DEF ImportPuts
    <3> QED BY <2>1, <3>1, FourPuts
  <2>3. CASE b.cred = 0
    <3>1. puts = <<x>> \o <<>> \o <<p, q>>
      BY <1>7, <1>8, <2>3 DEF ImportPuts
    <3> QED BY <2>1, <3>1, ThreePuts
  <2> QED BY <2>2, <2>3
<1>10. /\ Settles(puts, "env", dev[d].env, b.env)
       /\ Settles(puts, "epoch", dev[d].epoch, b.epoch)
       /\ Settles(puts, "floor", dev[d].floor, b.env.gen)
  <2>1. CASE Len(puts) = 4 /\ puts[1] = x /\ puts[2] = y /\ puts[3] = p /\ puts[4] = q
    <3>1. \A i \in 1 .. Len(puts) : i = 1 \/ i = 2 \/ i = 3 \/ i = 4
      BY <2>1
    <3>2. {1, 3, 4} \subseteq 1 .. Len(puts)
      BY <2>1
    <3> QED BY <1>7, <2>1, <3>1, <3>2 DEF Settles
  <2>2. CASE Len(puts) = 3 /\ puts[1] = x /\ puts[2] = p /\ puts[3] = q
    <3>1. \A i \in 1 .. Len(puts) : i = 1 \/ i = 2 \/ i = 3
      BY <2>2
    <3>2. {1, 2, 3} \subseteq 1 .. Len(puts)
      BY <2>2
    <3> QED BY <1>7, <2>2, <3>1, <3>2 DEF Settles
  <2> QED BY <1>9, <2>1, <2>2
<1> QED BY <1>1, <1>2, <1>6, <1>8, <1>9, <1>10, BeginOk, Numerals

-----------------------------------------------------------------------------
(* The steps of a call. *)

LEMMA PoolAt ==
    ASSUME NEW main, NEW mani, NEW hot, NEW img, NEW u, PoolOk(main, mani, hot, img, u),
           NEW db \in Dbs
    PROVE  /\ DbOk(main[db], mani[db], hot[db], img, u)
           /\ main[db] \in Mains(u) /\ mani[db] \in Manis(u) /\ hot[db] \in Contents \cup {Cold}
           /\ main = [e \in Dbs |-> main[e]] /\ mani = [e \in Dbs |-> mani[e]]
           /\ hot = [e \in Dbs |-> hot[e]]
           /\ main = [main EXCEPT ![db] = main[db]] /\ mani = [mani EXCEPT ![db] = mani[db]]
           /\ hot = [hot EXCEPT ![db] = hot[db]]
BY DEF PoolOk, DbOk

LEMMA PoolWrite ==
    ASSUME NEW main, NEW mani, NEW hot, NEW img, NEW u, PoolOk(main, mani, hot, img, u),
           NEW db \in Dbs, NEW m, NEW o, NEW h, DbOk(m, o, h, img, u),
           \A e \in Dbs : (e # db /\ o.is = "file" /\ mani[e].is = "file") => mani[e].uuid # o.uuid
    PROVE  PoolOk([main EXCEPT ![db] = m], [mani EXCEPT ![db] = o], [hot EXCEPT ![db] = h], img, u)
<1>1. PICK x, y, z : /\ x = [main EXCEPT ![db] = m] /\ y = [mani EXCEPT ![db] = o]
                     /\ z = [hot EXCEPT ![db] = h]
  OBVIOUS
<1>2. /\ x = [e \in Dbs |-> x[e]] /\ y = [e \in Dbs |-> y[e]] /\ z = [e \in Dbs |-> z[e]]
      /\ x[db] = m /\ y[db] = o /\ z[db] = h
      /\ \A e \in Dbs : e # db => x[e] = main[e] /\ y[e] = mani[e] /\ z[e] = hot[e]
  BY <1>1 DEF PoolOk
<1>3. \A e \in Dbs : DbOk(x[e], y[e], z[e], img, u)
  BY <1>2 DEF PoolOk
<1>4. \A e, f \in Dbs : (y[e].is = "file" /\ y[f].is = "file" /\ y[e].uuid = y[f].uuid) => e = f
  BY <1>2 DEF PoolOk
<1> QED BY <1>1, <1>2, <1>3, <1>4 DEF PoolOk

LEMMA DevWrite ==
    ASSUME NEW v, NEW w, NEW img, NEW u, DevOk(v, img, u), Shaped(w), EntriesOk(w, u),
           w.anchor \in Anchors, NEW db \in Dbs, NEW m, NEW o, NEW h, DbOk(m, o, h, img, u),
           w.main = [v.main EXCEPT ![db] = m], w.mani = [v.mani EXCEPT ![db] = o],
           w.hot = [v.hot EXCEPT ![db] = h],
           \A e \in Dbs : (e # db /\ o.is = "file" /\ v.mani[e].is = "file") => v.mani[e].uuid # o.uuid
    PROVE  DevOk(w, img, u)
<1>1. PoolOk(v.main, v.mani, v.hot, img, u)
  BY DEF DevOk
<1>2. PoolOk(w.main, w.mani, w.hot, img, u)
  BY <1>1, PoolWrite
<1> QED BY <1>2 DEF DevOk

LEMMA KnownSame ==
    ASSUME NEW kn, NEW v, NEW w, NEW u, KnownOk(kn, v, u), w.anchor = v.anchor
    PROVE  KnownOk(kn, w, u)
BY DEF KnownOk, AnchorLoad

\* What a call under way is known to be.
LEMMA JobFacts ==
    ASSUME Inv, job.pc # "idle"
    PROVE  /\ job.d \in Devices /\ job.pc \in {"clear", "write"} /\ base[job.d] = NoBundle
           /\ job = [d |-> job.d, pc |-> job.pc, files |-> job.files, bundle |-> job.bundle,
                     puts |-> job.puts, dek |-> job.dek]
           /\ job.puts \in Seq(PutT(n.uuids)) /\ job.dek \in 0 .. MaxEnrolls
           /\ job.pc = "clear" => sess[job.d] = NoSession
           /\ job.dek # NoDek => sess[job.d] = NoSession /\ Keyed(job.puts, dev[job.d].env, job.dek)
           /\ sess[job.d].dek # NoDek => \A i \in 1 .. Len(job.puts) :
                job.puts[i][1] = "env" =>
                    (job.puts[i][2] = NoEnv \/ job.puts[i][2].mac.key = sess[job.d].dek)
           /\ job.bundle = NoBundle => job.files = {}
           /\ job.bundle # NoBundle => /\ ImportOk(job, dev[job.d], air) /\ sess[job.d] = NoSession
                                       /\ BundleOk(job.bundle, images, n.uuids)
<1>1. job # Idle
  BY IdleFacts
<1>2. JobOk(job, dev, sess, base, air, n.uuids)
  BY DEF Inv, TheJobOk
<1>3. job.bundle # NoBundle => BundleOk(job.bundle, images, n.uuids)
  BY <1>1, <1>2 DEF JobOk, ImportOk, Inv, AirOk
<1> QED BY <1>1, <1>2, <1>3 DEF JobOk

\* A step that changes only files of the device under way.
LEMMA FileStep ==
    ASSUME Inv, job.pc # "idle", UNCHANGED <<sess, air, base, images, known, n>>,
           dev' = [dev EXCEPT ![job.d] = dev'[job.d]], DevOk(dev'[job.d], images, n.uuids),
           dev'[job.d].env = dev[job.d].env, dev'[job.d].epoch = dev[job.d].epoch,
           dev'[job.d].floor = dev[job.d].floor, dev'[job.d].anchor = dev[job.d].anchor,
           sess[job.d] = NoSession, StillBegun(job.d), TheJobOk'
    PROVE  Inv'
<1> DEFINE d == job.d
<1>1. d \in Devices /\ base[d] = NoBundle
  BY JobFacts
<1> HIDE DEF d
<1>2. /\ n' \in Counters /\ n.uuids <= n'.uuids /\ images \subseteq images' /\ air \subseteq air'
      /\ \A b \in air' : b \in air \/ BundleOk(b, images', n'.uuids)
  BY <1>1, At
<1>3. /\ sess' = [sess EXCEPT ![d] = sess'[d]] /\ known' = [known EXCEPT ![d] = known'[d]]
      /\ base' = [base EXCEPT ![d] = base'[d]] /\ dev' = [dev EXCEPT ![d] = dev'[d]]
  BY <1>1, At DEF d
<1>4. DevOk(dev'[d], images', n'.uuids) /\ SessOk(sess'[d], dev'[d], known'[d])
      /\ KnownOk(known'[d], dev'[d], n'.uuids) /\ BaseOk(base'[d], dev'[d], air')
  <2>1. KnownOk(known[d], dev'[d], n.uuids)
    BY <1>1, At, KnownSame DEF d
  <2> QED BY <1>1, <2>1, NoSessionOk DEF d, BaseOk
<1>5. StillBegun(d)
  BY DEF d
<1> QED BY <1>1, <1>2, <1>3, <1>4, <1>5, Elsewhere

LEMMA ClearNameInv ==
    ASSUME Inv, ClearName
    PROVE  Inv'
<1> DEFINE d == job.d
<1>1. job.pc = "clear" /\ job.pc # "idle" /\ UNCHANGED <<sess, job, air, base, images, known, n>>
  BY DEF ClearName
<1>2. d \in Devices /\ sess[d] = NoSession
  BY <1>1, JobFacts
<1>3. PICK db \in Dbs :
        \/ dev[d].main[db] # Missing /\ dev' = [dev EXCEPT ![d].main[db] = Missing]
        \/ dev[d].mani[db] # Missing /\ dev' = [dev EXCEPT ![d].mani[db] = Missing]
        \/ dev[d].hot[db] # Cold /\ dev' = [dev EXCEPT ![d].hot[db] = Cold]
  BY DEF ClearName
<1> HIDE DEF d
<1>4. PICK v, w : v = dev[d] /\ w = dev'[d]
  OBVIOUS
<1>5. DevOk(v, images, n.uuids) /\ n.uuids \in Nat
  BY <1>2, <1>4, At
<1>6. /\ dev' = [dev EXCEPT ![d] = w] /\ Shaped(w)
      /\ w.env = v.env /\ w.epoch = v.epoch /\ w.floor = v.floor /\ w.anchor = v.anchor
      /\ w.cred = v.cred /\ w.key = v.key /\ w.wrap = v.wrap
      /\ \/ w.main = [v.main EXCEPT ![db] = Missing] /\ w.mani = v.mani /\ w.hot = v.hot
         \/ w.main = v.main /\ w.mani = [v.mani EXCEPT ![db] = Missing] /\ w.hot = v.hot
         \/ w.main = v.main /\ w.mani = v.mani /\ w.hot = [v.hot EXCEPT ![db] = Cold]
  <2>1. dev = [e \in Devices |-> dev[e]] /\ Shaped(v)
    BY <1>2, <1>5, At DEF DevOk
  <2>2. CASE dev' = [dev EXCEPT ![d].main[db] = Missing]
    <3>1. dev' = [dev EXCEPT ![d] = [v EXCEPT !.main[db] = Missing]]
      BY <1>4, <2>2
    <3>2. w = [v EXCEPT !.main[db] = Missing]
      BY <1>2, <1>4, <2>1, <3>1
    <3> QED BY <2>1, <3>1, <3>2 DEF Shaped
  <2>3. CASE dev' = [dev EXCEPT ![d].mani[db] = Missing]
    <3>1. dev' = [dev EXCEPT ![d] = [v EXCEPT !.mani[db] = Missing]]
      BY <1>4, <2>3
    <3>2. w = [v EXCEPT !.mani[db] = Missing]
      BY <1>2, <1>4, <2>1, <3>1
    <3> QED BY <2>1, <3>1, <3>2 DEF Shaped
  <2>4. CASE dev' = [dev EXCEPT ![d].hot[db] = Cold]
    <3>1. dev' = [dev EXCEPT ![d] = [v EXCEPT !.hot[db] = Cold]]
      BY <1>4, <2>4
    <3>2. w = [v EXCEPT !.hot[db] = Cold]
      BY <1>2, <1>4, <2>1, <3>1
    <3> QED BY <2>1, <3>1, <3>2 DEF Shaped
  <2> QED BY <1>3, <2>2, <2>3, <2>4
<1>7. PICK m, o, h : /\ w.main = [v.main EXCEPT ![db] = m] /\ w.mani = [v.mani EXCEPT ![db] = o]
                     /\ w.hot = [v.hot EXCEPT ![db] = h]
                     /\ m \in {v.main[db], Missing} /\ o \in {v.mani[db], Missing}
                     /\ h \in {v.hot[db], Cold}
  <2>1. PoolOk(v.main, v.mani, v.hot, images, n.uuids)
    BY <1>5 DEF DevOk
  <2>2. /\ v.main = [v.main EXCEPT ![db] = v.main[db]] /\ v.mani = [v.mani EXCEPT ![db] = v.mani[db]]
        /\ v.hot = [v.hot EXCEPT ![db] = v.hot[db]]
    BY <2>1, PoolAt
  <2>3. CASE w.main = [v.main EXCEPT ![db] = Missing] /\ w.mani = v.mani /\ w.hot = v.hot
    BY <2>2, <2>3
  <2>4. CASE w.main = v.main /\ w.mani = [v.mani EXCEPT ![db] = Missing] /\ w.hot = v.hot
    BY <2>2, <2>4
  <2>5. CASE w.main = v.main /\ w.mani = v.mani /\ w.hot = [v.hot EXCEPT ![db] = Cold]
    BY <2>2, <2>5
  <2> QED BY <1>6, <2>3, <2>4, <2>5
<1>8. DbOk(v.main[db], v.mani[db], v.hot[db], images, n.uuids)
  BY <1>5 DEF DevOk, PoolOk
<1>9. DbOk(m, o, h, images, n.uuids)
  <2>1. Missing \in Mains(n.uuids) /\ Missing \in Manis(n.uuids) /\ Missing.is # "file"
    BY FileKinds DEF Mains, Manis, Stub
  <2> QED BY <1>7, <1>8, <2>1 DEF DbOk, Vouched
<1>10. \A e \in Dbs : (e # db /\ o.is = "file" /\ v.mani[e].is = "file") => v.mani[e].uuid # o.uuid
  <2>1. o.is = "file" => o = v.mani[db]
    BY <1>7, FileKinds
  <2> QED BY <1>5, <2>1 DEF DevOk, PoolOk
<1>11. DevOk(w, images, n.uuids)
  <2>1. EntriesOk(w, n.uuids) /\ w.anchor \in Anchors
    BY <1>5, <1>6 DEF DevOk, EntriesOk
  <2> QED BY <1>5, <1>6, <1>7, <1>9, <1>10, <2>1, DevWrite
<1>12. TheJobOk'
  <2>1. ImportOk(job, v, air) => ImportOk(job, w, air)
    BY <1>1, <1>6 DEF ImportOk
  <2> QED BY <1>1, <1>4, <1>6, <2>1 DEF Inv, TheJobOk, JobOk, d
<1>13. StillBegun(d)
  <2>1. n \in Counters /\ n.writes \in Nat /\ Begun(v.main[db], v.mani[db], n.writes)
    BY <1>2, <1>4, TransferAssumption DEF Inv, Written, PoolBegun, Counters, Contents
  <2>2. Begun(m, o, n.writes)
    BY <1>7, <2>1, FileKinds DEF Begun
  <2> QED BY <1>1, <1>2, <1>4, <1>7, <2>1, <2>2, FilesWrite
<1> QED BY <1>1, <1>2, <1>4, <1>6, <1>11, <1>12, <1>13, FileStep DEF d

LEMMA ClearedInv ==
    ASSUME Inv, Cleared
    PROVE  Inv'
<1> DEFINE d == job.d
<1>1. /\ job.pc = "clear" /\ job.pc # "idle" /\ UNCHANGED <<dev, sess, air, base, images, known, n>>
      /\ job' = [job EXCEPT !.pc = "write"]
      /\ \A db \in Dbs : dev[d].main[db] = Missing /\ dev[d].mani[db] = Missing /\ dev[d].hot[db] = Cold
  BY DEF Cleared
<1>2. d \in Devices /\ sess[d] = NoSession
  BY <1>1, JobFacts
<1>3. /\ job'.d = job.d /\ job'.pc = "write" /\ job'.files = job.files /\ job'.bundle = job.bundle
      /\ job'.puts = job.puts /\ job'.dek = job.dek
      /\ job' = [d |-> job'.d, pc |-> job'.pc, files |-> job'.files, bundle |-> job'.bundle,
                 puts |-> job'.puts, dek |-> job'.dek]
  BY <1>1, JobFacts
<1>4. job.bundle # NoBundle => ImportOk(job', dev[d], air)
  <2> SUFFICES ASSUME job.bundle # NoBundle PROVE ImportOk(job', dev[d], air)
    OBVIOUS
  <2>1. ImportOk(job, dev[d], air) /\ job.files = FilesOf(job.bundle)
    BY <1>1, JobFacts DEF ImportOk
  <2>2. dev[d].hot = [db \in Dbs |-> Cold]
    <3>1. dev[d].hot = [db \in Dbs |-> dev[d].hot[db]]
      BY <1>2, At DEF DevOk, PoolOk
    <3> QED BY <1>1, <3>1
  <2>3. ASSUME NEW f \in {"main", "mani"} \X Dbs
        PROVE  IF f \in job.files THEN dev[d][f[1]][f[2]] \in Stub
               ELSE dev[d][f[1]][f[2]] = job.bundle[f[1]][f[2]]
    <3>1. f[1] \in {"main", "mani"} /\ f[2] \in Dbs
      OBVIOUS
    <3>2. dev[d][f[1]][f[2]] = Missing
      <4>1. CASE f[1] = "main"
        BY <1>1, <3>1, <4>1
      <4>2. CASE f[1] = "mani"
        BY <1>1, <3>1, <4>2
      <4> QED BY <3>1, <4>1, <4>2
    <3> QED BY <2>1, <3>2 DEF FilesOf, Stub
  <2>4. Imported(job', dev[d])
    BY <1>3, <2>2, <2>3 DEF Imported
  <2> QED BY <1>3, <2>1, <2>4 DEF ImportOk
<1>5. TheJobOk'
  <2>1. JobOk(job, dev, sess, base, air, n.uuids) /\ job # Idle
    BY <1>1, IdleFacts DEF Inv, TheJobOk
  <2>2. job'.pc \in {"clear", "write"}
    BY <1>3
  <2>3. JobOk(job', dev, sess, base, air, n.uuids)
    BY <1>2, <1>3, <1>4, <2>1, <2>2 DEF JobOk
  <2> QED BY <1>1, <2>3 DEF TheJobOk
<1>6. DevOk(dev'[d], images, n.uuids) /\ dev' = [dev EXCEPT ![d] = dev'[d]]
  BY <1>1, <1>2, At
<1>7. StillBegun(d)
  BY <1>1, <1>2, FilesSame
<1> QED BY <1>1, <1>2, <1>5, <1>6, <1>7, FileStep

LEMMA NextFileIn ==
    ASSUME NEW files \in SUBSET ({"main", "mani"} \X Dbs), files # {}
    PROVE  NextFile(files) \in files
<1> DEFINE S == {f[2] : f \in files}
<1>1. S \in SUBSET Nat /\ S # {}
  BY Numerals
<1>2. Min(S) \in S
  BY <1>1, LeastNumber
<1>3. PICK f \in files : Min(S) = f[2]
  BY <1>2
<1>4. f = <<"main", Min(S)>> \/ f = <<"mani", Min(S)>>
  BY <1>3
<1>5. NextFile(files) = IF <<"main", Min(S)>> \in files THEN <<"main", Min(S)>> ELSE <<"mani", Min(S)>>
  BY DEF NextFile
<1> HIDE DEF S
<1> QED BY <1>4, <1>5

\* A pool in the middle of an import.
LEMMA MixOk ==
    ASSUME NEW img, NEW u, NEW bm, NEW bo, PoolOk(bm, bo, [db \in Dbs |-> Cold], img, u),
           NEW main, NEW mani, NEW hot, main = [db \in Dbs |-> main[db]],
           mani = [db \in Dbs |-> mani[db]], hot = [db \in Dbs |-> Cold],
           \A db \in Dbs : /\ main[db] \in Stub \/ main[db] = bm[db]
                           /\ mani[db] \in Stub \/ mani[db] = bo[db]
    PROVE  PoolOk(main, mani, hot, img, u)
<1>1. ASSUME NEW db \in Dbs PROVE hot[db] = Cold /\ DbOk(main[db], mani[db], hot[db], img, u)
  <2>1. DbOk(bm[db], bo[db], Cold, img, u)
    BY DEF PoolOk
  <2>2. hot[db] = Cold
    OBVIOUS
  <2>3. main[db] \in Mains(u) /\ mani[db] \in Manis(u)
    BY <2>1 DEF DbOk, Mains, Manis
  <2>4. Vouched(main[db], mani[db], Cold, img)
    BY <2>1, FileKinds DEF DbOk, Vouched
  <2> QED BY <2>2, <2>3, <2>4 DEF DbOk
<1>2. hot = [db \in Dbs |-> hot[db]]
  BY <1>1
<1>3. \A db, e \in Dbs : (mani[db].is = "file" /\ mani[e].is = "file" /\ mani[db].uuid = mani[e].uuid) => db = e
  BY FileKinds DEF PoolOk
<1> QED BY <1>1, <1>2, <1>3 DEF PoolOk

LEMMA ImportFileInv ==
    ASSUME Inv, ImportFile
    PROVE  Inv'
<1> DEFINE d == job.d
           b == job.bundle
<1>1. PICK f : f = NextFile(job.files)
  OBVIOUS
<1>2. PICK copy : copy = b[f[1]][f[2]]
  OBVIOUS
<1>3. PICK next : next = CASE dev[d][f[1]][f[2]].is = "empty" /\ copy # Empty -> Partial
                           [] dev[d][f[1]][f[2]].is = "partial" -> copy
                           [] OTHER -> Empty
  OBVIOUS
<1>4. /\ job.pc = "write" /\ job.pc # "idle" /\ job.files # {}
      /\ dev' = [dev EXCEPT ![d][f[1]][f[2]] = next]
      /\ job' = IF next = copy THEN [job EXCEPT !.files = @ \ {f}] ELSE job
      /\ UNCHANGED <<sess, air, base, images, known, n>>
  BY <1>1, <1>2, <1>3 DEF ImportFile
<1>5. /\ d \in Devices /\ sess[d] = NoSession /\ b # NoBundle
      /\ ImportOk(job, dev[d], air) /\ BundleOk(b, images, n.uuids)
  BY <1>4, JobFacts
<1>6. next \in {Empty, Partial, copy}
  BY <1>3
<1>7. f \in job.files /\ job.files \subseteq FilesOf(b) /\ f \in {"main", "mani"} \X Dbs
  <2>1. job.files \subseteq FilesOf(b) /\ FilesOf(b) \subseteq {"main", "mani"} \X Dbs
    BY <1>5 DEF ImportOk, FilesOf
  <2> QED BY <1>1, <1>4, <2>1, NextFileIn
<1>8. PICK x, db : f = <<x, db>> /\ x \in {"main", "mani"} /\ db \in Dbs
  BY <1>7
<1>9. PICK v, w : v = dev[d] /\ w = dev'[d]
  OBVIOUS
<1>10. DevOk(v, images, n.uuids) /\ Imported(job, v)
  BY <1>4, <1>5, <1>9, At DEF ImportOk
<1>11. dev' = [dev EXCEPT ![d][x][db] = next]
  BY <1>4, <1>8
<1>12. /\ dev' = [dev EXCEPT ![d] = w] /\ Shaped(w)
       /\ w.env = v.env /\ w.epoch = v.epoch /\ w.floor = v.floor /\ w.anchor = v.anchor
       /\ w.cred = v.cred /\ w.key = v.key /\ w.wrap = v.wrap /\ w.hot = v.hot
       /\ \/ x = "main" /\ w.main = [v.main EXCEPT ![db] = next] /\ w.mani = v.mani
          \/ x = "mani" /\ w.main = v.main /\ w.mani = [v.mani EXCEPT ![db] = next]
  <2>1. dev = [e \in Devices |-> dev[e]] /\ Shaped(v)
    BY <1>5, <1>9, <1>10, At DEF DevOk
  <2>2. CASE x = "main"
    BY <1>5, <1>9, <1>11, <2>1, <2>2 DEF Shaped
  <2>3. CASE x = "mani"
    BY <1>5, <1>9, <1>11, <2>1, <2>3 DEF Shaped
  <2> QED BY <1>8, <2>2, <2>3
<1>13. /\ w.main = [e \in Dbs |-> w.main[e]] /\ w.mani = [e \in Dbs |-> w.mani[e]]
       /\ x = "main" => w.main[db] = next
       /\ x = "mani" => w.mani[db] = next
       /\ \A e \in Dbs : (e # db \/ x # "main") => w.main[e] = v.main[e]
       /\ \A e \in Dbs : (e # db \/ x # "mani") => w.mani[e] = v.mani[e]
  <2>1. v.main = [e \in Dbs |-> v.main[e]] /\ v.mani = [e \in Dbs |-> v.mani[e]]
    BY <1>10 DEF DevOk, PoolOk
  <2> QED BY <1>8, <1>12, <2>1
<1>14. /\ job'.d = job.d /\ job'.pc = "write" /\ job'.bundle = b /\ job'.puts = job.puts
       /\ job'.dek = job.dek
       /\ job'.files = IF next = copy THEN job.files \ {f} ELSE job.files
       /\ job' = [d |-> job'.d, pc |-> job'.pc, files |-> job'.files, bundle |-> job'.bundle,
                  puts |-> job'.puts, dek |-> job'.dek]
  BY <1>4, JobFacts
<1> HIDE DEF d, b
<1>15. Empty \in Stub /\ Partial \in Stub
  BY DEF Stub
<1>16. ASSUME NEW e \in Dbs
       PROVE  /\ IF <<"main", e>> \in job'.files THEN w.main[e] \in Stub ELSE w.main[e] = b.main[e]
              /\ IF <<"mani", e>> \in job'.files THEN w.mani[e] \in Stub ELSE w.mani[e] = b.mani[e]
  <2>1. \A g \in {"main", "mani"} \X Dbs :
           IF g \in job.files THEN v[g[1]][g[2]] \in Stub ELSE v[g[1]][g[2]] = b[g[1]][g[2]]
    BY <1>10 DEF Imported, b
  <2>2. /\ IF <<"main", e>> \in job.files THEN v.main[e] \in Stub ELSE v.main[e] = b.main[e]
        /\ IF <<"mani", e>> \in job.files THEN v.mani[e] \in Stub ELSE v.mani[e] = b.mani[e]
    BY <2>1
  <2>3. <<"main", e>> = f <=> (x = "main" /\ e = db)
    BY <1>8
  <2>4. <<"mani", e>> = f <=> (x = "mani" /\ e = db)
    BY <1>8
  <2>5. (x = "main" => copy = b.main[db]) /\ (x = "mani" => copy = b.mani[db])
    BY <1>2, <1>8
  <2>6. /\ <<"main", e>> \in job'.files <=> (<<"main", e>> \in job.files /\ ~(x = "main" /\ e = db /\ next = copy))
        /\ <<"mani", e>> \in job'.files <=> (<<"mani", e>> \in job.files /\ ~(x = "mani" /\ e = db /\ next = copy))
    BY <1>14, <2>3, <2>4
  <2>7. (x = "main" => <<"main", db>> \in job.files) /\ (x = "mani" => <<"mani", db>> \in job.files)
    BY <1>7, <1>8
  <2>8. next # copy => next \in Stub
    BY <1>6, <1>15
  <2>9. IF <<"main", e>> \in job'.files THEN w.main[e] \in Stub ELSE w.main[e] = b.main[e]
    BY <1>13, <2>2, <2>5, <2>6, <2>7, <2>8
  <2>10. IF <<"mani", e>> \in job'.files THEN w.mani[e] \in Stub ELSE w.mani[e] = b.mani[e]
    BY <1>13, <2>2, <2>5, <2>6, <2>7, <2>8
  <2> QED BY <2>9, <2>10
<1>17. w.hot = [e \in Dbs |-> Cold]
  BY <1>10, <1>12 DEF Imported
<1>18. DevOk(w, images, n.uuids)
  <2>1. PoolOk(b.main, b.mani, [e \in Dbs |-> Cold], images, n.uuids)
    BY <1>5 DEF BundleOk
  <2>2. \A e \in Dbs : (w.main[e] \in Stub \/ w.main[e] = b.main[e]) /\ (w.mani[e] \in Stub \/ w.mani[e] = b.mani[e])
    BY <1>16
  <2>3. PoolOk(w.main, w.mani, w.hot, images, n.uuids)
    BY <1>13, <1>17, <2>1, <2>2, MixOk
  <2> QED BY <1>10, <1>12, <2>3 DEF DevOk, EntriesOk
<1>19. Imported(job', w)
  <2>1. ASSUME NEW g \in {"main", "mani"} \X Dbs
        PROVE  IF g \in job'.files THEN w[g[1]][g[2]] \in Stub ELSE w[g[1]][g[2]] = b[g[1]][g[2]]
    <3>1. PICK e \in Dbs : g = <<"main", e>> \/ g = <<"mani", e>>
      OBVIOUS
    <3>2. CASE g = <<"main", e>>
      BY <1>16, <3>2
    <3>3. CASE g = <<"mani", e>>
      BY <1>16, <3>3
    <3> QED BY <3>1, <3>2, <3>3
  <2> QED BY <1>14, <1>17, <2>1 DEF Imported
<1>20. ImportOk(job', w, air)
  BY <1>5, <1>7, <1>9, <1>12, <1>14, <1>19 DEF ImportOk, b
<1>21. TheJobOk'
  <2>1. JobOk(job, dev, sess, base, air, n.uuids) /\ job # Idle
    BY <1>4, IdleFacts DEF Inv, TheJobOk
  <2>2. job.bundle = b /\ job.d = d
    BY DEF b, d
  <2>3. job.dek = NoDek
    BY <1>5 DEF ImportOk
  <2>4. JobOk(job', dev', sess, base, air, n.uuids)
    BY <1>5, <1>9, <1>14, <1>20, <2>1, <2>2, <2>3, IdleFacts DEF JobOk
  <2> QED BY <1>4, <2>4 DEF TheJobOk
<1>22. StillBegun(d)
  <2>1. b \in air /\ n.writes \in Nat
    BY <1>5, TransferAssumption DEF ImportOk, b, Inv, Counters, Contents
  <2>2. PoolBegun(b.main, b.mani, n.writes)
    BY <2>1 DEF Inv, Written
  <2>3. ASSUME NEW e \in Dbs PROVE Begun(w.main[e], w.mani[e], n.writes)
    <3>1. /\ w.main[e] \in Stub \/ w.main[e] = b.main[e]
          /\ w.mani[e] \in Stub \/ w.mani[e] = b.mani[e]
      BY <1>16
    <3> QED BY <2>2, <3>1, FileKinds DEF PoolBegun, Begun
  <2> QED BY <1>4, <1>9, <2>1, <2>3 DEF StillBegun, PoolBegun
<1> QED BY <1>4, <1>5, <1>9, <1>12, <1>18, <1>21, <1>22, FileStep DEF d

LEMMA PutType ==
    ASSUME NEW u, NEW p \in PutT(u)
    PROVE  /\ p = <<p[1], p[2]>>
           /\ p[1] \in {"env", "floor", "epoch", "cred", "key", "wrap"}
           /\ p[1] = "env" => p[2] \in Envs
           /\ p[1] = "floor" => p[2] \in Nat
           /\ p[1] = "epoch" => p[2] \in Tokens(u)
           /\ p[1] \in {"cred", "key", "wrap"} => p[2] \in 0 .. MaxEnrolls
BY DEF PutT

LEMMA TailFacts ==
    ASSUME NEW P, NEW s \in Seq(P), s # <<>>
    PROVE  /\ Tail(s) \in Seq(P) /\ Head(s) = s[1] /\ s[1] \in P /\ 1 \in 1 .. Len(s)
           /\ \A i \in 1 .. Len(Tail(s)) : i + 1 \in 1 .. Len(s) /\ Tail(s)[i] = s[i + 1]
           /\ \A i \in 1 .. Len(s) : i # 1 => (i - 1 \in 1 .. Len(Tail(s)) /\ Tail(s)[i - 1] = s[i])
<1>1. Len(s) \in Nat /\ Len(s) > 0 /\ Len(Tail(s)) = Len(s) - 1
  OBVIOUS
<1> QED BY <1>1

LEMMA SettlesStep ==
    ASSUME NEW P, NEW puts \in Seq(P), puts # <<>>, NEW x, NEW cur, NEW val,
           Settles(puts, x, cur, val)
    PROVE  Settles(Tail(puts), x, IF puts[1][1] = x THEN puts[1][2] ELSE cur, val)
<1>1. /\ 1 \in 1 .. Len(puts)
      /\ \A i \in 1 .. Len(Tail(puts)) : i + 1 \in 1 .. Len(puts) /\ Tail(puts)[i] = puts[i + 1]
      /\ \A i \in 1 .. Len(puts) : i # 1 => (i - 1 \in 1 .. Len(Tail(puts)) /\ Tail(puts)[i - 1] = puts[i])
  BY TailFacts
<1>2. \A i \in 1 .. Len(Tail(puts)) : Tail(puts)[i][1] = x => Tail(puts)[i][2] = val
  BY <1>1 DEF Settles
<1>3. ASSUME \A i \in 1 .. Len(Tail(puts)) : Tail(puts)[i][1] # x
      PROVE  (IF puts[1][1] = x THEN puts[1][2] ELSE cur) = val
  <2>1. CASE puts[1][1] = x
    BY <1>1, <2>1 DEF Settles
  <2>2. CASE puts[1][1] # x
    <3>1. \A i \in 1 .. Len(puts) : puts[i][1] # x
      BY <1>1, <1>3, <2>2
    <3> QED BY <2>2, <3>1 DEF Settles
  <2> QED BY <2>1, <2>2
<1> QED BY <1>2, <1>3 DEF Settles

LEMMA KeyedStep ==
    ASSUME NEW P, NEW puts \in Seq(P), puts # <<>>, NEW cur, NEW k, Keyed(puts, cur, k)
    PROVE  Keyed(Tail(puts), IF puts[1][1] = "env" THEN puts[1][2] ELSE cur, k)
<1>1. /\ 1 \in 1 .. Len(puts)
      /\ \A i \in 1 .. Len(Tail(puts)) : i + 1 \in 1 .. Len(puts) /\ Tail(puts)[i] = puts[i + 1]
      /\ \A i \in 1 .. Len(puts) : i # 1 => (i - 1 \in 1 .. Len(Tail(puts)) /\ Tail(puts)[i - 1] = puts[i])
  BY TailFacts
<1>2. \A i \in 1 .. Len(Tail(puts)) : Tail(puts)[i][1] = "env" => Tail(puts)[i][2].mac.key = k
  BY <1>1 DEF Keyed
<1>3. ASSUME \A i \in 1 .. Len(Tail(puts)) : Tail(puts)[i][1] # "env"
      PROVE  (IF puts[1][1] = "env" THEN puts[1][2] ELSE cur).mac.key = k
  <2>1. CASE puts[1][1] = "env"
    BY <1>1, <2>1 DEF Keyed
  <2>2. CASE puts[1][1] # "env"
    <3>1. \A i \in 1 .. Len(puts) : puts[i][1] # "env"
      BY <1>1, <1>3, <2>2
    <3> QED BY <2>2, <3>1 DEF Keyed
  <2> QED BY <2>1, <2>2
<1> QED BY <1>2, <1>3 DEF Keyed

LEMMA PutInv ==
    ASSUME Inv, Put
    PROVE  Inv'
<1> DEFINE d == job.d
           b == job.bundle
<1>1. PICK p : p = Head(job.puts)
  OBVIOUS
<1>2. /\ job.pc = "write" /\ job.pc # "idle" /\ job.files = {} /\ job.puts # <<>>
      /\ dev' = [dev EXCEPT ![d][p[1]] = p[2]] /\ job' = [job EXCEPT !.puts = Tail(@)]
      /\ UNCHANGED <<sess, air, base, images, known, n>>
  BY <1>1 DEF Put
<1>3. PICK u, P : u = n.uuids /\ P = PutT(u)
  OBVIOUS
<1>4. d \in Devices /\ base[d] = NoBundle /\ job.puts \in Seq(P)
  BY <1>2, <1>3, JobFacts
<1>5. /\ p = job.puts[1] /\ p \in P /\ 1 \in 1 .. Len(job.puts) /\ Tail(job.puts) \in Seq(P)
      /\ \A i \in 1 .. Len(Tail(job.puts)) :
            i + 1 \in 1 .. Len(job.puts) /\ Tail(job.puts)[i] = job.puts[i + 1]
  BY <1>1, <1>2, <1>4, TailFacts
<1>6. /\ p[1] \in {"env", "floor", "epoch", "cred", "key", "wrap"}
      /\ p[1] = "env" => p[2] \in Envs
      /\ p[1] = "floor" => p[2] \in Nat
      /\ p[1] = "epoch" => p[2] \in Tokens(u)
      /\ p[1] \in {"cred", "key", "wrap"} => p[2] \in 0 .. MaxEnrolls
  BY <1>3, <1>5, PutType
<1>7. PICK v, w : v = dev[d] /\ w = dev'[d]
  OBVIOUS
<1>8. DevOk(v, images, u) /\ SessOk(sess[d], v, known[d]) /\ KnownOk(known[d], v, u)
  BY <1>3, <1>4, <1>7, At
<1>9. w = [v EXCEPT ![p[1]] = p[2]] /\ dev' = [dev EXCEPT ![d] = w]
  BY <1>2, <1>4, <1>7, At
<1>10. /\ Shaped(w)
       /\ w.main = v.main /\ w.mani = v.mani /\ w.hot = v.hot /\ w.anchor = v.anchor
       /\ w.env = IF p[1] = "env" THEN p[2] ELSE v.env
       /\ w.floor = IF p[1] = "floor" THEN p[2] ELSE v.floor
       /\ w.epoch = IF p[1] = "epoch" THEN p[2] ELSE v.epoch
       /\ w.cred = IF p[1] = "cred" THEN p[2] ELSE v.cred
       /\ w.key = IF p[1] = "key" THEN p[2] ELSE v.key
       /\ w.wrap = IF p[1] = "wrap" THEN p[2] ELSE v.wrap
  <2>1. Shaped(v)
    BY <1>8 DEF DevOk
  <2>2. CASE p[1] = "env"
    BY <1>9, <2>1, <2>2 DEF Shaped
  <2>3. CASE p[1] = "floor"
    BY <1>9, <2>1, <2>3 DEF Shaped
  <2>4. CASE p[1] = "epoch"
    BY <1>9, <2>1, <2>4 DEF Shaped
  <2>5. CASE p[1] = "cred"
    BY <1>9, <2>1, <2>5 DEF Shaped
  <2>6. CASE p[1] = "key"
    BY <1>9, <2>1, <2>6 DEF Shaped
  <2>7. CASE p[1] = "wrap"
    BY <1>9, <2>1, <2>7 DEF Shaped
  <2> QED BY <1>6, <2>2, <2>3, <2>4, <2>5, <2>6, <2>7
<1>11. DevOk(w, images, u)
  <2>1. EntriesOk(w, u)
    BY <1>6, <1>8, <1>10 DEF DevOk, EntriesOk
  <2> QED BY <1>8, <1>10, <2>1 DEF DevOk
<1>12. \A i \in 1 .. Len(job.puts) : (sess[d].dek # NoDek /\ job.puts[i][1] = "env") =>
          (job.puts[i][2] = NoEnv \/ job.puts[i][2].mac.key = sess[d].dek)
  BY <1>2, JobFacts
<1>13. SessOk(sess[d], w, known[d])
  <2>1. sess[d].dek # NoDek => (w.env = NoEnv \/ w.env.mac.key = sess[d].dek)
    BY <1>5, <1>8, <1>10, <1>12 DEF SessOk
  <2> QED BY <1>8, <1>10, <2>1 DEF SessOk
<1>14. KnownOk(known[d], w, u) /\ BaseOk(base[d], w, air)
  BY <1>4, <1>8, <1>10, KnownSame DEF BaseOk
<1>15. /\ job'.d = d /\ job'.pc = job.pc /\ job'.files = job.files /\ job'.bundle = b
       /\ job'.puts = Tail(job.puts) /\ job'.dek = job.dek
       /\ job' = [d |-> job'.d, pc |-> job'.pc, files |-> job'.files, bundle |-> job'.bundle,
                  puts |-> job'.puts, dek |-> job'.dek]
  BY <1>2, JobFacts
<1>16. ASSUME b # NoBundle PROVE ImportOk(job', w, air)
  <2>1. ImportOk(job, v, air)
    BY <1>2, <1>7, <1>16, JobFacts
  <2>2. /\ Settles(job'.puts, "env", w.env, b.env)
        /\ Settles(job'.puts, "epoch", w.epoch, b.epoch)
        /\ Settles(job'.puts, "floor", w.floor, b.env.gen)
    BY <1>2, <1>4, <1>5, <1>10, <1>15, <2>1, SettlesStep DEF ImportOk
  <2>3. Imported(job', w)
    <3>1. \A f \in {"main", "mani"} \X Dbs : w[f[1]][f[2]] = v[f[1]][f[2]]
      <4>1. w.main = v.main /\ w.mani = v.mani
        BY <1>10
      <4> QED BY <4>1
    <3>2. Imported(job, v)
      BY <1>2, <2>1 DEF ImportOk
    <3> QED BY <1>10, <1>15, <3>1, <3>2 DEF Imported
  <2> QED BY <1>2, <1>15, <2>1, <2>2, <2>3 DEF ImportOk
<1>17. job.dek # NoDek => Keyed(job'.puts, w.env, job.dek)
  <2>1. job.dek # NoDek => Keyed(job.puts, v.env, job.dek)
    BY <1>2, <1>7, JobFacts
  <2> QED BY <1>2, <1>4, <1>5, <1>10, <1>15, <2>1, KeyedStep
<1>18. TheJobOk'
  <2>1. JobOk(job, dev, sess, base, air, n.uuids) /\ job # Idle
    BY <1>2, IdleFacts DEF Inv, TheJobOk
  <2>2. job.bundle = b /\ job.d = d
    OBVIOUS
  <2>3. \A i \in 1 .. Len(job'.puts) : (sess[d].dek # NoDek /\ job'.puts[i][1] = "env") =>
          (job'.puts[i][2] = NoEnv \/ job'.puts[i][2].mac.key = sess[d].dek)
    BY <1>5, <1>12, <1>15
  <2> HIDE DEF d, b
  <2>4. JobOk(job', dev', sess, base, air, n.uuids)
    BY <1>3, <1>5, <1>7, <1>15, <1>16, <1>17, <2>1, <2>2, <2>3 DEF JobOk
  <2> QED BY <1>2, <2>4 DEF TheJobOk
<1> HIDE DEF d, b
<1>19. n' \in Counters /\ n.uuids <= n'.uuids /\ images \subseteq images' /\ air \subseteq air'
       /\ \A c \in air' : c \in air \/ BundleOk(c, images', n'.uuids)
  BY <1>2, <1>4, At
<1>20. sess' = [sess EXCEPT ![d] = sess'[d]] /\ known' = [known EXCEPT ![d] = known'[d]]
       /\ base' = [base EXCEPT ![d] = base'[d]]
  BY <1>2, <1>4, At
<1>21. /\ DevOk(dev'[d], images', n'.uuids) /\ SessOk(sess'[d], dev'[d], known'[d])
       /\ KnownOk(known'[d], dev'[d], n'.uuids) /\ BaseOk(base'[d], dev'[d], air')
       /\ dev' = [dev EXCEPT ![d] = dev'[d]]
  <2>1. UNCHANGED <<sess, air, base, images, known, n>> /\ w = dev'[d] /\ u = n.uuids
    BY <1>2, <1>3, <1>7
  <2> QED BY <2>1, <1>9, <1>11, <1>13, <1>14
<1>22. StillBegun(d)
  BY <1>2, <1>4, <1>7, <1>10, FilesSame
<1> QED BY <1>4, <1>18, <1>19, <1>20, <1>21, <1>22, Elsewhere

LEMMA DoneInv ==
    ASSUME Inv, Done
    PROVE  Inv'
<1> DEFINE d == job.d
           b == job.bundle
<1>1. /\ job.pc = "write" /\ job.pc # "idle" /\ job.files = {} /\ job.puts = <<>>
      /\ job' = Idle /\ base' = [base EXCEPT ![d] = b]
      /\ sess' = IF job.dek = NoDek THEN sess
                 ELSE [sess EXCEPT ![d] = [NoSession EXCEPT !.dek = job.dek]]
      /\ known' = IF job.dek = NoDek THEN known
                  ELSE [known EXCEPT ![d].deks = @ \cup {job.dek}]
      /\ UNCHANGED <<dev, air, images, n>>
  BY DEF Done
<1>2. d \in Devices
  BY <1>1, JobFacts
<1>3. PICK v, kn : v = dev[d] /\ kn = known[d]
  OBVIOUS
<1>4. /\ DevOk(v, images, n.uuids) /\ SessOk(sess[d], v, kn) /\ KnownOk(kn, v, n.uuids)
  BY <1>2, <1>3, At
<1>5. Len(job.puts) = 0
  BY <1>1
<1>6. b # NoBundle => BaseOk(b, v, air)
  <2> SUFFICES ASSUME b # NoBundle PROVE BaseOk(b, v, air)
    OBVIOUS
  <2>1. ImportOk(job, v, air) /\ BundleOk(b, images, n.uuids)
    BY <1>1, <1>3, JobFacts
  <2>2. v.env = b.env /\ v.epoch = b.epoch /\ v.floor = b.env.gen /\ b \in air
    BY <1>5, <2>1 DEF ImportOk, Settles
  <2>3. Imported(job, v)
    BY <1>1, <2>1 DEF ImportOk
  <2>4. \A f \in {"main", "mani"} \X Dbs : v[f[1]][f[2]] = b[f[1]][f[2]]
    BY <1>1, <2>3 DEF Imported
  <2>5. \A e \in Dbs : v.main[e] = b.main[e] /\ v.mani[e] = b.mani[e]
    <3> TAKE e \in Dbs
    <3>1. <<"main", e>> \in {"main", "mani"} \X Dbs /\ <<"mani", e>> \in {"main", "mani"} \X Dbs
      OBVIOUS
    <3> QED BY <2>4, <3>1
  <2>6. /\ v.main = [e \in Dbs |-> v.main[e]] /\ v.mani = [e \in Dbs |-> v.mani[e]]
        /\ b.main = [e \in Dbs |-> b.main[e]] /\ b.mani = [e \in Dbs |-> b.mani[e]]
    BY <1>4, <2>1 DEF DevOk, BundleOk, PoolOk
  <2>7. v.main = b.main /\ v.mani = b.mani
    BY <2>5, <2>6
  <2> QED BY <2>2, <2>3, <2>7 DEF BaseOk, Imported
<1>7. SessOk(sess'[d], v, known'[d]) /\ KnownOk(known'[d], v, n.uuids)
      /\ sess' = [sess EXCEPT ![d] = sess'[d]] /\ known' = [known EXCEPT ![d] = known'[d]]
  <2>1. CASE job.dek = NoDek
    BY <1>1, <1>2, <1>3, <1>4, <2>1, At
  <2>2. CASE job.dek # NoDek
    <3>1. sess' = [sess EXCEPT ![d] = sess'[d]] /\ sess'[d] = [NoSession EXCEPT !.dek = job.dek]
      BY <1>1, <1>2, <2>2, At
    <3>2. known'[d] = [kn EXCEPT !.deks = @ \cup {job.dek}] /\ known' = [known EXCEPT ![d] = known'[d]]
      BY <1>1, <1>2, <1>3, <2>2, At
    <3>3. kn = [deks |-> kn.deks, seen |-> kn.seen, attested |-> kn.attested]
      BY <1>4 DEF KnownOk
    <3>4. /\ known'[d].deks = kn.deks \cup {job.dek} /\ known'[d].seen = kn.seen
          /\ known'[d].attested = kn.attested
          /\ known'[d] = [deks |-> known'[d].deks, seen |-> known'[d].seen, attested |-> known'[d].attested]
      BY <3>2, <3>3
    <3>5. job.dek \in 0 .. MaxEnrolls /\ Keyed(job.puts, v.env, job.dek)
      BY <1>1, <1>3, <2>2, JobFacts
    <3>6. v.env.mac.key = job.dek
      BY <1>5, <3>5 DEF Keyed
    <3>7. /\ sess'[d].dek = job.dek /\ sess'[d].served = [db \in Dbs |-> Closed]
          /\ sess'[d] = [dek |-> sess'[d].dek, served |-> sess'[d].served]
      BY <3>1, IdleFacts
    <3>8. SessOk(sess'[d], v, known'[d])
      BY <3>4, <3>5, <3>6, <3>7 DEF SessOk
    <3>9. KnownOk(known'[d], v, n.uuids)
      BY <1>4, <3>4, <3>5 DEF KnownOk
    <3> QED BY <3>1, <3>2, <3>8, <3>9
  <2> QED BY <2>1, <2>2
<1>8. BaseOk(base'[d], v, air) /\ base' = [base EXCEPT ![d] = base'[d]]
  <2>1. base' = [base EXCEPT ![d] = base'[d]] /\ base'[d] = b
    BY <1>1, <1>2, At
  <2> QED BY <1>6, <2>1 DEF BaseOk
<1>9. TheJobOk'
  BY <1>1 DEF TheJobOk, JobOk
<1>10. n' \in Counters /\ n.uuids <= n'.uuids /\ images \subseteq images' /\ air \subseteq air'
       /\ \A c \in air' : c \in air \/ BundleOk(c, images', n'.uuids)
  BY <1>1, <1>2, At
<1>11. dev'[d] = v /\ dev' = [dev EXCEPT ![d] = dev'[d]] /\ images' = images /\ n' = n /\ air' = air
  BY <1>1, <1>2, <1>3, At
<1>12. /\ DevOk(dev'[d], images', n'.uuids) /\ SessOk(sess'[d], dev'[d], known'[d])
       /\ KnownOk(known'[d], dev'[d], n'.uuids) /\ BaseOk(base'[d], dev'[d], air')
  BY <1>4, <1>7, <1>8, <1>11
<1> HIDE DEF d, b
<1>13. StillBegun(d)
  BY <1>2, <1>3, <1>11, FilesSame
<1> QED BY <1>2, <1>7, <1>8, <1>9, <1>10, <1>11, <1>12, <1>13, Elsewhere

\* A step after which device d has no session, and no call is under way.
LEMMA EndSession ==
    ASSUME Inv, NEW d \in Devices, UNCHANGED <<dev, air, base, images, known>>,
           n' \in Counters, n'.uuids = n.uuids, n'.writes = n.writes, job' = Idle,
           sess' = [sess EXCEPT ![d] = NoSession]
    PROVE  Inv'
<1>1. /\ dev' = [dev EXCEPT ![d] = dev'[d]] /\ sess' = [sess EXCEPT ![d] = sess'[d]]
      /\ known' = [known EXCEPT ![d] = known'[d]] /\ base' = [base EXCEPT ![d] = base'[d]]
      /\ sess'[d] = NoSession
  BY At
<1>2. /\ DevOk(dev'[d], images', n'.uuids) /\ SessOk(sess'[d], dev'[d], known'[d])
      /\ KnownOk(known'[d], dev'[d], n'.uuids) /\ BaseOk(base'[d], dev'[d], air')
  BY <1>1, At, NoSessionOk
<1>3. TheJobOk'
  BY DEF TheJobOk, JobOk
<1>4. n.uuids <= n'.uuids /\ images \subseteq images' /\ air \subseteq air'
      /\ \A c \in air' : c \in air \/ BundleOk(c, images', n'.uuids)
  BY At
<1>5. StillBegun(d)
  BY FilesSame
<1> QED BY <1>1, <1>2, <1>3, <1>4, <1>5, Elsewhere

LEMMA CrashInv ==
    ASSUME Inv, Crash
    PROVE  Inv'
<1>1. job # Idle /\ sess' = [sess EXCEPT ![job.d] = NoSession] /\ job' = Idle
      /\ n' = [n EXCEPT !.crashes = @ + 1] /\ UNCHANGED <<dev, air, base, images, known>>
  BY DEF Crash
<1>2. job.d \in Devices /\ n \in Counters
  BY <1>1 DEF Inv, TheJobOk, JobOk
<1>3. n' \in Counters /\ n'.uuids = n.uuids /\ n'.writes = n.writes
  <2>1. n.crashes + 1 \in Nat
    BY <1>2 DEF Counters
  <2> QED BY <1>1, <1>2, <2>1 DEF Counters
<1> QED BY <1>1, <1>2, <1>3, EndSession

LEMMA LockInv ==
    ASSUME Inv, NEW d \in Devices, Lock(d)
    PROVE  Inv'
<1>1. job = Idle /\ sess' = [sess EXCEPT ![d] = NoSession]
      /\ UNCHANGED <<dev, job, air, base, images, known, n>>
  BY DEF Lock
<1>2. n' \in Counters /\ n'.uuids = n.uuids /\ n'.writes = n.writes
  BY <1>1 DEF Inv
<1> QED BY <1>1, <1>2, EndSession

-----------------------------------------------------------------------------
(* The session. *)

\* anchor_load yields the marks of that key, anchor_record_full raises them.
LEMMA AnchorFacts ==
    ASSUME NEW v, v.anchor \in Anchors, NEW k \in Keys
    PROVE  /\ AnchorLoad(v, k) \in Anchors /\ AnchorLoad(v, k).dek = k
           /\ \A y \in Uuids : /\ AnchorLoad(v, k).committed[y] \in {0, v.anchor.committed[y]}
                               /\ AnchorLoad(v, k).floor[y] \in {0, v.anchor.floor[y]}
           /\ v.anchor.dek = k => AnchorLoad(v, k) = v.anchor
<1>1. CASE v.anchor.dek = k
  <2>1. AnchorLoad(v, k) = v.anchor
    BY <1>1 DEF AnchorLoad
  <2> QED BY <1>1, <2>1
<1>2. CASE v.anchor.dek # k
  <2>1. AnchorLoad(v, k) = [dek |-> k, committed |-> NoMarks, floor |-> NoMarks]
    BY <1>2 DEF AnchorLoad
  <2>2. NoMarks \in [Uuids -> Nat] /\ \A y \in Uuids : NoMarks[y] = 0
    BY DEF NoMarks
  <2>3. k \in 0 .. MaxEnrolls
    BY Numerals
  <2> QED BY <1>2, <2>1, <2>2, <2>3 DEF Anchors
<1> QED BY <1>1, <1>2

LEMMA RecordFacts ==
    ASSUME NEW v, v.anchor \in Anchors, NEW k \in Keys, NEW x \in Uuids, NEW c \in Nat,
           NEW f \in Nat, NEW a, a = AnchorLoad(v, k), NEW r, r = AnchorRecord(v, k, x, c, f)
    PROVE  /\ r \in Anchors /\ r.dek = k
           /\ r.committed[x] = IF a.committed[x] >= c THEN a.committed[x] ELSE c
           /\ r.floor[x] = IF a.floor[x] >= f THEN a.floor[x] ELSE f
           /\ \A y \in Uuids : y # x => r.committed[y] = a.committed[y] /\ r.floor[y] = a.floor[y]
<1>2. a \in Anchors /\ a.dek = k /\ a.committed[x] \in Nat /\ a.floor[x] \in Nat
  <2>1. a \in Anchors /\ a.dek = k
    BY AnchorFacts
  <2> QED BY <2>1 DEF Anchors
<1>3. PICK p, q : p = Max({a.committed[x], c}) /\ q = Max({a.floor[x], f})
  OBVIOUS
<1>4. /\ p = IF a.committed[x] >= c THEN a.committed[x] ELSE c
      /\ q = IF a.floor[x] >= f THEN a.floor[x] ELSE f
  BY <1>2, <1>3, MaxFacts
<1>5. AnchorRecord(v, k, x, c, f) = [a EXCEPT !.committed[x] = p, !.floor[x] = q]
  BY <1>2, <1>3 DEF AnchorRecord, Anchors
<1>6. p \in Nat /\ q \in Nat
  BY <1>2, <1>4
<1>7. r = [a EXCEPT !.committed[x] = p, !.floor[x] = q]
  BY <1>5
<1>8. /\ r \in Anchors /\ r.dek = a.dek /\ r.committed[x] = p /\ r.floor[x] = q
      /\ \A y \in Uuids : y # x => r.committed[y] = a.committed[y] /\ r.floor[y] = a.floor[y]
  BY ONLY <1>2, <1>6, <1>7, x \in Uuids DEF Anchors
<1> QED BY <1>2, <1>4, <1>8

\* What a device knows grows with the marks it records: an epoch token
\* raises both marks, an opened or committed image the first.
Raised(kn, kn2, k, x, c, f) ==
    /\ kn2 = [deks |-> kn2.deks, seen |-> kn2.seen, attested |-> kn2.attested]
    /\ kn2.deks = kn.deks \cup {k}
    /\ kn2.seen \in [Uuids -> Nat] /\ kn2.attested \in [Uuids -> Nat]
    /\ \A y \in Uuids : y # x => kn2.seen[y] = kn.seen[y] /\ kn2.attested[y] = kn.attested[y]
    /\ \/ /\ kn2.seen[x] = kn.seen[x] /\ f = c
          /\ kn2.attested[x] = IF kn.attested[x] >= c THEN kn.attested[x] ELSE c
       \/ /\ kn2.attested[x] = kn.attested[x] /\ f = 0
          /\ kn2.seen[x] = IF kn.seen[x] >= c THEN kn.seen[x] ELSE c

LEMMA KnownRecord ==
    ASSUME NEW v, NEW w, NEW kn, NEW kn2, NEW u \in Nat, NEW u2 \in Nat, u <= u2,
           KnownOk(kn, v, u), v.anchor \in Anchors, NEW k \in Keys, NEW x \in Uuids, x <= u2,
           NEW c \in Nat, NEW f \in Nat, w.anchor = AnchorRecord(v, k, x, c, f),
           Raised(kn, kn2, k, x, c, f)
    PROVE  KnownOk(kn2, w, u2)
<1> USE DEF Raised
<1>1. PICK a, r : a = AnchorLoad(v, k) /\ r = w.anchor
  OBVIOUS
<1>2. /\ a \in Anchors /\ r \in Anchors /\ r.dek = k
      /\ \A y \in Uuids : a.committed[y] \in {0, v.anchor.committed[y]} /\ a.floor[y] \in {0, v.anchor.floor[y]}
      /\ r.committed[x] = IF a.committed[x] >= c THEN a.committed[x] ELSE c
      /\ r.floor[x] = IF a.floor[x] >= f THEN a.floor[x] ELSE f
      /\ \A y \in Uuids : y # x => r.committed[y] = a.committed[y] /\ r.floor[y] = a.floor[y]
  <2>1. /\ a \in Anchors
        /\ \A y \in Uuids : /\ a.committed[y] \in {0, v.anchor.committed[y]}
                            /\ a.floor[y] \in {0, v.anchor.floor[y]}
    BY <1>1, AnchorFacts
  <2>2. r = AnchorRecord(v, k, x, c, f) /\ a = AnchorLoad(v, k)
    BY <1>1
  <2>3. /\ r \in Anchors /\ r.dek = k
        /\ r.committed[x] = IF a.committed[x] >= c THEN a.committed[x] ELSE c
        /\ r.floor[x] = IF a.floor[x] >= f THEN a.floor[x] ELSE f
        /\ \A y \in Uuids : y # x => r.committed[y] = a.committed[y] /\ r.floor[y] = a.floor[y]
    BY ONLY v.anchor \in Anchors, k \in Keys, x \in Uuids, c \in Nat, f \in Nat, <2>2, RecordFacts
  <2> QED BY <2>1, <2>3
<1>3. \A y \in Uuids : /\ a.committed[y] \in Nat /\ a.floor[y] \in Nat /\ kn.seen[y] \in Nat
                       /\ kn.attested[y] \in Nat /\ v.anchor.committed[y] \in Nat /\ v.anchor.floor[y] \in Nat
  BY <1>2 DEF Anchors, KnownOk
<1>4. ASSUME NEW y \in Uuids, y > u2 PROVE kn2.seen[y] = 0 /\ kn2.attested[y] = 0
  <2>1. y # x /\ y > u
    BY <1>4, Numerals
  <2> QED BY <2>1 DEF KnownOk
<1>5. ASSUME NEW y \in Uuids
      PROVE  /\ r.committed[y] <= kn2.seen[y] \/ r.committed[y] <= kn2.attested[y]
             /\ r.floor[y] <= kn2.attested[y]
  <2>1. /\ v.anchor.committed[y] <= kn.seen[y] \/ v.anchor.committed[y] <= kn.attested[y]
        /\ v.anchor.floor[y] <= kn.attested[y]
    BY DEF KnownOk
  <2>2. CASE y # x
    BY <1>2, <1>3, <2>1, <2>2
  <2>3. CASE y = x
    BY <1>2, <1>3, <2>1, <2>3
  <2> QED BY <2>2, <2>3
<1>6. ASSUME NEW q \in Keys, kn2.deks \subseteq {q}, NEW y \in Uuids
      PROVE  kn2.seen[y] <= AnchorLoad(w, q).committed[y] /\ kn2.attested[y] <= AnchorLoad(w, q).floor[y]
  <2>1. q = k /\ kn.deks \subseteq {k}
    BY <1>6
  <2>2. AnchorLoad(w, q) = r
    BY <1>1, <1>2, <2>1 DEF AnchorLoad
  <2>3. kn.seen[y] <= a.committed[y] /\ kn.attested[y] <= a.floor[y]
    BY <1>1, <2>1 DEF KnownOk
  <2>4. CASE y # x
    BY <1>2, <1>3, <2>2, <2>3, <2>4
  <2>5. CASE y = x
    BY <1>2, <1>3, <2>2, <2>3, <2>5
  <2> QED BY <2>4, <2>5
<1>7. kn2.deks \subseteq 0 .. MaxEnrolls
  BY Numerals DEF KnownOk
<1> QED BY <1>1, <1>4, <1>5, <1>6, <1>7 DEF KnownOk

\* A key that is used is known; nothing else changes.
LEMMA KnownUse ==
    ASSUME NEW v, NEW w, NEW kn, NEW kn2, NEW u, KnownOk(kn, v, u), NEW k \in Keys,
           w.anchor = v.anchor, kn2.deks = kn.deks \cup {k}, kn2.seen = kn.seen,
           kn2.attested = kn.attested,
           kn2 = [deks |-> kn2.deks, seen |-> kn2.seen, attested |-> kn2.attested]
    PROVE  KnownOk(kn2, w, u)
<1>1. kn2.deks \subseteq 0 .. MaxEnrolls
  BY Numerals DEF KnownOk
<1>2. \A q : AnchorLoad(w, q) = AnchorLoad(v, q)
  BY DEF AnchorLoad
<1> QED BY <1>1, <1>2 DEF KnownOk

\* What session_open yields: the key of the stored envelope, and the marks
\* of the token, when there is one, in the anchor.
LEMMA SessionT ==
    ASSUME NEW v, v.env \in Envs, NEW s, NEW r, r = SessionOpen(v, s), ~IsRefused(r)
    PROVE  /\ v.env # NoEnv /\ v.env \in KeyEnvs(r.dek) /\ r.dek \in Keys /\ v.env.mac.key = r.dek
           /\ v.epoch = NoToken => r.anchor = v.anchor
           /\ v.epoch # NoToken => /\ v.epoch.dek = r.dek
                                   /\ r.anchor = AnchorRecord(v, r.dek, v.epoch.uuid, v.epoch.gen, v.epoch.gen)
<1>1. PICK key : key = OpenWith(v.env, s)
  OBVIOUS
<1>2. ~IsRefused(key) /\ v.env # NoEnv
  BY <1>1, ImageFacts DEF SessionOpen
<1>3. key.dek = v.env.mac.key /\ key.dek \in Keys /\ v.env \in KeyEnvs(key.dek)
  BY <1>1, <1>2, OpenedT, ImageFacts
<1>4. CASE v.epoch = NoToken
  <2>1. r = [dek |-> key.dek, anchor |-> v.anchor, ok |-> TRUE]
    BY <1>1, <1>2, <1>4, ImageFacts DEF SessionOpen
  <2> QED BY <1>2, <1>3, <1>4, <2>1
<1>5. CASE v.epoch # NoToken
  <2>1. v.epoch.dek = key.dek
        /\ r = [dek |-> key.dek, ok |-> CheckFresh(v.env, v.epoch.env),
                anchor |-> AnchorRecord(v, key.dek, v.epoch.uuid, v.epoch.gen, v.epoch.gen)]
    BY <1>1, <1>2, <1>5, ImageFacts DEF SessionOpen
  <2> QED BY <1>2, <1>3, <1>5, <2>1
<1> QED BY <1>4, <1>5

\* A step of one device that leaves its pool, its entries and the bundles
\* alone, and no call is under way.
LEMMA AnchorStep ==
    ASSUME Inv, NEW d \in Devices, job = Idle, UNCHANGED <<job, air, base, images>>,
           n' \in Counters, n'.uuids = n.uuids, n'.writes = n.writes, NEW a \in Anchors,
           dev' = [dev EXCEPT ![d].anchor = a],
           sess' = [sess EXCEPT ![d] = sess'[d]], known' = [known EXCEPT ![d] = known'[d]],
           SessOk(sess'[d], dev[d], known'[d]), KnownOk(known'[d], dev'[d], n.uuids)
    PROVE  Inv'
<1>1. PICK v, w : v = dev[d] /\ w = dev'[d]
  OBVIOUS
<1>2. DevOk(v, images, n.uuids)
  BY <1>1, At
<1>3. /\ dev' = [dev EXCEPT ![d] = w] /\ Shaped(w) /\ w.anchor = a
      /\ w.env = v.env /\ w.floor = v.floor /\ w.epoch = v.epoch /\ w.cred = v.cred
      /\ w.key = v.key /\ w.wrap = v.wrap /\ w.main = v.main /\ w.mani = v.mani /\ w.hot = v.hot
  <2>1. dev = [e \in Devices |-> dev[e]] /\ Shaped(v)
    BY <1>2, At DEF DevOk
  <2> QED BY <1>1, <2>1 DEF Shaped
<1>4. DevOk(w, images, n.uuids)
  BY <1>2, <1>3 DEF DevOk, EntriesOk
<1>5. SessOk(sess'[d], w, known'[d]) /\ BaseOk(base[d], w, air)
  <2>1. BaseOk(base[d], v, air)
    BY <1>1, At
  <2> QED BY <1>1, <1>3, <2>1 DEF SessOk, BaseOk
<1>6. TheJobOk'
  BY DEF TheJobOk, JobOk
<1>7. n' \in Counters /\ n.uuids <= n'.uuids /\ images \subseteq images' /\ air \subseteq air'
      /\ \A c \in air' : c \in air \/ BundleOk(c, images', n'.uuids)
  BY At
<1>8. /\ DevOk(dev'[d], images', n'.uuids) /\ SessOk(sess'[d], dev'[d], known'[d])
      /\ KnownOk(known'[d], dev'[d], n'.uuids) /\ BaseOk(base'[d], dev'[d], air')
      /\ dev' = [dev EXCEPT ![d] = dev'[d]] /\ base' = [base EXCEPT ![d] = base'[d]]
  BY <1>1, <1>3, <1>4, <1>5, At
<1>9. StillBegun(d)
  BY <1>1, <1>3, FilesSame
<1> QED BY <1>6, <1>7, <1>8, <1>9, Elsewhere

LEMMA UnlockInv ==
    ASSUME Inv, NEW d \in Devices, Unlock(d)
    PROVE  Inv'
<1>1. PICK s : LET r == SessionOpen(dev[d], s)
                   e == dev[d].epoch
               IN  /\ ~IsRefused(r)
                   /\ dev' = [dev EXCEPT ![d].anchor = r.anchor]
                   /\ sess' = [sess EXCEPT ![d] = IF r.ok THEN [NoSession EXCEPT !.dek = r.dek]
                                                  ELSE NoSession]
                   /\ known' = [known EXCEPT ![d].deks = @ \cup {r.dek},
                                  ![d].attested = [x \in Uuids |->
                                        IF x = e.uuid THEN Max({@[x], e.gen}) ELSE @[x]]]
  BY DEF Unlock
<1>2. PICK v, kn, r : v = dev[d] /\ kn = known[d] /\ r = SessionOpen(v, s)
  OBVIOUS
<1>3. PICK e : e = v.epoch
  OBVIOUS
<1>4. job = Idle /\ n' = [n EXCEPT !.calls = @ + 1] /\ UNCHANGED <<job, air, base, images>>
  BY DEF Unlock
<1>5. DevOk(v, images, n.uuids) /\ KnownOk(kn, v, n.uuids) /\ v.env \in Envs /\ e \in Tokens(n.uuids)
      /\ v.anchor \in Anchors /\ n.uuids \in Nat /\ n.uuids <= MaxUuids
  BY <1>2, <1>3, At DEF DevOk, EntriesOk
<1>6. /\ ~IsRefused(r) /\ dev' = [dev EXCEPT ![d].anchor = r.anchor]
      /\ sess' = [sess EXCEPT ![d] = IF r.ok THEN [NoSession EXCEPT !.dek = r.dek] ELSE NoSession]
      /\ known' = [known EXCEPT ![d].deks = @ \cup {r.dek},
                     ![d].attested = [x \in Uuids |-> IF x = e.uuid THEN Max({@[x], e.gen}) ELSE @[x]]]
  BY <1>1, <1>2, <1>3
<1>7. /\ v.env \in KeyEnvs(r.dek) /\ r.dek \in Keys /\ v.env.mac.key = r.dek
      /\ e = NoToken => r.anchor = v.anchor
      /\ e # NoToken => r.anchor = AnchorRecord(v, r.dek, e.uuid, e.gen, e.gen)
  <2>1. /\ v.env \in Envs /\ r = SessionOpen(v, s) /\ ~IsRefused(r)
    BY <1>2, <1>5, <1>6
  <2>2. /\ v.env \in KeyEnvs(r.dek) /\ r.dek \in Keys /\ v.env.mac.key = r.dek
        /\ v.epoch = NoToken => r.anchor = v.anchor
        /\ v.epoch # NoToken => r.anchor = AnchorRecord(v, r.dek, v.epoch.uuid, v.epoch.gen, v.epoch.gen)
    BY ONLY <2>1, SessionT
  <2> QED BY <1>3, <2>2
<1>8. e # NoToken => e.uuid \in Uuids /\ e.uuid <= n.uuids /\ e.gen \in Nat
  <2>1. e # NoToken => e.uuid \in 1 .. n.uuids /\ e.gen \in Nat
    BY <1>5 DEF Tokens
  <2> QED BY <1>5, <2>1, TransferAssumption DEF Uuids
<1>9. PICK kn2, w : kn2 = known'[d] /\ w = dev'[d]
  OBVIOUS
<1>10. w.anchor = r.anchor
  <2>1. dev = [x \in Devices |-> dev[x]] /\ Shaped(v)
    BY <1>5, At DEF DevOk
  <2> QED BY <1>2, <1>6, <1>9, <2>1 DEF Shaped
<1>11. /\ known' = [known EXCEPT ![d] = kn2]
       /\ kn2 = [deks |-> kn2.deks, seen |-> kn2.seen, attested |-> kn2.attested]
       /\ kn2.deks = kn.deks \cup {r.dek} /\ kn2.seen = kn.seen
       /\ kn2.attested = [x \in Uuids |-> IF x = e.uuid THEN Max({kn.attested[x], e.gen})
                                          ELSE kn.attested[x]]
  <2>1. known = [x \in Devices |-> known[x]]
        /\ kn = [deks |-> kn.deks, seen |-> kn.seen, attested |-> kn.attested]
    BY <1>5, At DEF KnownOk
  <2>2. PICK D, A : /\ D = kn.deks \cup {r.dek}
                    /\ A = [x \in Uuids |-> IF x = e.uuid THEN Max({kn.attested[x], e.gen})
                                            ELSE kn.attested[x]]
    OBVIOUS
  <2>3. known' = [known EXCEPT ![d].deks = D, ![d].attested = A]
    BY <1>2, <1>6, <2>1, <2>2
  <2> QED BY <1>2, <1>9, <2>1, <2>2, <2>3
<1>12. /\ kn.seen \in [Uuids -> Nat] /\ kn.attested \in [Uuids -> Nat]
  BY <1>5 DEF KnownOk
<1>13. KnownOk(kn2, w, n.uuids) /\ r.anchor \in Anchors
  <2>1. CASE e = NoToken
    <3>1. e.uuid \notin Uuids
      BY <2>1 DEF NoToken, Uuids
    <3>2. kn2.attested = kn.attested
      <4>1. \A x \in Uuids : x # e.uuid
        BY <3>1
      <4> QED BY <1>11, <1>12, <4>1
    <3> QED BY <1>5, <1>7, <1>10, <1>11, <2>1, <3>2, KnownUse
  <2>2. CASE e # NoToken
    <3>1. PICK x, c : x = e.uuid /\ c = e.gen
      OBVIOUS
    <3>2. x \in Uuids /\ x <= n.uuids /\ c \in Nat /\ kn.attested[x] \in Nat
      BY <1>8, <1>12, <2>2, <3>1
    <3>3. Max({kn.attested[x], c}) = IF kn.attested[x] >= c THEN kn.attested[x] ELSE c
      BY <3>2, MaxFacts
    <3>4. PICK m : m = Max({kn.attested[x], c})
      OBVIOUS
    <3>5. kn2.attested = [y \in Uuids |-> IF y = x THEN m ELSE kn.attested[y]] /\ m \in Nat
          /\ m = IF kn.attested[x] >= c THEN kn.attested[x] ELSE c
      BY <1>11, <1>12, <2>2, <3>1, <3>2, <3>3, <3>4
    <3>6. /\ kn2.seen \in [Uuids -> Nat] /\ kn2.attested \in [Uuids -> Nat]
          /\ \A y \in Uuids : y # x => kn2.seen[y] = kn.seen[y] /\ kn2.attested[y] = kn.attested[y]
          /\ kn2.seen[x] = kn.seen[x]
          /\ kn2.attested[x] = IF kn.attested[x] >= c THEN kn.attested[x] ELSE c
      BY <1>11, <1>12, <3>2, <3>5
    <3>7. w.anchor = AnchorRecord(v, r.dek, x, c, c) /\ r.dek \in kn2.deks
      BY <1>7, <1>10, <1>11, <2>2, <3>1
    <3>8. KnownOk(kn2, w, n.uuids)
      <4>1. Raised(kn, kn2, r.dek, x, c, c)
        BY <1>11, <3>6 DEF Raised
      <4>2. n.uuids \in Nat /\ n.uuids <= n.uuids
        BY <1>5
      <4> QED BY <1>5, <1>7, <3>2, <3>7, <4>1, <4>2, KnownRecord
    <3>9. r.anchor \in Anchors
      BY <1>5, <1>7, <1>10, <3>2, <3>7, RecordFacts
    <3> QED BY <3>8, <3>9
  <2> QED BY <2>1, <2>2
<1>14. SessOk(sess'[d], v, kn2) /\ sess' = [sess EXCEPT ![d] = sess'[d]]
  <2>1. sess' = [sess EXCEPT ![d] = sess'[d]]
        /\ sess'[d] = IF r.ok THEN [NoSession EXCEPT !.dek = r.dek] ELSE NoSession
    BY <1>6, At
  <2>2. CASE sess'[d] = NoSession
    BY <2>1, <2>2, NoSessionOk
  <2>3. CASE sess'[d] = [NoSession EXCEPT !.dek = r.dek]
    <3>1. /\ sess'[d].dek = r.dek /\ sess'[d].served = [db \in Dbs |-> Closed]
          /\ sess'[d] = [dek |-> sess'[d].dek, served |-> sess'[d].served]
      BY <2>3, IdleFacts
    <3>2. r.dek \in 0 .. MaxEnrolls
      BY <1>7, Numerals
    <3> QED BY <1>7, <1>11, <2>1, <3>1, <3>2 DEF SessOk
  <2> QED BY <2>1, <2>2, <2>3
<1>15. n' \in Counters /\ n'.uuids = n.uuids /\ n'.writes = n.writes
  BY <1>4, At, CountsCall
<1>16. /\ SessOk(sess'[d], dev[d], known'[d]) /\ KnownOk(known'[d], dev'[d], n.uuids)
       /\ known' = [known EXCEPT ![d] = known'[d]]
  BY <1>2, <1>9, <1>11, <1>13, <1>14
<1> QED BY <1>4, <1>6, <1>13, <1>14, <1>15, <1>16, AnchorStep

-----------------------------------------------------------------------------
(* Statements. *)

\* Device d serves image i of database db, whose files are now m and o and
\* whose journal is h, and has seen the image's generation.
ServeAct(d, db, v, k, m, o, h, w, i) ==
    /\ UNCHANGED <<job, air>> /\ job = Idle /\ v = dev[d] /\ k = sess[d].dek /\ k # NoDek
    /\ n' \in Counters /\ n.uuids <= n'.uuids /\ images \subseteq images'
    /\ n.writes <= n'.writes /\ Begun(m, o, n'.writes)
    /\ DbOk(m, o, h, images', n'.uuids) /\ o.is = "file" /\ o.dek = k
    /\ \A e \in Dbs : (e # db /\ v.mani[e].is = "file") => v.mani[e].uuid # o.uuid
    /\ dev' = [dev EXCEPT ![d] = w] /\ Shaped(w)
    /\ w.env = v.env /\ w.floor = v.floor /\ w.epoch = v.epoch /\ w.cred = v.cred /\ w.key = v.key
    /\ w.wrap = v.wrap
    /\ w.main = [v.main EXCEPT ![db] = m] /\ w.mani = [v.mani EXCEPT ![db] = o]
    /\ w.hot = [v.hot EXCEPT ![db] = h]
    /\ w.anchor = AnchorRecord(v, k, o.uuid, o.gen, 0)
    /\ Serves(i, m, o, h, k)
    /\ sess' = [sess EXCEPT ![d].served[db] = i]
    /\ known' = Sees(d, o.uuid, o.gen)
    /\ base' = [base EXCEPT ![d] = base'[d]] /\ BaseOk(base'[d], w, air)

LEMMA ServeStep ==
    ASSUME Inv, NEW d \in Devices, NEW db \in Dbs, NEW v, NEW k, NEW m, NEW o, NEW h,
           NEW w, NEW i, ServeAct(d, db, v, k, m, o, h, w, i)
    PROVE  Inv'
<1> USE DEF ServeAct
<1>1. /\ DevOk(v, images, n.uuids) /\ SessOk(sess[d], v, known[d])
      /\ KnownOk(known[d], v, n.uuids) /\ n.uuids \in Nat /\ n'.uuids \in Nat /\ n'.uuids <= MaxUuids
      /\ dev = [e \in Devices |-> dev[e]] /\ sess = [e \in Devices |-> sess[e]]
      /\ known = [e \in Devices |-> known[e]]
  <2>1. n'.uuids \in Nat /\ n'.uuids <= MaxUuids
    BY TransferAssumption DEF Counters
  <2> QED BY <2>1, At
<1>2. dev'[d] = w
  BY <1>1
<1>3. k \in Keys /\ k \in known[d].deks /\ (v.env = NoEnv \/ v.env.mac.key = k)
  BY <1>1, Numerals DEF SessOk
<1>4. o.uuid \in 1 .. n'.uuids /\ o.uuid \in Uuids /\ o.gen \in Nat
  <2>1. o.uuid \in 1 .. n'.uuids /\ o.gen \in Nat
    BY FileKinds DEF DbOk
  <2> QED BY <1>1, <2>1, TransferAssumption DEF Uuids
<1>5. v.anchor \in Anchors /\ w.anchor \in Anchors
  <2>1. v.anchor \in Anchors /\ 0 \in Nat
    BY <1>1 DEF DevOk
  <2>2. PICK a : a = AnchorLoad(v, k)
    OBVIOUS
  <2> QED BY <1>3, <1>4, <2>1, <2>2, RecordFacts
<1>6. DevOk(w, images', n'.uuids)
  <2>1. DevOk(v, images', n'.uuids)
    BY <1>1, DevGrows
  <2>2. EntriesOk(w, n'.uuids)
    BY <2>1 DEF DevOk, EntriesOk
  <2> QED BY <1>5, <2>1, <2>2, DevWrite
<1>7. /\ known' = [known EXCEPT ![d] = known'[d]]
      /\ KnownOk(known'[d], w, n'.uuids) /\ known'[d].deks = known[d].deks
  <2>1. PICK kn, x, c : kn = known[d] /\ x = o.uuid /\ c = o.gen
    OBVIOUS
  <2>2. /\ kn = [deks |-> kn.deks, seen |-> kn.seen, attested |-> kn.attested]
        /\ kn.seen \in [Uuids -> Nat] /\ kn.attested \in [Uuids -> Nat] /\ kn.seen[x] \in Nat
    BY <1>1, <1>4, <2>1 DEF KnownOk
  <2>3. PICK g : g = Max({kn.seen[x], c})
    OBVIOUS
  <2>4. g \in Nat /\ g = IF kn.seen[x] >= c THEN kn.seen[x] ELSE c
    <3>1. PICK p : p = kn.seen[x]
      OBVIOUS
    <3>2. p \in Nat /\ c \in Nat
      BY <1>4, <2>1, <2>2, <3>1
    <3>3. Max({p, c}) = IF p >= c THEN p ELSE c
      BY <3>2, MaxFacts
    <3> QED BY <2>3, <3>1, <3>2, <3>3
  <2>5. known' = [known EXCEPT ![d].seen[x] = g]
    BY <1>1, <2>1, <2>2, <2>3 DEF Sees
  <2>6. PICK kn2 : kn2 = known'[d]
    OBVIOUS
  <2>7. /\ known' = [known EXCEPT ![d] = kn2] /\ kn2.deks = kn.deks /\ kn2.attested = kn.attested
        /\ kn2.seen = [kn.seen EXCEPT ![x] = g]
        /\ kn2 = [deks |-> kn2.deks, seen |-> kn2.seen, attested |-> kn2.attested]
    BY <1>1, <2>1, <2>2, <2>5, <2>6
  <2>8. Raised(kn, kn2, k, x, c, 0)
    BY <1>3, <1>4, <2>1, <2>2, <2>4, <2>7 DEF Raised
  <2>9. KnownOk(kn2, w, n'.uuids)
    <3>1. /\ KnownOk(kn, v, n.uuids) /\ x \in Uuids /\ x <= n'.uuids /\ c \in Nat /\ 0 \in Nat
          /\ w.anchor = AnchorRecord(v, k, x, c, 0)
      BY <1>1, <1>4, <2>1
    <3> QED BY <1>1, <1>3, <1>5, <2>8, <3>1, KnownRecord
  <2> QED BY <2>1, <2>6, <2>7, <2>9
<1>8. SessOk(sess'[d], w, known'[d]) /\ sess' = [sess EXCEPT ![d] = sess'[d]]
  <2>1. PICK s, t : s = sess[d] /\ t = sess'[d]
    OBVIOUS
  <2>2. s = [dek |-> s.dek, served |-> s.served] /\ s.served = [e \in Dbs |-> s.served[e]]
    BY <1>1, <2>1 DEF SessOk
  <2>3. /\ t = [dek |-> t.dek, served |-> t.served] /\ t.dek = k /\ t.served = [s.served EXCEPT ![db] = i]
        /\ sess' = [sess EXCEPT ![d] = t]
    BY <1>1, <2>1, <2>2
  <2>4. /\ t.served = [e \in Dbs |-> t.served[e]] /\ t.served[db] = i
        /\ \A e \in Dbs : e # db => t.served[e] = s.served[e]
    BY <2>2, <2>3
  <2>5. PoolOk(v.main, v.mani, v.hot, images, n.uuids)
    BY <1>1 DEF DevOk
  <2>6. /\ w.main[db] = m /\ w.mani[db] = o /\ w.hot[db] = h
        /\ \A e \in Dbs : e # db => /\ w.main[e] = v.main[e] /\ w.mani[e] = v.mani[e]
                                    /\ w.hot[e] = v.hot[e]
    BY <2>5 DEF PoolOk
  <2>7. ASSUME NEW e \in Dbs, t.served[e] # Closed
        PROVE  Serves(t.served[e], w.main[e], w.mani[e], w.hot[e], k)
    <3>1. CASE e = db
      BY <2>4, <2>6, <3>1
    <3>2. CASE e # db
      <4>1. Serves(s.served[e], v.main[e], v.mani[e], v.hot[e], k)
        BY <1>1, <2>1, <2>4, <2>7, <3>2 DEF SessOk
      <4> QED BY <2>4, <2>6, <3>2, <4>1
    <3> QED BY <3>1, <3>2
  <2>8. k \in 0 .. MaxEnrolls /\ k # NoDek
    BY <1>3, Numerals
  <2>9. SessOk(t, w, known'[d])
    BY <1>3, <1>7, <2>3, <2>4, <2>7, <2>8 DEF SessOk
  <2> QED BY <2>1, <2>3, <2>9
<1>9. TheJobOk'
  BY DEF TheJobOk, JobOk
<1>10. \A c \in air' : c \in air \/ BundleOk(c, images', n'.uuids)
  OBVIOUS
<1>11. /\ DevOk(dev'[d], images', n'.uuids) /\ SessOk(sess'[d], dev'[d], known'[d])
       /\ KnownOk(known'[d], dev'[d], n'.uuids) /\ BaseOk(base'[d], dev'[d], air')
       /\ dev' = [dev EXCEPT ![d] = dev'[d]] /\ air \subseteq air'
  BY <1>2, <1>6, <1>7, <1>8
<1>12. StillBegun(d)
  BY <1>2, FilesWrite
<1> QED BY <1>7, <1>8, <1>9, <1>10, <1>11, <1>12, Elsewhere

\* A served database has a readable manifest.
LEMMA ServedFacts ==
    ASSUME Inv, NEW d \in Devices, NEW db \in Dbs, sess[d].served[db] # Closed,
           NEW v, v = dev[d], NEW k, k = sess[d].dek
    PROVE  /\ k # NoDek /\ k \in Keys /\ Serves(sess[d].served[db], v.main[db], v.mani[db], v.hot[db], k)
           /\ DbOk(v.main[db], v.mani[db], v.hot[db], images, n.uuids)
           /\ v.mani[db].is = "file" /\ v.mani[db].uuid \in 1 .. n.uuids /\ v.mani[db].uuid \in Uuids
           /\ v.mani[db].gen \in Nat /\ v.mani[db].root \in Roots /\ v.mani[db].dek = k
<1>1. DevOk(v, images, n.uuids) /\ SessOk(sess[d], v, known[d]) /\ n.uuids \in Nat /\ n.uuids <= MaxUuids
  BY At
<1>2. k # NoDek /\ k \in Keys /\ Serves(sess[d].served[db], v.main[db], v.mani[db], v.hot[db], k)
  BY <1>1, Numerals DEF SessOk
<1>3. DbOk(v.main[db], v.mani[db], v.hot[db], images, n.uuids) /\ v.mani[db] \in Manis(n.uuids)
  BY <1>1 DEF DevOk, PoolOk, DbOk
<1>4. v.mani[db].is = "file" /\ v.mani[db].dek = k
  BY <1>2 DEF Serves
<1>5. v.mani[db].uuid \in 1 .. n.uuids /\ v.mani[db].gen \in Nat /\ v.mani[db].root \in Roots
  BY <1>3, <1>4, FileKinds
<1>6. v.mani[db].uuid \in Uuids
  BY <1>1, <1>5, TransferAssumption DEF Uuids
<1> QED BY <1>2, <1>3, <1>4, <1>5, <1>6

LEMMA SqlCommitInv ==
    ASSUME Inv, NEW d \in Devices, NEW db \in Dbs, SqlCommit(d, db)
    PROVE  Inv'
<1>1. PICK v, k, old, val : v = dev[d] /\ k = sess[d].dek /\ old = v.mani[db] /\ val = n.writes + 1
  OBVIOUS
<1>2. PICK m, o, i, a : /\ m = Main(k, old.uuid, val)
                        /\ o = Manifest(k, old.uuid, old.gen + 1, val, old.root)
                        /\ i = Image(old.uuid, old.gen + 1, val)
                        /\ a = AnchorRecord(v, k, old.uuid, old.gen + 1, 0)
  OBVIOUS
<1>3. /\ job = Idle /\ sess[d].served[db] # Closed /\ v.hot[db] = Cold /\ n.writes < MaxWrites
      /\ dev' = [dev EXCEPT ![d].main[db] = m, ![d].mani[db] = o, ![d].anchor = a]
      /\ sess' = [sess EXCEPT ![d].served[db] = i] /\ images' = images \cup {i}
      /\ known' = Sees(d, i.uuid, i.gen)
      /\ n' = [n EXCEPT !.writes = @ + 1] /\ base' = [base EXCEPT ![d] = NoBundle]
      /\ UNCHANGED <<job, air>>
  BY <1>1, <1>2 DEF SqlCommit
<1>4. /\ k # NoDek /\ k \in Keys /\ old.uuid \in 1 .. n.uuids /\ old.gen \in Nat /\ old.root \in Roots
      /\ old.is = "file" /\ DbOk(v.main[db], old, v.hot[db], images, n.uuids)
  BY <1>1, <1>3, ServedFacts
<1>5. DevOk(v, images, n.uuids) /\ n \in Counters /\ n.uuids \in Nat /\ n.uuids <= MaxUuids
      /\ dev = [e \in Devices |-> dev[e]]
  BY <1>1, At
<1>6. val \in Contents /\ val \in Roots /\ val \in 1 .. MaxWrites /\ val # Void
      /\ n.writes \in Nat /\ val <= val
  <2>1. n.writes \in 0 .. MaxWrites
    BY <1>5 DEF Counters, Contents
  <2> QED BY <1>1, <1>3, <2>1, TransferAssumption DEF Contents, Roots, Void
<1>7. n' \in Counters /\ n'.uuids = n.uuids /\ n'.writes = val /\ n.writes <= n'.writes
  <2>1. n' = [n EXCEPT !.writes = val] /\ n.writes <= val
    BY <1>1, <1>3, <1>6
  <2> QED BY <1>5, <1>6, <2>1 DEF Counters
<1>8. /\ m \in Mains(n.uuids) /\ m.is = "file" /\ m.val = val
      /\ o \in Manis(n.uuids) /\ o.is = "file" /\ o.dek = k /\ o.uuid = old.uuid
      /\ o.gen = old.gen + 1 /\ o.root = val /\ o.prev = old.root
  <2>1. old.gen + 1 \in Nat
    BY <1>4
  <2> QED BY <1>2, <1>4, <1>5, <1>6, <2>1, NewFiles
<1>9. i = Image(o.uuid, o.gen, i.val) /\ i.val = val /\ i.uuid = o.uuid /\ i.gen = o.gen
  BY <1>2, <1>8, ImageFacts
<1>10. DbOk(m, o, Cold, images', n'.uuids)
  <2>1. Vouched(m, o, Cold, images')
    BY <1>3, <1>8, <1>9 DEF Vouched
  <2> QED BY <1>7, <1>8, <2>1 DEF DbOk
<1>11. PoolOk(v.main, v.mani, v.hot, images, n.uuids)
  BY <1>5 DEF DevOk
<1>12. \A e \in Dbs : (e # db /\ v.mani[e].is = "file") => v.mani[e].uuid # o.uuid
  BY <1>1, <1>4, <1>8, <1>11 DEF PoolOk
<1>13. PICK w : w = dev'[d]
  OBVIOUS
<1>14. /\ dev' = [dev EXCEPT ![d] = w] /\ Shaped(w)
       /\ w.env = v.env /\ w.floor = v.floor /\ w.epoch = v.epoch /\ w.cred = v.cred
       /\ w.key = v.key /\ w.wrap = v.wrap
       /\ w.main = [v.main EXCEPT ![db] = m] /\ w.mani = [v.mani EXCEPT ![db] = o]
       /\ w.hot = v.hot /\ w.anchor = a
  <2>1. Shaped(v)
    BY <1>5 DEF DevOk
  <2> QED BY <1>1, <1>3, <1>5, <1>13, <2>1 DEF Shaped
<1>15. w.hot = [v.hot EXCEPT ![db] = Cold]
  BY <1>3, <1>11, <1>14 DEF PoolOk
<1>16. base' = [base EXCEPT ![d] = base'[d]] /\ BaseOk(base'[d], w, air)
  <2>1. base' = [base EXCEPT ![d] = base'[d]] /\ base'[d] = NoBundle
    BY <1>3, At
  <2> QED BY <2>1 DEF BaseOk
<1>17. /\ sess[d].dek # NoDek /\ n.uuids <= n'.uuids /\ images \subseteq images'
       /\ w.anchor = AnchorRecord(v, k, o.uuid, o.gen, 0)
       /\ Serves(i, m, o, Cold, k) /\ known' = Sees(d, o.uuid, o.gen)
  <2>1. n.uuids <= n'.uuids /\ images \subseteq images' /\ sess[d].dek # NoDek
    BY <1>1, <1>3, <1>4, <1>5, <1>7
  <2>2. w.anchor = AnchorRecord(v, k, o.uuid, o.gen, 0)
    BY <1>2, <1>8, <1>14
  <2>3. Serves(i, m, o, Cold, k) /\ known' = Sees(d, o.uuid, o.gen)
    BY <1>3, <1>8, <1>9 DEF Serves
  <2> QED BY <2>1, <2>2, <2>3
<1>18. Begun(m, o, n'.writes)
  <2>1. Begun(v.main[db], old, n.writes)
    BY <1>1 DEF Inv, Written, PoolBegun
  <2>2. /\ old.root \in (0 .. n.writes) \cup {Hollow} /\ 0 .. n.writes \subseteq 0 .. n'.writes
        /\ val \in 0 .. n'.writes
    BY <1>1, <1>4, <1>6, <1>7, <2>1 DEF Begun
  <2> QED BY <1>6, <1>7, <1>8, <2>2 DEF Begun
<1>19. ServeAct(d, db, v, k, m, o, Cold, w, i)
  BY <1>1, <1>3, <1>4, <1>7, <1>8, <1>9, <1>10, <1>12, <1>14, <1>15, <1>16, <1>17, <1>18 DEF ServeAct
<1> QED BY <1>19, ServeStep

\* What open_main_db serves when it does not refuse: an empty database, new
\* or already known to a manifest, or what a readable manifest vouches for.
Opened(r, v, k, db) ==
    \/ /\ r = Image(0, 0, Void) /\ v.main[db] \in {Missing, Empty}
       /\ v.mani[db].is # "file" \/ v.mani[db].dek # k
    \/ /\ v.mani[db].is = "file" /\ v.mani[db].dek = k
       /\ ~(v.mani[db].gen + 1 < AnchorLoad(v, k).committed[v.mani[db].uuid])
       /\ ~(v.mani[db].gen < AnchorLoad(v, k).floor[v.mani[db].uuid])
       /\ \/ v.main[db] \in {Missing, Empty} /\ r = Image(v.mani[db].uuid, v.mani[db].gen, Void)
          \/ /\ v.main[db].is = "file" /\ v.main[db].dek = k
             /\ v.main[db].uuid = v.mani[db].uuid
             /\ r = Image(v.mani[db].uuid, v.mani[db].gen, v.main[db].val)
             /\ v.main[db].val # Void
             /\ v.hot[db] = Cold => v.main[db].val = v.mani[db].root

LEMMA OpenedDb ==
    ASSUME NEW v, NEW k \in Keys, NEW db \in Dbs, NEW img, NEW u,
           DbOk(v.main[db], v.mani[db], v.hot[db], img, u),
           NEW r, r = OpenMainDb(v, k, db), ~IsRefused(r)
    PROVE  Opened(r, v, k, db)
<1> USE DEF Opened
<1>1. PICK m, o, h : m = v.main[db] /\ o = v.mani[db] /\ h = v.hot[db]
  OBVIOUS
<1>2. PICK a : a = AnchorLoad(v, k)
  OBVIOUS
<1>3. PICK val : val = IF h = Cold THEN m.val ELSE h
  OBVIOUS
<1>4. m \in Mains(u) /\ o \in Manis(u) /\ Vouched(m, o, h, img)
  BY <1>1 DEF DbOk
<1>5. r = IF m.is \in {"missing", "empty"} /\ ~(o.is = "file" /\ o.dek = k) THEN Image(0, 0, Void)
          ELSE IF ~(o.is = "file" /\ o.dek = k) \/ o.gen + 1 < a.committed[o.uuid] \/ o.gen < a.floor[o.uuid]
               THEN Refused
          ELSE IF m.is \in {"missing", "empty"} THEN Image(o.uuid, o.gen, Void)
          ELSE IF m.is = "file" /\ m.dek = k /\ m.uuid = o.uuid
                  /\ (val = o.root \/ (o.prev # Void /\ val = o.prev))
               THEN Image(o.uuid, o.gen, m.val)
          ELSE Refused
  BY <1>1, <1>2, <1>3 DEF OpenMainDb
<1>6. m.is \in {"missing", "empty"} => m \in {Missing, Empty}
  BY <1>4, FileKinds
<1>7. CASE m.is \in {"missing", "empty"} /\ ~(o.is = "file" /\ o.dek = k)
  BY <1>1, <1>5, <1>6, <1>7
<1>8. CASE ~(m.is \in {"missing", "empty"} /\ ~(o.is = "file" /\ o.dek = k))
  <2>1. /\ o.is = "file" /\ o.dek = k
        /\ ~(o.gen + 1 < a.committed[o.uuid]) /\ ~(o.gen < a.floor[o.uuid])
    BY <1>5, <1>8, ImageFacts
  <2>2. CASE m.is \in {"missing", "empty"}
    BY <1>1, <1>2, <1>5, <1>6, <2>1, <2>2
  <2>3. CASE m.is \notin {"missing", "empty"}
    <3>1. /\ m.is = "file" /\ m.dek = k /\ m.uuid = o.uuid
          /\ val = o.root \/ (o.prev # Void /\ val = o.prev)
          /\ r = Image(o.uuid, o.gen, m.val)
      BY <1>5, <1>8, <2>1, <2>3, ImageFacts
    <3>2. m.val \in 1 .. MaxWrites /\ (m.val = o.root \/ m.val # o.prev)
      BY <1>4, <2>1, <3>1, FileKinds DEF Vouched
    <3>3. m.val # Void
      BY <3>2, Numerals
    <3>4. h = Cold => m.val = o.root
      BY <1>3, <3>1, <3>2
    <3> QED BY <1>1, <1>2, <2>1, <2>3, <3>1, <3>3, <3>4
  <2> QED BY <2>2, <2>3
<1> QED BY <1>7, <1>8

LEMMA SqlOpenInv ==
    ASSUME Inv, NEW d \in Devices, NEW db \in Dbs, SqlOpen(d, db)
    PROVE  Inv'
<1>1. PICK v, k, u : v = dev[d] /\ k = sess[d].dek /\ u = n.uuids + 1
  OBVIOUS
<1>2. PICK r : r = OpenMainDb(v, k, db)
  OBVIOUS
<1>3. PICK i : i = IF ~IsRefused(r) /\ r.uuid = 0 THEN Image(u, 1, Void) ELSE r
  OBVIOUS
<1>4. PICK m, o, h : /\ m = IF r.val = Void THEN Empty ELSE v.main[db]
                     /\ o = IF r.uuid = 0 THEN Manifest(k, u, 1, Void, Void) ELSE v.mani[db]
                     /\ h = IF r.uuid = 0 THEN Cold ELSE v.hot[db]
  OBVIOUS
<1>5. PICK a : a = AnchorRecord(v, k, i.uuid, i.gen, 0)
  OBVIOUS
<1>6. DevOk(v, images, n.uuids) /\ n \in Counters /\ n.uuids \in Nat /\ n.uuids <= MaxUuids
      /\ dev = [e \in Devices |-> dev[e]] /\ SessOk(sess[d], v, known[d])
  BY <1>1, At
<1>7. Shaped(v) /\ PoolOk(v.main, v.mani, v.hot, images, n.uuids)
      /\ DbOk(v.main[db], v.mani[db], v.hot[db], images, n.uuids)
  BY <1>6 DEF DevOk, PoolOk
<1>8. /\ job = Idle /\ UNCHANGED <<job, air>> /\ k # NoDek /\ ~IsRefused(r)
      /\ r.uuid = 0 => n.uuids < MaxUuids
      /\ sess' = [sess EXCEPT ![d].served[db] = i]
      /\ images' = IF r.uuid = 0 THEN images \cup {i} ELSE images
      /\ known' = Sees(d, i.uuid, i.gen)
      /\ n' = IF r.uuid = 0 THEN [n EXCEPT !.uuids = @ + 1] ELSE n
      /\ base' = IF r.uuid = 0 THEN [base EXCEPT ![d] = NoBundle] ELSE base
  BY <1>1, <1>2, <1>3 DEF SqlOpen
<1>9. dev' = [dev EXCEPT
          ![d].main[db] = IF r.val = Void THEN Empty ELSE @,
          ![d].mani[db] = IF r.uuid = 0 THEN Manifest(k, u, 1, Void, Void) ELSE @,
          ![d].hot[db]  = IF r.uuid = 0 THEN Cold ELSE @,
          ![d].anchor   = a]
  BY <1>1, <1>2, <1>3, <1>5 DEF SqlOpen
<1>10. dev' = [dev EXCEPT ![d].main[db] = m, ![d].mani[db] = o, ![d].hot[db] = h, ![d].anchor = a]
  BY <1>1, <1>4, <1>9
<1>11. PICK w : w = dev'[d]
  OBVIOUS
<1>12. /\ dev' = [dev EXCEPT ![d] = w] /\ Shaped(w)
       /\ w.env = v.env /\ w.floor = v.floor /\ w.epoch = v.epoch /\ w.cred = v.cred
       /\ w.key = v.key /\ w.wrap = v.wrap
       /\ w.main = [v.main EXCEPT ![db] = m] /\ w.mani = [v.mani EXCEPT ![db] = o]
       /\ w.hot = [v.hot EXCEPT ![db] = h] /\ w.anchor = a
  <2>1. dev' = [dev EXCEPT ![d] = [v EXCEPT !.main[db] = m, !.mani[db] = o, !.hot[db] = h,
                                            !.anchor = a]]
    BY <1>1, <1>10, ZenonT(40)
  <2>2. w = [v EXCEPT !.main[db] = m, !.mani[db] = o, !.hot[db] = h, !.anchor = a]
    BY <1>6, <1>11, <2>1
  <2>3. dev' = [dev EXCEPT ![d] = w]
    BY <2>1, <2>2
  <2> QED BY <1>7, <2>2, <2>3 DEF Shaped
<1>13. k \in Keys
  BY <1>1, <1>6, <1>8, Numerals DEF SessOk
<1> HIDE DEF Counters
<1>opened. Opened(r, v, k, db)
  BY <1>2, <1>7, <1>8, <1>13, OpenedDb
<1>written. PoolBegun(v.main, v.mani, n.writes) /\ n.writes \in Nat
  <2>1. n.writes \in 0 .. MaxWrites
    BY <1>6 DEF Counters, Contents
  <2> QED BY <1>1, <2>1 DEF Inv, Written
<1>14. CASE r.uuid = 0
  <2>1. n' = [n EXCEPT !.uuids = @ + 1] /\ u \in 0 .. MaxUuids
    BY <1>1, <1>6, <1>8, <1>14, TransferAssumption
  <2>2. n' \in Counters /\ n'.uuids = u /\ n'.writes = n.writes
    BY <1>1, <1>6, <2>1 DEF Counters
  <2>3. u \in Nat /\ u \in 1 .. u /\ n.uuids <= u
    BY <1>1, <1>6
  <2>4. r.val = Void
    <3>1. v.mani[db].is = "file" => v.mani[db].uuid # 0
      <4>1. v.mani[db].is = "file" => v.mani[db].uuid \in 1 .. n.uuids
        BY <1>7, FileKinds DEF DbOk
      <4> QED BY <4>1
    <3>2. r = Image(0, 0, Void) \/ (v.mani[db].is = "file" /\ r.uuid = v.mani[db].uuid)
      BY <1>opened, ImageFacts DEF Opened
    <3> QED BY <1>14, <3>1, <3>2, ImageFacts
  <2>5. m = Empty /\ o = Manifest(k, u, 1, Void, Void) /\ i = Image(u, 1, Void) /\ h = Cold
    BY <1>3, <1>4, <1>8, <1>14, <2>4
  <2>6. /\ o \in Manis(u) /\ o.is = "file" /\ o.dek = k /\ o.uuid = u /\ o.gen = 1 /\ o.root = Void
        /\ o.prev = Void /\ m \in Mains(u) /\ m.is = "empty"
    <3>1. 1 \in Nat /\ Void \in Roots
      BY Numerals
    <3>2. /\ o \in Manis(u) /\ o.is = "file" /\ o.dek = k /\ o.uuid = u /\ o.gen = 1
          /\ o.root = Void /\ o.prev = Void
      BY <1>13, <2>3, <2>5, <3>1, NewFiles
    <3>3. m \in Mains(u) /\ m.is = "empty"
      BY <2>5, FileKinds DEF Mains, Stub
    <3> QED BY <3>2, <3>3
  <2>7. i.uuid = u /\ i.gen = 1 /\ i.val = Void
    BY <2>5, ImageFacts
  <2>8. DbOk(m, o, h, images', n'.uuids)
    <3>1. Vouched(m, o, h, images')
      BY <2>5, <2>6 DEF Vouched
    <3> QED BY <2>2, <2>5, <2>6, <3>1 DEF DbOk
  <2>9. \A e \in Dbs : (e # db /\ v.mani[e].is = "file") => v.mani[e].uuid # o.uuid
    <3>1. \A e \in Dbs : v.mani[e].is = "file" => v.mani[e].uuid \in 1 .. n.uuids
      BY <1>7, FileKinds DEF PoolOk, DbOk
    <3> QED BY <1>1, <1>6, <2>6, <3>1
  <2>10. base' = [base EXCEPT ![d] = base'[d]] /\ BaseOk(base'[d], w, air)
    <3>1. base' = [base EXCEPT ![d] = base'[d]] /\ base'[d] = NoBundle
      BY <1>8, <1>14, At
    <3> QED BY <3>1 DEF BaseOk
  <2>11. /\ w.anchor = AnchorRecord(v, k, o.uuid, o.gen, 0) /\ Serves(i, m, o, h, k)
         /\ known' = Sees(d, o.uuid, o.gen) /\ n.uuids <= n'.uuids /\ images \subseteq images'
    <3>1. Serves(i, m, o, h, k)
      BY <2>5, <2>6, <2>7 DEF Serves
    <3> QED BY <1>5, <1>8, <1>12, <2>2, <2>3, <2>5, <2>6, <2>7, <3>1
  <2>12. n.writes <= n'.writes /\ Begun(m, o, n'.writes)
    BY <1>written, <2>2, <2>6 DEF Begun, Void
  <2>13. ServeAct(d, db, v, k, m, o, h, w, i)
    BY <1>1, <1>8, <1>12, <2>2, <2>6, <2>8, <2>9, <2>10, <2>11, <2>12 DEF ServeAct
  <2> QED BY <2>13, ServeStep
<1>15. CASE r.uuid # 0
  <2>1. n' = n /\ images' = images /\ base' = base /\ i = r
    BY <1>3, <1>8, <1>15
  <2>2. o = v.mani[db] /\ o \in Manis(n.uuids) /\ h = v.hot[db]
    BY <1>4, <1>7, <1>15 DEF DbOk
  <2>3. /\ o.is = "file" /\ o.dek = k
        /\ \/ v.main[db] \in {Missing, Empty} /\ r = Image(o.uuid, o.gen, Void)
           \/ /\ v.main[db].is = "file" /\ v.main[db].dek = k /\ v.main[db].uuid = o.uuid
              /\ r = Image(o.uuid, o.gen, v.main[db].val) /\ v.main[db].val # Void
              /\ v.hot[db] = Cold => v.main[db].val = o.root
    BY <1>15, <1>opened, <2>2, ImageFacts DEF Opened
  <2>4. i.uuid = o.uuid /\ i.gen = o.gen /\ i = Image(o.uuid, o.gen, i.val)
    BY <2>1, <2>3, ImageFacts
  <2>5. /\ o.uuid \in 1 .. n.uuids /\ o.gen \in Nat
    BY <2>2, <2>3, FileKinds
  <2>6. \/ m = Empty /\ i.val = Void /\ v.main[db] \in {Missing, Empty}
        \/ /\ m = v.main[db] /\ m.is = "file" /\ i.val = m.val /\ m \in Mains(n.uuids)
           /\ h = Cold => i.val = o.root
    <3>1. v.main[db] \in Mains(n.uuids)
      BY <1>7 DEF DbOk
    <3>2. CASE r.val = Void
      BY <1>4, <2>1, <2>3, <3>2, ImageFacts
    <3>3. CASE r.val # Void
      <4>1. /\ v.main[db].is = "file" /\ r.val = v.main[db].val
            /\ v.hot[db] = Cold => v.main[db].val = o.root
        BY <2>3, <3>3, ImageFacts
      <4> QED BY <1>4, <2>1, <2>2, <3>1, <3>3, <4>1
    <3> QED BY <3>2, <3>3
  <2>7. DbOk(m, o, h, images', n'.uuids) /\ Serves(i, m, o, h, k)
    <3>1. Vouched(v.main[db], o, v.hot[db], images) /\ v.hot[db] \in Contents \cup {Cold}
      BY <1>7, <2>2 DEF DbOk
    <3>2. Empty \in Mains(n.uuids) /\ Empty.is # "file"
      BY FileKinds DEF Mains, Stub
    <3>3. m \in Mains(n.uuids) /\ (m = v.main[db] \/ m.is # "file")
      BY <2>6, <3>2
    <3>4. Vouched(m, o, h, images)
      BY <2>2, <2>3, <3>1, <3>3 DEF Vouched
    <3>5. Serves(i, m, o, h, k)
      BY <2>3, <2>4, <2>6 DEF Serves
    <3> QED BY <2>1, <2>2, <3>1, <3>3, <3>4, <3>5 DEF DbOk
  <2>8. \A e \in Dbs : (e # db /\ v.mani[e].is = "file") => v.mani[e].uuid # o.uuid
    BY <1>7, <2>2, <2>3 DEF PoolOk
  <2>9. base' = [base EXCEPT ![d] = base'[d]]
    BY <2>1, At
  <2>10. BaseOk(base[d], w, air)
    <3> SUFFICES ASSUME base[d] # NoBundle PROVE BaseOk(base[d], w, air)
      BY DEF BaseOk
    <3>1. PICK b : b = base[d]
      OBVIOUS
    <3>2. /\ b \in air /\ v.env = b.env /\ v.floor = b.env.gen /\ v.epoch = b.epoch
          /\ v.main = b.main /\ v.mani = b.mani /\ v.hot = [e \in Dbs |-> Cold]
      BY <1>1, <3>1, At DEF BaseOk
    <3>3. BundleOk(b, images, n.uuids)
      BY <3>2 DEF Inv, AirOk
    <3>4. v.main[db] # Missing
      <4>1. v.main[db] = Missing => v.mani[db] = Missing
        BY <3>2, <3>3 DEF BundleOk
      <4> QED BY <2>2, <2>3, <4>1, FileKinds
    <3>5. m = v.main[db]
      BY <2>6, <3>4
    <3>6. w.main = v.main /\ w.mani = v.mani /\ w.hot = v.hot
      <4>1. /\ v.main = [v.main EXCEPT ![db] = v.main[db]] /\ v.mani = [v.mani EXCEPT ![db] = v.mani[db]]
            /\ v.hot = [v.hot EXCEPT ![db] = v.hot[db]]
        BY <1>7, PoolAt
      <4> QED BY <1>12, <2>2, <3>5, <4>1
    <3> QED BY <1>12, <3>1, <3>2, <3>6 DEF BaseOk
  <2>11. /\ w.anchor = AnchorRecord(v, k, o.uuid, o.gen, 0) /\ known' = Sees(d, o.uuid, o.gen)
         /\ n.uuids <= n'.uuids /\ images \subseteq images' /\ n' \in Counters
         /\ BaseOk(base'[d], w, air)
    BY <1>5, <1>6, <1>8, <1>12, <2>1, <2>4, <2>10
  <2>12. n.writes <= n'.writes /\ Begun(m, o, n'.writes)
    <3>1. Begun(v.main[db], o, n.writes)
      BY <1>written, <2>2 DEF PoolBegun
    <3>2. Empty.is # "file"
      BY FileKinds
    <3> QED BY <1>written, <2>1, <2>6, <3>1, <3>2 DEF Begun
  <2>13. ServeAct(d, db, v, k, m, o, h, w, i)
    BY <1>1, <1>8, <1>12, <2>3, <2>7, <2>8, <2>9, <2>11, <2>12 DEF ServeAct
  <2> QED BY <2>13, ServeStep
<1> QED BY <1>14, <1>15

LEMMA SqlSealInv ==
    ASSUME Inv, NEW d \in Devices, NEW db \in Dbs, SqlSeal(d, db)
    PROVE  Inv'
<1>1. PICK v, k, old, m : v = dev[d] /\ k = sess[d].dek /\ old = v.mani[db] /\ m = v.main[db]
  OBVIOUS
<1>2. PICK root, val : root = (IF m = Empty THEN Hollow ELSE m.val) /\ val = sess[d].served[db].val
  OBVIOUS
<1>3. PICK o, i, a : /\ o = Manifest(k, old.uuid, old.gen + 1, root, old.root)
                     /\ i = Image(old.uuid, old.gen + 1, val)
                     /\ a = AnchorRecord(v, k, old.uuid, old.gen + 1, 0)
  OBVIOUS
<1>4. /\ job = Idle /\ sess[d].served[db] # Closed
      /\ dev' = [dev EXCEPT ![d].mani[db] = o, ![d].hot[db] = Cold, ![d].anchor = a]
      /\ sess' = [sess EXCEPT ![d].served[db] = i] /\ images' = images \cup {i}
      /\ known' = Sees(d, i.uuid, i.gen) /\ base' = [base EXCEPT ![d] = NoBundle]
      /\ UNCHANGED <<job, air, n>>
  BY <1>1, <1>2, <1>3 DEF SqlSeal
<1>5. /\ k # NoDek /\ k \in Keys /\ old.uuid \in 1 .. n.uuids /\ old.gen \in Nat /\ old.root \in Roots
      /\ old.is = "file" /\ DbOk(m, old, v.hot[db], images, n.uuids)
      /\ Serves(sess[d].served[db], m, old, v.hot[db], k)
  BY <1>1, <1>4, ServedFacts
<1>6. /\ DevOk(v, images, n.uuids) /\ n \in Counters /\ n.uuids \in Nat
      /\ dev = [e \in Devices |-> dev[e]]
  BY <1>1, At
<1>7. n.writes \in Nat /\ n' = n
  <2>1. n.writes \in 0 .. MaxWrites
    BY <1>6 DEF Counters, Contents
  <2> QED BY <1>4, <2>1
<1>8. \/ m = Empty /\ m.is # "file" /\ val = Void /\ root = Hollow
      \/ m.is = "file" /\ val = m.val /\ root = m.val /\ m.val \in 1 .. MaxWrites
  <2>1. Empty.is = "empty" /\ m \in Mains(n.uuids)
    BY <1>5, FileKinds DEF DbOk
  <2>2. m.is = "file" => m # Empty /\ m.val \in 1 .. MaxWrites
    BY <2>1, FileKinds
  <2> QED BY <1>2, <1>5, <2>1, <2>2 DEF Serves
<1>9. root \in Roots
  BY <1>8, Numerals
<1>10. /\ o \in Manis(n.uuids) /\ o.is = "file" /\ o.dek = k /\ o.uuid = old.uuid
       /\ o.gen = old.gen + 1 /\ o.root = root /\ o.prev = old.root
  <2>1. old.gen + 1 \in Nat
    BY <1>5
  <2> QED BY <1>3, <1>5, <1>6, <1>9, <2>1, NewFiles
<1>11. i = Image(o.uuid, o.gen, i.val) /\ i.val = val /\ i.uuid = o.uuid /\ i.gen = o.gen
  BY <1>3, <1>10, ImageFacts
<1>12. DbOk(m, o, Cold, images', n'.uuids)
  <2>1. m.is = "file" => Image(o.uuid, o.gen, o.root) \in images'
    BY <1>4, <1>8, <1>10, <1>11, FileKinds
  <2>2. Vouched(m, o, Cold, images')
    BY <1>8, <1>10, <2>1 DEF Vouched
  <2> QED BY <1>5, <1>7, <1>10, <2>2 DEF DbOk
<1>13. PoolOk(v.main, v.mani, v.hot, images, n.uuids)
  BY <1>6 DEF DevOk
<1>14. \A e \in Dbs : (e # db /\ v.mani[e].is = "file") => v.mani[e].uuid # o.uuid
  BY <1>1, <1>5, <1>10, <1>13 DEF PoolOk
<1>15. PICK w : w = dev'[d]
  OBVIOUS
<1>16. /\ dev' = [dev EXCEPT ![d] = w] /\ Shaped(w)
       /\ w.env = v.env /\ w.floor = v.floor /\ w.epoch = v.epoch /\ w.cred = v.cred
       /\ w.key = v.key /\ w.wrap = v.wrap
       /\ w.main = v.main /\ w.mani = [v.mani EXCEPT ![db] = o]
       /\ w.hot = [v.hot EXCEPT ![db] = Cold] /\ w.anchor = a
  <2>1. Shaped(v)
    BY <1>6 DEF DevOk
  <2> QED BY <1>1, <1>4, <1>6, <1>15, <2>1 DEF Shaped
<1>17. w.main = [v.main EXCEPT ![db] = m]
  BY <1>1, <1>13, <1>16, PoolAt
<1>18. base' = [base EXCEPT ![d] = base'[d]] /\ BaseOk(base'[d], w, air)
  <2>1. base' = [base EXCEPT ![d] = base'[d]] /\ base'[d] = NoBundle
    BY <1>4, At
  <2> QED BY <2>1 DEF BaseOk
<1>19. /\ n.uuids <= n'.uuids /\ images \subseteq images'
       /\ w.anchor = AnchorRecord(v, k, o.uuid, o.gen, 0)
       /\ Serves(i, m, o, Cold, k) /\ known' = Sees(d, o.uuid, o.gen)
  <2>1. n.uuids <= n'.uuids /\ images \subseteq images'
    BY <1>4, <1>6, <1>7
  <2>2. Serves(i, m, o, Cold, k)
    BY <1>8, <1>10, <1>11 DEF Serves
  <2> QED BY <1>3, <1>4, <1>10, <1>11, <1>16, <2>1, <2>2
<1>20. n.writes <= n'.writes /\ Begun(m, o, n'.writes)
  <2>1. Begun(m, old, n.writes)
    BY <1>1 DEF Inv, Written, PoolBegun
  <2>2. old.root \in (0 .. n.writes) \cup {Hollow} /\ (m.is = "file" => m.val <= n.writes)
    BY <1>5, <2>1 DEF Begun
  <2>3. root \in (0 .. n.writes) \cup {Hollow}
    BY <1>7, <1>8, <2>2, TransferAssumption
  <2> QED BY <1>7, <1>10, <2>2, <2>3 DEF Begun
<1>21. ServeAct(d, db, v, k, m, o, Cold, w, i)
  BY <1>1, <1>4, <1>5, <1>6, <1>7, <1>10, <1>12, <1>14, <1>16, <1>17, <1>18, <1>19, <1>20 DEF ServeAct
<1> QED BY <1>21, ServeStep

LEMMA SqlTornInv ==
    ASSUME Inv, NEW d \in Devices, NEW db \in Dbs, SqlTorn(d, db)
    PROVE  Inv'
<1>1. PICK v, k, o, i : v = dev[d] /\ k = sess[d].dek /\ o = v.mani[db] /\ i = sess[d].served[db]
  OBVIOUS
<1>2. PICK m, val : val = n.writes + 1 /\ m = Main(k, o.uuid, val)
  OBVIOUS
<1>3. /\ job = Idle /\ i # Closed /\ v.hot[db] = Cold /\ n.writes < MaxWrites
      /\ dev' = [dev EXCEPT ![d].main[db] = m, ![d].hot[db] = i.val]
      /\ sess' = [sess EXCEPT ![d] = NoSession]
      /\ n' = [n EXCEPT !.writes = @ + 1, !.crashes = @ + 1]
      /\ base' = [base EXCEPT ![d] = NoBundle] /\ UNCHANGED <<job, air, images, known>>
  BY <1>1, <1>2 DEF SqlTorn
<1>4. /\ k # NoDek /\ k \in Keys /\ o.uuid \in 1 .. n.uuids /\ o.gen \in Nat
      /\ o.is = "file" /\ Serves(i, v.main[db], o, v.hot[db], k)
      /\ DbOk(v.main[db], o, v.hot[db], images, n.uuids)
  BY <1>1, <1>3, ServedFacts
<1>5. DevOk(v, images, n.uuids) /\ n \in Counters /\ n.uuids \in Nat
      /\ dev = [e \in Devices |-> dev[e]]
  BY <1>1, At
<1>6. /\ n' \in Counters /\ n'.uuids = n.uuids /\ n'.writes = val
      /\ n.writes \in Nat /\ val \in Nat /\ n.writes <= val /\ val \in 1 .. MaxWrites
  <2>1. n.writes \in 0 .. MaxWrites /\ n.crashes \in Nat
    BY <1>5 DEF Counters, Contents
  <2>2. val \in 1 .. MaxWrites /\ n.writes \in Nat /\ val \in Nat /\ n.writes <= val
    BY <1>2, <1>3, <2>1, TransferAssumption
  <2>3. val \in Contents /\ n.crashes + 1 \in Nat
    BY <2>1, <2>2, Numerals
  <2>4. n' = [n EXCEPT !.writes = val, !.crashes = @ + 1]
    BY <1>2, <1>3
  <2> QED BY <1>5, <2>2, <2>3, <2>4 DEF Counters
<1>7. m \in Mains(n.uuids) /\ m.is = "file" /\ m.val = val
  BY <1>2, <1>4, <1>5, <1>6, NewFiles
<1>begun. /\ PoolBegun(v.main, v.mani, n.writes)
          /\ o.prev \in (0 .. n.writes) \cup {Hollow} /\ val # o.prev
          /\ Begun(m, o, n'.writes)
  <2>1. PoolBegun(v.main, v.mani, n.writes) /\ Begun(v.main[db], o, n.writes)
    BY <1>1 DEF Inv, Written, PoolBegun
  <2>2. {o.root, o.prev} \subseteq (0 .. n.writes) \cup {Hollow}
    BY <1>4, <2>1 DEF Begun
  <2>3. val \notin 0 .. n.writes /\ val # Hollow /\ 0 .. n.writes \subseteq 0 .. val /\ val <= val
    BY <1>2, <1>6, Numerals
  <2> QED BY <1>6, <1>7, <2>1, <2>2, <2>3 DEF Begun
<1>8. DbOk(m, o, i.val, images, n.uuids)
  <2>1. i.val \in {Void, o.root}
    BY <1>3, <1>4 DEF Serves
  <2>2. i.val \in Contents
    <3>1. v.main[db].is = "file" => v.main[db].val \in 1 .. MaxWrites
      BY <1>4, FileKinds DEF DbOk
    <3> QED BY <1>4, <3>1, Numerals DEF Serves
  <2> QED BY <1>4, <1>7, <1>begun, <2>1, <2>2 DEF DbOk, Vouched
<1>9. PICK w : w = dev'[d]
  OBVIOUS
<1>10. PoolOk(v.main, v.mani, v.hot, images, n.uuids) /\ Shaped(v)
  BY <1>5 DEF DevOk
<1>11. /\ dev' = [dev EXCEPT ![d] = w] /\ Shaped(w)
       /\ w.env = v.env /\ w.floor = v.floor /\ w.epoch = v.epoch /\ w.cred = v.cred
       /\ w.key = v.key /\ w.wrap = v.wrap
       /\ w.main = [v.main EXCEPT ![db] = m] /\ w.mani = v.mani
       /\ w.hot = [v.hot EXCEPT ![db] = i.val] /\ w.anchor = v.anchor
  BY <1>1, <1>3, <1>5, <1>9, <1>10 DEF Shaped
<1>12. w.mani = [v.mani EXCEPT ![db] = o]
  BY <1>1, <1>10, <1>11, PoolAt
<1>13. \A e \in Dbs : (e # db /\ o.is = "file" /\ v.mani[e].is = "file") => v.mani[e].uuid # o.uuid
  BY <1>1, <1>10 DEF PoolOk
<1>14. DevOk(w, images, n.uuids)
  <2>1. EntriesOk(w, n.uuids) /\ w.anchor \in Anchors
    BY <1>5, <1>11 DEF DevOk, EntriesOk
  <2> QED BY <1>5, <1>8, <1>11, <1>12, <1>13, <2>1, DevWrite
<1>15. /\ sess' = [sess EXCEPT ![d] = sess'[d]] /\ SessOk(sess'[d], w, known[d])
       /\ base' = [base EXCEPT ![d] = base'[d]] /\ BaseOk(base'[d], w, air)
       /\ known' = [known EXCEPT ![d] = known'[d]] /\ KnownOk(known[d], w, n.uuids)
  <2>1. sess' = [sess EXCEPT ![d] = sess'[d]] /\ sess'[d] = NoSession
    BY <1>3, At
  <2>2. base' = [base EXCEPT ![d] = base'[d]] /\ base'[d] = NoBundle
    BY <1>3, At
  <2>3. known' = [known EXCEPT ![d] = known'[d]] /\ KnownOk(known[d], v, n.uuids)
    BY <1>1, <1>3, At
  <2> QED BY <1>11, <2>1, <2>2, <2>3, NoSessionOk, KnownSame DEF BaseOk
<1>16. TheJobOk'
  BY <1>3 DEF TheJobOk, JobOk
<1>17. /\ n.uuids <= n'.uuids /\ images \subseteq images' /\ air \subseteq air'
       /\ \A c \in air' : c \in air \/ BundleOk(c, images', n'.uuids)
       /\ DevOk(dev'[d], images', n'.uuids) /\ SessOk(sess'[d], dev'[d], known'[d])
       /\ KnownOk(known'[d], dev'[d], n'.uuids) /\ BaseOk(base'[d], dev'[d], air')
       /\ dev' = [dev EXCEPT ![d] = dev'[d]]
  <2>1. w = dev'[d] /\ n'.uuids = n.uuids /\ UNCHANGED <<air, images, known>>
    BY <1>3, <1>6, <1>9
  <2> QED BY <1>5, <1>11, <1>14, <1>15, <2>1
<1>18. StillBegun(d)
  <2>1. w = dev'[d] /\ UNCHANGED air /\ n.writes <= n'.writes
    BY <1>3, <1>6, <1>9
  <2>2. /\ dev'[d].main = [dev[d].main EXCEPT ![db] = m]
        /\ dev'[d].mani = [dev[d].mani EXCEPT ![db] = o]
    BY <1>1, <1>11, <1>12, <2>1
  <2> QED BY <1>6, <1>begun, <2>1, <2>2, FilesWrite
<1> QED BY <1>6, <1>15, <1>16, <1>17, <1>18, Elsewhere

\* Device slots hold device secrets, and no other slot does.
LEMMA StripOpeners ==
    ASSUME NEW k, NEW e \in KeyEnvs(k), NEW s, s = StripKind(e, k, Device), ~IsRefused(s)
    PROVE  /\ s \in KeyEnvs(k) /\ s.gen = e.gen /\ Parses(s)
           /\ \A i \in DOMAIN s.slots : s.slots[i].kind # Device
           /\ Openers(s) = {x \in Openers(e) : x[1] # "device"}
<1>1. /\ s \in KeyEnvs(k) /\ s.gen = e.gen /\ Parses(e) /\ Parses(s)
      /\ \A i \in 1 .. Len(s.slots) : /\ s.slots[i].kind # Device
                                      /\ \E j \in 1 .. Len(e.slots) : s.slots[i] = e.slots[j]
      /\ \A j \in 1 .. Len(e.slots) : e.slots[j].kind # Device =>
            \E i \in 1 .. Len(s.slots) : s.slots[i] = e.slots[j]
  BY StripT
<1>2. DOMAIN s.slots = 1 .. Len(s.slots)
  BY <1>1, SealedFacts
<1>3. \A j \in 1 .. Len(e.slots) : e.slots[j].secret \in Secrets /\ e.slots[j].kind = KindOf(e.slots[j].secret)
  BY SealedSlots
<1>4. \A x \in Secrets : KindOf(x) # Device <=> x[1] # "device"
  BY DEF Secrets, KindOf, Passkey, Recovery, Device
<1>5. /\ Openers(s) = {s.slots[i].secret : i \in 1 .. Len(s.slots)}
      /\ Openers(e) = {e.slots[i].secret : i \in 1 .. Len(e.slots)}
  <2>1. s \in KeyEnvs(k)
    BY <1>1
  <2> QED BY <1>1, <2>1, OpensT
<1>6. ASSUME NEW x PROVE x \in Openers(s) <=> (x \in Openers(e) /\ x[1] # "device")
  <2>1. ASSUME x \in Openers(s) PROVE x \in Openers(e) /\ x[1] # "device"
    <3>1. PICK i \in 1 .. Len(s.slots) : x = s.slots[i].secret
      BY <1>5, <2>1
    <3>2. PICK j \in 1 .. Len(e.slots) : s.slots[i] = e.slots[j]
      BY <1>1
    <3> QED BY <1>1, <1>3, <1>4, <1>5, <3>1, <3>2
  <2>2. ASSUME x \in Openers(e), x[1] # "device" PROVE x \in Openers(s)
    <3>1. PICK j \in 1 .. Len(e.slots) : x = e.slots[j].secret
      BY <1>5, <2>2
    <3>2. e.slots[j].kind # Device
      BY <1>3, <1>4, <2>2, <3>1
    <3>3. PICK i \in 1 .. Len(s.slots) : s.slots[i] = e.slots[j]
      BY <1>1, <3>2
    <3> QED BY <1>5, <3>1, <3>3
  <2> QED BY <2>1, <2>2
<1> QED BY <1>1, <1>2, <1>6

LEMMA ExportBundleInv ==
    ASSUME Inv, NEW d \in Devices, ExportBundle(d)
    PROVE  Inv'
<1>1. PICK v, k, env, p : v = dev[d] /\ k = sess[d].dek /\ env = StripKind(v.env, k, Device) /\ p = Primary(v)
  OBVIOUS
<1>2. PICK mani : mani = [db \in Dbs |-> IF db \in Listed(v) THEN v.mani[db] ELSE Missing]
  OBVIOUS
<1>3. PICK served : served = [db \in Dbs |-> IF db \in Listed(v) THEN OpenMainDb(v, k, db) ELSE Absent]
  OBVIOUS
<1>4. PICK epoch, secrets : /\ epoch = [dek |-> k, uuid |-> v.mani[p].uuid, gen |-> v.mani[p].gen, env |-> env.gen]
                            /\ secrets = {s \in Openers(v.env) : s[1] # "device"}
  OBVIOUS
<1>5. PICK b : b = [env |-> env, cred |-> v.cred, main |-> v.main, mani |-> mani, epoch |-> epoch,
                    served |-> served, secrets |-> secrets]
  OBVIOUS
<1>6. /\ job = Idle /\ k # NoDek /\ v.env # NoEnv /\ Listed(v) # {} /\ ~IsRefused(env)
      /\ v.mani[p].is = "file" /\ v.mani[p].dek = k
      /\ ExportsOverJournal \/ \A db \in Dbs : v.hot[db] = Cold
      /\ air' = air \cup {b} /\ n' = [n EXCEPT !.calls = @ + 1]
      /\ UNCHANGED <<dev, sess, job, base, images, known>>
  BY <1>1, <1>2, <1>3, <1>4, <1>5 DEF ExportBundle
<1>7. DevOk(v, images, n.uuids) /\ SessOk(sess[d], v, known[d]) /\ n.uuids \in Nat
  BY <1>1, At
<1>8. /\ v.env \in Envs /\ v.cred \in 0 .. MaxEnrolls /\ PoolOk(v.main, v.mani, v.hot, images, n.uuids)
      /\ k \in Keys /\ v.env.mac.key = k
  BY <1>1, <1>6, <1>7, Numerals DEF DevOk, EntriesOk, SessOk
<1>9. v.env \in KeyEnvs(k)
  BY <1>6, <1>8, EnvFacts
<1>10. /\ env \in KeyEnvs(k) /\ env.gen \in Nat /\ \A i \in DOMAIN env.slots : env.slots[i].kind # Device
       /\ secrets = Openers(env) /\ Parses(env)
  <2>1. env \in KeyEnvs(k) /\ secrets = Openers(env) /\ Parses(env) /\ \A i \in DOMAIN env.slots : env.slots[i].kind # Device
    BY <1>1, <1>4, <1>6, <1>9, StripOpeners
  <2> QED BY <2>1, SealedFacts
<1>11. p \in Dbs /\ p \in Listed(v)
  <2>1. Listed(v) \in SUBSET Nat /\ Listed(v) \subseteq Dbs
    BY Numerals DEF Listed
  <2> QED BY <1>1, <1>6, <2>1, LeastNumber DEF Primary
<1>12. /\ v.mani[p].uuid \in 1 .. n.uuids /\ v.mani[p].gen \in Nat
  <2>1. v.mani[p] \in Manis(n.uuids)
    BY <1>8, <1>11 DEF PoolOk, DbOk
  <2> QED BY <1>6, <2>1, FileKinds
<1>13. /\ epoch \in Tokens(n.uuids) /\ epoch # NoToken /\ epoch.dek = k /\ epoch.env = env.gen
       /\ epoch.uuid = v.mani[p].uuid /\ epoch.gen = v.mani[p].gen
  <2>1. /\ epoch.dek = k /\ epoch.env = env.gen /\ epoch.uuid = v.mani[p].uuid /\ epoch.gen = v.mani[p].gen
    BY <1>4
  <2>2. epoch \in Tokens(n.uuids)
    BY <1>4, <1>8, <1>10, <1>12 DEF Tokens
  <2>3. NoToken.dek = NoDek
    BY DEF NoToken
  <2> QED BY <1>6, <2>1, <2>2, <2>3
<1>14. /\ mani = [db \in Dbs |-> mani[db]]
       /\ \A db \in Dbs : v.main[db] # Missing => mani[db] = v.mani[db]
       /\ \A db \in Dbs : v.main[db] = Missing => mani[db] = Missing
  BY <1>2 DEF Listed
<1>15. \A db \in Dbs : mani[db] \in {v.mani[db], Missing}
  BY <1>14
<1>16. PoolOk(v.main, mani, [db \in Dbs |-> Cold], images, n.uuids)
  <2>1. PICK h : h = [db \in Dbs |-> Cold]
    OBVIOUS
  <2>2. ASSUME NEW db \in Dbs PROVE DbOk(v.main[db], mani[db], h[db], images, n.uuids)
    <3>1. DbOk(v.main[db], v.mani[db], v.hot[db], images, n.uuids) /\ h[db] = Cold
      BY <1>8, <2>1 DEF PoolOk
    <3>2. Missing \in Manis(n.uuids) /\ Missing.is # "file"
      BY FileKinds DEF Manis, Stub
    <3> QED BY <1>15, <3>1, <3>2 DEF DbOk, Vouched
  <2>3. \A db, e \in Dbs : (mani[db].is = "file" /\ mani[e].is = "file" /\ mani[db].uuid = mani[e].uuid) => db = e
    BY <1>8, <1>15, FileKinds DEF PoolOk
  <2>4. v.main = [db \in Dbs |-> v.main[db]] /\ h = [db \in Dbs |-> h[db]]
    BY <1>8, <2>1 DEF PoolOk
  <2> QED BY <1>14, <2>1, <2>2, <2>3, <2>4 DEF PoolOk
<1>17. \A db \in Dbs : (mani[db].is = "file" /\ mani[db].uuid = epoch.uuid) => mani[db].gen = epoch.gen
  <2>1. \A db \in Dbs : mani[db].is = "file" => mani[db] = v.mani[db]
    BY <1>15, FileKinds
  <2> QED BY <1>6, <1>8, <1>11, <1>13, <2>1 DEF PoolOk
<1>18. /\ \E db \in Dbs : v.main[db] # Missing
       /\ \A db \in Dbs : served[db] = Absent => v.main[db] = Missing
  <2>1. \A db : OpenMainDb(v, k, db) # Absent
    BY ImageFacts DEF OpenMainDb
  <2> QED BY <1>3, <1>11, <2>1 DEF Listed
<1>19. ASSUME NEW db \in Dbs, Readable(b, db)
       PROVE  /\ Carries(v.main[db], mani[db], served[db], k)
              /\ ~ExportsOverJournal => Holds(v.main[db], mani[db], served[db], k)
  <2>1. served[db] # Absent /\ ~IsRefused(served[db]) /\ served[db].uuid # 0
    BY <1>5, <1>19 DEF Readable
  <2>2. v.main[db] # Missing /\ served[db] = OpenMainDb(v, k, db) /\ mani[db] = v.mani[db]
    BY <1>3, <1>14, <2>1 DEF Listed
  <2>3. /\ ~ExportsOverJournal => v.hot[db] = Cold
        /\ DbOk(v.main[db], v.mani[db], v.hot[db], images, n.uuids)
    BY <1>6, <1>8 DEF PoolOk
  <2>4. PICK r : r = OpenMainDb(v, k, db)
    OBVIOUS
  <2>5. ~IsRefused(r) /\ k \in Keys
    BY <1>8, <2>1, <2>2, <2>4
  <2>6. Opened(r, v, k, db)
    BY <2>3, <2>4, <2>5, OpenedDb
  <2>7. r # Image(0, 0, Void)
    BY <2>1, <2>2, <2>4, ImageFacts
  <2>8. Carries(v.main[db], mani[db], served[db], k)
    BY <2>2, <2>4, <2>6, <2>7, ImageFacts DEF Carries, Opened
  <2>9. ASSUME ~ExportsOverJournal PROVE Holds(v.main[db], mani[db], served[db], k)
    BY <2>2, <2>3, <2>4, <2>6, <2>7, <2>9, ImageFacts DEF Holds, Opened
  <2> QED BY <2>8, <2>9
<1>20. BundleOk(b, images, n.uuids)
  <2>1. /\ b = [env |-> b.env, cred |-> b.cred, main |-> b.main, mani |-> b.mani,
                epoch |-> b.epoch, served |-> b.served, secrets |-> b.secrets]
        /\ b.env = env /\ b.cred = v.cred /\ b.main = v.main /\ b.mani = mani /\ b.epoch = epoch
        /\ b.served = served /\ b.secrets = secrets
    BY <1>5
  <2> QED BY <1>8, <1>10, <1>13, <1>14, <1>16, <1>17, <1>18, <1>19, <2>1 DEF BundleOk
<1>21. n' \in Counters /\ n'.uuids = n.uuids /\ n'.writes = n.writes
  BY <1>6, At, CountsCall
<1>22. TheJobOk'
  BY <1>6 DEF TheJobOk, JobOk
<1>23. /\ n.uuids <= n'.uuids /\ images \subseteq images' /\ air \subseteq air'
       /\ \A c \in air' : c \in air \/ BundleOk(c, images', n'.uuids)
  BY <1>6, <1>7, <1>20, <1>21
<1>24. /\ DevOk(dev'[d], images', n'.uuids) /\ SessOk(sess'[d], dev'[d], known'[d])
       /\ KnownOk(known'[d], dev'[d], n'.uuids) /\ BaseOk(base'[d], dev'[d], air')
       /\ dev' = [dev EXCEPT ![d] = dev'[d]] /\ sess' = [sess EXCEPT ![d] = sess'[d]]
       /\ known' = [known EXCEPT ![d] = known'[d]] /\ base' = [base EXCEPT ![d] = base'[d]]
  <2>1. BaseOk(base[d], dev[d], air')
    BY <1>6, At DEF BaseOk
  <2> QED BY <1>6, <1>21, <2>1, At
<1>25. StillBegun(d)
  <2>1. n.writes \in Nat /\ PoolBegun(v.main, v.mani, n.writes)
    BY <1>1, TransferAssumption DEF Inv, Written, Counters, Contents
  <2>2. PoolBegun(b.main, b.mani, n.writes)
    <3>1. b.main = v.main /\ b.mani = mani
      BY <1>5
    <3> QED BY <1>15, <2>1, <3>1, FileKinds DEF PoolBegun, Begun
  <2> QED BY <1>1, <1>6, <1>21, <2>1, <2>2 DEF StillBegun
<1> QED BY <1>21, <1>22, <1>23, <1>24, <1>25, Elsewhere

-----------------------------------------------------------------------------
(* The invariant. *)

LEMMA InitInv ==
    ASSUME Init
    PROVE  Inv
<1>1. PICK mks, hot, files : /\ mks = NoMarks /\ hot = [db \in Dbs |-> Cold]
                             /\ files = [db \in Dbs |-> Missing]
  OBVIOUS
<1>2. /\ mks \in [Uuids -> Nat] /\ \A w \in Uuids : mks[w] = 0
  BY <1>1 DEF NoMarks
<1>3. Blank = [env |-> NoEnv, floor |-> 0, epoch |-> NoToken, cred |-> 0, key |-> 0, wrap |-> 0,
               main |-> files, mani |-> files, hot |-> hot,
               anchor |-> [dek |-> NoDek, committed |-> mks, floor |-> mks]]
  BY <1>1 DEF Blank
<1>4. DevOk(Blank, {}, 0)
  <2>1. PoolOk(files, files, hot, {}, 0)
    <3>1. ASSUME NEW db \in Dbs PROVE DbOk(files[db], files[db], hot[db], {}, 0) /\ files[db].is # "file"
      <4>1. files[db] = Missing /\ hot[db] = Cold
        BY <1>1
      <4> QED BY <4>1, FileKinds DEF DbOk, Vouched, Mains, Manis, Stub
    <3>2. files = [db \in Dbs |-> files[db]] /\ hot = [db \in Dbs |-> hot[db]]
      BY <1>1
    <3> QED BY <3>1, <3>2 DEF PoolOk
  <2>2. EntriesOk(Blank, 0)
    BY <1>3, EnvFacts, Numerals DEF EntriesOk, NoDek, Tokens
  <2>3. Blank.anchor \in Anchors
    BY <1>2, <1>3, Numerals DEF Anchors
  <2> QED BY <1>3, <2>1, <2>2, <2>3 DEF DevOk, Shaped
<1>5. KnownOk([deks |-> {}, seen |-> NoMarks, attested |-> NoMarks], Blank, 0)
  <2>1. PICK kn : kn = [deks |-> {}, seen |-> mks, attested |-> mks]
    OBVIOUS
  <2>2. Blank.anchor.committed = mks /\ Blank.anchor.floor = mks
    BY <1>3
  <2>3. ASSUME NEW k \in Keys, NEW w \in Uuids
        PROVE  AnchorLoad(Blank, k).committed[w] = 0 /\ AnchorLoad(Blank, k).floor[w] = 0
    <3>1. AnchorLoad(Blank, k).committed = mks /\ AnchorLoad(Blank, k).floor = mks
      BY <1>1, <2>2 DEF AnchorLoad
    <3> QED BY <1>2, <3>1
  <2> QED BY <1>1, <1>2, <2>1, <2>2, <2>3 DEF KnownOk
<1>6. n \in Counters /\ n.uuids = 0
  BY TransferAssumption, Numerals DEF Init, Counters, Void
<1>7. DevsOk /\ images = {} /\ n.uuids = 0
  BY <1>4, <1>6 DEF Init, DevsOk
<1>8. SesssOk
  BY NoSessionOk DEF Init, SesssOk
<1>9. KnownsOk
  BY <1>5, <1>6 DEF Init, KnownsOk
<1>10. AirOk /\ BasesOk /\ TheJobOk
  BY DEF Init, AirOk, BasesOk, BaseOk, TheJobOk, JobOk
<1>11. Written
  <2>1. PoolBegun(files, files, n.writes)
    BY <1>1, FileKinds DEF PoolBegun, Begun
  <2> QED BY <1>3, <2>1 DEF Init, Written
<1> QED BY <1>6, <1>7, <1>8, <1>9, <1>10, <1>11 DEF Inv

LEMMA NextInv ==
    ASSUME Inv, [Next]_vars
    PROVE  Inv'
<1>1. CASE UNCHANGED vars
  BY <1>1 DEF vars, Inv, DevsOk, SesssOk, KnownsOk, AirOk, BasesOk, TheJobOk, Written
<1>2. CASE \E d \in Devices : \/ Enroll(d) \/ EnrollConvenience(d, TRUE) \/ EnrollConvenience(d, FALSE)
                              \/ AddRecoveryCode(d) \/ Reset(d) \/ ImportBundle(d)
  BY <1>2, EnrollInv, EnrollConvenienceInv, AddRecoveryCodeInv, ResetInv, ImportBundleInv
<1>3. CASE \E d \in Devices : ExportBundle(d) \/ Unlock(d) \/ Lock(d)
  BY <1>3, ExportBundleInv, UnlockInv, LockInv
<1>4. CASE \E d \in Devices : \E db \in Dbs : SqlOpen(d, db) \/ SqlSeal(d, db) \/ SqlCommit(d, db) \/ SqlTorn(d, db)
  BY <1>4, SqlOpenInv, SqlSealInv, SqlCommitInv, SqlTornInv
<1>5. CASE ClearName \/ Cleared \/ ImportFile \/ Put \/ Done \/ Crash
  BY <1>5, ClearNameInv, ClearedInv, ImportFileInv, PutInv, DoneInv, CrashInv
<1> QED BY <1>1, <1>2, <1>3, <1>4, <1>5 DEF Next

\* The inductive invariant holds throughout.
THEOREM TransferInvariant == Spec => []Inv
<1>1. Init => Inv
  BY InitInv
<1>2. Inv /\ [Next]_vars => Inv'
  BY NextInv
<1> QED BY <1>1, <1>2, PTL DEF Spec

-----------------------------------------------------------------------------
(* What it implies. *)

LEMMA InvType ==
    ASSUME Inv
    PROVE  TypeOK
<1>1. ASSUME NEW d \in Devices, NEW v, v = dev[d]
      PROVE  /\ v.floor \in Nat /\ v.cred \in 0 .. MaxEnrolls
             /\ {v.key, v.wrap} \subseteq 0 .. MaxEnrolls /\ v.epoch.dek \in 0 .. MaxEnrolls
             /\ \A db \in Dbs : FileOk(v.main[db]) /\ FileOk(v.mani[db]) /\ v.hot[db] \in 0 .. Cold
             /\ sess[d].dek \in 0 .. MaxEnrolls
             /\ \A db \in Dbs : sess[d].served[db] # Closed =>
                    /\ sess[d].dek # NoDek
                    /\ v.mani[db].is = "file" /\ v.mani[db].dek = sess[d].dek
                    /\ v.mani[db].uuid = sess[d].served[db].uuid
  <2>1. DevOk(v, images, n.uuids) /\ SessOk(sess[d], v, known[d]) /\ n.uuids \in Nat /\ n.uuids <= MaxUuids
    BY <1>1, At
  <2>2. /\ v.floor \in Nat /\ v.cred \in 0 .. MaxEnrolls
        /\ {v.key, v.wrap} \subseteq 0 .. MaxEnrolls /\ v.epoch.dek \in 0 .. MaxEnrolls
    <3>1. EntriesOk(v, n.uuids)
      BY <2>1 DEF DevOk
    <3>2. NoToken.dek \in 0 .. MaxEnrolls
      BY Numerals DEF NoToken
    <3>3. \A t \in Tokens(n.uuids) : t.dek \in 0 .. MaxEnrolls
      BY <3>2, Numerals DEF Tokens
    <3> QED BY <3>1, <3>3 DEF EntriesOk
  <2>3. ASSUME NEW db \in Dbs
        PROVE  FileOk(v.main[db]) /\ FileOk(v.mani[db]) /\ v.hot[db] \in 0 .. Cold
    <3>1. v.main[db] \in Mains(n.uuids) /\ v.mani[db] \in Manis(n.uuids) /\ v.hot[db] \in Contents \cup {Cold}
      BY <2>1 DEF DevOk, PoolOk, DbOk
    <3>2. Keys = 1 .. MaxEnrolls /\ \A w \in 1 .. n.uuids : w \in Uuids
      BY <2>1, TransferAssumption DEF Keys, Uuids
    <3>3. v.hot[db] \in 0 .. Cold
      BY <3>1, TransferAssumption DEF Contents, Cold
    <3>4. FileOk(v.main[db])
      BY <3>1, <3>2, FileKinds DEF FileOk
    <3>5. FileOk(v.mani[db])
      BY <3>1, <3>2, FileKinds DEF FileOk
    <3> QED BY <3>3, <3>4, <3>5
  <2>4. sess[d].dek \in 0 .. MaxEnrolls
    BY <2>1 DEF SessOk
  <2>5. ASSUME NEW db \in Dbs, sess[d].served[db] # Closed
        PROVE  /\ sess[d].dek # NoDek
               /\ v.mani[db].is = "file" /\ v.mani[db].dek = sess[d].dek
               /\ v.mani[db].uuid = sess[d].served[db].uuid
    <3>1. sess[d].dek # NoDek /\ Serves(sess[d].served[db], v.main[db], v.mani[db], v.hot[db], sess[d].dek)
      BY <2>1, <2>5 DEF SessOk
    <3> QED BY <3>1, ImageFacts DEF Serves
  <2> QED BY <2>2, <2>3, <2>4, <2>5
<1>2. job.pc \in {"idle", "clear", "write"}
  BY IdleFacts DEF Inv, TheJobOk, JobOk
<1>3. \A b \in air : b.epoch.env = b.env.gen
  BY DEF Inv, AirOk, BundleOk
<1> QED BY <1>1, <1>2, <1>3 DEF TypeOK

LEMMA InvServes ==
    ASSUME Inv
    PROVE  ServesSealed
<1>1. ASSUME NEW d \in Devices, NEW db \in Dbs, sess[d].served[db] # Closed
      PROVE  sess[d].served[db].val = Void \/ sess[d].served[db] \in images \/ dev[d].hot[db] # Cold
  <2>1. PICK i, m, o, h : /\ i = sess[d].served[db] /\ m = dev[d].main[db]
                          /\ o = dev[d].mani[db] /\ h = dev[d].hot[db]
    OBVIOUS
  <2>2. Serves(i, m, o, h, sess[d].dek) /\ DbOk(m, o, h, images, n.uuids)
    BY <1>1, <2>1, ServedFacts
  <2>3. SUFFICES ASSUME i.val # Void, h = Cold PROVE i \in images
    BY <2>1
  <2>4. /\ o.is = "file" /\ i = Image(o.uuid, o.gen, i.val) /\ i.val = o.root
        /\ m.is = "file" /\ i.val = m.val
    BY <2>2, <2>3 DEF Serves
  <2>5. o.root # Void /\ o.root # Hollow
    <3>1. m.val \in 1 .. MaxWrites
      BY <2>2, <2>4, FileKinds DEF DbOk
    <3> QED BY <2>3, <2>4, <3>1, Numerals
  <2> QED BY <2>2, <2>4, <2>5 DEF DbOk, Vouched
<1> QED BY <1>1 DEF ServesSealed

\* A session turns from not serving a database to serving it in one way.
LEMMA OneOpens ==
    ASSUME Inv, Next, NEW d \in Devices, NEW db \in Dbs,
           sess[d].served[db] = Closed, sess'[d].served[db] # Closed
    PROVE  SqlOpen(d, db)
<1>1. /\ sess = [e \in Devices |-> sess[e]]
      /\ \A e \in Devices : /\ sess[e] = [dek |-> sess[e].dek, served |-> sess[e].served]
                            /\ sess[e].served = [x \in Dbs |-> sess[e].served[x]]
  <2>1. \A e \in Devices : SessOk(sess[e], dev[e], known[e])
    BY DEF Inv, SesssOk
  <2> QED BY <2>1 DEF Inv, SesssOk, SessOk
<1>2. NoSession.served[db] = Closed
  BY IdleFacts
<1>3. ASSUME NEW e \in Devices, sess' = [sess EXCEPT ![e] = NoSession] \/ sess' = sess PROVE FALSE
  BY <1>1, <1>2, <1>3
<1>4. ASSUME NEW e \in Devices, NEW k, sess' = [sess EXCEPT ![e] = [NoSession EXCEPT !.dek = k]] PROVE FALSE
  <2>1. [NoSession EXCEPT !.dek = k].served[db] = Closed
    BY <1>2, IdleFacts
  <2> QED BY <1>1, <1>4, <2>1
<1>5. ASSUME NEW e \in Devices, NEW x \in Dbs, NEW i, sess' = [sess EXCEPT ![e].served[x] = i]
      PROVE  e = d /\ x = db
  BY <1>1, <1>5
<1>6. CASE \E e \in Devices : \/ Enroll(e) \/ EnrollConvenience(e, TRUE) \/ EnrollConvenience(e, FALSE)
                              \/ AddRecoveryCode(e) \/ Reset(e) \/ ImportBundle(e)
  BY <1>3, <1>6 DEF Enroll, EnrollConvenience, AddRecoveryCode, Reset, ImportBundle, Begin
<1>7. CASE \E e \in Devices : ExportBundle(e) \/ Lock(e) \/ \E x \in Dbs : SqlTorn(e, x)
  BY <1>3, <1>7 DEF ExportBundle, Lock, SqlTorn
<1>8. CASE \E e \in Devices : Unlock(e)
  <2>1. PICK e \in Devices : Unlock(e)
    BY <1>8
  <2>2. PICK r : sess' = [sess EXCEPT ![e] = IF r.ok THEN [NoSession EXCEPT !.dek = r.dek] ELSE NoSession]
    BY <2>1 DEF Unlock
  <2>3. CASE r.ok
    BY <1>4, <2>2, <2>3
  <2>4. CASE ~r.ok
    BY <1>3, <2>2, <2>4
  <2> QED BY <2>3, <2>4
<1>9. CASE \E e \in Devices : \E x \in Dbs : SqlOpen(e, x)
  <2>1. PICK e \in Devices : \E x \in Dbs : SqlOpen(e, x)
    BY <1>9
  <2>2. PICK x \in Dbs : SqlOpen(e, x)
    BY <2>1
  <2>3. \E i : sess' = [sess EXCEPT ![e].served[x] = i]
    BY <2>2 DEF SqlOpen
  <2> QED BY <1>5, <2>2, <2>3
<1>10. CASE \E e \in Devices : \E x \in Dbs : SqlCommit(e, x)
  <2>1. PICK e \in Devices : \E x \in Dbs : SqlCommit(e, x)
    BY <1>10
  <2>2. PICK x \in Dbs : SqlCommit(e, x)
    BY <2>1
  <2>3. (\E i : sess' = [sess EXCEPT ![e].served[x] = i]) /\ sess[e].served[x] # Closed
    BY <2>2 DEF SqlCommit
  <2> QED BY <1>5, <2>3
<1>11. CASE \E e \in Devices : \E x \in Dbs : SqlSeal(e, x)
  <2>1. PICK e \in Devices : \E x \in Dbs : SqlSeal(e, x)
    BY <1>11
  <2>2. PICK x \in Dbs : SqlSeal(e, x)
    BY <2>1
  <2>3. (\E i : sess' = [sess EXCEPT ![e].served[x] = i]) /\ sess[e].served[x] # Closed
    BY <2>2 DEF SqlSeal
  <2> QED BY <1>5, <2>3
<1>12. CASE ClearName \/ Cleared \/ ImportFile \/ Put
  BY <1>12 DEF ClearName, Cleared, ImportFile, Put
<1>13. CASE Done
  <2>1. job.d \in Devices
    BY <1>13, JobFacts DEF Done
  <2>2. sess' = sess \/ sess' = [sess EXCEPT ![job.d] = [NoSession EXCEPT !.dek = job.dek]]
    BY <1>13 DEF Done
  <2> QED BY <1>3, <1>4, <2>1, <2>2
<1>14. CASE Crash
  <2>1. job.d \in Devices
    BY <1>14 DEF Crash, Inv, TheJobOk, JobOk
  <2> QED BY <1>3, <1>14, <2>1 DEF Crash
<1> QED BY <1>6, <1>7, <1>8, <1>9, <1>10, <1>11, <1>12, <1>13, <1>14 DEF Next

LEMMA StepRollback ==
    ASSUME Inv, Next, NEW d \in Devices, NEW db \in Dbs,
           sess[d].served[db] = Closed, sess'[d].served[db] # Closed, Cardinality(known[d].deks) = 1
    PROVE  /\ known[d].seen[sess'[d].served[db].uuid] <= sess'[d].served[db].gen + 1
           /\ known[d].attested[sess'[d].served[db].uuid] <= sess'[d].served[db].gen
<1>1. PICK v, k, kn, u : v = dev[d] /\ k = sess[d].dek /\ kn = known[d] /\ u = n.uuids + 1
  OBVIOUS
<1>2. PICK r : r = OpenMainDb(v, k, db)
  OBVIOUS
<1>3. PICK i : i = IF ~IsRefused(r) /\ r.uuid = 0 THEN Image(u, 1, Void) ELSE r
  OBVIOUS
<1>4. /\ k # NoDek /\ ~IsRefused(r) /\ (r.uuid = 0 => n.uuids < MaxUuids)
      /\ sess' = [sess EXCEPT ![d].served[db] = i]
  <2>1. SqlOpen(d, db)
    BY OneOpens
  <2> QED BY <1>1, <1>2, <1>3, <2>1 DEF SqlOpen
<1>5. DevOk(v, images, n.uuids) /\ n.uuids \in Nat /\ n.uuids <= MaxUuids
      /\ SessOk(sess[d], v, kn) /\ KnownOk(kn, v, n.uuids) /\ sess = [e \in Devices |-> sess[e]]
  BY <1>1, At
<1>6. sess'[d].served[db] = i
  <2>1. sess[d] = [dek |-> sess[d].dek, served |-> sess[d].served]
        /\ sess[d].served = [x \in Dbs |-> sess[d].served[x]]
    BY <1>5 DEF SessOk
  <2> QED BY <1>4, <1>5, <2>1
<1>7. k \in Keys /\ k \in kn.deks
  BY <1>1, <1>4, <1>5, Numerals DEF SessOk
<1>8. kn.deks \subseteq {k}
  <2>1. kn.deks \subseteq 0 .. MaxEnrolls /\ IsFiniteSet(0 .. MaxEnrolls)
    <3>1. 0 \in Int /\ MaxEnrolls \in Int
      BY TransferAssumption
    <3>2. kn.deks \subseteq 0 .. MaxEnrolls
      BY <1>5 DEF KnownOk
    <3> QED BY <3>1, <3>2, FS_Interval
  <2>2. IsFiniteSet(kn.deks)
    BY <2>1, FS_Subset
  <2>3. \E x : kn.deks = {x}
    BY <1>1, <2>2, FS_Singleton
  <2> QED BY <1>7, <2>3
<1>9. PICK a : a = AnchorLoad(v, k)
  OBVIOUS
<1>10. \A w \in Uuids : /\ kn.seen[w] <= a.committed[w] /\ kn.attested[w] <= a.floor[w]
                        /\ kn.seen[w] \in Nat /\ kn.attested[w] \in Nat
                        /\ a.committed[w] \in Nat /\ a.floor[w] \in Nat
  <2>1. a \in Anchors
    <3>1. v.anchor \in Anchors
      BY <1>5 DEF DevOk
    <3> QED BY <1>7, <1>9, <3>1, AnchorFacts
  <2> QED BY <1>5, <1>7, <1>8, <1>9, <2>1 DEF KnownOk, Anchors
<1>11. DbOk(v.main[db], v.mani[db], v.hot[db], images, n.uuids)
  BY <1>5 DEF DevOk, PoolOk
<1>12. Opened(r, v, k, db)
  BY <1>2, <1>4, <1>7, <1>11, OpenedDb
<1>13. CASE r.uuid = 0
  <2>1. i.uuid = u /\ i.gen = 1
    BY <1>3, <1>4, <1>13, ImageFacts
  <2>2. u \in Uuids /\ u > n.uuids
    BY <1>1, <1>4, <1>5, <1>13, TransferAssumption DEF Uuids
  <2>3. kn.seen[u] = 0 /\ kn.attested[u] = 0
    BY <1>5, <2>2 DEF KnownOk
  <2> QED BY <1>1, <1>6, <2>1, <2>3
<1>14. CASE r.uuid # 0
  <2>1. PICK o : o = v.mani[db]
    OBVIOUS
  <2>2. /\ o.is = "file" /\ r.uuid = o.uuid /\ r.gen = o.gen
        /\ ~(o.gen + 1 < a.committed[o.uuid]) /\ ~(o.gen < a.floor[o.uuid])
    BY <1>9, <1>12, <1>14, <2>1, ImageFacts DEF Opened
  <2>3. o.uuid \in Uuids /\ o.gen \in Nat
    <3>1. o.uuid \in 1 .. n.uuids /\ o.gen \in Nat
      BY <1>11, <2>1, <2>2, FileKinds DEF DbOk
    <3> QED BY <1>5, <3>1, TransferAssumption DEF Uuids
  <2>4. i.uuid = o.uuid /\ i.gen = o.gen
    BY <1>3, <1>14, <2>2
  <2>5. kn.seen[o.uuid] <= o.gen + 1 /\ kn.attested[o.uuid] <= o.gen
    BY <1>10, <2>2, <2>3
  <2> QED BY <1>1, <1>6, <2>4, <2>5
<1> QED BY <1>13, <1>14

-----------------------------------------------------------------------------
(* Bundles. *)

\* The decryptor opens an envelope with any of its recovery codes, and with
\* nothing else.
LEMMA OpenEnvelopeT ==
    ASSUME NEW k, NEW e \in KeyEnvs(k), NEW s \in Openers(e)
    PROVE  OpenEnvelope(e, s) = IF s[1] = "code" THEN [dek |-> k] ELSE Refused
<1>1. /\ \A i \in 1 .. Len(e.slots) : /\ e.slots[i].dek = k /\ e.slots[i].secret \in Secrets
                                      /\ e.slots[i].kind = KindOf(e.slots[i].secret)
      /\ MacOk(e, k)
  BY SealedSlots
<1>2. Parses(e) /\ \E x \in 1 .. Len(e.slots) : e.slots[x].secret = s
  BY OpensT
<1>slot. PICK n0 \in 1 .. Len(e.slots) : e.slots[n0].secret = s
  BY <1>2
<1>3. \A x \in Secrets : KindOf(x) = Recovery <=> x[1] = "code"
  BY DEF Secrets, KindOf, Passkey, Recovery, Device
<1> DEFINE I == {i \in 1 .. Len(e.slots) : e.slots[i].kind = Recovery /\ e.slots[i].secret = s}
           j == IF I # {} THEN Min(I) ELSE 0
<1>4. OpenEnvelope(e, s) = IF ~Parses(e) \/ j = 0 \/ ~MacOk(e, e.slots[j].dek) THEN Refused
                           ELSE [dek |-> e.slots[j].dek]
  BY DEF OpenEnvelope, SelectInSeq
<1>5. CASE s[1] = "code"
  <2>1. I \in SUBSET Nat /\ n0 \in I
    BY <1>1, <1>slot, <1>3, <1>5
  <2>2. j = Min(I) /\ Min(I) \in I
    BY <2>1, LeastNumber
  <2>3. j \in 1 .. Len(e.slots) /\ j # 0
    BY <2>2
  <2> HIDE DEF j, I
  <2> QED BY <1>1, <1>2, <1>4, <1>5, <2>3
<1>6. CASE s[1] # "code"
  <2>1. I = {}
    BY <1>1, <1>3, <1>6
  <2>2. j = 0
    BY <2>1
  <2> HIDE DEF j, I
  <2> QED BY <1>4, <1>6, <2>2
<1> QED BY <1>5, <1>6

\* What a bundle holds of a database the exporter could open, the decryptor
\* yields.
LEMMA DecryptT ==
    ASSUME NEW main, NEW mani, NEW i, NEW k, Carries(main, mani, i, k)
    PROVE  DecryptDbFile(main, mani, k) = [val |-> i.val]
<1>1. Empty.is # "file" /\ Void = 0
  BY FileKinds DEF Void
<1> QED BY <1>1 DEF Carries, DecryptDbFile

LEMMA RecoverT ==
    ASSUME NEW b, NEW u, NEW img, BundleOk(b, img, u), NEW s \in b.secrets
    PROVE  /\ s[1] # "code" => IsRefused(Recover(b, s))
           /\ (s[1] = "code" /\ \A db \in Dbs : b.served[db] = Absent \/ Readable(b, db)) =>
                /\ ~IsRefused(Recover(b, s))
                /\ \A db \in DOMAIN Recover(b, s).vals : Recover(b, s).vals[db] = b.served[db].val
<1>1. PICK k : k = b.epoch.dek
  OBVIOUS
<1>2. b.env \in KeyEnvs(k) /\ s \in Openers(b.env)
  BY <1>1 DEF BundleOk
<1>3. PICK key, dbs : key = OpenEnvelope(b.env, s) /\ dbs = {db \in Dbs : b.main[db] # Missing}
  OBVIOUS
<1>4. key = IF s[1] = "code" THEN [dek |-> k] ELSE Refused
  BY <1>2, <1>3, OpenEnvelopeT
<1>5. Recover(b, s) = IF IsRefused(key) \/ dbs = {} THEN Refused
        ELSE IF \E db \in dbs : IsRefused(DecryptDbFile(b.main[db], b.mani[db], key.dek)) THEN Refused
        ELSE [vals |-> [db \in dbs |-> DecryptDbFile(b.main[db], b.mani[db], key.dek).val]]
  BY <1>3 DEF Recover
<1>6. ASSUME s[1] # "code" PROVE IsRefused(Recover(b, s))
  BY <1>4, <1>5, <1>6, ImageFacts
<1>7. ASSUME s[1] = "code", \A db \in Dbs : b.served[db] = Absent \/ Readable(b, db)
      PROVE  /\ ~IsRefused(Recover(b, s))
             /\ \A db \in DOMAIN Recover(b, s).vals : Recover(b, s).vals[db] = b.served[db].val
  <2>1. key.dek = k /\ ~IsRefused(key)
    BY <1>4, <1>7, ImageFacts
  <2>2. dbs # {}
    BY <1>3 DEF BundleOk
  <2>3. ASSUME NEW db \in dbs
        PROVE  DecryptDbFile(b.main[db], b.mani[db], k) = [val |-> b.served[db].val]
    <3>1. db \in Dbs /\ b.main[db] # Missing
      BY <1>3
    <3>2. Readable(b, db)
      BY <1>7, <3>1 DEF BundleOk
    <3>3. Carries(b.main[db], b.mani[db], b.served[db], k)
      BY <1>1, <1>7, <3>1, <3>2 DEF BundleOk
    <3> QED BY <3>3, DecryptT
  <2>4. \A x : ~IsRefused([val |-> x]) /\ [val |-> x].val = x
    BY DEF IsRefused
  <2>5. Recover(b, s) = [vals |-> [db \in dbs |-> b.served[db].val]]
    <3>1. PICK out : out = [db \in dbs |-> DecryptDbFile(b.main[db], b.mani[db], key.dek)]
      OBVIOUS
    <3>2. \A db \in dbs : out[db] = [val |-> b.served[db].val] /\ ~IsRefused(out[db]) /\ out[db].val = b.served[db].val
      BY <2>1, <2>3, <2>4, <3>1
    <3>3. Recover(b, s) = [vals |-> [db \in dbs |-> DecryptDbFile(b.main[db], b.mani[db], key.dek).val]]
      BY <1>5, <2>1, <2>2, <3>1, <3>2
    <3>4. [db \in dbs |-> DecryptDbFile(b.main[db], b.mani[db], key.dek).val] = [db \in dbs |-> b.served[db].val]
      BY <3>1, <3>2
    <3> QED BY <3>3, <3>4
  <2>6. ~IsRefused(Recover(b, s)) /\ Recover(b, s).vals = [db \in dbs |-> b.served[db].val]
    BY <2>5 DEF IsRefused
  <2> QED BY <2>6
<1> QED BY <1>6, <1>7

LEMMA InvOpens ==
    ASSUME Inv
    PROVE  BundleOpens
<1>1. ASSUME NEW b \in air
      PROVE  /\ Openers(b.env) = b.secrets
             /\ \A i \in DOMAIN b.env.slots : b.env.slots[i].kind # Device
             /\ \A s \in b.secrets : s[1] # "code" => IsRefused(Recover(b, s))
             /\ (\A db \in Dbs : b.served[db] = Absent \/ Readable(b, db)) =>
                 \A s \in b.secrets : s[1] = "code" =>
                    /\ ~IsRefused(Recover(b, s))
                    /\ \A db \in DOMAIN Recover(b, s).vals :
                          Recover(b, s).vals[db] = b.served[db].val
  <2>1. BundleOk(b, images, n.uuids)
    BY DEF Inv, AirOk
  <2>2. Openers(b.env) = b.secrets /\ \A i \in DOMAIN b.env.slots : b.env.slots[i].kind # Device
    BY <2>1 DEF BundleOk
  <2> QED BY <2>1, <2>2, RecoverT
<1> QED BY <1>1 DEF BundleOpens

\* With the bundle's files, and the marks of its token in the anchor, a
\* database is served as it was exported, unless a mark is above it.
LEMMA ServesAgain ==
    ASSUME NEW v, NEW b, NEW db \in Dbs, NEW k, NEW i,
           Holds(v.main[db], v.mani[db], i, k), v.hot[db] = Cold,
           NEW a, a = AnchorLoad(v, k), NEW r, r = OpenMainDb(v, k, db)
    PROVE  \/ r = i
           \/ /\ r = Refused
              /\ i.gen + 1 < a.committed[i.uuid] \/ i.gen < a.floor[i.uuid]
<1>1. PICK m, o : m = v.main[db] /\ o = v.mani[db]
  OBVIOUS
<1>2. /\ o.is = "file" /\ o.dek = k /\ i = Image(o.uuid, o.gen, i.val) /\ i.uuid = o.uuid /\ i.gen = o.gen
      /\ \/ m = Empty /\ i.val = Void
         \/ /\ m.is = "file" /\ m.dek = k /\ m.uuid = o.uuid /\ m.val = i.val
            /\ i.val = o.root \/ (o.prev # Void /\ i.val = o.prev)
  BY <1>1, ImageFacts DEF Holds
<1>3. r = IF o.gen + 1 < a.committed[o.uuid] \/ o.gen < a.floor[o.uuid] THEN Refused
          ELSE IF m.is \in {"missing", "empty"} THEN Image(o.uuid, o.gen, Void)
          ELSE IF m.is = "file" /\ m.dek = k /\ m.uuid = o.uuid
                  /\ (m.val = o.root \/ (o.prev # Void /\ m.val = o.prev))
               THEN Image(o.uuid, o.gen, m.val)
          ELSE Refused
  BY <1>1, <1>2 DEF OpenMainDb
<1>4. Empty.is = "empty"
  BY FileKinds
<1> QED BY <1>2, <1>3, <1>4

LEMMA InvImport ==
    ASSUME Inv, ~ExportsOverJournal
    PROVE  ImportServes
<1> SUFFICES ASSUME NEW d \in Devices, base[d] # NoBundle, NEW s \in base[d].secrets
             PROVE  LET b == base[d]
                        r == SessionOpen(dev[d], s)
                        v == [dev[d] EXCEPT !.anchor = r.anchor]
                    IN  /\ ~IsRefused(r) /\ r.ok
                        /\ \A db \in Dbs :
                            Readable(b, db) =>
                                LET i == OpenMainDb(v, r.dek, db)
                                IN  \/ i = b.served[db]
                                    \/ /\ IsRefused(i)
                                       /\ Max({known[d].seen[b.served[db].uuid],
                                               known[d].attested[b.served[db].uuid]}) > b.served[db].gen
  BY DEF ImportServes
<1>1. PICK b, v, kn, k, t : b = base[d] /\ v = dev[d] /\ kn = known[d] /\ k = b.epoch.dek /\ t = b.epoch
  OBVIOUS
<1>2. PICK r : r = SessionOpen(v, s)
  OBVIOUS
<1>3. PICK w : w = [v EXCEPT !.anchor = r.anchor]
  OBVIOUS
<1>4. /\ b \in air /\ v.env = b.env /\ v.floor = b.env.gen /\ v.epoch = b.epoch
      /\ v.main = b.main /\ v.mani = b.mani /\ v.hot = [db \in Dbs |-> Cold]
  BY <1>1, At DEF BaseOk
<1>5. BundleOk(b, images, n.uuids) /\ DevOk(v, images, n.uuids) /\ KnownOk(kn, v, n.uuids)
      /\ n.uuids \in Nat /\ n.uuids <= MaxUuids
  <2>1. BundleOk(b, images, n.uuids)
    BY <1>4 DEF Inv, AirOk
  <2> QED BY <1>1, <2>1, At
<1>6. /\ t \in Tokens(n.uuids) /\ t # NoToken /\ t.env = b.env.gen /\ b.env \in KeyEnvs(k)
      /\ s \in Openers(b.env) /\ t.dek = k
  BY <1>1, <1>5 DEF BundleOk
<1>7. k \in Keys /\ t.uuid \in 1 .. n.uuids /\ t.uuid \in Uuids /\ t.gen \in Nat
  <2>1. k \in Keys /\ t.uuid \in 1 .. n.uuids /\ t.gen \in Nat
    BY <1>6 DEF Tokens
  <2> QED BY <1>5, <2>1, TransferAssumption DEF Uuids
<1>8. b.env # NoEnv /\ b.env.gen \in Nat /\ Generation(b.env) = b.env.gen
      /\ OpenWith(b.env, s) = [dek |-> k]
  <2>1. b.env # NoEnv /\ b.env.gen \in Nat /\ Generation(b.env) = b.env.gen
    BY <1>5, <1>6, <1>7, EnvFacts DEF BundleOk, Generation
  <2> QED BY <1>6, <2>1, OpensT
<1>9. /\ ~IsRefused(r) /\ r.ok /\ r.dek = k
      /\ r.anchor = AnchorRecord(v, k, t.uuid, t.gen, t.gen)
  <2>1. CheckFresh(v.env, v.floor) /\ CheckFresh(v.env, t.env)
    BY <1>4, <1>6, <1>8 DEF CheckFresh
  <2>2. ~IsRefused([dek |-> k]) /\ [dek |-> k].dek = k
    BY ImageFacts
  <2>3. v.env # NoEnv /\ OpenWith(v.env, s) = [dek |-> k] /\ v.epoch = t
    BY <1>1, <1>4, <1>8
  <2>4. r = [dek |-> k, ok |-> CheckFresh(v.env, t.env), anchor |-> AnchorRecord(v, k, t.uuid, t.gen, t.gen)]
    BY <1>2, <1>6, <2>1, <2>2, <2>3 DEF SessionOpen
  <2> QED BY <2>1, <2>4 DEF IsRefused
<1>10. PICK a : a = AnchorLoad(v, k)
  OBVIOUS
<1>11. v.anchor \in Anchors /\ Shaped(v)
  BY <1>5 DEF DevOk
<1>12. /\ w.main = v.main /\ w.mani = v.mani /\ w.hot = v.hot /\ w.anchor = r.anchor
  BY <1>3, <1>11 DEF Shaped
<1>13. /\ r.anchor.dek = k
       /\ r.anchor.committed[t.uuid] = IF a.committed[t.uuid] >= t.gen THEN a.committed[t.uuid] ELSE t.gen
       /\ r.anchor.floor[t.uuid] = IF a.floor[t.uuid] >= t.gen THEN a.floor[t.uuid] ELSE t.gen
       /\ \A y \in Uuids : y # t.uuid => /\ r.anchor.committed[y] = a.committed[y]
                                         /\ r.anchor.floor[y] = a.floor[y]
  <2>1. PICK q, x, c : q = r.anchor /\ x = t.uuid /\ c = t.gen
    OBVIOUS
  <2>2. q = AnchorRecord(v, k, x, c, c) /\ x \in Uuids /\ c \in Nat
    BY <1>7, <1>9, <2>1
  <2> QED BY <1>7, <1>10, <1>11, <2>1, <2>2, RecordFacts
<1>14. AnchorLoad(w, k) = r.anchor
  BY <1>12, <1>13 DEF AnchorLoad
<1>15. \A y \in Uuids : /\ a.committed[y] \in {0, v.anchor.committed[y]} /\ a.floor[y] \in {0, v.anchor.floor[y]}
                        /\ v.anchor.committed[y] \in Nat /\ v.anchor.floor[y] \in Nat
                        /\ kn.seen[y] \in Nat /\ kn.attested[y] \in Nat
                        /\ v.anchor.committed[y] <= kn.seen[y] \/ v.anchor.committed[y] <= kn.attested[y]
                        /\ v.anchor.floor[y] <= kn.attested[y]
  <2>1. \A y \in Uuids : /\ a.committed[y] \in {0, v.anchor.committed[y]} /\ a.floor[y] \in {0, v.anchor.floor[y]}
    BY <1>7, <1>10, <1>11, AnchorFacts
  <2> QED BY <1>5, <1>11, <2>1 DEF KnownOk, Anchors
<1>16. ASSUME NEW db \in Dbs, Readable(b, db), NEW i, i = OpenMainDb(w, k, db)
       PROVE  \/ i = b.served[db]
              \/ /\ IsRefused(i)
                 /\ Max({kn.seen[b.served[db].uuid], kn.attested[b.served[db].uuid]}) > b.served[db].gen
  <2>1. PICK j, o : j = b.served[db] /\ o = b.mani[db]
    OBVIOUS
  <2>2. Holds(b.main[db], o, j, k)
    BY <1>1, <1>5, <1>16, <2>1 DEF BundleOk
  <2>3. o.is = "file" /\ j.uuid = o.uuid /\ j.gen = o.gen
    BY <2>2, ImageFacts DEF Holds
  <2>4. o.uuid \in Uuids /\ o.gen \in Nat
    <3>1. o \in Manis(n.uuids)
      BY <1>5, <2>1 DEF BundleOk, PoolOk, DbOk
    <3>2. o.uuid \in 1 .. n.uuids /\ o.gen \in Nat
      BY <2>3, <3>1, FileKinds
    <3> QED BY <1>5, <3>2, TransferAssumption DEF Uuids
  <2>5. o.uuid = t.uuid => o.gen = t.gen
    BY <1>1, <1>5, <2>1, <2>3 DEF BundleOk
  <2>6. Holds(w.main[db], w.mani[db], j, k) /\ w.hot[db] = Cold
    BY <1>4, <1>12, <2>1, <2>2
  <2>7. \/ i = j
        \/ /\ i = Refused
           /\ j.gen + 1 < r.anchor.committed[j.uuid] \/ j.gen < r.anchor.floor[j.uuid]
    BY <1>14, <1>16, <2>6, ServesAgain
  <2>8. ASSUME j.gen + 1 < r.anchor.committed[j.uuid] \/ j.gen < r.anchor.floor[j.uuid]
        PROVE  Max({kn.seen[j.uuid], kn.attested[j.uuid]}) > j.gen
    <3>1. PICK y, g : y = o.uuid /\ g = o.gen
      OBVIOUS
    <3>2. g < a.committed[y] \/ g < a.floor[y]
      <4>1. CASE y = t.uuid
        BY <1>7, <1>13, <1>15, <2>3, <2>4, <2>5, <2>8, <3>1, <4>1
      <4>2. CASE y # t.uuid
        BY <1>13, <1>15, <2>3, <2>4, <2>8, <3>1, <4>2
      <4> QED BY <4>1, <4>2
    <3>3. g < kn.seen[y] \/ g < kn.attested[y]
      BY <1>15, <2>4, <3>1, <3>2
    <3>4. Max({kn.seen[y], kn.attested[y]}) = IF kn.seen[y] >= kn.attested[y] THEN kn.seen[y] ELSE kn.attested[y]
      BY <1>15, <2>4, <3>1, MaxFacts
    <3>5. Max({kn.seen[y], kn.attested[y]}) > g
      BY <1>15, <2>4, <3>1, <3>3, <3>4
    <3> QED BY <2>3, <3>1, <3>5
  <2> QED BY <2>1, <2>7, <2>8, ImageFacts
<1> QED BY <1>1, <1>2, <1>3, <1>9, <1>16

-----------------------------------------------------------------------------
(* Theorems. *)

\* Every device, session and bundle holds what its type says: a session
\* serves a database only under its own key, from the manifest it opened.
THEOREM TransferTypeCorrect == Spec => []TypeOK
<1>1. Inv => TypeOK
  BY InvType
<1> QED BY <1>1, TransferInvariant, PTL

\* However bundles are carried and whatever call a crash cuts short, a
\* session serves a database only as some barrier sealed it, or half-written
\* while the journal beside it is hot: open_main_db accepts a main file
\* against the root its manifest vouches for.
THEOREM TransferServesSealed == Spec => []ServesSealed
<1>1. Inv => ServesSealed
  BY InvServes
<1> QED BY <1>1, TransferInvariant, PTL

\* The anchor refuses what is more than one generation behind what the
\* device has seen, or behind what a token attested, while one key is used.
THEOREM TransferNoRollback == Spec => NoRollback
<1>1. ASSUME Inv, [Next]_vars
      PROVE  [\A d \in Devices : \A db \in Dbs :
                LET i == sess'[d].served[db]
                IN  (sess[d].served[db] = Closed /\ i # Closed /\ Cardinality(known[d].deks) = 1) =>
                        /\ known[d].seen[i.uuid] <= i.gen + 1
                        /\ known[d].attested[i.uuid] <= i.gen]_vars
  <2>1. CASE Next
    BY <1>1, <2>1, StepRollback
  <2>2. CASE UNCHANGED vars
    BY <2>2
  <2> QED BY <1>1, <2>1, <2>2
<1> QED BY <1>1, TransferInvariant, PTL DEF Spec, NoRollback

\* exportBundle makes a complete backup, over a hot journal too: its envelope
\* opens with the vault's own secrets but for the device keys, and
\* freehold-decrypt recovers with a recovery code what was served.
THEOREM TransferBundleOpens == Spec => []BundleOpens
<1>1. Inv => BundleOpens
  BY InvOpens
<1> QED BY <1>1, TransferInvariant, PTL

\* When no export happens over a hot journal, a completed importBundle serves
\* what was exported, or the anchor has seen or been attested something newer.
THEOREM TransferImportServes == ~ExportsOverJournal => (Spec => []ImportServes)
<1> SUFFICES ASSUME ~ExportsOverJournal PROVE Spec => []ImportServes
  OBVIOUS
<1>1. Inv => ImportServes
  BY InvImport
<1> QED BY <1>1, TransferInvariant, PTL
=============================================================================
