----------------------------- MODULE PoolProofs -----------------------------
(***************************************************************************)
(* Theorems about Pool, for every block size, every number of databases,   *)
(* temporary files and handles: the file table accounts for every opaque   *)
(* file, and no block of an open file fails to authenticate, whatever a    *)
(* power loss interrupted and whatever handle a file was given.            *)
(***************************************************************************)
EXTENDS Pool, BlockDeviceProofs, FiniteSetTheorems, SequenceTheorems

-----------------------------------------------------------------------------
(* The invariant, of a disk and of the memory of a worker on it.  A power
   loss leaves a disk that one persistence operation made, and no memory: it
   is enough that each of these disks is in order. *)

Doms  == [key : Db \cup {PoolKey}, name : Name] \cup {[unsealed |-> TRUE]}
Block == [dom : Doms, index : Nat, plain : [0 .. B - 1 -> Byte]]
DataOf(L) == [len : {L}, at : [0 .. L - 1 -> Block]]
IsData(x) == \E L \in 0 .. MaxBlocks : x \in DataOf(L)

IsOpaque(f) ==
    \E m \in BOOLEAN, n \in Name \cup {NoName} : \E L \in 0 .. MaxBlocks :
        f \in [made : {m}, name : {n}, data : DataOf(L)]

\* No name is carried twice, and none by a file that does not exist.
NamesUnique(dk) ==
    /\ \A g, h \in Handle : g # h /\ dk[g].name = dk[h].name => dk[g].name = NoName
    /\ \A h \in Handle : ~dk[h].made => dk[h].name = NoName

\* What carries the name of a database's file is sealed under its key, but
\* for the blank blocks of an import that was cut short.
SealedFor(d, n, data) ==
    \A k \in 0 .. data.len - 1 :
        Authentic(Sealed(d, n), k, data.at[k]) \/ (n = Main(d) /\ data.at[k] = Hole)

DiskOK(dk) ==
    /\ dk = [h \in Handle |-> dk[h]]
    /\ \A h \in Handle : IsOpaque(dk[h])
    /\ NamesUnique(dk)
    /\ \A d \in Db, h \in Handle :
          dk[h].name \in {Main(d), Journal(d)} => SealedFor(d, dk[h].name, dk[h].data)

Memory ==
    [up : BOOLEAN, avail : Seq(Handle), map : [Name -> Handle \cup {NoHandle}],
     key : [Handle -> Db \cup {PoolKey}], logical : [Handle -> 0 .. MaxBlocks * B \cup {Unknown}],
     open : SUBSET SqliteName, dbs : SUBSET Db]

\* Every opaque file is free, or the one the table gives for its name.
Accounted(dk, p) ==
    /\ IsInjective(p.avail)
    /\ \A h \in Range(p.avail) : dk[h] = Fresh
    /\ \A h \in Handle \ Range(p.avail) :
          dk[h].made => dk[h].name # NoName /\ p.map[dk[h].name] = h
    /\ \A n \in Name : p.map[n] # NoHandle => dk[p.map[n]].made /\ dk[p.map[n]].name = n

\* No byte size in memory goes past the blocks on disk.
SizesFit(dk, p) ==
    \A n \in Name : p.map[n] # NoHandle /\ p.logical[p.map[n]] # Unknown =>
        p.logical[p.map[n]] <= dk[p.map[n]].data.len * B

\* An open file authenticates under the key of its handle, and the handle of
\* a database's file has the database's key.
OpenOK(dk, p) ==
    /\ \A n \in p.open :
          /\ p.map[n] # NoHandle
          /\ AllAuthentic(dk[p.map[n]].data, [key |-> p.key[p.map[n]], name |-> n])
    /\ \A d \in Db :
          /\ Main(d) \in p.open => d \in p.dbs /\ p.key[p.map[Main(d)]] = d
          /\ Journal(d) \in p.open => p.key[p.map[Journal(d)]] = d

MemoryOK(dk, p) ==
    /\ p \in Memory
    /\ ~p.up => p = Down
    /\ p.up => Accounted(dk, p) /\ SizesFit(dk, p) /\ OpenOK(dk, p)

PoolInv == DiskOK(disk) /\ MemoryOK(disk, pool)

-----------------------------------------------------------------------------
(* Stacks of free handles *)

LEMMA AppendFree ==
    ASSUME NEW s \in Seq(Handle), IsInjective(s), NEW h \in Handle, h \notin Range(s)
    PROVE  /\ Append(s, h) \in Seq(Handle) /\ IsInjective(Append(s, h))
           /\ Range(Append(s, h)) = Range(s) \cup {h}
           /\ Append(s, h) # <<>> /\ Last(Append(s, h)) = h
<1> DEFINE t == Append(s, h)
           n == Len(s)
<1>1. n \in Nat /\ DOMAIN s = 1 .. n  BY LenProperties
<1>2. /\ t \in Seq(Handle) /\ t # <<>> /\ Len(t) = n + 1
      /\ \A i \in 1 .. n : t[i] = s[i]
      /\ t[n + 1] = h
  BY AppendProperties
<1>3. DOMAIN t = 1 .. n + 1  BY <1>2, LenProperties
<1> HIDE DEF t, n
<1>4. \A i \in 1 .. n : s[i] \in Range(s)  BY <1>1 DEF Range
<1>5. Range(t) = Range(s) \cup {h}
  <2>1. \A i \in 1 .. n + 1 : t[i] \in Range(s) \cup {h}
    <3> TAKE i \in 1 .. n + 1
    <3>1. i \in 1 .. n \/ i = n + 1  BY <1>1
    <3> QED  BY <1>2, <1>4, <3>1
  <2>2. Range(t) \subseteq Range(s) \cup {h}  BY <1>3, <2>1 DEF Range
  <2>3. \A x \in Range(s) : x \in Range(t)
    <3> TAKE x \in Range(s)
    <3>1. PICK i \in 1 .. n : s[i] = x  BY <1>1 DEF Range
    <3>2. i \in 1 .. n + 1 /\ t[i] = x  BY <1>1, <1>2, <3>1
    <3> QED  BY <1>3, <3>2 DEF Range
  <2>4. h \in Range(t)
    <3>1. n + 1 \in 1 .. n + 1  BY <1>1
    <3> QED  BY <1>2, <1>3, <3>1 DEF Range
  <2> QED  BY <2>2, <2>3, <2>4
<1>6. IsInjective(t)
  <2> SUFFICES ASSUME NEW i \in 1 .. n + 1, NEW j \in 1 .. n + 1, t[i] = t[j] PROVE i = j
    BY <1>3 DEF IsInjective
  <2>1. (i \in 1 .. n \/ i = n + 1) /\ (j \in 1 .. n \/ j = n + 1)  BY <1>1
  <2>2. CASE i \in 1 .. n /\ j \in 1 .. n  BY <1>1, <1>2, <2>2 DEF IsInjective
  <2>3. CASE i \in 1 .. n /\ j = n + 1  BY <1>2, <1>4, <2>3
  <2>4. CASE j \in 1 .. n /\ i = n + 1  BY <1>2, <1>4, <2>4
  <2> QED  BY <2>1, <2>2, <2>3, <2>4
<1>7. Last(t) = h  BY <1>2 DEF Last
<1> QED  BY <1>2, <1>5, <1>6, <1>7 DEF t

LEMMA FrontFree ==
    ASSUME NEW s \in Seq(Handle), IsInjective(s), s # <<>>
    PROVE  /\ Front(s) \in Seq(Handle) /\ IsInjective(Front(s))
           /\ Last(s) \in Range(s) /\ Last(s) \in Handle
           /\ Range(Front(s)) = Range(s) \ {Last(s)}
<1> DEFINE n == Len(s)
           t == Front(s)
<1>1. n \in Nat \ {0} /\ DOMAIN s = 1 .. n /\ \A i \in 1 .. n : s[i] \in Handle
  BY LenProperties, EmptySeq
<1>2. /\ t \in Seq(Handle) /\ Len(t) = n - 1
      /\ \A i \in 1 .. n - 1 : t[i] = s[i]
  <2>1. \A i \in 1 .. n - 1 : s[i] \in Handle  BY <1>1
  <2>2. n - 1 \in Int /\ 1 \in Int  BY <1>1
  <2> HIDE DEF n
  <2>3. /\ SubSeq(s, 1, n - 1) \in Seq(Handle)
        /\ Len(SubSeq(s, 1, n - 1)) = IF 1 <= n - 1 THEN (n - 1) - 1 + 1 ELSE 0
        /\ \A i \in 1 .. (n - 1) - 1 + 1 : SubSeq(s, 1, n - 1)[i] = s[1 + i - 1]
    BY <2>1, <2>2, SubSeqProperties
  <2>4. (n - 1) - 1 + 1 = n - 1 /\ \A i \in 1 .. n - 1 : 1 + i - 1 = i  BY <1>1
  <2>5. Len(SubSeq(s, 1, n - 1)) = n - 1  BY <1>1, <2>3
  <2>6. t = SubSeq(s, 1, n - 1)  BY DEF Front, n
  <2>7. \A i \in 1 .. n - 1 : SubSeq(s, 1, n - 1)[i] = s[i]
    <3> TAKE i \in 1 .. n - 1
    <3>1. i \in 1 .. (n - 1) - 1 + 1 /\ 1 + i - 1 = i  BY <2>4
    <3> QED  BY <2>3, <3>1
  <2> QED  BY <2>3, <2>5, <2>6, <2>7
<1>3. DOMAIN t = 1 .. n - 1  BY <1>2, LenProperties
<1>4. Last(s) = s[n]  BY DEF Last
<1> HIDE DEF n, t
<1>5. n \in 1 .. n /\ \A i \in 1 .. n - 1 : i \in 1 .. n /\ i # n  BY <1>1
<1>6. \A i \in 1 .. n : i = n \/ i \in 1 .. n - 1  BY <1>1
<1>7. \A i, j \in 1 .. n : s[i] = s[j] => i = j  BY <1>1 DEF IsInjective
<1>8. IsInjective(t)
  <2> SUFFICES ASSUME NEW i \in 1 .. n - 1, NEW j \in 1 .. n - 1, t[i] = t[j] PROVE i = j
    BY <1>3 DEF IsInjective
  <2> QED  BY <1>2, <1>5, <1>7
<1>9. Last(s) \in Range(s) /\ Last(s) \in Handle  BY <1>1, <1>4, <1>5 DEF Range
<1>10. Range(t) = Range(s) \ {Last(s)}
  <2>1. \A x : x \in Range(t) <=> \E i \in 1 .. n - 1 : s[i] = x
    BY <1>2, <1>3 DEF Range
  <2>2. \A x : x \in Range(s) <=> \E i \in 1 .. n : s[i] = x  BY <1>1 DEF Range
  <2>3. \A x : x \in Range(t) => x \in Range(s) /\ x # Last(s)
    BY <1>4, <1>5, <1>7, <2>1, <2>2
  <2>4. \A x : x \in Range(s) /\ x # Last(s) => x \in Range(t)
    BY <1>4, <1>6, <2>1, <2>2
  <2> QED  BY <2>3, <2>4
<1> QED  BY <1>2, <1>8, <1>9, <1>10 DEF t

\* Every order of a finite set of handles.
LEMMA OrderFree ==
    ASSUME NEW S \in SUBSET Handle, NEW s \in SetToSeqs(S)
    PROVE  s \in Seq(Handle) /\ IsInjective(s) /\ Range(s) = S
<1> DEFINE n == Cardinality(S)
<1>1. IsFiniteSet(S)  BY FS_Subset, PoolAssumption
<1>2. n \in Nat  BY <1>1, FS_CardinalityType
<1>3. s \in [1 .. n -> S] /\ \A i, j \in 1 .. n : i # j => s[i] # s[j]  BY DEF SetToSeqs
<1>4. IsInjective(s)  BY <1>3 DEF IsInjective
<1>5. s \in Seq(Handle)  BY <1>2, <1>3
<1>6. IsFiniteSet(1 .. n) /\ Cardinality(1 .. n) = n
  <2> HIDE DEF n
  <2>1. IsFiniteSet(1 .. n) /\ Cardinality(1 .. n) = IF 1 > n THEN 0 ELSE n - 1 + 1
    BY <1>2, FS_Interval
  <2> QED  BY <1>2, <2>1
<1>7. s \in Injection(1 .. n, S)  BY <1>3, <1>4 DEF Injection
<1>8. s \in Surjection(1 .. n, S)
  <2>1. Cardinality(1 .. n) = Cardinality(S)  BY <1>6
  <2> HIDE DEF n
  <2> QED  BY <1>1, <1>7, <2>1, FS_Injection
<1>9. Range(s) = S  BY <1>3, <1>8 DEF Surjection, Range
<1> QED  BY <1>4, <1>5, <1>9

LEMMA JoinFree ==
    ASSUME NEW s \in Seq(Handle), NEW t \in Seq(Handle), IsInjective(s), IsInjective(t),
           Range(s) \cap Range(t) = {}
    PROVE  /\ s \o t \in Seq(Handle) /\ IsInjective(s \o t)
           /\ Range(s \o t) = Range(s) \cup Range(t)
<1> DEFINE m == Len(s)
           n == Len(t)
           u == s \o t
<1>1. m \in Nat /\ n \in Nat /\ DOMAIN s = 1 .. m /\ DOMAIN t = 1 .. n  BY LenProperties
<1>2. /\ u \in Seq(Handle) /\ Len(u) = m + n
      /\ \A i \in 1 .. m + n : u[i] = IF i <= m THEN s[i] ELSE t[i - m]
  BY ConcatProperties
<1>3. DOMAIN u = 1 .. m + n  BY <1>2, LenProperties
<1>4. Range(u) = Range(s) \cup Range(t)  BY RangeConcatenation
<1> HIDE DEF m, n, u
<1>5. \A i \in 1 .. m + n : /\ i <= m => i \in 1 .. m /\ u[i] = s[i]
                            /\ ~(i <= m) => i - m \in 1 .. n /\ u[i] = t[i - m]
  BY <1>1, <1>2
<1>6. (\A i \in 1 .. m : s[i] \in Range(s)) /\ (\A i \in 1 .. n : t[i] \in Range(t))
  BY <1>1 DEF Range
<1>7. IsInjective(u)
  <2> SUFFICES ASSUME NEW i \in 1 .. m + n, NEW j \in 1 .. m + n, u[i] = u[j] PROVE i = j
    BY <1>3 DEF IsInjective
  <2>1. CASE i <= m /\ j <= m  BY <1>1, <1>5, <2>1 DEF IsInjective
  <2>2. CASE ~(i <= m) /\ ~(j <= m)
    <3>1. i - m = j - m  BY <1>1, <1>5, <2>2 DEF IsInjective
    <3> QED  BY <1>1, <3>1
  <2>3. CASE i <= m /\ ~(j <= m)  BY <1>5, <1>6, <2>3
  <2>4. CASE ~(i <= m) /\ j <= m  BY <1>5, <1>6, <2>4
  <2> QED  BY <2>1, <2>2, <2>3, <2>4
<1> QED  BY <1>2, <1>4, <1>7 DEF u

-----------------------------------------------------------------------------
(* Data regions *)

LEMMA DataFields ==
    ASSUME NEW x, IsData(x)
    PROVE  /\ x.len \in 0 .. MaxBlocks /\ x.len \in Nat /\ x \in DataOf(x.len)
           /\ x.at \in [0 .. x.len - 1 -> Block]
           /\ x \in Region(Doms, x.len)
<1>1. PICK L \in 0 .. MaxBlocks : x \in DataOf(L)  BY DEF IsData
<1>2. x.len = L /\ x.at \in [0 .. L - 1 -> Block]  BY <1>1 DEF DataOf
<1>3. L \in Nat  BY PoolAssumption
<1>4. [0 .. B - 1 -> Byte] \subseteq Plain  BY PoolAssumption DEF Plain
<1>5. Block \subseteq [dom : Doms, index : Nat, plain : Plain]  BY <1>4 DEF Block
<1>6. x \in Region(Doms, L)
  <2>1. x \in [len : {L}, at : [0 .. L - 1 -> Block]]  BY <1>1 DEF DataOf
  <2>2. x.at \in [0 .. L - 1 -> [dom : Doms, index : Nat, plain : Plain]]
    <3> HIDE DEF Block
    <3> QED  BY <1>2, <1>5
  <2> QED  BY <2>1, <2>2 DEF Region
<1> QED  BY <1>1, <1>2, <1>3, <1>6

LEMMA EmptyData == IsData(Empty) /\ Empty.len = 0
<1>1. Empty \in DataOf(0)  BY DEF Empty, DataOf
<1>2. 0 \in 0 .. MaxBlocks  BY PoolAssumption
<1> QED  BY <1>1, <1>2 DEF IsData, Empty

LEMMA MakeData ==
    ASSUME NEW L \in 0 .. MaxBlocks, NEW f \in [0 .. L - 1 -> Block]
    PROVE  IsData([len |-> L, at |-> f])
  BY DEF IsData, DataOf

LEMMA SealBlock ==
    ASSUME NEW dom \in Doms, NEW k \in Nat, NEW plain \in [0 .. B - 1 -> Byte]
    PROVE  Seal(dom, k, plain) \in Block /\ Authentic(dom, k, Seal(dom, k, plain))
  BY DEF Seal, Block, Authentic

LEMMA ByteOfData ==
    ASSUME NEW x, IsData(x), NEW i \in Nat
    PROVE  ByteAt(x, i) \in Byte
<1>1. i \div B \in Nat /\ i % B \in 0 .. B - 1  BY DivMod
<1>2. x.len \in Nat /\ x.at \in [0 .. x.len - 1 -> Block]  BY DataFields
<1>3. CASE i \div B < x.len
  <2>1. i \div B \in 0 .. x.len - 1  BY <1>1, <1>2, <1>3
  <2>2. x.at[i \div B] \in Block  BY <1>2, <2>1
  <2>3. x.at[i \div B].plain \in [0 .. B - 1 -> Byte]  BY <2>2 DEF Block
  <2> QED  BY <1>1, <1>3, <2>3 DEF ByteAt
<1>4. CASE ~(i \div B < x.len)  BY <1>4, PoolAssumption DEF ByteAt
<1> QED  BY <1>3, <1>4

LEMMA OverlayPlain ==
    ASSUME NEW x, IsData(x), NEW k \in Nat, NEW off, NEW n, NEW v \in Byte
    PROVE  Overlay(x, k, off, n, v) \in [0 .. B - 1 -> Byte]
<1>1. \A j \in 0 .. B - 1 : k * B + j \in Nat  BY BAssumption
<1>2. \A j \in 0 .. B - 1 : ByteAt(x, k * B + j) \in Byte  BY <1>1, ByteOfData
<1> QED  BY <1>2 DEF Overlay

\* What a write leaves at each block it has reached.
LEMMA WrittenData ==
    ASSUME NEW x, IsData(x), NEW dom \in Doms, AllAuthentic(x, dom),
           NEW off \in Nat, NEW n \in Nat \ {0}, NEW v \in Byte,
           off <= x.len * B, off + n <= MaxBlocks * B,
           NEW last \in FirstBlock(off) .. LastBlock(off, n)
    PROVE  LET w == Written(x, dom, off, n, v, last)
           IN  /\ IsData(w) /\ AllAuthentic(w, dom)
               /\ x.len <= w.len /\ last + 1 <= w.len
               /\ last = LastBlock(off, n) => off + n <= w.len * B
<1> DEFINE F == FirstBlock(off)
           E == LastBlock(off, n)
           w == Written(x, dom, off, n, v, last)
           len == Larger(x.len, last + 1)
<1>1. off + n - 1 \in Nat /\ F \in Nat /\ E \in Nat
  BY DivMod DEF FirstBlock, LastBlock
<1>2. x.len \in Nat /\ x.len <= MaxBlocks /\ x.at \in [0 .. x.len - 1 -> Block] /\ MaxBlocks \in Nat
  BY DataFields, PoolAssumption
<1>3. last \in Nat /\ F <= last /\ last <= E  BY <1>1
<1>4. F <= x.len
  <2>1. F * B <= off /\ F * B \in Int /\ x.len * B \in Int
    <3>1. F * B <= off /\ F * B \in Int  BY <1>1, DivMod, BAssumption, SMT DEF FirstBlock
    <3>2. x.len * B \in Int
      <4>1. PICK L \in Nat : L = x.len  BY <1>2
      <4>2. L * B \in Int  BY BAssumption
      <4> QED  BY <4>1, <4>2
    <3> QED  BY <3>1, <3>2
  <2>2. CASE x.len < F
    <3>1. x.len * B + B <= F * B  BY <1>1, <1>2, <2>2, BlockOrder
    <3> QED  BY <2>1, <3>1, BAssumption
  <2> QED  BY <1>1, <1>2, <2>2
<1>5. E + 1 <= MaxBlocks
  <2>1. ~(MaxBlocks * B <= off + n - 1)
    <3>1. MaxBlocks * B \in Int  BY <1>2, BAssumption, SMT
    <3> QED  BY <3>1
  <2>2. ~(MaxBlocks <= E)  BY <1>1, <1>2, <2>1, BlockOf DEF LastBlock
  <2> QED  BY <1>1, <1>2, <2>2
<1>6. /\ len \in 0 .. MaxBlocks /\ len \in Nat /\ x.len <= len /\ last + 1 <= len
      /\ len = x.len \/ len = last + 1
  BY <1>1, <1>2, <1>3, <1>5 DEF Larger
<1>7. w = [len |-> len,
           at |-> [k \in 0 .. len - 1 |->
                     IF F <= k /\ k <= last THEN Seal(dom, k, Overlay(x, k, off, n, v)) ELSE x.at[k]]]
  BY DEF Written
<1> HIDE DEF F, E, len, w
<1>8. ASSUME NEW k \in 0 .. len - 1
      PROVE  /\ F <= k /\ k <= last =>
                   /\ Seal(dom, k, Overlay(x, k, off, n, v)) \in Block
                   /\ Authentic(dom, k, Seal(dom, k, Overlay(x, k, off, n, v)))
             /\ ~(F <= k /\ k <= last) => x.at[k] \in Block /\ Authentic(dom, k, x.at[k])
  <2>1. k \in Nat  BY <1>6
  <2>2. Overlay(x, k, off, n, v) \in [0 .. B - 1 -> Byte]  BY <2>1, OverlayPlain
  <2>3. CASE F <= k /\ k <= last  BY <2>1, <2>2, <2>3, SealBlock
  <2>4. CASE ~(F <= k /\ k <= last)
    <3>1. k \in 0 .. x.len - 1  BY <1>1, <1>2, <1>3, <1>4, <1>6, <2>1, <2>4
    <3> QED  BY <1>2, <2>4, <3>1 DEF AllAuthentic
  <2> QED  BY <2>3, <2>4
<1>9. w.len = len /\ w.at \in [0 .. len - 1 -> Block]  BY <1>7, <1>8
<1>10. IsData(w)
  <2>1. w = [len |-> len, at |-> w.at]  BY <1>7
  <2> QED  BY <1>6, <1>9, <2>1, MakeData
<1>11. AllAuthentic(w, dom)
  <2>1. \A k \in 0 .. len - 1 : w.at[k] = IF F <= k /\ k <= last
                                          THEN Seal(dom, k, Overlay(x, k, off, n, v)) ELSE x.at[k]
    BY <1>7
  <2> QED  BY <1>8, <1>9, <2>1 DEF AllAuthentic
<1>12. ASSUME last = E PROVE off + n <= w.len * B
  <2>1. ~((E + 1) * B <= off + n - 1)
    <3>1. ~(E + 1 <= E) /\ E + 1 \in Int  BY <1>1
    <3> QED  BY <1>1, <3>1, BlockOf DEF E, LastBlock
  <2>2. E + 1 <= len  BY <1>6, <1>12
  <2>3. (E + 1) * B <= len * B
    <3>1. CASE E + 1 = len  BY <3>1, <1>6, BAssumption
    <3>2. CASE E + 1 < len
      <4>1. (E + 1) * B + B <= len * B  BY <1>1, <1>6, <3>2, BlockOrder
      <4>2. (E + 1) * B \in Int /\ len * B \in Int  BY <1>1, <1>6, BAssumption
      <4> QED  BY <4>1, <4>2, BAssumption
    <3> QED  BY <1>1, <1>6, <2>2, <3>1, <3>2
  <2>4. (E + 1) * B \in Int /\ len * B \in Int  BY <1>1, <1>6, BAssumption
  <2> QED  BY <1>9, <2>1, <2>3, <2>4
<1> QED  BY <1>6, <1>9, <1>10, <1>11, <1>12 DEF w, E

\* What a truncate leaves after each of its two operations.
LEMMA ResealedData ==
    ASSUME NEW x, IsData(x), NEW dom \in Doms, AllAuthentic(x, dom), NEW size \in Nat
    PROVE  LET r == Resealed(x, dom, size)
           IN  IsData(r) /\ AllAuthentic(r, dom) /\ r.len = x.len
<1> DEFINE q == size \div B
           tail == [j \in 0 .. B - 1 |-> IF j < size % B THEN x.at[q].plain[j] ELSE 0]
           r == Resealed(x, dom, size)
<1>1. CASE ~HasTail(x, size)
  <2>1. r = x  BY <1>1 DEF Resealed
  <2> QED  BY <2>1
<1>2. CASE HasTail(x, size)
  <2>1. q \in Nat /\ q < x.len  BY <1>2, DivMod DEF HasTail
  <2>2. x.len \in Nat /\ x.at \in [0 .. x.len - 1 -> Block] /\ x \in DataOf(x.len)
        /\ x.len \in 0 .. MaxBlocks
    BY DataFields
  <2>3. q \in 0 .. x.len - 1  BY <2>1, <2>2
  <2>4. x.at[q].plain \in [0 .. B - 1 -> Byte]
    <3>1. x.at[q] \in Block  BY <2>2, <2>3
    <3> QED  BY <3>1 DEF Block
  <2>5. tail \in [0 .. B - 1 -> Byte]  BY <2>4, PoolAssumption
  <2>6. r = [x EXCEPT !.at[q] = Seal(dom, q, tail)]  BY <1>2 DEF Resealed
  <2> HIDE DEF q, tail, r
  <2>7. Seal(dom, q, tail) \in Block /\ Authentic(dom, q, Seal(dom, q, tail))
    BY <2>1, <2>5, SealBlock
  <2>8. r = [len |-> x.len, at |-> [x.at EXCEPT ![q] = Seal(dom, q, tail)]]
    <3>1. x = [len |-> x.len, at |-> x.at]  BY <2>2 DEF DataOf
    <3>2. r.len = x.len /\ r.at = [x.at EXCEPT ![q] = Seal(dom, q, tail)]
          /\ r \in [len : {x.len}, at : {r.at}]
      BY <2>2, <2>6 DEF DataOf
    <3> QED  BY <3>2
  <2>9. [x.at EXCEPT ![q] = Seal(dom, q, tail)] \in [0 .. x.len - 1 -> Block]  BY <2>2, <2>7
  <2>10. IsData(r)  BY <2>2, <2>8, <2>9, MakeData
  <2>11. r.len = x.len /\ r.at = [x.at EXCEPT ![q] = Seal(dom, q, tail)]  BY <2>8
  <2>12. \A k \in 0 .. x.len - 1 : Authentic(dom, k, r.at[k])
    <3> TAKE k \in 0 .. x.len - 1
    <3>1. CASE k = q  BY <2>2, <2>3, <2>7, <2>11, <3>1
    <3>2. CASE k # q
      <4>1. r.at[k] = x.at[k]  BY <2>2, <2>11, <3>2
      <4> QED  BY <4>1 DEF AllAuthentic
    <3> QED  BY <3>1, <3>2
  <2> QED  BY <2>10, <2>11, <2>12 DEF AllAuthentic, r
<1> QED  BY <1>1, <1>2

LEMMA CutData ==
    ASSUME NEW x, IsData(x), NEW dom \in Doms, AllAuthentic(x, dom),
           NEW len \in Nat, len <= x.len
    PROVE  LET t == PhysTruncated(x, len)
           IN  IsData(t) /\ AllAuthentic(t, dom) /\ t.len = len
<1> DEFINE t == PhysTruncated(x, len)
<1>1. x.len \in 0 .. MaxBlocks /\ x.len \in Nat /\ x.at \in [0 .. x.len - 1 -> Block]
  BY DataFields
<1>2. \A k \in 0 .. len - 1 : k \in 0 .. x.len - 1 /\ k < x.len  BY <1>1
<1>3. t = [len |-> len, at |-> [k \in 0 .. len - 1 |-> IF k < x.len THEN x.at[k] ELSE Hole]]
  BY DEF PhysTruncated
<1> HIDE DEF t
<1>4. t.len = len /\ \A k \in 0 .. len - 1 : t.at[k] = x.at[k]  BY <1>2, <1>3
<1>5. t.at \in [0 .. len - 1 -> Block]  BY <1>1, <1>2, <1>3
<1>6. t = [len |-> len, at |-> t.at]  BY <1>3
<1>7. len \in 0 .. MaxBlocks  BY <1>1, PoolAssumption
<1>8. IsData(t)  BY <1>5, <1>6, <1>7, MakeData
<1>9. AllAuthentic(t, dom)  BY <1>2, <1>4 DEF AllAuthentic
<1> QED  BY <1>4, <1>8, <1>9 DEF t

LEMMA TruncatedData ==
    ASSUME NEW x, IsData(x), NEW dom \in Doms, AllAuthentic(x, dom), NEW size \in Nat,
           size <= x.len * B
    PROVE  LET t == Truncated(x, dom, size)
           IN  IsData(t) /\ AllAuthentic(t, dom) /\ size <= t.len * B
<1>1. PICK r : r = Resealed(x, dom, size)  OBVIOUS
<1>2. IsData(r) /\ AllAuthentic(r, dom) /\ r.len = x.len  BY <1>1, ResealedData
<1>3. Blocks(size) \in Nat /\ Blocks(size) <= x.len
  <2>1. x.len \in Nat  BY DataFields
  <2> QED  BY <2>1, BlocksCover
<1>4. PICK len : len = Blocks(size)  OBVIOUS
<1>5. PICK t : t = PhysTruncated(r, len)  OBVIOUS
<1>6. IsData(t) /\ AllAuthentic(t, dom) /\ t.len = len  BY <1>2, <1>3, <1>4, <1>5, CutData
<1>7. size <= len * B
  <2>1. CASE size = 0
    <3>1. len \in Nat  BY <1>3, <1>4
    <3>2. len * B \in Nat  BY <3>1, BAssumption
    <3> QED  BY <2>1, <3>2
  <2>2. CASE size # 0
    <3>1. size - 1 \in Nat /\ size - 1 < size  BY <2>2
    <3>2. (size - 1) \div B < len /\ len \in Nat /\ (size - 1) \div B \in Nat
      BY <1>3, <1>4, <3>1, BlocksCover, DivMod
    <3>3. ~(len <= (size - 1) \div B)  BY <3>2
    <3>4. ~(len * B <= size - 1)  BY <3>1, <3>2, <3>3, BlockOf
    <3>5. len * B \in Int  BY <3>2, BAssumption
    <3> QED  BY <3>1, <3>4, <3>5
  <2> QED  BY <2>1, <2>2
<1> QED  BY <1>1, <1>4, <1>5, <1>6, <1>7 DEF Truncated

\* The two images of an import: blank blocks, then sealed ones.
LEMMA HoleBlock == Hole \in Block
  BY PoolAssumption DEF Hole, Block, Doms

LEMMA BlankData ==
    LET t == PhysTruncated(Empty, 1)
    IN  IsData(t) /\ \A k \in 0 .. t.len - 1 : t.at[k] = Hole
<1> DEFINE t == PhysTruncated(Empty, 1)
<1>1. t = [len |-> 1, at |-> [k \in 0 .. 0 |-> Hole]]
  BY EmptyData DEF PhysTruncated
<1>2. 1 \in 0 .. MaxBlocks  BY PoolAssumption
<1>3. [k \in 0 .. 0 |-> Hole] \in [0 .. 1 - 1 -> Block]  BY HoleBlock
<1>4. IsData(t)  BY <1>1, <1>2, <1>3, MakeData
<1>5. \A k \in 0 .. t.len - 1 : t.at[k] = Hole  BY <1>1
<1> QED  BY <1>4, <1>5

LEMMA ImageData ==
    ASSUME NEW dom \in Doms, NEW v \in Byte
    PROVE  LET t == Written(Empty, dom, 0, 1 * B, v, 0)
           IN  IsData(t) /\ AllAuthentic(t, dom)
<1>1. 1 * B = B /\ B \in Nat \ {0} /\ 0 * B = 0  BY BAssumption
<1>2. FirstBlock(0) = 0 /\ LastBlock(0, B) = 0
  <2>1. 0 \div B = 0 /\ (0 + B - 1) \div B = 0
    <3>1. 0 + B - 1 \in Nat /\ 0 + B - 1 < B  BY BAssumption
    <3>2. (0 + B - 1) \div B \in Nat /\ 0 \div B \in Nat  BY <3>1, DivMod
    <3>3. ~(1 * B <= 0 + B - 1) /\ ~(1 * B <= 0)  BY <1>1
    <3>4. ~(1 <= (0 + B - 1) \div B) /\ ~(1 <= 0 \div B)  BY <3>1, <3>3, BlockOf
    <3> QED  BY <3>2, <3>4
  <2> QED  BY <2>1 DEF FirstBlock, LastBlock
<1>3. 0 \in FirstBlock(0) .. LastBlock(0, B)  BY <1>2
<1>4. AllAuthentic(Empty, dom)  BY EmptyData DEF AllAuthentic
<1>5. 0 <= Empty.len * B /\ 0 + B <= MaxBlocks * B
  <2>1. 0 <= Empty.len * B  BY <1>1, EmptyData
  <2>2. CASE MaxBlocks = 1  BY <1>1, <2>2, <2>1
  <2>3. CASE 1 < MaxBlocks
    <3>1. 1 * B + B <= MaxBlocks * B /\ MaxBlocks * B \in Int
      BY <2>3, BlockOrder, PoolAssumption, BAssumption
    <3> QED  BY <1>1, <2>1, <3>1
  <2> QED  BY <2>2, <2>3, PoolAssumption
<1> QED  BY <1>1, <1>3, <1>4, <1>5, EmptyData, WrittenData

-----------------------------------------------------------------------------
(* Names, and the disk when one opaque file changes *)

LEMMA NameFacts ==
    /\ \A d \in Db : /\ Main(d) \in SqliteName /\ Main(d) \in Mains
                     /\ Journal(d) \in SqliteName /\ Journal(d) \in Journals
                     /\ Main(d) \in Name /\ Journal(d) \in Name /\ Manifest(d) \in Name
    /\ \A t \in Temp : TempFile(t) \in Temps /\ TempFile(t) \in SqliteName /\ TempFile(t) \in Name
    /\ SqliteName \subseteq Name
    /\ \A c, d \in Db : /\ Main(c) # Journal(d) /\ Main(c) # Manifest(d) /\ Journal(c) # Manifest(d)
                        /\ Main(c) = Main(d) => c = d
                        /\ Journal(c) = Journal(d) => c = d
    /\ \A c \in Db, t \in Temp : Main(c) # TempFile(t) /\ Journal(c) # TempFile(t)
    /\ NoName \notin Name /\ \A n \in Name : n # NoName
  BY PoolAssumption DEF Main, Journal, Manifest, TempFile, Mains, Journals, Temps, SqliteName, Name

LEMMA OpaqueFields ==
    ASSUME NEW f, IsOpaque(f)
    PROVE  /\ f.made \in BOOLEAN /\ f.name \in Name \cup {NoName} /\ IsData(f.data)
           /\ f = [made |-> f.made, name |-> f.name, data |-> f.data]
<1>1. PICK m \in BOOLEAN, n \in Name \cup {NoName}, L \in 0 .. MaxBlocks :
         f \in [made : {m}, name : {n}, data : DataOf(L)]
  BY DEF IsOpaque
<1>2. f.made = m /\ f.name = n /\ f.data \in DataOf(L)  BY <1>1
<1>3. f = [made |-> f.made, name |-> f.name, data |-> f.data]  BY <1>1
<1> QED  BY <1>2, <1>3 DEF IsData

LEMMA MakeOpaque ==
    ASSUME NEW m \in BOOLEAN, NEW n \in Name \cup {NoName}, NEW x, IsData(x)
    PROVE  LET f == [made |-> m, name |-> n, data |-> x]
           IN  IsOpaque(f) /\ f.made = m /\ f.name = n /\ f.data = x
<1>1. PICK L \in 0 .. MaxBlocks : x \in DataOf(L)  BY DEF IsData
<1>2. [made |-> m, name |-> n, data |-> x] \in [made : {m}, name : {n}, data : DataOf(L)]
  BY <1>1
<1> QED  BY <1>2 DEF IsOpaque

LEMMA OpaqueExcept ==
    ASSUME NEW m, NEW n, NEW y, NEW f, f = [made |-> m, name |-> n, data |-> y], NEW z
    PROVE  /\ [f EXCEPT !.data = z] = [made |-> m, name |-> n, data |-> z]
           /\ [f EXCEPT !.name = z] = [made |-> m, name |-> z, data |-> y]
           /\ [f EXCEPT !.made = z] = [made |-> z, name |-> n, data |-> y]
  OBVIOUS

LEMMA FreshFile ==
    /\ IsOpaque(Fresh) /\ Fresh.made /\ Fresh.name = NoName /\ Fresh.data = Empty
    /\ IsOpaque(Unmade) /\ ~Unmade.made /\ Unmade.name = NoName /\ Unmade.data = Empty
<1>1. Fresh = [made |-> TRUE, name |-> NoName, data |-> Empty]  BY DEF Fresh
<1>7. Unmade = [made |-> FALSE, name |-> NoName, data |-> Empty]
  <2>1. PICK x : x = Empty  OBVIOUS
  <2>2. Fresh = [made |-> TRUE, name |-> NoName, data |-> x]  BY <1>1, <2>1
  <2>3. PICK yes : yes = TRUE  OBVIOUS
  <2>4. PICK no : no = FALSE  OBVIOUS
  <2>5. Fresh = [made |-> yes, name |-> NoName, data |-> x]  BY <2>2, <2>3
  <2>6. [Fresh EXCEPT !.made = no] = [made |-> no, name |-> NoName, data |-> x]
    BY <2>5, OpaqueExcept
  <2>7. Unmade = [Fresh EXCEPT !.made = no]  BY <2>4, Zenon DEF Unmade
  <2> QED  BY <2>1, <2>4, <2>6, <2>7, Zenon
<1>2. TRUE \in BOOLEAN /\ FALSE \in BOOLEAN /\ NoName \in Name \cup {NoName}  OBVIOUS
<1>3. IsData(Empty)  BY EmptyData
<1>4. PICK x : x = Empty  OBVIOUS
<1>5. IsOpaque([made |-> TRUE, name |-> NoName, data |-> x])  BY <1>2, <1>3, <1>4, MakeOpaque
<1>6. IsOpaque([made |-> FALSE, name |-> NoName, data |-> x])  BY <1>2, <1>3, <1>4, MakeOpaque
<1>8. Fresh.made /\ Fresh.name = NoName /\ Fresh.data = Empty  BY <1>1
<1>9. ~Unmade.made /\ Unmade.name = NoName /\ Unmade.data = Empty  BY <1>7
<1> QED  BY <1>1, <1>4, <1>5, <1>6, <1>7, <1>8, <1>9

PutFile(dk, h, f) == [dk EXCEPT ![h] = f]

LEMMA DiskUpdate ==
    ASSUME NEW dk, DiskOK(dk), NEW h \in Handle, NEW f, IsOpaque(f),
           f.name # NoName => f.made /\ \A g \in Handle \ {h} : dk[g].name # f.name,
           \A d \in Db : f.name \in {Main(d), Journal(d)} => SealedFor(d, f.name, f.data),
           NEW e, e = PutFile(dk, h, f)
    PROVE  DiskOK(e) /\ e[h] = f /\ \A g \in Handle \ {h} : e[g] = dk[g]
<1>1. dk = [g \in Handle |-> dk[g]]  BY DEF DiskOK
<1>2. /\ e = [g \in Handle |-> e[g]] /\ e[h] = f
      /\ \A g \in Handle \ {h} : e[g] = dk[g]
  BY <1>1 DEF PutFile
<1>3. \A g \in Handle : g = h \/ g \in Handle \ {h}  OBVIOUS
<1>4. \A g \in Handle : IsOpaque(e[g])  BY <1>2, <1>3 DEF DiskOK
<1>5. NamesUnique(dk)  BY DEF DiskOK
<1>6. \A g, i \in Handle : g # i /\ e[g].name = e[i].name => e[g].name = NoName
  <2> SUFFICES ASSUME NEW g \in Handle, NEW i \in Handle, g # i, e[g].name = e[i].name,
                      e[g].name # NoName
               PROVE  FALSE
    OBVIOUS
  <2>1. CASE g = h /\ i # h  BY <1>2, <2>1
  <2>2. CASE i = h /\ g # h  BY <1>2, <2>2
  <2>3. CASE i # h /\ g # h  BY <1>2, <1>5, <2>3 DEF NamesUnique
  <2> QED  BY <2>1, <2>2, <2>3
<1>7. \A g \in Handle : ~e[g].made => e[g].name = NoName
  BY <1>2, <1>3, <1>5 DEF NamesUnique
<1>8. \A d \in Db, g \in Handle :
         e[g].name \in {Main(d), Journal(d)} => SealedFor(d, e[g].name, e[g].data)
  <2> TAKE d \in Db, g \in Handle
  <2>1. CASE g = h  BY <1>2, <2>1
  <2>2. CASE g # h  BY <1>2, <2>2 DEF DiskOK
  <2> QED  BY <2>1, <2>2
<1>9. DiskOK(e)  BY <1>2, <1>4, <1>6, <1>7, <1>8 DEF DiskOK, NamesUnique
<1> QED  BY <1>2, <1>9

\* The same for the data of a file, which keeps its name.
LEMMA DataUpdate ==
    ASSUME NEW dk, DiskOK(dk), NEW h \in Handle, NEW x, IsData(x),
           \A d \in Db : dk[h].name \in {Main(d), Journal(d)} => SealedFor(d, dk[h].name, x),
           NEW e, e = WithData(dk, h, x)
    PROVE  /\ DiskOK(e)
           /\ (dk[h].made => e[h].made) /\ e[h].name = dk[h].name /\ e[h].data = x
           /\ \A g \in Handle \ {h} : e[g] = dk[g]
<1> DEFINE f == [made |-> dk[h].made, name |-> dk[h].name, data |-> x]
<1>1. /\ dk = [g \in Handle |-> dk[g]] /\ IsOpaque(dk[h]) /\ NamesUnique(dk)
  BY DEF DiskOK
<1>2. /\ dk[h].made \in BOOLEAN /\ dk[h].name \in Name \cup {NoName}
      /\ dk[h] = [made |-> dk[h].made, name |-> dk[h].name, data |-> dk[h].data]
  BY <1>1, OpaqueFields
<1>3. e = PutFile(dk, h, f)
  <2>1. PICK m, n, y : dk[h] = [made |-> m, name |-> n, data |-> y]  BY <1>2
  <2>2. dk[h].made = m /\ dk[h].name = n  BY <2>1
  <2>3. [dk[h] EXCEPT !.data = x] = [made |-> m, name |-> n, data |-> x]
    BY <2>1, OpaqueExcept
  <2> QED  BY <2>2, <2>3 DEF WithData, PutFile
<1>4. IsOpaque(f) /\ f.made = dk[h].made /\ f.name = dk[h].name /\ f.data = x
  BY <1>2, MakeOpaque
<1> HIDE DEF f
<1>5. f.name # NoName => f.made /\ \A g \in Handle \ {h} : dk[g].name # f.name
  BY <1>1, <1>4 DEF NamesUnique
<1>6. \A d \in Db : f.name \in {Main(d), Journal(d)} => SealedFor(d, f.name, f.data)
  BY <1>4
<1> QED  BY <1>3, <1>4, <1>5, <1>6, DiskUpdate

-----------------------------------------------------------------------------
(* The file table *)

LEMMA MemoryFields ==
    ASSUME NEW p \in Memory
    PROVE  /\ p.up \in BOOLEAN /\ p.avail \in Seq(Handle)
           /\ p.map \in [Name -> Handle \cup {NoHandle}]
           /\ p.key \in [Handle -> Db \cup {PoolKey}]
           /\ p.logical \in [Handle -> 0 .. MaxBlocks * B \cup {Unknown}]
           /\ p.open \subseteq SqliteName /\ p.dbs \subseteq Db
  BY DEF Memory

LEMMA ZeroSize == 0 \in 0 .. MaxBlocks * B
<1>1. MaxBlocks * B \in Nat  BY PoolAssumption, BAssumption
<1> QED  BY <1>1

\* A name the table does not know is in no header, and one it knows is in one.
LEMMA Unnamed ==
    ASSUME NEW dk, NEW p, DiskOK(dk), MemoryOK(dk, p), p.up, NEW n \in Name, p.map[n] = NoHandle
    PROVE  \A g \in Handle : dk[g].name # n
<1> SUFFICES ASSUME NEW g \in Handle, dk[g].name = n PROVE FALSE
  OBVIOUS
<1>1. Accounted(dk, p) /\ NamesUnique(dk)  BY DEF MemoryOK, DiskOK
<1>2. n # NoName  BY NameFacts
<1>3. dk[g].made  BY <1>1, <1>2 DEF NamesUnique
<1>4. CASE g \in Range(p.avail)
  <2>1. dk[g] = Fresh  BY <1>1, <1>4 DEF Accounted
  <2> QED  BY <1>2, <2>1, FreshFile
<1>5. CASE g \in Handle \ Range(p.avail)
  <2>1. p.map[n] = g  BY <1>1, <1>3, <1>5 DEF Accounted
  <2> QED  BY <2>1, PoolAssumption
<1> QED  BY <1>4, <1>5

LEMMA Holds ==
    ASSUME NEW dk, NEW p, DiskOK(dk), MemoryOK(dk, p), p.up, NEW n \in Name, p.map[n] # NoHandle
    PROVE  /\ p.map[n] \in Handle /\ dk[p.map[n]].made /\ dk[p.map[n]].name = n
           /\ p.map[n] \notin Range(p.avail)
           /\ IsData(dk[p.map[n]].data)
           /\ \A m \in Name \ {n} : p.map[m] # p.map[n]
<1>1. Accounted(dk, p) /\ p \in Memory  BY DEF MemoryOK
<1>2. p.map[n] \in Handle  BY <1>1, MemoryFields
<1>3. dk[p.map[n]].made /\ dk[p.map[n]].name = n  BY <1>1 DEF Accounted
<1>4. p.map[n] \notin Range(p.avail)
  <2>1. CASE p.map[n] \in Range(p.avail)
    <3>1. dk[p.map[n]] = Fresh  BY <1>1, <2>1 DEF Accounted
    <3> QED  BY <1>3, <3>1, FreshFile, NameFacts
  <2> QED  BY <2>1
<1>5. IsData(dk[p.map[n]].data)  BY <1>2, OpaqueFields DEF DiskOK
<1>6. ASSUME NEW m \in Name \ {n}, p.map[m] = p.map[n] PROVE FALSE
  <2>1. dk[p.map[m]].name = m  BY <1>1, <1>6 DEF Accounted
  <2> QED  BY <1>3, <1>6, <2>1
<1> QED  BY <1>2, <1>3, <1>4, <1>5, <1>6

LEMMA LinkedFields ==
    ASSUME NEW p \in Memory, NEW n \in Name, NEW h \in Handle, h = Last(p.avail),
           Front(p.avail) \in Seq(Handle), NEW q, q = Linked(p, n)
    PROVE  /\ q \in Memory /\ (p.up => q.up) /\ q.avail = Front(p.avail)
           /\ q.map[n] = h /\ \A m \in Name \ {n} : q.map[m] = p.map[m]
           /\ q.logical[h] = 0 /\ \A g \in Handle \ {h} : q.logical[g] = p.logical[g]
           /\ q.key = p.key /\ q.open = p.open /\ q.dbs = p.dbs
<1>1. PICK f : f = Front(p.avail)  OBVIOUS
<1>3. q = [p EXCEPT !.map[n] = h, !.avail = f, !.logical[h] = 0]
  BY <1>1 DEF Linked
<1>4. /\ q.up = p.up /\ q.avail = f /\ q.map = [p.map EXCEPT ![n] = h]
      /\ q.logical = [p.logical EXCEPT ![h] = 0]
      /\ q.key = p.key /\ q.open = p.open /\ q.dbs = p.dbs
  BY <1>3 DEF Memory
<1>5. q \in Memory
  <2>1. [p.map EXCEPT ![n] = h] \in [Name -> Handle \cup {NoHandle}]
        /\ [p.logical EXCEPT ![h] = 0] \in [Handle -> 0 .. MaxBlocks * B \cup {Unknown}]
    BY MemoryFields, ZeroSize
  <2> QED  BY <1>1, <1>3, <2>1 DEF Memory
<1> QED  BY <1>1, <1>4, <1>5, MemoryFields

LEMMA LinkOK ==
    ASSUME NEW dk, NEW p, DiskOK(dk), MemoryOK(dk, p), p.up, p.avail # <<>>,
           NEW n \in Name, p.map[n] = NoHandle,
           NEW h, h = Last(p.avail), NEW q, q = Linked(p, n), NEW e, e = LinkDisk(dk, p, n)
    PROVE  /\ h \in Handle /\ h \in Range(p.avail) /\ DiskOK(e) /\ MemoryOK(e, q)
           /\ q.up
           /\ q.map[n] = h /\ \A m \in Name \ {n} : q.map[m] = p.map[m]
           /\ e[h].name = n /\ e[h].data = Empty /\ q.logical[h] = 0
           /\ \A g \in Handle \ {h} : e[g] = dk[g] /\ q.logical[g] = p.logical[g]
           /\ q.key = p.key /\ q.open = p.open /\ q.dbs = p.dbs /\ q.avail = Front(p.avail)
<1>1. p \in Memory /\ Accounted(dk, p) /\ SizesFit(dk, p) /\ OpenOK(dk, p)  BY DEF MemoryOK
<1>2. p.avail \in Seq(Handle) /\ IsInjective(p.avail)  BY <1>1, MemoryFields DEF Accounted
<1>3. /\ h \in Handle /\ h \in Range(p.avail) /\ Front(p.avail) \in Seq(Handle)
      /\ IsInjective(Front(p.avail)) /\ Range(Front(p.avail)) = Range(p.avail) \ {h}
  BY <1>2, FrontFree
<1>4. dk[h] = Fresh  BY <1>1, <1>3 DEF Accounted
<1>5. /\ q \in Memory /\ q.up /\ q.avail = Front(p.avail)
      /\ q.map[n] = h /\ \A m \in Name \ {n} : q.map[m] = p.map[m]
      /\ q.logical[h] = 0 /\ \A g \in Handle \ {h} : q.logical[g] = p.logical[g]
      /\ q.key = p.key /\ q.open = p.open /\ q.dbs = p.dbs
  BY <1>1, <1>3, LinkedFields
<1> DEFINE f == [made |-> TRUE, name |-> n, data |-> Empty]
<1>6. e = PutFile(dk, h, f)
  <2>1. PICK x : x = Empty  OBVIOUS
  <2>2. PICK yes : yes = TRUE  OBVIOUS
  <2>3. Fresh = [made |-> yes, name |-> NoName, data |-> x]  BY <2>1, <2>2 DEF Fresh
  <2>4. [Fresh EXCEPT !.name = n] = [made |-> yes, name |-> n, data |-> x]  BY <2>3, OpaqueExcept
  <2>5. dk = [g \in Handle |-> dk[g]]  BY DEF DiskOK
  <2>6. e = [dk EXCEPT ![h] = [Fresh EXCEPT !.name = n]]  BY <1>3, <1>4, <2>5 DEF LinkDisk
  <2> QED  BY <2>1, <2>2, <2>4, <2>6 DEF PutFile
<1>7. IsOpaque(f) /\ f.name = n /\ f.made /\ f.data = Empty
  <2>1. TRUE \in BOOLEAN /\ n \in Name \cup {NoName} /\ IsData(Empty)  BY EmptyData
  <2>2. PICK x : x = Empty  OBVIOUS
  <2>3. IsOpaque([made |-> TRUE, name |-> n, data |-> x])  BY <2>1, <2>2, MakeOpaque
  <2> QED  BY <2>2, <2>3
<1> HIDE DEF f
<1>8. f.name # NoName => f.made /\ \A g \in Handle \ {h} : dk[g].name # f.name
  BY <1>7, Unnamed
<1>9. \A d \in Db : f.name \in {Main(d), Journal(d)} => SealedFor(d, f.name, f.data)
  BY <1>7, EmptyData DEF SealedFor
<1>10. DiskOK(e) /\ e[h] = f /\ \A g \in Handle \ {h} : e[g] = dk[g]
  BY <1>3, <1>6, <1>7, <1>8, <1>9, DiskUpdate
<1>11. \A m \in Name : m # n /\ p.map[m] # NoHandle =>
          p.map[m] \in Handle \ {h} /\ q.map[m] = p.map[m] /\ e[p.map[m]] = dk[p.map[m]]
  <2> SUFFICES ASSUME NEW m \in Name, m # n, p.map[m] # NoHandle
               PROVE  p.map[m] \in Handle \ {h} /\ q.map[m] = p.map[m] /\ e[p.map[m]] = dk[p.map[m]]
    OBVIOUS
  <2>1. p.map[m] \in Handle /\ p.map[m] # h  BY <1>3, Holds
  <2>2. q.map[m] = p.map[m]  BY <1>1, <1>5, MemoryFields
  <2> QED  BY <1>10, <2>1, <2>2
<1>12. q.map[n] = h /\ \A m \in Name \ {n} : q.map[m] = p.map[m]
  BY <1>1, <1>5, MemoryFields
<1>13. Accounted(e, q)
  <2>1. \A g \in Range(q.avail) : e[g] = Fresh
    <3> TAKE g \in Range(q.avail)
    <3>1. g \in Range(p.avail) /\ g # h  BY <1>3, <1>5
    <3>2. g \in Handle  BY <1>2, <3>1, RangeOfSeq
    <3> QED  BY <1>1, <1>10, <3>1, <3>2 DEF Accounted
  <2>2. \A g \in Handle \ Range(q.avail) :
           e[g].made => e[g].name # NoName /\ q.map[e[g].name] = g
    <3> TAKE g \in Handle \ Range(q.avail)
    <3>1. CASE g = h  BY <1>7, <1>10, <1>12, <3>1, NameFacts
    <3>2. CASE g # h
      <4>1. g \in Handle \ Range(p.avail) /\ e[g] = dk[g]  BY <1>3, <1>5, <1>10, <3>2
      <4>2. dk[g].made => dk[g].name # NoName /\ p.map[dk[g].name] = g
        BY <1>1, <4>1 DEF Accounted
      <4>3. dk[g].name # n  BY <4>1, Unnamed
      <4>4. dk[g].name \in Name \cup {NoName}  BY <4>1, OpaqueFields DEF DiskOK
      <4> QED  BY <1>12, <4>1, <4>2, <4>3, <4>4
    <3> QED  BY <3>1, <3>2
  <2>3. \A m \in Name : q.map[m] # NoHandle => e[q.map[m]].made /\ e[q.map[m]].name = m
    <3> TAKE m \in Name
    <3>1. CASE m = n  BY <1>7, <1>10, <1>12, <3>1
    <3>2. CASE m # n  BY <1>1, <1>11, <1>12, <3>2 DEF Accounted
    <3> QED  BY <3>1, <3>2
  <2> QED  BY <1>3, <1>5, <2>1, <2>2, <2>3 DEF Accounted
<1>14. SizesFit(e, q)
  <2> SUFFICES ASSUME NEW m \in Name, q.map[m] # NoHandle, q.logical[q.map[m]] # Unknown
               PROVE  q.logical[q.map[m]] <= e[q.map[m]].data.len * B
    BY DEF SizesFit
  <2>1. CASE m = n
    <3>1. q.logical[h] = 0 /\ q.map[m] = h  BY <1>1, <1>3, <1>5, <1>12, <2>1, MemoryFields
    <3>2. e[h].data.len * B = 0  BY <1>7, <1>10, EmptyData, BAssumption
    <3> QED  BY <3>1, <3>2
  <2>2. CASE m # n
    <3>1. q.map[m] = p.map[m] /\ p.map[m] \in Handle \ {h} /\ e[p.map[m]] = dk[p.map[m]]
      BY <1>11, <1>12, <2>2
    <3>2. q.logical[p.map[m]] = p.logical[p.map[m]]  BY <1>1, <1>5, <3>1, MemoryFields
    <3> QED  BY <1>1, <3>1, <3>2 DEF SizesFit
  <2> QED  BY <2>1, <2>2
<1>15. OpenOK(e, q)
  <2>1. \A m \in p.open : m \in Name /\ m # n /\ p.map[m] # NoHandle
    BY <1>1, MemoryFields, NameFacts DEF OpenOK
  <2>2. \A m \in p.open : q.map[m] = p.map[m] /\ e[q.map[m]] = dk[p.map[m]]  BY <1>11, <2>1
  <2>3. \A m \in q.open :
           /\ q.map[m] # NoHandle
           /\ AllAuthentic(e[q.map[m]].data, [key |-> q.key[q.map[m]], name |-> m])
    <3> TAKE m \in q.open
    <3>1. AllAuthentic(dk[p.map[m]].data, [key |-> p.key[p.map[m]], name |-> m])
      BY <1>1, <1>5 DEF OpenOK
    <3>2. q.map[m] = p.map[m] /\ e[q.map[m]] = dk[p.map[m]] /\ p.map[m] # NoHandle
      BY <1>5, <2>1, <2>2
    <3> QED  BY <1>5, <3>1, <3>2
  <2>4. \A d \in Db : /\ Main(d) \in q.open => d \in q.dbs /\ q.key[q.map[Main(d)]] = d
                      /\ Journal(d) \in q.open => q.key[q.map[Journal(d)]] = d
    BY <1>1, <1>5, <2>2 DEF OpenOK
  <2> QED  BY <2>3, <2>4 DEF OpenOK
<1> QED  BY <1>3, <1>5, <1>7, <1>10, <1>13, <1>14, <1>15 DEF MemoryOK

LEMMA UnlinkedFields ==
    ASSUME NEW p \in Memory, NEW n \in Name, NEW h \in Handle, h = p.map[n],
           Append(p.avail, h) \in Seq(Handle), NEW q, q = Unlinked(p, n)
    PROVE  /\ q \in Memory /\ (p.up => q.up) /\ q.avail = Append(p.avail, h)
           /\ q.map[n] = NoHandle /\ \A m \in Name \ {n} : q.map[m] = p.map[m]
           /\ q.logical = p.logical /\ q.key = p.key /\ q.open = p.open /\ q.dbs = p.dbs
<1>1. PICK f : f = Append(p.avail, h)  OBVIOUS
<1>2. q = [p EXCEPT !.map[n] = NoHandle, !.avail = f]
  BY <1>1 DEF Unlinked
<1>3. /\ q.up = p.up /\ q.avail = f /\ q.map = [p.map EXCEPT ![n] = NoHandle]
      /\ q.logical = p.logical /\ q.key = p.key /\ q.open = p.open /\ q.dbs = p.dbs
  BY <1>2 DEF Memory
<1>4. q \in Memory
  <2>1. [p.map EXCEPT ![n] = NoHandle] \in [Name -> Handle \cup {NoHandle}]
    BY MemoryFields
  <2> QED  BY <1>1, <1>2, <2>1 DEF Memory
<1> QED  BY <1>1, <1>3, <1>4, MemoryFields

\* A deletion: the disks of its two operations, and the memory it leaves.
LEMMA UnlinkOK ==
    ASSUME NEW dk, NEW p, DiskOK(dk), MemoryOK(dk, p), p.up,
           NEW n \in Name, p.map[n] # NoHandle, n \notin p.open,
           NEW h, h = p.map[n], NEW q, q = Unlinked(p, n),
           NEW e1, e1 = WithData(dk, h, Empty), NEW e, e = PutFile(dk, h, Fresh)
    PROVE  /\ h \in Handle /\ DiskOK(e1) /\ DiskOK(e) /\ MemoryOK(e, q)
           /\ q.up /\ q.avail # <<>>
           /\ q.map[n] = NoHandle /\ \A m \in Name \ {n} : q.map[m] = p.map[m]
           /\ q.open = p.open /\ q.dbs = p.dbs /\ q.logical = p.logical
           /\ e1[h].name = n /\ e1[h].data = Empty /\ e[h] = Fresh
           /\ \A g \in Handle \ {h} : e1[g] = dk[g] /\ e[g] = dk[g]
<1>1. p \in Memory /\ Accounted(dk, p) /\ SizesFit(dk, p) /\ OpenOK(dk, p)  BY DEF MemoryOK
<1>2. p.avail \in Seq(Handle) /\ IsInjective(p.avail)  BY <1>1, MemoryFields DEF Accounted
<1>3. /\ h \in Handle /\ h \notin Range(p.avail) /\ dk[h].name = n
      /\ \A m \in Name \ {n} : p.map[m] # h
  BY Holds
<1>4. /\ Append(p.avail, h) \in Seq(Handle) /\ IsInjective(Append(p.avail, h))
      /\ Range(Append(p.avail, h)) = Range(p.avail) \cup {h} /\ Append(p.avail, h) # <<>>
  BY <1>2, <1>3, AppendFree
<1>5. /\ q \in Memory /\ q.up /\ q.avail = Append(p.avail, h)
      /\ q.map[n] = NoHandle /\ \A m \in Name \ {n} : q.map[m] = p.map[m]
      /\ q.logical = p.logical /\ q.key = p.key /\ q.open = p.open /\ q.dbs = p.dbs
  BY <1>1, <1>3, <1>4, UnlinkedFields
<1>6. /\ DiskOK(e1) /\ e1[h].name = n /\ e1[h].data = Empty
      /\ \A g \in Handle \ {h} : e1[g] = dk[g]
  <2>1. \A d \in Db : dk[h].name \in {Main(d), Journal(d)} => SealedFor(d, dk[h].name, Empty)
    BY EmptyData DEF SealedFor
  <2> QED  BY <1>3, <2>1, EmptyData, DataUpdate
<1>7. DiskOK(e) /\ e[h] = Fresh /\ \A g \in Handle \ {h} : e[g] = dk[g]
  <2>1. \A d \in Db : Fresh.name \notin {Main(d), Journal(d)}  BY FreshFile, NameFacts
  <2> QED  BY <1>3, <2>1, FreshFile, DiskUpdate
<1>8. \A m \in Name : m # n /\ p.map[m] # NoHandle =>
          p.map[m] \in Handle \ {h} /\ q.map[m] = p.map[m] /\ e[p.map[m]] = dk[p.map[m]]
  <2> SUFFICES ASSUME NEW m \in Name, m # n, p.map[m] # NoHandle
               PROVE  p.map[m] \in Handle \ {h} /\ q.map[m] = p.map[m] /\ e[p.map[m]] = dk[p.map[m]]
    OBVIOUS
  <2>1. p.map[m] \in Handle /\ p.map[m] # h  BY <1>3, Holds
  <2> QED  BY <1>5, <1>7, <2>1
<1>9. Accounted(e, q)
  <2>1. \A g \in Range(q.avail) : e[g] = Fresh
    <3> TAKE g \in Range(q.avail)
    <3>1. CASE g = h  BY <1>7, <3>1
    <3>2. CASE g # h
      <4>1. g \in Range(p.avail)  BY <1>4, <1>5, <3>2
      <4>2. g \in Handle  BY <1>2, <4>1, RangeOfSeq
      <4> QED  BY <1>1, <1>7, <3>2, <4>1, <4>2 DEF Accounted
    <3> QED  BY <3>1, <3>2
  <2>2. \A g \in Handle \ Range(q.avail) :
           e[g].made => e[g].name # NoName /\ q.map[e[g].name] = g
    <3> TAKE g \in Handle \ Range(q.avail)
    <3>1. g # h /\ g \in Handle \ Range(p.avail) /\ e[g] = dk[g]  BY <1>4, <1>5, <1>7
    <3>2. dk[g].made => dk[g].name # NoName /\ p.map[dk[g].name] = g
      BY <1>1, <3>1 DEF Accounted
    <3>3. dk[g].name = n => ~dk[g].made  BY <3>1, <3>2
    <3>4. dk[g].name \in Name \cup {NoName}  BY <3>1, OpaqueFields DEF DiskOK
    <3> QED  BY <1>5, <3>1, <3>2, <3>3, <3>4
  <2>3. \A m \in Name : q.map[m] # NoHandle => e[q.map[m]].made /\ e[q.map[m]].name = m
    <3> TAKE m \in Name
    <3>1. CASE m = n  BY <1>5, <3>1
    <3>2. CASE m # n  BY <1>1, <1>5, <1>8, <3>2 DEF Accounted
    <3> QED  BY <3>1, <3>2
  <2> QED  BY <1>4, <1>5, <2>1, <2>2, <2>3 DEF Accounted
<1>10. SizesFit(e, q)
  <2> SUFFICES ASSUME NEW m \in Name, q.map[m] # NoHandle, q.logical[q.map[m]] # Unknown
               PROVE  q.logical[q.map[m]] <= e[q.map[m]].data.len * B
    BY DEF SizesFit
  <2>1. m # n  BY <1>5
  <2>2. q.map[m] = p.map[m] /\ e[p.map[m]] = dk[p.map[m]]  BY <1>5, <1>8, <2>1
  <2> QED  BY <1>1, <1>5, <2>2 DEF SizesFit
<1>11. OpenOK(e, q)
  <2>1. \A m \in p.open : m \in Name /\ m # n /\ p.map[m] # NoHandle
    BY <1>1, MemoryFields, NameFacts DEF OpenOK
  <2>2. \A m \in p.open : q.map[m] = p.map[m] /\ e[q.map[m]] = dk[p.map[m]]  BY <1>8, <2>1
  <2>3. \A m \in q.open :
           /\ q.map[m] # NoHandle
           /\ AllAuthentic(e[q.map[m]].data, [key |-> q.key[q.map[m]], name |-> m])
    <3> TAKE m \in q.open
    <3>1. AllAuthentic(dk[p.map[m]].data, [key |-> p.key[p.map[m]], name |-> m])
      BY <1>1, <1>5 DEF OpenOK
    <3>2. q.map[m] = p.map[m] /\ e[q.map[m]] = dk[p.map[m]] /\ p.map[m] # NoHandle
      BY <1>5, <2>1, <2>2
    <3> QED  BY <1>5, <3>1, <3>2
  <2>4. \A d \in Db : /\ Main(d) \in q.open => d \in q.dbs /\ q.key[q.map[Main(d)]] = d
                      /\ Journal(d) \in q.open => q.key[q.map[Journal(d)]] = d
    BY <1>1, <1>5, <2>2 DEF OpenOK
  <2> QED  BY <2>3, <2>4 DEF OpenOK
<1> QED  BY <1>3, <1>4, <1>5, <1>6, <1>7, <1>9, <1>10, <1>11 DEF MemoryOK

\* Closing, without the deletion of a temporary file.
LEMMA CloseOK ==
    ASSUME NEW dk, NEW p, MemoryOK(dk, p), p.up, NEW n, NEW q, q = [p EXCEPT !.open = @ \ {n}]
    PROVE  /\ MemoryOK(dk, q) /\ q.up /\ q.map = p.map /\ q.open = p.open \ {n}
           /\ q.logical = p.logical
<1>1. p \in Memory /\ Accounted(dk, p) /\ SizesFit(dk, p) /\ OpenOK(dk, p)  BY DEF MemoryOK
<1>2. /\ q \in Memory /\ q.up /\ q.avail = p.avail /\ q.map = p.map
      /\ q.logical = p.logical /\ q.key = p.key /\ q.open = p.open \ {n} /\ q.dbs = p.dbs
  <2>1. p.open \ {n} \in SUBSET SqliteName  BY <1>1, MemoryFields
  <2>2. PICK o : o = p.open \ {n}  OBVIOUS
  <2>3. q = [p EXCEPT !.open = o]  BY <1>1, <2>2 DEF Memory
  <2>4. q \in Memory  BY <1>1, <2>1, <2>2, <2>3 DEF Memory
  <2>5. /\ q.up = p.up /\ q.avail = p.avail /\ q.map = p.map
        /\ q.logical = p.logical /\ q.key = p.key /\ q.open = o /\ q.dbs = p.dbs
    BY <1>1, <2>3 DEF Memory
  <2> QED  BY <2>2, <2>4, <2>5
<1>3. Accounted(dk, q)  BY <1>1, <1>2 DEF Accounted
<1>4. SizesFit(dk, q)  BY <1>1, <1>2 DEF SizesFit
<1>5. OpenOK(dk, q)  BY <1>1, <1>2 DEF OpenOK
<1> QED  BY <1>2, <1>3, <1>4, <1>5 DEF MemoryOK

\* New contents for a file the table holds, and a byte size that fits them.
Rewriting(p, q, n, h, x) ==
    /\ n \in Name /\ p.map[n] # NoHandle /\ h = p.map[n] /\ IsData(x)
    /\ \A d \in Db : n \in {Main(d), Journal(d)} => SealedFor(d, n, x)
    /\ n \in p.open => AllAuthentic(x, [key |-> p.key[h], name |-> n])
    /\ q \in Memory /\ q.up /\ q.avail = p.avail /\ q.map = p.map /\ q.key = p.key
    /\ q.open = p.open /\ q.dbs = p.dbs
    /\ \A g \in Handle \ {h} : q.logical[g] = p.logical[g]
    /\ q.logical[h] # Unknown => q.logical[h] <= x.len * B

LEMMA ContentOK ==
    ASSUME NEW dk, NEW p, DiskOK(dk), MemoryOK(dk, p), p.up,
           NEW q, NEW n, NEW h, NEW x, Rewriting(p, q, n, h, x), NEW e, e = WithData(dk, h, x)
    PROVE  /\ DiskOK(e) /\ MemoryOK(e, q) /\ e[h].data = x
           /\ \A g \in Handle \ {h} : e[g] = dk[g]
<1> USE DEF Rewriting
<1>1. p \in Memory /\ Accounted(dk, p) /\ SizesFit(dk, p) /\ OpenOK(dk, p)  BY DEF MemoryOK
<1>2. /\ h \in Handle /\ h \notin Range(p.avail) /\ dk[h].name = n /\ dk[h].made
      /\ \A m \in Name \ {n} : p.map[m] # h
  BY Holds
<1>3. /\ DiskOK(e) /\ e[h].made /\ e[h].name = n /\ e[h].data = x
      /\ \A g \in Handle \ {h} : e[g] = dk[g]
  <2>1. \A d \in Db : dk[h].name \in {Main(d), Journal(d)} => SealedFor(d, dk[h].name, x)
    BY <1>2
  <2>2. /\ DiskOK(e) /\ (dk[h].made => e[h].made) /\ e[h].name = dk[h].name /\ e[h].data = x
        /\ \A g \in Handle \ {h} : e[g] = dk[g]
    BY <1>2, <2>1, DataUpdate
  <2> QED  BY <1>2, <2>2
<1>4. \A m \in Name : m # n /\ p.map[m] # NoHandle =>
          p.map[m] \in Handle \ {h} /\ e[p.map[m]] = dk[p.map[m]]
  <2> SUFFICES ASSUME NEW m \in Name, m # n, p.map[m] # NoHandle
               PROVE  p.map[m] \in Handle \ {h} /\ e[p.map[m]] = dk[p.map[m]]
    OBVIOUS
  <2>1. p.map[m] \in Handle /\ p.map[m] # h  BY <1>2, Holds
  <2> QED  BY <1>3, <2>1
<1>5. Accounted(e, q)
  <2>1. \A g \in Range(q.avail) : e[g] = Fresh
    <3> TAKE g \in Range(q.avail)
    <3>1. g \in Range(p.avail) /\ g # h  BY <1>2
    <3>2. g \in Handle  BY <1>1, <3>1, MemoryFields, RangeOfSeq
    <3> QED  BY <1>1, <1>3, <3>1, <3>2 DEF Accounted
  <2>2. \A g \in Handle \ Range(q.avail) :
           e[g].made => e[g].name # NoName /\ q.map[e[g].name] = g
    <3> TAKE g \in Handle \ Range(q.avail)
    <3>1. CASE g = h  BY <1>3, <3>1, NameFacts
    <3>2. CASE g # h  BY <1>1, <1>3, <3>2 DEF Accounted
    <3> QED  BY <3>1, <3>2
  <2>3. \A m \in Name : q.map[m] # NoHandle => e[q.map[m]].made /\ e[q.map[m]].name = m
    <3> TAKE m \in Name
    <3>1. CASE m = n  BY <1>3, <3>1
    <3>2. CASE m # n  BY <1>1, <1>4, <3>2 DEF Accounted
    <3> QED  BY <3>1, <3>2
  <2> QED  BY <1>1, <2>1, <2>2, <2>3 DEF Accounted
<1>6. SizesFit(e, q)
  <2> SUFFICES ASSUME NEW m \in Name, q.map[m] # NoHandle, q.logical[q.map[m]] # Unknown
               PROVE  q.logical[q.map[m]] <= e[q.map[m]].data.len * B
    BY DEF SizesFit
  <2>1. CASE m = n  BY <1>3, <2>1
  <2>2. CASE m # n
    <3>1. p.map[m] \in Handle \ {h} /\ e[p.map[m]] = dk[p.map[m]]  BY <1>4, <2>2
    <3> QED  BY <1>1, <3>1 DEF SizesFit
  <2> QED  BY <2>1, <2>2
<1>7. OpenOK(e, q)
  <2>1. \A m \in q.open :
           /\ q.map[m] # NoHandle
           /\ AllAuthentic(e[q.map[m]].data, [key |-> q.key[q.map[m]], name |-> m])
    <3> TAKE m \in q.open
    <3>1. /\ p.map[m] # NoHandle /\ m \in Name
          /\ AllAuthentic(dk[p.map[m]].data, [key |-> p.key[p.map[m]], name |-> m])
      BY <1>1, MemoryFields, NameFacts DEF OpenOK
    <3>2. CASE m = n  BY <1>3, <3>1, <3>2
    <3>3. CASE m # n
      <4>1. e[p.map[m]] = dk[p.map[m]]  BY <1>4, <3>1, <3>3
      <4> QED  BY <3>1, <4>1
    <3> QED  BY <3>2, <3>3
  <2> QED  BY <1>1, <2>1 DEF OpenOK
<1> QED  BY <1>3, <1>5, <1>6, <1>7 DEF MemoryOK

-----------------------------------------------------------------------------
(* Opening *)

\* A file the table holds is opened: its handle gets a key that its contents
\* are sealed under, and no open file loses the key it has.
Opening(dk, p, q, n, h) ==
    /\ n \in SqliteName /\ p.map[n] # NoHandle /\ h = p.map[n]
    /\ q \in Memory /\ q.up /\ q.avail = p.avail /\ q.map = p.map
    /\ q.open = p.open \cup {n} /\ p.dbs \subseteq q.dbs
    /\ \A m \in Name \ {n} : p.map[m] # NoHandle => q.logical[p.map[m]] = p.logical[p.map[m]]
    /\ q.logical[h] # Unknown => q.logical[h] <= dk[h].data.len * B
    /\ \A m \in p.open : q.key[p.map[m]] = p.key[p.map[m]]
    /\ AllAuthentic(dk[h].data, [key |-> q.key[h], name |-> n])
    /\ \A d \in Db : /\ n = Main(d) => d \in q.dbs /\ q.key[h] = d
                     /\ n = Journal(d) => q.key[h] = d

LEMMA OpeningOK ==
    ASSUME NEW dk, NEW p, MemoryOK(dk, p), p.up, NEW q, NEW n, NEW h, Opening(dk, p, q, n, h)
    PROVE  MemoryOK(dk, q)
<1> USE DEF Opening
<1>1. p \in Memory /\ Accounted(dk, p) /\ SizesFit(dk, p) /\ OpenOK(dk, p)  BY DEF MemoryOK
<1>2. Accounted(dk, q)  BY <1>1 DEF Accounted
<1>3. SizesFit(dk, q)
  <2> SUFFICES ASSUME NEW m \in Name, q.map[m] # NoHandle, q.logical[q.map[m]] # Unknown
               PROVE  q.logical[q.map[m]] <= dk[q.map[m]].data.len * B
    BY DEF SizesFit
  <2>1. CASE m = n  BY <2>1
  <2>2. CASE m # n
    <3>1. q.logical[p.map[m]] = p.logical[p.map[m]]  BY <2>2
    <3> QED  BY <1>1, <3>1 DEF SizesFit
  <2> QED  BY <2>1, <2>2
<1>4. OpenOK(dk, q)
  <2>1. \A m \in q.open :
           /\ q.map[m] # NoHandle
           /\ AllAuthentic(dk[q.map[m]].data, [key |-> q.key[q.map[m]], name |-> m])
    <3> TAKE m \in q.open
    <3>1. CASE m = n  BY <3>1
    <3>2. CASE m # n
      <4>1. /\ p.map[m] # NoHandle
            /\ AllAuthentic(dk[p.map[m]].data, [key |-> p.key[p.map[m]], name |-> m])
        BY <1>1, <3>2 DEF OpenOK
      <4>2. q.key[p.map[m]] = p.key[p.map[m]]  BY <3>2
      <4> QED  BY <4>1, <4>2
    <3> QED  BY <3>1, <3>2
  <2>2. \A d \in Db : /\ Main(d) \in q.open => d \in q.dbs /\ q.key[q.map[Main(d)]] = d
                      /\ Journal(d) \in q.open => q.key[q.map[Journal(d)]] = d
    <3> TAKE d \in Db
    <3>1. /\ Main(d) \in p.open => d \in p.dbs /\ p.key[p.map[Main(d)]] = d
          /\ Journal(d) \in p.open => p.key[p.map[Journal(d)]] = d
      BY <1>1 DEF OpenOK
    <3>2. Main(d) \in q.open => Main(d) = n \/ Main(d) \in p.open  OBVIOUS
    <3>3. Journal(d) \in q.open => Journal(d) = n \/ Journal(d) \in p.open  OBVIOUS
    <3> QED  BY <3>1, <3>2, <3>3
  <2> QED  BY <2>1, <2>2 DEF OpenOK
<1> QED  BY <1>2, <1>3, <1>4 DEF MemoryOK

\* What is on disk for a journal is sealed under its database's key.
LEMMA JournalSealed ==
    ASSUME NEW dk, DiskOK(dk), NEW h \in Handle, NEW d \in Db, dk[h].name = Journal(d)
    PROVE  AllAuthentic(dk[h].data, Sealed(d, Journal(d)))
<1>1. SealedFor(d, Journal(d), dk[h].data)
  <2>1. dk[h].name \in {Main(d), Journal(d)}  OBVIOUS
  <2>2. SealedFor(d, dk[h].name, dk[h].data)  BY <2>1 DEF DiskOK
  <2> QED  BY <2>2
<1>2. Journal(d) # Main(d)  BY NameFacts
<1> QED  BY <1>1, <1>2 DEF SealedFor, AllAuthentic

\* The database's key goes to its main file and its journal.
LEMMA BoundOK ==
    ASSUME NEW dk, NEW p, DiskOK(dk), MemoryOK(dk, p), p.up, NEW d \in Db,
           p.map[Main(d)] # NoHandle, Main(d) \notin p.open,
           AllAuthentic(dk[p.map[Main(d)]].data, Sealed(d, Main(d))),
           NEW q, q = Bound(p, dk, d)
    PROVE  /\ MemoryOK(dk, q) /\ Opening(dk, p, q, Main(d), p.map[Main(d)])
           /\ q.logical[p.map[Main(d)]] = PhysicalSize(dk[p.map[Main(d)]].data)
<1> DEFINE n == Main(d)
           j == Journal(d)
           h == p.map[n]
           own == {h, p.map[j]} \ {NoHandle}
           s == PhysicalSize(dk[h].data)
<1>1. p \in Memory /\ OpenOK(dk, p)  BY DEF MemoryOK
<1>2. n \in Name /\ j \in Name /\ n # j /\ n \in SqliteName /\ SqliteName \subseteq Name
  BY NameFacts
<1>3. h \in Handle /\ IsData(dk[h].data) /\ \A m \in Name \ {n} : p.map[m] # h  BY <1>2, Holds
<1>4. s \in 0 .. MaxBlocks * B /\ s = dk[h].data.len * B
  <2>1. PICK L \in Nat : L = dk[h].data.len /\ L <= MaxBlocks  BY <1>3, DataFields
  <2>2. L * B \in Nat /\ MaxBlocks * B \in Nat  BY PoolAssumption, BAssumption
  <2>3. L * B <= MaxBlocks * B
    <3>1. CASE L = MaxBlocks  BY <2>2, <3>1
    <3>2. CASE L < MaxBlocks
      <4>1. L * B + B <= MaxBlocks * B  BY <3>2, BlockOrder, PoolAssumption
      <4> QED  BY <2>2, <4>1, BAssumption
    <3> QED  BY <2>1, <3>1, <3>2, PoolAssumption
  <2> QED  BY <2>1, <2>2, <2>3 DEF PhysicalSize
<1> DEFINE key == [g \in Handle |-> IF g \in own THEN d ELSE p.key[g]]
<1>5. q = [p EXCEPT !.key = key, !.logical[h] = s, !.open = p.open \cup {n}, !.dbs = p.dbs \cup {d}]
  BY <1>1 DEF Bound, Memory
<1>6. key \in [Handle -> Db \cup {PoolKey}]  BY <1>1, MemoryFields
<1>7. (\A g \in own : key[g] = d) /\ (\A g \in Handle \ own : key[g] = p.key[g]) /\ h \in own
  <2>1. own \subseteq Handle  BY <1>1, <1>2, <1>3, MemoryFields
  <2> QED  BY <2>1
<1> HIDE DEF s, key
<1>8. /\ q \in Memory /\ q.up = p.up /\ q.avail = p.avail /\ q.map = p.map
      /\ q.key = key /\ q.logical = [p.logical EXCEPT ![h] = s]
      /\ q.open = p.open \cup {n} /\ q.dbs = p.dbs \cup {d}
  <2>1. PICK o : o = p.open \cup {n}  OBVIOUS
  <2>2. PICK b : b = p.dbs \cup {d}  OBVIOUS
  <2>3. o \in SUBSET SqliteName /\ b \in SUBSET Db  BY <1>1, <1>2, <2>1, <2>2, MemoryFields
  <2>4. PICK l : l = [p.logical EXCEPT ![h] = s]  OBVIOUS
  <2>5. l \in [Handle -> 0 .. MaxBlocks * B \cup {Unknown}]
    BY <1>1, <1>3, <1>4, <2>4, MemoryFields
  <2>6. q = [p EXCEPT !.key = key, !.logical = l, !.open = o, !.dbs = b]
    BY <1>1, <1>5, <2>1, <2>2, <2>4 DEF Memory
  <2>7. q \in Memory  BY <1>1, <1>6, <2>3, <2>5, <2>6 DEF Memory
  <2>8. /\ q.up = p.up /\ q.avail = p.avail /\ q.map = p.map /\ q.key = key
        /\ q.logical = l /\ q.open = o /\ q.dbs = b
    BY <1>1, <2>6 DEF Memory
  <2> QED  BY <2>1, <2>2, <2>4, <2>7, <2>8
<1>9. \A m \in Name \ {n} : p.map[m] # NoHandle => q.logical[p.map[m]] = p.logical[p.map[m]]
  BY <1>1, <1>3, <1>8, MemoryFields
<1>10. q.logical[h] = s  BY <1>1, <1>3, <1>8, MemoryFields
<1>11. \A m \in p.open : q.key[p.map[m]] = p.key[p.map[m]]
  <2> TAKE m \in p.open
  <2>1. m \in Name /\ m # n /\ p.map[m] # NoHandle
    BY <1>1, <1>2, MemoryFields DEF OpenOK
  <2>2. p.map[m] \in Handle /\ p.map[m] # h  BY <1>1, <1>3, <2>1, MemoryFields
  <2>3. CASE m = j
    <3>1. p.key[p.map[j]] = d  BY <1>1, <2>3 DEF OpenOK
    <3>2. p.map[j] \in own  BY <2>1, <2>3
    <3> QED  BY <1>7, <1>8, <2>3, <3>1, <3>2
  <2>4. CASE m # j
    <3>1. p.map[m] # p.map[j]
      <4>1. CASE p.map[j] = NoHandle  BY <2>1, <4>1
      <4>2. CASE p.map[j] # NoHandle  BY <1>2, <2>1, <2>4, <4>2, Holds
      <4> QED  BY <4>1, <4>2
    <3>2. p.map[m] \in Handle \ own  BY <2>2, <3>1
    <3> QED  BY <1>7, <1>8, <3>2
  <2> QED  BY <2>3, <2>4
<1>12. q.key[h] = d  BY <1>7, <1>8
<1>13. AllAuthentic(dk[h].data, [key |-> q.key[h], name |-> n])  BY <1>12 DEF Sealed
<1>14. \A c \in Db : /\ n = Main(c) => c \in q.dbs /\ q.key[h] = c
                     /\ n = Journal(c) => q.key[h] = c
  BY <1>8, <1>12, NameFacts
<1>15. q.up /\ p.dbs \subseteq q.dbs  BY <1>8
<1>16. q.logical[h] # Unknown => q.logical[h] <= dk[h].data.len * B
  <2>1. s <= s  BY <1>4
  <2> QED  BY <1>4, <1>10, <2>1
<1>20. Opening(dk, p, q, n, h)  BY <1>2, <1>8, <1>9, <1>11, <1>13, <1>14, <1>15, <1>16 DEF Opening
<1> QED  BY <1>10, <1>20, OpeningOK DEF s

\* bind_satellite: the journal of an open database gets the database's key.
LEMMA SatelliteOK ==
    ASSUME NEW dk, NEW p, DiskOK(dk), MemoryOK(dk, p), p.up, NEW d \in Db,
           p.map[Journal(d)] # NoHandle, Main(d) \in p.open, Journal(d) \notin p.open,
           NEW q, q = [BindSatellite(p, d) EXCEPT !.open = @ \cup {Journal(d)}]
    PROVE  /\ MemoryOK(dk, q) /\ q.logical = p.logical
           /\ Opening(dk, p, q, Journal(d), p.map[Journal(d)])
<1> DEFINE n == Journal(d)
           h == p.map[n]
<1>1. p \in Memory /\ OpenOK(dk, p) /\ SizesFit(dk, p)  BY DEF MemoryOK
<1>2. n \in Name /\ n \in SqliteName /\ SqliteName \subseteq Name  BY NameFacts
<1>3. h \in Handle /\ dk[h].name = n /\ \A m \in Name \ {n} : p.map[m] # h  BY <1>2, Holds
<1>4. d \in p.dbs  BY <1>1 DEF OpenOK
<1> DEFINE key == [p.key EXCEPT ![h] = d]
           o == p.open \cup {n}
<1>5. key \in [Handle -> Db \cup {PoolKey}]  BY <1>1, <1>3, MemoryFields
<1>6. key[h] = d /\ \A g \in Handle \ {h} : key[g] = p.key[g]  BY <1>1, <1>3, MemoryFields
<1>7. o \in SUBSET SqliteName  BY <1>1, <1>2, MemoryFields
<1>8. q = [p EXCEPT !.key = key, !.open = o]
  BY <1>1, <1>4 DEF BindSatellite, Memory
<1> HIDE DEF key
<1>9. /\ q \in Memory /\ q.up /\ q.avail = p.avail /\ q.map = p.map
      /\ q.key = key /\ q.logical = p.logical
      /\ q.open = p.open \cup {n} /\ q.dbs = p.dbs
  <2>1. PICK oo : oo = o  OBVIOUS
  <2>2. q = [p EXCEPT !.key = key, !.open = oo]  BY <1>8, <2>1
  <2>3. q \in Memory  BY <1>1, <1>5, <1>7, <2>1, <2>2 DEF Memory
  <2>4. /\ q.up = p.up /\ q.avail = p.avail /\ q.map = p.map /\ q.key = key
        /\ q.logical = p.logical /\ q.open = oo /\ q.dbs = p.dbs
    BY <1>1, <2>2 DEF Memory
  <2> QED  BY <2>1, <2>3, <2>4
<1>10. \A m \in p.open : q.key[p.map[m]] = p.key[p.map[m]]
  <2> TAKE m \in p.open
  <2>1. m \in Name \ {n} /\ p.map[m] # NoHandle  BY <1>1, <1>2, MemoryFields DEF OpenOK
  <2>2. p.map[m] \in Handle \ {h}  BY <1>1, <1>3, <2>1, MemoryFields
  <2> QED  BY <1>6, <1>9, <2>2
<1>11. AllAuthentic(dk[h].data, [key |-> q.key[h], name |-> n])
  BY <1>3, <1>6, <1>9, JournalSealed DEF Sealed
<1>12. \A c \in Db : /\ n = Main(c) => c \in q.dbs /\ q.key[h] = c
                     /\ n = Journal(c) => q.key[h] = c
  BY <1>6, <1>9, NameFacts
<1>13. q.logical[h] # Unknown => q.logical[h] <= dk[h].data.len * B
  BY <1>1, <1>2, <1>9 DEF SizesFit
<1>20. Opening(dk, p, q, n, h)  BY <1>2, <1>9, <1>10, <1>11, <1>12, <1>13 DEF Opening
<1> QED  BY <1>9, <1>20, OpeningOK

\* A new temporary file, under whatever key its handle has.
LEMMA TempOK ==
    ASSUME NEW dk, NEW p, DiskOK(dk), MemoryOK(dk, p), p.up, NEW t \in Temp,
           p.map[TempFile(t)] # NoHandle, TempFile(t) \notin p.open,
           dk[p.map[TempFile(t)]].data = Empty,
           NEW q, q = [p EXCEPT !.open = @ \cup {TempFile(t)}]
    PROVE  /\ MemoryOK(dk, q) /\ q.logical = p.logical
           /\ Opening(dk, p, q, TempFile(t), p.map[TempFile(t)])
<1> DEFINE n == TempFile(t)
           h == p.map[n]
<1>1. p \in Memory /\ OpenOK(dk, p) /\ SizesFit(dk, p)  BY DEF MemoryOK
<1>2. n \in Name /\ n \in SqliteName  BY NameFacts
<1>3. PICK o : o = p.open \cup {n}  OBVIOUS
<1>4. o \in SUBSET SqliteName  BY <1>1, <1>2, <1>3, MemoryFields
<1>5. q = [p EXCEPT !.open = o]  BY <1>1, <1>3 DEF Memory
<1>6. q \in Memory  BY <1>1, <1>4, <1>5 DEF Memory
<1>7. /\ q.up = p.up /\ q.avail = p.avail /\ q.map = p.map /\ q.key = p.key
      /\ q.logical = p.logical /\ q.open = o /\ q.dbs = p.dbs
  BY <1>1, <1>5 DEF Memory
<1>8. q.up /\ q.open = p.open \cup {n} /\ p.dbs \subseteq q.dbs  BY <1>3, <1>7
<1>9. AllAuthentic(dk[h].data, [key |-> q.key[h], name |-> n])
  BY EmptyData DEF AllAuthentic
<1>10. \A c \in Db : n # Main(c) /\ n # Journal(c)  BY NameFacts
<1>11. q.logical[h] # Unknown => q.logical[h] <= dk[h].data.len * B
  BY <1>1, <1>2, <1>7 DEF SizesFit
<1>20. Opening(dk, p, q, n, h)  BY <1>2, <1>6, <1>7, <1>8, <1>9, <1>10, <1>11 DEF Opening
<1> QED  BY <1>7, <1>20, OpeningOK

-----------------------------------------------------------------------------
(* One step.  The disk after a call is the last its operations made, after a
   power loss an earlier one. *)

LEMMA DownOK ==
    /\ Down \in Memory /\ ~Down.up /\ \A dk : MemoryOK(dk, Down)
    /\ Down.key = [h \in Handle |-> PoolKey] /\ Down.logical = [h \in Handle |-> Unknown]
    /\ Down.open = {} /\ Down.dbs = {}
<1>1. Down \in Memory
  <2>1. <<>> \in Seq(Handle)  OBVIOUS
  <2>2. [n \in Name |-> NoHandle] \in [Name -> Handle \cup {NoHandle}]  OBVIOUS
  <2>3. [h \in Handle |-> PoolKey] \in [Handle -> Db \cup {PoolKey}]  OBVIOUS
  <2>4. [h \in Handle |-> Unknown] \in [Handle -> 0 .. MaxBlocks * B \cup {Unknown}]  OBVIOUS
  <2>5. {} \in SUBSET SqliteName /\ {} \in SUBSET Db /\ FALSE \in BOOLEAN  OBVIOUS
  <2> QED  BY <2>1, <2>2, <2>3, <2>4, <2>5 DEF Down, Memory
<1>2. /\ Down.key = [h \in Handle |-> PoolKey] /\ Down.logical = [h \in Handle |-> Unknown]
      /\ Down.open = {} /\ Down.dbs = {} /\ ~Down.up
  BY DEF Down
<1> QED  BY <1>1, <1>2 DEF MemoryOK

LEMMA AfterStep ==
    ASSUME DiskOK(disk'), MemoryOK(disk', pool') PROVE PoolInv'
  BY DEF PoolInv

LEMMA LastOf ==
    ASSUME NEW a, NEW b
    PROVE  /\ Last(<<a>>) = a /\ Last(<<a, b>>) = b /\ <<a>> # <<>> /\ <<a, b>> # <<>>
           /\ \A i \in 1 .. Len(<<a>>) - 1 : FALSE
           /\ \A i \in 1 .. Len(<<a, b>>) - 1 : <<a, b>>[i] = a
<1>1. Last(<<a>>) = a /\ Last(<<a, b>>) = b  BY DEF Last
<1>2. Len(<<a>>) = 1 /\ Len(<<a, b>>) = 2  OBVIOUS
<1>3. <<a>> # <<>> /\ <<a, b>> # <<>>  BY <1>2
<1>4. \A i \in 1 .. 1 : i = 1  OBVIOUS
<1> QED  BY <1>1, <1>2, <1>3, <1>4

LEMMA AfterOne ==
    ASSUME NEW e, NEW q, Completes(<<e>>, q)
    PROVE  disk' = e /\ pool' = q /\ cut' = NoRequest
  BY LastOf DEF Completes

LEMMA AfterNone ==
    ASSUME NEW q, Completes(<<>>, q)
    PROVE  disk' = disk /\ pool' = q /\ cut' = NoRequest
  BY DEF Completes

LEMMA AfterTwo ==
    ASSUME NEW e1, NEW e2, NEW q, NEW r, Performs(<<e1, e2>>, q, r)
    PROVE  \/ disk' = e2 /\ pool' = q /\ cut' = NoRequest
           \/ disk' = e1 /\ pool' = Down /\ cut' = r
<1>1. CASE Completes(<<e1, e2>>, q)
  <2>1. <<e1, e2>> # <<>> /\ Last(<<e1, e2>>) = e2  BY LastOf
  <2> QED  BY <1>1, <2>1 DEF Completes
<1>2. CASE PowerLost(<<e1, e2>>, r)
  <2>1. PICK i \in 1 .. Len(<<e1, e2>>) - 1 : disk' = <<e1, e2>>[i]  BY <1>2 DEF PowerLost
  <2>2. disk' = e1  BY <2>1, LastOf
  <2> QED  BY <1>2, <2>2 DEF PowerLost
<1> QED  BY <1>1, <1>2 DEF Performs

LEMMA InitOK == Init => PoolInv
<1> SUFFICES ASSUME Init PROVE PoolInv
  OBVIOUS
<1>1. disk = [h \in Handle |-> Unmade] /\ pool = Down  BY DEF Init
<1>2. \A h \in Handle : disk[h] = Unmade  BY <1>1
<1>3. disk = [h \in Handle |-> disk[h]]  BY <1>1
<1>4. (\A h \in Handle : IsOpaque(disk[h])) /\ NamesUnique(disk)
  BY <1>2, FreshFile DEF NamesUnique
<1>5. \A d \in Db, h \in Handle : disk[h].name \notin {Main(d), Journal(d)}
  BY <1>2, FreshFile, NameFacts
<1>6. DiskOK(disk)  BY <1>3, <1>4, <1>5 DEF DiskOK
<1> QED  BY <1>1, <1>6, DownOK DEF PoolInv

\* What an install leaves: the files whose names are neither cleared nor
\* temporary, and a table that has learnt no byte size yet.
Installed(clear) ==
    /\ pool'.up /\ pool'.open = {} /\ cut' = NoRequest
    /\ \A h \in Handle : pool'.logical[h] = Unknown
    /\ \A h \in Handle : disk'[h] = disk[h] \/ disk'[h].name = NoName
    /\ clear => \A h \in Handle : disk'[h].name = NoName
    /\ ~clear => \A h \in Handle : /\ disk'[h].name \notin Temps
                                   /\ disk[h].name \notin {NoName} \cup Temps => disk'[h] = disk[h]

LEMMA InstallOK ==
    ASSUME PoolInv, NEW clear \in BOOLEAN, Install(clear)
    PROVE  PoolInv' /\ Installed(clear)
<1> DEFINE old == Leftover(clear)
           named == Made \ old
<1>1. PICK new \in SUBSET (Handle \ Made) : \E first \in SetToSeqs(old), then \in SetToSeqs(new) :
         Completes(
            <<[h \in Handle |-> IF h \in old \cup new THEN Fresh ELSE disk[h]]>>,
            [Down EXCEPT
               !.up = TRUE,
               !.avail = first \o then,
               !.map = [n \in Name |-> IF \E h \in named : disk[h].name = n
                                       THEN CHOOSE h \in named : disk[h].name = n
                                       ELSE NoHandle]])
  BY DEF Install
<1>1a. PICK first \in SetToSeqs(old), then \in SetToSeqs(new) :
         Completes(
            <<[h \in Handle |-> IF h \in old \cup new THEN Fresh ELSE disk[h]]>>,
            [Down EXCEPT
               !.up = TRUE,
               !.avail = first \o then,
               !.map = [n \in Name |-> IF \E h \in named : disk[h].name = n
                                       THEN CHOOSE h \in named : disk[h].name = n
                                       ELSE NoHandle]])
  BY <1>1
<1>2. PICK e : e = [h \in Handle |-> IF h \in old \cup new THEN Fresh ELSE disk[h]]  OBVIOUS
<1>3. PICK map : map = [n \in Name |-> IF \E h \in named : disk[h].name = n
                                       THEN CHOOSE h \in named : disk[h].name = n
                                       ELSE NoHandle]
  OBVIOUS
<1>4. PICK free : free = first \o then  OBVIOUS
<1>5. PICK q : q = [Down EXCEPT !.up = TRUE, !.avail = free, !.map = map]  OBVIOUS
<1>6. disk' = e /\ pool' = q /\ cut' = NoRequest  BY <1>1a, <1>2, <1>3, <1>4, <1>5, AfterOne
<1>7. DiskOK(disk)  BY DEF PoolInv
<1>8. /\ disk = [h \in Handle |-> disk[h]] /\ (\A h \in Handle : IsOpaque(disk[h]))
      /\ NamesUnique(disk)
  BY <1>7 DEF DiskOK
<1>9. /\ old \subseteq Made /\ Made \subseteq Handle /\ named \subseteq Handle
      /\ new \cap Made = {} /\ new \subseteq Handle
      /\ (\A h \in Handle : h \in Made <=> disk[h].made)
      /\ \A h \in named : disk[h].name # NoName
  BY DEF Leftover, Made
<1> HIDE DEF old, named
<1>10. \A h \in Handle : e[h] = IF h \in old \cup new THEN Fresh ELSE disk[h]  BY <1>2
<1>11. \A h \in named : h \notin old \cup new  BY <1>9 DEF named
<1>12. DiskOK(e)
  <2>1. e = [h \in Handle |-> e[h]]  BY <1>2
  <2>2. \A h \in Handle : IsOpaque(e[h])  BY <1>8, <1>10, FreshFile
  <2>3. NamesUnique(e)  BY <1>8, <1>10, FreshFile DEF NamesUnique
  <2>4. \A d \in Db, h \in Handle :
           e[h].name \in {Main(d), Journal(d)} => SealedFor(d, e[h].name, e[h].data)
    <3> SUFFICES ASSUME NEW d \in Db, NEW h \in Handle, e[h].name \in {Main(d), Journal(d)}
                 PROVE  SealedFor(d, e[h].name, e[h].data)
      OBVIOUS
    <3>1. e[h] = disk[h]  BY <1>10, FreshFile, NameFacts
    <3> QED  BY <1>7, <3>1 DEF DiskOK
  <2> QED  BY <2>1, <2>2, <2>3, <2>4 DEF DiskOK
<1>13. /\ free \in Seq(Handle) /\ IsInjective(free) /\ Range(free) = old \cup new
  <2>1. first \in Seq(Handle) /\ IsInjective(first) /\ Range(first) = old  BY <1>9, OrderFree
  <2>2. then \in Seq(Handle) /\ IsInjective(then) /\ Range(then) = new  BY <1>9, OrderFree
  <2>3. Range(first) \cap Range(then) = {}  BY <1>9, <2>1, <2>2
  <2> QED  BY <1>4, <2>1, <2>2, <2>3, JoinFree
<1>14. \A n \in Name, h \in named : disk[h].name = n => map[n] = h
  <2> SUFFICES ASSUME NEW n \in Name, NEW h \in named, disk[h].name = n PROVE map[n] = h
    OBVIOUS
  <2>1. map[n] = CHOOSE g \in named : disk[g].name = n  BY <1>3
  <2>2. map[n] \in named /\ disk[map[n]].name = n  BY <2>1
  <2>3. map[n] \in Handle /\ h \in Handle /\ n # NoName  BY <1>9, <2>2, NameFacts
  <2> QED  BY <1>8, <2>2, <2>3 DEF NamesUnique
<1>15. \A n \in Name : map[n] # NoHandle => map[n] \in named /\ disk[map[n]].name = n
  <2> SUFFICES ASSUME NEW n \in Name, map[n] # NoHandle
               PROVE  map[n] \in named /\ disk[map[n]].name = n
    OBVIOUS
  <2>1. PICK h \in named : disk[h].name = n  BY <1>3
  <2> QED  BY <1>14, <2>1
<1>16. map \in [Name -> Handle \cup {NoHandle}]
  <2>1. \A n \in Name : map[n] \in Handle \cup {NoHandle}  BY <1>9, <1>15
  <2>2. map = [n \in Name |-> map[n]]  BY <1>3
  <2> QED  BY <2>1, <2>2
<1>17. /\ q \in Memory /\ q.up /\ q.avail = free /\ q.map = map
       /\ q.logical = [h \in Handle |-> Unknown] /\ q.open = {}
  <2>1. Down \in Memory /\ TRUE \in BOOLEAN  BY DownOK
  <2>2. q \in Memory  BY <1>5, <1>13, <1>16, <2>1 DEF Memory
  <2>3. q.up /\ q.avail = free /\ q.map = map /\ q.logical = Down.logical /\ q.open = Down.open
    BY <1>5, <2>1 DEF Memory
  <2> QED  BY <2>2, <2>3, DownOK
<1>18. Accounted(e, q)
  <2>1. \A h \in Range(q.avail) : e[h] = Fresh  BY <1>9, <1>10, <1>13, <1>17
  <2>2. \A h \in Handle \ Range(q.avail) :
           e[h].made => e[h].name # NoName /\ q.map[e[h].name] = h
    <3> SUFFICES ASSUME NEW h \in Handle \ Range(q.avail), e[h].made
                 PROVE  e[h].name # NoName /\ q.map[e[h].name] = h
      OBVIOUS
    <3>1. e[h] = disk[h] /\ h \notin old  BY <1>10, <1>13, <1>17
    <3>2. h \in named  BY <1>9, <3>1 DEF named
    <3>3. disk[h].name # NoName /\ disk[h].name \in Name
      BY <1>8, <1>9, <3>2, OpaqueFields
    <3> QED  BY <1>14, <1>17, <3>1, <3>2, <3>3
  <2>3. \A n \in Name : q.map[n] # NoHandle => e[q.map[n]].made /\ e[q.map[n]].name = n
    <3> SUFFICES ASSUME NEW n \in Name, map[n] # NoHandle
                 PROVE  e[map[n]].made /\ e[map[n]].name = n
      BY <1>17
    <3>1. map[n] \in named /\ disk[map[n]].name = n  BY <1>15
    <3>2. e[map[n]] = disk[map[n]]  BY <1>9, <1>10, <1>11, <3>1
    <3>3. disk[map[n]].made  BY <1>9, <3>1 DEF named
    <3> QED  BY <3>1, <3>2, <3>3
  <2> QED  BY <1>13, <1>17, <2>1, <2>2, <2>3 DEF Accounted
<1>19. SizesFit(e, q)
  <2>1. \A n \in Name : q.map[n] # NoHandle => q.logical[q.map[n]] = Unknown
    BY <1>16, <1>17
  <2> QED  BY <2>1 DEF SizesFit
<1>20. OpenOK(e, q)  BY <1>17 DEF OpenOK
<1>21. MemoryOK(e, q)  BY <1>17, <1>18, <1>19, <1>20 DEF MemoryOK
<1>22. \A h \in Handle : e[h] = disk[h] \/ e[h].name = NoName  BY <1>10, FreshFile
<1>23. ASSUME clear, NEW h \in Handle PROVE e[h].name = NoName
  <2>1. CASE h \in Made
    <3>1. h \in old  BY <1>23, <2>1 DEF old, Leftover
    <3> QED  BY <1>10, <3>1, FreshFile
  <2>2. CASE h \notin Made
    <3>1. disk[h].name = NoName  BY <1>8, <1>9, <2>2 DEF NamesUnique
    <3> QED  BY <1>22, <3>1
  <2> QED  BY <2>1, <2>2
<1>24. ASSUME ~clear, NEW h \in Handle
       PROVE  /\ e[h].name \notin Temps
              /\ disk[h].name \notin {NoName} \cup Temps => e[h] = disk[h]
  <2>1. h \in old <=> disk[h].made /\ disk[h].name \in {NoName} \cup Temps
    BY <1>9, <1>24 DEF old, Leftover
  <2>2. h \in new => disk[h].name = NoName  BY <1>8, <1>9 DEF NamesUnique
  <2>3. NoName \notin Temps  BY NameFacts DEF SqliteName
  <2>4. ~disk[h].made => disk[h].name = NoName  BY <1>8 DEF NamesUnique
  <2> QED  BY <1>10, <2>1, <2>2, <2>3, <2>4, FreshFile
<1>25. Installed(clear)
  <2>1. \A h \in Handle : q.logical[h] = Unknown  BY <1>17
  <2> QED  BY <1>6, <1>17, <1>22, <1>23, <1>24, <2>1 DEF Installed
<1> QED  BY <1>6, <1>12, <1>21, <1>25, AfterStep

\* The free handles grow or shrink by one that no file holds.
LEMMA CapacityOK ==
    ASSUME NEW dk, NEW p, DiskOK(dk), MemoryOK(dk, p), p.up, NEW h \in Handle,
           \A n \in Name : p.map[n] # h,
           NEW f \in {Fresh, Unmade}, NEW e, e = PutFile(dk, h, f),
           NEW s \in Seq(Handle), IsInjective(s), Range(s) \ {h} = Range(p.avail) \ {h},
           h \in Range(s) <=> f = Fresh,
           NEW q, q = [p EXCEPT !.avail = s]
    PROVE  /\ DiskOK(e) /\ MemoryOK(e, q)
           /\ q.up /\ q.map = p.map /\ q.logical = p.logical /\ q.open = p.open
           /\ \A g \in Handle \ {h} : e[g] = dk[g]
<1>1. p \in Memory /\ Accounted(dk, p) /\ SizesFit(dk, p) /\ OpenOK(dk, p)  BY DEF MemoryOK
<1>2. IsOpaque(f) /\ f.name = NoName  BY FreshFile
<1>3. DiskOK(e) /\ e[h] = f /\ \A g \in Handle \ {h} : e[g] = dk[g]
  <2>1. \A d \in Db : f.name \notin {Main(d), Journal(d)}  BY <1>2, NameFacts
  <2> QED  BY <1>2, <2>1, DiskUpdate
<1>4. /\ q \in Memory /\ q.avail = s /\ q.map = p.map /\ q.key = p.key
      /\ q.logical = p.logical /\ q.open = p.open /\ q.dbs = p.dbs /\ q.up
  <2>1. q \in Memory  BY <1>1 DEF Memory
  <2>2. /\ q.avail = s /\ q.map = p.map /\ q.key = p.key
        /\ q.logical = p.logical /\ q.open = p.open /\ q.dbs = p.dbs /\ q.up = p.up
    BY <1>1 DEF Memory
  <2> QED  BY <2>1, <2>2
<1>5. \A n \in Name : p.map[n] # NoHandle => p.map[n] \in Handle \ {h} /\ e[p.map[n]] = dk[p.map[n]]
  BY <1>1, <1>3, MemoryFields
<1>6. Accounted(e, q)
  <2>1. \A g \in Range(s) : e[g] = Fresh
    <3> TAKE g \in Range(s)
    <3>1. CASE g = h  BY <1>3, <3>1
    <3>2. CASE g # h
      <4>1. g \in Range(p.avail)  BY <3>2
      <4>2. g \in Handle  BY <1>1, <4>1, MemoryFields, RangeOfSeq
      <4> QED  BY <1>1, <1>3, <3>2, <4>1, <4>2 DEF Accounted
    <3> QED  BY <3>1, <3>2
  <2>2. \A g \in Handle \ Range(s) : e[g].made => e[g].name # NoName /\ q.map[e[g].name] = g
    <3> TAKE g \in Handle \ Range(s)
    <3>1. CASE g = h
      <4>1. e[g] = Unmade  BY <1>3, <3>1
      <4> QED  BY <4>1, FreshFile
    <3>2. CASE g # h
      <4>1. g \in Handle \ Range(p.avail) /\ e[g] = dk[g]  BY <1>3, <3>2
      <4> QED  BY <1>1, <1>4, <4>1 DEF Accounted
    <3> QED  BY <3>1, <3>2
  <2>3. \A n \in Name : q.map[n] # NoHandle => e[q.map[n]].made /\ e[q.map[n]].name = n
    BY <1>1, <1>4, <1>5 DEF Accounted
  <2> QED  BY <1>4, <2>1, <2>2, <2>3 DEF Accounted
<1>7. SizesFit(e, q)
  <2> SUFFICES ASSUME NEW m \in Name, p.map[m] # NoHandle, p.logical[p.map[m]] # Unknown
               PROVE  p.logical[p.map[m]] <= e[p.map[m]].data.len * B
    BY <1>4 DEF SizesFit
  <2>1. e[p.map[m]] = dk[p.map[m]]  BY <1>5
  <2> QED  BY <1>1, <2>1 DEF SizesFit
<1>8. OpenOK(e, q)
  <2>1. \A m \in p.open :
           /\ p.map[m] # NoHandle
           /\ AllAuthentic(e[p.map[m]].data, [key |-> p.key[p.map[m]], name |-> m])
    <3> TAKE m \in p.open
    <3>1. /\ p.map[m] # NoHandle /\ m \in Name
          /\ AllAuthentic(dk[p.map[m]].data, [key |-> p.key[p.map[m]], name |-> m])
      BY <1>1, MemoryFields, NameFacts DEF OpenOK
    <3>2. e[p.map[m]] = dk[p.map[m]]  BY <1>5, <3>1
    <3> QED  BY <3>1, <3>2
  <2> QED  BY <1>1, <1>4, <2>1 DEF OpenOK
<1> QED  BY <1>3, <1>4, <1>6, <1>7, <1>8 DEF MemoryOK

\* The invariant as facts about constants.
LEMMA Before ==
    ASSUME PoolInv
    PROVE  \E dk, p : dk = disk /\ p = pool /\ DiskOK(dk) /\ MemoryOK(dk, p)
  BY DEF PoolInv

\* Nothing changes but a handle that no file holds.
SpareChanges ==
    \E h \in Handle :
        /\ \A n \in Name : pool.map[n] # h
        /\ \A g \in Handle \ {h} : disk'[g] = disk[g]
        /\ pool.up /\ pool'.up /\ cut' = NoRequest
        /\ pool'.map = pool.map /\ pool'.logical = pool.logical /\ pool'.open = pool.open

LEMMA AddCapacityOK ==
    ASSUME PoolInv, AddCapacity PROVE PoolInv' /\ SpareChanges
<1>1. PICK dk, p : dk = disk /\ p = pool /\ DiskOK(dk) /\ MemoryOK(dk, p)  BY Before
<1>2. p.up  BY <1>1 DEF AddCapacity
<1>3. PICK h \in Handle \ Made :
         Completes(<<[disk EXCEPT ![h] = Fresh]>>, [pool EXCEPT !.avail = Append(@, h)])
  BY DEF AddCapacity
<1>4. /\ disk' = [dk EXCEPT ![h] = Fresh] /\ pool' = [p EXCEPT !.avail = Append(@, h)]
      /\ cut' = NoRequest
  BY <1>1, <1>3, AfterOne
<1>5. p \in Memory /\ Accounted(dk, p)  BY <1>1, <1>2 DEF MemoryOK
<1>6. h \in Handle /\ ~dk[h].made  BY <1>1 DEF Made
<1>7. \A n \in Name : p.map[n] # h
  <2>1. NoHandle # h  BY <1>6, PoolAssumption
  <2> QED  BY <1>5, <1>6, <2>1 DEF Accounted
<1>8. h \notin Range(p.avail)  BY <1>5, <1>6, FreshFile DEF Accounted
<1>9. PICK s : s = Append(p.avail, h)  OBVIOUS
<1>10. s \in Seq(Handle) /\ IsInjective(s) /\ Range(s) = Range(p.avail) \cup {h}
  BY <1>5, <1>6, <1>8, <1>9, MemoryFields, AppendFree DEF Accounted
<1>11. pool' = [p EXCEPT !.avail = s]  BY <1>4, <1>5, <1>9 DEF Memory
<1>12. PICK e, q : e = disk' /\ q = pool'  OBVIOUS
<1>13. e = PutFile(dk, h, Fresh) /\ q = [p EXCEPT !.avail = s]  BY <1>4, <1>11, <1>12 DEF PutFile
<1>14. Range(s) \ {h} = Range(p.avail) \ {h} /\ h \in Range(s)  BY <1>10
<1>15. /\ DiskOK(e) /\ MemoryOK(e, q)
       /\ q.up /\ q.map = p.map /\ q.logical = p.logical /\ q.open = p.open
       /\ \A g \in Handle \ {h} : e[g] = dk[g]
  BY <1>1, <1>2, <1>6, <1>7, <1>10, <1>13, <1>14, CapacityOK
<1>16. SpareChanges  BY <1>1, <1>2, <1>4, <1>6, <1>7, <1>12, <1>15 DEF SpareChanges
<1> QED  BY <1>12, <1>15, <1>16, AfterStep

LEMMA ReduceCapacityOK ==
    ASSUME PoolInv, ReduceCapacity PROVE PoolInv' /\ SpareChanges
<1>1. PICK dk, p : dk = disk /\ p = pool /\ DiskOK(dk) /\ MemoryOK(dk, p)  BY Before
<1>2. p.up /\ p.avail # <<>>  BY <1>1 DEF ReduceCapacity
<1>3. PICK h : h = Last(p.avail)  OBVIOUS
<1>4. PICK s : s = Front(p.avail)  OBVIOUS
<1>5. p \in Memory /\ Accounted(dk, p)  BY <1>1, <1>2 DEF MemoryOK
<1>6. disk' = [dk EXCEPT ![h] = Unmade] /\ pool' = [p EXCEPT !.avail = s] /\ cut' = NoRequest
  <2>1. /\ disk' = [dk EXCEPT ![h] = Unmade] /\ pool' = [p EXCEPT !.avail = Front(@)]
        /\ cut' = NoRequest
    BY <1>1, <1>3, AfterOne DEF ReduceCapacity
  <2> QED  BY <1>4, <1>5, <2>1 DEF Memory
<1>7. /\ s \in Seq(Handle) /\ IsInjective(s) /\ Range(s) = Range(p.avail) \ {h}
      /\ h \in Range(p.avail) /\ h \in Handle
  BY <1>2, <1>3, <1>4, <1>5, MemoryFields, FrontFree DEF Accounted
<1>8. \A n \in Name : p.map[n] # h
  <2>1. NoHandle # h  BY <1>7, PoolAssumption
  <2> QED  BY <1>1, <1>2, <1>7, <2>1, Holds
<1>9. PICK e, q : e = disk' /\ q = pool'  OBVIOUS
<1>10. e = PutFile(dk, h, Unmade) /\ q = [p EXCEPT !.avail = s]  BY <1>6, <1>9 DEF PutFile
<1>11. Range(s) \ {h} = Range(p.avail) \ {h} /\ h \notin Range(s) /\ Unmade # Fresh
  BY <1>7, FreshFile
<1>12. /\ DiskOK(e) /\ MemoryOK(e, q)
       /\ q.up /\ q.map = p.map /\ q.logical = p.logical /\ q.open = p.open
       /\ \A g \in Handle \ {h} : e[g] = dk[g]
  BY <1>1, <1>2, <1>7, <1>8, <1>10, <1>11, CapacityOK
<1>13. SpareChanges  BY <1>1, <1>2, <1>6, <1>7, <1>8, <1>9, <1>12 DEF SpareChanges
<1> QED  BY <1>9, <1>12, <1>13, AfterStep

LEMMA StopOK ==
    ASSUME PoolInv, Pause \/ Crash PROVE PoolInv'
<1>1. disk' = disk /\ pool' = Down  BY AfterNone DEF Pause, Crash
<1> QED  BY <1>1, DownOK, AfterStep DEF PoolInv

-----------------------------------------------------------------------------
(* The calls that open, close and delete *)

LEMMA OpenExistingMainOK ==
    ASSUME PoolInv, NEW d \in Db, pool.up, Main(d) \notin pool.open, OpenExistingMain(d)
    PROVE  PoolInv'
<1>1. PICK dk, p : dk = disk /\ p = pool /\ DiskOK(dk) /\ MemoryOK(dk, p)  BY Before
<1>2. PICK q : q = Bound(p, dk, d)  OBVIOUS
<1>3. disk' = dk /\ pool' = q  BY <1>1, <1>2, AfterNone DEF OpenExistingMain
<1>4. /\ p.up /\ Main(d) \notin p.open /\ p.map[Main(d)] # NoHandle
      /\ AllAuthentic(dk[p.map[Main(d)]].data, Sealed(d, Main(d)))
  BY <1>1 DEF OpenExistingMain, Has, Data
<1>5. MemoryOK(dk, q)  BY <1>1, <1>2, <1>4, BoundOK
<1> QED  BY <1>1, <1>3, <1>5, AfterStep

\* An empty main file that is linked, or was left by an open that failed.
EmptyMain(dk, p, d) ==
    /\ DiskOK(dk) /\ MemoryOK(dk, p) /\ p.up /\ Main(d) \notin p.open
    /\ p.map[Main(d)] # NoHandle /\ dk[p.map[Main(d)]].data = Empty

LEMMA EmptyMainBound ==
    ASSUME NEW dk, NEW p, NEW d \in Db, EmptyMain(dk, p, d), NEW q, q = Bound(p, dk, d)
    PROVE  /\ MemoryOK(dk, q) /\ Opening(dk, p, q, Main(d), p.map[Main(d)])
           /\ q.logical[p.map[Main(d)]] = PhysicalSize(dk[p.map[Main(d)]].data)
<1>1. AllAuthentic(dk[p.map[Main(d)]].data, Sealed(d, Main(d)))
  BY EmptyData DEF EmptyMain, AllAuthentic
<1> QED  BY <1>1, BoundOK DEF EmptyMain

LEMMA MainLinked ==
    ASSUME NEW dk, NEW p, DiskOK(dk), MemoryOK(dk, p), p.up, p.avail # <<>>, NEW d \in Db,
           p.map[Main(d)] = NoHandle, Main(d) \notin p.open,
           NEW q, q = Linked(p, Main(d)), NEW e, e = LinkDisk(dk, p, Main(d))
    PROVE  EmptyMain(e, q, d) /\ \A m \in Name \ {Main(d)} : q.map[m] = p.map[m]
<1>1. PICK h : h = Last(p.avail)  OBVIOUS
<1>2. Main(d) \in Name  BY NameFacts
<1>3. /\ h \in Handle /\ DiskOK(e) /\ MemoryOK(e, q) /\ q.up
      /\ q.map[Main(d)] = h /\ (\A m \in Name \ {Main(d)} : q.map[m] = p.map[m])
      /\ e[h].data = Empty /\ q.open = p.open
  BY <1>1, <1>2, LinkOK
<1>4. h # NoHandle  BY <1>3, PoolAssumption
<1> QED  BY <1>3, <1>4 DEF EmptyMain

LEMMA OpenLostMainOK ==
    ASSUME PoolInv, NEW d \in Db, pool.up, Main(d) \notin pool.open, OpenLostMain(d)
    PROVE  PoolInv'
<1>1. PICK dk, p : dk = disk /\ p = pool /\ DiskOK(dk) /\ MemoryOK(dk, p)  BY Before
<1>2. PICK p1, e, q : p1 = Linked(p, Main(d)) /\ e = LinkDisk(dk, p, Main(d)) /\ q = Bound(p1, e, d)
  OBVIOUS
<1>3. disk' = e /\ pool' = q  BY <1>1, <1>2, AfterOne DEF OpenLostMain
<1>4. p.up /\ p.avail # <<>> /\ p.map[Main(d)] = NoHandle /\ Main(d) \notin p.open
  BY <1>1 DEF OpenLostMain, Has
<1>5. EmptyMain(e, p1, d)  BY <1>1, <1>2, <1>4, MainLinked
<1>6. MemoryOK(e, q) /\ DiskOK(e)  BY <1>2, <1>5, EmptyMainBound DEF EmptyMain
<1> QED  BY <1>3, <1>6, AfterStep

LEMMA OpenNewMainOK ==
    ASSUME PoolInv, NEW d \in Db, pool.up, Main(d) \notin pool.open, OpenNewMain(d)
    PROVE  PoolInv'
<1>1. PICK dk, p : dk = disk /\ p = pool /\ DiskOK(dk) /\ MemoryOK(dk, p)  BY Before
<1> DEFINE linked == p.map[Main(d)] # NoHandle
<1>2. PICK p1, e1 : /\ p1 = IF linked THEN p ELSE Linked(p, Main(d))
                    /\ e1 = IF linked THEN dk ELSE LinkDisk(dk, p, Main(d))
  OBVIOUS
<1>3. PICK p2, e2, q : /\ p2 = Linked(p1, Manifest(d)) /\ e2 = LinkDisk(e1, p1, Manifest(d))
                       /\ q = Bound(p2, e2, d)
  OBVIOUS
<1>4. /\ p.map[Manifest(d)] = NoHandle /\ p.up /\ Main(d) \notin p.open
      /\ linked => dk[p.map[Main(d)]].data = Empty
      /\ linked \/ p.avail # <<>>
  BY <1>1 DEF OpenNewMain, Has, Data
<1>5. /\ p1.avail = <<>> => Completes(<<e1>>, p1)
      /\ p1.avail # <<>> => Performs(<<e1, e2>>, q, [op |-> "create", name |-> Main(d)])
  <2> HIDE DEF linked
  <2>1. Has(Main(d)) <=> linked  BY <1>1 DEF Has, linked
  <2>2. p1 = (IF Has(Main(d)) THEN pool ELSE Linked(pool, Main(d)))  BY <1>1, <1>2, <2>1
  <2>3. e1 = (IF Has(Main(d)) THEN disk ELSE LinkDisk(disk, pool, Main(d)))  BY <1>1, <1>2, <2>1
  <2> QED  BY <1>3, <2>2, <2>3 DEF OpenNewMain
<1>6. Manifest(d) \in Name /\ Manifest(d) # Main(d) /\ Main(d) \in Name  BY NameFacts
<1>7. EmptyMain(e1, p1, d) /\ p1.map[Manifest(d)] = NoHandle
  <2>1. CASE linked  BY <1>1, <1>2, <1>4, <2>1 DEF EmptyMain
  <2>2. CASE ~linked
    <3>1. p1 = Linked(p, Main(d)) /\ e1 = LinkDisk(dk, p, Main(d))  BY <1>2, <2>2
    <3>2. EmptyMain(e1, p1, d) /\ \A m \in Name \ {Main(d)} : p1.map[m] = p.map[m]
      BY <1>1, <1>4, <2>2, <3>1, MainLinked
    <3> QED  BY <1>4, <1>6, <3>2
  <2> QED  BY <2>1, <2>2
<1>8. CASE p1.avail = <<>>
  <2>1. disk' = e1 /\ pool' = p1  BY <1>5, <1>8, AfterOne
  <2> QED  BY <1>7, <2>1, AfterStep DEF EmptyMain
<1>9. CASE p1.avail # <<>>
  <2>1. PICK h : h = Last(p1.avail)  OBVIOUS
  <2>2. /\ h \in Handle /\ h \in Range(p1.avail) /\ DiskOK(e2) /\ MemoryOK(e2, p2) /\ p2.up
        /\ (\A m \in Name \ {Manifest(d)} : p2.map[m] = p1.map[m])
        /\ (\A g \in Handle \ {h} : e2[g] = e1[g]) /\ p2.open = p1.open
    BY <1>3, <1>6, <1>7, <1>9, <2>1, LinkOK DEF EmptyMain
  <2>3. p1.map[Main(d)] \in Handle /\ p1.map[Main(d)] \notin Range(p1.avail)
    BY <1>6, <1>7, Holds DEF EmptyMain
  <2>4. EmptyMain(e2, p2, d)  BY <1>6, <1>7, <2>2, <2>3 DEF EmptyMain
  <2>5. MemoryOK(e2, q)  BY <1>3, <2>4, EmptyMainBound
  <2>6. (disk' = e2 /\ pool' = q) \/ (disk' = e1 /\ pool' = Down)  BY <1>5, <1>9, AfterTwo
  <2> QED  BY <1>7, <2>2, <2>5, <2>6, DownOK, AfterStep DEF EmptyMain
<1> QED  BY <1>8, <1>9

LEMMA OpenJournalOK ==
    ASSUME PoolInv, NEW d \in Db, OpenJournal(d)
    PROVE  PoolInv'
<1>1. PICK dk, p : dk = disk /\ p = pool /\ DiskOK(dk) /\ MemoryOK(dk, p)  BY Before
<1> DEFINE linked == p.map[Journal(d)] # NoHandle
<1>2. PICK p1, e : /\ p1 = IF linked THEN p ELSE Linked(p, Journal(d))
                   /\ e = IF linked THEN dk ELSE LinkDisk(dk, p, Journal(d))
  OBVIOUS
<1>3. PICK q : q = [BindSatellite(p1, d) EXCEPT !.open = @ \cup {Journal(d)}]  OBVIOUS
<1>4. Main(d) \in p.open /\ Journal(d) \notin p.open /\ (linked \/ p.avail # <<>>)
  BY <1>1 DEF OpenJournal, Has
<1>5. disk' = e /\ pool' = q
  <2> HIDE DEF linked
  <2>1. Has(Journal(d)) <=> linked  BY <1>1 DEF Has, linked
  <2>2. p1 = (IF Has(Journal(d)) THEN pool ELSE Linked(pool, Journal(d)))  BY <1>1, <1>2, <2>1
  <2>3. e = (IF Has(Journal(d)) THEN disk ELSE LinkDisk(disk, pool, Journal(d)))  BY <1>1, <1>2, <2>1
  <2>4. Completes(<<e>>, q)  BY <1>3, <2>2, <2>3 DEF OpenJournal
  <2> QED  BY <2>4, AfterOne
<1>6. p.up
  <2>1. ~p.up => p.open = {}  BY <1>1, DownOK DEF MemoryOK
  <2> QED  BY <1>4, <2>1
<1>7. /\ DiskOK(e) /\ MemoryOK(e, p1) /\ p1.up /\ p1.map[Journal(d)] # NoHandle
      /\ p1.open = p.open
  <2>1. CASE linked  BY <1>1, <1>2, <1>6, <2>1
  <2>2. CASE ~linked
    <3>1. p1 = Linked(p, Journal(d)) /\ e = LinkDisk(dk, p, Journal(d))  BY <1>2, <2>2
    <3>2. PICK h : h = Last(p.avail)  OBVIOUS
    <3>3. Journal(d) \in Name  BY NameFacts
    <3>4. /\ h \in Handle /\ DiskOK(e) /\ MemoryOK(e, p1) /\ p1.up
          /\ p1.map[Journal(d)] = h /\ p1.open = p.open
      BY <1>1, <1>4, <1>6, <2>2, <3>1, <3>2, <3>3, LinkOK
    <3> QED  BY <3>4, PoolAssumption
  <2> QED  BY <2>1, <2>2
<1>8. MemoryOK(e, q)  BY <1>3, <1>4, <1>7, SatelliteOK
<1> QED  BY <1>5, <1>7, <1>8, AfterStep

LEMMA OpenTempOK ==
    ASSUME PoolInv, NEW t \in Temp, OpenTemp(t)
    PROVE  PoolInv'
<1>1. PICK dk, p : dk = disk /\ p = pool /\ DiskOK(dk) /\ MemoryOK(dk, p)  BY Before
<1>2. PICK p1, e : p1 = Linked(p, TempFile(t)) /\ e = LinkDisk(dk, p, TempFile(t))  OBVIOUS
<1>3. PICK q : q = [p1 EXCEPT !.open = @ \cup {TempFile(t)}]  OBVIOUS
<1>4. p.up /\ p.map[TempFile(t)] = NoHandle /\ p.avail # <<>>
  BY <1>1 DEF OpenTemp, Has
<1>5. disk' = e /\ pool' = q
  <2>1. Completes(<<e>>, q)  BY <1>1, <1>2, <1>3 DEF OpenTemp
  <2> QED  BY <2>1, AfterOne
<1>6. PICK h : h = Last(p.avail)  OBVIOUS
<1>7. TempFile(t) \in Name  BY NameFacts
<1>8. /\ h \in Handle /\ DiskOK(e) /\ MemoryOK(e, p1) /\ p1.up
      /\ p1.map[TempFile(t)] = h /\ e[h].data = Empty /\ p1.open = p.open
  BY <1>1, <1>2, <1>4, <1>6, <1>7, LinkOK
<1>9. p1.map[TempFile(t)] # NoHandle  BY <1>8, PoolAssumption
<1>10. TempFile(t) \notin p1.open
  <2>1. OpenOK(dk, p)  BY <1>1, <1>4 DEF MemoryOK
  <2> QED  BY <1>4, <1>8, <2>1 DEF OpenOK
<1>11. MemoryOK(e, q)  BY <1>3, <1>8, <1>9, <1>10, TempOK
<1> QED  BY <1>5, <1>8, <1>11, AfterStep

\* A deletion, whole or cut after its first operation.
LEMMA DeletionOK ==
    ASSUME NEW dk, NEW p, dk = disk, DiskOK(dk), MemoryOK(dk, p), p.up, NEW n \in Name,
           p.map[n] # NoHandle, n \notin p.open, NEW r,
           Performs(UnlinkDisks(dk, p.map[n]), Unlinked(p, n), r)
    PROVE  PoolInv'
<1>1. PICK h, q : h = p.map[n] /\ q = Unlinked(p, n)  OBVIOUS
<1>2. PICK e1, e : e1 = WithData(dk, h, Empty) /\ e = PutFile(dk, h, Fresh)  OBVIOUS
<1>3. Performs(<<e1, e>>, q, r)  BY <1>1, <1>2 DEF UnlinkDisks, PutFile
<1>4. (disk' = e /\ pool' = q) \/ (disk' = e1 /\ pool' = Down)  BY <1>3, AfterTwo
<1>5. DiskOK(e1) /\ DiskOK(e) /\ MemoryOK(e, q)  BY <1>1, <1>2, UnlinkOK
<1> QED  BY <1>4, <1>5, DownOK, AfterStep

LEMMA CloseStepOK ==
    ASSUME PoolInv, NEW n \in SqliteName, Close(n)
    PROVE  PoolInv'
<1>1. PICK dk, p : dk = disk /\ p = pool /\ DiskOK(dk) /\ MemoryOK(dk, p)  BY Before
<1>2. n \in p.open /\ n \in Name  BY <1>1, NameFacts DEF Close
<1>3. p.up
  <2>1. ~p.up => p.open = {}  BY <1>1, DownOK DEF MemoryOK
  <2> QED  BY <1>2, <2>1
<1>4. PICK p1 : p1 = [p EXCEPT !.open = @ \ {n}]  OBVIOUS
<1>5. MemoryOK(dk, p1) /\ p1.up /\ p1.map = p.map /\ n \notin p1.open
  BY <1>1, <1>3, <1>4, CloseOK
<1>6. CASE n \in Temps
  <2>1. Performs(UnlinkDisks(dk, p.map[n]), Unlinked(p1, n), [op |-> "delete", name |-> n])
    BY <1>1, <1>4, <1>6 DEF Close
  <2>2. PICK r : r = [op |-> "delete", name |-> n]  OBVIOUS
  <2>3. p1.map[n] # NoHandle
    <3>1. OpenOK(dk, p)  BY <1>1, <1>3 DEF MemoryOK
    <3> QED  BY <1>2, <1>5, <3>1 DEF OpenOK
  <2>4. Performs(UnlinkDisks(dk, p1.map[n]), Unlinked(p1, n), r)  BY <1>5, <2>1, <2>2
  <2> QED  BY <1>1, <1>2, <1>5, <2>3, <2>4, DeletionOK
<1>7. CASE n \notin Temps
  <2>1. Completes(<<>>, p1)  BY <1>1, <1>4, <1>7 DEF Close
  <2>2. disk' = dk /\ pool' = p1  BY <1>1, <2>1, AfterNone
  <2> QED  BY <1>1, <1>5, <2>2, AfterStep
<1> QED  BY <1>6, <1>7

LEMMA DeleteJournalOK ==
    ASSUME PoolInv, NEW d \in Db, DeleteJournal(d)
    PROVE  PoolInv'
<1>1. PICK dk, p : dk = disk /\ p = pool /\ DiskOK(dk) /\ MemoryOK(dk, p)  BY Before
<1>2. PICK n : n = Journal(d)  OBVIOUS
<1>3. PICK r : r = [op |-> "delete", name |-> Journal(d)]  OBVIOUS
<1>4. /\ Main(d) \in p.open /\ p.map[n] # NoHandle /\ n \notin p.open /\ n \in Name
      /\ Performs(UnlinkDisks(dk, p.map[n]), Unlinked(p, n), r)
  BY <1>1, <1>2, <1>3, NameFacts DEF DeleteJournal, Has
<1>5. p.up
  <2>1. ~p.up => p.open = {}  BY <1>1, DownOK DEF MemoryOK
  <2> QED  BY <1>4, <2>1
<1> QED  BY <1>1, <1>4, <1>5, DeletionOK

-----------------------------------------------------------------------------
(* The calls that write *)

\* What holds of an open file when SQLite writes or truncates it.
OpenFile(dk, p, n, h, x, dom, size) ==
    /\ DiskOK(dk) /\ MemoryOK(dk, p) /\ p.up /\ n \in Name /\ n \in p.open
    /\ h = p.map[n] /\ h # NoHandle /\ h \in Handle
    /\ x = dk[h].data /\ IsData(x)
    /\ dom = [key |-> p.key[h], name |-> n] /\ dom \in Doms /\ AllAuthentic(x, dom)
    /\ size \in Nat /\ size <= x.len * B

LEMMA IsOpenFile ==
    ASSUME NEW dk, NEW p, dk = disk, p = pool, DiskOK(dk), MemoryOK(dk, p),
           NEW n \in SqliteName, n \in p.open
    PROVE  \E h, x, dom, size :
              /\ OpenFile(dk, p, n, h, x, dom, size)
              /\ h = pool.map[n] /\ x = Data(n) /\ dom = Domain(n) /\ size = Size(n)
<1>1. PICK h, x, dom, size :
         h = p.map[n] /\ x = dk[h].data /\ dom = [key |-> p.key[h], name |-> n] /\ size = Size(n)
  OBVIOUS
<1>2. x = Data(n) /\ dom = Domain(n) /\ h = pool.map[n]  BY <1>1 DEF Data, Domain
<1>3. p.up
  <2>1. ~p.up => p.open = {}  BY DownOK DEF MemoryOK
  <2> QED  BY <2>1
<1>4. p \in Memory /\ SizesFit(dk, p) /\ OpenOK(dk, p)  BY <1>3 DEF MemoryOK
<1>5. n \in Name  BY NameFacts
<1>6. h # NoHandle /\ AllAuthentic(x, dom)  BY <1>1, <1>4 DEF OpenOK
<1>7. h \in Handle /\ IsData(x)  BY <1>1, <1>3, <1>5, <1>6, Holds
<1>8. dom \in Doms
  <2>1. p.key[h] \in Db \cup {PoolKey}  BY <1>4, <1>7, MemoryFields
  <2> QED  BY <1>1, <1>5, <2>1 DEF Doms
<1>9. size \in Nat /\ size <= x.len * B
  <2>1. PICK L \in Nat : L = x.len  BY <1>7, DataFields
  <2>2. L * B \in Nat /\ MaxBlocks * B \in Nat  BY PoolAssumption, BAssumption
  <2>3. size = IF p.logical[h] = Unknown THEN x.len * B ELSE p.logical[h]
    BY <1>1 DEF Size, SizeIn, PhysicalSize
  <2>4. CASE p.logical[h] = Unknown  BY <2>1, <2>2, <2>3, <2>4
  <2>5. CASE p.logical[h] # Unknown
    <3>1. p.logical[h] \in 0 .. MaxBlocks * B  BY <1>4, <1>7, <2>5, MemoryFields
    <3>2. p.logical[h] <= x.len * B  BY <1>1, <1>4, <1>5, <1>6, <2>5 DEF SizesFit
    <3> QED  BY <2>2, <2>3, <2>5, <3>1, <3>2
  <2> QED  BY <2>4, <2>5
<1> QED  BY <1>1, <1>2, <1>3, <1>5, <1>6, <1>7, <1>8, <1>9 DEF OpenFile

\* Contents sealed under the key of an open file's handle are sealed under
\* the key of its database.
LEMMA SealedByOpen ==
    ASSUME NEW dk, NEW p, NEW n, NEW h, NEW x, NEW dom, NEW size,
           OpenFile(dk, p, n, h, x, dom, size), NEW w, AllAuthentic(w, dom)
    PROVE  \A d \in Db : n \in {Main(d), Journal(d)} => SealedFor(d, n, w)
<1> SUFFICES ASSUME NEW d \in Db, n \in {Main(d), Journal(d)} PROVE SealedFor(d, n, w)
  OBVIOUS
<1>1. OpenOK(dk, p)  BY DEF OpenFile, MemoryOK
<1>2. p.key[h] = d  BY <1>1 DEF OpenFile, OpenOK
<1>3. dom = Sealed(d, n)  BY <1>2 DEF OpenFile, Sealed
<1> QED  BY <1>3 DEF SealedFor, AllAuthentic

\* The memory after the size of the file in h became l.
Resized(p, h, l) == [p EXCEPT !.logical[h] = l]

\* Only the contents of h changed.
Rewrote(dk, e, h, n, w) ==
    /\ e[h].name = n /\ e[h].data = w
    /\ \A g \in Handle \ {h} : e[g] = dk[g]

\* Only the size of the file in h changed, to l.
Sized(p, q, h, l) ==
    /\ q.up /\ q.map = p.map /\ q.open = p.open /\ q.logical[h] = l /\ l # Unknown
    /\ \A g \in Handle \ {h} : q.logical[g] = p.logical[g]

\* New contents of an open file, and the size that goes with them.
LEMMA OpenContentOK ==
    ASSUME NEW dk, NEW p, NEW n, NEW h, NEW x, NEW dom, NEW size,
           OpenFile(dk, p, n, h, x, dom, size),
           NEW w, IsData(w), AllAuthentic(w, dom), NEW e, e = WithData(dk, h, w),
           NEW l \in Nat, l <= w.len * B, NEW q, q = Resized(p, h, l)
    PROVE  DiskOK(e) /\ MemoryOK(e, q) /\ Sized(p, q, h, l)
<1>1. p \in Memory /\ p.logical \in [Handle -> 0 .. MaxBlocks * B \cup {Unknown}]
  BY MemoryFields DEF OpenFile, MemoryOK
<1>2. l \in 0 .. MaxBlocks * B
  <2>1. PICK L \in Nat : L = w.len /\ L <= MaxBlocks  BY DataFields
  <2>2. L * B \in Nat /\ MaxBlocks * B \in Nat  BY PoolAssumption, BAssumption
  <2>3. L * B <= MaxBlocks * B
    <3>1. CASE L = MaxBlocks  BY <2>2, <3>1
    <3>2. CASE L < MaxBlocks
      <4>1. L * B + B <= MaxBlocks * B  BY <3>2, BlockOrder, PoolAssumption
      <4> QED  BY <2>2, <4>1, BAssumption
    <3> QED  BY <2>1, <3>1, <3>2, PoolAssumption
  <2> QED  BY <2>1, <2>2, <2>3
<1>3. PICK lg : lg = [p.logical EXCEPT ![h] = l]  OBVIOUS
<1>4. h \in Handle  BY DEF OpenFile
<1>5. /\ lg \in [Handle -> 0 .. MaxBlocks * B \cup {Unknown}]
      /\ lg[h] = l /\ \A g \in Handle \ {h} : lg[g] = p.logical[g]
  BY <1>1, <1>2, <1>3, <1>4
<1>6. q = [p EXCEPT !.logical = lg]  BY <1>1, <1>3 DEF Memory, Resized
<1>7. q \in Memory  BY <1>1, <1>5, <1>6 DEF Memory
<1>8. /\ q.up = p.up /\ q.avail = p.avail /\ q.map = p.map /\ q.key = p.key
      /\ q.logical = lg /\ q.open = p.open /\ q.dbs = p.dbs
  BY <1>1, <1>6 DEF Memory
<1>9. q.up  BY <1>8 DEF OpenFile
<1>10. \A d \in Db : n \in {Main(d), Journal(d)} => SealedFor(d, n, w)  BY SealedByOpen
<1>11. /\ DiskOK(dk) /\ MemoryOK(dk, p) /\ p.up /\ n \in Name /\ p.map[n] # NoHandle /\ h = p.map[n]
       /\ AllAuthentic(w, [key |-> p.key[h], name |-> n])
  BY DEF OpenFile
<1>12. \A g \in Handle \ {h} : q.logical[g] = p.logical[g]  BY <1>5, <1>8
<1>13. q.logical[h] # Unknown => q.logical[h] <= w.len * B  BY <1>5, <1>8
<1>14. Rewriting(p, q, n, h, w)
  BY <1>7, <1>8, <1>9, <1>10, <1>11, <1>12, <1>13 DEF Rewriting
<1>15. l # Unknown  BY <1>2, PoolAssumption
<1>16. /\ DiskOK(e) /\ MemoryOK(e, q) /\ e[h].data = w
       /\ \A g \in Handle \ {h} : e[g] = dk[g]
  BY <1>11, <1>14, ContentOK
<1> QED  BY <1>5, <1>8, <1>9, <1>12, <1>15, <1>16 DEF Sized

LEMMA OpenDiskOK ==
    ASSUME NEW dk, NEW p, NEW n, NEW h, NEW x, NEW dom, NEW size,
           OpenFile(dk, p, n, h, x, dom, size),
           NEW w, IsData(w), AllAuthentic(w, dom), NEW e, e = WithData(dk, h, w)
    PROVE  DiskOK(e) /\ Rewrote(dk, e, h, n, w)
<1>1. \A d \in Db : n \in {Main(d), Journal(d)} => SealedFor(d, n, w)  BY SealedByOpen
<1>2. DiskOK(dk) /\ h \in Handle /\ dk[h].name = n  BY Holds DEF OpenFile
<1> QED  BY <1>1, <1>2, DataUpdate DEF Rewrote

LEMMA AfterMany ==
    ASSUME NEW N \in Nat \ {0}, NEW disks, disks \in [1 .. N -> Range(disks)],
           NEW q, NEW r, Performs(disks, q, r)
    PROVE  \/ disk' = disks[N] /\ pool' = q /\ cut' = NoRequest
           \/ pool' = Down /\ cut' = r /\ \E i \in 1 .. N - 1 : disk' = disks[i]
<1>1. Len(disks) = N /\ disks # <<>>
  <2>1. disks \in Seq(Range(disks))  OBVIOUS
  <2>2. DOMAIN disks = 1 .. Len(disks) /\ Len(disks) \in Nat  BY <2>1, LenProperties
  <2>3. DOMAIN disks = 1 .. N  OBVIOUS
  <2>4. PICK k \in Nat : k = Len(disks)  BY <2>2
  <2>5. 1 .. k = 1 .. N  BY <2>2, <2>3, <2>4
  <2>6. k = N  BY <2>5
  <2> QED  BY <2>1, <2>4, <2>6, EmptySeq
<1>2. Last(disks) = disks[N]  BY <1>1 DEF Last
<1>3. CASE Completes(disks, q)  BY <1>1, <1>2, <1>3 DEF Completes
<1>4. CASE PowerLost(disks, r)
  <2>1. PICK i \in 1 .. N - 1 : disk' = disks[i]  BY <1>1, <1>4 DEF PowerLost
  <2> QED  BY <1>4, <2>1 DEF PowerLost
<1> QED  BY <1>3, <1>4 DEF Performs

LEMMA SizeBound ==
    ASSUME NEW n \in SqliteName
    PROVE  MaxSize(n) \in Nat /\ MaxSize(n) <= MaxBlocks * B /\ MaxBlocks * B \in Nat
<1>1. MaxBlocks * B \in Nat /\ 1 * B = B  BY PoolAssumption, BAssumption
<1>2. B <= MaxBlocks * B
  <2>1. CASE MaxBlocks = 1  BY <1>1, <2>1, BAssumption
  <2>2. CASE 1 < MaxBlocks
    <3>1. 1 * B + B <= MaxBlocks * B  BY <2>2, BlockOrder, PoolAssumption
    <3> QED  BY <1>1, <3>1, BAssumption
  <2> QED  BY <2>1, <2>2, PoolAssumption
<1> QED  BY <1>1, <1>2, BAssumption DEF MaxSize

\* What xWrite does to the open file n: all of the write, or the blocks up to
\* `last' of it and a power loss.
WroteTo(dk, p, n, h, x, dom, size, off, len, v, last, w, e, l, q) ==
    /\ OpenFile(dk, p, n, h, x, dom, size) /\ dk = disk /\ p = pool /\ size = SizeIn(p, dk, n)
    /\ off <= Blocks(size) * B /\ off \in Nat /\ len \in Nat \ {0}
    /\ n \in Mains => off % B = 0 /\ len = B
    /\ last \in FirstBlock(off) .. LastBlock(off, len)
    /\ w = Written(x, dom, off, len, v, last) /\ IsData(w) /\ AllAuthentic(w, dom)
    /\ e = WithData(dk, h, w) /\ e = disk'
    /\ l = Larger(size, off + len) /\ q = Resized(p, h, l)
    /\ \/ /\ last = LastBlock(off, len) /\ cut' = NoRequest /\ q = pool'
          /\ l \in Nat /\ l <= w.len * B
       \/ /\ pool' = Down
          /\ cut' = [op |-> "write", name |-> n, off |-> off, len |-> len, byte |-> v]

Wrote(n, off, len, v) ==
    \E dk, p, h, x, dom, size, last, w, e, l, q :
        WroteTo(dk, p, n, h, x, dom, size, off, len, v, last, w, e, l, q)

LEMMA XWriteDoes ==
    ASSUME PoolInv, NEW n \in SqliteName, NEW v \in Byte, NEW off \in 0 .. MaxSize(n) - 1,
           NEW len \in 1 .. MaxSize(n) - off, XWrite(n, off, len, v)
    PROVE  Wrote(n, off, len, v)
<1>1. PICK dk, p : dk = disk /\ p = pool /\ DiskOK(dk) /\ MemoryOK(dk, p)  BY Before
<1>2. n \in p.open  BY <1>1 DEF XWrite
<1>3. PICK h, x, dom, size :
         /\ OpenFile(dk, p, n, h, x, dom, size)
         /\ h = pool.map[n] /\ x = Data(n) /\ dom = Domain(n) /\ size = Size(n)
  BY <1>1, <1>2, IsOpenFile
<1>4. /\ IsData(x) /\ dom \in Doms /\ AllAuthentic(x, dom) /\ size \in Nat
      /\ size <= x.len * B
  BY <1>3 DEF OpenFile
<1>5. PICK L \in Nat : L = x.len /\ x \in Region(Doms, L)  BY <1>4, DataFields
<1>6. /\ off \in Nat /\ len \in Nat \ {0} /\ off + len \in Nat /\ off + len <= MaxBlocks * B
  BY SizeBound
<1>7. off <= L * B
  <2>1. PICK c : c = Blocks(size)  OBVIOUS
  <2>2. c \in Nat /\ c <= L  BY <1>4, <1>5, <2>1, BlocksCover
  <2>3. off <= c * B  BY <1>3, <2>1 DEF XWrite
  <2>4. c * B \in Nat /\ L * B \in Nat  BY <2>2, BAssumption
  <2>5. c * B <= L * B
    <3>1. CASE c = L  BY <2>4, <3>1
    <3>2. CASE c < L
      <4>1. c * B + B <= L * B  BY <2>2, <3>2, BlockOrder
      <4> QED  BY <2>4, <4>1, BAssumption
    <3> QED  BY <2>2, <3>1, <3>2
  <2> QED  BY <1>6, <2>3, <2>4, <2>5
<1>8. WritesUpTo(x, dom, off, len) = LastBlock(off, len)
  BY <1>4, <1>5, <1>6, WritesAll
<1>9. PICK F, E : F = FirstBlock(off) /\ E = LastBlock(off, len)  OBVIOUS
<1>10. F \in Nat /\ E \in Nat /\ F <= E
  <2>1. off + len - 1 \in Nat /\ off <= off + len - 1  BY <1>6
  <2>2. F \in Nat /\ E \in Nat /\ F * B <= off
    <3>1. F \in Nat /\ E \in Nat  BY <1>6, <1>9, <2>1, DivMod DEF FirstBlock, LastBlock
    <3>2. F * B <= off  BY <1>6, <1>9, <3>1, BlockOf DEF FirstBlock
    <3> QED  BY <3>1, <3>2
  <2>3. F * B <= off + len - 1
    <3>1. F * B \in Nat  BY <2>2, BAssumption
    <3> QED  BY <1>6, <2>1, <2>2, <3>1
  <2>4. F <= E  BY <1>9, <2>1, <2>2, <2>3, BlockOf DEF LastBlock
  <2> QED  BY <2>2, <2>4
<1>11. PICK N : N = E - F + 1  OBVIOUS
<1>12. N \in Nat \ {0} /\ F - 1 + N = E /\ \A i \in 1 .. N : F - 1 + i \in F .. E
  BY <1>10, <1>11
<1>13. PICK disks :
          disks = [i \in 1 .. N |-> WithData(dk, h, Written(x, dom, off, len, v, F - 1 + i))]
  OBVIOUS
<1>14. PICK l : l = Larger(size, off + len)  OBVIOUS
<1>15. PICK q : q = Resized(p, h, l)  OBVIOUS
<1>16. PICK r : r = [op |-> "write", name |-> n, off |-> off, len |-> len, byte |-> v]  OBVIOUS
<1>17. Performs(disks, q, r)
  <2>1. ~(E < E)  BY <1>10
  <2>2. Performs([i \in 1 .. E - F + 1 |->
                    WithData(disk, h, Written(x, dom, off, len, v, F - 1 + i))],
                 IF E < E THEN pool ELSE [pool EXCEPT !.logical[h] = Larger(size, off + len)],
                 [op |-> "write", name |-> n, off |-> off, len |-> len, byte |-> v])
    BY <1>3, <1>8, <1>9 DEF XWrite
  <2>3. q = [p EXCEPT !.logical[h] = l]  BY <1>15 DEF Resized
  <2> QED  BY <1>1, <1>11, <1>13, <1>14, <1>16, <2>1, <2>2, <2>3
<1>18. ASSUME NEW i \in 1 .. N, NEW w, w = Written(x, dom, off, len, v, F - 1 + i)
       PROVE  /\ IsData(w) /\ AllAuthentic(w, dom) /\ L <= w.len
              /\ i = N => off + len <= w.len * B
  <2>1. PICK last : last = F - 1 + i  OBVIOUS
  <2>2. last \in FirstBlock(off) .. LastBlock(off, len) /\ (i = N => last = LastBlock(off, len))
    BY <1>9, <1>12, <2>1
  <2>3. w = Written(x, dom, off, len, v, last)  BY <1>18, <2>1
  <2>4. off <= x.len * B  BY <1>5, <1>7
  <2> QED  BY <1>4, <1>5, <1>6, <2>2, <2>3, <2>4, WrittenData
<1>19. \/ disk' = disks[N] /\ pool' = q /\ cut' = NoRequest
       \/ pool' = Down /\ cut' = r /\ \E i \in 1 .. N - 1 : disk' = disks[i]
  <2>1. disks \in [1 .. N -> Range(disks)]  BY <1>13 DEF Range
  <2> QED  BY <1>12, <1>17, <2>1, AfterMany
<1>20. PICK i \in 1 .. N :
          /\ disk' = disks[i]
          /\ \/ i = N /\ pool' = q /\ cut' = NoRequest
             \/ pool' = Down /\ cut' = r
  <2>1. N \in 1 .. N /\ \A i \in 1 .. N - 1 : i \in 1 .. N  BY <1>12
  <2> QED  BY <1>19, <2>1
<1>21. PICK w, last, e : w = Written(x, dom, off, len, v, F - 1 + i) /\ last = F - 1 + i /\ e = disk'
  OBVIOUS
<1>22. last \in F .. E /\ (i = N => last = E)  BY <1>12, <1>21
<1>23. e = WithData(dk, h, w)  BY <1>13, <1>20, <1>21
<1>24. IsData(w) /\ AllAuthentic(w, dom) /\ L <= w.len /\ (i = N => off + len <= w.len * B)
  BY <1>18, <1>21
<1>25. i = N => l \in Nat /\ l <= w.len * B
  <2>1. PICK W \in Nat : W = w.len  BY <1>24, DataFields
  <2>2. L * B <= W * B /\ L * B \in Nat /\ W * B \in Nat
    <3>1. L * B \in Nat /\ W * B \in Nat  BY BAssumption
    <3>2. CASE L = W  BY <3>1, <3>2
    <3>3. CASE L < W
      <4>1. L * B + B <= W * B  BY <3>3, BlockOrder
      <4> QED  BY <3>1, <4>1, BAssumption
    <3> QED  BY <1>24, <2>1, <3>1, <3>2, <3>3
  <2>3. i = N => size <= W * B /\ off + len <= W * B  BY <1>4, <1>5, <1>24, <2>1, <2>2
  <2> QED  BY <1>4, <1>6, <1>14, <2>1, <2>2, <2>3 DEF Larger
<1>26. size = SizeIn(p, dk, n)  BY <1>1, <1>3 DEF Size
<1>27. w = Written(x, dom, off, len, v, last)  BY <1>21
<1>28. \/ /\ last = LastBlock(off, len) /\ cut' = NoRequest /\ q = pool'
          /\ l \in Nat /\ l <= w.len * B
       \/ pool' = Down /\ cut' = [op |-> "write", name |-> n, off |-> off, len |-> len, byte |-> v]
  BY <1>9, <1>14, <1>15, <1>16, <1>20, <1>22, <1>25
<1>29. off <= Blocks(size) * B /\ (n \in Mains => off % B = 0 /\ len = B)  BY <1>3 DEF XWrite
<1>30. WroteTo(dk, p, n, h, x, dom, size, off, len, v, last, w, e, l, q)
  BY <1>1, <1>3, <1>6, <1>9, <1>14, <1>15, <1>21, <1>22, <1>23, <1>24, <1>26, <1>27, <1>28, <1>29
     DEF WroteTo
<1> QED  BY <1>30 DEF Wrote

LEMMA XWriteOK ==
    ASSUME NEW n, NEW off, NEW len, NEW v, Wrote(n, off, len, v)
    PROVE  PoolInv'
<1>1. PICK dk, p, h, x, dom, size, last, w, e, l, q :
         WroteTo(dk, p, n, h, x, dom, size, off, len, v, last, w, e, l, q)
  BY DEF Wrote
<1>2. /\ OpenFile(dk, p, n, h, x, dom, size) /\ IsData(w) /\ AllAuthentic(w, dom)
      /\ e = WithData(dk, h, w) /\ e = disk' /\ q = Resized(p, h, l)
      /\ \/ q = pool' /\ l \in Nat /\ l <= w.len * B
         \/ pool' = Down
  BY <1>1 DEF WroteTo
<1>3. CASE pool' = Down
  <2>1. DiskOK(e)  BY <1>2, OpenDiskOK
  <2> QED  BY <1>2, <1>3, <2>1, DownOK, AfterStep
<1>4. CASE q = pool' /\ l \in Nat /\ l <= w.len * B
  <2>1. DiskOK(e) /\ MemoryOK(e, q)  BY <1>2, <1>4, OpenContentOK
  <2> QED  BY <1>2, <1>4, <2>1, AfterStep
<1> QED  BY <1>2, <1>3, <1>4

\* What xTruncate does: the kept part of the last block is sealed again, and
\* unless the power is lost there the blocks behind it go.
Cut(dk, p, n, h, x, dom, size, s, w1, w2, e, q) ==
    /\ OpenFile(dk, p, n, h, x, dom, size) /\ dk = disk /\ p = pool /\ size = SizeIn(p, dk, n)
    /\ s \in Nat /\ s <= size /\ (n \in Mains => s % B = 0)
    /\ w1 = Resealed(x, dom, s) /\ IsData(w1) /\ AllAuthentic(w1, dom)
    /\ w2 = Truncated(x, dom, s) /\ IsData(w2) /\ AllAuthentic(w2, dom) /\ s <= w2.len * B
    /\ q = Resized(p, h, s) /\ e = disk'
    /\ \/ e = WithData(dk, h, w2) /\ pool' = q /\ cut' = NoRequest
       \/ /\ e = WithData(dk, h, w1) /\ pool' = Down
          /\ cut' = [op |-> "truncate", name |-> n, size |-> s]

Shortens(n, s) ==
    \E dk, p, h, x, dom, size, w1, w2, e, q : Cut(dk, p, n, h, x, dom, size, s, w1, w2, e, q)

LEMMA XTruncateDoes ==
    ASSUME PoolInv, NEW n \in SqliteName, NEW s \in 0 .. MaxSize(n), XTruncate(n, s)
    PROVE  Shortens(n, s)
<1>1. PICK dk, p : dk = disk /\ p = pool /\ DiskOK(dk) /\ MemoryOK(dk, p)  BY Before
<1>2. n \in p.open  BY <1>1 DEF XTruncate
<1>3. PICK h, x, dom, size :
         /\ OpenFile(dk, p, n, h, x, dom, size)
         /\ h = pool.map[n] /\ x = Data(n) /\ dom = Domain(n) /\ size = Size(n)
  BY <1>1, <1>2, IsOpenFile
<1>4. /\ IsData(x) /\ dom \in Doms /\ AllAuthentic(x, dom) /\ size \in Nat
      /\ size <= x.len * B
  BY <1>3 DEF OpenFile
<1>5. s \in Nat /\ s <= size /\ s <= x.len * B /\ (n \in Mains => s % B = 0)
  <2>1. s \in Nat /\ s <= size /\ (n \in Mains => s % B = 0)  BY <1>3, SizeBound DEF XTruncate
  <2>2. PICK L \in Nat : L = x.len  BY <1>4, DataFields
  <2>3. L * B \in Nat  BY BAssumption
  <2> QED  BY <1>4, <2>1, <2>2, <2>3
<1>6. PICK w1, w2 : w1 = Resealed(x, dom, s) /\ w2 = Truncated(x, dom, s)  OBVIOUS
<1>7. PICK e1, e2, e : e1 = WithData(dk, h, w1) /\ e2 = WithData(dk, h, w2) /\ e = disk'  OBVIOUS
<1>8. PICK q, r : /\ q = Resized(p, h, s)
                  /\ r = [op |-> "truncate", name |-> n, size |-> s]
  OBVIOUS
<1>9. Performs(<<e1, e2>>, q, r)
  <2>1. q = [p EXCEPT !.logical[h] = s]  BY <1>8 DEF Resized
  <2> QED  BY <1>1, <1>3, <1>6, <1>7, <1>8, <2>1 DEF XTruncate
<1>10. IsData(w1) /\ AllAuthentic(w1, dom)  BY <1>4, <1>5, <1>6, ResealedData
<1>11. IsData(w2) /\ AllAuthentic(w2, dom) /\ s <= w2.len * B  BY <1>4, <1>5, <1>6, TruncatedData
<1>12. \/ e = e2 /\ pool' = q /\ cut' = NoRequest
       \/ e = e1 /\ pool' = Down /\ cut' = r
  BY <1>7, <1>9, AfterTwo
<1>13. size = SizeIn(p, dk, n)  BY <1>1, <1>3 DEF Size
<1>14. Cut(dk, p, n, h, x, dom, size, s, w1, w2, e, q)
  BY <1>1, <1>3, <1>5, <1>6, <1>7, <1>8, <1>10, <1>11, <1>12, <1>13 DEF Cut
<1> QED  BY <1>14 DEF Shortens

LEMMA XTruncateOK ==
    ASSUME NEW n, NEW s, Shortens(n, s)
    PROVE  PoolInv'
<1>1. PICK dk, p, h, x, dom, size, w1, w2, e, q : Cut(dk, p, n, h, x, dom, size, s, w1, w2, e, q)
  BY DEF Shortens
<1>2. CASE pool' = Down
  <2>1. DiskOK(e)
    <3>1. PICK w : w \in {w1, w2} /\ e = WithData(dk, h, w)  BY <1>1 DEF Cut
    <3>2. OpenFile(dk, p, n, h, x, dom, size) /\ IsData(w) /\ AllAuthentic(w, dom)
      BY <1>1, <3>1 DEF Cut
    <3> QED  BY <3>1, <3>2, OpenDiskOK
  <2> QED  BY <1>1, <1>2, <2>1, DownOK, AfterStep DEF Cut
<1>3. CASE pool' # Down
  <2>1. DiskOK(e) /\ MemoryOK(e, q)  BY <1>1, <1>3, OpenContentOK DEF Cut
  <2> QED  BY <1>1, <1>3, <2>1, AfterStep DEF Cut
<1> QED  BY <1>2, <1>3

LEMMA AfterImport ==
    ASSUME NEW a, NEW b, NEW c, NEW u, NEW w, NEW t, t \in {<<>>, <<u, w>>},
           NEW q, NEW r, Performs(t \o <<a, b, c>>, q, r)
    PROVE  \/ disk' = c /\ pool' = q /\ cut' = NoRequest
           \/ pool' = Down /\ cut' = r /\ disk' \in {a, b}
           \/ pool' = Down /\ cut' = r /\ t # <<>> /\ disk' \in {u, w}
<1>1. CASE t = <<>>
  <2>1. PICK m : m = <<a, b, c>>  OBVIOUS
  <2>2. t \o <<a, b, c>> = m  BY <1>1, <2>1
  <2>3. Len(m) = 3 /\ m[1] = a /\ m[2] = b /\ m[3] = c  BY <2>1
  <2>4. m # <<>> /\ Last(m) = c  BY <2>3 DEF Last
  <2>5. \A i \in 1 .. Len(m) - 1 : m[i] \in {a, b}
    <3>1. \A i \in 1 .. 3 - 1 : i = 1 \/ i = 2  OBVIOUS
    <3> QED  BY <2>3, <3>1
  <2>6. Performs(m, q, r)  BY <2>2
  <2> QED  BY <2>4, <2>5, <2>6 DEF Performs, Completes, PowerLost
<1>2. CASE t = <<u, w>>
  <2>1. PICK x, y : x = <<u, w>> /\ y = <<a, b, c>>  OBVIOUS
  <2>2. PICK m : m = x \o y  OBVIOUS
  <2>3. Len(m) = 5 /\ m[1] = u /\ m[2] = w /\ m[3] = a /\ m[4] = b /\ m[5] = c
    <3>1. PICK S : S = {u, w, a, b, c}  OBVIOUS
    <3>2. x \in Seq(S) /\ y \in Seq(S) /\ Len(x) = 2 /\ Len(y) = 3  BY <2>1, <3>1
    <3>3. /\ Len(x \o y) = Len(x) + Len(y)
          /\ \A i \in 1 .. Len(x) + Len(y) : (x \o y)[i] = IF i <= Len(x) THEN x[i] ELSE y[i - Len(x)]
      BY <3>2, ConcatProperties
    <3>4. Len(m) = 5 /\ \A i \in 1 .. 5 : m[i] = IF i <= 2 THEN x[i] ELSE y[i - 2]
      BY <2>2, <3>2, <3>3
    <3>5. m[1] = x[1] /\ m[2] = x[2] /\ m[3] = y[1] /\ m[4] = y[2] /\ m[5] = y[3]  BY <3>4
    <3> QED  BY <2>1, <3>4, <3>5
  <2>4. m # <<>> /\ Last(m) = c  BY <2>3 DEF Last
  <2>5. \A i \in 1 .. Len(m) - 1 : m[i] \in {u, w, a, b}
    <3>1. \A i \in 1 .. 5 - 1 : i = 1 \/ i = 2 \/ i = 3 \/ i = 4  OBVIOUS
    <3> QED  BY <2>3, <3>1
  <2>6. Performs(m, q, r)  BY <1>2, <2>1, <2>2
  <2>7. t # <<>>  BY <1>2, LastOf
  <2> QED  BY <2>4, <2>5, <2>6, <2>7 DEF Performs, Completes, PowerLost
<1> QED  BY <1>1, <1>2

LEMMA OneBlock == \A d \in Db : MaxSize(Main(d)) \div B = 1 /\ 1 * B = B
<1> TAKE d \in Db
<1>1. MaxSize(Main(d)) = B
  <2>1. Main(d) \notin Journals  BY NameFacts DEF Journals
  <2> QED  BY <2>1 DEF MaxSize
<1>2. B \in Nat /\ B \div B \in Nat /\ 1 * B = B  BY BAssumption, DivMod
<1>3. 1 <= B \div B /\ ~(2 <= B \div B)
  <2>1. 1 * B <= B /\ ~(2 * B <= B)  BY BAssumption
  <2> QED  BY <1>2, <2>1, BlockOf
<1>4. B \div B = 1  BY <1>2, <1>3
<1> QED  BY <1>1, <1>2, <1>4

\* What an import does: the old file's data and then its name go, the new one
\* gets its name, a blank block and its contents.
Imported(dk, p, n, v, e, p1, e1, h, p2, e2, r) ==
    /\ dk = disk /\ p = pool /\ e = disk' /\ DiskOK(dk) /\ MemoryOK(dk, p) /\ p.up
    /\ p.open = {} /\ n \in Mains
    /\ p.map[n] = NoHandle => p1 = p /\ e1 = dk
    /\ p.map[n] # NoHandle => p1 = Unlinked(p, n) /\ e1 = PutFile(dk, p.map[n], Fresh)
    /\ DiskOK(e1) /\ MemoryOK(e1, p1) /\ p1.up /\ p1.avail # <<>> /\ p1.map[n] = NoHandle
    /\ h = Last(p1.avail) /\ p2 = Linked(p1, n) /\ e2 = LinkDisk(e1, p1, n)
    /\ p2.map[n] = h /\ DiskOK(e) /\ MemoryOK(e, pool')
    /\ r = [op |-> "import", name |-> n, size |-> 1 * B]
    /\ \/ /\ pool' = p2 /\ cut' = NoRequest
          /\ \E dom \in Doms : e = WithData(e2, h, Written(Empty, dom, 0, 1 * B, v, 0))
       \/ /\ pool' = Down /\ cut' = r
          /\ \/ e = e2
             \/ e = WithData(e2, h, PhysTruncated(Empty, 1))
             \/ p.map[n] # NoHandle /\ e = WithData(dk, p.map[n], Empty)
             \/ p.map[n] # NoHandle /\ e = e1

LEMMA ImportFileOK ==
    ASSUME PoolInv, NEW d \in Db, NEW v \in Byte, ImportFile(d, MaxSize(Main(d)) \div B, v)
    PROVE  /\ PoolInv'
           /\ \E dk, p, e, p1, e1, h, p2, e2, r : Imported(dk, p, Main(d), v, e, p1, e1, h, p2, e2, r)
<1>1. PICK dk, p : dk = disk /\ p = pool /\ DiskOK(dk) /\ MemoryOK(dk, p)  BY Before
<1>2. PICK n : n = Main(d)  OBVIOUS
<1>3. PICK u1, u2 : u1 = WithData(dk, p.map[n], Empty) /\ u2 = PutFile(dk, p.map[n], Fresh)
  OBVIOUS
<1> DEFINE linked == p.map[n] # NoHandle
<1>4. PICK p1, t, e1 : /\ p1 = IF linked THEN Unlinked(p, n) ELSE p
                       /\ t = IF linked THEN <<u1, u2>> ELSE <<>>
                       /\ e1 = IF linked THEN u2 ELSE dk
  OBVIOUS
<1>5. PICK p2, e2 : p2 = Linked(p1, n) /\ e2 = LinkDisk(e1, p1, n)  OBVIOUS
<1>6. PICK blank, image : /\ blank = PhysTruncated(Empty, 1)
                          /\ image = Written(Empty, Sealed(d, n), 0, 1 * B, v, 0)
  OBVIOUS
<1>7. PICK e3, e4 : e3 = WithData(e2, p2.map[n], blank) /\ e4 = WithData(e2, p2.map[n], image)
  OBVIOUS
<1>8. PICK r : r = [op |-> "import", name |-> n, size |-> 1 * B]  OBVIOUS
<1>9. n \in Name  BY <1>2, NameFacts
<1>10. p.up /\ p.open = {} /\ (linked \/ p.avail # <<>>)
  BY <1>1, <1>2 DEF ImportFile, Has
<1>11. Performs(t \o <<e2, e3, e4>>, p2, r)
  <2> HIDE DEF linked
  <2>1. Has(n) <=> linked  BY <1>1 DEF Has, linked
  <2>2. p1 = (IF Has(n) THEN Unlinked(pool, n) ELSE pool)  BY <1>1, <1>4, <2>1
  <2>3. t = (IF Has(n) THEN UnlinkDisks(disk, pool.map[n]) ELSE <<>>)
    <3>1. UnlinkDisks(disk, pool.map[n]) = <<u1, u2>>  BY <1>1, <1>3 DEF UnlinkDisks, PutFile
    <3> QED  BY <1>4, <2>1, <3>1
  <2>4. e1 = (IF Has(n) THEN Last(t) ELSE disk)
    <3>1. Last(<<u1, u2>>) = u2  BY LastOf
    <3> QED  BY <1>1, <1>4, <2>1, <3>1
  <2>5. PICK k : k = MaxSize(Main(d)) \div B  OBVIOUS
  <2>6. k = 1 /\ k - 1 = 0  BY <2>5, OneBlock
  <2>7. ImportFile(d, k, v)  BY <2>5
  <2>8. Performs(t \o <<e2, WithData(e2, p2.map[n], PhysTruncated(Empty, k)),
                        WithData(e2, p2.map[n], Written(Empty, Sealed(d, n), 0, k * B, v, k - 1))>>,
                 p2, [op |-> "import", name |-> n, size |-> k * B])
    BY <1>2, <1>5, <2>2, <2>3, <2>4, <2>7 DEF ImportFile
  <2> QED  BY <1>6, <1>7, <1>8, <2>6, <2>8
<1>12. /\ DiskOK(e1) /\ MemoryOK(e1, p1) /\ p1.up /\ p1.avail # <<>> /\ p1.map[n] = NoHandle
       /\ p1.open = {} /\ (linked => DiskOK(u1) /\ DiskOK(u2))
  <2>1. CASE linked
    <3>1. p1 = Unlinked(p, n) /\ e1 = u2  BY <1>4, <2>1
    <3>2. PICK g : g = p.map[n]  OBVIOUS
    <3>3. /\ DiskOK(u1) /\ DiskOK(u2) /\ MemoryOK(u2, p1) /\ p1.up /\ p1.avail # <<>>
          /\ p1.map[n] = NoHandle /\ p1.open = p.open
      BY <1>1, <1>3, <1>9, <1>10, <2>1, <3>1, <3>2, UnlinkOK
    <3> QED  BY <1>10, <3>1, <3>3
  <2>2. CASE ~linked  BY <1>1, <1>4, <1>10, <2>2
  <2> QED  BY <2>1, <2>2
<1>13. PICK h : h = Last(p1.avail)  OBVIOUS
<1>14. /\ h \in Handle /\ DiskOK(e2) /\ MemoryOK(e2, p2) /\ p2.up /\ p2.map[n] = h
       /\ e2[h].name = n /\ p2.logical[h] = 0 /\ p2.open = {}
  BY <1>5, <1>9, <1>12, <1>13, LinkOK
<1>15. \A c \in Db : n \in {Main(c), Journal(c)} => c = d  BY <1>2, NameFacts
<1>16. DiskOK(e3)
  <2>1. IsData(blank) /\ \A k \in 0 .. blank.len - 1 : blank.at[k] = Hole  BY <1>6, BlankData
  <2>2. \A c \in Db : e2[h].name \in {Main(c), Journal(c)} => SealedFor(c, e2[h].name, blank)
    BY <1>2, <1>14, <1>15, <2>1 DEF SealedFor
  <2>3. e3 = WithData(e2, h, blank)  BY <1>7, <1>14
  <2> QED  BY <1>14, <2>1, <2>2, <2>3, DataUpdate
<1>17. DiskOK(e4) /\ MemoryOK(e4, p2)
  <2>1. Sealed(d, n) \in Doms  BY <1>9 DEF Sealed, Doms
  <2>2. PICK dom : dom = Sealed(d, n)  OBVIOUS
  <2>3. IsData(image) /\ AllAuthentic(image, dom)  BY <1>6, <2>1, <2>2, ImageData
  <2>4. \A c \in Db : n \in {Main(c), Journal(c)} => SealedFor(c, n, image)
    BY <1>15, <2>2, <2>3 DEF SealedFor, AllAuthentic
  <2>5. p2.logical[h] <= image.len * B
    <3>1. PICK L \in Nat : L = image.len  BY <2>3, DataFields
    <3>2. L * B \in Nat  BY BAssumption
    <3> QED  BY <1>14, <3>1, <3>2
  <2>6. p2 \in Memory /\ h # NoHandle  BY <1>14, PoolAssumption DEF MemoryOK
  <2>7. Rewriting(p2, p2, n, h, image)
    BY <1>9, <1>14, <2>3, <2>4, <2>5, <2>6 DEF Rewriting
  <2>8. e4 = WithData(e2, h, image)  BY <1>7, <1>14
  <2> QED  BY <1>14, <2>7, <2>8, ContentOK
<1>18. t \in {<<>>, <<u1, u2>>} /\ (t # <<>> => linked)  BY <1>4
<1>19. \/ disk' = e4 /\ pool' = p2 /\ cut' = NoRequest
       \/ pool' = Down /\ cut' = r /\ disk' \in {e2, e3}
       \/ pool' = Down /\ cut' = r /\ linked /\ disk' \in {u1, u2}
  <2> HIDE DEF linked
  <2> QED  BY <1>11, <1>18, AfterImport
<1>20. PICK e, q : e = disk' /\ q = pool'  OBVIOUS
<1>21. DiskOK(e) /\ MemoryOK(e, q)  BY <1>12, <1>14, <1>16, <1>17, <1>19, <1>20, DownOK
<1>22. Imported(dk, p, n, v, e, p1, e1, h, p2, e2, r)
  <2>1. n \in Mains  BY <1>2, NameFacts
  <2>2. linked => p1 = Unlinked(p, n) /\ e1 = u2  BY <1>4
  <2>3. ~linked => p1 = p /\ e1 = dk  BY <1>4
  <2>4. Sealed(d, n) \in Doms  BY <1>9 DEF Sealed, Doms
  <2>5. e3 = WithData(e2, h, blank) /\ e4 = WithData(e2, h, image)  BY <1>7, <1>14
  <2>6. \/ pool' = p2 /\ cut' = NoRequest /\ e = WithData(e2, h, image)
        \/ /\ pool' = Down /\ cut' = r
           /\ \/ e = e2
              \/ e = WithData(e2, h, blank)
              \/ linked /\ e = u1
              \/ linked /\ e = e1
    BY <1>19, <1>20, <2>2, <2>5
  <2>7. \/ /\ pool' = p2 /\ cut' = NoRequest
           /\ \E dom \in Doms : e = WithData(e2, h, Written(Empty, dom, 0, 1 * B, v, 0))
        \/ /\ pool' = Down /\ cut' = r
           /\ \/ e = e2
              \/ e = WithData(e2, h, PhysTruncated(Empty, 1))
              \/ linked /\ e = WithData(dk, p.map[n], Empty)
              \/ linked /\ e = e1
    BY <1>3, <1>6, <2>4, <2>6
  <2>8. /\ p.map[n] = NoHandle => p1 = p /\ e1 = dk
        /\ p.map[n] # NoHandle => p1 = Unlinked(p, n) /\ e1 = PutFile(dk, p.map[n], Fresh)
    BY <1>3, <2>2, <2>3
  <2>9. p2.map[n] = h /\ DiskOK(e) /\ MemoryOK(e, pool')  BY <1>14, <1>20, <1>21
  <2> QED  BY <1>1, <1>5, <1>8, <1>10, <1>12, <1>13, <1>20, <2>1, <2>7, <2>8, <2>9 DEF Imported
<1> QED  BY <1>2, <1>20, <1>21, <1>22, AfterStep

-----------------------------------------------------------------------------
(* The theorems *)

LEMMA PoolStep == PoolInv /\ [Next]_vars => PoolInv'
<1> SUFFICES ASSUME PoolInv, [Next]_vars PROVE PoolInv'
  OBVIOUS
<1>1. CASE UNCHANGED vars  BY <1>1 DEF vars, PoolInv
<1>2. ASSUME NEW clear \in BOOLEAN, Install(clear) PROVE PoolInv'  BY <1>2, InstallOK
<1>3. CASE AddCapacity \/ ReduceCapacity \/ Pause \/ Crash
  BY <1>3, AddCapacityOK, ReduceCapacityOK, StopOK
<1>4. ASSUME NEW d \in Db, OpenMain(d) \/ OpenJournal(d) \/ DeleteJournal(d) PROVE PoolInv'
  <2>1. CASE OpenMain(d)
    BY <2>1, OpenExistingMainOK, OpenNewMainOK, OpenLostMainOK DEF OpenMain
  <2> QED  BY <1>4, <2>1, OpenJournalOK, DeleteJournalOK
<1>5. ASSUME NEW t \in Temp, OpenTemp(t) PROVE PoolInv'  BY <1>5, OpenTempOK
<1>6. ASSUME NEW n \in SqliteName, Close(n) PROVE PoolInv'  BY <1>6, CloseStepOK
<1>7. ASSUME NEW n \in SqliteName, NEW v \in Byte, NEW off \in 0 .. MaxSize(n) - 1,
             NEW len \in 1 .. MaxSize(n) - off, XWrite(n, off, len, v)
      PROVE  PoolInv'
  BY <1>7, XWriteDoes, XWriteOK
<1>8. ASSUME NEW n \in SqliteName, NEW size \in 0 .. MaxSize(n), XTruncate(n, size) PROVE PoolInv'
  BY <1>8, XTruncateDoes, XTruncateOK
<1>9. ASSUME NEW d \in Db, NEW v \in Byte, ImportFile(d, MaxSize(Main(d)) \div B, v) PROVE PoolInv'
  BY <1>9, ImportFileOK
<1> QED  BY <1>1, <1>2, <1>3, <1>4, <1>5, <1>6, <1>7, <1>8, <1>9 DEF Next

LEMMA PoolInvariant == Spec => []PoolInv
  BY InitOK, PoolStep, PTL DEF Spec

\* The disk and the memory of the pool always have the types its code gives
\* them: whatever a power loss cuts short, a data region is a run of whole
\* blocks, and no size or handle leaves its range.
THEOREM PoolTypeCorrect == Spec => []TypeOK
<1>1. PoolInv => TypeOK
  <2> SUFFICES ASSUME PoolInv PROVE TypeOK
    OBVIOUS
  <2>1. DiskOK(disk) /\ pool \in Memory  BY DEF PoolInv, MemoryOK
  <2>2. ASSUME NEW h \in Handle
        PROVE  /\ disk[h].made \in BOOLEAN /\ disk[h].name \in Name \cup {NoName}
               /\ DataOK(disk[h].data)
    <3>1. IsOpaque(disk[h])  BY <2>1 DEF DiskOK
    <3>2. /\ disk[h].made \in BOOLEAN /\ disk[h].name \in Name \cup {NoName}
          /\ IsData(disk[h].data)
      BY <3>1, OpaqueFields
    <3>3. PICK x : x = disk[h].data  OBVIOUS
    <3>4. x.len \in 0 .. MaxBlocks /\ x.at \in [0 .. x.len - 1 -> Block]  BY <3>2, <3>3, DataFields
    <3>5. DataOK(x)  BY <3>4 DEF DataOK, Block
    <3> QED  BY <3>2, <3>3, <3>5
  <2> QED  BY <2>1, <2>2, MemoryFields DEF TypeOK
<1> QED  BY <1>1, PoolInvariant, PTL

\* No two opaque files ever carry one name, and a running pool's table and
\* free list account for every file, after a power loss inside any call.
THEOREM EveryHandleAccounted == Spec => []HandlesAccounted
<1>1. PoolInv => HandlesAccounted
  <2> SUFFICES ASSUME PoolInv PROVE HandlesAccounted
    OBVIOUS
  <2>1. NamesUnique(disk)  BY DEF PoolInv, DiskOK
  <2>2. pool.up => Accounted(disk, pool)  BY DEF PoolInv, MemoryOK
  <2> QED  BY <2>1, <2>2 DEF HandlesAccounted, NamesUnique, Accounted, Has
<1> QED  BY <1>1, PoolInvariant, PTL

\* No block of an open file ever fails to authenticate, and what is on disk
\* for a database is sealed under the database's key.
THEOREM AlwaysReadable == Spec => []Readable
<1>1. PoolInv => Readable
  <2> SUFFICES ASSUME PoolInv PROVE Readable
    OBVIOUS
  <2>1. DiskOK(disk) /\ MemoryOK(disk, pool)  BY DEF PoolInv
  <2>2. \A n \in pool.open : AllAuthentic(Data(n), Domain(n))
    <3>1. CASE pool.up  BY <2>1, <3>1 DEF MemoryOK, OpenOK, Data, Domain
    <3>2. CASE ~pool.up
      <4>1. pool.open = {}  BY <2>1, <3>2, DownOK DEF MemoryOK
      <4> QED  BY <4>1
    <3> QED  BY <3>1, <3>2
  <2>3. \A d \in Db, h \in Handle :
          disk[h].name \in {Main(d), Journal(d)} => SealedFor(d, disk[h].name, disk[h].data)
    BY <2>1 DEF DiskOK
  <2> QED  BY <2>2, <2>3 DEF Readable, SealedFor
<1> QED  BY <1>1, PoolInvariant, PTL
=============================================================================
