-------------------------- MODULE PoolFilesProofs ---------------------------
(***************************************************************************)
(* The pool implements plain byte files (ByteFiles), for every block size  *)
(* and any number of databases, temporary files and handles.               *)
(***************************************************************************)
EXTENDS PoolProofs

-----------------------------------------------------------------------------
(* The invariant *)

\* x has the blocks that s bytes need, and zeros behind them.
Holding(x, s) ==
    /\ x.len = Blocks(s)
    /\ \A i \in s .. PhysicalSize(x) - 1 : ByteAt(x, i) = 0

\* A file's blocks are those of its byte size, and what is behind the size in
\* the last block is blank.  A main file's byte size counts once it is open.
ExactAt(dk, p, n) ==
    /\ n \notin Mains /\ p.map[n] # NoHandle =>
          Holding(dk[p.map[n]].data, SizeIn(p, dk, n))
    /\ n \in Mains /\ n \in p.open =>
          SizeIn(p, dk, n) = PhysicalSize(dk[p.map[n]].data)

Exact(dk, p) == \A n \in SqliteName : ExactAt(dk, p, n)

FilesInv ==
    /\ PoolInv
    /\ pool.up => Exact(disk, pool) /\ cut = NoRequest

-----------------------------------------------------------------------------
(* Byte files over data regions *)

\* The first s bytes of x, as a file.
FileOf(s, x) == [size |-> s, byte |-> [i \in 0 .. s - 1 |-> ByteAt(x, i)]]

LEMMA FileFields ==
    ASSUME NEW s \in Nat, NEW x
    PROVE  /\ FileOf(s, x) # NoFile /\ FileOf(s, x).size = s
           /\ FileOf(s, x).byte = [i \in 0 .. s - 1 |-> ByteAt(x, i)]
<1>1. DOMAIN FileOf(s, x) = {"size", "byte"}  BY DEF FileOf
<1>2. DOMAIN NoFile = {"size"}  BY DEF NoFile
<1>3. "byte" # "size"  OBVIOUS
<1> QED  BY <1>1, <1>2, <1>3 DEF FileOf

LEMMA SameFile ==
    ASSUME NEW s \in Nat, NEW x, NEW y, \A i \in 0 .. s - 1 : ByteAt(x, i) = ByteAt(y, i)
    PROVE  FileOf(s, x) = FileOf(s, y)
  BY DEF FileOf

LEMMA EmptyFile == \A x : FileOf(0, x) = Files!Blank(0)
  BY DEF FileOf, Files!Blank, Files!Bytes

\* x reads as zeros from s on; w differs from x in bytes off .. end - 1.
ZeroFrom(x, s) == \A i \in Nat : i >= s => ByteAt(x, i) = 0
Filling(x, w, off, end, v) ==
    \A i \in Nat : ByteAt(w, i) = IF off <= i /\ i < end THEN v ELSE ByteAt(x, i)

LEMMA FilledFile ==
    ASSUME NEW s \in Nat, NEW x, NEW off \in Nat, NEW end \in Nat, NEW v, NEW w, NEW t \in Nat,
           t = Larger(s, end), ZeroFrom(x, s), Filling(x, w, off, end, v)
    PROVE  Files!Filled(FileOf(s, x), off, end, v) = FileOf(t, w)
<1> USE DEF Larger, ZeroFrom, Filling
<1>1. PICK f : f = FileOf(s, x)  OBVIOUS
<1>2. f.size = s /\ f.byte = [i \in 0 .. s - 1 |-> ByteAt(x, i)]  BY <1>1, FileFields
<1>3. \A i \in 0 .. t - 1 :
         ByteAt(w, i) = IF off <= i /\ i < end THEN v ELSE IF i < s THEN f.byte[i] ELSE 0
  BY <1>2
<1>4. Files!Filled(f, off, end, v) =
        [size |-> t, byte |-> [i \in 0 .. t - 1 |->
            IF off <= i /\ i < end THEN v ELSE IF i < s THEN f.byte[i] ELSE 0]]
  BY <1>2 DEF Files!Filled, Files!Bytes
<1> QED  BY <1>1, <1>3, <1>4 DEF FileOf

LEMMA BlocksHold ==
    ASSUME NEW s \in Nat
    PROVE  Blocks(s) \in Nat /\ Blocks(s) * B \in Nat /\ s <= Blocks(s) * B
<1>1. PICK L \in Nat : L = Blocks(s)  BY BlocksCover
<1>2. L * B \in Nat  BY BAssumption
<1>3. CASE s = 0  BY <1>1, <1>2, <1>3
<1>4. CASE s > 0
  <2>1. s - 1 \in Nat /\ (s - 1) \div B \in Nat  BY <1>4, DivMod
  <2>2. (s - 1) \div B < L  BY <1>1, <1>4, <2>1, BlocksCover
  <2>3. ~(L <= (s - 1) \div B)  BY <1>1, <2>1, <2>2
  <2>4. ~(L * B <= s - 1)  BY <2>1, <2>3, BlockOf
  <2> QED  BY <1>1, <1>2, <2>4
<1> QED  BY <1>3, <1>4

LEMMA ZeroBehind ==
    ASSUME NEW x, IsData(x), NEW s \in Nat, Holding(x, s)
    PROVE  /\ ZeroFrom(x, s)
           /\ Blocks(s) = x.len /\ x.len \in Nat /\ PhysicalSize(x) \in Nat /\ s <= PhysicalSize(x)
<1>1. PICK L \in Nat : L = x.len  BY DataFields
<1>2. L * B \in Nat /\ PhysicalSize(x) = L * B  BY <1>1, BAssumption DEF PhysicalSize
<1>3. ASSUME NEW i \in Nat, i >= s PROVE ByteAt(x, i) = 0
  <2>1. CASE i < L * B
    <3>1. i \in s .. PhysicalSize(x) - 1  BY <1>2, <1>3, <2>1
    <3> QED  BY <3>1 DEF Holding
  <2>2. CASE ~(i < L * B)
    <3>1. L <= i \div B  BY <1>2, <2>2, BlockOf
    <3>2. i \div B \in Nat  BY DivMod
    <3> QED  BY <1>1, <3>1, <3>2 DEF ByteAt
  <2> QED  BY <2>1, <2>2
<1>4. s <= L * B  BY <1>1, BlocksHold DEF Holding
<1> QED  BY <1>1, <1>2, <1>3, <1>4 DEF Holding, ZeroFrom

LEMMA WholeBlocks ==
    ASSUME NEW L \in Nat
    PROVE  Blocks(L * B) = L /\ L * B \in Nat
<1>1. L * B \in Nat  BY BAssumption
<1>2. PICK c \in Nat : c = Blocks(L * B)  BY <1>1, BlocksCover
<1>3. c <= L  BY <1>1, <1>2, BlocksCover
<1>4. CASE L = 0  BY <1>1, <1>2, <1>3, <1>4
<1>5. CASE L > 0
  <2>1. L * B >= B  BY <1>5, BAssumption, BlockOrder
  <2>2. L * B - 1 \in Nat  BY <1>1, <2>1, BAssumption
  <2>3. (L - 1) * B + B = L * B  BY BAssumption, SMT
  <2>4. (L - 1) * B <= L * B - 1
    <3>1. (L - 1) * B \in Int  BY BAssumption
    <3> QED  BY <1>1, <2>3, <3>1, BAssumption
  <2>5. L - 1 <= (L * B - 1) \div B  BY <2>2, <2>4, BlockOf
  <2>6. (L * B - 1) \div B < c  BY <1>1, <1>2, <2>2, BlocksCover
  <2>7. (L * B - 1) \div B \in Nat  BY <2>2, DivMod
  <2> QED  BY <1>1, <1>2, <1>3, <2>5, <2>6, <2>7
<1> QED  BY <1>1, <1>2, <1>4, <1>5

LEMMA HoldingWhole ==
    ASSUME NEW x, IsData(x)
    PROVE  Holding(x, PhysicalSize(x)) /\ PhysicalSize(x) \in Nat
<1>1. PICK L \in Nat : L = x.len  BY DataFields
<1>2. PICK s : s = L * B  OBVIOUS
<1>3. s = PhysicalSize(x) /\ s \in Nat /\ Blocks(s) = L  BY <1>1, <1>2, WholeBlocks DEF PhysicalSize
<1>4. \A i \in s .. s - 1 : FALSE  BY <1>3
<1> QED  BY <1>1, <1>3, <1>4 DEF Holding

LEMMA HoldingEmpty == Holding(Empty, 0) /\ PhysicalSize(Empty) = 0
<1>1. 0 * B = 0  BY BAssumption
<1>2. Blocks(0) = 0  BY <1>1, WholeBlocks
<1>3. PhysicalSize(Empty) = 0  BY <1>1, EmptyData DEF PhysicalSize
<1> QED  BY <1>2, <1>3, EmptyData DEF Holding

\* A session that ends pads a file to its blocks.
LEMMA PaddedFile ==
    ASSUME NEW x, IsData(x), NEW s \in Nat, Holding(x, s), NEW n, n \notin Temps
    PROVE  Files!Kept(n, FileOf(s, x)) = FileOf(PhysicalSize(x), x)
<1>1. /\ ZeroFrom(x, s)
      /\ Blocks(s) = x.len /\ PhysicalSize(x) \in Nat /\ s <= PhysicalSize(x)
  BY ZeroBehind
<1>2. PICK f : f = FileOf(s, x)  OBVIOUS
<1>3. f # NoFile /\ f.size = s  BY <1>2, FileFields
<1>4. PICK t \in Nat : t = PhysicalSize(x)  BY <1>1
<1>5. Files!Padded(s) = t  BY <1>1, <1>4 DEF Files!Padded, Blocks, PhysicalSize
<1>6. Files!Kept(n, f) = Files!Filled(f, s, t, 0)  BY <1>3, <1>5 DEF Files!Kept
<1>7. t = Larger(s, t)  BY <1>1, <1>4 DEF Larger
<1>8. Filling(x, x, s, t, 0)  BY <1>1 DEF ZeroFrom, Filling
<1>9. Files!Filled(FileOf(s, x), s, t, 0) = FileOf(t, x)  BY <1>1, <1>7, <1>8, FilledFile
<1> QED  BY <1>2, <1>4, <1>6, <1>9

LEMMA KeptNone == \A n : Files!Kept(n, NoFile) = NoFile /\ \A f : n \in Temps => Files!Kept(n, f) = NoFile
  BY DEF Files!Kept

-----------------------------------------------------------------------------
(* What a write and a truncate leave at each persistence operation *)

LEMMA BlocksLarger ==
    ASSUME NEW s \in Nat, NEW t \in Nat
    PROVE  Blocks(Larger(s, t)) = Larger(Blocks(s), Blocks(t))
<1>1. ASSUME NEW a \in Nat, NEW b \in Nat, a <= b
      PROVE  Blocks(a) \in Nat /\ Blocks(b) \in Nat /\ Blocks(a) <= Blocks(b)
  <2>1. PICK L \in Nat : L = Blocks(b) /\ b <= L * B /\ L * B \in Nat  BY BlocksHold
  <2>2. a <= L * B  BY <1>1, <2>1
  <2>3. Blocks(a) <= L /\ Blocks(a) \in Nat  BY <2>2, BlocksCover
  <2> QED  BY <2>1, <2>3
<1>2. CASE s < t
  <2>1. Blocks(s) \in Nat /\ Blocks(t) \in Nat /\ Blocks(s) <= Blocks(t)  BY <1>1, <1>2
  <2>2. Larger(s, t) = t  BY <1>2 DEF Larger
  <2>3. Larger(Blocks(s), Blocks(t)) = Blocks(t)  BY <2>1 DEF Larger
  <2> QED  BY <2>2, <2>3
<1>3. CASE ~(s < t)
  <2>1. Blocks(s) \in Nat /\ Blocks(t) \in Nat /\ Blocks(t) <= Blocks(s)  BY <1>1, <1>3
  <2>2. Larger(s, t) = s  BY <1>3 DEF Larger
  <2>3. Larger(Blocks(s), Blocks(t)) = Blocks(s)  BY <2>1 DEF Larger
  <2> QED  BY <2>2, <2>3
<1> QED  BY <1>2, <1>3

LEMMA BlocksTo ==
    ASSUME NEW m \in Nat
    PROVE  Blocks(m + 1) = m \div B + 1 /\ m \div B \in Nat
<1>1. PICK k \in Nat : k = m \div B /\ k * B <= m /\ m < k * B + B
  BY DivMod, BAssumption, SMT
<1>2. PICK c \in Nat : c = Blocks(m + 1) /\ m + 1 <= c * B /\ c * B \in Nat  BY BlocksHold
<1>3. k < c  BY <1>1, <1>2, BlocksCover
<1>4. (k + 1) * B = k * B + B /\ k * B \in Nat  BY BAssumption, SMT
<1>5. m + 1 <= (k + 1) * B  BY <1>1, <1>4, BAssumption
<1>6. c <= k + 1  BY <1>2, <1>5, BlocksCover
<1> QED  BY <1>1, <1>2, <1>3, <1>6

\* A write that has reached block `last' is a write of all up to there.
LEMMA WriteSoFar ==
    ASSUME NEW x, IsData(x), NEW dom, NEW off \in Nat, NEW n \in Nat \ {0}, NEW v,
           NEW last \in Nat, FirstBlock(off) <= last, last < LastBlock(off, n)
    PROVE  \E k \in Nat \ {0} :
              /\ k <= n /\ LastBlock(off, k) = last
              /\ Written(x, dom, off, n, v, last) = Written(x, dom, off, k, v, last)
<1>1. PICK m \in Nat : m = (last + 1) * B  BY BAssumption
<1>2. off < m
  <2>1. off \div B \in Nat /\ off \div B < last + 1  BY DivMod DEF FirstBlock
  <2>2. ~(last + 1 <= off \div B)  BY <2>1
  <2> QED  BY <1>1, <2>2, BlockOf
<1>3. PICK k \in Nat \ {0} : k = m - off  BY <1>2
<1>4. m <= off + n - 1 /\ off + n - 1 \in Nat
  <2>1. off + n - 1 \in Nat /\ (off + n - 1) \div B \in Nat  BY DivMod
  <2>2. last + 1 <= (off + n - 1) \div B  BY <2>1 DEF LastBlock
  <2> QED  BY <1>1, <2>1, <2>2, BlockOf
<1>5. LastBlock(off, k) = last
  <2>1. m - 1 \in Nat /\ off + k - 1 = m - 1  BY <1>2, <1>3
  <2>2. Blocks(m - 1 + 1) = (m - 1) \div B + 1 /\ (m - 1) \div B \in Nat  BY <2>1, BlocksTo
  <2>3. m - 1 + 1 = m /\ Blocks(m) = last + 1  BY <1>1, WholeBlocks
  <2> QED  BY <2>1, <2>2, <2>3 DEF LastBlock
<1>6. ASSUME NEW b \in Nat, b <= last
      PROVE  Overlay(x, b, off, n, v) = Overlay(x, b, off, k, v)
  <2>1. b * B + B <= m /\ b * B \in Nat  BY <1>1, <1>6, BlockOrder, BAssumption
  <2>2. \A j \in 0 .. B - 1 : b * B + j < m  BY <1>1, <2>1, BAssumption
  <2>3. \A j \in 0 .. B - 1 : b * B + j < off + n /\ b * B + j < off + k
    BY <1>3, <1>4, <2>1, <2>2, BAssumption
  <2> QED  BY <2>3 DEF Overlay
<1>7. Written(x, dom, off, n, v, last) = Written(x, dom, off, k, v, last)
  <2>1. PICK len : len = Larger(x.len, last + 1)  OBVIOUS
  <2>2. len \in Nat  BY <2>1, DataFields DEF Larger
  <2>3. FirstBlock(off) \in Nat  BY DivMod DEF FirstBlock
  <2>4. \A b \in 0 .. len - 1 : FirstBlock(off) <= b /\ b <= last =>
            Seal(dom, b, Overlay(x, b, off, n, v)) = Seal(dom, b, Overlay(x, b, off, k, v))
    BY <1>6, <2>2
  <2> QED  BY <2>1, <2>4 DEF Written
<1>8. k <= n  BY <1>3, <1>4
<1> QED  BY <1>5, <1>7, <1>8

LEMMA WrittenBytes ==
    ASSUME NEW x, IsData(x), NEW dom \in Doms, NEW off \in Nat, NEW n \in Nat \ {0}, NEW v \in Byte,
           NEW s \in Nat, Holding(x, s), off <= Blocks(s) * B,
           NEW last \in FirstBlock(off) .. LastBlock(off, n),
           NEW w, w = Written(x, dom, off, n, v, last), IsData(w)
    PROVE  \E end \in off + 1 .. off + n :
              /\ last = LastBlock(off, n) => end = off + n
              /\ Files!Filled(FileOf(s, x), off, end, v) = FileOf(Larger(s, end), w)
              /\ Holding(w, Larger(s, end))
<1>1. PICK L \in Nat : L = x.len /\ x \in Region(Doms, L) /\ off <= L * B /\ L = Blocks(s)
  BY DataFields DEF Holding
<1>2. v \in Nat  BY PoolAssumption
<1>3. last \in Nat /\ FirstBlock(off) <= last /\ last <= LastBlock(off, n) /\ LastBlock(off, n) \in Nat
  <2>1. off + n - 1 \in Nat  OBVIOUS
  <2> QED  BY <2>1, DivMod DEF FirstBlock, LastBlock
<1>4. PICK k \in Nat \ {0} : /\ k <= n /\ LastBlock(off, k) = last
                             /\ w = Written(x, dom, off, k, v, last)
                             /\ last = LastBlock(off, n) => k = n
  <2>1. CASE last = LastBlock(off, n)  BY <2>1
  <2>2. CASE last # LastBlock(off, n)
    <3>1. last < LastBlock(off, n)  BY <1>3, <2>2
    <3> QED  BY <1>3, <2>2, <3>1, WriteSoFar
  <2> QED  BY <2>1, <2>2
<1>5. PICK end \in off + 1 .. off + n : end = off + k  BY <1>4
<1>6. Filling(x, w, off, end, v)
  BY <1>1, <1>2, <1>4, <1>5, ReadsWhatWasWritten DEF Filling
<1>7. ZeroFrom(x, s)  BY ZeroBehind
<1>8. PICK t \in Nat : t = Larger(s, end)  BY <1>5 DEF Larger
<1>9. Files!Filled(FileOf(s, x), off, end, v) = FileOf(t, w)
  BY <1>5, <1>6, <1>7, <1>8, FilledFile
<1>10. w.len = Blocks(t)
  <2>1. w.len = Larger(L, last + 1)  BY <1>1 DEF Written
  <2>2. off + k - 1 \in Nat /\ end \in Nat /\ off + k - 1 + 1 = end  BY <1>5
  <2>3. Blocks(end) = last + 1  BY <1>4, <2>2, BlocksTo DEF LastBlock
  <2>4. Blocks(t) = Larger(Blocks(s), Blocks(end))  BY <1>8, <2>2, BlocksLarger
  <2> QED  BY <1>1, <2>1, <2>3, <2>4
<1>11. \A i \in t .. PhysicalSize(w) - 1 : ByteAt(w, i) = 0
  <2>1. PhysicalSize(w) \in Nat  BY HoldingWhole
  <2>2. t >= s /\ t >= end  BY <1>5, <1>8 DEF Larger
  <2> TAKE i \in t .. PhysicalSize(w) - 1
  <2>3. i \in Nat /\ i >= s /\ ~(i < end)  BY <1>5, <2>1, <2>2
  <2> QED  BY <1>6, <1>7, <2>3 DEF Filling, ZeroFrom
<1> QED  BY <1>4, <1>5, <1>8, <1>9, <1>10, <1>11 DEF Holding

LEMMA TruncatedBytes ==
    ASSUME NEW x, IsData(x), NEW dom \in Doms, NEW s \in Nat, Holding(x, s),
           NEW size \in Nat, size <= s, NEW w, w = Truncated(x, dom, size), IsData(w)
    PROVE  Files!Shortened(FileOf(s, x), size) = FileOf(size, w) /\ Holding(w, size)
<1>1. PICK L \in Nat : L = x.len /\ x \in Region(Doms, L)  BY DataFields
<1>2. size <= L * B
  <2>1. s <= L * B /\ L * B \in Nat  BY <1>1, BlocksHold DEF Holding
  <2> QED  BY <2>1
<1>3. \A i \in Nat : ByteAt(w, i) = IF i < size THEN ByteAt(x, i) ELSE 0
  BY <1>1, <1>2, ForgetsWhatWasCut
<1>4. w.len = Blocks(size)  BY DEF Truncated, PhysTruncated
<1>5. Holding(w, size)
  <2>1. PhysicalSize(w) \in Nat  BY HoldingWhole
  <2>2. \A i \in size .. PhysicalSize(w) - 1 : i \in Nat /\ ~(i < size)  BY <2>1
  <2> QED  BY <1>3, <1>4, <2>2 DEF Holding
<1>6. Files!Shortened(FileOf(s, x), size) = FileOf(size, w)
  <2>1. PICK f : f = FileOf(s, x)  OBVIOUS
  <2>2. f.byte = [i \in 0 .. s - 1 |-> ByteAt(x, i)]  BY <2>1, FileFields
  <2>3. \A i \in 0 .. size - 1 : f.byte[i] = ByteAt(w, i)  BY <1>3, <2>2
  <2>4. Files!Shortened(f, size) = FileOf(size, w)
    BY <2>3 DEF Files!Shortened, Files!Bytes, FileOf
  <2> QED  BY <2>1, <2>4
<1> QED  BY <1>5, <1>6

LEMMA InBlock ==
    ASSUME NEW i \in Nat
    PROVE  \E k \in Nat, j \in 0 .. B - 1 :
              k = i \div B /\ j = i % B /\ i = k * B + j /\ k * B \in Nat
<1>1. i \div B \in Nat /\ i % B \in 0 .. B - 1 /\ i = (i \div B) * B + (i % B)  BY DivMod
<1>2. PICK k \in Nat, j \in 0 .. B - 1 : k = i \div B /\ j = i % B  BY <1>1
<1>3. i = k * B + j  BY <1>1, <1>2
<1>4. k * B \in Nat  BY BAssumption
<1> QED  BY <1>2, <1>3, <1>4

LEMMA ResealedBytes ==
    ASSUME NEW x, IsData(x), NEW dom \in Doms, NEW s \in Nat, Holding(x, s),
           NEW size \in Nat, size <= s, NEW w, w = Resealed(x, dom, size), IsData(w)
    PROVE  /\ \E end \in size .. s : Files!Wiped(FileOf(s, x), size, end) = FileOf(s, w)
           /\ Holding(w, s)
<1>1. PICK L \in Nat : L = x.len /\ x \in Region(Doms, L)  BY DataFields
<1>2. PICK q \in Nat, b \in 0 .. B - 1 :
         q = size \div B /\ b = size % B /\ size = q * B + b /\ q * B \in Nat
  BY InBlock
<1>3. PICK m \in Nat : m = q * B + B
  <2>1. \A a \in Nat : a + B \in Nat  BY BAssumption
  <2> QED  BY <1>2, <2>1
<1>4. /\ w.len = L
      /\ \A k \in 0 .. L - 1 :
            /\ ~(HasTail(x, size) /\ k = q) => w.at[k] = x.at[k]
            /\ HasTail(x, size) /\ k = q =>
                 \A j \in 0 .. B - 1 :
                    w.at[k].plain[j] = IF j < b THEN x.at[k].plain[j] ELSE 0
  BY <1>1, <1>2, ResealedRegion
<1>5. \A i \in Nat : ByteAt(w, i) =
         IF HasTail(x, size) /\ size <= i /\ i < m THEN 0 ELSE ByteAt(x, i)
  <2> TAKE i \in Nat
  <2>1. PICK k \in Nat, j \in 0 .. B - 1 :
           k = i \div B /\ j = i % B /\ i = k * B + j /\ k * B \in Nat
    BY InBlock
  <2>2. CASE ~(k < L)
    <3>1. ByteAt(w, i) = 0 /\ ByteAt(x, i) = 0  BY <1>1, <1>4, <2>1, <2>2 DEF ByteAt
    <3> QED  BY <3>1
  <2>3. CASE k < L /\ k # q
    <3>1. k \in 0 .. L - 1  BY <2>3
    <3>2. w.at[k] = x.at[k]  BY <1>4, <2>3, <3>1
    <3>3. ByteAt(w, i) = ByteAt(x, i)  BY <1>1, <1>4, <2>1, <3>2 DEF ByteAt
    <3>4. ~(size <= i /\ i < m)
      <4>1. CASE k < q
        <5>1. k * B + B <= q * B  BY <4>1, BlockOrder
        <5> QED  BY <1>2, <2>1, <5>1, BAssumption
      <4>2. CASE q < k
        <5>1. q * B + B <= k * B  BY <4>2, BlockOrder
        <5> QED  BY <1>2, <1>3, <2>1, <5>1, BAssumption
      <4> QED  BY <2>3, <4>1, <4>2
    <3> QED  BY <3>3, <3>4
  <2>4. CASE k < L /\ k = q
    <3>1. k \in 0 .. L - 1  BY <2>4
    <3>2. ByteAt(w, i) = w.at[k].plain[j] /\ ByteAt(x, i) = x.at[k].plain[j]
      BY <1>1, <1>4, <2>1, <2>4 DEF ByteAt
    <3>3. i < m /\ (size <= i <=> ~(j < b))
      BY <1>2, <1>3, <2>1, <2>4, BAssumption
    <3>4. CASE ~HasTail(x, size)
      <4>1. w.at[k] = x.at[k]  BY <1>4, <3>1, <3>4
      <4> QED  BY <3>2, <3>4, <4>1
    <3>5. CASE HasTail(x, size)
      <4>1. w.at[k].plain[j] = IF j < b THEN x.at[k].plain[j] ELSE 0
        BY <1>4, <2>4, <3>1, <3>5
      <4> QED  BY <3>2, <3>3, <3>5, <4>1
    <3> QED  BY <3>4, <3>5
  <2> QED  BY <2>2, <2>3, <2>4
<1>6. ZeroFrom(x, s)  BY ZeroBehind
<1>7. Holding(w, s)
  <2>1. w.len = Blocks(s)  BY <1>1, <1>4 DEF Holding
  <2>2. PhysicalSize(w) \in Nat  BY HoldingWhole
  <2>3. \A i \in s .. PhysicalSize(w) - 1 : i \in Nat /\ i >= s  BY <2>2
  <2> QED  BY <1>5, <1>6, <2>1, <2>3 DEF Holding, ZeroFrom
<1>8. PICK end \in size .. s : end = IF ~HasTail(x, size) THEN size ELSE IF s < m THEN s ELSE m
  BY <1>2, <1>3, BAssumption
<1>9. PICK f : f = FileOf(s, x)  OBVIOUS
<1>10. f.size = s /\ f.byte = [i \in 0 .. s - 1 |-> ByteAt(x, i)]  BY <1>9, FileFields
<1>11. \A i \in 0 .. s - 1 : ByteAt(w, i) = IF size <= i /\ i < end THEN 0 ELSE f.byte[i]
  <2> TAKE i \in 0 .. s - 1
  <2>1. f.byte[i] = ByteAt(x, i) /\ i \in Nat /\ i < s  BY <1>10
  <2>2. (HasTail(x, size) /\ size <= i /\ i < m) <=> (size <= i /\ i < end)  BY <1>8, <2>1
  <2> QED  BY <1>5, <2>1, <2>2
<1>12. Files!Wiped(f, size, end) = FileOf(s, w)
  BY <1>10, <1>11 DEF Files!Wiped, Files!Bytes, FileOf
<1> QED  BY <1>7, <1>9, <1>12

-----------------------------------------------------------------------------
(* The files of a disk and a memory *)

Holders(dk, n) == {h \in Handle : dk[h].name = n}

Holder(dk, n)  == CHOOSE g \in Holders(dk, n) : TRUE

ViewSize(dk, p, n, h) ==
    IF p.up /\ n \notin Mains THEN SizeIn(p, dk, n) ELSE PhysicalSize(dk[h].data)

View(dk, p, n) ==
    IF Holders(dk, n) = {} \/ (~p.up /\ n \in Temps) THEN NoFile
    ELSE FileOf(ViewSize(dk, p, n, Holder(dk, n)), dk[Holder(dk, n)].data)

content == [n \in SqliteName |-> SqliteFile(n)]

LEMMA Viewed ==
    /\ content = [n \in SqliteName |-> View(disk, pool, n)]
    /\ content' = [n \in SqliteName |-> View(disk', pool', n)]
  BY DEF content, SqliteFile, View, ViewSize, Holder, Holders, FileOf, Size

\* While the pool runs, a file is what the table has for its name.
SeenSize(dk, p, n) ==
    IF n \in Mains THEN PhysicalSize(dk[p.map[n]].data) ELSE SizeIn(p, dk, n)

Seen(dk, p, n) ==
    IF p.map[n] = NoHandle THEN NoFile ELSE FileOf(SeenSize(dk, p, n), dk[p.map[n]].data)

LEMMA UpView ==
    ASSUME NEW dk, NEW p, DiskOK(dk), MemoryOK(dk, p), p.up, NEW n \in SqliteName
    PROVE  View(dk, p, n) = Seen(dk, p, n)
<1>1. n \in Name  BY NameFacts
<1>2. CASE p.map[n] = NoHandle
  <2>1. Holders(dk, n) = {}  BY <1>1, <1>2, Unnamed DEF Holders
  <2> QED  BY <1>2, <2>1 DEF View, Seen
<1>3. CASE p.map[n] # NoHandle
  <2>1. PICK h : h = p.map[n]  OBVIOUS
  <2>2. h \in Handle /\ dk[h].name = n  BY <1>1, <1>3, <2>1, Holds
  <2>3. \A g \in Handle : dk[g].name = n => g = h
    <3>1. NamesUnique(dk) /\ n # NoName  BY <1>1, NameFacts DEF DiskOK
    <3> QED  BY <2>2, <3>1 DEF NamesUnique
  <2>4. Holders(dk, n) = {h}  BY <2>2, <2>3 DEF Holders
  <2>5. Holder(dk, n) = h /\ Holders(dk, n) # {}  BY <2>4 DEF Holder
  <2>6. View(dk, p, n) = FileOf(ViewSize(dk, p, n, h), dk[h].data)  BY <2>5 DEF View
  <2>7. ViewSize(dk, p, n, h) = SeenSize(dk, p, n)  BY <2>1 DEF SeenSize, ViewSize
  <2> QED  BY <1>3, <2>1, <2>6, <2>7 DEF Seen
<1> QED  BY <1>2, <1>3

\* Between sessions, it is what the disk has under its name.
LEMMA DownView ==
    ASSUME NEW dk, DiskOK(dk), NEW n \in SqliteName
    PROVE  /\ n \in Temps => View(dk, Down, n) = NoFile
           /\ (\A g \in Handle : dk[g].name # n) => View(dk, Down, n) = NoFile
           /\ \A h \in Handle : dk[h].name = n /\ n \notin Temps =>
                 View(dk, Down, n) = FileOf(PhysicalSize(dk[h].data), dk[h].data)
<1>1. ~Down.up  BY DownOK
<1>2. n \in Temps => View(dk, Down, n) = NoFile  BY <1>1 DEF View
<1>3. (\A g \in Handle : dk[g].name # n) => View(dk, Down, n) = NoFile  BY DEF View, Holders
<1>4. ASSUME NEW h \in Handle, dk[h].name = n, n \notin Temps
      PROVE  View(dk, Down, n) = FileOf(PhysicalSize(dk[h].data), dk[h].data)
  <2>1. \A g \in Handle : dk[g].name = n => g = h
    <3>1. NamesUnique(dk) /\ n # NoName  BY NameFacts DEF DiskOK
    <3> QED  BY <1>4, <3>1 DEF NamesUnique
  <2>2. Holders(dk, n) = {h}  BY <1>4, <2>1 DEF Holders
  <2>3. Holder(dk, n) = h /\ Holders(dk, n) # {}  BY <2>2 DEF Holder
  <2> QED  BY <1>1, <1>4, <2>3 DEF View, ViewSize
<1> QED  BY <1>2, <1>3, <1>4

\* The handle, data and size of a name, as before.
Same(dk, p, e, q, n) ==
    /\ q.map[n] = p.map[n]
    /\ p.map[n] # NoHandle => /\ e[p.map[n]].data = dk[p.map[n]].data
                              /\ e[p.map[n]].name = dk[p.map[n]].name
                              /\ q.logical[p.map[n]] = p.logical[p.map[n]]

LEMMA SameSeen ==
    ASSUME NEW dk, NEW p, NEW e, NEW q, NEW n, Same(dk, p, e, q, n)
    PROVE  /\ Seen(e, q, n) = Seen(dk, p, n)
           /\ ExactAt(dk, p, n) /\ (n \in q.open => n \in p.open /\ p.map[n] # NoHandle) =>
                 ExactAt(e, q, n)
<1>1. p.map[n] # NoHandle =>
        SizeIn(q, e, n) = SizeIn(p, dk, n) /\ SeenSize(e, q, n) = SeenSize(dk, p, n)
  BY DEF Same, SizeIn, SeenSize
<1> QED  BY <1>1 DEF Same, Seen, ExactAt

\* What a file's size and data have in common, when its view counts them.
LEMMA SeenFile ==
    ASSUME NEW dk, NEW p, DiskOK(dk), MemoryOK(dk, p), p.up, NEW n \in SqliteName,
           ExactAt(dk, p, n), p.map[n] # NoHandle
    PROVE  \E s \in Nat : /\ s = SeenSize(dk, p, n) /\ Holding(dk[p.map[n]].data, s)
                          /\ Seen(dk, p, n) = FileOf(s, dk[p.map[n]].data)
                          /\ n \in p.open => s = SizeIn(p, dk, n)
<1>1. n \in Name  BY NameFacts
<1>2. PICK h, x, s : h = p.map[n] /\ x = dk[h].data /\ s = SeenSize(dk, p, n)  OBVIOUS
<1>3. h \in Handle /\ IsData(x)  BY <1>1, <1>2, Holds
<1>4. p \in Memory  BY DEF MemoryOK
<1>5. Seen(dk, p, n) = FileOf(s, x)  BY <1>2 DEF Seen
<1>6. CASE n \in Mains
  <2>1. s = PhysicalSize(x)  BY <1>2, <1>6 DEF SeenSize
  <2>2. s \in Nat /\ Holding(x, s)  BY <1>3, <2>1, HoldingWhole
  <2> QED  BY <1>2, <1>5, <1>6, <2>1, <2>2 DEF ExactAt
<1>7. CASE n \notin Mains
  <2>1. s = SizeIn(p, dk, n) /\ Holding(x, s)  BY <1>2, <1>7 DEF SeenSize, ExactAt
  <2>2. s \in Nat
    <3>1. PhysicalSize(x) \in Nat  BY <1>3, HoldingWhole
    <3>2. p.logical[h] \in 0 .. MaxBlocks * B \cup {Unknown}  BY <1>3, <1>4, MemoryFields
    <3>3. MaxBlocks * B \in Nat  BY PoolAssumption, BAssumption
    <3> QED  BY <1>2, <2>1, <3>1, <3>2, <3>3 DEF SizeIn
  <2> QED  BY <1>2, <1>5, <2>1, <2>2
<1> QED  BY <1>6, <1>7

\* A name whose file is on the disk e as it was on dk.
Rests(dk, p, e, n) ==
    /\ p.map[n] = NoHandle => \A g \in Handle : e[g].name # n
    /\ p.map[n] # NoHandle => e[p.map[n]].name = n /\ e[p.map[n]].data = dk[p.map[n]].data

LEMMA SameRests ==
    ASSUME NEW dk, NEW p, DiskOK(dk), MemoryOK(dk, p), p.up, NEW n \in SqliteName,
           NEW e, NEW q, DiskOK(e), MemoryOK(e, q), q.up, Same(dk, p, e, q, n)
    PROVE  Rests(dk, p, e, n)
<1>1. n \in Name  BY NameFacts
<1>2. CASE p.map[n] = NoHandle
  <2>1. q.map[n] = NoHandle  BY <1>2 DEF Same
  <2> QED  BY <1>1, <1>2, <2>1, Unnamed DEF Rests
<1>3. CASE p.map[n] # NoHandle
  <2>1. dk[p.map[n]].name = n  BY <1>1, <1>3, Holds
  <2> QED  BY <1>3, <2>1 DEF Same, Rests
<1> QED  BY <1>2, <1>3

LEMMA RestsSame ==
    ASSUME NEW dk, NEW p, DiskOK(dk), MemoryOK(dk, p), p.up, NEW n \in SqliteName
    PROVE  Rests(dk, p, dk, n) /\ Same(dk, p, dk, p, n)
<1>1. Same(dk, p, dk, p, n)  BY DEF Same
<1> QED  BY <1>1, SameRests

LEMMA Ends ==
    ASSUME NEW dk, NEW p, DiskOK(dk), MemoryOK(dk, p), p.up, NEW n \in SqliteName,
           ExactAt(dk, p, n), NEW e, DiskOK(e), Rests(dk, p, e, n)
    PROVE  View(e, Down, n) = Files!Kept(n, Seen(dk, p, n))
<1>1. CASE n \in Temps  BY <1>1, DownView, KeptNone
<1>2. CASE p.map[n] = NoHandle
  <2>1. \A g \in Handle : e[g].name # n  BY <1>2 DEF Rests
  <2>2. View(e, Down, n) = NoFile  BY <2>1, DownView
  <2> QED  BY <1>2, <2>2, KeptNone DEF Seen
<1>3. CASE n \notin Temps /\ p.map[n] # NoHandle
  <2>1. PICK h, x : h = p.map[n] /\ x = dk[h].data  OBVIOUS
  <2>2. h \in Handle /\ IsData(x)  BY <1>3, <2>1, Holds, NameFacts
  <2>3. PICK s \in Nat : Holding(x, s) /\ Seen(dk, p, n) = FileOf(s, x)
    BY <1>3, <2>1, SeenFile
  <2>4. e[h].name = n /\ e[h].data = x  BY <1>3, <2>1 DEF Rests
  <2>5. View(e, Down, n) = FileOf(PhysicalSize(x), x)  BY <1>3, <2>2, <2>4, DownView
  <2>6. Files!Kept(n, FileOf(s, x)) = FileOf(PhysicalSize(x), x)  BY <1>3, <2>2, <2>3, PaddedFile
  <2> QED  BY <2>3, <2>5, <2>6
<1> QED  BY <1>1, <1>2, <1>3

-----------------------------------------------------------------------------
(* Steps of the byte files *)

\* A running pool, and one after a call that completed.
Running(dk, p) == DiskOK(dk) /\ MemoryOK(dk, p) /\ p.up /\ Exact(dk, p)

LEMMA StepNone ==
    ASSUME NEW dk, NEW p, dk = disk, p = pool, Running(dk, p), cut = NoRequest,
           NEW e, NEW q, e = disk', q = pool', Running(e, q), cut' = NoRequest,
           \A n \in SqliteName : Seen(e, q, n) = Seen(dk, p, n)
    PROVE  UNCHANGED <<content, cut>>
<1>1. \A n \in SqliteName : View(disk, pool, n) = Seen(dk, p, n)  BY UpView DEF Running
<1>2. \A n \in SqliteName : View(disk', pool', n) = Seen(e, q, n)  BY UpView DEF Running
<1> QED  BY <1>1, <1>2, Viewed

LEMMA StepOne ==
    ASSUME NEW dk, NEW p, dk = disk, p = pool, Running(dk, p), NEW n \in SqliteName,
           NEW e, NEW q, e = disk', q = pool', Running(e, q), cut' = NoRequest,
           \A m \in SqliteName \ {n} : Seen(e, q, m) = Seen(dk, p, m),
           NEW f, f = Seen(dk, p, n), NEW g, g = Seen(e, q, n),
           \/ Files!Create(f, g) \/ Files!Delete(f, g) \/ Files!Import(g)
           \/ Files!Write(f, g) \/ Files!Truncate(f, g)
    PROVE  Files!Operate
<1>1. \A m \in SqliteName : View(disk, pool, m) = Seen(dk, p, m)  BY UpView DEF Running
<1>2. \A m \in SqliteName : View(disk', pool', m) = Seen(e, q, m)  BY UpView DEF Running
<1>3. content' = [content EXCEPT ![n] = g] /\ content[n] = f /\ content'[n] = g
  BY <1>1, <1>2, Viewed
<1>4. cut' = Files!NoRequest  BY DEF NoRequest, Files!NoRequest
<1> HIDE DEF content
<1>5. \E m \in SqliteName : \E a \in {content[m]}, b \in {content'[m]} :
         /\ content' = [content EXCEPT ![m] = b]
         /\ \/ Files!Create(a, b) \/ Files!Delete(a, b) \/ Files!Import(b)
            \/ Files!Write(a, b) \/ Files!Truncate(a, b)
  BY <1>3
<1> QED  BY <1>4, <1>5 DEF Files!Operate, content

LEMMA StepEnd ==
    ASSUME NEW dk, NEW p, dk = disk, p = pool, Running(dk, p),
           dk = disk', pool' = Down, cut' = NoRequest
    PROVE  Files!Restart
<1>1. \A n \in SqliteName : View(disk, pool, n) = Seen(dk, p, n)  BY UpView DEF Running
<1>2. \A n \in SqliteName : View(disk', pool', n) = Files!Kept(n, Seen(dk, p, n))
  BY RestsSame, Ends DEF Running, Exact
<1>3. content' = [n \in SqliteName |-> Files!Kept(n, content[n])]  BY <1>1, <1>2, Viewed
<1>4. cut' = Files!NoRequest  BY DEF NoRequest, Files!NoRequest
<1> QED  BY <1>3, <1>4 DEF Files!Restart, content

\* On the disk e every file but n is what the end of the session makes of it.
Ended(dk, p, e, n) ==
    \A m \in SqliteName \ {n} : View(e, Down, m) = Files!Kept(m, Seen(dk, p, m))

LEMMA StepCut ==
    ASSUME NEW dk, NEW p, dk = disk, p = pool, Running(dk, p), NEW n \in SqliteName,
           NEW e, e = disk', DiskOK(e), pool' = Down, NEW r, cut' = r, r.name = n, r.op # "none",
           Ended(dk, p, e, n),
           NEW f, f \in Files!Partial(r, Seen(dk, p, n)), View(e, Down, n) = Files!Kept(n, f)
    PROVE  Files!Restart
<1>1. \A m \in SqliteName : View(disk, pool, m) = Seen(dk, p, m)  BY UpView DEF Running
<1>2. \A m \in SqliteName \ {n} : View(disk', pool', m) = Files!Kept(m, Seen(dk, p, m))
  BY DEF Ended
<1>3. View(disk', pool', n) = Files!Kept(n, f)  OBVIOUS
<1>4. PICK c : c = [content EXCEPT ![n] = f]  OBVIOUS
<1>5. \A m \in SqliteName : c[m] = IF m = n THEN f ELSE Seen(dk, p, m)
  BY <1>1, <1>4, Viewed
<1>6. content' = [m \in SqliteName |-> Files!Kept(m, c[m])]  BY <1>2, <1>3, <1>5, Viewed
<1>7. cut' # Files!NoRequest /\ content[n] = Seen(dk, p, n)
  BY <1>1, Viewed DEF Files!NoRequest
<1> HIDE DEF content
<1>8. c \in {[content EXCEPT ![cut'.name] = g] : g \in Files!Partial(cut', content[cut'.name])}
  BY <1>4, <1>7
<1> QED  BY <1>6, <1>7, <1>8 DEF Files!Restart, content

-----------------------------------------------------------------------------
(* What the pool's operations on its table make of the files *)

\* Every file but n is as it was.
Others(dk, p, e, q, n) ==
    \A m \in SqliteName \ {n} : Seen(e, q, m) = Seen(dk, p, m)

LEMMA KeepsOthers ==
    ASSUME NEW dk, NEW p, Running(dk, p), NEW n, NEW e, NEW q, DiskOK(e), MemoryOK(e, q), q.up,
           q.open \subseteq p.open \cup {n},
           \A m \in SqliteName \ {n} : Same(dk, p, e, q, m),
           n \in SqliteName => ExactAt(e, q, n)
    PROVE  Running(e, q) /\ Others(dk, p, e, q, n)
<1>1. DiskOK(dk) /\ MemoryOK(dk, p) /\ p.up /\ Exact(dk, p)  BY DEF Running
<1>2. OpenOK(dk, p)  BY <1>1 DEF MemoryOK
<1>3. ASSUME NEW m \in SqliteName \ {n}
      PROVE  ExactAt(e, q, m) /\ Seen(e, q, m) = Seen(dk, p, m)
  <2>1. Same(dk, p, e, q, m) /\ m \in SqliteName  OBVIOUS
  <2>2. m \in q.open => m \in p.open /\ p.map[m] # NoHandle  BY <1>2 DEF OpenOK
  <2>3. ExactAt(dk, p, m)  BY <1>1 DEF Exact
  <2> QED  BY <2>1, <2>2, <2>3, SameSeen
<1>4. Exact(e, q)
  <2> SUFFICES ASSUME NEW m \in SqliteName PROVE ExactAt(e, q, m)
    BY DEF Exact
  <2>1. CASE m = n  BY <2>1
  <2>2. CASE m # n  BY <1>3, <2>2
  <2> QED  BY <2>1, <2>2
<1> QED  BY <1>3, <1>4 DEF Running, Others

\* What a call left, had it then lost power.
LEMMA EndsHere ==
    ASSUME NEW dk, NEW p, NEW e, NEW q, NEW n, Running(e, q), Others(dk, p, e, q, n)
    PROVE  Ended(dk, p, e, n)
<1>1. DiskOK(e) /\ MemoryOK(e, q) /\ q.up /\ Exact(e, q)  BY DEF Running
<1> SUFFICES ASSUME NEW m \in SqliteName \ {n}
             PROVE  View(e, Down, m) = Files!Kept(m, Seen(dk, p, m))
  BY DEF Ended
<1>2. m \in SqliteName /\ ExactAt(e, q, m)  BY <1>1 DEF Exact
<1>3. View(e, Down, m) = Files!Kept(m, Seen(e, q, m))  BY <1>1, <1>2, RestsSame, Ends
<1> QED  BY <1>3 DEF Others

\* Only the data of n's opaque file has changed.
LEMMA OnlyData ==
    ASSUME NEW dk, NEW p, Running(dk, p), NEW n \in SqliteName, p.map[n] # NoHandle,
           NEW h, h = p.map[n], NEW e, DiskOK(e), e[h].name = n,
           \A g \in Handle \ {h} : e[g] = dk[g]
    PROVE  Ended(dk, p, e, n)
<1>1. DiskOK(dk) /\ MemoryOK(dk, p) /\ p.up /\ Exact(dk, p)  BY DEF Running
<1> SUFFICES ASSUME NEW m \in SqliteName, m # n
             PROVE  View(e, Down, m) = Files!Kept(m, Seen(dk, p, m))
  BY DEF Ended
<1>2. m \in Name \ {n} /\ n \in Name  BY NameFacts
<1>3. p.map[m] # h /\ h \in Handle  BY <1>1, <1>2, Holds
<1>4. Rests(dk, p, dk, m)  BY <1>1, RestsSame
<1>5. Rests(dk, p, e, m)
  <2>1. CASE p.map[m] = NoHandle
    <3>1. \A g \in Handle : dk[g].name # m  BY <1>4, <2>1 DEF Rests
    <3> QED  BY <2>1, <3>1 DEF Rests
  <2>2. CASE p.map[m] # NoHandle
    <3>1. p.map[m] \in Handle \ {h}  BY <1>1, <1>2, <1>3, <2>2, Holds
    <3>2. e[p.map[m]] = dk[p.map[m]]  BY <3>1
    <3> QED  BY <1>4, <2>2, <3>2 DEF Rests
  <2> QED  BY <2>1, <2>2
<1>6. ExactAt(dk, p, m)  BY <1>1 DEF Exact
<1> QED  BY <1>1, <1>5, <1>6, Ends

\* Changes of other opaque files than those of m, and of no other size.
LEMMA OtherHandle ==
    ASSUME NEW dk, NEW p, DiskOK(dk), MemoryOK(dk, p), p.up, NEW e, NEW q, NEW h,
           NEW m \in Name, p.map[m] # h, q.map[m] = p.map[m],
           \A g \in Handle \ {h} : e[g] = dk[g] /\ q.logical[g] = p.logical[g]
    PROVE  Same(dk, p, e, q, m)
<1>1. p.map[m] # NoHandle => p.map[m] \in Handle  BY Holds
<1> QED  BY <1>1 DEF Same

LEMMA LinkFiles ==
    ASSUME NEW dk, NEW p, Running(dk, p), p.avail # <<>>,
           NEW n \in Name, p.map[n] = NoHandle,
           NEW q, q = Linked(p, n), NEW e, e = LinkDisk(dk, p, n)
    PROVE  /\ Running(e, q) /\ Others(dk, p, e, q, n)
           /\ n \in SqliteName => Seen(dk, p, n) = NoFile /\ Seen(e, q, n) = Files!Blank(0)
<1>1. DiskOK(dk) /\ MemoryOK(dk, p) /\ p.up /\ Exact(dk, p)  BY DEF Running
<1>2. PICK h : h = Last(p.avail)  OBVIOUS
<1>3. /\ h \in Handle /\ h \in Range(p.avail) /\ DiskOK(e) /\ MemoryOK(e, q) /\ q.up
      /\ q.map[n] = h /\ (\A m \in Name \ {n} : q.map[m] = p.map[m])
      /\ e[h].data = Empty /\ q.logical[h] = 0
      /\ (\A g \in Handle \ {h} : e[g] = dk[g] /\ q.logical[g] = p.logical[g])
      /\ q.open = p.open
  BY <1>1, <1>2, LinkOK
<1>4. \A m \in SqliteName \ {n} : Same(dk, p, e, q, m)
  <2> TAKE m \in SqliteName \ {n}
  <2>1. m \in Name \ {n}  BY NameFacts
  <2>2. p.map[m] # h
    <3>1. h # NoHandle  BY <1>3, PoolAssumption
    <3>2. p.map[m] # NoHandle => p.map[m] \notin Range(p.avail)  BY <1>1, <2>1, Holds
    <3> QED  BY <1>3, <3>1, <3>2
  <2>3. q.map[m] = p.map[m]  BY <1>3, <2>1
  <2> QED  BY <1>1, <1>3, <2>1, <2>2, <2>3, OtherHandle
<1>5. n \notin q.open
  <2>1. OpenOK(dk, p)  BY <1>1 DEF MemoryOK
  <2> QED  BY <1>3, <2>1 DEF OpenOK
<1>6. h # NoHandle /\ 0 # Unknown
  BY <1>3, PoolAssumption, ZeroSize
<1>7. SizeIn(q, e, n) = 0  BY <1>3, <1>6 DEF SizeIn
<1>8. ExactAt(e, q, n)  BY <1>3, <1>5, <1>7, HoldingEmpty DEF ExactAt
<1>9. SeenSize(e, q, n) = 0  BY <1>3, <1>7, HoldingEmpty DEF SeenSize
<1>10. Seen(e, q, n) = Files!Blank(0)  BY <1>3, <1>6, <1>9, EmptyFile DEF Seen
<1>11. Seen(dk, p, n) = NoFile  BY DEF Seen
<1>12. q.open \subseteq p.open \cup {n}  BY <1>3
<1>13. Running(e, q) /\ Others(dk, p, e, q, n)  BY <1>3, <1>4, <1>8, <1>12, KeepsOthers
<1> QED  BY <1>10, <1>11, <1>13

\* An open changes no file.
LEMMA OpenFiles ==
    ASSUME NEW dk, NEW p, Running(dk, p), NEW q, NEW n, NEW h, Opening(dk, p, q, n, h),
           n \in Mains => q.logical[h] = PhysicalSize(dk[h].data),
           n \notin Mains => q.logical[h] = p.logical[h]
    PROVE  Running(dk, q) /\ \A m \in SqliteName : Seen(dk, q, m) = Seen(dk, p, m)
<1>1. DiskOK(dk) /\ MemoryOK(dk, p) /\ p.up /\ Exact(dk, p)  BY DEF Running
<1>2. MemoryOK(dk, q)  BY <1>1, OpeningOK
<1>3. /\ n \in SqliteName /\ p.map[n] # NoHandle /\ h = p.map[n] /\ q.up /\ q.map = p.map
      /\ q.open = p.open \cup {n}
      /\ \A m \in Name \ {n} : p.map[m] # NoHandle => q.logical[p.map[m]] = p.logical[p.map[m]]
  BY DEF Opening
<1>4. \A m \in SqliteName \ {n} : Same(dk, p, dk, q, m)
  <2>1. SqliteName \subseteq Name  BY NameFacts
  <2> QED  BY <1>3, <2>1 DEF Same
<1>5. ExactAt(dk, q, n) /\ SeenSize(dk, q, n) = SeenSize(dk, p, n)
  <2>1. ExactAt(dk, p, n)  BY <1>1, <1>3 DEF Exact
  <2>2. CASE n \in Mains
    <3>1. SizeIn(q, dk, n) = PhysicalSize(dk[h].data)  BY <1>3, <2>2 DEF SizeIn
    <3> QED  BY <1>3, <2>2, <3>1 DEF ExactAt, SeenSize
  <2>3. CASE n \notin Mains
    <3>1. SizeIn(q, dk, n) = SizeIn(p, dk, n)  BY <1>3, <2>3 DEF SizeIn
    <3> QED  BY <1>3, <2>1, <2>3, <3>1 DEF ExactAt, SeenSize
  <2> QED  BY <2>2, <2>3
<1>6. Running(dk, q) /\ Others(dk, p, dk, q, n)
  BY <1>1, <1>2, <1>3, <1>4, <1>5, KeepsOthers
<1>7. Seen(dk, q, n) = Seen(dk, p, n)  BY <1>3, <1>5 DEF Seen
<1> QED  BY <1>6, <1>7 DEF Others

LEMMA UnlinkFiles ==
    ASSUME NEW dk, NEW p, Running(dk, p), NEW n \in SqliteName, p.map[n] # NoHandle, n \notin p.open,
           NEW h, h = p.map[n], NEW q, q = Unlinked(p, n),
           NEW e1, e1 = WithData(dk, h, Empty), NEW e, e = PutFile(dk, h, Fresh)
    PROVE  /\ Running(e, q) /\ Others(dk, p, e, q, n)
           /\ Seen(dk, p, n) # NoFile /\ Seen(e, q, n) = NoFile /\ View(e, Down, n) = NoFile
           /\ DiskOK(e1) /\ Ended(dk, p, e1, n) /\ Ended(dk, p, e, n)
           /\ n \notin Temps => View(e1, Down, n) = Files!Blank(0)
<1>1. DiskOK(dk) /\ MemoryOK(dk, p) /\ p.up /\ Exact(dk, p)  BY DEF Running
<1>2. n \in Name  BY NameFacts
<1>3. /\ h \in Handle /\ DiskOK(e1) /\ DiskOK(e) /\ MemoryOK(e, q) /\ q.up
      /\ q.map[n] = NoHandle /\ (\A m \in Name \ {n} : q.map[m] = p.map[m])
      /\ q.open = p.open /\ q.logical = p.logical
      /\ e1[h].name = n /\ e1[h].data = Empty /\ e[h] = Fresh
      /\ \A g \in Handle \ {h} : e1[g] = dk[g] /\ e[g] = dk[g]
  BY <1>1, <1>2, UnlinkOK
<1>4. ASSUME NEW m \in SqliteName \ {n} PROVE Same(dk, p, e, q, m)
  <2>1. m \in Name \ {n} /\ m \in SqliteName  BY NameFacts
  <2>2. p.map[m] # h  BY <1>1, <1>2, <2>1, Holds
  <2> QED  BY <1>1, <1>3, <2>1, <2>2, OtherHandle
<1>5. ExactAt(e, q, n)  BY <1>3 DEF ExactAt
<1>6. q.open \subseteq p.open \cup {n}  BY <1>3
<1>7. Running(e, q) /\ Others(dk, p, e, q, n)  BY <1>3, <1>4, <1>5, <1>6, KeepsOthers
<1>8. Seen(dk, p, n) # NoFile
  <2>1. ExactAt(dk, p, n)  BY <1>1 DEF Exact
  <2>2. PICK s, x : s \in Nat /\ Seen(dk, p, n) = FileOf(s, x)  BY <1>1, <2>1, SeenFile
  <2> QED  BY <2>2, FileFields
<1>9. Seen(e, q, n) = NoFile  BY <1>3 DEF Seen
<1>10. View(e, Down, n) = NoFile
  <2>1. \A g \in Handle : e[g].name # n  BY <1>2, <1>3, Unnamed
  <2> QED  BY <1>3, <2>1, DownView
<1>11. n \notin Temps => View(e1, Down, n) = Files!Blank(0)
  <2>1. n \notin Temps => View(e1, Down, n) = FileOf(PhysicalSize(Empty), Empty)
    BY <1>3, DownView
  <2> QED  BY <2>1, HoldingEmpty, EmptyFile
<1>12. Ended(dk, p, e1, n)  BY <1>3, OnlyData
<1>13. Ended(dk, p, e, n)  BY <1>7, EndsHere
<1> QED  BY <1>3, <1>7, <1>8, <1>9, <1>10, <1>11, <1>12, <1>13

-----------------------------------------------------------------------------
(* The steps *)

FilesStep ==
    /\ pool'.up => Exact(disk', pool') /\ cut' = NoRequest
    /\ Files!Next \/ UNCHANGED <<content, cut>>

LEMMA WhileUp ==
    ASSUME FilesInv, pool.up
    PROVE  \E dk, p : dk = disk /\ p = pool /\ Running(dk, p) /\ cut = NoRequest
  BY DEF FilesInv, PoolInv, Running

LEMMA BlankAtEnd ==
    /\ \A n : n \notin Temps => Files!Kept(n, Files!Blank(0)) = Files!Blank(0)
    /\ Files!Blank(0) # NoFile
<1>1. FileOf(0, Empty) = Files!Blank(0)  BY EmptyFile
<1>2. FileOf(0, Empty) # NoFile  BY FileFields
<1>3. ASSUME NEW n, n \notin Temps PROVE Files!Kept(n, FileOf(0, Empty)) = FileOf(0, Empty)
  <2>1. Files!Kept(n, FileOf(0, Empty)) = FileOf(PhysicalSize(Empty), Empty)
    BY <1>3, EmptyData, HoldingEmpty, PaddedFile
  <2> QED  BY <2>1, HoldingEmpty
<1> QED  BY <1>1, <1>2, <1>3

LEMMA SpareFiles ==
    ASSUME FilesInv, PoolInv', SpareChanges
    PROVE  FilesStep
<1>1. PICK h \in Handle :
         /\ \A n \in Name : pool.map[n] # h
         /\ \A g \in Handle \ {h} : disk'[g] = disk[g]
         /\ pool.up /\ pool'.up /\ cut' = NoRequest
         /\ pool'.map = pool.map /\ pool'.logical = pool.logical /\ pool'.open = pool.open
  BY DEF SpareChanges
<1>2. PICK dk, p : dk = disk /\ p = pool /\ Running(dk, p) /\ cut = NoRequest  BY <1>1, WhileUp
<1>3. PICK e, q : e = disk' /\ q = pool'  OBVIOUS
<1>4. DiskOK(e) /\ MemoryOK(e, q) /\ q.up  BY <1>1, <1>3 DEF PoolInv
<1>5. NoName \notin SqliteName /\ SqliteName \subseteq Name  BY NameFacts
<1>6. ASSUME NEW m \in SqliteName PROVE Same(dk, p, e, q, m)
  <2>1. DiskOK(dk) /\ MemoryOK(dk, p) /\ p.up  BY <1>2 DEF Running
  <2>2. p.map[m] # h /\ q.map[m] = p.map[m] /\ q.logical = p.logical  BY <1>1, <1>2, <1>3, <1>5
  <2>3. \A g \in Handle \ {h} : e[g] = dk[g]  BY <1>1, <1>2, <1>3
  <2> QED  BY <1>5, <2>1, <2>2, <2>3, OtherHandle
<1>7. q.open \subseteq p.open \cup {NoName}  BY <1>1, <1>2, <1>3
<1>8. Running(e, q) /\ Others(dk, p, e, q, NoName)
  BY <1>2, <1>4, <1>5, <1>6, <1>7, KeepsOthers
<1>9. \A m \in SqliteName : Seen(e, q, m) = Seen(dk, p, m)  BY <1>5, <1>8 DEF Others
<1>10. UNCHANGED <<content, cut>>  BY <1>1, <1>2, <1>3, <1>8, <1>9, StepNone
<1> QED  BY <1>1, <1>3, <1>8, <1>10 DEF FilesStep, Running

LEMMA StopFiles ==
    ASSUME FilesInv, Pause \/ Crash
    PROVE  FilesStep
<1>1. pool.up /\ disk' = disk /\ pool' = Down /\ cut' = NoRequest  BY AfterNone DEF Pause, Crash
<1>2. PICK dk, p : dk = disk /\ p = pool /\ Running(dk, p)  BY <1>1, WhileUp
<1>3. Files!Restart  BY <1>1, <1>2, StepEnd
<1> QED  BY <1>1, <1>3, DownOK DEF FilesStep, Files!Next

LEMMA InstallFiles ==
    ASSUME FilesInv, ~pool.up, NEW clear \in BOOLEAN, PoolInv', Installed(clear)
    PROVE  FilesStep
<1>1. PICK dk, e, q : dk = disk /\ e = disk' /\ q = pool'  OBVIOUS
<1>2. DiskOK(dk) /\ pool = Down  BY <1>1 DEF FilesInv, PoolInv, MemoryOK
<1>3. DiskOK(e) /\ MemoryOK(e, q)  BY <1>1 DEF PoolInv
<1>4. /\ q.up /\ q.open = {} /\ cut' = NoRequest
      /\ (\A h \in Handle : q.logical[h] = Unknown)
      /\ (\A h \in Handle : e[h] = dk[h] \/ e[h].name = NoName)
      /\ clear => \A h \in Handle : e[h].name = NoName
      /\ ~clear => \A h \in Handle : /\ e[h].name \notin Temps
                                     /\ dk[h].name \notin {NoName} \cup Temps => e[h] = dk[h]
  BY <1>1 DEF Installed
<1>5. ASSUME NEW n \in SqliteName, q.map[n] # NoHandle, NEW h, h = q.map[n]
      PROVE  /\ h \in Handle /\ e[h].name = n /\ IsData(e[h].data) /\ e[h] = dk[h] /\ n # NoName
             /\ SizeIn(q, e, n) = PhysicalSize(e[h].data)
             /\ Seen(e, q, n) = FileOf(PhysicalSize(e[h].data), e[h].data)
  <2>1. n \in Name /\ n # NoName  BY NameFacts
  <2>2. h \in Handle /\ e[h].name = n /\ IsData(e[h].data)  BY <1>3, <1>4, <1>5, <2>1, Holds
  <2>3. e[h] = dk[h]  BY <1>4, <2>1, <2>2
  <2>4. SizeIn(q, e, n) = PhysicalSize(e[h].data)  BY <1>4, <1>5, <2>2 DEF SizeIn
  <2> QED  BY <1>5, <2>1, <2>2, <2>3, <2>4 DEF Seen, SeenSize
<1>6. Exact(e, q)
  <2> SUFFICES ASSUME NEW n \in SqliteName PROVE ExactAt(e, q, n)
    BY DEF Exact
  <2>1. CASE q.map[n] = NoHandle  BY <1>4, <2>1 DEF ExactAt
  <2>2. CASE q.map[n] # NoHandle
    <3>1. PICK h : h = q.map[n]  OBVIOUS
    <3>2. IsData(e[h].data) /\ SizeIn(q, e, n) = PhysicalSize(e[h].data)  BY <1>5, <2>2, <3>1
    <3>3. Holding(e[h].data, SizeIn(q, e, n))  BY <3>2, HoldingWhole
    <3> QED  BY <1>4, <3>1, <3>3 DEF ExactAt
  <2> QED  BY <2>1, <2>2
<1>7. \A n \in SqliteName : View(disk', pool', n) = Seen(e, q, n)  BY <1>1, <1>3, <1>4, UpView
<1>8. cut' = Files!NoRequest  BY <1>4 DEF NoRequest, Files!NoRequest
<1>9. CASE clear
  <2>1. \A n \in SqliteName : Seen(e, q, n) = NoFile
    <3> TAKE n \in SqliteName
    <3>1. q.map[n] = NoHandle
      <4> SUFFICES ASSUME q.map[n] # NoHandle PROVE FALSE
        OBVIOUS
      <4>1. PICK h : h = q.map[n]  OBVIOUS
      <4>2. h \in Handle /\ e[h].name = n /\ n # NoName  BY <1>5, <4>1
      <4> QED  BY <1>4, <1>9, <4>2
    <3> QED  BY <3>1 DEF Seen
  <2>2. content' = [n \in SqliteName |-> NoFile]  BY <1>7, <2>1, Viewed
  <2>3. Files!Clear  BY <1>8, <2>2 DEF Files!Clear, content
  <2> QED  BY <1>1, <1>4, <1>6, <2>3 DEF FilesStep, Files!Next
<1>10. CASE ~clear
  <2>1. ASSUME NEW n \in SqliteName PROVE Seen(e, q, n) = Files!Kept(n, View(dk, Down, n))
    <3>1. CASE q.map[n] = NoHandle
      <4>1. \A g \in Handle : e[g].name # n  BY <1>3, <1>4, <3>1, Unnamed, NameFacts
      <4>2. n \in Temps \/ View(dk, Down, n) = NoFile
        <5>1. CASE n \notin Temps
          <6>1. n # NoName  BY NameFacts
          <6>2. \A g \in Handle : dk[g].name # n  BY <1>4, <1>10, <4>1, <5>1, <6>1
          <6> QED  BY <1>2, <6>2, DownView
        <5> QED  BY <5>1
      <4> QED  BY <3>1, <4>2, KeptNone DEF Seen
    <3>2. CASE q.map[n] # NoHandle
      <4>1. PICK h, x : h = q.map[n] /\ x = e[h].data  OBVIOUS
      <4>2. /\ h \in Handle /\ e[h].name = n /\ IsData(x) /\ e[h] = dk[h]
            /\ Seen(e, q, n) = FileOf(PhysicalSize(x), x)
        BY <1>5, <3>2, <4>1
      <4>3. n \notin Temps  BY <1>4, <1>10, <4>2
      <4>4. View(dk, Down, n) = FileOf(PhysicalSize(x), x)  BY <1>2, <4>1, <4>2, <4>3, DownView
      <4>5. PICK s \in Nat : s = PhysicalSize(x) /\ Holding(x, s)  BY <4>2, HoldingWhole
      <4>6. Files!Kept(n, FileOf(s, x)) = FileOf(PhysicalSize(x), x)  BY <4>2, <4>3, <4>5, PaddedFile
      <4> QED  BY <4>2, <4>4, <4>5, <4>6
    <3> QED  BY <3>1, <3>2
  <2>2. \A n \in SqliteName : content[n] = View(dk, Down, n)  BY <1>1, <1>2, Viewed
  <2>3. content' = [n \in SqliteName |-> Files!Kept(n, content[n])]  BY <1>7, <2>1, <2>2, Viewed
  <2>4. Files!Restart  BY <1>8, <2>3 DEF Files!Restart, content
  <2> QED  BY <1>1, <1>4, <1>6, <2>4 DEF FilesStep, Files!Next
<1> QED  BY <1>9, <1>10

LEMMA OpenExistingMainFiles ==
    ASSUME FilesInv, NEW d \in Db, pool.up, Main(d) \notin pool.open, OpenExistingMain(d)
    PROVE  FilesStep
<1>1. PICK dk, p : dk = disk /\ p = pool /\ Running(dk, p) /\ cut = NoRequest  BY WhileUp
<1>2. PICK q : q = Bound(p, dk, d)  OBVIOUS
<1>3. disk' = dk /\ pool' = q /\ cut' = NoRequest  BY <1>1, <1>2, AfterNone DEF OpenExistingMain
<1>4. PICK h : h = p.map[Main(d)]  OBVIOUS
<1>5. /\ Main(d) \notin p.open /\ h # NoHandle
      /\ AllAuthentic(dk[h].data, Sealed(d, Main(d)))
  BY <1>1, <1>4 DEF OpenExistingMain, Has, Data
<1>6. Opening(dk, p, q, Main(d), h) /\ q.logical[h] = PhysicalSize(dk[h].data)
  BY <1>1, <1>2, <1>4, <1>5, BoundOK DEF Running
<1>7. Main(d) \in Mains  BY NameFacts
<1>8. Running(dk, q) /\ \A m \in SqliteName : Seen(dk, q, m) = Seen(dk, p, m)
  BY <1>1, <1>6, <1>7, OpenFiles
<1>9. UNCHANGED <<content, cut>>  BY <1>1, <1>3, <1>8, StepNone
<1> QED  BY <1>3, <1>8, <1>9 DEF FilesStep, Running

\* A main file that has just been linked is opened with nothing in it.
LEMMA EmptyMainFiles ==
    ASSUME NEW dk, NEW p, NEW d \in Db, Running(dk, p), EmptyMain(dk, p, d),
           NEW q, q = Bound(p, dk, d)
    PROVE  /\ Running(dk, q) /\ \A m \in SqliteName : Seen(dk, q, m) = Seen(dk, p, m)
           /\ Seen(dk, p, Main(d)) = Files!Blank(0) /\ View(dk, Down, Main(d)) = Files!Blank(0)
<1>1. PICK h, n : h = p.map[n] /\ n = Main(d)  OBVIOUS
<1>2. Opening(dk, p, q, n, h) /\ q.logical[h] = PhysicalSize(dk[h].data)
  BY <1>1, EmptyMainBound
<1>3. n \in Mains /\ n \in SqliteName /\ n \notin Temps /\ n \in Name
  BY <1>1, NameFacts DEF Temps
<1>4. Running(dk, q) /\ \A m \in SqliteName : Seen(dk, q, m) = Seen(dk, p, m)
  BY <1>2, <1>3, OpenFiles
<1>5. h # NoHandle /\ dk[h].data = Empty  BY <1>1 DEF EmptyMain
<1>6. Seen(dk, p, n) = Files!Blank(0)
  <2>1. SeenSize(dk, p, n) = 0  BY <1>1, <1>3, <1>5, HoldingEmpty DEF SeenSize
  <2> QED  BY <1>1, <1>5, <2>1, EmptyFile DEF Seen
<1>7. View(dk, Down, n) = Files!Blank(0)
  <2>1. DiskOK(dk) /\ MemoryOK(dk, p) /\ p.up  BY DEF Running
  <2>2. h \in Handle /\ dk[h].name = n  BY <1>1, <1>3, <1>5, <2>1, Holds
  <2>3. View(dk, Down, n) = FileOf(PhysicalSize(Empty), Empty)
    BY <1>3, <1>5, <2>1, <2>2, DownView
  <2> QED  BY <2>3, HoldingEmpty, EmptyFile
<1> QED  BY <1>1, <1>4, <1>6, <1>7

LEMMA OpenLostMainFiles ==
    ASSUME FilesInv, NEW d \in Db, pool.up, Main(d) \notin pool.open, OpenLostMain(d)
    PROVE  FilesStep
<1>1. PICK dk, p : dk = disk /\ p = pool /\ Running(dk, p) /\ cut = NoRequest  BY WhileUp
<1>2. PICK n, p1, e, q : n = Main(d) /\ p1 = Linked(p, n) /\ e = LinkDisk(dk, p, n) /\ q = Bound(p1, e, d)
  OBVIOUS
<1>3. disk' = e /\ pool' = q /\ cut' = NoRequest  BY <1>1, <1>2, AfterOne DEF OpenLostMain
<1>4. p.avail # <<>> /\ p.map[n] = NoHandle /\ n \notin p.open
  BY <1>1, <1>2 DEF OpenLostMain, Has
<1>5. n \in Name /\ n \in SqliteName  BY <1>2, NameFacts
<1>6. EmptyMain(e, p1, d)  BY <1>1, <1>2, <1>4, MainLinked DEF Running
<1>7. /\ Running(e, p1) /\ Others(dk, p, e, p1, n)
      /\ Seen(dk, p, n) = NoFile /\ Seen(e, p1, n) = Files!Blank(0)
  BY <1>1, <1>2, <1>4, <1>5, LinkFiles
<1>8. Running(e, q) /\ \A m \in SqliteName : Seen(e, q, m) = Seen(e, p1, m)
  BY <1>2, <1>6, <1>7, EmptyMainFiles
<1>9. Files!Create(Seen(dk, p, n), Seen(e, q, n))  BY <1>5, <1>7, <1>8 DEF Files!Create
<1>10. \A m \in SqliteName \ {n} : Seen(e, q, m) = Seen(dk, p, m)  BY <1>7, <1>8 DEF Others
<1>11. Files!Operate  BY <1>1, <1>3, <1>5, <1>8, <1>9, <1>10, StepOne
<1> QED  BY <1>3, <1>8, <1>11 DEF FilesStep, Running, Files!Next

\* A file that is there empty after the call, and was empty or absent before.
LEMMA Creates ==
    ASSUME NEW dk, NEW p, dk = disk, p = pool, Running(dk, p), cut = NoRequest, NEW n \in SqliteName,
           NEW e, NEW q, e = disk', q = pool', Running(e, q), cut' = NoRequest,
           Others(dk, p, e, q, n), Seen(dk, p, n) \in {NoFile, Files!Blank(0)},
           Seen(e, q, n) = Files!Blank(0)
    PROVE  FilesStep
<1>1. \A m \in SqliteName \ {n} : Seen(e, q, m) = Seen(dk, p, m)  BY DEF Others
<1>2. CASE Seen(dk, p, n) = NoFile
  <2>1. PICK f, g : f = Seen(dk, p, n) /\ g = Seen(e, q, n)  OBVIOUS
  <2>2. Files!Create(f, g)  BY <1>2, <2>1 DEF Files!Create
  <2>3. Files!Operate  BY <1>1, <2>1, <2>2, StepOne
  <2> QED  BY <2>3 DEF FilesStep, Running, Files!Next
<1>3. CASE Seen(dk, p, n) = Files!Blank(0)
  <2>1. \A m \in SqliteName : Seen(e, q, m) = Seen(dk, p, m)  BY <1>1, <1>3
  <2>2. UNCHANGED <<content, cut>>  BY <2>1, StepNone
  <2> QED  BY <2>2 DEF FilesStep, Running
<1> QED  BY <1>2, <1>3

\* The end of a call that a power loss cut short, with f left of its file.
LEMMA Interrupts ==
    ASSUME NEW dk, NEW p, dk = disk, p = pool, Running(dk, p), NEW n \in SqliteName,
           NEW e, e = disk', DiskOK(e), pool' = Down, NEW r, cut' = r, r.name = n, r.op # "none",
           Ended(dk, p, e, n),
           NEW f, f \in Files!Partial(r, Seen(dk, p, n)), View(e, Down, n) = Files!Kept(n, f)
    PROVE  FilesStep
<1>1. Files!Restart  BY StepCut
<1> QED  BY <1>1, DownOK DEF FilesStep, Files!Next

LEMMA PartialOf ==
    ASSUME NEW r, NEW f
    PROVE  /\ r.op = "create" => Files!Partial(r, f) = {NoFile, Files!Blank(0)}
           /\ r.op = "delete" => Files!Partial(r, f) = {f, Files!Blank(0), NoFile}
           /\ r.op = "import" =>
                 Files!Partial(r, f) = {f, NoFile, Files!Blank(0), Files!Blank(r.size)}
  BY DEF Files!Partial

LEMMA OpenNewMainFiles ==
    ASSUME FilesInv, NEW d \in Db, pool.up, Main(d) \notin pool.open, OpenNewMain(d)
    PROVE  FilesStep
<1>1. PICK dk, p : dk = disk /\ p = pool /\ Running(dk, p) /\ cut = NoRequest  BY WhileUp
<1>2. PICK n : n = Main(d)  OBVIOUS
<1> DEFINE linked == p.map[n] # NoHandle
<1>3. PICK p1, e1 : /\ p1 = IF linked THEN p ELSE Linked(p, n)
                    /\ e1 = IF linked THEN dk ELSE LinkDisk(dk, p, n)
  OBVIOUS
<1>4. PICK p2, e2, q : /\ p2 = Linked(p1, Manifest(d)) /\ e2 = LinkDisk(e1, p1, Manifest(d))
                       /\ q = Bound(p2, e2, d)
  OBVIOUS
<1>5. PICK r : r = [op |-> "create", name |-> n]  OBVIOUS
<1>6. /\ p.map[Manifest(d)] = NoHandle /\ n \notin p.open /\ p.up
      /\ linked => dk[p.map[n]].data = Empty
      /\ linked \/ p.avail # <<>>
  BY <1>1, <1>2 DEF OpenNewMain, Has, Data
<1>7. /\ p1.avail = <<>> => Completes(<<e1>>, p1)
      /\ p1.avail # <<>> => Performs(<<e1, e2>>, q, r)
  <2> HIDE DEF linked
  <2>1. Has(n) <=> linked  BY <1>1 DEF Has, linked
  <2>2. p1 = (IF Has(n) THEN pool ELSE Linked(pool, n))  BY <1>1, <1>3, <2>1
  <2>3. e1 = (IF Has(n) THEN disk ELSE LinkDisk(disk, pool, n))  BY <1>1, <1>3, <2>1
  <2> QED  BY <1>2, <1>4, <1>5, <2>2, <2>3 DEF OpenNewMain
<1>8. /\ n \in Name /\ n \in SqliteName /\ n \notin Temps
      /\ Manifest(d) \in Name /\ Manifest(d) # n /\ Manifest(d) \notin SqliteName
  <2>1. \A t \in Temp : n # TempFile(t) /\ Manifest(d) # TempFile(t)
    BY <1>2 DEF Main, Manifest, TempFile
  <2> QED  BY <1>2, <2>1, NameFacts DEF SqliteName, Mains, Journals, Temps
<1>9. DiskOK(dk) /\ MemoryOK(dk, p)  BY <1>1 DEF Running
<1>10. /\ EmptyMain(e1, p1, d) /\ p1.map[Manifest(d)] = NoHandle
       /\ Running(e1, p1) /\ Others(dk, p, e1, p1, n) /\ (~linked => Seen(dk, p, n) = NoFile)
  <2>1. CASE linked
    <3>1. p1 = p /\ e1 = dk  BY <1>3, <2>1
    <3> QED  BY <1>1, <1>2, <1>6, <1>9, <2>1, <3>1 DEF EmptyMain, Others
  <2>2. CASE ~linked
    <3>1. p1 = Linked(p, n) /\ e1 = LinkDisk(dk, p, n)  BY <1>3, <2>2
    <3>2. EmptyMain(e1, p1, d) /\ \A m \in Name \ {n} : p1.map[m] = p.map[m]
      BY <1>2, <1>6, <1>9, <2>2, <3>1, MainLinked
    <3>3. Running(e1, p1) /\ Others(dk, p, e1, p1, n) /\ Seen(dk, p, n) = NoFile
      BY <1>1, <1>6, <1>8, <2>2, <3>1, LinkFiles
    <3> QED  BY <1>6, <1>8, <3>2, <3>3
  <2> QED  BY <2>1, <2>2
<1>11. Seen(e1, p1, n) = Files!Blank(0) /\ View(e1, Down, n) = Files!Blank(0)
  <2>1. PICK q1 : q1 = Bound(p1, e1, d)  OBVIOUS
  <2> QED  BY <1>2, <1>10, <2>1, EmptyMainFiles
<1>12. Seen(dk, p, n) \in {NoFile, Files!Blank(0)}
  <2>1. CASE linked
    <3>1. p1 = p /\ e1 = dk  BY <1>3, <2>1
    <3> QED  BY <1>11, <3>1
  <2> QED  BY <1>10, <2>1
<1>13. CASE p1.avail = <<>>
  <2>1. disk' = e1 /\ pool' = p1 /\ cut' = NoRequest  BY <1>7, <1>13, AfterOne
  <2> QED  BY <1>1, <1>8, <1>10, <1>11, <1>12, <2>1, Creates
<1>14. CASE p1.avail # <<>>
  <2>1. \/ disk' = e2 /\ pool' = q /\ cut' = NoRequest
        \/ disk' = e1 /\ pool' = Down /\ cut' = r
    BY <1>7, <1>14, AfterTwo
  <2>2. CASE disk' = e2 /\ pool' = q /\ cut' = NoRequest
    <3>1. Running(e2, p2) /\ Others(e1, p1, e2, p2, Manifest(d))
      BY <1>4, <1>8, <1>10, <1>14, LinkFiles
    <3>2. EmptyMain(e2, p2, d)
      <4>1. PICK h : h = Last(p1.avail)  OBVIOUS
      <4>2. /\ h \in Range(p1.avail) /\ DiskOK(e2) /\ MemoryOK(e2, p2) /\ p2.up
            /\ (\A m \in Name \ {Manifest(d)} : p2.map[m] = p1.map[m])
            /\ (\A g \in Handle \ {h} : e2[g] = e1[g]) /\ p2.open = p1.open
        BY <1>4, <1>8, <1>10, <1>14, <4>1, LinkOK DEF EmptyMain
      <4>3. p1.map[n] \in Handle /\ p1.map[n] \notin Range(p1.avail)
        BY <1>2, <1>8, <1>10, Holds DEF EmptyMain
      <4> QED  BY <1>2, <1>8, <1>10, <4>2, <4>3 DEF EmptyMain
    <3>3. Running(e2, q) /\ \A m \in SqliteName : Seen(e2, q, m) = Seen(e2, p2, m)
      BY <1>4, <3>1, <3>2, EmptyMainFiles
    <3>4. \A m \in SqliteName : Seen(e2, q, m) = Seen(e1, p1, m)
      BY <1>8, <3>1, <3>3 DEF Others
    <3>5. Others(dk, p, e2, q, n) /\ Seen(e2, q, n) = Files!Blank(0)
      BY <1>8, <1>10, <1>11, <3>4 DEF Others
    <3> QED  BY <1>1, <1>8, <1>12, <2>2, <3>3, <3>5, Creates
  <2>3. CASE disk' = e1 /\ pool' = Down /\ cut' = r
    <3>1. Ended(dk, p, e1, n) /\ DiskOK(e1)  BY <1>10, EndsHere DEF Running
    <3>2. PICK f : f = Files!Blank(0)  OBVIOUS
    <3>3. r.name = n /\ r.op = "create" /\ r.op # "none"  BY <1>5
    <3>4. f \in Files!Partial(r, Seen(dk, p, n))  BY <3>2, <3>3, PartialOf
    <3>5. View(e1, Down, n) = Files!Kept(n, f)  BY <1>8, <1>11, <3>2, BlankAtEnd
    <3> QED  BY <1>1, <1>8, <2>3, <3>1, <3>3, <3>4, <3>5, Interrupts
  <2> QED  BY <2>1, <2>2, <2>3
<1> QED  BY <1>13, <1>14

LEMMA OpenIsUp == FilesInv => (pool.open # {} => pool.up)
  BY DownOK DEF FilesInv, PoolInv, MemoryOK

LEMMA OpenJournalFiles ==
    ASSUME FilesInv, NEW d \in Db, OpenJournal(d)
    PROVE  FilesStep
<1>1. PICK dk, p : dk = disk /\ p = pool /\ Running(dk, p) /\ cut = NoRequest
  BY WhileUp, OpenIsUp DEF OpenJournal
<1>2. PICK n : n = Journal(d)  OBVIOUS
<1> DEFINE linked == p.map[n] # NoHandle
<1>3. PICK p1, e : /\ p1 = IF linked THEN p ELSE Linked(p, n)
                   /\ e = IF linked THEN dk ELSE LinkDisk(dk, p, n)
  OBVIOUS
<1>4. PICK q : q = [BindSatellite(p1, d) EXCEPT !.open = @ \cup {n}]  OBVIOUS
<1>5. Main(d) \in p.open /\ n \notin p.open /\ (linked \/ p.avail # <<>>)
  BY <1>1, <1>2 DEF OpenJournal, Has
<1>6. disk' = e /\ pool' = q /\ cut' = NoRequest
  <2> HIDE DEF linked
  <2>1. Has(n) <=> linked  BY <1>1 DEF Has, linked
  <2>2. p1 = (IF Has(n) THEN pool ELSE Linked(pool, n))  BY <1>1, <1>3, <2>1
  <2>3. e = (IF Has(n) THEN disk ELSE LinkDisk(disk, pool, n))  BY <1>1, <1>3, <2>1
  <2>4. Completes(<<e>>, q)  BY <1>2, <1>4, <2>2, <2>3 DEF OpenJournal
  <2> QED  BY <2>4, AfterOne
<1>7. n \in Name /\ n \in SqliteName /\ n \notin Mains  BY <1>2, NameFacts DEF Mains
<1>8. DiskOK(dk) /\ MemoryOK(dk, p) /\ p.up  BY <1>1 DEF Running
<1>9. /\ Running(e, p1) /\ Others(dk, p, e, p1, n) /\ p1.map[n] # NoHandle /\ p1.open = p.open
      /\ (linked => Seen(e, p1, n) = Seen(dk, p, n))
      /\ ~linked => Seen(dk, p, n) = NoFile /\ Seen(e, p1, n) = Files!Blank(0)
  <2>1. CASE linked
    <3>1. p1 = p /\ e = dk  BY <1>3, <2>1
    <3> QED  BY <1>1, <2>1, <3>1 DEF Others
  <2>2. CASE ~linked
    <3>1. p1 = Linked(p, n) /\ e = LinkDisk(dk, p, n)  BY <1>3, <2>2
    <3>2. PICK h : h = Last(p.avail)  OBVIOUS
    <3>3. h \in Handle /\ p1.map[n] = h /\ p1.open = p.open
      BY <1>5, <1>7, <1>8, <2>2, <3>1, <3>2, LinkOK
    <3>4. /\ Running(e, p1) /\ Others(dk, p, e, p1, n)
          /\ Seen(dk, p, n) = NoFile /\ Seen(e, p1, n) = Files!Blank(0)
      BY <1>1, <1>5, <1>7, <2>2, <3>1, LinkFiles
    <3> QED  BY <2>2, <3>3, <3>4, PoolAssumption
  <2> QED  BY <2>1, <2>2
<1>10. PICK h : h = p1.map[n]  OBVIOUS
<1>11. q.logical = p1.logical /\ Opening(e, p1, q, n, h)
  BY <1>2, <1>4, <1>5, <1>9, <1>10, SatelliteOK DEF Running
<1>12. Running(e, q) /\ \A m \in SqliteName : Seen(e, q, m) = Seen(e, p1, m)
  BY <1>7, <1>9, <1>11, OpenFiles
<1>13. Others(dk, p, e, q, n)  BY <1>9, <1>12 DEF Others
<1>14. CASE linked
  <2>1. \A m \in SqliteName : Seen(e, q, m) = Seen(dk, p, m)
    BY <1>7, <1>9, <1>12, <1>13, <1>14 DEF Others
  <2>2. UNCHANGED <<content, cut>>  BY <1>1, <1>6, <1>12, <2>1, StepNone
  <2> QED  BY <1>6, <1>12, <2>2 DEF FilesStep, Running
<1>15. CASE ~linked
  <2>1. Seen(e, q, n) = Files!Blank(0) /\ Seen(dk, p, n) \in {NoFile, Files!Blank(0)}
    BY <1>7, <1>9, <1>12, <1>15
  <2> QED  BY <1>1, <1>6, <1>7, <1>12, <1>13, <2>1, Creates
<1> QED  BY <1>14, <1>15

LEMMA OpenTempFiles ==
    ASSUME FilesInv, NEW t \in Temp, OpenTemp(t)
    PROVE  FilesStep
<1>1. PICK dk, p : dk = disk /\ p = pool /\ Running(dk, p) /\ cut = NoRequest
  BY WhileUp DEF OpenTemp
<1>2. PICK n : n = TempFile(t)  OBVIOUS
<1>3. PICK p1, e : p1 = Linked(p, n) /\ e = LinkDisk(dk, p, n)  OBVIOUS
<1>4. PICK q : q = [p1 EXCEPT !.open = @ \cup {n}]  OBVIOUS
<1>5. p.map[n] = NoHandle /\ p.avail # <<>>  BY <1>1, <1>2 DEF OpenTemp, Has
<1>6. disk' = e /\ pool' = q /\ cut' = NoRequest
  <2>1. Completes(<<e>>, q)  BY <1>1, <1>2, <1>3, <1>4 DEF OpenTemp
  <2> QED  BY <2>1, AfterOne
<1>7. n \in Name /\ n \in SqliteName /\ n \notin Mains  BY <1>2, NameFacts DEF Mains
<1>8. DiskOK(dk) /\ MemoryOK(dk, p) /\ p.up  BY <1>1 DEF Running
<1>9. PICK h : h = Last(p.avail)  OBVIOUS
<1>10. /\ h \in Handle /\ DiskOK(e) /\ MemoryOK(e, p1) /\ p1.up
       /\ p1.map[n] = h /\ e[h].data = Empty /\ p1.open = p.open
  BY <1>3, <1>5, <1>7, <1>8, <1>9, LinkOK
<1>11. p1.map[n] # NoHandle /\ n \notin p1.open
  <2>1. OpenOK(dk, p)  BY <1>8 DEF MemoryOK
  <2> QED  BY <1>5, <1>10, <2>1, PoolAssumption DEF OpenOK
<1>12. q.logical = p1.logical /\ Opening(e, p1, q, n, h)
  BY <1>2, <1>4, <1>10, <1>11, TempOK
<1>13. /\ Running(e, p1) /\ Others(dk, p, e, p1, n)
       /\ Seen(dk, p, n) = NoFile /\ Seen(e, p1, n) = Files!Blank(0)
  BY <1>1, <1>3, <1>5, <1>7, LinkFiles
<1>14. Running(e, q) /\ \A m \in SqliteName : Seen(e, q, m) = Seen(e, p1, m)
  BY <1>7, <1>12, <1>13, OpenFiles
<1>15. Others(dk, p, e, q, n)  BY <1>13, <1>14 DEF Others
<1>16. Seen(e, q, n) = Files!Blank(0) /\ Seen(dk, p, n) \in {NoFile, Files!Blank(0)}
  BY <1>7, <1>13, <1>14
<1> QED  BY <1>1, <1>6, <1>7, <1>14, <1>15, <1>16, Creates

LEMMA CloseFiles ==
    ASSUME NEW dk, NEW p, Running(dk, p), NEW n, NEW q, q = [p EXCEPT !.open = @ \ {n}]
    PROVE  Running(dk, q) /\ \A m \in SqliteName : Seen(dk, q, m) = Seen(dk, p, m)
<1>1. DiskOK(dk) /\ MemoryOK(dk, p) /\ p.up  BY DEF Running
<1>2. MemoryOK(dk, q) /\ q.up /\ q.map = p.map /\ q.open = p.open \ {n} /\ q.logical = p.logical
  BY <1>1, CloseOK
<1>3. NoName \notin SqliteName  BY NameFacts
<1>4. \A m \in SqliteName : Same(dk, p, dk, q, m)  BY <1>2 DEF Same
<1>5. q.open \subseteq p.open \cup {NoName}  BY <1>2
<1>6. Running(dk, q) /\ Others(dk, p, dk, q, NoName)
  BY <1>1, <1>2, <1>3, <1>4, <1>5, KeepsOthers
<1> QED  BY <1>3, <1>6 DEF Others

\* A deletion by a call that has already changed the memory from p0 to p.
LEMMA DeletionFiles ==
    ASSUME NEW dk, NEW p0, dk = disk, p0 = pool, Running(dk, p0),
           NEW p, Running(dk, p), \A m \in SqliteName : Seen(dk, p, m) = Seen(dk, p0, m),
           NEW n \in SqliteName, p.map[n] # NoHandle, n \notin p.open,
           NEW r, r.op = "delete", r.name = n,
           Performs(UnlinkDisks(dk, p.map[n]), Unlinked(p, n), r)
    PROVE  FilesStep
<1>1. PICK h, q : h = p.map[n] /\ q = Unlinked(p, n)  OBVIOUS
<1>2. PICK e1, e : e1 = WithData(dk, h, Empty) /\ e = PutFile(dk, h, Fresh)  OBVIOUS
<1>3. Performs(<<e1, e>>, q, r)  BY <1>1, <1>2 DEF UnlinkDisks, PutFile
<1>4. \/ disk' = e /\ pool' = q /\ cut' = NoRequest
      \/ disk' = e1 /\ pool' = Down /\ cut' = r
  BY <1>3, AfterTwo
<1>5. /\ Running(e, q) /\ Others(dk, p, e, q, n)
      /\ Seen(dk, p, n) # NoFile /\ Seen(e, q, n) = NoFile
      /\ DiskOK(e1) /\ Ended(dk, p, e1, n)
      /\ n \notin Temps => View(e1, Down, n) = Files!Blank(0)
  BY <1>1, <1>2, UnlinkFiles
<1>6. CASE disk' = e /\ pool' = q /\ cut' = NoRequest
  <2>1. PICK f, g : f = Seen(dk, p0, n) /\ g = Seen(e, q, n)  OBVIOUS
  <2>2. Files!Delete(f, g)  BY <1>5, <2>1 DEF Files!Delete
  <2>3. \A m \in SqliteName \ {n} : Seen(e, q, m) = Seen(dk, p0, m)  BY <1>5 DEF Others
  <2>4. Files!Operate  BY <1>5, <1>6, <2>1, <2>2, <2>3, StepOne
  <2> QED  BY <1>5, <1>6, <2>4 DEF FilesStep, Running, Files!Next
<1>7. CASE disk' = e1 /\ pool' = Down /\ cut' = r
  <2>1. Ended(dk, p0, e1, n)  BY <1>5 DEF Ended
  <2>2. r.op # "none"  OBVIOUS
  <2>3. PICK f : /\ f \in {NoFile, Files!Blank(0)} /\ View(e1, Down, n) = Files!Kept(n, f)
    <3>1. CASE n \in Temps
      <4>1. View(e1, Down, n) = NoFile  BY <1>5, <3>1, DownView
      <4> QED  BY <4>1, KeptNone
    <3>2. CASE n \notin Temps  BY <1>5, <3>2, BlankAtEnd
    <3> QED  BY <3>1, <3>2
  <2>4. f \in Files!Partial(r, Seen(dk, p0, n))  BY <2>3, PartialOf
  <2> QED  BY <1>5, <1>7, <2>1, <2>2, <2>3, <2>4, Interrupts
<1> QED  BY <1>4, <1>6, <1>7

LEMMA CloseStepFiles ==
    ASSUME FilesInv, NEW n \in SqliteName, Close(n)
    PROVE  FilesStep
<1>1. PICK dk, p : dk = disk /\ p = pool /\ Running(dk, p) /\ cut = NoRequest
  BY WhileUp, OpenIsUp DEF Close
<1>2. n \in p.open  BY <1>1 DEF Close
<1>3. PICK q : q = [p EXCEPT !.open = @ \ {n}]  OBVIOUS
<1>4. Running(dk, q) /\ \A m \in SqliteName : Seen(dk, q, m) = Seen(dk, p, m)
  BY <1>1, <1>3, CloseFiles
<1>5. CASE n \in Temps
  <2>1. PICK r : r = [op |-> "delete", name |-> n]  OBVIOUS
  <2>2. Performs(UnlinkDisks(dk, p.map[n]), Unlinked(q, n), r)
    BY <1>1, <1>3, <1>5, <2>1 DEF Close
  <2>3. q.map = p.map /\ n \notin q.open  BY <1>1, <1>3, CloseOK DEF Running
  <2>4. q.map[n] # NoHandle
    <3>1. OpenOK(dk, p)  BY <1>1 DEF Running, MemoryOK
    <3> QED  BY <1>2, <2>3, <3>1 DEF OpenOK
  <2>5. Performs(UnlinkDisks(dk, q.map[n]), Unlinked(q, n), r)  BY <2>2, <2>3
  <2>6. r.op = "delete" /\ r.name = n  BY <2>1
  <2> QED  BY <1>1, <1>4, <2>3, <2>4, <2>5, <2>6, DeletionFiles
<1>6. CASE n \notin Temps
  <2>1. Completes(<<>>, q)  BY <1>1, <1>3, <1>6 DEF Close
  <2>2. disk' = dk /\ pool' = q /\ cut' = NoRequest  BY <1>1, <2>1, AfterNone
  <2>3. UNCHANGED <<content, cut>>  BY <1>1, <1>4, <2>2, StepNone
  <2> QED  BY <1>4, <2>2, <2>3 DEF FilesStep, Running
<1> QED  BY <1>5, <1>6

LEMMA DeleteJournalFiles ==
    ASSUME FilesInv, NEW d \in Db, DeleteJournal(d)
    PROVE  FilesStep
<1>1. PICK dk, p : dk = disk /\ p = pool /\ Running(dk, p)
  BY WhileUp, OpenIsUp DEF DeleteJournal
<1>2. PICK n : n = Journal(d)  OBVIOUS
<1>3. PICK r : r = [op |-> "delete", name |-> n]  OBVIOUS
<1>4. /\ p.map[n] # NoHandle /\ n \notin p.open /\ n \in SqliteName
      /\ Performs(UnlinkDisks(dk, p.map[n]), Unlinked(p, n), r)
  BY <1>1, <1>2, <1>3, NameFacts DEF DeleteJournal, Has
<1>5. r.op = "delete" /\ r.name = n  BY <1>3
<1> QED  BY <1>1, <1>4, <1>5, DeletionFiles

-----------------------------------------------------------------------------
(* The steps that write *)

\* An open file of n bytes is what its opaque file holds.
LEMMA OpenSeen ==
    ASSUME NEW dk, NEW p, NEW n \in SqliteName, NEW h, NEW x, NEW dom, NEW size, Running(dk, p),
           OpenFile(dk, p, n, h, x, dom, size), size = SizeIn(p, dk, n)
    PROVE  /\ Holding(x, size) /\ Seen(dk, p, n) = FileOf(size, x)
           /\ n \in Mains => size = PhysicalSize(x)
<1>1. /\ DiskOK(dk) /\ MemoryOK(dk, p) /\ p.up /\ n \in p.open /\ h = p.map[n] /\ h # NoHandle
      /\ x = dk[h].data
  BY DEF OpenFile
<1>2. ExactAt(dk, p, n)  BY DEF Running, Exact
<1>3. PICK s \in Nat : /\ Holding(x, s) /\ Seen(dk, p, n) = FileOf(s, x) /\ s = SizeIn(p, dk, n)
  BY <1>1, <1>2, SeenFile
<1>4. n \in Mains => size = PhysicalSize(x)  BY <1>1, <1>2 DEF ExactAt
<1> QED  BY <1>3, <1>4

\* New contents of an open file, with the size that goes with them.
LEMMA RewriteFiles ==
    ASSUME NEW dk, NEW p, NEW n \in SqliteName, NEW h, NEW x, NEW dom, NEW size, Running(dk, p),
           OpenFile(dk, p, n, h, x, dom, size),
           NEW w, IsData(w), AllAuthentic(w, dom), NEW e, e = WithData(dk, h, w),
           NEW l \in Nat, l <= w.len * B, NEW q, q = Resized(p, h, l),
           Holding(w, l), n \in Mains => l = PhysicalSize(w)
    PROVE  Running(e, q) /\ Others(dk, p, e, q, n) /\ Seen(e, q, n) = FileOf(l, w)
<1>1. /\ DiskOK(dk) /\ MemoryOK(dk, p) /\ p.up /\ h = p.map[n] /\ h # NoHandle /\ h \in Handle
  BY DEF OpenFile
<1>2. /\ DiskOK(e) /\ MemoryOK(e, q) /\ e[h].data = w
      /\ q.up /\ q.map = p.map /\ q.open = p.open /\ q.logical[h] = l /\ l # Unknown
      /\ \A g \in Handle \ {h} : e[g] = dk[g] /\ q.logical[g] = p.logical[g]
  <2>1. DiskOK(e) /\ MemoryOK(e, q) /\ Sized(p, q, h, l)  BY OpenContentOK
  <2>2. Rewrote(dk, e, h, n, w)  BY OpenDiskOK
  <2> QED  BY <2>1, <2>2 DEF Sized, Rewrote
<1>3. ASSUME NEW m \in SqliteName \ {n} PROVE Same(dk, p, e, q, m)
  <2>1. m \in Name \ {n} /\ n \in Name  BY NameFacts
  <2>2. p.map[m] # h  BY <1>1, <2>1, Holds
  <2> QED  BY <1>1, <1>2, <2>1, <2>2, OtherHandle
<1>4. SizeIn(q, e, n) = l  BY <1>1, <1>2 DEF SizeIn
<1>5. ExactAt(e, q, n)  BY <1>1, <1>2, <1>4 DEF ExactAt
<1>6. Running(e, q) /\ Others(dk, p, e, q, n)  BY <1>2, <1>3, <1>5, KeepsOthers
<1>7. SeenSize(e, q, n) = l  BY <1>1, <1>2, <1>4 DEF SeenSize
<1> QED  BY <1>1, <1>2, <1>6, <1>7 DEF Seen

\* The same contents when the power is lost there.
LEMMA RewriteCut ==
    ASSUME NEW dk, NEW p, NEW n \in SqliteName, NEW h, NEW x, NEW dom, NEW size, Running(dk, p),
           OpenFile(dk, p, n, h, x, dom, size),
           NEW w, IsData(w), AllAuthentic(w, dom), NEW e, e = WithData(dk, h, w),
           NEW t \in Nat, Holding(w, t)
    PROVE  DiskOK(e) /\ Ended(dk, p, e, n) /\ View(e, Down, n) = Files!Kept(n, FileOf(t, w))
<1>1. p.map[n] # NoHandle /\ h = p.map[n] /\ h \in Handle  BY DEF OpenFile
<1>2. /\ DiskOK(e) /\ e[h].name = n /\ e[h].data = w
      /\ \A g \in Handle \ {h} : e[g] = dk[g]
  BY OpenDiskOK DEF Rewrote
<1>3. Ended(dk, p, e, n)  BY <1>1, <1>2, OnlyData
<1>4. CASE n \in Temps  BY <1>2, <1>3, <1>4, DownView, KeptNone
<1>5. CASE n \notin Temps
  <2>1. View(e, Down, n) = FileOf(PhysicalSize(w), w)  BY <1>1, <1>2, <1>5, DownView
  <2>2. Files!Kept(n, FileOf(t, w)) = FileOf(PhysicalSize(w), w)  BY <1>5, PaddedFile
  <2> QED  BY <1>2, <1>3, <2>1, <2>2
<1> QED  BY <1>4, <1>5

\* What holds a whole number of blocks holds just those.
LEMMA WholeSize ==
    ASSUME NEW w, NEW c \in Nat, Holding(w, c * B)
    PROVE  c * B = PhysicalSize(w)
  BY WholeBlocks DEF Holding, PhysicalSize

\* A page written to a whole number of blocks leaves a whole number of blocks.
LEMMA PageSize ==
    ASSUME NEW L \in Nat, NEW off \in Nat, off % B = 0
    PROVE  \E c \in Nat : Larger(L * B, off + B) = c * B
<1>1. PICK k \in Nat, j \in 0 .. B - 1 : j = off % B /\ off = k * B + j /\ k * B \in Nat
  BY InBlock
<1>2. off = k * B  BY <1>1
<1>3. (k + 1) * B = k * B + B  BY BAssumption, SMT
<1>4. off + B = (k + 1) * B  BY <1>2, <1>3
<1>5. k + 1 \in Nat  OBVIOUS
<1> QED  BY <1>4, <1>5 DEF Larger

LEMMA XWriteFiles ==
    ASSUME FilesInv, NEW n \in SqliteName, NEW off, NEW len, NEW v \in Byte, Wrote(n, off, len, v)
    PROVE  FilesStep
<1>1. PICK dk, p, h, x, dom, size, last, w, e, l, q :
         WroteTo(dk, p, n, h, x, dom, size, off, len, v, last, w, e, l, q)
  BY DEF Wrote
<1>2. /\ OpenFile(dk, p, n, h, x, dom, size) /\ dk = disk /\ p = pool /\ size = SizeIn(p, dk, n)
      /\ off <= Blocks(size) * B /\ off \in Nat /\ len \in Nat \ {0}
      /\ n \in Mains => off % B = 0 /\ len = B
      /\ last \in FirstBlock(off) .. LastBlock(off, len)
      /\ w = Written(x, dom, off, len, v, last) /\ IsData(w) /\ AllAuthentic(w, dom)
      /\ e = WithData(dk, h, w) /\ e = disk'
      /\ l = Larger(size, off + len) /\ q = Resized(p, h, l)
  BY <1>1 DEF WroteTo
<1>3. p.up /\ IsData(x) /\ dom \in Doms /\ size \in Nat  BY <1>2 DEF OpenFile
<1>4. Running(dk, p)  BY <1>2, <1>3, WhileUp
<1>5. /\ Holding(x, size) /\ Seen(dk, p, n) = FileOf(size, x)
      /\ n \in Mains => size = PhysicalSize(x)
  BY <1>2, <1>4, OpenSeen
<1>6. PICK end \in off + 1 .. off + len :
         /\ last = LastBlock(off, len) => end = off + len
         /\ Files!Filled(FileOf(size, x), off, end, v) = FileOf(Larger(size, end), w)
         /\ Holding(w, Larger(size, end))
  BY <1>2, <1>3, <1>5, WrittenBytes
<1>7. PICK t \in Nat : t = Larger(size, end) /\ end <= t
  BY <1>2, <1>3 DEF Larger
<1>8. CASE /\ last = LastBlock(off, len) /\ cut' = NoRequest /\ q = pool'
           /\ l \in Nat /\ l <= w.len * B
  <2>1. end = off + len /\ t = l  BY <1>2, <1>6, <1>7, <1>8
  <2>2. Holding(w, l)  BY <1>6, <1>7, <2>1
  <2>3. n \in Mains => l = PhysicalSize(w)
    <3> HAVE n \in Mains
    <3>1. PICK L \in Nat : L = x.len  BY <1>3, DataFields
    <3>2. l = Larger(L * B, off + B)  BY <1>2, <1>5, <3>1 DEF PhysicalSize
    <3>3. PICK c \in Nat : l = c * B  BY <1>2, <3>2, PageSize
    <3> QED  BY <2>2, <3>3, WholeSize
  <2>4. Running(e, q) /\ Others(dk, p, e, q, n) /\ Seen(e, q, n) = FileOf(l, w)
    <3>1. /\ OpenFile(dk, p, n, h, x, dom, size) /\ IsData(w) /\ AllAuthentic(w, dom)
          /\ e = WithData(dk, h, w) /\ q = Resized(p, h, l) /\ l \in Nat /\ l <= w.len * B
      BY <1>2, <1>8
    <3> QED  BY <1>4, <2>2, <2>3, <3>1, RewriteFiles
  <2>5. PICK f, g : f = Seen(dk, p, n) /\ g = Seen(e, q, n)  OBVIOUS
  <2>6. Files!Write(f, g)
    <3>1. f # NoFile /\ f.size = size
      <4>1. f = FileOf(size, x)  BY <1>5, <2>5
      <4> QED  BY <1>3, <4>1, FileFields
    <3>2. g # NoFile /\ g.size = l  BY <1>8, <2>4, <2>5, FileFields
    <3>3. Files!Padded(size) = Blocks(size) * B  BY DEF Files!Padded, Blocks
    <3>4. Blocks(size) * B \in Nat  BY <1>3, BlocksHold
    <3>5. off \in 0 .. Files!Padded(f.size)  BY <1>2, <3>1, <3>3, <3>4
    <3>6. end \in off + 1 .. g.size  BY <1>2, <1>7, <2>1, <3>2
    <3>7. g = Files!Filled(f, off, end, v)  BY <1>5, <1>6, <1>7, <2>1, <2>4, <2>5
    <3> QED  BY <3>1, <3>2, <3>5, <3>6, <3>7 DEF Files!Write
  <2>7. \A m \in SqliteName \ {n} : Seen(e, q, m) = Seen(dk, p, m)  BY <2>4 DEF Others
  <2>8. Files!Operate  BY <1>2, <1>4, <1>8, <2>4, <2>5, <2>6, <2>7, StepOne
  <2> QED  BY <1>2, <1>8, <2>4, <2>8 DEF FilesStep, Running, Files!Next
<1>9. CASE /\ pool' = Down
           /\ cut' = [op |-> "write", name |-> n, off |-> off, len |-> len, byte |-> v]
  <2>1. DiskOK(e) /\ Ended(dk, p, e, n) /\ View(e, Down, n) = Files!Kept(n, FileOf(t, w))
    <3>1. Holding(w, t)  BY <1>6, <1>7
    <3>2. /\ OpenFile(dk, p, n, h, x, dom, size) /\ IsData(w) /\ AllAuthentic(w, dom)
          /\ e = WithData(dk, h, w)
      BY <1>2
    <3> QED  BY <1>4, <3>1, <3>2, RewriteCut
  <2>2. PICK r : r = [op |-> "write", name |-> n, off |-> off, len |-> len, byte |-> v]  OBVIOUS
  <2>3. /\ r.op = "write" /\ r.op # "none" /\ r.name = n
        /\ r.off = off /\ r.len = len /\ r.byte = v
    BY <2>2
  <2>4. PICK f, g : f = Seen(dk, p, n) /\ g = FileOf(t, w)  OBVIOUS
  <2>5. g = Files!Filled(f, off, end, v)  BY <1>5, <1>6, <1>7, <2>4
  <2>6. g \in Files!Partial(r, f)
    <3>1. Files!Partial(r, f) = {f} \cup {Files!Filled(f, r.off, a, r.byte) :
                                            a \in r.off + 1 .. r.off + r.len}
      BY <2>3 DEF Files!Partial
    <3> QED  BY <2>3, <2>5, <3>1
  <2> QED  BY <1>2, <1>4, <1>9, <2>1, <2>2, <2>3, <2>4, <2>6, Interrupts
<1> QED  BY <1>1, <1>8, <1>9 DEF WroteTo

LEMMA XTruncateFiles ==
    ASSUME FilesInv, NEW n \in SqliteName, NEW s, Shortens(n, s)
    PROVE  FilesStep
<1>1. PICK dk, p, h, x, dom, size, w1, w2, e, q : Cut(dk, p, n, h, x, dom, size, s, w1, w2, e, q)
  BY DEF Shortens
<1>2. /\ OpenFile(dk, p, n, h, x, dom, size) /\ dk = disk /\ p = pool /\ size = SizeIn(p, dk, n)
      /\ s \in Nat /\ s <= size /\ (n \in Mains => s % B = 0) /\ e = disk'
  BY <1>1 DEF Cut
<1>3. p.up /\ IsData(x) /\ dom \in Doms /\ size \in Nat  BY <1>2 DEF OpenFile
<1>4. Running(dk, p)  BY <1>2, <1>3, WhileUp
<1>5. Holding(x, size) /\ Seen(dk, p, n) = FileOf(size, x)  BY <1>2, <1>4, OpenSeen
<1>6. PICK f : f = Seen(dk, p, n)  OBVIOUS
<1>7. f = FileOf(size, x)  BY <1>5, <1>6
<1>8. f # NoFile /\ f.size = size  BY <1>3, <1>7, FileFields
<1>9. CASE e = WithData(dk, h, w2) /\ pool' = q /\ cut' = NoRequest
  <2>1. /\ w2 = Truncated(x, dom, s) /\ IsData(w2) /\ AllAuthentic(w2, dom) /\ s <= w2.len * B
        /\ q = Resized(p, h, s)
    BY <1>1 DEF Cut
  <2>2. Files!Shortened(FileOf(size, x), s) = FileOf(s, w2) /\ Holding(w2, s)
    BY <1>2, <1>3, <1>5, <2>1, TruncatedBytes
  <2>3. n \in Mains => s = PhysicalSize(w2)
    <3> HAVE n \in Mains
    <3>1. PICK k \in Nat, j \in 0 .. B - 1 : j = s % B /\ s = k * B + j /\ k * B \in Nat
      BY <1>2, InBlock
    <3>2. s = k * B  BY <1>2, <3>1
    <3> QED  BY <2>2, <3>2, WholeSize
  <2>4. Running(e, q) /\ Others(dk, p, e, q, n) /\ Seen(e, q, n) = FileOf(s, w2)
    <3>1. OpenFile(dk, p, n, h, x, dom, size) /\ s \in Nat /\ e = WithData(dk, h, w2)
      BY <1>2, <1>9
    <3> QED  BY <1>4, <2>1, <2>2, <2>3, <3>1, RewriteFiles
  <2>5. PICK g : g = Seen(e, q, n)  OBVIOUS
  <2>6. Files!Truncate(f, g)
    <3>1. g = FileOf(s, w2)  BY <2>4, <2>5
    <3>2. g # NoFile /\ g.size = s  BY <1>2, <3>1, FileFields
    <3>3. g = Files!Shortened(f, s)  BY <1>7, <2>2, <3>1
    <3> QED  BY <1>2, <1>8, <3>2, <3>3 DEF Files!Truncate
  <2>7. \A m \in SqliteName \ {n} : Seen(e, q, m) = Seen(dk, p, m)  BY <2>4 DEF Others
  <2>8. Files!Operate  BY <1>2, <1>4, <1>6, <1>9, <2>4, <2>5, <2>6, <2>7, StepOne
  <2> QED  BY <1>2, <1>9, <2>4, <2>8 DEF FilesStep, Running, Files!Next
<1>10. CASE /\ e = WithData(dk, h, w1) /\ pool' = Down
            /\ cut' = [op |-> "truncate", name |-> n, size |-> s]
  <2>1. w1 = Resealed(x, dom, s) /\ IsData(w1) /\ AllAuthentic(w1, dom)  BY <1>1 DEF Cut
  <2>2. /\ \E end \in s .. size : Files!Wiped(FileOf(size, x), s, end) = FileOf(size, w1)
        /\ Holding(w1, size)
    BY <1>2, <1>3, <1>5, <2>1, ResealedBytes
  <2>3. PICK end \in s .. size : Files!Wiped(f, s, end) = FileOf(size, w1)  BY <1>7, <2>2
  <2>4. PICK g : g = FileOf(size, w1)  OBVIOUS
  <2>5. DiskOK(e) /\ Ended(dk, p, e, n) /\ View(e, Down, n) = Files!Kept(n, g)
    <3>1. OpenFile(dk, p, n, h, x, dom, size) /\ e = WithData(dk, h, w1)  BY <1>2, <1>10
    <3> QED  BY <1>3, <1>4, <2>1, <2>2, <2>4, <3>1, RewriteCut
  <2>6. PICK r : r = [op |-> "truncate", name |-> n, size |-> s]  OBVIOUS
  <2>7. r.op = "truncate" /\ r.op # "none" /\ r.name = n /\ r.size = s  BY <2>6
  <2>8. g \in Files!Partial(r, f)
    <3>1. Files!Partial(r, f) = {Files!Wiped(f, r.size, a) : a \in r.size .. f.size}
      BY <2>7 DEF Files!Partial
    <3> QED  BY <1>8, <2>3, <2>4, <2>7, <3>1
  <2> QED  BY <1>2, <1>4, <1>6, <1>10, <2>5, <2>6, <2>7, <2>8, Interrupts
<1> QED  BY <1>1, <1>9, <1>10 DEF Cut

\* New data for an opaque file, whatever they are.
LEMMA DataPut ==
    ASSUME NEW dk, DiskOK(dk), NEW h \in Handle, NEW x, NEW e, e = WithData(dk, h, x)
    PROVE  /\ e[h].name = dk[h].name /\ e[h].data = x
           /\ \A g \in Handle \ {h} : e[g] = dk[g]
<1>1. dk = [g \in Handle |-> dk[g]] /\ IsOpaque(dk[h])  BY DEF DiskOK
<1>2. PICK m, n, y : dk[h] = [made |-> m, name |-> n, data |-> y]  BY <1>1, OpaqueFields
<1>3. [dk[h] EXCEPT !.data = x] = [made |-> m, name |-> n, data |-> x]  BY <1>2, OpaqueExcept
<1>4. e[h] = [made |-> m, name |-> n, data |-> x]  BY <1>1, <1>3 DEF WithData
<1>5. \A g \in Handle \ {h} : e[g] = dk[g]  BY <1>1 DEF WithData
<1> QED  BY <1>2, <1>4, <1>5

\* An unwritten block reads as zeros.
LEMMA BlankBlock ==
    ASSUME NEW x, x = PhysTruncated(Empty, 1)
    PROVE  x.len = 1 /\ PhysicalSize(x) = B /\ FileOf(B, x) = Files!Blank(B)
<1>1. 1 * B = B /\ B \in Nat \ {0}  BY BAssumption
<1>2. x.len = 1 /\ x.at = [k \in 0 .. 0 |-> IF k < Empty.len THEN Empty.at[k] ELSE Hole]
  BY DEF PhysTruncated
<1>3. x.at[0] = Hole  BY <1>2, EmptyData
<1>4. ASSUME NEW i \in 0 .. B - 1 PROVE ByteAt(x, i) = 0
  <2>1. PICK k \in Nat, j \in 0 .. B - 1 : k = i \div B /\ j = i % B /\ i = k * B + j /\ k * B \in Nat
    BY <1>1, InBlock
  <2>2. CASE k = 0
    <3>1. i \div B = 0 /\ i % B = j  BY <2>1, <2>2
    <3>2. ByteAt(x, i) = x.at[0].plain[j]  BY <1>2, <3>1 DEF ByteAt
    <3>3. Hole.plain = [a \in 0 .. B - 1 |-> 0]  BY DEF Hole
    <3> QED  BY <1>3, <2>1, <3>2, <3>3
  <2>3. CASE k > 0
    <3>1. 0 * B = 0  BY <1>1
    <3>2. 0 * B + B <= k * B  BY <2>3, BlockOrder
    <3> QED  BY <1>1, <2>1, <3>1, <3>2
  <2> QED  BY <2>2, <2>3
<1>5. FileOf(B, x) = Files!Blank(B)  BY <1>4 DEF FileOf, Files!Blank, Files!Bytes
<1> QED  BY <1>1, <1>2, <1>5 DEF PhysicalSize

\* One block of an import, as a file.
LEMMA ImageFile ==
    ASSUME NEW dom \in Doms, NEW v \in Byte, NEW w, w = Written(Empty, dom, 0, 1 * B, v, 0), IsData(w)
    PROVE  /\ PhysicalSize(w) = B
           /\ FileOf(B, w) = Files!Filled(Files!Blank(0), 0, B, v)
<1>1. 1 * B = B /\ 0 * B = 0 /\ B \in Nat \ {0}  BY BAssumption
<1>2. FirstBlock(0) = 0 /\ LastBlock(0, B) = 0
  <2>1. ASSUME NEW i \in 0 .. B - 1 PROVE i \div B = 0
    <3>1. i \in Nat /\ i \div B \in Nat  BY <1>1, DivMod
    <3>2. ~(1 * B <= i)  BY <1>1
    <3>3. ~(1 <= i \div B)  BY <3>1, <3>2, BlockOf
    <3> QED  BY <3>1, <3>3
  <2>2. 0 \in 0 .. B - 1 /\ 0 + B - 1 \in 0 .. B - 1  BY <1>1
  <2> QED  BY <2>1, <2>2 DEF FirstBlock, LastBlock
<1>3. 0 \in FirstBlock(0) .. LastBlock(0, B) /\ Blocks(0) * B \in Nat  BY <1>2, BlocksHold
<1>4. w = Written(Empty, dom, 0, B, v, 0)  BY <1>1
<1>5. PICK end \in 0 + 1 .. 0 + B :
         /\ 0 = LastBlock(0, B) => end = 0 + B
         /\ Files!Filled(FileOf(0, Empty), 0, end, v) = FileOf(Larger(0, end), w)
         /\ Holding(w, Larger(0, end))
  BY <1>1, <1>3, <1>4, EmptyData, HoldingEmpty, WrittenBytes
<1>6. end = B /\ Larger(0, end) = B  BY <1>1, <1>2, <1>5 DEF Larger
<1>7. Holding(w, 1 * B)  BY <1>1, <1>5, <1>6
<1>8. PhysicalSize(w) = B  BY <1>1, <1>7, WholeSize
<1> QED  BY <1>5, <1>6, <1>8, EmptyFile

LEMMA ImportFiles ==
    ASSUME FilesInv, NEW n, NEW v \in Byte, NEW dk, NEW p, NEW e, NEW p1, NEW e1, NEW h, NEW p2,
           NEW e2, NEW r, Imported(dk, p, n, v, e, p1, e1, h, p2, e2, r)
    PROVE  FilesStep
<1>1. /\ dk = disk /\ p = pool /\ e = disk' /\ DiskOK(dk) /\ MemoryOK(dk, p) /\ p.up
      /\ p.open = {} /\ n \in Mains
      /\ p.map[n] = NoHandle => p1 = p /\ e1 = dk
      /\ p.map[n] # NoHandle => p1 = Unlinked(p, n) /\ e1 = PutFile(dk, p.map[n], Fresh)
      /\ DiskOK(e1) /\ MemoryOK(e1, p1) /\ p1.up /\ p1.avail # <<>> /\ p1.map[n] = NoHandle
      /\ h = Last(p1.avail) /\ p2 = Linked(p1, n) /\ e2 = LinkDisk(e1, p1, n)
      /\ p2.map[n] = h /\ DiskOK(e) /\ MemoryOK(e, pool')
      /\ r = [op |-> "import", name |-> n, size |-> 1 * B]
  BY DEF Imported
<1>2. n \in SqliteName /\ n \in Name /\ n \notin Temps  BY <1>1, NameFacts DEF SqliteName, Mains, Temps
<1>3. Running(dk, p)  BY <1>1, WhileUp
<1>4. /\ Running(e1, p1) /\ Others(dk, p, e1, p1, n) /\ p1.open = {}
      /\ View(e1, Down, n) = NoFile
  <2>1. CASE p.map[n] = NoHandle
    <3>1. p1 = p /\ e1 = dk  BY <1>1, <2>1
    <3>2. \A g \in Handle : dk[g].name # n  BY <1>1, <1>2, <2>1, Unnamed
    <3>3. View(dk, Down, n) = NoFile  BY <1>1, <1>2, <3>2, DownView
    <3> QED  BY <1>1, <1>3, <3>1, <3>3 DEF Others
  <2>2. CASE p.map[n] # NoHandle
    <3>1. PICK g, u : g = p.map[n] /\ u = WithData(dk, g, Empty)  OBVIOUS
    <3>2. p1 = Unlinked(p, n) /\ e1 = PutFile(dk, g, Fresh) /\ n \notin p.open  BY <1>1, <2>2, <3>1
    <3>3. Running(e1, p1) /\ Others(dk, p, e1, p1, n) /\ View(e1, Down, n) = NoFile
      BY <1>2, <1>3, <2>2, <3>1, <3>2, UnlinkFiles
    <3>4. p1.open = p.open  BY <1>1, <1>2, <2>2, <3>1, <3>2, UnlinkOK
    <3> QED  BY <1>1, <3>3, <3>4
  <2> QED  BY <2>1, <2>2
<1>5. /\ h \in Handle /\ DiskOK(e2) /\ MemoryOK(e2, p2) /\ p2.up /\ e2[h].name = n /\ p2.open = {}
  BY <1>1, <1>2, <1>4, LinkOK
<1>6. h # NoHandle  BY <1>5, PoolAssumption
<1>7. /\ Running(e2, p2) /\ Others(dk, p, e2, p2, n) /\ Seen(e2, p2, n) = Files!Blank(0)
  <2>1. Running(e2, p2) /\ Others(e1, p1, e2, p2, n) /\ Seen(e2, p2, n) = Files!Blank(0)
    BY <1>1, <1>2, <1>4, LinkFiles
  <2> QED  BY <1>4, <2>1 DEF Others
<1>8. ASSUME pool' = p2, cut' = NoRequest, NEW dom \in Doms,
             e = WithData(e2, h, Written(Empty, dom, 0, 1 * B, v, 0))
      PROVE  FilesStep
  <2>1. PICK w : w = Written(Empty, dom, 0, 1 * B, v, 0)  OBVIOUS
  <2>2. e[h].name = n /\ e[h].data = w /\ \A g \in Handle \ {h} : e[g] = e2[g]
    BY <1>5, <1>8, <2>1, DataPut
  <2>3. MemoryOK(e, p2)  BY <1>1, <1>8
  <2>4. IsData(w)  BY <1>1, <1>2, <1>5, <1>6, <2>2, <2>3, Holds
  <2>5. PhysicalSize(w) = B /\ FileOf(B, w) = Files!Filled(Files!Blank(0), 0, B, v)
    BY <2>1, <2>4, ImageFile
  <2>6. ASSUME NEW m \in SqliteName \ {n} PROVE Same(e2, p2, e, p2, m)
    <3>1. m \in Name \ {n}  BY NameFacts
    <3>2. p2.map[m] # h  BY <1>1, <1>2, <1>5, <1>6, <3>1, Holds
    <3> QED  BY <1>5, <2>2, <3>1, <3>2, OtherHandle
  <2>7. ExactAt(e, p2, n)  BY <1>1, <1>5 DEF ExactAt
  <2>8. Running(e, p2) /\ Others(e2, p2, e, p2, n)
    <3>1. DiskOK(e) /\ p2.open \subseteq p2.open \cup {n}  BY <1>1
    <3> QED  BY <1>5, <1>7, <2>3, <2>6, <2>7, <3>1, KeepsOthers
  <2>9. \A m \in SqliteName \ {n} : Seen(e, p2, m) = Seen(dk, p, m)  BY <1>7, <2>8 DEF Others
  <2>10. PICK f, g : f = Seen(dk, p, n) /\ g = Seen(e, p2, n)  OBVIOUS
  <2>11. g = FileOf(B, w)
    <3>1. SeenSize(e, p2, n) = B  BY <1>1, <2>2, <2>5 DEF SeenSize
    <3> QED  BY <1>1, <1>6, <2>2, <2>10, <3>1 DEF Seen
  <2>12. Files!Import(g)
    <3>1. g # NoFile /\ g.size = B  BY <2>11, BAssumption, FileFields
    <3> QED  BY <2>5, <2>11, <3>1 DEF Files!Import
  <2>13. Files!Operate  BY <1>1, <1>2, <1>3, <1>8, <2>8, <2>9, <2>10, <2>12, StepOne
  <2> QED  BY <1>1, <1>8, <2>8, <2>13 DEF FilesStep, Running, Files!Next
<1>9. r.op = "import" /\ r.op # "none" /\ r.name = n /\ r.size = B
  BY <1>1, BAssumption
<1>10. ASSUME pool' = Down, cut' = r,
              NEW f \in {NoFile, Files!Blank(0), Files!Blank(B)}, Ended(dk, p, e, n),
              View(e, Down, n) = Files!Kept(n, f)
       PROVE  FilesStep
  <2>1. f \in Files!Partial(r, Seen(dk, p, n))  BY <1>9, PartialOf
  <2> QED  BY <1>1, <1>2, <1>3, <1>9, <1>10, <2>1, Interrupts
<1>11. CASE pool' = Down /\ cut' = r /\ e = e2
  <2>1. Ended(dk, p, e, n)  BY <1>7, <1>11, EndsHere
  <2>2. ExactAt(e2, p2, n)  BY <1>2, <1>7 DEF Running, Exact
  <2>3. View(e2, Down, n) = Files!Kept(n, Seen(e2, p2, n))  BY <1>2, <1>5, <2>2, RestsSame, Ends
  <2> QED  BY <1>7, <1>10, <1>11, <2>1, <2>3
<1>12. CASE pool' = Down /\ cut' = r /\ e = WithData(e2, h, PhysTruncated(Empty, 1))
  <2>1. PICK x : x = PhysTruncated(Empty, 1)  OBVIOUS
  <2>2. e[h].name = n /\ e[h].data = x /\ \A g \in Handle \ {h} : e[g] = e2[g]
    BY <1>5, <1>12, <2>1, DataPut
  <2>3. IsData(x)
    <3>1. IsOpaque(e[h])  BY <1>1, <1>5 DEF DiskOK
    <3> QED  BY <2>2, <3>1, OpaqueFields
  <2>4. Ended(e2, p2, e, n)  BY <1>1, <1>2, <1>5, <1>6, <1>7, <2>2, OnlyData
  <2>5. Ended(dk, p, e, n)  BY <1>7, <2>4 DEF Ended, Others
  <2>6. PhysicalSize(x) = B /\ FileOf(B, x) = Files!Blank(B)  BY <2>1, BlankBlock
  <2>7. View(e, Down, n) = FileOf(PhysicalSize(x), x)  BY <1>1, <1>2, <1>5, <2>2, DownView
  <2>8. Files!Kept(n, FileOf(B, x)) = FileOf(PhysicalSize(x), x)
    <3>1. Holding(x, B) /\ B \in Nat  BY <2>3, <2>6, HoldingWhole
    <3> QED  BY <1>2, <2>3, <3>1, PaddedFile
  <2> QED  BY <1>10, <1>12, <2>5, <2>6, <2>7, <2>8
<1>13. CASE pool' = Down /\ cut' = r /\ p.map[n] # NoHandle /\ e = WithData(dk, p.map[n], Empty)
  <2>1. PICK g : g = p.map[n]  OBVIOUS
  <2>2. p1 = Unlinked(p, n) /\ e1 = PutFile(dk, g, Fresh) /\ n \notin p.open  BY <1>1, <1>13, <2>1
  <2>3. Ended(dk, p, e, n) /\ (n \notin Temps => View(e, Down, n) = Files!Blank(0))
    BY <1>2, <1>3, <1>13, <2>1, <2>2, UnlinkFiles
  <2> QED  BY <1>2, <1>10, <1>13, <2>3, BlankAtEnd
<1>14. CASE pool' = Down /\ cut' = r /\ e = e1
  <2>1. Ended(dk, p, e, n)  BY <1>4, <1>14, EndsHere
  <2> QED  BY <1>4, <1>10, <1>14, <2>1, KeptNone
<1> QED  BY <1>8, <1>11, <1>12, <1>13, <1>14 DEF Imported

-----------------------------------------------------------------------------
(* The theorem *)

LEMMA FilesNext == FilesInv /\ [Next]_vars => FilesInv' /\ [Files!Next]_<<content, cut>>
<1> SUFFICES ASSUME FilesInv, [Next]_vars
             PROVE  FilesInv' /\ [Files!Next]_<<content, cut>>
  OBVIOUS
<1>1. PoolInv /\ PoolInv'  BY PoolStep DEF FilesInv
<1>2. CASE UNCHANGED vars
  <2>1. disk' = disk /\ pool' = pool /\ cut' = cut  BY <1>2 DEF vars
  <2>2. FilesInv'  BY <1>1, <2>1 DEF FilesInv
  <2>3. content' = content  BY <2>1, Viewed
  <2> QED  BY <2>1, <2>2, <2>3
<1>3. ASSUME FilesStep PROVE FilesInv' /\ [Files!Next]_<<content, cut>>
  BY <1>1, <1>3 DEF FilesStep, FilesInv
<1>4. ASSUME NEW clear \in BOOLEAN, Install(clear) PROVE FilesStep
  BY <1>1, <1>4, InstallOK, InstallFiles DEF Install
<1>5. AddCapacity \/ ReduceCapacity => FilesStep
  BY <1>1, AddCapacityOK, ReduceCapacityOK, SpareFiles
<1>6. Pause \/ Crash => FilesStep  BY StopFiles
<1>7. ASSUME NEW d \in Db, OpenMain(d) \/ OpenJournal(d) \/ DeleteJournal(d) PROVE FilesStep
  <2>1. CASE OpenMain(d)
    BY <2>1, OpenExistingMainFiles, OpenNewMainFiles, OpenLostMainFiles DEF OpenMain
  <2> QED  BY <1>7, <2>1, OpenJournalFiles, DeleteJournalFiles
<1>8. ASSUME NEW t \in Temp, OpenTemp(t) PROVE FilesStep  BY <1>8, OpenTempFiles
<1>9. ASSUME NEW n \in SqliteName, Close(n) PROVE FilesStep  BY <1>9, CloseStepFiles
<1>10. ASSUME NEW n \in SqliteName, NEW v \in Byte, NEW off \in 0 .. MaxSize(n) - 1,
              NEW len \in 1 .. MaxSize(n) - off, XWrite(n, off, len, v)
       PROVE  FilesStep
  BY <1>1, <1>10, XWriteDoes, XWriteFiles
<1>11. ASSUME NEW n \in SqliteName, NEW size \in 0 .. MaxSize(n), XTruncate(n, size) PROVE FilesStep
  BY <1>1, <1>11, XTruncateDoes, XTruncateFiles
<1>12. ASSUME NEW d \in Db, NEW v \in Byte, ImportFile(d, MaxSize(Main(d)) \div B, v) PROVE FilesStep
  BY <1>1, <1>12, ImportFileOK, ImportFiles
<1> QED
  BY <1>2, <1>3, <1>4, <1>5, <1>6, <1>7, <1>8, <1>9, <1>10, <1>11, <1>12 DEF Next

LEMMA FilesInit == Init => FilesInv /\ Files!Init
<1> SUFFICES ASSUME Init PROVE FilesInv /\ Files!Init
  OBVIOUS
<1>1. PoolInv  BY InitOK
<1>2. pool = Down /\ cut = NoRequest /\ disk = [h \in Handle |-> Unmade]  BY DEF Init
<1>3. FilesInv  BY <1>1, <1>2, DownOK DEF FilesInv
<1>4. DiskOK(disk) /\ \A h \in Handle : disk[h].name = NoName  BY <1>1, <1>2, FreshFile DEF PoolInv
<1>5. \A n \in SqliteName : View(disk, pool, n) = NoFile
  <2> TAKE n \in SqliteName
  <2>1. n # NoName  BY NameFacts
  <2>2. \A g \in Handle : disk[g].name # n  BY <1>4, <2>1
  <2> QED  BY <1>2, <1>4, <2>2, DownView
<1>6. content = [n \in SqliteName |-> NoFile]  BY <1>5, Viewed
<1>7. Files!Init  BY <1>2, <1>6 DEF Files!Init, Files!NoRequest, NoRequest, content
<1> QED  BY <1>3, <1>7

\* Through blocks sealed one by one, read-modify-write of the blocks a write
\* covers in part, reused handles and a name that moves between them, each file
\* SQLite opens behaves as an array of bytes that one call at a time changes;
\* a power loss inside a call leaves a state that the call passes through on
\* bytes, padded with zeros to a whole block.
THEOREM PoolIsByteFiles == Spec => FilesSpec
<1>1. Init => FilesInv /\ Files!Init  BY FilesInit
<1>2. FilesInv /\ [Next]_vars => FilesInv' /\ [Files!Next]_<<content, cut>>  BY FilesNext
<1> QED  BY <1>1, <1>2, PTL DEF Spec, FilesSpec, Files!Spec, content
=============================================================================
