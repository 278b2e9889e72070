------------------------- MODULE BlockDeviceProofs -------------------------
(***************************************************************************)
(* The block device is a byte array, for every block size: what write and  *)
(* truncate make of each byte, and that they keep every block authentic.   *)
(* The model checker shows the same for blocks of two bytes, in every      *)
(* sequence of operations (FilesSpec of Pool).                             *)
(***************************************************************************)
EXTENDS BlockDevice, TLAPS

Plain == [0 .. B - 1 -> Nat]

\* Data regions of L blocks whose domains are in D.
Region(D, L) ==
    [len : {L}, at : [0 .. L - 1 -> [dom : D, index : Nat, plain : Plain]]]

-----------------------------------------------------------------------------
(* Positions: byte i is byte i % B of block i \div B *)

LEMMA DivMod ==
    ASSUME NEW i \in Nat
    PROVE  /\ i \div B \in Nat /\ i % B \in 0 .. B - 1
           /\ i = (i \div B) * B + (i % B)
BY BAssumption, SMT

LEMMA BlockOrder ==
    ASSUME NEW k \in Int, NEW l \in Int, k < l
    PROVE  k * B + B <= l * B
<1>1. (l - k) * B >= B
    BY BAssumption, SMT
<1>2. (l - k) * B = l * B - k * B
    BY BAssumption, SMT
<1>3. l * B \in Int /\ k * B \in Int
    BY BAssumption, SMT
<1>. QED
    BY <1>1, <1>2, <1>3, BAssumption

\* A byte lies at or past a block's start exactly if its block number does.
LEMMA BlockOf ==
    ASSUME NEW i \in Nat, NEW k \in Int
    PROVE  k * B <= i <=> k <= i \div B
<1>. DEFINE q == i \div B
<1>1. q \in Nat /\ q * B \in Int /\ k * B \in Int /\ q * B <= i /\ i < q * B + B
    BY DivMod, BAssumption, SMT
<1>2. ASSUME k <= q PROVE k * B <= q * B
  <2>1. CASE k = q
      BY <2>1, <1>1
  <2>2. CASE k < q
    <3>1. k * B + B <= q * B
        BY <1>1, <2>2, BlockOrder
    <3>. QED
        BY <1>1, <3>1, BAssumption
  <2>. QED
      BY <1>1, <1>2, <2>1, <2>2
<1>3. ASSUME q < k PROVE i < k * B
  <2>1. q * B + B <= k * B
      BY <1>1, <1>3, BlockOrder
  <2>. QED
      BY <1>1, <2>1, BAssumption
<1>. HIDE DEF q
<1>4. (k * B <= i) <=> (k <= q)
    BY <1>1, <1>2, <1>3
<1>. QED
    BY <1>4 DEF q

LEMMA SealFields ==
    ASSUME NEW dom, NEW k, NEW p
    PROVE  /\ Seal(dom, k, p).plain = p
           /\ Authentic(dom, k, Seal(dom, k, p))
BY DEF Seal, Authentic

-----------------------------------------------------------------------------
(* write *)

\* When no block of the range fails to authenticate, the loop reaches the
\* last one.
LEMMA WritesAll ==
    ASSUME NEW D, NEW L \in Nat, NEW d \in Region(D, L), NEW dom \in D,
           NEW off \in Nat, NEW n \in Nat \ {0}, AllAuthentic(d, dom)
    PROVE  WritesUpTo(d, dom, off, n) = LastBlock(off, n)
<1>. DEFINE F == FirstBlock(off)
            E == LastBlock(off, n)
<1>1. F \in Nat /\ E \in Nat /\ F <= E
  <2>1. off + n - 1 \in Nat /\ off <= off + n - 1
      OBVIOUS
  <2>2. F \in Nat /\ E \in Nat /\ F * B <= off
      BY <2>1, DivMod, BAssumption DEF FirstBlock, LastBlock
  <2>3. F * B \in Int
      BY <2>2, BAssumption, SMT
  <2>4. F * B <= off + n - 1
      BY <2>1, <2>2, <2>3
  <2>. QED
      BY <2>1, <2>2, <2>4, BlockOf DEF LastBlock
<1>2. \A k \in F .. E : ~RmwFails(d, dom, k, off, n)
    BY <1>1 DEF RmwFails, AllAuthentic, Region
<1>. DEFINE P(s) == /\ \A k \in F .. s : ~RmwFails(d, dom, k, off, n)
                    /\ s = E \/ RmwFails(d, dom, s + 1, off, n)
<1>. HIDE DEF F, E
<1>3. E \in F - 1 .. E /\ P(E)
    BY <1>1, <1>2
<1>4. \A s \in F - 1 .. E : P(s) => s = E
  <2>1. SUFFICES ASSUME NEW s \in F - 1 .. E, P(s), s # E PROVE FALSE
      OBVIOUS
  <2>2. s + 1 \in F .. E
      BY <1>1, <2>1
  <2>. QED
      BY <1>2, <2>1, <2>2
<1>5. WritesUpTo(d, dom, off, n) = CHOOSE s \in F - 1 .. E : P(s)
    BY DEF WritesUpTo, F, E
<1>. HIDE DEF P
<1>. QED
    BY <1>3, <1>4, <1>5 DEF E

\* write(): afterwards the bytes of the range read as written and every other
\* byte as before, however the range lies across block boundaries; no block
\* is left that does not authenticate.  SQLite leaves no gap of a whole block
\* behind the end of a file (see Pool).
THEOREM ReadsWhatWasWritten ==
    ASSUME NEW D, NEW L \in Nat, NEW d \in Region(D, L), NEW dom \in D,
           NEW off \in Nat, NEW n \in Nat \ {0}, NEW v \in Nat,
           off <= L * B
    PROVE  LET w == Written(d, dom, off, n, v, LastBlock(off, n))
           IN  /\ \A i \in Nat : ByteAt(w, i) = IF off <= i /\ i < off + n THEN v ELSE ByteAt(d, i)
               /\ AllAuthentic(d, dom) => AllAuthentic(w, dom)
<1>. DEFINE F == FirstBlock(off)
            E == LastBlock(off, n)
            w == Written(d, dom, off, n, v, E)
<1>1. off + n - 1 \in Nat /\ F \in Nat /\ E \in Nat
    BY DivMod DEF FirstBlock, LastBlock
<1>2. F <= L
  <2>1. F * B <= off /\ F * B \in Int /\ L * B \in Int
      BY <1>1, DivMod, BAssumption, SMT DEF FirstBlock
  <2>2. CASE L < F
    <3>1. L * B + B <= F * B
        BY <1>1, <2>2, BlockOrder
    <3>. QED
        BY <2>1, <3>1, BAssumption
  <2>. QED
      BY <1>1, <2>2
<1>3. d.len = L /\ \A k \in 0 .. L - 1 : d.at[k].plain \in Plain
    BY DEF Region
<1>4. w.len \in Nat /\ L <= w.len /\ E + 1 <= w.len /\ (w.len = L \/ w.len = E + 1)
    BY <1>1, <1>3 DEF Written, Larger
<1>5. \A k \in 0 .. w.len - 1 :
        /\ F <= k /\ k <= E => w.at[k] = Seal(dom, k, Overlay(d, k, off, n, v))
        /\ ~(F <= k /\ k <= E) => w.at[k] = d.at[k]
    BY DEF Written
<1>. HIDE DEF w, F, E
<1>6. ASSUME NEW i \in Nat
      PROVE  ByteAt(w, i) = IF off <= i /\ i < off + n THEN v ELSE ByteAt(d, i)
  <2>. DEFINE k == i \div B
              j == i % B
  <2>1. k \in Nat /\ j \in 0 .. B - 1 /\ i = k * B + j
      BY DivMod
  <2>2. CASE F <= k /\ k <= E
    <3>1. k \in 0 .. w.len - 1
        BY <1>1, <1>4, <2>1, <2>2
    <3>2. w.at[k] = Seal(dom, k, Overlay(d, k, off, n, v))
        BY <1>5, <2>2, <3>1
    <3>3. w.at[k].plain = Overlay(d, k, off, n, v)
        BY <3>2, SealFields
    <3>4. ByteAt(w, i) = w.at[k].plain[j]
        BY <1>4, <3>1 DEF ByteAt
    <3>5. Overlay(d, k, off, n, v)[j] = IF off <= i /\ i < off + n THEN v ELSE ByteAt(d, i)
        BY <2>1 DEF Overlay
    <3>. QED
        BY <3>3, <3>4, <3>5
  <2>3. CASE ~(F <= k /\ k <= E)
    <3>1. ~(off <= i /\ i < off + n)
      <4>1. ASSUME off <= i PROVE F <= k
        <5>1. F * B <= off /\ F * B \in Int
            BY <1>1, DivMod, BAssumption, SMT DEF FirstBlock, F
        <5>2. F * B <= i
            BY <4>1, <5>1
        <5>. QED
            BY <1>1, <5>2, BlockOf
      <4>2. ASSUME i < off + n PROVE k <= E
        <5>1. k * B <= i /\ k * B \in Int
            BY <2>1, BAssumption, SMT
        <5>2. k * B <= off + n - 1
            BY <4>2, <5>1
        <5>. QED
            BY <1>1, <2>1, <5>2, BlockOf DEF LastBlock, E
      <4>. QED
          BY <2>3, <4>1, <4>2
    <3>2. CASE k < w.len
      <4>1. k < L
          BY <1>1, <1>2, <1>4, <2>1, <2>3, <3>2
      <4>2. w.at[k] = d.at[k]
          BY <1>1, <1>4, <1>5, <2>1, <2>3, <3>2
      <4>. QED
          BY <1>3, <3>1, <3>2, <4>1, <4>2 DEF ByteAt
    <3>3. CASE ~(k < w.len)
      <4>1. ~(k < L)
          BY <1>4, <2>1, <3>3
      <4>. QED
          BY <1>3, <3>1, <3>3, <4>1 DEF ByteAt
    <3>. QED
        BY <3>2, <3>3
  <2>. QED
      BY <2>2, <2>3
<1>7. ASSUME AllAuthentic(d, dom) PROVE AllAuthentic(w, dom)
  <2>1. SUFFICES ASSUME NEW k \in 0 .. w.len - 1 PROVE Authentic(dom, k, w.at[k])
      BY DEF AllAuthentic
  <2>2. CASE F <= k /\ k <= E
      BY <1>5, <2>1, <2>2, SealFields
  <2>3. CASE ~(F <= k /\ k <= E)
    <3>1. k \in 0 .. L - 1
        BY <1>1, <1>2, <1>4, <2>1, <2>3
    <3>. QED
        BY <1>3, <1>5, <1>7, <2>1, <2>3, <3>1 DEF AllAuthentic
  <2>. QED
      BY <2>2, <2>3
<1>. QED
    BY <1>6, <1>7 DEF w, E

-----------------------------------------------------------------------------
(* truncate *)

LEMMA BlocksCover ==
    ASSUME NEW size \in Nat
    PROVE  /\ Blocks(size) \in Nat
           /\ \A i \in Nat : i < size => i \div B < Blocks(size)
           /\ \A i \in Nat : size <= i /\ i \div B < Blocks(size) =>
                  i \div B = size \div B /\ size % B # 0
           /\ \A L \in Nat : size <= L * B => Blocks(size) <= L
<1>. DEFINE c == Blocks(size)
            q == size \div B
<1>1. size + B - 1 \in Nat
    BY BAssumption
<1>2. /\ c \in Nat /\ q \in Nat /\ c * B \in Int /\ q * B \in Int
      /\ q * B <= size /\ size < q * B + B
    BY <1>1, DivMod, BAssumption, SMT DEF Blocks
<1>3. c * B <= size + B - 1 /\ size + B - 1 < c * B + B
    BY <1>1, DivMod, BAssumption, SMT DEF Blocks
<1>4. (c - 1) * B = c * B - B
    BY <1>2, BAssumption, SMT
<1>5. size <= c * B /\ c * B - B < size
    BY <1>2, <1>3, BAssumption
<1>6. ASSUME NEW i \in Nat, i < size PROVE i \div B < c
  <2>1. ~(c * B <= i)
      BY <1>2, <1>5, <1>6
  <2>. QED
      BY <1>2, <2>1, BlockOf, DivMod
<1>7. ASSUME NEW i \in Nat, size <= i, i \div B < c
      PROVE  i \div B = q /\ size % B # 0
  <2>1. q <= i \div B
    <3>1. q * B <= i
        BY <1>2, <1>7
    <3>. QED
        BY <1>2, <3>1, BlockOf
  <2>2. c - 1 <= q
    <3>1. (c - 1) * B <= size
        BY <1>2, <1>4, <1>5, BAssumption
    <3>. QED
        BY <1>2, <3>1, BlockOf
  <2>3. i \div B = q /\ q = c - 1
      BY <1>2, <1>7, <2>1, <2>2, DivMod
  <2>4. size # q * B
      BY <1>2, <1>4, <1>5, <2>3
  <2>5. size = q * B + (size % B)
      BY DivMod
  <2>. QED
      BY <1>2, <2>3, <2>4, <2>5
<1>8. ASSUME NEW L \in Nat, size <= L * B PROVE c <= L
  <2>1. CASE L < c
    <3>1. L * B + B <= c * B
        BY <1>2, <2>1, BlockOrder
    <3>2. L * B \in Int
        BY <1>8, BAssumption, SMT
    <3>. QED
        BY <1>2, <1>5, <1>8, <3>1, <3>2, BAssumption
  <2>. QED
      BY <1>2, <1>8, <2>1
<1>. QED
    BY <1>2, <1>6, <1>7, <1>8

\* What sealing the kept tail block again makes of the region.
LEMMA ResealedRegion ==
    ASSUME NEW D, NEW L \in Nat, NEW d \in Region(D, L), NEW dom \in D, NEW size \in Nat,
           NEW r, r = Resealed(d, dom, size)
    PROVE  /\ r.len = L
           /\ \A k \in 0 .. L - 1 :
                 /\ ~(HasTail(d, size) /\ k = size \div B) => r.at[k] = d.at[k]
                 /\ HasTail(d, size) /\ k = size \div B =>
                       /\ Authentic(dom, k, r.at[k])
                       /\ \A j \in 0 .. B - 1 :
                             r.at[k].plain[j] = IF j < size % B THEN d.at[k].plain[j] ELSE 0
<1>1. size \div B \in Nat
    BY DivMod
<1>2. d.len = L /\ d.at \in [0 .. L - 1 -> [dom : D, index : Nat, plain : Plain]]
    BY DEF Region
<1>3. CASE ~HasTail(d, size)
    BY <1>2, <1>3 DEF Resealed
<1>4. CASE HasTail(d, size)
  <2>. DEFINE q == size \div B
              p == [j \in 0 .. B - 1 |-> IF j < size % B THEN d.at[q].plain[j] ELSE 0]
              t == Seal(dom, q, p)
  <2>1. r = [d EXCEPT !.at[q] = t]
      BY <1>4 DEF Resealed
  <2>2. t.plain = p /\ Authentic(dom, q, t)
      BY SealFields
  <2>3. \A j \in 0 .. B - 1 : p[j] = IF j < size % B THEN d.at[q].plain[j] ELSE 0
      OBVIOUS
  <2>. HIDE DEF t, p
  <2>4. /\ [d EXCEPT !.at[q] = t].len = L
        /\ [d EXCEPT !.at[q] = t].at = [d.at EXCEPT ![q] = t]
      BY <1>2 DEF Region
  <2>5. \A k \in 0 .. L - 1 : [d.at EXCEPT ![q] = t][k] = IF k = q THEN t ELSE d.at[k]
      BY <1>2
  <2>6. /\ r.len = L
        /\ \A k \in 0 .. L - 1 : r.at[k] = IF k = q THEN t ELSE d.at[k]
      BY <2>1, <2>4, <2>5
  <2>. QED
      BY <1>4, <2>2, <2>3, <2>6
<1>. QED
    BY <1>3, <1>4

\* truncate(): the bytes kept read as before and every byte behind the new
\* end reads as zero, in the kept tail block too, so that a file that grows
\* again does not show what it held before; every block still authenticates.
THEOREM ForgetsWhatWasCut ==
    ASSUME NEW D, NEW L \in Nat, NEW d \in Region(D, L), NEW dom \in D,
           NEW size \in Nat, size <= L * B
    PROVE  LET t == Truncated(d, dom, size)
           IN  /\ \A i \in Nat : ByteAt(t, i) = IF i < size THEN ByteAt(d, i) ELSE 0
               /\ AllAuthentic(d, dom) => AllAuthentic(t, dom)
<1>. DEFINE c == Blocks(size)
            r == Resealed(d, dom, size)
            t == Truncated(d, dom, size)
<1>1. c \in Nat /\ c <= L
    BY BlocksCover
<1>0. r = Resealed(d, dom, size)
    OBVIOUS
<1>. HIDE DEF r
<1>2. /\ r.len = L
      /\ \A k \in 0 .. L - 1 :
            /\ ~(HasTail(d, size) /\ k = size \div B) => r.at[k] = d.at[k]
            /\ HasTail(d, size) /\ k = size \div B =>
                  /\ Authentic(dom, k, r.at[k])
                  /\ \A j \in 0 .. B - 1 :
                        r.at[k].plain[j] = IF j < size % B THEN d.at[k].plain[j] ELSE 0
    BY <1>0, ResealedRegion
<1>3. t.len = c /\ \A k \in 0 .. c - 1 : t.at[k] = r.at[k]
  <2>1. t = PhysTruncated(r, c)
      BY DEF Truncated, r
  <2>. HIDE DEF c
  <2>. QED
      BY <1>1, <1>2, <2>1 DEF PhysTruncated
<1>4. d.len = L
    BY DEF Region
<1>5. ASSUME NEW i \in Nat PROVE ByteAt(t, i) = IF i < size THEN ByteAt(d, i) ELSE 0
  <2>. DEFINE k == i \div B
              j == i % B
              q == size \div B
  <2>1. k \in Nat /\ j \in 0 .. B - 1 /\ i = k * B + j /\ k * B \in Int
      BY DivMod, BAssumption, SMT
  <2>2. q \in Nat /\ size % B \in 0 .. B - 1 /\ size = q * B + (size % B)
      BY DivMod
  <2>3. k = q => (i < size <=> j < size % B)
      BY <2>1, <2>2
  <2>. HIDE DEF k, j, q
  <2>4. CASE k < c
    <3>1. k \in 0 .. L - 1 /\ k \in 0 .. c - 1
        BY <1>1, <2>1, <2>4
    <3>2. ByteAt(t, i) = r.at[k].plain[j]
        BY <1>3, <2>4, <3>1 DEF ByteAt, k, j
    <3>3. ByteAt(d, i) = d.at[k].plain[j]
        BY <1>4, <3>1 DEF ByteAt, k, j
    <3>4. CASE HasTail(d, size) /\ k = q
      <4>1. r.at[k].plain[j] = IF j < size % B THEN d.at[k].plain[j] ELSE 0
          BY <1>2, <2>1, <3>1, <3>4 DEF q
      <4>. QED
          BY <2>3, <3>2, <3>3, <3>4, <4>1
    <3>5. CASE ~(HasTail(d, size) /\ k = q)
      <4>1. r.at[k].plain[j] = d.at[k].plain[j]
          BY <1>2, <3>1, <3>5 DEF q
      <4>2. i < size
        <5>1. SUFFICES ASSUME size <= i PROVE FALSE
            OBVIOUS
        <5>2. k = q /\ size % B # 0
            BY <2>4, <5>1, BlocksCover DEF k, q
        <5>. QED
            BY <1>4, <3>1, <3>5, <5>2 DEF HasTail, q
      <4>. QED
          BY <3>2, <3>3, <4>1, <4>2
    <3>. QED
        BY <3>4, <3>5
  <2>5. CASE ~(k < c)
    <3>1. ~(i < size)
        BY <2>5, BlocksCover DEF k
    <3>. QED
        BY <1>3, <2>5, <3>1 DEF ByteAt, k
  <2>. QED
      BY <2>4, <2>5
<1>6. ASSUME AllAuthentic(d, dom) PROVE AllAuthentic(t, dom)
  <2>1. SUFFICES ASSUME NEW k \in 0 .. c - 1 PROVE Authentic(dom, k, r.at[k])
      BY <1>3 DEF AllAuthentic
  <2>2. k \in 0 .. L - 1
      BY <1>1, <2>1
  <2>3. Authentic(dom, k, d.at[k])
      BY <1>4, <1>6, <2>2 DEF AllAuthentic
  <2>. QED
      BY <1>2, <2>2, <2>3
<1>. QED
    BY <1>5, <1>6
=============================================================================
