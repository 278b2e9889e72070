---------------------------- MODULE BlockDevice ----------------------------
(***************************************************************************)
(* The encrypted block device of crates/freehold/src/vfs.rs: SQLite's byte *)
(* offsets mapped onto sealed blocks of B bytes.  A file's data region is  *)
(* a run of whole physical blocks, [len, at], blocks numbered from 0; the  *)
(* byte size SQLite set is kept elsewhere, in memory only.                 *)
(*                                                                         *)
(* Sealing is ideal: a block authenticates under the domain (the key, with *)
(* the file's name) and at the index it was sealed for, and nowhere else.  *)
(* Writes fill a range with one byte: the arithmetic is about positions.   *)
(***************************************************************************)
EXTENDS Integers

CONSTANT B  \* bytes in a block: 4096 in the code

ASSUME BAssumption == B \in Nat \ {0}

Empty == [len |-> 0, at |-> [k \in {} |-> 0]]

\* Crypto::seal_into, open_into: key, file id and block index are bound in.
Seal(dom, k, plain) == [dom |-> dom, index |-> k, plain |-> plain]
Authentic(dom, k, block) == block.dom = dom /\ block.index = k

\* Blocks that phys_truncate adds when it extends a file: zeros, not sealed.
Hole == [dom |-> [unsealed |-> TRUE], index |-> 0, plain |-> [j \in 0 .. B - 1 |-> 0]]

AllAuthentic(d, dom) == \A k \in 0 .. d.len - 1 : Authentic(dom, k, d.at[k])

\* ensure_logical: what the physical size says when memory does not know.
PhysicalSize(d) == d.len * B

Larger(x, y) == IF x < y THEN y ELSE x

\* size.div_ceil(B)
Blocks(size) == (size + B - 1) \div B

\* read: byte i of the file; zero-filled past the physical end.
ByteAt(d, i) == IF i \div B < d.len THEN d.at[i \div B].plain[i % B] ELSE 0

-----------------------------------------------------------------------------
(* write *)

FirstBlock(off)   == off \div B
LastBlock(off, n) == (off + n - 1) \div B

\* A block the range covers only in part is read, changed and sealed again.
Whole(k, off, n) == off <= k * B /\ (k + 1) * B <= off + n
RmwFails(d, dom, k, off, n) ==
    ~Whole(k, off, n) /\ k < d.len /\ ~Authentic(dom, k, d.at[k])

\* The loop ends after this block: at the last one, or before the first that
\* does not authenticate.
WritesUpTo(d, dom, off, n) ==
    CHOOSE s \in FirstBlock(off) - 1 .. LastBlock(off, n) :
        /\ \A k \in FirstBlock(off) .. s : ~RmwFails(d, dom, k, off, n)
        /\ s = LastBlock(off, n) \/ RmwFails(d, dom, s + 1, off, n)

\* A plaintext buffer one byte too long.
OverlayLong(d, k, off, n, v) ==
    [j \in 0 .. B |-> IF off <= k * B + j /\ k * B + j < off + n
                      THEN v ELSE ByteAt(d, k * B + j)]

Overlay(d, k, off, n, v) ==
    [j \in 0 .. B - 1 |-> IF off <= k * B + j /\ k * B + j < off + n
                          THEN v ELSE ByteAt(d, k * B + j)]

\* The data region once the blocks up to `last' have been written.
Written(d, dom, off, n, v, last) ==
    LET len == Larger(d.len, last + 1)
    IN  [len |-> len,
         at |-> [k \in 0 .. len - 1 |->
                    IF FirstBlock(off) <= k /\ k <= last
                    THEN Seal(dom, k, Overlay(d, k, off, n, v))
                    ELSE d.at[k]]]

-----------------------------------------------------------------------------
(* truncate: the kept tail block is sealed again with its end zeroed, then
   the physical blocks behind it go *)

HasTail(d, size) == size % B # 0 /\ size \div B < d.len
TruncateFails(d, dom, size) ==
    HasTail(d, size) /\ ~Authentic(dom, size \div B, d.at[size \div B])

\* A truncate that only drops whole blocks.
NotResealed(d, dom, size) == d

Resealed(d, dom, size) ==
    LET k == size \div B
    IN  IF HasTail(d, size)
        THEN [d EXCEPT !.at[k] = Seal(dom, k,
                [j \in 0 .. B - 1 |-> IF j < size % B THEN d.at[k].plain[j] ELSE 0])]
        ELSE d

\* phys_truncate
PhysTruncated(d, len) ==
    [len |-> len, at |-> [k \in 0 .. len - 1 |-> IF k < d.len THEN d.at[k] ELSE Hole]]

Truncated(d, dom, size) == PhysTruncated(Resealed(d, dom, size), Blocks(size))
=============================================================================
