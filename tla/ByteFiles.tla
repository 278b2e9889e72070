----------------------------- MODULE ByteFiles -----------------------------
(***************************************************************************)
(* What the pool promises SQLite: named files of plain bytes.  Each        *)
(* operation changes one file, as it would change a byte array.  When a    *)
(* session ends the temporary files go, the others are padded with zeros   *)
(* to a whole block, and the one operation that a power loss interrupted,  *)
(* if there was one, may have been done in part.                           *)
(***************************************************************************)
EXTENDS Integers

CONSTANTS
    Name,       \* file names
    Temporary,  \* those opened with DELETEONCLOSE
    Byte,       \* the values of a byte; 0 is one of them
    B,          \* bytes in a block
    NoFile      \* the content of a file that does not exist

VARIABLES
    content,    \* content[n]: NoFile, or [size, byte] with bytes from 0
    cut         \* the request that the last step interrupted, or NoRequest

NoRequest == [op |-> "none"]

Bytes(size, At(_)) == [size |-> size, byte |-> [i \in 0 .. size - 1 |-> At(i)]]
Blank(size)  == Bytes(size, LAMBDA i : 0)
Padded(size) == ((size + B - 1) \div B) * B

\* f with bytes off .. end - 1 set to v; a gap reads as zeros.
Filled(f, off, end, v) ==
    Bytes(IF f.size < end THEN end ELSE f.size,
          LAMBDA i : IF off <= i /\ i < end THEN v
                     ELSE IF i < f.size THEN f.byte[i] ELSE 0)

Shortened(f, size) == Bytes(size, LAMBDA i : f.byte[i])

\* f with the bytes from `size' up to `end' already zeroed, none dropped.
Wiped(f, size, end) ==
    Bytes(f.size, LAMBDA i : IF size <= i /\ i < end THEN 0 ELSE f.byte[i])

\* What an interrupted request may leave of the file f it was for.
Partial(r, f) ==
    CASE r.op = "create"   -> {NoFile, Blank(0)}
      [] r.op = "delete"   -> {f, Blank(0), NoFile}
      [] r.op = "write"    -> {f} \cup {Filled(f, r.off, end, r.byte) :
                                        end \in r.off + 1 .. r.off + r.len}
      [] r.op = "truncate" -> {Wiped(f, r.size, end) : end \in r.size .. f.size}
      [] r.op = "import"   -> {f, NoFile, Blank(0), Blank(r.size)}

\* A file as the next session finds it.
Kept(n, f) ==
    IF n \in Temporary \/ f = NoFile THEN NoFile
    ELSE Filled(f, f.size, Padded(f.size), 0)

-----------------------------------------------------------------------------
Init == content = [n \in Name |-> NoFile] /\ cut = NoRequest

(* What each operation makes of its file: f before, g after. *)
Create(f, g) == f = NoFile /\ g = Blank(0)
Delete(f, g) == f # NoFile /\ g = NoFile
Import(g)    == g # NoFile /\ \E v \in Byte : g = Filled(Blank(0), 0, g.size, v)

Write(f, g) ==
    /\ f # NoFile /\ g # NoFile
    /\ \E off \in 0 .. Padded(f.size), v \in Byte :
           \E end \in off + 1 .. g.size : g = Filled(f, off, end, v)

Truncate(f, g) ==
    /\ f # NoFile /\ g # NoFile /\ g.size <= f.size
    /\ g = Shortened(f, g.size)

Operate ==
    /\ cut' = NoRequest
    /\ \E n \in Name : \E f \in {content[n]}, g \in {content'[n]} :
          /\ content' = [content EXCEPT ![n] = g]
          /\ Create(f, g) \/ Delete(f, g) \/ Import(g) \/ Write(f, g) \/ Truncate(f, g)

\* Everything is erased, as the first act of a session.
Clear == content' = [n \in Name |-> NoFile] /\ cut' = NoRequest

\* The session ends, on request or by a power loss.
Restart ==
    content' \in {[n \in Name |-> Kept(n, c[n])] :
                    c \in IF cut' = NoRequest THEN {content}
                          ELSE {[content EXCEPT ![cut'.name] = f] :
                                    f \in Partial(cut', content[cut'.name])}}

Next == Operate \/ Clear \/ Restart

Spec == Init /\ [][Next]_<<content, cut>>
=============================================================================
