------------------------------- MODULE MCCarve -------------------------------
(***************************************************************************)
(* Small instances of Carve: buffers of up to twelve units with PEs of two *)
(* to five of them that lie apart, in each other and over the end, and     *)
(* images with PEs in their section.                                       *)
(***************************************************************************)
EXTENDS Carve, TLC

Piece(va, vs, pointer, raw) == [va |-> va, vs |-> vs, pointer |-> pointer, raw |-> raw]
Header(ss, size, headers) ==
  [sections |-> ss, magic |-> "PE32", machine |-> "I386", optional |-> 0, fileAlignment |-> 1, sectionAlignment |-> 2,
   size |-> size, headers |-> headers, certificate |-> [at |-> 0, size |-> 0], dll |-> FALSE, subsystem |-> "gui"]
Small == Header(<<Piece(4, 1, 3, 1)>>, 6, 3)
Variants ==
  {Small, [Small EXCEPT !.headers = 2], [Small EXCEPT !.certificate = [at |-> 4, size |-> 1], !.dll = TRUE],
   [Small EXCEPT !.sections = <<Piece(4, 1, 3, 2), Piece(5, 1, 3, 0)>>, !.headers = 4, !.subsystem = "native"],
   [Small EXCEPT !.sections = <<Piece(4, 1, 0, 0)>>, !.headers = 1], [Small EXCEPT !.sections = <<Piece(4, 1, 2, 7)>>],
   \* its section lies behind the place it is stored at
   [Small EXCEPT !.sections = <<Piece(8, 1, 3, 1)>>, !.size = 10]}
Broken ==
  {[Small EXCEPT !.machine = "AMD64"], [Small EXCEPT !.magic = "rom"], [Small EXCEPT !.optional = 9], [Small EXCEPT !.sections = <<>>],
   [Small EXCEPT !.fileAlignment = 4], [Small EXCEPT !.fileAlignment = 2, !.sectionAlignment = 1], [Small EXCEPT !.size = 0],
   [Small EXCEPT !.size = 99], [Small EXCEPT !.sections = <<Piece(4, 3, 3, 1)>>],
   [Small EXCEPT !.sections = <<Piece(4, 2, 3, 1), Piece(5, 1, 3, 0)>>]}

\* Bytes with a DOS header at each of the starts, and an NT signature one behind.
Bytes12(starts, heads) ==
  [length |-> 12, mz |-> [at \in starts |-> 1], heads |-> [nt \in {at + 1 : at \in DOMAIN heads} |-> heads[nt - 1]]]
Buffered(bytes) == [source |-> "Buffer", bytes |-> bytes, own |-> None]
Pairs ==
  {Bytes12({a, b}, (a :> x) @@ (b :> y)) : a \in {0, 1}, b \in {2, 3, 4, 6, 8, 11}, x \in Variants, y \in Variants}
Many == {Bytes12(starts, [at \in starts |-> x]) : starts \in {{0, 4, 8}, {0, 3, 6, 9}, {1, 2, 3, 4, 5}}, x \in Variants \cup Broken}
Short == {[Bytes12({0}, 0 :> Small) EXCEPT !.length = n] : n \in 0..4}
Bare == Bytes12({0, 1, 2, 3, 11}, <<>>)

\* An image whose section begins at 4, with a PE stored there.
Mapped(lfanew, own, at, stored) ==
  [source |-> "Image", own |-> 1,
   bytes |-> [length |-> 12, mz |-> [a \in (IF lfanew = None THEN {} ELSE {0}) \cup {at} |-> IF a = 0 THEN lfanew ELSE 1],
              heads |-> [nt \in {at + 1} \cup {o \in {1} : own} |->
                           IF nt = 1 THEN Header(<<Piece(4, 7, 4, 7)>>, 12, 4) ELSE stored]]]
Images ==
  {Mapped(l, own, at, x) : l \in {1, 3, None}, own \in BOOLEAN, at \in {4, 5, 7}, x \in Variants \cup Broken}

MCBufferLists ==
  {<<Buffered(m)>> : m \in Pairs \cup Many \cup Short}
    \cup {<<i, Buffered(Bare), Buffered(Bytes12({2}, 2 :> Small))>> : i \in Images}
MCMinimum == [magic \in {"PE32", "PE32+"} |-> 0]
MCMachine == [magic \in {"PE32", "PE32+"} |-> IF magic = "PE32" THEN "I386" ELSE "AMD64"]
=============================================================================
