----------------------------- MODULE MCRebuild -----------------------------
(***************************************************************************)
(* Small instances of Rebuild: two sections of a few bytes in every        *)
(* position to each other and to the headers, and one image whose          *)
(* directories are whole, broken or absent.                                *)
(***************************************************************************)
EXTENDS Rebuild, TLC

Section(va, vs, raw, flags, name) == [va |-> va, vs |-> vs, raw |-> raw, flags |-> flags, name |-> name]
Region(from, to, access) ==
  [offset |-> from, size |-> to - from, readable |-> "r" \in access, writable |-> "w" \in access,
   executable |-> "x" \in access]
Dir(rva, n) == [rva |-> rva, size |-> n]
Block(page, n, expected) == [page |-> page, size |-> n, expected |-> expected]
Entry(begin, end, data, version) == [begin |-> begin, end |-> end, unwind |-> data, version |-> version]
Pointer(rva, at) == [rva |-> rva, pointer |-> at]

CapturedImage(ss, nonzero, regions, salvaged) ==
  [sections |-> ss, nonzero |-> nonzero, regions |-> regions, salvaged |-> salvaged,
   length |-> 13, size |-> 12, fileAlignment |-> 2, sectionAlignment |-> 4,
   dirs |-> [name \in {"import", "security"} |-> NoDirectory],
   dynamic |-> FALSE, unwind |-> <<>>, debug |-> <<>>, blocks |-> <<>>, wide |-> FALSE, high |-> FALSE]

Geometries ==
  {CapturedImage(<<Section(a, v, r, {"execute"}, Unreadable), Section(b, w, q, {"read"}, n)>>, z, m, s) :
     a \in {3, 4, 6}, v \in {0, 2}, r \in {0, 1, 3},
     b \in {4, 6, 8}, w \in {0, 3}, q \in {0, 2, 5}, n \in {Unreadable, 1},
     z \in {{}, {4, 7}, {5, 6, 10}}, m \in {{}, {Region(4, 9, {"r", "w"}), Region(9, 12, {"r", "x"})}},
     s \in {FALSE}}
  \cup {CapturedImage(<<Section(a, v, v, {}, Readable), Section(6, 2, 0, {}, Readable)>>, {3, 7}, m, TRUE) :
          a \in {3, 4}, v \in {0, 2}, m \in {{}, {Region(2, 9, {"r"})}}}
  \cup {[CapturedImage(<<Section(4, 2, 2, {}, Readable), Section(a, 0, 0, {}, Readable)>>, {4, 9},
                        {Region(4, 13, {"r"})}, FALSE) EXCEPT !.size = 8, !.length = l] :
          a \in {7, 10}, l \in {11, 13}}

\* Code at 6, data at 8: tables of every kind in the data section.
Directories ==
  {[CapturedImage(<<Section(8, 4, 4, {"read"}, Readable), Section(6, 2, 2, {"execute"}, Readable)>>,
                  {6, 8, 9}, {}, FALSE) EXCEPT
      !.dirs = ("import" :> i) @@ ("security" :> Dir(11, 2)) @@ ("reloc" :> r) @@ ("exception" :> e)
               @@ ("debug" :> g) @@ more,
      !.dynamic = TRUE, !.wide = w,
      !.blocks = <<Block(6, 1, TRUE), Block(8, 2, x)>>,
      !.unwind = <<Entry(6, 8, 8, TRUE), Entry(6, 7, 9, FALSE), Entry(7, 6, 8, TRUE)>>,
      !.debug = <<Pointer(9, 3), Pointer(0, 7)>>] :
     i \in {NoDirectory, Dir(9, 2), Dir(11, 5)},
     r \in {NoDirectory, Dir(9, 3), Dir(9, 2)}, x \in BOOLEAN,
     e \in {Dir(8, 4), Dir(8, 3), Dir(20, 4)}, w \in BOOLEAN,
     g \in {NoDirectory, Dir(10, 2)},
     more \in {<<>>, ("bound" :> Dir(4, 1)) @@ ("iat" :> Dir(10, 2)) @@ ("com" :> Dir(9, 1)),
               ("bound" :> Dir(2, 1)) @@ ("com" :> Dir(30, 1))}}

\* More relocation blocks than are walked, a base above 4 GiB, images with too few
\* directories for a certificate or an import table, and section names that leave one
\* replacement or none.
Limits ==
  LET code == Section(6, 2, 2, {"execute"}, Readable)
      m == CapturedImage(<<code, Section(8, 4, 4, {"read"}, Readable)>>, {6, 8, 9}, {}, FALSE)
  IN  {[m EXCEPT !.dynamic = TRUE, !.wide = w, !.high = h,
                 !.dirs = [name \in {"import", "reloc"} |-> IF name = "reloc" THEN Dir(8, 4) ELSE NoDirectory],
                 !.blocks = <<Block(6, 1, TRUE), Block(6, 1, TRUE), Block(8, 2, TRUE)>>] : w, h \in BOOLEAN}
      \cup {[m EXCEPT !.dirs = d] : d \in {<<>>, "import" :> NoDirectory}}
      \cup {[m EXCEPT !.sections = <<Section(6, 2, 2, {"execute"}, Unreadable), Section(8, 2, 2, {"read"}, 1),
                                     Section(10, 2, 2, {"read"}, n)>>] : n \in {4, Readable}}

NoImports == [tables |-> {}, existing |-> FALSE, keepIat |-> FALSE, recovered |-> 0, unrepresentable |-> 1,
              payload |-> 0, descriptors |-> 0, spelled |-> TRUE]
Imports(from, to, existing, spelled) ==
  [tables |-> {[start |-> from, end |-> to]}, existing |-> existing, keepIat |-> FALSE,
   recovered |-> to - from, unrepresentable |-> 0, payload |-> 3, descriptors |-> 2, spelled |-> spelled]

MCPlans == {NoImports, [NoImports EXCEPT !.existing = TRUE], Imports(6, 8, FALSE, TRUE),
            Imports(10, 12, TRUE, TRUE), Imports(10, 12, FALSE, FALSE)}
MCImages == Geometries \cup Directories \cup Limits
MCOverlays == {[length |-> 3, certificate |-> 2]}
=============================================================================
