----------------------------- MODULE MCImports -----------------------------
(***************************************************************************)
(* Small instances of Imports. Forwarders: three of them with every        *)
(* combination of targets, so chains of every length and cycles. Images:   *)
(* four slots that hold exports, thunks, addresses of nothing and zeros in *)
(* every combination, read as each kind of table.                          *)
(***************************************************************************)
EXTENDS Imports

Export(rva, names, ordinal) ==
  [rva |-> rva, names |-> names, ordinal |-> ordinal, forwarded |-> FALSE, target |-> Unreadable]
Forwarded(target, names, ordinal) ==
  [rva |-> 1, names |-> names, ordinal |-> ordinal, forwarded |-> TRUE, target |-> target]
\* One slot more is captured than the header tells.
Module(name, base, exports) == [name |-> name, base |-> base, length |-> 9, declared |-> 8, exports |-> exports]

Ntdll == Module("ntdll", 40, <<Export(1, <<"A">>, "#1"), Export(2, <<"?D", "B">>, "#2"), Export(3, <<>>, "#99999"),
                               Export(0, <<"Z">>, "#4"), Export(8, <<"Y">>, "#5")>>)
Kernel == Module("kernel", 20, <<Export(1, <<"K">>, "#1"), Forwarded(<<"ntdll", "A">>, <<"F">>, "#2"),
                                 Forwarded(<<"ntdll", "B">>, <<>>, "#3")>>)
App == Module("app", 100, <<Export(1, <<"Main">>, "#1")>>)
\* A second copy of the ntdll code at the same place, under other names.
Twin == Module("twin", 39, <<Export(2, <<"T">>, "#1")>>)

Targets == {<<"a", "X">>, <<"b", "#2">>, <<"b", "Y">>, <<"a", "#2">>, <<"api-x", "E">>, <<"c", "X">>, Garbled, Unreadable}
Chains ==
  {<<Module("a", 10, <<Export(1, <<"E">>, "#1"), Forwarded(t, <<"X">>, "#2")>>),
     Module("b", 20, <<Forwarded(u, <<"Y">>, "#1"), Export(1, <<e>>, "#2")>>),
     Module("c", 30, <<Forwarded(v, <<"X", "W">>, "#1")>>)>> :
     t \in Targets, u \in Targets, v \in Targets, e \in {"E", "V"}}
Loaded == <<Ntdll, Kernel, App>>
WithTwin == <<Twin, Kernel, Ntdll>>
MCNames == <<"app", "kernel", "ntdll", "twin">>

-----------------------------------------------------------------------------
NtA == 41   NtB == 42   NtOrdinal == 43   KernelK == 21
NoCode == 47   Undeclared == 48   Nothing == 70   Stub == 102   Loop == 103   OwnExport == 101   NoStub == 110

Section(start, end, data, imports) == [start |-> start, end |-> end, data |-> data, imports |-> imports]
Reference(slot, called) == [slot |-> slot, called |-> called]
Table(start, names) == [start |-> start, names |-> names, readable |-> TRUE]
Descriptor(first, thunks, readable) == [first |-> first, thunks |-> thunks, readable |-> readable]
Span(start, end) == [start |-> start, end |-> end]
Packer(kind) == [kind |-> kind, modules |-> <<>>]
Jump(slot) == [slot |-> slot, to |-> Nowhere]
Leave(to) == [slot |-> Nowhere, to |-> to]

\* Code in slots 0 to 3, data in 4 to 9; slots 5 to 8 hold p, q, r and s.
Memory(p, q, r, s) ==
  [base |-> 100, cells |-> [k \in 0..9 |-> CASE k = 5 -> p [] k = 6 -> q [] k = 7 -> r [] k = 8 -> s
                                              [] k \in 0..3 -> KernelK [] OTHER -> 0],
   stubs |-> [k \in {2, 3} |-> IF k = 2 THEN Jump(7) ELSE Leave(103)],
   sections |-> <<Section(0, 4, FALSE, FALSE), Section(4, 10, TRUE, FALSE)>>,
   iat |-> Span(0, 0), delay |-> <<>>, descriptors |-> <<>>, orphans |-> <<>>,
   code |-> <<Reference(7, FALSE), Reference(5, TRUE), Reference(7, TRUE), Reference(1, TRUE), Reference(8, FALSE), Reference(6, TRUE)>>,
   guards |-> {}, own |-> "app", packer |-> Packer("None"), process |-> Loaded]

Values == {0, NtA, NtOrdinal, KernelK, Nothing, Stub}
Memories == {Memory(p, q, r, s) : p \in Values \ {Stub}, q \in Values, r \in (Values \ {Stub}) \cup {NtB}, s \in Values}
Odd == {Memory(p, q, r, s) : p \in {NtA, KernelK, OwnExport, NoStub}, q \in {NtB, Loop, NoCode, Undeclared}, r \in {0, KernelK, NtB}, s \in {0, NtB, Loop, NtA}}

AsIat(m) == [m EXCEPT !.iat = Span(5, 9)]
AsSection(m) == [m EXCEPT !.sections[2].imports = TRUE]
\* Nothing of the budget is left for the last table, if not for those before it.
AsDelay(m) == [m EXCEPT !.delay = <<[Table(4, 1) EXCEPT !.readable = FALSE], Table(5, 2), Table(8, 1), Table(5, 4)>>]
AsLongDelay(m) == [m EXCEPT !.delay = <<Table(5, 4), Table(8, 1)>>]
AsKept(m) == [m EXCEPT !.descriptors = <<Descriptor(4, 1, FALSE), Descriptor(5, 1, TRUE), Descriptor(7, 8, TRUE), Descriptor(8, 1, TRUE)>>]
AsOrphan(m) == [m EXCEPT !.orphans = <<Descriptor(5, 0, TRUE), Descriptor(6, 2, TRUE)>>, !.guards = {8}]
AsPacked(m, kind) == [AsDelay(m) EXCEPT !.packer = Packer(kind), !.iat = Span(5, 12)]

Function(kind, key, among) == [kind |-> kind, key |-> key, among |-> among]
List(name, first, functions) == [module |-> name, first |-> first, functions |-> functions]
Lists ==
  {<<List(n, 5, <<Function("Name", "A", {}), f, g>>)>> : n \in {None, "kernel"},
     f \in {Function("NameFromAddress", None, {}), Function("NameFromAddressAmong", None, {"B", "F"}),
            Function("OrdinalFromAddress", None, {}), Function("Ordinal", "#7", {})},
     g \in {Function("NameFromAddress", None, {}), Function("NameFromAddressAmong", None, {"A"})}}
\* Two lists, apart and one over the other.
TwoLists ==
  {<<List("ntdll", 5, <<Function("Name", "A", {}), Function("Name", "B", {})>>),
     List("kernel", second, <<Function("Name", "K", {}), Function("Ordinal", "#99999", {})>>)>> : second \in {6, 7}}
AsListed(m, list) == [m EXCEPT !.packer = [kind |-> "Listed", modules |-> list], !.delay = <<Table(8, 1)>>]
Listable == {Memory(p, q, r, s) : p \in {NtA, KernelK, Nothing}, q \in {NtA, NtB, Nothing}, r \in {NtA, NtOrdinal, KernelK}, s \in {0, NtA}}

\* Six imports, five more behind a zero or an import in its place, and code that calls
\* through each of them: more than the limit.
Wide(between, packer) ==
  [Memory(NtA, NtA, NtA, NtA) EXCEPT
     !.cells = [k \in 0..18 |-> CASE k = 11 -> between [] k \in (5..16) \ {11} -> IF k = 15 THEN KernelK ELSE NtA
                                  [] k \in 0..3 -> KernelK [] OTHER -> 0],
     !.sections = <<Section(0, 4, FALSE, FALSE), Section(4, 19, TRUE, FALSE)>>,
     !.iat = Span(5, 17), !.delay = <<Table(12, 5)>>, !.code = [k \in 1..12 |-> Reference(17 - k, TRUE)],
     !.packer = packer]
LongList == [kind |-> "Listed", modules |-> <<List("ntdll", 5, [k \in 1..11 |-> Function("Name", "A", {})]),
                                             List("ntdll", 16, <<Function("Name", "A", {})>>)>>]
Wides == {Wide(b, p) : b \in {0, NtA}, p \in {Packer("None"), Packer("FilledIat"), LongList}}

Plain == Memory(NtA, NtB, 0, KernelK)
MCImages == UNION {
  {AsIat(m) : m \in UNION {Memories, Odd}}, {AsSection(m) : m \in Odd}, {AsDelay(AsSection(m)) : m \in Odd},
  {m \in Memories : m.cells[5] = NtA}, {AsDelay(m) : m \in Odd}, {AsLongDelay(m) : m \in Odd}, Wides,
  {AsKept(m) : m \in Odd}, {AsOrphan(m) : m \in Odd},
  {AsPacked(m, kind) : m \in Odd, kind \in {"Intact", "Unknown", "FilledIat"}},
  {AsListed(m, list) : m \in Listable, list \in UNION {Lists, TwoLists}},
  {[Plain EXCEPT !.process = c] : c \in Chains}, {[AsIat(m) EXCEPT !.process = WithTwin] : m \in Odd}}
=============================================================================
