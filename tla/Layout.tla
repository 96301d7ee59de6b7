------------------------------- MODULE Layout -------------------------------
(***************************************************************************)
(* pe/parse.rs, pe/image.rs and pe/rebuild/sections.rs: what makes a       *)
(* captured image a PE (parse_candidate), how its section sizes and flags  *)
(* are recovered from the memory around them (recover_section_headers),    *)
(* and where in the rebuilt file each section goes (build_output_buffer).  *)
(* Addresses count in bytes scaled down; a byte is zero or it is not.      *)
(***************************************************************************)
EXTENDS Sections, FiniteSets

CONSTANTS
  SectionHeader,  \* SECTION_HEADER_SIZE, 40 in the code
  TableStart,     \* where the section table begins: the end of the optional header
  PageSize,       \* PAGE_SIZE, 4 KiB in the code
  MaxSections,    \* MAX_SECTIONS, 128 in the code
  MaxRenames,     \* MAX_RENAME_ATTEMPTS, 64 in the code
  MaxOutput,      \* MAX_OUTPUT_SIZE, 1 GiB in the code
  Images          \* bound: the captured images

ASSUME SizesAssumption ==
  /\ SectionHeader \in Nat \ {0} /\ TableStart \in Nat \ {0} /\ PageSize \in Nat \ {0}
  /\ MaxSections \in Nat \ {0} /\ MaxRenames \in Nat \ {0} /\ MaxOutput \in Nat \ {0}

\* Section names: no text at all, a readable name, or .sec01, .sec02, ...
Unreadable == 0
Readable == -1

Flags == {"execute", "code", "read", "write"}

ASSUME ImagesAssumption == \A m \in Images :
  /\ m.fileAlignment \in Nat \ {0} /\ m.sectionAlignment \in Nat \ {0}
  /\ m.length \in Nat /\ m.size \in Nat
  /\ m.salvaged \in BOOLEAN /\ m.nonzero \in SUBSET Nat
  /\ m.sections \in Seq([va : Nat, vs : Nat, raw : Nat, flags : SUBSET Flags,
                         name : Int])

VARIABLES
  pc,          \* the step of rebuild_source
  image,       \* the captured bytes: [sections, length, nonzero, size, regions, ...]
  sections,    \* model.sections, as recovered
  headerSize,  \* header_size
  tables,      \* import_tables: the slots of every import group, [start, end]
  layouts,     \* layouts[i]: where section i goes, [length, offset, size]
  rawOffset    \* raw_offset: the end of what is laid out so far

layoutVars == <<image, sections, headerSize, tables, layouts, rawOffset>>

-----------------------------------------------------------------------------
Smaller(a, b) == IF a < b THEN a ELSE b
Larger(a, b) == IF a > b THEN a ELSE b
Least(S) == CHOOSE x \in S : \A y \in S : x <= y
Greatest(S) == CHOOSE x \in S : \A y \in S : x >= y

\* Mutant: sizes are not rounded up.
NotAligned(n, alignment) == n

AlignUp(n, alignment) == ((n + alignment - 1) \div alignment) * alignment

\* A position that is a multiple of the alignment.
Aligned(n, alignment) == \E k \in 0..n : n = k * alignment

Span(s) == Larger(s.vs, s.raw)

Indices == DOMAIN sections
TableEnd(ss) == TableStart + Len(ss) * SectionHeader

\* first_section_rva, or something beyond every address.
FirstRva(ss) ==
  LET mapped == {ss[i].va : i \in {j \in DOMAIN ss : MappedSize(ss[j]) # 0}}
  IN  IF mapped = {} THEN MaxOutput ELSE Least(mapped)

\* parse_memory_image: headers found by the scan must end before the first section.
Parses(m, ss, size) ==
  /\ Len(ss) \in 1..MaxSections
  /\ TableEnd(ss) <= m.length
  /\ size > 0 /\ size <= m.length
  /\ SectionsFit(ss, size)
  /\ m.salvaged => TableEnd(ss) <= FirstRva(ss)

-----------------------------------------------------------------------------
\* sort_unstable_by_key on a short list keeps the order of equal addresses.
Before(ss, i, j) == ss[i].va < ss[j].va \/ (ss[i].va = ss[j].va /\ i < j)

\* Mutant: the sections are taken in the order of the section table.
NextInTable(ss, i, end) == IF i + 1 \in DOMAIN ss THEN ss[i + 1].va ELSE end

\* The address of the section that follows i, which ends its room.
NextRva(ss, i, end) ==
  LET later == {ss[j].va : j \in {k \in DOMAIN ss : Before(ss, i, k)}}
  IN  IF later = {} THEN end ELSE Least(later)

\* Mutant: a section grows past the next one.
ExpandedFreely(m, s, limit) ==
  Span(s) + Cardinality({b \in (s.va + Span(s))..m.length : \E c \in m.nonzero : b <= c})

\* expanded_section_length: the section grows up to the last readable byte that
\* is not zero and lies before the limit.
Expanded(m, s, limit) ==
  LET seen == {c \in m.nonzero : c < limit /\ \E r \in m.regions :
                 r.readable /\ r.offset <= c /\ c < r.offset + r.size}
  IN  Span(s) + Cardinality({b \in (s.va + Span(s))..m.length : \E c \in seen : b <= c})

\* ProtectionCoverage::measure: the bytes of a section that regions rs cover.
Covered(s, to, rs) ==
  Cardinality({b \in s.va..(to - 1) : \E r \in rs : b \in r.offset..(r.offset + r.size - 1)})

\* recovered_characteristics and write_is_substantial.
RecoveredFlags(m, s, to) ==
  LET writable == Covered(s, to, {r \in m.regions : r.writable})
      size == to - s.va
      substantial == \/ writable >= size /\ Covered(s, to, m.regions) >= size
                     \/ writable >= 2 * PageSize /\ 2 * writable >= size
  IN  s.flags \cup (IF Covered(s, to, {r \in m.regions : r.executable}) > 0 THEN {"execute", "code"} ELSE {})
              \cup (IF Covered(s, to, {r \in m.regions : r.readable}) > 0 THEN {"read"} ELSE {})
              \cup (IF writable > 0 /\ substantial THEN {"write"} ELSE {})

\* recover_section_headers, one section.
RecoverSection(m, ss, i) ==
  LET s == ss[i]
      limit == Smaller(NextRva(ss, i, m.size), m.length)
      expanded == Expanded(m, s, limit)
  IN  IF m.regions = {} \/ s.va >= limit THEN s
      ELSE [s EXCEPT !.vs = IF expanded > Span(s) THEN expanded ELSE s.vs,
                     !.flags = RecoveredFlags(m, s, Smaller(s.va + expanded, limit))]

Recovered(m) == [i \in DOMAIN m.sections |-> RecoverSection(m, m.sections, i)]

\* SizeOfImage grows with a section that is expanded past it, which takes an empty
\* section behind the end of the image.
RecoveredSize(m) ==
  LET ends == {Recovered(m)[i].va + Recovered(m)[i].vs :
                 i \in {j \in DOMAIN m.sections : Recovered(m)[j].vs # m.sections[j].vs}}
      end == Greatest({m.size} \cup ends)
  IN  IF end > m.size THEN AlignUp(end, m.sectionAlignment) ELSE m.size

-----------------------------------------------------------------------------
\* header_size: room for the .mempe header if the first section leaves it.
HeaderSize(ss, alignment, reserve) ==
  LET minimum == AlignUp(TableEnd(ss), alignment)
      withRoom == AlignUp(TableEnd(ss) + SectionHeader, alignment)
  IN  IF reserve /\ withRoom <= FirstRva(ss) THEN withRoom ELSE minimum

\* rva_to_file.
Holds(i, rva) == layouts[i].size # 0 /\ rva \in sections[i].va..(sections[i].va + layouts[i].length - 1)
RvaToFile(rva) ==
  IF rva < headerSize THEN rva
  ELSE IF ~ \E i \in DOMAIN layouts : Holds(i, rva) THEN -1
  ELSE LET i == CHOOSE j \in DOMAIN layouts : Holds(j, rva)
       IN  layouts[i].offset + rva - sections[i].va

\* build_output_buffer: the end of the last section in the file.
OutputSize ==
  Greatest({headerSize} \cup {layouts[i].offset + layouts[i].size : i \in DOMAIN layouts})

\* write_sections: the size in the file replaces the raw size a section came with.
WrittenSection(i) == [sections[i] EXCEPT !.raw = layouts[i].size]

\* write_sections: the address whose byte each file position is copied from,
\* and -1 for padding.
CopiedFrom(position) ==
  LET at == {i \in DOMAIN layouts : /\ layouts[i].size # 0
                                    /\ position \in layouts[i].offset..(layouts[i].offset + layouts[i].length - 1)}
  IN  IF at # {} THEN LET i == CHOOSE j \in at : TRUE
                      IN  sections[i].va + position - layouts[i].offset
      ELSE IF position < Smaller(headerSize, image.length) THEN position
      ELSE -1

\* unique_replacement_name: the first of .secNN, .sec(NN + n), ... no other
\* section is named; a section keeps its name if all that are tried are taken.
Position(i) == Cardinality({j \in Indices : Before(sections, j, i)}) + 1
FinalName(i) ==
  LET free == {k \in 0..(MaxRenames - 1) :
                 \A j \in Indices \ {i} : sections[j].name # Position(i) + k * Len(sections)}
  IN  IF sections[i].name # Unreadable \/ free = {} THEN sections[i].name
      ELSE Position(i) + Least(free) * Len(sections)

-----------------------------------------------------------------------------
LayoutInit ==
  /\ pc = "parse"
  /\ image \in Images
  /\ sections = <<>> /\ headerSize = 0 /\ tables = {}
  /\ layouts = <<>> /\ rawOffset = 0

\* resolve_source_bytes without a packer, and the second parse in rebuild_source.
Parse ==
  /\ pc = "parse"
  /\ IF /\ Parses(image, image.sections, image.size)
        /\ Parses(image, Recovered(image), RecoveredSize(image))
       THEN pc' = "plan" /\ sections' = Recovered(image)
       ELSE pc' = "unparsed" /\ UNCHANGED sections
  /\ UNCHANGED <<image, headerSize, tables, layouts, rawOffset>>

\* build_output_buffer, before the sections; the plan says where the slots are.
PlanLayout(slots) ==
  /\ pc = "plan"
  /\ tables' = slots
  /\ headerSize' = HeaderSize(sections, image.fileAlignment, slots # {})
  /\ rawOffset' = headerSize'
  /\ pc' = "layout"
  /\ UNCHANGED <<image, sections, layouts>>

\* source_length: what the section spans in the captured memory up to the next one.
SourceLength(i) ==
  Cardinality({rva \in sections[i].va..(sections[i].va + Span(sections[i]) - 1) :
                 rva < Smaller(image.length, NextRva(sections, i, image.length))})

\* Mutant: nobody asks whether import slots lie in the section.
NoTable(s, length) == FALSE

\* Some import slots lie in the section.
HoldsTable(s, length) == \E t \in tables : t.start < s.va + length /\ t.end > s.va

\* layout_sections, one section; section_is_zero leaves a section without data
\* unless it holds import slots.
PlaceSection(i) ==
  /\ pc = "layout"
  /\ i \notin DOMAIN layouts
  /\ \A j \in Indices : Before(sections, j, i) => j \in DOMAIN layouts
  /\ LET s == sections[i]
         length == SourceLength(i)
         empty == ~ HoldsTable(s, length) /\ ~ \E b \in image.nonzero : b >= s.va /\ b < s.va + length
         size == IF length = 0 \/ empty THEN 0 ELSE AlignUp(length, image.fileAlignment)
         placed == [length |-> length, size |-> size, offset |-> IF size = 0 THEN 0 ELSE rawOffset]
     IN  /\ layouts' = [j \in DOMAIN layouts \cup {i} |-> IF j = i THEN placed ELSE layouts[j]]
         /\ rawOffset' = rawOffset + size
  /\ UNCHANGED <<pc, image, sections, headerSize, tables>>
=============================================================================
