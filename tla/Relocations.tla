----------------------------- MODULE Relocations -----------------------------
(***************************************************************************)
(* pe/packers/tables/relocations.rs and the relocation stream of UPX       *)
(* (walk_relocations, sixteen_bit_relocations in pe/packers/upx.rs): how   *)
(* the places the packer listed become a table the loader reads.           *)
(* Memory is a function from addresses to cells. A cell is <<>> if it is   *)
(* zero, and otherwise starts with the kind of what it holds: a block      *)
(* header is one cell, and so is an entry behind it.                       *)
(***************************************************************************)
EXTENDS Integers, Sequences, FiniteSets, SequencesExt

CONSTANTS
  PageSize,       \* 4096 in the code
  ByteSize,       \* 256 in the code
  LongDelta,      \* LONG_DELTA, 0xF0 in the code
  MaxRelocations  \* MAX_RELOCATIONS, 2^22 in the code

ASSUME SizesAssumption ==
  /\ PageSize \in Nat \ {0} /\ MaxRelocations \in Nat \ {0}
  /\ ByteSize \in Nat /\ LongDelta \in 1..(ByteSize - 1)

Zero == <<>>
Kind(cell) == IF cell = Zero THEN "zero" ELSE cell[1]
Block(page, size) == <<"block", page, size>>
Fixup(kind, offset) == <<"fixup", kind, offset>>

\* REL_BASED_HIGH, LOW, HIGHLOW and DIR64; 0 pads a block.
HighKind == 1   LowKind == 2   PointerKinds == {3, 10}
KnownKinds == {0, HighKind, LowKind} \cup PointerKinds

Within(cells, start, size) == start..(start + size - 1) \subseteq DOMAIN cells

-----------------------------------------------------------------------------
\* UPX lists the distance from each place to the next, counted from here.
StreamOrigin == -4

\* The distance at a place of the stream: one byte, three bytes, or, after an
\* empty one of three, four more. NoDelta if the stream is cut off.
NoDelta == [delta |-> 0, next |-> 0]

\* Mutant: the high bits of a distance of three bytes are lost.
ShortDelta(bytes, at) ==
  LET lead == bytes[at]
  IN  IF lead < LongDelta THEN [delta |-> lead, next |-> at + 1]
      ELSE IF at + 2 > Len(bytes) THEN NoDelta
      ELSE [delta |-> ByteSize * bytes[at + 2] + bytes[at + 1], next |-> at + 3]

Delta(bytes, at) ==
  LET lead == bytes[at]
      escaped == lead = LongDelta /\ bytes[at + 1] = 0 /\ bytes[at + 2] = 0
  IN  IF lead < LongDelta THEN [delta |-> lead, next |-> at + 1]
      ELSE IF at + 2 > Len(bytes) THEN NoDelta
      ELSE IF ~ escaped
        THEN [delta |-> (lead - LongDelta) * ByteSize^2 + ByteSize * bytes[at + 2] + bytes[at + 1], next |-> at + 3]
      ELSE IF at + 6 > Len(bytes) THEN NoDelta
      ELSE [delta |-> LET d == SubSeq(bytes, at + 3, at + 6)
                      IN  d[1] + ByteSize * (d[2] + ByteSize * (d[3] + ByteSize * d[4])), next |-> at + 7]

\* walk_relocations: the places, in the order of the stream, and whether it ends
\* before the limit.
Walk(bytes) ==
  LET Step(s, k) ==
        LET d == Delta(bytes, s.at)
            place == s.position + d.delta
        IN  IF s.at = 0 \/ s.ended THEN s
            ELSE IF s.at > Len(bytes) \/ Len(s.places) >= MaxRelocations THEN [s EXCEPT !.at = 0]
            ELSE IF bytes[s.at] = 0 THEN [s EXCEPT !.ended = TRUE]
            ELSE IF d = NoDelta \/ place < 0 THEN [s EXCEPT !.at = 0]
            ELSE [at |-> d.next, position |-> place, places |-> Append(s.places, place), ended |-> FALSE]
      walked == FoldLeft(Step, [at |-> 1, position |-> StreamOrigin, places |-> <<>>, ended |-> FALSE],
                         [k \in 1..(Len(bytes) + 1) |-> k])
  IN  [ok |-> walked.ended, places |-> ToSet(walked.places)]

\* sixteen_bit_relocations: a list per kind that the flags name, low ones first,
\* each up to a zero.
SixteenBit(words, kinds) ==
  LET lists == SelectSeq(<<LowKind, HighKind>>, LAMBDA k : k \in kinds)
      zeros(n) == Cardinality({k \in 1..n : words[k] = 0})
      listed == {k \in DOMAIN words : words[k] # 0 /\ zeros(k) < Len(lists)}
  IN  [ok |-> zeros(Len(words)) >= Len(lists) /\ Cardinality(listed) <= MaxRelocations,
       entries |-> {<<words[k], lists[zeros(k) + 1]>> : k \in listed}]

\* decode_relocations: addresses and kinds; the two kinds of list together.
Decode(stream, kind, imageStart) ==
  LET walked == Walk(stream.bytes)
      halves == SixteenBit(stream.words, stream.kinds)
      moved(entries) == {<<imageStart + e[1], e[2]>> : e \in entries}
  IN  [ok |-> walked.ok /\ halves.ok,
       entries |-> moved({<<p, kind>> : p \in walked.places} \cup halves.entries)]

-----------------------------------------------------------------------------
\* relocation_blocks: one block per page, its entries in order, an even number.
RelocationBlocks(entries) ==
  LET pages == SetToSortSeq({e[1] \div PageSize : e \in entries}, <)
      Sorted(p) == SetToSortSeq({e \in entries : e[1] \div PageSize = p},
                                LAMBDA a, b : a[1] < b[1] \/ (a[1] = b[1] /\ a[2] < b[2]))
      Words(sorted) == [k \in DOMAIN sorted |-> Fixup(sorted[k][2], sorted[k][1] % PageSize)]
                         \o IF Len(sorted) % 2 = 1 THEN <<Zero>> ELSE <<>>
      Of(p) == LET words == Words(Sorted(p)) IN <<Block(p, Len(words) + 1)>> \o words
  IN  FlattenSeq([k \in DOMAIN pages |-> Of(pages[k])])

\* relocations_intact: every block of the table ends within it and holds entries
\* of known kinds, up to the end or to an empty header.
RelocationsIntact(cells, start, size) ==
  LET Known(cell) == cell = Zero \/ (Kind(cell) = "fixup" /\ cell[2] \in KnownKinds)
      sound[k \in 0..size] ==
        LET cell == cells[start + k]
            end == k + cell[3]
        IN  \/ k = size \/ cell = Zero
            \/ /\ Kind(cell) = "block" /\ cell[3] > 0 /\ end <= size
               /\ \A j \in (k + 1)..(end - 1) : Known(cells[start + j])
               /\ sound[end]
  IN  /\ Within(cells, start, size)
      /\ \E k \in 0..(size - 1) : cells[start + k] # Zero
      /\ sound[0]

\* relocated_fields: the pointers the loader moves.
RelocatedFields(cells, start, size) ==
  LET fields[k \in 0..size] ==
        LET cell == cells[start + k]
            fixups == {j \in 1..(cell[3] - 1) : cells[start + k + j] # Zero}
        IN  IF k = size THEN {}
            ELSE IF Kind(cell) # "block" THEN {}
            ELSE IF cell[2] = 0 \/ cell[3] < 1 \/ k + cell[3] > size THEN {}
            ELSE {cell[2] * PageSize + cells[start + k + j][3] :
                    j \in {i \in fixups : cells[start + k + i][2] \in PointerKinds}} \cup fields[k + cell[3]]
  IN  fields[0]
=============================================================================
