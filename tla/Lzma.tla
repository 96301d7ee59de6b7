--------------------------------- MODULE Lzma ---------------------------------
(***************************************************************************)
(* pe/packers/codecs/lzma.rs: the decoder behind its range coder. The      *)
(* range coder gives back a bit as it was packed if the decoder asks for   *)
(* it with the probability the packer used, since both adapt alike; with   *)
(* any other it gives back anything, which counts as broken here. So a     *)
(* stream is a sequence of <<probability, bit>>. Where bytes are damaged   *)
(* or missing (zeros are read a little past the end) the coder answers     *)
(* whatever it is asked: <<Spoilt, bit>>, until it runs out.               *)
(***************************************************************************)
EXTENDS Codecs

CONSTANTS
  LengthBits,      \* LENGTH_LOW_BITS, 3 in the code
  LengthHighBits,  \* 8 in the code
  SlotBits,        \* 6 in the code
  EndSlotModel,    \* END_SLOT_MODEL, 14 in the code
  AlignBits        \* 4 in the code

ASSUME LzmaWidthsAssumption ==
  /\ LengthBits \in Nat \ {0} /\ LengthHighBits \in Nat \ {0} /\ SlotBits \in Nat \ {0, 1, 2}
  /\ AlignBits \in Nat \ {0} /\ EndSlotModel \in Nat /\ EndSlotModel >= 2 * AlignBits + 4

Spoilt == <<"spoilt">>

\* RangeDecoder::bit, with the probability that is asked for, and ::direct.
Coded(s, r, probability) ==
  IF ~ r.ok \/ r.at > Len(s.data) THEN Failing(r)
  ELSE IF s.data[r.at][1] \notin {probability, Spoilt} THEN Failing(r)
  ELSE [r EXCEPT !.at = @ + 1, !.value = s.data[r.at][2]]

RECURSIVE TreeFrom(_, _, _, _, _), ReverseFrom(_, _, _, _, _, _), DirectFrom(_, _, _, _), MatchedFrom(_, _, _, _, _)

\* RangeDecoder::tree: the highest bit first, a probability for each node.
TreeNext(s, b, model, bits, node) ==
  IF b.ok THEN TreeFrom(s, b, model, bits - 1, 2 * node + b.value) ELSE b
TreeFrom(s, r, model, bits, node) ==
  IF bits = 0 THEN [r EXCEPT !.value = node] ELSE TreeNext(s, Coded(s, r, Append(model, node)), model, bits, node)
Tree(s, r, model, bits) ==
  LET leaf == TreeFrom(s, r, model, bits, 1) IN IF leaf.ok THEN [leaf EXCEPT !.value = @ - 2^bits] ELSE leaf

\* reverse_tree: the lowest bit first. from is where the tree lies among the models.
ReverseNext(s, b, name, from, left, found) ==
  IF b.ok
    THEN ReverseFrom(s, b, name, from, left - 1,
                     [node |-> 2 * found.node + b.value, value |-> found.value + b.value * found.weight,
                      weight |-> 2 * found.weight])
    ELSE b
ReverseFrom(s, r, name, from, left, found) ==
  IF left = 0 THEN [r EXCEPT !.value = found.value]
  ELSE ReverseNext(s, Coded(s, r, <<name, from + found.node>>), name, from, left, found)
ReverseTree(s, r, name, from, bits) == ReverseFrom(s, r, name, from, bits, [node |-> 1, value |-> 0, weight |-> 1])

DirectNext(s, b, count, value) == IF b.ok THEN DirectFrom(s, b, count - 1, 2 * value + b.value) ELSE b
DirectFrom(s, r, count, value) ==
  IF count = 0 THEN [r EXCEPT !.value = value] ELSE DirectNext(s, Coded(s, r, <<"direct">>), count, value)

-----------------------------------------------------------------------------
\* The decoder: what came before (state, which literals and matches drive through
\* twelve values), the last four offsets less one, and as for the other formats.
LzmaDecoder == [r |-> Reader, out |-> <<>>, before |-> 0, repeats |-> <<0, 0, 0, 0>>, state |-> "more"]
LzmaStarted(size) == IF size <= MaxUnpacked THEN LzmaDecoder ELSE Broken(LzmaDecoder)
AfterLiteral(d) == d.before < 7  \* LITERAL_STATES

\* matched_literal: as long as its bits are those of the byte at the last offset,
\* these choose the probabilities too.
MatchedNext(s, b, context, matched, node, same) ==
  IF ~ b.ok THEN b
  ELSE IF b.value = same THEN MatchedFrom(s, b, context, 2 * matched, 2 * node + b.value)
  ELSE LET left == CHOOSE k \in 0..BitsPerByte : node * 2^(k + 1) \in Size..(2 * Size - 1)
       IN  TreeFrom(s, b, <<"literal", context>>, left, 2 * node + b.value)
MatchedFrom(s, r, context, matched, node) ==
  LET same == (matched \div 2^(BitsPerByte - 1)) % 2
  IN  IF node >= Size THEN [r EXCEPT !.value = node]
      ELSE MatchedNext(s, Coded(s, r, <<"literal", context, Size + same * Size + node>>), context, matched, node, same)

LzmaWrite(d, leaf) ==
  IF ~ leaf.ok THEN Broken(d)
  ELSE [d EXCEPT !.r = leaf, !.out = Append(@, ByteOf(leaf.value - Size)),
                 !.before = IF @ < 4 THEN 0 ELSE IF @ < 10 THEN @ - 3 ELSE @ - 6]
LzmaLiteral(s, d, r) ==
  LET previous == IF d.out = <<>> THEN 0 ELSE Value(d.out[Len(d.out)])
      context == (Len(d.out) % 2^s.position.literal) * 2^s.position.context
                   + (previous \div 2^(BitsPerByte - s.position.context))
      at == Len(d.out) - d.repeats[1]
  IN  IF AfterLiteral(d) THEN LzmaWrite(d, TreeFrom(s, r, <<"literal", context>>, BitsPerByte, 1))
      ELSE IF at < 1 THEN Broken(d)
      ELSE LzmaWrite(d, MatchedFrom(s, r, context, Value(d.out[at]), 1))

\* LengthDecoder::decode. The first two of its three ranges depend on the position.
LengthFrom(r, start) == IF r.ok THEN [r EXCEPT !.value = @ + start] ELSE r
LengthSecond(s, second, coder, place) ==
  IF ~ second.ok THEN second
  ELSE IF second.value = 0 THEN LengthFrom(Tree(s, second, <<coder, "mid", place>>, LengthBits), 2^LengthBits)
  ELSE LengthFrom(Tree(s, second, <<coder, "high">>, LengthHighBits), 2 * 2^LengthBits)
LengthFirst(s, first, coder, place) ==
  IF ~ first.ok THEN first
  ELSE IF first.value = 0 THEN Tree(s, first, <<coder, "low", place>>, LengthBits)
  ELSE LengthSecond(s, Coded(s, first, <<coder, "second_choice">>), coder, place)
LengthDecoded(s, r, coder, place) == LengthFirst(s, Coded(s, r, <<coder, "choice">>), coder, place)

\* The match itself, which may be cut off at the end of the buffer.
LzmaCopy(d, r, repeats, before, length, size) ==
  LET offset == repeats[1] + 1
      count == IF length + 2 < size - Len(d.out) THEN length + 2 ELSE size - Len(d.out)
  IN  IF ~ r.ok \/ offset > Len(d.out) THEN Broken(d)
      ELSE [d EXCEPT !.r = r, !.repeats = repeats, !.before = before,
                     !.out = @ \o [k \in 1..count |-> d.out[Len(d.out) - offset + 1 + ((k - 1) % offset)]]]

\* A repeated offset: the last one, perhaps for one byte, or one of the three before.
Rotated(repeats, index) ==
  [k \in 1..4 |-> IF k = 1 THEN repeats[index + 1] ELSE IF k <= index + 1 THEN repeats[k - 1] ELSE repeats[k]]
RepeatLength(d, length, index, size) ==
  LzmaCopy(d, length, Rotated(d.repeats, index), IF AfterLiteral(d) THEN 8 ELSE 11, length.value, size)
RepeatOf(s, d, r, index, place, size) == RepeatLength(d, LengthDecoded(s, r, "repeat_lengths", place), index, size)
RepeatOne(d, r) ==
  LET at == Len(d.out) - d.repeats[1]
  IN  IF at < 1 THEN Broken(d)
      ELSE [d EXCEPT !.r = r, !.out = Append(@, d.out[at]), !.before = IF AfterLiteral(d) THEN 9 ELSE 11]
RepeatLast(s, d, long, place, size) ==
  IF ~ long.ok THEN Broken(d)
  ELSE IF long.value = 0 THEN RepeatOne(d, long) ELSE RepeatOf(s, d, long, 0, place, size)
RepeatFar(s, d, two, place, size) == RepeatOf(s, d, two, 2 + two.value, place, size)
RepeatOlder(s, d, one, place, size) ==
  IF one.value = 0 THEN RepeatOf(s, d, one, 1, place, size)
  ELSE RepeatFar(s, d, Coded(s, one, <<"is_repeat2", d.before>>), place, size)
Repeat(s, d, zero, place, size) ==
  IF ~ zero.ok \/ d.out = <<>> THEN Broken(d)
  ELSE IF zero.value = 0 THEN RepeatLast(s, d, Coded(s, zero, <<"is_repeat0_long", d.before, place>>), place, size)
  ELSE RepeatOlder(s, d, Coded(s, zero, <<"is_repeat1", d.before>>), place, size)

\* A new offset: its slot, and the bits below the two highest, the middle ones of a
\* far offset without probabilities. The farthest there is ends the stream.
MaxDistance == 2^(2^(SlotBits - 1)) - 1
Farther(r, base) == IF r.ok THEN [r EXCEPT !.value = @ + base] ELSE r
AlignedFrom(s, high, base) == Farther(ReverseTree(s, high, "align", 0, AlignBits), base + high.value * 2^AlignBits)
DistanceOf(s, slot, value) ==
  LET bits == (value \div 2) - 1
      base == (2 + (value % 2)) * 2^bits
  IN  IF value < 4 THEN slot
      ELSE IF value < EndSlotModel THEN Farther(ReverseTree(s, slot, "special", base - value, bits), base)
      ELSE AlignedFrom(s, DirectFrom(s, slot, bits - AlignBits, 0), base)
MatchAt(d, distance, length, size) ==
  IF distance.ok /\ distance.value = MaxDistance THEN Ended(d, distance)
  ELSE LzmaCopy(d, distance, <<distance.value>> \o SubSeq(d.repeats, 1, 3), IF AfterLiteral(d) THEN 7 ELSE 10,
                length, size)
MatchSlot(s, d, slot, length, size) ==
  IF slot.ok THEN MatchAt(d, DistanceOf(s, slot, slot.value), length, size) ELSE Broken(d)
NewMatch(s, d, length, size) ==
  MatchSlot(s, d, Tree(s, length, <<"slots", IF length.value < 3 THEN length.value ELSE 3>>, SlotBits), length.value, size)

-----------------------------------------------------------------------------
\* One turn of the loop of decompress.
LzmaMatch(s, d, repeated, place, size) ==
  IF ~ repeated.ok THEN Broken(d)
  ELSE IF repeated.value = 1 THEN Repeat(s, d, Coded(s, repeated, <<"is_repeat0", d.before>>), place, size)
  ELSE NewMatch(s, d, LengthDecoded(s, repeated, "lengths", place), size)
LzmaTurn(s, d, match, place, size) ==
  IF ~ match.ok THEN Broken(d)
  ELSE IF match.value = 0 THEN LzmaLiteral(s, d, match)
  ELSE LzmaMatch(s, d, Coded(s, match, <<"is_repeat", d.before>>), place, size)
LzmaStep(s, d, size) ==
  LET place == Len(d.out) % 2^s.position.bits
  IN  IF Len(d.out) >= size THEN Ended(d, d.r)
      ELSE LzmaTurn(s, d, Coded(s, d.r, <<"is_match", d.before, place>>), place, size)
=============================================================================
