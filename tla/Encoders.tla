------------------------------ MODULE Encoders ------------------------------
(***************************************************************************)
(* A reference for Codecs: packers that write, token by token, the stream  *)
(* of each format and what it stands for. A token is <<"literal", byte>>,  *)
(* <<"match", offset, length>>, <<"short", offset, length>>,               *)
(* <<"again", length>> for the last offset, <<"near", offset>> for one     *)
(* byte, zero if the offset is zero, a change of JCALG1's widths, or for   *)
(* LZMA <<"repeat", which, length>> of the last four offsets.              *)
(***************************************************************************)
EXTENDS Lzma, SequencesExt

\* A packer: the format, what it has packed, the stream with the tag that is still
\* open, the last offset, whether a literal was last, and JCALG1's widths.
Packer(format, variant, width) ==
  [format |-> format, variant |-> variant, width |-> width, out |-> <<>>,
   data |-> <<>>, open |-> -1, left |-> 0, tag |-> 0,
   last |-> IF format \in {"nrv", "jcalg1"} THEN 1 ELSE 0, literal |-> TRUE,
   index |-> BitsPerByte, bits |-> BitsPerByte, base |-> 0, before |-> 0, offsets |-> <<1, 1, 1, 1>>]

\* What a token stands for.
Repeated(out, offset, length) == out \o [k \in 1..length |-> out[Len(out) - offset + 1 + ((k - 1) % offset)]]
Meaning(p, t) ==
  CASE t[1] = "literal" -> Append(p.out, ByteOf(t[2]))
    [] t[1] \in {"match", "short"} -> Repeated(p.out, t[2], t[3])
    [] t[1] = "again" -> Repeated(p.out, p.last, t[2])
    [] t[1] = "near" -> Append(p.out, IF t[2] = 0 THEN <<>> ELSE p.out[Len(p.out) - t[2] + 1])
    [] t[1] = "repeat" -> Repeated(p.out, p.offsets[t[2] + 1], t[3])
    [] t[1] = "raw" -> p.out \o [k \in 1..RawRun |-> ByteOf(k)]
    [] OTHER -> p.out

-----------------------------------------------------------------------------
\* Symbols: bits, and bytes that stand by themselves.
B(bit) == <<"bit", bit>>
Bits(n, count) == [k \in 1..count |-> B((n \div 2^(count - k)) % 2)]
Whole(byte) == <<<<"whole", ByteOf(byte)>>>>
Digits(n) == CHOOSE k \in 0..WordBits : 2^k <= n /\ n < 2^(k + 1)
Gammas(n, stop) ==
  LET k == Digits(n)
  IN  FlattenSeq([j \in 1..k |-> <<B((n \div 2^(k - j)) % 2), B(IF j = k THEN stop ELSE 1 - stop)>>])
\* paired_gamma is undone from its end: the last bit, and two of what was before it.
RECURSIVE Pairs(_)
Pairs(n) ==
  LET before == Pairs((n \div 4) + 1)
  IN  IF n < 4 THEN <<B(n % 2), B(1)>>
      ELSE SubSeq(before, 1, Len(before) - 1) \o <<B(0), B((n \div 2) % 2), B(n % 2), B(1)>>
Fibonacci2[n \in Nat] == IF n < 2 THEN n + 1 ELSE Fibonacci2[n - 1] + Fibonacci2[n - 2]
Fibs(code) ==
  LET top == CHOOSE k \in 0..20 : Fibonacci2[k] <= code - 1 /\ code - 1 < Fibonacci2[k + 1]
      rest[k \in 0..(top + 1)] ==
        IF k = top + 1 THEN code - 1
        ELSE IF rest[k + 1] >= Fibonacci2[k] THEN rest[k + 1] - Fibonacci2[k] ELSE rest[k + 1]
  IN  [k \in 1..(top + 1) |-> B(IF rest[k] # rest[k - 1] THEN 1 ELSE 0)] \o <<B(1)>>

\* A tag is opened where its first bit is needed, and filled in when it is full.
Closed(p) ==
  IF p.open < 0 THEN p.data
  ELSE SubSeq(p.data, 1, p.open) \o [k \in 1..p.width |-> ByteOf((p.tag \div Size^(k - 1)) % Size)]
         \o SubSeq(p.data, p.open + p.width + 1, Len(p.data))
Put(p, symbol) ==
  LET full == p.width * BitsPerByte
      data == Closed(p)
  IN  IF symbol[1] = "model" THEN [p EXCEPT !.data = Append(@, Tail(symbol))]
      ELSE IF symbol[1] = "whole" THEN [p EXCEPT !.data = Append(@, symbol[2])]
      ELSE IF p.left > 0 THEN [p EXCEPT !.left = @ - 1, !.tag = @ + symbol[2] * 2^(p.left - 1)]
      ELSE [p EXCEPT !.data = data \o [k \in 1..p.width |-> <<>>], !.open = Len(data),
                     !.left = full - 1, !.tag = symbol[2] * 2^(full - 1)]

-----------------------------------------------------------------------------
\* By how much a match is longer than its code says.
Extra(format, variant, offset) ==
  CASE format = "aplib" -> <<2, 0, 1, 2>>[1 + Past(Far.aplib, offset)]
    [] format = "nrv" -> IF offset > Far.nrv[IF variant = "B" THEN 1 ELSE 2] THEN 2 ELSE 1
    [] format = "ffce" -> Past(Far.ffce, offset)
    [] format = "jcalg1" -> <<4, 0, 1, 2, 3>>[1 + Past(Far.jcalg, offset)]
    [] OTHER -> 2

\* The two or three bits of an NRV length, and the code behind them.
NrvLengthBits(variant, n) ==
  IF variant = "E"
    THEN IF n <= 2 THEN <<B(1), B(n - 1)>> ELSE IF n <= 4 THEN <<B(0), B(1), B(n - 3)>>
         ELSE <<B(0), B(0)>> \o Gammas(n - 3, 1)
    ELSE IF n <= 3 THEN Bits(n, 2) ELSE <<B(0), B(0)>> \o Gammas(n - 2, 1)
HighBits(variant, n) == IF variant = "B" THEN Gammas(n, 1) ELSE Pairs(n)

\* The symbols of a token, or none if the format has no code for it.
None == <<>>
MatchSymbols(format, variant, offset, length, m) ==
  LET n == length - Extra(format, variant, offset)
      bias == IF variant = "Classic" /\ ~ m.literal THEN 2 ELSE 3
      bits == NrvLengthBits(variant, n)
      value == IF variant = "B" THEN offset - 1 ELSE 2 * (offset - 1) + 1 - bits[1][2]
  IN  IF n < (IF format = "nrv" THEN 1 ELSE 2) THEN None
      ELSE CASE format = "aplib" ->
                  <<B(1), B(0)>> \o Gammas((offset \div Size) + bias, 0) \o Whole(offset % Size) \o Gammas(n, 0)
             [] format = "brieflz" ->
                  <<B(1)>> \o Gammas(n, 0) \o Gammas(((offset - 1) \div Size) + 2, 0) \o Whole((offset - 1) % Size)
             [] format = "nrv" ->
                  <<B(0)>> \o HighBits(variant, (value \div Size) + 3) \o Whole(value % Size)
                    \o (IF variant = "B" THEN bits ELSE Tail(bits))
             [] format = "ffce" ->
                  <<B(1)>> \o Fibs(((offset - 1) \div 2^LowOffsetBits) + (IF m.literal THEN 3 ELSE 2))
                    \o Bits((offset - 1) % 2^LowOffsetBits, LowOffsetBits) \o Gammas(n, 0)
             [] format = "jcalg1" ->
                  <<B(0), B(1)>> \o Gammas((offset \div 2^m.index) + 3, 0) \o Bits(offset % 2^m.index, m.index)
                    \o Gammas(n, 0)
AgainSymbols(format, variant, length, m) ==
  LET n == length - (Extra(format, variant, m.last))
  IN  CASE format = "aplib" /\ length >= 2 /\ (m.literal \/ variant = "Original") ->
             <<B(1), B(0)>> \o Gammas(2, 0) \o Gammas(length, 0)
        [] format = "nrv" /\ n >= 1 -> <<B(0)>> \o HighBits(variant, 2) \o NrvLengthBits(variant, n)
        [] format = "ffce" /\ length >= 2 /\ m.literal -> <<B(1)>> \o Fibs(2) \o Gammas(length, 0)
        [] format = "jcalg1" /\ length >= 2 -> <<B(0), B(1)>> \o Gammas(2, 0) \o Gammas(length, 0)
        [] OTHER -> None
ShortSymbols(format, offset, length) ==
  CASE format = "aplib" /\ 2 * offset < Size /\ length \in 2..3 ->
         <<B(1), B(1), B(0)>> \o Whole(2 * offset + length - 2)
    [] format = "jcalg1" /\ offset < 2^ShortBits /\ length \in 2..5 ->
         <<B(0), B(0), B(0)>> \o Bits(offset, ShortBits) \o Bits(length - 2, 2)
    [] OTHER -> None
LiteralSymbols(format, byte, m) ==
  LET shifted == (byte + Size - m.base) % Size
  IN  CASE m.out = <<>> /\ format \in {"aplib", "brieflz", "ffce"} -> Whole(byte)
        [] format = "nrv" -> <<B(1)>> \o Whole(byte)
        [] format = "jcalg1" -> IF shifted < 2^m.bits THEN <<B(1)>> \o Bits(shifted, m.bits) ELSE None
        [] OTHER -> <<B(0)>> \o Whole(byte)
NearSymbols(format, offset) ==
  CASE format = "aplib" -> <<B(1), B(1), B(1)>> \o Bits(offset, 4)
    [] format = "jcalg1" -> <<B(0), B(0), B(1)>> \o Bits(offset + 1, 4)
    [] OTHER -> None
WidthSymbols(t) ==
  LET escape == <<B(0), B(0), B(1)>> \o Bits(0, 4)
  IN  CASE t[1] = "raw" -> escape \o <<B(1)>> \o FlattenSeq([k \in 1..RawRun |-> Bits(k, BitsPerByte)]) \o <<B(0)>>
        [] t[1] = "index" -> <<B(0), B(0), B(0)>> \o Bits(0, ShortBits) \o Bits(1, 2) \o Bits(t[2], 4)
        [] t[1] = "bits" -> escape \o <<B(0)>> \o (IF t[2] = BitsPerByte THEN <<B(1)>> ELSE <<B(0)>> \o Bits(t[3], BitsPerByte))

-----------------------------------------------------------------------------
\* LZMA: each bit with the probability it is packed with, for the first, second
\* and following bits of a number one of as many as there are numbers above them.
M(model, bit) == <<<<"model", model, bit>>>>
Above(n, count, k) == n \div 2^(count - k + 1)  \* the bits of n before the k-th
TreeBits(model, count, n) ==
  FlattenSeq([k \in 1..count |->
                M(Append(model, 2^(k - 1) + Above(n, count, k)), (n \div 2^(count - k)) % 2)])
ReverseBits(model, from, count, n) ==
  LET node[k \in 1..count] == IF k = 1 THEN 1 ELSE 2 * node[k - 1] + ((n \div 2^(k - 2)) % 2)
  IN  FlattenSeq([k \in 1..count |-> M(<<model, from + node[k]>>, (n \div 2^(k - 1)) % 2)])
LzmaLengthBits(coder, place, n) ==
  LET low == 2^LengthBits
  IN  IF n < low THEN M(<<coder, "choice">>, 0) \o TreeBits(<<coder, "low", place>>, LengthBits, n)
      ELSE M(<<coder, "choice">>, 1) \o
           (IF n < 2 * low
              THEN M(<<coder, "second_choice">>, 0) \o TreeBits(<<coder, "mid", place>>, LengthBits, n - low)
              ELSE M(<<coder, "second_choice">>, 1) \o TreeBits(<<coder, "high">>, LengthHighBits, n - 2 * low))
\* A slot has as many low bits as its number says, and the trees of the slots
\* before it lie before its own.
LowBits(slot) == IF slot < 4 THEN 0 ELSE (slot \div 2) - 1
SlotStart(slot) == IF slot < 4 THEN slot ELSE (2 + (slot % 2)) * 2^LowBits(slot)
SlotOf(distance) ==
  CHOOSE s \in 0..(2^SlotBits - 1) : SlotStart(s) <= distance /\ distance < SlotStart(s) + 2^LowBits(s)
TreesBefore(slot) == MapThenSumSet(LAMBDA s : 2^LowBits(s) - 1, 4..(slot - 1))
LzmaDistanceBits(length, distance) ==
  LET slot == SlotOf(distance)
      rest == distance - SlotStart(slot)
      middle == LowBits(slot) - AlignBits
  IN  TreeBits(<<"slots", IF length < 3 THEN length ELSE 3>>, SlotBits, slot) \o
      (IF slot < 4 THEN <<>>
       ELSE IF slot < EndSlotModel THEN ReverseBits("special", TreesBefore(slot), LowBits(slot), rest)
       ELSE FlattenSeq([k \in 1..middle |-> M(<<"direct">>, (rest \div 2^(LowBits(slot) - k)) % 2)])
              \o ReverseBits("align", 0, AlignBits, rest % 2^AlignBits))
LzmaLiteralBits(p, byte) ==
  LET lc == p.variant.context
      previous == IF p.out = <<>> THEN 0 ELSE Value(Last(p.out))
      context == (Len(p.out) % 2^p.variant.literal) * 2^lc + (previous \div 2^(BitsPerByte - lc))
      matched == Value(p.out[Len(p.out) - p.offsets[1] + 1])
      Beside(k) == IF p.before >= 7 /\ Above(byte, BitsPerByte, k) = Above(matched, BitsPerByte, k)
                     THEN Size * (1 + ((matched \div 2^(BitsPerByte - k)) % 2)) ELSE 0
  IN  FlattenSeq([k \in 1..BitsPerByte |->
                    M(<<"literal", context, 2^(k - 1) + Above(byte, BitsPerByte, k) + Beside(k)>>,
                      (byte \div 2^(BitsPerByte - k)) % 2)])
LzmaSymbols(t, p) ==
  LET place == Len(p.out) % 2^p.variant.bits
      match == M(<<"is_match", p.before, place>>, 1)
      Says(name, bit) == M(<<name, p.before>>, bit)
      long == M(<<"is_repeat0_long", p.before, place>>, IF t[3] = 1 THEN 0 ELSE 1)
      which == CASE t[2] = 0 -> Says("is_repeat0", 0) \o long
                 [] t[2] = 1 -> Says("is_repeat0", 1) \o Says("is_repeat1", 0)
                 [] OTHER -> Says("is_repeat0", 1) \o Says("is_repeat1", 1) \o Says("is_repeat2", t[2] - 2)
  IN  CASE t[1] = "literal" -> M(<<"is_match", p.before, place>>, 0) \o LzmaLiteralBits(p, t[2])
        [] t[1] = "match" ->
             match \o Says("is_repeat", 0) \o LzmaLengthBits("lengths", place, t[3] - 2)
               \o LzmaDistanceBits(t[3] - 2, t[2] - 1)
        [] t[1] = "repeat" ->
             match \o Says("is_repeat", 1) \o which
               \o (IF t[3] = 1 THEN <<>> ELSE LzmaLengthBits("repeat_lengths", place, t[3] - 2))
        [] OTHER -> None
\* The twelve states: what came last, and whether a literal or a match before it.
Before(p, t) ==
  LET literal == p.before < 7
  IN  CASE t[1] = "literal" -> <<0, 0, 0, 0, 1, 2, 3, 4, 5, 6, 4, 5>>[p.before + 1]
        [] t[1] = "match" -> IF literal THEN 7 ELSE 10
        [] t[1] = "repeat" /\ t[3] = 1 -> IF literal THEN 9 ELSE 11
        [] OTHER -> IF literal THEN 8 ELSE 11
Offsets(p, t) ==
  CASE t[1] = "match" -> <<t[2]>> \o SubSeq(p.offsets, 1, 3)
    [] t[1] = "repeat" -> <<p.offsets[t[2] + 1]>> \o RemoveAt(p.offsets, t[2] + 1)
    [] OTHER -> p.offsets

-----------------------------------------------------------------------------
Symbols(format, variant, t, m) ==
  CASE format = "lzma" -> LzmaSymbols(t, m)
    [] t[1] = "repeat" -> None
    [] t[1] = "literal" -> LiteralSymbols(format, t[2], m)
    [] t[1] = "match" -> MatchSymbols(format, variant, t[2], t[3], m)
    [] t[1] = "short" -> ShortSymbols(format, t[2], t[3])
    [] t[1] = "again" -> AgainSymbols(format, variant, t[2], m)
    [] t[1] = "near" -> NearSymbols(format, t[2])
    [] OTHER -> IF format = "jcalg1" THEN WidthSymbols(t) ELSE None
EndSymbols(format, variant) ==
  CASE format = "aplib" -> <<B(1), B(1), B(0)>> \o Whole(0)
    [] format = "nrv" -> <<B(0)>> \o HighBits(variant, (MaxWord \div Size) + 3) \o Whole(Size - 1)
    [] format = "ffce" -> <<B(1)>>
    [] format = "jcalg1" -> <<B(0), B(0), B(0)>> \o Bits(0, ShortBits) \o Bits(0, 2)
    [] OTHER -> None

\* Packing one more token, and the stream with its end.
CanPack(p, t) ==
  /\ t[1] = "again" => p.last > 0
  /\ t[1] = "match" => t[2] <= Len(p.out)
  /\ Symbols(p.format, p.variant, t, p) # None
Pack(p, t) ==
  [FoldLeft(Put, p, Symbols(p.format, p.variant, t, p)) EXCEPT
     !.out = Meaning(p, t),
     !.literal = t[1] = "literal" \/ (t[1] = "near" /\ p.format = "aplib"),
     !.last = IF t[1] \in {"match", "short"} THEN t[2] ELSE @,
     !.index = IF t[1] = "index" THEN t[2] ELSE @,
     !.bits = IF t[1] = "bits" THEN t[2] ELSE @,
     !.before = Before(p, t), !.offsets = Offsets(p, t),
     !.base = IF t[1] = "bits" THEN t[3] ELSE @]
Sealed(p) ==
  [format |-> p.format, variant |-> p.variant, width |-> p.width, position |-> p.variant, size |-> Len(p.out),
   data |-> Closed(FoldLeft(Put, p, EndSymbols(p.format, p.variant)))]
=============================================================================
