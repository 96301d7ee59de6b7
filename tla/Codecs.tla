------------------------------- MODULE Codecs -------------------------------
(***************************************************************************)
(* pe/packers/codecs: the decoders for aPLib, BriefLZ, NRV, FFCE and       *)
(* JCALG1. Flag bits and bytes share a stream: a tag of one or four bytes  *)
(* is taken from it when the bits of the last one are used up.             *)
(* A byte is a cell: <<>> if it is zero, and otherwise a tuple with its    *)
(* value in second place; what a decoder only copies may be any cell.      *)
(***************************************************************************)
EXTENDS Integers, Sequences, FiniteSets, TLC

CONSTANTS
  BitsPerByte,    \* 8 in the code
  WordBits,       \* 32 in the code
  LowOffsetBits,  \* LOW_OFFSET_BITS of FFCE, 6 in the code
  ShortBits,      \* SHORT_OFFSET_BITS of JCALG1, 7 in the code
  RawRun,         \* RAW_RUN, 256 in the code
  MaxUnpacked,    \* MAX_UNPACKED, 2^30 in the code
  Far             \* the offsets from which a match is longer than its code says, per format

ASSUME WidthsAssumption ==
  /\ BitsPerByte \in Nat \ {0, 1} /\ WordBits \in Nat \ {0} /\ RawRun \in Nat \ {0}
  /\ LowOffsetBits \in Nat \ {0} /\ ShortBits \in Nat \ {0} /\ MaxUnpacked \in Nat

Size == 2^BitsPerByte
MaxWord == 2^WordBits - 1
ByteOf(n) == IF n = 0 THEN <<>> ELSE <<"byte", n>>
Value(byte) == IF byte = <<>> THEN 0 ELSE byte[2]

-----------------------------------------------------------------------------
\* A reader: the next byte, the bits left of the tag, and what was read last.
\* Once it runs out of bytes it stays failed.
Reader == [at |-> 1, tag |-> 0, left |-> 0, ok |-> TRUE, value |-> 0]
Failing(r) == [r EXCEPT !.ok = FALSE, !.value = 0]
Byte(s, r) ==
  IF r.ok /\ r.at <= Len(s.data) THEN [r EXCEPT !.at = @ + 1, !.value = s.data[r.at]] ELSE Failing(r)

\* ByteTags::bit and WordTags::bit: the first byte of a tag has its lowest bits.
Bit(s, r) ==
  LET word == IF s.width = 1 THEN Value(s.data[r.at])
              ELSE Value(s.data[r.at]) + Size * (Value(s.data[r.at + 1])
                     + Size * (Value(s.data[r.at + 2]) + Size * Value(s.data[r.at + 3])))
      Take(tag, left, at) ==
        [at |-> at, tag |-> tag, left |-> left - 1, ok |-> TRUE, value |-> (tag \div 2^(left - 1)) % 2]
  IN  IF ~ r.ok THEN r
      ELSE IF r.left > 0 THEN Take(r.tag, r.left, r.at)
      ELSE IF r.at + s.width - 1 > Len(s.data) THEN Failing(r)
      ELSE Take(word, s.width * BitsPerByte, r.at + s.width)

RECURSIVE NumberFrom(_, _, _, _), GammaFrom(_, _, _, _), PairedFrom(_, _, _), FibonacciFrom(_, _, _, _, _)

\* Bits::number: the highest bit first.
NumberFrom(s, r, count, value) ==
  IF value > MaxWord THEN Failing(r)
  ELSE IF count = 0 THEN [r EXCEPT !.value = value]
  ELSE LET b == Bit(s, r) IN IF b.ok THEN NumberFrom(s, b, count - 1, 2 * value + b.value) ELSE Failing(b)
Number(s, r, count) == IF r.ok THEN NumberFrom(s, r, count, 0) ELSE r

\* Bits::gamma, and the one of NRV, which stops at a one: a bit, and whether
\* another follows.
GammaMore(s, r, next, stop) ==
  IF ~ r.ok \/ next > MaxWord THEN Failing(r)
  ELSE IF r.value = stop THEN [r EXCEPT !.value = next] ELSE GammaFrom(s, r, next, stop)
GammaFrom(s, r, value, stop) ==
  LET b == Bit(s, r) IN GammaMore(s, Bit(s, b), 2 * value + b.value, stop)
Gamma(s, r) == IF r.ok THEN GammaFrom(s, r, 1, 0) ELSE r
NrvGamma(s, r) == IF r.ok THEN GammaFrom(s, r, 1, 1) ELSE r

\* paired_gamma: two bits between the stops.
PairedMore(s, stop, next) ==
  LET b == Bit(s, stop)
      double == 2 * (next - 1) + b.value
  IN  IF ~ stop.ok \/ next > MaxWord THEN Failing(stop)
      ELSE IF stop.value = 1 THEN [stop EXCEPT !.value = next]
      ELSE IF ~ b.ok \/ double > MaxWord THEN Failing(b) ELSE PairedFrom(s, b, double)
PairedFrom(s, r, value) ==
  LET b == Bit(s, r) IN PairedMore(s, Bit(s, b), 2 * value + b.value)
PairedGamma(s, r) == IF r.ok THEN PairedFrom(s, r, 1) ELSE r

\* fibonacci: two ones in a row end the code.
FibonacciStop(s, stop, current, here, value) ==
  IF ~ stop.ok \/ value > MaxWord \/ current + here > MaxWord THEN Failing(stop)
  ELSE IF stop.value = 1 THEN [stop EXCEPT !.value = value]
  ELSE FibonacciFrom(s, stop, here, current + here, value)
FibonacciMore(s, b, current, here, value) ==
  IF ~ b.ok \/ here > MaxWord THEN Failing(b)
  ELSE IF b.value = 0 THEN FibonacciFrom(s, b, current, here, value)
  ELSE FibonacciStop(s, Bit(s, b), current, here, value + here)
FibonacciFrom(s, r, previous, current, value) ==
  FibonacciMore(s, Bit(s, r), current, previous + current, value)
Fibonacci(s, r) == IF r.ok THEN FibonacciFrom(s, r, 0, 1, 1) ELSE r

-----------------------------------------------------------------------------
\* A decoder: its reader, the bytes so far, the last offset, whether a literal was
\* written last, and the widths a JCALG1 stream may change.
Decoder(s, first) ==
  [r |-> IF first THEN Byte(s, Reader) ELSE Reader, out |-> IF first /\ s.data # <<>> THEN <<s.data[1]>> ELSE <<>>,
   last |-> s.last, literal |-> TRUE, index |-> BitsPerByte, bits |-> BitsPerByte, base |-> 0, state |-> "more"]
Broken(d) == [d EXCEPT !.state = "broken"]
Ended(d, r) == IF r.ok THEN [d EXCEPT !.r = r, !.state = "whole"] ELSE Broken(d)

Write(d, r, byte, size) ==
  IF r.ok /\ Len(d.out) < size
    THEN [d EXCEPT !.r = r, !.out = Append(@, byte), !.literal = TRUE] ELSE Broken(d)

\* Lengths are added up in words, and where the code does not check the sum it wraps.
Wrapped(n) == n % (MaxWord + 1)

\* Mutant: only what is there already is copied, zeros behind it.
CopyAtOnce(d, r, offset, length, size) ==
  LET from == Len(d.out) - offset
  IN  IF r.ok /\ offset > 0 /\ from >= 0 /\ Len(d.out) + length <= size
        THEN [d EXCEPT !.r = r, !.last = offset, !.literal = FALSE,
                       !.out = @ \o [k \in 1..length |-> IF from + k <= Len(@) THEN @[from + k] ELSE <<>>]]
        ELSE Broken(d)
\* copy_match: a match may reach into what it writes.
Copy(d, r, offset, length, size) ==
  LET from == Len(d.out) - offset
  IN  IF r.ok /\ offset > 0 /\ from >= 0 /\ Len(d.out) + length <= size
        THEN [d EXCEPT !.r = r, !.last = offset, !.literal = FALSE,
                       !.out = @ \o [k \in 1..length |-> d.out[from + 1 + ((k - 1) % offset)]]]
        ELSE Broken(d)

Joined(high, low) == high * Size + Value(low)

\* A literal, and a match that repeats the last offset. A reader that failed reads
\* zeros from then on, and nothing is written with it.
Literal(d, r, size) == Write(d, r, r.value, size)
CopyAgain(d, again, size) == Copy(d, again, d.last, again.value, size)

\* How many of the thresholds of its format a match lies behind.
Past(limits, offset) == Cardinality({k \in DOMAIN limits : offset >= limits[k]})

\* aPLib. A full buffer may still be followed by the end marker, and a byte too many
\* is seen only after it was written.
AplibPush(d, r, byte) ==
  IF r.ok THEN [d EXCEPT !.r = r, !.out = Append(@, byte), !.literal = TRUE] ELSE Broken(d)
AplibFar(d, offset, length, size) ==
  Copy(d, length, offset, Wrapped(length.value + <<2, 0, 1, 2>>[1 + Past(Far.aplib, offset)]), size)
AplibLow(s, d, low, high, size) ==
  IF ~ low.ok THEN Broken(d) ELSE AplibFar(d, Wrapped(Joined(high, low.value)), Gamma(s, low), size)
AplibMatch(s, d, high, size) ==
  LET bias == IF s.variant = "Classic" /\ ~ d.literal THEN 2 ELSE 3
  IN  IF high.value = 2 /\ (d.literal \/ s.variant = "Original") THEN CopyAgain(d, Gamma(s, high), size)
      ELSE IF high.value < bias THEN Broken(d)
      ELSE AplibLow(s, d, Byte(s, high), high.value - bias, size)
AplibShort(d, short, size) ==
  IF ~ short.ok THEN Broken(d)
  ELSE IF Value(short.value) \div 2 = 0 THEN Ended(d, short)
  ELSE Copy(d, short, Value(short.value) \div 2, 2 + (Value(short.value) % 2), size)
AplibNear(d, near) ==
  IF near.value > Len(d.out) THEN Broken(d)
  ELSE AplibPush(d, near, IF near.value = 0 THEN <<>> ELSE d.out[Len(d.out) - near.value + 1])
AplibRest(s, d, three, size) ==
  IF three.value = 0 THEN AplibShort(d, Byte(s, three), size) ELSE AplibNear(d, Number(s, three, 4))
AplibMarked(s, d, two, size) ==
  IF ~ two.ok THEN Broken(d)
  ELSE IF two.value = 0 THEN AplibMatch(s, d, Gamma(s, two), size)
  ELSE AplibRest(s, d, Bit(s, two), size)
AplibLiteral(d, r) == AplibPush(d, r, r.value)
AplibStep(s, d, one, size) ==
  IF Len(d.out) > size \/ ~ one.ok THEN Broken(d)
  ELSE IF one.value = 0 THEN AplibLiteral(d, Byte(s, one))
  ELSE AplibMarked(s, d, Bit(s, one), size)

\* BriefLZ ends when the buffer is full.
BriefLow(d, low, high, length, size) ==
  IF ~ low.ok THEN Broken(d) ELSE Copy(d, low, Joined(high - 2, low.value) + 1, length + 2, size)
BriefHigh(s, d, high, length, size) == BriefLow(d, Byte(s, high), high.value, length, size)
BriefMatch(s, d, length, size) == BriefHigh(s, d, Gamma(s, length), length.value, size)
BriefStep(s, d, one, size) ==
  IF Len(d.out) >= size THEN Ended(d, d.r)
  ELSE IF ~ one.ok THEN Broken(d)
  ELSE IF one.value = 0 THEN Literal(d, Byte(s, one), size)
  ELSE BriefMatch(s, d, Gamma(s, one), size)

\* NRV2B, NRV2D and NRV2E. D and E keep the first bit of the length with the offset.
Plus(r, n) == [r EXCEPT !.value = @ + n]
NrvPair(s, second, pair) == IF pair # 0 THEN [second EXCEPT !.value = pair] ELSE Plus(NrvGamma(s, second), 2)
NrvSecond(s, second) == IF second.value = 1 THEN Plus(Bit(s, second), 3) ELSE Plus(NrvGamma(s, second), 3)
NrvLength(s, first, second) ==
  IF s.variant # "E" THEN NrvPair(s, second, 2 * first + second.value)
  ELSE IF first = 1 THEN Plus(second, 1) ELSE NrvSecond(s, second)
NrvMatch(s, d, offset, length, size) ==
  LET far == IF offset > Far.nrv[IF s.variant = "B" THEN 1 ELSE 2] THEN 1 ELSE 0
  IN  Copy(d, length, offset, Wrapped(length.value + far + 1), size)
NrvFirst(s, d, offset, first, size) == NrvMatch(s, d, offset, NrvLength(s, first.value, Bit(s, first)), size)
\* Mutant: the end marker ends the image wherever it comes.
NrvEndsAnywhere(s, d, low, value, size) ==
  IF ~ low.ok \/ value > MaxWord THEN Broken(d)
  ELSE IF value = MaxWord THEN Ended(d, low)
  ELSE IF s.variant = "B" THEN NrvFirst(s, d, value + 1, Bit(s, low), size)
  ELSE NrvFirst(s, d, (value \div 2) + 1, [low EXCEPT !.value = 1 - (value % 2)], size)
NrvLow(s, d, low, value, size) ==
  IF ~ low.ok \/ value > MaxWord THEN Broken(d)
  ELSE IF value = MaxWord THEN IF Len(d.out) = size THEN Ended(d, low) ELSE Broken(d)
  ELSE IF s.variant = "B" THEN NrvFirst(s, d, value + 1, Bit(s, low), size)
  ELSE NrvFirst(s, d, (value \div 2) + 1, [low EXCEPT !.value = 1 - (value % 2)], size)
NrvHigh(s, d, high, size) ==
  LET low == Byte(s, high)
  IN  IF ~ high.ok THEN Broken(d)
      ELSE IF high.value = 2 THEN NrvFirst(s, d, d.last, Bit(s, high), size)
      ELSE NrvLow(s, d, low, IF low.ok THEN Joined(high.value - 3, low.value) ELSE 0, size)
NrvStep(s, d, one, size) ==
  IF ~ one.ok THEN Broken(d)
  ELSE IF one.value = 1 THEN Literal(d, Byte(s, one), size)
  ELSE NrvHigh(s, d, IF s.variant = "B" THEN NrvGamma(s, one) ELSE PairedGamma(s, one), size)

\* FFCE: a match flag ends a full buffer.
FfceFar(d, offset, length, size) ==
  Copy(d, length, offset, Wrapped(length.value + Past(Far.ffce, offset)), size)
FfceLow(s, d, low, high, size) ==
  IF ~ low.ok THEN Broken(d) ELSE FfceFar(d, high * 2^LowOffsetBits + low.value + 1, Gamma(s, low), size)
FfceMatch(s, d, code, size) ==
  LET floor == IF d.literal THEN 3 ELSE 2
  IN  IF ~ code.ok THEN Broken(d)
      ELSE IF code.value < floor THEN CopyAgain(d, Gamma(s, code), size)
      ELSE FfceLow(s, d, Number(s, code, LowOffsetBits), code.value - floor, size)
FfceStep(s, d, one, size) ==
  IF ~ one.ok THEN Broken(d)
  ELSE IF one.value = 0 THEN Literal(d, Byte(s, one), size)
  ELSE IF Len(d.out) = size THEN Ended(d, one)
  ELSE FfceMatch(s, d, Fibonacci(s, one), size)

\* copy_raw_runs: runs of bytes as they are, each followed by whether one more
\* comes.
RECURSIVE RawRuns(_, _, _, _)
RawBytes(s, r, count) ==
  LET reads[k \in 0..count] == IF k = 0 THEN <<r, <<>>>>
                               ELSE LET b == Number(s, reads[k - 1][1], BitsPerByte)
                                    IN  <<b, Append(reads[k - 1][2], ByteOf(b.value))>>
  IN  reads[count]
RawMore(s, d, more, run, size) ==
  LET longer == [d EXCEPT !.r = more, !.out = @ \o run, !.literal = TRUE]
  IN  IF Len(d.out) + RawRun > size \/ ~ more.ok THEN Broken(d)
      ELSE IF more.value = 0 THEN longer ELSE RawRuns(s, longer, more, size)
RawRuns(s, d, r, size) ==
  LET run == RawBytes(s, r, RawRun) IN RawMore(s, d, Bit(s, run[1]), run[2], size)

\* JCALG1: literals may be narrower and shifted, and offsets have a width that the
\* stream changes.
JcalgFar(d, offset, length, size) ==
  Copy(d, length, offset, length.value + <<4, 0, 1, 2, 3>>[1 + Past(Far.jcalg, offset)], size)
JcalgLow(s, d, low, high, size) ==
  IF ~ low.ok \/ d.index >= WordBits THEN Broken(d)
  ELSE JcalgFar(d, Wrapped((high - 3) * 2^d.index) + low.value, Gamma(s, low), size)
JcalgMatch(s, d, high, size) ==
  IF ~ high.ok THEN Broken(d)
  ELSE IF high.value = 2 THEN CopyAgain(d, Gamma(s, high), size)
  ELSE JcalgLow(s, d, Number(s, high, d.index), high.value, size)
JcalgWidth(d, width) == IF width.ok THEN [d EXCEPT !.r = width, !.index = width.value] ELSE Broken(d)
JcalgShort(s, d, offset, extra, size) ==
  IF ~ extra.ok THEN Broken(d)
  ELSE IF offset > 0 THEN Copy(d, extra, offset, extra.value + 2, size)
  ELSE IF extra.value > 0 THEN JcalgWidth(d, Number(s, extra, extra.value + 3))
  ELSE IF Len(d.out) = size THEN Ended(d, extra) ELSE Broken(d)
JcalgOffset(s, d, short, size) == JcalgShort(s, d, short.value, Number(s, short, 2), size)
JcalgBase(d, base) ==
  IF base.ok THEN [d EXCEPT !.r = base, !.bits = BitsPerByte - 1, !.base = base.value] ELSE Broken(d)
JcalgNarrow(s, d, narrow) ==
  IF ~ narrow.ok THEN Broken(d)
  ELSE IF narrow.value = 1 THEN [d EXCEPT !.r = narrow, !.bits = BitsPerByte, !.base = 0]
  ELSE JcalgBase(d, Number(s, narrow, BitsPerByte))
JcalgEscape(s, d, raw, size) ==
  IF ~ raw.ok THEN Broken(d)
  ELSE IF raw.value = 1 THEN RawRuns(s, d, raw, size) ELSE JcalgNarrow(s, d, Number(s, raw, 1))
JcalgNear(s, d, near, size) ==
  IF ~ near.ok THEN Broken(d)
  ELSE IF near.value = 1 THEN Write(d, near, <<>>, size)
  ELSE IF near.value > 1 THEN [Copy(d, near, near.value - 1, 1, size) EXCEPT !.last = d.last]
  ELSE JcalgEscape(s, d, Bit(s, near), size)
JcalgRest(s, d, three, size) ==
  IF three.value = 0 THEN JcalgOffset(s, d, Number(s, three, ShortBits), size)
  ELSE JcalgNear(s, d, Number(s, three, 4), size)
JcalgMarked(s, d, two, size) ==
  IF two.value = 1 THEN JcalgMatch(s, d, Gamma(s, two), size) ELSE JcalgRest(s, d, Bit(s, two), size)
JcalgLiteral(d, literal, size) == Write(d, literal, ByteOf((literal.value + d.base) % Size), size)
JcalgStep(s, d, one, size) ==
  IF ~ one.ok THEN Broken(d)
  ELSE IF one.value = 1 THEN JcalgLiteral(d, Number(s, one, d.bits), size)
  ELSE JcalgMarked(s, d, Bit(s, one), size)

-----------------------------------------------------------------------------
\* Decompressing a stream [format, variant, width, size, data]: where it starts and
\* one turn of its loop. More than output_buffer gives is not begun. BriefLZ, FFCE and
\* JCALG1 say in front how much there is.
Started(stream, size) ==
  LET d == Decoder([last |-> IF stream.format \in {"nrv", "jcalg1"} THEN 1 ELSE 0] @@ stream,
                   stream.format \in {"aplib", "brieflz", "ffce"})
  IN  IF stream.format \in {"brieflz", "ffce", "jcalg1"} /\ stream.size # size THEN Broken(d)
      ELSE IF size = 0 /\ stream.format \in {"brieflz", "ffce"} THEN [d EXCEPT !.out = <<>>, !.state = "whole"]
      ELSE IF size <= MaxUnpacked /\ d.r.ok THEN d ELSE Broken(d)
DecodeTurn(stream, d, one, size) ==
  CASE stream.format = "aplib" -> AplibStep(stream, d, one, size)
    [] stream.format = "brieflz" -> BriefStep(stream, d, one, size)
    [] stream.format = "nrv" -> NrvStep(stream, d, one, size)
    [] stream.format = "ffce" -> FfceStep(stream, d, one, size)
    [] stream.format = "jcalg1" -> JcalgStep(stream, d, one, size)
DecodeStep(stream, d, size) == DecodeTurn(stream, d, Bit(stream, d.r), size)
=============================================================================
