------------------------------ MODULE MCCodecs ------------------------------
(***************************************************************************)
(* A small instance of Codecs: every format packs short token lists, a     *)
(* token per step, and unpacks them, a turn of the decoder's loop per      *)
(* step, from a stream that is whole, overwritten or cut short. Bytes have *)
(* three bits, so that the lists reach every threshold of the offsets.     *)
(***************************************************************************)
EXTENDS Encoders

CONSTANTS
  MaxTokens,      \* the tokens packed behind the leading literals
  MaxSpoilt,      \* the most of them in a stream that is damaged
  SpoiltAhead,    \* how far before the damage the decoder is when it is chosen
  SpoiltBits      \* the bits a damaged LZMA stream still gives

MCFar == [aplib |-> <<2, 5, 7>>, nrv |-> <<5, 4>>, ffce |-> <<4, 7>>, jcalg |-> <<2, 4, 6, 8>>]

VARIABLES packer, count, stream, decoder
vars == <<packer, count, stream, decoder>>

Formats == {<<"aplib", "Classic", 1>>, <<"aplib", "Classic", 4>>, <<"aplib", "Original", 1>>, <<"brieflz", "", 4>>,
            <<"nrv", "B", 4>>, <<"nrv", "D", 4>>, <<"nrv", "E", 4>>, <<"ffce", "", 4>>, <<"jcalg1", "", 4>>}
             \cup {<<"lzma", [context |-> p[1], literal |-> p[2], bits |-> p[3]], 1>> :
                       p \in {<<3, 0, 2>>, <<1, 1, 0>>, <<0, 2, 1>>}}
Lead == [k \in 1..8 |-> <<"literal", k % 8>>]
Leads == {Lead, Lead \o <<<<"match", 4, 6>>, <<"literal", 5>>>>}
LzmaLeads == {Lead, Lead \o <<<<"repeat", 0, 1>>, <<"literal", 5>>>>,
              Lead \o <<<<"match", 4, 6>>, <<"repeat", 0, 1>>, <<"literal", 5>>>>,
              Lead \o <<<<"match", 4, 6>>, <<"match", 7, 2>>, <<"literal", 5>>, <<"match", 2, 3>>>>}
Tokens == {<<"match", offset, length>> : offset \in {1, 2, 4, 5, 7, 8, 11}, length \in {3, 6}}
            \cup {<<"repeat", which, length>> : which \in 0..3, length \in {2, 7}} \cup {<<"repeat", 0, 1>>}
            \cup {<<"match", 4, 4>>, <<"literal", 5>>, <<"short", 1, 2>>, <<"short", 3, 3>>, <<"again", 3>>, <<"near", 0>>,
                  <<"near", 2>>, <<"raw">>, <<"index", 2>>, <<"bits", 2, 6>>}

Init ==
  /\ \E f \in Formats : \E lead \in IF f[1] = "lzma" THEN LzmaLeads ELSE Leads :
       packer = FoldLeft(Pack, Packer(f[1], f[2], f[3]), lead)
  /\ count = 0
  /\ stream = <<>>
  /\ decoder = <<>>

PackToken ==
  /\ stream = <<>> /\ count < MaxTokens
  /\ \E t \in Tokens : CanPack(packer, t) /\ packer' = Pack(packer, t)
  /\ count' = count + 1
  /\ UNCHANGED <<stream, decoder>>

Lzma == packer.format = "lzma"
Asked == Len(packer.out)
Start ==
  /\ stream = <<>> /\ count > 0
  /\ stream' = Sealed(packer)
  /\ decoder' = IF Lzma THEN LzmaStarted(Asked) ELSE Started(stream', Asked)
  /\ UNCHANGED <<packer, count>>

\* What the program did to the memory behind the bytes that are read by now, before
\* it was captured: a byte or all from one on are zeros or other bytes, or they are
\* missing. An LZMA stream gives any bits from there.
Kept == stream = Sealed(packer)
Greatest(a, b) == IF a > b THEN a ELSE b
Damaged(data, from) ==
  LET to == Len(data)
      Over(a, b, byte) == [k \in 1..to |-> IF k \in a..b THEN byte ELSE data[k]]
      places == {p \in from..to : p <= from + SpoiltAhead}
  IN  IF Lzma THEN {SubSeq(data, 1, from - 1) \o [k \in 1..SpoiltBits |-> <<Spoilt, bits[k]>>] : bits \in [1..SpoiltBits -> {0, 1}]}
      ELSE {Over(p, Greatest(p, b), byte) : p \in places, b \in {0, to}, byte \in {<<>>, ByteOf(Size - 1)}}
             \cup {SubSeq(data, 1, p - 1) : p \in places}
Spoil ==
  /\ stream # <<>> /\ Kept /\ decoder.state = "more" /\ count <= MaxSpoilt
  /\ Lzma => Len(decoder.out) + 7 >= Asked
  /\ \E data \in Damaged(stream.data, decoder.r.at) : stream' = [stream EXCEPT !.data = data]
  /\ UNCHANGED <<packer, count, decoder>>

Unpack ==
  /\ stream # <<>> /\ decoder.state = "more"
  /\ decoder' = IF Lzma THEN LzmaStep(stream, decoder, Asked) ELSE DecodeStep(stream, decoder, Asked)
  /\ UNCHANGED <<packer, count, stream>>

Next == PackToken \/ Start \/ Spoil \/ Unpack
Spec == Init /\ [][Next]_vars

\* What a decoder has written is always the beginning of what was packed, and a whole
\* stream is read to its last byte, unless there is more than output_buffer gives: the
\* offset and length codes, their biases, and the bits that bytes come between are
\* those of the packer.
PackedIsUnpacked ==
  stream # <<>> /\ Kept =>
    /\ IsPrefix(decoder.out, packer.out)
    /\ decoder.state = "broken" <=> Asked > MaxUnpacked
    /\ decoder.state = "whole" => decoder.out = packer.out /\ decoder.r.at = Len(stream.data) + 1

\* Memory that a program freed or overwrote makes a stream of wrong offsets, lengths
\* and ends, or one that stops. Whatever a decoder reads, it writes no more than it is
\* asked for (aPLib one byte, which it then refuses), and what it takes for whole is
\* as long as was asked: only aPLib and LZMA, whose streams say where they end, may
\* give less, which decode_block compares. A stream that just stops is refused by all
\* but LZMA (copy_match, the end markers, Cursor::byte and ::dword).
DamageIsBounded ==
  stream # <<>> =>
    /\ Len(decoder.out) <= Asked \/ (packer.format = "aplib" /\ Len(decoder.out) = Asked + 1 /\ decoder.state # "whole")
    /\ decoder.state = "whole" /\ Len(decoder.out) < Asked => packer.format \in {"aplib", "lzma"}
    /\ decoder.state = "whole" /\ ~ Lzma => ~ IsStrictPrefix(stream.data, Sealed(packer).data)
=============================================================================
