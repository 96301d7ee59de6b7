------------------------------ MODULE MCUnpack ------------------------------
(***************************************************************************)
(* Small instances of Unpack: 12 cells of the original image with its      *)
(* tables in their places or over each other, whole, wiped or damaged, and *)
(* UPX's own section with its copies behind them.                          *)
(***************************************************************************)
EXTENDS Unpack

\* The stream UPX writes for places in ascending order.
EncodeDelta(d) ==
  LET W == ByteSize
  IN  IF d < LongDelta THEN <<d>>
      ELSE IF d < (W - LongDelta) * W^2 THEN <<LongDelta + d \div W^2, d % W, (d \div W) % W>>
      ELSE <<LongDelta, 0, 0, d % W, (d \div W) % W, (d \div W^2) % W, d \div W^3>>
Encode(places) ==
  LET sorted == SetToSortSeq(places, <)
  IN  FlattenSeq([k \in DOMAIN sorted |->
        EncodeDelta(sorted[k] - (IF k = 1 THEN StreamOrigin ELSE sorted[k - 1]))]) \o <<0>>
Stream(places, low, high) ==
  [bytes |-> Encode(places), cut |-> FALSE,
   words |-> (IF low = {} THEN <<>> ELSE SetToSortSeq(low, <) \o <<0>>)
               \o (IF high = {} THEN <<>> ELSE SetToSortSeq(high, <) \o <<0>>),
   kinds |-> (IF low = {} THEN {} ELSE {LowKind}) \cup (IF high = {} THEN {} ELSE {HighKind}),
   places |-> (places \X {3}) \cup (low \X {LowKind}) \cup (high \X {HighKind})]
CutOff(stream, n) == [stream EXCEPT !.bytes = SubSeq(@, 1, n), !.cut = TRUE]

Places == {0, 1, 2, 7, 60, 61, 124, 130, 650}
Streams ==
  {Stream(p, low, high) : p \in {q \in SUBSET Places : Cardinality(q) <= 3}, low \in {{}, {3}, {1, 9}}, high \in {{}, {3}}}
CutStreams ==
  {CutOff(Stream(p, {}, {}), n) : p \in {q \in SUBSET Places : Cardinality(q) \in 1..2}, n \in 0..2}
    \cup {CutOff(Stream({3, 650}, {}, {}), n) : n \in 2..8}

-----------------------------------------------------------------------------
Lay(at, content) == [at |-> at, content |-> content]
Fill(pieces) == FoldLeft(LAMBDA mem, p : Put(mem, p.at, p.content), [a \in 8..26 |-> Zero], pieces)
Packed == Lay(20, <<Export(21), Text, Table(2), Leaf(26), Leaf(19), Original(18), <<"data">>>>)
Loaded == Lay(19, <<<<"data">>>>)
Dir(at, size) == [at |-> at, size |-> size]
Dirs(r, e, s, d) == [relocations |-> r, exports |-> e, resources |-> s, debug |-> d, bound |-> Dir(1, 1)]
Headers(table) ==
  [sections |-> 1, firstSection |-> ImageStart, matches |-> TRUE, fits |-> TRUE, parses |-> TRUE, entry |-> TRUE,
   list |-> [present |-> TRUE, at |-> 5, readable |-> TRUE, modules |-> 1], trailer |-> "Final",
   exactRelocations |-> TRUE, stripped |-> FALSE, guardCleared |-> FALSE, dirs |-> table]
Stub == [found |-> TRUE, recognised |-> TRUE, marks |-> TRUE, loop |-> TRUE, list |-> 5]
Disk == [available |-> TRUE, parses |-> TRUE, imageSize |-> 9, kind |-> "PE32", headerSize |-> 3, limit |-> 4, length |-> 4, repairs |-> TRUE]
Image(mem, stored) ==
  [memory |-> mem, packedAt |-> 20, writable |-> FALSE, kind |-> "PE32", stub |-> Stub, packHeader |-> FALSE,
   byHeader |-> 0, afterList |-> 0, stored |-> stored, stream |-> Stream({1, 2}, {}, {}),
   packed |-> [exports |-> Dir(20, 2), resources |-> Dir(22, 3), imports |-> TRUE], record |-> TRUE,
   parses |-> TRUE, size |-> 9, machine |-> "PE32", magic |-> "wiped", disk |-> Disk, recovers |-> TRUE,
   rebuilds |-> [b \in {"unpacked", "packed", "fresh"} |-> TRUE], fresh |-> TRUE, others |-> <<>>]

\* What is left of each table: nothing, all of it, or something else.
Relocated == RelocationBlocks({<<9, 3>>, <<10, 3>>})
Junk == <<"junk">>
Remains(whole) == {<<>>, whole, <<Junk>>, <<Zero, Junk>>}
TablesAt(r, e, s, d) ==
  {Image(Fill(<<Lay(r, x), Lay(e, y), Lay(s, z), Lay(d, w), Loaded, Packed>>),
         <<Headers(Dirs(Dir(r, 3), Dir(e, 2), Dir(s, 3), Dir(d, 2)))>>) :
     x \in Remains(Relocated), y \in Remains(<<Export(e + 1), Text>>), z \in Remains(<<Table(2), Leaf(18), Leaf(19)>>),
     w \in {<<>>, <<CodeView, <<"debug", "Cet">>>>, <<Zero, <<"debug", "Cet">>>>}}
Tables == TablesAt(8, 11, 13, 16) \cup TablesAt(9, 11, 12, 16) \cup TablesAt(8, 10, 15, 16) \cup TablesAt(8, 11, 16, 13)

Whole == Fill(<<Lay(11, <<Export(12), Text>>), Loaded, Packed>>)
Usual == Headers(Dirs(Dir(8, 3), Dir(11, 2), Dir(13, 3), Dir(16, 2)))
Plain == Image(Whole, <<Usual>>)
Dented(h) ==
  {[h EXCEPT !.dirs.relocations = NoDirectory, !.dirs.debug = NoDirectory], [h EXCEPT !.dirs.relocations.size = 1],
   [h EXCEPT !.dirs.exports = NoDirectory, !.dirs.resources = NoDirectory], [h EXCEPT !.dirs.resources.size = 2],
   [h EXCEPT !.stripped = TRUE, !.guardCleared = TRUE], [h EXCEPT !.trailer = "Exact"],
   [h EXCEPT !.trailer = "Exact", !.exactRelocations = FALSE], [h EXCEPT !.list.present = FALSE],
   [h EXCEPT !.list.readable = FALSE], [h EXCEPT !.trailer = "Missing"], [h EXCEPT !.trailer = "Missing", !.list.modules = 0],
   [h EXCEPT !.list.at = 6], [h EXCEPT !.fits = FALSE], [h EXCEPT !.parses = FALSE], [h EXCEPT !.matches = FALSE],
   [h EXCEPT !.firstSection = 9], [h EXCEPT !.sections = 0], [h EXCEPT !.entry = FALSE, !.dirs.debug.at = 26], h}
Odd ==
  {[Plain EXCEPT !.stored = <<a, b>>, !.afterList = 2, !.packHeader = p, !.byHeader = k, !.stub = s] :
     a \in Dented(Usual), b \in {Usual, [Usual EXCEPT !.fits = FALSE], [Usual EXCEPT !.list.at = 6]}, p \in BOOLEAN, k \in 0..1,
     s \in {Stub, [Stub EXCEPT !.loop = FALSE], [Stub EXCEPT !.found = FALSE],
            [Stub EXCEPT !.loop = FALSE, !.recognised = FALSE]}}
Unsound ==
  {[m EXCEPT !.record = FALSE] : m \in TablesAt(8, 11, 13, 16)}
    \cup {[Image(Put(Whole, 8, <<Block(1, 9)>>), <<h>>) EXCEPT !.packed.exports = x, !.packed.resources = y, !.stream = t] :
            h \in Dented(Usual), x \in {NoDirectory, Dir(21, 2), Dir(20, 2)}, y \in {NoDirectory, Dir(23, 2), Dir(22, 3)},
            t \in {Stream({1, 2, 9}, {}, {}), CutOff(Stream({1, 2}, {}, {}), 2), Stream({1, 2}, {}, {})}}

\* How an image comes to be unpacked at all.
Known(knows, restores, kind) == [knows |-> knows, restores |-> restores, imports |-> kind]
Ends ==
  {[Plain EXCEPT !.writable = w, !.stub = s, !.parses = p, !.recovers = c, !.fresh = f,
                 !.others = o, !.rebuilds = [b \in {"unpacked", "packed", "fresh"} |-> b \in r]] :
     w \in BOOLEAN, s \in {Stub, [Stub EXCEPT !.marks = FALSE], [Stub EXCEPT !.found = FALSE]}, p \in BOOLEAN, c \in BOOLEAN,
     f \in BOOLEAN, r \in SUBSET {"unpacked", "packed", "fresh"},
     o \in {<<>>, <<Known(FALSE, FALSE, "Intact"), Known(TRUE, TRUE, "FilledIat"), Known(TRUE, FALSE, "Intact")>>,
            <<Known(TRUE, FALSE, "Intact")>>}}
Wiped ==
  {[Plain EXCEPT !.parses = FALSE, !.machine = m, !.magic = g, !.disk = d] :
     m \in {"PE32", "PE32+", "wiped"}, g \in {"PE32", "PE32+", "wiped"},
     d \in {Disk, [Disk EXCEPT !.available = FALSE], [Disk EXCEPT !.parses = FALSE], [Disk EXCEPT !.imageSize = 10],
            [Disk EXCEPT !.headerSize = 5], [Disk EXCEPT !.length = 2], [Disk EXCEPT !.repairs = FALSE]}}

MCImages ==
  Tables \cup Odd \cup Unsound \cup Ends \cup Wiped \cup {[Plain EXCEPT !.stream = t] : t \in Streams \cup CutStreams}
=============================================================================
