-------------------------------- MODULE Carve --------------------------------
(***************************************************************************)
(* pe/carve.rs and its calls in dump.rs (push_embedded,                    *)
(* push_region_embedded): the PEs stored inside the captured images and    *)
(* buffers are looked for at every offset and written to files of their    *)
(* own. The search of each buffer is cut off by two limits, and what it    *)
(* has not seen by then is counted.                                        *)
(***************************************************************************)
EXTENDS Headers

CONSTANTS
  MinEmbedded,       \* MIN_EMBEDDED_SIZE
  MaxEmbedded,       \* MAX_EMBEDDED_SIZE
  MaxPerImage,       \* MAX_EMBEDDED_PER_IMAGE
  MaxAttempts,       \* MAX_CARVE_ATTEMPTS
  BufferLists        \* bound: the captured images and buffers

ASSUME CarveAssumption ==
  /\ MinEmbedded \in Nat \ {0} /\ MaxEmbedded \in Nat
  /\ MaxPerImage \in Nat \ {0} /\ MaxAttempts \in Nat \ {0}

ASSUME BuffersAssumption == \A list \in BufferLists :
  /\ list # <<>> /\ list \in Seq({list[k] : k \in DOMAIN list})
  /\ \A k \in DOMAIN list : LET bytes == list[k].bytes IN
       /\ bytes.length \in Nat
       /\ \A at \in DOMAIN bytes.mz : bytes.mz[at] \in Nat
       /\ \A at \in DOMAIN bytes.heads : LET head == bytes.heads[at] IN
            /\ head.headers \in Nat /\ head.optional \in Nat
            /\ head.certificate.at \in Nat /\ head.certificate.size \in Nat
            /\ head.sections \in Seq([va : Nat, vs : Nat, pointer : Nat, raw : Nat])

VARIABLES
  buffers,   \* what is searched, in this order: [source, bytes, ...]
  offset,    \* where carve_embedded is in the buffer
  attempts,  \* how many offsets it has tried to parse at
  found,     \* EmbeddedPe: [offset, length, extension]
  results    \* the CarveResult of each buffer that is done: [found, unscanned, attempts]

vars == <<buffers, offset, attempts, found, results>>

Greater(a, b) == IF a > b THEN a ELSE b

\* The first offset: 0 of an image is its own header.
StartOf(source) == IF source = "Image" THEN 1 ELSE 0

Buffer == buffers[Len(results) + 1]
Bytes == Buffer.bytes

-----------------------------------------------------------------------------
\* certificate_end.
CertificateEnd(head) ==
  IF head.certificate.at = 0 \/ head.certificate.size = 0 THEN 0
  ELSE head.certificate.at + head.certificate.size

\* Mutant: the data of the last section ends the file.
LastSectionEnds(head) ==
  LET s == head.sections[Len(head.sections)]
  IN  Greater(Greater(head.headers, s.pointer + s.raw), CertificateEnd(head))

\* embedded_length.
EmbeddedLength(head) ==
  LET ends == {head.headers, CertificateEnd(head)}
                \cup {head.sections[i].pointer + head.sections[i].raw : i \in DOMAIN head.sections}
  IN  CHOOSE end \in ends : \A other \in ends : other <= end

\* classify.
Extension(head) ==
  IF head.subsystem = "native" THEN "sys" ELSE IF head.dll THEN "dll" ELSE "exe"

\* try_carve: the files that begin at an offset, one at most.
TryCarve(bytes, at) ==
  LET nt == ParseDiskImage(bytes, at)
      length == EmbeddedLength(bytes.heads[nt])
  IN  IF nt = None THEN {}
      ELSE IF length \in MinEmbedded..MaxEmbedded /\ at + length <= bytes.length
        THEN {[offset |-> at, length |-> length, extension |-> Extension(bytes.heads[nt])]}
      ELSE {}

-----------------------------------------------------------------------------
Init ==
  /\ buffers \in BufferLists
  /\ offset = StartOf(buffers[1].source) /\ attempts = 0 /\ found = <<>> /\ results = <<>>

\* The condition of the loop of carve_embedded.
Looking ==
  /\ Len(results) < Len(buffers)
  /\ offset <= Bytes.length - DosHeader
  /\ Len(found) < MaxPerImage /\ attempts < MaxAttempts

SkipByte ==
  /\ Looking /\ offset \notin DOMAIN Bytes.mz
  /\ offset' = offset + 1
  /\ UNCHANGED <<buffers, attempts, found, results>>

Attempt ==
  /\ Looking /\ offset \in DOMAIN Bytes.mz
  /\ attempts' = attempts + 1
  /\ \/ /\ TryCarve(Bytes, offset) = {}
        /\ offset' = offset + 1 /\ UNCHANGED found
     \/ \E embedded \in TryCarve(Bytes, offset) :
          offset' = offset + embedded.length /\ found' = Append(found, embedded)
  /\ UNCHANGED <<buffers, results>>

\* Mutant: the last place a PE could begin at is not counted.
UnscannedShort(bytes, from) == Greater(bytes.length - DosHeader - from, 0)

Unscanned(bytes, from) == Greater(bytes.length - DosHeader + 1 - from, 0)

\* push_embedded and push_region_embedded, and on to the next buffer.
Report ==
  /\ ~ Looking /\ Len(results) < Len(buffers)
  /\ results' = Append(results, [found |-> found, unscanned |-> Unscanned(Bytes, offset), attempts |-> attempts])
  /\ offset' = IF Len(results') < Len(buffers) THEN StartOf(buffers[Len(results') + 1].source) ELSE 0
  /\ attempts' = 0 /\ found' = <<>>
  /\ UNCHANGED buffers

Next == SkipByte \/ Attempt \/ Report
Spec == Init /\ [][Next]_vars

-----------------------------------------------------------------------------
Starts(k) == StartOf(buffers[k].source)..(buffers[k].bytes.length - DosHeader)
CoveredBy(f) == f.offset..(f.offset + f.length - 1)

\* The files carved from a buffer do not overlap. A place where a PE could begin
\* was looked at, or lies in a file, or is counted as not scanned, and places go
\* unscanned only behind the others and when a limit was reached: every PE that
\* starts in what was scanned is written, alone or inside another
\* (carve_embedded).
EveryPlaceAccounted ==
  \A k \in DOMAIN results :
    LET r == results[k]
        bytes == buffers[k].bytes
        scanned == {at \in Starts(k) : at < bytes.length - DosHeader + 1 - r.unscanned}
    IN  /\ \A i, j \in DOMAIN r.found : i < j => CoveredBy(r.found[i]) \cap CoveredBy(r.found[j]) = {}
        /\ \A at \in scanned : TryCarve(bytes, at) # {} => \E i \in DOMAIN r.found : at \in CoveredBy(r.found[i])
        /\ \A i \in DOMAIN r.found : r.found[i].offset \in scanned
        /\ r.unscanned > 0 => Len(r.found) = MaxPerImage \/ r.attempts = MaxAttempts

\* A carved file is one by itself: cut out of its buffer, it holds the data of
\* every section and its signature, and if the header does not understate its
\* own size it is a PE again, of the same length and kind (try_carve,
\* embedded_length, parse_disk_image).
CutOut(bytes, f) ==
  [length |-> f.length,
   mz |-> [at \in {0} |-> bytes.mz[f.offset]],
   heads |-> [at \in {bytes.mz[f.offset]} |-> bytes.heads[f.offset + at]]]
CarvedStandAlone ==
  \A k \in DOMAIN results : \A i \in DOMAIN results[k].found :
    LET f == results[k].found[i]
        nt == buffers[k].bytes.mz[f.offset]
        head == buffers[k].bytes.heads[f.offset + nt]
    IN  /\ \A s \in DOMAIN head.sections : head.sections[s].pointer + head.sections[s].raw <= f.length
        /\ CertificateEnd(head) <= f.length
        /\ OptionalEnd(head, nt) + TableSize(head) <= head.headers =>
             TryCarve(CutOut(buffers[k].bytes, f), 0) = {[f EXCEPT !.offset = 0]}

\* Which header an image is rebuilt from does not depend on what is stored in its
\* sections: if its DOS header is intact or points at nothing, the parser finds the
\* header the image was mapped by or none at all, and the former whenever it is one
\* a search believes. A stored PE is taken for it only if its own sections all begin
\* above the place it is stored at: headers are compared with the sections they
\* declare (require_headers_before_sections), not with those of the image.
OwnHeaderOrNone ==
  \A k \in DOMAIN buffers :
    LET bytes == buffers[k].bytes
        own == buffers[k].own
        header == ParseMemoryImage(bytes)
        Above(s) == MappedSize(s) # 0 => header < s.va
    IN  buffers[k].source = "Image" /\ (Pointed(bytes, 0) = own \/ Pointed(bytes, 0) \notin DOMAIN bytes.heads) =>
          /\ header \in {own, None} \/ \A i \in DOMAIN bytes.heads[header].sections : Above(bytes.heads[header].sections[i])
          /\ Candidate(bytes, own, TRUE, TRUE) => header = own
=============================================================================
