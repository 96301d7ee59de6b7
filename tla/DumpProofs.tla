----------------------------- MODULE DumpProofs -----------------------------
(***************************************************************************)
(* Theorems about Dump for any memory, any limits and any target.          *)
(***************************************************************************)
EXTENDS Dump, FiniteSetTheorems, WellFoundedInduction, TLAPS

\* Before and while the images are chosen, and while the dump is built.
Early == pc \in {"query", "measure", "list", "resolve"}
Capturing == pc \in {"scan", "read", "unclaimed", "carve", "raw", "annotate", "captured"}
Building == pc \in {"build", "write", "exit"}

\* Positions and sizes refer to allocations that the region list holds.
Reading ==
  /\ Early => /\ toScan = {} /\ hidden = {} /\ toRead = {} /\ toCarve = {}
              /\ toDump = {}
  /\ Early \/ pc = "scan" => images = {} /\ total = 0
  /\ \A b \in toScan \cup toDump : regions[b].kind = "private"
  /\ \A c \in toCarve : regions[c[2]].kind = "private"
  /\ \A h \in hidden : /\ regions[h[1]].kind = "private"
                       /\ h[2] < regions[h[1]].size
                       /\ regions[h[1]].size - h[2] <= MaxImageSize
  /\ \A i \in toRead : /\ regions[i[1]].kind # "free"
                       /\ IF i[3] THEN <<i[1], i[2]>> \in hidden ELSE i[2] = 0
  /\ pc \in {"unclaimed", "carve", "raw", "annotate", "captured"} => toRead = {}

\* The main image is the one at the listed main module, if modules are listed.
Mains ==
  /\ listedMain = None => \A b \in Bases : modules[b] = None
  /\ listedMain # None => modules[listedMain] # None
  /\ Capturing \/ pc \in {"build", "write"} \/ files # {} =>
       (listedMain # None => mainBase = listedMain)
  /\ \A i \in images \cup toBuild \cup files :
       i.main => i.base = mainBase /\ i.page = 0

\* The main image, if its memory is there and not too large, is read or will be.
MainSafe ==
  Capturing /\ mainBase # None => mainBase \in Bases /\
    (regions[mainBase].kind # "free" /\ regions[mainBase].size <= MaxImageSize
       => <<mainBase, 0, FALSE>> \in toRead \/ \E i \in images : i.main)

\* As long as no image is over the limit on images.
Enough == Cardinality(Bases) <= MaxImages

\* The image of an allocation by itself, not a PE found in private memory.
Plain(b, i) == i.base = b /\ i.page = 0 /\ ~ i.hidden

\* What has become of the module listed at b: it is gone, will be read, is read, is
\* too large, or does not fit beside the images read so far.
Accounted(b) ==
  \/ regions[b].kind = "free"
  \/ <<b, 0, FALSE>> \in toRead
  \/ \E i \in images : Plain(b, i)
  \/ regions[b].size > MaxImageSize
  \/ total + regions[b].size > ImageBudget

\* A hidden PE at the base of a listed module never stands in for the module.
Captures ==
  Enough => \A b \in Bases : modules[b] # None =>
    /\ Capturing => Accounted(b)
    /\ (\E i \in images : i.base = b /\ i.page = 0) => \E i \in images : Plain(b, i)

\* The image of a listed module has a name.
HasName ==
  \A i \in images \cup toBuild : Plain(i.base, i) /\ modules[i.base] # None => i.name # None

\* The report is empty until the images are built.
Untouched == ~ Building => files = {} /\ toBuild = {} /\ noMain = FALSE /\ exit = None

\* It is complete when mempe says so, and given up when there is no main image.
Report ==
  /\ noMain => files = {} /\ pc \in {"write", "exit"}
  /\ pc \in {"write", "exit"} => toBuild = {} \/ noMain
  /\ exit = 0 => pc = "exit" /\ IsComplete

\* While no DLL has failed, the image of each listed one is in the report or is
\* still to be built, unless the build was given up with the main image.
Built ==
  Enough /\ Building /\ only = All /\ dllFailures = 0 =>
    \/ toBuild = {} /\ ~ MainRebuilt
    \/ \A b \in Bases : modules[b] # None /\ b # listedMain =>
         \E i \in toBuild \cup files : Plain(b, i) /\ (i \in toBuild => i.name # None /\ ~ i.main)

\* While no image asked for has failed, each one with a name is in the report or
\* still to be built, and a name that selected an image has one in the report.
Selection ==
  /\ ~ Building => failures = {} /\ selected = 0
  /\ (pc \in {"build", "write"} \/ exit = 0) /\ only # All /\ ~ noMain /\ failures = {} =>
       /\ \A i \in images : i.name # None /\ Selects(i) => i \in toBuild \cup files
       /\ only.kind = "name" /\ selected > 0 => files # {}

\* The mapped images of the region list that are neither read nor to be read.
Left == {b \in ImagesAt(regions) : /\ <<b, 0, FALSE>> \notin toRead
                                   /\ ~ \E i \in images : i.base = b /\ ~ i.hidden}

SkippedCounted == Capturing => Cardinality(Left) <= skipped

\* A clone is the memory that the region list describes.
FrozenView == cloned /\ (pc = "resolve" \/ Capturing) => regions = clone

\* The PE of the allocation at b is found, if a clone was searched and all of the
\* allocation can be read.
Searched(b) ==
  LET now == regions[b]
  IN  cloned /\ now.pe # None /\ now.readable = now.size /\ now.size - now.pe.page <= MaxImageSize
        => <<b, now.pe.page>> \in hidden

\* While no page is counted as unscanned, executable memory is searched to its PE.
ScanCounted ==
  /\ Capturing /\ unscanned = 0 => \A b \in Bases : ExecutableAt(b) => b \in toScan \/ Searched(b)
  /\ Capturing /\ pc # "scan" => toScan = {}

\* While no image is counted as skipped, each PE found is read or will be.
HiddenCounted ==
  Capturing /\ pc # "scan" /\ skipped = 0 => \A h \in hidden :
    \/ <<h[1], h[2], TRUE>> \in toRead
    \/ \E i \in images : i.base = h[1] /\ i.page = h[2] /\ i.hidden

\* While no page is counted as unscanned, executable memory that gave up no PE is
\* carved as far as it can be read, or will be.
CarveCounted ==
  /\ pc \in {"carve", "raw", "annotate", "captured"} /\ unscanned = 0 => \A b \in Bases :
       ExecutableAt(b) => \/ b \in Claimed \/ <<0, b>> \in toCarve
                          \/ regions[b].readable = 0 \/ <<b, regions[b].readable>> \in carved
  /\ pc \in {"raw", "annotate", "captured"} => toCarve = {}

\* The invariant in layers: each is inductive given those before it.
Shape == TypeOK /\ Reading
MainInv == Untouched /\ Mains /\ MainSafe
DumpInv == Captures /\ HasName /\ Report /\ Built
Counts == SkippedCounted /\ FrozenView /\ ScanCounted /\ HiddenCounted /\ CarveCounted

-----------------------------------------------------------------------------
\* Facts about the operators the model is built from.

\* A set of natural numbers has a least element, such as the sorted maps yield first.
LEMMA Least ==
  ASSUME NEW S \in SUBSET Nat, S # {}
  PROVE  \E x \in S : \A y \in S : x <= y
<1>1. PICK x \in S : \A y \in S : ~ (<<y, x>> \in OpToRel(<, Nat))
  BY NatLessThanWellFounded, WFMin
<1>2. \A y \in S : ~ (y < x)
  BY <1>1 DEF OpToRel
<1>3. x \in Nat /\ \A y \in S : y \in Nat
  BY <1>1
<1>4. \A y \in S : x <= y
  BY <1>2, <1>3
<1>5. QED
  BY <1>1, <1>4

\* What the sorted maps yield first is in them.
LEMMA FirstIn == ASSUME NEW S \in SUBSET Nat, S # {} PROVE First(S) \in S
BY Least DEF First

\* The next image to read is still to be read, and is a hidden one only when no
\* other is left.
LEMMA NextIsUnread ==
  ASSUME CaptureTypeOK, toRead # {}
  PROVE  NextToRead \in toRead /\ (NextToRead[3] => \A i \in toRead : i[3])
<1> DEFINE plain == {i \in toRead : ~ i[3]}
           pool == IF plain # {} THEN plain ELSE toRead
<1>1. pool # {} /\ pool \subseteq toRead
  OBVIOUS
<1>2. \A i \in toRead : i[1] \in Nat
  BY CaptureAssumption DEF CaptureTypeOK
<1>3. PICK n \in {i[1] : i \in pool} : \A m \in {i[1] : i \in pool} : n <= m
  <2>1. {i[1] : i \in pool} # {} /\ {i[1] : i \in pool} \in SUBSET Nat
    BY <1>1, <1>2
  <2>2. QED
    BY <2>1, Least
<1>4. \E i \in pool : \A j \in pool : i[1] <= j[1]
  BY <1>3
<1>5. NextToRead \in pool
  BY <1>4 DEF NextToRead
<1>6. QED
  BY <1>1, <1>5

\* The next buffer to carve is still to be carved.
LEMMA NextIsUncarved == ASSUME CaptureTypeOK, toCarve # {} PROVE NextToCarve \in toCarve
<1> DEFINE executable == {c \in toCarve : c[1] = 0}
           pool == IF executable # {} THEN executable ELSE toCarve
<1>1. pool # {} /\ pool \subseteq toCarve
  OBVIOUS
<1>2. \A c \in toCarve : c[2] \in Nat
  BY CaptureAssumption DEF CaptureTypeOK
<1>3. PICK n \in {c[2] : c \in pool} : \A m \in {c[2] : c \in pool} : n <= m
  <2>1. {c[2] : c \in pool} # {} /\ {c[2] : c \in pool} \in SUBSET Nat
    BY <1>1, <1>2
  <2>2. QED
    BY <2>1, Least
<1>4. \E c \in pool : \A d \in pool : c[2] <= d[2]
  BY <1>3
<1>5. NextToCarve \in pool
  BY <1>4 DEF NextToCarve
<1>6. QED
  BY <1>1, <1>5

\* What an allocation can be.
LEMMA Kinds ==
  ASSUME NEW a \in Allocations
  PROVE  /\ a.kind \in {"free", "image", "private"}
         /\ a.kind # "free" => a.size \in Nat \ {0}
         /\ a.kind = "image" => a.file \in Files
         /\ a.kind = "private" => /\ a.pe = None \/ a.pe.page \in Nat
                                  /\ a.readable \in 0..a.size
<1>1. CASE a = Free
  BY <1>1 DEF Free
<1>2. CASE a # Free
  BY <1>2, CaptureAssumption
<1>3. QED
  BY <1>1, <1>2

\* The limits are natural numbers.
LEMMA Limits ==
  /\ MaxImages \in Nat /\ MaxImageSize \in Nat /\ ImageBudget \in Nat
  /\ ScanBudget \in Nat /\ CarveBudget \in Nat /\ RawBudget \in Nat
BY CaptureAssumption

\* Every subset of the bases is finite and has at most as many elements.
LEMMA FewBases ==
  ASSUME NEW S \in SUBSET Bases, NEW T \in SUBSET S
  PROVE  /\ IsFiniteSet(S) /\ Cardinality(S) \in Nat /\ Cardinality(T) \in Nat
         /\ Cardinality(T) <= Cardinality(S)
<1>1. IsFiniteSet(S)
  BY CaptureAssumption, FS_Subset
<1>2. IsFiniteSet(T) /\ Cardinality(T) <= Cardinality(S)
  BY <1>1, FS_Subset
<1>3. QED
  BY <1>1, <1>2, FS_CardinalityType

\* One element more makes a set larger by at most one.
LEMMA OneMore ==
  ASSUME NEW S, IsFiniteSet(S), Cardinality(S) \in Nat, NEW x
  PROVE  Cardinality(S \cup {x}) <= Cardinality(S) + 1
<1>1. Cardinality(S \cup {x}) = IF x \in S THEN Cardinality(S) ELSE Cardinality(S) + 1
  BY FS_AddElement
<1>2. QED
  BY <1>1

\* group_images keeps every image while there are no more than the limit.
LEMMA AllKept ==
  ASSUME Enough, NEW bases \in SUBSET Bases, NEW main
  PROVE  Kept(bases, main) = bases
<1> SUFFICES ASSUME NEW b \in bases
             PROVE  Cardinality({c \in bases : c < b}) < MaxImages
  BY DEF Kept
<1> DEFINE below == {c \in bases : c < b}
<1>0. \A c \in Bases : c \in Nat
  BY CaptureAssumption
<1>1. b \in Bases /\ below \in SUBSET (Bases \ {b})
  BY <1>0
<1>2. Cardinality(Bases \ {b}) = Cardinality(Bases) - 1
  BY <1>1, CaptureAssumption, FS_RemoveElement
<1>3. Cardinality(below) <= Cardinality(Bases \ {b}) /\ Cardinality(below) \in Nat
  BY <1>1, FewBases
<1>4. Cardinality(Bases) \in Nat
  BY FewBases
<1>5. QED
  BY <1>2, <1>3, <1>4, Limits DEF Enough

\* What the proofs need of the constants, without the rest of the assumption.
LEMMA Constant ==
  /\ Bases \subseteq Nat /\ None \notin Bases /\ None # 0 /\ None \notin Files
  /\ Program \in Files /\ Namesakes \subseteq Files
  /\ MaxChanges \in Nat
<1>1. Bases \subseteq Nat /\ MaxChanges \in Nat
  BY CaptureAssumption
<1>2. Program \in Files /\ Namesakes \subseteq Files
  BY CaptureAssumption
<1>3. None \notin Files /\ None \notin Nat
  BY CaptureAssumption
<1>4. None # 0 /\ None \notin Bases
  <2>1. 0 \in Nat
    OBVIOUS
  <2>2. QED
    BY <1>1, <1>3, <2>1, Zenon
<1>5. QED
  BY <1>1, <1>2, <1>3, <1>4

-----------------------------------------------------------------------------
\* First layer: types, and positions that stay in their allocations.

\* The target has done nothing to mempe when mempe starts.
LEMMA InitShape == Init => Shape
<1> SUFFICES ASSUME Init PROVE Shape
  OBVIOUS
<1>1. CaptureTypeOK
  <2>1. changes \in 0..MaxChanges /\ scanned \in 0..ScanBudget /\ total \in Nat /\ remaining \in Nat
        /\ skipped \in Nat /\ unscanned \in Nat
    BY Constant, Limits DEF Init, CaptureInit
  <2>2. live \in [Bases -> Allocations] /\ clone \in [Bases -> Allocations]
        /\ regions \in [Bases -> Allocations] /\ cloned \in BOOLEAN
        /\ modules \in [Bases -> Files \cup {None}]
        /\ listedMain \in Bases \cup {None} /\ mainBase \in Bases \cup {None}
    BY DEF Init, CaptureInit
  <2>3. QED
    BY <2>1, <2>2 DEF Init, CaptureInit, CaptureTypeOK
<1>2. TypeOK
  BY <1>1, RequestsAssumption DEF Init, CaptureInit, TypeOK, CapturePlaces
<1>3. Reading
  BY DEF Init, CaptureInit, Reading, Early
<1>4. QED
  BY <1>2, <1>3 DEF Shape

\* Steps of mempe's capture leave what dump.rs keeps alone.
Outside == UNCHANGED <<request, toBuild, report, exit>>

\* The target's changes touch no view that mempe has taken.
LEMMA ShapeChange == ASSUME Shape, Change, Outside PROVE Shape'
<1> USE DEF Shape, Change, Outside, request, report, listing, view, scan, reading, buffers, counts
<1>1. live' \in [Bases -> Allocations]
  BY DEF TypeOK, CaptureTypeOK
<1>2. TypeOK'
  BY <1>1, Constant DEF TypeOK, CaptureTypeOK
<1>3. Reading'
  BY DEF Reading, Early
<1>4. QED
  BY <1>2, <1>3

\* The main module is one of the listed ones.
LEMMA ShapeQuery == ASSUME Shape, Query, Outside PROVE Shape'
<1> USE DEF Shape, Outside, request, report, memory, view, scan, reading, buffers, counts
<1>1. UNCHANGED <<memory, view, scan, reading, buffers, counts>> /\ pc' \in {"measure", "error"}
  BY DEF Query
<1>2. modules' \in [Bases -> Files \cup {None}] /\ listedMain' \in Bases \cup {None}
  <2>1. CASE UNCHANGED listing
    BY <2>1 DEF TypeOK, CaptureTypeOK, listing
  <2>2. CASE \E listed \in SUBSET ImagesAt(live) :
               /\ listedMain' \in listed
               /\ modules' = [b \in Bases |-> IF b \in listed THEN live[b].file ELSE None]
    <3>1. PICK listed \in SUBSET ImagesAt(live) :
               /\ listedMain' \in listed
               /\ modules' = [b \in Bases |-> IF b \in listed THEN live[b].file ELSE None]
      BY <2>2
    <3>2. \A b \in listed : b \in Bases /\ live[b] \in Allocations /\ live[b].kind = "image"
      BY DEF TypeOK, CaptureTypeOK, ImagesAt
    <3>3. \A b \in listed : live[b].file \in Files
      BY <3>2, Kinds
    <3>4. QED
      BY <3>1, <3>2, <3>3
  <2>3. QED
    BY <2>1, <2>2 DEF Query, Only
<1>3. TypeOK'
  BY <1>1, <1>2 DEF TypeOK, CaptureTypeOK, CapturePlaces
<1>4. Reading'
  BY <1>1 DEF Query, Reading, Early
<1>5. QED
  BY <1>3, <1>4

\* The clone and the region list are views of the target's memory.
LEMMA ShapeViews ==
  ASSUME Shape, Acquire \/ CaptureFails \/ ListRegions, Outside
  PROVE  Shape'
<1> USE DEF Shape, Outside, request, report, memory, listing, view, scan, reading, buffers, counts
<1>1. CASE Acquire
  BY <1>1 DEF Acquire, TypeOK, CaptureTypeOK, CapturePlaces, Reading, Early
<1>2. CASE CaptureFails
  BY <1>2 DEF CaptureFails, TypeOK, CaptureTypeOK, CapturePlaces, Reading, Early
<1>3. CASE ListRegions
  <2>1. \A b \in Bases : Seen(b) \in Allocations
    BY DEF Seen, TypeOK, CaptureTypeOK
  <2>2. TypeOK'
    BY <1>3, <2>1 DEF ListRegions, TypeOK, CaptureTypeOK, CapturePlaces
  <2>3. Reading'
    BY <1>3 DEF ListRegions, Reading, Early
  <2>4. QED
    BY <2>2, <2>3
<1>4. QED
  BY <1>1, <1>2, <1>3

\* What is scanned and read is picked from the bases.
LEMMA ShapeResolve == ASSUME Shape, ResolveMain, Outside PROVE Shape'
<1> USE DEF Shape, Outside, request, report, memory, listing, scan, reading, buffers, counts
<1> DEFINE main == MainAmong(ImageBases)
           kept == Kept(ImageBases, main)
<1>1. ImageBases \in SUBSET Bases
  BY DEF ImageBases, ImagesAt, TypeOK, CaptureTypeOK
<1>2. main \in Bases \cup {None}
  <2>1. \A S \in SUBSET Bases : S # {} => First(S) \in Bases
    BY FirstIn, Constant
  <2>2. QED
    BY <1>1, <2>1 DEF MainAmong, Only, TypeOK, CaptureTypeOK
<1>3. kept \in SUBSET ImageBases
  BY DEF Kept
<1>4. OverLimit(kept) \in Nat
  <2>1. Cardinality(kept) \in Nat /\ Cardinality(ImageBases) \in Nat
        /\ Cardinality(kept) <= Cardinality(ImageBases)
    BY <1>1, <1>3, FewBases
  <2>2. QED
    BY <2>1 DEF OverLimit
<1>5. /\ mainBase' = main /\ skipped' = OverLimit(kept) /\ pc' = "scan"
      /\ toRead' = {<<b, 0, FALSE>> : b \in {c \in kept : regions[c].kind # "free"}}
      /\ toScan' = {b \in Bases : ExecutableAt(b)}
      /\ UNCHANGED <<memory, listing, clone, cloned, regions, scanned, hidden, total, images,
                     buffers, unscanned>>
  BY DEF ResolveMain
<1> HIDE DEF main, kept
<1>6. toRead' \subseteq Bases \X Nat \X BOOLEAN
  <2>1. \A b \in Bases : <<b, 0, FALSE>> \in Bases \X Nat \X BOOLEAN
    OBVIOUS
  <2>2. QED
    BY <1>1, <1>3, <1>5, <2>1
<1>7. TypeOK'
  BY <1>2, <1>4, <1>5, <1>6 DEF TypeOK, CaptureTypeOK, CapturePlaces
<1>8. Reading'
  <2>1. images = {} /\ total = 0 /\ toDump = {} /\ toCarve = {} /\ hidden = {} /\ pc = "resolve"
    BY DEF ResolveMain, Reading, Early
  <2>2. \A b \in toScan' : regions'[b].kind = "private"
    BY <1>5 DEF ExecutableAt
  <2>3. \A i \in toRead' : regions'[i[1]].kind # "free" /\ i[2] = 0 /\ i[3] = FALSE
    <3> SUFFICES ASSUME NEW i \in toRead'
                 PROVE  regions'[i[1]].kind # "free" /\ i[2] = 0 /\ i[3] = FALSE
      OBVIOUS
    <3>1. PICK b \in kept : i = <<b, 0, FALSE>> /\ regions[b].kind # "free"
      BY <1>5
    <3>2. QED
      BY <1>5, <3>1
  <2>4. UNCHANGED <<images, total, toDump, toCarve, hidden>> /\ pc' = "scan"
    BY <1>5
  <2>5. QED
    BY <2>1, <2>2, <2>3, <2>4 DEF Reading, Early
<1>9. QED
  BY <1>7, <1>8

\* A scan stays in its page budget, and a PE it finds starts and ends in its allocation.
LEMMA ShapeScan == ASSUME Shape, ScanAllocation, Outside PROVE Shape'
<1> USE DEF Shape, Outside, request, report, memory, listing, view, reading, buffers, counts
<1> DEFINE b == First(toScan)
           size == regions[b].size
           readable == regions[b].readable
           pages == Scannable(readable)
<1>0. PICK headers \in Readings(b) :
        LET found == {p \in headers : p < pages}
        IN  IF found # {}
              THEN /\ hidden' = hidden \cup ({b} \X found)
                   /\ scanned' = scanned + First(found) + 1
                   /\ UNCHANGED unscanned
              ELSE /\ scanned' = scanned + pages
                   /\ unscanned' = unscanned + Counted(readable - pages)
                   /\ UNCHANGED hidden
  BY DEF ScanAllocation
<1> DEFINE found == {p \in headers : p < pages}
<1>1. /\ pc = "scan"
      /\ \/ /\ found # {}
            /\ hidden' = hidden \cup ({b} \X found)
            /\ scanned' = scanned + First(found) + 1
            /\ UNCHANGED unscanned
         \/ /\ scanned' = scanned + pages
            /\ unscanned' = unscanned + Counted(readable - pages)
            /\ UNCHANGED hidden
      /\ toScan' = toScan \ {b}
      /\ UNCHANGED <<memory, pc, listing, view, reading, buffers, skipped>>
  BY <1>0 DEF ScanAllocation
<1>2. b \in Bases /\ regions[b] \in Allocations /\ regions[b].kind = "private"
  <2>1. toScan # {} /\ toScan \in SUBSET Nat
    BY Constant DEF ScanAllocation, TypeOK, CaptureTypeOK
  <2>2. b \in toScan
    BY <2>1, FirstIn
  <2>3. QED
    BY <2>2 DEF Reading, TypeOK, CaptureTypeOK
<1>3. size \in Nat \ {0} /\ readable \in 0..size
  BY <1>2, Kinds
<1>4. /\ pages \in 0..readable /\ scanned + pages <= ScanBudget
      /\ scanned \in Nat /\ scanned <= ScanBudget /\ ScanBudget \in Nat
  BY <1>3, Limits DEF Scannable, TypeOK, CaptureTypeOK
<1>5. \A p \in HeadersIn(b) : p \in Nat /\ size - p <= MaxImageSize
  <2>1. Seen(b) \in Allocations
    BY <1>2 DEF Seen, TypeOK, CaptureTypeOK
  <2>2. Seen(b).kind = "private" /\ Seen(b).pe # None => Seen(b).pe.page \in Nat
    BY <2>1, Kinds
  <2>3. QED
    BY <2>2 DEF HeadersIn
<1>6. found \in SUBSET (0..(size - 1)) /\ \A p \in found : p < pages /\ size - p <= MaxImageSize
  <2>1. headers \subseteq HeadersIn(b)
    BY DEF Readings
  <2>2. QED
    BY <1>3, <1>4, <1>5, <2>1
<1> HIDE DEF found, pages, size, readable, b
<1>7. found # {} => First(found) \in Nat /\ First(found) < pages
  <2>1. found \in SUBSET Nat
    BY <1>3, <1>6
  <2>2. found # {} => First(found) \in found
    BY <2>1, FirstIn
  <2>3. QED
    BY <1>6, <2>1, <2>2
<1>8. scanned' \in 0..ScanBudget
  BY <1>1, <1>3, <1>4, <1>7
<1>9. unscanned' \in Nat
  BY <1>1, <1>3, <1>4 DEF Counted, TypeOK, CaptureTypeOK
<1>10. \A h \in hidden' : h \in hidden \/ (h \in {b} \X found)
  BY <1>1
<1>11. hidden' \subseteq Bases \X Nat
  <2>1. found \subseteq Nat
    BY <1>3, <1>6
  <2>2. QED
    BY <1>2, <1>10, <2>1 DEF TypeOK, CaptureTypeOK
<1>12. TypeOK'
  BY <1>1, <1>8, <1>9, <1>11 DEF TypeOK, CaptureTypeOK, CapturePlaces
<1>13. \A h \in hidden' : /\ regions[h[1]].kind = "private"
                          /\ h[2] < regions[h[1]].size
                          /\ regions[h[1]].size - h[2] <= MaxImageSize
  <2> SUFFICES ASSUME NEW h \in hidden'
               PROVE  /\ regions[h[1]].kind = "private"
                      /\ h[2] < regions[h[1]].size
                      /\ regions[h[1]].size - h[2] <= MaxImageSize
    OBVIOUS
  <2>1. CASE h \in hidden
    BY <2>1 DEF Reading
  <2>2. CASE h \in {b} \X found
    <3>1. PICK p \in found : h = <<b, p>>
      BY <2>2
    <3>2. p < size /\ size - p <= MaxImageSize
      BY <1>3, <1>6
    <3>3. QED
      BY <1>2, <3>1, <3>2 DEF size
  <2>3. QED
    BY <1>10, <2>1, <2>2
<1>14. hidden \subseteq hidden'
  BY <1>1
<1>15. Reading'
  BY <1>1, <1>13, <1>14 DEF Reading, Early
<1>16. QED
  BY <1>12, <1>15

\* The PEs found are read after the images.
LEMMA ShapeStart == ASSUME Shape, StartReading, Outside PROVE Shape'
<1> USE DEF Shape, Outside, request, report, memory, listing, view, scan, buffers, counts
<1> DEFINE new == {<<h[1], h[2], TRUE>> : h \in hidden}
<1>1. /\ pc = "scan" /\ pc' = "read" /\ toRead' = toRead \cup new
      /\ UNCHANGED <<memory, listing, view, scan, total, images, buffers, counts>>
  BY DEF StartReading
<1>2. \A i \in new : /\ i \in Bases \X Nat \X BOOLEAN /\ i[3] = TRUE
                     /\ <<i[1], i[2]>> \in hidden /\ regions[i[1]].kind = "private"
  <2> SUFFICES ASSUME NEW i \in new
               PROVE  /\ i \in Bases \X Nat \X BOOLEAN /\ i[3] = TRUE
                      /\ <<i[1], i[2]>> \in hidden /\ regions[i[1]].kind = "private"
    OBVIOUS
  <2>1. PICK h \in hidden : i = <<h[1], h[2], TRUE>>
    OBVIOUS
  <2>2. h \in Bases \X Nat
    BY DEF TypeOK, CaptureTypeOK
  <2>3. h = <<h[1], h[2]>> /\ h[1] \in Bases /\ h[2] \in Nat
    BY <2>2
  <2>4. QED
    BY <2>1, <2>3 DEF Reading
<1> HIDE DEF new
<1>3. TypeOK'
  BY <1>1, <1>2 DEF TypeOK, CaptureTypeOK, CapturePlaces
<1>4. Reading'
  BY <1>1, <1>2 DEF Reading, Early
<1>5. QED
  BY <1>3, <1>4

\* The image that ReadImage would capture, and its size.
NextSize == regions[NextToRead[1]].size - NextToRead[2]
NextIsMain == NextToRead[1] = mainBase /\ NextToRead[2] = 0
NextImage ==
  [base |-> NextToRead[1], page |-> NextToRead[2], hidden |-> NextToRead[3], main |-> NextIsMain,
   name |-> IF NextToRead[2] = 0 THEN modules[NextToRead[1]] ELSE None,
   listed |-> NextToRead[2] = 0 /\ modules[NextToRead[1]] # None]
Taken == NextSize <= MaxImageSize /\ Fits(NextSize, NextIsMain /\ ~ NextToRead[3])

\* What ReadImage does, in these terms.
LEMMA Reads ==
  ASSUME ReadImage
  PROVE  /\ pc = "read" /\ toRead # {} /\ UNCHANGED <<memory, pc, listing, view, scan, buffers, unscanned>>
         /\ toRead' = toRead \ {NextToRead}
         /\ Taken => images' = images \cup {NextImage} /\ total' = total + NextSize
                     /\ UNCHANGED skipped
         /\ ~ Taken => skipped' = skipped + 1 /\ UNCHANGED <<images, total>>
<1>1. /\ pc = "read" /\ toRead # {} /\ toRead' = toRead \ {NextToRead}
      /\ UNCHANGED <<memory, pc, listing, view, scan, buffers, unscanned>>
  BY DEF ReadImage
<1>2. IF Taken
        THEN images' = images \cup {NextImage} /\ total' = total + NextSize /\ UNCHANGED skipped
        ELSE skipped' = skipped + 1 /\ UNCHANGED <<images, total>>
  BY DEF ReadImage, NextSize, NextIsMain, NextImage, Taken
<1>3. QED
  BY <1>1, <1>2

\* The next image is still to be read, and its size is one.
LEMMA NextFacts ==
  ASSUME Shape, toRead # {}
  PROVE  /\ NextToRead \in toRead /\ NextToRead[1] \in Bases /\ NextToRead[2] \in Nat
         /\ NextToRead[3] \in BOOLEAN
         /\ NextToRead = <<NextToRead[1], NextToRead[2], NextToRead[3]>>
         /\ NextSize \in Nat \ {0} /\ NextImage \in CapturedImages
         /\ regions[NextToRead[1]].kind # "free" /\ regions[NextToRead[1]].size \in Nat \ {0}
         /\ NextToRead[3] => NextSize <= MaxImageSize
         /\ ~ NextToRead[3] => NextToRead[2] = 0
<1> DEFINE n == NextToRead
<1>1. n \in toRead /\ n \in Bases \X Nat \X BOOLEAN
  BY NextIsUnread DEF Shape, TypeOK, CaptureTypeOK
<1> HIDE DEF n
<1>2. n[1] \in Bases /\ n[2] \in Nat /\ n[3] \in BOOLEAN /\ n = <<n[1], n[2], n[3]>>
  BY <1>1
<1>3. /\ regions[n[1]].kind # "free" /\ regions[n[1]] \in Allocations
      /\ IF n[3] THEN <<n[1], n[2]>> \in hidden ELSE n[2] = 0
  BY <1>1, <1>2 DEF Shape, TypeOK, CaptureTypeOK, Reading
<1>4. regions[n[1]].size \in Nat \ {0}
  BY <1>3, Kinds
<1>5. n[3] => n[2] < regions[n[1]].size /\ regions[n[1]].size - n[2] <= MaxImageSize
  <2>1. ASSUME n[3] PROVE <<n[1], n[2]>> \in hidden
    BY <1>3, <2>1
  <2>2. QED
    BY <2>1 DEF Shape, Reading
<1>6. regions[n[1]].size - n[2] \in Nat \ {0}
  BY <1>2, <1>3, <1>4, <1>5
<1>7. NextImage \in CapturedImages
  BY <1>2 DEF NextImage, NextIsMain, CapturedImages, Shape, TypeOK, CaptureTypeOK, n
<1>8. QED
  BY <1>1, <1>2, <1>3, <1>4, <1>5, <1>6, <1>7 DEF n, NextSize

\* An image that is read, and the end of reading.
LEMMA ShapeRead == ASSUME Shape, ReadImage \/ DoneReading, Outside PROVE Shape'
<1> USE DEF Shape, Outside, request, report, memory, listing, view, scan, buffers, counts
<1>1. CASE ReadImage
  <2>1. toRead' \subseteq toRead /\ pc = "read" /\ toRead # {}
        /\ UNCHANGED <<memory, pc, listing, view, scan, buffers, unscanned>>
    BY <1>1, Reads
  <2>2. total' \in Nat /\ skipped' \in Nat /\ images' \subseteq CapturedImages
    BY <1>1, <2>1, Reads, NextFacts DEF TypeOK, CaptureTypeOK
  <2>3. TypeOK'
    BY <2>1, <2>2 DEF TypeOK, CaptureTypeOK
  <2>4. Reading'
    BY <2>1 DEF Reading, Early
  <2>5. QED
    BY <2>3, <2>4
<1>2. CASE DoneReading
  BY <1>2 DEF DoneReading, TypeOK, CaptureTypeOK, CapturePlaces, Reading, Early, reading
<1>3. QED
  BY <1>1, <1>2

\* Only private memory is chosen to be carved or written as it is.
LEMMA ShapeBuffers == ASSUME Shape, ChooseBuffers, Outside PROVE Shape'
<1> USE DEF Shape, Outside, request, report, memory, listing, view, scan, reading, counts
<1> DEFINE unclaimed == {b \in Bases : ExecutableAt(b)} \ Claimed
           readable == {b \in Bases : /\ regions[b].kind = "private" /\ ~ ExecutableAt(b)
                                      /\ regions[b].readable > 0 /\ MappedFrom(b) = None}
<1>1. /\ pc = "unclaimed" /\ pc' = "carve" /\ remaining' = CarveBudget
      /\ toCarve' = {<<0, b>> : b \in unclaimed} \cup {<<1, b>> : b \in readable}
      /\ toDump' \in {unclaimed, {}}
      /\ UNCHANGED <<memory, listing, view, scan, reading, carved, raw, counts>>
  BY DEF ChooseBuffers
<1>2. \A b \in unclaimed \cup readable : b \in Bases /\ regions[b].kind = "private"
  BY DEF ExecutableAt
<1> HIDE DEF unclaimed, readable
<1>3. \A c \in toCarve' : c \in {0, 1} \X Bases /\ regions[c[2]].kind = "private"
  <2> SUFFICES ASSUME NEW c \in toCarve'
               PROVE  c \in {0, 1} \X Bases /\ regions[c[2]].kind = "private"
    OBVIOUS
  <2>1. PICK e \in {0, 1}, b \in unclaimed \cup readable : c = <<e, b>>
    BY <1>1
  <2>2. QED
    BY <1>2, <2>1
<1>4. \A b \in toDump' : b \in Bases /\ regions[b].kind = "private"
  BY <1>1, <1>2
<1>5. TypeOK'
  BY <1>1, <1>3, <1>4, Limits DEF TypeOK, CaptureTypeOK, CapturePlaces
<1>6. Reading'
  BY <1>1, <1>3, <1>4 DEF Reading, Early
<1>7. QED
  BY <1>5, <1>6

\* How much of an allocation is read: no more than it has, no more than is left.
LEMMA ReadableFits ==
  ASSUME NEW size \in Nat, NEW taken, remaining \in Nat
  PROVE  /\ Readable(size, taken) \in Nat
         /\ Readable(size, taken) <= size /\ Readable(size, taken) <= remaining
BY DEF Readable

\* A buffer to carve, and its size.
LEMMA ShapeCarve == ASSUME Shape, CarveAllocation, Outside PROVE Shape'
<1> USE DEF Shape, Outside, request, report, memory, listing, view, scan, reading, counts
<1> DEFINE c == NextToCarve
           size == regions[c[2]].readable
           pages == Readable(size, carved)
<1>1. pc = "carve"
      /\ UNCHANGED <<memory, listing, view, scan, reading, toDump, raw, skipped>>
  BY DEF CarveAllocation
<1>2. CASE toCarve = {}
  <2>1. pc' = "raw" /\ remaining' = RawBudget /\ UNCHANGED <<toCarve, carved, unscanned>>
    BY <1>2 DEF CarveAllocation
  <2>2. TypeOK'
    BY <1>1, <2>1, Limits DEF TypeOK, CaptureTypeOK, CapturePlaces
  <2>3. Reading'
    BY <1>1, <2>1 DEF Reading, Early
  <2>4. QED
    BY <2>2, <2>3
<1>3. CASE toCarve # {}
  <2>1. /\ carved' = IF pages = 0 THEN carved ELSE carved \cup {<<c[2], pages>>}
        /\ remaining' = remaining - pages /\ unscanned' = unscanned + (size - pages)
        /\ toCarve' = toCarve \ {c} /\ UNCHANGED pc
    BY <1>3 DEF CarveAllocation
  <2>2. c[2] \in Bases /\ regions[c[2]] \in Allocations /\ regions[c[2]].kind = "private"
    <3>1. c \in toCarve
      BY <1>3, NextIsUncarved DEF TypeOK
    <3>2. QED
      BY <3>1 DEF Reading, TypeOK, CaptureTypeOK
  <2>3. size \in Nat
    BY <2>2, Kinds
  <2>4. pages \in Nat /\ pages <= size /\ pages <= remaining /\ remaining \in Nat
    BY <2>3, ReadableFits DEF TypeOK, CaptureTypeOK
  <2> HIDE DEF pages, size, c
  <2>5. TypeOK'
    BY <1>1, <2>1, <2>2, <2>3, <2>4 DEF TypeOK, CaptureTypeOK
  <2>6. Reading'
    BY <1>1, <2>1 DEF Reading, Early
  <2>7. QED
    BY <2>5, <2>6
<1>4. QED
  BY <1>2, <1>3

\* The same for --raw-regions.
LEMMA ShapeDump == ASSUME Shape, DumpAllocation, Outside PROVE Shape'
<1> USE DEF Shape, Outside, request, report, memory, listing, view, scan, reading, counts
<1> DEFINE b == First(toDump)
           size == regions[b].readable
           pages == Readable(size, raw)
<1>1. pc = "raw"
      /\ UNCHANGED <<memory, listing, view, scan, reading, toCarve, carved, skipped>>
  BY DEF DumpAllocation
<1>2. CASE toDump = {}
  <2>1. pc' = "annotate" /\ UNCHANGED <<toDump, remaining, raw, unscanned>>
    BY <1>2 DEF DumpAllocation
  <2>2. TypeOK'
    BY <1>1, <2>1 DEF TypeOK, CaptureTypeOK, CapturePlaces
  <2>3. Reading'
    BY <1>1, <2>1 DEF Reading, Early
  <2>4. QED
    BY <2>2, <2>3
<1>3. CASE toDump # {}
  <2>1. /\ raw' = IF pages = 0 THEN raw ELSE raw \cup {<<b, pages>>}
        /\ remaining' = remaining - pages /\ unscanned' = unscanned + (size - pages)
        /\ toDump' = toDump \ {b} /\ UNCHANGED pc
    BY <1>3 DEF DumpAllocation
  <2>2. b \in Bases /\ regions[b] \in Allocations /\ regions[b].kind = "private"
    <3>1. toDump \in SUBSET Nat
      BY Constant DEF TypeOK, CaptureTypeOK
    <3>2. b \in toDump
      BY <1>3, <3>1, FirstIn
    <3>3. QED
      BY <3>2 DEF Reading, TypeOK, CaptureTypeOK
  <2>3. size \in Nat
    BY <2>2, Kinds
  <2>4. pages \in Nat /\ pages <= size /\ pages <= remaining /\ remaining \in Nat
    BY <2>3, ReadableFits DEF TypeOK, CaptureTypeOK
  <2> HIDE DEF pages, size, b
  <2>5. TypeOK'
    BY <1>1, <2>1, <2>2, <2>3, <2>4 DEF TypeOK, CaptureTypeOK
  <2>6. Reading'
    BY <1>1, <2>1 DEF Reading, Early
  <2>7. QED
    BY <2>5, <2>6
<1>4. QED
  BY <1>2, <1>3

\* Annotating changes only the name of an image, to a file or none.
LEMMA AnnotatedFacts ==
  ASSUME Shape, NEW i \in images
  PROVE  /\ Annotated(i) \in CapturedImages
         /\ \E n \in Files \cup {None} : Annotated(i) = [i EXCEPT !.name = n]
         /\ i.name # None => Annotated(i).name # None
<1>1. i \in CapturedImages /\ live[i.base] \in Allocations
  BY DEF Shape, TypeOK, CaptureTypeOK, CapturedImages
<1>2. live[i.base].kind = "image" => live[i.base].file \in Files
  BY <1>1, Kinds
<1>3. PICK n \in Files \cup {None} :
        Annotated(i) = [i EXCEPT !.name = n] /\ (i.name # None => n # None)
  <2> DEFINE mapped == IF live[i.base].kind = "image" /\ i.page < live[i.base].size
                         THEN live[i.base].file
                         ELSE None
             mismatch == i.name # None /\ mapped # None /\ i.name # mapped
             name == IF i.name = None \/ mismatch THEN mapped ELSE i.name
  <2>1. mapped \in Files \cup {None} /\ i.name \in Files \cup {None}
    BY <1>1, <1>2 DEF CapturedImages
  <2>2. Annotated(i) = [i EXCEPT !.name = name]
    BY DEF Annotated
  <2>3. name \in Files \cup {None} /\ (i.name # None => name # None)
    BY <2>1
  <2> HIDE DEF name
  <2>4. QED
    BY <2>2, <2>3
<1>4. QED
  BY <1>1, <1>3 DEF CapturedImages

\* The last step of the capture.
LEMMA ShapeAnnotate == ASSUME Shape, Annotate, Outside PROVE Shape'
<1> USE DEF Shape, Outside, request, report, memory, listing, view, scan, buffers, counts
<1>1. pc = "annotate" /\ pc' = "captured"
      /\ UNCHANGED <<memory, listing, view, scan, toRead, total, buffers, counts>>
  BY DEF Annotate
<1>2. images' \subseteq CapturedImages
  <2>1. CASE images' = images
    BY <2>1 DEF TypeOK, CaptureTypeOK
  <2>2. CASE images' = {Annotated(i) : i \in images}
    BY <2>2, AnnotatedFacts
  <2>3. QED
    BY <2>1, <2>2 DEF Annotate
<1>3. TypeOK'
  BY <1>1, <1>2 DEF TypeOK, CaptureTypeOK, CapturePlaces
<1>4. Reading'
  BY <1>1 DEF Reading, Early
<1>5. QED
  BY <1>3, <1>4

\* The images to build are those captured, some with a name they did not have.
LEMMA Prepared ==
  ASSUME Shape, Prepare
  PROVE  /\ pc = "captured"
         /\ \E own \in [Bases -> Files \cup {None}] :
              toBuild' = {IF i.name = None THEN [i EXCEPT !.name = own[i.base]] ELSE i : i \in images}
         /\ toBuild' \subseteq CapturedImages
         /\ dllFailures' = Cardinality(MissingModules)
         /\ MissingModules \in SUBSET Bases /\ dllFailures' \in Nat
         /\ noMain' = (entryPoint /\ ~ \E i \in images : i.main)
         /\ pc' = IF noMain' THEN "write" ELSE "build"
         /\ UNCHANGED <<memory, listing, view, scan, reading, buffers, counts, request, files,
                        failures, selected, exit>>
<1>1. PICK own \in [Bases -> Files \cup {None}] :
        toBuild' = {IF i.name = None THEN [i EXCEPT !.name = own[i.base]] ELSE i : i \in images}
  BY DEF Prepare
<1>2. \A i \in images : i \in CapturedImages
  BY DEF Shape, TypeOK, CaptureTypeOK
<1>3. \A i \in images :
        (IF i.name = None THEN [i EXCEPT !.name = own[i.base]] ELSE i) \in CapturedImages
  BY <1>2 DEF CapturedImages
<1>4. toBuild' \subseteq CapturedImages
  BY <1>1, <1>3
<1>5. MissingModules \in SUBSET Bases
  BY DEF MissingModules
<1>6. Cardinality(MissingModules) \in Nat
  BY <1>5, FewBases
<1>7. QED
  BY <1>1, <1>4, <1>5, <1>6 DEF Prepare

\* The steps of dump.rs and the end of main.rs.
LEMMA ShapeBuild ==
  ASSUME Shape,
         \/ Prepare \/ DoneBuilding \/ Write \/ Abort
         \/ \E i \in toBuild, result \in {"dll", "exe", "error"} : BuildImage(i, result)
  PROVE  Shape'
<1> USE DEF Shape, request, report, memory, listing, view, scan, reading, buffers, counts
<1>1. CASE Prepare
  <2>1. TypeOK'
    BY <1>1, Prepared DEF TypeOK, CaptureTypeOK, CapturePlaces
  <2>2. Reading'
    BY <1>1, Prepared DEF Reading, Early
  <2>3. QED
    BY <2>1, <2>2
<1>2. CASE DoneBuilding
  BY <1>2 DEF DoneBuilding, TypeOK, CaptureTypeOK, CapturePlaces, Reading, Early
<1>3. CASE Write
  BY <1>3 DEF Write, TypeOK, CaptureTypeOK, CapturePlaces, Reading, Early
<1>4. CASE Abort
  BY <1>4 DEF Abort, TypeOK, CaptureTypeOK, CapturePlaces, Reading, Early
<1>5. ASSUME NEW i \in toBuild, NEW result \in {"dll", "exe", "error"}, BuildImage(i, result)
      PROVE  Shape'
  <2>1. UNCHANGED <<captureVars, request, noMain, exit>>
    BY <1>5 DEF BuildImage
  <2>2. toBuild' \subseteq toBuild /\ files' \subseteq files \cup {i}
        /\ failures' \subseteq failures \cup {i}
    BY <1>5 DEF BuildImage
  <2>3. dllFailures' \in Nat /\ selected' \in Nat
    BY <1>5 DEF BuildImage, CountsAsDll, TypeOK
  <2>4. TypeOK'
    BY <2>1, <2>2, <2>3 DEF TypeOK, CaptureTypeOK, captureVars
  <2>5. Reading'
    BY <2>1 DEF Reading, Early, captureVars
  <2>6. QED
    BY <2>4, <2>5
<1>6. QED
  BY <1>1, <1>2, <1>3, <1>4, <1>5

\* A stuttering step.
LEMMA ShapeStutter == ASSUME Shape, UNCHANGED vars PROVE Shape'
BY DEF Shape, vars, captureVars, request, report, memory, listing, view, scan, reading, buffers,
   counts, TypeOK, CaptureTypeOK, Reading, Early

\* Every step keeps the types.
LEMMA ShapeStep == Shape /\ [Next]_vars => Shape'
<1> SUFFICES ASSUME Shape, [Next]_vars PROVE Shape'
  OBVIOUS
<1>1. ASSUME CaptureStep, Outside PROVE Shape'
  BY <1>1, ShapeQuery, ShapeViews, ShapeResolve, ShapeScan, ShapeStart, ShapeRead, ShapeBuffers,
     ShapeCarve, ShapeDump, ShapeAnnotate DEF CaptureStep
<1>2. QED
  BY <1>1, ShapeChange, ShapeBuild, ShapeStutter DEF Next, Outside

\* Every variable keeps its type: the positions kept between two reads of the target
\* refer to allocations of the region list, whatever the target does in the meantime.
THEOREM TypeCorrect == Spec => []TypeOK
<1>1. Spec => []Shape
  BY InitShape, ShapeStep, PTL DEF Spec
<1>2. Shape => TypeOK
  BY DEF Shape
<1>3. QED
  BY <1>1, <1>2, PTL

-----------------------------------------------------------------------------
\* Second layer: the main image.

\* Nothing is captured yet.
LEMMA InitMain == Init => MainInv
<1> SUFFICES ASSUME Init PROVE MainInv
  OBVIOUS
<1>1. Untouched
  BY DEF Init, Untouched
<1>2. Mains
  BY DEF Init, CaptureInit, Mains, Capturing
<1>3. MainSafe
  BY DEF Init, CaptureInit, MainSafe, Capturing
<1>4. QED
  BY <1>1, <1>2, <1>3 DEF MainInv

\* Steps that touch neither the images nor what the main image depends on.
Aside == UNCHANGED <<modules, listedMain, mainBase, images, toBuild, files, noMain>>

\* Such a step keeps the invariant if it goes on in the same part of the run.
LEMMA MainAside ==
  ASSUME MainInv, Aside,
         ~ Building' => ~ Building /\ UNCHANGED exit,
         Capturing' => Capturing /\ UNCHANGED <<regions, toRead>>,
         pc' \in {"build", "write"} => pc \in {"build", "write"}
  PROVE  MainInv'
<1>1. Untouched'
  BY DEF MainInv, Untouched, Aside
<1>2. Mains'
  BY DEF MainInv, Mains, Aside
<1>3. MainSafe'
  BY DEF MainInv, MainSafe, Aside
<1>4. QED
  BY <1>1, <1>2, <1>3 DEF MainInv

\* The steps that only look at the target's memory are such steps.
LEMMA MainLooking ==
  ASSUME Shape, MainInv, Outside,
         \/ Change \/ Acquire \/ CaptureFails \/ ListRegions \/ ScanAllocation \/ DoneReading
         \/ ChooseBuffers \/ CarveAllocation \/ DumpAllocation
  PROVE  MainInv'
<1> USE DEF Outside, Aside, request, report, memory, listing, view, scan, reading, buffers, counts,
            Building, Capturing
<1>1. CASE Change
  BY <1>1, MainAside DEF Change
<1>2. CASE Acquire
  BY <1>2, MainAside DEF Acquire
<1>3. CASE CaptureFails
  BY <1>3, MainAside DEF CaptureFails
<1>4. CASE ListRegions
  BY <1>4, MainAside DEF ListRegions
<1>5. CASE ScanAllocation
  BY <1>5, MainAside DEF ScanAllocation
<1>6. CASE DoneReading
  BY <1>6, MainAside DEF DoneReading
<1>7. CASE ChooseBuffers
  BY <1>7, MainAside DEF ChooseBuffers
<1>8. CASE CarveAllocation
  BY <1>8, MainAside DEF CarveAllocation
<1>9. CASE DumpAllocation
  BY <1>9, MainAside DEF DumpAllocation
<1>10. QED
  BY <1>1, <1>2, <1>3, <1>4, <1>5, <1>6, <1>7, <1>8, <1>9

\* A list of modules has the main one on it.
LEMMA MainQuery == ASSUME Shape, MainInv, Query, Outside PROVE MainInv'
<1> USE DEF Outside, request, report, memory, view, scan, reading, buffers, counts
<1>1. /\ pc = "query" /\ pc' \in {"measure", "error"}
      /\ UNCHANGED <<memory, view, scan, reading, buffers, counts>>
  BY DEF Query
<1>2. files = {} /\ toBuild = {} /\ images = {}
  BY <1>1 DEF Shape, Reading, Early, MainInv, Untouched, Building
<1>3. Untouched'
  BY <1>1, <1>2 DEF MainInv, Untouched, Building
<1>4. MainSafe'
  BY <1>1 DEF MainSafe, Capturing
<1>5. /\ listedMain' = None => \A b \in Bases : modules'[b] = None
      /\ listedMain' # None => modules'[listedMain'] # None
  <2>1. CASE UNCHANGED listing
    BY <2>1 DEF MainInv, Mains, listing
  <2>2. CASE \E listed \in SUBSET ImagesAt(live) :
               /\ listedMain' \in listed
               /\ modules' = [b \in Bases |-> IF b \in listed THEN live[b].file ELSE None]
    <3>1. PICK listed \in SUBSET ImagesAt(live) :
               /\ listedMain' \in listed
               /\ modules' = [b \in Bases |-> IF b \in listed THEN live[b].file ELSE None]
      BY <2>2
    <3>2. listedMain' \in Bases /\ live[listedMain'] \in Allocations
          /\ live[listedMain'].kind = "image"
      BY <3>1 DEF Shape, TypeOK, CaptureTypeOK, ImagesAt
    <3>3. live[listedMain'].file \in Files
      BY <3>2, Kinds
    <3>4. QED
      BY <3>1, <3>2, <3>3, Constant
  <2>3. QED
    BY <2>1, <2>2 DEF Query, Only
<1>6. Mains'
  BY <1>1, <1>2, <1>5 DEF Mains, Capturing
<1>7. QED
  BY <1>3, <1>4, <1>6 DEF MainInv

\* The main image is exempt from the limit on images.
LEMMA MainResolve == ASSUME Shape, MainInv, ResolveMain, Outside PROVE MainInv'
<1> USE DEF Outside, request, report, memory, listing, scan, reading, buffers, counts
<1> DEFINE main == MainAmong(ImageBases)
           kept == Kept(ImageBases, main)
<1>1. /\ pc = "resolve" /\ pc' = "scan" /\ mainBase' = main
      /\ toRead' = {<<b, 0, FALSE>> : b \in {c \in kept : regions[c].kind # "free"}}
      /\ UNCHANGED <<memory, listing, clone, cloned, regions, scanned, hidden, total, images,
                     buffers, unscanned>>
  BY DEF ResolveMain
<1>2. files = {} /\ toBuild = {} /\ images = {}
  BY <1>1 DEF Shape, Reading, Early, MainInv, Untouched, Building
<1>3. ImageBases \in SUBSET Bases
  BY DEF ImageBases, ImagesAt, Shape, TypeOK, CaptureTypeOK
<1>4. main # None => main \in ImageBases
  <2>1. \A S \in SUBSET ImageBases : S # {} => First(S) \in ImageBases
    <3>1. \A S \in SUBSET ImageBases : S \in SUBSET Nat
      BY <1>3, Constant
    <3>2. QED
      BY <3>1, FirstIn
  <2>2. listedMain # None => listedMain \in ImageBases
    BY DEF ImageBases, MainInv, Mains, Shape, TypeOK, CaptureTypeOK
  <2>3. QED
    BY <2>1, <2>2 DEF MainAmong, Only
<1>5. main # None => main \in kept /\ main \in Bases
  BY <1>3, <1>4 DEF Kept
<1>6. listedMain # None => main = listedMain
  BY DEF MainAmong
<1> HIDE DEF main, kept
<1>7. Untouched'
  BY <1>1 DEF MainInv, Untouched, Building
<1>8. Mains'
  BY <1>1, <1>2, <1>6 DEF MainInv, Mains
<1>9. MainSafe'
  BY <1>1, <1>5 DEF MainSafe
<1>10. QED
  BY <1>7, <1>8, <1>9 DEF MainInv

\* More images to read do not endanger the main one.
LEMMA MainStart == ASSUME MainInv, StartReading, Outside PROVE MainInv'
<1> USE DEF Outside, request, report, memory, listing, view, scan, buffers, counts
<1>1. /\ pc = "scan" /\ pc' = "read" /\ toRead \subseteq toRead'
      /\ UNCHANGED <<memory, listing, view, scan, total, images, buffers, counts>>
  BY DEF StartReading
<1>2. Untouched' /\ Mains' /\ MainSafe'
  BY <1>1 DEF MainInv, Untouched, Mains, MainSafe, Building, Capturing
<1>3. QED
  BY <1>2 DEF MainInv

\* Nor is it dropped for the budget.
LEMMA MainRead == ASSUME Shape, MainInv, ReadImage, Outside PROVE MainInv'
<1> USE DEF Outside, request, report, memory, listing, view, scan, buffers, counts
<1>1. /\ pc = "read" /\ toRead # {} /\ toRead' = toRead \ {NextToRead}
      /\ images' \in {images, images \cup {NextImage}} /\ (Taken => NextImage \in images')
      /\ UNCHANGED <<memory, pc, listing, view, scan, buffers, unscanned>>
  BY Reads
<1>2. Untouched'
  BY <1>1 DEF MainInv, Untouched, Building
<1>3. Mains'
  <2>1. NextImage.main => NextImage.base = mainBase /\ NextImage.page = 0
    BY DEF NextImage, NextIsMain
  <2>2. QED
    BY <1>1, <2>1 DEF MainInv, Mains, Capturing
<1>4. MainSafe'
  <2> SUFFICES ASSUME mainBase # None, regions[mainBase].kind # "free",
                      regions[mainBase].size <= MaxImageSize
               PROVE  mainBase \in Bases /\
                      (<<mainBase, 0, FALSE>> \in toRead' \/ \E i \in images' : i.main)
    BY <1>1 DEF MainSafe, MainInv, Capturing
  <2>1. mainBase \in Bases /\ (<<mainBase, 0, FALSE>> \in toRead \/ \E i \in images : i.main)
    BY <1>1 DEF MainSafe, MainInv, Capturing
  <2>2. CASE NextToRead = <<mainBase, 0, FALSE>>
    <3>1. NextSize = regions[mainBase].size - 0 /\ NextIsMain
      BY <2>2 DEF NextSize, NextIsMain
    <3>2. regions[mainBase].size \in Nat
      BY <1>1, <2>2, NextFacts
    <3>3. Taken /\ NextImage.main
      BY <2>2, <3>1, <3>2 DEF Taken, Fits, NextImage
    <3>4. QED
      BY <1>1, <2>1, <3>3
  <2>3. CASE NextToRead # <<mainBase, 0, FALSE>>
    BY <1>1, <2>1, <2>3
  <2>4. QED
    BY <2>2, <2>3
<1>5. QED
  BY <1>2, <1>3, <1>4 DEF MainInv

\* An annotated or named main image is the main image.
LEMMA MainNamed ==
  ASSUME Shape, MainInv, (Annotate /\ Outside) \/ Prepare
  PROVE  MainInv'
<1> USE DEF Outside, request, report, memory, listing, view, scan, reading, buffers, counts
<1>1. CASE Annotate /\ Outside
  <2>1. /\ pc = "annotate" /\ pc' = "captured"
        /\ UNCHANGED <<memory, listing, view, scan, toRead, total, buffers, counts>>
    BY <1>1 DEF Annotate
  <2>2. /\ \A i \in images' : \E j \in images : i.base = j.base /\ i.page = j.page /\ i.main = j.main
        /\ \A j \in images : \E i \in images' : i.main = j.main
    <3>1. CASE images' = images
      BY <3>1
    <3>2. CASE images' = {Annotated(j) : j \in images}
      <4>1. \A j \in images : Annotated(j).base = j.base /\ Annotated(j).page = j.page
                              /\ Annotated(j).main = j.main
        BY AnnotatedFacts DEF Shape, TypeOK, CaptureTypeOK, CapturedImages
      <4>2. QED
        BY <3>2, <4>1
    <3>3. QED
      BY <1>1, <3>1, <3>2 DEF Annotate
  <2>3. Untouched' /\ Mains' /\ MainSafe'
    BY <1>1, <2>1, <2>2 DEF MainInv, Untouched, Mains, MainSafe, Building, Capturing
  <2>4. QED
    BY <2>3 DEF MainInv
<1>2. CASE Prepare
  <2>1. PICK own \in [Bases -> Files \cup {None}] :
          toBuild' = {IF i.name = None THEN [i EXCEPT !.name = own[i.base]] ELSE i : i \in images}
    BY <1>2, Prepared
  <2>2. /\ pc = "captured" /\ pc' \in {"write", "build"}
        /\ UNCHANGED <<memory, listing, view, scan, reading, files, exit>>
    BY <1>2, Prepared
  <2>3. \A i \in toBuild' : \E j \in images : i.base = j.base /\ i.page = j.page /\ i.main = j.main
    <3>1. \A j \in images : j \in CapturedImages
      BY DEF Shape, TypeOK, CaptureTypeOK
    <3>2. \A j \in images, n \in Files \cup {None} :
            LET i == [j EXCEPT !.name = n]
            IN  i.base = j.base /\ i.page = j.page /\ i.main = j.main
      BY <3>1 DEF CapturedImages
    <3>3. \A j \in images : own[j.base] \in Files \cup {None}
      BY <3>1 DEF CapturedImages
    <3> SUFFICES ASSUME NEW i \in toBuild'
                 PROVE  \E j \in images : i.base = j.base /\ i.page = j.page /\ i.main = j.main
      OBVIOUS
    <3>4. PICK j \in images : i = IF j.name = None THEN [j EXCEPT !.name = own[j.base]] ELSE j
      BY <2>1
    <3>5. QED
      BY <3>2, <3>3, <3>4
  <2>4. Untouched' /\ Mains' /\ MainSafe'
    BY <2>2, <2>3 DEF MainInv, Untouched, Mains, MainSafe, Building, Capturing
  <2>5. QED
    BY <2>4 DEF MainInv
<1>3. QED
  BY <1>1, <1>2

\* Building only moves images into the report.
LEMMA MainBuild ==
  ASSUME MainInv,
         \/ DoneBuilding \/ Write \/ Abort
         \/ \E i \in toBuild, result \in {"dll", "exe", "error"} : BuildImage(i, result)
  PROVE  MainInv'
<1> USE DEF request, report, memory, listing, view, scan, reading, buffers, counts,
            MainInv, Untouched, Mains, MainSafe, Building, Capturing
<1>1. CASE DoneBuilding
  BY <1>1 DEF DoneBuilding
<1>2. CASE Write
  BY <1>2 DEF Write
<1>3. CASE Abort
  BY <1>3 DEF Abort
<1>4. ASSUME NEW i \in toBuild, NEW result \in {"dll", "exe", "error"}, BuildImage(i, result)
      PROVE  MainInv'
  <2>1. pc = "build" /\ UNCHANGED <<captureVars, request, noMain, exit>>
    BY <1>4 DEF BuildImage
  <2>2. toBuild' \subseteq toBuild /\ files' \subseteq files \cup {i}
    BY <1>4 DEF BuildImage
  <2>3. QED
    BY <2>1, <2>2 DEF captureVars
<1>5. QED
  BY <1>1, <1>2, <1>3, <1>4

\* Every step keeps the main image.
LEMMA MainStep == Shape /\ MainInv /\ [Next]_vars => MainInv'
<1> SUFFICES ASSUME Shape, MainInv, [Next]_vars PROVE MainInv'
  OBVIOUS
<1>1. ASSUME CaptureStep, Outside PROVE MainInv'
  BY <1>1, MainLooking, MainQuery, MainResolve, MainStart, MainRead, MainNamed DEF CaptureStep
<1>2. CASE UNCHANGED vars
  BY <1>2 DEF vars, captureVars, request, report, memory, listing, view, scan, reading, buffers,
     counts, MainInv, Untouched, Mains, MainSafe, Building, Capturing
<1>3. QED
  BY <1>1, <1>2, MainLooking, MainNamed, MainBuild DEF Next, Outside

\* The main image is captured whatever the limits: it is exempt from the limit on
\* images and from the budget, whatever order the others are read in and whatever
\* the target does.
THEOREM MainImageIsKept == Spec => []MainIsKept
<1>1. Spec => []Shape
  BY InitShape, ShapeStep, PTL DEF Spec
<1>2. Shape /\ MainInv => MainIsKept
  BY DEF Shape, Reading, MainInv, MainSafe, MainIsKept, Capturing
<1>3. QED
  BY <1>1, <1>2, InitMain, MainStep, PTL DEF Spec

-----------------------------------------------------------------------------
\* Third layer: every listed module.

\* Nothing is listed and nothing reported yet.
LEMMA InitDump == Init => DumpInv
<1> SUFFICES ASSUME Init PROVE DumpInv
  OBVIOUS
<1>1. Captures
  BY DEF Init, CaptureInit, Captures
<1>2. HasName
  BY DEF Init, CaptureInit, HasName
<1>3. Report
  BY Constant DEF Init, CaptureInit, Report
<1>4. Built
  BY DEF Init, CaptureInit, Built, Building
<1>5. QED
  BY <1>1, <1>2, <1>3, <1>4 DEF DumpInv

\* While the dump is not being built, the invariant says nothing of the report.
LEMMA DumpBefore ==
  ASSUME MainInv, DumpInv, Outside, ~ Building, ~ Building'
  PROVE  Report' /\ Built'
<1>1. noMain' = FALSE /\ exit' = None
  BY DEF MainInv, Untouched, Outside, report
<1>2. QED
  BY <1>1, Constant DEF Report, Built, Building

\* A step that touches no image and nothing an image depends on keeps the invariant.
LEMMA DumpAside ==
  ASSUME MainInv, DumpInv, Aside, Outside,
         Capturing' => Capturing /\ UNCHANGED <<regions, toRead, total>>,
         Building \/ Building' => UNCHANGED pc
  PROVE  DumpInv'
<1>1. Captures'
  BY DEF DumpInv, Captures, Accounted, Aside
<1>2. HasName'
  BY DEF DumpInv, HasName, Aside
<1>3. CASE Building
  <2>1. Report'
    BY <1>3 DEF DumpInv, Report, Aside, Outside, IsComplete, MainRebuilt, request, report
  <2>2. Built'
    BY <1>3 DEF DumpInv, Built, Building, Aside, Outside, MainRebuilt, request, report
  <2>3. QED
    BY <1>1, <1>2, <2>1, <2>2 DEF DumpInv
<1>4. CASE ~ Building
  <2>1. ~ Building'
    BY <1>4 DEF Building
  <2>2. QED
    BY <1>1, <1>2, <1>4, <2>1, DumpBefore DEF DumpInv
<1>5. QED
  BY <1>3, <1>4

\* The steps that only look at the target's memory are such steps.
LEMMA DumpLooking ==
  ASSUME MainInv, DumpInv, Outside,
         \/ Change \/ Acquire \/ CaptureFails \/ ListRegions \/ ScanAllocation \/ DoneReading
         \/ ChooseBuffers \/ CarveAllocation \/ DumpAllocation
  PROVE  DumpInv'
<1>0. Aside <=> UNCHANGED <<modules, listedMain, mainBase, images>>
  BY DEF Aside, Outside, report
<1> USE DEF memory, listing, view, scan, reading, buffers, counts, Building, Capturing
<1>1. CASE Change
  BY <1>0, <1>1, DumpAside DEF Change
<1>2. CASE Acquire
  BY <1>0, <1>2, DumpAside DEF Acquire
<1>3. CASE CaptureFails
  BY <1>0, <1>3, DumpAside DEF CaptureFails
<1>4. CASE ListRegions
  BY <1>0, <1>4, DumpAside DEF ListRegions
<1>5. CASE ScanAllocation
  BY <1>0, <1>5, DumpAside DEF ScanAllocation
<1>6. CASE DoneReading
  BY <1>0, <1>6, DumpAside DEF DoneReading
<1>7. CASE ChooseBuffers
  BY <1>0, <1>7, DumpAside DEF ChooseBuffers
<1>8. CASE CarveAllocation
  BY <1>0, <1>8, DumpAside DEF CarveAllocation
<1>9. CASE DumpAllocation
  BY <1>0, <1>9, DumpAside DEF DumpAllocation
<1>10. QED
  BY <1>1, <1>2, <1>3, <1>4, <1>5, <1>6, <1>7, <1>8, <1>9

\* A module can only be listed before anything is read, and is then to be read.
LEMMA DumpListing ==
  ASSUME Shape, MainInv, DumpInv, Outside, Query \/ ResolveMain
  PROVE  DumpInv'
<1> USE DEF memory, listing, scan, reading, buffers, counts
<1>1. /\ pc \in {"query", "resolve"} /\ pc' \in {"measure", "error", "scan"}
      /\ UNCHANGED images
  BY DEF Query, ResolveMain
<1>2. images = {} /\ toBuild' = {}
  BY <1>1 DEF Shape, Reading, Early, MainInv, Untouched, Building, Outside
<1>3. HasName'
  BY <1>1, <1>2 DEF HasName
<1>4. Captures'
  <2>1. CASE Query
    BY <1>1, <1>2, <2>1 DEF Captures, Capturing, Query
  <2>2. CASE ResolveMain
    <3> SUFFICES ASSUME Enough, NEW b \in Bases, modules'[b] # None
                 PROVE  Accounted(b)'
      BY <1>1, <1>2 DEF Captures
    <3>1. b \in ImageBases
      BY <2>2 DEF ResolveMain, ImageBases
    <3>2. ImageBases \in SUBSET Bases
      BY DEF ImageBases, ImagesAt, Shape, TypeOK, CaptureTypeOK
    <3>3. b \in Kept(ImageBases, MainAmong(ImageBases))
      BY <3>1, <3>2, AllKept
    <3>4. regions[b].kind # "free" => <<b, 0, FALSE>> \in toRead'
      BY <2>2, <3>3 DEF ResolveMain
    <3>5. UNCHANGED regions
      BY <2>2 DEF ResolveMain
    <3>6. QED
      BY <3>4, <3>5 DEF Accounted
  <2>3. QED
    BY <2>1, <2>2
<1>5. ~ Building /\ ~ Building'
  BY <1>1 DEF Building
<1>6. QED
  BY <1>3, <1>4, <1>5, DumpBefore DEF DumpInv

\* More images to read leave the listed ones accounted for.
LEMMA DumpStart == ASSUME MainInv, DumpInv, StartReading, Outside PROVE DumpInv'
<1> USE DEF memory, listing, view, scan, buffers, counts
<1>1. /\ pc = "scan" /\ pc' = "read" /\ toRead \subseteq toRead'
      /\ UNCHANGED <<modules, regions, total, images, toBuild>>
  BY DEF StartReading, Outside
<1>2. Captures'
  BY <1>1 DEF DumpInv, Captures, Accounted, Capturing
<1>3. HasName'
  BY <1>1 DEF DumpInv, HasName
<1>4. ~ Building /\ ~ Building'
  BY <1>1 DEF Building
<1>5. QED
  BY <1>2, <1>3, <1>4, DumpBefore DEF DumpInv

\* A hidden PE at the base of a listed module is read after the module has been tried,
\* and is refused for the reason the module was.
LEMMA DumpRead == ASSUME Shape, MainInv, DumpInv, ReadImage, Outside PROVE DumpInv'
<1> USE DEF memory, listing, view, scan, buffers, counts
<1> DEFINE n == NextToRead
<1>1. /\ pc = "read" /\ pc' = "read" /\ toRead # {} /\ toRead' = toRead \ {n}
      /\ UNCHANGED <<modules, regions, toBuild>>
      /\ Taken => images' = images \cup {NextImage} /\ total' = total + NextSize
      /\ ~ Taken => UNCHANGED <<images, total>>
  BY Reads DEF Outside
<1>2. /\ n \in toRead /\ n = <<n[1], n[2], n[3]>>
      /\ NextSize \in Nat \ {0} /\ NextSize = regions[n[1]].size - n[2]
      /\ regions[n[1]].kind # "free" /\ regions[n[1]].size \in Nat
      /\ ~ n[3] => n[2] = 0
      /\ n[3] => \A i \in toRead : i[3]
      /\ n[3] \in BOOLEAN
  BY <1>1, NextFacts, NextIsUnread DEF NextSize, Shape, TypeOK
<1>3. /\ NextImage.base = n[1] /\ NextImage.page = n[2] /\ NextImage.hidden = n[3]
      /\ n[2] = 0 => NextImage.name = modules[n[1]]
  BY DEF NextImage
<1>4. total \in Nat /\ total' \in Nat /\ total <= total' /\ ImageBudget \in Nat /\ MaxImageSize \in Nat
  BY <1>1, <1>2, Limits DEF Shape, TypeOK, CaptureTypeOK
<1> HIDE DEF n
<1>5. HasName'
  BY <1>1, <1>3 DEF DumpInv, HasName, Plain
<1>6. Captures'
  <2> SUFFICES ASSUME Enough, NEW b \in Bases, modules[b] # None
               PROVE  /\ Accounted(b)'
                      /\ (\E i \in images' : i.base = b /\ i.page = 0) =>
                           \E i \in images' : Plain(b, i)
    BY <1>1 DEF Captures
  <2>1. /\ Accounted(b)
        /\ (\E i \in images : i.base = b /\ i.page = 0) => \E i \in images : Plain(b, i)
    BY <1>1 DEF DumpInv, Captures, Capturing
  <2>2. Accounted(b)'
    <3>1. CASE n = <<b, 0, FALSE>> /\ Taken
      <4>1. Plain(b, NextImage)
        BY <1>3, <3>1 DEF Plain
      <4>2. QED
        BY <1>1, <3>1, <4>1 DEF Accounted
    <3>2. CASE n = <<b, 0, FALSE>> /\ ~ Taken
      <4>1. NextSize = regions[b].size /\ UNCHANGED total
        BY <1>1, <1>2, <3>2
      <4>2. NextSize > MaxImageSize \/ total + NextSize > ImageBudget
        BY <1>2, <1>4, <3>2 DEF Taken, Fits
      <4>3. QED
        BY <1>1, <4>1, <4>2 DEF Accounted
    <3>3. CASE n # <<b, 0, FALSE>>
      <4>1. CASE total + regions[b].size > ImageBudget /\ regions[b].kind # "free"
        <5>1. regions[b].size \in Nat
          BY <4>1, Kinds DEF Shape, TypeOK, CaptureTypeOK
        <5>2. total' + regions[b].size > ImageBudget
          BY <1>4, <4>1, <5>1
        <5>3. QED
          BY <1>1, <5>2 DEF Accounted
      <4>2. CASE ~ (total + regions[b].size > ImageBudget) \/ regions[b].kind = "free"
        BY <1>1, <2>1, <3>3, <4>2 DEF Accounted
      <4>3. QED
        BY <4>1, <4>2
    <3>4. QED
      BY <3>1, <3>2, <3>3
  <2>3. ASSUME NEW i \in images', i.base = b, i.page = 0
        PROVE  \E j \in images' : Plain(b, j)
    <3>1. CASE i \in images
      BY <1>1, <2>1, <2>3, <3>1
    <3>2. CASE i \notin images /\ ~ n[3]
      <4>1. i = NextImage /\ Taken
        BY <1>1, <3>2
      <4>2. Plain(b, NextImage)
        BY <1>3, <2>3, <3>2, <4>1 DEF Plain
      <4>3. QED
        BY <4>1, <4>2
    <3>3. CASE i \notin images /\ n[3]
      <4>1. i = NextImage /\ Taken
        BY <1>1, <3>3
      <4>2. n[1] = b /\ n[2] = 0
        BY <1>3, <2>3, <4>1
      <4>3. NextSize = regions[b].size /\ NextSize <= MaxImageSize
            /\ total + NextSize <= ImageBudget
        BY <1>2, <3>3, <4>1, <4>2 DEF Taken, Fits, n
      <4>4. <<b, 0, FALSE>> \notin toRead
        BY <1>2, <3>3
      <4>5. \E j \in images : Plain(b, j)
        BY <1>2, <1>4, <2>1, <4>2, <4>3, <4>4 DEF Accounted
      <4>6. QED
        BY <1>1, <4>5
    <3>4. QED
      BY <3>1, <3>2, <3>3
  <2>4. QED
    BY <2>2, <2>3
<1>7. ~ Building /\ ~ Building'
  BY <1>1 DEF Building
<1>8. QED
  BY <1>5, <1>6, <1>7, DumpBefore DEF DumpInv

\* The files mapped in the end change names only, and take none away.
LEMMA DumpAnnotate == ASSUME Shape, MainInv, DumpInv, Annotate, Outside PROVE DumpInv'
<1> USE DEF memory, listing, view, scan, buffers, counts
<1>1. /\ pc = "annotate" /\ pc' = "captured"
      /\ UNCHANGED <<modules, regions, toRead, total, toBuild>>
  BY DEF Annotate, Outside
<1>2. \A i \in images : /\ Annotated(i).base = i.base /\ Annotated(i).page = i.page
                        /\ Annotated(i).hidden = i.hidden
                        /\ i.name # None => Annotated(i).name # None
  BY AnnotatedFacts DEF Shape, TypeOK, CaptureTypeOK, CapturedImages
<1>3. CASE UNCHANGED images
  <2>1. Captures' /\ HasName'
    BY <1>1, <1>3 DEF DumpInv, Captures, Accounted, Capturing, HasName
  <2>2. ~ Building /\ ~ Building'
    BY <1>1 DEF Building
  <2>3. QED
    BY <2>1, <2>2, DumpBefore DEF DumpInv
<1>4. CASE images' = {Annotated(i) : i \in images}
  <2>1. /\ \A i \in images' : \E j \in images :
             i.base = j.base /\ i.page = j.page /\ i.hidden = j.hidden /\ (j.name # None => i.name # None)
        /\ \A j \in images : \E i \in images' :
             i.base = j.base /\ i.page = j.page /\ i.hidden = j.hidden
    BY <1>2, <1>4
  <2>2. Captures'
    <3>1. \A b \in Bases : (\E j \in images : Plain(b, j)) => \E i \in images' : Plain(b, i)
      <4> SUFFICES ASSUME NEW b, NEW j \in images, Plain(b, j)
                   PROVE  \E i \in images' : Plain(b, i)
        OBVIOUS
      <4>1. PICK i \in images' : i.base = j.base /\ i.page = j.page /\ i.hidden = j.hidden
        BY <2>1
      <4>2. Plain(b, i)
        BY <4>1, Zenon DEF Plain
      <4>3. QED
        BY <4>2
    <3>2. \A b \in Bases : (\E i \in images' : i.base = b /\ i.page = 0) =>
                             \E j \in images : j.base = b /\ j.page = 0
      <4> SUFFICES ASSUME NEW b, NEW i \in images', i.base = b, i.page = 0
                   PROVE  \E j \in images : j.base = b /\ j.page = 0
        OBVIOUS
      <4>1. PICK j \in images : i.base = j.base /\ i.page = j.page
        BY <2>1
      <4>2. j.base = b /\ j.page = 0
        BY <4>1
      <4>3. QED
        BY <4>2
    <3>3. \A b \in Bases : Accounted(b) => Accounted(b)'
      BY <1>1, <3>1 DEF Accounted
    <3>4. QED
      BY <1>1, <3>1, <3>2, <3>3 DEF DumpInv, Captures, Capturing
  <2>3. HasName'
    <3>1. \A i \in images' : Plain(i.base, i) /\ modules[i.base] # None => i.name # None
      <4> SUFFICES ASSUME NEW i \in images', Plain(i.base, i), modules[i.base] # None
                   PROVE  i.name # None
        OBVIOUS
      <4>1. PICK j \in images :
              i.base = j.base /\ i.page = j.page /\ i.hidden = j.hidden /\ (j.name # None => i.name # None)
        BY <2>1
      <4>2. Plain(j.base, j)
        BY <4>1, Zenon DEF Plain
      <4>3. QED
        BY <4>1, <4>2 DEF DumpInv, HasName
    <3>2. QED
      BY <1>1, <3>1 DEF DumpInv, HasName
  <2>4. ~ Building /\ ~ Building'
    BY <1>1 DEF Building
  <2>5. QED
    BY <2>2, <2>3, <2>4, DumpBefore DEF DumpInv
<1>5. QED
  BY <1>3, <1>4 DEF Annotate

\* Where no listed module is missing, each is among the images to build, under a name.
LEMMA DumpPrepare == ASSUME Shape, MainInv, DumpInv, Prepare PROVE DumpInv'
<1> USE DEF memory, listing, view, scan, reading, buffers, counts, request
<1>1. PICK own \in [Bases -> Files \cup {None}] :
        toBuild' = {IF i.name = None THEN [i EXCEPT !.name = own[i.base]] ELSE i : i \in images}
  BY Prepared
<1>2. /\ pc = "captured" /\ pc' = IF noMain' THEN "write" ELSE "build"
      /\ dllFailures' = Cardinality(MissingModules) /\ MissingModules \in SUBSET Bases
      /\ UNCHANGED <<modules, listedMain, mainBase, regions, images, files, exit, only>>
  BY Prepared
<1> DEFINE named(j) == IF j.name = None THEN [j EXCEPT !.name = own[j.base]] ELSE j
<1>3. \A j \in images : /\ named(j).base = j.base /\ named(j).page = j.page
                        /\ named(j).hidden = j.hidden /\ named(j).main = j.main
                        /\ j.name # None => named(j) = j
  <2>1. \A j \in images : j \in CapturedImages
    BY DEF Shape, TypeOK, CaptureTypeOK
  <2>2. QED
    BY <2>1 DEF CapturedImages
<1>4. \A i \in toBuild' : \E j \in images : i = named(j)
  BY <1>1
<1>5. \A j \in images : named(j) \in toBuild'
  BY <1>1
<1> HIDE DEF named
<1>6. files = {} /\ noMain = FALSE /\ exit = None
  BY <1>2 DEF MainInv, Untouched, Building
<1>7. Captures'
  BY <1>2 DEF DumpInv, Captures, Capturing
<1>8. HasName'
  BY <1>2, <1>3, <1>4 DEF DumpInv, HasName, Plain
<1>9. Report'
  BY <1>2, <1>6, Constant DEF Report
<1>10. Built'
  <2> SUFFICES ASSUME Enough, dllFailures' = 0, NEW b \in Bases, modules[b] # None, b # listedMain
               PROVE  \E i \in toBuild' : Plain(b, i) /\ i.name # None /\ ~ i.main
    BY <1>2 DEF Built
  <2>1. MissingModules = {}
    BY <1>2, FewBases, FS_EmptySet
  <2>2. \E i \in images : i.base = b /\ i.page = 0
    BY <2>1 DEF MissingModules
  <2>3. PICK j \in images : Plain(b, j)
    BY <2>2 DEF DumpInv, Captures
  <2>4. j.name # None /\ j.base = b
    BY <2>3 DEF DumpInv, HasName, Plain
  <2>5. ~ j.main
    <3>1. listedMain # None
      BY DEF MainInv, Mains
    <3>2. mainBase = listedMain /\ (j.main => j.base = mainBase)
      BY <1>2, <3>1 DEF MainInv, Mains, Capturing
    <3>3. QED
      BY <2>4, <3>2
  <2>6. named(j) = j /\ named(j) \in toBuild'
    BY <1>3, <1>5, <2>4
  <2>7. QED
    BY <2>3, <2>4, <2>5, <2>6
<1>11. QED
  BY <1>7, <1>8, <1>9, <1>10 DEF DumpInv

\* A listed DLL leaves the images to build for the report, or counts as failed.
LEMMA DumpBuild ==
  ASSUME Shape, MainInv, DumpInv, NEW i \in toBuild, NEW result \in {"dll", "exe", "error"},
         BuildImage(i, result)
  PROVE  DumpInv'
<1>1. /\ pc = "build" /\ pc' = "build"
      /\ UNCHANGED <<modules, listedMain, mainBase, regions, toRead, total, images, only, entryPoint,
                     noMain, exit>>
      /\ toBuild' \subseteq toBuild /\ files \subseteq files' /\ files' \subseteq files \cup {i}
  BY DEF BuildImage, captureVars, listing, view, reading, request
<1>2. dllFailures \in Nat /\ dllFailures' \in Nat /\ dllFailures <= dllFailures'
  BY DEF BuildImage, CountsAsDll, Shape, TypeOK
<1>3. Captures'
  BY <1>1 DEF DumpInv, Captures, Accounted, Capturing
<1>4. HasName'
  BY <1>1 DEF DumpInv, HasName
<1>5. Report'
  BY <1>1 DEF DumpInv, Report
<1>6. Built'
  <2> SUFFICES ASSUME Enough, only = All, dllFailures' = 0
               PROVE  \/ toBuild' = {} /\ ~ MainRebuilt'
                      \/ \A b \in Bases : modules[b] # None /\ b # listedMain =>
                           \E j \in toBuild' \cup files' :
                             Plain(b, j) /\ (j \in toBuild' => j.name # None /\ ~ j.main)
    BY <1>1 DEF Built
  <2>1. Selects(i) /\ only.kind = "all"
    BY DEF Selects, All
  <2>2. dllFailures = 0
    BY <1>2
  <2>3. \A b \in Bases : modules[b] # None /\ b # listedMain =>
          \E j \in toBuild \cup files : Plain(b, j) /\ (j \in toBuild => j.name # None /\ ~ j.main)
    BY <1>1, <2>2 DEF DumpInv, Built, Building
  <2>4. CASE i.main /\ entryPoint /\ ~ MainRebuilt'
    BY <2>1, <2>4 DEF BuildImage
  <2>5. CASE ~ (i.main /\ entryPoint /\ ~ MainRebuilt')
    <3> SUFFICES ASSUME NEW b \in Bases, modules[b] # None, b # listedMain
                 PROVE  \E j \in toBuild' \cup files' :
                          Plain(b, j) /\ (j \in toBuild' => j.name # None /\ ~ j.main)
      OBVIOUS
    <3>1. PICK j \in toBuild \cup files :
            Plain(b, j) /\ (j \in toBuild => j.name # None /\ ~ j.main)
      BY <2>3
    <3>2. toBuild' = toBuild \ {i}
      BY <2>5 DEF BuildImage
    <3>3. CASE j # i \/ j \in files
      BY <1>1, <3>1, <3>2, <3>3
    <3>4. CASE j = i /\ j \notin files
      <4>1. i.name # None /\ ~ i.main /\ ~ i.hidden
        BY <3>1, <3>4 DEF Plain
      <4>2. result # "error"
        <5>1. CountsAsDll(i) = 1
          BY <4>1 DEF CountsAsDll
        <5>2. result = "error" => dllFailures' = dllFailures + 1
          BY <2>1, <4>1, <5>1 DEF BuildImage
        <5>3. QED
          BY <2>2, <5>2
      <4>3. i \in files'
        BY <2>1, <4>1, <4>2 DEF BuildImage, Wanted
      <4>4. QED
        BY <3>1, <3>2, <3>4, <4>3
    <3>5. QED
      BY <3>3, <3>4
  <2>6. QED
    BY <2>4, <2>5
<1>7. QED
  BY <1>3, <1>4, <1>5, <1>6 DEF DumpInv

\* The last steps: the exit code is taken from the report.
LEMMA DumpEnd == ASSUME MainInv, DumpInv, DoneBuilding \/ Write \/ Abort PROVE DumpInv'
<1> USE DEF request, report, memory, listing, view, scan, reading, buffers, counts
<1>1. UNCHANGED <<modules, listedMain, mainBase, regions, toRead, total, images, request, toBuild,
                  report>>
      /\ pc' \in {"write", "exit"}
  BY DEF DoneBuilding, Write, Abort
<1>2. Captures'
  BY <1>1 DEF DumpInv, Captures, Capturing
<1>3. HasName'
  BY <1>1 DEF DumpInv, HasName
<1>4. Report'
  <2>1. noMain' => files' = {} /\ pc' \in {"write", "exit"}
    BY <1>1 DEF DumpInv, Report
  <2>2. toBuild' = {} \/ noMain'
    <3>1. CASE DoneBuilding
      BY <1>1, <3>1 DEF DoneBuilding
    <3>2. CASE Write
      BY <1>1, <3>2 DEF Write, DumpInv, Report
    <3>3. CASE Abort
      BY <1>1, <3>3 DEF Abort, MainInv, Untouched, Building
    <3>4. QED
      BY <3>1, <3>2, <3>3
  <2>3. IsComplete' <=> IsComplete
    BY <1>1 DEF IsComplete, MainRebuilt
  <2>4. exit' = 0 => pc' = "exit" /\ IsComplete
    <3>1. CASE DoneBuilding
      BY <3>1 DEF DoneBuilding, DumpInv, Report
    <3>2. CASE Write
      BY <3>2 DEF Write
    <3>3. CASE Abort
      BY <3>3 DEF Abort
    <3>4. QED
      BY <3>1, <3>2, <3>3
  <2>5. QED
    BY <2>1, <2>2, <2>3, <2>4 DEF Report
<1>5. Built'
  <2>1. CASE Building
    BY <1>1, <2>1 DEF DumpInv, Built, MainRebuilt
  <2>2. CASE ~ Building
    <3>1. toBuild' = {} /\ files' = {}
      BY <1>1, <2>2 DEF MainInv, Untouched
    <3>2. QED
      BY <3>1 DEF Built, MainRebuilt
  <2>3. QED
    BY <2>1, <2>2
<1>6. QED
  BY <1>2, <1>3, <1>4, <1>5 DEF DumpInv

\* Every step keeps account of the listed modules.
LEMMA DumpStep == Shape /\ MainInv /\ DumpInv /\ [Next]_vars => DumpInv'
<1> SUFFICES ASSUME Shape, MainInv, DumpInv, [Next]_vars PROVE DumpInv'
  OBVIOUS
<1>1. ASSUME CaptureStep, Outside PROVE DumpInv'
  BY <1>1, DumpLooking, DumpListing, DumpStart, DumpRead, DumpAnnotate DEF CaptureStep
<1>2. CASE UNCHANGED vars
  BY <1>2, DumpAside DEF vars, captureVars, report, listing, view, reading, Aside, Outside, Capturing,
     Building
<1>3. QED
  BY <1>1, <1>2, DumpLooking, DumpPrepare, DumpBuild, DumpEnd DEF Next, Outside

\* Exit code 0 after a full dump means that every module that was listed is in the
\* report, whatever the target unmapped or replaced between two steps and whichever
\* image could not be rebuilt, as long as there are no more allocation bases than
\* images are taken.
THEOREM CompleteDumps == ASSUME Enough PROVE Spec => []CompleteMeansAll
<1>1. Spec => []Shape
  BY InitShape, ShapeStep, PTL DEF Spec
<1>2. Spec => []MainInv
  BY <1>1, InitMain, MainStep, PTL DEF Spec
<1>3. Shape /\ MainInv /\ DumpInv => CompleteMeansAll
  <2> SUFFICES ASSUME Shape, MainInv, DumpInv, exit = 0, only = All
               PROVE  /\ MainRebuilt
                      /\ \A b \in Bases : modules[b] # None => \E f \in files : f.base = b /\ f.page = 0
    BY DEF CompleteMeansAll
  <2>1. pc = "exit" /\ MainRebuilt /\ dllFailures = 0
    BY DEF DumpInv, Report, IsComplete, All
  <2>2. toBuild = {}
    BY <2>1 DEF DumpInv, Report, MainRebuilt
  <2>3. ASSUME NEW b \in Bases, modules[b] # None, b # listedMain
        PROVE  \E f \in files : f.base = b /\ f.page = 0
    BY <2>1, <2>2, <2>3 DEF DumpInv, Built, Building, Plain
  <2>4. ASSUME NEW b \in Bases, modules[b] # None, b = listedMain
        PROVE  \E f \in files : f.base = b /\ f.page = 0
    <3>1. PICK f \in files : f.main
      BY <2>1 DEF MainRebuilt
    <3>2. listedMain # None
      BY <2>4, Constant
    <3>3. mainBase = listedMain /\ f.base = mainBase /\ f.page = 0
      BY <3>1, <3>2 DEF MainInv, Mains
    <3>4. QED
      BY <2>4, <3>1, <3>3
  <2>5. QED
    BY <2>1, <2>3, <2>4
<1>4. QED
  BY <1>1, <1>2, <1>3, InitDump, DumpStep, PTL DEF Spec
-----------------------------------------------------------------------------
\* What a selection selects.

\* The capture comes before the build.
LEMMA CaptureStays == ASSUME CaptureStep PROVE ~ Building /\ ~ Building'
<1> USE DEF Building
<1>1. CASE Query \/ Acquire \/ CaptureFails \/ ListRegions \/ ResolveMain
  BY <1>1 DEF Query, Acquire, CaptureFails, ListRegions, ResolveMain
<1>2. CASE ScanAllocation \/ StartReading \/ ReadImage \/ DoneReading
  BY <1>2 DEF ScanAllocation, StartReading, ReadImage, DoneReading
<1>3. CASE ChooseBuffers \/ CarveAllocation \/ DumpAllocation \/ Annotate
  BY <1>3 DEF ChooseBuffers, CarveAllocation, DumpAllocation, Annotate
<1>4. QED
  BY <1>1, <1>2, <1>3 DEF CaptureStep

LEMMA InitSelection == Init => Selection
BY Constant DEF Init, CaptureInit, Selection, Building

\* Nothing is selected before the images are built.
LEMMA SelectionBefore ==
  ASSUME MainInv, Selection, Outside, ~ Building, ~ Building'
  PROVE  Selection'
<1>1. exit' = None /\ failures' = {} /\ selected' = 0
  BY DEF MainInv, Untouched, Selection, Outside, report
<1>2. QED
  BY <1>1, Constant DEF Selection, Building

\* A step that leaves the images, the request and the report alone keeps the
\* selection.
LEMMA SelectionAside ==
  ASSUME Selection, UNCHANGED <<images, request, toBuild, report>>,
         ~ Building' => ~ Building,
         pc' \in {"build", "write"} \/ exit' = 0 => pc \in {"build", "write"} \/ exit = 0
  PROVE  Selection'
<1>1. \A i : Selects(i)' <=> Selects(i)
  BY DEF Selects, request
<1>2. QED
  BY <1>1 DEF Selection, request, report

\* The images are given names, and a name that is there stays.
LEMMA SelectionPrepare == ASSUME MainInv, Selection, Prepare PROVE Selection'
<1>1. /\ pc = "captured" /\ pc' \in {"build", "write"}
      /\ UNCHANGED <<images, failures, selected>>
      /\ \E own \in [Bases -> Files \cup {None}] :
           toBuild' = {IF i.name = None THEN [i EXCEPT !.name = own[i.base]] ELSE i : i \in images}
  BY DEF Prepare, reading
<1>2. \A i \in images : i.name # None => i \in toBuild'
  BY <1>1
<1>3. selected' = 0
  BY <1>1 DEF Selection, Building
<1>4. QED
  BY <1>1, <1>2, <1>3 DEF Selection, Building

\* An image that is selected and has a name is in the report or has failed.
LEMMA SelectionBuild ==
  ASSUME Shape, Selection, NEW i \in toBuild, NEW result \in {"dll", "exe", "error"},
         BuildImage(i, result)
  PROVE  Selection'
<1>1. /\ pc = "build" /\ pc' = "build" /\ UNCHANGED <<images, only, noMain>>
      /\ files \subseteq files' /\ failures \subseteq failures'
      /\ toBuild \subseteq toBuild' \cup {i} \/ (Selects(i) /\ i.main /\ ~ MainRebuilt')
  BY DEF BuildImage, captureVars, reading, request
<1> SUFFICES ASSUME only # All, ~ noMain, failures' = {}
             PROVE  /\ \A j \in images : j.name # None /\ Selects(j) => j \in toBuild' \cup files'
                    /\ only.kind = "name" /\ selected' > 0 => files' # {}
  <2>1. \A j : Selects(j)' <=> Selects(j)
    BY <1>1 DEF Selects
  <2>2. QED
    BY <1>1, <2>1 DEF Selection, Building
<1>2. failures = {}
  BY <1>1
<1>3. /\ \A j \in images : j.name # None /\ Selects(j) => j \in toBuild \cup files
      /\ only.kind = "name" /\ selected > 0 => files # {}
  BY <1>1, <1>2 DEF Selection
<1>4. ASSUME Selects(i), i.main \/ i.name # None PROVE i \in files'
  <2>1. result # "error"
    BY <1>4 DEF BuildImage
  <2>2. QED
    BY <1>4, <2>1 DEF BuildImage, Wanted
<1>5. toBuild \subseteq toBuild' \cup {i}
  BY <1>1, <1>4 DEF MainRebuilt
<1>6. ASSUME NEW j \in images, j.name # None, Selects(j) PROVE j \in toBuild' \cup files'
  BY <1>1, <1>3, <1>4, <1>5, <1>6
<1>7. ASSUME only.kind = "name", selected' > 0 PROVE files' # {}
  <2>1. CASE Selects(i)
    BY <1>4, <1>7, <2>1 DEF Selects
  <2>2. CASE ~ Selects(i)
    BY <1>1, <1>3, <1>7, <2>2 DEF BuildImage
  <2>3. QED
    BY <2>1, <2>2
<1>8. QED
  BY <1>6, <1>7

\* The last steps leave the report as it is.
LEMMA SelectionEnd ==
  ASSUME Selection, DoneBuilding \/ Write \/ Abort
  PROVE  Selection'
<1> USE DEF reading, request, report
<1>1. CASE DoneBuilding
  BY <1>1, SelectionAside DEF DoneBuilding, Building
<1>2. CASE Write
  BY <1>2, SelectionAside DEF Write, Building
<1>3. CASE Abort
  BY <1>3, SelectionAside DEF Abort, Building
<1>4. QED
  BY <1>1, <1>2, <1>3

LEMMA SelectionStep == Shape /\ MainInv /\ Selection /\ [Next]_vars => Selection'
<1> SUFFICES ASSUME Shape, MainInv, Selection, [Next]_vars PROVE Selection'
  OBVIOUS
<1>1. ASSUME CaptureStep, Outside PROVE Selection'
  BY <1>1, CaptureStays, SelectionBefore
<1>2. ASSUME Change, Outside PROVE Selection'
  BY <1>2, SelectionAside DEF Change, Outside, reading, Building
<1>3. CASE UNCHANGED vars
  BY <1>3, SelectionAside DEF vars, captureVars, reading, Building
<1>4. QED
  BY <1>1, <1>2, <1>3, SelectionPrepare, SelectionBuild, SelectionEnd DEF Next, Outside

\* Exit code 0 after "--only" means that every captured image with a name that was
\* asked for is in the report, and for a name that there was one, for any memory and
\* any limits: the report cannot be complete by an image that failed or was not
\* written, or by one that was never there.
THEOREM SelectedAreRebuilt == Spec => []SelectionMeansRebuilt
<1>1. Spec => []Shape
  BY InitShape, ShapeStep, PTL DEF Spec
<1>2. Spec => []MainInv
  BY <1>1, InitMain, MainStep, PTL DEF Spec
<1>3. Spec => []DumpInv
  BY <1>1, <1>2, InitDump, DumpStep, PTL DEF Spec
<1>4. Shape /\ DumpInv /\ Selection => SelectionMeansRebuilt
  <2> SUFFICES ASSUME Shape, DumpInv, Selection, exit = 0, only # All
               PROVE  /\ only.kind = "name" => files # {}
                      /\ \A i \in images : i.name # None /\ Selects(i) =>
                           \E f \in files : <<f.base, f.page, f.hidden>> = <<i.base, i.page, i.hidden>>
    BY DEF SelectionMeansRebuilt
  <2>1. pc = "exit" /\ IsComplete
    BY DEF DumpInv, Report
  <2>2. only.kind # "all"
    BY RequestsAssumption DEF Shape, TypeOK, All, Named, Address
  <2>3. ~ noMain
    BY <2>1 DEF DumpInv, Report, IsComplete, MainRebuilt
  <2>4. toBuild = {} /\ selected > 0 /\ failures = {}
    BY <2>1, <2>2, <2>3 DEF DumpInv, Report, IsComplete
  <2>5. QED
    BY <2>3, <2>4 DEF Selection
<1>5. QED
  BY <1>1, <1>2, <1>3, <1>4, InitSelection, SelectionStep, PTL DEF Spec
-----------------------------------------------------------------------------
\* What the capture leaves out is counted.

\* A PE starts in its allocation.
LEMMA StartsInside ==
  ASSUME NEW a \in Allocations, a.kind = "private", a.pe # None
  PROVE  a.size \in Nat \ {0} /\ a.pe.page \in 0..(a.size - 1)
<1>1. a # Free
  BY DEF Free
<1>2. QED
  BY <1>1, CaptureAssumption

\* The mapped images are finitely many.
LEMMA LeftType ==
  ASSUME Shape
  PROVE  /\ ImagesAt(regions) \in SUBSET Bases /\ Left \in SUBSET Bases
         /\ IsFiniteSet(Left) /\ Cardinality(Left) \in Nat
<1>1. ImagesAt(regions) \in SUBSET Bases
  BY DEF ImagesAt, Shape, TypeOK, CaptureTypeOK
<1>2. Left \in SUBSET Bases
  BY <1>1 DEF Left
<1>3. QED
  BY <1>1, <1>2, FewBases

\* Only the capture is counted.
LEMMA CountsOutside ==
  ASSUME pc' \notin {"resolve", "scan", "read", "unclaimed", "carve", "raw", "annotate", "captured"}
  PROVE  Counts'
<1>1. ~ Capturing' /\ pc' # "resolve"
  BY DEF Capturing
<1>2. QED
  BY <1>1 DEF Counts, SkippedCounted, FrozenView, ScanCounted, HiddenCounted, CarveCounted

\* A step that reads no image and carves nothing, and moves on when the work of its
\* place is done, keeps the counts.
LEMMA CountsAside ==
  ASSUME Shape, Counts,
         UNCHANGED <<regions, clone, cloned, toScan, hidden, toRead, skipped, toCarve, carved>>,
         unscanned' = 0 => unscanned = 0,
         \A i \in images : \E j \in images' :
           j.base = i.base /\ j.page = i.page /\ j.hidden = i.hidden,
         Capturing' => Capturing, pc' = "resolve" => pc = "resolve",
         Capturing' /\ pc' # "scan" => pc # "scan",
         pc' \in {"carve", "raw", "annotate", "captured"}
           => pc \in {"carve", "raw", "annotate", "captured"},
         pc' \in {"raw", "annotate", "captured"} => toCarve = {}
  PROVE  Counts'
<1>1. SkippedCounted'
  <2> SUFFICES ASSUME Capturing' PROVE Cardinality(Left') <= skipped'
    BY DEF SkippedCounted
  <2>1. ASSUME NEW b \in Left' PROVE b \in Left
    <3>1. b \in ImagesAt(regions) /\ <<b, 0, FALSE>> \notin toRead
      BY DEF Left, ImagesAt
    <3>2. ~ \E i \in images : i.base = b /\ ~ i.hidden
      BY DEF Left
    <3>3. QED
      BY <3>1, <3>2 DEF Left
  <2>2. Cardinality(Left') <= Cardinality(Left) /\ Cardinality(Left') \in Nat
        /\ Cardinality(Left) \in Nat
    BY <2>1, LeftType, FewBases
  <2>3. Cardinality(Left) <= skipped
    BY DEF Counts, SkippedCounted
  <2>4. QED
    BY <2>2, <2>3 DEF Shape, TypeOK, CaptureTypeOK
<1>2. FrozenView'
  BY DEF Counts, FrozenView
<1>3. ScanCounted'
  BY DEF Counts, ScanCounted, Searched, ExecutableAt
<1>4. HiddenCounted'
  <2> SUFFICES ASSUME Capturing', pc' # "scan", skipped' = 0, NEW h \in hidden
               PROVE  \/ <<h[1], h[2], TRUE>> \in toRead'
                      \/ \E i \in images' : i.base = h[1] /\ i.page = h[2] /\ i.hidden
    BY DEF HiddenCounted
  <2>1. CASE <<h[1], h[2], TRUE>> \in toRead
    BY <2>1
  <2>2. CASE \E i \in images : i.base = h[1] /\ i.page = h[2] /\ i.hidden
    BY <2>2
  <2>3. QED
    BY <2>1, <2>2 DEF Counts, HiddenCounted
<1>5. CarveCounted'
  BY DEF Counts, CarveCounted, ExecutableAt, Claimed
<1>6. QED
  BY <1>1, <1>2, <1>3, <1>4, <1>5 DEF Counts

\* The region list is made of the clone.
LEMMA CountsList == ASSUME Shape, ListRegions PROVE Counts'
<1>1. pc' = "resolve" /\ regions' = [b \in Bases |-> Seen(b)] /\ UNCHANGED <<clone, cloned>>
  BY DEF ListRegions
<1>2. cloned' => regions' = clone'
  BY <1>1 DEF Seen, Shape, TypeOK, CaptureTypeOK
<1>3. ~ Capturing'
  BY <1>1 DEF Capturing
<1>4. QED
  BY <1>1, <1>2, <1>3 DEF Counts, SkippedCounted, FrozenView, ScanCounted, HiddenCounted, CarveCounted

\* The mapped images past the limit are skipped.
LEMMA CountsResolve == ASSUME Shape, Counts, ResolveMain PROVE Counts'
<1> DEFINE kept == Kept(ImageBases, MainAmong(ImageBases))
<1>1. /\ pc = "resolve" /\ pc' = "scan" /\ skipped' = OverLimit(kept)
      /\ toRead' = {<<b, 0, FALSE>> : b \in {c \in kept : regions[c].kind # "free"}}
      /\ toScan' = {b \in Bases : ExecutableAt(b)}
      /\ UNCHANGED <<regions, clone, cloned, images>>
  BY DEF ResolveMain
<1>2. ImageBases \in SUBSET Bases /\ kept \in SUBSET ImageBases
  BY DEF ImageBases, ImagesAt, Kept, Shape, TypeOK, CaptureTypeOK
<1> HIDE DEF kept
<1>3. Left' \subseteq ImageBases \ kept
  <2> SUFFICES ASSUME NEW b \in Left' PROVE b \in ImageBases \ kept
    OBVIOUS
  <2>1. b \in ImagesAt(regions) /\ <<b, 0, FALSE>> \notin toRead' /\ regions[b].kind # "free"
    BY <1>1 DEF Left, ImagesAt
  <2>2. b \notin kept
    BY <1>1, <2>1
  <2>3. QED
    BY <2>1, <2>2 DEF ImageBases
<1>4. Cardinality(Left') <= skipped'
  <2>1. IsFiniteSet(ImageBases)
    BY <1>2, FewBases
  <2>2. Cardinality(ImageBases \ kept) = Cardinality(ImageBases) - Cardinality(ImageBases \cap kept)
    BY <2>1, FS_Difference
  <2>3. ImageBases \cap kept = kept
    BY <1>2
  <2>4. Cardinality(Left') <= Cardinality(ImageBases \ kept)
    BY <1>2, <1>3, FewBases
  <2>5. QED
    BY <1>1, <2>2, <2>3, <2>4 DEF OverLimit
<1>5. FrozenView'
  BY <1>1 DEF Counts, FrozenView
<1>6. ScanCounted'
  BY <1>1 DEF ScanCounted, ExecutableAt
<1>7. QED
  BY <1>1, <1>4, <1>5, <1>6 DEF Counts, SkippedCounted, HiddenCounted, CarveCounted
\* Pages that are not searched, though a PE may start there, count as unscanned.
LEMMA CountsScan == ASSUME Shape, Counts, ScanAllocation PROVE Counts'
<1>0. PICK b : b = First(toScan)
  OBVIOUS
<1> DEFINE size == regions[b].size
           readable == regions[b].readable
           pages == Scannable(readable)
<1>a. PICK headers \in Readings(b) :
        LET found == {p \in headers : p < pages}
        IN  IF found # {}
              THEN /\ hidden' = hidden \cup ({b} \X found)
                   /\ UNCHANGED unscanned
              ELSE /\ unscanned' = unscanned + (readable - pages)
                   /\ UNCHANGED hidden
  BY <1>0 DEF ScanAllocation, Counted
<1> DEFINE found == {p \in headers : p < pages}
<1>1. /\ pc = "scan" /\ pc' = "scan"
      /\ \/ /\ found # {}
            /\ hidden' = hidden \cup ({b} \X found)
            /\ UNCHANGED unscanned
         \/ /\ found = {}
            /\ unscanned' = unscanned + (readable - pages)
            /\ UNCHANGED hidden
      /\ toScan' = toScan \ {b}
      /\ UNCHANGED <<clone, cloned, regions, toRead, images, skipped>>
  BY <1>0, <1>a DEF ScanAllocation, view, reading
<1>2. b \in toScan
  <2>1. toScan # {} /\ toScan \in SUBSET Nat
    BY Constant DEF ScanAllocation, Shape, TypeOK, CaptureTypeOK
  <2>2. QED
    BY <1>0, <2>1, FirstIn
<1>3. b \in Bases /\ regions[b] \in Allocations /\ regions[b].kind = "private"
  BY <1>2 DEF Shape, Reading, TypeOK, CaptureTypeOK
<1>4. size \in Nat \ {0} /\ readable \in 0..size
  BY <1>3, Kinds
<1>5. pages \in 0..readable
  BY <1>4, Limits DEF Scannable, Shape, TypeOK, CaptureTypeOK
<1>6. unscanned \in Nat /\ unscanned' \in Nat /\ (unscanned' = 0 => unscanned = 0)
  BY <1>1, <1>4, <1>5 DEF Shape, TypeOK, CaptureTypeOK
<1>7. hidden \subseteq hidden'
  BY <1>1
<1>8. cloned /\ regions[b].pe # None /\ readable = size /\ size - regions[b].pe.page <= MaxImageSize
        => headers = {regions[b].pe.page}
  <2> SUFFICES ASSUME cloned, regions[b].pe # None, readable = size,
                      size - regions[b].pe.page <= MaxImageSize
               PROVE  headers = {regions[b].pe.page}
    OBVIOUS
  <2>1. Seen(b) = regions[b]
    BY <1>1 DEF Seen, Counts, FrozenView, Capturing
  <2> DEFINE page == regions[b].pe.page
  <2>2. HeadersIn(b) = {p \in {page} : size <= size /\ size - p <= MaxImageSize}
    BY <1>3, <2>1 DEF HeadersIn
  <2>3. size <= size /\ ~ (readable < size)
    BY <1>4
  <2>4. headers = HeadersIn(b)
    BY <2>1, <2>3 DEF Readings
  <2>5. QED
    BY <2>2, <2>3, <2>4
<1>9. regions[b].pe # None => regions[b].pe.page \in 0..(size - 1)
  BY <1>3, StartsInside
<1> HIDE DEF found, pages, size, readable
<1>10. ASSUME unscanned' = 0 PROVE Searched(b)'
  <2> SUFFICES ASSUME cloned, regions[b].pe # None, readable = size,
                      size - regions[b].pe.page <= MaxImageSize
               PROVE  <<b, regions[b].pe.page>> \in hidden'
    BY <1>1 DEF Searched, size, readable
  <2>1. regions[b].pe.page < pages => <<b, regions[b].pe.page>> \in hidden'
    <3>1. ASSUME regions[b].pe.page < pages PROVE regions[b].pe.page \in found
      BY <1>8, <3>1 DEF found
    <3>2. QED
      BY <1>1, <3>1
  <2>2. ASSUME ~ (regions[b].pe.page < pages) PROVE FALSE
    <3>1. found = {}
      BY <1>8, <2>2 DEF found
    <3>2. readable - pages > 0
      BY <1>4, <1>5, <1>9, <2>2
    <3>3. QED
      BY <1>1, <1>4, <1>5, <1>6, <1>10, <3>1, <3>2
  <2>3. QED
    BY <2>1, <2>2
<1>11. ScanCounted'
  <2> SUFFICES ASSUME unscanned' = 0, NEW c \in Bases, ExecutableAt(c)
               PROVE  c \in toScan' \/ Searched(c)'
    BY <1>1 DEF ScanCounted, ExecutableAt
  <2>1. c \in toScan \/ Searched(c)
    BY <1>1, <1>6 DEF Counts, ScanCounted, Capturing
  <2>2. Searched(c) => Searched(c)'
    BY <1>1, <1>7 DEF Searched
  <2>3. QED
    BY <1>1, <1>10, <2>1, <2>2
<1>12. SkippedCounted'
  BY <1>1 DEF Counts, SkippedCounted, Left, Capturing
<1>13. FrozenView'
  BY <1>1 DEF Counts, FrozenView, Capturing
<1>14. QED
  BY <1>1, <1>11, <1>12, <1>13 DEF Counts, HiddenCounted, CarveCounted

\* The PEs that were found are to be read.
LEMMA CountsStart == ASSUME Shape, Counts, StartReading PROVE Counts'
<1>1. /\ pc = "scan" /\ pc' = "read" /\ toScan = {}
      /\ toRead' = toRead \cup {<<h[1], h[2], TRUE>> : h \in hidden}
      /\ UNCHANGED <<regions, clone, cloned, toScan, hidden, images, skipped, unscanned>>
  BY DEF StartReading, view, scan, counts
<1>2. SkippedCounted'
  <2>1. Left' \subseteq Left
    <3> SUFFICES ASSUME NEW b \in Left' PROVE b \in Left
      OBVIOUS
    <3>1. b \in ImagesAt(regions) /\ <<b, 0, FALSE>> \notin toRead
          /\ ~ \E i \in images : i.base = b /\ ~ i.hidden
      BY <1>1 DEF Left, ImagesAt
    <3>2. QED
      BY <3>1 DEF Left
  <2>2. Cardinality(Left') <= Cardinality(Left) /\ Cardinality(Left') \in Nat
        /\ Cardinality(Left) \in Nat
    BY <2>1, LeftType, FewBases
  <2>3. Cardinality(Left) <= skipped
    BY <1>1 DEF Counts, SkippedCounted, Capturing
  <2>4. QED
    BY <1>1, <2>2, <2>3 DEF SkippedCounted, Shape, TypeOK, CaptureTypeOK
<1>3. FrozenView'
  BY <1>1 DEF Counts, FrozenView, Capturing
<1>4. ScanCounted'
  BY <1>1 DEF Counts, ScanCounted, Searched, ExecutableAt, Capturing
<1>5. HiddenCounted'
  BY <1>1 DEF HiddenCounted
<1>6. QED
  BY <1>1, <1>2, <1>3, <1>4, <1>5 DEF Counts, CarveCounted

\* An image is read, or counts as skipped.
LEMMA CountsRead == ASSUME Shape, Counts, ReadImage PROVE Counts'
<1> DEFINE n == NextToRead
<1>1. /\ pc = "read" /\ pc' = "read" /\ toRead # {} /\ toRead' = toRead \ {n}
      /\ images \subseteq images'
      /\ UNCHANGED <<regions, clone, cloned, toScan, hidden, unscanned>>
  BY Reads DEF view, scan
<1>2. /\ Taken => NextImage \in images' /\ skipped' = skipped
      /\ ~ Taken => skipped' = skipped + 1
  BY Reads
<1>3. n[1] \in Bases /\ n = <<n[1], n[2], n[3]>>
      /\ NextImage.base = n[1] /\ NextImage.page = n[2] /\ NextImage.hidden = n[3]
  BY <1>1, NextFacts DEF NextImage
<1> HIDE DEF n
<1>4. \A b \in Left' : b \in Left \/ (b = n[1] /\ ~ n[3] /\ n[2] = 0)
  <2> SUFFICES ASSUME NEW b \in Left', b \notin Left PROVE b = n[1] /\ ~ n[3] /\ n[2] = 0
    OBVIOUS
  <2>1. b \in ImagesAt(regions) /\ ~ \E i \in images : i.base = b /\ ~ i.hidden
    BY <1>1 DEF Left, ImagesAt
  <2>2. <<b, 0, FALSE>> \in toRead /\ <<b, 0, FALSE>> \notin toRead'
    BY <2>1 DEF Left
  <2>3. <<b, 0, FALSE>> = n
    BY <1>1, <2>2
  <2>4. QED
    BY <2>3
<1>5. SkippedCounted'
  <2> SUFFICES Cardinality(Left') <= skipped'
    BY DEF SkippedCounted
  <2>1. Cardinality(Left) <= skipped /\ skipped \in Nat /\ IsFiniteSet(Left)
        /\ Cardinality(Left) \in Nat
    BY <1>1, LeftType DEF Counts, SkippedCounted, Capturing, Shape, TypeOK, CaptureTypeOK
  <2>2. CASE Taken
    <3>1. ASSUME NEW b \in Left' PROVE b \in Left
      <4>1. ASSUME b = n[1], ~ n[3] PROVE FALSE
        <5>1. \E i \in images' : i.base = b /\ ~ i.hidden
          BY <1>2, <1>3, <2>2, <4>1
        <5>2. QED
          BY <5>1 DEF Left
      <4>2. QED
        BY <1>4, <4>1
    <3>2. Cardinality(Left') <= Cardinality(Left) /\ Cardinality(Left') \in Nat
      BY <3>1, LeftType, FewBases
    <3>3. QED
      BY <1>2, <2>1, <2>2, <3>2
  <2>3. CASE ~ Taken
    <3>1. Left' \subseteq Left \cup {n[1]} /\ Left \cup {n[1]} \in SUBSET Bases
      BY <1>3, <1>4, LeftType
    <3>2. Cardinality(Left') <= Cardinality(Left \cup {n[1]}) /\ Cardinality(Left') \in Nat
          /\ Cardinality(Left \cup {n[1]}) \in Nat
      BY <3>1, FewBases
    <3>3. Cardinality(Left \cup {n[1]}) <= Cardinality(Left) + 1
      BY <2>1, OneMore
    <3>4. skipped' = skipped + 1
      BY <1>2, <2>3
    <3>5. Cardinality(Left') <= Cardinality(Left) + 1
      BY <2>1, <3>2, <3>3
    <3>6. QED
      BY <2>1, <3>2, <3>4, <3>5
  <2>4. QED
    BY <2>2, <2>3
<1>6. HiddenCounted'
  <2> SUFFICES ASSUME skipped' = 0, NEW h \in hidden
               PROVE  \/ <<h[1], h[2], TRUE>> \in toRead'
                      \/ \E i \in images' : i.base = h[1] /\ i.page = h[2] /\ i.hidden
    BY <1>1 DEF HiddenCounted
  <2>1. Taken /\ skipped = 0
    BY <1>2 DEF Shape, TypeOK, CaptureTypeOK
  <2>2. CASE <<h[1], h[2], TRUE>> = n
    <3>1. NextImage.base = h[1] /\ NextImage.page = h[2] /\ NextImage.hidden
      BY <1>3, <2>2
    <3>2. QED
      BY <1>2, <2>1, <3>1
  <2>3. CASE <<h[1], h[2], TRUE>> # n
    BY <1>1, <2>1, <2>3 DEF Counts, HiddenCounted, Capturing
  <2>4. QED
    BY <2>2, <2>3
<1>7. FrozenView' /\ ScanCounted'
  BY <1>1 DEF Counts, FrozenView, ScanCounted, Searched, ExecutableAt, Capturing
<1>8. QED
  BY <1>1, <1>5, <1>6, <1>7 DEF Counts, CarveCounted

\* Executable memory that gave up no PE is chosen to be carved.
LEMMA CountsBuffers == ASSUME Shape, Counts, ChooseBuffers PROVE Counts'
<1>1. /\ pc = "unclaimed" /\ pc' = "carve"
      /\ {<<0, b>> : b \in {c \in Bases : ExecutableAt(c)} \ Claimed} \subseteq toCarve'
      /\ UNCHANGED <<regions, clone, cloned, toScan, hidden, toRead, images, skipped, unscanned>>
  BY DEF ChooseBuffers, view, scan, reading, counts
<1>2. Claimed' = Claimed
  BY <1>1 DEF Claimed
<1>3. CarveCounted'
  BY <1>1, <1>2 DEF CarveCounted, ExecutableAt
<1>4. SkippedCounted' /\ FrozenView'
  BY <1>1 DEF Counts, SkippedCounted, FrozenView, Left, Capturing
<1>5. ScanCounted' /\ HiddenCounted'
  BY <1>1 DEF Counts, ScanCounted, HiddenCounted, Searched, ExecutableAt, Capturing
<1>6. QED
  BY <1>3, <1>4, <1>5 DEF Counts

\* A buffer is carved whole, or the rest of it counts as unscanned.
LEMMA CountsCarve == ASSUME Shape, Counts, CarveAllocation PROVE Counts'
<1> DEFINE c == NextToCarve
           size == regions[c[2]].readable
           pages == Readable(size, carved)
<1>1. pc = "carve" /\ UNCHANGED <<regions, clone, cloned, toScan, hidden, toRead, images, skipped>>
  BY DEF CarveAllocation, view, scan, reading
<1>2. CASE toCarve = {}
  <2>1. pc' = "raw" /\ UNCHANGED <<toCarve, carved, unscanned>>
    BY <1>2 DEF CarveAllocation
  <2>2. QED
    BY <1>1, <1>2, <2>1, CountsAside DEF Capturing
<1>3. CASE toCarve # {}
  <2>1. /\ carved' = IF pages = 0 THEN carved ELSE carved \cup {<<c[2], pages>>}
        /\ unscanned' = unscanned + (size - pages)
        /\ toCarve' = toCarve \ {c} /\ pc' = "carve"
    BY <1>1, <1>3 DEF CarveAllocation
  <2>2. c \in toCarve /\ c[2] \in Bases /\ regions[c[2]] \in Allocations
        /\ regions[c[2]].kind = "private"
    <3>1. c \in toCarve
      BY <1>3, NextIsUncarved DEF Shape, TypeOK
    <3>2. QED
      BY <3>1 DEF Shape, Reading, TypeOK, CaptureTypeOK
  <2>3. size \in Nat
    BY <2>2, Kinds
  <2>4. pages \in Nat /\ pages <= size
    BY <2>3, ReadableFits DEF Shape, TypeOK, CaptureTypeOK
  <2> HIDE DEF pages, size, c
  <2>5. unscanned' = 0 => unscanned = 0 /\ pages = size
    BY <2>1, <2>3, <2>4 DEF Shape, TypeOK, CaptureTypeOK
  <2>6. unscanned' = 0 => (size = 0 \/ <<c[2], size>> \in carved') /\ carved \subseteq carved'
    BY <2>1, <2>3, <2>5
  <2>7. Claimed' = Claimed
    BY <1>1 DEF Claimed
  <2>8. CarveCounted'
    <3> SUFFICES ASSUME unscanned' = 0, NEW b \in Bases, ExecutableAt(b)
                 PROVE  \/ b \in Claimed \/ <<0, b>> \in toCarve'
                        \/ regions[b].readable = 0 \/ <<b, regions[b].readable>> \in carved'
      BY <1>1, <2>1, <2>7 DEF CarveCounted, ExecutableAt
    <3>1. \/ b \in Claimed \/ <<0, b>> \in toCarve
          \/ regions[b].readable = 0 \/ <<b, regions[b].readable>> \in carved
      BY <1>1, <2>5 DEF Counts, CarveCounted
    <3>2. CASE <<0, b>> = c
      <4>1. c[2] = b
        BY <3>2
      <4>2. QED
        BY <2>6, <4>1 DEF size
    <3>3. CASE <<0, b>> # c
      BY <2>1, <2>6, <3>1, <3>3
    <3>4. QED
      BY <3>2, <3>3
  <2>9. SkippedCounted' /\ FrozenView'
    BY <1>1, <2>1 DEF Counts, SkippedCounted, FrozenView, Left, Capturing
  <2>10. ScanCounted' /\ HiddenCounted'
    BY <1>1, <2>1, <2>5 DEF Counts, ScanCounted, HiddenCounted, Searched, ExecutableAt, Capturing
  <2>11. QED
    BY <2>8, <2>9, <2>10 DEF Counts
<1>4. QED
  BY <1>2, <1>3

\* Memory written as it is reads no image.
LEMMA CountsDump == ASSUME Shape, Shape', Counts, DumpAllocation PROVE Counts'
<1> DEFINE b == First(toDump)
           size == regions[b].readable
           pages == Readable(size, raw)
<1>1. /\ pc = "raw" /\ pc' \in {"raw", "annotate"}
      /\ UNCHANGED <<regions, clone, cloned, toScan, hidden, toRead, images, toCarve, carved, skipped>>
      /\ \/ UNCHANGED unscanned
         \/ toDump # {} /\ unscanned' = unscanned + (size - pages)
  BY DEF DumpAllocation, view, scan, reading
<1>2. toCarve = {}
  BY <1>1 DEF Counts, CarveCounted
<1>3. ASSUME toDump # {} PROVE size \in Nat /\ pages \in Nat /\ pages <= size
  <2>1. b \in toDump
    BY <1>3, Constant, FirstIn DEF Shape, TypeOK, CaptureTypeOK
  <2>2. regions[b] \in Allocations /\ regions[b].kind = "private"
    BY <2>1 DEF Shape, Reading, TypeOK, CaptureTypeOK
  <2>3. size \in Nat
    BY <2>2, Kinds
  <2>4. QED
    BY <2>3, ReadableFits DEF Shape, TypeOK, CaptureTypeOK
<1> HIDE DEF b, size, pages
<1>4. unscanned' = 0 => unscanned = 0
  BY <1>1, <1>3 DEF Shape, TypeOK, CaptureTypeOK
<1>5. QED
  BY <1>1, <1>2, <1>4, CountsAside DEF Capturing

\* Names do not move an image.
LEMMA CountsAnnotate == ASSUME Shape, Counts, Annotate PROVE Counts'
<1>1. /\ pc = "annotate" /\ pc' = "captured"
      /\ UNCHANGED <<regions, clone, cloned, toScan, hidden, toRead, skipped, unscanned, toCarve, carved>>
  BY DEF Annotate, view, scan, buffers, counts
<1>2. ASSUME NEW i \in images
      PROVE  \E j \in images' : j.base = i.base /\ j.page = i.page /\ j.hidden = i.hidden
  <2>1. CASE images' = images
    BY <2>1
  <2>2. CASE images' = {Annotated(k) : k \in images}
    <3>1. PICK n \in Files \cup {None} : Annotated(i) = [i EXCEPT !.name = n]
      BY AnnotatedFacts
    <3>2. Annotated(i) \in images'
      BY <2>2
    <3>3. Annotated(i).base = i.base /\ Annotated(i).page = i.page /\ Annotated(i).hidden = i.hidden
      BY <3>1 DEF Shape, TypeOK, CaptureTypeOK, CapturedImages
    <3>4. QED
      BY <3>2, <3>3
  <2>3. QED
    BY <2>1, <2>2 DEF Annotate
<1>3. toCarve = {}
  BY <1>1 DEF Counts, CarveCounted
<1>4. QED
  BY <1>1, <1>2, <1>3, CountsAside DEF Capturing

LEMMA InitCounts == Init => Counts
BY DEF Init, CaptureInit, Counts, SkippedCounted, FrozenView, ScanCounted, HiddenCounted, CarveCounted,
   Capturing

LEMMA CountsStep == Shape /\ Shape' /\ Counts /\ [Next]_vars => Counts'
<1> SUFFICES ASSUME Shape, Shape', Counts, [Next]_vars PROVE Counts'
  OBVIOUS
<1>1. CASE Query \/ Acquire \/ CaptureFails
  BY <1>1, CountsOutside DEF Query, Acquire, CaptureFails
<1>2. CASE DoneReading
  <2>1. /\ pc = "read" /\ pc' \in {"error", "unclaimed"}
        /\ UNCHANGED <<regions, clone, cloned, toScan, hidden, toRead, images, skipped, unscanned,
                       toCarve, carved>>
    BY <1>2 DEF DoneReading, view, scan, reading, buffers, counts
  <2>2. QED
    BY <2>1, CountsAside DEF Capturing
<1>3. CASE CaptureStep
  BY <1>1, <1>2, <1>3, CountsList, CountsResolve, CountsScan, CountsStart, CountsRead, CountsBuffers,
     CountsCarve, CountsDump, CountsAnnotate DEF CaptureStep
<1>4. CASE Change \/ UNCHANGED vars
  <2>1. UNCHANGED <<pc, regions, clone, cloned, toScan, hidden, toRead, images, skipped, unscanned,
                    toCarve, carved>>
    BY <1>4 DEF Change, vars, captureVars, view, scan, reading, buffers, counts
  <2>2. pc \in {"raw", "annotate", "captured"} => toCarve = {}
    BY DEF Counts, CarveCounted
  <2>3. QED
    BY <2>1, <2>2, CountsAside DEF Capturing
<1>5. CASE Prepare \/ DoneBuilding \/ Write \/ Abort
  BY <1>5, CountsOutside DEF Prepare, DoneBuilding, Write, Abort
<1>6. ASSUME NEW i \in toBuild, NEW result \in {"dll", "exe", "error"}, BuildImage(i, result)
      PROVE  Counts'
  BY <1>6, CountsOutside DEF BuildImage, captureVars
<1>7. QED
  BY <1>3, <1>4, <1>5, <1>6 DEF Next

\* Every mapped image of the region list is captured or counted as skipped, for any
\* memory, any listing and any limits.
THEOREM EveryImageCounts == Spec => []ImagesAccounted
<1>1. Shape /\ Counts => ImagesAccounted
  <2> SUFFICES ASSUME Shape, Counts, pc = "captured"
               PROVE  Cardinality({b \in ImagesAt(regions) :
                                     ~ \E i \in images : i.base = b /\ ~ i.hidden}) <= skipped
    BY DEF ImagesAccounted
  <2>1. toRead = {}
    BY DEF Shape, Reading
  <2>2. Left = {b \in ImagesAt(regions) : ~ \E i \in images : i.base = b /\ ~ i.hidden}
    BY <2>1 DEF Left
  <2>3. QED
    BY <2>2 DEF Counts, SkippedCounted, Capturing
<1>2. Spec => []Shape
  BY InitShape, ShapeStep, PTL DEF Spec
<1>3. QED
  BY <1>1, <1>2, InitCounts, CountsStep, PTL DEF Spec

-----------------------------------------------------------------------------
\* What the report warns of.

\* An executable allocation gives up at most one PE, and a PE that was found is read
\* at most once.
OneEach ==
  Capturing =>
    /\ \A b \in toScan : ExecutableAt(b)
    /\ \A h \in hidden : ExecutableAt(h[1]) /\ h[1] \notin toScan
    /\ \A h, k \in hidden : h[1] = k[1] => h = k
    /\ \A i \in images : i.hidden => /\ <<i.base, i.page>> \in hidden
                                     /\ <<i.base, i.page, TRUE>> \notin toRead
    /\ \A i, j \in images : i.hidden /\ j.hidden /\ i.base = j.base => i = j

LEMMA InitOneEach == Init => OneEach
BY DEF Init, CaptureInit, OneEach, Capturing

\* A step that neither scans nor reads keeps it.
LEMMA OneEachAside ==
  ASSUME OneEach, UNCHANGED <<regions, toScan, hidden, images, toRead>>, Capturing' => Capturing
  PROVE  OneEach'
BY DEF OneEach, ExecutableAt

\* An allocation in which a PE was found is not scanned again.
LEMMA OneEachScan == ASSUME Shape, OneEach, ScanAllocation PROVE OneEach'
<1>0. PICK b : b = First(toScan)
  OBVIOUS
<1> DEFINE pages == Scannable(regions[b].readable)
<1>1. PICK headers \in Readings(b) : LET found == {p \in headers : p < pages}
                                     IN  hidden' = hidden \cup ({b} \X found) \/ hidden' = hidden
  BY <1>0 DEF ScanAllocation
<1>2. /\ pc = "scan" /\ pc' = "scan" /\ toScan' = toScan \ {b}
      /\ UNCHANGED <<regions, toRead, images>>
  BY <1>0 DEF ScanAllocation, view, reading
<1>3. b \in toScan
  <2>1. toScan # {} /\ toScan \in SUBSET Nat
    BY Constant DEF ScanAllocation, Shape, TypeOK, CaptureTypeOK
  <2>2. QED
    BY <1>0, <2>1, FirstIn
<1>4. \A p, q \in headers : p = q
  BY DEF Readings, HeadersIn
<1>5. images = {}
  BY <1>2 DEF Shape, Reading
<1>6. hidden' \subseteq hidden \cup ({b} \X headers)
  BY <1>1
<1>7. \A h \in hidden' : h \in hidden \/ (h[1] = b /\ h[2] \in headers /\ h = <<h[1], h[2]>>)
  BY <1>6
<1>8. /\ \A c \in toScan : ExecutableAt(c)
      /\ \A h \in hidden : ExecutableAt(h[1]) /\ h[1] \notin toScan
      /\ \A h, k \in hidden : h[1] = k[1] => h = k
  BY <1>2 DEF OneEach, Capturing
<1>9. \A h, k \in hidden' : h[1] = k[1] => h = k
  BY <1>3, <1>4, <1>7, <1>8
<1>10. \A h \in hidden' : ExecutableAt(h[1])' /\ h[1] \notin toScan'
  BY <1>2, <1>3, <1>7, <1>8 DEF ExecutableAt
<1>11. QED
  BY <1>2, <1>5, <1>8, <1>9, <1>10 DEF OneEach, ExecutableAt

\* An image is taken off the list when it is read.
LEMMA OneEachRead == ASSUME Shape, OneEach, ReadImage PROVE OneEach'
<1> DEFINE n == NextToRead
<1>1. /\ pc = "read" /\ pc' = "read" /\ toRead # {} /\ toRead' = toRead \ {n}
      /\ images' = images \/ images' = images \cup {NextImage}
      /\ UNCHANGED <<regions, toScan, hidden>>
  BY Reads DEF view, scan
<1>2. n \in toRead /\ n = <<n[1], n[2], n[3]>> /\ n[3] \in BOOLEAN
      /\ NextImage.base = n[1] /\ NextImage.page = n[2] /\ NextImage.hidden = n[3]
  BY <1>1, NextFacts DEF NextImage
<1>3. n[3] => <<n[1], n[2]>> \in hidden
  BY <1>2 DEF Shape, Reading
<1> HIDE DEF n
<1>4. /\ \A i \in images : i.hidden => /\ <<i.base, i.page>> \in hidden
                                       /\ <<i.base, i.page, TRUE>> \notin toRead
      /\ \A i, j \in images : i.hidden /\ j.hidden /\ i.base = j.base => i = j
      /\ \A h, k \in hidden : h[1] = k[1] => h = k
  BY <1>1 DEF OneEach, Capturing
<1>5. n[3] => n = <<n[1], n[2], TRUE>>
  BY <1>2
<1>6. \A i \in images' : i \in images \/ i = NextImage
  BY <1>1
<1>7. ASSUME NEW i \in images', i.hidden
      PROVE  <<i.base, i.page>> \in hidden' /\ <<i.base, i.page, TRUE>> \notin toRead'
  <2>1. CASE i \in images
    BY <1>1, <1>4, <1>7, <2>1
  <2>2. CASE i = NextImage
    BY <1>1, <1>2, <1>3, <1>5, <1>7, <2>2
  <2>3. QED
    BY <1>6, <2>1, <2>2
<1>8. ASSUME NEW i \in images, i.hidden, n[3], i.base = n[1] PROVE FALSE
  <2>1. <<i.base, i.page>> \in hidden /\ <<n[1], n[2]>> \in hidden
    BY <1>3, <1>4, <1>8
  <2>2. <<i.base, i.page>> = <<n[1], n[2]>>
    BY <1>4, <1>8, <2>1
  <2>3. <<i.base, i.page, TRUE>> = n
    BY <1>5, <1>8, <2>2
  <2>4. QED
    BY <1>2, <1>4, <1>8, <2>3
<1>9. \A i, j \in images' : i.hidden /\ j.hidden /\ i.base = j.base => i = j
  <2> SUFFICES ASSUME NEW i \in images', NEW j \in images', i.hidden, j.hidden, i.base = j.base
               PROVE  i = j
    OBVIOUS
  <2>1. CASE i \in images /\ j \in images
    BY <1>4, <2>1
  <2>2. CASE i \in images /\ j = NextImage
    BY <1>2, <1>8, <2>2
  <2>3. CASE i = NextImage /\ j \in images
    BY <1>2, <1>8, <2>3
  <2>4. QED
    BY <1>6, <2>1, <2>2, <2>3
<1>10. QED
  BY <1>1, <1>7, <1>9 DEF OneEach, ExecutableAt, Capturing

\* Names make no image another's.
LEMMA OneEachAnnotate == ASSUME Shape, OneEach, Annotate PROVE OneEach'
<1>1. pc = "annotate" /\ UNCHANGED <<regions, toScan, hidden, toRead>>
  BY DEF Annotate, view, scan
<1>2. CASE images' = images
  BY <1>1, <1>2, OneEachAside DEF Capturing
<1>3. CASE images' = {Annotated(i) : i \in images}
  <2>1. \A i \in images : /\ Annotated(i).base = i.base /\ Annotated(i).page = i.page
                          /\ Annotated(i).hidden = i.hidden
    BY AnnotatedFacts DEF Shape, TypeOK, CaptureTypeOK, CapturedImages
  <2>2. /\ \A i \in images : i.hidden => /\ <<i.base, i.page>> \in hidden
                                         /\ <<i.base, i.page, TRUE>> \notin toRead
        /\ \A i, j \in images : i.hidden /\ j.hidden /\ i.base = j.base => i = j
        /\ \A h \in hidden : ExecutableAt(h[1]) /\ h[1] \notin toScan
        /\ \A h, k \in hidden : h[1] = k[1] => h = k
        /\ \A b \in toScan : ExecutableAt(b)
    BY <1>1 DEF OneEach, Capturing
  <2>3. \A i \in images' : \E j \in images : i = Annotated(j)
    BY <1>3
  <2>4. \A i \in images' : i.hidden => /\ <<i.base, i.page>> \in hidden
                                       /\ <<i.base, i.page, TRUE>> \notin toRead
    <3> SUFFICES ASSUME NEW i \in images', i.hidden
                 PROVE  <<i.base, i.page>> \in hidden /\ <<i.base, i.page, TRUE>> \notin toRead
      OBVIOUS
    <3>1. PICK j \in images : i = Annotated(j)
      BY <2>3
    <3>2. i.base = j.base /\ i.page = j.page /\ j.hidden
      BY <2>1, <3>1
    <3>3. <<j.base, j.page>> \in hidden /\ <<j.base, j.page, TRUE>> \notin toRead
      BY <2>2, <3>2
    <3>4. QED
      BY <3>2, <3>3
  <2>5. \A i, j \in images' : i.hidden /\ j.hidden /\ i.base = j.base => i = j
    BY <2>1, <2>2, <2>3
  <2>6. QED
    BY <1>1, <2>2, <2>4, <2>5 DEF OneEach, ExecutableAt
<1>4. QED
  BY <1>2, <1>3 DEF Annotate

LEMMA OneEachStep == Shape /\ OneEach /\ [Next]_vars => OneEach'
<1> SUFFICES ASSUME Shape, OneEach, [Next]_vars PROVE OneEach'
  OBVIOUS
<1>1. CASE Query \/ Acquire \/ CaptureFails \/ ListRegions
  <2>1. ~ Capturing'
    BY <1>1 DEF Query, Acquire, CaptureFails, ListRegions, Capturing
  <2>2. QED
    BY <2>1 DEF OneEach
<1>2. CASE ResolveMain
  <2>1. hidden' = {} /\ images' = {} /\ toScan' = {b \in Bases : ExecutableAt(b)}
        /\ UNCHANGED regions
    BY <1>2 DEF ResolveMain, Shape, Reading, Early
  <2>2. QED
    BY <2>1 DEF OneEach, ExecutableAt
<1>3. CASE StartReading
  <2>1. images = {} /\ pc = "scan" /\ UNCHANGED <<regions, toScan, hidden, images>>
    BY <1>3 DEF StartReading, Shape, Reading, view, scan
  <2>2. QED
    BY <2>1 DEF OneEach, ExecutableAt, Capturing
<1>4. CASE DoneReading \/ ChooseBuffers \/ CarveAllocation \/ DumpAllocation
  BY <1>4, OneEachAside
     DEF DoneReading, ChooseBuffers, CarveAllocation, DumpAllocation, view, scan, reading, Capturing
<1>5. CASE Change \/ UNCHANGED vars
  BY <1>5, OneEachAside DEF Change, vars, captureVars, view, scan, reading, Capturing
<1>6. CASE Prepare \/ DoneBuilding \/ Write \/ Abort
  <2>1. ~ Capturing'
    BY <1>6 DEF Prepare, DoneBuilding, Write, Abort, Capturing
  <2>2. QED
    BY <2>1 DEF OneEach
<1>7. ASSUME NEW i \in toBuild, NEW result \in {"dll", "exe", "error"}, BuildImage(i, result)
      PROVE  OneEach'
  <2>1. ~ Capturing'
    BY <1>7 DEF BuildImage, captureVars, Capturing
  <2>2. QED
    BY <2>1 DEF OneEach
<1>8. QED
  BY <1>1, <1>2, <1>3, <1>4, <1>5, <1>6, <1>7, OneEachScan, OneEachRead, OneEachAnnotate
     DEF Next, CaptureStep

\* An executable allocation that gave up no PE is one that the report warns of.
LEMMA WarnedOf ==
  ASSUME Shape, OneEach, pc = "captured", NEW b \in Bases, ExecutableAt(b),
         ~ \E i \in images : i.base = b /\ i.hidden
  PROVE  Unmatched # 0
<1> DEFINE executable == {c \in Bases : ExecutableAt(c)}
           hiddenImages == {i \in images : i.hidden}
           rest == executable \ {b}
           f == [i \in hiddenImages |-> i.base]
<1>1. /\ \A i \in images : i.hidden => <<i.base, i.page>> \in hidden
      /\ \A h \in hidden : ExecutableAt(h[1])
      /\ \A i, j \in images : i.hidden /\ j.hidden /\ i.base = j.base => i = j
      /\ \A i \in images : i.base \in Bases
  BY DEF OneEach, Capturing, Shape, TypeOK, CaptureTypeOK, CapturedImages
<1>2. f \in Injection(hiddenImages, rest)
  <2>1. \A i \in hiddenImages : i.base \in rest
    BY <1>1
  <2>2. \A i, j \in hiddenImages : i.base = j.base => i = j
    BY <1>1
  <2>3. QED
    BY <2>1, <2>2 DEF Injection, IsInjective
<1>3. executable \in SUBSET Bases /\ b \in executable
  OBVIOUS
<1>4. /\ IsFiniteSet(executable) /\ IsFiniteSet(rest)
      /\ Cardinality(executable) \in Nat /\ Cardinality(rest) \in Nat
      /\ Cardinality(rest) = Cardinality(executable) - 1
  BY <1>3, FewBases, FS_RemoveElement
<1> HIDE DEF executable, rest, hiddenImages, f
<1>5. IsFiniteSet(hiddenImages) /\ Cardinality(hiddenImages) <= Cardinality(rest)
  BY <1>2, <1>4, FS_Injection
<1>6. Cardinality(hiddenImages) \in Nat
  BY <1>5, FS_CardinalityType
<1>7. Cardinality(executable) > Cardinality(hiddenImages)
      /\ Cardinality(executable) - Cardinality(hiddenImages) # 0
  BY <1>4, <1>5, <1>6
<1>8. QED
  BY <1>7 DEF Unmatched, executable, hiddenImages

\* When nothing is counted as skipped or unscanned, executable private memory has
\* given up its PE or is carved as far as it can be read, a clone has given up every
\* PE that is small enough and can be read, and if nothing is warned of either all
\* executable allocations gave up one, for any memory and any limits.
THEOREM NothingIsDropped == Spec => []NothingDroppedQuietly
<1>1. Shape /\ Counts /\ OneEach => NothingDroppedQuietly
  <2> SUFFICES ASSUME Shape, Counts, OneEach, pc = "captured", skipped = 0, unscanned = 0,
                      NEW b \in Bases, ExecutableAt(b)
               PROVE  LET found == {i \in images : i.base = b /\ i.hidden}
                          now == regions[b]
                      IN  /\ found # {} \/ now.readable = 0 \/ <<b, now.readable>> \in carved
                          /\ cloned /\ now.pe # None /\ now.readable = now.size
                               /\ now.size - now.pe.page <= MaxImageSize
                               => \E i \in found : i.page = now.pe.page
                          /\ Unmatched = 0 => found # {}
    BY DEF NothingDroppedQuietly
  <2>1. toRead = {} /\ toScan = {} /\ toCarve = {}
    BY DEF Shape, Reading, Counts, ScanCounted, CarveCounted, Capturing
  <2>2. \A h \in hidden : \E i \in images : i.base = h[1] /\ i.page = h[2] /\ i.hidden
    BY <2>1 DEF Counts, HiddenCounted, Capturing
  <2>3. \/ \E h \in hidden : h[1] = b
        \/ regions[b].readable = 0 \/ <<b, regions[b].readable>> \in carved
    BY <2>1 DEF Counts, CarveCounted, Claimed
  <2>4. Searched(b)
    BY <2>1 DEF Counts, ScanCounted, Capturing
  <2>5. ASSUME cloned, regions[b].pe # None, regions[b].readable = regions[b].size,
               regions[b].size - regions[b].pe.page <= MaxImageSize
        PROVE  \E i \in images : i.base = b /\ i.hidden /\ i.page = regions[b].pe.page
    BY <2>2, <2>4, <2>5 DEF Searched
  <2>6. Unmatched = 0 => \E i \in images : i.base = b /\ i.hidden
    BY WarnedOf
  <2>7. QED
    BY <2>2, <2>3, <2>5, <2>6
<1>2. Spec => []Shape
  BY InitShape, ShapeStep, PTL DEF Spec
<1>3. Spec => []Counts
  BY <1>2, InitCounts, CountsStep, PTL DEF Spec
<1>4. Spec => []OneEach
  BY <1>2, InitOneEach, OneEachStep, PTL DEF Spec
<1>5. QED
  BY <1>1, <1>2, <1>3, <1>4, PTL
=============================================================================
