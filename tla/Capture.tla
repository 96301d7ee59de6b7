------------------------------ MODULE Capture ------------------------------
(***************************************************************************)
(* process.rs, query, and memory.rs, capture: what mempe takes from the    *)
(* target.  The module list is read first; the memory is cloned later (a   *)
(* PSS snapshot) or, where that fails, read while the target runs; the     *)
(* names of the mapped files are asked of the running target last.  The    *)
(* target maps, unmaps and replaces memory between any two of these steps. *)
(* Memory is a set of allocations; an allocation is a number of pages, and *)
(* of its contents only the page where a PE header starts is kept.         *)
(***************************************************************************)
EXTENDS Naturals, FiniteSets

CONSTANTS
  Bases,         \* allocation bases
  Files,         \* files that can be mapped as images
  Program,       \* the file the target process was started from
  Namesakes,     \* files of that name elsewhere
  None,          \* no file, no base
  Allocations,   \* what an allocation base may hold
  MaxImages,     \* 4 096 in the code
  MaxImageSize,  \* 1 GiB in the code, here in pages
  ImageBudget,   \* 4 GiB in the code
  ScanBudget,    \* 262 144 pages in the code
  CarveBudget,   \* 256 MiB in the code
  RawBudget,     \* 512 MiB in the code
  MaxChanges     \* bound: changes the target makes to its memory

Free == [kind |-> "free"]
Image(file, size) == [kind |-> "image", file |-> file, size |-> size]

\* pe: the page where a PE starts and whether a region (a run of pages with one
\* protection) starts there too, or None.  readable: how many of the pages, taken
\* to be the first ones, is_readable lets through; PAGE_EXECUTE is not readable.
Private(exec, pe, size, readable) ==
  [kind |-> "private", exec |-> exec, pe |-> pe, size |-> size, readable |-> readable]

ASSUME CaptureAssumption ==
  /\ IsFiniteSet(Bases) /\ Bases \subseteq Nat
  /\ Program \in Files /\ Namesakes \subseteq Files \ {Program}
  /\ None \notin Files \cup Nat
  /\ \A n \in {MaxImages, MaxImageSize, ImageBudget, ScanBudget, CarveBudget, RawBudget} :
       n \in Nat
  /\ MaxChanges \in Nat
  /\ \A a \in Allocations \ {Free} :
       /\ a.size \in Nat \ {0}
       /\ \/ a.kind = "image" /\ a.file \in Files /\ a = Image(a.file, a.size)
          \/ /\ a.kind = "private" /\ a = Private(a.exec, a.pe, a.size, a.readable)
             /\ a.exec \in BOOLEAN /\ a.readable \in 0..a.size
             /\ \/ a.pe = None
                \/ /\ a.pe.page \in 0..(a.size - 1) /\ a.pe.edge \in BOOLEAN
                   /\ a.pe.page = 0 => a.pe.edge

VARIABLES
  live,       \* live[b]: what the target has at allocation base b
  changes,    \* how often the target has changed it
  pc,         \* where the run is
  modules,    \* modules[b]: the file of the module listed at b
  listedMain, \* the base of the listed main module
  clone,      \* the PSS clone of the target's memory
  cloned,     \* the clone is in use
  regions,    \* the region list: one view of the whole address space
  mainBase,   \* the base resolve_main_base settled on
  toScan,     \* executable non-image allocations not yet scanned for a PE
  scanned,    \* pages scanned so far
  hidden,     \* the PEs found: <<allocation, page>>
  toRead,     \* images not yet read: <<allocation, page, hidden>>
  total,      \* pages claimed by images so far
  images,     \* the images captured
  skipped,    \* images_skipped
  toCarve,    \* allocations still to be read for carving
  toDump,     \* allocations still to be read for --raw-regions
  remaining,  \* pages the budget of the current reading has left
  carved,     \* pages read of each carved allocation: <<allocation, pages>>
  raw,        \* the same for --raw-regions
  unscanned   \* unscanned_non_image_bytes, in pages

memory == <<live, changes>>
listing == <<modules, listedMain>>
view == <<clone, cloned, regions, mainBase>>
scan == <<toScan, scanned, hidden>>
reading == <<toRead, total, images>>
buffers == <<toCarve, toDump, remaining, carved, raw>>
counts == <<skipped, unscanned>>
captureVars == <<memory, pc, listing, view, scan, reading, buffers, counts>>

CapturePlaces == {"query", "measure", "list", "resolve", "scan", "read", "unclaimed",
                  "carve", "raw", "annotate", "captured", "error"}

\* The least element of a set of bases, as the sorted maps of the code yield it.
First(S) == CHOOSE b \in S : \A c \in S : b <= c

\* A set of bases, if it has one element, or none.
Only(S) == IF Cardinality(S) = 1 THEN S ELSE {}

\* What a call that reads the target's memory sees.
Seen(b) == IF cloned THEN clone[b] ELSE live[b]

CaptureInit ==
  /\ live \in [Bases -> Allocations]
  /\ \E b \in Bases : live[b].kind = "image" /\ live[b].file = Program
  /\ changes = 0
  /\ pc = "query"
  /\ modules = [b \in Bases |-> None]
  /\ listedMain = None
  /\ clone = live
  /\ cloned = FALSE
  /\ regions = live
  /\ mainBase = None
  /\ toScan = {} /\ scanned = 0 /\ hidden = {}
  /\ toRead = {} /\ total = 0 /\ images = {}
  /\ skipped = 0
  /\ toCarve = {} /\ toDump = {} /\ remaining = 0 /\ carved = {} /\ raw = {}
  /\ unscanned = 0

-----------------------------------------------------------------------------
\* The target maps, unmaps or replaces an allocation.
Change ==
  /\ changes < MaxChanges
  /\ pc \notin {"captured", "error"}
  /\ changes' = changes + 1
  /\ \E b \in Bases, a \in Allocations : live' = [live EXCEPT ![b] = a]
  /\ UNCHANGED <<pc, listing, view, scan, reading, buffers, counts>>

ImagesAt(space) == {b \in DOMAIN space : space[b].kind = "image"}

\* query: the loader's list names some of the mapped images, or the listing is
\* refused and taken as empty; a list without the main module is an error.
Query ==
  /\ pc = "query"
  /\ \E listed \in SUBSET ImagesAt(live) :
       LET exact == {b \in listed : live[b].file = Program}
           mains == IF exact # {} THEN exact ELSE Only({b \in listed : live[b].file \in Namesakes})
       IN  \/ /\ listed = {}
              /\ pc' = "measure"
              /\ UNCHANGED listing
           \/ /\ listedMain' \in mains
              /\ modules' = [b \in Bases |-> IF b \in listed THEN live[b].file ELSE None]
              /\ pc' = "measure"
           \/ /\ listed # {} /\ mains = {}
              /\ pc' = "error"
              /\ UNCHANGED listing
  /\ UNCHANGED <<memory, view, scan, reading, buffers, counts>>

\* AddressSpace::acquire: a clone, the live process instead, or neither.
Acquire ==
  /\ pc = "measure"
  /\ \/ cloned' = TRUE /\ clone' = live /\ pc' = "list"
     \/ pc' = "list" /\ UNCHANGED <<clone, cloned>>
     \/ pc' = "error" /\ UNCHANGED <<clone, cloned>>
  /\ UNCHANGED <<memory, listing, regions, mainBase, scan, reading, buffers, counts>>

\* The region list, or an image, does not fit into memory.
CaptureFails ==
  /\ pc = "list" \/ (pc = "read" /\ toRead # {})
  /\ pc' = "error"
  /\ UNCHANGED <<memory, listing, view, scan, reading, buffers, counts>>

ListRegions ==
  /\ pc = "list"
  /\ regions' = [b \in Bases |-> Seen(b)]
  /\ pc' = "resolve"
  /\ UNCHANGED <<memory, listing, clone, cloned, mainBase, scan, reading, buffers, counts>>

\* image_bases, resolve_main_base and group_images.
ImageBases == ImagesAt(regions) \cup {b \in Bases : modules[b] # None}

MappedFrom(b) == IF Seen(b).kind = "image" THEN Seen(b).file ELSE None

MainAmong(bases) ==
  LET byPath == {b \in bases : MappedFrom(b) = Program}
      byName == {b \in bases : MappedFrom(b) \in Namesakes}
      found == Only(IF byPath # {} THEN byPath ELSE byName)
  IN  IF listedMain # None THEN listedMain
      ELSE IF found # {} THEN First(found) ELSE None

\* Mutant: the main image is not exempt from the limit.
LowestOf(bases, main) == {b \in bases : Cardinality({c \in bases : c < b}) < MaxImages}

Kept(bases, main) ==
  {b \in bases : Cardinality({c \in bases : c < b}) < MaxImages} \cup ({main} \cap bases)

ExecutableAt(b) == regions[b].kind = "private" /\ regions[b].exec

\* Mutant: images past the limit are not counted.
NoneOverLimit(kept) == 0

OverLimit(kept) == Cardinality(ImageBases) - Cardinality(kept)

ResolveMain ==
  LET main == MainAmong(ImageBases)
      kept == Kept(ImageBases, main)
  IN
  /\ pc = "resolve"
  /\ mainBase' = main
  /\ toRead' = {<<b, 0, FALSE>> : b \in {c \in kept : regions[c].kind # "free"}}
  /\ skipped' = OverLimit(kept)
  /\ toScan' = {b \in Bases : ExecutableAt(b)}
  /\ pc' = "scan"
  /\ UNCHANGED <<memory, listing, clone, cloned, regions, scanned, hidden, total, images,
                 buffers, unscanned>>

-----------------------------------------------------------------------------
\* Mutants: pages past the budget are not counted; the page budget is looked at
\* once per allocation.
NothingCounted(pages) == 0
WholeAllocation(size) == IF scanned >= ScanBudget THEN 0 ELSE size

\* What find_hidden_images adds to "unscanned" for pages it does not look at.
Counted(pages) == pages

\* How many of the next pages the limits of the scan reach.
Scannable(size) ==
  IF Cardinality(hidden) >= MaxImages THEN 0
  ELSE IF size <= ScanBudget - scanned THEN size ELSE ScanBudget - scanned

\* hidden_image_at: the PEs that start in an allocation and end in it, by page.
HeadersIn(b) ==
  LET now == Seen(b)
      starts == CASE now.kind = "image" -> {0}
                  [] now.kind = "private" /\ now.pe # None -> {now.pe.page}
                  [] OTHER -> {}
  IN  {p \in starts : now.size <= regions[b].size /\ regions[b].size - p <= MaxImageSize}

\* The header is read up to 64 KiB at once, which fails if a page in it cannot be read.
Readings(b) ==
  IF Seen(b).kind = "private" /\ Seen(b).readable < Seen(b).size
    THEN {{}, HeadersIn(b)}
    ELSE {HeadersIn(b)}

\* find_hidden_images, one allocation: the first readable page with a PE header,
\* as far as the page budget reaches.  Other pages are passed over uncounted.
ScanAllocation ==
  LET b == First(toScan)
      size == regions[b].readable
      pages == Scannable(size)
  IN
  /\ pc = "scan"
  /\ toScan # {}
  /\ \E headers \in Readings(b) :
       LET found == {p \in headers : p < pages}
       IN  IF found # {}
             THEN /\ hidden' = hidden \cup ({b} \X found)
                  /\ scanned' = scanned + First(found) + 1
                  /\ UNCHANGED unscanned
             ELSE /\ scanned' = scanned + pages
                  /\ unscanned' = unscanned + Counted(size - pages)
                  /\ UNCHANGED hidden
  /\ toScan' = toScan \ {b}
  /\ UNCHANGED <<memory, pc, listing, view, reading, buffers, skipped>>

StartReading ==
  /\ pc = "scan"
  /\ toScan = {}
  /\ toRead' = toRead \cup {<<h[1], h[2], TRUE>> : h \in hidden}
  /\ pc' = "read"
  /\ UNCHANGED <<memory, listing, view, scan, total, images, buffers, counts>>

\* read_all_images: images before hidden ones, each in the order of its base.
NextToRead ==
  LET plain == {i \in toRead : ~ i[3]}
      pool == IF plain # {} THEN plain ELSE toRead
  IN  CHOOSE i \in pool : \A j \in pool : i[1] <= j[1]

\* claim_image_budget.
Fits(size, main) == main \/ total + size <= ImageBudget

ReadImage ==
  LET i == NextToRead
      base == i[1]
      size == regions[base].size - i[2]
      isMain == base = mainBase /\ i[2] = 0
  IN
  /\ pc = "read"
  /\ toRead # {}
  /\ IF size <= MaxImageSize /\ Fits(size, isMain /\ ~ i[3])
       THEN /\ images' = images \cup
                 {[base |-> base, page |-> i[2], hidden |-> i[3], main |-> isMain,
                   name |-> IF i[2] = 0 THEN modules[base] ELSE None,
                   listed |-> i[2] = 0 /\ modules[base] # None]}
            /\ total' = total + size
            /\ UNCHANGED skipped
       ELSE /\ skipped' = skipped + 1
            /\ UNCHANGED <<images, total>>
  /\ toRead' = toRead \ {i}
  /\ UNCHANGED <<memory, pc, listing, view, scan, buffers, unscanned>>

DoneReading ==
  /\ pc = "read"
  /\ toRead = {}
  /\ pc' = IF images = {} THEN "error" ELSE "unclaimed"
  /\ UNCHANGED <<memory, listing, view, scan, reading, buffers, counts>>

-----------------------------------------------------------------------------
\* unclaimed_executable_allocations: an allocation is claimed if a PE was found
\* at the base of one of its regions.
Claimed ==
  {b \in Bases : \E h \in hidden :
     h[1] = b /\ (h[2] = 0 \/ regions[b].pe = [page |-> h[2], edge |-> TRUE])}

\* The buffers to carve, and with --raw-regions those to write as they are.
ChooseBuffers ==
  LET unclaimed == {b \in Bases : ExecutableAt(b)} \ Claimed
      readable == {b \in Bases : /\ regions[b].kind = "private" /\ ~ ExecutableAt(b)
                                 /\ regions[b].readable > 0 /\ MappedFrom(b) = None}
  IN
  /\ pc = "unclaimed"
  /\ toCarve' = {<<0, b>> : b \in unclaimed} \cup {<<1, b>> : b \in readable}
  /\ toDump' \in {unclaimed, {}}
  /\ remaining' = CarveBudget
  /\ pc' = "carve"
  /\ UNCHANGED <<memory, listing, view, scan, reading, carved, raw, counts>>

\* read_allocations, one allocation: how many of its readable pages, the only ones
\* in committed_runs, are read.
Readable(size, taken) ==
  IF Cardinality(taken) >= MaxImages THEN 0
  ELSE IF size <= remaining THEN size ELSE remaining

\* Mutant: the buffers in one sorted set.
LowestToCarve == CHOOSE c \in toCarve : \A d \in toCarve : c[2] <= d[2]

\* Executable allocations before the others, each by base.
NextToCarve ==
  LET executable == {c \in toCarve : c[1] = 0}
      pool == IF executable # {} THEN executable ELSE toCarve
  IN  CHOOSE c \in pool : \A d \in pool : c[2] <= d[2]

CarveAllocation ==
  LET c == NextToCarve
      size == regions[c[2]].readable
      pages == Readable(size, carved)
  IN
  /\ pc = "carve"
  /\ IF toCarve = {}
       THEN /\ pc' = "raw" /\ remaining' = RawBudget
            /\ UNCHANGED <<toCarve, carved, unscanned>>
       ELSE /\ carved' = IF pages = 0 THEN carved ELSE carved \cup {<<c[2], pages>>}
            /\ remaining' = remaining - pages
            /\ unscanned' = unscanned + (size - pages)
            /\ toCarve' = toCarve \ {c}
            /\ UNCHANGED pc
  /\ UNCHANGED <<memory, listing, view, scan, reading, toDump, raw, skipped>>

DumpAllocation ==
  LET b == First(toDump)
      size == regions[b].readable
      pages == Readable(size, raw)
  IN
  /\ pc = "raw"
  /\ IF toDump = {}
       THEN pc' = "annotate" /\ UNCHANGED <<toDump, remaining, raw, unscanned>>
       ELSE /\ raw' = IF pages = 0 THEN raw ELSE raw \cup {<<b, pages>>}
            /\ remaining' = remaining - pages
            /\ unscanned' = unscanned + (size - pages)
            /\ toDump' = toDump \ {b}
            /\ UNCHANGED pc
  /\ UNCHANGED <<memory, listing, view, scan, reading, toCarve, carved, skipped>>

\* annotate_images asks the running target, by now possibly another layout,
\* which file is mapped where each image was; without access nothing is annotated.
Annotated(i) ==
  LET mapped == IF live[i.base].kind = "image" /\ i.page < live[i.base].size
                  THEN live[i.base].file
                  ELSE None
      mismatch == i.name # None /\ mapped # None /\ i.name # mapped
  IN  [i EXCEPT !.name = IF @ = None \/ mismatch THEN mapped ELSE @]

Annotate ==
  /\ pc = "annotate"
  /\ images' \in {images, {Annotated(i) : i \in images}}
  /\ pc' = "captured"
  /\ UNCHANGED <<memory, listing, view, scan, toRead, total, buffers, counts>>

CaptureStep ==
  \/ Query \/ Acquire \/ CaptureFails \/ ListRegions \/ ResolveMain \/ ScanAllocation \/ StartReading
  \/ ReadImage \/ DoneReading \/ ChooseBuffers \/ CarveAllocation \/ DumpAllocation
  \/ Annotate

-----------------------------------------------------------------------------
CapturedImages ==
  [base : Bases, page : Nat, hidden : BOOLEAN, main : BOOLEAN,
   name : Files \cup {None}, listed : BOOLEAN]

CaptureTypeOK ==
  /\ live \in [Bases -> Allocations]
  /\ changes \in 0..MaxChanges
  /\ modules \in [Bases -> Files \cup {None}]
  /\ listedMain \in Bases \cup {None}
  /\ clone \in [Bases -> Allocations] /\ cloned \in BOOLEAN
  /\ regions \in [Bases -> Allocations]
  /\ mainBase \in Bases \cup {None}
  /\ toScan \subseteq Bases /\ scanned \in 0..ScanBudget
  /\ hidden \subseteq Bases \X Nat
  /\ toRead \subseteq Bases \X Nat \X BOOLEAN /\ total \in Nat
  /\ images \subseteq CapturedImages
  /\ skipped \in Nat /\ unscanned \in Nat
  /\ toCarve \subseteq {0, 1} \X Bases /\ toDump \subseteq Bases
  /\ remaining \in Nat
  /\ carved \subseteq Bases \X Nat /\ raw \subseteq Bases \X Nat
=============================================================================
