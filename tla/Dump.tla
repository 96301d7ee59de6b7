-------------------------------- MODULE Dump --------------------------------
(***************************************************************************)
(* dump.rs, build, and main.rs, finish_dump, behind the capture of module  *)
(* Capture: the captured images are named and rebuilt one after the other, *)
(* the main image first, what cannot be rebuilt is recorded, and the exit  *)
(* code says whether the dump is complete.  How an image is rebuilt is     *)
(* left open: the result is a DLL, another PE or an error.  How files are  *)
(* written is module OutputWriter.                                         *)
(***************************************************************************)
EXTENDS Capture

CONSTANTS
  Requests,   \* the images --only may name: all, a file name, or an address
  EntryPoint  \* the choices of -e: given, not given

All == [kind |-> "all"]
Named(f) == [kind |-> "name", file |-> f]
Address(b, page) == [kind |-> "base", base |-> b, page |-> page]

ASSUME RequestsAssumption ==
  /\ EntryPoint \subseteq BOOLEAN
  /\ \A r \in Requests :
       \/ r = All
       \/ r.kind = "name" /\ r = Named(r.file) /\ r.file \in Files
       \/ r.kind = "base" /\ r = Address(r.base, r.page) /\ r.base \in Bases /\ r.page \in Nat

VARIABLES
  only,         \* the request of --only
  entryPoint,   \* -e was given
  toBuild,      \* captured images not yet rebuilt
  files,        \* images rebuilt and put in the report
  failures,     \* images that failed and are named in the report
  noMain,       \* the failure "manual entry point requires a captured main image"
  dllFailures,  \* dll_failures
  selected,     \* selected_images
  exit          \* the exit code

request == <<only, entryPoint>>
report == <<files, failures, noMain, dllFailures, selected>>
vars == <<captureVars, request, toBuild, report, exit>>

Init ==
  /\ CaptureInit
  /\ only \in Requests
  /\ entryPoint \in EntryPoint
  /\ toBuild = {}
  /\ files = {} /\ failures = {} /\ noMain = FALSE /\ dllFailures = 0 /\ selected = 0
  /\ exit = None

\* The name of a file without its folder.
BaseName(f) == IF f \in Namesakes THEN Program ELSE f

Selects(i) ==
  CASE only.kind = "all" -> TRUE
    [] only.kind = "name" -> i.name # None /\ BaseName(i.name) = BaseName(only.file)
    [] only.kind = "base" -> i.base = only.base /\ i.page = only.page

MainRebuilt == \E f \in files : f.main

-----------------------------------------------------------------------------
\* Mutant: modules that were not captured are no failures.
NoModuleMissing == {}

\* empty_report: listed DLLs with no captured image.
MissingModules ==
  {b \in Bases : /\ modules[b] # None /\ b # listedMain
                 /\ ~ \E i \in images : i.base = b /\ i.page = 0}

\* prepare_images and empty_report: an image without a name may have one in its
\* export directory.  A manual entry point without a main image ends the build.
Prepare ==
  /\ pc = "captured"
  /\ \E own \in [Bases -> Files \cup {None}] :
       toBuild' = {IF i.name = None THEN [i EXCEPT !.name = own[i.base]] ELSE i : i \in images}
  /\ dllFailures' = Cardinality(MissingModules)
  /\ noMain' = (entryPoint /\ ~ \E i \in images : i.main)
  /\ pc' = IF noMain' THEN "write" ELSE "build"
  /\ UNCHANGED <<memory, listing, view, scan, reading, buffers, counts, request, files,
                 failures, selected, exit>>

\* images are sorted by (!is_main, base).
Precedes(i, j) ==
  \/ i.main /\ ~ j.main
  \/ i.main = j.main /\ (i.base < j.base \/ (i.base = j.base /\ i.page < j.page))

\* should_write.
Wanted(i, result) == i.main \/ i.hidden \/ result = "dll" \/ i.name # None

\* record_failure: what a failure adds to dll_failures.
CountsAsDll(i) == IF i.name # None /\ ~ i.main /\ ~ i.hidden THEN 1 ELSE 0

BuildImage(i, result) ==
  /\ pc = "build"
  /\ i \in toBuild /\ \A j \in toBuild : ~ Precedes(j, i)
  /\ IF ~ Selects(i)
       THEN UNCHANGED <<files, failures, dllFailures, selected>>
       ELSE /\ selected' = selected + 1
            /\ files' = IF result # "error" /\ Wanted(i, result) THEN files \cup {i} ELSE files
            /\ IF result = "error" /\ (i.main \/ i.hidden \/ i.name # None)
                 THEN /\ failures' = failures \cup {i}
                      /\ dllFailures' = dllFailures + CountsAsDll(i)
                 ELSE UNCHANGED <<failures, dllFailures>>
  /\ toBuild' = IF Selects(i) /\ i.main /\ entryPoint /\ ~ MainRebuilt' THEN {} ELSE toBuild \ {i}
  /\ UNCHANGED <<captureVars, request, noMain, exit>>

DoneBuilding ==
  /\ pc = "build"
  /\ toBuild = {}
  /\ pc' = "write"
  /\ UNCHANGED <<memory, listing, view, scan, reading, buffers, counts, request, toBuild,
                 report, exit>>

\* Mutant: the failures of a selection are not looked at.
SelectionFound ==
  IF only.kind = "all" \/ noMain
    THEN MainRebuilt /\ dllFailures = 0
    ELSE selected > 0

\* is_complete; the selection is not recorded when the build ended early.
IsComplete ==
  IF only.kind = "all" \/ noMain
    THEN MainRebuilt /\ dllFailures = 0 /\ \E i \in images : i.main
    ELSE selected > 0 /\ failures = {}

\* finish_dump: writing fails, or the report is printed.
Write ==
  /\ pc = "write"
  /\ exit' \in {2, IF IsComplete THEN 0 ELSE 3}
  /\ pc' = "exit"
  /\ UNCHANGED <<memory, listing, view, scan, reading, buffers, counts, request, toBuild,
                 report>>

\* main.rs: the target could not be queried or captured.
Abort ==
  /\ pc = "error"
  /\ exit' = 2
  /\ pc' = "exit"
  /\ UNCHANGED <<memory, listing, view, scan, reading, buffers, counts, request, toBuild,
                 report>>

Next ==
  \/ (CaptureStep \/ Change) /\ UNCHANGED <<request, toBuild, report, exit>>
  \/ Prepare \/ DoneBuilding \/ Write \/ Abort
  \/ \E i \in toBuild, result \in {"dll", "exe", "error"} : BuildImage(i, result)

Spec == Init /\ [][Next]_vars

-----------------------------------------------------------------------------
\* Every variable keeps its type; the page and image counts stay in their budgets.
TypeOK ==
  /\ CaptureTypeOK
  /\ pc \in CapturePlaces \cup {"build", "write", "exit"}
  /\ only \in Requests /\ entryPoint \in BOOLEAN
  /\ toBuild \subseteq CapturedImages
  /\ files \subseteq CapturedImages /\ failures \subseteq CapturedImages
  /\ noMain \in BOOLEAN /\ dllFailures \in Nat /\ selected \in Nat
  /\ exit \in {None, 0, 2, 3}

\* README, exit code 0, "The main image and all known DLLs were rebuilt": after a
\* full dump each module that was listed is in the report, whatever the target
\* unmapped or replaced in the meantime.
CompleteMeansAll ==
  exit = 0 /\ only = All =>
    /\ MainRebuilt
    /\ \A b \in Bases : modules[b] # None => \E f \in files : f.base = b /\ f.page = 0

\* README, "--only": a selection that is reported complete rebuilt every captured
\* image of the name, or at the address, that was asked for, and for a name there
\* was one.  Images without a name are left out: nothing
\* records that one of them failed or was not written.
SelectionMeansRebuilt ==
  exit = 0 /\ only # All =>
    /\ only.kind = "name" => files # {}
    /\ \A i \in images : i.name # None /\ Selects(i) =>
         \E f \in files : <<f.base, f.page, f.hidden>> = <<i.base, i.page, i.hidden>>

\* Every mapped image of the region list is captured or counted as skipped.
ImagesAccounted ==
  pc = "captured" =>
    Cardinality({b \in ImagesAt(regions) : ~ \E i \in images : i.base = b /\ ~ i.hidden})
      <= skipped

\* What main.rs warns of as "executable non-image allocations holding no complete
\* PE": those that gave up none.
Unmatched ==
  LET executable == Cardinality({b \in Bases : ExecutableAt(b)})
      hiddenImages == Cardinality({i \in images : i.hidden})
  IN  IF executable > hiddenImages THEN executable - hiddenImages ELSE 0

\* If nothing is counted as skipped or unscanned, no executable private memory
\* that can be read is left out: its allocation gave up a PE or is carved as far
\* as it can be read, and in a clone every PE of a size that is captured was found
\* where all pages can be read.  Memory that can be executed only is neither
\* scanned nor counted, but an allocation that gave up no PE is warned of.
NothingDroppedQuietly ==
  pc = "captured" /\ skipped = 0 /\ unscanned = 0 =>
    \A b \in {c \in Bases : ExecutableAt(c)} :
      LET found == {i \in images : i.base = b /\ i.hidden}
          now == regions[b]
      IN  /\ found # {} \/ now.readable = 0 \/ <<b, now.readable>> \in carved
          /\ cloned /\ now.pe # None /\ now.readable = now.size
               /\ now.size - now.pe.page <= MaxImageSize
               => \E i \in found : i.page = now.pe.page
          /\ Unmatched = 0 => found # {}

\* memory.rs:480, "loader buffers get the budget first": memory that is only data is
\* not carved while an executable allocation is cut short or left out.
LoadersFirst ==
  \A c \in carved : ~ ExecutableAt(c[1]) =>
    \A b \in Bases \ Claimed : ExecutableAt(b) /\ regions[b].readable > 0 =>
      <<b, regions[b].readable>> \in carved

\* The main image is captured even if it lies above more images than are taken
\* and the others have used the budget up.
MainIsKept ==
  pc = "captured" /\ mainBase # None /\ regions[mainBase].kind # "free"
    /\ regions[mainBase].size <= MaxImageSize
      => \E i \in images : i.main
=============================================================================
