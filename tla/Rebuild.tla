------------------------------ MODULE Rebuild ------------------------------
(***************************************************************************)
(* rebuild_source of pe/rebuild/mod.rs behind the file layout of module    *)
(* Layout: the header fields and section data are written, directories the *)
(* new file cannot hold are cleared (directories.rs), unwind entries and   *)
(* debug pointers are repaired (exception.rs), the recovered imports go    *)
(* into a new .mempe section (import_section.rs), the result is finalized  *)
(* (headers.rs) and the dump puts an overlay behind it (overlay.rs).       *)
(* Entries of the tables count one byte each, runtime functions two.       *)
(***************************************************************************)
EXTENDS Layout

CONSTANTS
  EntryPoints, \* bound: what -e may say, 0 if it is not given
  Plans,       \* bound: the import plans, see module Imports
  Overlays,    \* bound: what the dump may append, [length, certificate]
  Certificate, \* CERTIFICATE_ALIGNMENT, 8 in the code
  MaxBlocks,   \* MAX_RELOCATION_BLOCKS, 65536 in the code
  MaxEntries,  \* MAX_DEBUG_ENTRIES, 256 in the code
  MaxImageSize \* MAX_IMAGE_SIZE of pe/parse.rs, 1 GiB in the code

ASSUME LimitsAssumption == MaxBlocks \in Nat /\ MaxEntries \in Nat /\ MaxImageSize \in Nat

ASSUME DirectoriesAssumption == \A m \in Images :
  /\ \A name \in DOMAIN m.dirs : m.dirs[name] \in [rva : Nat, size : Nat]
  /\ Len(m.unwind) \in Nat
  /\ \A k \in DOMAIN m.debug : m.debug[k] \in [rva : Nat, pointer : Nat]

ASSUME PlansAssumption == \A p \in Plans :
  /\ p.recovered \in Nat /\ p.unrepresentable \in Nat
  /\ p.payload \in Nat /\ p.descriptors \in 0..p.payload
  /\ \A t \in p.tables : t.start \in Nat /\ t.end \in Nat
  /\ IF p.tables = {} THEN p.recovered = 0 ELSE p.payload > 0

ASSUME OverlaysAssumption == \A o \in Overlays : o.length \in Nat /\ o.certificate \in 0..o.length

VARIABLES
  plan,       \* the ImportPlan
  dirs,       \* the data directories of the output; its domain is directory_count
  size,       \* the length of the output
  imageSize,  \* its SizeOfImage
  dynamic,    \* DYNAMIC_BASE is set
  unwind,     \* the runtime functions of its exception directory
  debug,      \* the raw pointers of its debug directory
  mempe,      \* the .mempe section, or NoSection
  filled,     \* import slots that fill_empty_slots gave a lookup entry
  cleared,    \* the directories the report calls cleared
  unemitted,  \* unemitted imports of the report
  overlay     \* where the overlay begins, 0 if there is none

outputVars == <<dirs, size, imageSize, dynamic, unwind, debug, mempe, filled, cleared, unemitted>>
vars == <<pc, layoutVars, plan, outputVars, overlay>>

\* The report's "overlay (the packed file could not be read or appended)".
Unrestored == -1

NoDirectory == [rva |-> 0, size |-> 0]
NoSection == [va |-> 0, vs |-> 0, offset |-> 0, raw |-> 0]

Init ==
  /\ LayoutInit
  /\ plan = [tables |-> {}, existing |-> FALSE, keepIat |-> FALSE, recovered |-> 0, unrepresentable |-> 0,
             payload |-> 0, descriptors |-> 0, spelled |-> TRUE]
  /\ dirs = <<>> /\ size = 0 /\ imageSize = 0 /\ dynamic = FALSE /\ unwind = <<>> /\ debug = <<>>
  /\ mempe = NoSection /\ filled = {} /\ cleared = {} /\ unemitted = 0 /\ overlay = 0

Plan == \E p \in Plans :
  /\ PlanLayout(p.tables)
  /\ plan' = p
  /\ UNCHANGED <<outputVars, overlay>>

Place ==
  /\ \E i \in Indices : PlaceSection(i)
  /\ UNCHANGED <<plan, outputVars, overlay>>

-----------------------------------------------------------------------------
\* The end of the last section in memory, for rebuilt_image_size.
SectionsEnd == Greatest({sections[i].va + Span(sections[i]) : i \in Indices})

\* build_output_buffer's limit and write_core_header_fields; the header of a 32-bit
\* image has no room for a base above 4 GiB.
WriteHeaders ==
  /\ pc = "layout"
  /\ DOMAIN layouts = Indices
  /\ IF OutputSize > MaxOutput \/ (image.high /\ ~ image.wide)
       THEN pc' = "error" /\ UNCHANGED <<dirs, size, imageSize, dynamic, unwind, debug>>
       ELSE /\ pc' = "directories"
            /\ size' = OutputSize
            /\ imageSize' = AlignUp(SectionsEnd, image.sectionAlignment)
            /\ dirs' = image.dirs /\ dynamic' = image.dynamic
            /\ unwind' = image.unwind /\ debug' = image.debug
  /\ UNCHANGED <<layoutVars, plan, mempe, filled, cleared, unemitted, overlay>>

-----------------------------------------------------------------------------
\* directory_is_mapped.
Mapped(d) ==
  /\ d.size # 0
  /\ \/ d.rva + d.size <= headerSize
     \/ \E i \in Indices : /\ d.rva >= sections[i].va
                           /\ d.rva + d.size <= sections[i].va + layouts[i].length

\* relocations_are_walkable: whole blocks fill the directory, their pages are in
\* the file, and at least one entry is a fixup. The end is only seen before one
\* more block.
Walkable(d) ==
  /\ RvaToFile(d.rva) # -1
  /\ \E n \in 1..Len(image.blocks) :
       LET end[k \in 0..n] == IF k = 0 THEN 0 ELSE end[k - 1] + image.blocks[k].size
       IN  /\ n < MaxBlocks
           /\ end[n] = d.size
           /\ \A k \in 1..n : RvaToFile(image.blocks[k].page) # -1 /\ image.blocks[k].expected
           /\ \E k \in 1..n : image.blocks[k].size > 1

\* Mutant: relocations are not walked.
BadUnwalked(name) ==
  /\ dirs[name] # NoDirectory
  /\ name = "security" \/ ~ Mapped(dirs[name])

\* clear_bad_directories; a certificate is a file offset and never stays.
Bad(name) ==
  /\ dirs[name] # NoDirectory
  /\ \/ name = "security"
     \/ ~ Mapped(dirs[name])
     \/ name = "reloc" /\ ~ Walkable(dirs[name])

ClearBadDirectories ==
  /\ pc = "directories"
  /\ cleared' = {name \in DOMAIN dirs : Bad(name)}
  /\ dirs' = [name \in DOMAIN dirs |-> IF Bad(name) THEN NoDirectory ELSE dirs[name]]
  /\ pc' = "exception"
  /\ UNCHANGED <<layoutVars, plan, size, imageSize, dynamic, unwind, debug, mempe, filled,
                 unemitted, overlay>>

Executable(rva) == \E i \in Indices : /\ "execute" \in sections[i].flags
                                      /\ rva >= sections[i].va
                                      /\ rva < sections[i].va + Span(sections[i])

\* runtime_function_is_valid, with the layout of a managed image.
ValidEntry(e) ==
  /\ e.begin < e.end /\ Executable(e.begin) /\ Executable(e.end - 1)
  /\ RvaToFile(e.unwind) # -1
  /\ e.version \/ ("com" \in DOMAIN dirs /\ dirs["com"].rva # 0)

\* collect_valid_runtime_functions: the valid ones among the first entries.
ValidEntries(count) ==
  LET valid[k \in 0..count] ==
        IF k = 0 THEN <<>>
        ELSE IF ValidEntry(unwind[k]) THEN Append(valid[k - 1], unwind[k]) ELSE valid[k - 1]
  IN  valid[count]

\* repair_exception_directory: valid entries move together, the rest is zeroed.
RepairException ==
  /\ pc = "exception"
  /\ pc' = "debug"
  /\ LET d == dirs["exception"]
         kept == ValidEntries(Smaller(d.size \div 2, Len(unwind)))
     IN  IF \/ ~ image.wide \/ "exception" \notin DOMAIN dirs
            \/ d.rva = 0 \/ d.size = 0 \/ RvaToFile(d.rva) = -1
            \/ 2 * Len(kept) = d.size
           THEN UNCHANGED <<dirs, unwind>>
           ELSE /\ unwind' = kept
                /\ dirs' = [dirs EXCEPT !["exception"] =
                              IF kept = <<>> THEN NoDirectory ELSE [@ EXCEPT !.size = 2 * Len(kept)]]
  /\ UNCHANGED <<layoutVars, plan, size, imageSize, dynamic, debug, mempe, filled, cleared,
                 unemitted, overlay>>

\* The entries of the debug directory that are repaired.
Repaired(k) == k <= Smaller(dirs["debug"].size, MaxEntries)

\* repair_debug_directory: file pointers follow the data to its new place.
RepairDebug ==
  /\ pc = "debug"
  /\ pc' = "base"
  /\ IF "debug" \notin DOMAIN dirs \/ dirs["debug"].rva = 0 \/ RvaToFile(dirs["debug"].rva) = -1
       THEN UNCHANGED debug
       ELSE debug' = [k \in DOMAIN debug |->
              IF ~ Repaired(k) THEN debug[k]
              ELSE [debug[k] EXCEPT !.pointer =
                      IF debug[k].rva = 0 \/ RvaToFile(debug[k].rva) = -1 THEN 0
                      ELSE RvaToFile(debug[k].rva)]]
  /\ UNCHANGED <<layoutVars, plan, dirs, size, imageSize, dynamic, unwind, mempe, filled, cleared,
                 unemitted, overlay>>

\* clear_dynamic_base: an image that cannot be relocated must not ask for it.
ClearDynamicBase ==
  /\ pc = "base"
  /\ pc' = "imports"
  /\ dynamic' = (dynamic /\ "reloc" \in DOMAIN dirs /\ dirs["reloc"].rva # 0 /\ dirs["reloc"].size # 0)
  /\ UNCHANGED <<layoutVars, plan, dirs, size, imageSize, unwind, debug, mempe, filled, cleared,
                 unemitted, overlay>>

-----------------------------------------------------------------------------
\* append_import_section: when there is a directory to point at it and a free
\* header behind the section table.
CanAppend == /\ "import" \in DOMAIN dirs
             /\ TableEnd(sections) + SectionHeader <= headerSize

NewSection ==
  [va |-> AlignUp(imageSize, image.sectionAlignment), vs |-> plan.payload,
   offset |-> AlignUp(size, image.fileAlignment), raw |-> AlignUp(plan.payload, image.fileAlignment)]

\* clear_overlapping_bound_imports: bound imports often lie behind the section table.
BoundInTheWay ==
  /\ "bound" \in DOMAIN dirs /\ dirs["bound"].size # 0
  /\ dirs["bound"].rva < TableEnd(sections) + SectionHeader
  /\ dirs["bound"].rva + dirs["bound"].size > TableEnd(sections)

\* fill_empty_slots: the slots with file data that the program never filled.
EmptySlots ==
  {rva \in UNION {t.start..(t.end - 1) : t \in plan.tables} : RvaToFile(rva) # -1 /\ rva \notin image.nonzero}

Dropped == (IF BoundInTheWay THEN {"bound"} ELSE {})
           \cup (IF "iat" \in DOMAIN dirs /\ dirs["iat"] # NoDirectory /\ ~ plan.existing /\ ~ plan.keepIat
                   THEN {"iat"} ELSE {})

\* resolve_imports: build_import_payload refuses an empty name, and the directory
\* names the descriptors at the start of the section.
WriteImports ==
  /\ pc = "imports"
  /\ IF plan.tables # {} /\ CanAppend
       THEN LET s == NewSection IN
            IF ~ plan.spelled \/ s.offset + s.raw > MaxOutput
              THEN pc' = "error" /\ UNCHANGED <<dirs, size, imageSize, mempe, filled, cleared, unemitted>>
              ELSE /\ pc' = "finalize"
                   /\ mempe' = s
                   /\ size' = s.offset + s.raw
                   /\ imageSize' = AlignUp(s.va + s.vs, image.sectionAlignment)
                   /\ filled' = EmptySlots
                   /\ dirs' = [name \in DOMAIN dirs |->
                                 IF name = "import" THEN [rva |-> s.va, size |-> plan.descriptors]
                                 ELSE IF name \in Dropped THEN NoDirectory ELSE dirs[name]]
                   /\ cleared' = cleared \cup Dropped
                   /\ unemitted' = plan.unrepresentable
       ELSE /\ pc' = "finalize"
            /\ unemitted' = plan.unrepresentable + IF plan.tables = {} THEN 0 ELSE plan.recovered
            /\ IF plan.existing \/ "import" \notin DOMAIN dirs \/ dirs["import"] = NoDirectory
                 THEN UNCHANGED <<dirs, cleared>>
                 ELSE /\ dirs' = [dirs EXCEPT !["import"] = NoDirectory]
                      /\ cleared' = cleared \cup {"import"}
            /\ UNCHANGED <<size, imageSize, mempe, filled>>
  /\ UNCHANGED <<layoutVars, plan, dynamic, unwind, debug, overlay>>

-----------------------------------------------------------------------------
\* finalize_output: a manual entry point must be executable. The file is then parsed
\* by PeFile of another crate, which takes it or does not (external), as a field of
\* write_derived_header_fields may not fit.
Finalize(entry) ==
  /\ pc = "finalize"
  /\ pc' \in IF entry # 0 /\ ~ Executable(entry) THEN {"error"} ELSE {"error", "overlay"}
  /\ UNCHANGED <<layoutVars, plan, outputVars, overlay>>

-----------------------------------------------------------------------------
\* The section headers of the new file.
FinalSections ==
  LET written == [i \in Indices |-> WrittenSection(i)]
  IN  IF mempe = NoSection THEN written ELSE Append(written, mempe)

\* parse_disk_image of the new file, which asks what parse_candidate asks.
ParsesAgain ==
  /\ Len(FinalSections) <= MaxSections
  /\ imageSize \in 1..MaxImageSize
  /\ SectionsFit(FinalSections, imageSize)

\* append_overlay: a certificate is declared where the alignment permits it. One
\* that has no slot in the directories is found out when the overlay is in the file.
AppendOverlay(o) ==
  /\ pc = "overlay"
  /\ LET start == AlignUp(size, image.fileAlignment)
         declares == o.certificate # 0 /\ start % Certificate = 0
         slot == "security" \in DOMAIN dirs
     IN  IF ~ ParsesAgain \/ start + o.length > MaxOutput
           THEN overlay' = Unrestored /\ UNCHANGED <<size, dirs>>
           ELSE /\ size' = start + o.length
                /\ overlay' = IF declares /\ ~ slot THEN Unrestored ELSE start
                /\ dirs' = IF declares /\ slot
                             THEN [dirs EXCEPT !["security"] = [rva |-> start, size |-> o.certificate]]
                             ELSE dirs
  /\ pc' = "done"
  /\ UNCHANGED <<layoutVars, plan, imageSize, dynamic, unwind, debug, mempe, filled, cleared, unemitted>>

\* with_overlay of dump.rs: the image was not packed, its file has no overlay, or it
\* cannot be read.
NoOverlay ==
  /\ pc = "overlay"
  /\ overlay' \in {0, Unrestored}
  /\ pc' = "done"
  /\ UNCHANGED <<layoutVars, plan, outputVars>>

Next ==
  \/ Parse /\ UNCHANGED <<plan, outputVars, overlay>>
  \/ Plan \/ Place \/ WriteHeaders
  \/ ClearBadDirectories \/ RepairException \/ RepairDebug \/ ClearDynamicBase
  \/ WriteImports
  \/ \E entry \in EntryPoints : Finalize(entry)
  \/ NoOverlay \/ \E o \in Overlays : AppendOverlay(o)

Spec == Init /\ [][Next]_vars

-----------------------------------------------------------------------------
\* The data of different sections never shares a byte of the file, begins behind
\* the headers at a multiple of the file alignment, and the .mempe section lies
\* behind all of it (layout_sections, append_import_section).
SectionsApart ==
  /\ \A i \in DOMAIN layouts : layouts[i].size # 0 =>
       /\ layouts[i].offset >= headerSize
       /\ Aligned(layouts[i].offset, image.fileAlignment)
       /\ layouts[i].offset + layouts[i].size <= rawOffset
       /\ \A j \in DOMAIN layouts \ {i} :
            \/ layouts[j].size = 0
            \/ layouts[i].offset + layouts[i].size <= layouts[j].offset
            \/ layouts[j].offset + layouts[j].size <= layouts[i].offset
  /\ mempe # NoSection => rawOffset <= mempe.offset

\* An empty section inside or at the start of another cuts that one off.
CutOff(ss) == \E i, j \in DOMAIN ss :
  i # j /\ MappedSize(ss[i]) = 0 /\ ss[i].va \in ss[j].va..(ss[j].va + Span(ss[j]) - 1)

\* An empty section lies behind the image, or before headers that a scan has found.
Stray(m) == \E i \in DOMAIN m.sections :
  /\ MappedSize(m.sections[i]) = 0
  /\ \/ m.sections[i].va > m.size
     \/ m.salvaged /\ m.sections[i].va < TableEnd(m.sections)

LaidOut == pc \notin {"parse", "unparsed", "plan", "layout", "error"}

\* Where in the file the loader takes the byte at an address of section i from.
LoaderPosition(i, rva) ==
  IF rva - sections[i].va < layouts[i].size THEN layouts[i].offset + rva - sections[i].va ELSE -1

\* Every byte of a section that is not zero comes back from the file at its own
\* address.
ComesBack == \A i \in Indices :
  \A rva \in image.nonzero \cap sections[i].va..(sections[i].va + MappedSize(sections[i]) - 1) :
    CopiedFrom(LoaderPosition(i, rva)) = rva

\* A rebuilt image, loaded, holds what was captured, and rva_to_file sends every
\* repair to the byte the loader maps: provided that no empty section cuts
\* another off and that the headers end before the first section.
LoadsAsCaptured ==
  LaidOut /\ ~ CutOff(image.sections) =>
    /\ ComesBack
    /\ headerSize <= FirstRva(sections) =>
         \A i \in Indices : \A rva \in sections[i].va..(sections[i].va + MappedSize(sections[i]) - 1) :
           RvaToFile(rva) # -1 => RvaToFile(rva) = LoaderPosition(i, rva)

\* src/README.md: mempe "lays each one back out the way a file on disk expects".
NothingIsLost == LaidOut => ComesBack

\* The size in the file is more than the raw size, which for a section without a
\* virtual size is what it maps.
Outgrown(i) == sections[i].vs = 0 /\ layouts[i].size > sections[i].raw

\* Recovering section sizes from memory never turns an image that parses into one
\* that does not (recover_section_headers) unless an empty section that grows lies
\* where a section may not be, renamed sections stay apart, and in the headers of
\* the new file no section that is not outgrown runs into another or out of the
\* image, .mempe among them (write_sections, append_import_section).
StaysAnImage ==
  /\ pc = "unparsed" => \/ ~ Parses(image, image.sections, image.size)
                         \/ CutOff(image.sections) \/ Stray(image)
  /\ \A i, j \in Indices :
       i # j /\ sections[i].name = Unreadable /\ FinalName(i) # Unreadable => FinalName(i) # FinalName(j)
  /\ pc = "overlay" =>
       /\ (\A i \in Indices : ~ Outgrown(i)) => SectionsFit(FinalSections, imageSize)
       /\ mempe # NoSection => TableEnd(sections) + SectionHeader <= headerSize

\* A pointer of the debug directory leads to the byte that was at its address, if the
\* directory itself is in the file.
DebugFollows ==
  "debug" \in DOMAIN dirs /\ dirs["debug"].rva # 0 /\ RvaToFile(dirs["debug"].rva) # -1 =>
    \A k \in DOMAIN debug :
      Repaired(k) /\ debug[k].pointer # 0 /\ debug[k].rva < image.length =>
        CopiedFrom(debug[k].pointer) = debug[k].rva

\* The header tells the truth: what a directory names is there, an image that can
\* be moved has fixups, debug pointers follow their data, an import directory belongs
\* to a table that was kept or written, a lost import is counted, and a certificate
\* lies behind everything.
HeaderIsTrue ==
  pc \in {"overlay", "done"} =>
    /\ \A name \in DOMAIN dirs \ {"import", "security"} : dirs[name] # NoDirectory => Mapped(dirs[name])
    /\ dynamic => Walkable(dirs["reloc"])
    /\ DebugFollows
    /\ unemitted >= plan.unrepresentable + IF mempe = NoSection THEN plan.recovered ELSE 0
    /\ ("import" \in DOMAIN dirs /\ dirs["import"] # NoDirectory) => mempe # NoSection \/ plan.existing
    /\ ("security" \in DOMAIN dirs /\ dirs["security"] # NoDirectory) =>
         dirs["security"].rva >= rawOffset + mempe.raw /\ dirs["security"].rva + dirs["security"].size <= size

\* The loader stops at an empty slot: once imports are written, no slot in the
\* mapped part of a section is left empty (layout_sections, fill_empty_slots).
NoSlotIsEmpty ==
  pc = "done" /\ mempe # NoSection /\ ~ CutOff(image.sections) =>
    \A t \in plan.tables, i \in Indices :
      \A rva \in t.start..(t.end - 1) :
        (rva \in sections[i].va..(sections[i].va + MappedSize(sections[i]) - 1) /\ rva >= headerSize)
          => rva \in filled \cup image.nonzero
=============================================================================
