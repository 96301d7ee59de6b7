-------------------------------- MODULE Unpack --------------------------------
(***************************************************************************)
(* pe/rebuild/mod.rs (rebuild), pe/rebuild/source.rs and                   *)
(* pe/packers/mod.rs: which bytes a captured image is rebuilt from. Its    *)
(* headers come from memory or, if they were wiped, from the file; an      *)
(* image some packer is known for is unpacked and rebuilt; if that fails   *)
(* it is tried again as it is. UPX is module Upx; the five unpackers that  *)
(* are asked after it are a choice of the image.                           *)
(***************************************************************************)
EXTENDS Upx

\* What a packer tells of the imports (PackerImports).
PackerImports == {"Intact", "Listed", "FilledIat", "Unknown"}

ASSUME OthersAssumption == \A m \in Images :
  /\ m.parses \in BOOLEAN /\ m.recovers \in BOOLEAN /\ m.fresh \in BOOLEAN
  /\ m.rebuilds \in [{"unpacked", "packed", "fresh"} -> BOOLEAN]
  /\ m.others \in Seq([knows : BOOLEAN, restores : BOOLEAN, imports : PackerImports])

VARIABLES
  mode,     \* Unpack: "Restore" or "DetectOnly"
  source,   \* the Source of this attempt: [bytes, packer, imports, fresh]
  result    \* the RebuiltImage: [bytes, plan, packer, fresh], or Pending

vars == <<upxVars, mode, source, result>>

kept == <<image, headers, tries, cells, dirs, report, imports>>

NoPacker == [restored |-> {}, failed |-> {}, lost |-> {}, found |-> FALSE]
Findings(r) == [restored |-> r.restored, failed |-> r.failed, lost |-> r.lost, found |-> TRUE]
NoSource == [bytes |-> "none", packer |-> NoPacker, imports |-> "Intact", fresh |-> FALSE]
Pending == [bytes |-> "pending", plan |-> "None", packer |-> NoPacker, fresh |-> FALSE]
Refused == [Pending EXCEPT !.bytes = "error"]
NoDirs == [d \in Directories |-> NoDirectory]

Init ==
  /\ image \in Images
  /\ headers = "Memory" /\ phase = "headers" /\ tries = <<>>
  /\ cells = image.memory /\ dirs = NoDirs /\ report = EmptyReport /\ imports = "Intact"
  /\ mode = "Restore" /\ source = NoSource /\ result = Pending

\* merge_header_evidence and validate_header_evidence: the headers of the file
\* must be of an image as large and of the kind that was captured.
DiskHeadersFit ==
  LET disk == image.disk
  IN  /\ disk.parses /\ disk.imageSize <= image.size
      /\ image.machine \in {"wiped", disk.kind} /\ image.magic \in {"wiped", disk.kind}
      /\ disk.headerSize <= disk.limit /\ disk.headerSize <= disk.length
      /\ disk.headerSize <= image.size

\* resolve_source_bytes, up to the parsed image.
ResolveHeaders ==
  /\ phase = "headers"
  /\ \/ /\ image.parses /\ headers' = "Memory" /\ phase' = "detect"
     \/ /\ ~ image.parses /\ image.disk.available /\ DiskHeadersFit /\ image.disk.repairs
        /\ headers' = "Disk" /\ phase' = "detect"
     \/ /\ ~ image.parses /\ ~ (image.disk.available /\ DiskHeadersFit /\ image.disk.repairs)
        /\ phase' = "refused" /\ UNCHANGED headers
  /\ UNCHANGED <<image, tries, cells, dirs, report, imports, mode, source, result>>

\* Mutant: a packed image keeps the report of the unpacked one.
KeepReport(packer, unpacked) == packer

\* detection_only: what was restored is not in these bytes.
DetectionOnly(packer, unpacked) ==
  IF unpacked THEN [packer EXCEPT !.restored = {}, !.lost = {}, !.failed = {"image"}] ELSE packer

\* recover_section_headers is only called for an image that stays packed, and may
\* fail.
Keep(packer, kind) ==
  /\ source' = [bytes |-> "packed", packer |-> packer, imports |-> kind, fresh |-> FALSE]
  /\ phase' = IF image.recovers THEN "rebuild" ELSE "refused"

Take(packer, kind, fresh) ==
  IF mode = "Restore"
    THEN /\ source' = [bytes |-> "unpacked", packer |-> packer, imports |-> kind, fresh |-> fresh]
         /\ phase' = "rebuild"
    ELSE Keep(DetectionOnly(packer, TRUE), kind)

\* What UPX found, with a fresh copy if the file is there and its data decodes.
TakeUpx ==
  /\ phase \in {"unpacked", "detected"}
  /\ IF phase = "unpacked" THEN Take(Findings(report), imports, image.fresh)
     ELSE Keep(DetectionOnly(Findings(report), FALSE), imports)
  /\ UNCHANGED <<kept, mode, result>>

\* packers::unpack: the first of the others that knows the image, or nobody.
AskOthers ==
  /\ phase = "others"
  /\ LET known == {k \in DOMAIN image.others : image.others[k].knows}
         other == image.others[CHOOSE k \in known : \A j \in known : k <= j]
         found == Findings([restored |-> IF other.restores THEN {"image"} ELSE {},
                            failed |-> IF other.restores THEN {} ELSE {"image"}, lost |-> {}])
     IN  IF known = {} THEN Keep(NoPacker, "Intact")
         ELSE IF other.restores THEN Take(found, other.imports, image.fresh)
         ELSE Keep(DetectionOnly(found, FALSE), "Intact")
  /\ UNCHANGED <<kept, mode, result>>

\* rebuild_source: the imports of an unpacked image are the packer's.
Plan == IF source.packer.restored = {} THEN "None" ELSE source.imports

\* attempt: the fresh copy is rebuilt besides, and dropped if that fails.
Rebuild ==
  /\ phase = "rebuild"
  /\ IF image.rebuilds[source.bytes]
       THEN /\ phase' = "rebuilt"
            /\ result' = [bytes |-> source.bytes, plan |-> Plan, packer |-> source.packer,
                          fresh |-> source.fresh /\ image.rebuilds["fresh"]]
       ELSE phase' = "refused" /\ UNCHANGED result
  /\ UNCHANGED <<kept, mode, source>>

\* rebuild: a second attempt counts only if a packer explains the first one.
Explained == result.packer.found

Finish ==
  \/ /\ phase = "rebuilt" /\ phase' = "done"
     /\ result' = IF mode = "Restore" \/ Explained THEN result ELSE Refused
     /\ UNCHANGED <<kept, mode, source>>
  \/ /\ phase = "refused" /\ mode = "Restore"
     /\ phase' = "headers" /\ mode' = "DetectOnly"
     /\ cells' = image.memory /\ dirs' = NoDirs /\ report' = EmptyReport /\ imports' = "Intact"
     /\ source' = NoSource
     /\ UNCHANGED <<image, headers, tries, result>>
  \/ /\ phase = "refused" /\ mode = "DetectOnly"
     /\ phase' = "done" /\ result' = Refused
     /\ UNCHANGED <<kept, mode, source>>

Next ==
  \/ UpxNext /\ UNCHANGED <<mode, source, result>>
  \/ ResolveHeaders \/ TakeUpx \/ AskOthers \/ Rebuild \/ Finish

Spec == Init /\ [][Next]_vars

-----------------------------------------------------------------------------
IsDone == phase = "done"

\* What UPX wrote down is what the loader gets to move: every place it listed,
\* with its kind, in whole blocks of an even number of entries; a list that is
\* cut off is noticed (walk_relocations, sixteen_bit_relocations,
\* relocation_blocks, relocations_intact, relocated_fields).
StreamsDecode ==
  LET decoded == Decode(image.stream, 3, ImageStart)
      listed == {<<ImageStart + p[1], p[2]>> : p \in image.stream.places}
      blocks == RelocationBlocks(listed)
  IN  phase = "detect" /\ mode = "Restore" =>
        /\ decoded.ok => decoded.entries = listed
        /\ ~ image.stream.cut /\ Cardinality(listed) < MaxRelocations => decoded.ok
        /\ blocks # <<>> =>
             /\ RelocationsIntact(blocks, 1, Len(blocks))
             /\ RelocatedFields(blocks, 1, Len(blocks)) = {e[1] : e \in {x \in listed : x[2] = 3}}
        /\ \A k \in DOMAIN blocks : Kind(blocks[k]) = "block" => blocks[k][3] % 2 = 1

\* Tables of the original image do not overlap. If they do in a damaged one, a
\* relocation table that is whole may share its zero padding with another table,
\* which is_free gives away, and the debug entries are moved whatever they share.
NoSharedPadding ==
  LET CellsOf(part) == Stored.dirs[part].at..(Stored.dirs[part].at + Stored.dirs[part].size - 1)
  IN  RelocationsIntact(image.memory, Stored.dirs.relocations.at, Stored.dirs.relocations.size) =>
        \A p \in {"exports", "resources"} : \A a \in CellsOf("relocations") \cap CellsOf(p) : image.memory[a] # Zero
DebugApart ==
  LET CellsOf(part) == Stored.dirs[part].at..(Stored.dirs[part].at + Stored.dirs[part].size - 1)
  IN  \A p \in {"relocations", "exports", "resources"} : CellsOf("debug") \cap CellsOf(p) = {}

\* What UPX is said to have been restored is whole when the image is done, also
\* if another table was written after it. A relocation table becomes none if UPX
\* listed nothing, and one an exact trailer vouches for is not looked at
\* (restore_relocations, restore_exports, restore_resources).
RestoredIsWhole ==
  phase = "unpacked" /\ NoSharedPadding /\ DebugApart =>
    /\ "relocations" \in report.restored =>
         \/ RelocationsIntact(cells, dirs.relocations.at, dirs.relocations.size)
         \/ Stored.trailer = "Exact" /\ ~ Stored.exactRelocations
         \/ image.stream.places = {} /\ ~ HasDirectory(dirs.relocations)
    /\ "exports" \in report.restored => ExportsIntact(cells, dirs.exports.at)
    /\ "resources" \in report.restored => ResourcesIntact(cells, dirs.resources.at)

\* Each of the three tables the original headers name is reported in just one way,
\* and no other; one that is reported failed or lost is no longer in the
\* directories, where the loader would believe it, but for a relocation table of
\* one empty block, which is left. This holds wherever the tables lie, over each
\* other too (PackerReport::record, clear_directory).
PutBack == {"relocations", "exports", "resources"}
ToldAs(part) == {list \in {"restored", "failed", "lost"} : part \in report[list]}
GoneUnlessRestored(part) ==
  /\ IF HasDirectory(Stored.dirs[part]) THEN \E list \in DOMAIN report : ToldAs(part) = {list}
     ELSE ToldAs(part) = {}
  /\ part \in report.failed \cup report.lost =>
       ~ HasDirectory(dirs[part]) \/ (part = "relocations" /\ dirs[part].size = 1)
LostTablesAreGone == phase = "unpacked" => \A part \in PutBack : GoneUnlessRestored(part)

\* The report is about the bytes that were rebuilt: an image that stays packed
\* claims nothing was restored or lost and has its imports searched for, one
\* that was unpacked takes the packer's, and a fresh copy comes only beside it.
\* There is no image only if neither could be rebuilt (rebuild,
\* resolve_source_bytes, detection_only).
ReportIsOfTheBytes ==
  IsDone =>
    /\ result.bytes = "packed" =>
         /\ result.packer.restored = {} /\ result.packer.lost = {} /\ result.plan = "None"
         /\ ~ result.fresh /\ image.rebuilds["packed"]
    /\ result.bytes = "unpacked" => result.packer.restored # {} /\ result.plan # "None"
    /\ result.bytes = "error" =>
         \/ ~ image.parses /\ ~ (image.disk.available /\ image.disk.repairs /\ DiskHeadersFit)
         \/ ~ image.recovers \/ ~ image.rebuilds["packed"]
    /\ mode = "DetectOnly" /\ result.bytes # "error" => result.packer.failed # {}
=============================================================================
