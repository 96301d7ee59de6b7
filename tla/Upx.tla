--------------------------------- MODULE Upx ---------------------------------
(***************************************************************************)
(* pe/packers/upx.rs: an image that UPX unpacked in memory is turned back  *)
(* into what it was before it was packed. The original headers are found,  *)
(* written over UPX's, and the tables UPX took apart are put back, each    *)
(* into memory that the ones before it have already changed.               *)
(* Addresses are those of Relocations; the first section begins at         *)
(* ImageStart and UPX's own at image.packedAt.                             *)
(* linker_order is left out: it reorders the strings of an export table    *)
(* within the table, and the cells do not tell strings apart.              *)
(***************************************************************************)
EXTENDS Relocations

CONSTANTS
  ImageStart,  \* the address of the first section
  Images       \* bound: the captured images

ASSUME ImageStartAssumption == ImageStart \in Nat \ {0}

\* The data directories that are looked at.
Directories == {"relocations", "exports", "resources", "debug", "bound"}

\* byHeader and afterList are places in stored, 0 if there are no headers there.
ASSUME StoredAssumption == \A m \in Images :
  /\ m.byHeader \in Nat /\ m.afterList \in Nat
  /\ m.stored \in Seq({m.stored[k] : k \in DOMAIN m.stored})
  /\ m.byHeader <= Len(m.stored) /\ m.afterList <= Len(m.stored)
  /\ \A k \in DOMAIN m.stored : DOMAIN m.stored[k].dirs = Directories

VARIABLES
  image,     \* [memory, packedAt, writable, kind, stub, packHeader, byHeader, afterList, names, stored, stream, packed, record, ...]
  headers,   \* origin.headers: "Memory" or "Disk"
  phase,     \* the step of the rebuild
  tries,     \* the stored headers that restore_from is still called with
  cells,     \* the restored image
  dirs,      \* its data directories: [at, size]
  report,    \* the PackerReport: [restored, failed, lost], each a set of parts
  imports    \* PackerImports

upxVars == <<image, headers, phase, tries, cells, dirs, report, imports>>

NoDirectory == [at |-> 0, size |-> 0]
HasDirectory(dir) == dir.at # 0 /\ dir.size # 0
Stored == image.stored[Head(tries)]

EmptyReport == [restored |-> {}, failed |-> {}, lost |-> {}]
Restored(part) == [report EXCEPT !.restored = @ \cup {part}]
Failed(part) == [report EXCEPT !.failed = @ \cup {part}]
Lost(part) == [report EXCEPT !.lost = @ \cup {part}]

\* Mutant: the entry is forgotten in the headers.
StillThere(part) == dirs

\* clear_directory.
Cleared(part) == [dirs EXCEPT ![part] = NoDirectory]

-----------------------------------------------------------------------------
\* Mutant: what is there is not looked at.
AlwaysFree(mem, at, content) == Within(mem, at, Len(content))

\* is_free and place: nothing but zeros, or the same, is written over.
IsFree(mem, at, content) ==
  /\ Within(mem, at, Len(content))
  /\ \A k \in DOMAIN content : mem[at + k - 1] \in {Zero, content[k]}
Put(mem, at, content) ==
  [a \in DOMAIN mem |-> IF a - at + 1 \in DOMAIN content THEN content[a - at + 1] ELSE mem[a]]
Copied(mem, at, size) == [k \in 1..size |-> mem[at + k - 1]]

-----------------------------------------------------------------------------
\* Cells of the other tables: an export table points at its names, a resource
\* table at its data, and a leaf UPX took along has its old address before it.
Export(names) == <<"export", names>>
Text == <<"text">>
Table(leaves) == <<"table", leaves>>
Leaf(at) == <<"leaf", at>>
Original(at) == <<"original", at>>
CodeView == <<"debug", "CodeView">>

\* exports_intact: there is a name to read.
ExportsIntact(mem, at) ==
  /\ at \in DOMAIN mem /\ Kind(mem[at]) = "export"
  /\ mem[at][2] \in DOMAIN mem /\ mem[mem[at][2]] = Text

\* moved_export_directory: what points into the table points into its copy. NoMove
\* if that leaves the table pointing elsewhere.
NoMove == <<>>
MovedExports(mem, dir, to) ==
  LET Shift(cell) ==
        IF Kind(cell) = "export" /\ cell[2] \in dir.at..(dir.at + dir.size - 1)
          THEN Export(cell[2] - dir.at + to) ELSE cell
      block == [k \in 1..dir.size |-> Shift(mem[dir.at + k - 1])]
  IN  IF ~ Within(mem, dir.at, dir.size) THEN NoMove
      ELSE IF Kind(block[1]) # "export" THEN NoMove
      ELSE IF block[1][2] \in to..(to + dir.size - 1) THEN block ELSE NoMove

\* walk_resources: the entries of the tree at an address.
NoTree == [length |-> 0, entries |-> {}]
WalkResources(mem, at) ==
  IF at \notin DOMAIN mem THEN NoTree
  ELSE IF mem[at] = Zero THEN [length |-> 1, entries |-> {}]
  ELSE IF Kind(mem[at]) = "table" /\ Within(mem, at, 1 + mem[at][2])
    THEN [length |-> 1 + mem[at][2], entries |-> (at + 1)..(at + mem[at][2])]
  ELSE NoTree
LeafAt(mem, entry) == IF Kind(mem[entry]) = "leaf" THEN mem[entry][2] ELSE 0

\* resources_intact.
ResourcesIntact(mem, at) ==
  LET tree == WalkResources(mem, at)
  IN  tree.entries # {} /\ \A e \in tree.entries : LeafAt(mem, e) \in DOMAIN mem

\* packed_resources: the leaves of UPX's own tree. One in UPX's section was moved
\* there, and has its original address in front.
PackedTree == WalkResources(image.memory, image.packed.resources.at)
Moved(entry) == LeafAt(image.memory, entry) >= image.packed.resources.at
OldPlace(entry) ==
  LET at == LeafAt(image.memory, entry)
  IN  IF Moved(entry) THEN image.memory[at - 1][2] ELSE at
HasPackedTree ==
  /\ HasDirectory(image.packed.resources) /\ PackedTree # NoTree
  /\ \A e \in PackedTree.entries :
       Moved(e) => /\ LeafAt(image.memory, e) - 1 \in DOMAIN image.memory
                   /\ Kind(image.memory[LeafAt(image.memory, e) - 1]) = "original"
                   /\ OldPlace(e) >= ImageStart /\ OldPlace(e) \in DOMAIN image.memory

-----------------------------------------------------------------------------
FirstSectionFilled == \E a \in ImageStart..(image.packedAt - 1) : image.memory[a] # Zero

\* unpack: whether the stub is through. Only newer stubs take the first section's
\* write flag away at the end, and only headers from memory show it.
Ready ==
  LET expectsMark == image.stub.found /\ image.stub.marks /\ headers = "Memory"
  IN  ~ image.writable \/ (~ expectsMark /\ FirstSectionFilled)

\* stored_headers_at.
IsStored(k) ==
  k # 0 /\ image.stored[k].sections > 0 /\ image.stored[k].firstSection = ImageStart

\* restore: where the original headers may be, in the order in which they are looked at.
Candidates ==
  LET byHeader == IF image.packHeader THEN <<image.byHeader>> ELSE <<>>
      afterList == IF image.stub.found /\ image.stub.loop THEN <<image.afterList>> ELSE <<>>
      scanned == IF image.stub.found THEN [k \in DOMAIN image.stored |-> k] ELSE <<>>
  IN  byHeader \o afterList \o scanned

\* Whether the import list can be read, and where its names are.
HasNames == (image.stub.found /\ image.stub.loop) \/ image.packed.imports
ListReadable(stored) == HasNames /\ stored.list.readable

\* read_extra_fields: what UPX left behind the stored headers. They are believed
\* if the last field points back at them, if an exact trailer does, or if the
\* import list they name is one.
ExtraFieldsAgree(stored) ==
  LET stubList == image.stub.found /\ image.stub.loop
      hasList == stored.list.present
      confirmed == hasList /\ (stubList \/ (ListReadable(stored) /\ stored.list.modules > 0))
  IN  /\ hasList /\ stubList => stored.list.at = image.stub.list
      /\ stored.trailer \in {"Final", "Exact"} \/ confirmed

\* Whether restore_from gives an image: the headers there match the image's own
\* (matches_running_image); written, they must fit in front of the first section,
\* parse, now and again with the tables put back, and agree with what is behind them.
\* What an attempt has done by the time its last parse fails is dropped with it, so
\* the attempt is refused before it does anything here.
CanRestore(k) ==
  /\ IsStored(k) /\ image.stored[k].matches
  /\ image.stored[k].fits /\ image.stored[k].parses /\ ExtraFieldsAgree(image.stored[k])

\* unpack: nothing is known of UPX, it is given up, or the first candidate is tried.
DetectUpx ==
  /\ phase = "detect"
  /\ cells' = image.memory /\ dirs' = dirs
  /\ tries' = IF Ready THEN Candidates ELSE <<>>
  /\ phase' = IF image.stub.found \/ image.packHeader THEN "candidates" ELSE "others"
  /\ UNCHANGED <<image, headers, report, imports>>

SkipHeaders ==
  /\ phase = "candidates" /\ tries # <<>> /\ ~ CanRestore(Head(tries))
  /\ tries' = Tail(tries)
  /\ UNCHANGED <<image, headers, phase, cells, dirs, report, imports>>

GiveUp ==
  /\ phase = "candidates" /\ tries = <<>>
  /\ phase' = IF image.stub.found /\ image.stub.recognised THEN "detected" ELSE "others"
  /\ report' = IF image.stub.found /\ image.stub.recognised THEN Failed("image") ELSE report
  /\ UNCHANGED <<image, headers, tries, cells, dirs, imports>>

RestoreHeaders ==
  /\ phase = "candidates" /\ tries # <<>> /\ CanRestore(Head(tries))
  /\ dirs' = Stored.dirs
  /\ report' = [report EXCEPT !.restored = {"headers"} \cup (IF Stored.entry THEN {"entry point"} ELSE {})]
  /\ phase' = "imports"
  /\ UNCHANGED <<image, headers, tries, cells, imports>>

-----------------------------------------------------------------------------
\* restore_imports; the bound imports of a list are out of date.
RestoreImports ==
  /\ phase = "imports"
  /\ imports' = IF ~ Stored.list.present \/ Stored.trailer = "Exact" THEN "Intact"
                ELSE IF ListReadable(Stored) THEN "Listed" ELSE "Unknown"
  /\ report' = IF ~ Stored.list.present THEN report
               ELSE IF imports' = "Unknown" THEN Failed("imports") ELSE Restored("imports")
  /\ dirs' = IF imports' = "Intact" THEN dirs ELSE Cleared("bound")
  /\ phase' = "relocations"
  /\ UNCHANGED <<image, headers, tries, cells>>

\* restore_relocations. An empty table stays even if it cannot be written.
RestoreRelocations ==
  /\ phase = "relocations"
  /\ LET dir == dirs.relocations
         intact == RelocationsIntact(cells, dir.at, dir.size)
         rebuilds == Stored.trailer # "Exact" \/ Stored.exactRelocations
         decoded == Decode(image.stream, IF image.kind = "PE32" THEN 3 ELSE 10, ImageStart)
         blocks == IF dir.size = 1 THEN <<Block(0, 1)>> ELSE RelocationBlocks(decoded.entries)
         written == /\ dir.size = 1 \/ (decoded.ok /\ Len(blocks) <= dir.size)
                    /\ IsFree(cells, dir.at, blocks)
         Clear == dirs' = Cleared("relocations")
     IN  \/ ~ HasDirectory(dir) /\ UNCHANGED <<cells, dirs, report>>
         \/ HasDirectory(dir) /\ Stored.stripped /\ Clear /\ report' = Lost("relocations") /\ UNCHANGED cells
         \/ /\ HasDirectory(dir) /\ ~ Stored.stripped /\ (intact \/ ~ rebuilds)
            /\ report' = Restored("relocations") /\ UNCHANGED <<cells, dirs>>
         \/ /\ HasDirectory(dir) /\ ~ Stored.stripped /\ ~ intact /\ rebuilds
            /\ IF written
                 THEN /\ cells' = Put(cells, dir.at, blocks)
                      /\ dirs' = [dirs EXCEPT !.relocations.size = Len(blocks)]
                      /\ report' = Restored("relocations")
                 ELSE /\ IF dir.size = 1 THEN UNCHANGED dirs ELSE Clear
                      /\ report' = Failed("relocations") /\ UNCHANGED cells
  /\ phase' = "exports"
  /\ UNCHANGED <<image, headers, tries, imports>>

\* restore_exports: from the table UPX keeps for its own image.
RestoreExports ==
  /\ phase = "exports"
  /\ LET to == dirs.exports.at
         copy == image.packed.exports
         block == MovedExports(image.memory, copy, to)
     IN  \/ ~ HasDirectory(dirs.exports) /\ UNCHANGED <<cells, dirs, report>>
         \/ /\ HasDirectory(dirs.exports) /\ ExportsIntact(cells, to)
            /\ report' = Restored("exports") /\ UNCHANGED <<cells, dirs>>
         \/ /\ HasDirectory(dirs.exports) /\ ~ ExportsIntact(cells, to)
            /\ IF HasDirectory(copy) /\ block # NoMove /\ IsFree(cells, to, block)
                 THEN /\ cells' = Put(cells, to, block)
                      /\ dirs' = [dirs EXCEPT !.exports.size = Len(block)]
                      /\ report' = Restored("exports")
                 ELSE /\ dirs' = Cleared("exports")
                      /\ report' = Failed("exports") /\ UNCHANGED cells
  /\ phase' = "resources"
  /\ UNCHANGED <<image, headers, tries, imports>>

-----------------------------------------------------------------------------
\* return_kept_leaves: the data of a tree that stayed where it was comes back from
\* UPX's section, if there is room.
ReturnLeaves(mem, to) ==
  LET listed == {LeafAt(mem, e) : e \in WalkResources(mem, to).entries}
      due == SelectSeq(SetToSortSeq(PackedTree.entries, <),
                       LAMBDA e : Moved(e) /\ OldPlace(e) # LeafAt(image.memory, e) /\ OldPlace(e) \in listed)
      Return(m, e) ==
        LET data == Copied(image.memory, LeafAt(image.memory, e), 1)
        IN  IF IsFree(m, OldPlace(e), data) THEN Put(m, OldPlace(e), data) ELSE m
  IN  FoldLeft(Return, mem, due)

\* PackedResources::fits.
Fits(mem, to, size) ==
  LET structure == Copied(image.memory, image.packed.resources.at, PackedTree.length)
  IN  /\ PackedTree.length <= size
      /\ \A e \in PackedTree.entries : OldPlace(e) \notin to..(to + PackedTree.length - 1)
      /\ IsFree(mem, to, structure)

\* PackedResources::apply: the tree, then each leaf UPX moved, whatever is there.
ApplyTree(mem, to) ==
  LET start == image.packed.resources.at
      Apply(m, e) ==
        IF ~ Moved(e) THEN m
        ELSE Put(Put(m, OldPlace(e), Copied(image.memory, LeafAt(image.memory, e), 1)),
                 to + e - start, <<Leaf(OldPlace(e))>>)
  IN  FoldLeft(Apply, Put(mem, to, Copied(image.memory, start, PackedTree.length)),
               SetToSortSeq(PackedTree.entries, <))

\* restore_resources.
RestoreResources ==
  /\ phase = "resources"
  /\ LET to == dirs.resources.at
     IN  \/ ~ HasDirectory(dirs.resources) /\ UNCHANGED <<cells, dirs, report>>
         \/ /\ HasDirectory(dirs.resources) /\ ResourcesIntact(cells, to)
            /\ cells' = IF HasPackedTree THEN ReturnLeaves(cells, to) ELSE cells
            /\ report' = Restored("resources") /\ UNCHANGED dirs
         \/ /\ HasDirectory(dirs.resources) /\ ~ ResourcesIntact(cells, to)
            /\ IF HasPackedTree /\ Fits(cells, to, dirs.resources.size)
                 THEN cells' = ApplyTree(cells, to) /\ report' = Restored("resources") /\ UNCHANGED dirs
                 ELSE /\ dirs' = Cleared("resources")
                      /\ report' = Failed("resources") /\ UNCHANGED cells
  /\ phase' = "debug"
  /\ UNCHANGED <<image, headers, tries, imports>>

\* restore_debug_directory and guard_flags_cleared: the entries that are left move
\* together, and the CodeView one is made again from its record.
RestoreDebug ==
  /\ phase = "debug"
  /\ LET dir == dirs.debug
         table == Copied(cells, dir.at, dir.size)
         kept == SelectSeq(table, LAMBDA c : c # Zero)
         found == image.record /\ CodeView \notin ToSet(kept)
         rebuilt == kept \o IF found THEN <<CodeView>> ELSE <<>>
         erased == Len(table) - Len(kept)
         guard == IF Stored.guardCleared THEN {"guard flags"} ELSE {}
         lost == IF erased > (IF found THEN 1 ELSE 0) THEN {"debug entries"} ELSE {}
     IN  \/ /\ ~ HasDirectory(dir) \/ ~ Within(cells, dir.at, dir.size)
            /\ report' = [report EXCEPT !.lost = @ \cup guard] /\ UNCHANGED <<cells, dirs>>
         \/ /\ HasDirectory(dir) /\ Within(cells, dir.at, dir.size)
            /\ IF erased = 0 THEN UNCHANGED <<cells, dirs>>
               ELSE /\ cells' = Put(cells, dir.at, rebuilt \o [k \in 1..(dir.size - Len(rebuilt)) |-> Zero])
                    /\ dirs' = [dirs EXCEPT !.debug = IF rebuilt = <<>> THEN NoDirectory
                                                      ELSE [dir EXCEPT !.size = Len(rebuilt)]]
            /\ report' = [report EXCEPT !.restored = @ \cup (IF rebuilt = <<>> THEN {} ELSE {"debug"}),
                                        !.lost = @ \cup guard \cup (IF erased = 0 THEN {} ELSE lost)]
  /\ phase' = "unpacked"
  /\ UNCHANGED <<image, headers, tries, imports>>

UpxNext ==
  \/ DetectUpx \/ SkipHeaders \/ GiveUp \/ RestoreHeaders
  \/ RestoreImports \/ RestoreRelocations \/ RestoreExports \/ RestoreResources \/ RestoreDebug
=============================================================================
