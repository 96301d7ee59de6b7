------------------------------- MODULE Headers -------------------------------
(***************************************************************************)
(* pe/parse.rs: where in captured or embedded bytes a PE header is         *)
(* believed. Bytes are [length, mz, heads]: mz gives the e_lfanew of each  *)
(* offset that holds "MZ", heads the fields behind each NT signature.      *)
(* Offsets count in units of the size of a DOS header.                     *)
(***************************************************************************)
EXTENDS Sections, FiniteSets

CONSTANTS
  HeadSize,           \* signature and file header
  SectionHeader,      \* SECTION_HEADER_SIZE
  MinimumSize,        \* by magic, the shortest optional header
  MachineOf,          \* by magic, the machine it goes with
  FileAlignments,     \* powers of two from 0x200 to 0x10000
  SectionAlignments,  \* powers of two up to 0x100000
  MaxSections,        \* MAX_SECTIONS
  MaxImageSize,       \* MAX_IMAGE_SIZE
  MaxSalvageScan      \* MAX_SALVAGE_SCAN

ASSUME HeaderAssumption ==
  /\ HeadSize \in Nat \ {0} /\ SectionHeader \in Nat \ {0}
  /\ DOMAIN MinimumSize = DOMAIN MachineOf /\ \A magic \in DOMAIN MinimumSize : MinimumSize[magic] \in Nat
  /\ FileAlignments \subseteq SectionAlignments /\ SectionAlignments \subseteq Nat

None == -1
DosHeader == 1

OptionalEnd(head, at) == at + HeadSize + head.optional
TableSize(head) == Len(head.sections) * SectionHeader

\* optional_header_shape and the length of the optional header.
ShapeFits(head) ==
  /\ head.magic \in DOMAIN MachineOf /\ head.machine = MachineOf[head.magic]
  /\ head.optional >= MinimumSize[head.magic]

\* validate_alignments.
AlignmentsFit(head) ==
  /\ head.fileAlignment \in FileAlignments /\ head.sectionAlignment \in SectionAlignments
  /\ head.fileAlignment <= head.sectionAlignment

\* read_declared_image_size.
SizeFits(head, length, full) ==
  head.size \in 1..MaxImageSize /\ (full => head.size <= length)

\* Mutant: a stored header is as good as any other.
AnywhereIsFine(head, at) == TRUE

\* require_headers_before_sections: before the sections the headers themselves
\* declare, wherever those of the image are.
BeforeSections(head, at) ==
  \A i \in DOMAIN head.sections : MappedSize(head.sections[i]) # 0 =>
    OptionalEnd(head, at) + TableSize(head) <= head.sections[i].va

\* parse_candidate: the header at an offset of the bytes is one of a PE.
Candidate(bytes, at, salvaged, full) ==
  /\ at \in DOMAIN bytes.heads
  /\ LET head == bytes.heads[at]
     IN  /\ Len(head.sections) \in 1..MaxSections
         /\ ShapeFits(head) /\ AlignmentsFit(head)
         /\ SizeFits(head, bytes.length, full)
         /\ OptionalEnd(head, at) + TableSize(head) <= bytes.length
         /\ SectionsFit(head.sections, head.size)
         /\ salvaged => BeforeSections(head, at)

\* Where the DOS header at an offset points.
Pointed(bytes, at) == IF at \in DOMAIN bytes.mz THEN at + bytes.mz[at] ELSE None

\* parse_memory_image: the header of the image, from where the DOS header points
\* or, if there is none to believe, the first one in the bytes. None if no header
\* is believed.
ParseMemoryImage(bytes) ==
  LET normal == Pointed(bytes, 0)
      salvaged == {at \in DOMAIN bytes.heads \ {normal} : at < MaxSalvageScan /\ Candidate(bytes, at, TRUE, TRUE)}
  IN  IF bytes.length < DosHeader THEN None
      ELSE IF Candidate(bytes, normal, FALSE, TRUE) THEN normal
      ELSE IF salvaged = {} THEN None
      ELSE CHOOSE at \in salvaged : \A other \in salvaged : at <= other

\* parse_disk_image, of the bytes from an offset on.
ParseDiskImage(bytes, from) ==
  IF from + DosHeader <= bytes.length /\ Candidate(bytes, Pointed(bytes, from), FALSE, FALSE)
    THEN Pointed(bytes, from) ELSE None
=============================================================================
