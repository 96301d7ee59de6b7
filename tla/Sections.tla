------------------------------ MODULE Sections ------------------------------
(***************************************************************************)
(* What pe/parse.rs and pe/image.rs say of a list of section headers,      *)
(* [va, vs, raw, ...]: used by the layout of a rebuilt image and by the    *)
(* parser that the carver and the salvage scan call.                       *)
(***************************************************************************)
EXTENDS Integers, Sequences

MappedSize(s) == IF s.vs = 0 THEN s.raw ELSE s.vs

\* validate_section and validate_non_overlapping_sections: an empty section is
\* not looked at.
SectionsFit(ss, size) == \A i \in DOMAIN ss :
  MappedSize(ss[i]) # 0 =>
    /\ ss[i].va + MappedSize(ss[i]) <= size
    /\ \A j \in DOMAIN ss \ {i} :
         \/ MappedSize(ss[j]) = 0
         \/ ss[i].va + MappedSize(ss[i]) <= ss[j].va
         \/ ss[j].va + MappedSize(ss[j]) <= ss[i].va
=============================================================================
