----------------------------- MODULE MCStability -----------------------------
(***************************************************************************)
(* Small instances of Stability: up to ten watched pages in up to three    *)
(* regions with others between them, of which four are read.               *)
(***************************************************************************)
EXTENDS Stability

Region(base, count, watched) == [base |-> base, pages |-> count, watched |-> watched]
Split(a, b, c) == <<Region(1, a, TRUE), Region(a + 1, 2, FALSE), Region(a + 3, b, TRUE), Region(a + b + 3, c, TRUE)>>
MCLayouts ==
  {<<>>, <<Region(1, 1, FALSE)>>, <<Region(1, 1, TRUE)>>, <<Region(1, 2, TRUE)>>, <<Region(1, 3, TRUE), Region(5, 2, TRUE)>>}
    \cup {Split(a, b, c) : a \in {1, 5}, b \in {2}, c \in {1, 3}}
=============================================================================
