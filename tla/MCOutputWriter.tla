--------------------------- MODULE MCOutputWriter ---------------------------
(***************************************************************************)
(* Small instances of OutputWriter.  The names are those of a process that *)
(* loads app.dll twice in different ASCII case, a module whose name is     *)
(* already the suffixed one, a module that is called what a fresh copy is, *)
(* and two modules whose names differ in the case of a letter A-umlaut.    *)
(***************************************************************************)
EXTENDS OutputWriter, TLC

\* suffixed_name with suffix 2.
Suffixed ==
  ("app.dll" :> "app_2.dll") @@ ("APP.dll" :> "APP_2.dll") @@
  ("app_2.dll" :> "app_2_2.dll") @@ ("app.fresh.dll" :> "app.fresh_2.dll") @@
  ("U+00C4.dll" :> "U+00C4_2.dll") @@ ("U+00E4.dll" :> "U+00E4_2.dll")

\* to_ascii_lowercase folds the letters of ASCII, the file system these and others.
AsciiLower == ("APP.dll" :> "app.dll") @@ ("APP_2.dll" :> "app_2.dll")

DiskLower ==
  AsciiLower @@ ("U+00C4.dll" :> "U+00E4.dll") @@ ("U+00C4_2.dll" :> "U+00E4_2.dll")

Fold(folding, names) ==
  [n \in names |-> IF n \in DOMAIN folding THEN folding[n] ELSE n]

\* The names a run over the given lists can try.
Tried(lists) ==
  LET asked == UNION {{l[i] : i \in 1..Len(l)} : l \in lists}
  IN  asked \cup {Suffixed[n] : n \in asked \cap DOMAIN Suffixed}

Tries(names) ==
  [n \in names |-> <<n, IF n \in DOMAIN Suffixed /\ Suffixed[n] \in names
                        THEN Suffixed[n] ELSE n>>]

PathsOf(names) == {Fold(DiskLower, names)[n] : n \in names}

MCUnusable == {"..."}

\* One run: names that collide in every way there is, within a batch and between
\* the two.
SoloDumps ==
  {<<>>, <<"app.dll", "APP.dll", "app_2.dll">>, <<"app.dll", "...">>,
   <<"app.dll", "app.fresh.dll">>, <<"U+00C4.dll", "U+00E4.dll">>}
SoloFresh == {<<>>, <<"app.fresh.dll">>}
SoloNames == Tried(SoloDumps \cup SoloFresh)
SoloCandidate == Tries(SoloNames)
SoloAsciiKey == Fold(AsciiLower, SoloNames)
SoloPathOf == Fold(DiskLower, SoloNames)
SoloPaths == PathsOf(SoloNames)

\* Two runs that dump the same program into the same folder.
PairDumps == {<<"app.dll">>, <<"app.dll", "APP.dll">>}
PairFresh == {<<>>}
PairNames == Tried(PairDumps)
PairCandidate == Tries(PairNames)
PairAsciiKey == Fold(AsciiLower, PairNames)
PairPathOf == Fold(DiskLower, PairNames)
PairPaths == PathsOf(PairNames)
=============================================================================
