------------------------- MODULE OutputWriterProofs -------------------------
(***************************************************************************)
(* Theorems about OutputWriter, for any runs, names, lists and limits.     *)
(***************************************************************************)
EXTENDS OutputWriter, Integers, TLAPS

\* The lists a run works on are sequences of names no longer than MaxFiles.
LEMMA ListFacts ==
  ASSUME TypeOK, NEW w \in Writers
  PROVE  /\ List(w) \in Seq(Names)
         /\ Len(List(w)) \in 0..MaxFiles
         /\ dump[w] \in Seq(Names)
         /\ fresh[w] \in Seq(Names)
         /\ Len(dump[w]) \in 0..MaxFiles
         /\ Len(fresh[w]) \in 0..MaxFiles
<1>1. dump[w] \in DumpLists /\ fresh[w] \in FreshLists
  BY DEF TypeOK
<1>2. /\ dump[w] \in Seq(Names) /\ Len(dump[w]) <= MaxFiles
      /\ fresh[w] \in Seq(Names) /\ Len(fresh[w]) <= MaxFiles
  BY <1>1, ListsAssumption
<1>3. Len(dump[w]) \in Nat /\ Len(fresh[w]) \in Nat
  BY <1>2
<1>4. List(w) \in {dump[w], fresh[w]}
  BY DEF List
<1>5. QED
  BY <1>2, <1>3, <1>4, ListsAssumption

\* Where a run is in its lists.  TypeOK says nothing of positions, so it is not
\* inductive alone: the step that chooses a destination indexes the list.
Position(w) ==
  /\ pc[w] = "prepare" => batch[w] = "dump" /\ written[w] = << >> /\ policy[w] = "rename"
  /\ pc[w] = "begin" => Saved(w) = 0
  /\ pc[w] = "destination" =>
       Saved(w) = 0 /\ Len(dest[w]) < Len(List(w)) /\ staged[w] = << >>
  /\ pc[w] = "create" =>
       Saved(w) = 0 /\ Len(dest[w]) = Len(List(w)) /\ Len(staged[w]) < Len(List(w))
  /\ pc[w] = "stage" =>
       Saved(w) = 0 /\ Len(dest[w]) = Len(List(w)) /\ Len(staged[w]) \in 1..Len(List(w))
  /\ pc[w] \in {"look", "remove", "rename", "replace"} =>
       /\ Len(dest[w]) = Len(List(w))
       /\ Len(staged[w]) = Len(List(w))
       /\ Saved(w) \in 0..Len(List(w)) - 1
  /\ pc[w] = "ask" => batch[w] = "dump" /\ Len(written[w]) = Len(dump[w])
  /\ pc[w] = "unwind" => Len(staged[w]) <= MaxFiles /\ Saved(w) >= 0
  /\ pc[w] \in {"return", "done"} => Len(written[w]) >= Len(dump[w])
  /\ pc[w] \in {"remove", "replace"} => policy[w] = "overwrite"

\* Every file staged and not yet renamed is complete, the one being written
\* excepted.
StagedWhole(w) ==
  /\ pc[w] = "create" => \A i \in 1..Len(staged[w]) : temps[Temp(w, i)] = "whole"
  /\ pc[w] = "stage" => \A i \in 1..Len(staged[w]) - 1 : temps[Temp(w, i)] = "whole"
  /\ pc[w] \in {"look", "remove", "rename", "replace"} =>
       \A i \in Saved(w) + 1 .. Len(staged[w]) : temps[Temp(w, i)] = "whole"

\* The inductive invariant behind the theorems of this module.
IInv ==
  /\ TypeOK
  /\ OnlyWholeFiles
  /\ \A w \in Writers : Position(w) /\ StagedWhole(w)

\* The initial states satisfy the inductive invariant.
LEMMA InitIInv == Init => IInv
<1> SUFFICES ASSUME Init PROVE IInv
  OBVIOUS
<1>1. TypeOK
  BY NamingAssumption, ListsAssumption DEF Init, TypeOK, EntryValues, Places, Final
<1>2. OnlyWholeFiles
  BY DEF Init, OnlyWholeFiles, Absent, Old, Directory
<1>3. ASSUME NEW w \in Writers PROVE Position(w) /\ StagedWhole(w)
  BY DEF Init, Position, StagedWhole
<1>4. QED
  BY <1>1, <1>2, <1>3 DEF IInv

-----------------------------------------------------------------------------
\* The temporaries a run counts on are among TempPaths.
LEMMA TempInRange ==
  ASSUME TypeOK, NEW w \in Writers, Position(w),
         pc[w] \in {"create", "stage", "look", "remove", "rename", "replace", "unwind"},
         NEW i \in 1..Len(staged[w])
  PROVE  Temp(w, i) \in TempPaths
<1>1. staged[w] \in Seq(Attempts)
  BY DEF TypeOK
<1>2. Len(staged[w]) <= MaxFiles
  BY <1>1, ListFacts, ListsAssumption DEF Position
<1>3. i \in 1..MaxFiles /\ staged[w][i] \in Attempts
  BY <1>1, <1>2, ListsAssumption
<1>4. QED
  BY <1>3 DEF Temp, TempPaths

\* What a step leaves alone of run v keeps the facts about v.
Same(v) ==
  /\ pc'[v] = pc[v]
  /\ policy'[v] = policy[v]
  /\ dump'[v] = dump[v]
  /\ fresh'[v] = fresh[v]
  /\ batch'[v] = batch[v]
  /\ dest'[v] = dest[v]
  /\ staged'[v] = staged[v]
  /\ written'[v] = written[v]
  /\ \A i, a : <<v, i, a>> \in TempPaths => temps'[<<v, i, a>>] = temps[<<v, i, a>>]

\* What a part of the invariant about run v depends on: a step that leaves it alone
\* keeps that part.
LEMMA Frame ==
  ASSUME TypeOK, NEW v \in Writers, Position(v), StagedWhole(v), Same(v)
  PROVE  Position(v)' /\ StagedWhole(v)'
<1>1. List(v)' = List(v) /\ Saved(v)' = Saved(v) /\ \A i : Temp(v, i)' = Temp(v, i)
  BY DEF Same, List, Saved, Temp
<1>2. Position(v)'
  BY <1>1 DEF Same, Position
<1>3. \A i \in 1..Len(staged[v]) :
        pc[v] \in {"create", "stage", "look", "remove", "rename", "replace"}
          => temps'[Temp(v, i)'] = temps[Temp(v, i)]
  BY <1>1, TempInRange DEF Same, Temp
<1>4. staged[v] \in Seq(Attempts) /\ written[v] \in Seq(Paths) /\ Len(dump[v]) \in Nat
  BY ListFacts DEF TypeOK
<1>5. Saved(v) \in Int /\ (pc[v] \in {"look", "remove", "rename", "replace"} => Saved(v) >= 0)
  BY <1>4 DEF Saved, Position
<1>6. StagedWhole(v)'
  <2>1. pc'[v] = pc[v] /\ staged'[v] = staged[v]
    BY DEF Same
  <2>2. pc'[v] = "create" => \A i \in 1..Len(staged'[v]) : temps'[Temp(v, i)'] = "whole"
    BY <1>3, <2>1 DEF StagedWhole
  <2>3. ASSUME pc'[v] = "stage", NEW i \in 1..Len(staged'[v]) - 1
        PROVE  temps'[Temp(v, i)'] = "whole"
    <3>1. i \in 1..Len(staged[v])
      BY <1>4, <2>1, <2>3
    <3>2. temps[Temp(v, i)] = "whole"
      BY <2>1, <2>3 DEF StagedWhole
    <3>3. QED
      BY <1>3, <2>1, <2>3, <3>1, <3>2
  <2>4. ASSUME pc'[v] \in {"look", "remove", "rename", "replace"},
               NEW i \in Saved(v)' + 1 .. Len(staged'[v])
        PROVE  temps'[Temp(v, i)'] = "whole"
    <3>1. i \in Saved(v) + 1 .. Len(staged[v])
      BY <1>1, <2>1, <2>4
    <3>2. i \in 1..Len(staged[v])
      BY <1>4, <1>5, <2>1, <2>4, <3>1
    <3>3. temps[Temp(v, i)] = "whole"
      BY <2>1, <2>4, <3>1 DEF StagedWhole
    <3>4. QED
      BY <1>3, <2>1, <2>4, <3>2, <3>3
  <2>5. QED
    BY <2>2, <2>3, <2>4 DEF StagedWhole
<1>7. QED
  BY <1>2, <1>6

\* A step of run w changes nothing of another run, its temporaries included.
LEMMA StepSame ==
  ASSUME IInv, NEW w \in Writers, Step(w) \/ Kill(w), NEW v \in Writers \ {w}
  PROVE  Same(v)
<1>1. TypeOK
  BY DEF IInv
<1>2. ASSUME Refuse(w) \/ Prepare(w) \/ BeginBatch(w) \/ ChooseDestination(w)
             \/ Look(w) \/ RemoveOld(w) \/ AskFresh(w) \/ Return(w) \/ Kill(w)
      PROVE  Same(v)
  BY <1>1, <1>2, SMTT(30) DEF Same, TypeOK, disk, plan, Goto, Refuse, Prepare, BeginBatch,
     ChooseDestination, Look, RemoveOld, AskFresh, Return, Kill
<1>3. CASE CreateTemp(w)
  <2>1. \A i, a : <<v, i, a>> \in TempPaths => temps'[<<v, i, a>>] = temps[<<v, i, a>>]
    BY <1>1, <1>3 DEF CreateTemp, TypeOK
  <2>2. QED
    BY <1>1, <1>3, <2>1 DEF Same, CreateTemp, TypeOK, plan, Goto
<1>4. CASE StageFile(w)
  <2>1. \A i, a : <<v, i, a>> \in TempPaths => temps'[<<v, i, a>>] = temps[<<v, i, a>>]
    BY <1>1, <1>4 DEF StageFile, TypeOK, Temp
  <2>2. QED
    BY <1>1, <1>4, <2>1 DEF Same, StageFile, TypeOK, plan, Goto
<1>5. CASE RenameIntoPlace(w)
  <2>1. \A i, a : <<v, i, a>> \in TempPaths => temps'[<<v, i, a>>] = temps[<<v, i, a>>]
    BY <1>1, <1>5 DEF RenameIntoPlace, TypeOK, Temp
  <2>2. QED
    BY <1>1, <1>5, <2>1 DEF Same, RenameIntoPlace, TypeOK, plan, Goto
<1>6. CASE Unwind(w)
  <2>1. \A i, a : <<v, i, a>> \in TempPaths => temps'[<<v, i, a>>] = temps[<<v, i, a>>]
    BY <1>1, <1>6 DEF Unwind, Unsaved, Temp
  <2>2. QED
    BY <1>1, <1>6, <2>1 DEF Same, Unwind, TypeOK, plan, Goto
<1>7. QED
  BY <1>2, <1>3, <1>4, <1>5, <1>6 DEF Step

\* A step of run w keeps the invariant of every other run.
LEMMA OthersKept ==
  ASSUME IInv, NEW w \in Writers, Step(w) \/ Kill(w), NEW v \in Writers \ {w}
  PROVE  Position(v)' /\ StagedWhole(v)'
BY StepSame, Frame DEF IInv

-----------------------------------------------------------------------------
\* What one step of run w owes: the shared facts, and its own position.
Kept(w) == TypeOK /\ OnlyWholeFiles /\ Position(w) /\ StagedWhole(w)

\* Facts about the run that takes the step, unfolded once for all actions.
LEMMA RunFacts ==
  ASSUME IInv, NEW w \in Writers
  PROVE  /\ Kept(w)
         /\ dest[w] \in Seq(Names) /\ staged[w] \in Seq(Attempts) /\ written[w] \in Seq(Paths)
         /\ Saved(w) \in Int
         /\ Len(dest[w]) \in Nat /\ Len(staged[w]) \in Nat /\ Len(written[w]) \in Nat
         /\ Len(List(w)) \in 0..MaxFiles /\ List(w) \in Seq(Names)
         /\ Len(dump[w]) \in 0..MaxFiles /\ Len(fresh[w]) \in 0..MaxFiles
<1>1. Kept(w) /\ TypeOK
  BY DEF IInv, Kept
<1>2. dest[w] \in Seq(Names) /\ staged[w] \in Seq(Attempts) /\ written[w] \in Seq(Paths)
  BY <1>1 DEF TypeOK
<1>3. Len(dest[w]) \in Nat /\ Len(staged[w]) \in Nat /\ Len(written[w]) \in Nat
  BY <1>2
<1>4. Saved(w) \in Int
  BY <1>1, <1>3, ListFacts DEF Saved
<1>5. QED
  BY <1>1, <1>2, <1>3, <1>4, ListFacts

\* The steps that change no file: prepare, the prompts, Look, the ends.
LEMMA QuietSteps ==
  ASSUME IInv, NEW w \in Writers,
         Refuse(w) \/ Prepare(w) \/ Look(w) \/ AskFresh(w) \/ Return(w) \/ Kill(w)
  PROVE  Kept(w)'
<1>. USE RunFacts DEF Kept
<1>1. CASE Refuse(w)
  <2>1. TypeOK'
    BY <1>1 DEF Refuse, TypeOK, Goto, disk, plan, Places, Final
  <2>2. pc'[w] = "refused" /\ OnlyWholeFiles'
    BY <1>1 DEF Refuse, TypeOK, Goto, disk, OnlyWholeFiles
  <2>3. QED
    BY <2>1, <2>2 DEF Position, StagedWhole
<1>2. CASE Prepare(w)
  <2>1. TypeOK'
    BY <1>2 DEF Prepare, TypeOK, Goto, disk, Places, Final
  <2>2. pc'[w] = "begin" /\ OnlyWholeFiles' /\ Saved(w)' = Saved(w)
    BY <1>2 DEF Prepare, TypeOK, Goto, disk, OnlyWholeFiles, Saved
  <2>3. Saved(w) = 0
    BY <1>2 DEF Prepare, Position, Saved
  <2>4. QED
    BY <2>1, <2>2, <2>3 DEF Position, StagedWhole
<1>3. CASE Look(w)
  <2>1. TypeOK'
    BY <1>3 DEF Look, TypeOK, Goto, disk, plan, Places, Final
  <2>2. /\ OnlyWholeFiles' /\ Saved(w)' = Saved(w) /\ List(w)' = List(w)
        /\ \A i : Temp(w, i)' = Temp(w, i)
        /\ temps' = temps /\ staged' = staged /\ dest' = dest /\ policy' = policy
    BY <1>3 DEF Look, Goto, disk, plan, OnlyWholeFiles, Saved, List, Temp
  <2>3. /\ pc[w] = "look"
        /\ pc'[w] \in {"unwind", "remove", "rename"}
        /\ pc'[w] = "remove" => policy[w] = "overwrite"
    BY <1>3 DEF Look, TypeOK, Goto
  <2>4. Position(w)'
    BY <2>2, <2>3 DEF Position
  <2>5. StagedWhole(w)'
    <3>1. \A i \in Saved(w) + 1 .. Len(staged[w]) : temps[Temp(w, i)] = "whole"
      BY <2>3 DEF StagedWhole
    <3>2. \A i \in Saved(w)' + 1 .. Len(staged'[w]) : temps'[Temp(w, i)'] = "whole"
      BY <2>2, <3>1
    <3>3. pc'[w] # "create" /\ pc'[w] # "stage"
      BY <2>3
    <3>4. QED
      BY ONLY <3>2, <3>3 DEF StagedWhole
  <2>6. QED
    BY <2>1, <2>2, <2>4, <2>5
<1>4. CASE AskFresh(w)
  <2>1. TypeOK'
    BY <1>4 DEF AskFresh, TypeOK, Goto, disk, plan, Places, Final
  <2>2. OnlyWholeFiles' /\ dump' = dump /\ written' = written
    BY <1>4 DEF AskFresh, Goto, disk, plan, OnlyWholeFiles
  <2>3. /\ pc'[w] \in {"begin", "return", "failed"}
        /\ pc'[w] = "begin" => batch'[w] = "fresh"
        /\ Len(written[w]) = Len(dump[w])
    BY <1>4 DEF AskFresh, TypeOK, Goto, Position
  <2>4. QED
    BY <2>1, <2>2, <2>3 DEF Position, StagedWhole, Saved
<1>5. CASE Return(w)
  <2>1. TypeOK'
    BY <1>5 DEF Return, TypeOK, Goto, disk, plan, Places, Final
  <2>2. pc'[w] = "done" /\ OnlyWholeFiles' /\ dump' = dump /\ written' = written
    BY <1>5 DEF Return, TypeOK, Goto, disk, plan, OnlyWholeFiles
  <2>3. QED
    BY <1>5, <2>1, <2>2 DEF Return, Position, StagedWhole
<1>6. CASE Kill(w)
  <2>1. TypeOK'
    BY <1>6 DEF Kill, TypeOK, Goto, disk, plan, Places, Final
  <2>2. pc'[w] = "killed" /\ OnlyWholeFiles'
    BY <1>6 DEF Kill, TypeOK, Goto, disk, OnlyWholeFiles
  <2>3. QED
    BY <2>1, <2>2 DEF Position, StagedWhole
<1>7. QED
  BY <1>1, <1>2, <1>3, <1>4, <1>5, <1>6

\* BeginBatch and ChooseDestination, which set up a batch.
LEMMA BeginSteps ==
  ASSUME IInv, NEW w \in Writers, BeginBatch(w) \/ ChooseDestination(w)
  PROVE  Kept(w)'
<1>. USE RunFacts DEF Kept
<1>1. CASE BeginBatch(w)
  <2>1. TypeOK'
    <3>1. /\ dest' \in [Writers -> Seq(Names)] /\ staged' \in [Writers -> Seq(Attempts)]
          /\ suffix' \in [Writers -> 1..MaxNameAttempts]
      BY <1>1, NamingAssumption DEF BeginBatch, TypeOK
    <3>2. folder' \in {"missing", "present", "file"}
      BY <1>1 DEF BeginBatch, TypeOK
    <3>3. \E place \in Places : pc' = [pc EXCEPT ![w] = place]
      <4>1. AfterBatch(w) \in Places /\ "destination" \in Places /\ "failed" \in Places
        BY DEF AfterBatch, Places, Final
      <4>2. QED
        BY <1>1, <4>1 DEF BeginBatch, Goto
    <3>4. QED
      BY <1>1, <3>1, <3>2, <3>3 DEF BeginBatch, TypeOK, plan
  <2>2. /\ OnlyWholeFiles' /\ Saved(w)' = Saved(w) /\ List(w)' = List(w)
        /\ batch' = batch /\ dump' = dump /\ written' = written /\ fresh' = fresh
        /\ dest'[w] = << >> /\ staged'[w] = << >>
    BY <1>1 DEF BeginBatch, TypeOK, plan, OnlyWholeFiles, Saved, List
  <2>3. /\ Saved(w) = 0
        /\ \/ pc'[w] = AfterBatch(w) /\ List(w) = << >>
           \/ pc'[w] \in {"destination", "failed"} /\ List(w) # << >>
    BY <1>1 DEF BeginBatch, TypeOK, Goto, Position
  <2>4. Position(w)'
    <3>1. CASE pc'[w] = AfterBatch(w) /\ List(w) = << >>
      <4>1. Len(written[w]) >= Len(dump[w])
        BY <2>3, <3>1 DEF Saved, List
      <4>2. pc'[w] = "ask" => batch[w] = "dump" /\ Len(written[w]) = Len(dump[w])
        BY <2>3, <3>1 DEF Saved, List, AfterBatch
      <4>3. QED
        BY <2>2, <3>1, <4>1, <4>2 DEF Position, AfterBatch
    <3>2. CASE pc'[w] \in {"destination", "failed"} /\ List(w) # << >>
      <4>1. Len(List(w)) > 0
        BY <3>2
      <4>2. QED
        BY <2>2, <2>3, <3>2, <4>1 DEF Position
    <3>3. QED
      BY <2>3, <3>1, <3>2
  <2>5. StagedWhole(w)'
    BY <2>3 DEF StagedWhole, AfterBatch
  <2>6. QED
    BY <2>1, <2>2, <2>4, <2>5
<1>2. CASE ChooseDestination(w)
  <2> DEFINE name == List(w)[Len(dest[w]) + 1]
             candidate == Candidate[name][suffix[w]]
  <2>1. /\ pc[w] = "destination" /\ Len(dest[w]) < Len(List(w)) /\ staged[w] = << >>
        /\ Saved(w) = 0
    BY <1>2 DEF ChooseDestination, Position
  <2>2. name \in Names /\ suffix[w] \in 1..MaxNameAttempts
    BY <2>1 DEF TypeOK
  <2>3. candidate \in Names
    BY <2>2, NamingAssumption
  <2>4. Append(dest[w], candidate) \in Seq(Names) /\ Len(Append(dest[w], candidate)) = Len(dest[w]) + 1
    BY <2>3
  <2>5. TypeOK'
    <3>1. \/ suffix' = suffix
          \/ suffix' = [suffix EXCEPT ![w] = 1]
          \/ suffix[w] < MaxNameAttempts /\ suffix' = [suffix EXCEPT ![w] = @ + 1]
      BY <1>2 DEF ChooseDestination, MoreSuffixes
    <3>2. suffix' \in [Writers -> 1..MaxNameAttempts]
      <4>1. 1 \in 1..MaxNameAttempts
        BY NamingAssumption
      <4>2. suffix[w] < MaxNameAttempts => suffix[w] + 1 \in 1..MaxNameAttempts
        BY <2>2, NamingAssumption
      <4>3. suffix \in [Writers -> 1..MaxNameAttempts]
        BY DEF TypeOK
      <4>4. QED
        BY <3>1, <4>1, <4>2, <4>3
    <3>3. dest' = dest \/ dest' = [dest EXCEPT ![w] = Append(@, candidate)]
      BY <1>2 DEF ChooseDestination
    <3>4. dest' \in [Writers -> Seq(Names)]
      BY <2>4, <3>3 DEF TypeOK
    <3>5. pc' = pc \/ pc' = [pc EXCEPT ![w] = "failed"] \/ pc' = [pc EXCEPT ![w] = "create"]
      BY <1>2 DEF ChooseDestination, Goto
    <3>6. pc' \in [Writers -> Places]
      BY <3>5 DEF TypeOK, Places, Final
    <3>7. QED
      BY <1>2, <3>2, <3>4, <3>6 DEF ChooseDestination, TypeOK, disk, plan
  <2>6. /\ OnlyWholeFiles' /\ Saved(w)' = Saved(w) /\ List(w)' = List(w)
        /\ batch' = batch /\ staged' = staged
    BY <1>2 DEF ChooseDestination, disk, plan, OnlyWholeFiles, Saved, List
  <2>7. \/ pc'[w] = "failed"
        \/ pc'[w] = "destination" /\ dest'[w] = dest[w]
        \/ /\ dest'[w] = Append(dest[w], candidate)
           /\ \/ pc'[w] = "create" /\ Len(dest[w]) + 1 = Len(List(w))
              \/ pc'[w] = "destination" /\ Len(dest[w]) + 1 # Len(List(w))
    BY <1>2 DEF ChooseDestination, TypeOK, Goto
  <2>8. Position(w)'
    BY <2>1, <2>4, <2>6, <2>7 DEF Position
  <2>9. StagedWhole(w)'
    BY <2>1, <2>6, <2>7 DEF StagedWhole
  <2>10. QED
    BY <2>5, <2>6, <2>8, <2>9
<1>3. QED
  BY <1>1, <1>2

-----------------------------------------------------------------------------
\* Staging: the temporaries of run w.
LEMMA CreateStep ==
  ASSUME IInv, NEW w \in Writers, CreateTemp(w)
  PROVE  Kept(w)'
<1>. USE RunFacts DEF Kept
<1> DEFINE i == Len(staged[w]) + 1
<1>1. /\ pc[w] = "create" /\ Saved(w) = 0 /\ Len(dest[w]) = Len(List(w))
      /\ Len(staged[w]) < Len(List(w))
  BY DEF CreateTemp, Position
<1>2. /\ List(w)' = List(w) /\ Saved(w)' = Saved(w) /\ dest' = dest /\ batch' = batch
      /\ OnlyWholeFiles'
  BY DEF CreateTemp, plan, List, Saved, OnlyWholeFiles
<1>3. i \in 1..MaxFiles
  BY <1>1, ListsAssumption
<1>4. CASE pc'[w] = "unwind" /\ pc' = [pc EXCEPT ![w] = "unwind"]
           /\ UNCHANGED <<temps, staged>>
  <2>1. TypeOK'
    BY <1>4 DEF CreateTemp, plan, TypeOK, Places
  <2>2. Position(w)' /\ StagedWhole(w)'
    BY <1>1, <1>2, <1>4, ListsAssumption DEF Position, StagedWhole
  <2>3. QED
    BY <1>2, <2>1, <2>2
<1>5. ASSUME NEW a \in FreeAttempts(w, i),
             temps' = [temps EXCEPT ![<<w, i, a>>] = "partial"],
             staged' = [staged EXCEPT ![w] = Append(@, a)],
             pc' = [pc EXCEPT ![w] = "stage"]
      PROVE  Kept(w)'
  <2>1. a \in Attempts /\ <<w, i, a>> \in TempPaths
    BY <1>3, <1>5 DEF FreeAttempts, TempPaths
  <2>2. /\ Append(staged[w], a) \in Seq(Attempts)
        /\ Len(Append(staged[w], a)) = i
        /\ \A j \in 1..Len(staged[w]) : Append(staged[w], a)[j] = staged[w][j]
    BY <2>1
  <2>3. staged'[w] = Append(staged[w], a) /\ pc'[w] = "stage"
    BY <1>5 DEF TypeOK
  <2>4. TypeOK'
    <3>1. staged' \in [Writers -> Seq(Attempts)]
      BY <1>5, <2>2 DEF TypeOK
    <3>2. temps' \in [TempPaths -> {"none", "stale", "partial", "whole"}]
      BY <1>5 DEF TypeOK
    <3>3. pc' \in [Writers -> Places]
      BY <1>5 DEF TypeOK, Places
    <3>4. QED
      BY <3>1, <3>2, <3>3 DEF CreateTemp, plan, TypeOK
  <2>5. Position(w)'
    BY <1>1, <1>2, <2>2, <2>3 DEF Position
  <2>6. ASSUME NEW j \in 1..Len(staged[w]) PROVE temps'[Temp(w, j)'] = "whole"
    <3>1. Temp(w, j)' = Temp(w, j)
      BY <2>2, <2>3 DEF Temp
    <3>2. Temp(w, j) \in TempPaths /\ temps[Temp(w, j)] = "whole"
      BY <1>1, TempInRange DEF StagedWhole
    <3>3. Temp(w, j) # <<w, i, a>>
      BY DEF Temp
    <3>4. QED
      BY <1>5, <3>1, <3>2, <3>3 DEF TypeOK
  <2>7. StagedWhole(w)'
    BY <2>2, <2>3, <2>6 DEF StagedWhole
  <2>8. QED
    BY <1>2, <2>4, <2>5, <2>7
<1>6. QED
  BY <1>4, <1>5 DEF CreateTemp, Goto, TypeOK

\* Writing a temporary makes exactly the last one of the run whole.
LEMMA StageStep ==
  ASSUME IInv, NEW w \in Writers, StageFile(w)
  PROVE  Kept(w)'
<1>. USE RunFacts DEF Kept
<1> DEFINE i == Len(staged[w])
<1>1. /\ pc[w] = "stage" /\ Saved(w) = 0 /\ Len(dest[w]) = Len(List(w))
      /\ i \in 1..Len(List(w))
  BY DEF StageFile, Position
<1>2. /\ List(w)' = List(w) /\ Saved(w)' = Saved(w) /\ dest' = dest /\ batch' = batch
      /\ staged' = staged /\ OnlyWholeFiles' /\ \A j : Temp(w, j)' = Temp(w, j)
  BY DEF StageFile, plan, List, Saved, OnlyWholeFiles, Temp
<1>3. \A j \in 1..i : Temp(w, j) \in TempPaths
  BY <1>1, TempInRange
<1>4. CASE pc' = [pc EXCEPT ![w] = "unwind"] /\ temps' = temps
  <2>1. TypeOK' /\ pc'[w] = "unwind"
    BY <1>4 DEF StageFile, plan, TypeOK, Places
  <2>2. Position(w)' /\ StagedWhole(w)'
    BY <1>1, <1>2, <2>1, ListsAssumption DEF Position, StagedWhole
  <2>3. QED
    BY <1>2, <2>1, <2>2
<1>5. CASE /\ temps' = [temps EXCEPT ![Temp(w, i)] = "whole"]
           /\ pc' = [pc EXCEPT ![w] = IF i = Len(List(w)) THEN "look" ELSE "create"]
  <2>1. TypeOK' /\ pc'[w] = IF i = Len(List(w)) THEN "look" ELSE "create"
    BY <1>5 DEF StageFile, plan, TypeOK, Places
  <2>2. Position(w)'
    BY <1>1, <1>2, <2>1 DEF Position
  <2>3. \A j \in 1..i : temps'[Temp(w, j)] = "whole"
    BY <1>1, <1>3, <1>5 DEF StagedWhole, TypeOK
  <2>4. StagedWhole(w)'
    BY <1>1, <1>2, <2>1, <2>3 DEF StagedWhole
  <2>5. QED
    BY <1>2, <2>1, <2>2, <2>4
<1>6. QED
  BY <1>4, <1>5 DEF StageFile, Goto

-----------------------------------------------------------------------------
\* The commit loop.
LEMMA TargetInPaths ==
  ASSUME IInv, NEW w \in Writers, pc[w] \in {"look", "remove", "rename", "replace"}
  PROVE  Target(w) \in Paths
<1>1. /\ dest[w] \in Seq(Names) /\ Saved(w) + 1 \in 1..Len(dest[w])
  BY RunFacts DEF Kept, Position
<1>2. dest[w][Saved(w) + 1] \in Names
  BY <1>1
<1>3. QED
  BY <1>2, NamingAssumption DEF Target

\* Removing the old file leaves every temporary and every saved file in its place.
LEMMA RemoveStep ==
  ASSUME IInv, NEW w \in Writers, RemoveOld(w)
  PROVE  Kept(w)'
<1>. USE RunFacts DEF Kept
<1>1. /\ pc[w] = "remove" /\ Target(w) \in Paths
      /\ Len(dest[w]) = Len(List(w)) /\ Len(staged[w]) = Len(List(w))
      /\ Saved(w) \in 0..Len(List(w)) - 1 /\ policy[w] = "overwrite"
  BY TargetInPaths DEF RemoveOld, Position
<1>2. /\ List(w)' = List(w) /\ Saved(w)' = Saved(w) /\ dest' = dest /\ staged' = staged
      /\ policy' = policy /\ temps' = temps /\ \A j : Temp(w, j)' = Temp(w, j)
  BY DEF RemoveOld, plan, List, Saved, Temp
<1>3. entries' = entries \/ entries' = [entries EXCEPT ![Target(w)] = Absent]
  BY DEF RemoveOld
<1>4. pc' = [pc EXCEPT ![w] = "replace"] \/ pc' = [pc EXCEPT ![w] = "unwind"]
  BY DEF RemoveOld, Goto
<1>5. TypeOK'
  BY <1>1, <1>3, <1>4 DEF RemoveOld, plan, TypeOK, Places, EntryValues
<1>6. OnlyWholeFiles'
  <2>1. \A p \in Paths : entries'[p] \in {entries[p], Absent}
    BY <1>1, <1>3 DEF TypeOK
  <2>2. Absent.kind # "output"
    BY DEF Absent
  <2>3. QED
    BY <2>1, <2>2 DEF OnlyWholeFiles
<1>7. pc'[w] \in {"replace", "unwind"}
  BY <1>4 DEF TypeOK
<1>8. Position(w)'
  BY <1>1, <1>2, <1>7, ListsAssumption DEF Position
<1>9. StagedWhole(w)'
  BY <1>1, <1>2, <1>7 DEF StagedWhole
<1>10. QED
  BY <1>5, <1>6, <1>8, <1>9

\* Renaming a staged file into place, the step that changes most.
LEMMA RenameStep ==
  ASSUME IInv, NEW w \in Writers, RenameIntoPlace(w)
  PROVE  Kept(w)'
<1>. USE RunFacts DEF Kept
<1> DEFINE i == Saved(w) + 1
           t == Temp(w, i)
<1>1. /\ pc[w] \in {"rename", "replace"} /\ Target(w) \in Paths
      /\ Len(dest[w]) = Len(List(w)) /\ Len(staged[w]) = Len(List(w))
      /\ Saved(w) \in 0..Len(List(w)) - 1
  BY TargetInPaths DEF RenameIntoPlace, Position
<1>2. /\ List(w)' = List(w) /\ dest' = dest /\ staged' = staged /\ batch' = batch
      /\ dump' = dump /\ fresh' = fresh /\ policy' = policy /\ \A j : Temp(w, j)' = Temp(w, j)
  BY DEF RenameIntoPlace, plan, List, Temp
<1>3. \A j \in i..Len(staged[w]) : Temp(w, j) \in TempPaths /\ temps[Temp(w, j)] = "whole"
  BY <1>1, TempInRange DEF StagedWhole
<1>4. CASE pc' = [pc EXCEPT ![w] = "unwind"] /\ UNCHANGED <<entries, temps, written>>
  <2>1. TypeOK' /\ pc'[w] = "unwind" /\ OnlyWholeFiles'
    BY <1>4 DEF RenameIntoPlace, plan, TypeOK, Places, OnlyWholeFiles
  <2>2. Saved(w)' = Saved(w)
    BY <1>2, <1>4 DEF Saved
  <2>3. Position(w)' /\ StagedWhole(w)'
    BY <1>1, <1>2, <2>1, <2>2, ListsAssumption DEF Position, StagedWhole
  <2>4. QED
    BY <2>1, <2>3
<1>5. CASE /\ entries' = [entries EXCEPT
                            ![Target(w)] = Output(w, Len(written[w]) + 1, temps[t] = "whole")]
           /\ temps' = [temps EXCEPT ![t] = "none"]
           /\ written' = [written EXCEPT ![w] = Append(@, Target(w))]
           /\ pc' = [pc EXCEPT ![w] = IF i = Len(List(w)) THEN AfterBatch(w) ELSE "look"]
  <2>1. /\ Append(written[w], Target(w)) \in Seq(Paths)
        /\ Len(Append(written[w], Target(w))) = Len(written[w]) + 1
    BY <1>1
  <2>2. written'[w] = Append(written[w], Target(w)) /\ Saved(w)' = i
    BY <1>2, <1>5, <2>1 DEF TypeOK, Saved
  <2>3. AfterBatch(w) \in {"ask", "return"}
    BY DEF AfterBatch
  <2>4. pc'[w] = IF i = Len(List(w)) THEN AfterBatch(w) ELSE "look"
    BY <1>5 DEF TypeOK
  <2>5. temps[t] = "whole"
    BY <1>1, <1>3
  <2>6. Output(w, Len(written[w]) + 1, TRUE) \in EntryValues
    BY DEF Output, EntryValues
  <2>7. entries' = [entries EXCEPT ![Target(w)] = Output(w, Len(written[w]) + 1, TRUE)]
    <3>1. (temps[t] = "whole") = TRUE
      BY <2>5
    <3>2. QED
      BY <1>5, <3>1, Zenon
  <2>8. TypeOK'
    <3>1. entries' \in [Paths -> EntryValues]
      BY <2>6, <2>7 DEF TypeOK
    <3>2. written' \in [Writers -> Seq(Paths)]
      BY <1>5, <2>1 DEF TypeOK
    <3>3. temps' \in [TempPaths -> {"none", "stale", "partial", "whole"}]
      BY <1>5 DEF TypeOK
    <3>4. pc' \in [Writers -> Places]
      BY <1>5, <2>3 DEF TypeOK, Places
    <3>5. QED
      BY <3>1, <3>2, <3>3, <3>4 DEF RenameIntoPlace, plan, TypeOK
  <2>9. OnlyWholeFiles'
    BY <1>1, <2>7 DEF OnlyWholeFiles, TypeOK, Output
  <2>10. Position(w)'
    <3>1. CASE i # Len(List(w))
      BY <1>1, <1>2, <2>2, <2>4, <3>1 DEF Position
    <3>2. CASE i = Len(List(w))
      <4>1. Len(written'[w]) = Len(List(w)) + (IF batch[w] = "dump" THEN 0 ELSE Len(dump[w]))
        BY <2>1, <2>2, <3>2 DEF Saved
      <4>2. AfterBatch(w) = "ask" => batch[w] = "dump"
        BY DEF AfterBatch
      <4>3. Len(written'[w]) >= Len(dump[w]) /\ (batch[w] = "dump" => Len(written'[w]) = Len(dump[w]))
        <5>1. CASE batch[w] = "dump"
          <6>1. Len(written'[w]) = Len(dump[w]) + 0
            BY <4>1, <5>1 DEF List
          <6>2. QED
            BY <6>1
        <5>2. CASE batch[w] # "dump"
          <6>1. Len(written'[w]) = Len(List(w)) + Len(dump[w])
            BY <4>1, <5>2
          <6>2. QED
            BY <5>2, <6>1
        <5>3. QED
          BY <5>1, <5>2
      <4>4. QED
        BY <1>2, <2>3, <2>4, <3>2, <4>2, <4>3 DEF Position
    <3>3. QED
      BY <3>1, <3>2
  <2>11. StagedWhole(w)'
    <3>1. CASE i # Len(List(w))
      <4>1. \A j \in i + 1 .. Len(staged[w]) : Temp(w, j) # t
        BY DEF Temp
      <4>2. \A j \in i + 1 .. Len(staged[w]) : temps'[Temp(w, j)] = "whole"
        BY <1>1, <1>3, <1>5, <4>1 DEF TypeOK
      <4>3. QED
        BY <1>2, <2>2, <2>4, <3>1, <4>2 DEF StagedWhole
    <3>2. CASE i = Len(List(w))
      BY <2>3, <2>4, <3>2 DEF StagedWhole
    <3>3. QED
      BY <3>1, <3>2
  <2>12. QED
    BY <2>8, <2>9, <2>10, <2>11
<1>6. QED
  BY <1>4, <1>5 DEF RenameIntoPlace, Goto

\* Unwinding only takes temporaries away.
LEMMA UnwindStep ==
  ASSUME IInv, NEW w \in Writers, Unwind(w)
  PROVE  Kept(w)'
<1>. USE RunFacts DEF Kept
<1>1. pc[w] = "unwind" /\ pc'[w] = "failed" /\ OnlyWholeFiles'
  BY DEF Unwind, Goto, TypeOK, OnlyWholeFiles
<1>2. Unsaved(w) \subseteq TempPaths
  <2>1. Saved(w) >= 0
    BY <1>1 DEF Position
  <2>2. \A i \in Saved(w) + 1 .. Len(staged[w]) : Temp(w, i) \in TempPaths
    BY <1>1, <2>1, TempInRange
  <2>3. QED
    BY <2>2 DEF Unsaved
<1>3. TypeOK'
  <2>1. temps' \in [TempPaths -> {"none", "stale", "partial", "whole"}]
    BY DEF Unwind, TypeOK
  <2>2. leaked' \in [Writers -> SUBSET TempPaths]
    BY <1>2 DEF Unwind, TypeOK
  <2>3. pc' \in [Writers -> Places]
    BY DEF Unwind, Goto, TypeOK, Places, Final
  <2>4. QED
    BY <2>1, <2>2, <2>3 DEF Unwind, TypeOK, plan
<1>4. QED
  BY <1>1, <1>3 DEF Position, StagedWhole

\* Other programs cannot forge a file of mempe.
LEMMA ElsewhereStep ==
  ASSUME IInv, Elsewhere
  PROVE  IInv'
<1>1. TypeOK'
  <2>1. \E p \in Paths, e \in EntryValues : entries' = [entries EXCEPT ![p] = e]
    BY DEF Elsewhere, EntryValues
  <2>2. entries' \in [Paths -> EntryValues]
    BY <2>1 DEF IInv, TypeOK
  <2>3. foreign' \in 0..MaxForeign
    BY ListsAssumption DEF IInv, Elsewhere, TypeOK
  <2>4. QED
    BY <2>2, <2>3 DEF IInv, Elsewhere, TypeOK, plan
<1>2. OnlyWholeFiles'
  <2>1. ASSUME NEW p \in Paths PROVE entries'[p] \in {entries[p], Absent, Foreign, Directory}
    BY DEF IInv, Elsewhere, TypeOK
  <2>2. \A e \in {Absent, Foreign, Directory} : e.kind # "output"
    BY DEF Absent, Foreign, Directory
  <2>3. QED
    BY <2>1, <2>2 DEF IInv, OnlyWholeFiles
<1>3. ASSUME NEW v \in Writers PROVE Position(v)' /\ StagedWhole(v)'
  <2>1. Same(v)
    BY DEF Elsewhere, Same, plan
  <2>2. QED
    BY <2>1, Frame DEF IInv
<1>4. QED
  BY <1>1, <1>2, <1>3 DEF IInv

\* Every step keeps the inductive invariant.
LEMMA NextIInv == IInv /\ [Next]_vars => IInv'
<1> SUFFICES ASSUME IInv, [Next]_vars PROVE IInv'
  OBVIOUS
<1>1. ASSUME NEW w \in Writers, Step(w) \/ Kill(w) PROVE IInv'
  <2>1. Kept(w)'
    BY <1>1, QuietSteps, BeginSteps, CreateStep, StageStep, RemoveStep, RenameStep,
       UnwindStep DEF Step
  <2>2. \A v \in Writers \ {w} : Position(v)' /\ StagedWhole(v)'
    BY <1>1, OthersKept
  <2>3. QED
    BY <2>1, <2>2 DEF Kept, IInv
<1>2. CASE Elsewhere
  BY <1>2, ElsewhereStep
<1>3. CASE UNCHANGED vars
  <2>1. TypeOK' /\ OnlyWholeFiles'
    BY <1>3 DEF IInv, TypeOK, OnlyWholeFiles, vars
  <2>2. ASSUME NEW v \in Writers PROVE Same(v)
    BY <1>3 DEF Same, vars
  <2>3. QED
    BY <2>1, <2>2, Frame DEF IInv
<1>4. QED
  BY <1>1, <1>2, <1>3 DEF Next

\* The inductive invariant holds in every state a run can reach.
LEMMA Invariance == Spec => []IInv
BY InitIInv, NextIInv, PTL DEF Spec

\* Every variable of output.rs's writer keeps its type in every behaviour, and no
\* list is indexed outside its bounds.
THEOREM TypeCorrect == Spec => []TypeOK
<1>1. IInv => TypeOK
  BY DEF IInv
<1>2. QED
  BY <1>1, Invariance, PTL

\* Whatever calls fail, whichever runs are killed and whatever other programs do,
\* a file of mempe that has its final name is complete: write_all stages every
\* file before it renames the first one.
THEOREM WholeFiles == Spec => []OnlyWholeFiles
<1>1. IInv => OnlyWholeFiles
  BY DEF IInv
<1>2. QED
  BY <1>1, Invariance, PTL

\* A run that exits as successful has renamed every file of its dump into place.
THEOREM SuccessMeansSaved == Spec => []DoneMeansSaved
<1>1. IInv => DoneMeansSaved
  BY DEF IInv, DoneMeansSaved, Position
<1>2. QED
  BY <1>1, Invariance, PTL

-----------------------------------------------------------------------------
\* The places from which a run can still drop what it staged.
Working == {"create", "stage", "look", "remove", "rename", "replace", "unwind"}

\* A temporary of run w that is in the folder is one it could not remove or one it
\* still has to rename or drop, unless the run was killed.
Tidy(w) ==
  \A t \in TempPaths :
    t[1] = w /\ temps[t] \in {"partial", "whole"} =>
      \/ t \in leaked[w]
      \/ pc[w] = "killed"
      \/ pc[w] \in Working /\ t \in Unsaved(w)

\* Another run's step leaves all this alone.
LEMMA OthersTidy ==
  ASSUME IInv, NEW w \in Writers, Step(w) \/ Kill(w), NEW v \in Writers \ {w}, Tidy(v)
  PROVE  Tidy(v)'
<1>1. Same(v)
  BY StepSame
<1>2. leaked'[v] = leaked[v]
  BY DEF IInv, TypeOK, Step, Kill, Refuse, Prepare, BeginBatch, ChooseDestination, CreateTemp,
     StageFile, Look, RemoveOld, RenameIntoPlace, AskFresh, Unwind, Return
<1>3. Unsaved(v)' = Unsaved(v)
  BY <1>1 DEF Same, Unsaved, Temp, Saved
<1>4. \A t \in TempPaths : t[1] = v => temps'[t] = temps[t]
  <2> SUFFICES ASSUME NEW t \in TempPaths, t[1] = v PROVE temps'[t] = temps[t]
    OBVIOUS
  <2>1. t = <<v, t[2], t[3]>>
    BY DEF TempPaths
  <2>2. QED
    BY <1>1, <2>1 DEF Same
<1>5. QED
  BY <1>1, <1>2, <1>3, <1>4 DEF Same, Tidy

\* The steps of run w that leave the folder's temporaries as they are.
LEMMA QuietTidy ==
  ASSUME IInv, NEW w \in Writers, Tidy(w),
         \/ Refuse(w) \/ Prepare(w) \/ BeginBatch(w) \/ ChooseDestination(w) \/ Look(w)
         \/ RemoveOld(w) \/ AskFresh(w) \/ Return(w) \/ Kill(w)
  PROVE  Tidy(w)'
<1>1. pc \in [Writers -> Places]
  BY DEF IInv, TypeOK
<1>2. temps' = temps /\ leaked' = leaked
  BY DEF Refuse, Prepare, BeginBatch, ChooseDestination, Look, RemoveOld, AskFresh, Return,
     Kill, disk
<1>3. CASE Look(w) \/ RemoveOld(w)
  <2>1. Unsaved(w)' = Unsaved(w)
    BY <1>3 DEF Look, RemoveOld, plan, Unsaved, Temp, Saved
  <2>2. pc[w] \in Working /\ pc'[w] \in Working
    BY <1>1, <1>3 DEF Look, RemoveOld, Goto, Working
  <2>3. QED
    BY <1>2, <2>1, <2>2 DEF Tidy, Working
<1>4. CASE Kill(w)
  <2>1. pc'[w] = "killed"
    BY <1>1, <1>4 DEF Kill, Goto
  <2>2. QED
    BY <2>1 DEF Tidy
<1>5. CASE Refuse(w) \/ Prepare(w) \/ BeginBatch(w) \/ ChooseDestination(w)
           \/ AskFresh(w) \/ Return(w)
  <2>1. pc[w] \notin Working /\ pc[w] # "killed"
    BY <1>5 DEF Refuse, Prepare, BeginBatch, ChooseDestination, AskFresh, Return, Working
  <2>2. QED
    BY <1>2, <2>1 DEF Tidy
<1>6. QED
  BY <1>3, <1>4, <1>5

\* A temporary joins the list with the call that creates it, and writing it keeps
\* it there.
LEMMA StagingTidy ==
  ASSUME IInv, NEW w \in Writers, Tidy(w), CreateTemp(w) \/ StageFile(w)
  PROVE  Tidy(w)'
<1>. USE RunFacts DEF Kept
<1>1. /\ pc \in [Writers -> Places] /\ temps \in [TempPaths -> {"none", "stale", "partial", "whole"}]
      /\ staged \in [Writers -> Seq(Attempts)] /\ Saved(w) = 0
  BY DEF TypeOK, Position, CreateTemp, StageFile
<1>2. leaked' = leaked /\ Saved(w)' = 0 /\ pc[w] # "killed"
  BY <1>1 DEF CreateTemp, StageFile, plan, Saved
<1>3. pc'[w] \in Working
  BY <1>1 DEF CreateTemp, StageFile, Goto, Working
<1>4. CASE CreateTemp(w)
  <2> DEFINE i == Len(staged[w]) + 1
  <2>1. CASE UNCHANGED <<temps, staged>>
    <3>1. Unsaved(w)' = Unsaved(w)
      BY <1>1, <1>2, <2>1 DEF Unsaved, Temp
    <3>2. QED
      BY <1>2, <1>3, <2>1, <3>1 DEF Tidy
  <2>2. ASSUME NEW a \in Attempts, temps' = [temps EXCEPT ![<<w, i, a>>] = "partial"],
               staged' = [staged EXCEPT ![w] = Append(@, a)]
        PROVE  Tidy(w)'
    <3>1. /\ staged'[w] = Append(staged[w], a)
          /\ Len(staged'[w]) = i /\ staged'[w][i] = a
          /\ \A j \in 1..Len(staged[w]) : staged'[w][j] = staged[w][j]
      BY <1>1, <2>2
    <3>2. <<w, i, a>> \in Unsaved(w)'
      <4>1. PICK j \in Nat : j = i
        BY <3>1, <1>1
      <4>2. <<w, j, a>> = Temp(w, j)'
        BY <3>1, <4>1 DEF Temp
      <4>3. j \in Saved(w)' + 1 .. Len(staged'[w])
        BY <1>2, <3>1, <4>1
      <4>4. Temp(w, j)' \in Unsaved(w)'
        BY <4>3 DEF Unsaved
      <4>5. QED
        BY <4>1, <4>2, <4>4
    <3>3. Unsaved(w) \subseteq Unsaved(w)'
      <4> SUFFICES ASSUME NEW j \in 1..Len(staged[w]) PROVE Temp(w, j) \in Unsaved(w)'
        BY <1>1 DEF Unsaved
      <4>1. Temp(w, j)' = Temp(w, j)
        BY <3>1 DEF Temp
      <4>2. j \in Saved(w)' + 1 .. Len(staged'[w])
        BY <1>2, <3>1
      <4>3. QED
        BY <4>1, <4>2 DEF Unsaved
    <3>4. \A t \in TempPaths : t = <<w, i, a>> \/ temps'[t] = temps[t]
      BY <1>1, <2>2
    <3>5. QED
      BY <1>2, <1>3, <3>2, <3>3, <3>4 DEF Tidy
  <2>3. QED
    BY <1>4, <2>1, <2>2 DEF CreateTemp, FreeAttempts
<1>5. CASE StageFile(w)
  <2>1. Unsaved(w)' = Unsaved(w)
    BY <1>1, <1>2, <1>5 DEF StageFile, Unsaved, Temp
  <2>2. Len(staged[w]) \in 1..Len(staged[w])
    BY <1>5 DEF StageFile, Position
  <2>3. Temp(w, Len(staged[w])) \in Unsaved(w)
    <3>1. \A j \in Saved(w) + 1 .. Len(staged[w]) : Temp(w, j) \in Unsaved(w)
      BY DEF Unsaved
    <3>2. Len(staged[w]) \in Saved(w) + 1 .. Len(staged[w])
      BY <1>1, <2>2
    <3>3. QED
      BY <3>1, <3>2
  <2>4. \A t \in TempPaths : t = Temp(w, Len(staged[w])) \/ temps'[t] = temps[t]
    BY <1>1, <1>5 DEF StageFile
  <2>5. QED
    BY <1>2, <1>3, <2>1, <2>3, <2>4 DEF Tidy
<1>6. QED
  BY <1>4, <1>5

\* The temporary renamed is gone from the folder and from the list at once.
LEMMA RenameTidy ==
  ASSUME IInv, NEW w \in Writers, Tidy(w), RenameIntoPlace(w)
  PROVE  Tidy(w)'
<1>. USE RunFacts DEF Kept
<1> DEFINE i == Saved(w) + 1
           t == Temp(w, i)
<1>1. /\ pc \in [Writers -> Places] /\ temps \in [TempPaths -> {"none", "stale", "partial", "whole"}]
      /\ written \in [Writers -> Seq(Paths)]
      /\ pc[w] \in {"rename", "replace"} /\ leaked' = leaked /\ staged' = staged
      /\ batch' = batch /\ dump' = dump
      /\ Len(staged[w]) = Len(List(w)) /\ Saved(w) \in 0..Len(List(w)) - 1
  BY DEF TypeOK, Position, RenameIntoPlace, plan
<1>2. CASE pc' = [pc EXCEPT ![w] = "unwind"] /\ UNCHANGED <<entries, temps, written>>
  <2>1. pc'[w] \in Working /\ pc[w] \in Working
    BY <1>1, <1>2 DEF Working
  <2>2. Unsaved(w)' = Unsaved(w)
    BY <1>1, <1>2 DEF Unsaved, Temp, Saved
  <2>3. QED
    BY <1>1, <1>2, <2>1, <2>2 DEF Tidy
<1>3. CASE /\ temps' = [temps EXCEPT ![t] = "none"]
           /\ written' = [written EXCEPT ![w] = Append(@, Target(w))]
           /\ pc' = [pc EXCEPT ![w] = IF i = Len(List(w)) THEN AfterBatch(w) ELSE "look"]
  <2>1. Len(written'[w]) = Len(written[w]) + 1
    BY <1>1, <1>3
  <2>2. Saved(w)' = i
    BY <1>1, <2>1 DEF Saved
  <2>3. \A p \in TempPaths : temps'[p] = IF p = t THEN "none" ELSE temps[p]
    BY <1>1, <1>3
  <2>4. \A p \in Unsaved(w) : p = t \/ p \in Unsaved(w)'
    <3> SUFFICES ASSUME NEW j \in i..Len(staged[w]), Temp(w, j) # t
                 PROVE  Temp(w, j) \in Unsaved(w)'
      BY DEF Unsaved
    <3>1. j \in i + 1 .. Len(staged[w])
      BY <1>1
    <3>2. Temp(w, j)' = Temp(w, j)
      BY <1>1 DEF Temp
    <3>3. QED
      BY <1>1, <2>2, <3>1, <3>2 DEF Unsaved
  <2>5. CASE i # Len(List(w))
    <3>1. pc'[w] \in Working
      BY <1>1, <1>3, <2>5 DEF Working
    <3>2. QED
      BY <1>1, <2>3, <2>4, <3>1 DEF Tidy
  <2>6. CASE i = Len(List(w))
    <3>1. \A p \in Unsaved(w) : p = t
      <4>1. \A j \in i .. Len(staged[w]) : j = i
        BY <1>1, <2>6
      <4>2. QED
        BY <4>1 DEF Unsaved
    <3>2. QED
      BY <1>1, <2>3, <3>1 DEF Tidy
  <2>7. QED
    BY <2>5, <2>6
<1>4. QED
  BY <1>2, <1>3 DEF RenameIntoPlace, Goto

\* On an error everything still listed is removed, or recorded as not removable.
LEMMA UnwindTidy ==
  ASSUME IInv, NEW w \in Writers, Tidy(w), Unwind(w)
  PROVE  Tidy(w)'
<1>1. TypeOK
  BY DEF IInv
<1>2. PICK kept \in SUBSET Unsaved(w) :
        /\ temps' = [t \in TempPaths |-> IF t \in Unsaved(w) \ kept THEN "none" ELSE temps[t]]
        /\ leaked' = [leaked EXCEPT ![w] = @ \cup kept]
  BY DEF Unwind
<1>3. leaked'[w] = leaked[w] \cup kept /\ pc[w] = "unwind"
  BY <1>1, <1>2 DEF TypeOK, Unwind
<1>4. \A t \in TempPaths : temps'[t] \in {"partial", "whole"} =>
        temps'[t] = temps[t] /\ t \notin Unsaved(w) \ kept
  BY <1>2
<1>5. QED
  BY <1>3, <1>4 DEF Tidy

\* Every run keeps track of its temporaries through every step.
LEMMA NextTidy ==
  ASSUME IInv, \A w \in Writers : Tidy(w), [Next]_vars
  PROVE  \A w \in Writers : Tidy(w)'
<1>1. ASSUME NEW w \in Writers, Step(w) \/ Kill(w), NEW v \in Writers
      PROVE  Tidy(v)'
  <2>1. CASE v # w
    BY <1>1, <2>1, OthersTidy
  <2>2. CASE v = w
    BY <1>1, <2>2, QuietTidy, StagingTidy, RenameTidy, UnwindTidy DEF Step
  <2>3. QED
    BY <2>1, <2>2
<1>2. CASE Elsewhere
  BY <1>2 DEF Elsewhere, plan, Tidy, Unsaved, Temp, Saved
<1>3. CASE UNCHANGED vars
  BY <1>3 DEF vars, Tidy, Unsaved, Temp, Saved
<1>4. QED
  BY <1>1, <1>2, <1>3 DEF Next

\* However a run ends by itself, the temporaries it leaves in the folder are those
\* whose removal failed: none is forgotten on the way out of write_all.
THEOREM TempsAreDropped == Spec => []NoStrayTemps
<1> DEFINE AllTidy == \A w \in Writers : Tidy(w)
<1>1. Init => AllTidy
  <2>1. Init => \A t \in TempPaths : temps[t] \in {"none", "stale"}
    BY DEF Init
  <2>2. QED
    BY <2>1 DEF Tidy
<1>2. IInv /\ AllTidy /\ [Next]_vars => AllTidy'
  BY NextTidy
<1>3. AllTidy => NoStrayTemps
  <2>1. \A t \in TempPaths : t[1] \in Writers
    BY DEF TempPaths
  <2>2. QED
    BY <2>1 DEF Tidy, NoStrayTemps, Working
<1>4. QED
  BY <1>1, <1>2, <1>3, Invariance, PTL DEF Spec

-----------------------------------------------------------------------------
\* "used" keeps the keys of a batch distinct.
KeysDistinct ==
  \A w \in Writers : \A i, j \in 1..Len(dest[w]) :
    i # j => AsciiKey[dest[w][i]] # AsciiKey[dest[w][j]]

\* Within a batch the keys of the chosen destinations are distinct: an
\* inductive invariant of its own.
LEMMA KeysInductive ==
  ASSUME TypeOK, TypeOK', KeysDistinct, [Next]_vars
  PROVE  KeysDistinct'
<1> SUFFICES ASSUME NEW v \in Writers, NEW i \in 1..Len(dest'[v]),
                    NEW j \in 1..Len(dest'[v]), i # j
             PROVE  AsciiKey[dest'[v][i]] # AsciiKey[dest'[v][j]]
  BY DEF KeysDistinct
<1>1. CASE dest'[v] = dest[v]
  BY <1>1 DEF KeysDistinct
<1>2. CASE dest'[v] = << >>
  BY <1>2
<1>3. ASSUME NEW c \in Names, dest'[v] = Append(dest[v], c), AsciiKey[c] \notin Used(v)
      PROVE  AsciiKey[dest'[v][i]] # AsciiKey[dest'[v][j]]
  <2>1. dest[v] \in Seq(Names) /\ Len(dest[v]) \in Nat
    BY DEF TypeOK
  <2>2. /\ Len(dest'[v]) = Len(dest[v]) + 1
        /\ dest'[v][Len(dest[v]) + 1] = c
        /\ \A k \in 1..Len(dest[v]) : dest'[v][k] = dest[v][k]
    BY <1>3, <2>1
  <2>3. \A k \in 1..Len(dest[v]) : AsciiKey[dest[v][k]] # AsciiKey[c]
    BY <1>3 DEF Used
  <2>4. CASE i \in 1..Len(dest[v]) /\ j \in 1..Len(dest[v])
    BY <2>2, <2>4 DEF KeysDistinct
  <2>5. CASE i = Len(dest[v]) + 1
    <3>1. j \in 1..Len(dest[v])
      BY <2>1, <2>2, <2>5
    <3>2. QED
      BY <2>2, <2>3, <2>5, <3>1
  <2>6. CASE j = Len(dest[v]) + 1
    <3>1. i \in 1..Len(dest[v])
      BY <2>1, <2>2, <2>6
    <3>2. QED
      BY <2>2, <2>3, <2>6, <3>1
  <2>7. QED
    BY <2>1, <2>2, <2>4, <2>5, <2>6
<1>4. \/ dest'[v] = dest[v]
      \/ dest'[v] = << >>
      \/ \E c \in Names : dest'[v] = Append(dest[v], c) /\ AsciiKey[c] \notin Used(v)
  <2>1. ASSUME NEW w \in Writers, BeginBatch(w)
        PROVE  dest'[v] \in {dest[v], << >>}
    BY <2>1 DEF BeginBatch, TypeOK
  <2>2. ASSUME NEW w \in Writers, ChooseDestination(w)
        PROVE  \/ dest'[v] = dest[v]
               \/ \E c \in Names : dest'[v] = Append(dest[v], c) /\ AsciiKey[c] \notin Used(v)
    <3> DEFINE c == Candidate[List(w)[Len(dest[w]) + 1]][suffix[w]]
    <3>1. \/ dest' = dest
          \/ dest' = [dest EXCEPT ![w] = Append(@, c)] /\ ~ Taken(w, c)
      BY <2>2 DEF ChooseDestination
    <3>2. CASE dest' = dest
      BY <3>2
    <3>3. CASE dest' = [dest EXCEPT ![w] = Append(@, c)] /\ ~ Taken(w, c)
      <4>1. CASE v # w
        BY <3>3, <4>1 DEF TypeOK
      <4>2. CASE v = w
        <5>1. dest'[v] = Append(dest[v], c) /\ AsciiKey[c] \notin Used(v)
          BY <3>3, <4>2 DEF Taken, TypeOK
        <5>2. dest[v] \in Seq(Names) /\ dest'[v] \in Seq(Names)
          BY DEF TypeOK
        <5>3. dest'[v][Len(dest[v]) + 1] = c /\ Len(dest'[v]) = Len(dest[v]) + 1
          BY <5>1, <5>2
        <5>4. c \in Names
          BY <5>2, <5>3
        <5>5. QED
          BY <5>1, <5>4
      <4>3. QED
        BY <4>1, <4>2
    <3>4. QED
      BY <3>1, <3>2, <3>3
  <2>3. CASE dest' = dest
    BY <2>3
  <2>4. QED
    BY <2>1, <2>2, <2>3 DEF Next, Step, Kill, Elsewhere, Refuse, Prepare, CreateTemp,
       StageFile, Look, RemoveOld, RenameIntoPlace, AskFresh, Unwind, Return, vars
<1>5. QED
  BY <1>1, <1>2, <1>3, <1>4

\* Two files of a batch get the same directory entry only under names that differ
\* outside of ASCII, for any runs, names and attempts.
THEOREM DistinctDestinations == Spec => []DestinationsDistinct
<1>1. Init => KeysDistinct
  BY DEF Init, KeysDistinct
<1>2. TypeOK /\ TypeOK' /\ KeysDistinct /\ [Next]_vars => KeysDistinct'
  BY KeysInductive
<1>3. KeysDistinct => DestinationsDistinct
  BY DEF KeysDistinct, DestinationsDistinct
<1>4. QED
  BY <1>1, <1>2, <1>3, TypeCorrect, PTL DEF Spec

-----------------------------------------------------------------------------
(***************************************************************************)
(* What a run finds in an entry it has chosen.  Other runs and programs    *)
(* may fill it between the look and the rename, but with files of their    *)
(* own: what was there before the runs, and what this run saved, never     *)
(* comes back once it is gone.                                             *)
(***************************************************************************)

\* A batch has destinations from here on.
Saving == {"destination", "create", "stage", "look", "remove", "rename", "replace"}

\* How many files the batches before this one saved.
Before(w) == IF batch[w] = "dump" THEN 0 ELSE Len(dump[w])

\* What a batch must not spoil: old files, and the files of the batch before.
Precious(w) == {Old} \cup {Output(w, k, TRUE) : k \in 1..Before(w)}

\* Under Rename the destinations still to be filled hold nothing precious.
Avoids(w) ==
  policy[w] = "rename" /\ pc[w] \in Saving =>
    \A i \in 1..Len(dest[w]) :
      i > Saved(w) => entries[PathOf[dest[w][i]]] \notin Precious(w)

\* The files of the batch at hand are saved at its first destinations.
Follows(w) ==
  pc[w] \in Saving =>
    \A i \in 1..Len(dest[w]) :
      i <= Saved(w) => written[w][Before(w) + i] = PathOf[dest[w][i]]

\* What a rename that succeeds does to the entries and to the list of saved files.
LEMMA RenameEffect ==
  ASSUME IInv, NEW w \in Writers, RenameIntoPlace(w), ~ UNCHANGED <<entries, temps, written>>
  PROVE  /\ Target(w) \in Paths
         /\ entries' = [entries EXCEPT ![Target(w)] = Output(w, Len(written[w]) + 1, TRUE)]
         /\ Len(written'[w]) = Len(written[w]) + 1
         /\ written'[w][Len(written[w]) + 1] = Target(w)
         /\ \A k \in 1..Len(written[w]) : written'[w][k] = written[w][k]
         /\ Saved(w)' = Saved(w) + 1
<1>. USE RunFacts DEF Kept
<1> DEFINE t == Temp(w, Saved(w) + 1)
<1>1. /\ entries' = [entries EXCEPT ![Target(w)] = Output(w, Len(written[w]) + 1, temps[t] = "whole")]
      /\ written' = [written EXCEPT ![w] = Append(@, Target(w))]
      /\ pc[w] \in {"rename", "replace"}
      /\ batch' = batch /\ dump' = dump
  BY DEF RenameIntoPlace, plan
<1>2. Target(w) \in Paths /\ written \in [Writers -> Seq(Paths)]
  BY <1>1, TargetInPaths DEF TypeOK
<1>3. written'[w] = Append(written[w], Target(w))
  BY <1>1, <1>2
<1>4. temps[t] = "whole"
  <2>1. Saved(w) + 1 \in Saved(w) + 1 .. Len(staged[w])
    BY <1>1 DEF Position
  <2>2. QED
    BY <1>1, <2>1 DEF StagedWhole
<1>5. (temps[t] = "whole") = TRUE
  BY <1>4
<1>6. entries' = [entries EXCEPT ![Target(w)] = Output(w, Len(written[w]) + 1, TRUE)]
  BY <1>1, <1>5, Zenon
<1>7. /\ Len(written'[w]) = Len(written[w]) + 1
      /\ written'[w][Len(written[w]) + 1] = Target(w)
      /\ \A k \in 1..Len(written[w]) : written'[w][k] = written[w][k]
  BY <1>2, <1>3
<1>8. Saved(w)' = Saved(w) + 1
  BY <1>1, <1>7 DEF Saved
<1>9. QED
  BY <1>2, <1>6, <1>7, <1>8

\* How many files are saved, by batch.
LEMMA SavedFacts ==
  ASSUME IInv, NEW w \in Writers
  PROVE  /\ Before(w) \in Nat
         /\ Len(written[w]) = Before(w) + Saved(w)
         /\ pc[w] \in Saving => Saved(w) \in Nat
<1>1. Before(w) \in Nat /\ Saved(w) = Len(written[w]) - Before(w)
  BY RunFacts DEF Before, Saved
<1>2. pc[w] \in Saving => Saved(w) \in Nat
  BY RunFacts DEF Saving, Kept, Position
<1>3. QED
  BY <1>1, <1>2, RunFacts

\* A step changes an entry to nothing, to something of another program's, or to the
\* next file of the run that takes it.
LEMMA EntriesStep ==
  ASSUME IInv, [Next]_vars, NEW p \in Paths
  PROVE  \/ entries'[p] \in {entries[p], Absent, Foreign, Directory}
         \/ \E v \in Writers : entries'[p] = Output(v, Len(written[v]) + 1, TRUE)
<1>1. entries \in [Paths -> EntryValues]
  BY DEF IInv, TypeOK
<1>2. ASSUME NEW v \in Writers, RenameIntoPlace(v), entries' # entries
      PROVE  entries'[p] \in {entries[p], Output(v, Len(written[v]) + 1, TRUE)}
  <2>1. entries' = [entries EXCEPT ![Target(v)] = Output(v, Len(written[v]) + 1, TRUE)]
    BY <1>2, RenameEffect
  <2>2. QED
    BY <1>1, <2>1
<1>3. ASSUME NEW v \in Writers, RemoveOld(v)
      PROVE  entries'[p] \in {entries[p], Absent}
  BY <1>1, <1>3 DEF RemoveOld
<1>4. CASE Elsewhere
  BY <1>1, <1>4 DEF Elsewhere
<1>5. CASE entries' = entries
  BY <1>5
<1>6. QED
  BY <1>2, <1>3, <1>4, <1>5 DEF Next, Step, Kill, Refuse, Prepare, BeginBatch,
     ChooseDestination, CreateTemp, StageFile, Look, AskFresh, Unwind, Return, vars, disk

\* Neither nothing nor what other programs write is precious.
LEMMA OthersAreNotPrecious ==
  ASSUME NEW w \in Writers
  PROVE  Absent \notin Precious(w) /\ Foreign \notin Precious(w) /\ Directory \notin Precious(w)
<1>1. Absent.kind = "absent" /\ Foreign.kind = "foreign" /\ Directory.kind = "directory"
  BY DEF Absent, Foreign, Directory
<1>2. \A e \in Precious(w) : e.kind \in {"old", "output"}
  BY DEF Precious, Old, Output
<1>3. QED
  BY <1>1, <1>2

\* What is precious to a batch cannot appear in an entry: only a file that is still
\* there is precious after the step.
LEMMA NothingComesBack ==
  ASSUME IInv, [Next]_vars, NEW w \in Writers, NEW p \in Paths,
         pc[w] \in Saving, entries'[p] \in Precious(w)
  PROVE  entries'[p] = entries[p]
<1>1. Absent \notin Precious(w) /\ Foreign \notin Precious(w) /\ Directory \notin Precious(w)
  BY OthersAreNotPrecious
<1>2. ASSUME NEW v \in Writers, entries'[p] = Output(v, Len(written[v]) + 1, TRUE)
      PROVE  FALSE
  <2>1. PICK k \in 1..Before(w) : Output(v, Len(written[v]) + 1, TRUE) = Output(w, k, TRUE)
    <3>1. Output(v, Len(written[v]) + 1, TRUE).kind = "output" /\ Old.kind = "old"
      BY DEF Output, Old
    <3>2. Output(v, Len(written[v]) + 1, TRUE) \in Precious(w)
      BY <1>2
    <3>3. QED
      BY <3>1, <3>2, Zenon DEF Precious
  <2>2. v = w /\ Len(written[v]) + 1 = k
    BY <2>1 DEF Output
  <2>3. Len(written[w]) >= Before(w) /\ Before(w) \in Nat /\ Len(written[w]) \in Nat
    BY SavedFacts, RunFacts
  <2>4. QED
    BY <2>2, <2>3
<1>3. QED
  BY <1>1, <1>2, EntriesStep

\* A step that leaves the destinations alone.
LEMMA SameDestinations ==
  ASSUME IInv, [Next]_vars, NEW w \in Writers, Avoids(w), Follows(w),
         dest'[w] = dest[w], batch'[w] = batch[w], dump'[w] = dump[w], policy'[w] = policy[w],
         written'[w] = written[w], pc'[w] \in Saving => pc[w] \in Saving
  PROVE  Avoids(w)' /\ Follows(w)'
<1>1. Saved(w)' = Saved(w) /\ Before(w)' = Before(w) /\ Precious(w)' = Precious(w)
  BY DEF Saved, Before, Precious
<1>2. ASSUME policy[w] = "rename", pc'[w] \in Saving, NEW i \in 1..Len(dest[w]), i > Saved(w)
      PROVE  entries'[PathOf[dest[w][i]]] \notin Precious(w)
  <2>1. PathOf[dest[w][i]] \in Paths
    BY RunFacts, NamingAssumption
  <2>2. entries[PathOf[dest[w][i]]] \notin Precious(w)
    BY <1>2 DEF Avoids
  <2>3. QED
    BY <1>2, <2>1, <2>2, NothingComesBack
<1>3. QED
  BY <1>1, <1>2 DEF Avoids, Follows

\* What a step of another run, of another program or of no one leaves alone.
LEMMA OthersSaving ==
  ASSUME IInv, [Next]_vars, NEW w \in Writers, ~ (Step(w) \/ Kill(w))
  PROVE  Same(w)
<1>1. ASSUME NEW v \in Writers, Step(v) \/ Kill(v)
      PROVE  Same(w)
  BY <1>1, StepSame
<1>2. CASE Elsewhere \/ UNCHANGED vars
  BY <1>2 DEF Elsewhere, Same, plan, vars
<1>3. QED
  BY <1>1, <1>2 DEF Next

\* A new batch has no destinations yet, and none are kept between batches.
LEMMA BatchSaving ==
  ASSUME IInv, NEW w \in Writers, Prepare(w) \/ BeginBatch(w) \/ AskFresh(w)
  PROVE  Avoids(w)' /\ Follows(w)'
<1>1. pc \in [Writers -> Places] /\ dest \in [Writers -> Seq(Names)]
  BY DEF IInv, TypeOK
<1>2. CASE Prepare(w) \/ AskFresh(w)
  <2>1. pc'[w] \notin Saving
    BY <1>1, <1>2 DEF Prepare, AskFresh, Goto, Saving
  <2>2. QED
    BY <2>1 DEF Avoids, Follows
<1>3. CASE BeginBatch(w)
  <2>1. dest'[w] = << >>
    BY <1>1, <1>3 DEF BeginBatch
  <2>2. 1..Len(dest'[w]) = {}
    BY <2>1
  <2>3. QED
    BY <2>2 DEF Avoids, Follows
<1>4. QED
  BY <1>2, <1>3

\* Under Rename a destination is chosen only if the folder has no such entry.
LEMMA ChooseSaving ==
  ASSUME IInv, [Next]_vars, NEW w \in Writers, Avoids(w), Follows(w), ChooseDestination(w)
  PROVE  Avoids(w)' /\ Follows(w)'
<1>. USE RunFacts DEF Kept
<1> DEFINE n == Len(dest[w]) + 1
           candidate == Candidate[List(w)[n]][suffix[w]]
<1>1. /\ pc[w] = "destination" /\ Saved(w) = 0 /\ n \in 1..Len(List(w))
      /\ pc \in [Writers -> Places] /\ dest \in [Writers -> Seq(Names)]
      /\ suffix[w] \in 1..MaxNameAttempts
  BY SMTT(30) DEF ChooseDestination, Position, TypeOK
<1>2. /\ UNCHANGED <<entries, written, batch, dump, fresh, policy>>
      /\ Saved(w)' = Saved(w) /\ Precious(w)' = Precious(w)
  BY DEF ChooseDestination, disk, plan, Saved, Precious, Before
<1>3. CASE dest' = dest
  BY <1>1, <1>2, <1>3, SameDestinations DEF Saving
<1>4. CASE dest' = [dest EXCEPT ![w] = Append(@, candidate)] /\ ~ Taken(w, candidate)
  <2>1. candidate \in Names
    BY <1>1, NamingAssumption
  <2>2. /\ Len(dest'[w]) = n /\ dest'[w][n] = candidate
        /\ \A i \in 1..Len(dest[w]) : dest'[w][i] = dest[w][i]
    BY <1>1, <1>4, <2>1
  <2>3. policy[w] = "rename" => entries[PathOf[candidate]] \notin Precious(w)
    <3>1. policy[w] = "rename" => entries[PathOf[candidate]] = Absent
      BY <1>4 DEF Taken
    <3>2. QED
      BY <3>1, OthersAreNotPrecious
  <2>4. \A i \in 1..Len(dest'[w]) : i \in 1..Len(dest[w]) \/ i = n
    BY <2>2
  <2>5. policy[w] = "rename" =>
          \A i \in 1..Len(dest[w]) : entries[PathOf[dest[w][i]]] \notin Precious(w)
    BY <1>1 DEF Avoids, Saving
  <2> HIDE DEF n, candidate
  <2>6. Avoids(w)'
    <3> SUFFICES ASSUME policy[w] = "rename", NEW i \in 1..Len(dest'[w])
                 PROVE  entries[PathOf[dest'[w][i]]] \notin Precious(w)
      BY <1>2 DEF Avoids
    <3>1. QED
      BY <2>2, <2>3, <2>4, <2>5
  <2>7. Follows(w)'
    <3>1. \A i \in 1..Len(dest'[w]) : ~ (i <= Saved(w)')
      BY <1>1, <1>2
    <3>2. QED
      BY <3>1 DEF Follows
  <2>8. QED
    BY <2>6, <2>7
<1>5. QED
  BY <1>3, <1>4 DEF ChooseDestination

\* A file renamed into place is the next one of its batch.
LEMMA RenameSaving ==
  ASSUME IInv, [Next]_vars, NEW w \in Writers, Avoids(w), Follows(w), RenameIntoPlace(w)
  PROVE  Avoids(w)' /\ Follows(w)'
<1>. USE RunFacts DEF Kept
<1>1. /\ UNCHANGED <<batch, dump, fresh, dest, policy>> /\ pc[w] \in Saving
      /\ Saved(w) \in Nat /\ Saved(w) + 1 \in 1..Len(dest[w])
      /\ Precious(w)' = Precious(w) /\ Before(w)' = Before(w)
  BY DEF RenameIntoPlace, plan, Position, Precious, Before, Saving
<1>2. CASE UNCHANGED <<entries, temps, written>>
  BY <1>1, <1>2, SameDestinations
<1>3. CASE ~ UNCHANGED <<entries, temps, written>>
  <2>1. /\ written'[w][Len(written[w]) + 1] = Target(w)
        /\ \A k \in 1..Len(written[w]) : written'[w][k] = written[w][k]
        /\ Saved(w)' = Saved(w) + 1
    BY <1>3, RenameEffect
  <2>2. /\ Len(written[w]) = Before(w) + Saved(w)
        /\ Before(w) \in Nat /\ Saved(w) \in Nat /\ Len(dest[w]) \in Nat
    BY <1>1, SavedFacts
  <2>3. Avoids(w)'
    <3> SUFFICES ASSUME policy[w] = "rename", NEW i \in 1..Len(dest[w]), i > Saved(w)'
                 PROVE  entries'[PathOf[dest[w][i]]] \notin Precious(w)
      BY <1>1 DEF Avoids
    <3>1. i > Saved(w)
      BY <2>1, <2>2
    <3>2. entries[PathOf[dest[w][i]]] \notin Precious(w)
      BY <1>1, <3>1 DEF Avoids
    <3>3. PathOf[dest[w][i]] \in Paths
      BY NamingAssumption
    <3>4. QED
      BY <1>1, <3>2, <3>3, NothingComesBack
  <2>4. ASSUME NEW i \in 1..Len(dest[w]), i <= Saved(w) + 1
        PROVE  written'[w][Before(w) + i] = PathOf[dest[w][i]]
    <3>1. CASE i = Saved(w) + 1
      <4>1. Before(w) + i = Len(written[w]) + 1
        BY <2>2, <3>1
      <4>2. QED
        BY <2>1, <3>1, <4>1 DEF Target
    <3>2. CASE i <= Saved(w)
      <4>1. Before(w) + i \in 1..Len(written[w])
        BY <2>2, <3>2
      <4>2. written[w][Before(w) + i] = PathOf[dest[w][i]]
        BY <1>1, <3>2 DEF Follows
      <4>3. QED
        BY <2>1, <4>1, <4>2
    <3>3. QED
      BY <2>2, <2>4, <3>1, <3>2
  <2>5. Follows(w)'
    BY <1>1, <2>1, <2>4 DEF Follows
  <2>6. QED
    BY <2>3, <2>5
<1>4. QED
  BY <1>2, <1>3

\* Both facts about every run, and that they are kept by every step.
SavingInv == \A w \in Writers : Avoids(w) /\ Follows(w)

LEMMA NextSaving ==
  ASSUME IInv, SavingInv, [Next]_vars
  PROVE  SavingInv'
<1> SUFFICES ASSUME NEW w \in Writers PROVE Avoids(w)' /\ Follows(w)'
  BY DEF SavingInv
<1>1. Avoids(w) /\ Follows(w)
  BY DEF SavingInv
<1>2. CASE ~ (Step(w) \/ Kill(w))
  BY <1>1, <1>2, OthersSaving, SameDestinations DEF Same
<1>3. ASSUME Refuse(w) \/ CreateTemp(w) \/ StageFile(w) \/ Look(w) \/ RemoveOld(w) \/ Unwind(w)
             \/ Return(w) \/ Kill(w)
      PROVE  Avoids(w)' /\ Follows(w)'
  <2>1. pc \in [Writers -> Places]
    BY DEF IInv, TypeOK
  <2>2. UNCHANGED <<written, batch, dump, dest, policy>>
    BY <1>3 DEF Refuse, CreateTemp, StageFile, Look, RemoveOld, Unwind, Return, Kill, plan
  <2>3. pc'[w] \in Saving => pc[w] \in Saving
    <3>1. CASE Refuse(w) \/ Unwind(w) \/ Return(w) \/ Kill(w)
      BY <2>1, <3>1 DEF Refuse, Unwind, Return, Kill, Goto, Saving
    <3>2. CASE CreateTemp(w) \/ StageFile(w) \/ Look(w) \/ RemoveOld(w)
      BY <3>2 DEF CreateTemp, StageFile, Look, RemoveOld, Saving
    <3>3. QED
      BY <1>3, <3>1, <3>2
  <2>4. QED
    BY <1>1, <2>2, <2>3, SameDestinations
<1>4. QED
  BY <1>1, <1>2, <1>3, BatchSaving, ChooseSaving, RenameSaving DEF Step

LEMMA SavingInvariance == Spec => []SavingInv
<1>1. Init => SavingInv
  BY DEF Init, SavingInv, Avoids, Follows, Saving
<1>2. IInv /\ SavingInv /\ [Next]_vars => SavingInv'
  BY NextSaving
<1>3. QED
  BY <1>1, <1>2, Invariance, PTL DEF Spec

\* An entry that a run's own step changes is the next destination of its batch; under
\* Rename it held nothing precious.
LEMMA OwnChange ==
  ASSUME IInv, SavingInv, [Next]_vars, NEW w \in Writers, pc'[w] # pc[w],
         NEW p \in Paths, entries'[p] # entries[p]
  PROVE  /\ pc[w] \in {"remove", "rename", "replace"}
         /\ p = Target(w)
         /\ Saved(w) + 1 \in 1..Len(dest[w])
         /\ policy[w] = "rename" => entries[p] \notin Precious(w)
<1>1. Step(w) \/ Kill(w)
  BY OthersSaving DEF Same
<1>2. entries \in [Paths -> EntryValues]
  BY DEF IInv, TypeOK
<1>3. RemoveOld(w) \/ RenameIntoPlace(w)
  BY <1>1 DEF Step, Kill, Refuse, Prepare, BeginBatch, ChooseDestination, CreateTemp,
     StageFile, Look, AskFresh, Unwind, Return, disk
<1>4. p = Target(w)
  <2>1. CASE RemoveOld(w)
    BY <1>2, <2>1 DEF RemoveOld
  <2>2. CASE RenameIntoPlace(w)
    <3>1. entries' = [entries EXCEPT ![Target(w)] = Output(w, Len(written[w]) + 1, TRUE)]
      BY <2>2, RenameEffect
    <3>2. QED
      BY <1>2, <3>1
  <2>3. QED
    BY <1>3, <2>1, <2>2
<1>5. /\ pc[w] \in {"remove", "rename", "replace"} /\ Saved(w) \in Nat
      /\ Saved(w) + 1 \in 1..Len(dest[w])
  BY <1>3, RunFacts DEF Kept, Position, RemoveOld, RenameIntoPlace
<1>6. policy[w] = "rename" => entries[p] \notin Precious(w)
  <2>1. Saved(w) + 1 > Saved(w)
    BY <1>5
  <2>2. QED
    BY <1>4, <1>5, <2>1 DEF SavingInv, Avoids, Saving, Target
<1>7. QED
  BY <1>4, <1>5, <1>6

\* Under Rename no step of a run changes an entry that holds a file from before the
\* runs, however many runs and other programs act between its look and its rename.
THEOREM OldFilesKept == Spec => RenameKeepsOld
<1>1. IInv /\ SavingInv /\ [Next]_vars =>
        [\A w \in Writers : policy[w] = "rename" /\ pc'[w] # pc[w] =>
           \A p \in Paths : entries[p] = Old => entries'[p] = Old]_vars
  BY OwnChange DEF Precious
<1>2. QED
  BY <1>1, Invariance, SavingInvariance, PTL DEF Spec, RenameKeepsOld

\* A run spoils a file it saved itself only in the two ways that are named: names that
\* only the file system folds alike, and fresh copies under Overwrite.
THEOREM SavedFilesKept == Spec => SavedFilesStay
<1>1. IInv /\ KeysDistinct /\ SavingInv /\ [Next]_vars =>
        [\A w \in Writers : pc'[w] # pc[w] => \A k \in 1..Len(written[w]) :
           Spoils(w, k) => \/ FoldedApart(w, written[w][k])
                           \/ /\ policy[w] = "overwrite"
                              /\ batch[w] = "fresh" /\ k <= Len(dump[w])]_vars
  <2> SUFFICES ASSUME IInv, KeysDistinct, SavingInv, [Next]_vars, NEW w \in Writers,
                      pc'[w] # pc[w], NEW k \in 1..Len(written[w]), Spoils(w, k)
               PROVE  \/ FoldedApart(w, written[w][k])
                      \/ /\ policy[w] = "overwrite"
                         /\ batch[w] = "fresh" /\ k <= Len(dump[w])
    BY Zenon
  <2> DEFINE p == written[w][k]
             n == Saved(w) + 1
  <2>0. entries[p] = Output(w, k, TRUE) /\ entries'[p] # entries[p]
    BY DEF Spoils
  <2>1. p \in Paths /\ Len(dest[w]) \in Nat /\ Len(written[w]) \in Nat
    BY RunFacts
  <2>2. /\ pc[w] \in {"remove", "rename", "replace"} /\ p = Target(w) /\ n \in 1..Len(dest[w])
        /\ policy[w] = "rename" => entries[p] \notin Precious(w)
    BY <2>0, <2>1, OwnChange
  <2>3. /\ Before(w) \in Nat /\ Saved(w) \in Nat /\ Len(written[w]) = Before(w) + Saved(w)
    BY <2>2, SavedFacts DEF Saving
  <2>4. CASE k <= Before(w)
    <3>1. entries[p] \in Precious(w)
      <4>1. k \in 1..Before(w)
        BY <2>1, <2>3, <2>4
      <4>2. QED
        BY <2>0, <4>1, Zenon DEF Precious
    <3>2. policy[w] = "overwrite"
      BY <2>2, <3>1 DEF IInv, TypeOK
    <3>3. batch[w] = "fresh" /\ k <= Len(dump[w])
      BY <2>4 DEF Before, IInv, TypeOK
    <3>4. QED
      BY <3>2, <3>3
  <2>5. CASE k > Before(w)
    <3>1. PICK i \in 1..Saved(w) : k = Before(w) + i
      <4>1. k - Before(w) \in 1..Saved(w) /\ k = Before(w) + (k - Before(w))
        BY <2>3, <2>5
      <4>2. QED
        BY <4>1
    <3>2. i \in 1..Len(dest[w]) /\ i # n /\ i <= Saved(w)
      BY <2>1, <2>2, <2>3
    <3>3. p = PathOf[dest[w][i]]
      BY <2>2, <3>1, <3>2 DEF SavingInv, Follows, Saving
    <3>4. p = PathOf[dest[w][n]]
      BY <2>2 DEF Target
    <3>5. AsciiKey[dest[w][i]] # AsciiKey[dest[w][n]]
      BY <2>2, <3>2 DEF KeysDistinct
    <3>6. QED
      BY <2>2, <3>2, <3>3, <3>4, <3>5, Zenon DEF FoldedApart
  <2>6. QED
    BY <2>3, <2>4, <2>5
<1>2. Init => KeysDistinct
  BY DEF Init, KeysDistinct
<1>3. TypeOK /\ TypeOK' /\ KeysDistinct /\ [Next]_vars => KeysDistinct'
  BY KeysInductive
<1>4. QED
  BY <1>1, <1>2, <1>3, Invariance, SavingInvariance, TypeCorrect, PTL DEF Spec, SavedFilesStay

-----------------------------------------------------------------------------
\* The abstract state that the run stands for, by run.
Overwrites(w) == policy[w] = "overwrite"
Hole(w) == IF pc[w] = "replace" THEN {Target(w)} ELSE {}

\* An initial state looks like an initial state of PublishSpec.
LEMMA InitRefines == Init => Promise!Init
<1> SUFFICES ASSUME Init PROVE Promise!Init
  OBVIOUS
<1>1. \A w \in Writers : Len(dump[w]) \in Nat
  <2>1. ASSUME NEW w \in Writers PROVE Len(dump[w]) \in Nat
    BY ListsAssumption DEF Init
  <2>2. QED
    BY <2>1
<1>2. QED
  BY <1>1 DEF Init, Promise!Init, Absent, Old, Directory, Promise!Absent,
     Promise!Old, Promise!Directory, Ending

\* A step that changes no entry, and no run's ending, hole or policy, stutters.
LEMMA StutterRefines ==
  ASSUME entries' = entries, written' = written, dump' = dump,
         \A v \in Writers : Ending(v)' = Ending(v) /\ Hole(v)' = Hole(v)
                            /\ Overwrites(v)' = Overwrites(v)
  PROVE  UNCHANGED Promise!vars
BY DEF Promise!vars, Hole, Overwrites

\* The other runs look the same to the abstract specification.
LEMMA OthersSeen ==
  ASSUME IInv, NEW w \in Writers, Step(w) \/ Kill(w), NEW v \in Writers \ {w}
  PROVE  Ending(v)' = Ending(v) /\ Hole(v)' = Hole(v) /\ Overwrites(v)' = Overwrites(v)
BY StepSame DEF Same, Ending, Hole, Overwrites, Target, Saved

\* A step of run w that ends it without success.
LEMMA CutShort ==
  ASSUME IInv, NEW w \in Writers, Step(w) \/ Kill(w),
         entries' = entries, written' = written, dump' = dump, policy' = policy,
         pc'[w] \in {"unwind", "failed", "refused", "killed"}
  PROVE  Promise!End(w) \/ UNCHANGED Promise!vars
<1>1. Ending(w)' = "cut short" /\ Hole(w)' = {} /\ \A v \in Writers : Overwrites(v)' = Overwrites(v)
  BY DEF Ending, Hole, Overwrites
<1>2. \A v \in Writers \ {w} : Ending(v)' = Ending(v) /\ Hole(v)' = Hole(v)
  BY OthersSeen
<1>3. CASE Ending(w) = "none"
  <2>1. [v \in Writers |-> Ending(v)]' = [[v \in Writers |-> Ending(v)] EXCEPT ![w] = "cut short"]
    BY <1>1, <1>2
  <2>2. [v \in Writers |-> Hole(v)]' = [[v \in Writers |-> Hole(v)] EXCEPT ![w] = {}]
    BY <1>1, <1>2
  <2>3. QED
    BY <1>1, <1>3, <2>1, <2>2 DEF Promise!End, Hole, Overwrites
<1>4. CASE Ending(w) # "none"
  <2>1. Ending(w) = "cut short" /\ Hole(w) = {}
    <3>1. pc[w] \in {"done"} \cup {"unwind", "failed", "refused", "killed"}
      BY <1>4 DEF Ending
    <3>2. pc[w] = "unwind"
      BY <3>1 DEF Step, Kill, Final, Refuse, Prepare, BeginBatch, ChooseDestination,
         CreateTemp, StageFile, Look, RemoveOld, RenameIntoPlace, AskFresh, Unwind, Return
    <3>3. QED
      BY <3>2 DEF Ending, Hole
  <2>2. QED
    BY <1>1, <1>2, <2>1, StutterRefines
<1>5. QED
  BY <1>3, <1>4

\* A step of run w that goes on, and publishes or discards nothing.
LEMMA GoesOn ==
  ASSUME IInv, NEW w \in Writers, Step(w) \/ Kill(w),
         entries' = entries, written' = written, dump' = dump, policy' = policy,
         Ending(w)' = Ending(w), Hole(w)' = Hole(w)
  PROVE  UNCHANGED Promise!vars
<1>1. \A v \in Writers : Overwrites(v)' = Overwrites(v)
  BY DEF Overwrites
<1>2. QED
  BY <1>1, OthersSeen, StutterRefines

\* Prepare is Agree, or a stutter under the rename policy.
LEMMA PrepareRefines ==
  ASSUME IInv, NEW w \in Writers, Prepare(w)
  PROVE  Promise!Agree(w) \/ UNCHANGED Promise!vars
<1>1. /\ pc[w] = "prepare" /\ pc'[w] = "begin" /\ written[w] = << >> /\ policy[w] = "rename"
      /\ entries' = entries /\ written' = written /\ dump' = dump
  BY DEF Prepare, Goto, disk, IInv, Position, TypeOK
<1>2. Ending(w) = "none" /\ Ending(w)' = "none" /\ Hole(w)' = Hole(w)
  BY <1>1 DEF Ending, Hole
<1>3. \A v \in Writers : Ending(v)' = Ending(v) /\ Hole(v)' = Hole(v)
  BY <1>2, OthersSeen DEF Step
<1>4. CASE policy' = [policy EXCEPT ![w] = "rename"]
  <2>1. policy' = policy
    BY <1>1, <1>4 DEF IInv, TypeOK
  <2>2. QED
    BY <1>1, <1>2, <2>1, GoesOn DEF Step
<1>5. CASE policy' = [policy EXCEPT ![w] = "overwrite"]
  <2>1. [v \in Writers |-> Overwrites(v)]' = [[v \in Writers |-> Overwrites(v)] EXCEPT ![w] = TRUE]
    BY <1>5 DEF Overwrites, IInv, TypeOK
  <2>2. QED
    BY <1>1, <1>2, <1>3, <2>1 DEF Promise!Agree, Overwrites, Hole
<1>6. QED
  BY <1>4, <1>5 DEF Prepare

\* RemoveOld is Discard, or the end of the run.
LEMMA RemoveRefines ==
  ASSUME IInv, NEW w \in Writers, RemoveOld(w)
  PROVE  Promise!Discard(w) \/ Promise!End(w) \/ UNCHANGED Promise!vars
<1>1. /\ pc[w] = "remove" /\ policy[w] = "overwrite" /\ Target(w) \in Paths
      /\ written' = written /\ dump' = dump /\ policy' = policy
  BY TargetInPaths DEF RemoveOld, plan, IInv, Position
<1>2. CASE entries' = entries /\ pc' = [pc EXCEPT ![w] = "unwind"]
  <2>1. pc'[w] = "unwind"
    BY <1>2 DEF IInv, TypeOK
  <2>2. QED
    BY <1>1, <1>2, <2>1, CutShort DEF Step
<1>3. CASE /\ entries[Target(w)] \notin {Absent, Directory}
           /\ entries' = [entries EXCEPT ![Target(w)] = Absent]
           /\ pc' = [pc EXCEPT ![w] = "replace"]
  <2>1. pc'[w] = "replace"
    BY <1>3 DEF IInv, TypeOK
  <2>2. Target(w)' = Target(w)
    BY <1>1 DEF Target, Saved, RemoveOld, plan
  <2>3. /\ Ending(w) = "none" /\ Ending(w)' = "none"
        /\ Hole(w) = {} /\ Hole(w)' = {Target(w)} /\ Overwrites(w)
    BY <1>1, <2>1, <2>2 DEF Ending, Hole, Overwrites
  <2>4. [v \in Writers |-> Hole(v)]' = [[v \in Writers |-> Hole(v)] EXCEPT ![w] = {Target(w)}]
    BY <2>3, OthersSeen DEF Step
  <2>5. \A v \in Writers : Ending(v)' = Ending(v) /\ Overwrites(v)' = Overwrites(v)
    BY <1>1, <2>3, OthersSeen DEF Step, Overwrites
  <2>6. QED
    BY <1>1, <1>3, <2>3, <2>4, <2>5 DEF Promise!Discard, Hole, Overwrites,
       Absent, Directory, Promise!Absent, Promise!Directory
<1>4. QED
  BY <1>2, <1>3 DEF RemoveOld, Goto

\* RenameIntoPlace is Publish, or the end of the run.
LEMMA RenameRefines ==
  ASSUME IInv, SavingInv, [Next]_vars, NEW w \in Writers, RenameIntoPlace(w)
  PROVE  Promise!Publish(w) \/ Promise!End(w) \/ UNCHANGED Promise!vars
<1> DEFINE t == Temp(w, Saved(w) + 1)
<1>1. /\ pc[w] \in {"rename", "replace"} /\ Target(w) \in Paths
      /\ dump' = dump /\ policy' = policy
  BY TargetInPaths DEF RenameIntoPlace, plan
<1>2. CASE /\ UNCHANGED <<entries, temps, written>>
           /\ pc' = [pc EXCEPT ![w] = "unwind"]
  <2>1. pc'[w] = "unwind"
    BY <1>2 DEF IInv, TypeOK
  <2>2. QED
    BY <1>1, <1>2, <2>1, CutShort DEF Step
<1>3. CASE /\ entries[Target(w)] # Directory
           /\ entries' = [entries EXCEPT
                            ![Target(w)] = Output(w, Len(written[w]) + 1, temps[t] = "whole")]
           /\ written' = [written EXCEPT ![w] = Append(@, Target(w))]
           /\ pc' = [pc EXCEPT ![w] = IF Saved(w) + 1 = Len(List(w))
                                        THEN AfterBatch(w) ELSE "look"]
  <2>1. pc'[w] \in {"ask", "return", "look"}
    BY <1>3 DEF IInv, TypeOK, AfterBatch
  <2>2. /\ Ending(w) = "none" /\ Ending(w)' = "none"
        /\ Hole(w) \subseteq {Target(w)} /\ Hole(w)' = {}
    BY <1>1, <2>1 DEF Ending, Hole
  <2>3. [v \in Writers |-> Hole(v)]' = [[v \in Writers |-> Hole(v)] EXCEPT ![w] = {}]
    BY <2>2, OthersSeen DEF Step
  <2>4. \A v \in Writers : Ending(v)' = Ending(v) /\ Overwrites(v)' = Overwrites(v)
    BY <1>1, <2>2, OthersSeen DEF Step, Overwrites
  <2>5. temps[t] = "whole"
    <3>1. /\ Saved(w) + 1 \in Saved(w) + 1 .. Len(staged[w])
      BY <1>1, RunFacts DEF Kept, Position
    <3>2. QED
      BY <1>1, <3>1 DEF IInv, StagedWhole
  <2>6. entries' = [entries EXCEPT ![Target(w)] = Promise!Output(w, Len(written[w]) + 1, TRUE)]
    <3>1. (temps[t] = "whole") = TRUE
      BY <2>5
    <3>2. Output(w, Len(written[w]) + 1, TRUE) = Promise!Output(w, Len(written[w]) + 1, TRUE)
      BY DEF Output, Promise!Output
    <3>3. entries' = [entries EXCEPT ![Target(w)] = Output(w, Len(written[w]) + 1, TRUE)]
      BY <1>3, <3>1, Zenon
    <3>4. QED
      BY <3>2, <3>3, Zenon
  <2>7. entries[Target(w)] = Promise!Old => Overwrites(w)
    <3>1. Saved(w) + 1 \in 1..Len(dest[w]) /\ Saved(w) + 1 > Saved(w)
      BY <1>1, RunFacts DEF Kept, Position
    <3>2. policy[w] = "rename" => entries[Target(w)] \notin Precious(w)
      BY <1>1, <3>1 DEF SavingInv, Avoids, Saving, Target
    <3>3. Promise!Old \in Precious(w)
      BY DEF Precious, Old, Promise!Old
    <3>4. policy[w] \in {"rename", "overwrite"}
      BY DEF IInv, TypeOK
    <3>5. QED
      BY <3>2, <3>3, <3>4 DEF Overwrites
  <2>8. QED
    BY <1>1, <1>3, <2>2, <2>3, <2>4, <2>6, <2>7 DEF Promise!Publish, Hole, Overwrites,
       Directory, Promise!Directory
<1>4. QED
  BY <1>2, <1>3 DEF RenameIntoPlace, Goto

\* Return is End with success.
LEMMA ReturnRefines ==
  ASSUME IInv, NEW w \in Writers, Return(w)
  PROVE  Promise!End(w)
<1>1. /\ pc[w] = "return" /\ pc'[w] = "done" /\ Len(written[w]) >= Len(dump[w])
      /\ entries' = entries /\ written' = written /\ dump' = dump /\ policy' = policy
  BY DEF Return, Goto, disk, plan, IInv, TypeOK, Position
<1>2. /\ Ending(w) = "none" /\ Ending(w)' = "written" /\ Hole(w) = {} /\ Hole(w)' = {}
  BY <1>1 DEF Ending, Hole
<1>3. [v \in Writers |-> Ending(v)]' = [[v \in Writers |-> Ending(v)] EXCEPT ![w] = "written"]
  BY <1>2, OthersSeen DEF Step
<1>4. [v \in Writers |-> Hole(v)]' = [[v \in Writers |-> Hole(v)] EXCEPT ![w] = {}]
  BY <1>2, OthersSeen DEF Step
<1>5. QED
  BY <1>1, <1>2, <1>3, <1>4 DEF Promise!End, Hole, Overwrites

\* The remaining steps move a run on, or end it.
LEMMA QuietRefines ==
  ASSUME IInv, NEW w \in Writers,
         \/ Refuse(w) \/ BeginBatch(w) \/ ChooseDestination(w) \/ CreateTemp(w)
         \/ StageFile(w) \/ Look(w) \/ AskFresh(w) \/ Unwind(w) \/ Kill(w)
  PROVE  Promise!End(w) \/ UNCHANGED Promise!vars
<1>1. Step(w) \/ Kill(w)
  BY DEF Step
<1>2. entries' = entries /\ written' = written /\ dump' = dump /\ policy' = policy
  BY DEF Refuse, BeginBatch, ChooseDestination, CreateTemp, StageFile, Look, AskFresh,
     Unwind, Kill, disk, plan
<1>3. \/ pc'[w] \in {"unwind", "failed", "refused", "killed"}
      \/ /\ pc[w] \in {"begin", "destination", "create", "stage", "look", "ask"}
         /\ pc'[w] \in {"ask", "return", "destination", "create", "stage", "look", "remove",
                        "rename", "begin"}
  <2>1. pc \in [Writers -> Places]
    BY DEF IInv, TypeOK
  <2>2. CASE Refuse(w) \/ Unwind(w) \/ Kill(w)
    BY <2>1, <2>2 DEF Refuse, Unwind, Kill, Goto
  <2>3. CASE BeginBatch(w)
    BY <2>1, <2>3 DEF BeginBatch, Goto, AfterBatch
  <2>4. CASE ChooseDestination(w)
    BY <2>1, <2>4 DEF ChooseDestination, Goto
  <2>5. CASE CreateTemp(w)
    BY <2>1, <2>5 DEF CreateTemp, Goto
  <2>6. CASE StageFile(w)
    BY <2>1, <2>6 DEF StageFile, Goto
  <2>7. CASE Look(w)
    BY <2>1, <2>7 DEF Look, Goto
  <2>8. CASE AskFresh(w)
    BY <2>1, <2>8 DEF AskFresh, Goto, AfterBatch
  <2>9. QED
    BY <2>2, <2>3, <2>4, <2>5, <2>6, <2>7, <2>8
<1>4. CASE pc'[w] \in {"unwind", "failed", "refused", "killed"}
  BY <1>1, <1>2, <1>4, CutShort
<1>5. CASE /\ pc[w] \in {"begin", "destination", "create", "stage", "look", "ask"}
           /\ pc'[w] \in {"ask", "return", "destination", "create", "stage", "look", "remove",
                          "rename", "begin"}
  <2>1. Ending(w)' = Ending(w) /\ Hole(w)' = Hole(w)
    BY <1>5 DEF Ending, Hole
  <2>2. QED
    BY <1>1, <1>2, <2>1, GoesOn
<1>6. QED
  BY <1>3, <1>4, <1>5

\* The staging protocol implements the promise of PublishSpec: files appear whole,
\* in order and one at a time, a run removes a file only under Overwrite and only
\* to put its next file there, and success is reported only after the dump.
THEOREM KeepsItsPromise == Spec => PublishesAsPromised
<1>1. IInv /\ SavingInv /\ [Next]_vars => [Promise!Next]_(Promise!vars)
  <2> SUFFICES ASSUME IInv, SavingInv, [Next]_vars PROVE Promise!Next \/ UNCHANGED Promise!vars
    OBVIOUS
  <2>1. ASSUME NEW w \in Writers, Step(w) \/ Kill(w)
        PROVE  Promise!Next \/ UNCHANGED Promise!vars
    BY <2>1, PrepareRefines, RemoveRefines, RenameRefines, ReturnRefines, QuietRefines
       DEF Step, Promise!Next
  <2>2. CASE Elsewhere
    <3>1. Promise!Elsewhere
      BY <2>2 DEF Elsewhere, Promise!Elsewhere, Absent, Foreign, Directory,
         Promise!Absent, Promise!Foreign, Promise!Directory, plan, Ending, Target, Saved
    <3>2. QED
      BY <3>1 DEF Promise!Next
  <2>3. CASE UNCHANGED vars
    <3>1. \A v \in Writers : Ending(v)' = Ending(v) /\ Hole(v)' = Hole(v)
                             /\ Overwrites(v)' = Overwrites(v)
      BY <2>3 DEF vars, Ending, Hole, Overwrites, Target, Saved
    <3>2. QED
      BY <2>3, <3>1, StutterRefines DEF vars
  <2>4. QED
    BY <2>1, <2>2, <2>3 DEF Next
<1>2. QED
  BY InitRefines, Invariance, SavingInvariance, <1>1, PTL DEF Spec, PublishesAsPromised, Promise!Spec
=============================================================================
