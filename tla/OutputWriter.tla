---------------------------- MODULE OutputWriter ----------------------------
(***************************************************************************)
(* output.rs, and BuildReport::write of dump.rs that calls it: mempe runs  *)
(* in the same working directory each decide what to do about existing     *)
(* files (prepare), later choose a name for every file (destinations),     *)
(* stage all of them under temporary names and rename them into place      *)
(* (write_all), first for the dump and then, if the user wants them, for   *)
(* the fresh copies.  A step is one file system call or one prompt, so     *)
(* runs, other programs, failing calls and a killed run interleave         *)
(* between any two of them.                                                *)
(***************************************************************************)
EXTENDS Naturals, Sequences, FiniteSets

CONSTANTS
  Writers,          \* the mempe runs
  Names,            \* file names a run asks for or tries
  Unusable,         \* the names clean_name refuses
  Candidate,        \* Candidate[n][k]: the k-th name tried for a file named n
  AsciiKey,         \* AsciiKey[n]: n in ASCII lower case
  Paths,            \* the directory entries of the folder
  PathOf,           \* PathOf[n]: the entry the file system finds for name n
  DumpLists,        \* the lists of names a dump may consist of
  FreshLists,       \* the lists of names of fresh copies
  MaxFiles,         \* bound: the longest of those lists
  MaxNameAttempts,  \* 100 000 in the code
  MaxTempAttempts,  \* 1 024 in the code
  MaxStale,         \* bound: temporaries an earlier run left behind
  MaxOld,           \* bound: entries the folder has before any run
  MaxForeign        \* bound: steps of other programs in the folder

ASSUME NamingAssumption ==
  /\ MaxNameAttempts \in Nat \ {0}
  /\ Candidate \in [Names -> [1..MaxNameAttempts -> Names]]
  /\ PathOf \in [Names -> Paths]

ASSUME ListsAssumption ==
  /\ MaxFiles \in Nat
  /\ MaxTempAttempts \in Nat
  /\ MaxStale \in Nat
  /\ MaxOld \in Nat
  /\ MaxForeign \in Nat
  /\ \A l \in DumpLists \cup FreshLists : l \in Seq(Names) /\ Len(l) <= MaxFiles

VARIABLES
  folder,     \* the "mempe" entry of the working directory
  entries,    \* entries[p]: what directory entry p of the folder holds
  temps,      \* temps[<<w, i, a>>]: the file .mempe-{pid of w}-{i}-{a}.tmp
  pc,         \* pc[w]: where run w is
  policy,     \* policy[w]: its CollisionPolicy
  dump,       \* dump[w]: names of the files of its dump
  fresh,      \* fresh[w]: names of its fresh copies
  batch,      \* batch[w]: the list write_all is working on
  dest,       \* dest[w]: the destinations chosen so far in this batch
  suffix,     \* suffix[w]: the suffix unique_destination tries next
  staged,     \* staged[w]: the attempt that named each file's temporary
  written,    \* written[w]: the entries it renamed its files to, in order
  leaked,     \* leaked[w]: temporaries whose removal failed, which is ignored
  foreign     \* how many steps other programs have taken

disk == <<folder, entries, temps>>
plan == <<policy, dump, fresh>>
vars == <<folder, entries, temps, pc, policy, dump, fresh, batch, dest, suffix,
          staged, written, leaked, foreign>>

\* What an entry holds: nothing, a file that was there before any run, one that
\* another program put there since, or a folder.
Absent == [kind |-> "absent"]
Old == [kind |-> "old"]
Foreign == [kind |-> "foreign"]
Directory == [kind |-> "directory"]

\* The k-th file of run w.
Output(w, k, whole) ==
  [kind |-> "output", writer |-> w, index |-> k, whole |-> whole]

Attempts == 1..MaxTempAttempts
TempPaths == Writers \X (1..MaxFiles) \X Attempts

Final == {"refused", "done", "failed", "killed"}
Places == Final \cup {"prepare", "begin", "destination", "create", "stage", "look",
                     "remove", "rename", "replace", "ask", "unwind", "return"}

List(w) == IF batch[w] = "dump" THEN dump[w] ELSE fresh[w]

\* How many files of the current batch are already renamed into place.
Saved(w) == Len(written[w]) - (IF batch[w] = "dump" THEN 0 ELSE Len(dump[w]))

Temp(w, i) == <<w, i, staged[w][i]>>

\* Mutant: a temporary joins the list only once it is written.
UnsavedButLast(w) == {Temp(w, i) : i \in Saved(w) + 1 .. Len(staged[w]) - 1}

\* The temporaries TempFile::drop has to remove when write_all gives up.
Unsaved(w) == {Temp(w, i) : i \in Saved(w) + 1 .. Len(staged[w])}

-----------------------------------------------------------------------------
Init ==
  /\ folder \in {"missing", "present", "file"}
  /\ entries \in [Paths -> {Absent, Old, Directory}]
  /\ Cardinality({p \in Paths : entries[p] # Absent}) <= MaxOld
  /\ \E stale \in SUBSET TempPaths :
       /\ Cardinality(stale) <= MaxStale
       /\ temps = [t \in TempPaths |-> IF t \in stale THEN "stale" ELSE "none"]
  /\ folder # "present" => /\ entries = [p \in Paths |-> Absent]
                           /\ temps = [t \in TempPaths |-> "none"]
  /\ dump \in [Writers -> DumpLists]
  /\ fresh \in [Writers -> FreshLists]
  /\ pc = [w \in Writers |-> "prepare"]
  /\ policy = [w \in Writers |-> "rename"]
  /\ batch = [w \in Writers |-> "dump"]
  /\ dest = [w \in Writers |-> << >>]
  /\ suffix = [w \in Writers |-> 1]
  /\ staged = [w \in Writers |-> << >>]
  /\ written = [w \in Writers |-> << >>]
  /\ leaked = [w \in Writers |-> {}]
  /\ foreign = 0

-----------------------------------------------------------------------------
HasEntries ==
  /\ folder = "present"
  /\ \/ \E p \in Paths : entries[p] # Absent
     \/ \E t \in TempPaths : temps[t] # "none"

Goto(w, where) == pc' = [pc EXCEPT ![w] = where]

\* prepare() finds a file in place of the folder, cannot list the folder, or
\* the user cancels or mistypes: main returns exit code 1.
Refuse(w) ==
  /\ pc[w] = "prepare"
  /\ folder # "missing"
  /\ Goto(w, "refused")
  /\ UNCHANGED <<disk, plan, batch, dest, suffix, staged, written, leaked, foreign>>

\* prepare() returns a plan; the choice is offered only in a folder with files.
Prepare(w) ==
  /\ pc[w] = "prepare"
  /\ folder # "file"
  /\ \/ policy' = [policy EXCEPT ![w] = "rename"]
     \/ HasEntries /\ policy' = [policy EXCEPT ![w] = "overwrite"]
  /\ Goto(w, "begin")
  /\ UNCHANGED <<disk, dump, fresh, batch, dest, suffix, staged, written, leaked, foreign>>

\* Where BuildReport::write goes when a call of write_all returns Ok.
AfterBatch(w) ==
  IF batch[w] = "dump" /\ fresh[w] # << >> THEN "ask" ELSE "return"

\* write_all is called: nothing to do, or create_dir_all.
BeginBatch(w) ==
  /\ pc[w] = "begin"
  /\ IF List(w) = << >>
       THEN Goto(w, AfterBatch(w)) /\ UNCHANGED folder
       ELSE \/ /\ folder # "file"
               /\ folder' = "present"
               /\ Goto(w, "destination")
            \/ Goto(w, "failed") /\ UNCHANGED folder
  /\ dest' = [dest EXCEPT ![w] = << >>]
  /\ staged' = [staged EXCEPT ![w] = << >>]
  /\ suffix' = [suffix EXCEPT ![w] = 1]
  /\ UNCHANGED <<entries, temps, plan, batch, written, leaked, foreign>>

\* unique_destination: "used" holds the key of every destination of the batch.
Used(w) == {AsciiKey[dest[w][i]] : i \in 1..Len(dest[w])}

\* Mutants: destinations compared by name; the disk not looked at; or looked at
\* for the first candidate only.
TakenByName(w, n) ==
  \/ policy[w] = "rename" /\ entries[PathOf[n]] # Absent
  \/ \E i \in 1..Len(dest[w]) : dest[w][i] = n

TakenInBatch(w, n) == AsciiKey[n] \in Used(w)

TakenUnlessSuffixed(w, n) ==
  \/ suffix[w] = 1 /\ policy[w] = "rename" /\ entries[PathOf[n]] # Absent
  \/ AsciiKey[n] \in Used(w)

Taken(w, n) ==
  \/ policy[w] = "rename" /\ entries[PathOf[n]] # Absent
  \/ AsciiKey[n] \in Used(w)

MoreSuffixes(w) == suffix[w] < MaxNameAttempts

\* One candidate name for the next file of the batch.
ChooseDestination(w) ==
  LET name == List(w)[Len(dest[w]) + 1]
      candidate == Candidate[name][suffix[w]]
  IN
  /\ pc[w] = "destination"
  /\ \/ /\ name \in Unusable
        /\ Goto(w, "failed")
        /\ UNCHANGED <<dest, suffix>>
     \/ /\ name \notin Unusable
        /\ Taken(w, candidate)
        /\ IF MoreSuffixes(w)
             THEN /\ suffix' = [suffix EXCEPT ![w] = @ + 1]
                  /\ UNCHANGED pc
             ELSE /\ Goto(w, "failed")
                  /\ UNCHANGED suffix
        /\ UNCHANGED dest
     \/ /\ name \notin Unusable
        /\ ~ Taken(w, candidate)
        /\ dest' = [dest EXCEPT ![w] = Append(@, candidate)]
        /\ suffix' = [suffix EXCEPT ![w] = 1]
        /\ IF Len(dest[w]) + 1 = Len(List(w)) THEN Goto(w, "create") ELSE UNCHANGED pc
  /\ UNCHANGED <<disk, plan, batch, staged, written, leaked, foreign>>

-----------------------------------------------------------------------------
\* create_temporary: create_new on the first attempt whose name is free.
FreeAttempts(w, i) == {a \in Attempts : temps[<<w, i, a>>] = "none"}

CreateTemp(w) ==
  LET i == Len(staged[w]) + 1
      free == FreeAttempts(w, i)
  IN
  /\ pc[w] = "create"
  /\ \/ \E a \in free :
          /\ \A b \in free : a <= b
          /\ temps' = [temps EXCEPT ![<<w, i, a>>] = "partial"]
          /\ staged' = [staged EXCEPT ![w] = Append(@, a)]
          /\ Goto(w, "stage")
     \/ Goto(w, "unwind") /\ UNCHANGED <<temps, staged>>
  /\ UNCHANGED <<folder, entries, plan, batch, dest, suffix, written, leaked, foreign>>

\* Mutant: the result of writing the temporary is dropped.
StageFileUnchecked(w) ==
  LET i == Len(staged[w])
  IN
  /\ pc[w] = "stage"
  /\ \E what \in {"partial", "whole"} : temps' = [temps EXCEPT ![Temp(w, i)] = what]
  /\ Goto(w, IF i = Len(List(w)) THEN "look" ELSE "create")
  /\ UNCHANGED <<folder, entries, plan, batch, dest, suffix, staged, written, leaked, foreign>>

\* handle.write_all and flush; on an error the temporary keeps what got there.
StageFile(w) ==
  LET i == Len(staged[w])
  IN
  /\ pc[w] = "stage"
  /\ \/ /\ temps' = [temps EXCEPT ![Temp(w, i)] = "whole"]
        /\ Goto(w, IF i = Len(List(w)) THEN "look" ELSE "create")
     \/ Goto(w, "unwind") /\ UNCHANGED temps
  /\ UNCHANGED <<folder, entries, plan, batch, dest, suffix, staged, written, leaked, foreign>>

-----------------------------------------------------------------------------
\* The entry the next file of the batch is renamed to.
Target(w) == PathOf[dest[w][Saved(w) + 1]]

\* Mutants: a folder in the way ends the batch quietly; whatever is in the way
\* is removed.
LookPastFolders(w) ==
  /\ pc[w] = "look"
  /\ Goto(w, IF entries[Target(w)] = Directory THEN "return" ELSE "rename")
  /\ UNCHANGED <<disk, plan, batch, dest, suffix, staged, written, leaked, foreign>>

LookAndRemove(w) ==
  /\ pc[w] = "look"
  /\ Goto(w, IF entries[Target(w)] = Directory THEN "unwind"
             ELSE IF entries[Target(w)] # Absent THEN "remove" ELSE "rename")
  /\ UNCHANGED <<disk, plan, batch, dest, suffix, staged, written, leaked, foreign>>

\* final_path.exists() and is_dir().
Look(w) ==
  LET there == entries[Target(w)]
  IN
  /\ pc[w] = "look"
  /\ Goto(w, IF there = Directory THEN "unwind"
             ELSE IF there # Absent /\ policy[w] = "overwrite" THEN "remove"
             ELSE "rename")
  /\ UNCHANGED <<disk, plan, batch, dest, suffix, staged, written, leaked, foreign>>

\* Mutant: a removal that fails is tried again.
RemoveOldAgain(w) ==
  /\ pc[w] = "remove"
  /\ \/ /\ entries[Target(w)] \notin {Absent, Directory}
        /\ entries' = [entries EXCEPT ![Target(w)] = Absent]
        /\ Goto(w, "replace")
     \/ Goto(w, "look") /\ UNCHANGED entries
  /\ UNCHANGED <<folder, temps, plan, batch, dest, suffix, staged, written, leaked, foreign>>

\* fs::remove_file on what Look saw; it fails if that file is gone or in use.
RemoveOld(w) ==
  /\ pc[w] = "remove"
  /\ \/ /\ entries[Target(w)] \notin {Absent, Directory}
        /\ entries' = [entries EXCEPT ![Target(w)] = Absent]
        /\ Goto(w, "replace")
     \/ Goto(w, "unwind") /\ UNCHANGED entries
  /\ UNCHANGED <<folder, temps, plan, batch, dest, suffix, staged, written, leaked, foreign>>

\* fs::rename replaces a file that is in the way.  The place "replace" is the
\* same call, after the old file was removed.
RenameIntoPlace(w) ==
  LET t == Temp(w, Saved(w) + 1)
  IN
  /\ pc[w] \in {"rename", "replace"}
  /\ \/ /\ entries[Target(w)] # Directory
        /\ entries' = [entries EXCEPT
                         ![Target(w)] = Output(w, Len(written[w]) + 1, temps[t] = "whole")]
        /\ temps' = [temps EXCEPT ![t] = "none"]
        /\ written' = [written EXCEPT ![w] = Append(@, Target(w))]
        /\ Goto(w, IF Saved(w) + 1 = Len(List(w)) THEN AfterBatch(w) ELSE "look")
     \/ Goto(w, "unwind") /\ UNCHANGED <<entries, temps, written>>
  /\ UNCHANGED <<folder, plan, batch, dest, suffix, staged, leaked, foreign>>

\* wants_fresh_copies: yes, no, or an answer it does not take.
AskFresh(w) ==
  /\ pc[w] = "ask"
  /\ \/ /\ Goto(w, "begin")
        /\ batch' = [batch EXCEPT ![w] = "fresh"]
     \/ Goto(w, "return") /\ UNCHANGED batch
     \/ Goto(w, "failed") /\ UNCHANGED batch
  /\ UNCHANGED <<disk, plan, dest, suffix, staged, written, leaked, foreign>>

\* An error leaves write_all: every TempFile that was not saved is dropped,
\* and a removal that fails is ignored.
Unwind(w) ==
  /\ pc[w] = "unwind"
  /\ \E kept \in SUBSET Unsaved(w) :
       /\ temps' = [t \in TempPaths |->
                      IF t \in Unsaved(w) \ kept THEN "none" ELSE temps[t]]
       /\ leaked' = [leaked EXCEPT ![w] = @ \cup kept]
  /\ Goto(w, "failed")
  /\ UNCHANGED <<folder, entries, plan, batch, dest, suffix, staged, written, foreign>>

\* BuildReport::write returned Ok; the report is printed and the run exits.
Return(w) ==
  /\ pc[w] = "return"
  /\ Goto(w, "done")
  /\ UNCHANGED <<disk, plan, batch, dest, suffix, staged, written, leaked, foreign>>

\* The run is killed: nothing is dropped.
Kill(w) ==
  /\ pc[w] \notin Final
  /\ Goto(w, "killed")
  /\ UNCHANGED <<disk, plan, batch, dest, suffix, staged, written, leaked, foreign>>

\* Another program creates, deletes or replaces something in the folder.
Elsewhere ==
  /\ foreign < MaxForeign
  /\ folder = "present"
  /\ foreign' = foreign + 1
  /\ \E p \in Paths, e \in {Absent, Foreign, Directory} :
       entries' = [entries EXCEPT ![p] = e]
  /\ UNCHANGED <<folder, temps, pc, plan, batch, dest, suffix, staged, written, leaked>>

Step(w) ==
  \/ Refuse(w) \/ Prepare(w) \/ BeginBatch(w) \/ ChooseDestination(w)
  \/ CreateTemp(w) \/ StageFile(w) \/ Look(w) \/ RemoveOld(w)
  \/ RenameIntoPlace(w) \/ AskFresh(w) \/ Unwind(w) \/ Return(w)

Next == (\E w \in Writers : Step(w) \/ Kill(w)) \/ Elsewhere

Spec == Init /\ [][Next]_vars

\* The operating system runs every mempe process that can take a step, every
\* file system call returns and the user answers the prompts.
FairSpec == Spec /\ \A w \in Writers : WF_vars(Step(w))

-----------------------------------------------------------------------------
EntryValues ==
  {Absent, Old, Foreign, Directory} \cup
  [kind : {"output"}, writer : Writers, index : Nat, whole : BOOLEAN]

\* Every variable holds a value of its type, and the positions a step indexes
\* with are inside the lists they index.
TypeOK ==
  /\ folder \in {"missing", "present", "file"}
  /\ entries \in [Paths -> EntryValues]
  /\ temps \in [TempPaths -> {"none", "stale", "partial", "whole"}]
  /\ pc \in [Writers -> Places]
  /\ policy \in [Writers -> {"rename", "overwrite"}]
  /\ dump \in [Writers -> DumpLists]
  /\ fresh \in [Writers -> FreshLists]
  /\ batch \in [Writers -> {"dump", "fresh"}]
  /\ dest \in [Writers -> Seq(Names)]
  /\ suffix \in [Writers -> 1..MaxNameAttempts]
  /\ staged \in [Writers -> Seq(Attempts)]
  /\ written \in [Writers -> Seq(Paths)]
  /\ leaked \in [Writers -> SUBSET TempPaths]
  /\ foreign \in 0..MaxForeign

\* A reader of the folder never sees half a file of mempe under a final name:
\* files are staged before any is renamed, and only a fully staged one is.
OnlyWholeFiles ==
  \A p \in Paths : entries[p].kind = "output" => entries[p].whole

\* Two files of one batch are given the same directory entry only under names
\* that differ outside of ASCII: equal names, names that differ in the case of an
\* ASCII letter and names that a suffix makes equal do not meet
\* (unique_destination, "used").
DestinationsDistinct ==
  \A w \in Writers : \A i, j \in 1..Len(dest[w]) :
    i # j /\ PathOf[dest[w][i]] = PathOf[dest[w][j]]
      => AsciiKey[dest[w][i]] # AsciiKey[dest[w][j]]

\* A run that ended by itself left no temporary behind except those whose
\* removal failed (TempFile::drop on every way out of write_all).
NoStrayTemps ==
  \A t \in TempPaths :
    pc[t[1]] \in {"done", "failed", "refused"} /\ temps[t] \in {"partial", "whole"}
      => t \in leaked[t[1]]

\* Two names of the batch are one name to the file system and two to the code.
FoldedApart(w, p) ==
  \E i, j \in 1..Len(dest[w]) :
    /\ PathOf[dest[w][i]] = p
    /\ PathOf[dest[w][j]] = p
    /\ AsciiKey[dest[w][i]] # AsciiKey[dest[w][j]]

\* The k-th file that run w saved is where it was saved, and the step changes that.
Spoils(w, k) ==
  LET p == written[w][k]
  IN  entries[p] = Output(w, k, TRUE) /\ entries'[p] # entries[p]

\* A run never removes or replaces a file it saved itself, in this batch or in
\* the one before, whatever other runs and programs do between its steps.  The
\* two ways in which the code does are named: names that the file system folds
\* and the code does not, and under Overwrite the fresh copies, whose batch
\* starts without knowing the names of the dump.
SavedFilesStay ==
  [][\A w \in Writers : pc'[w] # pc[w] => \A k \in 1..Len(written[w]) :
       Spoils(w, k) => \/ FoldedApart(w, written[w][k])
                       \/ /\ policy[w] = "overwrite"
                          /\ batch[w] = "fresh" /\ k <= Len(dump[w])]_vars

\* A run that reports success has published every file of its dump.
DoneMeansSaved ==
  \A w \in Writers : pc[w] = "done" => Len(written[w]) >= Len(dump[w])

\* Under Rename no step of a run changes an entry that holds a file from before
\* the runs, however long ago the run looked and whatever the others did since.
RenameKeepsOld ==
  [][\A w \in Writers : policy[w] = "rename" /\ pc'[w] # pc[w] =>
       \A p \in Paths : entries[p] = Old => entries'[p] = Old]_vars

\* Every run ends: the searches for a free name and for a free temporary are
\* bounded, and every error leads out.
EveryRunEnds == \A w \in Writers : <>(pc[w] \in Final)

-----------------------------------------------------------------------------
\* How a run has ended, as the abstract specification sees it: a run that
\* unwinds can no longer publish anything.
Ending(w) ==
  CASE pc[w] = "done" -> "written"
    [] pc[w] \in {"unwind", "failed", "refused", "killed"} -> "cut short"
    [] OTHER -> "none"

Promise == INSTANCE PublishSpec WITH
  promise <- [w \in Writers |-> Len(dump[w])],
  overwrites <- [w \in Writers |-> policy[w] = "overwrite"],
  hole <- [w \in Writers |-> IF pc[w] = "replace" THEN {Target(w)} ELSE {}],
  report <- [w \in Writers |-> Ending(w)]

\* The staging protocol implements the promise of module PublishSpec.
PublishesAsPromised == Promise!Spec
=============================================================================
