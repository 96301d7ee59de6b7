---------------------------- MODULE PublishSpec ----------------------------
(***************************************************************************)
(* What a mempe run promises about the files it leaves in the output       *)
(* folder, whatever else happens on the disk: the files of a run appear    *)
(* one at a time, in the order the run built them, and each one appears    *)
(* whole; a run removes an existing file, or replaces one from before the  *)
(* runs, only if the user chose to overwrite, and having removed one it    *)
(* publishes its next file in that very place or publishes nothing more,   *)
(* so a run never loses more than one existing file; and it says that its  *)
(* dump is written only after every file of the dump was published.  A run *)
(* may replace what appeared since it chose its names.  How files are      *)
(* staged, named and cleaned up is left to the implementation, module      *)
(* OutputWriter.                                                           *)
(***************************************************************************)
EXTENDS Naturals, Sequences

CONSTANTS Writers,   \* the mempe runs that share one output folder
          Paths      \* the directory entries of that folder

VARIABLES entries,   \* what each directory entry holds
          written,   \* written[w]: the entries run w has published to, in order
          promise,   \* promise[w]: how many files the dump of run w has
          overwrites,\* overwrites[w]: the user of run w chose Overwrite
          hole,      \* hole[w]: the entry run w emptied and has yet to fill
          report     \* report[w]: how run w ended

vars == <<entries, written, promise, overwrites, hole, report>>

Absent == [kind |-> "absent"]
Old == [kind |-> "old"]
Foreign == [kind |-> "foreign"]
Directory == [kind |-> "directory"]

\* The k-th file of run w; "whole" tells a complete file from one that was
\* still being written.
Output(w, k, whole) ==
  [kind |-> "output", writer |-> w, index |-> k, whole |-> whole]

Init ==
  /\ entries \in [Paths -> {Absent, Old, Directory}]
  /\ written = [w \in Writers |-> << >>]
  /\ promise \in [Writers -> Nat]
  /\ overwrites = [w \in Writers |-> FALSE]
  /\ hole = [w \in Writers |-> {}]
  /\ report = [w \in Writers |-> "none"]

\* The answer to the collision prompt, given before anything is published.
Agree(w) ==
  /\ report[w] = "none"
  /\ written[w] = << >>
  /\ overwrites' = [overwrites EXCEPT ![w] = TRUE]
  /\ UNCHANGED <<entries, written, promise, hole, report>>

\* The next file of the run appears, whole, under one name: the emptied one if
\* there is one, and never that of a file from before the runs unless the user
\* chose to overwrite.
Publish(w) ==
  /\ report[w] = "none"
  /\ \E p \in Paths :
       /\ entries[p] # Directory
       /\ entries[p] = Old => overwrites[w]
       /\ hole[w] \subseteq {p}
       /\ entries' = [entries EXCEPT ![p] = Output(w, Len(written[w]) + 1, TRUE)]
       /\ written' = [written EXCEPT ![w] = Append(@, p)]
  /\ hole' = [hole EXCEPT ![w] = {}]
  /\ UNCHANGED <<promise, overwrites, report>>

\* Only an overwriting run takes a file away, and one at a time.
Discard(w) ==
  /\ report[w] = "none"
  /\ overwrites[w]
  /\ hole[w] = {}
  /\ \E p \in Paths :
       /\ entries[p] \notin {Absent, Directory}
       /\ entries' = [entries EXCEPT ![p] = Absent]
       /\ hole' = [hole EXCEPT ![w] = {p}]
  /\ UNCHANGED <<written, promise, overwrites, report>>

\* A run ends; it says so of its dump only when all of it is published.
End(w) ==
  /\ report[w] = "none"
  /\ \/ /\ Len(written[w]) >= promise[w]
        /\ hole[w] = {}
        /\ report' = [report EXCEPT ![w] = "written"]
     \/ report' = [report EXCEPT ![w] = "cut short"]
  /\ hole' = [hole EXCEPT ![w] = {}]
  /\ UNCHANGED <<entries, written, promise, overwrites>>

\* Other programs create and delete files and folders as they like.
Elsewhere ==
  /\ \E p \in Paths, e \in {Absent, Foreign, Directory} :
       entries' = [entries EXCEPT ![p] = e]
  /\ UNCHANGED <<written, promise, overwrites, hole, report>>

Next ==
  \/ \E w \in Writers : Agree(w) \/ Publish(w) \/ Discard(w) \/ End(w)
  \/ Elsewhere

Spec == Init /\ [][Next]_vars
=============================================================================
