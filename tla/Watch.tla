------------------------------- MODULE Watch -------------------------------
(***************************************************************************)
(* process.rs, watch: mempe -w polls the process list until a process of   *)
(* the watched name appears that did not run when the watch began, lets it *)
(* run for a second, asks for it again and hands its pid to the capture    *)
(* (memory.rs, AddressSpace::acquire).  Every call names a process by its  *)
(* pid only, and processes start, end and take over pids between any two   *)
(* calls.  Creation times are the order in which processes started; real   *)
(* time is a timer for the sleep at hand and the age of each process.      *)
(***************************************************************************)
EXTENDS Naturals, FiniteSets

CONSTANTS
  Pids,          \* process identifiers
  CaptureDelay,  \* ticks a new process runs before it is asked for again (1 s)
  PollDelay,     \* ticks between two polls (100 ms)
  MaxPolls,      \* 864 000 in the code
  MaxStarts,     \* bound: processes started after the first state
  MaxAhead       \* bound: ticks the clock may have been set back since a process started

ASSUME WatchAssumption ==
  /\ Pids \subseteq Nat
  /\ CaptureDelay \in Nat
  /\ PollDelay \in Nat
  /\ MaxPolls \in Nat
  /\ MaxStarts \in Nat
  /\ MaxAhead \in Nat

VARIABLES
  procs,     \* procs[p]: the process that has, or last had, pid p
  started,   \* how many processes have started
  age,       \* age[s]: how long ago the s-th process started, up to CaptureDelay
  pc,        \* where the watch is
  began,     \* how many had started when the watch took its baseline
  baseline,  \* the pids the watch ignores
  current,   \* the matching pids of the last listing
  asked,     \* the pids find_new_target has queried in this poll
  found,     \* the processes that answered
  target,    \* the process waited for, found and captured in the end
  timer,     \* ticks left to sleep
  polls,     \* how many polls have begun
  flaws      \* what went wrong outside: a refused query, a pid used again

os == <<procs, started, age>>
vars == <<os, pc, began, baseline, current, asked, found, target, timer, polls, flaws>>

Final == {"captured", "failed", "timeout"}
Places == Final \cup {"begin", "poll", "query", "wait", "confirm", "sleep", "found"}

\* A process as query() reports it; "match" tells whether its name is the
\* watched one, and "created" is 0 for all processes of the first state.
Process == [pid : Pids, created : 0..MaxStarts, match : BOOLEAN]
Slot == [status : {"free", "running", "gone"}, created : 0..MaxStarts, match : BOOLEAN]

Running(p) == procs[p].status = "running"
At(p) == [pid |-> p, created |-> procs[p].created, match |-> procs[p].match]

Init ==
  /\ procs \in [Pids -> {s \in Slot : s.created = 0 /\ s.status # "gone"}]
  /\ started = 0
  /\ age = [s \in 1..MaxStarts |-> 0]
  /\ pc = "begin"
  /\ began = 0
  /\ baseline = {}
  /\ current = {}
  /\ asked = {}
  /\ found = {}
  /\ target \in {t \in Process : t.created = 0 /\ ~ t.match}
  /\ timer = 0
  /\ polls = 0
  /\ flaws = {}

-----------------------------------------------------------------------------
\* The machine: processes start, end, and take pids that became free.
Start(p) ==
  /\ started < MaxStarts
  /\ ~ Running(p)
  /\ \E m \in BOOLEAN :
       procs' = [procs EXCEPT
                   ![p] = [status |-> "running", created |-> started + 1, match |-> m]]
  /\ started' = started + 1
  /\ flaws' = IF procs[p].status = "gone" THEN flaws \cup {"reuse"} ELSE flaws
  /\ UNCHANGED <<age, pc, began, baseline, current, asked, found, target, timer, polls>>

Exit(p) ==
  /\ Running(p)
  /\ procs' = [procs EXCEPT ![p].status = "gone"]
  /\ UNCHANGED <<started, age, pc, began, baseline, current, asked, found, target,
                 timer, polls, flaws>>

Tick ==
  /\ age' = [s \in 1..MaxStarts |->
               IF s <= started /\ age[s] < CaptureDelay THEN age[s] + 1 ELSE age[s]]
  /\ timer' = IF timer = 0 THEN 0 ELSE timer - 1
  /\ UNCHANGED <<procs, started, pc, began, baseline, current, asked, found, target,
                 polls, flaws>>

-----------------------------------------------------------------------------
\* matching_pids over one list_processes.
Matching == {p \in Pids : Running(p) /\ procs[p].match}

\* A listing fails: the error leaves watch.
ListFails ==
  /\ pc \in {"begin", "poll"}
  /\ pc' = "failed"
  /\ UNCHANGED <<os, began, baseline, current, asked, found, target, timer, polls, flaws>>

\* Mutant: the watch begins with nothing to ignore.
BeginEmpty ==
  /\ pc = "begin"
  /\ baseline' = {}
  /\ began' = started
  /\ pc' = "poll"
  /\ UNCHANGED <<os, current, asked, found, target, timer, polls, flaws>>

Begin ==
  /\ pc = "begin"
  /\ baseline' = Matching
  /\ began' = started
  /\ pc' = "poll"
  /\ UNCHANGED <<os, current, asked, found, target, timer, polls, flaws>>

\* Mutant: everything listed is ignored from the next poll on.
StillIgnoredAndListed == baseline \cup Matching

MorePolls == polls < MaxPolls

\* baseline.retain: pids that are no longer listed may count as new again.
StillIgnored == baseline \cap Matching

Poll ==
  /\ pc = "poll"
  /\ IF MorePolls
       THEN /\ current' = Matching
            /\ baseline' = StillIgnored
            /\ polls' = polls + 1
            /\ pc' = "query"
       ELSE pc' = "timeout" /\ UNCHANGED <<current, baseline, polls>>
  /\ asked' = {}
  /\ found' = {}
  /\ UNCHANGED <<os, began, target, timer, flaws>>

\* find_new_target asks for one more pid of the listing; the process may be
\* gone, another one may have its pid, or the query may be refused.
Query(p) ==
  /\ pc = "query"
  /\ p \in current \ (baseline \cup asked)
  /\ asked' = asked \cup {p}
  /\ \/ Running(p) /\ found' = found \cup {At(p)} /\ UNCHANGED flaws
     \/ ~ Running(p) /\ UNCHANGED <<found, flaws>>
     \/ Running(p) /\ flaws' = flaws \cup {"refused"} /\ UNCHANGED found
  /\ UNCHANGED <<os, pc, began, baseline, current, target, timer, polls>>

\* Mutants: whoever answered; no wait.
AnyOf(answers) == answers
NoDelay(t, ahead) == 0

\* min_by_key((created, pid)).
EarliestOf(answers) ==
  {t \in answers : \A u \in answers :
     t.created < u.created \/ (t.created = u.created /\ t.pid <= u.pid)}

\* wait_until_capture_time: how long until the clock is a second past the creation
\* time, which lies ahead of where the clock would have it if that was set back.
Remaining(t, ahead) ==
  IF t.created = 0 THEN ahead ELSE CaptureDelay + ahead - age[t.created]

\* All pids are asked for: wait for the earliest process, or sleep.
Choose ==
  /\ pc = "query"
  /\ current \subseteq baseline \cup asked
  /\ IF found = {}
       THEN /\ pc' = "sleep"
            /\ timer' = PollDelay
            /\ UNCHANGED target
       ELSE \E t \in EarliestOf(found), ahead \in 0..MaxAhead :
              /\ target' = t
              /\ timer' = Remaining(t, ahead)
              /\ pc' = "wait"
  /\ UNCHANGED <<os, began, baseline, current, asked, found, polls, flaws>>

Wake ==
  /\ pc \in {"wait", "sleep"}
  /\ timer = 0
  /\ pc' = IF pc = "wait" THEN "confirm" ELSE "poll"
  /\ UNCHANGED <<os, began, baseline, current, asked, found, target, timer, polls, flaws>>

\* Mutant: a process that does not answer is waited for again.
ConfirmAgain ==
  /\ pc = "confirm"
  /\ pc' = IF Running(target.pid) /\ procs[target.pid].created = target.created
             THEN "found" ELSE "wait"
  /\ UNCHANGED <<os, began, baseline, current, asked, found, target, timer, polls, flaws>>

\* The second query, which compares creation times and nothing else; a process
\* that is not confirmed joins the baseline.
Confirm ==
  LET same == Running(target.pid) /\ procs[target.pid].created = target.created
  IN
  /\ pc = "confirm"
  /\ \/ /\ same
        /\ pc' = "found"
        /\ UNCHANGED <<baseline, timer, flaws>>
     \/ /\ baseline' = baseline \cup {target.pid}
        /\ timer' = PollDelay
        /\ pc' = "sleep"
        /\ flaws' = IF same THEN flaws \cup {"refused"} ELSE flaws
  /\ UNCHANGED <<os, began, current, asked, found, target, polls>>

\* main.rs hands the pid to memory::capture, which opens it anew.
Acquire ==
  /\ pc = "found"
  /\ \/ /\ Running(target.pid)
        /\ target' = At(target.pid)
        /\ pc' = "captured"
     \/ pc' = "failed" /\ UNCHANGED target
  /\ UNCHANGED <<os, began, baseline, current, asked, found, timer, polls, flaws>>

Step ==
  \/ ListFails \/ Begin \/ Poll \/ (\E p \in Pids : Query(p)) \/ Choose
  \/ Wake \/ Confirm \/ Acquire

Next == Step \/ Tick \/ \E p \in Pids : Start(p) \/ Exit(p)

Spec == Init /\ [][Next]_vars

\* The machine's clock advances and the watch is scheduled; nothing is assumed
\* of other processes.
FairSpec == Spec /\ WF_vars(Step) /\ WF_vars(Tick)

-----------------------------------------------------------------------------
TypeOK ==
  /\ procs \in [Pids -> Slot]
  /\ started \in 0..MaxStarts
  /\ age \in [1..MaxStarts -> 0..CaptureDelay]
  /\ pc \in Places
  /\ began \in 0..MaxStarts
  /\ baseline \subseteq Pids
  /\ current \subseteq Pids
  /\ asked \subseteq Pids
  /\ found \subseteq Process
  /\ target \in Process
  /\ timer \in Nat
  /\ polls \in 0..MaxPolls
  /\ flaws \subseteq {"refused", "reuse"}

\* The process handed to the capture started after the watch began, even if it
\* took the pid of an older one (the baseline of watch, and its retain).
FoundIsNew == pc = "found" => target.created > began

\* It had a second to unpack itself before it was asked for again, also if the clock
\* was set back in between (a clock set forward makes the second shorter).
FoundHasRun == pc = "found" => age[target.created] = CaptureDelay

\* As long as no query is refused and no pid used again, a process the watch
\* ignores is an old one or has ended: a new one is never overlooked because
\* another one was waited for first.
NobodyOverlooked ==
  flaws = {} => \A p \in baseline : Running(p) => procs[p].created <= began

\* As long as no query is refused and no pid used again, no older new process of
\* that name is still running when one is found.
FirstIsFound ==
  pc = "found" /\ flaws = {} =>
    \A p \in Matching : procs[p].created > began => procs[p].created >= target.created

\* The watch ends: polls, queries and waits are bounded.
EveryWatchEnds == <>(pc \in Final)
=============================================================================
