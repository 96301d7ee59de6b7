---------------------------- MODULE WatchProofs ----------------------------
(***************************************************************************)
(* Theorems about Watch for any pids, delays and bounds.                   *)
(***************************************************************************)
EXTENDS Watch, TLAPS

\* The watch has its baseline and has not failed.
Looking == pc \notin {"begin", "failed"}

\* A process has been chosen and its pid not yet handed on.
Chosen == pc \in {"wait", "confirm", "found"}

\* Old processes are ignored, and whoever is in the listing under another name
\* took its pid after the baseline: all that is queried is new.
OldIgnored ==
  /\ began <= started
  /\ \A p \in Pids : procs[p].created <= started
  /\ Looking => /\ \A p \in Matching : procs[p].created <= began => p \in baseline
                /\ \A p \in current :
                     Running(p) /\ ~ procs[p].match => procs[p].created > began
                /\ \A t \in found : t.created > began
  /\ Chosen => target.created > began

\* While no pid is used again, a pid still names the process it named.
SameProcess ==
  /\ pc = "begin" => baseline = {} /\ current = {} /\ found = {}
  /\ \A p \in baseline \cup current : procs[p].status # "free"
  /\ \A t \in found : t.pid \in current
  /\ Chosen => target \in found
  /\ "reuse" \notin flaws =>
       \A t \in found : procs[t.pid].created = t.created

\* While no query is refused either, all that are asked and still run have
\* answered, and a process missing from the listing is younger than those in it.
Answers ==
  flaws = {} =>
    /\ pc = "query" =>
         /\ \A p \in asked : p \in current /\ (Running(p) => At(p) \in found)
         /\ \A p \in current, q \in Matching \ current :
              Running(p) => procs[p].created < procs[q].created
         /\ \A t \in found, q \in Matching \ current : t.created < procs[q].created
    /\ Chosen => \A p \in Matching :
         procs[p].created > began => procs[p].created >= target.created

IInv == TypeOK /\ OldIgnored /\ SameProcess /\ NobodyOverlooked /\ Answers

\* The machine's first state, before the watch has looked at anything.
LEMMA InitIInv == Init => IInv
<1> SUFFICES ASSUME Init PROVE IInv
  OBVIOUS
<1> USE WatchAssumption
<1>1. TypeOK
  BY DEF Init, TypeOK, Slot, Process, Places, Final
<1>2. \A p \in Pids : procs[p].created = 0
  BY DEF Init
<1>3. QED
  BY <1>1, <1>2 DEF Init, IInv, OldIgnored, SameProcess, NobodyOverlooked, Answers,
     Looking, Chosen

\* A starting process is younger than all others; if its pid was seen before,
\* that is a reuse.
LEMMA StartIInv == ASSUME IInv, NEW p \in Pids, Start(p) PROVE IInv'
<1> USE WatchAssumption
<1> PICK m \in BOOLEAN :
      procs' = [procs EXCEPT
                  ![p] = [status |-> "running", created |-> started + 1, match |-> m]]
  BY DEF Start
<1>1. started \in Nat /\ started + 1 \in 0..MaxStarts /\ began \in Nat
  BY DEF Start, IInv, TypeOK
<1>2. TypeOK'
  <2>1. procs' \in [Pids -> Slot]
    BY <1>1 DEF IInv, TypeOK, Slot
  <2>2. QED
    BY <1>1, <2>1 DEF Start, IInv, TypeOK
<1>3. /\ procs'[p] = [status |-> "running", created |-> started + 1, match |-> m]
      /\ \A q \in Pids \ {p} : procs'[q] = procs[q]
      /\ ~ Running(p)
      /\ procs \in [Pids -> Slot]
  BY DEF Start, IInv, TypeOK
<1>4. \A q \in Pids : procs[q].created \in Nat /\ procs[q].created <= started
  BY <1>3 DEF IInv, OldIgnored, Slot
<1>5. /\ UNCHANGED <<pc, began, baseline, current, asked, found, target>>
      /\ Looking' = Looking /\ Chosen' = Chosen
      /\ began <= started /\ started' = started + 1
  BY DEF Start, Looking, Chosen, IInv, OldIgnored
<1>6. \A q \in Pids : q # p => (q \in Matching' <=> q \in Matching)
                               /\ Running(q)' = Running(q) /\ At(q)' = At(q)
  BY <1>3 DEF Matching, Running, At
<1>7. OldIgnored'
  BY <1>1, <1>3, <1>4, <1>5, <1>6 DEF IInv, TypeOK, OldIgnored, Matching
<1>8. "reuse" \notin flaws' => "reuse" \notin flaws /\ p \notin baseline \cup current
                                /\ procs[p].status = "free"
  <2>1. procs[p].status \in {"free", "gone"}
    BY <1>3 DEF Running, Slot
  <2>2. QED
    BY <2>1 DEF Start, IInv, SameProcess
<1>9. SameProcess'
  <2>1. \A q \in baseline \cup current : procs'[q].status # "free"
    BY <1>3 DEF IInv, TypeOK, SameProcess
  <2>2. ASSUME "reuse" \notin flaws', NEW t \in found
        PROVE  procs'[t.pid].created = t.created
    BY <2>2, <1>3, <1>8 DEF IInv, TypeOK, SameProcess
  <2>3. QED
    BY <1>5, <2>1, <2>2 DEF IInv, SameProcess
<1>10. flaws' = {} => flaws = {}
  BY DEF Start
<1>11. \A q \in Pids : procs[q].created < started + 1
  BY <1>1, <1>4
<1>12. NobodyOverlooked'
  BY <1>3, <1>5, <1>6, <1>8, <1>10 DEF IInv, TypeOK, NobodyOverlooked
<1>13. Answers'
  <2> SUFFICES ASSUME flaws' = {} PROVE Answers'
    BY DEF Answers
  <2>1. p \notin current /\ p \notin baseline /\ flaws = {}
    BY <1>8, <1>10
  <2>2. ASSUME pc = "query"
        PROVE  /\ \A q \in asked : q \in current /\ (Running(q)' => At(q)' \in found)
               /\ \A q \in current, r \in Matching' \ current :
                    Running(q)' => procs'[q].created < procs'[r].created
               /\ \A t \in found, r \in Matching' \ current : t.created < procs'[r].created
    <3>1. \A q \in asked : q \in current /\ q # p /\ q \in Pids
                           /\ (Running(q)' => At(q)' \in found)
      BY <2>1, <2>2, <1>6 DEF IInv, TypeOK, Answers
    <3>2. ASSUME NEW q \in current, NEW r \in Matching' \ current, Running(q)'
          PROVE  procs'[q].created < procs'[r].created
      <4>1. q \in Pids /\ r \in Pids /\ q # p
        BY <2>1 DEF IInv, TypeOK, Matching
      <4>2. CASE r = p
        BY <4>1, <4>2, <1>1, <1>3, <1>4
      <4>3. CASE r # p
        BY <4>1, <4>3, <3>2, <2>1, <2>2, <1>3, <1>6 DEF IInv, Answers
      <4>4. QED
        BY <4>2, <4>3
    <3>3. ASSUME NEW t \in found, NEW r \in Matching' \ current
          PROVE  t.created < procs'[r].created
      <4>1. t.pid \in Pids /\ t.pid # p /\ r \in Pids /\ procs[t.pid].created = t.created
        BY <2>1 DEF IInv, TypeOK, SameProcess, Matching
      <4>2. CASE r = p
        <5>1. procs'[r].created = started + 1
          BY <4>2, <1>3
        <5>2. QED
          BY <4>1, <5>1, <1>11
      <4>3. CASE r # p
        BY <4>1, <4>3, <3>3, <2>1, <2>2, <1>3, <1>6 DEF IInv, Answers
      <4>4. QED
        BY <4>2, <4>3
    <3>4. QED
      BY <3>1, <3>2, <3>3
  <2>3. ASSUME Chosen, NEW q \in Matching', procs'[q].created > began
        PROVE  procs'[q].created >= target.created
    <3>1. target \in found /\ target.pid \in Pids
          /\ procs[target.pid].created = target.created
      BY <2>1, <2>3 DEF IInv, TypeOK, SameProcess
    <3>2. q \in Pids
      BY DEF Matching
    <3>3. CASE q = p
      <4>1. procs'[q].created = started + 1
        BY <3>3, <1>3
      <4>2. target.created < started + 1
        BY <3>1, <1>11
      <4>3. target.created \in Nat
        BY DEF IInv, TypeOK, Process
      <4>4. QED
        BY <4>1, <4>2, <4>3, <1>1
    <3>4. CASE q # p
      BY <3>2, <3>4, <2>1, <2>3, <1>3, <1>6 DEF IInv, Answers
    <3>5. QED
      BY <3>3, <3>4
  <2>4. QED
    BY <2>2, <2>3, <1>5 DEF Answers
<1>14. QED
  BY <1>2, <1>7, <1>9, <1>12, <1>13 DEF IInv

\* A process that ends leaves every list it was in unchanged.
LEMMA ExitIInv == ASSUME IInv, NEW p \in Pids, Exit(p) PROVE IInv'
<1>1. /\ procs' = [procs EXCEPT ![p].status = "gone"]
      /\ UNCHANGED <<started, pc, began, baseline, current, asked, found, target, flaws>>
      /\ Looking' = Looking /\ Chosen' = Chosen
  BY DEF Exit, Looking, Chosen
<1>2. TypeOK'
  <2>1. procs' \in [Pids -> Slot]
    BY <1>1 DEF IInv, TypeOK, Slot
  <2>2. QED
    BY <2>1 DEF Exit, IInv, TypeOK
<1>3. \A q \in Pids : /\ procs'[q].created = procs[q].created
                      /\ procs'[q].match = procs[q].match
                      /\ procs[q].status # "free" => procs'[q].status # "free"
                      /\ Running(q)' => Running(q)
                      /\ At(q)' = At(q)
  BY <1>1 DEF IInv, TypeOK, Slot, Running, At
<1>4. Matching' \subseteq Matching
  BY <1>3 DEF Matching
<1>5. Matching \subseteq Pids
  BY DEF Matching
<1>6. OldIgnored'
  BY <1>1, <1>3, <1>4, <1>5 DEF IInv, TypeOK, OldIgnored
<1>7. SameProcess'
  <2>1. \A t \in found : t.pid \in Pids
    BY DEF IInv, TypeOK, Process
  <2>2. QED
    BY <1>1, <1>3, <2>1 DEF IInv, TypeOK, SameProcess
<1>8. NobodyOverlooked'
  BY <1>1, <1>3 DEF IInv, TypeOK, NobodyOverlooked
<1>9. Answers'
  BY <1>1, <1>3, <1>4, <1>5 DEF IInv, TypeOK, Answers
<1>10. QED
  BY <1>2, <1>6, <1>7, <1>8, <1>9 DEF IInv

\* The steps that neither touch a process nor the lists of the watch.
LEMMA QuietIInv ==
  ASSUME IInv, Tick \/ ListFails \/ Wake \/ Acquire
  PROVE  IInv'
<1> USE WatchAssumption
<1>1. CASE Tick
  <2>1. age' \in [1..MaxStarts -> 0..CaptureDelay]
    BY <1>1 DEF Tick, IInv, TypeOK
  <2>2. timer' \in Nat
    BY <1>1 DEF Tick, IInv, TypeOK
  <2>3. QED
    BY <1>1, <2>1, <2>2 DEF Tick, IInv, TypeOK, OldIgnored, SameProcess,
       NobodyOverlooked, Answers, Looking, Chosen, Matching, Running, At
<1>2. CASE ListFails
  BY <1>2 DEF ListFails, os, IInv, TypeOK, Places, Final, OldIgnored, SameProcess,
     NobodyOverlooked, Answers, Looking, Chosen, Matching, Running, At
<1>3. CASE Wake
  BY <1>3 DEF Wake, os, IInv, TypeOK, Places, Final, OldIgnored, SameProcess,
     NobodyOverlooked, Answers, Looking, Chosen, Matching, Running, At
<1>4. CASE Acquire
  <2>1. target' \in Process
    <3>1. Running(target.pid) => At(target.pid) \in Process
      BY DEF IInv, TypeOK, Process, Slot, At
    <3>2. QED
      BY <1>4, <3>1 DEF Acquire, IInv, TypeOK
  <2>2. pc' \in {"captured", "failed"} /\ pc = "found"
    BY <1>4 DEF Acquire
  <2>3. QED
    BY <1>4, <2>1, <2>2 DEF Acquire, os, IInv, TypeOK, Places, Final, OldIgnored,
       SameProcess, NobodyOverlooked, Answers, Looking, Chosen, Matching, Running, At
<1>5. QED
  BY <1>1, <1>2, <1>3, <1>4

\* The baseline is what ran when the watch began, and a poll only forgets pids
\* that are no longer listed.
LEMMA ListingIInv == ASSUME IInv, Begin \/ Poll PROVE IInv'
<1> USE WatchAssumption
<1>1. /\ Matching \subseteq Pids
      /\ \A p \in Matching : Running(p) /\ procs[p].match /\ procs[p].status # "free"
  BY DEF Matching, Running
<1>2. UNCHANGED os
  BY DEF Begin, Poll
<1>3. Matching' = Matching /\ \A p \in Pids : Running(p)' = Running(p) /\ At(p)' = At(p)
  BY <1>2 DEF os, Matching, Running, At
<1>4. CASE Begin
  <2>1. TypeOK'
    BY <1>1, <1>4 DEF Begin, os, IInv, TypeOK, Places
  <2>2. /\ baseline' = Matching /\ began' = started /\ pc = "begin" /\ pc' = "poll"
        /\ UNCHANGED <<procs, started, current, found, target, flaws>>
        /\ current = {} /\ found = {}
    BY <1>4 DEF Begin, os, IInv, SameProcess
  <2>3. \A p \in Pids : procs[p].created <= started
    BY DEF IInv, OldIgnored
  <2>4. OldIgnored'
    BY <1>1, <1>3, <2>2, <2>3 DEF IInv, TypeOK, OldIgnored, Looking, Chosen
  <2>5. SameProcess'
    BY <1>1, <2>2 DEF SameProcess, Chosen
  <2>6. NobodyOverlooked'
    <3>1. \A p \in Matching : procs[p].created <= started
      BY <1>1, <2>3
    <3>2. baseline' = Matching /\ began' = started /\ procs' = procs
      BY <2>2
    <3>3. QED
      BY <3>1, <3>2 DEF NobodyOverlooked
  <2>7. Answers'
    BY <2>2 DEF Answers, Chosen
  <2>8. QED
    BY <2>1, <2>4, <2>5, <2>6, <2>7 DEF IInv
<1>5. CASE Poll
  <2>1. TypeOK'
    <3>1. baseline' \subseteq Pids /\ current' \subseteq Pids
      BY <1>1, <1>5 DEF Poll, StillIgnored, IInv, TypeOK
    <3>2. polls' \in 0..MaxPolls
      BY <1>5 DEF Poll, MorePolls, IInv, TypeOK
    <3>3. pc' \in Places
      BY <1>5 DEF Poll, Places, Final
    <3>4. QED
      BY <1>5, <3>1, <3>2, <3>3 DEF Poll, os, IInv, TypeOK
  <2>2. CASE pc' = "timeout"
    BY <1>1, <1>3, <1>5, <2>1, <2>2 DEF Poll, os, IInv, TypeOK, OldIgnored, SameProcess,
       NobodyOverlooked, Answers, Looking, Chosen
  <2>3. CASE pc' = "query"
    <3>1. /\ current' = Matching /\ baseline' = baseline \cap Matching
          /\ asked' = {} /\ found' = {} /\ pc = "poll"
          /\ UNCHANGED <<procs, started, began, target, flaws>>
      BY <1>5, <2>3 DEF Poll, StillIgnored, os
    <3>2. OldIgnored'
      BY <1>1, <1>3, <2>3, <3>1 DEF IInv, TypeOK, OldIgnored, Looking, Chosen
    <3>3. SameProcess' /\ NobodyOverlooked' /\ Answers'
      BY <1>1, <1>3, <2>3, <3>1 DEF IInv, TypeOK, SameProcess, NobodyOverlooked,
         Answers, Chosen
    <3>4. QED
      BY <2>1, <3>2, <3>3 DEF IInv
  <2>4. QED
    BY <1>5, <2>2, <2>3 DEF Poll
<1>6. QED
  BY <1>4, <1>5

\* One pid is asked for: it is not ignored, so the process that has it is new.
LEMMA QueryIInv == ASSUME IInv, NEW p \in Pids, Query(p) PROVE IInv'
<1> USE WatchAssumption
<1>1. /\ UNCHANGED <<procs, started, pc, began, baseline, current, target>>
      /\ pc = "query" /\ p \in current /\ p \notin baseline
      /\ asked' = asked \cup {p}
      /\ Looking' = Looking /\ Chosen' = Chosen /\ Looking /\ ~ Chosen
  BY DEF Query, os, Looking, Chosen
<1>2. /\ Matching' = Matching /\ Matching \subseteq Pids
      /\ \A q \in Pids : Running(q)' = Running(q) /\ At(q)' = At(q)
  BY <1>1 DEF Matching, Running, At
<1>3. \/ Running(p) /\ found' = found \cup {At(p)} /\ flaws' = flaws
      \/ ~ Running(p) /\ found' = found /\ flaws' = flaws
      \/ Running(p) /\ found' = found /\ flaws' = flaws \cup {"refused"}
  BY DEF Query
<1>4. At(p).pid = p /\ At(p).created = procs[p].created /\ At(p) \in Process
  BY DEF At, Process, IInv, TypeOK, Slot
<1>5. TypeOK'
  <2>1. asked' \subseteq Pids /\ found' \subseteq Process /\ flaws' \subseteq {"refused", "reuse"}
    BY <1>1, <1>3, <1>4 DEF IInv, TypeOK
  <2>2. QED
    BY <2>1 DEF Query, os, IInv, TypeOK
<1>6. OldIgnored'
  <2>1. Running(p) => procs[p].created > began
    <3>1. CASE procs[p].match
      <4>1. Running(p) => p \in Matching
        BY <3>1 DEF Matching
      <4>2. procs[p].created \in Nat /\ began \in Nat
        BY DEF IInv, TypeOK, Slot
      <4>3. QED
        BY <1>1, <4>1, <4>2 DEF IInv, OldIgnored
    <3>2. CASE ~ procs[p].match
      BY <1>1, <3>2 DEF IInv, OldIgnored
    <3>3. QED
      BY <3>1, <3>2
  <2>2. \A t \in found' : t.created > began
    BY <1>1, <1>3, <1>4, <2>1 DEF IInv, OldIgnored
  <2>3. QED
    BY <1>1, <1>2, <2>2 DEF IInv, TypeOK, OldIgnored
<1>7. SameProcess'
  BY <1>1, <1>3, <1>4 DEF IInv, SameProcess
<1>8. NobodyOverlooked'
  BY <1>1, <1>2, <1>3 DEF IInv, TypeOK, NobodyOverlooked
<1>9. Answers'
  BY <1>1, <1>2, <1>3, <1>4 DEF IInv, TypeOK, Answers
<1>10. QED
  BY <1>5, <1>6, <1>7, <1>8, <1>9 DEF IInv

\* All pids are asked for; whoever still runs is in the answers, so the
\* earliest answer is the earliest new process.
LEMMA ChooseIInv == ASSUME IInv, Choose PROVE IInv'
<1> USE WatchAssumption
<1>1. /\ UNCHANGED <<procs, started, age, began, baseline, current, asked, found, polls, flaws>>
      /\ pc = "query" /\ current \subseteq baseline \cup asked
  BY DEF Choose, os
<1>2. /\ Matching' = Matching /\ Matching \subseteq Pids
      /\ \A q \in Pids : Running(q)' = Running(q) /\ At(q)' = At(q)
  BY <1>1 DEF Matching, Running, At
<1>3. CASE pc' = "sleep"
  <2>1. target' = target /\ timer' = PollDelay
    BY <1>3 DEF Choose
  <2>2. QED
    BY <1>1, <1>2, <1>3, <2>1 DEF IInv, TypeOK, Places, OldIgnored, SameProcess,
       NobodyOverlooked, Answers, Looking, Chosen
<1>4. CASE pc' = "wait"
  <2>1. PICK t \in EarliestOf(found), ahead \in 0..MaxAhead :
               target' = t /\ timer' = Remaining(t, ahead)
    BY <1>4 DEF Choose
  <2>2. /\ t \in found /\ t \in Process
        /\ \A u \in found : t.created <= u.created
    BY <2>1 DEF EarliestOf, IInv, TypeOK, Process
  <2>3. Remaining(t, ahead) \in Nat
    <3>1. CASE t.created = 0
      BY <3>1 DEF Remaining
    <3>2. CASE t.created # 0
      <4>1. t.created \in 1..MaxStarts
        BY <2>2, <3>2 DEF Process
      <4>2. age[t.created] \in 0..CaptureDelay
        BY <4>1 DEF IInv, TypeOK
      <4>3. QED
        BY <3>2, <4>2 DEF Remaining
    <3>3. QED
      BY <3>1, <3>2
  <2>4. TypeOK'
    BY <1>1, <1>4, <2>1, <2>2, <2>3 DEF IInv, TypeOK, Places, Process
  <2>5. OldIgnored'
    BY <1>1, <1>2, <1>4, <2>1, <2>2 DEF IInv, TypeOK, OldIgnored, Looking, Chosen
  <2>6. SameProcess' /\ NobodyOverlooked'
    BY <1>1, <1>2, <1>4, <2>1, <2>2 DEF IInv, TypeOK, SameProcess, NobodyOverlooked, Chosen
  <2>7. Answers'
    <3> SUFFICES ASSUME flaws = {}, NEW p \in Matching, procs[p].created > began
                 PROVE  procs[p].created >= t.created
      BY <1>1, <1>2, <1>4, <2>1 DEF Answers, Chosen
    <3>1. Running(p) /\ p \in Pids
      BY DEF Matching
    <3>2. procs[p].created \in Nat /\ t.created \in Nat /\ began \in Nat
      BY <2>2, <3>1 DEF IInv, TypeOK, Slot, Process
    <3>3. CASE p \in current
      <4>1. p \notin baseline
        BY <3>1, <3>2 DEF IInv, NobodyOverlooked
      <4>2. At(p) \in found
        BY <1>1, <3>1, <3>3, <4>1 DEF IInv, Answers
      <4>3. At(p).created = procs[p].created
        BY DEF At
      <4>4. QED
        BY <2>2, <3>2, <4>2, <4>3
    <3>4. CASE p \notin current
      BY <1>1, <2>2, <3>2, <3>4 DEF IInv, Answers
    <3>5. QED
      BY <3>3, <3>4
  <2>8. QED
    BY <2>4, <2>5, <2>6, <2>7 DEF IInv
<1>5. QED
  BY <1>3, <1>4 DEF Choose

\* A process that is not confirmed has ended, unless the query was refused or
\* the pid used again.
LEMMA ConfirmIInv == ASSUME IInv, Confirm PROVE IInv'
<1> USE WatchAssumption
<1>1. /\ UNCHANGED <<procs, started, began, current, asked, found, target, polls>>
      /\ pc = "confirm" /\ Chosen /\ Looking
  BY DEF Confirm, os, Chosen, Looking
<1>2. /\ Matching' = Matching /\ Matching \subseteq Pids
      /\ \A q \in Pids : Running(q)' = Running(q) /\ At(q)' = At(q)
  BY <1>1 DEF Matching, Running, At
<1>3. /\ target \in found /\ target.pid \in current /\ target.pid \in Pids
      /\ "reuse" \notin flaws => procs[target.pid].created = target.created
  BY <1>1 DEF IInv, TypeOK, SameProcess, Process
<1>4. \/ pc' = "found" /\ baseline' = baseline /\ timer' = timer /\ flaws' = flaws
      \/ /\ pc' = "sleep" /\ baseline' = baseline \cup {target.pid} /\ timer' = PollDelay
         /\ flaws' = {} => flaws = {} /\ ~ Running(target.pid)
         /\ "reuse" \notin flaws' => "reuse" \notin flaws
         /\ flaws' \subseteq {"refused", "reuse"}
  BY <1>3 DEF Confirm, IInv, TypeOK
<1>5. TypeOK'
  BY <1>1, <1>3, <1>4 DEF Confirm, os, IInv, TypeOK, Places
<1>6. OldIgnored' /\ SameProcess'
  BY <1>1, <1>2, <1>3, <1>4 DEF IInv, TypeOK, OldIgnored, SameProcess, Looking, Chosen
<1>7. NobodyOverlooked'
  BY <1>1, <1>2, <1>3, <1>4 DEF IInv, TypeOK, NobodyOverlooked
<1>8. Answers'
  BY <1>1, <1>2, <1>4 DEF IInv, Answers, Chosen
<1>9. QED
  BY <1>5, <1>6, <1>7, <1>8 DEF IInv

\* Every step keeps the inductive invariant.
LEMMA NextIInv == IInv /\ [Next]_vars => IInv'
<1> SUFFICES ASSUME IInv, [Next]_vars PROVE IInv'
  OBVIOUS
<1>1. CASE UNCHANGED vars
  BY <1>1 DEF vars, os, IInv, TypeOK, OldIgnored, SameProcess, NobodyOverlooked,
     Answers, Looking, Chosen, Matching, Running, At
<1>2. CASE \E p \in Pids : Start(p) \/ Exit(p) \/ Query(p)
  BY <1>2, StartIInv, ExitIInv, QueryIInv
<1>3. CASE Tick \/ ListFails \/ Wake \/ Acquire
  BY <1>3, QuietIInv
<1>4. CASE Begin \/ Poll
  BY <1>4, ListingIInv
<1>5. CASE Choose
  BY <1>5, ChooseIInv
<1>6. CASE Confirm
  BY <1>6, ConfirmIInv
<1>7. QED
  BY <1>1, <1>2, <1>3, <1>4, <1>5, <1>6 DEF Next, Step

\* The inductive invariant holds throughout.
LEMMA Invariance == Spec => []IInv
BY InitIInv, NextIInv, PTL DEF Spec

\* Every variable keeps its type.
THEOREM TypeCorrect == Spec => []TypeOK
<1>1. IInv => TypeOK
  BY DEF IInv
<1>2. QED
  BY <1>1, Invariance, PTL

\* Whatever processes do with their pids, the process handed to the capture
\* started after the watch took its baseline.
THEOREM OnlyNew == Spec => []FoundIsNew
<1>1. IInv => FoundIsNew
  BY DEF IInv, OldIgnored, Chosen, FoundIsNew
<1>2. QED
  BY <1>1, Invariance, PTL

\* Without refused queries and reused pids, no running new process is ignored.
THEOREM NoneOverlooked == Spec => []NobodyOverlooked
<1>1. IInv => NobodyOverlooked
  BY DEF IInv
<1>2. QED
  BY <1>1, Invariance, PTL

\* Without them, the process found is the earliest of the new ones that run.
THEOREM EarliestFound == Spec => []FirstIsFound
<1>1. IInv => FirstIsFound
  BY DEF IInv, Answers, Chosen, FirstIsFound
<1>2. QED
  BY <1>1, Invariance, PTL

-----------------------------------------------------------------------------
\* While the watch sleeps, the sleep left and the age of the chosen process make
\* up the delay; once it has slept, the process is old enough and stays so.
Waited ==
  /\ \A t \in found : t.created <= started
  /\ pc = "wait" => timer + age[target.created] >= CaptureDelay
  /\ pc \in {"confirm", "found"} => age[target.created] = CaptureDelay

\* The chosen process is one of those that have started, so it has an age.
LEMMA ChosenHasAge ==
  ASSUME IInv, Waited, Chosen
  PROVE  /\ target.created \in 1..MaxStarts /\ target.created <= started
         /\ age[target.created] \in 0..CaptureDelay
<1>1. target \in found /\ target.created > began
  BY DEF IInv, SameProcess, OldIgnored
<1>2. target.created \in 0..MaxStarts /\ began \in 0..MaxStarts
  BY DEF IInv, TypeOK, Process
<1>3. target.created \in 1..MaxStarts
  BY <1>1, <1>2, WatchAssumption
<1>4. age[target.created] \in 0..CaptureDelay
  BY <1>3 DEF IInv, TypeOK
<1>5. QED
  BY <1>1, <1>3, <1>4 DEF Waited

\* Time passes for the sleep and the process alike.
LEMMA TickWaited == ASSUME IInv, Waited, Tick PROVE Waited'
<1> USE WatchAssumption
<1>1. UNCHANGED <<found, started, pc, target>>
  BY DEF Tick
<1>2. CASE ~ Chosen
  BY <1>1, <1>2 DEF Waited, Chosen
<1>3. CASE Chosen
  <2> DEFINE s == target.created
  <2>1. s \in 1..MaxStarts /\ s <= started /\ age[s] \in 0..CaptureDelay
    BY <1>3, ChosenHasAge
  <2>2. age'[s] = IF age[s] < CaptureDelay THEN age[s] + 1 ELSE age[s]
    BY <2>1 DEF Tick
  <2>3. timer \in Nat /\ timer' = IF timer = 0 THEN 0 ELSE timer - 1
    BY DEF Tick, IInv, TypeOK
  <2>4. /\ pc = "wait" => timer + age[s] >= CaptureDelay
        /\ pc \in {"confirm", "found"} => age[s] = CaptureDelay
    BY DEF Waited
  <2> HIDE DEF s
  <2>5. pc = "wait" => timer' + age'[s] >= CaptureDelay
    BY <2>1, <2>2, <2>3, <2>4
  <2>6. pc \in {"confirm", "found"} => age'[s] = CaptureDelay
    BY <2>1, <2>2, <2>4
  <2>7. QED
    BY <1>1, <2>5, <2>6 DEF Waited, s
<1>4. QED
  BY <1>2, <1>3

\* The sleep is chosen so that it ends when the process is old enough.
LEMMA ChooseWaited == ASSUME IInv, Waited, Choose PROVE Waited'
<1> USE WatchAssumption
<1>1. UNCHANGED <<found, started, age>> /\ pc = "query"
  BY DEF Choose, os
<1>2. CASE pc' = "sleep"
  BY <1>1, <1>2 DEF Waited
<1>3. CASE pc' = "wait"
  <2>1. PICK t \in EarliestOf(found), ahead \in 0..MaxAhead :
               target' = t /\ timer' = Remaining(t, ahead)
    BY <1>3 DEF Choose
  <2>2. t \in found /\ t.created > began /\ began \in 0..MaxStarts /\ t.created \in 0..MaxStarts
    BY <1>1, <2>1 DEF EarliestOf, IInv, TypeOK, Process, OldIgnored, Looking
  <2>3. t.created \in 1..MaxStarts
    BY <2>2
  <2>4. age[t.created] \in 0..CaptureDelay
    BY <2>3 DEF IInv, TypeOK
  <2>5. Remaining(t, ahead) = CaptureDelay + ahead - age[t.created]
    BY <2>3 DEF Remaining
  <2>6. timer' + age'[target'.created] >= CaptureDelay
    BY <1>1, <2>1, <2>4, <2>5
  <2>7. QED
    BY <1>1, <1>3, <2>6 DEF Waited
<1>4. QED
  BY <1>2, <1>3 DEF Choose

\* Every step keeps it.
LEMMA NextWaited == IInv /\ Waited /\ [Next]_vars => Waited'
<1> SUFFICES ASSUME IInv, Waited, [Next]_vars PROVE Waited'
  OBVIOUS
<1> USE WatchAssumption
<1>1. CASE Tick
  BY <1>1, TickWaited
<1>2. CASE Choose
  BY <1>2, ChooseWaited
<1>3. CASE \E p \in Pids : Start(p) \/ Exit(p)
  <2>1. started \in Nat /\ started' \in {started, started + 1}
    BY <1>3 DEF Start, Exit, IInv, TypeOK
  <2>2. \A t \in found : t.created \in Nat
    BY DEF IInv, TypeOK, Process
  <2>3. UNCHANGED <<age, pc, found, target, timer>>
    BY <1>3 DEF Start, Exit
  <2>4. QED
    BY <2>1, <2>2, <2>3 DEF Waited
<1>4. CASE \E p \in Pids : Query(p)
  <2>1. PICK p \in Pids : Query(p)
    BY <1>4
  <2>2. /\ found' \in {found, found \cup {At(p)}} /\ UNCHANGED started
        /\ pc = "query" /\ pc' = "query"
    BY <2>1 DEF Query, os
  <2>3. At(p).created <= started
    BY DEF At, IInv, OldIgnored
  <2>4. QED
    BY <2>2, <2>3 DEF Waited
<1>5. CASE Wake
  <2>1. timer = 0 /\ UNCHANGED <<age, started, found, target>>
        /\ \/ pc = "wait" /\ pc' = "confirm"
           \/ pc = "sleep" /\ pc' = "poll"
    BY <1>5 DEF Wake, os
  <2>2. CASE pc = "wait"
    <3>1. age[target.created] \in 0..CaptureDelay
      BY <2>2, ChosenHasAge DEF Chosen
    <3>2. age[target.created] = CaptureDelay
      BY <2>1, <2>2, <3>1 DEF Waited
    <3>3. QED
      BY <2>1, <2>2, <3>2 DEF Waited
  <2>3. CASE pc = "sleep"
    BY <1>5, <2>3 DEF Wake, os, Waited
  <2>4. QED
    BY <1>5, <2>2, <2>3 DEF Wake
<1>6. CASE Confirm
  BY <1>6 DEF Confirm, os, Waited
<1>7. CASE ListFails \/ Begin \/ Acquire
  BY <1>7 DEF ListFails, Begin, Acquire, os, Waited
<1>8. CASE Poll
  BY <1>8 DEF Poll, os, Waited
<1>9. CASE UNCHANGED vars
  BY <1>9 DEF vars, os, Waited
<1>10. QED
  BY <1>1, <1>2, <1>3, <1>4, <1>5, <1>6, <1>7, <1>8, <1>9 DEF Next, Step

\* Whenever the watch hands a process on, that process has run for the whole
\* delay, however old it was when it was chosen and whatever else happened since.
THEOREM FoundHasWaited == Spec => []FoundHasRun
<1>1. Init => Waited
  BY DEF Init, Waited
<1>2. Waited => FoundHasRun
  BY DEF Waited, FoundHasRun
<1>3. QED
  BY <1>1, <1>2, NextWaited, Invariance, PTL DEF Spec
=============================================================================
