------------------------------ MODULE Stability ------------------------------
(***************************************************************************)
(* memory.rs, wait_until_stable: the memory of the running target is       *)
(* polled until it no longer changes, or for so many times. A poll lists   *)
(* the regions and reads a sample of their pages, one after the other,     *)
(* while the target goes on. Two signatures are equal only if what was     *)
(* hashed is (a collision of the 64-bit hash is left out).                 *)
(***************************************************************************)
EXTENDS Integers, Sequences, FiniteSets, SequencesExt

CONSTANTS
  PollCount,   \* STABLE_POLL_COUNT
  MatchCount,  \* STABLE_MATCH_COUNT
  MaxReads,    \* MAX_STABILITY_READS
  Layouts,     \* bound: the regions a target may have
  Contents,    \* bound: what a page may hold
  MaxChanges   \* bound: the steps of the target

ASSUME CountsAssumption ==
  /\ PollCount \in Nat \ {0} /\ MatchCount \in Nat \ {0} /\ MaxReads \in Nat \ {0}

VARIABLES
  regions,  \* in address order: [base, pages, watched], is_stability_region being watched
  pages,    \* what the pages of the target hold, by address
  changes,  \* how often the target has taken a step
  pc,       \* "list", "read", "sleep" or "done"
  listed,   \* regions, as this poll lists them
  read,     \* the sampled pages this poll has read
  seen,     \* the signatures so far, in the order of the polls
  matches,  \* how many of them equal the one before, in a row
  outcome   \* "waiting", "settled", "unsettled" or "failed"

vars == <<regions, pages, changes, pc, listed, read, seen, matches, outcome>>

-----------------------------------------------------------------------------
Watched(rs) == SelectSeq(rs, LAMBDA r : r.watched)
PagesOf(rs) ==
  FlattenSeq([k \in DOMAIN Watched(rs) |->
                [p \in 1..Watched(rs)[k].pages |-> Watched(rs)[k].base + p - 1]])

\* No two regions share a page.
ASSUME LayoutsAssumption ==
  \A rs \in Layouts : PagesOf(rs) \in Seq(Nat) /\ IsInjective(PagesOf(rs))

SampleCount(total) == IF total < MaxReads THEN total ELSE MaxReads

\* Mutant: the distance between samples is taken from their number.
SamplePageShort(sample, total, count) == (sample * (total - 1)) \div count

\* sample_page: which of the pages, counted from 0, a sample is.
SamplePage(sample, total, count) ==
  IF count <= 1 THEN 0 ELSE (sample * (total - 1)) \div (count - 1)

\* stability_pages: the addresses that are read.
StabilityPages(rs) ==
  LET all == PagesOf(rs)
      count == SampleCount(Len(all))
  IN  [k \in 1..count |-> all[SamplePage(k - 1, Len(all), count) + 1]]

-----------------------------------------------------------------------------
Init ==
  /\ regions \in Layouts
  /\ pages = [a \in UNION {ToSet(PagesOf(rs)) : rs \in Layouts} |-> CHOOSE c \in Contents : TRUE]
  /\ changes = 0
  /\ pc = "list" /\ listed = <<>> /\ read = <<>> /\ seen = <<>> /\ matches = 0 /\ outcome = "waiting"

\* The target writes to a page, or maps, unmaps or protects a region.
Change ==
  /\ changes < MaxChanges /\ pc # "done"
  /\ changes' = changes + 1
  /\ \/ \E a \in DOMAIN pages, c \in Contents : pages' = [pages EXCEPT ![a] = c] /\ UNCHANGED regions
     \/ regions' \in Layouts /\ UNCHANGED pages
  /\ UNCHANGED <<pc, listed, read, seen, matches, outcome>>

\* The regions are listed, which may fail.
ListRegions ==
  /\ pc = "list"
  /\ \/ pc' = "read" /\ listed' = regions /\ read' = <<>> /\ UNCHANGED outcome
     \/ pc' = "done" /\ outcome' = "failed" /\ UNCHANGED <<listed, read>>
  /\ UNCHANGED <<regions, pages, changes, seen, matches>>

\* memory_signature, one page: what is gone by now hashes as unreadable.
Unreadable == <<>>
ReadPage ==
  /\ pc = "read" /\ Len(read) < Len(StabilityPages(listed))
  /\ LET address == StabilityPages(listed)[Len(read) + 1]
         held == IF address \in ToSet(PagesOf(regions)) THEN <<pages[address]>> ELSE Unreadable
     IN  read' = Append(read, held)
  /\ UNCHANGED <<regions, pages, changes, pc, listed, seen, matches, outcome>>

Signature == <<Watched(listed), read>>

\* Mutant: a signature that differs does not start the count again.
MatchesGoOn == IF seen # <<>> /\ Last(seen) = Signature THEN matches + 1 ELSE matches

\* One round of wait_until_stable: previous is the last of the signatures.
NewMatches == IF seen # <<>> /\ Last(seen) = Signature THEN matches + 1 ELSE 0

Compare ==
  /\ pc = "read" /\ Len(read) = Len(StabilityPages(listed))
  /\ seen' = Append(seen, Signature)
  /\ matches' = NewMatches
  /\ IF NewMatches >= MatchCount THEN pc' = "done" /\ outcome' = "settled"
     ELSE pc' = "sleep" /\ UNCHANGED outcome
  /\ UNCHANGED <<regions, pages, changes, listed, read>>

\* The next poll after STABLE_POLL_DELAY, if there is one left.
Sleep ==
  /\ pc = "sleep"
  /\ IF Len(seen) < PollCount THEN pc' = "list" /\ UNCHANGED outcome
     ELSE pc' = "done" /\ outcome' = "unsettled"
  /\ UNCHANGED <<regions, pages, changes, listed, read, seen, matches>>

Next == Change \/ ListRegions \/ ReadPage \/ Compare \/ Sleep
Spec == Init /\ [][Next]_vars

-----------------------------------------------------------------------------
\* The n polls that end with the k-th saw the same.
SameUpTo(k, n) == n <= k /\ \A j \in (k - n + 1)..k : seen[j] = seen[k]

\* The wait ends early exactly when the target has looked the same for one poll
\* more than the matches that are asked for, and at the first such time; it gives
\* up after all of its polls and not before (wait_until_stable).
SettledIsStill ==
  /\ outcome = "settled" => SameUpTo(Len(seen), MatchCount + 1)
  /\ outcome = "unsettled" => Len(seen) = PollCount /\ ~ SameUpTo(PollCount, MatchCount + 1)
  /\ \A k \in 1..(Len(seen) - 1) : ~ SameUpTo(k, MatchCount + 1)

\* The sample reaches from the first to the last page of the memory that is
\* watched, reads none twice, leaves none out that it could read, and is spread
\* evenly: two gaps differ by at most one page (stability_pages, sample_page).
SamplesSpread ==
  LET all == PagesOf(regions)
      sample == StabilityPages(regions)
      Index(k) == CHOOSE j \in DOMAIN all : all[j] = sample[k]
      Gap(k) == Index(k + 1) - Index(k)
  IN  /\ IsInjective(sample)
      /\ Len(all) <= MaxReads => sample = all
      /\ Len(sample) > 1 => sample[1] = all[1] /\ Last(sample) = Last(all)
      /\ \A i, j \in 1..(Len(sample) - 1) : Gap(i) - Gap(j) \in -1..1
=============================================================================
