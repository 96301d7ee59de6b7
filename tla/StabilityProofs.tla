---------------------------- MODULE StabilityProofs ----------------------------
(***************************************************************************)
(* The wait of Stability ends early exactly when it should, and its sample *)
(* is spread over all the memory that is watched, for any counts of polls, *)
(* matches and reads, any layouts and any contents.                        *)
(***************************************************************************)
EXTENDS Stability, TLAPS

\* What can be read of a page, and the signatures there are.
Held == {<<c>> : c \in Contents \cup {CHOOSE c \in Contents : TRUE}} \cup {Unreadable}
Signatures == {Watched(rs) : rs \in Layouts \cup {<<>>}} \X Seq(Held)

TypeOK ==
  /\ regions \in Layouts /\ listed \in Layouts \cup {<<>>}
  /\ pages \in [UNION {ToSet(PagesOf(rs)) : rs \in Layouts} -> Contents \cup {CHOOSE c \in Contents : TRUE}]
  /\ read \in Seq(Held) /\ seen \in Seq(Signatures) /\ matches \in Nat

\* matches counts how many polls, up to the last, saw what the one before saw.
MatchesCounted ==
  /\ seen = <<>> => matches = 0
  /\ seen # <<>> => matches < Len(seen)
  /\ \A j \in (Len(seen) - matches)..Len(seen) : j >= 1 => seen[j] = seen[Len(seen)]
  /\ Len(seen) - matches > 1 => seen[Len(seen) - matches - 1] # seen[Len(seen)]

\* Where the loop is, and how many polls there have been by then.
LoopCounted ==
  /\ pc \in {"list", "read"} => outcome = "waiting" /\ Len(seen) < PollCount
  /\ pc = "sleep" => outcome = "waiting" /\ Len(seen) <= PollCount
  /\ pc \in {"list", "read", "sleep", "done"}
  /\ outcome = "settled" => matches >= MatchCount
  /\ outcome # "settled" => matches < MatchCount
  /\ outcome = "unsettled" => Len(seen) = PollCount

NoneEarlier == \A k \in 1..(Len(seen) - 1) : ~ SameUpTo(k, MatchCount + 1)

WaitInv == TypeOK /\ MatchesCounted /\ LoopCounted /\ NoneEarlier

-----------------------------------------------------------------------------
\* With matches counted, the last polls saw the same exactly if there are enough.
LEMMA SameByMatches ==
  ASSUME TypeOK, MatchesCounted
  PROVE  SameUpTo(Len(seen), MatchCount + 1) <=> (matches >= MatchCount /\ seen # <<>>)
<1> USE CountsAssumption
<1>1. Len(seen) \in Nat /\ matches \in Nat /\ MatchCount \in Nat /\ MatchCount >= 1
  BY DEF TypeOK
<1>2. seen # <<>> <=> Len(seen) >= 1
  BY <1>1 DEF TypeOK
<1>3. ASSUME matches >= MatchCount, seen # <<>>
      PROVE  SameUpTo(Len(seen), MatchCount + 1)
  BY <1>1, <1>2, <1>3 DEF MatchesCounted, SameUpTo
<1>4. ASSUME SameUpTo(Len(seen), MatchCount + 1), matches < MatchCount
      PROVE  FALSE
  <2>1. Len(seen) - matches > 1
    BY <1>1, <1>4 DEF SameUpTo
  <2>2. (Len(seen) - matches - 1) \in (Len(seen) - (MatchCount + 1) + 1)..Len(seen)
    BY <1>1, <1>4, <2>1
  <2> QED BY <1>4, <2>1, <2>2 DEF SameUpTo, MatchesCounted
<1>5. SameUpTo(Len(seen), MatchCount + 1) => seen # <<>>
  BY <1>1, <1>2 DEF SameUpTo
<1> QED BY <1>1, <1>3, <1>4, <1>5

LEMMA InitWait == Init => WaitInv
<1> SUFFICES ASSUME Init PROVE WaitInv
  OBVIOUS
<1> USE CountsAssumption
<1>1. TypeOK
  BY DEF Init, TypeOK
<1>2. seen = <<>> /\ Len(seen) = 0 /\ matches = 0
  BY DEF Init
<1>3. MatchesCounted /\ NoneEarlier
  BY <1>2 DEF MatchesCounted, NoneEarlier
<1>4. LoopCounted
  BY <1>2 DEF Init, LoopCounted
<1> QED BY <1>1, <1>3, <1>4 DEF WaitInv

-----------------------------------------------------------------------------
LEMMA TypeStep ==
  ASSUME WaitInv, [Next]_vars
  PROVE  TypeOK'
<1> USE DEF WaitInv, TypeOK
<1>1. CASE Change
  BY <1>1 DEF Change
<1>2. CASE ListRegions
  <2>1. <<>> \in Seq(Held)
    OBVIOUS
  <2>2. read' \in Seq(Held) /\ listed' \in Layouts \cup {<<>>}
    BY <1>2, <2>1 DEF ListRegions
  <2>3. UNCHANGED <<regions, pages, seen, matches>>
    BY <1>2 DEF ListRegions
  <2> QED BY <2>2, <2>3
<1>3. CASE ReadPage
  <2> DEFINE address == StabilityPages(listed)[Len(read) + 1]
             held == IF address \in ToSet(PagesOf(regions)) THEN <<pages[address]>> ELSE Unreadable
  <2>1. address \in ToSet(PagesOf(regions)) => address \in UNION {ToSet(PagesOf(rs)) : rs \in Layouts}
    OBVIOUS
  <2>2. held \in Held
    <3> HIDE DEF address
    <3> QED BY <2>1 DEF Held
  <2>3. read' = Append(read, held)
    BY <1>3 DEF ReadPage
  <2> HIDE DEF held
  <2>4. read' \in Seq(Held)
    BY <2>2, <2>3
  <2> QED BY <1>3, <2>4 DEF ReadPage
<1>4. CASE Compare
  <2>1. Signature \in Signatures
    BY DEF Signature, Signatures
  <2>2. seen' \in Seq(Signatures)
    BY <1>4, <2>1 DEF Compare
  <2>3. matches' \in Nat
    BY <1>4 DEF Compare, NewMatches
  <2> QED BY <1>4, <2>2, <2>3 DEF Compare
<1>5. CASE Sleep
  BY <1>5 DEF Sleep
<1>6. CASE UNCHANGED vars
  BY <1>6 DEF vars
<1> QED BY <1>1, <1>2, <1>3, <1>4, <1>5, <1>6 DEF Next

\* A poll that saw the same adds one to the count, any other starts it again.
LEMMA CompareCounts ==
  ASSUME WaitInv, Compare
  PROVE  MatchesCounted'
<1> USE DEF WaitInv, TypeOK
<1>1. Signature \in Signatures
  BY DEF Signature, Signatures
<1>2. seen' = Append(seen, Signature) /\ matches' = NewMatches
  BY DEF Compare
<1> HIDE DEF TypeOK
<1>3. /\ Len(seen) \in Nat /\ Len(seen') = Len(seen) + 1 /\ seen'[Len(seen) + 1] = Signature
      /\ \A j \in 1..Len(seen) : seen'[j] = seen[j]
  BY <1>1, <1>2 DEF TypeOK
<1>4. (seen = <<>> <=> Len(seen) = 0) /\ seen' # <<>> /\ matches \in Nat
  BY <1>1, <1>2 DEF TypeOK
<1>5. CASE seen # <<>> /\ seen[Len(seen)] = Signature
  <2>1. matches' = matches + 1 /\ matches < Len(seen)
    BY <1>2, <1>5 DEF NewMatches, Last, MatchesCounted
  <2>2. ASSUME NEW j \in (Len(seen') - matches')..Len(seen'), j >= 1
        PROVE  seen'[j] = Signature
    <3>1. CASE j = Len(seen) + 1
      BY <1>3, <3>1
    <3>2. CASE j <= Len(seen)
      <4>1. j \in (Len(seen) - matches)..Len(seen) /\ j \in 1..Len(seen)
        BY <1>3, <1>4, <2>1, <2>2, <3>2
      <4> QED BY <1>3, <1>5, <2>2, <4>1 DEF MatchesCounted
    <3> QED BY <1>3, <1>4, <2>1, <3>1, <3>2
  <2>3. Len(seen') - matches' > 1 => seen'[Len(seen') - matches' - 1] # Signature
    BY <1>3, <1>4, <1>5, <2>1 DEF MatchesCounted
  <2> QED BY <1>3, <1>4, <2>1, <2>2, <2>3 DEF MatchesCounted
<1>6. CASE ~ (seen # <<>> /\ seen[Len(seen)] = Signature)
  <2>1. matches' = 0
    BY <1>2, <1>6 DEF NewMatches, Last
  <2>2. Len(seen') > 1 => seen'[Len(seen') - 1] # seen'[Len(seen')]
    BY <1>3, <1>4, <1>6
  <2> QED BY <1>3, <1>4, <2>1, <2>2 DEF MatchesCounted
<1> QED BY <1>5, <1>6

LEMMA CompareKeeps ==
  ASSUME WaitInv, Compare
  PROVE  LoopCounted' /\ NoneEarlier'
<1> USE CountsAssumption
<1>1. Signature \in Signatures /\ seen' = Append(seen, Signature) /\ seen \in Seq(Signatures)
  BY DEF WaitInv, TypeOK, Signature, Signatures, Compare
<1>2. Len(seen) \in Nat /\ Len(seen') = Len(seen) + 1 /\ \A j \in 1..Len(seen) : seen'[j] = seen[j]
  BY <1>1
<1>3. pc = "read" /\ outcome = "waiting" /\ Len(seen) < PollCount /\ matches < MatchCount
  BY DEF WaitInv, LoopCounted, Compare
<1>4. LoopCounted'
  <2>1. matches' = NewMatches /\ matches' \in Nat
    BY DEF Compare, NewMatches, WaitInv, TypeOK
  <2> QED BY <1>2, <1>3, <2>1 DEF LoopCounted, Compare
<1>5. ~ SameUpTo(Len(seen), MatchCount + 1)
  BY <1>3, SameByMatches DEF WaitInv, TypeOK
<1>6. ASSUME NEW k \in 1..(Len(seen') - 1), SameUpTo(k, MatchCount + 1)'
      PROVE  FALSE
  <2>1. k \in 1..Len(seen) /\ MatchCount + 1 <= k /\ k \in Nat
    BY <1>2, <1>6 DEF SameUpTo
  <2>2. \A j \in (k - (MatchCount + 1) + 1)..k : seen'[j] = seen'[k] /\ j \in 1..Len(seen)
    BY <1>2, <1>6, <2>1 DEF SameUpTo
  <2>3. SameUpTo(k, MatchCount + 1)
    BY <1>2, <2>1, <2>2 DEF SameUpTo
  <2>4. CASE k = Len(seen)
    BY <1>5, <2>3, <2>4
  <2>5. CASE k \in 1..(Len(seen) - 1)
    BY <2>3, <2>5 DEF WaitInv, NoneEarlier
  <2> QED BY <1>2, <2>1, <2>4, <2>5
<1> QED BY <1>4, <1>6 DEF NoneEarlier

LEMMA WaitStep == WaitInv /\ [Next]_vars => WaitInv'
<1> SUFFICES ASSUME WaitInv, [Next]_vars PROVE WaitInv'
  OBVIOUS
<1> USE CountsAssumption
<1>1. TypeOK'
  BY TypeStep
<1>2. CASE Compare
  BY <1>1, <1>2, CompareCounts, CompareKeeps DEF WaitInv
<1>3. CASE Change
  BY <1>1, <1>3 DEF Change, WaitInv, MatchesCounted, LoopCounted, NoneEarlier, SameUpTo
<1>4. CASE ListRegions
  BY <1>1, <1>4 DEF ListRegions, WaitInv, MatchesCounted, LoopCounted, NoneEarlier, SameUpTo
<1>5. CASE ReadPage
  BY <1>1, <1>5 DEF ReadPage, WaitInv, MatchesCounted, LoopCounted, NoneEarlier, SameUpTo
<1>6. CASE Sleep
  <2>1. MatchesCounted' /\ NoneEarlier'
    BY <1>6 DEF Sleep, WaitInv, MatchesCounted, NoneEarlier, SameUpTo
  <2>2. Len(seen) \in Nat /\ Len(seen') = Len(seen)
    BY <1>6 DEF Sleep, WaitInv, TypeOK
  <2>3. LoopCounted'
    BY <1>6, <2>2 DEF Sleep, WaitInv, LoopCounted
  <2> QED BY <1>1, <2>1, <2>3 DEF WaitInv
<1>7. CASE UNCHANGED vars
  BY <1>1, <1>7 DEF vars, WaitInv, MatchesCounted, LoopCounted, NoneEarlier, SameUpTo
<1> QED BY <1>2, <1>3, <1>4, <1>5, <1>6, <1>7 DEF Next

-----------------------------------------------------------------------------
\* The wait ends early exactly when one poll more than the matches asked for has
\* seen the same, at the first such time, and otherwise after all of its polls
\* (wait_until_stable).
THEOREM WaitIsExact == Spec => []SettledIsStill
<1>1. WaitInv => SettledIsStill
  <2> SUFFICES ASSUME WaitInv PROVE SettledIsStill
    OBVIOUS
  <2> USE CountsAssumption
  <2>1. SameUpTo(Len(seen), MatchCount + 1) <=> (matches >= MatchCount /\ seen # <<>>)
    BY SameByMatches DEF WaitInv
  <2>2. matches >= MatchCount => seen # <<>>
    BY DEF WaitInv, MatchesCounted
  <2>3. outcome = "settled" => SameUpTo(Len(seen), MatchCount + 1)
    BY <2>1, <2>2 DEF WaitInv, LoopCounted
  <2>4. outcome = "unsettled" => Len(seen) = PollCount /\ ~ (matches >= MatchCount)
    BY DEF WaitInv, TypeOK, LoopCounted
  <2> QED BY <2>1, <2>3, <2>4 DEF SettledIsStill, WaitInv, NoneEarlier
<1> QED BY <1>1, InitWait, WaitStep, PTL DEF Spec

-----------------------------------------------------------------------------
\* A product of naturals is one.
LEMMA ProductOfNats == \A m, n \in Nat : m * n \in Nat
OBVIOUS

\* A quotient rounds down.
LEMMA QuotientBounds ==
  ASSUME NEW x \in Nat, NEW n \in Nat \ {0}
  PROVE  x \div n \in Nat /\ n * (x \div n) <= x /\ x < n * (x \div n) + n
OBVIOUS

\* A factor that is not zero can be left out of a comparison.
LEMMA Cancel ==
  ASSUME NEW n \in Nat \ {0}, NEW a \in Int, NEW b \in Int, n * a < n * b
  PROVE  a < b
<1>1. b <= a => n * b <= n * a
  OBVIOUS
<1> QED BY <1>1

\* sample_page rounds down.
LEMMA SampleBounds ==
  ASSUME NEW m \in Nat, NEW n \in Nat \ {0}, NEW s \in Nat
  PROVE  /\ SamplePage(s, m + 1, n + 1) \in Nat
         /\ n * SamplePage(s, m + 1, n + 1) <= s * m
         /\ s * m < n * SamplePage(s, m + 1, n + 1) + n
<1>1. s * m \in Nat
  BY ProductOfNats
<1>2. SamplePage(s, m + 1, n + 1) = (s * m) \div n
  BY DEF SamplePage
<1> QED BY <1>1, <1>2, QuotientBounds

\* The first sample is the first page, the last one the last.
LEMMA SampleEnds ==
  ASSUME NEW m \in Nat, NEW n \in Nat \ {0}
  PROVE  SamplePage(0, m + 1, n + 1) = 0 /\ SamplePage(n, m + 1, n + 1) = m
<1>1. ASSUME NEW q \in Nat, n * q <= 0 * m PROVE q = 0
  <2>1. 0 * m = 0
    OBVIOUS
  <2>2. n * q < n * 1
    BY <1>1, <2>1
  <2> QED BY <2>2, Cancel
<1>2. ASSUME NEW q \in Nat, n * q <= n * m, n * m < n * q + n PROVE q = m
  <2>1. n * (q + 1) = n * q + n /\ n * (m + 1) = n * m + n
    OBVIOUS
  <2>2. n * m < n * (q + 1) /\ n * q < n * (m + 1)
    BY <1>2, <2>1
  <2>3. m < q + 1 /\ q < m + 1
    BY <2>2, Cancel
  <2> QED BY <2>3
<1> QED BY <1>1, <1>2, SampleBounds

\* Without a sample to spare, every page is one.
LEMMA SampleOfAll ==
  ASSUME NEW n \in Nat \ {0}, NEW s \in Nat
  PROVE  SamplePage(s, n + 1, n + 1) = s
<1>1. ASSUME NEW q \in Nat, n * q <= s * n, s * n < n * q + n PROVE q = s
  <2>1. n * (q + 1) = n * q + n /\ n * (s + 1) = s * n + n
    OBVIOUS
  <2>2. n * s < n * (q + 1) /\ n * q < n * (s + 1)
    BY <1>1, <2>1
  <2>3. s < q + 1 /\ q < s + 1
    BY <2>2, Cancel
  <2> QED BY <2>3
<1> QED BY <1>1, SampleBounds

\* A later sample is a later page.
LEMMA SamplesRise ==
  ASSUME NEW m \in Nat, NEW n \in Nat \ {0}, n <= m, NEW s \in Nat, NEW t \in Nat, s < t
  PROVE  SamplePage(s, m + 1, n + 1) < SamplePage(t, m + 1, n + 1)
<1> DEFINE p == SamplePage(s, m + 1, n + 1)
           q == SamplePage(t, m + 1, n + 1)
<1>1. /\ p \in Nat /\ q \in Nat
      /\ n * p <= s * m /\ t * m < n * q + n
  BY SampleBounds
<1> HIDE DEF p, q
<1>2. s * m + m <= t * m
  <2>1. (t - s - 1) * m >= 0
    OBVIOUS
  <2>2. (t - s - 1) * m = t * m - s * m - m
    OBVIOUS
  <2> QED BY <2>1, <2>2
<1>3. n * p < n * q
  <2>1. n * p \in Int /\ n * q \in Int /\ s * m \in Int /\ t * m \in Int
    BY <1>1
  <2> QED BY <1>1, <1>2, <2>1
<1> QED BY <1>1, <1>3, Cancel DEF p, q

\* Two gaps between neighbours differ by at most one page.
LEMMA GapsAreEven ==
  ASSUME NEW m \in Nat, NEW n \in Nat \ {0}, NEW s \in Nat, NEW t \in Nat
  PROVE  (SamplePage(s + 1, m + 1, n + 1) - SamplePage(s, m + 1, n + 1))
           - (SamplePage(t + 1, m + 1, n + 1) - SamplePage(t, m + 1, n + 1)) <= 1
<1> DEFINE p(k) == SamplePage(k, m + 1, n + 1)
<1>1. PICK a \in Nat, b \in Nat, c \in Nat, d \in Nat :
        /\ a = p(s) /\ b = p(s + 1) /\ c = p(t) /\ d = p(t + 1)
        /\ s * m < n * a + n /\ n * b <= (s + 1) * m
        /\ n * c <= t * m /\ (t + 1) * m < n * d + n
  <2>1. p(s) \in Nat /\ s * m < n * p(s) + n
    BY SampleBounds
  <2>2. p(s + 1) \in Nat /\ n * p(s + 1) <= (s + 1) * m
    BY SampleBounds
  <2>3. p(t) \in Nat /\ n * p(t) <= t * m
    BY SampleBounds
  <2>4. p(t + 1) \in Nat /\ (t + 1) * m < n * p(t + 1) + n
    BY SampleBounds
  <2> HIDE DEF p
  <2> QED BY <2>1, <2>2, <2>3, <2>4
<1>2. (s + 1) * m = s * m + m /\ (t + 1) * m = t * m + m
  OBVIOUS
<1>3. n * a \in Int /\ n * b \in Int /\ n * c \in Int /\ n * d \in Int /\ s * m \in Int /\ t * m \in Int
  BY <1>1
<1>4. (n * b - n * a) - (n * d - n * c) < 2 * n
  BY <1>1, <1>2, <1>3
<1>5. n * ((b - a) - (d - c)) = (n * b - n * a) - (n * d - n * c)
  BY <1>1
<1>6. n * ((b - a) - (d - c)) < n * 2
  BY <1>4, <1>5
<1>7. (b - a) - (d - c) < 2
  BY <1>1, <1>6, Cancel
<1>8. (p(s + 1) - p(s)) - (p(t + 1) - p(t)) <= 1
  <2> HIDE DEF p
  <2> QED BY <1>1, <1>7
<1> QED BY <1>8

\* Where in the memory that is watched each sample lies, counted from 1.
Place(k, total, count) == SamplePage(k - 1, total, count) + 1

\* The places are spread over the pages, whether one is read, some or all.
LEMMA PlacesSpread ==
  ASSUME NEW total \in Nat, NEW count \in 1..total
  PROVE  /\ \A k \in 1..count : Place(k, total, count) \in 1..total
         /\ \A k, l \in 1..count : k < l => Place(k, total, count) < Place(l, total, count)
         /\ count = total => \A k \in 1..count : Place(k, total, count) = k
         /\ count > 1 => Place(1, total, count) = 1 /\ Place(count, total, count) = total
         /\ \A k, l \in 1..(count - 1) :
              (Place(k + 1, total, count) - Place(k, total, count))
                - (Place(l + 1, total, count) - Place(l, total, count)) \in -1..1
<1>1. CASE count = 1
  BY <1>1 DEF Place, SamplePage
<1>2. CASE count > 1
  <2>1. PICK m \in Nat, n \in Nat \ {0} : total = m + 1 /\ count = n + 1 /\ n <= m
    <3>1. total - 1 \in Nat /\ count - 1 \in Nat \ {0} /\ total = (total - 1) + 1
          /\ count = (count - 1) + 1 /\ count - 1 <= total - 1
      BY <1>2
    <3> QED BY <3>1
  <2> DEFINE p(s) == SamplePage(s, m + 1, n + 1)
  <2>2. \A s \in Nat : p(s) \in Nat
    BY SampleBounds
  <2>3. p(0) = 0 /\ p(n) = m
    BY SampleEnds
  <2>4. \A s, t \in Nat : s < t => p(s) < p(t)
    BY <2>1, SamplesRise
  <2>5. \A s, t \in Nat : (p(s + 1) - p(s)) - (p(t + 1) - p(t)) <= 1
    BY GapsAreEven
  <2>6. m = n => \A s \in Nat : p(s) = s
    BY SampleOfAll
  <2>7. \A k : Place(k, total, count) = p(k - 1) + 1
    BY <2>1 DEF Place
  <2> HIDE DEF p
  <2>8. \A k \in 1..count : k - 1 \in Nat /\ k - 1 <= n
    BY <2>1
  <2>9. \A k \in 1..count : Place(k, total, count) \in 1..total
    <3> SUFFICES ASSUME NEW k \in 1..count PROVE p(k - 1) + 1 \in 1..total
      BY <2>7
    <3>1. p(k - 1) \in Nat /\ p(k - 1) <= p(n)
      BY <2>2, <2>4, <2>8
    <3> QED BY <2>1, <2>3, <3>1
  <2>10. \A k, l \in 1..count : k < l => Place(k, total, count) < Place(l, total, count)
    <3> SUFFICES ASSUME NEW k \in 1..count, NEW l \in 1..count, k < l PROVE p(k - 1) + 1 < p(l - 1) + 1
      BY <2>7
    <3>1. k - 1 \in Nat /\ l - 1 \in Nat /\ k - 1 < l - 1
      BY <2>8
    <3>2. p(k - 1) \in Nat /\ p(l - 1) \in Nat /\ p(k - 1) < p(l - 1)
      BY <2>2, <2>4, <3>1
    <3> QED BY <3>2
  <2>11. count = total => \A k \in 1..count : Place(k, total, count) = k
    <3> SUFFICES ASSUME count = total, NEW k \in 1..count PROVE p(k - 1) + 1 = k
      BY <2>7
    <3>1. p(k - 1) = k - 1
      BY <2>1, <2>6, <2>8
    <3> QED BY <3>1
  <2>12. Place(1, total, count) = 1 /\ Place(count, total, count) = total
    <3>1. 1 - 1 = 0 /\ count - 1 = n
      BY <2>1
    <3> QED BY <2>1, <2>3, <2>7, <3>1
  <2>13. ASSUME NEW k \in 1..(count - 1), NEW l \in 1..(count - 1)
         PROVE  (Place(k + 1, total, count) - Place(k, total, count))
                  - (Place(l + 1, total, count) - Place(l, total, count)) \in -1..1
    <3>1. PICK s \in Nat, t \in Nat : s = k - 1 /\ t = l - 1
      OBVIOUS
    <3>2. (k + 1) - 1 = s + 1 /\ (l + 1) - 1 = t + 1
      BY <3>1
    <3>3. /\ Place(k + 1, total, count) = p(s + 1) + 1 /\ Place(k, total, count) = p(s) + 1
          /\ Place(l + 1, total, count) = p(t + 1) + 1 /\ Place(l, total, count) = p(t) + 1
      BY <2>7, <3>1, <3>2
    <3>4. p(s) \in Nat /\ p(s + 1) \in Nat /\ p(t) \in Nat /\ p(t + 1) \in Nat
      BY <2>2
    <3>5. (p(s + 1) - p(s)) - (p(t + 1) - p(t)) <= 1 /\ (p(t + 1) - p(t)) - (p(s + 1) - p(s)) <= 1
      BY <2>5
    <3> QED BY <3>3, <3>4, <3>5
  <2> QED BY <2>9, <2>10, <2>11, <2>12, <2>13
<1> QED BY <1>1, <1>2

\* As no page is listed twice, each sample has one place.
LEMMA LayoutSpread == ASSUME regions \in Layouts PROVE SamplesSpread
<1> DEFINE all == PagesOf(regions)
           total == Len(all)
           count == SampleCount(total)
           sample == StabilityPages(regions)
           place(k) == Place(k, total, count)
           index(k) == CHOOSE j \in DOMAIN all : all[j] = sample[k]
<1>1. all \in Seq(Nat) /\ IsInjective(all)
  BY LayoutsAssumption
<1>2. total \in Nat /\ DOMAIN all = 1..total
  BY <1>1
<1>3. count \in 0..total /\ (total <= MaxReads => count = total)
  <2> HIDE DEF total
  <2> QED BY <1>2, CountsAssumption DEF SampleCount
<1>4. sample = [k \in 1..count |-> all[place(k)]]
  BY DEF StabilityPages, Place
<1> HIDE DEF sample, count, total
<1>5. DOMAIN sample = 1..count /\ Len(sample) = count /\ \A k \in 1..count : sample[k] = all[place(k)]
  <2>1. count \in Nat
    BY <1>2, <1>3
  <2> QED BY <1>4, <2>1
<1>6. /\ \A k \in 1..count : place(k) \in 1..total
      /\ \A k, l \in 1..count : k < l => place(k) < place(l)
      /\ count = total => \A k \in 1..count : place(k) = k
      /\ count > 1 => place(1) = 1 /\ place(count) = total
      /\ \A k, l \in 1..(count - 1) : (place(k + 1) - place(k)) - (place(l + 1) - place(l)) \in -1..1
  <2> HIDE DEF all, index
  <2>1. CASE count = 0
    BY <1>2, <2>1
  <2>2. CASE count \in 1..total
    BY <1>2, <2>2, PlacesSpread
  <2> QED BY <1>2, <1>3, <2>1, <2>2
<1> HIDE DEF place, all
<1>7. IsInjective(sample)
  <2> SUFFICES ASSUME NEW a \in 1..count, NEW b \in 1..count, sample[a] = sample[b] PROVE a = b
    BY <1>5 DEF IsInjective
  <2>1. place(a) = place(b)
    BY <1>1, <1>2, <1>5, <1>6 DEF IsInjective
  <2>2. place(a) \in Int /\ place(b) \in Int /\ ~ (a < b) /\ ~ (b < a)
    BY <1>2, <1>3, <1>6, <2>1
  <2> QED BY <1>2, <1>3, <2>2
<1>8. total <= MaxReads => sample = all
  <2> SUFFICES ASSUME count = total PROVE sample = all
    BY <1>3
  <2>1. \A k \in 1..count : sample[k] = all[k]
    BY <1>5, <1>6
  <2>2. all = [k \in 1..total |-> all[k]] /\ sample = [k \in 1..count |-> sample[k]]
    BY <1>1, <1>2, <1>4, <1>5
  <2> QED BY <2>1, <2>2
<1>9. count > 1 => sample[1] = all[1] /\ sample[count] = all[total]
  <2> SUFFICES ASSUME count > 1 PROVE sample[1] = all[1] /\ sample[count] = all[total]
    OBVIOUS
  <2>1. 1 \in 1..count /\ count \in 1..count
    BY <1>2, <1>3
  <2> QED BY <1>5, <1>6, <2>1
<1>10. \A k \in 1..count : index(k) = place(k)
  <2> SUFFICES ASSUME NEW k \in 1..count PROVE index(k) = place(k)
    OBVIOUS
  <2>1. place(k) \in DOMAIN all /\ all[place(k)] = sample[k]
    BY <1>2, <1>5, <1>6
  <2>2. \A j \in DOMAIN all : all[j] = sample[k] => j = place(k)
    BY <1>1, <2>1 DEF IsInjective
  <2> QED BY <2>1, <2>2
<1> HIDE DEF index
<1>11. ASSUME NEW i \in 1..(count - 1), NEW j \in 1..(count - 1)
       PROVE  (index(i + 1) - index(i)) - (index(j + 1) - index(j)) \in -1..1
  <2>1. i \in 1..count /\ i + 1 \in 1..count /\ j \in 1..count /\ j + 1 \in 1..count
    BY <1>2, <1>3
  <2> QED BY <1>6, <1>10, <2>1
<1> QED BY <1>5, <1>7, <1>8, <1>9, <1>11 DEF SamplesSpread, Last, all, total, sample, index

\* Whatever the target maps, the sample reaches from the first to the last page that
\* is watched, reads none twice, leaves none out that it could read, and its gaps
\* differ by at most one page (stability_pages, sample_page).
THEOREM SampleIsSpread == Spec => []SamplesSpread
<1>1. WaitInv => SamplesSpread
  BY LayoutSpread DEF WaitInv, TypeOK
<1> QED BY <1>1, InitWait, WaitStep, PTL DEF Spec
=============================================================================
