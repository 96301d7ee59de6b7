--------------------------- MODULE ImportsProofs ---------------------------
(***************************************************************************)
(* Theorems about Exports and Imports, for any modules, images, packers    *)
(* and limits.                                                             *)
(***************************************************************************)
EXTENDS Imports, FiniteSetTheorems, WellFoundedInduction, TLAPS

-----------------------------------------------------------------------------
\* Induction over the naturals, for a set that is written down.
LEMMA EveryNat ==
  ASSUME NEW S, 0 \in S, \A n \in Nat : n \in S => n + 1 \in S
  PROVE  \A n \in Nat : n \in S
<1> SUFFICES ASSUME Nat \ S # {} PROVE FALSE
  OBVIOUS
<1>1. PICK x \in Nat \ S : \A y \in Nat \ S : ~ (<<y, x>> \in OpToRel(<, Nat))
  BY NatLessThanWellFounded, WFMin
<1>2. \A y \in Nat \ S : ~ (y < x)
  BY <1>1 DEF OpToRel
<1>3. x # 0 /\ x - 1 \in Nat /\ x = (x - 1) + 1
  OBVIOUS
<1>4. x - 1 \in S
  BY <1>2, <1>3
<1> QED BY <1>3, <1>4

\* A set of numbers that are not below one of them has a first member.
LEMMA FirstOfNats ==
  ASSUME NEW b \in Int, NEW S \in SUBSET {i \in Int : i >= b}, S # {}
  PROVE  /\ First(S) \in S
         /\ \A y \in S : First(S) <= y
<1> DEFINE T == {n \in Nat : b + n \in S}
<1>1. T # {}
  <2>1. PICK y \in S : TRUE
    OBVIOUS
  <2>2. y - b \in T
    BY <2>1
  <2>3. QED
    BY <2>2
<1>2. PICK x \in T : \A y \in T : ~ (<<y, x>> \in OpToRel(<, Nat))
  BY <1>1, NatLessThanWellFounded, WFMin
<1>3. \A y \in T : x <= y
  <2>1. \A y \in T : ~ (y < x)
    BY <1>2 DEF OpToRel
  <2>2. QED
    BY <2>1
<1>4. \A y \in S : b + x <= y
  <2>1. TAKE y \in S
  <2>2. y - b \in T
    OBVIOUS
  <2>3. x <= y - b
    BY <1>3, <2>2
  <2>4. QED
    BY <2>3
<1>5. QED
  BY <1>2, <1>4 DEF First

\* A finite set of numbers has a last member.
LEMMA MaxOfInts ==
  ASSUME NEW S \in SUBSET Int, IsFiniteSet(S), S # {}
  PROVE  /\ Max(S) \in S
         /\ \A y \in S : y <= Max(S)
<1> DEFINE P == {n \in Nat : \A T \in SUBSET Int : IsFiniteSet(T) /\ Cardinality(T) = n + 1 =>
                               \E x \in T : \A y \in T : y <= x}
<1>1. 0 \in P
  <2>1. SUFFICES ASSUME NEW T \in SUBSET Int, IsFiniteSet(T), Cardinality(T) = 1
                 PROVE  \E x \in T : \A y \in T : y <= x
    OBVIOUS
  <2>2. PICK x : T = {x}
    BY <2>1, FS_Singleton
  <2>3. QED
    BY <2>2
<1>2. ASSUME NEW n \in Nat, n \in P
      PROVE  n + 1 \in P
  <2>1. SUFFICES ASSUME NEW T \in SUBSET Int, IsFiniteSet(T), Cardinality(T) = n + 2
                 PROVE  \E x \in T : \A y \in T : y <= x
    OBVIOUS
  <2>0. T # {}
    <3>1. Cardinality(T) # 0
      BY <2>1
    <3>2. QED
      BY <3>1, FS_EmptySet
  <2>2. PICK z \in T : TRUE
    BY <2>0
  <2>3. IsFiniteSet(T \ {z}) /\ Cardinality(T \ {z}) = n + 1
    BY <2>1, <2>2, FS_RemoveElement
  <2>4. PICK x \in T \ {z} : \A y \in T \ {z} : y <= x
    BY <1>2, <2>3
  <2>5. CASE z <= x
    BY <2>4, <2>5
  <2>6. CASE x < z
    BY <2>4, <2>6
  <2>7. QED
    BY <2>5, <2>6
<1>3. \A n \in Nat : n \in P
  <2> HIDE DEF P
  <2>1. QED
    BY <1>1, <1>2, EveryNat
<1>4. Cardinality(S) \in Nat /\ Cardinality(S) # 0
  BY FS_CardinalityType, FS_EmptySet
<1>5. Cardinality(S) - 1 \in P
  BY <1>3, <1>4
<1>6. \E x \in S : \A y \in S : y <= x
  BY <1>4, <1>5
<1>7. QED
  BY <1>6 DEF Max

\* The k-th member of a finite set of numbers.
LEMMA RankExists ==
  ASSUME NEW S \in SUBSET Int, IsFiniteSet(S), NEW k \in 1..Cardinality(S)
  PROVE  \E s \in S : Cardinality({r \in S : r <= s}) = k
<1> DEFINE Ranked(T) == \A j \in 1..Cardinality(T) : \E s \in T : Cardinality({r \in T : r <= s}) = j
           P == {n \in Nat : \A T \in SUBSET Int : IsFiniteSet(T) /\ Cardinality(T) = n => Ranked(T)}
<1>1. 0 \in P
  OBVIOUS
<1>2. ASSUME NEW n \in Nat, n \in P
      PROVE  n + 1 \in P
  <2>1. SUFFICES ASSUME NEW T \in SUBSET Int, IsFiniteSet(T), Cardinality(T) = n + 1, NEW j \in 1..(n + 1)
                 PROVE  \E s \in T : Cardinality({r \in T : r <= s}) = j
    OBVIOUS
  <2> DEFINE z == Max(T)
             U == T \ {z}
  <2>2. z \in T /\ \A y \in T : y <= z
    <3>1. Cardinality(T) # 0
      BY <2>1
    <3>2. QED
      BY <2>1, <3>1, FS_EmptySet, MaxOfInts
  <2>3. IsFiniteSet(U) /\ Cardinality(U) = n
    <3> HIDE DEF z
    <3>1. IsFiniteSet(U) /\ Cardinality(U) = Cardinality(T) - 1
      BY <2>1, <2>2, FS_RemoveElement
    <3>2. QED
      BY <2>1, <3>1
  <2> HIDE DEF z
  <2>4. CASE j = n + 1
    <3>1. {r \in T : r <= z} = T
      BY <2>2
    <3>2. QED
      BY <2>1, <2>2, <2>4, <3>1
  <2>5. CASE j # n + 1
    <3>1. j \in 1..n
      BY <2>5
    <3>2. PICK s \in U : Cardinality({r \in U : r <= s}) = j
      BY <1>2, <2>3, <3>1
    <3>3. {r \in T : r <= s} = {r \in U : r <= s}
      BY <2>2
    <3>4. QED
      BY <3>2, <3>3
  <2>6. QED
    BY <2>4, <2>5
<1>3. \A n \in Nat : n \in P
  <2> HIDE DEF P
  <2>1. QED
    BY <1>1, <1>2, EveryNat
<1>4. Cardinality(S) \in P
  BY <1>3, FS_CardinalityType
<1>5. QED
  BY <1>4

\* A member of a finite set of numbers has a rank, and no other has the same.
LEMMA RankIsOwn ==
  ASSUME NEW S \in SUBSET Int, IsFiniteSet(S), NEW s \in S
  PROVE  /\ Cardinality({r \in S : r <= s}) \in 1..Cardinality(S)
         /\ \A t \in S : Cardinality({r \in S : r <= t}) = Cardinality({r \in S : r <= s}) => t = s
<1> DEFINE Low(t) == {r \in S : r <= t}
<1>1. ASSUME NEW t \in S
      PROVE  /\ Low(t) \subseteq S /\ IsFiniteSet(Low(t)) /\ t \in Low(t)
             /\ Cardinality(Low(t)) \in Nat /\ Cardinality(Low(t)) <= Cardinality(S)
  <2>1. Low(t) \subseteq S /\ t \in Low(t)
    OBVIOUS
  <2> HIDE DEF Low
  <2>2. QED
    BY <2>1, FS_Subset, FS_CardinalityType
<1>2. ASSUME NEW t \in S, NEW u \in S, t < u
      PROVE  Cardinality(Low(t)) < Cardinality(Low(u))
  <2>1. \A r \in Low(t) : r \in Low(u) /\ r # u
    <3>1. t \in Int /\ u \in Int /\ \A r \in S : r \in Int
      OBVIOUS
    <3>2. QED
      BY <1>2, <3>1
  <2> HIDE DEF Low
  <2>2. IsFiniteSet(Low(u) \ {u}) /\ Cardinality(Low(u) \ {u}) = Cardinality(Low(u)) - 1
    BY <1>1, FS_RemoveElement
  <2>3. Cardinality(Low(t)) <= Cardinality(Low(u) \ {u})
    <3>1. Low(t) \subseteq Low(u) \ {u}
      BY <2>1
    <3>2. QED
      BY <2>2, <3>1, FS_Subset
  <2>4. QED
    BY <1>1, <2>2, <2>3
<1>3. Cardinality(Low(s)) \in 1..Cardinality(S)
  <2> HIDE DEF Low
  <2>1. Cardinality(Low(s)) # 0
    BY <1>1, FS_EmptySet
  <2>2. Cardinality(S) \in Nat
    BY FS_CardinalityType
  <2>3. QED
    BY <1>1, <2>1, <2>2
<1>4. ASSUME NEW t \in S, Cardinality(Low(t)) = Cardinality(Low(s))
      PROVE  t = s
  <2> HIDE DEF Low
  <2>1. ~ (t < s) /\ ~ (s < t)
    BY <1>1, <1>2, <1>4
  <2>2. QED
    BY <2>1
<1>5. QED
  BY <1>3, <1>4

-----------------------------------------------------------------------------
\* The folds of the model go through the subsets of a list's positions, last first.
LEMMA PositionsOf ==
  ASSUME NEW n \in Nat, NEW s \in SUBSET (1..n)
  PROVE  /\ IsFiniteSet(s) /\ Cardinality(s) \in 0..n
         /\ Cardinality(s) = 0 <=> s = {}
         /\ s # {} => Max(s) \in s /\ Cardinality(s \ {Max(s)}) = Cardinality(s) - 1
<1>1. IsFiniteSet(1..n) /\ Cardinality(1..n) = n
  BY FS_Interval
<1>2. IsFiniteSet(s) /\ Cardinality(s) \in Nat /\ Cardinality(s) <= n
  BY <1>1, FS_Subset, FS_CardinalityType
<1>3. Cardinality(s) = 0 <=> s = {}
  BY <1>2, FS_EmptySet
<1>4. s # {} => Max(s) \in s
  BY <1>2, MaxOfInts
<1>5. QED
  BY <1>2, <1>3, <1>4, FS_RemoveElement

LEMMA LastPosition ==
  ASSUME NEW n \in Nat, NEW k \in 1..n
  PROVE  /\ 1..k \in SUBSET (1..n) /\ 1..k # {}
         /\ Max(1..k) = k /\ (1..k) \ {k} = 1..(k - 1)
BY DEF Max

\* The sets of at most m of n positions.
Upto(n, m) == {s \in SUBSET (1..n) : Cardinality(s) <= m}

LEMMA UptoFacts ==
  ASSUME NEW n \in Nat
  PROVE  /\ Upto(n, 0) = {{}}
         /\ Upto(n, n) = SUBSET (1..n)
         /\ \A m \in Nat : \A s \in Upto(n, m + 1) : s # {} =>
              s \ {Max(s)} \in Upto(n, m) /\ s \ {Max(s)} \in Upto(n, m + 1)
<1>1. Upto(n, 0) = {{}}
  <2>1. ASSUME NEW s \in SUBSET (1..n)
        PROVE  Cardinality(s) <= 0 <=> s = {}
    <3>1. Cardinality(s) \in 0..n /\ (Cardinality(s) = 0 <=> s = {})
      BY PositionsOf
    <3>2. QED
      BY <3>1
  <2>2. QED
    BY <2>1 DEF Upto
<1>2. Upto(n, n) = SUBSET (1..n)
  <2>1. ASSUME NEW s \in SUBSET (1..n)
        PROVE  Cardinality(s) <= n
    <3>1. Cardinality(s) \in 0..n /\ (Cardinality(s) = 0 <=> s = {})
      BY PositionsOf
    <3>2. QED
      BY <3>1
  <2>2. QED
    BY <2>1 DEF Upto
<1>3. ASSUME NEW m \in Nat, NEW s \in Upto(n, m + 1), s # {}
      PROVE  s \ {Max(s)} \in Upto(n, m) /\ s \ {Max(s)} \in Upto(n, m + 1)
  <2>1. s \in SUBSET (1..n) /\ Cardinality(s) <= m + 1
    BY DEF Upto
  <2>2. Cardinality(s) \in 0..n /\ Cardinality(s \ {Max(s)}) = Cardinality(s) - 1
    BY <1>3, <2>1, PositionsOf
  <2>3. s \ {Max(s)} \in SUBSET (1..n)
    BY <2>1
  <2>4. Cardinality(s \ {Max(s)}) <= m /\ Cardinality(s \ {Max(s)}) <= m + 1
    BY <2>1, <2>2
  <2>5. QED
    BY <2>3, <2>4 DEF Upto
<1>4. QED
  BY <1>1, <1>2, <1>3

\* Every group goes through push_group, one after the other.
LEMMA PushSteps ==
  ASSUME NEW p, NEW gs, NEW minimum, NEW n \in Nat, DOMAIN gs = 1..n
  PROVE  \E r : /\ r[0] = p
                /\ \A k \in 1..n : r[k] = PushGroup(r[k - 1], gs[k], minimum)
                /\ PushAll(p, gs, minimum) = r[n]
<1> DEFINE D == 1..n
           Rule(it, s) == IF s = {} THEN p ELSE PushGroup(it[s \ {Max(s)}], gs[Max(s)], minimum)
           P == {m \in Nat : \E it : it = [s \in Upto(n, m) |-> Rule(it, s)]}
           iter == CHOOSE it : it = [s \in SUBSET D |-> Rule(it, s)]
<1>1. 0 \in P
  <2>1. Upto(n, 0) = {{}}
    BY UptoFacts
  <2> DEFINE it == [s \in Upto(n, 0) |-> p]
  <2>2. it = [s \in Upto(n, 0) |-> Rule(it, s)]
    BY <2>1
  <2> HIDE DEF it, Rule
  <2>3. QED
    BY <2>2
<1>2. ASSUME NEW m \in Nat, m \in P
      PROVE  m + 1 \in P
  <2>1. PICK old : old = [s \in Upto(n, m) |-> Rule(old, s)]
    BY <1>2
  <2> DEFINE it == [s \in Upto(n, m + 1) |-> Rule(old, s)]
  <2>2. ASSUME NEW s \in Upto(n, m + 1)
        PROVE  it[s] = Rule(it, s)
    <3>1. CASE s = {}
      BY <3>1
    <3>2. CASE s # {}
      <4>1. s \ {Max(s)} \in Upto(n, m) /\ s \ {Max(s)} \in Upto(n, m + 1)
        BY <3>2, UptoFacts
      <4>2. it[s \ {Max(s)}] = old[s \ {Max(s)}]
        <5> HIDE DEF Rule
        <5>1. QED
          BY <2>1, <4>1
      <4>3. QED
        BY <4>2
    <3>3. QED
      BY <3>1, <3>2
  <2>3. it = [s \in Upto(n, m + 1) |-> Rule(it, s)]
    <3>1. [s \in Upto(n, m + 1) |-> Rule(it, s)] = [s \in Upto(n, m + 1) |-> it[s]]
      <4> HIDE DEF it, Rule
      <4>1. QED
        BY <2>2
    <3>2. it = [s \in Upto(n, m + 1) |-> it[s]]
      <4> HIDE DEF Rule
      <4>1. QED
        OBVIOUS
    <3>3. QED
      <4> HIDE DEF it, Rule
      <4>1. QED
        BY <3>1, <3>2
  <2> HIDE DEF it, Rule
  <2>4. QED
    BY <2>3
<1>3. n \in P
  <2> HIDE DEF P
  <2>1. QED
    BY <1>1, <1>2, EveryNat
<1>4. iter = [s \in SUBSET D |-> Rule(iter, s)]
  <2>1. Upto(n, n) = SUBSET D
    BY UptoFacts
  <2> HIDE DEF Rule, D
  <2>2. \E it : it = [s \in Upto(n, n) |-> Rule(it, s)]
    BY <1>3
  <2>3. \E it : it = [s \in SUBSET D |-> Rule(it, s)]
    BY <2>1, <2>2
  <2>4. QED
    BY <2>3
<1>5. PushAll(p, gs, minimum) = iter[D]
  BY DEF PushAll, FoldLeft, MapThenFoldSet
<1> HIDE DEF iter
<1> DEFINE r == [k \in 0..n |-> iter[1..k]]
<1>6. r[0] = p
  <2>1. r[0] = iter[{}]
    OBVIOUS
  <2>2. QED
    BY <1>4, <2>1
<1>7. ASSUME NEW k \in 1..n
      PROVE  r[k] = PushGroup(r[k - 1], gs[k], minimum)
  <2>1. iter[1..k] = Rule(iter, 1..k)
    <3> HIDE DEF Rule
    <3>1. QED
      BY <1>4, LastPosition
  <2>2. Rule(iter, 1..k) = PushGroup(iter[1..(k - 1)], gs[k], minimum)
    BY LastPosition
  <2>3. QED
    BY <2>1, <2>2
<1>8. r[n] = PushAll(p, gs, minimum)
  BY <1>5
<1> HIDE DEF r
<1>9. QED
  BY <1>6, <1>7, <1>8

-----------------------------------------------------------------------------
\* The slots of the group that starts at s.
LastOf(kept, starts, s) == First({e \in kept : e >= s /\ e + 1 \notin kept \ starts})

LEMMA RunFacts ==
  ASSUME NEW kept \in SUBSET Nat, IsFiniteSet(kept), NEW starts \in SUBSET kept, NEW s \in starts
  PROVE  /\ LastOf(kept, starts, s) \in kept /\ s <= LastOf(kept, starts, s)
         /\ \A e \in s..LastOf(kept, starts, s) : e \in kept /\ (e \in starts => e = s)
         /\ LastOf(kept, starts, s) + 1 \notin kept \ starts
<1> DEFINE ends == {e \in kept : e >= s /\ e + 1 \notin kept \ starts}
           last == LastOf(kept, starts, s)
<1>1. ends # {}
  <2>1. kept # {} /\ kept \in SUBSET Int
    OBVIOUS
  <2>2. Max(kept) \in kept /\ \A y \in kept : y <= Max(kept)
    BY <2>1, MaxOfInts
  <2>3. Max(kept) \in kept /\ Max(kept) >= s
    BY <2>2
  <2>4. Max(kept) + 1 \notin kept
    <3>1. Max(kept) \in Nat
      BY <2>2
    <3> HIDE DEF ends
    <3>2. QED
      BY <2>2, <3>1
  <2>5. QED
    BY <2>3, <2>4
<1>2. last \in ends /\ \A e \in ends : last <= e
  <2>1. s \in Nat
    OBVIOUS
  <2>2. \A e \in ends : e \in Nat /\ e >= s
    OBVIOUS
  <2> HIDE DEF ends
  <2>3. ends \in SUBSET {i \in Int : i >= s} /\ s \in Int
    BY <2>1, <2>2
  <2> USE DEF ends
  <2>4. last = First(ends)
    BY DEF LastOf
  <2> HIDE DEF ends, last
  <2>5. QED
    BY <1>1, <2>3, <2>4, FirstOfNats
<1> HIDE DEF last
<1> DEFINE P == {n \in Nat : s + n <= last => s + n \in kept /\ (s + n \in starts => n = 0)}
<1>3. 0 \in P
  OBVIOUS
<1>4. ASSUME NEW n \in Nat, n \in P
      PROVE  n + 1 \in P
  <2>1. SUFFICES ASSUME s + n + 1 <= last
                 PROVE  s + n + 1 \in kept \ starts
    OBVIOUS
  <2>2. s + n \in kept /\ s + n < last
    BY <1>4, <1>2, <2>1
  <2>3. s + n \notin ends
    BY <1>2, <2>2
  <2>4. QED
    BY <2>2, <2>3
<1>5. \A n \in Nat : n \in P
  <2> HIDE DEF P
  <2>1. QED
    BY <1>3, <1>4, EveryNat
<1>6. ASSUME NEW e \in s..last
      PROVE  e \in kept /\ (e \in starts => e = s)
  <2>1. e - s \in P
    BY <1>2, <1>5, <1>6
  <2>2. QED
    BY <1>2, <1>6, <2>1
<1>7. last + 1 \notin kept \ starts
  BY <1>2
<1>8. QED
  BY <1>2, <1>6, <1>7 DEF last

\* Each slot that is kept is in the group of a start before it.
LEMMA StartBefore ==
  ASSUME NEW kept \in SUBSET Nat, IsFiniteSet(kept), NEW starts \in SUBSET kept,
         \A x \in kept : x - 1 \notin kept => x \in starts, NEW e \in kept
  PROVE  \E s \in starts : s <= e /\ e <= LastOf(kept, starts, s)
<1> DEFINE S == {s \in starts : s <= e}
<1>0. e \in Nat /\ \A x \in kept : x \in Nat
  OBVIOUS
<1>1. ASSUME NEW b \in kept, b <= e, \A x \in starts : ~ (b < x /\ x <= e)
      PROVE  \A x \in b..e : x \in kept
  <2> DEFINE P == {n \in Nat : b + n <= e => e - n \in kept}
  <2>1. 0 \in P
    BY <1>0
  <2>2. ASSUME NEW n \in Nat, n \in P
        PROVE  n + 1 \in P
    <3>1. SUFFICES ASSUME b + n + 1 <= e
                   PROVE  e - (n + 1) \in kept
      OBVIOUS
    <3>2. e - n \in kept /\ b < e - n /\ e - n <= e
      BY <1>0, <2>2, <3>1
    <3>3. (e - n) - 1 \in kept
      BY <1>1, <3>2
    <3>4. (e - n) - 1 = e - (n + 1)
      BY <1>0
    <3>5. QED
      BY <3>3, <3>4
  <2>3. \A n \in Nat : n \in P
    <3> HIDE DEF P
    <3>1. QED
      BY <2>1, <2>2, EveryNat
  <2>4. ASSUME NEW x \in b..e
        PROVE  x \in kept
    <3>1. e - x \in Nat /\ b + (e - x) <= e /\ e - (e - x) = x
      BY <1>0
    <3>2. QED
      BY <2>3, <3>1
  <2>5. QED
    BY <2>4
<1>2. S # {}
  <2> DEFINE T == {x \in kept : x <= e}
  <2>0. \A x \in T : x \in Int /\ x >= 0
    BY <1>0
  <2>1. e \in T
    BY <1>0
  <2>2. First(T) \in T /\ \A y \in T : First(T) <= y
    <3> HIDE DEF T
    <3>1. T \in SUBSET {i \in Int : i >= 0} /\ 0 \in Int /\ T # {}
      BY <2>0, <2>1
    <3>2. QED
      BY <3>1, FirstOfNats
  <2> DEFINE m == First(T)
  <2>3. m \in kept /\ m <= e /\ \A y \in T : m <= y
    BY <2>2
  <2> HIDE DEF m
  <2>4. m - 1 \notin kept
    BY <1>0, <2>3
  <2>5. QED
    BY <2>3, <2>4
<1>3. S \in SUBSET Int /\ IsFiniteSet(S)
  <2>1. \A x \in S : x \in kept /\ x \in Int
    BY <1>0
  <2> HIDE DEF S
  <2>2. S \subseteq kept /\ S \in SUBSET Int
    BY <2>1
  <2>3. QED
    BY <2>2, FS_Subset
<1>4. Max(S) \in S /\ \A y \in S : y <= Max(S)
  <2> HIDE DEF S
  <2>1. QED
    BY <1>2, <1>3, MaxOfInts
<1> DEFINE b == Max(S)
           l == LastOf(kept, starts, b)
<1>5. b \in starts /\ b \in kept /\ b \in Nat /\ b <= e /\ \A y \in starts : y <= e => y <= b
  BY <1>0, <1>4
<1> HIDE DEF b, S
<1>6. \A x \in b..e : x \in kept
  BY <1>0, <1>1, <1>5
<1>7. l \in Nat /\ b <= l /\ l + 1 \notin kept \ starts
  <2>1. LastOf(kept, starts, b) \in kept /\ b <= LastOf(kept, starts, b) /\ LastOf(kept, starts, b) + 1 \notin kept \ starts
    BY <1>5, RunFacts
  <2>2. QED
    BY <1>0, <2>1
<1> HIDE DEF l
<1>8. ASSUME l < e
      PROVE  FALSE
  <2>1. l + 1 \in b..e /\ b < l + 1 /\ l + 1 <= e
    BY <1>0, <1>5, <1>7, <1>8
  <2>2. l + 1 \in kept /\ l + 1 \notin starts
    BY <1>0, <1>5, <1>6, <1>7, <2>1
  <2>3. QED
    BY <1>7, <2>2
<1>9. e <= l
  BY <1>0, <1>7, <1>8
<1>10. QED
  BY <1>5, <1>9 DEF l

\* Groups of one source for slots that are kept: none of them is empty, each slot is in
\* one group and at most once, with its own entry and under its own module.
AreGroups(gs, n, kept, source, entry, module) ==
  /\ DOMAIN gs = 1..n
  /\ \A k \in 1..n :
       /\ gs[k].source = source /\ gs[k].first \in Nat
       /\ Len(gs[k].entries) \in Nat \ {0}
       /\ \A s \in GroupSlots(gs[k]) :
            s \in kept /\ EntryAt(gs[k], s) = entry[s] /\ gs[k].module = module[s]
  /\ \A k, l \in 1..n : k # l => GroupSlots(gs[k]) \cap GroupSlots(gs[l]) = {}
  /\ \A s \in kept : \E k \in 1..n : s \in GroupSlots(gs[k])

LEMMA GroupFacts ==
  ASSUME NEW kept \in SUBSET Nat, IsFiniteSet(kept), NEW source, NEW entry, NEW module
  PROVE  \E n \in Nat : AreGroups(Groups(kept, source, entry, module), n, kept, source, entry, module)
<1> DEFINE starts == {s \in kept : s - 1 \notin kept \/ module[s - 1] # module[s]}
           last(s) == LastOf(kept, starts, s)
           start(k) == CHOOSE s \in starts : Cardinality({r \in starts : r <= s}) = k
           n == Cardinality(starts)
           group(s) == [module |-> module[s], first |-> s, source |-> source,
                        entries |-> [k \in 1..(last(s) - s + 1) |-> entry[s + k - 1]]]
           gs == Groups(kept, source, entry, module)
<1>1. starts \in SUBSET kept /\ starts \in SUBSET Int /\ IsFiniteSet(starts) /\ n \in Nat
  <2>0. \A s \in starts : s \in kept /\ s \in Int
    OBVIOUS
  <2> HIDE DEF starts
  <2>1. starts \in SUBSET kept /\ starts \in SUBSET Int
    BY <2>0
  <2>2. IsFiniteSet(starts)
    BY <2>1, FS_Subset
  <2>3. QED
    BY <2>1, <2>2, FS_CardinalityType
<1>2. gs = [k \in 1..n |-> group(start(k))]
  BY DEF Groups, LastOf
<1> HIDE DEF gs
<1>3. ASSUME NEW k \in 1..n
      PROVE  start(k) \in starts /\ Cardinality({r \in starts : r <= start(k)}) = k
  BY <1>1, RankExists
<1>4. ASSUME NEW s \in starts
      PROVE  /\ last(s) \in Nat /\ s <= last(s)
             /\ \A e \in s..last(s) : e \in kept /\ (e \in starts => e = s)
  <2>1. starts \in SUBSET kept /\ s \in starts /\ last(s) = LastOf(kept, starts, s)
    BY <1>1
  <2> HIDE DEF starts, last
  <2>2. /\ LastOf(kept, starts, s) \in kept /\ s <= LastOf(kept, starts, s)
        /\ \A e \in s..LastOf(kept, starts, s) : e \in kept /\ (e \in starts => e = s)
    BY <2>1, RunFacts
  <2>3. QED
    BY <2>1, <2>2
<1>5. ASSUME NEW s \in starts, NEW e \in s..last(s)
      PROVE  module[e] = module[s]
  <2> DEFINE P == {m \in Nat : s + m <= last(s) => module[s + m] = module[s]}
  <2> HIDE DEF last
  <2>1. s \in Nat /\ last(s) \in Nat
    BY <1>1, <1>4
  <2>2. 0 \in P
    BY <2>1
  <2>3. ASSUME NEW m \in Nat, m \in P
        PROVE  m + 1 \in P
    <3>1. SUFFICES ASSUME s + m + 1 <= last(s)
                   PROVE  module[s + m + 1] = module[s]
      OBVIOUS
    <3>2. s + m \in s..last(s) /\ s + m + 1 \in s..last(s) /\ s + m + 1 # s
      BY <2>1, <3>1
    <3>3. s + m + 1 \in kept /\ s + m + 1 \notin starts
      BY <1>4, <3>2
    <3>4. module[(s + m + 1) - 1] = module[s + m + 1]
      BY <3>3
    <3>5. module[s + m] = module[s]
      BY <2>1, <2>3, <3>2
    <3>6. (s + m + 1) - 1 = s + m
      BY <2>1
    <3>7. QED
      BY <3>4, <3>5, <3>6
  <2>4. \A m \in Nat : m \in P
    <3> HIDE DEF P
    <3>1. QED
      BY <2>2, <2>3, EveryNat
  <2>5. e - s \in Nat /\ s + (e - s) = e /\ e <= last(s)
    BY <2>1, <1>5
  <2>6. QED
    BY <2>4, <2>5
<1> HIDE DEF starts, last, start, n
<1>6. ASSUME NEW k \in 1..n
      PROVE  /\ gs[k].source = source /\ gs[k].first = start(k) /\ gs[k].module = module[start(k)]
             /\ start(k) \in Nat
             /\ gs[k].entries = [j \in 1..(last(start(k)) - start(k) + 1) |-> entry[start(k) + j - 1]]
             /\ Len(gs[k].entries) = last(start(k)) - start(k) + 1
             /\ last(start(k)) - start(k) + 1 \in Nat \ {0}
             /\ GroupSlots(gs[k]) = start(k)..last(start(k))
  <2>1. gs[k] = group(start(k))
    BY <1>2
  <2>2. start(k) \in starts /\ start(k) \in Nat /\ last(start(k)) \in Nat /\ start(k) <= last(start(k))
    BY <1>1, <1>3, <1>4
  <2> DEFINE m == last(start(k)) - start(k) + 1
  <2>3. m \in Nat \ {0}
    BY <2>2
  <2>4. gs[k].entries = [j \in 1..m |-> entry[start(k) + j - 1]]
    BY <2>1
  <2>5. Len(gs[k].entries) = m
    <3> HIDE DEF m
    <3>1. QED
      BY <2>3, <2>4
  <2>6. gs[k].first = start(k)
    BY <2>1
  <2>7. GroupSlots(gs[k]) = start(k)..last(start(k))
    <3>1. start(k) + m - 1 = last(start(k))
      BY <2>2
    <3> HIDE DEF m
    <3>2. QED
      BY <2>5, <2>6, <3>1 DEF GroupSlots
  <2>8. gs[k].source = source /\ gs[k].module = module[start(k)]
    BY <2>1
  <2>9. QED
    BY <2>2, <2>3, <2>4, <2>5, <2>6, <2>7, <2>8
<1>7. ASSUME NEW k \in 1..n, NEW s \in GroupSlots(gs[k])
      PROVE  s \in kept /\ EntryAt(gs[k], s) = entry[s] /\ gs[k].module = module[s]
  <2>1. s \in start(k)..last(start(k)) /\ start(k) \in starts
    BY <1>3, <1>6, <1>7
  <2>2. s \in kept /\ module[s] = module[start(k)]
    BY <1>4, <1>5, <2>1
  <2>3. EntryAt(gs[k], s) = entry[s]
    <3>1. start(k) \in Nat /\ last(start(k)) \in Nat
      BY <1>4, <1>6, <2>1
    <3>2. s - start(k) + 1 \in 1..(last(start(k)) - start(k) + 1) /\ start(k) + (s - start(k) + 1) - 1 = s
      BY <2>1, <3>1
    <3>3. EntryAt(gs[k], s) = gs[k].entries[s - start(k) + 1]
      BY <1>6 DEF EntryAt
    <3> DEFINE i == s - start(k) + 1
               m == last(start(k)) - start(k) + 1
    <3>4. gs[k].entries = [j \in 1..m |-> entry[start(k) + j - 1]] /\ EntryAt(gs[k], s) = gs[k].entries[i]
      BY <1>6, <3>3
    <3>5. i \in 1..m /\ start(k) + i - 1 = s
      BY <3>2
    <3> HIDE DEF i, m
    <3>6. QED
      BY <3>4, <3>5
  <2>4. QED
    BY <1>6, <2>2, <2>3
<1>8. ASSUME NEW k \in 1..n, NEW l \in 1..n, k # l
      PROVE  GroupSlots(gs[k]) \cap GroupSlots(gs[l]) = {}
  <2>1. start(k) # start(l)
    BY <1>3, <1>8
  <2>2. ASSUME NEW i \in 1..n, NEW j \in 1..n, start(i) < start(j)
        PROVE  (start(i)..last(start(i))) \cap (start(j)..last(start(j))) = {}
    <3>1. start(i) \in starts /\ start(j) \in starts /\ start(i) \in Nat /\ start(j) \in Nat
      BY <1>3, <1>6
    <3>2. start(j) \notin start(i)..last(start(i))
      BY <1>4, <2>2, <3>1
    <3>3. QED
      BY <1>4, <2>2, <3>1, <3>2
  <2>3. start(k) \in Nat /\ start(l) \in Nat
    BY <1>6
  <2>4. CASE start(k) < start(l)
    BY <1>6, <2>2, <2>4
  <2>5. CASE start(l) < start(k)
    BY <1>6, <2>2, <2>5
  <2>6. QED
    BY <2>1, <2>3, <2>4, <2>5
<1>9. DOMAIN gs = 1..n
  BY <1>2
<1>10. \A k \in 1..n :
         /\ gs[k].source = source /\ gs[k].first \in Nat
         /\ Len(gs[k].entries) \in Nat \ {0}
         /\ \A s \in GroupSlots(gs[k]) :
              s \in kept /\ EntryAt(gs[k], s) = entry[s] /\ gs[k].module = module[s]
  <2>1. TAKE k \in 1..n
  <2>2. QED
    BY <1>6, <1>7
<1>11. n \in Nat
  BY <1>1
<1>12. \A k, l \in 1..n : k # l => GroupSlots(gs[k]) \cap GroupSlots(gs[l]) = {}
  BY <1>8
<1>13. \A e \in kept : \E k \in 1..n : e \in GroupSlots(gs[k])
  <2>1. TAKE e \in kept
  <2>2. \A x \in kept : x - 1 \notin kept => x \in starts
    BY DEF starts
  <2>3. PICK s \in starts : s <= e /\ e <= LastOf(kept, starts, s)
    BY <1>1, <2>2, StartBefore
  <2>4. PICK k \in 1..n : k = Cardinality({r \in starts : r <= s})
    <3> HIDE DEF starts
    <3> DEFINE c == Cardinality({r \in starts : r <= s})
    <3>1. c \in 1..n
      BY <1>1, RankIsOwn DEF n
    <3> HIDE DEF c
    <3>2. \E k \in 1..n : k = c
      BY <3>1
    <3>3. QED
      BY <3>2 DEF c
  <2>5. start(k) = s
    <3>1. start(k) \in starts /\ Cardinality({r \in starts : r <= start(k)}) = k
      BY <1>3
    <3> DEFINE t == start(k)
    <3> HIDE DEF starts, start
    <3>2. t \in starts /\ Cardinality({r \in starts : r <= t}) = Cardinality({r \in starts : r <= s})
      BY <2>4, <3>1
    <3> HIDE DEF t
    <3>3. t = s
      BY <1>1, <3>2, RankIsOwn
    <3>4. QED
      BY <3>3 DEF t
  <2>6. e \in s..last(s)
    BY <1>1, <1>4, <2>3 DEF last
  <2>7. QED
    BY <1>6, <2>5, <2>6
<1>14. AreGroups(gs, n, kept, source, entry, module)
  BY <1>9, <1>10, <1>12, <1>13 DEF AreGroups
<1>15. QED
  BY <1>11, <1>14 DEF gs

-----------------------------------------------------------------------------
LEMMA SeqFacts ==
  ASSUME NEW q, q \in Seq(ToSet(q))
  PROVE  Len(q) \in Nat /\ DOMAIN q = 1..Len(q)
OBVIOUS

LEMMA SeqOfItself ==
  ASSUME NEW T, NEW q \in Seq(T)
  PROVE  q \in Seq(ToSet(q))
<1> DEFINE U == ToSet(q)
<1>1. \A k \in 1..Len(q) : q[k] \in U
  BY DEF ToSet
<1> HIDE DEF U
<1>2. q \in Seq(U)
  BY <1>1
<1>3. QED
  BY <1>2 DEF U

LEMMA AppendFacts ==
  ASSUME NEW q, q \in Seq(ToSet(q)), NEW x, NEW r, r = Append(q, x)
  PROVE  /\ r \in Seq(ToSet(r)) /\ Len(r) = Len(q) + 1 /\ DOMAIN r = 1..(Len(q) + 1)
         /\ \A k \in 1..Len(q) : r[k] = q[k]
         /\ r[Len(q) + 1] = x
<1>1. q \in Seq(ToSet(q) \cup {x})
  <2> DEFINE T == ToSet(q)
  <2>1. q \in Seq(T) /\ T \subseteq T \cup {x}
    OBVIOUS
  <2> HIDE DEF T
  <2>2. q \in Seq(T \cup {x})
    BY <2>1
  <2>3. QED
    BY <2>2 DEF T
<1> DEFINE U == ToSet(q) \cup {x}
<1> HIDE DEF U
<1>2. q \in Seq(U) /\ x \in U
  BY <1>1 DEF U
<1>3. r \in Seq(U) /\ Len(r) = Len(q) + 1 /\ DOMAIN r = 1..(Len(q) + 1)
  BY <1>2
<1>4. \A k \in 1..Len(q) : r[k] = q[k]
  BY <1>2
<1>5. r[Len(q) + 1] = x
  BY <1>2
<1>6. r \in Seq(ToSet(r))
  BY <1>3, SeqOfItself
<1>7. QED
  BY <1>3, <1>4, <1>5, <1>6

\* A plan is a record, its groups are whole, their entries are what is recovered, and
\* they keep the limits.
IsPlan(p) == p =
  [groups |-> p.groups, recovered |-> p.recovered, existing |-> p.existing, keepIat |-> p.keepIat,
   ambiguousSlots |-> p.ambiguousSlots, unboundSlots |-> p.unboundSlots, ambiguous |-> p.ambiguous,
   unresolvedDelay |-> p.unresolvedDelay, unresolved |-> p.unresolved, outside |-> p.outside,
   unrepresentable |-> p.unrepresentable]

Sized(p) == \E size \in [0..Len(p.groups) -> Nat] :
  /\ size[0] = 0
  /\ \A k \in 1..Len(p.groups) : size[k] = Len(p.groups[k].entries) + size[k - 1]
  /\ size[Len(p.groups)] = p.recovered

IsGroup(g) == g.first \in Nat /\ Len(g.entries) \in Nat

Tidy(p) ==
  /\ IsPlan(p)
  /\ p.groups \in Seq(ToSet(p.groups)) /\ \A k \in DOMAIN p.groups : IsGroup(p.groups[k])
  /\ Sized(p)
  /\ p.recovered \in Nat /\ p.recovered <= MaxImports /\ Len(p.groups) <= MaxGroups

\* What the first j of some groups that lie apart have made of plan p.
PushedTo(r, p, gs, j) ==
  /\ Tidy(r)
  /\ r = [p EXCEPT !.groups = r.groups, !.recovered = r.recovered]
  /\ Len(p.groups) <= Len(r.groups)
  /\ \A k \in 1..Len(p.groups) : r.groups[k] = p.groups[k]
  /\ \A k \in (Len(p.groups) + 1)..Len(r.groups) : \E l \in 1..j : r.groups[k] = gs[l]
  /\ \A k, m \in (Len(p.groups) + 1)..Len(r.groups) : k # m =>
       GroupSlots(r.groups[k]) \cap GroupSlots(r.groups[m]) = {}

LEMMA PushKeepsTidy ==
  ASSUME NEW p, Tidy(p), NEW g, IsGroup(g), NEW minimum
  PROVE  Tidy(PushGroup(p, g, minimum))
<1> DEFINE r == PushGroup(p, g, minimum)
           n == Len(p.groups)
<1>1. CASE r = p
  BY <1>1
<1>2. CASE r # p
  <2>1. /\ r = [p EXCEPT !.groups = Append(@, g), !.recovered = @ + Len(g.entries)]
        /\ ~ (p.recovered + Len(g.entries) > MaxImports) /\ ~ (Len(p.groups) >= MaxGroups)
    BY <1>2 DEF PushGroup
  <2>2. IsPlan(p)
    BY DEF Tidy
  <2>3. IsPlan(r) /\ r.groups = Append(p.groups, g) /\ r.recovered = p.recovered + Len(g.entries)
    <3> HIDE DEF r
    <3>1. QED
      BY <2>1, <2>2 DEF IsPlan
  <2> HIDE DEF r
  <2>4. n \in Nat /\ DOMAIN p.groups = 1..n
    BY SeqFacts DEF Tidy
  <2>5. /\ r.groups \in Seq(ToSet(r.groups)) /\ Len(r.groups) = n + 1 /\ DOMAIN r.groups = 1..(n + 1)
        /\ \A k \in 1..n : r.groups[k] = p.groups[k]
        /\ r.groups[n + 1] = g
    BY <2>3, AppendFacts DEF Tidy
  <2>6. \A k \in DOMAIN r.groups : IsGroup(r.groups[k])
    <3>1. TAKE k \in DOMAIN r.groups
    <3>2. k \in 1..n \/ k = n + 1
      BY <2>4, <2>5
    <3>3. QED
      BY <2>4, <2>5, <3>2 DEF Tidy
  <2>7. Sized(r)
    <3>1. PICK size \in [0..n -> Nat] :
            /\ size[0] = 0
            /\ \A k \in 1..n : size[k] = Len(p.groups[k].entries) + size[k - 1]
            /\ size[n] = p.recovered
      BY DEF Tidy, Sized
    <3> DEFINE more == [k \in 0..(n + 1) |-> IF k = n + 1 THEN r.recovered ELSE size[k]]
    <3> HIDE DEF n
    <3>2. r.recovered \in Nat
      BY <2>3 DEF Tidy, IsGroup
    <3>3. more \in [0..(n + 1) -> Nat] /\ more[0] = 0 /\ more[n + 1] = r.recovered
      BY <2>4, <3>1, <3>2
    <3>4. ASSUME NEW k \in 1..(n + 1)
          PROVE  more[k] = Len(r.groups[k].entries) + more[k - 1]
      <4>1. CASE k = n + 1
        <5>1. more[k - 1] = p.recovered /\ more[k] = r.recovered
          BY <2>4, <3>1, <4>1
        <5>2. p.recovered \in Nat /\ Len(g.entries) \in Nat
          BY DEF Tidy, IsGroup
        <5> HIDE DEF more
        <5>3. QED
          BY <2>3, <2>5, <4>1, <5>1, <5>2
      <4>2. CASE k # n + 1
        <5>1. k \in 1..n
          BY <2>4, <4>2
        <5>2. more[k] = size[k] /\ more[k - 1] = size[k - 1]
          BY <2>4, <5>1
        <5> HIDE DEF more
        <5>3. QED
          BY <2>5, <3>1, <5>1, <5>2
      <4>3. QED
        BY <4>1, <4>2
    <3> HIDE DEF more
    <3>5. QED
      BY <2>5, <3>3, <3>4 DEF Sized
  <2>8. r.recovered \in Nat /\ r.recovered <= MaxImports /\ Len(r.groups) <= MaxGroups
    <3>1. p.recovered \in Nat /\ Len(g.entries) \in Nat
      BY DEF Tidy, IsGroup
    <3>2. MaxImports \in Nat /\ MaxGroups \in Nat
      BY LimitsAssumption
    <3>3. QED
      BY <2>1, <2>3, <2>4, <2>5, <3>1, <3>2
  <2>9. Tidy(r)
    BY <2>3, <2>5, <2>6, <2>7, <2>8 DEF Tidy
  <2>10. QED
    BY <2>9 DEF r
<1>3. QED
  BY <1>1, <1>2

LEMMA PushOne ==
  ASSUME NEW p, NEW r, NEW gs, NEW n \in Nat, NEW j \in 1..n, NEW minimum,
         Tidy(p), PushedTo(r, p, gs, j - 1), \A k \in 1..n : IsGroup(gs[k]),
         \A k, l \in 1..n : k # l => GroupSlots(gs[k]) \cap GroupSlots(gs[l]) = {}
  PROVE  PushedTo(PushGroup(r, gs[j], minimum), p, gs, j)
<1> DEFINE t == PushGroup(r, gs[j], minimum)
           a == Len(p.groups)
           b == Len(r.groups)
<1>1. Tidy(t) /\ Tidy(r)
  BY PushKeepsTidy DEF PushedTo
<1>2. CASE t = r
  <2>1. \A k \in (a + 1)..b : \E l \in 1..j : r.groups[k] = gs[l]
    <3>1. \A k \in (a + 1)..b : \E l \in 1..(j - 1) : r.groups[k] = gs[l]
      BY DEF PushedTo
    <3>2. QED
      BY <3>1
  <2> HIDE DEF t
  <2>2. PushedTo(r, p, gs, j)
    BY <2>1 DEF PushedTo
  <2>3. QED
    BY <1>2, <2>2 DEF t
<1>3. CASE t # r
  <2>1. t = [r EXCEPT !.groups = Append(@, gs[j]), !.recovered = @ + Len(gs[j].entries)]
    BY <1>3 DEF PushGroup
  <2>2. IsPlan(p) /\ IsPlan(r) /\ r = [p EXCEPT !.groups = r.groups, !.recovered = r.recovered]
    BY DEF Tidy, PushedTo
  <2>3. t.groups = Append(r.groups, gs[j]) /\ t = [p EXCEPT !.groups = t.groups, !.recovered = t.recovered]
    <3> HIDE DEF t
    <3>1. QED
      BY <2>1, <2>2 DEF IsPlan
  <2>4. a \in Nat /\ b \in Nat /\ a <= b /\ DOMAIN r.groups = 1..b
    BY <1>1, SeqFacts DEF Tidy, PushedTo
  <2> HIDE DEF t
  <2>5. /\ Len(t.groups) = b + 1
        /\ \A k \in 1..b : t.groups[k] = r.groups[k]
        /\ t.groups[b + 1] = gs[j]
    BY <1>1, <2>3, AppendFacts DEF Tidy
  <2>6. \A k \in 1..a : t.groups[k] = p.groups[k]
    BY <2>4, <2>5 DEF PushedTo
  <2>7. ASSUME NEW k \in (a + 1)..b
        PROVE  /\ \E l \in 1..(j - 1) : t.groups[k] = gs[l]
               /\ GroupSlots(t.groups[k]) \cap GroupSlots(gs[j]) = {}
    <3>1. k \in 1..b
      BY <2>4
    <3>2. PICK l \in 1..(j - 1) : r.groups[k] = gs[l]
      BY DEF PushedTo
    <3>3. l # j /\ l \in 1..n
      OBVIOUS
    <3>4. QED
      BY <2>5, <3>1, <3>2, <3>3
  <2>8. \A k \in (a + 1)..(b + 1) : \E l \in 1..j : t.groups[k] = gs[l]
    <3>1. TAKE k \in (a + 1)..(b + 1)
    <3>2. CASE k = b + 1
      BY <2>5, <3>2
    <3>3. CASE k # b + 1
      <4>1. k \in (a + 1)..b
        BY <2>4, <3>3
      <4>2. QED
        BY <2>7, <4>1
    <3>4. QED
      BY <3>2, <3>3
  <2>9. ASSUME NEW k \in (a + 1)..(b + 1), NEW m \in (a + 1)..(b + 1), k # m
        PROVE  GroupSlots(t.groups[k]) \cap GroupSlots(t.groups[m]) = {}
    <3>1. CASE k = b + 1
      <4>1. m \in (a + 1)..b
        BY <2>4, <2>9, <3>1
      <4>2. QED
        BY <2>5, <2>7, <3>1, <4>1
    <3>2. CASE m = b + 1
      <4>1. k \in (a + 1)..b
        BY <2>4, <2>9, <3>2
      <4>2. QED
        BY <2>5, <2>7, <3>2, <4>1
    <3>3. CASE k # b + 1 /\ m # b + 1
      <4>1. k \in (a + 1)..b /\ m \in (a + 1)..b /\ k \in 1..b /\ m \in 1..b
        BY <2>4, <3>3
      <4>2. GroupSlots(r.groups[k]) \cap GroupSlots(r.groups[m]) = {}
        BY <2>9, <4>1 DEF PushedTo
      <4>3. QED
        BY <2>5, <4>1, <4>2
    <3>4. QED
      BY <3>1, <3>2, <3>3
  <2>10. PushedTo(t, p, gs, j)
    <3>1. Len(p.groups) <= Len(t.groups)
      BY <2>4, <2>5
    <3>2. \A k \in (Len(p.groups) + 1)..Len(t.groups) : \E l \in 1..j : t.groups[k] = gs[l]
      BY <2>5, <2>8
    <3>3. \A k, m \in (Len(p.groups) + 1)..Len(t.groups) : k # m =>
            GroupSlots(t.groups[k]) \cap GroupSlots(t.groups[m]) = {}
      BY <2>5, <2>9
    <3>4. \A k \in 1..Len(p.groups) : t.groups[k] = p.groups[k]
      BY <2>6
    <3>5. Tidy(t)
      BY <1>1 DEF t
    <3>6. QED
      BY <2>3, <3>1, <3>2, <3>3, <3>4, <3>5 DEF PushedTo
  <2>11. QED
    BY <2>10 DEF t
<1>4. QED
  BY <1>2, <1>3

LEMMA PushAllFacts ==
  ASSUME NEW p, Tidy(p), NEW gs, NEW n \in Nat, DOMAIN gs = 1..n, NEW minimum,
         \A k \in 1..n : IsGroup(gs[k]),
         \A k, l \in 1..n : k # l => GroupSlots(gs[k]) \cap GroupSlots(gs[l]) = {}
  PROVE  PushedTo(PushAll(p, gs, minimum), p, gs, n)
<1>1. PICK r : /\ r[0] = p
               /\ \A k \in 1..n : r[k] = PushGroup(r[k - 1], gs[k], minimum)
               /\ PushAll(p, gs, minimum) = r[n]
  BY PushSteps
<1> DEFINE P == {j \in Nat : j <= n => PushedTo(r[j], p, gs, j)}
<1>2. 0 \in P
  <2>1. p = [p EXCEPT !.groups = p.groups, !.recovered = p.recovered]
    BY DEF Tidy, IsPlan
  <2>2. Len(p.groups) \in Nat
    BY SeqFacts DEF Tidy
  <2>3. PushedTo(p, p, gs, 0)
    BY <2>1, <2>2 DEF PushedTo
  <2>4. QED
    BY <1>1, <2>3
<1>3. ASSUME NEW j \in Nat, j \in P
      PROVE  j + 1 \in P
  <2>1. SUFFICES ASSUME j + 1 <= n PROVE PushedTo(r[j + 1], p, gs, j + 1)
    OBVIOUS
  <2>2. j + 1 \in 1..n /\ (j + 1) - 1 = j
    BY <2>1
  <2>3. PushedTo(r[(j + 1) - 1], p, gs, (j + 1) - 1)
    BY <1>3, <2>2
  <2>4. PushedTo(PushGroup(r[(j + 1) - 1], gs[j + 1], minimum), p, gs, j + 1)
    <3> HIDE DEF P
    <3>1. QED
      BY <2>2, <2>3, PushOne
  <2>5. QED
    BY <1>1, <2>2, <2>4
<1>4. \A j \in Nat : j \in P
  <2> HIDE DEF P
  <2>1. QED
    BY <1>2, <1>3, EveryNat
<1>5. QED
  BY <1>1, <1>4

\* What plan p becomes by groups of one source, which lie apart, for slots that are kept.
Grown(r, p, kept, source, entry, module) ==
  /\ Tidy(r)
  /\ r = [p EXCEPT !.groups = r.groups, !.recovered = r.recovered, !.unrepresentable = r.unrepresentable]
  /\ Len(p.groups) <= Len(r.groups)
  /\ \A k \in 1..Len(p.groups) : r.groups[k] = p.groups[k]
  /\ \A k \in (Len(p.groups) + 1)..Len(r.groups) :
       /\ r.groups[k].source = source
       /\ \A s \in GroupSlots(r.groups[k]) :
            s \in kept /\ EntryAt(r.groups[k], s) = entry[s] /\ r.groups[k].module = module[s]
  /\ \A k, m \in (Len(p.groups) + 1)..Len(r.groups) : k # m =>
       GroupSlots(r.groups[k]) \cap GroupSlots(r.groups[m]) = {}

LEMMA GroupsArePushed ==
  ASSUME NEW p, Tidy(p), NEW u, NEW kept \in SUBSET Nat, IsFiniteSet(kept),
         NEW source, NEW entry, NEW module, NEW minimum
  PROVE  Grown(PushAll([p EXCEPT !.unrepresentable = u], Groups(kept, source, entry, module), minimum),
               p, kept, source, entry, module)
<1> DEFINE gs == Groups(kept, source, entry, module)
           q == [p EXCEPT !.unrepresentable = u]
           r == PushAll(q, gs, minimum)
<1>1. PICK n \in Nat : AreGroups(gs, n, kept, source, entry, module)
  BY GroupFacts
<1>2. IsPlan(p)
  BY DEF Tidy
<1>3. IsPlan(q) /\ q.groups = p.groups /\ q.recovered = p.recovered
  BY <1>2 DEF IsPlan
<1> HIDE DEF gs, q
<1>4. Tidy(q)
  BY <1>3 DEF Tidy, Sized
<1>5. PushedTo(r, q, gs, n)
  BY <1>1, <1>4, PushAllFacts DEF IsGroup, AreGroups
<1> HIDE DEF r
<1>6. r = [p EXCEPT !.groups = r.groups, !.recovered = r.recovered, !.unrepresentable = r.unrepresentable]
  <2>1. r = [q EXCEPT !.groups = r.groups, !.recovered = r.recovered]
    BY <1>5 DEF PushedTo
  <2>2. QED
    BY <1>2, <2>1 DEF IsPlan, q
<1>7. ASSUME NEW k \in (Len(p.groups) + 1)..Len(r.groups)
      PROVE  /\ r.groups[k].source = source
             /\ \A s \in GroupSlots(r.groups[k]) :
                  s \in kept /\ EntryAt(r.groups[k], s) = entry[s] /\ r.groups[k].module = module[s]
  <2>1. PICK l \in 1..n : r.groups[k] = gs[l]
    BY <1>3, <1>5 DEF PushedTo
  <2>2. QED
    BY <1>1, <2>1 DEF AreGroups
<1>8. Grown(r, p, kept, source, entry, module)
  BY <1>3, <1>5, <1>6, <1>7 DEF Grown, PushedTo
<1>9. QED
  BY <1>8 DEF r, q, gs

\* append_groups leaves nothing in a table but the imports that were found at some slots.
LEMMA AppendsGroups ==
  ASSUME NEW p, Tidy(p), NEW slots \in SUBSET Nat, IsFiniteSet(slots), NEW minimum, NEW source
  PROVE  \E kept \in SUBSET slots :
           Grown(AppendGroups(p, slots, minimum, source), p, kept, source,
                 [s \in kept |-> [name |-> SymbolAt(s).name, ordinal |-> SymbolAt(s).ordinal]],
                 [s \in kept |-> SymbolAt(s).module])
<1> DEFINE foreign == {s \in slots : SymbolAt(s).module # OwnName}
           kept == {s \in foreign : Representable(SymbolAt(s).module, SymbolAt(s))}
           entry == [s \in kept |-> [name |-> SymbolAt(s).name, ordinal |-> SymbolAt(s).ordinal]]
           module == [s \in kept |-> SymbolAt(s).module]
           u == p.unrepresentable + Cardinality(foreign \ kept)
<1>1. kept \in SUBSET slots
  OBVIOUS
<1>2. AppendGroups(p, slots, minimum, source) =
        PushAll([p EXCEPT !.unrepresentable = u], Groups(kept, source, entry, module), minimum)
  <2>1. [p EXCEPT !.unrepresentable = u] = [p EXCEPT !.unrepresentable = @ + Cardinality(foreign \ kept)]
    <3> HIDE DEF foreign, kept
    <3>1. IsPlan(p)
      BY DEF Tidy
    <3>2. QED
      BY <3>1 DEF IsPlan
  <2>2. AppendGroups(p, slots, minimum, source) =
          PushAll([p EXCEPT !.unrepresentable = @ + Cardinality(foreign \ kept)],
                  Groups(kept, source, entry, module), minimum)
    BY DEF AppendGroups
  <2> HIDE DEF foreign, kept, entry, module, u
  <2>3. QED
    BY <2>1, <2>2
<1> HIDE DEF foreign, kept
<1>3. kept \in SUBSET Nat /\ IsFiniteSet(kept)
  BY <1>1, FS_Subset
<1> HIDE DEF entry, module, u
<1>4. Grown(AppendGroups(p, slots, minimum, source), p, kept, source, entry, module)
  BY <1>2, <1>3, GroupsArePushed
<1>5. QED
  BY <1>1, <1>4 DEF entry, module

\* What cannot be written is counted, and nothing that was counted is lost.
CountsMore(t, p) ==
  /\ t.unresolved = p.unresolved
  /\ p.unrepresentable \in Nat => t.unrepresentable \in Nat /\ t.unrepresentable >= p.unrepresentable

LEMMA PushesCount ==
  ASSUME NEW p, Tidy(p), NEW u, NEW kept \in SUBSET Nat, IsFiniteSet(kept),
         NEW source, NEW entry, NEW module, NEW minimum,
         NEW t, t = PushAll([p EXCEPT !.unrepresentable = u], Groups(kept, source, entry, module), minimum)
  PROVE  t.unrepresentable = u /\ t.unresolved = p.unresolved
<1> DEFINE gs == Groups(kept, source, entry, module)
           q == [p EXCEPT !.unrepresentable = u]
<1>1. PICK n \in Nat : AreGroups(gs, n, kept, source, entry, module)
  BY GroupFacts
<1>2. IsPlan(p)
  BY DEF Tidy
<1>3. /\ IsPlan(q) /\ q.groups = p.groups /\ q.recovered = p.recovered
      /\ q.unrepresentable = u /\ q.unresolved = p.unresolved
  BY <1>2 DEF IsPlan
<1> HIDE DEF gs, q
<1>4. Tidy(q)
  BY <1>3 DEF Tidy, Sized
<1>5. t = PushAll(q, gs, minimum)
  BY DEF q, gs
<1>6. PushedTo(t, q, gs, n)
  BY <1>1, <1>4, <1>5, PushAllFacts DEF IsGroup, AreGroups
<1>7. t = [q EXCEPT !.groups = t.groups, !.recovered = t.recovered]
  BY <1>6 DEF PushedTo
<1>8. QED
  BY <1>3, <1>7 DEF IsPlan

LEMMA AppendsCount ==
  ASSUME NEW p, Tidy(p), NEW slots \in SUBSET Nat, IsFiniteSet(slots), NEW minimum, NEW source
  PROVE  CountsMore(AppendGroups(p, slots, minimum, source), p)
<1> DEFINE foreign == {s \in slots : SymbolAt(s).module # OwnName}
           kept == {s \in foreign : Representable(SymbolAt(s).module, SymbolAt(s))}
           entry == [s \in kept |-> [name |-> SymbolAt(s).name, ordinal |-> SymbolAt(s).ordinal]]
           module == [s \in kept |-> SymbolAt(s).module]
           u == p.unrepresentable + Cardinality(foreign \ kept)
           t == AppendGroups(p, slots, minimum, source)
<1>1. kept \in SUBSET slots /\ foreign \ kept \in SUBSET slots
  OBVIOUS
<1>2. t = PushAll([p EXCEPT !.unrepresentable = u], Groups(kept, source, entry, module), minimum)
  <2>1. [p EXCEPT !.unrepresentable = u] = [p EXCEPT !.unrepresentable = @ + Cardinality(foreign \ kept)]
    <3> HIDE DEF foreign, kept
    <3>1. IsPlan(p)
      BY DEF Tidy
    <3>2. QED
      BY <3>1 DEF IsPlan
  <2>2. t = PushAll([p EXCEPT !.unrepresentable = @ + Cardinality(foreign \ kept)],
                  Groups(kept, source, entry, module), minimum)
    BY DEF AppendGroups
  <2> HIDE DEF foreign, kept, entry, module, u, t
  <2>3. QED
    BY <2>1, <2>2
<1> HIDE DEF foreign, kept, entry, module, t
<1>3. kept \in SUBSET Nat /\ IsFiniteSet(kept) /\ IsFiniteSet(foreign \ kept)
  BY <1>1, FS_Subset
<1>4. Cardinality(foreign \ kept) \in Nat
  BY <1>3, FS_CardinalityType
<1>5. p.unrepresentable \in Nat => u \in Nat /\ u >= p.unrepresentable
  BY <1>4
<1> HIDE DEF u
<1>6. t.unrepresentable = u /\ t.unresolved = p.unresolved
  BY <1>2, <1>3, PushesCount
<1>7. QED
  BY <1>5, <1>6 DEF CountsMore, t

-----------------------------------------------------------------------------
\* What the lists of ranges, tables, exports and forwarders have in common: each element
\* that passes a test adds what is made of it.
CollectRule(it, s, q, test, make) ==
  IF s = {} THEN <<>>
  ELSE IF test[q[Max(s)]] THEN it[s \ {Max(s)}] \o make[q[Max(s)]]
  ELSE it[s \ {Max(s)}]

Collects(it, n, q, test, make) == it = [s \in SUBSET (1..n) |-> CollectRule(it, s, q, test, make)]

LEMMA CollectorExists ==
  ASSUME NEW n \in Nat, NEW q, NEW test, NEW make
  PROVE  \E it : Collects(it, n, q, test, make)
<1> DEFINE Rule(it, s) == CollectRule(it, s, q, test, make)
           P == {m \in Nat : \E it : it = [s \in Upto(n, m) |-> Rule(it, s)]}
<1>1. 0 \in P
  <2>1. Upto(n, 0) = {{}}
    BY UptoFacts
  <2> DEFINE it == [s \in Upto(n, 0) |-> <<>>]
  <2>2. it = [s \in Upto(n, 0) |-> Rule(it, s)]
    BY <2>1 DEF CollectRule
  <2> HIDE DEF it, Rule
  <2>3. QED
    BY <2>2
<1>2. ASSUME NEW m \in Nat, m \in P
      PROVE  m + 1 \in P
  <2>1. PICK old : old = [s \in Upto(n, m) |-> Rule(old, s)]
    BY <1>2
  <2> DEFINE it == [s \in Upto(n, m + 1) |-> Rule(old, s)]
  <2>2. ASSUME NEW s \in Upto(n, m + 1)
        PROVE  it[s] = Rule(it, s)
    <3>1. CASE s = {}
      BY <3>1 DEF CollectRule
    <3>2. CASE s # {}
      <4>1. s \ {Max(s)} \in Upto(n, m) /\ s \ {Max(s)} \in Upto(n, m + 1)
        BY <3>2, UptoFacts
      <4>2. it[s \ {Max(s)}] = old[s \ {Max(s)}]
        <5> HIDE DEF Rule
        <5>1. QED
          BY <2>1, <4>1
      <4>3. QED
        BY <4>2 DEF CollectRule
    <3>3. QED
      BY <3>1, <3>2
  <2>3. it = [s \in Upto(n, m + 1) |-> Rule(it, s)]
    <3>1. [s \in Upto(n, m + 1) |-> Rule(it, s)] = [s \in Upto(n, m + 1) |-> it[s]]
      <4> HIDE DEF it, Rule
      <4>1. QED
        BY <2>2
    <3>2. it = [s \in Upto(n, m + 1) |-> it[s]]
      <4> HIDE DEF Rule
      <4>1. QED
        OBVIOUS
    <3>3. QED
      <4> HIDE DEF it, Rule
      <4>1. QED
        BY <3>1, <3>2
  <2> HIDE DEF it, Rule
  <2>4. QED
    BY <2>3
<1>3. n \in P
  <2> HIDE DEF P
  <2>1. QED
    BY <1>1, <1>2, EveryNat
<1>4. Upto(n, n) = SUBSET (1..n)
  BY UptoFacts
<1> HIDE DEF Rule
<1>5. QED
  BY <1>3, <1>4 DEF Collects, Rule

\* Two lists that are put together.
Joined(c, a, b) ==
  /\ c \in Seq(ToSet(c)) /\ Len(c) = Len(a) + Len(b)
  /\ DOMAIN c = 1..(Len(a) + Len(b)) /\ Len(a) \in Nat /\ Len(b) \in Nat
  /\ \A k \in 1..Len(a) : c[k] = a[k]
  /\ \A k \in 1..Len(b) : c[Len(a) + k] = b[k]

LEMMA JoinFacts ==
  ASSUME NEW a, a \in Seq(ToSet(a)), NEW b, b \in Seq(ToSet(b))
  PROVE  Joined(a \o b, a, b)
<1> DEFINE c == a \o b
<1> DEFINE T == ToSet(a) \cup ToSet(b)
           A == ToSet(a)
           B == ToSet(b)
<1>0. c = a \o b
  OBVIOUS
<1> HIDE DEF c
<1>1. a \in Seq(T) /\ b \in Seq(T)
  <2>1. a \in Seq(A) /\ b \in Seq(B) /\ T = A \cup B
    OBVIOUS
  <2> HIDE DEF A, B, T
  <2>2. QED
    BY <2>1
<1> HIDE DEF T, A, B
<1>2. /\ c \in Seq(T) /\ Len(c) = Len(a) + Len(b)
      /\ DOMAIN c = 1..(Len(a) + Len(b)) /\ Len(a) \in Nat /\ Len(b) \in Nat
  BY <1>0, <1>1
<1>3. \A k \in 1..Len(a) : c[k] = a[k]
  BY <1>0, <1>1
<1>4. \A k \in 1..Len(b) : c[Len(a) + k] = b[k]
  BY <1>0, <1>1, <1>2
<1>5. c \in Seq(ToSet(c))
  BY <1>2, SeqOfItself
<1>6. QED
  BY <1>2, <1>3, <1>4, <1>5 DEF Joined, c

\* Each member of the result stems from another element, or from another place in what was
\* made of it.
StemsFrom(out, from, n, q, test, make) ==
  /\ out \in Seq(ToSet(out))
  /\ from \in [1..Len(out) -> (1..n) \X (Nat \ {0})]
  /\ \A i \in 1..Len(out) :
       /\ test[q[from[i][1]]]
       /\ from[i][2] \in DOMAIN make[q[from[i][1]]]
       /\ out[i] = make[q[from[i][1]]][from[i][2]]
  /\ \A i, j \in 1..Len(out) : from[i] = from[j] => i = j

LEMMA CollectedFacts ==
  ASSUME NEW n \in Nat, NEW q, NEW test, NEW make, NEW it, Collects(it, n, q, test, make),
         \A k \in 1..n : test[q[k]] => make[q[k]] \in Seq(ToSet(make[q[k]]))
  PROVE  \E from : StemsFrom(it[1..n], from, n, q, test, make)
<1> DEFINE Stem(out, from, m) == StemsFrom(out, from, m, q, test, make)
           P == {m \in Nat : m <= n => \E from : Stem(it[1..m], from, m)}
<1>1. 0 \in P
  <2>1. 1..0 = {} /\ {} \in SUBSET (1..n)
    OBVIOUS
  <2>2. it[1..0] = <<>>
    BY <2>1 DEF Collects, CollectRule
  <2> DEFINE from == [i \in 1..0 |-> <<1, 1>>]
  <2>3. Stem(<<>>, from, 0)
    <3>1. <<>> \in Seq(ToSet(<<>>)) /\ Len(<<>>) = 0
      OBVIOUS
    <3>2. from \in [1..0 -> (1..0) \X (Nat \ {0})]
      OBVIOUS
    <3> HIDE DEF from
    <3>3. QED
      BY <2>1, <3>1, <3>2 DEF StemsFrom
  <2> HIDE DEF from, Stem
  <2>4. QED
    BY <2>2, <2>3
<1>2. ASSUME NEW m \in Nat, m \in P
      PROVE  m + 1 \in P
  <2>1. SUFFICES ASSUME m + 1 <= n
                 PROVE  \E from : Stem(it[1..(m + 1)], from, m + 1)
    OBVIOUS
  <2>2. PICK from : Stem(it[1..m], from, m)
    BY <1>2, <2>1
  <2> DEFINE a == it[1..m]
             b == make[q[m + 1]]
             c == it[1..(m + 1)]
  <2>3. c = IF test[q[m + 1]] THEN a \o b ELSE a
    <3>1. m + 1 \in 1..n /\ (m + 1) - 1 = m
      BY <2>1
    <3>2. 1..(m + 1) \in SUBSET (1..n) /\ 1..(m + 1) # {}
      BY <3>1, LastPosition
    <3>3. Max(1..(m + 1)) = m + 1 /\ (1..(m + 1)) \ {m + 1} = 1..m
      BY <3>1, LastPosition
    <3>4. c = CollectRule(it, 1..(m + 1), q, test, make)
      BY <3>2 DEF Collects
    <3>5. QED
      BY <3>2, <3>3, <3>4 DEF CollectRule
  <2>4. /\ a \in Seq(ToSet(a)) /\ Len(a) \in Nat
        /\ from \in [1..Len(a) -> (1..m) \X (Nat \ {0})]
        /\ \A i \in 1..Len(a) :
             /\ from[i][1] \in 1..m /\ from[i][2] \in Nat \ {0} /\ from[i] = <<from[i][1], from[i][2]>>
             /\ test[q[from[i][1]]]
             /\ from[i][2] \in DOMAIN make[q[from[i][1]]]
             /\ a[i] = make[q[from[i][1]]][from[i][2]]
        /\ \A i, j \in 1..Len(a) : from[i] = from[j] => i = j
    <3>1. a \in Seq(ToSet(a)) /\ from \in [1..Len(a) -> (1..m) \X (Nat \ {0})]
      BY <2>2 DEF StemsFrom
    <3>2. Len(a) \in Nat
      BY <3>1, SeqFacts
    <3>3. \A i \in 1..Len(a) :
            from[i][1] \in 1..m /\ from[i][2] \in Nat \ {0} /\ from[i] = <<from[i][1], from[i][2]>>
      <4>1. TAKE i \in 1..Len(a)
      <4>2. from[i] \in (1..m) \X (Nat \ {0})
        BY <3>1
      <4>3. QED
        BY <4>2
    <3>4. QED
      BY <2>2, <3>1, <3>2, <3>3 DEF StemsFrom
  <2> HIDE DEF a, b, c, Stem
  <2>5. CASE test[q[m + 1]]
    <3>1. c = a \o b /\ b \in Seq(ToSet(b))
      BY <2>1, <2>3, <2>5 DEF b
    <3>0. DOMAIN b = 1..Len(b)
      BY <3>1, SeqFacts
    <3>2. /\ c \in Seq(ToSet(c)) /\ Len(c) = Len(a) + Len(b) /\ Len(b) \in Nat
          /\ \A k \in 1..Len(a) : c[k] = a[k]
          /\ \A k \in 1..Len(b) : c[Len(a) + k] = b[k]
          /\ DOMAIN b = 1..Len(b)
      <4>1. a \in Seq(ToSet(a))
        BY <2>4
      <4>2. Joined(c, a, b)
        BY <3>1, <4>1, JoinFacts
      <4>3. QED
        BY <3>0, <4>2 DEF Joined
    <3> DEFINE more == [i \in 1..Len(c) |-> IF i <= Len(a) THEN from[i] ELSE <<m + 1, i - Len(a)>>]
    <3>3. ASSUME NEW i \in 1..Len(c)
          PROVE  \/ i \in 1..Len(a) /\ more[i] = from[i] /\ more[i][1] # m + 1
                 \/ /\ i - Len(a) \in 1..Len(b) /\ more[i] = <<m + 1, i - Len(a)>>
                    /\ more[i][1] = m + 1 /\ more[i][2] = i - Len(a)
                    /\ i = Len(a) + (i - Len(a))
      <4>1. CASE i <= Len(a)
        <5>1. i \in 1..Len(a) /\ more[i] = from[i]
          BY <2>4, <3>2, <4>1
        <5>2. from[i][1] \in 1..m
          BY <2>4, <5>1
        <5>3. QED
          BY <5>1, <5>2
      <4>2. CASE ~ (i <= Len(a))
        BY <2>4, <3>2, <4>2
      <4>3. QED
        BY <4>1, <4>2
    <3>4. more \in [1..Len(c) -> (1..(m + 1)) \X (Nat \ {0})]
      <4>1. ASSUME NEW i \in 1..Len(c)
            PROVE  more[i] \in (1..(m + 1)) \X (Nat \ {0})
        <5>1. CASE i \in 1..Len(a) /\ more[i] = from[i]
          <6>1. from[i][1] \in 1..(m + 1) /\ from[i][2] \in Nat \ {0} /\ from[i] = <<from[i][1], from[i][2]>>
            BY <2>4, <5>1
          <6> DEFINE x == from[i][1]
                     y == from[i][2]
          <6>2. x \in 1..(m + 1) /\ y \in Nat \ {0} /\ more[i] = <<x, y>>
            BY <5>1, <6>1
          <6> HIDE DEF more, x, y
          <6>3. QED
            BY <6>2
        <5>2. CASE i - Len(a) \in 1..Len(b) /\ more[i] = <<m + 1, i - Len(a)>>
          <6>1. m + 1 \in 1..(m + 1) /\ i - Len(a) \in Nat \ {0}
            BY <5>2
          <6> HIDE DEF more
          <6>2. QED
            BY <5>2, <6>1
        <5>3. QED
          BY <3>3, <5>1, <5>2
      <4>2. QED
        BY <4>1
    <3> HIDE DEF more
    <3>5. ASSUME NEW i \in 1..Len(c)
          PROVE  /\ test[q[more[i][1]]]
                 /\ more[i][2] \in DOMAIN make[q[more[i][1]]]
                 /\ c[i] = make[q[more[i][1]]][more[i][2]]
      <4>1. CASE i \in 1..Len(a) /\ more[i] = from[i]
        BY <2>4, <3>2, <4>1
      <4>2. CASE i - Len(a) \in 1..Len(b) /\ more[i] = <<m + 1, i - Len(a)>> /\ i = Len(a) + (i - Len(a))
        <5>1. more[i][1] = m + 1 /\ more[i][2] = i - Len(a)
          BY <4>2
        <5>2. c[i] = b[i - Len(a)]
          BY <3>2, <4>2
        <5>3. QED
          BY <2>5, <3>2, <4>2, <5>1, <5>2 DEF b
      <4>3. QED
        BY <3>3, <4>1, <4>2
    <3>6. ASSUME NEW i \in 1..Len(c), NEW j \in 1..Len(c), more[i] = more[j]
          PROVE  i = j
      <4>1. CASE i \in 1..Len(a) /\ more[i] = from[i] /\ more[i][1] # m + 1
        <5>1. j \in 1..Len(a) /\ more[j] = from[j]
          BY <3>3, <3>6, <4>1
        <5>2. QED
          BY <2>4, <3>6, <4>1, <5>1
      <4>2. CASE more[i][1] = m + 1 /\ more[i][2] = i - Len(a)
        <5>1. more[j][1] = m + 1 /\ more[j][2] = i - Len(a)
          BY <3>6, <4>2
        <5>2. j - Len(a) = i - Len(a)
          BY <3>3, <5>1
        <5>3. QED
          BY <2>4, <5>2
      <4>3. QED
        BY <3>3, <4>1, <4>2
    <3>7. Stem(c, more, m + 1)
      BY <3>2, <3>4, <3>5, <3>6 DEF Stem, StemsFrom
    <3>8. QED
      BY <3>7 DEF c
  <2>6. CASE ~ test[q[m + 1]]
    <3>1. c = a
      BY <2>3, <2>6
    <3>2. from \in [1..Len(a) -> (1..(m + 1)) \X (Nat \ {0})]
      BY <2>4
    <3>3. Stem(c, from, m + 1)
      BY <2>4, <3>1, <3>2 DEF Stem, StemsFrom
    <3>4. QED
      BY <3>3 DEF c
  <2>7. QED
    BY <2>5, <2>6
<1>3. \A m \in Nat : m \in P
  <2> HIDE DEF P
  <2>1. QED
    BY <1>1, <1>2, EveryNat
<1>4. QED
  BY <1>3

\* What is looked for in the sections are ranges that lie apart.
RangeSlots(r) == r.start..(r.end - 1)

IsScan(r) == r.start \in Nat /\ r.end \in Nat

LEMMA PartsApart ==
  ASSUME NEW r, NEW t, IsScan(r), IsScan(t), NEW s1 \in Nat, NEW e1 \in Nat, NEW s2 \in Nat, NEW e2 \in Nat,
         s1 <= r.start, r.end <= e1, s2 <= t.start, t.end <= e2, e1 <= s2 \/ e2 <= s1
  PROVE  RangeSlots(r) \cap RangeSlots(t) = {}
<1>1. r.start \in Nat /\ r.end \in Nat /\ t.start \in Nat /\ t.end \in Nat
  BY DEF IsScan
<1>2. r.end <= t.start \/ t.end <= r.start
  BY <1>1
<1>3. ASSUME NEW x, x \in RangeSlots(r), x \in RangeSlots(t)
      PROVE  FALSE
  BY <1>1, <1>2, <1>3 DEF RangeSlots
<1>4. QED
  BY <1>3

\* The part of a section that is trusted lies within it.
LEMMA TrustedPart ==
  ASSUME image \in Images, NEW i \in DOMAIN image.sections
  PROVE  LET s == image.sections[i]
             r == TrustedRange(s)
         IN  /\ s.start \in Nat /\ s.end \in Nat
             /\ IsScan(r) /\ r.source \in {"Attested", "Scanned"}
             /\ s.start <= r.start /\ r.end <= s.end
<1> DEFINE s == image.sections[i]
           n == Cardinality(Slots)
<1>1. s.start \in Nat /\ s.end \in Nat /\ image.iat.start \in Nat /\ image.iat.end \in Nat
  <2>1. /\ image.sections \in Seq([start : Nat, end : Nat, data : BOOLEAN, imports : BOOLEAN])
        /\ image.iat \in [start : Nat, end : Nat]
    BY ImagesAssumption
  <2> DEFINE Row == [start : Nat, end : Nat, data : BOOLEAN, imports : BOOLEAN]
             q == image.sections
  <2>2. q \in Seq(Row) /\ i \in DOMAIN q
    BY <2>1
  <2> HIDE DEF Row, q
  <2>3. q[i] \in Row
    BY <2>2
  <2> USE DEF Row, q
  <2>4. QED
    BY <2>1, <2>3
<1>2. n \in Nat
  <2>1. IsFiniteSet(Slots)
    BY ImagesAssumption DEF Slots
  <2>2. QED
    BY <2>1, FS_CardinalityType
<1>3. ASSUME NEW a \in Nat, NEW b \in Nat
      PROVE  First({a, b}) \in Nat /\ First({a, b}) <= a /\ First({a, b}) <= b
  <2> DEFINE pair == {a, b}
  <2>1. pair \in SUBSET {j \in Int : j >= 0} /\ pair # {} /\ 0 \in Int
    OBVIOUS
  <2> HIDE DEF pair
  <2>2. First(pair) \in pair /\ \A y \in pair : First(pair) <= y
    BY <2>1, FirstOfNats
  <2> USE DEF pair
  <2>3. QED
    BY <2>2
<1> HIDE DEF s, n
<1> DEFINE start == IF image.iat.start > s.start THEN image.iat.start ELSE s.start
           end == First({image.iat.end, s.end})
<1>4. start \in Nat /\ end \in Nat /\ s.start <= start /\ end <= s.end
  BY <1>1, <1>3
<1>5. TrustedRange(s) =
        IF start < end THEN [start |-> start, end |-> First({end, n}), minimum |-> 1, source |-> "Attested"]
        ELSE [start |-> s.start, end |-> First({s.end, n}), minimum |-> 2, source |-> "Scanned"]
  BY DEF TrustedRange, n
<1> HIDE DEF start, end
<1>6. /\ First({end, n}) \in Nat /\ First({end, n}) <= end
      /\ First({s.end, n}) \in Nat /\ First({s.end, n}) <= s.end
  BY <1>1, <1>2, <1>3, <1>4
<1>7. CASE start < end
  <2>1. TrustedRange(s) = [start |-> start, end |-> First({end, n}), minimum |-> 1, source |-> "Attested"]
    BY <1>5, <1>7
  <2>2. QED
    BY <1>1, <1>4, <1>6, <2>1 DEF IsScan, s
<1>8. CASE ~ (start < end)
  <2>1. TrustedRange(s) = [start |-> s.start, end |-> First({s.end, n}), minimum |-> 2, source |-> "Scanned"]
    BY <1>5, <1>8
  <2>2. QED
    BY <1>1, <1>4, <1>6, <2>1 DEF IsScan, s
<1>9. QED
  BY <1>7, <1>8

LEMMA TrustedRangesFacts ==
  ASSUME image \in Images
  PROVE  /\ TrustedRanges \in Seq(ToSet(TrustedRanges))
         /\ \A i \in DOMAIN TrustedRanges :
              IsScan(TrustedRanges[i]) /\ TrustedRanges[i].source \in {"Attested", "Scanned"}
         /\ \A i, j \in DOMAIN TrustedRanges : i # j =>
              RangeSlots(TrustedRanges[i]) \cap RangeSlots(TrustedRanges[j]) = {}
<1> DEFINE q == image.sections
           n == Len(q)
           Passes(x) == x.data /\ (x.imports \/ TrustedRange(x).source = "Attested")
           Part(it, s) ==
             IF s = {} THEN <<>>
             ELSE IF Passes(q[Max(s)]) THEN it[s \ {Max(s)}] \o <<TrustedRange(q[Max(s)])>>
             ELSE it[s \ {Max(s)}]
           Inline(it) == it = [s \in SUBSET DOMAIN q |-> Part(it, s)]
           test == [x \in ToSet(q) |-> Passes(x)]
           make == [x \in ToSet(q) |-> <<TrustedRange(x)>>]
           table == CHOOSE it : Inline(it)
           out == TrustedRanges
<1>1. n \in Nat /\ DOMAIN q = 1..n
  BY ImagesAssumption
<1>2. out = table[DOMAIN q]
  BY DEF TrustedRanges, FoldLeft, MapThenFoldSet
<1>3. ASSUME NEW k \in 1..n
      PROVE  test[q[k]] = Passes(q[k]) /\ make[q[k]] = <<TrustedRange(q[k])>>
  <2>1. q[k] \in ToSet(q)
    BY <1>1 DEF ToSet
  <2> HIDE DEF q, Passes
  <2>2. QED
    BY <2>1
<1> HIDE DEF Passes, test, make
<1>4. ASSUME NEW it
      PROVE  Inline(it) <=> Collects(it, n, q, test, make)
  <2>1. ASSUME NEW s \in SUBSET (1..n)
        PROVE  Part(it, s) = CollectRule(it, s, q, test, make)
    <3>1. CASE s = {}
      BY <3>1 DEF CollectRule
    <3>2. CASE s # {}
      <4>1. Max(s) \in 1..n
        BY <1>1, <3>2, PositionsOf
      <4>2. test[q[Max(s)]] = Passes(q[Max(s)]) /\ make[q[Max(s)]] = <<TrustedRange(q[Max(s)])>>
        BY <1>3, <4>1
      <4>3. QED
        BY <3>2, <4>2 DEF CollectRule
    <3>3. QED
      BY <3>1, <3>2
  <2> HIDE DEF Part, q, n
  <2>2. [s \in SUBSET (1..n) |-> Part(it, s)] = [s \in SUBSET (1..n) |-> CollectRule(it, s, q, test, make)]
    BY <2>1
  <2>3. QED
    BY <1>1, <2>2 DEF Collects
<1> HIDE DEF Inline
<1>5. Collects(table, n, q, test, make)
  <2>1. \E it : Inline(it)
    BY <1>1, <1>4, CollectorExists
  <2>2. Inline(table)
    BY <2>1
  <2>3. QED
    BY <1>4, <2>2
<1>6. \A k \in 1..n : test[q[k]] => make[q[k]] \in Seq(ToSet(make[q[k]]))
  <2>1. TAKE k \in 1..n
  <2> DEFINE x == TrustedRange(q[k])
  <2>2. make[q[k]] = <<x>>
    BY <1>3
  <2> HIDE DEF x
  <2>3. <<x>> \in Seq({x})
    OBVIOUS
  <2>4. QED
    BY <2>2, <2>3, SeqOfItself
<1> HIDE DEF table
<1>7. PICK from : StemsFrom(out, from, n, q, test, make)
  <2>1. \E from : StemsFrom(table[1..n], from, n, q, test, make)
    <3> HIDE DEF q, n
    <3>1. QED
      BY <1>1, <1>5, <1>6, CollectedFacts
  <2>2. QED
    BY <1>1, <1>2, <2>1
<1> HIDE DEF out
<1>8. out \in Seq(ToSet(out)) /\ DOMAIN out = 1..Len(out)
  BY <1>7, SeqFacts DEF StemsFrom
<1>9. ASSUME NEW i \in 1..Len(out)
      PROVE  from[i] = <<from[i][1], 1>> /\ from[i][1] \in 1..n /\ out[i] = TrustedRange(q[from[i][1]])
  <2>1. from[i] \in (1..n) \X (Nat \ {0})
    BY <1>7 DEF StemsFrom
  <2>2. from[i][1] \in 1..n /\ from[i] = <<from[i][1], from[i][2]>>
    BY <2>1
  <2>3. make[q[from[i][1]]] = <<TrustedRange(q[from[i][1]])>>
    BY <1>3, <2>2
  <2>4. from[i][2] \in DOMAIN make[q[from[i][1]]] /\ out[i] = make[q[from[i][1]]][from[i][2]]
    BY <1>7 DEF StemsFrom
  <2>5. from[i][2] = 1
    BY <2>3, <2>4
  <2>6. QED
    BY <2>2, <2>3, <2>4, <2>5
<1>10. ASSUME NEW i \in 1..Len(out)
       PROVE  IsScan(out[i]) /\ out[i].source \in {"Attested", "Scanned"}
  BY <1>1, <1>9, TrustedPart
<1>11. ASSUME NEW i \in 1..Len(out), NEW j \in 1..Len(out), i # j
       PROVE  RangeSlots(out[i]) \cap RangeSlots(out[j]) = {}
  <2>1. from[i] # from[j]
    BY <1>7, <1>11 DEF StemsFrom
  <2> DEFINE a == from[i][1]
             b == from[j][1]
  <2>2. a # b /\ a \in DOMAIN q /\ b \in DOMAIN q
    BY <1>1, <1>9, <2>1
  <2>3. q[a].end <= q[b].start \/ q[b].end <= q[a].start
    <3> HIDE DEF a, b
    <3>1. a \in Nat /\ b \in Nat
      BY <1>1, <2>2
    <3>2. a < b \/ b < a
      BY <2>2, <3>1
    <3>3. QED
      BY <2>2, <3>2, ImagesAssumption
  <2>4. /\ q[a].start <= out[i].start /\ out[i].end <= q[a].end
        /\ q[b].start <= out[j].start /\ out[j].end <= q[b].end
        /\ IsScan(out[i]) /\ IsScan(out[j])
        /\ q[a].start \in Nat /\ q[a].end \in Nat /\ q[b].start \in Nat /\ q[b].end \in Nat
    BY <1>9, <2>2, TrustedPart
  <2> HIDE DEF a, b, q
  <2>5. QED
    BY <2>3, <2>4, PartsApart DEF IsScan
<1>12. QED
  BY <1>8, <1>10, <1>11 DEF out

\* A table of thunks that is not empty is the run of slots up to its end.
LEMMA ThunksAreARun ==
  ASSUME image \in Images, NEW start \in Nat, TableLength(start) > 0
  PROVE  /\ TableLength(start) \in Nat
         /\ ThunksFrom(start) = start..(start + TableLength(start) - 1)
<1> DEFINE T == ThunksFrom(start)
           m == Max(T)
<1>1. /\ IsFiniteSet(Slots) /\ Slots = 0..(Cardinality(Slots) - 1) /\ Cardinality(Slots) \in Nat
  BY ImagesAssumption, FS_CardinalityType DEF Slots
<1>2. T \subseteq Slots /\ T \in SUBSET Int /\ IsFiniteSet(T)
  <2>1. T \subseteq Slots
    BY DEF ThunksFrom
  <2> HIDE DEF T
  <2>2. QED
    BY <1>1, <2>1, FS_Subset
<1>3. Cardinality(T) = TableLength(start) /\ TableLength(start) \in Nat /\ T # {}
  <2>1. Cardinality(T) = TableLength(start)
    BY DEF TableLength
  <2> HIDE DEF T
  <2>2. QED
    BY <1>2, <2>1, FS_CardinalityType, FS_EmptySet
<1>4. m \in T /\ \A y \in T : y <= m
  <2> HIDE DEF T
  <2>1. QED
    BY <1>2, <1>3, MaxOfInts
<1> HIDE DEF m
<1>5. m \in Slots /\ start <= m /\ \A r \in start..m : ~ IsZero(r)
  BY <1>4 DEF ThunksFrom
<1>6. T = start..m
  <2>1. ASSUME NEW s \in T PROVE s \in start..m
    <3>1. s \in Int /\ s >= start /\ s <= m /\ m \in Int
      BY <1>2, <1>4, <2>1 DEF ThunksFrom
    <3>2. QED
      BY <3>1
  <2>2. ASSUME NEW s \in start..m PROVE s \in T
    <3>1. s \in Slots /\ s >= start
      BY <1>1, <1>5
    <3>2. \A r \in start..s : ~ IsZero(r)
      <4>1. m \in Int
        BY <1>1, <1>5
      <4>2. QED
        BY <1>5, <4>1
    <3>3. QED
      BY <3>1, <3>2 DEF ThunksFrom
  <2>3. QED
    BY <2>1, <2>2
<1>7. Cardinality(T) = m - start + 1
  <2>1. m \in Int /\ start <= m
    BY <1>1, <1>5
  <2> HIDE DEF T
  <2>2. QED
    BY <1>6, <2>1, FS_Interval
<1>8. QED
  <2>1. m \in Int
    BY <1>1, <1>5
  <2> HIDE DEF T
  <2>2. T = start..(start + TableLength(start) - 1)
    BY <1>3, <1>6, <1>7, <2>1
  <2>3. QED
    BY <1>3, <2>2 DEF T

\* What is looked for in the delay tables are whole tables, each of another descriptor,
\* whose first slot no group holds yet.
IsScanOf(r, d) ==
  /\ IsDelayTable(d) /\ d.start \notin RecoveredSlots(plan)
  /\ IsScan(r) /\ r.source = "Delayed" /\ RangeSlots(r) = ThunksFrom(d.start)

\* The delay tables that are within the budget are the first of all.
LEMMA AffordableFacts ==
  ASSUME image \in Images
  PROVE  /\ Len(Affordable) \in Nat /\ DOMAIN Affordable = 1..Len(Affordable)
         /\ \A k \in 1..Len(Affordable) : k \in DOMAIN image.delay /\ Affordable[k] = image.delay[k]
<1> DEFINE spent == CHOOSE it : it = [k \in 0..Len(image.delay) |->
                      IF k = 0 THEN 0 ELSE it[k - 1] + DelayCost(image.delay[k])]
           dear == {k \in DOMAIN image.delay : spent[k] > MaxImports}
           m == IF dear = {} THEN Len(image.delay) ELSE First(dear) - 1
<1>1. Affordable = SubSeq(image.delay, 1, m)
  BY DEF Affordable
<1>2. image.delay \in Seq([start : Nat, names : Nat, readable : BOOLEAN])
  BY ImagesAssumption
<1>3. Len(image.delay) \in Nat /\ DOMAIN image.delay = 1..Len(image.delay)
  BY <1>2
<1> HIDE DEF spent
<1>4. m \in 0..Len(image.delay)
  <2>1. CASE dear = {}
    BY <1>3, <2>1
  <2>2. CASE dear # {}
    <3>1. dear \subseteq Nat
      BY <1>3
    <3>2. dear \in SUBSET {i \in Int : i >= 0}
      BY <3>1
    <3> HIDE DEF dear
    <3>3. First(dear) \in dear
      BY <2>2, <3>2, FirstOfNats, 0 \in Int
    <3>4. First(dear) \in DOMAIN image.delay
      BY <3>3 DEF dear
    <3>5. QED
      BY <1>3, <2>2, <3>4
  <2>3. QED
    BY <2>1, <2>2
<1> HIDE DEF m
<1>5. QED
  BY <1>1, <1>2, <1>3, <1>4

LEMMA DelayTablesFacts ==
  ASSUME image \in Images
  PROVE  /\ DelayTables \in Seq(ToSet(DelayTables))
         /\ \E from \in [1..Len(DelayTables) -> DOMAIN image.delay] :
              /\ \A i \in 1..Len(DelayTables) : IsScanOf(DelayTables[i], image.delay[from[i]])
              /\ \A i, j \in 1..Len(DelayTables) : i # j => from[i] # from[j]
<1> DEFINE q == Affordable
           n == Len(q)
           Passes(d) == IsDelayTable(d) /\ d.start \notin RecoveredSlots(plan)
           Table(d) == [start |-> d.start, end |-> d.start + TableLength(d.start),
                        minimum |-> 1, source |-> "Delayed"]
           Part(it, s) ==
             IF s = {} THEN <<>>
             ELSE IF Passes(q[Max(s)]) THEN it[s \ {Max(s)}] \o <<Table(q[Max(s)])>>
             ELSE it[s \ {Max(s)}]
           Inline(it) == it = [s \in SUBSET DOMAIN q |-> Part(it, s)]
           test == [x \in ToSet(q) |-> Passes(x)]
           make == [x \in ToSet(q) |-> <<Table(x)>>]
           table == CHOOSE it : Inline(it)
           out == DelayTables
<1>1. n \in Nat /\ DOMAIN q = 1..n /\ \A k \in 1..n : k \in DOMAIN image.delay /\ q[k] = image.delay[k]
  BY AffordableFacts
<1>2. out = table[DOMAIN q]
  BY DEF DelayTables, FoldLeft, MapThenFoldSet
<1>3. ASSUME NEW k \in 1..n
      PROVE  test[q[k]] = Passes(q[k]) /\ make[q[k]] = <<Table(q[k])>>
  <2>1. q[k] \in ToSet(q)
    BY <1>1 DEF ToSet
  <2> HIDE DEF q, Passes, Table
  <2>2. QED
    BY <2>1
<1>4. ASSUME NEW k \in 1..n
      PROVE  q[k].start \in Nat
  <2> DEFINE Row == [start : Nat, names : Nat, readable : BOOLEAN]
  <2>1. image.delay \in Seq(Row)
    BY ImagesAssumption
  <2> HIDE DEF Row, q
  <2>2. q[k] \in Row
    BY <1>1, <2>1
  <2>3. QED
    BY <2>2 DEF Row
<1> HIDE DEF Passes, Table, test, make
<1>5. ASSUME NEW it
      PROVE  Inline(it) <=> Collects(it, n, q, test, make)
  <2>1. ASSUME NEW s \in SUBSET (1..n)
        PROVE  Part(it, s) = CollectRule(it, s, q, test, make)
    <3>1. CASE s = {}
      BY <3>1 DEF CollectRule
    <3>2. CASE s # {}
      <4>1. Max(s) \in 1..n
        BY <1>1, <3>2, PositionsOf
      <4>2. test[q[Max(s)]] = Passes(q[Max(s)]) /\ make[q[Max(s)]] = <<Table(q[Max(s)])>>
        BY <1>3, <4>1
      <4>3. QED
        BY <3>2, <4>2 DEF CollectRule
    <3>3. QED
      BY <3>1, <3>2
  <2> HIDE DEF Part, q, n
  <2>2. [s \in SUBSET (1..n) |-> Part(it, s)] = [s \in SUBSET (1..n) |-> CollectRule(it, s, q, test, make)]
    BY <2>1
  <2>3. QED
    BY <1>1, <2>2 DEF Collects
<1> HIDE DEF Inline
<1>6. Collects(table, n, q, test, make)
  <2>1. \E it : Inline(it)
    BY <1>1, <1>5, CollectorExists
  <2>2. Inline(table)
    BY <2>1
  <2>3. QED
    BY <1>5, <2>2
<1>7. \A k \in 1..n : test[q[k]] => make[q[k]] \in Seq(ToSet(make[q[k]]))
  <2>1. TAKE k \in 1..n
  <2> DEFINE x == Table(q[k])
  <2>2. make[q[k]] = <<x>>
    BY <1>3
  <2> HIDE DEF x
  <2>3. <<x>> \in Seq({x})
    OBVIOUS
  <2>4. QED
    BY <2>2, <2>3, SeqOfItself
<1> HIDE DEF table
<1>8. PICK from : StemsFrom(out, from, n, q, test, make)
  <2>1. \E from : StemsFrom(table[1..n], from, n, q, test, make)
    <3> HIDE DEF q, n
    <3>1. QED
      BY <1>1, <1>6, <1>7, CollectedFacts
  <2>2. QED
    BY <1>1, <1>2, <2>1
<1> HIDE DEF out
<1>9. out \in Seq(ToSet(out)) /\ DOMAIN out = 1..Len(out)
  BY <1>8, SeqFacts DEF StemsFrom
<1>10. ASSUME NEW i \in 1..Len(out)
       PROVE  /\ from[i] = <<from[i][1], 1>> /\ from[i][1] \in 1..n
              /\ out[i] = Table(q[from[i][1]]) /\ Passes(q[from[i][1]])
  <2>1. from[i] \in (1..n) \X (Nat \ {0})
    BY <1>8 DEF StemsFrom
  <2>2. from[i][1] \in 1..n /\ from[i] = <<from[i][1], from[i][2]>>
    BY <2>1
  <2>3. make[q[from[i][1]]] = <<Table(q[from[i][1]])>> /\ test[q[from[i][1]]] = Passes(q[from[i][1]])
    BY <1>3, <2>2
  <2>4. /\ from[i][2] \in DOMAIN make[q[from[i][1]]] /\ out[i] = make[q[from[i][1]]][from[i][2]]
        /\ test[q[from[i][1]]]
    BY <1>8 DEF StemsFrom
  <2>5. from[i][2] = 1
    BY <2>3, <2>4
  <2>6. QED
    BY <2>2, <2>3, <2>4, <2>5
<1> DEFINE pos == [i \in 1..Len(out) |-> from[i][1]]
<1>11. pos \in [1..Len(out) -> 1..n] /\ \A i \in 1..Len(out) : pos[i] = from[i][1]
  BY <1>1, <1>10
<1>12. ASSUME NEW i \in 1..Len(out), NEW j \in 1..Len(out), i # j
       PROVE  pos[i] # pos[j]
  <2>1. from[i] # from[j]
    BY <1>8, <1>12 DEF StemsFrom
  <2>2. QED
    BY <1>10, <1>11, <2>1
<1>13. ASSUME NEW i \in 1..Len(out)
       PROVE  IsScanOf(out[i], q[pos[i]])
  <2> DEFINE d == q[pos[i]]
             start == d.start
             length == TableLength(start)
  <2>1. pos[i] \in 1..n /\ out[i] = Table(d) /\ Passes(d) /\ start \in Nat
    BY <1>4, <1>10, <1>11
  <2> HIDE DEF d
  <2>2. length > 0
    BY <2>1 DEF Passes, IsDelayTable
  <2> HIDE DEF start
  <2>3. length \in Nat /\ ThunksFrom(start) = start..(start + length - 1)
    BY <2>1, <2>2, ThunksAreARun
  <2>4. out[i] = [start |-> start, end |-> start + length, minimum |-> 1, source |-> "Delayed"]
    BY <2>1 DEF Table, start
  <2> HIDE DEF length
  <2>5. out[i].start = start /\ out[i].end = start + length /\ out[i].source = "Delayed"
    BY <2>4
  <2>6. IsScan(out[i]) /\ RangeSlots(out[i]) = ThunksFrom(start)
    BY <2>1, <2>3, <2>5 DEF IsScan, RangeSlots
  <2>7. QED
    BY <2>1, <2>5, <2>6 DEF IsScanOf, Passes, d, start
<1> HIDE DEF pos
<1>14. pos \in [1..Len(out) -> DOMAIN image.delay] /\ \A i \in 1..Len(out) : q[pos[i]] = image.delay[pos[i]]
  <2> HIDE DEF q, n, out
  <2>1. QED
    BY <1>1, <1>11
<1>15. \A i \in 1..Len(out) : IsScanOf(out[i], image.delay[pos[i]])
  <2>1. TAKE i \in 1..Len(out)
  <2>2. IsScanOf(out[i], q[pos[i]]) /\ q[pos[i]] = image.delay[pos[i]]
    BY <1>13, <1>14
  <2> HIDE DEF q, out
  <2>3. QED
    BY <2>2
<1>16. QED
  BY <1>9, <1>12, <1>14, <1>15 DEF out

-----------------------------------------------------------------------------
\* The invariant behind the tables of a plan. Early: what groups hold that the delay
\* tables and the code have not added. Ahead: the slots a scan, or the list of a packer,
\* has still to come to.
Early == UNION {GroupSlots(g) : g \in {h \in ToSet(plan.groups) : h.source \notin {"Delayed", "Inferred"}}}

ListSlots(l) == l.first..(l.first + Len(l.functions) - 1)

Ahead(i) ==
  IF phase = "modules" THEN ListSlots(scans[i])
  ELSE IF i = 1 /\ cursor # NoScan THEN cursor..(scans[1].end - 1)
  ELSE RangeSlots(scans[i])

\* The scans of each phase, and where the sources of its groups are.
Scanning ==
  /\ scans \in Seq(ToSet(scans))
  /\ phase = "tables" => plan = EmptyPlan /\ cursor = NoScan /\ scans = <<>>
  /\ phase = "modules" => /\ cursor = NoScan /\ image.packer.kind = "Listed"
                          /\ scans \in Seq(ToSet(image.packer.modules))
  /\ phase \in {"ranges", "delay"} => \A i \in DOMAIN scans :
       IsScan(scans[i]) /\ IF phase = "delay" THEN scans[i].source = "Delayed"
                           ELSE scans[i].source \notin {"Delayed", "Inferred"}
  /\ phase \in {"ranges", "delay"} /\ cursor # NoScan =>
       scans # <<>> /\ cursor \in Nat /\ scans[1].start <= cursor
  /\ phase \in {"count", "done"} => scans = <<>>

Sources == \A k \in DOMAIN plan.groups :
  /\ phase \in {"tables", "ranges", "modules"} => plan.groups[k].source \notin {"Delayed", "Inferred"}
  /\ phase = "delay" => plan.groups[k].source # "Inferred"

\* Unless a table or list is torn, no slot is in two groups, and none that is in a group, or
\* ahead of one scan, is ahead of another one.
GroupsApart == \A k, n \in DOMAIN plan.groups : k # n =>
  GroupSlots(plan.groups[k]) \cap GroupSlots(plan.groups[n]) = {}
ScansApart == \A i, j \in DOMAIN scans : i # j => Ahead(i) \cap Ahead(j) = {}
AheadIsNew == \A k \in DOMAIN plan.groups : \A i \in DOMAIN scans :
  GroupSlots(plan.groups[k]) \cap Ahead(i) = {}

NothingTorn == ~ TornList /\ (phase \in {"delay", "count", "done"} => ~ TornTable)

InferredApart == \A k \in DOMAIN plan.groups : plan.groups[k].source = "Inferred" =>
  GroupSlots(plan.groups[k]) \cap (ExistingSlots(plan) \cup image.guards \cup plan.unboundSlots) = {}

IInv ==
  /\ image \in Images
  /\ phase \in {"tables", "ranges", "modules", "delay", "count", "done"}
  /\ Tidy(plan) /\ Scanning /\ Sources /\ InferredApart
  /\ NothingTorn => GroupsApart /\ ScansApart /\ AheadIsNew

\* The delay tables, their slots, and what is torn in their terms.
WholeTables == {i \in DOMAIN image.delay : IsDelayTable(image.delay[i])}
TableSlots == [i \in DOMAIN image.delay |-> ThunksFrom(image.delay[i].start)]
IsTorn(tables, slots, starts, early) ==
  \E i \in tables : \/ starts[i] \notin early /\ slots[i] \cap early # {}
                    \/ \E j \in tables \ {i} : slots[i] \cap slots[j] # {}
TableStarts == [i \in DOMAIN image.delay |-> image.delay[i].start]

LEMMA TornMeans == TornTable <=> IsTorn(WholeTables, TableSlots, TableStarts, Early)
<1> DEFINE tables == {i \in DOMAIN image.delay : IsDelayTable(image.delay[i])}
<1>1. TornTable <=>
        \E i \in tables :
          \/ image.delay[i].start \notin Early /\ ThunksFrom(image.delay[i].start) \cap Early # {}
          \/ \E j \in tables \ {i} : ThunksFrom(image.delay[i].start) \cap ThunksFrom(image.delay[j].start) # {}
  BY Zenon DEF TornTable, Early
<1>2. \A i \in tables : /\ TableSlots[i] = ThunksFrom(image.delay[i].start)
                        /\ TableStarts[i] = image.delay[i].start
  BY DEF TableSlots, TableStarts
<1>3. tables = WholeTables
  BY DEF WholeTables
<1> HIDE DEF tables
<1>4. QED
  BY <1>1, <1>2, <1>3 DEF IsTorn

\* What the image says stays, and so what is torn if the early groups do.
LEMMA ThunksStay ==
  ASSUME image' = image
  PROVE  \A s : ThunksFrom(s)' = ThunksFrom(s)
BY DEF ThunksFrom, IsZero, Slots

LEMMA TornStays ==
  ASSUME image' = image
  PROVE  /\ TornList' <=> TornList
         /\ Early' = Early => (TornTable' <=> TornTable)
<1>1. TornList' <=> TornList
  BY DEF TornList
<1>2. ASSUME Early' = Early
      PROVE  TornTable' <=> TornTable
  <2>1. WholeTables' = WholeTables
    BY DEF WholeTables, IsDelayTable, TableLength, ThunksFrom, IsZero, Slots
  <2>2. TableSlots' = TableSlots
    BY DEF TableSlots, ThunksFrom, IsZero, Slots
  <2>3. TableStarts' = TableStarts
    BY DEF TableStarts
  <2>4. (TornTable <=> IsTorn(WholeTables, TableSlots, TableStarts, Early))'
    BY TornMeans, PTL
  <2>5. TornTable' <=> IsTorn(WholeTables', TableSlots', TableStarts', Early')
    BY <2>4
  <2>6. IsTorn(WholeTables', TableSlots', TableStarts', Early')
          <=> IsTorn(WholeTables, TableSlots, TableStarts, Early)
    BY <1>2, <2>1, <2>2, <2>3
  <2>7. QED
    BY <2>5, <2>6, TornMeans
<1>3. QED
  BY <1>1, <1>2

\* What the tables of a plan gain by a step: groups of one source that lie apart, in slots
\* that were free for them.
GrewTo(t, p, free, source) ==
  /\ Tidy(t)
  /\ t.existing = p.existing /\ t.unboundSlots = p.unboundSlots
  /\ Len(p.groups) <= Len(t.groups)
  /\ \A k \in 1..Len(p.groups) : t.groups[k] = p.groups[k]
  /\ \A k \in (Len(p.groups) + 1)..Len(t.groups) :
       t.groups[k].source = source /\ GroupSlots(t.groups[k]) \subseteq free
  /\ \A k, m \in (Len(p.groups) + 1)..Len(t.groups) : k # m =>
       GroupSlots(t.groups[k]) \cap GroupSlots(t.groups[m]) = {}

LEMMA GrownIsGrew ==
  ASSUME NEW t, NEW p, NEW q, NEW kept, NEW source, NEW entry, NEW module, NEW free,
         IsPlan(p), Grown(t, p, kept, source, entry, module), kept \subseteq free,
         p.groups = q.groups, p.existing = q.existing, p.unboundSlots = q.unboundSlots
  PROVE  GrewTo(t, q, free, source)
<1>1. t.existing = p.existing /\ t.unboundSlots = p.unboundSlots
  BY DEF Grown, IsPlan
<1>2. \A k \in (Len(p.groups) + 1)..Len(t.groups) :
        t.groups[k].source = source /\ GroupSlots(t.groups[k]) \subseteq free
  BY DEF Grown
<1>3. QED
  BY <1>1, <1>2 DEF GrewTo, Grown

LEMMA GrewFacts ==
  ASSUME NEW p, Tidy(p), NEW t, NEW free, NEW source, GrewTo(t, p, free, source)
  PROVE  /\ DOMAIN p.groups = 1..Len(p.groups) /\ Len(p.groups) \in Nat
         /\ DOMAIN t.groups = 1..Len(t.groups) /\ Len(t.groups) \in Nat
         /\ \A k \in DOMAIN p.groups : k \in DOMAIN t.groups /\ t.groups[k] = p.groups[k]
         /\ \A k \in DOMAIN t.groups :
              \/ k \in DOMAIN p.groups /\ t.groups[k] = p.groups[k]
              \/ /\ k \in (Len(p.groups) + 1)..Len(t.groups)
                 /\ t.groups[k].source = source /\ GroupSlots(t.groups[k]) \subseteq free
<1>1. /\ DOMAIN p.groups = 1..Len(p.groups) /\ Len(p.groups) \in Nat
      /\ DOMAIN t.groups = 1..Len(t.groups) /\ Len(t.groups) \in Nat
  BY SeqFacts DEF Tidy, GrewTo
<1>2. \A k \in DOMAIN p.groups : k \in DOMAIN t.groups /\ t.groups[k] = p.groups[k]
  BY <1>1 DEF GrewTo
<1>3. ASSUME NEW k \in DOMAIN t.groups
      PROVE  \/ k \in DOMAIN p.groups /\ t.groups[k] = p.groups[k]
             \/ /\ k \in (Len(p.groups) + 1)..Len(t.groups)
                /\ t.groups[k].source = source /\ GroupSlots(t.groups[k]) \subseteq free
  <2>1. k \in 1..Len(p.groups) \/ k \in (Len(p.groups) + 1)..Len(t.groups)
    BY <1>1
  <2>2. QED
    BY <1>1, <2>1 DEF GrewTo
<1>4. QED
  BY <1>1, <1>2, <1>3

\* A plan that gains nothing.
LEMMA SameTables ==
  ASSUME NEW p, Tidy(p), NEW t, Tidy(t), t.groups = p.groups, t.existing = p.existing,
         t.unboundSlots = p.unboundSlots, NEW source
  PROVE  GrewTo(t, p, {}, source)
<1>1. Len(p.groups) \in Nat
  BY SeqFacts DEF Tidy
<1>2. (Len(p.groups) + 1)..Len(p.groups) = {}
  BY <1>1
<1>3. QED
  BY <1>1, <1>2 DEF GrewTo

\* A slot of a group holds an import, and the group says what it is. What a step adds is
\* backed like that, unless a packer listed it.
Backed(g, s) ==
  HoldsImport(s) /\ g.module = SymbolAt(s).module /\ EntryAt(g, s) = Entry(SymbolAt(s).name, SymbolAt(s).ordinal)
IsBacked(g) ==
  \/ image.packer.kind = "Listed" /\ g.source = "Packer"
  \/ \A s \in GroupSlots(g) : Backed(g, s)
NewAreBacked(t, p) == \A k \in (Len(p.groups) + 1)..Len(t.groups) : IsBacked(t.groups[k])

LEMMA GrownIsBacked ==
  ASSUME NEW t, NEW p, NEW q, NEW kept, NEW source, \A s \in kept : HoldsImport(s), q.groups = p.groups,
         Grown(t, p, kept, source, [s \in kept |-> [name |-> SymbolAt(s).name, ordinal |-> SymbolAt(s).ordinal]],
               [s \in kept |-> SymbolAt(s).module])
  PROVE  NewAreBacked(t, q)
<1>1. SUFFICES ASSUME NEW k \in (Len(p.groups) + 1)..Len(t.groups), NEW s \in GroupSlots(t.groups[k])
               PROVE  Backed(t.groups[k], s)
  BY DEF NewAreBacked, IsBacked
<1> DEFINE entry == [r \in kept |-> [name |-> SymbolAt(r).name, ordinal |-> SymbolAt(r).ordinal]]
           module == [r \in kept |-> SymbolAt(r).module]
<1>2. s \in kept /\ EntryAt(t.groups[k], s) = entry[s] /\ t.groups[k].module = module[s]
  BY DEF Grown
<1>3. entry[s] = [name |-> SymbolAt(s).name, ordinal |-> SymbolAt(s).ordinal] /\ module[s] = SymbolAt(s).module
  BY <1>2
<1>4. QED
  BY <1>2, <1>3 DEF Backed, Entry

LEMMA NothingNew ==
  ASSUME NEW p, Tidy(p), NEW t, t.groups = p.groups
  PROVE  NewAreBacked(t, p)
<1>1. Len(p.groups) \in Nat
  BY SeqFacts DEF Tidy
<1>2. (Len(p.groups) + 1)..Len(p.groups) = {}
  BY <1>1
<1>3. QED
  BY <1>2 DEF NewAreBacked

\* Delay tables and code add nothing to the early groups.
LEMMA EarlyStays ==
  ASSUME Tidy(plan), NEW free, NEW source \in {"Delayed", "Inferred"}, GrewTo(plan', plan, free, source)
  PROVE  Early' = Early
<1> DEFINE P == {h \in ToSet(plan.groups) : h.source \notin {"Delayed", "Inferred"}}
           Q == {h \in ToSet(plan'.groups) : h.source \notin {"Delayed", "Inferred"}}
<1>1. ToSet(plan.groups) = {plan.groups[k] : k \in DOMAIN plan.groups}
  BY DEF ToSet
<1>2. ToSet(plan'.groups) = {plan'.groups[k] : k \in DOMAIN plan'.groups}
  BY DEF ToSet
<1>3. P \subseteq Q
  <2>1. \A k \in DOMAIN plan.groups : k \in DOMAIN plan'.groups /\ plan'.groups[k] = plan.groups[k]
    BY GrewFacts
  <2>2. QED
    BY <1>1, <1>2, <2>1
<1>4. Q \subseteq P
  <2>1. \A k \in DOMAIN plan'.groups :
          \/ k \in DOMAIN plan.groups /\ plan'.groups[k] = plan.groups[k]
          \/ plan'.groups[k].source = source
    BY GrewFacts
  <2>2. QED
    BY <1>1, <1>2, <2>1
<1>5. P = Q
  BY <1>3, <1>4
<1>6. Early = UNION {GroupSlots(g) : g \in P} /\ Early' = UNION {GroupSlots(g) : g \in Q}
  BY DEF Early, GroupSlots
<1> HIDE DEF P, Q
<1>7. QED
  BY <1>5, <1>6

LEMMA GrewApart ==
  ASSUME IInv, image' = image, NEW free, NEW source, GrewTo(plan', plan, free, source),
         NothingTorn => \A k \in DOMAIN plan.groups : GroupSlots(plan.groups[k]) \cap free = {},
         source = "Inferred" => free \cap (ExistingSlots(plan) \cup image.guards \cup plan.unboundSlots) = {}
  PROVE  /\ NothingTorn => GroupsApart'
         /\ InferredApart'
<1>. USE DEF IInv
<1> DEFINE gs == plan.groups
           ts == plan'.groups
           n == Len(gs)
<1>1. /\ DOMAIN gs = 1..n /\ n \in Nat /\ DOMAIN ts = 1..Len(ts) /\ Len(ts) \in Nat
      /\ \A k \in DOMAIN ts :
           \/ k \in DOMAIN gs /\ ts[k] = gs[k]
           \/ /\ k \in (n + 1)..Len(ts)
              /\ ts[k].source = source /\ GroupSlots(ts[k]) \subseteq free
  BY GrewFacts
<1>2. \A k, m \in (n + 1)..Len(ts) : k # m => GroupSlots(ts[k]) \cap GroupSlots(ts[m]) = {}
  BY DEF GrewTo
<1>3. ASSUME NothingTorn
      PROVE  GroupsApart'
  <2>1. \A k, m \in DOMAIN gs : k # m => GroupSlots(gs[k]) \cap GroupSlots(gs[m]) = {}
    BY <1>3 DEF GroupsApart
  <2>2. \A k \in DOMAIN gs : GroupSlots(gs[k]) \cap free = {}
    BY <1>3
  <2> HIDE DEF gs, ts, n
  <2>3. \A k, m \in DOMAIN ts : k # m => GroupSlots(ts[k]) \cap GroupSlots(ts[m]) = {}
    <3>1. SUFFICES ASSUME NEW k \in DOMAIN ts, NEW m \in DOMAIN ts, k # m
                   PROVE  GroupSlots(ts[k]) \cap GroupSlots(ts[m]) = {}
      OBVIOUS
    <3>2. CASE k \in DOMAIN gs /\ ts[k] = gs[k]
      BY <1>1, <2>1, <2>2, <3>1, <3>2
    <3>3. CASE k \in (n + 1)..Len(ts) /\ GroupSlots(ts[k]) \subseteq free
      BY <1>1, <1>2, <2>2, <3>1, <3>3
    <3>4. QED
      BY <1>1, <3>2, <3>3
  <2>4. QED
    BY <2>3 DEF GroupsApart, GroupSlots, ts
<1>4. InferredApart'
  <2>1. ExistingSlots(plan') = ExistingSlots(plan)
    BY DEF GrewTo, ExistingSlots
  <2>2. (ExistingSlots(plan))' = ExistingSlots(plan)
    BY DEF GrewTo, ExistingSlots, ThunksFrom, IsZero, Slots
  <2>3. plan'.unboundSlots = plan.unboundSlots
    BY DEF GrewTo
  <2> DEFINE closed == ExistingSlots(plan) \cup image.guards \cup plan.unboundSlots
  <2>4. \A k \in DOMAIN gs : gs[k].source = "Inferred" => GroupSlots(gs[k]) \cap closed = {}
    BY DEF InferredApart
  <2>5. closed' = closed
    BY <2>2, <2>3
  <2> HIDE DEF gs, ts, n
  <2>6. \A k \in DOMAIN ts : ts[k].source = "Inferred" => GroupSlots(ts[k]) \cap closed = {}
    <3> HIDE DEF closed
    <3>1. source = "Inferred" => free \cap closed = {}
      BY DEF closed
    <3>2. QED
      BY <1>1, <2>4, <3>1
  <2>7. \A k \in DOMAIN plan'.groups : plan'.groups[k].source = "Inferred" =>
          GroupSlots(plan'.groups[k]) \cap (ExistingSlots(plan) \cup image.guards \cup plan.unboundSlots)' = {}
    BY <2>5, <2>6 DEF ts
  <2>8. QED
    BY <2>7 DEF InferredApart, GroupSlots
<1>5. QED
  BY <1>3, <1>4

-----------------------------------------------------------------------------
LEMMA EmptyIsTidy == Tidy(EmptyPlan)
<1> DEFINE size == [k \in 0..0 |-> 0]
<1>1. size \in [0..0 -> Nat] /\ size[0] = 0
  OBVIOUS
<1> HIDE DEF size
<1>2. Len(<<>>) = 0 /\ <<>> \in Seq(ToSet(<<>>)) /\ DOMAIN <<>> = {}
  OBVIOUS
<1>3. Sized(EmptyPlan)
  BY <1>1, <1>2 DEF Sized, EmptyPlan
<1>4. IsPlan(EmptyPlan)
  BY DEF IsPlan, EmptyPlan
<1>5. MaxImports \in Nat /\ MaxGroups \in Nat
  BY LimitsAssumption
<1>6. QED
  BY <1>2, <1>3, <1>4, <1>5 DEF Tidy, EmptyPlan

LEMMA InitEstablishes ==
  ASSUME Init
  PROVE  IInv
<1>1. plan = EmptyPlan /\ plan.groups = <<>> /\ scans = <<>> /\ cursor = NoScan /\ phase = "tables"
  BY DEF Init, EmptyPlan
<1>2. DOMAIN plan.groups = {} /\ DOMAIN scans = {} /\ scans \in Seq(ToSet(scans))
  BY <1>1
<1>3. Scanning
  BY <1>1, <1>2 DEF Scanning
<1>4. Sources /\ InferredApart /\ GroupsApart /\ ScansApart /\ AheadIsNew
  BY <1>2 DEF Sources, InferredApart, GroupsApart, ScansApart, AheadIsNew
<1>5. Tidy(plan)
  BY <1>1, EmptyIsTidy
<1>6. QED
  BY <1>1, <1>3, <1>4, <1>5 DEF Init, IInv

\* A step of the export index, or none at all.
LEMMA IndexKeeps ==
  ASSUME IInv, UNCHANGED importVars
  PROVE  IInv'
<1>1. image' = image /\ phase' = phase /\ plan' = plan /\ scans' = scans /\ cursor' = cursor
  BY DEF importVars
<1>2. Tidy(plan)' /\ Scanning' /\ Sources'
  BY <1>1 DEF IInv, Scanning, Sources
<1>3. GrewTo(plan', plan, {}, "Inferred")
  BY <1>1, <1>2, SameTables DEF IInv
<1>4. (NothingTorn => GroupsApart') /\ InferredApart'
  BY <1>1, <1>3, GrewApart DEF IInv
<1>5. NothingTorn' => NothingTorn
  <2>1. Early' = Early
    BY <1>3, EarlyStays DEF IInv
  <2>2. QED
    BY <1>1, <2>1, TornStays DEF NothingTorn
<1>6. ScansApart' <=> ScansApart
  BY <1>1 DEF ScansApart, Ahead, ListSlots, RangeSlots
<1>7. AheadIsNew' <=> AheadIsNew
  BY <1>1 DEF AheadIsNew, Ahead, ListSlots, RangeSlots, GroupSlots
<1>8. QED
  BY <1>1, <1>2, <1>4, <1>5, <1>6, <1>7 DEF IInv

LEMMA ChooseTablesKeeps ==
  ASSUME IInv, ChooseTables
  PROVE  IInv'
<1>1. plan = EmptyPlan /\ cursor = NoScan /\ phase = "tables" /\ image \in Images
  BY DEF IInv, Scanning, ChooseTables
<1>2. image' = image /\ cursor' = NoScan /\ phase' \in {"ranges", "modules"}
  BY <1>1 DEF ChooseTables
<1>3. \/ \E e, f : plan' = [EmptyPlan EXCEPT !.existing = e, !.keepIat = f]
      \/ plan' = [EmptyPlan EXCEPT !.keepIat = TRUE]
  BY <1>1, Zenon DEF ChooseTables
<1>4. IsPlan(plan') /\ plan'.groups = <<>> /\ plan'.recovered = 0
  <2>1. CASE \E e, f : plan' = [EmptyPlan EXCEPT !.existing = e, !.keepIat = f]
    BY <2>1 DEF EmptyPlan, IsPlan
  <2>2. CASE plan' = [EmptyPlan EXCEPT !.keepIat = TRUE]
    BY <2>2 DEF EmptyPlan, IsPlan
  <2>3. QED
    BY <1>3, <2>1, <2>2
<1>5. Tidy(plan')
  <2>1. Tidy(EmptyPlan) /\ EmptyPlan.groups = <<>> /\ EmptyPlan.recovered = 0
    BY EmptyIsTidy DEF EmptyPlan
  <2>2. Sized(plan')
    BY <1>4, <2>1 DEF Tidy, Sized
  <2>3. QED
    BY <1>4, <2>1, <2>2 DEF Tidy
<1>6. DOMAIN plan'.groups = {}
  BY <1>4
<1>7. Sources' /\ InferredApart' /\ GroupsApart' /\ AheadIsNew'
  BY <1>6 DEF Sources, InferredApart, GroupsApart, AheadIsNew
<1>8. TornList' <=> TornList
  BY <1>2, TornStays
<1>9. CASE /\ phase' = "ranges"
           /\ scans' = <<>> \/ scans' = TrustedRanges
              \/ scans' = <<[start |-> image.iat.start, end |-> image.iat.end, minimum |-> 1, source |-> "Packer"]>>
  <2> DEFINE one == [start |-> image.iat.start, end |-> image.iat.end, minimum |-> 1, source |-> "Packer"]
  <2>1. /\ scans' \in Seq(ToSet(scans'))
        /\ \A i \in DOMAIN scans' : IsScan(scans'[i]) /\ scans'[i].source \notin {"Delayed", "Inferred"}
        /\ \A i, j \in DOMAIN scans' : i # j => RangeSlots(scans'[i]) \cap RangeSlots(scans'[j]) = {}
    <3>1. CASE scans' = <<>>
      BY <3>1
    <3>2. CASE scans' = TrustedRanges
      BY <1>1, <3>2, TrustedRangesFacts
    <3>3. CASE scans' = <<one>>
      <4>1. image.iat \in [start : Nat, end : Nat]
        BY <1>1, ImagesAssumption
      <4>2. IsScan(one) /\ one.source = "Packer"
        BY <4>1 DEF IsScan
      <4> HIDE DEF one
      <4>3. <<one>> \in Seq({one}) /\ DOMAIN <<one>> = {1} /\ <<one>>[1] = one
        OBVIOUS
      <4>4. scans' \in Seq(ToSet(scans'))
        BY <3>3, <4>3, SeqOfItself
      <4>5. QED
        BY <3>3, <4>2, <4>3, <4>4
    <3>4. QED
      BY <1>9, <3>1, <3>2, <3>3
  <2>2. Scanning'
    BY <1>2, <1>9, <2>1 DEF Scanning
  <2>3. ScansApart'
    BY <1>2, <1>9, <2>1 DEF ScansApart, Ahead, RangeSlots
  <2>4. QED
    BY <1>1, <1>2, <1>5, <1>7, <1>9, <2>2, <2>3 DEF IInv
<1>10. CASE phase' = "modules" /\ scans' = image.packer.modules /\ image.packer.kind = "Listed"
  <2>1. image.packer.modules \in Seq(ToSet(image.packer.modules))
    BY <1>1, ImagesAssumption
  <2>2. Scanning'
    BY <1>2, <1>10, <2>1 DEF Scanning
  <2>3. ~ TornList => ScansApart'
    BY <1>2, <1>10 DEF TornList, ScansApart, Ahead, ListSlots
  <2>4. NothingTorn' => ~ TornList
    BY <1>8 DEF NothingTorn
  <2>5. QED
    BY <1>1, <1>2, <1>5, <1>7, <1>10, <2>2, <2>3, <2>4 DEF IInv
<1>11. QED
  BY <1>9, <1>10 DEF ChooseTables

\* The first scan begins: the slots ahead stay those of its range.
LEMMA StartScanKeeps ==
  ASSUME IInv, StartScan
  PROVE  IInv'
<1>. USE DEF IInv
<1>1. /\ phase \in {"ranges", "delay"} /\ cursor = NoScan /\ scans # <<>>
      /\ image' = image /\ phase' = phase /\ scans' = scans /\ cursor' = Head(scans).start
  BY DEF StartScan
<1>2. DOMAIN scans = 1..Len(scans) /\ 1 \in DOMAIN scans /\ Head(scans) = scans[1]
  BY <1>1 DEF Scanning
<1>3. IsScan(scans[1]) /\ cursor' \in Nat /\ cursor' # NoScan
  BY <1>1, <1>2 DEF Scanning, IsScan, NoScan
<1>4. IsPlan(plan') /\ plan'.groups = plan.groups /\ plan'.recovered = plan.recovered
  <2>1. IsPlan(plan)
    BY DEF Tidy
  <2>2. plan' = plan \/ plan' = [plan EXCEPT !.unboundSlots = @ \cup Unbound(Head(scans))]
    BY DEF StartScan
  <2>3. QED
    BY <2>1, <2>2 DEF IsPlan
<1>5. Tidy(plan)'
  BY <1>4 DEF Tidy, Sized
<1>6. Scanning'
  BY <1>1, <1>2, <1>3 DEF Scanning
<1>7. Sources'
  BY <1>1, <1>4 DEF Sources
<1>8. InferredApart'
  BY <1>1, <1>4 DEF Sources, InferredApart
<1>9. \A i \in DOMAIN scans : Ahead(i)' = Ahead(i)
  BY <1>1, <1>2, <1>3 DEF Ahead, RangeSlots, ListSlots
<1>10. NothingTorn' => NothingTorn
  <2>1. Early' = Early
    BY <1>4 DEF Early, GroupSlots
  <2>2. QED
    BY <1>1, <2>1, TornStays DEF NothingTorn
<1>11. GroupsApart => GroupsApart'
  BY <1>4 DEF GroupsApart, GroupSlots
<1>12. ScansApart => ScansApart'
  BY <1>1, <1>9 DEF ScansApart
<1>13. AheadIsNew => AheadIsNew'
  <2>1. \A k : GroupSlots(plan.groups[k])' = GroupSlots(plan.groups[k])
    BY <1>4 DEF GroupSlots
  <2>2. QED
    BY <1>1, <1>4, <1>9, <2>1 DEF AheadIsNew
<1>14. QED
  BY <1>1, <1>5, <1>6, <1>7, <1>8, <1>10, <1>11, <1>12, <1>13

\* The first scan, and the others.
LEMMA HeadFacts ==
  ASSUME NEW T, NEW q \in Seq(T), q # <<>>
  PROVE  1 \in DOMAIN q /\ Head(q) = q[1] /\ q[1] \in T
OBVIOUS
LEMMA TailFacts ==
  ASSUME NEW q, q \in Seq(ToSet(q)), q # <<>>
  PROVE  /\ Tail(q) \in Seq(ToSet(q)) /\ Tail(q) \in Seq(ToSet(Tail(q))) /\ Tail(q) # q
         /\ \A i \in DOMAIN Tail(q) :
              i \in Nat /\ i + 1 \in DOMAIN q /\ i + 1 # 1 /\ Tail(q)[i] = q[i + 1]
<1> DEFINE T == ToSet(q)
           t == Tail(q)
           n == Len(q)
<1>1. q \in Seq(T)
  OBVIOUS
<1> HIDE DEF T
<1>2. n \in Nat /\ n # 0 /\ DOMAIN q = 1..n
  BY <1>1
<1>3. t \in Seq(T) /\ Len(t) = n - 1 /\ \A i \in 1..(n - 1) : t[i] = q[i + 1]
  BY <1>1
<1>4. DOMAIN t = 1..(n - 1)
  BY <1>3
<1>5. t \in Seq(ToSet(t))
  BY <1>3, SeqOfItself
<1>6. t # q
  <2>1. Len(t) # n
    <3> HIDE DEF t, n
    <3>1. QED
      BY <1>2, <1>3
  <2>2. QED
    BY <2>1
<1> HIDE DEF t, n
<1>7. \A i \in DOMAIN t : i \in Nat /\ i + 1 \in DOMAIN q /\ i + 1 # 1 /\ t[i] = q[i + 1]
  BY <1>2, <1>3, <1>4
<1>8. QED
  BY <1>3, <1>5, <1>6, <1>7 DEF t, T

\* The slots of a run that are taken were ahead, and are not any more.
LEMMA ScanTakes ==
  ASSUME IInv, phase \in {"ranges", "delay"}, ScanRun
  PROVE  \E free \in SUBSET Nat :
           /\ GrewTo(plan', plan, free, scans[1].source) /\ free \subseteq Ahead(1) /\ NewAreBacked(plan', plan)
           /\ CountsMore(plan', plan)
           /\ \/ cursor' = NoScan /\ scans' = Tail(scans) /\ plan' = plan /\ free = {}
              \/ /\ scans' = scans /\ cursor' \in Nat /\ cursor' >= cursor
                 /\ free \cap (cursor'..(scans[1].end - 1)) = {}
<1>. USE DEF IInv
<1> DEFINE scan == Head(scans)
           near == {s \in cursor..scan.end : \/ s = scan.end \/ s = cursor + MaxImports \/ ~ HoldsImport(s)}
           stop == First(near)
           startsCleanly == cursor = scan.start \/ IsZero(cursor - 1)
           endsCleanly == stop = scan.end \/ IsZero(stop)
           seen == IF stop < scan.end /\ stop < cursor + MaxImports /\ IsAmbiguous(stop)
                     THEN [plan EXCEPT !.ambiguousSlots = @ \cup {stop}] ELSE plan
<1>1. cursor # NoScan /\ scans # <<>> /\ scan = scans[1] /\ IsScan(scan) /\ cursor \in Nat
  <2>1. cursor # NoScan /\ scans # <<>> /\ cursor \in Nat /\ DOMAIN scans = 1..Len(scans)
    BY DEF ScanRun, Scanning
  <2>2. 1 \in DOMAIN scans /\ scan = scans[1]
    BY <2>1 DEF Scanning
  <2>3. IsScan(scans[1])
    BY <2>2 DEF Scanning
  <2>4. QED
    BY <2>1, <2>2, <2>3
<1>2. Ahead(1) = cursor..(scan.end - 1)
  BY <1>1 DEF Ahead
<1>3. CASE cursor >= scan.end \/ plan.recovered >= MaxImports
  <2>1. cursor' = NoScan /\ scans' = Tail(scans) /\ plan' = plan
    BY <1>3 DEF ScanRun
  <2>2. GrewTo(plan', plan, {}, scans[1].source) /\ NewAreBacked(plan', plan)
    BY <2>1, SameTables, NothingNew
  <2>3. CountsMore(plan', plan)
    BY <2>1 DEF CountsMore
  <2>4. QED
    BY <2>1, <2>2, <2>3
<1>4. CASE ~ (cursor >= scan.end \/ plan.recovered >= MaxImports)
  <2>1. /\ plan' = IF stop - cursor >= scan.minimum /\ startsCleanly /\ endsCleanly
                     THEN AppendGroups(seen, cursor..(stop - 1), scan.minimum, scan.source) ELSE seen
        /\ cursor' = IF stop = cursor THEN cursor + 1 ELSE stop
        /\ scans' = scans
    BY <1>4 DEF ScanRun
  <2>2. scan.end \in Nat /\ cursor < scan.end
    BY <1>1, <1>4 DEF IsScan
  <2>3. stop \in cursor..scan.end /\ \A s \in near : stop <= s
    <3>1. near \in SUBSET {i \in Int : i >= cursor} /\ near # {} /\ cursor \in Int /\ near \subseteq cursor..scan.end
      <4>1. scan.end \in near
        BY <1>1, <2>2
      <4>2. near \subseteq cursor..scan.end
        OBVIOUS
      <4> HIDE DEF near
      <4>3. QED
        BY <1>1, <2>2, <4>1, <4>2
    <3> HIDE DEF near
    <3>2. QED
      BY <3>1, FirstOfNats
  <2>4. /\ IsPlan(seen) /\ seen.groups = plan.groups /\ seen.recovered = plan.recovered
        /\ seen.existing = plan.existing /\ seen.unboundSlots = plan.unboundSlots
        /\ seen.unresolved = plan.unresolved /\ seen.unrepresentable = plan.unrepresentable
    <3>1. IsPlan(plan)
      BY DEF Tidy
    <3>2. seen = plan \/ seen = [plan EXCEPT !.ambiguousSlots = @ \cup {stop}]
      OBVIOUS
    <3> HIDE DEF seen, stop
    <3>3. QED
      BY <3>1, <3>2 DEF IsPlan
  <2> DEFINE slots == cursor..(stop - 1)
  <2>10. \A s \in slots : HoldsImport(s)
    <3> HIDE DEF stop
    <3>1. TAKE s \in slots
    <3>2. s \in cursor..scan.end /\ ~ (stop <= s)
      BY <1>1, <2>2, <2>3
    <3>3. s \notin near
      BY <2>3, <3>2
    <3>4. QED
      BY <3>2, <3>3
  <2> HIDE DEF stop, seen
  <2>5. Tidy(seen)
    BY <2>4 DEF Tidy, Sized
  <2>6. slots \in SUBSET Nat /\ IsFiniteSet(slots) /\ slots \subseteq Ahead(1)
    <3>1. stop \in Nat /\ stop <= scan.end
      BY <1>1, <2>2, <2>3
    <3>2. IsFiniteSet(slots)
      BY <1>1, <3>1, FS_Interval
    <3>3. slots \in SUBSET Nat
      BY <1>1, <3>1
    <3>4. slots \subseteq cursor..(scan.end - 1)
      BY <1>1, <2>2, <3>1
    <3>5. QED
      BY <1>2, <3>2, <3>3, <3>4
  <2>7. cursor' \in Nat /\ cursor' >= cursor /\ slots \cap (cursor'..(scan.end - 1)) = {}
    BY <1>1, <2>1, <2>2, <2>3
  <2> HIDE DEF slots
  <2>8. GrewTo(plan', plan, slots, scan.source) /\ NewAreBacked(plan', plan)
    <3>1. CASE plan' = seen
      <4>1. GrewTo(plan', plan, {}, scan.source) /\ NewAreBacked(plan', plan)
        BY <2>4, <2>5, <3>1, SameTables, NothingNew
      <4>2. QED
        BY <4>1 DEF GrewTo
    <3>2. CASE plan' = AppendGroups(seen, slots, scan.minimum, scan.source)
      <4>1. PICK kept \in SUBSET slots :
              Grown(plan', seen, kept, scan.source,
                    [s \in kept |-> [name |-> SymbolAt(s).name, ordinal |-> SymbolAt(s).ordinal]],
                    [s \in kept |-> SymbolAt(s).module])
        BY <2>5, <2>6, <3>2, AppendsGroups
      <4>2. NewAreBacked(plan', plan)
        BY <2>4, <2>10, <4>1, GrownIsBacked
      <4>3. QED
        BY <2>4, <4>1, <4>2, GrownIsGrew
    <3>3. QED
      BY <2>1, <3>1, <3>2 DEF slots
  <2>9. CountsMore(plan', plan)
    <3>1. CASE plan' = seen
      BY <2>4, <3>1 DEF CountsMore
    <3>2. CASE plan' = AppendGroups(seen, slots, scan.minimum, scan.source)
      <4>1. CountsMore(plan', seen)
        BY <2>5, <2>6, <3>2, AppendsCount
      <4>2. QED
        BY <2>4, <4>1 DEF CountsMore
    <3>3. QED
      BY <2>1, <3>1, <3>2 DEF slots
  <2>11. QED
    BY <1>1, <2>1, <2>6, <2>7, <2>8, <2>9
<1>5. QED
  BY <1>3, <1>4

LEMMA ScanRunKeeps ==
  ASSUME IInv, ScanRun
  PROVE  IInv'
<1>. USE DEF IInv
<1>1. /\ phase \in {"ranges", "delay"} /\ cursor # NoScan /\ phase' = phase /\ image' = image
  BY DEF ScanRun
<1>2. PICK free \in SUBSET Nat :
        /\ GrewTo(plan', plan, free, scans[1].source) /\ free \subseteq Ahead(1)
        /\ \/ cursor' = NoScan /\ scans' = Tail(scans) /\ plan' = plan /\ free = {}
           \/ /\ scans' = scans /\ cursor' \in Nat /\ cursor' >= cursor
              /\ free \cap (cursor'..(scans[1].end - 1)) = {}
  BY <1>1, ScanTakes
<1>3. /\ scans # <<>> /\ DOMAIN scans = 1..Len(scans) /\ Len(scans) \in Nat /\ 1 \in DOMAIN scans
      /\ cursor \in Nat /\ scans[1].start <= cursor
  BY <1>1 DEF Scanning
<1>4. IF phase = "delay" THEN scans[1].source = "Delayed" ELSE scans[1].source \notin {"Delayed", "Inferred"}
  BY <1>1, <1>3 DEF Scanning
<1>5. Tidy(plan)'
  BY <1>2 DEF GrewTo
<1>6. Sources'
  <2>1. \A k \in DOMAIN plan'.groups :
          \/ k \in DOMAIN plan.groups /\ plan'.groups[k] = plan.groups[k]
          \/ plan'.groups[k].source = scans[1].source
    BY <1>2, GrewFacts
  <2>2. QED
    BY <1>1, <1>4, <2>1 DEF Sources
<1>7. /\ scans' \in Seq(ToSet(scans'))
      /\ \A i \in DOMAIN scans' : \/ scans' = scans
                                  \/ i + 1 \in DOMAIN scans /\ scans'[i] = scans[i + 1] /\ i \in Nat /\ i + 1 # 1
  <2>1. CASE scans' = scans
    BY <2>1 DEF Scanning
  <2>2. CASE scans' = Tail(scans)
    BY <1>3, <2>2, TailFacts DEF Scanning
  <2>3. QED
    BY <1>2, <2>1, <2>2
<1>8. Scanning'
  <2>1. \A i \in DOMAIN scans' :
          IsScan(scans'[i]) /\ IF phase = "delay" THEN scans'[i].source = "Delayed"
                               ELSE scans'[i].source \notin {"Delayed", "Inferred"}
    BY <1>1, <1>7 DEF Scanning
  <2>2. cursor' # NoScan => scans' # <<>> /\ cursor' \in Nat /\ scans'[1].start <= cursor'
    <3>1. CASE cursor' = NoScan
      BY <3>1
    <3>2. CASE scans' = scans /\ cursor' \in Nat /\ cursor' >= cursor
      <4>1. scans[1].start \in Nat
        BY <1>1, <1>3 DEF Scanning, IsScan
      <4>2. QED
        BY <1>3, <3>2, <4>1
    <3>3. QED
      BY <1>2, <3>1, <3>2
  <2>3. QED
    BY <1>1, <1>7, <2>1, <2>2 DEF Scanning
<1>9. NothingTorn' => NothingTorn
  <2>1. phase = "delay" => Early' = Early
    BY <1>2, <1>4, EarlyStays
  <2>2. QED
    BY <1>1, <2>1, TornStays DEF NothingTorn
<1>10. ASSUME NothingTorn
       PROVE  /\ \A k \in DOMAIN plan.groups : GroupSlots(plan.groups[k]) \cap free = {}
              /\ ScansApart' /\ AheadIsNew'
  <2>1. \A k \in DOMAIN plan.groups : \A i \in DOMAIN scans : GroupSlots(plan.groups[k]) \cap Ahead(i) = {}
    BY <1>10 DEF AheadIsNew
  <2>2. \A k \in DOMAIN plan.groups : GroupSlots(plan.groups[k]) \cap free = {}
    BY <1>2, <1>3, <2>1
  <2>3. \A i, j \in DOMAIN scans : i # j => Ahead(i) \cap Ahead(j) = {}
    BY <1>10 DEF ScansApart
  <2>4. CASE cursor' = NoScan /\ scans' = Tail(scans) /\ plan' = plan
    <3>1. \A i \in DOMAIN scans' : i + 1 \in DOMAIN scans /\ Ahead(i)' = Ahead(i + 1) /\ i \in Nat
      <4>1. TAKE i \in DOMAIN scans'
      <4>2. scans' # scans
        BY <1>3, <2>4, TailFacts DEF Scanning
      <4>3. i + 1 \in DOMAIN scans /\ scans'[i] = scans[i + 1] /\ i \in Nat /\ i + 1 # 1
        BY <1>7, <4>2
      <4>4. Ahead(i)' = RangeSlots(scans'[i]) /\ Ahead(i + 1) = RangeSlots(scans[i + 1])
        BY <1>1, <2>4, <4>3 DEF Ahead, RangeSlots
      <4>5. QED
        BY <4>3, <4>4
    <3>2. ScansApart'
      <4>1. \A i, j \in DOMAIN scans' : i # j => Ahead(i)' \cap Ahead(j)' = {}
        BY <2>3, <3>1
      <4>2. QED
        BY <4>1 DEF ScansApart
    <3>3. AheadIsNew'
      <4>1. \A k \in DOMAIN plan.groups : \A i \in DOMAIN scans' : GroupSlots(plan.groups[k]) \cap Ahead(i)' = {}
        BY <2>1, <3>1
      <4>2. QED
        BY <2>4, <4>1 DEF AheadIsNew, GroupSlots
    <3>4. QED
      BY <2>2, <3>2, <3>3
  <2>5. CASE /\ scans' = scans /\ cursor' \in Nat /\ cursor' >= cursor
             /\ free \cap (cursor'..(scans[1].end - 1)) = {}
    <3>1. /\ Ahead(1)' \subseteq Ahead(1) /\ free \cap Ahead(1)' = {}
          /\ \A i \in DOMAIN scans : i # 1 => Ahead(i)' = Ahead(i)
      <4>1. cursor # NoScan /\ cursor' # NoScan
        BY <1>1, <2>5 DEF NoScan
      <4>2. Ahead(1) = cursor..(scans[1].end - 1) /\ Ahead(1)' = cursor'..(scans[1].end - 1)
        BY <1>1, <2>5, <4>1 DEF Ahead
      <4>3. scans[1].end \in Nat
        BY <1>1, <1>3 DEF Scanning, IsScan
      <4>4. \A i \in DOMAIN scans : i # 1 => Ahead(i)' = Ahead(i)
        BY <1>1, <2>5 DEF Ahead, RangeSlots
      <4>5. QED
        BY <1>3, <2>5, <4>2, <4>3, <4>4
    <3>2. \A i \in DOMAIN scans : Ahead(i)' \subseteq Ahead(i) /\ free \cap Ahead(i)' = {}
      <4>1. TAKE i \in DOMAIN scans
      <4>2. CASE i = 1
        BY <3>1, <4>2
      <4>3. CASE i # 1
        BY <1>2, <1>3, <2>3, <3>1, <4>3
      <4>4. QED
        BY <4>2, <4>3
    <3>3. ScansApart'
      <4>1. \A i, j \in DOMAIN scans : i # j => Ahead(i)' \cap Ahead(j)' = {}
        BY <2>3, <3>2
      <4>2. QED
        BY <2>5, <4>1 DEF ScansApart
    <3>4. AheadIsNew'
      <4>1. \A k \in DOMAIN plan'.groups :
              \/ k \in DOMAIN plan.groups /\ plan'.groups[k] = plan.groups[k]
              \/ GroupSlots(plan'.groups[k]) \subseteq free
        BY <1>2, GrewFacts
      <4>2. \A k \in DOMAIN plan'.groups : \A i \in DOMAIN scans :
              GroupSlots(plan'.groups[k]) \cap Ahead(i)' = {}
        BY <2>1, <3>2, <4>1
      <4>3. QED
        BY <2>5, <4>2 DEF AheadIsNew, GroupSlots
    <3>5. QED
      BY <2>2, <3>3, <3>4
  <2>6. QED
    BY <1>2, <2>4, <2>5
<1>11. scans[1].source # "Inferred"
  BY <1>4
<1>12. (NothingTorn => GroupsApart') /\ InferredApart'
  BY <1>1, <1>2, <1>10, <1>11, GrewApart
<1>13. QED
  BY <1>1, <1>5, <1>6, <1>8, <1>9, <1>10, <1>12

\* The next list's groups are among its slots, which were ahead.
LEMMA PackTakes ==
  ASSUME IInv, AddPackedModule
  PROVE  GrewTo(plan', plan, Ahead(1), "Packer") /\ NewAreBacked(plan', plan)
<1>. USE DEF IInv
<1> DEFINE m == Head(scans)
           name == OwningModule(m)
           slots == m.first..(m.first + Len(m.functions) - 1)
           entry == [s \in slots |-> PackedEntry(m.functions[s - m.first + 1], s, name)]
           kept == {s \in slots : name # None /\ entry[s] # NoEntry /\ Representable(name, entry[s])}
           module == [s \in kept |-> name]
           u == plan.unrepresentable + Cardinality(slots \ kept)
<1>1. /\ phase = "modules" /\ scans # <<>> /\ phase' = phase /\ image' = image /\ cursor' = cursor
      /\ scans' = Tail(scans) /\ cursor = NoScan
      /\ plan' = PushAll([plan EXCEPT !.unrepresentable = @ + Cardinality(slots \ kept)],
                         Groups(kept, "Packer", entry, module), 1)
  BY DEF AddPackedModule, Scanning
<1>2. /\ scans \in Seq(ToSet(image.packer.modules)) /\ scans \in Seq(ToSet(scans))
      /\ 1 \in DOMAIN scans /\ m = scans[1] /\ m \in ToSet(image.packer.modules)
  <2>1. scans \in Seq(ToSet(image.packer.modules)) /\ scans \in Seq(ToSet(scans))
    BY <1>1 DEF Scanning
  <2> DEFINE T == ToSet(image.packer.modules)
  <2>2. scans \in Seq(T)
    BY <2>1
  <2>3. 1 \in DOMAIN scans /\ Head(scans) = scans[1] /\ scans[1] \in T
    <3> HIDE DEF T
    <3>1. QED
      BY <1>1, <2>2, HeadFacts
  <2>4. QED
    BY <2>1, <2>3
<1>3. slots \in SUBSET Nat /\ IsFiniteSet(slots) /\ slots = Ahead(1)
  <2>1. m.first \in Nat /\ Len(m.functions) \in Nat
    <3>1. m.first \in Nat /\ m.functions \in Seq(ToSet(m.functions))
      BY <1>2, ImagesAssumption
    <3> DEFINE T == ToSet(m.functions)
    <3> HIDE DEF T, m
    <3>2. QED
      BY <3>1 DEF T
  <2>2. Ahead(1) = slots
    BY <1>1, <1>2 DEF Ahead, ListSlots
  <2> DEFINE top == m.first + Len(m.functions) - 1
  <2>3. slots = m.first..top /\ m.first \in Int /\ top \in Int
    BY <2>1
  <2>4. slots \in SUBSET Nat
    BY <2>1
  <2> HIDE DEF m, top
  <2>5. IsFiniteSet(slots)
    <3> HIDE DEF slots
    <3>1. QED
      BY <2>3, FS_Interval
  <2>6. QED
    BY <2>2, <2>4, <2>5
<1>4. kept \subseteq slots
  OBVIOUS
<1> HIDE DEF m, name, slots, entry, kept, module
<1>5. plan' = PushAll([plan EXCEPT !.unrepresentable = u], Groups(kept, "Packer", entry, module), 1)
  <2>1. [plan EXCEPT !.unrepresentable = u] = [plan EXCEPT !.unrepresentable = @ + Cardinality(slots \ kept)]
    <3>1. IsPlan(plan)
      BY DEF Tidy
    <3>2. QED
      BY <3>1 DEF IsPlan
  <2>2. QED
    BY <1>1, <2>1
<1> HIDE DEF u
<1>6. GrewTo(plan', plan, slots, "Packer")
  <2>1. kept \in SUBSET Nat /\ IsFiniteSet(kept)
    BY <1>3, <1>4, FS_Subset
  <2>2. Grown(plan', plan, kept, "Packer", entry, module)
    BY <1>5, <2>1, GroupsArePushed
  <2>3. IsPlan(plan)
    BY DEF Tidy
  <2>4. QED
    BY <1>4, <2>2, <2>3, GrownIsGrew
<1>7. image.packer.kind = "Listed"
  BY <1>1 DEF Scanning
<1>8. NewAreBacked(plan', plan)
  BY <1>6, <1>7 DEF GrewTo, NewAreBacked, IsBacked
<1>9. QED
  BY <1>3, <1>6, <1>8

LEMMA AddPackedModuleKeeps ==
  ASSUME IInv, AddPackedModule
  PROVE  IInv'
<1>. USE DEF IInv
<1> DEFINE slots == Ahead(1)
<1>1. /\ phase = "modules" /\ scans # <<>> /\ phase' = phase /\ image' = image /\ cursor' = cursor
      /\ scans' = Tail(scans) /\ cursor = NoScan
  BY DEF AddPackedModule, Scanning
<1>2. scans \in Seq(ToSet(image.packer.modules)) /\ scans \in Seq(ToSet(scans)) /\ 1 \in DOMAIN scans
  <2>1. scans \in Seq(ToSet(image.packer.modules)) /\ scans \in Seq(ToSet(scans))
    BY <1>1 DEF Scanning
  <2> DEFINE T == ToSet(image.packer.modules)
  <2>2. scans \in Seq(T)
    BY <2>1
  <2>3. 1 \in DOMAIN scans
    <3> HIDE DEF T
    <3>1. QED
      BY <1>1, <2>2, HeadFacts
  <2>4. QED
    BY <2>1, <2>3
<1>3. slots = Ahead(1)
  OBVIOUS
<1> HIDE DEF slots
<1>6. GrewTo(plan', plan, slots, "Packer")
  BY <1>3, PackTakes
<1>7. /\ scans' \in Seq(ToSet(scans')) /\ scans' \in Seq(ToSet(image.packer.modules))
      /\ \A i \in DOMAIN scans' : i \in Nat /\ i + 1 \in DOMAIN scans /\ i + 1 # 1 /\ scans'[i] = scans[i + 1]
  <2> DEFINE T == ToSet(image.packer.modules)
  <2>1. scans \in Seq(T)
    BY <1>2
  <2> HIDE DEF T
  <2>2. scans' \in Seq(T)
    BY <1>1, <2>1
  <2>3. QED
    BY <1>1, <1>2, <2>2, TailFacts DEF T
<1>8. Scanning'
  BY <1>1, <1>7 DEF Scanning
<1>9. Tidy(plan)'
  BY <1>6 DEF GrewTo
<1>10. Sources'
  <2>1. \A k \in DOMAIN plan'.groups :
          \/ k \in DOMAIN plan.groups /\ plan'.groups[k] = plan.groups[k]
          \/ plan'.groups[k].source = "Packer"
    BY <1>6, GrewFacts
  <2>2. QED
    BY <1>1, <2>1 DEF Sources
<1>11. NothingTorn' => NothingTorn
  BY <1>1, TornStays DEF NothingTorn
<1>12. \A i \in DOMAIN scans' : Ahead(i)' = Ahead(i + 1)
  BY <1>1, <1>7 DEF Ahead, ListSlots
<1>13. ASSUME NothingTorn
       PROVE  /\ \A k \in DOMAIN plan.groups : GroupSlots(plan.groups[k]) \cap slots = {}
              /\ ScansApart' /\ AheadIsNew'
  <2>1. \A k \in DOMAIN plan.groups : \A i \in DOMAIN scans : GroupSlots(plan.groups[k]) \cap Ahead(i) = {}
    BY <1>13 DEF AheadIsNew
  <2>2. \A i, j \in DOMAIN scans : i # j => Ahead(i) \cap Ahead(j) = {}
    BY <1>13 DEF ScansApart
  <2>3. ScansApart'
    <3>1. \A i, j \in DOMAIN scans' : i # j => Ahead(i)' \cap Ahead(j)' = {}
      BY <1>7, <1>12, <2>2
    <3>2. QED
      BY <3>1 DEF ScansApart
  <2>4. AheadIsNew'
    <3>1. \A i \in DOMAIN scans' : Ahead(i)' = Ahead(i + 1) /\ i + 1 \in DOMAIN scans /\ i + 1 # 1
      BY <1>7, <1>12
    <3>2. \A i \in DOMAIN scans' : slots \cap Ahead(i)' = {}
      BY <1>2, <1>3, <2>2, <3>1
    <3>3. \A k \in DOMAIN plan'.groups :
            \/ k \in DOMAIN plan.groups /\ plan'.groups[k] = plan.groups[k]
            \/ GroupSlots(plan'.groups[k]) \subseteq slots
      BY <1>6, GrewFacts
    <3>4. \A k \in DOMAIN plan'.groups : \A i \in DOMAIN scans' :
            GroupSlots(plan'.groups[k]) \cap Ahead(i)' = {}
      BY <2>1, <3>1, <3>2, <3>3
    <3>5. QED
      BY <3>4 DEF AheadIsNew, GroupSlots
  <2>5. QED
    BY <1>2, <1>3, <2>1, <2>3, <2>4
<1>14. (NothingTorn => GroupsApart') /\ InferredApart'
  BY <1>1, <1>6, <1>13, GrewApart
<1>15. QED
  BY <1>1, <1>8, <1>9, <1>10, <1>11, <1>13, <1>14

\* Before the delay tables are read every group is an early one.
LEMMA AllAreEarly ==
  ASSUME Tidy(plan), \A k \in DOMAIN plan.groups : plan.groups[k].source \notin {"Delayed", "Inferred"}
  PROVE  /\ \A k \in DOMAIN plan.groups : GroupSlots(plan.groups[k]) \subseteq Early
         /\ Early \subseteq RecoveredSlots(plan)
<1>1. ToSet(plan.groups) = {plan.groups[k] : k \in DOMAIN plan.groups}
  BY DEF ToSet
<1>2. \A k \in DOMAIN plan.groups : GroupSlots(plan.groups[k]) \subseteq Early
  BY <1>1 DEF Early
<1>3. Early \subseteq RecoveredSlots(plan)
  BY <1>1 DEF Early, RecoveredSlots
<1>4. QED
  BY <1>2, <1>3

\* The delay tables come up: if none is torn, they lie apart and hold nothing recovered.
LEMMA ChooseDelayTablesKeeps ==
  ASSUME IInv, ChooseDelayTables
  PROVE  IInv'
<1>. USE DEF IInv
<1>1. /\ phase \in {"ranges", "modules"} /\ phase' = "delay" /\ image' = image /\ plan' = plan
      /\ scans' = DelayTables /\ cursor' = NoScan
  BY DEF ChooseDelayTables, NoMoreScans, Scanning
<1>2. PICK from \in [1..Len(DelayTables) -> DOMAIN image.delay] :
        /\ \A i \in 1..Len(DelayTables) : IsScanOf(DelayTables[i], image.delay[from[i]])
        /\ \A i, j \in 1..Len(DelayTables) : i # j => from[i] # from[j]
  BY DelayTablesFacts
<1>3. scans' \in Seq(ToSet(scans')) /\ DOMAIN scans' = 1..Len(DelayTables)
  BY <1>1, DelayTablesFacts, SeqFacts
<1>4. \A i \in DOMAIN scans' : IsScanOf(scans'[i], image.delay[from[i]])
  BY <1>1, <1>2, <1>3
<1>5. Scanning'
  <2>1. \A i \in DOMAIN scans' : IsScan(scans'[i]) /\ scans'[i].source = "Delayed"
    BY <1>4 DEF IsScanOf
  <2>2. QED
    BY <1>1, <1>3, <2>1 DEF Scanning
<1>6. Tidy(plan)'
  BY <1>1 DEF Tidy, Sized
<1>7. \A k \in DOMAIN plan.groups : plan.groups[k].source \notin {"Delayed", "Inferred"}
  BY <1>1 DEF Sources
<1>8. Sources' /\ InferredApart'
  BY <1>1, <1>7 DEF Sources, InferredApart
<1>9. GroupsApart => GroupsApart'
  BY <1>1 DEF GroupsApart, GroupSlots
<1>10. NothingTorn' => ~ TornList /\ ~ TornTable
  <2>1. Early' = Early
    BY <1>1 DEF Early, GroupSlots
  <2>2. QED
    BY <1>1, <2>1, TornStays DEF NothingTorn
<1>11. ~ TornList => NothingTorn
  BY <1>1 DEF NothingTorn
<1>12. \A i \in DOMAIN scans' : Ahead(i)' = TableSlots[from[i]]
  <2>1. TAKE i \in DOMAIN scans'
  <2>2. Ahead(i)' = RangeSlots(scans'[i])
    BY <1>1 DEF Ahead, RangeSlots
  <2>3. RangeSlots(scans'[i]) = ThunksFrom(image.delay[from[i]].start)
    BY <1>4 DEF IsScanOf
  <2>4. from[i] \in DOMAIN image.delay
    BY <1>2, <1>3
  <2>5. QED
    BY <2>2, <2>3, <2>4 DEF TableSlots
<1>13. \A i \in DOMAIN scans' : from[i] \in WholeTables /\ TableStarts[from[i]] \notin RecoveredSlots(plan)
  BY <1>2, <1>3, <1>4 DEF IsScanOf, WholeTables, TableStarts
<1>14. ASSUME ~ TornTable
       PROVE  ScansApart' /\ AheadIsNew'
  <2>1. /\ \A i \in WholeTables : TableStarts[i] \notin Early => TableSlots[i] \cap Early = {}
        /\ \A i \in WholeTables, j \in WholeTables : i # j => TableSlots[i] \cap TableSlots[j] = {}
    BY <1>14, TornMeans DEF IsTorn
  <2>2. /\ \A k \in DOMAIN plan.groups : GroupSlots(plan.groups[k]) \subseteq Early
        /\ Early \subseteq RecoveredSlots(plan)
    BY <1>7, AllAreEarly
  <2>3. ScansApart'
    <3>1. \A i, j \in DOMAIN scans' : i # j => from[i] # from[j]
      BY <1>2, <1>3
    <3>2. \A i, j \in DOMAIN scans' : i # j => Ahead(i)' \cap Ahead(j)' = {}
      BY <1>12, <1>13, <2>1, <3>1
    <3>3. QED
      BY <3>2 DEF ScansApart
  <2>4. AheadIsNew'
    <3>1. \A i \in DOMAIN scans' : Ahead(i)' \cap Early = {}
      BY <1>12, <1>13, <2>1, <2>2
    <3>2. \A k \in DOMAIN plan.groups : \A i \in DOMAIN scans' : GroupSlots(plan.groups[k]) \cap Ahead(i)' = {}
      BY <2>2, <3>1
    <3>3. QED
      BY <1>1, <3>2 DEF AheadIsNew, GroupSlots
  <2>5. QED
    BY <2>3, <2>4
<1>15. NothingTorn' => GroupsApart' /\ ScansApart' /\ AheadIsNew'
  BY <1>9, <1>10, <1>11, <1>14
<1>16. QED
  BY <1>1, <1>5, <1>6, <1>8, <1>15

\* What code refers to is added where nothing is, and no kept table, guard or the loader.
LEMMA RecoverTakes ==
  ASSUME IInv, RecoverReferenced
  PROVE  \E free \in SUBSET Nat :
           /\ GrewTo(plan', plan, free, "Inferred") /\ NewAreBacked(plan', plan)
           /\ free \cap (ExistingSlots(plan) \cup image.guards \cup plan.unboundSlots) = {}
           /\ \A k \in DOMAIN plan.groups : GroupSlots(plan.groups[k]) \cap free = {}
<1>. USE DEF IInv
<1> DEFINE data == {s \in DOMAIN Referenced : Unclaimed(s) /\ InDataSection(s)}
           wanted == {s \in data : HoldsImport(s) /\ Believed(s)}
           InTime(s) == Cardinality({r \in wanted : r < s}) < MaxImports - plan.recovered
           Called(r) == {s \in data : InTime(s) /\ Referenced[s] = "Called" /\ Reason(image.cells[s]) = r}
           outside == {s \in DOMAIN Referenced : Unclaimed(s) /\ ~ InDataSection(s) /\ InTime(s)
                                                  /\ Referenced[s] = "Called" /\ HoldsImport(s)}
           seen == [plan EXCEPT !.ambiguousSlots = @ \cup {s \in data : InTime(s) /\ IsAmbiguous(s)},
                                !.unresolved = [r \in Reasons |-> @[r] + Cardinality(Called(r))],
                                !.outside = @ + Cardinality(outside)]
           slots == {s \in wanted : InTime(s)}
<1>1. /\ phase = "delay" /\ phase' = "count" /\ scans' = <<>> /\ image' = image /\ cursor' = cursor
      /\ cursor = NoScan
      /\ plan' = plan \/ plan' = AppendGroups(seen, slots, 1, "Inferred")
  BY DEF RecoverReferenced, NoMoreScans
<1>2. /\ IsPlan(seen) /\ seen.groups = plan.groups /\ seen.recovered = plan.recovered
      /\ seen.existing = plan.existing /\ seen.unboundSlots = plan.unboundSlots
  <2> DEFINE a == plan.ambiguousSlots \cup {s \in data : InTime(s) /\ IsAmbiguous(s)}
             b == [r \in Reasons |-> plan.unresolved[r] + Cardinality(Called(r))]
             c == plan.outside + Cardinality(outside)
  <2>1. IsPlan(plan)
    BY DEF Tidy
  <2>2. seen = [plan EXCEPT !.ambiguousSlots = @ \cup {s \in data : InTime(s) /\ IsAmbiguous(s)},
                            !.unresolved = [r \in Reasons |-> @[r] + Cardinality(Called(r))],
                            !.outside = @ + Cardinality(outside)]
    OBVIOUS
  <2>3. seen = [plan EXCEPT !.ambiguousSlots = a, !.unresolved = b, !.outside = c]
    <3> HIDE DEF data, InTime, Called, outside
    <3>1. QED
      BY <2>1, <2>2 DEF IsPlan
  <2> HIDE DEF seen, a, b, c
  <2>4. QED
    BY <2>1, <2>3 DEF IsPlan
<1>3. Tidy(seen)
  BY <1>2 DEF Tidy, Sized
<1>4. slots \subseteq wanted /\ wanted \subseteq data /\ \A s \in wanted : HoldsImport(s)
  OBVIOUS
<1>5. \A s \in data : s \in Slots /\ s \notin RecoveredSlots(plan) \cup ExistingSlots(plan) \cup image.guards \cup plan.unboundSlots
  BY DEF Unclaimed, InDataSection
<1> HIDE DEF seen, slots, wanted, data
<1>6. slots \in SUBSET Nat /\ IsFiniteSet(slots)
  <2>1. /\ IsFiniteSet(Slots) /\ Slots = 0..(Cardinality(Slots) - 1) /\ Cardinality(Slots) \in Nat
    BY ImagesAssumption, FS_CardinalityType DEF Slots
  <2>2. slots \subseteq Slots
    BY <1>4, <1>5
  <2>3. IsFiniteSet(slots)
    BY <2>1, <2>2, FS_Subset
  <2>4. Slots \subseteq Nat
    BY <2>1
  <2>5. QED
    BY <2>2, <2>3, <2>4
<1>7. GrewTo(plan', plan, slots, "Inferred") /\ NewAreBacked(plan', plan)
  <2>1. CASE plan' = plan
    <3>1. GrewTo(plan', plan, {}, "Inferred") /\ NewAreBacked(plan', plan)
      BY <2>1, SameTables, NothingNew
    <3>2. QED
      BY <3>1 DEF GrewTo
  <2>2. CASE plan' = AppendGroups(seen, slots, 1, "Inferred")
    <3>1. PICK kept \in SUBSET slots :
            Grown(plan', seen, kept, "Inferred",
                  [s \in kept |-> [name |-> SymbolAt(s).name, ordinal |-> SymbolAt(s).ordinal]],
                  [s \in kept |-> SymbolAt(s).module])
      BY <1>3, <1>6, <2>2, AppendsGroups
    <3>2. NewAreBacked(plan', plan)
      BY <1>2, <1>4, <3>1, GrownIsBacked
    <3>3. QED
      BY <1>2, <3>1, <3>2, GrownIsGrew
  <2>3. QED
    BY <1>1, <2>1, <2>2
<1>8. slots \cap (ExistingSlots(plan) \cup image.guards \cup plan.unboundSlots) = {}
  BY <1>4, <1>5
<1>9. \A k \in DOMAIN plan.groups : GroupSlots(plan.groups[k]) \cap slots = {}
  <2>1. \A k \in DOMAIN plan.groups : GroupSlots(plan.groups[k]) \subseteq RecoveredSlots(plan)
    BY DEF RecoveredSlots
  <2>2. slots \cap RecoveredSlots(plan) = {}
    BY <1>4, <1>5
  <2>3. QED
    BY <2>1, <2>2
<1>10. QED
  BY <1>6, <1>7, <1>8, <1>9

LEMMA RecoverReferencedKeeps ==
  ASSUME IInv, RecoverReferenced
  PROVE  IInv'
<1>. USE DEF IInv
<1>1. phase = "delay" /\ phase' = "count" /\ scans' = <<>> /\ image' = image /\ cursor' = NoScan
  BY DEF RecoverReferenced, NoMoreScans
<1>2. PICK free \in SUBSET Nat :
        /\ GrewTo(plan', plan, free, "Inferred")
        /\ free \cap (ExistingSlots(plan) \cup image.guards \cup plan.unboundSlots) = {}
        /\ \A k \in DOMAIN plan.groups : GroupSlots(plan.groups[k]) \cap free = {}
  BY RecoverTakes
<1>3. (NothingTorn => GroupsApart') /\ InferredApart'
  BY <1>1, <1>2, GrewApart
<1>4. NothingTorn' => NothingTorn
  <2>1. Early' = Early
    BY <1>2, EarlyStays
  <2>2. QED
    BY <1>1, <2>1, TornStays DEF NothingTorn
<1>5. Tidy(plan)'
  BY <1>2 DEF GrewTo
<1>6. Scanning' /\ Sources'
  BY <1>1 DEF Scanning, Sources
<1>7. ScansApart' /\ AheadIsNew'
  BY <1>1 DEF ScansApart, AheadIsNew
<1>8. QED
  BY <1>1, <1>3, <1>4, <1>5, <1>6, <1>7

LEMMA CountKeeps ==
  ASSUME IInv, Count
  PROVE  IInv'
<1>. USE DEF IInv
<1>1. /\ phase \in {"count", "delay"} /\ phase' = "done" /\ scans' = <<>> /\ image' = image
      /\ \E a, d : plan' = [plan EXCEPT !.ambiguous = a, !.unresolvedDelay = d]
  BY DEF Count
<1>2. /\ IsPlan(plan') /\ plan'.groups = plan.groups /\ plan'.recovered = plan.recovered
      /\ plan'.existing = plan.existing /\ plan'.unboundSlots = plan.unboundSlots
  <2>1. IsPlan(plan)
    BY DEF Tidy
  <2>2. QED
    BY <1>1, <2>1 DEF IsPlan
<1>3. Tidy(plan')
  BY <1>2 DEF Tidy, Sized
<1>4. GrewTo(plan', plan, {}, "Delayed")
  BY <1>2, <1>3, SameTables
<1>5. (NothingTorn => GroupsApart') /\ InferredApart'
  BY <1>1, <1>4, GrewApart
<1>6. NothingTorn' => NothingTorn
  <2>1. Early' = Early
    BY <1>2 DEF Early, GroupSlots
  <2>2. QED
    BY <1>1, <2>1, TornStays DEF NothingTorn
<1>7. Scanning' /\ Sources' /\ ScansApart' /\ AheadIsNew'
  BY <1>1 DEF Scanning, Sources, ScansApart, AheadIsNew
<1>8. QED
  BY <1>1, <1>3, <1>5, <1>6, <1>7

LEMMA StepsKeep == IInv /\ [Next]_vars => IInv'
<1>1. SUFFICES ASSUME IInv, [Next]_vars
               PROVE  IInv'
  OBVIOUS
<1>2. CASE (ParseModule \/ FollowForwarder) /\ UNCHANGED importVars
  BY <1>1, <1>2, IndexKeeps
<1>3. CASE ChooseTables
  BY <1>1, <1>3, ChooseTablesKeeps
<1>4. CASE StartScan
  BY <1>1, <1>4, StartScanKeeps
<1>5. CASE ScanRun
  BY <1>1, <1>5, ScanRunKeeps
<1>6. CASE AddPackedModule
  BY <1>1, <1>6, AddPackedModuleKeeps
<1>7. CASE ChooseDelayTables
  BY <1>1, <1>7, ChooseDelayTablesKeeps
<1>8. CASE RecoverReferenced
  BY <1>1, <1>8, RecoverReferencedKeeps
<1>9. CASE Count
  BY <1>1, <1>9, CountKeeps
<1>10. CASE UNCHANGED vars
  BY <1>1, <1>10, IndexKeeps DEF vars
<1>11. QED
  BY <1>1, <1>2, <1>3, <1>4, <1>5, <1>6, <1>7, <1>8, <1>9, <1>10 DEF Next

\* In every state of the import recovery, for every image: the plan is what pushing groups
\* makes of it and within its limits, each phase scans ranges of its own kind with its cursor
\* in the first of them, and unless a delay table or list is torn, no slot is in two groups,
\* in two of the scans that are left, or in a group and ahead of a scan (build_plan,
\* scan_import_range, scan_delay_imports, add_packed_module, recover_referenced_imports).
THEOREM PlansStayApart == Spec => []IInv
<1>1. Init => IInv
  BY InitEstablishes
<1>2. IInv /\ [Next]_vars => IInv'
  BY StepsKeep
<1>3. QED
  BY <1>1, <1>2, PTL DEF Spec

\* The sum of the groups' sizes, as the property adds them up.
LEMMA SizesAreRecovered ==
  ASSUME NEW p, Tidy(p),
         NEW size, size = [k \in 0..Len(p.groups) |-> IF k = 0 THEN 0 ELSE Len(p.groups[k].entries) + size[k - 1]]
  PROVE  p.recovered = size[Len(p.groups)]
<1> DEFINE n == Len(p.groups)
<1>1. PICK sum \in [0..n -> Nat] :
        sum[0] = 0 /\ (\A k \in 1..n : sum[k] = Len(p.groups[k].entries) + sum[k - 1]) /\ sum[n] = p.recovered
  BY DEF Tidy, Sized
<1>2. n \in Nat
  BY SeqFacts DEF Tidy
<1> DEFINE P == {k \in Nat : k <= n => size[k] = sum[k]}
<1> HIDE DEF n
<1>3. size = [k \in 0..n |-> IF k = 0 THEN 0 ELSE Len(p.groups[k].entries) + size[k - 1]]
  BY DEF n
<1>4. 0 \in P
  BY <1>1, <1>2, <1>3
<1>5. ASSUME NEW k \in Nat, k \in P
      PROVE  k + 1 \in P
  <2>1. CASE k + 1 <= n
    <3>1. size[k] = sum[k] /\ k + 1 \in 1..n /\ k + 1 \in 0..n /\ (k + 1) - 1 = k
      BY <1>2, <1>5, <2>1
    <3>2. size[k + 1] = Len(p.groups[k + 1].entries) + size[k]
      <4>1. \A i \in 0..n : size[i] = IF i = 0 THEN 0 ELSE Len(p.groups[i].entries) + size[i - 1]
        BY <1>3, Zenon
      <4>2. k + 1 # 0
        BY <1>2
      <4>3. QED
        BY <3>1, <4>1, <4>2
    <3>3. sum[k + 1] = Len(p.groups[k + 1].entries) + sum[k]
      BY <1>1, <3>1
    <3>4. QED
      BY <3>1, <3>2, <3>3
  <2>2. CASE ~ (k + 1 <= n)
    BY <2>2
  <2>3. QED
    BY <2>1, <2>2
<1> HIDE DEF P
<1>6. n \in P
  BY <1>2, <1>4, <1>5, EveryNat
<1>7. QED
  BY <1>1, <1>2, <1>6 DEF n, P

LEMMA SizesExist ==
  ASSUME NEW p, Tidy(p)
  PROVE  \E size : size = [k \in 0..Len(p.groups) |-> IF k = 0 THEN 0 ELSE Len(p.groups[k].entries) + size[k - 1]]
<1> DEFINE n == Len(p.groups)
<1>1. PICK sum \in [0..n -> Nat] :
        sum[0] = 0 /\ (\A k \in 1..n : sum[k] = Len(p.groups[k].entries) + sum[k - 1])
  BY DEF Tidy, Sized
<1>2. n \in Nat
  BY SeqFacts DEF Tidy
<1> HIDE DEF n
<1>3. \A k \in 0..n : sum[k] = IF k = 0 THEN 0 ELSE Len(p.groups[k].entries) + sum[k - 1]
  BY <1>1, <1>2
<1>4. sum = [k \in 0..n |-> sum[k]]
  OBVIOUS
<1>5. sum = [k \in 0..n |-> IF k = 0 THEN 0 ELSE Len(p.groups[k].entries) + sum[k - 1]]
  BY <1>3, <1>4, Zenon
<1>6. QED
  BY <1>5, Zenon DEF n

LEMMA ApartFromIInv ==
  ASSUME IInv
  PROVE  TablesAreApart
<1> DEFINE size[k \in 0..Len(plan.groups)] == IF k = 0 THEN 0 ELSE Len(plan.groups[k].entries) + size[k - 1]
<1>1. Tidy(plan)
  BY DEF IInv
<1>2. \E s : s = [k \in 0..Len(plan.groups) |-> IF k = 0 THEN 0 ELSE Len(plan.groups[k].entries) + s[k - 1]]
  BY <1>1, SizesExist
<1>3. size = [k \in 0..Len(plan.groups) |-> IF k = 0 THEN 0 ELSE Len(plan.groups[k].entries) + size[k - 1]]
  BY <1>2, Zenon
<1> HIDE DEF size
<1>4. plan.recovered = size[Len(plan.groups)]
  BY <1>1, <1>3, SizesAreRecovered
<1>5. plan.recovered <= MaxImports /\ Len(plan.groups) <= MaxGroups
  BY <1>1 DEF Tidy
<1>6. \A k, n \in DOMAIN plan.groups : k # n /\ ~ TornTable /\ ~ TornList =>
        GroupSlots(plan.groups[k]) \cap GroupSlots(plan.groups[n]) = {}
  BY DEF IInv, NothingTorn, GroupsApart
<1>7. \A g \in ToSet(plan.groups) : g.source = "Inferred" =>
        GroupSlots(g) \cap (ExistingSlots(plan) \cup image.guards \cup plan.unboundSlots) = {}
  <2>1. ToSet(plan.groups) = {plan.groups[k] : k \in DOMAIN plan.groups}
    BY DEF ToSet
  <2>2. QED
    BY <2>1 DEF IInv, InferredApart
<1>8. QED
  BY <1>4, <1>5, <1>6, <1>7 DEF TablesAreApart, size

\* For every image, its exports and its limits: no slot is in two of the tables a plan has
\* written, nor taken from code when a kept table, a guard or the loader fills it, and the
\* count of recovered imports is what the groups hold, unless a delay table or a list of the
\* packer is torn (push_group, scan_delay_imports, recover_referenced_imports).
THEOREM TablesLieApart == Spec => []TablesAreApart
<1>1. IInv => TablesAreApart
  BY ApartFromIInv
<1>2. QED
  BY <1>1, PlansStayApart, PTL

-----------------------------------------------------------------------------
\* The folds of the export index, by kind: an address, or a definition, is added to an
\* index, or what is found once more leads further.
Folded(kind, x, y) ==
  CASE kind = "address" -> AddAddress(x, y)
    [] kind = "definition" -> AddDefinition(x, y)
    [] kind = "reached" -> x \cup UNION {Leads(key) : key \in x}

FoldRule(it, s, kind, start, q) ==
  IF s = {} THEN start ELSE Folded(kind, it[s \ {Max(s)}], q[Max(s)])

Folds(it, n, kind, start, q) == it = [s \in SUBSET (1..n) |-> FoldRule(it, s, kind, start, q)]

LEMMA FolderExists ==
  ASSUME NEW n \in Nat, NEW kind, NEW start, NEW q
  PROVE  \E it : Folds(it, n, kind, start, q)
<1> DEFINE Rule(it, s) == FoldRule(it, s, kind, start, q)
           P == {m \in Nat : \E it : it = [s \in Upto(n, m) |-> Rule(it, s)]}
<1>1. 0 \in P
  <2>1. Upto(n, 0) = {{}}
    BY UptoFacts
  <2> DEFINE it == [s \in Upto(n, 0) |-> start]
  <2>2. it = [s \in Upto(n, 0) |-> Rule(it, s)]
    BY <2>1 DEF FoldRule
  <2> HIDE DEF it, Rule
  <2>3. QED
    BY <2>2
<1>2. ASSUME NEW m \in Nat, m \in P
      PROVE  m + 1 \in P
  <2>1. PICK old : old = [s \in Upto(n, m) |-> Rule(old, s)]
    BY <1>2
  <2> DEFINE it == [s \in Upto(n, m + 1) |-> Rule(old, s)]
  <2>2. ASSUME NEW s \in Upto(n, m + 1)
        PROVE  it[s] = Rule(it, s)
    <3>1. CASE s = {}
      BY <3>1 DEF FoldRule
    <3>2. CASE s # {}
      <4>1. s \ {Max(s)} \in Upto(n, m) /\ s \ {Max(s)} \in Upto(n, m + 1)
        BY <3>2, UptoFacts
      <4>2. it[s \ {Max(s)}] = old[s \ {Max(s)}]
        <5> HIDE DEF Rule
        <5>1. QED
          BY <2>1, <4>1
      <4>3. QED
        BY <4>2 DEF FoldRule
    <3>3. QED
      BY <3>1, <3>2
  <2>3. it = [s \in Upto(n, m + 1) |-> Rule(it, s)]
    <3>1. [s \in Upto(n, m + 1) |-> Rule(it, s)] = [s \in Upto(n, m + 1) |-> it[s]]
      <4> HIDE DEF it, Rule
      <4>1. QED
        BY <2>2
    <3>2. it = [s \in Upto(n, m + 1) |-> it[s]]
      <4> HIDE DEF Rule
      <4>1. QED
        OBVIOUS
    <3>3. QED
      <4> HIDE DEF it, Rule
      <4>1. QED
        BY <3>1, <3>2
  <2> HIDE DEF it, Rule
  <2>4. QED
    BY <2>3
<1>3. n \in P
  <2> HIDE DEF P
  <2>1. QED
    BY <1>1, <1>2, EveryNat
<1>4. Upto(n, n) = SUBSET (1..n)
  BY UptoFacts
<1> HIDE DEF Rule
<1>5. QED
  BY <1>3, <1>4 DEF Folds, Rule

\* A fold, one element at a time.
Steps(r, n, kind, start, q) == r[0] = start /\ \A k \in 1..n : r[k] = Folded(kind, r[k - 1], q[k])

LEMMA FoldSteps ==
  ASSUME NEW n \in Nat, NEW kind, NEW start, NEW q, NEW it, Folds(it, n, kind, start, q)
  PROVE  \E r : Steps(r, n, kind, start, q) /\ r[n] = it[1..n]
<1> DEFINE r == [k \in 0..n |-> it[1..k]]
<1>1. r[0] = start
  <2>1. r[0] = it[{}] /\ {} \in SUBSET (1..n)
    OBVIOUS
  <2>2. QED
    BY <2>1 DEF Folds, FoldRule
<1>2. ASSUME NEW k \in 1..n
      PROVE  r[k] = Folded(kind, r[k - 1], q[k])
  <2>1. r[k] = it[1..k] /\ r[k - 1] = it[1..(k - 1)]
    OBVIOUS
  <2>2. 1..k \in SUBSET (1..n) /\ 1..k # {} /\ Max(1..k) = k /\ (1..k) \ {k} = 1..(k - 1)
    BY LastPosition
  <2>3. it[1..k] = FoldRule(it, 1..k, kind, start, q)
    BY <2>2 DEF Folds
  <2>4. QED
    BY <2>1, <2>2, <2>3 DEF FoldRule
<1>3. r[n] = it[1..n]
  OBVIOUS
<1> HIDE DEF r
<1>4. QED
  BY <1>1, <1>2, <1>3 DEF Steps

LEMMA AddressSteps ==
  ASSUME NEW start, NEW q, NEW n \in Nat, DOMAIN q = 1..n
  PROVE  \E r : Steps(r, n, "address", start, q) /\ r[n] = FoldLeft(AddAddress, start, q)
<1> DEFINE D == 1..n
           Rule(it, s) == IF s = {} THEN start ELSE AddAddress(it[s \ {Max(s)}], q[Max(s)])
           iter == CHOOSE it : it = [s \in SUBSET D |-> Rule(it, s)]
<1>1. PICK it : Folds(it, n, "address", start, q)
  BY FolderExists
<1>2. \A i : [s \in SUBSET D |-> FoldRule(i, s, "address", start, q)] = [s \in SUBSET D |-> Rule(i, s)]
  BY DEF FoldRule, Folded
<1>3. iter = [s \in SUBSET D |-> Rule(iter, s)]
  <2> HIDE DEF Rule
  <2>1. it = [s \in SUBSET D |-> Rule(it, s)]
    BY <1>1, <1>2 DEF Folds
  <2>2. QED
    BY <2>1
<1>4. FoldLeft(AddAddress, start, q) = iter[D]
  BY DEF FoldLeft, MapThenFoldSet
<1> HIDE DEF iter
<1>5. Folds(iter, n, "address", start, q)
  <2> HIDE DEF Rule
  <2>1. QED
    BY <1>2, <1>3 DEF Folds
<1>6. QED
  BY <1>4, <1>5, FoldSteps

LEMMA DefinitionSteps ==
  ASSUME NEW start, NEW q, NEW n \in Nat, DOMAIN q = 1..n
  PROVE  \E r : Steps(r, n, "definition", start, q) /\ r[n] = FoldLeft(AddDefinition, start, q)
<1> DEFINE D == 1..n
           Rule(it, s) == IF s = {} THEN start ELSE AddDefinition(it[s \ {Max(s)}], q[Max(s)])
           iter == CHOOSE it : it = [s \in SUBSET D |-> Rule(it, s)]
<1>1. PICK it : Folds(it, n, "definition", start, q)
  BY FolderExists
<1>2. \A i : [s \in SUBSET D |-> FoldRule(i, s, "definition", start, q)] = [s \in SUBSET D |-> Rule(i, s)]
  BY DEF FoldRule, Folded
<1>3. iter = [s \in SUBSET D |-> Rule(iter, s)]
  <2> HIDE DEF Rule
  <2>1. it = [s \in SUBSET D |-> Rule(it, s)]
    BY <1>1, <1>2 DEF Folds
  <2>2. QED
    BY <2>1
<1>4. FoldLeft(AddDefinition, start, q) = iter[D]
  BY DEF FoldLeft, MapThenFoldSet
<1> HIDE DEF iter
<1>5. Folds(iter, n, "definition", start, q)
  <2> HIDE DEF Rule
  <2>1. QED
    BY <1>2, <1>3 DEF Folds
<1>6. QED
  BY <1>4, <1>5, FoldSteps

LEMMA ReachedSteps ==
  ASSUME NEW target, Len(forwarders) \in Nat
  PROVE  \E r : /\ Steps(r, 2 * Len(forwarders) + 2, "reached", {target}, [k \in 1..(2 * Len(forwarders) + 2) |-> k])
                /\ r[2 * Len(forwarders) + 2] = Reached(target)
<1> DEFINE n == 2 * Len(forwarders) + 2
           D == 1..n
           q == [k \in D |-> k]
           Rule(it, s) == IF s = {} THEN {target} ELSE it[s \ {Max(s)}] \cup UNION {Leads(key) : key \in it[s \ {Max(s)}]}
           iter == CHOOSE it : it = [s \in SUBSET D |-> Rule(it, s)]
<1>0. n \in Nat /\ DOMAIN q = D
  OBVIOUS
<1>1. PICK it : Folds(it, n, "reached", {target}, q)
  BY <1>0, FolderExists
<1>2. \A i : [s \in SUBSET D |-> FoldRule(i, s, "reached", {target}, q)] = [s \in SUBSET D |-> Rule(i, s)]
  <2> HIDE DEF D
  <2>1. QED
    BY DEF FoldRule, Folded
<1>3. iter = [s \in SUBSET D |-> Rule(iter, s)]
  <2> HIDE DEF Rule
  <2>1. it = [s \in SUBSET D |-> Rule(it, s)]
    BY <1>1, <1>2 DEF Folds
  <2>2. QED
    BY <2>1
<1>4. Reached(target) = iter[D]
  BY <1>0 DEF Reached, FoldLeft, MapThenFoldSet
<1> HIDE DEF iter
<1>5. Folds(iter, n, "reached", {target}, q)
  <2> HIDE DEF Rule
  <2>1. QED
    BY <1>2, <1>3 DEF Folds
<1> HIDE DEF q
<1>6. \E r : Steps(r, n, "reached", {target}, q) /\ r[n] = iter[D]
  BY <1>0, <1>5, FoldSteps
<1>7. QED
  BY <1>4, <1>6 DEF q

LEMMA AppendedSet ==
  ASSUME NEW old, old \in Seq(ToSet(old)), NEW x
  PROVE  /\ Append(old, x) \in Seq(ToSet(Append(old, x))) /\ Append(old, x) # <<>>
         /\ ToSet(Append(old, x)) = ToSet(old) \cup {x}
<1> DEFINE new == Append(old, x)
           n == Len(old)
<1>1. new = Append(old, x)
  OBVIOUS
<1>2. n \in Nat /\ DOMAIN old = 1..n
  BY SeqFacts
<1> HIDE DEF new
<1>3. /\ new \in Seq(ToSet(new)) /\ DOMAIN new = 1..(n + 1) /\ new[n + 1] = x
      /\ \A k \in 1..n : new[k] = old[k]
  <2>1. new \in Seq(ToSet(new)) /\ DOMAIN new = 1..(Len(old) + 1)
    BY <1>1, AppendFacts
  <2>2. new[Len(old) + 1] = x /\ \A k \in 1..Len(old) : new[k] = old[k]
    BY <1>1, AppendFacts
  <2>3. QED
    BY <2>1, <2>2
<1> HIDE DEF n
<1>4. new # <<>>
  BY <1>2, <1>3
<1>5. ToSet(new) = {new[k] : k \in 1..(n + 1)} /\ ToSet(old) = {old[k] : k \in 1..n}
  BY <1>2, <1>3 DEF ToSet
<1>6. \A k \in 1..(n + 1) : k \in 1..n \/ k = n + 1
  BY <1>2
<1>7. n + 1 \in 1..(n + 1) /\ \A k \in 1..n : k \in 1..(n + 1)
  BY <1>2
<1>8. ToSet(new) = ToSet(old) \cup {x}
  BY <1>3, <1>5, <1>6, <1>7
<1>9. QED
  BY <1>3, <1>4, <1>8 DEF new

-----------------------------------------------------------------------------
\* What reading a list of pairs adds to the index of addresses, and to the definitions.
WellListed(index) == \A a \in DOMAIN index : index[a] \in Seq(ToSet(index[a])) /\ index[a] # <<>>

Indexed(t, index, q, n) ==
  /\ WellListed(t)
  /\ \A a \in DOMAIN index : a \in DOMAIN t /\ ToSet(index[a]) \subseteq ToSet(t[a])
  /\ \A a \in DOMAIN t : \A x \in ToSet(t[a]) :
       \/ a \in DOMAIN index /\ x \in ToSet(index[a])
       \/ \E k \in 1..n : q[k][1] = a /\ q[k][2] = x

Enters(t, index, pair) ==
  /\ WellListed(t) /\ DOMAIN t = DOMAIN index \cup {pair[1]} /\ pair[2] \in ToSet(t[pair[1]])
  /\ \A a \in DOMAIN index : ToSet(index[a]) \subseteq ToSet(t[a])
  /\ \A a \in DOMAIN t : \A x \in ToSet(t[a]) :
       (a \in DOMAIN index /\ x \in ToSet(index[a])) \/ (pair[1] = a /\ pair[2] = x)

LEMMA AddressAdded ==
  ASSUME NEW index, WellListed(index), NEW pair
  PROVE  Enters(AddAddress(index, pair), index, pair)
<1> DEFINE t == AddAddress(index, pair)
           b == pair[1]
           old == Lookup(index, b, <<>>)
           new == Append(old, pair[2])
<1>1. DOMAIN t = DOMAIN index \cup {b} /\ \A a \in DOMAIN t : t[a] = IF a = b THEN new ELSE index[a]
  BY DEF AddAddress
<1>2. old \in Seq(ToSet(old)) /\ (b \in DOMAIN index => old = index[b]) /\ (b \notin DOMAIN index => ToSet(old) = {})
  <2>1. CASE b \in DOMAIN index
    BY <2>1 DEF Lookup, WellListed
  <2>2. CASE b \notin DOMAIN index
    <3>1. old = <<>> /\ ToSet(<<>>) = {} /\ <<>> \in Seq({})
      BY <2>2 DEF Lookup, ToSet
    <3>2. QED
      BY <2>2, <3>1
  <2>3. QED
    BY <2>1, <2>2
<1> HIDE DEF old
<1>3. /\ new \in Seq(ToSet(new)) /\ new # <<>> /\ ToSet(new) = ToSet(old) \cup {pair[2]}
  BY <1>2, AppendedSet
<1> HIDE DEF new, t, b
<1>4. WellListed(t)
  BY <1>1, <1>3 DEF WellListed
<1>5. \A a \in DOMAIN index : ToSet(index[a]) \subseteq ToSet(t[a])
  BY <1>1, <1>2, <1>3
<1>6. pair[2] \in ToSet(t[b])
  BY <1>1, <1>3
<1>7. \A a \in DOMAIN t : \A x \in ToSet(t[a]) : (a \in DOMAIN index /\ x \in ToSet(index[a])) \/ (b = a /\ pair[2] = x)
  BY <1>1, <1>2, <1>3
<1>8. QED
  BY <1>1, <1>4, <1>5, <1>6, <1>7 DEF t, b, Enters

LEMMA AddressesAdded ==
  ASSUME NEW index, WellListed(index), NEW q, NEW n \in Nat, DOMAIN q = 1..n
  PROVE  Indexed(FoldLeft(AddAddress, index, q), index, q, n)
<1>1. PICK r : Steps(r, n, "address", index, q) /\ r[n] = FoldLeft(AddAddress, index, q)
  BY AddressSteps
<1> DEFINE P == {m \in Nat : m <= n => Indexed(r[m], index, q, m)}
<1>2. 0 \in P
  BY <1>1 DEF Steps, Indexed
<1>3. ASSUME NEW m \in Nat, m \in P
      PROVE  m + 1 \in P
  <2>1. SUFFICES ASSUME m + 1 <= n
                 PROVE  Indexed(r[m + 1], index, q, m + 1)
    OBVIOUS
  <2> DEFINE old == r[m]
             new == r[m + 1]
             pair == q[m + 1]
  <2>2. Indexed(old, index, q, m)
    BY <1>3, <2>1
  <2>3. new = AddAddress(old, pair)
    BY <1>1, <2>1 DEF Steps, Folded
  <2> HIDE DEF old, new, pair
  <2>4. WellListed(old)
    BY <2>2 DEF Indexed
  <2>5. Enters(new, old, pair)
    BY <2>3, <2>4, AddressAdded
  <2>6. \A a \in DOMAIN index : a \in DOMAIN new /\ ToSet(index[a]) \subseteq ToSet(new[a])
    BY <2>2, <2>5 DEF Indexed, Enters
  <2>7. m + 1 \in 1..(m + 1) /\ \A k \in 1..m : k \in 1..(m + 1)
    OBVIOUS
  <2>8. ASSUME NEW a \in DOMAIN new, NEW x \in ToSet(new[a])
        PROVE  \/ a \in DOMAIN index /\ x \in ToSet(index[a])
               \/ \E k \in 1..(m + 1) : q[k][1] = a /\ q[k][2] = x
    <3>1. CASE a \in DOMAIN old /\ x \in ToSet(old[a])
      BY <2>2, <2>7, <3>1 DEF Indexed
    <3>2. CASE pair[1] = a /\ pair[2] = x
      BY <2>7, <3>2 DEF pair
    <3>3. QED
      BY <2>5, <3>1, <3>2 DEF Enters
  <2>9. Indexed(new, index, q, m + 1)
    BY <2>5, <2>6, <2>8 DEF Indexed, Enters
  <2>10. QED
    BY <2>9 DEF new
<1> HIDE DEF P
<1>4. n \in P
  BY <1>2, <1>3, EveryNat
<1>5. QED
  BY <1>1, <1>4 DEF P

Defines(t, defined, q, n) ==
  /\ IsFiniteSet(DOMAIN t)
  /\ \A m \in DOMAIN defined : m \in DOMAIN t /\ t[m] = defined[m]
  /\ \A k \in 1..n : \A key \in KeysOf(q[k][2]) : <<q[k][2].module, key>> \in DOMAIN t
  /\ \A m \in DOMAIN t :
       \/ m \in DOMAIN defined /\ t[m] = defined[m]
       \/ \E k \in 1..n : t[m] = q[k][1] /\ \E key \in KeysOf(q[k][2]) : m = <<q[k][2].module, key>>

LEMMA DefinitionsAdded ==
  ASSUME NEW defined, IsFiniteSet(DOMAIN defined), NEW q, NEW n \in Nat, DOMAIN q = 1..n
  PROVE  Defines(FoldLeft(AddDefinition, defined, q), defined, q, n)
<1>1. PICK r : Steps(r, n, "definition", defined, q) /\ r[n] = FoldLeft(AddDefinition, defined, q)
  BY DefinitionSteps
<1> DEFINE P == {m \in Nat : m <= n => Defines(r[m], defined, q, m)}
<1>2. 0 \in P
  BY <1>1 DEF Steps, Defines
<1>3. ASSUME NEW m \in Nat, m \in P
      PROVE  m + 1 \in P
  <2>1. SUFFICES ASSUME m + 1 <= n
                 PROVE  Defines(r[m + 1], defined, q, m + 1)
    OBVIOUS
  <2> DEFINE old == r[m]
             new == r[m + 1]
             pair == q[m + 1]
             names == {<<pair[2].module, key>> : key \in KeysOf(pair[2])}
  <2>2. Defines(old, defined, q, m)
    BY <1>3, <2>1
  <2>3. new = AddDefinition(old, pair)
    BY <1>1, <2>1 DEF Steps, Folded
  <2>4. /\ DOMAIN new = DOMAIN old \cup names
        /\ \A d \in DOMAIN new : new[d] = IF d \in DOMAIN old THEN old[d] ELSE pair[1]
    <3> HIDE DEF old, new, pair
    <3>1. QED
      BY <2>3 DEF AddDefinition
  <2> HIDE DEF old, new, pair
  <2>5. \A d \in DOMAIN defined : d \in DOMAIN new /\ new[d] = defined[d]
    BY <2>2, <2>4 DEF Defines
  <2>6. \A k \in 1..(m + 1) : k \in 1..m \/ k = m + 1
    OBVIOUS
  <2>7. \A k \in 1..(m + 1) : \A key \in KeysOf(q[k][2]) : <<q[k][2].module, key>> \in DOMAIN new
    BY <2>2, <2>4, <2>6 DEF Defines, pair
  <2>8. m + 1 \in 1..(m + 1) /\ \A k \in 1..m : k \in 1..(m + 1)
    OBVIOUS
  <2>9. ASSUME NEW d \in DOMAIN new
        PROVE  \/ d \in DOMAIN defined /\ new[d] = defined[d]
               \/ \E k \in 1..(m + 1) : new[d] = q[k][1] /\ \E key \in KeysOf(q[k][2]) : d = <<q[k][2].module, key>>
    <3>1. CASE d \in DOMAIN old
      BY <2>2, <2>4, <2>8, <3>1 DEF Defines
    <3>2. CASE d \notin DOMAIN old
      <4>1. new[d] = pair[1] /\ \E key \in KeysOf(pair[2]) : d = <<pair[2].module, key>>
        BY <2>4, <3>2
      <4>2. QED
        BY <2>8, <4>1 DEF pair
    <3>3. QED
      BY <3>1, <3>2
  <2>10. IsFiniteSet(DOMAIN new)
    <3>1. IsFiniteSet(DOMAIN old)
      BY <2>2 DEF Defines
    <3> DEFINE a == <<pair[2].module, pair[2].ordinal>>
               b == <<pair[2].module, pair[2].name>>
    <3>2. DOMAIN new \subseteq (DOMAIN old \cup {a}) \cup {b}
      BY <2>4 DEF KeysOf
    <3> HIDE DEF a, b
    <3>3. IsFiniteSet((DOMAIN old \cup {a}) \cup {b})
      BY <3>1, FS_AddElement
    <3>4. QED
      BY <3>2, <3>3, FS_Subset
  <2>11. Defines(new, defined, q, m + 1)
    BY <2>5, <2>7, <2>9, <2>10 DEF Defines
  <2>12. QED
    BY <2>11 DEF new
<1> HIDE DEF P
<1>4. n \in P
  BY <1>2, <1>3, EveryNat
<1>5. QED
  BY <1>1, <1>4 DEF P

-----------------------------------------------------------------------------
\* What the exports of a module are read as.
LEMMA SeqOfDomain ==
  ASSUME NEW n \in Nat, NEW f, f = [k \in 1..n |-> f[k]]
  PROVE  f \in Seq(ToSet(f))
<1> DEFINE T == ToSet(f)
<1>1. \A k \in 1..n : f[k] \in T
  BY DEF ToSet
<1> HIDE DEF T
<1>2. f \in [1..n -> T]
  BY <1>1
<1>3. QED
  BY <1>2 DEF T

LEMMA SymbolsFacts ==
  ASSUME NEW m, NEW e, e.names \in Seq(ToSet(e.names))
  PROVE  /\ SymbolsOf(m, e) \in Seq(ToSet(SymbolsOf(m, e)))
         /\ \A k \in DOMAIN SymbolsOf(m, e) :
              SymbolsOf(m, e)[k].module = m.name /\ SymbolsOf(m, e)[k].ordinal = e.ordinal
<1> DEFINE names == IF e.names = <<>> THEN <<None>> ELSE e.names
           out == SymbolsOf(m, e)
<1>1. \E n \in Nat : DOMAIN names = 1..n
  <2>1. DOMAIN <<None>> = 1..1
    OBVIOUS
  <2>2. DOMAIN e.names = 1..Len(e.names) /\ Len(e.names) \in Nat
    BY SeqFacts
  <2>3. QED
    BY <2>1, <2>2
<1>2. out = [k \in DOMAIN names |-> [module |-> m.name, name |-> names[k], ordinal |-> e.ordinal,
                                     forwarded |-> e.forwarded]]
  BY DEF SymbolsOf
<1> HIDE DEF names, out
<1>3. PICK n \in Nat : DOMAIN names = 1..n
  BY <1>1
<1>4. out = [k \in 1..n |-> out[k]]
  BY <1>2, <1>3
<1>5. out \in Seq(ToSet(out))
  BY <1>4, SeqOfDomain
<1>6. \A k \in DOMAIN out : out[k].module = m.name /\ out[k].ordinal = e.ordinal
  BY <1>2
<1>7. QED
  BY <1>5, <1>6 DEF out

IsExport(y, m) == y = <<y[1], y[2]>> /\ y[1] \in Nat /\ y[2].module = m.name /\ y[2].ordinal # None
IsForwarder(f) == f.target = <<f.target[1], f.target[2]>> /\ f.source.ordinal # None

\* Every export is read as an address of its module and a symbol with an ordinal.
LEMMA DirectFacts ==
  ASSUME NEW m, IsModule(m)
  PROVE  /\ Direct(m) \in Seq(ToSet(Direct(m)))
         /\ \A i \in 1..Len(Direct(m)) : IsExport(Direct(m)[i], m)
<1> DEFINE q == m.exports
           n == Len(q)
           Passes(e) == ~ (e.forwarded \/ e.rva <= 0 \/ e.rva >= m.declared)
           Made(e) == [j \in DOMAIN SymbolsOf(m, e) |-> <<m.base + e.rva, SymbolsOf(m, e)[j]>>]
           Part(it, s) ==
             IF s = {} THEN <<>>
             ELSE IF q[Max(s)].forwarded \/ q[Max(s)].rva <= 0 \/ q[Max(s)].rva >= m.declared THEN it[s \ {Max(s)}]
             ELSE it[s \ {Max(s)}] \o Made(q[Max(s)])
           Inline(it) == it = [s \in SUBSET DOMAIN q |-> Part(it, s)]
           test == [x \in ToSet(q) |-> Passes(x)]
           make == [x \in ToSet(q) |-> Made(x)]
           table == CHOOSE it : Inline(it)
           out == Direct(m)
<1>1. n \in Nat /\ DOMAIN q = 1..n
  BY SeqFacts DEF IsModule
<1>2. out = table[DOMAIN q]
  BY DEF Direct, FoldLeft, MapThenFoldSet
<1>3. ASSUME NEW k \in 1..n
      PROVE  test[q[k]] = Passes(q[k]) /\ make[q[k]] = Made(q[k]) /\ q[k] \in ToSet(q)
  <2>1. q[k] \in ToSet(q)
    BY <1>1 DEF ToSet
  <2> HIDE DEF q, Passes, Made
  <2>2. QED
    BY <2>1
<1>4. ASSUME NEW e \in ToSet(q)
      PROVE  SymbolsOf(m, e) \in Seq(ToSet(SymbolsOf(m, e)))
  BY <1>4, SymbolsFacts DEF IsModule
<1>5. ASSUME NEW e \in ToSet(q)
      PROVE  Made(e) \in Seq(ToSet(Made(e)))
  <2> DEFINE sy == SymbolsOf(m, e)
  <2>1. Len(sy) \in Nat /\ DOMAIN sy = 1..Len(sy)
    BY <1>4, SeqFacts
  <2>2. Made(e) = [k \in 1..Len(sy) |-> Made(e)[k]]
    BY <2>1
  <2> HIDE DEF Made, sy
  <2>3. QED
    BY <2>1, <2>2, SeqOfDomain
<1> HIDE DEF Passes, Made, test, make
<1>6. ASSUME NEW it
      PROVE  Inline(it) <=> Collects(it, n, q, test, make)
  <2>1. ASSUME NEW s \in SUBSET (1..n)
        PROVE  Part(it, s) = CollectRule(it, s, q, test, make)
    <3>1. CASE s = {}
      BY <3>1 DEF CollectRule
    <3>2. CASE s # {}
      <4>1. Max(s) \in 1..n
        BY <1>1, <3>2, PositionsOf
      <4>2. test[q[Max(s)]] = Passes(q[Max(s)]) /\ make[q[Max(s)]] = Made(q[Max(s)])
        BY <1>3, <4>1
      <4>3. QED
        BY <3>2, <4>2 DEF CollectRule, Passes, Made
    <3>3. QED
      BY <3>1, <3>2
  <2> HIDE DEF Part, q, n
  <2>2. [s \in SUBSET (1..n) |-> Part(it, s)] = [s \in SUBSET (1..n) |-> CollectRule(it, s, q, test, make)]
    BY <2>1
  <2>3. QED
    BY <1>1, <2>2 DEF Collects
<1> HIDE DEF Inline
<1>7. Collects(table, n, q, test, make)
  <2>1. \E it : Inline(it)
    BY <1>1, <1>6, CollectorExists
  <2>2. Inline(table)
    BY <2>1
  <2>3. QED
    BY <1>6, <2>2
<1>8. \A k \in 1..n : test[q[k]] => make[q[k]] \in Seq(ToSet(make[q[k]]))
  BY <1>3, <1>5
<1> HIDE DEF table
<1>9. PICK from : StemsFrom(out, from, n, q, test, make)
  <2>1. \E from : StemsFrom(table[1..n], from, n, q, test, make)
    <3> HIDE DEF q, n
    <3>1. QED
      BY <1>1, <1>7, <1>8, CollectedFacts
  <2>2. QED
    BY <1>1, <1>2, <2>1
<1> HIDE DEF out
<1>10. ASSUME NEW i \in 1..Len(out)
       PROVE  \E e \in ToSet(q) : Passes(e) /\ \E j \in DOMAIN Made(e) : out[i] = Made(e)[j]
  <2>1. from[i] \in (1..n) \X (Nat \ {0})
    BY <1>9 DEF StemsFrom
  <2> DEFINE k == from[i][1]
             j == from[i][2]
  <2>2. k \in 1..n
    BY <2>1
  <2>3. test[q[k]] /\ j \in DOMAIN make[q[k]] /\ out[i] = make[q[k]][j]
    BY <1>9 DEF StemsFrom
  <2> HIDE DEF k, j
  <2>4. QED
    BY <1>3, <2>2, <2>3
<1>11. out \in Seq(ToSet(out))
  BY <1>9 DEF StemsFrom
<1>12. ASSUME NEW i \in 1..Len(out)
       PROVE  IsExport(out[i], m)
  <2>1. PICK e \in ToSet(q) : Passes(e) /\ \E j \in DOMAIN Made(e) : out[i] = Made(e)[j]
    BY <1>10
  <2>2. PICK j \in DOMAIN SymbolsOf(m, e) : out[i] = <<m.base + e.rva, SymbolsOf(m, e)[j]>>
    BY <2>1 DEF Made
  <2>3. e.rva \in Nat /\ m.base \in Nat /\ e.ordinal # None /\ e.names \in Seq(ToSet(e.names))
    BY DEF IsModule
  <2>4. m.base + e.rva \in Nat
    BY <2>3
  <2>5. SymbolsOf(m, e)[j].module = m.name /\ SymbolsOf(m, e)[j].ordinal = e.ordinal
    BY <2>3, SymbolsFacts
  <2>6. QED
    BY <2>2, <2>3, <2>4, <2>5 DEF IsExport
<1>13. QED
  BY <1>11, <1>12 DEF out

\* Every forwarder that is kept names a module and a key, and has an ordinal.
LEMMA ForwardsFacts ==
  ASSUME NEW m, IsModule(m)
  PROVE  /\ Forwards(m) \in Seq(ToSet(Forwards(m)))
         /\ \A i \in 1..Len(Forwards(m)) : IsForwarder(Forwards(m)[i])
<1> DEFINE q == m.exports
           n == Len(q)
           Passes(e) == e.forwarded /\ e.target # Unreadable
           Made(e) == [j \in DOMAIN SymbolsOf(m, e) |-> [source |-> SymbolsOf(m, e)[j], target |-> e.target]]
           Part(it, s) ==
             IF s = {} THEN <<>>
             ELSE IF q[Max(s)].forwarded /\ q[Max(s)].target # Unreadable THEN it[s \ {Max(s)}] \o Made(q[Max(s)])
             ELSE it[s \ {Max(s)}]
           Inline(it) == it = [s \in SUBSET DOMAIN q |-> Part(it, s)]
           test == [x \in ToSet(q) |-> Passes(x)]
           make == [x \in ToSet(q) |-> Made(x)]
           table == CHOOSE it : Inline(it)
           out == Forwards(m)
<1>1. n \in Nat /\ DOMAIN q = 1..n
  BY SeqFacts DEF IsModule
<1>2. out = table[DOMAIN q]
  BY DEF Forwards, FoldLeft, MapThenFoldSet
<1>3. ASSUME NEW k \in 1..n
      PROVE  test[q[k]] = Passes(q[k]) /\ make[q[k]] = Made(q[k]) /\ q[k] \in ToSet(q)
  <2>1. q[k] \in ToSet(q)
    BY <1>1 DEF ToSet
  <2> HIDE DEF q, Passes, Made
  <2>2. QED
    BY <2>1
<1>4. ASSUME NEW e \in ToSet(q)
      PROVE  SymbolsOf(m, e) \in Seq(ToSet(SymbolsOf(m, e)))
  BY <1>4, SymbolsFacts DEF IsModule
<1>5. ASSUME NEW e \in ToSet(q)
      PROVE  Made(e) \in Seq(ToSet(Made(e)))
  <2> DEFINE sy == SymbolsOf(m, e)
  <2>1. Len(sy) \in Nat /\ DOMAIN sy = 1..Len(sy)
    BY <1>4, SeqFacts
  <2>2. Made(e) = [k \in 1..Len(sy) |-> Made(e)[k]]
    BY <2>1
  <2> HIDE DEF Made, sy
  <2>3. QED
    BY <2>1, <2>2, SeqOfDomain
<1> HIDE DEF Passes, Made, test, make
<1>6. ASSUME NEW it
      PROVE  Inline(it) <=> Collects(it, n, q, test, make)
  <2>1. ASSUME NEW s \in SUBSET (1..n)
        PROVE  Part(it, s) = CollectRule(it, s, q, test, make)
    <3>1. CASE s = {}
      BY <3>1 DEF CollectRule
    <3>2. CASE s # {}
      <4>1. Max(s) \in 1..n
        BY <1>1, <3>2, PositionsOf
      <4>2. test[q[Max(s)]] = Passes(q[Max(s)]) /\ make[q[Max(s)]] = Made(q[Max(s)])
        BY <1>3, <4>1
      <4>3. QED
        BY <3>2, <4>2 DEF CollectRule, Passes, Made
    <3>3. QED
      BY <3>1, <3>2
  <2> HIDE DEF Part, q, n
  <2>2. [s \in SUBSET (1..n) |-> Part(it, s)] = [s \in SUBSET (1..n) |-> CollectRule(it, s, q, test, make)]
    BY <2>1
  <2>3. QED
    BY <1>1, <2>2 DEF Collects
<1> HIDE DEF Inline
<1>7. Collects(table, n, q, test, make)
  <2>1. \E it : Inline(it)
    BY <1>1, <1>6, CollectorExists
  <2>2. Inline(table)
    BY <2>1
  <2>3. QED
    BY <1>6, <2>2
<1>8. \A k \in 1..n : test[q[k]] => make[q[k]] \in Seq(ToSet(make[q[k]]))
  BY <1>3, <1>5
<1> HIDE DEF table
<1>9. PICK from : StemsFrom(out, from, n, q, test, make)
  <2>1. \E from : StemsFrom(table[1..n], from, n, q, test, make)
    <3> HIDE DEF q, n
    <3>1. QED
      BY <1>1, <1>7, <1>8, CollectedFacts
  <2>2. QED
    BY <1>1, <1>2, <2>1
<1> HIDE DEF out
<1>10. ASSUME NEW i \in 1..Len(out)
       PROVE  \E e \in ToSet(q) : Passes(e) /\ \E j \in DOMAIN Made(e) : out[i] = Made(e)[j]
  <2>1. from[i] \in (1..n) \X (Nat \ {0})
    BY <1>9 DEF StemsFrom
  <2> DEFINE k == from[i][1]
             j == from[i][2]
  <2>2. k \in 1..n
    BY <2>1
  <2>3. test[q[k]] /\ j \in DOMAIN make[q[k]] /\ out[i] = make[q[k]][j]
    BY <1>9 DEF StemsFrom
  <2> HIDE DEF k, j
  <2>4. QED
    BY <1>3, <2>2, <2>3
<1>11. out \in Seq(ToSet(out))
  BY <1>9 DEF StemsFrom
<1>12. ASSUME NEW i \in 1..Len(out)
       PROVE  IsForwarder(out[i])
  <2>1. PICK e \in ToSet(q) : Passes(e) /\ \E j \in DOMAIN Made(e) : out[i] = Made(e)[j]
    BY <1>10
  <2>2. PICK j \in DOMAIN SymbolsOf(m, e) : out[i] = [source |-> SymbolsOf(m, e)[j], target |-> e.target]
    BY <2>1 DEF Made
  <2>3. e.target # Unreadable
    BY <2>1 DEF Passes
  <2>4. e.ordinal # None /\ e.names \in Seq(ToSet(e.names)) /\ e.target = <<e.target[1], e.target[2]>>
    BY <2>3 DEF IsModule
  <2>5. SymbolsOf(m, e)[j].ordinal = e.ordinal
    BY <2>4, SymbolsFacts
  <2>6. QED
    BY <2>2, <2>4, <2>5 DEF IsForwarder
<1>13. QED
  BY <1>11, <1>12 DEF out

-----------------------------------------------------------------------------
\* The invariant behind the index: a definition is an export that was read, under one of its
\* keys, and every such key has one; what an address lists is exported there, or is a
\* forwarder that ends there; and a forwarder that was followed is listed where it ends, or
\* lost if it ends nowhere.
Exported == UNION {ToSet(Direct(modules[i])) : i \in 1..parsed}
IsRead(y) ==
  y = <<y[1], y[2]>> /\ y[1] \in Nat /\ y[2].ordinal # None /\ \E i \in DOMAIN modules : modules[i].name = y[2].module
EndOf(k) == IF forwarders[k].target = Garbled THEN Nowhere ELSE ResolveKey(forwarders[k].target)

Counted ==
  /\ modules \in Seq(ToSet(modules)) /\ \A i \in DOMAIN modules : IsModule(modules[i])
  /\ parsed \in 0..Len(modules) /\ followed \in 0..Len(forwarders) /\ (followed # 0 => parsed = Len(modules))
  /\ forwarders \in Seq(ToSet(forwarders)) /\ \A k \in DOMAIN forwarders : IsForwarder(forwarders[k])
  /\ lost \subseteq 1..followed
DefinitionsSound ==
  /\ IsFiniteSet(DOMAIN definitions)
  /\ \A y \in Exported : IsRead(y) /\ \A key \in KeysOf(y[2]) : <<y[2].module, key>> \in DOMAIN definitions
  /\ \A d \in DOMAIN definitions : \E y \in Exported :
       y[1] = definitions[d] /\ d[1] = y[2].module /\ d[2] \in KeysOf(y[2])
AddressesSound ==
  /\ WellListed(addresses)
  /\ \A a \in DOMAIN addresses : \A x \in ToSet(addresses[a]) :
       \/ <<a, x>> \in Exported
       \/ \E k \in 1..followed : forwarders[k].source = x /\ EndOf(k) = a /\ a # Nowhere
Settled == \A k \in 1..followed :
  IF k \in lost THEN EndOf(k) = Nowhere
  ELSE EndOf(k) # Nowhere /\ EndOf(k) \in DOMAIN addresses /\ forwarders[k].source \in ToSet(addresses[EndOf(k)])

EInv == Counted /\ DefinitionsSound /\ AddressesSound /\ Settled

LEMMA LastOfNats ==
  ASSUME NEW n \in Nat, NEW S \in SUBSET (1..n), S # {}
  PROVE  \E i \in S : \A j \in S : j <= i
<1> DEFINE T == 1..n
<1>1. S \in SUBSET Int /\ IsFiniteSet(T) /\ S \in SUBSET T
  BY FS_Interval
<1> HIDE DEF T
<1>2. IsFiniteSet(S)
  BY <1>1, FS_Subset
<1>3. QED
  BY <1>1, <1>2, MaxOfInts

LEMMA DefinedIsFinite ==
  ASSUME IsFiniteSet(DOMAIN definitions), NEW key
  PROVE  IsFiniteSet(DefinedAnywhere(key))
<1> DEFINE S == {m \in DOMAIN definitions : m[2] = key}
           T == DefinedAnywhere(key)
           f == [m \in S |-> definitions[m]]
<1>1. S \in SUBSET DOMAIN definitions
  OBVIOUS
<1>2. T = {definitions[m] : m \in S}
  BY DEF DefinedAnywhere
<1> HIDE DEF S, T
<1>3. f \in [S -> T] /\ \A t \in T : \E m \in S : f[m] = t
  BY <1>2
<1> HIDE DEF f
<1>4. f \in Surjection(S, T)
  BY <1>3 DEF Surjection
<1>5. IsFiniteSet(S)
  BY <1>1, FS_Subset
<1>6. IsFiniteSet(T)
  BY <1>4, <1>5, FS_Surjection
<1>7. QED
  BY <1>6 DEF T

\* One hop: where it ends something is exported, and where it leads on a forwarder does.
LEMMA HopEnds ==
  ASSUME DefinitionsSound, NEW at, Hop(at).address # Nowhere
  PROVE  \E y \in Exported :
           /\ y[1] = Hop(at).address /\ at[2] \in KeysOf(y[2])
           /\ y[2].module = at[1] \/ (at[1] \in ApiSets /\ \E i \in DOMAIN modules : modules[i].name = y[2].module)
<1> DEFINE anywhere == DefinedAnywhere(at[2])
<1>1. CASE at \in DOMAIN definitions
  <2>1. Hop(at).address = definitions[at]
    BY <1>1 DEF Hop
  <2>2. QED
    BY <1>1, <2>1 DEF DefinitionsSound
<1>2. CASE at \notin DOMAIN definitions
  <2>1. at[1] \in ApiSets /\ Cardinality(anywhere) = 1 /\ Hop(at).address = First(anywhere) /\ anywhere # {}
    BY <1>2 DEF Hop
  <2>2. PICK d \in DOMAIN definitions : d[2] = at[2]
    BY <2>1 DEF DefinedAnywhere
  <2>3. PICK v : anywhere = {v}
    <3>1. \E m \in anywhere : anywhere = {m}
      <4>1. IsFiniteSet(anywhere)
        BY DefinedIsFinite DEF DefinitionsSound
      <4> HIDE DEF anywhere
      <4>2. QED
        BY <2>1, <4>1, FS_Singleton
    <3>2. QED
      BY <3>1
  <2>4. definitions[d] \in anywhere
    BY <2>2 DEF DefinedAnywhere
  <2>5. v = definitions[d]
    BY <2>3, <2>4
  <2>6. PICK y \in Exported : y[1] = v /\ d[1] = y[2].module /\ at[2] \in KeysOf(y[2])
    BY <2>2, <2>5 DEF DefinitionsSound
  <2>7. v \in Nat /\ IsRead(y)
    BY <2>6 DEF DefinitionsSound, IsRead
  <2> HIDE DEF anywhere
  <2>8. First(anywhere) = v
    BY <2>3, <2>7 DEF First
  <2>9. QED
    BY <2>1, <2>6, <2>7, <2>8 DEF IsRead
<1>3. QED
  BY <1>1, <1>2

LEMMA HopLeadsOn ==
  ASSUME Counted, DefinitionsSound, NEW at, Hop(at).address = Nowhere, Hop(at).next # Garbled
  PROVE  /\ at \notin DOMAIN definitions
         /\ \E k \in 1..Len(forwarders) :
              /\ forwarders[k].source.module = at[1] /\ at[2] \in KeysOf(forwarders[k].source)
              /\ forwarders[k].target = Hop(at).next
<1> DEFINE anywhere == DefinedAnywhere(at[2])
           next == Pending(at[1], at[2])
           named == {k \in DOMAIN forwarders :
                       forwarders[k].source.module = at[1] /\ at[2] \in KeysOf(forwarders[k].source)}
<1>1. at \notin DOMAIN definitions
  <2>1. SUFFICES ASSUME at \in DOMAIN definitions
                 PROVE  FALSE
    OBVIOUS
  <2>2. Hop(at).address = definitions[at]
    BY <2>1 DEF Hop
  <2>3. PICK y \in Exported : y[1] = definitions[at]
    BY <2>1 DEF DefinitionsSound
  <2>4. definitions[at] \in Nat
    BY <2>3 DEF DefinitionsSound, IsRead
  <2>5. QED
    BY <2>2, <2>4 DEF Nowhere
<1>2. next # Unreadable /\ Hop(at).next = next
  BY <1>1 DEF Hop
<1>3. named # {} /\ next = forwarders[CHOOSE k \in named : \A j \in named : j <= k].target
  BY <1>2 DEF Pending
<1>4. DOMAIN forwarders = 1..Len(forwarders) /\ Len(forwarders) \in Nat
  BY SeqFacts DEF Counted
<1>5. PICK k \in named : k = CHOOSE i \in named : \A j \in named : j <= i
  <2>1. named \in SUBSET (1..Len(forwarders))
    BY <1>4
  <2> HIDE DEF named
  <2>2. \E i \in named : \A j \in named : j <= i
    BY <1>3, <1>4, <2>1, LastOfNats
  <2>3. QED
    BY <2>2
<1>6. k \in 1..Len(forwarders)
  BY <1>4
<1>7. QED
  BY <1>1, <1>2, <1>3, <1>5, <1>6

\* A garbled target ends nowhere.
LEMMA GarbledEndsNowhere ==
  ASSUME Counted, DefinitionsSound
  PROVE  Hop(Garbled).address = Nowhere /\ Hop(Garbled).next = Garbled
<1>1. Garbled[2] = None
  BY DEF Garbled, None
<1>2. \A y \in Exported : None \notin KeysOf(y[2])
  BY DEF DefinitionsSound, IsRead, KeysOf
<1>3. \A d \in DOMAIN definitions : d[2] # None
  BY <1>2 DEF DefinitionsSound
<1>4. Hop(Garbled).address = Nowhere
  BY <1>1, <1>2, HopEnds
<1>5. Hop(Garbled).next = Garbled
  <2>1. SUFFICES ASSUME Hop(Garbled).next # Garbled
                 PROVE  FALSE
    OBVIOUS
  <2>2. PICK k \in 1..Len(forwarders) : Garbled[2] \in KeysOf(forwarders[k].source)
    BY <1>4, <2>1, HopLeadsOn
  <2>3. DOMAIN forwarders = 1..Len(forwarders)
    BY SeqFacts DEF Counted
  <2>4. forwarders[k].source.ordinal # None
    BY <2>2, <2>3 DEF Counted, IsForwarder
  <2>5. QED
    BY <1>1, <2>2, <2>4 DEF KeysOf
<1>6. QED
  BY <1>4, <1>5

-----------------------------------------------------------------------------
\* The chain of hops resolve_key makes from a target, and how far it gets.
IsChain(at, m, target) == at[1] = target /\ \A n \in 1..m : at[n + 1] = Hop(at[n]).next

LEMMA ChainExists ==
  ASSUME NEW target, NEW m \in Nat
  PROVE  \E at : IsChain(at, m, target)
<1> DEFINE P == {n \in Nat : \E at : IsChain(at, n, target)}
<1>1. 0 \in P
  <2> DEFINE at == [k \in {1} |-> target]
  <2>1. IsChain(at, 0, target)
    BY DEF IsChain
  <2> HIDE DEF at
  <2>2. QED
    BY <2>1
<1>2. ASSUME NEW n \in Nat, n \in P
      PROVE  n + 1 \in P
  <2>1. PICK old : IsChain(old, n, target)
    BY <1>2
  <2> DEFINE at == [k \in 1..(n + 2) |-> IF k <= n + 1 THEN old[k] ELSE Hop(old[n + 1]).next]
  <2>2. \A k \in 1..(n + 1) : at[k] = old[k]
    OBVIOUS
  <2>3. at[n + 2] = Hop(old[n + 1]).next
    <3>1. n + 2 \in 1..(n + 2) /\ ~ (n + 2 <= n + 1)
      OBVIOUS
    <3>2. QED
      BY <3>1
  <2> HIDE DEF at
  <2>4. ASSUME NEW k \in 1..(n + 1)
        PROVE  at[k + 1] = Hop(at[k]).next
    <3>1. CASE k \in 1..n
      <4>1. k + 1 \in 1..(n + 1) /\ k \in 1..(n + 1)
        BY <3>1
      <4>2. old[k + 1] = Hop(old[k]).next
        BY <2>1, <3>1 DEF IsChain
      <4>3. QED
        BY <2>2, <4>1, <4>2
    <3>2. CASE k = n + 1
      <4>1. k + 1 = n + 2 /\ at[k] = old[n + 1]
        BY <2>2, <3>2
      <4>2. QED
        BY <2>3, <3>2, <4>1
    <3>3. QED
      BY <3>1, <3>2
  <2>5. at[1] = target
    BY <2>1, <2>2 DEF IsChain
  <2>6. IsChain(at, n + 1, target)
    BY <2>4, <2>5 DEF IsChain
  <2>7. QED
    BY <2>6
<1> HIDE DEF P
<1>3. m \in P
  BY <1>1, <1>2, EveryNat
<1>4. QED
  BY <1>3 DEF P

\* The hops of resolve_key are those of any such chain.
IsHops(hop, target) ==
  hop = [n \in 1..MaxForwardDepth |-> IF n = 1 THEN Hop(target) ELSE Hop(hop[n - 1].next)]

LEMMA HopsAreChain ==
  ASSUME NEW target, NEW m \in Nat, MaxForwardDepth <= m, NEW at, IsChain(at, m, target)
  PROVE  /\ \E hop : IsHops(hop, target)
         /\ \A hop : IsHops(hop, target) => \A n \in 1..MaxForwardDepth : hop[n] = Hop(at[n])
<1> DEFINE D == MaxForwardDepth
<1>1. D \in Nat \ {0}
  BY DepthAssumption
<1> HIDE DEF D
<1>2. \E hop : IsHops(hop, target)
  <2> DEFINE hop == [n \in 1..D |-> Hop(at[n])]
  <2>1. ASSUME NEW n \in 1..D
        PROVE  Hop(at[n]) = IF n = 1 THEN Hop(target) ELSE Hop(hop[n - 1].next)
    <3>1. CASE n = 1
      BY <3>1 DEF IsChain
    <3>2. CASE n # 1
      <4>1. n - 1 \in 1..D /\ n - 1 \in 1..m /\ (n - 1) + 1 = n
        BY <1>1, <3>2 DEF D
      <4>2. at[(n - 1) + 1] = Hop(at[n - 1]).next
        BY <4>1 DEF IsChain
      <4>3. hop[n - 1] = Hop(at[n - 1])
        BY <4>1
      <4>4. QED
        BY <3>2, <4>1, <4>2, <4>3
    <3>3. QED
      BY <3>1, <3>2
  <2>2. hop = [n \in 1..D |-> IF n = 1 THEN Hop(target) ELSE Hop(hop[n - 1].next)]
    <3> DEFINE R(n) == IF n = 1 THEN Hop(target) ELSE Hop(hop[n - 1].next)
    <3>1. \A n \in 1..D : Hop(at[n]) = R(n)
      BY <2>1
    <3> HIDE DEF R
    <3>2. [n \in 1..D |-> Hop(at[n])] = [n \in 1..D |-> R(n)]
      BY <3>1
    <3>3. QED
      BY <3>2 DEF R
  <2> HIDE DEF hop
  <2>3. IsHops(hop, target)
    BY <2>2 DEF IsHops, D
  <2>4. QED
    BY <2>3
<1>3. ASSUME NEW hop, IsHops(hop, target)
      PROVE  \A n \in 1..D : hop[n] = Hop(at[n])
  <2>1. \A n \in 1..D : hop[n] = IF n = 1 THEN Hop(target) ELSE Hop(hop[n - 1].next)
    <3> DEFINE R(n) == IF n = 1 THEN Hop(target) ELSE Hop(hop[n - 1].next)
    <3>1. hop = [n \in 1..D |-> R(n)]
      BY <1>3 DEF IsHops, D
    <3> HIDE DEF R
    <3>2. \A n \in 1..D : hop[n] = R(n)
      BY <3>1
    <3>3. QED
      BY <3>2 DEF R
  <2> DEFINE P == {n \in Nat : n + 1 <= D => hop[n + 1] = Hop(at[n + 1])}
  <2>2. 0 \in P
    <3>1. hop[1] = Hop(target) /\ at[1] = target
      BY <1>1, <2>1 DEF IsChain
    <3>2. QED
      BY <3>1
  <2>3. ASSUME NEW n \in Nat, n \in P
        PROVE  n + 1 \in P
    <3>1. SUFFICES ASSUME (n + 1) + 1 <= D
                   PROVE  hop[(n + 1) + 1] = Hop(at[(n + 1) + 1])
      OBVIOUS
    <3>2. hop[n + 1] = Hop(at[n + 1])
      BY <1>1, <2>3, <3>1
    <3>3. (n + 1) + 1 \in 1..D /\ (n + 1) + 1 # 1 /\ ((n + 1) + 1) - 1 = n + 1 /\ n + 1 \in 1..m
      BY <1>1, <3>1 DEF D
    <3>4. hop[(n + 1) + 1] = Hop(hop[n + 1].next)
      BY <2>1, <3>3
    <3>5. at[(n + 1) + 1] = Hop(at[n + 1]).next
      BY <3>3 DEF IsChain
    <3>6. QED
      BY <3>2, <3>4, <3>5
  <2> HIDE DEF P
  <2>4. \A n \in Nat : n \in P
    BY <2>2, <2>3, EveryNat
  <2>5. ASSUME NEW n \in 1..D
        PROVE  hop[n] = Hop(at[n])
    <3>1. n - 1 \in Nat /\ (n - 1) + 1 = n /\ n <= D
      BY <1>1
    <3>2. n - 1 \in P
      BY <2>4, <3>1
    <3>3. QED
      BY <3>1, <3>2 DEF P
  <2>6. QED
    BY <2>5
<1>4. QED
  BY <1>2, <1>3 DEF D

LEMMA KeyResolves ==
  ASSUME NEW target, NEW m \in Nat, MaxForwardDepth <= m, NEW at, IsChain(at, m, target)
  PROVE  \/ /\ ResolveKey(target) = Nowhere
            /\ \A n \in 1..MaxForwardDepth : Hop(at[n]).address = Nowhere
         \/ \E n \in 1..MaxForwardDepth :
              /\ ResolveKey(target) = Hop(at[n]).address /\ Hop(at[n]).address # Nowhere
              /\ \A k \in 1..(n - 1) : Hop(at[k]).address = Nowhere
<1> DEFINE D == MaxForwardDepth
           hop == CHOOSE h : IsHops(h, target)
           found == {n \in 1..D : hop[n].address # Nowhere}
<1>1. \A n \in 1..D : hop[n] = Hop(at[n])
  BY HopsAreChain
<1>2. ResolveKey(target) = IF found = {} THEN Nowhere ELSE hop[First(found)].address
  BY DEF ResolveKey, IsHops
<1> HIDE DEF hop
<1>3. found = {n \in 1..D : Hop(at[n]).address # Nowhere}
  BY <1>1
<1>4. CASE found = {}
  BY <1>2, <1>3, <1>4
<1>5. CASE found # {}
  <2>1. found \in SUBSET {i \in Int : i >= 1} /\ found \subseteq 1..D
    BY DepthAssumption
  <2> DEFINE n == First(found)
  <2>2. n \in found /\ \A k \in found : n <= k
    <3> HIDE DEF found
    <3>1. QED
      BY <1>5, <2>1, FirstOfNats
  <2> HIDE DEF n
  <2>3. n \in 1..D /\ Hop(at[n]).address # Nowhere
    BY <1>3, <2>2
  <2>4. ResolveKey(target) = Hop(at[n]).address
    BY <1>1, <1>2, <1>5, <2>3 DEF n
  <2>5. ASSUME NEW k \in 1..(n - 1)
        PROVE  Hop(at[k]).address = Nowhere
    <3>1. k \in 1..D /\ ~ (n <= k)
      BY <2>3, DepthAssumption
    <3>2. k \notin found
      BY <2>2, <3>1
    <3>3. QED
      BY <1>3, <3>1, <3>2
  <2>6. QED
    BY <2>3, <2>4, <2>5
<1>6. QED
  BY <1>4, <1>5

\* What is the same at two places of a chain is the same further on.
LEMMA ChainRepeats ==
  ASSUME NEW target, NEW m \in Nat, NEW at, IsChain(at, m, target),
         NEW i \in 1..(m + 1), NEW j \in 1..(m + 1), at[i] = at[j],
         NEW d \in Nat, i + d <= m + 1, j + d <= m + 1
  PROVE  at[i + d] = at[j + d]
<1> DEFINE P == {e \in Nat : e <= d => at[i + e] = at[j + e]}
<1>1. 0 \in P
  OBVIOUS
<1>2. ASSUME NEW e \in Nat, e \in P
      PROVE  e + 1 \in P
  <2>1. SUFFICES ASSUME e + 1 <= d
                 PROVE  at[i + (e + 1)] = at[j + (e + 1)]
    OBVIOUS
  <2>2. at[i + e] = at[j + e]
    BY <1>2, <2>1
  <2>3. i + e \in 1..m /\ j + e \in 1..m /\ i + (e + 1) = (i + e) + 1 /\ j + (e + 1) = (j + e) + 1
    BY <2>1
  <2>4. at[(i + e) + 1] = Hop(at[i + e]).next /\ at[(j + e) + 1] = Hop(at[j + e]).next
    BY <2>3 DEF IsChain
  <2>5. QED
    BY <2>2, <2>3, <2>4
<1> HIDE DEF P
<1>3. d \in P
  BY <1>1, <1>2, EveryNat
<1>4. QED
  BY <1>3 DEF P

\* A chain that leads to an address has no garbled target and comes to no key twice, so no
\* hop of it but the first is without a forwarder of its own.
LEMMA ChainIsWhole ==
  ASSUME Counted, DefinitionsSound, NEW target, NEW m \in Nat, NEW at, IsChain(at, m, target),
         NEW n \in 1..m, Hop(at[n]).address # Nowhere, \A k \in 1..(n - 1) : Hop(at[k]).address = Nowhere
  PROVE  /\ \A k \in 1..n : at[k] # Garbled
         /\ \A i, j \in 1..n : i # j => at[i] # at[j]
<1>1. ASSUME NEW k \in 1..n, at[k] = Garbled
      PROVE  FALSE
  <2> DEFINE P == {d \in Nat : k + d <= n => at[k + d] = Garbled}
  <2>1. 0 \in P
    BY <1>1
  <2>2. ASSUME NEW d \in Nat, d \in P
        PROVE  d + 1 \in P
    <3>1. SUFFICES ASSUME k + (d + 1) <= n
                   PROVE  at[k + (d + 1)] = Garbled
      OBVIOUS
    <3>2. at[k + d] = Garbled /\ k + d \in 1..m /\ k + (d + 1) = (k + d) + 1
      BY <2>2, <3>1
    <3>3. at[(k + d) + 1] = Hop(Garbled).next
      BY <3>2 DEF IsChain
    <3>4. QED
      BY <3>2, <3>3, GarbledEndsNowhere
  <2> HIDE DEF P
  <2>3. n - k \in Nat /\ k + (n - k) = n
    OBVIOUS
  <2>4. n - k \in P
    BY <2>1, <2>2, <2>3, EveryNat
  <2>5. at[n] = Garbled
    BY <2>3, <2>4 DEF P
  <2>6. QED
    BY <2>5, GarbledEndsNowhere
<1>2. ASSUME NEW i \in 1..n, NEW j \in 1..n, i < j, at[i] = at[j]
      PROVE  FALSE
  <2> DEFINE d == n - j
  <2>1. /\ d \in Nat /\ i + d <= m + 1 /\ j + d = n /\ j + d <= m + 1
        /\ i \in 1..(m + 1) /\ j \in 1..(m + 1) /\ i + d \in 1..(n - 1)
    BY <1>2
  <2> HIDE DEF d
  <2>2. at[i + d] = at[j + d]
    BY <1>2, <2>1, ChainRepeats
  <2>3. Hop(at[i + d]).address = Nowhere
    BY <2>1
  <2>4. QED
    BY <2>1, <2>2, <2>3
<1>3. \A i, j \in 1..n : i # j => i < j \/ j < i
  OBVIOUS
<1>4. QED
  BY <1>1, <1>2, <1>3

\* The same of a chain that ends at its n-th place.
EndsAt(at, n) == Hop(at[n]).address # Nowhere /\ \A k \in 1..(n - 1) : Hop(at[k]).address = Nowhere

LEMMA ChainIsApart ==
  ASSUME Counted, DefinitionsSound, NEW target, NEW m \in Nat, NEW at, IsChain(at, m, target),
         NEW n \in 1..m, EndsAt(at, n)
  PROVE  \A i, j \in 1..n : i # j => at[i] # at[j]
<1>1. Hop(at[n]).address # Nowhere /\ \A k \in 1..(n - 1) : Hop(at[k]).address = Nowhere
  BY DEF EndsAt
<1>2. QED
  BY <1>1, ChainIsWhole

LEMMA ChainLeadsOn ==
  ASSUME Counted, DefinitionsSound, NEW target, NEW m \in Nat, NEW at, IsChain(at, m, target),
         NEW k \in 1..m, Hop(at[k]).address = Nowhere, at[k + 1] # Garbled
  PROVE  /\ at[k + 1] \in Leads(at[k])
         /\ \E l \in 1..Len(forwarders) : forwarders[l].target = at[k + 1]
<1>1. at[k + 1] = Hop(at[k]).next
  BY DEF IsChain
<1>2. PICK l \in 1..Len(forwarders) :
        /\ forwarders[l].source.module = at[k][1] /\ at[k][2] \in KeysOf(forwarders[l].source)
        /\ forwarders[l].target = at[k + 1]
  BY <1>1, HopLeadsOn
<1>3. forwarders[l] \in ToSet(forwarders)
  <2>1. DOMAIN forwarders = 1..Len(forwarders)
    BY SeqFacts DEF Counted
  <2>2. QED
    BY <2>1 DEF ToSet
<1>4. QED
  BY <1>2, <1>3 DEF Leads

LEMMA ChainIsShort ==
  ASSUME Counted, DefinitionsSound, NEW target, NEW m \in Nat, NEW at, IsChain(at, m, target),
         NEW n \in 1..m, Hop(at[n]).address # Nowhere, \A k \in 1..(n - 1) : Hop(at[k]).address = Nowhere
  PROVE  n <= Len(forwarders) + 1
<1> DEFINE L == Len(forwarders)
           S == 2..n
           T == 1..L
           f == [k \in S |-> CHOOSE l \in T : forwarders[l].target = at[k]]
<1>1. L \in Nat
  BY SeqFacts DEF Counted
<1>2. ASSUME NEW k \in S
      PROVE  f[k] \in T /\ forwarders[f[k]].target = at[k]
  <2>1. k - 1 \in 1..m /\ k - 1 \in 1..(n - 1) /\ (k - 1) + 1 = k /\ k \in 1..n
    OBVIOUS
  <2>2. Hop(at[k - 1]).address = Nowhere /\ at[k] # Garbled
    BY <2>1, ChainIsWhole
  <2>3. \E l \in T : forwarders[l].target = at[k]
    BY <2>1, <2>2, ChainLeadsOn
  <2> HIDE DEF T
  <2>4. QED
    BY <2>3
<1>3. ASSUME NEW i \in S, NEW j \in S, i # j
      PROVE  f[i] # f[j]
  <2>1. i \in 1..n /\ j \in 1..n
    OBVIOUS
  <2>2. at[i] # at[j]
    BY <1>3, <2>1, ChainIsWhole
  <2>3. QED
    BY <1>2, <2>2
<1> HIDE DEF f
<1>4. f \in [S -> T]
  <2>1. f = [k \in S |-> f[k]]
    BY DEF f
  <2> HIDE DEF S, T
  <2>2. QED
    BY <1>2, <2>1
<1>5. IsFiniteSet(S) /\ Cardinality(S) = n - 1 /\ IsFiniteSet(T) /\ Cardinality(T) = L
  <2>1. IsFiniteSet(2..n) /\ Cardinality(2..n) = IF 2 > n THEN 0 ELSE n - 2 + 1
    BY FS_Interval
  <2>2. IsFiniteSet(1..L) /\ Cardinality(1..L) = IF 1 > L THEN 0 ELSE L - 1 + 1
    <3> HIDE DEF L
    <3>1. QED
      BY <1>1, FS_Interval
  <2>3. QED
    BY <1>1, <2>1, <2>2
<1> HIDE DEF S, T
<1>6. ~ (Cardinality(T) < Cardinality(S))
  BY <1>3, <1>4, <1>5, FS_PigeonHole
<1>7. QED
  BY <1>1, <1>5, <1>6

\* What is found in so many rounds, and that the rounds go on.
Rounds == 2 * Len(forwarders) + 2
Reaches(r, start) ==
  /\ r[0] = {start}
  /\ \A j \in 1..Rounds : r[j] = r[j - 1] \cup UNION {Leads(key) : key \in r[j - 1]}
  /\ \A j \in 0..Rounds : r[j] \subseteq Reached(start)
  /\ r[Rounds] = Reached(start)

LEMMA ReachedInRounds ==
  ASSUME Len(forwarders) \in Nat, NEW start
  PROVE  \E r : Reaches(r, start)
<1> DEFINE n == Rounds
           q == [k \in 1..n |-> k]
<1>1. PICK r : Steps(r, n, "reached", {start}, q) /\ r[n] = Reached(start)
  BY ReachedSteps DEF Rounds
<1>2. r[0] = {start} /\ \A j \in 1..n : r[j] = r[j - 1] \cup UNION {Leads(key) : key \in r[j - 1]}
  <2> HIDE DEF q, n
  <2>1. QED
    BY <1>1 DEF Steps, Folded
<1>3. n \in Nat
  BY DEF Rounds
<1> HIDE DEF n, q
<1> DEFINE P == {d \in Nat : d <= n => r[n - d] \subseteq r[n]}
<1>4. 0 \in P
  BY <1>3
<1>5. ASSUME NEW d \in Nat, d \in P
      PROVE  d + 1 \in P
  <2>1. SUFFICES ASSUME d + 1 <= n
                 PROVE  r[n - (d + 1)] \subseteq r[n]
    OBVIOUS
  <2>2. n - d \in 1..n /\ (n - d) - 1 = n - (d + 1) /\ d <= n
    BY <1>3, <2>1
  <2>3. r[n - (d + 1)] \subseteq r[n - d]
    BY <1>2, <2>2
  <2>4. r[n - d] \subseteq r[n]
    BY <1>5, <2>2
  <2>5. QED
    BY <2>3, <2>4
<1> HIDE DEF P
<1>6. \A d \in Nat : d \in P
  BY <1>4, <1>5, EveryNat
<1>7. ASSUME NEW j \in 0..n
      PROVE  r[j] \subseteq r[n]
  <2>1. n - j \in Nat /\ n - j <= n /\ n - (n - j) = j
    BY <1>3
  <2>2. n - j \in P
    BY <1>6, <2>1
  <2>3. QED
    BY <2>1, <2>2 DEF P
<1>8. QED
  BY <1>1, <1>2, <1>7 DEF Reaches, n

\* What the loader finds, told by the exports.
LEMMA FoundBy ==
  ASSUME parsed = Len(modules), Counted, NEW module, NEW key, NEW y \in Exported, IsRead(y),
         NEW at \in Reached(<<module, key>>), at[1] = y[2].module, at[2] \in KeysOf(y[2])
  PROVE  y[1] \in LoaderFinds(module, key)
<1>1. DOMAIN modules = 1..parsed
  BY SeqFacts DEF Counted
<1>2. Exported = UNION {ToSet(Direct(modules[i])) : i \in DOMAIN modules}
  BY <1>1 DEF Exported
<1>3. QED
  BY <1>2 DEF LoaderFinds

\* An address a key resolves to is one the loader finds, for the key itself and for the
\* export it is the forwarder of.
LEMMA ResolvedIsFound ==
  ASSUME parsed = Len(modules), Counted, DefinitionsSound, NEW target, ResolveKey(target) # Nowhere,
         NEW start, start = <<start[1], start[2]>>, start = target \/ target \in Leads(start)
  PROVE  ResolveKey(target) \in LoaderFinds(start[1], start[2])
<1>0. MaxForwardDepth \in Nat \ {0}
  BY DepthAssumption
<1>1. PICK at : IsChain(at, MaxForwardDepth, target)
  BY <1>0, ChainExists
<1>2. PICK n \in 1..MaxForwardDepth :
        /\ ResolveKey(target) = Hop(at[n]).address /\ Hop(at[n]).address # Nowhere
        /\ \A k \in 1..(n - 1) : Hop(at[k]).address = Nowhere
  <2>1. MaxForwardDepth <= MaxForwardDepth
    BY <1>0
  <2>2. QED
    BY <1>0, <1>1, <2>1, KeyResolves
<1>3. Len(forwarders) \in Nat
  BY SeqFacts DEF Counted
<1>4. n <= Len(forwarders) + 1
  BY <1>0, <1>1, <1>2, ChainIsShort
<1>5. Rounds \in Nat /\ n + 1 <= Rounds
  BY <1>3, <1>4 DEF Rounds
<1>6. PICK r : Reaches(r, start)
  BY <1>3, ReachedInRounds
<1> DEFINE P == {k \in Nat : k + 1 <= n => at[k + 1] \in r[k + 1]}
<1>7. 0 \in P
  <2>1. r[1] = r[0] \cup UNION {Leads(key) : key \in r[0]} /\ r[0] = {start}
    BY <1>5, <1>6 DEF Reaches
  <2>2. at[1] = target
    BY <1>1 DEF IsChain
  <2>3. QED
    BY <2>1, <2>2
<1>8. ASSUME NEW k \in Nat, k \in P
      PROVE  k + 1 \in P
  <2>1. SUFFICES ASSUME (k + 1) + 1 <= n
                 PROVE  at[(k + 1) + 1] \in r[(k + 1) + 1]
    OBVIOUS
  <2> DEFINE l == k + 1
  <2>2. l \in 1..MaxForwardDepth /\ l \in 1..(n - 1) /\ l + 1 \in 1..n /\ l + 1 \in 1..Rounds /\ (l + 1) - 1 = l /\ l <= n
    BY <1>0, <1>5, <2>1
  <2>3. at[l] \in r[l]
    BY <1>8, <2>2
  <2> HIDE DEF l
  <2>4. Hop(at[l]).address = Nowhere /\ at[l + 1] # Garbled
    BY <1>0, <1>1, <1>2, <2>2, ChainIsWhole
  <2>5. at[l + 1] \in Leads(at[l])
    BY <1>0, <1>1, <2>2, <2>4, ChainLeadsOn
  <2>6. r[l + 1] = r[l] \cup UNION {Leads(key) : key \in r[l]}
    BY <1>6, <2>2 DEF Reaches
  <2>7. at[l + 1] \in r[l + 1]
    BY <2>3, <2>5, <2>6
  <2>8. QED
    BY <2>7 DEF l
<1> HIDE DEF P
<1>9. at[n] \in r[n]
  <2>1. n - 1 \in Nat /\ (n - 1) + 1 = n
    OBVIOUS
  <2>2. n - 1 \in P
    BY <1>7, <1>8, <2>1, EveryNat
  <2>3. QED
    BY <2>1, <2>2 DEF P
<1>10. PICK y \in Exported :
         /\ y[1] = Hop(at[n]).address /\ at[n][2] \in KeysOf(y[2])
         /\ \/ y[2].module = at[n][1]
            \/ at[n][1] \in ApiSets /\ \E i \in DOMAIN modules : modules[i].name = y[2].module
  BY <1>2, HopEnds
<1>11. IsRead(y)
  BY DEF DefinitionsSound
<1>12. CASE y[2].module = at[n][1]
  <2>1. at[n] \in Reached(start)
    BY <1>5, <1>6, <1>9 DEF Reaches
  <2>2. at[n] \in Reached(<<start[1], start[2]>>)
    BY <2>1
  <2>3. QED
    BY <1>2, <1>10, <1>11, <1>12, <2>2, FoundBy
<1>13. CASE at[n][1] \in ApiSets /\ \E i \in DOMAIN modules : modules[i].name = y[2].module
  <2> DEFINE host == <<y[2].module, at[n][2]>>
  <2>1. host \in Leads(at[n])
    BY <1>13 DEF Leads, HostsOf
  <2>2. r[n + 1] = r[n] \cup UNION {Leads(key) : key \in r[n]} /\ r[n + 1] \subseteq Reached(start)
    <3>1. n + 1 \in 1..Rounds /\ n + 1 \in 0..Rounds /\ (n + 1) - 1 = n
      BY <1>5
    <3>2. QED
      BY <1>6, <3>1 DEF Reaches
  <2>3. host \in Reached(<<start[1], start[2]>>)
    BY <1>9, <2>1, <2>2
  <2>4. host[1] = y[2].module /\ host[2] = at[n][2]
    OBVIOUS
  <2> HIDE DEF host
  <2>5. QED
    BY <1>2, <1>10, <1>11, <2>3, <2>4, FoundBy
<1>14. QED
  BY <1>10, <1>12, <1>13

-----------------------------------------------------------------------------
LEMMA IndexBegins ==
  ASSUME Init
  PROVE  EInv
<1>1. /\ image \in Images /\ modules = image.process /\ parsed = 0 /\ followed = 0 /\ lost = {}
      /\ addresses = <<>> /\ definitions = <<>> /\ forwarders = <<>>
  BY DEF Init, ExportsInit
<1>2. modules \in Seq(ToSet(modules)) /\ \A i \in DOMAIN modules : IsModule(modules[i])
  <2>1. modules \in Seq(ToSet(modules)) /\ \A l \in ToSet(modules) : IsModule(l)
    BY <1>1, ImagesAssumption
  <2>2. QED
    BY <2>1 DEF ToSet
<1>3. Counted
  <2>1. Len(modules) \in Nat
    BY <1>2, SeqFacts
  <2>2. <<>> \in Seq(ToSet(<<>>)) /\ DOMAIN <<>> = {} /\ Len(<<>>) = 0
    OBVIOUS
  <2>3. QED
    BY <1>1, <1>2, <2>1, <2>2 DEF Counted
<1>4. Exported = {}
  BY <1>1 DEF Exported
<1>5. DefinitionsSound
  BY <1>1, <1>4, FS_EmptySet DEF DefinitionsSound
<1>6. AddressesSound /\ Settled
  BY <1>1 DEF AddressesSound, WellListed, Settled
<1>7. QED
  BY <1>3, <1>5, <1>6 DEF EInv

\* A forwarder ends where it ended as long as the forwarders and definitions stay.
LEMMA EndsStay ==
  ASSUME forwarders' = forwarders, definitions' = definitions
  PROVE  \A k : EndOf(k)' = EndOf(k)
BY DEF EndOf, ResolveKey, Hop, Pending, DefinedAnywhere

LEMMA IndexStays ==
  ASSUME EInv, UNCHANGED exportVars
  PROVE  EInv'
<1>1. /\ modules' = modules /\ parsed' = parsed /\ addresses' = addresses /\ definitions' = definitions
      /\ forwarders' = forwarders /\ followed' = followed /\ lost' = lost
  BY DEF exportVars
<1>2. \A k : EndOf(k)' = EndOf(k)
  BY <1>1, EndsStay
<1>3. Exported' = Exported
  BY <1>1 DEF Exported
<1>4. Counted'
  BY <1>1 DEF EInv, Counted
<1>5. DefinitionsSound'
  BY <1>1, <1>3 DEF EInv, DefinitionsSound, IsRead
<1>6. AddressesSound'
  BY <1>1, <1>2, <1>3 DEF EInv, AddressesSound
<1>7. Settled'
  BY <1>1, <1>2 DEF EInv, Settled
<1>8. QED
  BY <1>4, <1>5, <1>6, <1>7 DEF EInv

LEMMA NextIsInside ==
  ASSUME NEW n \in Nat, NEW i \in 0..n, i < n
  PROVE  i \in Nat /\ i + 1 \in 1..n
OBVIOUS

\* The next module's exports are added.
LEMMA ParseKeeps ==
  ASSUME EInv, ParseModule
  PROVE  EInv'
<1> DEFINE m == modules[parsed + 1]
           q == Direct(m)
           fs == Forwards(m)
           n == Len(q)
<1>1. /\ parsed < Len(modules) /\ parsed' = parsed + 1 /\ modules' = modules /\ followed' = followed /\ lost' = lost
      /\ addresses' = FoldLeft(AddAddress, addresses, q)
      /\ definitions' = FoldLeft(AddDefinition, definitions, q)
      /\ forwarders' = forwarders \o fs
  BY DEF ParseModule
<1>2. /\ Len(modules) \in Nat /\ DOMAIN modules = 1..Len(modules) /\ parsed \in Nat /\ followed = 0
      /\ parsed + 1 \in DOMAIN modules /\ IsModule(m)
  <2>1. Len(modules) \in Nat /\ DOMAIN modules = 1..Len(modules)
    BY SeqFacts DEF EInv, Counted
  <2>2. parsed \in 0..Len(modules) /\ (followed # 0 => parsed = Len(modules))
    BY DEF EInv, Counted
  <2>3. parsed + 1 \in DOMAIN modules /\ followed = 0 /\ parsed \in Nat
    <3>1. parsed < Len(modules)
      BY <1>1
    <3> HIDE DEF m, q, fs, n
    <3>2. followed = 0
      BY <2>2, <3>1
    <3>3. parsed \in Nat /\ parsed + 1 \in 1..Len(modules)
      BY <2>1, <2>2, <3>1, NextIsInside
    <3>4. QED
      BY <2>1, <3>2, <3>3
  <2>4. IsModule(m)
    BY <2>3 DEF EInv, Counted
  <2>5. QED
    BY <2>1, <2>3, <2>4
<1>3. q \in Seq(ToSet(q)) /\ n \in Nat /\ DOMAIN q = 1..n /\ \A k \in 1..n : IsExport(q[k], m)
  <2>1. q \in Seq(ToSet(q)) /\ \A k \in 1..n : IsExport(q[k], m)
    BY <1>2, DirectFacts
  <2>2. QED
    BY <2>1, SeqFacts
<1>4. Exported' = Exported \cup ToSet(q)
  <2>1. Exported' = UNION {ToSet(Direct(modules[i])) : i \in 1..(parsed + 1)}
    BY <1>1 DEF Exported
  <2>2. 1..(parsed + 1) = 1..parsed \cup {parsed + 1}
    BY <1>2
  <2>3. QED
    BY <2>1, <2>2 DEF Exported
<1>5. ToSet(q) = {q[k] : k \in 1..n}
  BY <1>3 DEF ToSet
<1>6. Counted'
  <2>1. fs \in Seq(ToSet(fs)) /\ \A k \in 1..Len(fs) : IsForwarder(fs[k])
    BY <1>2, ForwardsFacts
  <2>2. forwarders \in Seq(ToSet(forwarders)) /\ DOMAIN forwarders = 1..Len(forwarders) /\ Len(forwarders) \in Nat
    BY SeqFacts DEF EInv, Counted
  <2>3. Joined(forwarders', forwarders, fs)
    <3> HIDE DEF fs
    <3>1. QED
      BY <1>1, <2>1, <2>2, JoinFacts
  <2> HIDE DEF fs, m
  <2>4. ASSUME NEW k \in DOMAIN forwarders'
        PROVE  IsForwarder(forwarders'[k])
    <3>1. DOMAIN forwarders' = 1..(Len(forwarders) + Len(fs)) /\ Len(fs) \in Nat
      BY <2>3 DEF Joined
    <3>2. CASE k \in 1..Len(forwarders)
      BY <2>2, <2>3, <3>2 DEF Joined, EInv, Counted
    <3>3. CASE k \notin 1..Len(forwarders)
      <4>1. k - Len(forwarders) \in 1..Len(fs) /\ Len(forwarders) + (k - Len(forwarders)) = k
        BY <2>2, <3>1, <3>3
      <4> DEFINE j == k - Len(forwarders)
      <4> HIDE DEF j
      <4>2. j \in 1..Len(fs) /\ Len(forwarders) + j = k
        BY <4>1 DEF j
      <4>3. forwarders'[k] = fs[j]
        BY <2>3, <4>2 DEF Joined
      <4>4. QED
        BY <2>1, <4>2, <4>3
    <3>4. QED
      BY <3>2, <3>3
  <2>5. Len(forwarders') \in Nat /\ forwarders' \in Seq(ToSet(forwarders'))
    BY <2>3 DEF Joined
  <2>6. /\ modules \in Seq(ToSet(modules)) /\ \A i \in DOMAIN modules : IsModule(modules[i])
        /\ lost \subseteq 1..followed
    BY DEF EInv, Counted
  <2>7. parsed' \in 0..Len(modules') /\ followed' = 0 /\ 0 \in 0..Len(forwarders')
    BY <1>1, <1>2, <2>5
  <2>8. QED
    BY <1>1, <2>4, <2>5, <2>6, <2>7 DEF Counted
<1>7. DefinitionsSound'
  <2> HIDE DEF q, m, n
  <2>1. Defines(definitions', definitions, q, n)
    BY <1>1, <1>3, DefinitionsAdded DEF EInv, DefinitionsSound
  <2>2. ASSUME NEW y \in Exported'
        PROVE  IsRead(y)' /\ \A key \in KeysOf(y[2]) : <<y[2].module, key>> \in DOMAIN definitions'
    <3>1. CASE y \in Exported
      <4>1. IsRead(y)' /\ \A key \in KeysOf(y[2]) : <<y[2].module, key>> \in DOMAIN definitions
        BY <1>1, <3>1 DEF EInv, DefinitionsSound, IsRead
      <4>2. QED
        BY <2>1, <4>1 DEF Defines
    <3>2. CASE y \in ToSet(q)
      <4>1. PICK k \in 1..n : y = q[k]
        BY <1>5, <3>2
      <4>2. IsExport(y, m)
        BY <1>3, <4>1
      <4>3. IsRead(y)'
        BY <1>1, <1>2, <4>2 DEF IsRead, IsExport, m
      <4>4. \A key \in KeysOf(y[2]) : <<y[2].module, key>> \in DOMAIN definitions'
        BY <2>1, <4>1 DEF Defines
      <4>5. QED
        BY <4>3, <4>4
    <3>3. QED
      BY <1>4, <3>1, <3>2
  <2>3. ASSUME NEW d \in DOMAIN definitions'
        PROVE  \E y \in Exported' : y[1] = definitions'[d] /\ d[1] = y[2].module /\ d[2] \in KeysOf(y[2])
    <3>1. CASE d \in DOMAIN definitions /\ definitions'[d] = definitions[d]
      BY <1>4, <3>1 DEF EInv, DefinitionsSound
    <3>2. CASE \E k \in 1..n : definitions'[d] = q[k][1] /\ \E key \in KeysOf(q[k][2]) : d = <<q[k][2].module, key>>
      <4>1. PICK k \in 1..n : definitions'[d] = q[k][1] /\ \E key \in KeysOf(q[k][2]) : d = <<q[k][2].module, key>>
        BY <3>2
      <4>2. PICK key \in KeysOf(q[k][2]) : d = <<q[k][2].module, key>>
        BY <4>1
      <4>3. d[1] = q[k][2].module /\ d[2] = key
        BY <4>2
      <4>4. q[k] \in Exported'
        BY <1>4, <1>5
      <4>5. QED
        BY <4>1, <4>3, <4>4
    <3>3. QED
      BY <2>1, <3>1, <3>2 DEF Defines
  <2>4. IsFiniteSet(DOMAIN definitions')
    BY <2>1 DEF Defines
  <2>5. QED
    BY <2>2, <2>3, <2>4 DEF DefinitionsSound
<1>8. AddressesSound'
  <2> HIDE DEF q, m, n
  <2>1. WellListed(addresses)
    BY DEF EInv, AddressesSound
  <2>2. Indexed(addresses', addresses, q, n)
    BY <1>1, <1>3, <2>1, AddressesAdded
  <2>3. WellListed(addresses)'
    BY <2>2 DEF Indexed, WellListed
  <2>4. ASSUME NEW a \in DOMAIN addresses', NEW x \in ToSet(addresses'[a])
        PROVE  <<a, x>> \in Exported'
    <3>1. CASE a \in DOMAIN addresses /\ x \in ToSet(addresses[a])
      <4>1. <<a, x>> \in Exported
        BY <1>2, <3>1 DEF EInv, AddressesSound
      <4>2. QED
        BY <1>4, <4>1
    <3>2. CASE \E k \in 1..n : q[k][1] = a /\ q[k][2] = x
      <4>1. PICK k \in 1..n : q[k][1] = a /\ q[k][2] = x
        BY <3>2
      <4>2. q[k] = <<a, x>>
        BY <1>3, <4>1 DEF IsExport
      <4>3. QED
        BY <1>4, <1>5, <4>2
    <3>3. QED
      BY <2>2, <3>1, <3>2 DEF Indexed
  <2>5. QED
    BY <2>3, <2>4 DEF AddressesSound
<1>9. Settled'
  BY <1>1, <1>2 DEF Settled
<1>10. QED
  BY <1>6, <1>7, <1>8, <1>9 DEF EInv

\* The next forwarder is followed.
LEMMA FollowKeeps ==
  ASSUME EInv, FollowForwarder
  PROVE  EInv'
<1> DEFINE n == followed + 1
           f == forwarders[n]
           a == EndOf(n)
<1>1. /\ parsed = Len(modules) /\ followed < Len(forwarders) /\ followed' = n
      /\ modules' = modules /\ parsed' = parsed /\ definitions' = definitions /\ forwarders' = forwarders
      /\ \/ a = Nowhere /\ lost' = lost \cup {n} /\ addresses' = addresses
         \/ a # Nowhere /\ lost' = lost /\ addresses' = AddAddress(addresses, <<a, f.source>>)
  BY DEF FollowForwarder, EndOf
<1>2. Len(forwarders) \in Nat /\ followed \in Nat /\ n \in 1..Len(forwarders) /\ lost \subseteq 1..followed
      /\ 1..n = 1..followed \cup {n} /\ n \notin 1..followed
  <2>1. Len(forwarders) \in Nat
    BY SeqFacts DEF EInv, Counted
  <2>2. followed \in 0..Len(forwarders) /\ lost \subseteq 1..followed
    BY DEF EInv, Counted
  <2>3. QED
    BY <1>1, <2>1, <2>2
<1>3. \A k : EndOf(k)' = EndOf(k)
  BY <1>1, EndsStay
<1>4. Exported' = Exported
  BY <1>1 DEF Exported
<1>5. Counted'
  <2> HIDE DEF n, a, f
  <2>1. lost' \subseteq 1..n
    <3>1. lost' = lost \cup {n} \/ lost' = lost
      BY <1>1
    <3>2. QED
      BY <1>2, <3>1
  <2>3. n \in 0..Len(forwarders)
    BY <1>2
  <2>2. QED
    BY <1>1, <2>1, <2>3 DEF EInv, Counted
<1>6. DefinitionsSound'
  BY <1>1, <1>4 DEF EInv, DefinitionsSound, IsRead
<1> HIDE DEF n, a
<1>7. CASE a = Nowhere /\ lost' = lost \cup {n} /\ addresses' = addresses
  <2>1. AddressesSound'
    BY <1>1, <1>2, <1>3, <1>4, <1>7 DEF EInv, AddressesSound
  <2>2. Settled'
    <3>1. ASSUME NEW k \in 1..n
          PROVE  IF k \in lost' THEN EndOf(k) = Nowhere
                 ELSE EndOf(k) # Nowhere /\ EndOf(k) \in DOMAIN addresses' /\ forwarders[k].source \in ToSet(addresses'[EndOf(k)])
      <4>1. CASE k = n
        BY <1>7, <4>1 DEF a
      <4>2. CASE k \in 1..followed
        BY <1>2, <1>7, <4>2 DEF EInv, Settled
      <4>3. QED
        BY <1>2, <4>1, <4>2
    <3>2. QED
      BY <1>1, <1>3, <3>1 DEF Settled
  <2>3. QED
    BY <1>5, <1>6, <2>1, <2>2 DEF EInv
<1>8. CASE a # Nowhere /\ lost' = lost /\ addresses' = AddAddress(addresses, <<a, f.source>>)
  <2> DEFINE pair == <<a, f.source>>
  <2>1. WellListed(addresses)
    BY DEF EInv, AddressesSound
  <2>2. pair[1] = a /\ pair[2] = f.source
    OBVIOUS
  <2> HIDE DEF pair
  <2>3. Enters(addresses', addresses, pair)
    BY <1>8, <2>1, AddressAdded DEF pair
  <2>4. ASSUME NEW b \in DOMAIN addresses', NEW x \in ToSet(addresses'[b])
        PROVE  \/ <<b, x>> \in Exported
               \/ \E k \in 1..n : forwarders[k].source = x /\ EndOf(k) = b /\ b # Nowhere
    <3>1. CASE b \in DOMAIN addresses /\ x \in ToSet(addresses[b])
      BY <1>2, <3>1 DEF EInv, AddressesSound
    <3>2. CASE b = a /\ x = f.source
      BY <1>2, <1>8, <3>2 DEF a
    <3>3. QED
      BY <2>2, <2>3, <3>1, <3>2 DEF Enters
  <2>5. AddressesSound'
    <3>1. WellListed(addresses)'
      BY <2>3 DEF Enters, WellListed
    <3>2. QED
      BY <1>1, <1>3, <1>4, <2>4, <3>1 DEF AddressesSound
  <2>6. Settled'
    <3>1. ASSUME NEW k \in 1..n
          PROVE  IF k \in lost' THEN EndOf(k) = Nowhere
                 ELSE EndOf(k) # Nowhere /\ EndOf(k) \in DOMAIN addresses' /\ forwarders[k].source \in ToSet(addresses'[EndOf(k)])
      <4>1. CASE k = n
        <5>1. k \notin lost' /\ EndOf(k) = a /\ forwarders[k] = f
          BY <1>2, <1>8, <4>1 DEF a
        <5>2. a \in DOMAIN addresses' /\ f.source \in ToSet(addresses'[a])
          BY <2>2, <2>3 DEF Enters
        <5>3. QED
          BY <1>8, <5>1, <5>2
      <4>2. CASE k \in 1..followed
        <5>1. IF k \in lost THEN EndOf(k) = Nowhere
              ELSE EndOf(k) # Nowhere /\ EndOf(k) \in DOMAIN addresses /\ forwarders[k].source \in ToSet(addresses[EndOf(k)])
          BY <4>2 DEF EInv, Settled
        <5>2. \A b \in DOMAIN addresses : b \in DOMAIN addresses' /\ ToSet(addresses[b]) \subseteq ToSet(addresses'[b])
          BY <2>3 DEF Enters
        <5>3. QED
          BY <1>8, <5>1, <5>2
      <4>3. QED
        BY <1>2, <4>1, <4>2
    <3>2. QED
      BY <1>1, <1>3, <3>1 DEF Settled
  <2>7. QED
    BY <1>5, <1>6, <2>5, <2>6 DEF EInv
<1>9. QED
  BY <1>1, <1>7, <1>8

LEMMA IndexSteps == EInv /\ [Next]_vars => EInv'
<1> SUFFICES ASSUME EInv, [Next]_vars
             PROVE  EInv'
  OBVIOUS
<1>1. CASE ParseModule
  BY <1>1, ParseKeeps
<1>2. CASE FollowForwarder
  BY <1>2, FollowKeeps
<1>3. CASE UNCHANGED exportVars
  BY <1>3, IndexStays
<1>4. CASE UNCHANGED vars
  <2>1. UNCHANGED exportVars
    BY <1>4 DEF vars
  <2>2. QED
    BY <2>1, IndexStays
<1>5. ASSUME ChooseTables \/ StartScan \/ ScanRun \/ AddPackedModule \/ ChooseDelayTables \/ RecoverReferenced \/ Count
      PROVE  UNCHANGED exportVars
  <2>1. CASE ChooseTables
    BY <2>1 DEF ChooseTables
  <2>2. CASE StartScan
    BY <2>2 DEF StartScan
  <2>3. CASE ScanRun
    BY <2>3 DEF ScanRun
  <2>4. CASE AddPackedModule
    BY <2>4 DEF AddPackedModule
  <2>5. CASE ChooseDelayTables
    BY <2>5 DEF ChooseDelayTables
  <2>6. CASE RecoverReferenced
    BY <2>6 DEF RecoverReferenced
  <2>7. CASE Count
    BY <2>7 DEF Count
  <2>8. QED
    BY <1>5, <2>1, <2>2, <2>3, <2>4, <2>5, <2>6, <2>7
<1>6. QED
  BY <1>1, <1>2, <1>3, <1>4, <1>5 DEF Next

\* What the index of exports says of an address is true, whatever the modules are and
\* however their forwarders lead to each other: a symbol listed there is exported there, or
\* is a forwarder that resolves to it, and every forwarder that was followed is listed where
\* it ends or was counted as lost (ExportIndex::build, resolve_forwarders).
THEOREM IndexIsSound == Spec => []EInv
<1>1. Init => EInv
  BY IndexBegins
<1>2. QED
  BY <1>1, IndexSteps, PTL DEF Spec

-----------------------------------------------------------------------------
\* Every forwarder that was not given up is listed at an address the loader finds for it.
FollowedAreFound ==
  IndexIsBuilt => \A k \in DOMAIN forwarders \ lost :
    \E a \in LoaderFinds(forwarders[k].target[1], forwarders[k].target[2]) : forwarders[k].source \in ToSet(addresses[a])

LEMMA FollowedIsFound == EInv => FollowedAreFound
<1> SUFFICES ASSUME EInv, IndexIsBuilt, NEW k \in DOMAIN forwarders, k \notin lost
             PROVE  \E a \in LoaderFinds(forwarders[k].target[1], forwarders[k].target[2]) :
                      forwarders[k].source \in ToSet(addresses[a])
  BY DEF FollowedAreFound
<1>1. k \in 1..followed /\ parsed = Len(modules)
  <2>1. DOMAIN forwarders = 1..Len(forwarders)
    BY SeqFacts DEF EInv, Counted
  <2>2. QED
    BY <2>1 DEF IndexIsBuilt
<1>2. EndOf(k) # Nowhere /\ forwarders[k].source \in ToSet(addresses[EndOf(k)])
  BY <1>1 DEF EInv, Settled
<1> DEFINE target == forwarders[k].target
<1>3. EndOf(k) = ResolveKey(target) /\ ResolveKey(target) # Nowhere
  BY <1>2 DEF EndOf
<1>4. target = <<target[1], target[2]>>
  BY DEF EInv, Counted, IsForwarder
<1> HIDE DEF target
<1>5. ResolveKey(target) \in LoaderFinds(target[1], target[2])
  BY <1>1, <1>3, <1>4, ResolvedIsFound DEF EInv
<1>6. QED
  BY <1>2, <1>3, <1>5 DEF target

\* A module forwards a name, or an ordinal, to one place. Of two places resolve_key takes the
\* last, and what it says of a chain is only right of that one.
ForwardsOnce ==
  \A j, k \in DOMAIN forwarders :
    /\ forwarders[j].source.module = forwarders[k].source.module
    /\ KeysOf(forwarders[j].source) \cap KeysOf(forwarders[k].source) # {}
    => forwarders[j].target = forwarders[k].target

\* From a key that is not defined the loader goes where the hop goes, or stays.
LEMMA LeadsAsHops ==
  ASSUME Counted, DefinitionsSound, ForwardsOnce, NEW from, from = <<from[1], from[2]>>, from[1] \notin ApiSets,
         Hop(from).address = Nowhere, NEW to \in Leads(from)
  PROVE  to = from \/ to = Hop(from).next
<1> DEFINE named == {k \in DOMAIN forwarders :
                       forwarders[k].source.module = from[1] /\ from[2] \in KeysOf(forwarders[k].source)}
<1>1. SUFFICES ASSUME to # from
               PROVE  to = Hop(from).next
  OBVIOUS
<1>2. PICK g \in ToSet(forwarders) : g.source.module = from[1] /\ from[2] \in KeysOf(g.source) /\ to = g.target
  BY <1>1 DEF Leads, HostsOf
<1>3. PICK k \in named : forwarders[k].target = to
  BY <1>2 DEF ToSet
<1>4. DOMAIN forwarders = 1..Len(forwarders) /\ Len(forwarders) \in Nat
  BY SeqFacts DEF Counted
<1>5. PICK i \in named : i = CHOOSE l \in named : \A j \in named : j <= l
  <2>1. named \in SUBSET (1..Len(forwarders)) /\ named # {}
    BY <1>3, <1>4
  <2> HIDE DEF named
  <2>2. \E l \in named : \A j \in named : j <= l
    BY <1>4, <2>1, LastOfNats
  <2>3. QED
    BY <2>2
<1>6. forwarders[i].target = to
  BY <1>3, <1>5 DEF ForwardsOnce
<1>7. Pending(from[1], from[2]) = to
  BY <1>3, <1>5, <1>6 DEF Pending
<1>8. to # Unreadable
  <2>1. IsForwarder(forwarders[k])
    BY <1>3 DEF Counted
  <2>2. QED
    BY <1>3, <2>1 DEF IsForwarder, Unreadable
<1>9. from \notin DOMAIN definitions
  <2>1. SUFFICES ASSUME from \in DOMAIN definitions
                 PROVE  FALSE
    OBVIOUS
  <2>2. Hop(from).address = definitions[from]
    BY <2>1 DEF Hop
  <2>3. PICK y \in Exported : y[1] = definitions[from]
    BY <2>1 DEF DefinitionsSound
  <2>4. definitions[from] \in Nat
    BY <2>3 DEF DefinitionsSound, IsRead
  <2>5. QED
    BY <2>2, <2>4 DEF Nowhere
<1>10. QED
  BY <1>7, <1>8, <1>9 DEF Hop

\* As long as no hop ends anywhere, what is reached are the places of the chain.
LEMMA ReachedAreChain ==
  ASSUME Counted, DefinitionsSound, ForwardsOnce,
         NEW target, target = <<target[1], target[2]>>, \A x \in Reached(target) : x[1] \notin ApiSets,
         NEW at, IsChain(at, Rounds, target), \A n \in 1..Rounds : Hop(at[n]).address = Nowhere
  PROVE  \A x \in Reached(target) : \E n \in 1..(Rounds + 1) : x = at[n]
<1>1. Len(forwarders) \in Nat
  BY SeqFacts DEF Counted
<1>2. Rounds \in Nat
  BY <1>1 DEF Rounds
<1>3. PICK r : Reaches(r, target)
  BY <1>1, ReachedInRounds
<1> DEFINE P == {j \in Nat : j <= Rounds =>
                   \A x \in r[j] : x = <<x[1], x[2]>> /\ \E n \in 1..(j + 1) : x = at[n]}
<1>4. 0 \in P
  BY <1>3 DEF Reaches, IsChain
<1>5. ASSUME NEW j \in Nat, j \in P
      PROVE  j + 1 \in P
  <2>1. SUFFICES ASSUME j + 1 <= Rounds, NEW x \in r[j + 1]
                 PROVE  x = <<x[1], x[2]>> /\ \E n \in 1..((j + 1) + 1) : x = at[n]
    OBVIOUS
  <2>2. j + 1 \in 1..Rounds /\ (j + 1) - 1 = j /\ j \in 0..Rounds /\ j <= Rounds
    BY <1>2, <2>1
  <2>3. x \in r[j] \/ \E y \in r[j] : x \in Leads(y)
    BY <1>3, <2>2 DEF Reaches
  <2>4. CASE x \in r[j]
    <3>1. x = <<x[1], x[2]>> /\ \E n \in 1..(j + 1) : x = at[n]
      BY <1>5, <2>2, <2>4
    <3>2. 1..(j + 1) \subseteq 1..((j + 1) + 1)
      OBVIOUS
    <3>3. QED
      BY <3>1, <3>2
  <2>5. CASE \E y \in r[j] : x \in Leads(y)
    <3>1. PICK y \in r[j] : x \in Leads(y)
      BY <2>5
    <3>2. y = <<y[1], y[2]>> /\ \E n \in 1..(j + 1) : y = at[n]
      BY <1>5, <2>2, <3>1
    <3>3. PICK n \in 1..(j + 1) : y = at[n]
      BY <3>2
    <3>4. n \in 1..Rounds /\ n \in 1..((j + 1) + 1) /\ n + 1 \in 1..((j + 1) + 1)
      <4> HIDE DEF P
      <4>1. n \in Int /\ 1 <= n /\ n <= j + 1 /\ j + 1 <= Rounds
        BY <1>2, <2>1
      <4>2. QED
        BY <1>2, <4>1
    <3>5. y[1] \notin ApiSets
      BY <1>3, <2>2 DEF Reaches
    <3>6. Hop(y).address = Nowhere /\ at[n + 1] = Hop(y).next
      BY <3>3, <3>4 DEF IsChain
    <3>7. x = y \/ x = Hop(y).next
      BY <3>1, <3>2, <3>5, <3>6, LeadsAsHops
    <3>8. x = <<x[1], x[2]>>
      <4>1. CASE x = <<y[1], y[2]>>
        BY <4>1
      <4>2. CASE \E k \in DOMAIN forwarders : x = forwarders[k].target
        BY <4>2 DEF Counted, IsForwarder
      <4>3. x = y \/ \E k \in DOMAIN forwarders : x = forwarders[k].target
        BY <3>1, <3>2, <3>5 DEF Leads, HostsOf, ToSet
      <4>4. QED
        BY <3>2, <4>1, <4>2, <4>3
    <3>9. QED
      BY <3>3, <3>4, <3>6, <3>7, <3>8
  <2>6. QED
    BY <2>3, <2>4, <2>5
<1> HIDE DEF P
<1>6. Rounds \in P
  BY <1>2, <1>4, <1>5, EveryNat
<1>7. QED
  BY <1>2, <1>3, <1>6 DEF P, Reaches

\* The places of a chain up to where it ends are different, and all of them are reached.
LEMMA ChainIsReached ==
  ASSUME Counted, DefinitionsSound, NEW target, NEW m \in Nat, m <= Rounds + 1, NEW at, IsChain(at, m, target),
         NEW n \in 1..m, Hop(at[n]).address # Nowhere, \A k \in 1..(n - 1) : Hop(at[k]).address = Nowhere
  PROVE  \A k \in 1..n : at[k] \in Reached(target)
<1>1. Len(forwarders) \in Nat
  BY SeqFacts DEF Counted
<1>2. Rounds \in Nat
  BY <1>1 DEF Rounds
<1>3. PICK r : Reaches(r, target)
  BY <1>1, ReachedInRounds
<1> DEFINE P == {j \in Nat : j + 1 <= n => at[j + 1] \in r[j]}
<1>4. 0 \in P
  BY <1>3 DEF Reaches, IsChain
<1>5. ASSUME NEW j \in Nat, j \in P
      PROVE  j + 1 \in P
  <2>1. SUFFICES ASSUME (j + 1) + 1 <= n
                 PROVE  at[(j + 1) + 1] \in r[j + 1]
    OBVIOUS
  <2> DEFINE l == j + 1
  <2>2. l \in 1..Rounds /\ l - 1 = j /\ l \in 1..m /\ l \in 1..(n - 1) /\ l + 1 \in 1..n /\ l <= n
    BY <1>2, <2>1
  <2>3. at[l] \in r[l - 1]
    BY <1>5, <2>2
  <2> HIDE DEF l
  <2>4. Hop(at[l]).address = Nowhere /\ at[l + 1] # Garbled
    BY <2>2, ChainIsWhole
  <2>5. at[l + 1] \in Leads(at[l])
    BY <2>2, <2>4, ChainLeadsOn
  <2>6. r[l] = r[l - 1] \cup UNION {Leads(key) : key \in r[l - 1]}
    BY <1>3, <2>2 DEF Reaches
  <2>7. at[l + 1] \in r[l]
    BY <2>3, <2>5, <2>6
  <2>8. QED
    BY <2>7 DEF l
<1> HIDE DEF P
<1>6. ASSUME NEW k \in 1..n
      PROVE  at[k] \in Reached(target)
  <2> DEFINE j == k - 1
  <2>1. j \in Nat /\ j + 1 = k /\ j \in 0..Rounds /\ j + 1 <= n
    BY <1>2
  <2> HIDE DEF j
  <2>2. j \in P
    BY <1>4, <1>5, <2>1, EveryNat
  <2>3. at[k] \in r[j]
    BY <2>1, <2>2 DEF P
  <2>4. QED
    BY <1>3, <2>1, <2>3 DEF Reaches
<1>7. QED
  BY <1>6

\* Where no API set is reached, only the targets of forwarders are.
LEMMA ReachedIsFinite ==
  ASSUME Counted, NEW target, target = <<target[1], target[2]>>, \A x \in Reached(target) : x[1] \notin ApiSets
  PROVE  IsFiniteSet(Reached(target)) /\ \A x \in Reached(target) : x = <<x[1], x[2]>>
<1> DEFINE T == {forwarders[k].target : k \in 1..Len(forwarders)}
           F == T \cup {target}
<1>1. Len(forwarders) \in Nat /\ DOMAIN forwarders = 1..Len(forwarders)
  BY SeqFacts DEF Counted
<1>2. Rounds \in Nat
  BY <1>1 DEF Rounds
<1>3. PICK r : Reaches(r, target)
  BY <1>1, ReachedInRounds
<1>4. \A x \in F : x = <<x[1], x[2]>>
  BY <1>1 DEF Counted, IsForwarder
<1> DEFINE P == {j \in Nat : j <= Rounds => r[j] \subseteq F}
<1>5. 0 \in P
  BY <1>3 DEF Reaches
<1>6. ASSUME NEW j \in Nat, j \in P
      PROVE  j + 1 \in P
  <2>1. SUFFICES ASSUME j + 1 <= Rounds, NEW x \in r[j + 1]
                 PROVE  x \in F
    OBVIOUS
  <2>2. j + 1 \in 1..Rounds /\ (j + 1) - 1 = j /\ j \in 0..Rounds /\ j <= Rounds
    BY <1>2, <2>1
  <2>3. r[j] \subseteq F
    BY <1>6, <2>2
  <2>4. x \in r[j] \/ \E y \in r[j] : x \in Leads(y)
    BY <1>3, <2>2 DEF Reaches
  <2>5. ASSUME NEW y \in r[j], x \in Leads(y)
        PROVE  x \in F
    <3>1. y[1] \notin ApiSets
      BY <1>3, <2>2 DEF Reaches
    <3>2. y = <<y[1], y[2]>>
      BY <1>4, <2>3
    <3>3. x = <<y[1], y[2]>> \/ \E k \in DOMAIN forwarders : x = forwarders[k].target
      BY <2>5, <3>1 DEF Leads, HostsOf, ToSet
    <3>4. QED
      BY <1>1, <2>3, <3>2, <3>3
  <2>6. QED
    BY <2>3, <2>4, <2>5
<1>7. Rounds \in P
  <2> HIDE DEF P
  <2>1. QED
    BY <1>2, <1>5, <1>6, EveryNat
<1>8. Reached(target) \subseteq F
  BY <1>2, <1>3, <1>7 DEF Reaches
<1>9. IsFiniteSet(T)
  <2> DEFINE S == 1..Len(forwarders)
             f == [k \in S |-> forwarders[k].target]
  <2>1. IsFiniteSet(S)
    BY <1>1, FS_Interval
  <2>2. f \in [S -> T] /\ \A t \in T : \E k \in S : f[k] = t
    OBVIOUS
  <2> HIDE DEF S, T, f
  <2>3. f \in Surjection(S, T)
    BY <2>2 DEF Surjection
  <2>4. QED
    BY <2>1, <2>3, FS_Surjection
<1>10. IsFiniteSet(F)
  <2> HIDE DEF T
  <2>1. QED
    BY <1>9, FS_AddElement
<1> HIDE DEF F
<1>11. IsFiniteSet(Reached(target))
  BY <1>8, <1>10, FS_Subset
<1>12. QED
  BY <1>4, <1>8, <1>11

\* What the loader finds is defined where it is reached.
LEMMA FoundIsDefined ==
  ASSUME parsed = Len(modules), Counted, DefinitionsSound, NEW module, NEW key, LoaderFinds(module, key) # {}
  PROVE  \E at \in Reached(<<module, key>>) : <<at[1], at[2]>> \in DOMAIN definitions
<1>1. DOMAIN modules = 1..parsed
  BY SeqFacts DEF Counted
<1>2. Exported = UNION {ToSet(Direct(modules[i])) : i \in DOMAIN modules}
  BY <1>1 DEF Exported
<1>3. PICK y \in Exported : \E at \in Reached(<<module, key>>) : at[1] = y[2].module /\ at[2] \in KeysOf(y[2])
  BY <1>2 DEF LoaderFinds
<1>4. QED
  BY <1>3 DEF DefinitionsSound

\* A forwarder that was given up ends nowhere, or behind more places than are looked at.
LEMMA LostIsFar ==
  ASSUME EInv, ForwardsOnce, IndexIsBuilt, NEW k \in lost, NEW target, target = forwarders[k].target,
         target # Garbled, \A x \in Reached(target) : x[1] \notin ApiSets,
         LoaderFinds(target[1], target[2]) # {}
  PROVE  Cardinality(Reached(target)) > MaxForwardDepth
<1> DEFINE D == MaxForwardDepth
           R == Rounds + 1
           M == R + D
<1>0. Counted /\ DefinitionsSound /\ parsed = Len(modules)
  BY DEF EInv, IndexIsBuilt
<1>1. Len(forwarders) \in Nat /\ DOMAIN forwarders = 1..Len(forwarders) /\ k \in 1..Len(forwarders)
  <2>1. Len(forwarders) \in Nat /\ DOMAIN forwarders = 1..Len(forwarders)
    BY <1>0, SeqFacts DEF Counted
  <2>2. k \in 1..followed /\ followed = Len(forwarders)
    BY <1>0 DEF Counted, IndexIsBuilt
  <2>3. QED
    BY <2>1, <2>2
<1>2. Rounds \in Nat /\ D \in Nat \ {0} /\ R \in Nat /\ M \in Nat /\ D <= M /\ R <= M /\ Rounds <= M /\ R <= Rounds + 1
  BY <1>1, DepthAssumption DEF Rounds
<1>3. target = <<target[1], target[2]>>
  BY <1>0, <1>1 DEF Counted, IsForwarder
<1>4. ResolveKey(target) = Nowhere
  <2>1. EndOf(k) = Nowhere
    BY <1>0, <1>1 DEF EInv, Settled, Counted
  <2>2. QED
    BY <2>1 DEF EndOf
<1> HIDE DEF D, M
<1>5. PICK at : IsChain(at, M, target)
  BY <1>2, ChainExists
<1>6. IsChain(at, R, target) /\ IsChain(at, Rounds, target)
  BY <1>2, <1>5 DEF IsChain
<1>7. \A n \in 1..D : Hop(at[n]).address = Nowhere
  BY <1>2, <1>4, <1>5, KeyResolves DEF D
<1> HIDE DEF R
<1> DEFINE ends == {n \in 1..R : Hop(at[n]).address # Nowhere}
<1>8. ends # {}
  <2>1. SUFFICES ASSUME ends = {}
                 PROVE  FALSE
    OBVIOUS
  <2>2. \A n \in 1..R : Hop(at[n]).address = Nowhere
    BY <2>1
  <2>3. R = Rounds + 1
    BY DEF R
  <2>4. \A n \in 1..Rounds : Hop(at[n]).address = Nowhere
    BY <1>2, <2>2, <2>3
  <2>5. PICK x \in Reached(<<target[1], target[2]>>) : <<x[1], x[2]>> \in DOMAIN definitions
    BY <1>0, FoundIsDefined
  <2>6. x \in Reached(target)
    BY <1>3, <2>5
  <2>7. x = <<x[1], x[2]>>
    BY <1>0, <1>3, <2>6, ReachedIsFinite
  <2>8. PICK n \in 1..(Rounds + 1) : x = at[n]
    BY <1>0, <1>3, <1>6, <2>4, <2>6, ReachedAreChain
  <2>9. Hop(x).address = Nowhere
    BY <2>2, <2>3, <2>8
  <2>10. Hop(x).address = definitions[x]
    BY <2>5, <2>7 DEF Hop
  <2>11. PICK y \in Exported : y[1] = definitions[x]
    BY <1>0, <2>5, <2>7 DEF DefinitionsSound
  <2>12. definitions[x] \in Nat
    BY <1>0, <2>11 DEF DefinitionsSound, IsRead
  <2>13. QED
    BY <2>9, <2>10, <2>12 DEF Nowhere
<1>9. PICK n \in ends : \A j \in ends : n <= j
  <2>1. ends \in SUBSET {i \in Int : i >= 1}
    OBVIOUS
  <2> HIDE DEF ends
  <2>2. First(ends) \in ends /\ \A j \in ends : First(ends) <= j
    BY <1>8, <2>1, FirstOfNats
  <2>3. QED
    BY <2>2
<1>10. n \in 1..R /\ Hop(at[n]).address # Nowhere /\ \A j \in 1..(n - 1) : Hop(at[j]).address = Nowhere
  <2>1. n \in 1..R /\ Hop(at[n]).address # Nowhere
    OBVIOUS
  <2>2. ASSUME NEW j \in 1..(n - 1)
        PROVE  Hop(at[j]).address = Nowhere
    <3>1. j \in 1..R /\ ~ (n <= j)
      BY <1>2, <2>1
    <3>2. QED
      BY <1>9, <3>1
  <2>3. QED
    BY <2>1, <2>2
<1> HIDE DEF ends
<1>11. n > D
  BY <1>2, <1>7, <1>10
<1> DEFINE S == 1..n
           T == Reached(target)
           f == [j \in S |-> at[j]]
<1>12. \A j \in S : f[j] \in T
  BY <1>0, <1>2, <1>6, <1>10, ChainIsReached
<1>13. \A i, j \in S : i # j => f[i] # f[j]
  <2> HIDE DEF T, f, S
  <2>1. R \in Nat /\ n \in 1..R /\ IsChain(at, R, target) /\ Counted /\ DefinitionsSound
    BY <1>0, <1>2, <1>6, <1>10
  <2>2. EndsAt(at, n)
    BY <1>10 DEF EndsAt
  <2>3. \A i, j \in 1..n : i # j => at[i] # at[j]
    BY <2>1, <2>2, ChainIsApart
  <2>4. QED
    BY <2>3 DEF S, f
<1>14. IsFiniteSet(T)
  BY <1>0, <1>3, ReachedIsFinite
<1>15. IsFiniteSet(S) /\ Cardinality(S) = n
  <2>1. Cardinality(S) = IF 1 > n THEN 0 ELSE n - 1 + 1
    BY <1>2, <1>10, FS_Interval
  <2>2. QED
    BY <1>2, <1>10, <2>1, FS_Interval
<1>16. f \in [S -> T]
  <2> HIDE DEF S, T
  <2>1. QED
    BY <1>12
<1>17. Cardinality(T) \in Nat
  <2> HIDE DEF T
  <2>1. QED
    BY <1>14, FS_CardinalityType
<1> HIDE DEF S, T, f
<1>18. ~ (Cardinality(T) < Cardinality(S))
  BY <1>13, <1>14, <1>15, <1>16, FS_PigeonHole
<1>19. Cardinality(T) > D
  BY <1>2, <1>10, <1>11, <1>15, <1>17, <1>18
<1>20. QED
  BY <1>19 DEF T, D

LEMMA SettlesFromEInv == EInv /\ ForwardsOnce => ForwardersSettle
<1> SUFFICES ASSUME EInv, ForwardsOnce, IndexIsBuilt, NEW k \in DOMAIN forwarders
             PROVE  LET f == forwarders[k]
                        reached == Reached(f.target)
                        finds == LoaderFinds(f.target[1], f.target[2])
                    IN  /\ k \notin lost => \E a \in finds : f.source \in ToSet(addresses[a])
                        /\ k \in lost /\ f.target # Garbled /\ ~ (\E at \in reached : at[1] \in ApiSets) =>
                             finds = {} \/ Cardinality(reached) > MaxForwardDepth
  BY DEF ForwardersSettle
<1>1. k \notin lost => \E a \in LoaderFinds(forwarders[k].target[1], forwarders[k].target[2]) :
                          forwarders[k].source \in ToSet(addresses[a])
  BY FollowedIsFound DEF FollowedAreFound
<1> DEFINE target == forwarders[k].target
<1>2. ASSUME k \in lost, target # Garbled, \A x \in Reached(target) : x[1] \notin ApiSets,
             LoaderFinds(target[1], target[2]) # {}
      PROVE  Cardinality(Reached(target)) > MaxForwardDepth
  <2> HIDE DEF target
  <2>1. QED
    BY <1>2, LostIsFar DEF target
<1>3. QED
  BY <1>1, <1>2

\* Every forwarder that is not given up is listed at an address the loader finds for it,
\* however many modules and forwarders there are and however they lead to each other, also
\* in circles (resolve_forwarders, resolve_key).
THEOREM ForwardersAreFound == Spec => []FollowedAreFound
BY IndexIsSound, FollowedIsFound, PTL

\* Where modules forward a key to one place, forwarders settle: one that is given up ends
\* nowhere or behind more hops than are followed (resolve_forwarders, resolve_key).
THEOREM ForwardersAreSettled == Spec => [](ForwardsOnce => ForwardersSettle)
<1>1. EInv => (ForwardsOnce => ForwardersSettle)
  BY SettlesFromEInv
<1>2. QED
  BY <1>1, IndexIsSound, PTL

-----------------------------------------------------------------------------
\* What a slot holds stays what it is as long as the image and the index do.
LEMMA HeldStays ==
  ASSUME addresses' = addresses, modules' = modules, image' = image
  PROVE  \A s : (HoldsImport(s)' <=> HoldsImport(s)) /\ SymbolAt(s)' = SymbolAt(s)
<1>1. \A v : Chased(v)' = Chased(v)
  BY SMT DEF Chased, Thunk, HasThunk, InImage, Slots, FoldLeft, MapThenFoldSet
<1>2. \A s : SymbolsAt(s)' = SymbolsAt(s)
  BY <1>1 DEF SymbolsAt
<1>3. \A v : (Reason(v) = "")' <=> Reason(v) = ""
  BY <1>1 DEF Reason, InImage, Slots
<1>4. \A s : Resolves(s)' <=> Resolves(s)
  BY <1>3 DEF Resolves, Slots
<1>5. \A s : SymbolAt(s)' = SymbolAt(s)
  BY <1>2 DEF SymbolAt
<1>6. \A s : HoldsImport(s)' <=> HoldsImport(s)
  BY <1>2, <1>4 DEF HoldsImport
<1>7. QED
  BY <1>5, <1>6

\* The plan is made of what the index says, once it is built: every group is backed by its
\* slots, or is the packer's.
PlanBacked ==
  /\ phase # "tables" => IndexIsBuilt
  /\ \A k \in DOMAIN plan.groups : IsBacked(plan.groups[k])

\* What is backed stays so.
LEMMA BackedStays ==
  ASSUME UNCHANGED exportVars, image' = image, \A k \in DOMAIN plan'.groups : IsBacked(plan'.groups[k])
  PROVE  (\A k \in DOMAIN plan.groups : IsBacked(plan.groups[k]))'
<1>1. addresses' = addresses /\ modules' = modules
  BY DEF exportVars
<1>2. \A s : (HoldsImport(s)' <=> HoldsImport(s)) /\ SymbolAt(s)' = SymbolAt(s)
  BY <1>1, HeldStays
<1>3. QED
  BY <1>1, <1>2 DEF IsBacked, Backed, GroupSlots, EntryAt

\* A step that leaves the index and adds backed groups to a plan that has no others.
LEMMA PlanBackedStays ==
  ASSUME PlanBacked, Tidy(plan), UNCHANGED exportVars, image' = image, phase # "tables" \/ IndexIsBuilt,
         NEW free, NEW source, GrewTo(plan', plan, free, source), NewAreBacked(plan', plan)
  PROVE  PlanBacked'
<1>1. IndexIsBuilt'
  BY DEF PlanBacked, IndexIsBuilt, exportVars
<1>2. \A k \in DOMAIN plan'.groups :
        \/ k \in DOMAIN plan.groups /\ plan'.groups[k] = plan.groups[k]
        \/ k \in (Len(plan.groups) + 1)..Len(plan'.groups)
  BY GrewFacts
<1>3. \A k \in DOMAIN plan'.groups : IsBacked(plan'.groups[k])
  BY <1>2 DEF PlanBacked, NewAreBacked
<1>4. (\A k \in DOMAIN plan.groups : IsBacked(plan.groups[k]))'
  BY <1>3, BackedStays
<1>5. QED
  BY <1>1, <1>4 DEF PlanBacked

LEMMA IndexIsNotBuilt ==
  ASSUME EInv, ParseModule \/ FollowForwarder
  PROVE  ~ IndexIsBuilt
<1>1. Len(modules) \in Nat /\ Len(forwarders) \in Nat
  BY SeqFacts DEF EInv, Counted
<1>2. CASE ParseModule
  <2>1. parsed < Len(modules)
    BY <1>2 DEF ParseModule
  <2>2. QED
    BY <1>1, <2>1 DEF IndexIsBuilt
<1>3. CASE FollowForwarder
  <2>1. followed < Len(forwarders)
    BY <1>3 DEF FollowForwarder
  <2>2. QED
    BY <1>1, <2>1 DEF IndexIsBuilt
<1>4. QED
  BY <1>2, <1>3

LEMMA BackedSteps == IInv /\ EInv /\ PlanBacked /\ [Next]_vars => PlanBacked'
<1> SUFFICES ASSUME IInv, EInv, PlanBacked, [Next]_vars
             PROVE  PlanBacked'
  OBVIOUS
<1>0. Tidy(plan)
  BY DEF IInv
\* Steps that add nothing to the groups.
<1>1. ASSUME UNCHANGED exportVars, image' = image, phase # "tables" \/ IndexIsBuilt, plan'.groups = plan.groups
      PROVE  PlanBacked'
  <2>1. IndexIsBuilt'
    BY <1>1 DEF PlanBacked, IndexIsBuilt, exportVars
  <2>2. \A k \in DOMAIN plan'.groups : IsBacked(plan'.groups[k])
    BY <1>1 DEF PlanBacked
  <2>3. (\A k \in DOMAIN plan.groups : IsBacked(plan.groups[k]))'
    BY <1>1, <2>2, BackedStays
  <2>4. QED
    BY <2>1, <2>3 DEF PlanBacked
<1>2. CASE (ParseModule \/ FollowForwarder) /\ UNCHANGED importVars
  <2>1. ~ IndexIsBuilt
    BY <1>2, IndexIsNotBuilt
  <2>2. phase = "tables" /\ plan = EmptyPlan
    BY <2>1 DEF PlanBacked, IInv, Scanning
  <2>3. phase' = "tables" /\ DOMAIN plan'.groups = {}
    BY <1>2, <2>2 DEF importVars, EmptyPlan
  <2>4. QED
    BY <2>3 DEF PlanBacked
<1>3. CASE ChooseTables
  <2>1. plan = EmptyPlan /\ UNCHANGED exportVars /\ image' = image /\ IndexIsBuilt
    BY <1>3 DEF IInv, Scanning, ChooseTables
  <2>2. plan'.groups = plan.groups
    BY <1>3, <2>1 DEF ChooseTables, EmptyPlan
  <2>3. QED
    BY <1>1, <2>1, <2>2
<1>4. CASE StartScan
  <2>1. plan' = plan \/ plan' = [plan EXCEPT !.unboundSlots = @ \cup Unbound(Head(scans))]
    BY <1>4 DEF StartScan
  <2>2. plan'.groups = plan.groups
    BY <1>0, <2>1 DEF Tidy, IsPlan
  <2>3. phase # "tables" /\ UNCHANGED exportVars /\ image' = image
    BY <1>4 DEF StartScan
  <2>4. QED
    BY <1>1, <2>2, <2>3
<1>5. CASE ScanRun
  <2>1. phase \in {"ranges", "delay"} /\ UNCHANGED exportVars /\ image' = image
    BY <1>5 DEF ScanRun
  <2>2. PICK free \in SUBSET Nat : GrewTo(plan', plan, free, scans[1].source) /\ NewAreBacked(plan', plan)
    BY <1>5, <2>1, ScanTakes
  <2>3. QED
    BY <1>0, <2>1, <2>2, PlanBackedStays
<1>6. CASE AddPackedModule
  <2>1. phase = "modules" /\ UNCHANGED exportVars /\ image' = image
    BY <1>6 DEF AddPackedModule
  <2>2. GrewTo(plan', plan, Ahead(1), "Packer") /\ NewAreBacked(plan', plan)
    BY <1>6, PackTakes
  <2>3. QED
    BY <1>0, <2>1, <2>2, PlanBackedStays
<1>7. CASE ChooseDelayTables
  <2>1. phase # "tables" /\ UNCHANGED exportVars /\ image' = image /\ plan' = plan
    BY <1>7 DEF ChooseDelayTables
  <2>2. QED
    BY <1>1, <2>1
<1>8. CASE RecoverReferenced
  <2>1. phase # "tables" /\ UNCHANGED exportVars /\ image' = image
    BY <1>8 DEF RecoverReferenced
  <2>2. PICK free \in SUBSET Nat : GrewTo(plan', plan, free, "Inferred") /\ NewAreBacked(plan', plan)
    BY <1>8, RecoverTakes
  <2>3. QED
    BY <1>0, <2>1, <2>2, PlanBackedStays
<1>9. CASE Count
  <2>1. phase # "tables" /\ UNCHANGED exportVars /\ image' = image
    BY <1>9 DEF Count
  <2>2. \E a, d : plan' = [plan EXCEPT !.ambiguous = a, !.unresolvedDelay = d]
    BY <1>9 DEF Count
  <2>3. plan'.groups = plan.groups
    BY <1>0, <2>2 DEF Tidy, IsPlan
  <2>4. QED
    BY <1>1, <2>1, <2>3
<1>10. CASE UNCHANGED vars
  <2>1. UNCHANGED exportVars /\ image' = image /\ plan' = plan /\ phase' = phase
    BY <1>10 DEF vars, importVars
  <2>2. IndexIsBuilt' <=> IndexIsBuilt
    BY <2>1 DEF IndexIsBuilt, exportVars
  <2>3. (\A k \in DOMAIN plan.groups : IsBacked(plan.groups[k]))'
    BY <2>1, BackedStays DEF PlanBacked
  <2>4. QED
    BY <2>1, <2>2, <2>3 DEF PlanBacked
<1>11. QED
  BY <1>2, <1>3, <1>4, <1>5, <1>6, <1>7, <1>8, <1>9, <1>10 DEF Next

\* An import that is written stands for what its slot holds, under the module, the name and
\* the ordinal of the symbol that was preferred, whatever the image and the modules are;
\* only what a packer listed is written otherwise (append_groups, resolve_value).
THEOREM PlansAreBacked == Spec => []PlanBacked
<1>1. Init => PlanBacked
  BY DEF Init, EmptyPlan, PlanBacked
<1>2. QED
  BY <1>1, BackedSteps, PlansStayApart, IndexIsSound, PTL DEF Spec

-----------------------------------------------------------------------------
\* preferred_symbol is one of the symbols.
LEMMA PreferredIsListed ==
  ASSUME NEW q, q \in Seq(ToSet(q)), q # <<>>
  PROVE  Preferred(q) \in ToSet(q)
<1> DEFINE n == Len(q)
           rank == [i \in 1..n |-> Priority(q[i])]
           S == {rank[i] : i \in 1..n}
<1>1. n \in Nat /\ DOMAIN q = 1..n
  BY SeqFacts
<1>2. 1 \in 1..n
  <2>1. n # 0
    <3> DEFINE T == ToSet(q)
    <3>1. q \in Seq(T)
      OBVIOUS
    <3> HIDE DEF T
    <3>2. QED
      BY <3>1
  <2>2. QED
    BY <1>1, <2>1
<1>3. \A i \in 1..n : rank[i] = Priority(q[i]) /\ rank[i] \in Int
  BY DEF Priority
<1> HIDE DEF rank
<1>4. S \in SUBSET Int /\ S # {} /\ IsFiniteSet(S)
  <2>1. S \in SUBSET Int /\ S # {}
    BY <1>2, <1>3
  <2> DEFINE T == 1..n
             f == [i \in T |-> rank[i]]
  <2>2. IsFiniteSet(T)
    <3> HIDE DEF n
    <3>1. QED
      BY <1>1, FS_Interval
  <2>3. f \in [T -> S] /\ \A v \in S : \E i \in T : f[i] = v
    OBVIOUS
  <2> HIDE DEF S, T, f
  <2>4. f \in Surjection(T, S)
    BY <2>3 DEF Surjection
  <2>5. QED
    BY <2>1, <2>2, <2>4, FS_Surjection
<1>5. PICK m \in S : \A v \in S : v <= m
  <2> HIDE DEF S
  <2>1. QED
    BY <1>4, MaxOfInts
<1> DEFINE B == {i \in 1..n : rank[i] = m}
<1>6. PICK i \in B : \A j \in B : i <= j
  <2>1. B # {} /\ B \in SUBSET {j \in Int : j >= 1}
    BY <1>5
  <2> HIDE DEF B, S, n
  <2>2. First(B) \in B /\ \A j \in B : First(B) <= j
    BY <2>1, FirstOfNats
  <2>3. QED
    BY <2>2
<1>7. i \in 1..n /\ rank[i] = m /\ m \in Int
  BY <1>4
<1>8. ASSUME NEW j \in 1..n
      PROVE  rank[j] < rank[i] \/ (rank[j] = rank[i] /\ i <= j)
  <2>1. rank[j] <= m /\ rank[j] \in Int
    BY <1>3, <1>5
  <2>2. rank[j] = m => i <= j
    BY <1>6
  <2>3. QED
    BY <1>7, <2>1, <2>2
<1>9. \E k \in DOMAIN q : \A j \in DOMAIN q :
        \/ Priority(q[j]) < Priority(q[k])
        \/ Priority(q[j]) = Priority(q[k]) /\ k <= j
  BY <1>1, <1>3, <1>7, <1>8
<1>10. \E k \in DOMAIN q : Preferred(q) = q[k]
  BY <1>9, Zenon DEF Preferred
<1>11. QED
  BY <1>10 DEF ToSet

\* The loader finds an address for every key of a symbol that is listed at it.
LEMMA ListedIsFound ==
  ASSUME EInv, IndexIsBuilt, NEW a \in DOMAIN addresses, NEW x \in ToSet(addresses[a]), NEW key \in KeysOf(x)
  PROVE  a \in LoaderFinds(x.module, key)
<1>1. Counted /\ DefinitionsSound /\ parsed = Len(modules) /\ Len(forwarders) \in Nat /\ DOMAIN forwarders = 1..Len(forwarders)
  <2>1. Counted /\ DefinitionsSound /\ parsed = Len(modules)
    BY DEF EInv, IndexIsBuilt
  <2>2. QED
    BY <2>1, SeqFacts DEF Counted
<1> DEFINE start == <<x.module, key>>
<1>2. start = <<start[1], start[2]>> /\ start[1] = x.module /\ start[2] = key
  OBVIOUS
<1>3. start \in Reached(start)
  <2> HIDE DEF start
  <2>1. PICK r : Reaches(r, start)
    BY <1>1, ReachedInRounds
  <2>2. 0 \in 0..Rounds
    BY <1>1 DEF Rounds
  <2>3. QED
    BY <2>1, <2>2 DEF Reaches
<1>4. CASE <<a, x>> \in Exported
  <2> DEFINE y == <<a, x>>
  <2>1. y \in Exported /\ IsRead(y) /\ y[1] = a /\ y[2] = x
    BY <1>1, <1>4 DEF DefinitionsSound
  <2> HIDE DEF y
  <2>2. start \in Reached(<<x.module, key>>)
    BY <1>3
  <2> HIDE DEF start
  <2>3. QED
    BY <1>1, <1>2, <2>1, <2>2, FoundBy
<1>5. CASE \E k \in 1..followed : forwarders[k].source = x /\ EndOf(k) = a /\ a # Nowhere
  <2>1. PICK k \in 1..followed : forwarders[k].source = x /\ EndOf(k) = a /\ a # Nowhere
    BY <1>5
  <2> DEFINE target == forwarders[k].target
  <2>2. ResolveKey(target) = a /\ ResolveKey(target) # Nowhere
    BY <2>1 DEF EndOf
  <2>3. target \in Leads(start)
    <3>1. k \in DOMAIN forwarders
      BY <1>1 DEF IndexIsBuilt
    <3>2. QED
      BY <1>2, <2>1, <3>1 DEF Leads, ToSet
  <2> HIDE DEF target, start
  <2>4. ResolveKey(target) \in LoaderFinds(start[1], start[2])
    BY <1>1, <1>2, <2>2, <2>3, ResolvedIsFound
  <2>5. QED
    BY <1>2, <2>2, <2>4
<1>6. QED
  BY <1>4, <1>5 DEF EInv, AddressesSound

LEMMA ResolvesFromInvariants == EInv /\ PlanBacked => ResolvesBack
<1> SUFFICES ASSUME EInv, PlanBacked, IsDone, NEW g \in ToSet(plan.groups), NEW s \in GroupSlots(g),
                    image.packer.kind = "Listed" /\ g.source = "Packer" =>
                      ~ IsGiven(s) /\ \E x \in ToSet(Lookup(addresses, Chased(image.cells[s]), <<>>)) :
                        x.module = g.module /\ (IF EntryAt(g, s).name # None THEN x.name = EntryAt(g, s).name
                                                ELSE x.ordinal = EntryAt(g, s).ordinal)
             PROVE  Chased(image.cells[s]) \in LoaderFinds(g.module,
                      IF EntryAt(g, s).name # None THEN EntryAt(g, s).name ELSE EntryAt(g, s).ordinal)
  BY DEF ResolvesBack
<1> DEFINE e == EntryAt(g, s)
           end == Chased(image.cells[s])
           key == IF e.name # None THEN e.name ELSE e.ordinal
<1>1. IndexIsBuilt /\ IsBacked(g)
  <2>1. phase # "tables"
    BY DEF IsDone
  <2>2. PICK k \in DOMAIN plan.groups : g = plan.groups[k]
    BY DEF ToSet
  <2>3. QED
    BY <2>1, <2>2 DEF PlanBacked
<1>2. \E x : end \in DOMAIN addresses /\ x \in ToSet(addresses[end]) /\ key \in KeysOf(x) /\ x.module = g.module
  <2>1. CASE image.packer.kind = "Listed" /\ g.source = "Packer"
    <3>1. PICK x \in ToSet(Lookup(addresses, end, <<>>)) :
            x.module = g.module /\ (IF e.name # None THEN x.name = e.name ELSE x.ordinal = e.ordinal)
      BY <2>1
    <3> HIDE DEF e, end
    <3>2. end \in DOMAIN addresses /\ x \in ToSet(addresses[end])
      <4>1. ToSet(<<>>) = {}
        BY DEF ToSet
      <4>2. QED
        BY <3>1, <4>1 DEF Lookup
    <3>3. key \in KeysOf(x)
      BY <3>1 DEF KeysOf
    <3>4. QED
      BY <3>1, <3>2, <3>3
  <2>2. CASE \A r \in GroupSlots(g) : Backed(g, r)
    <3>1. HoldsImport(s) /\ g.module = SymbolAt(s).module /\ e = Entry(SymbolAt(s).name, SymbolAt(s).ordinal)
      BY <2>2 DEF Backed
    <3>2. Reason(image.cells[s]) = ""
      BY <3>1 DEF HoldsImport, Resolves
    <3>3. end \in DOMAIN addresses
      BY <3>2 DEF Reason
    <3>4. SymbolAt(s) \in ToSet(addresses[end])
      <4>1. addresses[end] \in Seq(ToSet(addresses[end])) /\ addresses[end] # <<>>
        BY <3>3 DEF EInv, AddressesSound, WellListed
      <4>2. SymbolAt(s) = Preferred(addresses[end])
        BY DEF SymbolAt, SymbolsAt
      <4>3. QED
        BY <4>1, <4>2, PreferredIsListed
    <3>5. e.name = SymbolAt(s).name /\ e.ordinal = SymbolAt(s).ordinal
      BY <3>1 DEF Entry
    <3> HIDE DEF e
    <3>6. key \in KeysOf(SymbolAt(s))
      BY <3>5 DEF KeysOf
    <3>7. QED
      BY <3>1, <3>3, <3>4, <3>6
  <2>3. QED
    BY <1>1, <2>1, <2>2 DEF IsBacked
<1> HIDE DEF e, end, key
<1>3. end \in LoaderFinds(g.module, key)
  BY <1>1, <1>2, ListedIsFound
<1>4. QED
  BY <1>3 DEF e, end, key

\* Every import a recovery writes leads the loader back to the address its slot held, whatever
\* the image is, however its thunks jump and however the modules forward to each other; what a
\* packer listed does if the module itself exports it there (append_groups, resolve_value,
\* preferred_symbol, resolve_forwarders).
THEOREM ImportsResolveBack == Spec => []ResolvesBack
<1>1. EInv /\ PlanBacked => ResolvesBack
  BY ResolvesFromInvariants
<1>2. QED
  BY <1>1, IndexIsSound, PlansAreBacked, PTL

-----------------------------------------------------------------------------
LEMMA SlotsOfGroup ==
  ASSUME NEW g, IsGroup(g)
  PROVE  IsFiniteSet(GroupSlots(g)) /\ Cardinality(GroupSlots(g)) = Len(g.entries) /\ GroupSlots(g) \subseteq Nat
<1> DEFINE a == g.first
           l == Len(g.entries)
           b == a + l - 1
<1>1. GroupSlots(g) = a..b
  BY DEF GroupSlots
<1>2. a \in Nat /\ l \in Nat /\ b \in Int /\ b - a + 1 = l /\ (a > b <=> l = 0)
  BY DEF IsGroup
<1> HIDE DEF a, b, l
<1>3. IsFiniteSet(a..b) /\ Cardinality(a..b) = l
  BY <1>2, FS_Interval
<1>4. a..b \subseteq Nat
  BY <1>2
<1>5. QED
  BY <1>1, <1>3, <1>4 DEF l

LEMMA DisjointSum ==
  ASSUME NEW S, IsFiniteSet(S), NEW T, IsFiniteSet(T), S \cap T = {}
  PROVE  IsFiniteSet(S \cup T) /\ Cardinality(S \cup T) = Cardinality(S) + Cardinality(T)
<1>1. Cardinality(S) \in Nat /\ Cardinality(T) \in Nat /\ Cardinality({}) = 0
  BY FS_CardinalityType, FS_EmptySet
<1>2. IsFiniteSet(S \cup T) /\ Cardinality(S \cup T) = Cardinality(S) + Cardinality(T) - Cardinality(S \cap T)
  BY FS_Union
<1>3. Cardinality(S \cap T) = 0
  BY <1>1
<1>4. QED
  BY <1>1, <1>2, <1>3

\* If all groups fit below the limits, and the plan does not get full, each one is in it.
AllPushed(r, p, gs, n) ==
  /\ Len(r.groups) = Len(p.groups) + n
  /\ \A k \in 1..n : r.groups[Len(p.groups) + k] = gs[k]

FirstSlots(gs, j) == UNION {GroupSlots(gs[k]) : k \in 1..j}

LEMMA FirstSlotsGrow ==
  ASSUME NEW gs, NEW n \in Nat, \A k \in 1..n : IsGroup(gs[k]),
         \A k, l \in 1..n : k # l => GroupSlots(gs[k]) \cap GroupSlots(gs[l]) = {},
         NEW j \in Nat, j + 1 <= n, IsFiniteSet(FirstSlots(gs, j))
  PROVE  /\ IsFiniteSet(FirstSlots(gs, j + 1))
         /\ Cardinality(FirstSlots(gs, j + 1)) = Cardinality(FirstSlots(gs, j)) + Len(gs[j + 1].entries)
<1> DEFINE U == FirstSlots(gs, j)
           V == GroupSlots(gs[j + 1])
<1>1. 1..(j + 1) = (1..j) \cup {j + 1} /\ j + 1 \in 1..n /\ \A k \in 1..j : k \in 1..n /\ k # j + 1
  OBVIOUS
<1>2. FirstSlots(gs, j + 1) = U \cup V
  BY <1>1 DEF FirstSlots
<1>3. U \cap V = {}
  BY <1>1 DEF FirstSlots
<1>4. IsFiniteSet(V) /\ Cardinality(V) = Len(gs[j + 1].entries)
  BY <1>1, SlotsOfGroup
<1> HIDE DEF U, V
<1>5. IsFiniteSet(U)
  BY DEF U
<1>6. IsFiniteSet(U \cup V) /\ Cardinality(U \cup V) = Cardinality(U) + Cardinality(V)
  BY <1>3, <1>4, <1>5, DisjointSum
<1>7. QED
  BY <1>2, <1>4, <1>6 DEF U

\* One more group, if it fits.
CanPush(q, p, gs, j, g, c) ==
  /\ j \in Nat /\ c \in Nat /\ p.recovered \in Nat /\ Len(p.groups) \in Nat /\ g = gs[j + 1]
  /\ IsPlan(q) /\ q.groups \in Seq(ToSet(q.groups)) /\ AllPushed(q, p, gs, j) /\ q.recovered = p.recovered + c
  /\ Len(g.entries) \in Nat \ {0} /\ ~ (Len(q.groups) >= MaxGroups) /\ p.recovered + (c + Len(g.entries)) <= MaxImports

LEMMA PushesOne ==
  ASSUME NEW p, NEW q, NEW gs, NEW j, NEW g, NEW c, CanPush(q, p, gs, j, g, c)
  PROVE  /\ AllPushed(PushGroup(q, g, 1), p, gs, j + 1)
         /\ PushGroup(q, g, 1).recovered = p.recovered + (c + Len(g.entries))
<1>0. /\ j \in Nat /\ c \in Nat /\ p.recovered \in Nat /\ Len(p.groups) \in Nat /\ g = gs[j + 1]
      /\ IsPlan(q) /\ q.groups \in Seq(ToSet(q.groups)) /\ AllPushed(q, p, gs, j) /\ q.recovered = p.recovered + c
      /\ Len(g.entries) \in Nat \ {0} /\ ~ (Len(q.groups) >= MaxGroups) /\ p.recovered + (c + Len(g.entries)) <= MaxImports
  BY DEF CanPush
<1> DEFINE t == PushGroup(q, g, 1)
           a == p.recovered
           l == Len(g.entries)
           m == Len(p.groups)
           n == Len(q.groups)
<1>1. j \in Nat /\ c \in Nat /\ a \in Nat /\ l \in Nat \ {0} /\ m \in Nat /\ n \in Nat
  BY <1>0, SeqFacts
<1>2. n = m + j /\ \A k \in 1..j : q.groups[m + k] = gs[k]
  BY <1>0 DEF AllPushed
<1>3. q.recovered = a + c /\ a + (c + l) <= MaxImports /\ MaxImports \in Nat
  BY <1>0, LimitsAssumption
<1>4. q.recovered + l = a + (c + l) /\ ~ (l < 1)
  <2> HIDE DEF a, l
  <2>1. QED
    BY <1>1, <1>3
<1>5. ~ (q.recovered + l > MaxImports)
  <2> HIDE DEF a, l
  <2>1. QED
    BY <1>1, <1>3, <1>4
<1>6. t = [q EXCEPT !.groups = Append(q.groups, g), !.recovered = q.recovered + l]
  BY <1>0, <1>4, <1>5 DEF PushGroup
<1>7. t.groups = Append(q.groups, g) /\ t.recovered = q.recovered + l
  BY <1>0, <1>6 DEF IsPlan
<1> HIDE DEF t, l
<1>8. /\ Len(t.groups) = n + 1 /\ (\A k \in 1..n : t.groups[k] = q.groups[k])
      /\ t.groups[n + 1] = g
  BY <1>0, <1>7, AppendFacts
<1> HIDE DEF m, n, a
<1>9. ASSUME NEW k \in 1..(j + 1)
      PROVE  t.groups[m + k] = gs[k]
  <2>1. CASE k = j + 1
    <3>1. m + k = n + 1
      BY <1>1, <1>2, <2>1
    <3>2. QED
      BY <1>0, <1>8, <2>1, <3>1
  <2>2. CASE k # j + 1
    <3>1. k \in 1..j /\ m + k \in 1..n
      BY <1>1, <1>2, <2>2
    <3>2. QED
      BY <1>2, <1>8, <3>1
  <2>3. QED
    BY <2>1, <2>2
<1>10. Len(t.groups) = m + (j + 1)
  BY <1>1, <1>2, <1>8
<1>11. AllPushed(t, p, gs, j + 1)
  BY <1>9, <1>10 DEF AllPushed, m
<1>12. QED
  BY <1>4, <1>7, <1>11 DEF t, a, l

LEMMA PushesAll ==
  ASSUME NEW p, Tidy(p), NEW gs, NEW n \in Nat, DOMAIN gs = 1..n,
         \A k \in 1..n : IsGroup(gs[k]) /\ Len(gs[k].entries) >= 1,
         \A k, l \in 1..n : k # l => GroupSlots(gs[k]) \cap GroupSlots(gs[l]) = {},
         NEW kept, IsFiniteSet(kept), FirstSlots(gs, n) \subseteq kept,
         p.recovered + Cardinality(kept) <= MaxImports,
         Len(PushAll(p, gs, 1).groups) < MaxGroups
  PROVE  /\ AllPushed(PushAll(p, gs, 1), p, gs, n)
         /\ PushAll(p, gs, 1).recovered = p.recovered + Cardinality(FirstSlots(gs, n))
<1>0. DOMAIN gs = 1..n
  OBVIOUS
<1>1. PICK r : /\ r[0] = p
               /\ \A k \in 1..n : r[k] = PushGroup(r[k - 1], gs[k], 1)
               /\ PushAll(p, gs, 1) = r[n]
  <2>1. ASSUME NEW x
        PROVE  \E r : /\ r[0] = p
                      /\ \A k \in 1..n : r[k] = PushGroup(r[k - 1], gs[k], x)
                      /\ PushAll(p, gs, x) = r[n]
    BY <1>0, PushSteps
  <2>2. QED
    BY <2>1
<1> DEFINE Good(j) == /\ PushedTo(r[j], p, gs, j) /\ IsFiniteSet(FirstSlots(gs, j))
                      /\ \/ Len(r[j].groups) >= MaxGroups
                         \/ /\ AllPushed(r[j], p, gs, j)
                            /\ r[j].recovered = p.recovered + Cardinality(FirstSlots(gs, j))
           P == {j \in Nat : j <= n => Good(j)}
<1>2. Good(0)
  <2>1. FirstSlots(gs, 0) = {}
    BY DEF FirstSlots
  <2>2. IsFiniteSet({}) /\ Cardinality({}) = 0
    BY FS_EmptySet
  <2>3. p.recovered \in Nat /\ Len(p.groups) \in Nat
    BY SeqFacts DEF Tidy
  <2>4. PushedTo(p, p, gs, 0)
    <3>1. p = [p EXCEPT !.groups = p.groups, !.recovered = p.recovered]
      BY DEF Tidy, IsPlan
    <3>2. QED
      BY <2>3, <3>1 DEF PushedTo
  <2>5. AllPushed(p, p, gs, 0)
    BY <2>3 DEF AllPushed
  <2>6. p.recovered = p.recovered + Cardinality(FirstSlots(gs, 0)) /\ IsFiniteSet(FirstSlots(gs, 0))
    <3>1. p.recovered = p.recovered + 0
      BY <2>3
    <3>2. QED
      BY <2>1, <2>2, <3>1, Zenon
  <2>7. QED
    BY <1>1, <2>4, <2>5, <2>6
<1>3. ASSUME NEW j \in Nat, j + 1 <= n, Good(j)
      PROVE  Good(j + 1)
  <2> DEFINE q == r[j]
             g == gs[j + 1]
  <2>1. r[j + 1] = PushGroup(q, g, 1) /\ j + 1 \in 1..n
    <3>1. j + 1 \in 1..n /\ (j + 1) - 1 = j
      BY <1>3
    <3>2. QED
      BY <1>1, <3>1
  <2>2. PushedTo(PushGroup(q, g, 1), p, gs, j + 1)
    <3>1. PushedTo(q, p, gs, (j + 1) - 1)
      BY <1>3
    <3>2. QED
      BY <2>1, <3>1, PushOne
  <2>3. /\ IsFiniteSet(FirstSlots(gs, j + 1))
        /\ Cardinality(FirstSlots(gs, j + 1)) = Cardinality(FirstSlots(gs, j)) + Len(g.entries)
    BY <1>3, FirstSlotsGrow
  <2>4. Cardinality(FirstSlots(gs, j + 1)) <= Cardinality(kept)
    <3>1. FirstSlots(gs, j + 1) \subseteq FirstSlots(gs, n)
      <4>1. 1..(j + 1) \subseteq 1..n
        BY <1>3
      <4>2. QED
        BY <4>1 DEF FirstSlots
    <3>2. QED
      BY <3>1, FS_Subset
  <2>5. /\ q.recovered \in Nat /\ Len(q.groups) \in Nat /\ p.recovered \in Nat /\ Len(p.groups) \in Nat
        /\ Cardinality(FirstSlots(gs, j)) \in Nat /\ Cardinality(kept) \in Nat /\ Len(g.entries) \in Nat /\ Len(g.entries) >= 1
        /\ MaxImports \in Nat /\ MaxGroups \in Nat /\ q.groups \in Seq(ToSet(q.groups)) /\ IsPlan(q)
    BY <1>3, <2>1, SeqFacts, FS_CardinalityType, LimitsAssumption DEF PushedTo, Tidy, IsGroup
  <2> HIDE DEF q, g
  <2>6. CASE Len(q.groups) >= MaxGroups
    <3>1. PushGroup(q, g, 1) = q
      BY <2>6 DEF PushGroup
    <3>2. QED
      BY <2>1, <2>2, <2>3, <2>6, <3>1
  <2>7. CASE ~ (Len(q.groups) >= MaxGroups)
    <3>1. AllPushed(q, p, gs, j) /\ q.recovered = p.recovered + Cardinality(FirstSlots(gs, j))
      BY <1>3, <2>7 DEF q
    <3> DEFINE c == Cardinality(FirstSlots(gs, j))
               d == Cardinality(FirstSlots(gs, j + 1))
               e == Cardinality(kept)
    <3>2. p.recovered + (c + Len(g.entries)) <= MaxImports
      <4>1. d = c + Len(g.entries) /\ d <= e /\ p.recovered + e <= MaxImports
        BY <2>3, <2>4
      <4>2. c \in Nat /\ e \in Nat /\ Len(g.entries) \in Nat /\ MaxImports \in Nat /\ p.recovered \in Nat
        BY <2>5
      <4> HIDE DEF c, d, e
      <4>3. QED
        BY <4>1, <4>2
    <3>3. AllPushed(PushGroup(q, g, 1), p, gs, j + 1) /\ PushGroup(q, g, 1).recovered = p.recovered + (c + Len(g.entries))
      <4>1. Len(g.entries) \in Nat \ {0} /\ c \in Nat /\ g = gs[j + 1] /\ q.recovered = p.recovered + c
        BY <2>5, <3>1 DEF g
      <4>2. CanPush(q, p, gs, j, g, c)
        BY <2>5, <2>7, <3>1, <3>2, <4>1 DEF CanPush
      <4> HIDE DEF c
      <4>3. QED
        BY <4>2, PushesOne
    <3>4. PushGroup(q, g, 1).recovered = p.recovered + Cardinality(FirstSlots(gs, j + 1))
      BY <2>3, <3>3
    <3>5. QED
      BY <2>1, <2>2, <2>3, <3>3, <3>4
  <2>8. QED
    BY <2>6, <2>7
<1> HIDE DEF Good
<1>4. \A j \in Nat : j \in P
  <2>1. 0 \in P
    BY <1>2
  <2>2. ASSUME NEW j \in Nat, j \in P
        PROVE  j + 1 \in P
    <3>1. j + 1 <= n => j <= n
      OBVIOUS
    <3>2. QED
      BY <1>3, <2>2, <3>1
  <2> HIDE DEF P
  <2>3. QED
    BY <2>1, <2>2, EveryNat
<1>5. Good(n)
  BY <1>4
<1>6. ~ (Len(r[n].groups) >= MaxGroups)
  <2>1. Len(r[n].groups) \in Nat /\ MaxGroups \in Nat
    BY <1>5, SeqFacts, LimitsAssumption DEF Good, PushedTo, Tidy
  <2>2. QED
    BY <1>1, <2>1
<1>7. QED
  BY <1>1, <1>5, <1>6 DEF Good

\* A plan that does not get full has taken every slot that was kept.
LEMMA GroupsFill ==
  ASSUME NEW p, Tidy(p), NEW u, NEW kept \in SUBSET Nat, IsFiniteSet(kept), NEW source, NEW entry, NEW module,
         NEW t, t = PushAll([p EXCEPT !.unrepresentable = u], Groups(kept, source, entry, module), 1),
         p.recovered + Cardinality(kept) <= MaxImports, ~ IsFull(t)
  PROVE  /\ t.recovered = p.recovered + Cardinality(kept)
         /\ RecoveredSlots(t) = RecoveredSlots(p) \cup kept
         /\ t.unrepresentable = u
<1> DEFINE gs == Groups(kept, source, entry, module)
           q == [p EXCEPT !.unrepresentable = u]
<1>1. PICK n \in Nat : AreGroups(gs, n, kept, source, entry, module)
  BY GroupFacts
<1>2. IsPlan(p)
  BY DEF Tidy
<1>3. IsPlan(q) /\ q.groups = p.groups /\ q.recovered = p.recovered /\ q.unrepresentable = u
  BY <1>2 DEF IsPlan
<1> HIDE DEF gs, q
<1>4. Tidy(q)
  BY <1>3 DEF Tidy, Sized
<1>5. /\ DOMAIN gs = 1..n /\ \A k \in 1..n : IsGroup(gs[k]) /\ Len(gs[k].entries) >= 1
      /\ \A k, l \in 1..n : k # l => GroupSlots(gs[k]) \cap GroupSlots(gs[l]) = {}
  <2>1. ASSUME NEW k \in 1..n
        PROVE  IsGroup(gs[k]) /\ Len(gs[k].entries) >= 1
    <3>1. gs[k].first \in Nat /\ Len(gs[k].entries) \in Nat \ {0}
      BY <1>1 DEF AreGroups
    <3>2. QED
      BY <3>1 DEF IsGroup
  <2>2. QED
    BY <1>1, <2>1 DEF AreGroups
<1>6. FirstSlots(gs, n) = kept
  <2>1. FirstSlots(gs, n) \subseteq kept
    BY <1>1 DEF AreGroups, FirstSlots
  <2>2. kept \subseteq FirstSlots(gs, n)
    BY <1>1 DEF AreGroups, FirstSlots
  <2>3. QED
    BY <2>1, <2>2
<1>7. t = PushAll(q, gs, 1)
  BY DEF gs, q
<1>8. PushedTo(t, q, gs, n)
  BY <1>4, <1>5, <1>7, PushAllFacts
<1>9. Len(t.groups) < MaxGroups
  <2>1. Len(t.groups) \in Nat /\ MaxGroups \in Nat
    BY <1>8, SeqFacts, LimitsAssumption DEF PushedTo, Tidy
  <2>2. QED
    BY <2>1 DEF IsFull
<1>10. AllPushed(t, q, gs, n) /\ t.recovered = q.recovered + Cardinality(kept)
  BY <1>3, <1>4, <1>5, <1>6, <1>7, <1>9, PushesAll
<1>11. t.unrepresentable = u
  <2>1. t = [q EXCEPT !.groups = t.groups, !.recovered = t.recovered]
    BY <1>8 DEF PushedTo
  <2>2. QED
    BY <1>3, <2>1 DEF IsPlan
<1>12. RecoveredSlots(t) = RecoveredSlots(p) \cup kept
  <2> DEFINE m == Len(p.groups)
  <2>1. m \in Nat /\ DOMAIN p.groups = 1..m
    BY SeqFacts DEF Tidy
  <2>2. DOMAIN t.groups = 1..(m + n)
    <3>1. Len(t.groups) = m + n /\ DOMAIN t.groups = 1..Len(t.groups)
      BY <1>3, <1>8, <1>10, SeqFacts DEF AllPushed, PushedTo, Tidy
    <3>2. QED
      BY <3>1
  <2>3. (\A k \in 1..m : t.groups[k] = p.groups[k]) /\ \A k \in 1..n : t.groups[m + k] = gs[k]
    BY <1>3, <1>8, <1>10 DEF AllPushed, PushedTo
  <2> HIDE DEF m
  <2>4. ASSUME NEW s \in RecoveredSlots(t)
        PROVE  s \in RecoveredSlots(p) \cup kept
    <3>1. PICK k \in 1..(m + n) : s \in GroupSlots(t.groups[k])
      BY <2>2 DEF RecoveredSlots
    <3>2. CASE k \in 1..m
      BY <2>1, <2>3, <3>1, <3>2 DEF RecoveredSlots
    <3>3. CASE k \notin 1..m
      <4>1. k - m \in 1..n /\ m + (k - m) = k
        BY <2>1, <3>3
      <4>2. t.groups[k] = gs[k - m]
        BY <2>3, <4>1
      <4>3. s \in FirstSlots(gs, n)
        BY <3>1, <4>1, <4>2 DEF FirstSlots
      <4>4. QED
        BY <1>6, <4>3
    <3>4. QED
      BY <3>2, <3>3
  <2>5. ASSUME NEW s \in RecoveredSlots(p)
        PROVE  s \in RecoveredSlots(t)
    <3>1. PICK k \in 1..m : s \in GroupSlots(p.groups[k])
      BY <2>1 DEF RecoveredSlots
    <3>2. k \in 1..(m + n)
      BY <2>1
    <3>3. QED
      BY <2>2, <2>3, <3>1, <3>2 DEF RecoveredSlots
  <2>6. ASSUME NEW s \in kept
        PROVE  s \in RecoveredSlots(t)
    <3>1. PICK k \in 1..n : s \in GroupSlots(gs[k])
      BY <1>6 DEF FirstSlots
    <3>2. m + k \in 1..(m + n)
      BY <2>1
    <3>3. QED
      BY <2>2, <2>3, <3>1, <3>2 DEF RecoveredSlots
  <2>7. QED
    BY <2>4, <2>5, <2>6
<1>13. QED
  BY <1>3, <1>10, <1>11, <1>12

-----------------------------------------------------------------------------
\* The places in the groups of a plan are as many as it has recovered.
Places(p, n) == UNION {{<<k, s>> : s \in GroupSlots(p.groups[k])} : k \in 1..n}

LEMMA PairsCount ==
  ASSUME NEW k, NEW S, IsFiniteSet(S)
  PROVE  IsFiniteSet({<<k, s>> : s \in S}) /\ Cardinality({<<k, s>> : s \in S}) = Cardinality(S)
<1> DEFINE T == {<<k, s>> : s \in S}
           f == [s \in S |-> <<k, s>>]
<1>1. f \in Bijection(S, T)
  BY DEF Bijection, Injection, Surjection, IsInjective
<1>2. ExistsBijection(S, T)
  <2> HIDE DEF T, f
  <2>1. QED
    BY <1>1 DEF ExistsBijection
<1> HIDE DEF T
<1>3. QED
  BY <1>2, FS_Bijection DEF T

LEMMA PlacesGrow ==
  ASSUME NEW p, NEW n \in Nat, IsGroup(p.groups[n + 1]), IsFiniteSet(Places(p, n))
  PROVE  /\ IsFiniteSet(Places(p, n + 1))
         /\ Cardinality(Places(p, n + 1)) = Cardinality(Places(p, n)) + Len(p.groups[n + 1].entries)
<1> DEFINE U == Places(p, n)
           V == {<<n + 1, s>> : s \in GroupSlots(p.groups[n + 1])}
<1>1. 1..(n + 1) = (1..n) \cup {n + 1} /\ n + 1 \notin 1..n
  OBVIOUS
<1>2. Places(p, n + 1) = U \cup V
  BY <1>1 DEF Places
<1>3. U \cap V = {}
  BY <1>1 DEF Places
<1>4. IsFiniteSet(V) /\ Cardinality(V) = Len(p.groups[n + 1].entries)
  BY SlotsOfGroup, PairsCount
<1> HIDE DEF U, V
<1>5. IsFiniteSet(U)
  BY DEF U
<1>6. IsFiniteSet(U \cup V) /\ Cardinality(U \cup V) = Cardinality(U) + Cardinality(V)
  BY <1>3, <1>4, <1>5, DisjointSum
<1>7. QED
  BY <1>2, <1>4, <1>6 DEF U

LEMMA PlacesAreRecovered ==
  ASSUME NEW p, Tidy(p)
  PROVE  /\ IsFiniteSet(Places(p, Len(p.groups)))
         /\ Cardinality(Places(p, Len(p.groups))) = p.recovered
<1> DEFINE m == Len(p.groups)
<1>1. PICK size \in [0..m -> Nat] :
        /\ size[0] = 0
        /\ \A k \in 1..m : size[k] = Len(p.groups[k].entries) + size[k - 1]
        /\ size[m] = p.recovered
  BY DEF Tidy, Sized
<1>2. m \in Nat /\ \A k \in 1..m : IsGroup(p.groups[k])
  BY SeqFacts DEF Tidy
<1> HIDE DEF m
<1> DEFINE Good(n) == IsFiniteSet(Places(p, n)) /\ Cardinality(Places(p, n)) = size[n]
           P == {n \in Nat : n <= m => Good(n)}
<1>3. Good(0)
  <2>1. Places(p, 0) = {}
    BY DEF Places
  <2>2. QED
    BY <1>1, <2>1, FS_EmptySet
<1>4. ASSUME NEW n \in Nat, n + 1 <= m, Good(n)
      PROVE  Good(n + 1)
  <2>1. n + 1 \in 1..m /\ (n + 1) - 1 = n /\ n \in 0..m
    BY <1>2, <1>4
  <2>2. size[n + 1] = Len(p.groups[n + 1].entries) + size[n] /\ IsGroup(p.groups[n + 1])
    BY <1>1, <1>2, <2>1
  <2>3. /\ IsFiniteSet(Places(p, n + 1))
        /\ Cardinality(Places(p, n + 1)) = Cardinality(Places(p, n)) + Len(p.groups[n + 1].entries)
    BY <1>4, <2>2, PlacesGrow
  <2> DEFINE l == Len(p.groups[n + 1].entries)
  <2>4. l \in Nat /\ size[n] \in Nat /\ size[n + 1] = l + size[n] /\ Cardinality(Places(p, n + 1)) = size[n] + l
    BY <1>1, <1>4, <2>1, <2>2, <2>3 DEF IsGroup
  <2> HIDE DEF l
  <2>5. Cardinality(Places(p, n + 1)) = size[n + 1]
    BY <2>4
  <2>6. QED
    BY <2>3, <2>5
<1> HIDE DEF Good
<1>5. \A n \in Nat : n \in P
  <2>1. 0 \in P
    BY <1>3
  <2>2. ASSUME NEW n \in Nat, n \in P
        PROVE  n + 1 \in P
    <3>1. n + 1 <= m => n <= m
      BY <1>2
    <3>2. QED
      BY <1>4, <2>2, <3>1
  <2> HIDE DEF P
  <2>3. QED
    BY <2>1, <2>2, EveryNat
<1>6. Good(m)
  BY <1>2, <1>5
<1>7. QED
  BY <1>1, <1>6 DEF Good, m

\* What a plan has gained holds no more slots than it counts.
LEMMA NewAreFew ==
  ASSUME NEW p, NEW t, Tidy(p), Tidy(t), Len(p.groups) <= Len(t.groups),
         \A k \in 1..Len(p.groups) : t.groups[k] = p.groups[k],
         NEW W, IsFiniteSet(W), W \subseteq RecoveredSlots(t), W \cap RecoveredSlots(p) = {}
  PROVE  p.recovered + Cardinality(W) <= t.recovered
<1> DEFINE m == Len(p.groups)
           n == Len(t.groups)
           A == Places(p, m)
           B == Places(t, n)
           D == B \ A
           f == [s \in W |-> CHOOSE x \in D : x[2] = s]
<1>1. m \in Nat /\ n \in Nat /\ DOMAIN p.groups = 1..m /\ DOMAIN t.groups = 1..n /\ m <= n
  BY SeqFacts DEF Tidy
<1>2. \A k \in 1..m : t.groups[k] = p.groups[k]
  OBVIOUS
<1> HIDE DEF m, n
<1>3. IsFiniteSet(A) /\ Cardinality(A) = p.recovered /\ IsFiniteSet(B) /\ Cardinality(B) = t.recovered
  BY PlacesAreRecovered DEF m, n
<1>4. A \subseteq B
  <2>1. 1..m \subseteq 1..n
    BY <1>1
  <2>2. QED
    BY <1>2, <2>1 DEF Places
<1>5. ASSUME NEW s \in W
      PROVE  \E x \in D : x[2] = s
  <2>1. PICK k \in 1..n : s \in GroupSlots(t.groups[k])
    BY <1>1 DEF RecoveredSlots
  <2>2. <<k, s>> \in B
    BY <2>1 DEF Places
  <2>3. <<k, s>> \notin A
    <3>1. ASSUME <<k, s>> \in A
          PROVE  FALSE
      <4>1. k \in 1..m /\ s \in GroupSlots(p.groups[k])
        BY <3>1 DEF Places
      <4>2. s \in RecoveredSlots(p)
        BY <1>1, <4>1 DEF RecoveredSlots
      <4>3. QED
        BY <4>2
    <3>2. QED
      BY <3>1
  <2>4. QED
    BY <2>2, <2>3
<1> HIDE DEF A, B
<1>6. IsFiniteSet(D) /\ Cardinality(B) = Cardinality(A) + Cardinality(D)
  <2>1. D \subseteq B /\ A \cap D = {} /\ A \cup D = B
    BY <1>4
  <2> HIDE DEF D
  <2>2. IsFiniteSet(D)
    BY <1>3, <2>1, FS_Subset
  <2>3. QED
    BY <1>3, <2>1, <2>2, DisjointSum
<1> HIDE DEF D
<1>7. f \in Injection(W, D)
  <2>1. \A s \in W : f[s] \in D /\ f[s][2] = s
    BY <1>5
  <2> HIDE DEF f
  <2>2. f \in [W -> D]
    BY <2>1 DEF f
  <2>3. IsInjective(f)
    BY <2>1, <2>2 DEF IsInjective
  <2>4. QED
    BY <2>2, <2>3 DEF Injection
<1> HIDE DEF f
<1>8. Cardinality(W) <= Cardinality(D)
  BY <1>6, <1>7, FS_Injection
<1>9. Cardinality(A) \in Nat /\ Cardinality(D) \in Nat /\ Cardinality(W) \in Nat
  BY <1>3, <1>6, FS_CardinalityType
<1>10. QED
  BY <1>3, <1>6, <1>8, <1>9

-----------------------------------------------------------------------------
\* The slots that code refers to.
LEMMA ReferencedFacts ==
  ASSUME image \in Images
  PROVE  IsFiniteSet(DOMAIN Referenced) /\ DOMAIN Referenced \in SUBSET Nat
<1> DEFINE slots(n) == {image.code[k].slot : k \in 1..n}
           cut == {n \in DOMAIN image.code : Cardinality(slots(n)) >= MaxImports}
           read == IF cut = {} THEN Len(image.code) ELSE First(cut)
<1>1. DOMAIN Referenced = slots(read)
  BY DEF Referenced
<1>2. image.code \in Seq([slot : Nat, called : BOOLEAN])
  BY ImagesAssumption
<1>3. Len(image.code) \in Nat /\ DOMAIN image.code = 1..Len(image.code) /\ \A k \in DOMAIN image.code : image.code[k].slot \in Nat
  <2> DEFINE T == [slot : Nat, called : BOOLEAN]
             q == image.code
  <2>1. q \in Seq(T) /\ \A x \in T : x.slot \in Nat
    BY <1>2
  <2> HIDE DEF T, q, slots, cut, read
  <2>2. Len(q) \in Nat /\ DOMAIN q = 1..Len(q) /\ \A k \in DOMAIN q : q[k] \in T
    BY <2>1
  <2>3. QED
    BY <2>1, <2>2 DEF q
<1>4. read \in 0..Len(image.code)
  <2>1. CASE cut = {}
    BY <1>3, <2>1
  <2>2. CASE cut # {}
    <3>1. \A n \in cut : n \in 1..Len(image.code)
      BY <1>3
    <3> HIDE DEF cut
    <3>2. cut \in SUBSET {i \in Int : i >= 1} /\ 1 \in Int
      BY <1>3, <3>1
    <3>3. First(cut) \in cut
      BY <2>2, <3>2, FirstOfNats
    <3>4. QED
      BY <1>3, <2>2, <3>1, <3>3
  <2>3. QED
    BY <2>1, <2>2
<1> HIDE DEF read
<1> DEFINE R == 1..read
           f == [k \in R |-> image.code[k].slot]
<1>5. R \subseteq DOMAIN image.code /\ IsFiniteSet(R)
  <2>1. read \in Int
    BY <1>4
  <2>2. IsFiniteSet(1..read)
    BY <2>1, FS_Interval
  <2>3. QED
    BY <1>3, <1>4, <2>2
<1>6. DOMAIN Referenced = {f[k] : k \in R}
  BY <1>1
<1>7. \A k \in R : f[k] \in Nat
  BY <1>3, <1>5
<1> HIDE DEF R
<1>8. f \in Surjection(R, {f[k] : k \in R})
  BY DEF Surjection
<1> HIDE DEF f
<1>9. IsFiniteSet({f[k] : k \in R})
  BY <1>5, <1>8, FS_Surjection
<1>10. QED
  BY <1>6, <1>7, <1>9

\* What is read of the code and of the slots stays what it is as long as the image and the
\* index do, and what is unclaimed as long as the tables do not grow.
LEMMA ReadingStays ==
  ASSUME addresses' = addresses, modules' = modules, image' = image
  PROVE  /\ Referenced' = Referenced
         /\ \A s : InDataSection(s)' <=> InDataSection(s)
         /\ \A s : (IsAmbiguous(s)' <=> IsAmbiguous(s)) /\ (Believed(s)' <=> Believed(s))
         /\ \A s : \A r \in Reasons : (Reason(image.cells[s]) = r)' <=> Reason(image.cells[s]) = r
<1>1. \A v : Chased(v)' = Chased(v)
  BY SMT DEF Chased, Thunk, HasThunk, InImage, Slots, FoldLeft, MapThenFoldSet
<1>2. \A s : SymbolsAt(s)' = SymbolsAt(s)
  BY <1>1 DEF SymbolsAt
<1>3. \A v : Reason(v)' = Reason(v)
  BY <1>1 DEF Reason, InImage, Slots, Covers, HasThunk
<1>4. \A s : Resolves(s)' <=> Resolves(s)
  BY <1>3 DEF Resolves, Slots
<1>5. \A s : SymbolAt(s)' = SymbolAt(s)
  BY <1>2 DEF SymbolAt
<1>6. Referenced' = Referenced
  BY DEF Referenced
<1>7. \A s : InDataSection(s)' <=> InDataSection(s)
  BY DEF InDataSection, Slots
<1>8. \A s : IsAmbiguous(s)' <=> IsAmbiguous(s)
  BY <1>2, <1>4 DEF IsAmbiguous
<1>9. \A s : NeighborShares(s)' <=> NeighborShares(s)
  BY <1>4, <1>5 DEF NeighborShares
<1>10. \A s : Believed(s)' <=> Believed(s)
  BY <1>6, <1>9 DEF Believed
<1>11. \A s : \A r \in Reasons : (Reason(image.cells[s]) = r)' <=> Reason(image.cells[s]) = r
  BY <1>3
<1>12. QED
  BY <1>6, <1>7, <1>8, <1>10, <1>11

LEMMA UnclaimedStays ==
  ASSUME image' = image, plan'.existing = plan.existing, plan'.unboundSlots = plan.unboundSlots,
         RecoveredSlots(plan) \subseteq RecoveredSlots(plan')
  PROVE  \A s : Unclaimed(s)' <=> Unclaimed(s) /\ s \notin RecoveredSlots(plan')
<1>1. ExistingSlots(plan') = ExistingSlots(plan)
  BY DEF ExistingSlots
<1>2. ExistingSlots(plan)' = ExistingSlots(plan)
  <2>1. \A s : ThunksFrom(s)' = ThunksFrom(s)
    BY ThunksStay
  <2>2. QED
    BY <2>1 DEF ExistingSlots
<1>3. RecoveredSlots(plan)' = RecoveredSlots(plan')
  BY DEF RecoveredSlots, GroupSlots
<1>4. QED
  BY <1>2, <1>3 DEF Unclaimed

\* What append_groups does with room for all of the slots.
Foreign(slots) == {s \in slots : SymbolAt(s).module # OwnName}
Written(slots) == {s \in Foreign(slots) : Representable(SymbolAt(s).module, SymbolAt(s))}

LEMMA AppendsAll ==
  ASSUME NEW p, Tidy(p), NEW slots \in SUBSET Nat, IsFiniteSet(slots), NEW source,
         NEW t, t = AppendGroups(p, slots, 1, source), ~ IsFull(t), p.recovered + Cardinality(slots) <= MaxImports
  PROVE  /\ RecoveredSlots(t) = RecoveredSlots(p) \cup Written(slots)
         /\ t.unrepresentable = p.unrepresentable + Cardinality(Foreign(slots) \ Written(slots))
<1> DEFINE foreign == Foreign(slots)
           kept == Written(slots)
           entry == [s \in kept |-> [name |-> SymbolAt(s).name, ordinal |-> SymbolAt(s).ordinal]]
           module == [s \in kept |-> SymbolAt(s).module]
           u == p.unrepresentable + Cardinality(foreign \ kept)
<1>1. kept \in SUBSET slots
  BY DEF Written, Foreign
<1>2. t = PushAll([p EXCEPT !.unrepresentable = u], Groups(kept, source, entry, module), 1)
  <2>1. [p EXCEPT !.unrepresentable = u] = [p EXCEPT !.unrepresentable = @ + Cardinality(foreign \ kept)]
    <3> HIDE DEF foreign, kept
    <3>1. IsPlan(p)
      BY DEF Tidy
    <3>2. QED
      BY <3>1 DEF IsPlan
  <2>2. t = PushAll([p EXCEPT !.unrepresentable = @ + Cardinality(foreign \ kept)],
                    Groups(kept, source, entry, module), 1)
    BY DEF AppendGroups, Foreign, Written
  <2> HIDE DEF foreign, kept, entry, module, u
  <2>3. QED
    BY <2>1, <2>2
<1> HIDE DEF foreign, kept, entry, module
<1>3. kept \in SUBSET Nat /\ IsFiniteSet(kept) /\ Cardinality(kept) <= Cardinality(slots)
  BY <1>1, FS_Subset
<1>4. p.recovered + Cardinality(kept) <= MaxImports
  <2>1. p.recovered \in Nat /\ Cardinality(kept) \in Nat /\ Cardinality(slots) \in Nat /\ MaxImports \in Nat
    BY <1>3, FS_CardinalityType, LimitsAssumption DEF Tidy
  <2>2. QED
    BY <1>3, <2>1
<1> HIDE DEF u
<1>5. RecoveredSlots(t) = RecoveredSlots(p) \cup kept /\ t.unrepresentable = u
  BY <1>2, <1>3, <1>4, GroupsFill
<1>6. QED
  BY <1>5 DEF u, kept, foreign

\* If there is room at the end, there was room for all that was wanted.
LEMMA RoomForAll ==
  ASSUME NEW p, NEW t, Tidy(p), Tidy(t), Len(p.groups) <= Len(t.groups),
         \A k \in 1..Len(p.groups) : t.groups[k] = p.groups[k],
         NEW W, IsFiniteSet(W), W \cap RecoveredSlots(p) = {},
         t.recovered + Cardinality({s \in W : s \notin RecoveredSlots(t)}) < MaxImports
  PROVE  p.recovered + Cardinality(W) < MaxImports
<1> DEFINE A == {s \in W : s \in RecoveredSlots(t)}
           B == {s \in W : s \notin RecoveredSlots(t)}
<1>1. A \subseteq W /\ B \subseteq W /\ A \cup B = W /\ A \cap B = {} /\ A \subseteq RecoveredSlots(t)
  OBVIOUS
<1>2. t.recovered + Cardinality(B) < MaxImports
  OBVIOUS
<1>3. A \cap RecoveredSlots(p) = {}
  BY <1>1
<1> HIDE DEF A, B
<1>4. IsFiniteSet(A) /\ IsFiniteSet(B)
  BY <1>1, FS_Subset
<1>5. Cardinality(W) = Cardinality(A) + Cardinality(B)
  BY <1>1, <1>4, DisjointSum
<1>6. p.recovered + Cardinality(A) <= t.recovered
  BY <1>1, <1>3, <1>4, NewAreFew
<1>7. /\ p.recovered \in Nat /\ t.recovered \in Nat /\ Cardinality(A) \in Nat /\ Cardinality(B) \in Nat
      /\ MaxImports \in Nat
  BY <1>4, FS_CardinalityType, LimitsAssumption DEF Tidy
<1> DEFINE a == Cardinality(A)
           b == Cardinality(B)
           w == Cardinality(W)
<1>8. w = a + b /\ p.recovered + a <= t.recovered /\ t.recovered + b < MaxImports /\ a \in Nat /\ b \in Nat
  BY <1>2, <1>5, <1>6, <1>7
<1> HIDE DEF a, b, w
<1>9. p.recovered + w < MaxImports
  BY <1>7, <1>8
<1>10. QED
  BY <1>9 DEF w

\* What code calls is counted when it is looked at, if there is room for all of it.
LEMMA RecoverCounts ==
  ASSUME IInv, RecoverReferenced, plan.unresolved = [r \in Reasons |-> 0], plan.unrepresentable \in Nat, HasRoom'
  PROVE  ReferencesCounted' /\ plan'.unrepresentable \in Nat
<1>. USE DEF IInv
<1> DEFINE data == {s \in DOMAIN Referenced : Unclaimed(s) /\ InDataSection(s)}
           wanted == {s \in data : HoldsImport(s) /\ Believed(s)}
           InTime(s) == Cardinality({r \in wanted : r < s}) < MaxImports - plan.recovered
           Called(r) == {s \in data : InTime(s) /\ Referenced[s] = "Called" /\ Reason(image.cells[s]) = r}
           outside == {s \in DOMAIN Referenced : Unclaimed(s) /\ ~ InDataSection(s) /\ InTime(s)
                                                  /\ Referenced[s] = "Called" /\ HoldsImport(s)}
           unsure == {s \in data : InTime(s) /\ IsAmbiguous(s)}
           seen == [plan EXCEPT !.ambiguousSlots = @ \cup unsure,
                                !.unresolved = [r \in Reasons |-> @[r] + Cardinality(Called(r))],
                                !.outside = @ + Cardinality(outside)]
           slots == {s \in wanted : InTime(s)}
<1>1. /\ image' = image /\ addresses' = addresses /\ modules' = modules
      /\ plan' = IF IsFull(plan) THEN plan ELSE AppendGroups(seen, slots, 1, "Inferred")
  BY DEF RecoverReferenced, exportVars
<1>2. /\ IsPlan(seen) /\ seen.groups = plan.groups /\ seen.recovered = plan.recovered
      /\ seen.existing = plan.existing /\ seen.unboundSlots = plan.unboundSlots
      /\ seen.unrepresentable = plan.unrepresentable /\ unsure \subseteq seen.ambiguousSlots
      /\ seen.unresolved = [r \in Reasons |-> plan.unresolved[r] + Cardinality(Called(r))]
  <2> DEFINE a == plan.ambiguousSlots \cup unsure
             b == [r \in Reasons |-> plan.unresolved[r] + Cardinality(Called(r))]
             c == plan.outside + Cardinality(outside)
  <2>1. IsPlan(plan)
    BY DEF Tidy
  <2>2. seen = [plan EXCEPT !.ambiguousSlots = @ \cup unsure,
                            !.unresolved = [r \in Reasons |-> @[r] + Cardinality(Called(r))],
                            !.outside = @ + Cardinality(outside)]
    OBVIOUS
  <2>3. seen = [plan EXCEPT !.ambiguousSlots = a, !.unresolved = b, !.outside = c]
    <3> HIDE DEF data, InTime, Called, outside, unsure
    <3>1. QED
      BY <2>1, <2>2 DEF IsPlan
  <2>4. unsure \subseteq a
    OBVIOUS
  <2> HIDE DEF seen, a, b, c, unsure
  <2>5. /\ IsPlan(seen) /\ seen.groups = plan.groups /\ seen.recovered = plan.recovered
        /\ seen.existing = plan.existing /\ seen.unboundSlots = plan.unboundSlots
        /\ seen.unrepresentable = plan.unrepresentable /\ seen.ambiguousSlots = a /\ seen.unresolved = b
    BY <2>1, <2>3 DEF IsPlan
  <2>6. QED
    BY <2>4, <2>5 DEF b
<1>3. Tidy(plan) /\ Tidy(seen)
  BY <1>2 DEF Tidy, Sized
<1>4. /\ slots \subseteq wanted /\ wanted \subseteq data /\ data \subseteq DOMAIN Referenced
      /\ \A s \in wanted : s \in data /\ HoldsImport(s) /\ Believed(s)
      /\ \A s \in data : Unclaimed(s) /\ InDataSection(s)
      /\ \A s \in DOMAIN Referenced : Unclaimed(s) /\ InDataSection(s) => s \in data
      /\ \A s \in data : HoldsImport(s) /\ Believed(s) => s \in wanted
  OBVIOUS
<1>5. /\ IsFiniteSet(data) /\ data \in SUBSET Nat /\ IsFiniteSet(wanted) /\ wanted \in SUBSET Nat
  <2> HIDE DEF data, wanted
  <2>1. IsFiniteSet(DOMAIN Referenced) /\ DOMAIN Referenced \in SUBSET Nat
    BY ReferencedFacts
  <2>2. QED
    BY <1>4, <2>1, FS_Subset
<1>6. PICK free \in SUBSET Nat : GrewTo(plan', plan, free, "Inferred")
  BY RecoverTakes
<1>7. /\ Tidy(plan') /\ plan'.existing = plan.existing /\ plan'.unboundSlots = plan.unboundSlots
      /\ Len(plan.groups) <= Len(plan'.groups) /\ \A k \in 1..Len(plan.groups) : plan'.groups[k] = plan.groups[k]
  BY <1>6 DEF GrewTo
<1>8. ~ IsFull(plan') /\ ~ IsFull(plan)
  <2>1. ~ IsFull(plan')
    BY DEF HasRoom, IsFull
  <2>2. QED
    BY <1>1, <2>1
<1>9. RecoveredSlots(plan) \subseteq RecoveredSlots(plan')
  <2>1. \A k \in DOMAIN plan.groups : k \in DOMAIN plan'.groups /\ plan'.groups[k] = plan.groups[k]
    BY <1>3, <1>6, GrewFacts
  <2>2. QED
    BY <2>1 DEF RecoveredSlots
<1>10. \A s : Unclaimed(s)' <=> Unclaimed(s) /\ s \notin RecoveredSlots(plan')
  BY <1>1, <1>7, <1>9, UnclaimedStays
<1>11. /\ Referenced' = Referenced
       /\ \A s : InDataSection(s)' <=> InDataSection(s)
       /\ \A s : (IsAmbiguous(s)' <=> IsAmbiguous(s)) /\ (Believed(s)' <=> Believed(s))
       /\ \A s : \A r \in Reasons : (Reason(image.cells[s]) = r)' <=> Reason(image.cells[s]) = r
  BY <1>1, ReadingStays
<1>12. \A s : (HoldsImport(s)' <=> HoldsImport(s)) /\ SymbolAt(s)' = SymbolAt(s)
  BY <1>1, HeldStays
<1> HIDE DEF data, wanted, seen, InTime, Called, unsure, outside, slots
<1>13. plan.recovered + Cardinality(wanted) < MaxImports
  <2> DEFINE left == {s \in DOMAIN Referenced : Unclaimed(s) /\ InDataSection(s) /\ HoldsImport(s) /\ Believed(s)}
  <2>1. plan'.recovered + Cardinality(left') < MaxImports
    BY DEF HasRoom
  <2>2. left' = {s \in wanted : s \notin RecoveredSlots(plan')}
    <3>1. left' = {s \in DOMAIN Referenced : Unclaimed(s) /\ s \notin RecoveredSlots(plan') /\ InDataSection(s) /\ HoldsImport(s) /\ Believed(s)}
      BY <1>10, <1>11, <1>12
    <3>2. QED
      BY <1>4, <3>1
  <2> HIDE DEF left
  <2>3. wanted \cap RecoveredSlots(plan) = {}
    BY <1>4 DEF Unclaimed
  <2>4. QED
    BY <1>3, <1>5, <1>7, <2>1, <2>2, <2>3, RoomForAll
<1>14. ASSUME NEW s
       PROVE  InTime(s)
  <2> DEFINE before == {r \in wanted : r < s}
  <2>1. before \subseteq wanted
    OBVIOUS
  <2> HIDE DEF before
  <2>2. IsFiniteSet(before) /\ Cardinality(before) <= Cardinality(wanted)
    BY <1>5, <2>1, FS_Subset
  <2>3. Cardinality(before) \in Nat /\ Cardinality(wanted) \in Nat /\ plan.recovered \in Nat /\ MaxImports \in Nat
    BY <1>3, <1>5, <2>2, FS_CardinalityType, LimitsAssumption DEF Tidy
  <2>4. Cardinality(before) < MaxImports - plan.recovered
    BY <1>13, <2>2, <2>3
  <2>5. QED
    BY <2>4 DEF before, InTime
<1>15. slots = wanted
  BY <1>14 DEF slots
<1>16. plan' = AppendGroups(seen, wanted, 1, "Inferred")
  BY <1>1, <1>8, <1>15
<1>17. /\ RecoveredSlots(plan') = RecoveredSlots(seen) \cup Written(wanted)
       /\ plan'.unrepresentable = seen.unrepresentable + Cardinality(Foreign(wanted) \ Written(wanted))
  <2>1. seen.recovered + Cardinality(wanted) <= MaxImports
    <3>1. plan.recovered \in Nat /\ Cardinality(wanted) \in Nat /\ MaxImports \in Nat
      BY <1>3, <1>5, FS_CardinalityType, LimitsAssumption DEF Tidy
    <3>2. QED
      BY <1>2, <1>13, <3>1
  <2>2. QED
    BY <1>3, <1>5, <1>8, <1>16, <2>1, AppendsAll
<1>18. RecoveredSlots(seen) = RecoveredSlots(plan)
  BY <1>2 DEF RecoveredSlots
<1>19. plan'.unresolved = seen.unresolved /\ plan'.ambiguousSlots = seen.ambiguousSlots
  <2>1. PICK kept \in SUBSET wanted :
          Grown(plan', seen, kept, "Inferred",
                [s \in kept |-> [name |-> SymbolAt(s).name, ordinal |-> SymbolAt(s).ordinal]],
                [s \in kept |-> SymbolAt(s).module])
    BY <1>3, <1>5, <1>16, AppendsGroups
  <2>2. plan' = [seen EXCEPT !.groups = plan'.groups, !.recovered = plan'.recovered, !.unrepresentable = plan'.unrepresentable]
    BY <2>1 DEF Grown
  <2>3. QED
    BY <1>2, <2>2 DEF IsPlan
<1> DEFINE open == {s \in data : Referenced[s] = "Called" /\ s \notin Written(wanted)}
<1>20. OpenCalls' = open
  <2>1. OpenCalls' = {s \in DOMAIN Referenced : Referenced[s] = "Called" /\ InDataSection(s) /\ Unclaimed(s) /\ s \notin RecoveredSlots(plan')}
    BY <1>10, <1>11 DEF OpenCalls
  <2>2. \A s \in data : s \notin RecoveredSlots(plan)
    BY <1>4 DEF Unclaimed
  <2>3. QED
    BY <1>4, <1>17, <1>18, <2>1, <2>2
<1>21. ASSUME NEW r \in Reasons
       PROVE  plan'.unresolved[r] = Cardinality({s \in OpenCalls : Reason(image.cells[s]) = r}')
  <2>1. {s \in OpenCalls : Reason(image.cells[s]) = r}' = {s \in open : Reason(image.cells[s]) = r}
    BY <1>11, <1>20
  <2>2. \A s \in Written(wanted) : Reason(image.cells[s]) = ""
    BY <1>4 DEF Written, Foreign, HoldsImport, Resolves
  <2>3. r # ""
    BY DEF Reasons
  <2>4. {s \in open : Reason(image.cells[s]) = r} = Called(r)
    BY <1>14, <2>2, <2>3 DEF Called
  <2>5. IsFiniteSet(Called(r))
    <3>1. Called(r) \subseteq data
      BY DEF Called
    <3>2. QED
      BY <1>5, <3>1, FS_Subset
  <2>6. plan'.unresolved[r] = 0 + Cardinality(Called(r))
    BY <1>2, <1>19
  <2> DEFINE c == Cardinality(Called(r))
             T == {s \in OpenCalls : Reason(image.cells[s]) = r}'
  <2>7. c \in Nat /\ plan'.unresolved[r] = 0 + c
    BY <2>5, <2>6, FS_CardinalityType
  <2>8. T = Called(r)
    BY <2>1, <2>4
  <2>9. plan'.unresolved[r] = Cardinality(T)
    <3>1. c = Cardinality(T)
      BY <2>8
    <3> HIDE DEF c, T
    <3>2. plan'.unresolved[r] = c
      BY <2>7
    <3>3. QED
      BY <3>1, <3>2
  <2>10. QED
    BY <2>9 DEF T
<1>22. {s \in OpenCalls : IsAmbiguous(s)}' \subseteq plan'.ambiguousSlots
  <2>1. {s \in OpenCalls : IsAmbiguous(s)}' = {s \in open : IsAmbiguous(s)}
    BY <1>11, <1>20
  <2>2. {s \in open : IsAmbiguous(s)} \subseteq unsure
    BY <1>14 DEF unsure
  <2>3. QED
    BY <1>2, <1>19, <2>1, <2>2
<1>23. Unwritten' \subseteq Foreign(wanted) \ Written(wanted)
  <2>1. Unwritten' = {s \in open : HoldsImport(s) /\ SymbolAt(s).module # OwnName}
    BY <1>1, <1>12, <1>20 DEF Unwritten, OwnName
  <2>2. \A s \in open : HoldsImport(s) => s \in wanted
    BY <1>4 DEF Believed
  <2>3. QED
    BY <2>1, <2>2 DEF Foreign
<1>24. \A s \in Unwritten' : ~ Representable(SymbolAt(s)'.module, SymbolAt(s)')
  <2>1. \A s \in Foreign(wanted) \ Written(wanted) : ~ Representable(SymbolAt(s).module, SymbolAt(s))
    BY DEF Written
  <2>2. QED
    BY <1>12, <1>23, <2>1
<1>25. plan'.unrepresentable \in Nat /\ plan'.unrepresentable >= Cardinality(Unwritten')
  <2> DEFINE F == Foreign(wanted) \ Written(wanted)
             U == Unwritten'
  <2>1. F \subseteq wanted /\ U \subseteq F
    BY <1>23 DEF Foreign
  <2>2. plan'.unrepresentable = plan.unrepresentable + Cardinality(F)
    BY <1>2, <1>17
  <2> HIDE DEF F, U
  <2>3. IsFiniteSet(F) /\ IsFiniteSet(U) /\ Cardinality(U) <= Cardinality(F)
    BY <1>5, <2>1, FS_Subset
  <2>4. Cardinality(F) \in Nat /\ Cardinality(U) \in Nat
    BY <2>3, FS_CardinalityType
  <2>5. QED
    BY <2>2, <2>3, <2>4 DEF U
<1>26. QED
  <2>1. \A r \in Reasons : plan'.unresolved[r] = Cardinality({s \in OpenCalls : Reason(image.cells[s]) = r}')
    BY <1>21
  <2>2. QED
    BY <1>22, <1>24, <1>25, <2>1 DEF ReferencesCounted, Representable

-----------------------------------------------------------------------------
\* The functions of the lists that were read, and what the plan knows of them.
ReadLists == Len(image.packer.modules) - Len(scans)
ReadFunctions(c) == UNION {{<<n, j>> : j \in DOMAIN image.packer.modules[n].functions} : n \in 1..c}
FitsIn == ~ IsFull(plan) /\ Cardinality(ListedFunctions) <= MaxImports
ListsFollow == phase = "modules" =>
  /\ Len(scans) <= Len(image.packer.modules)
  /\ \A i \in DOMAIN scans : scans[i] = image.packer.modules[ReadLists + i]
  /\ \A k \in DOMAIN plan.groups : plan.groups[k].source = "Packer"
  /\ FitsIn => plan.recovered + plan.unrepresentable = Cardinality(ReadFunctions(ReadLists))

\* What the plans have counted, step by step.
IsSearched == image.packer.kind \in {"None", "Unknown", "FilledIat"}
CallsInv ==
  /\ plan.unrepresentable \in Nat
  /\ phase \in {"tables", "ranges", "modules", "delay"} => plan.unresolved = [r \in Reasons |-> 0]
  /\ phase = "count" => IsSearched
  /\ image.packer.kind = "Listed" => phase \in {"tables", "modules", "delay", "done"}
  /\ ListsFollow
  /\ image.packer.kind = "Listed" /\ phase \in {"delay", "done"} /\ FitsIn => ListsCounted
  /\ phase \in {"count", "done"} /\ IsSearched /\ HasRoom => ReferencesCounted
  /\ phase = "done" /\ IsSearched => plan.ambiguous = Cardinality(plan.ambiguousSlots)

Longer(t, p) ==
  /\ Tidy(t) /\ Len(p.groups) <= Len(t.groups)
  /\ \A k \in 1..Len(p.groups) : t.groups[k] = p.groups[k]

\* A plan that gets longer does not get less full.
LEMMA LimitsGrow ==
  ASSUME NEW p, Tidy(p), NEW t, Longer(t, p)
  PROVE  IsFull(p) => IsFull(t)
<1>1. IsFiniteSet({}) /\ Cardinality({}) = 0
  BY FS_EmptySet
<1>2. p.recovered + Cardinality({}) <= t.recovered
  BY <1>1, NewAreFew DEF Longer
<1>3. /\ p.recovered \in Nat /\ t.recovered \in Nat /\ Len(p.groups) \in Nat /\ Len(t.groups) \in Nat
      /\ MaxImports \in Nat /\ MaxGroups \in Nat
  BY SeqFacts, LimitsAssumption DEF Longer, Tidy
<1>4. p.recovered <= t.recovered /\ Len(p.groups) <= Len(t.groups)
  BY <1>1, <1>2, <1>3 DEF Longer
<1>5. QED
  BY <1>3, <1>4 DEF IsFull

\* Nor does it lose what a packer listed.
LEMMA PackedStay ==
  ASSUME Tidy(plan), Longer(plan', plan)
  PROVE  Cardinality(PackedSlots) \in Nat /\ Cardinality(PackedSlots') \in Nat
         /\ Cardinality(PackedSlots) <= Cardinality(PackedSlots')
<1>1. /\ DOMAIN plan.groups = 1..Len(plan.groups) /\ DOMAIN plan'.groups = 1..Len(plan'.groups)
      /\ Len(plan.groups) \in Nat /\ Len(plan'.groups) \in Nat
  BY SeqFacts DEF Longer, Tidy
<1>2. \A k \in DOMAIN plan.groups : k \in DOMAIN plan'.groups /\ plan'.groups[k] = plan.groups[k]
  BY <1>1 DEF Longer
<1> DEFINE P == PackedSlots
           Q == UNION {{<<k, s>> : s \in GroupSlots(plan'.groups[k])} :
                         k \in {n \in DOMAIN plan'.groups : plan'.groups[n].source = "Packer"}}
<1>3. PackedSlots' = Q
  BY DEF PackedSlots, GroupSlots
<1>4. P \subseteq Q
  BY <1>2 DEF PackedSlots
<1>5. Q \subseteq Places(plan', Len(plan'.groups))
  BY <1>1 DEF Places
<1>6. IsFiniteSet(Places(plan', Len(plan'.groups)))
  BY PlacesAreRecovered DEF Longer
<1> HIDE DEF P, Q
<1>7. IsFiniteSet(Q) /\ IsFiniteSet(P) /\ Cardinality(P) <= Cardinality(Q)
  BY <1>4, <1>5, <1>6, FS_Subset
<1>8. Cardinality(P) \in Nat /\ Cardinality(Q) \in Nat
  BY <1>7, FS_CardinalityType
<1>9. QED
  BY <1>3, <1>7, <1>8 DEF P

\* Nothing is counted before there is a plan.
LEMMA NothingCounted ==
  EmptyPlan.unrepresentable \in Nat /\ EmptyPlan.unresolved = [r \in Reasons |-> 0]
BY DEF EmptyPlan

LEMMA InitCounts ==
  ASSUME Init
  PROVE  CallsInv
BY NothingCounted DEF Init, CallsInv, ListsFollow

LEMMA IndexCounts ==
  ASSUME IInv, UNCHANGED importVars, phase = "tables"
  PROVE  CallsInv'
<1>1. phase' = "tables" /\ plan' = EmptyPlan
  BY DEF IInv, Scanning, importVars
<1>2. QED
  BY <1>1, NothingCounted DEF CallsInv, ListsFollow

\* The functions of the lists, counted list by list.
LEMMA ReadGrows ==
  ASSUME NEW n \in Nat, NEW l \in Nat, DOMAIN image.packer.modules[n + 1].functions = 1..l, IsFiniteSet(ReadFunctions(n))
  PROVE  /\ IsFiniteSet(ReadFunctions(n + 1))
         /\ Cardinality(ReadFunctions(n + 1)) = Cardinality(ReadFunctions(n)) + l
<1> DEFINE U == ReadFunctions(n)
           V == {<<n + 1, j>> : j \in 1..l}
<1>1. 1..(n + 1) = (1..n) \cup {n + 1} /\ n + 1 \notin 1..n
  OBVIOUS
<1>2. ReadFunctions(n + 1) = U \cup V
  BY <1>1 DEF ReadFunctions
<1>3. U \cap V = {}
  BY <1>1 DEF ReadFunctions
<1>4. IsFiniteSet(1..l) /\ Cardinality(1..l) = l
  BY FS_Interval
<1>5. IsFiniteSet(V) /\ Cardinality(V) = l
  BY <1>4, PairsCount
<1> HIDE DEF U, V
<1>6. IsFiniteSet(U)
  BY DEF U
<1>7. IsFiniteSet(U \cup V) /\ Cardinality(U \cup V) = Cardinality(U) + Cardinality(V)
  BY <1>3, <1>5, <1>6, DisjointSum
<1>8. QED
  BY <1>2, <1>5, <1>7 DEF U

LEMMA ListFacts ==
  ASSUME image \in Images
  PROVE  /\ Len(image.packer.modules) \in Nat
         /\ DOMAIN image.packer.modules = 1..Len(image.packer.modules)
         /\ image.packer.modules \in Seq(ToSet(image.packer.modules))
         /\ \A n \in DOMAIN image.packer.modules :
              LET m == image.packer.modules[n]
              IN  m.first \in Nat /\ Len(m.functions) \in Nat /\ DOMAIN m.functions = 1..Len(m.functions)
<1> DEFINE q == image.packer.modules
<1>1. q \in Seq(ToSet(q)) /\ \A m \in ToSet(q) : m.first \in Nat /\ m.functions \in Seq(ToSet(m.functions))
  BY ImagesAssumption
<1> HIDE DEF q
<1>2. Len(q) \in Nat /\ DOMAIN q = 1..Len(q)
  BY <1>1, SeqFacts
<1>3. ASSUME NEW n \in DOMAIN q
      PROVE  q[n].first \in Nat /\ Len(q[n].functions) \in Nat /\ DOMAIN q[n].functions = 1..Len(q[n].functions)
  <2>1. q[n] \in ToSet(q)
    BY DEF ToSet
  <2>2. q[n].functions \in Seq(ToSet(q[n].functions)) /\ q[n].first \in Nat
    BY <1>1, <2>1
  <2>3. QED
    BY <2>2, SeqFacts
<1>4. QED
  BY <1>1, <1>2, <1>3 DEF q

LEMMA ReadIsFinite ==
  ASSUME image \in Images
  PROVE  /\ \A c \in 0..Len(image.packer.modules) : IsFiniteSet(ReadFunctions(c))
         /\ ReadFunctions(Len(image.packer.modules)) = ListedFunctions
         /\ Cardinality(ReadFunctions(0)) = 0
<1> DEFINE n == Len(image.packer.modules)
           P == {c \in Nat : c <= n => IsFiniteSet(ReadFunctions(c))}
<1>1. n \in Nat /\ DOMAIN image.packer.modules = 1..n
  BY ListFacts
<1>2. ReadFunctions(n) = ListedFunctions
  BY <1>1 DEF ReadFunctions, ListedFunctions
<1>3. ReadFunctions(0) = {} /\ IsFiniteSet({}) /\ Cardinality({}) = 0
  BY FS_EmptySet DEF ReadFunctions
<1> HIDE DEF n
<1>4. \A c \in Nat : c \in P
  <2>1. 0 \in P
    BY <1>3
  <2>2. ASSUME NEW c \in Nat, c \in P
        PROVE  c + 1 \in P
    <3>1. ASSUME c + 1 <= n
          PROVE  IsFiniteSet(ReadFunctions(c + 1))
      <4>1. c + 1 \in DOMAIN image.packer.modules /\ c <= n
        BY <1>1, <3>1
      <4>2. PICK l \in Nat : DOMAIN image.packer.modules[c + 1].functions = 1..l
        BY <4>1, ListFacts
      <4>3. IsFiniteSet(ReadFunctions(c))
        BY <2>2, <4>1
      <4>4. QED
        BY <4>2, <4>3, ReadGrows
    <3>2. QED
      BY <3>1
  <2> HIDE DEF P
  <2>3. QED
    BY <2>1, <2>2, EveryNat
<1>5. \A c \in 0..n : IsFiniteSet(ReadFunctions(c))
  BY <1>1, <1>4
<1>6. QED
  BY <1>2, <1>3, <1>5 DEF n

LEMMA ListedIsFinite ==
  ASSUME image \in Images
  PROVE  IsFiniteSet(ListedFunctions) /\ Cardinality(ListedFunctions) \in Nat
<1>1. Len(image.packer.modules) \in 0..Len(image.packer.modules)
  BY ListFacts
<1>2. IsFiniteSet(ListedFunctions)
  BY <1>1, ReadIsFinite
<1>3. QED
  BY <1>2, FS_CardinalityType

\* The search for ranges and delay tables, up to where a list's plan ends.
LEMMA SearchCounts ==
  ASSUME IInv, CallsInv, image' = image, phase \in {"ranges", "delay"}, Longer(plan', plan), CountsMore(plan', plan),
         phase' = phase \/ phase' = "delay" \/ (phase' = "done" /\ ~ IsSearched)
  PROVE  CallsInv'
<1>1. /\ plan.unrepresentable \in Nat /\ plan.unresolved = [r \in Reasons |-> 0]
      /\ (image.packer.kind = "Listed" => phase = "delay")
      /\ (image.packer.kind = "Listed" /\ phase = "delay" /\ FitsIn => ListsCounted)
      /\ Tidy(plan)
  BY DEF CallsInv, IInv
<1>2. plan'.unrepresentable \in Nat /\ plan'.unrepresentable >= plan.unrepresentable /\ plan'.unresolved = plan.unresolved
  BY <1>1 DEF CountsMore
<1>3. IsSearched' <=> IsSearched
  BY DEF IsSearched
<1>4. ASSUME image.packer.kind = "Listed", FitsIn'
      PROVE  ListsCounted'
  <2>1. ListedFunctions' = ListedFunctions
    BY DEF ListedFunctions
  <2>2. FitsIn
    <3>1. ~ IsFull(plan') /\ Cardinality(ListedFunctions) <= MaxImports
      BY <1>4, <2>1 DEF FitsIn, IsFull
    <3>2. QED
      BY <1>1, <3>1, LimitsGrow DEF FitsIn
  <2>3. ListsCounted
    BY <1>1, <1>4, <2>2
  <2>4. Cardinality(PackedSlots) + plan.unrepresentable >= Cardinality(ListedFunctions)
    BY <2>3 DEF ListsCounted
  <2>5. Cardinality(PackedSlots) \in Nat /\ Cardinality(PackedSlots') \in Nat
        /\ Cardinality(PackedSlots) <= Cardinality(PackedSlots')
    BY <1>1, PackedStay
  <2> DEFINE a == Cardinality(PackedSlots)
             b == Cardinality(PackedSlots')
             c == Cardinality(ListedFunctions)
  <2>6. a + plan.unrepresentable >= c => b + plan'.unrepresentable >= c
    <3>1. a \in Nat /\ b \in Nat /\ a <= b /\ c \in Nat
      BY <2>5, ListedIsFinite DEF IInv
    <3> HIDE DEF a, b, c
    <3>2. QED
      BY <1>1, <1>2, <3>1
  <2>7. QED
    BY <2>1, <2>4, <2>6 DEF ListsCounted
<1>5. /\ phase' \in {"ranges", "delay", "done"}
      /\ (phase' = "done" => ~ IsSearched')
      /\ (image'.packer.kind = "Listed" => phase' \in {"delay", "done"})
  BY <1>1, <1>3
<1>6. ListsFollow'
  BY <1>5 DEF ListsFollow
<1>7. QED
  BY <1>1, <1>2, <1>4, <1>5, <1>6 DEF CallsInv

-----------------------------------------------------------------------------
\* A list of a packer is taken whole if there is room for it: each function of it is in the
\* plan or counted as one no import can be written for.
LEMMA PackFills ==
  ASSUME IInv, AddPackedModule, plan.unrepresentable \in Nat
  PROVE  /\ plan'.unrepresentable \in Nat /\ plan'.unresolved = plan.unresolved
         /\ ~ IsFull(plan') /\ plan.recovered + Len(scans[1].functions) <= MaxImports =>
              plan'.recovered + plan'.unrepresentable =
                plan.recovered + plan.unrepresentable + Len(scans[1].functions)
<1>. USE DEF IInv
<1> DEFINE m == Head(scans)
           l == Len(scans[1].functions)
           name == OwningModule(m)
           slots == m.first..(m.first + Len(m.functions) - 1)
           entry == [s \in slots |-> PackedEntry(m.functions[s - m.first + 1], s, name)]
           kept == {s \in slots : name # None /\ entry[s] # NoEntry /\ Representable(name, entry[s])}
           module == [s \in kept |-> name]
           u == plan.unrepresentable + Cardinality(slots \ kept)
<1>1. /\ phase = "modules" /\ scans # <<>>
      /\ plan' = PushAll([plan EXCEPT !.unrepresentable = @ + Cardinality(slots \ kept)],
                         Groups(kept, "Packer", entry, module), 1)
  BY DEF AddPackedModule
<1>2. m = scans[1] /\ m \in ToSet(image.packer.modules)
  <2> DEFINE T == ToSet(image.packer.modules)
  <2>1. scans \in Seq(T)
    BY <1>1 DEF Scanning
  <2>2. Head(scans) = scans[1] /\ scans[1] \in T
    <3> HIDE DEF T
    <3>1. QED
      BY <1>1, <2>1, HeadFacts
  <2>3. QED
    BY <2>2
<1>3. m.first \in Nat /\ l \in Nat /\ Len(m.functions) = l
  <2>1. m.first \in Nat /\ m.functions \in Seq(ToSet(m.functions))
    BY <1>2, ImagesAssumption
  <2>2. Len(m.functions) \in Nat
    BY <2>1, SeqFacts
  <2>3. QED
    BY <1>2, <2>1, <2>2
<1>4. slots \in SUBSET Nat /\ IsFiniteSet(slots) /\ Cardinality(slots) = l
  <2> DEFINE a == m.first
             b == a + l - 1
  <2>1. a \in Nat /\ b \in Int /\ b - a + 1 = l /\ (a > b <=> l = 0) /\ slots = a..b
    BY <1>3
  <2> HIDE DEF m, l, a, b, slots
  <2>2. slots \in SUBSET Nat
    BY <2>1
  <2>3. IsFiniteSet(a..b) /\ Cardinality(a..b) = l
    BY <1>3, <2>1, FS_Interval
  <2>4. QED
    BY <2>1, <2>2, <2>3
<1>5. kept \subseteq slots
  OBVIOUS
<1> HIDE DEF m, l, name, slots, entry, kept, module
<1>6. plan' = PushAll([plan EXCEPT !.unrepresentable = u], Groups(kept, "Packer", entry, module), 1)
  <2>1. [plan EXCEPT !.unrepresentable = u] = [plan EXCEPT !.unrepresentable = @ + Cardinality(slots \ kept)]
    <3>1. IsPlan(plan)
      BY DEF Tidy
    <3>2. QED
      BY <3>1 DEF IsPlan
  <2>2. QED
    BY <1>1, <2>1
<1>7. /\ kept \in SUBSET Nat /\ IsFiniteSet(kept) /\ IsFiniteSet(slots \ kept)
      /\ Cardinality(kept) \in Nat /\ Cardinality(slots \ kept) \in Nat
      /\ Cardinality(kept) + Cardinality(slots \ kept) = l
  <2>1. IsFiniteSet(kept) /\ IsFiniteSet(slots \ kept)
    BY <1>4, <1>5, FS_Subset
  <2>2. kept \cup (slots \ kept) = slots /\ kept \cap (slots \ kept) = {}
    BY <1>5
  <2>3. Cardinality(slots) = Cardinality(kept) + Cardinality(slots \ kept)
    BY <2>1, <2>2, DisjointSum
  <2>4. QED
    BY <1>4, <1>5, <2>1, <2>3, FS_CardinalityType
<1> DEFINE a == Cardinality(kept)
           b == Cardinality(slots \ kept)
<1>8. u \in Nat /\ a \in Nat /\ b \in Nat /\ a + b = l /\ u = plan.unrepresentable + b /\ Tidy(plan)
  BY <1>7
<1> HIDE DEF u, IInv
<1>9. plan'.unrepresentable = u /\ plan'.unresolved = plan.unresolved
  <2>1. kept \in SUBSET Nat /\ IsFiniteSet(kept) /\ Tidy(plan)
    BY <1>7, <1>8
  <2> HIDE DEF a, b
  <2>2. QED
    BY <1>6, <2>1, PushesCount
<1>10. ASSUME ~ IsFull(plan'), plan.recovered + l <= MaxImports
       PROVE  plan'.recovered + plan'.unrepresentable = plan.recovered + plan.unrepresentable + l
  <2>1. plan.recovered \in Nat /\ MaxImports \in Nat
    BY <1>8, LimitsAssumption DEF Tidy
  <2>2. plan.recovered + a <= MaxImports
    <3> HIDE DEF a, b
    <3>1. QED
      BY <1>3, <1>8, <1>10, <2>1
  <2>3. plan'.recovered = plan.recovered + a
    <3>1. plan.recovered + Cardinality(kept) <= MaxImports
      BY <2>2
    <3>2. kept \in SUBSET Nat /\ IsFiniteSet(kept) /\ Tidy(plan) /\ ~ IsFull(plan')
      BY <1>7, <1>8, <1>10
    <3> HIDE DEF a, b
    <3>3. plan'.recovered = plan.recovered + Cardinality(kept)
      BY <1>6, <3>1, <3>2, GroupsFill
    <3>4. QED
      BY <3>3 DEF a
  <2> DEFINE x == plan.recovered
             y == plan.unrepresentable
  <2>4. x \in Nat /\ y \in Nat /\ a \in Nat /\ b \in Nat /\ a + b = l
        /\ plan'.recovered = x + a /\ plan'.unrepresentable = y + b
    BY <1>8, <1>9, <2>1, <2>3
  <2> HIDE DEF a, b, x, y
  <2>5. (x + a) + (y + b) = x + y + l
    BY <2>4
  <2>6. QED
    BY <2>4, <2>5 DEF x, y
<1>11. QED
  BY <1>8, <1>9, <1>10 DEF l

-----------------------------------------------------------------------------
LEMMA GrewIsLonger ==
  ASSUME NEW t, NEW p, NEW free, NEW source, GrewTo(t, p, free, source)
  PROVE  Longer(t, p)
BY DEF GrewTo, Longer

LEMMA ChooseTablesCounts ==
  ASSUME IInv, ChooseTables
  PROVE  CallsInv'
<1>1. plan = EmptyPlan /\ image \in Images
  BY DEF IInv, Scanning, ChooseTables
<1>2. image' = image /\ \E e, i : plan' = [plan EXCEPT !.existing = e, !.keepIat = i]
  <2> DEFINE kind == image.packer.kind
             e == IF ExistingDescriptors # <<>> \/ kind = "Intact" THEN ExistingDescriptors ELSE OrphanedDescriptors
  <2>1. image' = image
    BY DEF ChooseTables
  <2>2. \/ plan' = [plan EXCEPT !.existing = e, !.keepIat = kind # "None"]
        \/ plan' = [plan EXCEPT !.keepIat = TRUE]
    BY DEF ChooseTables
  <2>3. [plan EXCEPT !.keepIat = TRUE] = [plan EXCEPT !.existing = plan.existing, !.keepIat = TRUE]
    BY <1>1 DEF EmptyPlan
  <2> HIDE DEF kind, e
  <2>4. QED
    BY <2>1, <2>2, <2>3
<1>3. /\ plan'.groups = <<>> /\ plan'.recovered = 0 /\ plan'.unrepresentable = 0
      /\ plan'.unresolved = [r \in Reasons |-> 0]
  BY <1>1, <1>2 DEF EmptyPlan
<1>4. \/ phase' = "ranges" /\ image.packer.kind # "Listed"
      \/ phase' = "modules" /\ image.packer.kind = "Listed" /\ scans' = image.packer.modules
  BY DEF ChooseTables
<1>5. ASSUME phase' = "modules"
      PROVE  ListsFollow'
  <2> DEFINE n == Len(image.packer.modules)
  <2>1. n \in Nat /\ scans' = image.packer.modules
    BY <1>1, <1>4, <1>5, ListFacts
  <2>2. ReadLists' = 0 /\ Len(scans') <= Len(image'.packer.modules)
    BY <1>2, <2>1 DEF ReadLists
  <2>3. \A i \in DOMAIN scans' : scans'[i] = image'.packer.modules[0 + i]
    <3>1. \A i \in DOMAIN scans' : 0 + i = i
      BY <1>1, <2>1, ListFacts
    <3>2. QED
      BY <1>2, <2>1, <3>1
  <2>4. Cardinality(ReadFunctions(0)') = 0
    <3>1. ReadFunctions(0)' = ReadFunctions(0)
      BY <1>2 DEF ReadFunctions
    <3>2. QED
      BY <1>1, <3>1, ReadIsFinite
  <2>5. DOMAIN plan'.groups = {}
    BY <1>3
  <2>6. Cardinality(ReadFunctions(ReadLists)') = 0
    BY <2>2, <2>4 DEF ReadFunctions
  <2>7. QED
    BY <1>3, <2>2, <2>3, <2>5, <2>6 DEF ListsFollow
<1>6. ListsFollow'
  BY <1>5 DEF ListsFollow
<1>7. QED
  BY <1>2, <1>3, <1>4, <1>6 DEF CallsInv

LEMMA AddPackedModuleCounts ==
  ASSUME IInv, CallsInv, AddPackedModule
  PROVE  CallsInv'
<1> DEFINE n == Len(image.packer.modules)
           c == ReadLists
           l == Len(scans[1].functions)
<1>1. /\ phase = "modules" /\ phase' = "modules" /\ image' = image /\ scans # <<>> /\ scans' = Tail(scans)
      /\ image \in Images /\ Tidy(plan) /\ image.packer.kind = "Listed"
  BY DEF AddPackedModule, IInv, Scanning
<1>2. /\ scans \in Seq(ToSet(scans)) /\ Len(scans) \in Nat \ {0} /\ DOMAIN scans = 1..Len(scans)
      /\ Len(scans') = Len(scans) - 1 /\ DOMAIN scans' = 1..(Len(scans) - 1)
      /\ \A i \in DOMAIN scans' : scans'[i] = scans[i + 1]
  <2> DEFINE T == ToSet(scans)
  <2>1. scans \in Seq(T)
    BY <1>1 DEF IInv, Scanning
  <2> HIDE DEF T
  <2>2. Len(scans) \in Nat \ {0} /\ DOMAIN scans = 1..Len(scans)
    BY <1>1, <2>1
  <2>3. Len(scans') = Len(scans) - 1 /\ DOMAIN scans' = 1..(Len(scans) - 1)
    BY <1>1, <2>1
  <2>4. \A i \in DOMAIN scans' : scans'[i] = scans[i + 1]
    BY <1>1, <2>1
  <2>5. QED
    BY <2>1, <2>2, <2>3, <2>4 DEF T
<1>3. n \in Nat /\ DOMAIN image.packer.modules = 1..n
  BY <1>1, ListFacts
<1>4. /\ Len(scans) <= n /\ \A i \in DOMAIN scans : scans[i] = image.packer.modules[c + i]
      /\ \A k \in DOMAIN plan.groups : plan.groups[k].source = "Packer"
      /\ (FitsIn => plan.recovered + plan.unrepresentable = Cardinality(ReadFunctions(c)))
      /\ plan.unrepresentable \in Nat /\ plan.unresolved = [r \in Reasons |-> 0]
  BY <1>1 DEF CallsInv, ListsFollow
<1>5. c = n - Len(scans) /\ c \in 0..n /\ c + 1 \in 1..n /\ ReadLists' = c + 1
  <2>1. c = n - Len(scans) /\ ReadLists' = n - Len(scans')
    BY <1>1 DEF ReadLists
  <2> HIDE DEF n, c
  <2>2. QED
    BY <1>2, <1>3, <1>4, <2>1
<1>6. scans[1] = image.packer.modules[c + 1] /\ l \in Nat /\ DOMAIN image.packer.modules[c + 1].functions = 1..l
  <2>1. 1 \in DOMAIN scans
    BY <1>2
  <2>2. scans[1] = image.packer.modules[c + 1]
    BY <1>4, <2>1
  <2> HIDE DEF c
  <2>3. QED
    BY <1>1, <1>3, <1>5, <2>2, ListFacts
<1>7. GrewTo(plan', plan, Ahead(1), "Packer")
  BY PackTakes
<1>8. Longer(plan', plan)
  BY <1>7, GrewIsLonger
<1>9. /\ plan'.unrepresentable \in Nat /\ plan'.unresolved = plan.unresolved
      /\ ~ IsFull(plan') /\ plan.recovered + l <= MaxImports =>
           plan'.recovered + plan'.unrepresentable = plan.recovered + plan.unrepresentable + l
  <2>1. plan.unrepresentable \in Nat
    BY <1>4
  <2> HIDE DEF c, n, l
  <2>2. /\ plan'.unrepresentable \in Nat /\ plan'.unresolved = plan.unresolved
        /\ ~ IsFull(plan') /\ plan.recovered + Len(scans[1].functions) <= MaxImports =>
             plan'.recovered + plan'.unrepresentable =
               plan.recovered + plan.unrepresentable + Len(scans[1].functions)
    BY <2>1, PackFills
  <2>3. QED
    BY <2>2 DEF l
<1>10. \A i \in DOMAIN scans' : scans'[i] = image.packer.modules[c + 1 + i]
  <2>1. TAKE i \in DOMAIN scans'
  <2>2. i + 1 \in DOMAIN scans /\ c + (i + 1) = c + 1 + i
    <3> DEFINE k == Len(scans)
    <3>1. k \in Nat /\ i \in 1..(k - 1) /\ c \in Nat
      BY <1>2, <1>3, <1>5
    <3> HIDE DEF k, c
    <3>2. i + 1 \in 1..k /\ c + (i + 1) = c + 1 + i
      BY <3>1
    <3>3. QED
      BY <1>2, <3>2 DEF k
  <2> HIDE DEF c
  <2>3. QED
    BY <1>2, <1>4, <2>2
<1>11. \A k \in DOMAIN plan'.groups : plan'.groups[k].source = "Packer"
  BY <1>1, <1>4, <1>7, GrewFacts
<1>12. ASSUME FitsIn'
       PROVE  plan'.recovered + plan'.unrepresentable = Cardinality(ReadFunctions(c + 1))
  <2>1. ~ IsFull(plan') /\ Cardinality(ListedFunctions) <= MaxImports
    BY <1>1, <1>12 DEF FitsIn, IsFull, ListedFunctions
  <2>2. FitsIn
    BY <1>1, <1>8, <2>1, LimitsGrow DEF FitsIn
  <2> DEFINE U == ReadFunctions(c)
             V == ReadFunctions(c + 1)
  <2>3. /\ IsFiniteSet(U) /\ IsFiniteSet(V) /\ Cardinality(V) = Cardinality(U) + l /\ V \subseteq ListedFunctions
        /\ IsFiniteSet(ListedFunctions)
    <3>1. n \in 0..n
      BY <1>3
    <3>2. IsFiniteSet(U) /\ IsFiniteSet(ListedFunctions)
      BY <1>1, <1>5, <3>1, ReadIsFinite
    <3>3. c \in Nat
      BY <1>3, <1>5
    <3>4. IsFiniteSet(V) /\ Cardinality(V) = Cardinality(U) + l
      <4> HIDE DEF c, l
      <4>1. QED
        BY <1>6, <3>2, <3>3, ReadGrows
    <3>5. V \subseteq ListedFunctions
      <4>1. 1..(c + 1) \subseteq 1..n
        <5> HIDE DEF c, n
        <5>1. QED
          BY <1>3, <1>5
      <4>2. QED
        BY <1>3, <4>1 DEF ReadFunctions, ListedFunctions
    <3>6. QED
      BY <3>2, <3>4, <3>5
  <2> HIDE DEF U, V
  <2>4. Cardinality(V) <= Cardinality(ListedFunctions)
    BY <2>3, FS_Subset
  <2> DEFINE v == Cardinality(V)
             w == Cardinality(U)
             x == Cardinality(ListedFunctions)
  <2>5. /\ v \in Nat /\ w \in Nat /\ x \in Nat /\ v = w + l /\ v <= x /\ x <= MaxImports
        /\ plan.recovered + plan.unrepresentable = w /\ plan.recovered \in Nat /\ MaxImports \in Nat
    BY <1>1, <1>4, <2>1, <2>2, <2>3, <2>4, FS_CardinalityType, LimitsAssumption DEF Tidy, U
  <2> HIDE DEF v, w, x, l
  <2>6. plan.recovered + l <= MaxImports
    BY <1>4, <1>6, <2>5
  <2>7. plan'.recovered + plan'.unrepresentable = plan.recovered + plan.unrepresentable + l
    BY <1>9, <2>1, <2>6
  <2>8. plan'.recovered + plan'.unrepresentable = v
    BY <1>4, <1>6, <2>5, <2>7
  <2>9. QED
    BY <2>8 DEF v, V
<1>13. ListsFollow'
  <2>1. ReadFunctions(ReadLists)' = ReadFunctions(c + 1)
    BY <1>1, <1>5 DEF ReadFunctions
  <2>2. Len(scans') <= n
    <3> HIDE DEF n
    <3>1. QED
      BY <1>2, <1>3, <1>4
  <2>3. QED
    BY <1>1, <1>5, <1>10, <1>11, <1>12, <2>1, <2>2 DEF ListsFollow
<1>14. ~ IsSearched'
  BY <1>1 DEF IsSearched
<1>15. QED
  BY <1>1, <1>4, <1>9, <1>13, <1>14 DEF CallsInv

\* Once all lists are read, what they name is in the tables or counted.
LEMMA ListsEndCounts ==
  ASSUME IInv, CallsInv, phase = "modules", ChooseDelayTables
  PROVE  CallsInv'
<1>1. /\ phase' = "delay" /\ image' = image /\ plan' = plan /\ scans = <<>>
      /\ image \in Images /\ Tidy(plan) /\ image.packer.kind = "Listed"
  BY DEF ChooseDelayTables, IInv, Scanning
<1>2. ReadFunctions(ReadLists) = ListedFunctions
  <2>1. Len(image.packer.modules) \in Nat
    BY <1>1, ListFacts
  <2>2. ReadLists = Len(image.packer.modules)
    BY <1>1, <2>1 DEF ReadLists
  <2>3. QED
    BY <1>1, <2>2, ReadIsFinite
<1>3. /\ \A k \in DOMAIN plan.groups : plan.groups[k].source = "Packer"
      /\ (FitsIn => plan.recovered + plan.unrepresentable = Cardinality(ListedFunctions))
      /\ plan.unrepresentable \in Nat /\ plan.unresolved = [r \in Reasons |-> 0]
  BY <1>2 DEF CallsInv, ListsFollow
<1>4. Cardinality(PackedSlots) = plan.recovered
  <2>1. DOMAIN plan.groups = 1..Len(plan.groups)
    BY <1>1, SeqFacts DEF Tidy
  <2>2. {k \in DOMAIN plan.groups : plan.groups[k].source = "Packer"} = 1..Len(plan.groups)
    BY <1>3, <2>1
  <2>3. PackedSlots = Places(plan, Len(plan.groups))
    BY <2>2 DEF PackedSlots, Places
  <2>4. QED
    BY <1>1, <2>3, PlacesAreRecovered
<1>5. FitsIn => ListsCounted
  <2>1. plan.recovered + plan.unrepresentable \in Nat
    BY <1>1, <1>3 DEF Tidy
  <2>2. QED
    BY <1>3, <1>4, <2>1 DEF ListsCounted
<1>6. (FitsIn' <=> FitsIn) /\ (ListsCounted' <=> ListsCounted)
  BY <1>1 DEF FitsIn, ListsCounted, PackedSlots, ListedFunctions, IsFull, GroupSlots
<1>7. QED
  BY <1>1, <1>3, <1>5, <1>6 DEF CallsInv, ListsFollow

\* However the code's references end, the count of what cannot be written is a number.
LEMMA RecoverKeepsCount ==
  ASSUME IInv, RecoverReferenced, plan.unrepresentable \in Nat
  PROVE  plan'.unrepresentable \in Nat
<1> DEFINE data == {s \in DOMAIN Referenced : Unclaimed(s) /\ InDataSection(s)}
           wanted == {s \in data : HoldsImport(s) /\ Believed(s)}
           InTime(s) == Cardinality({r \in wanted : r < s}) < MaxImports - plan.recovered
           Called(r) == {s \in data : InTime(s) /\ Referenced[s] = "Called" /\ Reason(image.cells[s]) = r}
           outside == {s \in DOMAIN Referenced : Unclaimed(s) /\ ~ InDataSection(s) /\ InTime(s)
                                                  /\ Referenced[s] = "Called" /\ HoldsImport(s)}
           a == plan.ambiguousSlots \cup {s \in data : InTime(s) /\ IsAmbiguous(s)}
           b == [r \in Reasons |-> plan.unresolved[r] + Cardinality(Called(r))]
           c == plan.outside + Cardinality(outside)
           seen == [plan EXCEPT !.ambiguousSlots = @ \cup {s \in data : InTime(s) /\ IsAmbiguous(s)},
                                !.unresolved = [r \in Reasons |-> @[r] + Cardinality(Called(r))],
                                !.outside = @ + Cardinality(outside)]
           slots == {s \in wanted : InTime(s)}
<1>1. plan' = IF IsFull(plan) THEN plan ELSE AppendGroups(seen, slots, 1, "Inferred")
  BY DEF RecoverReferenced
<1>2. IsPlan(plan) /\ Tidy(plan) /\ image \in Images
  BY DEF IInv, Tidy
<1>3. seen = [plan EXCEPT !.ambiguousSlots = a, !.unresolved = b, !.outside = c]
  <2> HIDE DEF data, InTime, Called, outside
  <2>1. QED
    BY <1>2 DEF IsPlan
<1>4. slots \in SUBSET DOMAIN Referenced
  OBVIOUS
<1> HIDE DEF seen, slots, a, b, c
<1>5. IsPlan(seen) /\ seen.groups = plan.groups /\ seen.recovered = plan.recovered /\ seen.unrepresentable = plan.unrepresentable
  BY <1>2, <1>3 DEF IsPlan
<1>6. Tidy(seen)
  BY <1>2, <1>5 DEF Tidy, Sized
<1>7. slots \in SUBSET Nat /\ IsFiniteSet(slots)
  BY <1>2, <1>4, ReferencedFacts, FS_Subset
<1>8. CountsMore(AppendGroups(seen, slots, 1, "Inferred"), seen)
  BY <1>6, <1>7, AppendsCount
<1>9. QED
  BY <1>1, <1>5, <1>8 DEF CountsMore

LEMMA RecoverReferencedCounts ==
  ASSUME IInv, CallsInv, RecoverReferenced
  PROVE  CallsInv'
<1>1. phase = "delay" /\ phase' = "count" /\ image' = image /\ IsSearched /\ image.packer.kind # "Listed"
  BY DEF RecoverReferenced, IsSearched
<1>2. plan.unrepresentable \in Nat /\ plan.unresolved = [r \in Reasons |-> 0]
  BY <1>1 DEF CallsInv
<1>3. plan'.unrepresentable \in Nat
  BY <1>2, RecoverKeepsCount
<1>4. HasRoom' => ReferencesCounted'
  BY <1>2, RecoverCounts
<1>5. IsSearched' <=> IsSearched
  BY <1>1 DEF IsSearched
<1>6. QED
  BY <1>1, <1>3, <1>4, <1>5 DEF CallsInv, ListsFollow

\* What was counted stays counted as long as the tables do not grow.
LEMMA CountedStays ==
  ASSUME image' = image, addresses' = addresses, modules' = modules,
         plan'.groups = plan.groups, plan'.recovered = plan.recovered,
         plan'.existing = plan.existing, plan'.unboundSlots = plan.unboundSlots,
         plan'.unresolved = plan.unresolved, plan'.unrepresentable = plan.unrepresentable,
         plan'.ambiguousSlots = plan.ambiguousSlots
  PROVE  (HasRoom' <=> HasRoom) /\ (ReferencesCounted => ReferencesCounted')
<1>1. /\ Referenced' = Referenced
      /\ \A s : InDataSection(s)' <=> InDataSection(s)
      /\ \A s : (IsAmbiguous(s)' <=> IsAmbiguous(s)) /\ (Believed(s)' <=> Believed(s))
      /\ \A s : \A r \in Reasons : (Reason(image.cells[s]) = r)' <=> Reason(image.cells[s]) = r
  BY ReadingStays
<1>2. \A s : (HoldsImport(s)' <=> HoldsImport(s)) /\ SymbolAt(s)' = SymbolAt(s)
  BY HeldStays
<1>3. RecoveredSlots(plan') = RecoveredSlots(plan)
  BY DEF RecoveredSlots
<1>4. \A s : Unclaimed(s)' <=> Unclaimed(s)
  <2>1. \A s : Unclaimed(s)' <=> Unclaimed(s) /\ s \notin RecoveredSlots(plan')
    BY <1>3, UnclaimedStays
  <2>2. \A s : Unclaimed(s) => s \notin RecoveredSlots(plan)
    BY DEF Unclaimed
  <2>3. QED
    BY <1>3, <2>1, <2>2
<1>5. HasRoom' <=> HasRoom
  <2> DEFINE left == {s \in DOMAIN Referenced : Unclaimed(s) /\ InDataSection(s) /\ HoldsImport(s) /\ Believed(s)}
  <2>1. left' = left
    BY <1>1, <1>2, <1>4
  <2>2. ListedFunctions' = ListedFunctions
    BY DEF ListedFunctions
  <2> DEFINE Room == /\ ~ IsFull(plan) /\ plan.recovered + Cardinality(left) < MaxImports
                     /\ image.packer.kind = "Listed" => Cardinality(ListedFunctions) <= MaxImports
  <2>3. (HasRoom <=> Room) /\ (HasRoom' <=> Room')
    BY DEF HasRoom
  <2> HIDE DEF left
  <2>4. Room' <=> Room
    BY <2>1, <2>2 DEF IsFull
  <2>5. QED
    BY <2>3, <2>4
<1>6. OpenCalls' = OpenCalls
  BY <1>1, <1>4 DEF OpenCalls
<1>7. Unwritten' = Unwritten
  BY <1>2, <1>6 DEF Unwritten, OwnName
<1>8. ASSUME ReferencesCounted
      PROVE  ReferencesCounted'
  <2>1. ASSUME NEW r \in Reasons
        PROVE  plan'.unresolved[r] = Cardinality({s \in OpenCalls : Reason(image.cells[s]) = r}')
    <3>1. {s \in OpenCalls : Reason(image.cells[s]) = r}' = {s \in OpenCalls : Reason(image.cells[s]) = r}
      BY <1>1, <1>6
    <3>2. QED
      BY <1>8, <3>1 DEF ReferencesCounted
  <2>2. {s \in OpenCalls : IsAmbiguous(s)}' \subseteq plan'.ambiguousSlots
    BY <1>1, <1>6, <1>8 DEF ReferencesCounted
  <2>3. \A s \in Unwritten' : ~ Representable(SymbolAt(s)'.module, SymbolAt(s)')
    BY <1>2, <1>7, <1>8 DEF ReferencesCounted
  <2>4. plan'.unrepresentable >= Cardinality(Unwritten')
    BY <1>7, <1>8 DEF ReferencesCounted
  <2>5. QED
    BY <2>1, <2>2, <2>3, <2>4 DEF ReferencesCounted, Representable
<1>9. QED
  BY <1>5, <1>8

\* The last lines change none of what was counted.
LEMMA CountCounts ==
  ASSUME IInv, CallsInv, Count
  PROVE  CallsInv'
<1>1. /\ image' = image /\ UNCHANGED exportVars /\ phase' = "done" /\ IsPlan(plan) /\ Tidy(plan)
      /\ (phase = "count" \/ (phase = "delay" /\ image.packer.kind \in {"Listed", "Intact"}))
      /\ plan' = [plan EXCEPT !.ambiguous = IF phase = "count" THEN Cardinality(plan.ambiguousSlots) ELSE 0,
                              !.unresolvedDelay = Cardinality(plan.unboundSlots)]
  BY DEF Count, IInv, Tidy
<1>2. \E a, d : /\ plan' = [plan EXCEPT !.ambiguous = a, !.unresolvedDelay = d]
                /\ a = IF phase = "count" THEN Cardinality(plan.ambiguousSlots) ELSE 0
  BY <1>1
<1>3. /\ plan'.groups = plan.groups /\ plan'.recovered = plan.recovered
      /\ plan'.existing = plan.existing /\ plan'.unboundSlots = plan.unboundSlots /\ IsPlan(plan')
      /\ plan'.unresolved = plan.unresolved /\ plan'.unrepresentable = plan.unrepresentable
      /\ plan'.ambiguousSlots = plan.ambiguousSlots
      /\ (phase = "count" => plan'.ambiguous = Cardinality(plan.ambiguousSlots))
  BY <1>1, <1>2 DEF IsPlan
<1>4. CASE phase = "delay" /\ image.packer.kind \in {"Listed", "Intact"}
  <2>1. Tidy(plan')
    BY <1>1, <1>3 DEF Tidy, Sized
  <2>2. Len(plan.groups) \in Nat
    BY <1>1, SeqFacts DEF Tidy
  <2>3. Longer(plan', plan)
    BY <1>3, <2>1, <2>2 DEF Longer
  <2>4. CountsMore(plan', plan)
    BY <1>3 DEF CountsMore
  <2>5. ~ IsSearched
    BY <1>4 DEF IsSearched
  <2>6. QED
    BY <1>1, <1>4, <2>3, <2>4, <2>5, SearchCounts
<1>5. CASE phase = "count"
  <2>1. IsSearched /\ (HasRoom => ReferencesCounted) /\ plan.unrepresentable \in Nat /\ image.packer.kind # "Listed"
    BY <1>5 DEF CallsInv, IsSearched
  <2>2. addresses' = addresses /\ modules' = modules
    BY <1>1 DEF exportVars
  <2>3. (HasRoom' <=> HasRoom) /\ (ReferencesCounted => ReferencesCounted')
    BY <1>1, <1>3, <2>2, CountedStays
  <2>4. IsSearched' <=> IsSearched
    BY <1>1 DEF IsSearched
  <2>5. plan'.ambiguous = Cardinality(plan'.ambiguousSlots)
    BY <1>3, <1>5
  <2>6. QED
    BY <1>1, <1>3, <2>1, <2>3, <2>4, <2>5 DEF CallsInv, ListsFollow
<1>6. QED
  BY <1>1, <1>4, <1>5

LEMMA StutterCounts ==
  ASSUME CallsInv, UNCHANGED vars
  PROVE  CallsInv'
<1>1. image' = image /\ plan' = plan /\ phase' = phase /\ scans' = scans /\ addresses' = addresses /\ modules' = modules
  BY DEF vars, importVars, exportVars
<1>2. (HasRoom' <=> HasRoom) /\ (ReferencesCounted => ReferencesCounted')
  BY <1>1, CountedStays
<1>3. (FitsIn' <=> FitsIn) /\ (ListsCounted' <=> ListsCounted)
  BY <1>1 DEF FitsIn, ListsCounted, PackedSlots, ListedFunctions, IsFull, GroupSlots
<1>4. ListsFollow' <=> ListsFollow
  BY <1>1, <1>3 DEF ListsFollow, ReadLists, ReadFunctions
<1>5. IsSearched' <=> IsSearched
  BY <1>1 DEF IsSearched
<1>6. QED
  BY <1>1, <1>2, <1>3, <1>4, <1>5 DEF CallsInv

LEMMA CallsSteps == IInv /\ PlanBacked /\ EInv /\ CallsInv /\ [Next]_vars => CallsInv'
<1> SUFFICES ASSUME IInv, PlanBacked, EInv, CallsInv, [Next]_vars
             PROVE  CallsInv'
  OBVIOUS
<1>0. Tidy(plan)
  BY DEF IInv
<1>1. CASE (ParseModule \/ FollowForwarder) /\ UNCHANGED importVars
  <2>1. ~ IndexIsBuilt
    BY <1>1, IndexIsNotBuilt
  <2>2. phase = "tables"
    BY <2>1 DEF PlanBacked
  <2>3. QED
    BY <1>1, <2>2, IndexCounts
<1>2. CASE ChooseTables
  BY <1>2, ChooseTablesCounts
<1>3. CASE StartScan
  <2>1. plan' = plan \/ plan' = [plan EXCEPT !.unboundSlots = @ \cup Unbound(Head(scans))]
    BY <1>3 DEF StartScan
  <2>2. /\ IsPlan(plan') /\ plan'.groups = plan.groups /\ plan'.recovered = plan.recovered
        /\ plan'.unresolved = plan.unresolved /\ plan'.unrepresentable = plan.unrepresentable
    BY <1>0, <2>1 DEF Tidy, IsPlan
  <2>3. Tidy(plan') /\ Len(plan.groups) \in Nat
    BY <1>0, <2>2, SeqFacts DEF Tidy, Sized
  <2>4. Longer(plan', plan) /\ CountsMore(plan', plan)
    <3>1. Longer(plan', plan)
      BY <2>2, <2>3 DEF Longer
    <3>2. CountsMore(plan', plan)
      BY <2>2 DEF CountsMore
    <3>3. QED
      BY <3>1, <3>2
  <2>5. phase \in {"ranges", "delay"} /\ phase' = phase /\ image' = image
    BY <1>3 DEF StartScan
  <2>6. QED
    BY <2>4, <2>5, SearchCounts
<1>4. CASE ScanRun
  <2>1. phase \in {"ranges", "delay"} /\ phase' = phase /\ image' = image
    BY <1>4 DEF ScanRun
  <2>2. PICK free \in SUBSET Nat : GrewTo(plan', plan, free, scans[1].source) /\ CountsMore(plan', plan)
    BY <1>4, <2>1, ScanTakes
  <2>3. Longer(plan', plan)
    BY <2>2, GrewIsLonger
  <2>4. QED
    BY <2>1, <2>2, <2>3, SearchCounts
<1>5. CASE AddPackedModule
  BY <1>5, AddPackedModuleCounts
<1>6. CASE ChooseDelayTables
  <2>1. phase = "modules" \/ phase = "ranges"
    BY <1>6 DEF ChooseDelayTables
  <2>2. CASE phase = "modules"
    BY <1>6, <2>2, ListsEndCounts
  <2>3. CASE phase = "ranges"
    <3>1. phase' = "delay" /\ image' = image /\ plan' = plan
      BY <1>6 DEF ChooseDelayTables
    <3>2. Len(plan.groups) \in Nat
      BY <1>0, SeqFacts DEF Tidy
    <3>3. Tidy(plan')
      BY <1>0, <3>1
    <3>4. Longer(plan', plan)
      BY <3>1, <3>2, <3>3 DEF Longer
    <3>5. CountsMore(plan', plan)
      BY <3>1 DEF CountsMore
    <3>6. QED
      BY <2>3, <3>1, <3>4, <3>5, SearchCounts
  <2>4. QED
    BY <2>1, <2>2, <2>3
<1>7. CASE RecoverReferenced
  BY <1>7, RecoverReferencedCounts
<1>8. CASE Count
  BY <1>8, CountCounts
<1>9. CASE UNCHANGED vars
  BY <1>9, StutterCounts
<1>10. QED
  BY <1>1, <1>2, <1>3, <1>4, <1>5, <1>6, <1>7, <1>8, <1>9 DEF Next

LEMMA CountsFromInvariant == IInv /\ CallsInv => CallsAreAccounted
<1> SUFFICES ASSUME IInv, CallsInv, IsDone, HasRoom
             PROVE  /\ IsSearched => ReferencesCounted /\ plan.ambiguous = Cardinality(plan.ambiguousSlots)
                    /\ image.packer.kind = "Listed" => ListsCounted
  BY DEF CallsAreAccounted, IsSearched
<1>1. phase = "done"
  BY DEF IsDone
<1>2. image.packer.kind = "Listed" => FitsIn
  BY DEF HasRoom, FitsIn
<1>3. QED
  BY <1>1, <1>2 DEF CallsInv

\* Whatever the image, its code and what a packer listed are: unless a limit is reached, a
\* slot of the data that code calls through ends up in a table or is counted, under its own
\* reason, as ambiguous or as unrepresentable, and so does every function that was listed
\* (recover_referenced_imports, record_unresolved_call, append_groups, add_packed_module).
THEOREM CallsAreCounted == Spec => []CallsAreAccounted
<1>1. Init => CallsInv
  BY InitCounts
<1>2. Spec => []CallsInv
  BY <1>1, CallsSteps, PlansStayApart, PlansAreBacked, IndexIsSound, PTL DEF Spec
<1>3. QED
  BY <1>2, CountsFromInvariant, PlansStayApart, PTL
=============================================================================
