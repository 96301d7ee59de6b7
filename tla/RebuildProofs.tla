---------------------------- MODULE RebuildProofs ----------------------------
(***************************************************************************)
(* Theorems about Rebuild, for any images, plans, overlays and sizes: what *)
(* the operators of Layout return, then the invariant of the layout, of    *)
(* what is laid out, of the header and of SizeOfImage.                     *)
(***************************************************************************)
EXTENDS Rebuild, FiniteSetTheorems, WellFoundedInduction, TLAPS

LEMMA AlignUpFacts ==
  ASSUME NEW n \in Nat, NEW a \in Nat \ {0}
  PROVE  AlignUp(n, a) \in Nat /\ AlignUp(n, a) >= n /\ \E k \in Nat : AlignUp(n, a) = k * a
<1> DEFINE q == (n + a - 1) \div a
<1>1. q \in Nat  OBVIOUS
<1>2. q * a >= n  OBVIOUS
<1>3. q * a \in Nat  BY <1>1
<1> QED  BY <1>1, <1>2, <1>3 DEF AlignUp

LEMMA AlignedWitness ==
  ASSUME NEW n \in Nat, NEW a \in Nat \ {0}, NEW k \in Nat, n = k * a
  PROVE  Aligned(n, a)
<1>1. k <= n  OBVIOUS
<1> QED  BY <1>1 DEF Aligned

LEMMA AlignedSum ==
  ASSUME NEW n \in Nat, NEW m \in Nat, NEW a \in Nat \ {0}, Aligned(n, a), Aligned(m, a)
  PROVE  Aligned(n + m, a)
<1>1. PICK k \in 0..n : n = k * a  BY DEF Aligned
<1>2. PICK l \in 0..m : m = l * a  BY DEF Aligned
<1>3. n + m = (k + l) * a  BY <1>1, <1>2
<1>4. k + l \in Nat /\ n + m \in Nat  OBVIOUS
<1> QED  BY <1>3, <1>4, AlignedWitness

SectionType == [va : Nat, vs : Nat, raw : Nat, flags : SUBSET Flags, name : Int]

LEMMA ExpandedType ==
  ASSUME NEW m \in Images, NEW s \in SectionType, NEW limit
  PROVE  Expanded(m, s, limit) \in Nat
<1> DEFINE seen == {c \in m.nonzero : c < limit /\ \E r \in m.regions :
                      r.readable /\ r.offset <= c /\ c < r.offset + r.size}
           room == (s.va + Span(s))..m.length
           inside == {b \in room : \E c \in seen : b <= c}
<1>1. Span(s) \in Nat /\ s.va \in Nat  BY DEF Span, Larger, SectionType
<1>2. IsFiniteSet(room)
  <2>1. s.va + Span(s) \in Int /\ m.length \in Int  BY <1>1, ImagesAssumption
  <2> QED  BY <2>1, FS_Interval
<1>3. inside \in SUBSET room  OBVIOUS
<1>4. IsFiniteSet(inside)  BY <1>2, <1>3, FS_Subset
<1>5. Cardinality(inside) \in Nat  BY <1>4, FS_CardinalityType
<1>6. Expanded(m, s, limit) = Span(s) + Cardinality(inside)  BY DEF Expanded
<1> QED  BY <1>1, <1>5, <1>6

LEMMA RecoveredType ==
  ASSUME NEW m \in Images
  PROVE  Recovered(m) \in Seq(SectionType)
<1>1. m.sections \in Seq(SectionType) /\ m.size \in Nat /\ m.length \in Nat
  BY ImagesAssumption DEF SectionType
<1>2. ASSUME NEW i \in DOMAIN m.sections PROVE RecoverSection(m, m.sections, i) \in SectionType
  <2> DEFINE s == m.sections[i]
             limit == Smaller(NextRva(m.sections, i, m.size), m.length)
             flags == RecoveredFlags(m, s, Smaller(s.va + Expanded(m, s, limit), limit))
  <2>1. s \in SectionType  BY <1>1
  <2>3. Expanded(m, s, limit) \in Nat  BY <2>1, ExpandedType
  <2>4. flags \in SUBSET Flags  BY <2>1 DEF RecoveredFlags, Flags, SectionType
  <2> HIDE DEF s, limit, flags
  <2>5. [s EXCEPT !.vs = IF Expanded(m, s, limit) > Span(s) THEN Expanded(m, s, limit) ELSE s.vs,
                  !.flags = flags] \in SectionType
    BY <2>1, <2>3, <2>4 DEF SectionType
  <2>6. \/ RecoverSection(m, m.sections, i) = s
        \/ RecoverSection(m, m.sections, i) =
             [s EXCEPT !.vs = IF Expanded(m, s, limit) > Span(s) THEN Expanded(m, s, limit) ELSE s.vs,
                       !.flags = flags]
    BY DEF RecoverSection, s, limit, flags
  <2> QED  BY <2>1, <2>5, <2>6
<1>3. Len(m.sections) \in Nat /\ DOMAIN m.sections = 1..Len(m.sections)  BY <1>1
<1> QED  BY <1>2, <1>3 DEF Recovered

LEMMA SourceLengthType ==
  ASSUME NEW i \in Indices, sections \in Seq(SectionType)
  PROVE  SourceLength(i) \in Nat
<1> DEFINE s == sections[i]
           span == s.va..(s.va + Span(s) - 1)
           inside == {rva \in span : rva < Smaller(image.length, NextRva(sections, i, image.length))}
<1>1. s \in SectionType  BY DEF Indices
<1>2. s.va \in Int /\ s.va + Span(s) - 1 \in Int  BY <1>1, SMTT(30) DEF Span, Larger, SectionType
<1>3. IsFiniteSet(span)  BY <1>2, FS_Interval
<1>4. inside \in SUBSET span  OBVIOUS
<1>5. IsFiniteSet(inside)  BY <1>3, <1>4, FS_Subset
<1> QED  BY <1>5, FS_CardinalityType DEF SourceLength

LEMMA ProductType == \A m, n \in Nat : m * n \in Nat
OBVIOUS

LEMMA HeaderSizeType ==
  ASSUME NEW ss \in Seq(SectionType), NEW a \in Nat \ {0}, NEW reserve
  PROVE  HeaderSize(ss, a, reserve) \in Nat /\ Aligned(HeaderSize(ss, a, reserve), a)
<1>1. TableEnd(ss) \in Nat /\ TableEnd(ss) + SectionHeader \in Nat
  <2>1. Len(ss) \in Nat  OBVIOUS
  <2>2. SectionHeader \in Nat  BY SizesAssumption
  <2>3. Len(ss) * SectionHeader \in Nat  BY <2>1, <2>2, ProductType
  <2> QED  BY <2>2, <2>3, SizesAssumption DEF TableEnd
<1>2. \A n \in {TableEnd(ss), TableEnd(ss) + SectionHeader} :
        AlignUp(n, a) \in Nat /\ Aligned(AlignUp(n, a), a)
  BY <1>1, AlignUpFacts, AlignedWitness
<1> QED  BY <1>2 DEF HeaderSize

-----------------------------------------------------------------------------
(* Operators of module Layout. *)

LEMMA LeastOf ==
  ASSUME NEW S \in SUBSET Nat, S # {}
  PROVE  Least(S) \in S /\ \A y \in S : Least(S) <= y
<1>1. PICK x \in S : \A y \in S : ~ (<<y, x>> \in OpToRel(<, Nat))
  BY NatLessThanWellFounded, WFMin
<1>2. \A y \in S : ~ (y < x)  BY <1>1 DEF OpToRel
<1>3. \A y \in S : x <= y  BY <1>2
<1> QED  BY <1>3 DEF Least

LEMMA GreatestOf ==
  ASSUME NEW S \in SUBSET Nat, S # {}, NEW bound \in Nat, \A x \in S : x <= bound
  PROVE  Greatest(S) \in S /\ \A y \in S : y <= Greatest(S)
<1> DEFINE gaps == {bound - x : x \in S}
<1>1. gaps \in SUBSET Nat /\ gaps # {}
  <2>1. \A x \in S : bound - x \in Nat  OBVIOUS
  <2> QED  BY <2>1
<1>2. Least(gaps) \in gaps /\ \A y \in gaps : Least(gaps) <= y  BY <1>1, LeastOf
<1>3. PICK x \in S : Least(gaps) = bound - x  BY <1>2
<1>4. \A y \in S : x >= y
  <2>1. ASSUME NEW y \in S PROVE x >= y
    <3>1. bound - x <= bound - y  BY <1>2, <1>3
    <3> QED  BY <3>1
  <2> QED  BY <2>1
<1>5. Greatest(S) \in S /\ \A y \in S : Greatest(S) >= y  BY <1>4 DEF Greatest
<1> QED  BY <1>5

\* The values of a sequence have a bound.
LEMMA SequencesAreBounded ==
  ASSUME NEW n \in Nat, NEW f \in [1..n -> Nat]
  PROVE  \E bound \in Nat : \A i \in 1..n : f[i] <= bound
<1> DEFINE Bounded(k) == \E bound \in Nat : \A i \in 1..k : f[i] <= bound
           unbounded == {k \in 0..n : ~ Bounded(k)}
<1>1. unbounded = {} => Bounded(n)
  <2>1. n \in 0..n  OBVIOUS
  <2> HIDE DEF Bounded
  <2> QED  BY <2>1
<1>2. SUFFICES ASSUME unbounded # {} PROVE FALSE  BY <1>1
<1>3. PICK k \in unbounded : \A l \in unbounded : k <= l
  <2>1. unbounded \in SUBSET Nat  OBVIOUS
  <2> HIDE DEF unbounded
  <2> QED  BY <1>2, <2>1, LeastOf
<1>4. k # 0
  <2>1. \A i \in 1..0 : f[i] <= 0  OBVIOUS
  <2> QED  BY <1>3, <2>1
<1>5. k \in 1..n /\ k - 1 \in 0..n
  <2>1. k \in 0..n  OBVIOUS
  <2> QED  BY <1>4, <2>1
<1>6. PICK b \in Nat : \A i \in 1..(k - 1) : f[i] <= b
  <2>1. k - 1 \notin unbounded
    <3>1. ~ (k <= k - 1)  BY <1>5
    <3> QED  BY <1>3, <3>1
  <2>2. Bounded(k - 1)
    <3> HIDE DEF Bounded
    <3> QED  BY <1>5, <2>1
  <2> QED  BY <2>2
<1>7. f[k] \in Nat  BY <1>5
<1>8. Larger(b, f[k]) \in Nat /\ b <= Larger(b, f[k]) /\ f[k] <= Larger(b, f[k])  BY <1>7 DEF Larger
<1>9. \A i \in 1..k : f[i] <= Larger(b, f[k])
  <2>1. ASSUME NEW i \in 1..k PROVE f[i] <= Larger(b, f[k])
    <3>1. CASE i = k  BY <3>1, <1>8
    <3>2. CASE i # k
      <4>1. i \in 1..(k - 1)  BY <3>2
      <4>2. f[i] <= b /\ f[i] \in Nat  BY <1>6, <4>1
      <4> QED  BY <1>8, <4>2
    <3> QED  BY <3>1, <3>2
  <2> QED  BY <2>1
<1>10. Bounded(k)  BY <1>8, <1>9
<1> HIDE DEF Bounded
<1> QED  BY <1>10

LEMMA SizesOf ==
  ASSUME NEW s \in SectionType
  PROVE  /\ s.va \in Nat /\ s.vs \in Nat /\ s.raw \in Nat
         /\ MappedSize(s) \in Nat /\ Span(s) \in Nat /\ MappedSize(s) <= Span(s)
         /\ s.vs <= Span(s) /\ (s.vs # 0 => MappedSize(s) = s.vs)
BY DEF SectionType, MappedSize, Span, Larger

LEMMA SectionsIndexed ==
  ASSUME NEW ss \in Seq(SectionType)
  PROVE  /\ Len(ss) \in Nat /\ DOMAIN ss = 1..Len(ss) /\ DOMAIN ss \in SUBSET Nat
         /\ \A i \in DOMAIN ss : ss[i] \in SectionType /\ ss[i].va \in Nat
<1>1. Len(ss) \in Nat /\ DOMAIN ss = 1..Len(ss)  OBVIOUS
<1>2. \A i \in DOMAIN ss : ss[i] \in SectionType  OBVIOUS
<1> QED  BY <1>1, <1>2, SizesOf

LEMMA BeforeIsTotal ==
  ASSUME NEW ss \in Seq(SectionType), NEW i \in DOMAIN ss, NEW j \in DOMAIN ss, i # j
  PROVE  /\ Before(ss, i, j) \/ Before(ss, j, i)
         /\ Before(ss, i, j) => ~ Before(ss, j, i) /\ ss[i].va <= ss[j].va
BY SectionsIndexed DEF Before

LEMMA NextRvaFacts ==
  ASSUME NEW ss \in Seq(SectionType), NEW i \in DOMAIN ss, NEW end \in Nat
  PROVE  /\ NextRva(ss, i, end) \in Nat
         /\ NextRva(ss, i, end) = end \/ \E j \in DOMAIN ss : Before(ss, i, j) /\ NextRva(ss, i, end) = ss[j].va
         /\ \A j \in DOMAIN ss : Before(ss, i, j) => NextRva(ss, i, end) <= ss[j].va
<1> DEFINE later == {ss[j].va : j \in {k \in DOMAIN ss : Before(ss, i, k)}}
<1>1. later \in SUBSET Nat  BY SectionsIndexed
<1>2. NextRva(ss, i, end) = IF later = {} THEN end ELSE Least(later)  BY DEF NextRva
<1>3. CASE later = {}
  <2>1. \A j \in DOMAIN ss : ~ Before(ss, i, j)  BY <1>3
  <2> QED  BY <1>2, <1>3, <2>1
<1>4. CASE later # {}
  <2>1. Least(later) \in later /\ \A y \in later : Least(later) <= y  BY <1>1, <1>4, LeastOf
  <2> QED  BY <1>1, <1>2, <1>4, <2>1
<1> QED  BY <1>3, <1>4

\* A section grows at most up to the limit.
LEMMA ExpandedBound ==
  ASSUME NEW m \in Images, NEW s \in SectionType, NEW limit \in Nat
  PROVE  /\ Expanded(m, s, limit) \in Nat
         /\ Expanded(m, s, limit) > Span(s) => s.va + Expanded(m, s, limit) <= limit
<1> DEFINE seen == {c \in m.nonzero : c < limit /\ \E r \in m.regions :
                      r.readable /\ r.offset <= c /\ c < r.offset + r.size}
           inside == {b \in (s.va + Span(s))..m.length : \E c \in seen : b <= c}
           start == s.va + Span(s)
           room == start..(limit - 1)
<1>1. start \in Nat /\ m.length \in Nat /\ m.nonzero \in SUBSET Nat /\ s.va \in Nat /\ Span(s) \in Nat
  BY SizesOf, ImagesAssumption
<1>2. Expanded(m, s, limit) = Span(s) + Cardinality(inside)  BY DEF Expanded
<1>3. inside \in SUBSET room
  <2>1. ASSUME NEW b \in inside PROVE b \in room
    <3>1. PICK c \in seen : b <= c  BY <2>1
    <3>2. c \in Nat /\ c < limit  BY <1>1, <3>1
    <3>3. b \in Int /\ start <= b  BY <1>1, <2>1
    <3>4. b <= limit - 1  BY <3>1, <3>2, <3>3
    <3> QED  BY <3>3, <3>4
  <2> QED  BY <2>1
<1>4. IsFiniteSet(room) /\ Cardinality(room) = IF start > limit - 1 THEN 0 ELSE limit - 1 - start + 1
  <2>1. start \in Int /\ limit - 1 \in Int  BY <1>1
  <2> QED  BY <2>1, FS_Interval
<1>5. IsFiniteSet(inside) /\ Cardinality(inside) <= Cardinality(room)  BY <1>3, <1>4, FS_Subset
<1>6. Cardinality(inside) \in Nat  BY <1>5, FS_CardinalityType
<1> HIDE DEF inside, room
<1>7. Cardinality(inside) > 0 => Cardinality(inside) <= limit - start  BY <1>1, <1>4, <1>5, <1>6
<1> QED  BY <1>1, <1>2, <1>6, <1>7 DEF start

\* What recover_section_headers leaves alone, and how far a section grows.
LEMMA RecoveredFacts ==
  ASSUME NEW m \in Images, NEW i \in DOMAIN m.sections
  PROVE  LET s == m.sections[i]
             r == Recovered(m)[i]
         IN  /\ r.va = s.va /\ r.raw = s.raw /\ r.name = s.name
             /\ \/ r.vs = s.vs
                \/ /\ r.vs > Span(s)
                   /\ r.va + r.vs <= NextRva(m.sections, i, m.size)
                   /\ r.va + r.vs <= m.length
<1> DEFINE s == m.sections[i]
           r == RecoverSection(m, m.sections, i)
           next == NextRva(m.sections, i, m.size)
           limit == Smaller(next, m.length)
           e == Expanded(m, s, limit)
<1>1. m.sections \in Seq(SectionType) /\ m.size \in Nat /\ m.length \in Nat
  BY ImagesAssumption DEF SectionType
<1>2. s \in SectionType /\ s.va \in Nat  BY <1>1, SectionsIndexed
<1>3. next \in Nat  BY <1>1, NextRvaFacts
<1>4. limit \in Nat /\ limit <= next /\ limit <= m.length  BY <1>1, <1>3 DEF Smaller
<1>5. e \in Nat /\ (e > Span(s) => s.va + e <= limit)  BY <1>2, <1>4, ExpandedBound
<1>6. \/ r = s
      \/ \E fs : r = [s EXCEPT !.vs = IF e > Span(s) THEN e ELSE s.vs, !.flags = fs]
  BY DEF RecoverSection
<1> HIDE DEF s, r, next, limit, e
<1>7. /\ r.va = s.va /\ r.raw = s.raw /\ r.name = s.name
      /\ r.vs = s.vs \/ (e > Span(s) /\ r.vs = e)
  BY <1>2, <1>6 DEF SectionType
<1>8. r.vs = s.vs \/ (r.vs > Span(s) /\ r.va + r.vs <= next /\ r.va + r.vs <= m.length)
  BY <1>1, <1>2, <1>3, <1>4, <1>5, <1>7
<1>9. Recovered(m)[i] = r  BY DEF Recovered, r
<1> QED  BY <1>7, <1>8, <1>9 DEF s, next

LEMMA RecoveredSections ==
  ASSUME NEW m \in Images
  PROVE  /\ m.sections \in Seq(SectionType) /\ Recovered(m) \in Seq(SectionType)
         /\ DOMAIN Recovered(m) = DOMAIN m.sections /\ Len(Recovered(m)) = Len(m.sections)
         /\ \A i, j \in DOMAIN m.sections : Before(Recovered(m), i, j) <=> Before(m.sections, i, j)
<1>1. m.sections \in Seq(SectionType)  BY ImagesAssumption DEF SectionType
<1>2. Recovered(m) \in Seq(SectionType)  BY RecoveredType
<1>3. DOMAIN Recovered(m) = DOMAIN m.sections  BY DEF Recovered
<1>4. Len(Recovered(m)) = Len(m.sections)
  <2>1. /\ DOMAIN Recovered(m) = 1..Len(Recovered(m)) /\ Len(Recovered(m)) \in Nat
        /\ DOMAIN m.sections = 1..Len(m.sections) /\ Len(m.sections) \in Nat
    BY <1>1, <1>2, SectionsIndexed
  <2>2. \A a, b \in Nat : 1..a = 1..b => a = b
    <3>1. ASSUME NEW a \in Nat, NEW b \in Nat, 1..a = 1..b, a < b PROVE FALSE
      <4>1. b \in 1..b /\ b \notin 1..a  BY <3>1
      <4> QED  BY <3>1, <4>1
    <3>2. ASSUME NEW a \in Nat, NEW b \in Nat, 1..a = 1..b PROVE a = b
      <4>1. ~ (a < b) /\ ~ (b < a)  BY <3>1, <3>2
      <4> QED  BY <4>1
    <3> QED  BY <3>2
  <2> QED  BY <1>3, <2>1, <2>2
<1>5. \A i \in DOMAIN m.sections : Recovered(m)[i].va = m.sections[i].va  BY RecoveredFacts
<1>6. \A i, j \in DOMAIN m.sections : Before(Recovered(m), i, j) <=> Before(m.sections, i, j)
  BY <1>5 DEF Before
<1> QED  BY <1>1, <1>2, <1>3, <1>4, <1>6

\* The mapped part of a recovered section ends before the sections behind it.
LEMMA KeepsClear ==
  ASSUME NEW m \in Images, ~ CutOff(m.sections), SectionsFit(m.sections, m.size),
         NEW i \in DOMAIN m.sections, NEW j \in DOMAIN m.sections, Before(m.sections, i, j),
         MappedSize(Recovered(m)[i]) # 0
  PROVE  Recovered(m)[i].va + MappedSize(Recovered(m)[i]) <= Recovered(m)[j].va
<1> DEFINE s == m.sections[i]
           t == m.sections[j]
           r == Recovered(m)[i]
           next == NextRva(m.sections, i, m.size)
<1>1. m.sections \in Seq(SectionType) /\ Recovered(m) \in Seq(SectionType) /\ m.size \in Nat
  BY RecoveredSections, ImagesAssumption
<1>2. s \in SectionType /\ t \in SectionType /\ r \in SectionType
  BY <1>1, SectionsIndexed, RecoveredSections
<1>3. i # j /\ s.va <= t.va
  BY <1>1, <1>2, SectionsIndexed DEF Before
<1>4. Recovered(m)[j].va = t.va /\ r.va = s.va /\ r.raw = s.raw  BY RecoveredFacts
<1>5. CASE r.vs = s.vs
  <2>1. MappedSize(r) = MappedSize(s)  BY <1>4, <1>5 DEF MappedSize
  <2>2. CASE MappedSize(t) # 0
    <3>1. s.va + MappedSize(s) <= t.va \/ t.va + MappedSize(t) <= s.va
      BY <1>3, <2>1, <2>2 DEF SectionsFit
    <3> QED  BY <1>2, <1>3, <1>4, <2>1, <2>2, <3>1, SizesOf
  <2>3. CASE MappedSize(t) = 0
    <3>1. t.va \notin s.va..(s.va + Span(s) - 1)  BY <1>3, <2>3 DEF CutOff
    <3>2. s.va \in Nat /\ t.va \in Nat /\ Span(s) \in Nat /\ MappedSize(s) \in Nat /\ MappedSize(s) <= Span(s)
      BY <1>2, SizesOf
    <3> HIDE DEF s, t, r
    <3>3. s.va + MappedSize(s) <= t.va  BY <1>3, <3>1, <3>2
    <3> USE DEF s, t, r
    <3> QED  BY <1>4, <2>1, <3>3
  <2> QED  BY <2>2, <2>3
<1>6. CASE r.vs > Span(s) /\ r.va + r.vs <= next
  <2>1. next \in Nat /\ next <= t.va  BY <1>1, NextRvaFacts
  <2>2. MappedSize(r) = r.vs  BY <1>2, <1>6, SizesOf
  <2> QED  BY <1>2, <1>4, <1>6, <2>1, <2>2, SizesOf
<1> QED  BY <1>5, <1>6, RecoveredFacts

\* Unless an empty section lies behind the image, no section grows past its end.
LEMMA GrowsInside ==
  ASSUME NEW m \in Images, ~ Stray(m), SectionsFit(m.sections, m.size), NEW i \in DOMAIN m.sections,
         Recovered(m)[i].vs # m.sections[i].vs
  PROVE  Recovered(m)[i].va + Recovered(m)[i].vs <= m.size
<1> DEFINE next == NextRva(m.sections, i, m.size)
<1>1. m.sections \in Seq(SectionType) /\ Recovered(m) \in Seq(SectionType) /\ m.size \in Nat
  BY RecoveredSections, ImagesAssumption
<1>2. Recovered(m)[i] \in SectionType  BY <1>1, SectionsIndexed, RecoveredSections
<1>3. next \in Nat /\ next <= m.size
  <2>1. ASSUME NEW j \in DOMAIN m.sections PROVE m.sections[j].va <= m.size
    <3> DEFINE t == m.sections[j]
    <3>1. t \in SectionType  BY <1>1, SectionsIndexed
    <3>2. t.va \in Nat /\ MappedSize(t) \in Nat  BY <3>1, SizesOf
    <3>3. MappedSize(t) = 0 => ~ (t.va > m.size)  BY DEF Stray
    <3>4. MappedSize(t) # 0 => t.va + MappedSize(t) <= m.size  BY DEF SectionsFit
    <3> HIDE DEF t
    <3>5. t.va <= m.size  BY <1>1, <3>2, <3>3, <3>4
    <3> QED  BY <3>5 DEF t
  <2>2. /\ next \in Nat
        /\ next = m.size \/ \E j \in DOMAIN m.sections : next = m.sections[j].va
    BY <1>1, NextRvaFacts
  <2> HIDE DEF next
  <2> QED  BY <1>1, <2>1, <2>2
<1>4. Recovered(m)[i].va + Recovered(m)[i].vs <= next  BY RecoveredFacts
<1>5. Recovered(m)[i].va \in Nat /\ Recovered(m)[i].vs \in Nat  BY <1>2, SizesOf
<1> HIDE DEF next
<1> QED  BY <1>1, <1>3, <1>4, <1>5

LEMMA RecoveredSizeType ==
  ASSUME NEW m \in Images
  PROVE  RecoveredSize(m) \in Nat
<1> DEFINE ends == {Recovered(m)[i].va + Recovered(m)[i].vs :
                      i \in {j \in DOMAIN m.sections : Recovered(m)[j].vs # m.sections[j].vs}}
           end == Greatest({m.size} \cup ends)
           bound == Larger(m.size, m.length)
<1>1. m.size \in Nat /\ m.length \in Nat /\ m.sectionAlignment \in Nat \ {0}  BY ImagesAssumption
<1>2. bound \in Nat /\ m.size <= bound /\ m.length <= bound  BY <1>1 DEF Larger
<1>3. \A e \in ends : e \in Nat /\ e <= bound
  <2> HIDE DEF bound
  <2>1. ASSUME NEW i \in DOMAIN m.sections, Recovered(m)[i].vs # m.sections[i].vs
        PROVE  /\ Recovered(m)[i].va + Recovered(m)[i].vs \in Nat
               /\ Recovered(m)[i].va + Recovered(m)[i].vs <= bound
    <3>1. Recovered(m)[i] \in SectionType  BY SectionsIndexed, RecoveredSections
    <3>2. Recovered(m)[i].va \in Nat /\ Recovered(m)[i].vs \in Nat  BY <3>1, SizesOf
    <3>3. Recovered(m)[i].va + Recovered(m)[i].vs <= m.length  BY <2>1, RecoveredFacts
    <3> QED  BY <1>1, <1>2, <3>2, <3>3
  <2> QED  BY <2>1
<1>4. end \in Nat
  <2> HIDE DEF ends, bound
  <2>1. {m.size} \cup ends \in SUBSET Nat /\ {m.size} \cup ends # {}  BY <1>1, <1>3
  <2>2. \A e \in {m.size} \cup ends : e <= bound  BY <1>2, <1>3
  <2> QED  BY <1>2, <2>1, <2>2, GreatestOf
<1>5. RecoveredSize(m) = IF end > m.size THEN AlignUp(end, m.sectionAlignment) ELSE m.size
  BY DEF RecoveredSize
<1> HIDE DEF end
<1> QED  BY <1>1, <1>4, <1>5, AlignUpFacts

LEMMA SizeStays ==
  ASSUME NEW m \in Images, ~ Stray(m), SectionsFit(m.sections, m.size)
  PROVE  RecoveredSize(m) = m.size
<1> DEFINE ends == {Recovered(m)[i].va + Recovered(m)[i].vs :
                      i \in {j \in DOMAIN m.sections : Recovered(m)[j].vs # m.sections[j].vs}}
           end == Greatest({m.size} \cup ends)
<1>1. m.size \in Nat  BY ImagesAssumption
<1>2. \A e \in ends : e \in Nat /\ e <= m.size
  <2>1. ASSUME NEW i \in DOMAIN m.sections, Recovered(m)[i].vs # m.sections[i].vs
        PROVE  /\ Recovered(m)[i].va + Recovered(m)[i].vs \in Nat
               /\ Recovered(m)[i].va + Recovered(m)[i].vs <= m.size
    <3>1. Recovered(m)[i] \in SectionType  BY SectionsIndexed, RecoveredSections
    <3> QED  BY <2>1, <3>1, SizesOf, GrowsInside
  <2> QED  BY <2>1
<1>3. RecoveredSize(m) = IF end > m.size THEN AlignUp(end, m.sectionAlignment) ELSE m.size
  BY DEF RecoveredSize
<1>4. end = m.size
  <2> HIDE DEF ends
  <2>1. {m.size} \cup ends \in SUBSET Nat /\ {m.size} \cup ends # {}  BY <1>1, <1>2
  <2>2. \A e \in {m.size} \cup ends : e <= m.size  BY <1>1, <1>2
  <2>3. end \in {m.size} \cup ends /\ m.size <= end  BY <1>1, <2>1, <2>2, GreatestOf
  <2> QED  BY <1>1, <2>1, <2>2, <2>3
<1> QED  BY <1>1, <1>3, <1>4

\* The sections that are recovered fit where the captured ones fitted.
LEMMA RecoveredFit ==
  ASSUME NEW m \in Images, ~ CutOff(m.sections), ~ Stray(m), SectionsFit(m.sections, m.size)
  PROVE  SectionsFit(Recovered(m), m.size)
<1> DEFINE ss == Recovered(m)
<1>1. /\ m.sections \in Seq(SectionType) /\ ss \in Seq(SectionType) /\ m.size \in Nat
      /\ DOMAIN ss = DOMAIN m.sections
  BY RecoveredSections, ImagesAssumption
<1>2. ASSUME NEW i \in DOMAIN ss, MappedSize(ss[i]) # 0
      PROVE  ss[i].va + MappedSize(ss[i]) <= m.size
  <2>1. ss[i] \in SectionType  BY <1>1, SectionsIndexed
  <2>2. CASE ss[i].vs = m.sections[i].vs
    <3>1. MappedSize(ss[i]) = MappedSize(m.sections[i]) /\ ss[i].va = m.sections[i].va
      BY <1>1, <2>2, RecoveredFacts DEF MappedSize
    <3> QED  BY <1>1, <1>2, <3>1 DEF SectionsFit
  <2>3. CASE ss[i].vs # m.sections[i].vs
    <3>1. ss[i].vs > Span(m.sections[i])  BY <1>1, <2>3, RecoveredFacts
    <3>2. m.sections[i] \in SectionType  BY <1>1, SectionsIndexed
    <3>3. MappedSize(ss[i]) = ss[i].vs  BY <2>1, <3>1, <3>2, SizesOf
    <3> QED  BY <1>1, <2>3, <3>3, GrowsInside
  <2> QED  BY <2>2, <2>3
<1>3. ASSUME NEW i \in DOMAIN ss, NEW j \in DOMAIN ss, i # j, MappedSize(ss[i]) # 0, MappedSize(ss[j]) # 0
      PROVE  ss[i].va + MappedSize(ss[i]) <= ss[j].va \/ ss[j].va + MappedSize(ss[j]) <= ss[i].va
  <2>1. Before(m.sections, i, j) \/ Before(m.sections, j, i)  BY <1>1, <1>3, BeforeIsTotal
  <2> QED  BY <1>1, <1>3, <2>1, KeepsClear
<1> HIDE DEF ss
<1>4. SectionsFit(ss, m.size)  BY <1>2, <1>3 DEF SectionsFit
<1> QED  BY <1>4 DEF ss

\* Every section that is mapped after the recovery begins behind the headers that a
\* scan has found.
LEMMA HeadersStayInFront ==
  ASSUME NEW m \in Images, m.salvaged, ~ Stray(m), TableEnd(m.sections) <= FirstRva(m.sections)
  PROVE  TableEnd(m.sections) <= FirstRva(Recovered(m))
<1> DEFINE before == {m.sections[i].va : i \in {j \in DOMAIN m.sections : MappedSize(m.sections[j]) # 0}}
           after == {Recovered(m)[i].va : i \in {j \in DOMAIN Recovered(m) : MappedSize(Recovered(m)[j]) # 0}}
           end == TableEnd(m.sections)
<1>1. m.sections \in Seq(SectionType) /\ Recovered(m) \in Seq(SectionType)
      /\ DOMAIN Recovered(m) = DOMAIN m.sections
  BY RecoveredSections
<1>2. before \in SUBSET Nat /\ after \in SUBSET Nat  BY <1>1, SectionsIndexed
<1>3. end \in Int /\ MaxOutput \in Nat
  <2>1. Len(m.sections) \in Nat /\ SectionHeader \in Nat /\ TableStart \in Nat  BY <1>1, SizesAssumption
  <2>2. Len(m.sections) * SectionHeader \in Nat  BY <2>1, ProductType
  <2> QED  BY <2>1, <2>2, SizesAssumption DEF TableEnd
<1>4. ASSUME NEW i \in DOMAIN m.sections, MappedSize(Recovered(m)[i]) # 0
      PROVE  end <= Recovered(m)[i].va
  <2>1. Recovered(m)[i].va = m.sections[i].va /\ m.sections[i].va \in Nat
    BY <1>1, RecoveredFacts, SectionsIndexed
  <2>2. CASE MappedSize(m.sections[i]) = 0
    <3>1. ~ (m.sections[i].va < end)  BY <2>2 DEF Stray
    <3> QED  BY <1>3, <2>1, <3>1
  <2>3. CASE MappedSize(m.sections[i]) # 0
    <3>1. m.sections[i].va \in before  BY <2>3
    <3>2. FirstRva(m.sections) = Least(before)  BY <3>1 DEF FirstRva
    <3>3. Least(before) \in Nat /\ Least(before) <= m.sections[i].va  BY <1>2, <3>1, LeastOf
    <3> QED  BY <1>3, <2>1, <3>2, <3>3
  <2> QED  BY <2>2, <2>3
<1>5. CASE after = {}
  <2>1. ASSUME NEW i \in DOMAIN m.sections PROVE MappedSize(m.sections[i]) = 0
    <3>1. MappedSize(Recovered(m)[i]) = 0  BY <1>1, <1>5
    <3>2. m.sections[i] \in SectionType /\ Recovered(m)[i] \in SectionType  BY <1>1, SectionsIndexed
    <3>3. Recovered(m)[i].vs = m.sections[i].vs /\ Recovered(m)[i].raw = m.sections[i].raw
      BY <3>1, <3>2, RecoveredFacts, SizesOf DEF MappedSize
    <3> QED  BY <3>1, <3>3 DEF MappedSize
  <2>2. before = {}  BY <2>1
  <2>3. FirstRva(m.sections) = MaxOutput  BY <2>2 DEF FirstRva
  <2>4. FirstRva(Recovered(m)) = MaxOutput  BY <1>5 DEF FirstRva
  <2> QED  BY <2>3, <2>4
<1>6. CASE after # {}
  <2>1. FirstRva(Recovered(m)) = Least(after)  BY <1>6 DEF FirstRva
  <2>2. Least(after) \in after  BY <1>2, <1>6, LeastOf
  <2> QED  BY <1>1, <1>4, <2>1, <2>2
<1> QED  BY <1>5, <1>6

\* recover_section_headers never makes an image unreadable.
LEMMA StillParses ==
  ASSUME NEW m \in Images, Parses(m, m.sections, m.size), ~ CutOff(m.sections), ~ Stray(m)
  PROVE  Parses(m, Recovered(m), RecoveredSize(m))
<1>1. SectionsFit(m.sections, m.size)  BY DEF Parses
<1>2. RecoveredSize(m) = m.size  BY <1>1, SizeStays
<1>3. SectionsFit(Recovered(m), m.size)  BY <1>1, RecoveredFit
<1>4. Len(Recovered(m)) = Len(m.sections) /\ TableEnd(Recovered(m)) = TableEnd(m.sections)
  BY RecoveredSections DEF TableEnd
<1>5. m.salvaged => TableEnd(Recovered(m)) <= FirstRva(Recovered(m))
  BY <1>4, HeadersStayInFront DEF Parses
<1> QED  BY <1>2, <1>3, <1>4, <1>5 DEF Parses

LEMMA MultiplesDiffer ==
  ASSUME NEW n \in Nat, NEW a \in 1..n, NEW b \in 1..n, NEW k \in Nat, NEW l \in Nat, k < l
  PROVE  a + k * n # b + l * n
<1>1. (k + 1) * n <= l * n
  <2>1. \A d, e \in Nat : d <= e => d * n <= e * n
    <3>1. ASSUME NEW d \in Nat, NEW e \in Nat, d <= e PROVE d * n <= e * n
      <4>1. e - d \in Nat /\ (e - d) * n >= 0  BY <3>1
      <4>2. e * n = d * n + (e - d) * n  BY <3>1
      <4>3. d * n \in Int /\ e * n \in Int /\ (e - d) * n \in Int  BY <4>1
      <4> QED  BY <4>1, <4>2, <4>3
    <3> QED  BY <3>1
  <2> QED  BY <2>1
<1>2. (k + 1) * n = k * n + n  OBVIOUS
<1>3. k * n \in Nat /\ l * n \in Nat  BY ProductType
<1> QED  BY <1>1, <1>2, <1>3

\* The positions of different sections in the order of their addresses differ.
LEMMA PositionsDiffer ==
  ASSUME sections \in Seq(SectionType), NEW i \in Indices
  PROVE  /\ Position(i) \in 1..Len(sections)
         /\ \A j \in Indices : i # j => Position(i) # Position(j)
<1> DEFINE Earlier(k) == {j \in Indices : Before(sections, j, k)}
<1>1. Indices = 1..Len(sections) /\ Len(sections) \in Nat  BY SectionsIndexed DEF Indices
<1>2. IsFiniteSet(Indices) /\ Cardinality(Indices) = Len(sections)
  BY <1>1, FS_Interval, SMTT(30)
<1>3. ASSUME NEW k \in Indices
      PROVE  IsFiniteSet(Earlier(k)) /\ Cardinality(Earlier(k)) \in Nat /\ Cardinality(Earlier(k)) < Len(sections)
  <2>1. k \notin Earlier(k)  BY SectionsIndexed DEF Before, Indices
  <2>2. Earlier(k) \in SUBSET Indices /\ Earlier(k) # Indices  BY <2>1
  <2> HIDE DEF Earlier
  <2>3. IsFiniteSet(Earlier(k)) /\ Cardinality(Earlier(k)) <= Len(sections)  BY <1>2, <2>2, FS_Subset
  <2>4. Cardinality(Earlier(k)) # Len(sections)  BY <1>2, <2>2, FS_Subset
  <2>5. Cardinality(Earlier(k)) \in Nat  BY <2>3, FS_CardinalityType
  <2> QED  BY <1>1, <2>3, <2>4, <2>5
<1>4. ASSUME NEW k \in Indices, NEW l \in Indices, Before(sections, k, l)
      PROVE  Cardinality(Earlier(k)) < Cardinality(Earlier(l))
  <2>1. k \notin Earlier(k) /\ k \in Earlier(l)  BY <1>4, SectionsIndexed DEF Before, Indices
  <2>2. \A j \in Earlier(k) : j \in Earlier(l)  BY <1>4, SectionsIndexed DEF Before, Indices
  <2>3. Earlier(k) \in SUBSET Earlier(l) /\ Earlier(k) # Earlier(l)  BY <2>1, <2>2
  <2> HIDE DEF Earlier
  <2>4. IsFiniteSet(Earlier(l)) /\ Cardinality(Earlier(l)) \in Nat /\ Cardinality(Earlier(k)) \in Nat  BY <1>3
  <2>5. Cardinality(Earlier(k)) <= Cardinality(Earlier(l)) /\ Cardinality(Earlier(k)) # Cardinality(Earlier(l))
    BY <2>3, <2>4, FS_Subset
  <2> QED  BY <2>4, <2>5
<1>5. \A k \in Indices : Position(k) = Cardinality(Earlier(k)) + 1  BY DEF Position
<1> HIDE DEF Earlier
<1>6. Position(i) \in 1..Len(sections)  BY <1>1, <1>3, <1>5
<1>7. ASSUME NEW j \in Indices, i # j PROVE Position(i) # Position(j)
  <2>1. Before(sections, i, j) \/ Before(sections, j, i)  BY <1>7, BeforeIsTotal DEF Indices
  <2>2. Cardinality(Earlier(i)) # Cardinality(Earlier(j))  BY <1>3, <1>4, <2>1
  <2> QED  BY <1>3, <1>5, <2>2
<1> QED  BY <1>6, <1>7

\* A replacement name is one of those that are tried, and no other section has it.
LEMMA FreeName ==
  ASSUME sections \in Seq(SectionType), NEW i \in Indices, sections[i].name = Unreadable,
         FinalName(i) # Unreadable
  PROVE  \E k \in Nat : /\ FinalName(i) = Position(i) + k * Len(sections)
                        /\ \A j \in Indices \ {i} : sections[j].name # Position(i) + k * Len(sections)
<1> DEFINE n == Len(sections)
           p == Position(i)
           others == Indices \ {i}
           free == {k \in 0..(MaxRenames - 1) : \A j \in others : sections[j].name # p + k * n}
<1>1. free # {} /\ FinalName(i) = p + Least(free) * n  BY DEF FinalName
<1>2. free \in SUBSET Nat  BY SizesAssumption
<1>3. Least(free) \in free /\ Least(free) \in Nat
  <2> HIDE DEF free
  <2> QED  BY <1>1, <1>2, LeastOf
<1>4. \A j \in others : sections[j].name # p + Least(free) * n  BY <1>3
<1> QED  BY <1>1, <1>3, <1>4

LEMMA NamesStayApart ==
  ASSUME sections \in Seq(SectionType), NEW i \in Indices, NEW j \in Indices, i # j,
         sections[i].name = Unreadable, FinalName(i) # Unreadable
  PROVE  FinalName(i) # FinalName(j)
<1>1. PICK k \in Nat : /\ FinalName(i) = Position(i) + k * Len(sections)
                       /\ \A o \in Indices \ {i} : sections[o].name # Position(i) + k * Len(sections)
  BY FreeName
<1>2. CASE sections[j].name # Unreadable
  <2>1. FinalName(j) = sections[j].name  BY <1>2 DEF FinalName
  <2> QED  BY <1>1, <2>1
<1>3. CASE FinalName(j) = Unreadable  BY <1>3
<1>4. CASE sections[j].name = Unreadable /\ FinalName(j) # Unreadable
  <2>1. PICK l \in Nat : FinalName(j) = Position(j) + l * Len(sections)  BY <1>4, FreeName
  <2>2. /\ Position(i) \in 1..Len(sections) /\ Position(j) \in 1..Len(sections)
        /\ Position(i) # Position(j) /\ Len(sections) \in Nat
    BY PositionsDiffer, SectionsIndexed
  <2>3. CASE k = l
    <3>1. l * Len(sections) \in Nat  BY <2>2, ProductType
    <3> QED  BY <1>1, <2>1, <2>2, <2>3, <3>1
  <2>4. CASE k < l  BY <1>1, <2>1, <2>2, <2>4, MultiplesDiffer
  <2>5. CASE l < k  BY <1>1, <2>1, <2>2, <2>5, MultiplesDiffer
  <2> QED  BY <2>3, <2>4, <2>5
<1> QED  BY <1>2, <1>3, <1>4

-----------------------------------------------------------------------------
(* The length of a section in the file. *)

LEMMA LengthIsRoom ==
  ASSUME sections \in Seq(SectionType), image.length \in Nat, NEW i \in Indices,
         NEW rva \in Nat, sections[i].va <= rva
  PROVE  rva - sections[i].va < SourceLength(i) <=>
           /\ rva < sections[i].va + Span(sections[i])
           /\ rva < image.length /\ rva < NextRva(sections, i, image.length)
<1> DEFINE s == sections[i]
           limit == Smaller(image.length, NextRva(sections, i, image.length))
           end == Smaller(s.va + Span(s), limit)
           inside == {r \in s.va..(s.va + Span(s) - 1) : r < limit}
<1>1. s.va \in Nat /\ Span(s) \in Nat  BY SectionsIndexed, SizesOf DEF Indices
<1>2. NextRva(sections, i, image.length) \in Nat  BY NextRvaFacts DEF Indices
<1>3. limit \in Nat /\ end \in Nat  BY <1>1, <1>2 DEF Smaller
<1>4. inside = s.va..(end - 1)
  <2> DEFINE next == NextRva(sections, i, image.length)
  <2> HIDE DEF next
  <2>1. next \in Nat  BY <1>2 DEF next
  <2>2. \A r \in Int : r <= end - 1 <=> r <= s.va + Span(s) - 1 /\ r < limit
    BY <1>1, <1>3 DEF Smaller
  <2> HIDE DEF end, limit, s
  <2> QED  BY <1>1, <1>3, <2>2
<1>5. Cardinality(inside) = IF s.va > end - 1 THEN 0 ELSE end - 1 - s.va + 1
  <2>1. end - 1 \in Int /\ s.va \in Int  BY <1>1, <1>3
  <2> HIDE DEF end, s, inside
  <2> QED  BY <1>4, <2>1, FS_Interval
<1>6. SourceLength(i) = Cardinality(inside)  BY DEF SourceLength
<1>7. rva < end <=> /\ rva < s.va + Span(s)
                    /\ rva < image.length /\ rva < NextRva(sections, i, image.length)
  BY <1>1, <1>2 DEF Smaller
<1> HIDE DEF inside, end
<1>8. rva - s.va < SourceLength(i) <=> rva < end
  <2> HIDE DEF s
  <2>1. s.va <= rva  BY DEF s
  <2> QED  BY <1>1, <1>3, <1>5, <1>6, <2>1
<1> QED  BY <1>7, <1>8

-----------------------------------------------------------------------------
Steps == {"parse", "unparsed", "plan", "layout", "error", "directories", "exception", "debug", "base",
          "imports", "finalize", "overlay", "done"}
Early == {"parse", "unparsed", "plan"}
Repairing == {"directories", "exception", "debug", "base", "imports"}

Typed ==
  /\ pc \in Steps /\ image \in Images /\ sections \in Seq(SectionType)
  /\ headerSize \in Nat /\ rawOffset \in Nat /\ headerSize <= rawOffset
  /\ Aligned(rawOffset, image.fileAlignment)
  /\ \A i \in DOMAIN layouts : layouts[i].size \in Nat /\ layouts[i].offset \in Nat

InsideTheFile == \A i \in DOMAIN layouts : layouts[i].size # 0 =>
  /\ layouts[i].offset >= headerSize
  /\ Aligned(layouts[i].offset, image.fileAlignment)
  /\ layouts[i].offset + layouts[i].size <= rawOffset

Disjoint == \A i \in DOMAIN layouts, j \in DOMAIN layouts :
  \/ i = j \/ layouts[i].size = 0 \/ layouts[j].size = 0
  \/ layouts[i].offset + layouts[i].size <= layouts[j].offset
  \/ layouts[j].offset + layouts[j].size <= layouts[i].offset

EmptyAtZero == \A i \in DOMAIN layouts : layouts[i].size = 0 => layouts[i].offset = 0

EndIsUsed ==
  \/ rawOffset = headerSize
  \/ \E i \in DOMAIN layouts : layouts[i].offset + layouts[i].size = rawOffset

LayoutInv == Typed /\ InsideTheFile /\ Disjoint /\ EmptyAtZero /\ EndIsUsed

IInv ==
  /\ LayoutInv
  /\ pc \in Early => layouts = <<>>
  /\ pc \in Early \cup Repairing \cup {"layout"} => mempe = NoSection
  /\ pc \in Repairing => size = rawOffset
  /\ mempe # NoSection => rawOffset <= mempe.offset

LEMMA LayoutKept ==
  ASSUME LayoutInv, UNCHANGED layoutVars, pc' \in Steps
  PROVE  LayoutInv'
<1>1. /\ image' = image /\ sections' = sections /\ headerSize' = headerSize
      /\ layouts' = layouts /\ rawOffset' = rawOffset
  BY DEF layoutVars
<1>2. Typed'  BY <1>1 DEF LayoutInv, Typed
<1>3. InsideTheFile' /\ Disjoint' /\ EmptyAtZero' /\ EndIsUsed'
  BY <1>1 DEF LayoutInv, InsideTheFile, Disjoint, EmptyAtZero, EndIsUsed
<1> QED  BY <1>2, <1>3 DEF LayoutInv

LEMMA OutputSizeIsEnd ==
  ASSUME LayoutInv
  PROVE  OutputSize = rawOffset
<1> DEFINE ends == {headerSize} \cup {layouts[i].offset + layouts[i].size : i \in DOMAIN layouts}
<1>1. rawOffset \in ends
  BY DEF LayoutInv, EndIsUsed
<1>2. \A x \in ends : x \in Nat /\ x <= rawOffset
  <2>1. \A i \in DOMAIN layouts : /\ layouts[i].offset + layouts[i].size \in Nat
                                  /\ layouts[i].offset + layouts[i].size <= rawOffset
    BY DEF LayoutInv, Typed, InsideTheFile, EmptyAtZero
  <2> QED  BY <2>1 DEF LayoutInv, Typed
<1> HIDE DEF ends
<1>3. \A x \in ends : (\A y \in ends : x >= y) => x = rawOffset
  BY <1>1, <1>2 DEF LayoutInv, Typed
<1>4. Greatest(ends) \in ends /\ \A y \in ends : Greatest(ends) >= y
  BY <1>1, <1>2 DEF Greatest
<1>5. Greatest(ends) = rawOffset  BY <1>3, <1>4
<1> QED  BY <1>5 DEF OutputSize, ends

LEMMA PlaceKeepsLayout ==
  ASSUME LayoutInv, NEW i \in Indices, PlaceSection(i)
  PROVE  LayoutInv'
<1> DEFINE a == image.fileAlignment
           empty == layouts'[i].size = 0
<1>1. /\ i \notin DOMAIN layouts /\ DOMAIN layouts' = DOMAIN layouts \cup {i}
      /\ \A j \in DOMAIN layouts : layouts'[j] = layouts[j]
      /\ UNCHANGED <<pc, image, sections, headerSize>>
  BY DEF PlaceSection
<1>2. a \in Nat \ {0}  BY ImagesAssumption DEF LayoutInv, Typed
<1>3. SourceLength(i) \in Nat  BY SourceLengthType DEF LayoutInv, Typed
<1>4. PICK n \in Nat : /\ Aligned(n, a)
                       /\ layouts'[i].size = n
                       /\ layouts'[i].offset = IF n = 0 THEN 0 ELSE rawOffset
                       /\ rawOffset' = rawOffset + n
  <2> DEFINE b == HoldsTable(sections[i], SourceLength(i))
             blank == ~ b /\ ~ \E x \in image.nonzero : x >= sections[i].va /\ x < sections[i].va + SourceLength(i)
             n == IF SourceLength(i) = 0 \/ blank THEN 0 ELSE AlignUp(SourceLength(i), a)
  <2>1. n \in Nat /\ Aligned(n, a)
    <3>1. AlignUp(SourceLength(i), a) \in Nat /\ Aligned(AlignUp(SourceLength(i), a), a)
      BY <1>2, <1>3, AlignUpFacts, AlignedWitness
    <3>2. Aligned(0, a)
      <4>1. 0 = 0 * a  BY <1>2
      <4> QED  BY <4>1, <1>2, AlignedWitness
    <3> QED  BY <3>1, <3>2
  <2>2. /\ layouts'[i].size = n
        /\ layouts'[i].offset = IF n = 0 THEN 0 ELSE rawOffset
        /\ rawOffset' = rawOffset + n
    BY DEF PlaceSection
  <2> QED  BY <2>1, <2>2
<1>5. rawOffset \in Nat /\ headerSize \in Nat /\ headerSize <= rawOffset /\ Aligned(rawOffset, a)
  BY DEF LayoutInv, Typed
<1> HIDE DEF a
<1>6. Typed'
  <2>1. Aligned(rawOffset + n, a)  BY <1>2, <1>4, <1>5, AlignedSum
  <2>2. Aligned(rawOffset, image.fileAlignment)'  BY <2>1, <1>1, <1>4 DEF a
  <2>3. rawOffset' \in Nat /\ headerSize' <= rawOffset'  BY <1>1, <1>4, <1>5
  <2>4. \A j \in DOMAIN layouts' : layouts'[j].size \in Nat /\ layouts'[j].offset \in Nat
    BY <1>1, <1>4, <1>5 DEF LayoutInv, Typed
  <2> QED  BY <1>1, <2>2, <2>3, <2>4 DEF LayoutInv, Typed
<1>7. InsideTheFile'
  <2>1. ASSUME NEW j \in DOMAIN layouts, layouts[j].size # 0
        PROVE  layouts[j].offset + layouts[j].size <= rawOffset + n
    BY <1>4, <1>5, <2>1 DEF LayoutInv, Typed, InsideTheFile
  <2>2. n # 0 => /\ layouts'[i].offset >= headerSize
                 /\ layouts'[i].offset + layouts'[i].size <= rawOffset'
    BY <1>4, <1>5
  <2> QED  BY <1>1, <1>4, <1>5, <2>1, <2>2 DEF LayoutInv, InsideTheFile, a
<1>8. Disjoint'
  <2>1. ASSUME NEW j \in DOMAIN layouts, layouts[j].size # 0, n # 0
        PROVE  layouts'[j].offset + layouts'[j].size <= layouts'[i].offset
    BY <1>1, <1>4, <2>1 DEF LayoutInv, InsideTheFile
  <2> QED  BY <1>1, <1>4, <2>1 DEF LayoutInv, Disjoint
<1>9. EmptyAtZero'  BY <1>1, <1>4 DEF LayoutInv, EmptyAtZero
<1>10. EndIsUsed'
  <2>1. CASE n = 0  BY <2>1, <1>1, <1>4, <1>5 DEF LayoutInv, EndIsUsed
  <2>2. CASE n # 0  BY <2>2, <1>1, <1>4, <1>5 DEF EndIsUsed
  <2> QED  BY <2>1, <2>2
<1> QED  BY <1>6, <1>7, <1>8, <1>9, <1>10 DEF LayoutInv

LEMMA PlanKeepsLayout ==
  ASSUME LayoutInv, layouts = <<>>, NEW slots, PlanLayout(slots)
  PROVE  LayoutInv'
<1>1. image \in Images /\ sections \in Seq(SectionType)  BY DEF LayoutInv, Typed
<1>2. image.fileAlignment \in Nat \ {0}  BY <1>1, ImagesAssumption
<1>3. headerSize' \in Nat /\ Aligned(headerSize', image.fileAlignment)
  BY <1>1, <1>2, HeaderSizeType DEF PlanLayout
<1>4. /\ rawOffset' = headerSize' /\ layouts' = <<>> /\ image' = image /\ sections' = sections
      /\ pc' = "layout"
  BY DEF PlanLayout
<1>5. DOMAIN layouts' = {}  BY <1>4
<1>6. Typed'  BY <1>1, <1>3, <1>4, <1>5 DEF Typed, Steps
<1> QED  BY <1>4, <1>5, <1>6 DEF LayoutInv, InsideTheFile, Disjoint, EmptyAtZero, EndIsUsed

LEMMA ImportsGoBehind ==
  ASSUME LayoutInv, size = rawOffset
  PROVE  rawOffset <= NewSection.offset
<1>1. image.fileAlignment \in Nat \ {0} /\ rawOffset \in Nat
  BY ImagesAssumption DEF LayoutInv, Typed
<1> QED  BY <1>1, AlignUpFacts DEF NewSection

LEMMA InitInv == Init => IInv
<1> SUFFICES ASSUME Init PROVE IInv  OBVIOUS
<1>1. /\ pc = "parse" /\ image \in Images /\ sections = <<>> /\ headerSize = 0 /\ layouts = <<>>
      /\ rawOffset = 0 /\ mempe = NoSection
  BY DEF Init, LayoutInit
<1>2. DOMAIN layouts = {}  BY <1>1
<1>3. Aligned(rawOffset, image.fileAlignment)
  <2>1. image.fileAlignment \in Nat \ {0}  BY <1>1, ImagesAssumption
  <2>2. 0 = 0 * image.fileAlignment  BY <2>1
  <2> QED  BY <1>1, <2>1, <2>2, AlignedWitness
<1>4. Typed  BY <1>1, <1>2, <1>3 DEF Typed, Steps
<1> QED
  BY <1>1, <1>2, <1>4
  DEF IInv, LayoutInv, InsideTheFile, Disjoint, EmptyAtZero, EndIsUsed, Early, Repairing

LEMMA StepInv == IInv /\ [Next]_vars => IInv'
<1> SUFFICES ASSUME IInv, [Next]_vars PROVE IInv'  OBVIOUS
<1>a. LayoutInv  BY DEF IInv
<1>b. ASSUME UNCHANGED <<layoutVars, mempe>>, pc' \in Steps \ (Early \cup {"layout"}), pc \notin Early \cup {"layout"},
             pc' \in Repairing => pc \in Repairing /\ size' = size
      PROVE  IInv'
  <2>1. LayoutInv'  BY <1>a, <1>b, LayoutKept
  <2> QED  BY <1>b, <2>1 DEF IInv, layoutVars, Repairing, Early, NoSection
<1>1. CASE Parse /\ UNCHANGED <<plan, outputVars, overlay>>
  <2>1. /\ UNCHANGED <<image, headerSize, tables, layouts, rawOffset, mempe>>
        /\ pc' \in Early /\ pc = "parse"
    BY <1>1 DEF Parse, outputVars, Early
  <2>2. sections' \in Seq(SectionType)
    <3>1. image \in Images /\ sections \in Seq(SectionType)  BY <1>a DEF LayoutInv, Typed
    <3> QED  BY <3>1, <1>1, RecoveredType DEF Parse
  <2>3. layouts = <<>> /\ mempe = NoSection  BY <2>1 DEF IInv, Early
  <2>4. LayoutInv'
    <3>1. Typed'  BY <1>a, <2>1, <2>2 DEF LayoutInv, Typed, Early, Steps
    <3> QED  BY <1>a, <2>1, <3>1 DEF LayoutInv, InsideTheFile, Disjoint, EmptyAtZero, EndIsUsed
  <2> QED  BY <2>1, <2>3, <2>4 DEF IInv, Early, Repairing, NoSection
<1>2. CASE Plan
  <2>1. PICK p \in Plans : PlanLayout(p.tables) /\ UNCHANGED <<outputVars, overlay>>  BY <1>2 DEF Plan
  <2>2. pc = "plan" /\ pc' = "layout" /\ mempe' = mempe  BY <2>1 DEF PlanLayout, outputVars
  <2>3. layouts = <<>> /\ mempe = NoSection  BY <2>2 DEF IInv, Early
  <2>4. LayoutInv'  BY <1>a, <2>1, <2>3, PlanKeepsLayout
  <2> QED  BY <2>2, <2>3, <2>4 DEF IInv, Early, Repairing, NoSection
<1>3. CASE Place
  <2>1. PICK i \in Indices : PlaceSection(i)  BY <1>3 DEF Place
  <2>2. pc = "layout" /\ pc' = "layout" /\ mempe' = mempe  BY <1>3, <2>1 DEF Place, PlaceSection, outputVars
  <2>3. LayoutInv'  BY <1>a, <2>1, PlaceKeepsLayout
  <2> QED  BY <2>2, <2>3 DEF IInv, Early, Repairing, NoSection
<1>4. CASE WriteHeaders
  <2>1. /\ UNCHANGED <<layoutVars, mempe>> /\ pc = "layout"
        /\ pc' = "error" \/ (pc' = "directories" /\ size' = OutputSize)
    BY <1>4 DEF WriteHeaders
  <2>2. LayoutInv'  BY <1>a, <2>1, LayoutKept DEF Steps
  <2>3. OutputSize = rawOffset /\ mempe = NoSection  BY <1>a, <2>1, OutputSizeIsEnd DEF IInv
  <2> QED  BY <2>1, <2>2, <2>3 DEF IInv, layoutVars, Early, Repairing, NoSection
<1>5. CASE ClearBadDirectories
  BY <1>5, <1>b DEF ClearBadDirectories, Steps, Early, Repairing
<1>6. CASE RepairException
  BY <1>6, <1>b DEF RepairException, Steps, Early, Repairing
<1>7. CASE RepairDebug
  BY <1>7, <1>b DEF RepairDebug, Steps, Early, Repairing
<1>8. CASE ClearDynamicBase
  BY <1>8, <1>b DEF ClearDynamicBase, Steps, Early, Repairing
<1>9. CASE WriteImports
  <2>1. /\ UNCHANGED layoutVars /\ pc = "imports" /\ pc' \in {"error", "finalize"}
        /\ mempe' = mempe \/ mempe' = NewSection
    BY <1>9 DEF WriteImports
  <2>2. LayoutInv'  BY <1>a, <2>1, LayoutKept DEF Steps
  <2>3. rawOffset <= NewSection.offset  BY <1>a, <2>1, ImportsGoBehind DEF IInv, Repairing
  <2>4. rawOffset' = rawOffset  BY <2>1 DEF layoutVars
  <2> QED  BY <2>1, <2>2, <2>3, <2>4 DEF IInv, Early, Repairing, NoSection
<1>10. CASE \E entry \in EntryPoints : Finalize(entry)
  BY <1>10, <1>b DEF Finalize, outputVars, Steps, Early, Repairing
<1>11. CASE NoOverlay
  BY <1>11, <1>b DEF NoOverlay, outputVars, Steps, Early, Repairing
<1>12. CASE \E o \in Overlays : AppendOverlay(o)
  BY <1>12, <1>b DEF AppendOverlay, Steps, Early, Repairing
<1>13. CASE UNCHANGED vars
  <2>1. UNCHANGED <<pc, layoutVars, mempe, size>>  BY <1>13 DEF vars, outputVars
  <2>2. LayoutInv'  BY <1>a, <2>1, LayoutKept DEF LayoutInv, Typed
  <2> QED  BY <2>1, <2>2 DEF IInv, layoutVars, NoSection
<1> QED
  BY <1>1, <1>2, <1>3, <1>4, <1>5, <1>6, <1>7, <1>8, <1>9, <1>10, <1>11, <1>12, <1>13 DEF Next

\* The layout of module Layout keeps the data of different sections apart, aligned
\* and behind the headers, and the .mempe section behind all of it, whatever the
\* sections, the sizes and the alignment (layout_sections, append_import_section).
THEOREM SectionsStayApart == Spec => []SectionsApart
<1>1. IInv => SectionsApart
  BY DEF IInv, LayoutInv, InsideTheFile, Disjoint, SectionsApart
<1> QED  BY <1>1, InitInv, StepInv, PTL DEF Spec

-----------------------------------------------------------------------------
(* What the steps before "layout" leave behind and what a section's place says. *)
Checked == {"exception", "debug", "base", "imports", "finalize", "overlay", "done"}
Written == {"finalize", "overlay", "done"}

\* No import slots and no byte that is not zero lie in the section.
Blank(i) ==
  /\ ~ HoldsTable(sections[i], SourceLength(i))
  /\ ~ \E b \in image.nonzero : b >= sections[i].va /\ b < sections[i].va + SourceLength(i)

Parsed ==
  /\ pc \notin {"parse", "unparsed"} =>
       /\ sections = Recovered(image)
       /\ Parses(image, image.sections, image.size)
       /\ Parses(image, sections, RecoveredSize(image))
  /\ pc = "unparsed" => \/ ~ Parses(image, image.sections, image.size)
                         \/ ~ Parses(image, Recovered(image), RecoveredSize(image))

Planned == pc \notin Early => plan \in Plans /\ tables = plan.tables

Placed ==
  /\ DOMAIN layouts \subseteq Indices
  /\ pc \in {"directories"} \cup Checked => DOMAIN layouts = Indices
  /\ \A i \in DOMAIN layouts :
       /\ layouts[i].length = SourceLength(i)
       /\ IF layouts[i].size = 0 THEN layouts[i].length = 0 \/ Blank(i)
          ELSE layouts[i].size >= layouts[i].length

LaidInv == Parsed /\ Planned /\ Placed

Later == {"directories"} \cup Checked

LEMMA SamePlaces ==
  ASSUME UNCHANGED <<image, sections, tables>>, NEW i
  PROVE  SourceLength(i)' = SourceLength(i) /\ (Blank(i)' <=> Blank(i))
<1>1. SourceLength(i)' = SourceLength(i)  BY DEF SourceLength
<1>2. \A s, length : HoldsTable(s, length)' <=> HoldsTable(s, length)  BY DEF HoldsTable
<1>3. Blank(i)' <=> Blank(i)  BY <1>1, <1>2 DEF Blank
<1> QED  BY <1>1, <1>3

LEMMA LaidKept ==
  ASSUME LaidInv, UNCHANGED <<layoutVars, plan>>, pc \notin Early,
         pc' \in Steps \ Early, pc' \in Later => DOMAIN layouts = Indices
  PROVE  LaidInv'
<1>1. /\ image' = image /\ sections' = sections /\ tables' = tables /\ layouts' = layouts /\ plan' = plan
      /\ Indices' = Indices
  BY DEF layoutVars, Indices
<1>2. Parsed'  BY <1>1 DEF LaidInv, Parsed, Early
<1>3. Planned'  BY <1>1 DEF LaidInv, Planned
<1>4. Placed'
  <2>1. \A i : SourceLength(i)' = SourceLength(i) /\ (Blank(i)' <=> Blank(i))  BY <1>1, SamePlaces
  <2> QED  BY <1>1, <2>1 DEF LaidInv, Placed, Later
<1> QED  BY <1>2, <1>3, <1>4 DEF LaidInv

LEMMA LaidInit == Init => LaidInv
<1> SUFFICES ASSUME Init PROVE LaidInv  OBVIOUS
<1>1. pc = "parse" /\ layouts = <<>>  BY DEF Init, LayoutInit
<1>2. DOMAIN layouts = {}  BY <1>1
<1> QED  BY <1>1, <1>2 DEF LaidInv, Parsed, Planned, Placed, Early, Checked

LEMMA LaidPlace ==
  ASSUME LayoutInv, LaidInv, NEW i \in Indices, PlaceSection(i), plan' = plan
  PROVE  LaidInv'
<1>1. /\ i \notin DOMAIN layouts /\ DOMAIN layouts' = DOMAIN layouts \cup {i}
      /\ \A j \in DOMAIN layouts : layouts'[j] = layouts[j]
      /\ UNCHANGED <<pc, image, sections, tables>> /\ pc = "layout"
  BY DEF PlaceSection
<1>2. Parsed' /\ Planned'  BY <1>1 DEF LaidInv, Parsed, Planned
<1>3. Placed'
  <2>1. \A j : SourceLength(j)' = SourceLength(j) /\ (Blank(j)' <=> Blank(j))  BY <1>1, SamePlaces
  <2>2. Indices' = Indices  BY <1>1 DEF Indices
  <2>3. /\ layouts'[i].length = SourceLength(i)
        /\ layouts'[i].size = IF SourceLength(i) = 0 \/ Blank(i) THEN 0 ELSE AlignUp(SourceLength(i), image.fileAlignment)
    BY DEF PlaceSection, Blank
  <2>4. /\ AlignUp(SourceLength(i), image.fileAlignment) \in Nat /\ SourceLength(i) \in Nat
        /\ AlignUp(SourceLength(i), image.fileAlignment) >= SourceLength(i)
    <3>1. image.fileAlignment \in Nat \ {0} /\ SourceLength(i) \in Nat
      BY ImagesAssumption, SourceLengthType DEF LayoutInv, Typed
    <3> QED  BY <3>1, AlignUpFacts
  <2>5. IF layouts'[i].size = 0 THEN layouts'[i].length = 0 \/ Blank(i)
        ELSE layouts'[i].size >= layouts'[i].length
    <3>1. CASE SourceLength(i) = 0 \/ Blank(i)  BY <2>3, <3>1
    <3>2. CASE ~ (SourceLength(i) = 0 \/ Blank(i))  BY <2>3, <2>4, <3>2
    <3> QED  BY <3>1, <3>2
  <2> QED  BY <1>1, <2>1, <2>2, <2>3, <2>5 DEF LaidInv, Placed, Checked
<1> QED  BY <1>2, <1>3 DEF LaidInv

LEMMA LaidStep == IInv /\ LaidInv /\ [Next]_vars => LaidInv'
<1> SUFFICES ASSUME IInv, LaidInv, [Next]_vars PROVE LaidInv'  OBVIOUS
<1>a. LayoutInv /\ pc \in Steps /\ image \in Images  BY DEF IInv, LayoutInv, Typed
<1>b. pc \in Later => DOMAIN layouts = Indices  BY DEF LaidInv, Placed, Later
<1>1. CASE Parse /\ UNCHANGED <<plan, outputVars, overlay>>
  <2>1. /\ UNCHANGED <<image, tables, layouts, plan>> /\ pc = "parse"
        /\ \/ /\ pc' = "unparsed" /\ sections' = sections
              /\ ~ (/\ Parses(image, image.sections, image.size)
                    /\ Parses(image, Recovered(image), RecoveredSize(image)))
           \/ /\ pc' = "plan" /\ sections' = Recovered(image)
              /\ Parses(image, image.sections, image.size)
              /\ Parses(image, sections', RecoveredSize(image))
    BY <1>1 DEF Parse
  <2>2. layouts' = <<>> /\ DOMAIN layouts' = {}
    <3>1. layouts = <<>>  BY <2>1 DEF IInv, Early
    <3> QED  BY <2>1, <3>1
  <2>3. Parsed'  BY <2>1 DEF Parsed
  <2>4. Planned'  BY <2>1 DEF Planned, Early
  <2>5. Placed'  BY <2>1, <2>2 DEF Placed, Checked
  <2> QED  BY <2>3, <2>4, <2>5 DEF LaidInv
<1>2. CASE Plan
  <2>1. PICK p \in Plans : PlanLayout(p.tables) /\ plan' = p  BY <1>2 DEF Plan
  <2>2. UNCHANGED <<image, sections, layouts>> /\ pc = "plan" /\ pc' = "layout" /\ tables' = p.tables
    BY <2>1 DEF PlanLayout
  <2>3. layouts' = <<>> /\ DOMAIN layouts' = {}
    <3>1. layouts = <<>>  BY <2>2 DEF IInv, Early
    <3> QED  BY <2>2, <3>1
  <2>4. Parsed'  BY <2>2 DEF LaidInv, Parsed
  <2>5. Planned'  BY <2>1, <2>2 DEF Planned
  <2>6. Placed'  BY <2>2, <2>3 DEF Placed, Checked
  <2> QED  BY <2>4, <2>5, <2>6 DEF LaidInv
<1>3. CASE Place
  <2>1. PICK i \in Indices : PlaceSection(i)  BY <1>3 DEF Place
  <2>2. plan' = plan  BY <1>3 DEF Place
  <2> QED  BY <1>a, <2>1, <2>2, LaidPlace
<1>4. CASE WriteHeaders
  <2>1. /\ UNCHANGED <<layoutVars, plan>> /\ pc = "layout" /\ DOMAIN layouts = Indices
        /\ pc' \in {"error", "directories"}
    BY <1>4 DEF WriteHeaders
  <2> QED  BY <2>1, LaidKept DEF Early, Steps
<1>5. CASE ClearBadDirectories \/ RepairException \/ RepairDebug \/ ClearDynamicBase
  <2>1. /\ UNCHANGED <<layoutVars, plan>> /\ pc \in Later /\ pc' \in Checked
    BY <1>5 DEF ClearBadDirectories, RepairException, RepairDebug, ClearDynamicBase, Later, Checked
  <2> QED  BY <1>b, <2>1, LaidKept DEF Early, Steps, Later, Checked
<1>6. CASE WriteImports
  <2>1. /\ UNCHANGED <<layoutVars, plan>> /\ pc \in Later /\ pc' \in {"error", "finalize"}
    BY <1>6 DEF WriteImports, Later, Checked
  <2> QED  BY <1>b, <2>1, LaidKept DEF Early, Steps, Later, Checked
<1>7. CASE \/ NoOverlay
           \/ \E o \in Overlays : AppendOverlay(o)
           \/ \E entry \in EntryPoints : Finalize(entry)
  <2>1. /\ UNCHANGED <<layoutVars, plan>> /\ pc \in Later /\ pc' \in {"error", "overlay", "done"}
    BY <1>7 DEF NoOverlay, AppendOverlay, Finalize, Later, Checked
  <2> QED  BY <1>b, <2>1, LaidKept DEF Early, Steps, Later, Checked
<1>8. CASE UNCHANGED vars
  <2>1. UNCHANGED <<pc, image, sections, tables, layouts, plan>>  BY <1>8 DEF vars, layoutVars
  <2>2. Parsed' /\ Planned'  BY <2>1 DEF LaidInv, Parsed, Planned
  <2>3. \A i : SourceLength(i)' = SourceLength(i) /\ (Blank(i)' <=> Blank(i))  BY <2>1, SamePlaces
  <2>4. Placed'  BY <2>1, <2>3 DEF LaidInv, Placed, Indices
  <2> QED  BY <2>2, <2>4 DEF LaidInv
<1> QED  BY <1>1, <1>2, <1>3, <1>4, <1>5, <1>6, <1>7, <1>8 DEF Next

-----------------------------------------------------------------------------
(* What a section is loaded as. *)

LEMMA FileFacts ==
  ASSUME IInv, LaidInv, LaidOut
  PROVE  /\ image \in Images /\ image.length \in Nat /\ image.nonzero \in SUBSET Nat
         /\ image.sections \in Seq(SectionType)
         /\ sections \in Seq(SectionType) /\ sections = Recovered(image)
         /\ DOMAIN layouts = Indices /\ Indices = DOMAIN image.sections /\ headerSize \in Nat
         /\ SectionsFit(image.sections, image.size) /\ SectionsFit(sections, RecoveredSize(image))
         /\ RecoveredSize(image) <= image.length
         /\ \A i \in Indices :
              /\ sections[i] \in SectionType /\ sections[i].va \in Nat
              /\ layouts[i].size \in Nat /\ layouts[i].offset \in Nat
              /\ layouts[i].length = SourceLength(i) /\ SourceLength(i) \in Nat
              /\ layouts[i].size # 0 => layouts[i].size >= layouts[i].length
<1>1. /\ image \in Images /\ sections \in Seq(SectionType) /\ headerSize \in Nat
      /\ \A i \in DOMAIN layouts : layouts[i].size \in Nat /\ layouts[i].offset \in Nat
  BY DEF IInv, LayoutInv, Typed
<1>2. pc \in Later /\ DOMAIN layouts = Indices
  <2>1. pc \in Later  BY DEF LaidOut, IInv, LayoutInv, Typed, Steps, Later, Checked
  <2> QED  BY <2>1 DEF LaidInv, Placed, Later
<1>3. /\ sections = Recovered(image) /\ Parses(image, image.sections, image.size)
      /\ Parses(image, sections, RecoveredSize(image))
  BY <1>2 DEF LaidInv, Parsed, Later, Checked
<1>4. Indices = DOMAIN image.sections /\ image.sections \in Seq(SectionType)
  BY <1>1, <1>3, RecoveredSections DEF Indices
<1>5. \A i \in Indices :
        /\ layouts[i].length = SourceLength(i) /\ SourceLength(i) \in Nat
        /\ layouts[i].size # 0 => layouts[i].size >= layouts[i].length
  BY <1>1, <1>2, SourceLengthType DEF LaidInv, Placed
<1> QED  BY <1>1, <1>2, <1>3, <1>4, <1>5, ImagesAssumption, SectionsIndexed DEF Parses, Indices

MappedPart(i) == sections[i].va..(sections[i].va + MappedSize(sections[i]) - 1)

\* Unless an empty section cuts it off, what a section maps is in its room.
LEMMA MappedHasRoom ==
  ASSUME IInv, LaidInv, LaidOut, ~ CutOff(image.sections), NEW i \in Indices, NEW rva \in MappedPart(i)
  PROVE  /\ rva \in Nat /\ sections[i].va <= rva /\ rva - sections[i].va < SourceLength(i)
         /\ \A j \in Indices : Before(sections, i, j) => rva < sections[j].va
<1> DEFINE s == sections[i]
           next == NextRva(sections, i, image.length)
<1>1. s \in SectionType /\ image.length \in Nat  BY FileFacts
<1>2. s.va \in Nat /\ MappedSize(s) \in Nat /\ Span(s) \in Nat /\ MappedSize(s) <= Span(s)
  BY <1>1, SizesOf
<1>3. rva \in Nat /\ s.va <= rva /\ rva < s.va + MappedSize(s) /\ MappedSize(s) # 0
  BY <1>2 DEF MappedPart
<1>4. rva < s.va + Span(s)  BY <1>2, <1>3
<1>5. rva < image.length
  <2>1. s.va + MappedSize(s) <= RecoveredSize(image)  BY <1>3, FileFacts DEF SectionsFit, Indices
  <2>2. RecoveredSize(image) \in Nat  BY FileFacts, RecoveredSizeType
  <2> HIDE DEF s
  <2> QED  BY <1>1, <1>2, <1>3, <2>1, <2>2, FileFacts
<1>6. ASSUME NEW j \in Indices, Before(sections, i, j) PROVE rva < sections[j].va
  <2>1. Before(image.sections, i, j)  BY <1>6, FileFacts, RecoveredSections
  <2>2. s.va + MappedSize(s) <= sections[j].va  BY <1>3, <2>1, FileFacts, KeepsClear
  <2>3. sections[j].va \in Nat  BY FileFacts
  <2> HIDE DEF s
  <2> QED  BY <1>2, <1>3, <2>2, <2>3
<1>7. rva < next
  <2>1. next = image.length \/ \E j \in DOMAIN sections : Before(sections, i, j) /\ next = sections[j].va
    BY FileFacts, NextRvaFacts DEF Indices
  <2> QED  BY <1>5, <1>6, <2>1 DEF Indices
<1>8. rva - s.va < SourceLength(i)  BY <1>3, <1>4, <1>5, <1>7, FileFacts, LengthIsRoom
<1> QED  BY <1>3, <1>6, <1>8

\* An address in the room of a section is before the sections behind it.
LEMMA RoomEnds ==
  ASSUME IInv, LaidInv, LaidOut, NEW i \in Indices, NEW j \in Indices, Before(sections, i, j),
         NEW rva \in Nat, sections[i].va <= rva, rva - sections[i].va < SourceLength(i)
  PROVE  rva < sections[j].va
<1>1. rva < NextRva(sections, i, image.length)  BY FileFacts, LengthIsRoom
<1>2. /\ NextRva(sections, i, image.length) \in Nat /\ NextRva(sections, i, image.length) <= sections[j].va
      /\ sections[j].va \in Nat
  BY FileFacts, NextRvaFacts DEF Indices
<1> QED  BY <1>1, <1>2

\* A mapped address lies in the room of its own section only.
LEMMA OneHolder ==
  ASSUME IInv, LaidInv, LaidOut, ~ CutOff(image.sections), NEW i \in Indices, NEW rva \in MappedPart(i),
         NEW j \in Indices, Holds(j, rva)
  PROVE  j = i
<1>1. /\ rva \in Nat /\ sections[i].va <= rva
      /\ \A k \in Indices : Before(sections, i, k) => rva < sections[k].va
  BY MappedHasRoom
<1>2. sections[j].va \in Nat /\ sections[i].va \in Nat /\ layouts[j].length = SourceLength(j)
      /\ SourceLength(j) \in Nat
  BY FileFacts
<1>3. sections[j].va <= rva /\ rva - sections[j].va < SourceLength(j)
  BY <1>1, <1>2 DEF Holds
<1>4. ~ Before(sections, i, j)  BY <1>1, <1>2, <1>3
<1>5. ~ Before(sections, j, i)
  <2>1. ASSUME Before(sections, j, i) PROVE FALSE
    <3>1. rva < sections[i].va  BY <1>1, <1>3, <2>1, RoomEnds
    <3> QED  BY <1>1, <1>2, <3>1
  <2> QED  BY <2>1
<1> QED  BY <1>4, <1>5, FileFacts, BeforeIsTotal DEF Indices

\* The positions a section is copied to are copied for no other section.
LEMMA OneSource ==
  ASSUME IInv, LaidInv, LaidOut, NEW i \in Indices, layouts[i].size # 0,
         NEW position \in layouts[i].offset..(layouts[i].offset + layouts[i].length - 1)
  PROVE  CopiedFrom(position) = sections[i].va + position - layouts[i].offset
<1> DEFINE at == {k \in DOMAIN layouts : /\ layouts[k].size # 0
                                         /\ position \in layouts[k].offset..(layouts[k].offset + layouts[k].length - 1)}
<1>1. i \in at  BY FileFacts
<1>2. ASSUME NEW k \in at PROVE k = i
  <2>1. /\ k \in Indices /\ layouts[k].size # 0
        /\ position \in layouts[k].offset..(layouts[k].offset + layouts[k].length - 1)
    BY FileFacts
  <2>2. \A l \in Indices : /\ layouts[l].size \in Nat /\ layouts[l].offset \in Nat /\ layouts[l].length \in Nat
                           /\ layouts[l].size # 0 => layouts[l].size >= layouts[l].length
    BY FileFacts
  <2>3. \/ k = i \/ layouts[k].offset + layouts[k].size <= layouts[i].offset
        \/ layouts[i].offset + layouts[i].size <= layouts[k].offset
    BY <2>1, FileFacts DEF IInv, LayoutInv, Disjoint
  <2> QED  BY <2>1, <2>2, <2>3
<1>3. (CHOOSE k \in at : TRUE) = i  BY <1>1, <1>2
<1> QED  BY <1>1, <1>3 DEF CopiedFrom

LEMMA BytesComeBack ==
  ASSUME IInv, LaidInv, LaidOut, ~ CutOff(image.sections)
  PROVE  ComesBack
<1> SUFFICES ASSUME NEW i \in Indices, NEW rva \in image.nonzero \cap MappedPart(i)
             PROVE  CopiedFrom(LoaderPosition(i, rva)) = rva
  BY DEF ComesBack, MappedPart
<1> DEFINE L == layouts[i]
           va == sections[i].va
<1>1. rva \in Nat /\ va <= rva /\ rva - va < SourceLength(i)  BY MappedHasRoom
<1>2. /\ va \in Nat /\ L.size \in Nat /\ L.offset \in Nat /\ L.length = SourceLength(i)
      /\ SourceLength(i) \in Nat /\ (L.size # 0 => L.size >= L.length)
  BY FileFacts
<1>3. rva < va + SourceLength(i)  BY <1>1, <1>2
<1>4. L.size # 0
  <2>1. SourceLength(i) # 0  BY <1>1, <1>2
  <2>2. ~ Blank(i)  BY <1>1, <1>3 DEF Blank
  <2> QED  BY <1>2, <2>1, <2>2, FileFacts DEF LaidInv, Placed
<1>5. LoaderPosition(i, rva) = L.offset + rva - va
  BY <1>1, <1>2, <1>4 DEF LoaderPosition
<1>6. L.offset + rva - va \in L.offset..(L.offset + L.length - 1)
  <2> HIDE DEF L, va
  <2> QED  BY <1>1, <1>2
<1>7. CopiedFrom(LoaderPosition(i, rva)) = va + LoaderPosition(i, rva) - L.offset
  BY <1>4, <1>5, <1>6, OneSource
<1> HIDE DEF L, va
<1> QED  BY <1>1, <1>2, <1>5, <1>7

\* rva_to_file sends a mapped address where the loader takes it from.
LEMMA FileFollowsLoader ==
  ASSUME IInv, LaidInv, LaidOut, ~ CutOff(image.sections), headerSize <= FirstRva(sections),
         NEW i \in Indices, NEW rva \in MappedPart(i), RvaToFile(rva) # -1
  PROVE  RvaToFile(rva) = LoaderPosition(i, rva)
<1>1. rva \in Nat /\ sections[i].va <= rva /\ rva - sections[i].va < SourceLength(i)  BY MappedHasRoom
<1>2. sections[i] \in SectionType /\ sections[i].va \in Nat /\ headerSize \in Nat  BY FileFacts
<1>3. headerSize <= rva
  <2> DEFINE mapped == {sections[k].va : k \in {l \in DOMAIN sections : MappedSize(sections[l]) # 0}}
  <2>1. MappedSize(sections[i]) # 0
    <3>1. MappedSize(sections[i]) \in Nat  BY <1>2, SizesOf
    <3> QED  BY <1>2, <3>1 DEF MappedPart
  <2>2. sections[i].va \in mapped  BY <2>1 DEF Indices
  <2>3. mapped \in SUBSET Nat  BY FileFacts, SectionsIndexed
  <2>4. FirstRva(sections) = Least(mapped)  BY <2>2 DEF FirstRva
  <2> HIDE DEF mapped
  <2>5. FirstRva(sections) \in Nat /\ FirstRva(sections) <= sections[i].va
    <3>1. Least(mapped) \in mapped /\ \A y \in mapped : Least(mapped) <= y
      BY ONLY <2>2, <2>3, LeastOf
    <3> QED  BY ONLY <2>2, <2>3, <2>4, <3>1
  <2>6. headerSize <= FirstRva(sections)  OBVIOUS
  <2>7. headerSize <= sections[i].va  BY ONLY <1>2, <2>5, <2>6
  <2> QED  BY ONLY <1>1, <1>2, <2>7
<1>4. /\ \E j \in DOMAIN layouts : Holds(j, rva)
      /\ RvaToFile(rva) = LET j == CHOOSE k \in DOMAIN layouts : Holds(k, rva)
                          IN  layouts[j].offset + rva - sections[j].va
  <2>1. ~ (rva < headerSize)  BY <1>1, <1>2, <1>3
  <2> QED  BY <2>1 DEF RvaToFile
<1>5. (CHOOSE k \in DOMAIN layouts : Holds(k, rva)) = i
  <2>1. \A k \in DOMAIN layouts : Holds(k, rva) => k = i  BY FileFacts, OneHolder
  <2> QED  BY <1>4, <2>1
<1>6. Holds(i, rva)  BY <1>4, <1>5
<1>7. layouts[i].size # 0 /\ layouts[i].size >= layouts[i].length /\ layouts[i].length = SourceLength(i)
      /\ layouts[i].size \in Nat /\ SourceLength(i) \in Nat
  BY <1>6, FileFacts DEF Holds
<1>8. rva - sections[i].va < layouts[i].size  BY <1>1, <1>2, <1>7
<1>9. RvaToFile(rva) = layouts[i].offset + rva - sections[i].va
  BY <1>4, <1>5
<1>10. LoaderPosition(i, rva) = layouts[i].offset + rva - sections[i].va
  BY <1>8 DEF LoaderPosition
<1> QED  BY <1>9, <1>10

\* An empty import slot in the mapped part of a section has data in the file.
LEMMA SlotsHaveData ==
  ASSUME IInv, LaidInv, LaidOut, ~ CutOff(image.sections), NEW t \in plan.tables,
         NEW i \in Indices, NEW rva \in MappedPart(i), rva \in t.start..(t.end - 1), rva >= headerSize
  PROVE  RvaToFile(rva) # -1
<1>1. rva \in Nat /\ sections[i].va <= rva /\ rva - sections[i].va < SourceLength(i)  BY MappedHasRoom
<1>2. /\ sections[i].va \in Nat /\ SourceLength(i) \in Nat /\ layouts[i].length = SourceLength(i)
      /\ DOMAIN layouts = Indices /\ headerSize \in Nat
  BY FileFacts
<1>3. plan \in Plans /\ tables = plan.tables
  BY DEF LaidInv, Planned, LaidOut, Early
<1>4. t.start \in Nat /\ t.end \in Nat  BY <1>3, PlansAssumption
<1>5. HoldsTable(sections[i], SourceLength(i))
  <2>1. t.start < sections[i].va + SourceLength(i) /\ t.end > sections[i].va  BY <1>1, <1>2, <1>4
  <2> QED  BY <1>3, <2>1 DEF HoldsTable
<1>6. layouts[i].size # 0
  <2>1. SourceLength(i) # 0  BY <1>1, <1>2
  <2> QED  BY <1>2, <1>5, <2>1 DEF LaidInv, Placed, Blank
<1>7. Holds(i, rva)
  <2>1. rva \in sections[i].va..(sections[i].va + SourceLength(i) - 1)  BY <1>1, <1>2
  <2> QED  BY <1>2, <1>6, <2>1 DEF Holds
<1> DEFINE j == CHOOSE k \in DOMAIN layouts : Holds(k, rva)
<1>8. j \in Indices /\ Holds(j, rva)  BY <1>2, <1>7
<1>9. RvaToFile(rva) = layouts[j].offset + rva - sections[j].va
  <2>1. ~ (rva < headerSize)  BY <1>1, <1>2
  <2> QED  BY <1>2, <1>7, <2>1 DEF RvaToFile
<1> HIDE DEF j
<1>10. layouts[j].offset \in Nat /\ sections[j].va \in Nat /\ SourceLength(j) \in Nat
       /\ layouts[j].length = SourceLength(j)
  BY <1>8, FileFacts
<1>11. sections[j].va <= rva  BY <1>8, <1>10 DEF Holds
<1> QED  BY <1>1, <1>9, <1>10, <1>11

-----------------------------------------------------------------------------
(* collect_valid_runtime_functions. *)

LEMMA LeastFailure ==
  ASSUME NEW n \in Nat, NEW F \in SUBSET (0..n), F # {}
  PROVE  \E k \in F : k \in 0..n /\ (k # 0 => k - 1 \in 0..n /\ k - 1 \notin F /\ k \in 1..n)
<1>1. F \in SUBSET Nat  OBVIOUS
<1>2. Least(F) \in F /\ \A y \in F : Least(F) <= y  BY <1>1, LeastOf
<1>3. Least(F) \in 0..n  BY <1>2
<1>4. Least(F) # 0 => Least(F) - 1 \in 0..n /\ Least(F) \in 1..n  BY <1>3
<1>5. Least(F) - 1 \notin F
  <2>1. ~ (Least(F) <= Least(F) - 1)  BY <1>3
  <2> QED  BY <1>2, <2>1
<1> QED  BY <1>2, <1>3, <1>4, <1>5

\* At most as many entries are kept as are looked at.
LEMMA FewEntriesStay ==
  ASSUME NEW count \in Nat
  PROVE  \E S : ValidEntries(count) \in Seq(S) /\ Len(ValidEntries(count)) <= count
<1> DEFINE Kept(f, k) == IF k = 0 THEN <<>>
                         ELSE IF ValidEntry(unwind[k]) THEN Append(f[k - 1], unwind[k]) ELSE f[k - 1]
           Collects(f, n) == f = [k \in 0..n |-> Kept(f, k)]
           S == {unwind[k] : k \in 1..count}
           none == {n \in 0..count : ~ \E f : Collects(f, n)}
           valid == CHOOSE f : Collects(f, count)
           Few(k) == valid[k] \in Seq(S) /\ Len(valid[k]) <= k
           many == {k \in 0..count : ~ Few(k)}
<1>1. none = {}
  <2>1. SUFFICES ASSUME none # {} PROVE FALSE  OBVIOUS
  <2>2. PICK n \in none : n \in 0..count /\ (n # 0 => n - 1 \in 0..count /\ n - 1 \notin none /\ n \in 1..count)
    <3>1. none \in SUBSET (0..count)  OBVIOUS
    <3> HIDE DEF none
    <3> QED  BY <2>1, <3>1, LeastFailure
  <2>3. CASE n = 0
    <3> DEFINE f == [k \in 0..0 |-> <<>>]
    <3>1. \A k \in 0..0 : Kept(f, k) = <<>>  OBVIOUS
    <3>2. [k \in 0..0 |-> Kept(f, k)] = f
      <4> HIDE DEF Kept
      <4> QED  BY <3>1
    <3>3. Collects(f, 0)  BY <3>2
    <3> HIDE DEF f, Collects
    <3> QED  BY <2>3, <3>3
  <2>4. CASE n # 0
    <3>1. PICK f : Collects(f, n - 1)
      <4> HIDE DEF Collects
      <4> QED  BY <2>2, <2>4
    <3> DEFINE g == [k \in 0..n |-> IF k = n THEN Kept(f, n) ELSE f[k]]
    <3>2. n \in 1..count /\ 0..n = 0..(n - 1) \cup {n} /\ n \in Nat /\ n \notin 0..(n - 1)
      BY <2>2, <2>4
    <3>3. \A k \in 0..(n - 1) : f[k] = Kept(f, k)
      <4> HIDE DEF Kept
      <4> QED  BY <3>1
    <3>4. \A k \in 0..n : k # 0 => k - 1 \in 0..n /\ k - 1 # n  BY <3>2
    <3>5. \A k \in 0..n : k # 0 => g[k - 1] = f[k - 1]
      <4> HIDE DEF Kept
      <4> QED  BY <3>4
    <3>6. \A k \in 0..n : Kept(g, k) = Kept(f, k)
      <4> HIDE DEF g
      <4> QED  BY <3>5
    <3>7. \A k \in 0..n : g[k] = Kept(g, k)
      <4>1. ASSUME NEW k \in 0..n PROVE g[k] = Kept(f, k)
        <5>1. g[k] = IF k = n THEN Kept(f, n) ELSE f[k]
          <6> HIDE DEF Kept
          <6> QED  OBVIOUS
        <5>2. k # n => k \in 0..(n - 1)  BY <3>2
        <5> HIDE DEF Kept, g
        <5> QED  BY <3>3, <5>1, <5>2
      <4> HIDE DEF Kept, g
      <4> QED  BY <3>6, <4>1
    <3>8. Collects(g, n)
      <4> DEFINE G(k) == IF k = n THEN Kept(f, n) ELSE f[k]
      <4>1. g = [k \in 0..n |-> G(k)]  OBVIOUS
      <4>2. \A k \in 0..n : g[k] = G(k)
        <5> HIDE DEF G, Kept
        <5> QED  BY <4>1
      <4> HIDE DEF Kept, g, G
      <4>3. \A k \in 0..n : G(k) = Kept(g, k)  BY <3>7, <4>2
      <4> QED  BY <4>1, <4>3
    <3> HIDE DEF g, Collects
    <3> QED  BY <3>8
  <2> QED  BY <2>3, <2>4
<1>2. Collects(valid, count)
  <2>1. count \in 0..count  OBVIOUS
  <2> HIDE DEF Collects
  <2>2. \E f : Collects(f, count)  BY <1>1, <2>1
  <2> QED  BY <2>2
<1>3. ValidEntries(count) = valid[count]  BY DEF ValidEntries
<1>4. \A k \in 0..count : valid[k] = Kept(valid, k)
  <2> HIDE DEF Kept, valid
  <2> QED  BY <1>2
<1> HIDE DEF valid
<1>5. many = {}
  <2>1. SUFFICES ASSUME many # {} PROVE FALSE  OBVIOUS
  <2>2. PICK k \in many : k \in 0..count /\ (k # 0 => k - 1 \in 0..count /\ k - 1 \notin many /\ k \in 1..count)
    <3>1. many \in SUBSET (0..count)  OBVIOUS
    <3> HIDE DEF many
    <3> QED  BY <2>1, <3>1, LeastFailure
  <2>3. CASE k = 0
    <3>1. valid[k] = <<>>  BY <1>4, <2>2, <2>3
    <3>2. <<>> \in Seq(S) /\ Len(<<>>) = 0  OBVIOUS
    <3>3. Few(k)  BY <2>3, <3>1, <3>2
    <3> QED  BY <2>2, <3>3
  <2>4. CASE k # 0
    <3>1. Few(k - 1)
      <4> HIDE DEF Few
      <4> QED  BY <2>2, <2>4
    <3>2. unwind[k] \in S  BY <2>2, <2>4
    <3>3. valid[k] = Append(valid[k - 1], unwind[k]) \/ valid[k] = valid[k - 1]  BY <1>4, <2>2, <2>4
    <3>4. k \in Nat  BY <2>2
    <3> HIDE DEF S
    <3> DEFINE q == valid[k - 1]
    <3>5. q \in Seq(S) /\ Len(q) <= k - 1  BY <3>1
    <3> HIDE DEF q
    <3>6. Len(q) \in Nat /\ Append(q, unwind[k]) \in Seq(S) /\ Len(Append(q, unwind[k])) = Len(q) + 1
      BY <3>2, <3>5
    <3>7. valid[k] = Append(q, unwind[k]) \/ valid[k] = q  BY <3>3 DEF q
    <3>8. valid[k] \in Seq(S) /\ Len(valid[k]) <= k
      <4>1. CASE valid[k] = q  BY <3>4, <3>5, <3>6, <4>1
      <4>2. CASE valid[k] = Append(q, unwind[k])  BY <3>4, <3>5, <3>6, <4>2
      <4> QED  BY <3>7, <4>1, <4>2
    <3> QED  BY <2>2, <3>8
  <2> QED  BY <2>3, <2>4
<1>6. Few(count)
  <2>1. count \in 0..count  OBVIOUS
  <2> HIDE DEF Few
  <2> QED  BY <1>5, <2>1
<1> QED  BY <1>3, <1>6

-----------------------------------------------------------------------------
(* What the header says. *)

\* The types of what repair_exception_directory reads.
EntriesTyped ==
  pc \in {"directories", "exception"} =>
    /\ \A name \in DOMAIN dirs : dirs[name] \in [rva : Nat, size : Nat]
    /\ Len(unwind) \in Nat

\* What clear_bad_directories leaves is in the file, and no later repair takes it out.
DirectoriesThere ==
  pc \in Checked =>
    /\ \A name \in DOMAIN dirs \ {"import", "security"} : dirs[name] # NoDirectory => Mapped(dirs[name])
    /\ "reloc" \in DOMAIN dirs /\ dirs["reloc"] # NoDirectory => Walkable(dirs["reloc"])
    /\ pc # "done" /\ "security" \in DOMAIN dirs => dirs["security"] = NoDirectory

FixupsThere ==
  pc \in {"imports"} \cup Written /\ dynamic => "reloc" \in DOMAIN dirs /\ dirs["reloc"] # NoDirectory

SizeKnown == pc \in Written => mempe.raw \in Nat /\ size \in Nat /\ size >= rawOffset + mempe.raw

ImportsKnown ==
  pc \in Written =>
    /\ unemitted >= plan.unrepresentable + IF mempe = NoSection THEN plan.recovered ELSE 0
    /\ "import" \in DOMAIN dirs /\ dirs["import"] # NoDirectory => mempe # NoSection \/ plan.existing
    /\ mempe # NoSection => filled = EmptySlots

CertificateBehind ==
  pc = "done" /\ "security" \in DOMAIN dirs /\ dirs["security"] # NoDirectory =>
    /\ dirs["security"].rva >= rawOffset + mempe.raw
    /\ dirs["security"].rva + dirs["security"].size <= size

HeaderInv == /\ EntriesTyped /\ DirectoriesThere /\ FixupsThere
             /\ SizeKnown /\ ImportsKnown /\ CertificateBehind

LEMMA FileStays ==
  ASSUME UNCHANGED layoutVars
  PROVE  /\ \A d : Mapped(d)' <=> Mapped(d)
         /\ \A rva : RvaToFile(rva)' = RvaToFile(rva)
         /\ \A d : Walkable(d)' <=> Walkable(d)
<1>1. /\ image' = image /\ sections' = sections /\ headerSize' = headerSize /\ layouts' = layouts
      /\ Indices' = Indices
  BY DEF layoutVars, Indices
<1>2. ASSUME NEW d PROVE Mapped(d)' <=> Mapped(d)  BY <1>1 DEF Mapped
<1>3. ASSUME NEW rva PROVE RvaToFile(rva)' = RvaToFile(rva)
  <2>1. \A i : Holds(i, rva)' <=> Holds(i, rva)  BY <1>1 DEF Holds
  <2> QED  BY <1>1, <2>1 DEF RvaToFile
<1>4. ASSUME NEW d PROVE Walkable(d)' <=> Walkable(d)
  <2>1. image' = image  BY <1>1
  <2> QED  BY ONLY <1>3, <2>1, SMTT(60) DEF Walkable
<1> QED  BY <1>2, <1>3, <1>4

LEMMA SlotsStay ==
  ASSUME UNCHANGED <<layoutVars, plan>>
  PROVE  EmptySlots' = EmptySlots
<1>1. image' = image /\ plan' = plan  BY DEF layoutVars
<1>2. \A rva : RvaToFile(rva)' = RvaToFile(rva)  BY FileStays
<1> QED  BY <1>1, <1>2 DEF EmptySlots

\* Before the header is written and after an error nothing is claimed.
LEMMA HeaderOff == pc' \notin Later => HeaderInv'
BY DEF HeaderInv, EntriesTyped, DirectoriesThere, FixupsThere, SizeKnown, ImportsKnown,
       CertificateBehind, Later, Checked, Written

LEMMA HeaderSame ==
  ASSUME HeaderInv, UNCHANGED <<layoutVars, plan, outputVars>>,
         pc \in Written, pc' \in Written, pc = "done" <=> pc' = "done"
  PROVE  HeaderInv'
<1>1. /\ UNCHANGED <<dirs, size, dynamic, mempe, filled, unemitted, plan>> /\ rawOffset' = rawOffset
  BY DEF outputVars, layoutVars
<1>2. EntriesTyped'  BY DEF EntriesTyped, Written
<1>3. DirectoriesThere'  BY <1>1, FileStays DEF HeaderInv, DirectoriesThere, Checked, Written
<1>4. FixupsThere'  BY <1>1 DEF HeaderInv, FixupsThere, Written
<1>5. SizeKnown'  BY <1>1 DEF HeaderInv, SizeKnown
<1>6. ImportsKnown'  BY <1>1, SlotsStay DEF HeaderInv, ImportsKnown, NoSection
<1>7. CertificateBehind'  BY <1>1 DEF HeaderInv, CertificateBehind
<1> QED  BY <1>2, <1>3, <1>4, <1>5, <1>6, <1>7 DEF HeaderInv

LEMMA HeaderWritten ==
  ASSUME IInv, WriteHeaders
  PROVE  HeaderInv'
<1>1. CASE pc' = "error"  BY <1>1, HeaderOff DEF Later, Checked
<1>2. CASE pc' = "directories"
  <2>1. dirs' = image.dirs /\ image \in Images  BY <1>2 DEF WriteHeaders, IInv, LayoutInv, Typed
  <2>2. \A name \in DOMAIN dirs' : dirs'[name] \in [rva : Nat, size : Nat]  BY <2>1, DirectoriesAssumption
  <2>3. unwind' = image.unwind  BY <1>2 DEF WriteHeaders
  <2>4. Len(unwind') \in Nat  BY <2>1, <2>3, DirectoriesAssumption
  <2> QED  BY <1>2, <2>2, <2>4 DEF HeaderInv, EntriesTyped, DirectoriesThere, FixupsThere,
                             SizeKnown, ImportsKnown, CertificateBehind, Checked, Written
<1> QED  BY <1>1, <1>2 DEF WriteHeaders

LEMMA HeaderCleared ==
  ASSUME HeaderInv, ClearBadDirectories
  PROVE  HeaderInv'
<1>1. /\ UNCHANGED layoutVars /\ pc = "directories" /\ pc' = "exception"
      /\ DOMAIN dirs' = DOMAIN dirs
      /\ \A name \in DOMAIN dirs : dirs'[name] = IF Bad(name) THEN NoDirectory ELSE dirs[name]
  BY DEF ClearBadDirectories
<1>2. EntriesTyped'
  <2>1. NoDirectory \in [rva : Nat, size : Nat]  BY DEF NoDirectory
  <2>2. unwind' = unwind  BY DEF ClearBadDirectories
  <2> QED  BY <1>1, <2>1, <2>2 DEF HeaderInv, EntriesTyped
<1>3. \A name \in DOMAIN dirs' : dirs'[name] # NoDirectory =>
        /\ dirs'[name] = dirs[name] /\ name # "security"
        /\ Mapped(dirs[name]) /\ (name = "reloc" => Walkable(dirs[name]))
  BY <1>1 DEF Bad
<1>4. DirectoriesThere'  BY <1>1, <1>3, FileStays DEF DirectoriesThere, NoDirectory
<1> QED  BY <1>1, <1>2, <1>4
         DEF HeaderInv, EntriesTyped, FixupsThere, SizeKnown, ImportsKnown, CertificateBehind, Written

\* A directory that gets smaller stays in the file.
LEMMA SmallerIsMapped ==
  ASSUME IInv, LaidInv, LaidOut, NEW d \in [rva : Nat, size : Nat], Mapped(d),
         NEW n \in Nat, n # 0, n <= d.size
  PROVE  Mapped([d EXCEPT !.size = n])
<1>1. d.rva \in Nat /\ d.size \in Nat /\ [d EXCEPT !.size = n] = [rva |-> d.rva, size |-> n]
  OBVIOUS
<1>2. /\ headerSize \in Nat
      /\ \A i \in Indices : sections[i].va \in Nat /\ layouts[i].length \in Nat
  BY FileFacts
<1>3. CASE d.rva + d.size <= headerSize
  <2>1. d.rva + n <= headerSize  BY <1>1, <1>2, <1>3
  <2> QED  BY <1>1, <2>1 DEF Mapped
<1>4. ASSUME NEW i \in Indices, d.rva >= sections[i].va,
             d.rva + d.size <= sections[i].va + layouts[i].length
      PROVE  Mapped([d EXCEPT !.size = n])
  <2>1. d.rva + n <= sections[i].va + layouts[i].length  BY <1>1, <1>2, <1>4
  <2> QED  BY <1>1, <1>4, <2>1 DEF Mapped
<1> QED  BY <1>3, <1>4 DEF Mapped

LEMMA HeaderException ==
  ASSUME IInv, LaidInv, HeaderInv, RepairException
  PROVE  HeaderInv'
<1> DEFINE d == dirs["exception"]
           count == Smaller(d.size \div 2, Len(unwind))
           kept == ValidEntries(count)
           n == 2 * Len(kept)
<1>1. UNCHANGED layoutVars /\ pc = "exception" /\ pc' = "debug"  BY DEF RepairException
<1>2. CASE dirs' = dirs
  <2>1. DirectoriesThere'  BY <1>1, <1>2, FileStays DEF HeaderInv, DirectoriesThere, Checked
  <2> QED  BY <1>1, <2>1
           DEF HeaderInv, EntriesTyped, FixupsThere, SizeKnown, ImportsKnown, CertificateBehind, Written
<1>3. CASE /\ "exception" \in DOMAIN dirs /\ d.rva # 0 /\ d.size # 0
           /\ dirs' = [dirs EXCEPT !["exception"] = IF kept = <<>> THEN NoDirectory ELSE [@ EXCEPT !.size = n]]
  <2>1. d \in [rva : Nat, size : Nat]  BY <1>1, <1>3 DEF HeaderInv, EntriesTyped
  <2>2. d # NoDirectory /\ Mapped(d)
    <3>1. d # NoDirectory  BY <1>3 DEF NoDirectory
    <3> QED  BY <1>1, <1>3, <3>1 DEF HeaderInv, DirectoriesThere, Checked
  <2>3. kept # <<>> => n \in Nat /\ n # 0 /\ n <= d.size
    <3>1. d.size \in Nat  BY <2>1
    <3> DEFINE k == d.size \div 2
    <3>2. k \in Nat /\ 2 * k <= d.size  BY <3>1
    <3>3. Len(unwind) \in Nat
      BY <1>1 DEF HeaderInv, EntriesTyped
    <3>4. count \in Nat /\ count <= k
      <4> HIDE DEF k
      <4>1. Smaller(k, Len(unwind)) \in Nat /\ Smaller(k, Len(unwind)) <= k  BY <3>2, <3>3 DEF Smaller
      <4> QED  BY <4>1 DEF k
    <3> HIDE DEF k, count
    <3>5. PICK S : kept \in Seq(S) /\ Len(kept) <= count  BY <3>4, FewEntriesStay
    <3> HIDE DEF kept
    <3>6. Len(kept) \in Nat /\ (kept # <<>> => Len(kept) # 0)  BY <3>5
    <3> QED  BY <3>1, <3>2, <3>4, <3>5, <3>6
  <2> DEFINE e == IF kept = <<>> THEN NoDirectory ELSE [d EXCEPT !.size = n]
  <2>4. /\ DOMAIN dirs' = DOMAIN dirs /\ dirs'["exception"] = e
        /\ \A name \in DOMAIN dirs \ {"exception"} : dirs'[name] = dirs[name]
    BY <1>3
  <2>5. e \in [rva : Nat, size : Nat] /\ (e # NoDirectory => Mapped(e))
    <3>1. LaidOut  BY <1>1 DEF LaidOut
    <3>2. CASE kept = <<>>
      <4>1. e = NoDirectory  BY <3>2
      <4> QED  BY <4>1 DEF NoDirectory
    <3>3. CASE kept # <<>>
      <4>1. e = [d EXCEPT !.size = n]  BY <3>3
      <4> HIDE DEF n, d, e
      <4>2. Mapped(e)  BY <2>1, <2>2, <2>3, <3>1, <3>3, <4>1, SmallerIsMapped
      <4>3. e \in [rva : Nat, size : Nat]  BY <2>1, <2>3, <3>3, <4>1
      <4> QED  BY <4>2, <4>3
    <3> QED  BY <3>2, <3>3
  <2> HIDE DEF e, d, kept, n
  <2>6. DirectoriesThere'
    <3>1. PICK c : c = e  OBVIOUS
    <3>2. c # NoDirectory => Mapped(c)'  BY <1>1, <2>5, <3>1, FileStays
    <3>3. dirs'["exception"] = c  BY <2>4, <3>1
    <3> QED  BY <1>1, <2>4, <3>2, <3>3, FileStays DEF HeaderInv, DirectoriesThere, Checked, NoDirectory
  <2> QED  BY <1>1, <2>6
           DEF HeaderInv, EntriesTyped, FixupsThere, SizeKnown, ImportsKnown, CertificateBehind, Written
<1> QED  BY <1>2, <1>3 DEF RepairException

LEMMA HeaderBase ==
  ASSUME HeaderInv, RepairDebug \/ ClearDynamicBase
  PROVE  HeaderInv'
<1>1. /\ UNCHANGED layoutVars /\ dirs' = dirs
      /\ \/ pc = "debug" /\ pc' = "base"
         \/ /\ pc = "base" /\ pc' = "imports"
            /\ dynamic' => "reloc" \in DOMAIN dirs /\ dirs["reloc"].rva # 0
  BY DEF RepairDebug, ClearDynamicBase
<1>2. DirectoriesThere'  BY <1>1, FileStays DEF HeaderInv, DirectoriesThere, Checked
<1>3. FixupsThere'
  <2>1. CASE pc' = "base"  BY <2>1 DEF FixupsThere, Written
  <2>2. CASE pc' = "imports"
    <3>1. dynamic' => "reloc" \in DOMAIN dirs' /\ dirs'["reloc"].rva # 0  BY <1>1, <2>2
    <3> QED  BY <3>1 DEF FixupsThere, NoDirectory
  <2> QED  BY <1>1, <2>1, <2>2
<1> QED  BY <1>1, <1>2, <1>3
         DEF HeaderInv, EntriesTyped, SizeKnown, ImportsKnown, CertificateBehind, Written

\* The imports are written with a table to point at them, or counted as lost; only
\* directories that nothing else rests on are dropped.
LEMMA HeaderImports ==
  ASSUME IInv, LaidInv, HeaderInv, WriteImports
  PROVE  HeaderInv'
<1>1. /\ UNCHANGED <<layoutVars, plan, dynamic>> /\ pc = "imports" /\ pc' \in {"error", "finalize"}
  BY DEF WriteImports
<1>2. CASE pc' = "error"  BY <1>2, HeaderOff DEF Later, Checked
<1>3. CASE pc' = "finalize"
  <2>1. /\ image \in Images /\ image.fileAlignment \in Nat \ {0}
        /\ rawOffset \in Nat /\ size = rawOffset /\ mempe = NoSection /\ rawOffset' = rawOffset
    BY <1>1, ImagesAssumption DEF IInv, LayoutInv, Typed, Repairing, layoutVars
  <2>2. plan \in Plans  BY <1>1 DEF LaidInv, Planned, Early
  <2>3. /\ plan.recovered \in Nat /\ plan.unrepresentable \in Nat /\ plan.payload \in Nat
        /\ IF plan.tables = {} THEN plan.recovered = 0 ELSE plan.payload > 0
    BY <2>2, PlansAssumption
  <2>4. /\ DOMAIN dirs' = DOMAIN dirs
        /\ \A name \in DOMAIN dirs \ {"import"} :
             dirs'[name] = dirs[name] \/ (name \in Dropped /\ dirs'[name] = NoDirectory)
    BY <1>3 DEF WriteImports
  <2>5. "security" \notin Dropped /\ "reloc" \notin Dropped  BY DEF Dropped
  <2>6. DirectoriesThere'
    BY <1>1, <1>3, <2>4, <2>5, FileStays DEF HeaderInv, DirectoriesThere, Checked, NoDirectory
  <2>7. FixupsThere'
    <3>1. dynamic' = dynamic  BY <1>1
    <3> QED  BY <1>1, <1>3, <2>4, <2>5, <3>1 DEF HeaderInv, FixupsThere, Written, NoDirectory
  <2>8. SizeKnown' /\ ImportsKnown'
    <3>1. CASE plan.tables # {} /\ CanAppend
      <4> DEFINE s == NewSection
      <4>1. /\ mempe' = s /\ size' = s.offset + s.raw /\ filled' = EmptySlots
            /\ unemitted' = plan.unrepresentable
        BY <1>3, <3>1 DEF WriteImports
      <4>2. /\ s.vs = plan.payload /\ s.offset = AlignUp(size, image.fileAlignment)
            /\ s.raw = AlignUp(plan.payload, image.fileAlignment)
        BY DEF NewSection
      <4>3. s.offset \in Nat /\ s.raw \in Nat /\ s.offset >= rawOffset
        BY <2>1, <2>3, <4>2, AlignUpFacts
      <4>4. s # NoSection
        <5>1. s.vs > 0  BY <2>3, <3>1, <4>2
        <5> QED  BY <5>1 DEF NoSection
      <4>5. EmptySlots' = EmptySlots  BY <1>1, SlotsStay
      <4>6. plan' = plan  BY <1>1
      <4> HIDE DEF s
      <4>7. SizeKnown'  BY <2>1, <4>1, <4>3 DEF SizeKnown
      <4>8. unemitted' >= plan'.unrepresentable + IF mempe' = NoSection' THEN plan'.recovered ELSE 0
        BY <2>3, <4>1, <4>4, <4>6 DEF NoSection
      <4>9. ImportsKnown'  BY <4>1, <4>4, <4>5, <4>8 DEF ImportsKnown, NoSection
      <4> QED  BY <4>7, <4>9
    <3>2. CASE ~ (plan.tables # {} /\ CanAppend)
      <4>1. /\ UNCHANGED <<size, mempe>>
            /\ unemitted' = plan.unrepresentable + IF plan.tables = {} THEN 0 ELSE plan.recovered
            /\ \/ plan.existing \/ "import" \notin DOMAIN dirs'
               \/ dirs'["import"] = NoDirectory
        BY <1>3, <3>2 DEF WriteImports
      <4>2. mempe.raw = 0  BY <2>1 DEF NoSection
      <4>3. SizeKnown'  BY <2>1, <4>1, <4>2 DEF SizeKnown
      <4>4. unemitted' >= plan.unrepresentable + plan.recovered
        <5>1. CASE plan.tables = {}  BY <2>3, <4>1, <5>1
        <5>2. CASE plan.tables # {}  BY <2>3, <4>1, <5>2
        <5> QED  BY <5>1, <5>2
      <4>5. plan' = plan /\ mempe' = NoSection  BY <1>1, <2>1, <4>1
      <4>6. ImportsKnown'  BY <4>1, <4>4, <4>5 DEF ImportsKnown, NoSection, NoDirectory
      <4> QED  BY <4>3, <4>6
    <3> QED  BY <3>1, <3>2
  <2> QED  BY <1>3, <2>6, <2>7, <2>8 DEF HeaderInv, EntriesTyped, CertificateBehind
<1> QED  BY <1>1, <1>2, <1>3

\* Nothing is put behind the image.
LEMMA HeaderEnd ==
  ASSUME HeaderInv, pc = "overlay", pc' = "done", UNCHANGED <<layoutVars, plan, outputVars>>
  PROVE  HeaderInv'
<1>1. pc = "overlay" /\ pc' = "done" /\ UNCHANGED <<layoutVars, plan>>  OBVIOUS
<1>2. /\ UNCHANGED <<dirs, size, dynamic, mempe, filled, unemitted, plan>> /\ rawOffset' = rawOffset
  BY DEF outputVars, layoutVars
<1>3. "security" \in DOMAIN dirs => dirs["security"] = NoDirectory
  BY <1>1 DEF HeaderInv, DirectoriesThere, Checked
<1>4. DirectoriesThere'  BY <1>1, <1>2, FileStays DEF HeaderInv, DirectoriesThere, Checked, NoDirectory
<1>5. FixupsThere' /\ SizeKnown'  BY <1>1, <1>2 DEF HeaderInv, FixupsThere, SizeKnown, Written, NoDirectory
<1>6. ImportsKnown'  BY <1>1, <1>2, SlotsStay DEF HeaderInv, ImportsKnown, NoSection, NoDirectory, Written
<1>7. CertificateBehind'  BY <1>2, <1>3 DEF CertificateBehind, NoDirectory
<1> QED  BY <1>1, <1>4, <1>5, <1>6, <1>7 DEF HeaderInv, EntriesTyped

\* A certificate is the only directory an overlay writes.
LEMMA HeaderOverlay ==
  ASSUME IInv, HeaderInv, NEW o \in Overlays, AppendOverlay(o), ~ UNCHANGED <<size, dirs>>
  PROVE  HeaderInv'
<1> DEFINE start == AlignUp(size, image.fileAlignment)
<1>1. /\ pc = "overlay" /\ pc' = "done" /\ UNCHANGED <<layoutVars, plan, dynamic, mempe, filled, unemitted>>
      /\ size' = start + o.length
      /\ dirs' = dirs \/ /\ "security" \in DOMAIN dirs
                         /\ dirs' = [dirs EXCEPT !["security"] = [rva |-> start, size |-> o.certificate]]
  BY DEF AppendOverlay
<1>2. image.fileAlignment \in Nat \ {0} /\ rawOffset \in Nat /\ rawOffset' = rawOffset
  BY <1>1, ImagesAssumption DEF IInv, LayoutInv, Typed, layoutVars
<1>3. size \in Nat /\ mempe.raw \in Nat /\ size >= rawOffset + mempe.raw
  BY <1>1 DEF HeaderInv, SizeKnown, Written
<1>4. start \in Nat /\ start >= size  BY <1>2, <1>3, AlignUpFacts
<1>5. o.length \in Nat /\ o.certificate \in 0..o.length  BY OverlaysAssumption
<1>6. DOMAIN dirs' = DOMAIN dirs /\ \A name \in DOMAIN dirs \ {"security"} : dirs'[name] = dirs[name]
  BY <1>1
<1>7. "security" \in DOMAIN dirs' => \/ dirs'["security"] = NoDirectory
                                     \/ dirs'["security"] = [rva |-> start, size |-> o.certificate]
  BY <1>1 DEF HeaderInv, DirectoriesThere, Checked
<1> HIDE DEF start
<1>8. DirectoriesThere'  BY <1>1, <1>6, FileStays DEF HeaderInv, DirectoriesThere, Checked, NoDirectory
<1>9. FixupsThere'  BY <1>1, <1>6 DEF HeaderInv, FixupsThere, Written, NoDirectory
<1>10. SizeKnown'  BY <1>1, <1>2, <1>3, <1>4, <1>5 DEF SizeKnown
<1>11. ImportsKnown'  BY <1>1, <1>6, SlotsStay DEF HeaderInv, ImportsKnown, NoSection, NoDirectory, Written
<1>12. CertificateBehind'
  <2>1. start >= rawOffset + mempe.raw /\ start + o.certificate <= start + o.length
    BY <1>2, <1>3, <1>4, <1>5
  <2> QED  BY <1>1, <1>2, <1>7, <2>1 DEF CertificateBehind, NoDirectory
<1> QED  BY <1>1, <1>8, <1>9, <1>10, <1>11, <1>12 DEF HeaderInv, EntriesTyped

LEMMA HeaderStep == IInv /\ LaidInv /\ HeaderInv /\ [Next]_vars => HeaderInv'
<1> SUFFICES ASSUME IInv, LaidInv, HeaderInv, [Next]_vars PROVE HeaderInv'  OBVIOUS
<1>1. CASE (Parse /\ UNCHANGED <<plan, outputVars, overlay>>) \/ Plan \/ Place
  <2>1. pc' \notin Later
    BY <1>1 DEF Parse, Plan, PlanLayout, Place, PlaceSection, Later, Checked
  <2> QED  BY <2>1, HeaderOff
<1>2. CASE WriteHeaders  BY <1>2, HeaderWritten
<1>3. CASE ClearBadDirectories  BY <1>3, HeaderCleared
<1>4. CASE RepairException  BY <1>4, HeaderException
<1>5. CASE RepairDebug \/ ClearDynamicBase  BY <1>5, HeaderBase
<1>6. CASE WriteImports  BY <1>6, HeaderImports
<1>7. CASE \E entry \in EntryPoints : Finalize(entry)
  <2>1. /\ pc = "finalize" /\ pc' \in {"error", "overlay"} /\ UNCHANGED <<layoutVars, plan, outputVars>>
    BY <1>7 DEF Finalize
  <2>2. CASE pc' = "error"  BY <2>2, HeaderOff DEF Later, Checked
  <2>3. CASE pc' = "overlay"  BY <2>1, <2>3, HeaderSame DEF Written
  <2> QED  BY <2>1, <2>2, <2>3
<1>8. CASE NoOverlay  BY <1>8, HeaderEnd DEF NoOverlay
<1>9. CASE \E o \in Overlays : AppendOverlay(o)
  <2>1. PICK o \in Overlays : AppendOverlay(o)  BY <1>9
  <2>2. CASE UNCHANGED <<size, dirs>>
    <3>1. pc = "overlay" /\ pc' = "done" /\ UNCHANGED <<layoutVars, plan, outputVars>>
      BY <2>1, <2>2 DEF AppendOverlay, outputVars
    <3> QED  BY <3>1, HeaderEnd
  <2> QED  BY <2>1, <2>2, HeaderOverlay
<1>10. CASE UNCHANGED vars
  <2>1. UNCHANGED <<pc, layoutVars, plan, outputVars>>  BY <1>10 DEF vars
  <2>2. CASE pc \in Written  BY <2>1, <2>2, HeaderSame
  <2>3. CASE pc \notin Written
    <3>1. UNCHANGED <<dirs, unwind, dynamic>>  BY <2>1 DEF outputVars
    <3>2. DirectoriesThere'  BY <2>1, <3>1, FileStays DEF HeaderInv, DirectoriesThere
    <3> QED  BY <2>1, <2>3, <3>1, <3>2 DEF HeaderInv, EntriesTyped, FixupsThere, SizeKnown, ImportsKnown,
                                           CertificateBehind, Written
  <2> QED  BY <2>2, <2>3
<1> QED  BY <1>1, <1>2, <1>3, <1>4, <1>5, <1>6, <1>7, <1>8, <1>9, <1>10 DEF Next

-----------------------------------------------------------------------------
(* SizeOfImage lies behind every section. *)

EndsBefore(limit) == \A i \in Indices : sections[i].va + Span(sections[i]) <= limit

ImageEnds == pc \in Repairing \cup {"finalize", "overlay"} => imageSize \in Nat /\ EndsBefore(imageSize)

ImportsFit ==
  pc \in {"finalize", "overlay"} /\ mempe # NoSection =>
    /\ mempe.va \in Nat /\ mempe.vs \in Nat \ {0} /\ mempe.va + mempe.vs <= imageSize
    /\ EndsBefore(mempe.va)
    /\ TableEnd(sections) + SectionHeader <= headerSize

EndsInv == ImageEnds /\ ImportsFit

LEMMA SectionsHaveEnd ==
  ASSUME sections \in Seq(SectionType), Len(sections) # 0
  PROVE  SectionsEnd \in Nat /\ EndsBefore(SectionsEnd)
<1> DEFINE f == [i \in 1..Len(sections) |-> sections[i].va + Span(sections[i])]
           ends == {sections[i].va + Span(sections[i]) : i \in Indices}
<1>1. Len(sections) \in Nat /\ Indices = 1..Len(sections)  BY SectionsIndexed DEF Indices
<1>2. \A i \in Indices : sections[i].va + Span(sections[i]) \in Nat
  <2>1. ASSUME NEW i \in Indices PROVE sections[i].va + Span(sections[i]) \in Nat
    <3>1. sections[i] \in SectionType  BY SectionsIndexed DEF Indices
    <3> QED  BY <3>1, SizesOf
  <2> QED  BY <2>1
<1>3. f \in [1..Len(sections) -> Nat]  BY <1>1, <1>2
<1>4. PICK bound \in Nat : \A i \in 1..Len(sections) : f[i] <= bound  BY <1>1, <1>3, SequencesAreBounded
<1>5. ends \in SUBSET Nat /\ \A e \in ends : e <= bound  BY <1>1, <1>2, <1>4
<1>6. ends # {}
  <2>1. 1 \in Indices  BY <1>1
  <2> QED  BY <2>1
<1> HIDE DEF f
<1>7. Greatest(ends) \in Nat /\ \A e \in ends : e <= Greatest(ends)
  <2> HIDE DEF ends
  <2> QED  BY <1>5, <1>6, GreatestOf
<1>8. SectionsEnd = Greatest(ends)  BY DEF SectionsEnd
<1> QED  BY <1>7, <1>8 DEF EndsBefore

LEMMA EndsStay ==
  ASSUME sections \in Seq(SectionType), NEW a \in Nat, NEW b \in Nat, a <= b, EndsBefore(a)
  PROVE  EndsBefore(b)
<1>1. ASSUME NEW i \in Indices PROVE sections[i].va + Span(sections[i]) <= b
  <2>1. sections[i] \in SectionType  BY SectionsIndexed DEF Indices
  <2>2. sections[i].va \in Nat /\ Span(sections[i]) \in Nat  BY <2>1, SizesOf
  <2>3. sections[i].va + Span(sections[i]) <= a  BY DEF EndsBefore
  <2> QED  BY <2>2, <2>3
<1> QED  BY <1>1 DEF EndsBefore

LEMMA EndsSame ==
  ASSUME EndsInv, UNCHANGED <<layoutVars, imageSize, mempe>>,
         \/ pc' \notin Repairing \cup {"finalize", "overlay"}
         \/ pc \in Repairing /\ pc' \in Repairing
         \/ pc \in {"finalize", "overlay"} /\ pc' \in {"finalize", "overlay"}
  PROVE  EndsInv'
<1>1. UNCHANGED <<sections, headerSize, mempe, imageSize>>  BY DEF layoutVars
<1>2. \A limit : EndsBefore(limit)' <=> EndsBefore(limit)  BY <1>1 DEF EndsBefore, Indices
<1>3. ImageEnds'  BY <1>1, <1>2 DEF EndsInv, ImageEnds
<1>4. ImportsFit'  BY <1>1, <1>2 DEF EndsInv, ImportsFit, NoSection, Repairing
<1> QED  BY <1>3, <1>4 DEF EndsInv

LEMMA EndsWritten ==
  ASSUME IInv, LaidInv, WriteHeaders
  PROVE  EndsInv'
<1>1. /\ pc = "layout" /\ UNCHANGED layoutVars /\ pc' \in {"error", "directories"}
      /\ pc' = "directories" => imageSize' = AlignUp(SectionsEnd, image.sectionAlignment)
  BY DEF WriteHeaders
<1>2. sections' = sections  BY <1>1 DEF layoutVars
<1>3. sections \in Seq(SectionType) /\ image \in Images /\ image.sectionAlignment \in Nat \ {0}
  BY ImagesAssumption DEF IInv, LayoutInv, Typed
<1>4. Len(sections) # 0  BY <1>1 DEF LaidInv, Parsed, Parses
<1>5. SectionsEnd \in Nat /\ EndsBefore(SectionsEnd)  BY <1>3, <1>4, SectionsHaveEnd
<1>6. \A limit : EndsBefore(limit)' <=> EndsBefore(limit)  BY <1>2 DEF EndsBefore, Indices
<1>7. PICK n : n = AlignUp(SectionsEnd, image.sectionAlignment)  OBVIOUS
<1>8. n \in Nat /\ SectionsEnd <= n  BY <1>3, <1>5, <1>7, AlignUpFacts
<1>9. EndsBefore(n)  BY <1>3, <1>5, <1>8, EndsStay
<1>10. ImageEnds'
  <2>1. pc' = "directories" => imageSize' = n  BY <1>1, <1>7
  <2> QED  BY <1>1, <1>6, <1>8, <1>9, <2>1 DEF ImageEnds, Repairing
<1>11. ImportsFit'  BY <1>1 DEF ImportsFit
<1> QED  BY <1>10, <1>11 DEF EndsInv

LEMMA EndsImports ==
  ASSUME IInv, LaidInv, EndsInv, WriteImports
  PROVE  EndsInv'
<1> DEFINE s == NewSection
<1>1. /\ pc = "imports" /\ UNCHANGED layoutVars /\ pc' \in {"error", "finalize"}
      /\ \/ pc' = "error"
         \/ imageSize' = imageSize /\ mempe' = mempe
         \/ /\ plan.tables # {} /\ CanAppend
            /\ mempe' = s /\ imageSize' = AlignUp(s.va + s.vs, image.sectionAlignment)
  BY DEF WriteImports
<1>2. sections' = sections /\ headerSize' = headerSize  BY <1>1 DEF layoutVars
<1>3. /\ sections \in Seq(SectionType) /\ image \in Images /\ image.sectionAlignment \in Nat \ {0}
      /\ mempe = NoSection
  BY <1>1, ImagesAssumption DEF IInv, LayoutInv, Typed, Repairing
<1>4. imageSize \in Nat /\ EndsBefore(imageSize)  BY <1>1 DEF EndsInv, ImageEnds, Repairing
<1>5. \A limit : EndsBefore(limit)' <=> EndsBefore(limit)  BY <1>2 DEF EndsBefore, Indices
<1>6. CASE pc' = "error"  BY <1>6 DEF EndsInv, ImageEnds, ImportsFit, Repairing
<1>7. CASE imageSize' = imageSize /\ mempe' = mempe
  <2>1. ImageEnds'
    <3>1. PICK n : n = imageSize  OBVIOUS
    <3> QED  BY <1>4, <1>5, <1>7, <3>1 DEF ImageEnds
  <2>2. ImportsFit'  BY <1>3, <1>7 DEF ImportsFit, NoSection
  <2> QED  BY <2>1, <2>2 DEF EndsInv
<1>8. CASE /\ plan.tables # {} /\ CanAppend
           /\ mempe' = s /\ imageSize' = AlignUp(s.va + s.vs, image.sectionAlignment)
  <2>1. plan \in Plans  BY <1>1 DEF LaidInv, Planned, Early
  <2>2. plan.payload \in Nat \ {0}  BY <1>8, <2>1, PlansAssumption
  <2>3. s.va = AlignUp(imageSize, image.sectionAlignment) /\ s.vs = plan.payload  BY DEF NewSection
  <2>4. PICK t : t = s  OBVIOUS
  <2>5. t.va \in Nat /\ imageSize <= t.va /\ t.vs \in Nat \ {0}
    BY <1>3, <1>4, <2>2, <2>3, <2>4, AlignUpFacts
  <2>6. PICK n : n = AlignUp(t.va + t.vs, image.sectionAlignment)  OBVIOUS
  <2>7. n \in Nat /\ t.va + t.vs <= n
    <3>1. t.va + t.vs \in Nat  BY <2>5
    <3> QED  BY <1>3, <2>6, <3>1, AlignUpFacts
  <2>8. mempe' = t /\ imageSize' = n  BY <1>8, <2>4, <2>6
  <2>9. EndsBefore(t.va) /\ EndsBefore(n)
    <3>1. t.va <= n  BY <2>5, <2>7
    <3>2. EndsBefore(t.va)  BY <1>3, <1>4, <2>5, EndsStay
    <3> QED  BY <1>3, <2>5, <2>7, <3>1, <3>2, EndsStay
  <2>10. ImageEnds'  BY <1>5, <2>7, <2>8, <2>9 DEF ImageEnds
  <2>11. ImportsFit'
    <3>1. TableEnd(sections') + SectionHeader <= headerSize'  BY <1>2, <1>8 DEF CanAppend
    <3>2. EndsBefore(t.va)'  BY <1>5, <2>9
    <3>3. PICK v : v = t.va  OBVIOUS
    <3>4. mempe'.va = v /\ EndsBefore(v)'  BY <1>5, <2>8, <2>9, <3>3
    <3> QED  BY <2>5, <2>7, <2>8, <3>1, <3>4 DEF ImportsFit
  <2> QED  BY <2>10, <2>11 DEF EndsInv
<1> QED  BY <1>1, <1>6, <1>7, <1>8

LEMMA EndsStep == IInv /\ LaidInv /\ EndsInv /\ [Next]_vars => EndsInv'
<1> SUFFICES ASSUME IInv, LaidInv, EndsInv, [Next]_vars PROVE EndsInv'  OBVIOUS
<1>1. CASE (Parse /\ UNCHANGED <<plan, outputVars, overlay>>) \/ Plan \/ Place
  <2>1. pc' \notin Repairing \cup {"finalize", "overlay"}
    BY <1>1 DEF Parse, Plan, PlanLayout, Place, PlaceSection, Repairing
  <2> QED  BY <2>1 DEF EndsInv, ImageEnds, ImportsFit
<1>2. CASE WriteHeaders  BY <1>2, EndsWritten
<1>3. CASE ClearBadDirectories \/ RepairException \/ RepairDebug \/ ClearDynamicBase
  <2>1. pc \in Repairing /\ pc' \in Repairing /\ UNCHANGED <<layoutVars, imageSize, mempe>>
    BY <1>3 DEF ClearBadDirectories, RepairException, RepairDebug, ClearDynamicBase, Repairing
  <2> QED  BY <2>1, EndsSame
<1>4. CASE WriteImports  BY <1>4, EndsImports
<1>5. CASE \/ \E entry \in EntryPoints : Finalize(entry)
           \/ NoOverlay \/ \E o \in Overlays : AppendOverlay(o)
  <2>1. /\ UNCHANGED <<layoutVars, imageSize, mempe>>
        /\ \/ pc' \in {"error", "done"}
           \/ pc = "finalize" /\ pc' = "overlay"
    BY <1>5 DEF Finalize, NoOverlay, AppendOverlay, outputVars
  <2> QED  BY <2>1, EndsSame DEF Repairing
<1>6. CASE UNCHANGED vars
  <2>1. UNCHANGED <<pc, layoutVars, imageSize, mempe>>  BY <1>6 DEF vars, outputVars
  <2> QED  BY <2>1, EndsSame
<1> QED  BY <1>1, <1>2, <1>3, <1>4, <1>5, <1>6 DEF Next

\* With the sizes they were captured with, the sections of the new file fit.
LEMMA CapturedSectionsFit ==
  ASSUME IInv, LaidInv, EndsInv, pc = "overlay"
  PROVE  SectionsFit(IF mempe = NoSection THEN sections ELSE Append(sections, mempe), imageSize)
<1>1. LaidOut  BY DEF LaidOut
<1>2. sections \in Seq(SectionType) /\ SectionsFit(sections, RecoveredSize(image))  BY <1>1, FileFacts
<1>3. imageSize \in Nat /\ EndsBefore(imageSize)  BY DEF EndsInv, ImageEnds
<1>4. ASSUME NEW i \in Indices
      PROVE  /\ sections[i].va \in Nat /\ MappedSize(sections[i]) \in Nat
             /\ \A limit \in Nat : EndsBefore(limit) => sections[i].va + MappedSize(sections[i]) <= limit
  <2>1. sections[i] \in SectionType  BY <1>2, SectionsIndexed DEF Indices
  <2>2. /\ sections[i].va \in Nat /\ MappedSize(sections[i]) \in Nat /\ Span(sections[i]) \in Nat
        /\ MappedSize(sections[i]) <= Span(sections[i])
    BY <2>1, SizesOf
  <2>3. ASSUME NEW limit \in Nat, EndsBefore(limit)
        PROVE  sections[i].va + MappedSize(sections[i]) <= limit
    <3>1. sections[i].va + Span(sections[i]) <= limit  BY <2>3 DEF EndsBefore
    <3> QED  BY <2>2, <3>1
  <2> QED  BY <2>2, <2>3
<1>5. CASE mempe = NoSection
  <2>1. SectionsFit(sections, imageSize)  BY <1>2, <1>3, <1>4 DEF SectionsFit, Indices
  <2> QED  BY <1>5, <2>1
<1>6. CASE mempe # NoSection
  <2> DEFINE ss == Append(sections, mempe)
             n == Len(sections)
  <2>1. mempe.va \in Nat /\ mempe.vs \in Nat \ {0} /\ mempe.va + mempe.vs <= imageSize /\ EndsBefore(mempe.va)
    BY <1>6 DEF EndsInv, ImportsFit
  <2>2. MappedSize(mempe) = mempe.vs  BY <2>1 DEF MappedSize
  <2>3. /\ n \in Nat /\ Indices = 1..n /\ DOMAIN ss = 1..(n + 1)
        /\ ss[n + 1] = mempe /\ \A i \in Indices : ss[i] = sections[i]
    <3>1. sections \in Seq({sections[i] : i \in Indices})  BY <1>2 DEF Indices
    <3> QED  BY <1>2, SectionsIndexed DEF Indices
  <2> HIDE DEF ss
  <2>4. \A i \in DOMAIN ss : i \in Indices \/ i = n + 1
    <3> HIDE DEF n
    <3> QED  BY <2>3
  <2>5. ASSUME NEW i \in DOMAIN ss, MappedSize(ss[i]) # 0
        PROVE  ss[i].va + MappedSize(ss[i]) <= imageSize
    <3>1. CASE i = n + 1  BY <2>1, <2>2, <2>3, <3>1
    <3>2. CASE i \in Indices
      <4>1. sections[i].va + MappedSize(sections[i]) <= imageSize  BY <1>3, <1>4, <3>2
      <4> QED  BY <2>3, <3>2, <4>1
    <3> QED  BY <2>4, <3>1, <3>2
  <2>6. ASSUME NEW i \in Indices PROVE ss[i].va + MappedSize(ss[i]) <= mempe.va
    <3>1. sections[i].va + MappedSize(sections[i]) <= mempe.va  BY <1>4, <2>1
    <3> QED  BY <2>3, <3>1
  <2>7. ASSUME NEW i \in DOMAIN ss, NEW j \in DOMAIN ss, i # j, MappedSize(ss[i]) # 0, MappedSize(ss[j]) # 0
        PROVE  ss[i].va + MappedSize(ss[i]) <= ss[j].va \/ ss[j].va + MappedSize(ss[j]) <= ss[i].va
    <3>1. CASE i \in Indices /\ j \in Indices
      <4>1. ss[i] = sections[i] /\ ss[j] = sections[j]  BY <2>3, <3>1
      <4> QED  BY <1>2, <2>7, <3>1, <4>1 DEF SectionsFit, Indices
    <3>2. CASE i \in Indices /\ j = n + 1  BY <2>3, <2>6, <3>2
    <3>3. CASE j \in Indices /\ i = n + 1  BY <2>3, <2>6, <3>3
    <3> QED  BY <2>4, <2>7, <3>1, <3>2, <3>3
  <2>8. SectionsFit(ss, imageSize)  BY <2>5, <2>7 DEF SectionsFit
  <2> QED  BY <1>6, <2>8 DEF ss
<1> QED  BY <1>5, <1>6

\* What the new file declares fits too, unless a section is outgrown.
LEMMA FinalSectionsFit ==
  ASSUME IInv, LaidInv, EndsInv, pc = "overlay", \A i \in Indices : ~ Outgrown(i)
  PROVE  SectionsFit(FinalSections, imageSize)
<1> DEFINE ss == IF mempe = NoSection THEN sections ELSE Append(sections, mempe)
           written == [i \in Indices |-> WrittenSection(i)]
           n == Len(sections)
<1>1. SectionsFit(ss, imageSize)  BY CapturedSectionsFit
<1>2. LaidOut  BY DEF LaidOut
<1>3. sections \in Seq(SectionType) /\ n \in Nat /\ Indices = 1..n
  BY <1>2, FileFacts, SectionsIndexed DEF Indices
<1>4. ASSUME NEW i \in Indices
      PROVE  /\ written[i].va = sections[i].va /\ sections[i].va \in Nat
             /\ MappedSize(written[i]) \in Nat /\ MappedSize(sections[i]) \in Nat
             /\ MappedSize(written[i]) <= MappedSize(sections[i])
  <2>1. sections[i] \in SectionType /\ layouts[i].size \in Nat  BY <1>2, FileFacts
  <2>2. sections[i].va \in Nat /\ sections[i].vs \in Nat /\ sections[i].raw \in Nat
    BY <2>1 DEF SectionType
  <2>3. /\ written[i].va = sections[i].va /\ written[i].vs = sections[i].vs
        /\ written[i].raw = layouts[i].size
    BY <2>1 DEF WrittenSection, SectionType
  <2>4. ~ Outgrown(i)  OBVIOUS
  <2> HIDE DEF written
  <2> QED  BY <2>1, <2>2, <2>3, <2>4 DEF MappedSize, Outgrown
<1>5. written \in Seq({written[i] : i \in Indices}) /\ Len(written) = n  BY <1>3
<1>6. CASE mempe = NoSection
  <2>1. FinalSections = written /\ ss = sections  BY <1>6 DEF FinalSections
  <2>2. DOMAIN written = Indices /\ DOMAIN sections = Indices  BY DEF Indices
  <2> HIDE DEF written, ss
  <2>3. imageSize \in Nat  BY DEF EndsInv, ImageEnds
  <2> QED  BY <1>1, <1>4, <2>1, <2>2, <2>3 DEF SectionsFit
<1>7. CASE mempe # NoSection
  <2>1. FinalSections = Append(written, mempe) /\ ss = Append(sections, mempe)
    BY <1>7 DEF FinalSections
  <2>2. sections \in Seq({sections[i] : i \in Indices})  BY <1>3 DEF Indices
  <2> HIDE DEF written, ss
  <2>3. /\ DOMAIN FinalSections = 1..(n + 1) /\ FinalSections[n + 1] = mempe
        /\ \A i \in Indices : FinalSections[i] = written[i]
    BY <1>3, <1>5, <2>1
  <2>4. /\ DOMAIN ss = 1..(n + 1) /\ ss[n + 1] = mempe
        /\ \A i \in Indices : ss[i] = sections[i]
    BY <1>3, <2>1, <2>2
  <2>5. imageSize \in Nat /\ mempe.va \in Nat /\ MappedSize(mempe) \in Nat
    BY <1>7 DEF EndsInv, ImageEnds, ImportsFit, MappedSize
  <2>6. ASSUME NEW k \in 1..(n + 1)
        PROVE  /\ FinalSections[k].va = ss[k].va /\ ss[k].va \in Nat
               /\ MappedSize(FinalSections[k]) \in Nat /\ MappedSize(ss[k]) \in Nat
               /\ MappedSize(FinalSections[k]) <= MappedSize(ss[k])
    <3>1. CASE k = n + 1  BY <2>3, <2>4, <2>5, <3>1
    <3>2. CASE k \in Indices  BY <1>4, <2>3, <2>4, <3>2
    <3> QED  BY <1>3, <3>1, <3>2
  <2> DEFINE N == 1..(n + 1)
  <2>7. DOMAIN FinalSections = N /\ DOMAIN ss = N  BY <2>3, <2>4
  <2>8. \A k \in N : /\ FinalSections[k].va = ss[k].va /\ ss[k].va \in Nat
                     /\ MappedSize(FinalSections[k]) \in Nat /\ MappedSize(ss[k]) \in Nat
                     /\ MappedSize(FinalSections[k]) <= MappedSize(ss[k])
    BY <2>6
  <2> HIDE DEF N
  <2>9. ASSUME NEW k \in N, MappedSize(FinalSections[k]) # 0
        PROVE  FinalSections[k].va + MappedSize(FinalSections[k]) <= imageSize
    <3>1. ss[k].va + MappedSize(ss[k]) <= imageSize  BY <1>1, <2>7, <2>8, <2>9 DEF SectionsFit
    <3> QED  BY <2>5, <2>8, <3>1
  <2>10. ASSUME NEW k \in N, NEW l \in N, k # l,
                MappedSize(FinalSections[k]) # 0, MappedSize(FinalSections[l]) # 0
         PROVE  \/ FinalSections[k].va + MappedSize(FinalSections[k]) <= FinalSections[l].va
                \/ FinalSections[l].va + MappedSize(FinalSections[l]) <= FinalSections[k].va
    <3>1. MappedSize(ss[k]) # 0 /\ MappedSize(ss[l]) # 0  BY <2>8, <2>10
    <3>2. ss[k].va + MappedSize(ss[k]) <= ss[l].va \/ ss[l].va + MappedSize(ss[l]) <= ss[k].va
      BY <1>1, <2>7, <2>10, <3>1 DEF SectionsFit
    <3> QED  BY <2>8, <3>2
  <2> QED  BY <2>7, <2>9, <2>10 DEF SectionsFit
<1> QED  BY <1>6, <1>7

-----------------------------------------------------------------------------
(* Where debug pointers lead. *)

DebugInv ==
  /\ pc \in {"directories", "exception", "debug"} =>
       \A k \in DOMAIN debug : debug[k] \in [rva : Nat, pointer : Nat]
  /\ pc \in {"base", "imports"} \cup Written => DebugFollows

\* What rva_to_file finds in the file is the byte of that address.
LEMMA PointerFollows ==
  ASSUME IInv, LaidInv, LaidOut, NEW rva \in Nat, RvaToFile(rva) # -1, rva < image.length
  PROVE  CopiedFrom(RvaToFile(rva)) = rva
<1>1. headerSize \in Nat /\ image.length \in Nat  BY FileFacts
<1>2. CASE rva < headerSize
  <2>1. RvaToFile(rva) = rva  BY <1>2 DEF RvaToFile
  <2>2. ASSUME NEW i \in DOMAIN layouts, layouts[i].size # 0,
               rva \in layouts[i].offset..(layouts[i].offset + layouts[i].length - 1)
        PROVE  FALSE
    <3>1. layouts[i].offset >= headerSize /\ layouts[i].offset \in Nat
      BY <2>2 DEF IInv, LayoutInv, Typed, InsideTheFile
    <3> QED  BY <1>1, <1>2, <2>2, <3>1
  <2>3. rva < Smaller(headerSize, image.length)  BY <1>2 DEF Smaller
  <2> QED  BY <2>1, <2>2, <2>3 DEF CopiedFrom
<1>3. CASE ~ (rva < headerSize)
  <2>1. PICK i \in DOMAIN layouts :
          Holds(i, rva) /\ RvaToFile(rva) = layouts[i].offset + rva - sections[i].va
    <3>1. \E j \in DOMAIN layouts : Holds(j, rva)  BY <1>3 DEF RvaToFile
    <3>2. RvaToFile(rva) = LET j == CHOOSE k \in DOMAIN layouts : Holds(k, rva)
                           IN  layouts[j].offset + rva - sections[j].va
      BY <1>3, <3>1 DEF RvaToFile
    <3> QED  BY <3>1, <3>2
  <2> DEFINE L == layouts[i]
             va == sections[i].va
             position == RvaToFile(rva)
  <2>2. i \in Indices /\ va \in Nat /\ L.offset \in Nat /\ L.length \in Nat  BY FileFacts
  <2>3. L.size # 0 /\ rva \in va..(va + L.length - 1)  BY <2>1 DEF Holds
  <2>4. position = L.offset + rva - va  BY <2>1
  <2>5. position \in L.offset..(L.offset + L.length - 1)
    <3> HIDE DEF L, va, position
    <3> QED  BY <2>2, <2>3, <2>4
  <2>6. CopiedFrom(position) = va + position - L.offset
    <3> HIDE DEF position
    <3> QED  BY <2>2, <2>3, <2>5, OneSource
  <2> HIDE DEF L, va, position
  <2>7. CopiedFrom(position) = rva  BY <2>2, <2>4, <2>6
  <2> QED  BY <2>7 DEF position
<1> QED  BY <1>2, <1>3

LEMMA DebugSame ==
  ASSUME DebugFollows, UNCHANGED <<layoutVars, debug>>,
         "debug" \in DOMAIN dirs' => "debug" \in DOMAIN dirs /\ dirs'["debug"] = dirs["debug"]
  PROVE  DebugFollows'
<1>1. /\ debug' = debug /\ image' = image /\ sections' = sections /\ headerSize' = headerSize
      /\ layouts' = layouts
  BY DEF layoutVars
<1>2. \A rva : RvaToFile(rva)' = RvaToFile(rva)  BY FileStays
<1>3. \A position : CopiedFrom(position)' = CopiedFrom(position)  BY <1>1 DEF CopiedFrom
<1>4. CASE "debug" \notin DOMAIN dirs'  BY <1>4 DEF DebugFollows
<1>5. CASE "debug" \in DOMAIN dirs'
  <2>1. "debug" \in DOMAIN dirs /\ dirs'["debug"] = dirs["debug"]  BY <1>5
  <2>2. \A k : Repaired(k)' <=> Repaired(k)  BY <2>1 DEF Repaired
  <2>3. SUFFICES ASSUME "debug" \in DOMAIN dirs, dirs["debug"].rva # 0, RvaToFile(dirs["debug"].rva) # -1,
                        NEW k \in DOMAIN debug, Repaired(k), debug[k].pointer # 0, debug[k].rva < image.length
                 PROVE  CopiedFrom(debug[k].pointer) = debug[k].rva
    BY <1>1, <1>2, <1>3, <2>1, <2>2 DEF DebugFollows
  <2> QED  BY <2>3 DEF DebugFollows
<1> QED  BY <1>4, <1>5

\* An entry that is repaired points at its own data or at nothing.
LEMMA DebugRepaired ==
  ASSUME IInv, LaidInv, DebugInv, RepairDebug
  PROVE  DebugFollows'
<1>1. /\ pc = "debug" /\ UNCHANGED <<layoutVars, dirs>>
      /\ image' = image /\ sections' = sections /\ headerSize' = headerSize /\ layouts' = layouts
  BY DEF RepairDebug, layoutVars
<1>2. LaidOut  BY <1>1 DEF LaidOut
<1>3. \A k \in DOMAIN debug : debug[k] \in [rva : Nat, pointer : Nat]  BY <1>1 DEF DebugInv
<1>4. \A rva : RvaToFile(rva)' = RvaToFile(rva)  BY <1>1, FileStays
<1>5. \A position : CopiedFrom(position)' = CopiedFrom(position)  BY <1>1 DEF CopiedFrom
<1>6. \A k : Repaired(k)' <=> Repaired(k)  BY <1>1 DEF Repaired
<1>7. SUFFICES ASSUME "debug" \in DOMAIN dirs, dirs["debug"].rva # 0, RvaToFile(dirs["debug"].rva) # -1,
                      NEW k \in DOMAIN debug', Repaired(k), debug'[k].pointer # 0, debug'[k].rva < image.length
               PROVE  CopiedFrom(debug'[k].pointer) = debug'[k].rva
  BY <1>1, <1>4, <1>5, <1>6 DEF DebugFollows
<1>8. debug' = [l \in DOMAIN debug |->
                  IF ~ Repaired(l) THEN debug[l]
                  ELSE [debug[l] EXCEPT !.pointer =
                          IF debug[l].rva = 0 \/ RvaToFile(debug[l].rva) = -1 THEN 0
                          ELSE RvaToFile(debug[l].rva)]]
  BY <1>7 DEF RepairDebug
<1>9. k \in DOMAIN debug  BY <1>7, <1>8
<1>10. PICK e \in [rva : Nat, pointer : Nat] : e = debug[k]  BY <1>3, <1>9
<1>11. PICK at : at = RvaToFile(e.rva)  OBVIOUS
<1>12. debug'[k] = [e EXCEPT !.pointer = IF e.rva = 0 \/ at = -1 THEN 0 ELSE at]
  BY <1>7, <1>8, <1>9, <1>10, <1>11
<1>13. debug'[k].rva = e.rva /\ e.rva \in Nat  BY <1>10, <1>12
<1>14. debug'[k].pointer = at /\ at # -1
  <2>1. debug'[k].pointer = IF e.rva = 0 \/ at = -1 THEN 0 ELSE at  BY <1>10, <1>12
  <2> QED  BY <1>7, <2>1
<1> QED  BY <1>2, <1>7, <1>11, <1>13, <1>14, PointerFollows

LEMMA DebugStep == IInv /\ LaidInv /\ DebugInv /\ [Next]_vars => DebugInv'
<1> SUFFICES ASSUME IInv, LaidInv, DebugInv, [Next]_vars PROVE DebugInv'  OBVIOUS
<1>1. CASE (Parse /\ UNCHANGED <<plan, outputVars, overlay>>) \/ Plan \/ Place
  <2>1. pc' \notin Later
    BY <1>1 DEF Parse, Plan, PlanLayout, Place, PlaceSection, Later, Checked
  <2> QED  BY <2>1 DEF DebugInv, Later, Checked, Written
<1>2. CASE WriteHeaders
  <2>1. pc' \in {"error", "directories"} /\ (pc' = "directories" => debug' = image.debug)
    BY <1>2 DEF WriteHeaders
  <2>2. image \in Images  BY DEF IInv, LayoutInv, Typed
  <2> QED  BY <2>1, <2>2, DirectoriesAssumption DEF DebugInv, Written
<1>3. CASE ClearBadDirectories \/ RepairException
  <2>1. debug' = debug /\ pc \in {"directories", "exception"} /\ pc' \in {"exception", "debug"}
    BY <1>3 DEF ClearBadDirectories, RepairException
  <2> QED  BY <2>1 DEF DebugInv, Written
<1>4. CASE RepairDebug
  <2>1. pc' = "base"  BY <1>4 DEF RepairDebug
  <2> QED  BY <1>4, <2>1, DebugRepaired DEF DebugInv
<1>5. ASSUME pc \in {"base", "imports"} \cup Written,
             pc' \in {"error", "base", "imports"} \cup Written,
             pc' # "error" =>
               /\ UNCHANGED <<layoutVars, debug>>
               /\ "debug" \in DOMAIN dirs' => "debug" \in DOMAIN dirs /\ dirs'["debug"] = dirs["debug"]
      PROVE  DebugInv'
  <2>1. DebugFollows  BY <1>5 DEF DebugInv
  <2>2. CASE pc' = "error"  BY <2>2 DEF DebugInv, Written
  <2>3. CASE pc' # "error"
    <3>1. DebugFollows'  BY <1>5, <2>1, <2>3, DebugSame
    <3> QED  BY <1>5, <2>3, <3>1 DEF DebugInv, Written
  <2> QED  BY <2>2, <2>3
<1>6. CASE ClearDynamicBase
  BY <1>5, <1>6 DEF ClearDynamicBase
<1>7. CASE WriteImports
  <2>1. /\ UNCHANGED <<layoutVars, debug>> /\ pc = "imports" /\ pc' \in {"error", "finalize"}
        /\ \/ dirs' = dirs
           \/ dirs' = [dirs EXCEPT !["import"] = NoDirectory]
           \/ dirs' = [name \in DOMAIN dirs |->
                         IF name = "import" THEN [rva |-> NewSection.va, size |-> plan.descriptors]
                         ELSE IF name \in Dropped THEN NoDirectory ELSE dirs[name]]
    BY <1>7 DEF WriteImports
  <2>2. "debug" \notin Dropped  BY DEF Dropped
  <2>3. "debug" \in DOMAIN dirs' => "debug" \in DOMAIN dirs /\ dirs'["debug"] = dirs["debug"]
    BY <2>1, <2>2
  <2> QED  BY <1>5, <2>1, <2>3 DEF Written
<1>8. CASE \E entry \in EntryPoints : Finalize(entry)
  <2>1. /\ UNCHANGED <<layoutVars, outputVars>> /\ pc = "finalize" /\ pc' \in {"error", "overlay"}
    BY <1>8 DEF Finalize
  <2> QED  BY <1>5, <2>1 DEF outputVars, Written
<1>9. CASE NoOverlay
  BY <1>5, <1>9 DEF NoOverlay, outputVars, Written
<1>10. CASE \E o \in Overlays : AppendOverlay(o)
  <2>1. PICK o \in Overlays : AppendOverlay(o)  BY <1>10
  <2>2. /\ UNCHANGED <<layoutVars, debug>> /\ pc = "overlay" /\ pc' = "done"
        /\ \/ dirs' = dirs
           \/ \E d : dirs' = [dirs EXCEPT !["security"] = d]
    BY <2>1 DEF AppendOverlay
  <2>3. "debug" \in DOMAIN dirs' => "debug" \in DOMAIN dirs /\ dirs'["debug"] = dirs["debug"]
    BY <2>2
  <2> QED  BY <1>5, <2>2, <2>3 DEF Written
<1>11. CASE UNCHANGED vars
  <2>1. UNCHANGED <<pc, layoutVars, debug, dirs>>  BY <1>11 DEF vars, outputVars
  <2>2. CASE pc \in {"base", "imports"} \cup Written  BY <1>5, <2>1, <2>2
  <2>3. CASE pc \notin {"base", "imports"} \cup Written  BY <2>1, <2>3 DEF DebugInv
  <2> QED  BY <2>2, <2>3
<1> QED  BY <1>1, <1>2, <1>3, <1>4, <1>6, <1>7, <1>8, <1>9, <1>10, <1>11 DEF Next

-----------------------------------------------------------------------------
(* Together. *)

FileInv == IInv /\ LaidInv /\ HeaderInv /\ EndsInv /\ DebugInv

LEMMA FileInvHolds == Spec => []FileInv
<1>1. Init => FileInv
  <2>1. Init => HeaderInv
    BY DEF Init, LayoutInit, HeaderInv, EntriesTyped, DirectoriesThere, FixupsThere, SizeKnown, ImportsKnown,
           CertificateBehind, Checked, Written
  <2>2. Init => EndsInv
    BY DEF Init, LayoutInit, EndsInv, ImageEnds, ImportsFit, Repairing
  <2>3. Init => DebugInv  BY DEF Init, LayoutInit, DebugInv, Written
  <2> QED  BY <2>1, <2>2, <2>3, InitInv, LaidInit DEF FileInv
<1>2. FileInv /\ [Next]_vars => FileInv'
  BY StepInv, LaidStep, HeaderStep, EndsStep, DebugStep DEF FileInv
<1> QED  BY <1>1, <1>2, PTL DEF Spec

\* The header of the new file tells the truth, whatever directories, imports and
\* overlay the image has: what a directory names is in the file, an image that may be
\* moved has fixups that can be walked, a lost import is counted and the certificate
\* lies behind all data (directories.rs, exception.rs, import_section.rs, overlay.rs).
THEOREM HeaderTellsTheTruth == Spec => []HeaderIsTrue
<1>1. FileInv => HeaderIsTrue
  <2> SUFFICES ASSUME FileInv, pc \in {"overlay", "done"} PROVE HeaderIsTrue  BY DEF HeaderIsTrue
  <2>1. HeaderInv /\ pc \in Checked /\ pc \in Written  BY DEF FileInv, Checked, Written
  <2>2. DirectoriesThere /\ FixupsThere /\ ImportsKnown /\ CertificateBehind  BY <2>1 DEF HeaderInv
  <2>3. \A name \in DOMAIN dirs \ {"import", "security"} : dirs[name] # NoDirectory => Mapped(dirs[name])
    BY <2>1, <2>2 DEF DirectoriesThere
  <2>4. dynamic => Walkable(dirs["reloc"])  BY <2>1, <2>2 DEF DirectoriesThere, FixupsThere
  <2>5. /\ unemitted >= plan.unrepresentable + IF mempe = NoSection THEN plan.recovered ELSE 0
        /\ "import" \in DOMAIN dirs /\ dirs["import"] # NoDirectory => mempe # NoSection \/ plan.existing
    BY <2>1, <2>2 DEF ImportsKnown
  <2>6. "security" \in DOMAIN dirs /\ dirs["security"] # NoDirectory =>
          /\ dirs["security"].rva >= rawOffset + mempe.raw
          /\ dirs["security"].rva + dirs["security"].size <= size
    BY <2>1, <2>2 DEF DirectoriesThere, CertificateBehind
  <2>7. DebugFollows  BY DEF FileInv, DebugInv, Written
  <2> QED  BY <2>3, <2>4, <2>5, <2>6, <2>7 DEF HeaderIsTrue
<1> QED  BY <1>1, FileInvHolds, PTL

\* Every byte of a section that is not zero is loaded from the new file at its own
\* address, and the repairs of rva_to_file land where the loader reads, whatever the
\* sections of the image are, as long as no empty section cuts another off
\* (recover_section_headers, layout_sections, write_sections).
THEOREM CapturedIsLoaded == Spec => []LoadsAsCaptured
<1>1. FileInv => LoadsAsCaptured
  <2> SUFFICES ASSUME FileInv, LaidOut, ~ CutOff(image.sections)
               PROVE  /\ ComesBack
                      /\ headerSize <= FirstRva(sections) =>
                           \A i \in Indices : \A rva \in MappedPart(i) :
                             RvaToFile(rva) # -1 => RvaToFile(rva) = LoaderPosition(i, rva)
    BY DEF LoadsAsCaptured, MappedPart
  <2>1. IInv /\ LaidInv  BY DEF FileInv
  <2> QED  BY <2>1, BytesComeBack, FileFollowsLoader
<1> QED  BY <1>1, FileInvHolds, PTL

\* Once imports are written, no slot of theirs that a section maps is left empty in
\* the file: the section is given data and the slot an entry (layout_sections,
\* fill_empty_slots).
THEOREM SlotsAreFilled == Spec => []NoSlotIsEmpty
<1>1. FileInv => NoSlotIsEmpty
  <2> SUFFICES ASSUME FileInv, pc = "done", mempe # NoSection, ~ CutOff(image.sections),
                      NEW t \in plan.tables, NEW i \in Indices, NEW rva \in t.start..(t.end - 1),
                      rva \in MappedPart(i), rva >= headerSize
               PROVE  rva \in filled \cup image.nonzero
    BY DEF NoSlotIsEmpty, MappedPart
  <2>1. IInv /\ LaidInv /\ LaidOut  BY DEF FileInv, LaidOut
  <2>2. RvaToFile(rva) # -1  BY <2>1, SlotsHaveData
  <2>3. filled = EmptySlots  BY DEF FileInv, HeaderInv, ImportsKnown, Written
  <2> QED  BY <2>2, <2>3 DEF EmptySlots
<1> QED  BY <1>1, FileInvHolds, PTL

\* Recovering section sizes never makes an image unreadable unless an empty section
\* lies where a section may not be, renamed sections have names of their own, and the
\* sections of the headers that are written fit, .mempe among them, unless one without
\* a virtual size is larger in the file than it was (recover_section_headers,
\* unique_replacement_name, write_sections, append_import_section).
THEOREM RebuiltIsAnImage == Spec => []StaysAnImage
<1>1. FileInv => StaysAnImage
  <2> SUFFICES ASSUME FileInv PROVE StaysAnImage  OBVIOUS
  <2>1. IInv /\ LaidInv /\ EndsInv /\ image \in Images /\ sections \in Seq(SectionType)
    BY DEF FileInv, IInv, LayoutInv, Typed
  <2>2. pc = "unparsed" => \/ ~ Parses(image, image.sections, image.size)
                           \/ CutOff(image.sections) \/ Stray(image)
    BY <2>1, StillParses DEF LaidInv, Parsed
  <2>3. \A i, j \in Indices :
          i # j /\ sections[i].name = Unreadable /\ FinalName(i) # Unreadable => FinalName(i) # FinalName(j)
    BY <2>1, NamesStayApart
  <2>4. pc = "overlay" /\ (\A i \in Indices : ~ Outgrown(i)) => SectionsFit(FinalSections, imageSize)
    BY <2>1, FinalSectionsFit
  <2>5. pc = "overlay" /\ mempe # NoSection => TableEnd(sections) + SectionHeader <= headerSize
    BY <2>1 DEF EndsInv, ImportsFit
  <2> QED  BY <2>2, <2>3, <2>4, <2>5 DEF StaysAnImage
<1> QED  BY <1>1, FileInvHolds, PTL
=============================================================================
