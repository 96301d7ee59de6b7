---------------------------- MODULE CarveProofs ----------------------------
(***************************************************************************)
(* Theorems about Carve, for any buffers and limits.                       *)
(***************************************************************************)
EXTENDS Carve, FiniteSetTheorems, WellFoundedInduction, TLAPS

File == [offset : Nat, length : Nat \ {0}, extension : {"sys", "dll", "exe"}]
Result == [found : Seq(File), unscanned : Nat, attempts : 0..MaxAttempts]

\* What is known of the files found so far in a buffer that is searched up to an
\* offset: each was carved where it begins, they follow one another, and the search
\* is behind the last of them.
FilesFollow(bytes, start, upTo, files) ==
  /\ \A i \in DOMAIN files :
       /\ files[i].offset \in start..(bytes.length - DosHeader)
       /\ files[i].offset + files[i].length <= upTo
       /\ files[i] \in TryCarve(bytes, files[i].offset)
  /\ \A i, j \in DOMAIN files : i < j => files[i].offset + files[i].length <= files[j].offset

\* Every place behind the search at which a file begins lies in one of those found.
NoneMissed(bytes, start, upTo, files) ==
  \A at \in start..(upTo - 1) : TryCarve(bytes, at) # {} => \E i \in DOMAIN files : at \in CoveredBy(files[i])

\* The search of the buffer at hand.
Searching ==
  Len(results) < Len(buffers) =>
    LET start == StartOf(Buffer.source)
    IN  /\ start <= offset
        /\ FilesFollow(Bytes, start, offset, found)
        /\ NoneMissed(Bytes, start, offset, found)

\* The result of a buffer that is done accounts for it.
Accounted(k) ==
  LET r == results[k]
      bytes == buffers[k].bytes
      scanned == {at \in Starts(k) : at < bytes.length - DosHeader + 1 - r.unscanned}
  IN  /\ \A i, j \in DOMAIN r.found : i < j => CoveredBy(r.found[i]) \cap CoveredBy(r.found[j]) = {}
      /\ \A at \in scanned : TryCarve(bytes, at) # {} => \E i \in DOMAIN r.found : at \in CoveredBy(r.found[i])
      /\ \A i \in DOMAIN r.found : r.found[i].offset \in scanned
      /\ r.unscanned > 0 => Len(r.found) = MaxPerImage \/ r.attempts = MaxAttempts

\* What was found in it was carved from it.
Carved(k) ==
  \A i \in DOMAIN results[k].found :
    results[k].found[i] \in TryCarve(buffers[k].bytes, results[k].found[i].offset)

TypeOK ==
  /\ buffers \in BufferLists
  /\ offset \in Nat
  /\ attempts \in 0..MaxAttempts
  /\ found \in Seq(File) /\ Len(found) <= MaxPerImage
  /\ results \in Seq(Result) /\ Len(results) <= Len(buffers)

\* The inductive invariant: what a buffer's result says must already be so while the
\* buffer is searched.
IInv == TypeOK /\ Searching /\ \A k \in DOMAIN results : Accounted(k) /\ Carved(k)

-----------------------------------------------------------------------------
LEMMA BuffersType ==
  ASSUME buffers \in BufferLists
  PROVE  /\ Len(buffers) \in Nat \ {0} /\ DOMAIN buffers = 1..Len(buffers)
         /\ \A k \in DOMAIN buffers :
              buffers[k].bytes.length \in Nat /\ StartOf(buffers[k].source) \in 0..1
<1>1. buffers # <<>> /\ buffers \in Seq({buffers[k] : k \in DOMAIN buffers})
  BY BuffersAssumption
<1>2. \A k \in DOMAIN buffers : buffers[k].bytes.length \in Nat
  BY BuffersAssumption
<1>3. \A k \in DOMAIN buffers : StartOf(buffers[k].source) \in 0..1
  BY DEF StartOf
<1>4. Len(buffers) \in Nat \ {0} /\ DOMAIN buffers = 1..Len(buffers)
  BY <1>1
<1>5. QED
  BY <1>2, <1>3, <1>4

\* What try_carve promises of a file: it begins where it was looked for, ends in the
\* buffer and has the length and kind its header states.
LEMMA TryCarveFacts ==
  ASSUME NEW bytes, NEW at \in Nat, NEW f \in TryCarve(bytes, at)
  PROVE  LET nt == at + bytes.mz[at]
         IN  /\ f \in File /\ f.offset = at
             /\ f.length \in MinEmbedded..MaxEmbedded /\ at + f.length <= bytes.length
             /\ at \in DOMAIN bytes.mz /\ Candidate(bytes, nt, FALSE, FALSE)
             /\ f = [offset |-> at, length |-> EmbeddedLength(bytes.heads[nt]),
                     extension |-> Extension(bytes.heads[nt])]
<1> DEFINE nt == ParseDiskImage(bytes, at)
           length == EmbeddedLength(bytes.heads[nt])
<1>1. /\ nt # None /\ length \in MinEmbedded..MaxEmbedded /\ at + length <= bytes.length
      /\ f = [offset |-> at, length |-> length, extension |-> Extension(bytes.heads[nt])]
  BY DEF TryCarve
<1>2. nt = Pointed(bytes, at) /\ Candidate(bytes, nt, FALSE, FALSE)
  BY <1>1 DEF ParseDiskImage
<1>3. at \in DOMAIN bytes.mz /\ nt = at + bytes.mz[at]
  BY <1>1, <1>2 DEF Pointed
<1>4. Extension(bytes.heads[nt]) \in {"sys", "dll", "exe"}
  BY DEF Extension
<1>5. length \in Nat \ {0}
  BY <1>1, CarveAssumption
<1> HIDE DEF nt, length
<1>6. f \in File /\ f.offset = at /\ f.length = length
  BY <1>1, <1>4, <1>5 DEF File
<1>7. QED
  BY <1>1, <1>2, <1>3, <1>6 DEF length

LEMMA NothingWithoutDosHeader ==
  ASSUME NEW bytes, NEW at, at \notin DOMAIN bytes.mz
  PROVE  TryCarve(bytes, at) = {}
BY DEF TryCarve, ParseDiskImage, Pointed

LEMMA FileFacts ==
  ASSUME NEW files \in Seq(File)
  PROVE  /\ Len(files) \in Nat /\ DOMAIN files = 1..Len(files)
         /\ \A i \in DOMAIN files :
              files[i] \in File /\ files[i].offset \in Nat /\ files[i].length \in Nat \ {0}
<1>1. Len(files) \in Nat /\ DOMAIN files = 1..Len(files)
  OBVIOUS
<1>2. \A i \in 1..Len(files) : files[i] \in File
  OBVIOUS
<1>3. \A f \in File : f.offset \in Nat /\ f.length \in Nat \ {0}
  BY DEF File
<1>4. QED
  BY <1>1, <1>2, <1>3

\* The search goes on by a place at which no file begins.
LEMMA StepOver ==
  ASSUME NEW bytes, NEW start \in Nat, NEW upTo \in Nat, NEW files \in Seq(File),
         FilesFollow(bytes, start, upTo, files), NoneMissed(bytes, start, upTo, files),
         TryCarve(bytes, upTo) = {}
  PROVE  /\ FilesFollow(bytes, start, upTo + 1, files)
         /\ NoneMissed(bytes, start, upTo + 1, files)
<1>1. \A i \in DOMAIN files : files[i].offset \in Nat /\ files[i].length \in Nat
  BY FileFacts
<1>2. FilesFollow(bytes, start, upTo + 1, files)
  BY <1>1 DEF FilesFollow
<1>3. \A at \in start..(upTo + 1 - 1) : at \in start..(upTo - 1) \/ at = upTo
  OBVIOUS
<1>4. QED
  BY <1>2, <1>3 DEF NoneMissed

\* A file is found, and the search goes on behind it.
LEMMA StepBehind ==
  ASSUME NEW bytes, NEW start \in Nat, NEW upTo \in Nat, NEW files \in Seq(File), NEW f \in File,
         bytes.length \in Nat, start <= upTo, upTo <= bytes.length - DosHeader,
         FilesFollow(bytes, start, upTo, files), NoneMissed(bytes, start, upTo, files),
         f \in TryCarve(bytes, upTo), f.offset = upTo
  PROVE  /\ FilesFollow(bytes, start, upTo + f.length, Append(files, f))
         /\ NoneMissed(bytes, start, upTo + f.length, Append(files, f))
<1> DEFINE more == Append(files, f)
           n == Len(files) + 1
<1>1. /\ DOMAIN more = 1..n /\ more[n] = f /\ \A i \in DOMAIN files : more[i] = files[i]
      /\ DOMAIN files = 1..Len(files) /\ Len(files) \in Nat
  OBVIOUS
<1>2. \A i \in DOMAIN more : i \in DOMAIN files \/ i = n
  BY <1>1
<1>3. f.length \in Nat \ {0} /\ f.offset = upTo
  BY DEF File
<1>4. \A i \in DOMAIN files : files[i].offset \in Nat /\ files[i].length \in Nat
  BY FileFacts
<1> HIDE DEF more
<1>5. FilesFollow(bytes, start, upTo + f.length, more)
  <2>1. ASSUME NEW i \in DOMAIN more
        PROVE  /\ more[i].offset \in start..(bytes.length - DosHeader)
               /\ more[i].offset + more[i].length <= upTo + f.length
               /\ more[i] \in TryCarve(bytes, more[i].offset)
    <3>1. CASE i = n
      BY <1>1, <1>3, <3>1 DEF DosHeader
    <3>2. CASE i \in DOMAIN files
      BY <1>1, <1>3, <1>4, <3>2, SMTT(30) DEF FilesFollow
    <3>3. QED
      BY <1>2, <3>1, <3>2
  <2>2. ASSUME NEW i \in DOMAIN more, NEW j \in DOMAIN more, i < j
        PROVE  more[i].offset + more[i].length <= more[j].offset
    <3>1. i \in DOMAIN files
      BY <1>1, <1>2, <2>2
    <3>2. CASE j = n
      BY <1>1, <1>3, <3>1, <3>2 DEF FilesFollow
    <3>3. CASE j \in DOMAIN files
      BY <1>1, <2>2, <3>1, <3>3 DEF FilesFollow
    <3>4. QED
      BY <1>2, <3>2, <3>3
  <2>3. QED
    BY <2>1, <2>2 DEF FilesFollow
<1>6. NoneMissed(bytes, start, upTo + f.length, more)
  <2>1. ASSUME NEW at \in start..((upTo + f.length) - 1), TryCarve(bytes, at) # {}, at < upTo
        PROVE  \E i \in DOMAIN more : at \in CoveredBy(more[i])
    <3>1. at \in start..(upTo - 1)
      BY <1>3, <2>1
    <3>2. PICK i \in DOMAIN files : at \in CoveredBy(files[i])
      BY <2>1, <3>1 DEF NoneMissed
    <3>3. i \in DOMAIN more /\ more[i] = files[i]
      BY <1>1
    <3>4. QED
      BY <3>2, <3>3
  <2>2. ASSUME NEW at \in start..((upTo + f.length) - 1), at >= upTo
        PROVE  \E i \in DOMAIN more : at \in CoveredBy(more[i])
    <3>1. at \in CoveredBy(f)
      BY <1>3, <2>2 DEF CoveredBy
    <3>2. n \in DOMAIN more
      BY <1>1
    <3>3. QED
      BY <1>1, <3>1, <3>2
  <2>3. ASSUME NEW at \in start..((upTo + f.length) - 1), TryCarve(bytes, at) # {}
        PROVE  \E i \in DOMAIN more : at \in CoveredBy(more[i])
    <3>1. at < upTo \/ at >= upTo
      BY <1>3
    <3>2. QED
      BY <2>1, <2>2, <2>3, <3>1
  <2>4. \A at \in start..((upTo + f.length) - 1) :
          TryCarve(bytes, at) # {} => \E i \in DOMAIN more : at \in CoveredBy(more[i])
    BY <2>3
  <2>5. QED
    BY <2>4 DEF NoneMissed
<1>7. QED
  BY <1>5, <1>6 DEF more

-----------------------------------------------------------------------------
LEMMA InitIInv == Init => IInv
<1> SUFFICES ASSUME Init PROVE IInv
  OBVIOUS
<1>1. /\ Len(buffers) \in Nat \ {0} /\ DOMAIN buffers = 1..Len(buffers)
      /\ StartOf(buffers[1].source) \in 0..1
  BY BuffersType DEF Init
<1>2. /\ found = <<>> /\ results = <<>> /\ offset = StartOf(buffers[1].source)
      /\ <<>> \in Seq(File) /\ <<>> \in Seq(Result) /\ Len(<<>>) = 0
      /\ \A x : DOMAIN <<>> = {}
  BY DEF Init
<1>3. TypeOK
  BY <1>1, <1>2, CarveAssumption DEF Init, TypeOK
<1>4. Searching
  BY <1>1, <1>2 DEF Searching, Buffer, FilesFollow, NoneMissed
<1>5. QED
  BY <1>2, <1>3, <1>4 DEF IInv

\* The facts of the buffer at hand that its steps start from.
LEMMA AtHand ==
  ASSUME IInv, Len(results) < Len(buffers)
  PROVE  /\ Len(results) + 1 \in DOMAIN buffers
         /\ Bytes = buffers[Len(results) + 1].bytes /\ Bytes.length \in Nat
         /\ StartOf(Buffer.source) \in 0..1 /\ StartOf(Buffer.source) <= offset
         /\ FilesFollow(Bytes, StartOf(Buffer.source), offset, found)
         /\ NoneMissed(Bytes, StartOf(Buffer.source), offset, found)
<1>1. Len(results) \in Nat /\ buffers \in BufferLists
  BY DEF IInv, TypeOK
<1>2. Len(results) + 1 \in DOMAIN buffers
  BY <1>1, BuffersType
<1>3. QED
  BY <1>1, <1>2, BuffersType DEF IInv, Searching, Bytes, Buffer

\* A step of the search changes no result, so it owes its own part only.
LEMMA SearchStep ==
  ASSUME IInv, Looking, UNCHANGED <<buffers, results>>, TypeOK',
         FilesFollow(Bytes, StartOf(Buffer.source), offset', found'),
         NoneMissed(Bytes, StartOf(Buffer.source), offset', found'),
         offset <= offset'
  PROVE  IInv'
<1>1. Len(results) < Len(buffers)
  BY DEF Looking
<1>2. StartOf(Buffer.source) <= offset'
  BY <1>1, AtHand DEF IInv, TypeOK
<1>3. Searching'
  BY <1>2 DEF Searching, Bytes, Buffer
<1>4. \A k \in DOMAIN results' : Accounted(k)' /\ Carved(k)'
  BY DEF IInv, Accounted, Carved, Starts
<1>5. QED
  BY <1>3, <1>4 DEF IInv

LEMMA SkipIInv == ASSUME IInv, SkipByte PROVE IInv'
<1>1. Looking /\ offset' = offset + 1 /\ UNCHANGED <<buffers, attempts, found, results>>
  BY DEF SkipByte
<1>2. TypeOK' /\ offset \in Nat /\ found \in Seq(File) /\ offset <= offset'
  BY <1>1 DEF IInv, TypeOK
<1>3. TryCarve(Bytes, offset) = {}
  BY NothingWithoutDosHeader DEF SkipByte
<1>4. /\ FilesFollow(Bytes, StartOf(Buffer.source), offset', found')
      /\ NoneMissed(Bytes, StartOf(Buffer.source), offset', found')
  BY <1>1, <1>2, <1>3, AtHand, StepOver DEF Looking
<1>5. QED
  BY <1>1, <1>2, <1>4, SearchStep

LEMMA AttemptIInv == ASSUME IInv, Attempt PROVE IInv'
<1>1. Looking /\ attempts' = attempts + 1 /\ UNCHANGED <<buffers, results>>
  BY DEF Attempt
<1>2. /\ offset \in Nat /\ found \in Seq(File) /\ attempts' \in 0..MaxAttempts
      /\ Len(found) < MaxPerImage /\ Len(found) \in Nat /\ Len(results) < Len(buffers)
  BY <1>1, CarveAssumption DEF IInv, TypeOK, Looking
<1>3. CASE TryCarve(Bytes, offset) = {} /\ offset' = offset + 1 /\ found' = found
  <2>1. TypeOK' /\ offset <= offset'
    BY <1>1, <1>2, <1>3 DEF IInv, TypeOK
  <2>2. /\ FilesFollow(Bytes, StartOf(Buffer.source), offset', found')
        /\ NoneMissed(Bytes, StartOf(Buffer.source), offset', found')
    BY <1>2, <1>3, AtHand, StepOver
  <2>3. QED
    BY <1>1, <2>1, <2>2, SearchStep
<1>4. ASSUME NEW f \in TryCarve(Bytes, offset), offset' = offset + f.length, found' = Append(found, f)
      PROVE  IInv'
  <2>1. f \in File /\ f.offset = offset /\ f.length \in Nat \ {0}
    <3>1. f \in File /\ f.offset = offset
      BY <1>2, TryCarveFacts
    <3>2. QED
      BY <3>1 DEF File
  <2>2. TypeOK' /\ offset <= offset'
    <3>1. found' \in Seq(File) /\ Len(found') <= MaxPerImage
      BY <1>2, <1>4, <2>1, CarveAssumption
    <3>2. offset' \in Nat /\ offset <= offset'
      BY <1>2, <1>4, <2>1
    <3>3. QED
      BY <1>1, <1>2, <3>1, <3>2 DEF IInv, TypeOK
  <2>3. /\ FilesFollow(Bytes, StartOf(Buffer.source), offset', found')
        /\ NoneMissed(Bytes, StartOf(Buffer.source), offset', found')
    <3>1. offset <= Bytes.length - DosHeader
      BY <1>1 DEF Looking
    <3>2. QED
      BY <1>2, <1>4, <2>1, <3>1, AtHand, StepBehind
  <2>4. QED
    BY <1>1, <2>2, <2>3, SearchStep
<1>5. QED
  BY <1>3, <1>4 DEF Attempt

-----------------------------------------------------------------------------
\* What the search of a buffer has established when it stops is what its result says.
LEMMA SearchAccounts ==
  ASSUME IInv, Len(results) < Len(buffers), ~ Looking,
         NEW r, r = [found |-> found, unscanned |-> Unscanned(Bytes, offset), attempts |-> attempts]
  PROVE  LET k == Len(results) + 1
             scanned == {at \in Starts(k) : at < Bytes.length - DosHeader + 1 - r.unscanned}
         IN  /\ r \in Result
             /\ \A i, j \in DOMAIN r.found : i < j => CoveredBy(r.found[i]) \cap CoveredBy(r.found[j]) = {}
             /\ \A at \in scanned : TryCarve(Bytes, at) # {} => \E i \in DOMAIN r.found : at \in CoveredBy(r.found[i])
             /\ \A i \in DOMAIN r.found : r.found[i].offset \in scanned
             /\ r.unscanned > 0 => Len(r.found) = MaxPerImage \/ r.attempts = MaxAttempts
             /\ \A i \in DOMAIN r.found : r.found[i] \in TryCarve(Bytes, r.found[i].offset)
<1> DEFINE k == Len(results) + 1
           start == StartOf(Buffer.source)
           last == Bytes.length - DosHeader
           scanned == {at \in Starts(k) : at < last + 1 - r.unscanned}
<1>1. /\ last \in Int /\ start \in 0..1 /\ start <= offset /\ offset \in Nat
      /\ FilesFollow(Bytes, start, offset, found) /\ NoneMissed(Bytes, start, offset, found)
      /\ Starts(k) = start..last
  BY AtHand DEF Starts, Buffer, IInv, TypeOK, DosHeader
<1>2. r.found = found /\ r.attempts = attempts /\ r.unscanned = Greater(last + 1 - offset, 0)
  BY DEF Unscanned
<1>3. r.unscanned = IF offset <= last THEN last + 1 - offset ELSE 0
  BY <1>1, <1>2 DEF Greater
<1>4. \A i \in DOMAIN found : found[i].offset \in Nat /\ found[i].length \in Nat \ {0}
  BY FileFacts DEF IInv, TypeOK
<1> HIDE DEF last, start
<1>5. r \in Result
  <2>1. Unscanned(Bytes, offset) \in Nat
    BY <1>1, <1>2, <1>3
  <2>2. QED
    BY <2>1 DEF Result, IInv, TypeOK
<1>6. \A at \in scanned : at \in start..(offset - 1)
  BY <1>1, <1>3
<1>7. \A i \in DOMAIN found : found[i].offset \in scanned
  <2> SUFFICES ASSUME NEW i \in DOMAIN found PROVE found[i].offset \in scanned
    OBVIOUS
  <2>1. found[i].offset \in start..last /\ found[i].offset + found[i].length <= offset
    BY <1>1 DEF FilesFollow, last
  <2>2. found[i].offset < last + 1 - r.unscanned
    BY <1>1, <1>3, <1>4, <2>1
  <2>3. QED
    BY <1>1, <2>1, <2>2
<1>8. ASSUME NEW i \in DOMAIN found, NEW j \in DOMAIN found, i < j
      PROVE  CoveredBy(found[i]) \cap CoveredBy(found[j]) = {}
  <2>1. found[i].offset + found[i].length <= found[j].offset
    BY <1>1, <1>8 DEF FilesFollow
  <2>2. QED
    BY <1>4, <2>1 DEF CoveredBy
<1>9. r.unscanned > 0 => Len(found) = MaxPerImage \/ attempts = MaxAttempts
  <2> SUFFICES ASSUME r.unscanned > 0 PROVE Len(found) = MaxPerImage \/ attempts = MaxAttempts
    OBVIOUS
  <2>1. offset <= Bytes.length - DosHeader
    BY <1>3 DEF last
  <2>2. ~ (Len(found) < MaxPerImage /\ attempts < MaxAttempts)
    BY <2>1 DEF Looking
  <2>3. QED
    BY <2>2, CarveAssumption DEF IInv, TypeOK
<1>10. \A i \in DOMAIN found : found[i] \in TryCarve(Bytes, found[i].offset)
  BY <1>1 DEF FilesFollow
<1>11. \A at \in scanned : TryCarve(Bytes, at) # {} => \E i \in DOMAIN found : at \in CoveredBy(found[i])
  BY <1>1, <1>6 DEF NoneMissed
<1>12. QED
  BY <1>2, <1>5, <1>7, <1>8, <1>9, <1>10, <1>11 DEF last

LEMMA ReportIInv == ASSUME IInv, Report PROVE IInv'
<1> DEFINE r == [found |-> found, unscanned |-> Unscanned(Bytes, offset), attempts |-> attempts]
           n == Len(results) + 1
<1>1. /\ ~ Looking /\ Len(results) < Len(buffers) /\ results' = Append(results, r)
      /\ attempts' = 0 /\ found' = <<>> /\ buffers' = buffers
      /\ offset' = IF Len(results') < Len(buffers) THEN StartOf(buffers[Len(results') + 1].source) ELSE 0
  BY DEF Report
<1>2. /\ results \in Seq(Result) /\ buffers \in BufferLists /\ Len(results) \in Nat
      /\ Len(buffers) \in Nat /\ DOMAIN buffers = 1..Len(buffers)
      /\ \A k \in DOMAIN buffers : StartOf(buffers[k].source) \in 0..1
  BY BuffersType DEF IInv, TypeOK
<1>3. r \in Result
  BY <1>1, SearchAccounts
<1> HIDE DEF r
<1>4. /\ results' \in Seq(Result) /\ Len(results') = n /\ DOMAIN results' = 1..n /\ results'[n] = r
      /\ DOMAIN results = 1..Len(results) /\ \A k \in DOMAIN results : results'[k] = results[k]
  BY <1>1, <1>2, <1>3
<1>5. Len(results') < Len(buffers) => Len(results') + 1 \in DOMAIN buffers
  BY <1>2, <1>4
<1>6. /\ offset' \in Nat
      /\ Len(results') < Len(buffers) => offset' = StartOf(buffers[Len(results') + 1].source)
  BY <1>1, <1>2, <1>5
<1>7. TypeOK'
  <2>1. <<>> \in Seq(File) /\ Len(<<>>) = 0
    OBVIOUS
  <2>2. QED
    BY <1>1, <1>2, <1>4, <1>6, <2>1, CarveAssumption DEF TypeOK
<1>8. Searching'
  <2> SUFFICES ASSUME Len(results') < Len(buffers)
               PROVE  LET start == StartOf(buffers[Len(results') + 1].source)
                          bytes == buffers[Len(results') + 1].bytes
                      IN  /\ start <= offset'
                          /\ FilesFollow(bytes, start, offset', <<>>)
                          /\ NoneMissed(bytes, start, offset', <<>>)
    BY <1>1 DEF Searching, Bytes, Buffer
  <2>1. offset' = StartOf(buffers[Len(results') + 1].source) /\ DOMAIN <<>> = {}
    BY <1>6
  <2>2. offset'..(offset' - 1) = {}
    BY <1>6
  <2>3. QED
    BY <1>6, <2>1, <2>2 DEF FilesFollow, NoneMissed
<1>9. ASSUME NEW k \in DOMAIN results' PROVE Accounted(k)' /\ Carved(k)'
  <2>1. CASE k \in DOMAIN results
    <3>1. results'[k] = results[k] /\ buffers' = buffers
      BY <1>1, <1>4, <2>1
    <3>2. Accounted(k) /\ Carved(k)
      BY <2>1 DEF IInv
    <3>3. QED
      BY <3>1, <3>2 DEF Accounted, Carved, Starts
  <2>2. CASE k = n
    <3>1. results'[k] = r /\ buffers'[k].bytes = Bytes /\ Starts(k)' = Starts(k)
      BY <1>1, <1>4, <2>2, AtHand DEF Starts
    <3>2. r = [found |-> found, unscanned |-> Unscanned(Bytes, offset), attempts |-> attempts]
      BY DEF r
    <3>3. Carved(k)'
      BY <1>1, <3>1, <3>2, SearchAccounts DEF Carved
    <3>4. Accounted(k)'
      <4> DEFINE scanned == {at \in Starts(k) : at < Bytes.length - DosHeader + 1 - r.unscanned}
      <4>1. /\ \A i, j \in DOMAIN r.found : i < j => CoveredBy(r.found[i]) \cap CoveredBy(r.found[j]) = {}
            /\ \A at \in scanned : TryCarve(Bytes, at) # {} => \E i \in DOMAIN r.found : at \in CoveredBy(r.found[i])
            /\ \A i \in DOMAIN r.found : r.found[i].offset \in scanned
            /\ r.unscanned > 0 => Len(r.found) = MaxPerImage \/ r.attempts = MaxAttempts
        BY <1>1, <2>2, <3>2, SearchAccounts
      <4>2. scanned = {at \in Starts(k) : at < buffers'[k].bytes.length - DosHeader + 1 - results'[k].unscanned}
        BY <3>1
      <4> HIDE DEF scanned
      <4>3. QED
        BY <3>1, <4>1, <4>2, Zenon DEF Accounted
    <3>5. QED
      BY <3>3, <3>4
  <2>3. k \in DOMAIN results \/ k = n
    BY <1>2, <1>4
  <2>4. QED
    BY <2>1, <2>2, <2>3
<1>10. QED
  BY <1>7, <1>8, <1>9 DEF IInv

LEMMA NextIInv == IInv /\ [Next]_vars => IInv'
<1>1. IInv /\ UNCHANGED vars => IInv'
  BY DEF vars, IInv, TypeOK, Searching, Accounted, Carved, Bytes, Buffer, Starts
<1>2. QED
  BY <1>1, SkipIInv, AttemptIInv, ReportIInv DEF Next

LEMMA Invariance == Spec => []IInv
BY InitIInv, NextIInv, PTL DEF Spec

\* Whatever is captured, the files carved from a buffer do not overlap, and every
\* place of it was searched, lies in one of them or is counted as not scanned.
THEOREM PlacesAccounted == Spec => []EveryPlaceAccounted
<1>1. IInv => EveryPlaceAccounted
  BY DEF IInv, EveryPlaceAccounted, Accounted
<1>2. QED
  BY <1>1, Invariance, PTL

-----------------------------------------------------------------------------
\* A finite set of integers has a greatest element: take a smallest set without one
\* and leave out any of its elements.
LEMMA GreatestOfFinite ==
  ASSUME NEW S \in SUBSET Int, IsFiniteSet(S), S # {}
  PROVE  \E x \in S : \A y \in S : y <= x
<1> DEFINE HasGreatest(U) == \E x \in U : \A y \in U : y <= x
           sizes == {n \in Nat : \E U \in SUBSET S : U # {} /\ Cardinality(U) = n /\ ~ HasGreatest(U)}
<1>1. CASE sizes = {}
  <2>1. Cardinality(S) \in Nat
    BY FS_CardinalityType
  <2>2. QED
    BY <1>1, <2>1
<1>2. CASE sizes # {}
  <2>1. PICK n \in sizes : \A m \in sizes : ~ (<<m, n>> \in OpToRel(<, Nat))
    BY <1>2, NatLessThanWellFounded, WFMin
  <2>2. PICK U \in SUBSET S : U # {} /\ Cardinality(U) = n /\ ~ HasGreatest(U)
    BY <2>1
  <2>3. PICK u \in U : TRUE
    BY <2>2
  <2> DEFINE rest == U \ {u}
  <2>4. IsFiniteSet(U) /\ IsFiniteSet(rest)
    BY FS_Subset
  <2>5. Cardinality(rest) \in Nat /\ Cardinality(rest) = n - 1
    BY <2>2, <2>3, <2>4, FS_RemoveElement, FS_CardinalityType
  <2>6. rest # {}
    <3>1. ASSUME rest = {} PROVE FALSE
      <4>1. \A y \in U : y = u
        BY <3>1
      <4>2. HasGreatest(U)
        BY <2>3, <4>1
      <4>3. QED
        BY <2>2, <4>2
    <3>2. QED
      BY <3>1
  <2>7. Cardinality(rest) \notin sizes
    <3>1. n \in Nat /\ Cardinality(rest) < n
      BY <2>5
    <3>2. <<Cardinality(rest), n>> \in OpToRel(<, Nat)
      BY <2>5, <3>1 DEF OpToRel
    <3>3. QED
      BY <2>1, <3>2
  <2>8. HasGreatest(rest)
    BY <2>5, <2>6, <2>7
  <2>9. PICK m \in rest : \A y \in rest : y <= m
    BY <2>8
  <2>10. HasGreatest(U)
    <3>1. m \in Int /\ u \in Int /\ m \in U
      OBVIOUS
    <3>2. CASE u <= m
      <4>1. \A y \in U : y <= m
        BY <2>9, <3>2
      <4>2. QED
        BY <3>1, <4>1
    <3>3. CASE ~ (u <= m)
      <4>1. \A y \in U : y <= u
        BY <2>9, <3>1, <3>3
      <4>2. QED
        BY <4>1
    <3>4. QED
      BY <3>2, <3>3
  <2>11. QED
    BY <2>2, <2>10
<1>3. QED
  BY <1>1, <1>2

\* The elements of a sequence over a set are of the set.
LEMMA ElementType ==
  ASSUME NEW S, NEW q \in Seq(S)
  PROVE  \A i \in DOMAIN q : q[i] \in S
<1>1. DOMAIN q = 1..Len(q)
  OBVIOUS
<1>2. QED
  BY <1>1

\* The data of a section ends at a place.
LEMMA SectionEnd ==
  ASSUME NEW s \in [va : Nat, vs : Nat, pointer : Nat, raw : Nat]
  PROVE  s.pointer + s.raw \in Nat
<1>1. s.pointer \in Nat
  OBVIOUS
<1>2. s.raw \in Nat
  OBVIOUS
<1>3. QED
  BY <1>1, <1>2

\* embedded_length is the largest of the ends the header states.
LEMMA LongestEnd ==
  ASSUME NEW head, head.headers \in Nat,
         head.certificate.at \in Nat, head.certificate.size \in Nat,
         head.sections \in Seq([va : Nat, vs : Nat, pointer : Nat, raw : Nat])
  PROVE  /\ EmbeddedLength(head) \in Nat
         /\ head.headers <= EmbeddedLength(head) /\ CertificateEnd(head) <= EmbeddedLength(head)
         /\ \A s \in DOMAIN head.sections :
              head.sections[s].pointer + head.sections[s].raw <= EmbeddedLength(head)
<1> DEFINE End(i) == head.sections[i].pointer + head.sections[i].raw
           some == {head.headers, CertificateEnd(head)}
           data == {End(i) : i \in DOMAIN head.sections}
           ends == some \cup data
<1>1. CertificateEnd(head) \in Nat /\ \A i \in DOMAIN head.sections : End(i) \in Nat
  <2>1. CertificateEnd(head) \in Nat
    BY DEF CertificateEnd
  <2>2. ASSUME NEW i \in DOMAIN head.sections PROVE End(i) \in Nat
    <3>1. i \in DOMAIN head.sections
      OBVIOUS
    <3>2. head.sections[i] \in [va : Nat, vs : Nat, pointer : Nat, raw : Nat]
      BY <3>1, ElementType
    <3>3. QED
      BY <3>2, SectionEnd, Zenon
  <2>3. QED
    BY <2>1, <2>2
<1>2. ends \in SUBSET Int
  BY <1>1
<1>3. IsFiniteSet(ends) /\ ends # {}
  <2>1. DOMAIN head.sections = 1..Len(head.sections) /\ Len(head.sections) \in Nat
    OBVIOUS
  <2>2. IsFiniteSet(1..Len(head.sections))
    BY <2>1, FS_Interval
  <2>3. IsFiniteSet(data)
    <3> DEFINE f == [i \in DOMAIN head.sections |-> End(i)]
    <3>1. f \in Surjection(DOMAIN head.sections, data)
      BY DEF Surjection
    <3>2. QED
      BY <2>1, <2>2, <3>1, FS_Surjection
  <2>4. IsFiniteSet(some)
    <3>1. IsFiniteSet({head.headers})
      BY FS_Singleton
    <3>2. IsFiniteSet({head.headers} \cup {CertificateEnd(head)})
      BY <3>1, FS_AddElement
    <3>3. some = {head.headers} \cup {CertificateEnd(head)}
      OBVIOUS
    <3>4. QED
      BY <3>2, <3>3
  <2>5. QED
    BY <2>3, <2>4, FS_Union
<1>4. \E end \in ends : \A other \in ends : other <= end
  BY <1>2, <1>3, GreatestOfFinite, ZenonT(60)
<1>5. EmbeddedLength(head) \in ends /\ \A other \in ends : other <= EmbeddedLength(head)
  BY <1>4, ZenonT(60) DEF EmbeddedLength
<1>6. QED
  BY <1>1, <1>5

\* A carved file, cut out of its buffer, holds all that its header names, and is a
\* PE of the same length and kind again unless the header understates its own size.
THEOREM CarvedAreFiles == Spec => []CarvedStandAlone
<1>1. IInv => CarvedStandAlone
  <2> SUFFICES ASSUME IInv, NEW k \in DOMAIN results, NEW i \in DOMAIN results[k].found
               PROVE  LET f == results[k].found[i]
                          nt == buffers[k].bytes.mz[f.offset]
                          head == buffers[k].bytes.heads[f.offset + nt]
                      IN  /\ \A s \in DOMAIN head.sections :
                               head.sections[s].pointer + head.sections[s].raw <= f.length
                          /\ CertificateEnd(head) <= f.length
                          /\ OptionalEnd(head, nt) + TableSize(head) <= head.headers =>
                               TryCarve(CutOut(buffers[k].bytes, f), 0) = {[f EXCEPT !.offset = 0]}
    BY DEF CarvedStandAlone
  <2> DEFINE bytes == buffers[k].bytes
             f == results[k].found[i]
             nt == bytes.mz[f.offset]
             head == bytes.heads[f.offset + nt]
             cut == CutOut(bytes, f)
  <2>1. f \in TryCarve(bytes, f.offset) /\ f \in File /\ k \in DOMAIN buffers
    <3>1. results \in Seq(Result) /\ Len(results) <= Len(buffers) /\ buffers \in BufferLists
      BY DEF IInv, TypeOK
    <3>2. results[k] \in Result /\ k \in 1..Len(buffers)
      BY <3>1, BuffersType
    <3>3. results[k].found \in Seq(File)
      BY <3>2 DEF Result
    <3>4. results[k].found[i] \in File
      BY <3>3, FileFacts
    <3>5. Carved(k)
      BY DEF IInv
    <3>6. QED
      BY <3>1, <3>2, <3>4, <3>5, BuffersType DEF Carved
  <2>2. f.offset \in Nat
    BY <2>1 DEF File
  <2> HIDE DEF f, bytes
  <2>3. /\ f.length \in MinEmbedded..MaxEmbedded
        /\ f.offset \in DOMAIN bytes.mz /\ Candidate(bytes, f.offset + nt, FALSE, FALSE)
        /\ f = [offset |-> f.offset, length |-> EmbeddedLength(head), extension |-> Extension(head)]
    BY <2>1, <2>2, TryCarveFacts
  <2>4. f.length = EmbeddedLength(head) /\ f.extension = Extension(head)
    <3> HIDE DEF head
    <3>1. \A a, b, c : [offset |-> a, length |-> b, extension |-> c].length = b
                       /\ [offset |-> a, length |-> b, extension |-> c].extension = c
      OBVIOUS
    <3>2. QED
      BY <2>3, <3>1
  <2>5. f.offset + nt \in DOMAIN bytes.heads
    BY <2>3 DEF Candidate
  <2>6. /\ nt \in Nat /\ head.headers \in Nat /\ head.optional \in Nat
        /\ head.certificate.at \in Nat /\ head.certificate.size \in Nat
        /\ head.sections \in Seq([va : Nat, vs : Nat, pointer : Nat, raw : Nat])
    BY <2>1, <2>3, <2>5, BuffersAssumption DEF IInv, TypeOK, bytes
  <2>7. cut = [length |-> f.length, mz |-> [at \in {0} |-> nt], heads |-> [at \in {nt} |-> head]]
    BY DEF CutOut
  <2> HIDE DEF cut, head, nt
  <2>8. /\ f.length \in Nat \ {0} /\ head.headers <= f.length /\ CertificateEnd(head) <= f.length
        /\ \A s \in DOMAIN head.sections : head.sections[s].pointer + head.sections[s].raw <= f.length
    BY <2>3, <2>4, <2>6, LongestEnd, CarveAssumption
  <2>9. ASSUME OptionalEnd(head, nt) + TableSize(head) <= head.headers
        PROVE  TryCarve(cut, 0) = {[f EXCEPT !.offset = 0]}
    <3>1. Pointed(cut, 0) = nt /\ cut.heads[nt] = head /\ nt \in DOMAIN cut.heads /\ cut.length = f.length
      BY <2>6, <2>7 DEF Pointed
    <3>2. Candidate(cut, nt, FALSE, FALSE)
      <4>1. /\ Len(head.sections) \in 1..MaxSections
            /\ ShapeFits(head) /\ AlignmentsFit(head)
            /\ SizeFits(head, bytes.length, FALSE) /\ SectionsFit(head.sections, head.size)
        BY <2>3 DEF Candidate, head
      <4>2. SizeFits(head, cut.length, FALSE)
        BY <4>1 DEF SizeFits
      <4>3. OptionalEnd(head, nt) + TableSize(head) \in Int
        BY <2>6, HeaderAssumption DEF OptionalEnd, TableSize
      <4>4. OptionalEnd(head, nt) + TableSize(head) <= cut.length
        BY <2>6, <2>8, <2>9, <3>1, <4>3
      <4>5. QED
        BY <3>1, <4>1, <4>2, <4>4 DEF Candidate
    <3>3. ParseDiskImage(cut, 0) = nt /\ nt # None
      <4>1. 0 + DosHeader <= cut.length
        BY <2>8, <3>1 DEF DosHeader
      <4>2. nt # None
        BY <2>6 DEF None
      <4>3. QED
        BY <3>1, <3>2, <4>1, <4>2 DEF ParseDiskImage
    <3>4. TryCarve(cut, 0) = {[offset |-> 0, length |-> f.length, extension |-> f.extension]}
      BY <2>3, <2>4, <2>8, <3>1, <3>3 DEF TryCarve
    <3>5. [f EXCEPT !.offset = 0] = [offset |-> 0, length |-> f.length, extension |-> f.extension]
      BY <2>1 DEF File
    <3>6. QED
      BY <3>4, <3>5
  <2>10. QED
    BY <2>8, <2>9 DEF cut, head, nt, f, bytes
<1>2. QED
  BY <1>1, Invariance, PTL
=============================================================================
