---------------------------- MODULE UnpackProofs ----------------------------
(***************************************************************************)
(* Theorems about Unpack, for any image. What a rebuilt image is said to    *)
(* be is true of its bytes, and there is none only if neither attempt could *)
(* make one: both attempts see the same image, so what the first one found  *)
(* the second one finds again. And a table UPX took apart is told of in one *)
(* way only, and gone from the directories unless it was put back.          *)
(***************************************************************************)
EXTENDS Unpack, WellFoundedInduction, TLAPS

Restoring == {"imports", "relocations", "exports", "resources", "debug", "unpacked"}
Begun == {"detect", "candidates", "detected", "others", "rebuild", "rebuilt"} \cup Restoring

\* The headers an attempt finds, and where; both attempts find the same.
HeadersFit == image.parses \/ (image.disk.available /\ DiskHeadersFit /\ image.disk.repairs)
OwnHeaders == IF image.parses THEN "Memory" ELSE "Disk"

\* What an attempt makes of the image depends on the image alone: whether UPX is
\* seen, whether its original headers are found once the stub is through, and
\* whether any packer explains the image.
StubIsThrough ==
  LET expectsMark == image.stub.found /\ image.stub.marks /\ OwnHeaders = "Memory"
  IN  ~ image.writable \/ (~ expectsMark /\ FirstSectionFilled)
UpxIsSeen == image.stub.found \/ image.packHeader
UpxRestores == StubIsThrough /\ \E k \in 1..Len(Candidates) : CanRestore(Candidates[k])
UpxExplains == UpxIsSeen /\ (UpxRestores \/ (image.stub.found /\ image.stub.recognised))
PackerKnown == UpxExplains \/ \E k \in DOMAIN image.others : image.others[k].knows

\* An image that stays packed can be rebuilt.
CanStay == HeadersFit /\ image.recovers /\ image.rebuilds["packed"]

\* A report says something about the image, but that nothing was done to it.
OnlyFound(packer) == packer.restored = {} /\ packer.lost = {} /\ (PackerKnown => packer.found /\ packer.failed # {})

Parts == {"image", "headers", "entry point", "imports", "relocations", "exports", "resources",
          "debug", "debug entries", "guard flags"}
Reports == [restored : SUBSET Parts, failed : SUBSET Parts, lost : SUBSET Parts]

Typed ==
  /\ image \in Images /\ mode \in {"Restore", "DetectOnly"}
  /\ report \in Reports /\ imports \in PackerImports

HeadersFound == phase \in Begun => HeadersFit /\ headers = OwnHeaders

\* How far UPX has come.
UpxAsks ==
  /\ phase \in {"headers", "detect", "candidates", "others"} => report = EmptyReport
  /\ phase = "candidates" =>
       /\ UpxIsSeen /\ tries \in Seq(Nat)
       /\ UpxRestores <=> \E k \in 1..Len(tries) : CanRestore(tries[k])
  /\ phase \in Restoring => UpxExplains /\ report.restored # {}
  /\ phase = "detected" => UpxExplains /\ report.restored = {} /\ report.lost = {} /\ report.failed # {}
  /\ phase = "others" => ~ UpxExplains

\* What the attempt is about to rebuild.
SourceTold ==
  phase = "rebuild" =>
    \/ /\ source.bytes = "packed" /\ source.fresh = FALSE /\ image.recovers
       /\ OnlyFound(source.packer)
    \/ /\ source.bytes = "unpacked" /\ mode = "Restore" /\ PackerKnown
       /\ source.packer.restored # {} /\ source.imports \in PackerImports

\* What it has rebuilt.
ResultTold ==
  phase = "rebuilt" =>
    \/ /\ result.bytes = "packed" /\ result.fresh = FALSE /\ result.plan = "None"
       /\ CanStay /\ OnlyFound(result.packer)
    \/ /\ result.bytes = "unpacked" /\ mode = "Restore"
       /\ result.packer.restored # {} /\ result.plan \in PackerImports

\* Why an attempt failed: an image that could stay packed fails only in the first, and
\* then a packer explains it.
FailuresExplained ==
  /\ phase = "refused" => ~ CanStay \/ (mode = "Restore" /\ PackerKnown)
  /\ mode = "DetectOnly" => ~ CanStay \/ PackerKnown

IInv == /\ Typed /\ HeadersFound /\ UpxAsks /\ SourceTold /\ ResultTold
        /\ FailuresExplained /\ ReportIsOfTheBytes

-----------------------------------------------------------------------------
\* Nothing of it changes but by a choice of the first image.
LEMMA SameImage ==
  ASSUME image' = image
  PROVE  /\ HeadersFit' = HeadersFit /\ OwnHeaders' = OwnHeaders /\ Candidates' = Candidates
         /\ UpxIsSeen' = UpxIsSeen /\ UpxRestores' = UpxRestores /\ UpxExplains' = UpxExplains
         /\ PackerKnown' = PackerKnown /\ CanStay' = CanStay
         /\ \A k : CanRestore(k)' <=> CanRestore(k)
         /\ \A packer : OnlyFound(packer)' <=> OnlyFound(packer)
<1>1. HeadersFit' = HeadersFit /\ OwnHeaders' = OwnHeaders
  BY DEF HeadersFit, OwnHeaders, DiskHeadersFit
<1>2. Candidates' = Candidates
  BY DEF Candidates
<1>3. ASSUME NEW k PROVE CanRestore(k)' <=> CanRestore(k)
  BY DEF CanRestore, IsStored, ExtraFieldsAgree, ListReadable, HasNames
<1>4. UpxIsSeen' = UpxIsSeen
  BY DEF UpxIsSeen
<1>5. StubIsThrough' = StubIsThrough
  BY <1>1 DEF StubIsThrough, FirstSectionFilled
<1>6. UpxRestores' = UpxRestores
  BY <1>2, <1>3, <1>5 DEF UpxRestores
<1>7. UpxExplains' = UpxExplains
  BY <1>4, <1>6 DEF UpxExplains
<1>8. PackerKnown' = PackerKnown /\ CanStay' = CanStay
  BY <1>1, <1>7 DEF PackerKnown, CanStay
<1>9. ASSUME NEW packer PROVE OnlyFound(packer)' <=> OnlyFound(packer)
  BY <1>8 DEF OnlyFound
<1>10. QED
  BY <1>1, <1>2, <1>3, <1>4, <1>6, <1>7, <1>8, <1>9

\* What the assumptions say of the image at hand.
LEMMA ImageType ==
  ASSUME image \in Images
  PROVE  /\ image.parses \in BOOLEAN /\ image.recovers \in BOOLEAN /\ image.fresh \in BOOLEAN
         /\ image.rebuilds \in [{"unpacked", "packed", "fresh"} -> BOOLEAN]
         /\ image.others \in Seq([knows : BOOLEAN, restores : BOOLEAN, imports : PackerImports])
         /\ Candidates \in Seq(Nat)
<1>1. image.byHeader \in Nat /\ image.afterList \in Nat /\ Len(image.stored) \in Nat
      /\ DOMAIN image.stored = 1..Len(image.stored)
  <2> DEFINE S == {image.stored[k] : k \in DOMAIN image.stored}
  <2>1. image.byHeader \in Nat /\ image.afterList \in Nat /\ image.stored \in Seq(S)
    BY StoredAssumption
  <2> HIDE DEF S
  <2>2. QED
    BY <2>1
<1>2. [k \in DOMAIN image.stored |-> k] \in Seq(Nat)
  BY <1>1
<1>3. Candidates \in Seq(Nat)
  BY <1>1, <1>2 DEF Candidates
<1>4. QED
  BY <1>3, OthersAssumption

\* Once the headers are found, the stub is through if this image's stub is.
LEMMA ReadyIsKnown ==
  ASSUME headers = OwnHeaders
  PROVE  Ready <=> StubIsThrough
BY DEF Ready, StubIsThrough

\* Any image, before the first attempt.
LEMMA InitHolds == Init => IInv
<1> SUFFICES ASSUME Init PROVE IInv
  OBVIOUS
<1>1. Typed
  BY DEF Init, Typed, EmptyReport, Reports, PackerImports
<1>2. QED
  BY <1>1 DEF Init, IInv, HeadersFound, UpxAsks, SourceTold, ResultTold, FailuresExplained,
     ReportIsOfTheBytes, IsDone, Begun, Restoring

\* A packer's turn begins with the headers, which are there or not whatever was tried.
LEMMA HeadersKeep == ASSUME IInv, ResolveHeaders PROVE IInv'
<1>1. /\ phase = "headers" /\ phase' \in {"detect", "refused"}
      /\ phase' = "detect" => HeadersFit /\ headers' = OwnHeaders
      /\ phase' = "refused" => ~ HeadersFit
      /\ UNCHANGED <<image, report, imports, mode, source, result>>
  BY DEF ResolveHeaders, HeadersFit, OwnHeaders
<1>2. Typed'
  BY <1>1 DEF IInv, Typed
<1>3. HeadersFound'
  BY <1>1, SameImage DEF HeadersFound, Begun, Restoring
<1>4. UpxAsks'
  BY <1>1 DEF IInv, UpxAsks, Restoring
<1>5. FailuresExplained'
  BY <1>1, SameImage DEF IInv, FailuresExplained, CanStay
<1>6. SourceTold' /\ ResultTold' /\ ReportIsOfTheBytes'
  BY <1>1 DEF SourceTold, ResultTold, ReportIsOfTheBytes, IsDone
<1>7. QED
  BY <1>2, <1>3, <1>4, <1>5, <1>6 DEF IInv

\* What UPX's own steps leave to show: the image, the mode and what is rebuilt are not theirs.
LEMMA UpxKeeps ==
  ASSUME IInv, UNCHANGED <<image, headers, mode, source, result>>,
         phase \in Begun, phase' \in {"candidates", "detected", "others"} \cup Restoring,
         report' \in Reports, imports' \in PackerImports, UpxAsks'
  PROVE  IInv'
<1>1. Typed'
  BY DEF IInv, Typed
<1>2. HeadersFound'
  BY SameImage DEF IInv, HeadersFound
<1>3. phase' \notin {"rebuild", "rebuilt", "refused", "done"}
  BY DEF Restoring
<1>4. FailuresExplained'
  BY <1>3, SameImage DEF IInv, FailuresExplained
<1>5. SourceTold' /\ ResultTold' /\ ReportIsOfTheBytes'
  BY <1>3 DEF SourceTold, ResultTold, ReportIsOfTheBytes, IsDone
<1>6. QED
  BY <1>1, <1>2, <1>4, <1>5 DEF IInv

-----------------------------------------------------------------------------
\* What a part of the report is told of it.
LEMMA ReportTold ==
  ASSUME report \in Reports, NEW part \in Parts
  PROVE  /\ Restored(part) \in Reports /\ Restored(part).restored # {}
         /\ Failed(part) \in Reports /\ Failed(part).restored = report.restored
         /\ Failed(part).lost = report.lost /\ Failed(part).failed # {}
         /\ Lost(part) \in Reports /\ Lost(part).restored = report.restored
BY DEF Restored, Failed, Lost, Reports

\* A table more: the report keeps what it says was restored.
LEMMA TableKeeps ==
  ASSUME IInv, UNCHANGED <<image, headers, tries, mode, source, result>>,
         phase \in Restoring, phase' \in Restoring,
         report' \in Reports, report'.restored # {}, imports' \in PackerImports
  PROVE  IInv'
<1>1. phase \in Begun
  BY DEF Begun
<1>2. phase' \notin {"headers", "detect", "candidates", "others", "detected"}
  BY DEF Restoring
<1>3. UpxAsks'
  BY <1>2, SameImage DEF IInv, UpxAsks
<1>4. QED
  BY <1>1, <1>3, UpxKeeps

\* unpack: what UPX sees, and where it will look for the original headers.
LEMMA DetectKeeps == ASSUME IInv, DetectUpx, UNCHANGED <<mode, source, result>> PROVE IInv'
<1>1. /\ phase = "detect" /\ phase \in Begun /\ phase' \in {"candidates", "others"}
      /\ phase' = "candidates" <=> UpxIsSeen
      /\ tries' = IF Ready THEN Candidates ELSE <<>>
      /\ UNCHANGED <<image, headers, report, imports, mode, source, result>>
  BY DEF DetectUpx, UpxIsSeen, Begun
<1>2. report = EmptyReport
  BY <1>1 DEF IInv, UpxAsks
<1>3. Ready <=> StubIsThrough
  BY <1>1, ReadyIsKnown DEF IInv, HeadersFound
<1>4. tries' \in Seq(Nat)
  BY <1>1, ImageType DEF IInv, Typed
<1>5. UpxRestores <=> \E k \in 1..Len(tries') : CanRestore(tries'[k])
  <2>1. CASE StubIsThrough
    BY <1>1, <1>3, <2>1 DEF UpxRestores
  <2>2. CASE ~ StubIsThrough
    BY <1>1, <1>3, <2>2 DEF UpxRestores
  <2>3. QED
    BY <2>1, <2>2
<1>6. UpxAsks'
  <2>1. (\E k \in 1..Len(tries) : CanRestore(tries[k]))' <=> \E k \in 1..Len(tries') : CanRestore(tries'[k])
    BY <1>1, SameImage
  <2>2. QED
    BY <1>1, <1>2, <1>4, <1>5, <2>1, SameImage DEF UpxAsks, Restoring, UpxExplains
<1>7. QED
  BY <1>1, <1>6, UpxKeeps DEF IInv, Typed

\* A candidate that cannot be restored from is none of those that can.
LEMMA SkipKeeps == ASSUME IInv, SkipHeaders, UNCHANGED <<mode, source, result>> PROVE IInv'
<1>1. /\ phase = "candidates" /\ phase \in Begun /\ phase' = phase
      /\ tries # <<>> /\ tries' = Tail(tries) /\ ~ CanRestore(Head(tries))
      /\ UNCHANGED <<image, headers, report, imports>>
  BY DEF SkipHeaders, Begun
<1>2. /\ report = EmptyReport /\ UpxIsSeen /\ tries \in Seq(Nat)
      /\ UpxRestores <=> \E k \in 1..Len(tries) : CanRestore(tries[k])
  BY <1>1 DEF IInv, UpxAsks
<1>3. /\ tries' \in Seq(Nat) /\ Len(tries) \in Nat \ {0} /\ Len(tries') = Len(tries) - 1
      /\ Head(tries) = tries[1] /\ \A k \in 1..Len(tries') : tries'[k] = tries[k + 1]
  BY <1>1, <1>2
<1>4. ASSUME NEW k \in 1..Len(tries), CanRestore(tries[k])
      PROVE  \E j \in 1..Len(tries') : CanRestore(tries'[j])
  <2>1. k # 1
    BY <1>1, <1>3, <1>4
  <2>2. k - 1 \in 1..Len(tries') /\ (k - 1) + 1 = k
    BY <1>3, <2>1
  <2>3. tries'[k - 1] = tries[k]
    BY <1>3, <2>2
  <2>4. QED
    BY <1>4, <2>2, <2>3
<1>5. ASSUME NEW k \in 1..Len(tries'), CanRestore(tries'[k])
      PROVE  \E j \in 1..Len(tries) : CanRestore(tries[j])
  <2>1. k + 1 \in 1..Len(tries) /\ tries[k + 1] = tries'[k]
    BY <1>3
  <2>2. QED
    BY <1>5, <2>1
<1>6. UpxAsks'
  <2>1. UpxRestores <=> \E k \in 1..Len(tries') : CanRestore(tries'[k])
    BY <1>2, <1>4, <1>5
  <2>2. (\E k \in 1..Len(tries) : CanRestore(tries[k]))' <=> \E k \in 1..Len(tries') : CanRestore(tries'[k])
    BY <1>1, SameImage
  <2>3. QED
    BY <1>1, <1>2, <1>3, <2>1, <2>2, SameImage DEF UpxAsks, Restoring
<1>7. QED
  BY <1>1, <1>6, UpxKeeps DEF IInv, Typed

\* Without headers, a stub that is recognised is still a UPX that was detected.
LEMMA GiveUpKeeps == ASSUME IInv, GiveUp, UNCHANGED <<mode, source, result>> PROVE IInv'
<1>1. /\ phase = "candidates" /\ phase \in Begun /\ tries = <<>>
      /\ phase' \in {"detected", "others"}
      /\ phase' = "detected" <=> (image.stub.found /\ image.stub.recognised)
      /\ report' = IF phase' = "detected" THEN Failed("image") ELSE report
      /\ UNCHANGED <<image, headers, imports>>
  BY DEF GiveUp, Begun
<1>2. /\ report = EmptyReport /\ UpxIsSeen /\ report \in Reports
      /\ UpxRestores <=> \E k \in 1..Len(tries) : CanRestore(tries[k])
  BY <1>1 DEF IInv, UpxAsks, Typed
<1>3. ~ UpxRestores
  BY <1>1, <1>2
<1>4. /\ Failed("image") \in Reports /\ Failed("image").restored = {}
      /\ Failed("image").lost = {} /\ Failed("image").failed # {}
  <2>1. report.restored = {} /\ report.lost = {} /\ report \in Reports
    BY <1>2 DEF EmptyReport
  <2>2. QED
    BY <2>1, ReportTold DEF Parts
<1>5. UpxExplains <=> phase' = "detected"
  BY <1>1, <1>2, <1>3 DEF UpxExplains
<1>6. report' \in Reports
  BY <1>1, <1>2, <1>4
<1>7. UpxAsks'
  BY <1>1, <1>2, <1>4, <1>5, SameImage DEF UpxAsks, Restoring
<1>8. QED
  BY <1>1, <1>6, <1>7, UpxKeeps DEF IInv, Typed

\* With headers that can be restored, the report says that they were.
LEMMA RestoreKeeps == ASSUME IInv, RestoreHeaders, UNCHANGED <<mode, source, result>> PROVE IInv'
<1>1. /\ phase = "candidates" /\ phase \in Begun /\ phase' = "imports"
      /\ tries # <<>> /\ CanRestore(Head(tries))
      /\ UNCHANGED <<image, headers, imports>>
  BY DEF RestoreHeaders, Begun
<1>2. /\ UpxIsSeen /\ tries \in Seq(Nat) /\ report \in Reports
      /\ UpxRestores <=> \E k \in 1..Len(tries) : CanRestore(tries[k])
  BY <1>1 DEF IInv, UpxAsks, Typed
<1>3. 1 \in 1..Len(tries) /\ Head(tries) = tries[1]
  BY <1>1, <1>2
<1>4. UpxExplains
  BY <1>1, <1>2, <1>3 DEF UpxExplains
<1>5. report' \in Reports /\ report'.restored # {}
  <2> DEFINE new == {"headers"} \cup (IF Stored.entry THEN {"entry point"} ELSE {})
  <2>1. new \in SUBSET Parts /\ new # {}
    BY DEF Parts
  <2>2. report' = [report EXCEPT !.restored = new]
    BY DEF RestoreHeaders
  <2> HIDE DEF new
  <2>3. QED
    BY <1>2, <2>1, <2>2 DEF Reports
<1>6. UpxAsks'
  BY <1>1, <1>4, <1>5, SameImage DEF UpxAsks
<1>7. QED
  BY <1>1, <1>5, <1>6, UpxKeeps DEF IInv, Typed, Restoring

\* restore_imports: what is known of the imports is one of the four answers.
LEMMA ImportsKeep == ASSUME IInv, RestoreImports, UNCHANGED <<mode, source, result>> PROVE IInv'
<1>1. /\ phase = "imports" /\ phase' = "relocations" /\ UNCHANGED <<image, headers, tries>>
      /\ imports' \in {"Intact", "Listed", "Unknown"}
      /\ report' \in {report, Failed("imports"), Restored("imports")}
  BY DEF RestoreImports
<1>2. phase \in Restoring /\ phase' \in Restoring
  BY <1>1 DEF Restoring
<1>3. report \in Reports /\ report.restored # {}
  BY <1>2 DEF IInv, Typed, UpxAsks
<1>4. report' \in Reports /\ report'.restored # {}
  BY <1>1, <1>3, ReportTold DEF Parts
<1>5. imports' \in PackerImports
  BY <1>1 DEF PackerImports
<1>6. QED
  BY <1>1, <1>2, <1>4, <1>5, TableKeeps

\* The three tables that follow add to the report.
LEMMA TablesKeep ==
  ASSUME IInv, RestoreRelocations \/ RestoreExports \/ RestoreResources,
         UNCHANGED <<mode, source, result>>
  PROVE  IInv'
<1>1. /\ phase \in {"relocations", "exports", "resources"} /\ phase' \in {"exports", "resources", "debug"}
      /\ UNCHANGED <<image, headers, tries, imports>>
      /\ \E part \in {"relocations", "exports", "resources"} :
           report' \in {report, Restored(part), Failed(part), Lost(part)}
  <2>1. CASE RestoreRelocations
    BY <2>1 DEF RestoreRelocations
  <2>2. CASE RestoreExports
    BY <2>2 DEF RestoreExports
  <2>3. CASE RestoreResources
    BY <2>3 DEF RestoreResources
  <2>4. QED
    BY <2>1, <2>2, <2>3
<1>2. phase \in Restoring /\ phase' \in Restoring
  BY <1>1 DEF Restoring
<1>3. report \in Reports /\ report.restored # {} /\ imports \in PackerImports
  BY <1>2 DEF IInv, Typed, UpxAsks
<1>4. report' \in Reports /\ report'.restored # {}
  <2>1. PICK part \in {"relocations", "exports", "resources"} :
          report' \in {report, Restored(part), Failed(part), Lost(part)}
    BY <1>1
  <2>2. part \in Parts
    BY DEF Parts
  <2>3. QED
    BY <1>3, <2>1, <2>2, ReportTold
<1>5. QED
  BY <1>1, <1>2, <1>3, <1>4, TableKeeps

\* The last table; then the image is unpacked.
LEMMA DebugKeeps == ASSUME IInv, RestoreDebug, UNCHANGED <<mode, source, result>> PROVE IInv'
<1>1. phase = "debug" /\ phase' = "unpacked" /\ UNCHANGED <<image, headers, tries, imports>>
  BY DEF RestoreDebug
<1>2. phase \in Restoring /\ phase' \in Restoring
  BY <1>1 DEF Restoring
<1>3. report \in Reports /\ report.restored # {} /\ imports \in PackerImports
  BY <1>2 DEF IInv, Typed, UpxAsks
<1>4. report' \in Reports /\ report'.restored # {}
  <2> DEFINE table == Copied(cells, dirs.debug.at, dirs.debug.size)
             stay == SelectSeq(table, LAMBDA c : c # Zero)
             found == image.record /\ CodeView \notin ToSet(stay)
             rebuilt == stay \o IF found THEN <<CodeView>> ELSE <<>>
             erased == Len(table) - Len(stay)
             guard == IF Stored.guardCleared THEN {"guard flags"} ELSE {}
             lost == IF erased > (IF found THEN 1 ELSE 0) THEN {"debug entries"} ELSE {}
             more == IF rebuilt = <<>> THEN {} ELSE {"debug"}
             gone == guard \cup (IF erased = 0 THEN {} ELSE lost)
  <2>1. \/ report' = [report EXCEPT !.lost = @ \cup guard]
        \/ report' = [report EXCEPT !.restored = @ \cup (IF rebuilt = <<>> THEN {} ELSE {"debug"}),
                                   !.lost = @ \cup guard \cup (IF erased = 0 THEN {} ELSE lost)]
    BY DEF RestoreDebug
  <2>2. guard \in SUBSET Parts
    BY DEF Parts
  <2>3. more \in SUBSET Parts
    BY DEF Parts
  <2>4. lost \in SUBSET Parts
    BY DEF Parts
  <2> HIDE DEF guard, lost, rebuilt, erased
  <2>5. gone \in SUBSET Parts
    BY <2>2, <2>4
  <2>6. \/ report' = [report EXCEPT !.lost = @ \cup guard]
        \/ report' = [report EXCEPT !.restored = @ \cup more, !.lost = @ \cup guard \cup (IF erased = 0 THEN {} ELSE lost)]
    BY <2>1
  <2> HIDE DEF more
  <2>7. CASE report' = [report EXCEPT !.lost = @ \cup guard]
    BY <1>3, <2>2, <2>7 DEF Reports
  <2>8. CASE report' = [report EXCEPT !.restored = @ \cup more, !.lost = @ \cup guard \cup (IF erased = 0 THEN {} ELSE lost)]
    BY <1>3, <2>2, <2>3, <2>4, <2>8 DEF Reports
  <2>9. QED
    BY <2>6, <2>7, <2>8
<1>5. QED
  BY <1>1, <1>2, <1>3, <1>4, TableKeeps

-----------------------------------------------------------------------------
\* What stands in a sequence is of the set the sequence is over.
LEMMA MembersOfSeq == ASSUME NEW S, NEW q \in Seq(S) PROVE \A k \in DOMAIN q : q[k] \in S
<1>1. DOMAIN q = 1..Len(q) /\ q \in [1..Len(q) -> S]
  OBVIOUS
<1>2. QED
  BY <1>1

\* The first packer that knows the image is one of those that do.
LEMMA LeastOf ==
  ASSUME NEW S \in SUBSET Nat, S # {}
  PROVE  (CHOOSE x \in S : \A y \in S : x <= y) \in S
<1>1. PICK x \in S : \A y \in S : ~ (<<y, x>> \in OpToRel(<, Nat))
  BY NatLessThanWellFounded, WFMin
<1>2. \A y \in S : ~ (y < x)
  BY <1>1 DEF OpToRel
<1>3. \A y \in S : x <= y
  BY <1>2
<1>4. QED
  BY <1>3

\* A source that is chosen, and what it is rebuilt from.
LEMMA ChosenKeeps ==
  ASSUME IInv, UNCHANGED <<kept, mode, result>>, phase \in Begun, phase' \in {"rebuild", "refused"},
         phase' = "rebuild" => SourceTold', phase' = "refused" => ~ CanStay
  PROVE  IInv'
<1>1. UNCHANGED <<image, headers, tries, report, imports, mode, result>>
  BY DEF kept
<1>2. Typed' /\ HeadersFound'
  BY <1>1, SameImage DEF IInv, Typed, HeadersFound
<1>3. UpxAsks'
  BY DEF UpxAsks, Restoring
<1>4. SourceTold' /\ ResultTold' /\ ReportIsOfTheBytes'
  BY DEF SourceTold, ResultTold, ReportIsOfTheBytes, IsDone
<1>5. FailuresExplained'
  BY <1>1, SameImage DEF IInv, FailuresExplained
<1>6. QED
  BY <1>2, <1>3, <1>4, <1>5 DEF IInv

\* An image that stays packed, and what is said of it.
LEMMA KeptTold ==
  ASSUME IInv, UNCHANGED <<kept, mode, result>>, phase \in Begun,
         NEW packer, NEW kind, OnlyFound(packer), Keep(packer, kind)
  PROVE  IInv'
<1>1. image' = image /\ phase' = (IF image.recovers THEN "rebuild" ELSE "refused")
      /\ source' = [bytes |-> "packed", packer |-> packer, imports |-> kind, fresh |-> FALSE]
  BY DEF kept, Keep
<1>2. phase' = "rebuild" => SourceTold'
  <2>1. phase' = "rebuild" => image.recovers
    BY <1>1
  <2>2. OnlyFound(packer)'
    BY <1>1, SameImage
  <2>3. source'.bytes = "packed" /\ source'.fresh = FALSE /\ source'.packer = packer
    BY <1>1
  <2>4. QED
    BY <1>1, <2>1, <2>2, <2>3, SameImage DEF SourceTold, OnlyFound
<1>3. phase' = "refused" => ~ CanStay
  BY <1>1 DEF CanStay
<1>4. QED
  BY <1>1, <1>2, <1>3, ChosenKeeps

\* detection_only leaves of what was found that it was found.
LEMMA OnlyDetected ==
  ASSUME NEW r
  PROVE  /\ OnlyFound(DetectionOnly(Findings(r), TRUE))
         /\ r.restored = {} /\ r.lost = {} /\ r.failed # {} => OnlyFound(DetectionOnly(Findings(r), FALSE))
<1> DEFINE found == Findings(r)
           p == DetectionOnly(found, TRUE)
<1>1. found = [restored |-> r.restored, failed |-> r.failed, lost |-> r.lost, found |-> TRUE]
  BY DEF Findings
<1>2. p = [found EXCEPT !.restored = {}, !.lost = {}, !.failed = {"image"}]
      /\ DetectionOnly(found, FALSE) = found
  BY DEF DetectionOnly
<1> HIDE DEF found, p
<1>3. p.restored = {} /\ p.lost = {} /\ p.failed = {"image"} /\ p.found = TRUE
  BY <1>1, <1>2
<1>4. found.restored = r.restored /\ found.lost = r.lost /\ found.failed = r.failed /\ found.found = TRUE
  BY <1>1
<1>5. OnlyFound(p)
  BY <1>3 DEF OnlyFound
<1>6. r.restored = {} /\ r.lost = {} /\ r.failed # {} => OnlyFound(found)
  BY <1>4 DEF OnlyFound
<1>7. QED
  BY <1>2, <1>5, <1>6 DEF p, found

\* A packer's image that is taken, and what is said of it.
LEMMA TakenTold ==
  ASSUME IInv, UNCHANGED <<kept, mode, result>>, phase \in Begun, PackerKnown,
         NEW r, r.restored # {}, NEW kind \in PackerImports, NEW fresh,
         Take(Findings(r), kind, fresh)
  PROVE  IInv'
<1> DEFINE found == Findings(r)
           p == DetectionOnly(found, TRUE)
<1>1. CASE mode = "Restore"
  <2>1. image' = image /\ mode' = mode /\ phase' = "rebuild"
        /\ source' = [bytes |-> "unpacked", packer |-> found, imports |-> kind, fresh |-> fresh]
    BY <1>1 DEF kept, Take
  <2>2. found.restored = r.restored
    BY DEF Findings
  <2> HIDE DEF found
  <2>3. SourceTold'
    BY <1>1, <2>1, <2>2, SameImage DEF SourceTold
  <2>4. QED
    BY <2>1, <2>3, ChosenKeeps
<1>2. CASE mode # "Restore"
  <2>1. Keep(p, kind)
    BY <1>2 DEF Take
  <2>2. OnlyFound(p)
    BY OnlyDetected
  <2> HIDE DEF p
  <2>3. QED
    BY <2>1, <2>2, KeptTold
<1>3. QED
  BY <1>1, <1>2

\* UPX's own report and imports are what is taken, or what is kept of them.
LEMMA TakeUpxKeeps == ASSUME IInv, TakeUpx PROVE IInv'
<1>1. phase \in {"unpacked", "detected"} /\ phase \in Begun /\ UNCHANGED <<kept, mode, result>>
  BY DEF TakeUpx, Begun, Restoring
<1>2. UpxExplains /\ PackerKnown /\ imports \in PackerImports
  BY <1>1 DEF IInv, UpxAsks, Restoring, PackerKnown, Typed
<1>3. CASE phase = "unpacked"
  <2>1. report.restored # {}
    BY <1>3 DEF IInv, UpxAsks, Restoring
  <2>2. Take(Findings(report), imports, image.fresh)
    BY <1>3 DEF TakeUpx
  <2>3. QED
    BY <1>1, <1>2, <2>1, <2>2, TakenTold
<1>4. CASE phase = "detected"
  <2>1. report.restored = {} /\ report.lost = {} /\ report.failed # {}
    BY <1>4 DEF IInv, UpxAsks
  <2>2. Keep(DetectionOnly(Findings(report), FALSE), imports)
    BY <1>4 DEF TakeUpx
  <2>3. QED
    BY <1>1, <2>1, <2>2, OnlyDetected, KeptTold
<1>5. QED
  BY <1>1, <1>3, <1>4

\* If none of the others knows the image either, no packer explains it.
LEMMA OthersKeep == ASSUME IInv, AskOthers PROVE IInv'
<1> DEFINE known == {k \in DOMAIN image.others : image.others[k].knows}
           first == CHOOSE k \in known : \A j \in known : k <= j
           other == image.others[first]
           r == [restored |-> IF other.restores THEN {"image"} ELSE {},
                 failed |-> IF other.restores THEN {} ELSE {"image"}, lost |-> {}]
<1>1. phase = "others" /\ phase \in Begun /\ UNCHANGED <<kept, mode, result>> /\ ~ UpxExplains
  BY DEF AskOthers, Begun, IInv, UpxAsks
<1>2. \/ known = {} /\ Keep(NoPacker, "Intact")
      \/ known # {} /\ other.restores /\ Take(Findings(r), other.imports, image.fresh)
      \/ known # {} /\ ~ other.restores /\ Keep(DetectionOnly(Findings(r), FALSE), "Intact")
  BY DEF AskOthers
<1>3. CASE known = {} /\ Keep(NoPacker, "Intact")
  <2>1. ~ PackerKnown
    BY <1>1, <1>3 DEF PackerKnown
  <2>2. OnlyFound(NoPacker)
    BY <2>1 DEF OnlyFound, NoPacker
  <2>3. QED
    BY <1>1, <1>3, <2>2, KeptTold
<1>4. ASSUME known # {} PROVE PackerKnown /\ other.imports \in PackerImports
  <2>1. image.others \in Seq([knows : BOOLEAN, restores : BOOLEAN, imports : PackerImports])
    BY ImageType DEF IInv, Typed
  <2>2. known \in SUBSET Nat
    BY <2>1
  <2>3. first \in known
    BY <1>4, <2>2, LeastOf
  <2>4. other \in [knows : BOOLEAN, restores : BOOLEAN, imports : PackerImports]
    <3>1. first \in DOMAIN image.others
      BY <2>3
    <3>2. \A k \in DOMAIN image.others :
            image.others[k] \in [knows : BOOLEAN, restores : BOOLEAN, imports : PackerImports]
      BY ONLY <2>1, MembersOfSeq
    <3> HIDE DEF first, r, known
    <3>3. image.others[first] \in [knows : BOOLEAN, restores : BOOLEAN, imports : PackerImports]
      BY <3>1, <3>2
    <3>4. QED
      BY ONLY <3>3
  <2>5. PackerKnown
    BY <2>3 DEF PackerKnown
  <2>6. QED
    BY <2>4, <2>5
<1>5. CASE known # {} /\ other.restores /\ Take(Findings(r), other.imports, image.fresh)
  <2>1. r.restored # {}
    BY <1>5
  <2> HIDE DEF r, other
  <2>2. QED
    BY <1>1, <1>4, <1>5, <2>1, TakenTold
<1>6. CASE known # {} /\ ~ other.restores /\ Keep(DetectionOnly(Findings(r), FALSE), "Intact")
  <2>1. r.restored = {} /\ r.lost = {} /\ r.failed # {}
    BY <1>6
  <2> HIDE DEF r, other
  <2>2. OnlyFound(DetectionOnly(Findings(r), FALSE))
    BY <2>1, OnlyDetected
  <2>3. QED
    BY <1>1, <1>6, <2>2, KeptTold
<1>7. QED
  BY <1>2, <1>3, <1>5, <1>6

-----------------------------------------------------------------------------
\* rebuild_source: the result says what was rebuilt, and a failure says why.
LEMMA RebuildKeeps == ASSUME IInv, Rebuild PROVE IInv'
<1>1. /\ phase = "rebuild" /\ phase \in Begun /\ phase' \in {"rebuilt", "refused"}
      /\ UNCHANGED <<image, headers, tries, report, imports, mode, source>>
      /\ (phase' = "rebuilt" <=> image.rebuilds[source.bytes])
      /\ phase' = "rebuilt" =>
           result' = [bytes |-> source.bytes, plan |-> Plan, packer |-> source.packer,
                      fresh |-> source.fresh /\ image.rebuilds["fresh"]]
  BY DEF Rebuild, kept, Begun
<1>2. Typed' /\ HeadersFound' /\ HeadersFit
  BY <1>1, SameImage DEF IInv, Typed, HeadersFound, Begun
<1>3. UpxAsks' /\ SourceTold' /\ ReportIsOfTheBytes'
  BY <1>1 DEF UpxAsks, Restoring, SourceTold, ReportIsOfTheBytes, IsDone
<1>4. ResultTold'
  <2> SUFFICES ASSUME phase' = "rebuilt" PROVE ResultTold'
    BY DEF ResultTold
  <2>1. /\ result'.bytes = source.bytes /\ result'.plan = Plan /\ result'.packer = source.packer
        /\ result'.fresh = (source.fresh /\ image.rebuilds["fresh"])
        /\ image.rebuilds[source.bytes]
    BY <1>1
  <2>2. CASE /\ source.bytes = "packed" /\ source.fresh = FALSE /\ image.recovers
             /\ OnlyFound(source.packer)
    <3>1. result'.plan = "None" /\ result'.fresh = FALSE
      BY <2>1, <2>2 DEF Plan, OnlyFound
    <3>2. CanStay
      BY <1>2, <2>1, <2>2 DEF CanStay
    <3>3. OnlyFound(result.packer)'
      <4>1. PackerKnown' <=> PackerKnown
        BY <1>1, SameImage
      <4>2. QED
        BY <2>1, <2>2, <4>1 DEF OnlyFound
    <3>4. QED
      BY <1>1, <2>1, <2>2, <3>1, <3>2, <3>3, SameImage DEF ResultTold
  <2>3. CASE /\ source.bytes = "unpacked" /\ mode = "Restore"
             /\ source.packer.restored # {} /\ source.imports \in PackerImports
    <3>1. result'.plan \in PackerImports
      BY <2>1, <2>3 DEF Plan
    <3>2. QED
      BY <1>1, <2>1, <2>3, <3>1 DEF ResultTold
  <2>4. QED
    BY <1>1, <2>2, <2>3 DEF IInv, SourceTold
<1>5. FailuresExplained'
  <2>1. ASSUME phase' = "refused" PROVE ~ CanStay \/ (mode = "Restore" /\ PackerKnown)
    BY <1>1, <2>1 DEF IInv, SourceTold, CanStay
  <2>2. QED
    BY <1>1, <2>1, SameImage DEF IInv, FailuresExplained
<1>6. QED
  BY <1>2, <1>3, <1>4, <1>5 DEF IInv

\* What the second attempt rebuilds is explained by what made the first one fail.
LEMMA FinishKeeps == ASSUME IInv, Finish PROVE IInv'
<1>1. image' = image
  BY DEF Finish, kept
<1>2. CASE phase = "rebuilt"
  <2>1. /\ phase' = "done" /\ UNCHANGED <<image, headers, report, imports, mode, source>>
        /\ result' = IF mode = "Restore" \/ Explained THEN result ELSE Refused
    BY <1>2 DEF Finish, kept
  <2>2. mode = "DetectOnly" => result.bytes = "packed" /\ result.packer.found /\ result.packer.failed # {}
    BY <1>2 DEF IInv, ResultTold, FailuresExplained, OnlyFound
  <2>3. result' = result
    BY <2>1, <2>2 DEF Explained, IInv, Typed
  <2>4. ReportIsOfTheBytes'
    BY <1>2, <2>1, <2>2, <2>3 DEF IInv, ResultTold, OnlyFound, CanStay, ReportIsOfTheBytes, PackerImports
  <2>5. Typed'
    BY <2>1 DEF IInv, Typed
  <2>6. FailuresExplained'
    BY <2>1, SameImage DEF IInv, FailuresExplained
  <2>7. HeadersFound' /\ UpxAsks' /\ SourceTold' /\ ResultTold'
    BY <2>1 DEF HeadersFound, UpxAsks, SourceTold, ResultTold, Begun, Restoring
  <2>8. QED
    BY <2>4, <2>5, <2>6, <2>7 DEF IInv
<1>3. CASE phase = "refused" /\ mode = "Restore"
  <2>1. /\ phase' = "headers" /\ mode' = "DetectOnly"
        /\ report' = EmptyReport /\ imports' = "Intact" /\ image' = image
    BY <1>3 DEF Finish
  <2>2. Typed'
    BY <2>1 DEF IInv, Typed, EmptyReport, Reports, PackerImports
  <2>3. FailuresExplained'
    BY <1>3, <2>1, SameImage DEF IInv, FailuresExplained
  <2>4. HeadersFound' /\ UpxAsks' /\ SourceTold' /\ ResultTold' /\ ReportIsOfTheBytes'
    BY <2>1 DEF HeadersFound, UpxAsks, SourceTold, ResultTold, Begun, Restoring, ReportIsOfTheBytes, IsDone
  <2>5. QED
    BY <2>2, <2>3, <2>4 DEF IInv
<1>4. CASE phase = "refused" /\ mode = "DetectOnly"
  <2>1. /\ phase' = "done" /\ result' = Refused /\ UNCHANGED <<image, headers, report, imports, mode, source>>
    BY <1>4 DEF Finish, kept
  <2>2. ~ CanStay
    BY <1>4 DEF IInv, FailuresExplained
  <2>3. ReportIsOfTheBytes'
    <3>1. result'.bytes = "error"
      BY <2>1 DEF Refused, Pending
    <3>2. DiskHeadersFit' <=> DiskHeadersFit
      BY <1>1 DEF DiskHeadersFit
    <3>3. QED
      BY <2>1, <2>2, <3>1, <3>2 DEF ReportIsOfTheBytes, CanStay, HeadersFit
  <2>4. Typed'
    BY <2>1 DEF IInv, Typed
  <2>5. FailuresExplained'
    BY <2>1, SameImage DEF IInv, FailuresExplained
  <2>6. HeadersFound' /\ UpxAsks' /\ SourceTold' /\ ResultTold'
    BY <2>1 DEF HeadersFound, UpxAsks, SourceTold, ResultTold, Begun, Restoring
  <2>7. QED
    BY <2>3, <2>4, <2>5, <2>6 DEF IInv
<1>5. QED
  BY <1>2, <1>3, <1>4 DEF Finish

\* Nothing changes.
LEMMA StutterKeeps == ASSUME IInv, UNCHANGED vars PROVE IInv'
<1>1. UNCHANGED <<image, headers, phase, tries, report, imports, mode, source, result>>
  BY DEF vars, upxVars
<1>2. Typed' /\ HeadersFound' /\ FailuresExplained'
  BY <1>1, SameImage DEF IInv, Typed, HeadersFound, FailuresExplained
<1>3. UpxAsks'
  <2>1. (\E k \in 1..Len(tries) : CanRestore(tries[k]))' <=> \E k \in 1..Len(tries) : CanRestore(tries[k])
    <3>1. PICK t : t = tries
      OBVIOUS
    <3>2. t = tries'
      BY <1>1, <3>1
    <3>3. \A k : CanRestore(k)' <=> CanRestore(k)
      BY <1>1, SameImage
    <3>4. QED
      BY <1>1, <3>1, <3>2, <3>3
  <2>2. QED
    BY <1>1, <2>1, SameImage DEF IInv, UpxAsks
<1>4. SourceTold' /\ ResultTold'
  BY <1>1, SameImage DEF IInv, SourceTold, ResultTold, OnlyFound
<1>5. ReportIsOfTheBytes'
  BY <1>1 DEF IInv, ReportIsOfTheBytes, IsDone, DiskHeadersFit
<1>6. QED
  BY <1>2, <1>3, <1>4, <1>5 DEF IInv

\* Every step, those of UPX among them, keeps the invariant.
LEMMA StepHolds == IInv /\ [Next]_vars => IInv'
<1> SUFFICES ASSUME IInv, [Next]_vars PROVE IInv'
  OBVIOUS
<1>1. CASE UpxNext /\ UNCHANGED <<mode, source, result>>
  BY <1>1, DetectKeeps, SkipKeeps, GiveUpKeeps, RestoreKeeps, ImportsKeep, TablesKeep, DebugKeeps DEF UpxNext
<1>2. QED
  BY <1>1, HeadersKeep, TakeUpxKeeps, OthersKeep, RebuildKeeps, FinishKeeps, StutterKeeps DEF Next

\* Whatever the image: one that stays packed is reported neither restored nor lost, one
\* that was unpacked has the packer's imports, and there is no image at all only if its
\* headers are nowhere or it could not even be rebuilt as it is. In particular a second
\* attempt that succeeds is always explained by a packer (rebuild, resolve_source_bytes,
\* detection_only).
THEOREM ReportIsTrue == Spec => []ReportIsOfTheBytes
<1>1. IInv => ReportIsOfTheBytes
  BY DEF IInv
<1>2. QED
  BY <1>1, InitHolds, StepHolds, PTL DEF Spec

-----------------------------------------------------------------------------
\* How far the tables have come. A table whose turn has not come is where the original
\* headers say, and the report does not know it; the others are told of.
NotYet(part) ==
  \/ phase \in {"imports", "relocations"}
  \/ phase = "exports" /\ part # "relocations"
  \/ phase = "resources" /\ part = "resources"
TablesInTurn ==
  /\ phase = "candidates" => tries \in Seq(0..Len(image.stored))
  /\ phase \in Restoring =>
       /\ DOMAIN dirs = Directories
       /\ \A part \in PutBack :
            IF NotYet(part) THEN dirs[part] = Stored.dirs[part] /\ ToldAs(part) = {}
            ELSE GoneUnlessRestored(part)

TInv == IInv /\ TablesInTurn

\* A report is a record of three lists.
LEMMA ReportLists ==
  ASSUME report \in Reports
  PROVE  /\ DOMAIN report = {"restored", "failed", "lost"}
         /\ \A part : /\ ToldAs(part) \subseteq DOMAIN report
                      /\ "restored" \in ToldAs(part) <=> part \in report.restored
                      /\ "failed" \in ToldAs(part) <=> part \in report.failed
                      /\ "lost" \in ToldAs(part) <=> part \in report.lost
BY DEF Reports, ToldAs

\* What is said of one table is what is said of another report, if both list it alike.
LEMMA ToldAlike ==
  ASSUME report \in Reports, report' \in Reports, NEW part,
         \A list \in {"restored", "failed", "lost"} : part \in report'[list] <=> part \in report[list]
  PROVE  ToldAs(part)' = ToldAs(part)
<1>1. ToldAs(part)' = {list \in {"restored", "failed", "lost"} : part \in report'[list]}
  BY DEF ToldAs
<1>2. QED
  BY <1>1 DEF ToldAs

\* A step that neither moves a table nor tells of it.
LEMMA TableUntouched ==
  ASSUME report \in Reports, report' \in Reports, UNCHANGED <<image, tries>>, NEW part,
         dirs'[part] = dirs[part],
         \A list \in {"restored", "failed", "lost"} : part \in report'[list] <=> part \in report[list]
  PROVE  /\ ToldAs(part)' = ToldAs(part) /\ Stored.dirs[part]' = Stored.dirs[part]
         /\ GoneUnlessRestored(part)' <=> GoneUnlessRestored(part)
<1>1. ToldAs(part)' = ToldAs(part)
  BY ToldAlike
<1>2. Stored' = Stored
  BY DEF Stored
<1>3. /\ part \in report'.restored <=> part \in report.restored
      /\ part \in report'.failed <=> part \in report.failed
      /\ part \in report'.lost <=> part \in report.lost
  OBVIOUS
<1>4. DOMAIN report' = DOMAIN report
  BY DEF Reports
<1>5. QED
  BY <1>1, <1>2, <1>3, <1>4 DEF GoneUnlessRestored

\* restore_relocations, restore_exports, restore_resources: there is no such table, or the
\* one answer is written down for it, and it is cleared unless it was restored.
LEMMA OneIsTold ==
  ASSUME report \in Reports, UNCHANGED <<image, tries>>, NEW part \in PutBack,
         ToldAs(part) = {}, dirs[part] = Stored.dirs[part],
         \/ ~ HasDirectory(dirs[part]) /\ report' = report /\ dirs'[part] = dirs[part]
         \/ HasDirectory(dirs[part]) /\ report' = Restored(part)
         \/ /\ HasDirectory(dirs[part]) /\ report' \in {Failed(part), Lost(part)}
            /\ ~ HasDirectory(dirs'[part]) \/ (part = "relocations" /\ dirs'[part].size = 1)
  PROVE  GoneUnlessRestored(part)'
<1>1. part \notin report.restored /\ part \notin report.failed /\ part \notin report.lost
  BY ReportLists
<1>2. part \in Parts
  BY DEF Parts, PutBack
<1>3. report' \in Reports
  BY <1>2, ReportTold
<1>4. Stored.dirs[part]' = dirs[part]
  <2>1. Stored' = Stored
    BY DEF Stored
  <2>2. QED
    BY <2>1
<1>5. /\ DOMAIN report' = {"restored", "failed", "lost"} /\ ToldAs(part)' \subseteq DOMAIN report'
      /\ "restored" \in ToldAs(part)' <=> part \in report'.restored
      /\ "failed" \in ToldAs(part)' <=> part \in report'.failed
      /\ "lost" \in ToldAs(part)' <=> part \in report'.lost
  BY <1>3 DEF Reports, ToldAs
<1>6. CASE ~ HasDirectory(dirs[part]) /\ report' = report /\ dirs'[part] = dirs[part]
  <2>1. ToldAs(part)' = {}
    BY <1>1, <1>5, <1>6
  <2>2. QED
    BY <1>1, <1>4, <1>6, <2>1 DEF GoneUnlessRestored
<1>7. CASE HasDirectory(dirs[part]) /\ report' = Restored(part)
  <2>1. part \in report'.restored /\ part \notin report'.failed /\ part \notin report'.lost
    BY <1>1, <1>7 DEF Restored, Reports
  <2>2. ToldAs(part)' = {"restored"}
    BY <1>5, <2>1
  <2>3. QED
    BY <1>4, <1>5, <1>7, <2>1, <2>2 DEF GoneUnlessRestored
<1>8. CASE /\ HasDirectory(dirs[part]) /\ report' \in {Failed(part), Lost(part)}
           /\ ~ HasDirectory(dirs'[part]) \/ (part = "relocations" /\ dirs'[part].size = 1)
  <2>1. /\ part \notin report'.restored
        /\ (part \in report'.failed) # (part \in report'.lost)
    BY <1>1, <1>8 DEF Failed, Lost, Reports
  <2>2. ToldAs(part)' = {"failed"} \/ ToldAs(part)' = {"lost"}
    BY <1>5, <2>1
  <2>3. QED
    BY <1>4, <1>5, <1>8, <2>2 DEF GoneUnlessRestored
<1>9. QED
  BY <1>6, <1>7, <1>8

\* Nothing else is told of by it.
LEMMA OthersUntold ==
  ASSUME report \in Reports, NEW part \in Parts, NEW other, other # part,
         report' \in {report, Restored(part), Failed(part), Lost(part)}
  PROVE  \A list \in {"restored", "failed", "lost"} : other \in report'[list] <=> other \in report[list]
<1>1. /\ other \in report'.restored <=> other \in report.restored
      /\ other \in report'.failed <=> other \in report.failed
      /\ other \in report'.lost <=> other \in report.lost
  BY DEF Restored, Failed, Lost, Reports
<1>2. QED
  BY <1>1

\* The table whose turn it is; the ones before it and after it stay as they are.
LEMMA TurnTaken ==
  ASSUME IInv, TablesInTurn, UNCHANGED <<image, tries>>, NEW part \in PutBack,
         phase \in Restoring, phase' \in Restoring, NotYet(part),
         \A q \in PutBack : NotYet(q)' <=> NotYet(q) /\ q # part,
         DOMAIN dirs' = Directories,
         \A q \in PutBack : q # part => dirs'[q] = dirs[q],
         \/ ~ HasDirectory(dirs[part]) /\ report' = report /\ dirs'[part] = dirs[part]
         \/ HasDirectory(dirs[part]) /\ report' = Restored(part)
         \/ /\ HasDirectory(dirs[part]) /\ report' \in {Failed(part), Lost(part)}
            /\ ~ HasDirectory(dirs'[part]) \/ (part = "relocations" /\ dirs'[part].size = 1)
  PROVE  TablesInTurn'
<1>1. report \in Reports /\ part \in Parts
  BY DEF IInv, Typed, Parts, PutBack
<1>2. report' \in Reports
  BY <1>1, ReportTold
<1>3. GoneUnlessRestored(part)'
  BY <1>1, OneIsTold DEF TablesInTurn
<1>4. ASSUME NEW q \in PutBack, q # part
      PROVE  /\ ToldAs(q)' = ToldAs(q) /\ Stored.dirs[q]' = Stored.dirs[q]
             /\ GoneUnlessRestored(q)' <=> GoneUnlessRestored(q)
  <2>1. \A list \in {"restored", "failed", "lost"} : q \in report'[list] <=> q \in report[list]
    BY <1>1, <1>4, OthersUntold
  <2>2. QED
    BY <1>1, <1>2, <1>4, <2>1, TableUntouched
<1>5. ASSUME NEW q \in PutBack
      PROVE  IF NotYet(q)' THEN dirs'[q] = Stored.dirs[q]' /\ ToldAs(q)' = {} ELSE GoneUnlessRestored(q)'
  BY <1>3, <1>4 DEF TablesInTurn
<1>6. phase' # "candidates"
  BY DEF Restoring
<1>7. QED
  BY <1>5, <1>6 DEF TablesInTurn

\* restore_relocations.
LEMMA RelocationsTold == ASSUME TInv, RestoreRelocations PROVE TablesInTurn'
<1>1. /\ phase = "relocations" /\ phase' = "exports" /\ phase \in Restoring /\ phase' \in Restoring
      /\ UNCHANGED <<image, tries>>
  BY DEF RestoreRelocations, Restoring
<1>2. DOMAIN dirs = Directories /\ "relocations" \in Directories
  BY <1>1 DEF TInv, TablesInTurn, Directories
<1>3. NotYet("relocations") /\ \A q \in PutBack : NotYet(q)' <=> NotYet(q) /\ q # "relocations"
  BY <1>1 DEF NotYet, PutBack
<1>4. /\ Cleared("relocations").relocations = NoDirectory /\ DOMAIN Cleared("relocations") = Directories
      /\ \A q \in PutBack : q # "relocations" => Cleared("relocations")[q] = dirs[q]
  BY <1>2 DEF Cleared, PutBack, Directories
<1>5. ~ HasDirectory(NoDirectory)
  BY DEF HasDirectory, NoDirectory
<1>6. \/ ~ HasDirectory(dirs.relocations) /\ UNCHANGED <<dirs, report>>
      \/ /\ HasDirectory(dirs.relocations) /\ report' = Lost("relocations") /\ dirs' = Cleared("relocations")
      \/ /\ HasDirectory(dirs.relocations) /\ report' = Restored("relocations")
         /\ dirs' = dirs \/ \E n : dirs' = [dirs EXCEPT !.relocations.size = n]
      \/ /\ HasDirectory(dirs.relocations) /\ report' = Failed("relocations")
         /\ (dirs' = dirs /\ dirs.relocations.size = 1) \/ dirs' = Cleared("relocations")
  BY DEF RestoreRelocations
<1>7. DOMAIN dirs' = Directories /\ \A q \in PutBack : q # "relocations" => dirs'[q] = dirs[q]
  BY <1>2, <1>4, <1>6 DEF PutBack, Directories
<1>8. \/ ~ HasDirectory(dirs.relocations) /\ report' = report /\ dirs'.relocations = dirs.relocations
      \/ HasDirectory(dirs.relocations) /\ report' = Restored("relocations")
      \/ /\ HasDirectory(dirs.relocations) /\ report' \in {Failed("relocations"), Lost("relocations")}
         /\ ~ HasDirectory(dirs'.relocations) \/ dirs'.relocations.size = 1
  BY <1>4, <1>5, <1>6
<1>9. "relocations" \in PutBack
  BY DEF PutBack
<1>10. QED
  BY <1>1, <1>3, <1>7, <1>8, <1>9, TurnTaken DEF TInv

\* restore_exports.
LEMMA ExportsTold == ASSUME TInv, RestoreExports PROVE TablesInTurn'
<1>1. /\ phase = "exports" /\ phase' = "resources" /\ phase \in Restoring /\ phase' \in Restoring
      /\ UNCHANGED <<image, tries>>
  BY DEF RestoreExports, Restoring
<1>2. DOMAIN dirs = Directories /\ "exports" \in Directories
  BY <1>1 DEF TInv, TablesInTurn, Directories
<1>3. NotYet("exports") /\ \A q \in PutBack : NotYet(q)' <=> NotYet(q) /\ q # "exports"
  BY <1>1 DEF NotYet, PutBack
<1>4. /\ Cleared("exports").exports = NoDirectory /\ DOMAIN Cleared("exports") = Directories
      /\ \A q \in PutBack : q # "exports" => Cleared("exports")[q] = dirs[q]
  BY <1>2 DEF Cleared, PutBack, Directories
<1>5. ~ HasDirectory(NoDirectory)
  BY DEF HasDirectory, NoDirectory
<1>6. \/ ~ HasDirectory(dirs.exports) /\ UNCHANGED <<dirs, report>>
      \/ /\ HasDirectory(dirs.exports) /\ report' = Restored("exports")
         /\ dirs' = dirs \/ \E n : dirs' = [dirs EXCEPT !.exports.size = n]
      \/ HasDirectory(dirs.exports) /\ report' = Failed("exports") /\ dirs' = Cleared("exports")
  BY DEF RestoreExports
<1>7. DOMAIN dirs' = Directories /\ \A q \in PutBack : q # "exports" => dirs'[q] = dirs[q]
  BY <1>2, <1>4, <1>6 DEF PutBack, Directories
<1>8. \/ ~ HasDirectory(dirs.exports) /\ report' = report /\ dirs'.exports = dirs.exports
      \/ HasDirectory(dirs.exports) /\ report' = Restored("exports")
      \/ /\ HasDirectory(dirs.exports) /\ report' = Failed("exports") /\ ~ HasDirectory(dirs'.exports)
  BY <1>4, <1>5, <1>6
<1>9. "exports" \in PutBack
  BY DEF PutBack
<1>10. QED
  BY <1>1, <1>3, <1>7, <1>8, <1>9, TurnTaken DEF TInv

\* restore_resources.
LEMMA ResourcesTold == ASSUME TInv, RestoreResources PROVE TablesInTurn'
<1>1. /\ phase = "resources" /\ phase' = "debug" /\ phase \in Restoring /\ phase' \in Restoring
      /\ UNCHANGED <<image, tries>>
  BY DEF RestoreResources, Restoring
<1>2. DOMAIN dirs = Directories /\ "resources" \in Directories
  BY <1>1 DEF TInv, TablesInTurn, Directories
<1>3. NotYet("resources") /\ \A q \in PutBack : NotYet(q)' <=> NotYet(q) /\ q # "resources"
  BY <1>1 DEF NotYet, PutBack
<1>4. /\ Cleared("resources").resources = NoDirectory /\ DOMAIN Cleared("resources") = Directories
      /\ \A q \in PutBack : q # "resources" => Cleared("resources")[q] = dirs[q]
  BY <1>2 DEF Cleared, PutBack, Directories
<1>5. ~ HasDirectory(NoDirectory)
  BY DEF HasDirectory, NoDirectory
<1>6. \/ ~ HasDirectory(dirs.resources) /\ UNCHANGED <<dirs, report>>
      \/ HasDirectory(dirs.resources) /\ report' = Restored("resources") /\ dirs' = dirs
      \/ HasDirectory(dirs.resources) /\ report' = Failed("resources") /\ dirs' = Cleared("resources")
  BY DEF RestoreResources
<1>7. DOMAIN dirs' = Directories /\ \A q \in PutBack : q # "resources" => dirs'[q] = dirs[q]
  BY <1>2, <1>4, <1>6
<1>8. \/ ~ HasDirectory(dirs.resources) /\ report' = report /\ dirs'.resources = dirs.resources
      \/ HasDirectory(dirs.resources) /\ report' = Restored("resources")
      \/ /\ HasDirectory(dirs.resources) /\ report' = Failed("resources") /\ ~ HasDirectory(dirs'.resources)
  BY <1>4, <1>5, <1>6
<1>9. "resources" \in PutBack
  BY DEF PutBack
<1>10. QED
  BY <1>1, <1>3, <1>7, <1>8, <1>9, TurnTaken DEF TInv

\* A step of the restoration that leaves the three tables alone.
LEMMA NoTurn ==
  ASSUME TInv, UNCHANGED <<image, tries>>, report' \in Reports,
         phase \in Restoring, phase' \in Restoring,
         \A q \in PutBack : NotYet(q)' <=> NotYet(q),
         DOMAIN dirs' = Directories, \A q \in PutBack : dirs'[q] = dirs[q],
         \A q \in PutBack : \A list \in {"restored", "failed", "lost"} : q \in report'[list] <=> q \in report[list]
  PROVE  TablesInTurn'
<1>1. report \in Reports
  BY DEF TInv, IInv, Typed
<1>2. ASSUME NEW q \in PutBack
      PROVE  /\ ToldAs(q)' = ToldAs(q) /\ Stored.dirs[q]' = Stored.dirs[q]
             /\ GoneUnlessRestored(q)' <=> GoneUnlessRestored(q)
  BY <1>1, TableUntouched
<1>3. phase' # "candidates"
  BY DEF Restoring
<1>4. ASSUME NEW q \in PutBack
      PROVE  IF NotYet(q)' THEN dirs'[q] = Stored.dirs[q]' /\ ToldAs(q)' = {} ELSE GoneUnlessRestored(q)'
  BY <1>2 DEF TInv, TablesInTurn
<1>5. QED
  BY <1>3, <1>4 DEF TablesInTurn

\* Where the original headers are looked for, there are some, or it is known that there are none.
LEMMA CandidatesStored == ASSUME image \in Images PROVE Candidates \in Seq(0..Len(image.stored))
<1>1. /\ image.byHeader \in Nat /\ image.afterList \in Nat /\ Len(image.stored) \in Nat
      /\ image.byHeader <= Len(image.stored) /\ image.afterList <= Len(image.stored)
      /\ DOMAIN image.stored = 1..Len(image.stored)
  <2> DEFINE S == {image.stored[k] : k \in DOMAIN image.stored}
  <2>1. /\ image.byHeader \in Nat /\ image.afterList \in Nat /\ image.stored \in Seq(S)
        /\ image.byHeader <= Len(image.stored) /\ image.afterList <= Len(image.stored)
    BY StoredAssumption
  <2> HIDE DEF S
  <2>2. QED
    BY <2>1
<1> DEFINE S == 0..Len(image.stored)
<1>2. [k \in DOMAIN image.stored |-> k] \in Seq(S)
  BY <1>1
<1>3. image.byHeader \in S /\ image.afterList \in S
  BY <1>1
<1> HIDE DEF S
<1>4. /\ (IF image.packHeader THEN <<image.byHeader>> ELSE <<>>) \in Seq(S)
      /\ (IF image.stub.found /\ image.stub.loop THEN <<image.afterList>> ELSE <<>>) \in Seq(S)
      /\ (IF image.stub.found THEN [k \in DOMAIN image.stored |-> k] ELSE <<>>) \in Seq(S)
  BY <1>2, <1>3
<1>5. Candidates \in Seq(S)
  BY <1>4 DEF Candidates
<1>6. QED
  BY <1>5 DEF S

\* unpack.
LEMMA DetectTold == ASSUME TInv, DetectUpx PROVE TablesInTurn'
<1>1. phase' \in {"candidates", "others"} /\ UNCHANGED image /\ tries' \in {Candidates, <<>>}
  BY DEF DetectUpx
<1>2. image \in Images
  BY DEF TInv, IInv, Typed
<1>3. tries' \in Seq(0..Len(image'.stored))
  <2> DEFINE S == 0..Len(image.stored)
  <2>1. Candidates \in Seq(S)
    BY <1>2, CandidatesStored
  <2>2. 0..Len(image'.stored) = S
    BY <1>1
  <2> HIDE DEF S
  <2>3. tries' \in Seq(S)
    <3>1. <<>> \in Seq(S)
      OBVIOUS
    <3>2. tries' = Candidates \/ tries' = <<>>
      BY <1>1
    <3>3. QED
      BY <2>1, <3>1, <3>2, Zenon
  <2>4. QED
    BY <2>2, <2>3
<1>4. QED
  BY <1>1, <1>3 DEF TablesInTurn, Restoring

\* restore: the next candidate.
LEMMA SkipTold == ASSUME TInv, SkipHeaders PROVE TablesInTurn'
<1>1. phase = "candidates" /\ phase' = phase /\ UNCHANGED image /\ tries # <<>> /\ tries' = Tail(tries)
  BY DEF SkipHeaders
<1>2. tries \in Seq(0..Len(image.stored))
  BY <1>1 DEF TInv, TablesInTurn
<1>3. tries' \in Seq(0..Len(image.stored))
  BY <1>1, <1>2
<1>4. QED
  BY <1>1, <1>3 DEF TablesInTurn, Restoring

\* restore_from: the tables are where the original headers say.
LEMMA HeadersTold == ASSUME TInv, RestoreHeaders PROVE TablesInTurn'
<1>1. /\ phase = "candidates" /\ phase' = "imports" /\ tries # <<>> /\ CanRestore(Head(tries))
      /\ UNCHANGED <<image, tries>> /\ dirs' = Stored.dirs
  BY DEF RestoreHeaders
<1>2. image \in Images /\ report = EmptyReport /\ tries \in Seq(0..Len(image.stored))
  BY <1>1 DEF TInv, IInv, Typed, UpxAsks, TablesInTurn
<1>3. Head(tries) \in 0..Len(image.stored) /\ Head(tries) # 0
  BY <1>1, <1>2 DEF CanRestore, IsStored
<1>4. Head(tries) \in DOMAIN image.stored
  <2> DEFINE S == {image.stored[k] : k \in DOMAIN image.stored}
  <2>1. image.stored \in Seq(S)
    BY <1>2, StoredAssumption
  <2> HIDE DEF S
  <2>2. DOMAIN image.stored = 1..Len(image.stored) /\ Len(image.stored) \in Nat
    BY <2>1
  <2>3. QED
    BY <1>3, <2>2
<1>5. DOMAIN Stored.dirs = Directories
  BY <1>2, <1>4, StoredAssumption DEF Stored
<1>6. Stored' = Stored
  BY <1>1 DEF Stored
<1>7. ASSUME NEW q \in PutBack PROVE ToldAs(q)' = {}
  <2> DEFINE new == {"headers"} \cup (IF Stored.entry THEN {"entry point"} ELSE {})
  <2>1. q \notin new
    BY DEF PutBack
  <2>2. report' = [report EXCEPT !.restored = new]
    BY DEF RestoreHeaders
  <2> HIDE DEF new
  <2>3. report' = [restored |-> new, failed |-> {}, lost |-> {}]
    BY <1>2, <2>2 DEF EmptyReport
  <2>4. q \notin report'["restored"] /\ q \notin report'["failed"] /\ q \notin report'["lost"]
    BY <2>1, <2>3
  <2>5. QED
    BY <2>4 DEF ToldAs
<1>8. \A q : NotYet(q)'
  BY <1>1 DEF NotYet
<1>9. QED
  BY <1>1, <1>5, <1>6, <1>7, <1>8 DEF TablesInTurn

\* restore_imports: the bound imports are none of the three tables.
LEMMA ImportsTold == ASSUME TInv, RestoreImports PROVE TablesInTurn'
<1>1. /\ phase = "imports" /\ phase' = "relocations" /\ phase \in Restoring /\ phase' \in Restoring
      /\ UNCHANGED <<image, tries>>
      /\ report' \in {report, Restored("imports"), Failed("imports"), Lost("imports")}
      /\ dirs' \in {dirs, Cleared("bound")}
  BY DEF RestoreImports, Restoring
<1>2. DOMAIN dirs = Directories /\ report \in Reports /\ "imports" \in Parts
  BY <1>1 DEF TInv, TablesInTurn, IInv, Typed, Parts
<1>3. DOMAIN dirs' = Directories /\ \A q \in PutBack : dirs'[q] = dirs[q]
  BY <1>1, <1>2 DEF Cleared, PutBack, Directories
<1>4. report' \in Reports
  BY <1>1, <1>2, ReportTold
<1>5. ASSUME NEW q \in PutBack
      PROVE  \A list \in {"restored", "failed", "lost"} : q \in report'[list] <=> q \in report[list]
  <2>1. q # "imports"
    BY DEF PutBack
  <2>2. QED
    BY <1>1, <1>2, <2>1, OthersUntold
<1>6. \A q \in PutBack : NotYet(q)' <=> NotYet(q)
  BY <1>1 DEF NotYet
<1>7. QED
  BY <1>1, <1>3, <1>4, <1>5, <1>6, NoTurn

\* restore_debug_directory: nor are the debug entries.
LEMMA DebugTold == ASSUME TInv, RestoreDebug, report' \in Reports PROVE TablesInTurn'
<1>1. /\ phase = "debug" /\ phase' = "unpacked" /\ phase \in Restoring /\ phase' \in Restoring
      /\ UNCHANGED <<image, tries>>
  BY DEF RestoreDebug, Restoring
<1>2. DOMAIN dirs = Directories /\ report \in Reports
  BY <1>1 DEF TInv, TablesInTurn, IInv, Typed
<1>3. dirs' = dirs \/ \E d : dirs' = [dirs EXCEPT !.debug = d]
  BY DEF RestoreDebug
<1>4. DOMAIN dirs' = Directories /\ \A q \in PutBack : dirs'[q] = dirs[q]
  BY <1>2, <1>3 DEF PutBack, Directories
<1>5. \E more, gone : /\ more \cap PutBack = {} /\ gone \cap PutBack = {}
                      /\ report' = [report EXCEPT !.restored = @ \cup more, !.lost = @ \cup gone]
  <2> DEFINE table == Copied(cells, dirs.debug.at, dirs.debug.size)
             stay == SelectSeq(table, LAMBDA c : c # Zero)
             found == image.record /\ CodeView \notin ToSet(stay)
             rebuilt == stay \o IF found THEN <<CodeView>> ELSE <<>>
             erased == Len(table) - Len(stay)
             guard == IF Stored.guardCleared THEN {"guard flags"} ELSE {}
             lost == IF erased > (IF found THEN 1 ELSE 0) THEN {"debug entries"} ELSE {}
             more == IF rebuilt = <<>> THEN {} ELSE {"debug"}
             gone == IF erased = 0 THEN {} ELSE lost
  <2>1. \/ report' = [report EXCEPT !.lost = @ \cup guard]
        \/ report' = [report EXCEPT !.restored = @ \cup (IF rebuilt = <<>> THEN {} ELSE {"debug"}),
                                   !.lost = @ \cup guard \cup (IF erased = 0 THEN {} ELSE lost)]
    BY DEF RestoreDebug
  <2>2. guard \cap PutBack = {} /\ more \cap PutBack = {}
    BY DEF PutBack
  <2>3. lost \cap PutBack = {}
    BY DEF PutBack
  <2> HIDE DEF guard, lost, rebuilt, erased
  <2>4. gone \cap PutBack = {}
    BY <2>3
  <2>5. \/ report' = [report EXCEPT !.lost = @ \cup guard]
        \/ report' = [report EXCEPT !.restored = @ \cup more, !.lost = @ \cup guard \cup gone]
    BY <2>1
  <2> HIDE DEF more, gone
  <2>6. CASE report' = [report EXCEPT !.lost = @ \cup guard]
    <3>1. report' = [report EXCEPT !.restored = @ \cup {}, !.lost = @ \cup guard]
      BY <1>2, <2>6 DEF Reports
    <3>2. QED
      BY <2>2, <3>1
  <2>7. CASE report' = [report EXCEPT !.restored = @ \cup more, !.lost = @ \cup guard \cup gone]
    <3>1. report' = [report EXCEPT !.restored = @ \cup more, !.lost = @ \cup (guard \cup gone)]
      BY <1>2, <2>7 DEF Reports
    <3>2. (guard \cup gone) \cap PutBack = {}
      BY <2>2, <2>4
    <3>3. QED
      BY <2>2, <3>1, <3>2
  <2>8. QED
    BY <2>5, <2>6, <2>7
<1>6. ASSUME NEW q \in PutBack
      PROVE  \A list \in {"restored", "failed", "lost"} : q \in report'[list] <=> q \in report[list]
  <2>1. PICK more, gone : /\ more \cap PutBack = {} /\ gone \cap PutBack = {}
                          /\ report' = [report EXCEPT !.restored = @ \cup more, !.lost = @ \cup gone]
    BY <1>5
  <2>2. q \notin more /\ q \notin gone
    BY <2>1
  <2>3. /\ q \in report'.restored <=> q \in report.restored
        /\ q \in report'.failed <=> q \in report.failed
        /\ q \in report'.lost <=> q \in report.lost
    BY <1>2, <2>1, <2>2 DEF Reports
  <2>4. QED
    BY <2>3
<1>7. \A q \in PutBack : NotYet(q)' <=> NotYet(q)
  BY <1>1 DEF NotYet, PutBack
<1>8. QED
  BY <1>1, <1>4, <1>6, <1>7, NoTurn

\* Every step keeps the tables in turn; the other steps end a restoration or do not begin one.
LEMMA TurnsHold == TInv /\ [Next]_vars => TInv'
<1> SUFFICES ASSUME TInv, [Next]_vars PROVE TInv'
  OBVIOUS
<1>1. IInv'
  BY StepHolds DEF TInv
<1>2. report' \in Reports
  BY <1>1 DEF IInv, Typed
<1>3. ASSUME UpxNext PROVE TablesInTurn'
  <2>1. CASE GiveUp
    BY <2>1 DEF GiveUp, TablesInTurn, Restoring
  <2>2. QED
    BY <1>2, <1>3, <2>1, DetectTold, SkipTold, HeadersTold, ImportsTold, RelocationsTold, ExportsTold,
       ResourcesTold, DebugTold DEF UpxNext
<1>4. ASSUME ResolveHeaders \/ TakeUpx \/ AskOthers \/ Rebuild \/ Finish PROVE TablesInTurn'
  <2>1. phase' \in {"headers", "detect", "refused", "rebuild", "rebuilt", "done"}
    BY <1>4 DEF ResolveHeaders, TakeUpx, AskOthers, Take, Keep, Rebuild, Finish
  <2>2. QED
    BY <2>1 DEF TablesInTurn, Restoring
<1>5. ASSUME UNCHANGED vars PROVE TablesInTurn'
  <2>1. UNCHANGED <<image, tries, phase, dirs, report>>
    BY <1>5 DEF vars, upxVars
  <2>2. CASE phase \in Restoring
    <3>1. \A q \in PutBack : NotYet(q)' <=> NotYet(q)
      BY <2>1 DEF NotYet
    <3>2. DOMAIN dirs' = Directories /\ \A q \in PutBack : dirs'[q] = dirs[q]
      BY <2>1, <2>2 DEF TInv, TablesInTurn
    <3>3. QED
      BY <1>2, <2>1, <2>2, <3>1, <3>2, NoTurn
  <2>3. CASE phase \notin Restoring
    BY <2>1, <2>3 DEF TInv, TablesInTurn
  <2>4. QED
    BY <2>2, <2>3
<1>6. TablesInTurn'
  BY <1>3, <1>4, <1>5 DEF Next
<1>7. QED
  BY <1>1, <1>6 DEF TInv

\* Whatever the image and wherever its tables lie, each of the three tables the original
\* headers name is reported in one way only, and one that could not be put back is no
\* longer in the directories (restore_relocations, restore_exports, restore_resources).
THEOREM LostAreGone == Spec => []LostTablesAreGone
<1>1. Init => TInv
  <2> SUFFICES ASSUME Init PROVE TInv
    OBVIOUS
  <2>1. phase = "headers"
    BY DEF Init
  <2>2. QED
    BY <2>1, InitHolds DEF TInv, TablesInTurn, Restoring
<1>2. TInv => LostTablesAreGone
  <2> SUFFICES ASSUME TInv, phase = "unpacked", NEW part \in PutBack PROVE GoneUnlessRestored(part)
    BY DEF LostTablesAreGone
  <2>1. phase \in Restoring /\ ~ NotYet(part)
    BY DEF Restoring, NotYet
  <2>2. QED
    BY <2>1 DEF TInv, TablesInTurn
<1>3. QED
  BY <1>1, <1>2, TurnsHold, PTL DEF Spec
=============================================================================
