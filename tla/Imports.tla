------------------------------ MODULE Imports ------------------------------
(***************************************************************************)
(* pe/imports.rs: which slots of a captured image are imports, and which   *)
(* tables the rebuilt file gets (build_plan, build_restored_plan,          *)
(* build_iat_plan). The image's own tables are kept if they are whole;     *)
(* otherwise runs of pointers to exports are looked for where imports are  *)
(* expected, then in the delay tables, then behind the code's references.  *)
(* A slot is one pointer, and addresses count in slots.                    *)
(***************************************************************************)
EXTENDS Exports

CONSTANTS
  MaxImports,      \* MAX_IMPORTS, 65,536 in the code
  MaxGroups,       \* MAX_IMPORT_GROUPS, 4,096 in the code
  MaxThunkDepth,   \* MAX_THUNK_DEPTH, 4 in the code
  Unrepresentable, \* names that are not ASCII, ordinals of more than 16 bits
  NameOrder,       \* the names of the modules, in alphabetical order
  Images           \* bound: the captured images, what their packer left, and the modules around them

ASSUME LimitsAssumption ==
  MaxImports \in Nat \ {0} /\ MaxGroups \in Nat \ {0} /\ MaxThunkDepth \in Nat

\* Slots are counted from 0, and what is read from the image are lists of slots; the
\* sections of an image that parses do not overlap (validate_non_overlapping_sections).
ASSUME ImagesAssumption == \A m \in Images :
  /\ m.process \in Seq(ToSet(m.process)) /\ \A l \in ToSet(m.process) : IsModule(l)
  /\ m.sections \in Seq([start : Nat, end : Nat, data : BOOLEAN, imports : BOOLEAN])
  /\ \A i, j \in DOMAIN m.sections : i < j =>
       m.sections[i].end <= m.sections[j].start \/ m.sections[j].end <= m.sections[i].start
  /\ m.iat \in [start : Nat, end : Nat]
  /\ IsFiniteSet(DOMAIN m.cells) /\ DOMAIN m.cells = 0..(Cardinality(DOMAIN m.cells) - 1)
  /\ m.delay \in Seq([start : Nat, names : Nat, readable : BOOLEAN])
  /\ m.code \in Seq([slot : Nat, called : BOOLEAN])
  /\ m.packer.modules \in Seq(ToSet(m.packer.modules))
  /\ \A l \in ToSet(m.packer.modules) : l.first \in Nat /\ l.functions \in Seq(ToSet(l.functions))

VARIABLES
  image,  \* [process, base, cells, stubs, sections, iat, delay, descriptors, orphans, code, guards, own, packer]
  phase,  \* the step of the plan
  plan,   \* the ImportPlan
  scans,  \* the ranges scan_import_range is still called for
  cursor  \* its offset in the first of them, or NoScan

importVars == <<image, phase, plan, scans, cursor>>
vars == <<exportVars, importVars>>

NoScan == -1
Reasons == {"OtherModule", "OutsideImage", "UnknownStub", "ChainExhausted"}

EmptyPlan ==
  [groups |-> <<>>, recovered |-> 0, existing |-> <<>>, keepIat |-> FALSE,
   ambiguousSlots |-> {}, unboundSlots |-> {}, ambiguous |-> 0, unresolvedDelay |-> 0,
   unresolved |-> [r \in Reasons |-> 0], outside |-> 0, unrepresentable |-> 0]

Slots == DOMAIN image.cells
InImage(address) == address - image.base \in Slots

-----------------------------------------------------------------------------
\* The thunk at an address of the image jumps through a slot, or to an address.
Thunk(address) ==
  LET stub == image.stubs[address - image.base]
  IN  IF stub.slot # Nowhere THEN image.cells[stub.slot] ELSE stub.to
HasThunk(address) == InImage(address) /\ address - image.base \in DOMAIN image.stubs

\* Where resolve_value ends: behind the thunks that lead out of the image.
Chased(value) ==
  LET Step(at, k) == IF at \in DOMAIN addresses \/ ~ HasThunk(at) THEN at ELSE Thunk(at)
  IN  FoldLeft(Step, value, [k \in 1..MaxThunkDepth |-> k])

\* resolve_value: "" if an export was found, otherwise why not.
Reason(value) ==
  LET end == Chased(value)
  IN  CASE end \in DOMAIN addresses -> IF InImage(end) THEN "OwnImage" ELSE ""
        [] ~ InImage(end) /\ end \notin DOMAIN addresses -> IF Covers(end) THEN "OtherModule" ELSE "OutsideImage"
        [] InImage(end) /\ end \notin DOMAIN addresses -> IF HasThunk(end) THEN "ChainExhausted" ELSE "UnknownStub"

Resolves(slot) == slot \in Slots /\ Reason(image.cells[slot]) = ""
SymbolsAt(slot) == addresses[Chased(image.cells[slot])]
SymbolAt(slot) == Preferred(SymbolsAt(slot))
IsAmbiguous(slot) == Resolves(slot) /\ Ambiguous(SymbolsAt(slot))
HoldsImport(slot) == Resolves(slot) /\ ~ Ambiguous(SymbolsAt(slot))

IsZero(slot) == slot \in Slots /\ image.cells[slot] = 0

\* find_referenced_slots and decode_slot_reference: code that calls or jumps
\* through a slot beats code that loads it, and the scan stops at the limit.
Referenced ==
  LET slots(n) == {image.code[k].slot : k \in 1..n}
      cut == {n \in DOMAIN image.code : Cardinality(slots(n)) >= MaxImports}
      read == IF cut = {} THEN Len(image.code) ELSE First(cut)
      called == {image.code[k].slot : k \in {j \in 1..read : image.code[j].called}}
  IN  [s \in slots(read) |-> IF s \in called THEN "Called" ELSE "Loaded"]

InDataSection(slot) ==
  /\ slot \in Slots
  /\ \E i \in DOMAIN image.sections : LET s == image.sections[i] IN s.data /\ slot \in s.start..(s.end - 1)

-----------------------------------------------------------------------------
Representable(module, entry) ==
  /\ module \notin Unrepresentable
  /\ (IF entry.name # None THEN entry.name ELSE entry.ordinal) \notin Unrepresentable

IsFull(p) == p.recovered >= MaxImports \/ Len(p.groups) >= MaxGroups

\* commit_group and push_group.
PushGroup(p, g, minimum) ==
  IF Len(g.entries) < minimum \/ p.recovered + Len(g.entries) > MaxImports \/ Len(p.groups) >= MaxGroups
    THEN p
    ELSE [p EXCEPT !.groups = Append(@, g), !.recovered = @ + Len(g.entries)]

PushAll(p, gs, minimum) == FoldLeft(LAMBDA q, g : PushGroup(q, g, minimum), p, gs)

\* Mutant: entries of one module make one group although a slot between them is
\* left out.
SpreadOut(kept, source, entry, module) ==
  LET starts == {s \in kept : \A r \in kept : r < s => module[r] # module[s]}
      group(s) == [module |-> module[s], first |-> s, source |-> source,
                   entries |-> [k \in 1..Cardinality({r \in kept : module[r] = module[s]}) |->
                      entry[CHOOSE r \in kept : Cardinality({q \in kept : q <= r /\ module[q] = module[r]}) = k
                                                 /\ module[r] = module[s]]]]
  IN  [k \in 1..Cardinality(starts) |->
         group(CHOOSE s \in starts : Cardinality({r \in starts : r <= s}) = k)]

\* Slots that follow each other and name the same module make a group.
Groups(kept, source, entry, module) ==
  LET starts == {s \in kept : s - 1 \notin kept \/ module[s - 1] # module[s]}
      last(s) == First({e \in kept : e >= s /\ e + 1 \notin kept \ starts})
      group(s) == [module |-> module[s], first |-> s, source |-> source,
                   entries |-> [k \in 1..(last(s) - s + 1) |-> entry[s + k - 1]]]
  IN  [k \in 1..Cardinality(starts) |->
         group(CHOOSE s \in starts : Cardinality({r \in starts : r <= s}) = k)]

\* The name of this very image. The plans of a packer do not ask for it
\* (build_restored_plan, build_iat_plan).
OwnName == IF image.packer.kind \in {"None", "Unknown"} THEN image.own ELSE None

\* append_groups: what names this very image, or no name can be written for, is
\* left out and ends its group.
AppendGroups(p, slots, minimum, source) ==
  LET foreign == {s \in slots : SymbolAt(s).module # OwnName}
      kept == {s \in foreign : Representable(SymbolAt(s).module, SymbolAt(s))}
      entry == [s \in kept |-> [name |-> SymbolAt(s).name, ordinal |-> SymbolAt(s).ordinal]]
      module == [s \in kept |-> SymbolAt(s).module]
  IN  PushAll([p EXCEPT !.unrepresentable = @ + Cardinality(foreign \ kept)],
              Groups(kept, source, entry, module), minimum)

\* collect_recovered_slots.
GroupSlots(g) == g.first..(g.first + Len(g.entries) - 1)
RecoveredSlots(p) == UNION {GroupSlots(p.groups[k]) : k \in DOMAIN p.groups}

\* existing_thunk_slots: from every first thunk up to the first empty slot.
ThunksFrom(first) == {s \in Slots : s >= first /\ \A r \in first..s : ~ IsZero(r)}
ExistingSlots(p) == UNION {ThunksFrom(p.existing[k].first) : k \in DOMAIN p.existing}

-----------------------------------------------------------------------------
\* existing_descriptors: the descriptors whose name and thunks are readable, if
\* there are any. The thunks of all of them, and the zero behind each table,
\* share a budget; a table that is not valid is an empty one.
ExistingDescriptors ==
  LET Take(taken, d) ==
        IF ~ d.readable THEN taken
        ELSE [used |-> taken.used + d.thunks + 1,
              kept |-> IF d.thunks > 0 /\ taken.used + d.thunks + 1 <= MaxImports THEN Append(taken.kept, d)
                       ELSE taken.kept]
  IN  FoldLeft(Take, [used |-> 0, kept |-> <<>>], image.descriptors).kept

\* scan_for_orphaned_descriptors and try_descriptor_array: the first place in a
\* data section from where every descriptor up to the end is whole, if they
\* have two thunks on average.
OrphanedDescriptors ==
  LET whole(i) == /\ \A k \in i..Len(image.orphans) : image.orphans[k].readable /\ image.orphans[k].thunks > 0
                  /\ LET total[k \in i..(Len(image.orphans) + 1)] ==
                           IF k > Len(image.orphans) THEN 0 ELSE image.orphans[k].thunks + total[k + 1]
                         count == Len(image.orphans) + 1 - i
                     IN  total[i] >= 2 * count /\ total[i] + count <= MaxImports
      from == {i \in DOMAIN image.orphans : whole(i)}
  IN  IF from = {} THEN <<>> ELSE SubSeq(image.orphans, First(from), Len(image.orphans))

\* scan_trusted_ranges: the part of a data section that the declared import
\* address table covers, or the whole of a section named for imports.
TrustedRange(s) ==
  LET start == IF image.iat.start > s.start THEN image.iat.start ELSE s.start
      end == First({image.iat.end, s.end})
  IN  IF start < end
        THEN [start |-> start, end |-> First({end, Cardinality(Slots)}), minimum |-> 1, source |-> "Attested"]
      ELSE [start |-> s.start, end |-> First({s.end, Cardinality(Slots)}), minimum |-> 2, source |-> "Scanned"]
TrustedRanges ==
  LET Take(ranges, s) ==
        IF s.data /\ (s.imports \/ TrustedRange(s).source = "Attested") THEN ranges \o <<TrustedRange(s)>>
        ELSE ranges
  IN  FoldLeft(Take, <<>>, image.sections)

\* delay_table_range: the address and the name table of a delay descriptor are
\* equally long, not empty, and end within the image.
TableLength(start) == Cardinality(ThunksFrom(start))
IsDelayTable(d) ==
  /\ d.readable /\ TableLength(d.start) > 0
  /\ IsZero(d.start + TableLength(d.start))
  /\ d.names = TableLength(d.start)

\* delay_table_length, called for both tables: every slot that is read, the empty
\* one behind each table too, is taken from a budget for all descriptors, and the
\* name table is not read if the other is no good. Nothing is left for those behind
\* the one that uses the budget up.
DelayCost(d) ==
  LET length == TableLength(d.start)
  IN  IF ~ d.readable THEN 0
      ELSE IF length = 0 \/ ~ IsZero(d.start + length) THEN length + 1
      ELSE length + 1 + d.names + 1
Affordable ==
  LET spent[k \in 0..Len(image.delay)] == IF k = 0 THEN 0 ELSE spent[k - 1] + DelayCost(image.delay[k])
      dear == {k \in DOMAIN image.delay : spent[k] > MaxImports}
  IN  SubSeq(image.delay, 1, IF dear = {} THEN Len(image.delay) ELSE First(dear) - 1)

\* scan_delay_imports: the tables whose first slot nothing has recovered.
DelayTables ==
  LET Take(tables, d) ==
        IF IsDelayTable(d) /\ d.start \notin RecoveredSlots(plan)
          THEN tables \o <<[start |-> d.start, end |-> d.start + TableLength(d.start),
                            minimum |-> 1, source |-> "Delayed"]>>
        ELSE tables
  IN  FoldLeft(Take, <<>>, Affordable)

-----------------------------------------------------------------------------
Init ==
  /\ image \in Images /\ modules = image.process
  /\ ExportsInit
  /\ phase = "tables" /\ plan = EmptyPlan /\ scans = <<>> /\ cursor = NoScan

\* The start of the three plans.
ChooseTables ==
  /\ phase = "tables" /\ IndexIsBuilt
  /\ LET kind == image.packer.kind
         existing == IF ExistingDescriptors # <<>> \/ kind = "Intact" THEN ExistingDescriptors
                     ELSE OrphanedDescriptors
     IN  \/ /\ kind \in {"None", "Unknown", "Intact"}
            /\ plan' = [plan EXCEPT !.existing = existing, !.keepIat = kind # "None"]
            /\ scans' = IF existing # <<>> \/ kind = "Intact" THEN <<>> ELSE TrustedRanges
            /\ phase' = "ranges"
         \/ /\ kind = "FilledIat"
            /\ plan' = [plan EXCEPT !.keepIat = TRUE]
            /\ scans' = <<[start |-> image.iat.start, end |-> image.iat.end, minimum |-> 1, source |-> "Packer"]>>
            /\ phase' = "ranges"
         \/ /\ kind = "Listed"
            /\ plan' = [plan EXCEPT !.keepIat = TRUE]
            /\ scans' = image.packer.modules
            /\ phase' = "modules"
  /\ UNCHANGED <<exportVars, image, cursor>>

\* unbound_delay_slots.
Unbound(scan) == {s \in scan.start..(scan.end - 1) : s \in Slots /\ Reason(image.cells[s]) # ""}

StartScan ==
  /\ phase \in {"ranges", "delay"} /\ cursor = NoScan /\ scans # <<>> /\ ~ IsFull(plan)
  /\ cursor' = Head(scans).start
  /\ plan' = IF phase = "delay" THEN [plan EXCEPT !.unboundSlots = @ \cup Unbound(Head(scans))] ELSE plan
  /\ UNCHANGED <<exportVars, image, phase, scans>>

\* scan_import_range, one turn of its loop: a run of imports is taken if zeros,
\* or the ends of the range, enclose it.
ScanRun ==
  /\ phase \in {"ranges", "delay"} /\ cursor # NoScan
  /\ LET scan == Head(scans)
         stop == First({s \in cursor..scan.end : \/ s = scan.end \/ s = cursor + MaxImports
                                                 \/ ~ HoldsImport(s)})
         startsCleanly == cursor = scan.start \/ IsZero(cursor - 1)
         endsCleanly == stop = scan.end \/ IsZero(stop)
         seen == IF stop < scan.end /\ stop < cursor + MaxImports /\ IsAmbiguous(stop)
                   THEN [plan EXCEPT !.ambiguousSlots = @ \cup {stop}] ELSE plan
     IN  IF cursor >= scan.end \/ plan.recovered >= MaxImports
           THEN cursor' = NoScan /\ scans' = Tail(scans) /\ UNCHANGED plan
           ELSE /\ plan' = IF stop - cursor >= scan.minimum /\ startsCleanly /\ endsCleanly
                             THEN AppendGroups(seen, cursor..(stop - 1), scan.minimum, scan.source) ELSE seen
                /\ cursor' = IF stop = cursor THEN cursor + 1 ELSE stop
                /\ UNCHANGED scans
  /\ UNCHANGED <<exportVars, image, phase>>

-----------------------------------------------------------------------------
FirstSuch(seq, Test(_)) == seq[First({k \in DOMAIN seq : Test(seq[k])})]
AddressesOf(m) == [k \in DOMAIN m.functions |->
  IF m.first + k - 1 \in Slots THEN image.cells[m.first + k - 1] ELSE Nowhere]

\* covering_module: the module that explains most slots of the list, most of
\* them as forwarders, and comes first in the alphabet.
CoveringModule(m) ==
  LET at == AddressesOf(m)
      symbols(k) == Lookup(addresses, at[k], <<>>)
      covered(name) == {k \in DOMAIN at : \E x \in ToSet(symbols(k)) : x.module = name}
      forwards(name) == {k \in covered(name) : FirstSuch(symbols(k), LAMBDA x : x.module = name).forwarded}
      named == {n \in DOMAIN NameOrder : covered(NameOrder[n]) # {}}
      Score(n) == <<Cardinality(covered(NameOrder[n])), Cardinality(forwards(NameOrder[n]))>>
      Beats(a, b) == \/ Score(a)[1] > Score(b)[1]
                     \/ Score(a)[1] = Score(b)[1] /\ Score(a)[2] > Score(b)[2]
                     \/ Score(a) = Score(b) /\ a < b
  IN  IF named = {} THEN None ELSE NameOrder[CHOOSE a \in named : \A b \in named \ {a} : Beats(a, b)]

\* owning_module: the module that exports a listed name at the listed slot, else
\* the one that covers the list, else the first that a slot resolves to.
OwningModule(m) ==
  LET slot(k) == m.first + k - 1
      matching == {k \in DOMAIN m.functions : /\ m.functions[k].kind = "Name" /\ Resolves(slot(k))
                                              /\ SymbolAt(slot(k)).name = m.functions[k].key}
      resolved == {k \in DOMAIN m.functions : Resolves(slot(k))}
  IN  IF m.module # None THEN m.module
      ELSE IF matching # {} THEN SymbolAt(slot(First(matching))).module
      ELSE IF CoveringModule(m) # None THEN CoveringModule(m)
      ELSE IF resolved # {} THEN SymbolAt(slot(First(resolved))).module ELSE None

Entry(name, ordinal) == [name |-> name, ordinal |-> ordinal]
NoEntry == Entry(None, None)

\* packed_entry: what to import at a slot of a list the packer kept. A name the
\* packer erased is read off the address: from the module itself if it can be.
PackedEntry(function, slot, module) ==
  LET value == IF slot \in Slots THEN image.cells[slot] ELSE Nowhere
      all == Lookup(addresses, value, <<>>)
      own == SelectSeq(all, LAMBDA x : x.module = module)
      named == SelectSeq(own, LAMBDA x : x.name # None)
      listed == SelectSeq(own, LAMBDA x : x.name \in function.among)
                  \o SelectSeq(all, LAMBDA x : x.name \in function.among)
      exported == IF HoldsImport(slot) THEN Entry(SymbolAt(slot).name, SymbolAt(slot).ordinal) ELSE NoEntry
  IN  CASE function.kind = "Name" -> Entry(function.key, None)
        [] function.kind = "Ordinal" -> Entry(None, function.key)
        [] function.kind = "NameFromAddress" -> IF named # <<>> THEN Entry(Head(named).name, None) ELSE exported
        [] function.kind = "NameFromAddressAmong" ->
             IF listed # <<>> THEN Entry(Head(listed).name, None)
             ELSE IF own # <<>> THEN Entry(None, Head(own).ordinal) ELSE exported
        [] function.kind = "OrdinalFromAddress" -> IF own # <<>> THEN Entry(None, Head(own).ordinal) ELSE exported

\* add_packed_module: a function without an entry ends the group before it.
AddPackedModule ==
  /\ phase = "modules" /\ scans # <<>>
  /\ LET m == Head(scans)
         name == OwningModule(m)
         slots == m.first..(m.first + Len(m.functions) - 1)
         entry == [s \in slots |-> PackedEntry(m.functions[s - m.first + 1], s, name)]
         kept == {s \in slots : name # None /\ entry[s] # NoEntry /\ Representable(name, entry[s])}
     IN  plan' = PushAll([plan EXCEPT !.unrepresentable = @ + Cardinality(slots \ kept)],
                         Groups(kept, "Packer", entry, [s \in kept |-> name]), 1)
  /\ scans' = Tail(scans)
  /\ UNCHANGED <<exportVars, image, phase, cursor>>

-----------------------------------------------------------------------------
NoMoreScans == cursor = NoScan /\ (scans = <<>> \/ IsFull(plan))

\* The start of scan_delay_imports.
ChooseDelayTables ==
  /\ (phase = "ranges" /\ NoMoreScans) \/ (phase = "modules" /\ scans = <<>>)
  /\ phase' = "delay" /\ scans' = DelayTables
  /\ UNCHANGED <<exportVars, image, plan, cursor>>

-----------------------------------------------------------------------------
\* neighbor_shares_module.
NeighborShares(slot) == \E n \in {slot - 1, slot + 1} :
  Resolves(n) /\ SymbolAt(n).module = SymbolAt(slot).module

\* Mutant: a call alone is not believed either.
NeverBelieved(slot) == NeighborShares(slot)

\* A slot that code only loads may be a table of functions like any other.
Believed(slot) == Referenced[slot] = "Loaded" => NeighborShares(slot)

\* Mutant: nobody asks whether a slot was recovered before.
AnySlot(slot) == slot \notin image.guards \cup plan.unboundSlots

\* What is left for recover_referenced_imports.
Unclaimed(slot) ==
  slot \notin RecoveredSlots(plan) \cup ExistingSlots(plan) \cup image.guards \cup plan.unboundSlots

\* recover_referenced_imports: slots the code uses, in the order of their
\* addresses, as long as there is room for more.
RecoverReferenced ==
  /\ phase = "delay" /\ NoMoreScans /\ image.packer.kind \in {"None", "Unknown", "FilledIat"}
  /\ LET data == {s \in DOMAIN Referenced : Unclaimed(s) /\ InDataSection(s)}
         wanted == {s \in data : HoldsImport(s) /\ Believed(s)}
         InTime(s) == Cardinality({r \in wanted : r < s}) < MaxImports - plan.recovered
         Called(r) == {s \in data : InTime(s) /\ Referenced[s] = "Called" /\ Reason(image.cells[s]) = r}
         outside == {s \in DOMAIN Referenced : Unclaimed(s) /\ ~ InDataSection(s) /\ InTime(s)
                                                /\ Referenced[s] = "Called" /\ HoldsImport(s)}
         seen == [plan EXCEPT !.ambiguousSlots = @ \cup {s \in data : InTime(s) /\ IsAmbiguous(s)},
                              !.unresolved = [r \in Reasons |-> @[r] + Cardinality(Called(r))],
                              !.outside = @ + Cardinality(outside)]
     IN  plan' = IF IsFull(plan) THEN plan
                 ELSE AppendGroups(seen, {s \in wanted : InTime(s)}, 1, "Inferred")
  /\ phase' = "count" /\ scans' = <<>>
  /\ UNCHANGED <<exportVars, image, cursor>>

\* The last lines of the plans: one for an image whose packer listed its imports,
\* or left them, does not count what is ambiguous.
Count ==
  /\ phase = "count" \/ (phase = "delay" /\ NoMoreScans /\ image.packer.kind \in {"Listed", "Intact"})
  /\ plan' = [plan EXCEPT !.ambiguous = IF phase = "count" THEN Cardinality(plan.ambiguousSlots) ELSE 0,
                          !.unresolvedDelay = Cardinality(plan.unboundSlots)]
  /\ phase' = "done" /\ scans' = <<>>
  /\ UNCHANGED <<exportVars, image, cursor>>

Next ==
  \/ (ParseModule \/ FollowForwarder) /\ UNCHANGED importVars
  \/ ChooseTables \/ StartScan \/ ScanRun \/ AddPackedModule \/ ChooseDelayTables
  \/ RecoverReferenced \/ Count

Spec == Init /\ [][Next]_vars

\* import_tables, and what else a Rebuild takes from the plan.
RebuildPlan(pointerWidth) ==
  [tables |-> {[start |-> pointerWidth * plan.groups[k].first,
                end |-> pointerWidth * (plan.groups[k].first + Len(plan.groups[k].entries))] : k \in DOMAIN plan.groups},
   existing |-> plan.existing # <<>>, keepIat |-> plan.keepIat, recovered |-> plan.recovered]

-----------------------------------------------------------------------------
IsDone == phase = "done"
EntryAt(g, slot) == g.entries[slot - g.first + 1]

\* The packer's own list says what is imported here.
IsGiven(slot) == \E m \in ToSet(image.packer.modules) : \E k \in DOMAIN m.functions :
  slot = m.first + k - 1 /\ m.functions[k].kind \in {"Name", "Ordinal"}

\* An import that was found at a slot is written back to that slot under a name
\* from which the loader gets to the address the slot held, whatever thunks and
\* forwarders lie between (append_groups, resolve_value, preferred_symbol). What
\* a packer listed by name is taken as it is, and what it listed without one is
\* vouched for if the module itself exports it there under what is written.
ResolvesBack ==
  IsDone => \A g \in ToSet(plan.groups) : \A s \in GroupSlots(g) :
    LET end == Chased(image.cells[s])
        e == EntryAt(g, s)
        exported == \E x \in ToSet(Lookup(addresses, end, <<>>)) :
                      x.module = g.module /\ (IF e.name # None THEN x.name = e.name ELSE x.ordinal = e.ordinal)
    IN  (image.packer.kind = "Listed" /\ g.source = "Packer" => ~ IsGiven(s) /\ exported)
          => end \in LoaderFinds(g.module, IF e.name # None THEN e.name ELSE e.ordinal)

\* A delay table of which others than the first slot were recovered before, or
\* are in another delay table.
TornTable ==
  LET tables == {i \in DOMAIN image.delay : IsDelayTable(image.delay[i])}
      Thunks(i) == ThunksFrom(image.delay[i].start)
      early == UNION {GroupSlots(g) : g \in {h \in ToSet(plan.groups) : h.source \notin {"Delayed", "Inferred"}}}
  IN  \E i \in tables :
        \/ image.delay[i].start \notin early /\ Thunks(i) \cap early # {}
        \/ \E j \in tables \ {i} : Thunks(i) \cap Thunks(j) # {}

\* Two lists of a packer that lie over each other, which nothing refuses.
TornList ==
  LET lists == image.packer.modules
      Listed(k) == lists[k].first..(lists[k].first + Len(lists[k].functions) - 1)
  IN  \E k, n \in DOMAIN lists : k # n /\ Listed(k) \cap Listed(n) # {}

\* No slot is in two of the tables that are written, nor taken from code when a
\* kept table or the loader fills it, and what is said to be recovered is there;
\* only a torn delay table or list of a packer can be written twice
\* (scan_delay_imports, add_packed_module, recover_referenced_imports, push_group).
TablesAreApart ==
  LET size[k \in 0..Len(plan.groups)] == IF k = 0 THEN 0 ELSE Len(plan.groups[k].entries) + size[k - 1]
  IN  /\ plan.recovered = size[Len(plan.groups)]
      /\ plan.recovered <= MaxImports /\ Len(plan.groups) <= MaxGroups
      /\ \A k, n \in DOMAIN plan.groups : k # n /\ ~ TornTable /\ ~ TornList =>
           GroupSlots(plan.groups[k]) \cap GroupSlots(plan.groups[n]) = {}
      /\ \A g \in ToSet(plan.groups) : g.source = "Inferred" =>
           GroupSlots(g) \cap (ExistingSlots(plan) \cup image.guards \cup plan.unboundSlots) = {}

\* Slots of the data that code calls through and that no table, guard or delay table
\* claims, and those of them for whose import nothing was written.
OpenCalls == {s \in DOMAIN Referenced : Referenced[s] = "Called" /\ InDataSection(s) /\ Unclaimed(s)}
Unwritten == {s \in OpenCalls : HoldsImport(s) /\ SymbolAt(s).module # OwnName}
ReferencesCounted ==
  /\ \A r \in Reasons : plan.unresolved[r] = Cardinality({s \in OpenCalls : Reason(image.cells[s]) = r})
  /\ {s \in OpenCalls : IsAmbiguous(s)} \subseteq plan.ambiguousSlots
  /\ \A s \in Unwritten : ~ Representable(SymbolAt(s).module, SymbolAt(s))
  /\ plan.unrepresentable >= Cardinality(Unwritten)

\* What a packer listed, and what of it is in the tables.
ListedFunctions ==
  UNION {{<<n, j>> : j \in DOMAIN image.packer.modules[n].functions} : n \in DOMAIN image.packer.modules}
PackedSlots ==
  UNION {{<<k, s>> : s \in GroupSlots(plan.groups[k])} : k \in {n \in DOMAIN plan.groups : plan.groups[n].source = "Packer"}}
ListsCounted == Cardinality(PackedSlots) + plan.unrepresentable >= Cardinality(ListedFunctions)

\* No limit is reached: the plan is not full and could take what is left of the slots
\* recover_referenced_imports looks for, and the lists of a packer fit into one.
HasRoom ==
  LET left == {s \in DOMAIN Referenced : Unclaimed(s) /\ InDataSection(s) /\ HoldsImport(s) /\ Believed(s)}
  IN  /\ ~ IsFull(plan)
      /\ plan.recovered + Cardinality(left) < MaxImports
      /\ image.packer.kind = "Listed" => Cardinality(ListedFunctions) <= MaxImports

\* As long as no limit is reached, a slot of the data that code calls through is
\* in a table or counted: what cannot be resolved under its reason, what could
\* be several things as ambiguous, what no name can be written for as
\* unrepresentable. So is every function a packer listed
\* (recover_referenced_imports, record_unresolved_call, append_groups, add_packed_module).
CallsAreAccounted ==
  IsDone /\ HasRoom =>
    /\ image.packer.kind \in {"None", "Unknown", "FilledIat"} =>
         ReferencesCounted /\ plan.ambiguous = Cardinality(plan.ambiguousSlots)
    /\ image.packer.kind = "Listed" => ListsCounted
=============================================================================
