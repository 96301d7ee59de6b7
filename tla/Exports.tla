------------------------------ MODULE Exports ------------------------------
(***************************************************************************)
(* pe/exports.rs: the index of every address that some captured module     *)
(* exports (ExportIndex::build). The export tables are read one module at  *)
(* a time, then the forwarders, which name a symbol of another module, are *)
(* followed to the address they end at.                                    *)
(* A key is a name or, as in a forwarder, "#" and an ordinal. Names are    *)
(* compared without case everywhere: the model has one spelling of each.   *)
(***************************************************************************)
EXTENDS Integers, Sequences, FiniteSets, SequencesExt

CONSTANTS
  MaxForwardDepth, \* MAX_FORWARD_DEPTH, 8 in the code
  ApiSets,         \* the modules is_api_set knows by their api- or ext- prefix
  Decorated        \* the names that start with '?'

ASSUME DepthAssumption == MaxForwardDepth \in Nat \ {0}

\* A forwarder that names no module and symbol, and one whose text is unreadable.
Garbled == <<"", "">>
Unreadable == <<>>
\* No name, no module, no address.
None == ""
Nowhere == -1

\* What is read of a module: addresses are numbers, every export has an ordinal, and a
\* forwarder's text names a module and a key if it can be read.
IsModule(m) ==
  /\ m.base \in Nat /\ m.exports \in Seq(ToSet(m.exports))
  /\ \A e \in ToSet(m.exports) :
       /\ e.rva \in Nat /\ e.names \in Seq(ToSet(e.names)) /\ e.ordinal # None /\ e.forwarded \in BOOLEAN
       /\ e.target = Unreadable \/ e.target = <<e.target[1], e.target[2]>>

VARIABLES
  modules,     \* images: [base, length, declared, name, exports] of each module, in capture order;
               \* declared is the size of the image its header tells, length that of the captured bytes
  parsed,      \* how many of them ExportIndex::build has read
  addresses,   \* the symbols at each exported address
  definitions, \* by_module: the address of each <<module, key>>
  forwarders,  \* the forwarders found: [source, target]
  followed,    \* how many of them resolve_forwarders is through with
  lost         \* stats.unresolved_forwarders: which of them it could not resolve

exportVars == <<modules, parsed, addresses, definitions, forwarders, followed, lost>>

-----------------------------------------------------------------------------
Lookup(f, x, default) == IF x \in DOMAIN f THEN f[x] ELSE default
First(S) == CHOOSE x \in S : \A y \in S : x <= y

\* One export is one symbol per name, or one symbol without a name.
SymbolsOf(m, e) ==
  LET names == IF e.names = <<>> THEN <<None>> ELSE e.names
  IN  [k \in DOMAIN names |-> [module |-> m.name, name |-> names[k], ordinal |-> e.ordinal,
                               forwarded |-> e.forwarded]]

\* parse_exports: what a module exports itself, <<address, symbol>>, and what it
\* forwards. A slot of the function table that is zero exports nothing.
Direct(m) ==
  LET Place(e, symbols) == [j \in DOMAIN symbols |-> <<m.base + e.rva, symbols[j]>>]
      Take(found, e) == IF e.forwarded \/ e.rva <= 0 \/ e.rva >= m.declared THEN found
                        ELSE found \o Place(e, SymbolsOf(m, e))
  IN  FoldLeft(Take, <<>>, m.exports)
Forwards(m) ==
  LET Send(e, symbols) == [j \in DOMAIN symbols |-> [source |-> symbols[j], target |-> e.target]]
      Take(found, e) == IF e.forwarded /\ e.target # Unreadable THEN found \o Send(e, SymbolsOf(m, e)) ELSE found
  IN  FoldLeft(Take, <<>>, m.exports)

KeysOf(symbol) == {symbol.ordinal} \cup ({symbol.name} \ {None})

\* index.addresses.entry(address).or_default().push(symbol).
AddAddress(index, pair) ==
  [a \in DOMAIN index \cup {pair[1]} |->
     IF a = pair[1] THEN Append(Lookup(index, a, <<>>), pair[2]) ELSE index[a]]

\* add_definition: the first definition of a name stays.
AddDefinition(defined, pair) ==
  LET names == {<<pair[2].module, key>> : key \in KeysOf(pair[2])}
  IN  [n \in DOMAIN defined \cup names |-> IF n \in DOMAIN defined THEN defined[n] ELSE pair[1]]

-----------------------------------------------------------------------------
\* Definitions::build: where a key is defined, whatever the module; an API set
\* does not say which module implements it.
DefinedAnywhere(key) == {definitions[n] : n \in {m \in DOMAIN definitions : m[2] = key}}

\* pending: the last forwarder with this name or ordinal.
Pending(module, key) ==
  LET named == {k \in DOMAIN forwarders :
                  forwarders[k].source.module = module /\ key \in KeysOf(forwarders[k].source)}
  IN  IF named = {} THEN Unreadable
      ELSE forwarders[CHOOSE k \in named : \A j \in named : j <= k].target

\* One hop of resolve_key: an address, where to look next, or nowhere.
Hop(at) ==
  LET anywhere == DefinedAnywhere(at[2])
      next == Pending(at[1], at[2])
  IN  IF at \in DOMAIN definitions THEN [address |-> definitions[at], next |-> at]
      ELSE IF at[1] \in ApiSets /\ anywhere # {}
        THEN [address |-> IF Cardinality(anywhere) = 1 THEN First(anywhere) ELSE Nowhere, next |-> Garbled]
      ELSE [address |-> Nowhere, next |-> IF next = Unreadable THEN Garbled ELSE next]

\* Mutant: a chain is cut one hop early.
ShortKey(target) ==
  LET hop[n \in 1..MaxForwardDepth] == IF n = 1 THEN Hop(target) ELSE Hop(hop[n - 1].next)
      found == {n \in 1..(MaxForwardDepth - 1) : hop[n].address # Nowhere}
  IN  IF found = {} THEN Nowhere ELSE hop[First(found)].address

\* resolve_key: follow a forwarder for at most MaxForwardDepth hops.
ResolveKey(target) ==
  LET hop[n \in 1..MaxForwardDepth] == IF n = 1 THEN Hop(target) ELSE Hop(hop[n - 1].next)
      found == {n \in 1..MaxForwardDepth : hop[n].address # Nowhere}
  IN  IF found = {} THEN Nowhere ELSE hop[First(found)].address

-----------------------------------------------------------------------------
\* covers: only the last module that begins at or before the address is asked,
\* which is enough for modules that do not overlap.
Covers(address) ==
  LET before == {i \in DOMAIN modules : modules[i].base <= address}
  IN  before # {} /\
      LET i == CHOOSE j \in before : \A k \in before : modules[k].base <= modules[j].base
      IN  address < modules[i].base + modules[i].length

\* naming_priority below is_undecorated, as one number.
Priority(symbol) ==
  (IF symbol.name # None /\ symbol.name \notin Decorated THEN 3 ELSE 0) +
  (IF symbol.module \in ApiSets THEN 0 ELSE IF symbol.forwarded THEN 2 ELSE 1)

\* preferred_symbol: the first of the best.
Preferred(symbols) ==
  symbols[CHOOSE i \in DOMAIN symbols : \A j \in DOMAIN symbols :
            \/ Priority(symbols[j]) < Priority(symbols[i])
            \/ Priority(symbols[j]) = Priority(symbols[i]) /\ i <= j]

NamesMatch(a, b) == a.name # None /\ a.name = b.name

\* definitions_conflict: two modules define the address under different names.
Ambiguous(symbols) ==
  \E i, j \in DOMAIN symbols :
    /\ ~ symbols[i].forwarded /\ ~ symbols[j].forwarded
    /\ symbols[i].module # symbols[j].module
    /\ ~ NamesMatch(symbols[i], symbols[j])

-----------------------------------------------------------------------------
ExportsInit ==
  /\ parsed = 0 /\ followed = 0 /\ lost = {}
  /\ addresses = <<>> /\ definitions = <<>> /\ forwarders = <<>>

\* The loop of ExportIndex::build over the modules.
ParseModule ==
  /\ parsed < Len(modules)
  /\ parsed' = parsed + 1
  /\ LET m == modules[parsed + 1]
     IN  /\ addresses' = FoldLeft(AddAddress, addresses, Direct(m))
         /\ definitions' = FoldLeft(AddDefinition, definitions, Direct(m))
         /\ forwarders' = forwarders \o Forwards(m)
  /\ UNCHANGED <<modules, followed, lost>>

\* The loop of resolve_forwarders.
FollowForwarder ==
  /\ parsed = Len(modules) /\ followed < Len(forwarders)
  /\ followed' = followed + 1
  /\ LET f == forwarders[followed + 1]
         address == IF f.target = Garbled THEN Nowhere ELSE ResolveKey(f.target)
     IN  IF address = Nowhere
           THEN lost' = lost \cup {followed + 1} /\ UNCHANGED addresses
           ELSE addresses' = AddAddress(addresses, <<address, f.source>>) /\ UNCHANGED lost
  /\ UNCHANGED <<modules, parsed, definitions, forwarders>>

IndexIsBuilt == parsed = Len(modules) /\ followed = Len(forwarders)

-----------------------------------------------------------------------------
\* What the loader may find for a key of a module, in any number of hops: the
\* address the module exports it at, or what its forwarder leads to; an API set
\* stands for any module.
HostsOf(module) == IF module \in ApiSets THEN {modules[i].name : i \in DOMAIN modules} ELSE {module}
Leads(from) ==
  {<<host, from[2]>> : host \in HostsOf(from[1])}
    \cup {f.target : f \in {g \in ToSet(forwarders) : g.source.module = from[1] /\ from[2] \in KeysOf(g.source)}}
Reached(target) ==
  LET Step(found, k) == found \cup UNION {Leads(key) : key \in found}
  IN  FoldLeft(Step, {target}, [k \in 1..(2 * Len(forwarders) + 2) |-> k])
LoaderFinds(module, key) ==
  LET exported == UNION {ToSet(Direct(modules[i])) : i \in DOMAIN modules}
      found == Reached(<<module, key>>)
  IN  {x[1] : x \in {y \in exported : \E at \in found : at[1] = y[2].module /\ at[2] \in KeysOf(y[2])}}

\* Every forwarder ends at an address the loader would find for it, and one that
\* is given up ends nowhere, or behind more hops than are followed; what an API
\* set stands for is the loader's secret (resolve_forwarders, resolve_key).
ForwardersSettle ==
  IndexIsBuilt => \A k \in DOMAIN forwarders :
    LET f == forwarders[k]
        reached == Reached(f.target)
        finds == LoaderFinds(f.target[1], f.target[2])
    IN  /\ k \notin lost => \E a \in finds : f.source \in ToSet(addresses[a])
        /\ k \in lost /\ f.target # Garbled /\ ~ (\E at \in reached : at[1] \in ApiSets) =>
             finds = {} \/ Cardinality(reached) > MaxForwardDepth
=============================================================================
