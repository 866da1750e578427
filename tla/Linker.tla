------------------------------- MODULE Linker -------------------------------
(***************************************************************************)
(* Linking the object files of a program: Linker.link (src/a816/linker.py),*)
(* phase by phase -- pool declarations merged object by object, slots      *)
(* requested object by object, pools allocated one by one, objects         *)
(* ingested one by one, aliases folded in sweeps, then the check for       *)
(* unresolved names and the relocations.                                   *)
(***************************************************************************)
EXTENDS ObjectCompile, PoolLayout

LOCAL INSTANCE SequencesExt
LOCAL INSTANCE FiniteSetsExt

CONSTANTS BaseAddress,  \* link(base_address)
          Rank          \* identifier -> its place in the order of strings

ASSUME BaseAssumption == BaseAddress \in Nat

\* Every name a slot is asked for under has a place in the order of strings.
ASSUME RankAssumption ==
    \A program \in Programs : \A o \in DOMAIN program : \A j \in DOMAIN program[o] :
        IsAlloc(program[o][j]) => Rank[program[o][j].id] \in Nat

VARIABLES merged,       \* pools in declaration order, with requests and addresses
          slots,        \* _section_pool_alloc: <<object, section>> -> pool, request
          linked,       \* linked_sections, and _section_obj
          offset,       \* running_offset
          symbolMap,    \* symbol_map
          globals,      \* the GLOBAL entries of linked_symbols
          locals,       \* _local_by_obj
          needed,       \* _external_symbols_needed
          pending,      \* aliases not folded yet
          values        \* what each relocation was patched with

linkVars == <<merged, slots, linked, offset, symbolMap, globals, locals, needed, pending, values>>
vars == <<buildVars, linkVars>>

InitLink ==
    /\ merged = <<>> /\ slots = NoFunction /\ linked = <<>> /\ offset = 0
    /\ symbolMap = NoFunction /\ globals = NoFunction /\ locals = <<>>
    /\ needed = {} /\ pending = <<>> /\ values = {}

Object == objects[i]

Goto(next) ==
    phase' = next /\ i' = 1 /\ UNCHANGED <<source, compileVars, objects, error>>

\* On to the next object of this phase, or to the next phase after the last.
Onward(last, next) ==
    IF i = last THEN Goto(next)
    ELSE i' = i + 1 /\ UNCHANGED <<source, phase, compileVars, objects, error>>

Abort(reason) == Fail(reason) /\ UNCHANGED linkVars

-----------------------------------------------------------------------------
PoolIndex(ps, name) == CHOOSE p \in DOMAIN ps : ps[p].name = name

HasPool(ps, name) == \E p \in DOMAIN ps : ps[p].name = name

\* _pool_from_decl: the object file stores bare bounds.
FromDecl(d) ==
    [name |-> d.name, strategy |-> d.strategy, bss |-> d.bss,
     ranges |-> {[lo |-> r.lo, hi |-> r.hi, cross |-> Bank(r.lo) # Bank(r.hi)] : r \in d.ranges},
     names |-> <<>>, reqs |-> <<>>, addr |-> <<>>]

\* The ranges of a repeated declaration that the pool does not list already.
NewRanges(p, d) ==
    {[lo |-> r.lo, hi |-> r.hi, cross |-> FALSE]
        : r \in {s \in d.ranges : \A t \in p.ranges : t.lo # s.lo \/ t.hi # s.hi}}

\* _merge_one_pool_decl.
MergeDecl(acc, d) ==
    IF acc.error # "none" THEN acc
    ELSE IF ~HasPool(acc.pools, d.name)
    THEN [acc EXCEPT !.pools = Append(@, FromDecl(d))]
    ELSE LET k == PoolIndex(acc.pools, d.name)
             p == acc.pools[k]
             new == NewRanges(p, d)
         IN  IF p.strategy # d.strategy \/ p.bss # d.bss
             THEN [acc EXCEPT !.error = "conflicting decls"]
             ELSE IF \E r \in new : ~ValidRange(r)
             THEN [acc EXCEPT !.error = "invalid range"]
             ELSE IF \E r \in new, s \in p.ranges : Overlaps(r, s)
             THEN [acc EXCEPT !.error = "overlapping decls"]
             ELSE [acc EXCEPT !.pools[k].ranges = Normalize(@ \cup new)]

\* _merge_pool_decls, one object.
MergePools ==
    /\ phase = "merge"
    /\ \E acc \in {Fold(MergeDecl, [pools |-> merged, error |-> "none"], Object.decls)} :
           IF acc.error # "none" THEN Abort(acc.error)
           ELSE /\ merged' = acc.pools
                /\ Onward(Len(objects), "request")
                /\ UNCHANGED <<slots, linked, offset, symbolMap, globals, locals,
                               needed, pending, values>>

\* Mutant: no request is shared.
PriorNever(p, a) == {}

\* first_placed: the request this pool already has under the same name.
Prior(p, a) == {k \in DOMAIN p.names : p.names[k] = a.name}

\* Pool.add and the symbol it is for.
Requesting(p, req, name) == [p EXCEPT !.reqs = Append(@, req), !.names = Append(@, name)]

\* One PoolAlloc of object o: a request of its own, or the first one made
\* under its name.
RequestOne(o, acc, a) ==
    LET k == PoolIndex(acc.pools, a.pool)
        prior == Prior(acc.pools[k], a)
        req == [name |-> Rank[a.name.id], size |-> a.size, pin |-> a.pin]
        n == IF prior # {} THEN Min(prior) ELSE Len(acc.pools[k].reqs) + 1
    IN  [slots |-> Bound(acc.slots, <<o, a.section>>, [pool |-> k, req |-> n]),
         pools |-> IF prior # {} THEN acc.pools
                   ELSE [acc.pools EXCEPT ![k] = Requesting(@, req, a.name)]]

\* _allocate_pools_across_modules, the loop over one object's pool_allocs.
RequestSlots ==
    /\ phase = "request"
    /\ IF \E k \in DOMAIN Object.allocs : ~HasPool(merged, Object.allocs[k].pool)
       THEN Abort("undeclared pool")
       ELSE \E acc \in {Fold(LAMBDA x, a : RequestOne(i, x, a),
                              [slots |-> slots, pools |-> merged], Object.allocs)} :
                /\ slots' = acc.slots
                /\ merged' = acc.pools
                /\ Onward(Len(objects), IF merged' = <<>> THEN "ingest" ELSE "allocate")
                /\ UNCHANGED <<linked, offset, symbolMap, globals, locals, needed, pending, values>>

\* pool.allocate() for one merged pool.
AllocatePool ==
    /\ phase = "allocate"
    /\ \E result \in {Layout(merged[i].ranges, merged[i].strategy, merged[i].reqs)} :
           IF result.error # "none" THEN Abort(result.error)
           ELSE /\ merged' = [merged EXCEPT ![i].addr = result.addr]
                /\ Onward(Len(merged), "ingest")
                /\ UNCHANGED <<slots, linked, offset, symbolMap, globals, locals,
                               needed, pending, values>>

-----------------------------------------------------------------------------
Pooled(o, s) == <<o, s>> \in DOMAIN slots

Slot(o, s) ==
    LET t == slots[<<o, s>>]
    IN  [addr |-> merged[t.pool].addr[t.req], size |-> merged[t.pool].reqs[t.req].size]

\* Mutant: prior modules' bytes are not counted.
DeltaForFirst(o) ==
    IF objects[o].relocatable /\ objects[o].sections # <<>>
    THEN BaseAddress - objects[o].sections[1].base ELSE 0

\* _delta_for: relocatable modules follow one another from the base address.
DeltaFor(o) ==
    IF objects[o].relocatable /\ objects[o].sections # <<>>
    THEN BaseAddress + offset - objects[o].sections[1].base ELSE 0

FinalBase(o, s) ==
    IF Pooled(o, s) THEN Slot(o, s).addr ELSE objects[o].sections[s].base + DeltaFor(o)

\* A byte-less section spans the room its request reserved.
SpanOf(o, s) ==
    LET code == objects[o].sections[s].code
    IN  IF Slot(o, s).size > code THEN Slot(o, s).size ELSE code

\* _pool_delta_for_symbol tells a symbol's section by its address alone: the
\* first pool section whose sandbox holds it.
PoolSectionsAt(o, a) ==
    {s \in DOMAIN objects[o].sections :
        /\ Pooled(o, s)
        /\ objects[o].sections[s].base <= a
        /\ a < objects[o].sections[s].base + SpanOf(o, s)}

\* _final_address.
FinalAddress(o, sym) ==
    LET hits == PoolSectionsAt(o, sym.addr)
    IN  IF sym.kind # "code" THEN sym.addr
        ELSE IF hits # {}
        THEN sym.addr + Slot(o, Min(hits)).addr - objects[o].sections[Min(hits)].base
        ELSE sym.addr + DeltaFor(o)

\* The symbols of one type of object o, with their final addresses.
Finals(o, type) ==
    LET syms == {s \in objects[o].symbols : s.type = type}
    IN  [x \in {s.name : s \in syms} |->
            FinalAddress(o, CHOOSE s \in syms : s.name = x)]

\* _register_local_symbol: the flat map keeps the first binding of a name.
RegisterLocals(map, mine) == Over(map, mine)

\* _ingest_object.
IngestObject ==
    /\ phase = "ingest"
    /\ \E exported \in {Finals(i, "global")}, mine \in {Finals(i, "local")} :
       LET fresh == [x \in DOMAIN exported \ DOMAIN globals |-> exported[x]]
       IN  IF \E x \in DOMAIN exported \cap DOMAIN globals : globals[x] # exported[x]
           THEN Abort("duplicate symbol")
           ELSE /\ linked' = linked \o
                      [s \in DOMAIN Object.sections |->
                          [base |-> FinalBase(i, s), code |-> Object.sections[s].code,
                           lines |-> Object.sections[s].lines,
                           relocs |-> Object.sections[s].relocs, obj |-> i, index |-> s]]
                /\ globals' = Over(globals, fresh)
                /\ locals' = Append(locals, mine)
                /\ symbolMap' = RegisterLocals(Over(fresh, symbolMap), mine)
                /\ needed' = needed \cup {s.name : s \in {t \in Object.symbols : t.type = "external"}}
                /\ pending' = pending \o Object.aliases
                /\ offset' = offset + (IF Object.relocatable
                                       THEN CodeOf(Object.sections)
                                       ELSE 0)
                /\ Onward(Len(objects), "aliases")
                /\ UNCHANGED <<merged, slots, values>>

-----------------------------------------------------------------------------
\* One sweep of _resolve_aliases: every alias whose target is known is bound.
Sweep ==
    Fold(LAMBDA acc, a :
                IF Plain(a.target) \in DOMAIN acc.map
                THEN [acc EXCEPT !.map = Bound(@, Plain(a.id), acc.map[Plain(a.target)])]
                ELSE [acc EXCEPT !.left = Append(@, a)],
             [map |-> symbolMap, left |-> <<>>], pending)

\* Mutant: the sweeps go on without progress.
ResolveAliasesForever ==
    /\ phase = "aliases" /\ pending # <<>>
    /\ \E sweep \in {Sweep} :
        /\ symbolMap' = sweep.map
        /\ pending' = sweep.left
        /\ UNCHANGED <<buildVars, merged, slots, linked, offset, globals, locals, needed, values>>

ResolveAliases ==
    /\ phase = "aliases" /\ pending # <<>>
    /\ \E sweep \in {Sweep} :
       IF sweep.left = pending THEN Abort("unresolved alias")
       ELSE /\ symbolMap' = sweep.map
            /\ pending' = sweep.left
            /\ UNCHANGED <<buildVars, merged, slots, linked, offset, globals, locals, needed, values>>

AliasesDone ==
    /\ phase = "aliases" /\ pending = <<>>
    /\ Goto("check") /\ UNCHANGED linkVars

\* _check_unresolved.
CheckUnresolved ==
    /\ phase = "check"
    /\ IF needed \subseteq DOMAIN symbolMap
       THEN Goto("relocate") /\ UNCHANGED linkVars
       ELSE Abort("unresolved symbol")

\* Mutant: the flat map is asked first.
ValueInGlobalMap(o, x) == IF x \in DOMAIN symbolMap THEN symbolMap[x] ELSE locals[o][x]

\* A relocation of object o names x: the object's own private symbols first.
ValueIn(o, x) == IF x \in DOMAIN locals[o] THEN locals[o][x] ELSE symbolMap[x]

\* _apply_expression_relocations.
ApplyRelocations ==
    /\ phase = "relocate"
    /\ IF \E s \in DOMAIN linked : \E r \in linked[s].relocs :
             r.target \notin DOMAIN locals[linked[s].obj] \cup DOMAIN symbolMap
       THEN Abort("unresolved symbol")
       ELSE /\ values' = UNION {{[section |-> s, off |-> r.off, target |-> r.target,
                                  value |-> ValueIn(linked[s].obj, r.target)]
                                 : r \in linked[s].relocs} : s \in DOMAIN linked}
            /\ Goto("linked")
            /\ UNCHANGED <<merged, slots, linked, offset, symbolMap, globals, locals,
                           needed, pending>>

LinkNext ==
    \/ MergePools \/ RequestSlots \/ AllocatePool \/ IngestObject
    \/ ResolveAliases \/ AliasesDone \/ CheckUnresolved \/ ApplyRelocations

-----------------------------------------------------------------------------
Init == InitBuild /\ InitLink

Next == (CompileNext /\ UNCHANGED linkVars) \/ LinkNext

\* One process, one thread: the build runs on until it is done.
Spec == Init /\ [][Next]_vars /\ WF_vars(Next)
=============================================================================
