------------------------------ MODULE DirectMode -----------------------------
(***************************************************************************)
(* The nodes of a program through Program.resolve_labels, the allocator    *)
(* and EmitMixin.emit (src/a816/program, src/a816/parse/nodes), down to    *)
(* the blocks the writer is given behind a WriteAuditor that raises on an  *)
(* overlap.  A byte written is <<node, index, value>>: byte `index` of the *)
(* value that node has; a linked module's bytes are its own, counted from  *)
(* the start of its first section.                                         *)
(***************************************************************************)
EXTENDS CodeGen, PoolLayout

LOCAL INSTANCE SequencesExt
LOCAL INSTANCE FiniteSetsExt
LOCAL INSTANCE TLC

VARIABLES k,          \* the node the walk is at
          emitter     \* resolver.pc, the pending block, what was written

runVars == <<k, emitter>>

\* `marks` is a history of the address each numbered node was emitted at.
NewEmitter(offset) == [offset |-> offset, anchor |-> offset, block |-> <<>>,
                       writes |-> <<>>, marks |-> NoNames, overlap |-> FALSE]

Init == InitGen /\ k = 1 /\ emitter = NewEmitter(0)

Nodes == Head(out)
Node == Nodes[k]

-----------------------------------------------------------------------------
(* pc_after of the nodes, on the resolver r; `ok` turns false when it raises. *)

Moved(r, n) == [r EXCEPT !.here = Plus(TheBus, @, n)]
ValueIn(r, expr) == Values(r.scopes, r.cur, expr)
First(S) == CHOOSE v \in S : TRUE

Good(r) == [r |-> r, ok |-> TRUE]
Bad(r)  == [r |-> r, ok |-> FALSE]

\* LabelDeclNode and SymbolNode.
AfterSymbol(r, n) ==
    IF ValueIn(r, n.expr) = {} THEN Bad(r)
    ELSE Good([r EXCEPT !.scopes = AddSymbol(@, r.cur, n.id, First(ValueIn(r, n.expr)))])

\* BinaryNode: a label and the size, then the bytes.
AfterBinary(r, n) ==
    Moved([r EXCEPT !.scopes = AddSymbol(AddLabel(@, r.cur, n.id, r.here), r.cur, SizeId(n.id), n.size)],
          n.size)

\* ScopeNode and PopScopeNode; the other simple nodes.
AfterSimple(r, n) ==
    CASE n.kind = "enter" -> Good([r EXCEPT !.cur = n.scope])
      [] n.kind = "pop" -> Good([r EXCEPT !.scopes = Leave(@, n.scope, n.exports),
                                          !.cur = r.scopes[n.scope].parent])
      [] n.kind = "label" -> Good([r EXCEPT !.scopes = AddLabel(@, r.cur, n.id, r.here)])
      [] n.kind \in {"abs", "symbol"} -> AfterSymbol(r, n)
      [] n.kind \in {"data", "res"} -> Good(Moved(r, n.size))
      [] n.kind = "bin" -> Good(AfterBinary(r, n))
      [] n.kind \in {"org", "at"} -> Good([r EXCEPT !.here = n.to])
      [] n.kind = "ips" -> Good(r)

RECURSIVE AllNodes(_)
\* _collect_linked_modules looks into the bodies of allocs.
AllNodes(nodes) == UNION {{nodes[j]} \cup (IF nodes[j].kind = "alloc" THEN AllNodes(nodes[j].body) ELSE {})
                          : j \in DOMAIN nodes}

\* _mark_import_winners: the last .import of a module is the one that counts.
Loses(n) == \E m \in AllNodes(Nodes) : m.kind = "module" /\ m.name = n.name /\ m.uid > n.uid

Delta(r, m) == IF m.sections # <<>> /\ m.relocatable THEN r.here - CodeBase(m) ELSE 0

\* _bind_module_symbols: the global ones; the code moves with its section.
BindGlobals(r, m, delta) ==
    FoldLeft(LAMBDA scopes, j :
               LET sym == m.symbols[j]
                   final == IF sym.code THEN sym.addr + delta ELSE sym.addr
               IN  IF sym.local THEN scopes
                   ELSE IF sym.code THEN AddLabel(scopes, r.cur, sym.id, final)
                   ELSE AddSymbol(scopes, r.cur, sym.id, final),
             r.scopes, [j \in DOMAIN m.symbols |-> j])

\* _register_imported_pools: the ones that are not declared yet.
RegisterPools(r, m) ==
    [p \in DOMAIN m.pools |-> NewPool(m.pools[p], "pack", FALSE)]

\* Mutant: the room is taken at every .import.
AfterModuleAlways(r, n) ==
    LET m == Modules[n.name]
        delta == Delta(r, m)
        bound == [r EXCEPT !.scopes = BindGlobals(r, m, delta),
                           !.pools = @ @@ RegisterPools(r, m),
                           !.shift = (n.uid :> delta) @@ @]
    IN  IF m.sections = <<>> \/ ~m.relocatable THEN Good(bound)
        ELSE Good([bound EXCEPT !.here = CodeBase(m) + delta + Len(m.sections[1].code)])

\* LinkedModuleNode.pc_after; a loser takes no room.
AfterModule(r, n) ==
    LET m == Modules[n.name]
        delta == Delta(r, m)
        bound == [r EXCEPT !.scopes = BindGlobals(r, m, delta),
                           !.pools = @ @@ RegisterPools(r, m),
                           !.shift = (n.uid :> delta) @@ @]
    IN  IF Loses(n) \/ m.sections = <<>> \/ ~m.relocatable THEN Good(bound)
        ELSE Good([bound EXCEPT !.here = CodeBase(m) + delta + Len(m.sections[1].code)])

-----------------------------------------------------------------------------
(* AllocNode. *)

RECURSIVE After(_, _), Through(_, _, _)

\* A body in one go: measuring leaves the SymbolNodes out and stops at the
\* first error, binding walks over what raises.
Through(r, body, how) ==
    Fold(LAMBDA acc, n :
            IF ~acc.ok \/ (how = "measure" /\ n.kind = "symbol") THEN acc
            ELSE LET next == After(acc.r, n)
                 IN  IF next.ok \/ how = "measure" THEN next ELSE acc,
         Good(r), body)

\* _measure_body: file offsets, where there are some.
Distance(from, to) ==
    IF Physical(TheBus, from) = NoOffset \/ Physical(TheBus, to) = NoOffset THEN to - from
    ELSE Physical(TheBus, to) - Physical(TheBus, from)

SandboxOf(r, pool) == Min({range.lo : range \in r.pools[pool].ranges})

\* RelocateNode gives its old range back first.
Reclaimed(r, n) == [r EXCEPT !.pools[n.pool].ranges = Normalize(@ \cup n.reclaims)]

\* _request_slot: the body is measured at the start of the pool.
RequestSlot(r0, n) ==
    LET r == Reclaimed(r0, n)
        start == SandboxOf(r, n.pool)
        walked == Through([r EXCEPT !.here = start], n.body, "measure")
        size == Max({1, Distance(start, walked.r.here)})
        index == Len(walked.r.pools[n.pool].requests) + 1
    IN  IF \E old \in n.reclaims, range \in r0.pools[n.pool].ranges : Overlaps(old, range) THEN Bad(r0)
        ELSE IF ~walked.ok \/ walked.r.pools[n.pool].addr # <<>> THEN Bad(r0)
        ELSE Good([walked.r EXCEPT
                     !.here = r0.here,
                     !.pools[n.pool].requests = Append(@, [name |-> n.rank, size |-> size, pin |-> n.pin]),
                     !.slots = (n.uid :> [pool |-> n.pool, index |-> index, size |-> size]) @@ @])

PlacedAt(r, n) == r.pools[n.pool].addr[r.slots[n.uid].index]

\* Mutant: the labels are bound where the body was measured.
BindBodyAtStart(r, n) ==
    LET named == AddLabel(r.scopes, r.cur, n.id, PlacedAt(r, n))
        walked == Through([r EXCEPT !.scopes = named, !.here = SandboxOf(r, n.pool)], n.body, "bind")
    IN  Good([walked.r EXCEPT !.here = r.here, !.cur = r.cur])

\* _bind_body_labels_at: the alloc's name, then the labels of its body.
BindBody(r, n) ==
    LET named == AddLabel(r.scopes, r.cur, n.id, PlacedAt(r, n))
        walked == Through([r EXCEPT !.scopes = named, !.here = PlacedAt(r, n)], n.body, "bind")
    IN  Good([walked.r EXCEPT !.here = r.here, !.cur = r.cur])

\* AllocNode.pc_after: asks for its slot once, binds once it is placed.
AfterAlloc(r, n) ==
    IF n.pool \notin DOMAIN r.pools THEN Bad(r)
    ELSE IF n.uid \notin DOMAIN r.slots THEN RequestSlot(r, n)
    ELSE IF r.pools[n.pool].addr # <<>> THEN BindBody(r, n) ELSE Good(r)

After(r, n) ==
    IF n.kind = "alloc" THEN AfterAlloc(r, n)
    ELSE IF n.kind = "module" THEN AfterModule(r, n)
    ELSE AfterSimple(r, n)

-----------------------------------------------------------------------------
(* resolve_labels: the two passes. *)

FailRun(reason) == /\ phase' = "failed" /\ error' = reason
                   /\ UNCHANGED <<source, todo, macros, imported, out, declared, resolver, k, emitter>>

\* Code generation is over.
StartPasses == /\ phase = "codegen" /\ todo = <<>>
               /\ phase' = "first" /\ k' = 1
               /\ resolver' = [resolver EXCEPT !.cur = 1, !.here = StartAddress]
               /\ UNCHANGED <<source, todo, macros, imported, out, declared, error, emitter>>

InPass == phase \in {"first", "second"} /\ k <= Len(Nodes)

\* The nodes a pass leaves out.
LeavesOut == IF phase = "first" THEN {"symbol"} ELSE {"label", "bin"}

PassOver == /\ InPass /\ Node.kind \in LeavesOut
            /\ k' = k + 1
            /\ UNCHANGED <<genVars, emitter>>

Pass(kinds) ==
    /\ InPass /\ Node.kind \in kinds \ LeavesOut
    /\ \E next \in {After(resolver, Node)} :
          IF next.ok
          THEN /\ resolver' = next.r /\ k' = k + 1
               /\ UNCHANGED <<source, phase, todo, macros, imported, out, declared, error, emitter>>
          ELSE FailRun("undefined")

PassScope  == Pass({"enter", "pop"})
PassSymbol == Pass({"label", "abs", "symbol"})
PassBytes  == Pass({"data", "res", "bin", "ips"})
PassMove   == Pass({"org", "at"})
PassModule == Pass({"module"})
PassAlloc  == Pass({"alloc"})

LayoutOf(pool) == Layout(pool.ranges, pool.strategy, pool.requests)

\* Resolver.allocate_pools and resolver_reset between the passes.
AllocatePools ==
    /\ phase = "first" /\ k > Len(Nodes)
    /\ \E layouts \in {[p \in DOMAIN resolver.pools |-> LayoutOf(resolver.pools[p])]} :
          IF \E p \in DOMAIN layouts : layouts[p].error # "none"
          THEN FailRun("pool")
          ELSE /\ resolver' = [resolver EXCEPT
                     !.pools = [p \in DOMAIN @ |-> [@[p] EXCEPT !.addr = layouts[p].addr]],
                     !.cur = 1, !.here = StartAddress]
               /\ phase' = "second" /\ k' = 1
               /\ UNCHANGED <<source, todo, macros, imported, out, declared, error, emitter>>

\* Program.emit starts where the resolver stands: pc 0, the start address.
StartEmit ==
    /\ phase = "second" /\ k > Len(Nodes)
    /\ phase' = "emit" /\ k' = 1
    /\ resolver' = [resolver EXCEPT !.cur = 1, !.here = StartAddress]
    /\ emitter' = NewEmitter(0)
    /\ UNCHANGED <<source, todo, macros, imported, out, declared, error>>

-----------------------------------------------------------------------------
(* EmitMixin.emit. *)

\* WriteAuditor._check_overlap, then write_block.
Clashes(e, at, cells) ==
    \E j \in DOMAIN e.writes : /\ at < e.writes[j].at + Len(e.writes[j].cells)
                               /\ e.writes[j].at < at + Len(cells)
Write(e, at, cells) ==
    IF cells = <<>> \/ e.overlap THEN e
    ELSE IF Clashes(e, at, cells) THEN [e EXCEPT !.overlap = TRUE]
    ELSE [e EXCEPT !.writes = Append(@, [at |-> at, cells |-> cells])]

\* Mutant: the block is written where the bytes to come go.
FlushHere(e) == [Write(e, e.offset, e.block) EXCEPT !.block = <<>>]

\* _flush_pending.
Flush(e) == [Write(e, e.anchor, e.block) EXCEPT !.block = <<>>]

Anchored(e) == [e EXCEPT !.anchor = e.offset]

Cells(uid, size, value) == [j \in 1 .. size |-> <<uid, j, value>>]

Marked(e, uid, here) == [e EXCEPT !.marks = (uid :> here) @@ @]

\* What a node of one value emits in scope r.cur: nothing when the name in it
\* is not defined, which raises.
Emitted(r, n) ==
    IF n.kind = "bin" THEN {Cells(n.uid, n.size, 0)}
    ELSE {Cells(n.uid, n.size, v) : v \in ValueIn(r, n.expr)}

\* _to_physical: an address without an offset is taken as it is.
FileOffset(a) == IF Physical(TheBus, a) = NoOffset THEN a ELSE Physical(TheBus, a)

\* set_position.
Offset(e, a) == IF Physical(TheBus, a) = NoOffset THEN e.offset ELSE Physical(TheBus, a)

InEmit == phase = "emit" /\ k <= Len(Nodes)
AtNode(kinds) == InEmit /\ Node.kind \in kinds

Emits(r, e) == IF e.overlap THEN FailRun("overlap")
               ELSE /\ resolver' = r /\ emitter' = e /\ k' = k + 1
                    /\ UNCHANGED <<source, phase, todo, macros, imported, out, declared, error>>

EmitScope == /\ AtNode({"enter", "pop"})
             /\ Emits(AfterSimple(resolver, Node).r, emitter)

\* Nodes without bytes; the address of a label is noted for the properties.
EmitNothing ==
    /\ AtNode({"label", "abs", "symbol", "res"})
    /\ Emits(resolver, IF Node.kind = "label" THEN Marked(emitter, Node.uid, resolver.here) ELSE emitter)

\* _emit_default.
EmitBytes ==
    /\ AtNode({"data", "bin"})
    /\ IF Emitted(resolver, Node) = {} THEN FailRun("undefined")
       ELSE \E cells \in Emitted(resolver, Node) :
            Emits(Moved(resolver, Len(cells)),
                  Marked([emitter EXCEPT !.block = @ \o cells, !.offset = @ + Len(cells)],
                         Node.uid, resolver.here))

\* CodePositionNode and _handle_code_position: flushed, then anchored anew.
EmitOrg ==
    /\ AtNode({"org"})
    /\ Emits([resolver EXCEPT !.here = Plus(TheBus, Node.to, 0)],
             Anchored(Flush([emitter EXCEPT !.offset = Offset(emitter, Node.to)])))

\* RelocationAddressNode: the position moves under the pending block.
EmitAt ==
    /\ AtNode({"at"})
    /\ Emits([resolver EXCEPT !.here = Plus(TheBus, Node.to, 0)],
             [emitter EXCEPT !.offset = Offset(emitter, Node.to)])

\* _emit_ips_blocks: straight to the writer, before the pending block.
EmitIps ==
    /\ AtNode({"ips"})
    /\ Emits(resolver, FoldLeft(LAMBDA e, b : Write(e, b.at, [j \in 1 .. b.size |-> <<0, j, b.at>>]),
                                emitter, Node.blocks))

\* _apply_region_relocations: the module's local symbols stand in the root
\* scope while its expressions are read in the current one.
Patched(r, n, section) ==
    LET m == Modules[n.name]
        locals == SelectSeq(m.symbols, LAMBDA sym : sym.local)
        injected == FoldLeft(LAMBDA scopes, sym :
                               AddSymbol(scopes, 1, sym.id,
                                         IF sym.code THEN sym.addr + r.shift[n.uid] ELSE sym.addr),
                             r.scopes, locals)
        PatchAt(code, reloc) ==
            LET found == Values(injected, r.cur, reloc.expr)
            IN  IF found = {} \/ reloc.offset + reloc.size > Len(code) THEN code
                ELSE [j \in DOMAIN code |->
                        IF j \in reloc.offset + 1 .. reloc.offset + reloc.size
                        THEN <<code[j][1], code[j][2], First(found)>> ELSE code[j]]
    IN  FoldLeft(PatchAt,
                 [j \in DOMAIN section.code |-> <<n.uid, section.base - CodeBase(m) + j, section.code[j]>>],
                 section.relocs)

\* LinkedModuleNode._compute_placement.
Placement(r, n) ==
    [j \in DOMAIN Modules[n.name].sections |->
        [base |-> Modules[n.name].sections[j].base + r.shift[n.uid],
         cells |-> Patched(r, n, Modules[n.name].sections[j])]]

\* _emit_linked_module.
EmitModule ==
    /\ AtNode({"module"})
    /\ IF Loses(Node) THEN Emits(resolver, emitter)
       ELSE LET blocks == Placement(resolver, Node)
                written == FoldLeft(LAMBDA e, b : Write(e, FileOffset(b.base), b.cells),
                                    Flush(emitter), blocks)
                advance == IF blocks # <<>> /\ Modules[Node.name].relocatable
                           THEN Len(blocks[1].cells) ELSE 0
            IN  Emits(Moved(resolver, advance),
                      Marked(Anchored([written EXCEPT !.offset = @ + advance]), Node.uid,
                             IF Modules[Node.name].relocatable \/ blocks = <<>>
                             THEN resolver.here ELSE blocks[1].base))

-----------------------------------------------------------------------------
\* emit_attributed_blocks: one node of a body.  An alloc in it emits nothing,
\* a module its only section, a loser nothing.  Reserved bytes are counted
\* for the marks only.
BodyStep(acc, n) ==
    LET r == acc.r
        Takes1(cells) == [acc EXCEPT !.r = Moved(@, Len(cells)), !.cells = @ \o cells,
                                     !.e = Marked(@, n.uid, r.here)]
    IN  CASE n.kind \in {"enter", "pop"} -> [acc EXCEPT !.r = AfterSimple(r, n).r]
          [] n.kind = "label" -> [acc EXCEPT !.e = Marked(@, n.uid, r.here + acc.reserved)]
          [] n.kind = "res" -> [acc EXCEPT !.reserved = @ + n.size]
          [] n.kind \in {"data", "bin"} ->
                IF Emitted(r, n) = {} THEN [acc EXCEPT !.ok = FALSE]
                ELSE Takes1(First(Emitted(r, n)))
          [] n.kind = "module" /\ ~Loses(n) /\ Len(Modules[n.name].sections) = 1 ->
                Takes1(Placement(r, n)[1].cells)
          [] OTHER -> acc

\* _emit_alloc: the body is one block, at the address of its first byte.
EmitAlloc ==
    /\ AtNode({"alloc"})
    /\ \E addr \in {PlacedAt(resolver, Node)} :
       \E body \in {Fold(LAMBDA acc, n : IF acc.ok THEN BodyStep(acc, n) ELSE acc,
                         [r |-> [resolver EXCEPT !.here = Plus(TheBus, addr, 0)],
                          e |-> Marked(Flush(emitter), Node.uid, addr), cells |-> <<>>,
                          reserved |-> 0, ok |-> TRUE],
                         Node.body)} :
          IF ~body.ok THEN FailRun("undefined")
          ELSE Emits([body.r EXCEPT !.here = resolver.here],
                     Anchored(Write(body.e, FileOffset(addr), body.cells)))

\* The last flush.
Finish ==
    /\ phase = "emit" /\ k > Len(Nodes)
    /\ IF Flush(emitter).overlap THEN FailRun("overlap")
       ELSE /\ emitter' = Flush(emitter) /\ phase' = "done"
            /\ UNCHANGED <<source, todo, macros, imported, out, declared, resolver, error, k>>

RunNext == \/ StartPasses \/ PassOver \/ PassScope \/ PassSymbol \/ PassBytes \/ PassMove
           \/ PassModule \/ PassAlloc \/ AllocatePools \/ StartEmit
           \/ EmitScope \/ EmitNothing \/ EmitBytes \/ EmitOrg \/ EmitAt \/ EmitIps
           \/ EmitModule \/ EmitAlloc \/ Finish

vars == <<genVars, runVars>>

Next == (GenNext /\ UNCHANGED runVars) \/ RunNext

Spec == Init /\ [][Next]_vars
=============================================================================
