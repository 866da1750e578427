---------------------------- MODULE ObjectCompile ----------------------------
(***************************************************************************)
(* Compiling the modules of a program to object files, one after another:  *)
(* Program.assemble_with_object_emitter.  A module is a sequence of nodes  *)
(* and is walked four times: code generation declares its pools, the first *)
(* resolver pass binds labels and asks for pool slots, the second folds    *)
(* aliases, and the emitter writes sections; in between the symbols are    *)
(* exported.  One action handles one node in one walk.                     *)
(*                                                                         *)
(* In object mode nothing is placed yet: an .alloc body is laid out at a   *)
(* sandbox address, the start of its pool's first range plus a cursor, and *)
(* the linker moves it.                                                    *)
(***************************************************************************)
EXTENDS PoolOps, ObjectWriter, Folding

LOCAL INSTANCE SequencesExt
LOCAL INSTANCE FiniteSetsExt

CONSTANTS Programs,     \* the programs: sequences of modules
          PrivateIds,   \* identifiers that start with an underscore
          Origin        \* logical address where a module without *= starts

VARIABLES source,       \* the program being built
          phase,        \* which walk, or which step of the linker
          i,            \* the node, object, pool or alias it is at
          pools,        \* resolver.pools: pool name -> ranges, strategy, bss
          cursors,      \* resolver.alloc_sandbox_cursors
          here,         \* the running address of a walk
          labels,       \* label name -> logical address
          fixed,        \* absolute_labels: the .label declarations
          externs,      \* external_symbols of the root scope
          sandbox,      \* node index -> _sandbox_base and _size of its alloc
          writer,       \* the ObjectWriter
          objects,      \* the object files written so far
          error         \* what stopped the build, "none" otherwise

compileVars == <<pools, cursors, here, labels, fixed, externs, sandbox, writer>>
buildVars == <<source, phase, i, compileVars, objects, error>>

-----------------------------------------------------------------------------
\* The nodes, as the parser makes them: those of a body, and all others.
\* Identifiers are strings; a node that emits nothing is no "bytes" node.
BodyNodes ==
    [kind : {"label"}, id : STRING]
    \cup [kind : {"bytes"}, size : Nat \ {0}, refs : SUBSET STRING]
    \cup [kind : {"res"}, size : Nat]

\* A pool has at least one range (E_PARSER_POOL_NO_RANGES).
RangesTaken == {r \in Ranges : ValidRange(r)}
RangeLists == {S \in SUBSET RangesTaken : S # {} /\ IsFiniteSet(S)}

Nodes ==
    BodyNodes
    \cup [kind : {"org"}, to : Nat]
    \cup [kind : {"ips"}, to : Nat, size : Nat \ {0}]
    \cup [kind : {"abs"}, id : STRING, to : Nat]
    \cup [kind : {"extern"}, id : STRING]
    \cup [kind : {"alias"}, id : STRING, target : STRING]
    \cup [kind : {"pool"}, pool : STRING, ranges : RangeLists,
          strategy : {"pack", "order"}, bss : BOOLEAN]
    \cup [kind : {"reclaim"}, pool : STRING, range : RangesTaken]
    \cup [kind : {"alloc"}, pool : STRING, id : STRING, pin : Nat \cup {Floating},
          body : Seq(BodyNodes)]
    \cup [kind : {"at"}, pool : STRING, id : STRING, range : RangesTaken, pin : {Floating},
          body : Seq(BodyNodes)]

ASSUME ProgramAssumption == Programs \subseteq Seq(Seq(Nodes)) /\ Origin \in Nat

-----------------------------------------------------------------------------
Walks == {"codegen", "pass1", "pass2", "export", "emit"}

m == Len(objects) + 1
Node == source[m][i]
At(walk) == phase = walk /\ m <= Len(source) /\ i <= Len(source[m])

NoFunction == [x \in {} |-> x]

ResetResolver ==
    /\ pools' = NoFunction /\ cursors' = NoFunction /\ here' = Origin
    /\ labels' = NoFunction /\ fixed' = NoFunction /\ externs' = {}
    /\ sandbox' = NoFunction /\ writer' = EmptyWriter

\* Mutant: nothing says why the build stopped.
FailUnnamed(reason) == phase' = "failed" /\ UNCHANGED <<source, i, compileVars, objects, error>>

\* An error ends the build: no object file of this module is linked.
Fail(reason) ==
    /\ phase' = "failed" /\ error' = reason
    /\ UNCHANGED <<source, i, compileVars, objects>>

\* The walk goes on to the next node.
Advance == i' = i + 1 /\ UNCHANGED <<source, phase, objects, error>>

-----------------------------------------------------------------------------
\* The alloc forms: "at" is `.alloc at`, whose pool is made for it.
IsAlloc(n) == n.kind \in {"alloc", "at"}

\* Scope index of the body of node j of module o: the alloc bodies so far.
ScopeOf(o, j) == Cardinality({k \in 1 .. j : IsAlloc(source[o][k])})

\* Bytes and .res advance the address; nothing else in a body does.
Length(n) == IF n.kind \in {"bytes", "res"} THEN n.size ELSE 0

SizeOf(body) == Fold(LAMBDA sum, n : sum + Length(n), 0, body)

\* The name a label of the body of alloc node j of module o is exported under
\* (_export_name): private ones are mangled, the others bubble to the root.
BodyName(o, j, id) == IF id \in PrivateIds THEN Mangled(ScopeOf(o, j), id) ELSE Plain(id)

\* _bind_body_labels_at: the alloc's own name, and each label of its body
\* at the address its position in the body gives it.
BodyLabels(j, base) ==
    LET n == source[m][j]
        marks == {k \in DOMAIN n.body : n.body[k].kind = "label"}
    IN  Over([x \in {BodyName(m, j, n.body[k].id) : k \in marks} |->
                 LET k == CHOOSE k \in marks : BodyName(m, j, n.body[k].id) = x
                 IN  base + SizeOf(SubSeq(n.body, 1, k - 1))],
             [x \in {Plain(n.id)} |-> base])

\* The name by which a node of the body of alloc j (0: at the root) refers
\* to id: an alias is replaced by its expression, a private label of the
\* body by its mangled name.
Refer(j, id) ==
    LET aliased == {a \in Range(writer.aliases) : a.id = id}
        to == IF aliased = {} THEN id ELSE (CHOOSE a \in aliased : TRUE).target
    IN  IF j > 0 /\ BodyName(m, j, to) \in DOMAIN labels THEN BodyName(m, j, to) ELSE Plain(to)

\* eval_expression finds the symbol, or knows that it is external.
Known(name) ==
    \/ name \in DOMAIN labels \cup DOMAIN fixed
    \/ name.scope = 0 /\ name.id \in externs

-----------------------------------------------------------------------------
\* generate_pool.  A second declaration must have the shape of the first;
\* the object file carries the ranges as they are now.
GeneratePool ==
    /\ At("codegen") /\ Node.kind = "pool"
    /\ LET pool == [ranges |-> Normalize(Node.ranges), strategy |-> Node.strategy,
                    bss |-> Node.bss]
       IN  IF ~Disjoint(Node.ranges) THEN Fail("pool")
           ELSE IF Node.pool \in DOMAIN pools
           THEN IF pools[Node.pool] = pool
                THEN Advance /\ UNCHANGED compileVars
                ELSE Fail("shape")
           ELSE /\ pools' = Bound(pools, Node.pool, pool)
                /\ writer' = [writer EXCEPT !.decls = Append(@, Over([name |-> Node.pool], pool))]
                /\ Advance
                /\ UNCHANGED <<cursors, here, labels, fixed, externs, sandbox>>

\* generate_reclaim: the resolver's pool grows, the object file's does not.
GenerateReclaim ==
    /\ At("codegen") /\ Node.kind = "reclaim"
    /\ IF /\ Node.pool \in DOMAIN pools
          /\ \A r \in pools[Node.pool].ranges : ~Overlaps(r, Node.range)
       THEN /\ pools' = [pools EXCEPT ![Node.pool].ranges = Normalize(@ \cup {Node.range})]
            /\ Advance
            /\ UNCHANGED <<cursors, here, labels, fixed, externs, sandbox, writer>>
       ELSE Fail("reclaim")

\* generate_alloc into a declared pool.
GenerateAlloc ==
    /\ At("codegen") /\ Node.kind = "alloc"
    /\ IF Node.pool \in DOMAIN pools
       THEN Advance /\ UNCHANGED compileVars
       ELSE Fail("unknown pool")

\* generate_alloc, pinned form: _synthesize_pinned_pool makes a pool of one
\* range; its name stands for the address and the source line.
GeneratePinned ==
    /\ At("codegen") /\ Node.kind = "at"
    /\ LET pool == [ranges |-> {Node.range}, strategy |-> "pack", bss |-> FALSE]
       IN  IF Node.pool \in DOMAIN pools
           THEN UNCHANGED <<pools, writer>>
           ELSE /\ pools' = Bound(pools, Node.pool, pool)
                /\ writer' = [writer EXCEPT !.decls = Append(@, Over([name |-> Node.pool], pool))]
    /\ Advance
    /\ UNCHANGED <<cursors, here, labels, fixed, externs, sandbox>>

GenerateOther ==
    /\ At("codegen") /\ Node.kind \notin {"pool", "reclaim", "alloc", "at"}
    /\ Advance /\ UNCHANGED compileVars

-----------------------------------------------------------------------------
Cursor(pool) == IF pool \in DOMAIN cursors THEN cursors[pool] ELSE 0

\* AllocNode._sandbox_pc.
SandboxPc(pool) == Min({r.lo : r \in pools[pool].ranges}) + Cursor(pool)

\* A body takes at least one byte of its pool.
SlotSize(n) == IF SizeOf(n.body) > 1 THEN SizeOf(n.body) ELSE 1

\* Mutant: the cursor is not advanced.
RequestSlotInPlace ==
    /\ At("pass1") /\ IsAlloc(Node)
    /\ sandbox' = Bound(sandbox, i, [base |-> SandboxPc(Node.pool), size |-> SlotSize(Node)])
    /\ labels' = Over(BodyLabels(i, SandboxPc(Node.pool)), labels)
    /\ Advance
    /\ UNCHANGED <<pools, cursors, here, fixed, externs, writer>>

\* AllocNode._request_slot in object mode: measure, bind the labels at the
\* sandbox, advance the pool's cursor.  The running address stays.
RequestSlot ==
    /\ At("pass1") /\ IsAlloc(Node)
    /\ sandbox' = Bound(sandbox, i, [base |-> SandboxPc(Node.pool), size |-> SlotSize(Node)])
    /\ labels' = Over(BodyLabels(i, SandboxPc(Node.pool)), labels)
    /\ cursors' = Bound(cursors, Node.pool, Cursor(Node.pool) + SlotSize(Node))
    /\ Advance
    /\ UNCHANGED <<pools, here, fixed, externs, writer>>

\* LabelNode, LabelDeclNode, ExternNode.
BindLabel ==
    /\ At("pass1") /\ Node.kind = "label"
    /\ labels' = Bound(labels, Plain(Node.id), here)
    /\ Advance
    /\ UNCHANGED <<pools, cursors, here, fixed, externs, sandbox, writer>>

DeclareLabel ==
    /\ At("pass1") /\ Node.kind = "abs"
    /\ fixed' = Bound(fixed, Plain(Node.id), Node.to)
    /\ Advance
    /\ UNCHANGED <<pools, cursors, here, labels, externs, sandbox, writer>>

DeclareExtern ==
    /\ At("pass1") /\ Node.kind = "extern"
    /\ externs' = externs \cup {Node.id}
    /\ writer' = [writer EXCEPT !.symbols = @ \cup
                     {[name |-> Plain(Node.id), addr |-> 0, type |-> "external", kind |-> "code"]}]
    /\ Advance
    /\ UNCHANGED <<pools, cursors, here, labels, fixed, sandbox>>

\* pc_after of a node that takes room, and of *=.
MoveOn ==
    /\ At("pass1") /\ Node.kind \in {"bytes", "res", "org"}
    /\ here' = IF Node.kind = "org" THEN Node.to ELSE here + Node.size
    /\ Advance
    /\ UNCHANGED <<pools, cursors, labels, fixed, externs, sandbox, writer>>

\* SymbolNode waits for the second pass; .include_ips takes no room.
PassOver ==
    /\ At("pass1") /\ Node.kind \in {"alias", "ips", "pool", "reclaim"}
    /\ Advance /\ UNCHANGED compileVars

-----------------------------------------------------------------------------
\* SymbolNode.pc_after in the second pass.  A right-hand side that names a
\* label or an external symbol is left to the linker, under its exported name.
RegisterAlias ==
    /\ At("pass2") /\ Node.kind = "alias"
    /\ IF Known(Plain(Node.target))
       THEN /\ writer' = [writer EXCEPT !.aliases =
                             Append(@, [id |-> Node.id, target |-> Node.target])]
            /\ Advance
            /\ UNCHANGED <<pools, cursors, here, labels, fixed, externs, sandbox>>
       ELSE Fail("undefined")

\* Labels are not bound again, and an alloc is bound again where it was.
RevisitOther ==
    /\ At("pass2") /\ Node.kind # "alias"
    /\ Advance /\ UNCHANGED compileVars

\* _export_object_symbols: labels move with their section, .label values do not.
ExportSymbols ==
    /\ phase = "export" /\ m <= Len(source)
    /\ LET Type(x) == IF x.scope > 0 \/ x.id \in PrivateIds THEN "local" ELSE "global"
           code == {[name |-> x, addr |-> labels[x], type |-> Type(x), kind |-> "code"]
                    : x \in DOMAIN labels \ DOMAIN fixed}
           abs  == {[name |-> x, addr |-> fixed[x], type |-> Type(x), kind |-> "abs"]
                    : x \in DOMAIN fixed}
       IN  writer' = StartSection([writer EXCEPT !.symbols = @ \cup code \cup abs],
                                  Origin, FALSE, FALSE)
    /\ phase' = "emit" /\ i' = 1 /\ here' = Origin
    /\ UNCHANGED <<source, pools, cursors, labels, fixed, externs, sandbox, objects, error>>

-----------------------------------------------------------------------------
\* The body of alloc node i written by w, node by node.
EmitBody(w, n) ==
    Fold(LAMBDA acc, k :
                IF n.body[k].kind = "bytes"
                THEN EmitNode(acc, n.body[k].size, <<i, k>>,
                              {Refer(i, x) : x \in n.body[k].refs})
                ELSE acc,
             w, [k \in DOMAIN n.body |-> k])

BodyRefs(n) == UNION {n.body[k].refs : k \in {j \in DOMAIN n.body : n.body[j].kind = "bytes"}}

\* _object_emit_alloc: the body in a section of its own, at the sandbox and
\* made at once, then a new section where the module was.
EmitAlloc ==
    /\ At("emit") /\ IsAlloc(Node)
    /\ IF \E x \in BodyRefs(Node) : ~Known(Refer(i, x))
       THEN Fail("undefined")
       ELSE \E opened \in {StartSection(Flush(writer), sandbox[i].base, TRUE, TRUE)} :
            \E full \in {Flush(EmitBody(opened, Node))} :
               LET index == Len(full.sections)
                   hasCode == full.sections[index].code > 0
               IN  IF pools[Node.pool].bss /\ hasCode
                   THEN Fail("bytes in bss pool")
                   ELSE \E after \in {StartSection([full EXCEPT !.sections[index].bss = ~hasCode],
                                                     here, FALSE, FALSE)} :
                        /\ writer' = [after EXCEPT !.allocs = Append(@,
                              [pool |-> Node.pool, name |-> Plain(Node.id),
                               section |-> Len(after.sections), size |-> sandbox[i].size,
                               pin |-> Node.pin])]
                        /\ Advance
                        /\ UNCHANGED <<pools, cursors, here, labels, fixed, externs, sandbox>>

\* _accumulate_object_bytes.
EmitBytes ==
    /\ At("emit") /\ Node.kind = "bytes"
    /\ IF \E x \in Node.refs : ~Known(Refer(0, x))
       THEN Fail("undefined")
       ELSE /\ writer' = EmitNode(writer, Node.size, <<i, 0>>, {Refer(0, x) : x \in Node.refs})
            /\ here' = here + Node.size
            /\ Advance
            /\ UNCHANGED <<pools, cursors, labels, fixed, externs, sandbox>>

\* _object_open_section after a CodePositionNode.
EmitOrg ==
    /\ At("emit") /\ Node.kind = "org"
    /\ here' = Node.to
    /\ writer' = StartSection(Flush(writer), Node.to, TRUE, FALSE)
    /\ Advance
    /\ UNCHANGED <<pools, cursors, labels, fixed, externs, sandbox>>

\* _object_emit_ips_blocks, for a patch of one block.
EmitIps ==
    /\ At("emit") /\ Node.kind = "ips"
    /\ writer' = WriteBlock(StartSection(Flush(writer), Node.to, TRUE, FALSE), Node.size)
    /\ Advance
    /\ UNCHANGED <<pools, cursors, here, labels, fixed, externs, sandbox>>

EmitNothing ==
    /\ At("emit") /\ Node.kind \notin {"alloc", "at", "bytes", "org", "ips"}
    /\ Advance /\ UNCHANGED compileVars

-----------------------------------------------------------------------------
InitBuild ==
    /\ source \in Programs
    /\ phase = "codegen" /\ i = 1
    /\ pools = NoFunction /\ cursors = NoFunction /\ here = Origin
    /\ labels = NoFunction /\ fixed = NoFunction /\ externs = {}
    /\ sandbox = NoFunction /\ writer = EmptyWriter
    /\ objects = <<>> /\ error = "none"

\* One walk is over: on to the next.
NextWalk ==
    /\ phase \in {"codegen", "pass1", "pass2"}
    /\ m <= Len(source) /\ i > Len(source[m])
    /\ phase' = CASE phase = "codegen" -> "pass1"
                  [] phase = "pass1" -> "pass2"
                  [] phase = "pass2" -> "export"
    /\ i' = 1 /\ here' = Origin
    /\ UNCHANGED <<source, pools, cursors, labels, fixed, externs, sandbox, writer, objects, error>>

\* emit_with_relocations ends with a flush, ObjectWriter.end writes the .o;
\* the next module starts with a resolver and a writer of its own.
FinishModule ==
    /\ phase = "emit" /\ m <= Len(source) /\ i > Len(source[m])
    /\ objects' = Append(objects, ObjectOf(Flush(writer)))
    /\ phase' = IF m = Len(source) THEN "merge" ELSE "codegen"
    /\ i' = 1
    /\ ResetResolver
    /\ UNCHANGED <<source, error>>

CompileNext ==
    \/ GeneratePool \/ GenerateReclaim \/ GenerateAlloc \/ GeneratePinned \/ GenerateOther
    \/ RequestSlot \/ BindLabel \/ DeclareLabel \/ DeclareExtern \/ MoveOn \/ PassOver
    \/ RegisterAlias \/ RevisitOther \/ ExportSymbols
    \/ EmitAlloc \/ EmitBytes \/ EmitOrg \/ EmitIps \/ EmitNothing
    \/ NextWalk \/ FinishModule
=============================================================================
