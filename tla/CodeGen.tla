------------------------------- MODULE CodeGen -------------------------------
(***************************************************************************)
(* Code generation in direct mode (src/a816/parse/codegen): the statements *)
(* of a program become the nodes that are walked later, while scopes are   *)
(* opened and closed, macros expanded, conditions and loops decided, pools *)
(* declared and modules imported.  The recursion of _code_gen is a stack   *)
(* of statements: a body is pushed in front of what follows it, with a     *)
(* "close" statement for the end of a scope and a "place" statement for    *)
(* the end of an alloc body.  A node's data, beyond its name and its size, *)
(* is one expression: a name plus a number.                                *)
(***************************************************************************)
EXTENDS Scopes, PoolOps, Bus

LOCAL INSTANCE SequencesExt
LOCAL INSTANCE FiniteSetsExt
LOCAL INSTANCE TLC

CONSTANTS Sources,    \* the programs: sequences of statements
          Modules     \* what .import finds under a name

VARIABLES source,     \* the program
          phase,      \* "codegen", then the phases of DirectMode
          todo,       \* the statements not generated yet
          macros,     \* macro_definitions
          imported,   \* resolver.imported_module_paths
          out,        \* the lists of nodes being built, the innermost first
          declared,   \* history: where each name was declared, for the properties
          resolver,   \* scopes, current scope, running address, pools, ...
          error       \* what stopped the assembly, "none" otherwise

genVars == <<source, phase, todo, macros, imported, out, declared, resolver, error>>

TheBus == LowRom

\* Resolver.__init__ with set_position(0).
StartAddress == Plus(TheBus, 0, 0)
NewResolver == [scopes |-> <<NewScope("root", "", 0)>>, cur |-> 1, here |-> StartAddress,
                pools |-> NoNames, slots |-> NoNames, shift |-> NoNames]

InitGen == /\ source \in Sources /\ todo = source
           /\ phase = "codegen" /\ error = "none"
           /\ macros = NoNames /\ imported = {} /\ out = << <<>> >>
           /\ declared = {} /\ resolver = NewResolver

-----------------------------------------------------------------------------
Item == Head(todo)
Scope == resolver.cur
Eval(expr) == Values(resolver.scopes, Scope, expr)

\* The number of a node that has an address or bytes: how many came before it.
Uid == Cardinality({d \in declared : d.uid > 0}) + 1

\* History: a name that stands for an address, a value, or an expression read
\* in scope `within`; a reference is a node with its expression.
NoExpr == [id |-> Number, add |-> 0]
Declares(id, uid) == [what |-> "place", scope |-> Scope, id |-> id, uid |-> uid,
                      value |-> 0, expr |-> NoExpr, within |-> Scope]
Defines(id, value) == [what |-> "value", scope |-> Scope, id |-> id, uid |-> 0,
                       value |-> value, expr |-> NoExpr, within |-> Scope]
Derives(scope, id, expr, within) == [what |-> "expr", scope |-> scope, id |-> id, uid |-> 0,
                                     value |-> 0, expr |-> expr, within |-> within]
\* A symbol of a linked module, `value` bytes into its code or absolute.
Brings(sym, base, uid) ==
    IF sym.code THEN [Declares(sym.id, uid) EXCEPT !.value = sym.addr - base]
    ELSE Defines(sym.id, sym.addr)
Refers(expr, uid) == [what |-> "bytes", scope |-> Scope, id |-> Number, uid |-> uid,
                      value |-> 0, expr |-> expr, within |-> Scope]

Push(nodes) == out' = <<Head(out) \o nodes>> \o Tail(out)
Continue(items) == todo' = items \o Tail(todo)

FailGen(reason) == /\ phase' = "failed" /\ error' = reason
                   /\ UNCHANGED <<source, todo, macros, imported, out, declared, resolver>>

Going == phase = "codegen" /\ todo # <<>>
Takes(kinds) == Going /\ Item.kind \in kinds

\* Statements that become one node and change nothing else.
GenPlain ==
    /\ Takes({"org", "at", "abs", "res"})
    /\ Push(<<Item>>) /\ Continue(<<>>)
    /\ declared' = IF Item.kind # "abs" THEN declared
                   ELSE declared \cup {Derives(Scope, Item.id, Item.expr, Scope)}
    /\ UNCHANGED <<source, phase, macros, imported, resolver, error>>

\* The symbol of a binary's size.
SizeId(id) == <<id[1], "__size">>

\* generate_label, _generate_data, generate_opcode and generate_incbin.
GenNumbered ==
    /\ Takes({"label", "data", "bin"})
    /\ Push(<<Item @@ [uid |-> Uid]>>) /\ Continue(<<>>)
    /\ declared' = declared \cup
           {IF Item.kind = "data" THEN Refers(Item.expr, Uid) ELSE Declares(Item.id, Uid)} \cup
           (IF Item.kind = "bin" THEN {Defines(SizeId(Item.id), Item.size)} ELSE {})
    /\ UNCHANGED <<source, phase, macros, imported, resolver, error>>

\* generate_include_ips: the delta is taken now.
GenIps ==
    /\ Takes({"ips"})
    /\ IF Eval(Item.expr) = {} THEN FailGen("undefined")
       ELSE /\ \E delta \in Eval(Item.expr) :
                  Push(<<[kind |-> "ips",
                          blocks |-> [j \in DOMAIN Item.blocks |->
                                        [Item.blocks[j] EXCEPT !.at = @ + delta]]]>>)
            /\ Continue(<<>>)
            /\ UNCHANGED <<source, phase, macros, imported, declared, resolver, error>>

SymbolNode(id, expr) == [kind |-> "symbol", id |-> id, expr |-> expr]

\* generate_symbol: bound at once when the right-hand side is known.
GenSymbol ==
    /\ Takes({"symbol"})
    /\ resolver' = IF Eval(Item.expr) = {} THEN resolver
                   ELSE [resolver EXCEPT !.scopes =
                           AddSymbol(@, Scope, Item.id, CHOOSE v \in Eval(Item.expr) : TRUE)]
    /\ Push(<<SymbolNode(Item.id, Item.expr)>>) /\ Continue(<<>>)
    /\ declared' = declared \cup {Derives(Scope, Item.id, Item.expr, Scope)}
    /\ UNCHANGED <<source, phase, macros, imported, error>>

\* generate_assign.
GenAssign ==
    /\ Takes({"assign"})
    /\ IF Eval(Item.expr) = {} THEN FailGen("undefined")
       ELSE \E v \in Eval(Item.expr) :
            /\ resolver' = [resolver EXCEPT !.scopes = AddSymbol(@, Scope, Item.id, v)]
            /\ declared' = declared \cup {Defines(Item.id, v)}
            /\ Continue(<<>>)
            /\ UNCHANGED <<source, phase, macros, imported, out, error>>

-----------------------------------------------------------------------------
Close(exports) == [kind |-> "close", exports |-> exports]

\* append_scope and use_next_scope.
Opened(kind, name) == [resolver EXCEPT !.scopes = Append(@, NewScope(kind, name, Scope)),
                                       !.cur = Len(resolver.scopes) + 1]
EnterNode == [kind |-> "enter", scope |-> Len(resolver.scopes) + 1]

\* Mutant: the scope is not closed.
OpenOnly(kind, name, body, exports) ==
    /\ resolver' = Opened(kind, name)
    /\ Push(<<EnterNode>>)
    /\ Continue(body)
    /\ UNCHANGED <<source, phase, macros, imported, declared, error>>

\* A scope around a body.
Open(kind, name, body, exports) ==
    /\ resolver' = Opened(kind, name)
    /\ Push(<<EnterNode>>)
    /\ Continue(body \o <<Close(exports)>>)
    /\ UNCHANGED <<source, phase, macros, imported, declared, error>>

\* generate_compound: a scope around the scope of generate_block.
GenBraces == Takes({"braces"}) /\ Open("anon", "", <<[kind |-> "block", body |-> Item.body]>>, FALSE)
GenBlock  == Takes({"block"}) /\ Open("anon", "", Item.body, FALSE)
GenScope  == Takes({"scope"}) /\ Open("named", Item.name, Item.body, TRUE)

\* PopScopeNode and restore_scope.
CloseScope ==
    /\ Takes({"close"})
    /\ Push(<<[kind |-> "pop", scope |-> Scope, exports |-> Item.exports]>>)
    /\ resolver' = [resolver EXCEPT !.scopes = Leave(@, Scope, Item.exports),
                                    !.cur = resolver.scopes[Scope].parent]
    /\ Continue(<<>>)
    /\ UNCHANGED <<source, phase, macros, imported, declared, error>>

\* generate_for, one turn at a time, to the bound that the first turn finds; the
\* variable is bound by a node.
GenFor ==
    /\ Takes({"for"})
    /\ IF Eval(Item.to) = {} THEN FailGen("undefined")
       ELSE IF \A to \in Eval(Item.to) : Item.from >= to
       THEN Continue(<<>>) /\ UNCHANGED <<source, phase, macros, imported, out, declared, resolver, error>>
       ELSE /\ resolver' = Opened("internal", "")
            /\ Push(<<EnterNode, SymbolNode(Item.id, [id |-> Number, add |-> Item.from])>>)
            /\ \E to \in Eval(Item.to) :
                  Continue(Item.body \o <<Close(FALSE), [Item EXCEPT !.from = @ + 1, !.to = [id |-> Number, add |-> to]]>>)
            /\ declared' = declared \cup
                   {Derives(Len(resolver.scopes) + 1, Item.id, [id |-> Number, add |-> Item.from], Scope)}
            /\ UNCHANGED <<source, phase, macros, imported, error>>

\* generate_if: a symbol that is not known yet counts as false.
IsTrue(expr) == \E v \in Eval(expr) : v # 0

GenIf ==
    /\ Takes({"if"})
    /\ Continue(IF IsTrue(Item.expr) THEN Item.then ELSE Item.else)
    /\ UNCHANGED <<source, phase, macros, imported, out, declared, resolver, error>>

\* generate_code_lookup.
GenSplice ==
    /\ Takes({"splice"})
    /\ IF BlocksFor(resolver.scopes, Scope, Item.id) = {} THEN FailGen("not a block")
       ELSE \E body \in BlocksFor(resolver.scopes, Scope, Item.id) :
            /\ Continue(body)
            /\ UNCHANGED <<source, phase, macros, imported, out, declared, resolver, error>>

GenMacro ==
    /\ Takes({"macro"})
    /\ macros' = (Item.name :> Item) @@ macros
    /\ Continue(<<>>)
    /\ UNCHANGED <<source, phase, imported, out, declared, resolver, error>>

\* One argument bound in scope s of acc, where the arguments before it are
\* bound already; a value that is not known yet is left to a node.
BindArgument(acc, s, param, arg) ==
    IF "block" \in DOMAIN arg
    THEN [acc EXCEPT !.scopes = AddBlock(@, s, <<param>>, arg.block)]
    ELSE IF Values(acc.scopes, s, arg) = {}
    THEN [acc EXCEPT !.nodes = Append(@, SymbolNode(<<param>>, arg))]
    ELSE [acc EXCEPT !.scopes = AddSymbol(@, s, <<param>>, CHOOSE v \in Values(acc.scopes, s, arg) : TRUE)]

\* generate_macro_application.
GenApply ==
    /\ Takes({"apply"})
    /\ IF Item.name \notin DOMAIN macros THEN FailGen("no macro")
       ELSE LET macro == macros[Item.name]
                opened == Opened("anon", "")
                s == opened.cur
                bound == FoldLeft(LAMBDA acc, j : BindArgument(acc, s, macro.params[j], Item.args[j]),
                                  [scopes |-> opened.scopes, nodes |-> <<EnterNode>>],
                                  [j \in DOMAIN Item.args |-> j])
            IN  IF Len(macro.params) # Len(Item.args) THEN FailGen("arguments")
                ELSE /\ resolver' = [opened EXCEPT !.scopes = bound.scopes]
                     /\ Push(bound.nodes)
                     /\ Continue(macro.body \o <<Close(FALSE)>>)
                     /\ declared' = declared \cup
                            {Derives(s, <<macro.params[j]>>, Item.args[j], Scope)
                             : j \in {j \in DOMAIN Item.args : "block" \notin DOMAIN Item.args[j]}}
                     /\ UNCHANGED <<source, phase, macros, imported, error>>

-----------------------------------------------------------------------------
NewPool(ranges, strategy, bss) ==
    [ranges |-> ranges, strategy |-> strategy, bss |-> bss, requests |-> <<>>, addr |-> <<>>]
Shape(pool) == <<pool.ranges, pool.strategy, pool.bss>>

\* _publish_pool_stats: capacity and fragments, as they are now.
PublishStats(scopes, name, pool) ==
    AddSymbol(AddSymbol(scopes, Scope, <<name, "capacity">>,
                        MapThenSumSet(Size, pool.ranges)),
              Scope, <<name, "fragments">>, Cardinality(pool.ranges))

GenPool ==
    /\ Takes({"pool"})
    /\ LET pool == NewPool(Normalize(Item.ranges), Item.strategy, Item.bss)
           known == Item.name \in DOMAIN resolver.pools
       IN  IF \/ ~Disjoint(Item.ranges) \/ \E r \in Item.ranges : ~ValidRange(r)
              \/ (known /\ Shape(resolver.pools[Item.name]) # Shape(pool))
           THEN FailGen("pool")
           ELSE /\ resolver' = IF known THEN resolver
                               ELSE [resolver EXCEPT !.pools = @ @@ (Item.name :> pool),
                                                     !.scopes = PublishStats(@, Item.name, pool)]
                /\ Continue(<<>>)
                /\ UNCHANGED <<source, phase, macros, imported, out, declared, error>>

GenReclaim ==
    /\ Takes({"reclaim"})
    /\ IF Item.pool \notin DOMAIN resolver.pools THEN FailGen("unknown pool")
       ELSE IF \/ ~ValidRange(Item.range)
               \/ \E r \in resolver.pools[Item.pool].ranges : Overlaps(r, Item.range)
       THEN FailGen("reclaim")
       ELSE /\ resolver' = [resolver EXCEPT !.pools[Item.pool].ranges = Normalize(@ \cup {Item.range})]
            /\ Continue(<<>>)
            /\ UNCHANGED <<source, phase, macros, imported, out, declared, error>>

RECURSIVE Statements(_)
\* ast.visitor.walk: what is written inside, not what macros and imports bring.
Statements(items) ==
    UNION {{items[j]} \cup
           (IF items[j].kind = "if" THEN Statements(items[j].then) \cup Statements(items[j].else)
            ELSE IF "body" \in DOMAIN items[j] THEN Statements(items[j].body) ELSE {})
           : j \in DOMAIN items}

\* _reject_nested_placement.
Nests(body) == \E t \in Statements(body) : t.kind \in {"alloc", "pinned", "relocate", "org"}

\* generate_alloc once the pool is known: a scope of its own around the body.
StartAlloc(r, id, pool, rank, pin, body) ==
    /\ resolver' = [r EXCEPT !.scopes = Append(@, NewScope("alloc", "", Scope)),
                             !.cur = Len(resolver.scopes) + 1]
    /\ out' = << <<EnterNode>> >> \o out
    /\ Continue(body \o <<Close(TRUE), [kind |-> "place", id |-> id, pool |-> pool, rank |-> rank,
                                     pin |-> pin, reclaims |-> {}]>>)
    /\ UNCHANGED <<source, phase, macros, imported, declared, error>>

GenAlloc ==
    /\ Takes({"alloc"})
    /\ IF Item.pool \notin DOMAIN resolver.pools \/ Nests(Item.body) THEN FailGen("alloc")
       ELSE StartAlloc(resolver, Item.id, Item.pool, Item.rank, Item.pin, Item.body)

\* `.alloc at`: _synthesize_pinned_pool makes the pool, from the address on.
GenPinned ==
    /\ Takes({"pinned"})
    /\ LET pool == NewPool({[lo |-> Item.to, hi |-> 16777215, cross |-> TRUE]}, "pack", FALSE)
       IN  IF Nests(Item.body) THEN FailGen("alloc")
           ELSE StartAlloc([resolver EXCEPT !.pools = @ @@ (Item.pool :> pool)],
                           Item.id, Item.pool, Item.rank, Floating, Item.body)

\* generate_reserve_typed: a label per field, the gaps reserved.
Fields(item) ==
    LET At(j) == item.fields[j].offset
        Upto(j) == IF j > Len(item.fields) THEN item.size ELSE At(j)
        Gap(from, to) == IF to > from THEN <<[kind |-> "res", size |-> to - from]>> ELSE <<>>
    IN  Gap(0, Upto(1)) \o
        FoldLeft(LAMBDA body, j :
                   body \o <<[kind |-> "label", id |-> item.id \o item.fields[j].id]>>
                        \o Gap(At(j), Upto(j + 1)),
                 <<>>, [j \in DOMAIN item.fields |-> j])

GenReserve ==
    /\ Takes({"reserve"})
    /\ IF Item.pool \notin DOMAIN resolver.pools THEN FailGen("alloc")
       ELSE StartAlloc(resolver, Item.id, Item.pool, Item.rank, Floating, Fields(Item))

\* generate_relocate: the body stays in the current scope.
GenRelocate ==
    /\ Takes({"relocate"})
    /\ IF Item.pool \notin DOMAIN resolver.pools THEN FailGen("unknown pool")
       ELSE /\ out' = << <<>> >> \o out
            /\ Continue(Item.body \o <<[kind |-> "place", id |-> Item.id, pool |-> Item.pool,
                                     rank |-> Item.rank, pin |-> Floating,
                                     reclaims |-> {Item.range}]>>)
            /\ UNCHANGED <<source, phase, macros, imported, declared, resolver, error>>

\* The AllocNode, made of the nodes of its body.
PlaceBody ==
    /\ Takes({"place"})
    /\ out' = <<Append(out[2], [kind |-> "alloc", id |-> Item.id, pool |-> Item.pool,
                                rank |-> Item.rank, pin |-> Item.pin, uid |-> Uid,
                                reclaims |-> Item.reclaims, body |-> Head(out)])>>
              \o Tail(Tail(out))
    /\ declared' = declared \cup {Declares(Item.id, Uid)}
    /\ Continue(<<>>)
    /\ UNCHANGED <<source, phase, macros, imported, resolver, error>>

\* generate_include.
GenInclude == /\ Takes({"include"})
              /\ Continue(Item.body)
              /\ UNCHANGED <<source, phase, macros, imported, out, declared, resolver, error>>

\* Where the first section of an object file was compiled to be.
CodeBase(m) == IF m.sections = <<>> THEN 0 ELSE m.sections[1].base

\* generate_import: an object becomes a node, whatever was imported before;
\* the source of a module is inlined the first time.
GenImport ==
    /\ Takes({"import"})
    /\ IF Item.name \notin DOMAIN Modules THEN FailGen("no module")
       ELSE IF Modules[Item.name].form = "object"
       THEN /\ Push(<<[kind |-> "module", name |-> Item.name, uid |-> Uid]>>)
            /\ declared' = declared \cup {Declares(Number, Uid)} \cup
                   {Brings(sym, CodeBase(Modules[Item.name]), Uid)
                    : sym \in {x \in ToSet(Modules[Item.name].symbols) : ~x.local}}
            /\ Continue(<<>>)
            /\ UNCHANGED <<source, phase, macros, imported, resolver, error>>
       ELSE /\ Continue(IF Item.name \in imported THEN <<>> ELSE Modules[Item.name].body)
            /\ imported' = imported \cup {Item.name}
            /\ UNCHANGED <<source, phase, macros, out, declared, resolver, error>>

GenNext == \/ GenPlain \/ GenNumbered \/ GenIps \/ GenSymbol \/ GenAssign
           \/ GenBraces \/ GenBlock \/ GenScope \/ CloseScope
           \/ GenFor \/ GenIf \/ GenSplice \/ GenMacro \/ GenApply
           \/ GenPool \/ GenReclaim \/ GenAlloc \/ GenPinned \/ GenReserve \/ GenRelocate
           \/ PlaceBody \/ GenInclude \/ GenImport
=============================================================================
