--------------------------- MODULE DirectProperties --------------------------
(***************************************************************************)
(* What direct assembly promises: a name means what is written around it,  *)
(* a label is the address its bytes have, and every byte is written once,  *)
(* where it belongs.                                                       *)
(***************************************************************************)
EXTENDS DirectMode

LOCAL INSTANCE SequencesExt
LOCAL INSTANCE FiniteSetsExt

Done == phase = "done"

\* Code generation leaves the scopes as it found them, a tree with the root
\* first, and every node in one list: what append_*_scope and restore_scope
\* keep in step with ScopeNode and PopScopeNode.
TypeOK ==
    /\ \A s \in DOMAIN resolver.scopes : resolver.scopes[s].parent \in 0 .. s - 1
    /\ resolver.cur \in DOMAIN resolver.scopes
    /\ todo = <<>> => Len(out) = 1 /\ (k \in {1, Len(Nodes) + 1} => resolver.cur = 1)
    /\ phase \in {"codegen", "first", "second", "emit", "done", "failed"}
    /\ (phase = "failed") = (error # "none")
    /\ resolver.here \in Nat /\ emitter.offset \in Nat

-----------------------------------------------------------------------------
(* The reference for names: what a reader of the source takes them for. *)

Children(a) == {c \in DOMAIN resolver.scopes : resolver.scopes[c].parent = a}

RECURSIVE Visible(_, _)
\* The declarations that scope a knows as id: its own, the public ones of an
\* alloc body in it, those of a scope N in it as N.x, and in a named scope
\* the public ones of the scopes in it.
Visible(a, id) ==
    {d \in declared : d.what # "bytes" /\ d.scope = a /\ d.id = id}
    \cup UNION {
      IF resolver.scopes[c].kind = "named"
      THEN IF Len(id) > 1 /\ Head(id) = resolver.scopes[c].name /\ Exportable(Tail(id))
           THEN Visible(c, Tail(id)) ELSE {}
      ELSE IF /\ id # Number /\ Exportable(id)
              /\ resolver.scopes[c].kind = "alloc" \/ resolver.scopes[a].kind = "named"
           THEN Visible(c, id) ELSE {}
      : c \in Children(a)}

\* The nearest enclosing scope that knows the name.
Lexical(s, id) ==
    LET up[a \in DOMAIN resolver.scopes] ==
            IF Visible(a, id) # {} \/ resolver.scopes[a].parent = 0 THEN Visible(a, id)
            ELSE up[resolver.scopes[a].parent]
    IN  up[s]

\* The modules that are imported again later, and the import that counts.
Losers == {n \in AllNodes(Nodes) : n.kind = "module" /\ Loses(n)}
CountsFor(uid) ==
    UNION {IF n.uid # uid THEN {}
           ELSE {m.uid : m \in {x \in AllNodes(Nodes) : x.kind = "module" /\ x.name = n.name /\ ~Loses(x)}}
           : n \in Losers}
Canonical(uid) == IF CountsFor(uid) = {} THEN uid ELSE First(CountsFor(uid))

RECURSIVE Meaning(_)
\* The values a declaration may stand for, once everything has its address.
Meaning(d) ==
    CASE d.what = "place" -> IF Canonical(d.uid) \in DOMAIN emitter.marks
                             THEN {Plus(TheBus, emitter.marks[Canonical(d.uid)], d.value)} ELSE {}
      [] d.what = "value" -> {d.value}
      [] d.what = "expr" ->
            IF d.expr.id = Number THEN {d.expr.add}
            ELSE {v + d.expr.add : v \in UNION {Meaning(x) : x \in Lexical(d.within, d.expr.id)}}

RECURSIVE Places(_)
\* The addresses a declaration rests on.
Places(d) == IF d.what = "expr" /\ d.expr.id # Number
             THEN UNION {Places(x) : x \in Lexical(d.within, d.expr.id)} ELSE {d}

-----------------------------------------------------------------------------
RECURSIVE Above(_)
Above(s) == IF s = 0 THEN {} ELSE {s} \cup Above(resolver.scopes[s].parent)

Allocs == {n \in AllNodes(Nodes) : n.kind = "alloc"}

\* Scopes of alloc bodies that the allocator did not leave at the start of
\* their pool, where they were measured.
MovedBodies ==
    {s \in DOMAIN resolver.scopes :
        \E n \in Allocs : /\ n.body # <<>> /\ n.body[1] = [kind |-> "enter", scope |-> s]
                          /\ n.uid \in DOMAIN resolver.slots
                          /\ PlacedAt(resolver, n) # SandboxOf(resolver, n.pool)}

Reached(d) == UNION {Places(x) : x \in Lexical(d.within, d.expr.id)}

\* The reference at d is to a label in a moved body it is not itself part of.
ReachesIntoMoved(d) == \E p \in Reached(d) : (MovedBodies \cap Above(p.scope)) \ Above(d.within) # {}

\* The reference at d is to a symbol of a module that its scope imports, but
\* that another scope imports later.
ReachesLoser(d) ==
    \E p \in Reached(d) :
        /\ Canonical(p.uid) # p.uid
        /\ ~\E q \in declared : q.scope = p.scope /\ q.id = p.id /\ q.uid = Canonical(p.uid)

ValuesWritten(uid) ==
    {c[3] : c \in {x \in UNION {ToSet(w.cells) : w \in ToSet(emitter.writes)} : x[1] = uid}}

References == {d \in declared : d.what = "bytes" /\ d.expr.id # Number}

\* A name in an operand or in data stands for the declaration that is nearest
\* in the text (Scope.value_for, the bubbling of restore_scope and of
\* PopScopeNode, macro arguments, .for variables).  Left out are references
\* from outside into a body that moved, and from the scope of an import that
\* is repeated in another: see ReferencesLexical.
ReferencesReach ==
    Done => \A d \in References :
        \/ ReachesIntoMoved(d) \/ ReachesLoser(d)
        \/ ValuesWritten(d.uid) \subseteq
              {v + d.expr.add : v \in UNION {Meaning(x) : x \in Lexical(d.within, d.expr.id)}}

\* The same without exception, which is what the comment in generate_alloc
\* says of public body labels, and _mark_import_winners of repeated imports.
ReferencesLexical ==
    Done => \A d \in References :
        ValuesWritten(d.uid) \subseteq
            {v + d.expr.add : v \in UNION {Meaning(x) : x \in Lexical(d.within, d.expr.id)}}

\* A label ends up, in its own scope, at the address its bytes are emitted
\* at, although it is bound in the passes: the first one at the top, the
\* one after the allocator in a body, neither of which emits anything.
LabelsWhereEmitted ==
    Done => \A d \in {x \in declared : x.what = "place" /\ x.id # Number /\ x.uid \in DOMAIN emitter.marks} :
        \E x \in declared : /\ x.scope = d.scope /\ x.id = d.id /\ x.uid \in DOMAIN emitter.marks
                            /\ resolver.scopes[d.scope].labels[d.id]
                                  = Plus(TheBus, emitter.marks[x.uid], x.value)

-----------------------------------------------------------------------------
\* The bytes of the program: a data node's and a binary's, and those of the
\* last .import of a module.
Expected ==
    UNION {{<<n.uid, j>> : j \in 1 .. n.size} : n \in {x \in AllNodes(Nodes) : x.kind \in {"data", "bin"}}}
    \cup UNION {UNION {{<<n.uid, sec.base - CodeBase(Modules[n.name]) + j>> : j \in DOMAIN sec.code}
                       : sec \in ToSet(Modules[n.name].sections)}
                : n \in {x \in AllNodes(Nodes) : x.kind = "module" /\ ~Loses(x)}}

\* Where byte <<uid, j>> was written.
WrittenAt(byte) ==
    UNION {{w.at + j - 1 : j \in {i \in DOMAIN w.cells : <<w.cells[i][1], w.cells[i][2]>> = byte}}
           : w \in ToSet(emitter.writes)}

\* No @= is in force at the top-level node.
Unrelocated(uid) ==
    \A j \in DOMAIN Nodes : Nodes[j].kind = "at" =>
        \A i \in j + 1 .. Len(Nodes) :
            ("uid" \in DOMAIN Nodes[i] /\ Nodes[i].uid = uid) => \E o \in j .. i : Nodes[o].kind = "org"

WrittenCells == FoldLeft(LAMBDA sum, w : sum + Len(w.cells), 0, emitter.writes)
PatchSize(n) == IF n.kind = "ips" THEN FoldLeft(LAMBDA sum, b : sum + b.size, 0, n.blocks) ELSE 0
PatchCells == FoldLeft(LAMBDA sum, n : sum + PatchSize(n), 0, Nodes)

\* Every byte of the program is in the output exactly once, at the file
\* offset of the address it was assembled for, across *=, alloc bodies and
\* duplicate imports, and nothing else is (_flush_pending, _emit_alloc,
\* _emit_linked_module, _mark_import_winners); no two writes share a byte.
BytesOnceInPlace ==
    Done => /\ WrittenCells = Cardinality(Expected) + PatchCells
            /\ \A b \in Expected :
                  /\ Cardinality(WrittenAt(b)) = 1
                  /\ b[1] \in DOMAIN emitter.marks /\ Unrelocated(b[1]) =>
                        WrittenAt(b) = {FileOffset(Plus(TheBus, emitter.marks[b[1]], b[2] - 1))}
            /\ WrittenCells =
                  Cardinality(UNION {w.at .. w.at + Len(w.cells) - 1 : w \in ToSet(emitter.writes)})

\* A relocatable module is where its .import stands: the emission comes to it
\* at the address the passes bound its symbols for
\* (LinkedModuleNode._compute_delta_and_base, the second pass of
\* resolve_labels).
ModulesAtImport ==
    (InEmit /\ Node.kind = "module") =>
        LET m == Modules[Node.name]
        IN  m.relocatable /\ m.sections # <<>> /\ ~Loses(Node) =>
                CodeBase(m) + resolver.shift[Node.uid] = resolver.here
=============================================================================
