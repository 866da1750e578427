--------------------------- MODULE LinkProperties ---------------------------
(***************************************************************************)
(* What makes the tool chain of ObjectCompile and Linker correct: symbols  *)
(* and references end up where the bytes they stand for end up.  Where the *)
(* bytes are is read off the debug lines, which record the source position *)
(* of every emitted node and know nothing of symbols.                      *)
(***************************************************************************)
EXTENDS Linker

LOCAL INSTANCE SequencesExt

\* One type invariant, for the fields the phases hand to each other.
TypeOK ==
    /\ source \in Programs
    /\ phase \in Walks \cup {"merge", "request", "allocate", "ingest", "aliases", "check",
                             "relocate", "linked", "failed"}
    /\ i \in Nat \ {0} /\ here \in Nat /\ offset \in Nat
    /\ \A x \in DOMAIN labels : labels[x] \in Nat
    /\ Len(objects) <= Len(source) /\ Len(locals) <= Len(objects)
    /\ \A s \in DOMAIN linked : linked[s].base \in Nat /\ linked[s].obj \in DOMAIN objects
    /\ (phase = "failed") = (error # "none")

Linked == phase = "linked"

-----------------------------------------------------------------------------
\* The labels of module o and the emitting node each one stands before: a
\* label of the root, an alloc (its body's start), a label of a body.  Node n
\* is the first one to emit from position k on, with only labels in between.
Starts(nodes, k, n) ==
    /\ n \in DOMAIN nodes /\ n >= k /\ nodes[n].kind = "bytes"
    /\ \A x \in k .. n - 1 : nodes[x].kind = "label"

LabelsIn(nodes) == {k \in DOMAIN nodes : nodes[k].kind = "label"}

AllocNodes(o) == {j \in DOMAIN source[o] : IsAlloc(source[o][j])}

RootLabels(o) ==
    {[name |-> Plain(source[o][p[1]].id), at |-> <<p[2], 0>>]
        : p \in {q \in LabelsIn(source[o]) \X DOMAIN source[o] : Starts(source[o], q[1] + 1, q[2])}}

BodyStarts(o) ==
    UNION {{[name |-> Plain(source[o][j].id), at |-> <<j, n>>]
               : n \in {k \in DOMAIN source[o][j].body : Starts(source[o][j].body, 1, k)}}
           : j \in AllocNodes(o)}

InBodies(o) ==
    UNION {LET body == source[o][j].body
           IN  {[name |-> BodyName(o, j, body[p[1]].id), at |-> <<j, p[2]>>]
                   : p \in {q \in LabelsIn(body) \X DOMAIN body : Starts(body, q[1] + 1, q[2])}}
           : j \in AllocNodes(o)}

Definitions(o) == RootLabels(o) \cup BodyStarts(o) \cup InBodies(o)

\* Where the bytes of source position `at` of module o were put.
LineAddresses(o, at) ==
    UNION {{linked[s].base + l.off : l \in {k \in linked[s].lines : k.at = at}}
           : s \in {t \in DOMAIN linked : linked[t].obj = o}}

SymbolValue(o, name) == IF name \in DOMAIN locals[o] THEN locals[o][name] ELSE symbolMap[name]

\* Every label of every module has, in the linked symbol table, the address
\* of the bytes it stands before, wherever the linker moved them.  A byte-less
\* reservation emits no debug line: its labels keep their offset in the slot
\* the allocator gave the reservation.
SymbolsFollowTheirBytes ==
    Linked => \A o \in DOMAIN objects :
        /\ \A d \in Definitions(o) : \A a \in LineAddresses(o, d.at) : SymbolValue(o, d.name) = a
        /\ \A k \in DOMAIN objects[o].allocs :
              LET a == objects[o].allocs[k]
                  j == CHOOSE j \in AllocNodes(o) : Plain(source[o][j].id) = a.name
                  body == source[o][j].body
              IN  objects[o].sections[a.section].code = 0 =>
                      /\ SymbolValue(o, a.name) = Slot(o, a.section).addr
                      /\ \A n \in DOMAIN body : body[n].kind = "label" =>
                            SymbolValue(o, BodyName(o, j, body[n].id))
                                = Slot(o, a.section).addr + SizeOf(SubSeq(body, 1, n - 1))

\* What a name written in module o may stand for: what o defines, else what
\* another module exports under it.
Defined(o, x) ==
    UNION {LineAddresses(o, d.at) : d \in {e \in Definitions(o) : e.name = x}}
    \cup {source[o][k].to : k \in {j \in DOMAIN source[o] :
                                     source[o][j].kind = "abs" /\ Plain(source[o][j].id) = x}}

Meaning(o, x) ==
    IF Defined(o, x) # {} THEN Defined(o, x)
    ELSE UNION {Defined(n, x) : n \in DOMAIN objects}

\* A name some module folds to an alias, or reserves without bytes, has no
\* line of its own.
Lineless(x) ==
    \E o \in DOMAIN objects :
        \/ \E a \in Range(objects[o].aliases) : Plain(a.id) = x
        \/ \E a \in Range(objects[o].allocs) :
              objects[o].sections[a.section].code = 0 /\ a.name = x

\* Every reference is patched with the address of the bytes its name stands
\* for where it is written: a private name reaches its own module's label.
\* An alias stands for its target's bytes.  (Private targets are left out:
\* the flat map keeps the first module's.)
NamesReachTheirTarget ==
    Linked =>
        /\ \A v \in values :
              Lineless(v.target) \/ v.value \in Meaning(linked[v.section].obj, v.target)
        /\ \A o \in DOMAIN objects : \A a \in Range(objects[o].aliases) :
              \/ a.target \in PrivateIds \/ Lineless(Plain(a.target))
              \/ symbolMap[Plain(a.id)] \in Meaning(o, Plain(a.target))

-----------------------------------------------------------------------------
BytesOf(s) == linked[s].base .. linked[s].base + linked[s].code - 1

PooledSections == {s \in DOMAIN linked : Pooled(linked[s].obj, linked[s].index)}

SlotOf(s) == slots[<<linked[s].obj, linked[s].index>>]

\* Address x lies in a range some module declares for the pool.
Declared(name, x) ==
    \E o \in DOMAIN objects : \E k \in DOMAIN objects[o].decls :
        /\ objects[o].decls[k].name = name
        /\ \E r \in objects[o].decls[k].ranges : r.lo <= x /\ x <= r.hi

\* Different requests of one pool never share a byte of the image, whatever
\* modules made them.
BodiesApart ==
    Linked => \A s, t \in PooledSections :
        SlotOf(s).pool = SlotOf(t).pool /\ SlotOf(s).req # SlotOf(t).req =>
            BytesOf(s) \cap BytesOf(t) = {}

\* Two modules that ask one pool for a slot under one name ask for the same
\* room: what modules that import one alloc do, and what the linker does not
\* look at (link_private).
SizesAgree ==
    \A program \in Programs : \A o, n \in DOMAIN program :
        \A j \in DOMAIN program[o], k \in DOMAIN program[n] :
            LET x == program[o][j]
                y == program[n][k]
            IN  IsAlloc(x) /\ IsAlloc(y) /\ x.pool = y.pool /\ x.id = y.id =>
                    SlotSize(x) = SlotSize(y)

\* Nor do they leave the ranges the modules declared for their pool; and the
\* bodies two modules carry of one imported alloc end up at one address, so
\* every importer sees the same symbol.
PooledBodiesPlaced ==
    Linked =>
        /\ BodiesApart
        /\ \A o, n \in DOMAIN objects :
              \A j \in DOMAIN objects[o].allocs, k \in DOMAIN objects[n].allocs :
                  LET a == objects[o].allocs[j]
                      b == objects[n].allocs[k]
                  IN  a.pool = b.pool /\ a.name = b.name =>
                          Slot(o, a.section).addr = Slot(n, b.section).addr
        /\ \A s \in PooledSections : \A a \in BytesOf(s) :
              Declared(merged[SlotOf(s).pool].name, a)

\* Relocatable modules are laid end to end: their bytes never meet.
RelocatableModulesApart ==
    Linked => \A s, t \in DOMAIN linked :
        /\ s # t
        /\ objects[linked[s].obj].relocatable
        /\ objects[linked[t].obj].relocatable
        => BytesOf(s) \cap BytesOf(t) = {}

\* The bytes a node emits, and those of a module.
Emitted(n) ==
    IF IsAlloc(n)
    THEN Fold(LAMBDA sum, x : sum + (IF x.kind = "bytes" THEN x.size ELSE 0), 0, n.body)
    ELSE IF n.kind \in {"bytes", "ips"} THEN n.size ELSE 0

EmittedBy(nodes) == Fold(LAMBDA sum, n : sum + Emitted(n), 0, nodes)

\* An object file has its bytes in the right sections, although blocks are
\* flushed late and sections dropped for being empty: every byte the module
\* emits is there once, and each pool request names the section its body is
\* in, one each.
SectionsKeepTheirBytes ==
    \A o \in DOMAIN objects :
        LET allocs   == objects[o].allocs
            sections == objects[o].sections
        IN  /\ CodeOf(sections) = EmittedBy(source[o])
            /\ \A k \in DOMAIN allocs :
                  LET a == allocs[k]
                  IN  /\ a.section \in DOMAIN sections
                      /\ \A l \in sections[a.section].lines : Plain(source[o][l.at[1]].id) = a.name
                      /\ sections[a.section].code <= a.size
                      /\ \A n \in DOMAIN allocs : n # k => allocs[n].section # a.section

-----------------------------------------------------------------------------
\* A build ends: linked, or stopped by an error.
Terminates == <>(phase \in {"linked", "failed"})
=============================================================================
