---------------------------- MODULE ObjectWriter ----------------------------
(***************************************************************************)
(* The object file one module compiles to, and the ObjectWriter            *)
(* (src/a816/writers.py) that collects it while the module is emitted.     *)
(* Code is a byte count: what the properties need of the bytes is where    *)
(* they lie, which `lines` (the debug lines: section offset and the source *)
(* position that emitted there) and `relocs` record.                       *)
(***************************************************************************)
EXTENDS Integers, Sequences, Folding

\* A symbol name.  `scope` is 0 for a name as the source spells it and k for
\* a private label of the module's k-th .alloc body, exported as
\* __sc<k>__<name>.
Plain(id) == [scope |-> 0, id |-> id]
Mangled(k, id) == [scope |-> k, id |-> id]

NewSection(base, bss) ==
    [base |-> base, bss |-> bss, code |-> 0, lines |-> {}, relocs |-> {}]

\* ObjectWriter.begin().  `open` says that _current_section is the last
\* section, `base` and `bss` are _pending_base_address and _pending_bss, and
\* `block` is the length of the driver's current_block, emitted but not yet
\* written.
EmptyWriter ==
    [sections |-> <<>>, open |-> FALSE, base |-> 0, bss |-> FALSE,
     block |-> 0, explicit |-> FALSE,
     symbols |-> {}, aliases |-> <<>>, decls |-> <<>>, allocs |-> <<>>]

Current(w) == w.sections[Len(w.sections)]

\* The sections before the last.
Earlier(w) == SubSeq(w.sections, 1, Len(w.sections) - 1)

\* The bytes of some sections.
CodeOf(sections) == Fold(LAMBDA sum, s : sum + s.code, 0, sections)

\* _ensure_section: the section comes to exist when something goes into it.
EnsureSection(w) ==
    IF w.open THEN w
    ELSE [w EXCEPT !.sections = Append(@, NewSection(w.base, w.bss)),
                   !.open = TRUE]

\* Mutant: a byte-less section is dropped with the empty ones.
DropEvenBss(w) ==
    IF w.open /\ Current(w).code = 0 THEN [w EXCEPT !.sections = Earlier(w)] ELSE w

\* start_section drops the open section if nothing was written to it.
DropEmpty(w) ==
    IF w.open /\ Current(w).code = 0 /\ ~Current(w).bss
    THEN [w EXCEPT !.sections = Earlier(w)] ELSE w

\* start_section: later bytes go to a new section at `base`, which exists at
\* once only if it may stay without bytes.
StartSection(w, base, explicit, bss) ==
    LET closed == [DropEmpty(w) EXCEPT !.open = FALSE, !.base = base, !.bss = bss,
                                       !.explicit = @ \/ explicit]
    IN  IF bss THEN EnsureSection(closed) ELSE closed

\* write_block.
WriteBlock(w, n) ==
    LET e == EnsureSection(w)
    IN  [e EXCEPT !.sections[Len(e.sections)].code = @ + n]

\* _flush_object_block.
Flush(w) == IF w.block = 0 THEN w ELSE [WriteBlock(w, w.block) EXCEPT !.block = 0]

\* relocation_offset: bytes written to the section plus bytes pending.
Offset(w) == (IF w.open THEN Current(w).code ELSE 0) + w.block

\* One node emits n > 0 bytes: a relocation against each name in `targets`
\* at the node's first byte (add_expression_relocation), the debug line
\* (add_line), and the bytes into the pending block (mark_emitted).
EmitNode(w, n, at, targets) ==
    LET e == EnsureSection(w)
        current == [Current(e) EXCEPT
                       !.relocs = @ \cup {[off |-> Offset(w), target |-> t] : t \in targets},
                       !.lines = @ \cup {[off |-> Offset(w), at |-> at]}]
    IN  [e EXCEPT !.sections[Len(e.sections)] = current, !.block = @ + n]

\* end(): the object file, without a trailing section that stayed empty.
ObjectOf(w) ==
    LET n == Len(w.sections)
        empty == n > 0 /\ Current(w).code = 0 /\ ~Current(w).bss
    IN  [sections |-> IF empty THEN Earlier(w) ELSE w.sections,
         relocatable |-> ~w.explicit,
         symbols |-> w.symbols, aliases |-> w.aliases,
         decls |-> w.decls, allocs |-> w.allocs]

=============================================================================
