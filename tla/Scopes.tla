-------------------------------- MODULE Scopes -------------------------------
(***************************************************************************)
(* The symbol scopes of src/a816/symbols.py as a sequence of records, the  *)
(* root first.  A dotted name is the sequence of its parts, so that the    *)
(* NamedScope N publishes its name x as <<N>> \o x.                        *)
(***************************************************************************)
EXTENDS Integers, Sequences

LOCAL INSTANCE TLC

CONSTANT PrivateIds   \* the identifiers that start with one underscore

NoNames == [x \in {} |-> 0]

\* A new Scope, AllocBodyScope ("alloc"), InternalScope or NamedScope.
NewScope(kind, name, parent) ==
    [kind |-> kind, name |-> name, parent |-> parent,
     symbols |-> NoNames, labels |-> NoNames, blocks |-> NoNames]

\* Scope.add_symbol, for an int and for a block; Scope.add_label.
AddSymbol(scopes, s, id, value) == [scopes EXCEPT ![s].symbols = (id :> value) @@ @]
AddBlock(scopes, s, id, body)   == [scopes EXCEPT ![s].blocks  = (id :> body) @@ @]
AddLabel(scopes, s, id, addr)   ==
    [scopes EXCEPT ![s].labels = (id :> addr) @@ @, ![s].symbols = (id :> addr) @@ @]

\* _is_exportable.
Exportable(id) == id[1] \notin PrivateIds

Only(names, f) == [id \in {x \in DOMAIN f : x \in names} |-> f[id]]
Exported(f) == Only({id \in DOMAIN f : Exportable(id)}, f)

\* _bubble_anon_exportables and _bubble_anon_into_named: what the parent has
\* already is kept.
Bubble(scopes, s, parent) ==
    [scopes EXCEPT ![parent].labels = @ @@ Exported(scopes[s].labels),
                   ![parent].symbols = @ @@ Exported(scopes[s].symbols)]

Dotted(name, f) == [id \in {<<name>> \o x : x \in DOMAIN f} |-> f[Tail(id)]]

\* _publish_named_dotted: the new value wins.
Publish(scopes, s, parent) ==
    [scopes EXCEPT ![parent].labels = Dotted(scopes[s].name, Exported(scopes[s].labels)) @@ @,
                   ![parent].symbols = Dotted(scopes[s].name, Exported(scopes[s].symbols)) @@ @]

\* Resolver.restore_scope and PopScopeNode._apply.
Leave(scopes, s, exports) ==
    LET parent == scopes[s].parent
    IN  IF scopes[s].kind # "named"
        THEN IF scopes[parent].kind = "named" \/ exports THEN Bubble(scopes, s, parent) ELSE scopes
        ELSE IF exports THEN Publish(scopes, s, parent) ELSE scopes

\* Mutant: the root is asked before the scopes in between.
OwnerRootFirst(scopes, s, id) ==
    LET Has(k) == id \in DOMAIN scopes[k].symbols \cup DOMAIN scopes[k].blocks
        up[k \in DOMAIN scopes] ==
            IF Has(k) \/ scopes[k].parent = 0 THEN k ELSE up[scopes[k].parent]
    IN  IF Has(1) THEN 1 ELSE up[s]

\* Scope.value_for: the scope that answers for a name, the root if none has it.
Owner(scopes, s, id) ==
    LET Has(k) == id \in DOMAIN scopes[k].symbols \cup DOMAIN scopes[k].blocks
        up[k \in DOMAIN scopes] ==
            IF Has(k) \/ scopes[k].parent = 0 THEN k ELSE up[scopes[k].parent]
    IN  up[s]

\* Scope.__getitem__ asks the blocks first; a name nobody has raises
\* SymbolNotDefined, for which there is no value.
BlocksFor(scopes, s, id) ==
    LET o == scopes[Owner(scopes, s, id)]
    IN  IF id \in DOMAIN o.blocks THEN {o.blocks[id]} ELSE {}

ValuesFor(scopes, s, id) ==
    LET o == scopes[Owner(scopes, s, id)]
    IN  IF id \in DOMAIN o.symbols \ DOMAIN o.blocks THEN {o.symbols[id]} ELSE {}

\* eval_expression of a number, or of a name plus a number.
Number == <<>>
Values(scopes, s, expr) ==
    IF expr.id = Number THEN {expr.add}
    ELSE {v + expr.add : v \in ValuesFor(scopes, s, expr.id)}
=============================================================================
