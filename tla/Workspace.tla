------------------------------ MODULE Workspace ------------------------------
(***************************************************************************)
(* The text of documents and the workspace index of the language server:   *)
(* A816Document (src/a816/lsp/document.py) and WorkspaceIndex               *)
(* (src/a816/lsp/workspace.py) as operators on records.                     *)
(*                                                                          *)
(* A text is a set of items <<kind, name>>: a label it defines, a pool it   *)
(* declares, a pool an alloc of it uses, a file it imports, or something    *)
(* the parser or the linter complains about.  Positions are left out.      *)
(***************************************************************************)
EXTENDS Naturals, FiniteSets, Bags, Functions

Named(kind, text) == {item[2] : item \in {i \in text : i[1] = kind}}
Labels(text) == Named("label", text)
Pools(text) == Named("pool", text)
Uses(text) == Named("use", text)
Imports(text) == Named("import", text)
Issues(text) == Named("issue", text)

NoFunction == [x \in {} |-> x]
Without(f, S) == Restrict(f, DOMAIN f \ S)
With(f, S, value) == [x \in DOMAIN f \cup S |-> IF x \in S THEN value ELSE f[x]]

-----------------------------------------------------------------------------
(* A document and the steps of its analysis.                                *)

\* A816Document.__init__ before analyze().
NewDocument(u, text) ==
    [uri |-> u, text |-> text, ast |-> {}, labels |-> {}, pools |-> {},
     uses |-> EmptyBag, diagnostics |-> EmptyBag]

\* Mutant: diagnostics are not cleared.
KeepDiagnostics(doc, text) == [NewDocument(doc.uri, text) EXCEPT !.diagnostics = doc.diagnostics]

\* update_content before analyze(): everything is cleared.
SetText(doc, text) == NewDocument(doc.uri, text)

\* analyze() in its three parts, each of which adds to what is there: a set of
\* names swallows what it has already, a list of uses or diagnostics does not.
Parsed(doc) == [doc EXCEPT !.ast = doc.text]
Extracted(doc) ==
    [doc EXCEPT !.labels = @ \cup Labels(doc.ast), !.pools = @ \cup Pools(doc.ast),
                !.uses = @ (+) SetToBag(Uses(doc.ast))]
Linted(doc) == [doc EXCEPT !.diagnostics = @ (+) SetToBag(Issues(doc.text))]

Analyzed(u, text) == Linted(Extracted(Parsed(NewDocument(u, text))))

-----------------------------------------------------------------------------
(* The index: documents stands for the keys of self.documents, owner for    *)
(* labels, recorded for doc_labels.                                         *)

EmptyIndex == [documents |-> {}, owner |-> NoFunction, recorded |-> NoFunction, pools |-> {}]

\* Mutant: the names of the previous text stay.
KeepPrevious(index, u) == [index EXCEPT !.recorded = Without(@, {u})]

\* _prune_previous_entries: names recorded for u go if u owns them still.
\* Pools stay.
Prune(index, u) ==
    LET mine == IF u \in DOMAIN index.recorded THEN index.recorded[u] ELSE {}
        dropped == {n \in mine \cap DOMAIN index.owner : index.owner[n] = u}
    IN  [index EXCEPT !.owner = Without(@, dropped), !.recorded = Without(@, {u})]

\* Mutant: the pools of the document are not indexed.
StoreNoPools(index, doc) ==
    [index EXCEPT !.documents = @ \cup {doc.uri},
                  !.owner = With(@, doc.labels, doc.uri),
                  !.recorded = With(@, {doc.uri}, doc.labels)]

\* _store_document: the last to store a name owns it.
Store(index, doc) ==
    [index EXCEPT !.documents = @ \cup {doc.uri},
                  !.owner = With(@, doc.labels, doc.uri),
                  !.recorded = With(@, {doc.uri}, doc.labels),
                  !.pools = @ \cup doc.pools]

\* remove_document.
Remove(index, u) == [Prune(index, u) EXCEPT !.documents = @ \ {u}]

\* undeclared_pool_diagnostics: one for every use of a pool no one declared.
Undeclared(index, doc) ==
    [p \in DOMAIN doc.uses \ index.pools |-> doc.uses[p]]
=============================================================================
