--------------------------- MODULE ServerProperties ---------------------------
(***************************************************************************)
(* What makes the language server of LanguageServer correct.               *)
(***************************************************************************)
EXTENDS LanguageServer

PlacesInHandler ==
    {"create", "register", "set", "parse", "extract", "lint", "analyzed",
     "prune", "store", "crawl", "fetched"}

\* Types of the server's state: handlers are at a line they have, references
\* lead to documents, the document of a file bears its name.
TypeOK ==
    /\ DOMAIN disk = Files /\ DOMAIN editor = Openable
    /\ DOMAIN docs \subseteq Openable /\ DOMAIN heap \subseteq References
    /\ \A u \in DOMAIN docs : docs[u] \in DOMAIN heap /\ heap[docs[u]].uri = u
    /\ index.documents \subseteq Files /\ DOMAIN index.recorded \subseteq index.documents
    /\ \A h \in Busy :
          /\ running[h].at \in PlacesInHandler
          /\ running[h].uri \in Openable /\ running[h].file \in Files
          /\ running[h].queue \subseteq Files /\ running[h].visited \subseteq Files
          /\ running[h].at # "create" => running[h].doc \in DOMAIN heap
    /\ sent \in 0 .. Notifications

Settled == Busy = {}
IsOpen(u) == u \in Openable /\ editor[u] # Closed

\* The text a file has for the user: what the editor shows, else the file.
Shown(u) == IF IsOpen(u) THEN editor[u] ELSE OnDisk(u)

\* A name no two files can have: what the index says of a name of several
\* depends on which of them was stored last.
EverIn(u) == (UNION (Texts[u] \ {Absent})) \cup (IF u \in Openable THEN Edits[u] ELSE {})
Unshared(n, u) == \A f \in Files \ {u} : n \notin Labels(EverIn(f))

\* When nothing is under way, the open documents are those of the editor
\* (server.documents after did_change, tests/test_lsp_fixture.py).
ServerFollowsEditor ==
    Settled =>
        /\ DOMAIN docs = {u \in Openable : IsOpen(u)}
        /\ \A u \in DOMAIN docs : heap[docs[u]].text = editor[u]

\* When nothing is under way, the index leads to definitions that are there,
\* and to all of them whose name is a file's own (_prune_previous_entries,
\* _store_document, reload_document_from_disk): whichever handlers of other
\* files ran at the same time, and whatever was typed, saved or dropped.
IndexFollowsEditor ==
    Settled =>
        /\ \A n \in DOMAIN index.owner : n \in Labels(Shown(index.owner[n]))
        /\ \A u \in index.documents : \A n \in Labels(Shown(u)) :
              Unshared(n, u) => n \in DOMAIN index.owner
        /\ \A u \in Openable : IsOpen(u) => u \in index.documents
        /\ \A u \in index.documents : IsOpen(u) \/ disk[u] # Absent
        /\ \A u \in index.documents : Includes(Shown(u)) \subseteq index.documents

\* When nothing is under way, the last diagnostics published for an open file
\* are those of the text the editor shows ("Diagnostics on open / save /
\* change", docs/docs/lsp.md:8).
DiagnosticsFollowEditor ==
    Settled => \A u \in Openable :
        IsOpen(u) => DOMAIN published[u].own = Issues(editor[u])

\* What the server keeps and says of the open files is what the editor shows,
\* texts and diagnostics (handlers in src/a816/lsp/server.py:190-251).
OpenFilesFollow == ServerFollowsEditor /\ DiagnosticsFollowEditor

ReachedFrom(u) == {f \in Files : \A S \in SUBSET Files :
    (u \in S /\ \A g \in S : Includes(Shown(g)) \subseteq S) => f \in S}

\* A pool is reported undeclared only when no file that the reporting one
\* reaches through imports declares it (undeclared_pool_diagnostics and the
\* crawl before it), unless another handler is at work.
PoolErrorsAreReal ==
    [][\A h \in Handlers :
          (Publish(h) /\ Busy = {h}) =>
              LET u == running[h].uri
              IN  \A p \in DOMAIN published'[u].pools : \A f \in ReachedFrom(u) :
                      p \notin Pools(Shown(f))]_vars

\* Every notification is dealt with: no handler waits for ever, and didClose
\* gives the loop back.
HandlersFinish == \A h \in Handlers : running[h] # Idle ~> running[h] = Idle
=============================================================================
