---------------------------- MODULE LanguageServer ----------------------------
(***************************************************************************)
(* The language server (src/a816/lsp/server.py): handlers of editor         *)
(* notifications, their awaited work in threads, the open documents and     *)
(* the workspace index they share.                                          *)
(*                                                                          *)
(* A handler runs on the event loop up to an await; what it awaits runs in  *)
(* a worker thread and interleaves with everything else.  A step here is a  *)
(* stretch of code between two awaits, or a call in a thread: the clearing  *)
(* of a document, parsing, extraction, linting, _prune_previous_entries,    *)
(* _store_document, a look at a file.  didClose has no await: the loop      *)
(* stands still until its work is done, the threads do not.                 *)
(*                                                                          *)
(* A notification is handled up to its first await as it is sent; between   *)
(* the two the editor can only send more.                                   *)
(***************************************************************************)
EXTENDS Workspace

CONSTANTS Files,        \* files of the workspace
          Openable,     \* those the editor may open
          Entry,        \* the detected entrypoint
          Texts,        \* file -> texts it may have at first, or Absent
          Edits,        \* file -> items that may be typed in or taken out
          Absent,       \* no such file
          Closed,       \* not open in the editor
          Patient,      \* the editor waits for the handlers of a file
          Handlers,     \* bound: notifications under way at a time, 1 .. n
          Notifications \* bound: notifications sent

ASSUME ServerAssumption ==
    /\ IsFiniteSet(Files) /\ Openable \subseteq Files /\ Entry \in Files
    /\ Absent \notin Texts[Entry]
    /\ Patient \in BOOLEAN
    /\ IsFiniteSet(Handlers) /\ Handlers # {} /\ Handlers = 1 .. Cardinality(Handlers)
    /\ Notifications \in Nat

\* Texts are made of these items; their imports are files of the workspace,
\* there or not, and no text looks like a file that is not open or not there.
Items == UNION ({UNION (Texts[f] \ {Absent}) : f \in Files} \cup {Edits[u] : u \in Openable})

ASSUME TextAssumption ==
    /\ Imports(Items) \subseteq Files
    /\ \A text \in SUBSET Items : text # Closed /\ text # Absent

VARIABLES disk,         \* file -> text or Absent
          editor,       \* file -> text the editor shows, or Closed
          docs,         \* self.documents: file -> reference of a document
          heap,         \* the documents some name refers to
          index,        \* self.workspace_index
          running,      \* what each handler is at, or Idle
          published,    \* file -> the diagnostics last published for it
          sent          \* notifications so far

vars == <<disk, editor, docs, heap, index, running, published, sent>>

References == 1 .. Cardinality(Openable) + Cardinality(Handlers)
None == 0
Idle == [at |-> "idle"]

OnDisk(f) == IF disk[f] = Absent THEN {} ELSE disk[f]

\* Files imported by a text that are there (_extract_includes; .include, which
\* also puts the labels of a file into the including document, is left out).
Includes(text) == {f \in Imports(text) : disk[f] # Absent}

-----------------------------------------------------------------------------
(* rebuild() indexes what the entrypoint reaches, in some order.            *)

Reached == {f \in Files : \A S \in SUBSET Files :
                (Entry \in S /\ \A g \in S : Includes(OnDisk(g)) \subseteq S) => f \in S}

Init ==
    /\ disk \in [Files -> UNION {Texts[f] : f \in Files}]
    /\ \A f \in Files : disk[f] \in Texts[f]
    /\ editor = [f \in Openable |-> Closed]
    /\ docs = NoFunction /\ heap = NoFunction
    /\ LET labels == UNION {Labels(disk[f]) : f \in Reached}
       IN  \E owner \in [labels -> Reached] :
              /\ \A n \in labels : n \in Labels(disk[owner[n]])
              /\ index = [EmptyIndex EXCEPT
                    !.documents = Reached, !.owner = owner,
                    !.recorded = [f \in Reached |-> Labels(disk[f])],
                    !.pools = UNION {Pools(disk[f]) : f \in Reached}]
    /\ running = [h \in Handlers |-> Idle]
    /\ published = [f \in Openable |-> [own |-> EmptyBag, pools |-> EmptyBag]]
    /\ sent = 0

-----------------------------------------------------------------------------
(* Handlers and documents.                                                  *)

Busy == {h \in Handlers : running[h] # Idle}
LoopFree == \A h \in Busy : ~running[h].blocking

\* A new document, and the references still needed once docs' and running'
\* are known.
Fresh == CHOOSE r \in References : r \notin DOMAIN heap
Needed == Range(docs') \cup {running'[h].doc : h \in {g \in Handlers : running'[g] # Idle}}
Only(h, S) == Restrict(h, DOMAIN h \cap S)
Collect == heap' = Only(heap, Needed)

Task(u, at, doc, text) ==
    [at |-> at, uri |-> u, doc |-> doc, text |-> text, blocking |-> FALSE,
     queue |-> {}, visited |-> {}, file |-> u]

\* The editor sends a notification about u.
Notify(u) ==
    /\ sent < Notifications /\ sent' = sent + 1
    /\ LoopFree
    /\ Patient => \A h \in Busy : running[h].uri # u

\* A handler takes it, up to its first await.
Begin(task) ==
    \E h \in Handlers \ Busy :
        /\ \A g \in Handlers \ Busy : h <= g
        /\ running' = [running EXCEPT ![h] = task]

Goto(h, at) == running' = [running EXCEPT ![h].at = at]
Doc(h) == heap[running[h].doc]

-----------------------------------------------------------------------------
(* Notifications.                                                           *)

\* A file that is not on disk yet opens empty.
DidOpen(u) ==
    /\ editor[u] = Closed /\ Notify(u)
    /\ editor' = [editor EXCEPT ![u] = OnDisk(u)]
    /\ Begin(Task(u, "create", None, OnDisk(u)))
    /\ UNCHANGED <<disk, docs, heap, index, published>>

\* One item is typed in or taken out.  The change is sent as such, and applied
\* to the document as it is when the change arrives, or as the whole text.
\* Before didOpen has registered the document it is ignored.
DidChange(u, item) ==
    /\ editor[u] # Closed /\ Notify(u)
    /\ LET Change(text) == IF item \in editor[u] THEN text \ {item} ELSE text \cup {item}
       IN  /\ editor' = [editor EXCEPT ![u] = Change(@)]
           /\ IF u \in DOMAIN docs
              THEN \E whole \in BOOLEAN :
                      Begin(Task(u, "set", docs[u],
                                 Change(IF whole THEN editor[u] ELSE heap[docs[u]].text)))
              ELSE UNCHANGED running
    /\ UNCHANGED <<disk, docs, heap, index, published>>

\* The editor writes the file; the text may come with the notification.
DidSave(u) ==
    /\ editor[u] # Closed /\ Notify(u)
    /\ disk' = [disk EXCEPT ![u] = editor[u]]
    /\ IF u \in DOMAIN docs
       THEN \/ Begin(Task(u, "set", docs[u], editor[u]))
            \/ Begin(Task(u, "parse", docs[u], {}))
       ELSE UNCHANGED running
    /\ UNCHANGED <<editor, docs, heap, index, published>>

\* Unsaved changes are dropped and the document is replaced by the file, if
\* there is one (reload_document_from_disk).
DidClose(u) ==
    /\ editor[u] # Closed /\ Notify(u)
    /\ editor' = [editor EXCEPT ![u] = Closed]
    /\ docs' = Without(docs, {u})
    /\ IF disk[u] = Absent
       THEN UNCHANGED running /\ index' = Remove(index, u) /\ Collect
       ELSE /\ Begin([Task(u, "prune", Fresh, {}) EXCEPT !.blocking = TRUE])
            /\ heap' = Only(With(heap, {Fresh}, Analyzed(u, disk[u])), Needed)
            /\ UNCHANGED index
    /\ UNCHANGED <<disk, published>>

-----------------------------------------------------------------------------
(* Handlers at work.                                                        *)

\* In a thread: A816Document(uri, text, include_paths).
Create(h) ==
    /\ running[h].at = "create"
    /\ heap' = With(heap, {Fresh}, Analyzed(running[h].uri, running[h].text))
    /\ running' = [running EXCEPT ![h].at = "register", ![h].doc = Fresh, ![h].text = {}]
    /\ UNCHANGED <<disk, editor, docs, index, published, sent>>

\* On the loop: self.documents[uri] = doc.
Register(h) ==
    /\ running[h].at = "register" /\ LoopFree
    /\ docs' = With(docs, {running[h].uri}, running[h].doc)
    /\ Goto(h, "prune")
    /\ UNCHANGED <<disk, editor, index, published, sent>>
    /\ Collect

\* In a thread: update_content up to analyze().
Update(h) ==
    /\ running[h].at = "set"
    /\ heap' = [heap EXCEPT ![running[h].doc] = SetText(@, running[h].text)]
    /\ running' = [running EXCEPT ![h].at = "parse", ![h].text = {}]
    /\ UNCHANGED <<disk, editor, docs, index, published, sent>>

\* In a thread: analyze().
Analyze(h) ==
    /\ \/ running[h].at = "parse" /\ Goto(h, "extract")
          /\ heap' = [heap EXCEPT ![running[h].doc] = Parsed(@)]
       \/ running[h].at = "extract" /\ Goto(h, "lint")
          /\ heap' = [heap EXCEPT ![running[h].doc] = Extracted(@)]
       \/ running[h].at = "lint" /\ Goto(h, "analyzed")
          /\ heap' = [heap EXCEPT ![running[h].doc] = Linted(@)]
    /\ UNCHANGED <<disk, editor, docs, index, published, sent>>

\* On the loop: on to the index.
Resume(h) ==
    /\ running[h].at = "analyzed" /\ LoopFree
    /\ Goto(h, "prune")
    /\ UNCHANGED <<disk, editor, docs, heap, index, published, sent>>

-----------------------------------------------------------------------------
(* replace_document, in a thread or, under didClose, on the loop.           *)

PruneEntries(h) ==
    /\ running[h].at = "prune" /\ Goto(h, "store")
    /\ index' = Prune(index, running[h].uri)
    /\ UNCHANGED <<disk, editor, docs, heap, published, sent>>

StoreDocument(h) ==
    /\ running[h].at = "store"
    /\ index' = Store(index, Doc(h))
    /\ running' = [running EXCEPT ![h].at = "crawl", ![h].queue = Includes(Doc(h).text),
                                  ![h].visited = {running[h].uri}]
    /\ UNCHANGED <<disk, editor, docs, heap, published, sent>>

\* Mutant: a file that is indexed already is put back.
CrawlOneBack(h) ==
    /\ running[h].at = "crawl"
    /\ \E f \in running[h].queue :
          IF f \in running[h].visited \cup index.documents
          THEN UNCHANGED running
          ELSE running' = [running EXCEPT ![h].at = "fetched", ![h].file = f, ![h].text = disk[f],
                                          ![h].queue = @ \ {f}, ![h].visited = @ \cup {f}]
    /\ UNCHANGED <<disk, editor, docs, heap, index, published, sent>>

\* _walk takes a file, in no particular order: one seen or indexed already is
\* passed over, any other is read.
CrawlOne(h) ==
    /\ running[h].at = "crawl"
    /\ \E f \in running[h].queue :
          IF f \in running[h].visited \cup index.documents \/ disk[f] = Absent
          THEN running' = [running EXCEPT ![h].queue = @ \ {f}, ![h].visited = @ \cup {f}]
          ELSE running' = [running EXCEPT ![h].at = "fetched", ![h].file = f, ![h].text = disk[f],
                                          ![h].queue = @ \ {f}, ![h].visited = @ \cup {f}]
    /\ UNCHANGED <<disk, editor, docs, heap, index, published, sent>>

\* What was read is stored, and what it imports is queued.
CrawlStore(h) ==
    /\ running[h].at = "fetched"
    /\ index' = Store(index, Analyzed(running[h].file, running[h].text))
    /\ running' = [running EXCEPT
          ![h].at = "crawl", ![h].file = running[h].uri, ![h].text = {},
          ![h].queue = @ \cup (Includes(running[h].text) \ running[h].visited)]
    /\ UNCHANGED <<disk, editor, docs, heap, published, sent>>

Crawled(h) == running[h].at = "crawl" /\ running[h].queue = {}

\* Mutant: the handler is never done.
PublishStays(h) ==
    /\ Crawled(h) /\ ~running[h].blocking /\ LoopFree
    /\ published' = [published EXCEPT ![running[h].uri] =
          [own |-> Doc(h).diagnostics, pools |-> Undeclared(index, Doc(h))]]
    /\ Goto(h, "published")
    /\ UNCHANGED <<disk, editor, docs, heap, index, sent>>

\* On the loop: _publish_diagnostics_for.
Publish(h) ==
    /\ Crawled(h) /\ ~running[h].blocking /\ LoopFree
    /\ published' = [published EXCEPT ![running[h].uri] =
          [own |-> Doc(h).diagnostics, pools |-> Undeclared(index, Doc(h))]]
    /\ running' = [running EXCEPT ![h] = Idle]
    /\ UNCHANGED <<disk, editor, docs, index, sent>>
    /\ Collect

\* didClose publishes nothing and gives the loop back.
Closedown(h) ==
    /\ Crawled(h) /\ running[h].blocking
    /\ running' = [running EXCEPT ![h] = Idle]
    /\ UNCHANGED <<disk, editor, docs, index, published, sent>>
    /\ Collect

Step(h) ==
    \/ Create(h) \/ Register(h) \/ Update(h) \/ Analyze(h) \/ Resume(h)
    \/ PruneEntries(h) \/ StoreDocument(h) \/ CrawlOne(h) \/ CrawlStore(h)
    \/ Publish(h) \/ Closedown(h)

Next ==
    \/ \E u \in Openable :
          \/ DidOpen(u) \/ DidSave(u) \/ DidClose(u)
          \/ \E item \in Edits[u] : DidChange(u, item)
    \/ \E h \in Handlers : Step(h)

\* The editor owes nothing; every task and thread gets its turn.
Spec == Init /\ [][Next]_vars /\ \A h \in Handlers : WF_vars(Step(h))
=============================================================================
