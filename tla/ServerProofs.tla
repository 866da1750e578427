----------------------------- MODULE ServerProofs -----------------------------
(***************************************************************************)
(* The language server of LanguageServer for every set of files and        *)
(* handlers and any number of notifications: its types, and, when the      *)
(* editor waits for the handlers of a file before it sends more about it,  *)
(* that the documents, their diagnostics and the index all handlers share  *)
(* follow the editor, and that a pool reported undeclared is so.           *)
(***************************************************************************)
EXTENDS ServerProperties, FiniteSetTheorems, TLAPS

-----------------------------------------------------------------------------
(* The types, with what they rest on.                                      *)

IsDocument(d) ==
    /\ d = [uri |-> d.uri, text |-> d.text, ast |-> d.ast, labels |-> d.labels,
            pools |-> d.pools, uses |-> d.uses, diagnostics |-> d.diagnostics]
    /\ d.text \in SUBSET Items

IsTask(t) ==
    /\ t = [at |-> t.at, uri |-> t.uri, doc |-> t.doc, text |-> t.text, blocking |-> t.blocking,
            queue |-> t.queue, visited |-> t.visited, file |-> t.file]
    /\ t.at \in PlacesInHandler
    /\ t.uri \in Openable /\ t.file \in Files
    /\ t.text \in SUBSET Items /\ t.blocking \in BOOLEAN
    /\ t.queue \in SUBSET Files /\ t.visited \in SUBSET Files
    /\ t.at = "create" => t.doc = None

IsIndex(i) ==
    /\ i = [documents |-> i.documents, owner |-> i.owner, recorded |-> i.recorded, pools |-> i.pools]
    /\ i.documents \in SUBSET Files /\ DOMAIN i.recorded \subseteq i.documents

\* The handlers that hold a document.
Holding == {h \in Handlers : running[h] # Idle /\ running[h].at # "create"}

\* The heap holds what someone refers to, and nothing else.
Used == {docs[u] : u \in DOMAIN docs} \cup {running[h].doc : h \in Holding}

Shape ==
    /\ disk \in [Files -> (SUBSET Items) \cup {Absent}]
    /\ editor \in [Openable -> (SUBSET Items) \cup {Closed}]
    /\ DOMAIN docs \subseteq Openable
    /\ DOMAIN heap \subseteq References
    /\ running = [h \in Handlers |-> running[h]]
    /\ published = [u \in Openable |-> published[u]]
    /\ \A r \in DOMAIN heap : IsDocument(heap[r])
    /\ \A h \in Handlers : running[h] # Idle => IsTask(running[h])
    /\ IsIndex(index)
    /\ sent \in 0 .. Notifications

Held ==
    /\ DOMAIN heap \subseteq Used
    /\ \A u \in DOMAIN docs : docs[u] \in DOMAIN heap /\ heap[docs[u]].uri = u
    /\ \A h \in Holding : running[h].doc \in DOMAIN heap /\ heap[running[h].doc].uri = running[h].uri

TypeInv == Shape /\ Held

-----------------------------------------------------------------------------
(* What a patient editor keeps true.                                       *)

Opening  == {"create", "register"}
Updating == {"set", "parse", "extract", "lint"}

\* Document d is that of the text the editor shows for u.
Fits(d, u) == d.text = editor[u] /\ DOMAIN d.diagnostics = Issues(editor[u])

\* No two handlers are at work for one file.
OneHandlerEach ==
    \A g, h \in Handlers :
        (running[g] # Idle /\ running[h] # Idle /\ running[g].uri = running[h].uri) => g = h

\* A handler that opens has still to put its document in place; any other
\* works on the document in place, or on a copy of the file under didClose.
InPlace(h) ==
    LET t == running[h]
    IN  /\ t.at \in Opening \cup Updating \cup {"analyzed"} => ~t.blocking
        /\ editor[t.uri] = Closed <=> t.blocking
        /\ t.uri \in DOMAIN docs <=> ~t.blocking /\ t.at \notin Opening
        /\ t.uri \in DOMAIN docs => docs[t.uri] = t.doc

\* How far it has come with the text the editor shows.
UpToText(h) ==
    LET t == running[h]
    IN  /\ t.at \in {"create", "set"} => t.text = editor[t.uri]
        /\ t.at \in Updating \ {"set"} =>
              /\ heap[t.doc].text = editor[t.uri]
              /\ DOMAIN heap[t.doc].diagnostics \subseteq Issues(editor[t.uri])
        /\ (t.at \notin Updating \cup {"create"} /\ ~t.blocking) => Fits(heap[t.doc], t.uri)

\* When no handler is at work for u, all is as the editor shows it.
Quiet(u) == \A h \in Handlers : running[h] # Idle => running[h].uri # u
AsShown(u) ==
    /\ u \in DOMAIN docs <=> editor[u] # Closed
    /\ u \in DOMAIN docs => /\ Fits(heap[docs[u]], u)
                           /\ DOMAIN published[u].own = Issues(editor[u])

PatientInv ==
    /\ TypeInv
    /\ OneHandlerEach
    /\ \A h \in Handlers : running[h] # Idle => InPlace(h) /\ UpToText(h)
    /\ \A u \in Openable : Quiet(u) => AsShown(u)
-----------------------------------------------------------------------------
(* Lemmas about texts, documents and the heap.                             *)

\* A handler with a task is not an idle one.
LEMMA IdleIsNoTask == \A t : IsTask(t) => t # Idle
<1>1. "idle" \notin PlacesInHandler
  BY DEF PlacesInHandler
<1> QED
  BY <1>1 DEF IsTask, Idle

\* There is room on the heap: a handler that holds nothing leaves a reference.
LEMMA FreshIsNew ==
    ASSUME Shape, Held, NEW h \in Handlers \ Holding
    PROVE  Fresh \in References /\ Fresh \notin DOMAIN heap
<1> DEFINE Own == {docs[u] : u \in DOMAIN docs}
           Theirs == {running[g].doc : g \in Holding}
<1>1. IsFiniteSet(Openable) /\ IsFiniteSet(Handlers)
  BY ServerAssumption, FS_Subset
<1>2. /\ IsFiniteSet(Own) /\ Cardinality(Own) <= Cardinality(Openable)
      /\ Cardinality(Own) \in Nat /\ Cardinality(Openable) \in Nat
  <2>1. IsFiniteSet(DOMAIN docs) /\ Cardinality(DOMAIN docs) <= Cardinality(Openable)
    BY <1>1, FS_Subset DEF Shape
  <2>2. [u \in DOMAIN docs |-> docs[u]] \in Surjection(DOMAIN docs, Own)
    BY DEF Surjection
  <2>3. IsFiniteSet(Own) /\ Cardinality(Own) <= Cardinality(DOMAIN docs)
    BY <2>1, <2>2, FS_Surjection
  <2> QED
    BY <1>1, <2>1, <2>3, FS_CardinalityType
<1>3. /\ IsFiniteSet(Theirs) /\ Cardinality(Theirs) < Cardinality(Handlers)
      /\ Cardinality(Theirs) \in Nat /\ Cardinality(Handlers) \in Nat
  <2>1. /\ IsFiniteSet(Holding) /\ Cardinality(Holding) <= Cardinality(Handlers)
        /\ Cardinality(Holding) # Cardinality(Handlers)
    BY <1>1, FS_Subset DEF Holding
  <2>2. [g \in Holding |-> running[g].doc] \in Surjection(Holding, Theirs)
    BY DEF Surjection
  <2>3. IsFiniteSet(Theirs) /\ Cardinality(Theirs) <= Cardinality(Holding)
    BY <2>1, <2>2, FS_Surjection
  <2> QED
    BY <1>1, <2>1, <2>3, FS_CardinalityType
<1> HIDE DEF Own, Theirs
<1>4. /\ IsFiniteSet(Used) /\ Cardinality(Used) \in Nat
      /\ Cardinality(Used) < Cardinality(Openable) + Cardinality(Handlers)
  <2>0. IsFiniteSet(Own \cap Theirs) /\ Cardinality(Own \cap Theirs) \in Nat
    BY <1>2, FS_Subset, FS_CardinalityType
  <2>1. IsFiniteSet(Own \cup Theirs) /\ Cardinality(Own \cup Theirs) <= Cardinality(Own) + Cardinality(Theirs)
    <3>1. /\ IsFiniteSet(Own \cup Theirs)
          /\ Cardinality(Own \cup Theirs) =
                 Cardinality(Own) + Cardinality(Theirs) - Cardinality(Own \cap Theirs)
      BY <1>2, <1>3, FS_Union
    <3> QED
      BY <1>2, <1>3, <2>0, <3>1
  <2>2. Used = Own \cup Theirs
    BY DEF Used, Own, Theirs
  <2>3. Cardinality(Used) \in Nat
    BY <2>1, <2>2, FS_CardinalityType
  <2> QED
    BY <1>2, <1>3, <2>1, <2>2, <2>3
<1>5. /\ IsFiniteSet(References)
      /\ Cardinality(References) = Cardinality(Openable) + Cardinality(Handlers)
  <2> DEFINE n == Cardinality(Openable) + Cardinality(Handlers)
  <2>1. n \in Nat
    BY <1>2, <1>3
  <2>2. IsFiniteSet(1 .. n) /\ Cardinality(1 .. n) = IF 1 > n THEN 0 ELSE n - 1 + 1
    BY <2>1, FS_Interval
  <2> QED
    BY <2>1, <2>2 DEF References
<1>6. ~(References \subseteq DOMAIN heap)
  <2> SUFFICES ASSUME References \subseteq Used PROVE FALSE
    BY DEF Held
  <2> QED
    BY <1>2, <1>3, <1>4, <1>5, FS_Subset
<1> QED
  BY <1>6 DEF Fresh

\* The steps of an analysis leave name and text alone.
LEMMA DocumentSteps ==
    ASSUME NEW d, IsDocument(d)
    PROVE  /\ \A text \in SUBSET Items :
                 /\ IsDocument(SetText(d, text)) /\ SetText(d, text).uri = d.uri
                 /\ SetText(d, text).text = text /\ SetText(d, text).diagnostics = EmptyBag
           /\ IsDocument(Parsed(d)) /\ Parsed(d).uri = d.uri /\ Parsed(d).text = d.text
           /\ Parsed(d).diagnostics = d.diagnostics
           /\ IsDocument(Extracted(d)) /\ Extracted(d).uri = d.uri /\ Extracted(d).text = d.text
           /\ Extracted(d).diagnostics = d.diagnostics
           /\ IsDocument(Linted(d)) /\ Linted(d).uri = d.uri /\ Linted(d).text = d.text
           /\ Linted(d).diagnostics = d.diagnostics (+) SetToBag(Issues(d.text))
<1>1. ASSUME NEW text \in SUBSET Items
      PROVE  /\ IsDocument(SetText(d, text)) /\ SetText(d, text).uri = d.uri
             /\ SetText(d, text).text = text /\ SetText(d, text).diagnostics = EmptyBag
  BY DEF IsDocument, SetText, NewDocument
<1>2. Parsed(d) =
       [uri |-> d.uri, text |-> d.text, ast |-> d.text, labels |-> d.labels,
        pools |-> d.pools, uses |-> d.uses, diagnostics |-> d.diagnostics]
  BY DEF IsDocument, Parsed
<1> DEFINE ls == d.labels \cup Labels(d.ast)
           ps == d.pools \cup Pools(d.ast)
           us == d.uses (+) SetToBag(Uses(d.ast))
<1>3. Extracted(d) =
       [uri |-> d.uri, text |-> d.text, ast |-> d.ast, labels |-> ls,
        pools |-> ps, uses |-> us, diagnostics |-> d.diagnostics]
  <2>1. Extracted(d) = [d EXCEPT !.labels = ls, !.pools = ps, !.uses = us]
    BY Zenon DEF Extracted
  <2> HIDE DEF ls, ps, us
  <2> QED
    BY <2>1 DEF IsDocument
<1> HIDE DEF ls, ps, us
<1>4. Linted(d) =
       [uri |-> d.uri, text |-> d.text, ast |-> d.ast, labels |-> d.labels,
        pools |-> d.pools, uses |-> d.uses, diagnostics |-> d.diagnostics (+) SetToBag(Issues(d.text))]
  BY DEF IsDocument, Linted
<1> QED
  BY <1>1, <1>2, <1>3, <1>4 DEF IsDocument

\* A list of diagnostics names what is added to it and nothing else.
LEMMA DiagnosticsOf ==
    /\ DOMAIN EmptyBag = {}
    /\ \A B, S : DOMAIN (B (+) SetToBag(S)) = DOMAIN B \cup S
BY DEF EmptyBag, SetToBag, (+)

\* A document made of a text and analyzed has that text, and its diagnostics are its
\* issues.
LEMMA AnalyzedDocument ==
    ASSUME NEW u, NEW text \in SUBSET Items
    PROVE  /\ IsDocument(Analyzed(u, text))
           /\ Analyzed(u, text).uri = u /\ Analyzed(u, text).text = text
           /\ DOMAIN Analyzed(u, text).diagnostics = Issues(text)
<1>1. /\ IsDocument(NewDocument(u, text)) /\ NewDocument(u, text).uri = u
      /\ NewDocument(u, text).text = text /\ NewDocument(u, text).diagnostics = EmptyBag
  BY DEF IsDocument, NewDocument
<1> DEFINE new == NewDocument(u, text)
<1> HIDE DEF new
<1>2. IsDocument(Parsed(new)) /\ Parsed(new).uri = u /\ Parsed(new).text = text /\ Parsed(new).diagnostics = EmptyBag
  BY <1>1, DocumentSteps DEF new
<1>3. /\ IsDocument(Extracted(Parsed(new))) /\ Extracted(Parsed(new)).uri = u
      /\ Extracted(Parsed(new)).text = text /\ Extracted(Parsed(new)).diagnostics = EmptyBag
  BY <1>2, DocumentSteps
<1>4. /\ IsDocument(Linted(Extracted(Parsed(new)))) /\ Linted(Extracted(Parsed(new))).uri = u
      /\ Linted(Extracted(Parsed(new))).text = text
      /\ Linted(Extracted(Parsed(new))).diagnostics = EmptyBag (+) SetToBag(Issues(text))
  BY <1>3, DocumentSteps
<1>5. Analyzed(u, text) = Linted(Extracted(Parsed(new)))
  BY DEF Analyzed, new
<1>6. DOMAIN (EmptyBag (+) SetToBag(Issues(text))) = Issues(text)
  BY DiagnosticsOf
<1> QED
  BY <1>4, <1>5, <1>6

\* Every text imports files of the workspace.
LEMMA IncludesAreFiles ==
    ASSUME NEW text \in SUBSET Items
    PROVE  Includes(text) \in SUBSET Files
<1>1. Imports(text) \subseteq Imports(Items)
  BY DEF Imports, Named
<1> QED
  BY <1>1, TextAssumption DEF Includes

\* What a file holds on the disk is a text, the empty one when it is absent.
LEMMA OnDiskIsText ==
    ASSUME disk \in [Files -> (SUBSET Items) \cup {Absent}], NEW f \in Files
    PROVE  OnDisk(f) \in SUBSET Items
BY DEF OnDisk

\* Pruning, removing and storing a document leave the index an index.
LEMMA IndexSteps ==
    ASSUME NEW i, IsIndex(i)
    PROVE  /\ \A u : IsIndex(Prune(i, u)) /\ IsIndex(Remove(i, u))
           /\ \A d : d.uri \in Files => IsIndex(Store(i, d))
<1>1. ASSUME NEW u PROVE IsIndex(Prune(i, u)) /\ IsIndex(Remove(i, u))
  <2> DEFINE mine == IF u \in DOMAIN i.recorded THEN i.recorded[u] ELSE {}
             kept == Without(i.owner, {n \in mine \cap DOMAIN i.owner : i.owner[n] = u})
  <2>0. Prune(i, u) = [i EXCEPT !.owner = kept, !.recorded = Without(@, {u})]
    BY Zenon DEF Prune
  <2> HIDE DEF mine, kept
  <2>1. Prune(i, u) = [documents |-> i.documents, owner |-> kept,
                       recorded |-> Without(i.recorded, {u}), pools |-> i.pools]
    BY <2>0 DEF IsIndex
  <2>2. DOMAIN Without(i.recorded, {u}) = DOMAIN i.recorded \ {u}
    BY DEF Without, Restrict
  <2>3. Remove(i, u) = [documents |-> i.documents \ {u}, owner |-> kept,
                        recorded |-> Without(i.recorded, {u}), pools |-> i.pools]
    BY <2>1 DEF Remove
  <2> QED
    BY <2>1, <2>2, <2>3 DEF IsIndex
<1>2. ASSUME NEW d, d.uri \in Files PROVE IsIndex(Store(i, d))
  <2> DEFINE ds == i.documents \cup {d.uri}
             os == With(i.owner, d.labels, d.uri)
             rs == With(i.recorded, {d.uri}, d.labels)
             ps == i.pools \cup d.pools
  <2>0. Store(i, d) = [i EXCEPT !.documents = ds, !.owner = os, !.recorded = rs, !.pools = ps]
    BY Zenon DEF Store
  <2>3. ds \in SUBSET Files /\ d.uri \in ds /\ i.documents \subseteq ds
    BY <1>2 DEF IsIndex
  <2>4. DOMAIN rs = {d.uri} \cup DOMAIN i.recorded
    BY DEF With
  <2> HIDE DEF ds, os, rs, ps
  <2>1. Store(i, d) = [documents |-> ds, owner |-> os, recorded |-> rs, pools |-> ps]
    BY <2>0 DEF IsIndex
  <2> QED
    BY <2>1, <2>3, <2>4 DEF IsIndex
<1> QED
  BY <1>1, <1>2

\* The task a notification begins, field by field.
LEMMA NewTask ==
    ASSUME NEW u \in Openable, NEW at \in PlacesInHandler, NEW doc, NEW text \in SUBSET Items,
           at = "create" => doc = None
    PROVE  /\ IsTask(Task(u, at, doc, text)) /\ Task(u, at, doc, text).at = at
           /\ Task(u, at, doc, text).uri = u /\ Task(u, at, doc, text).doc = doc
           /\ Task(u, at, doc, text).text = text /\ ~Task(u, at, doc, text).blocking
BY ServerAssumption DEF IsTask, Task

\* Task t carries on for the file and with the document of task s.
CarriesOn(t, s) ==
    /\ IsTask(t) /\ t.at # "create"
    /\ t.uri = s.uri /\ t.doc = s.doc /\ t.blocking = s.blocking

\* The ways a task moves on without changing its document, URI or blocking.
LEMMA TaskSteps ==
    ASSUME NEW s, IsTask(s), NEW at \in PlacesInHandler, at # "create", s.at # "create",
           NEW text \in SUBSET Items, NEW file \in Files,
           NEW queue \in SUBSET Files, NEW visited \in SUBSET Files
    PROVE  /\ CarriesOn([s EXCEPT !.at = at], s)
           /\ CarriesOn([s EXCEPT !.at = at, !.text = text], s)
           /\ CarriesOn([s EXCEPT !.at = at, !.queue = queue, !.visited = visited], s)
           /\ CarriesOn([s EXCEPT !.queue = queue, !.visited = visited], s)
           /\ CarriesOn([s EXCEPT !.at = at, !.file = file, !.text = text, !.queue = queue], s)
           /\ CarriesOn([s EXCEPT !.at = at, !.file = file, !.text = text,
                                  !.queue = queue, !.visited = visited], s)
<1> DEFINE T(a, x, q, v, f) ==
        [at |-> a, uri |-> s.uri, doc |-> s.doc, text |-> x, blocking |-> s.blocking,
         queue |-> q, visited |-> v, file |-> f]
<1>1. ASSUME NEW a \in PlacesInHandler, a # "create", NEW x \in SUBSET Items,
             NEW q \in SUBSET Files, NEW v \in SUBSET Files, NEW f \in Files
      PROVE  CarriesOn(T(a, x, q, v, f), s)
  BY <1>1 DEF CarriesOn, IsTask
<1>2. /\ s.at \in PlacesInHandler /\ s.text \in SUBSET Items /\ s.file \in Files
      /\ s.queue \in SUBSET Files /\ s.visited \in SUBSET Files
  BY DEF IsTask
<1>3. s = T(s.at, s.text, s.queue, s.visited, s.file)
  BY DEF IsTask
<1> DEFINE e1 == [s EXCEPT !.at = at]
           e2 == [e1 EXCEPT !.file = file]
           e3 == [e2 EXCEPT !.text = text]
           e4 == [e3 EXCEPT !.queue = queue]
           e5 == [e4 EXCEPT !.visited = visited]
           q1 == [e1 EXCEPT !.queue = queue]
           q2 == [q1 EXCEPT !.visited = visited]
           r1 == [s EXCEPT !.queue = queue]
           r2 == [r1 EXCEPT !.visited = visited]
           x1 == [e1 EXCEPT !.text = text]
<1>4. /\ [s EXCEPT !.at = at, !.text = text] = x1
      /\ [s EXCEPT !.at = at, !.queue = queue, !.visited = visited] = q2
      /\ [s EXCEPT !.queue = queue, !.visited = visited] = r2
      /\ [s EXCEPT !.at = at, !.file = file, !.text = text, !.queue = queue] = e4
      /\ [s EXCEPT !.at = at, !.file = file, !.text = text, !.queue = queue, !.visited = visited] = e5
  OBVIOUS
<1>5. e1 = T(at, s.text, s.queue, s.visited, s.file) /\ r1 = T(s.at, s.text, queue, s.visited, s.file)
  BY <1>3
<1> HIDE DEF e1, r1
<1>6. /\ e2 = T(at, s.text, s.queue, s.visited, file) /\ x1 = T(at, text, s.queue, s.visited, s.file)
      /\ q1 = T(at, s.text, queue, s.visited, s.file) /\ r2 = T(s.at, s.text, queue, visited, s.file)
  BY <1>5
<1> HIDE DEF e2, x1, q1, r2
<1>7. e3 = T(at, text, s.queue, s.visited, file) /\ q2 = T(at, s.text, queue, visited, s.file)
  BY <1>6
<1> HIDE DEF e3, q2
<1>8. e4 = T(at, text, queue, s.visited, file)
  BY <1>7
<1> HIDE DEF e4
<1>9. e5 = T(at, text, queue, visited, file)
  BY <1>8
<1> HIDE DEF T, e5
<1>10. /\ CarriesOn(e1, s) /\ CarriesOn(x1, s) /\ CarriesOn(q2, s)
       /\ CarriesOn(r2, s) /\ CarriesOn(e4, s) /\ CarriesOn(e5, s)
  BY <1>1, <1>2, <1>5, <1>6, <1>7, <1>8, <1>9
<1> QED
  BY <1>4, <1>10 DEF e1, e2, e3, e4, e5, q1, q2, r1, r2, x1

-----------------------------------------------------------------------------
(* Steps of the types, by what they change.                                *)

\* A handler takes a notification; documents and index stay.
LEMMA BeginTyped ==
    ASSUME TypeInv, NEW t, IsTask(t), Begin(t),
           t.at # "create" => \E u \in DOMAIN docs : t.uri = u /\ t.doc = docs[u],
           UNCHANGED <<docs, heap, index, published>>,
           disk' \in [Files -> (SUBSET Items) \cup {Absent}],
           editor' \in [Openable -> (SUBSET Items) \cup {Closed}],
           sent' \in 0 .. Notifications
    PROVE  TypeInv'
<1>1. PICK h \in Handlers \ Busy : running' = [running EXCEPT ![h] = t]
  BY DEF Begin
<1>2. /\ running[h] = Idle /\ running'[h] = t /\ t # Idle
      /\ \A g \in Handlers : g # h => running'[g] = running[g]
      /\ running' = [g \in Handlers |-> running'[g]]
  BY <1>1, IdleIsNoTask DEF Busy, TypeInv, Shape
<1>3. Shape'
  BY <1>2 DEF TypeInv, Shape, IsIndex, IsDocument
<1>4. \A g \in Holding' : g \in Holding \/ (g = h /\ t.at # "create")
  BY <1>2 DEF Holding
<1>5. \A g \in Holding : g \in Holding' /\ running'[g] = running[g]
  BY <1>2 DEF Holding
<1>6. Used \subseteq Used'
  BY <1>5 DEF Used
<1> QED
  BY <1>2, <1>3, <1>4, <1>5, <1>6 DEF TypeInv, Held

\* A handler goes on with its document, which keeps its name.
LEMMA GoOnTyped ==
    ASSUME TypeInv, NEW h \in Handlers, h \in Holding, NEW t, CarriesOn(t, running[h]),
           running' = [running EXCEPT ![h] = t],
           UNCHANGED <<disk, editor, docs, published, sent>>, IsIndex(index'),
           DOMAIN heap' = DOMAIN heap,
           \A r \in DOMAIN heap : IsDocument(heap'[r]) /\ heap'[r].uri = heap[r].uri
    PROVE  TypeInv'
<1>1. IsTask(t) /\ t.at # "create" /\ t.uri = running[h].uri /\ t.doc = running[h].doc
  BY DEF CarriesOn
<1>2. /\ running'[h] = t /\ t # Idle
      /\ \A g \in Handlers : g # h => running'[g] = running[g]
      /\ running' = [g \in Handlers |-> running'[g]]
  BY <1>1, IdleIsNoTask DEF TypeInv, Shape
<1>3. Shape'
  BY <1>1, <1>2 DEF TypeInv, Shape
<1>4. Holding' = Holding
  BY <1>1, <1>2 DEF Holding
<1>5. \A g \in Holding : running'[g].doc = running[g].doc /\ running'[g].uri = running[g].uri
  BY <1>1, <1>2 DEF Holding
<1>6. Used' = Used
  BY <1>4, <1>5 DEF Used
<1> QED
  BY <1>3, <1>4, <1>5, <1>6 DEF TypeInv, Held

\* What is not needed any more goes; what is needed stays.
LEMMA CollectTyped ==
    ASSUME NEW b, heap' = Only(b, Needed), DOMAIN b \subseteq References,
           \A r \in DOMAIN b : IsDocument(b[r]),
           \A h \in Handlers : running'[h] # Idle => IsTask(running'[h]),
           \A u \in DOMAIN docs' : docs'[u] \in DOMAIN b /\ b[docs'[u]].uri = u,
           \A h \in Holding' : running'[h].doc \in DOMAIN b /\ b[running'[h].doc].uri = running'[h].uri
    PROVE  /\ Held' /\ DOMAIN heap' \subseteq References
           /\ \A r \in DOMAIN heap' : r \in DOMAIN b /\ heap'[r] = b[r]
           /\ \A r \in DOMAIN b : r \in Used' => r \in DOMAIN heap'
<1>1. Range(docs') = {docs'[u] : u \in DOMAIN docs'}
  BY DEF Range
<1>2. \A r \in DOMAIN b : r \in Needed <=> r \in Used'
  <2>1. None \notin DOMAIN b
    BY DEF None, References
  <2>2. \A h \in Handlers : (running'[h] # Idle /\ running'[h].at = "create") => running'[h].doc = None
    BY DEF IsTask
  <2> QED
    BY <1>1, <2>1, <2>2 DEF Needed, Used, Holding
<1>3. /\ DOMAIN heap' = DOMAIN b \cap Needed
      /\ \A r \in DOMAIN heap' : heap'[r] = b[r]
  BY DEF Only, Restrict
<1>4. Used' \subseteq DOMAIN b
  BY DEF Used
<1> QED
  BY <1>2, <1>3, <1>4 DEF Held, Used

\* Every text a file may have on the disk is a set of items.
LEMMA TextsAreItems == \A f \in Files : \A text \in Texts[f] \ {Absent} : text \in SUBSET Items
<1> SUFFICES ASSUME NEW f \in Files, NEW text \in Texts[f] \ {Absent}, NEW item \in text
             PROVE  item \in Items
  OBVIOUS
<1>1. item \in UNION (Texts[f] \ {Absent})
  OBVIOUS
<1> QED
  BY <1>1 DEF Items

\* The server starts with the types right: no document open, no task, the files indexed.
LEMMA TypesAtFirst == Init => TypeInv
<1> SUFFICES ASSUME Init PROVE TypeInv
  OBVIOUS
<1>1. disk \in [Files -> (SUBSET Items) \cup {Absent}]
  BY TextsAreItems DEF Init
<1>2. IsIndex(index)
  <2> DEFINE rs == [f \in Reached |-> Labels(disk[f])]
             ps == UNION {Pools(disk[f]) : f \in Reached}
  <2>1. PICK owner : index = [EmptyIndex EXCEPT !.documents = Reached, !.owner = owner,
                                                !.recorded = rs, !.pools = ps]
    BY Zenon DEF Init
  <2>2. Reached \in SUBSET Files /\ DOMAIN rs \subseteq Reached
    BY DEF Reached
  <2> HIDE DEF rs, ps
  <2>3. index = [documents |-> Reached, owner |-> owner, recorded |-> rs, pools |-> ps]
    BY <2>1 DEF EmptyIndex
  <2> QED
    BY <2>2, <2>3 DEF IsIndex
<1>3. DOMAIN docs = {} /\ DOMAIN heap = {}
  BY DEF Init, NoFunction
<1>4. \A h \in Handlers : running[h] = Idle
  BY DEF Init
<1>5. Shape
  BY <1>1, <1>2, <1>3, <1>4, ServerAssumption DEF Init, Shape
<1>6. Held
  BY <1>3, <1>4 DEF Held, Holding
<1> QED
  BY <1>5, <1>6 DEF TypeInv

\* didOpen keeps the types.
LEMMA OpenTyped == ASSUME TypeInv, NEW u \in Openable, DidOpen(u) PROVE TypeInv'
<1>1. OnDisk(u) \in SUBSET Items
  BY OnDiskIsText, ServerAssumption DEF TypeInv, Shape
<1>2. IsTask(Task(u, "create", None, OnDisk(u))) /\ Task(u, "create", None, OnDisk(u)).at = "create"
  BY <1>1, NewTask DEF PlacesInHandler
<1>3. /\ disk' \in [Files -> (SUBSET Items) \cup {Absent}]
      /\ editor' \in [Openable -> (SUBSET Items) \cup {Closed}]
      /\ sent' \in 0 .. Notifications
  BY <1>1, ServerAssumption DEF DidOpen, Notify, TypeInv, Shape
<1>4. Begin(Task(u, "create", None, OnDisk(u))) /\ UNCHANGED <<docs, heap, index, published>>
  BY DEF DidOpen
<1> QED
  BY <1>2, <1>3, <1>4, BeginTyped

\* When the notification reaches no document, nobody begins.
LEMMA NobodyTyped ==
    ASSUME TypeInv, UNCHANGED <<docs, heap, index, running, published>>,
           disk' \in [Files -> (SUBSET Items) \cup {Absent}],
           editor' \in [Openable -> (SUBSET Items) \cup {Closed}],
           sent' \in 0 .. Notifications
    PROVE  TypeInv'
<1>1. Shape'
  BY DEF TypeInv, Shape
<1>2. Held'
  BY DEF TypeInv, Held, Used, Holding
<1> QED
  BY <1>1, <1>2 DEF TypeInv

\* A document in place holds a text.
LEMMA DocumentText ==
    ASSUME TypeInv, NEW u \in DOMAIN docs
    PROVE  heap[docs[u]].text \in SUBSET Items
BY DEF TypeInv, Shape, Held, IsDocument

\* didChange keeps the types, whether the document is open or not.
LEMMA ChangeTyped ==
    ASSUME TypeInv, NEW u \in Openable, NEW item \in Edits[u], DidChange(u, item)
    PROVE  TypeInv'
<1> DEFINE Change(text) == IF item \in editor[u] THEN text \ {item} ELSE text \cup {item}
<1>1. item \in Items
  BY DEF Items
<1>2. \A text \in SUBSET Items : Change(text) \in SUBSET Items
  BY <1>1
<1>3. editor[u] \in SUBSET Items
  BY DEF DidChange, TypeInv, Shape
<1>4. /\ disk' \in [Files -> (SUBSET Items) \cup {Absent}]
      /\ editor' \in [Openable -> (SUBSET Items) \cup {Closed}]
      /\ sent' \in 0 .. Notifications
  <2>1. editor' = [editor EXCEPT ![u] = Change(editor[u])] /\ UNCHANGED disk
    BY DEF DidChange
  <2>2. Change(editor[u]) \in SUBSET Items
    BY <1>2, <1>3
  <2>3. sent' \in 0 .. Notifications
    BY ServerAssumption DEF DidChange, Notify, TypeInv, Shape
  <2> HIDE DEF Change
  <2> QED
    BY <2>1, <2>2, <2>3 DEF TypeInv, Shape
<1>5. UNCHANGED <<docs, heap, index, published>>
  BY DEF DidChange
<1>6. CASE u \in DOMAIN docs
  <2>1. PICK whole \in BOOLEAN :
            Begin(Task(u, "set", docs[u], Change(IF whole THEN editor[u] ELSE heap[docs[u]].text)))
    BY <1>6 DEF DidChange
  <2> DEFINE text == Change(IF whole THEN editor[u] ELSE heap[docs[u]].text)
  <2>2. text \in SUBSET Items
    BY <1>2, <1>3, <1>6, DocumentText
  <2>3. Begin(Task(u, "set", docs[u], text))
    BY <2>1
  <2> HIDE DEF text, Change
  <2>4. /\ IsTask(Task(u, "set", docs[u], text))
        /\ Task(u, "set", docs[u], text).uri = u /\ Task(u, "set", docs[u], text).doc = docs[u]
    BY <2>2, NewTask DEF PlacesInHandler
  <2> QED
    BY <1>4, <1>5, <1>6, <2>3, <2>4, BeginTyped
<1>7. CASE u \notin DOMAIN docs
  <2>1. UNCHANGED running
    BY <1>7 DEF DidChange
  <2> QED
    BY <1>4, <1>5, <2>1, NobodyTyped
<1> QED
  BY <1>6, <1>7

\* didSave keeps the types.
LEMMA SaveTyped == ASSUME TypeInv, NEW u \in Openable, DidSave(u) PROVE TypeInv'
<1>1. editor[u] \in SUBSET Items
  BY DEF DidSave, TypeInv, Shape
<1>2. /\ disk' \in [Files -> (SUBSET Items) \cup {Absent}]
      /\ editor' \in [Openable -> (SUBSET Items) \cup {Closed}]
      /\ sent' \in 0 .. Notifications
  BY <1>1, ServerAssumption DEF DidSave, Notify, TypeInv, Shape
<1>3. UNCHANGED <<docs, heap, index, published>>
  BY DEF DidSave
<1>4. CASE u \in DOMAIN docs
  <2>1. PICK at \in {"set", "parse"}, text \in {editor[u], {}} : Begin(Task(u, at, docs[u], text))
    BY <1>4 DEF DidSave
  <2>2. /\ IsTask(Task(u, at, docs[u], text))
        /\ Task(u, at, docs[u], text).uri = u /\ Task(u, at, docs[u], text).doc = docs[u]
    BY <1>1, <2>1, NewTask DEF PlacesInHandler
  <2> QED
    BY <1>2, <1>3, <1>4, <2>1, <2>2, BeginTyped
<1>5. CASE u \notin DOMAIN docs
  <2>1. UNCHANGED running
    BY <1>5 DEF DidSave
  <2> QED
    BY <1>2, <1>3, <2>1, NobodyTyped
<1> QED
  BY <1>4, <1>5

\* Where a handler is tells whether it holds a document.
LEMMA AtWork ==
    ASSUME TypeInv, NEW h \in Handlers, running[h] # Idle
    PROVE  /\ IsTask(running[h])
           /\ running[h].at # "create" =>
                 h \in Holding /\ running[h].doc \in DOMAIN heap /\ IsDocument(heap[running[h].doc])
           /\ running[h].at = "create" => h \notin Holding
BY DEF TypeInv, Shape, Held, Holding

\* The places of a handler, and "idle" is not one.
LEMMA IdleNowhere ==
    ASSUME NEW h \in Handlers, running[h].at \in PlacesInHandler
    PROVE  running[h] # Idle
BY DEF PlacesInHandler, Idle

\* update_content of a handler keeps the types.
LEMMA UpdateTyped == ASSUME TypeInv, NEW h \in Handlers, Update(h) PROVE TypeInv'
<1>1. running[h] # Idle
  BY IdleNowhere DEF Update, PlacesInHandler
<1> DEFINE t == [running[h] EXCEPT !.at = "parse", !.text = {}]
<1>2. running' = [running EXCEPT ![h] = t]
  BY <1>1 DEF Update, TypeInv, Shape
<1>3. CarriesOn(t, running[h])
  BY <1>1, AtWork, TaskSteps DEF Update, PlacesInHandler, IsTask
<1>4. h \in Holding /\ running[h].text \in SUBSET Items /\ running[h].doc \in DOMAIN heap
  BY <1>1, AtWork DEF Update, IsTask
<1>5. heap' = [heap EXCEPT ![running[h].doc] = SetText(@, running[h].text)]
  BY DEF Update
<1>6. /\ IsDocument(SetText(heap[running[h].doc], running[h].text))
      /\ SetText(heap[running[h].doc], running[h].text).uri = heap[running[h].doc].uri
  BY <1>1, <1>4, AtWork, DocumentSteps DEF Update
<1>7. /\ DOMAIN heap' = DOMAIN heap
      /\ \A r \in DOMAIN heap : IsDocument(heap'[r]) /\ heap'[r].uri = heap[r].uri
  BY <1>4, <1>5, <1>6 DEF TypeInv, Shape
<1> HIDE DEF t
<1> QED
  BY <1>2, <1>3, <1>4, <1>7, GoOnTyped DEF Update, TypeInv, Shape

\* A step of analyze() keeps the types.
LEMMA AnalyzeTyped == ASSUME TypeInv, NEW h \in Handlers, Analyze(h) PROVE TypeInv'
<1>1. running[h] # Idle
  BY IdleNowhere DEF Analyze, PlacesInHandler
<1>2. PICK at \in {"extract", "lint", "analyzed"} : running' = [running EXCEPT ![h].at = at]
  BY DEF Analyze, Goto
<1> DEFINE t == [running[h] EXCEPT !.at = at]
<1>3. running' = [running EXCEPT ![h] = t]
  BY <1>2
<1>4. CarriesOn(t, running[h])
  <2>1. /\ at \in PlacesInHandler /\ at # "create"
        /\ IsTask(running[h]) /\ running[h].at # "create"
    BY <1>1, AtWork DEF Analyze, PlacesInHandler
  <2>2. /\ running[h].text \in SUBSET Items /\ running[h].file \in Files
        /\ running[h].queue \in SUBSET Files
    BY <2>1 DEF IsTask
  <2> QED
    BY <2>1, <2>2, TaskSteps
<1>5. h \in Holding /\ running[h].doc \in DOMAIN heap /\ IsDocument(heap[running[h].doc])
  BY <1>1, AtWork DEF Analyze
<1>6. PICK d : /\ heap' = [heap EXCEPT ![running[h].doc] = d]
               /\ IsDocument(d) /\ d.uri = heap[running[h].doc].uri
  BY <1>5, DocumentSteps DEF Analyze
<1>7. /\ DOMAIN heap' = DOMAIN heap
      /\ \A r \in DOMAIN heap : IsDocument(heap'[r]) /\ heap'[r].uri = heap[r].uri
  BY <1>5, <1>6 DEF TypeInv, Shape
<1> HIDE DEF t
<1> QED
  BY <1>3, <1>4, <1>5, <1>7, GoOnTyped DEF Analyze, TypeInv, Shape

\* Steps that leave the heap alone.
LEMMA SameHeapTyped ==
    ASSUME TypeInv, NEW h \in Handlers, h \in Holding, NEW t, CarriesOn(t, running[h]),
           running' = [running EXCEPT ![h] = t],
           UNCHANGED <<disk, editor, docs, heap, published, sent>>, IsIndex(index')
    PROVE  TypeInv'
<1>1. /\ DOMAIN heap' = DOMAIN heap
      /\ \A r \in DOMAIN heap : IsDocument(heap'[r]) /\ heap'[r].uri = heap[r].uri
  BY DEF TypeInv, Shape
<1> QED
  BY <1>1, GoOnTyped

\* A handler resumed from its await keeps the types.
LEMMA ResumeTyped == ASSUME TypeInv, NEW h \in Handlers, Resume(h) PROVE TypeInv'
<1>1. running[h] # Idle
  BY IdleNowhere DEF Resume, PlacesInHandler
<1> DEFINE t == [running[h] EXCEPT !.at = "prune"]
<1>2. running' = [running EXCEPT ![h] = t]
  BY DEF Resume, Goto
<1>3. CarriesOn(t, running[h])
  BY <1>1, AtWork, TaskSteps DEF Resume, PlacesInHandler, IsTask
<1>4. h \in Holding
  BY <1>1, AtWork DEF Resume
<1> HIDE DEF t
<1> QED
  BY <1>2, <1>3, <1>4, SameHeapTyped DEF Resume, TypeInv, Shape

\* Dropping the previous entries of a document keeps the types.
LEMMA PruneTyped == ASSUME TypeInv, NEW h \in Handlers, PruneEntries(h) PROVE TypeInv'
<1>1. running[h] # Idle
  BY IdleNowhere DEF PruneEntries, PlacesInHandler
<1> DEFINE t == [running[h] EXCEPT !.at = "store"]
<1>2. running' = [running EXCEPT ![h] = t]
  BY DEF PruneEntries, Goto
<1>3. CarriesOn(t, running[h])
  BY <1>1, AtWork, TaskSteps DEF PruneEntries, PlacesInHandler, IsTask
<1>4. h \in Holding
  BY <1>1, AtWork DEF PruneEntries
<1>5. IsIndex(index')
  BY IndexSteps DEF PruneEntries, TypeInv, Shape
<1> HIDE DEF t
<1> QED
  BY <1>2, <1>3, <1>4, <1>5, SameHeapTyped DEF PruneEntries

\* Storing a document in the index keeps the types.
LEMMA StoreTyped == ASSUME TypeInv, NEW h \in Handlers, StoreDocument(h) PROVE TypeInv'
<1>1. running[h] # Idle
  BY IdleNowhere DEF StoreDocument, PlacesInHandler
<1>4. /\ h \in Holding /\ IsDocument(Doc(h)) /\ Doc(h).uri = running[h].uri
      /\ running[h].uri \in Files
  BY <1>1, AtWork, ServerAssumption DEF StoreDocument, Doc, TypeInv, Held, IsTask
<1>5. Includes(Doc(h).text) \in SUBSET Files
  BY <1>4, IncludesAreFiles DEF IsDocument
<1> DEFINE found == Includes(Doc(h).text)
           t == [running[h] EXCEPT !.at = "crawl", !.queue = found, !.visited = {running[h].uri}]
<1>2. running' = [running EXCEPT ![h].at = "crawl", ![h].queue = found,
                                 ![h].visited = {running[h].uri}]
  BY DEF StoreDocument
<1> HIDE DEF found
<1>6. running' = [running EXCEPT ![h] = t]
  BY <1>1, <1>2 DEF TypeInv, Shape
<1>3. CarriesOn(t, running[h])
  <2>1. {running[h].uri} \in SUBSET Files /\ found \in SUBSET Files
    BY <1>4, <1>5 DEF found
  <2>2. /\ "crawl" \in PlacesInHandler /\ "crawl" # "create"
        /\ IsTask(running[h]) /\ running[h].at # "create"
    BY <1>1, AtWork DEF StoreDocument, PlacesInHandler
  <2>3. running[h].text \in SUBSET Items /\ running[h].file \in Files
    BY <2>2 DEF IsTask
  <2> HIDE DEF found
  <2> QED
    BY <2>1, <2>2, <2>3, TaskSteps
<1>7. IsIndex(index')
  BY <1>4, IndexSteps DEF StoreDocument, TypeInv, Shape
<1> HIDE DEF t
<1> QED
  BY <1>3, <1>4, <1>6, <1>7, SameHeapTyped DEF StoreDocument

\* Reading the next file of a crawl keeps the types.
LEMMA CrawlTyped == ASSUME TypeInv, NEW h \in Handlers, CrawlOne(h) PROVE TypeInv'
<1>1. running[h] # Idle
  BY IdleNowhere DEF CrawlOne, PlacesInHandler
<1>2. h \in Holding /\ IsTask(running[h])
  BY <1>1, AtWork DEF CrawlOne
<1>3. PICK f \in running[h].queue :
          IF f \in running[h].visited \cup index.documents \/ disk[f] = Absent
          THEN running' = [running EXCEPT ![h].queue = @ \ {f}, ![h].visited = @ \cup {f}]
          ELSE running' = [running EXCEPT ![h].at = "fetched", ![h].file = f, ![h].text = disk[f],
                                          ![h].queue = @ \ {f}, ![h].visited = @ \cup {f}]
  BY DEF CrawlOne
<1>4. f \in Files /\ (disk[f] # Absent => disk[f] \in SUBSET Items)
  BY <1>2, <1>3 DEF IsTask, TypeInv, Shape
<1> DEFINE left == running[h].queue \ {f}
           seen == running[h].visited \cup {f}
<1>5. left \in SUBSET Files /\ seen \in SUBSET Files
  BY <1>2, <1>4 DEF IsTask
<1>6. IsIndex(index') /\ UNCHANGED <<disk, editor, docs, heap, published, sent>>
  BY DEF CrawlOne, TypeInv, Shape
<1>7. CASE f \in running[h].visited \cup index.documents \/ disk[f] = Absent
  <2> DEFINE t == [running[h] EXCEPT !.queue = left, !.visited = seen]
  <2>1. running' = [running EXCEPT ![h] = t]
    BY <1>2, <1>3, <1>7 DEF TypeInv, Shape, IsTask
  <2>2. CarriesOn(t, running[h])
    <3> HIDE DEF left, seen
    <3> QED
      BY <1>2, <1>4, <1>5, TaskSteps DEF CrawlOne, PlacesInHandler, IsTask
  <2> HIDE DEF t
  <2> QED
    BY <1>2, <1>6, <2>1, <2>2, SameHeapTyped
<1>8. CASE ~(f \in running[h].visited \cup index.documents \/ disk[f] = Absent)
  <2> DEFINE t == [running[h] EXCEPT !.at = "fetched", !.file = f, !.text = disk[f],
                                     !.queue = left, !.visited = seen]
  <2>1. running' = [running EXCEPT ![h] = t]
    BY <1>2, <1>3, <1>8 DEF TypeInv, Shape, IsTask
  <2>2. CarriesOn(t, running[h])
    <3> HIDE DEF left, seen
    <3> QED
      BY <1>2, <1>4, <1>5, <1>8, TaskSteps DEF CrawlOne, PlacesInHandler, IsTask
  <2> HIDE DEF t
  <2> QED
    BY <1>2, <1>6, <2>1, <2>2, SameHeapTyped
<1> QED
  BY <1>7, <1>8

\* Storing the file a crawl has read keeps the types.
LEMMA CrawlStoreTyped == ASSUME TypeInv, NEW h \in Handlers, CrawlStore(h) PROVE TypeInv'
<1>1. running[h] # Idle
  BY IdleNowhere DEF CrawlStore, PlacesInHandler
<1>2. h \in Holding /\ IsTask(running[h]) /\ running[h].uri \in Files
  BY <1>1, AtWork, ServerAssumption DEF CrawlStore, IsTask
<1> DEFINE queue == running[h].queue \cup (Includes(running[h].text) \ running[h].visited)
           t == [running[h] EXCEPT !.at = "crawl", !.file = running[h].uri, !.text = {}, !.queue = queue]
<1>3. queue \in SUBSET Files
  BY <1>2, IncludesAreFiles DEF IsTask
<1>4. running' = [running EXCEPT ![h].at = "crawl", ![h].file = running[h].uri, ![h].text = {},
                                 ![h].queue = queue]
  BY DEF CrawlStore
<1> HIDE DEF queue
<1>5. running' = [running EXCEPT ![h] = t]
  BY <1>2, <1>4 DEF TypeInv, Shape, IsTask
<1>6. CarriesOn(t, running[h])
  <2>1. "crawl" \in PlacesInHandler /\ "crawl" # "create" /\ running[h].at # "create"
    BY DEF CrawlStore, PlacesInHandler
  <2>2. {} \in SUBSET Items /\ running[h].visited \in SUBSET Files
    BY <1>2 DEF IsTask
  <2> QED
    BY <1>2, <1>3, <2>1, <2>2, TaskSteps
<1>7. IsIndex(index')
  <2>1. running[h].file \in Files /\ running[h].text \in SUBSET Items
    BY <1>2 DEF IsTask
  <2>2. Analyzed(running[h].file, running[h].text).uri \in Files
    BY <2>1, AnalyzedDocument
  <2> QED
    BY <2>2, IndexSteps DEF CrawlStore, TypeInv, Shape
<1> HIDE DEF t
<1> QED
  BY <1>2, <1>5, <1>6, <1>7, SameHeapTyped DEF CrawlStore

\* The task of a handler that has made its document, and that of didClose.
LEMMA TasksWithDocument ==
    ASSUME NEW s, IsTask(s), NEW r
    PROVE  /\ CarriesOn([s EXCEPT !.at = "register", !.doc = r, !.text = {}], [s EXCEPT !.doc = r])
           /\ [s EXCEPT !.doc = r].uri = s.uri /\ [s EXCEPT !.doc = r].doc = r
           /\ [s EXCEPT !.doc = r].blocking = s.blocking
<1> DEFINE e1 == [s EXCEPT !.at = "register"]
           e2 == [e1 EXCEPT !.doc = r]
           e3 == [e2 EXCEPT !.text = {}]
           T(a, d, x) ==
              [at |-> a, uri |-> s.uri, doc |-> d, text |-> x, blocking |-> s.blocking,
               queue |-> s.queue, visited |-> s.visited, file |-> s.file]
<1>1. [s EXCEPT !.at = "register", !.doc = r, !.text = {}] = e3
  OBVIOUS
<1>2. e1 = T("register", s.doc, s.text) /\ [s EXCEPT !.doc = r] = T(s.at, r, s.text)
  BY DEF IsTask
<1> HIDE DEF e1
<1>3. e2 = T("register", r, s.text)
  BY <1>2
<1> HIDE DEF e2
<1>4. e3 = T("register", r, {})
  BY <1>3
<1>5. IsTask(T("register", r, {}))
  BY DEF IsTask, PlacesInHandler
<1> HIDE DEF e3
<1> QED
  BY <1>1, <1>2, <1>4, <1>5 DEF CarriesOn, e1, e2, e3

\* Creating the document of didOpen keeps the types: its reference is a fresh one.
LEMMA CreateTyped == ASSUME TypeInv, NEW h \in Handlers, Create(h) PROVE TypeInv'
<1>1. running[h] # Idle
  BY IdleNowhere DEF Create, PlacesInHandler
<1>2. h \notin Holding /\ IsTask(running[h])
  BY <1>1, AtWork DEF Create
<1>3. Fresh \in References /\ Fresh \notin DOMAIN heap
  BY <1>2, FreshIsNew DEF TypeInv
<1> DEFINE d == Analyzed(running[h].uri, running[h].text)
           t == [running[h] EXCEPT !.at = "register", !.doc = Fresh, !.text = {}]
<1>4. IsDocument(d) /\ d.uri = running[h].uri
  BY <1>2, AnalyzedDocument DEF IsTask
<1>5. heap' = With(heap, {Fresh}, d)
  BY DEF Create
<1> HIDE DEF d
<1>6. /\ DOMAIN heap' = DOMAIN heap \cup {Fresh} /\ heap'[Fresh] = d
      /\ \A r \in DOMAIN heap : heap'[r] = heap[r]
  BY <1>3, <1>5 DEF With
<1>7. CarriesOn(t, [running[h] EXCEPT !.doc = Fresh])
  BY <1>2, TasksWithDocument
<1>8. IsTask(t) /\ t.at # "create" /\ t.uri = running[h].uri /\ t.doc = Fresh
  BY <1>2, <1>7, TasksWithDocument DEF CarriesOn
<1>9. running' = [running EXCEPT ![h] = t]
  BY <1>2 DEF Create, TypeInv, Shape, IsTask
<1> HIDE DEF t
<1>10. /\ running'[h] = t /\ t # Idle
       /\ \A g \in Handlers : g # h => running'[g] = running[g]
       /\ running' = [g \in Handlers |-> running'[g]]
  BY <1>8, <1>9, IdleIsNoTask DEF TypeInv, Shape
<1>11. Shape'
  <2>1. DOMAIN heap' \subseteq References /\ \A r \in DOMAIN heap' : IsDocument(heap'[r])
    BY <1>3, <1>4, <1>6 DEF TypeInv, Shape
  <2> QED
    BY <1>8, <1>10, <2>1 DEF Create, TypeInv, Shape
<1>12. Holding' = Holding \cup {h} /\ \A g \in Holding : running'[g] = running[g]
  BY <1>2, <1>8, <1>10 DEF Holding
<1>13. UNCHANGED docs
  BY DEF Create
<1>14. Used \cup {Fresh} \subseteq Used'
  BY <1>8, <1>10, <1>12, <1>13 DEF Used
<1>15. Held'
  <2>1. DOMAIN heap' \subseteq Used'
    BY <1>6, <1>14 DEF TypeInv, Held
  <2>2. \A u \in DOMAIN docs' : docs'[u] \in DOMAIN heap' /\ heap'[docs'[u]].uri = u
    BY <1>6, <1>13 DEF TypeInv, Held
  <2>3. \A g \in Holding : running'[g].doc \in DOMAIN heap' /\ heap'[running'[g].doc].uri = running'[g].uri
    BY <1>6, <1>12 DEF TypeInv, Held
  <2> QED
    BY <1>4, <1>6, <1>8, <1>10, <1>12, <2>1, <2>2, <2>3 DEF Held
<1> QED
  BY <1>11, <1>15 DEF TypeInv

\* Registering the created document under its URI keeps the types.
LEMMA RegisterTyped == ASSUME TypeInv, NEW h \in Handlers, Register(h) PROVE TypeInv'
<1>1. running[h] # Idle
  BY IdleNowhere DEF Register, PlacesInHandler
<1>2. /\ h \in Holding /\ IsTask(running[h]) /\ running[h].uri \in Openable
      /\ running[h].doc \in DOMAIN heap /\ heap[running[h].doc].uri = running[h].uri
  BY <1>1, AtWork DEF Register, TypeInv, Held, IsTask
<1> DEFINE t == [running[h] EXCEPT !.at = "prune"]
<1>3. running' = [running EXCEPT ![h] = t]
  BY DEF Register, Goto
<1>4. CarriesOn(t, running[h])
  BY <1>2, TaskSteps DEF Register, PlacesInHandler, IsTask
<1>5. IsTask(t) /\ t.uri = running[h].uri /\ t.doc = running[h].doc /\ t.at # "create"
  BY <1>4 DEF CarriesOn
<1> HIDE DEF t
<1>6. /\ running'[h] = t
      /\ \A g \in Handlers : g # h => running'[g] = running[g]
      /\ running' = [g \in Handlers |-> running'[g]]
  BY <1>3 DEF TypeInv, Shape
<1>7. /\ DOMAIN docs' = DOMAIN docs \cup {running[h].uri} /\ docs'[running[h].uri] = running[h].doc
      /\ \A u \in DOMAIN docs : u # running[h].uri => docs'[u] = docs[u]
  BY DEF Register, With
<1>8. \A g \in Handlers : running'[g] # Idle => IsTask(running'[g])
  BY <1>5, <1>6 DEF TypeInv, Shape
<1>9. \A u \in DOMAIN docs' : docs'[u] \in DOMAIN heap /\ heap[docs'[u]].uri = u
  BY <1>2, <1>7 DEF TypeInv, Held
<1>10. \A g \in Holding' : running'[g].doc \in DOMAIN heap /\ heap[running'[g].doc].uri = running'[g].uri
  BY <1>2, <1>5, <1>6 DEF Holding, TypeInv, Held
<1>11. /\ Held' /\ DOMAIN heap' \subseteq References
       /\ \A r \in DOMAIN heap' : r \in DOMAIN heap /\ heap'[r] = heap[r]
  <2>1. heap' = Only(heap, Needed) /\ DOMAIN heap \subseteq References /\ \A r \in DOMAIN heap : IsDocument(heap[r])
    BY DEF Register, Collect, TypeInv, Shape
  <2> QED
    BY <1>8, <1>9, <1>10, <2>1, CollectTyped
<1>12. Shape'
  BY <1>2, <1>6, <1>7, <1>8, <1>11 DEF Register, TypeInv, Shape
<1> QED
  BY <1>11, <1>12 DEF TypeInv

\* A handler that is done lets its document go.
LEMMA DoneTyped ==
    ASSUME TypeInv, NEW h \in Handlers, running' = [running EXCEPT ![h] = Idle], Collect,
           UNCHANGED <<disk, editor, docs, index, sent>>,
           published' = [u \in Openable |-> published'[u]]
    PROVE  TypeInv'
<1>1. /\ running'[h] = Idle
      /\ \A g \in Handlers : g # h => running'[g] = running[g]
      /\ running' = [g \in Handlers |-> running'[g]]
  BY DEF TypeInv, Shape
<1>2. \A g \in Handlers : running'[g] # Idle => IsTask(running'[g])
  BY <1>1 DEF TypeInv, Shape
<1>3. \A u \in DOMAIN docs' : docs'[u] \in DOMAIN heap /\ heap[docs'[u]].uri = u
  BY DEF TypeInv, Held
<1>4. \A g \in Holding' : running'[g].doc \in DOMAIN heap /\ heap[running'[g].doc].uri = running'[g].uri
  BY <1>1 DEF Holding, TypeInv, Held
<1>5. /\ Held' /\ DOMAIN heap' \subseteq References
      /\ \A r \in DOMAIN heap' : r \in DOMAIN heap /\ heap'[r] = heap[r]
  <2>1. heap' = Only(heap, Needed) /\ DOMAIN heap \subseteq References /\ \A r \in DOMAIN heap : IsDocument(heap[r])
    BY DEF Collect, TypeInv, Shape
  <2> QED
    BY <1>2, <1>3, <1>4, <2>1, CollectTyped
<1>6. Shape'
  BY <1>1, <1>2, <1>5 DEF TypeInv, Shape
<1> QED
  BY <1>5, <1>6 DEF TypeInv

\* Publishing the diagnostics ends the handler and keeps the types.
LEMMA PublishTyped == ASSUME TypeInv, NEW h \in Handlers, Publish(h) PROVE TypeInv'
<1>1. published' = [u \in Openable |-> published'[u]]
  <2> DEFINE p == [own |-> Doc(h).diagnostics, pools |-> Undeclared(index, Doc(h))]
  <2>1. published' = [published EXCEPT ![running[h].uri] = p]
    BY DEF Publish
  <2> HIDE DEF p
  <2> QED
    BY <2>1 DEF TypeInv, Shape
<1> QED
  BY <1>1, DoneTyped DEF Publish

\* The end of didClose keeps the types.
LEMMA ClosedownTyped == ASSUME TypeInv, NEW h \in Handlers, Closedown(h) PROVE TypeInv'
BY DoneTyped DEF Closedown, TypeInv, Shape

\* The task of didClose, as the handler that begins it leaves it.
LEMMA ClosingTask ==
    ASSUME NEW u \in Openable, NEW r, TypeInv, Begin([Task(u, "prune", r, {}) EXCEPT !.blocking = TRUE])
    PROVE  \E h, t :
              /\ h \in Handlers \ Busy
              /\ IsTask(t) /\ t.at = "prune" /\ t.uri = u /\ t.doc = r /\ t.blocking
              /\ running[h] = Idle /\ running'[h] = t
              /\ \A g \in Handlers : g # h => running'[g] = running[g]
              /\ running' = [g \in Handlers |-> running'[g]]
<1> DEFINE t == [Task(u, "prune", r, {}) EXCEPT !.blocking = TRUE]
<1>1. t = [at |-> "prune", uri |-> u, doc |-> r, text |-> {}, blocking |-> TRUE,
           queue |-> {}, visited |-> {}, file |-> u]
  <2>1. ASSUME NEW no, NEW yes
        PROVE  [[at |-> "prune", uri |-> u, doc |-> r, text |-> {}, blocking |-> no,
                 queue |-> {}, visited |-> {}, file |-> u] EXCEPT !.blocking = yes]
               = [at |-> "prune", uri |-> u, doc |-> r, text |-> {}, blocking |-> yes,
                  queue |-> {}, visited |-> {}, file |-> u]
    OBVIOUS
  <2> QED
    BY <2>1, Zenon DEF Task
<1>2. IsTask(t) /\ t.at = "prune" /\ t.uri = u /\ t.doc = r /\ t.blocking
  BY <1>1, ServerAssumption DEF IsTask, PlacesInHandler
<1>3. PICK h \in Handlers \ Busy : running' = [running EXCEPT ![h] = t]
  BY DEF Begin
<1> HIDE DEF t
<1>4. /\ running[h] = Idle /\ running'[h] = t
      /\ \A g \in Handlers : g # h => running'[g] = running[g]
      /\ running' = [g \in Handlers |-> running'[g]]
  BY <1>3 DEF Busy, TypeInv, Shape
<1> QED
  BY <1>2, <1>4

\* didClose keeps the types.
LEMMA CloseTyped == ASSUME TypeInv, NEW u \in Openable, DidClose(u) PROVE TypeInv'
<1>1. /\ editor' \in [Openable -> (SUBSET Items) \cup {Closed}]
      /\ disk' \in [Files -> (SUBSET Items) \cup {Absent}]
      /\ sent' \in 0 .. Notifications /\ published' = [f \in Openable |-> published'[f]]
  BY ServerAssumption DEF DidClose, Notify, TypeInv, Shape
<1>2. /\ DOMAIN docs' = DOMAIN docs \ {u} /\ DOMAIN docs' \subseteq Openable
      /\ \A f \in DOMAIN docs' : docs'[f] = docs[f]
  BY DEF DidClose, Without, Restrict, TypeInv, Shape
<1>3. CASE disk[u] = Absent
  <2>1. UNCHANGED running /\ index' = Remove(index, u) /\ Collect
    BY <1>3 DEF DidClose
  <2>2. IsIndex(index')
    BY <2>1, IndexSteps DEF TypeInv, Shape
  <2>3. \A g \in Handlers : running'[g] # Idle => IsTask(running'[g])
    BY <2>1 DEF TypeInv, Shape
  <2>4. \A f \in DOMAIN docs' : docs'[f] \in DOMAIN heap /\ heap[docs'[f]].uri = f
    BY <1>2 DEF TypeInv, Held
  <2>5. \A g \in Holding' : running'[g].doc \in DOMAIN heap /\ heap[running'[g].doc].uri = running'[g].uri
    BY <2>1 DEF Holding, TypeInv, Held
  <2>6. /\ Held' /\ DOMAIN heap' \subseteq References
        /\ \A r \in DOMAIN heap' : r \in DOMAIN heap /\ heap'[r] = heap[r]
    <3>1. heap' = Only(heap, Needed) /\ DOMAIN heap \subseteq References /\ \A r \in DOMAIN heap : IsDocument(heap[r])
      BY <2>1 DEF Collect, TypeInv, Shape
    <3> QED
      BY <2>3, <2>4, <2>5, <3>1, CollectTyped
  <2>7. Shape'
    BY <1>1, <1>2, <2>1, <2>2, <2>3, <2>6 DEF TypeInv, Shape
  <2> QED
    BY <2>6, <2>7 DEF TypeInv
<1>4. CASE disk[u] # Absent
  <2> DEFINE d == Analyzed(u, disk[u])
             b == With(heap, {Fresh}, d)
  <2>1. Begin([Task(u, "prune", Fresh, {}) EXCEPT !.blocking = TRUE]) /\ heap' = Only(b, Needed) /\ UNCHANGED index
    BY <1>4 DEF DidClose
  <2>2. disk[u] \in SUBSET Items
    BY <1>4, ServerAssumption DEF TypeInv, Shape
  <2>3. IsDocument(d) /\ d.uri = u
    BY <2>2, AnalyzedDocument
  <2>4. PICK h, t :
              /\ h \in Handlers \ Busy
              /\ IsTask(t) /\ t.at = "prune" /\ t.uri = u /\ t.doc = Fresh /\ t.blocking
              /\ running[h] = Idle /\ running'[h] = t
              /\ \A g \in Handlers : g # h => running'[g] = running[g]
              /\ running' = [g \in Handlers |-> running'[g]]
    BY <2>1, ClosingTask
  <2>5. Fresh \in References /\ Fresh \notin DOMAIN heap
    BY <2>4, FreshIsNew DEF TypeInv, Holding
  <2> HIDE DEF d
  <2>6. DOMAIN b = DOMAIN heap \cup {Fresh} /\ b[Fresh] = d /\ \A r \in DOMAIN heap : b[r] = heap[r]
    BY <2>5 DEF With
  <2> HIDE DEF b
  <2>7. \A g \in Handlers : running'[g] # Idle => IsTask(running'[g])
    BY <2>4 DEF TypeInv, Shape
  <2>8. \A f \in DOMAIN docs' : docs'[f] \in DOMAIN b /\ b[docs'[f]].uri = f
    BY <1>2, <2>6 DEF TypeInv, Held
  <2>9. \A g \in Holding' : running'[g].doc \in DOMAIN b /\ b[running'[g].doc].uri = running'[g].uri
    <3> SUFFICES ASSUME NEW g \in Holding'
                 PROVE  running'[g].doc \in DOMAIN b /\ b[running'[g].doc].uri = running'[g].uri
      OBVIOUS
    <3>1. CASE g = h
      BY <2>3, <2>4, <2>6, <3>1
    <3>2. CASE g # h
      <4>1. g \in Holding /\ running'[g] = running[g]
        BY <2>4, <3>2 DEF Holding
      <4> QED
        BY <2>6, <4>1 DEF TypeInv, Held
    <3> QED
      BY <3>1, <3>2
  <2>10. /\ Held' /\ DOMAIN heap' \subseteq References
         /\ \A r \in DOMAIN heap' : r \in DOMAIN b /\ heap'[r] = b[r]
    <3>1. DOMAIN b \subseteq References /\ \A r \in DOMAIN b : IsDocument(b[r])
      BY <2>3, <2>5, <2>6 DEF TypeInv, Shape
    <3> QED
      BY <2>1, <2>7, <2>8, <2>9, <3>1, CollectTyped
  <2>11. \A r \in DOMAIN heap' : IsDocument(heap'[r])
    BY <2>3, <2>6, <2>10 DEF TypeInv, Shape
  <2>12. Shape'
    BY <1>1, <1>2, <2>1, <2>4, <2>7, <2>10, <2>11 DEF TypeInv, Shape
  <2> QED
    BY <2>10, <2>12 DEF TypeInv
<1> QED
  BY <1>3, <1>4

-----------------------------------------------------------------------------
\* Every step of the server keeps the types.
LEMMA TypesStay == TypeInv /\ [Next]_vars => TypeInv'
<1> SUFFICES ASSUME TypeInv, [Next]_vars PROVE TypeInv'
  OBVIOUS
<1>1. ASSUME NEW u \in Openable, DidOpen(u) PROVE TypeInv'
  BY <1>1, OpenTyped
<1>2. ASSUME NEW u \in Openable, DidSave(u) PROVE TypeInv'
  BY <1>2, SaveTyped
<1>3. ASSUME NEW u \in Openable, DidClose(u) PROVE TypeInv'
  BY <1>3, CloseTyped
<1>4. ASSUME NEW u \in Openable, NEW item \in Edits[u], DidChange(u, item) PROVE TypeInv'
  BY <1>4, ChangeTyped
<1>5. ASSUME NEW h \in Handlers, Step(h) PROVE TypeInv'
  BY <1>5, CreateTyped, RegisterTyped, UpdateTyped, AnalyzeTyped, ResumeTyped, PruneTyped,
     StoreTyped, CrawlTyped, CrawlStoreTyped, PublishTyped, ClosedownTyped DEF Step
<1>6. CASE UNCHANGED vars
  <2>1. UNCHANGED <<docs, heap, index, running, published>>
    BY <1>6 DEF vars
  <2>2. /\ disk' \in [Files -> (SUBSET Items) \cup {Absent}]
        /\ editor' \in [Openable -> (SUBSET Items) \cup {Closed}] /\ sent' \in 0 .. Notifications
    BY <1>6 DEF vars, TypeInv, Shape
  <2> QED
    BY <2>1, <2>2, NobodyTyped
<1> QED
  BY <1>1, <1>2, <1>3, <1>4, <1>5, <1>6 DEF Next

\* The server's state keeps its shape: a handler is at a line it has and works
\* on a document that is there and bears its file's name, however notifications
\* and threads interleave and whether or not the editor waits
\* (src/a816/lsp/server.py).
THEOREM ServerTypes == Spec => []TypeOK
<1>1. TypeInv => TypeOK
  <2> SUFFICES ASSUME TypeInv PROVE TypeOK
    OBVIOUS
  <2>1. \A h \in Busy : IsTask(running[h]) /\ (running[h].at # "create" => running[h].doc \in DOMAIN heap)
    BY AtWork DEF Busy
  <2> QED
    BY <2>1 DEF TypeOK, TypeInv, Shape, Held, IsIndex, IsTask
<1>2. Spec => []TypeInv
  BY TypesAtFirst, TypesStay, PTL DEF Spec
<1> QED
  BY <1>1, <1>2, PTL

-----------------------------------------------------------------------------
(* A patient editor.                                                       *)

\* What is not about file v stays as it is.
Apart(v) ==
    /\ \A g \in Handlers :
          /\ (running[g] # Idle /\ running[g].uri # v) => running'[g] = running[g]
          /\ (running'[g] # Idle /\ running'[g].uri # v) => running'[g] = running[g]
    /\ \A w \in Openable \ {v} :
          /\ editor'[w] = editor[w] /\ published'[w] = published[w]
          /\ w \in DOMAIN docs' <=> w \in DOMAIN docs
          /\ w \in DOMAIN docs => docs'[w] = docs[w]
    /\ \A r \in DOMAIN heap \cap DOMAIN heap' : heap[r].uri # v => heap'[r] = heap[r]

\* A step about one file need only look after that file.
LEMMA OneFile ==
    ASSUME PatientInv, TypeInv', NEW v \in Openable, Apart(v),
           \A g, h \in Handlers :
               (running'[g] # Idle /\ running'[h] # Idle
                  /\ running'[g].uri = v /\ running'[h].uri = v) => g = h,
           \A h \in Handlers :
               (running'[h] # Idle /\ running'[h].uri = v) => InPlace(h)' /\ UpToText(h)',
           Quiet(v)' => AsShown(v)'
    PROVE  PatientInv'
<1>1. OneHandlerEach'
  BY DEF PatientInv, OneHandlerEach, Apart
<1>2. ASSUME NEW h \in Handlers, running'[h] # Idle, running'[h].uri # v
      PROVE  InPlace(h)' /\ UpToText(h)'
  <2>1. /\ running'[h] = running[h] /\ running[h] # Idle /\ InPlace(h) /\ UpToText(h)
        /\ IsTask(running[h]) /\ running[h].uri \in Openable \ {v}
    BY <1>2 DEF PatientInv, Apart, TypeInv, Shape, IsTask
  <2>2. InPlace(h)'
    BY <2>1 DEF InPlace, Apart
  <2>3. running[h].at # "create" => heap'[running[h].doc] = heap[running[h].doc]
    BY <1>2, <2>1 DEF PatientInv, TypeInv, Held, Holding, Apart
  <2>4. UpToText(h)'
    BY <2>1, <2>3 DEF UpToText, Fits, Updating, Apart
  <2> QED
    BY <2>2, <2>4
<1>3. ASSUME NEW w \in Openable \ {v}, Quiet(w)' PROVE AsShown(w)'
  <2>1. Quiet(w) /\ AsShown(w)
    BY <1>3 DEF Quiet, PatientInv, Apart
  <2>2. w \in DOMAIN docs => heap'[docs[w]] = heap[docs[w]]
    BY <1>3 DEF PatientInv, TypeInv, Held, Apart
  <2> QED
    BY <2>1, <2>2 DEF AsShown, Fits, Apart
<1> QED
  BY <1>1, <1>2, <1>3 DEF PatientInv

\* The state of a handler and its file, spelled out.
LEMMA Patience ==
    ASSUME PatientInv, NEW h \in Handlers, running[h] # Idle
    PROVE  /\ IsTask(running[h]) /\ InPlace(h) /\ UpToText(h) /\ running[h].uri \in Openable
           /\ \A g \in Handlers : (g # h /\ running[g] # Idle) => running[g].uri # running[h].uri
BY DEF PatientInv, TypeInv, Shape, OneHandlerEach, IsTask

\* A step of a handler on its own file.
LEMMA OwnFile ==
    ASSUME PatientInv, TypeInv', NEW h \in Handlers, running[h] # Idle,
           NEW v \in Openable, running[h].uri = v,
           \A g \in Handlers : g # h => running'[g] = running[g],
           running'[h] # Idle => running'[h].uri = v,
           \A w \in Openable \ {v} :
              /\ editor'[w] = editor[w] /\ published'[w] = published[w]
              /\ w \in DOMAIN docs' <=> w \in DOMAIN docs
              /\ w \in DOMAIN docs => docs'[w] = docs[w],
           \A r \in DOMAIN heap \cap DOMAIN heap' : heap[r].uri # v => heap'[r] = heap[r],
           running'[h] # Idle => InPlace(h)' /\ UpToText(h)',
           running'[h] = Idle => AsShown(v)'
    PROVE  PatientInv'
<1>1. \A g \in Handlers : (g # h /\ running[g] # Idle) => running[g].uri # v
  BY Patience
<1>2. Apart(v)
  BY <1>1 DEF Apart
<1>3. \A g \in Handlers : (running'[g] # Idle /\ running'[g].uri = v) => g = h
  BY <1>1
<1>4. Quiet(v)' => AsShown(v)'
  BY DEF Quiet
<1> QED
  BY <1>2, <1>3, <1>4, OneFile

\* A handler that has got past the text goes on.
LEMMA OnTheWay ==
    ASSUME PatientInv, TypeInv', NEW h \in Handlers,
           UNCHANGED <<editor, docs, heap, published>>,
           running[h] # Idle, running'[h] # Idle,
           running[h].at \notin Opening \cup Updating, running'[h].at \notin Opening \cup Updating,
           running'[h].uri = running[h].uri, running'[h].doc = running[h].doc,
           running'[h].blocking = running[h].blocking,
           running'[h].at # "analyzed",
           \A g \in Handlers : g # h => running'[g] = running[g]
    PROVE  PatientInv'
<1>1. InPlace(h) /\ UpToText(h)
  BY Patience
<1>2. InPlace(h)'
  BY <1>1 DEF InPlace, Opening, Updating
<1>3. UpToText(h)'
  BY <1>1 DEF UpToText, Fits, Opening, Updating
<1> QED
  BY <1>2, <1>3, Patience, OwnFile

\* The server starts with no file open and no handler at work.
LEMMA PatientAtFirst == Init => PatientInv
<1> SUFFICES ASSUME Init PROVE PatientInv
  OBVIOUS
<1>1. \A h \in Handlers : running[h] = Idle
  BY DEF Init
<1>2. \A u \in Openable : AsShown(u)
  BY DEF Init, AsShown, NoFunction
<1> QED
  BY <1>1, <1>2, TypesAtFirst DEF PatientInv, OneHandlerEach

\* The steps from the analysed document to the last look at the disk.
LEMMA GoingOnPatiently ==
    ASSUME PatientInv, NEW h \in Handlers,
           Resume(h) \/ PruneEntries(h) \/ StoreDocument(h) \/ CrawlOne(h) \/ CrawlStore(h)
    PROVE  PatientInv'
<1>1. TypeInv'
  BY ResumeTyped, PruneTyped, StoreTyped, CrawlTyped, CrawlStoreTyped DEF PatientInv
<1>2. /\ running[h].at \in {"analyzed", "prune", "store", "crawl", "fetched"} /\ running[h] # Idle
      /\ UNCHANGED <<editor, docs, heap, published>>
  BY IdleNowhere DEF Resume, PruneEntries, StoreDocument, CrawlOne, CrawlStore, PlacesInHandler
<1>3. IsTask(running[h]) /\ running = [g \in Handlers |-> running[g]]
  BY <1>2 DEF PatientInv, TypeInv, Shape
<1>4. /\ running'[h].uri = running[h].uri /\ running'[h].doc = running[h].doc
      /\ running'[h].blocking = running[h].blocking
      /\ running'[h].at \in {"prune", "store", "crawl", "fetched"}
      /\ \A g \in Handlers : g # h => running'[g] = running[g]
  <2>1. CASE Resume(h) \/ PruneEntries(h)
    BY <1>3, <2>1 DEF Resume, PruneEntries, Goto, IsTask
  <2>2. CASE StoreDocument(h)
    <3> DEFINE found == Includes(Doc(h).text)
    <3>1. running' = [running EXCEPT ![h].at = "crawl", ![h].queue = found,
                                     ![h].visited = {running[h].uri}]
      BY <2>2 DEF StoreDocument
    <3> HIDE DEF found
    <3> QED
      BY <1>3, <3>1 DEF IsTask
  <2>3. CASE CrawlOne(h)
    <3>1. PICK queue, visited, f :
             \/ running' = [running EXCEPT ![h].queue = queue, ![h].visited = visited]
             \/ running' = [running EXCEPT ![h].at = "fetched", ![h].file = f, ![h].text = disk[f],
                                           ![h].queue = queue, ![h].visited = visited]
      <4>1. PICK f \in running[h].queue :
             \/ running' = [running EXCEPT ![h].queue = @ \ {f}, ![h].visited = @ \cup {f}]
             \/ running' = [running EXCEPT ![h].at = "fetched", ![h].file = f, ![h].text = disk[f],
                                           ![h].queue = @ \ {f}, ![h].visited = @ \cup {f}]
        BY <2>3 DEF CrawlOne
      <4> QED
        BY <4>1, Zenon
    <3>2. CASE running' = [running EXCEPT ![h].queue = queue, ![h].visited = visited]
      BY <1>2, <1>3, <2>3, <3>2 DEF IsTask, CrawlOne
    <3>3. CASE running' = [running EXCEPT ![h].at = "fetched", ![h].file = f, ![h].text = disk[f],
                                          ![h].queue = queue, ![h].visited = visited]
      BY <1>3, <3>3 DEF IsTask
    <3> QED
      BY <3>1, <3>2, <3>3
  <2>4. CASE CrawlStore(h)
    <3> DEFINE queue == running[h].queue \cup (Includes(running[h].text) \ running[h].visited)
    <3>1. running' = [running EXCEPT ![h].at = "crawl", ![h].file = running[h].uri, ![h].text = {},
                                     ![h].queue = queue]
      BY <2>4 DEF CrawlStore
    <3> HIDE DEF queue
    <3> QED
      BY <1>3, <3>1 DEF IsTask
  <2> QED
    BY <2>1, <2>2, <2>3, <2>4
<1>5. running'[h] # Idle
  BY <1>4, IdleNowhere DEF PlacesInHandler, Idle
<1> QED
  BY <1>1, <1>2, <1>4, <1>5, OnTheWay DEF Opening, Updating

\* Creating the document of didOpen keeps PatientInv.
LEMMA CreatePatiently == ASSUME PatientInv, NEW h \in Handlers, Create(h) PROVE PatientInv'
<1>1. TypeInv'
  BY CreateTyped DEF PatientInv
<1>2. running[h] # Idle
  BY IdleNowhere DEF Create, PlacesInHandler
<1>3. PICK v \in Openable : v = running[h].uri
  BY <1>2, Patience
<1>4. IsTask(running[h]) /\ InPlace(h) /\ UpToText(h)
  BY <1>2, Patience
<1>5. Fresh \notin DOMAIN heap
  BY <1>2, AtWork, FreshIsNew DEF Create, PatientInv, TypeInv
<1>6. /\ CarriesOn([running[h] EXCEPT !.at = "register", !.doc = Fresh, !.text = {}],
                   [running[h] EXCEPT !.doc = Fresh])
      /\ [running[h] EXCEPT !.doc = Fresh].uri = v /\ [running[h] EXCEPT !.doc = Fresh].doc = Fresh
      /\ [running[h] EXCEPT !.doc = Fresh].blocking = running[h].blocking
  BY <1>3, <1>4, TasksWithDocument
<1>7. /\ running'[h] = [running[h] EXCEPT !.at = "register", !.doc = Fresh, !.text = {}]
      /\ running'[h].at = "register"
      /\ \A g \in Handlers : g # h => running'[g] = running[g]
  BY <1>4 DEF Create, PatientInv, TypeInv, Shape, IsTask
<1>8. /\ IsTask(running'[h]) /\ running'[h] # Idle
      /\ running'[h].uri = v /\ running'[h].doc = Fresh /\ running'[h].blocking = running[h].blocking
  BY <1>6, <1>7, IdleIsNoTask DEF CarriesOn
<1> DEFINE d == Analyzed(running[h].uri, running[h].text)
<1>9. d.text = running[h].text /\ DOMAIN d.diagnostics = Issues(running[h].text)
  BY <1>4, AnalyzedDocument DEF IsTask
<1>10. heap' = With(heap, {Fresh}, d) /\ UNCHANGED <<editor, docs, published>>
  BY DEF Create
<1> HIDE DEF d
<1>11. heap'[Fresh] = d /\ \A r \in DOMAIN heap : heap'[r] = heap[r]
  BY <1>5, <1>10 DEF With
<1>12. running[h].at = "create" /\ running[h].text = editor[v]
  BY <1>3, <1>4 DEF Create, UpToText
<1>13. InPlace(h)'
  BY <1>3, <1>4, <1>7, <1>8, <1>10, <1>12 DEF InPlace, Opening, Updating
<1>14. UpToText(h)'
  BY <1>7, <1>8, <1>9, <1>10, <1>11, <1>12 DEF UpToText, Fits, Updating
<1> QED
  BY <1>1, <1>2, <1>3, <1>7, <1>8, <1>10, <1>11, <1>13, <1>14, OwnFile

\* Registering the document keeps PatientInv: it holds the text the editor opened.
LEMMA RegisterPatiently == ASSUME PatientInv, NEW h \in Handlers, Register(h) PROVE PatientInv'
<1>1. TypeInv'
  BY RegisterTyped DEF PatientInv
<1>2. running[h] # Idle
  BY IdleNowhere DEF Register, PlacesInHandler
<1>3. PICK v \in Openable : v = running[h].uri
  BY <1>2, Patience
<1>4. IsTask(running[h]) /\ InPlace(h) /\ UpToText(h)
  BY <1>2, Patience
<1>5. /\ running'[h].at = "prune" /\ running'[h].uri = v /\ running'[h].doc = running[h].doc
      /\ running'[h].blocking = running[h].blocking
      /\ \A g \in Handlers : g # h => running'[g] = running[g]
  BY <1>3, <1>4 DEF Register, Goto, PatientInv, TypeInv, Shape, IsTask
<1>6. running'[h] # Idle
  BY <1>5 DEF Idle
<1>7. /\ DOMAIN docs' = DOMAIN docs \cup {v} /\ docs'[v] = running[h].doc
      /\ \A w \in DOMAIN docs : w # v => docs'[w] = docs[w]
  BY <1>3 DEF Register, With
<1>8. \A r \in DOMAIN heap' : heap'[r] = heap[r]
  BY DEF Register, Collect, Only, Restrict
<1>9. running[h].doc \in DOMAIN heap'
  BY <1>1, <1>5, <1>6 DEF TypeInv, Held, Holding
<1>10. running[h].at = "register" /\ UNCHANGED <<editor, published>>
  BY DEF Register
<1>11. InPlace(h)'
  BY <1>3, <1>4, <1>5, <1>7, <1>10 DEF InPlace, Opening, Updating
<1>12. UpToText(h)'
  BY <1>3, <1>4, <1>5, <1>8, <1>9, <1>10 DEF UpToText, Fits, Updating
<1> QED
  BY <1>1, <1>2, <1>3, <1>5, <1>6, <1>7, <1>8, <1>10, <1>11, <1>12, OwnFile

\* update_content keeps PatientInv: the document takes the text the editor sent.
LEMMA UpdatePatiently == ASSUME PatientInv, NEW h \in Handlers, Update(h) PROVE PatientInv'
<1>1. TypeInv'
  BY UpdateTyped DEF PatientInv
<1>2. running[h] # Idle
  BY IdleNowhere DEF Update, PlacesInHandler
<1>3. PICK v \in Openable : v = running[h].uri
  BY <1>2, Patience
<1>4. /\ IsTask(running[h]) /\ InPlace(h) /\ UpToText(h)
      /\ running[h].doc \in DOMAIN heap /\ heap[running[h].doc].uri = v
      /\ IsDocument(heap[running[h].doc]) /\ running[h].text \in SUBSET Items
  BY <1>2, <1>3, AtWork, Patience DEF Update, PatientInv, TypeInv, Held, IsTask
<1>5. /\ running'[h].at = "parse" /\ running'[h].uri = v /\ running'[h].doc = running[h].doc
      /\ running'[h].blocking = running[h].blocking
      /\ \A g \in Handlers : g # h => running'[g] = running[g]
  BY <1>3, <1>4 DEF Update, PatientInv, TypeInv, Shape, IsTask
<1>6. running'[h] # Idle
  BY <1>5 DEF Idle
<1>7. /\ heap' = [heap EXCEPT ![running[h].doc] = SetText(@, running[h].text)]
      /\ UNCHANGED <<editor, docs, published>> /\ running[h].at = "set"
  BY DEF Update
<1>8. /\ heap'[running[h].doc].text = running[h].text
      /\ heap'[running[h].doc].diagnostics = EmptyBag
      /\ \A r \in DOMAIN heap : r # running[h].doc => heap'[r] = heap[r]
  BY <1>4, <1>7, DocumentSteps
<1>9. DOMAIN heap'[running[h].doc].diagnostics = {}
  BY <1>8, DiagnosticsOf
<1>10. InPlace(h)'
  BY <1>3, <1>4, <1>5, <1>7 DEF InPlace, Opening, Updating
<1>11. UpToText(h)'
  BY <1>3, <1>4, <1>5, <1>7, <1>8, <1>9 DEF UpToText, Updating
<1> QED
  BY <1>1, <1>2, <1>3, <1>4, <1>5, <1>6, <1>7, <1>8, <1>10, <1>11, OwnFile

\* A step of analyze() keeps PatientInv: the diagnostics it adds are issues of the text the editor
\* shows.
LEMMA AnalyzePatiently == ASSUME PatientInv, NEW h \in Handlers, Analyze(h) PROVE PatientInv'
<1>1. TypeInv'
  BY AnalyzeTyped DEF PatientInv
<1>2. running[h] # Idle
  BY IdleNowhere DEF Analyze, PlacesInHandler
<1>3. PICK v \in Openable : v = running[h].uri
  BY <1>2, Patience
<1>4. /\ IsTask(running[h]) /\ InPlace(h) /\ UpToText(h)
      /\ running[h].doc \in DOMAIN heap /\ heap[running[h].doc].uri = v
      /\ IsDocument(heap[running[h].doc])
  BY <1>2, <1>3, AtWork, Patience DEF Analyze, PatientInv, TypeInv, Held
<1>5. /\ running[h].at \in {"parse", "extract", "lint"} /\ running'[h].at \in {"extract", "lint", "analyzed"}
      /\ running'[h].at = "analyzed" => running[h].at = "lint"
      /\ running'[h].uri = v /\ running'[h].doc = running[h].doc
      /\ running'[h].blocking = running[h].blocking
      /\ \A g \in Handlers : g # h => running'[g] = running[g]
      /\ UNCHANGED <<editor, docs, published>>
  BY <1>3, <1>4 DEF Analyze, Goto, PatientInv, TypeInv, Shape, IsTask
<1>6. running'[h] # Idle
  BY <1>5 DEF Idle
<1> DEFINE before == heap[running[h].doc]
           after == heap'[running[h].doc]
<1>7. /\ after.text = before.text
      /\ \/ after.diagnostics = before.diagnostics /\ running[h].at # "lint"
         \/ after.diagnostics = before.diagnostics (+) SetToBag(Issues(before.text))
      /\ \A r \in DOMAIN heap : r # running[h].doc => heap'[r] = heap[r]
  BY <1>4, DocumentSteps DEF Analyze
<1>8. before.text = editor[v] /\ DOMAIN before.diagnostics \subseteq Issues(editor[v])
  BY <1>3, <1>4, <1>5 DEF UpToText, Updating
<1> HIDE DEF before, after
<1>9. /\ after.text = editor[v] /\ DOMAIN after.diagnostics \subseteq Issues(editor[v])
      /\ running[h].at = "lint" => DOMAIN after.diagnostics = Issues(editor[v])
  <2>1. after.text = editor[v]
    BY <1>7, <1>8
  <2>2. CASE after.diagnostics = before.diagnostics /\ running[h].at # "lint"
    BY <1>8, <2>1, <2>2
  <2>3. CASE after.diagnostics = before.diagnostics (+) SetToBag(Issues(before.text))
    <3>1. DOMAIN after.diagnostics = DOMAIN before.diagnostics \cup Issues(editor[v])
      BY <1>8, <2>3, DiagnosticsOf
    <3> QED
      BY <1>8, <2>1, <3>1
  <2> QED
    BY <1>7, <2>2, <2>3
<1>10. InPlace(h)'
  BY <1>3, <1>4, <1>5 DEF InPlace, Opening, Updating
<1>11. UpToText(h)'
  BY <1>5, <1>9 DEF UpToText, Fits, Updating, after
<1> QED
  BY <1>1, <1>2, <1>3, <1>4, <1>5, <1>6, <1>7, <1>10, <1>11, OwnFile

\* Publishing keeps PatientInv: what is shown is the diagnosis of the open text.
LEMMA PublishPatiently == ASSUME PatientInv, NEW h \in Handlers, Publish(h) PROVE PatientInv'
<1>1. TypeInv'
  BY PublishTyped DEF PatientInv
<1>2. running[h] # Idle
  BY IdleNowhere DEF Publish, Crawled, PlacesInHandler
<1>3. PICK v \in Openable : v = running[h].uri
  BY <1>2, Patience
<1>4. InPlace(h) /\ UpToText(h)
  BY <1>2, Patience
<1>5. /\ running[h].at = "crawl" /\ ~running[h].blocking
      /\ UNCHANGED <<disk, editor, docs>>
      /\ running' = [running EXCEPT ![h] = Idle]
  BY DEF Publish, Crawled
<1>6. running'[h] = Idle /\ \A g \in Handlers : g # h => running'[g] = running[g]
  BY <1>5 DEF PatientInv, TypeInv, Shape
<1>7. /\ published'[v].own = heap[running[h].doc].diagnostics
      /\ \A w \in Openable \ {v} : published'[w] = published[w]
  <2> DEFINE own == Doc(h).diagnostics
             pools == Undeclared(index, Doc(h))
  <2>1. published' = [published EXCEPT ![v] = [own |-> own, pools |-> pools]]
    BY <1>3 DEF Publish
  <2> HIDE DEF pools
  <2> QED
    BY <2>1 DEF PatientInv, TypeInv, Shape, Doc
<1>8. \A r \in DOMAIN heap' : heap'[r] = heap[r]
  BY DEF Publish, Collect, Only, Restrict
<1>9. v \in DOMAIN docs /\ docs[v] = running[h].doc /\ editor[v] # Closed
  BY <1>3, <1>4, <1>5 DEF InPlace, Opening
<1>10. Fits(heap[running[h].doc], v)
  BY <1>3, <1>4, <1>5 DEF UpToText, Updating
<1>11. AsShown(v)'
  <2>1. docs'[v] \in DOMAIN heap' /\ heap'[docs'[v]] = heap[running[h].doc]
    BY <1>1, <1>5, <1>8, <1>9 DEF TypeInv, Held
  <2> QED
    BY <1>5, <1>7, <1>9, <1>10, <2>1 DEF AsShown, Fits
<1> QED
  BY <1>1, <1>2, <1>3, <1>5, <1>6, <1>7, <1>8, <1>11, OwnFile

\* The end of didClose keeps PatientInv: its document was out of the open ones already.
LEMMA ClosedownPatiently == ASSUME PatientInv, NEW h \in Handlers, Closedown(h) PROVE PatientInv'
<1>1. TypeInv'
  BY ClosedownTyped DEF PatientInv
<1>2. running[h] # Idle
  BY IdleNowhere DEF Closedown, Crawled, PlacesInHandler
<1>3. PICK v \in Openable : v = running[h].uri
  BY <1>2, Patience
<1>4. InPlace(h)
  BY <1>2, Patience
<1>5. /\ running[h].blocking /\ UNCHANGED <<editor, docs, published>>
      /\ running' = [running EXCEPT ![h] = Idle]
  BY DEF Closedown
<1>6. running'[h] = Idle /\ \A g \in Handlers : g # h => running'[g] = running[g]
  BY <1>5 DEF PatientInv, TypeInv, Shape
<1>7. \A r \in DOMAIN heap' : heap'[r] = heap[r]
  BY DEF Closedown, Collect, Only, Restrict
<1>8. AsShown(v)'
  BY <1>3, <1>4, <1>5 DEF InPlace, AsShown
<1> QED
  BY <1>1, <1>2, <1>3, <1>5, <1>6, <1>7, <1>8, OwnFile

\* The editor waits: what it sends next is about a file at rest.
LEMMA AtRest ==
    ASSUME Patient, PatientInv, NEW u \in Openable, Notify(u)
    PROVE  Quiet(u) /\ AsShown(u)
BY DEF Notify, Quiet, Busy, PatientInv

\* A handler takes a notification about a file at rest.
LEMMA TakenPatiently ==
    ASSUME PatientInv, TypeInv', NEW u \in Openable, Quiet(u),
           NEW h \in Handlers, running[h] = Idle, running'[h] # Idle, running'[h].uri = u,
           \A g \in Handlers : g # h => running'[g] = running[g],
           \A w \in Openable \ {u} :
              /\ editor'[w] = editor[w] /\ published'[w] = published[w]
              /\ w \in DOMAIN docs' <=> w \in DOMAIN docs
              /\ w \in DOMAIN docs => docs'[w] = docs[w],
           \A r \in DOMAIN heap \cap DOMAIN heap' : heap'[r] = heap[r],
           InPlace(h)' /\ UpToText(h)'
    PROVE  PatientInv'
<1>1. Apart(u)
  BY DEF Apart
<1>2. \A g \in Handlers : (running'[g] # Idle /\ running'[g].uri = u) => g = h
  BY DEF Quiet
<1>3. ~Quiet(u)'
  BY DEF Quiet
<1> QED
  BY <1>1, <1>2, <1>3, OneFile

\* A task that begins is taken by one idle handler, the others go on as they were.
LEMMA BegunTask ==
    ASSUME PatientInv, NEW t, IsTask(t), Begin(t)
    PROVE  \E h \in Handlers :
              /\ running[h] = Idle /\ running'[h] = t /\ t # Idle
              /\ \A g \in Handlers : g # h => running'[g] = running[g]
<1>1. PICK h \in Handlers \ Busy : running' = [running EXCEPT ![h] = t]
  BY DEF Begin
<1> QED
  BY <1>1, IdleIsNoTask DEF Busy, PatientInv, TypeInv, Shape

\* didOpen of a file with no handler at work keeps PatientInv.
LEMMA OpenPatiently ==
    ASSUME Patient, PatientInv, NEW u \in Openable, DidOpen(u) PROVE PatientInv'
<1>1. TypeInv'
  BY OpenTyped DEF PatientInv
<1>2. Quiet(u) /\ AsShown(u)
  BY AtRest DEF DidOpen
<1>3. OnDisk(u) \in SUBSET Items
  BY OnDiskIsText, ServerAssumption DEF PatientInv, TypeInv, Shape
<1> DEFINE t == Task(u, "create", None, OnDisk(u))
<1>4. IsTask(t) /\ t.at = "create" /\ t.uri = u /\ t.text = OnDisk(u) /\ ~t.blocking
  BY <1>3, NewTask DEF PlacesInHandler
<1>5. Begin(t) /\ UNCHANGED <<docs, heap, published>>
  BY DEF DidOpen
<1> HIDE DEF t
<1>6. PICK h \in Handlers :
         /\ running[h] = Idle /\ running'[h] = t /\ t # Idle
         /\ \A g \in Handlers : g # h => running'[g] = running[g]
  BY <1>4, <1>5, BegunTask
<1>7. /\ editor[u] = Closed /\ editor'[u] = OnDisk(u) /\ editor'[u] # Closed
      /\ \A w \in Openable \ {u} : editor'[w] = editor[w]
  BY <1>3, TextAssumption DEF DidOpen, PatientInv, TypeInv, Shape
<1>8. InPlace(h)'
  BY <1>2, <1>4, <1>5, <1>6, <1>7 DEF InPlace, AsShown, Opening
<1>9. UpToText(h)'
  BY <1>4, <1>6, <1>7 DEF UpToText, Updating
<1> QED
  BY <1>1, <1>2, <1>4, <1>5, <1>6, <1>7, <1>8, <1>9, TakenPatiently

\* didChange of a file with no handler at work keeps PatientInv.
LEMMA ChangePatiently ==
    ASSUME Patient, PatientInv, NEW u \in Openable, NEW item \in Edits[u], DidChange(u, item)
    PROVE  PatientInv'
<1>1. TypeInv'
  BY ChangeTyped DEF PatientInv
<1>2. Quiet(u) /\ AsShown(u)
  BY AtRest DEF DidChange
<1>3. u \in DOMAIN docs /\ heap[docs[u]].text = editor[u] /\ editor[u] # Closed
  BY <1>2 DEF DidChange, AsShown, Fits
<1> DEFINE Change(text) == IF item \in editor[u] THEN text \ {item} ELSE text \cup {item}
           new == Change(editor[u])
           t == Task(u, "set", docs[u], new)
<1>4. Begin(t) /\ UNCHANGED <<docs, heap, published>>
  <2>1. PICK whole \in BOOLEAN :
            Begin(Task(u, "set", docs[u], Change(IF whole THEN editor[u] ELSE heap[docs[u]].text)))
    BY <1>3 DEF DidChange
  <2>2. (IF whole THEN editor[u] ELSE heap[docs[u]].text) = editor[u]
    BY <1>3
  <2> QED
    BY <2>1, <2>2 DEF DidChange
<1>5. new \in SUBSET Items
  <2>1. editor[u] \in SUBSET Items /\ item \in Items
    BY <1>3 DEF PatientInv, TypeInv, Shape, Items
  <2> QED
    BY <2>1
<1>6. editor' = [editor EXCEPT ![u] = new]
  BY DEF DidChange
<1> HIDE DEF new
<1>7. IsTask(t) /\ t.at = "set" /\ t.uri = u /\ t.doc = docs[u] /\ t.text = new /\ ~t.blocking
  BY <1>5, NewTask DEF PlacesInHandler
<1> HIDE DEF t
<1>8. PICK h \in Handlers :
         /\ running[h] = Idle /\ running'[h] = t /\ t # Idle
         /\ \A g \in Handlers : g # h => running'[g] = running[g]
  BY <1>4, <1>7, BegunTask
<1>9. /\ editor'[u] = new /\ new # Closed
      /\ \A w \in Openable \ {u} : editor'[w] = editor[w]
  BY <1>5, <1>6, TextAssumption DEF PatientInv, TypeInv, Shape
<1>10. InPlace(h)'
  BY <1>3, <1>4, <1>7, <1>8, <1>9 DEF InPlace, Opening, Updating
<1>11. UpToText(h)'
  BY <1>7, <1>8, <1>9 DEF UpToText, Updating
<1> QED
  BY <1>1, <1>2, <1>4, <1>7, <1>8, <1>9, <1>10, <1>11, TakenPatiently

\* didSave of a file with no handler at work keeps PatientInv.
LEMMA SavePatiently ==
    ASSUME Patient, PatientInv, NEW u \in Openable, DidSave(u) PROVE PatientInv'
<1>1. TypeInv'
  BY SaveTyped DEF PatientInv
<1>2. Quiet(u) /\ AsShown(u)
  BY AtRest DEF DidSave
<1>3. u \in DOMAIN docs /\ Fits(heap[docs[u]], u) /\ editor[u] # Closed
  BY <1>2 DEF DidSave, AsShown
<1>4. editor[u] \in SUBSET Items
  BY <1>3 DEF PatientInv, TypeInv, Shape
<1>5. PICK at \in {"set", "parse"}, text \in SUBSET Items :
         Begin(Task(u, at, docs[u], text)) /\ (at = "set" => text = editor[u])
  BY <1>3, <1>4 DEF DidSave
<1> DEFINE t == Task(u, at, docs[u], text)
<1>6. IsTask(t) /\ t.at = at /\ t.uri = u /\ t.doc = docs[u] /\ t.text = text /\ ~t.blocking
  BY <1>5, NewTask DEF PlacesInHandler
<1>7. Begin(t) /\ UNCHANGED <<editor, docs, heap, published>>
  BY <1>5 DEF DidSave
<1> HIDE DEF t
<1>8. PICK h \in Handlers :
         /\ running[h] = Idle /\ running'[h] = t /\ t # Idle
         /\ \A g \in Handlers : g # h => running'[g] = running[g]
  BY <1>6, <1>7, BegunTask
<1>9. InPlace(h)'
  BY <1>3, <1>6, <1>7, <1>8 DEF InPlace, Opening, Updating
<1>10. UpToText(h)'
  BY <1>3, <1>5, <1>6, <1>7, <1>8 DEF UpToText, Fits, Updating
<1> QED
  BY <1>1, <1>2, <1>6, <1>7, <1>8, <1>9, <1>10, TakenPatiently

\* didClose of a file with no handler at work keeps PatientInv.
LEMMA ClosePatiently ==
    ASSUME Patient, PatientInv, NEW u \in Openable, DidClose(u) PROVE PatientInv'
<1>1. TypeInv'
  BY CloseTyped DEF PatientInv
<1>2. Quiet(u) /\ AsShown(u)
  BY AtRest DEF DidClose
<1>3. /\ editor'[u] = Closed /\ \A w \in Openable \ {u} : editor'[w] = editor[w]
      /\ UNCHANGED published
  BY DEF DidClose, PatientInv, TypeInv, Shape
<1>4. DOMAIN docs' = DOMAIN docs \ {u} /\ \A w \in DOMAIN docs' : docs'[w] = docs[w]
  BY DEF DidClose, Without, Restrict
<1>5. AsShown(u)'
  BY <1>3, <1>4 DEF AsShown
<1>6. CASE disk[u] = Absent
  <2>1. UNCHANGED running /\ \A r \in DOMAIN heap' : heap'[r] = heap[r]
    BY <1>6 DEF DidClose, Collect, Only, Restrict
  <2>2. Apart(u)
    BY <1>3, <1>4, <2>1 DEF Apart
  <2>3. \A h \in Handlers : ~(running'[h] # Idle /\ running'[h].uri = u)
    BY <1>2, <2>1 DEF Quiet
  <2> QED
    BY <1>1, <1>5, <2>2, <2>3, OneFile
<1>7. CASE disk[u] # Absent
  <2> DEFINE d == Analyzed(u, disk[u])
             b == With(heap, {Fresh}, d)
  <2>1. Begin([Task(u, "prune", Fresh, {}) EXCEPT !.blocking = TRUE]) /\ heap' = Only(b, Needed)
    BY <1>7 DEF DidClose
  <2>2. PICK h, t :
              /\ h \in Handlers \ Busy
              /\ IsTask(t) /\ t.at = "prune" /\ t.uri = u /\ t.doc = Fresh /\ t.blocking
              /\ running[h] = Idle /\ running'[h] = t
              /\ \A g \in Handlers : g # h => running'[g] = running[g]
              /\ running' = [g \in Handlers |-> running'[g]]
    BY <2>1, ClosingTask DEF PatientInv
  <2>3. Fresh \notin DOMAIN heap
    BY <2>2, FreshIsNew DEF PatientInv, TypeInv, Holding
  <2> HIDE DEF d
  <2>4. \A r \in DOMAIN heap \cap DOMAIN heap' : heap'[r] = heap[r]
    BY <2>1, <2>3 DEF With, Only, Restrict
  <2>5. t # Idle
    BY <2>2, IdleIsNoTask
  <2>6. InPlace(h)'
    BY <1>3, <1>4, <2>2 DEF InPlace, Opening, Updating
  <2>7. UpToText(h)'
    BY <2>2 DEF UpToText, Updating
  <2> QED
    BY <1>1, <1>2, <1>3, <1>4, <2>2, <2>4, <2>5, <2>6, <2>7, TakenPatiently
<1> QED
  BY <1>6, <1>7

-----------------------------------------------------------------------------
\* With a patient editor every step of the server keeps PatientInv.
LEMMA PatienceStays == Patient /\ PatientInv /\ [Next]_vars => PatientInv'
<1> SUFFICES ASSUME Patient, PatientInv, [Next]_vars PROVE PatientInv'
  OBVIOUS
<1>1. ASSUME NEW u \in Openable, DidOpen(u) PROVE PatientInv'
  BY <1>1, OpenPatiently
<1>2. ASSUME NEW u \in Openable, DidSave(u) PROVE PatientInv'
  BY <1>2, SavePatiently
<1>3. ASSUME NEW u \in Openable, DidClose(u) PROVE PatientInv'
  BY <1>3, ClosePatiently
<1>4. ASSUME NEW u \in Openable, NEW item \in Edits[u], DidChange(u, item) PROVE PatientInv'
  BY <1>4, ChangePatiently
<1>5. ASSUME NEW h \in Handlers, Step(h) PROVE PatientInv'
  BY <1>5, CreatePatiently, RegisterPatiently, UpdatePatiently, AnalyzePatiently,
     GoingOnPatiently, PublishPatiently, ClosedownPatiently DEF Step
<1>6. CASE UNCHANGED vars
  <2>1. TypeInv'
    BY <1>6, TypesStay DEF PatientInv
  <2> QED
    BY <1>6, <2>1 DEF vars, PatientInv, OneHandlerEach, InPlace, UpToText, Fits, Quiet, AsShown
<1> QED
  BY <1>1, <1>2, <1>3, <1>4, <1>5, <1>6 DEF Next

\* With a patient editor PatientInv holds of every reachable state.
LEMMA PatientAlways == ASSUME Patient PROVE Spec => []PatientInv
<1>1. Init => PatientInv
  BY PatientAtFirst
<1>2. PatientInv /\ [Next]_vars => PatientInv'
  BY PatienceStays
<1> QED
  BY <1>1, <1>2, PTL DEF Spec

\* When the editor waits for the handlers of a file before it sends more about
\* it, then, with nothing under way, the server has the documents the editor
\* has, with the texts it shows, and the diagnostics last published for them are
\* of these texts, however the handlers of different files interleave
\* (src/a816/lsp/server.py:190-251).
THEOREM OpenFilesFollowed == ASSUME Patient PROVE Spec => []OpenFilesFollow
<1>1. PatientInv => ServerFollowsEditor
  BY DEF PatientInv, TypeInv, Shape, ServerFollowsEditor, Settled, Busy, Quiet, AsShown, Fits, IsOpen
<1>2. PatientInv => DiagnosticsFollowEditor
  BY DEF PatientInv, TypeInv, Shape, DiagnosticsFollowEditor, Settled, Busy, Quiet, AsShown, IsOpen
<1> QED
  BY <1>1, <1>2, PatientAlways, PTL DEF OpenFilesFollow

-----------------------------------------------------------------------------
(* The inductive invariant of the index.                                   *)

Past == {"crawl", "fetched"}

\* Files whose handler has still to store them.
Due == {running[h].uri : h \in {g \in Busy : running[g].at \notin Past}}

\* Files a crawl has still to look at or to store.
Awaited ==
    (UNION {running[h].queue : h \in Busy})
    \cup {running[h].file : h \in {g \in Busy : running[g].at = "fetched"}}

\* Texts are made of what is ever in their file.
TextsKnown ==
    /\ \A f \in Files : OnDisk(f) \subseteq EverIn(f)
    /\ \A u \in Openable : editor[u] # Closed => editor[u] \subseteq EverIn(u)

\* What analyze() extracts from a document, and all of it.
Read(d) == d.labels = Labels(d.text) /\ d.pools = Pools(d.text)

\* How far a handler has come with the document it is to store.
Reading(h) ==
    LET t == running[h]
        d == heap[t.doc]
    IN  /\ t.at \in {"parse", "extract"} =>
              d.labels \subseteq Labels(d.text) /\ d.pools \subseteq Pools(d.text)
        /\ t.at = "extract" => d.ast = d.text
        /\ t.at \notin {"create", "set", "parse", "extract"} => Read(d)
        /\ t.blocking => d.text = disk[t.uri] /\ disk[t.uri] # Absent

\* A file that may be opened and is there is indexed, so no crawl reads it; one
\* that is open is, or will be; one that is neither there nor open is not.
Shelved ==
    /\ \A u \in Openable : disk[u] # Absent => u \in index.documents
    /\ \A u \in Openable : IsOpen(u) => u \in index.documents \cup Due
    /\ \A f \in index.documents : disk[f] # Absent \/ IsOpen(f)

\* What the index records of a file are the names in it, unless it is due.
Recorded ==
    \A f \in index.documents \ Due :
        /\ f \in DOMAIN index.recorded /\ index.recorded[f] = Labels(Shown(f))
        /\ Pools(Shown(f)) \subseteq index.pools

\* Who owns a name has it recorded, and a name recorded for the only file it
\* can be in is owned.
Owned ==
    /\ \A n \in DOMAIN index.owner :
          /\ index.owner[n] \in DOMAIN index.recorded
          /\ n \in index.recorded[index.owner[n]]
    /\ \A v \in DOMAIN index.recorded :
          /\ index.recorded[v] \subseteq Labels(EverIn(v))
          /\ \A n \in index.recorded[v] : Unshared(n, v) => n \in DOMAIN index.owner
    /\ \A h \in Busy : running[h].at = "store" => running[h].uri \notin DOMAIN index.recorded

\* What an indexed file imports is indexed, or a crawl will see to it.
Followed ==
    \A v \in index.documents \ Due : Includes(Shown(v)) \subseteq index.documents \cup Awaited

\* A crawl is after files that are there; those behind it are indexed, but
\* for the one it is about to store, which nobody can have opened.
Crawling(h) ==
    LET t == running[h]
    IN  /\ t.at \notin Past => t.queue = {} /\ t.visited = {}
        /\ \A f \in t.queue : disk[f] # Absent
        /\ t.at = "fetched" =>
              t.file \notin Openable /\ disk[t.file] # Absent /\ t.text = disk[t.file]
        /\ \A f \in t.visited :
              \/ f \in index.documents /\ (disk[f] # Absent \/ f = t.uri)
              \/ t.at = "fetched" /\ f = t.file

DocumentsRead ==
    /\ \A h \in Busy : Reading(h)
    /\ \A u \in DOMAIN docs : Quiet(u) => Read(heap[docs[u]])

IndexInv == Shelved /\ Recorded /\ Owned /\ Followed /\ \A h \in Busy : Crawling(h)

WorkspaceInv == PatientInv /\ TextsKnown /\ DocumentsRead /\ IndexInv

-----------------------------------------------------------------------------
(* Lemmas about texts, documents and the index.                            *)

\* A part of a text has no labels and no imports but those of the text.
LEMMA PartOfText ==
    ASSUME NEW S, NEW T, S \subseteq T
    PROVE  Labels(S) \subseteq Labels(T)
BY DEF Labels, Named

\* What the steps of an analysis do to the tree, the labels and the pools.
LEMMA ReadingSteps ==
    ASSUME NEW d, IsDocument(d)
    PROVE  /\ \A text : /\ SetText(d, text).text = text
                        /\ SetText(d, text).labels = {} /\ SetText(d, text).pools = {}
           /\ Parsed(d).ast = d.text /\ Parsed(d).text = d.text
           /\ Parsed(d).labels = d.labels /\ Parsed(d).pools = d.pools
           /\ Extracted(d).text = d.text /\ Extracted(d).labels = d.labels \cup Labels(d.ast)
           /\ Extracted(d).pools = d.pools \cup Pools(d.ast)
           /\ Linted(d).text = d.text /\ Linted(d).labels = d.labels /\ Linted(d).pools = d.pools
<1>1. \A text : /\ SetText(d, text).text = text
                /\ SetText(d, text).labels = {} /\ SetText(d, text).pools = {}
  BY DEF SetText, NewDocument
<1>2. /\ Parsed(d).ast = d.text /\ Parsed(d).text = d.text
      /\ Parsed(d).labels = d.labels /\ Parsed(d).pools = d.pools
  BY DEF IsDocument, Parsed
<1> DEFINE ls == d.labels \cup Labels(d.ast)
           ps == d.pools \cup Pools(d.ast)
           us == d.uses (+) SetToBag(Uses(d.ast))
<1>3. Extracted(d).text = d.text /\ Extracted(d).labels = ls /\ Extracted(d).pools = ps
  <2>1. Extracted(d) = [d EXCEPT !.labels = ls, !.pools = ps, !.uses = us]
    BY Zenon DEF Extracted
  <2> HIDE DEF ls, ps, us
  <2> QED
    BY <2>1 DEF IsDocument
<1>4. Linted(d).text = d.text /\ Linted(d).labels = d.labels /\ Linted(d).pools = d.pools
  BY DEF IsDocument, Linted
<1> QED
  BY <1>1, <1>2, <1>3, <1>4

\* A document made of a text and analyzed is read.
LEMMA AnalyzedIsRead ==
    ASSUME NEW u, NEW text \in SUBSET Items
    PROVE  Read(Analyzed(u, text))
<1> DEFINE new == NewDocument(u, text)
<1>1. IsDocument(new) /\ new.text = text /\ new.labels = {} /\ new.pools = {}
  BY DEF IsDocument, NewDocument
<1> HIDE DEF new
<1>2. /\ IsDocument(Parsed(new)) /\ Parsed(new).text = text /\ Parsed(new).ast = text
      /\ Parsed(new).labels = {} /\ Parsed(new).pools = {}
  BY <1>1, DocumentSteps, ReadingSteps
<1> DEFINE parsed == Parsed(new)
<1> HIDE DEF parsed
<1>3. IsDocument(Extracted(parsed)) /\ Read(Extracted(parsed))
  <2>1. IsDocument(parsed) /\ parsed.text = text /\ parsed.ast = text /\ parsed.labels = {} /\ parsed.pools = {}
    BY <1>2 DEF parsed
  <2>2. /\ Extracted(parsed).text = parsed.text
        /\ Extracted(parsed).labels = parsed.labels \cup Labels(parsed.ast)
        /\ Extracted(parsed).pools = parsed.pools \cup Pools(parsed.ast)
    BY <2>1, ReadingSteps
  <2> QED
    BY <2>1, <2>2, DocumentSteps DEF Read
<1>4. Read(Linted(Extracted(parsed)))
  BY <1>3, ReadingSteps DEF Read
<1> QED
  BY <1>4 DEF Analyzed, new, parsed

\* Pruning takes away the record of u and the names u owns by it.
LEMMA PruneEffect ==
    ASSUME NEW i, IsIndex(i), NEW u, NEW j, j = Prune(i, u)
    PROVE  /\ j.documents = i.documents /\ j.pools = i.pools
           /\ DOMAIN j.recorded = DOMAIN i.recorded \ {u}
           /\ \A v \in DOMAIN j.recorded : j.recorded[v] = i.recorded[v]
           /\ \A n \in DOMAIN j.owner : n \in DOMAIN i.owner /\ j.owner[n] = i.owner[n]
           /\ \A n \in DOMAIN i.owner :
                 \/ n \in DOMAIN j.owner
                 \/ u \in DOMAIN i.recorded /\ n \in i.recorded[u] /\ i.owner[n] = u
           /\ \A n \in DOMAIN j.owner :
                 ~(u \in DOMAIN i.recorded /\ n \in i.recorded[u] /\ i.owner[n] = u)
<1> DEFINE mine == IF u \in DOMAIN i.recorded THEN i.recorded[u] ELSE {}
           dropped == {n \in mine \cap DOMAIN i.owner : i.owner[n] = u}
           kept == Without(i.owner, dropped)
           left == Without(i.recorded, {u})
<1>1. j = [i EXCEPT !.owner = kept, !.recorded = left]
  BY Zenon DEF Prune
<1>2. DOMAIN kept = DOMAIN i.owner \ dropped /\ \A n \in DOMAIN kept : kept[n] = i.owner[n]
  BY DEF Without, Restrict
<1>3. DOMAIN left = DOMAIN i.recorded \ {u} /\ \A v \in DOMAIN left : left[v] = i.recorded[v]
  BY DEF Without, Restrict
<1>4. \A n \in DOMAIN i.owner :
         n \in dropped <=> u \in DOMAIN i.recorded /\ n \in i.recorded[u] /\ i.owner[n] = u
  OBVIOUS
<1> HIDE DEF mine, dropped, kept, left
<1>5. j.documents = i.documents /\ j.pools = i.pools /\ j.owner = kept /\ j.recorded = left
  BY <1>1 DEF IsIndex
<1> QED
  BY <1>2, <1>3, <1>4, <1>5

\* Storing a document records its labels, which it owns from then on.
LEMMA StoreEffect ==
    ASSUME NEW i, IsIndex(i), NEW d, NEW j, j = Store(i, d)
    PROVE  /\ j.documents = i.documents \cup {d.uri} /\ j.pools = i.pools \cup d.pools
           /\ DOMAIN j.recorded = DOMAIN i.recorded \cup {d.uri} /\ j.recorded[d.uri] = d.labels
           /\ \A v \in DOMAIN i.recorded \ {d.uri} : j.recorded[v] = i.recorded[v]
           /\ DOMAIN j.owner = DOMAIN i.owner \cup d.labels
           /\ \A n \in d.labels : j.owner[n] = d.uri
           /\ \A n \in DOMAIN i.owner \ d.labels : j.owner[n] = i.owner[n]
<1> DEFINE ds == i.documents \cup {d.uri}
           os == With(i.owner, d.labels, d.uri)
           rs == With(i.recorded, {d.uri}, d.labels)
           ps == i.pools \cup d.pools
<1>1. j = [i EXCEPT !.documents = ds, !.owner = os, !.recorded = rs, !.pools = ps]
  BY Zenon DEF Store
<1>2. /\ DOMAIN rs = DOMAIN i.recorded \cup {d.uri} /\ rs[d.uri] = d.labels
      /\ \A v \in DOMAIN i.recorded \ {d.uri} : rs[v] = i.recorded[v]
  BY DEF With
<1>3. /\ DOMAIN os = DOMAIN i.owner \cup d.labels /\ \A n \in d.labels : os[n] = d.uri
      /\ \A n \in DOMAIN i.owner \ d.labels : os[n] = i.owner[n]
  BY DEF With
<1> HIDE DEF os, rs
<1>4. j.documents = ds /\ j.owner = os /\ j.recorded = rs /\ j.pools = ps
  BY <1>1 DEF IsIndex
<1> QED
  BY <1>2, <1>3, <1>4

-----------------------------------------------------------------------------
(* What is ever in a file.                                                 *)

\* Opening, editing and saving make no text but of what is ever in the file.
LEMMA TextsStayKnown ==
    ASSUME PatientInv, TextsKnown, [Next]_vars
    PROVE  TextsKnown'
<1>1. ASSUME NEW f \in Files PROVE OnDisk(f)' \subseteq EverIn(f)
  <2>1. CASE disk' = disk
    BY <2>1 DEF TextsKnown, OnDisk
  <2>2. ASSUME NEW u \in Openable, editor[u] # Closed, disk' = [disk EXCEPT ![u] = editor[u]]
        PROVE  OnDisk(f)' \subseteq EverIn(f)
    BY <2>2 DEF TextsKnown, OnDisk, PatientInv, TypeInv, Shape
  <2> QED
    BY <2>1, <2>2 DEF Next, vars, DidOpen, DidChange, DidSave, DidClose, Step, Create, Register, Update,
       Analyze, Resume, PruneEntries, StoreDocument, CrawlOne, CrawlStore, Publish, Closedown
<1>2. ASSUME NEW u \in Openable, editor'[u] # Closed PROVE editor'[u] \subseteq EverIn(u)
  <2>1. CASE editor' = editor
    BY <1>2, <2>1 DEF TextsKnown
  <2>2. ASSUME NEW v \in Openable, editor' = [editor EXCEPT ![v] = OnDisk(v)]
        PROVE  editor'[u] \subseteq EverIn(u)
    BY <1>2, <2>2, ServerAssumption DEF TextsKnown, PatientInv, TypeInv, Shape
  <2>3. ASSUME NEW v \in Openable, editor' = [editor EXCEPT ![v] = Closed]
        PROVE  editor'[u] \subseteq EverIn(u)
    BY <1>2, <2>3 DEF TextsKnown, PatientInv, TypeInv, Shape
  <2>4. ASSUME NEW v \in Openable, NEW item \in Edits[v], DidChange(v, item)
        PROVE  editor'[u] \subseteq EverIn(u)
    <3> DEFINE new == IF item \in editor[v] THEN editor[v] \ {item} ELSE editor[v] \cup {item}
    <3>1. editor' = [editor EXCEPT ![v] = new] /\ editor[v] # Closed
      BY <2>4 DEF DidChange
    <3>2. new \subseteq EverIn(v)
      <4>1. editor[v] \subseteq EverIn(v)
        BY <3>1 DEF TextsKnown
      <4>2. item \in EverIn(v)
        BY DEF EverIn
      <4> QED
        BY <4>1, <4>2
    <3> HIDE DEF new
    <3> QED
      BY <1>2, <3>1, <3>2 DEF TextsKnown, PatientInv, TypeInv, Shape
  <2> QED
    BY <2>1, <2>2, <2>3, <2>4 DEF Next, vars, DidOpen, DidSave, DidClose, Step, Create, Register,
       Update, Analyze, Resume, PruneEntries, StoreDocument, CrawlOne, CrawlStore, Publish, Closedown
<1> QED
  BY <1>1, <1>2 DEF TextsKnown
-----------------------------------------------------------------------------
(* How a handler moves.                                                    *)

\* Handler h goes on, for its file, to `at`; the others stay where they are.
MovesTo(h, at) ==
    /\ running[h] # Idle /\ running'[h] # Idle /\ IsTask(running[h])
    /\ running'[h].at = at /\ running'[h].uri = running[h].uri
    /\ running'[h].blocking = running[h].blocking
    /\ \A g \in Handlers : g # h => running'[g] = running[g]

\* Its crawl, if any, is where it was.
CrawlWaits(h) ==
    /\ running'[h].queue = running[h].queue /\ running'[h].visited = running[h].visited

\* A task at work that has a next place is not an idle one.
LEMMA PlaceIsNotIdle == \A h : running'[h].at \in PlacesInHandler => running'[h] # Idle
BY IdleNowhere DEF Idle, PlacesInHandler

\* The places a handler goes through before the crawl.
LEMMA EarlyMoves ==
    ASSUME TypeInv, NEW h \in Handlers
    PROVE  /\ Create(h) => running[h].at = "create" /\ MovesTo(h, "register") /\ CrawlWaits(h)
                              /\ running'[h].doc = Fresh
           /\ Register(h) => running[h].at = "register" /\ MovesTo(h, "prune") /\ CrawlWaits(h)
                              /\ running'[h].doc = running[h].doc
           /\ Update(h) => running[h].at = "set" /\ MovesTo(h, "parse") /\ CrawlWaits(h)
                              /\ running'[h].doc = running[h].doc
           /\ Resume(h) => running[h].at = "analyzed" /\ MovesTo(h, "prune") /\ CrawlWaits(h)
                              /\ running'[h].doc = running[h].doc
           /\ PruneEntries(h) => running[h].at = "prune" /\ MovesTo(h, "store") /\ CrawlWaits(h)
                              /\ running'[h].doc = running[h].doc
<1>1. ASSUME Create(h) \/ Register(h) \/ Update(h) \/ Resume(h) \/ PruneEntries(h)
      PROVE  running[h] # Idle /\ IsTask(running[h]) /\ running = [g \in Handlers |-> running[g]]
  BY <1>1, IdleNowhere DEF TypeInv, Shape, Create, Register, Update, Resume, PruneEntries, PlacesInHandler
<1>2. ASSUME Create(h)
      PROVE  running[h].at = "create" /\ MovesTo(h, "register") /\ CrawlWaits(h) /\ running'[h].doc = Fresh
  <2>1. /\ running' = [running EXCEPT ![h].at = "register", ![h].doc = Fresh, ![h].text = {}]
        /\ running[h].at = "create"
    BY <1>2 DEF Create
  <2> DEFINE fresh == Fresh
  <2>2. running' = [running EXCEPT ![h].at = "register", ![h].doc = fresh, ![h].text = {}]
    BY <2>1
  <2> HIDE DEF fresh
  <2>3. /\ running'[h].at = "register" /\ running'[h].doc = fresh
        /\ running'[h].uri = running[h].uri /\ running'[h].blocking = running[h].blocking
        /\ running'[h].queue = running[h].queue /\ running'[h].visited = running[h].visited
        /\ \A g \in Handlers : g # h => running'[g] = running[g]
    BY <1>1, <1>2, <2>2 DEF IsTask
  <2>4. MovesTo(h, "register")
    BY <1>1, <1>2, <2>3, PlaceIsNotIdle DEF MovesTo, PlacesInHandler
  <2> QED
    BY <2>1, <2>3, <2>4 DEF CrawlWaits, fresh
<1>3. ASSUME Register(h)
      PROVE  running[h].at = "register" /\ MovesTo(h, "prune") /\ CrawlWaits(h) /\ running'[h].doc = running[h].doc
  <2>1. running' = [running EXCEPT ![h].at = "prune"] /\ running[h].at = "register"
    BY <1>3 DEF Register, Goto
  <2>2. running'[h].at = "prune"
    BY <1>1, <1>3, <2>1 DEF IsTask
  <2> QED
    BY <1>1, <1>3, <2>1, <2>2, PlaceIsNotIdle DEF MovesTo, CrawlWaits, PlacesInHandler, IsTask
<1>4. ASSUME Update(h)
      PROVE  running[h].at = "set" /\ MovesTo(h, "parse") /\ CrawlWaits(h) /\ running'[h].doc = running[h].doc
  <2>1. running' = [running EXCEPT ![h].at = "parse", ![h].text = {}] /\ running[h].at = "set"
    BY <1>4 DEF Update
  <2>2. /\ running'[h].at = "parse" /\ running'[h].doc = running[h].doc
        /\ running'[h].uri = running[h].uri /\ running'[h].blocking = running[h].blocking
        /\ running'[h].queue = running[h].queue /\ running'[h].visited = running[h].visited
        /\ \A g \in Handlers : g # h => running'[g] = running[g]
    BY <1>1, <1>4, <2>1 DEF IsTask
  <2>3. MovesTo(h, "parse")
    BY <1>1, <1>4, <2>2, PlaceIsNotIdle DEF MovesTo, PlacesInHandler
  <2> QED
    BY <2>1, <2>2, <2>3 DEF CrawlWaits
<1>5. ASSUME Resume(h)
      PROVE  running[h].at = "analyzed" /\ MovesTo(h, "prune") /\ CrawlWaits(h) /\ running'[h].doc = running[h].doc
  <2>1. running' = [running EXCEPT ![h].at = "prune"] /\ running[h].at = "analyzed"
    BY <1>5 DEF Resume, Goto
  <2>2. running'[h].at = "prune"
    BY <1>1, <1>5, <2>1 DEF IsTask
  <2> QED
    BY <1>1, <1>5, <2>1, <2>2, PlaceIsNotIdle DEF MovesTo, CrawlWaits, PlacesInHandler, IsTask
<1>6. ASSUME PruneEntries(h)
      PROVE  running[h].at = "prune" /\ MovesTo(h, "store") /\ CrawlWaits(h) /\ running'[h].doc = running[h].doc
  <2>1. running' = [running EXCEPT ![h].at = "store"] /\ running[h].at = "prune"
    BY <1>6 DEF PruneEntries, Goto
  <2>2. running'[h].at = "store"
    BY <1>1, <1>6, <2>1 DEF IsTask
  <2> QED
    BY <1>1, <1>6, <2>1, <2>2, PlaceIsNotIdle DEF MovesTo, CrawlWaits, PlacesInHandler, IsTask
<1> QED
  BY <1>2, <1>3, <1>4, <1>5, <1>6

\* The three parts of analyze().
LEMMA AnalysisMoves ==
    ASSUME TypeInv, NEW h \in Handlers, Analyze(h)
    PROVE  /\ CrawlWaits(h) /\ running'[h].doc = running[h].doc
           /\ \/ /\ running[h].at = "parse" /\ MovesTo(h, "extract")
                 /\ heap' = [heap EXCEPT ![running[h].doc] = Parsed(@)]
              \/ /\ running[h].at = "extract" /\ MovesTo(h, "lint")
                 /\ heap' = [heap EXCEPT ![running[h].doc] = Extracted(@)]
              \/ /\ running[h].at = "lint" /\ MovesTo(h, "analyzed")
                 /\ heap' = [heap EXCEPT ![running[h].doc] = Linted(@)]
<1>1. running[h] # Idle /\ IsTask(running[h]) /\ running = [g \in Handlers |-> running[g]]
  BY IdleNowhere DEF TypeInv, Shape, Analyze, PlacesInHandler
<1>2. ASSUME NEW at \in PlacesInHandler, Goto(h, at)
      PROVE  MovesTo(h, at) /\ CrawlWaits(h) /\ running'[h].doc = running[h].doc
  <2>1. running' = [running EXCEPT ![h].at = at]
    BY <1>2 DEF Goto
  <2>2. running'[h].at = at
    BY <1>1, <2>1 DEF IsTask
  <2> QED
    BY <1>1, <1>2, <2>1, <2>2, PlaceIsNotIdle DEF MovesTo, CrawlWaits, IsTask
<1> QED
  BY <1>2 DEF Analyze, PlacesInHandler

\* The steps of the crawl.
LEMMA CrawlMoves ==
    ASSUME TypeInv, NEW h \in Handlers
    PROVE  /\ StoreDocument(h) =>
                 /\ running[h].at = "store" /\ MovesTo(h, "crawl") /\ running'[h].doc = running[h].doc
                 /\ running'[h].queue = Includes(Doc(h).text) /\ running'[h].visited = {running[h].uri}
           /\ CrawlStore(h) =>
                 /\ running[h].at = "fetched" /\ MovesTo(h, "crawl") /\ running'[h].doc = running[h].doc
                 /\ running'[h].queue =
                       running[h].queue \cup (Includes(running[h].text) \ running[h].visited)
                 /\ running'[h].visited = running[h].visited
           /\ CrawlOne(h) => \E f \in running[h].queue :
                 /\ running[h].at = "crawl" /\ running'[h].doc = running[h].doc
                 /\ running'[h].queue = running[h].queue \ {f}
                 /\ running'[h].visited = running[h].visited \cup {f}
                 /\ \/ /\ f \in running[h].visited \cup index.documents \/ disk[f] = Absent
                       /\ MovesTo(h, "crawl")
                    \/ /\ f \notin running[h].visited \cup index.documents /\ disk[f] # Absent
                       /\ MovesTo(h, "fetched")
                       /\ running'[h].file = f /\ running'[h].text = disk[f]
<1>1. ASSUME StoreDocument(h) \/ CrawlStore(h) \/ CrawlOne(h)
      PROVE  running[h] # Idle /\ IsTask(running[h]) /\ running = [g \in Handlers |-> running[g]]
  BY <1>1, IdleNowhere DEF TypeInv, Shape, StoreDocument, CrawlStore, CrawlOne, PlacesInHandler
<1>2. ASSUME StoreDocument(h)
      PROVE  /\ running[h].at = "store" /\ MovesTo(h, "crawl") /\ running'[h].doc = running[h].doc
             /\ running'[h].queue = Includes(Doc(h).text) /\ running'[h].visited = {running[h].uri}
  <2> DEFINE found == Includes(Doc(h).text)
  <2>1. /\ running' = [running EXCEPT ![h].at = "crawl", ![h].queue = found,
                                      ![h].visited = {running[h].uri}]
        /\ running[h].at = "store"
    BY <1>2 DEF StoreDocument
  <2> HIDE DEF found
  <2>2. /\ running'[h].at = "crawl" /\ running'[h].queue = found /\ running'[h].doc = running[h].doc
        /\ running'[h].visited = {running[h].uri}
        /\ running'[h].uri = running[h].uri /\ running'[h].blocking = running[h].blocking
        /\ \A g \in Handlers : g # h => running'[g] = running[g]
    BY <1>1, <1>2, <2>1 DEF IsTask
  <2>3. MovesTo(h, "crawl")
    BY <1>1, <1>2, <2>2, PlaceIsNotIdle DEF MovesTo, PlacesInHandler
  <2> QED
    BY <2>1, <2>2, <2>3 DEF found
<1>3. ASSUME CrawlStore(h)
      PROVE  /\ running[h].at = "fetched" /\ MovesTo(h, "crawl") /\ running'[h].doc = running[h].doc
             /\ running'[h].queue = running[h].queue \cup (Includes(running[h].text) \ running[h].visited)
             /\ running'[h].visited = running[h].visited
  <2> DEFINE queue == running[h].queue \cup (Includes(running[h].text) \ running[h].visited)
  <2>1. /\ running' = [running EXCEPT ![h].at = "crawl", ![h].file = running[h].uri, ![h].text = {},
                                      ![h].queue = queue]
        /\ running[h].at = "fetched"
    BY <1>3 DEF CrawlStore
  <2> HIDE DEF queue
  <2>2. /\ running'[h].at = "crawl" /\ running'[h].queue = queue /\ running'[h].doc = running[h].doc
        /\ running'[h].visited = running[h].visited
        /\ running'[h].uri = running[h].uri /\ running'[h].blocking = running[h].blocking
        /\ \A g \in Handlers : g # h => running'[g] = running[g]
    BY <1>1, <1>3, <2>1 DEF IsTask
  <2>3. MovesTo(h, "crawl")
    BY <1>1, <1>3, <2>2, PlaceIsNotIdle DEF MovesTo, PlacesInHandler
  <2> QED
    BY <2>1, <2>2, <2>3 DEF queue
<1>4. ASSUME CrawlOne(h)
      PROVE  \E f \in running[h].queue :
                 /\ running[h].at = "crawl" /\ running'[h].doc = running[h].doc
                 /\ running'[h].queue = running[h].queue \ {f}
                 /\ running'[h].visited = running[h].visited \cup {f}
                 /\ \/ /\ f \in running[h].visited \cup index.documents \/ disk[f] = Absent
                       /\ MovesTo(h, "crawl")
                    \/ /\ f \notin running[h].visited \cup index.documents /\ disk[f] # Absent
                       /\ MovesTo(h, "fetched")
                       /\ running'[h].file = f /\ running'[h].text = disk[f]
  <2>1. PICK f \in running[h].queue :
            IF f \in running[h].visited \cup index.documents \/ disk[f] = Absent
            THEN running' = [running EXCEPT ![h].queue = @ \ {f}, ![h].visited = @ \cup {f}]
            ELSE running' = [running EXCEPT ![h].at = "fetched", ![h].file = f, ![h].text = disk[f],
                                            ![h].queue = @ \ {f}, ![h].visited = @ \cup {f}]
    BY <1>4 DEF CrawlOne
  <2> DEFINE queue == running[h].queue \ {f}
             visited == running[h].visited \cup {f}
             text == disk[f]
  <2>2. running[h].at = "crawl"
    BY <1>4 DEF CrawlOne
  <2>3. CASE f \in running[h].visited \cup index.documents \/ disk[f] = Absent
    <3>1. running' = [running EXCEPT ![h].queue = queue, ![h].visited = visited]
      BY <2>1, <2>3, Zenon
    <3> HIDE DEF queue, visited
    <3>2. /\ running'[h].at = "crawl" /\ running'[h].queue = queue /\ running'[h].visited = visited
          /\ running'[h].doc = running[h].doc
          /\ running'[h].uri = running[h].uri /\ running'[h].blocking = running[h].blocking
          /\ \A g \in Handlers : g # h => running'[g] = running[g]
      BY <1>1, <1>4, <2>2, <3>1 DEF IsTask
    <3>3. MovesTo(h, "crawl")
      BY <1>1, <1>4, <3>2, PlaceIsNotIdle DEF MovesTo, PlacesInHandler
    <3> QED
      BY <2>1, <2>2, <2>3, <3>2, <3>3 DEF queue, visited
  <2>4. CASE ~(f \in running[h].visited \cup index.documents \/ disk[f] = Absent)
    <3>1. running' = [running EXCEPT ![h].at = "fetched", ![h].file = f, ![h].text = text,
                                     ![h].queue = queue, ![h].visited = visited]
      BY <2>1, <2>4, Zenon
    <3> HIDE DEF queue, visited, text
    <3>2. /\ running'[h].at = "fetched" /\ running'[h].queue = queue /\ running'[h].visited = visited
          /\ running'[h].doc = running[h].doc /\ running'[h].file = f /\ running'[h].text = text
          /\ running'[h].uri = running[h].uri /\ running'[h].blocking = running[h].blocking
          /\ \A g \in Handlers : g # h => running'[g] = running[g]
      BY <1>1, <1>4, <2>2, <3>1 DEF IsTask
    <3>3. MovesTo(h, "fetched")
      BY <1>1, <1>4, <3>2, PlaceIsNotIdle DEF MovesTo, PlacesInHandler
    <3> QED
      BY <2>1, <2>2, <2>4, <3>2, <3>3 DEF queue, visited, text
  <2> QED
    BY <2>3, <2>4
<1> QED
  BY <1>2, <1>3, <1>4

\* A handler that is done had nothing left to crawl.
LEMMA LastMoves ==
    ASSUME TypeInv, NEW h \in Handlers, Publish(h) \/ Closedown(h)
    PROVE  /\ running[h] # Idle /\ IsTask(running[h]) /\ running[h].at = "crawl" /\ running[h].queue = {}
           /\ running'[h] = Idle /\ \A g \in Handlers : g # h => running'[g] = running[g]
           /\ UNCHANGED <<disk, editor, docs, index>>
           /\ \A r \in DOMAIN heap' : r \in DOMAIN heap /\ heap'[r] = heap[r]
BY IdleNowhere DEF TypeInv, Shape, Publish, Closedown, Crawled, PlacesInHandler, Collect, Only, Restrict
-----------------------------------------------------------------------------
(* How a notification is taken.                                            *)

\* Handler h, idle before, starts at `at` for file u.
Takes(h, u, at) ==
    /\ running[h] = Idle /\ running'[h] # Idle /\ IsTask(running'[h])
    /\ running'[h].at = at /\ running'[h].uri = u
    /\ running'[h].queue = {} /\ running'[h].visited = {}
    /\ \A g \in Handlers : g # h => running'[g] = running[g]

\* The task of a notification, and that of didClose, which blocks the loop.
LEMMA TaskFields ==
    ASSUME NEW u \in Openable, NEW at \in PlacesInHandler, NEW doc, NEW text \in SUBSET Items,
           at = "create" => doc = None
    PROVE  /\ IsTask(Task(u, at, doc, text)) /\ Task(u, at, doc, text).at = at
           /\ Task(u, at, doc, text).uri = u /\ Task(u, at, doc, text).doc = doc
           /\ Task(u, at, doc, text).queue = {} /\ Task(u, at, doc, text).visited = {}
           /\ ~Task(u, at, doc, text).blocking
<1>1. Task(u, at, doc, text).queue = {} /\ Task(u, at, doc, text).visited = {}
  BY DEF Task
<1> QED
  BY <1>1, NewTask

LEMMA BlockingTask ==
    ASSUME NEW u \in Openable, NEW r
    PROVE  LET t == [Task(u, "prune", r, {}) EXCEPT !.blocking = TRUE]
           IN  /\ IsTask(t) /\ t.at = "prune" /\ t.uri = u /\ t.doc = r /\ t.blocking
               /\ t.queue = {} /\ t.visited = {}
<1> DEFINE t == [Task(u, "prune", r, {}) EXCEPT !.blocking = TRUE]
<1>1. t = [at |-> "prune", uri |-> u, doc |-> r, text |-> {}, blocking |-> TRUE,
           queue |-> {}, visited |-> {}, file |-> u]
  <2>1. ASSUME NEW no, NEW yes
        PROVE  [[at |-> "prune", uri |-> u, doc |-> r, text |-> {}, blocking |-> no,
                 queue |-> {}, visited |-> {}, file |-> u] EXCEPT !.blocking = yes]
               = [at |-> "prune", uri |-> u, doc |-> r, text |-> {}, blocking |-> yes,
                  queue |-> {}, visited |-> {}, file |-> u]
    OBVIOUS
  <2> QED
    BY <2>1, Zenon DEF Task
<1>2. IsTask(t) /\ t.at = "prune" /\ t.uri = u /\ t.doc = r /\ t.blocking
  BY <1>1, ServerAssumption DEF IsTask, PlacesInHandler
<1>3. t.queue = {} /\ t.visited = {}
  <2> HIDE DEF t
  <2> QED
    BY <1>1
<1> QED
  BY <1>2, <1>3

\* Opening a file.
LEMMA OpenTaken ==
    ASSUME Patient, PatientInv, NEW u \in Openable, DidOpen(u)
    PROVE  Quiet(u) /\ \E h \in Handlers : Takes(h, u, "create") /\ ~running'[h].blocking
<1>1. OnDisk(u) \in SUBSET Items
  BY OnDiskIsText, ServerAssumption DEF PatientInv, TypeInv, Shape
<1> DEFINE t == Task(u, "create", None, OnDisk(u))
<1>2. /\ IsTask(t) /\ t.at = "create" /\ t.uri = u
      /\ t.queue = {} /\ t.visited = {} /\ ~t.blocking
  BY <1>1, TaskFields DEF PlacesInHandler
<1>3. Begin(t)
  BY DEF DidOpen
<1> HIDE DEF t
<1> QED
  BY <1>2, <1>3, BegunTask, AtRest DEF Takes, DidOpen

\* An edit of an open file.
LEMMA ChangeTaken ==
    ASSUME Patient, PatientInv, NEW u \in Openable, NEW item \in Edits[u], DidChange(u, item)
    PROVE  Quiet(u) /\ \E h \in Handlers : Takes(h, u, "set") /\ ~running'[h].blocking
<1>1. Quiet(u) /\ u \in DOMAIN docs /\ heap[docs[u]].text = editor[u] /\ editor[u] # Closed
  BY AtRest DEF DidChange, AsShown, Fits
<1> DEFINE Change(text) == IF item \in editor[u] THEN text \ {item} ELSE text \cup {item}
<1>2. PICK whole \in BOOLEAN :
         Begin(Task(u, "set", docs[u], Change(IF whole THEN editor[u] ELSE heap[docs[u]].text)))
  BY <1>1 DEF DidChange
<1>3. (IF whole THEN editor[u] ELSE heap[docs[u]].text) = editor[u]
  BY <1>1
<1> DEFINE new == Change(editor[u])
           t == Task(u, "set", docs[u], new)
<1>4. Begin(t)
  BY <1>2, <1>3
<1>5. new \in SUBSET Items
  <2>1. editor[u] \in SUBSET Items /\ item \in Items
    BY <1>1 DEF PatientInv, TypeInv, Shape, Items
  <2> QED
    BY <2>1
<1> HIDE DEF new
<1>6. /\ IsTask(t) /\ t.at = "set" /\ t.uri = u
      /\ t.queue = {} /\ t.visited = {} /\ ~t.blocking
  BY <1>5, TaskFields DEF PlacesInHandler
<1> HIDE DEF t
<1> QED
  BY <1>1, <1>4, <1>6, BegunTask DEF Takes

\* Saving an open file.
LEMMA SaveTaken ==
    ASSUME Patient, PatientInv, NEW u \in Openable, DidSave(u)
    PROVE  /\ Quiet(u) /\ u \in DOMAIN docs
           /\ \E h \in Handlers, at \in {"set", "parse"} :
                 Takes(h, u, at) /\ running'[h].doc = docs[u] /\ ~running'[h].blocking
<1>1. Quiet(u) /\ u \in DOMAIN docs /\ editor[u] # Closed
  BY AtRest DEF DidSave, AsShown
<1>2. editor[u] \in SUBSET Items
  BY <1>1 DEF PatientInv, TypeInv, Shape
<1>3. PICK at \in {"set", "parse"}, text \in SUBSET Items : Begin(Task(u, at, docs[u], text))
  BY <1>1, <1>2 DEF DidSave
<1> DEFINE t == Task(u, at, docs[u], text)
<1>4. /\ IsTask(t) /\ t.at = at /\ t.uri = u /\ t.doc = docs[u]
      /\ t.queue = {} /\ t.visited = {} /\ ~t.blocking
  BY <1>3, TaskFields DEF PlacesInHandler
<1>5. Begin(t)
  BY <1>3
<1> HIDE DEF t
<1> QED
  BY <1>1, <1>3, <1>4, <1>5, BegunTask DEF Takes

\* Closing a file that is on the disk.
LEMMA CloseTaken ==
    ASSUME Patient, PatientInv, NEW u \in Openable, DidClose(u), disk[u] # Absent
    PROVE  /\ Quiet(u) /\ Fresh \notin DOMAIN heap
           /\ \E h \in Handlers : Takes(h, u, "prune") /\ running'[h].doc = Fresh /\ running'[h].blocking
<1> DEFINE r == Fresh
           t == [Task(u, "prune", r, {}) EXCEPT !.blocking = TRUE]
<1>1. Begin(t)
  BY DEF DidClose
<1> HIDE DEF r
<1>2. /\ IsTask(t) /\ t.at = "prune" /\ t.uri = u /\ t.doc = r
      /\ t.queue = {} /\ t.visited = {} /\ t.blocking
  BY BlockingTask
<1> HIDE DEF t
<1>3. PICK h \in Handlers :
         /\ running[h] = Idle /\ running'[h] = t /\ t # Idle
         /\ \A g \in Handlers : g # h => running'[g] = running[g]
  BY <1>1, <1>2, BegunTask
<1>4. Fresh \notin DOMAIN heap
  BY <1>3, FreshIsNew DEF PatientInv, TypeInv, Holding
<1> QED
  BY <1>2, <1>3, <1>4, AtRest DEF Takes, DidClose, r

-----------------------------------------------------------------------------
(* Documents are read by the time they are stored.                         *)

\* What a handler does is about its own file.
LEMMA StepApart ==
    ASSUME PatientInv, NEW h \in Handlers, Step(h)
    PROVE  /\ running[h] # Idle /\ running[h].uri \in Openable /\ Apart(running[h].uri)
           /\ UNCHANGED <<disk, editor>>
<1> DEFINE v == running[h].uri
<1>0. TypeInv
  BY DEF PatientInv
<1>1. /\ running[h] # Idle /\ IsTask(running[h])
      /\ running'[h] = Idle \/ running'[h].uri = v
      /\ \A g \in Handlers : g # h => running'[g] = running[g]
  <2>1. CASE Publish(h) \/ Closedown(h)
    BY <1>0, <2>1, LastMoves
  <2>2. CASE StoreDocument(h) \/ CrawlStore(h) \/ CrawlOne(h)
    BY <1>0, <2>2, CrawlMoves DEF MovesTo
  <2>3. CASE Analyze(h)
    BY <1>0, <2>3, AnalysisMoves DEF MovesTo
  <2>4. CASE Create(h) \/ Register(h) \/ Update(h) \/ Resume(h) \/ PruneEntries(h)
    BY <1>0, <2>4, EarlyMoves DEF MovesTo
  <2> QED
    BY <2>1, <2>2, <2>3, <2>4 DEF Step
<1>2. v \in Openable
  BY <1>1 DEF IsTask
<1>3. \A w \in Openable \ {v} :
         /\ editor'[w] = editor[w] /\ published'[w] = published[w]
         /\ w \in DOMAIN docs' <=> w \in DOMAIN docs
         /\ w \in DOMAIN docs => docs'[w] = docs[w]
  <2>1. CASE Publish(h)
    <3> DEFINE said == [own |-> Doc(h).diagnostics, pools |-> Undeclared(index, Doc(h))]
    <3>1. published' = [published EXCEPT ![v] = said] /\ UNCHANGED <<editor, docs>>
      BY <2>1 DEF Publish
    <3> HIDE DEF said
    <3> QED
      BY <1>0, <3>1 DEF TypeInv, Shape
  <2>2. CASE Register(h)
    <3>1. docs' = With(docs, {v}, running[h].doc) /\ UNCHANGED <<editor, published>>
      BY <2>2 DEF Register
    <3> HIDE DEF v
    <3> QED
      BY <3>1 DEF With
  <2>3. CASE ~Publish(h) /\ ~Register(h)
    <3>1. UNCHANGED <<editor, docs, published>>
      BY <2>3 DEF Step, Create, Update, Analyze, Resume, PruneEntries, StoreDocument, CrawlOne, CrawlStore, Closedown
    <3> QED
      BY <3>1
  <2> QED
    BY <2>1, <2>2, <2>3
<1>4. \A r \in DOMAIN heap \cap DOMAIN heap' : heap[r].uri # v => heap'[r] = heap[r]
  <2>1. CASE Publish(h) \/ Closedown(h) \/ Register(h)
    BY <2>1 DEF Publish, Closedown, Register, Collect, Only, Restrict
  <2>2. CASE Create(h)
    <3>1. Fresh \notin DOMAIN heap
      BY <1>0, <1>1, <2>2, AtWork, FreshIsNew DEF Create, TypeInv
    <3> DEFINE d == Analyzed(running[h].uri, running[h].text)
    <3>2. heap' = With(heap, {Fresh}, d)
      BY <2>2 DEF Create
    <3> HIDE DEF d
    <3> QED
      BY <3>1, <3>2 DEF With
  <2>3. CASE Update(h) \/ Analyze(h)
    <3>1. running[h].doc \in DOMAIN heap /\ heap[running[h].doc].uri = v
      BY <1>0, <1>1, <2>3, AtWork DEF Update, Analyze, TypeInv, Held
    <3>2. \E d : heap' = [heap EXCEPT ![running[h].doc] = d]
      BY <2>3, Zenon DEF Update, Analyze
    <3> QED
      BY <3>1, <3>2
  <2>4. CASE Resume(h) \/ PruneEntries(h) \/ StoreDocument(h) \/ CrawlOne(h) \/ CrawlStore(h)
    BY <2>4 DEF Resume, PruneEntries, StoreDocument, CrawlOne, CrawlStore
  <2> QED
    BY <2>1, <2>2, <2>3, <2>4 DEF Step
<1>5. UNCHANGED <<disk, editor>>
  BY DEF Step, Create, Register, Update, Analyze, Resume, PruneEntries, StoreDocument, CrawlOne,
     CrawlStore, Publish, Closedown
<1> QED
  BY <1>1, <1>2, <1>3, <1>4, <1>5 DEF Apart
\* A step about file v leaves the documents of other files as read as they were.
LEMMA ReadElsewhere ==
    ASSUME PatientInv, TypeInv', DocumentsRead, NEW v \in Openable, Apart(v),
           \A w \in Openable \ {v} : disk'[w] = disk[w],
           \A h \in Handlers : (running'[h] # Idle /\ running'[h].uri = v) => Reading(h)',
           (Quiet(v)' /\ v \in DOMAIN docs') => Read(heap'[docs'[v]])
    PROVE  DocumentsRead'
<1>1. ASSUME NEW h \in Handlers, running'[h] # Idle, running'[h].uri # v
      PROVE  Reading(h)'
  <2>1. /\ running'[h] = running[h] /\ running[h] # Idle /\ Reading(h)
        /\ IsTask(running[h]) /\ running[h].uri \in Openable \ {v}
    BY <1>1 DEF DocumentsRead, Busy, PatientInv, Apart, TypeInv, Shape, IsTask
  <2>2. running[h].at # "create" => heap'[running[h].doc] = heap[running[h].doc]
    BY <1>1, <2>1 DEF PatientInv, TypeInv, Held, Holding, Apart
  <2>3. running[h].at = "create" => Reading(h)'
    <3>1. running[h].at = "create" => ~running[h].blocking
      BY <2>1, Patience DEF InPlace, Opening
    <3> QED
      BY <2>1, <3>1 DEF Reading
  <2>4. running[h].at # "create" => Reading(h)'
    BY <2>1, <2>2 DEF Reading
  <2> QED
    BY <2>3, <2>4
<1>2. ASSUME NEW w \in DOMAIN docs', w # v, Quiet(w)' PROVE Read(heap'[docs'[w]])
  <2>1. w \in Openable \ {v} /\ w \in DOMAIN docs /\ docs'[w] = docs[w]
    BY <1>2 DEF TypeInv, Shape, Apart
  <2>2. Quiet(w)
    BY <1>2, <2>1 DEF Quiet, Apart
  <2>3. heap'[docs[w]] = heap[docs[w]]
    BY <1>2, <2>1 DEF PatientInv, TypeInv, Held, Apart
  <2> QED
    BY <2>1, <2>2, <2>3 DEF DocumentsRead
<1>3. \A h \in Busy' : Reading(h)'
  BY <1>1 DEF Busy
<1>4. \A w \in DOMAIN docs' : Quiet(w)' => Read(heap'[docs'[w]])
  BY <1>2
<1> QED
  BY <1>3, <1>4 DEF DocumentsRead, Read

\* A handler's own document is read by the time it is to be stored.
LEMMA StepRead ==
    ASSUME PatientInv, TypeInv', DocumentsRead, NEW h \in Handlers, Step(h)
    PROVE  DocumentsRead'
<1>0. TypeInv
  BY DEF PatientInv
<1>a. PICK v \in Openable : v = running[h].uri
  BY StepApart
<1>1. running[h] # Idle /\ v \in Openable /\ Apart(v) /\ UNCHANGED <<disk, editor>>
  BY <1>a, StepApart
<1>2. /\ IsTask(running[h]) /\ InPlace(h) /\ UpToText(h) /\ Reading(h)
      /\ running[h].at # "create" => /\ running[h].doc \in DOMAIN heap /\ heap[running[h].doc].uri = v
                                     /\ IsDocument(heap[running[h].doc])
  BY <1>a, <1>0, <1>1, Patience, AtWork DEF DocumentsRead, Busy, TypeInv, Held
<1>3. /\ \A g \in Handlers : g # h => (running'[g] = running[g] /\ (running[g] # Idle => running[g].uri # v))
      /\ running'[h] = Idle \/ running'[h].uri = v
  <2>1. CASE Publish(h) \/ Closedown(h)
    BY <1>a, <1>0, <1>1, <2>1, LastMoves, Patience
  <2>2. CASE StoreDocument(h) \/ CrawlStore(h) \/ CrawlOne(h)
    BY <1>a, <1>0, <1>1, <2>2, CrawlMoves, Patience DEF MovesTo
  <2>3. CASE Analyze(h)
    BY <1>a, <1>0, <1>1, <2>3, AnalysisMoves, Patience DEF MovesTo
  <2>4. CASE Create(h) \/ Register(h) \/ Update(h) \/ Resume(h) \/ PruneEntries(h)
    BY <1>a, <1>0, <1>1, <2>4, EarlyMoves, Patience DEF MovesTo
  <2> QED
    BY <2>1, <2>2, <2>3, <2>4 DEF Step
<1> SUFFICES /\ running'[h] # Idle => Reading(h)'
             /\ running'[h] = Idle => (v \in DOMAIN docs' => Read(heap'[docs'[v]]))
  <2>1. \A g \in Handlers : (running'[g] # Idle /\ running'[g].uri = v) => g = h
    BY <1>3
  <2>2. Quiet(v)' => running'[h] = Idle
    BY <1>3 DEF Quiet
  <2> QED
    BY <1>1, <2>1, <2>2, ReadElsewhere
<1>4. CASE Create(h)
  <2> DEFINE d == Analyzed(v, running[h].text)
  <2>1. heap' = With(heap, {Fresh}, d) /\ running[h].at = "create" /\ running[h].text \in SUBSET Items
    BY <1>a, <1>2, <1>4 DEF Create, IsTask
  <2>2. Read(d)
    BY <2>1, AnalyzedIsRead
  <2> HIDE DEF d
  <2>3. heap'[Fresh] = d
    BY <2>1 DEF With
  <2>4. /\ running'[h].at = "register" /\ running'[h].doc = Fresh /\ ~running'[h].blocking
        /\ running'[h] # Idle
    BY <1>0, <1>2, <1>4, <2>1, EarlyMoves DEF MovesTo, InPlace, Opening
  <2>5. Read(heap'[running'[h].doc])
    BY <2>2, <2>3, <2>4
  <2> QED
    BY <2>4, <2>5 DEF Reading, Read
<1>5. CASE Register(h)
  <2>1. /\ running[h].at = "register" /\ running'[h].at = "prune" /\ running'[h].doc = running[h].doc
        /\ ~running'[h].blocking /\ running'[h] # Idle
    BY <1>0, <1>2, <1>5, EarlyMoves DEF MovesTo, InPlace, Opening
  <2>2. running[h].doc \in DOMAIN heap'
    BY <2>1 DEF TypeInv, Held, Holding
  <2>3. heap'[running[h].doc] = heap[running[h].doc]
    BY <1>5, <2>2 DEF Register, Collect, Only, Restrict
  <2> QED
    BY <1>2, <2>1, <2>3 DEF Reading, Read
<1>6. CASE Update(h)
  <2>1. /\ running[h].at = "set" /\ running'[h].at = "parse" /\ running'[h].doc = running[h].doc
        /\ ~running'[h].blocking /\ running'[h] # Idle
    BY <1>0, <1>2, <1>6, EarlyMoves DEF MovesTo, InPlace, Updating
  <2>2. /\ heap'[running[h].doc].labels = {} /\ heap'[running[h].doc].pools = {}
    BY <1>2, <1>6, <2>1, ReadingSteps DEF Update
  <2> QED
    BY <2>1, <2>2 DEF Reading
<1>7. CASE Analyze(h)
  <2> DEFINE before == heap[running[h].doc]
             after == heap'[running[h].doc]
  <2>1. running'[h].doc = running[h].doc /\ running[h].at \in Updating
    BY <1>0, <1>7, AnalysisMoves DEF Updating
  <2>2. IsDocument(before) /\ running[h].doc \in DOMAIN heap
    BY <1>2, <2>1 DEF Updating
  <2>3. ~running[h].blocking
    BY <1>2, <2>1 DEF InPlace
  <2>4. \/ running[h].at = "parse" /\ MovesTo(h, "extract") /\ after = Parsed(before)
        \/ running[h].at = "extract" /\ MovesTo(h, "lint") /\ after = Extracted(before)
        \/ running[h].at = "lint" /\ MovesTo(h, "analyzed") /\ after = Linted(before)
    BY <1>0, <1>7, <2>2, AnalysisMoves
  <2>5. running'[h] # Idle
    BY <2>4 DEF MovesTo
  <2>6. CASE running[h].at = "parse" /\ MovesTo(h, "extract") /\ after = Parsed(before)
    BY <1>2, <2>1, <2>2, <2>3, <2>5, <2>6, ReadingSteps DEF Reading, MovesTo
  <2>7. CASE running[h].at = "extract" /\ MovesTo(h, "lint") /\ after = Extracted(before)
    <3>1. /\ before.labels \subseteq Labels(before.text) /\ before.pools \subseteq Pools(before.text)
          /\ before.ast = before.text
      BY <1>2, <2>7 DEF Reading
    <3>2. /\ after.text = before.text /\ after.labels = before.labels \cup Labels(before.ast)
          /\ after.pools = before.pools \cup Pools(before.ast)
      <4> HIDE DEF before
      <4> QED
        BY <2>2, <2>7, ReadingSteps
    <3> HIDE DEF before, after
    <3>3. Read(after)
      BY <3>1, <3>2 DEF Read
    <3>4. /\ running'[h].at = "lint" /\ ~running'[h].blocking
      BY <2>3, <2>7 DEF MovesTo
    <3> QED
      BY <2>1, <2>5, <3>3, <3>4 DEF Reading, Read, after
  <2>8. CASE running[h].at = "lint" /\ MovesTo(h, "analyzed") /\ after = Linted(before)
    <3>1. Read(before)
      BY <1>2, <2>8 DEF Reading
    <3>2. after.text = before.text /\ after.labels = before.labels /\ after.pools = before.pools
      <4> HIDE DEF before
      <4> QED
        BY <2>2, <2>8, ReadingSteps
    <3>3. /\ running'[h].at = "analyzed" /\ ~running'[h].blocking
      BY <2>3, <2>8 DEF MovesTo
    <3> QED
      BY <2>1, <2>5, <3>1, <3>2, <3>3 DEF Reading, Read
  <2> QED
    BY <2>4, <2>5, <2>6, <2>7, <2>8
<1>8. CASE Resume(h) \/ PruneEntries(h) \/ StoreDocument(h) \/ CrawlOne(h) \/ CrawlStore(h)
  <2>1. /\ running[h].at \notin {"create", "set", "parse", "extract"}
        /\ running'[h].at \notin {"create", "set", "parse", "extract"}
        /\ running'[h].doc = running[h].doc /\ running'[h].uri = v
        /\ running'[h].blocking = running[h].blocking /\ running'[h] # Idle
    <3>1. CASE Resume(h) \/ PruneEntries(h)
      BY <1>a, <1>0, <3>1, EarlyMoves DEF MovesTo
    <3>2. CASE StoreDocument(h) \/ CrawlOne(h) \/ CrawlStore(h)
      BY <1>a, <1>0, <3>2, CrawlMoves DEF MovesTo
    <3> QED
      BY <1>8, <3>1, <3>2
  <2>2. UNCHANGED heap
    BY <1>8 DEF Resume, PruneEntries, StoreDocument, CrawlOne, CrawlStore
  <2> QED
    BY <1>a, <1>1, <1>2, <2>1, <2>2 DEF Reading, Read
<1>9. CASE Publish(h) \/ Closedown(h)
  <2>1. /\ running[h].at = "crawl" /\ running'[h] = Idle /\ UNCHANGED docs
        /\ \A r \in DOMAIN heap' : heap'[r] = heap[r]
    BY <1>0, <1>9, LastMoves
  <2>2. v \in DOMAIN docs => docs[v] = running[h].doc /\ docs[v] \in DOMAIN heap'
    BY <1>a, <1>2, <2>1 DEF InPlace, TypeInv, Held
  <2>3. Read(heap[running[h].doc])
    BY <1>2, <2>1 DEF Reading
  <2> QED
    BY <2>1, <2>2, <2>3 DEF Read
<1> QED
  BY <1>4, <1>5, <1>6, <1>7, <1>8, <1>9 DEF Step
\* A notification about a file at rest leaves the documents as read as they were when
\* the handler that takes it is no further than its document.
LEMMA TakenRead ==
    ASSUME PatientInv, TypeInv', DocumentsRead, NEW u \in Openable, Quiet(u),
           NEW h \in Handlers, NEW at, Takes(h, u, at), UNCHANGED published,
           \A w \in Openable \ {u} :
              /\ disk'[w] = disk[w] /\ editor'[w] = editor[w]
              /\ w \in DOMAIN docs' <=> w \in DOMAIN docs
              /\ w \in DOMAIN docs => docs'[w] = docs[w],
           \A r \in DOMAIN heap \cap DOMAIN heap' : heap'[r] = heap[r],
           Reading(h)'
    PROVE  DocumentsRead'
<1>1. Apart(u)
  BY DEF Apart, Takes
<1>2. \A g \in Handlers : (running'[g] # Idle /\ running'[g].uri = u) => g = h
  BY DEF Quiet, Takes
<1>3. ~Quiet(u)'
  BY DEF Quiet, Takes
<1> QED
  BY <1>1, <1>2, <1>3, ReadElsewhere

\* Notifications leave the documents read.
LEMMA OpenRead ==
    ASSUME Patient, PatientInv, DocumentsRead, NEW u \in Openable, DidOpen(u) PROVE DocumentsRead'
<1>1. TypeInv'
  BY OpenTyped DEF PatientInv
<1>2. PICK h \in Handlers : Takes(h, u, "create") /\ ~running'[h].blocking
  BY OpenTaken
<1>3. Reading(h)'
  BY <1>2 DEF Reading, Takes
<1>4. \A w \in Openable \ {u} : editor'[w] = editor[w]
  BY DEF DidOpen, PatientInv, TypeInv, Shape
<1>5. UNCHANGED <<disk, docs, heap, published>>
  BY DEF DidOpen
<1> QED
  BY <1>1, <1>2, <1>3, <1>4, <1>5, OpenTaken, TakenRead

LEMMA ChangeRead ==
    ASSUME Patient, PatientInv, DocumentsRead,
           NEW u \in Openable, NEW item \in Edits[u], DidChange(u, item)
    PROVE  DocumentsRead'
<1>1. TypeInv'
  BY ChangeTyped DEF PatientInv
<1>2. Quiet(u) /\ \E h \in Handlers : Takes(h, u, "set") /\ ~running'[h].blocking
  BY ChangeTaken
<1>3. PICK h \in Handlers : Takes(h, u, "set") /\ ~running'[h].blocking
  BY <1>2
<1>4. Reading(h)'
  BY <1>3 DEF Reading, Takes
<1>5. \A w \in Openable \ {u} : editor'[w] = editor[w]
  BY DEF DidChange, PatientInv, TypeInv, Shape
<1>6. UNCHANGED <<disk, docs, heap, published>>
  BY DEF DidChange
<1> QED
  BY <1>1, <1>2, <1>3, <1>4, <1>5, <1>6, TakenRead

LEMMA SaveRead ==
    ASSUME Patient, PatientInv, DocumentsRead, NEW u \in Openable, DidSave(u) PROVE DocumentsRead'
<1>1. TypeInv'
  BY SaveTyped DEF PatientInv
<1>2. Quiet(u) /\ u \in DOMAIN docs
  BY SaveTaken
<1>3. PICK h \in Handlers, at \in {"set", "parse"} :
         Takes(h, u, at) /\ running'[h].doc = docs[u] /\ ~running'[h].blocking
  BY SaveTaken
<1>4. UNCHANGED <<editor, docs, heap, published>>
  BY DEF DidSave
<1>5. Read(heap[docs[u]])
  BY <1>2 DEF DocumentsRead
<1>6. Reading(h)'
  BY <1>3, <1>4, <1>5 DEF Reading, Takes, Read
<1>7. \A w \in Openable \ {u} : disk'[w] = disk[w]
  BY ServerAssumption DEF DidSave, PatientInv, TypeInv, Shape
<1> QED
  BY <1>1, <1>2, <1>3, <1>4, <1>6, <1>7, TakenRead

LEMMA CloseRead ==
    ASSUME Patient, PatientInv, DocumentsRead, NEW u \in Openable, DidClose(u) PROVE DocumentsRead'
<1>1. TypeInv'
  BY CloseTyped DEF PatientInv
<1>2. Quiet(u)
  BY AtRest DEF DidClose
<1>3. \A w \in Openable \ {u} : editor'[w] = editor[w]
  BY DEF DidClose, PatientInv, TypeInv, Shape
<1>4. DOMAIN docs' = DOMAIN docs \ {u} /\ \A w \in DOMAIN docs' : docs'[w] = docs[w]
  BY DEF DidClose, Without, Restrict
<1>5. UNCHANGED <<disk, published>>
  BY DEF DidClose
<1>6. CASE disk[u] = Absent
  <2>1. UNCHANGED running /\ \A r \in DOMAIN heap' : heap'[r] = heap[r]
    BY <1>6 DEF DidClose, Collect, Only, Restrict
  <2>2. Apart(u)
    BY <1>3, <1>4, <1>5, <2>1 DEF Apart
  <2>3. \A h \in Handlers : ~(running'[h] # Idle /\ running'[h].uri = u)
    BY <1>2, <2>1 DEF Quiet
  <2> QED
    BY <1>1, <1>4, <1>5, <2>2, <2>3, ReadElsewhere
<1>7. CASE disk[u] # Absent
  <2>1. Fresh \notin DOMAIN heap
    BY <1>7, CloseTaken
  <2>2. PICK h \in Handlers : Takes(h, u, "prune") /\ running'[h].doc = Fresh /\ running'[h].blocking
    BY <1>7, CloseTaken
  <2>3. disk[u] \in SUBSET Items
    BY <1>7, ServerAssumption DEF PatientInv, TypeInv, Shape
  <2> DEFINE d == Analyzed(u, disk[u])
             r == Fresh
  <2>4. Read(d) /\ d.text = disk[u]
    BY <2>3, AnalyzedIsRead, AnalyzedDocument
  <2>5. heap' = Only(With(heap, {r}, d), Needed)
    BY <1>7 DEF DidClose
  <2>6. r \in DOMAIN heap'
    BY <1>1, <2>2 DEF TypeInv, Held, Holding, Takes
  <2>7. r \notin DOMAIN heap /\ running'[h].doc = r
    BY <2>1, <2>2
  <2> HIDE DEF d, r
  <2>8. heap'[r] = d /\ \A s \in DOMAIN heap \cap DOMAIN heap' : heap'[s] = heap[s]
    BY <2>5, <2>6, <2>7 DEF With, Only, Restrict
  <2>9. Reading(h)'
    BY <1>5, <1>7, <2>2, <2>4, <2>7, <2>8 DEF Reading, Takes, Read
  <2> QED
    BY <1>1, <1>2, <1>3, <1>4, <1>5, <2>2, <2>8, <2>9, TakenRead
<1> QED
  BY <1>6, <1>7

\* With a patient editor a document is read by the time it is stored.
LEMMA ReadStays ==
    ASSUME Patient, PatientInv, DocumentsRead, [Next]_vars PROVE DocumentsRead'
<1>1. TypeInv'
  BY TypesStay DEF PatientInv
<1>2. CASE UNCHANGED vars
  BY <1>2 DEF vars, DocumentsRead, Busy, Reading, Read, Quiet
<1>3. ASSUME NEW h \in Handlers, Step(h) PROVE DocumentsRead'
  BY <1>1, <1>3, StepRead
<1> QED
  BY <1>2, <1>3, OpenRead, ChangeRead, SaveRead, CloseRead DEF Next
-----------------------------------------------------------------------------
(* What is due and what is awaited as handlers move.                       *)

\* Who is due or awaited, and because of which handler.
LEMMA DueAndAwaited ==
    /\ \A u : u \in Due <=> \E h \in Handlers :
                  running[h] # Idle /\ running[h].at \notin Past /\ running[h].uri = u
    /\ \A f : f \in Awaited <=> \E h \in Handlers :
                  /\ running[h] # Idle
                  /\ f \in running[h].queue \/ (running[h].at = "fetched" /\ running[h].file = f)
BY DEF Due, Awaited, Busy

\* The same of the next state.
LEMMA DueAndAwaitedNext ==
    /\ \A u : u \in Due' <=> \E h \in Handlers :
                  running'[h] # Idle /\ running'[h].at \notin Past /\ running'[h].uri = u
    /\ \A f : f \in Awaited' <=> \E h \in Handlers :
                  /\ running'[h] # Idle
                  /\ f \in running'[h].queue \/ (running'[h].at = "fetched" /\ running'[h].file = f)
BY DEF Due, Awaited, Busy

\* A move before the crawl leaves its file due.
LEMMA DueBefore ==
    ASSUME NEW h \in Handlers, NEW at, MovesTo(h, at), CrawlWaits(h),
           running[h].at \notin Past, at \notin Past
    PROVE  Due' = Due /\ Awaited' = Awaited
<1>1. \A u : u \in Due' <=> u \in Due
  BY DueAndAwaited, DueAndAwaitedNext DEF MovesTo
<1>2. \A f : f \in Awaited' <=> f \in Awaited
  BY DueAndAwaited, DueAndAwaitedNext DEF MovesTo, CrawlWaits, Past
<1> QED
  BY <1>1, <1>2

\* Storing it settles what was due, and its crawl is awaited.
LEMMA DueStored ==
    ASSUME PatientInv, NEW h \in Handlers, MovesTo(h, "crawl"), running[h].at = "store",
           running[h].queue = {}
    PROVE  Due' = Due \ {running[h].uri} /\ Awaited' = Awaited \cup running'[h].queue
<1>1. \A g \in Handlers : (g # h /\ running[g] # Idle) => running[g].uri # running[h].uri
  BY Patience DEF MovesTo
<1>2. \A u : u \in Due' <=> u \in Due \ {running[h].uri}
  BY <1>1, DueAndAwaited, DueAndAwaitedNext DEF MovesTo, Past
<1>3. \A f : f \in Awaited' <=> f \in Awaited \cup running'[h].queue
  BY DueAndAwaited, DueAndAwaitedNext DEF MovesTo
<1> QED
  BY <1>2, <1>3

\* A crawl makes nothing due, and lets go only of what it took.
LEMMA DueCrawling ==
    ASSUME NEW h \in Handlers, NEW at \in Past, MovesTo(h, at), running[h].at \in Past
    PROVE  /\ Due' = Due
           /\ \A f \in Awaited \ Awaited' :
                 \/ f \in running[h].queue \ running'[h].queue
                 \/ running[h].at = "fetched" /\ f = running[h].file
           /\ running'[h].queue \subseteq Awaited'
           /\ at = "fetched" => running'[h].file \in Awaited'
<1>1. \A u : u \in Due' <=> u \in Due
  BY DueAndAwaited, DueAndAwaitedNext DEF MovesTo
<1>2. \A f \in Awaited \ Awaited' :
                 \/ f \in running[h].queue \ running'[h].queue
                 \/ running[h].at = "fetched" /\ f = running[h].file
  BY DueAndAwaited, DueAndAwaitedNext DEF MovesTo
<1>3. /\ running'[h].queue \subseteq Awaited'
      /\ at = "fetched" => running'[h].file \in Awaited'
  BY DueAndAwaitedNext DEF MovesTo
<1> QED
  BY <1>1, <1>2, <1>3

\* A handler that is done leaves nothing behind.
LEMMA DueAtEnd ==
    ASSUME NEW h \in Handlers, running[h].at = "crawl", running[h].queue = {}, running'[h] = Idle,
           \A g \in Handlers : g # h => running'[g] = running[g]
    PROVE  Due' = Due /\ Awaited' = Awaited
<1>1. \A u : u \in Due' <=> u \in Due
  BY DueAndAwaited, DueAndAwaitedNext DEF Past
<1>2. \A f : f \in Awaited' <=> f \in Awaited
  BY DueAndAwaited, DueAndAwaitedNext
<1> QED
  BY <1>1, <1>2

\* A notification makes its file due.
LEMMA DueTaken ==
    ASSUME NEW h \in Handlers, NEW u, NEW at \in PlacesInHandler \ Past, Takes(h, u, at)
    PROVE  Due' = Due \cup {u} /\ Awaited' = Awaited
<1>1. \A v : v \in Due' <=> v \in Due \cup {u}
  BY DueAndAwaited, DueAndAwaitedNext DEF Takes
<1>2. \A f : f \in Awaited' <=> f \in Awaited
  BY DueAndAwaited, DueAndAwaitedNext DEF Takes, Past
<1> QED
  BY <1>1, <1>2

-----------------------------------------------------------------------------
(* The index is kept by what does not write it.                            *)

\* A crawl that is left alone goes on as well, when what is indexed stays so and
\* files that cannot be opened stay as they are.
LEMMA CrawlingOn ==
    ASSUME NEW g \in Handlers, running[g] # Idle, running'[g] = running[g], IsTask(running[g]), Crawling(g),
           \A f \in Files : disk[f] # Absent => disk'[f] # Absent,
           \A f \in Files \ Openable : disk'[f] = disk[f],
           \A f \in index.documents :
              (disk[f] # Absent \/ f = running[g].uri) => f \in index'.documents
    PROVE  Crawling(g)'
BY DEF Crawling, IsTask

\* A step that leaves files and index alone, and lets go of nothing awaited that
\* is not indexed, keeps what the index says.
LEMMA IndexLeft ==
    ASSUME TypeInv, IndexInv, UNCHANGED <<disk, editor, index>>, Due' = Due,
           Awaited \subseteq Awaited' \cup index.documents,
           NEW h \in Handlers, \A g \in Handlers : g # h => running'[g] = running[g],
           running'[h] # Idle => running'[h].at # "store" /\ Crawling(h)'
    PROVE  IndexInv'
<1>3. Shelved'
  BY DEF IndexInv, Shelved, IsOpen
<1>4. Recorded'
  BY DEF IndexInv, Recorded, Shown, IsOpen, OnDisk
<1>5. Owned'
  <2>1. \A g \in Busy' : running'[g].at = "store" => running'[g].uri \notin DOMAIN index.recorded
    BY DEF IndexInv, Owned, Busy
  <2>2. \A n, v : Unshared(n, v)' <=> Unshared(n, v)
    BY DEF Unshared
  <2> QED
    BY <2>1, <2>2 DEF IndexInv, Owned
<1>6. Followed'
  BY DEF IndexInv, Followed, Shown, IsOpen, OnDisk, Includes
<1>7. ASSUME NEW g \in Busy' PROVE Crawling(g)'
  <2>1. CASE g = h
    BY <1>7, <2>1 DEF Busy
  <2>2. CASE g # h
    BY <1>7, <2>2, CrawlingOn DEF Busy, IndexInv, TypeInv, Shape
  <2> QED
    BY <2>1, <2>2
<1> QED
  BY <1>3, <1>4, <1>5, <1>6, <1>7 DEF IndexInv
\* What comes before the index is written, or after the crawl, leaves it as it is.
LEMMA EarlyKeeps ==
    ASSUME PatientInv, IndexInv, NEW h \in Handlers,
           Create(h) \/ Register(h) \/ Update(h) \/ Resume(h) \/ Analyze(h)
    PROVE  IndexInv'
<1>0. TypeInv
  BY DEF PatientInv
<1>1. PICK at \in PlacesInHandler \ (Past \cup {"store"}) :
         MovesTo(h, at) /\ CrawlWaits(h) /\ running[h].at \notin Past
  <2>1. CASE Analyze(h)
    BY <1>0, <2>1, AnalysisMoves DEF PlacesInHandler, Past
  <2>2. CASE Create(h) \/ Register(h) \/ Update(h) \/ Resume(h)
    BY <1>0, <2>2, EarlyMoves DEF PlacesInHandler, Past
  <2> QED
    BY <2>1, <2>2
<1>2. Due' = Due /\ Awaited' = Awaited
  BY <1>1, DueBefore
<1>3. Crawling(h)
  BY <1>1 DEF IndexInv, Busy, MovesTo
<1>4. Crawling(h)'
  BY <1>1, <1>3 DEF Crawling, MovesTo, CrawlWaits, Past
<1>5. UNCHANGED <<disk, editor, index>>
  BY DEF Create, Register, Update, Resume, Analyze
<1> QED
  BY <1>0, <1>1, <1>2, <1>4, <1>5, IndexLeft DEF MovesTo

LEMMA LastKeeps ==
    ASSUME PatientInv, IndexInv, NEW h \in Handlers, Publish(h) \/ Closedown(h) PROVE IndexInv'
<1>0. TypeInv
  BY DEF PatientInv
<1>1. /\ running[h].at = "crawl" /\ running[h].queue = {} /\ running'[h] = Idle
      /\ \A g \in Handlers : g # h => running'[g] = running[g]
      /\ UNCHANGED <<disk, editor, index>>
  BY <1>0, LastMoves
<1>2. Due' = Due /\ Awaited' = Awaited
  BY <1>1, DueAtEnd
<1> QED
  BY <1>0, <1>1, <1>2, IndexLeft

\* A file the crawl passes over is indexed; one it reads can be opened by nobody.
LEMMA CrawlOneKeeps ==
    ASSUME PatientInv, IndexInv, NEW h \in Handlers, CrawlOne(h) PROVE IndexInv'
<1>0. TypeInv
  BY DEF PatientInv
<1>1. PICK f \in running[h].queue :
         /\ running[h].at = "crawl"
         /\ running'[h].queue = running[h].queue \ {f}
         /\ running'[h].visited = running[h].visited \cup {f}
         /\ \/ /\ f \in running[h].visited \cup index.documents \/ disk[f] = Absent
               /\ MovesTo(h, "crawl")
            \/ /\ f \notin running[h].visited \cup index.documents /\ disk[f] # Absent
               /\ MovesTo(h, "fetched")
               /\ running'[h].file = f /\ running'[h].text = disk[f]
  BY <1>0, CrawlMoves
<1>2. UNCHANGED <<disk, editor, index>>
  BY DEF CrawlOne
<1>3. Crawling(h) /\ running[h].uri = running'[h].uri
  BY <1>1 DEF IndexInv, Busy, MovesTo
<1>4. disk[f] # Absent
  BY <1>1, <1>3 DEF Crawling
<1>5. PICK at \in {"crawl", "fetched"} : MovesTo(h, at)
  BY <1>1
<1>6. /\ Due' = Due
      /\ \A g \in Awaited \ Awaited' : g \in running[h].queue \ running'[h].queue
      /\ at = "fetched" => running'[h].file \in Awaited'
  BY <1>1, <1>5, DueCrawling DEF Past
<1>7. CASE f \in running[h].visited \cup index.documents
  <2>1. f \in index.documents
    BY <1>1, <1>3, <1>7 DEF Crawling
  <2>2. MovesTo(h, "crawl")
    BY <1>1, <1>4, <1>7
  <2>3. Crawling(h)'
    BY <1>1, <1>2, <1>3, <1>4, <2>1, <2>2 DEF Crawling, MovesTo, Past
  <2>4. Awaited \subseteq Awaited' \cup index.documents
    BY <1>1, <1>6, <2>1
  <2> QED
    BY <1>0, <1>2, <1>6, <2>2, <2>3, <2>4, IndexLeft DEF MovesTo
<1>8. CASE f \notin running[h].visited \cup index.documents
  <2>1. MovesTo(h, "fetched") /\ running'[h].file = f /\ running'[h].text = disk[f]
    BY <1>1, <1>4, <1>8
  <2>2. f \notin Openable
    BY <1>4, <1>8 DEF IndexInv, Shelved
  <2>3. Crawling(h)'
    BY <1>1, <1>2, <1>3, <1>4, <2>1, <2>2 DEF Crawling, MovesTo, Past
  <2>4. running'[h].file \in Awaited'
    BY <1>5, <1>6, <2>1 DEF MovesTo
  <2>5. Awaited \subseteq Awaited'
    BY <1>1, <1>6, <2>1, <2>4
  <2> QED
    BY <1>0, <1>2, <1>6, <2>1, <2>3, <2>5, IndexLeft DEF MovesTo
<1> QED
  BY <1>7, <1>8

-----------------------------------------------------------------------------
(* The index is kept by what writes it.                                    *)

\* Pruning the entries of a file takes no name that is another file's own.
LEMMA PrunedOwners ==
    ASSUME IsIndex(index), Owned, NEW u \in Files, NEW j, j = Prune(index, u)
    PROVE  /\ \A n \in DOMAIN j.owner :
                 j.owner[n] \in DOMAIN j.recorded /\ n \in j.recorded[j.owner[n]]
           /\ \A v \in DOMAIN j.recorded :
                 /\ j.recorded[v] \subseteq Labels(EverIn(v))
                 /\ \A n \in j.recorded[v] : Unshared(n, v) => n \in DOMAIN j.owner
<1>1. /\ DOMAIN j.recorded = DOMAIN index.recorded \ {u}
      /\ \A v \in DOMAIN j.recorded : j.recorded[v] = index.recorded[v]
      /\ \A n \in DOMAIN j.owner : n \in DOMAIN index.owner /\ j.owner[n] = index.owner[n]
      /\ \A n \in DOMAIN index.owner :
            \/ n \in DOMAIN j.owner
            \/ u \in DOMAIN index.recorded /\ n \in index.recorded[u] /\ index.owner[n] = u
      /\ \A n \in DOMAIN j.owner :
            ~(u \in DOMAIN index.recorded /\ n \in index.recorded[u] /\ index.owner[n] = u)
  BY PruneEffect
<1>2. ASSUME NEW n \in DOMAIN j.owner
      PROVE  j.owner[n] \in DOMAIN j.recorded /\ n \in j.recorded[j.owner[n]]
  BY <1>1 DEF Owned
<1>3. ASSUME NEW v \in DOMAIN j.recorded, NEW n \in j.recorded[v], Unshared(n, v)
      PROVE  n \in DOMAIN j.owner
  <2>1. n \in DOMAIN index.owner /\ v # u
    BY <1>1, <1>3 DEF Owned
  <2>2. ASSUME u \in DOMAIN index.recorded, n \in index.recorded[u] PROVE FALSE
    <3>1. n \in Labels(EverIn(u))
      BY <2>2 DEF Owned
    <3> QED
      BY <1>3, <2>1, <3>1 DEF Unshared
  <2> QED
    BY <1>1, <2>1, <2>2
<1>4. \A v \in DOMAIN j.recorded : j.recorded[v] \subseteq Labels(EverIn(v))
  BY <1>1 DEF Owned
<1> QED
  BY <1>2, <1>3, <1>4

LEMMA PruneKeeps ==
    ASSUME PatientInv, IndexInv, NEW h \in Handlers, PruneEntries(h) PROVE IndexInv'
<1> DEFINE v == running[h].uri
<1>0. TypeInv /\ IsIndex(index)
  BY DEF PatientInv, TypeInv, Shape
<1>1. running[h].at = "prune" /\ MovesTo(h, "store") /\ CrawlWaits(h)
  BY <1>0, EarlyMoves
<1>2. UNCHANGED <<disk, editor>> /\ index' = Prune(index, v)
  BY DEF PruneEntries
<1>3. Due' = Due /\ Awaited' = Awaited
  BY <1>1, DueBefore DEF Past
<1>4. v \in Due /\ v \in Files
  BY <1>1, DueAndAwaited, ServerAssumption DEF MovesTo, Past, IsTask
<1>5. /\ index'.documents = index.documents /\ index'.pools = index.pools
      /\ DOMAIN index'.recorded = DOMAIN index.recorded \ {v}
      /\ \A w \in DOMAIN index'.recorded : index'.recorded[w] = index.recorded[w]
  BY <1>0, <1>2, PruneEffect
<1>6. Shelved'
  BY <1>2, <1>3, <1>5 DEF IndexInv, Shelved, IsOpen
<1>7. Recorded'
  BY <1>2, <1>3, <1>4, <1>5 DEF IndexInv, Recorded, Shown, IsOpen, OnDisk
<1>8. Owned'
  <2>1. /\ \A n \in DOMAIN index'.owner :
              index'.owner[n] \in DOMAIN index'.recorded /\ n \in index'.recorded[index'.owner[n]]
        /\ \A w \in DOMAIN index'.recorded :
              /\ index'.recorded[w] \subseteq Labels(EverIn(w))
              /\ \A n \in index'.recorded[w] : Unshared(n, w) => n \in DOMAIN index'.owner
    BY <1>0, <1>2, <1>4, PrunedOwners DEF IndexInv
  <2>2. ASSUME NEW g \in Handlers, running'[g] # Idle, running'[g].at = "store"
        PROVE  running'[g].uri \notin DOMAIN index'.recorded
    <3>1. CASE g = h
      BY <1>1, <1>5, <3>1 DEF MovesTo
    <3>2. CASE g # h
      BY <1>1, <1>5, <2>2, <3>2 DEF MovesTo, IndexInv, Owned, Busy
    <3> QED
      BY <3>1, <3>2
  <2> QED
    BY <2>1, <2>2 DEF Owned, Busy
<1>9. Followed'
  BY <1>2, <1>3, <1>5 DEF IndexInv, Followed, Shown, IsOpen, OnDisk, Includes
<1>10. ASSUME NEW g \in Busy' PROVE Crawling(g)'
  <2>1. CASE g = h
    <3>1. Crawling(h)
      BY <1>1 DEF IndexInv, Busy, MovesTo
    <3> QED
      BY <1>1, <2>1, <3>1 DEF Crawling, MovesTo, CrawlWaits, Past
  <2>2. CASE g # h
    BY <1>0, <1>1, <1>2, <1>5, <1>10, <2>2, CrawlingOn DEF Busy, IndexInv, TypeInv, Shape, MovesTo
  <2> QED
    BY <2>1, <2>2
<1> QED
  BY <1>6, <1>7, <1>8, <1>9, <1>10 DEF IndexInv
\* Storing a document that is not recorded, or recorded with the names it has, takes
\* names from others only to own them.
LEMMA StoredOwners ==
    ASSUME IsIndex(index), Owned, NEW d, d.labels \subseteq Labels(EverIn(d.uri)),
           d.uri \in DOMAIN index.recorded => index.recorded[d.uri] = d.labels,
           NEW j, j = Store(index, d)
    PROVE  /\ \A n \in DOMAIN j.owner :
                 j.owner[n] \in DOMAIN j.recorded /\ n \in j.recorded[j.owner[n]]
           /\ \A v \in DOMAIN j.recorded :
                 /\ j.recorded[v] \subseteq Labels(EverIn(v))
                 /\ \A n \in j.recorded[v] : Unshared(n, v) => n \in DOMAIN j.owner
<1>1. /\ DOMAIN j.recorded = DOMAIN index.recorded \cup {d.uri} /\ j.recorded[d.uri] = d.labels
      /\ \A v \in DOMAIN index.recorded \ {d.uri} : j.recorded[v] = index.recorded[v]
      /\ DOMAIN j.owner = DOMAIN index.owner \cup d.labels
      /\ \A n \in d.labels : j.owner[n] = d.uri
      /\ \A n \in DOMAIN index.owner \ d.labels : j.owner[n] = index.owner[n]
  BY StoreEffect
<1>2. ASSUME NEW n \in DOMAIN j.owner
      PROVE  j.owner[n] \in DOMAIN j.recorded /\ n \in j.recorded[j.owner[n]]
  BY <1>1 DEF Owned
<1>3. ASSUME NEW v \in DOMAIN j.recorded
      PROVE  /\ j.recorded[v] \subseteq Labels(EverIn(v))
             /\ \A n \in j.recorded[v] : Unshared(n, v) => n \in DOMAIN j.owner
  BY <1>1 DEF Owned
<1> QED
  BY <1>2, <1>3

\* What a text shown for a file has for labels is known of the file.
LEMMA ShownIsKnown ==
    ASSUME TextsKnown, NEW f \in Files
    PROVE  Labels(Shown(f)) \subseteq Labels(EverIn(f))
<1>1. Shown(f) \subseteq EverIn(f)
  BY DEF TextsKnown, Shown, IsOpen
<1> QED
  BY <1>1, PartOfText

\* The document a handler stores is that of the text its file has for the user.
LEMMA StoresShown ==
    ASSUME PatientInv, DocumentsRead, NEW h \in Handlers, running[h] # Idle, running[h].at = "store"
    PROVE  /\ Doc(h).uri = running[h].uri /\ Doc(h).text = Shown(running[h].uri)
           /\ Doc(h).labels = Labels(Doc(h).text) /\ Doc(h).pools = Pools(Doc(h).text)
           /\ IsOpen(running[h].uri) \/ disk[running[h].uri] # Absent
<1>1. /\ running[h].uri \in Openable /\ InPlace(h) /\ UpToText(h) /\ Reading(h)
      /\ heap[running[h].doc].uri = running[h].uri
  BY Patience DEF PatientInv, TypeInv, Held, Holding, DocumentsRead, Busy
<1>2. Read(heap[running[h].doc])
  BY <1>1 DEF Reading
<1>3. CASE running[h].blocking
  BY <1>1, <1>2, <1>3 DEF InPlace, Reading, Doc, Read, Shown, IsOpen, OnDisk
<1>4. CASE ~running[h].blocking
  <2>1. Fits(heap[running[h].doc], running[h].uri)
    BY <1>1, <1>4 DEF UpToText, Updating
  <2> QED
    BY <1>1, <1>2, <1>4, <2>1 DEF InPlace, Doc, Read, Shown, IsOpen, Fits
<1> QED
  BY <1>3, <1>4

LEMMA StoreKeeps ==
    ASSUME PatientInv, TextsKnown, DocumentsRead, IndexInv, NEW h \in Handlers, StoreDocument(h)
    PROVE  IndexInv'
<1> DEFINE v == running[h].uri
           d == Doc(h)
<1>0. TypeInv /\ IsIndex(index)
  BY DEF PatientInv, TypeInv, Shape
<1>1. /\ running[h].at = "store" /\ MovesTo(h, "crawl")
      /\ running'[h].queue = Includes(d.text) /\ running'[h].visited = {v}
  BY <1>0, CrawlMoves
<1>2. UNCHANGED <<disk, editor>> /\ index' = Store(index, d)
  BY DEF StoreDocument
<1>3. Crawling(h) /\ v \in Files
  BY <1>1, ServerAssumption DEF IndexInv, Busy, MovesTo, IsTask
<1>4. Due' = Due \ {v} /\ Awaited' = Awaited \cup Includes(d.text)
  BY <1>1, <1>3, DueStored DEF Crawling, Past
<1>5. /\ d.uri = v /\ d.text = Shown(v) /\ d.labels = Labels(Shown(v)) /\ d.pools = Pools(Shown(v))
      /\ IsOpen(v) \/ disk[v] # Absent
  BY <1>1, StoresShown DEF MovesTo
<1> HIDE DEF d
<1>6. /\ index'.documents = index.documents \cup {v} /\ index'.pools = index.pools \cup d.pools
      /\ DOMAIN index'.recorded = DOMAIN index.recorded \cup {v} /\ index'.recorded[v] = d.labels
      /\ \A w \in DOMAIN index.recorded \ {v} : index'.recorded[w] = index.recorded[w]
  BY <1>0, <1>2, <1>5, StoreEffect
<1>7. Shelved'
  BY <1>2, <1>4, <1>5, <1>6 DEF IndexInv, Shelved, IsOpen
<1>8. Recorded'
  BY <1>2, <1>4, <1>5, <1>6 DEF IndexInv, Recorded, Shown, IsOpen, OnDisk
<1>9. Owned'
  <2>1. d.labels \subseteq Labels(EverIn(d.uri))
    BY <1>3, <1>5, ShownIsKnown
  <2>2. d.uri \notin DOMAIN index.recorded
    BY <1>1, <1>5 DEF IndexInv, Owned, Busy, MovesTo
  <2>3. /\ \A n \in DOMAIN index'.owner :
              index'.owner[n] \in DOMAIN index'.recorded /\ n \in index'.recorded[index'.owner[n]]
        /\ \A w \in DOMAIN index'.recorded :
              /\ index'.recorded[w] \subseteq Labels(EverIn(w))
              /\ \A n \in index'.recorded[w] : Unshared(n, w) => n \in DOMAIN index'.owner
    BY <1>0, <1>2, <2>1, <2>2, StoredOwners DEF IndexInv
  <2>4. ASSUME NEW g \in Handlers, running'[g] # Idle, running'[g].at = "store"
        PROVE  running'[g].uri \notin DOMAIN index'.recorded
    <3>1. g # h /\ running'[g] = running[g]
      BY <1>1, <2>4 DEF MovesTo
    <3>2. running[g].uri # v
      BY <1>1, <2>4, <3>1, Patience DEF MovesTo
    <3> QED
      BY <1>6, <2>4, <3>1, <3>2 DEF IndexInv, Owned, Busy
  <2> QED
    BY <2>3, <2>4 DEF Owned, Busy
<1>10. Followed'
  BY <1>2, <1>4, <1>5, <1>6 DEF IndexInv, Followed, Shown, IsOpen, OnDisk, Includes
<1>11. ASSUME NEW g \in Busy' PROVE Crawling(g)'
  <2>1. CASE g = h
    BY <1>1, <1>2, <1>6, <2>1 DEF Crawling, MovesTo, Past, Includes
  <2>2. CASE g # h
    BY <1>0, <1>1, <1>2, <1>6, <1>11, <2>2, CrawlingOn DEF Busy, IndexInv, TypeInv, Shape, MovesTo
  <2> QED
    BY <2>1, <2>2
<1> QED
  BY <1>7, <1>8, <1>9, <1>10, <1>11 DEF IndexInv

LEMMA CrawlStoreKeeps ==
    ASSUME PatientInv, TextsKnown, IndexInv, NEW h \in Handlers, CrawlStore(h)
    PROVE  IndexInv'
<1> DEFINE f == running[h].file
           text == running[h].text
           d == Analyzed(f, text)
<1>0. TypeInv /\ IsIndex(index)
  BY DEF PatientInv, TypeInv, Shape
<1>1. /\ running[h].at = "fetched" /\ MovesTo(h, "crawl")
      /\ running'[h].queue = running[h].queue \cup (Includes(text) \ running[h].visited)
      /\ running'[h].visited = running[h].visited
  BY <1>0, CrawlMoves
<1>2. UNCHANGED <<disk, editor>> /\ index' = Store(index, d)
  BY DEF CrawlStore
<1>3. /\ Crawling(h) /\ f \in Files /\ text \in SUBSET Items /\ running[h].visited \subseteq Files
      /\ f \notin Openable /\ disk[f] # Absent /\ text = disk[f]
  BY <1>1 DEF IndexInv, Busy, MovesTo, IsTask, Crawling
<1>4. Shown(f) = text /\ f \notin Due
  <2>1. \A g \in Handlers : running[g] # Idle => running[g].uri \in Openable
    BY <1>0 DEF TypeInv, Shape, IsTask
  <2> QED
    BY <1>3, <2>1, DueAndAwaited DEF Shown, IsOpen, OnDisk
<1>5. d.uri = f /\ d.text = text /\ d.labels = Labels(text) /\ d.pools = Pools(text)
  BY <1>3, AnalyzedDocument, AnalyzedIsRead DEF Read
<1>6. /\ Due' = Due
      /\ \A g \in Awaited \ Awaited' : g \in running[h].queue \ running'[h].queue \/ g = f
      /\ running'[h].queue \subseteq Awaited'
  BY <1>1, DueCrawling DEF Past
<1> HIDE DEF d, f, text
<1>7. /\ index'.documents = index.documents \cup {f} /\ index'.pools = index.pools \cup d.pools
      /\ DOMAIN index'.recorded = DOMAIN index.recorded \cup {f} /\ index'.recorded[f] = d.labels
      /\ \A w \in DOMAIN index.recorded \ {f} : index'.recorded[w] = index.recorded[w]
  BY <1>0, <1>2, <1>5, StoreEffect
<1>8. Shelved'
  BY <1>2, <1>3, <1>6, <1>7 DEF IndexInv, Shelved, IsOpen
<1>9. Recorded'
  BY <1>2, <1>4, <1>5, <1>6, <1>7 DEF IndexInv, Recorded, Shown, IsOpen, OnDisk
<1>10. Owned'
  <2>1. d.labels \subseteq Labels(EverIn(d.uri))
    BY <1>3, <1>4, <1>5, ShownIsKnown
  <2>2. f \in DOMAIN index.recorded => index.recorded[f] = d.labels
    BY <1>0, <1>4, <1>5 DEF IndexInv, Recorded, IsIndex
  <2>3. /\ \A n \in DOMAIN index'.owner :
              index'.owner[n] \in DOMAIN index'.recorded /\ n \in index'.recorded[index'.owner[n]]
        /\ \A w \in DOMAIN index'.recorded :
              /\ index'.recorded[w] \subseteq Labels(EverIn(w))
              /\ \A n \in index'.recorded[w] : Unshared(n, w) => n \in DOMAIN index'.owner
    BY <1>0, <1>2, <1>5, <2>1, <2>2, StoredOwners DEF IndexInv
  <2>4. ASSUME NEW g \in Handlers, running'[g] # Idle, running'[g].at = "store"
        PROVE  running'[g].uri \notin DOMAIN index'.recorded
    <3>1. g # h /\ running'[g] = running[g]
      BY <1>1, <2>4 DEF MovesTo
    <3>2. running[g].uri # f
      BY <1>0, <1>3, <2>4, <3>1 DEF TypeInv, Shape, IsTask
    <3> QED
      BY <1>7, <2>4, <3>1, <3>2 DEF IndexInv, Owned, Busy
  <2> QED
    BY <2>3, <2>4 DEF Owned, Busy
<1>11. Followed'
  <2>1. ASSUME NEW w \in index.documents \ Due
        PROVE  Includes(Shown(w)) \subseteq index'.documents \cup Awaited'
    BY <1>1, <1>6, <1>7 DEF IndexInv, Followed
  <2>2. Includes(text) \subseteq index'.documents \cup Awaited'
    <3>1. \A g \in running[h].visited : g \in index'.documents
      BY <1>3, <1>7 DEF Crawling, f
    <3> QED
      BY <1>1, <1>6, <3>1
  <2>3. \A w \in index'.documents \ Due' : Includes(Shown(w)) \subseteq index'.documents \cup Awaited'
    BY <1>4, <1>6, <1>7, <2>1, <2>2
  <2> QED
    BY <1>2, <2>3 DEF Followed, Shown, IsOpen, OnDisk, Includes
<1>12. ASSUME NEW g \in Busy' PROVE Crawling(g)'
  <2>1. CASE g = h
    <3>1. \A w \in running'[h].queue : disk[w] # Absent
      BY <1>1, <1>3 DEF Crawling, Includes
    <3>2. \A w \in running'[h].visited :
             w \in index'.documents /\ (disk[w] # Absent \/ w = running'[h].uri)
      BY <1>1, <1>3, <1>7 DEF Crawling, MovesTo, f
    <3> QED
      BY <1>1, <1>2, <2>1, <3>1, <3>2 DEF Crawling, MovesTo, Past
  <2>2. CASE g # h
    BY <1>0, <1>1, <1>2, <1>7, <1>12, <2>2, CrawlingOn DEF Busy, IndexInv, TypeInv, Shape, MovesTo
  <2> QED
    BY <2>1, <2>2
<1> QED
  BY <1>8, <1>9, <1>10, <1>11, <1>12 DEF IndexInv
-----------------------------------------------------------------------------
(* The index waits for the handler of a notification.                      *)

\* What is imported is a file.
LEMMA ShownImportsFiles ==
    ASSUME TypeInv, NEW v \in Files
    PROVE  Imports(Shown(v)) \subseteq Files
<1>1. Shown(v) \subseteq Items
  BY DEF TypeInv, Shape, Shown, IsOpen, OnDisk
<1> QED
  BY <1>1, TextAssumption DEF Imports, Named

LEMMA TakenKeeps ==
    ASSUME PatientInv, IndexInv, NEW u \in Openable,
           NEW h \in Handlers, NEW at \in PlacesInHandler \ (Past \cup {"store"}), Takes(h, u, at),
           UNCHANGED index,
           \A w \in Files \ {u} : disk'[w] = disk[w],
           \A w \in Openable \ {u} : editor'[w] = editor[w],
           disk[u] # Absent => disk'[u] # Absent,
           disk'[u] # Absent => u \in index.documents,
           u \in index.documents => disk'[u] # Absent \/ editor'[u] # Closed
    PROVE  IndexInv'
<1>0. TypeInv /\ Openable \subseteq Files /\ index.documents \subseteq Files
  BY ServerAssumption DEF PatientInv, TypeInv, Shape, IsIndex
<1>1. Due' = Due \cup {u} /\ Awaited' = Awaited
  BY DueTaken
<1>2. Shelved'
  BY <1>0, <1>1 DEF IndexInv, Shelved, IsOpen
<1>3. Recorded'
  BY <1>0, <1>1 DEF IndexInv, Recorded, Shown, IsOpen, OnDisk
<1>4. Owned'
  <2>1. \A g \in Busy' : running'[g].at = "store" => running'[g].uri \notin DOMAIN index.recorded
    BY DEF IndexInv, Owned, Busy, Takes
  <2> QED
    BY <2>1 DEF IndexInv, Owned, Unshared
<1>5. Followed'
  <2> SUFFICES ASSUME NEW v \in (index.documents \ Due)', NEW f \in Includes(Shown(v))'
               PROVE  f \in (index.documents \cup Awaited)'
    BY DEF Followed
  <2>1. v \in Files \ {u} /\ v \notin Due /\ v \in index.documents
    BY <1>0, <1>1
  <2>2. Shown(v)' = Shown(v)
    BY <2>1 DEF Shown, IsOpen, OnDisk
  <2>3. f \in Imports(Shown(v)) /\ disk'[f] # Absent
    BY <2>2 DEF Includes
  <2>4. CASE f = u
    BY <2>3, <2>4
  <2>5. CASE f # u
    <3>1. f \in Files
      BY <1>0, <2>1, <2>3, ShownImportsFiles
    <3>2. f \in Includes(Shown(v))
      BY <2>3, <2>5, <3>1 DEF Includes
    <3> QED
      BY <1>1, <2>1, <3>2 DEF IndexInv, Followed
  <2> QED
    BY <2>4, <2>5
<1>6. ASSUME NEW g \in Busy' PROVE Crawling(g)'
  <2>1. CASE g = h
    BY <2>1 DEF Crawling, Takes, Past
  <2>2. CASE g # h
    BY <1>0, <1>6, <2>2, CrawlingOn DEF Busy, IndexInv, TypeInv, Shape, Takes
  <2> QED
    BY <2>1, <2>2
<1> QED
  BY <1>2, <1>3, <1>4, <1>5, <1>6 DEF IndexInv

LEMMA OpenKeeps ==
    ASSUME Patient, PatientInv, IndexInv, NEW u \in Openable, DidOpen(u) PROVE IndexInv'
<1>1. PICK h \in Handlers : Takes(h, u, "create")
  BY OpenTaken
<1>2. editor'[u] # Closed /\ \A w \in Openable \ {u} : editor'[w] = editor[w]
  <2>1. OnDisk(u) \in SUBSET Items
    BY OnDiskIsText, ServerAssumption DEF PatientInv, TypeInv, Shape
  <2> QED
    BY <2>1, TextAssumption DEF DidOpen, PatientInv, TypeInv, Shape
<1>3. UNCHANGED <<disk, index>>
  BY DEF DidOpen
<1>4. disk[u] # Absent => u \in index.documents
  BY DEF IndexInv, Shelved
<1>5. "create" \in PlacesInHandler \ (Past \cup {"store"})
  BY DEF PlacesInHandler, Past
<1> QED
  BY <1>1, <1>2, <1>3, <1>4, <1>5, TakenKeeps

LEMMA ChangeKeeps ==
    ASSUME Patient, PatientInv, IndexInv, NEW u \in Openable, NEW item \in Edits[u], DidChange(u, item)
    PROVE  IndexInv'
<1>0. Quiet(u) /\ \E h \in Handlers : Takes(h, u, "set") /\ ~running'[h].blocking
  BY ChangeTaken
<1>1. PICK h \in Handlers : Takes(h, u, "set")
  BY <1>0
<1>2. UNCHANGED <<disk, index>> /\ \A w \in Openable \ {u} : editor'[w] = editor[w]
  BY DEF DidChange, PatientInv, TypeInv, Shape
<1>3. editor'[u] # Closed
  <2> DEFINE new == IF item \in editor[u] THEN editor[u] \ {item} ELSE editor[u] \cup {item}
  <2>1. editor'[u] = new /\ editor[u] # Closed
    BY DEF DidChange, PatientInv, TypeInv, Shape
  <2>2. new \in SUBSET Items
    <3>1. editor[u] \in SUBSET Items /\ item \in Items
      BY <2>1 DEF PatientInv, TypeInv, Shape, Items
    <3> QED
      BY <3>1
  <2> QED
    BY <2>1, <2>2, TextAssumption
<1>4. disk[u] # Absent => u \in index.documents
  BY DEF IndexInv, Shelved
<1>5. "set" \in PlacesInHandler \ (Past \cup {"store"})
  BY DEF PlacesInHandler, Past
<1> QED
  BY <1>1, <1>2, <1>3, <1>4, <1>5, TakenKeeps

\* A file that is open with no handler at work for it is indexed.
LEMMA OpenIsIndexed ==
    ASSUME IndexInv, NEW u \in Openable, editor[u] # Closed, Quiet(u)
    PROVE  u \in index.documents
BY DueAndAwaited DEF IndexInv, Shelved, IsOpen, Quiet

LEMMA SaveKeeps ==
    ASSUME Patient, PatientInv, IndexInv, NEW u \in Openable, DidSave(u) PROVE IndexInv'
<1>1. PICK h \in Handlers, at \in {"set", "parse"} : Takes(h, u, at)
  BY SaveTaken
<1>2. UNCHANGED <<editor, index>> /\ editor[u] # Closed
  BY DEF DidSave
<1>3. u \in index.documents
  BY <1>2, SaveTaken, OpenIsIndexed
<1>4. disk'[u] # Absent /\ \A w \in Files \ {u} : disk'[w] = disk[w]
  <2>1. editor[u] \in SUBSET Items
    BY <1>2 DEF PatientInv, TypeInv, Shape
  <2> QED
    BY <2>1, TextAssumption, ServerAssumption DEF DidSave, PatientInv, TypeInv, Shape
<1>5. at \in PlacesInHandler \ (Past \cup {"store"})
  BY DEF PlacesInHandler, Past
<1> QED
  BY <1>1, <1>2, <1>3, <1>4, <1>5, TakenKeeps

LEMMA CloseKeeps ==
    ASSUME Patient, PatientInv, IndexInv, NEW u \in Openable, DidClose(u) PROVE IndexInv'
<1>0. TypeInv /\ IsIndex(index) /\ u \in Files
  BY ServerAssumption DEF PatientInv, TypeInv, Shape
<1>1. Quiet(u)
  BY AtRest DEF DidClose
<1>2. /\ UNCHANGED disk /\ editor[u] # Closed /\ editor'[u] = Closed
      /\ \A w \in Openable \ {u} : editor'[w] = editor[w]
  BY DEF DidClose, PatientInv, TypeInv, Shape
<1>3. CASE disk[u] # Absent
  <2>1. PICK h \in Handlers : Takes(h, u, "prune")
    BY <1>3, CloseTaken
  <2>2. UNCHANGED index
    BY <1>3 DEF DidClose
  <2>3. u \in index.documents
    BY <1>3 DEF IndexInv, Shelved
  <2>4. "prune" \in PlacesInHandler \ (Past \cup {"store"})
    BY DEF PlacesInHandler, Past
  <2> QED
    BY <1>2, <1>3, <2>1, <2>2, <2>3, <2>4, TakenKeeps
<1>4. CASE disk[u] = Absent
  <2> DEFINE j == Prune(index, u)
  <2>1. UNCHANGED running /\ index' = [j EXCEPT !.documents = @ \ {u}]
    BY <1>4 DEF DidClose, Remove
  <2>2. /\ IsIndex(j) /\ j.documents = index.documents /\ j.pools = index.pools
        /\ DOMAIN j.recorded = DOMAIN index.recorded \ {u}
        /\ \A w \in DOMAIN j.recorded : j.recorded[w] = index.recorded[w]
    BY <1>0, PruneEffect, IndexSteps
  <2>3. /\ \A n \in DOMAIN j.owner : j.owner[n] \in DOMAIN j.recorded /\ n \in j.recorded[j.owner[n]]
        /\ \A v \in DOMAIN j.recorded :
              /\ j.recorded[v] \subseteq Labels(EverIn(v))
              /\ \A n \in j.recorded[v] : Unshared(n, v) => n \in DOMAIN j.owner
    BY <1>0, PrunedOwners DEF IndexInv
  <2> HIDE DEF j
  <2>4. /\ index'.documents = index.documents \ {u} /\ index'.pools = index.pools
        /\ index'.recorded = j.recorded /\ index'.owner = j.owner
    BY <2>1, <2>2 DEF IsIndex
  <2>5. Due' = Due /\ Awaited' = Awaited /\ u \notin Due
    BY <1>1, <2>1, DueAndAwaited DEF Due, Awaited, Busy, Quiet
  <2>6. Shelved'
    BY <1>2, <1>4, <2>4, <2>5 DEF IndexInv, Shelved, IsOpen
  <2>7. Recorded'
    <3>1. \A w \in index.documents : w # u => Shown(w)' = Shown(w)
      BY <1>2 DEF Shown, IsOpen, OnDisk
    <3> QED
      BY <2>2, <2>4, <2>5, <3>1 DEF IndexInv, Recorded
  <2>8. Owned'
    BY <2>1, <2>2, <2>3, <2>4 DEF IndexInv, Owned, Busy, Unshared
  <2>9. Followed'
    <3>1. \A w \in index.documents : w # u => Includes(Shown(w))' = Includes(Shown(w))
      BY <1>2 DEF Shown, IsOpen, OnDisk, Includes
    <3>2. \A w : u \notin Includes(Shown(w))
      BY <1>4 DEF Includes
    <3> QED
      BY <2>4, <2>5, <3>1, <3>2 DEF IndexInv, Followed
  <2>10. ASSUME NEW g \in Busy' PROVE Crawling(g)'
    <3>1. g \in Busy /\ IsTask(running[g]) /\ running[g].uri # u
      BY <1>0, <1>1, <2>1, <2>10 DEF Busy, TypeInv, Shape, Quiet
    <3> QED
      BY <1>2, <1>4, <2>1, <2>4, <3>1, CrawlingOn DEF Busy, IndexInv
  <2> QED
    BY <2>6, <2>7, <2>8, <2>9, <2>10 DEF IndexInv
<1> QED
  BY <1>3, <1>4

\* With a patient editor every step of the server keeps the index.
LEMMA IndexStays ==
    ASSUME Patient, WorkspaceInv, [Next]_vars PROVE IndexInv'
<1>1. CASE UNCHANGED vars
  BY <1>1 DEF vars, WorkspaceInv, IndexInv, Shelved, Recorded, Owned, Followed, Crawling, Due, Awaited,
     Busy, Shown, IsOpen, OnDisk, Includes, Unshared
<1>2. ASSUME NEW h \in Handlers, Step(h) PROVE IndexInv'
  BY <1>2, EarlyKeeps, LastKeeps, CrawlOneKeeps, PruneKeeps, StoreKeeps, CrawlStoreKeeps DEF Step, WorkspaceInv
<1>3. ASSUME NEW u \in Openable, DidOpen(u) PROVE IndexInv'
  BY <1>3, OpenKeeps DEF WorkspaceInv
<1>4. ASSUME NEW u \in Openable, DidSave(u) PROVE IndexInv'
  BY <1>4, SaveKeeps DEF WorkspaceInv
<1>5. ASSUME NEW u \in Openable, DidClose(u) PROVE IndexInv'
  BY <1>5, CloseKeeps DEF WorkspaceInv
<1>6. ASSUME NEW u \in Openable, NEW item \in Edits[u], DidChange(u, item) PROVE IndexInv'
  BY <1>6, ChangeKeeps DEF WorkspaceInv
<1> QED
  BY <1>1, <1>2, <1>3, <1>4, <1>5, <1>6 DEF Next
-----------------------------------------------------------------------------
(* The index follows the editor.                                           *)

\* Every file that may be opened and is there is indexed: the entrypoint leads
\* to it when the server starts.
AllReached == \A u \in Openable : disk[u] # Absent => u \in index.documents

\* What the entrypoint leads to is there, and leads to nothing else.
LEMMA ReachedIsClosed ==
    ASSUME Init
    PROVE  \A f \in Reached : disk[f] # Absent /\ Includes(OnDisk(f)) \subseteq Reached
<1>1. \A f \in Files : Imports(OnDisk(f)) \subseteq Files
  <2>1. TypeInv
    BY TypesAtFirst
  <2>2. \A f \in Files : OnDisk(f) \subseteq Items
    BY <2>1 DEF TypeInv, Shape, OnDisk
  <2> QED
    BY <2>2, TextAssumption DEF Imports, Named
<1>2. ASSUME NEW f \in Reached PROVE disk[f] # Absent
  <2> DEFINE there == {g \in Files : disk[g] # Absent}
  <2>1. Entry \in there
    BY ServerAssumption DEF Init
  <2>2. \A g \in there : Includes(OnDisk(g)) \subseteq there
    BY <1>1 DEF Includes
  <2> QED
    BY <2>1, <2>2 DEF Reached
<1>3. ASSUME NEW f \in Reached, NEW g \in Includes(OnDisk(f)) PROVE g \in Reached
  <2>1. f \in Files /\ g \in Files
    BY <1>1, <1>3 DEF Reached, Includes
  <2>2. ASSUME NEW S \in SUBSET Files, Entry \in S, \A k \in S : Includes(OnDisk(k)) \subseteq S
        PROVE  g \in S
    BY <1>3, <2>2 DEF Reached
  <2> QED
    BY <2>1, <2>2 DEF Reached
<1> QED
  BY <1>2, <1>3

LEMMA WorkspaceAtFirst == Init /\ AllReached => WorkspaceInv
<1> SUFFICES ASSUME Init, AllReached PROVE WorkspaceInv
  OBVIOUS
<1>1. PatientInv
  BY PatientAtFirst
<1>2. Busy = {} /\ Due = {} /\ Awaited = {}
  BY DEF Init, Busy, Due, Awaited
<1>3. docs = NoFunction /\ DOMAIN docs = {}
  BY DEF Init, NoFunction
<1>4. DocumentsRead
  BY <1>2, <1>3 DEF DocumentsRead
<1>5. \A u \in Openable : editor[u] = Closed
  BY DEF Init
<1>6. TextsKnown
  BY <1>5 DEF Init, TextsKnown, OnDisk, EverIn
<1>7. \A f : Shown(f) = OnDisk(f) /\ ~IsOpen(f)
  BY <1>5 DEF Shown, IsOpen
<1>8. \A f \in Reached : disk[f] # Absent /\ Includes(Shown(f)) \subseteq Reached
  BY <1>7, ReachedIsClosed
<1> DEFINE labels == UNION {Labels(disk[f]) : f \in Reached}
           records == [f \in Reached |-> Labels(disk[f])]
           pools == UNION {Pools(disk[f]) : f \in Reached}
<1>9. PICK owner \in [labels -> Reached] :
         /\ \A n \in labels : n \in Labels(disk[owner[n]])
         /\ index = [EmptyIndex EXCEPT !.documents = Reached, !.owner = owner,
                                       !.recorded = records, !.pools = pools]
  BY Zenon DEF Init
<1>10. \A f \in Reached : OnDisk(f) = disk[f]
  BY <1>8 DEF OnDisk
<1>11. \A f \in Reached : Pools(disk[f]) \subseteq pools /\ Labels(disk[f]) \subseteq labels
  OBVIOUS
<1>12. records = [f \in Reached |-> Labels(disk[f])]
  OBVIOUS
<1> HIDE DEF labels, records, pools
<1>13. /\ index.documents = Reached /\ index.owner = owner
       /\ index.recorded = records /\ index.pools = pools
  BY <1>9 DEF EmptyIndex
<1>14. Shelved
  BY <1>7, <1>8, <1>13 DEF Shelved, AllReached
<1>15. Recorded
  BY <1>7, <1>10, <1>11, <1>12, <1>13 DEF Recorded
<1>16. Owned
  <2>1. \A v \in Reached : Labels(disk[v]) \subseteq Labels(EverIn(v))
    <3>1. Reached \subseteq Files
      BY DEF Reached
    <3> QED
      BY <1>6, <1>7, <1>10, <3>1, ShownIsKnown
  <2> QED
    BY <1>2, <1>9, <1>11, <1>12, <1>13, <2>1 DEF Owned
<1>17. Followed
  BY <1>8, <1>13 DEF Followed
<1> QED
  BY <1>1, <1>2, <1>4, <1>6, <1>14, <1>15, <1>16, <1>17 DEF WorkspaceInv, IndexInv

LEMMA WorkspaceStays == Patient /\ WorkspaceInv /\ [Next]_vars => WorkspaceInv'
BY PatienceStays, TextsStayKnown, ReadStays, IndexStays DEF WorkspaceInv

LEMMA WorkspaceAlways == ASSUME Patient PROVE Spec /\ AllReached => []WorkspaceInv
<1>1. Init /\ AllReached => WorkspaceInv
  BY WorkspaceAtFirst
<1>2. WorkspaceInv /\ [Next]_vars => WorkspaceInv'
  BY WorkspaceStays
<1> QED
  BY <1>1, <1>2, PTL DEF Spec

\* When the editor waits for the handlers of a file before it sends more about
\* it, and the entrypoint leads to every file it may open that is there at first,
\* then, with nothing under way, the index leads to names that are where it says,
\* has every name that is a file's own, every open file and what indexed files
\* import, and nothing that is neither open nor there: whichever handlers prune,
\* store and crawl at the same time (src/a816/lsp/workspace.py:101-141, 284-308, 400-455).
THEOREM IndexFollowed == ASSUME Patient PROVE Spec /\ AllReached => []IndexFollowsEditor
<1>1. WorkspaceInv => IndexFollowsEditor
  <2> SUFFICES ASSUME WorkspaceInv, Settled PROVE
        /\ \A n \in DOMAIN index.owner : n \in Labels(Shown(index.owner[n]))
        /\ \A u \in index.documents : \A n \in Labels(Shown(u)) :
              Unshared(n, u) => n \in DOMAIN index.owner
        /\ \A u \in Openable : IsOpen(u) => u \in index.documents
        /\ \A u \in index.documents : IsOpen(u) \/ disk[u] # Absent
        /\ \A u \in index.documents : Includes(Shown(u)) \subseteq index.documents
    BY DEF IndexFollowsEditor
  <2>1. Due = {} /\ Awaited = {}
    BY DEF Settled, Due, Awaited
  <2>2. IndexInv /\ DOMAIN index.recorded \subseteq index.documents
    BY DEF WorkspaceInv, PatientInv, TypeInv, Shape, IsIndex
  <2>3. \A n \in DOMAIN index.owner : n \in Labels(Shown(index.owner[n]))
    BY <2>1, <2>2 DEF IndexInv, Owned, Recorded
  <2>4. \A u \in index.documents : \A n \in Labels(Shown(u)) :
           Unshared(n, u) => n \in DOMAIN index.owner
    BY <2>1, <2>2 DEF IndexInv, Owned, Recorded
  <2>5. /\ \A u \in Openable : IsOpen(u) => u \in index.documents
        /\ \A u \in index.documents : IsOpen(u) \/ disk[u] # Absent
    BY <2>1, <2>2 DEF IndexInv, Shelved
  <2>6. \A u \in index.documents : Includes(Shown(u)) \subseteq index.documents
    BY <2>1, <2>2 DEF IndexInv, Followed
  <2> QED
    BY <2>3, <2>4, <2>5, <2>6
<1> QED
  BY <1>1, WorkspaceAlways, PTL

\* A pool that is reported undeclared while no other handler is at work is declared by
\* no file the reporting one reaches.
LEMMA UndeclaredIsSo ==
    ASSUME WorkspaceInv, NEW h \in Handlers, Publish(h), Busy = {h}
    PROVE  LET u == running[h].uri
           IN  \A p \in DOMAIN published'[u].pools : \A f \in ReachedFrom(u) : p \notin Pools(Shown(f))
<1> DEFINE u == running[h].uri
           missing == Undeclared(index, Doc(h))
<1>0. PatientInv /\ TypeInv /\ IndexInv /\ IsIndex(index)
  BY DEF WorkspaceInv, PatientInv, TypeInv, Shape
<1>1. /\ running[h] # Idle /\ IsTask(running[h]) /\ running[h].at = "crawl" /\ running[h].queue = {}
      /\ ~running[h].blocking
  BY <1>0, LastMoves DEF Publish
<1>2. Due = {} /\ Awaited = {}
  BY <1>1 DEF Due, Awaited, Past
<1>3. u \in Openable /\ editor[u] # Closed
  BY <1>0, <1>1, Patience DEF InPlace
<1>4. u \in index.documents
  BY <1>0, <1>2, <1>3 DEF IndexInv, Shelved, IsOpen
<1>5. ReachedFrom(u) \subseteq index.documents
  <2>1. \A g \in index.documents : Includes(Shown(g)) \subseteq index.documents
    BY <1>0, <1>2 DEF IndexInv, Followed
  <2>2. index.documents \in SUBSET Files
    BY <1>0 DEF IsIndex
  <2> QED
    BY <1>4, <2>1, <2>2 DEF ReachedFrom
<1>6. \A f \in index.documents : Pools(Shown(f)) \subseteq index.pools
  BY <1>0, <1>2 DEF IndexInv, Recorded
<1>7. \A p \in DOMAIN missing : p \notin index.pools
  BY DEF Undeclared
<1>8. published'[u].pools = missing
  <2> DEFINE said == [own |-> Doc(h).diagnostics, pools |-> missing]
  <2>1. published' = [published EXCEPT ![u] = said]
    BY DEF Publish
  <2>2. said.pools = missing
    OBVIOUS
  <2> HIDE DEF said
  <2>3. published'[u] = said
    BY <1>0, <1>3, <2>1 DEF TypeInv, Shape
  <2> QED
    BY <2>2, <2>3
<1> HIDE DEF missing
<1> QED
  BY <1>5, <1>6, <1>7, <1>8

\* Under the same conditions a pool is reported undeclared, by a handler with no
\* other at work, only when no file the reporting one reaches through imports
\* declares it, though the index never forgets a pool and crawls only what it has
\* not yet (src/a816/lsp/workspace.py:361-385, src/a816/lsp/server.py:208).
THEOREM PoolErrorsReal == ASSUME Patient PROVE Spec /\ AllReached => PoolErrorsAreReal
<1>1. WorkspaceInv /\ [Next]_vars =>
         [\A h \in Handlers :
             (Publish(h) /\ Busy = {h}) =>
                 LET u == running[h].uri
                 IN  \A p \in DOMAIN published'[u].pools : \A f \in ReachedFrom(u) :
                         p \notin Pools(Shown(f))]_vars
  BY UndeclaredIsSo
<1> QED
  BY <1>1, WorkspaceAlways, PTL DEF Spec, PoolErrorsAreReal
=============================================================================
