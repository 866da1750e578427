------------------------------ MODULE ModuleBuild ------------------------------
(***************************************************************************)
(* The incremental build of ModuleBuilder.build (src/a816/module_builder.py)*)
(* over an object directory that outlives it: imports are discovered and    *)
(* sorted, each module is compiled or its cached object is taken, and what  *)
(* was collected is linked.  Between builds the files change.               *)
(*                                                                          *)
(* The recursions of discover_imports and topological_sort are taken call   *)
(* by call.  What an object was made from stands for its content.  Time     *)
(* stamps are kept as the one relation the code asks for: this file is      *)
(* newer than that module's object.  Writes are dated by one clock that     *)
(* moves on between two of them.                                            *)
(***************************************************************************)
EXTENDS ImportGraph

CONSTANTS NameRank,     \* name -> its place in the order sorted() gives
          Sources,      \* source files a build may start from
          Home,         \* module -> its source file
          Assets,       \* .include, .incbin and .table files
          Texts,        \* source file -> texts it may hold: what they import,
                        \* the assets they read, the modules whose constants
                        \* they name, imported or not, and whether they compile
          Contents,     \* contents an asset may have
          Absent,       \* an asset that is not there
          Losable       \* bound: modules whose cached files get deleted

ASSUME BuildAssumption ==
    /\ "__main__" \in Modules
    /\ NameRank \in [Modules -> Int] /\ IsInjective(NameRank)
    /\ \A x \in Modules \ {"__main__"} : Home[x] \in DOMAIN Texts
    /\ Sources \subseteq DOMAIN Texts /\ "none" \notin Sources
    /\ DOMAIN Texts \cap Assets = {}
    /\ \A f \in DOMAIN Texts : \A t \in Texts[f] :
          /\ t # Absent /\ t.imports \in Seq(Modules) /\ t.assets \subseteq Assets
          /\ t.names \subseteq Modules \ {"__main__"}
    /\ Absent \notin Contents
    /\ Losable \subseteq Modules

VARIABLES files,        \* file -> text of a source, content of an asset
          objects,      \* the .o files: module -> what it was made from
          sidecars,     \* the .deps files: module -> the files they list
          newer,        \* <<f, x>>: f was written after the object of x
          main,         \* the source this build started from, or "none"
          found,        \* graph.modules, in the order they were found
          pending,      \* the imports discovery has still to follow
          path,         \* the calls of visit under way, each with the
                        \* dependencies it has still to visit
          order,        \* result, then compilation_order
          k,            \* the module it is at
          recompiled,   \* the modules compiled in this build
          loaded,       \* object_files, by module
          phase,        \* "idle", "discover", "sort", "module", "record", "link"
          image,        \* what the last successful build linked
          error         \* why the last build failed, "none" otherwise

disk == <<files, objects, sidecars, newer>>
graph == <<found, pending, path, order>>
progress == <<k, recompiled, loaded>>
vars == <<disk, main, graph, progress, phase, image, error>>

Files == DOMAIN Texts \cup Assets
NoFunction == [x \in {} |-> x]
With(f, x, value) == [y \in DOMAIN f \cup {x} |-> IF y = x THEN value ELSE f[y]]
Without(f, x) == [y \in DOMAIN f \ {x} |-> f[y]]

SourceOf(x) == IF x = "__main__" THEN main ELSE Home[x]
Text(x) == files[SourceOf(x)]
Module == order[k]

Init ==
    /\ \E t \in [DOMAIN Texts -> UNION {Texts[f] : f \in DOMAIN Texts}], c \in [Assets -> Contents] :
          /\ files = [f \in Files |-> IF f \in DOMAIN Texts THEN t[f] ELSE c[f]]
          /\ \A f \in DOMAIN Texts : t[f] \in Texts[f]
    /\ objects = NoFunction /\ sidecars = NoFunction /\ newer = {}
    /\ main = "none" /\ found = <<>> /\ pending = <<>> /\ path = <<>> /\ order = <<>>
    /\ k = 1 /\ recompiled = {} /\ loaded = NoFunction
    /\ phase = "idle" /\ image = NoFunction /\ error = "none"

-----------------------------------------------------------------------------
(* Between builds.                                                          *)

Written(f) == newer' = newer \cup ({f} \X DOMAIN objects)

EditSource(f) ==
    /\ phase = "idle"
    /\ \E t \in Texts[f] \ {files[f]} : files' = [files EXCEPT ![f] = t]
    /\ Written(f)
    /\ UNCHANGED <<objects, sidecars, main, graph, progress, phase, image, error>>

EditAsset(f) ==
    /\ phase = "idle"
    /\ \E c \in (Contents \cup {Absent}) \ {files[f]} : files' = [files EXCEPT ![f] = c]
    /\ Written(f)
    /\ UNCHANGED <<objects, sidecars, main, graph, progress, phase, image, error>>

\* Someone clears the cache, wholly or in part.
Forget(x) ==
    /\ phase = "idle"
    /\ \/ /\ x \in DOMAIN objects
          /\ objects' = Without(objects, x)
          /\ newer' = {p \in newer : p[2] # x}
          /\ UNCHANGED sidecars
       \/ /\ x \in DOMAIN sidecars
          /\ sidecars' = Without(sidecars, x)
          /\ UNCHANGED <<objects, newer>>
    /\ UNCHANGED <<files, main, graph, progress, phase, image, error>>

-----------------------------------------------------------------------------
(* One build.                                                               *)

\* A builder serves one build.
NoBuilder ==
    /\ main' = "none" /\ found' = <<>> /\ pending' = <<>> /\ path' = <<>> /\ order' = <<>>
    /\ k' = 1 /\ recompiled' = {} /\ loaded' = NoFunction

\* Mutant: the next build goes on with the builder of the last.
FailKeepsBuilder(reason) ==
    phase' = "idle" /\ error' = reason /\ UNCHANGED <<main, graph, progress>>

\* The build is over without an image.
Fail(reason) == phase' = "idle" /\ error' = reason /\ NoBuilder

StartBuild(s) ==
    /\ phase = "idle"
    /\ phase' = "discover" /\ error' = "none"
    /\ main' = s /\ pending' = <<"__main__">>
    /\ UNCHANGED <<disk, found, path, order, progress, image>>

\* One call of _discover_imports_recursive: a module enters the graph before
\* what it imports, and that before what its importer imports next.
Discover ==
    /\ phase = "discover" /\ pending # <<>>
    /\ LET x == Head(pending)
       IN  IF x \in Range(found)
           THEN pending' = Tail(pending) /\ UNCHANGED found
           ELSE found' = Append(found, x) /\ pending' = Text(x).imports \o Tail(pending)
    /\ UNCHANGED <<disk, main, path, order, progress, phase, image, error>>

\* Everything is found: topological_sort.
StartSort ==
    /\ phase = "discover" /\ pending = <<>>
    /\ phase' = "sort"
    /\ UNCHANGED <<disk, main, graph, progress, image, error>>

\* A call of visit, before it has visited a dependency.
Visit(x) == [module |-> x, left |-> Range(Text(x).imports) \cap Range(found)]

Top == path[Len(path)]

\* Mutant: temp_visited is never left again.
UnderWayForEver == {path[p].module : p \in DOMAIN path} \cup Range(order)

\* temp_visited
UnderWay == {path[p].module : p \in DOMAIN path}

\* The loop of topological_sort: the first module not visited yet.
VisitRoot ==
    /\ phase = "sort" /\ path = <<>>
    /\ \E j \in DOMAIN found :
          /\ found[j] \notin Range(order)
          /\ \A i \in 1 .. j - 1 : found[i] \in Range(order)
          /\ path' = <<Visit(found[j])>>
    /\ UNCHANGED <<disk, main, found, pending, order, progress, phase, image, error>>

\* visit goes through the dependencies in the order of their names.  One
\* that is under way itself raises, one visited before returns at once.
VisitDependency ==
    /\ phase = "sort" /\ path # <<>>
    /\ \E d \in Top.left :
          /\ \A e \in Top.left : NameRank[d] <= NameRank[e]
          /\ IF d \in UnderWay
             THEN Fail("cycle")
             ELSE LET went == [path EXCEPT ![Len(path)].left = @ \ {d}]
                  IN  /\ path' = IF d \in Range(order) THEN went ELSE Append(went, Visit(d))
                      /\ UNCHANGED <<main, found, pending, order, progress, phase, error>>
    /\ UNCHANGED <<disk, image>>

\* visit returns, the module behind everything it depends on.
Visited ==
    /\ phase = "sort" /\ path # <<>> /\ Top.left = {}
    /\ order' = Append(order, Top.module)
    /\ path' = SubSeq(path, 1, Len(path) - 1)
    /\ UNCHANGED <<disk, main, found, pending, progress, phase, image, error>>

\* Every module is visited: the loop of build.
StartModules ==
    /\ phase = "sort" /\ path = <<>> /\ Range(found) \subseteq Range(order)
    /\ phase' = "module"
    /\ UNCHANGED <<disk, main, graph, progress, image, error>>

\* Mutant: only the source itself is looked at.
OwnFilesAsRecordedNoAssets(x) ==
    /\ x \in DOMAIN objects
    /\ x \in DOMAIN sidecars
    /\ SourceOf(x) \in sidecars[x]
    /\ <<SourceOf(x), x>> \notin newer

\* The opposite of _needs_recompilation: object and sidecar are there, the
\* sidecar names the source, and nothing it names is missing or newer.
OwnFilesAsRecorded(x) ==
    /\ x \in DOMAIN objects
    /\ x \in DOMAIN sidecars
    /\ SourceOf(x) \in sidecars[x]
    /\ \A f \in sidecars[x] : files[f] # Absent /\ <<f, x>> \notin newer

\* Mutant: only its own files are looked at.
UpToDateAlone(x) == OwnFilesAsRecorded(x)

\* Nor has a module it imports been compiled in this build (dep_recompiled).
UpToDate(x) ==
    /\ OwnFilesAsRecorded(x)
    /\ \A d \in Range(Text(x).imports) : d \notin recompiled

\* The modules a text is compiled with: it imports them or names their constants.
Needed(text) == Range(text.imports) \cup text.names

\* What compiling x now reads: its text, its assets, and the modules it needs.
\* The constants of every module built so far in this build are seeded
\* (accumulated_constants), whether x imports it or not.
Inputs(x) ==
    [text |-> Text(x), reads |-> [f \in Text(x).assets |-> files[f]],
     uses |-> [d \in Needed(Text(x)) \cap DOMAIN loaded |-> loaded[d]]]

\* A missing asset raises before anything is written.
ReadsFail(x) == \E f \in Text(x).assets : files[f] = Absent

\* A constant of a module this build has not come to is an undefined symbol.
Compilable(x) == Text(x).compiles /\ Text(x).names \subseteq DOMAIN loaded

\* The object file is written, and with it becomes newer than every file.
WriteObject(x, content) ==
    /\ objects' = With(objects, x, content)
    /\ newer' = {p \in newer : p[2] # x}

\* The module is finished: on to the next one, or to the linker.
NextModule(x, content) ==
    /\ loaded' = With(loaded, x, content)
    /\ k' = k + 1
    /\ phase' = IF k = Len(order) THEN "link" ELSE "module"

\* Mutant: it stays at the module it is at.
ReuseStuck ==
    /\ phase = "module" /\ UpToDate(Module)
    /\ loaded' = With(loaded, Module, objects[Module])
    /\ UNCHANGED <<disk, main, graph, k, phase, recompiled, image, error>>

\* "Module is up to date": the cached object is loaded.
Reuse ==
    /\ phase = "module" /\ UpToDate(Module)
    /\ NextModule(Module, objects[Module])
    /\ UNCHANGED <<disk, main, graph, recompiled, image, error>>

\* _compile_module up to the object file.  assemble_as_object writes the
\* object of a module with an error in it too, as far as it got.
Compile ==
    /\ phase = "module" /\ ~UpToDate(Module)
    /\ IF ReadsFail(Module)
       THEN Fail("asset") /\ UNCHANGED <<objects, newer>>
       ELSE /\ WriteObject(Module, Inputs(Module))
            /\ IF Compilable(Module)
               THEN /\ recompiled' = recompiled \cup {Module}
                    /\ phase' = "record"
                    /\ UNCHANGED <<main, graph, k, loaded, error>>
               ELSE Fail("error")
    /\ UNCHANGED <<files, sidecars, image>>

\* Mutant: the source is not among the files recorded.
RecordAssets ==
    /\ phase = "record"
    /\ sidecars' = With(sidecars, Module, Text(Module).assets)
    /\ NextModule(Module, objects[Module])
    /\ UNCHANGED <<files, objects, newer, main, graph, recompiled, image, error>>

\* The object is loaded and _write_deps lists what it was made from.
Record ==
    /\ phase = "record"
    /\ sidecars' = With(sidecars, Module, {SourceOf(Module)} \cup Text(Module).assets)
    /\ NextModule(Module, objects[Module])
    /\ UNCHANGED <<files, objects, newer, main, graph, recompiled, image, error>>

\* Everything collected is linked.
LinkObjects ==
    /\ phase = "link"
    /\ image' = loaded
    /\ phase' = "idle" /\ NoBuilder
    /\ UNCHANGED <<disk, error>>

BuildStep ==
    \/ Discover \/ StartSort
    \/ VisitRoot \/ VisitDependency \/ Visited \/ StartModules
    \/ Reuse \/ Compile \/ Record \/ LinkObjects

Next ==
    \/ \E f \in DOMAIN Texts : EditSource(f)
    \/ \E f \in Assets : EditAsset(f)
    \/ \E x \in Losable : Forget(x)
    \/ \E s \in Sources : StartBuild(s)
    \/ BuildStep

\* Nobody has to edit or to build, but a build that runs goes on.
Spec == Init /\ [][Next]_vars /\ WF_vars(BuildStep)
=============================================================================
