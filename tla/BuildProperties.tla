--------------------------- MODULE BuildProperties ---------------------------
(***************************************************************************)
(* What makes the incremental build of ModuleBuild correct.                *)
(***************************************************************************)
EXTENDS ModuleBuild

\* The modules this build has finished.
Done == {order[j] : j \in 1 .. k - 1}

TypeOK ==
    /\ \A f \in DOMAIN Texts : files[f] \in Texts[f]
    /\ \A f \in Assets : files[f] \in Contents \cup {Absent}
    /\ DOMAIN objects \subseteq Modules /\ DOMAIN sidecars \subseteq Modules
    /\ \A x \in DOMAIN sidecars : sidecars[x] \subseteq Files
    /\ newer \subseteq Files \X DOMAIN objects
    /\ main \in Sources \cup {"none"} /\ (main = "none") = (phase = "idle")
    /\ phase \in {"idle", "discover", "sort", "module", "record", "link"}
    /\ found \in Seq(Modules) /\ pending \in Seq(Modules)
    /\ path \in Seq([module : Modules, left : SUBSET Modules])
    /\ order \in Seq(Modules) /\ k \in 1 .. Len(order) + 1
    /\ recompiled \subseteq Range(order) /\ DOMAIN loaded = Done
    /\ error \in {"none", "cycle", "asset", "error"}

Clean == INSTANCE CleanBuild

Imports == [x \in Modules |-> Text(x).imports]

\* A build compiles every module it needs, once, and none before the modules
\* whose constants it uses.
DependenciesFirst ==
    phase \in {"module", "record", "link"} =>
        /\ Range(order) = Closure(Imports, {"__main__"})
        /\ \A a, b \in DOMAIN order :
              /\ a # b => order[a] # order[b]
              /\ order[a] \in Range(Imports[order[b]]) => a < b

\* The depth-first sort finds an order whenever there is one, and a right
\* one: circular imports are the only reason to refuse.
OrderIsSound ==
    [][/\ DependenciesFirst'
       /\ VisitDependency /\ error' = "cycle" =>
             \E x \in Closure(Imports, {"__main__"}) : OnCycle(Imports, x)]_vars

\* A build that has just succeeded leaves no module that the next one would
\* compile again.
NothingLeftDirty ==
    phase = "link" => \A x \in Range(order) : OwnFilesAsRecorded(x)

\* A build compiles together what belongs together: looking only at direct
\* imports, as `any(dep in recompiled ...)` does, is enough for a module whose
\* import's import was compiled; and what was compiled was made from the very
\* objects that are linked with it.
RecompiledTogether ==
    phase \in {"module", "record", "link"} =>
        \A x \in Done :
            /\ Closure(Imports, Range(Imports[x])) \cap recompiled # {} => x \in recompiled
            /\ x \in recompiled => loaded[x] = Inputs(x)

\* Each image is what the files mean, whatever the object directory held.
BuildsLikeClean == Clean!Spec

-----------------------------------------------------------------------------
(* What BuildsLikeClean takes: the four ways the code lets a stale object   *)
(* through, and that none of them is taken.                                 *)

\* The build is about to fail over its module.
Failing ==
    phase = "module" /\ ~UpToDate(Module) /\ (ReadsFail(Module) \/ ~Compilable(Module))

\* The modules a text imports, those they import, and so on: as they are for
\* every build, whatever source it starts from.
HomeImports == [x \in Modules |-> IF x = "__main__" THEN <<>> ELSE files[Home[x]].imports]

Reach(text) == Closure(HomeImports, Range(text.imports)) \ {"__main__"}

\* Nothing the sidecar of x lists is missing or newer than its object, which a
\* build that gives x the source it had before therefore takes.
Takable(x) ==
    /\ x \in DOMAIN objects /\ x \in DOMAIN sidecars
    /\ \A f \in sidecars[x] : files[f] # Absent /\ <<f, x>> \notin newer

\* This build has not come to x, whose object was made with a module that it
\* has compiled again.
LeftOut(x) ==
    x \in DOMAIN objects \ Done /\ Takable(x) /\ DOMAIN objects[x].uses \cap recompiled # {}

Undisturbed ==
    \* A module whose cached object is taken imports what it names, or imports
    \* what does;
    /\ phase = "module" /\ UpToDate(Module) => Text(Module).names \subseteq Reach(Text(Module))
    \* A build that succeeds leaves nobody out.
    /\ phase = "link" => \A x \in DOMAIN objects : ~LeftOut(x)
    \* Nor does one that fails, but for modules that reach the one it fails
    \* over and wait for it,
    /\ Failing => \A x \in DOMAIN objects : LeftOut(x) => Module \in Reach(objects[x].text)
    \* and the object of a module with an error stands beside no older sidecar.
    /\ Failing => ReadsFail(Module) \/ Module \notin DOMAIN sidecars

\* A build that was started comes to an end.
Terminates == phase # "idle" ~> phase = "idle"
=============================================================================
