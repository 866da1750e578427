----------------------------- MODULE ImportGraph -----------------------------
(***************************************************************************)
(* Which modules reach which along .import directives, for reference:      *)
(* what the walks of ModuleBuilder and ModuleGraph                          *)
(* (src/a816/module_builder.py) are measured by.  `imports` maps every      *)
(* module to the list of names its .import directives give.                 *)
(***************************************************************************)
EXTENDS Integers, Sequences, Functions

CONSTANT Modules      \* module names

\* The modules of a set, those they import, and so on.
Closure(imports, from) ==
    {y \in Modules :
        \A S \in SUBSET Modules :
            from \subseteq S /\ (\A x \in S : Range(imports[x]) \subseteq S) => y \in S}

\* x imports itself, directly or not.
OnCycle(imports, x) == x \in Closure(imports, Range(imports[x]))
=============================================================================
