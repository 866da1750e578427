------------------------------ MODULE CleanBuild ------------------------------
(***************************************************************************)
(* What a build promises (docs/docs/modules.md, "Incremental builds"):     *)
(* the image is what the files mean now, whatever was built before, and no *)
(* object directory has to be removed.  What a module means is its source, *)
(* the files it reads, and what the modules mean that it imports or names  *)
(* constants of.                                                           *)
(***************************************************************************)
EXTENDS ImportGraph

CONSTANTS Sources,    \* source files
          Home        \* module -> its source file

VARIABLES files,      \* file -> content
          image       \* what the last successful build linked

cleanVars == <<files, image>>

\* The imports of every module when the build starts from source s; the
\* module __main__ is s.
SourceAt(s, x) == IF x = "__main__" THEN s ELSE Home[x]

ImportsFrom(s) == [x \in Modules |-> files[SourceAt(s, x)].imports]

Reachable(s) == Closure(ImportsFrom(s), {"__main__"})

\* meaning is the meaning of the modules of a build from s.  There is one at
\* most, and none where modules need each other in a circle, since no value
\* holds itself.
IsMeaning(meaning, s) ==
    /\ DOMAIN meaning = Reachable(s)
    /\ \A x \in Reachable(s) :
          LET text == files[SourceAt(s, x)]
          IN  meaning[x] = [text  |-> text,
                            reads |-> [f \in text.assets |-> files[f]],
                            uses  |-> [d \in Range(text.imports) \cup text.names |-> meaning[d]]]

Write == image' = image

Build ==
    \E s \in Sources :
        /\ \A x \in Reachable(s) :
              /\ ~OnCycle(ImportsFrom(s), x)
              /\ files[SourceAt(s, x)].compiles
              /\ files[SourceAt(s, x)].names \subseteq Reachable(s)
        /\ IsMeaning(image', s)
        /\ UNCHANGED files

Init == image = [x \in {} |-> {}]

Spec == Init /\ [][Write \/ Build]_cleanVars
=============================================================================
