----------------------------- MODULE BuildProofs -----------------------------
(***************************************************************************)
(* The incremental build of ModuleBuild for every set of modules, files and *)
(* texts: its types, that the sort is sound, that a build leaves nothing    *)
(* dirty, and when it yields what a clean build would.                      *)
(***************************************************************************)
EXTENDS BuildProperties, SequenceTheorems, TLAPS

Compiling == phase \in {"module", "record", "link"}

Deps(x) == Range(Text(x).imports)

-----------------------------------------------------------------------------
(* The inductive invariant.                                                *)

\* What each phase has and has not to do with.
Shape ==
    /\ files = [f \in Files |-> files[f]]
    /\ phase \in {"idle", "discover", "sort"} =>
          k = 1 /\ recompiled = {} /\ loaded = NoFunction
    /\ phase \in {"idle", "discover"} => order = <<>>
    /\ phase # "sort" => path = <<>>
    /\ phase # "discover" => pending = <<>>
    /\ phase = "idle" => found = <<>>
    /\ phase # "idle" => error = "none"
    /\ phase # "idle" => "__main__" \in Range(found) \cup Range(pending)
    /\ phase \in {"module", "record"} => k <= Len(order)
    /\ phase = "link" => k = Len(order) + 1

\* Discovery finds what the source reaches, and forgets no import.
Found ==
    phase # "idle" =>
        /\ Range(found) \cup Range(pending) \subseteq Closure(Imports, {"__main__"})
        /\ \A x \in Range(found) : Deps(x) \subseteq Range(found) \cup Range(pending)
        /\ Compiling => Range(found) \subseteq Range(order)

\* The result so far: no module twice, each behind its dependencies.
Ordered ==
    /\ Range(order) \subseteq Range(found)
    /\ \A a, b \in 1 .. Len(order) : order[a] = order[b] => a = b
    /\ \A b \in 1 .. Len(order) : \A d \in Deps(order[b]) : \E a \in 1 .. b - 1 : order[a] = d

\* The calls of visit under way: each of a module of its own, reached from
\* those before it, whose dependencies are in the result but for the ones
\* left and the one being visited.
Visiting ==
    /\ \A p \in 1 .. Len(path) :
          /\ path[p].module \in Range(found) \ Range(order)
          /\ path[p].left \subseteq Deps(path[p].module)
          /\ \A d \in Deps(path[p].module) \ path[p].left :
                d \in Range(order) \/ (p < Len(path) /\ d = path[p + 1].module)
    /\ \A p, q \in 1 .. Len(path) :
          p < q => /\ path[p].module # path[q].module
                   /\ path[q].module \in Closure(Imports, Deps(path[p].module))

\* Between the object of a module and its sidecar.
Compiled ==
    phase = "record" =>
        /\ Module \in recompiled /\ Module \in DOMAIN objects
        /\ objects[Module] = Inputs(Module)
        /\ Compilable(Module) /\ ~ReadsFail(Module)
        /\ \A f \in Files : <<f, Module>> \notin newer

\* What the build is done with is as recorded.
Collected == \A x \in Done : OwnFilesAsRecorded(x)

BuildInv == TypeOK /\ Shape /\ Found /\ Ordered /\ Visiting /\ Compiled /\ Collected

\* What has been compiled in this build, so far: with an import its importer,
\* and each from what had been collected by then.
Together ==
    Compiling =>
        /\ recompiled \subseteq IF phase = "record" THEN Done \cup {Module} ELSE Done
        /\ \A x \in Done : x \in recompiled \/ Deps(x) \cap recompiled = {}
        /\ \A x \in Done \cap recompiled :
              Needed(Text(x)) \subseteq Done /\ loaded[x] = Inputs(x)

-----------------------------------------------------------------------------
(* The invariant of the cache.                                             *)

\* The object of x used the objects that are there now.
Current(x, s) ==
    \A d \in Needed(files[s]) \ {"__main__"} : d \in DOMAIN objects /\ objects[x].uses[d] = objects[d]

\* Whoever is made from s will be compiled again with something it reaches, or
\* names something it does not reach.
Waiting(s) ==
    \/ \E d \in Reach(files[s]) : d \in recompiled \/ ~OwnFilesAsRecorded(d)
    \/ ~(files[s].names \subseteq Reach(files[s]))

\* The object of x says what the files say now, made from source s, and used
\* the objects that are there now unless it waits for one of them.
Faithful(x, s) ==
    /\ sidecars[x] = {s} \cup files[s].assets
    /\ files[s].compiles
    /\ objects[x] = [text |-> files[s], reads |-> [f \in files[s].assets |-> files[f]],
                     uses |-> [d \in Needed(files[s]) |-> objects[x].uses[d]]]
    /\ Current(x, s) \/ Waiting(s)

\* So do all objects a build would take.
Cached ==
    \A x \in Modules, s \in DOMAIN Texts :
        Takable(x) /\ s \in sidecars[x] /\ ~(phase = "record" /\ x = Module) => Faithful(x, s)

\* What the build has collected is what compiling it now would give.
Fresh ==
    \A x \in Done :
        /\ x \in DOMAIN objects /\ loaded[x] = objects[x]
        /\ loaded[x] = Inputs(x) /\ Text(x).compiles /\ Needed(Text(x)) \subseteq Done

CacheInv == Cached /\ Fresh
-----------------------------------------------------------------------------
(* Lemmas about sequences and partial functions.                           *)

\* The elements of a sequence, by position.
LEMMA SeqRange ==
    ASSUME NEW S, NEW s \in Seq(S)
    PROVE  /\ Range(s) \subseteq S
           /\ \A i \in 1 .. Len(s) : s[i] \in Range(s)
           /\ \A x \in Range(s) : \E i \in 1 .. Len(s) : s[i] = x
BY RangeOfSeq, RangeEquality

\* Append adds one element.
LEMMA AppendRange ==
    ASSUME NEW S, NEW s \in Seq(S), NEW e \in S
    PROVE  Range(Append(s, e)) = Range(s) \cup {e}
<1>1. /\ Append(s, e) \in Seq(S) /\ Len(Append(s, e)) = Len(s) + 1
      /\ \A i \in 1 .. Len(s) : Append(s, e)[i] = s[i]
      /\ Append(s, e)[Len(s) + 1] = e
  BY AppendProperties
<1>2. Len(s) \in Nat
  BY LenProperties
<1>3. Range(Append(s, e)) = {Append(s, e)[i] : i \in 1 .. Len(s) + 1}
  BY <1>1, RangeEquality
<1>4. Range(s) = {s[i] : i \in 1 .. Len(s)}
  BY RangeEquality
<1> QED
  BY <1>1, <1>2, <1>3, <1>4

\* A sequence is its head and its tail.
LEMMA TailRange ==
    ASSUME NEW S, NEW s \in Seq(S), s # <<>>
    PROVE  /\ Head(s) \in S /\ Tail(s) \in Seq(S)
           /\ Range(s) = {Head(s)} \cup Range(Tail(s))
<1>1. /\ Head(s) \in S /\ Tail(s) \in Seq(S)
      /\ Head(s) = s[1] /\ Len(Tail(s)) = Len(s) - 1
      /\ \A i \in 1 .. Len(Tail(s)) : Tail(s)[i] = s[i + 1]
  BY HeadTailProperties
<1>2. Len(s) \in Nat /\ Len(s) > 0
  BY EmptySeq
<1>3. Range(s) = {s[i] : i \in 1 .. Len(s)}
  BY RangeEquality
<1>4. Range(Tail(s)) = {Tail(s)[i] : i \in 1 .. Len(Tail(s))}
  BY <1>1, RangeEquality
<1>5. ASSUME NEW x \in Range(s)
      PROVE  x = Head(s) \/ x \in Range(Tail(s))
  <2>1. PICK i \in 1 .. Len(s) : x = s[i]
    BY <1>3
  <2>2. CASE i > 1
    BY <2>1, <2>2, <1>1, <1>2, <1>4, i - 1 \in 1 .. Len(Tail(s)), Tail(s)[i - 1] = s[i]
  <2> QED
    BY <2>1, <2>2, <1>1, <1>2
<1>6. ASSUME NEW x \in Range(Tail(s))
      PROVE  x \in Range(s)
  BY <1>1, <1>2, <1>3, <1>4
<1> QED
  BY <1>1, <1>2, <1>3, <1>5, <1>6

-----------------------------------------------------------------------------
(* Lemmas about what modules reach.                                        *)

\* No closed set is smaller.
LEMMA ClosureLeast ==
    ASSUME NEW imports, NEW from, NEW S \in SUBSET Modules,
           from \subseteq S, \A x \in S : Range(imports[x]) \subseteq S
    PROVE  Closure(imports, from) \subseteq S
BY DEF Closure

\* It holds what it starts from, and is closed itself.
LEMMA ClosureClosed ==
    ASSUME NEW imports, NEW from \in SUBSET Modules, \A x \in Modules : Range(imports[x]) \subseteq Modules
    PROVE  /\ from \subseteq Closure(imports, from) /\ Closure(imports, from) \subseteq Modules
           /\ \A x \in Closure(imports, from) : Range(imports[x]) \subseteq Closure(imports, from)
BY DEF Closure

\* It only grows with what it starts from.
LEMMA ClosureGrows ==
    ASSUME NEW imports, NEW from, NEW more \in SUBSET Modules, from \subseteq Closure(imports, more),
           \A x \in Modules : Range(imports[x]) \subseteq Modules
    PROVE  Closure(imports, from) \subseteq Closure(imports, more)
<1>1. /\ Closure(imports, more) \in SUBSET Modules
      /\ \A x \in Closure(imports, more) : Range(imports[x]) \subseteq Closure(imports, more)
  BY ClosureClosed
<1> QED
  BY <1>1, ClosureLeast

-----------------------------------------------------------------------------
(* The invariant holds.                                                    *)

\* What a module's text is made of.
LEMMA TextType ==
    ASSUME TypeOK, phase # "idle", NEW x \in Modules
    PROVE  /\ SourceOf(x) \in DOMAIN Texts /\ Text(x) # Absent
           /\ Text(x).imports \in Seq(Modules) /\ Text(x).assets \subseteq Assets
           /\ Imports[x] = Text(x).imports /\ Deps(x) \subseteq Modules
<1>1. SourceOf(x) \in DOMAIN Texts
  BY BuildAssumption DEF TypeOK, SourceOf
<1>2. Text(x) \in Texts[SourceOf(x)]
  BY <1>1 DEF TypeOK, Text
<1>3. Text(x).imports \in Seq(Modules) /\ Text(x).assets \subseteq Assets /\ Text(x) # Absent
  BY <1>1, <1>2, BuildAssumption
<1> QED
  BY <1>1, <1>3, SeqRange DEF Imports, Deps

\* What the source reaches is closed.
LEMMA ReachClosed ==
    ASSUME TypeOK, phase # "idle"
    PROVE  /\ "__main__" \in Closure(Imports, {"__main__"})
           /\ Closure(Imports, {"__main__"}) \subseteq Modules
           /\ \A x \in Closure(Imports, {"__main__"}) : Deps(x) \subseteq Closure(Imports, {"__main__"})
<1>1. \A x \in Modules : Range(Imports[x]) = Deps(x) /\ Deps(x) \subseteq Modules
  BY TextType DEF Deps
<1>2. {"__main__"} \in SUBSET Modules
  BY BuildAssumption
<1> QED
  BY <1>1, <1>2, ClosureClosed

\* As long as neither the files nor the source change, nor do the texts.
LEMMA TextsKept ==
    ASSUME UNCHANGED files, UNCHANGED main
    PROVE  /\ \A x : Text(x)' = Text(x) /\ Deps(x)' = Deps(x) /\ SourceOf(x)' = SourceOf(x)
           /\ Imports' = Imports
BY DEF Text, Deps, SourceOf, Imports

\* Between builds there is nothing to a builder.
LEMMA NothingBetween ==
    ASSUME phase' = "idle", NoBuilder
    PROVE  (Found /\ Ordered /\ Visiting /\ Compiled /\ Collected)'
<1>1. Len(<<>>) = 0 /\ Range(<<>>) = {} /\ 1 .. 0 = {}
  BY DEF Range
<1>2. Found' /\ Compiled'
  BY DEF Found, Compiled
<1>3. Ordered'
  BY <1>1 DEF Ordered, NoBuilder
<1>4. Visiting'
  BY <1>1 DEF Visiting, NoBuilder
<1>5. Collected'
  BY DEF Collected, Done, NoBuilder
<1> QED
  BY <1>2, <1>3, <1>4, <1>5

\* The builder's own part of the types and of the shape, between builds.
LEMMA BetweenTypes ==
    ASSUME phase' = "idle", NoBuilder
    PROVE  /\ main' = "none" /\ found' \in Seq(Modules) /\ pending' \in Seq(Modules)
           /\ path' \in Seq([module : Modules, left : SUBSET Modules])
           /\ order' \in Seq(Modules) /\ k' \in 1 .. Len(order') + 1
           /\ recompiled' = {} /\ DOMAIN loaded' = Done' /\ loaded' = NoFunction
           /\ found' = <<>> /\ order' = <<>> /\ path' = <<>> /\ pending' = <<>> /\ k' = 1
<1>1. Len(<<>>) = 0 /\ \A S : <<>> \in Seq(S)
  BY EmptySeq
<1>2. Done' = {} /\ DOMAIN loaded' = {}
  BY DEF Done, NoBuilder, NoFunction
<1> QED
  BY <1>1, <1>2 DEF NoBuilder

\* The first build starts from nothing.
LEMMA BuildInit == Init => BuildInv
<1> SUFFICES ASSUME Init PROVE BuildInv
  OBVIOUS
<1>1. Len(<<>>) = 0 /\ Range(<<>>) = {} /\ 1 .. 0 = {} /\ \A S : <<>> \in Seq(S)
  BY EmptySeq DEF Range
<1>2. /\ main = "none" /\ found = <<>> /\ pending = <<>> /\ path = <<>> /\ order = <<>>
      /\ k = 1 /\ recompiled = {} /\ loaded = NoFunction /\ phase = "idle" /\ error = "none"
      /\ objects = NoFunction /\ sidecars = NoFunction /\ newer = {}
  BY DEF Init
<1>3. /\ files = [f \in Files |-> files[f]]
      /\ \A f \in DOMAIN Texts : files[f] \in Texts[f]
      /\ \A f \in Assets : files[f] \in Contents
  <2>1. PICK t \in [DOMAIN Texts -> UNION {Texts[f] : f \in DOMAIN Texts}], c \in [Assets -> Contents] :
          /\ files = [f \in Files |-> IF f \in DOMAIN Texts THEN t[f] ELSE c[f]]
          /\ \A f \in DOMAIN Texts : t[f] \in Texts[f]
    BY DEF Init
  <2>2. \A f \in Assets : f \notin DOMAIN Texts
    BY BuildAssumption
  <2> QED
    BY <2>1, <2>2 DEF Files
<1>4. Done = {} /\ DOMAIN loaded = {} /\ DOMAIN objects = {} /\ DOMAIN sidecars = {}
  BY <1>2 DEF Done, NoFunction
<1>5. TypeOK
  BY <1>1, <1>2, <1>3, <1>4 DEF TypeOK
<1>6. Shape
  BY <1>2, <1>3 DEF Shape
<1>7. Found /\ Compiled
  BY <1>2 DEF Found, Compiled
<1>8. Ordered /\ Visiting
  BY <1>1, <1>2 DEF Ordered, Visiting
<1>9. Collected
  BY <1>4 DEF Collected
<1> QED
  BY <1>5, <1>6, <1>7, <1>8, <1>9 DEF BuildInv

\* Editing a source.
LEMMA EditSourceInv ==
    ASSUME BuildInv, NEW f \in DOMAIN Texts, EditSource(f)
    PROVE  BuildInv'
<1> USE DEF BuildInv
<1>1. /\ phase = "idle" /\ phase' = "idle"
      /\ UNCHANGED <<objects, sidecars, main, graph, progress, phase, image, error>>
      /\ newer' = newer \cup ({f} \X DOMAIN objects)
  BY DEF EditSource, Written
<1>2. NoBuilder
  BY <1>1 DEF TypeOK, Shape, NoBuilder, graph, progress
<1>3. PICK t \in Texts[f] : files' = [files EXCEPT ![f] = t]
  BY DEF EditSource
<1>4. f \in Files /\ f \notin Assets /\ DOMAIN Texts \subseteq Files /\ Assets \subseteq Files
  BY BuildAssumption DEF Files
<1>5. /\ files' = [g \in Files |-> files'[g]]
      /\ \A g \in Files : files'[g] = IF g = f THEN t ELSE files[g]
  BY <1>3, <1>4 DEF Shape
<1>6. /\ \A g \in DOMAIN Texts : files'[g] \in Texts[g]
      /\ \A g \in Assets : files'[g] \in Contents \cup {Absent}
  BY <1>3, <1>4, <1>5 DEF TypeOK
<1>7. newer' \subseteq Files \X DOMAIN objects'
  BY <1>1, <1>4 DEF TypeOK
<1>8. TypeOK'
  BY <1>1, <1>2, <1>6, <1>7, BetweenTypes DEF TypeOK
<1>9. Shape'
  BY <1>1, <1>2, <1>5, BetweenTypes DEF Shape
<1> QED
  BY <1>1, <1>2, <1>8, <1>9, NothingBetween

\* Writing or removing an asset.
LEMMA EditAssetInv ==
    ASSUME BuildInv, NEW f \in Assets, EditAsset(f)
    PROVE  BuildInv'
<1> USE DEF BuildInv
<1>1. /\ phase = "idle" /\ phase' = "idle"
      /\ UNCHANGED <<objects, sidecars, main, graph, progress, phase, image, error>>
      /\ newer' = newer \cup ({f} \X DOMAIN objects)
  BY DEF EditAsset, Written
<1>2. NoBuilder
  BY <1>1 DEF TypeOK, Shape, NoBuilder, graph, progress
<1>3. PICK c \in Contents \cup {Absent} : files' = [files EXCEPT ![f] = c]
  BY DEF EditAsset
<1>4. f \in Files /\ f \notin DOMAIN Texts /\ DOMAIN Texts \subseteq Files /\ Assets \subseteq Files
  BY BuildAssumption DEF Files
<1>5. /\ files' = [g \in Files |-> files'[g]]
      /\ \A g \in Files : files'[g] = IF g = f THEN c ELSE files[g]
  BY <1>3, <1>4 DEF Shape
<1>6. /\ \A g \in DOMAIN Texts : files'[g] \in Texts[g]
      /\ \A g \in Assets : files'[g] \in Contents \cup {Absent}
  BY <1>3, <1>4, <1>5 DEF TypeOK
<1>7. newer' \subseteq Files \X DOMAIN objects'
  BY <1>1, <1>4 DEF TypeOK
<1>8. TypeOK'
  BY <1>1, <1>2, <1>6, <1>7, BetweenTypes DEF TypeOK
<1>9. Shape'
  BY <1>1, <1>2, <1>5, BetweenTypes DEF Shape
<1> QED
  BY <1>1, <1>2, <1>8, <1>9, NothingBetween

\* Deleting a cached file.
LEMMA ForgetInv ==
    ASSUME BuildInv, NEW x \in Losable, Forget(x)
    PROVE  BuildInv'
<1> USE DEF BuildInv
<1>1. /\ phase = "idle" /\ phase' = "idle"
      /\ UNCHANGED <<files, main, graph, progress, phase, image, error>>
  BY DEF Forget
<1>2. NoBuilder
  BY <1>1 DEF TypeOK, Shape, NoBuilder, graph, progress
<1>3. /\ DOMAIN objects' \subseteq Modules
      /\ DOMAIN sidecars' \subseteq Modules
      /\ \A y \in DOMAIN sidecars' : sidecars'[y] \subseteq Files
      /\ newer' \subseteq Files \X DOMAIN objects'
  BY DEF Forget, TypeOK, Without
<1>4. TypeOK'
  BY <1>1, <1>2, <1>3, BetweenTypes DEF TypeOK
<1>5. Shape'
  BY <1>1, <1>2, BetweenTypes DEF Shape
<1> QED
  BY <1>1, <1>2, <1>4, <1>5, NothingBetween
\* What a module's text is made of, after a step.
LEMMA TextTypeNext ==
    (TypeOK /\ phase # "idle" =>
        /\ \A x \in Modules :
              /\ SourceOf(x) \in DOMAIN Texts /\ Text(x) # Absent
              /\ Text(x).imports \in Seq(Modules) /\ Text(x).assets \subseteq Assets
              /\ Imports[x] = Text(x).imports /\ Deps(x) \subseteq Modules
        /\ "__main__" \in Closure(Imports, {"__main__"}))'
<1>1. TypeOK /\ phase # "idle" =>
        /\ \A x \in Modules :
              /\ SourceOf(x) \in DOMAIN Texts /\ Text(x) # Absent
              /\ Text(x).imports \in Seq(Modules) /\ Text(x).assets \subseteq Assets
              /\ Imports[x] = Text(x).imports /\ Deps(x) \subseteq Modules
        /\ "__main__" \in Closure(Imports, {"__main__"})
  BY TextType, ReachClosed
<1> QED
  BY <1>1, PTL

\* A build is started.
LEMMA StartBuildInv ==
    ASSUME BuildInv, NEW s \in Sources, StartBuild(s)
    PROVE  BuildInv'
<1> USE DEF BuildInv
<1>1. /\ phase = "idle" /\ phase' = "discover" /\ error' = "none" /\ main' = s
      /\ pending' = <<"__main__">>
      /\ UNCHANGED <<disk, found, path, order, progress>>
  BY DEF StartBuild
<1>2. /\ found' = <<>> /\ path' = <<>> /\ order' = <<>> /\ k' = 1
      /\ recompiled' = {} /\ loaded' = NoFunction
  BY <1>1 DEF Shape, progress
<1>3. /\ Len(<<>>) = 0 /\ Range(<<>>) = {} /\ 1 .. 0 = {} /\ \A S : <<>> \in Seq(S)
      /\ Range(<<"__main__">>) = {"__main__"} /\ <<"__main__">> \in Seq(Modules)
  BY EmptySeq, BuildAssumption DEF Range
<1>4. s # "none" /\ Done' = {} /\ DOMAIN loaded' = {}
  BY <1>2, BuildAssumption DEF Done, NoFunction
<1>5. TypeOK'
  BY <1>1, <1>2, <1>3, <1>4 DEF TypeOK, disk
<1>6. Shape'
  BY <1>1, <1>2, <1>3 DEF Shape, disk
<1>7. Found'
  BY <1>1, <1>2, <1>3, <1>5, TextTypeNext DEF Found, Compiling
<1>8. Ordered' /\ Visiting'
  BY <1>2, <1>3 DEF Ordered, Visiting
<1>9. Compiled' /\ Collected'
  BY <1>1, <1>4 DEF Compiled, Collected
<1> QED
  BY <1>5, <1>6, <1>7, <1>8, <1>9

\* One import is followed.
LEMMA DiscoverInv ==
    ASSUME BuildInv, Discover
    PROVE  BuildInv'
<1> USE DEF BuildInv
<1> DEFINE x == Head(pending)
<1>1. /\ phase = "discover" /\ phase' = "discover" /\ pending # <<>>
      /\ UNCHANGED <<disk, main, path, order, progress, error>>
  BY DEF Discover
<1>2. /\ order = <<>> /\ path = <<>> /\ k = 1 /\ recompiled = {} /\ loaded = NoFunction
      /\ order' = <<>> /\ path' = <<>> /\ k' = 1 /\ recompiled' = {} /\ loaded' = NoFunction
  BY <1>1 DEF Shape, progress
<1>3. Len(<<>>) = 0 /\ Range(<<>>) = {} /\ 1 .. 0 = {} /\ \A S : <<>> \in Seq(S)
  BY EmptySeq DEF Range
<1>4. /\ \A y : Text(y)' = Text(y) /\ Deps(y)' = Deps(y)
      /\ Imports' = Imports
  BY <1>1, TextsKept DEF disk
<1>5. /\ found \in Seq(Modules) /\ pending \in Seq(Modules)
      /\ x \in Modules /\ Tail(pending) \in Seq(Modules)
      /\ Range(pending) = {x} \cup Range(Tail(pending))
  BY <1>1, TailRange DEF TypeOK
<1>6. Text(x).imports \in Seq(Modules) /\ Deps(x) = Range(Text(x).imports)
  BY <1>1, <1>5, TextType DEF Deps
<1>7. /\ found' \in Seq(Modules) /\ pending' \in Seq(Modules)
      /\ Range(found') = Range(found) \cup {x}
      /\ Range(pending') \subseteq Range(Tail(pending)) \cup Deps(x)
      /\ Range(Tail(pending)) \subseteq Range(pending')
      /\ x \in Range(found) \/ Deps(x) \subseteq Range(pending')
  <2>1. CASE x \in Range(found)
    BY <2>1, <1>5 DEF Discover
  <2>2. CASE x \notin Range(found)
    <3>1. found' = Append(found, x) /\ pending' = Text(x).imports \o Tail(pending)
      BY <2>2 DEF Discover
    <3>2. Range(found') = Range(found) \cup {x} /\ found' \in Seq(Modules)
      BY <3>1, <1>5, AppendRange, AppendProperties
    <3>3. Range(pending') = Deps(x) \cup Range(Tail(pending)) /\ pending' \in Seq(Modules)
      <4> DEFINE s == Text(x).imports
                 t == Tail(pending)
      <4>1. s \in Seq(Modules) /\ t \in Seq(Modules)
        BY <1>5, <1>6
      <4> HIDE DEF s, t
      <4>2. Range(s \o t) = Range(s) \cup Range(t)
        BY <4>1, RangeConcatenation
      <4>3. s \o t \in Seq(Modules)
        BY <4>1, ConcatProperties
      <4> QED
        BY <4>2, <4>3, <3>1, <1>6 DEF s, t
    <3> QED
      BY <3>2, <3>3
  <2> QED
    BY <2>1, <2>2
<1>8. Done' = {} /\ DOMAIN loaded' = {}
  BY <1>2 DEF Done, NoFunction
<1>9. TypeOK'
  BY <1>1, <1>2, <1>3, <1>7, <1>8 DEF TypeOK, disk
<1>10. Shape'
  BY <1>1, <1>2, <1>5, <1>7 DEF Shape, disk
<1>11. Found'
  <2>1. /\ Range(found) \cup Range(pending) \subseteq Closure(Imports, {"__main__"})
        /\ \A y \in Range(found) : Deps(y) \subseteq Range(found) \cup Range(pending)
    BY <1>1 DEF Found
  <2>2. Deps(x) \subseteq Closure(Imports, {"__main__"})
    BY <2>1, <1>1, <1>5, ReachClosed
  <2>3. Range(found') \cup Range(pending') \subseteq Closure(Imports, {"__main__"})
    BY <2>1, <2>2, <1>5, <1>7
  <2>4. ASSUME NEW y \in Range(found') PROVE Deps(y) \subseteq Range(found') \cup Range(pending')
    BY <2>1, <1>5, <1>7
  <2> QED
    BY <2>3, <2>4, <1>1, <1>4 DEF Found, Compiling
<1>12. Ordered' /\ Visiting'
  BY <1>2, <1>3 DEF Ordered, Visiting
<1>13. Compiled' /\ Collected'
  BY <1>1, <1>8 DEF Compiled, Collected
<1> QED
  BY <1>9, <1>10, <1>11, <1>12, <1>13

\* What a build's steps that leave the disk and the loop alone keep.
LEMMA SortKeeps ==
    ASSUME BuildInv, UNCHANGED <<disk, main, found, pending, progress, error>>,
           phase \in {"discover", "sort"}, phase' \in {"sort", "module"},
           path' \in Seq([module : Modules, left : SUBSET Modules]),
           order' \in Seq(Modules), pending = <<>>, phase' # "sort" => path' = <<>> /\ Len(order') > 0
    PROVE  TypeOK' /\ Shape' /\ Compiled' /\ Collected'
<1> USE DEF BuildInv
<1>1. /\ k = 1 /\ recompiled = {} /\ loaded = NoFunction
      /\ k' = 1 /\ recompiled' = {} /\ loaded' = NoFunction
  BY DEF Shape, progress
<1>2. Done' = {} /\ DOMAIN loaded' = {}
  BY <1>1 DEF Done, NoFunction
<1>3. Len(order') \in Nat
  BY LenProperties
<1>4. TypeOK'
  BY <1>1, <1>2, <1>3 DEF TypeOK, disk
<1>5. Shape'
  BY <1>1, <1>3 DEF Shape, disk
<1> QED
  BY <1>2, <1>4, <1>5 DEF Compiled, Collected

\* Discovery ends.
LEMMA StartSortInv ==
    ASSUME BuildInv, StartSort
    PROVE  BuildInv'
<1> USE DEF BuildInv
<1>1. /\ phase = "discover" /\ phase' = "sort" /\ pending = <<>>
      /\ UNCHANGED <<disk, main, found, pending, path, order, progress, error>>
  BY DEF StartSort, graph
<1>2. order = <<>> /\ path = <<>> /\ order' = <<>> /\ path' = <<>>
  BY <1>1 DEF Shape
<1>3. Len(<<>>) = 0 /\ Range(<<>>) = {} /\ 1 .. 0 = {} /\ \A S : <<>> \in Seq(S)
  BY EmptySeq DEF Range
<1>4. (\A y : Deps(y)' = Deps(y)) /\ Imports' = Imports
  BY <1>1, TextsKept DEF disk
<1>5. TypeOK' /\ Shape' /\ Compiled' /\ Collected'
  BY <1>1, <1>2, <1>3, SortKeeps
<1>6. Found'
  BY <1>1, <1>4 DEF Found, Compiling
<1>7. Ordered' /\ Visiting'
  BY <1>2, <1>3 DEF Ordered, Visiting
<1> QED
  BY <1>5, <1>6, <1>7
\* As long as neither the texts nor the result changes, the order stays right.
LEMMA OrderedKept ==
    ASSUME Ordered, UNCHANGED <<files, main, found, order>>
    PROVE  Ordered'
<1>1. order' = order /\ found' = found
  OBVIOUS
<1>2. Range(order) \subseteq Range(found) /\ \A a, b \in 1 .. Len(order) : order[a] = order[b] => a = b
  BY DEF Ordered
<1>3. ASSUME NEW b \in 1 .. Len(order)
      PROVE  \A d \in Deps(order[b])' : \E a \in 1 .. b - 1 : order[a] = d
  <2>1. Deps(order[b])' = Deps(order[b])
    BY TextsKept
  <2> QED
    BY <2>1 DEF Ordered
<1> QED
  BY <1>1, <1>2, <1>3 DEF Ordered

\* A build that is over, with or without an image.
LEMMA OverInv ==
    ASSUME BuildInv, UNCHANGED <<files, sidecars>>, phase' = "idle", NoBuilder,
           DOMAIN objects' \subseteq Modules, newer' \subseteq Files \X DOMAIN objects',
           error' \in {"none", "cycle", "asset", "error"}
    PROVE  BuildInv'
<1> USE DEF BuildInv
<1>1. TypeOK'
  BY BetweenTypes DEF TypeOK
<1>2. Shape'
  BY BetweenTypes DEF Shape
<1> QED
  BY <1>1, <1>2, NothingBetween

\* Sorting, every import of a module of the graph is in the graph.
LEMMA GraphClosed ==
    ASSUME BuildInv, phase = "sort"
    PROVE  /\ pending = <<>> /\ Range(found) \subseteq Modules
           /\ \A x \in Range(found) :
                 Deps(x) \subseteq Range(found) /\ Visit(x) = [module |-> x, left |-> Deps(x)]
<1>1. pending = <<>> /\ Range(pending) = {}
  BY DEF BuildInv, Shape, Range
<1>2. Range(found) \subseteq Modules
  BY SeqRange DEF BuildInv, TypeOK
<1>3. \A x \in Range(found) : Deps(x) \subseteq Range(found)
  BY <1>1 DEF BuildInv, Found
<1> QED
  BY <1>1, <1>2, <1>3 DEF Visit, Deps

\* The loop of topological_sort visits a module.
LEMMA VisitRootInv ==
    ASSUME BuildInv, VisitRoot
    PROVE  BuildInv'
<1> USE DEF BuildInv
<1>1. /\ phase = "sort" /\ phase' = "sort" /\ path = <<>>
      /\ UNCHANGED <<disk, main, found, pending, order, progress, error>>
  BY DEF VisitRoot
<1>2. PICK j \in DOMAIN found : found[j] \notin Range(order) /\ path' = <<Visit(found[j])>>
  BY DEF VisitRoot
<1>3. found[j] \in Range(found)
  BY DEF Range
<1>4. /\ found[j] \in Modules /\ Deps(found[j]) \subseteq Modules
      /\ path' = <<[module |-> found[j], left |-> Deps(found[j])]>> /\ pending = <<>>
  BY <1>1, <1>2, <1>3, GraphClosed
<1>5. (\A y : Deps(y)' = Deps(y)) /\ Imports' = Imports
  BY <1>1, TextsKept DEF disk
<1>6. path' \in Seq([module : Modules, left : SUBSET Modules]) /\ order' \in Seq(Modules)
  BY <1>1, <1>4 DEF TypeOK
<1>7. TypeOK' /\ Shape' /\ Compiled' /\ Collected'
  BY <1>1, <1>4, <1>6, SortKeeps
<1>8. Found' /\ Ordered'
  <2>1. Found'
    BY <1>1, <1>5 DEF Found, Compiling
  <2> QED
    BY <2>1, <1>1, OrderedKept DEF disk
<1>9. Visiting'
  <2>1. Len(path') = 1 /\ path'[1] = [module |-> found[j], left |-> Deps(found[j])]
    BY <1>4
  <2> QED
    BY <2>1, <1>1, <1>2, <1>3, <1>5 DEF Visiting
<1> QED
  BY <1>7, <1>8, <1>9

\* The call of visit that is going on, and what it does to the path to go
\* past one of its dependencies.
LEMMA TopOfPath ==
    ASSUME BuildInv, phase = "sort", path # <<>>, NEW d \in Top.left
    PROVE  /\ Len(path) \in Nat \ {0} /\ path \in [1 .. Len(path) -> [module : Modules, left : SUBSET Modules]]
           /\ Top = path[Len(path)] /\ Top.module \in Range(found) \ Range(order)
           /\ d \in Deps(Top.module) /\ d \in Range(found) /\ d \in Modules
           /\ LET went == [path EXCEPT ![Len(path)].left = @ \ {d}]
              IN  /\ went \in Seq([module : Modules, left : SUBSET Modules])
                  /\ Len(went) = Len(path)
                  /\ \A p \in 1 .. Len(path) : went[p].module = path[p].module
                  /\ \A p \in 1 .. Len(path) - 1 : went[p].left = path[p].left
                  /\ went[Len(path)].left = Top.left \ {d}
<1> USE DEF BuildInv
<1> DEFINE R == [module : Modules, left : SUBSET Modules]
           n == Len(path)
           went == [path EXCEPT ![n].left = @ \ {d}]
<1>1. path \in Seq(R)
  BY DEF TypeOK
<1>2. n \in Nat \ {0} /\ path \in [1 .. n -> R]
  BY <1>1, EmptySeq, LenProperties
<1>3. Top = path[n] /\ Top \in R
  BY <1>2 DEF Top
<1>4. Top.module \in Range(found) \ Range(order) /\ Top.left \subseteq Deps(Top.module)
  BY <1>2, <1>3 DEF Visiting
<1>5. d \in Deps(Top.module) /\ d \in Range(found) /\ d \in Modules
  BY <1>4, GraphClosed
<1>6. /\ went \in [1 .. n -> R]
      /\ \A p \in 1 .. n : went[p].module = path[p].module
      /\ \A p \in 1 .. n - 1 : went[p].left = path[p].left
      /\ went[n].left = Top.left \ {d}
  BY <1>2, <1>3
<1>7. went \in Seq(R) /\ Len(went) = n
  <2> HIDE DEF R, went, n
  <2> QED
    BY <1>2, <1>6, SeqDef
<1> QED
  BY <1>2, <1>3, <1>4, <1>5, <1>6, <1>7

\* A dependency is visited.
LEMMA VisitDependencyInv ==
    ASSUME BuildInv, VisitDependency
    PROVE  BuildInv'
<1> USE DEF BuildInv
<1> DEFINE R == [module : Modules, left : SUBSET Modules]
           n == Len(path)
<1>1. phase = "sort" /\ path # <<>> /\ UNCHANGED disk
  BY DEF VisitDependency
<1>2. PICK d \in Top.left :
        IF d \in UnderWay
        THEN Fail("cycle")
        ELSE LET went == [path EXCEPT ![Len(path)].left = @ \ {d}]
             IN  /\ path' = IF d \in Range(order) THEN went ELSE Append(went, Visit(d))
                 /\ UNCHANGED <<main, found, pending, order, progress, phase, error>>
  BY DEF VisitDependency
<1>3. CASE d \in UnderWay
  <2>1. phase' = "idle" /\ error' = "cycle" /\ NoBuilder
    BY <1>2, <1>3 DEF Fail
  <2> QED
    BY <2>1, <1>1, OverInv DEF TypeOK, disk
<1>4. CASE d \notin UnderWay
  <2> DEFINE went == [path EXCEPT ![n].left = @ \ {d}]
  <2>1. /\ path' = IF d \in Range(order) THEN went ELSE Append(went, Visit(d))
        /\ UNCHANGED <<main, found, pending, order, progress, phase, error>>
    BY <1>2, <1>4
  <2>2. /\ n \in Nat \ {0} /\ path \in [1 .. n -> R]
        /\ Top = path[n] /\ Top.module \in Range(found) \ Range(order)
        /\ d \in Deps(Top.module) /\ d \in Range(found) /\ d \in Modules
        /\ went \in Seq(R) /\ Len(went) = n
        /\ \A p \in 1 .. n : went[p].module = path[p].module
        /\ \A p \in 1 .. n - 1 : went[p].left = path[p].left
        /\ went[n].left = Top.left \ {d}
    BY <1>1, TopOfPath
  <2>3. /\ Visit(d) = [module |-> d, left |-> Deps(d)] /\ Deps(d) \subseteq Modules /\ pending = <<>>
        /\ Visit(d) \in R
    BY <1>1, <2>2, GraphClosed
  <2>4. (\A y : Deps(y)' = Deps(y)) /\ Imports' = Imports
    BY <1>1, <2>1, TextsKept DEF disk
  <2> HIDE DEF went, n, R
  <2>5. path' \in Seq(R)
    BY <2>1, <2>2, <2>3, AppendProperties
  <2>6. TypeOK' /\ Shape' /\ Compiled' /\ Collected'
    <3>1. UNCHANGED <<disk, main, found, pending, progress, error>> /\ phase' = "sort"
      BY <1>1, <2>1
    <3>2. order' \in Seq(Modules) /\ path' \in Seq([module : Modules, left : SUBSET Modules])
      BY <2>1, <2>5 DEF R, TypeOK
    <3> QED
      BY <1>1, <2>3, <3>1, <3>2, SortKeeps
  <2>7. Found' /\ Ordered'
    <3>1. Found'
      BY <1>1, <2>1, <2>4 DEF Found, Compiling
    <3>2. Ordered'
      BY <1>1, <2>1, OrderedKept DEF disk
    <3> QED
      BY <3>1, <3>2
  <2>8. ASSUME d \in Range(order)
        PROVE  Visiting'
    <3>1. path' = went /\ Len(path') = n
      BY <2>1, <2>2, <2>8
    <3>2. /\ \A p \in 1 .. n :
                /\ path[p].module \in Range(found) \ Range(order)
                /\ path[p].left \subseteq Deps(path[p].module)
                /\ \A e \in Deps(path[p].module) \ path[p].left :
                      e \in Range(order) \/ (p < n /\ e = path[p + 1].module)
          /\ \A p, q \in 1 .. n :
                p < q => /\ path[p].module # path[q].module
                         /\ path[q].module \in Closure(Imports, Deps(path[p].module))
      BY DEF Visiting, n
    <3>3. ASSUME NEW p \in 1 .. n
          PROVE  /\ path'[p].module \in Range(found) \ Range(order)
                 /\ path'[p].left \subseteq Deps(path'[p].module)
                 /\ \A e \in Deps(path'[p].module) \ path'[p].left :
                       e \in Range(order) \/ (p < n /\ e = path'[p + 1].module)
      <4>1. CASE p = n
        BY <4>1, <3>1, <3>2, <2>2, <2>8
      <4>2. CASE p < n
        <5>1. path'[p].module = path[p].module /\ path'[p].left = path[p].left
          BY <4>2, <3>1, <2>2
        <5>2. path'[p + 1].module = path[p + 1].module
          BY <4>2, <3>1, <2>2
        <5> QED
          BY <5>1, <5>2, <3>2
      <4> QED
        BY <4>1, <4>2, <2>2
    <3>4. \A p, q \in 1 .. n :
             p < q => /\ path'[p].module # path'[q].module
                      /\ path'[q].module \in Closure(Imports, Deps(path'[p].module))
      BY <3>1, <3>2, <2>2
    <3> QED
      BY <3>1, <3>3, <3>4, <2>1, <2>4 DEF Visiting
  <2>9. ASSUME d \notin Range(order)
        PROVE  Visiting'
    <3>1. /\ Len(path') = n + 1 /\ path'[n + 1] = Visit(d)
          /\ \A p \in 1 .. n : path'[p] = went[p]
      BY <2>1, <2>2, <2>3, <2>9, AppendProperties
    <3>2. \A p \in 1 .. n : path'[p].module = path[p].module /\ path[p].module # d
      BY <3>1, <2>2, <1>4 DEF UnderWay
    <3>3. /\ \A p \in 1 .. n - 1 : path'[p].left = path[p].left
          /\ path'[n].left = Top.left \ {d}
          /\ path'[n + 1].module = d /\ path'[n + 1].left = Deps(d)
      BY <3>1, <2>2, <2>3
    <3>4. /\ \A p \in 1 .. n :
                /\ path[p].module \in Range(found) \ Range(order)
                /\ path[p].left \subseteq Deps(path[p].module)
                /\ \A e \in Deps(path[p].module) \ path[p].left :
                      e \in Range(order) \/ (p < n /\ e = path[p + 1].module)
          /\ \A p, q \in 1 .. n :
                p < q => /\ path[p].module # path[q].module
                         /\ path[q].module \in Closure(Imports, Deps(path[p].module))
      BY DEF Visiting, n
    <3>5. ASSUME NEW p \in 1 .. n + 1
          PROVE  /\ path'[p].module \in Range(found) \ Range(order)
                 /\ path'[p].left \subseteq Deps(path'[p].module)
                 /\ \A e \in Deps(path'[p].module) \ path'[p].left :
                       e \in Range(order) \/ (p < n + 1 /\ e = path'[p + 1].module)
      <4>1. CASE p = n + 1
        BY <4>1, <3>3, <2>2, <2>9
      <4>2. CASE p = n
        BY <4>2, <3>2, <3>3, <3>4, <2>2
      <4>3. CASE p < n
        BY <4>3, <3>2, <3>3, <3>4, <2>2
      <4> QED
        BY <4>1, <4>2, <4>3, <2>2
    <3>6. ASSUME NEW p \in 1 .. n + 1, NEW q \in 1 .. n + 1, p < q
          PROVE  /\ path'[p].module # path'[q].module
                 /\ path'[q].module \in Closure(Imports, Deps(path'[p].module))
      <4>1. CASE q \in 1 .. n
        BY <4>1, <3>2, <3>4, <3>6, <2>2
      <4>2. CASE q = n + 1
        <5>1. p \in 1 .. n /\ path'[p].module = path[p].module /\ path[p].module \in Modules
          BY <4>2, <3>2, <3>6, <2>2 DEF R
        <5>2. \A y \in Modules : Range(Imports[y]) = Deps(y) /\ Deps(y) \subseteq Modules
          BY <1>1, TextType DEF Deps
        <5>3. /\ Deps(path[p].module) \subseteq Closure(Imports, Deps(path[p].module))
              /\ \A y \in Closure(Imports, Deps(path[p].module)) :
                    y \in Modules /\ Deps(y) \subseteq Closure(Imports, Deps(path[p].module))
          <6>1. Deps(path[p].module) \in SUBSET Modules /\ \A y \in Modules : Range(Imports[y]) \subseteq Modules
            BY <5>1, <5>2
          <6>2. /\ Deps(path[p].module) \subseteq Closure(Imports, Deps(path[p].module))
                /\ Closure(Imports, Deps(path[p].module)) \subseteq Modules
                /\ \A y \in Closure(Imports, Deps(path[p].module)) :
                      Range(Imports[y]) \subseteq Closure(Imports, Deps(path[p].module))
            BY <6>1, ClosureClosed
          <6> QED
            BY <6>2, <5>2
        <5>4. d \in Closure(Imports, Deps(path[p].module))
          <6>1. CASE p = n
            BY <6>1, <5>3, <2>2
          <6>2. CASE p < n
            BY <6>2, <5>1, <5>3, <3>4, <2>2
          <6> QED
            BY <6>1, <6>2, <5>1, <2>2
        <5> QED
          BY <5>1, <5>4, <4>2, <3>2, <3>3
      <4> QED
        BY <4>1, <4>2, <2>2
    <3> QED
      BY <3>1, <3>5, <3>6, <2>1, <2>4 DEF Visiting
  <2> QED
    BY <2>6, <2>7, <2>8, <2>9
<1> QED
  BY <1>3, <1>4
\* A call of visit returns.
LEMMA VisitedInv ==
    ASSUME BuildInv, Visited
    PROVE  BuildInv'
<1> USE DEF BuildInv
<1> DEFINE R == [module : Modules, left : SUBSET Modules]
           n == Len(path)
           m == Len(order)
<1>1. /\ phase = "sort" /\ phase' = "sort" /\ path # <<>> /\ Top.left = {}
      /\ order' = Append(order, Top.module) /\ path' = SubSeq(path, 1, n - 1)
      /\ UNCHANGED <<disk, main, found, pending, progress, error>>
  BY DEF Visited
<1>2. n \in Nat \ {0} /\ path \in [1 .. n -> R] /\ path \in Seq(R) /\ m \in Nat /\ order \in Seq(Modules)
  <2>1. path \in Seq(R) /\ order \in Seq(Modules)
    BY DEF TypeOK
  <2> QED
    BY <1>1, <2>1, EmptySeq, LenProperties
<1>3. Top = path[n] /\ Top \in R
  BY <1>2 DEF Top
<1>4. /\ \A p \in 1 .. n :
            /\ path[p].module \in Range(found) \ Range(order)
            /\ path[p].left \subseteq Deps(path[p].module)
            /\ \A e \in Deps(path[p].module) \ path[p].left :
                  e \in Range(order) \/ (p < n /\ e = path[p + 1].module)
      /\ \A p, q \in 1 .. n :
            p < q => /\ path[p].module # path[q].module
                     /\ path[q].module \in Closure(Imports, Deps(path[p].module))
  BY DEF Visiting
<1>5. /\ Top.module \in Range(found) \ Range(order) /\ Top.module \in Modules
      /\ Deps(Top.module) \subseteq Range(order)
  <2>1. Top.module \in Modules
    BY <1>3
  <2> QED
    BY <1>1, <1>2, <1>3, <1>4, <2>1
<1>6. (\A y : Deps(y)' = Deps(y)) /\ Imports' = Imports /\ pending = <<>>
  BY <1>1, TextsKept, GraphClosed DEF disk
<1> HIDE DEF n, m, R
<1>7. /\ order' \in Seq(Modules) /\ Len(order') = m + 1 /\ order'[m + 1] = Top.module
      /\ \A a \in 1 .. m : order'[a] = order[a]
      /\ Range(order') = Range(order) \cup {Top.module}
  BY <1>1, <1>2, <1>5, AppendProperties, AppendRange DEF m
<1>8. /\ path' \in Seq(R) /\ Len(path') = n - 1
      /\ \A p \in 1 .. n - 1 : path'[p] = path[p]
  BY <1>1, <1>2, SubSeqProperties DEF n
<1>9. TypeOK' /\ Shape' /\ Compiled' /\ Collected'
  BY <1>1, <1>6, <1>7, <1>8, SortKeeps DEF R
<1>10. Found'
  BY <1>1, <1>6 DEF Found, Compiling
<1>11. Ordered'
  <2>1. /\ Range(order) \subseteq Range(found)
        /\ \A a, b \in 1 .. m : order[a] = order[b] => a = b
        /\ \A b \in 1 .. m : \A d \in Deps(order[b]) : \E a \in 1 .. b - 1 : order[a] = d
    BY DEF Ordered, m
  <2>2. \A a \in 1 .. m : order[a] \in Range(order) /\ order[a] # Top.module
    BY <1>2, <1>5, SeqRange DEF m
  <2>3. \A d \in Range(order) : \E a \in 1 .. m : order[a] = d
    BY <1>2, SeqRange DEF m
  <2>4. Range(order') \subseteq Range(found')
    BY <2>1, <1>1, <1>5, <1>7
  <2>5. ASSUME NEW a \in 1 .. m + 1, NEW b \in 1 .. m + 1, order'[a] = order'[b]
        PROVE  a = b
    <3>1. CASE a = m + 1
      BY <3>1, <2>2, <2>5, <1>2, <1>7
    <3>2. CASE b = m + 1
      BY <3>2, <2>2, <2>5, <1>2, <1>7
    <3>3. CASE a \in 1 .. m /\ b \in 1 .. m
      BY <3>3, <2>1, <2>5, <1>7
    <3> QED
      BY <3>1, <3>2, <3>3, <1>2
  <2>6. ASSUME NEW b \in 1 .. m + 1, NEW d \in Deps(order'[b])
        PROVE  \E a \in 1 .. b - 1 : order'[a] = d
    <3>1. CASE b \in 1 .. m
      <4>1. order'[b] = order[b]
        BY <3>1, <1>7
      <4>2. PICK a \in 1 .. b - 1 : order[a] = d
        BY <4>1, <3>1, <2>1, <2>6
      <4>3. a \in 1 .. m
        BY <3>1, <1>2
      <4> QED
        BY <4>2, <4>3, <1>7
    <3>2. CASE b = m + 1
      BY <3>2, <2>3, <2>6, <1>2, <1>5, <1>7
    <3> QED
      BY <3>1, <3>2, <1>2
  <2> QED
    BY <2>4, <2>5, <2>6, <1>6, <1>7 DEF Ordered
<1>12. Visiting'
  <2>1. ASSUME NEW p \in 1 .. n - 1
        PROVE  /\ path[p].module \in Range(found) \ Range(order')
               /\ path[p].left \subseteq Deps(path[p].module)
               /\ \A e \in Deps(path[p].module) \ path[p].left :
                     e \in Range(order') \/ (p < n - 1 /\ e = path[p + 1].module)
    <3>1. path[p].module # Top.module
      BY <1>2, <1>3, <1>4
    <3>2. ASSUME NEW e \in Deps(path[p].module) \ path[p].left
          PROVE  e \in Range(order') \/ (p < n - 1 /\ e = path[p + 1].module)
      <4>1. e \in Range(order) \/ (p < n /\ e = path[p + 1].module)
        BY <1>2, <1>4
      <4>2. p = n - 1 => path[p + 1].module = Top.module
        BY <1>2, <1>3
      <4> QED
        BY <4>1, <4>2, <1>2, <1>7
    <3> QED
      BY <3>1, <3>2, <1>2, <1>4, <1>7
  <2>2. \A p, q \in 1 .. n - 1 :
           p < q => /\ path[p].module # path[q].module
                    /\ path[q].module \in Closure(Imports, Deps(path[p].module))
    BY <1>2, <1>4
  <2>3. \A p \in 1 .. n - 1 : p < n - 1 => path'[p + 1] = path[p + 1]
    BY <1>2, <1>8
  <2> QED
    BY <2>1, <2>2, <2>3, <1>1, <1>6, <1>8 DEF Visiting
<1> QED
  BY <1>9, <1>10, <1>11, <1>12

\* Everything is sorted.
LEMMA StartModulesInv ==
    ASSUME BuildInv, StartModules
    PROVE  BuildInv'
<1> USE DEF BuildInv
<1>1. /\ phase = "sort" /\ phase' = "module" /\ path = <<>> /\ Range(found) \subseteq Range(order)
      /\ UNCHANGED <<disk, main, found, pending, path, order, progress, error>>
  BY DEF StartModules, graph
<1>2. pending = <<>> /\ order' \in Seq(Modules) /\ path' \in Seq([module : Modules, left : SUBSET Modules])
  BY <1>1, GraphClosed DEF TypeOK
<1>3. "__main__" \in Range(order)
  BY <1>1, <1>2 DEF Shape, Range
<1>4. Len(order') > 0
  BY <1>1, <1>2, <1>3, SeqRange, LenProperties
<1>5. (\A y : Deps(y)' = Deps(y)) /\ Imports' = Imports
  BY <1>1, TextsKept DEF disk
<1>6. TypeOK' /\ Shape' /\ Compiled' /\ Collected'
  BY <1>1, <1>2, <1>4, SortKeeps
<1>7. Found'
  BY <1>1, <1>5 DEF Found, Compiling
<1>8. Ordered'
  BY <1>1, OrderedKept DEF disk
<1>9. Visiting'
  <2>1. path' = <<>> /\ Len(<<>>) = 0
    BY <1>1
  <2> QED
    BY <2>1 DEF Visiting
<1> QED
  BY <1>6, <1>7, <1>8, <1>9
\* Where the loop of build is: behind every dependency of its module, and
\* with what it is done with behind it.
LEMMA Position ==
    ASSUME BuildInv, phase \in {"module", "record"}
    PROVE  /\ Len(order) \in Nat /\ k \in 1 .. Len(order)
           /\ Module \in Modules /\ Module \in Range(order) /\ Module \notin Done
           /\ Done \subseteq Range(order) /\ Range(order) \subseteq Modules
           /\ Deps(Module) \subseteq Done
           /\ \A x \in Done : Deps(x) \subseteq Done
<1> USE DEF BuildInv
<1>1. /\ order \in Seq(Modules) /\ Len(order) \in Nat /\ k \in 1 .. Len(order)
      /\ \A a \in 1 .. Len(order) : order[a] \in Range(order)
      /\ Range(order) \subseteq Modules
  <2>1. order \in Seq(Modules) /\ k \in 1 .. Len(order) + 1 /\ k <= Len(order)
    BY DEF TypeOK, Shape
  <2> QED
    BY <2>1, LenProperties, SeqRange
<1>2. Module \in Range(order) /\ Module \in Modules
  BY <1>1 DEF Module
<1>3. Module \notin Done
  BY <1>1 DEF Module, Done, Ordered
<1>4. Done \subseteq Range(order)
  BY <1>1 DEF Done
<1>5. ASSUME NEW b \in 1 .. k, NEW d \in Deps(order[b])
      PROVE  d \in Done
  <2>0. b \in 1 .. Len(order)
    BY <1>1
  <2>1. PICK a \in 1 .. b - 1 : order[a] = d
    BY <2>0, <1>5 DEF Ordered
  <2> QED
    BY <2>1, <1>1 DEF Done
<1>6. k \in 1 .. k /\ \A j \in 1 .. k - 1 : j \in 1 .. k
  BY <1>1
<1> QED
  BY <1>1, <1>2, <1>3, <1>4, <1>5, <1>6 DEF Done, Module

\* What the steps of the loop keep.
LEMMA LoopKeeps ==
    ASSUME BuildInv, UNCHANGED <<files, main, graph, error>>, phase \in {"module", "record"},
           \/ k' = k /\ phase' = "record"
           \/ k' = k + 1 /\ phase' = IF k = Len(order) THEN "link" ELSE "module"
    PROVE  /\ Shape' /\ Found' /\ Ordered' /\ Visiting'
           /\ k' \in 1 .. Len(order') + 1 /\ phase' \in {"module", "record", "link"}
<1> USE DEF BuildInv
<1>1. Len(order) \in Nat /\ k \in 1 .. Len(order)
  BY Position
<1>2. /\ UNCHANGED <<files, main, found, pending, path, order, error>>
      /\ path = <<>> /\ pending = <<>>
  BY DEF graph, Shape
<1>3. Shape'
  BY <1>1, <1>2 DEF Shape
<1>4. Found'
  <2>1. (\A y : Deps(y)' = Deps(y)) /\ Imports' = Imports
    BY <1>2, TextsKept
  <2> QED
    BY <1>2, <2>1 DEF Found, Compiling
<1>5. Ordered'
  BY <1>2, OrderedKept
<1>6. Visiting'
  <2>1. path' = <<>> /\ Len(<<>>) = 0
    BY <1>2
  <2> QED
    BY <2>1 DEF Visiting
<1> QED
  BY <1>1, <1>2, <1>3, <1>4, <1>5, <1>6

\* The loop goes on to the next module.
LEMMA NextModuleDone ==
    ASSUME BuildInv, phase \in {"module", "record"}, UNCHANGED <<files, main, graph, error>>,
           NEW content, NextModule(Module, content)
    PROVE  /\ Done' = Done \cup {Module} /\ DOMAIN loaded' = Done'
           /\ loaded'[Module] = content
           /\ \A x \in Done : loaded'[x] = loaded[x]
           /\ k' = k + 1 /\ phase' = IF k = Len(order) THEN "link" ELSE "module"
<1>1. /\ k \in 1 .. Len(order) /\ Len(order) \in Nat /\ k' = k + 1 /\ order' = order
      /\ Module \notin Done
  BY Position DEF NextModule, graph
<1>2. Done' = Done \cup {Module}
  BY <1>1 DEF Done, Module
<1>3. DOMAIN loaded = Done /\ loaded' = With(loaded, Module, content)
  BY DEF BuildInv, TypeOK, NextModule
<1> QED
  BY <1>1, <1>2, <1>3 DEF NextModule, With

\* Whether a module is as recorded depends on the disk and on the source.
LEMMA AsRecordedKept ==
    ASSUME UNCHANGED <<disk, main>>
    PROVE  \A x : OwnFilesAsRecorded(x)' = OwnFilesAsRecorded(x)
BY TextsKept DEF OwnFilesAsRecorded, disk

\* A cached object is taken.
LEMMA ReuseInv ==
    ASSUME BuildInv, Reuse
    PROVE  BuildInv'
<1> USE DEF BuildInv
<1>1. /\ phase = "module" /\ UpToDate(Module) /\ NextModule(Module, objects[Module])
      /\ UNCHANGED <<disk, main, graph, recompiled, error>>
  BY DEF Reuse
<1>2. UNCHANGED <<files, main, graph, error>>
  BY <1>1 DEF disk
<1>3. /\ Done' = Done \cup {Module} /\ DOMAIN loaded' = Done' /\ k' = k + 1
      /\ phase' = IF k = Len(order) THEN "link" ELSE "module"
  BY <1>1, <1>2, NextModuleDone
<1>4. Shape' /\ Found' /\ Ordered' /\ Visiting' /\ k' \in 1 .. Len(order') + 1
      /\ phase' \in {"module", "record", "link"}
  BY <1>1, <1>2, <1>3, LoopKeeps
<1>5. TypeOK'
  BY <1>1, <1>3, <1>4 DEF TypeOK, disk, graph
<1>6. Compiled'
  BY <1>3 DEF Compiled
<1>7. Collected'
  BY <1>1, <1>3, AsRecordedKept DEF Collected, UpToDate
<1> QED
  BY <1>4, <1>5, <1>6, <1>7

\* A module is compiled, or its compilation fails.
LEMMA CompileInv ==
    ASSUME BuildInv, Compile
    PROVE  BuildInv'
<1> USE DEF BuildInv
<1>1. phase = "module" /\ UNCHANGED <<files, sidecars>>
  BY DEF Compile
<1>2. Module \in Modules /\ Module \in Range(order) /\ Module \notin Done
  BY <1>1, Position
<1>3. CASE ReadsFail(Module)
  <2>1. phase' = "idle" /\ error' = "asset" /\ NoBuilder /\ UNCHANGED <<objects, newer>>
    BY <1>3 DEF Compile, Fail
  <2> QED
    BY <1>1, <2>1, OverInv DEF TypeOK
<1>4. CASE ~ReadsFail(Module)
  <2>1. /\ objects' = With(objects, Module, Inputs(Module))
        /\ newer' = {p \in newer : p[2] # Module}
    BY <1>4 DEF Compile, WriteObject
  <2>2. /\ DOMAIN objects' = DOMAIN objects \cup {Module}
        /\ objects'[Module] = Inputs(Module)
        /\ \A y \in DOMAIN objects \ {Module} : objects'[y] = objects[y]
    BY <2>1 DEF With
  <2>3. DOMAIN objects' \subseteq Modules /\ newer' \subseteq Files \X DOMAIN objects'
    BY <2>1, <2>2, <1>2 DEF TypeOK
  <2>4. CASE ~Compilable(Module)
    <3>1. phase' = "idle" /\ error' = "error" /\ NoBuilder
      BY <1>4, <2>4 DEF Compile, Fail
    <3> QED
      BY <1>1, <2>3, <3>1, OverInv
  <2>5. CASE Compilable(Module)
    <3>1. /\ recompiled' = recompiled \cup {Module} /\ phase' = "record"
          /\ UNCHANGED <<main, graph, k, loaded, error>>
      BY <1>4, <2>5 DEF Compile
    <3>2. Shape' /\ Found' /\ Ordered' /\ Visiting' /\ k' \in 1 .. Len(order') + 1
      BY <1>1, <3>1, LoopKeeps
    <3>3. /\ Module' = Module /\ Done' = Done
          /\ UNCHANGED <<found, pending, path, order>>
      BY <3>1 DEF Module, Done, graph
    <3>4. TypeOK'
      BY <1>1, <1>2, <2>3, <3>1, <3>2, <3>3 DEF TypeOK
    <3>5. /\ \A x : Text(x)' = Text(x) /\ SourceOf(x)' = SourceOf(x)
          /\ Inputs(Module)' = Inputs(Module) /\ ReadsFail(Module)' = ReadsFail(Module)
          /\ Compilable(Module)' = Compilable(Module)
      BY <1>1, <3>1, <3>3, TextsKept DEF Inputs, ReadsFail, Compilable
    <3>6. Compiled'
      BY <1>4, <2>1, <2>2, <2>5, <3>1, <3>3, <3>5 DEF Compiled
    <3>7. Collected'
      <4> SUFFICES ASSUME NEW x \in Done PROVE OwnFilesAsRecorded(x)'
        BY <3>3 DEF Collected
      <4>1. OwnFilesAsRecorded(x) /\ x # Module
        BY <1>2 DEF Collected
      <4> QED
        BY <4>1, <1>1, <2>1, <2>2, <3>5 DEF OwnFilesAsRecorded
    <3> QED
      BY <3>2, <3>4, <3>6, <3>7
  <2> QED
    BY <2>4, <2>5
<1> QED
  BY <1>3, <1>4

\* What a module was made from is listed.
LEMMA RecordInv ==
    ASSUME BuildInv, Record
    PROVE  BuildInv'
<1> USE DEF BuildInv
<1>1. /\ phase = "record" /\ NextModule(Module, objects[Module])
      /\ sidecars' = With(sidecars, Module, {SourceOf(Module)} \cup Text(Module).assets)
      /\ UNCHANGED <<files, objects, newer, main, graph, recompiled, error>>
  BY DEF Record
<1>2. UNCHANGED <<files, main, graph, error>>
  BY <1>1
<1>3. /\ Done' = Done \cup {Module} /\ DOMAIN loaded' = Done' /\ k' = k + 1
      /\ phase' = IF k = Len(order) THEN "link" ELSE "module"
  BY <1>1, <1>2, NextModuleDone
<1>4. Shape' /\ Found' /\ Ordered' /\ Visiting' /\ k' \in 1 .. Len(order') + 1
      /\ phase' \in {"module", "record", "link"}
  BY <1>1, <1>2, <1>3, LoopKeeps
<1>5. /\ Module \in Modules /\ Module \notin Done /\ SourceOf(Module) \in DOMAIN Texts
      /\ Text(Module) # Absent /\ Text(Module).assets \subseteq Assets
      /\ DOMAIN Texts \subseteq Files /\ Assets \subseteq Files
  BY <1>1, Position, TextType DEF Files
<1>6. /\ DOMAIN sidecars' = DOMAIN sidecars \cup {Module}
      /\ sidecars'[Module] = {SourceOf(Module)} \cup Text(Module).assets
      /\ \A y \in DOMAIN sidecars \ {Module} : sidecars'[y] = sidecars[y]
  BY <1>1 DEF With
<1>7. TypeOK'
  BY <1>1, <1>3, <1>4, <1>5, <1>6 DEF TypeOK, graph
<1>8. Compiled'
  BY <1>3 DEF Compiled
<1>9. Collected'
  <2>1. \A x : SourceOf(x)' = SourceOf(x)
    BY <1>1, TextsKept
  <2>2. /\ Module \in DOMAIN objects /\ ~ReadsFail(Module)
        /\ \A f \in Files : <<f, Module>> \notin newer
    BY <1>1 DEF Compiled
  <2>3. ASSUME NEW f \in sidecars'[Module]
        PROVE  files[f] # Absent /\ <<f, Module>> \notin newer
    BY <2>2, <1>5, <1>6 DEF ReadsFail, Text
  <2> SUFFICES ASSUME NEW x \in Done \cup {Module} PROVE OwnFilesAsRecorded(x)'
    BY <1>3 DEF Collected
  <2>4. CASE x = Module
    BY <2>1, <2>2, <2>3, <2>4, <1>1, <1>6 DEF OwnFilesAsRecorded
  <2>5. CASE x # Module
    <3>1. OwnFilesAsRecorded(x)
      BY <2>5 DEF Collected
    <3> QED
      BY <3>1, <2>1, <2>5, <1>1, <1>6 DEF OwnFilesAsRecorded
  <2> QED
    BY <2>4, <2>5
<1> QED
  BY <1>4, <1>7, <1>8, <1>9

\* The build is linked.
LEMMA LinkObjectsInv ==
    ASSUME BuildInv, LinkObjects
    PROVE  BuildInv'
<1>1. phase' = "idle" /\ NoBuilder /\ UNCHANGED <<files, objects, sidecars, newer, error>>
  BY DEF LinkObjects, disk
<1> QED
  BY <1>1, OverInv DEF BuildInv, TypeOK
\* The invariant is inductive.
LEMMA BuildStepInv == BuildInv /\ [Next]_vars => BuildInv'
<1> SUFFICES ASSUME BuildInv, [Next]_vars PROVE BuildInv'
  OBVIOUS
<1>1. CASE UNCHANGED vars
  <2>1. UNCHANGED <<files, objects, sidecars, newer, main, found, pending, path, order,
                    k, recompiled, loaded, phase, error>>
    BY <1>1 DEF vars, disk, graph, progress
  <2>2. /\ \A y : Text(y)' = Text(y) /\ Deps(y)' = Deps(y) /\ SourceOf(y)' = SourceOf(y)
        /\ Imports' = Imports
    BY <2>1, TextsKept
  <2>3. Done' = Done /\ Module' = Module /\ \A x : OwnFilesAsRecorded(x)' = OwnFilesAsRecorded(x)
    BY <2>1, AsRecordedKept DEF Done, Module, disk
  <2>4. TypeOK' /\ Shape'
    BY <2>1, <2>3 DEF BuildInv, TypeOK, Shape
  <2>5. Found' /\ Collected'
    BY <2>1, <2>2, <2>3 DEF BuildInv, Found, Collected, Compiling
  <2>6. Ordered'
    BY <2>1, OrderedKept DEF BuildInv
  <2>7. Visiting'
    <3>1. \A p \in 1 .. Len(path) :
             Deps(path[p].module)' = Deps(path[p].module)
      BY <2>1, <2>2
    <3> QED
      BY <2>1, <2>2, <3>1 DEF BuildInv, Visiting
  <2>8. Compiled'
    <3>1. /\ Inputs(Module)' = Inputs(Module) /\ ReadsFail(Module)' = ReadsFail(Module)
          /\ Compilable(Module)' = Compilable(Module)
      BY <2>1, <2>2, <2>3 DEF Inputs, ReadsFail, Compilable
    <3> QED
      BY <2>1, <2>2, <2>3, <3>1 DEF BuildInv, Compiled
  <2> QED
    BY <2>4, <2>5, <2>6, <2>7, <2>8 DEF BuildInv
<1>2. CASE \E f \in DOMAIN Texts : EditSource(f)
  BY <1>2, EditSourceInv
<1>3. CASE \E f \in Assets : EditAsset(f)
  BY <1>3, EditAssetInv
<1>4. CASE \E x \in Losable : Forget(x)
  BY <1>4, ForgetInv
<1>5. CASE \E s \in Sources : StartBuild(s)
  BY <1>5, StartBuildInv
<1>6. CASE Discover \/ StartSort
  BY <1>6, DiscoverInv, StartSortInv
<1>7. CASE VisitRoot \/ VisitDependency \/ Visited \/ StartModules
  BY <1>7, VisitRootInv, VisitDependencyInv, VisitedInv, StartModulesInv
<1>8. CASE Reuse \/ Compile \/ Record \/ LinkObjects
  BY <1>8, ReuseInv, CompileInv, RecordInv, LinkObjectsInv
<1> QED
  BY <1>1, <1>2, <1>3, <1>4, <1>5, <1>6, <1>7, <1>8 DEF Next, BuildStep

\* Every build keeps the invariant.
LEMMA BuildInvariant == Spec => []BuildInv
<1>1. Init => BuildInv
  BY BuildInit
<1>2. BuildInv /\ [Next]_vars => BuildInv'
  BY BuildStepInv
<1> QED
  BY <1>1, <1>2, PTL DEF Spec

\* Whatever is edited, deleted and built, the cache and the builder have the
\* types ModuleBuilder gives them, and a builder serves one build.
THEOREM BuildTypes == Spec => []TypeOK
<1>1. BuildInv => TypeOK
  BY DEF BuildInv
<1> QED
  BY <1>1, BuildInvariant, PTL

\* Once the loop is through, no module of the build would be compiled again
\* by _needs_recompilation.
THEOREM NothingDirty == Spec => []NothingLeftDirty
<1>1. BuildInv => NothingLeftDirty
  <2> SUFFICES ASSUME BuildInv, phase = "link", NEW x \in Range(order)
               PROVE  OwnFilesAsRecorded(x)
    BY DEF NothingLeftDirty
  <2>1. order \in Seq(Modules) /\ Len(order) \in Nat /\ k = Len(order) + 1
    BY LenProperties DEF BuildInv, TypeOK, Shape
  <2>2. PICK j \in 1 .. Len(order) : order[j] = x
    BY <2>1, SeqRange
  <2>3. x \in Done
    BY <2>1, <2>2 DEF Done
  <2> QED
    BY <2>3 DEF BuildInv, Collected
<1> QED
  BY <1>1, BuildInvariant, PTL

\* The order the loop follows: what the source reaches, each module once,
\* behind the modules it imports.
LEMMA OrderComplete == BuildInv => DependenciesFirst
<1> SUFFICES ASSUME BuildInv, Compiling PROVE
        /\ Range(order) = Closure(Imports, {"__main__"})
        /\ \A a, b \in DOMAIN order :
              /\ a # b => order[a] # order[b]
              /\ order[a] \in Range(Imports[order[b]]) => a < b
  BY DEF DependenciesFirst, Compiling
<1> USE DEF BuildInv
<1>1. /\ order \in Seq(Modules) /\ Len(order) \in Nat /\ DOMAIN order = 1 .. Len(order)
      /\ \A a \in 1 .. Len(order) : order[a] \in Modules
      /\ found \in Seq(Modules) /\ phase # "idle" /\ pending = <<>>
  <2>1. order \in Seq(Modules) /\ found \in Seq(Modules) /\ phase # "idle" /\ pending = <<>>
    BY DEF TypeOK, Compiling, Shape
  <2> QED
    BY <2>1, LenProperties, ElementOfSeq
<1>2. Range(found) \subseteq Modules /\ Range(pending) = {}
  BY <1>1, SeqRange DEF Range
<1>3. \A x \in Modules : Range(Imports[x]) = Deps(x)
  BY <1>1, TextType DEF Deps
<1>4. Range(order) = Range(found)
  BY <1>1 DEF Found, Ordered
<1>5. Range(found) \subseteq Closure(Imports, {"__main__"})
  BY <1>1 DEF Found
<1>6. Closure(Imports, {"__main__"}) \subseteq Range(found)
  <2>1. "__main__" \in Range(found) /\ \A x \in Range(found) : Range(Imports[x]) \subseteq Range(found)
    BY <1>1, <1>2, <1>3 DEF Shape, Found
  <2> QED
    BY <2>1, <1>2, ClosureLeast
<1>7. ASSUME NEW a \in DOMAIN order, NEW b \in DOMAIN order
      PROVE  /\ a # b => order[a] # order[b]
             /\ order[a] \in Range(Imports[order[b]]) => a < b
  <2>1. a # b => order[a] # order[b]
    BY <1>1 DEF Ordered
  <2>2. ASSUME order[a] \in Range(Imports[order[b]])
        PROVE  a < b
    <3>1. order[a] \in Deps(order[b])
      BY <2>2, <1>1, <1>3
    <3>2. PICK c \in 1 .. b - 1 : order[c] = order[a]
      BY <3>1, <1>1 DEF Ordered
    <3>3. c \in 1 .. Len(order)
      BY <3>2, <1>1
    <3>4. c = a
      BY <3>2, <3>3, <1>1 DEF Ordered
    <3> QED
      BY <3>2, <3>4, <1>1
  <2> QED
    BY <2>1, <2>2
<1> QED
  BY <1>4, <1>5, <1>6, <1>7

\* Meeting a module that is under way, visit has found a circular import.
LEMMA CycleThere ==
    ASSUME BuildInv, VisitDependency, error' = "cycle"
    PROVE  \E x \in Closure(Imports, {"__main__"}) : OnCycle(Imports, x)
<1> USE DEF BuildInv
<1>1. phase = "sort" /\ path # <<>> /\ error # "cycle"
  BY DEF VisitDependency, Shape
<1>2. PICK d \in Top.left : d \in UnderWay
  BY <1>1 DEF VisitDependency
<1>3. /\ Len(path) \in Nat \ {0} /\ path \in [1 .. Len(path) -> [module : Modules, left : SUBSET Modules]]
      /\ Top = path[Len(path)] /\ d \in Deps(Top.module) /\ d \in Range(found) /\ d \in Modules
  BY <1>1, TopOfPath
<1>4. PICK p \in 1 .. Len(path) : path[p].module = d
  BY <1>2, <1>3 DEF UnderWay
<1>5. \A y \in Modules : Range(Imports[y]) = Deps(y) /\ Deps(y) \subseteq Modules
  BY <1>1, TextType DEF Deps
<1>6. /\ Deps(d) \subseteq Closure(Imports, Deps(d))
      /\ Closure(Imports, Deps(d)) \subseteq Modules
      /\ \A y \in Closure(Imports, Deps(d)) : Range(Imports[y]) \subseteq Closure(Imports, Deps(d))
  BY <1>3, <1>5, ClosureClosed
<1>7. d \in Closure(Imports, Deps(d))
  <2>1. CASE p = Len(path)
    <3>1. Top.module = d
      BY <2>1, <1>3, <1>4
    <3>2. d \in Deps(d)
      BY <3>1, <1>3
    <3> QED
      BY <3>2, <1>6
  <2>2. CASE p < Len(path)
    <3>1. Top.module \in Closure(Imports, Deps(d))
      BY <2>2, <1>3, <1>4 DEF Visiting
    <3> QED
      BY <3>1, <1>3, <1>5, <1>6
  <2>3. p = Len(path) \/ p < Len(path)
    <3>1. Len(path) \in Nat
      BY <1>3
    <3> HIDE DEF BuildInv
    <3> QED
      BY <3>1
  <2> QED
    BY <2>1, <2>2, <2>3
<1>8. d \in Closure(Imports, {"__main__"})
  BY <1>1, <1>3 DEF Found
<1> QED
  BY <1>3, <1>5, <1>7, <1>8 DEF OnCycle

\* topological_sort gives every module the source reaches, once, behind the
\* modules whose constants it uses, and raises only over a circular import.
THEOREM SortIsSound == Spec => OrderIsSound
<1>1. BuildInv /\ BuildInv' /\ [Next]_vars =>
        [/\ DependenciesFirst'
         /\ VisitDependency /\ error' = "cycle" =>
               \E x \in Closure(Imports, {"__main__"}) : OnCycle(Imports, x)]_vars
  <2>1. (BuildInv => DependenciesFirst)'
    BY OrderComplete, PTL
  <2> QED
    BY <2>1, CycleThere
<1> QED
  BY <1>1, BuildInvariant, PTL DEF Spec, OrderIsSound
-----------------------------------------------------------------------------
(* A build yields what a clean build would.                                *)

\* What the build is done with rests on nothing else.
LEMMA DoneClosed ==
    ASSUME BuildInv, Compiling, NEW x \in Done
    PROVE  /\ x \in Modules /\ x \in Range(order) /\ Deps(x) \subseteq Done
           /\ phase = "link" => Done = Range(order)
<1> USE DEF BuildInv
<1>1. CASE phase = "link"
  <2>1. order \in Seq(Modules) /\ Len(order) \in Nat /\ k = Len(order) + 1
    BY <1>1, LenProperties DEF TypeOK, Shape
  <2>2. Done = {order[j] : j \in 1 .. Len(order)} /\ Done = Range(order) /\ Done \subseteq Modules
    BY <2>1, SeqRange DEF Done
  <2>3. PICK b \in 1 .. Len(order) : order[b] = x
    BY <2>2
  <2>4. ASSUME NEW d \in Deps(x)
        PROVE  d \in Done
    <3>1. PICK a \in 1 .. b - 1 : order[a] = d
      BY <2>3, <2>4 DEF Ordered
    <3> QED
      BY <3>1, <2>1, <2>2
  <2> QED
    BY <2>2, <2>4
<1>2. CASE phase \in {"module", "record"}
  BY <1>2, Position
<1> QED
  BY <1>1, <1>2 DEF Compiling

\* The part of the order up to one of its modules rests on nothing else.
LEMMA PrefixClosed ==
    ASSUME BuildInv, Compiling, NEW b \in 1 .. Len(order), NEW S, S = {order[a] : a \in 1 .. b}
    PROVE  S \subseteq Modules /\ \A x \in S : Range(Imports[x]) \subseteq S
<1> USE DEF BuildInv
<1>1. order \in Seq(Modules) /\ Len(order) \in Nat /\ phase # "idle"
  BY LenProperties DEF TypeOK, Compiling
<1>2. \A a \in 1 .. b : a \in 1 .. Len(order) /\ order[a] \in Modules
  BY <1>1, ElementOfSeq
<1>3. S \subseteq Modules
  BY <1>2
<1>4. ASSUME NEW a \in 1 .. b, NEW d \in Range(Imports[order[a]])
      PROVE  d \in S
  <2>1. d \in Deps(order[a])
    BY <1>1, <1>2, <1>4, TextType DEF Deps
  <2>2. PICK c \in 1 .. a - 1 : order[c] = d
    BY <2>1, <1>2 DEF Ordered
  <2>3. c \in 1 .. b
    BY <1>1, <1>2, <2>2
  <2> QED
    BY <2>2, <2>3
<1> QED
  BY <1>3, <1>4

\* No module of a build imports the source it was started from.
LEMMA MainNotImported ==
    ASSUME BuildInv, Compiling, NEW x \in Range(order)
    PROVE  "__main__" \notin Deps(x)
<1> USE DEF BuildInv
<1> SUFFICES ASSUME "__main__" \in Deps(x) PROVE FALSE
  OBVIOUS
<1>1. order \in Seq(Modules) /\ Len(order) \in Nat
  BY LenProperties DEF TypeOK
<1>2. PICK b \in 1 .. Len(order) : order[b] = x
  BY <1>1, SeqRange
<1>3. PICK m \in 1 .. b - 1 : order[m] = "__main__"
  BY <1>2 DEF Ordered
<1>4. m \in 1 .. Len(order) /\ m < b
  BY <1>1, <1>3
<1> DEFINE S == {order[a] : a \in 1 .. m}
<1>5. S \subseteq Modules /\ \A y \in S : Range(Imports[y]) \subseteq S
  BY <1>4, PrefixClosed
<1>6. "__main__" \in S
  BY <1>3, <1>4
<1>7. Closure(Imports, {"__main__"}) \subseteq S
  <2> HIDE DEF S
  <2> QED
    BY <1>5, <1>6, ClosureLeast
<1>8. x \in Closure(Imports, {"__main__"})
  BY OrderComplete DEF DependenciesFirst, Compiling
<1>9. PICK a \in 1 .. m : order[a] = x
  BY <1>7, <1>8
<1>10. a \in 1 .. Len(order) /\ a < b
  BY <1>1, <1>4, <1>9
<1>11. a = b
  BY <1>2, <1>9, <1>10 DEF Ordered
<1> QED
  BY <1>1, <1>10, <1>11

\* Nor does it import itself, directly or not.
LEMMA NoCycle ==
    ASSUME BuildInv, Compiling, NEW x \in Range(order)
    PROVE  ~OnCycle(Imports, x)
<1> USE DEF BuildInv
<1> SUFFICES ASSUME OnCycle(Imports, x) PROVE FALSE
  OBVIOUS
<1>1. /\ order \in Seq(Modules) /\ Len(order) \in Nat
      /\ \A a \in 1 .. Len(order) : order[a] \in Modules
  BY LenProperties, ElementOfSeq DEF TypeOK
<1>2. PICK b \in 1 .. Len(order) : order[b] = x
  BY <1>1, SeqRange
<1>3. Range(Imports[x]) = Deps(x)
  BY <1>1, <1>2, TextType DEF Deps, Compiling
<1>4. PICK d : d \in Deps(x)
  <2>1. Range(Imports[x]) = {} => Closure(Imports, Range(Imports[x])) \subseteq {}
    BY ClosureLeast
  <2> QED
    BY <2>1, <1>3 DEF OnCycle
<1>5. PICK c \in 1 .. b - 1 : order[c] = d
  BY <1>2, <1>4 DEF Ordered
<1>6. b - 1 \in 1 .. Len(order)
  BY <1>1, <1>5
<1> DEFINE S == {order[a] : a \in 1 .. b - 1}
<1>7. S \subseteq Modules /\ \A y \in S : Range(Imports[y]) \subseteq S
  BY <1>6, PrefixClosed
<1>8. Range(Imports[x]) \subseteq S
  BY <1>2, <1>3 DEF Ordered
<1>9. x \in S
  <2>1. Closure(Imports, Range(Imports[x])) \subseteq S
    <3> HIDE DEF S
    <3> QED
      BY <1>7, <1>8, ClosureLeast
  <2> QED
    BY <2>1 DEF OnCycle
<1>10. PICK a \in 1 .. b - 1 : order[a] = x
  BY <1>9
<1>11. a \in 1 .. Len(order) /\ a < b
  BY <1>1, <1>10
<1>12. a = b
  BY <1>2, <1>10, <1>11 DEF Ordered
<1> QED
  BY <1>1, <1>11, <1>12
-----------------------------------------------------------------------------
(* A build compiles together what belongs together.                        *)

\* What goes into a module is settled once what it needs is done.
LEMMA InputsKept ==
    ASSUME BuildInv, UNCHANGED <<files, main>>, NEW x, Needed(Text(x)) \subseteq Done,
           Done \subseteq DOMAIN loaded', \A d \in Done : loaded'[d] = loaded[d]
    PROVE  Inputs(x)' = Inputs(x)
<1>1. Text(x)' = Text(x) /\ Done = DOMAIN loaded
  BY TextsKept DEF BuildInv, TypeOK
<1>2. /\ Needed(Text(x)) \cap DOMAIN loaded = Needed(Text(x))
      /\ Needed(Text(x)) \cap DOMAIN loaded' = Needed(Text(x))
  BY <1>1
<1>3. [d \in Needed(Text(x)) |-> loaded'[d]] = [d \in Needed(Text(x)) |-> loaded[d]]
  OBVIOUS
<1>4. Inputs(x) = [text |-> Text(x), reads |-> [f \in Text(x).assets |-> files[f]],
                   uses |-> [d \in Needed(Text(x)) |-> loaded[d]]]
  BY <1>2 DEF Inputs
<1>5. Inputs(x)' = [text |-> Text(x), reads |-> [f \in Text(x).assets |-> files[f]],
                    uses |-> [d \in Needed(Text(x)) |-> loaded'[d]]]
  BY <1>1, <1>2 DEF Inputs
<1> QED
  BY <1>3, <1>4, <1>5

\* What a module that compiles needs is there.
LEMMA CompilableNeeds ==
    ASSUME BuildInv, phase \in {"module", "record"}, Compilable(Module)
    PROVE  Needed(Text(Module)) \subseteq Done
<1>1. Range(Text(Module).imports) \subseteq Done
  BY Position DEF Deps
<1> QED
  BY <1>1 DEF Compilable, Needed, BuildInv, TypeOK

\* The loop goes on with a module whose compilation fits.
LEMMA TogetherNext ==
    ASSUME BuildInv, Together, phase \in {"module", "record"}, UNCHANGED <<files, main, graph, error, recompiled>>,
           NextModule(Module, objects[Module]),
           \/ phase = "module" /\ Deps(Module) \cap recompiled = {}
           \/ phase = "record" /\ objects[Module] = Inputs(Module) /\ Compilable(Module) /\ Module \in recompiled
    PROVE  Together'
<1>1. UNCHANGED <<files, main, graph, error>>
  OBVIOUS
<1>2. /\ Done' = Done \cup {Module} /\ DOMAIN loaded' = Done'
      /\ loaded'[Module] = objects[Module]
      /\ \A x \in Done : loaded'[x] = loaded[x]
      /\ phase' # "record"
  <2>1. phase' = IF k = Len(order) THEN "link" ELSE "module"
    BY <1>1, NextModuleDone
  <2> QED
    BY <1>1, <2>1, NextModuleDone
<1>3. Module \notin Done
  BY Position
<1>4. (\A x : Deps(x)' = Deps(x)) /\ \A x : Text(x)' = Text(x)
  BY TextsKept
<1>5. /\ recompiled \subseteq IF phase = "record" THEN Done \cup {Module} ELSE Done
      /\ \A x \in Done : x \in recompiled \/ Deps(x) \cap recompiled = {}
      /\ \A x \in Done \cap recompiled : Needed(Text(x)) \subseteq Done /\ loaded[x] = Inputs(x)
  BY DEF Together, Compiling
<1>6. recompiled \subseteq Done \cup {Module}
  BY <1>5
<1>7. \A x \in Done \cup {Module} : x \in recompiled \/ Deps(x) \cap recompiled = {}
  BY <1>5
<1>8. ASSUME NEW x \in (Done \cup {Module}) \cap recompiled
      PROVE  Needed(Text(x)) \subseteq Done \cup {Module} /\ loaded'[x] = Inputs(x)'
  <2>1. Needed(Text(x)) \subseteq Done
    <3>1. CASE x \in Done
      BY <3>1, <1>5
    <3>2. CASE x = Module
      BY <3>2, <1>3, <1>5, <1>8, CompilableNeeds
    <3> QED
      BY <3>1, <3>2
  <2>2. Inputs(x)' = Inputs(x)
    BY <2>1, <1>1, <1>2, InputsKept
  <2>3. loaded'[x] = Inputs(x)
    BY <1>2, <1>3, <1>5, <1>8
  <2> QED
    BY <2>1, <2>2, <2>3
<1> QED
  BY <1>2, <1>4, <1>6, <1>7, <1>8 DEF Together

\* Every step keeps together what is.
LEMMA TogetherStepInv == BuildInv /\ BuildInv' /\ Together /\ [Next]_vars => Together'
<1> SUFFICES ASSUME BuildInv, BuildInv', Together, [Next]_vars, Compiling' PROVE Together'
  BY DEF Together
<1>1. CASE UNCHANGED vars
  <2>1. UNCHANGED <<files, main, order, k, recompiled, loaded, phase>>
    BY <1>1 DEF vars, disk, graph, progress
  <2>2. /\ Done' = Done /\ Module' = Module /\ Compiling' = Compiling
        /\ \A x : Text(x)' = Text(x) /\ Deps(x)' = Deps(x) /\ Inputs(x)' = Inputs(x)
    BY <2>1, TextsKept DEF Done, Module, Compiling, Inputs
  <2> QED
    BY <2>1, <2>2 DEF Together
<1>2. CASE Reuse
  <2>1. /\ phase = "module" /\ NextModule(Module, objects[Module]) /\ Deps(Module) \cap recompiled = {}
        /\ UNCHANGED <<files, main, graph, error, recompiled>>
    BY <1>2 DEF Reuse, UpToDate, Deps, disk
  <2> QED
    BY <2>1, TogetherNext
<1>3. CASE Record
  <2>1. /\ phase = "record" /\ NextModule(Module, objects[Module])
        /\ UNCHANGED <<files, main, graph, error, recompiled>>
    BY <1>3 DEF Record
  <2> QED
    BY <2>1, TogetherNext DEF BuildInv, Compiled
<1>4. CASE Compile
  <2>1. /\ phase = "module" /\ phase' = "record" /\ recompiled' = recompiled \cup {Module}
        /\ UNCHANGED <<files, main, graph, k, loaded, error>>
    BY <1>4 DEF Compile, Fail, Compiling
  <2>2. /\ Done' = Done /\ Module' = Module /\ Module \notin Done
        /\ \A x \in Done : Deps(x) \subseteq Done
    BY <2>1, Position DEF Done, Module, graph
  <2>3. \A x : Text(x)' = Text(x) /\ Deps(x)' = Deps(x) /\ Inputs(x)' = Inputs(x)
    BY <2>1, TextsKept DEF Inputs
  <2>4. /\ recompiled \subseteq Done
        /\ \A x \in Done : x \in recompiled \/ Deps(x) \cap recompiled = {}
        /\ \A x \in Done \cap recompiled : Needed(Text(x)) \subseteq Done /\ loaded[x] = Inputs(x)
    BY <2>1 DEF Together, Compiling
  <2> QED
    BY <2>1, <2>2, <2>3, <2>4 DEF Together
<1>5. CASE ~(Reuse \/ Record \/ Compile \/ UNCHANGED vars)
  <2>1. phase' = "module" /\ UNCHANGED progress /\ phase = "sort"
    BY <1>5 DEF Next, BuildStep, EditSource, EditAsset, Forget, StartBuild, Discover, StartSort,
       VisitRoot, VisitDependency, Visited, StartModules, LinkObjects, Fail, Compiling
  <2>2. k' = 1 /\ recompiled' = {}
    BY <2>1 DEF BuildInv, Shape, progress
  <2>3. Done' = {}
    BY <2>2 DEF Done
  <2> QED
    BY <2>2, <2>3 DEF Together
<1> QED
  BY <1>1, <1>2, <1>3, <1>4, <1>5

\* Every build keeps it.
LEMMA TogetherInvariant == Spec => [](BuildInv /\ Together)
<1>1. Init => Together
  BY DEF Init, Together, Compiling
<1>2. BuildInv /\ BuildInv' /\ Together /\ [Next]_vars => Together'
  BY TogetherStepInv
<1> QED
  BY <1>1, <1>2, BuildInvariant, PTL DEF Spec

\* Though build asks only of a module's own imports whether they were
\* compiled again, whatever reaches such a module is compiled with it, from
\* the objects that are linked.
THEOREM CompiledTogether == Spec => []RecompiledTogether
<1>1. BuildInv /\ Together => RecompiledTogether
  <2> SUFFICES ASSUME BuildInv, Together, Compiling, NEW x \in Done
               PROVE  /\ Closure(Imports, Range(Imports[x])) \cap recompiled # {} => x \in recompiled
                      /\ x \in recompiled => loaded[x] = Inputs(x)
    BY DEF RecompiledTogether, Compiling
  <2>1. x \in recompiled => loaded[x] = Inputs(x)
    BY DEF Together
  <2>2. ASSUME x \notin recompiled
        PROVE  Closure(Imports, Range(Imports[x])) \cap recompiled = {}
    <3> DEFINE S == Done \ recompiled
    <3>1. \A y \in Done : y \in Modules /\ Deps(y) \subseteq Done /\ Range(Imports[y]) = Deps(y)
      BY DoneClosed, TextType DEF BuildInv, Deps, Compiling
    <3>2. \A y \in S : Deps(y) \subseteq S
      BY <3>1 DEF Together
    <3>3. S \in SUBSET Modules /\ Range(Imports[x]) \subseteq S /\ \A y \in S : Range(Imports[y]) \subseteq S
      BY <2>2, <3>1, <3>2
    <3>4. Closure(Imports, Range(Imports[x])) \subseteq S
      <4> HIDE DEF S
      <4> QED
        BY <3>3, ClosureLeast
    <3> QED
      BY <3>4
  <2> QED
    BY <2>1, <2>2
<1> QED
  BY <1>1, TogetherInvariant, PTL

-----------------------------------------------------------------------------
(* What a module reaches, whatever the build starts from.                  *)

\* What files hold, between builds too.
LEMMA HomeTexts ==
    ASSUME TypeOK
    PROVE  /\ \A s \in DOMAIN Texts :
                 /\ files[s].imports \in Seq(Modules) /\ Range(files[s].imports) \subseteq Modules
                 /\ files[s].names \subseteq Modules \ {"__main__"}
           /\ \A x \in Modules \ {"__main__"} :
                 Home[x] \in DOMAIN Texts /\ HomeImports[x] = files[Home[x]].imports
           /\ \A x \in Modules : Range(HomeImports[x]) \subseteq Modules
<1>1. \A s \in DOMAIN Texts :
         /\ files[s].imports \in Seq(Modules)
         /\ files[s].names \subseteq Modules \ {"__main__"}
  BY BuildAssumption DEF TypeOK
<1>2. \A s \in DOMAIN Texts : Range(files[s].imports) \subseteq Modules
  BY <1>1, SeqRange
<1>3. \A x \in Modules \ {"__main__"} :
         Home[x] \in DOMAIN Texts /\ HomeImports[x] = files[Home[x]].imports
  BY BuildAssumption DEF HomeImports
<1>4. HomeImports["__main__"] = <<>> /\ Range(<<>>) = {}
  BY BuildAssumption DEF HomeImports, Range
<1> QED
  BY <1>1, <1>2, <1>3, <1>4

\* A text reaches what it imports, and what that does.
LEMMA ReachRule ==
    ASSUME TypeOK, NEW s \in DOMAIN Texts
    PROVE  /\ Reach(files[s]) \subseteq Modules \ {"__main__"}
           /\ Range(files[s].imports) \ {"__main__"} \subseteq Reach(files[s])
           /\ \A d \in Reach(files[s]) : Range(files[Home[d]].imports) \ {"__main__"} \subseteq Reach(files[s])
<1>1. Range(files[s].imports) \in SUBSET Modules /\ \A x \in Modules : Range(HomeImports[x]) \subseteq Modules
  BY HomeTexts
<1>2. LET C == Closure(HomeImports, Range(files[s].imports))
      IN  /\ Range(files[s].imports) \subseteq C /\ C \subseteq Modules
          /\ \A x \in C : Range(HomeImports[x]) \subseteq C
  BY <1>1, ClosureClosed
<1> QED
  BY <1>2, HomeTexts DEF Reach

\* And nothing else.
LEMMA ReachLeast ==
    ASSUME TypeOK, NEW s \in DOMAIN Texts, NEW S \in SUBSET (Modules \ {"__main__"}),
           Range(files[s].imports) \ {"__main__"} \subseteq S,
           \A d \in S : Range(files[Home[d]].imports) \ {"__main__"} \subseteq S
    PROVE  Reach(files[s]) \subseteq S
<1> DEFINE C == S \cup {"__main__"}
<1>1. HomeImports["__main__"] = <<>> /\ Range(<<>>) = {}
  BY BuildAssumption DEF HomeImports, Range
<1>2. C \in SUBSET Modules /\ Range(files[s].imports) \subseteq C
  BY BuildAssumption
<1>3. \A x \in C : Range(HomeImports[x]) \subseteq C
  BY <1>1, HomeTexts
<1>4. Closure(HomeImports, Range(files[s].imports)) \subseteq C
  <2> HIDE DEF C
  <2> QED
    BY <1>2, <1>3, ClosureLeast
<1> QED
  BY <1>4 DEF Reach

\* The same, of the files after a step.
LEMMA ReachNext ==
    (TypeOK => \A s \in DOMAIN Texts :
        /\ Reach(files[s]) \subseteq Modules \ {"__main__"}
        /\ Range(files[s].imports) \ {"__main__"} \subseteq Reach(files[s])
        /\ \A d \in Reach(files[s]) : Range(files[Home[d]].imports) \ {"__main__"} \subseteq Reach(files[s])
        /\ \A S \in SUBSET (Modules \ {"__main__"}) :
              /\ Range(files[s].imports) \ {"__main__"} \subseteq S
              /\ \A d \in S : Range(files[Home[d]].imports) \ {"__main__"} \subseteq S
              => Reach(files[s]) \subseteq S)'
<1>1. TypeOK => \A s \in DOMAIN Texts :
        /\ Reach(files[s]) \subseteq Modules \ {"__main__"}
        /\ Range(files[s].imports) \ {"__main__"} \subseteq Reach(files[s])
        /\ \A d \in Reach(files[s]) : Range(files[Home[d]].imports) \ {"__main__"} \subseteq Reach(files[s])
        /\ \A S \in SUBSET (Modules \ {"__main__"}) :
              /\ Range(files[s].imports) \ {"__main__"} \subseteq S
              /\ \A d \in S : Range(files[Home[d]].imports) \ {"__main__"} \subseteq S
              => Reach(files[s]) \subseteq S
  BY ReachRule, ReachLeast
<1> QED
  BY <1>1, PTL

\* What a module reaches is settled by the files.
LEMMA ReachKept ==
    ASSUME UNCHANGED files, NEW s
    PROVE  Reach(files[s])' = Reach(files[s])
BY DEF Reach, HomeImports

\* In a build, a module reaches only what the build has done before it; if
\* none of its imports was compiled again, nothing it reaches was.
LEMMA ReachDone ==
    ASSUME BuildInv, Together, phase = "module", NEW s, s = SourceOf(Module),
           Deps(Module) \cap recompiled = {}
    PROVE  Reach(files[s]) \subseteq Done \ recompiled
<1> DEFINE S == (Done \ recompiled) \ {"__main__"}
<1>1. /\ Module \in Modules /\ Module \in Range(order) /\ s \in DOMAIN Texts
      /\ Done \subseteq Range(order) /\ Range(order) \subseteq Modules
      /\ Deps(Module) \subseteq Done /\ \A x \in Done : Deps(x) \subseteq Done
  BY Position, TextType DEF BuildInv
<1>2. "__main__" \notin Deps(Module) /\ \A x \in Done : "__main__" \notin Deps(x)
  BY <1>1, MainNotImported DEF Compiling
<1>3. Range(files[s].imports) = Deps(Module) /\ \A x \in S : Range(files[Home[x]].imports) = Deps(x)
  BY DEF Deps, Text, SourceOf
<1>4. /\ S \in SUBSET (Modules \ {"__main__"}) /\ Deps(Module) \subseteq S
      /\ \A x \in S : Deps(x) \subseteq S
  BY <1>1, <1>2 DEF Together, Compiling
<1>5. Reach(files[s]) \subseteq S
  <2> HIDE DEF S
  <2> QED
    BY <1>1, <1>3, <1>4, ReachLeast DEF BuildInv
<1> QED
  BY <1>5
-----------------------------------------------------------------------------
(* The cache.                                                               *)

\* Before the first build nothing is cached.
LEMMA CacheInit == Init => CacheInv
<1> SUFFICES ASSUME Init PROVE CacheInv
  OBVIOUS
<1>1. DOMAIN objects = {} /\ Done = {}
  BY DEF Init, NoFunction, Done
<1> QED
  BY <1>1 DEF CacheInv, Cached, Fresh, Takable

\* Whether a module other than the source is as recorded depends on the disk.
LEMMA DiskDecides ==
    ASSUME NEW d, d # "__main__", UNCHANGED disk
    PROVE  OwnFilesAsRecorded(d)' = OwnFilesAsRecorded(d)
BY DEF OwnFilesAsRecorded, SourceOf, disk

\* A step that leaves the disk alone leaves the cache as it is.
LEMMA CachedKept ==
    ASSUME Cached, UNCHANGED <<disk, recompiled>>,
           phase = "record" => phase' = "record" /\ Module' = Module
    PROVE  Cached'
<1>1. UNCHANGED <<files, objects, sidecars, newer, recompiled>>
  BY DEF disk
<1> SUFFICES ASSUME NEW x \in Modules, NEW s \in DOMAIN Texts,
                    Takable(x)', s \in sidecars[x], ~(phase' = "record" /\ x = Module')
             PROVE  Faithful(x, s)'
  BY <1>1 DEF Cached
<1>2. Takable(x) /\ ~(phase = "record" /\ x = Module)
  BY <1>1 DEF Takable
<1>3. Faithful(x, s)
  BY <1>2 DEF Cached
<1>4. Waiting(s)' = Waiting(s)
  <2>1. Reach(files[s])' = Reach(files[s]) /\ "__main__" \notin Reach(files[s])
    BY <1>1, ReachKept DEF Reach
  <2>2. \A d \in Reach(files[s]) : OwnFilesAsRecorded(d)' = OwnFilesAsRecorded(d)
    BY <2>1, DiskDecides
  <2> QED
    BY <2>1, <2>2, <1>1 DEF Waiting
<1> QED
  BY <1>1, <1>3, <1>4 DEF Faithful, Current

\* Writing a file: what is still taken does not list it.
LEMMA CachedWritten ==
    ASSUME BuildInv, BuildInv', Cached, phase = "idle", phase' = "idle", NEW f \in Files,
           \A g \in Files \ {f} : files'[g] = files[g],
           UNCHANGED <<objects, sidecars, main, recompiled>>,
           newer' = newer \cup ({f} \X DOMAIN objects)
    PROVE  Cached'
<1>1. ASSUME NEW x, x \in DOMAIN objects, x \in DOMAIN sidecars,
             \A g \in sidecars[x] : files'[g] # Absent /\ <<g, x>> \notin newer'
      PROVE  /\ \A g \in sidecars[x] : files'[g] = files[g]
             /\ \A g \in sidecars[x] : files[g] # Absent /\ <<g, x>> \notin newer
  <2>1. f \notin sidecars[x] /\ sidecars[x] \subseteq Files
    BY <1>1 DEF BuildInv, TypeOK
  <2> QED
    BY <2>1, <1>1
<1> SUFFICES ASSUME NEW x \in Modules, NEW s \in DOMAIN Texts, Takable(x)', s \in sidecars[x]
             PROVE  Faithful(x, s)'
  BY DEF Cached
<1>2. /\ Takable(x) /\ \A g \in sidecars[x] : files'[g] = files[g]
      /\ x \in DOMAIN objects /\ x \in DOMAIN sidecars
  BY <1>1 DEF Takable
<1>3. Faithful(x, s)
  BY <1>2 DEF Cached
<1>4. files'[s] = files[s] /\ \A g \in files[s].assets : files'[g] = files[g]
  BY <1>2, <1>3 DEF Faithful
<1>5. ASSUME NEW d, d # "__main__", OwnFilesAsRecorded(d)'
      PROVE  OwnFilesAsRecorded(d)
  BY <1>1, <1>5 DEF OwnFilesAsRecorded, SourceOf
<1>6. [g \in files[s].assets |-> files[g]]' = [g \in files[s].assets |-> files[g]]
  BY <1>4
<1>7. ASSUME Waiting(s)
      PROVE  Waiting(s)'
  <2> SUFFICES ASSUME ~Waiting(s)' PROVE ~Waiting(s)
    BY <1>7
  <2> DEFINE R == Reach(files[s])
             N == Reach(files[s])'
  <2>1. TypeOK /\ TypeOK'
    BY DEF BuildInv
  <2>2. /\ N \subseteq Modules \ {"__main__"}
        /\ Range(files'[s].imports) \ {"__main__"} \subseteq N
        /\ \A d \in N : Range(files'[Home[d]].imports) \ {"__main__"} \subseteq N
        /\ \A S \in SUBSET (Modules \ {"__main__"}) :
              /\ Range(files'[s].imports) \ {"__main__"} \subseteq S
              /\ \A d \in S : Range(files'[Home[d]].imports) \ {"__main__"} \subseteq S
              => N \subseteq S
    BY <2>1, ReachNext
  <2>3. \A d \in N : OwnFilesAsRecorded(d)' /\ d # "__main__"
    BY <2>2 DEF Waiting
  <2>4. \A d \in N : OwnFilesAsRecorded(d) /\ d \notin recompiled
    BY <2>3, <1>5 DEF Waiting
  <2>5. \A d \in N : files'[Home[d]] = files[Home[d]]
    BY <2>3, <1>1 DEF OwnFilesAsRecorded, SourceOf
  <2>6. R \subseteq N
    <3>1. N \in SUBSET (Modules \ {"__main__"}) /\ Range(files[s].imports) \ {"__main__"} \subseteq N
          /\ \A d \in N : Range(files[Home[d]].imports) \ {"__main__"} \subseteq N
      BY <2>2, <2>5, <1>4
    <3> HIDE DEF N
    <3> QED
      BY <3>1, <2>1, ReachLeast
  <2>7. N \subseteq R
    <3>1. /\ R \in SUBSET (Modules \ {"__main__"}) /\ Range(files[s].imports) \ {"__main__"} \subseteq R
          /\ \A d \in R : Range(files[Home[d]].imports) \ {"__main__"} \subseteq R
      BY <2>1, ReachRule
    <3> HIDE DEF N, R
    <3> QED
      BY <3>1, <2>2, <2>5, <2>6, <1>4
  <2>8. files[s].names \subseteq N
    BY <1>4 DEF Waiting
  <2> HIDE DEF N
  <2> QED
    BY <2>4, <2>6, <2>7, <2>8 DEF Waiting
<1> QED
  BY <1>3, <1>4, <1>6, <1>7 DEF Faithful, Current

\* Deleting a cached file: whoever used it has to be compiled again.
LEMMA CachedForgotten ==
    ASSUME TypeOK, Cached, NEW y, Forget(y)
    PROVE  Cached'
<1>1. /\ phase = "idle" /\ phase' = "idle" /\ UNCHANGED <<files, main, recompiled>>
      /\ \/ objects' = Without(objects, y) /\ newer' = {p \in newer : p[2] # y} /\ sidecars' = sidecars
         \/ sidecars' = Without(sidecars, y) /\ UNCHANGED <<objects, newer>>
  BY DEF Forget, progress
<1>2. /\ DOMAIN objects' \subseteq DOMAIN objects /\ DOMAIN sidecars' \subseteq DOMAIN sidecars
      /\ \A x \in DOMAIN objects' : objects'[x] = objects[x]
      /\ \A x \in DOMAIN sidecars' : sidecars'[x] = sidecars[x]
      /\ \A x \in DOMAIN objects' : \A f : <<f, x>> \in newer' <=> <<f, x>> \in newer
      /\ \A x : x # y => (x \in DOMAIN objects => x \in DOMAIN objects')
      /\ y \notin DOMAIN objects' \/ objects' = objects
  BY <1>1 DEF Without
<1>3. ASSUME NEW d, d # "__main__", OwnFilesAsRecorded(d)'
      PROVE  OwnFilesAsRecorded(d)
  BY <1>1, <1>2, <1>3 DEF OwnFilesAsRecorded, SourceOf
<1>4. ASSUME NEW d, d \in DOMAIN objects, d \notin DOMAIN objects'
      PROVE  ~OwnFilesAsRecorded(d)'
  BY <1>4 DEF OwnFilesAsRecorded
<1> SUFFICES ASSUME NEW x \in Modules, NEW s \in DOMAIN Texts, Takable(x)', s \in sidecars'[x]
             PROVE  Faithful(x, s)'
  BY DEF Cached
<1>5. /\ x \in DOMAIN objects' /\ x \in DOMAIN sidecars'
      /\ objects'[x] = objects[x] /\ sidecars'[x] = sidecars[x]
  BY <1>2 DEF Takable
<1>6. Takable(x)
  BY <1>1, <1>2, <1>5 DEF Takable
<1>7. Faithful(x, s)
  BY <1>1, <1>5, <1>6 DEF Cached
<1>8. Reach(files[s])' = Reach(files[s]) /\ Reach(files[s]) \subseteq Modules \ {"__main__"}
      /\ Range(files[s].imports) \ {"__main__"} \subseteq Reach(files[s])
  BY <1>1, ReachKept, ReachRule
<1>9. Current(x, s)' \/ Waiting(s)'
  <2>1. CASE Waiting(s)
    BY <2>1, <1>1, <1>3, <1>8 DEF Waiting
  <2>2. CASE Current(x, s) /\ ~Waiting(s)
    <3>1. ASSUME NEW d \in Needed(files[s]) \ {"__main__"}, d \notin DOMAIN objects'
          PROVE  Waiting(s)'
      <4>1. d \in DOMAIN objects /\ d \in Reach(files[s])
        BY <3>1, <2>2, <1>8 DEF Current, Waiting, Needed
      <4> QED
        BY <4>1, <3>1, <1>4, <1>8 DEF Waiting
    <3>2. CASE \A d \in Needed(files[s]) \ {"__main__"} : d \in DOMAIN objects'
      BY <3>2, <2>2, <1>1, <1>2, <1>5 DEF Current
    <3> QED
      BY <3>1, <3>2
  <2> QED
    BY <2>1, <2>2, <1>7 DEF Faithful
<1> QED
  BY <1>1, <1>5, <1>7, <1>9 DEF Faithful
\* A sidecar that says what it should names one source only.
LEMMA OneSource ==
    ASSUME TypeOK, phase # "idle", NEW x \in Modules, NEW s \in DOMAIN Texts,
           Faithful(x, s), SourceOf(x) \in sidecars[x]
    PROVE  s = SourceOf(x) /\ files[s] = Text(x)
<1>1. files[s] \in Texts[s]
  BY DEF TypeOK
<1>2. files[s].assets \subseteq Assets
  BY <1>1, BuildAssumption
<1>3. SourceOf(x) \in DOMAIN Texts
  BY TextType
<1> QED
  BY <1>2, <1>3, BuildAssumption DEF Faithful, Text

\* What the build has done with used what is there now.
LEMMA DoneUses ==
    ASSUME BuildInv, Fresh, NEW x \in Done
    PROVE  \A d \in Needed(Text(x)) : d \in DOMAIN objects /\ objects[x].uses[d] = objects[d]
<1> SUFFICES ASSUME NEW d \in Needed(Text(x))
             PROVE  d \in DOMAIN objects /\ objects[x].uses[d] = objects[d]
  OBVIOUS
<1>1. d \in Done /\ Done = DOMAIN loaded
  BY DEF BuildInv, TypeOK, Fresh
<1>2. d \in DOMAIN objects /\ loaded[d] = objects[d]
  BY <1>1 DEF Fresh
<1>3. objects[x] = Inputs(x)
  BY DEF Fresh
<1> QED
  BY <1>1, <1>2, <1>3 DEF Inputs

\* About to end, a build has left nobody waiting for something only it knows
\* of: who waits, waits for a module that is not as recorded, or for the one
\* the build fails over.
LEMMA NothingOwed ==
    ASSUME BuildInv, Together, CacheInv, Undisturbed, phase = "link" \/ Failing,
           NEW x \in Modules, NEW s \in DOMAIN Texts, Takable(x), s \in sidecars[x]
    PROVE  /\ Faithful(x, s)
           /\ \/ Current(x, s)
              \/ ~(files[s].names \subseteq Reach(files[s]))
              \/ \E d \in Reach(files[s]) : ~OwnFilesAsRecorded(d)
              \/ phase = "module" /\ Module \in Reach(files[s])
<1>1. phase \in {"module", "link"} /\ Compiling
  BY DEF Failing, Compiling
<1>2. Faithful(x, s)
  BY <1>1 DEF CacheInv, Cached
<1>3. CASE x \in Done
  <2>1. SourceOf(x) \in sidecars[x]
    BY <1>3 DEF BuildInv, Collected, OwnFilesAsRecorded
  <2>2. files[s] = Text(x)
    BY <1>1, <1>2, <2>1, OneSource DEF BuildInv
  <2>3. \A d \in Needed(Text(x)) : d \in DOMAIN objects /\ objects[x].uses[d] = objects[d]
    BY <1>3, DoneUses DEF CacheInv
  <2> QED
    BY <1>2, <2>2, <2>3 DEF Current
<1>4. CASE x \notin Done
  <2> SUFFICES ASSUME NEW d \in Reach(files[s]), d \in recompiled,
                      \A e \in Reach(files[s]) : OwnFilesAsRecorded(e),
                      phase = "module" => Module \notin Reach(files[s])
               PROVE  FALSE
    BY <1>2 DEF Faithful, Waiting
  <2> DEFINE S == Reach(files[s]) \ recompiled
  <2>1. /\ Reach(files[s]) \in SUBSET (Modules \ {"__main__"})
        /\ Range(files[s].imports) \ {"__main__"} \subseteq Reach(files[s])
        /\ \A e \in Reach(files[s]) : Range(files[Home[e]].imports) \ {"__main__"} \subseteq Reach(files[s])
    BY ReachRule DEF BuildInv
  <2>2. ASSUME NEW y, NEW r \in DOMAIN Texts, y \notin Done, Takable(y), Faithful(y, r),
               Reach(files[r]) \subseteq Reach(files[s])
        PROVE  Range(files[r].imports) \cap recompiled = {}
    <3>1. DOMAIN objects[y].uses = Needed(files[r]) /\ objects[y].text = files[r] /\ y \in DOMAIN objects
      BY <2>2 DEF Faithful, Takable
    <3>2. ~LeftOut(y)
      BY <1>1, <2>2, <3>1 DEF Undisturbed
    <3> QED
      BY <2>2, <3>1, <3>2 DEF LeftOut, Needed
  <2>3. Range(files[s].imports) \ {"__main__"} \subseteq S
    BY <1>2, <1>4, <2>1, <2>2
  <2>4. ASSUME NEW e \in S
        PROVE  Range(files[Home[e]].imports) \ {"__main__"} \subseteq S
    <3>1. e \in Modules \ {"__main__"} /\ Home[e] \in DOMAIN Texts /\ SourceOf(e) = Home[e]
      BY <2>1, BuildAssumption DEF SourceOf
    <3>2. Range(files[Home[e]].imports) \cap recompiled = {}
      <4>1. CASE e \in Done
        <5>1. Deps(e) \cap recompiled = {}
          BY <4>1, <1>1 DEF Together
        <5> QED
          BY <5>1, <3>1 DEF Deps, Text
      <4>2. CASE e \notin Done
        <5>1. OwnFilesAsRecorded(e)
          OBVIOUS
        <5>2. Takable(e) /\ Home[e] \in sidecars[e]
          BY <5>1, <3>1 DEF OwnFilesAsRecorded, Takable
        <5>3. Faithful(e, Home[e])
          BY <5>2, <3>1, <1>1 DEF CacheInv, Cached
        <5>4. Reach(files[Home[e]]) \subseteq Reach(files[s])
          <6>1. e \in Reach(files[s])
            OBVIOUS
          <6> HIDE DEF S
          <6> QED
            BY <6>1, <2>1, <3>1, ReachLeast DEF BuildInv
        <5> QED
          BY <4>2, <5>2, <5>3, <5>4, <3>1, <2>2
      <4> QED
        BY <4>1, <4>2
    <3> QED
      BY <3>2, <2>1
  <2>5. Reach(files[s]) \subseteq S
    <3>1. S \in SUBSET (Modules \ {"__main__"})
      BY <2>1
    <3> HIDE DEF S
    <3> QED
      BY <3>1, <2>3, <2>4, ReachLeast DEF BuildInv
  <2> QED
    BY <2>5
<1> QED
  BY <1>3, <1>4

\* A module a build fails over is not as recorded after it.
LEMMA FailedIsDirty ==
    ASSUME BuildInv, CacheInv, Undisturbed, Failing, Module # "__main__"
    PROVE  ~OwnFilesAsRecorded(Module)
<1> SUFFICES ASSUME OwnFilesAsRecorded(Module) PROVE FALSE
  OBVIOUS
<1>1. phase = "module" /\ Module \in Modules /\ SourceOf(Module) \in DOMAIN Texts
  BY Position, TextType DEF BuildInv, Failing
<1>2. Takable(Module) /\ SourceOf(Module) \in sidecars[Module]
  BY DEF OwnFilesAsRecorded, Takable
<1>3. Faithful(Module, SourceOf(Module))
  BY <1>1, <1>2 DEF CacheInv, Cached
<1>4. ReadsFail(Module)
  BY <1>2 DEF Undisturbed, Takable
<1>5. PICK f \in Text(Module).assets : files[f] = Absent
  BY <1>4 DEF ReadsFail
<1>6. f \in sidecars[Module]
  BY <1>3, <1>5 DEF Faithful, Text
<1> QED
  BY <1>2, <1>5, <1>6 DEF Takable

\* A build fails: what it left out is still right.
LEMMA CachedFailed ==
    ASSUME BuildInv, Together, CacheInv, Undisturbed, Compile, phase' = "idle"
    PROVE  CacheInv'
<1>1. Failing /\ phase = "module" /\ UNCHANGED <<files, sidecars>> /\ NoBuilder
      /\ \/ UNCHANGED <<objects, newer>>
         \/ /\ Module \notin DOMAIN sidecars
            /\ objects' = With(objects, Module, Inputs(Module))
            /\ newer' = {p \in newer : p[2] # Module}
  <2>1. phase = "module" /\ ~UpToDate(Module) /\ UNCHANGED <<files, sidecars>>
    BY DEF Compile
  <2>2. CASE ReadsFail(Module)
    BY <2>1, <2>2 DEF Compile, Fail, Failing
  <2>3. CASE ~ReadsFail(Module)
    <3>1. ~Compilable(Module) /\ NoBuilder
      BY <2>3 DEF Compile, Fail
    <3>2. Failing /\ Module \notin DOMAIN sidecars
      BY <2>1, <2>3, <3>1 DEF Undisturbed, Failing
    <3> QED
      BY <2>1, <2>3, <3>1, <3>2 DEF Compile, WriteObject
  <2> QED
    BY <2>2, <2>3
<1>2. /\ \A x \in DOMAIN sidecars : x \in DOMAIN objects' => x \in DOMAIN objects /\ objects'[x] = objects[x]
      /\ \A x \in DOMAIN sidecars : \A f : <<f, x>> \notin newer' => <<f, x>> \notin newer
      /\ \A x \in DOMAIN objects : x \in DOMAIN objects' /\ (x # Module => objects'[x] = objects[x])
  BY <1>1 DEF With
<1>3. ASSUME NEW d, d # "__main__", OwnFilesAsRecorded(d)'
      PROVE  OwnFilesAsRecorded(d)
  BY <1>1, <1>2, <1>3 DEF OwnFilesAsRecorded, SourceOf
<1>4. Module # "__main__" => ~OwnFilesAsRecorded(Module)
  BY <1>1, FailedIsDirty
<1>5. Fresh'
  BY <1>1 DEF Fresh, Done, NoBuilder
<1>6. Cached'
  <2> SUFFICES ASSUME NEW x \in Modules, NEW s \in DOMAIN Texts, Takable(x)', s \in sidecars[x]
               PROVE  Faithful(x, s)'
    BY <1>1 DEF Cached
  <2>1. /\ x \in DOMAIN sidecars /\ x \in DOMAIN objects /\ objects'[x] = objects[x]
        /\ Takable(x)
    BY <1>1, <1>2 DEF Takable
  <2>2. /\ Faithful(x, s)
        /\ \/ Current(x, s)
           \/ ~(files[s].names \subseteq Reach(files[s]))
           \/ \E d \in Reach(files[s]) : ~OwnFilesAsRecorded(d)
           \/ Module \in Reach(files[s])
    BY <1>1, <2>1, NothingOwed
  <2>3. Reach(files[s])' = Reach(files[s]) /\ Reach(files[s]) \subseteq Modules \ {"__main__"}
        /\ Range(files[s].imports) \ {"__main__"} \subseteq Reach(files[s])
    BY <1>1, ReachKept, ReachRule DEF BuildInv
  <2>4. Current(x, s)' \/ Waiting(s)'
    <3>1. CASE ~(files[s].names \subseteq Reach(files[s]))
      BY <3>1, <2>3, <1>1 DEF Waiting
    <3>2. CASE \E d \in Reach(files[s]) : ~OwnFilesAsRecorded(d)
      BY <3>2, <2>3, <1>3 DEF Waiting
    <3>3. CASE Module \in Reach(files[s])
      BY <3>3, <2>3, <1>3, <1>4 DEF Waiting
    <3>4. CASE /\ Current(x, s) /\ Module \notin Reach(files[s])
               /\ files[s].names \subseteq Reach(files[s])
      <4>1. Module \notin Needed(files[s]) \ {"__main__"}
        BY <3>4, <2>3 DEF Needed
      <4> QED
        BY <4>1, <3>4, <1>1, <1>2, <2>1 DEF Current
    <3> QED
      BY <2>2, <3>1, <3>2, <3>3, <3>4
  <2> QED
    BY <1>1, <2>1, <2>2, <2>4 DEF Faithful
<1> QED
  BY <1>5, <1>6 DEF CacheInv

\* Linking: so is what the build did not come to.
LEMMA CachedLinked ==
    ASSUME BuildInv, Together, CacheInv, Undisturbed, LinkObjects
    PROVE  CacheInv'
<1>1. /\ phase = "link" /\ phase' = "idle" /\ UNCHANGED <<files, objects, sidecars, newer>>
      /\ NoBuilder
  BY DEF LinkObjects, disk
<1>2. Fresh'
  BY <1>1 DEF Fresh, Done, NoBuilder
<1>3. \A d : d # "__main__" => OwnFilesAsRecorded(d)' = OwnFilesAsRecorded(d)
  BY <1>1, DiskDecides DEF disk
<1>4. Cached'
  <2> SUFFICES ASSUME NEW x \in Modules, NEW s \in DOMAIN Texts, Takable(x)', s \in sidecars[x]
               PROVE  Faithful(x, s)'
    BY <1>1 DEF Cached
  <2>1. Takable(x)
    BY <1>1 DEF Takable
  <2>2. /\ Faithful(x, s)
        /\ \/ Current(x, s)
           \/ ~(files[s].names \subseteq Reach(files[s]))
           \/ \E d \in Reach(files[s]) : ~OwnFilesAsRecorded(d)
    BY <1>1, <2>1, NothingOwed
  <2>3. Reach(files[s])' = Reach(files[s]) /\ "__main__" \notin Reach(files[s])
    BY <1>1, ReachKept DEF Reach
  <2>4. Current(x, s)' \/ Waiting(s)'
    BY <1>1, <1>3, <2>2, <2>3 DEF Current, Waiting
  <2> QED
    BY <1>1, <2>2, <2>4 DEF Faithful
<1> QED
  BY <1>2, <1>4 DEF CacheInv

\* The loop goes on with an object that is what compiling would give.
LEMMA FreshNext ==
    ASSUME BuildInv, Fresh, phase \in {"module", "record"},
           UNCHANGED <<files, main, graph, error, objects>>, NextModule(Module, objects[Module]),
           Module \in DOMAIN objects, objects[Module] = Inputs(Module), Text(Module).compiles,
           Needed(Text(Module)) \subseteq Done
    PROVE  Fresh'
<1>1. UNCHANGED <<files, main, graph, error>>
  OBVIOUS
<1>2. /\ Done' = Done \cup {Module} /\ DOMAIN loaded' = Done'
      /\ loaded'[Module] = objects[Module]
      /\ \A x \in Done : loaded'[x] = loaded[x]
  BY <1>1, NextModuleDone
<1>3. \A x \in Done \cup {Module} : Needed(Text(x)) \subseteq Done
  BY DEF Fresh
<1>4. \A x \in Done \cup {Module} : Inputs(x)' = Inputs(x)
  BY <1>2, <1>3, InputsKept
<1>5. \A x : Text(x)' = Text(x)
  BY TextsKept
<1> SUFFICES ASSUME NEW x \in Done \cup {Module}
             PROVE  /\ x \in DOMAIN objects /\ loaded'[x] = objects[x]
                    /\ loaded'[x] = Inputs(x) /\ Text(x).compiles
                    /\ Needed(Text(x)) \subseteq Done \cup {Module}
  BY <1>2, <1>4, <1>5 DEF Fresh
<1> QED
  BY <1>2, <1>3 DEF Fresh

\* The cached object that is taken is what compiling would give.
LEMMA ReuseRight ==
    ASSUME BuildInv, Together, CacheInv, Undisturbed, phase = "module", UpToDate(Module)
    PROVE  /\ Module \in DOMAIN objects /\ objects[Module] = Inputs(Module) /\ Text(Module).compiles
           /\ Needed(Text(Module)) \subseteq Done
<1> DEFINE x == Module
           s == SourceOf(Module)
<1>1. x \in Modules /\ s \in DOMAIN Texts /\ files[s] = Text(x) /\ x \in Range(order)
      /\ Deps(x) \subseteq Done /\ Compiling
  BY Position, TextType DEF BuildInv, Text, Compiling
<1>2. /\ Takable(x) /\ s \in sidecars[x] /\ x \in DOMAIN objects
      /\ Deps(x) \cap recompiled = {}
  BY DEF UpToDate, OwnFilesAsRecorded, Takable, Deps
<1>3. Faithful(x, s)
  BY <1>1, <1>2 DEF CacheInv, Cached
<1>4. Reach(files[s]) \subseteq Done \ recompiled
  BY <1>2, ReachDone
<1>5. files[s].names \subseteq Reach(files[s])
  BY <1>1 DEF Undisturbed
<1>6. Needed(files[s]) \subseteq Done /\ "__main__" \notin Needed(files[s])
  <2>1. Range(files[s].imports) = Deps(x) /\ "__main__" \notin Deps(x)
    BY <1>1, MainNotImported DEF Deps
  <2>2. "__main__" \notin Reach(files[s])
    BY DEF Reach
  <2> QED
    BY <2>1, <2>2, <1>1, <1>4, <1>5 DEF Needed
<1>7. Current(x, s)
  BY <1>3, <1>4, <1>5 DEF Faithful, Waiting, BuildInv, Collected
<1>8. \A d \in Needed(files[s]) : objects[x].uses[d] = loaded[d]
  BY <1>6, <1>7 DEF Current, CacheInv, Fresh
<1>9. objects[x] = [text |-> Text(x), reads |-> [f \in Text(x).assets |-> files[f]],
                    uses |-> [d \in Needed(Text(x)) |-> loaded[d]]]
  <2>1. [d \in Needed(files[s]) |-> objects[x].uses[d]] = [d \in Needed(files[s]) |-> loaded[d]]
    BY <1>8
  <2> HIDE DEF x, s
  <2> QED
    BY <2>1, <1>1, <1>3 DEF Faithful
<1>10. objects[x] = Inputs(x)
  <2>1. Needed(Text(x)) \cap DOMAIN loaded = Needed(Text(x))
    BY <1>1, <1>6 DEF BuildInv, TypeOK
  <2> QED
    BY <2>1, <1>9 DEF Inputs
<1> QED
  BY <1>1, <1>2, <1>3, <1>6, <1>10 DEF Faithful

\* A cached object is taken.
LEMMA CachedReused ==
    ASSUME BuildInv, Together, CacheInv, Undisturbed, Reuse
    PROVE  CacheInv'
<1>1. /\ phase = "module" /\ UpToDate(Module) /\ NextModule(Module, objects[Module])
      /\ UNCHANGED <<disk, main, graph, recompiled, error>>
  BY DEF Reuse
<1>2. UNCHANGED <<files, main, graph, error, objects>>
  BY <1>1 DEF disk
<1>3. Fresh'
  BY <1>1, <1>2, ReuseRight, FreshNext DEF CacheInv
<1>4. Cached'
  BY <1>1, CachedKept DEF CacheInv
<1> QED
  BY <1>3, <1>4 DEF CacheInv

\* A module is compiled: whoever used its old object has to be.
LEMMA CachedCompiled ==
    ASSUME BuildInv, CacheInv, Compile, phase' = "record"
    PROVE  CacheInv'
<1>1. /\ phase = "module" /\ UNCHANGED <<files, sidecars, main, graph, k, loaded>>
      /\ objects' = With(objects, Module, Inputs(Module))
      /\ newer' = {p \in newer : p[2] # Module}
      /\ recompiled' = recompiled \cup {Module}
  BY DEF Compile, Fail, WriteObject
<1>2. Module' = Module /\ Done' = Done /\ Module \notin Done /\ Compiling
  BY <1>1, Position DEF Module, Done, graph, Compiling
<1>3. /\ DOMAIN objects' = DOMAIN objects \cup {Module}
      /\ \A x \in DOMAIN objects \ {Module} : objects'[x] = objects[x]
  BY <1>1 DEF With
<1>4. Fresh'
  <2> SUFFICES ASSUME NEW x \in Done
               PROVE  /\ x \in DOMAIN objects' /\ loaded'[x] = objects'[x]
                      /\ loaded'[x] = Inputs(x)' /\ Text(x)'.compiles
                      /\ Needed(Text(x)') \subseteq Done
    BY <1>2 DEF Fresh
  <2>1. Inputs(x)' = Inputs(x) /\ Text(x)' = Text(x)
    <3>1. Needed(Text(x)) \subseteq Done /\ Done = DOMAIN loaded
      BY DEF BuildInv, TypeOK, CacheInv, Fresh
    <3> QED
      BY <3>1, <1>1, InputsKept, TextsKept
  <2> QED
    BY <2>1, <1>1, <1>2, <1>3 DEF CacheInv, Fresh
<1>5. ASSUME NEW d, d # Module, OwnFilesAsRecorded(d)'
      PROVE  OwnFilesAsRecorded(d)
  BY <1>1, <1>3, <1>5 DEF OwnFilesAsRecorded, SourceOf
<1>6. Cached'
  <2> SUFFICES ASSUME NEW x \in Modules, NEW s \in DOMAIN Texts, Takable(x)', s \in sidecars[x],
                      x # Module
               PROVE  Faithful(x, s)'
    BY <1>1, <1>2 DEF Cached
  <2>1. Takable(x) /\ x \in DOMAIN objects /\ objects'[x] = objects[x]
    BY <1>1, <1>3 DEF Takable
  <2>2. Faithful(x, s)
    BY <1>1, <2>1 DEF CacheInv, Cached
  <2>3. Reach(files[s])' = Reach(files[s]) /\ Reach(files[s]) \subseteq Modules \ {"__main__"}
        /\ Range(files[s].imports) \ {"__main__"} \subseteq Reach(files[s])
    BY <1>1, ReachKept, ReachRule DEF BuildInv
  <2>4. Current(x, s)' \/ Waiting(s)'
    <3>1. CASE Waiting(s)
      BY <3>1, <2>3, <1>1, <1>5 DEF Waiting
    <3>2. CASE Module \in Reach(files[s])
      BY <3>2, <2>3, <1>1 DEF Waiting
    <3>3. CASE Current(x, s) /\ Module \notin Reach(files[s]) /\ ~Waiting(s)
      <4>1. Module \notin Needed(files[s]) \ {"__main__"}
        BY <3>3, <2>3 DEF Needed, Waiting
      <4> QED
        BY <4>1, <3>3, <1>1, <1>3, <2>1 DEF Current
    <3> QED
      BY <2>2, <3>1, <3>2, <3>3 DEF Faithful
  <2> QED
    BY <1>1, <2>1, <2>2, <2>4 DEF Faithful
<1> QED
  BY <1>4, <1>6 DEF CacheInv

\* Its sidecar is written: it says what the object was made from.
LEMMA CachedRecorded ==
    ASSUME BuildInv, CacheInv, Record
    PROVE  CacheInv'
<1>1. /\ phase = "record" /\ NextModule(Module, objects[Module])
      /\ sidecars' = With(sidecars, Module, {SourceOf(Module)} \cup Text(Module).assets)
      /\ UNCHANGED <<files, objects, newer, main, graph, recompiled, error>>
      /\ phase' # "record"
  BY DEF Record, NextModule
<1>2. /\ Module \in recompiled /\ Module \in DOMAIN objects /\ objects[Module] = Inputs(Module)
      /\ Text(Module).compiles /\ Needed(Text(Module)) \subseteq Done
  BY <1>1, CompilableNeeds DEF BuildInv, Compiled, Compilable
<1>3. UNCHANGED <<files, main, graph, error, objects>>
  BY <1>1
<1>4. Fresh'
  BY <1>1, <1>2, <1>3, FreshNext DEF CacheInv
<1>5. /\ DOMAIN sidecars' = DOMAIN sidecars \cup {Module}
      /\ sidecars'[Module] = {SourceOf(Module)} \cup Text(Module).assets
      /\ \A y \in DOMAIN sidecars \ {Module} : sidecars'[y] = sidecars[y]
  BY <1>1 DEF With
<1>6. /\ Module \in Modules /\ SourceOf(Module) \in DOMAIN Texts /\ Text(Module).assets \subseteq Assets
      /\ files[SourceOf(Module)] = Text(Module)
      /\ Deps(Module) \subseteq Done /\ DOMAIN loaded = Done
  BY <1>1, Position, TextType DEF BuildInv, TypeOK, Text
<1>7. ASSUME NEW d, d # Module, d # "__main__", OwnFilesAsRecorded(d)'
      PROVE  OwnFilesAsRecorded(d)
  BY <1>1, <1>5, <1>7 DEF OwnFilesAsRecorded, SourceOf
<1>8. Cached'
  <2> SUFFICES ASSUME NEW x \in Modules, NEW s \in DOMAIN Texts, Takable(x)', s \in sidecars'[x]
               PROVE  Faithful(x, s)'
    BY <1>1 DEF Cached
  <2>1. CASE x = Module
    <3>1. s = SourceOf(Module)
      BY <2>1, <1>5, <1>6, BuildAssumption
    <3>2. objects[x] = [text |-> files[s], reads |-> [f \in files[s].assets |-> files[f]],
                        uses |-> [d \in Needed(files[s]) |-> loaded[d]]]
      <4>1. Needed(Text(Module)) \cap DOMAIN loaded = Needed(Text(Module))
        BY <1>2, <1>6
      <4> QED
        BY <4>1, <3>1, <2>1, <1>2, <1>6 DEF Inputs
    <3>3. objects[x].uses = [d \in Needed(files[s]) |-> objects[x].uses[d]]
      BY <3>2
    <3>4. Current(x, s)
      BY <3>1, <3>2, <1>2, <1>6 DEF Current, CacheInv, Fresh
    <3>5. Current(x, s)'
      BY <3>4, <1>1 DEF Current
    <3>6. sidecars'[x] = {s} \cup files[s].assets /\ files[s].compiles
      BY <2>1, <3>1, <1>2, <1>5, <1>6
    <3>7. objects[x] = [text |-> files[s], reads |-> [f \in files[s].assets |-> files[f]],
                        uses |-> [d \in Needed(files[s]) |-> objects[x].uses[d]]]
      BY <3>2, <3>3
    <3> QED
      BY <3>5, <3>6, <3>7, <1>1 DEF Faithful
  <2>2. CASE x # Module
    <3>1. Takable(x) /\ s \in sidecars[x] /\ sidecars'[x] = sidecars[x]
      BY <2>2, <1>1, <1>5 DEF Takable
    <3>2. Faithful(x, s)
      BY <2>2, <3>1 DEF CacheInv, Cached
    <3>3. Reach(files[s])' = Reach(files[s]) /\ Reach(files[s]) \subseteq Modules \ {"__main__"}
      BY <1>1, ReachKept, ReachRule DEF BuildInv
    <3>4. Waiting(s) => Waiting(s)'
      BY <3>3, <1>1, <1>2, <1>7 DEF Waiting
    <3>5. Current(x, s) => Current(x, s)'
      BY <1>1 DEF Current
    <3> QED
      BY <3>1, <3>2, <3>4, <3>5, <1>1 DEF Faithful
  <2> QED
    BY <2>1, <2>2
<1> QED
  BY <1>4, <1>8 DEF CacheInv
\* A step that leaves the disk alone and the loop where it begins.
LEMMA CacheKept ==
    ASSUME BuildInv, CacheInv, UNCHANGED <<disk, recompiled>>, phase # "record", k' = 1
    PROVE  CacheInv'
<1>1. Cached'
  BY CachedKept DEF CacheInv
<1>2. Fresh'
  BY DEF Fresh, Done
<1> QED
  BY <1>1, <1>2 DEF CacheInv

\* As long as nothing disturbs it, the cache stays right.
LEMMA CacheStepInv == BuildInv /\ BuildInv' /\ Together /\ CacheInv /\ Undisturbed /\ [Next]_vars => CacheInv'
<1> SUFFICES ASSUME BuildInv, BuildInv', Together, CacheInv, Undisturbed, [Next]_vars PROVE CacheInv'
  OBVIOUS
<1>0. phase \in {"idle", "discover", "sort"} => k = 1 /\ recompiled = {} /\ Done = {}
  BY DEF BuildInv, Shape, Done
<1>1. CASE UNCHANGED vars
  <2>1. UNCHANGED <<files, objects, sidecars, newer, main, order, k, recompiled, loaded, phase>>
    BY <1>1 DEF vars, disk, graph, progress
  <2>2. Cached'
    BY <2>1, CachedKept DEF CacheInv, disk, Module
  <2>3. Fresh'
    <3>1. Done' = Done /\ (\A x : Text(x)' = Text(x)) /\ \A x : Inputs(x)' = Inputs(x)
      BY <2>1, TextsKept DEF Done, Inputs
    <3> QED
      BY <2>1, <3>1 DEF CacheInv, Fresh
  <2> QED
    BY <2>2, <2>3 DEF CacheInv
<1>2. ASSUME NEW f \in Files, EditSource(f) \/ EditAsset(f)
      PROVE  CacheInv'
  <2>1. /\ phase = "idle" /\ phase' = "idle" /\ UNCHANGED <<objects, sidecars, main, k, recompiled>>
        /\ newer' = newer \cup ({f} \X DOMAIN objects)
    BY <1>2 DEF EditSource, EditAsset, Written, progress
  <2>2. \A g \in Files \ {f} : files'[g] = files[g]
    <3>1. \E c : files' = [files EXCEPT ![f] = c]
      BY <1>2 DEF EditSource, EditAsset
    <3> QED
      BY <3>1 DEF BuildInv, Shape
  <2>3. Cached'
    BY <2>1, <2>2, CachedWritten DEF CacheInv
  <2>4. Fresh'
    BY <1>0, <2>1 DEF Fresh, Done
  <2> QED
    BY <2>3, <2>4 DEF CacheInv
<1>3. ASSUME NEW x, Forget(x)
      PROVE  CacheInv'
  <2>1. Cached'
    BY <1>3, CachedForgotten DEF CacheInv, BuildInv
  <2>2. Fresh'
    BY <1>0, <1>3 DEF Fresh, Done, Forget, progress
  <2> QED
    BY <2>1, <2>2 DEF CacheInv
<1>4. ASSUME NEW s \in Sources, StartBuild(s)
      PROVE  CacheInv'
  BY <1>0, <1>4, CacheKept DEF StartBuild, progress
<1>5. CASE Discover
  BY <1>0, <1>5, CacheKept DEF Discover, progress
<1>6. CASE StartSort
  BY <1>0, <1>6, CacheKept DEF StartSort, progress
<1>7. CASE VisitRoot
  BY <1>0, <1>7, CacheKept DEF VisitRoot, progress
<1>8. CASE VisitDependency
  <2>1. phase = "sort" /\ UNCHANGED disk
    BY <1>8 DEF VisitDependency
  <2>2. k' = 1 /\ recompiled' = {}
    <3>1. NoBuilder \/ UNCHANGED progress
      BY <1>8 DEF VisitDependency, Fail
    <3> QED
      BY <3>1, <2>1, <1>0 DEF NoBuilder, progress
  <2> QED
    BY <1>0, <2>1, <2>2, CacheKept
<1>9. CASE Visited
  BY <1>0, <1>9, CacheKept DEF Visited, progress
<1>10. CASE StartModules
  BY <1>0, <1>10, CacheKept DEF StartModules, progress
<1>11. CASE Reuse
  BY <1>11, CachedReused
<1>12. CASE Compile
  <2>1. phase' \in {"idle", "record"}
    BY <1>12 DEF Compile, Fail
  <2> QED
    BY <1>12, <2>1, CachedFailed, CachedCompiled
<1>13. CASE Record
  BY <1>13, CachedRecorded
<1>14. CASE LinkObjects
  BY <1>14, CachedLinked
<1>15. DOMAIN Texts \subseteq Files /\ Assets \subseteq Files
  BY DEF Files
<1> QED
  BY <1>1, <1>2, <1>3, <1>4, <1>5, <1>6, <1>7, <1>8, <1>9, <1>10, <1>11, <1>12, <1>13, <1>14, <1>15
     DEF Next, BuildStep

\* What is linked is what the files mean.
LEMMA LinkIsClean ==
    ASSUME BuildInv, CacheInv, LinkObjects
    PROVE  Clean!Build
<1>1. /\ phase = "link" /\ image' = loaded /\ UNCHANGED files /\ Compiling
  BY DEF LinkObjects, disk, Compiling
<1>2. main \in Sources
  BY <1>1, BuildAssumption DEF BuildInv, TypeOK
<1>3. \A x : Clean!SourceAt(main, x) = SourceOf(x)
  BY DEF Clean!SourceAt, SourceOf
<1>4. Clean!ImportsFrom(main) = Imports
  BY <1>3 DEF Clean!ImportsFrom, Imports, Text
<1>a. \A f : Clean!Range(f) = Range(f)
  BY DEF Clean!Range, Range
<1>b. \A from : Clean!Closure(Imports, from) = Closure(Imports, from)
  BY <1>a DEF Clean!Closure, Closure
<1>5. Clean!Reachable(main) = Closure(Imports, {"__main__"})
  BY <1>4, <1>b DEF Clean!Reachable
<1>6. Closure(Imports, {"__main__"}) = Range(order)
  BY <1>1, OrderComplete DEF DependenciesFirst, Compiling
<1>7. Range(order) = Done
  <2>1. order \in Seq(Modules) /\ Len(order) \in Nat /\ k = Len(order) + 1
    BY <1>1, LenProperties DEF BuildInv, TypeOK, Shape
  <2> QED
    BY <2>1, RangeEquality DEF Done
<1>8. \A x \in Done : ~OnCycle(Imports, x) /\ Text(x).compiles /\ Text(x).names \subseteq Done
  BY <1>1, <1>7, NoCycle DEF CacheInv, Fresh, Needed
<1>9. ASSUME NEW x \in Done
      PROVE  loaded[x] = [text |-> Text(x), reads |-> [f \in Text(x).assets |-> files[f]],
                          uses |-> [d \in Range(Text(x).imports) \cup Text(x).names |-> loaded[d]]]
  <2>1. Needed(Text(x)) \cap DOMAIN loaded = Range(Text(x).imports) \cup Text(x).names
    BY DEF BuildInv, TypeOK, CacheInv, Fresh, Needed
  <2> QED
    BY <2>1 DEF CacheInv, Fresh, Inputs
<1>10. Clean!IsMeaning(loaded, main)
  <2>1. DOMAIN loaded = Clean!Reachable(main)
    BY <1>5, <1>6, <1>7 DEF BuildInv, TypeOK
  <2>2. \A x : files[Clean!SourceAt(main, x)] = Text(x)
    BY <1>3 DEF Text
  <2> QED
    BY <2>1, <2>2, <1>5, <1>6, <1>7, <1>9, <1>a DEF Clean!IsMeaning
<1>11. \A x \in Clean!Reachable(main) :
          /\ ~Clean!OnCycle(Clean!ImportsFrom(main), x)
          /\ files[Clean!SourceAt(main, x)].compiles
          /\ files[Clean!SourceAt(main, x)].names \subseteq Clean!Reachable(main)
  <2>1. \A x : Clean!OnCycle(Imports, x) = OnCycle(Imports, x)
    BY <1>a, <1>b DEF Clean!OnCycle, OnCycle
  <2>2. \A x : files[Clean!SourceAt(main, x)] = Text(x)
    BY <1>3 DEF Text
  <2> QED
    BY <2>1, <2>2, <1>4, <1>5, <1>6, <1>7, <1>8
<1> QED
  BY <1>1, <1>2, <1>10, <1>11 DEF Clean!Build

\* Every step of a build is a step of what it promises, or none at all.
LEMMA StepIsClean ==
    BuildInv /\ CacheInv /\ [Next]_vars => [Clean!Write \/ Clean!Build]_(Clean!cleanVars)
<1> SUFFICES ASSUME BuildInv, CacheInv, [Next]_vars
             PROVE  UNCHANGED image \/ Clean!Build
  BY DEF Clean!Write, Clean!cleanVars
<1>1. CASE LinkObjects
  BY <1>1, LinkIsClean
<1>2. CASE ~LinkObjects
  BY <1>2 DEF Next, BuildStep, EditSource, EditAsset, Forget, StartBuild, Discover, StartSort,
     VisitRoot, VisitDependency, Visited, StartModules, Reuse, Compile, Record, vars
<1> QED
  BY <1>1, <1>2

\* As long as no build takes a module that names what it does not reach, leaves
\* somebody out of what it compiles again, or leaves the object of an error
\* beside an older sidecar, each image is what a clean build of the files would
\* link, whatever was edited, deleted, built and cached before.
THEOREM IncrementalIsClean == Spec /\ []Undisturbed => BuildsLikeClean
<1>1. Init => CacheInv /\ Clean!Init
  BY CacheInit DEF Init, Clean!Init, NoFunction
<1>2. BuildInv /\ BuildInv' /\ Together /\ CacheInv /\ Undisturbed /\ [Next]_vars => CacheInv'
  BY CacheStepInv
<1>3. BuildInv /\ CacheInv /\ [Next]_vars => [Clean!Write \/ Clean!Build]_(Clean!cleanVars)
  BY StepIsClean
<1>4. Spec /\ []Undisturbed => [](BuildInv /\ CacheInv)
  BY <1>1, <1>2, TogetherInvariant, PTL DEF Spec
<1> QED
  BY <1>1, <1>3, <1>4, PTL DEF Spec, BuildsLikeClean, Clean!Spec
=============================================================================
