----------------------------- MODULE FoldSteps ------------------------------
(***************************************************************************)
(* What Folding's Fold does with an operator Op: it goes through the       *)
(* sequence one element after another.  The recursion theorems of the      *)
(* library take an operator and no prover here can instantiate them; as a  *)
(* constant of a module Op is instantiated with INSTANCE ... WITH, once    *)
(* for each fold that is reasoned about.                                   *)
(***************************************************************************)
EXTENDS Folding, FiniteSetTheorems, TLAPS

CONSTANT Op(_, _)

Left(base, seq) == Fold(Op, base, seq)

\* One step of the fold over seq.
FoldStep(base, seq, run, k) == IF k = 0 THEN base ELSE Strictly(Op, run[k - 1], seq[k])

\* run[k] is what the fold has come to behind the k-th element.
IsRun(base, seq, run) ==
    /\ run[0] = base
    /\ \A k \in 1 .. Len(seq) : run[k] = Op(run[k - 1], seq[k])

-----------------------------------------------------------------------------
(* Induction without the library's theorems that take an operator: over    *)
(* numbers and finite sets, each by looking at a smallest counterexample.  *)

\* B holds subsets of S; t is one none of the others is part of.
Among(B, S) == B \in SUBSET SUBSET S
IsSmallest(t, B) == \A u \in B : u \subseteq t => u = t

\* Among subsets of a finite set one is smallest.
LEMMA SmallestSet ==
    ASSUME NEW S, IsFiniteSet(S), NEW B, Among(B, S), B # {}
    PROVE  \E t \in B : IsSmallest(t, B)
<1>1. B \subseteq FiniteSubsetsOf(S)
  BY FS_FiniteSubsetsOfFinite DEF Among
<1>2. IsWellFoundedOn(StrictSubsetOrdering(S), FiniteSubsetsOf(S))
  BY FS_StrictSubsetOrderingWellFounded
<1>3. PICK t \in B : \A u \in B : ~(<<u, t>> \in StrictSubsetOrdering(S))
  BY <1>1, <1>2, WFMin
<1>4. \A u \in B : u \subseteq t /\ u # t => <<u, t>> \in StrictSubsetOrdering(S)
  BY DEF StrictSubsetOrdering, Among
<1>5. ASSUME NEW u \in B, u \subseteq t PROVE u = t
  BY <1>3, <1>4, <1>5
<1> QED
  BY <1>5 DEF IsSmallest

\* A set of numbers that is not empty has a least one.
LEMMA LeastNumber ==
    ASSUME NEW B \in SUBSET Nat, B # {}
    PROVE  \E m \in B : \A k \in B : m <= k
<1>1. PICK b \in B : TRUE
  OBVIOUS
<1> DEFINE C == {0 .. k : k \in {j \in B : j <= b}}
<1>2. IsFiniteSet(0 .. b)
  BY FS_Interval
<1>3. Among(C, 0 .. b) /\ C # {}
  BY DEF Among
<1> HIDE DEF C
<1>4. PICK t \in C : IsSmallest(t, C)
  BY <1>2, <1>3, SmallestSet
<1>5. PICK m \in B : m <= b /\ t = 0 .. m
  BY <1>4 DEF C
<1>6. ASSUME NEW k \in B, k < m PROVE FALSE
  <2>1. k <= b /\ 0 .. k \in C
    BY <1>5, <1>6 DEF C
  <2>2. 0 .. k \subseteq t /\ m \in t /\ m \notin 0 .. k
    BY <1>5, <1>6
  <2> QED
    BY <2>1, <2>2, <1>4 DEF IsSmallest
<1> QED
  BY <1>6

\* Induction from 0 to n, over a set: what holds 0, and each number behind
\* one it holds, holds n.
LEMMA UpFromZero ==
    ASSUME NEW n \in Nat, NEW D, 0 \in D,
           \A k \in 1 .. n : k - 1 \in D => k \in D
    PROVE  n \in D
<1> DEFINE B == {k \in 0 .. n : k \notin D}
<1> SUFFICES ASSUME n \notin D PROVE FALSE
  OBVIOUS
<1>1. B \in SUBSET Nat /\ B # {}
  OBVIOUS
<1> HIDE DEF B
<1>2. PICK k \in B : \A j \in B : k <= j
  BY <1>1, LeastNumber
<1>3. k \in 1 .. n /\ k \notin D /\ k - 1 \notin B
  BY <1>2 DEF B
<1>4. k - 1 \in D
  BY <1>3 DEF B
<1> QED
  BY <1>3, <1>4

-----------------------------------------------------------------------------
(* The steps of a fold.                                                    *)

LEMMA StrictlyIsOp ==
    ASSUME NEW x, NEW y
    PROVE  Strictly(Op, x, y) = Op(x, y)
<1>1. {Op(z, y) : z \in {x}} = {Op(x, y)}
  OBVIOUS
<1> QED
  BY <1>1 DEF Strictly

LEMMA StepFacts ==
    ASSUME NEW base, NEW seq, NEW run, NEW k
    PROVE  /\ k = 0 => FoldStep(base, seq, run, k) = base
           /\ k # 0 => FoldStep(base, seq, run, k) = Op(run[k - 1], seq[k])
<1>1. CASE k = 0
  BY <1>1 DEF FoldStep
<1>2. CASE k # 0
  <2>1. FoldStep(base, seq, run, k) = Strictly(Op, run[k - 1], seq[k])
    BY <1>2 DEF FoldStep
  <2>2. Strictly(Op, run[k - 1], seq[k]) = Op(run[k - 1], seq[k])
    BY StrictlyIsOp
  <2> QED
    BY <2>1, <2>2, <1>2
<1> QED
  BY <1>1, <1>2

\* The recursion has a solution: one that is right up to n can be made right
\* up to n + 1.
LEMMA RunExists ==
    ASSUME NEW base, NEW seq, Len(seq) \in Nat
    PROVE  \E run : run = [k \in 0 .. Len(seq) |-> FoldStep(base, seq, run, k)]
<1> DEFINE Good(run, n) ==
             /\ run = [k \in 0 .. Len(seq) |-> run[k]]
             /\ \A k \in 0 .. Len(seq) : k <= n => run[k] = FoldStep(base, seq, run, k)
           Done == {n \in 0 .. Len(seq) : \E run : Good(run, n)}
<1>1. 0 \in Done
  <2> DEFINE run == [k \in 0 .. Len(seq) |-> base]
  <2>1. Good(run, 0)
    BY DEF FoldStep
  <2> QED
    BY <2>1
<1>2. ASSUME NEW n \in 1 .. Len(seq), n - 1 \in Done PROVE n \in Done
  <2>1. PICK run : Good(run, n - 1)
    BY <1>2
  <2> DEFINE next == [k \in 0 .. Len(seq) |->
                         IF k = n THEN FoldStep(base, seq, run, n) ELSE run[k]]
  <2>2. ASSUME NEW k \in 0 .. Len(seq), k <= n PROVE next[k] = FoldStep(base, seq, next, k)
    <3>1. k # 0 => next[k - 1] = run[k - 1]
      BY <2>2
    <3>2. FoldStep(base, seq, next, k) = FoldStep(base, seq, run, k)
      BY <3>1 DEF FoldStep
    <3>3. k # n => run[k] = FoldStep(base, seq, run, k)
      BY <2>1, <2>2
    <3> QED
      BY <3>2, <3>3
  <2>3. Good(next, n)
    BY <2>2
  <2> HIDE DEF Good, next
  <2> QED
    BY <2>3
<1> HIDE DEF Done
<1>3. Len(seq) \in Done
  BY <1>1, <1>2, UpFromZero DEF Done
<1>4. PICK run : Good(run, Len(seq))
  BY <1>3 DEF Done
<1> QED
  BY <1>4

\* Folding is taking the elements one by one.
LEMMA FoldIsRun ==
    ASSUME NEW base, NEW seq, Len(seq) \in Nat
    PROVE  \E run : IsRun(base, seq, run) /\ Left(base, seq) = run[Len(seq)]
<1> DEFINE run == CHOOSE r : r = [k \in 0 .. Len(seq) |-> FoldStep(base, seq, r, k)]
<1>1. run = [k \in 0 .. Len(seq) |-> FoldStep(base, seq, run, k)]
  BY RunExists
<1>2. Left(base, seq) = run[Len(seq)]
  BY DEF Left, Fold, FoldStep
<1> HIDE DEF run
<1>3. \A k \in 0 .. Len(seq) : run[k] = FoldStep(base, seq, run, k)
  BY <1>1
<1>4. \A k \in 1 .. Len(seq) : run[k] = Op(run[k - 1], seq[k])
  BY <1>3, StepFacts
<1>5. run[0] = base
  BY <1>3, StepFacts
<1> QED
  BY <1>2, <1>4, <1>5 DEF IsRun

\* There is one way to go.
LEMMA RunUnique ==
    ASSUME NEW base, NEW seq, NEW other, NEW n \in Nat, n <= Len(seq), n <= Len(other),
           Len(seq) \in Nat, Len(other) \in Nat,
           \A k \in 1 .. n : seq[k] = other[k],
           NEW run, IsRun(base, seq, run), NEW next, IsRun(base, other, next)
    PROVE  run[n] = next[n]
<1> DEFINE Same == {k \in 0 .. n : run[k] = next[k]}
<1>1. 0 \in Same
  BY DEF IsRun
<1>2. ASSUME NEW k \in 1 .. n, k - 1 \in Same PROVE k \in Same
  BY <1>2 DEF IsRun
<1> HIDE DEF Same
<1>3. n \in Same
  BY <1>1, <1>2, UpFromZero DEF Same
<1> QED
  BY <1>3 DEF Same

LEMMA FoldEmpty ==
    ASSUME NEW base
    PROVE  Left(base, <<>>) = base
BY FoldIsRun DEF IsRun

\* One element more is one step more.
LEMMA FoldAppend ==
    ASSUME NEW base, NEW S, NEW seq \in Seq(S), NEW x \in S
    PROVE  Left(base, Append(seq, x)) = Op(Left(base, seq), x)
<1> DEFINE longer == Append(seq, x)
<1>1. /\ Len(seq) \in Nat /\ Len(longer) = Len(seq) + 1
      /\ \A k \in 1 .. Len(seq) : longer[k] = seq[k]
      /\ longer[Len(longer)] = x
  OBVIOUS
<1> HIDE DEF longer
<1>2. PICK run : IsRun(base, seq, run) /\ Left(base, seq) = run[Len(seq)]
  BY <1>1, FoldIsRun
<1>3. PICK next : IsRun(base, longer, next) /\ Left(base, longer) = next[Len(longer)]
  BY <1>1, FoldIsRun
<1>4. run[Len(seq)] = next[Len(seq)]
  BY <1>1, <1>2, <1>3, RunUnique
<1>5. next[Len(longer)] = Op(next[Len(longer) - 1], longer[Len(longer)])
  BY <1>1, <1>3 DEF IsRun
<1>6. Len(longer) - 1 = Len(seq)
  BY <1>1
<1>7. Left(base, longer) = Op(Left(base, seq), x)
  BY <1>1, <1>2, <1>3, <1>4, <1>5, <1>6
<1> QED
  BY <1>7 DEF longer
=============================================================================
