---------------------------- MODULE LayoutProofs ----------------------------
(***************************************************************************)
(* Pool.allocate() as the function PoolLayout makes of it.                 *)
(***************************************************************************)
EXTENDS PoolLayout, Functions, FiniteSetTheorems, TLAPS

\* The turns of allocate(), one after another.
Turns == INSTANCE FoldSteps WITH Op <- Turn

\* Among subsets of a finite set one is smallest.
LEMMA FiniteSmallest ==
    ASSUME NEW S, IsFiniteSet(S), NEW B, Turns!Among(B, S), B # {}
    PROVE  \E t \in B : Turns!IsSmallest(t, B)
BY Turns!SmallestSet DEF IsFiniteSet, Turns!IsFiniteSet

\* Ranges no step ever makes empty.
NonEmpty(S) == \A r \in S : r.lo <= r.hi

-----------------------------------------------------------------------------
(* Lemmas about _normalize_ranges.                                         *)

\* Banks grow with addresses (start >> 16).
LEMMA BankMonotone ==
    ASSUME NEW a \in Nat, NEW b \in Nat, NEW c \in Nat,
           a <= b, b <= c, Bank(a) = Bank(c)
    PROVE  Bank(b) = Bank(a)
<1>1. BankSize \in Nat /\ BankSize > 0
  BY BankSizeAssumption
<1> QED
  BY <1>1, SMTT(30) DEF Bank

\* Merging yields proper ranges.
LEMMA NormalizeType ==
    ASSUME NEW S \in SUBSET Ranges, NonEmpty(S)
    PROVE  Normalize(S) \in SUBSET Ranges /\ NonEmpty(Normalize(S))
<1> SUFFICES ASSUME NEW r \in Normalize(S)
             PROVE  r \in Ranges /\ r.lo <= r.hi
  BY DEF NonEmpty
<1>1. PICK a \in S, b \in S :
         /\ IsRun(S, a, b)
         /\ r = [lo |-> a.lo, hi |-> b.hi,
                 cross |-> \E c \in S : c.lo \in a.lo .. b.lo /\ c.cross]
  BY DEF Normalize
<1>2. a \in Ranges /\ b \in Ranges /\ a.lo <= b.lo /\ b.lo <= b.hi
  BY <1>1 DEF IsRun, NonEmpty
<1>3. (\E c \in S : c.lo \in a.lo .. b.lo /\ c.cross) \in BOOLEAN
  OBVIOUS
<1> QED
  BY <1>1, <1>2, <1>3 DEF Ranges

\* Merging keeps every range within its bank unless a part may leave it.
LEMMA NormalizeValid ==
    ASSUME NEW S, \A r \in S : ValidRange(r)
    PROVE  \A r \in Normalize(S) : ValidRange(r)
<1>1. S \in SUBSET Ranges /\ NonEmpty(S)
  BY DEF ValidRange, NonEmpty
<1> SUFFICES ASSUME NEW r \in Normalize(S)
             PROVE  r.cross \/ Bank(r.lo) = Bank(r.hi)
  BY <1>1, NormalizeType DEF ValidRange, NonEmpty
<1>2. PICK a \in S, b \in S :
         /\ IsRun(S, a, b)
         /\ r = [lo |-> a.lo, hi |-> b.hi,
                 cross |-> \E c \in S : c.lo \in a.lo .. b.lo /\ c.cross]
  BY DEF Normalize
<1>3. b.lo \in a.lo .. b.lo
  BY <1>1, <1>2 DEF IsRun, Ranges
<1>4. CASE b.cross
  BY <1>2, <1>3, <1>4
<1>5. CASE ~b.cross
  BY <1>2, <1>5 DEF IsRun, SameBank, ValidRange
<1> QED
  BY <1>4, <1>5

\* Two maximal runs of disjoint ranges are the same or lie apart.
LEMMA NormalizeDisjoint ==
    ASSUME NEW S \in SUBSET Ranges, NonEmpty(S), Disjoint(S)
    PROVE  Disjoint(Normalize(S))
<1> DEFINE Merged(a, b) ==
      [lo |-> a.lo, hi |-> b.hi,
       cross |-> \E c \in S : c.lo \in a.lo .. b.lo /\ c.cross]
<1>a. \A u \in S : u \in Ranges /\ u.lo \in Nat /\ u.hi \in Nat /\ u.lo <= u.hi
  BY DEF NonEmpty, Ranges
<1>b. \A u, v \in S : u # v => u.hi < v.lo \/ v.hi < u.lo
  BY DEF Disjoint, Overlaps
<1>1. ASSUME NEW a \in S, NEW b \in S, IsRun(S, a, b),
             \A d \in S : ~Mergeable(d, a), \A d \in S : ~Mergeable(b, d),
             NEW x \in S, NEW y \in S, IsRun(S, x, y),
             \A d \in S : ~Mergeable(d, x), \A d \in S : ~Mergeable(y, d),
             a.lo < x.lo
      PROVE  b.hi < x.lo
  <2>1. b.lo < x.lo
    BY <1>1, <1>a DEF IsRun
  <2> QED
    BY <2>1, <1>a, <1>b
<1>2. ASSUME NEW a \in S, NEW b \in S, IsRun(S, a, b),
             \A d \in S : ~Mergeable(b, d),
             NEW y \in S, IsRun(S, a, y),
             \A d \in S : ~Mergeable(y, d)
      PROVE  b = y
  <2>1. ~(b.lo < y.lo) /\ ~(y.lo < b.lo)
    BY <1>2, <1>a DEF IsRun
  <2> QED
    BY <2>1, <1>a, <1>b
<1> SUFFICES ASSUME NEW r \in Normalize(S), NEW s \in Normalize(S), r # s
             PROVE  r.hi < s.lo \/ s.hi < r.lo
  BY DEF Disjoint, Overlaps
<1>3. PICK a \in S, b \in S :
         /\ IsRun(S, a, b) /\ r = Merged(a, b)
         /\ \A d \in S : ~Mergeable(d, a) /\ ~Mergeable(b, d)
  BY DEF Normalize
<1>4. PICK x \in S, y \in S :
         /\ IsRun(S, x, y) /\ s = Merged(x, y)
         /\ \A d \in S : ~Mergeable(d, x) /\ ~Mergeable(y, d)
  BY DEF Normalize
<1>5. r.lo = a.lo /\ r.hi = b.hi /\ s.lo = x.lo /\ s.hi = y.hi
  BY <1>3, <1>4
<1>6. CASE a.lo < x.lo
  BY <1>1, <1>3, <1>4, <1>5, <1>6
<1>7. CASE x.lo < a.lo
  BY <1>1, <1>3, <1>4, <1>5, <1>7
<1>8. CASE a.lo = x.lo
  <2>1. a = x
    BY <1>8, <1>a, <1>b
  <2>2. b = y
    BY <2>1, <1>2, <1>3, <1>4
  <2> QED
    BY <2>1, <2>2, <1>3, <1>4
<1> QED
  BY <1>6, <1>7, <1>8, <1>a

\* Merging leaves nothing to merge.
LEMMA NormalizeFinal ==
    ASSUME NEW S \in SUBSET Ranges, NonEmpty(S), Disjoint(S)
    PROVE  \A r, s \in Normalize(S) : ~Mergeable(r, s)
<1> SUFFICES ASSUME NEW r \in Normalize(S), NEW s \in Normalize(S), Mergeable(r, s)
             PROVE  FALSE
  OBVIOUS
<1>1. PICK a \in S, b \in S :
         /\ IsRun(S, a, b) /\ r.lo = a.lo /\ r.hi = b.hi
         /\ \A d \in S : ~Mergeable(b, d)
  BY DEF Normalize
<1>2. PICK x \in S : s.lo = x.lo
  BY DEF Normalize
<1>3. b.hi + 1 = x.lo /\ Bank(a.lo) = Bank(x.lo)
  BY <1>1, <1>2 DEF Mergeable, SameBank
<1>4. /\ a.lo \in Nat /\ b.lo \in Nat /\ x.lo \in Nat
      /\ a.lo <= b.lo /\ b.lo <= x.lo
  BY <1>1, <1>2, <1>3 DEF IsRun, NonEmpty, Ranges
<1>5. Bank(b.lo) = Bank(x.lo)
  BY <1>3, <1>4, BankMonotone
<1> QED
  BY <1>1, <1>2, <1>3, <1>5 DEF Mergeable, SameBank

\* Merging one more range into ranges that are merged already covers it and
\* all they covered.
LEMMA NormalizeCovers ==
    ASSUME NEW N \in SUBSET Ranges, NEW r \in Ranges,
           NonEmpty(N \cup {r}), Disjoint(N \cup {r}), r \notin N,
           \A s, t \in N : ~Mergeable(s, t)
    PROVE  \A s \in N \cup {r} :
              \E m \in Normalize(N \cup {r}) : m.lo <= s.lo /\ s.hi <= m.hi
<1> DEFINE S == N \cup {r}
           Merged(a, b) ==
             [lo |-> a.lo, hi |-> b.hi,
              cross |-> \E c \in S : c.lo \in a.lo .. b.lo /\ c.cross]
<1>a. \A u \in S : u.lo \in Nat /\ u.hi \in Nat /\ u.lo <= u.hi
  BY DEF NonEmpty, Ranges
<1>b. \A u, v \in S : u # v => u.hi < v.lo \/ v.hi < u.lo
  BY DEF Disjoint, Overlaps
<1>c. \A u, v \in S : Mergeable(u, v) => u.hi + 1 = v.lo /\ (u = r \/ v = r)
  BY DEF Mergeable
<1>d. ASSUME NEW a \in S, NEW b \in S, IsRun(S, a, b),
             \A d \in S : ~Mergeable(d, a), \A d \in S : ~Mergeable(b, d)
      PROVE  Merged(a, b) \in Normalize(S)
  <2> DEFINE Heads == {x \in S : \A d \in S : ~Mergeable(d, x)}
             Tails == {x \in S : \A d \in S : ~Mergeable(x, d)}
             Runs  == {q \in Heads \X Tails : IsRun(S, q[1], q[2])}
  <2>1. <<a, b>> \in Runs
    BY <1>d
  <2>2. Normalize(S) = {Merged(p[1], p[2]) : p \in Runs}
    BY DEF Normalize
  <2> HIDE DEF Runs, Merged
  <2>3. Merged(<<a, b>>[1], <<a, b>>[2]) \in Normalize(S)
    BY <2>1, <2>2
  <2> QED
    BY <2>3
<1>1. PICK a \in S : /\ \A d \in S : ~Mergeable(d, a)
                     /\ a = r \/ Mergeable(a, r)
  <2>1. CASE \E d \in S : Mergeable(d, r)
    BY <2>1, <1>a, <1>c
  <2>2. CASE \A d \in S : ~Mergeable(d, r)
    BY <2>2
  <2> QED
    BY <2>1, <2>2
<1>2. PICK b \in S : /\ \A d \in S : ~Mergeable(b, d)
                     /\ b = r \/ Mergeable(r, b)
  <2>1. CASE \E d \in S : Mergeable(r, d)
    BY <2>1, <1>a, <1>c
  <2>2. CASE \A d \in S : ~Mergeable(r, d)
    BY <2>2
  <2> QED
    BY <2>1, <2>2
<1>3. a.lo <= r.lo /\ r.lo <= b.lo /\ r.hi <= b.hi
  BY <1>1, <1>2, <1>a, <1>c
<1>4. \A c \in S : a.lo <= c.lo /\ c.lo <= b.lo => c = a \/ c = r \/ c = b
  BY <1>1, <1>2, <1>a, <1>b, <1>c
<1>5. IsRun(S, a, b)
  <2>1. a.lo <= b.lo
    BY <1>3, <1>a
  <2>2. ASSUME NEW c \in S, a.lo < c.lo, c.lo <= b.lo
        PROVE  \E d \in S : Mergeable(d, c)
    BY <2>2, <1>1, <1>2, <1>4, <1>a
  <2>3. ASSUME NEW c \in S, a.lo <= c.lo, c.lo < b.lo
        PROVE  \E d \in S : Mergeable(c, d)
    BY <2>3, <1>1, <1>2, <1>4, <1>a
  <2>4. SameBank(a, b)
    BY <1>1, <1>2 DEF Mergeable, SameBank
  <2> QED
    BY <2>1, <2>2, <2>3, <2>4 DEF IsRun
<1> SUFFICES ASSUME NEW s \in S
             PROVE  \E m \in Normalize(S) : m.lo <= s.lo /\ s.hi <= m.hi
  OBVIOUS
<1>6. CASE s \in {a, r, b}
  <2>1. Merged(a, b).lo <= s.lo /\ s.hi <= Merged(a, b).hi
    BY <1>1, <1>2, <1>3, <1>6, <1>a, <1>c
  <2> QED
    BY <2>1, <1>d, <1>1, <1>2, <1>5
<1>7. CASE s \notin {a, r, b}
  <2>1. \A d \in S : ~Mergeable(d, s) /\ ~Mergeable(s, d)
    <3>1. ~Mergeable(r, s) /\ ~Mergeable(s, r)
      BY <1>1, <1>2, <1>7, <1>a, <1>b, <1>c
    <3> QED
      BY <3>1, <1>7, <1>c
  <2>2. IsRun(S, s, s)
    BY <1>a DEF IsRun, SameBank
  <2>3. Merged(s, s).lo <= s.lo /\ s.hi <= Merged(s, s).hi
    BY <1>a
  <2> QED
    BY <2>1, <2>2, <2>3, <1>d
<1> QED
  BY <1>6, <1>7

\* Merging covers nothing that was not covered.
LEMMA NormalizeWithin ==
    ASSUME NEW S \in SUBSET Ranges, NonEmpty(S), Disjoint(S),
           NEW r \in Normalize(S), NEW x \in r.lo .. r.hi
    PROVE  \E c \in S : c.lo <= x /\ x <= c.hi
<1>a. \A u \in S : u.lo \in Nat /\ u.hi \in Nat /\ u.lo <= u.hi
  BY DEF NonEmpty, Ranges
<1>b. \A u, v \in S : u # v => u.hi < v.lo \/ v.hi < u.lo
  BY DEF Disjoint, Overlaps
<1>1. PICK a \in S, b \in S : IsRun(S, a, b) /\ r.lo = a.lo /\ r.hi = b.hi
  BY DEF Normalize
<1>2. x \in Nat /\ a.lo <= x /\ x <= b.hi
  BY <1>1, <1>a
<1> DEFINE Far == {x - c.lo : c \in {d \in S : d.lo <= x}}
<1>3. Far \in SUBSET Nat /\ x - a.lo \in Far
  BY <1>1, <1>2, <1>a
<1> HIDE DEF Far
<1>4. PICK n \in Far : \A k \in Far : n <= k
  BY <1>3, Turns!LeastNumber
<1>5. PICK c \in S : c.lo <= x /\ n = x - c.lo
  BY <1>4 DEF Far
<1>6. ASSUME NEW d \in S, d.lo <= x PROVE d.lo <= c.lo
  <2>1. x - d.lo \in Far
    BY <1>6 DEF Far
  <2>2. x - c.lo <= x - d.lo
    BY <2>1, <1>4, <1>5
  <2> QED
    BY <2>2, <1>2, <1>a
<1>7. ASSUME c.hi < x PROVE FALSE
  <2>1. a.lo <= c.lo /\ c # b /\ c.lo < b.lo
    <3>1. a.lo <= c.lo /\ c # b
      BY <1>1, <1>2, <1>6, <1>7, <1>a
    <3> QED
      BY <3>1, <1>1, <1>2, <1>5, <1>a, <1>b
  <2>2. PICK d \in S : Mergeable(c, d)
    BY <2>1, <1>1 DEF IsRun
  <2>3. d.lo = c.hi + 1 /\ d.lo <= x
    BY <2>2, <1>2, <1>7, <1>a DEF Mergeable
  <2>4. d.lo <= c.lo
    BY <2>3, <1>6
  <2> QED
    BY <2>3, <2>4, <1>a
<1> QED
  BY <1>5, <1>7, <1>2, <1>a

\* Merging a pool's list of ranges leaves one at least: the run of ranges that
\* starts at the first one ends somewhere.
LEMMA NormalizeNotEmpty ==
    ASSUME NEW S \in SUBSET Ranges, NonEmpty(S), Disjoint(S), IsFiniteSet(S), S # {}
    PROVE  Normalize(S) # {}
<1>a. \A u \in S : u.lo \in Nat /\ u.hi \in Nat /\ u.lo <= u.hi
  BY DEF NonEmpty, Ranges
<1>b. \A u, v \in S : u # v => u.hi < v.lo \/ v.hi < u.lo
  BY DEF Disjoint, Overlaps
<1>1. PICK a \in S : \A d \in S : a.lo <= d.lo
  <2> DEFINE B == {d.lo : d \in S}
  <2>1. B \in SUBSET Nat /\ B # {}
    BY <1>a
  <2> HIDE DEF B
  <2>2. PICK x \in B : \A y \in B : x <= y
    BY <2>1, Turns!LeastNumber
  <2> QED
    BY <2>2 DEF B
<1>2. \A d \in S : ~Mergeable(d, a)
  BY <1>1, <1>a DEF Mergeable
<1> DEFINE Runs == {b \in S : IsRun(S, a, b)}
           Above(b) == {c \in S : b.lo < c.lo}
           Family == {Above(b) : b \in Runs}
<1>3. a \in Runs
  BY <1>a DEF IsRun, SameBank
<1>4. Turns!Among(Family, S) /\ Family # {}
  BY <1>3 DEF Turns!Among
<1> HIDE DEF Family
<1>5. PICK t \in Family : Turns!IsSmallest(t, Family)
  BY <1>4, FiniteSmallest
<1>6. PICK b \in Runs : t = Above(b)
  BY <1>5 DEF Family
<1>7. ASSUME NEW d \in S, Mergeable(b, d) PROVE FALSE
  <2>1. b \in S /\ IsRun(S, a, b) /\ d.lo = b.hi + 1 /\ SameBank(b, d)
    BY <1>6, <1>7 DEF Mergeable
  <2>2. \A c \in S : b.lo < c.lo /\ c.lo <= d.lo => c = d
    BY <2>1, <1>a, <1>b
  <2>3. \A c \in S : c.lo = b.lo => c = b
    BY <2>1, <1>a, <1>b
  <2>4. a.lo <= d.lo /\ SameBank(a, d) /\ b.lo < d.lo
    BY <2>1, <1>1, <1>a DEF IsRun, SameBank
  <2>5. ASSUME NEW c \in S, a.lo < c.lo, c.lo <= d.lo PROVE \E e \in S : Mergeable(e, c)
    <3>1. CASE c.lo <= b.lo
      BY <3>1, <2>1, <2>5 DEF IsRun
    <3>2. CASE b.lo < c.lo
      BY <3>2, <2>1, <2>2, <2>5, <1>7
    <3> QED
      BY <3>1, <3>2, <2>1, <1>a
  <2>6. ASSUME NEW c \in S, a.lo <= c.lo, c.lo < d.lo PROVE \E e \in S : Mergeable(c, e)
    <3>1. CASE c.lo < b.lo
      BY <3>1, <2>1, <2>6 DEF IsRun
    <3>2. CASE c.lo = b.lo
      BY <3>2, <2>3, <1>7
    <3>3. ~(b.lo < c.lo)
      <4> SUFFICES ASSUME b.lo < c.lo PROVE FALSE
        OBVIOUS
      <4>1. c.lo <= d.lo
        BY <2>6, <1>a
      <4>2. c = d
        BY <4>1, <2>2
      <4> QED
        BY <4>2, <2>6, <1>a
    <3> QED
      BY <3>1, <3>2, <3>3, <2>1, <1>a
  <2>7. d \in Runs
    BY <2>4, <2>5, <2>6 DEF IsRun
  <2>8. Above(d) \in Family /\ Above(d) \subseteq Above(b)
    BY <2>1, <2>4, <2>7, <1>a DEF Family
  <2>9. Above(d) = Above(b)
    BY <2>8, <1>5, <1>6 DEF Turns!IsSmallest
  <2>10. d \in Above(b) /\ d \notin Above(d)
    BY <2>4, <1>a
  <2> QED
    BY <2>9, <2>10
<1> DEFINE Heads == {x \in S : \A d \in S : ~Mergeable(d, x)}
           Tails == {x \in S : \A d \in S : ~Mergeable(x, d)}
           Pairs == {q \in Heads \X Tails : IsRun(S, q[1], q[2])}
           Merged(p) == [lo |-> p[1].lo, hi |-> p[2].hi,
                         cross |-> \E c \in S : c.lo \in p[1].lo .. p[2].lo /\ c.cross]
<1>8. <<a, b>> \in Pairs
  BY <1>2, <1>6, <1>7
<1>9. Normalize(S) = {Merged(p) : p \in Pairs}
  BY DEF Normalize
<1> HIDE DEF Pairs, Merged
<1> QED
  BY <1>8, <1>9

\* A finite list of ranges stays finite.
LEMMA NormalizeFinite ==
    ASSUME NEW S, IsFiniteSet(S)
    PROVE  IsFiniteSet(Normalize(S))
<1> DEFINE Heads == {x \in S : \A d \in S : ~Mergeable(d, x)}
           Tails == {x \in S : \A d \in S : ~Mergeable(x, d)}
           Pairs == {q \in Heads \X Tails : IsRun(S, q[1], q[2])}
           Merged(p) == [lo |-> p[1].lo, hi |-> p[2].hi,
                         cross |-> \E c \in S : c.lo \in p[1].lo .. p[2].lo /\ c.cross]
           merge == [p \in Pairs |-> Merged(p)]
<1>1. IsFiniteSet(Pairs)
  <2>1. IsFiniteSet(S \X S)
    BY FS_Product
  <2>2. Pairs \in SUBSET (S \X S)
    OBVIOUS
  <2> QED
    BY <2>1, <2>2, FS_Subset
<1>2. Normalize(S) = {Merged(p) : p \in Pairs}
  BY DEF Normalize
<1> HIDE DEF Pairs, Merged
<1>3. merge \in Surjection(Pairs, {Merged(p) : p \in Pairs})
  BY DEF Surjection
<1> QED
  BY <1>1, <1>2, <1>3, FS_Surjection

-----------------------------------------------------------------------------
(* Taking a span out of a chunk.                                           *)

\* The pieces left of a chunk are proper, apart from the span and from each
\* other, and with the span they make up the chunk.
LEMMA RemainderFacts ==
    ASSUME NEW c \in Ranges, c.lo <= c.hi, NEW a \in Nat, NEW n \in Nat \ {0},
           Holds(c, a, n)
    PROVE  /\ Remainder(c, a, n) \in SUBSET Ranges
           /\ \A p \in Remainder(c, a, n) :
                 /\ c.lo <= p.lo /\ p.lo <= p.hi /\ p.hi <= c.hi
                 /\ Apart(a, n, p.lo, p.hi - p.lo + 1)
           /\ Disjoint(Remainder(c, a, n))
           /\ \A x \in c.lo .. c.hi :
                 \/ a <= x /\ x < a + n
                 \/ \E p \in Remainder(c, a, n) : p.lo <= x /\ x <= p.hi
<1> DEFINE head == [c EXCEPT !.hi = a - 1]
           tail == [c EXCEPT !.lo = a + n]
<1>1. c.lo \in Nat /\ c.hi \in Nat /\ c.lo <= a /\ a + n - 1 <= c.hi
  BY DEF Holds, Ranges
<1>2. head.lo = c.lo /\ head.hi = a - 1 /\ tail.lo = a + n /\ tail.hi = c.hi
  BY DEF Ranges
<1>3. a > c.lo => head \in Ranges
  BY <1>1 DEF Ranges
<1>4. a + n - 1 < c.hi => tail \in Ranges
  BY <1>1 DEF Ranges
<1>5. \A p : p \in Remainder(c, a, n) <=>
                \/ a > c.lo /\ p = head
                \/ a + n - 1 < c.hi /\ p = tail
  BY DEF Remainder
<1> HIDE DEF head, tail
<1>6. Remainder(c, a, n) \in SUBSET Ranges
  BY <1>3, <1>4, <1>5
<1>7. \A p \in Remainder(c, a, n) :
         /\ c.lo <= p.lo /\ p.lo <= p.hi /\ p.hi <= c.hi
         /\ Apart(a, n, p.lo, p.hi - p.lo + 1)
  BY <1>1, <1>2, <1>5 DEF Apart
<1>8. Disjoint(Remainder(c, a, n))
  BY <1>1, <1>2, <1>5 DEF Disjoint, Overlaps
<1>9. ASSUME NEW x \in c.lo .. c.hi
      PROVE  \/ a <= x /\ x < a + n
             \/ \E p \in Remainder(c, a, n) : p.lo <= x /\ x <= p.hi
  <2>1. CASE x < a
    BY <2>1, <1>1, <1>2, <1>5
  <2>2. CASE x >= a + n
    BY <2>2, <1>1, <1>2, <1>5
  <2> QED
    BY <2>1, <2>2, <1>1
<1> QED
  BY <1>6, <1>7, <1>8, <1>9

\* The free list after a span has been taken out of one of its chunks.
LEMMA ShrinkFacts ==
    ASSUME NEW F \in SUBSET Ranges, NonEmpty(F), Disjoint(F), NEW c \in F,
           NEW a \in Nat, NEW n \in Nat \ {0}, Holds(c, a, n),
           NEW G, G = (F \ {c}) \cup Remainder(c, a, n)
    PROVE  /\ G \in SUBSET Ranges
           /\ NonEmpty(G)
           /\ Disjoint(G)
           /\ \A p \in G : \E d \in F : d.lo <= p.lo /\ p.hi <= d.hi
           /\ \A p \in G : Apart(a, n, p.lo, p.hi - p.lo + 1)
           /\ \A d \in F : \A x \in d.lo .. d.hi :
                 \/ a <= x /\ x < a + n
                 \/ \E p \in G : p.lo <= x /\ x <= p.hi
<1>1. \A d \in F : d \in Ranges /\ d.lo \in Nat /\ d.hi \in Nat /\ d.lo <= d.hi
  BY DEF Ranges, NonEmpty
<1>2. \A d \in F \ {c} : d.hi < c.lo \/ c.hi < d.lo
  BY DEF Disjoint, Overlaps
<1>3. c.lo <= a /\ a + n - 1 <= c.hi
  BY DEF Holds
<1>4. /\ Remainder(c, a, n) \in SUBSET Ranges
      /\ \A p \in Remainder(c, a, n) :
            /\ c.lo <= p.lo /\ p.lo <= p.hi /\ p.hi <= c.hi
            /\ Apart(a, n, p.lo, p.hi - p.lo + 1)
      /\ Disjoint(Remainder(c, a, n))
      /\ \A x \in c.lo .. c.hi :
            \/ a <= x /\ x < a + n
            \/ \E p \in Remainder(c, a, n) : p.lo <= x /\ x <= p.hi
  BY <1>1, RemainderFacts
<1>5. G \in SUBSET Ranges
  BY <1>4
<1>6. \A p \in G : p.lo \in Nat /\ p.hi \in Nat
  BY <1>5 DEF Ranges
<1>7. NonEmpty(G)
  BY <1>1, <1>4 DEF NonEmpty
<1>8. Disjoint(G)
  <2> SUFFICES ASSUME NEW p \in G, NEW q \in G, p # q
               PROVE  p.hi < q.lo \/ q.hi < p.lo
    BY DEF Disjoint, Overlaps
  <2>1. CASE p \in F \ {c} /\ q \in F \ {c}
    BY <2>1 DEF Disjoint, Overlaps
  <2>2. CASE p \in F \ {c} /\ q \in Remainder(c, a, n)
    BY <2>2, <1>1, <1>2, <1>4, <1>6
  <2>3. CASE q \in F \ {c} /\ p \in Remainder(c, a, n)
    BY <2>3, <1>1, <1>2, <1>4, <1>6
  <2>4. CASE p \in Remainder(c, a, n) /\ q \in Remainder(c, a, n)
    BY <2>4, <1>4 DEF Disjoint, Overlaps
  <2> QED
    BY <2>1, <2>2, <2>3, <2>4
<1>9. \A p \in G : \E d \in F : d.lo <= p.lo /\ p.hi <= d.hi
  BY <1>1, <1>4
<1>10. \A p \in G : Apart(a, n, p.lo, p.hi - p.lo + 1)
  BY <1>1, <1>2, <1>3, <1>4 DEF Apart
<1>11. ASSUME NEW d \in F, NEW x \in d.lo .. d.hi
       PROVE  \/ a <= x /\ x < a + n
              \/ \E p \in G : p.lo <= x /\ x <= p.hi
  <2>1. CASE d = c
    BY <2>1, <1>4
  <2>2. CASE d # c
    BY <2>2, <1>1
  <2> QED
    BY <2>1, <2>2
<1> QED
  BY <1>5, <1>7, <1>8, <1>9, <1>10, <1>11
-----------------------------------------------------------------------------
(* Which request is served next.                                           *)

\* A finite set that R orders has a first element.
LEMMA FirstExists ==
    ASSUME NEW S, IsFiniteSet(S), S # {}, NEW R,
           \A i, j, k \in S : <<i, j>> \in R /\ <<j, k>> \in R => <<i, k>> \in R,
           \A i, j \in S : i # j => <<i, j>> \in R \/ <<j, i>> \in R,
           \A i \in S : <<i, i>> \notin R
    PROVE  \E i \in S : \A j \in S \ {i} : <<i, j>> \in R
<1> DEFINE Ahead(i) == {j \in S : <<j, i>> \in R}
           B == {Ahead(i) : i \in S}
<1>1. Turns!Among(B, S) /\ B # {}
  <2>1. \A i \in S : Ahead(i) \in SUBSET S
    OBVIOUS
  <2>2. B \in SUBSET SUBSET S
    BY <2>1
  <2>3. B # {}
    <3>1. PICK i \in S : TRUE
      OBVIOUS
    <3> HIDE DEF Ahead
    <3>2. Ahead(i) \in B
      OBVIOUS
    <3> QED
      BY <3>2
  <2> HIDE DEF B, Ahead
  <2> QED
    BY <2>2, <2>3 DEF Turns!Among
<1> HIDE DEF B
<1>2. PICK t \in B : Turns!IsSmallest(t, B)
  BY <1>1, FiniteSmallest
<1>3. PICK i \in S : t = Ahead(i)
  BY DEF B
<1>4. ASSUME NEW j \in S \ {i}, <<i, j>> \notin R PROVE FALSE
  <2>1. <<j, i>> \in R
    BY <1>4
  <2>2. Ahead(j) \subseteq Ahead(i) /\ Ahead(j) \in B
    BY <2>1 DEF B
  <2>3. Ahead(j) = Ahead(i)
    BY <2>2, <1>2, <1>3 DEF Turns!IsSmallest
  <2> QED
    BY <2>1, <2>3
<1> QED
  BY <1>4

\* The fields of a request.
LEMMA RequestFields ==
    ASSUME NEW reqs \in Seq(Requests)
    PROVE  /\ Len(reqs) \in Nat /\ DOMAIN reqs = 1 .. Len(reqs)
           /\ \A i \in DOMAIN reqs :
                 /\ i \in Nat /\ reqs[i].name \in Nat
                 /\ reqs[i].size \in Nat /\ reqs[i].size > 0
                 /\ reqs[i].pin = Floating \/ reqs[i].pin \in Nat
<1>1. \A i \in DOMAIN reqs : reqs[i] \in Requests
  OBVIOUS
<1>2. ASSUME NEW w \in Requests
      PROVE  /\ w.name \in Nat /\ w.size \in Nat /\ w.size > 0
             /\ w.pin = Floating \/ w.pin \in Nat
  BY DEF Requests
<1> QED
  BY <1>1, <1>2

\* Of pins one comes first, and only one does.
LEMMA FirstPin ==
    ASSUME NEW reqs \in Seq(Requests), NEW S \in SUBSET Pinned(reqs), S # {}
    PROVE  /\ \E i \in S : \A j \in S \ {i} : PinBefore(reqs, i, j)
           /\ \A i, k \in S : (\A j \in S \ {i} : PinBefore(reqs, i, j))
                           /\ (\A j \in S \ {k} : PinBefore(reqs, k, j)) => i = k
<1>1. \A i \in S : i \in 1 .. Len(reqs) /\ reqs[i].pin \in Nat
  BY RequestFields DEF Pinned
<1>2. IsFiniteSet(S)
  <2>1. S \subseteq 1 .. Len(reqs) /\ 1 \in Int /\ Len(reqs) \in Int
    BY <1>1, RequestFields
  <2> QED
    BY <2>1, FS_Interval, FS_Subset
<1> DEFINE R == {q \in S \X S : PinBefore(reqs, q[1], q[2])}
<1>3. \A i, j \in S : <<i, j>> \in R <=> PinBefore(reqs, i, j)
  OBVIOUS
<1> HIDE DEF R
<1>4. /\ \A i, j, k \in S : PinBefore(reqs, i, j) /\ PinBefore(reqs, j, k) => PinBefore(reqs, i, k)
      /\ \A i, j \in S : i # j => PinBefore(reqs, i, j) \/ PinBefore(reqs, j, i)
      /\ \A i \in S : ~PinBefore(reqs, i, i)
  BY <1>1 DEF PinBefore
<1>5. \E i \in S : \A j \in S \ {i} : <<i, j>> \in R
  <2>1. \A i, j, k \in S : <<i, j>> \in R /\ <<j, k>> \in R => <<i, k>> \in R
    BY <1>3, <1>4
  <2>2. \A i, j \in S : i # j => <<i, j>> \in R \/ <<j, i>> \in R
    BY <1>3, <1>4
  <2>3. \A i \in S : <<i, i>> \notin R
    BY <1>3, <1>4
  <2> QED
    BY <1>2, <2>1, <2>2, <2>3, FirstExists
<1>6. \A i, k \in S : ~(PinBefore(reqs, i, k) /\ PinBefore(reqs, k, i))
  BY <1>4
<1> QED
  BY <1>3, <1>5, <1>6

Strategic == {"pack", "order"}

\* So it is of requests as the strategy sorts them.
LEMMA FirstFloat ==
    ASSUME NEW reqs \in Seq(Requests), NEW how \in Strategic,
           NEW S \in SUBSET DOMAIN reqs, S # {}
    PROVE  /\ \E i \in S : \A j \in S \ {i} : FloatBefore(how, reqs, i, j)
           /\ \A i, k \in S : (\A j \in S \ {i} : FloatBefore(how, reqs, i, j))
                           /\ (\A j \in S \ {k} : FloatBefore(how, reqs, k, j)) => i = k
<1>1. \A i \in S : i \in 1 .. Len(reqs) /\ reqs[i].size \in Nat /\ reqs[i].name \in Nat
  BY RequestFields
<1>2. IsFiniteSet(S)
  <2>1. S \subseteq 1 .. Len(reqs) /\ 1 \in Int /\ Len(reqs) \in Int
    BY <1>1, RequestFields
  <2> QED
    BY <2>1, FS_Interval, FS_Subset
<1> DEFINE R == {q \in S \X S : FloatBefore(how, reqs, q[1], q[2])}
<1>3. \A i, j \in S : <<i, j>> \in R <=> FloatBefore(how, reqs, i, j)
  OBVIOUS
<1> HIDE DEF R
<1>4. /\ \A i, j, k \in S : FloatBefore(how, reqs, i, j) /\ FloatBefore(how, reqs, j, k)
                            => FloatBefore(how, reqs, i, k)
      /\ \A i, j \in S : i # j => FloatBefore(how, reqs, i, j) \/ FloatBefore(how, reqs, j, i)
      /\ \A i \in S : ~FloatBefore(how, reqs, i, i)
  BY <1>1 DEF FloatBefore, LargerFirst, InOrder
<1>5. \E i \in S : \A j \in S \ {i} : <<i, j>> \in R
  <2>1. \A i, j, k \in S : <<i, j>> \in R /\ <<j, k>> \in R => <<i, k>> \in R
    BY <1>3, <1>4
  <2>2. \A i, j \in S : i # j => <<i, j>> \in R \/ <<j, i>> \in R
    BY <1>3, <1>4
  <2>3. \A i \in S : <<i, i>> \notin R
    BY <1>3, <1>4
  <2> QED
    BY <1>2, <2>1, <2>2, <2>3, FirstExists
<1>6. \A i, k \in S : ~(FloatBefore(how, reqs, i, k) /\ FloatBefore(how, reqs, k, i))
  BY <1>4
<1> QED
  BY <1>3, <1>5, <1>6
-----------------------------------------------------------------------------
(* One turn of allocate().                                                 *)

\* The pools allocate() goes through.
Pools == {p \in [ranges : SUBSET Ranges, strategy : Strategic, reqs : Seq(Requests),
                 free : SUBSET Ranges, addr : Seq(Nat \cup {Unplaced}),
                 error : {"none", "overflow", "overlap", "outside"}] :
             DOMAIN p.addr = DOMAIN p.reqs}

Settled(p) == DOMAIN p.reqs \ Waiting(p)

\* Before an error chunks and spans lie inside the ranges, all apart, and a pin
\* is where it asked to be.
InPlace(p) ==
    /\ NonEmpty(p.free) /\ Disjoint(p.free)
    /\ \A c \in p.free : \E r \in p.ranges : r.lo <= c.lo /\ c.hi <= r.hi
    /\ \A i \in Settled(p) :
          /\ p.addr[i] \in Nat
          /\ \E r \in p.ranges : Holds(r, p.addr[i], p.reqs[i].size)
          /\ p.reqs[i].pin # Floating => p.addr[i] = p.reqs[i].pin
          /\ \A c \in p.free : Apart(p.addr[i], p.reqs[i].size, c.lo, c.hi - c.lo + 1)
          /\ \A j \in Settled(p) : i # j => Apart(p.addr[i], p.reqs[i].size, p.addr[j], p.reqs[j].size)

\* Two pools in which the same is asked for.
SameTask(p, q) == q.ranges = p.ranges /\ q.strategy = p.strategy /\ q.reqs = p.reqs

LEMMA PoolFields ==
    ASSUME NEW p \in Pools
    PROVE  /\ p.ranges \in SUBSET Ranges /\ p.free \in SUBSET Ranges
           /\ p.strategy \in Strategic /\ p.reqs \in Seq(Requests)
           /\ p.addr \in Seq(Nat \cup {Unplaced}) /\ DOMAIN p.addr = DOMAIN p.reqs
           /\ p.error \in {"none", "overflow", "overlap", "outside"}
           /\ Len(p.reqs) \in Nat /\ DOMAIN p.reqs = 1 .. Len(p.reqs)
           /\ \A i \in DOMAIN p.reqs :
                 /\ p.reqs[i].size \in Nat /\ p.reqs[i].size > 0
                 /\ p.reqs[i].pin = Floating \/ p.reqs[i].pin \in Nat
                 /\ p.addr[i] \in Nat \cup {Unplaced}
           /\ IsFiniteSet(Waiting(p)) /\ Waiting(p) \subseteq DOMAIN p.reqs
<1>1. /\ p.ranges \in SUBSET Ranges /\ p.free \in SUBSET Ranges
      /\ p.strategy \in Strategic /\ p.reqs \in Seq(Requests)
      /\ p.addr \in Seq(Nat \cup {Unplaced}) /\ DOMAIN p.addr = DOMAIN p.reqs
      /\ p.error \in {"none", "overflow", "overlap", "outside"}
  BY DEF Pools
<1>2. /\ Len(p.reqs) \in Nat /\ DOMAIN p.reqs = 1 .. Len(p.reqs)
      /\ \A i \in DOMAIN p.reqs :
            /\ p.reqs[i].size \in Nat /\ p.reqs[i].size > 0
            /\ p.reqs[i].pin = Floating \/ p.reqs[i].pin \in Nat
  BY <1>1, RequestFields
<1>3. \A i \in DOMAIN p.reqs : p.addr[i] \in Nat \cup {Unplaced}
  BY <1>1
<1>4. IsFiniteSet(Waiting(p)) /\ Waiting(p) \subseteq DOMAIN p.reqs
  <2>1. Waiting(p) \subseteq 1 .. Len(p.reqs) /\ 1 \in Int /\ Len(p.reqs) \in Int
    BY <1>2 DEF Waiting
  <2> QED
    BY <2>1, <1>2, FS_Interval, FS_Subset
<1> QED
  BY <1>1, <1>2, <1>3, <1>4

\* An address given to a request.
Put(addr, i, a) == [addr EXCEPT ![i] = a]

\* What a turn of a loop makes of the fields.
LEMMA TakeFields ==
    ASSUME NEW p \in Pools, NEW i \in DOMAIN p.reqs, NEW c, NEW a \in Nat,
           NEW q, q = Take(p, i, c, a), Remainder(c, a, p.reqs[i].size) \in SUBSET Ranges
    PROVE  /\ q \in Pools /\ SameTask(p, q) /\ q.error = p.error
           /\ q.free = (p.free \ {c}) \cup Remainder(c, a, p.reqs[i].size)
           /\ q.addr = Put(p.addr, i, a)
           /\ Waiting(q) = Waiting(p) \ {i}
<1>1. p.free \in SUBSET Ranges /\ p.addr \in Seq(Nat \cup {Unplaced}) /\ DOMAIN p.addr = DOMAIN p.reqs
  BY PoolFields
<1>2. /\ q.free = (p.free \ {c}) \cup Remainder(c, a, p.reqs[i].size)
      /\ q.addr = Put(p.addr, i, a)
      /\ SameTask(p, q) /\ q.error = p.error
  BY DEF Take, Pools, SameTask, Put
<1>3. q.addr \in Seq(Nat \cup {Unplaced}) /\ DOMAIN q.addr = DOMAIN p.reqs
  BY <1>1, <1>2 DEF Put
<1>4. q \in Pools
  <2>1. q = [p EXCEPT !.free = q.free, !.addr = q.addr]
    BY <1>2 DEF Take, Pools, Put
  <2>2. q.free \in SUBSET Ranges
    BY <1>1, <1>2
  <2> QED
    BY <2>1, <2>2, <1>3 DEF Pools
<1>5. Waiting(q) = Waiting(p) \ {i}
  BY <1>1, <1>2 DEF Waiting, SameTask, Unplaced, Put
<1> QED
  BY <1>2, <1>4, <1>5

\* A request taken out of a chunk that holds it stays apart from all else.
LEMMA TakeInPlace ==
    ASSUME NEW p \in Pools, InPlace(p), NEW i \in Waiting(p), NEW c \in p.free, NEW a \in Nat,
           Holds(c, a, p.reqs[i].size), p.reqs[i].pin # Floating => a = p.reqs[i].pin,
           NEW q, q = Take(p, i, c, a)
    PROVE  /\ q \in Pools /\ SameTask(p, q) /\ q.error = p.error /\ InPlace(q)
           /\ Waiting(q) = Waiting(p) \ {i}
<1>1. /\ i \in DOMAIN p.reqs /\ p.free \in SUBSET Ranges /\ p.reqs[i].size \in Nat \ {0}
      /\ DOMAIN p.addr = DOMAIN p.reqs
      /\ \A j \in DOMAIN p.reqs : p.reqs[j].size \in Nat
  BY PoolFields
<1> DEFINE n == p.reqs[i].size
           G == (p.free \ {c}) \cup Remainder(c, a, n)
<1>2. /\ Remainder(c, a, n) \in SUBSET Ranges
      /\ NonEmpty(G) /\ Disjoint(G)
      /\ \A d \in G : \E e \in p.free : e.lo <= d.lo /\ d.hi <= e.hi
      /\ \A d \in G : Apart(a, n, d.lo, d.hi - d.lo + 1)
  <2>1. c \in Ranges /\ c.lo <= c.hi /\ NonEmpty(p.free) /\ Disjoint(p.free)
    BY <1>1 DEF InPlace, NonEmpty
  <2> HIDE DEF n
  <2>2. n \in Nat \ {0} /\ Holds(c, a, n)
    BY <1>1 DEF n
  <2>3. Remainder(c, a, n) \in SUBSET Ranges
    BY <2>1, <2>2, RemainderFacts
  <2>4. G = (p.free \ {c}) \cup Remainder(c, a, n) /\ p.free \in SUBSET Ranges
    BY <1>1
  <2> HIDE DEF G
  <2> QED
    BY <2>1, <2>2, <2>3, <2>4, ShrinkFacts
<1>3. /\ q \in Pools /\ SameTask(p, q) /\ q.error = p.error
      /\ q.free = (p.free \ {c}) \cup Remainder(c, a, n)
      /\ q.addr = Put(p.addr, i, a)
      /\ Waiting(q) = Waiting(p) \ {i}
  BY <1>1, <1>2, TakeFields
<1>4. /\ NonEmpty(q.free) /\ Disjoint(q.free) /\ q.free \in SUBSET Ranges
      /\ \A d \in q.free : \E e \in p.free : e.lo <= d.lo /\ d.hi <= e.hi
      /\ \A d \in q.free : Apart(a, n, d.lo, d.hi - d.lo + 1)
  BY <1>2, <1>3, <1>1
<1>5. q.reqs = p.reqs /\ q.ranges = p.ranges
  BY <1>3 DEF SameTask
<1>6. /\ Settled(q) = Settled(p) \cup {i} /\ i \notin Settled(p)
      /\ q.addr[i] = a /\ \A j \in Settled(p) : q.addr[j] = p.addr[j]
  BY <1>1, <1>3, <1>5 DEF Settled, Put
<1> HIDE DEF n
<1>7. n = p.reqs[i].size /\ n \in Nat /\ n > 0
  BY <1>1 DEF n
<1>a. \A d \in p.free \cup q.free \cup p.ranges : d.lo \in Nat /\ d.hi \in Nat
  BY <1>1, <1>4, PoolFields DEF Ranges
<1>b. /\ \A j \in Settled(p) : /\ p.addr[j] \in Nat /\ j \in DOMAIN p.reqs
                               /\ \A e \in p.free : Apart(p.addr[j], p.reqs[j].size, e.lo, e.hi - e.lo + 1)
      /\ \A d \in p.free \cup q.free : d.lo <= d.hi
      /\ c.lo <= a /\ a + n - 1 <= c.hi
  BY <1>4, <1>7 DEF InPlace, Settled, NonEmpty, Holds
<1>8. \A d \in q.free : \E r \in q.ranges : r.lo <= d.lo /\ d.hi <= r.hi
  <2> SUFFICES ASSUME NEW d \in q.free PROVE \E r \in q.ranges : r.lo <= d.lo /\ d.hi <= r.hi
    OBVIOUS
  <2>1. PICK e \in p.free : e.lo <= d.lo /\ d.hi <= e.hi
    BY <1>4
  <2>2. PICK r \in p.ranges : r.lo <= e.lo /\ e.hi <= r.hi
    BY DEF InPlace
  <2> QED
    BY <2>1, <2>2, <1>5, <1>a
<1>9. \E r \in q.ranges : Holds(r, a, n)
  <2>1. PICK r \in p.ranges : r.lo <= c.lo /\ c.hi <= r.hi
    BY DEF InPlace
  <2> QED
    BY <2>1, <1>5, <1>7, <1>a, <1>b DEF Holds
<1>10. \A j \in Settled(p) : \A d \in q.free : Apart(p.addr[j], p.reqs[j].size, d.lo, d.hi - d.lo + 1)
  <2> SUFFICES ASSUME NEW j \in Settled(p), NEW d \in q.free
               PROVE  Apart(p.addr[j], p.reqs[j].size, d.lo, d.hi - d.lo + 1)
    OBVIOUS
  <2>1. PICK e \in p.free : e.lo <= d.lo /\ d.hi <= e.hi
    BY <1>4
  <2>2. Apart(p.addr[j], p.reqs[j].size, e.lo, e.hi - e.lo + 1)
    BY <1>b
  <2> QED
    BY <2>1, <2>2, <1>1, <1>a, <1>b DEF Apart
<1>11. \A j \in Settled(p) : /\ Apart(p.addr[j], p.reqs[j].size, a, n)
                             /\ Apart(a, n, p.addr[j], p.reqs[j].size)
  BY <1>1, <1>7, <1>a, <1>b DEF Apart
<1>12. \A j \in Settled(q) :
          /\ q.addr[j] \in Nat
          /\ \E r \in q.ranges : Holds(r, q.addr[j], q.reqs[j].size)
          /\ q.reqs[j].pin # Floating => q.addr[j] = q.reqs[j].pin
          /\ \A d \in q.free : Apart(q.addr[j], q.reqs[j].size, d.lo, d.hi - d.lo + 1)
          /\ \A k \in Settled(q) : j # k => Apart(q.addr[j], q.reqs[j].size, q.addr[k], q.reqs[k].size)
  <2> SUFFICES ASSUME NEW j \in Settled(q)
               PROVE  /\ q.addr[j] \in Nat
                      /\ \E r \in q.ranges : Holds(r, q.addr[j], q.reqs[j].size)
                      /\ q.reqs[j].pin # Floating => q.addr[j] = q.reqs[j].pin
                      /\ \A d \in q.free : Apart(q.addr[j], q.reqs[j].size, d.lo, d.hi - d.lo + 1)
                      /\ \A k \in Settled(q) : j # k =>
                            Apart(q.addr[j], q.reqs[j].size, q.addr[k], q.reqs[k].size)
    OBVIOUS
  <2>1. CASE j = i
    BY <2>1, <1>4, <1>5, <1>6, <1>7, <1>9, <1>11
  <2>2. CASE j # i
    <3>1. j \in Settled(p)
      BY <2>2, <1>6
    <3>2. /\ \E r \in p.ranges : Holds(r, p.addr[j], p.reqs[j].size)
          /\ p.reqs[j].pin # Floating => p.addr[j] = p.reqs[j].pin
          /\ \A k \in Settled(p) : j # k => Apart(p.addr[j], p.reqs[j].size, p.addr[k], p.reqs[k].size)
      BY <3>1 DEF InPlace
    <3> QED
      BY <3>1, <3>2, <1>5, <1>6, <1>7, <1>10, <1>11, <1>b
  <2> QED
    BY <2>1, <2>2
<1>13. InPlace(q)
  BY <1>4, <1>8, <1>12 DEF InPlace
<1> QED
  BY <1>3, <1>13
\* The pins that wait, the chunks that hold a pin or have room for a request, and
\* the chunk that is first.
Pins(p) == Waiting(p) \cap Pinned(p.reqs)
Holding(p, w) == {d \in p.free : Holds(d, w.pin, w.size)}
Fitting(p, w) == {d \in p.free : Fits(d, w.size)}
FirstOf(S) == CHOOSE c \in S : IsFirst(c, S)

\* The request served next, and that no other is.
LEMMA ServedFacts ==
    ASSUME NEW p \in Pools, Waiting(p) # {}
    PROVE  /\ Served(p) \in Waiting(p)
           /\ Pins(p) # {} =>
                 /\ Served(p) \in Pins(p)
                 /\ \A j \in Pins(p) \ {Served(p)} : PinBefore(p.reqs, Served(p), j)
                 /\ \A i \in Pins(p) :
                       (\A j \in Pins(p) \ {i} : PinBefore(p.reqs, i, j)) => i = Served(p)
           /\ Pins(p) = {} =>
                 /\ Served(p) \notin Pinned(p.reqs)
                 /\ \A j \in Waiting(p) \ {Served(p)} : FloatBefore(p.strategy, p.reqs, Served(p), j)
                 /\ \A i \in Waiting(p) :
                       (\A j \in Waiting(p) \ {i} : FloatBefore(p.strategy, p.reqs, i, j))
                       => i = Served(p)
<1>1. /\ p.reqs \in Seq(Requests) /\ p.strategy \in Strategic
      /\ Waiting(p) \in SUBSET DOMAIN p.reqs /\ Pins(p) \in SUBSET Pinned(p.reqs)
      /\ Pins(p) \subseteq Waiting(p)
  BY PoolFields DEF Pins
<1>2. CASE Pins(p) # {}
  <2>1. Served(p) = CHOOSE i \in Pins(p) : \A j \in Pins(p) \ {i} : PinBefore(p.reqs, i, j)
    BY <1>2 DEF Served, Pins
  <2>2. /\ \E i \in Pins(p) : \A j \in Pins(p) \ {i} : PinBefore(p.reqs, i, j)
        /\ \A i, k \in Pins(p) : (\A j \in Pins(p) \ {i} : PinBefore(p.reqs, i, j))
                           /\ (\A j \in Pins(p) \ {k} : PinBefore(p.reqs, k, j)) => i = k
    BY <1>1, <1>2, FirstPin
  <2>3. Served(p) \in Pins(p) /\ \A j \in Pins(p) \ {Served(p)} : PinBefore(p.reqs, Served(p), j)
    BY <2>1, <2>2
  <2> QED
    BY <1>1, <1>2, <2>2, <2>3
<1>3. CASE Pins(p) = {}
  <2>1. Served(p) = CHOOSE i \in Waiting(p) :
                       \A j \in Waiting(p) \ {i} : FloatBefore(p.strategy, p.reqs, i, j)
    BY <1>3 DEF Served, Pins
  <2>2. /\ \E i \in Waiting(p) : \A j \in Waiting(p) \ {i} : FloatBefore(p.strategy, p.reqs, i, j)
        /\ \A i, k \in Waiting(p) :
              (\A j \in Waiting(p) \ {i} : FloatBefore(p.strategy, p.reqs, i, j))
              /\ (\A j \in Waiting(p) \ {k} : FloatBefore(p.strategy, p.reqs, k, j)) => i = k
    BY <1>1, FirstFloat
  <2>3. /\ Served(p) \in Waiting(p)
        /\ \A j \in Waiting(p) \ {Served(p)} : FloatBefore(p.strategy, p.reqs, Served(p), j)
    BY <2>1, <2>2
  <2> QED
    BY <1>3, <2>2, <2>3 DEF Pins
<1> QED
  BY <1>2, <1>3

\* Of the chunks that qualify there is a first, and one only.
LEMMA FirstChunk ==
    ASSUME NEW F \in SUBSET Ranges, NonEmpty(F), Disjoint(F), NEW S \in SUBSET F, S # {}
    PROVE  /\ FirstOf(S) \in S /\ IsFirst(FirstOf(S), S)
           /\ \A c : IsFirst(c, S) => c = FirstOf(S)
<1>1. \A c \in S : c.lo \in Nat /\ c.hi \in Nat /\ c.lo <= c.hi
  BY DEF Ranges, NonEmpty
<1> DEFINE B == {c.lo : c \in S}
<1>2. B \in SUBSET Nat /\ B # {}
  BY <1>1
<1>3. PICK m \in B : \A k \in B : m <= k
  <2> HIDE DEF B
  <2> QED
    BY <1>2, Turns!LeastNumber
<1>4. PICK c \in S : c.lo = m
  OBVIOUS
<1>5. IsFirst(c, S)
  BY <1>3, <1>4 DEF IsFirst
<1>6. FirstOf(S) \in S /\ IsFirst(FirstOf(S), S)
  BY <1>5 DEF FirstOf
<1>7. \A d, e \in S : IsFirst(d, S) /\ IsFirst(e, S) => d = e
  BY <1>1 DEF IsFirst, Disjoint, Overlaps
<1> QED
  BY <1>6, <1>7 DEF IsFirst

\* The error of a pin that no chunk holds.
Blame(p, w) == IF \E r \in p.ranges : Holds(r, w.pin, w.size) THEN "overlap" ELSE "outside"

Refused(p, i, w) == [p EXCEPT !.addr[i] = w.pin, !.error = Blame(p, w)]
Overflown(p) == [p EXCEPT !.error = "overflow"]

\* A turn of the first loop.
LEMMA PinTurn ==
    ASSUME NEW p \in Pools, InPlace(p), NEW w, NEW i \in Pinned(p.reqs), w = p.reqs[i]
    PROVE  /\ Holding(p, w) = {} => PinStep(p, i) = Refused(p, i, w)
           /\ Holding(p, w) # {} =>
                 /\ FirstOf(Holding(p, w)) \in Holding(p, w)
                 /\ IsFirst(FirstOf(Holding(p, w)), Holding(p, w))
                 /\ PinStep(p, i) = Take(p, i, FirstOf(Holding(p, w)), w.pin)
<1> DEFINE hold == Holding(p, w)
<1>1. p.free \in SUBSET Ranges /\ NonEmpty(p.free) /\ Disjoint(p.free) /\ hold \in SUBSET p.free
  BY PoolFields DEF InPlace, Holding
<1>2. CASE hold = {}
  BY <1>2 DEF PinStep, Blame, Holding, Refused
<1>3. CASE hold # {}
  <2>1. PinStep(p, i) = Take(p, i, FirstOf(hold), w.pin)
    BY <1>3 DEF PinStep, Holding, FirstOf
  <2>2. FirstOf(hold) \in hold /\ IsFirst(FirstOf(hold), hold)
    BY <1>1, <1>3, FirstChunk
  <2> QED
    BY <1>3, <2>1, <2>2
<1> QED
  BY <1>2, <1>3

\* A turn of the second loop.
LEMMA FloatTurn ==
    ASSUME NEW p \in Pools, InPlace(p), NEW w, NEW i, w = p.reqs[i]
    PROVE  /\ Fitting(p, w) = {} => FloatStep(p, i) = Overflown(p)
           /\ Fitting(p, w) # {} =>
                 /\ FirstOf(Fitting(p, w)) \in Fitting(p, w)
                 /\ IsFirst(FirstOf(Fitting(p, w)), Fitting(p, w))
                 /\ FloatStep(p, i) = Take(p, i, FirstOf(Fitting(p, w)), FirstOf(Fitting(p, w)).lo)
<1> DEFINE fit == Fitting(p, w)
<1>1. p.free \in SUBSET Ranges /\ NonEmpty(p.free) /\ Disjoint(p.free) /\ fit \in SUBSET p.free
  BY PoolFields DEF InPlace, Fitting
<1>2. CASE fit = {}
  BY <1>2 DEF FloatStep, Fitting, Overflown
<1>3. CASE fit # {}
  <2>1. FloatStep(p, i) = Take(p, i, FirstOf(fit), FirstOf(fit).lo)
    BY <1>3 DEF FloatStep, Fitting, FirstOf
  <2>2. FirstOf(fit) \in fit /\ IsFirst(FirstOf(fit), fit)
    BY <1>1, <1>3, FirstChunk
  <2> QED
    BY <1>3, <2>1, <2>2
<1> QED
  BY <1>2, <1>3

\* A turn that succeeds settles one request more; all asked for stays as it was.
LEMMA TurnInPlace ==
    ASSUME NEW p \in Pools, InPlace(p), p.error = "none", Waiting(p) # {}, NEW n,
           NEW q, q = Turn(p, n)
    PROVE  /\ q \in Pools /\ SameTask(p, q)
           /\ q.error = "none" => InPlace(q) /\ Waiting(q) = Waiting(p) \ {Served(p)}
<1> DEFINE i == Served(p)
           w == p.reqs[i]
<1>1. i \in Waiting(p) /\ i \in DOMAIN p.reqs
  BY ServedFacts, PoolFields
<1>2. /\ w.size \in Nat /\ w.size > 0
      /\ w.pin = Floating \/ w.pin \in Nat
      /\ p.free \in SUBSET Ranges /\ NonEmpty(p.free)
      /\ p.addr \in Seq(Nat \cup {Unplaced}) /\ DOMAIN p.addr = DOMAIN p.reqs
  BY <1>1, PoolFields DEF InPlace
<1> HIDE DEF i
<1>3. ASSUME NEW c \in p.free, NEW a \in Nat, Holds(c, a, w.size),
             w.pin # Floating => a = w.pin, q = Take(p, i, c, a)
      PROVE  /\ q \in Pools /\ SameTask(p, q)
             /\ InPlace(q) /\ Waiting(q) = Waiting(p) \ {i}
  BY <1>1, <1>3, TakeInPlace
<1>4. ASSUME NEW e \in {"overflow", "overlap", "outside"}, NEW a \in Nat,
             q = [p EXCEPT !.addr[i] = a, !.error = e] \/ q = [p EXCEPT !.error = e]
      PROVE  q \in Pools /\ SameTask(p, q) /\ q.error # "none"
  <2>1. [p.addr EXCEPT ![i] = a] \in Seq(Nat \cup {Unplaced}) /\ DOMAIN [p.addr EXCEPT ![i] = a] = DOMAIN p.reqs
    BY <1>1, <1>2
  <2> QED
    BY <1>4, <2>1 DEF Pools, SameTask
<1>5. CASE i \in Pinned(p.reqs)
  <2> DEFINE hold == Holding(p, w)
  <2>1. q = PinStep(p, i) /\ w.pin \in Nat
    BY <1>2, <1>5 DEF Turn, i, Pinned
  <2>2. /\ hold = {} => PinStep(p, i) = Refused(p, i, w)
        /\ hold # {} => /\ FirstOf(hold) \in hold
                       /\ PinStep(p, i) = Take(p, i, FirstOf(hold), w.pin)
    BY <1>5, PinTurn
  <2>3. CASE hold = {}
    <3>1. Blame(p, w) \in {"overflow", "overlap", "outside"}
      BY DEF Blame
    <3>2. q = [p EXCEPT !.addr[i] = w.pin, !.error = Blame(p, w)]
      BY <2>1, <2>2, <2>3 DEF Refused
    <3> HIDE DEF w, hold
    <3> QED
      BY <2>1, <3>1, <3>2, <1>4
  <2>4. CASE hold # {}
    <3> DEFINE c == FirstOf(hold)
    <3>2. c \in p.free /\ Holds(c, w.pin, w.size) /\ q = Take(p, i, c, w.pin)
      BY <2>1, <2>2, <2>4 DEF Holding
    <3> HIDE DEF w, hold, c
    <3> QED
      BY <2>1, <3>2, <1>3 DEF i
  <2> QED
    BY <2>3, <2>4
<1>6. CASE i \notin Pinned(p.reqs)
  <2> DEFINE fit == Fitting(p, w)
  <2>1. q = FloatStep(p, i) /\ w.pin = Floating
    BY <1>1, <1>6 DEF Turn, i, Pinned
  <2>2. /\ fit = {} => FloatStep(p, i) = Overflown(p)
        /\ fit # {} => /\ FirstOf(fit) \in fit
                      /\ FloatStep(p, i) = Take(p, i, FirstOf(fit), FirstOf(fit).lo)
    BY FloatTurn
  <2>3. CASE fit = {}
    <3>1. q = [p EXCEPT !.error = "overflow"] /\ 0 \in Nat
      BY <2>1, <2>2, <2>3 DEF Overflown
    <3> HIDE DEF w, fit
    <3> QED
      BY <3>1, <1>4
  <2>4. CASE fit # {}
    <3> DEFINE c == FirstOf(fit)
    <3>2. c \in p.free /\ Fits(c, w.size) /\ q = Take(p, i, c, c.lo)
      BY <2>1, <2>2, <2>4 DEF Fitting
    <3> HIDE DEF w, fit, c
    <3>3. c.lo \in Nat /\ c.hi \in Nat
      BY <3>2, <1>2 DEF Ranges
    <3>4. Holds(c, c.lo, w.size)
      BY <3>2, <3>3, <1>2 DEF Fits, Size, Holds
    <3> QED
      BY <2>1, <3>2, <3>3, <3>4, <1>3 DEF i
  <2> QED
    BY <2>3, <2>4
<1> QED
  BY <1>5, <1>6
-----------------------------------------------------------------------------
(* What allocate() leaves when it raises nothing.                          *)

\* All requests wait.
LEMMA StartInPlace ==
    ASSUME NEW where \in SUBSET Ranges, NonEmpty(where), Disjoint(where),
           NEW how \in Strategic, NEW reqs \in Seq(Requests),
           NEW p, p = Unallocated(where, how, reqs)
    PROVE  /\ p \in Pools /\ p.error = "none" /\ InPlace(p)
           /\ p.ranges = where /\ p.strategy = how /\ p.reqs = reqs
           /\ Waiting(p) = DOMAIN reqs
<1>1. /\ Len(reqs) \in Nat /\ DOMAIN reqs = 1 .. Len(reqs)
  BY RequestFields
<1>2. /\ p.ranges = where /\ p.strategy = how /\ p.reqs = reqs /\ p.free = where
      /\ p.addr = [i \in DOMAIN reqs |-> Unplaced] /\ p.error = "none"
  BY DEF Unallocated
<1>3. p.addr \in Seq(Nat \cup {Unplaced}) /\ DOMAIN p.addr = DOMAIN reqs
  <2>1. p.addr = [i \in 1 .. Len(reqs) |-> Unplaced]
    BY <1>1, <1>2
  <2>2. p.addr \in Seq(Nat \cup {Unplaced})
    BY <1>1, <2>1
  <2> QED
    BY <1>2, <2>2
<1>4. p \in Pools
  BY <1>2, <1>3 DEF Pools, Unallocated
<1>5. Waiting(p) = DOMAIN reqs /\ Settled(p) = {}
  BY <1>2 DEF Waiting, Settled
<1>6. \A c \in where : c.lo <= c.lo /\ c.hi <= c.hi
  BY DEF Ranges
<1>7. InPlace(p)
  BY <1>2, <1>5, <1>6 DEF InPlace
<1> QED
  BY <1>2, <1>4, <1>5, <1>7

\* Up to the first error every turn settles one request.
LEMMA RunInPlace ==
    ASSUME NEW where \in SUBSET Ranges, NonEmpty(where), Disjoint(where),
           NEW how \in Strategic, NEW reqs \in Seq(Requests),
           NEW run, Turns!IsRun(Unallocated(where, how, reqs), reqs, run),
           NEW k \in 0 .. Len(reqs)
    PROVE  /\ run[k] \in Pools
           /\ run[k].ranges = where /\ run[k].strategy = how /\ run[k].reqs = reqs
           /\ run[k].error = "none" => /\ InPlace(run[k])
                                       /\ Cardinality(Waiting(run[k])) = Len(reqs) - k
<1> DEFINE Good(j) == /\ run[j] \in Pools
                      /\ run[j].ranges = where /\ run[j].strategy = how /\ run[j].reqs = reqs
                      /\ run[j].error = "none" => /\ InPlace(run[j])
                                                  /\ Cardinality(Waiting(run[j])) = Len(reqs) - j
           Done == {j \in 0 .. Len(reqs) : Good(j)}
<1>1. Len(reqs) \in Nat /\ DOMAIN reqs = 1 .. Len(reqs)
  BY RequestFields
<1>2. /\ run[0] = Unallocated(where, how, reqs)
      /\ \A j \in 1 .. Len(reqs) : run[j] = Turn(run[j - 1], reqs[j])
  BY DEF Turns!IsRun
<1>3. 0 \in Done
  <2>1. /\ run[0] \in Pools /\ run[0].error = "none" /\ InPlace(run[0])
        /\ run[0].ranges = where /\ run[0].strategy = how /\ run[0].reqs = reqs
        /\ Waiting(run[0]) = 1 .. Len(reqs)
    BY <1>1, <1>2, StartInPlace
  <2>2. Cardinality(1 .. Len(reqs)) = Len(reqs)
    <3>1. 1 \in Int /\ Len(reqs) \in Int
      BY <1>1
    <3>2. Cardinality(1 .. Len(reqs)) = IF 1 > Len(reqs) THEN 0 ELSE Len(reqs) - 1 + 1
      BY <3>1, FS_Interval
    <3> QED
      BY <1>1, <3>2
  <2> QED
    BY <1>1, <2>1, <2>2
<1>4. ASSUME NEW j \in 1 .. Len(reqs), j - 1 \in Done PROVE j \in Done
  <2> DEFINE p == run[j - 1]
             q == run[j]
  <2>1. /\ p \in Pools /\ q = Turn(p, reqs[j])
        /\ p.ranges = where /\ p.strategy = how /\ p.reqs = reqs
        /\ p.error = "none" => InPlace(p) /\ Cardinality(Waiting(p)) = Len(reqs) - (j - 1)
    BY <1>2, <1>4
  <2> HIDE DEF p, q
  <2>2. CASE p.error # "none"
    <3>1. q = p
      BY <2>1, <2>2 DEF Turn
    <3> QED
      BY <2>1, <2>2, <3>1 DEF q
  <2>3. CASE p.error = "none"
    <3>1. IsFiniteSet(Waiting(p)) /\ Waiting(p) # {}
      BY <1>1, <2>1, <2>3, PoolFields, FS_EmptySet
    <3>2. /\ q \in Pools /\ SameTask(p, q)
          /\ q.error = "none" => InPlace(q) /\ Waiting(q) = Waiting(p) \ {Served(p)}
      BY <2>1, <2>3, <3>1, TurnInPlace
    <3>3. Served(p) \in Waiting(p)
      BY <2>1, <3>1, ServedFacts
    <3>4. Cardinality(Waiting(p) \ {Served(p)}) = Cardinality(Waiting(p)) - 1
      BY <3>1, <3>3, FS_RemoveElement
    <3>5. q.error = "none" => InPlace(q) /\ Cardinality(Waiting(q)) = Len(reqs) - j
      <4>1. Cardinality(Waiting(p)) - 1 = Len(reqs) - j
        BY <1>1, <2>1, <2>3
      <4> QED
        BY <3>2, <3>4, <4>1
    <3> QED
      BY <2>1, <3>2, <3>5 DEF SameTask, q
  <2> QED
    BY <2>2, <2>3
<1> HIDE DEF Good
<1>5. \A j \in 1 .. k : j - 1 \in Done => j \in Done
  BY <1>4, <1>1
<1>6. k \in Done
  <2> HIDE DEF Done
  <2> QED
    BY <1>3, <1>5, <1>1, Turns!UpFromZero
<1> QED
  BY <1>6 DEF Good

\* What allocate() places lies in the ranges, all apart, each pin where it
\* asked to be.
LEMMA LayoutInPlace ==
    ASSUME NEW where \in SUBSET Ranges, NonEmpty(where), Disjoint(where),
           NEW how \in Strategic, NEW reqs \in Seq(Requests),
           NEW p, p = Layout(where, how, reqs), p.error = "none"
    PROVE  /\ p \in Pools /\ InPlace(p)
           /\ p.ranges = where /\ p.reqs = reqs
           /\ Settled(p) = DOMAIN reqs
<1>1. Len(reqs) \in Nat
  BY RequestFields
<1>2. p = Turns!Left(Unallocated(where, how, reqs), reqs)
  BY DEF Layout, Turns!Left, Fold, Turns!Fold, Strictly, Turns!Strictly
<1>3. PICK run : /\ Turns!IsRun(Unallocated(where, how, reqs), reqs, run)
                 /\ p = run[Len(reqs)]
  BY <1>1, <1>2, Turns!FoldIsRun
<1>4. Len(reqs) \in 0 .. Len(reqs)
  BY <1>1
<1>5. /\ p \in Pools /\ InPlace(p) /\ p.ranges = where /\ p.reqs = reqs
      /\ Cardinality(Waiting(p)) = 0
  BY <1>1, <1>3, <1>4, RunInPlace
<1>6. IsFiniteSet(Waiting(p)) /\ Waiting(p) = {}
  BY <1>5, PoolFields, FS_EmptySet
<1> QED
  BY <1>5, <1>6 DEF Settled
-----------------------------------------------------------------------------
(* The order in which requests are made.                                   *)

\* No two requests have one name, and no two pins one address.
NoTies(reqs) ==
    \A i, j \in DOMAIN reqs : i # j =>
        /\ reqs[i].name # reqs[j].name
        /\ ~(reqs[i].pin # Floating /\ reqs[j].pin = reqs[i].pin)

\* q is p with its requests in another order: the i-th of q is the by[i]-th of p.
Shuffled(p, q, by) ==
    /\ q.ranges = p.ranges /\ q.strategy = p.strategy
    /\ q.free = p.free /\ q.error = p.error
    /\ DOMAIN q.reqs = DOMAIN p.reqs
    /\ \A i \in DOMAIN p.reqs : q.reqs[i] = p.reqs[by[i]] /\ q.addr[i] = p.addr[by[i]]

Permutes(by, D) ==
    /\ by \in [D -> D]
    /\ \A i, j \in D : i # j => by[i] # by[j]
    /\ \A k \in D : \E i \in D : by[i] = k

\* The same request is served next.
LEMMA ShuffledServed ==
    ASSUME NEW p \in Pools, NEW q \in Pools, NEW by, Permutes(by, DOMAIN p.reqs),
           Shuffled(p, q, by), p.strategy = "pack", NoTies(p.reqs), Waiting(p) # {}
    PROVE  /\ Served(p) \in DOMAIN p.reqs
           /\ Served(q) \in DOMAIN p.reqs
           /\ by[Served(q)] = Served(p)
<1> DEFINE D == DOMAIN p.reqs
<1>1. /\ by \in [D -> D] /\ \A i, j \in D : i # j => by[i] # by[j]
      /\ \A k \in D : \E i \in D : by[i] = k
      /\ Waiting(p) \subseteq D /\ Waiting(q) \subseteq D
      /\ DOMAIN q.reqs = D
      /\ \A i \in D : q.reqs[i] = p.reqs[by[i]] /\ q.addr[i] = p.addr[by[i]]
      /\ q.strategy = "pack"
  BY PoolFields DEF Permutes, Shuffled
<1>2. /\ \A i \in D : i \in Waiting(q) <=> by[i] \in Waiting(p)
      /\ \A i \in D : i \in Pins(q) <=> by[i] \in Pins(p)
  BY <1>1 DEF Waiting, Pins, Pinned
<1>3. \A i \in D : p.reqs[i].size \in Nat /\ p.reqs[i].name \in Nat
  BY PoolFields, RequestFields
<1>4. /\ Served(p) \in Waiting(p)
      /\ Pins(p) # {} =>
            /\ Served(p) \in Pins(p)
            /\ \A j \in Pins(p) \ {Served(p)} : PinBefore(p.reqs, Served(p), j)
      /\ Pins(p) = {} =>
            \A j \in Waiting(p) \ {Served(p)} : FloatBefore(p.strategy, p.reqs, Served(p), j)
  BY ServedFacts
<1>5. PICK i \in D : by[i] = Served(p)
  BY <1>1, <1>4
<1>6. i \in Waiting(q) /\ Waiting(q) # {}
  BY <1>2, <1>4, <1>5
<1>7. /\ Served(q) \in Waiting(q)
      /\ i \in Pins(q) /\ (\A j \in Pins(q) \ {i} : PinBefore(q.reqs, i, j))
            => i = Served(q)
      /\ Pins(q) = {} /\ (\A j \in Waiting(q) \ {i} : FloatBefore(q.strategy, q.reqs, i, j))
            => i = Served(q)
  BY <1>6, ServedFacts
<1>8. CASE Pins(p) # {}
  <2>1. i \in Pins(q)
    BY <1>2, <1>4, <1>5, <1>8
  <2>2. ASSUME NEW j \in Pins(q) \ {i} PROVE PinBefore(q.reqs, i, j)
    <3>1. j \in D /\ by[j] \in Pins(p) /\ by[j] # by[i]
      BY <1>1, <1>2 DEF Pins
    <3>2. PinBefore(p.reqs, by[i], by[j])
      BY <1>4, <1>5, <1>8, <3>1
    <3>3. p.reqs[by[i]].pin < p.reqs[by[j]].pin
      BY <1>1, <1>4, <1>5, <1>8, <3>1, <3>2 DEF PinBefore, NoTies, Pins, Pinned
    <3> QED
      BY <1>1, <3>1, <3>3 DEF PinBefore
  <2> QED
    BY <1>1, <1>5, <1>7, <2>1, <2>2
<1>9. CASE Pins(p) = {}
  <2>1. Pins(q) = {}
    BY <1>1, <1>2, <1>9 DEF Pins
  <2>2. ASSUME NEW j \in Waiting(q) \ {i} PROVE FloatBefore(q.strategy, q.reqs, i, j)
    <3>1. j \in D /\ by[j] \in Waiting(p) /\ by[j] # by[i]
      BY <1>1, <1>2
    <3>2. LargerFirst(p.reqs, by[i], by[j])
      BY <1>4, <1>5, <1>9, <3>1 DEF FloatBefore
    <3>3. p.reqs[by[i]].name # p.reqs[by[j]].name
      BY <1>1, <3>1 DEF NoTies
    <3>4. LargerFirst(q.reqs, i, j)
      BY <1>1, <1>3, <3>1, <3>2, <3>3 DEF LargerFirst
    <3> QED
      BY <1>1, <3>4 DEF FloatBefore
  <2> QED
    BY <1>1, <1>5, <1>7, <2>1, <2>2
<1> QED
  BY <1>8, <1>9, <1>4, <1>1

\* It is given the same bytes, or refused for the same reason.
LEMMA ShuffledTurn ==
    ASSUME NEW p \in Pools, NEW q \in Pools, NEW by, Permutes(by, DOMAIN p.reqs),
           Shuffled(p, q, by), p.strategy = "pack", NoTies(p.reqs),
           p.error = "none" => InPlace(p) /\ InPlace(q) /\ Waiting(p) # {},
           NEW m, NEW n
    PROVE  Shuffled(Turn(p, m), Turn(q, n), by)
<1>1. q.error = p.error
  BY DEF Shuffled
<1>2. CASE p.error # "none"
  BY <1>1, <1>2 DEF Turn
<1>3. CASE p.error = "none"
  <2> DEFINE s == Served(p)
             i == Served(q)
             w == p.reqs[s]
  <2>1. s \in DOMAIN p.reqs /\ i \in DOMAIN p.reqs /\ by[i] = s
    BY <1>3, ShuffledServed
  <2>2. /\ q.ranges = p.ranges /\ q.free = p.free /\ q.error = "none" /\ q.strategy = p.strategy
        /\ DOMAIN q.reqs = DOMAIN p.reqs /\ q.reqs[i] = w
        /\ InPlace(p) /\ InPlace(q)
        /\ DOMAIN p.addr = DOMAIN p.reqs /\ DOMAIN q.addr = DOMAIN p.reqs
    BY <1>1, <1>3, <2>1, PoolFields DEF Shuffled
  <2>3. s \in Pinned(p.reqs) <=> i \in Pinned(q.reqs)
    BY <2>1, <2>2 DEF Pinned
  <2>4. /\ Turn(p, m) = IF s \in Pinned(p.reqs) THEN PinStep(p, s) ELSE FloatStep(p, s)
        /\ Turn(q, n) = IF i \in Pinned(q.reqs) THEN PinStep(q, i) ELSE FloatStep(q, i)
    BY <1>1, <1>3 DEF Turn
  <2> HIDE DEF s, i
  <2>5. ASSUME NEW a, NEW f, f[s] = a, \A k \in DOMAIN p.reqs \ {s} : f[k] = p.addr[k],
               NEW g, g[i] = a, \A k \in DOMAIN p.reqs \ {i} : g[k] = q.addr[k],
               NEW k \in DOMAIN p.reqs
        PROVE  g[k] = f[by[k]]
    <3>1. by[k] \in DOMAIN p.reqs /\ (by[k] = s <=> k = i)
      BY <2>1 DEF Permutes
    <3>2. q.addr[k] = p.addr[by[k]]
      BY DEF Shuffled
    <3> QED
      BY <2>1, <2>5, <3>1, <3>2
  <2>9. InPlace(p) /\ InPlace(q) /\ w = p.reqs[s] /\ w = q.reqs[i]
    BY <2>2
  <2>10. \A k \in DOMAIN p.reqs : q.reqs[k] = p.reqs[by[k]]
    BY DEF Shuffled
  <2>6. ASSUME NEW c, NEW a PROVE Shuffled(Take(p, s, c, a), Take(q, i, c, a), by)
    <3> DEFINE pp == Take(p, s, c, a)
               qq == Take(q, i, c, a)
    <3>1. /\ pp.ranges = p.ranges /\ pp.strategy = p.strategy /\ pp.error = p.error /\ pp.reqs = p.reqs
          /\ pp.free = (p.free \ {c}) \cup Remainder(c, a, w.size)
          /\ pp.addr[s] = a /\ \A k \in DOMAIN p.reqs \ {s} : pp.addr[k] = p.addr[k]
      BY <2>1, <2>2 DEF Take, Pools
    <3>2. /\ qq.ranges = q.ranges /\ qq.strategy = q.strategy /\ qq.error = q.error /\ qq.reqs = q.reqs
          /\ qq.free = (q.free \ {c}) \cup Remainder(c, a, q.reqs[i].size)
          /\ qq.addr[i] = a /\ \A k \in DOMAIN p.reqs \ {i} : qq.addr[k] = q.addr[k]
      BY <2>1, <2>2 DEF Take, Pools
    <3> HIDE DEF pp, qq, w
    <3>3. \A k \in DOMAIN p.reqs : qq.addr[k] = pp.addr[by[k]]
      BY <2>5, <3>1, <3>2
    <3>4. qq.free = pp.free /\ qq.error = pp.error
      BY <1>1, <2>2, <2>9, <3>1, <3>2
    <3>5. Shuffled(pp, qq, by)
      BY <2>2, <2>10, <3>1, <3>2, <3>3, <3>4 DEF Shuffled
    <3> QED
      BY <3>5 DEF pp, qq
  <2>7. CASE s \in Pinned(p.reqs)
    <3> DEFINE hold == Holding(p, w)
    <3>1. hold = Holding(p, w) /\ hold = Holding(q, w) /\ Blame(p, w) = Blame(q, w)
      BY <2>2 DEF Holding, Blame
    <3> HIDE DEF hold, w
    <3>2. /\ hold = {} => PinStep(p, s) = Refused(p, s, w)
          /\ hold # {} => PinStep(p, s) = Take(p, s, FirstOf(hold), w.pin)
      BY <2>7, <2>9, <3>1, PinTurn
    <3>3. /\ hold = {} => PinStep(q, i) = Refused(q, i, w)
          /\ hold # {} => PinStep(q, i) = Take(q, i, FirstOf(hold), w.pin)
      <4>1. i \in Pinned(q.reqs)
        BY <2>3, <2>7
      <4> QED
        BY <4>1, <2>9, <3>1, PinTurn
    <3>4. CASE hold # {}
      BY <2>3, <2>4, <2>6, <2>7, <3>2, <3>3, <3>4
    <3>5. CASE hold = {}
      <4> DEFINE pp == Turn(p, m)
                 qq == Turn(q, n)
      <4>1. pp = Refused(p, s, w) /\ qq = Refused(q, i, w)
        BY <2>3, <2>4, <2>7, <3>2, <3>3, <3>5
      <4> HIDE DEF pp, qq, w
      <4>2. /\ pp.ranges = p.ranges /\ pp.strategy = p.strategy /\ pp.reqs = p.reqs
            /\ pp.free = p.free /\ pp.error = Blame(p, w)
            /\ pp.addr[s] = w.pin /\ \A k \in DOMAIN p.reqs \ {s} : pp.addr[k] = p.addr[k]
        BY <2>1, <2>2, <4>1 DEF Pools, Refused
      <4>3. /\ qq.ranges = q.ranges /\ qq.strategy = q.strategy /\ qq.reqs = q.reqs
            /\ qq.free = q.free /\ qq.error = Blame(q, w)
            /\ qq.addr[i] = w.pin /\ \A k \in DOMAIN p.reqs \ {i} : qq.addr[k] = q.addr[k]
        BY <2>1, <2>2, <4>1 DEF Pools, Refused
      <4>4. \A k \in DOMAIN p.reqs : qq.addr[k] = pp.addr[by[k]]
        BY <2>5, <4>2, <4>3
      <4>5. Shuffled(pp, qq, by)
        BY <2>2, <2>10, <3>1, <4>2, <4>3, <4>4 DEF Shuffled
      <4> QED
        BY <4>5 DEF pp, qq
    <3> QED
      BY <3>4, <3>5
  <2>8. CASE s \notin Pinned(p.reqs)
    <3> DEFINE fit == Fitting(p, w)
    <3>1. fit = Fitting(p, w) /\ fit = Fitting(q, w)
      BY <2>2 DEF Fitting
    <3> HIDE DEF fit, w
    <3>2. /\ fit = {} => FloatStep(p, s) = Overflown(p)
          /\ fit # {} => FloatStep(p, s) = Take(p, s, FirstOf(fit), FirstOf(fit).lo)
      BY <2>9, <3>1, FloatTurn
    <3>3. /\ fit = {} => FloatStep(q, i) = Overflown(q)
          /\ fit # {} => FloatStep(q, i) = Take(q, i, FirstOf(fit), FirstOf(fit).lo)
      BY <2>9, <3>1, FloatTurn
    <3>4. CASE fit # {}
      BY <2>3, <2>4, <2>6, <2>8, <3>2, <3>3, <3>4
    <3>5. CASE fit = {}
      <4>1. Turn(p, m) = Overflown(p) /\ Turn(q, n) = Overflown(q)
        BY <2>3, <2>4, <2>8, <3>2, <3>3, <3>5
      <4> QED
        BY <4>1 DEF Pools, Shuffled, Overflown
    <3> QED
      BY <3>4, <3>5
  <2> QED
    BY <2>7, <2>8
<1> QED
  BY <1>2, <1>3
\* The requests in the order by puts them in.
Reorder(reqs, by) == [i \in DOMAIN reqs |-> reqs[by[i]]]

\* A pool, its requests in another order, starts out the same.
LEMMA ShuffledStart ==
    ASSUME NEW where \in SUBSET Ranges, NonEmpty(where), Disjoint(where),
           NEW reqs \in Seq(Requests), NEW by, Permutes(by, DOMAIN reqs),
           NEW other, other = Reorder(reqs, by)
    PROVE  /\ other \in Seq(Requests) /\ Len(other) = Len(reqs) /\ DOMAIN other = DOMAIN reqs
           /\ Shuffled(Unallocated(where, "pack", reqs), Unallocated(where, "pack", other), by)
<1>1. Len(reqs) \in Nat /\ DOMAIN reqs = 1 .. Len(reqs)
  BY RequestFields
<1>2. \A i \in DOMAIN reqs : by[i] \in DOMAIN reqs /\ reqs[by[i]] \in Requests
  BY DEF Permutes
<1>3. other = [i \in 1 .. Len(reqs) |-> reqs[by[i]]]
  BY <1>1 DEF Reorder
<1>4. other \in Seq(Requests) /\ Len(other) = Len(reqs)
  BY <1>1, <1>2, <1>3
<1>5. Shuffled(Unallocated(where, "pack", reqs), Unallocated(where, "pack", other), by)
  BY <1>2 DEF Shuffled, Unallocated, Reorder
<1> QED
  BY <1>4, <1>5

\* Requests that tie in nothing are placed alike, however they are ordered.
LEMMA LayoutShuffled ==
    ASSUME NEW where \in SUBSET Ranges, NonEmpty(where), Disjoint(where),
           NEW reqs \in Seq(Requests), NoTies(reqs), NEW by, Permutes(by, DOMAIN reqs),
           NEW other, other = Reorder(reqs, by)
    PROVE  Shuffled(Layout(where, "pack", reqs), Layout(where, "pack", other), by)
<1> DEFINE p == Unallocated(where, "pack", reqs)
           q == Unallocated(where, "pack", other)
<1>1. /\ Len(reqs) \in Nat /\ other \in Seq(Requests) /\ Len(other) = Len(reqs)
      /\ Shuffled(p, q, by)
  BY RequestFields, ShuffledStart
<1>2. Layout(where, "pack", reqs) = Turns!Left(p, reqs) /\ Layout(where, "pack", other) = Turns!Left(q, other)
  BY DEF Layout, Turns!Left, Fold, Turns!Fold, Strictly, Turns!Strictly
<1> HIDE DEF p, q
<1>3. PICK one : Turns!IsRun(p, reqs, one) /\ Turns!Left(p, reqs) = one[Len(reqs)]
  BY <1>1, Turns!FoldIsRun
<1>4. PICK two : Turns!IsRun(q, other, two) /\ Turns!Left(q, other) = two[Len(other)]
  BY <1>1, Turns!FoldIsRun
<1> DEFINE Same == {k \in 0 .. Len(reqs) : Shuffled(one[k], two[k], by)}
<1>5. 0 \in Same
  BY <1>1, <1>3, <1>4 DEF Turns!IsRun
<1>6. ASSUME NEW k \in 1 .. Len(reqs), k - 1 \in Same PROVE k \in Same
  <2>1. one[k] = Turn(one[k - 1], reqs[k]) /\ two[k] = Turn(two[k - 1], other[k])
    BY <1>1, <1>3, <1>4 DEF Turns!IsRun
  <2>2. k - 1 \in 0 .. Len(reqs) /\ "pack" \in Strategic
    BY <1>1 DEF Strategic
  <2>3. /\ one[k - 1] \in Pools /\ one[k - 1].strategy = "pack" /\ one[k - 1].reqs = reqs
        /\ one[k - 1].error = "none" => /\ InPlace(one[k - 1])
                                        /\ Cardinality(Waiting(one[k - 1])) = Len(reqs) - (k - 1)
    BY <1>3, <2>2, RunInPlace DEF p
  <2>4. /\ two[k - 1] \in Pools
        /\ two[k - 1].error = "none" => InPlace(two[k - 1])
    BY <1>1, <1>4, <2>2, RunInPlace DEF q
  <2> DEFINE a == one[k - 1]
             b == two[k - 1]
  <2>5. a.error = "none" => Waiting(a) # {}
    <3>1. a.error = "none" => Cardinality(Waiting(a)) # 0
      BY <1>1, <2>3
    <3> HIDE DEF a
    <3> QED
      BY <3>1, FS_EmptySet
  <2>6. Shuffled(a, b, by) /\ b.error = a.error
    BY <1>6 DEF Shuffled
  <2>7. Shuffled(Turn(a, reqs[k]), Turn(b, other[k]), by)
    <3>1. a \in Pools /\ b \in Pools /\ a.strategy = "pack" /\ NoTies(a.reqs) /\ Permutes(by, DOMAIN a.reqs)
      BY <2>3, <2>4
    <3>2. a.error = "none" => InPlace(a) /\ InPlace(b) /\ Waiting(a) # {}
      BY <2>3, <2>4, <2>5, <2>6
    <3> HIDE DEF a, b
    <3> QED
      BY <2>6, <3>1, <3>2, ShuffledTurn
  <2> QED
    BY <2>1, <2>7
<1> HIDE DEF Same
<1>7. Len(reqs) \in Same
  BY <1>1, <1>5, <1>6, Turns!UpFromZero
<1> QED
  BY <1>1, <1>2, <1>3, <1>4, <1>7 DEF Same

\* Of two requests pinned at one address one is refused.
LEMMA TiesRefused ==
    ASSUME NEW where \in SUBSET Ranges, NonEmpty(where), Disjoint(where),
           NEW how \in Strategic, NEW reqs \in Seq(Requests),
           NEW i \in Pinned(reqs), NEW j \in Pinned(reqs), i # j, reqs[i].pin = reqs[j].pin
    PROVE  Layout(where, how, reqs).error # "none"
<1> DEFINE p == Layout(where, how, reqs)
<1> SUFFICES ASSUME p.error = "none" PROVE FALSE
  OBVIOUS
<1>1. p \in Pools /\ InPlace(p) /\ p.reqs = reqs /\ Settled(p) = DOMAIN reqs
  <2>1. p = Layout(where, how, reqs)
    OBVIOUS
  <2> HIDE DEF p
  <2> QED
    BY <2>1, LayoutInPlace
<1> HIDE DEF p
<1>2. i \in DOMAIN reqs /\ j \in DOMAIN reqs /\ reqs[i].pin # Floating /\ reqs[j].pin # Floating
  BY DEF Pinned
<1>3. p.addr[i] = reqs[i].pin /\ p.addr[j] = reqs[i].pin /\ p.addr[i] \in Nat
      /\ Apart(p.addr[i], reqs[i].size, p.addr[j], reqs[j].size)
  BY <1>1, <1>2 DEF InPlace
<1>4. /\ reqs[i].size \in Nat /\ reqs[i].size > 0
      /\ reqs[j].size \in Nat /\ reqs[j].size > 0
  BY <1>2, RequestFields
<1> QED
  BY <1>3, <1>4 DEF Apart
\* An error ends allocate().
LEMMA ErrorStays ==
    ASSUME NEW base, NEW reqs, Len(reqs) \in Nat, NEW run, Turns!IsRun(base, reqs, run),
           NEW k \in 0 .. Len(reqs), run[k].error # "none"
    PROVE  run[Len(reqs)] = run[k]
<1> DEFINE Done == {m \in 0 .. Len(reqs) - k : run[k + m] = run[k]}
<1>1. 0 \in Done
  BY SMT
<1>2. ASSUME NEW m \in 1 .. Len(reqs) - k, m - 1 \in Done PROVE m \in Done
  <2>1. run[k + m] = Turn(run[k + m - 1], reqs[k + m])
    BY DEF Turns!IsRun
  <2>2. run[k + m - 1] = run[k]
    BY <1>2
  <2> QED
    BY <2>1, <2>2 DEF Turn
<1> HIDE DEF Done
<1>3. Len(reqs) - k \in Nat
  BY SMT
<1>4. Len(reqs) - k \in Done
  BY <1>1, <1>2, <1>3, Turns!UpFromZero
<1>5. run[k + (Len(reqs) - k)] = run[k]
  BY <1>4 DEF Done
<1> QED
  BY <1>5

-----------------------------------------------------------------------------
(* Following the fold turn by turn.                                        *)

\* Serving reqs from the ranges R the fold has come to p behind n of them.
Passes(R, how, reqs, p, n) ==
    \E run : Turns!IsRun(Unallocated(R, how, reqs), reqs, run) /\ run[n] = p

LEMMA PassesStart ==
    ASSUME NEW R, NEW how, NEW reqs, Len(reqs) \in Nat
    PROVE  Passes(R, how, reqs, Unallocated(R, how, reqs), 0)
<1> DEFINE base == Unallocated(R, how, reqs)
<1>1. PICK run : Turns!IsRun(base, reqs, run)
  <2> HIDE DEF base
  <2> QED
    BY Turns!FoldIsRun
<1> QED
  BY <1>1 DEF Passes, Turns!IsRun

LEMMA PassesTurn ==
    ASSUME NEW R, NEW how, NEW reqs, Len(reqs) \in Nat, NEW p, NEW n \in Nat, n < Len(reqs),
           Passes(R, how, reqs, p, n)
    PROVE  Passes(R, how, reqs, Turn(p, reqs[n + 1]), n + 1)
<1>1. PICK run : Turns!IsRun(Unallocated(R, how, reqs), reqs, run) /\ run[n] = p
  BY DEF Passes
<1>2. n + 1 \in 1 .. Len(reqs) /\ n + 1 - 1 = n
  BY SMT
<1>3. run[n + 1] = Turn(run[n], reqs[n + 1])
  BY <1>1, <1>2 DEF Turns!IsRun
<1> QED
  BY <1>1, <1>3 DEF Passes

\* Where every request has had its turn, or one was refused, the fold ends.
LEMMA PassesEnd ==
    ASSUME NEW R, NEW how, NEW reqs, Len(reqs) \in Nat, NEW p, NEW n \in 0 .. Len(reqs),
           Passes(R, how, reqs, p, n), n = Len(reqs) \/ p.error # "none"
    PROVE  Layout(R, how, reqs) = p
<1> DEFINE base == Unallocated(R, how, reqs)
           end == Turns!Left(base, reqs)
<1>1. Layout(R, how, reqs) = end
  BY DEF Layout, Turns!Left, Fold, Turns!Fold, Strictly, Turns!Strictly
<1>2. PICK run : Turns!IsRun(base, reqs, run) /\ run[n] = p
  BY DEF Passes
<1> HIDE DEF base, end
<1>3. PICK all : Turns!IsRun(base, reqs, all) /\ end = all[Len(reqs)]
  BY Turns!FoldIsRun DEF end
<1>4. all[Len(reqs)] = run[Len(reqs)]
  <2>1. \A k \in 1 .. Len(reqs) : reqs[k] = reqs[k]
    OBVIOUS
  <2> QED
    BY <1>2, <1>3, <2>1, Turns!RunUnique
<1>5. run[Len(reqs)] = p
  <2>1. CASE run[n].error # "none"
    BY <1>2, <2>1, ErrorStays
  <2> QED
    BY <1>2, <2>1
<1> QED
  BY <1>1, <1>3, <1>4, <1>5

\* A pool as its fields make it up, before an error.
PoolAs(R, how, reqs, F, A) ==
    [ranges |-> R, strategy |-> how, reqs |-> reqs, free |-> F, addr |-> A, error |-> "none"]

LEMMA PoolAsFields ==
    ASSUME NEW R \in SUBSET Ranges, NEW how \in Strategic, NEW reqs \in Seq(Requests),
           NEW F \in SUBSET Ranges, NEW A \in Seq(Nat \cup {Unplaced}), DOMAIN A = DOMAIN reqs,
           NEW p, p = PoolAs(R, how, reqs, F, A)
    PROVE  /\ p \in Pools /\ p.ranges = R /\ p.strategy = how /\ p.reqs = reqs
           /\ p.free = F /\ p.addr = A /\ p.error = "none"
BY DEF PoolAs, Pools

LEMMA PoolFromFields ==
    ASSUME NEW p \in Pools, p.error = "none"
    PROVE  p = PoolAs(p.ranges, p.strategy, p.reqs, p.free, p.addr)
BY DEF PoolAs, Pools

\* The turn of a pin no other comes before.
LEMMA PinServed ==
    ASSUME NEW p \in Pools, InPlace(p), p.error = "none", NEW i \in Pins(p),
           \A j \in Pins(p) \ {i} : PinBefore(p.reqs, i, j), NEW n, NEW w, w = p.reqs[i]
    PROVE  /\ \A c : IsFirst(c, Holding(p, w)) => Turn(p, n) = Take(p, i, c, w.pin)
           /\ Holding(p, w) = {} => Turn(p, n).error = Blame(p, w)
<1>1. Waiting(p) # {} /\ Pins(p) # {}
  BY DEF Pins
<1>2. Served(p) = i
  BY <1>1, ServedFacts
<1>3. i \in Pinned(p.reqs)
  BY DEF Pins
<1>4. Turn(p, n) = PinStep(p, i)
  BY <1>2, <1>3 DEF Turn
<1>5. ASSUME NEW c, IsFirst(c, Holding(p, w)) PROVE Turn(p, n) = Take(p, i, c, w.pin)
  <2>1. Holding(p, w) # {} /\ Holding(p, w) \in SUBSET p.free
    BY <1>5 DEF IsFirst, Holding
  <2>2. p.free \in SUBSET Ranges /\ NonEmpty(p.free) /\ Disjoint(p.free)
    BY PoolFields DEF InPlace
  <2>3. c = FirstOf(Holding(p, w))
    BY <1>5, <2>1, <2>2, FirstChunk
  <2> QED
    BY <1>3, <1>4, <2>1, <2>3, PinTurn
<1>6. ASSUME Holding(p, w) = {} PROVE Turn(p, n).error = Blame(p, w)
  <2>1. Turn(p, n) = Refused(p, i, w)
    BY <1>3, <1>4, <1>6, PinTurn
  <2>2. Refused(p, i, w).error = Blame(p, w)
    BY DEF Refused, Pools
  <2> QED
    BY <2>1, <2>2
<1> QED
  BY <1>5, <1>6

\* The turn of a floating request no other comes before.
LEMMA FloatServed ==
    ASSUME NEW p \in Pools, InPlace(p), p.error = "none", Pins(p) = {}, NEW i \in Waiting(p),
           \A j \in Waiting(p) \ {i} : FloatBefore(p.strategy, p.reqs, i, j),
           NEW n, NEW w, w = p.reqs[i]
    PROVE  /\ \A c : IsFirst(c, Fitting(p, w)) => Turn(p, n) = Take(p, i, c, c.lo)
           /\ Fitting(p, w) = {} => Turn(p, n).error = "overflow"
<1>1. Waiting(p) # {}
  OBVIOUS
<1>2. Served(p) = i /\ i \notin Pinned(p.reqs)
  BY <1>1, ServedFacts
<1>4. Turn(p, n) = FloatStep(p, i)
  BY <1>2 DEF Turn
<1>5. ASSUME NEW c, IsFirst(c, Fitting(p, w)) PROVE Turn(p, n) = Take(p, i, c, c.lo)
  <2>1. Fitting(p, w) # {} /\ Fitting(p, w) \in SUBSET p.free
    BY <1>5 DEF IsFirst, Fitting
  <2>2. p.free \in SUBSET Ranges /\ NonEmpty(p.free) /\ Disjoint(p.free)
    BY PoolFields DEF InPlace
  <2>3. c = FirstOf(Fitting(p, w))
    BY <1>5, <2>1, <2>2, FirstChunk
  <2> QED
    BY <1>4, <2>1, <2>3, FloatTurn
<1>6. ASSUME Fitting(p, w) = {} PROVE Turn(p, n).error = "overflow"
  <2>1. Turn(p, n) = Overflown(p)
    BY <1>4, <1>6, FloatTurn
  <2>2. Overflown(p).error = "overflow"
    BY DEF Overflown, Pools
  <2> QED
    BY <2>1, <2>2
<1> QED
  BY <1>5, <1>6

-----------------------------------------------------------------------------
(* The gaps _subtract_one finds.                                           *)

\* Spans, each a piece of r, that lie apart.
Pieces(r, S) ==
    /\ r \in Ranges /\ IsFiniteSet(S)
    /\ \A s \in S : s.lo \in Nat /\ s.hi \in Nat /\ s.lo <= s.hi /\ r.lo <= s.lo /\ s.hi <= r.hi
    /\ \A s, t \in S : s # t => s.hi < t.lo \/ t.hi < s.lo

\* Nothing of S is between a and b, and they cannot be moved apart.
IsGap(r, S, a, b) ==
    /\ r.lo <= a /\ a <= b /\ b <= r.hi
    /\ \A s \in S : s.hi < a \/ b < s.lo
    /\ a = r.lo \/ \E s \in S : s.hi + 1 = a
    /\ b = r.hi \/ \E s \in S : b + 1 = s.lo

\* The walk has come to its cursor, behind the spans it has seen.
Behind(r, S, left, cursor) ==
    /\ left \subseteq S /\ cursor \in Nat /\ r.lo <= cursor /\ cursor <= r.hi + 1
    /\ \A s \in left : cursor <= s.lo
    /\ \A s \in S \ left : s.hi < cursor
    /\ cursor = r.lo \/ \E s \in S \ left : s.hi + 1 = cursor

\* The walk has found the gaps up to its cursor.
Found(r, S, walk) ==
    /\ walk.range = r
    /\ Behind(r, S, walk.left, walk.cursor)
    /\ \A g : g \in walk.out <=>
           \E a, b \in Nat : IsGap(r, S, a, b) /\ b < walk.cursor /\ g = Between(r, a, b)

\* No gap begins before the cursor and ends behind it.
LEMMA GapFromCursor ==
    ASSUME NEW r, NEW S, Pieces(r, S), NEW left, NEW cursor, Behind(r, S, left, cursor),
           NEW a \in Nat, NEW b \in Nat, IsGap(r, S, a, b), cursor <= b
    PROVE  a = cursor \/ \E s \in left : s.hi < a
<1>1. r.lo \in Nat /\ r.hi \in Nat /\ cursor \in Nat
  BY DEF Pieces, Ranges, Behind
<1>2. CASE a < cursor
  <2>1. PICK s \in S \ left : s.hi + 1 = cursor
    BY <1>1, <1>2 DEF Behind, IsGap
  <2> QED
    BY <1>1, <1>2, <2>1 DEF Pieces, IsGap
<1>3. CASE cursor < a
  <2>1. PICK s \in S : s.hi + 1 = a
    BY <1>1, <1>3 DEF IsGap, Behind
  <2> QED
    BY <1>1, <1>3, <2>1 DEF Pieces, Behind
<1> QED
  BY <1>1, <1>2, <1>3

\* Going past the next span adds at most the gap before it.
LEMMA GapBefore ==
    ASSUME NEW r, NEW S, Pieces(r, S), NEW left, NEW cursor, Behind(r, S, left, cursor),
           NEW s \in left, \A t \in left : s.lo <= t.lo, NEW a \in Nat, NEW b \in Nat
    PROVE  IsGap(r, S, a, b) /\ b < s.hi + 1
              <=> \/ IsGap(r, S, a, b) /\ b < cursor
                  \/ a = cursor /\ b = s.lo - 1 /\ cursor < s.lo
<1>1. /\ r.lo \in Nat /\ r.hi \in Nat /\ cursor \in Nat
      /\ s \in S /\ s.lo \in Nat /\ s.hi \in Nat /\ s.lo <= s.hi /\ r.lo <= s.lo /\ s.hi <= r.hi
      /\ cursor <= s.lo
  BY DEF Pieces, Ranges, Behind
<1>2. \A t \in left \ {s} : t.lo \in Nat /\ t.hi \in Nat /\ s.hi < t.lo /\ t.lo <= t.hi
  BY <1>1 DEF Pieces, Behind
<1>3. \A t \in S : t.lo \in Nat /\ t.hi \in Nat /\ t.lo <= t.hi
  BY DEF Pieces
<1>4. ASSUME IsGap(r, S, a, b), b < s.hi + 1, ~(b < cursor)
      PROVE  a = cursor /\ b = s.lo - 1 /\ cursor < s.lo
  <2>1. b < s.lo
    BY <1>1, <1>4 DEF IsGap
  <2>2. a = cursor
    <3>1. a = cursor \/ \E t \in left : t.hi < a
      BY <1>1, <1>4, GapFromCursor
    <3> QED
      BY <1>1, <1>2, <1>4, <2>1, <3>1 DEF IsGap
  <2>3. PICK t \in S : b + 1 = t.lo
    BY <1>1, <2>1, <1>4 DEF IsGap
  <2>4. t \in left
    BY <1>1, <1>3, <1>4, <2>3 DEF Behind
  <2>5. b = s.lo - 1
    BY <1>1, <1>2, <2>1, <2>3, <2>4
  <2> QED
    BY <1>1, <1>4, <2>1, <2>2, <2>5
<1>5. ASSUME a = cursor, b = s.lo - 1, cursor < s.lo PROVE IsGap(r, S, a, b) /\ b < s.hi + 1
  <2>1. \A t \in S : t.hi < a \/ b < t.lo
    BY <1>1, <1>2, <1>3, <1>5 DEF Behind
  <2>2. a = r.lo \/ \E t \in S : t.hi + 1 = a
    BY <1>5 DEF Behind
  <2>3. \E t \in S : b + 1 = t.lo
    BY <1>1, <1>5
  <2>4. r.lo <= a /\ a <= b /\ b <= r.hi /\ b < s.hi + 1
    BY <1>1, <1>5 DEF Behind
  <2> QED
    BY <2>1, <2>2, <2>3, <2>4 DEF IsGap
<1> QED
  BY <1>1, <1>4, <1>5

\* Behind the last span there is at most the rest of the range.
LEMMA GapBehind ==
    ASSUME NEW r, NEW S, Pieces(r, S), NEW cursor, Behind(r, S, {}, cursor),
           NEW a \in Nat, NEW b \in Nat
    PROVE  IsGap(r, S, a, b)
              <=> \/ IsGap(r, S, a, b) /\ b < cursor
                  \/ a = cursor /\ b = r.hi /\ cursor <= r.hi
<1>1. r.lo \in Nat /\ r.hi \in Nat /\ cursor \in Nat
  BY DEF Pieces, Ranges, Behind
<1>2. \A t \in S : t.lo \in Nat /\ t.hi \in Nat /\ t.lo <= t.hi /\ t.hi < cursor
  BY DEF Pieces, Behind
<1>3. ASSUME IsGap(r, S, a, b), ~(b < cursor)
      PROVE  a = cursor /\ b = r.hi /\ cursor <= r.hi
  <2>1. a = cursor
    BY <1>1, <1>3, GapFromCursor
  <2>2. b = r.hi
    BY <1>1, <1>2, <1>3 DEF IsGap
  <2> QED
    BY <1>1, <1>3, <2>1, <2>2
<1>4. ASSUME a = cursor, b = r.hi, cursor <= r.hi PROVE IsGap(r, S, a, b)
  BY <1>1, <1>2, <1>4 DEF IsGap, Behind
<1> QED
  BY <1>3, <1>4
\* The turns of _subtract_one.
Cuts == INSTANCE FoldSteps WITH Op <- Subtract

\* The span next by address.
NextSpan(left) == CHOOSE s \in left : \A t \in left : s.lo <= t.lo

LEMMA NextSpanFacts ==
    ASSUME NEW left, left # {}, \A s \in left : s.lo \in Nat
    PROVE  NextSpan(left) \in left /\ \A t \in left : NextSpan(left).lo <= t.lo
<1> DEFINE B == {s.lo : s \in left}
<1>1. B \in SUBSET Nat /\ B # {}
  OBVIOUS
<1>2. PICK m \in B : \A k \in B : m <= k
  <2> HIDE DEF B
  <2> QED
    BY <1>1, Turns!LeastNumber
<1>3. PICK s \in left : s.lo = m
  OBVIOUS
<1>4. \A t \in left : s.lo <= t.lo
  BY <1>2, <1>3
<1> QED
  BY <1>4 DEF NextSpan

\* One turn of the walk.
LEMMA SubtractFound ==
    ASSUME NEW r, NEW S, Pieces(r, S), NEW walk, Found(r, S, walk), walk.left # {}, NEW n,
           NEW next, next = Subtract(walk, n)
    PROVE  /\ Found(r, S, next)
           /\ next.left = walk.left \ {NextSpan(walk.left)}
           /\ NextSpan(walk.left) \in walk.left
<1> DEFINE s == NextSpan(walk.left)
           left == walk.left
           cursor == walk.cursor
<1>1. walk.range = r /\ Behind(r, S, left, cursor)
  BY DEF Found
<1>2. /\ \A t \in S : t.lo \in Nat /\ t.hi \in Nat /\ t.lo <= t.hi /\ r.lo <= t.lo /\ t.hi <= r.hi
      /\ r.lo \in Nat /\ r.hi \in Nat /\ cursor \in Nat /\ left \subseteq S
  BY <1>1 DEF Pieces, Behind, Ranges
<1>3. s \in left /\ \A t \in left : s.lo <= t.lo
  BY <1>2, NextSpanFacts
<1>4. /\ next.range = walk.range /\ next.left = left \ {s}
      /\ next.cursor = IF s.hi + 1 > cursor THEN s.hi + 1 ELSE cursor
      /\ next.out = IF s.lo > cursor
                    THEN walk.out \cup {Between(walk.range, cursor, s.lo - 1)} ELSE walk.out
  BY DEF Subtract, NextSpan
<1> HIDE DEF s, left, cursor
<1>5. s \in S /\ cursor <= s.lo /\ s.lo <= s.hi /\ s.lo \in Nat /\ s.hi \in Nat
  BY <1>1, <1>2, <1>3 DEF Behind
<1>6. next.cursor = s.hi + 1
  BY <1>2, <1>4, <1>5
<1>7. Behind(r, S, next.left, next.cursor)
  <2>1. \A t \in left \ {s} : s.hi + 1 <= t.lo
    <3> SUFFICES ASSUME NEW t \in left \ {s} PROVE s.hi + 1 <= t.lo
      OBVIOUS
    <3>1. t \in S /\ s.lo <= t.lo /\ (s.hi < t.lo \/ t.hi < s.lo)
      BY <1>2, <1>3, <1>5 DEF Pieces
    <3> QED
      BY <1>2, <1>5, <3>1
  <2>2. \A t \in S \ (left \ {s}) : t.hi < s.hi + 1
    BY <1>1, <1>2, <1>5 DEF Behind
  <2>3. \E t \in S \ (left \ {s}) : t.hi + 1 = s.hi + 1
    BY <1>5
  <2>4. s.hi + 1 \in Nat /\ r.lo <= s.hi + 1 /\ s.hi + 1 <= r.hi + 1
    BY <1>2, <1>5
  <2> QED
    BY <1>2, <1>4, <1>6, <2>1, <2>2, <2>3, <2>4 DEF Behind
<1>8. ASSUME NEW g
      PROVE  g \in next.out <=>
                \E a, b \in Nat : IsGap(r, S, a, b) /\ b < next.cursor /\ g = Between(r, a, b)
  <2>1. g \in walk.out <=> \E a, b \in Nat : IsGap(r, S, a, b) /\ b < cursor /\ g = Between(r, a, b)
    BY DEF Found, cursor
  <2>2. \A a, b \in Nat : IsGap(r, S, a, b) /\ b < s.hi + 1
                            <=> \/ IsGap(r, S, a, b) /\ b < cursor
                                \/ a = cursor /\ b = s.lo - 1 /\ cursor < s.lo
    BY <1>1, <1>3, GapBefore
  <2>3. cursor < s.lo => s.lo - 1 \in Nat
    BY <1>2, <1>5
  <2>4. g \in next.out <=> g \in walk.out \/ (cursor < s.lo /\ g = Between(r, cursor, s.lo - 1))
    BY <1>1, <1>2, <1>4, <1>5
  <2> QED
    BY <1>2, <1>6, <2>1, <2>2, <2>3, <2>4
<1>9. Found(r, S, next)
  BY <1>1, <1>4, <1>7, <1>8 DEF Found
<1> QED
  BY <1>3, <1>4, <1>9 DEF s, left

\* The walk of _subtract_one finds every gap, and nothing else.
LEMMA GapsFound ==
    ASSUME NEW r \in Ranges, r.lo <= r.hi, NEW spans,
           NEW S, S = {s \in spans : Inside(s, r)}, Pieces(r, S)
    PROVE  \A g : g \in Gaps(r, spans) <=> \E a, b \in Nat : IsGap(r, S, a, b) /\ g = Between(r, a, b)
<1> DEFINE base == [range |-> r, left |-> S, cursor |-> r.lo, out |-> {}]
           turns == [n \in 1 .. Cardinality(S) |-> n]
           end == Cuts!Left(base, turns)
<1>1. IsFiniteSet(S) /\ Cardinality(S) \in Nat /\ Len(turns) = Cardinality(S)
  BY FS_CardinalityType DEF Pieces
<1>2. Gaps(r, spans) = end.out \cup (IF end.cursor <= r.hi THEN {Between(r, end.cursor, r.hi)} ELSE {})
  BY DEF Gaps, Cuts!Left, Fold, Cuts!Fold, Strictly, Cuts!Strictly
<1>3. Found(r, S, base) /\ base.left = S
  <2>1. Behind(r, S, S, r.lo)
    BY DEF Behind, Pieces, Ranges
  <2>2. \A a, b \in Nat : IsGap(r, S, a, b) => ~(b < r.lo)
    BY DEF IsGap, Ranges
  <2> QED
    BY <2>1, <2>2 DEF Found
<1> HIDE DEF base, turns, end
<1>4. PICK run : Cuts!IsRun(base, turns, run) /\ end = run[Len(turns)]
  BY <1>1, Cuts!FoldIsRun DEF end
<1> DEFINE Good(k) == /\ Found(r, S, run[k]) /\ IsFiniteSet(run[k].left)
                      /\ Cardinality(run[k].left) = Cardinality(S) - k
           Done == {k \in 0 .. Cardinality(S) : Good(k)}
<1>5. 0 \in Done
  <2>1. run[0] = base
    BY <1>4 DEF Cuts!IsRun
  <2>2. Found(r, S, run[0]) /\ run[0].left = S
    BY <1>3, <2>1
  <2>3. Cardinality(run[0].left) = Cardinality(S) - 0 /\ IsFiniteSet(run[0].left)
    BY <1>1, <2>2
  <2>4. Good(0)
    BY <2>2, <2>3
  <2>5. 0 \in 0 .. Cardinality(S)
    BY <1>1
  <2> HIDE DEF Good
  <2> QED
    BY <2>4, <2>5
<1>6. ASSUME NEW k \in 1 .. Cardinality(S), k - 1 \in Done PROVE k \in Done
  <2> DEFINE walk == run[k - 1]
             next == run[k]
  <2>1. next = Subtract(walk, turns[k])
    BY <1>1, <1>4 DEF Cuts!IsRun
  <2>2. /\ Found(r, S, walk) /\ IsFiniteSet(walk.left)
        /\ Cardinality(walk.left) = Cardinality(S) - (k - 1)
    BY <1>6
  <2> HIDE DEF walk, next
  <2>3. Cardinality(walk.left) # 0 /\ Cardinality(walk.left) - 1 = Cardinality(S) - k
    BY <1>1, <2>2
  <2>4. walk.left # {}
    BY <2>3, FS_EmptySet
  <2>5. /\ Found(r, S, next) /\ next.left = walk.left \ {NextSpan(walk.left)}
        /\ NextSpan(walk.left) \in walk.left
    BY <2>1, <2>2, <2>4, SubtractFound
  <2>6. IsFiniteSet(next.left) /\ Cardinality(next.left) = Cardinality(walk.left) - 1
    BY <2>2, <2>5, FS_RemoveElement
  <2>7. Good(k)
    BY <2>3, <2>5, <2>6 DEF next
  <2>8. k \in 0 .. Cardinality(S)
    BY <1>1
  <2> HIDE DEF Good
  <2> QED
    BY <2>7, <2>8
<1> HIDE DEF Good
<1>7. Cardinality(S) \in Done
  <2> HIDE DEF Done
  <2> QED
    BY <1>1, <1>5, <1>6, Turns!UpFromZero
<1>8. Found(r, S, end) /\ end.left = {}
  <2>1. /\ Found(r, S, end) /\ IsFiniteSet(end.left)
        /\ Cardinality(end.left) = Cardinality(S) - Cardinality(S)
    BY <1>1, <1>4, <1>7 DEF Good
  <2>2. Cardinality(end.left) = 0
    BY <1>1, <2>1
  <2> QED
    BY <2>1, <2>2, FS_EmptySet
<1>9. Behind(r, S, {}, end.cursor) /\ end.cursor \in Nat /\ r.hi \in Nat
  BY <1>8 DEF Found, Behind, Ranges
<1>10. \A a, b \in Nat :
          IsGap(r, S, a, b) <=> \/ IsGap(r, S, a, b) /\ b < end.cursor
                                \/ a = end.cursor /\ b = r.hi /\ end.cursor <= r.hi
  BY <1>9, GapBehind
<1>11. \A g : g \in end.out <=>
          \E a, b \in Nat : IsGap(r, S, a, b) /\ b < end.cursor /\ g = Between(r, a, b)
  BY <1>8 DEF Found
<1> QED
  BY <1>2, <1>9, <1>10, <1>11
=============================================================================
