---------------------------- MODULE PooledProofs ----------------------------
(***************************************************************************)
(* The pools the linker merges, for every program: the requests of all     *)
(* object files are entered once per name, allocate() places them in the   *)
(* ranges the object files declare, and the sections go where their        *)
(* requests went.                                                          *)
(***************************************************************************)
EXTENDS LinkProofs

LOCAL INSTANCE FiniteSetsExt

\* The fold over the declarations of an object, by its step.
MergeSteps == INSTANCE FoldSteps WITH Op <- MergeDecl

LEMMA MergeFold ==
    ASSUME NEW acc, NEW q
    PROVE  Fold(MergeDecl, acc, q) = MergeSteps!Left(acc, q)
BY DEF MergeSteps!Left, Fold, MergeSteps!Fold, Strictly, MergeSteps!Strictly

-----------------------------------------------------------------------------
(* The pools the linker merges.                                            *)

\* Address x lies in a range one of the object files declares for the pool.
DeclaredIn(objs, name, x) ==
    \E o \in 1 .. Len(objs) : \E k \in 1 .. Len(objs[o].decls) :
        /\ objs[o].decls[k].name = name
        /\ \E r \in objs[o].decls[k].ranges : r.lo <= x /\ x <= r.hi

\* One of them asks the pool for so much room under that name.
AskedIn(objs, pool, name, size) ==
    \E o \in 1 .. Len(objs) : \E k \in 1 .. Len(objs[o].allocs) :
        LET a == objs[o].allocs[k]
        IN  a.pool = pool /\ a.name = name /\ a.size = size

Covers(objs, name, S) == \A r \in S : \A x \in r.lo .. r.hi : DeclaredIn(objs, name, x)

MergedShape(p) ==
    p = [name |-> p.name, strategy |-> p.strategy, bss |-> p.bss, ranges |-> p.ranges,
         names |-> p.names, reqs |-> p.reqs, addr |-> p.addr]

\* A merged pool has declared ranges, and one request per name.
PoolSound(objs, p) ==
    /\ MergedShape(p)
    /\ DeclSound(p)
    /\ Covers(objs, p.name, p.ranges)
    /\ p.reqs \in Seq(Requests) /\ IsSeq(p.names) /\ Len(p.names) = Len(p.reqs)
    /\ \A k, n \in 1 .. Len(p.names) : p.names[k] = p.names[n] => k = n
    /\ \A k \in 1 .. Len(p.names) : AskedIn(objs, p.name, p.names[k], p.reqs[k].size)

\* The pools have different names.
PoolsSound(objs, ps) ==
    /\ IsSeq(ps)
    /\ \A k \in 1 .. Len(ps) : PoolSound(objs, ps[k])
    /\ \A k, n \in 1 .. Len(ps) : ps[k].name = ps[n].name => k = n

LEMMA NoPools == ASSUME NEW objs PROVE PoolsSound(objs, <<>>)
<1> DEFINE e == <<>>
<1>1. IsSeq(e) /\ Len(e) = 0
  BY DEF IsSeq
<1> HIDE DEF e
<1>2. PoolsSound(objs, e)
  BY <1>1 DEF PoolsSound
<1> QED
  BY <1>2 DEF e

LEMMA MorePools ==
    ASSUME NEW objs, NEW ps, PoolsSound(objs, ps), NEW q, PoolSound(objs, q),
           \A k \in 1 .. Len(ps) : ps[k].name # q.name
    PROVE  PoolsSound(objs, Append(ps, q))
<1> DEFINE x == Append(ps, q)
           n == Len(ps)
<1>1. /\ IsSeq(ps) /\ n \in Nat /\ \A k \in 1 .. n : PoolSound(objs, ps[k])
      /\ \A k, j \in 1 .. n : ps[k].name = ps[j].name => k = j
  BY SeqFacts DEF PoolsSound
<1>2. /\ IsSeq(x) /\ Len(x) = n + 1 /\ x[n + 1] = q
      /\ \A k \in 1 .. n : x[k] = ps[k]
  BY <1>1, AppendFacts
<1> HIDE DEF x, n
<1>3. \A k \in 1 .. Len(x) : k \in 1 .. n \/ k = n + 1
  BY <1>1, <1>2
<1>4. ASSUME NEW k \in 1 .. Len(x) PROVE PoolSound(objs, x[k])
  BY <1>1, <1>2, <1>3
<1>5. \A k \in 1 .. n : x[k].name # q.name
  BY <1>2 DEF n
<1>6. ASSUME NEW k \in 1 .. Len(x), NEW j \in 1 .. Len(x), x[k].name = x[j].name
      PROVE  k = j
  <2>1. CASE k \in 1 .. n /\ j \in 1 .. n
    BY <2>1, <1>1, <1>2, <1>6
  <2>2. CASE k = n + 1 \/ j = n + 1
    BY <2>2, <1>2, <1>3, <1>5, <1>6
  <2> QED
    BY <2>1, <2>2, <1>3
<1> QED
  BY <1>2, <1>4, <1>6 DEF PoolsSound, x

\* A pool gets another value.
Replaced(ps, k, q) == [ps EXCEPT ![k] = q]

LEMMA ReplacedFacts ==
    ASSUME NEW ps, IsSeq(ps), NEW k \in 1 .. Len(ps), NEW q
    PROVE  /\ IsSeq(Replaced(ps, k, q)) /\ Len(Replaced(ps, k, q)) = Len(ps)
           /\ Replaced(ps, k, q)[k] = q
           /\ \A n \in 1 .. Len(ps) : n # k => Replaced(ps, k, q)[n] = ps[n]
<1>1. PICK S : ps \in Seq(S)
  BY DEF IsSeq
<1>2. ps \in Seq(S \cup {q}) /\ q \in S \cup {q}
  BY <1>1
<1> DEFINE U == S \cup {q}
<1> HIDE DEF U
<1>3. ps \in Seq(U) /\ q \in U
  BY <1>2 DEF U
<1>4. Replaced(ps, k, q) \in Seq(U)
  BY <1>3 DEF Replaced
<1>5. Len(Replaced(ps, k, q)) = Len(ps)
  BY <1>3 DEF Replaced
<1>6. Replaced(ps, k, q)[k] = q /\ \A n \in 1 .. Len(ps) : n # k => Replaced(ps, k, q)[n] = ps[n]
  BY <1>3 DEF Replaced
<1> QED
  BY <1>4, <1>5, <1>6 DEF IsSeq

LEMMA ChangedPools ==
    ASSUME NEW objs, NEW ps, PoolsSound(objs, ps), NEW k \in 1 .. Len(ps),
           NEW q, PoolSound(objs, q), q.name = ps[k].name
    PROVE  PoolsSound(objs, Replaced(ps, k, q))
<1> DEFINE x == Replaced(ps, k, q)
<1>1. /\ IsSeq(ps) /\ \A n \in 1 .. Len(ps) : PoolSound(objs, ps[n])
      /\ \A n, j \in 1 .. Len(ps) : ps[n].name = ps[j].name => n = j
  BY DEF PoolsSound
<1>2. /\ IsSeq(x) /\ Len(x) = Len(ps) /\ x[k] = q
      /\ \A n \in 1 .. Len(ps) : n # k => x[n] = ps[n]
  BY <1>1, ReplacedFacts
<1> HIDE DEF x
<1>3. \A n \in 1 .. Len(x) : PoolSound(objs, x[n]) /\ x[n].name = ps[n].name
  BY <1>1, <1>2
<1> QED
  BY <1>1, <1>2, <1>3 DEF PoolsSound, x

\* The pool of a first declaration.
LEMMA FreshPool ==
    ASSUME NEW objs, NEW d, DeclSound(d), Covers(objs, d.name, d.ranges)
    PROVE  PoolSound(objs, FromDecl(d)) /\ FromDecl(d).name = d.name
<1> DEFINE f == FromDecl(d)
           Copy(r) == [lo |-> r.lo, hi |-> r.hi, cross |-> Bank(r.lo) # Bank(r.hi)]
           C == {Copy(r) : r \in d.ranges}
<1>1. /\ f.name = d.name /\ f.strategy = d.strategy /\ f.ranges = C
      /\ f.names = <<>> /\ f.reqs = <<>> /\ MergedShape(f)
  BY DEF FromDecl, MergedShape
<1>2. /\ d.strategy \in Strategic /\ d.ranges \in SUBSET Ranges
      /\ NonEmpty(d.ranges) /\ Disjoint(d.ranges)
  BY DEF DeclSound
<1>3. \A r \in d.ranges : r.lo \in Nat /\ r.hi \in Nat /\ r.lo <= r.hi
  BY <1>2 DEF Ranges, NonEmpty
<1>4. \A r \in d.ranges : /\ Copy(r) \in Ranges
                          /\ Copy(r).lo = r.lo /\ Copy(r).hi = r.hi
  <2>1. ASSUME NEW r \in d.ranges PROVE Copy(r) \in Ranges
    <3> DEFINE b == (Bank(r.lo) # Bank(r.hi))
    <3>1. b \in BOOLEAN
      OBVIOUS
    <3> HIDE DEF b
    <3>2. [lo |-> r.lo, hi |-> r.hi, cross |-> b] \in Ranges
      BY <3>1, <1>3 DEF Ranges
    <3> QED
      BY <3>2 DEF b
  <2> QED
    BY <2>1
<1> HIDE DEF f, Copy
<1>5. C \in SUBSET Ranges /\ NonEmpty(C)
  BY <1>3, <1>4 DEF NonEmpty
<1>6. Disjoint(C)
  <2>1. ASSUME NEW r \in d.ranges, NEW s \in d.ranges, Copy(r) # Copy(s)
        PROVE  ~Overlaps(Copy(r), Copy(s))
    <3>1. r # s
      BY <2>1
    <3>2. ~Overlaps(r, s)
      BY <3>1, <1>2 DEF Disjoint
    <3> QED
      BY <3>2, <1>4 DEF Overlaps
  <2> QED
    BY <2>1 DEF Disjoint
<1>7. Covers(objs, d.name, C)
  <2>1. ASSUME NEW r \in d.ranges, NEW x \in Copy(r).lo .. Copy(r).hi
        PROVE  DeclaredIn(objs, d.name, x)
    <3>1. x \in r.lo .. r.hi
      BY <1>4
    <3> QED
      BY <3>1 DEF Covers
  <2> QED
    BY <2>1 DEF Covers
<1> HIDE DEF C
<1>8. DeclSound(f) /\ Covers(objs, f.name, f.ranges)
  BY <1>1, <1>2, <1>5, <1>6, <1>7 DEF DeclSound
<1>9. /\ f.reqs \in Seq(Requests) /\ IsSeq(f.names)
      /\ Len(f.names) = 0 /\ Len(f.names) = Len(f.reqs)
  BY <1>1 DEF IsSeq
<1> QED
  BY <1>1, <1>8, <1>9 DEF PoolSound, f

\* A pool whose ranges a repeated declaration adds to.
LEMMA WiderPool ==
    ASSUME NEW objs, NEW p, PoolSound(objs, p), NEW d, DeclSound(d),
           Covers(objs, p.name, d.ranges), NEW more, more = NewRanges(p, d),
           \A r \in more : ValidRange(r), \A r \in more, s \in p.ranges : ~Overlaps(r, s),
           NEW q, q = [p EXCEPT !.ranges = Normalize(p.ranges \cup more)]
    PROVE  PoolSound(objs, q) /\ q.name = p.name
<1> DEFINE all == p.ranges \cup more
           N == Normalize(all)
<1>1. /\ MergedShape(p) /\ p.strategy \in Strategic
      /\ p.ranges \in SUBSET Ranges /\ NonEmpty(p.ranges) /\ Disjoint(p.ranges)
      /\ Covers(objs, p.name, p.ranges)
  BY DEF PoolSound, DeclSound
<1>2. more \in SUBSET Ranges /\ NonEmpty(more)
  BY DEF ValidRange, NonEmpty
<1>3. \A r \in more : \E s \in d.ranges : r = [lo |-> s.lo, hi |-> s.hi, cross |-> FALSE]
  BY DEF NewRanges
<1>4. Disjoint(more)
  <2>1. ASSUME NEW r \in more, NEW s \in more, r # s PROVE ~Overlaps(r, s)
    <3>1. PICK t \in d.ranges : r = [lo |-> t.lo, hi |-> t.hi, cross |-> FALSE]
      BY <1>3
    <3>2. PICK u \in d.ranges : s = [lo |-> u.lo, hi |-> u.hi, cross |-> FALSE]
      BY <1>3
    <3>3. t # u
      BY <2>1, <3>1, <3>2
    <3>4. ~Overlaps(t, u)
      BY <3>3 DEF DeclSound, Disjoint
    <3>5. r.lo = t.lo /\ r.hi = t.hi /\ s.lo = u.lo /\ s.hi = u.hi
      BY <3>1, <3>2
    <3> QED
      BY <3>4, <3>5 DEF Overlaps
  <2> QED
    BY <2>1 DEF Disjoint
<1>5. all \in SUBSET Ranges /\ NonEmpty(all)
  BY <1>1, <1>2 DEF NonEmpty
<1>6. Disjoint(all)
  <2>1. \A r, s : Overlaps(r, s) => Overlaps(s, r)
    BY DEF Overlaps
  <2>2. ASSUME NEW r \in all, NEW s \in all, r # s PROVE ~Overlaps(r, s)
    <3>1. CASE r \in p.ranges /\ s \in p.ranges
      BY <3>1, <2>2, <1>1 DEF Disjoint
    <3>2. CASE r \in more /\ s \in more
      BY <3>2, <2>2, <1>4 DEF Disjoint
    <3>3. CASE r \in p.ranges /\ s \in more
      BY <3>3, <2>1
    <3>4. CASE r \in more /\ s \in p.ranges
      BY <3>4
    <3> QED
      BY <3>1, <3>2, <3>3, <3>4, <2>2
  <2> QED
    BY <2>2 DEF Disjoint
<1>7. \A r \in all : \A x \in r.lo .. r.hi : DeclaredIn(objs, p.name, x)
  <2>1. ASSUME NEW r \in more, NEW x \in r.lo .. r.hi PROVE DeclaredIn(objs, p.name, x)
    <3>1. PICK t \in d.ranges : r = [lo |-> t.lo, hi |-> t.hi, cross |-> FALSE]
      BY <1>3
    <3>2. x \in t.lo .. t.hi
      BY <3>1
    <3> QED
      BY <3>1, <3>2 DEF Covers
  <2> QED
    BY <2>1, <1>1 DEF Covers
<1> HIDE DEF all
<1>8. N \in SUBSET Ranges /\ NonEmpty(N) /\ Disjoint(N)
  BY <1>5, <1>6, NormalizeType, NormalizeDisjoint
<1>9. Covers(objs, p.name, N)
  <2>1. ASSUME NEW r \in N, NEW x \in r.lo .. r.hi PROVE DeclaredIn(objs, p.name, x)
    <3>1. PICK c \in all : c.lo <= x /\ x <= c.hi
      BY <1>5, <1>6, NormalizeWithin
    <3>2. c \in Ranges /\ r \in Ranges
      BY <1>5, <1>8
    <3>c. c.lo \in Nat /\ c.hi \in Nat /\ r.lo \in Nat /\ r.hi \in Nat
      BY <3>2 DEF Ranges
    <3>3. x \in c.lo .. c.hi
      BY <3>1, <3>c
    <3> QED
      BY <3>3, <1>7
  <2> QED
    BY <2>1 DEF Covers
<1> HIDE DEF N
<1>10. q = [name |-> p.name, strategy |-> p.strategy, bss |-> p.bss, ranges |-> N,
            names |-> p.names, reqs |-> p.reqs, addr |-> p.addr]
  <2>1. q = [p EXCEPT !.ranges = N]
    BY DEF N, all
  <2>2. p = [name |-> p.name, strategy |-> p.strategy, bss |-> p.bss, ranges |-> p.ranges,
             names |-> p.names, reqs |-> p.reqs, addr |-> p.addr]
    BY <1>1 DEF MergedShape
  <2> QED
    BY <2>1, <2>2
<1>11. /\ q.name = p.name /\ q.ranges = N /\ q.names = p.names /\ q.reqs = p.reqs
       /\ q.strategy = p.strategy /\ q.bss = p.bss /\ q.addr = p.addr
  BY <1>10
<1>s. MergedShape(q)
  BY <1>10, <1>11 DEF MergedShape
<1>12. DeclSound(q)
  BY <1>1, <1>8, <1>11 DEF DeclSound
<1> QED
  BY <1>9, <1>11, <1>12, <1>s DEF PoolSound

\* The pool of a name.
LEMMA PoolAt ==
    ASSUME NEW ps, IsSeq(ps), NEW name
    PROVE  /\ HasPool(ps, name) =>
                 PoolIndex(ps, name) \in 1 .. Len(ps) /\ ps[PoolIndex(ps, name)].name = name
           /\ ~HasPool(ps, name) => \A k \in 1 .. Len(ps) : ps[k].name # name
<1>1. DOMAIN ps = 1 .. Len(ps)
  BY SeqFacts
<1> QED
  BY <1>1 DEF HasPool, PoolIndex

\* What the fold over an object's declarations has come to.
MergeSound(objs, acc) ==
    /\ acc = [pools |-> acc.pools, error |-> acc.error]
    /\ acc.error = "none" => PoolsSound(objs, acc.pools)

LEMMA MergeDeclSound ==
    ASSUME NEW objs, NEW acc, MergeSound(objs, acc), NEW d, DeclSound(d),
           Covers(objs, d.name, d.ranges), NEW end, end = MergeDecl(acc, d)
    PROVE  MergeSound(objs, end)
<1> DEFINE ps == acc.pools
           k == PoolIndex(ps, d.name)
           more == NewRanges(ps[k], d)
           q == [ps[k] EXCEPT !.ranges = Normalize(ps[k].ranges \cup more)]
<1>0. acc = [pools |-> ps, error |-> acc.error]
  BY DEF MergeSound
<1>1. CASE acc.error # "none"
  BY <1>1 DEF MergeDecl
<1>2. CASE acc.error = "none" /\ ~HasPool(ps, d.name)
  <2> DEFINE x == Append(ps, FromDecl(d))
  <2>1. end = [acc EXCEPT !.pools = x]
    BY <1>2 DEF MergeDecl
  <2>2. PoolsSound(objs, ps) /\ IsSeq(ps)
    BY <1>2 DEF MergeSound, PoolsSound
  <2>3. PoolsSound(objs, x)
    BY <2>2, <1>2, PoolAt, FreshPool, MorePools
  <2> HIDE DEF x
  <2>4. end = [pools |-> x, error |-> "none"]
    BY <2>1, <1>0, <1>2
  <2> QED
    BY <2>3, <2>4 DEF MergeSound
<1>3. ASSUME NEW why, end = [acc EXCEPT !.error = why], why # "none"
      PROVE  MergeSound(objs, end)
  <2>1. end = [pools |-> ps, error |-> why]
    BY <1>0, <1>3
  <2> QED
    BY <2>1, <1>3 DEF MergeSound
<1>4. CASE /\ acc.error = "none" /\ HasPool(ps, d.name)
           /\ \A r \in more : ValidRange(r)
           /\ \A r \in more, s \in ps[k].ranges : ~Overlaps(r, s)
           /\ end = [acc EXCEPT !.pools[k].ranges = Normalize(@ \cup more)]
  <2>1. PoolsSound(objs, ps) /\ IsSeq(ps)
    BY <1>4 DEF MergeSound, PoolsSound
  <2>2. k \in 1 .. Len(ps) /\ ps[k].name = d.name
    BY <2>1, <1>4, PoolAt
  <2>3. PoolSound(objs, ps[k])
    BY <2>1, <2>2 DEF PoolsSound
  <2>4. PoolSound(objs, q) /\ q.name = ps[k].name
    <3>1. \A r \in more : ValidRange(r)
      BY <1>4
    <3>2. \A r \in more, s \in ps[k].ranges : ~Overlaps(r, s)
      BY <1>4
    <3>3. Covers(objs, ps[k].name, d.ranges)
      BY <2>2
    <3> HIDE DEF k, ps
    <3> QED
      BY <3>1, <3>2, <3>3, <2>3, WiderPool
  <2>5. end = [acc EXCEPT !.pools = [ps EXCEPT ![k] = q]]
    BY <1>4
  <2> HIDE DEF k, q, ps
  <2>6. PoolsSound(objs, Replaced(ps, k, q))
    BY <2>1, <2>2, <2>4, ChangedPools
  <2> DEFINE x == Replaced(ps, k, q)
  <2>7. end = [acc EXCEPT !.pools = x]
    BY <2>5 DEF Replaced
  <2> HIDE DEF x
  <2>8. end = [pools |-> x, error |-> "none"]
    BY <2>7, <1>0, <1>4
  <2>9. PoolsSound(objs, x)
    BY <2>6 DEF x
  <2> QED
    BY <2>8, <2>9 DEF MergeSound
<1>5. CASE acc.error = "none" /\ HasPool(ps, d.name)
  <2>1. \/ \E why \in {"conflicting decls", "invalid range", "overlapping decls"} :
              end = [acc EXCEPT !.error = why]
        \/ /\ \A r \in more : ValidRange(r)
           /\ \A r \in more, s \in ps[k].ranges : ~Overlaps(r, s)
           /\ end = [acc EXCEPT !.pools[k].ranges = Normalize(@ \cup more)]
    BY <1>5 DEF MergeDecl
  <2>2. ASSUME NEW why \in {"conflicting decls", "invalid range", "overlapping decls"},
               end = [acc EXCEPT !.error = why]
        PROVE  MergeSound(objs, end)
    <3>1. why # "none"
      BY <2>2
    <3> QED
      BY <3>1, <2>2, <1>3
  <2> HIDE DEF more, k, ps
  <2>3. CASE /\ \A r \in more : ValidRange(r)
             /\ \A r \in more, s \in ps[k].ranges : ~Overlaps(r, s)
             /\ end = [acc EXCEPT !.pools[k].ranges = Normalize(@ \cup more)]
    BY <2>3, <1>4, <1>5
  <2> QED
    BY <2>1, <2>2, <2>3
<1> QED
  BY <1>1, <1>2, <1>5

\* The declarations of an object merged.
LEMMA DeclsMerged ==
    ASSUME NEW objs, NEW ps, PoolsSound(objs, ps), NEW q, DeclsSound(q),
           \A k \in 1 .. Len(q) : Covers(objs, q[k].name, q[k].ranges),
           NEW acc, acc = Fold(MergeDecl, [pools |-> ps, error |-> "none"], q)
    PROVE  MergeSound(objs, acc)
<1> DEFINE start == [pools |-> ps, error |-> "none"]
<1>1. Len(q) \in Nat /\ \A k \in 1 .. Len(q) : DeclSound(q[k])
  BY SeqFacts DEF DeclsSound
<1>2. MergeSound(objs, start)
  BY DEF MergeSound
<1>3. acc = MergeSteps!Left(start, q)
  BY MergeFold
<1> HIDE DEF start
<1>4. PICK run : MergeSteps!IsRun(start, q, run) /\ MergeSteps!Left(start, q) = run[Len(q)]
  BY <1>1, MergeSteps!FoldIsRun
<1> DEFINE D == {k \in 0 .. Len(q) : MergeSound(objs, run[k])}
<1>5. 0 \in D
  BY <1>1, <1>2, <1>4 DEF MergeSteps!IsRun
<1>6. ASSUME NEW k \in 1 .. Len(q), k - 1 \in D PROVE k \in D
  <2>1. run[k] = MergeDecl(run[k - 1], q[k])
    BY <1>4 DEF MergeSteps!IsRun
  <2>2. MergeSound(objs, run[k - 1])
    BY <1>6
  <2>3. MergeSound(objs, run[k])
    BY <1>1, <2>1, <2>2, MergeDeclSound
  <2> QED
    BY <2>3, <1>1
<1> HIDE DEF D
<1>7. Len(q) \in D
  BY <1>1, <1>5, <1>6, CodeSteps!UpFromZero
<1> QED
  BY <1>3, <1>4, <1>7 DEF D

-----------------------------------------------------------------------------
(* The slots the modules ask for.                                          *)

\* A slot is the one request of its name, in the pool its module named.
SlotFits(objs, ps, x, t) ==
    \E o \in 1 .. Len(objs) : \E k \in 1 .. Len(objs[o].allocs) :
        LET a == objs[o].allocs[k]
        IN  /\ x = <<o, a.section>>
            /\ t.pool \in 1 .. Len(ps) /\ ps[t.pool].name = a.pool
            /\ t.req \in 1 .. Len(ps[t.pool].names) /\ ps[t.pool].names[t.req] = a.name

SlotsFit(objs, ps, ts) == \A x \in DOMAIN ts : SlotFits(objs, ps, x, ts[x])

\* Pools to which requests were added.
Extends(ps, qs) ==
    /\ IsSeq(qs) /\ Len(qs) = Len(ps)
    /\ \A k \in 1 .. Len(ps) :
          /\ qs[k].name = ps[k].name /\ Len(ps[k].names) <= Len(qs[k].names)
          /\ \A n \in 1 .. Len(ps[k].names) : qs[k].names[n] = ps[k].names[n]

LEMMA PoolSeqs ==
    ASSUME NEW objs, NEW ps, PoolsSound(objs, ps)
    PROVE  /\ IsSeq(ps) /\ Len(ps) \in Nat /\ DOMAIN ps = 1 .. Len(ps)
           /\ \A k \in 1 .. Len(ps) :
                 /\ PoolSound(objs, ps[k]) /\ IsSeq(ps[k].names)
                 /\ Len(ps[k].names) \in Nat /\ DOMAIN ps[k].names = 1 .. Len(ps[k].names)
<1>1. IsSeq(ps) /\ \A k \in 1 .. Len(ps) : PoolSound(objs, ps[k])
  BY DEF PoolsSound
<1>2. \A k \in 1 .. Len(ps) : IsSeq(ps[k].names)
  BY <1>1 DEF PoolSound
<1> QED
  BY <1>1, <1>2, SeqFacts

LEMMA ExtendsTrans ==
    ASSUME NEW objs, NEW ps, PoolsSound(objs, ps), NEW qs, PoolsSound(objs, qs),
           NEW rs, PoolsSound(objs, rs), Extends(ps, qs), Extends(qs, rs)
    PROVE  Extends(ps, rs)
<1>1. Len(qs) = Len(ps) /\ Len(rs) = Len(ps) /\ IsSeq(rs)
  BY DEF Extends
<1>2. ASSUME NEW k \in 1 .. Len(ps)
      PROVE  /\ rs[k].name = ps[k].name /\ Len(ps[k].names) <= Len(rs[k].names)
             /\ \A n \in 1 .. Len(ps[k].names) : rs[k].names[n] = ps[k].names[n]
  <2>1. /\ Len(ps[k].names) \in Nat /\ Len(qs[k].names) \in Nat /\ Len(rs[k].names) \in Nat
    BY <1>1, PoolSeqs
  <2>2. /\ qs[k].name = ps[k].name /\ Len(ps[k].names) <= Len(qs[k].names)
        /\ \A n \in 1 .. Len(ps[k].names) : qs[k].names[n] = ps[k].names[n]
    BY DEF Extends
  <2>3. /\ rs[k].name = qs[k].name /\ Len(qs[k].names) <= Len(rs[k].names)
        /\ \A n \in 1 .. Len(qs[k].names) : rs[k].names[n] = qs[k].names[n]
    BY <1>1 DEF Extends
  <2> QED
    BY <2>1, <2>2, <2>3
<1> QED
  BY <1>1, <1>2 DEF Extends

LEMMA ExtendsSame ==
    ASSUME NEW objs, NEW ps, PoolsSound(objs, ps)
    PROVE  Extends(ps, ps)
BY PoolSeqs DEF Extends

\* A slot stays right when requests are added.
LEMMA SlotKept ==
    ASSUME NEW objs, NEW ps, PoolsSound(objs, ps), NEW qs, PoolsSound(objs, qs), Extends(ps, qs),
           NEW x, NEW t, SlotFits(objs, ps, x, t)
    PROVE  SlotFits(objs, qs, x, t)
<1>0. PICK o \in 1 .. Len(objs) : \E k \in 1 .. Len(objs[o].allocs) :
         LET a == objs[o].allocs[k]
         IN  /\ x = <<o, a.section>>
             /\ t.pool \in 1 .. Len(ps) /\ ps[t.pool].name = a.pool
             /\ t.req \in 1 .. Len(ps[t.pool].names) /\ ps[t.pool].names[t.req] = a.name
  BY DEF SlotFits
<1>1. PICK k \in 1 .. Len(objs[o].allocs) :
         LET a == objs[o].allocs[k]
         IN  /\ x = <<o, a.section>>
             /\ t.pool \in 1 .. Len(ps) /\ ps[t.pool].name = a.pool
             /\ t.req \in 1 .. Len(ps[t.pool].names) /\ ps[t.pool].names[t.req] = a.name
  BY <1>0
<1> DEFINE a == objs[o].allocs[k]
           p == t.pool
           n == t.req
<1>2. /\ x = <<o, a.section>> /\ p \in 1 .. Len(ps) /\ ps[p].name = a.pool
      /\ n \in 1 .. Len(ps[p].names) /\ ps[p].names[n] = a.name
  BY <1>1
<1> HIDE DEF a, p, n
<1>3. /\ Len(qs) = Len(ps) /\ qs[p].name = ps[p].name /\ Len(ps[p].names) <= Len(qs[p].names)
      /\ qs[p].names[n] = ps[p].names[n]
  BY <1>2 DEF Extends
<1>4. Len(ps[p].names) \in Nat /\ Len(qs[p].names) \in Nat
  BY <1>2, <1>3, PoolSeqs
<1>5. /\ x = <<o, a.section>> /\ p \in 1 .. Len(qs) /\ qs[p].name = a.pool
      /\ n \in 1 .. Len(qs[p].names) /\ qs[p].names[n] = a.name
  BY <1>2, <1>3, <1>4
<1> QED
  BY <1>5 DEF SlotFits, a, p, n

\* A pool with one request more.
Asking(p, reqs, names) == [p EXCEPT !.reqs = reqs, !.names = names]

LEMMA GrownPool ==
    ASSUME NEW p, MergedShape(p), NEW names, NEW reqs,
           NEW q, q = Asking(p, reqs, names)
    PROVE  /\ q.name = p.name /\ q.ranges = p.ranges /\ q.names = names /\ q.reqs = reqs
           /\ q.strategy = p.strategy /\ MergedShape(q)
<1>1. q = [name |-> p.name, strategy |-> p.strategy, bss |-> p.bss, ranges |-> p.ranges,
           names |-> names, reqs |-> reqs, addr |-> p.addr]
  BY DEF MergedShape, Asking
<1>2. /\ q.name = p.name /\ q.ranges = p.ranges /\ q.names = names /\ q.reqs = reqs
      /\ q.strategy = p.strategy /\ q.bss = p.bss /\ q.addr = p.addr
  BY <1>1
<1>3. MergedShape(q)
  BY <1>1, <1>2 DEF MergedShape
<1> QED
  BY <1>2, <1>3

OneMore(p, q, name) ==
    /\ q.name = p.name
    /\ Len(q.names) = Len(p.names) + 1 /\ q.names[Len(p.names) + 1] = name
    /\ \A k \in 1 .. Len(p.names) : q.names[k] = p.names[k]

LEMMA MoreRequests ==
    ASSUME NEW objs, NEW p, PoolSound(objs, p), NEW name, NEW req, req \in Requests,
           \A k \in 1 .. Len(p.names) : p.names[k] # name,
           AskedIn(objs, p.name, name, req.size),
           NEW q, q = Requesting(p, req, name)
    PROVE  PoolSound(objs, q) /\ OneMore(p, q, name)
<1> DEFINE names == Append(p.names, name)
           reqs == Append(p.reqs, req)
           l == Len(p.names)
<1>1. /\ MergedShape(p) /\ DeclSound(p) /\ Covers(objs, p.name, p.ranges)
      /\ p.reqs \in Seq(Requests) /\ IsSeq(p.names) /\ Len(p.reqs) = l /\ l \in Nat
  BY SeqFacts DEF PoolSound
<1>2. /\ IsSeq(names) /\ Len(names) = l + 1 /\ names[l + 1] = name
      /\ \A k \in 1 .. l : names[k] = p.names[k]
  BY <1>1, AppendFacts
<1>3. /\ reqs \in Seq(Requests) /\ Len(reqs) = l + 1 /\ reqs[l + 1] = req
      /\ \A k \in 1 .. l : reqs[k] = p.reqs[k]
  <2> DEFINE R == Requests
  <2>1. p.reqs \in Seq(R) /\ req \in R
    BY <1>1
  <2> HIDE DEF R, l
  <2>2. /\ reqs \in Seq(R) /\ Len(reqs) = Len(p.reqs) + 1 /\ reqs[Len(p.reqs) + 1] = req
        /\ \A k \in 1 .. Len(p.reqs) : reqs[k] = p.reqs[k]
    BY <2>1
  <2> HIDE DEF reqs
  <2> QED
    BY <2>2, <1>1 DEF R
<1>4. q = Asking(p, reqs, names)
  BY DEF Requesting, Asking
<1> HIDE DEF names, reqs
<1>6. /\ q.name = p.name /\ q.ranges = p.ranges /\ q.names = names /\ q.reqs = reqs
      /\ q.strategy = p.strategy /\ MergedShape(q)
  BY <1>1, <1>4, GrownPool
<1>8. DeclSound(q) /\ Covers(objs, q.name, q.ranges)
  BY <1>1, <1>6 DEF DeclSound
<1> HIDE DEF l
<1>9. \A k \in 1 .. l + 1 : k \in 1 .. l \/ k = l + 1
  BY <1>1
<1>10. \A k \in 1 .. l : names[k] # name
  BY <1>2 DEF l
<1>11. ASSUME NEW k \in 1 .. l + 1, NEW n \in 1 .. l + 1, names[k] = names[n] PROVE k = n
  <2>1. CASE k \in 1 .. l /\ n \in 1 .. l
    BY <2>1, <1>2, <1>11 DEF PoolSound, l
  <2>2. CASE k = l + 1 \/ n = l + 1
    BY <2>2, <1>2, <1>9, <1>10, <1>11
  <2> QED
    BY <2>1, <2>2, <1>9
<1>12. ASSUME NEW k \in 1 .. l + 1 PROVE AskedIn(objs, p.name, names[k], reqs[k].size)
  <2>1. CASE k \in 1 .. l
    <3>1. AskedIn(objs, p.name, p.names[k], p.reqs[k].size)
      BY <2>1 DEF PoolSound, l
    <3> QED
      BY <3>1, <2>1, <1>2, <1>3
  <2>2. CASE k = l + 1
    BY <2>2, <1>2, <1>3
  <2> QED
    BY <2>1, <2>2, <1>9
<1>13. PoolSound(objs, q)
  <2>1. q.reqs \in Seq(Requests) /\ IsSeq(q.names) /\ Len(q.names) = Len(q.reqs)
    BY <1>2, <1>3, <1>6
  <2>2. \A k, n \in 1 .. Len(q.names) : q.names[k] = q.names[n] => k = n
    BY <1>2, <1>6, <1>11
  <2>3. \A k \in 1 .. Len(q.names) : AskedIn(objs, q.name, q.names[k], q.reqs[k].size)
    BY <1>2, <1>6, <1>12
  <2> QED
    BY <2>1, <2>2, <2>3, <1>6, <1>8 DEF PoolSound
<1> QED
  BY <1>2, <1>6, <1>13 DEF l, OneMore

\* A PoolAlloc as object files have them.
Asks(a) ==
    /\ Rank[a.name.id] \in Nat /\ a.size \in Nat /\ a.size > 0
    /\ a.pin \in Nat \cup {Floating}

\* What RequestOne makes of the pools and the slots.
NewRequest(a) == [name |-> Rank[a.name.id], size |-> a.size, pin |-> a.pin]
Enlarged(p, a) == Requesting(p, NewRequest(a), a.name)

OneRequest(o, acc, a, n) ==
    LET r == RequestOne(o, acc, a)
        k == PoolIndex(acc.pools, a.pool)
        p == acc.pools[k]
    IN  /\ r.slots = Bound(acc.slots, <<o, a.section>>, [pool |-> k, req |-> n])
        /\ Prior(p, a) # {} => n \in Prior(p, a) /\ r.pools = acc.pools
        /\ Prior(p, a) = {} => /\ n = Len(p.reqs) + 1
                               /\ r.pools = Replaced(acc.pools, k, Enlarged(p, a))

LEMMA RequestOneIs ==
    ASSUME NEW o, NEW acc, NEW a,
           Prior(acc.pools[PoolIndex(acc.pools, a.pool)], a) \in SUBSET Nat
    PROVE  \E n : OneRequest(o, acc, a, n)
<1>1. PICK k : k = PoolIndex(acc.pools, a.pool)
  OBVIOUS
<1>2. PICK p : p = acc.pools[k]
  OBVIOUS
<1>3. PICK r : r = RequestOne(o, acc, a)
  OBVIOUS
<1> DEFINE prior == Prior(p, a)
           place == <<o, a.section>>
<1>4. SUFFICES \E n : /\ r.slots = Bound(acc.slots, place, [pool |-> k, req |-> n])
                      /\ prior # {} => n \in prior /\ r.pools = acc.pools
                      /\ prior = {} => /\ n = Len(p.reqs) + 1
                                       /\ r.pools = Replaced(acc.pools, k, Enlarged(p, a))
  BY <1>1, <1>2, <1>3 DEF OneRequest
<1>5. CASE prior # {}
  <2>1. PICK n \in prior : \A j \in prior : n <= j
    <3> HIDE DEF prior
    <3>1. prior \in SUBSET Nat
      BY <1>1, <1>2 DEF prior
    <3> QED
      BY <1>5, <3>1, CodeSteps!LeastNumber
  <2>2. Min(prior) \in prior
    BY <2>1 DEF Min
  <2>3. r.slots = Bound(acc.slots, place, [pool |-> k, req |-> Min(prior)]) /\ r.pools = acc.pools
    BY <1>1, <1>2, <1>3, <1>5 DEF RequestOne
  <2> QED
    BY <1>5, <2>2, <2>3
<1>6. CASE prior = {}
  <2> DEFINE n == Len(p.reqs) + 1
  <2>1. r.slots = Bound(acc.slots, place, [pool |-> k, req |-> n])
    BY <1>1, <1>2, <1>3, <1>6 DEF RequestOne
  <2>2. r.pools = [acc.pools EXCEPT ![k] = Enlarged(acc.pools[k], a)]
    BY <1>1, <1>2, <1>3, <1>6 DEF RequestOne, NewRequest, Enlarged
  <2>3. r.pools = Replaced(acc.pools, k, Enlarged(p, a))
    BY <2>2, <1>2 DEF Replaced
  <2>4. n = Len(p.reqs) + 1
    OBVIOUS
  <2> HIDE DEF n, prior, place
  <2> QED
    BY <1>6, <2>1, <2>3, <2>4
<1> QED
  BY <1>5, <1>6

Entered(objs, acc, r, place) ==
    /\ PoolsSound(objs, r.pools) /\ Extends(acc.pools, r.pools)
    /\ SlotsFit(objs, r.pools, r.slots)
    /\ DOMAIN r.slots = DOMAIN acc.slots \cup {place}

LEMMA RequestSound ==
    ASSUME NEW objs, NEW acc, PoolsSound(objs, acc.pools),
           SlotsFit(objs, acc.pools, acc.slots),
           NEW o \in 1 .. Len(objs), NEW j \in 1 .. Len(objs[o].allocs),
           NEW a, a = objs[o].allocs[j], Asks(a), HasPool(acc.pools, a.pool),
           NEW r, r = RequestOne(o, acc, a)
    PROVE  Entered(objs, acc, r, <<o, a.section>>)
<1> DEFINE ps == acc.pools
           place == <<o, a.section>>
<1>1. PICK k : k = PoolIndex(ps, a.pool)
  OBVIOUS
<1>2. PICK p : p = ps[k]
  OBVIOUS
<1>3. /\ IsSeq(ps) /\ k \in 1 .. Len(ps) /\ p.name = a.pool
      /\ PoolSound(objs, p) /\ Len(p.names) \in Nat /\ DOMAIN p.names = 1 .. Len(p.names)
  <2>1. IsSeq(ps)
    BY PoolSeqs
  <2>2. k \in 1 .. Len(ps) /\ ps[k].name = a.pool
    BY <2>1, <1>1, PoolAt
  <2> QED
    BY <2>1, <2>2, <1>2, PoolSeqs
<1>4. /\ \A n \in Prior(p, a) : n \in 1 .. Len(p.names) /\ p.names[n] = a.name
      /\ Prior(p, a) = {} => \A n \in 1 .. Len(p.names) : p.names[n] # a.name
  BY <1>3 DEF Prior
<1>5. Prior(p, a) \in SUBSET Nat
  BY <1>3, <1>4
<1>6. PICK n :
         /\ r.slots = Bound(acc.slots, place, [pool |-> k, req |-> n])
         /\ Prior(p, a) # {} => n \in Prior(p, a) /\ r.pools = ps
         /\ Prior(p, a) = {} => n = Len(p.reqs) + 1 /\ r.pools = Replaced(ps, k, Enlarged(p, a))
  <2>1. Prior(acc.pools[PoolIndex(acc.pools, a.pool)], a) \in SUBSET Nat
    BY <1>1, <1>2, <1>5
  <2>2. PICK n : OneRequest(o, acc, a, n)
    BY <2>1, RequestOneIs
  <2> QED
    BY <2>2, <1>1, <1>2 DEF OneRequest
<1> HIDE DEF place
<1> DEFINE t == [pool |-> k, req |-> n]
           qs == r.pools
<1>7. /\ PoolsSound(objs, qs) /\ Extends(ps, qs)
      /\ k \in 1 .. Len(qs) /\ qs[k].name = a.pool
      /\ n \in 1 .. Len(qs[k].names) /\ qs[k].names[n] = a.name
  <2>1. CASE Prior(p, a) # {}
    <3>1. qs = ps /\ n \in 1 .. Len(p.names) /\ p.names[n] = a.name
      BY <2>1, <1>4, <1>6
    <3> HIDE DEF qs, ps
    <3>2. PoolsSound(objs, qs) /\ Extends(ps, qs)
      BY <3>1, ExtendsSame DEF ps
    <3> QED
      BY <3>1, <3>2, <1>2, <1>3
  <2>2. CASE Prior(p, a) = {}
    <3> DEFINE q == Enlarged(p, a)
               l == Len(p.names)
    <3>1. n = l + 1 /\ qs = Replaced(ps, k, q)
      BY <2>2, <1>3, <1>6 DEF PoolSound
    <3>2. NewRequest(a) \in Requests /\ NewRequest(a).size = a.size
      <4>1. Rank[a.name.id] \in Nat /\ a.size \in Nat /\ a.size > 0 /\ a.pin \in Nat \cup {Floating}
        BY DEF Asks
      <4> DEFINE x == Rank[a.name.id]
      <4> HIDE DEF x
      <4>2. x \in Nat /\ a.size \in Nat \ {0} /\ a.pin \in Nat \cup {Floating}
        BY <4>1 DEF x
      <4>3. NewRequest(a) = [name |-> x, size |-> a.size, pin |-> a.pin]
        BY DEF NewRequest, x
      <4> QED
        BY <4>2, <4>3 DEF Requests
    <3>3. AskedIn(objs, p.name, a.name, NewRequest(a).size)
      BY <3>2, <1>3 DEF AskedIn
    <3>n. PICK req : req = NewRequest(a)
      OBVIOUS
    <3>q. q = Requesting(p, req, a.name)
      BY <3>n DEF Enlarged
    <3>p. \A x \in 1 .. Len(p.names) : p.names[x] # a.name
      BY <2>2, <1>4
    <3> HIDE DEF q, qs, ps, l
    <3>4. /\ PoolSound(objs, q) /\ q.name = p.name
          /\ Len(q.names) = l + 1 /\ q.names[l + 1] = a.name
          /\ \A x \in 1 .. l : q.names[x] = p.names[x]
      <4>1. req \in Requests /\ AskedIn(objs, p.name, a.name, req.size) /\ PoolSound(objs, p)
        BY <3>n, <3>2, <3>3, <1>3
      <4>2. PoolSound(objs, q) /\ OneMore(p, q, a.name)
        BY <4>1, <3>q, <3>p, MoreRequests, Zenon
      <4> QED
        BY <4>2 DEF l, OneMore
    <3>5. PoolsSound(objs, qs)
      BY <3>1, <3>4, <1>2, <1>3, ChangedPools DEF ps
    <3>6. /\ IsSeq(qs) /\ Len(qs) = Len(ps) /\ qs[k] = q
          /\ \A x \in 1 .. Len(ps) : x # k => qs[x] = ps[x]
      BY <3>1, <1>3, ReplacedFacts
    <3>7. l \in Nat /\ n \in 1 .. Len(q.names)
      <4>1. l \in Nat
        BY <1>3 DEF l
      <4> QED
        BY <4>1, <3>1, <3>4
    <3>8. ASSUME NEW x \in 1 .. Len(ps)
          PROVE  /\ qs[x].name = ps[x].name /\ Len(ps[x].names) <= Len(qs[x].names)
                 /\ \A y \in 1 .. Len(ps[x].names) : qs[x].names[y] = ps[x].names[y]
      <4>1. CASE x = k
        <5>1. qs[x] = q /\ ps[x] = p
          BY <4>1, <3>6, <1>2
        <5>2. Len(p.names) <= Len(q.names)
          BY <3>4, <3>7 DEF l
        <5> QED
          BY <5>1, <5>2, <3>4 DEF l
      <4>2. CASE x # k
        <5>1. qs[x] = ps[x]
          BY <4>2, <3>6
        <5>2. Len(ps[x].names) \in Nat
          BY PoolSeqs DEF ps
        <5> QED
          BY <5>1, <5>2
      <4> QED
        BY <4>1, <4>2
    <3>9. Extends(ps, qs)
      BY <3>6, <3>8 DEF Extends
    <3> QED
      BY <3>1, <3>4, <3>5, <3>6, <3>7, <3>9, <1>3
  <2> QED
    BY <2>1, <2>2
<1>8. DOMAIN r.slots = DOMAIN acc.slots \cup {place} /\ r.slots[place] = t
      /\ \A x \in DOMAIN acc.slots : x # place => r.slots[x] = acc.slots[x]
  BY <1>6 DEF Bound
<1> HIDE DEF qs
<1>9. SlotFits(objs, qs, place, t)
  <2>1. t.pool = k /\ t.req = n
    OBVIOUS
  <2> HIDE DEF t
  <2> QED
    BY <2>1, <1>7 DEF SlotFits, place
<1> HIDE DEF t, ps
<1>10. ASSUME NEW x \in DOMAIN r.slots PROVE SlotFits(objs, qs, x, r.slots[x])
  <2>1. CASE x = place
    BY <2>1, <1>8, <1>9
  <2>2. CASE x # place
    <3>1. x \in DOMAIN acc.slots /\ r.slots[x] = acc.slots[x]
      BY <2>2, <1>8
    <3>2. SlotFits(objs, ps, x, acc.slots[x])
      BY <3>1 DEF SlotsFit, ps
    <3> QED
      BY <3>1, <3>2, <1>7, SlotKept DEF ps
  <2> QED
    BY <2>1, <2>2
<1>11. SlotsFit(objs, qs, r.slots)
  BY <1>10 DEF SlotsFit
<1> QED
  BY <1>7, <1>8, <1>11 DEF qs, ps, place, Entered

\* The requests of an object file are proper ones.
LEMMA PinNode ==
    ASSUME NEW x \in Nodes, IsAlloc(x)
    PROVE  x.pin \in Nat \cup {Floating}
<1> DEFINE B == Seq(BodyNodes)
           R == RangesTaken
           P == Nat \cup {Floating}
<1>1. \/ x \in [kind : {"alloc"}, pool : STRING, id : STRING, pin : P, body : B]
      \/ x \in [kind : {"at"}, pool : STRING, id : STRING, range : R, pin : {Floating}, body : B]
  BY DEF Nodes, BodyNodes, IsAlloc
<1>2. Floating \in P
  OBVIOUS
<1> HIDE DEF B, R, P
<1>3. x.pin \in P
  BY <1>1, <1>2
<1> QED
  BY <1>3 DEF P

LEMMA RequestAsks ==
    ASSUME ObjectsSound, NEW o \in 1 .. Len(objects), NEW k \in 1 .. Len(objects[o].allocs)
    PROVE  /\ IsSeq(objects[o].allocs)
           /\ Asks(objects[o].allocs[k])
           /\ RequestOf(source[o], objects[o].allocs[k])
<1> DEFINE a == objects[o].allocs[k]
           nodes == source[o]
<1>1. source \in Programs /\ source \in Seq(Seq(Nodes)) /\ o \in DOMAIN source
      /\ nodes \in Seq(Nodes)
  <2>1. /\ source \in Programs /\ source \in Seq(Seq(Nodes))
        /\ IsSeq(objects) /\ Len(objects) <= Len(source)
    BY ProgramAssumption DEF ObjectsSound
  <2>2. Len(objects) \in Nat /\ Len(source) \in Nat /\ DOMAIN source = 1 .. Len(source)
    BY <2>1, SeqFacts
  <2>3. o \in 1 .. Len(source)
    BY <2>1, <2>2
  <2> DEFINE S == Seq(Nodes)
  <2>4. source[o] \in S
    <3>1. source \in Seq(S)
      BY <2>1
    <3> HIDE DEF S
    <3> QED
      BY <3>1, <2>3
  <2> QED
    BY <2>1, <2>2, <2>3, <2>4
<1>2. IsSeq(objects[o].allocs) /\ RequestOf(nodes, a)
  BY DEF ObjectsSound, ObjectSound, AllocsSound
<1>3. PICK j \in DOMAIN nodes :
         /\ IsAlloc(nodes[j]) /\ a.pool = nodes[j].pool /\ a.name = Plain(nodes[j].id)
         /\ a.size = SlotSize(nodes[j]) /\ a.pin = nodes[j].pin
  BY <1>2 DEF RequestOf
<1>4. nodes[j] \in Nodes
  <2> DEFINE S == Nodes
  <2>1. nodes \in Seq(S)
    BY <1>1
  <2> HIDE DEF S, nodes
  <2>2. nodes[j] \in S
    BY <2>1
  <2> QED
    BY <2>2 DEF S
<1>5. a.size \in Nat /\ a.size > 0
  BY <1>3, <1>4, NodeFacts, EmittedFits
<1>6. a.pin \in Nat \cup {Floating}
  BY <1>3, <1>4, PinNode
<1>7. Rank[nodes[j].id] \in Nat
  BY <1>1, <1>3, RankAssumption
<1>8. a.name.id = nodes[j].id
  BY <1>3 DEF Plain
<1> HIDE DEF a, nodes
<1>9. Asks(a)
  BY <1>5, <1>6, <1>7, <1>8 DEF Asks
<1> QED
  BY <1>2, <1>9 DEF a, nodes

LEMMA HasPoolKept ==
    ASSUME NEW ps, IsSeq(ps), NEW qs, Extends(ps, qs), NEW name, HasPool(ps, name)
    PROVE  HasPool(qs, name)
<1>1. PICK k \in 1 .. Len(ps) : ps[k].name = name
  BY SeqFacts DEF HasPool
<1>2. IsSeq(qs) /\ k \in 1 .. Len(qs) /\ qs[k].name = name
  BY <1>1 DEF Extends
<1> QED
  BY <1>2, SeqFacts DEF HasPool

\* What the fold over an object's requests has come to, k of them served.
RequestsSound(ps, ts, q, acc, k) ==
    /\ PoolsSound(objects, acc.pools) /\ Extends(ps, acc.pools)
    /\ SlotsFit(objects, acc.pools, acc.slots)
    /\ DOMAIN ts \subseteq DOMAIN acc.slots
    /\ \A n \in 1 .. k : <<i, q[n].section>> \in DOMAIN acc.slots

LEMMA RequestsServed ==
    ASSUME i \in 1 .. Len(objects), NEW ps, PoolsSound(objects, ps), NEW ts, SlotsFit(objects, ps, ts),
           NEW q, q = objects[i].allocs, IsSeq(q),
           \A k \in 1 .. Len(q) : Asks(q[k]) /\ HasPool(ps, q[k].pool),
           NEW all, all = SlotSteps!Left([slots |-> ts, pools |-> ps], q)
    PROVE  RequestsSound(ps, ts, q, all, Len(q))
<1> DEFINE start == [slots |-> ts, pools |-> ps]
<1>1. Len(q) \in Nat
  BY SeqFacts
<1>2. all = SlotSteps!Left(start, q)
  OBVIOUS
<1>s. start.slots = ts /\ start.pools = ps
  OBVIOUS
<1> HIDE DEF start
<1>3. PICK run : SlotSteps!IsRun(start, q, run) /\ SlotSteps!Left(start, q) = run[Len(q)]
  BY <1>1, SlotSteps!FoldIsRun
<1> DEFINE Good(k) == RequestsSound(ps, ts, q, run[k], k)
           D == {k \in 0 .. Len(q) : Good(k)}
<1>4. 0 \in D
  <2>1. run[0].slots = ts /\ run[0].pools = ps
    BY <1>3, <1>s DEF SlotSteps!IsRun
  <2>2. Good(0)
    BY <2>1, ExtendsSame DEF RequestsSound
  <2> QED
    BY <2>2, <1>1
<1>5. ASSUME NEW k \in 1 .. Len(q), k - 1 \in D PROVE k \in D
  <2>1. PICK acc : acc = run[k - 1]
    OBVIOUS
  <2>2. PICK r : r = run[k]
    OBVIOUS
  <2>3. r = RequestOne(i, acc, q[k])
    BY <1>3, <2>1, <2>2 DEF SlotSteps!IsRun, RequestStep
  <2>4. RequestsSound(ps, ts, q, acc, k - 1)
    BY <1>5, <2>1
  <2>5. /\ PoolsSound(objects, acc.pools) /\ Extends(ps, acc.pools)
        /\ SlotsFit(objects, acc.pools, acc.slots)
        /\ DOMAIN ts \subseteq DOMAIN acc.slots
        /\ \A n \in 1 .. k - 1 : <<i, q[n].section>> \in DOMAIN acc.slots
    BY <2>4 DEF RequestsSound
  <2>6. IsSeq(ps) /\ HasPool(ps, q[k].pool) /\ Asks(q[k])
    BY PoolSeqs
  <2>7. HasPool(acc.pools, q[k].pool)
    BY <2>5, <2>6, HasPoolKept
  <2>8. PICK a : a = q[k]
    OBVIOUS
  <2>9. /\ PoolsSound(objects, r.pools) /\ Extends(acc.pools, r.pools)
        /\ SlotsFit(objects, r.pools, r.slots)
        /\ DOMAIN r.slots = DOMAIN acc.slots \cup {<<i, a.section>>}
    <3>1. a = objects[i].allocs[k] /\ k \in 1 .. Len(objects[i].allocs)
      BY <2>8
    <3>2. Asks(a) /\ HasPool(acc.pools, a.pool) /\ r = RequestOne(i, acc, a)
      BY <2>3, <2>6, <2>7, <2>8
    <3>3. PICK j \in 1 .. Len(objects[i].allocs) : a = objects[i].allocs[j]
      BY <3>1
    <3>4. PoolsSound(objects, acc.pools) /\ SlotsFit(objects, acc.pools, acc.slots)
      BY <2>5
    <3>5. Entered(objects, acc, r, <<i, a.section>>)
      BY <3>2, <3>3, <3>4, RequestSound, Zenon
    <3> QED
      BY <3>5 DEF Entered
  <2>10. Extends(ps, r.pools)
    BY <2>5, <2>9, ExtendsTrans
  <2>11. \A n \in 1 .. k : <<i, q[n].section>> \in DOMAIN r.slots
    <3>1. ASSUME NEW n \in 1 .. k PROVE <<i, q[n].section>> \in DOMAIN r.slots
      <4>1. n \in 1 .. k - 1 \/ n = k
        BY <1>1
      <4>2. n \in 1 .. k - 1 => <<i, q[n].section>> \in DOMAIN acc.slots
        BY <2>5
      <4>3. n = k => q[n] = a
        BY <2>8
      <4> QED
        BY <4>1, <4>2, <4>3, <2>9
    <3> QED
      BY <3>1
  <2>12. RequestsSound(ps, ts, q, r, k)
    BY <2>5, <2>9, <2>10, <2>11 DEF RequestsSound
  <2> QED
    BY <2>2, <2>12, <1>1
<1> HIDE DEF D
<1>6. Len(q) \in D
  BY <1>1, <1>4, <1>5, CodeSteps!UpFromZero
<1> QED
  BY <1>2, <1>3, <1>6 DEF D

-----------------------------------------------------------------------------
(* The pools through the linker's phases.                                  *)

Late == {"ingest", "aliases", "check", "relocate", "linked"}

Requested(o) ==
    \A k \in 1 .. Len(objects[o].allocs) : <<o, objects[o].allocs[k].section>> \in DOMAIN slots

\* allocate() has served every request of the pool: in a range, all apart.
Allotted(p) ==
    \A k \in 1 .. Len(p.reqs) :
        /\ p.addr[k] \in Nat
        /\ \E r \in p.ranges : Holds(r, p.addr[k], p.reqs[k].size)
        /\ \A n \in 1 .. Len(p.reqs) :
              n # k => Apart(p.addr[k], p.reqs[k].size, p.addr[n], p.reqs[n].size)

\* A linked section is one of an object, in its slot if it has one.
LinkedFits(t) ==
    /\ t.index \in 1 .. Len(objects[t.obj].sections)
    /\ t.code = objects[t.obj].sections[t.index].code
    /\ Pooled(t.obj, t.index) => t.base = Slot(t.obj, t.index).addr

PoolsInv ==
    /\ phase \in Walks => merged = <<>> /\ slots = NoFunction /\ linked = <<>>
    /\ phase \in Linking => PoolsSound(objects, merged) /\ SlotsFit(objects, merged, slots)
    /\ phase = "merge" => slots = NoFunction
    /\ phase \in {"merge", "request", "allocate"} => linked = <<>>
    /\ phase = "request" => \A o \in 1 .. i - 1 : Requested(o)
    /\ phase = "allocate" =>
          /\ \A o \in 1 .. Len(objects) : Requested(o)
          /\ i \in 1 .. Len(merged) /\ \A k \in 1 .. i - 1 : Allotted(merged[k])
    /\ phase \in Late =>
          /\ \A o \in 1 .. Len(objects) : Requested(o)
          /\ \A k \in 1 .. Len(merged) : Allotted(merged[k])
          /\ \A s \in 1 .. Len(linked) : LinkedFits(linked[s])

LEMMA PhasesApart ==
    /\ Walks \cap Linking = {} /\ Late \subseteq Linking /\ Late \cap Walks = {}
    /\ "failed" \notin Walks \cup Linking \cup Late
    /\ Late \cap {"merge", "request", "allocate"} = {}
    /\ {"merge", "request", "allocate"} \subseteq Linking
BY DEF Walks, Linking, Late

LEMMA FailPools ==
    ASSUME NEW reason, Fail(reason)
    PROVE  PoolsInv'
<1>1. phase' = "failed"
  BY DEF Fail
<1> QED
  BY <1>1 DEF PoolsInv, Walks, Linking, Late

LEMMA NoSlots ==
    ASSUME NEW objs, NEW ps
    PROVE  SlotsFit(objs, ps, NoFunction)
BY DEF SlotsFit, NoFunction

\* Compiling the modules makes no pool.
LEMMA WalkPhases ==
    ASSUME CompileNext
    PROVE  phase \in Walks /\ phase' \in Walks \cup {"failed", "merge"}
<1> USE DEF Walks, At, Advance, Fail
<1>1. CASE GeneratePool \/ GenerateReclaim \/ GenerateAlloc \/ GeneratePinned \/ GenerateOther
  BY <1>1 DEF GeneratePool, GenerateReclaim, GenerateAlloc, GeneratePinned, GenerateOther
<1>2. CASE RequestSlot \/ BindLabel \/ DeclareLabel \/ DeclareExtern \/ MoveOn \/ PassOver
  BY <1>2 DEF RequestSlot, BindLabel, DeclareLabel, DeclareExtern, MoveOn, PassOver
<1>3. CASE RegisterAlias \/ RevisitOther \/ ExportSymbols
  BY <1>3 DEF RegisterAlias, RevisitOther, ExportSymbols
<1>4. CASE EmitAlloc
  BY <1>4 DEF EmitAlloc
<1>5. CASE EmitBytes \/ EmitOrg \/ EmitIps \/ EmitNothing
  BY <1>5 DEF EmitBytes, EmitOrg, EmitIps, EmitNothing
<1>6. CASE NextWalk
  BY <1>6 DEF NextWalk
<1>7. CASE FinishModule
  BY <1>7 DEF FinishModule
<1> QED
  BY <1>1, <1>2, <1>3, <1>4, <1>5, <1>6, <1>7 DEF CompileNext

LEMMA CompilePools ==
    ASSUME PoolsInv, CompileNext, UNCHANGED linkVars
    PROVE  PoolsInv'
<1>1. /\ phase \in Walks /\ phase' \in Walks \cup {"failed", "merge"}
      /\ merged' = merged /\ slots' = slots /\ linked' = linked
  BY WalkPhases DEF linkVars
<1>2. merged' = <<>> /\ slots' = NoFunction /\ linked' = <<>>
  BY <1>1 DEF PoolsInv
<1>3. PoolsSound(objects', merged') /\ SlotsFit(objects', merged', slots')
  <2>1. PICK objs : objs = objects'
    OBVIOUS
  <2>2. PoolsSound(objs, <<>>) /\ SlotsFit(objs, <<>>, NoFunction)
    BY NoPools, NoSlots
  <2> QED
    BY <2>1, <2>2, <1>2
<1>4. phase' \notin Late /\ phase' \notin {"request", "allocate"}
  BY <1>1 DEF Walks, Late
<1> QED
  BY <1>2, <1>3, <1>4 DEF PoolsInv

\* The steps behind the allocator that change no pool.
LEMMA LatePools ==
    ASSUME PoolsInv, phase \in Late, phase' \in Late, objects' = objects, merged' = merged,
           slots' = slots, \A s \in 1 .. Len(linked') : LinkedFits(linked[s])'
    PROVE  PoolsInv'
<1>1. /\ phase' \notin Walks /\ phase' \notin {"merge", "request", "allocate"}
  BY PhasesApart
<1>2. phase \in Linking
  BY PhasesApart
<1>3. PoolsSound(objects', merged') /\ SlotsFit(objects', merged', slots')
  BY <1>2 DEF PoolsInv
<1>4. \A o \in 1 .. Len(objects') : Requested(o)'
  BY DEF PoolsInv, Requested
<1>5. \A k \in 1 .. Len(merged') : Allotted(merged[k])'
  BY DEF PoolsInv, Allotted
<1> QED
  BY <1>1, <1>3, <1>4, <1>5 DEF PoolsInv

LEMMA QuietPools ==
    ASSUME PoolsInv, ResolveAliases \/ AliasesDone \/ CheckUnresolved \/ ApplyRelocations
    PROVE  PoolsInv'
<1>1. /\ phase \in Late
      /\ \/ \E reason : Fail(reason)
         \/ /\ phase' \in Late /\ objects' = objects /\ merged' = merged /\ slots' = slots
            /\ linked' = linked
  <2> USE DEF Late
  <2>1. CASE ResolveAliases
    BY <2>1 DEF ResolveAliases, Abort, buildVars
  <2>2. CASE AliasesDone
    BY <2>2 DEF AliasesDone, Goto, linkVars
  <2>3. CASE CheckUnresolved
    BY <2>3 DEF CheckUnresolved, Abort, Goto, linkVars
  <2>4. CASE ApplyRelocations
    BY <2>4 DEF ApplyRelocations, Abort, Goto
  <2> QED
    BY <2>1, <2>2, <2>3, <2>4
<1>2. CASE /\ phase' \in Late /\ objects' = objects /\ merged' = merged /\ slots' = slots
           /\ linked' = linked
  <2>1. \A s \in 1 .. Len(linked') : LinkedFits(linked[s])'
    BY <1>1, <1>2 DEF PoolsInv, LinkedFits, Pooled, Slot
  <2> QED
    BY <1>1, <1>2, <2>1, LatePools
<1> QED
  BY <1>1, <1>2, FailPools

\* _merge_pool_decls.
LEMMA OwnDecls ==
    ASSUME ObjectsSound, NEW o \in 1 .. Len(objects)
    PROVE  /\ DeclsSound(objects[o].decls)
           /\ \A k \in 1 .. Len(objects[o].decls) :
                 Covers(objects, objects[o].decls[k].name, objects[o].decls[k].ranges)
<1>1. DeclsSound(objects[o].decls)
  BY DEF ObjectsSound, ObjectSound
<1>2. ASSUME NEW k \in 1 .. Len(objects[o].decls), NEW r \in objects[o].decls[k].ranges,
             NEW x \in r.lo .. r.hi
      PROVE  DeclaredIn(objects, objects[o].decls[k].name, x)
  <2>1. r \in Ranges
    BY <1>1 DEF DeclsSound, DeclSound
  <2>2. r.lo <= x /\ x <= r.hi
    BY <2>1 DEF Ranges
  <2> QED
    BY <2>2 DEF DeclaredIn
<1> QED
  BY <1>1, <1>2 DEF Covers

LEMMA MergeStep ==
    ASSUME LinkInv, PoolsInv, MergePools
    PROVE  PoolsInv'
<1> DEFINE acc == Fold(MergeDecl, [pools |-> merged, error |-> "none"], Object.decls)
<1>1. /\ phase = "merge"
      /\ \/ \E reason : Fail(reason)
         \/ /\ acc.error = "none" /\ merged' = acc.pools
            /\ slots' = slots /\ linked' = linked /\ Onward(Len(objects), "request")
  BY DEF MergePools, Abort
<1>2. i \in 1 .. Len(objects) /\ ObjectsSound
  BY <1>1, ObjectAt DEF LinkInv
<1>3. DeclsSound(Object.decls)
      /\ \A k \in 1 .. Len(Object.decls) :
            Covers(objects, Object.decls[k].name, Object.decls[k].ranges)
  BY <1>2, OwnDecls DEF Object
<1>4. slots = NoFunction /\ linked = <<>> /\ PoolsSound(objects, merged)
  BY <1>1 DEF PoolsInv, Linking
<1>5. MergeSound(objects, acc)
  <2>1. PICK q : q = Object.decls
    OBVIOUS
  <2>2. PICK objs : objs = objects
    OBVIOUS
  <2>3. PICK ps : ps = merged
    OBVIOUS
  <2>4. PICK end : end = acc
    OBVIOUS
  <2>5. end = Fold(MergeDecl, [pools |-> ps, error |-> "none"], q)
    BY <2>1, <2>3, <2>4
  <2>6. MergeSound(objs, end)
    BY <2>1, <2>2, <2>3, <2>5, <1>3, <1>4, DeclsMerged
  <2> QED
    BY <2>2, <2>4, <2>6
<1> HIDE DEF acc
<1>6. CASE /\ acc.error = "none" /\ merged' = acc.pools
           /\ slots' = slots /\ linked' = linked /\ Onward(Len(objects), "request")
  <2>1. objects' = objects /\ (phase' = "merge" \/ (phase' = "request" /\ i' = 1))
    BY <1>1, <1>6 DEF Onward, Goto
  <2>2. PoolsSound(objects', merged')
    BY <1>5, <1>6, <2>1 DEF MergeSound
  <2>3. slots' = NoFunction /\ linked' = <<>> /\ SlotsFit(objects', merged', slots')
    BY <1>4, <1>6, NoSlots
  <2>4. phase' \notin Walks /\ phase' \notin Late /\ phase' # "allocate"
    BY <2>1 DEF Walks, Late
  <2>5. phase' = "request" => \A o \in 1 .. i' - 1 : Requested(o)'
    <3>1. phase' = "request" => 1 .. i' - 1 = {}
      BY <2>1
    <3> QED
      BY <3>1
  <2> QED
    BY <2>2, <2>3, <2>4, <2>5 DEF PoolsInv
<1> QED
  BY <1>1, <1>6, FailPools

\* _allocate_pools_across_modules, one object.
LEMMA RequestsEntered ==
    ASSUME LinkInv, PoolsInv, phase = "request",
           \A k \in DOMAIN Object.allocs : HasPool(merged, Object.allocs[k].pool),
           NEW all, all = SlotSteps!Left([slots |-> slots, pools |-> merged], Object.allocs)
    PROVE  /\ PoolsSound(objects, all.pools) /\ SlotsFit(objects, all.pools, all.slots)
           /\ \A o \in 1 .. i : \A k \in 1 .. Len(objects[o].allocs) :
                 <<o, objects[o].allocs[k].section>> \in DOMAIN all.slots
<1>1. PICK q : q = Object.allocs
  OBVIOUS
<1>2. PICK ps : ps = merged
  OBVIOUS
<1>3. PICK ts : ts = slots
  OBVIOUS
<1>4. i \in 1 .. Len(objects) /\ Len(objects) \in Nat /\ ObjectsSound /\ q = objects[i].allocs
  BY <1>1, ObjectAt DEF LinkInv, Object
<1>5. /\ PoolsSound(objects, ps) /\ SlotsFit(objects, ps, ts)
      /\ \A o \in 1 .. i - 1 : Requested(o)
  BY <1>2, <1>3 DEF PoolsInv, Linking
<1>6. IsSeq(q)
  BY <1>4 DEF ObjectsSound, ObjectSound, AllocsSound
<1>7. \A k \in 1 .. Len(q) : Asks(q[k]) /\ HasPool(ps, q[k].pool)
  <2>1. DOMAIN q = 1 .. Len(q)
    BY <1>6, SeqFacts
  <2>2. \A k \in 1 .. Len(q) : Asks(q[k])
    BY <1>4, RequestAsks
  <2> QED
    BY <2>1, <2>2, <1>1, <1>2
<1>8. all = SlotSteps!Left([slots |-> ts, pools |-> ps], q)
  BY <1>1, <1>2, <1>3
<1>9. RequestsSound(ps, ts, q, all, Len(q))
  BY <1>4, <1>5, <1>6, <1>7, <1>8, RequestsServed
<1>10. /\ PoolsSound(objects, all.pools) /\ SlotsFit(objects, all.pools, all.slots)
       /\ DOMAIN ts \subseteq DOMAIN all.slots
       /\ \A n \in 1 .. Len(q) : <<i, q[n].section>> \in DOMAIN all.slots
  BY <1>9 DEF RequestsSound
<1>11. ASSUME NEW o \in 1 .. i, NEW k \in 1 .. Len(objects[o].allocs)
       PROVE  <<o, objects[o].allocs[k].section>> \in DOMAIN all.slots
  <2>1. CASE o = i
    BY <2>1, <1>4, <1>10
  <2>2. CASE o # i
    <3>1. o \in 1 .. i - 1
      BY <2>2, <1>4
    <3>2. <<o, objects[o].allocs[k].section>> \in DOMAIN slots
      BY <3>1, <1>5 DEF Requested
    <3> QED
      BY <3>2, <1>3, <1>10
  <2> QED
    BY <2>1, <2>2
<1> QED
  BY <1>10, <1>11

LEMMA RequestStepPools ==
    ASSUME LinkInv, PoolsInv, RequestSlots
    PROVE  PoolsInv'
<1> DEFINE all == Fold(LAMBDA x, a : RequestOne(i, x, a),
                       [slots |-> slots, pools |-> merged], Object.allocs)
<1>1. /\ phase = "request"
      /\ \/ \E reason : Fail(reason)
         \/ /\ \A k \in DOMAIN Object.allocs : HasPool(merged, Object.allocs[k].pool)
            /\ slots' = all.slots /\ merged' = all.pools /\ linked' = linked
            /\ \/ merged' = <<>> /\ Onward(Len(objects), "ingest")
               \/ merged' # <<>> /\ Onward(Len(objects), "allocate")
  BY DEF RequestSlots, Abort
<1>2. ASSUME \A k \in DOMAIN Object.allocs : HasPool(merged, Object.allocs[k].pool)
      PROVE  /\ PoolsSound(objects, all.pools) /\ SlotsFit(objects, all.pools, all.slots)
             /\ \A o \in 1 .. i : \A k \in 1 .. Len(objects[o].allocs) :
                   <<o, objects[o].allocs[k].section>> \in DOMAIN all.slots
  <2>1. PICK acc : acc = all
    OBVIOUS
  <2>3. acc = SlotSteps!Left([slots |-> slots, pools |-> merged], Object.allocs)
    BY <2>1, SlotFold
  <2> HIDE DEF all
  <2>2. /\ PoolsSound(objects, acc.pools) /\ SlotsFit(objects, acc.pools, acc.slots)
        /\ \A o \in 1 .. i : \A k \in 1 .. Len(objects[o].allocs) :
              <<o, objects[o].allocs[k].section>> \in DOMAIN acc.slots
    BY <2>3, <1>1, <1>2, RequestsEntered
  <2> QED
    BY <2>1, <2>2
<1>3. i \in 1 .. Len(objects) /\ Len(objects) \in Nat /\ linked = <<>>
  BY <1>1, ObjectAt DEF PoolsInv
<1> HIDE DEF all
<1>4. CASE /\ \A k \in DOMAIN Object.allocs : HasPool(merged, Object.allocs[k].pool)
           /\ slots' = all.slots /\ merged' = all.pools /\ linked' = linked
           /\ \/ merged' = <<>> /\ Onward(Len(objects), "ingest")
              \/ merged' # <<>> /\ Onward(Len(objects), "allocate")
  <2>1. /\ objects' = objects
        /\ \/ i # Len(objects) /\ i' = i + 1 /\ phase' = "request"
           \/ i = Len(objects) /\ i' = 1 /\ phase' = "ingest" /\ merged' = <<>>
           \/ i = Len(objects) /\ i' = 1 /\ phase' = "allocate" /\ merged' # <<>>
    BY <1>1, <1>4 DEF Onward, Goto
  <2>2. PoolsSound(objects', merged') /\ SlotsFit(objects', merged', slots')
    BY <1>2, <1>4, <2>1
  <2>3. \A o \in 1 .. i : Requested(o)'
    BY <1>2, <1>4, <2>1 DEF Requested
  <2>4. linked' = <<>> /\ phase' \notin Walks /\ phase' # "merge"
    BY <1>3, <1>4, <2>1 DEF Walks
  <2>5. CASE i' = i + 1 /\ phase' = "request"
    <3>1. \A o \in 1 .. i' - 1 : Requested(o)'
      BY <2>3, <2>5, <1>3
    <3>2. phase' \notin Late
      BY <2>5 DEF Late
    <3> QED
      BY <3>1, <3>2, <2>2, <2>4, <2>5 DEF PoolsInv
  <2>6. CASE i = Len(objects) /\ phase' = "ingest" /\ merged' = <<>>
    <3>1. \A o \in 1 .. Len(objects') : Requested(o)'
      BY <2>1, <2>3, <2>6
    <3>2. 1 .. Len(merged') = {} /\ 1 .. Len(linked') = {}
      <4>1. Len(<<>>) = 0
        OBVIOUS
      <4> QED
        BY <4>1, <2>4, <2>6
    <3> QED
      BY <3>1, <3>2, <2>2, <2>4, <2>6 DEF PoolsInv
  <2>7. CASE i = Len(objects) /\ i' = 1 /\ phase' = "allocate" /\ merged' # <<>>
    <3>1. \A o \in 1 .. Len(objects') : Requested(o)'
      BY <2>1, <2>3, <2>7
    <3>2. i' \in 1 .. Len(merged') /\ 1 .. i' - 1 = {}
      <4>1. PICK ps : ps = merged'
        OBVIOUS
      <4>2. IsSeq(ps) /\ ps # <<>>
        BY <4>1, <2>2, <2>7 DEF PoolsSound
      <4>3. PICK S : ps \in Seq(S)
        BY <4>2 DEF IsSeq
      <4>4. Len(ps) \in Nat /\ Len(ps) # 0
        BY <4>2, <4>3
      <4> QED
        BY <4>1, <4>4, <2>7
    <3>3. phase' \notin Late
      BY <2>7 DEF Late
    <3> QED
      BY <3>1, <3>2, <3>3, <2>2, <2>4, <2>7 DEF PoolsInv
  <2> QED
    BY <2>1, <2>5, <2>6, <2>7
<1> QED
  BY <1>1, <1>4, FailPools

\* A pool whose requests have got their addresses.
Given(p, addr) == [p EXCEPT !.addr = addr]

LEMMA GivenFacts ==
    ASSUME NEW objs, NEW p, PoolSound(objs, p), NEW addr, NEW q, q = Given(p, addr)
    PROVE  /\ PoolSound(objs, q) /\ q.addr = addr /\ q.name = p.name
           /\ q.names = p.names /\ q.reqs = p.reqs /\ q.ranges = p.ranges
<1>1. q = [name |-> p.name, strategy |-> p.strategy, bss |-> p.bss, ranges |-> p.ranges,
           names |-> p.names, reqs |-> p.reqs, addr |-> addr]
  BY DEF PoolSound, MergedShape, Given
<1>2. /\ q.name = p.name /\ q.ranges = p.ranges /\ q.names = p.names /\ q.reqs = p.reqs
      /\ q.strategy = p.strategy /\ q.bss = p.bss /\ q.addr = addr
  BY <1>1
<1>3. MergedShape(q)
  BY <1>1, <1>2 DEF MergedShape
<1>4. DeclSound(q)
  BY <1>2 DEF PoolSound, DeclSound
<1> QED
  BY <1>2, <1>3, <1>4 DEF PoolSound

LEMMA GivenAllotted ==
    ASSUME NEW objs, NEW p, PoolSound(objs, p),
           NEW result, result = Layout(p.ranges, p.strategy, p.reqs), result.error = "none",
           NEW q, q = Given(p, result.addr)
    PROVE  Allotted(q)
<1>1. /\ p.ranges \in SUBSET Ranges /\ NonEmpty(p.ranges) /\ Disjoint(p.ranges)
      /\ p.strategy \in Strategic /\ p.reqs \in Seq(Requests)
  BY DEF PoolSound, DeclSound
<1>2. /\ InPlace(result) /\ result.ranges = p.ranges /\ result.reqs = p.reqs
      /\ Settled(result) = DOMAIN p.reqs
  BY <1>1, LayoutInPlace
<1>3. q.reqs = p.reqs /\ q.ranges = p.ranges /\ q.addr = result.addr
  BY GivenFacts
<1>4. DOMAIN p.reqs = 1 .. Len(p.reqs)
  <2> DEFINE R == Requests
  <2>1. p.reqs \in Seq(R)
    BY <1>1
  <2> HIDE DEF R
  <2> QED
    BY <2>1
<1> QED
  BY <1>2, <1>3, <1>4 DEF Allotted, InPlace

LEMMA SameNames ==
    ASSUME NEW objs, NEW ps, PoolsSound(objs, ps), NEW k \in 1 .. Len(ps),
           NEW q, q.name = ps[k].name, q.names = ps[k].names
    PROVE  Extends(ps, Replaced(ps, k, q))
<1> DEFINE qs == Replaced(ps, k, q)
<1>1. /\ IsSeq(ps) /\ \A n \in 1 .. Len(ps) : Len(ps[n].names) \in Nat
  BY PoolSeqs
<1>2. /\ IsSeq(qs) /\ Len(qs) = Len(ps)
      /\ \A n \in 1 .. Len(ps) : qs[n].name = ps[n].name /\ qs[n].names = ps[n].names
  BY <1>1, ReplacedFacts
<1> HIDE DEF qs
<1>3. \A n \in 1 .. Len(ps) : Len(ps[n].names) <= Len(qs[n].names)
  BY <1>1, <1>2
<1>4. Extends(ps, qs)
  BY <1>2, <1>3 DEF Extends
<1> QED
  BY <1>4 DEF qs

\* allocate() for one pool.
LEMMA AllocateStepPools ==
    ASSUME LinkInv, PoolsInv, AllocatePool
    PROVE  PoolsInv'
<1>1. PICK p : p = merged[i]
  OBVIOUS
<1>2. PICK ps : ps = merged
  OBVIOUS
<1>3. PICK result : result = Layout(p.ranges, p.strategy, p.reqs)
  OBVIOUS
<1>4. PICK q : q = Given(p, result.addr)
  OBVIOUS
<1>5. /\ phase = "allocate"
      /\ \/ \E reason : Fail(reason)
         \/ /\ result.error = "none" /\ merged' = [merged EXCEPT ![i].addr = result.addr]
            /\ slots' = slots /\ linked' = linked /\ Onward(Len(merged), "ingest")
  BY <1>1, <1>3 DEF AllocatePool, Abort
<1>6. /\ PoolsSound(objects, ps) /\ SlotsFit(objects, ps, slots) /\ linked = <<>>
      /\ \A o \in 1 .. Len(objects) : Requested(o)
      /\ i \in 1 .. Len(ps) /\ \A k \in 1 .. i - 1 : Allotted(ps[k])
  BY <1>2, <1>5 DEF PoolsInv, Linking
<1>7. p = ps[i] /\ PoolSound(objects, p) /\ Len(ps) \in Nat /\ IsSeq(ps)
  BY <1>1, <1>2, <1>6, PoolSeqs
<1>8. CASE /\ result.error = "none" /\ merged' = [merged EXCEPT ![i].addr = result.addr]
           /\ slots' = slots /\ linked' = linked /\ Onward(Len(merged), "ingest")
  <2>1. PICK qs : qs = Replaced(ps, i, q)
    OBVIOUS
  <2>2. merged' = qs
    BY <1>1, <1>2, <1>4, <1>8, <2>1 DEF Replaced, Given
  <2>3. /\ PoolSound(objects, q) /\ q.name = p.name /\ q.names = p.names
    BY <1>4, <1>7, GivenFacts
  <2>4. PoolsSound(objects, qs) /\ Extends(ps, qs)
    BY <1>6, <1>7, <2>1, <2>3, ChangedPools, SameNames
  <2>5. Allotted(q)
    BY <1>3, <1>4, <1>7, <1>8, GivenAllotted
  <2>6. /\ Len(qs) = Len(ps) /\ qs[i] = q
        /\ \A k \in 1 .. Len(ps) : k # i => qs[k] = ps[k]
    BY <1>6, <1>7, <2>1, ReplacedFacts
  <2>7. \A k \in 1 .. i : Allotted(qs[k])
    <3>1. ASSUME NEW k \in 1 .. i PROVE Allotted(qs[k])
      <4>1. CASE k = i
        BY <4>1, <2>5, <2>6
      <4>2. CASE k # i
        <5>1. k \in 1 .. i - 1 /\ k \in 1 .. Len(ps)
          BY <4>2, <1>6, <1>7
        <5> QED
          BY <5>1, <4>2, <1>6, <2>6
      <4> QED
        BY <4>1, <4>2
    <3> QED
      BY <3>1
  <2>8. SlotsFit(objects, qs, slots)
    BY <1>6, <2>4, SlotKept DEF SlotsFit
  <2>9. /\ objects' = objects
        /\ \/ i # Len(ps) /\ i' = i + 1 /\ phase' = "allocate"
           \/ i = Len(ps) /\ phase' = "ingest"
    BY <1>2, <1>5, <1>8 DEF Onward, Goto
  <2>10. /\ PoolsSound(objects', merged') /\ SlotsFit(objects', merged', slots')
         /\ linked' = <<>> /\ \A o \in 1 .. Len(objects') : Requested(o)'
    BY <1>6, <1>8, <2>2, <2>4, <2>8, <2>9 DEF Requested
  <2>11. phase' \notin Walks /\ phase' \notin {"merge", "request"}
    BY <2>9 DEF Walks
  <2>12. CASE i # Len(ps) /\ i' = i + 1 /\ phase' = "allocate"
    <3>1. i' \in 1 .. Len(merged') /\ \A k \in 1 .. i' - 1 : Allotted(qs[k])
      BY <1>6, <1>7, <2>2, <2>6, <2>7, <2>12
    <3>2. \A k \in 1 .. i' - 1 : Allotted(merged[k])'
      BY <3>1, <2>2 DEF Allotted
    <3>3. phase' \notin Late
      BY <2>12 DEF Late
    <3> QED
      BY <3>1, <3>2, <3>3, <2>10, <2>11, <2>12 DEF PoolsInv
  <2>13. CASE i = Len(ps) /\ phase' = "ingest"
    <3>1. \A k \in 1 .. Len(merged') : Allotted(merged[k])'
      BY <2>2, <2>6, <2>7, <2>13 DEF Allotted
    <3>2. 1 .. Len(linked') = {}
      <4>1. Len(<<>>) = 0
        OBVIOUS
      <4> QED
        BY <4>1, <2>10
    <3> QED
      BY <3>1, <3>2, <2>10, <2>11, <2>13 DEF PoolsInv
  <2> QED
    BY <2>9, <2>12, <2>13
<1> QED
  BY <1>5, <1>8, FailPools

\* _ingest_object.
LEMMA SectionFits ==
    ASSUME LinkInv, phase = "ingest", NEW s \in 1 .. Len(Sections)
    PROVE  LinkedFits(Sections[s])
<1> DEFINE t == Sections[s]
<1>1. s \in 1 .. Len(Object.sections) /\ i \in 1 .. Len(objects)
  BY SectionsFacts, ObjectAt
<1>2. DOMAIN Object.sections = 1 .. Len(Object.sections)
  BY <1>1, ObjectAt, SeqFacts DEF ObjectSound, SectionsShape, Object
<1>3. /\ t.obj = i /\ t.index = s /\ t.code = Object.sections[s].code
      /\ t.base = FinalBase(i, s)
  BY <1>1, <1>2 DEF Sections
<1> HIDE DEF t
<1>4. LinkedFits(t)
  BY <1>1, <1>3 DEF LinkedFits, FinalBase, Object
<1> QED
  BY <1>4 DEF t

LEMMA IngestPools ==
    ASSUME LinkInv, PoolsInv, IngestObject
    PROVE  PoolsInv'
<1>1. /\ phase = "ingest"
      /\ \/ \E reason : Fail(reason)
         \/ /\ linked' = linked \o Sections /\ slots' = slots /\ merged' = merged
            /\ Onward(Len(objects), "aliases")
  BY DEF IngestObject, Abort, Sections
<1>2. CASE /\ linked' = linked \o Sections /\ slots' = slots /\ merged' = merged
           /\ Onward(Len(objects), "aliases")
  <2>1. objects' = objects /\ phase' \in Late /\ phase \in Late
    BY <1>1, <1>2 DEF Onward, Goto, Late
  <2>2. PICK all : all = linked \o Sections
    OBVIOUS
  <2>3. IsSeq(linked) /\ IsSeq(Sections)
    BY <1>1, ObjectAt, SectionsFacts DEF Placed
  <2>4. Len(linked) \in Nat /\ Len(Sections) \in Nat
    BY <2>3, SeqFacts
  <2>5. /\ Len(all) = Len(linked) + Len(Sections)
        /\ \A k \in 1 .. Len(linked) : all[k] = linked[k]
        /\ \A k \in 1 .. Len(Sections) : all[Len(linked) + k] = Sections[k]
    BY <2>2, <2>3, ConcatFacts
  <2>6. ASSUME NEW s \in 1 .. Len(all) PROVE LinkedFits(all[s])
    <3>1. CASE s \in 1 .. Len(linked)
      BY <3>1, <2>1, <2>5 DEF PoolsInv
    <3>2. CASE s \notin 1 .. Len(linked)
      <4>1. s - Len(linked) \in 1 .. Len(Sections) /\ Len(linked) + (s - Len(linked)) = s
        BY <3>2, <2>4, <2>5
      <4>2. all[s] = Sections[s - Len(linked)]
        BY <4>1, <2>5
      <4> QED
        BY <4>1, <4>2, <1>1, SectionFits
    <3> QED
      BY <3>1, <3>2
  <2>7. \A s \in 1 .. Len(linked') : LinkedFits(linked[s])'
    <3>1. linked' = all
      BY <1>2, <2>2
    <3> QED
      BY <3>1, <2>1, <2>6, <1>2 DEF LinkedFits, Pooled, Slot
  <2> QED
    BY <2>1, <2>7, <1>2, LatePools
<1> QED
  BY <1>1, <1>2, FailPools

LEMMA PoolsInit == Init => PoolsInv
<1> SUFFICES ASSUME Init PROVE PoolsInv
  OBVIOUS
<1>1. phase = "codegen" /\ merged = <<>> /\ slots = NoFunction /\ linked = <<>>
  BY DEF Init, InitBuild, InitLink
<1> QED
  BY <1>1 DEF PoolsInv, Walks, Linking, Late

LEMMA PoolsStutter ==
    ASSUME PoolsInv, UNCHANGED vars
    PROVE  PoolsInv'
<1>1. /\ phase' = phase /\ i' = i /\ objects' = objects
      /\ merged' = merged /\ slots' = slots /\ linked' = linked
  BY DEF vars, buildVars, compileVars, linkVars
<1> QED
  BY <1>1 DEF PoolsInv, Requested, Allotted, LinkedFits, Pooled, Slot

LEMMA PoolsNext ==
    ASSUME LinkInv, PoolsInv, Next
    PROVE  PoolsInv'
<1>1. CASE CompileNext /\ UNCHANGED linkVars
  BY <1>1, CompilePools
<1>2. CASE MergePools
  BY <1>2, MergeStep
<1>3. CASE RequestSlots
  BY <1>3, RequestStepPools
<1>4. CASE AllocatePool
  BY <1>4, AllocateStepPools
<1>5. CASE IngestObject
  BY <1>5, IngestPools
<1>6. CASE ResolveAliases \/ AliasesDone \/ CheckUnresolved \/ ApplyRelocations
  BY <1>6, QuietPools
<1> QED
  BY <1>1, <1>2, <1>3, <1>4, <1>5, <1>6 DEF Next, LinkNext

\* The pools the linker merges hold what the object files declare and ask for:
\* one request per name, each slot the request of its name, each allocated pool
\* with its requests in place and apart, each linked section in its slot.
THEOREM PoolsInvariant == Spec => []PoolsInv
<1>1. Init => PoolsInv
  BY PoolsInit
<1>2. LinkInv /\ PoolsInv /\ [Next]_vars => PoolsInv'
  BY PoolsNext, PoolsStutter
<1> QED
  BY <1>1, <1>2, LinkInvariant, PTL DEF Spec

-----------------------------------------------------------------------------
(* Bodies in their slots.                                                  *)

LEMMA RequestsAgree ==
    ASSUME ObjectsSound, SizesAgree,
           NEW o \in 1 .. Len(objects), NEW k \in 1 .. Len(objects[o].allocs),
           NEW n \in 1 .. Len(objects), NEW j \in 1 .. Len(objects[n].allocs),
           objects[o].allocs[k].pool = objects[n].allocs[j].pool,
           objects[o].allocs[k].name = objects[n].allocs[j].name
    PROVE  objects[o].allocs[k].size = objects[n].allocs[j].size
<1> DEFINE a == objects[o].allocs[k]
           b == objects[n].allocs[j]
<1>1. RequestOf(source[o], a) /\ RequestOf(source[n], b)
  BY RequestAsks
<1>2. source \in Programs /\ o \in DOMAIN source /\ n \in DOMAIN source
  <2>1. /\ source \in Programs /\ source \in Seq(Seq(Nodes))
        /\ IsSeq(objects) /\ Len(objects) <= Len(source)
    BY ProgramAssumption DEF ObjectsSound
  <2>2. Len(objects) \in Nat /\ Len(source) \in Nat /\ DOMAIN source = 1 .. Len(source)
    BY <2>1, SeqFacts
  <2> QED
    BY <2>1, <2>2
<1>3. a.pool = b.pool /\ a.name = b.name
  OBVIOUS
<1> HIDE DEF a, b
<1>4. PICK x \in DOMAIN source[o] :
         /\ IsAlloc(source[o][x]) /\ a.pool = source[o][x].pool
         /\ a.name = Plain(source[o][x].id) /\ a.size = SlotSize(source[o][x])
  BY <1>1 DEF RequestOf
<1>5. PICK y \in DOMAIN source[n] :
         /\ IsAlloc(source[n][y]) /\ b.pool = source[n][y].pool
         /\ b.name = Plain(source[n][y].id) /\ b.size = SlotSize(source[n][y])
  BY <1>1 DEF RequestOf
<1>6. source[o][x].id = source[n][y].id
  <2>1. a.name.id = source[o][x].id /\ b.name.id = source[n][y].id
    BY <1>4, <1>5 DEF Plain
  <2> QED
    BY <2>1, <1>3
<1>7. SlotSize(source[o][x]) = SlotSize(source[n][y])
  BY <1>2, <1>3, <1>4, <1>5, <1>6 DEF SizesAgree
<1> QED
  BY <1>4, <1>5, <1>7 DEF a, b

\* Where a request's slot is: the pool it names, the request of its name.
SlotIs(t, a) ==
    /\ t.pool \in 1 .. Len(merged) /\ merged[t.pool].name = a.pool
    /\ t.req \in 1 .. Len(merged[t.pool].names) /\ merged[t.pool].names[t.req] = a.name

LEMMA SlotOfAlloc ==
    ASSUME LinkInv, PoolsInv, phase \in Late,
           NEW o \in 1 .. Len(objects), NEW k \in 1 .. Len(objects[o].allocs)
    PROVE  SlotIs(slots[<<o, objects[o].allocs[k].section>>], objects[o].allocs[k])
<1> DEFINE q == objects[o].allocs
           place == <<o, q[k].section>>
<1>1. place \in DOMAIN slots /\ SlotsFit(objects, merged, slots)
  BY PhasesApart DEF PoolsInv, Requested
<1>2. SlotFits(objects, merged, place, slots[place])
  BY <1>1 DEF SlotsFit
<1>3. PICK n \in 1 .. Len(objects) : \E j \in 1 .. Len(objects[n].allocs) :
         place = <<n, objects[n].allocs[j].section>> /\ SlotIs(slots[place], objects[n].allocs[j])
  BY <1>2 DEF SlotFits, SlotIs
<1>4. PICK j \in 1 .. Len(objects[n].allocs) :
         place = <<n, objects[n].allocs[j].section>> /\ SlotIs(slots[place], objects[n].allocs[j])
  BY <1>3
<1>5. n = o /\ objects[n].allocs[j].section = q[k].section
  BY <1>4
<1>6. \A x, y \in 1 .. Len(q) : y # x => q[y].section # q[x].section
  BY DEF LinkInv, ObjectsSound, ObjectSound, AllocsSound
<1>7. j \in 1 .. Len(q) /\ q[j].section = q[k].section
  BY <1>5
<1>8. j = k
  BY <1>6, <1>7
<1> QED
  BY <1>4, <1>5, <1>8

LEMMA PoolFacts ==
    ASSUME LinkInv, PoolsInv, phase \in Late, NEW k \in 1 .. Len(merged)
    PROVE  /\ PoolSound(objects, merged[k]) /\ Allotted(merged[k])
           /\ Len(merged[k].names) = Len(merged[k].reqs)
           /\ \A n \in 1 .. Len(merged[k].reqs) : merged[k].reqs[n].size \in Nat
<1>1. PoolSound(objects, merged[k]) /\ Allotted(merged[k])
  BY PhasesApart, PoolSeqs DEF PoolsInv
<1> DEFINE q == merged[k].reqs
<1>2. q \in Seq(Requests) /\ Len(merged[k].names) = Len(q)
  BY <1>1 DEF PoolSound
<1> HIDE DEF q
<1>3. \A n \in 1 .. Len(q) : q[n] \in Requests
  <2> DEFINE R == Requests
  <2>1. q \in Seq(R)
    BY <1>2
  <2> HIDE DEF R
  <2>2. \A n \in 1 .. Len(q) : q[n] \in R
    BY <2>1
  <2> QED
    BY <2>2 DEF R
<1>4. \A n \in 1 .. Len(q) : q[n].size \in Nat
  BY <1>3 DEF Requests
<1> QED
  BY <1>1, <1>2, <1>4 DEF q

\* A pooled section begins where its request was placed and fits its room.
InSlot(s) ==
    LET t == SlotOf(s)
        p == merged[t.pool]
    IN  /\ t.pool \in 1 .. Len(merged) /\ t.req \in 1 .. Len(p.reqs)
        /\ linked[s].base = p.addr[t.req]
        /\ linked[s].code \in Nat /\ linked[s].code <= p.reqs[t.req].size

LEMMA SectionInSlot ==
    ASSUME LinkInv, PoolsInv, SizesAgree, phase \in Late, NEW s \in PooledSections
    PROVE  InSlot(s)
<1> DEFINE x == linked[s]
           place == <<x.obj, x.index>>
           t == slots[place]
           p == merged[t.pool]
<1>1. s \in 1 .. Len(linked) /\ place \in DOMAIN slots
  <2>1. IsSeq(linked)
    BY DEF LinkInv, LinkSound, Placed
  <2> QED
    BY <2>1, SeqFacts DEF PooledSections, Pooled
<1>2. /\ x.index \in 1 .. Len(objects[x.obj].sections)
      /\ x.code = objects[x.obj].sections[x.index].code
      /\ x.base = Slot(x.obj, x.index).addr
  BY <1>1 DEF PoolsInv, LinkedFits, Pooled
<1>3. x.base = p.addr[t.req]
  BY <1>2 DEF Slot
<1>4. SlotFits(objects, merged, place, t)
  BY <1>1, PhasesApart DEF PoolsInv, SlotsFit
<1>5. PICK o \in 1 .. Len(objects) : \E k \in 1 .. Len(objects[o].allocs) :
         place = <<o, objects[o].allocs[k].section>> /\ SlotIs(t, objects[o].allocs[k])
  BY <1>4 DEF SlotFits, SlotIs
<1>6. PICK k \in 1 .. Len(objects[o].allocs) :
         place = <<o, objects[o].allocs[k].section>> /\ SlotIs(t, objects[o].allocs[k])
  BY <1>5
<1> DEFINE a == objects[o].allocs[k]
<1>7. x.obj = o /\ x.index = a.section
  BY <1>6
<1>8. ObjectSound(o)
  BY DEF LinkInv, ObjectsSound
<1>9. x.code \in Nat /\ x.code <= a.size
  <2>1. objects[o].sections[a.section].code <= a.size
    BY <1>8 DEF ObjectSound, AllocsSound
  <2>2. x.code \in Nat
    <3>1. SectionsShape(objects[o].sections)
      BY <1>8 DEF ObjectSound
    <3>2. SectionShape(objects[o].sections[x.index])
      BY <3>1, <1>2, <1>7 DEF SectionsShape
    <3> QED
      BY <3>2, <1>2, <1>7 DEF SectionShape
  <2> QED
    BY <2>1, <2>2, <1>2, <1>7
<1>10. /\ t.pool \in 1 .. Len(merged) /\ p.name = a.pool
       /\ t.req \in 1 .. Len(p.names) /\ p.names[t.req] = a.name
  BY <1>6 DEF SlotIs
<1>11. PoolSound(objects, p) /\ Len(p.names) = Len(p.reqs)
  BY <1>10, PoolFacts
<1>12. AskedIn(objects, p.name, p.names[t.req], p.reqs[t.req].size)
  BY <1>10, <1>11 DEF PoolSound
<1>13. p.reqs[t.req].size = a.size
  <2>1. PICK size : size = p.reqs[t.req].size
    OBVIOUS
  <2>2. AskedIn(objects, a.pool, a.name, size)
    BY <1>10, <1>12, <2>1
  <2> HIDE DEF x, place, t, p
  <2>3. PICK n \in 1 .. Len(objects) : \E j \in 1 .. Len(objects[n].allocs) :
           /\ objects[n].allocs[j].pool = a.pool /\ objects[n].allocs[j].name = a.name
           /\ objects[n].allocs[j].size = size
    BY <2>2 DEF AskedIn
  <2>4. PICK j \in 1 .. Len(objects[n].allocs) :
           /\ objects[n].allocs[j].pool = a.pool /\ objects[n].allocs[j].name = a.name
           /\ objects[n].allocs[j].size = size
    BY <2>3
  <2>5. objects[n].allocs[j].size = a.size
    BY <2>4, RequestsAgree DEF LinkInv
  <2> QED
    BY <2>1, <2>4, <2>5
<1>14. SlotOf(s) = t
  BY DEF SlotOf
<1> HIDE DEF a, p, t, place
<1>15. /\ t.pool \in 1 .. Len(merged) /\ t.req \in 1 .. Len(p.reqs)
       /\ x.base = p.addr[t.req] /\ x.code \in Nat /\ x.code <= p.reqs[t.req].size
  BY <1>3, <1>9, <1>10, <1>11, <1>13
<1> QED
  BY <1>14, <1>15 DEF InSlot, p

\* What lies in the front of two spans that are apart, or of one in a range.
LEMMA FrontsApart ==
    ASSUME NEW b \in Nat, NEW c \in Nat, NEW n \in Nat, c <= n,
           NEW d \in Nat, NEW e \in Nat, NEW k \in Nat, e <= k, Apart(b, n, d, k)
    PROVE  (b .. b + c - 1) \cap (d .. d + e - 1) = {}
BY DEF Apart

LEMMA FrontWithin ==
    ASSUME NEW b \in Nat, NEW c \in Nat, NEW n \in Nat, c <= n,
           NEW r, r.lo \in Nat, r.hi \in Nat, Holds(r, b, n), NEW x \in b .. b + c - 1
    PROVE  x \in r.lo .. r.hi
BY DEF Holds

LEMMA BodiesPlaced ==
    ASSUME SizesAgree, LinkInv, PoolsInv
    PROVE  PooledBodiesPlaced
<1> SUFFICES ASSUME phase \in Late
             PROVE  /\ \A s, t \in PooledSections :
                         SlotOf(s).pool = SlotOf(t).pool /\ SlotOf(s).req # SlotOf(t).req =>
                             BytesOf(s) \cap BytesOf(t) = {}
                    /\ \A o, n \in DOMAIN objects :
                          \A j \in DOMAIN objects[o].allocs, k \in DOMAIN objects[n].allocs :
                              LET a == objects[o].allocs[j]
                                  b == objects[n].allocs[k]
                              IN  a.pool = b.pool /\ a.name = b.name =>
                                      Slot(o, a.section).addr = Slot(n, b.section).addr
                    /\ \A s \in PooledSections : \A a \in BytesOf(s) :
                          Declared(merged[SlotOf(s).pool].name, a)
  BY DEF PooledBodiesPlaced, BodiesApart, Linked, Late
<1>1. /\ IsSeq(objects) /\ DOMAIN objects = 1 .. Len(objects)
      /\ \A o \in 1 .. Len(objects) :
            /\ DOMAIN objects[o].allocs = 1 .. Len(objects[o].allocs)
            /\ DOMAIN objects[o].decls = 1 .. Len(objects[o].decls)
  <2>1. IsSeq(objects) /\ \A o \in 1 .. Len(objects) : ObjectSound(o)
    BY DEF LinkInv, ObjectsSound
  <2>2. \A o \in 1 .. Len(objects) : IsSeq(objects[o].allocs) /\ IsSeq(objects[o].decls)
    BY <2>1 DEF ObjectSound, AllocsSound, DeclsSound
  <2> QED
    BY <2>1, <2>2, SeqFacts
<1>2. ASSUME NEW s \in PooledSections, NEW t \in PooledSections,
             SlotOf(s).pool = SlotOf(t).pool, SlotOf(s).req # SlotOf(t).req
      PROVE  BytesOf(s) \cap BytesOf(t) = {}
  <2> DEFINE p == merged[SlotOf(s).pool]
             x == SlotOf(s).req
             y == SlotOf(t).req
  <2>1. /\ SlotOf(s).pool \in 1 .. Len(merged) /\ x \in 1 .. Len(p.reqs) /\ y \in 1 .. Len(p.reqs)
        /\ linked[s].base = p.addr[x] /\ linked[t].base = p.addr[y]
        /\ linked[s].code \in Nat /\ linked[s].code <= p.reqs[x].size
        /\ linked[t].code \in Nat /\ linked[t].code <= p.reqs[y].size
    BY <1>2, SectionInSlot DEF InSlot
  <2>2. Allotted(p) /\ p.reqs[x].size \in Nat /\ p.reqs[y].size \in Nat
    BY <2>1, PoolFacts
  <2>3. /\ p.addr[x] \in Nat /\ p.addr[y] \in Nat
        /\ Apart(p.addr[x], p.reqs[x].size, p.addr[y], p.reqs[y].size)
    BY <2>1, <2>2, <1>2 DEF Allotted
  <2> HIDE DEF p, x, y
  <2> QED
    BY <2>1, <2>2, <2>3, FrontsApart DEF BytesOf
<1>3. ASSUME NEW o \in 1 .. Len(objects), NEW n \in 1 .. Len(objects),
             NEW j \in 1 .. Len(objects[o].allocs), NEW k \in 1 .. Len(objects[n].allocs),
             objects[o].allocs[j].pool = objects[n].allocs[k].pool,
             objects[o].allocs[j].name = objects[n].allocs[k].name
      PROVE  Slot(o, objects[o].allocs[j].section).addr = Slot(n, objects[n].allocs[k].section).addr
  <2> DEFINE a == objects[o].allocs[j]
             b == objects[n].allocs[k]
             t == slots[<<o, a.section>>]
             u == slots[<<n, b.section>>]
  <2>1. SlotIs(t, a) /\ SlotIs(u, b) /\ a.pool = b.pool /\ a.name = b.name
    BY <1>3, SlotOfAlloc
  <2>2. Slot(o, a.section).addr = merged[t.pool].addr[t.req]
        /\ Slot(n, b.section).addr = merged[u.pool].addr[u.req]
    BY DEF Slot
  <2> HIDE DEF a, b, t, u
  <2>3. t.pool = u.pool
    <3>1. PoolsSound(objects, merged)
      BY PhasesApart DEF PoolsInv
    <3> QED
      BY <2>1, <3>1 DEF SlotIs, PoolsSound
  <2>4. t.req = u.req
    <3>1. PoolSound(objects, merged[t.pool])
      BY <2>1, PoolFacts DEF SlotIs
    <3> QED
      BY <2>1, <2>3, <3>1 DEF SlotIs, PoolSound
  <2>5. Slot(o, a.section).addr = Slot(n, b.section).addr
    BY <2>2, <2>3, <2>4
  <2> QED
    BY <2>5 DEF a, b
<1>4. ASSUME NEW s \in PooledSections, NEW a \in BytesOf(s)
      PROVE  Declared(merged[SlotOf(s).pool].name, a)
  <2> DEFINE p == merged[SlotOf(s).pool]
             x == SlotOf(s).req
  <2>1. /\ SlotOf(s).pool \in 1 .. Len(merged) /\ x \in 1 .. Len(p.reqs)
        /\ linked[s].base = p.addr[x]
        /\ linked[s].code \in Nat /\ linked[s].code <= p.reqs[x].size
    BY <1>4, SectionInSlot DEF InSlot
  <2>2. Allotted(p) /\ p.reqs[x].size \in Nat /\ PoolSound(objects, p)
    BY <2>1, PoolFacts
  <2>3. PICK r \in p.ranges : Holds(r, p.addr[x], p.reqs[x].size)
    BY <2>1, <2>2 DEF Allotted
  <2>4. p.addr[x] \in Nat /\ r \in Ranges /\ Covers(objects, p.name, p.ranges)
    BY <2>1, <2>2, <2>3 DEF Allotted, PoolSound, DeclSound
  <2>5. r.lo \in Nat /\ r.hi \in Nat /\ a \in linked[s].base .. linked[s].base + linked[s].code - 1
    BY <1>4, <2>4 DEF Ranges, BytesOf
  <2>i. r \in p.ranges
    BY <2>3
  <2> HIDE DEF p, x
  <2>6. a \in r.lo .. r.hi
    BY <2>1, <2>2, <2>3, <2>4, <2>5, FrontWithin
  <2>7. DeclaredIn(objects, p.name, a)
    BY <2>4, <2>6, <2>i DEF Covers
  <2>8. PICK o \in 1 .. Len(objects) : \E k \in 1 .. Len(objects[o].decls) :
           /\ objects[o].decls[k].name = p.name
           /\ \E d \in objects[o].decls[k].ranges : d.lo <= a /\ a <= d.hi
    BY <2>7 DEF DeclaredIn
  <2>9. PICK k \in 1 .. Len(objects[o].decls) :
           /\ objects[o].decls[k].name = p.name
           /\ \E d \in objects[o].decls[k].ranges : d.lo <= a /\ a <= d.hi
    BY <2>8
  <2>10. o \in DOMAIN objects /\ k \in DOMAIN objects[o].decls
    BY <1>1
  <2>11. Declared(p.name, a)
    BY <2>9, <2>10 DEF Declared
  <2> QED
    BY <2>11 DEF p
<1>5. ASSUME NEW o \in DOMAIN objects, NEW n \in DOMAIN objects,
             NEW j \in DOMAIN objects[o].allocs, NEW k \in DOMAIN objects[n].allocs
      PROVE  LET a == objects[o].allocs[j]
                 b == objects[n].allocs[k]
             IN  a.pool = b.pool /\ a.name = b.name =>
                     Slot(o, a.section).addr = Slot(n, b.section).addr
  <2>1. /\ o \in 1 .. Len(objects) /\ j \in 1 .. Len(objects[o].allocs)
        /\ n \in 1 .. Len(objects) /\ k \in 1 .. Len(objects[n].allocs)
    BY <1>1
  <2> QED
    BY <2>1, <1>3
<1> QED
  BY <1>2, <1>4, <1>5, Zenon

\* Pooled bodies share no byte, lie where their pool was declared, and are one
\* for all who import them -- as long as two modules never ask under one name
\* for different room, which the linker takes on trust.
THEOREM PooledPlaced == ASSUME SizesAgree PROVE Spec => []PooledBodiesPlaced
<1>1. LinkInv /\ PoolsInv => PooledBodiesPlaced
  BY BodiesPlaced
<1> QED
  BY <1>1, LinkInvariant, PoolsInvariant, PTL
-----------------------------------------------------------------------------
(* What the phases hand to each other.                                     *)

\* A build is in one phase and fails for a reason; one local table per object
\* ingested so far; every linked section has an address.
RunInv ==
    /\ phase \in Walks \cup Linking \cup {"failed"}
    /\ i \in Nat \ {0}
    /\ (phase = "failed") = (error # "none")
    /\ IsSeq(locals) /\ Len(locals) <= Len(objects)
    /\ phase \in Walks \cup {"merge", "request", "allocate"} => locals = <<>>
    /\ phase = "ingest" => Len(locals) = i - 1
    /\ \A s \in 1 .. Len(linked) : linked[s].base \in Nat

LEMMA FailRuns ==
    ASSUME RunInv, NEW reason, reason # "none", Fail(reason), UNCHANGED linkVars
    PROVE  RunInv'
<1>1. /\ phase' = "failed" /\ error' = reason /\ i' = i /\ objects' = objects
      /\ locals' = locals /\ linked' = linked
  BY DEF Fail, linkVars
<1>2. "failed" \notin Walks \cup {"merge", "request", "allocate", "ingest"}
  BY DEF Walks
<1> QED
  BY <1>1, <1>2 DEF RunInv

LEMMA NoLocals == IsSeq(<<>>) /\ Len(<<>>) = 0
BY DEF IsSeq

\* The compiler's steps, the linker not yet begun.
LEMMA CompileRuns ==
    ASSUME LinkInv', RunInv, CompileNext, UNCHANGED linkVars
    PROVE  RunInv'
<1> DEFINE Moved == /\ phase' \in Walks \cup {"merge"} /\ error' = error
                    /\ i' = i + 1 \/ i' = 1
           Failed == \E reason : reason # "none" /\ Fail(reason)
<1>1. Moved \/ Failed
  <2> USE DEF Walks, At, Advance
  <2>1. CASE GeneratePool \/ GenerateReclaim \/ GenerateAlloc \/ GeneratePinned \/ GenerateOther
    BY <2>1 DEF GeneratePool, GenerateReclaim, GenerateAlloc, GeneratePinned, GenerateOther
  <2>2. CASE RequestSlot \/ BindLabel \/ DeclareLabel \/ DeclareExtern \/ MoveOn \/ PassOver
    BY <2>2 DEF RequestSlot, BindLabel, DeclareLabel, DeclareExtern, MoveOn, PassOver
  <2>3. CASE RegisterAlias \/ RevisitOther \/ ExportSymbols
    BY <2>3 DEF RegisterAlias, RevisitOther, ExportSymbols
  <2>4. CASE EmitAlloc
    BY <2>4 DEF EmitAlloc
  <2>5. CASE EmitBytes \/ EmitOrg \/ EmitIps \/ EmitNothing
    BY <2>5 DEF EmitBytes, EmitOrg, EmitIps, EmitNothing
  <2>6. CASE NextWalk
    BY <2>6 DEF NextWalk
  <2>7. CASE FinishModule
    BY <2>7 DEF FinishModule
  <2> QED
    BY <2>1, <2>2, <2>3, <2>4, <2>5, <2>6, <2>7 DEF CompileNext
<1>2. CASE Moved
  <2>1. phase \in Walks /\ locals' = locals /\ linked' = linked
    BY WalkPhases DEF linkVars
  <2>2. locals' = <<>>
    BY <2>1 DEF RunInv
  <2>3. IsSeq(locals') /\ Len(locals') = 0
    BY <2>2, NoLocals
  <2>4. Len(objects') \in Nat
    BY SeqFacts DEF LinkInv, ObjectsSound
  <2>5. i' \in Nat \ {0}
    BY <1>2 DEF RunInv
  <2>6. phase # "failed" /\ phase' # "failed" /\ phase' # "ingest"
    BY <1>2, <2>1 DEF Walks
  <2>7. phase' \in Walks \cup Linking
    BY <1>2 DEF Linking
  <2>8. Len(locals') <= Len(objects')
    BY <2>3, <2>4
  <2>9. (phase' = "failed") = (error' # "none")
    BY <1>2, <2>6 DEF RunInv
  <2>10. \A s \in 1 .. Len(linked') : linked'[s].base \in Nat
    BY <2>1 DEF RunInv
  <2> QED
    BY <2>2, <2>3, <2>5, <2>6, <2>7, <2>8, <2>9, <2>10 DEF RunInv
<1>3. CASE Failed
  BY <1>3, FailRuns
<1> QED
  BY <1>1, <1>2, <1>3

\* Where _ingest_object puts a section.
LEMMA BaseNat ==
    ASSUME LinkInv, PoolsInv, phase = "ingest", NEW s \in 1 .. Len(Sections)
    PROVE  Sections[s].base \in Nat
<1>1. i \in 1 .. Len(objects) /\ ObjectSound(i) /\ Placed
  BY ObjectAt
<1>2. phase \in Late
  BY DEF Late
<1>3. /\ IsSeq(Sections) /\ Len(Sections) = Len(Object.sections)
      /\ objects[i].relocatable => Sections[s].base = BaseAddress + offset
  BY SectionsFacts
<1>4. s \in 1 .. Len(Object.sections)
  BY <1>3
<1>5. SectionsShape(Object.sections)
  BY <1>1 DEF ObjectSound, Object
<1>6. Object.sections[s].base \in Nat /\ DOMAIN Object.sections = 1 .. Len(Object.sections)
  BY <1>4, <1>5, SeqFacts DEF SectionsShape, SectionShape
<1>7. Sections[s].base = FinalBase(i, s)
  BY <1>4, <1>6 DEF Sections
<1>8. CASE objects[i].relocatable
  <2>1. BaseAddress + offset \in Nat
    BY <1>1, BaseAssumption DEF Placed
  <2> QED
    BY <2>1, <1>3, <1>8
<1>9. CASE Pooled(i, s)
  <2> DEFINE place == <<i, s>>
             t == slots[place]
  <2>1. place \in DOMAIN slots /\ SlotsFit(objects, merged, slots)
    BY <1>2, <1>9, PhasesApart DEF PoolsInv, Pooled
  <2>2. SlotFits(objects, merged, place, t)
    BY <2>1 DEF SlotsFit
  <2>3. t.pool \in 1 .. Len(merged) /\ t.req \in 1 .. Len(merged[t.pool].names)
    BY <2>2 DEF SlotFits
  <2>4. /\ Allotted(merged[t.pool])
        /\ Len(merged[t.pool].names) = Len(merged[t.pool].reqs)
    BY <2>3, <1>2, PoolFacts
  <2>5. merged[t.pool].addr[t.req] \in Nat
    BY <2>3, <2>4 DEF Allotted
  <2>6. FinalBase(i, s) = merged[t.pool].addr[t.req]
    BY <1>9 DEF FinalBase, Slot
  <2> QED
    BY <2>5, <2>6, <1>7
<1>10. CASE ~objects[i].relocatable /\ ~Pooled(i, s)
  <2>1. FinalBase(i, s) = Object.sections[s].base + 0
    BY <1>10 DEF FinalBase, DeltaFor, Object
  <2> QED
    BY <2>1, <1>6, <1>7
<1> QED
  BY <1>8, <1>9, <1>10

LEMMA IngestRuns ==
    ASSUME LinkInv, PoolsInv, RunInv, IngestObject
    PROVE  RunInv'
<1>1. /\ phase = "ingest"
      /\ \/ /\ Fail("duplicate symbol") /\ UNCHANGED linkVars
         \/ /\ linked' = linked \o Sections /\ Onward(Len(objects), "aliases")
            /\ \E mine : locals' = Append(locals, mine)
  BY DEF IngestObject, Abort, Sections
<1>2. CASE /\ linked' = linked \o Sections /\ Onward(Len(objects), "aliases")
           /\ \E mine : locals' = Append(locals, mine)
  <2>1. /\ i \in 1 .. Len(objects) /\ Len(objects) \in Nat
        /\ IsSeq(linked) /\ IsSeq(Sections)
    BY <1>1, ObjectAt, SectionsFacts DEF Placed
  <2>2. /\ error' = error /\ objects' = objects
        /\ \/ i # Len(objects) /\ i' = i + 1 /\ phase' = "ingest"
           \/ i' = 1 /\ phase' = "aliases"
    BY <1>1, <1>2 DEF Onward, Goto
  <2>3. IsSeq(locals) /\ Len(locals) = i - 1
    BY <1>1 DEF RunInv
  <2>4. PICK mine : locals' = Append(locals, mine)
    BY <1>2
  <2>5. IsSeq(locals') /\ Len(locals') = i
    BY <2>1, <2>3, <2>4, AppendFacts
  <2>6. PICK all : all = linked \o Sections
    OBVIOUS
  <2>7. /\ Len(all) = Len(linked) + Len(Sections)
        /\ \A k \in 1 .. Len(linked) : all[k] = linked[k]
        /\ \A k \in 1 .. Len(Sections) : all[Len(linked) + k] = Sections[k]
    BY <2>1, <2>6, ConcatFacts
  <2>8. Len(linked) \in Nat /\ Len(Sections) \in Nat
    BY <2>1, SeqFacts
  <2>9. ASSUME NEW s \in 1 .. Len(all) PROVE all[s].base \in Nat
    <3>1. CASE s \in 1 .. Len(linked)
      BY <3>1, <2>7 DEF RunInv
    <3>2. CASE s \notin 1 .. Len(linked)
      <4>1. s - Len(linked) \in 1 .. Len(Sections) /\ Len(linked) + (s - Len(linked)) = s
        BY <3>2, <2>7, <2>8
      <4>2. all[s] = Sections[s - Len(linked)]
        BY <4>1, <2>7
      <4> QED
        BY <4>1, <4>2, <1>1, BaseNat
    <3> QED
      BY <3>1, <3>2
  <2>10. \A s \in 1 .. Len(linked') : linked'[s].base \in Nat
    BY <2>6, <2>9, <1>2
  <2>11. phase' \notin Walks \cup {"merge", "request", "allocate", "failed"} /\ phase' \in Linking
    BY <2>2 DEF Walks, Linking
  <2>12. i' \in Nat \ {0} /\ (phase' = "ingest" => Len(locals') = i' - 1)
    BY <2>1, <2>2, <2>5
  <2>13. Len(locals') <= Len(objects')
    BY <2>1, <2>2, <2>5
  <2>14. (phase' = "failed") = (error' # "none")
    BY <2>2, <2>11, <1>1 DEF RunInv
  <2> QED
    BY <2>5, <2>10, <2>11, <2>12, <2>13, <2>14 DEF RunInv
<1>3. CASE Fail("duplicate symbol") /\ UNCHANGED linkVars
  BY <1>3, FailRuns
<1> QED
  BY <1>1, <1>2, <1>3

\* The steps that ingest nothing.
LEMMA LinkRuns ==
    ASSUME RunInv, MergePools \/ RequestSlots \/ AllocatePool \/ ResolveAliases
                   \/ AliasesDone \/ CheckUnresolved \/ ApplyRelocations
    PROVE  RunInv'
<1> DEFINE Early == {"merge", "request", "allocate"}
           After == {"aliases", "check", "relocate", "linked"}
           Moved == /\ phase \in Early \cup After
                    /\ \/ phase' = phase
                       \/ phase \in Early /\ phase' \in Early \cup {"ingest"} /\ i' = 1
                       \/ phase \in After /\ phase' \in After
                    /\ i' = i \/ i' = i + 1 \/ i' = 1
                    /\ error' = error /\ objects' = objects
                    /\ locals' = locals /\ linked' = linked
           Failed == \E reason : reason # "none" /\ Fail(reason) /\ UNCHANGED linkVars
<1>1. Moved \/ Failed
  <2> USE DEF Onward, Goto, Abort
  <2>1. CASE MergePools
    BY <2>1 DEF MergePools
  <2>2. CASE RequestSlots
    BY <2>2 DEF RequestSlots
  <2>3. CASE AllocatePool
    BY <2>3 DEF AllocatePool
  <2>4. CASE ResolveAliases
    BY <2>4 DEF ResolveAliases, buildVars
  <2>5. CASE AliasesDone
    BY <2>5 DEF AliasesDone, linkVars
  <2>6. CASE CheckUnresolved
    BY <2>6 DEF CheckUnresolved, linkVars
  <2>7. CASE ApplyRelocations
    BY <2>7 DEF ApplyRelocations
  <2> QED
    BY <2>1, <2>2, <2>3, <2>4, <2>5, <2>6, <2>7
<1>2. CASE Moved
  <2>1. /\ phase' \in Early \cup After \cup {"ingest"} /\ error' = error
        /\ objects' = objects /\ locals' = locals /\ linked' = linked
        /\ i' \in Nat \ {0}
    BY <1>2 DEF RunInv
  <2>2. phase' \in Linking /\ phase' \notin Walks /\ phase' # "failed" /\ phase # "failed"
    BY <1>2, <2>1 DEF Linking, Walks
  <2>3. phase' \in Early \cup {"ingest"} => locals' = <<>>
    BY <1>2 DEF RunInv
  <2>4. phase' = "ingest" => Len(locals') = i' - 1
    <3>1. phase' = "ingest" => i' = 1 /\ locals' = <<>>
      BY <1>2, <2>3
    <3> QED
      BY <3>1, NoLocals
  <2>5. (phase' = "failed") = (error' # "none")
    BY <2>1, <2>2 DEF RunInv
  <2> QED
    BY <2>1, <2>2, <2>3, <2>4, <2>5 DEF RunInv
<1>3. CASE Failed
  BY <1>3, FailRuns
<1> QED
  BY <1>1, <1>2, <1>3

LEMMA RunInit == Init => RunInv
<1> SUFFICES ASSUME Init PROVE RunInv
  OBVIOUS
<1>1. /\ phase = "codegen" /\ i = 1 /\ error = "none" /\ objects = <<>>
      /\ locals = <<>> /\ linked = <<>>
  BY DEF Init, InitBuild, InitLink
<1>2. Len(objects) = 0 /\ Len(linked) = 0
  BY <1>1, NoLocals
<1> QED
  BY <1>1, <1>2, NoLocals DEF RunInv, Walks

LEMMA RunNext ==
    ASSUME LinkInv, LinkInv', PoolsInv, RunInv, Next
    PROVE  RunInv'
BY CompileRuns, IngestRuns, LinkRuns DEF Next, LinkNext

LEMMA RunStutter ==
    ASSUME RunInv, UNCHANGED vars
    PROVE  RunInv'
<1>1. /\ phase' = phase /\ i' = i /\ error' = error /\ objects' = objects
      /\ locals' = locals /\ linked' = linked
  BY DEF vars, buildVars, linkVars
<1> QED
  BY <1>1 DEF RunInv

LEMMA RunTyped ==
    ASSUME LinkInv, ResolverInv, RunInv
    PROVE  TypeOK
<1>1. /\ source \in Programs /\ Len(objects) <= Len(source)
      /\ offset \in Nat /\ IsSeq(objects) /\ IsSeq(linked)
      /\ \A s \in 1 .. Len(linked) : linked[s].obj \in 1 .. Len(objects)
  BY DEF LinkInv, ObjectsSound, LinkSound, Placed
<1>2. DOMAIN objects = 1 .. Len(objects) /\ DOMAIN linked = 1 .. Len(linked)
  BY <1>1, SeqFacts
<1>3. here \in Nat /\ \A x \in DOMAIN labels : labels[x] \in Nat
  BY DEF ResolverInv, Addresses
<1>4. phase \in Walks \cup {"merge", "request", "allocate", "ingest", "aliases", "check",
                            "relocate", "linked", "failed"}
  BY DEF RunInv, Linking
<1> QED
  BY <1>1, <1>2, <1>3, <1>4 DEF TypeOK, RunInv

\* Through all phases the values one hands to the next are of their kind: an
\* address for every label and every linked section wherever its base comes
\* from, a reason whenever the build fails, a symbol table per ingested object.
THEOREM LinkTyped == Spec => []TypeOK
<1>1. Init => RunInv
  BY RunInit
<1>2. LinkInv /\ LinkInv' /\ PoolsInv /\ RunInv /\ [Next]_vars => RunInv'
  BY RunNext, RunStutter
<1>3. LinkInv /\ ResolverInv /\ RunInv => TypeOK
  BY RunTyped
<1> QED
  BY <1>1, <1>2, <1>3, LinkInvariant, PoolsInvariant, PTL DEF Spec
=============================================================================
