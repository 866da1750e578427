------------------------------ MODULE PoolOps -------------------------------
(***************************************************************************)
(* The data of src/a816/pool.py: PoolRange with the helpers that keep a    *)
(* pool's list of ranges sorted, merged and disjoint, and Allocation with  *)
(* the orders in which the allocator serves requests.                      *)
(*                                                                         *)
(* The code keeps ranges in lists sorted by start address and every list   *)
(* it builds is disjoint, so a SET of ranges stands for the list: "the     *)
(* first chunk" of the code is the chunk with the least start.             *)
(***************************************************************************)
EXTENDS Integers, Sequences, FiniteSets, Folding

CONSTANT BankSize     \* 65536 in the code (start >> 16)

ASSUME BankSizeAssumption == BankSize \in Nat \ {0}

\* PoolRange: an inclusive address range.  `cross` is allow_bank_cross.
Ranges == [lo : Nat, hi : Nat, cross : BOOLEAN]

Bank(a) == a \div BankSize

\* What PoolRange.__post_init__ accepts; anything else raises
\* PoolInvalidRangeError and never becomes a range.
ValidRange(r) ==
    /\ r \in Ranges
    /\ r.lo <= r.hi
    /\ r.cross \/ Bank(r.lo) = Bank(r.hi)

Size(r) == r.hi - r.lo + 1

Overlaps(r, s) == ~(r.hi < s.lo \/ s.hi < r.lo)

Disjoint(S) == \A r, s \in S : r # s => ~Overlaps(r, s)

\* m bytes at a and n bytes at b do not meet.
Apart(a, m, b, n) == a + m <= b \/ b + n <= a

\* Mutant: the bank is not looked at.
AnyBank(r, s) == TRUE

\* The two ranges start in one bank.
SameBank(r, s) == Bank(r.lo) = Bank(s.lo)

\* _normalize_ranges lets r and its right neighbour s merge: adjacent, and
\* starting in one bank.
Mergeable(r, s) == r.hi + 1 = s.lo /\ SameBank(r, s)

\* From a to b every range of S merges with the next.
IsRun(S, a, b) ==
    /\ a.lo <= b.lo
    /\ SameBank(a, b)
    /\ \A c \in S :
          /\ a.lo < c.lo /\ c.lo <= b.lo => \E d \in S : Mergeable(d, c)
          /\ a.lo <= c.lo /\ c.lo < b.lo => \E d \in S : Mergeable(c, d)

\* _normalize_ranges on disjoint ranges: every maximal run of mergeable
\* ranges becomes one range, which may cross a bank if a part may.
Normalize(S) ==
    LET Heads == {a \in S : \A d \in S : ~Mergeable(d, a)}
        Tails == {b \in S : \A d \in S : ~Mergeable(b, d)}
    IN  { [lo |-> p[1].lo, hi |-> p[2].hi,
           cross |-> \E c \in S : c.lo \in p[1].lo .. p[2].lo /\ c.cross]
          : p \in {q \in Heads \X Tails : IsRun(S, q[1], q[2])} }

\* The chunk wholly holds `size` bytes at address a.
Holds(chunk, a, size) == chunk.lo <= a /\ a + size - 1 <= chunk.hi

\* Mutant: the tail starts at the last byte taken.
RemainderTailEarly(chunk, a, size) ==
    (IF a > chunk.lo THEN {[chunk EXCEPT !.hi = a - 1]} ELSE {})
    \cup
    (IF a + size - 1 < chunk.hi THEN {[chunk EXCEPT !.lo = a + size - 1]} ELSE {})

\* Mutant: _carve drops the bytes before the pin.
RemainderNoHead(chunk, a, size) ==
    IF a + size - 1 < chunk.hi THEN {[chunk EXCEPT !.lo = a + size]} ELSE {}

\* _carve and _shrink_chunk: what is left of a chunk once `size` bytes at
\* `a` are taken out of it: a head, a tail, both or nothing.
Remainder(chunk, a, size) ==
    (IF a > chunk.lo THEN {[chunk EXCEPT !.hi = a - 1]} ELSE {})
    \cup
    (IF a + size - 1 < chunk.hi THEN {[chunk EXCEPT !.lo = a + size]} ELSE {})

\* Mutant: a chunk that is exactly full is passed over.
FitsLoosely(chunk, size) == Size(chunk) > size

\* _place takes a chunk that has room.
Fits(chunk, size) == Size(chunk) >= size

\* The loops of _place and _carve stop at the first chunk that qualifies.
IsFirst(c, S) == c \in S /\ \A d \in S : c.lo <= d.lo

\* The test by which _subtract_one keeps a span.
Inside(s, r) == ~(s.hi < r.lo \/ s.lo > r.hi)

\* What the walk of _subtract_one appends between two addresses of r.
Between(r, from, to) == [lo |-> from, hi |-> to, cross |-> r.cross]

\* One turn of _subtract_one: the next span by its address, and the gap between
\* the cursor and it.
Subtract(walk, n) ==
    LET s == CHOOSE s \in walk.left : \A t \in walk.left : s.lo <= t.lo
    IN  [range  |-> walk.range,
         left   |-> walk.left \ {s},
         cursor |-> IF s.hi + 1 > walk.cursor THEN s.hi + 1 ELSE walk.cursor,
         out    |-> IF s.lo > walk.cursor
                    THEN walk.out \cup {Between(walk.range, walk.cursor, s.lo - 1)} ELSE walk.out]

\* _subtract_one: the gaps the spans (records with lo and hi, none partly
\* outside r) leave in r, found by a cursor that walks them in address order.
Gaps(r, spans) ==
    LET inside == {s \in spans : Inside(s, r)}
        end == Fold(Subtract, [range |-> r, left |-> inside, cursor |-> r.lo, out |-> {}],
                    [n \in 1 .. Cardinality(inside) |-> n])
    IN  end.out \cup (IF end.cursor <= r.hi THEN {Between(r, end.cursor, r.hi)} ELSE {})

-----------------------------------------------------------------------------
\* Allocation: a request for `size` bytes, pinned at an address or floating.
\* `name` is a number: the code only ever compares names, to break ties.
Floating == -1
Unplaced == -1

Requests == [name : Nat, size : Nat \ {0}, pin : Nat \cup {Floating}]

Pinned(reqs) == {i \in DOMAIN reqs : reqs[i].pin # Floating}

\* sorted(pinned, key=pinned_addr), a stable sort.
PinBefore(reqs, i, j) ==
    \/ reqs[i].pin < reqs[j].pin
    \/ reqs[i].pin = reqs[j].pin /\ i < j

\* Mutant: ties on size are left in request order.
LargerOnly(reqs, i, j) ==
    reqs[i].size > reqs[j].size \/ (reqs[i].size = reqs[j].size /\ i < j)

\* _sort_allocations under PACK: (-size, name), a stable sort.
LargerFirst(reqs, i, j) ==
    \/ reqs[i].size > reqs[j].size
    \/ /\ reqs[i].size = reqs[j].size
       /\ \/ reqs[i].name < reqs[j].name
          \/ reqs[i].name = reqs[j].name /\ i < j

\* _sort_allocations under ORDER: as requested.
InOrder(reqs, i, j) == i < j

FloatBefore(strategy, reqs, i, j) ==
    IF strategy = "pack" THEN LargerFirst(reqs, i, j) ELSE InOrder(reqs, i, j)

=============================================================================
