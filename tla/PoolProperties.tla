--------------------------- MODULE PoolProperties ---------------------------
(***************************************************************************)
(* What makes the allocator of Pool.tla correct.                           *)
(***************************************************************************)
EXTENDS Pool, PoolLayout, Functions

Span(i) == addr[i] .. addr[i] + requests[i].size - 1

Bytes(S) == UNION {r.lo .. r.hi : r \in S}

\* No address is handed out twice: placed requests never overlap one another
\* nor a chunk still on the free list.  A pinned request whose carving raised
\* keeps its address and is the exception.
NoOverlap ==
    pc # "failed" =>
        \A i \in Placed :
            /\ \A j \in Placed : i # j => Span(i) \cap Span(j) = {}
            /\ Span(i) \cap Bytes(free) = {}

\* allocate() neither loses nor invents space: at every turn of its loops
\* what it has placed and what it holds free are exactly the pool's ranges.
Conservation ==
    pc \in {"placing", "done"} =>
        Bytes(free) \cup UNION {Span(i) : i \in Placed} = Bytes(ranges)

\* self._free_ranges, which recomputes the leftover from the placements.
FreeRanges ==
    IF pc = "done"
    THEN UNION {Gaps(r, {[lo |-> addr[i], hi |-> addr[i] + requests[i].size - 1]
                         : i \in Placed}) : r \in ranges}
    ELSE ranges

\* A placement never straddles two banks unless one of the ranges it was
\* given may: merging adjacent ranges must not fuse two banks.
StaysInBank ==
    pc = "done" =>
        \A i \in Placed :
            \/ Bank(addr[i]) = Bank(addr[i] + requests[i].size - 1)
            \/ \E r \in ranges : r.cross /\ Holds(r, addr[i], requests[i].size)

\* The sizes of all requests, added up.
BytesAsked(reqs) == FoldFunction(LAMBDA w, n : w.size + n, 0, reqs)

\* A refusal has a reason its author can see in the source.  A pin is
\* refused only if it leaves the pool's ranges or another pin claims some of
\* its bytes: floating requests never get in its way.  And with one range and
\* no pins allocation is exact: it overflows only when the requests really
\* add up to more bytes than the pool has.
RefusalsExplained ==
    LET PinSpan(i) == requests[i].pin .. requests[i].pin + requests[i].size - 1
    IN  /\ error \in {"overlap", "outside"} =>
               \E i \in Pinned(requests) :
                   \/ ~\E r \in ranges : Holds(r, requests[i].pin, requests[i].size)
                   \/ \E j \in Pinned(requests) :
                         i # j /\ PinSpan(i) \cap PinSpan(j) # {}
        /\ \A r \in ranges :
               error = "overflow" /\ ranges = {r} /\ Pinned(requests) = {} =>
                   BytesAsked(requests) > Size(r)

\* The loops of allocate() leave what the rest of the program takes them to
\* leave: the report behind fragments and largest_chunk, computed by
\* subtraction, names the very chunks the free list ended with, and the layout
\* as one function call (PoolLayout, which the linker's model uses) is the one
\* the loops made turn by turn.
LayoutReported ==
    LET result == Layout(ranges, strategy, requests)
    IN  /\ pc = "done" => FreeRanges = free
        /\ pc = "done" => result.error = "none" /\ result.addr = addr /\ result.free = free
        /\ pc = "failed" => result.error = error

\* Reordering the source: the same requests, made in another order.
Reordered(p) == [i \in DOMAIN requests |-> requests[p[i]]]

Reorderings == {p \in [DOMAIN requests -> DOMAIN requests] :
                   \A i, j \in DOMAIN p : i # j => p[i] # p[j]}

\* Two requests pinned at one address, of which allocate() never grants both.
PinnedTwice == \E i, j \in Pinned(requests) : i # j /\ requests[i].pin = requests[j].pin

\* Every request is placed at the same address however the requests, all of
\* different names, were ordered in the source, or for the same reason nothing
\* is; which of two requests pinned at one address is blamed, and whether for an
\* overlap or for lying outside, does depend on it.
PlacedAlike(p) ==
    LET one   == Layout(ranges, strategy, requests)
        other == Layout(ranges, strategy, Reordered(p))
    IN  /\ \/ one.error = other.error
           \/ PinnedTwice /\ one.error # "none" /\ other.error # "none"
        /\ one.error = "none" => \A i \in DOMAIN p : other.addr[i] = one.addr[p[i]]

DistinctNames == \A i, j \in DOMAIN requests : i # j => requests[i].name # requests[j].name

\* Under the `pack` strategy a layout does not depend on the order of the
\* requests: the sort by size and name undoes it.
PackStable ==
    pc # "open" /\ strategy = "pack" /\ DistinctNames =>
        \A p \in Reorderings : PlacedAlike(p)

-----------------------------------------------------------------------------
\* The strengthening of NoOverlap and Conservation that every step of the
\* allocator preserves: chunks and spans lie inside the ranges, all apart.
LayoutInv ==
    /\ Disjoint(ranges)
    /\ \A r \in ranges : ValidRange(r)
    /\ \A r, s \in ranges : ~Mergeable(r, s)
    /\ pc = "open" => Placed = {}
    /\ pc \in {"placing", "done"} =>
          /\ Disjoint(free)
          /\ \A c \in free :
                /\ c.lo <= c.hi
                /\ \E r \in ranges : r.lo <= c.lo /\ c.hi <= r.hi
          /\ \A i \in Placed :
                /\ \E r \in ranges : Holds(r, addr[i], requests[i].size)
                /\ requests[i].pin # Floating => addr[i] = requests[i].pin
                /\ \A c \in free :
                      Apart(addr[i], requests[i].size, c.lo, c.hi - c.lo + 1)
                /\ \A j \in Placed : i # j =>
                      Apart(addr[i], requests[i].size, addr[j], requests[j].size)
          /\ \A r \in ranges : \A x \in r.lo .. r.hi :
                \/ \E c \in free : c.lo <= x /\ x <= c.hi
                \/ \E i \in Placed : addr[i] <= x /\ x < addr[i] + requests[i].size
    /\ pc = "done" => Placed = DOMAIN requests
    /\ pc = "failed" => requests # <<>>

\* What every step of the pool, in the source or in allocate(), leaves true
\* (allocate, src/a816/pool.py:124): its types, and its chunks and spans in place.
IInv == TypeOK /\ LayoutInv

-----------------------------------------------------------------------------
\* The program, seen from outside: every allocation at once, or none.
Promise ==
    INSTANCE PoolPromise WITH
        space     <- Bytes(ranges),
        placement <- IF pc = "done" THEN addr ELSE <<>>,
        outcome   <- IF pc = "placing" THEN "open" ELSE pc

\* The stepwise allocator implements the promise of PoolPromise.
KeepsPromise == Promise!Spec

\* allocate() returns or raises.
Terminates == pc = "placing" ~> pc \in {"done", "failed"}
=============================================================================
