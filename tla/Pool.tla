-------------------------------- MODULE Pool --------------------------------
(***************************************************************************)
(* One freespace pool (src/a816/pool.py), from its declaration to the end  *)
(* of Pool.allocate().  Callers -- the code generator, the AllocNodes of   *)
(* the resolver's first pass, the linker -- reclaim ranges and request     *)
(* spans in any order; allocate() then places the pinned requests and      *)
(* after them the floating ones, shrinking its list of free chunks.  Each  *)
(* turn of the two loops of allocate() is one action.                      *)
(***************************************************************************)
EXTENDS PoolOps

CONSTANTS Decls,        \* sets of ranges a pool may be declared with
          Reclaims,     \* ranges a caller may reclaim
          Wanted,       \* requests a caller may make: name, size and pin
          Strategies,   \* subset of {"pack", "order"}
          MaxRequests   \* bound: requests one pool receives

ASSUME PoolAssumption ==
    /\ \A D \in Decls : \A r \in D : ValidRange(r)
    /\ \A r \in Reclaims : ValidRange(r)
    /\ Wanted \subseteq Requests
    /\ Strategies \subseteq {"pack", "order"}
    /\ MaxRequests \in Nat

VARIABLES ranges,       \* self.ranges: the declared and reclaimed ranges
          strategy,     \* self.strategy
          requests,     \* self.allocations, as asked for
          addr,         \* the addr field of each allocation, Unplaced at first
          free,         \* allocate()'s local list of free chunks
          pc,           \* "open", "placing", "done" (_allocated) or "failed"
          error         \* what allocate() raised, "none" otherwise

vars == <<ranges, strategy, requests, addr, free, pc, error>>

Placed == {i \in DOMAIN requests : addr[i] # Unplaced}

TypeOK ==
    /\ ranges \subseteq Ranges
    /\ strategy \in Strategies
    /\ requests \in Seq(Requests)
    /\ addr \in Seq(Nat \cup {Unplaced})
    /\ DOMAIN addr = DOMAIN requests
    /\ free \subseteq Ranges
    /\ pc \in {"open", "placing", "done", "failed"}
    /\ error \in {"none", "overflow", "overlap", "outside"}

-----------------------------------------------------------------------------
\* Pool(...): overlapping ranges raise, and no pool comes to exist.
Init ==
    /\ \E D \in Decls : Disjoint(D) /\ ranges = Normalize(D)
    /\ strategy \in Strategies
    /\ requests = <<>>
    /\ addr = <<>>
    /\ free = {}
    /\ pc = "open"
    /\ error = "none"

\* Pool.request: refused once allocated; the size check is part of Requests.
Request(w) ==
    /\ pc = "open"
    /\ Len(requests) < MaxRequests
    /\ requests' = Append(requests, w)
    /\ addr' = Append(addr, Unplaced)
    /\ UNCHANGED <<ranges, strategy, free, pc, error>>

\* Mutant: reclaim does not look at _allocated.
ReclaimAnyTime(r) ==
    /\ pc \in {"open", "done"}
    /\ \A s \in ranges : ~Overlaps(s, r)
    /\ ranges' = Normalize(ranges \cup {r})
    /\ UNCHANGED <<strategy, requests, addr, free, pc, error>>

\* Pool.reclaim: a range that overlaps one already there is refused; the
\* others are merged with their neighbours.
Reclaim(r) ==
    /\ pc = "open"
    /\ \A s \in ranges : ~Overlaps(s, r)
    /\ ranges' = Normalize(ranges \cup {r})
    /\ UNCHANGED <<strategy, requests, addr, free, pc, error>>

\* Pool.allocate up to its first loop.
StartAllocate ==
    /\ pc = "open"
    /\ pc' = "placing"
    /\ free' = ranges
    /\ UNCHANGED <<ranges, strategy, requests, addr, error>>

\* Mutant: the exception is swallowed and the loop goes round again.
FailSilently(reason) ==
    /\ error' = reason
    /\ UNCHANGED <<ranges, strategy, requests, free, pc>>

\* PoolError raised out of allocate(); _allocated stays False.
Fail(reason) ==
    /\ pc' = "failed"
    /\ error' = reason
    /\ UNCHANGED <<ranges, strategy, requests, free>>

\* The pinned request the first loop takes next.  Its addr field is set
\* before _carve looks at it, and stays set when _carve raises.
NextPinned(i) ==
    LET waiting == Pinned(requests) \ Placed
    IN  /\ i \in waiting
        /\ \A j \in waiting \ {i} : PinBefore(requests, i, j)

Carve(i) ==
    LET w == requests[i]
    IN  \E c \in free :
            /\ IsFirst(c, {d \in free : Holds(d, w.pin, w.size)})
            /\ free' = (free \ {c}) \cup Remainder(c, w.pin, w.size)
            /\ UNCHANGED <<ranges, strategy, requests, pc, error>>

CarveFails(i) ==
    LET w == requests[i]
    IN  /\ ~\E c \in free : Holds(c, w.pin, w.size)
        /\ Fail(IF \E r \in ranges : Holds(r, w.pin, w.size)
                THEN "overlap" ELSE "outside")

PlacePinned(i) ==
    /\ pc = "placing"
    /\ NextPinned(i)
    /\ addr' = [addr EXCEPT ![i] = requests[i].pin]
    /\ Carve(i) \/ CarveFails(i)

\* Mutant: one loop serves all requests, floating ones before the pins.
NextFloatingEarly(i) ==
    LET waiting == DOMAIN requests \ (Placed \cup Pinned(requests))
    IN  /\ i \in waiting
        /\ \A j \in waiting \ {i} : FloatBefore(strategy, requests, i, j)

\* The floating request the second loop takes next, once no pin is left.
NextFloating(i) ==
    LET waiting == DOMAIN requests \ Placed
    IN  /\ Pinned(requests) \subseteq Placed
        /\ i \in waiting
        /\ \A j \in waiting \ {i} : FloatBefore(strategy, requests, i, j)

Place(i) ==
    LET w == requests[i]
    IN  \E c \in free :
            /\ IsFirst(c, {d \in free : Fits(d, w.size)})
            /\ addr' = [addr EXCEPT ![i] = c.lo]
            /\ free' = (free \ {c}) \cup Remainder(c, c.lo, w.size)
            /\ UNCHANGED <<ranges, strategy, requests, pc, error>>

PlaceFails(i) ==
    /\ ~\E c \in free : Fits(c, requests[i].size)
    /\ Fail("overflow")
    /\ UNCHANGED addr

PlaceFloating(i) ==
    /\ pc = "placing"
    /\ NextFloating(i)
    /\ Place(i) \/ PlaceFails(i)

\* Both loops ran out: _allocated = True.
FinishAllocate ==
    /\ pc = "placing"
    /\ Placed = DOMAIN requests
    /\ pc' = "done"
    /\ UNCHANGED <<ranges, strategy, requests, addr, free, error>>

AllocateStep ==
    \/ \E i \in DOMAIN requests : PlacePinned(i) \/ PlaceFloating(i)
    \/ FinishAllocate

Next ==
    \/ \E w \in Wanted : Request(w)
    \/ \E r \in Reclaims : Reclaim(r)
    \/ StartAllocate
    \/ AllocateStep

\* allocate() is one call on one thread: once begun it runs on.
Spec == Init /\ [][Next]_vars /\ WF_vars(AllocateStep)
=============================================================================
