----------------------------- MODULE PoolLayout -----------------------------
(***************************************************************************)
(* Pool.allocate() as a function of a pool's ranges, strategy and          *)
(* requests, for the components that call it as one step (the linker).     *)
(* Pool.tla has the same method turn by turn; PoolProperties states that   *)
(* the two agree.                                                          *)
(***************************************************************************)
EXTENDS PoolOps

\* A pool as allocate() finds it.
Unallocated(ranges, strategy, reqs) ==
    [ranges |-> ranges, strategy |-> strategy, reqs |-> reqs,
     free |-> ranges, addr |-> [i \in DOMAIN reqs |-> Unplaced], error |-> "none"]

Waiting(pool) == {i \in DOMAIN pool.reqs : pool.addr[i] = Unplaced}

\* The request that is served next: the pinned ones come first, by their
\* address, then the floating ones as the strategy sorts them.
Served(pool) ==
    LET pins == Waiting(pool) \cap Pinned(pool.reqs)
    IN  IF pins # {}
        THEN CHOOSE i \in pins : \A j \in pins \ {i} : PinBefore(pool.reqs, i, j)
        ELSE CHOOSE i \in Waiting(pool) :
                 \A j \in Waiting(pool) \ {i} : FloatBefore(pool.strategy, pool.reqs, i, j)

\* Request i taken out of chunk c at address a.
Take(pool, i, c, a) ==
    [pool EXCEPT !.free = (@ \ {c}) \cup Remainder(c, a, pool.reqs[i].size), !.addr[i] = a]

\* One turn of the first loop: the pin is set even if no chunk holds it.
PinStep(pool, i) ==
    LET w == pool.reqs[i]
        hold == {d \in pool.free : Holds(d, w.pin, w.size)}
    IN  IF hold = {}
        THEN [pool EXCEPT !.addr[i] = w.pin,
                          !.error = IF \E r \in pool.ranges : Holds(r, w.pin, w.size)
                                    THEN "overlap" ELSE "outside"]
        ELSE Take(pool, i, CHOOSE c \in hold : IsFirst(c, hold), w.pin)

\* One turn of the second loop.
FloatStep(pool, i) ==
    LET fit == {d \in pool.free : Fits(d, pool.reqs[i].size)}
        c == CHOOSE c \in fit : IsFirst(c, fit)
    IN  IF fit = {} THEN [pool EXCEPT !.error = "overflow"] ELSE Take(pool, i, c, c.lo)

\* One turn of allocate(), which an error ends.
Turn(pool, n) ==
    LET i == Served(pool)
    IN  IF pool.error # "none" THEN pool
        ELSE IF i \in Pinned(pool.reqs) THEN PinStep(pool, i) ELSE FloatStep(pool, i)

\* What allocate() leaves: an address per request, the free chunks, the error.
Layout(ranges, strategy, reqs) == Fold(Turn, Unallocated(ranges, strategy, reqs), reqs)

=============================================================================
