----------------------------- MODULE PoolPromise ----------------------------
(***************************************************************************)
(* What a freespace pool promises its users (docs/docs/freespace-pools.md  *)
(* and the docstrings of src/a816/pool.py), with no word of how the        *)
(* allocator works: while open, the pool only gains requests and address   *)
(* space; then either every request gets a span at once, all inside the    *)
(* space, pairwise disjoint and each pin at its address, or none does.     *)
(***************************************************************************)
EXTENDS Integers, Sequences

CONSTANT Wanted       \* the requests callers may make: [size, pin, ...]

VARIABLES space,      \* the set of byte addresses the pool may hand out
          requests,   \* the requests made, in order
          placement,  \* their addresses, <<>> until there is a layout
          outcome     \* "open", "done" or "failed"

promiseVars == <<space, requests, placement, outcome>>

Span(i, at) == at[i] .. at[i] + requests[i].size - 1

\* A layout that keeps every promise.
Sound(at) ==
    /\ DOMAIN at = DOMAIN requests
    /\ \A i \in DOMAIN requests :
          /\ at[i] \in Nat
          /\ Span(i, at) \subseteq space
          /\ requests[i].pin >= 0 => at[i] = requests[i].pin
          /\ \A j \in DOMAIN requests : i # j => Span(i, at) \cap Span(j, at) = {}

Init ==
    /\ space \subseteq Nat
    /\ requests = <<>>
    /\ placement = <<>>
    /\ outcome = "open"

Ask ==
    /\ outcome = "open"
    /\ \E w \in Wanted : requests' = Append(requests, w)
    /\ UNCHANGED <<space, placement, outcome>>

Extend ==
    /\ outcome = "open"
    /\ space \subseteq space'
    /\ UNCHANGED <<requests, placement, outcome>>

Publish ==
    /\ outcome = "open"
    /\ outcome' = "done"
    /\ Sound(placement')
    /\ UNCHANGED <<space, requests>>

Refuse ==
    /\ outcome = "open"
    /\ requests # <<>>
    /\ outcome' = "failed"
    /\ UNCHANGED <<space, requests, placement>>

Next == Ask \/ Extend \/ Publish \/ Refuse

Spec == Init /\ [][Next]_promiseVars

=============================================================================
