------------------------------- MODULE MCPool -------------------------------
(* Pool.tla on banks of four bytes: ranges that touch within a bank and     *)
(* across one, a bank-crossing range, pins that meet each other, leave the  *)
(* pool or fit, and floating requests that tie on size and on name.         *)
EXTENDS PoolProperties

R(a, b) == [lo |-> a, hi |-> b, cross |-> FALSE]

MCDecls == { {R(0, 1), R(2, 3), R(4, 5)},
             {R(1, 3)},
             {R(0, 1), R(1, 2)},
             {[lo |-> 2, hi |-> 6, cross |-> TRUE]} }

MCReclaims == {R(0, 0), R(4, 5), R(7, 7)}

Req(n, s, p) == [name |-> n, size |-> s, pin |-> p]

MCWanted == {Req(n, s, Floating) : n \in 1 .. 2, s \in 1 .. 2}
            \cup {Req(1, 3, Floating), Req(3, 3, 1), Req(4, 2, 3), Req(5, 2, 4), Req(6, 7, 3)}

MCStrategies == {"pack", "order"}
=============================================================================
