------------------------------ MODULE Folding -------------------------------
(***************************************************************************)
(* Folds, functions put together, and bindings that evaluate what they are *)
(* given once.  In an action TLC evaluates an argument wherever the        *)
(* operator mentions it, so a fold whose step mentions its accumulator k   *)
(* times costs k^n; a bound variable is evaluated when it is bound.        *)
(***************************************************************************)
EXTENDS Integers, Sequences

\* op(x, y), with x evaluated first.
Strictly(op(_, _), x, y) == CHOOSE r \in {op(z, y) : z \in {x}} : TRUE

\* op applied from the left: op(...op(op(base, seq[1]), seq[2])..., seq[n]).
Fold(op(_, _), base, seq) ==
    LET run[k \in 0 .. Len(seq)] ==
            IF k = 0 THEN base ELSE Strictly(op, run[k - 1], seq[k])
    IN  run[Len(seq)]

\* A dict d updated with the items of f, and with one item.
Over(f, d) == [x \in DOMAIN f \cup DOMAIN d |-> IF x \in DOMAIN f THEN f[x] ELSE d[x]]
Bound(d, x, v) == [y \in DOMAIN d \cup {x} |-> IF y = x THEN v ELSE d[y]]
=============================================================================
