----------------------------- MODULE PoolProofs -----------------------------
(***************************************************************************)
(* The allocator of Pool.tla is correct for every bank size, every set of  *)
(* ranges and every sequence of requests: type correctness, the layout     *)
(* invariant, and the refinement of PoolPromise; and it refuses nothing    *)
(* without a reason, where that one range without pins is filled exactly   *)
(* is a statement about a sum of sizes.  The loops of allocate() come to   *)
(* what PoolLayout's function says, on which the linker relies.            *)
(***************************************************************************)
EXTENDS PoolProperties, LayoutProofs

\* The sizes of the requests of S, added up.
SizeSum(reqs, S) == FoldFunctionOnSet(LAMBDA w, n : w.size + n, 0, reqs, S)

-----------------------------------------------------------------------------
(* The inductive invariant.                                                *)

\* A declared pool, its ranges normalized, satisfies the invariant.
LEMMA InitInv == Init => IInv
<1> SUFFICES ASSUME Init PROVE IInv
  OBVIOUS
<1>1. PICK D \in Decls : Disjoint(D) /\ ranges = Normalize(D)
  BY DEF Init
<1>2. D \in SUBSET Ranges /\ NonEmpty(D)
  BY <1>1, PoolAssumption DEF ValidRange, NonEmpty
<1>3. /\ ranges \in SUBSET Ranges /\ NonEmpty(ranges)
      /\ Disjoint(ranges)
      /\ \A r, s \in ranges : ~Mergeable(r, s)
      /\ \A r \in ranges : ValidRange(r)
  BY <1>1, <1>2, PoolAssumption,
     NormalizeType, NormalizeDisjoint, NormalizeFinal, NormalizeValid
<1>4. TypeOK
  BY <1>3 DEF Init, TypeOK
<1>5. Placed = {}
  BY DEF Init, Placed
<1>6. LayoutInv
  BY <1>3, <1>5 DEF Init, LayoutInv, NonEmpty
<1> QED
  BY <1>4, <1>6 DEF IInv

\* A request appended to the pool keeps the invariant.
LEMMA RequestInv ==
    ASSUME IInv, NEW w \in Wanted, Request(w)
    PROVE  IInv'
<1>1. w \in Requests
  BY PoolAssumption
<1>2. TypeOK'
  BY <1>1 DEF IInv, TypeOK, Request, Unplaced
<1>3. Placed' = {}
  <2>1. \A i \in DOMAIN addr : addr[i] = Unplaced
    BY DEF IInv, TypeOK, LayoutInv, Request, Placed
  <2>2. \A i \in DOMAIN addr' : addr'[i] = Unplaced
    BY <2>1 DEF IInv, TypeOK, Request
  <2>3. DOMAIN requests' = DOMAIN addr'
    BY <1>2 DEF TypeOK
  <2> QED
    BY <2>2, <2>3 DEF Placed
<1>4. LayoutInv'
  BY <1>3 DEF IInv, LayoutInv, Request
<1> QED
  BY <1>2, <1>4 DEF IInv

\* A reclaimed range, merged into the pool, keeps the invariant.
LEMMA ReclaimInv ==
    ASSUME IInv, NEW r \in Reclaims, Reclaim(r)
    PROVE  IInv'
<1>1. ValidRange(r)
  BY PoolAssumption
<1>2. /\ ranges \cup {r} \in SUBSET Ranges
      /\ \A s \in ranges \cup {r} : ValidRange(s)
      /\ NonEmpty(ranges \cup {r})
  BY <1>1 DEF IInv, LayoutInv, NonEmpty, ValidRange
<1>3. Disjoint(ranges \cup {r})
  BY DEF IInv, LayoutInv, Reclaim, Disjoint, Overlaps
<1>4. /\ ranges' \in SUBSET Ranges /\ NonEmpty(ranges')
      /\ Disjoint(ranges')
      /\ \A p, q \in ranges' : ~Mergeable(p, q)
      /\ \A p \in ranges' : ValidRange(p)
  BY <1>2, <1>3, NormalizeType, NormalizeDisjoint, NormalizeFinal, NormalizeValid
  DEF Reclaim
<1>5. TypeOK'
  BY <1>4 DEF IInv, TypeOK, Reclaim
<1>6. Placed' = {}
  BY DEF IInv, LayoutInv, Reclaim, Placed
<1>7. LayoutInv'
  BY <1>4, <1>6 DEF LayoutInv, Reclaim, NonEmpty
<1> QED
  BY <1>5, <1>7 DEF IInv

\* The start of allocate(), every range free, keeps the invariant.
LEMMA StartAllocateInv ==
    ASSUME IInv, StartAllocate
    PROVE  IInv'
<1>1. TypeOK'
  BY DEF IInv, TypeOK, StartAllocate
<1>2. Placed' = {}
  BY DEF IInv, LayoutInv, StartAllocate, Placed
<1>3. \A r \in ranges : r.lo \in Nat /\ r.hi \in Nat /\ r.lo <= r.hi
  BY DEF IInv, TypeOK, LayoutInv, Ranges, ValidRange
<1>4. LayoutInv'
  BY <1>2, <1>3 DEF IInv, LayoutInv, StartAllocate
<1> QED
  BY <1>1, <1>4 DEF IInv

\* The step both loops of allocate() share: request i gets the span at a,
\* which is taken out of the chunk c.
LEMMA PlacementInv ==
    ASSUME IInv, pc = "placing",
           NEW i \in DOMAIN requests \ Placed, NEW c \in free, NEW a \in Nat,
           Holds(c, a, requests[i].size),
           requests[i].pin # Floating => a = requests[i].pin,
           addr' = [addr EXCEPT ![i] = a],
           free' = (free \ {c}) \cup Remainder(c, a, requests[i].size),
           UNCHANGED <<ranges, strategy, requests, pc, error>>
    PROVE  IInv'
<1> DEFINE n == requests[i].size
<1>1. /\ \A j \in DOMAIN requests : requests[j].size \in Nat \ {0}
      /\ DOMAIN addr = DOMAIN requests
      /\ \A j \in DOMAIN addr : addr[j] \in Nat \cup {Unplaced}
      /\ Placed \subseteq DOMAIN requests
  <2>1. requests \in Seq(Requests) /\ addr \in Seq(Nat \cup {Unplaced})
        /\ DOMAIN addr = DOMAIN requests
    BY DEF IInv, TypeOK
  <2>2. \A j \in DOMAIN requests : requests[j] \in Requests
    BY <2>1
  <2>3. \A j \in DOMAIN addr : addr[j] \in Nat \cup {Unplaced}
    BY <2>1
  <2>4. \A w \in Requests : w.size \in Nat \ {0}
    BY DEF Requests
  <2> QED
    BY <2>1, <2>2, <2>3, <2>4 DEF Placed
<1>2. \A j \in Placed : addr[j] \in Nat
  BY <1>1 DEF Placed
<1>3. free \in SUBSET Ranges /\ NonEmpty(free) /\ Disjoint(free)
  BY DEF IInv, TypeOK, LayoutInv, NonEmpty
<1>4. /\ free' \in SUBSET Ranges /\ NonEmpty(free') /\ Disjoint(free')
      /\ \A p \in free' : \E d \in free : d.lo <= p.lo /\ p.hi <= d.hi
      /\ \A p \in free' : Apart(a, n, p.lo, p.hi - p.lo + 1)
      /\ \A d \in free : \A x \in d.lo .. d.hi :
            \/ a <= x /\ x < a + n
            \/ \E p \in free' : p.lo <= x /\ x <= p.hi
  BY <1>1, <1>3, ShrinkFacts
<1>5. \A d \in free \cup free' \cup ranges : d.lo \in Nat /\ d.hi \in Nat
  BY <1>4 DEF IInv, TypeOK, Ranges
<1>6. /\ DOMAIN addr' = DOMAIN addr
      /\ addr'[i] = a
      /\ \A j \in DOMAIN addr : j # i => addr'[j] = addr[j]
  BY <1>1
<1>7. Placed' = Placed \cup {i}
  BY <1>1, <1>6 DEF Placed, Unplaced
<1>8. TypeOK'
  <2>1. addr' \in Seq(Nat \cup {Unplaced})
    BY <1>1 DEF IInv, TypeOK
  <2> QED
    BY <2>1, <1>1, <1>4, <1>6 DEF IInv, TypeOK
<1>9. \A d \in free' :
         /\ d.lo <= d.hi
         /\ \E r \in ranges : r.lo <= d.lo /\ d.hi <= r.hi
  BY <1>4, <1>5 DEF IInv, LayoutInv, NonEmpty
<1>10. \E r \in ranges : Holds(r, a, n)
  BY <1>1, <1>5 DEF IInv, LayoutInv, Holds
<1>11. \A j \in Placed :
          /\ Apart(a, n, addr[j], requests[j].size)
          /\ Apart(addr[j], requests[j].size, a, n)
  <2> SUFFICES ASSUME NEW j \in Placed
               PROVE  /\ Apart(a, n, addr[j], requests[j].size)
                      /\ Apart(addr[j], requests[j].size, a, n)
    OBVIOUS
  <2>1. Apart(addr[j], requests[j].size, c.lo, c.hi - c.lo + 1)
    BY DEF IInv, LayoutInv
  <2> QED
    BY <2>1, <1>1, <1>2, <1>5 DEF Apart, Holds
<1>12. \A j \in Placed : \A d \in free' :
          Apart(addr[j], requests[j].size, d.lo, d.hi - d.lo + 1)
  <2> SUFFICES ASSUME NEW j \in Placed, NEW p \in free'
               PROVE  Apart(addr[j], requests[j].size, p.lo, p.hi - p.lo + 1)
    OBVIOUS
  <2>1. PICK d \in free : d.lo <= p.lo /\ p.hi <= d.hi
    BY <1>4
  <2>2. Apart(addr[j], requests[j].size, d.lo, d.hi - d.lo + 1)
    BY DEF IInv, LayoutInv
  <2> QED
    BY <2>1, <2>2, <1>1, <1>2, <1>5 DEF Apart
<1>13. \A j \in Placed' :
          /\ \E r \in ranges : Holds(r, addr'[j], requests[j].size)
          /\ requests[j].pin # Floating => addr'[j] = requests[j].pin
          /\ \A d \in free' :
                Apart(addr'[j], requests[j].size, d.lo, d.hi - d.lo + 1)
          /\ \A k \in Placed' : j # k =>
                Apart(addr'[j], requests[j].size, addr'[k], requests[k].size)
  <2> SUFFICES ASSUME NEW j \in Placed'
               PROVE  /\ \E r \in ranges : Holds(r, addr'[j], requests[j].size)
                      /\ requests[j].pin # Floating => addr'[j] = requests[j].pin
                      /\ \A d \in free' :
                            Apart(addr'[j], requests[j].size, d.lo, d.hi - d.lo + 1)
                      /\ \A k \in Placed' : j # k =>
                            Apart(addr'[j], requests[j].size, addr'[k], requests[k].size)
    OBVIOUS
  <2>1. CASE j = i
    BY <2>1, <1>1, <1>4, <1>6, <1>7, <1>10, <1>11
  <2>2. CASE j # i
    <3>1. j \in Placed /\ addr'[j] = addr[j]
      BY <2>2, <1>1, <1>6, <1>7
    <3>2. /\ \E r \in ranges : Holds(r, addr[j], requests[j].size)
          /\ requests[j].pin # Floating => addr[j] = requests[j].pin
          /\ \A k \in Placed : j # k =>
                Apart(addr[j], requests[j].size, addr[k], requests[k].size)
      BY <3>1 DEF IInv, LayoutInv
    <3> QED
      BY <3>1, <3>2, <1>1, <1>6, <1>7, <1>11, <1>12
  <2> QED
    BY <2>1, <2>2
<1>14. ASSUME NEW r \in ranges, NEW x \in r.lo .. r.hi
       PROVE  \/ \E d \in free' : d.lo <= x /\ x <= d.hi
              \/ \E j \in Placed' : addr'[j] <= x /\ x < addr'[j] + requests[j].size
  <2>1. CASE \E d \in free : d.lo <= x /\ x <= d.hi
    BY <2>1, <1>4, <1>5, <1>6, <1>7
  <2>2. CASE \E j \in Placed : addr[j] <= x /\ x < addr[j] + requests[j].size
    BY <2>2, <1>1, <1>6, <1>7
  <2> QED
    BY <2>1, <2>2 DEF IInv, LayoutInv
<1>15. LayoutInv'
  BY <1>4, <1>9, <1>13, <1>14 DEF IInv, LayoutInv
<1> QED
  BY <1>8, <1>15 DEF IInv

\* An allocation given up on keeps the invariant.
LEMMA FailInv ==
    ASSUME IInv, pc = "placing", NEW i \in DOMAIN requests,
           NEW reason \in {"overflow", "overlap", "outside"}, Fail(reason),
           NEW a \in Nat \cup {Unplaced}, addr' \in {addr, [addr EXCEPT ![i] = a]}
    PROVE  IInv'
<1>1. addr' \in Seq(Nat \cup {Unplaced}) /\ DOMAIN addr' = DOMAIN addr
  BY DEF IInv, TypeOK
<1>2. TypeOK'
  BY <1>1 DEF IInv, TypeOK, Fail
<1>3. requests # <<>>
  OBVIOUS
<1>4. LayoutInv'
  BY <1>3 DEF IInv, LayoutInv, Fail
<1> QED
  BY <1>2, <1>4 DEF IInv

\* A pinned request, placed or refused, keeps the invariant.
LEMMA PlacePinnedInv ==
    ASSUME IInv, NEW i \in DOMAIN requests, PlacePinned(i)
    PROVE  IInv'
<1> DEFINE a == requests[i].pin
<1>1. /\ pc = "placing" /\ i \in DOMAIN requests \ Placed
      /\ addr' = [addr EXCEPT ![i] = a] /\ requests[i].pin # Floating
  BY DEF PlacePinned, NextPinned, Pinned
<1>2. requests[i] \in Requests
  BY DEF IInv, TypeOK
<1>3. a \in Nat
  BY <1>1, <1>2 DEF Requests
<1>4. CASE Carve(i)
  <2>1. PICK c \in free :
           /\ Holds(c, a, requests[i].size)
           /\ free' = (free \ {c}) \cup Remainder(c, a, requests[i].size)
           /\ UNCHANGED <<ranges, strategy, requests, pc, error>>
    BY <1>4 DEF Carve, IsFirst
  <2> HIDE DEF a
  <2> QED
    BY <1>1, <1>3, <2>1, PlacementInv DEF a
<1>5. CASE CarveFails(i)
  <2>1. PICK reason \in {"overlap", "outside"} : Fail(reason)
    BY <1>5 DEF CarveFails
  <2> QED
    BY <1>1, <1>3, <2>1, FailInv
<1> QED
  BY <1>4, <1>5 DEF PlacePinned

\* A floating request, placed or refused, keeps the invariant.
LEMMA PlaceFloatingInv ==
    ASSUME IInv, NEW i \in DOMAIN requests, PlaceFloating(i)
    PROVE  IInv'
<1>1. /\ pc = "placing" /\ i \in DOMAIN requests \ Placed
      /\ Pinned(requests) \subseteq Placed
  BY DEF PlaceFloating, NextFloating
<1>2. requests[i].pin = Floating /\ requests[i] \in Requests
  BY <1>1 DEF Pinned, IInv, TypeOK
<1>3. CASE Place(i)
  <2>1. PICK c \in free :
           /\ Fits(c, requests[i].size)
           /\ addr' = [addr EXCEPT ![i] = c.lo]
           /\ free' = (free \ {c}) \cup Remainder(c, c.lo, requests[i].size)
           /\ UNCHANGED <<ranges, strategy, requests, pc, error>>
    BY <1>3 DEF Place, IsFirst
  <2>2. c.lo \in Nat /\ c.hi \in Nat /\ requests[i].size \in Nat
    BY <1>2 DEF IInv, TypeOK, Ranges, Requests
  <2>3. Holds(c, c.lo, requests[i].size)
    BY <2>1, <2>2 DEF Holds, Fits, Size
  <2> QED
    BY <1>1, <1>2, <2>1, <2>2, <2>3, PlacementInv
<1>4. CASE PlaceFails(i)
  <2>1. Fail("overflow") /\ addr' = addr
    BY <1>4 DEF PlaceFails
  <2> QED
    BY <1>1, <2>1, FailInv
<1> QED
  BY <1>3, <1>4 DEF PlaceFloating

\* The end of allocate() keeps the invariant.
LEMMA FinishAllocateInv ==
    ASSUME IInv, FinishAllocate
    PROVE  IInv'
<1>1. TypeOK'
  BY DEF IInv, TypeOK, FinishAllocate
<1>2. Placed' = Placed
  BY DEF FinishAllocate, Placed
<1>3. LayoutInv'
  BY <1>2 DEF IInv, LayoutInv, FinishAllocate
<1> QED
  BY <1>1, <1>3 DEF IInv

\* Every step of the pool keeps the invariant.
LEMMA NextInv == IInv /\ [Next]_vars => IInv'
<1> SUFFICES ASSUME IInv, [Next]_vars PROVE IInv'
  OBVIOUS
<1>1. CASE \E w \in Wanted : Request(w)
  BY <1>1, RequestInv
<1>2. CASE \E r \in Reclaims : Reclaim(r)
  BY <1>2, ReclaimInv
<1>3. CASE StartAllocate
  BY <1>3, StartAllocateInv
<1>4. CASE AllocateStep
  BY <1>4, PlacePinnedInv, PlaceFloatingInv, FinishAllocateInv DEF AllocateStep
<1>5. CASE UNCHANGED vars
  <2>1. TypeOK'
    BY <1>5 DEF IInv, TypeOK, vars
  <2>2. Placed' = Placed
    BY <1>5 DEF Placed, vars
  <2>3. LayoutInv'
    BY <1>5, <2>2 DEF IInv, LayoutInv, vars
  <2> QED
    BY <2>1, <2>3 DEF IInv
<1> QED
  BY <1>1, <1>2, <1>3, <1>4, <1>5 DEF Next

\* Type correctness of the allocator, and its layout invariant: during and
\* after allocate() chunks and spans lie inside the ranges, all apart.
THEOREM AllocatorInvariant == Spec => []IInv
BY InitInv, NextInv, PTL DEF Spec

-----------------------------------------------------------------------------
(* What the invariant gives.                                               *)

\* Apart spans share no address.
LEMMA ApartSpans ==
    ASSUME NEW a \in Nat, NEW m \in Nat, NEW b \in Nat, NEW n \in Nat, Apart(a, m, b, n)
    PROVE  (a .. a + m - 1) \cap (b .. b + n - 1) = {}
BY DEF Apart

\* What placed requests are made of.
LEMMA PlacedTyped ==
    ASSUME TypeOK
    PROVE  /\ Placed \subseteq DOMAIN requests
           /\ \A i \in Placed : addr[i] \in Nat /\ requests[i].size \in Nat \ {0}
<1>1. requests \in Seq(Requests) /\ addr \in Seq(Nat \cup {Unplaced})
      /\ DOMAIN addr = DOMAIN requests
  BY DEF TypeOK
<1>2. \A i \in DOMAIN requests : requests[i] \in Requests /\ addr[i] \in Nat \cup {Unplaced}
  BY <1>1
<1> QED
  BY <1>2 DEF Placed, Requests

\* By the invariant no placed request shares a byte with another or with the free list.
LEMMA InvNoOverlap == IInv => NoOverlap
<1> SUFFICES ASSUME IInv, pc # "failed", NEW i \in Placed
             PROVE  /\ \A j \in Placed : i # j => Span(i) \cap Span(j) = {}
                    /\ Span(i) \cap Bytes(free) = {}
  BY DEF NoOverlap
<1>1. pc \in {"placing", "done"}
  BY DEF IInv, TypeOK, LayoutInv
<1>2. /\ Placed \subseteq DOMAIN requests
      /\ \A j \in Placed : addr[j] \in Nat /\ requests[j].size \in Nat \ {0}
  BY PlacedTyped DEF IInv
<1>3. ASSUME NEW j \in Placed, i # j
      PROVE  Span(i) \cap Span(j) = {}
  <2>1. Apart(addr[i], requests[i].size, addr[j], requests[j].size)
    BY <1>1, <1>3 DEF IInv, LayoutInv
  <2> QED
    BY <2>1, <1>2, ApartSpans DEF Span
<1>4. ASSUME NEW c \in free
      PROVE  Span(i) \cap (c.lo .. c.hi) = {}
  <2>1. Apart(addr[i], requests[i].size, c.lo, c.hi - c.lo + 1)
    BY <1>1 DEF IInv, LayoutInv
  <2>2. c.lo \in Nat /\ c.hi \in Nat
    BY DEF IInv, TypeOK, Ranges
  <2> QED
    BY <2>1, <2>2, <1>2 DEF Span, Apart
<1> QED
  BY <1>3, <1>4 DEF Bytes

\* No address is handed out twice, whatever the pool and its requests.
THEOREM SpansNeverOverlap == Spec => []NoOverlap
<1>1. Spec => []IInv
  BY InitInv, NextInv, PTL DEF Spec
<1> QED
  BY <1>1, InvNoOverlap, PTL

\* By the invariant what is free and what is placed are together the bytes of the ranges.
LEMMA InvConservation == IInv => Conservation
<1> SUFFICES ASSUME IInv, pc \in {"placing", "done"}
             PROVE  Bytes(free) \cup UNION {Span(i) : i \in Placed} = Bytes(ranges)
  BY DEF Conservation
<1>1. \A i \in Placed : addr[i] \in Nat /\ requests[i].size \in Nat \ {0}
  BY PlacedTyped DEF IInv
<1>2. \A c \in free \cup ranges : c.lo \in Nat /\ c.hi \in Nat
  BY DEF IInv, TypeOK, Ranges
<1>3. \A c \in free : \E r \in ranges : r.lo <= c.lo /\ c.hi <= r.hi
  BY DEF IInv, LayoutInv
<1>4. \A i \in Placed : \E r \in ranges : Holds(r, addr[i], requests[i].size)
  BY DEF IInv, LayoutInv
<1>5. ASSUME NEW x \in Bytes(free) PROVE x \in Bytes(ranges)
  BY <1>2, <1>3 DEF Bytes
<1>6. ASSUME NEW i \in Placed, NEW x \in Span(i) PROVE x \in Bytes(ranges)
  BY <1>1, <1>2, <1>4 DEF Bytes, Span, Holds
<1>7. ASSUME NEW r \in ranges, NEW x \in r.lo .. r.hi
      PROVE  x \in Bytes(free) \cup UNION {Span(i) : i \in Placed}
  <2>1. CASE \E c \in free : c.lo <= x /\ x <= c.hi
    BY <2>1, <1>2 DEF Bytes
  <2>2. CASE \E i \in Placed : addr[i] <= x /\ x < addr[i] + requests[i].size
    BY <2>2, <1>1, <1>2 DEF Span
  <2> QED
    BY <2>1, <2>2 DEF IInv, LayoutInv
<1> QED
  BY <1>5, <1>6, <1>7 DEF Bytes

\* allocate() neither loses nor invents a byte of the pool.
THEOREM SpaceConserved == Spec => []Conservation
<1>1. Spec => []IInv
  BY InitInv, NextInv, PTL DEF Spec
<1> QED
  BY <1>1, InvConservation, PTL

\* By the invariant a request placed across two banks lies in a range that may cross.
LEMMA InvStaysInBank == IInv => StaysInBank
<1> SUFFICES ASSUME IInv, pc = "done", NEW i \in Placed
             PROVE  \/ Bank(addr[i]) = Bank(addr[i] + requests[i].size - 1)
                    \/ \E r \in ranges : r.cross /\ Holds(r, addr[i], requests[i].size)
  BY DEF StaysInBank
<1>1. addr[i] \in Nat /\ requests[i].size \in Nat \ {0}
  BY PlacedTyped DEF IInv
<1>2. PICK r \in ranges : Holds(r, addr[i], requests[i].size)
  BY DEF IInv, LayoutInv
<1>3. r.lo \in Nat /\ r.hi \in Nat /\ (r.cross \/ Bank(r.lo) = Bank(r.hi))
  BY DEF IInv, LayoutInv, ValidRange, Ranges
<1>4. CASE Bank(r.lo) = Bank(r.hi)
  <2> DEFINE last == addr[i] + requests[i].size - 1
  <2>1. last \in Nat /\ r.lo <= addr[i] /\ addr[i] <= last /\ last <= r.hi
    BY <1>1, <1>2 DEF Holds
  <2> HIDE DEF last
  <2>2. addr[i] <= r.hi /\ r.lo <= last
    BY <2>1, <1>1, <1>3
  <2>3. Bank(addr[i]) = Bank(r.lo)
    BY <2>1, <2>2, <1>1, <1>3, <1>4, BankMonotone
  <2>4. Bank(last) = Bank(r.lo)
    BY <2>1, <2>2, <1>3, <1>4, BankMonotone
  <2> QED
    BY <2>3, <2>4 DEF last
<1> QED
  BY <1>2, <1>3, <1>4

\* A placement never straddles two banks on its own account.
THEOREM PlacementsStayInBank == Spec => []StaysInBank
<1>1. Spec => []IInv
  BY InitInv, NextInv, PTL DEF Spec
<1> QED
  BY <1>1, InvStaysInBank, PTL

-----------------------------------------------------------------------------
(* Refinement of PoolPromise: the steps of allocate() are invisible until  *)
(* it returns, and what it then publishes is sound.                        *)

\* A new pool is a new pool of the abstract specification.
LEMMA PromiseInit == IInv /\ Init => Promise!Init
<1> SUFFICES ASSUME IInv, Init PROVE Promise!Init
  OBVIOUS
<1>1. Bytes(ranges) \subseteq Nat
  BY DEF Bytes, IInv, TypeOK, Ranges
<1> QED
  BY <1>1 DEF Init, Promise!Init

\* A reclaim is the abstract pool's extension.
LEMMA PromiseReclaim ==
    ASSUME IInv, NEW r \in Reclaims, Reclaim(r)
    PROVE  Promise!Extend
<1>1. ValidRange(r)
  BY PoolAssumption
<1>2. /\ ranges \in SUBSET Ranges /\ r \in Ranges
      /\ NonEmpty(ranges \cup {r})
      /\ Disjoint(ranges \cup {r})
      /\ \A s, t \in ranges : ~Mergeable(s, t)
  BY <1>1 DEF IInv, TypeOK, LayoutInv, Reclaim, NonEmpty, ValidRange, Disjoint, Overlaps
<1>3. r \notin ranges
  BY <1>1 DEF Reclaim, Overlaps, ValidRange, Ranges
<1>4. \A s \in ranges : \E m \in ranges' : m.lo <= s.lo /\ s.hi <= m.hi
  BY <1>2, <1>3, NormalizeCovers DEF Reclaim
<1>5. ranges' \in SUBSET Ranges
  BY <1>2, NormalizeType DEF Reclaim
<1>6. Bytes(ranges) \subseteq Bytes(ranges')
  BY <1>2, <1>4, <1>5 DEF Bytes, Ranges
<1> QED
  BY <1>6 DEF Reclaim, Promise!Extend

\* The end of allocate() publishes a layout the abstract pool allows.
LEMMA PromisePublish ==
    ASSUME IInv, FinishAllocate
    PROVE  Promise!Publish
<1>1. /\ Placed = DOMAIN requests
      /\ \A i \in Placed : addr[i] \in Nat /\ requests[i].size \in Nat \ {0}
      /\ DOMAIN addr = DOMAIN requests
  BY PlacedTyped DEF IInv, TypeOK, FinishAllocate
<1>2. ASSUME NEW i \in DOMAIN requests
      PROVE  /\ addr[i] \in Nat
             /\ Span(i) \subseteq Bytes(ranges)
             /\ requests[i].pin >= 0 => addr[i] = requests[i].pin
             /\ \A j \in DOMAIN requests : i # j => Span(i) \cap Span(j) = {}
  <2>1. PICK r \in ranges : Holds(r, addr[i], requests[i].size)
    BY <1>1, <1>2 DEF IInv, LayoutInv, FinishAllocate
  <2>2. r.lo \in Nat /\ r.hi \in Nat
    BY DEF IInv, TypeOK, Ranges
  <2>3. Span(i) \subseteq Bytes(ranges)
    BY <2>1, <2>2, <1>1, <1>2 DEF Holds, Span, Bytes
  <2>4. requests[i].pin >= 0 => addr[i] = requests[i].pin
    BY <1>1, <1>2 DEF IInv, LayoutInv, FinishAllocate, Floating
  <2>5. NoOverlap
    BY InvNoOverlap
  <2> QED
    BY <2>3, <2>4, <2>5, <1>1, <1>2 DEF NoOverlap, FinishAllocate
<1>3. Promise!Sound(addr)
  BY <1>1, <1>2 DEF Promise!Sound, Promise!Span, Span
<1> QED
  BY <1>3 DEF FinishAllocate, Promise!Publish, Promise!Sound, Promise!Span

\* An allocation given up on is the abstract pool's refusal.
LEMMA PromiseRefuse ==
    ASSUME IInv, pc = "placing", NEW i \in DOMAIN requests, NEW reason, Fail(reason)
    PROVE  Promise!Refuse
BY DEF Fail, Promise!Refuse

\* Every step of the pool is a step of the abstract one or leaves it as it is.
LEMMA PromiseStep == IInv /\ [Next]_vars => [Promise!Next]_(Promise!promiseVars)
<1> SUFFICES ASSUME IInv, [Next]_vars
             PROVE  Promise!Next \/ UNCHANGED Promise!promiseVars
  OBVIOUS
<1>1. CASE \E w \in Wanted : Request(w)
  BY <1>1 DEF Request, Promise!Next, Promise!Ask
<1>2. CASE \E r \in Reclaims : Reclaim(r)
  BY <1>2, PromiseReclaim DEF Promise!Next
<1>3. CASE StartAllocate
  BY <1>3 DEF StartAllocate, Promise!promiseVars
<1>4. ASSUME NEW i \in DOMAIN requests, PlacePinned(i) \/ PlaceFloating(i)
      PROVE  Promise!Next \/ UNCHANGED Promise!promiseVars
  <2>1. pc = "placing"
    BY <1>4 DEF PlacePinned, PlaceFloating
  <2>2. CASE Carve(i) \/ Place(i)
    BY <2>1, <2>2 DEF Carve, Place, Promise!promiseVars
  <2>3. CASE CarveFails(i) \/ PlaceFails(i)
    BY <2>1, <2>3, PromiseRefuse DEF CarveFails, PlaceFails, Promise!Next
  <2> QED
    BY <1>4, <2>2, <2>3 DEF PlacePinned, PlaceFloating
<1>5. CASE FinishAllocate
  BY <1>5, PromisePublish DEF Promise!Next
<1>6. CASE UNCHANGED vars
  BY <1>6 DEF vars, Promise!promiseVars
<1> QED
  BY <1>1, <1>2, <1>3, <1>4, <1>5, <1>6 DEF Next, AllocateStep

\* Seen from outside, allocate() keeps every promise at once or refuses.
THEOREM AllocatorKeepsPromise == Spec => KeepsPromise
<1>1. Spec => []IInv
  BY InitInv, NextInv, PTL DEF Spec
<1> QED
  BY <1>1, PromiseInit, PromiseStep, PTL DEF Spec, KeepsPromise, Promise!Spec

-----------------------------------------------------------------------------
(* Sums of sizes.  A fold over a set is a recursive function on its        *)
(* subsets: that the recursion has a solution, that it has one, and that   *)
(* the order in which the elements are taken does not matter.              *)

\* The element with which the fold over s begins.
Pick(s) == CHOOSE x \in s : TRUE

\* One turn of the fold.
FoldTurn(f, g, s) == IF s = {} THEN 0 ELSE f[Pick(s)].size + g[s \ {Pick(s)}]

\* g takes a turn of the fold at every subset of S.
Solves(f, g, S) == \A s \in SUBSET S : g[s] = FoldTurn(f, g, s)

\* The fold as the recursive function it is.
Totals(f, S) == CHOOSE g : g = [s \in SUBSET S |-> FoldTurn(f, g, s)]

LEMMA SizeSumIsTotal ==
    ASSUME NEW f, NEW S
    PROVE  SizeSum(f, S) = Totals(f, S)[S]
BY DEF SizeSum, FoldFunctionOnSet, MapThenFoldSet, Totals, FoldTurn, Pick

\* A non-empty set picks one of its elements, and is larger without it.
LEMMA PickFacts ==
    ASSUME NEW s, IsFiniteSet(s), s # {}
    PROVE  /\ Pick(s) \in s
           /\ IsFiniteSet(s \ {Pick(s)})
           /\ Cardinality(s) \in Nat
           /\ Cardinality(s \ {Pick(s)}) \in Nat
           /\ Cardinality(s \ {Pick(s)}) = Cardinality(s) - 1
<1>1. Pick(s) \in s
  BY DEF Pick
<1> QED
  BY <1>1, FS_RemoveElement, FS_CardinalityType

\* The recursion has a solution.
LEMMA FoldExists ==
    ASSUME NEW S, IsFiniteSet(S), NEW f, \A x \in S : f[x].size \in Nat
    PROVE  \E g \in [SUBSET S -> Nat] : \A s \in SUBSET S : g[s] = FoldTurn(f, g, s)
<1> DEFINE Solved(g, n) == \A s \in SUBSET S : Cardinality(s) <= n => g[s] = FoldTurn(f, g, s)
           Bad == {n \in Nat : ~\E g \in [SUBSET S -> Nat] : Solved(g, n)}
<1>a. \A s \in SUBSET S : IsFiniteSet(s) /\ Cardinality(s) \in Nat /\ Cardinality(s) <= Cardinality(S)
  BY FS_Subset, FS_CardinalityType
<1>b. \A s \in SUBSET S : Cardinality(s) = 0 => s = {}
  BY <1>a, FS_EmptySet
<1>1. 0 \notin Bad
  <2> DEFINE g == [s \in SUBSET S |-> 0]
  <2>1. g \in [SUBSET S -> Nat]
    OBVIOUS
  <2>2. Solved(g, 0)
    BY <1>a, <1>b DEF FoldTurn
  <2> HIDE DEF g, Solved
  <2> QED
    BY <2>1, <2>2
<1>2. ASSUME NEW n \in Nat, n \notin Bad PROVE n + 1 \notin Bad
  <2>1. PICK g \in [SUBSET S -> Nat] : Solved(g, n)
    BY <1>2
  <2> DEFINE h == [s \in SUBSET S |-> IF Cardinality(s) <= n THEN g[s] ELSE FoldTurn(f, g, s)]
  <2>2. \A s \in SUBSET S : s # {} => s \ {Pick(s)} \in SUBSET S /\ f[Pick(s)].size \in Nat
    BY <1>a, PickFacts
  <2>3. h \in [SUBSET S -> Nat]
    BY <2>2 DEF FoldTurn
  <2>4. ASSUME NEW s \in SUBSET S, Cardinality(s) <= n + 1
        PROVE  h[s] = FoldTurn(f, h, s)
    <3>1. CASE s = {}
      <4>1. Cardinality(s) <= n
        BY <3>1, FS_EmptySet
      <4> QED
        BY <3>1, <4>1, <2>1 DEF FoldTurn
    <3>2. CASE s # {}
      <4>1. s \ {Pick(s)} \in SUBSET S /\ Cardinality(s \ {Pick(s)}) <= n
        BY <2>4, <3>2, <2>2, <1>a, PickFacts
      <4>2. h[s \ {Pick(s)}] = g[s \ {Pick(s)}]
        BY <4>1
      <4>3. FoldTurn(f, h, s) = FoldTurn(f, g, s)
        BY <4>2 DEF FoldTurn
      <4>4. h[s] = FoldTurn(f, g, s)
        BY <2>1
      <4> QED
        BY <4>3, <4>4
    <3> QED
      BY <3>1, <3>2
  <2>5. Solved(h, n + 1)
    BY <2>4
  <2> HIDE DEF h, Solved
  <2> QED
    BY <2>3, <2>5
<1> HIDE DEF Bad
<1>3. Bad = {}
  <2> SUFFICES ASSUME Bad # {} PROVE FALSE
    OBVIOUS
  <2>1. PICK m \in Bad : \A k \in Bad : m <= k
    BY Turns!LeastNumber DEF Bad
  <2>2. m \in Nat /\ m # 0
    BY <1>1 DEF Bad
  <2>3. m - 1 \in Nat /\ m - 1 \notin Bad
    BY <2>1, <2>2
  <2>4. (m - 1) + 1 \notin Bad
    BY <2>3, <1>2
  <2> QED
    BY <2>2, <2>4
<1>4. Cardinality(S) \in Nat /\ Cardinality(S) \notin Bad
  BY <1>3, FS_CardinalityType
<1>5. PICK g \in [SUBSET S -> Nat] : Solved(g, Cardinality(S))
  BY <1>4 DEF Bad
<1> QED
  BY <1>5, <1>a

\* It has one.
LEMMA FoldUnique ==
    ASSUME NEW S, IsFiniteSet(S), NEW f, NEW g, NEW h, Solves(f, g, S), Solves(f, h, S)
    PROVE  \A s \in SUBSET S : g[s] = h[s]
<1> DEFINE B == {s \in SUBSET S : g[s] # h[s]}
<1> SUFFICES ASSUME B # {} PROVE FALSE
  OBVIOUS
<1>a. Turns!Among(B, S)
  BY DEF Turns!Among
<1> HIDE DEF B
<1>1. PICK t \in B : Turns!IsSmallest(t, B)
  BY <1>a, FiniteSmallest
<1> USE DEF B, Turns!IsSmallest
<1>2. g[t] = FoldTurn(f, g, t) /\ h[t] = FoldTurn(f, h, t)
  BY DEF Solves
<1>3. t # {}
  BY <1>2 DEF FoldTurn
<1>4. Pick(t) \in t
  BY <1>3 DEF Pick
<1>5. g[t \ {Pick(t)}] = h[t \ {Pick(t)}]
  BY <1>1, <1>4
<1> QED
  BY <1>2, <1>5 DEF FoldTurn

\* The sums over the subsets of S are the recursive function on S.
LEMMA SizeSumIsFold ==
    ASSUME NEW S, IsFiniteSet(S), NEW f, \A x \in S : f[x].size \in Nat
    PROVE  \E g \in [SUBSET S -> Nat] : \A s \in SUBSET S :
               g[s] = SizeSum(f, s) /\ g[s] = FoldTurn(f, g, s)
<1>1. ASSUME NEW T, IsFiniteSet(T), \A x \in T : f[x].size \in Nat
      PROVE  \A s \in SUBSET T : Totals(f, T)[s] = FoldTurn(f, Totals(f, T), s)
  <2>1. PICK g \in [SUBSET T -> Nat] : \A s \in SUBSET T : g[s] = FoldTurn(f, g, s)
    BY <1>1, FoldExists
  <2>2. g = [s \in SUBSET T |-> FoldTurn(f, g, s)]
    BY <2>1
  <2>3. Totals(f, T) = [s \in SUBSET T |-> FoldTurn(f, Totals(f, T), s)]
    BY <2>2 DEF Totals
  <2> QED
    BY <2>3
<1>2. PICK g \in [SUBSET S -> Nat] : \A s \in SUBSET S : g[s] = FoldTurn(f, g, s)
  BY FoldExists
<1>3. ASSUME NEW T \in SUBSET S PROVE g[T] = SizeSum(f, T)
  <2>1. IsFiniteSet(T)
    BY FS_Subset
  <2> DEFINE h == Totals(f, T)
  <2>2. Solves(f, g, T) /\ Solves(f, h, T)
    BY <1>1, <1>2, <2>1 DEF Solves
  <2> HIDE DEF h
  <2>5. \A s \in SUBSET T : g[s] = h[s]
    BY <2>1, <2>2, FoldUnique
  <2>6. g[T] = h[T]
    BY <2>5
  <2> QED
    BY <2>6, SizeSumIsTotal DEF h
<1> QED
  BY <1>2, <1>3

\* Adding up is adding any one of the sizes to the sum of the others.
LEMMA SizeSumStep ==
    ASSUME NEW S, IsFiniteSet(S), NEW f, \A x \in S : f[x].size \in Nat
    PROVE  /\ SizeSum(f, {}) = 0
           /\ \A s \in SUBSET S : SizeSum(f, s) \in Nat
           /\ \A s \in SUBSET S : \A x \in s : SizeSum(f, s) = f[x].size + SizeSum(f, s \ {x})
<1>1. PICK g \in [SUBSET S -> Nat] : \A s \in SUBSET S :
         g[s] = SizeSum(f, s) /\ g[s] = FoldTurn(f, g, s)
  BY SizeSumIsFold
<1>2. g[{}] = 0
  BY <1>1 DEF FoldTurn
<1>3. \A s \in SUBSET S : s # {} =>
         Pick(s) \in s /\ s \ {Pick(s)} \in SUBSET S /\ g[s] = f[Pick(s)].size + g[s \ {Pick(s)}]
  BY <1>1 DEF FoldTurn, Pick
<1> DEFINE B == {s \in SUBSET S : \E x \in s : g[s] # f[x].size + g[s \ {x}]}
<1>4. B = {}
  <2> SUFFICES ASSUME B # {} PROVE FALSE
    OBVIOUS
  <2>a. Turns!Among(B, S)
    BY DEF Turns!Among
  <2> HIDE DEF B
  <2>1. PICK t \in B : Turns!IsSmallest(t, B)
    BY <2>a, FiniteSmallest
  <2> USE DEF B, Turns!IsSmallest
  <2>2. PICK x \in t : g[t] # f[x].size + g[t \ {x}]
    OBVIOUS
  <2> DEFINE y == Pick(t)
  <2>3. y \in t /\ g[t] = f[y].size + g[t \ {y}] /\ x # y
    BY <2>2, <1>3
  <2> HIDE DEF y
  <2>4. t \ {x} \notin B /\ t \ {y} \notin B
    BY <2>1, <2>3
  <2>5. g[t \ {y}] = f[x].size + g[(t \ {y}) \ {x}] /\ g[t \ {x}] = f[y].size + g[(t \ {x}) \ {y}]
    BY <2>3, <2>4
  <2> DEFINE rest == (t \ {y}) \ {x}
  <2>6. (t \ {x}) \ {y} = rest
    OBVIOUS
  <2>7. /\ f[x].size \in Nat /\ f[y].size \in Nat
        /\ g[t \ {y}] \in Nat /\ g[t \ {x}] \in Nat /\ g[rest] \in Nat
    BY <2>3
  <2>8. g[t \ {y}] = f[x].size + g[rest] /\ g[t \ {x}] = f[y].size + g[rest]
    BY <2>5, <2>6
  <2> DEFINE withoutX == t \ {x}
             withoutY == t \ {y}
  <2>9. /\ g[t] = f[y].size + g[withoutY] /\ g[t] # f[x].size + g[withoutX]
        /\ g[withoutY] = f[x].size + g[rest] /\ g[withoutX] = f[y].size + g[rest]
        /\ f[x].size \in Nat /\ f[y].size \in Nat /\ g[rest] \in Nat
    BY <2>2, <2>3, <2>7, <2>8
  <2> HIDE DEF B, rest, withoutX, withoutY
  <2> QED
    BY <2>9
<1>5. \A s \in SUBSET S : \A x \in s : g[s] = f[x].size + g[s \ {x}] /\ s \ {x} \in SUBSET S
  BY <1>4
<1> HIDE DEF B
<1> QED
  BY <1>1, <1>2, <1>5

\* A part adds up to no more than the whole.
LEMMA SizeSumMonotone ==
    ASSUME NEW S, IsFiniteSet(S), NEW f, \A x \in S : f[x].size \in Nat, NEW P \in SUBSET S
    PROVE  SizeSum(f, P) <= SizeSum(f, S)
<1>1. /\ \A s \in SUBSET S : SizeSum(f, s) \in Nat
      /\ \A s \in SUBSET S : \A x \in s : SizeSum(f, s) = f[x].size + SizeSum(f, s \ {x})
  BY SizeSumStep
<1> DEFINE B == {s \in SUBSET S : P \subseteq s /\ ~(SizeSum(f, P) <= SizeSum(f, s))}
<1> SUFFICES ASSUME B # {} PROVE FALSE
  OBVIOUS
<1>a. Turns!Among(B, S)
  BY DEF Turns!Among
<1> HIDE DEF B
<1>2. PICK t \in B : Turns!IsSmallest(t, B)
  BY <1>a, FiniteSmallest
<1> USE DEF B, Turns!IsSmallest
<1>3. PICK x \in t : x \notin P
  BY <1>1
<1>4. t \ {x} \in SUBSET S /\ P \subseteq t \ {x} /\ t \ {x} # t
  BY <1>3
<1>5. SizeSum(f, P) <= SizeSum(f, t \ {x})
  BY <1>2, <1>4
<1>6. SizeSum(f, t) = f[x].size + SizeSum(f, t \ {x}) /\ f[x].size \in Nat
  BY <1>1
<1> QED
  BY <1>1, <1>4, <1>5, <1>6

\* The same, for the positions of a sequence.
LEMMA SizeSumOfPositions ==
    ASSUME NEW n \in Nat, NEW f, \A x \in 1 .. n : f[x].size \in Nat
    PROVE  /\ SizeSum(f, {}) = 0
           /\ \A s \in SUBSET (1 .. n) : SizeSum(f, s) \in Nat /\ SizeSum(f, s) <= SizeSum(f, 1 .. n)
           /\ \A s \in SUBSET (1 .. n) : \A x \in 1 .. n : x \notin s =>
                  SizeSum(f, s \cup {x}) = f[x].size + SizeSum(f, s)
<1> DEFINE S == 1 .. n
<1>1. IsFiniteSet(S) /\ \A x \in S : f[x].size \in Nat
  BY FS_Interval
<1> HIDE DEF S
<1>2. /\ SizeSum(f, {}) = 0
      /\ \A s \in SUBSET S : SizeSum(f, s) \in Nat
      /\ \A s \in SUBSET S : \A x \in s : SizeSum(f, s) = f[x].size + SizeSum(f, s \ {x})
  BY <1>1, SizeSumStep
<1>3. \A s \in SUBSET S : SizeSum(f, s) <= SizeSum(f, S)
  BY <1>1, SizeSumMonotone
<1> USE DEF S
<1>4. ASSUME NEW s \in SUBSET (1 .. n), NEW x \in 1 .. n, x \notin s
      PROVE  SizeSum(f, s \cup {x}) = f[x].size + SizeSum(f, s)
  <2>1. s \cup {x} \in SUBSET (1 .. n) /\ x \in s \cup {x} /\ (s \cup {x}) \ {x} = s
    BY <1>4
  <2> QED
    BY <2>1, <1>2
<1> QED
  BY <1>2, <1>3, <1>4

-----------------------------------------------------------------------------
(* Why an allocation is refused.                                           *)

\* Every chunk ends where its range does or before a placed request.
ChunksMaximal ==
    pc = "placing" =>
        \A r \in ranges : \A c \in free :
            r.lo <= c.lo /\ c.hi < r.hi =>
                \E j \in Placed : addr[j] <= c.hi + 1 /\ c.hi + 1 < addr[j] + requests[j].size

\* While a pin waits only pins are placed.
PinsFirst ==
    pc = "placing" => Pinned(requests) \subseteq Placed \/ Placed \subseteq Pinned(requests)

\* One range and no pins: what is free is the tail of the range, less what
\* is placed.
TailFree ==
    pc = "placing" /\ Pinned(requests) = {} =>
        \A r \in ranges : ranges = {r} =>
            IF SizeSum(requests, Placed) = Size(r)
            THEN free = {}
            ELSE \E c \in free : free = {c} /\ c.hi = r.hi /\ c.lo = r.lo + SizeSum(requests, Placed)

\* What is true at every step of allocate() so that a refusal has a reason.
RefusalInv ==
    /\ ChunksMaximal
    /\ PinsFirst
    /\ TailFree
    /\ pc # "failed" => error = "none"
    /\ RefusalsExplained
-----------------------------------------------------------------------------
(* What the steps of the proof share.                                      *)

\* What the types say of the parts.
LEMMA PartsTyped ==
    ASSUME TypeOK
    PROVE  /\ Len(requests) \in Nat /\ DOMAIN requests = 1 .. Len(requests)
           /\ \A i \in DOMAIN requests :
                 requests[i].size \in Nat \ {0} /\ requests[i].pin \in Nat \cup {Floating}
           /\ DOMAIN addr = DOMAIN requests
           /\ Placed \subseteq DOMAIN requests
           /\ \A i \in Placed : addr[i] \in Nat
           /\ \A c \in free \cup ranges : c.lo \in Nat /\ c.hi \in Nat
<1>1. /\ requests \in Seq(Requests) /\ addr \in Seq(Nat \cup {Unplaced})
      /\ DOMAIN addr = DOMAIN requests
  BY DEF TypeOK
<1>2. \A i \in DOMAIN requests : requests[i] \in Requests /\ addr[i] \in Nat \cup {Unplaced}
  BY <1>1
<1>3. \A c \in free \cup ranges : c.lo \in Nat /\ c.hi \in Nat
  BY DEF TypeOK, Ranges
<1>4. \A i \in DOMAIN requests :
         requests[i].size \in Nat \ {0} /\ requests[i].pin \in Nat \cup {Floating}
  BY <1>2 DEF Requests
<1>5. \A i \in Placed : addr[i] \in Nat
  BY <1>2 DEF Placed
<1> QED
  BY <1>1, <1>3, <1>4, <1>5 DEF Placed

\* The sizes of requests add up as numbers do.
LEMMA RequestSums ==
    ASSUME TypeOK
    PROVE  /\ SizeSum(requests, {}) = 0
           /\ \A s \in SUBSET DOMAIN requests :
                 /\ SizeSum(requests, s) \in Nat
                 /\ SizeSum(requests, s) <= SizeSum(requests, DOMAIN requests)
           /\ \A s \in SUBSET DOMAIN requests : \A x \in DOMAIN requests : x \notin s =>
                 SizeSum(requests, s \cup {x}) = requests[x].size + SizeSum(requests, s)
<1> DEFINE n == Len(requests)
<1>1. n \in Nat /\ DOMAIN requests = 1 .. n /\ \A x \in 1 .. n : requests[x].size \in Nat
  BY PartsTyped
<1> HIDE DEF n
<1>2. /\ SizeSum(requests, {}) = 0
      /\ \A s \in SUBSET (1 .. n) :
            SizeSum(requests, s) \in Nat /\ SizeSum(requests, s) <= SizeSum(requests, 1 .. n)
      /\ \A s \in SUBSET (1 .. n) : \A x \in 1 .. n : x \notin s =>
            SizeSum(requests, s \cup {x}) = requests[x].size + SizeSum(requests, s)
  BY <1>1, SizeSumOfPositions
<1> QED
  BY <1>1, <1>2

\* The fold RefusalsExplained speaks of is the sum over all requests.
LEMMA AllSizes ==
    ASSUME NEW reqs
    PROVE  BytesAsked(reqs) = SizeSum(reqs, DOMAIN reqs)
BY DEF BytesAsked, FoldFunction, SizeSum

\* Where nothing was refused there is nothing to explain.
LEMMA NothingRefused == error = "none" => RefusalsExplained
BY DEF RefusalsExplained

\* Outside the loops of allocate() the invariant says that nothing was refused.
LEMMA QuietInv ==
    ASSUME pc \in {"open", "done"}, error = "none"
    PROVE  RefusalInv
BY NothingRefused DEF RefusalInv, ChunksMaximal, PinsFirst, TailFree

-----------------------------------------------------------------------------
(* The steps before the loops, and the last.                               *)

\* A new pool has refused nothing.
LEMMA InitRefusal == Init => RefusalInv
BY QuietInv DEF Init

\* The steps that leave the pool open or finish it refuse nothing.
LEMMA QuietStep ==
    ASSUME RefusalInv, pc # "failed", error' = error, pc' \in {"open", "done"}
    PROVE  RefusalInv'
<1>1. error' = "none"
  BY DEF RefusalInv
<1>2. RefusalsExplained'
  BY <1>1 DEF RefusalsExplained
<1> QED
  BY <1>1, <1>2 DEF RefusalInv, ChunksMaximal, PinsFirst, TailFree

\* At the start of allocate() the chunks are the ranges.
LEMMA StartRefusal ==
    ASSUME IInv, RefusalInv, StartAllocate
    PROVE  RefusalInv'
<1>1. Placed = {} /\ Placed' = {}
  BY DEF IInv, LayoutInv, StartAllocate, Placed
<1>2. \A r \in ranges : r.lo \in Nat /\ r.hi \in Nat /\ r.lo <= r.hi
  BY DEF IInv, TypeOK, LayoutInv, Ranges, ValidRange
<1>3. free' = ranges /\ ranges' = ranges /\ requests' = requests /\ error' = "none"
  BY DEF StartAllocate, RefusalInv
<1>4. ChunksMaximal'
  BY <1>2, <1>3 DEF ChunksMaximal, IInv, LayoutInv, Disjoint, Overlaps
<1>5. PinsFirst'
  BY <1>1 DEF PinsFirst
<1>6. TailFree'
  <2>1. SizeSum(requests', Placed') = 0
    BY <1>1, <1>3, RequestSums DEF IInv
  <2>2. ASSUME NEW r \in ranges, ranges = {r}
        PROVE  0 # Size(r) /\ r.lo = r.lo + 0
    BY <1>2 DEF Size
  <2> QED
    BY <2>1, <2>2, <1>3 DEF TailFree
<1>7. RefusalsExplained'
  BY <1>3 DEF RefusalsExplained
<1> QED
  BY <1>3, <1>4, <1>5, <1>6, <1>7 DEF RefusalInv

-----------------------------------------------------------------------------
(* A placement.                                                            *)

\* What is left of a chunk ends before the span taken out, or where the
\* chunk did.
LEMMA RemainderEnds ==
    ASSUME NEW c \in Ranges, NEW a \in Nat, NEW n \in Nat \ {0}, NEW p \in Remainder(c, a, n)
    PROVE  (p.lo = c.lo /\ p.hi + 1 = a) \/ (p.lo = a + n /\ p.hi = c.hi /\ a + n <= c.hi)
BY DEF Remainder, Ranges

\* Placed chunks stay maximal when request i is placed at a in chunk c.
LEMMA PlacementMaximal ==
    ASSUME IInv, ChunksMaximal, pc = "placing",
           NEW i \in DOMAIN requests \ Placed, NEW c \in free, NEW a \in Nat,
           Holds(c, a, requests[i].size),
           addr' = [addr EXCEPT ![i] = a],
           free' = (free \ {c}) \cup Remainder(c, a, requests[i].size),
           UNCHANGED <<ranges, requests>>
    PROVE  ChunksMaximal' /\ Placed' = Placed \cup {i}
<1> DEFINE n == requests[i].size
           Covered(x) == \E j \in Placed : addr[j] <= x /\ x < addr[j] + requests[j].size
<1>1. /\ \A j \in DOMAIN requests : requests[j].size \in Nat \ {0}
      /\ DOMAIN addr = DOMAIN requests
      /\ Placed \subseteq DOMAIN requests
      /\ \A j \in Placed : addr[j] \in Nat
      /\ \A d \in free \cup ranges : d.lo \in Nat /\ d.hi \in Nat
  BY PartsTyped DEF IInv
<1>2. /\ DOMAIN addr' = DOMAIN addr
      /\ addr'[i] = a
      /\ \A j \in DOMAIN addr : j # i => addr'[j] = addr[j]
  BY <1>1
<1>3. Placed' = Placed \cup {i}
  BY <1>1, <1>2 DEF Placed, Unplaced
<1>4. \A r \in ranges : \A d \in free : r.lo <= d.lo /\ d.hi < r.hi => Covered(d.hi + 1)
  BY DEF ChunksMaximal
<1>5. \A x : Covered(x) => \E j \in Placed' : addr'[j] <= x /\ x < addr'[j] + requests'[j].size
  BY <1>1, <1>2, <1>3
<1>6. ASSUME NEW r \in ranges, NEW p \in free', r.lo <= p.lo, p.hi < r.hi
      PROVE  \E j \in Placed' : addr'[j] <= p.hi + 1 /\ p.hi + 1 < addr'[j] + requests'[j].size
  <2>1. CASE p \in free
    BY <2>1, <1>4, <1>5, <1>6
  <2>2. CASE p \in Remainder(c, a, n)
    <3>1. c \in Ranges
      BY DEF IInv, TypeOK
    <3>2. (p.lo = c.lo /\ p.hi + 1 = a) \/ (p.lo = a + n /\ p.hi = c.hi /\ a + n <= c.hi)
      BY <2>2, <3>1, <1>1, RemainderEnds
    <3>3. CASE p.lo = c.lo /\ p.hi + 1 = a
      BY <3>3, <1>1, <1>2, <1>3
    <3>4. CASE p.lo = a + n /\ p.hi = c.hi /\ a + n <= c.hi
      <4>1. PICK s \in ranges : s.lo <= c.lo /\ c.hi <= s.hi
        BY DEF IInv, LayoutInv
      <4>2. c.lo <= c.hi /\ c.lo <= a
        BY DEF IInv, LayoutInv, Holds
      <4>3. s = r
        <5>1. s # r => s.hi < r.lo \/ r.hi < s.lo
          BY DEF IInv, LayoutInv, Disjoint, Overlaps
        <5>2. r.lo <= s.hi /\ s.lo <= r.hi
          <6>1. c.lo \in Nat /\ c.hi \in Nat /\ n \in Nat /\ p.lo <= p.hi
            BY <1>1, <3>4
          <6> QED
            BY <6>1, <4>1, <4>2, <3>4, <1>1, <1>6
        <5> QED
          BY <5>1, <5>2, <1>1
      <4> QED
        BY <4>1, <4>3, <3>4, <1>4, <1>5, <1>6
    <3> QED
      BY <3>2, <3>3, <3>4
  <2> QED
    BY <2>1, <2>2
<1> QED
  BY <1>3, <1>6 DEF ChunksMaximal

\* A pin carved out of a chunk keeps the invariant.
LEMMA CarveRefusal ==
    ASSUME IInv, RefusalInv, NEW i \in DOMAIN requests, pc = "placing", NextPinned(i),
           addr' = [addr EXCEPT ![i] = requests[i].pin], Carve(i)
    PROVE  RefusalInv'
<1>1. PICK c \in free :
         /\ Holds(c, requests[i].pin, requests[i].size)
         /\ free' = (free \ {c}) \cup Remainder(c, requests[i].pin, requests[i].size)
         /\ UNCHANGED <<ranges, strategy, requests, pc, error>>
  BY DEF Carve, IsFirst
<1>2. i \in Pinned(requests) /\ i \in DOMAIN requests \ Placed
  BY DEF NextPinned
<1>3. requests[i].pin \in Nat
  BY <1>2, PartsTyped DEF IInv, Pinned
<1>4. ChunksMaximal' /\ Placed' = Placed \cup {i}
  <2> DEFINE a == requests[i].pin
  <2>1. a \in Nat /\ Holds(c, a, requests[i].size) /\ addr' = [addr EXCEPT ![i] = a]
        /\ free' = (free \ {c}) \cup Remainder(c, a, requests[i].size)
    BY <1>1, <1>3
  <2> HIDE DEF a
  <2> QED
    BY <2>1, <1>1, <1>2, PlacementMaximal DEF RefusalInv
<1>5. PinsFirst'
  BY <1>1, <1>2, <1>4 DEF RefusalInv, PinsFirst
<1>6. TailFree'
  BY <1>1, <1>2 DEF TailFree
<1>7. error' = "none" /\ pc' = "placing"
  BY <1>1 DEF RefusalInv
<1>8. RefusalsExplained'
  BY <1>7 DEF RefusalsExplained
<1> QED
  BY <1>4, <1>5, <1>6, <1>7, <1>8 DEF RefusalInv

\* A floating request placed at the start of a chunk keeps the invariant:
\* the tail of the one range stays a tail.
LEMMA PlaceRefusal ==
    ASSUME IInv, RefusalInv, NEW i \in DOMAIN requests, pc = "placing", NextFloating(i), Place(i)
    PROVE  RefusalInv'
<1> DEFINE n == requests[i].size
<1>1. PICK c \in free :
         /\ Fits(c, n)
         /\ addr' = [addr EXCEPT ![i] = c.lo]
         /\ free' = (free \ {c}) \cup Remainder(c, c.lo, n)
         /\ UNCHANGED <<ranges, strategy, requests, pc, error>>
  BY DEF Place, IsFirst
<1>2. Pinned(requests) \subseteq Placed /\ i \in DOMAIN requests \ Placed
  BY DEF NextFloating
<1>3. n \in Nat \ {0} /\ c.lo \in Nat /\ c.hi \in Nat
  BY PartsTyped DEF IInv
<1>4. ChunksMaximal' /\ Placed' = Placed \cup {i}
  <2> DEFINE a == c.lo
  <2>1. a \in Nat /\ Holds(c, a, requests[i].size) /\ addr' = [addr EXCEPT ![i] = a]
        /\ free' = (free \ {c}) \cup Remainder(c, a, requests[i].size)
    BY <1>1, <1>3 DEF Holds, Fits, Size
  <2> HIDE DEF a
  <2> QED
    BY <2>1, <1>1, <1>2, PlacementMaximal DEF RefusalInv
<1>5. PinsFirst'
  BY <1>1, <1>2, <1>4 DEF PinsFirst
<1>6. TailFree'
  <2> SUFFICES ASSUME NEW r \in ranges, Pinned(requests) = {}, ranges = {r}
               PROVE  IF SizeSum(requests, Placed') = Size(r)
                      THEN free' = {}
                      ELSE \E d \in free' : /\ free' = {d} /\ d.hi = r.hi
                                            /\ d.lo = r.lo + SizeSum(requests, Placed')
    BY <1>1 DEF TailFree
  <2> DEFINE sum == SizeSum(requests, Placed)
  <2>1. SizeSum(requests, Placed') = n + sum /\ sum \in Nat
    BY <1>2, <1>4, RequestSums, PartsTyped DEF IInv
  <2>2. free = {c} /\ c.hi = r.hi /\ c.lo = r.lo + sum
    BY DEF RefusalInv, TailFree
  <2>3. r.lo \in Nat /\ r.hi \in Nat /\ c.lo + n - 1 <= c.hi
    BY <1>1, <1>3, PartsTyped DEF IInv, Fits, Size
  <2> HIDE DEF sum, n
  <2>4. free' = Remainder(c, c.lo, n)
    BY <1>1, <2>2
  <2> DEFINE tail == [c EXCEPT !.lo = c.lo + n]
  <2>5. tail.lo = c.lo + n /\ tail.hi = c.hi
    <3>1. c \in Ranges
      BY DEF IInv, TypeOK
    <3> QED
      BY <3>1 DEF Ranges
  <2>6. free' = IF c.lo + n - 1 < c.hi THEN {tail} ELSE {}
    BY <2>4, <1>3 DEF Remainder
  <2> HIDE DEF tail
  <2>7. n + sum = Size(r) <=> c.lo + n - 1 = c.hi
    BY <2>1, <2>2, <2>3, <1>3 DEF Size
  <2>8. CASE c.lo + n - 1 = c.hi
    BY <2>1, <2>6, <2>7, <2>8, <1>3
  <2>9. CASE c.lo + n - 1 < c.hi
    <3>1. free' = {tail} /\ n + sum # Size(r)
      BY <2>6, <2>7, <2>9, <1>3
    <3>2. tail.hi = r.hi /\ tail.lo = r.lo + (n + sum)
      BY <2>1, <2>2, <2>3, <2>5, <1>3
    <3> QED
      BY <2>1, <3>1, <3>2
  <2> QED
    BY <2>3, <2>8, <2>9, <1>3
<1>7. error' = "none" /\ pc' = "placing"
  BY <1>1 DEF RefusalInv
<1>8. RefusalsExplained'
  BY <1>7 DEF RefusalsExplained
<1> QED
  BY <1>4, <1>5, <1>6, <1>7, <1>8 DEF RefusalInv

-----------------------------------------------------------------------------
(* A refusal.                                                              *)

\* A pin no chunk holds, though a range does, meets another pin: the chunk
\* its first byte is in ends before a placed request, and that one is a pin.
LEMMA PinMeetsPin ==
    ASSUME IInv, RefusalInv, NEW i \in DOMAIN requests, pc = "placing", NextPinned(i),
           ~\E c \in free : Holds(c, requests[i].pin, requests[i].size),
           NEW r \in ranges, Holds(r, requests[i].pin, requests[i].size)
    PROVE  \E j \in Pinned(requests) : \E x \in Nat :
              /\ i # j
              /\ requests[i].pin <= x /\ x <= requests[i].pin + requests[i].size - 1
              /\ requests[j].pin <= x /\ x <= requests[j].pin + requests[j].size - 1
<1> DEFINE a == requests[i].pin
           n == requests[i].size
<1>1. i \in Pinned(requests) /\ i \in DOMAIN requests \ Placed
  BY DEF NextPinned
<1>2. /\ \A j \in DOMAIN requests : requests[j].size \in Nat \ {0}
      /\ Placed \subseteq DOMAIN requests
      /\ \A j \in Placed : addr[j] \in Nat
      /\ \A d \in free \cup ranges : d.lo \in Nat /\ d.hi \in Nat
  BY PartsTyped DEF IInv
<1>3. a \in Nat /\ n \in Nat \ {0} /\ r.lo <= a /\ a + n - 1 <= r.hi
  BY <1>1, PartsTyped DEF IInv, Pinned, Holds
<1> HIDE DEF a, n
<1>4. Placed \subseteq Pinned(requests) /\ \A j \in Placed : addr[j] = requests[j].pin /\ j # i
  BY <1>1 DEF RefusalInv, PinsFirst, IInv, LayoutInv, Pinned
<1>5. \E x \in Nat : /\ a <= x /\ x <= a + n - 1
                     /\ \E j \in Placed : addr[j] <= x /\ x < addr[j] + requests[j].size
  <2>1. CASE \E j \in Placed : addr[j] <= a /\ a < addr[j] + requests[j].size
    BY <2>1, <1>3
  <2>2. CASE \E c \in free : c.lo <= a /\ a <= c.hi
    <3>1. PICK c \in free : c.lo <= a /\ a <= c.hi
      BY <2>2
    <3>2. c.hi + 1 \in Nat /\ a <= c.hi + 1 /\ c.hi + 1 <= a + n - 1
      BY <3>1, <1>2, <1>3 DEF Holds, a, n
    <3>3. PICK s \in ranges : s.lo <= c.lo /\ c.hi <= s.hi
      BY DEF IInv, LayoutInv
    <3>4. s = r
      BY <3>1, <3>3, <1>2, <1>3 DEF IInv, LayoutInv, Disjoint, Overlaps
    <3>5. r.lo <= c.lo /\ c.hi < r.hi
      BY <3>2, <3>3, <3>4, <1>2, <1>3
    <3>6. \E j \in Placed : addr[j] <= c.hi + 1 /\ c.hi + 1 < addr[j] + requests[j].size
      BY <3>5 DEF RefusalInv, ChunksMaximal
    <3> QED
      BY <3>2, <3>6
  <2>3. a \in r.lo .. r.hi
    BY <1>2, <1>3
  <2> QED
    BY <2>1, <2>2, <2>3 DEF IInv, LayoutInv
<1>6. PICK x \in Nat, j \in Placed :
         /\ a <= x /\ x <= a + n - 1
         /\ addr[j] <= x /\ x < addr[j] + requests[j].size
  BY <1>5
<1>7. /\ j \in Pinned(requests) /\ i # j
      /\ requests[j].pin <= x /\ x <= requests[j].pin + requests[j].size - 1
  BY <1>2, <1>4, <1>6
<1> QED
  BY <1>6, <1>7 DEF a, n

\* The refusal of a pin is explained.
LEMMA CarveFailsRefusal ==
    ASSUME IInv, RefusalInv, NEW i \in DOMAIN requests, pc = "placing", NextPinned(i), CarveFails(i)
    PROVE  RefusalInv'
<1> DEFINE PinSpan(k) == requests[k].pin .. requests[k].pin + requests[k].size - 1
<1>1. /\ pc' = "failed" /\ error' \in {"overlap", "outside"}
      /\ ranges' = ranges /\ requests' = requests
      /\ ~\E c \in free : Holds(c, requests[i].pin, requests[i].size)
  BY DEF CarveFails, Fail
<1>2. i \in Pinned(requests)
  BY DEF NextPinned
<1>3. ASSUME NEW r \in ranges, Holds(r, requests[i].pin, requests[i].size)
      PROVE  \E j \in Pinned(requests) : i # j /\ PinSpan(i) \cap PinSpan(j) # {}
  <2>1. PICK j \in Pinned(requests), x \in Nat :
           /\ i # j
           /\ requests[i].pin <= x /\ x <= requests[i].pin + requests[i].size - 1
           /\ requests[j].pin <= x /\ x <= requests[j].pin + requests[j].size - 1
    BY <1>1, <1>3, PinMeetsPin
  <2>2. /\ requests[i].pin \in Int /\ requests[i].size \in Int
        /\ requests[j].pin \in Int /\ requests[j].size \in Int
    BY PartsTyped DEF IInv, Pinned, Floating
  <2>3. x \in PinSpan(i) /\ x \in PinSpan(j)
    BY <2>1, <2>2
  <2> QED
    BY <2>1, <2>3
<1>4. \/ ~\E r \in ranges : Holds(r, requests[i].pin, requests[i].size)
      \/ \E j \in Pinned(requests) : i # j /\ PinSpan(i) \cap PinSpan(j) # {}
  BY <1>3
<1>5. RefusalsExplained'
  <2> HIDE DEF PinSpan
  <2>1. \E k \in Pinned(requests) :
           \/ ~\E r \in ranges : Holds(r, requests[k].pin, requests[k].size)
           \/ \E j \in Pinned(requests) : k # j /\ PinSpan(k) \cap PinSpan(j) # {}
    BY <1>2, <1>4
  <2> USE DEF PinSpan
  <2> QED
    BY <2>1, <1>1 DEF RefusalsExplained
<1> QED
  BY <1>1, <1>5 DEF RefusalInv, ChunksMaximal, PinsFirst, TailFree

\* The refusal of a floating request is explained.
LEMMA PlaceFailsRefusal ==
    ASSUME IInv, RefusalInv, NEW i \in DOMAIN requests, pc = "placing", NextFloating(i), PlaceFails(i)
    PROVE  RefusalInv'
<1>1. /\ pc' = "failed" /\ error' = "overflow"
      /\ ranges' = ranges /\ requests' = requests
      /\ ~\E c \in free : Fits(c, requests[i].size)
  BY DEF PlaceFails, Fail
<1>2. i \in DOMAIN requests /\ i \notin Placed
  BY DEF NextFloating
<1>3. ASSUME NEW r \in ranges, ranges = {r}, Pinned(requests) = {}
      PROVE  SizeSum(requests, DOMAIN requests) > Size(r)
  <2> DEFINE sum == SizeSum(requests, Placed)
             n   == requests[i].size
             all == SizeSum(requests, DOMAIN requests)
  <2>1. Placed \in SUBSET DOMAIN requests /\ Placed \cup {i} \in SUBSET DOMAIN requests
    BY PartsTyped DEF IInv
  <2>2. sum \in Nat /\ n + sum <= all /\ all \in Nat
    BY <2>1, <1>2, RequestSums DEF IInv
  <2>3. n \in Nat \ {0} /\ r.lo \in Nat /\ r.hi \in Nat
    BY PartsTyped DEF IInv
  <2>4. \/ sum = Size(r)
        \/ \E c \in free : c.hi = r.hi /\ c.lo = r.lo + sum
    BY <1>3 DEF RefusalInv, TailFree
  <2>5. \A c \in free : ~(c.hi - c.lo + 1 >= n)
    BY <1>1 DEF Fits, Size
  <2> HIDE DEF sum, n, all
  <2>6. n + sum > Size(r)
    BY <2>2, <2>3, <2>4, <2>5 DEF Size
  <2>7. Size(r) \in Int
    BY <2>3 DEF Size
  <2>8. all > Size(r)
    BY <2>2, <2>3, <2>6, <2>7
  <2> QED
    BY <2>8 DEF all
<1>4. BytesAsked(requests') = SizeSum(requests, DOMAIN requests)
  BY <1>1, AllSizes
<1>5. RefusalsExplained'
  BY <1>1, <1>3, <1>4 DEF RefusalsExplained
<1> QED
  BY <1>1, <1>5 DEF RefusalInv, ChunksMaximal, PinsFirst, TailFree

-----------------------------------------------------------------------------
\* Every step of the pool keeps the invariant.
LEMMA NextRefusal == IInv /\ RefusalInv /\ [Next]_vars => RefusalInv'
<1> SUFFICES ASSUME IInv, RefusalInv, [Next]_vars PROVE RefusalInv'
  OBVIOUS
<1>1. CASE \E w \in Wanted : Request(w)
  BY <1>1, QuietStep DEF Request
<1>2. CASE \E r \in Reclaims : Reclaim(r)
  BY <1>2, QuietStep DEF Reclaim
<1>3. CASE StartAllocate
  BY <1>3, StartRefusal
<1>4. ASSUME NEW i \in DOMAIN requests, PlacePinned(i)
      PROVE  RefusalInv'
  BY <1>4, CarveRefusal, CarveFailsRefusal DEF PlacePinned
<1>5. ASSUME NEW i \in DOMAIN requests, PlaceFloating(i)
      PROVE  RefusalInv'
  BY <1>5, PlaceRefusal, PlaceFailsRefusal DEF PlaceFloating
<1>6. CASE FinishAllocate
  BY <1>6, QuietStep DEF FinishAllocate
<1>7. CASE UNCHANGED vars
  <2>1. Placed' = Placed
    BY <1>7 DEF vars, Placed
  <2>2. ChunksMaximal' /\ PinsFirst' /\ TailFree'
    BY <2>1, <1>7 DEF vars, RefusalInv, ChunksMaximal, PinsFirst, TailFree
  <2>3. RefusalsExplained'
    BY <1>7 DEF vars, RefusalInv, RefusalsExplained
  <2> QED
    BY <2>2, <2>3, <1>7 DEF vars, RefusalInv
<1> QED
  BY <1>1, <1>2, <1>3, <1>4, <1>5, <1>6, <1>7 DEF Next, AllocateStep

\* A refusal has a reason its author can see in the source: a pin is refused
\* only for the ranges or for another pin, and one range without pins
\* overflows only when the requests add up to more than it holds
\* (Pool.allocate, src/a816/pool.py:124).
THEOREM RefusalsHaveReasons == Spec => []RefusalsExplained
<1>1. RefusalInv => RefusalsExplained
  BY DEF RefusalInv
<1> QED
  BY <1>1, InitInv, NextInv, InitRefusal, NextRefusal, PTL DEF Spec
-----------------------------------------------------------------------------
(* A layout does not depend on the order of the requests.                  *)

\* What the invariant says of a pool's ranges and requests.
LEMMA TaskTyped ==
    ASSUME IInv
    PROVE  /\ ranges \in SUBSET Ranges /\ NonEmpty(ranges) /\ Disjoint(ranges)
           /\ strategy \in Strategic /\ requests \in Seq(Requests)
<1>1. ranges \in SUBSET Ranges /\ NonEmpty(ranges) /\ Disjoint(ranges)
  BY DEF IInv, TypeOK, LayoutInv, NonEmpty, ValidRange
<1>2. strategy \in Strategic /\ requests \in Seq(Requests)
  BY PoolAssumption DEF IInv, TypeOK, Strategic
<1> QED
  BY <1>1, <1>2

\* A reordering reaches every request.
LEMMA ReorderingPermutes ==
    ASSUME requests \in Seq(Requests), NEW p \in Reorderings
    PROVE  Permutes(p, DOMAIN requests)
<1> DEFINE D == DOMAIN requests
<1>1. IsFiniteSet(D)
  <2>1. D = 1 .. Len(requests) /\ 1 \in Int /\ Len(requests) \in Int
    BY RequestFields
  <2> QED
    BY <2>1, FS_Interval
<1>2. p \in [D -> D] /\ \A i, j \in D : i # j => p[i] # p[j]
  BY DEF Reorderings
<1> HIDE DEF D
<1>3. p \in Injection(D, D)
  BY <1>2 DEF Injection, IsInjective
<1>4. p \in Surjection(D, D)
  BY <1>1, <1>3, FS_Injection
<1>5. \A k \in D : \E i \in D : p[i] = k
  BY <1>4 DEF Surjection
<1> QED
  BY <1>2, <1>5 DEF Permutes, D

LEMMA InvPackStable == IInv => PackStable
<1> SUFFICES ASSUME IInv, strategy = "pack", DistinctNames, NEW p \in Reorderings
             PROVE  PlacedAlike(p)
  BY DEF PackStable
<1>1. /\ ranges \in SUBSET Ranges /\ NonEmpty(ranges) /\ Disjoint(ranges)
      /\ "pack" \in Strategic /\ requests \in Seq(Requests)
  BY TaskTyped
<1>2. Permutes(p, DOMAIN requests)
  BY <1>1, ReorderingPermutes
<1>3. Reordered(p) = Reorder(requests, p)
  BY DEF Reordered, Reorder
<1>4. Reordered(p) \in Seq(Requests) /\ DOMAIN Reordered(p) = DOMAIN requests
  BY <1>1, <1>2, <1>3, ShuffledStart
<1>5. CASE ~PinnedTwice
  <2>1. NoTies(requests)
    BY <1>5 DEF NoTies, DistinctNames, PinnedTwice, Pinned
  <2>2. Shuffled(Layout(ranges, "pack", requests), Layout(ranges, "pack", Reordered(p)), p)
    BY <1>1, <1>2, <1>3, <2>1, LayoutShuffled
  <2>3. Layout(ranges, "pack", requests).error = "none" =>
           \A i \in DOMAIN requests :
              Layout(ranges, "pack", Reordered(p)).addr[i] = Layout(ranges, "pack", requests).addr[p[i]]
    <3>1. ASSUME Layout(ranges, "pack", requests).error = "none"
          PROVE  Layout(ranges, "pack", requests).reqs = requests
      BY <1>1, <3>1, LayoutInPlace
    <3> QED
      BY <2>2, <3>1 DEF Shuffled
  <2>4. DOMAIN p = DOMAIN requests
    BY <1>2 DEF Permutes
  <2> QED
    BY <2>2, <2>3, <2>4 DEF Shuffled, PlacedAlike
<1>6. CASE PinnedTwice
  <2>1. PICK i \in Pinned(requests), j \in Pinned(requests) : i # j /\ requests[i].pin = requests[j].pin
    BY <1>6 DEF PinnedTwice
  <2>2. Layout(ranges, "pack", requests).error # "none"
    BY <1>1, <2>1, TiesRefused
  <2>3. PICK k \in DOMAIN requests, m \in DOMAIN requests : p[k] = i /\ p[m] = j
    BY <1>2, <2>1 DEF Permutes, Pinned
  <2>4. /\ k \in Pinned(Reordered(p)) /\ m \in Pinned(Reordered(p)) /\ k # m
        /\ Reordered(p)[k].pin = Reordered(p)[m].pin
    BY <2>1, <2>3 DEF Pinned, Reordered
  <2>5. Layout(ranges, "pack", Reordered(p)).error # "none"
    BY <1>1, <1>4, <2>4, TiesRefused
  <2> QED
    BY <1>6, <2>2, <2>5 DEF PlacedAlike
<1> QED
  BY <1>5, <1>6

\* Reordering the source moves nothing: under `pack` the same requests, of
\* different names, get the same addresses, or for the same reason nothing does.
THEOREM LayoutIgnoresOrder == Spec => []PackStable
<1>1. Spec => []IInv
  BY InitInv, NextInv, PTL DEF Spec
<1> QED
  BY <1>1, InvPackStable, PTL
-----------------------------------------------------------------------------
(* The loops are the fold, and the free list is what the placements leave. *)

\* The pool of PoolLayout as these variables have it.
Here == PoolAs(ranges, strategy, requests, free, addr)

\* The fold of PoolLayout comes by here, or ends with the same error.
RunsAlong ==
    /\ pc \in {"placing", "done"} =>
           Passes(ranges, strategy, requests, Here, Cardinality(Placed))
    /\ pc = "failed" => Layout(ranges, strategy, requests).error = error

\* The variables make up a pool.
LEMMA HereFields ==
    ASSUME IInv
    PROVE  /\ Here \in Pools /\ Here.error = "none"
           /\ Here.ranges = ranges /\ Here.strategy = strategy /\ Here.reqs = requests
           /\ Here.free = free /\ Here.addr = addr
           /\ Waiting(Here) = DOMAIN requests \ Placed /\ Settled(Here) = Placed
<1>1. /\ ranges \in SUBSET Ranges /\ strategy \in Strategic /\ requests \in Seq(Requests)
      /\ free \in SUBSET Ranges /\ addr \in Seq(Nat \cup {Unplaced}) /\ DOMAIN addr = DOMAIN requests
  BY TaskTyped DEF IInv, TypeOK
<1>2. /\ Here \in Pools /\ Here.error = "none"
      /\ Here.ranges = ranges /\ Here.strategy = strategy /\ Here.reqs = requests
      /\ Here.free = free /\ Here.addr = addr
  BY <1>1, PoolAsFields DEF Here
<1>3. Waiting(Here) = DOMAIN requests \ Placed /\ Settled(Here) = Placed
  BY <1>2 DEF Waiting, Placed, Settled
<1> QED
  BY <1>2, <1>3

\* As many turns are over as requests are placed.
LEMMA TurnsTaken ==
    ASSUME IInv
    PROVE  /\ Len(requests) \in Nat /\ IsFiniteSet(Placed) /\ Placed \subseteq DOMAIN requests
           /\ Cardinality(Placed) \in 0 .. Len(requests)
           /\ Cardinality(Placed) = Len(requests) <=> Placed = DOMAIN requests
<1>1. requests \in Seq(Requests)
  BY TaskTyped
<1>2. Len(requests) \in Nat /\ DOMAIN requests = 1 .. Len(requests)
  BY <1>1, RequestFields
<1> DEFINE D == 1 .. Len(requests)
<1>3. IsFiniteSet(D) /\ Cardinality(D) = Len(requests)
  <2>1. 1 \in Int /\ Len(requests) \in Int
    BY <1>2
  <2>2. IsFiniteSet(D) /\ Cardinality(D) = IF 1 > Len(requests) THEN 0 ELSE Len(requests) - 1 + 1
    BY <2>1, FS_Interval
  <2> QED
    BY <1>2, <2>2
<1>4. Placed \in SUBSET D
  BY <1>2 DEF Placed
<1>5. DOMAIN requests = D
  BY <1>2
<1> HIDE DEF D
<1>6. /\ IsFiniteSet(Placed) /\ Cardinality(Placed) \in Nat
      /\ Cardinality(Placed) <= Cardinality(D)
      /\ Cardinality(Placed) = Cardinality(D) => Placed = D
  BY <1>3, <1>4, FS_Subset, FS_CardinalityType
<1> QED
  BY <1>2, <1>3, <1>4, <1>5, <1>6

\* While allocate() runs chunks and spans are in place.
LEMMA HereInPlace ==
    ASSUME IInv, pc = "placing"
    PROVE  InPlace(Here)
<1>1. /\ NonEmpty(free) /\ Disjoint(free)
      /\ \A c \in free : \E r \in ranges : r.lo <= c.lo /\ c.hi <= r.hi
  BY DEF IInv, LayoutInv, NonEmpty
<1>2. ASSUME NEW i \in Placed
      PROVE  /\ addr[i] \in Nat
             /\ \E r \in ranges : Holds(r, addr[i], requests[i].size)
             /\ requests[i].pin # Floating => addr[i] = requests[i].pin
             /\ \A c \in free : Apart(addr[i], requests[i].size, c.lo, c.hi - c.lo + 1)
             /\ \A j \in Placed : i # j => Apart(addr[i], requests[i].size, addr[j], requests[j].size)
  <2>1. addr[i] \in Nat
    BY <1>2, PlacedTyped DEF IInv
  <2> QED
    BY <2>1 DEF IInv, LayoutInv
<1> QED
  BY <1>1, <1>2, HereFields DEF InPlace

\* A request served: the fold's next turn takes the same bytes.
LEMMA ServedAlong ==
    ASSUME IInv, IInv', RunsAlong, pc = "placing", pc' = "placing",
           NEW i \in DOMAIN requests \ Placed, NEW c, NEW a \in Nat,
           Turn(Here, requests[Cardinality(Placed) + 1]) = Take(Here, i, c, a),
           free' = (free \ {c}) \cup Remainder(c, a, requests[i].size),
           addr' = [addr EXCEPT ![i] = a],
           UNCHANGED <<ranges, strategy, requests>>
    PROVE  RunsAlong'
<1>1. PICK p : p = Here
  OBVIOUS
<1>2. PICK n : n = Cardinality(Placed)
  OBVIOUS
<1>3. PICK q : q = Take(p, i, c, a)
  OBVIOUS
<1>4. /\ p \in Pools /\ p.error = "none" /\ p.reqs = requests
      /\ p.ranges = ranges /\ p.strategy = strategy /\ p.free = free /\ p.addr = addr
  BY <1>1, HereFields
<1>5. n \in Nat /\ n < Len(requests) /\ Len(requests) \in Nat /\ IsFiniteSet(Placed)
  BY <1>2, TurnsTaken
<1>6. Passes(ranges, strategy, requests, q, n + 1)
  <2>1. Passes(ranges, strategy, requests, p, n)
    BY <1>1, <1>2 DEF RunsAlong
  <2>2. Turn(p, requests[n + 1]) = q
    BY <1>1, <1>2, <1>3
  <2> QED
    BY <1>5, <2>1, <2>2, PassesTurn
<1>7. /\ q \in Pools /\ SameTask(p, q) /\ q.error = p.error
      /\ q.free = (p.free \ {c}) \cup Remainder(c, a, p.reqs[i].size)
      /\ q.addr = Put(p.addr, i, a)
  <2>1. Remainder(c, a, p.reqs[i].size) \in SUBSET Ranges
    BY <1>4 DEF IInv, TypeOK
  <2>2. i \in DOMAIN p.reqs
    BY <1>4
  <2> QED
    BY <1>3, <1>4, <2>1, <2>2, TakeFields
<1>8. q = Here'
  <2>1. /\ q.ranges = ranges' /\ q.strategy = strategy' /\ q.reqs = requests'
        /\ q.free = free' /\ q.addr = addr'
    BY <1>4, <1>7 DEF SameTask, Put
  <2>2. q = PoolAs(q.ranges, q.strategy, q.reqs, q.free, q.addr)
    BY <1>4, <1>7, PoolFromFields
  <2> QED
    BY <2>1, <2>2 DEF Here
<1>9. Cardinality(Placed') = n + 1
  <2>1. Placed' = Placed \cup {i}
    BY DEF Placed, IInv, TypeOK, Unplaced
  <2> QED
    BY <1>2, <1>5, <2>1, FS_AddElement
<1> QED
  BY <1>6, <1>8, <1>9 DEF RunsAlong

\* A pin served or refused.
LEMMA PinnedAlong ==
    ASSUME IInv, IInv', RunsAlong, NEW i \in DOMAIN requests, PlacePinned(i)
    PROVE  RunsAlong'
<1>1. PICK p : p = Here
  OBVIOUS
<1>2. PICK n : n = Cardinality(Placed)
  OBVIOUS
<1> DEFINE w == requests[i]
<1>3. /\ p \in Pools /\ p.error = "none" /\ p.reqs = requests /\ InPlace(p)
      /\ p.ranges = ranges /\ p.strategy = strategy /\ p.free = free /\ p.addr = addr
      /\ Waiting(p) = DOMAIN requests \ Placed
  BY <1>1, HereFields, HereInPlace DEF PlacePinned
<1>4. n \in Nat /\ n < Len(requests) /\ Len(requests) \in Nat
  <2>1. i \notin Placed
    BY DEF PlacePinned, NextPinned
  <2> QED
    BY <1>2, <2>1, TurnsTaken
<1>5. i \in Pins(p) /\ \A j \in Pins(p) \ {i} : PinBefore(p.reqs, i, j)
  <2>1. Pins(p) = Pinned(requests) \ Placed
    BY <1>3 DEF Pins, Pinned
  <2> QED
    BY <1>3, <2>1 DEF PlacePinned, NextPinned
<1>6. w = p.reqs[i] /\ w.pin \in Nat
  BY <1>3, <1>5, RequestFields, TaskTyped DEF Pins, Pinned
<1>7. /\ \A c : IsFirst(c, Holding(p, w)) => Turn(p, requests[n + 1]) = Take(p, i, c, w.pin)
      /\ Holding(p, w) = {} => Turn(p, requests[n + 1]).error = Blame(p, w)
  <2>1. PICK v, turn : v = w /\ turn = requests[n + 1]
    OBVIOUS
  <2>2. v = p.reqs[i]
    BY <1>6, <2>1
  <2>3. /\ \A c : IsFirst(c, Holding(p, v)) => Turn(p, turn) = Take(p, i, c, v.pin)
        /\ Holding(p, v) = {} => Turn(p, turn).error = Blame(p, v)
    BY <1>3, <1>5, <2>2, PinServed
  <2> QED
    BY <2>1, <2>3
<1>8. Holding(p, w) = {d \in free : Holds(d, w.pin, w.size)}
  BY <1>3 DEF Holding
<1>9. CASE Carve(i)
  <2>1. PICK c \in free :
           /\ IsFirst(c, Holding(p, w))
           /\ free' = (free \ {c}) \cup Remainder(c, w.pin, w.size)
           /\ UNCHANGED <<ranges, strategy, requests, pc, error>>
    BY <1>8, <1>9 DEF Carve
  <2>2. Turn(Here, requests[Cardinality(Placed) + 1]) = Take(Here, i, c, w.pin)
    BY <1>1, <1>2, <1>7, <2>1
  <2>3. pc = "placing" /\ i \notin Placed /\ addr' = [addr EXCEPT ![i] = w.pin]
    BY DEF PlacePinned, NextPinned
  <2> QED
    BY <1>6, <2>1, <2>2, <2>3, ServedAlong
<1>10. CASE CarveFails(i)
  <2>1. Holding(p, w) = {}
    BY <1>8, <1>10 DEF CarveFails
  <2>2. pc' = "failed" /\ error' = Blame(p, w) /\ UNCHANGED <<ranges, strategy, requests>>
    BY <1>3, <1>10 DEF CarveFails, Fail, Blame
  <2>3. Layout(ranges, strategy, requests).error = Blame(p, w)
    <3>1. PICK q : q = Turn(p, requests[n + 1])
      OBVIOUS
    <3>2. q.error = Blame(p, w) /\ Blame(p, w) # "none"
      BY <1>7, <2>1, <3>1 DEF Blame
    <3>3. Passes(ranges, strategy, requests, p, n)
      BY <1>1, <1>2 DEF RunsAlong, PlacePinned
    <3>4. Passes(ranges, strategy, requests, q, n + 1) /\ n + 1 \in 0 .. Len(requests)
      BY <1>4, <3>1, <3>3, PassesTurn
    <3>5. Layout(ranges, strategy, requests) = q
      BY <1>4, <3>2, <3>4, PassesEnd
    <3> QED
      BY <3>2, <3>5
  <2> QED
    BY <2>2, <2>3 DEF RunsAlong
<1> QED
  BY <1>9, <1>10 DEF PlacePinned

\* A floating request served or refused.
LEMMA FloatingAlong ==
    ASSUME IInv, IInv', RunsAlong, NEW i \in DOMAIN requests, PlaceFloating(i)
    PROVE  RunsAlong'
<1>1. PICK p : p = Here
  OBVIOUS
<1>2. PICK n : n = Cardinality(Placed)
  OBVIOUS
<1> DEFINE w == requests[i]
<1>3. /\ p \in Pools /\ p.error = "none" /\ p.reqs = requests /\ InPlace(p)
      /\ p.ranges = ranges /\ p.strategy = strategy /\ p.free = free /\ p.addr = addr
      /\ Waiting(p) = DOMAIN requests \ Placed
  BY <1>1, HereFields, HereInPlace DEF PlaceFloating
<1>4. n \in Nat /\ n < Len(requests) /\ Len(requests) \in Nat
  <2>1. i \notin Placed
    BY DEF PlaceFloating, NextFloating
  <2> QED
    BY <1>2, <2>1, TurnsTaken
<1>5. /\ Pins(p) = {} /\ i \in Waiting(p)
      /\ \A j \in Waiting(p) \ {i} : FloatBefore(p.strategy, p.reqs, i, j)
  <2>1. Pins(p) = Pinned(requests) \ Placed
    BY <1>3 DEF Pins, Pinned
  <2> QED
    BY <1>3, <2>1 DEF PlaceFloating, NextFloating
<1>6. w = p.reqs[i]
  BY <1>3
<1>7. /\ \A c : IsFirst(c, Fitting(p, w)) => Turn(p, requests[n + 1]) = Take(p, i, c, c.lo)
      /\ Fitting(p, w) = {} => Turn(p, requests[n + 1]).error = "overflow"
  <2> HIDE DEF w
  <2> QED
    BY <1>3, <1>5, <1>6, FloatServed
<1>8. Fitting(p, w) = {d \in free : Fits(d, w.size)}
  BY <1>3 DEF Fitting
<1>9. CASE Place(i)
  <2>1. PICK c \in free :
           /\ IsFirst(c, Fitting(p, w))
           /\ addr' = [addr EXCEPT ![i] = c.lo]
           /\ free' = (free \ {c}) \cup Remainder(c, c.lo, w.size)
           /\ UNCHANGED <<ranges, strategy, requests, pc, error>>
    BY <1>8, <1>9 DEF Place
  <2>2. PICK a : a = c.lo
    OBVIOUS
  <2>3. Turn(Here, requests[Cardinality(Placed) + 1]) = Take(Here, i, c, a)
    BY <1>1, <1>2, <1>7, <2>1, <2>2
  <2>4. pc = "placing" /\ i \notin Placed /\ a \in Nat
    BY <2>2 DEF PlaceFloating, NextFloating, IInv, TypeOK, Ranges
  <2> QED
    BY <2>1, <2>2, <2>3, <2>4, ServedAlong
<1>10. CASE PlaceFails(i)
  <2>1. Fitting(p, w) = {}
    BY <1>8, <1>10 DEF PlaceFails
  <2>2. pc' = "failed" /\ error' = "overflow" /\ UNCHANGED <<ranges, strategy, requests>>
    BY <1>10 DEF PlaceFails, Fail
  <2>3. Layout(ranges, strategy, requests).error = "overflow"
    <3>1. PICK q : q = Turn(p, requests[n + 1])
      OBVIOUS
    <3>2. q.error = "overflow"
      BY <1>7, <2>1, <3>1
    <3>3. Passes(ranges, strategy, requests, p, n)
      BY <1>1, <1>2 DEF RunsAlong, PlaceFloating
    <3>4. Passes(ranges, strategy, requests, q, n + 1) /\ n + 1 \in 0 .. Len(requests)
      BY <1>4, <3>1, <3>3, PassesTurn
    <3>5. Layout(ranges, strategy, requests) = q
      BY <1>4, <3>2, <3>4, PassesEnd
    <3> QED
      BY <3>2, <3>5
  <2> QED
    BY <2>2, <2>3 DEF RunsAlong
<1> QED
  BY <1>9, <1>10 DEF PlaceFloating

LEMMA StartAlong ==
    ASSUME IInv, StartAllocate
    PROVE  RunsAlong'
<1>1. Placed' = {} /\ Cardinality(Placed') = 0
  <2>1. Placed' = {}
    BY DEF IInv, LayoutInv, StartAllocate, Placed
  <2> QED
    BY <2>1, FS_EmptySet
<1>2. Here' = Unallocated(ranges, strategy, requests)
  <2>1. addr = [i \in DOMAIN requests |-> Unplaced]
    BY DEF IInv, TypeOK, LayoutInv, StartAllocate, Placed
  <2> QED
    BY <2>1 DEF StartAllocate, Here, PoolAs, Unallocated
<1>3. Passes(ranges, strategy, requests, Unallocated(ranges, strategy, requests), 0)
  BY TurnsTaken, PassesStart
<1>4. ranges' = ranges /\ strategy' = strategy /\ requests' = requests /\ pc' = "placing"
  BY DEF StartAllocate
<1> QED
  BY <1>1, <1>2, <1>3, <1>4 DEF RunsAlong

LEMMA NextAlong == IInv /\ IInv' /\ RunsAlong /\ [Next]_vars => RunsAlong'
<1> SUFFICES ASSUME IInv, IInv', RunsAlong, [Next]_vars PROVE RunsAlong'
  OBVIOUS
<1>1. CASE \E w \in Wanted : Request(w)
  BY <1>1 DEF Request, RunsAlong
<1>2. CASE \E r \in Reclaims : Reclaim(r)
  BY <1>2 DEF Reclaim, RunsAlong
<1>3. CASE StartAllocate
  BY <1>3, StartAlong
<1>4. CASE \E i \in DOMAIN requests : PlacePinned(i) \/ PlaceFloating(i)
  BY <1>4, PinnedAlong, FloatingAlong
<1>5. CASE FinishAllocate
  BY <1>5 DEF FinishAllocate, RunsAlong, Here, Placed
<1>6. CASE UNCHANGED vars
  BY <1>6 DEF vars, RunsAlong, Here, Placed
<1> QED
  BY <1>1, <1>2, <1>3, <1>4, <1>5, <1>6 DEF Next, AllocateStep
\* Every chunk is a gap: it ends where its range does or at a placed request.
ChunksAreGaps ==
    pc \in {"placing", "done"} =>
        \A c \in free : \E r \in ranges :
            /\ c = Between(r, c.lo, c.hi) /\ r.lo <= c.lo /\ c.hi <= r.hi
            /\ c.lo = r.lo \/ \E j \in Placed : addr[j] + requests[j].size = c.lo
            /\ c.hi = r.hi \/ \E j \in Placed : c.hi + 1 = addr[j]

\* What is left of a chunk of r is a piece of r.
LEMMA RemainderBetween ==
    ASSUME NEW c \in Ranges, NEW a \in Nat, NEW n \in Nat \ {0}, NEW p \in Remainder(c, a, n),
           NEW r, c = Between(r, c.lo, c.hi)
    PROVE  p = Between(r, p.lo, p.hi)
BY DEF Remainder, Ranges, Between

\* Chunks stay gaps when request i is placed at a in chunk c.
LEMMA ChunksStayGaps ==
    ASSUME IInv, ChunksAreGaps, pc = "placing",
           NEW i \in DOMAIN requests \ Placed, NEW c \in free, NEW a \in Nat,
           Holds(c, a, requests[i].size),
           addr' = [addr EXCEPT ![i] = a],
           free' = (free \ {c}) \cup Remainder(c, a, requests[i].size),
           UNCHANGED <<ranges, requests>>
    PROVE  ChunksAreGaps'
<1> DEFINE n == requests[i].size
<1>1. /\ \A j \in DOMAIN requests : requests[j].size \in Nat \ {0}
      /\ DOMAIN addr = DOMAIN requests
      /\ Placed \subseteq DOMAIN requests
      /\ \A j \in Placed : addr[j] \in Nat
      /\ \A d \in free \cup ranges : d.lo \in Nat /\ d.hi \in Nat
  BY PartsTyped DEF IInv
<1>2. /\ DOMAIN addr' = DOMAIN addr /\ addr'[i] = a
      /\ \A j \in DOMAIN addr : j # i => addr'[j] = addr[j]
  BY <1>1
<1>3. Placed' = Placed \cup {i}
  BY <1>1, <1>2 DEF Placed, Unplaced
<1>4. \A j \in Placed : j \in Placed' /\ addr'[j] = addr[j]
  BY <1>1, <1>2, <1>3
<1>5. ASSUME NEW p \in free'
      PROVE  \E r \in ranges :
                /\ p = Between(r, p.lo, p.hi) /\ r.lo <= p.lo /\ p.hi <= r.hi
                /\ p.lo = r.lo \/ \E j \in Placed' : addr'[j] + requests[j].size = p.lo
                /\ p.hi = r.hi \/ \E j \in Placed' : p.hi + 1 = addr'[j]
  <2>1. CASE p \in free
    BY <2>1, <1>4 DEF ChunksAreGaps
  <2>2. CASE p \in Remainder(c, a, n)
    <3>1. PICK r \in ranges :
             /\ c = Between(r, c.lo, c.hi) /\ r.lo <= c.lo /\ c.hi <= r.hi
             /\ c.lo = r.lo \/ \E j \in Placed : addr[j] + requests[j].size = c.lo
             /\ c.hi = r.hi \/ \E j \in Placed : c.hi + 1 = addr[j]
      BY DEF ChunksAreGaps
    <3>2. c \in Ranges /\ n \in Nat \ {0}
      BY <1>1 DEF IInv, TypeOK
    <3>3. p = Between(r, p.lo, p.hi)
      BY <2>2, <3>1, <3>2, RemainderBetween
    <3>4. (p.lo = c.lo /\ p.hi + 1 = a) \/ (p.lo = a + n /\ p.hi = c.hi /\ a + n <= c.hi)
      BY <2>2, <3>2, RemainderEnds
    <3>5. /\ c.lo \in Nat /\ c.hi \in Nat /\ r.lo \in Nat /\ r.hi \in Nat
          /\ c.lo <= a /\ a + n - 1 <= c.hi
      BY <1>1 DEF Holds
    <3>6. p.hi \in Int
      <4>1. p \in Ranges
        BY <2>2, <3>2, <3>5, RemainderFacts DEF IInv, LayoutInv
      <4> QED
        BY <4>1 DEF Ranges
    <3>7. CASE p.lo = c.lo /\ p.hi + 1 = a
      <4>1. \E j \in Placed' : p.hi + 1 = addr'[j]
        BY <1>2, <1>3, <3>7
      <4>2. p.lo = r.lo \/ \E j \in Placed' : addr'[j] + requests[j].size = p.lo
        BY <1>4, <3>1, <3>7
      <4>3. r.lo <= p.lo /\ p.hi <= r.hi
        BY <3>1, <3>2, <3>5, <3>6, <3>7
      <4> QED
        BY <3>3, <4>1, <4>2, <4>3
    <3>8. CASE p.lo = a + n /\ p.hi = c.hi /\ a + n <= c.hi
      <4>1. \E j \in Placed' : addr'[j] + requests[j].size = p.lo
        BY <1>2, <1>3, <3>8
      <4>2. p.hi = r.hi \/ \E j \in Placed' : p.hi + 1 = addr'[j]
        BY <1>4, <3>1, <3>8
      <4>3. r.lo <= p.lo /\ p.hi <= r.hi
        BY <3>1, <3>2, <3>5, <3>8
      <4> QED
        BY <3>3, <4>1, <4>2, <4>3
    <3> QED
      BY <3>4, <3>7, <3>8
  <2> QED
    BY <2>1, <2>2
<1> QED
  BY <1>5 DEF ChunksAreGaps

LEMMA NextGaps == IInv /\ ChunksAreGaps /\ [Next]_vars => ChunksAreGaps'
<1> SUFFICES ASSUME IInv, ChunksAreGaps, [Next]_vars PROVE ChunksAreGaps'
  OBVIOUS
<1>1. CASE \E w \in Wanted : Request(w)
  BY <1>1 DEF Request, ChunksAreGaps
<1>2. CASE \E r \in Reclaims : Reclaim(r)
  BY <1>2 DEF Reclaim, ChunksAreGaps
<1>3. CASE StartAllocate
  <2>1. \A c \in ranges : c = Between(c, c.lo, c.hi) /\ c.lo <= c.lo /\ c.hi <= c.hi
    BY DEF IInv, TypeOK, Ranges, Between
  <2> QED
    BY <1>3, <2>1 DEF StartAllocate, ChunksAreGaps
<1>4. ASSUME NEW i \in DOMAIN requests, PlacePinned(i) PROVE ChunksAreGaps'
  <2>1. pc = "placing" /\ i \in DOMAIN requests \ Placed /\ requests[i].pin \in Nat
    BY <1>4, PartsTyped DEF PlacePinned, NextPinned, IInv, Pinned
  <2>2. CASE Carve(i)
    <3>1. PICK c \in free :
             /\ Holds(c, requests[i].pin, requests[i].size)
             /\ free' = (free \ {c}) \cup Remainder(c, requests[i].pin, requests[i].size)
             /\ UNCHANGED <<ranges, requests>>
      BY <2>2 DEF Carve, IsFirst
    <3> DEFINE a == requests[i].pin
    <3>2. a \in Nat /\ Holds(c, a, requests[i].size) /\ addr' = [addr EXCEPT ![i] = a]
          /\ free' = (free \ {c}) \cup Remainder(c, a, requests[i].size)
      BY <1>4, <2>1, <3>1 DEF PlacePinned
    <3> HIDE DEF a
    <3> QED
      BY <2>1, <3>1, <3>2, ChunksStayGaps
  <2>3. CASE CarveFails(i)
    BY <2>3 DEF CarveFails, Fail, ChunksAreGaps
  <2> QED
    BY <1>4, <2>2, <2>3 DEF PlacePinned
<1>5. ASSUME NEW i \in DOMAIN requests, PlaceFloating(i) PROVE ChunksAreGaps'
  <2>1. pc = "placing" /\ i \in DOMAIN requests \ Placed
    BY <1>5 DEF PlaceFloating, NextFloating
  <2>2. CASE Place(i)
    <3>1. PICK c \in free :
             /\ Fits(c, requests[i].size)
             /\ addr' = [addr EXCEPT ![i] = c.lo]
             /\ free' = (free \ {c}) \cup Remainder(c, c.lo, requests[i].size)
             /\ UNCHANGED <<ranges, requests>>
      BY <2>2 DEF Place, IsFirst
    <3>2. c.lo \in Nat /\ c.hi \in Nat /\ requests[i].size \in Nat \ {0}
      BY PartsTyped DEF IInv
    <3> DEFINE a == c.lo
    <3>3. a \in Nat /\ Holds(c, a, requests[i].size) /\ addr' = [addr EXCEPT ![i] = a]
          /\ free' = (free \ {c}) \cup Remainder(c, a, requests[i].size)
      BY <3>1, <3>2 DEF Holds, Fits, Size
    <3> HIDE DEF a
    <3> QED
      BY <2>1, <3>1, <3>3, ChunksStayGaps
  <2>3. CASE PlaceFails(i)
    BY <2>3 DEF PlaceFails, Fail, ChunksAreGaps
  <2> QED
    BY <1>5, <2>2, <2>3 DEF PlaceFloating
<1>6. CASE FinishAllocate
  BY <1>6 DEF FinishAllocate, ChunksAreGaps, Placed
<1>7. CASE UNCHANGED vars
  BY <1>7 DEF vars, ChunksAreGaps, Placed
<1> QED
  BY <1>1, <1>2, <1>3, <1>4, <1>5, <1>6, <1>7 DEF Next, AllocateStep
\* The placed requests as _free_ranges hands them to _subtract, and those of
\* them in r.
Spans == {[lo |-> addr[i], hi |-> addr[i] + requests[i].size - 1] : i \in Placed}
SpansIn(r) == {s \in Spans : Inside(s, r)}

\* A span lies in the range it meets, and is a placed request's.
LEMMA SpanFacts ==
    ASSUME IInv, pc = "done", NEW r \in ranges
    PROVE  /\ Pieces(r, SpansIn(r))
           /\ \A s \in SpansIn(r) : \A c \in free : s.hi < c.lo \/ c.hi < s.lo
           /\ \A i \in Placed : \A x \in addr[i] .. addr[i] + requests[i].size - 1 :
                 x \in r.lo .. r.hi =>
                    \E s \in SpansIn(r) : s.lo = addr[i] /\ s.hi = addr[i] + requests[i].size - 1
<1>1. /\ \A i \in Placed : addr[i] \in Nat /\ requests[i].size \in Nat \ {0}
      /\ \A q \in ranges : q.lo \in Nat /\ q.hi \in Nat /\ q.lo <= q.hi
      /\ \A c \in free : c.lo \in Nat /\ c.hi \in Nat
  BY PlacedTyped, PartsTyped DEF IInv, LayoutInv, ValidRange
<1>2. /\ \A i, j \in Placed : i # j => Apart(addr[i], requests[i].size, addr[j], requests[j].size)
      /\ \A i \in Placed : \A c \in free : Apart(addr[i], requests[i].size, c.lo, c.hi - c.lo + 1)
      /\ \A i \in Placed : \E q \in ranges : Holds(q, addr[i], requests[i].size)
      /\ \A q \in ranges : q # r => q.hi < r.lo \/ r.hi < q.lo
      /\ \A c \in free : c.lo <= c.hi
  BY DEF IInv, LayoutInv, Disjoint, Overlaps
<1>3. \A s \in Spans : \E i \in Placed : s.lo = addr[i] /\ s.hi = addr[i] + requests[i].size - 1
  BY DEF Spans
<1>4. \A i \in Placed : \E s \in Spans : s.lo = addr[i] /\ s.hi = addr[i] + requests[i].size - 1
  <2> TAKE i \in Placed
  <2> DEFINE s == [lo |-> addr[i], hi |-> addr[i] + requests[i].size - 1]
  <2>1. s \in Spans /\ s.lo = addr[i] /\ s.hi = addr[i] + requests[i].size - 1
    BY DEF Spans
  <2> HIDE DEF s
  <2> QED
    BY <2>1
<1>5. \A s, t \in Spans : s # t => s.hi < t.lo \/ t.hi < s.lo
  <2> SUFFICES ASSUME NEW i \in Placed, NEW j \in Placed, i # j
               PROVE  \/ addr[i] + requests[i].size - 1 < addr[j]
                      \/ addr[j] + requests[j].size - 1 < addr[i]
    BY DEF Spans
  <2> QED
    BY <1>1, <1>2 DEF Apart
<1>6. IsFiniteSet(SpansIn(r))
  <2>1. IsFiniteSet(Placed)
    BY TurnsTaken
  <2>2. IsFiniteSet(Spans)
    <3> DEFINE f == [i \in Placed |-> [lo |-> addr[i], hi |-> addr[i] + requests[i].size - 1]]
    <3>1. Spans = {f[i] : i \in Placed}
      BY DEF Spans
    <3>2. f \in Surjection(Placed, Spans)
      BY DEF Surjection, Spans
    <3> HIDE DEF f
    <3> QED
      BY <2>1, <3>2, FS_Surjection
  <2> QED
    BY <2>2, FS_Subset DEF SpansIn
<1>7. \A s \in SpansIn(r) :
         s.lo \in Nat /\ s.hi \in Nat /\ s.lo <= s.hi /\ r.lo <= s.lo /\ s.hi <= r.hi
  <2> TAKE s \in SpansIn(r)
  <2>1. s \in Spans /\ ~(s.hi < r.lo \/ s.lo > r.hi)
    BY DEF SpansIn, Inside
  <2>2. PICK i \in Placed : s.lo = addr[i] /\ s.hi = addr[i] + requests[i].size - 1
    BY <1>3, <2>1
  <2>3. PICK q \in ranges : q.lo <= s.lo /\ s.hi <= q.hi
    BY <1>2, <2>2 DEF Holds
  <2>4. q = r
    BY <1>1, <1>2, <2>1, <2>2, <2>3
  <2> QED
    BY <1>1, <2>2, <2>3, <2>4
<1>8. Pieces(r, SpansIn(r))
  <2>1. r \in Ranges
    BY DEF IInv, TypeOK
  <2> QED
    BY <1>5, <1>6, <1>7, <2>1 DEF Pieces, SpansIn
<1>9. \A s \in SpansIn(r) : \A c \in free : s.hi < c.lo \/ c.hi < s.lo
  <2> TAKE s \in SpansIn(r)
  <2>1. PICK i \in Placed : s.lo = addr[i] /\ s.hi = addr[i] + requests[i].size - 1
    BY <1>3 DEF SpansIn
  <2> QED
    BY <1>1, <1>2, <2>1 DEF Apart
<1>10. ASSUME NEW i \in Placed, NEW x \in addr[i] .. addr[i] + requests[i].size - 1, x \in r.lo .. r.hi
       PROVE  \E s \in SpansIn(r) : s.lo = addr[i] /\ s.hi = addr[i] + requests[i].size - 1
  <2>1. PICK s \in Spans : s.lo = addr[i] /\ s.hi = addr[i] + requests[i].size - 1
    BY <1>4
  <2>2. Inside(s, r)
    BY <1>1, <1>10, <2>1 DEF Inside
  <2> QED
    BY <2>1, <2>2 DEF SpansIn
<1> QED
  BY <1>8, <1>9, <1>10

\* What _subtract finds is what the loops left.
LEMMA FreeIsGaps ==
    ASSUME IInv, ChunksAreGaps, pc = "done"
    PROVE  FreeRanges = free
<1>1. \A r \in ranges : r \in Ranges /\ r.lo \in Nat /\ r.hi \in Nat /\ r.lo <= r.hi
  BY PartsTyped DEF IInv, TypeOK, LayoutInv, ValidRange
<1>2. \A c \in free : c.lo \in Nat /\ c.hi \in Nat /\ c.lo <= c.hi
  BY PartsTyped DEF IInv, LayoutInv
<1>3. \A i \in Placed : addr[i] \in Nat /\ requests[i].size \in Nat \ {0}
  BY PlacedTyped DEF IInv
<1>4. \A r \in ranges : \A g :
         g \in Gaps(r, Spans) <=> \E a, b \in Nat : IsGap(r, SpansIn(r), a, b) /\ g = Between(r, a, b)
  <2> TAKE r \in ranges
  <2>1. PICK T, S : T = Spans /\ S = SpansIn(r)
    OBVIOUS
  <2>2. Pieces(r, S) /\ r \in Ranges /\ r.lo <= r.hi
    BY <1>1, <2>1, SpanFacts
  <2>3. S = {s \in T : Inside(s, r)}
    BY <2>1 DEF SpansIn
  <2>4. \A g : g \in Gaps(r, T) <=> \E a, b \in Nat : IsGap(r, S, a, b) /\ g = Between(r, a, b)
    BY <2>2, <2>3, GapsFound
  <2> QED
    BY <2>1, <2>4
<1>5. \A g : g \in FreeRanges <=> \E r \in ranges : g \in Gaps(r, Spans)
  BY DEF FreeRanges, Spans
<1>6. ASSUME NEW c \in free PROVE \E r \in ranges : c \in Gaps(r, Spans)
  <2>1. PICK r \in ranges :
           /\ c = Between(r, c.lo, c.hi) /\ r.lo <= c.lo /\ c.hi <= r.hi
           /\ c.lo = r.lo \/ \E j \in Placed : addr[j] + requests[j].size = c.lo
           /\ c.hi = r.hi \/ \E j \in Placed : c.hi + 1 = addr[j]
    BY DEF ChunksAreGaps
  <2>2. c.lo = r.lo \/ \E s \in SpansIn(r) : s.hi + 1 = c.lo
    <3>1. CASE c.lo # r.lo
      <4>1. PICK j \in Placed : addr[j] + requests[j].size = c.lo
        BY <2>1, <3>1
      <4>2. c.lo - 1 \in addr[j] .. addr[j] + requests[j].size - 1 /\ c.lo - 1 \in r.lo .. r.hi
        BY <1>1, <1>2, <1>3, <2>1, <3>1, <4>1
      <4>3. PICK s \in SpansIn(r) : s.hi = addr[j] + requests[j].size - 1
        BY <4>2, SpanFacts
      <4> QED
        BY <1>2, <1>3, <4>1, <4>3
    <3> QED
      BY <3>1
  <2>3. c.hi = r.hi \/ \E s \in SpansIn(r) : c.hi + 1 = s.lo
    <3>1. CASE c.hi # r.hi
      <4>1. PICK j \in Placed : c.hi + 1 = addr[j]
        BY <2>1, <3>1
      <4>2. c.hi + 1 \in addr[j] .. addr[j] + requests[j].size - 1 /\ c.hi + 1 \in r.lo .. r.hi
        BY <1>1, <1>2, <1>3, <2>1, <3>1, <4>1
      <4> QED
        BY <4>1, <4>2, SpanFacts
    <3> QED
      BY <3>1
  <2>4. \A s \in SpansIn(r) : s.hi < c.lo \/ c.hi < s.lo
    BY SpanFacts
  <2>5. IsGap(r, SpansIn(r), c.lo, c.hi)
    BY <1>2, <2>1, <2>2, <2>3, <2>4 DEF IsGap
  <2> QED
    BY <1>2, <1>4, <2>1, <2>5
<1>7. ASSUME NEW r \in ranges, NEW a \in Nat, NEW b \in Nat, IsGap(r, SpansIn(r), a, b)
      PROVE  Between(r, a, b) \in free
  <2> DEFINE S == SpansIn(r)
  <2>1. /\ r.lo <= a /\ a <= b /\ b <= r.hi
        /\ \A s \in S : s.hi < a \/ b < s.lo
        /\ a = r.lo \/ \E s \in S : s.hi + 1 = a
        /\ b = r.hi \/ \E s \in S : b + 1 = s.lo
    BY <1>7 DEF IsGap
  <2>2. /\ \A s \in S : s.lo \in Nat /\ s.hi \in Nat /\ s.lo <= s.hi
        /\ \A s \in S : \A c \in free : s.hi < c.lo \/ c.hi < s.lo
        /\ \A i \in Placed : \A x \in addr[i] .. addr[i] + requests[i].size - 1 :
              x \in r.lo .. r.hi =>
                 \E s \in S : s.lo = addr[i] /\ s.hi = addr[i] + requests[i].size - 1
    BY SpanFacts DEF Pieces
  <2> HIDE DEF S
  <2>3. \E c \in free : c.lo <= a /\ a <= c.hi
    <3> SUFFICES ASSUME NEW i \in Placed, addr[i] <= a, a < addr[i] + requests[i].size PROVE FALSE
      BY <1>1, <2>1 DEF IInv, LayoutInv
    <3>1. a \in addr[i] .. addr[i] + requests[i].size - 1 /\ a \in r.lo .. r.hi
      BY <1>1, <1>3, <2>1
    <3>2. PICK s \in S : s.lo = addr[i] /\ s.hi = addr[i] + requests[i].size - 1
      BY <2>2, <3>1
    <3> QED
      BY <1>3, <2>1, <3>1, <3>2
  <2>4. PICK c \in free : c.lo <= a /\ a <= c.hi
    BY <2>3
  <2>5. PICK q \in ranges :
           /\ c = Between(q, c.lo, c.hi) /\ q.lo <= c.lo /\ c.hi <= q.hi
           /\ c.lo = q.lo \/ \E j \in Placed : addr[j] + requests[j].size = c.lo
           /\ c.hi = q.hi \/ \E j \in Placed : c.hi + 1 = addr[j]
    BY DEF ChunksAreGaps
  <2>6. q = r
    <3>1. q # r => q.hi < r.lo \/ r.hi < q.lo
      BY DEF IInv, LayoutInv, Disjoint, Overlaps
    <3> QED
      BY <1>1, <1>2, <2>1, <2>4, <2>5, <3>1
  <2>7. c.lo = a
    <3>1. CASE c.lo < a
      <4>1. PICK s \in S : s.hi + 1 = a
        BY <1>1, <1>2, <2>1, <2>5, <2>6, <3>1
      <4> QED
        BY <1>2, <2>2, <2>4, <3>1, <4>1
    <3> QED
      BY <1>2, <2>4, <3>1
  <2>8. c.hi = b
    <3>1. CASE c.hi < b
      <4>1. PICK j \in Placed : c.hi + 1 = addr[j]
        BY <1>1, <1>2, <2>1, <2>5, <2>6, <3>1
      <4>2. c.hi + 1 \in addr[j] .. addr[j] + requests[j].size - 1 /\ c.hi + 1 \in r.lo .. r.hi
        BY <1>1, <1>2, <1>3, <2>1, <2>4, <3>1, <4>1
      <4>3. PICK s \in S : s.lo = addr[j] /\ s.hi = addr[j] + requests[j].size - 1
        BY <2>2, <4>2
      <4> QED
        BY <1>2, <2>1, <2>2, <2>4, <3>1, <4>1, <4>3
    <3>2. CASE b < c.hi
      <4>1. PICK s \in S : b + 1 = s.lo
        BY <1>1, <1>2, <2>1, <2>5, <2>6, <3>2
      <4> QED
        BY <1>2, <2>1, <2>2, <2>7, <3>2, <4>1
    <3> QED
      BY <1>2, <3>1, <3>2
  <2> QED
    BY <2>5, <2>6, <2>7, <2>8
<1>8. \A g : g \in FreeRanges <=> g \in free
  BY <1>4, <1>5, <1>6, <1>7
<1> QED
  BY <1>8

LEMMA InvReported == IInv /\ ChunksAreGaps /\ RunsAlong => LayoutReported
<1> SUFFICES ASSUME IInv, ChunksAreGaps, RunsAlong PROVE LayoutReported
  OBVIOUS
<1>1. ASSUME pc = "done" PROVE FreeRanges = free
  BY <1>1, FreeIsGaps
<1>2. ASSUME pc = "done" PROVE Layout(ranges, strategy, requests) = Here
  <2>1. PICK p, n : p = Here /\ n = Cardinality(Placed)
    OBVIOUS
  <2>2. n = Len(requests) /\ n \in 0 .. Len(requests) /\ Len(requests) \in Nat
    BY <1>2, <2>1, TurnsTaken DEF IInv, LayoutInv
  <2>3. Passes(ranges, strategy, requests, p, n)
    BY <1>2, <2>1 DEF RunsAlong
  <2>4. Layout(ranges, strategy, requests) = p
    BY <2>2, <2>3, PassesEnd
  <2> QED
    BY <2>1, <2>4
<1> QED
  BY <1>1, <1>2, HereFields DEF LayoutReported, RunsAlong

\* The layout the linker's model computes as one function call, and the free
\* ranges reported after it, are those the loops of allocate() arrive at.
THEOREM LoopsReported == Spec => []LayoutReported
<1>1. Spec => []IInv
  BY InitInv, NextInv, PTL DEF Spec
<1>2. Init => ChunksAreGaps /\ RunsAlong
  BY DEF Init, ChunksAreGaps, RunsAlong
<1> QED
  BY <1>1, <1>2, NextGaps, NextAlong, InvReported, PTL DEF Spec
=============================================================================
