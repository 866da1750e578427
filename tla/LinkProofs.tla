----------------------------- MODULE LinkProofs -----------------------------
(***************************************************************************)
(* Object files and their linking are right for every program: what the    *)
(* writer's blocks and sections hold while a module is emitted, and where  *)
(* the linker puts relocatable modules.  What a fold has done is shown by  *)
(* going through its steps (FoldSteps, once per fold).                     *)
(***************************************************************************)
EXTENDS LinkProperties, LayoutProofs

LOCAL INSTANCE FiniteSetsExt

\* The folds, each by its step.
AddCode(sum, s) == sum + s.code
CodeSteps == INSTANCE FoldSteps WITH Op <- AddCode

AddLength(sum, n) == sum + Length(n)
LengthSteps == INSTANCE FoldSteps WITH Op <- AddLength

BytesIn(x) == IF x.kind = "bytes" THEN x.size ELSE 0
AddBytes(sum, x) == sum + BytesIn(x)
BytesSteps == INSTANCE FoldSteps WITH Op <- AddBytes

AddEmitted(sum, n) == sum + Emitted(n)
EmittedSteps == INSTANCE FoldSteps WITH Op <- AddEmitted

EmitStep(acc, k) ==
    IF Node.body[k].kind = "bytes"
    THEN EmitNode(acc, Node.body[k].size, <<i, k>>, {Refer(i, x) : x \in Node.body[k].refs})
    ELSE acc
BodySteps == INSTANCE FoldSteps WITH Op <- EmitStep

RequestStep(acc, a) == RequestOne(i, acc, a)
SlotSteps == INSTANCE FoldSteps WITH Op <- RequestStep

\* They are the folds of the model.
LEMMA CodeFold == ASSUME NEW q PROVE CodeOf(q) = CodeSteps!Left(0, q)
BY DEF CodeOf, CodeSteps!Left, Fold, CodeSteps!Fold, Strictly, CodeSteps!Strictly, AddCode

LEMMA LengthFold == ASSUME NEW q PROVE SizeOf(q) = LengthSteps!Left(0, q)
BY DEF SizeOf, LengthSteps!Left, Fold, LengthSteps!Fold, Strictly, LengthSteps!Strictly, AddLength

LEMMA EmittedFold == ASSUME NEW q PROVE EmittedBy(q) = EmittedSteps!Left(0, q)
BY DEF EmittedBy, EmittedSteps!Left, Fold, EmittedSteps!Fold, Strictly, EmittedSteps!Strictly, AddEmitted

LEMMA BytesFold == ASSUME NEW n, IsAlloc(n) PROVE Emitted(n) = BytesSteps!Left(0, n.body)
BY DEF Emitted, BytesSteps!Left, Fold, BytesSteps!Fold, Strictly, BytesSteps!Strictly, AddBytes, BytesIn

LEMMA BodyFold ==
    ASSUME NEW w
    PROVE  EmitBody(w, Node) = BodySteps!Left(w, [k \in DOMAIN Node.body |-> k])
BY DEF EmitBody, BodySteps!Left, Fold, BodySteps!Fold, Strictly, BodySteps!Strictly, EmitStep

LEMMA SlotFold ==
    ASSUME NEW acc, NEW q
    PROVE  Fold(LAMBDA x, a : RequestOne(i, x, a), acc, q) = SlotSteps!Left(acc, q)
BY DEF SlotSteps!Left, Fold, SlotSteps!Fold, Strictly, SlotSteps!Strictly, RequestStep

-----------------------------------------------------------------------------
(* Sequences.                                                              *)

IsSeq(q) == \E S : q \in Seq(S)

LEMMA SeqFacts ==
    ASSUME NEW q, IsSeq(q)
    PROVE  Len(q) \in Nat /\ DOMAIN q = 1 .. Len(q)
BY DEF IsSeq

LEMMA SameSequence ==
    ASSUME NEW q, IsSeq(q), NEW t, IsSeq(t), Len(q) = Len(t),
           \A k \in 1 .. Len(q) : q[k] = t[k]
    PROVE  q = t
<1>1. PICK S : q \in Seq(S)
  BY DEF IsSeq
<1>2. PICK T : t \in Seq(T)
  BY DEF IsSeq
<1>3. q = [k \in 1 .. Len(q) |-> q[k]]
  BY <1>1
<1>4. t = [k \in 1 .. Len(t) |-> t[k]]
  BY <1>2
<1> QED
  BY <1>3, <1>4

LEMMA AppendFacts ==
    ASSUME NEW q, IsSeq(q), NEW x
    PROVE  /\ IsSeq(Append(q, x))
           /\ Len(Append(q, x)) = Len(q) + 1
           /\ Append(q, x)[Len(q) + 1] = x
           /\ \A k \in 1 .. Len(q) : Append(q, x)[k] = q[k]
<1>1. PICK S : q \in Seq(S)
  BY DEF IsSeq
<1>2. q \in Seq(S \cup {x}) /\ x \in S \cup {x}
  BY <1>1
<1>3. Append(q, x) \in Seq(S \cup {x})
  BY <1>2
<1> QED
  BY <1>2, <1>3 DEF IsSeq

\* The first k elements are the first k - 1 and one more.
LEMMA PrefixFacts ==
    ASSUME NEW q, IsSeq(q)
    PROVE  /\ SubSeq(q, 1, 0) = <<>>
           /\ SubSeq(q, 1, Len(q)) = q
           /\ \A k \in 0 .. Len(q) :
                 /\ IsSeq(SubSeq(q, 1, k)) /\ Len(SubSeq(q, 1, k)) = k
                 /\ \A n \in 1 .. k : SubSeq(q, 1, k)[n] = q[n]
           /\ \A k \in 1 .. Len(q) : SubSeq(q, 1, k) = Append(SubSeq(q, 1, k - 1), q[k])
<1>1. PICK S : q \in Seq(S)
  BY DEF IsSeq
<1>2. ASSUME NEW k \in 0 .. Len(q)
      PROVE  /\ SubSeq(q, 1, k) \in Seq(S) /\ Len(SubSeq(q, 1, k)) = k
             /\ \A n \in 1 .. k : SubSeq(q, 1, k)[n] = q[n]
  BY <1>1
<1>3. SubSeq(q, 1, 0) = <<>>
  BY <1>1, <1>2
<1>4. SubSeq(q, 1, Len(q)) = q
  BY <1>1, <1>2
<1>5. ASSUME NEW k \in 1 .. Len(q)
      PROVE  SubSeq(q, 1, k) = Append(SubSeq(q, 1, k - 1), q[k])
  <2>1. k \in 0 .. Len(q) /\ k - 1 \in 0 .. Len(q) /\ q[k] \in S
    BY <1>1
  <2> DEFINE a == SubSeq(q, 1, k)
             b == Append(SubSeq(q, 1, k - 1), q[k])
  <2>2. a \in Seq(S) /\ Len(a) = k /\ \A n \in 1 .. k : a[n] = q[n]
    BY <2>1, <1>2
  <2>3. SubSeq(q, 1, k - 1) \in Seq(S) /\ Len(SubSeq(q, 1, k - 1)) = k - 1
        /\ \A n \in 1 .. k - 1 : SubSeq(q, 1, k - 1)[n] = q[n]
    BY <2>1, <1>2
  <2>4. b \in Seq(S) /\ Len(b) = k /\ \A n \in 1 .. k : b[n] = q[n]
    BY <2>1, <2>3
  <2> HIDE DEF a, b
  <2>5. a = b
    BY <2>2, <2>4
  <2> QED
    BY <2>5 DEF a, b
<1> QED
  BY <1>2, <1>3, <1>4, <1>5 DEF IsSeq

\* q with another last element.
Ended(q, x) == [q EXCEPT ![Len(q)] = x]

LEMMA EndedFacts ==
    ASSUME NEW q, IsSeq(q), Len(q) > 0, NEW x
    PROVE  /\ IsSeq(Ended(q, x)) /\ Len(Ended(q, x)) = Len(q) /\ Ended(q, x)[Len(q)] = x
           /\ \A k \in 1 .. Len(q) : k # Len(q) => Ended(q, x)[k] = q[k]
<1>1. Len(q) \in 1 .. Len(q)
  BY SeqFacts
<1>2. PICK S : q \in Seq(S)
  BY DEF IsSeq
<1>3. q \in Seq(S \cup {x}) /\ x \in S \cup {x}
  BY <1>2
<1>4. Ended(q, x) \in Seq(S \cup {x})
  BY <1>1, <1>3 DEF Ended
<1> QED
  BY <1>1, <1>3, <1>4 DEF IsSeq, Ended

\* To change the last element is to append another to the ones before it.
LEMMA ChangeIsAppend ==
    ASSUME NEW q, IsSeq(q), Len(q) > 0, NEW x
    PROVE  LET head == SubSeq(q, 1, Len(q) - 1)
           IN  /\ IsSeq(head) /\ Len(head) = Len(q) - 1
               /\ \A k \in 1 .. Len(q) - 1 : head[k] = q[k]
               /\ q = Append(head, q[Len(q)])
               /\ Ended(q, x) = Append(head, x)
<1> DEFINE head == SubSeq(q, 1, Len(q) - 1)
           new == Ended(q, x)
<1>1. Len(q) \in 1 .. Len(q) /\ Len(q) - 1 \in 0 .. Len(q) /\ Len(q) \in Nat
  BY SeqFacts
<1>2. /\ IsSeq(head) /\ Len(head) = Len(q) - 1
      /\ \A k \in 1 .. Len(q) - 1 : head[k] = q[k]
      /\ q = Append(head, q[Len(q)])
  BY <1>1, PrefixFacts
<1> HIDE DEF head
<1>3. /\ IsSeq(new) /\ Len(new) = Len(q) /\ new[Len(q)] = x
      /\ \A k \in 1 .. Len(q) : k # Len(q) => new[k] = q[k]
  BY EndedFacts
<1>4. /\ IsSeq(Append(head, x)) /\ Len(Append(head, x)) = Len(q)
      /\ Append(head, x)[Len(q)] = x
      /\ \A k \in 1 .. Len(q) : k # Len(q) => Append(head, x)[k] = q[k]
  BY <1>1, <1>2, AppendFacts
<1> HIDE DEF new
<1>5. new = Append(head, x)
  <2>1. \A k \in 1 .. Len(q) : new[k] = Append(head, x)[k]
    BY <1>3, <1>4
  <2> QED
    BY <1>3, <1>4, <2>1, SameSequence
<1> QED
  BY <1>2, <1>5 DEF head, new

-----------------------------------------------------------------------------
(* Sums.                                                                   *)

LEMMA NoCode == CodeOf(<<>>) = 0
BY CodeFold, CodeSteps!FoldEmpty

\* One section more, one element more.
LEMMA CodeAppend ==
    ASSUME NEW q, IsSeq(q), NEW x
    PROVE  CodeOf(Append(q, x)) = CodeOf(q) + x.code
<1>1. PICK S : q \in Seq(S)
  BY DEF IsSeq
<1>2. q \in Seq(S \cup {x}) /\ x \in S \cup {x}
  BY <1>1
<1> QED
  BY <1>2, CodeFold, CodeSteps!FoldAppend DEF AddCode

LEMMA EmittedAppend ==
    ASSUME NEW q, IsSeq(q), NEW x
    PROVE  EmittedBy(Append(q, x)) = EmittedBy(q) + Emitted(x)
<1>1. PICK S : q \in Seq(S)
  BY DEF IsSeq
<1>2. q \in Seq(S \cup {x}) /\ x \in S \cup {x}
  BY <1>1
<1> QED
  BY <1>2, EmittedFold, EmittedSteps!FoldAppend DEF AddEmitted

LEMMA NothingEmitted == EmittedBy(<<>>) = 0
BY EmittedFold, EmittedSteps!FoldEmpty

\* Sections have a number of bytes.
LEMMA CodeNat ==
    ASSUME NEW q, IsSeq(q), \A k \in 1 .. Len(q) : q[k].code \in Nat
    PROVE  CodeOf(q) \in Nat
<1>1. Len(q) \in Nat
  BY SeqFacts
<1>2. PICK run : CodeSteps!IsRun(0, q, run) /\ CodeSteps!Left(0, q) = run[Len(q)]
  BY <1>1, CodeSteps!FoldIsRun
<1> DEFINE D == {k \in 0 .. Len(q) : run[k] \in Nat}
<1>3. 0 \in D
  BY <1>1, <1>2 DEF CodeSteps!IsRun
<1>4. ASSUME NEW k \in 1 .. Len(q), k - 1 \in D PROVE k \in D
  BY <1>1, <1>2, <1>4 DEF CodeSteps!IsRun, AddCode
<1> HIDE DEF D
<1>5. Len(q) \in D
  BY <1>1, <1>3, <1>4, CodeSteps!UpFromZero
<1> QED
  BY <1>2, <1>5, CodeFold DEF D

\* A section that changes, changes the sum by as much.
LEMMA CodeChange ==
    ASSUME NEW q, IsSeq(q), \A k \in 1 .. Len(q) : q[k].code \in Nat, Len(q) > 0,
           NEW x, x.code \in Nat
    PROVE  /\ CodeOf(Ended(q, x)) = CodeOf(q) - q[Len(q)].code + x.code
           /\ CodeOf(SubSeq(q, 1, Len(q) - 1)) = CodeOf(q) - q[Len(q)].code
<1> DEFINE head == SubSeq(q, 1, Len(q) - 1)
           new == Ended(q, x)
<1>1. Len(q) \in 1 .. Len(q) /\ Len(q) \in Nat
  BY SeqFacts
<1>2. /\ IsSeq(head) /\ Len(head) = Len(q) - 1
      /\ \A k \in 1 .. Len(q) - 1 : head[k] = q[k]
      /\ q = Append(head, q[Len(q)])
      /\ new = Append(head, x)
  BY ChangeIsAppend
<1> HIDE DEF head, new
<1>3. CodeOf(head) \in Nat
  <2>1. \A k \in 1 .. Len(head) : head[k].code \in Nat
    BY <1>1, <1>2
  <2> QED
    BY <1>2, <2>1, CodeNat
<1>4. CodeOf(new) = CodeOf(head) + x.code /\ CodeOf(q) = CodeOf(head) + q[Len(q)].code
  BY <1>2, CodeAppend
<1>5. q[Len(q)].code \in Nat
  BY <1>1
<1> QED
  BY <1>3, <1>4, <1>5 DEF head, new

-----------------------------------------------------------------------------
(* The writer.                                                             *)

SectionShape(s) ==
    /\ s = [base |-> s.base, bss |-> s.bss, code |-> s.code, lines |-> s.lines, relocs |-> s.relocs]
    /\ s.bss \in BOOLEAN /\ s.code \in Nat /\ s.base \in Nat

SectionsShape(q) == IsSeq(q) /\ \A k \in 1 .. Len(q) : SectionShape(q[k])

WriterShape(w) ==
    /\ w = [sections |-> w.sections, open |-> w.open, base |-> w.base, bss |-> w.bss,
            block |-> w.block, explicit |-> w.explicit,
            symbols |-> w.symbols, aliases |-> w.aliases, decls |-> w.decls, allocs |-> w.allocs]
    /\ SectionsShape(w.sections)
    /\ w.open \in BOOLEAN /\ w.bss \in BOOLEAN /\ w.explicit \in BOOLEAN
    /\ w.block \in Nat /\ w.base \in Nat
    /\ w.open => Len(w.sections) > 0

\* The sections nothing is written to any more.
Kept(w) == IF w.open THEN Len(w.sections) - 1 ELSE Len(w.sections)

\* What is written and what is pending.
Total(w) == CodeOf(w.sections) + w.block

\* v goes on where w was: the closed sections, the requests and the
\* declarations stay.
GoesOn(w, v) ==
    /\ Kept(w) <= Kept(v)
    /\ \A k \in 1 .. Kept(w) : v.sections[k] = w.sections[k]
    /\ v.allocs = w.allocs /\ v.decls = w.decls

LEMMA KeptFacts ==
    ASSUME NEW w, WriterShape(w)
    PROVE  /\ Len(w.sections) \in Nat /\ Kept(w) \in 0 .. Len(w.sections)
           /\ CodeOf(w.sections) \in Nat /\ Total(w) \in Nat
           /\ \A k \in 1 .. Len(w.sections) : w.sections[k].code \in Nat
<1>1. SectionsShape(w.sections) /\ w.block \in Nat /\ w.open \in BOOLEAN
      /\ (w.open => Len(w.sections) > 0)
  BY DEF WriterShape
<1>2. Len(w.sections) \in Nat
  BY <1>1, SeqFacts DEF SectionsShape
<1>3. \A k \in 1 .. Len(w.sections) : w.sections[k].code \in Nat
  BY <1>1 DEF SectionsShape, SectionShape
<1>4. CodeOf(w.sections) \in Nat
  BY <1>1, <1>3, CodeNat DEF SectionsShape
<1> QED
  BY <1>1, <1>2, <1>3, <1>4 DEF Kept, Total

LEMMA GoesOnTrans ==
    ASSUME NEW u, NEW v, NEW w, WriterShape(u), WriterShape(v), WriterShape(w),
           GoesOn(u, v), GoesOn(v, w)
    PROVE  GoesOn(u, w)
<1>1. Kept(u) \in Nat /\ Kept(v) \in Nat /\ Kept(w) \in Nat
  BY KeptFacts
<1> QED
  BY <1>1 DEF GoesOn

LEMMA EnsureFacts ==
    ASSUME NEW w, WriterShape(w), NEW e, e = EnsureSection(w)
    PROVE  /\ WriterShape(e) /\ e.open /\ GoesOn(w, e) /\ Total(e) = Total(w)
           /\ e.block = w.block /\ e.explicit = w.explicit /\ e.base = w.base
           /\ w.open => e = w
           /\ ~w.open => /\ Len(e.sections) = Len(w.sections) + 1
                         /\ e.sections[Len(e.sections)] = NewSection(w.base, w.bss)
                         /\ \A k \in 1 .. Len(w.sections) : e.sections[k] = w.sections[k]
<1>1. CASE w.open
  BY <1>1, KeptFacts DEF EnsureSection, GoesOn
<1>2. CASE ~w.open
  <2> DEFINE new == NewSection(w.base, w.bss)
             q == Append(w.sections, new)
  <2>1. SectionShape(new) /\ new.code = 0
    BY DEF SectionShape, NewSection, WriterShape
  <2>2. IsSeq(w.sections) /\ \A k \in 1 .. Len(w.sections) : SectionShape(w.sections[k])
    BY DEF WriterShape, SectionsShape
  <2>3. /\ IsSeq(q) /\ Len(q) = Len(w.sections) + 1 /\ q[Len(w.sections) + 1] = new
        /\ \A k \in 1 .. Len(w.sections) : q[k] = w.sections[k]
    BY <2>2, AppendFacts
  <2>4. CodeOf(q) = CodeOf(w.sections)
    <3>1. CodeOf(q) = CodeOf(w.sections) + new.code
      BY <2>2, CodeAppend
    <3> QED
      BY <2>1, <3>1, KeptFacts
  <2> HIDE DEF q, new
  <2>5. Len(w.sections) \in Nat
    BY KeptFacts
  <2>6. SectionsShape(q)
    <3>1. ASSUME NEW k \in 1 .. Len(q) PROVE SectionShape(q[k])
      <4>1. k \in 1 .. Len(w.sections) \/ k = Len(w.sections) + 1
        BY <2>3, <2>5
      <4> QED
        BY <4>1, <2>1, <2>2, <2>3
    <3> QED
      BY <2>3, <3>1 DEF SectionsShape
  <2>7. e = [w EXCEPT !.sections = q, !.open = TRUE]
    BY <1>2 DEF EnsureSection, q, new
  <2>8. e = [sections |-> q, open |-> TRUE, base |-> w.base, bss |-> w.bss,
             block |-> w.block, explicit |-> w.explicit, symbols |-> w.symbols,
             aliases |-> w.aliases, decls |-> w.decls, allocs |-> w.allocs]
    BY <2>7 DEF WriterShape
  <2>9. WriterShape(e)
    BY <2>8, <2>6, <2>3, <2>5 DEF WriterShape
  <2>10. Kept(e) = Len(w.sections) /\ Kept(w) = Len(w.sections)
    BY <1>2, <2>3, <2>5, <2>8 DEF Kept
  <2>11. GoesOn(w, e)
    BY <2>3, <2>5, <2>8, <2>10 DEF GoesOn
  <2> QED
    BY <1>2, <2>3, <2>4, <2>8, <2>9, <2>11 DEF Total, new
<1> QED
  BY <1>1, <1>2 DEF WriterShape

\* An open writer with its last section and its block changed.
Changed(w, s, b) ==
    [sections |-> Ended(w.sections, s), open |-> w.open, base |-> w.base,
     bss |-> w.bss, block |-> b, explicit |-> w.explicit, symbols |-> w.symbols,
     aliases |-> w.aliases, decls |-> w.decls, allocs |-> w.allocs]

LEMMA ChangedFields ==
    ASSUME NEW w, NEW s, NEW b
    PROVE  /\ Changed(w, s, b).sections = Ended(w.sections, s)
           /\ Changed(w, s, b).open = w.open /\ Changed(w, s, b).block = b
           /\ Changed(w, s, b).base = w.base /\ Changed(w, s, b).bss = w.bss
           /\ Changed(w, s, b).explicit = w.explicit /\ Changed(w, s, b).allocs = w.allocs
           /\ Changed(w, s, b).decls = w.decls
BY DEF Changed

LEMMA OnlyBlock ==
    ASSUME NEW w, NEW s, NEW b, NEW c
    PROVE  [Changed(w, s, b) EXCEPT !.block = c] = Changed(w, s, c)
<1> DEFINE u == Changed(w, s, b)
           v == Changed(w, s, c)
<1>1. u = [sections |-> u.sections, open |-> u.open, base |-> u.base, bss |-> u.bss,
           block |-> u.block, explicit |-> u.explicit, symbols |-> u.symbols,
           aliases |-> u.aliases, decls |-> u.decls, allocs |-> u.allocs]
  BY DEF Changed
<1>2. v = [sections |-> u.sections, open |-> u.open, base |-> u.base, bss |-> u.bss,
           block |-> c, explicit |-> u.explicit, symbols |-> u.symbols,
           aliases |-> u.aliases, decls |-> u.decls, allocs |-> u.allocs]
  BY DEF Changed
<1> HIDE DEF u, v
<1>3. [u EXCEPT !.block = c] = v
  BY <1>1, <1>2
<1> QED
  BY <1>3, Zenon DEF u, v

LEMMA ChangedFacts ==
    ASSUME NEW w, WriterShape(w), w.open, NEW s, SectionShape(s), NEW b \in Nat
    PROVE  /\ WriterShape(Changed(w, s, b)) /\ GoesOn(w, Changed(w, s, b))
           /\ Len(Changed(w, s, b).sections) = Len(w.sections)
           /\ Changed(w, s, b).sections[Len(w.sections)] = s
           /\ \A k \in 1 .. Len(w.sections) :
                 k # Len(w.sections) => Changed(w, s, b).sections[k] = w.sections[k]
           /\ Total(Changed(w, s, b)) = Total(w) - Current(w).code + s.code - w.block + b
<1> DEFINE r == w.sections
           q == Ended(r, s)
           n == Len(r)
           v == Changed(w, s, b)
<1>1. SectionsShape(r) /\ n \in Nat /\ n > 0 /\ n \in 1 .. n
  BY KeptFacts DEF WriterShape
<1>2. IsSeq(r)
  BY <1>1 DEF SectionsShape
<1>3. /\ IsSeq(q) /\ Len(q) = n /\ q[n] = s
      /\ \A k \in 1 .. n : k # n => q[k] = r[k]
  <2> HIDE DEF r
  <2> QED
    BY <1>1, <1>2, EndedFacts
<1>4. CodeOf(q) = CodeOf(r) - r[n].code + s.code
  <2>1. s.code \in Nat
    BY DEF SectionShape
  <2>2. \A k \in 1 .. n : r[k].code \in Nat
    BY KeptFacts
  <2> HIDE DEF r
  <2> QED
    BY <1>1, <1>2, <2>1, <2>2, CodeChange
<1>5. /\ v.sections = q /\ v.open = w.open /\ v.bss = w.bss /\ v.block = b /\ v.base = w.base
      /\ v.explicit = w.explicit /\ v.allocs = w.allocs /\ v.decls = w.decls
  BY DEF Changed
<1>6. v = [sections |-> v.sections, open |-> v.open, base |-> v.base, bss |-> v.bss,
           block |-> v.block, explicit |-> v.explicit, symbols |-> v.symbols,
           aliases |-> v.aliases, decls |-> v.decls, allocs |-> v.allocs]
  BY DEF Changed
<1>r. r = w.sections
  OBVIOUS
<1> HIDE DEF q, v, r
<1>7. SectionsShape(q)
  BY <1>1, <1>3 DEF SectionsShape
<1> HIDE DEF n
<1>8. WriterShape(v)
  <2>1. w.bss \in BOOLEAN /\ w.explicit \in BOOLEAN /\ w.open \in BOOLEAN /\ w.base \in Nat
    BY DEF WriterShape
  <2>2. Len(v.sections) > 0
    BY <1>1, <1>3, <1>5
  <2>3. /\ v.bss \in BOOLEAN /\ v.explicit \in BOOLEAN /\ v.open \in BOOLEAN
        /\ v.block \in Nat /\ v.base \in Nat
    BY <1>5, <2>1
  <2>4. SectionsShape(v.sections)
    BY <1>5, <1>7
  <2> QED
    BY <1>6, <2>2, <2>3, <2>4, Zenon DEF WriterShape
<1>9. Kept(w) = n - 1 /\ Kept(v) = n - 1
  BY <1>1, <1>3, <1>5, <1>r DEF Kept, n
<1>10. GoesOn(w, v)
  BY <1>1, <1>3, <1>5, <1>9, <1>r DEF GoesOn
<1>11. Total(v) = CodeOf(r) - r[n].code + s.code + b
  BY <1>4, <1>5 DEF Total
<1>12. CodeOf(r) \in Nat /\ r[n].code \in Nat /\ s.code \in Nat /\ w.block \in Nat
  BY <1>1, <1>r, KeptFacts DEF SectionShape, WriterShape, n
<1>13. Total(v) = Total(w) - Current(w).code + s.code - w.block + b
  BY <1>11, <1>12, <1>r DEF Total, Current, n
<1> QED
  BY <1>3, <1>5, <1>8, <1>10, <1>13, <1>r DEF n, v

\* What the last section of an open writer is.
LEMMA CurrentFacts ==
    ASSUME NEW w, WriterShape(w), w.open
    PROVE  /\ SectionShape(Current(w)) /\ Current(w) = w.sections[Len(w.sections)]
           /\ Len(w.sections) \in 1 .. Len(w.sections)
<1>1. Len(w.sections) \in Nat /\ Len(w.sections) > 0 /\ SectionsShape(w.sections)
  BY KeptFacts DEF WriterShape
<1> QED
  BY <1>1 DEF Current, SectionsShape

\* The current section with n more bytes, and a writer n bytes are written to.
Grown(s, n) == [s EXCEPT !.code = @ + n]
Written(w, n, b) == Changed(EnsureSection(w), Grown(Current(EnsureSection(w)), n), b)

LEMMA GrownFacts ==
    ASSUME NEW s, SectionShape(s), NEW n \in Nat
    PROVE  /\ SectionShape(Grown(s, n)) /\ Grown(s, n).code = s.code + n
           /\ Grown(s, n).lines = s.lines /\ Grown(s, n).base = s.base
           /\ Grown(s, n).bss = s.bss
BY DEF SectionShape, Grown

LEMMA WrittenIs ==
    ASSUME NEW w, WriterShape(w)
    PROVE  /\ \A n \in Nat : WriteBlock(w, n) = Written(w, n, w.block)
           /\ \A n \in Nat : [WriteBlock(w, n) EXCEPT !.block = 0] = Written(w, n, 0)
<1> DEFINE e == EnsureSection(w)
<1>1. WriterShape(e) /\ e.open = TRUE /\ e.block = w.block
  <2>1. WriterShape(e) /\ e.open /\ e.block = w.block
    BY EnsureFacts
  <2> QED
    BY <2>1 DEF WriterShape
<1>2. Len(e.sections) \in 1 .. Len(e.sections)
  BY <1>1, CurrentFacts
<1>3. SectionsShape(e.sections)
  BY <1>1 DEF WriterShape
<1>4. ASSUME NEW n \in Nat PROVE WriteBlock(w, n) = Written(w, n, w.block)
  <2> DEFINE s == Grown(Current(e), n)
             q == Ended(e.sections, s)
  <2>1. WriteBlock(w, n) = [e EXCEPT !.sections[Len(e.sections)].code = @ + n]
    BY DEF WriteBlock
  <2>2. [e EXCEPT !.sections[Len(e.sections)].code = @ + n] = [e EXCEPT !.sections = q]
    BY DEF Grown, Ended, Current
  <2> HIDE DEF e, q, s
  <2>3. [e EXCEPT !.sections = q]
        = [sections |-> q, open |-> e.open, base |-> e.base,
           bss |-> e.bss, block |-> e.block, explicit |-> e.explicit, symbols |-> e.symbols,
           aliases |-> e.aliases, decls |-> e.decls, allocs |-> e.allocs]
    BY <1>1 DEF WriterShape
  <2>4. WriteBlock(w, n)
        = [sections |-> q, open |-> e.open, base |-> e.base,
           bss |-> e.bss, block |-> w.block, explicit |-> e.explicit, symbols |-> e.symbols,
           aliases |-> e.aliases, decls |-> e.decls, allocs |-> e.allocs]
    BY <2>1, <2>2, <2>3, <1>1
  <2> QED
    BY <2>4 DEF Written, Changed, q, s, e
<1>5. ASSUME NEW n \in Nat PROVE [WriteBlock(w, n) EXCEPT !.block = 0] = Written(w, n, 0)
  <2>1. WriteBlock(w, n) = Changed(e, Grown(Current(e), n), w.block)
    BY <1>4 DEF Written
  <2> HIDE DEF e
  <2>2. [Changed(e, Grown(Current(e), n), w.block) EXCEPT !.block = 0]
        = Changed(e, Grown(Current(e), n), 0)
    BY OnlyBlock
  <2> QED
    BY <2>1, <2>2, Zenon DEF Written, e
<1> QED
  BY <1>4, <1>5

LEMMA WrittenFacts ==
    ASSUME NEW w, WriterShape(w), NEW n \in Nat, NEW b \in Nat
    PROVE  LET v == Written(w, n, b)
           IN  /\ WriterShape(v) /\ GoesOn(w, v) /\ v.open /\ v.block = b
               /\ v.explicit = w.explicit /\ v.base = w.base
               /\ Total(v) = Total(w) + n - w.block + b
               /\ w.open => Len(v.sections) = Len(w.sections) /\ Current(v) = Grown(Current(w), n)
               /\ ~w.open => Len(v.sections) = Len(w.sections) + 1
<1> DEFINE e == EnsureSection(w)
           s == Grown(Current(e), n)
           v == Changed(e, s, b)
<1>1. /\ WriterShape(e) /\ e.open /\ GoesOn(w, e) /\ Total(e) = Total(w)
      /\ e.block = w.block /\ e.explicit = w.explicit /\ e.base = w.base
      /\ w.open => e = w
      /\ ~w.open => Len(e.sections) = Len(w.sections) + 1
  BY EnsureFacts
<1> HIDE DEF e
<1>2. SectionShape(Current(e)) /\ Len(e.sections) \in 1 .. Len(e.sections)
  BY <1>1, CurrentFacts
<1>3. SectionShape(s) /\ s.code = Current(e).code + n
  BY <1>2, GrownFacts
<1>s. s = Grown(Current(e), n)
  OBVIOUS
<1> HIDE DEF s
<1>4. /\ WriterShape(v) /\ GoesOn(e, v)
      /\ Len(v.sections) = Len(e.sections) /\ v.sections[Len(e.sections)] = s
      /\ Total(v) = Total(e) - Current(e).code + s.code - e.block + b
  BY <1>1, <1>3, ChangedFacts
<1>5. v.open /\ v.block = b /\ v.explicit = e.explicit /\ v.base = e.base
  BY <1>1, ChangedFields
<1> HIDE DEF v
<1>6. GoesOn(w, v)
  BY <1>1, <1>4, GoesOnTrans
<1>7. Total(v) = Total(w) + n - w.block + b
  <2>1. Total(w) \in Nat /\ Current(e).code \in Nat /\ w.block \in Nat
    BY <1>2, KeptFacts DEF SectionShape, WriterShape
  <2> QED
    BY <2>1, <1>1, <1>3, <1>4
<1>8. Current(v) = s
  BY <1>4 DEF Current
<1> QED
  BY <1>1, <1>4, <1>5, <1>6, <1>7, <1>8, <1>s DEF Written, e, s, v

\* _flush_object_block: what was pending is written.
LEMMA FlushFacts ==
    ASSUME NEW w, WriterShape(w)
    PROVE  LET v == Flush(w)
           IN  /\ WriterShape(v) /\ GoesOn(w, v) /\ v.block = 0
               /\ v.explicit = w.explicit /\ v.base = w.base /\ Total(v) = Total(w)
               /\ w.open => /\ v.open /\ Len(v.sections) = Len(w.sections)
                            /\ Current(v) = Grown(Current(w), w.block)
               /\ w.block = 0 => v = w
               /\ w.block # 0 /\ ~w.open => Len(v.sections) = Len(w.sections) + 1 /\ v.open
<1>1. w.block \in Nat /\ Total(w) \in Nat
  BY KeptFacts DEF WriterShape
<1>2. CASE w.block = 0
  <2>1. Flush(w) = w
    BY <1>2 DEF Flush
  <2>2. GoesOn(w, w)
    BY KeptFacts DEF GoesOn
  <2>3. w.open => Current(w) = Grown(Current(w), 0)
    <3>1. ASSUME w.open PROVE Current(w) = Grown(Current(w), 0)
      <4>1. SectionShape(Current(w))
        BY <3>1, CurrentFacts
      <4> QED
        BY <4>1 DEF SectionShape, Grown
    <3> QED
      BY <3>1
  <2> QED
    BY <1>2, <2>1, <2>2, <2>3
<1>3. CASE w.block # 0
  <2>1. Flush(w) = Written(w, w.block, 0)
    BY <1>1, <1>3, WrittenIs DEF Flush
  <2> DEFINE v == Written(w, w.block, 0)
  <2>2. /\ WriterShape(v) /\ GoesOn(w, v) /\ v.open /\ v.block = 0
        /\ v.explicit = w.explicit /\ v.base = w.base
        /\ Total(v) = Total(w) + w.block - w.block + 0
        /\ w.open => Len(v.sections) = Len(w.sections) /\ Current(v) = Grown(Current(w), w.block)
        /\ ~w.open => Len(v.sections) = Len(w.sections) + 1
    BY <1>1, WrittenFacts
  <2> HIDE DEF v
  <2>3. Total(v) = Total(w)
    BY <1>1, <2>2
  <2> QED
    BY <1>3, <2>1, <2>2, <2>3 DEF v
<1> QED
  BY <1>2, <1>3\* A section of the writer that is closed without its empty section.
Dropped(w) ==
    IF w.open /\ Current(w).code = 0 /\ ~Current(w).bss THEN Earlier(w) ELSE w.sections

LEMMA DroppedFacts ==
    ASSUME NEW w, WriterShape(w)
    PROVE  LET q == Dropped(w)
           IN  /\ SectionsShape(q) /\ Len(q) \in Nat /\ CodeOf(q) = CodeOf(w.sections)
               /\ Kept(w) <= Len(q) /\ Len(q) <= Len(w.sections)
               /\ \A k \in 1 .. Len(q) : q[k] = w.sections[k]
               /\ ~w.open => q = w.sections
               /\ Current(w).bss \/ Current(w).code # 0 => q = w.sections
<1> DEFINE r == w.sections
           head == SubSeq(r, 1, Len(r) - 1)
<1>1. SectionsShape(r) /\ Len(r) \in Nat /\ \A k \in 1 .. Len(r) : r[k].code \in Nat
  BY KeptFacts DEF WriterShape
<1>2. IsSeq(r) /\ Kept(w) <= Len(r)
  BY <1>1, KeptFacts DEF SectionsShape
<1>3. CASE w.open /\ Current(w).code = 0 /\ ~Current(w).bss
  <2>1. Dropped(w) = head
    BY <1>3 DEF Dropped, Earlier
  <2>2. Len(r) > 0 /\ Kept(w) = Len(r) - 1 /\ Current(w) = r[Len(r)]
    BY <1>3 DEF WriterShape, Kept, Current
  <2>r. r = w.sections
    OBVIOUS
  <2>h. head = SubSeq(r, 1, Len(r) - 1)
    OBVIOUS
  <2> HIDE DEF r, head
  <2>3. IsSeq(head) /\ Len(head) = Len(r) - 1 /\ \A k \in 1 .. Len(r) - 1 : head[k] = r[k]
    <3>1. Len(r) - 1 \in 0 .. Len(r)
      BY <1>1, <2>2
    <3> QED
      BY <1>2, <3>1, <2>h, PrefixFacts
  <2>4. CodeOf(head) = CodeOf(r)
    <3>1. CodeOf(head) = CodeOf(r) - r[Len(r)].code
      BY <1>1, <1>2, <2>2, <2>h, CodeChange
    <3>2. CodeOf(r) \in Nat
      BY <2>r, KeptFacts
    <3> QED
      BY <3>1, <3>2, <2>2, <1>3
  <2>5. SectionsShape(head)
    BY <1>1, <2>2, <2>3 DEF SectionsShape
  <2> QED
    BY <1>1, <1>3, <2>1, <2>2, <2>3, <2>4, <2>5, <2>r
<1>4. CASE ~(w.open /\ Current(w).code = 0 /\ ~Current(w).bss)
  <2>1. Dropped(w) = w.sections
    BY <1>4 DEF Dropped
  <2> QED
    BY <1>1, <1>2, <2>1
<1> QED
  BY <1>3, <1>4

\* The writer behind start_section, before a section is made at once.
Closed(w, base, explicit, bss) ==
    [sections |-> Dropped(w), open |-> FALSE, base |-> base, bss |-> bss,
     block |-> w.block, explicit |-> w.explicit \/ explicit, symbols |-> w.symbols,
     aliases |-> w.aliases, decls |-> w.decls, allocs |-> w.allocs]

LEMMA StartIs ==
    ASSUME NEW w, WriterShape(w), NEW base, NEW explicit, NEW bss
    PROVE  StartSection(w, base, explicit, bss)
           = IF bss THEN EnsureSection(Closed(w, base, explicit, bss))
             ELSE Closed(w, base, explicit, bss)
<1> DEFINE d == DropEmpty(w)
           q == Dropped(w)
<1>1. d = [w EXCEPT !.sections = q]
  BY DEF DropEmpty, Dropped, WriterShape
<1> HIDE DEF d, q
<1>2. d = [sections |-> q, open |-> w.open, base |-> w.base, bss |-> w.bss,
           block |-> w.block, explicit |-> w.explicit,
           symbols |-> w.symbols, aliases |-> w.aliases, decls |-> w.decls, allocs |-> w.allocs]
  BY <1>1 DEF WriterShape
<1>3. [d EXCEPT !.open = FALSE, !.base = base, !.bss = bss, !.explicit = d.explicit \/ explicit]
      = [sections |-> d.sections, open |-> FALSE, base |-> base, bss |-> bss,
         block |-> d.block, explicit |-> d.explicit \/ explicit, symbols |-> d.symbols,
         aliases |-> d.aliases, decls |-> d.decls, allocs |-> d.allocs]
  <2> DEFINE shut == FALSE
             x == d.explicit \/ explicit
  <2>1. d = [sections |-> d.sections, open |-> d.open, base |-> d.base, bss |-> d.bss,
             block |-> d.block, explicit |-> d.explicit,
             symbols |-> d.symbols, aliases |-> d.aliases, decls |-> d.decls, allocs |-> d.allocs]
    BY <1>2
  <2> HIDE DEF shut, x
  <2>2. [d EXCEPT !.open = shut, !.base = base, !.bss = bss, !.explicit = x]
        = [sections |-> d.sections, open |-> shut, base |-> base, bss |-> bss,
           block |-> d.block, explicit |-> x, symbols |-> d.symbols,
           aliases |-> d.aliases, decls |-> d.decls, allocs |-> d.allocs]
    <3> DEFINE d1 == [d EXCEPT !.open = shut]
               d2 == [d1 EXCEPT !.base = base]
               d3 == [d2 EXCEPT !.bss = bss]
               d4 == [d3 EXCEPT !.explicit = x]
    <3>1. d1 = [sections |-> d.sections, open |-> shut, base |-> d.base, bss |-> d.bss,
                block |-> d.block, explicit |-> d.explicit,
                symbols |-> d.symbols, aliases |-> d.aliases, decls |-> d.decls, allocs |-> d.allocs]
      BY <2>1
    <3> HIDE DEF d1
    <3>2. d2 = [sections |-> d.sections, open |-> shut, base |-> base, bss |-> d.bss,
                block |-> d.block, explicit |-> d.explicit,
                symbols |-> d.symbols, aliases |-> d.aliases, decls |-> d.decls, allocs |-> d.allocs]
      BY <3>1
    <3> HIDE DEF d2
    <3>3. d3 = [sections |-> d.sections, open |-> shut, base |-> base, bss |-> bss,
                block |-> d.block, explicit |-> d.explicit,
                symbols |-> d.symbols, aliases |-> d.aliases, decls |-> d.decls, allocs |-> d.allocs]
      BY <3>2
    <3> HIDE DEF d3
    <3>4. d4 = [sections |-> d.sections, open |-> shut, base |-> base, bss |-> bss,
                block |-> d.block, explicit |-> x,
                symbols |-> d.symbols, aliases |-> d.aliases, decls |-> d.decls, allocs |-> d.allocs]
      BY <3>3
    <3>5. d4 = [d EXCEPT !.open = shut, !.base = base, !.bss = bss, !.explicit = x]
      BY Zenon DEF d1, d2, d3, d4
    <3> QED
      BY <3>4, <3>5, Zenon
  <2> QED
    BY <2>2, Zenon DEF shut, x
<1>4. [sections |-> d.sections, open |-> FALSE, base |-> base, bss |-> bss,
       block |-> d.block, explicit |-> d.explicit \/ explicit, symbols |-> d.symbols,
       aliases |-> d.aliases, decls |-> d.decls, allocs |-> d.allocs]
      = Closed(w, base, explicit, bss)
  BY <1>2 DEF Closed, q
<1> QED
  BY <1>3, <1>4, Zenon DEF StartSection, d

LEMMA ClosedFacts ==
    ASSUME NEW w, WriterShape(w), NEW base \in Nat, NEW explicit, NEW bss,
           Closed(w, base, explicit, bss).bss \in BOOLEAN,
           Closed(w, base, explicit, bss).explicit \in BOOLEAN
    PROVE  LET v == Closed(w, base, explicit, bss)
           IN  WriterShape(v) /\ GoesOn(w, v) /\ Total(v) = Total(w)
<1> DEFINE v == Closed(w, base, explicit, bss)
           q == Dropped(w)
<1>1. /\ SectionsShape(q) /\ Len(q) \in Nat /\ CodeOf(q) = CodeOf(w.sections)
      /\ Kept(w) <= Len(q) /\ Len(q) <= Len(w.sections)
      /\ \A k \in 1 .. Len(q) : q[k] = w.sections[k]
  BY DroppedFacts
<1>2. /\ v.sections = q /\ v.open = FALSE /\ v.block = w.block /\ v.base = base
      /\ v.allocs = w.allocs /\ v.decls = w.decls
  BY DEF Closed
<1>3. v = [sections |-> v.sections, open |-> v.open, base |-> v.base, bss |-> v.bss,
           block |-> v.block, explicit |-> v.explicit, symbols |-> v.symbols,
           aliases |-> v.aliases, decls |-> v.decls, allocs |-> v.allocs]
  BY DEF Closed
<1>b. v.bss \in BOOLEAN /\ v.explicit \in BOOLEAN
  OBVIOUS
<1> HIDE DEF v, q
<1>4. WriterShape(v)
  <2>1. w.block \in Nat
    BY DEF WriterShape
  <2>2. SectionsShape(v.sections) /\ v.open \in BOOLEAN /\ v.bss \in BOOLEAN
        /\ v.explicit \in BOOLEAN /\ v.block \in Nat /\ v.base \in Nat /\ ~v.open
    BY <1>1, <1>2, <1>b, <2>1
  <2> QED
    BY <1>3, <2>2, Zenon DEF WriterShape
<1>5. Kept(v) = Len(q)
  BY <1>2 DEF Kept
<1>6. GoesOn(w, v)
  <2>1. Kept(w) \in Nat
    BY KeptFacts
  <2> QED
    BY <1>1, <1>2, <1>5, <2>1 DEF GoesOn
<1>7. Total(v) = Total(w)
  BY <1>1, <1>2 DEF Total
<1> QED
  BY <1>4, <1>6, <1>7 DEF v
\* The ways the emitter opens a section: where the module starts and behind
\* an alloc; behind *= and for a patch; for an alloc.
LEMMA StartImplicit ==
    ASSUME NEW w, WriterShape(w), NEW base \in Nat
    PROVE  LET v == StartSection(w, base, FALSE, FALSE)
           IN  /\ WriterShape(v) /\ GoesOn(w, v) /\ v.block = w.block /\ Total(v) = Total(w)
               /\ v.explicit = w.explicit /\ ~v.open /\ v.base = base
               /\ v.sections = Dropped(w)
<1> DEFINE v == Closed(w, base, FALSE, FALSE)
<1>1. StartSection(w, base, FALSE, FALSE) = v
  BY StartIs
<1>2. /\ v.explicit = w.explicit /\ v.open = FALSE /\ v.base = base /\ v.bss = FALSE
      /\ v.block = w.block /\ v.sections = Dropped(w) /\ w.explicit \in BOOLEAN
  BY DEF Closed, WriterShape
<1>3. v.bss \in BOOLEAN /\ v.explicit \in BOOLEAN
  BY <1>2
<1>4. WriterShape(v) /\ GoesOn(w, v) /\ Total(v) = Total(w)
  BY <1>3, ClosedFacts, Zenon
<1> HIDE DEF v
<1>5. ~v.open
  BY <1>2
<1> QED
  BY <1>1, <1>2, <1>4, <1>5, Zenon

LEMMA StartExplicit ==
    ASSUME NEW w, WriterShape(w), NEW base \in Nat
    PROVE  LET v == StartSection(w, base, TRUE, FALSE)
           IN  /\ WriterShape(v) /\ GoesOn(w, v) /\ v.block = w.block /\ Total(v) = Total(w)
               /\ v.explicit = TRUE /\ ~v.open /\ v.base = base
               /\ v.sections = Dropped(w)
<1> DEFINE v == Closed(w, base, TRUE, FALSE)
<1>1. StartSection(w, base, TRUE, FALSE) = v
  BY StartIs
<1>2. /\ v.explicit = TRUE /\ v.open = FALSE /\ v.base = base /\ v.bss = FALSE
      /\ v.block = w.block /\ v.sections = Dropped(w) /\ w.explicit \in BOOLEAN
  BY DEF Closed, WriterShape
<1>3. v.bss \in BOOLEAN /\ v.explicit \in BOOLEAN
  BY <1>2
<1>4. WriterShape(v) /\ GoesOn(w, v) /\ Total(v) = Total(w)
  BY <1>3, ClosedFacts, Zenon
<1> HIDE DEF v
<1>5. ~v.open
  BY <1>2
<1> QED
  BY <1>1, <1>2, <1>4, <1>5, Zenon

LEMMA StartAlloc ==
    ASSUME NEW w, WriterShape(w), NEW base \in Nat
    PROVE  LET v == StartSection(w, base, TRUE, TRUE)
           IN  /\ WriterShape(v) /\ GoesOn(w, v) /\ v.block = w.block /\ Total(v) = Total(w)
               /\ v.explicit = TRUE /\ v.open /\ Current(v) = NewSection(base, TRUE)
<1> DEFINE c == Closed(w, base, TRUE, TRUE)
           v == EnsureSection(c)
<1>1. StartSection(w, base, TRUE, TRUE) = v
  BY StartIs
<1>2. /\ c.explicit = TRUE /\ c.open = FALSE /\ c.base = base /\ c.bss = TRUE
      /\ c.block = w.block
  BY DEF Closed, WriterShape
<1>3. c.bss \in BOOLEAN /\ c.explicit \in BOOLEAN
  BY <1>2
<1>4. WriterShape(c) /\ GoesOn(w, c) /\ Total(c) = Total(w)
  BY <1>3, ClosedFacts, Zenon
<1> HIDE DEF c
<1>5. /\ WriterShape(v) /\ v.open /\ GoesOn(c, v) /\ Total(v) = Total(c)
      /\ v.block = c.block /\ v.explicit = c.explicit
      /\ v.sections[Len(v.sections)] = NewSection(c.base, c.bss)
  BY <1>2, <1>4, EnsureFacts
<1> HIDE DEF v
<1>6. GoesOn(w, v)
  BY <1>4, <1>5, GoesOnTrans
<1>7. NewSection(c.base, c.bss) = NewSection(base, TRUE)
  BY <1>2
<1>8. Current(v) = NewSection(base, TRUE)
  BY <1>5, <1>7, Zenon DEF Current
<1> QED
  BY <1>1, <1>2, <1>4, <1>5, <1>6, <1>8

\* A section a node is emitted to.
Noted(w, s, at, targets) ==
    [s EXCEPT !.relocs = @ \cup {[off |-> Offset(w), target |-> t] : t \in targets},
              !.lines = @ \cup {[off |-> Offset(w), at |-> at]}]

LEMMA NotedFacts ==
    ASSUME NEW w, NEW s, SectionShape(s), NEW at, NEW targets
    PROVE  LET t == Noted(w, s, at, targets)
           IN  /\ SectionShape(t) /\ t.code = s.code /\ t.base = s.base /\ t.bss = s.bss
               /\ \A l \in t.lines : l \in s.lines \/ l.at = at
<1> DEFINE more == {[off |-> Offset(w), target |-> t] : t \in targets}
           line == {[off |-> Offset(w), at |-> at]}
<1>1. Noted(w, s, at, targets) = [s EXCEPT !.relocs = s.relocs \cup more, !.lines = s.lines \cup line]
  BY DEF Noted, SectionShape
<1> HIDE DEF more, line
<1> DEFINE t == [s EXCEPT !.relocs = s.relocs \cup more]
           u == [t EXCEPT !.lines = s.lines \cup line]
<1>s. s = [base |-> s.base, bss |-> s.bss, code |-> s.code, lines |-> s.lines, relocs |-> s.relocs]
  BY DEF SectionShape
<1>2. t = [base |-> s.base, bss |-> s.bss, code |-> s.code, lines |-> s.lines,
           relocs |-> s.relocs \cup more]
  BY <1>s
<1> HIDE DEF t
<1>3. u = [base |-> s.base, bss |-> s.bss, code |-> s.code, lines |-> s.lines \cup line,
           relocs |-> s.relocs \cup more]
  BY <1>2
<1>4. u = Noted(w, s, at, targets)
  BY <1>1, Zenon DEF u, t
<1> HIDE DEF u
<1> QED
  BY <1>3, <1>4 DEF SectionShape, line

LEMMA EmitNodeIs ==
    ASSUME NEW w, WriterShape(w), NEW n \in Nat, NEW at, NEW targets
    PROVE  EmitNode(w, n, at, targets)
           = Changed(EnsureSection(w), Noted(w, Current(EnsureSection(w)), at, targets), w.block + n)
<1> DEFINE e == EnsureSection(w)
           s == Noted(w, Current(e), at, targets)
           q == Ended(e.sections, s)
           u == [e EXCEPT !.sections = q]
           v == [u EXCEPT !.block = w.block + n]
<1>1. WriterShape(e) /\ e.block = w.block
  BY EnsureFacts
<1>2. EmitNode(w, n, at, targets) = [e EXCEPT !.sections[Len(e.sections)] = s, !.block = @ + n]
  BY Zenon DEF EmitNode, Noted
<1>3. [e EXCEPT !.sections[Len(e.sections)] = s, !.block = @ + n]
      = [e EXCEPT !.sections = q, !.block = @ + n]
  BY Zenon DEF Ended
<1> HIDE DEF e, s, q
<1>4. u = [sections |-> q, open |-> e.open, base |-> e.base,
           bss |-> e.bss, block |-> e.block, explicit |-> e.explicit, symbols |-> e.symbols,
           aliases |-> e.aliases, decls |-> e.decls, allocs |-> e.allocs]
  BY <1>1 DEF WriterShape
<1> HIDE DEF u
<1>5. v = [sections |-> q, open |-> e.open, base |-> e.base,
           bss |-> e.bss, block |-> w.block + n, explicit |-> e.explicit, symbols |-> e.symbols,
           aliases |-> e.aliases, decls |-> e.decls, allocs |-> e.allocs]
  BY <1>4
<1>6. [e EXCEPT !.sections = q, !.block = @ + n] = [u EXCEPT !.block = u.block + n]
  BY DEF u
<1>7. [u EXCEPT !.block = u.block + n] = v
  BY <1>1, <1>4
<1> QED
  BY <1>2, <1>3, <1>5, <1>6, <1>7, Zenon DEF Changed, q, s, e
LEMMA EmitNodeFacts ==
    ASSUME NEW w, WriterShape(w), NEW n \in Nat, NEW at, NEW targets
    PROVE  LET v == EmitNode(w, n, at, targets)
           IN  /\ WriterShape(v) /\ GoesOn(w, v) /\ v.open /\ v.block = w.block + n
               /\ v.explicit = w.explicit /\ v.base = w.base /\ Total(v) = Total(w) + n
               /\ w.open => /\ Len(v.sections) = Len(w.sections)
                            /\ Current(v).code = Current(w).code
                            /\ Current(v).base = Current(w).base
                            /\ \A l \in Current(v).lines : l \in Current(w).lines \/ l.at = at
               /\ ~w.open => /\ Len(v.sections) = Len(w.sections) + 1
                             /\ Current(v).base = w.base
<1> DEFINE e == EnsureSection(w)
           s == Noted(w, Current(e), at, targets)
           b == w.block + n
           v == Changed(e, s, b)
<1>1. EmitNode(w, n, at, targets) = v
  BY EmitNodeIs
<1>b. b = w.block + n
  OBVIOUS
<1>2. /\ WriterShape(e) /\ e.open /\ GoesOn(w, e) /\ Total(e) = Total(w)
      /\ e.block = w.block /\ e.explicit = w.explicit /\ e.base = w.base
      /\ w.open => e = w
      /\ ~w.open => /\ Len(e.sections) = Len(w.sections) + 1
                    /\ e.sections[Len(e.sections)] = NewSection(w.base, w.bss)
  BY EnsureFacts
<1> HIDE DEF e
<1>3. SectionShape(Current(e)) /\ Current(e) = e.sections[Len(e.sections)]
  BY <1>2, CurrentFacts
<1>4. /\ SectionShape(s) /\ s.code = Current(e).code /\ s.base = Current(e).base
      /\ \A l \in s.lines : l \in Current(e).lines \/ l.at = at
  BY <1>3, NotedFacts
<1> HIDE DEF s
<1>5. w.block \in Nat /\ b \in Nat /\ Total(w) \in Nat /\ Current(e).code \in Nat
  BY <1>3, KeptFacts DEF WriterShape, SectionShape
<1> HIDE DEF b
<1>c. WriterShape(e) /\ e.open /\ SectionShape(s) /\ b \in Nat
  BY <1>2, <1>4, <1>5
<1>6. /\ WriterShape(v) /\ GoesOn(e, v)
      /\ Len(v.sections) = Len(e.sections) /\ v.sections[Len(e.sections)] = s
      /\ Total(v) = Total(e) - Current(e).code + s.code - e.block + b
  BY <1>c, ChangedFacts
<1>7. v.open = e.open /\ v.block = w.block + n /\ v.explicit = e.explicit /\ v.base = e.base
  BY <1>b, ChangedFields
<1> HIDE DEF v
<1>8. GoesOn(w, v)
  BY <1>2, <1>6, GoesOnTrans
<1>9. Total(v) = Total(w) + n
  <2>1. Total(e) = Total(w) /\ e.block = w.block /\ s.code = Current(e).code
    BY <1>2, <1>4
  <2>2. Total(v) = Total(e) - Current(e).code + s.code - e.block + (w.block + n)
    BY <1>6, <1>b
  <2> QED
    BY <2>1, <2>2, <1>5
<1>10. Current(v) = s
  BY <1>6 DEF Current
<1>12. ASSUME ~w.open PROVE Current(e).base = w.base
  BY <1>12, <1>2, <1>3 DEF NewSection
<1> QED
  BY <1>1, <1>2, <1>4, <1>6, <1>7, <1>8, <1>9, <1>10, <1>12

\* What a body has come to behind some of its nodes: all in one section.
InBody(w, v, sum) ==
    /\ WriterShape(v) /\ GoesOn(w, v) /\ v.open /\ v.explicit = w.explicit
    /\ sum \in Nat /\ v.block = w.block + sum /\ Total(v) = Total(w) + sum
    /\ Len(v.sections) = Len(w.sections) /\ Current(v).code = Current(w).code
    /\ \A l \in Current(v).lines : l \in Current(w).lines \/ l.at[1] = i

LEMMA EmitStepFacts ==
    ASSUME NEW w, WriterShape(w), w.open, NEW v, NEW sum, InBody(w, v, sum),
           Node.body \in Seq(BodyNodes), NEW k \in 1 .. Len(Node.body)
    PROVE  InBody(w, EmitStep(v, k), AddBytes(sum, Node.body[k]))
<1>1. Node.body[k] \in BodyNodes
  OBVIOUS
<1>2. CASE Node.body[k].kind = "bytes"
  <2> DEFINE x == Node.body[k]
             n == x.size
             targets == {Refer(i, r) : r \in x.refs}
             u == EmitNode(v, n, <<i, k>>, targets)
  <2>1. n \in Nat
    BY <1>1, <1>2 DEF BodyNodes
  <2>2. EmitStep(v, k) = u /\ AddBytes(sum, x) = sum + n
    BY <1>2 DEF EmitStep, AddBytes, BytesIn
  <2> HIDE DEF n, targets, x
  <2>3. /\ WriterShape(u) /\ GoesOn(v, u) /\ u.open /\ u.block = v.block + n
        /\ u.explicit = v.explicit /\ Total(u) = Total(v) + n
        /\ Len(u.sections) = Len(v.sections)
        /\ Current(u).code = Current(v).code
        /\ \A l \in Current(u).lines : l \in Current(v).lines \/ l.at = <<i, k>>
    BY <2>1, EmitNodeFacts DEF InBody
  <2> HIDE DEF u
  <2>4. GoesOn(w, u)
    BY <2>3, GoesOnTrans DEF InBody
  <2>5. \A l \in Current(u).lines : l \in Current(w).lines \/ l.at[1] = i
    <3>1. \A l : l.at = <<i, k>> => l.at[1] = i
      OBVIOUS
    <3> QED
      BY <2>3, <3>1 DEF InBody
  <2>6. w.block \in Nat /\ Total(w) \in Nat /\ sum \in Nat
    BY KeptFacts DEF InBody, WriterShape
  <2>7. InBody(w, u, sum + n)
    <3>1. sum + n \in Nat /\ u.block = w.block + (sum + n) /\ Total(u) = Total(w) + (sum + n)
      <4>1. v.block = w.block + sum /\ Total(v) = Total(w) + sum
        BY DEF InBody
      <4> QED
        BY <4>1, <2>1, <2>3, <2>6
    <3>2. /\ u.explicit = w.explicit /\ Len(u.sections) = Len(w.sections)
          /\ Current(u).code = Current(w).code
      BY <2>3 DEF InBody
    <3> QED
      BY <2>3, <2>4, <2>5, <3>1, <3>2 DEF InBody
  <2> QED
    BY <2>2, <2>7 DEF x
<1>3. CASE Node.body[k].kind # "bytes"
  <2>1. EmitStep(v, k) = v
    BY <1>3 DEF EmitStep
  <2>2. AddBytes(sum, Node.body[k]) = sum
    BY <1>3 DEF AddBytes, BytesIn, InBody
  <2> QED
    BY <2>1, <2>2
<1> QED
  BY <1>2, <1>3

\* The body of an alloc is emitted to the section that was opened for it.
LEMMA EmitBodyFacts ==
    ASSUME NEW w, WriterShape(w), w.open, IsAlloc(Node), Node.body \in Seq(BodyNodes)
    PROVE  InBody(w, EmitBody(w, Node), Emitted(Node))
<1> DEFINE body == Node.body
           n == Len(body)
           places == [k \in DOMAIN body |-> k]
<1>1. n \in Nat /\ Len(places) = n /\ \A k \in 1 .. n : places[k] = k
  OBVIOUS
<1>p. EmitBody(w, Node) = BodySteps!Left(w, places)
  BY BodyFold
<1>s. Emitted(Node) = BytesSteps!Left(0, body)
  BY BytesFold
<1> HIDE DEF places
<1>2. PICK run : BodySteps!IsRun(w, places, run) /\ BodySteps!Left(w, places) = run[n]
  BY <1>1, BodySteps!FoldIsRun
<1>3. PICK sums : BytesSteps!IsRun(0, body, sums) /\ BytesSteps!Left(0, body) = sums[n]
  BY <1>1, BytesSteps!FoldIsRun
<1> DEFINE D == {k \in 0 .. n : InBody(w, run[k], sums[k])}
<1>4. 0 \in D
  <2>1. run[0] = w /\ sums[0] = 0
    BY <1>2, <1>3 DEF BodySteps!IsRun, BytesSteps!IsRun
  <2>2. GoesOn(w, w)
    BY KeptFacts DEF GoesOn
  <2>4. w.block \in Nat /\ Total(w) \in Nat
    BY KeptFacts DEF WriterShape
  <2>3. InBody(w, w, 0)
    BY <2>2, <2>4 DEF InBody
  <2> QED
    BY <1>1, <2>1, <2>3
<1>5. ASSUME NEW k \in 1 .. n, k - 1 \in D PROVE k \in D
  <2>1. run[k] = EmitStep(run[k - 1], k)
    BY <1>1, <1>2 DEF BodySteps!IsRun
  <2>2. sums[k] = AddBytes(sums[k - 1], body[k])
    BY <1>3 DEF BytesSteps!IsRun
  <2>3. InBody(w, run[k - 1], sums[k - 1])
    BY <1>5
  <2>4. InBody(w, EmitStep(run[k - 1], k), AddBytes(sums[k - 1], body[k]))
    BY <2>3, EmitStepFacts
  <2> QED
    BY <1>1, <2>1, <2>2, <2>4
<1> HIDE DEF D
<1>6. n \in D
  BY <1>1, <1>4, <1>5, CodeSteps!UpFromZero
<1> QED
  BY <1>p, <1>s, <1>2, <1>3, <1>6 DEF D

\* A body's slot has room for the bytes it emits.
LEMMA EmittedFits ==
    ASSUME NEW x, IsAlloc(x), x.body \in Seq(BodyNodes)
    PROVE  /\ Emitted(x) \in Nat /\ SlotSize(x) \in Nat /\ SlotSize(x) > 0
           /\ Emitted(x) <= SlotSize(x)
<1> DEFINE body == x.body
           n == Len(body)
<1>1. n \in Nat
  OBVIOUS
<1>2. PICK run : LengthSteps!IsRun(0, body, run) /\ LengthSteps!Left(0, body) = run[n]
  BY <1>1, LengthSteps!FoldIsRun
<1>3. PICK sums : BytesSteps!IsRun(0, body, sums) /\ BytesSteps!Left(0, body) = sums[n]
  BY <1>1, BytesSteps!FoldIsRun
<1> DEFINE D == {k \in 0 .. n : sums[k] \in Nat /\ run[k] \in Nat /\ sums[k] <= run[k]}
<1>4. 0 \in D
  BY <1>1, <1>2, <1>3 DEF LengthSteps!IsRun, BytesSteps!IsRun
<1>5. ASSUME NEW k \in 1 .. n, k - 1 \in D PROVE k \in D
  <2>1. run[k] = run[k - 1] + Length(body[k]) /\ sums[k] = sums[k - 1] + BytesIn(body[k])
    BY <1>2, <1>3 DEF LengthSteps!IsRun, BytesSteps!IsRun, AddLength, AddBytes
  <2>2. body[k] \in BodyNodes
    OBVIOUS
  <2>3. Length(body[k]) \in Nat /\ BytesIn(body[k]) \in Nat /\ BytesIn(body[k]) <= Length(body[k])
    BY <2>2 DEF Length, BytesIn, BodyNodes
  <2> QED
    BY <1>5, <2>1, <2>3
<1> HIDE DEF D
<1>6. n \in D
  BY <1>1, <1>4, <1>5, CodeSteps!UpFromZero
<1>7. Emitted(x) = sums[n] /\ SizeOf(body) = run[n]
  BY <1>2, <1>3, BytesFold, LengthFold
<1> QED
  BY <1>6, <1>7 DEF D, SlotSize

-----------------------------------------------------------------------------
(* The inductive invariant.                                                *)

\* A pool's ranges as code generation hands them on: proper and apart.
DeclSound(d) ==
    /\ d.strategy \in Strategic
    /\ d.ranges \in SUBSET Ranges /\ NonEmpty(d.ranges) /\ Disjoint(d.ranges)

DeclsSound(q) == IsSeq(q) /\ \A k \in 1 .. Len(q) : DeclSound(q[k])

\* A request is that of a node, for the room the node's body takes.
RequestOf(nodes, a) ==
    \E j \in DOMAIN nodes :
        /\ IsAlloc(nodes[j]) /\ a.pool = nodes[j].pool /\ a.name = Plain(nodes[j].id)
        /\ a.size = SlotSize(nodes[j]) /\ a.pin = nodes[j].pin

\* Each request names a closed section: its body's alone, with room for it in
\* the slot, and not one that is dropped for being empty.
AllocsSound(sections, kept, allocs, nodes) ==
    /\ IsSeq(allocs)
    /\ \A k \in 1 .. Len(allocs) :
          LET a == allocs[k]
              s == sections[a.section]
          IN  /\ a.section \in 1 .. kept
              /\ s.code <= a.size
              /\ s.code = 0 => s.bss
              /\ \A l \in s.lines : Plain(nodes[l.at[1]].id) = a.name
              /\ RequestOf(nodes, a)
    /\ \A k, n \in 1 .. Len(allocs) : n # k => allocs[n].section # allocs[k].section

\* A module without *=, patches and allocs has one section, where it started.
Implicit(w) ==
    ~w.explicit =>
        /\ w.allocs = <<>> /\ w.base = Origin
        /\ ~w.open => Len(w.sections) = 0
        /\ w.open => Len(w.sections) = 1 /\ Current(w).base = Origin

\* The writer of a module whose first n nodes are emitted.
Emitting(w, n) ==
    /\ WriterShape(w)
    /\ ~w.open => w.block = 0
    /\ Total(w) = EmittedBy(SubSeq(source[m], 1, n))
    /\ AllocsSound(w.sections, Kept(w), w.allocs, source[m])
    /\ DeclsSound(w.decls)
    /\ Implicit(w)

\* The writer before anything is emitted.
Unused(w) ==
    /\ WriterShape(w) /\ w.sections = <<>> /\ w.allocs = <<>>
    /\ ~w.open /\ ~w.explicit /\ w.block = 0
    /\ DeclsSound(w.decls)

\* The slots of the first n nodes are as large as their bodies.
Measured(n) ==
    \A j \in 1 .. n : IsAlloc(source[m][j]) =>
        j \in DOMAIN sandbox /\ sandbox[j].size = SlotSize(source[m][j])

ObjectSound(o) ==
    LET x == objects[o]
    IN  /\ SectionsShape(x.sections)
        /\ CodeOf(x.sections) = EmittedBy(source[o])
        /\ AllocsSound(x.sections, Len(x.sections), x.allocs, source[o])
        /\ DeclsSound(x.decls)
        /\ x.relocatable \in BOOLEAN
        /\ x.relocatable =>
              /\ x.allocs = <<>> /\ Len(x.sections) <= 1
              /\ \A k \in 1 .. Len(x.sections) : x.sections[k].base = Origin

ObjectsSound ==
    /\ source \in Programs
    /\ IsSeq(objects) /\ Len(objects) <= Len(source)
    /\ \A o \in 1 .. Len(objects) : ObjectSound(o)

Compiling == phase \in Walks /\ m <= Len(source)

CompileSound ==
    Compiling =>
        /\ i \in 1 .. Len(source[m]) + 1
        /\ phase \in {"codegen", "pass1", "pass2", "export"} => Unused(writer)
        /\ phase = "pass1" => Measured(i - 1)
        /\ phase \in {"pass2", "export", "emit"} => Measured(Len(source[m]))
        /\ phase = "emit" => Emitting(writer, i - 1)

\* Only modules that place their sections themselves ask for slots.
SlotsSound ==
    \A x \in DOMAIN slots : x[1] \in 1 .. Len(objects) /\ ~objects[x[1]].relocatable

Relocated(s) == objects[linked[s].obj].relocatable

\* Relocatable modules fill the room from the base address to the running
\* offset, each behind the ones before it.
Placed ==
    /\ IsSeq(linked) /\ offset \in Nat
    /\ \A s \in 1 .. Len(linked) :
          /\ linked[s].obj \in 1 .. Len(objects)
          /\ Relocated(s) =>
                /\ linked[s].base \in Nat /\ linked[s].code \in Nat
                /\ linked[s].base + linked[s].code <= BaseAddress + offset
    /\ \A s, t \in 1 .. Len(linked) :
          s < t /\ Relocated(s) /\ Relocated(t) =>
              linked[s].base + linked[s].code <= linked[t].base

LinkSound ==
    /\ phase \notin Walks \cup {"failed"} => Len(objects) > 0
    /\ phase \in {"merge", "request", "ingest"} => i \in 1 .. Len(objects)
    /\ SlotsSound
    /\ Placed

LinkInv == ObjectsSound /\ CompileSound /\ LinkSound

\* The list of ranges of a pool the resolver knows: there is a first one.
PoolTaken(p) ==
    /\ p = [ranges |-> p.ranges, strategy |-> p.strategy, bss |-> p.bss]
    /\ p.ranges \in SUBSET Ranges /\ p.ranges # {} /\ IsFiniteSet(p.ranges)
    /\ NonEmpty(p.ranges) /\ Disjoint(p.ranges)

\* The allocs among the first n nodes name pools of the resolver.
PoolsKnown(n) ==
    \A j \in 1 .. n : IsAlloc(source[m][j]) => source[m][j].pool \in DOMAIN pools

\* A map all whose values are addresses.
Addresses(f) == \A x \in DOMAIN f : f[x] \in Nat

ResolverInv ==
    /\ here \in Nat /\ Addresses(labels) /\ Addresses(cursors)
    /\ \A p \in DOMAIN pools : PoolTaken(pools[p])
    /\ \A j \in DOMAIN sandbox : sandbox[j].base \in Nat
    /\ Compiling /\ phase = "codegen" => PoolsKnown(i - 1)
    /\ Compiling /\ phase # "codegen" => PoolsKnown(Len(source[m]))
-----------------------------------------------------------------------------
(* A module is emitted.                                                    *)

LEMMA NodeFacts ==
    ASSUME NEW x \in Nodes
    PROVE  /\ x.kind \in {"bytes", "ips", "res"} => x.size \in Nat
           /\ x.kind \in {"org", "ips"} => x.to \in Nat
           /\ IsAlloc(x) => x.body \in Seq(BodyNodes)
           /\ ~IsAlloc(x) /\ x.kind \notin {"bytes", "ips"} => Emitted(x) = 0
           /\ x.kind \in {"bytes", "ips"} => Emitted(x) = x.size
<1>1. /\ x.kind \in {"bytes", "ips", "res"} => x.size \in Nat
      /\ x.kind \in {"org", "ips"} => x.to \in Nat
  BY DEF Nodes, BodyNodes
<1>2. IsAlloc(x) => x.body \in Seq(BodyNodes)
  <2>1. ASSUME IsAlloc(x) PROVE x.body \in Seq(BodyNodes)
    <3> DEFINE B == Seq(BodyNodes)
    <3>1. \/ x \in [kind : {"alloc"}, pool : STRING, id : STRING, pin : Nat \cup {Floating}, body : B]
          \/ x \in [kind : {"at"}, pool : STRING, id : STRING, range : RangesTaken,
                    pin : {Floating}, body : B]
      BY <2>1 DEF Nodes, BodyNodes, IsAlloc
    <3> HIDE DEF B
    <3>2. x.body \in B
      BY <3>1
    <3> QED
      BY <3>2 DEF B
  <2> QED
    BY <2>1
<1>3. ~IsAlloc(x) => Emitted(x) = IF x.kind \in {"bytes", "ips"} THEN x.size ELSE 0
  BY DEF Emitted
<1>4. x.kind \in {"bytes", "ips"} => ~IsAlloc(x)
  BY DEF IsAlloc
<1> QED
  BY <1>1, <1>2, <1>3, <1>4

\* The node at hand.
LEMMA AtNode ==
    ASSUME ObjectsSound, Compiling, i \in 1 .. Len(source[m])
    PROVE  /\ source \in Seq(Seq(Nodes)) /\ m \in 1 .. Len(source) /\ Len(objects) \in Nat
           /\ source[m] \in Seq(Nodes) /\ IsSeq(source[m]) /\ Len(source[m]) \in Nat
           /\ Node \in Nodes
           /\ EmittedBy(SubSeq(source[m], 1, i)) = EmittedBy(SubSeq(source[m], 1, i - 1)) + Emitted(Node)
<1>1. source \in Seq(Seq(Nodes)) /\ IsSeq(objects)
  BY ProgramAssumption DEF ObjectsSound
<1>2. Len(objects) \in Nat /\ m <= Len(source)
  BY <1>1, SeqFacts DEF Compiling
<1>3. m \in 1 .. Len(source)
  BY <1>1, <1>2 DEF m
<1>4. source[m] \in Seq(Nodes)
  BY <1>1, <1>3
<1>5. IsSeq(source[m]) /\ Len(source[m]) \in Nat /\ Node \in Nodes
  BY <1>4 DEF IsSeq, Node
<1> DEFINE q == source[m]
<1>6. SubSeq(q, 1, i) = Append(SubSeq(q, 1, i - 1), q[i]) /\ IsSeq(SubSeq(q, 1, i - 1))
  <2>1. i - 1 \in 0 .. Len(q) /\ i \in 1 .. Len(q)
    BY <1>5
  <2> HIDE DEF q
  <2> QED
    BY <2>1, <1>5, PrefixFacts DEF q
<1>7. EmittedBy(SubSeq(q, 1, i)) = EmittedBy(SubSeq(q, 1, i - 1)) + Emitted(q[i])
  BY <1>6, EmittedAppend
<1> QED
  BY <1>1, <1>2, <1>3, <1>4, <1>5, <1>7 DEF Node

LEMMA AllocsGoOn ==
    ASSUME NEW w, NEW v, NEW nodes, WriterShape(w), WriterShape(v), GoesOn(w, v),
           AllocsSound(w.sections, Kept(w), w.allocs, nodes)
    PROVE  /\ AllocsSound(v.sections, Kept(w), v.allocs, nodes)
           /\ AllocsSound(v.sections, Kept(v), v.allocs, nodes)
<1> DEFINE x == w.allocs
<1>1. Kept(w) \in Nat /\ Kept(v) \in Nat /\ Kept(w) <= Kept(v) /\ v.allocs = x
      /\ \A k \in 1 .. Kept(w) : v.sections[k] = w.sections[k]
  BY KeptFacts DEF GoesOn
<1>2. /\ IsSeq(x)
      /\ \A k, n \in 1 .. Len(x) : n # k => x[n].section # x[k].section
  BY DEF AllocsSound
<1>3. ASSUME NEW k \in 1 .. Len(x)
      PROVE  /\ x[k].section \in 1 .. Kept(w) /\ x[k].section \in 1 .. Kept(v)
             /\ v.sections[x[k].section].code <= x[k].size
             /\ v.sections[x[k].section].code = 0 => v.sections[x[k].section].bss
             /\ \A l \in v.sections[x[k].section].lines : Plain(nodes[l.at[1]].id) = x[k].name
             /\ RequestOf(nodes, x[k])
  <2>1. /\ x[k].section \in 1 .. Kept(w)
        /\ w.sections[x[k].section].code <= x[k].size
        /\ w.sections[x[k].section].code = 0 => w.sections[x[k].section].bss
        /\ \A l \in w.sections[x[k].section].lines : Plain(nodes[l.at[1]].id) = x[k].name
        /\ RequestOf(nodes, x[k])
    BY <1>3 DEF AllocsSound
  <2>2. v.sections[x[k].section] = w.sections[x[k].section] /\ x[k].section \in 1 .. Kept(v)
    BY <1>1, <2>1
  <2> QED
    BY <2>1, <2>2
<1> HIDE DEF x
<1> QED
  BY <1>1, <1>2, <1>3 DEF AllocsSound

LEMMA EmitBytesSound ==
    ASSUME ObjectsSound, Compiling, i \in 1 .. Len(source[m]), Emitting(writer, i - 1),
           Node.kind = "bytes", NEW targets
    PROVE  Emitting(EmitNode(writer, Node.size, <<i, 0>>, targets), i)
<1> DEFINE w == writer
           n == Node.size
           v == EmitNode(w, n, <<i, 0>>, targets)
<1>1. n \in Nat /\ Emitted(Node) = n
  BY AtNode, NodeFacts
<1>2. WriterShape(w) /\ AllocsSound(w.sections, Kept(w), w.allocs, source[m]) /\ Implicit(w)
      /\ DeclsSound(w.decls)
      /\ Total(w) = EmittedBy(SubSeq(source[m], 1, i - 1))
  BY DEF Emitting
<1>w. w = writer
  OBVIOUS
<1> HIDE DEF w, n
<1>3. /\ WriterShape(v) /\ GoesOn(w, v) /\ v.open
      /\ v.explicit = w.explicit /\ v.base = w.base /\ Total(v) = Total(w) + n
      /\ w.open => /\ Len(v.sections) = Len(w.sections)
                   /\ Current(v).base = Current(w).base
      /\ ~w.open => /\ Len(v.sections) = Len(w.sections) + 1
                    /\ Current(v).base = w.base
  BY <1>1, <1>2, EmitNodeFacts
<1> HIDE DEF v
<1>4. AllocsSound(v.sections, Kept(v), v.allocs, source[m])
  BY <1>2, <1>3, AllocsGoOn
<1>5. Implicit(v)
  <2>1. ASSUME ~v.explicit
        PROVE  v.allocs = <<>> /\ v.base = Origin /\ Len(v.sections) = 1 /\ Current(v).base = Origin
    <3>1. /\ w.allocs = <<>> /\ w.base = Origin
          /\ ~w.open => Len(w.sections) = 0
          /\ w.open => Len(w.sections) = 1 /\ Current(w).base = Origin
      <4>1. ~w.explicit
        BY <2>1, <1>3
      <4> QED
        BY <4>1, <1>2 DEF Implicit
    <3>2. v.allocs = w.allocs
      BY <1>3 DEF GoesOn
    <3>3. CASE w.open
      BY <3>1, <3>2, <3>3, <1>3
    <3>4. CASE ~w.open
      <4>1. Len(v.sections) = Len(w.sections) + 1 /\ Current(v).base = w.base /\ v.base = w.base
        BY <3>4, <1>3
      <4>2. Len(w.sections) = 0 /\ w.allocs = <<>> /\ w.base = Origin
        BY <3>1, <3>4
      <4>3. Len(v.sections) = 1
        BY <4>1, <4>2
      <4> QED
        BY <4>1, <4>2, <4>3, <3>2
    <3> QED
      BY <3>3, <3>4
  <2> QED
    BY <2>1, <1>3 DEF Implicit
<1>6. Total(v) = EmittedBy(SubSeq(source[m], 1, i))
  BY <1>1, <1>2, <1>3, AtNode
<1>7. DeclsSound(v.decls)
  BY <1>2, <1>3 DEF GoesOn
<1> QED
  BY <1>3, <1>4, <1>5, <1>6, <1>7 DEF Emitting, v, w, n
LEMMA EmitOrgSound ==
    ASSUME ObjectsSound, Compiling, i \in 1 .. Len(source[m]), Emitting(writer, i - 1),
           Node.kind = "org"
    PROVE  Emitting(StartSection(Flush(writer), Node.to, TRUE, FALSE), i)
<1> DEFINE w == writer
           f == Flush(w)
           to == Node.to
           v == StartSection(f, to, TRUE, FALSE)
<1>1. Emitted(Node) = 0 /\ to \in Nat
  BY AtNode, NodeFacts DEF IsAlloc
<1>2. WriterShape(w) /\ AllocsSound(w.sections, Kept(w), w.allocs, source[m])
      /\ DeclsSound(w.decls)
      /\ Total(w) = EmittedBy(SubSeq(source[m], 1, i - 1))
  BY DEF Emitting
<1> HIDE DEF w
<1>3. WriterShape(f) /\ GoesOn(w, f) /\ f.block = 0 /\ Total(f) = Total(w)
  BY <1>2, FlushFacts
<1> HIDE DEF f, to
<1>4. WriterShape(v) /\ GoesOn(f, v) /\ v.block = 0 /\ Total(v) = Total(f) /\ v.explicit
  BY <1>1, <1>3, StartExplicit
<1> HIDE DEF v
<1>5. GoesOn(w, v)
  BY <1>2, <1>3, <1>4, GoesOnTrans
<1>6. AllocsSound(v.sections, Kept(v), v.allocs, source[m])
  BY <1>2, <1>4, <1>5, AllocsGoOn
<1>7. Total(v) = EmittedBy(SubSeq(source[m], 1, i))
  <2>1. Total(w) \in Nat
    BY <1>2, KeptFacts
  <2> QED
    BY <2>1, <1>1, <1>2, <1>3, <1>4, AtNode
<1>8. Implicit(v)
  BY <1>4 DEF Implicit
<1>9. DeclsSound(v.decls)
  BY <1>2, <1>5 DEF GoesOn
<1> QED
  BY <1>4, <1>6, <1>7, <1>8, <1>9 DEF Emitting, v, f, w, to

LEMMA EmitIpsSound ==
    ASSUME ObjectsSound, Compiling, i \in 1 .. Len(source[m]), Emitting(writer, i - 1),
           Node.kind = "ips"
    PROVE  Emitting(WriteBlock(StartSection(Flush(writer), Node.to, TRUE, FALSE), Node.size), i)
<1> DEFINE w == writer
           f == Flush(w)
           to == Node.to
           n == Node.size
           v == StartSection(f, to, TRUE, FALSE)
           u == Written(v, n, v.block)
<1>1. n \in Nat /\ Emitted(Node) = n /\ to \in Nat
  BY AtNode, NodeFacts
<1>2. WriterShape(w) /\ AllocsSound(w.sections, Kept(w), w.allocs, source[m])
      /\ DeclsSound(w.decls)
      /\ Total(w) = EmittedBy(SubSeq(source[m], 1, i - 1))
  BY DEF Emitting
<1> HIDE DEF w, n
<1>3. WriterShape(f) /\ GoesOn(w, f) /\ f.block = 0 /\ Total(f) = Total(w)
  BY <1>2, FlushFacts
<1> HIDE DEF f, to
<1>4. WriterShape(v) /\ GoesOn(f, v) /\ v.block = 0 /\ Total(v) = Total(f) /\ v.explicit
  BY <1>1, <1>3, StartExplicit
<1> HIDE DEF v
<1>5. WriteBlock(v, n) = u /\ v.block \in Nat
  BY <1>1, <1>4, WrittenIs
<1>6. /\ WriterShape(u) /\ GoesOn(v, u) /\ u.open /\ u.explicit = v.explicit
      /\ Total(u) = Total(v) + n - v.block + v.block
  BY <1>1, <1>4, <1>5, WrittenFacts
<1> HIDE DEF u
<1>7. GoesOn(w, u)
  <2>1. GoesOn(w, v)
    BY <1>2, <1>3, <1>4, GoesOnTrans
  <2> QED
    BY <2>1, <1>2, <1>4, <1>6, GoesOnTrans
<1>8. AllocsSound(u.sections, Kept(u), u.allocs, source[m])
  BY <1>2, <1>6, <1>7, AllocsGoOn
<1>9. Total(u) = EmittedBy(SubSeq(source[m], 1, i))
  <2>1. Total(w) \in Nat
    BY <1>2, KeptFacts
  <2>2. Total(u) = Total(w) + n
    BY <2>1, <1>1, <1>3, <1>4, <1>6
  <2> QED
    BY <2>2, <1>1, <1>2, AtNode
<1>10. Implicit(u)
  BY <1>4, <1>6 DEF Implicit
<1>d. DeclsSound(u.decls)
  BY <1>2, <1>7 DEF GoesOn
<1>11. Emitting(u, i)
  BY <1>6, <1>8, <1>9, <1>10, <1>d DEF Emitting
<1> QED
  BY <1>5, <1>11 DEF v, f, w, to, n

LEMMA EmitNothingSound ==
    ASSUME ObjectsSound, Compiling, i \in 1 .. Len(source[m]), Emitting(writer, i - 1),
           Node.kind \notin {"alloc", "at", "bytes", "org", "ips"}
    PROVE  Emitting(writer, i)
<1>1. Emitted(Node) = 0
  BY AtNode, NodeFacts DEF IsAlloc
<1>2. Total(writer) \in Nat
  BY KeptFacts DEF Emitting
<1>3. Total(writer) = EmittedBy(SubSeq(source[m], 1, i))
  BY <1>1, <1>2, AtNode DEF Emitting
<1> QED
  BY <1>3 DEF Emitting

\* Where the bytes of a module begin.
LEMMA StartSound ==
    ASSUME NEW w, Unused(w), IsSeq(source[m])
    PROVE  Emitting(StartSection(w, Origin, FALSE, FALSE), 0)
<1> DEFINE v == StartSection(w, Origin, FALSE, FALSE)
<1>1. WriterShape(w) /\ w.sections = <<>> /\ w.allocs = <<>> /\ ~w.open /\ w.block = 0
  BY DEF Unused
<1>2. WriterShape(v) /\ GoesOn(w, v) /\ ~v.open /\ v.base = Origin /\ v.block = 0
      /\ Total(v) = Total(w) /\ v.sections = Dropped(w)
  BY <1>1, StartImplicit, ProgramAssumption
<1> HIDE DEF v
<1>3. v.allocs = <<>> /\ v.sections = <<>>
  BY <1>1, <1>2 DEF GoesOn, Dropped
<1>4. AllocsSound(v.sections, Kept(v), v.allocs, source[m])
  <2>1. IsSeq(<<>>) /\ Len(<<>>) = 0
    BY DEF IsSeq
  <2> QED
    BY <1>3, <2>1 DEF AllocsSound
<1>5. Total(v) = EmittedBy(SubSeq(source[m], 1, 0))
  <2>1. Total(w) = 0
    BY <1>1, NoCode DEF Total
  <2>2. SubSeq(source[m], 1, 0) = <<>>
    BY PrefixFacts
  <2> QED
    BY <1>2, <2>1, <2>2, NothingEmitted
<1>6. Implicit(v)
  BY <1>2, <1>3 DEF Implicit
<1>7. DeclsSound(v.decls)
  BY <1>2 DEF GoesOn, Unused
<1> QED
  BY <1>2, <1>4, <1>5, <1>6, <1>7 DEF Emitting, v
\* One request more, for a section of its own.
LEMMA AllocMore ==
    ASSUME NEW sections, NEW n \in Nat, n > 0, NEW allocs, NEW nodes,
           AllocsSound(sections, n - 1, allocs, nodes),
           NEW a, a.section = n, sections[n].code <= a.size,
           sections[n].code = 0 => sections[n].bss,
           \A l \in sections[n].lines : Plain(nodes[l.at[1]].id) = a.name,
           RequestOf(nodes, a)
    PROVE  AllocsSound(sections, n, Append(allocs, a), nodes)
<1> DEFINE x == Append(allocs, a)
           Fine(b) == /\ sections[b.section].code <= b.size
                      /\ sections[b.section].code = 0 => sections[b.section].bss
                      /\ \A l \in sections[b.section].lines : Plain(nodes[l.at[1]].id) = b.name
                      /\ RequestOf(nodes, b)
<1>1. /\ IsSeq(allocs)
      /\ \A k \in 1 .. Len(allocs) : allocs[k].section \in 1 .. n - 1 /\ Fine(allocs[k])
      /\ \A k, j \in 1 .. Len(allocs) : j # k => allocs[j].section # allocs[k].section
  BY DEF AllocsSound
<1>2. Fine(a)
  OBVIOUS
<1>3. Len(allocs) \in Nat
  BY <1>1, SeqFacts
<1>4. /\ IsSeq(x) /\ Len(x) = Len(allocs) + 1 /\ x[Len(allocs) + 1] = a
      /\ \A k \in 1 .. Len(allocs) : x[k] = allocs[k]
  BY <1>1, AppendFacts
<1> HIDE DEF x, Fine
<1>5. ASSUME NEW k \in 1 .. Len(x)
      PROVE  /\ x[k].section \in 1 .. n /\ Fine(x[k])
             /\ k <= Len(allocs) => x[k].section < n
             /\ k > Len(allocs) => k = Len(allocs) + 1 /\ x[k].section = n
  <2>1. CASE k \in 1 .. Len(allocs)
    <3>1. x[k] = allocs[k] /\ allocs[k].section \in 1 .. n - 1 /\ Fine(allocs[k])
      BY <1>1, <1>4, <2>1
    <3> QED
      BY <3>1, <2>1, <1>3
  <2>2. CASE k = Len(allocs) + 1
    BY <1>2, <1>3, <1>4, <2>2
  <2> QED
    BY <1>3, <1>4, <2>1, <2>2
<1>6. ASSUME NEW k \in 1 .. Len(x), NEW j \in 1 .. Len(x), j # k
      PROVE  x[j].section # x[k].section
  <2>1. CASE k <= Len(allocs) /\ j <= Len(allocs)
    <3>1. k \in 1 .. Len(allocs) /\ j \in 1 .. Len(allocs)
      BY <1>3, <2>1
    <3>2. x[k] = allocs[k] /\ x[j] = allocs[j]
      BY <1>4, <3>1
    <3>3. allocs[j].section # allocs[k].section
      BY <1>1, <1>6, <3>1
    <3> QED
      BY <3>2, <3>3
  <2>2. CASE k <= Len(allocs) /\ j > Len(allocs)
    <3>1. x[k].section < n /\ x[j].section = n /\ x[k].section \in 1 .. n
      BY <1>5, <2>2
    <3> QED
      BY <3>1
  <2>3. CASE k > Len(allocs) /\ j <= Len(allocs)
    <3>1. x[j].section < n /\ x[k].section = n /\ x[j].section \in 1 .. n
      BY <1>5, <2>3
    <3> QED
      BY <3>1
  <2>4. CASE k > Len(allocs) /\ j > Len(allocs)
    BY <1>5, <1>6, <2>4
  <2>5. k \in Nat /\ j \in Nat
    BY <1>3, <1>4
  <2> QED
    BY <1>3, <2>1, <2>2, <2>3, <2>4, <2>5
<1>7. \A k \in 1 .. Len(x) : x[k].section \in 1 .. n /\ Fine(x[k])
  BY <1>5
<1> QED
  BY <1>4, <1>6, <1>7 DEF AllocsSound, Fine, x

\* The body's section says whether it has bytes.
Marked(s) == [s EXCEPT !.bss = ~(s.code > 0)]

LEMMA MarkedFacts ==
    ASSUME NEW s, SectionShape(s)
    PROVE  /\ SectionShape(Marked(s)) /\ Marked(s).code = s.code /\ Marked(s).lines = s.lines
           /\ Marked(s).bss \/ Marked(s).code # 0
<1> DEFINE b == ~(s.code > 0)
<1>1. s = [base |-> s.base, bss |-> s.bss, code |-> s.code, lines |-> s.lines, relocs |-> s.relocs]
      /\ s.code \in Nat
  BY DEF SectionShape
<1>2. b \in BOOLEAN /\ (b \/ s.code # 0)
  BY <1>1
<1>3. Marked(s) = [s EXCEPT !.bss = b]
  BY DEF Marked
<1> HIDE DEF b
<1>4. Marked(s) = [base |-> s.base, bss |-> b, code |-> s.code, lines |-> s.lines, relocs |-> s.relocs]
  BY <1>1, <1>3
<1> QED
  BY <1>1, <1>2, <1>4 DEF SectionShape

LEMMA OtherSections ==
    ASSUME NEW w, WriterShape(w), NEW q
    PROVE  [w EXCEPT !.sections = q]
           = [sections |-> q, open |-> w.open, base |-> w.base, bss |-> w.bss,
              block |-> w.block, explicit |-> w.explicit, symbols |-> w.symbols,
              aliases |-> w.aliases, decls |-> w.decls, allocs |-> w.allocs]
BY DEF WriterShape

LEMMA MarkedIs ==
    ASSUME NEW w, WriterShape(w)
    PROVE  [w EXCEPT !.sections[Len(w.sections)].bss = ~(w.sections[Len(w.sections)].code > 0)]
           = Changed(w, Marked(Current(w)), w.block)
<1> DEFINE s == Marked(Current(w))
           q == Ended(w.sections, s)
           v == [w EXCEPT !.sections = q]
<1>1. [w EXCEPT !.sections[Len(w.sections)].bss = ~(w.sections[Len(w.sections)].code > 0)] = v
  BY DEF Marked, Ended, Current
<1> HIDE DEF s, q
<1>2. v = [sections |-> q, open |-> w.open, base |-> w.base, bss |-> w.bss,
           block |-> w.block, explicit |-> w.explicit, symbols |-> w.symbols,
           aliases |-> w.aliases, decls |-> w.decls, allocs |-> w.allocs]
  BY OtherSections
<1> QED
  BY <1>1, <1>2, Zenon DEF Changed, q, s
LEMMA OtherAllocs ==
    ASSUME NEW w, WriterShape(w), NEW x
    PROVE  LET v == [w EXCEPT !.allocs = x]
           IN  /\ WriterShape(v) /\ v.allocs = x /\ v.sections = w.sections /\ v.open = w.open
               /\ v.block = w.block /\ v.explicit = w.explicit /\ v.decls = w.decls
<1> DEFINE v == [w EXCEPT !.allocs = x]
<1>1. v = [sections |-> w.sections, open |-> w.open, base |-> w.base, bss |-> w.bss,
           block |-> w.block, explicit |-> w.explicit, symbols |-> w.symbols,
           aliases |-> w.aliases, decls |-> w.decls, allocs |-> x]
  BY DEF WriterShape
<1> HIDE DEF v
<1>2. /\ v.allocs = x /\ v.sections = w.sections /\ v.open = w.open /\ v.bss = w.bss /\ v.base = w.base
      /\ v.block = w.block /\ v.explicit = w.explicit /\ v.decls = w.decls
  BY <1>1
<1>3. v = [sections |-> v.sections, open |-> v.open, base |-> v.base, bss |-> v.bss,
           block |-> v.block, explicit |-> v.explicit, symbols |-> v.symbols,
           aliases |-> v.aliases, decls |-> v.decls, allocs |-> v.allocs]
  BY <1>1
<1>4. /\ SectionsShape(w.sections) /\ w.open \in BOOLEAN /\ w.bss \in BOOLEAN
      /\ w.explicit \in BOOLEAN /\ w.block \in Nat /\ w.base \in Nat /\ (w.open => Len(w.sections) > 0)
  BY DEF WriterShape
<1>5. WriterShape(v)
  <2>1. /\ SectionsShape(v.sections) /\ v.open \in BOOLEAN /\ v.bss \in BOOLEAN
        /\ v.explicit \in BOOLEAN /\ v.block \in Nat /\ v.base \in Nat /\ (v.open => Len(v.sections) > 0)
    BY <1>2, <1>4
  <2> QED
    BY <2>1, <1>3, Zenon DEF WriterShape
<1> QED
  BY <1>2, <1>5 DEF v

\* The body of an alloc is emitted to a section of its own.
LEMMA AllocBodySound ==
    ASSUME NEW w, WriterShape(w), IsAlloc(Node), Node.body \in Seq(BodyNodes),
           NEW base \in Nat
    PROVE  LET opened == StartSection(Flush(w), base, TRUE, TRUE)
               full == Flush(EmitBody(opened, Node))
           IN  /\ WriterShape(full) /\ full.open /\ full.block = 0 /\ full.explicit
               /\ GoesOn(w, full) /\ Total(full) = Total(w) + Emitted(Node)
               /\ Current(full).code = Emitted(Node)
               /\ \A l \in Current(full).lines : l.at[1] = i
<1> DEFINE f == Flush(w)
           v == StartSection(f, base, TRUE, TRUE)
           b == EmitBody(v, Node)
           full == Flush(b)
<1>1. WriterShape(f) /\ GoesOn(w, f) /\ f.block = 0 /\ Total(f) = Total(w)
  BY FlushFacts
<1> HIDE DEF f
<1>2. /\ WriterShape(v) /\ GoesOn(f, v) /\ v.block = f.block /\ Total(v) = Total(f)
      /\ v.explicit = TRUE /\ v.open /\ Current(v) = NewSection(base, TRUE)
  BY <1>1, StartAlloc
<1> HIDE DEF v
<1>3. InBody(v, b, Emitted(Node))
  BY <1>2, EmitBodyFacts
<1> HIDE DEF b
<1>4. /\ WriterShape(b) /\ GoesOn(v, b) /\ b.open /\ b.explicit = v.explicit
      /\ Emitted(Node) \in Nat /\ b.block = v.block + Emitted(Node)
      /\ Total(b) = Total(v) + Emitted(Node) /\ Current(b).code = Current(v).code
      /\ \A l \in Current(b).lines : l \in Current(v).lines \/ l.at[1] = i
  BY <1>3 DEF InBody
<1>5. /\ WriterShape(full) /\ GoesOn(b, full) /\ full.block = 0
      /\ full.explicit = b.explicit /\ Total(full) = Total(b)
      /\ full.open /\ Current(full) = Grown(Current(b), b.block)
  BY <1>4, FlushFacts
<1> HIDE DEF full
<1>6. SectionShape(Current(b)) /\ b.block \in Nat
  BY <1>4, CurrentFacts DEF WriterShape
<1>7. Current(full).code = Current(b).code + b.block /\ Current(full).lines = Current(b).lines
  BY <1>5, <1>6, GrownFacts
<1>8. Current(v).code = 0 /\ Current(v).lines = {}
  BY <1>2 DEF NewSection
<1>9. Current(full).code = Emitted(Node)
  <2>1. b.block = 0 + Emitted(Node) /\ Current(b).code = 0
    BY <1>1, <1>2, <1>4, <1>8
  <2> QED
    BY <2>1, <1>4, <1>7
<1>10. \A l \in Current(full).lines : l.at[1] = i
  BY <1>4, <1>7, <1>8
<1>11. GoesOn(w, full)
  <2>1. GoesOn(w, v)
    BY <1>1, <1>2, GoesOnTrans
  <2>2. GoesOn(w, b)
    BY <2>1, <1>2, <1>4, GoesOnTrans
  <2> QED
    BY <2>2, <1>4, <1>5, GoesOnTrans
<1>12. full.explicit
  BY <1>2, <1>4, <1>5
<1> QED
  BY <1>1, <1>2, <1>4, <1>5, <1>9, <1>10, <1>11, <1>12 DEF full, b, v, f

\* It stays there, and the next section is opened where the module was.
LEMMA CloseAllocSound ==
    ASSUME NEW full, WriterShape(full), full.open, full.block = 0, full.explicit,
           NEW base \in Nat
    PROVE  LET marked == [full EXCEPT !.sections[Len(full.sections)].bss
                                          = ~(full.sections[Len(full.sections)].code > 0)]
               after == StartSection(marked, base, FALSE, FALSE)
           IN  /\ WriterShape(after) /\ ~after.open /\ after.block = 0 /\ after.explicit
               /\ GoesOn(full, after) /\ Total(after) = Total(full)
               /\ Len(after.sections) = Len(full.sections) /\ Len(full.sections) \in Nat
               /\ Len(full.sections) > 0 /\ Kept(full) = Len(full.sections) - 1
               /\ after.sections[Len(full.sections)] = Marked(Current(full))
<1> DEFINE s == Marked(Current(full))
           marked == Changed(full, s, full.block)
           after == StartSection(marked, base, FALSE, FALSE)
           n == Len(full.sections)
<1>1. [full EXCEPT !.sections[Len(full.sections)].bss
          = ~(full.sections[Len(full.sections)].code > 0)] = marked
  BY MarkedIs
<1>2. SectionShape(Current(full)) /\ Len(full.sections) \in Nat /\ Len(full.sections) > 0
  BY CurrentFacts, KeptFacts DEF WriterShape
<1>3. SectionShape(s) /\ s.code = Current(full).code /\ (s.bss \/ s.code # 0)
  BY <1>2, MarkedFacts
<1> HIDE DEF s
<1>4. full.block \in Nat
  BY DEF WriterShape
<1>5. /\ WriterShape(marked) /\ GoesOn(full, marked)
      /\ Len(marked.sections) = n /\ marked.sections[n] = s
      /\ Total(marked) = Total(full) - Current(full).code + s.code - full.block + full.block
  BY <1>3, <1>4, ChangedFacts
<1>6. marked.block = full.block /\ marked.explicit = full.explicit
  <2>1. marked.block = full.block
    BY DEF Changed
  <2>2. marked.explicit = full.explicit
    BY ChangedFields, Zenon
  <2> QED
    BY <2>1, <2>2, Zenon
<1> HIDE DEF marked
<1>7. /\ WriterShape(after) /\ GoesOn(marked, after) /\ after.block = marked.block
      /\ Total(after) = Total(marked) /\ after.explicit = marked.explicit /\ ~after.open
      /\ after.sections = Dropped(marked)
  BY <1>5, StartImplicit
<1> HIDE DEF after
<1>8. Current(marked) = s
  BY <1>5 DEF Current
<1>9. after.sections = marked.sections
  BY <1>3, <1>5, <1>7, <1>8, DroppedFacts
<1>10. GoesOn(full, after)
  BY <1>5, <1>7, GoesOnTrans
<1>11. Total(after) = Total(full)
  <2>1. Total(full) \in Nat /\ Current(full).code \in Nat
    BY <1>2, KeptFacts DEF SectionShape
  <2> QED
    BY <2>1, <1>3, <1>4, <1>5, <1>7
<1>12. Len(after.sections) = n /\ after.sections[n] = s
  BY <1>5, <1>9
<1>13. Kept(full) = n - 1
  BY DEF Kept
<1>14. after.block = 0 /\ after.explicit
  BY <1>6, <1>7
<1> QED
  BY <1>1, <1>2, <1>7, <1>10, <1>11, <1>12, <1>13, <1>14 DEF after, s
LEMMA EmitAllocSound ==
    ASSUME ObjectsSound, Compiling, i \in 1 .. Len(source[m]), Emitting(writer, i - 1),
           IsAlloc(Node), sandbox[i].size = SlotSize(Node), NEW base \in Nat, NEW later \in Nat
    PROVE  LET opened == StartSection(Flush(writer), base, TRUE, TRUE)
               full == Flush(EmitBody(opened, Node))
               marked == [full EXCEPT !.sections[Len(full.sections)].bss
                                          = ~(full.sections[Len(full.sections)].code > 0)]
               after == StartSection(marked, later, FALSE, FALSE)
           IN  Emitting([after EXCEPT !.allocs = Append(@,
                           [pool |-> Node.pool, name |-> Plain(Node.id),
                            section |-> Len(after.sections), size |-> sandbox[i].size,
                            pin |-> Node.pin])], i)
<1> DEFINE w == writer
           full == Flush(EmitBody(StartSection(Flush(w), base, TRUE, TRUE), Node))
           marked == [full EXCEPT !.sections[Len(full.sections)].bss
                                      = ~(full.sections[Len(full.sections)].code > 0)]
           after == StartSection(marked, later, FALSE, FALSE)
           n == Len(full.sections)
           a == [pool |-> Node.pool, name |-> Plain(Node.id), section |-> Len(after.sections),
                 size |-> sandbox[i].size, pin |-> Node.pin]
           x == Append(after.allocs, a)
           v == [after EXCEPT !.allocs = x]
<1>1. /\ Node.body \in Seq(BodyNodes) /\ Emitted(Node) \in Nat
      /\ Emitted(Node) <= SlotSize(Node)
      /\ EmittedBy(SubSeq(source[m], 1, i)) = EmittedBy(SubSeq(source[m], 1, i - 1)) + Emitted(Node)
  BY AtNode, NodeFacts, EmittedFits
<1>2. WriterShape(w) /\ AllocsSound(w.sections, Kept(w), w.allocs, source[m])
      /\ DeclsSound(w.decls)
      /\ Total(w) = EmittedBy(SubSeq(source[m], 1, i - 1))
  BY DEF Emitting
<1> HIDE DEF w
<1>3. /\ WriterShape(full) /\ full.open /\ full.block = 0 /\ full.explicit
      /\ GoesOn(w, full) /\ Total(full) = Total(w) + Emitted(Node)
      /\ Current(full).code = Emitted(Node)
      /\ \A l \in Current(full).lines : l.at[1] = i
  BY <1>1, <1>2, AllocBodySound
<1> HIDE DEF full
<1>4. /\ WriterShape(after) /\ ~after.open /\ after.block = 0 /\ after.explicit
      /\ GoesOn(full, after) /\ Total(after) = Total(full)
      /\ Len(after.sections) = n /\ n \in Nat
      /\ n > 0 /\ Kept(full) = n - 1
      /\ after.sections[n] = Marked(Current(full))
  BY <1>3, CloseAllocSound
<1> HIDE DEF after
<1>5. AllocsSound(after.sections, n - 1, after.allocs, source[m])
  <2>1. AllocsSound(full.sections, Kept(full), full.allocs, source[m])
    BY <1>2, <1>3, AllocsGoOn
  <2>2. AllocsSound(after.sections, Kept(full), after.allocs, source[m])
    BY <1>3, <1>4, <2>1, AllocsGoOn
  <2> QED
    BY <1>4, <2>2
<1>6. /\ after.sections[n].code = Emitted(Node)
      /\ after.sections[n].lines = Current(full).lines
      /\ after.sections[n].bss \/ after.sections[n].code # 0
  <2>1. SectionShape(Current(full))
    BY <1>3, CurrentFacts
  <2> QED
    BY <2>1, <1>3, <1>4, MarkedFacts
<1>7. a.section = n /\ a.size = SlotSize(Node) /\ a.name = Plain(source[m][i].id)
      /\ a.pool = source[m][i].pool /\ a.pin = source[m][i].pin
  BY <1>4 DEF Node
<1>r. RequestOf(source[m], a)
  <2>1. i \in DOMAIN source[m]
    BY AtNode
  <2> HIDE DEF a
  <2> QED
    BY <2>1, <1>7 DEF RequestOf, Node
<1> HIDE DEF a, n
<1>8. AllocsSound(after.sections, n, x, source[m])
  <2>1. after.sections[n].code <= a.size
    BY <1>1, <1>6, <1>7
  <2>2. \A l \in after.sections[n].lines : Plain(source[m][l.at[1]].id) = a.name
    BY <1>3, <1>6, <1>7
  <2>3. after.sections[n].code = 0 => after.sections[n].bss
    BY <1>6
  <2> QED
    BY <1>4, <1>5, <1>7, <1>r, <2>1, <2>2, <2>3, AllocMore
<1> HIDE DEF x
<1>9. /\ WriterShape(v) /\ v.allocs = x /\ v.sections = after.sections /\ v.open = after.open
      /\ v.block = after.block /\ v.explicit = after.explicit /\ v.decls = after.decls
  BY <1>4, OtherAllocs
<1> HIDE DEF v
<1>10. Total(v) = EmittedBy(SubSeq(source[m], 1, i))
  <2>1. Total(v) = Total(after)
    BY <1>9 DEF Total
  <2> QED
    BY <2>1, <1>1, <1>2, <1>3, <1>4
<1>11. AllocsSound(v.sections, Kept(v), v.allocs, source[m])
  <2>1. Kept(v) = n
    BY <1>4, <1>9 DEF Kept
  <2> QED
    BY <2>1, <1>8, <1>9
<1>12. Implicit(v)
  BY <1>4, <1>9 DEF Implicit
<1>13. v.block = 0
  BY <1>4, <1>9
<1>d. DeclsSound(v.decls)
  BY <1>2, <1>3, <1>4, <1>9 DEF GoesOn
<1>14. Emitting(v, i)
  BY <1>9, <1>10, <1>11, <1>12, <1>13, <1>d DEF Emitting
<1> QED
  BY <1>14, Zenon DEF v, x, a, after, marked, full, w

\* What is left when the writer ends: nothing that is needed was dropped.
LEMMA ObjectOfSound ==
    ASSUME NEW w, WriterShape(w), w.block = 0, NEW nodes,
           AllocsSound(w.sections, Kept(w), w.allocs, nodes)
    PROVE  LET x == ObjectOf(w)
           IN  /\ SectionsShape(x.sections) /\ CodeOf(x.sections) = Total(w)
               /\ AllocsSound(x.sections, Len(x.sections), x.allocs, nodes)
               /\ x.relocatable = ~w.explicit /\ x.allocs = w.allocs /\ x.decls = w.decls
               /\ Len(x.sections) <= Len(w.sections)
               /\ \A k \in 1 .. Len(x.sections) : x.sections[k] = w.sections[k]
<1> DEFINE x == ObjectOf(w)
           r == w.sections
           n == Len(r)
           empty == n > 0 /\ Current(w).code = 0 /\ ~Current(w).bss
           q == x.sections
<1>1. /\ x.sections = IF empty THEN SubSeq(r, 1, n - 1) ELSE r
      /\ x.relocatable = ~w.explicit /\ x.allocs = w.allocs /\ x.decls = w.decls
  BY DEF ObjectOf, Earlier
<1>2. /\ SectionsShape(r) /\ IsSeq(r) /\ n \in Nat /\ CodeOf(r) \in Nat /\ Total(w) = CodeOf(r)
      /\ Kept(w) \in 0 .. n
      /\ \A k \in 1 .. n : r[k].code \in Nat
  BY KeptFacts DEF WriterShape, SectionsShape, Total
<1>c. Current(w) = r[n]
  BY DEF Current
<1>r. r = w.sections
  OBVIOUS
<1> HIDE DEF x, r
<1>3. /\ SectionsShape(q) /\ CodeOf(q) = Total(w) /\ Len(q) \in Nat /\ Len(q) <= n
      /\ \A k \in 1 .. Len(q) : q[k] = r[k]
      /\ \A k \in 1 .. n : k > Len(q) => r[k].code = 0 /\ ~r[k].bss
  <2>1. CASE empty
    <3>1. q = SubSeq(r, 1, n - 1)
      BY <1>1, <2>1
    <3>2. CodeOf(q) = CodeOf(r) - r[n].code
      BY <1>2, <2>1, <3>1, CodeChange
    <3>3. IsSeq(q) /\ Len(q) = n - 1 /\ \A k \in 1 .. n - 1 : q[k] = r[k]
      <4> DEFINE j == n - 1
      <4>1. j \in 0 .. Len(r) /\ IsSeq(r)
        BY <1>2, <2>1
      <4>2. q = SubSeq(r, 1, j)
        BY <3>1
      <4> HIDE DEF j, q
      <4>3. /\ IsSeq(SubSeq(r, 1, j)) /\ Len(SubSeq(r, 1, j)) = j
            /\ \A k \in 1 .. j : SubSeq(r, 1, j)[k] = r[k]
        BY <4>1, PrefixFacts
      <4>4. IsSeq(q) /\ Len(q) = j /\ \A k \in 1 .. j : q[k] = r[k]
        BY <4>2, <4>3
      <4> QED
        BY <4>4 DEF j
    <3>4. SectionsShape(q)
      BY <1>2, <2>1, <3>3 DEF SectionsShape
    <3>5. r[n].code = 0 /\ ~r[n].bss
      BY <2>1, <1>c
    <3>6. CodeOf(q) = Total(w)
      BY <1>2, <3>2, <3>5
    <3>7. \A k \in 1 .. n : k > Len(q) => k = n
      BY <1>2, <2>1, <3>3
    <3> QED
      BY <1>2, <2>1, <3>3, <3>4, <3>5, <3>6, <3>7
  <2>2. CASE ~empty
    <3>1. q = r
      BY <1>1, <2>2
    <3> QED
      BY <1>2, <3>1
  <2> QED
    BY <2>1, <2>2
<1> HIDE DEF q, n
<1>4. AllocsSound(q, Len(q), w.allocs, nodes)
  <2> DEFINE y == w.allocs
  <2>1. /\ IsSeq(y)
        /\ \A k, j \in 1 .. Len(y) : j # k => y[j].section # y[k].section
    BY DEF AllocsSound
  <2>2. ASSUME NEW k \in 1 .. Len(y)
        PROVE  /\ y[k].section \in 1 .. Len(q)
               /\ q[y[k].section].code <= y[k].size
               /\ q[y[k].section].code = 0 => q[y[k].section].bss
               /\ \A l \in q[y[k].section].lines : Plain(nodes[l.at[1]].id) = y[k].name
               /\ RequestOf(nodes, y[k])
    <3>1. /\ y[k].section \in 1 .. Kept(w)
          /\ r[y[k].section].code <= y[k].size
          /\ r[y[k].section].code = 0 => r[y[k].section].bss
          /\ \A l \in r[y[k].section].lines : Plain(nodes[l.at[1]].id) = y[k].name
          /\ RequestOf(nodes, y[k])
      BY <2>2 DEF AllocsSound, r
    <3>2. y[k].section \in 1 .. n
      BY <3>1, <1>2
    <3>3. y[k].section \in 1 .. Len(q)
      BY <3>1, <3>2, <1>2, <1>3
    <3>4. q[y[k].section] = r[y[k].section]
      BY <3>3, <1>3
    <3> QED
      BY <3>1, <3>3, <3>4
  <2> HIDE DEF y
  <2>3. AllocsSound(q, Len(q), y, nodes)
    BY <2>1, <2>2 DEF AllocsSound
  <2> QED
    BY <2>3 DEF y
<1> QED
  BY <1>1, <1>3, <1>4, <1>r DEF q, x, n
\* The object file of a module whose nodes are all emitted.
LEMMA FinishSound ==
    ASSUME NEW w, NEW n, Emitting(w, n)
    PROVE  LET x == ObjectOf(Flush(w))
           IN  /\ SectionsShape(x.sections)
               /\ CodeOf(x.sections) = EmittedBy(SubSeq(source[m], 1, n))
               /\ AllocsSound(x.sections, Len(x.sections), x.allocs, source[m])
               /\ DeclsSound(x.decls)
               /\ x.relocatable \in BOOLEAN
               /\ x.relocatable =>
                     /\ x.allocs = <<>> /\ Len(x.sections) <= 1
                     /\ \A k \in 1 .. Len(x.sections) : x.sections[k].base = Origin
<1> DEFINE f == Flush(w)
           x == ObjectOf(f)
<1>1. /\ WriterShape(w) /\ (~w.open => w.block = 0) /\ Implicit(w)
      /\ Total(w) = EmittedBy(SubSeq(source[m], 1, n))
      /\ AllocsSound(w.sections, Kept(w), w.allocs, source[m])
      /\ DeclsSound(w.decls)
  BY DEF Emitting
<1>2. /\ WriterShape(f) /\ GoesOn(w, f) /\ f.block = 0
      /\ f.explicit = w.explicit /\ Total(f) = Total(w)
      /\ w.open => Len(f.sections) = Len(w.sections) /\ Current(f) = Grown(Current(w), w.block)
      /\ w.block = 0 => f = w
  BY <1>1, FlushFacts
<1> HIDE DEF f
<1>3. AllocsSound(f.sections, Kept(f), f.allocs, source[m])
  BY <1>1, <1>2, AllocsGoOn
<1>4. /\ SectionsShape(x.sections) /\ CodeOf(x.sections) = Total(f)
      /\ AllocsSound(x.sections, Len(x.sections), x.allocs, source[m])
      /\ x.relocatable = ~f.explicit /\ x.allocs = f.allocs /\ x.decls = f.decls
      /\ Len(x.sections) <= Len(f.sections)
      /\ \A k \in 1 .. Len(x.sections) : x.sections[k] = f.sections[k]
  BY <1>2, <1>3, ObjectOfSound
<1> HIDE DEF x
<1>5. w.explicit \in BOOLEAN /\ w.open \in BOOLEAN /\ w.block \in Nat
  BY <1>1 DEF WriterShape
<1>6. ASSUME ~w.explicit
      PROVE  /\ x.allocs = <<>> /\ Len(x.sections) <= 1
             /\ \A k \in 1 .. Len(x.sections) : x.sections[k].base = Origin
  <2>1. x.allocs = <<>>
    BY <1>1, <1>2, <1>4, <1>6 DEF Implicit, GoesOn
  <2>2. Len(x.sections) \in Nat
    BY <1>4, SeqFacts DEF SectionsShape
  <2>3. CASE w.open
    <3>1. Len(w.sections) = 1 /\ Current(w).base = Origin
      BY <1>1, <1>6, <2>3 DEF Implicit
    <3>2. Len(f.sections) = 1
      BY <1>2, <2>3, <3>1
    <3>3. Current(f) = f.sections[1]
      BY <3>2 DEF Current
    <3>4. SectionShape(Current(w))
      BY <1>1, <2>3, CurrentFacts
    <3>5. Current(f).base = Origin
      BY <3>1, <3>4, <1>2, <1>5, <2>3, GrownFacts
    <3>6. ASSUME NEW k \in 1 .. Len(x.sections) PROVE x.sections[k].base = Origin
      <4>1. k = 1 /\ x.sections[k] = f.sections[k]
        BY <3>2, <1>4, <2>2
      <4> QED
        BY <4>1, <3>3, <3>5
    <3> QED
      BY <2>1, <3>2, <3>6, <1>4
  <2>4. CASE ~w.open
    <3>1. f = w /\ Len(w.sections) = 0
      BY <1>1, <1>2, <1>6, <2>4 DEF Implicit
    <3>2. Len(x.sections) <= 0
      BY <3>1, <1>4
    <3> QED
      BY <2>1, <2>2, <3>2
  <2> QED
    BY <2>3, <2>4, <1>5
<1>7. x.relocatable = ~w.explicit
  BY <1>2, <1>4
<1>8. CodeOf(x.sections) = EmittedBy(SubSeq(source[m], 1, n))
  BY <1>1, <1>2, <1>4
<1>9. x.relocatable \in BOOLEAN
  BY <1>5, <1>7
<1>d. DeclsSound(x.decls)
  BY <1>1, <1>2, <1>4 DEF GoesOn
<1> QED
  BY <1>4, <1>6, <1>7, <1>8, <1>9, <1>d DEF x, f

-----------------------------------------------------------------------------
(* Before anything is emitted.                                             *)

LEMMA UnusedEmpty == Unused(EmptyWriter)
<1> DEFINE w == EmptyWriter
<1>1. w = [sections |-> <<>>, open |-> FALSE, base |-> 0, bss |-> FALSE,
           block |-> 0, explicit |-> FALSE,
           symbols |-> {}, aliases |-> <<>>, decls |-> <<>>, allocs |-> <<>>]
  BY DEF EmptyWriter
<1>2. IsSeq(<<>>) /\ Len(<<>>) = 0
  BY DEF IsSeq
<1>3. SectionsShape(<<>>)
  BY <1>2 DEF SectionsShape
<1> HIDE DEF w
<1>4. WriterShape(w)
  BY <1>1, <1>2, <1>3 DEF WriterShape
<1>d. DeclsSound(<<>>)
  BY <1>2 DEF DeclsSound
<1>5. Unused(w)
  BY <1>1, <1>4, <1>d DEF Unused
<1> QED
  BY <1>5 DEF w

LEMMA SymbolsSet ==
    ASSUME NEW w, WriterShape(w), NEW x
    PROVE  [w EXCEPT !.symbols = x]
           = [sections |-> w.sections, open |-> w.open, base |-> w.base, bss |-> w.bss,
              block |-> w.block, explicit |-> w.explicit, symbols |-> x,
              aliases |-> w.aliases, decls |-> w.decls, allocs |-> w.allocs]
BY DEF WriterShape

LEMMA AliasesSet ==
    ASSUME NEW w, WriterShape(w), NEW x
    PROVE  [w EXCEPT !.aliases = x]
           = [sections |-> w.sections, open |-> w.open, base |-> w.base, bss |-> w.bss,
              block |-> w.block, explicit |-> w.explicit, symbols |-> w.symbols,
              aliases |-> x, decls |-> w.decls, allocs |-> w.allocs]
BY DEF WriterShape

LEMMA DeclsSet ==
    ASSUME NEW w, WriterShape(w), NEW x
    PROVE  [w EXCEPT !.decls = x]
           = [sections |-> w.sections, open |-> w.open, base |-> w.base, bss |-> w.bss,
              block |-> w.block, explicit |-> w.explicit, symbols |-> w.symbols,
              aliases |-> w.aliases, decls |-> x, allocs |-> w.allocs]
BY DEF WriterShape

\* What the module declares and exports does not count.
LEMMA UnusedAlike ==
    ASSUME NEW w, Unused(w), NEW s, NEW a, NEW d, DeclsSound(d)
    PROVE  Unused([sections |-> w.sections, open |-> w.open, base |-> w.base, bss |-> w.bss,
                   block |-> w.block, explicit |-> w.explicit, symbols |-> s,
                   aliases |-> a, decls |-> d, allocs |-> w.allocs])
<1> DEFINE v == [sections |-> w.sections, open |-> w.open, base |-> w.base, bss |-> w.bss,
                 block |-> w.block, explicit |-> w.explicit, symbols |-> s,
                 aliases |-> a, decls |-> d, allocs |-> w.allocs]
<1>1. /\ v = [sections |-> v.sections, open |-> v.open, base |-> v.base, bss |-> v.bss,
              block |-> v.block, explicit |-> v.explicit, symbols |-> v.symbols,
              aliases |-> v.aliases, decls |-> v.decls, allocs |-> v.allocs]
      /\ v.sections = w.sections /\ v.open = w.open /\ v.bss = w.bss /\ v.base = w.base
      /\ v.block = w.block /\ v.explicit = w.explicit /\ v.allocs = w.allocs /\ v.decls = d
  OBVIOUS
<1> HIDE DEF v
<1>2. /\ SectionsShape(w.sections) /\ w.open \in BOOLEAN /\ w.bss \in BOOLEAN
      /\ w.explicit \in BOOLEAN /\ w.block \in Nat /\ w.base \in Nat /\ (w.open => Len(w.sections) > 0)
  BY DEF Unused, WriterShape
<1>3. /\ SectionsShape(v.sections) /\ v.open \in BOOLEAN /\ v.bss \in BOOLEAN
      /\ v.explicit \in BOOLEAN /\ v.block \in Nat /\ v.base \in Nat /\ (v.open => Len(v.sections) > 0)
  BY <1>1, <1>2
<1>4. WriterShape(v)
  BY <1>1, <1>3, Zenon DEF WriterShape
<1>5. Unused(v)
  BY <1>1, <1>4 DEF Unused
<1> QED
  BY <1>5 DEF v

LEMMA UnusedSymbols ==
    ASSUME NEW w, Unused(w), NEW x
    PROVE  Unused([w EXCEPT !.symbols = x])
<1> DEFINE v == [w EXCEPT !.symbols = x]
<1>1. WriterShape(w) /\ DeclsSound(w.decls)
  BY DEF Unused
<1>2. v = [sections |-> w.sections, open |-> w.open, base |-> w.base, bss |-> w.bss,
           block |-> w.block, explicit |-> w.explicit, symbols |-> x,
           aliases |-> w.aliases, decls |-> w.decls, allocs |-> w.allocs]
  BY <1>1, SymbolsSet
<1> HIDE DEF v
<1>3. Unused(v)
  BY <1>1, <1>2, UnusedAlike
<1> QED
  BY <1>3 DEF v

LEMMA UnusedAliases ==
    ASSUME NEW w, Unused(w), NEW x
    PROVE  Unused([w EXCEPT !.aliases = x])
<1> DEFINE v == [w EXCEPT !.aliases = x]
<1>1. WriterShape(w) /\ DeclsSound(w.decls)
  BY DEF Unused
<1>2. v = [sections |-> w.sections, open |-> w.open, base |-> w.base, bss |-> w.bss,
           block |-> w.block, explicit |-> w.explicit, symbols |-> w.symbols,
           aliases |-> x, decls |-> w.decls, allocs |-> w.allocs]
  BY <1>1, AliasesSet
<1> HIDE DEF v
<1>3. Unused(v)
  BY <1>1, <1>2, UnusedAlike
<1> QED
  BY <1>3 DEF v

LEMMA UnusedDecls ==
    ASSUME NEW w, Unused(w), NEW x, DeclsSound(x)
    PROVE  Unused([w EXCEPT !.decls = x])
<1> DEFINE v == [w EXCEPT !.decls = x]
<1>1. WriterShape(w) /\ DeclsSound(w.decls)
  BY DEF Unused
<1>2. v = [sections |-> w.sections, open |-> w.open, base |-> w.base, bss |-> w.bss,
           block |-> w.block, explicit |-> w.explicit, symbols |-> w.symbols,
           aliases |-> w.aliases, decls |-> x, allocs |-> w.allocs]
  BY <1>1, DeclsSet
<1> HIDE DEF v
<1>3. Unused(v)
  BY <1>1, <1>2, UnusedAlike
<1> QED
  BY <1>3 DEF v
-----------------------------------------------------------------------------
(* What the steps leave alone.                                             *)

LEMMA ObjectsStay ==
    ASSUME ObjectsSound, source' = source, objects' = objects
    PROVE  ObjectsSound'
BY DEF ObjectsSound, ObjectSound

LEMMA LinkStays ==
    ASSUME SlotsSound, Placed, objects' = objects, slots' = slots, linked' = linked,
           offset' = offset
    PROVE  SlotsSound' /\ Placed'
BY DEF SlotsSound, Placed, Relocated

LEMMA FailSound ==
    ASSUME LinkInv, NEW reason, Fail(reason), UNCHANGED linkVars
    PROVE  LinkInv'
<1>1. /\ phase' = "failed" /\ source' = source /\ objects' = objects
      /\ slots' = slots /\ linked' = linked /\ offset' = offset
  BY DEF Fail, linkVars
<1>2. ObjectsSound'
  BY <1>1, ObjectsStay DEF LinkInv
<1>3. SlotsSound' /\ Placed'
  BY <1>1, LinkStays DEF LinkInv, LinkSound
<1>4. CompileSound'
  BY <1>1 DEF CompileSound, Compiling, Walks
<1>5. LinkSound'
  BY <1>1, <1>3 DEF LinkSound
<1> QED
  BY <1>2, <1>4, <1>5 DEF LinkInv

\* What the first walks keep; the first resolver pass measures a body more.
LEMMA WalkOn ==
    ASSUME LinkInv, phase \in {"codegen", "pass1", "pass2"}, m <= Len(source),
           i <= Len(source[m]), Advance, UNCHANGED linkVars, Unused(writer'),
           phase = "pass1" => Measured(i - 1)',
           phase = "pass2" => sandbox' = sandbox
    PROVE  LinkInv'
<1>1. /\ phase' = phase /\ source' = source /\ objects' = objects /\ i' = i + 1
      /\ slots' = slots /\ linked' = linked /\ offset' = offset
  BY DEF Advance, linkVars
<1>2. ObjectsSound'
  BY <1>1, ObjectsStay DEF LinkInv
<1>3. SlotsSound' /\ Placed'
  BY <1>1, LinkStays DEF LinkInv, LinkSound
<1>4. Compiling /\ ObjectsSound /\ m' = m
  BY <1>1 DEF Compiling, Walks, LinkInv, m
<1>5. /\ i \in 1 .. Len(source[m]) + 1
      /\ phase = "pass2" => Measured(Len(source[m]))
  BY <1>4 DEF LinkInv, CompileSound
<1>6. i \in 1 .. Len(source[m]) /\ Len(source[m]) \in Nat
  <2>1. source \in Seq(Seq(Nodes)) /\ IsSeq(objects) /\ m <= Len(source)
    BY <1>4, ProgramAssumption DEF ObjectsSound
  <2>2. m \in 1 .. Len(source)
    BY <2>1, SeqFacts DEF m
  <2> QED
    BY <2>1, <2>2, <1>5
<1>7. CompileSound'
  <2>1. i' \in 1 .. Len(source'[m']) + 1 /\ i' - 1 = i
    BY <1>1, <1>4, <1>6
  <2>2. phase' = "pass1" => Measured(i - 1)'
    BY <1>1
  <2>3. phase' = "pass2" => Measured(Len(source[m]))'
    BY <1>1, <1>4, <1>5 DEF Measured
  <2>4. phase' \notin {"export", "emit"}
    BY <1>1
  <2> QED
    BY <2>1, <2>2, <2>3, <2>4 DEF CompileSound
<1>8. LinkSound'
  BY <1>1, <1>3 DEF LinkSound, Walks
<1> QED
  BY <1>2, <1>7, <1>8 DEF LinkInv

\* A node is emitted.
LEMMA EmitOn ==
    ASSUME LinkInv, phase = "emit", m <= Len(source), i <= Len(source[m]),
           Advance, UNCHANGED linkVars, sandbox' = sandbox, Emitting(writer', i)
    PROVE  LinkInv'
<1>1. /\ phase' = phase /\ source' = source /\ objects' = objects /\ i' = i + 1
      /\ slots' = slots /\ linked' = linked /\ offset' = offset
  BY DEF Advance, linkVars
<1>2. ObjectsSound'
  BY <1>1, ObjectsStay DEF LinkInv
<1>3. SlotsSound' /\ Placed'
  BY <1>1, LinkStays DEF LinkInv, LinkSound
<1>4. Compiling /\ ObjectsSound /\ m' = m
  BY <1>1 DEF Compiling, Walks, LinkInv, m
<1>5. i \in 1 .. Len(source[m]) + 1 /\ Measured(Len(source[m]))
  BY <1>4 DEF LinkInv, CompileSound
<1>6. i \in 1 .. Len(source[m]) /\ Len(source[m]) \in Nat
  <2>1. source \in Seq(Seq(Nodes)) /\ IsSeq(objects) /\ m <= Len(source)
    BY <1>4, ProgramAssumption DEF ObjectsSound
  <2>2. m \in 1 .. Len(source)
    BY <2>1, SeqFacts DEF m
  <2> QED
    BY <2>1, <2>2, <1>5
<1>7. CompileSound'
  <2>1. i' \in 1 .. Len(source'[m']) + 1 /\ i' - 1 = i
    BY <1>1, <1>4, <1>6
  <2>2. Measured(Len(source[m]))'
    BY <1>1, <1>4, <1>5 DEF Measured
  <2>3. Emitting(writer, i - 1)'
    BY <2>1, <1>1, <1>4 DEF Emitting
  <2>4. phase' = "emit"
    BY <1>1
  <2> QED
    BY <2>1, <2>2, <2>3, <2>4 DEF CompileSound
<1>8. LinkSound'
  BY <1>1, <1>3 DEF LinkSound, Walks
<1> QED
  BY <1>2, <1>7, <1>8 DEF LinkInv

-----------------------------------------------------------------------------
(* The steps of a module's compilation.                                    *)

LEMMA Walking ==
    ASSUME LinkInv, m <= Len(source), phase \in {"codegen", "pass1", "pass2", "export"}
    PROVE  Unused(writer)
BY DEF LinkInv, CompileSound, Compiling, Walks

\* What a node that makes a pool says of it.
LEMMA PoolNode ==
    ASSUME NEW x \in Nodes
    PROVE  /\ x.kind = "pool" => /\ x.ranges \in SUBSET RangesTaken /\ x.strategy \in Strategic
                                /\ x.ranges # {} /\ IsFiniteSet(x.ranges)
           /\ x.kind \in {"at", "reclaim"} => x.range \in RangesTaken
<1> DEFINE B == Seq(BodyNodes)
           R == RangesTaken
           K == RangeLists
<1>1. x.kind = "pool" =>
         x \in [kind : {"pool"}, pool : STRING, ranges : K, strategy : {"pack", "order"}, bss : BOOLEAN]
  BY DEF Nodes, BodyNodes
<1>2. x.kind = "at" =>
         x \in [kind : {"at"}, pool : STRING, id : STRING, range : R, pin : {Floating}, body : B]
  BY DEF Nodes, BodyNodes
<1>3. x.kind = "reclaim" => x \in [kind : {"reclaim"}, pool : STRING, range : R]
  BY DEF Nodes, BodyNodes
<1> HIDE DEF B, K
<1>4. x.kind = "pool" => x.ranges \in K /\ x.strategy \in {"pack", "order"}
  BY <1>1
<1> HIDE DEF R
<1>5. x.kind \in {"at", "reclaim"} => x.range \in R
  BY <1>2, <1>3
<1> QED
  BY <1>4, <1>5 DEF K, R, RangeLists, Strategic

LEMMA TakenFacts ==
    ASSUME NEW S \in SUBSET RangesTaken
    PROVE  S \in SUBSET Ranges /\ NonEmpty(S)
BY DEF RangesTaken, ValidRange, NonEmpty

\* A declaration as the object file carries it.
LEMMA DeclFields ==
    ASSUME NEW p, NEW r, NEW how, NEW b, NEW pool,
           pool = [ranges |-> r, strategy |-> how, bss |-> b],
           NEW d, d = Over([name |-> p], pool)
    PROVE  d.ranges = r /\ d.strategy = how
<1> DEFINE f == [name |-> p]
<1>1. DOMAIN f = {"name"} /\ DOMAIN pool = {"ranges", "strategy", "bss"}
  OBVIOUS
<1> HIDE DEF f
<1>2. d["ranges"] = pool["ranges"] /\ d["strategy"] = pool["strategy"]
  BY <1>1 DEF Over, f
<1> QED
  BY <1>2

LEMMA DeclMore ==
    ASSUME NEW q, DeclsSound(q), NEW d, DeclSound(d)
    PROVE  DeclsSound(Append(q, d))
<1>1. IsSeq(q) /\ Len(q) \in Nat /\ \A k \in 1 .. Len(q) : DeclSound(q[k])
  BY SeqFacts DEF DeclsSound
<1> DEFINE x == Append(q, d)
<1>2. /\ IsSeq(x) /\ Len(x) = Len(q) + 1 /\ x[Len(q) + 1] = d
      /\ \A k \in 1 .. Len(q) : x[k] = q[k]
  BY <1>1, AppendFacts
<1> HIDE DEF x
<1>3. ASSUME NEW k \in 1 .. Len(x) PROVE DeclSound(x[k])
  <2>1. k \in 1 .. Len(q) \/ k = Len(q) + 1
    BY <1>1, <1>2
  <2> QED
    BY <2>1, <1>1, <1>2
<1> QED
  BY <1>2, <1>3 DEF DeclsSound, x

\* generate_pool and _synthesize_pinned_pool write sound declarations.
LEMMA GeneratedDecl ==
    ASSUME ObjectsSound, Compiling, i \in 1 .. Len(source[m]), NEW decls, DeclsSound(decls),
           NEW pool, NEW p,
           \/ /\ Node.kind = "pool" /\ Disjoint(Node.ranges)
              /\ pool = [ranges |-> Normalize(Node.ranges), strategy |-> Node.strategy,
                         bss |-> Node.bss]
           \/ /\ Node.kind = "at"
              /\ pool = [ranges |-> {Node.range}, strategy |-> "pack", bss |-> FALSE]
    PROVE  DeclsSound(Append(decls, Over([name |-> p], pool)))
<1>0. Node \in Nodes
  BY AtNode
<1> DEFINE d == Over([name |-> p], pool)
<1>1. DeclSound(d)
  <2>1. CASE /\ Node.kind = "pool" /\ Disjoint(Node.ranges)
             /\ pool = [ranges |-> Normalize(Node.ranges), strategy |-> Node.strategy,
                        bss |-> Node.bss]
    <3>1. /\ Node.ranges \in SUBSET Ranges /\ NonEmpty(Node.ranges)
          /\ Node.strategy \in Strategic
      BY <2>1, <1>0, PoolNode, TakenFacts
    <3>2. /\ Normalize(Node.ranges) \in SUBSET Ranges /\ NonEmpty(Normalize(Node.ranges))
          /\ Disjoint(Normalize(Node.ranges))
      BY <2>1, <3>1, NormalizeType, NormalizeDisjoint
    <3>3. d.ranges = Normalize(Node.ranges) /\ d.strategy = Node.strategy
      BY <2>1, DeclFields
    <3> HIDE DEF d
    <3> QED
      BY <3>1, <3>2, <3>3 DEF DeclSound
  <2>2. CASE /\ Node.kind = "at"
             /\ pool = [ranges |-> {Node.range}, strategy |-> "pack", bss |-> FALSE]
    <3>1. {Node.range} \in SUBSET Ranges /\ NonEmpty({Node.range})
      BY <2>2, <1>0, PoolNode, TakenFacts
    <3>2. Disjoint({Node.range})
      BY DEF Disjoint
    <3>3. d.ranges = {Node.range} /\ d.strategy = "pack"
      BY <2>2, DeclFields
    <3> HIDE DEF d
    <3> QED
      BY <3>1, <3>2, <3>3 DEF DeclSound, Strategic
  <2> QED
    BY <2>1, <2>2
<1> QED
  BY <1>1, DeclMore

\* Code generation declares pools.
LEMMA GenerateSound ==
    ASSUME LinkInv, UNCHANGED linkVars,
           GeneratePool \/ GenerateReclaim \/ GenerateAlloc \/ GeneratePinned \/ GenerateOther
    PROVE  LinkInv'
<1>1. /\ phase = "codegen" /\ m <= Len(source) /\ i <= Len(source[m])
      /\ Advance \/ \E reason : Fail(reason)
  <2>1. CASE GeneratePool
    BY <2>1 DEF GeneratePool, At
  <2>2. CASE GenerateReclaim
    BY <2>2 DEF GenerateReclaim, At
  <2>3. CASE GenerateAlloc
    BY <2>3 DEF GenerateAlloc, At
  <2>4. CASE GeneratePinned
    BY <2>4 DEF GeneratePinned, At
  <2>5. CASE GenerateOther
    BY <2>5 DEF GenerateOther, At
  <2> QED
    BY <2>1, <2>2, <2>3, <2>4, <2>5
<1>2. Unused(writer)
  BY <1>1, Walking
<1>d. ObjectsSound /\ Compiling /\ i \in 1 .. Len(source[m]) /\ DeclsSound(writer.decls)
  <2>1. ObjectsSound /\ Compiling /\ i \in 1 .. Len(source[m]) + 1
    BY <1>1 DEF LinkInv, CompileSound, Compiling, Walks
  <2>2. source \in Seq(Seq(Nodes)) /\ IsSeq(objects) /\ m <= Len(source)
    BY <2>1, <1>1, ProgramAssumption DEF ObjectsSound
  <2>3. m \in 1 .. Len(source)
    BY <2>2, SeqFacts DEF m
  <2> QED
    BY <2>1, <2>2, <2>3, <1>1, <1>2 DEF Unused
<1>3. \/ writer' = writer
      \/ \E d : DeclsSound(d) /\ writer' = [writer EXCEPT !.decls = d]
  <2>1. CASE GeneratePool
    <3> DEFINE pool == [ranges |-> Normalize(Node.ranges), strategy |-> Node.strategy,
                        bss |-> Node.bss]
               d == Append(writer.decls, Over([name |-> Node.pool], pool))
    <3>1. /\ Node.kind = "pool"
          /\ writer' = writer \/ (Disjoint(Node.ranges) /\ writer' = [writer EXCEPT !.decls = d])
      BY <2>1 DEF GeneratePool, Fail, compileVars
    <3>2. Disjoint(Node.ranges) => DeclsSound(d)
      BY <3>1, <1>d, GeneratedDecl
    <3> HIDE DEF d
    <3> QED
      BY <3>1, <3>2
  <2>2. CASE GenerateReclaim
    BY <2>2 DEF GenerateReclaim, Fail, compileVars
  <2>3. CASE GenerateAlloc
    BY <2>3 DEF GenerateAlloc, Fail, compileVars
  <2>4. CASE GeneratePinned
    <3> DEFINE pool == [ranges |-> {Node.range}, strategy |-> "pack", bss |-> FALSE]
               d == Append(writer.decls, Over([name |-> Node.pool], pool))
    <3>1. /\ Node.kind = "at"
          /\ writer' = writer \/ writer' = [writer EXCEPT !.decls = d]
      BY <2>4 DEF GeneratePinned
    <3>2. DeclsSound(d)
      BY <3>1, <1>d, GeneratedDecl
    <3> HIDE DEF d
    <3> QED
      BY <3>1, <3>2
  <2>5. CASE GenerateOther
    BY <2>5 DEF GenerateOther, compileVars
  <2> QED
    BY <2>1, <2>2, <2>3, <2>4, <2>5
<1>4. Unused(writer')
  <2>1. CASE writer' = writer
    BY <2>1, <1>2
  <2>2. ASSUME NEW d, DeclsSound(d), writer' = [writer EXCEPT !.decls = d] PROVE Unused(writer')
    <3>1. Unused([writer EXCEPT !.decls = d])
      BY <1>2, <2>2, UnusedDecls
    <3> QED
      BY <3>1, <2>2, Zenon
  <2> QED
    BY <2>1, <2>2, <1>3
<1>5. CASE Advance
  BY <1>1, <1>4, <1>5, WalkOn
<1>6. ASSUME NEW reason, Fail(reason) PROVE LinkInv'
  BY <1>6, FailSound
<1> QED
  BY <1>1, <1>5, <1>6
\* The first resolver pass measures the bodies.
LEMMA MeasuredMore ==
    ASSUME LinkInv, phase = "pass1", m <= Len(source), i <= Len(source[m]), Advance,
           \/ /\ IsAlloc(Node)
              /\ \E base : sandbox' = Bound(sandbox, i, [base |-> base, size |-> SlotSize(Node)])
           \/ ~IsAlloc(Node) /\ sandbox' = sandbox
    PROVE  Measured(i - 1)'
<1>1. /\ source' = source /\ m' = m /\ i' = i + 1
  BY DEF Advance, m
<1>2. i \in 1 .. Len(source[m]) + 1 /\ Measured(i - 1)
  BY DEF LinkInv, CompileSound, Compiling, Walks
<1>3. Compiling /\ ObjectsSound
  BY DEF Compiling, Walks, LinkInv
<1>4. Len(source[m]) \in Nat
  <2>1. source \in Seq(Seq(Nodes)) /\ IsSeq(objects) /\ m <= Len(source)
    BY <1>3, ProgramAssumption DEF ObjectsSound
  <2>2. m \in 1 .. Len(source)
    BY <2>1, SeqFacts DEF m
  <2> QED
    BY <2>1, <2>2
<1>5. i \in Nat /\ i' - 1 = i
  BY <1>1, <1>2, <1>4
<1>6. ASSUME NEW j \in 1 .. i, IsAlloc(source[m][j])
      PROVE  j \in DOMAIN sandbox' /\ sandbox'[j].size = SlotSize(source[m][j])
  <2>1. CASE j = i
    <3>1. IsAlloc(Node)
      BY <1>6, <2>1 DEF Node
    <3>2. PICK base : sandbox' = Bound(sandbox, i, [base |-> base, size |-> SlotSize(Node)])
      BY <3>1
    <3>3. i \in DOMAIN sandbox' /\ sandbox'[i] = [base |-> base, size |-> SlotSize(Node)]
      BY <3>2 DEF Bound
    <3>4. sandbox'[i].size = SlotSize(Node)
      BY <3>3
    <3> QED
      BY <3>3, <3>4, <2>1 DEF Node
  <2>2. CASE j # i
    <3>1. j \in 1 .. i - 1
      BY <1>5, <2>2
    <3>2. j \in DOMAIN sandbox /\ sandbox[j].size = SlotSize(source[m][j])
      BY <3>1, <1>2, <1>6 DEF Measured
    <3>3. CASE \E base : sandbox' = Bound(sandbox, i, [base |-> base, size |-> SlotSize(Node)])
      <4>1. PICK base : sandbox' = Bound(sandbox, i, [base |-> base, size |-> SlotSize(Node)])
        BY <3>3
      <4>2. j \in DOMAIN sandbox' /\ sandbox'[j] = sandbox[j]
        BY <4>1, <3>2, <2>2 DEF Bound
      <4> QED
        BY <4>2, <3>2
    <3>4. CASE sandbox' = sandbox
      BY <3>2, <3>4
    <3> QED
      BY <3>3, <3>4
  <2> QED
    BY <2>1, <2>2
<1> QED
  BY <1>1, <1>5, <1>6 DEF Measured

LEMMA Pass1Sound ==
    ASSUME LinkInv, UNCHANGED linkVars,
           RequestSlot \/ BindLabel \/ DeclareLabel \/ DeclareExtern \/ MoveOn \/ PassOver
    PROVE  LinkInv'
<1>1. phase = "pass1" /\ m <= Len(source) /\ i <= Len(source[m]) /\ Advance
  <2>1. CASE RequestSlot
    BY <2>1 DEF RequestSlot, At
  <2>2. CASE BindLabel
    BY <2>2 DEF BindLabel, At
  <2>3. CASE DeclareLabel
    BY <2>3 DEF DeclareLabel, At
  <2>4. CASE DeclareExtern
    BY <2>4 DEF DeclareExtern, At
  <2>5. CASE MoveOn
    BY <2>5 DEF MoveOn, At
  <2>6. CASE PassOver
    BY <2>6 DEF PassOver, At
  <2> QED
    BY <2>1, <2>2, <2>3, <2>4, <2>5, <2>6
<1>2. Unused(writer)
  BY <1>1, Walking
<1>3. /\ writer' = writer \/ \E x : writer' = [writer EXCEPT !.symbols = x]
      /\ \/ /\ IsAlloc(Node)
            /\ \E base : sandbox' = Bound(sandbox, i, [base |-> base, size |-> SlotSize(Node)])
         \/ ~IsAlloc(Node) /\ sandbox' = sandbox
  <2>1. CASE RequestSlot
    BY <2>1 DEF RequestSlot
  <2>2. CASE BindLabel
    BY <2>2 DEF BindLabel, IsAlloc
  <2>3. CASE DeclareLabel
    BY <2>3 DEF DeclareLabel, IsAlloc
  <2>4. CASE DeclareExtern
    BY <2>4 DEF DeclareExtern, IsAlloc
  <2>5. CASE MoveOn
    BY <2>5 DEF MoveOn, IsAlloc
  <2>6. CASE PassOver
    BY <2>6 DEF PassOver, IsAlloc, compileVars
  <2> QED
    BY <2>1, <2>2, <2>3, <2>4, <2>5, <2>6
<1>4. Unused(writer')
  <2>1. CASE writer' = writer
    BY <2>1, <1>2
  <2>2. ASSUME NEW x, writer' = [writer EXCEPT !.symbols = x] PROVE Unused(writer')
    <3>1. Unused([writer EXCEPT !.symbols = x])
      BY <1>2, UnusedSymbols
    <3> QED
      BY <3>1, <2>2, Zenon
  <2> QED
    BY <2>1, <2>2, <1>3
<1>5. Measured(i - 1)'
  BY <1>1, <1>3, MeasuredMore
<1> QED
  BY <1>1, <1>4, <1>5, WalkOn

LEMMA Pass2Sound ==
    ASSUME LinkInv, UNCHANGED linkVars, RegisterAlias \/ RevisitOther
    PROVE  LinkInv'
<1>1. /\ phase = "pass2" /\ m <= Len(source) /\ i <= Len(source[m])
      /\ (Advance /\ sandbox' = sandbox) \/ \E reason : Fail(reason)
  <2>1. CASE RegisterAlias
    BY <2>1 DEF RegisterAlias, At
  <2>2. CASE RevisitOther
    BY <2>2 DEF RevisitOther, At, compileVars
  <2> QED
    BY <2>1, <2>2
<1>2. Unused(writer)
  BY <1>1, Walking
<1>3. writer' = writer \/ \E x : writer' = [writer EXCEPT !.aliases = x]
  <2>1. CASE RegisterAlias
    BY <2>1 DEF RegisterAlias, Fail, compileVars
  <2>2. CASE RevisitOther
    BY <2>2 DEF RevisitOther, compileVars
  <2> QED
    BY <2>1, <2>2
<1>4. Unused(writer')
  <2>1. CASE writer' = writer
    BY <2>1, <1>2
  <2>2. ASSUME NEW x, writer' = [writer EXCEPT !.aliases = x] PROVE Unused(writer')
    <3>1. Unused([writer EXCEPT !.aliases = x])
      BY <1>2, UnusedAliases
    <3> QED
      BY <3>1, <2>2, Zenon
  <2> QED
    BY <2>1, <2>2, <1>3
<1>5. CASE Advance /\ sandbox' = sandbox
  BY <1>1, <1>4, <1>5, WalkOn
<1>6. ASSUME NEW reason, Fail(reason) PROVE LinkInv'
  BY <1>6, FailSound
<1> QED
  BY <1>1, <1>5, <1>6
\* Symbols are exported, and the first section may begin.
LEMMA ExportSound ==
    ASSUME LinkInv, UNCHANGED linkVars, ExportSymbols
    PROVE  LinkInv'
<1>1. /\ phase = "export" /\ phase' = "emit" /\ i' = 1 /\ m <= Len(source)
      /\ source' = source /\ objects' = objects /\ sandbox' = sandbox
      /\ slots' = slots /\ linked' = linked /\ offset' = offset
      /\ \E x : writer' = StartSection([writer EXCEPT !.symbols = x], Origin, FALSE, FALSE)
  BY DEF ExportSymbols, linkVars
<1>2. Compiling /\ ObjectsSound /\ m' = m
  BY <1>1 DEF Compiling, Walks, LinkInv, m
<1>3. Unused(writer) /\ Measured(Len(source[m]))
  BY <1>1, <1>2, Walking DEF LinkInv, CompileSound
<1>4. ObjectsSound'
  BY <1>1, <1>2, ObjectsStay
<1>5. SlotsSound' /\ Placed'
  BY <1>1, LinkStays DEF LinkInv, LinkSound
<1>6. source[m] \in Seq(Nodes) /\ IsSeq(source[m]) /\ Len(source[m]) \in Nat
  <2>1. source \in Seq(Seq(Nodes)) /\ IsSeq(objects) /\ m <= Len(source)
    BY <1>1, <1>2, ProgramAssumption DEF ObjectsSound
  <2>2. m \in 1 .. Len(source)
    BY <2>1, SeqFacts DEF m
  <2>3. source[m] \in Seq(Nodes)
    BY <2>1, <2>2
  <2> QED
    BY <2>3 DEF IsSeq
<1>7. Emitting(writer', 0)
  <2>1. PICK x : writer' = StartSection([writer EXCEPT !.symbols = x], Origin, FALSE, FALSE)
    BY <1>1
  <2> DEFINE w == [writer EXCEPT !.symbols = x]
  <2>2. Unused(w)
    BY <1>3, UnusedSymbols
  <2> HIDE DEF w
  <2>3. Emitting(StartSection(w, Origin, FALSE, FALSE), 0)
    BY <2>2, <1>6, StartSound
  <2> QED
    BY <2>1, <2>3, Zenon DEF w
<1>8. CompileSound'
  <2>1. i' \in 1 .. Len(source'[m']) + 1 /\ i' - 1 = 0
    BY <1>1, <1>2, <1>6
  <2>2. Measured(Len(source[m]))'
    BY <1>1, <1>2, <1>3 DEF Measured
  <2>3. Emitting(writer, i - 1)'
    BY <2>1, <1>1, <1>2, <1>7 DEF Emitting
  <2> QED
    BY <2>1, <2>2, <2>3, <1>1 DEF CompileSound
<1>9. LinkSound'
  BY <1>1, <1>5 DEF LinkSound, Walks
<1> QED
  BY <1>4, <1>8, <1>9 DEF LinkInv

\* What a step of the emitter starts from.
LEMMA AtEmit ==
    ASSUME LinkInv, At("emit")
    PROVE  /\ phase = "emit" /\ m <= Len(source) /\ i <= Len(source[m])
           /\ ObjectsSound /\ Compiling /\ i \in 1 .. Len(source[m])
           /\ Emitting(writer, i - 1) /\ Measured(Len(source[m]))
<1>1. phase = "emit" /\ m <= Len(source) /\ i <= Len(source[m])
  BY DEF At
<1>2. ObjectsSound /\ Compiling
  BY <1>1 DEF LinkInv, Compiling, Walks
<1>3. i \in 1 .. Len(source[m]) + 1 /\ Emitting(writer, i - 1) /\ Measured(Len(source[m]))
  BY <1>1, <1>2 DEF LinkInv, CompileSound
<1>4. Len(source[m]) \in Nat
  <2>1. source \in Seq(Seq(Nodes)) /\ IsSeq(objects) /\ m <= Len(source)
    BY <1>1, <1>2, ProgramAssumption DEF ObjectsSound
  <2>2. m \in 1 .. Len(source)
    BY <2>1, SeqFacts DEF m
  <2> QED
    BY <2>1, <2>2
<1> QED
  BY <1>1, <1>2, <1>3, <1>4

LEMMA AllocStep ==
    ASSUME LinkInv, ResolverInv, UNCHANGED linkVars, EmitAlloc
    PROVE  LinkInv'
<1> DEFINE opened == StartSection(Flush(writer), sandbox[i].base, TRUE, TRUE)
           full == Flush(EmitBody(opened, Node))
           marked == [full EXCEPT !.sections[Len(full.sections)].bss
                                      = ~(full.sections[Len(full.sections)].code > 0)]
           after == StartSection(marked, here, FALSE, FALSE)
           v == [after EXCEPT !.allocs = Append(@,
                    [pool |-> Node.pool, name |-> Plain(Node.id),
                     section |-> Len(after.sections), size |-> sandbox[i].size,
                     pin |-> Node.pin])]
<1>1. At("emit") /\ IsAlloc(Node)
  BY DEF EmitAlloc
<1>2. \/ \E reason : Fail(reason)
      \/ writer' = v /\ Advance /\ sandbox' = sandbox
  BY DEF EmitAlloc
<1> HIDE DEF v
<1>3. CASE writer' = v /\ Advance /\ sandbox' = sandbox
  <2>1. /\ phase = "emit" /\ m <= Len(source) /\ i <= Len(source[m])
        /\ ObjectsSound /\ Compiling /\ i \in 1 .. Len(source[m])
        /\ Emitting(writer, i - 1) /\ Measured(Len(source[m]))
    BY <1>1, AtEmit
  <2>2. /\ sandbox[i].size = SlotSize(Node)
        /\ sandbox[i].base \in Nat /\ here \in Nat
    BY <1>1, <2>1 DEF Measured, Node, ResolverInv
  <2>3. Emitting(v, i)
    BY <1>1, <2>1, <2>2, EmitAllocSound DEF v
  <2>4. Emitting(writer', i)
    BY <2>3, <1>3, Zenon
  <2> QED
    BY <1>3, <2>1, <2>4, EmitOn
<1>4. ASSUME NEW reason, Fail(reason) PROVE LinkInv'
  BY <1>4, FailSound
<1> QED
  BY <1>2, <1>3, <1>4
LEMMA EmitSound ==
    ASSUME LinkInv, UNCHANGED linkVars, EmitBytes \/ EmitOrg \/ EmitIps \/ EmitNothing
    PROVE  LinkInv'
<1>1. At("emit") /\ ((Advance /\ sandbox' = sandbox) \/ \E reason : Fail(reason))
  BY DEF EmitBytes, EmitOrg, EmitIps, EmitNothing, compileVars
<1>2. /\ phase = "emit" /\ m <= Len(source) /\ i <= Len(source[m])
      /\ ObjectsSound /\ Compiling /\ i \in 1 .. Len(source[m])
      /\ Emitting(writer, i - 1)
  BY <1>1, AtEmit
<1>3. ASSUME NEW reason, Fail(reason) PROVE LinkInv'
  BY <1>3, FailSound
<1>4. ASSUME Advance, sandbox' = sandbox PROVE Emitting(writer', i) \/ \E reason : Fail(reason)
  <2>1. CASE EmitBytes
    <3> DEFINE targets == {Refer(0, x) : x \in Node.refs}
               v == EmitNode(writer, Node.size, <<i, 0>>, targets)
    <3>1. Node.kind = "bytes" /\ (writer' = v \/ \E reason : Fail(reason))
      BY <2>1 DEF EmitBytes
    <3>2. Emitting(v, i)
      <4> HIDE DEF targets
      <4> QED
        BY <1>2, <3>1, EmitBytesSound
    <3> HIDE DEF v
    <3> QED
      BY <3>1, <3>2, Zenon
  <2>2. CASE EmitOrg
    <3> DEFINE v == StartSection(Flush(writer), Node.to, TRUE, FALSE)
    <3>1. Node.kind = "org" /\ writer' = v
      BY <2>2 DEF EmitOrg
    <3>2. Emitting(v, i)
      BY <1>2, <3>1, EmitOrgSound
    <3> HIDE DEF v
    <3> QED
      BY <3>1, <3>2, Zenon
  <2>3. CASE EmitIps
    <3> DEFINE v == WriteBlock(StartSection(Flush(writer), Node.to, TRUE, FALSE), Node.size)
    <3>1. Node.kind = "ips" /\ writer' = v
      BY <2>3 DEF EmitIps
    <3>2. Emitting(v, i)
      BY <1>2, <3>1, EmitIpsSound
    <3> HIDE DEF v
    <3> QED
      BY <3>1, <3>2, Zenon
  <2>4. CASE EmitNothing
    <3>1. Node.kind \notin {"alloc", "at", "bytes", "org", "ips"} /\ writer' = writer
      BY <2>4 DEF EmitNothing, compileVars
    <3>2. Emitting(writer, i)
      BY <1>2, <3>1, EmitNothingSound
    <3> QED
      BY <3>1, <3>2, Zenon
  <2> QED
    BY <2>1, <2>2, <2>3, <2>4
<1>5. ASSUME Advance, sandbox' = sandbox, Emitting(writer', i) PROVE LinkInv'
  BY <1>2, <1>5, EmitOn
<1> QED
  BY <1>1, <1>3, <1>4, <1>5

\* Where the walk over a module ends.
LEMMA AtEnd ==
    ASSUME LinkInv, Compiling, i > Len(source[m])
    PROVE  /\ i - 1 = Len(source[m]) /\ m \in 1 .. Len(source) /\ Len(objects) \in Nat
           /\ source \in Seq(Seq(Nodes)) /\ IsSeq(source[m])
           /\ \A o \in 1 .. Len(source) : Len(source[o]) \in Nat
<1>1. i \in 1 .. Len(source[m]) + 1
  BY DEF LinkInv, CompileSound
<1>2. source \in Seq(Seq(Nodes)) /\ IsSeq(objects) /\ m <= Len(source)
  BY ProgramAssumption DEF LinkInv, ObjectsSound, Compiling
<1>3. m \in 1 .. Len(source) /\ Len(objects) \in Nat
  BY <1>2, SeqFacts DEF m
<1>4. \A o \in 1 .. Len(source) : Len(source[o]) \in Nat /\ source[o] \in Seq(Nodes)
  BY <1>2
<1> QED
  BY <1>1, <1>2, <1>3, <1>4 DEF IsSeq

LEMMA NextWalkSound ==
    ASSUME LinkInv, UNCHANGED linkVars, NextWalk
    PROVE  LinkInv'
<1>1. /\ phase \in {"codegen", "pass1", "pass2"} /\ m <= Len(source) /\ i > Len(source[m])
      /\ phase' = CASE phase = "codegen" -> "pass1"
                    [] phase = "pass1" -> "pass2"
                    [] phase = "pass2" -> "export"
      /\ i' = 1
      /\ source' = source /\ objects' = objects /\ sandbox' = sandbox /\ writer' = writer
      /\ slots' = slots /\ linked' = linked /\ offset' = offset
  BY DEF NextWalk, linkVars
<1>2. Compiling /\ ObjectsSound /\ m' = m
  BY <1>1 DEF Compiling, Walks, LinkInv, m
<1>3. i - 1 = Len(source[m]) /\ Len(source[m]) \in Nat
  BY <1>1, <1>2, AtEnd
<1>4. ObjectsSound'
  BY <1>1, <1>2, ObjectsStay
<1>5. SlotsSound' /\ Placed'
  BY <1>1, LinkStays DEF LinkInv, LinkSound
<1>6. /\ phase' \in {"pass1", "pass2", "export"}
      /\ phase' = "pass1" => phase = "codegen"
      /\ phase' = "pass2" => phase = "pass1"
      /\ phase' = "export" => phase = "pass2"
  BY <1>1
<1>7. /\ Unused(writer)
      /\ phase = "pass1" => Measured(Len(source[m]))
      /\ phase = "pass2" => Measured(Len(source[m]))
  BY <1>1, <1>2, <1>3, Walking DEF LinkInv, CompileSound
<1>8. CompileSound'
  <2>1. i' \in 1 .. Len(source'[m']) + 1 /\ i' - 1 = 0
    BY <1>1, <1>2, <1>3
  <2>2. phase' \in {"pass2", "export"} => Measured(Len(source[m]))'
    BY <1>1, <1>2, <1>6, <1>7 DEF Measured
  <2>3. Measured(i - 1)'
    BY <2>1 DEF Measured
  <2>4. Unused(writer)'
    BY <1>1, <1>7
  <2> QED
    BY <2>1, <2>2, <2>3, <2>4, <1>6 DEF CompileSound
<1>9. LinkSound'
  BY <1>5, <1>6 DEF LinkSound, Walks
<1> QED
  BY <1>4, <1>8, <1>9 DEF LinkInv

\* An object file is written.
LEMMA FinishModuleSound ==
    ASSUME LinkInv, UNCHANGED linkVars, FinishModule
    PROVE  LinkInv'
<1> DEFINE x == ObjectOf(Flush(writer))
<1>1. /\ phase = "emit" /\ m <= Len(source) /\ i > Len(source[m])
      /\ objects' = Append(objects, x)
      /\ phase' = IF m = Len(source) THEN "merge" ELSE "codegen"
      /\ i' = 1 /\ source' = source /\ writer' = EmptyWriter
      /\ slots' = slots /\ linked' = linked /\ offset' = offset
  BY DEF FinishModule, ResetResolver, linkVars
<1>2. Compiling /\ ObjectsSound
  BY <1>1 DEF Compiling, Walks, LinkInv
<1>3. /\ i - 1 = Len(source[m]) /\ m \in 1 .. Len(source) /\ Len(objects) \in Nat
      /\ source \in Seq(Seq(Nodes)) /\ IsSeq(source[m])
      /\ \A o \in 1 .. Len(source) : Len(source[o]) \in Nat
  BY <1>1, <1>2, AtEnd
<1>4. Emitting(writer, i - 1)
  BY <1>1, <1>2 DEF LinkInv, CompileSound
<1>5. EmittedBy(SubSeq(source[m], 1, i - 1)) = EmittedBy(source[m])
  <2> DEFINE q == source[m]
  <2>1. IsSeq(q) /\ i - 1 = Len(q)
    BY <1>3
  <2> HIDE DEF q
  <2>2. SubSeq(q, 1, i - 1) = q
    BY <2>1, PrefixFacts
  <2> QED
    BY <2>2 DEF q
<1>6. /\ SectionsShape(x.sections) /\ CodeOf(x.sections) = EmittedBy(source[m])
      /\ AllocsSound(x.sections, Len(x.sections), x.allocs, source[m])
      /\ DeclsSound(x.decls)
      /\ x.relocatable \in BOOLEAN
      /\ x.relocatable =>
            /\ x.allocs = <<>> /\ Len(x.sections) <= 1
            /\ \A k \in 1 .. Len(x.sections) : x.sections[k].base = Origin
  BY <1>4, <1>5, FinishSound
<1> HIDE DEF x
<1>7. /\ IsSeq(objects') /\ Len(objects') = m /\ objects'[m] = x
      /\ \A o \in 1 .. Len(objects) : objects'[o] = objects[o]
  BY <1>1, <1>2, AppendFacts DEF ObjectsSound, m
<1>8. \A o \in 1 .. m : o # m => o \in 1 .. Len(objects)
  BY <1>3 DEF m
<1>9. ObjectsSound'
  <2>1. ASSUME NEW o \in 1 .. Len(objects) PROVE ObjectSound(o)'
    <3>1. ObjectSound(o) /\ objects'[o] = objects[o] /\ source' = source
      BY <1>1, <1>2, <1>7 DEF ObjectsSound
    <3> QED
      BY <3>1 DEF ObjectSound
  <2>2. objects'[m] = x /\ source'[m] = source[m]
    BY <1>1, <1>7
  <2>3. \A o : o = m => ObjectSound(o)'
    BY <2>2, <1>6 DEF ObjectSound
  <2>4. \A o \in 1 .. Len(objects') : ObjectSound(o)'
    BY <2>1, <2>3, <1>7, <1>8
  <2> QED
    BY <2>4, <1>1, <1>2, <1>7 DEF ObjectsSound
<1>10. SlotsSound' /\ Placed'
  <2>1. 1 .. Len(objects) \subseteq 1 .. Len(objects')
    BY <1>3, <1>7 DEF m
  <2>2. SlotsSound'
    BY <2>1, <1>1, <1>7 DEF LinkInv, LinkSound, SlotsSound
  <2>3. \A s \in 1 .. Len(linked) : linked[s].obj \in 1 .. Len(objects)
    BY DEF LinkInv, LinkSound, Placed
  <2>4. \A s \in 1 .. Len(linked) : Relocated(s)' = Relocated(s)
    BY <2>3, <1>1, <1>7 DEF Relocated
  <2>5. Placed'
    BY <2>1, <2>3, <2>4, <1>1 DEF LinkInv, LinkSound, Placed
  <2> QED
    BY <2>2, <2>5
<1>11. CompileSound'
  <2>1. ASSUME Compiling' PROVE /\ phase' = "codegen" /\ i' \in 1 .. Len(source'[m']) + 1
                                /\ Unused(writer)'
    <3>1. phase' = "codegen" /\ m' <= Len(source)
      BY <1>1, <2>1 DEF Compiling, Walks
    <3>2. m' = m + 1 /\ m' \in 1 .. Len(source)
      BY <3>1, <1>3, <1>7 DEF m
    <3>3. Len(source[m']) \in Nat
      BY <3>2, <1>3
    <3> QED
      BY <3>1, <3>3, <1>1, UnusedEmpty
  <2> QED
    BY <2>1 DEF CompileSound
<1>12. LinkSound'
  <2>1. Len(objects') > 0 /\ i' \in 1 .. Len(objects')
    BY <1>1, <1>3, <1>7
  <2> QED
    BY <2>1, <1>10 DEF LinkSound
<1> QED
  BY <1>9, <1>11, <1>12 DEF LinkInv
LEMMA CompileStepSound ==
    ASSUME LinkInv, ResolverInv, CompileNext, UNCHANGED linkVars
    PROVE  LinkInv'
BY GenerateSound, Pass1Sound, Pass2Sound, ExportSound, AllocStep, EmitSound, NextWalkSound,
   FinishModuleSound DEF CompileNext

-----------------------------------------------------------------------------
(* The linker's steps.                                                     *)

Linking == {"merge", "request", "allocate", "ingest", "aliases", "check", "relocate", "linked"}

LEMMA LinkOn ==
    ASSUME LinkInv, phase \in Linking, source' = source, objects' = objects,
           phase' \in Linking,
           phase' \in {"merge", "request", "ingest"} => i' \in 1 .. Len(objects),
           SlotsSound', Placed'
    PROVE  LinkInv'
<1>1. Linking \cap (Walks \cup {"failed"}) = {}
  BY DEF Linking, Walks
<1>2. ObjectsSound'
  BY ObjectsStay DEF LinkInv
<1>3. CompileSound'
  BY <1>1 DEF CompileSound, Compiling
<1>4. Len(objects) > 0
  BY <1>1 DEF LinkInv, LinkSound
<1>5. LinkSound'
  BY <1>4 DEF LinkSound
<1> QED
  BY <1>2, <1>3, <1>5 DEF LinkInv

LEMMA ObjectAt ==
    ASSUME LinkInv, phase \in {"merge", "request", "ingest"}
    PROVE  /\ i \in 1 .. Len(objects) /\ Len(objects) \in Nat /\ ObjectSound(i)
           /\ SlotsSound /\ Placed
BY SeqFacts DEF LinkInv, LinkSound, ObjectsSound

\* On to the next object of a phase, or to the next phase.
LEMMA OnwardSound ==
    ASSUME LinkInv, phase \in {"merge", "request", "ingest"}, NEW next \in Linking,
           Onward(Len(objects), next), SlotsSound', Placed'
    PROVE  LinkInv'
<1>1. i \in 1 .. Len(objects) /\ Len(objects) \in Nat
  BY ObjectAt
<1>2. /\ source' = source /\ objects' = objects
      /\ \/ i # Len(objects) /\ i' = i + 1 /\ phase' = phase
         \/ i' = 1 /\ phase' = next
  BY DEF Onward, Goto
<1>3. i' \in 1 .. Len(objects) /\ phase' \in Linking /\ phase \in Linking
  BY <1>1, <1>2 DEF Linking
<1> QED
  BY <1>2, <1>3, LinkOn

LEMMA MergePoolsSound ==
    ASSUME LinkInv, MergePools
    PROVE  LinkInv'
<1>1. /\ phase = "merge"
      /\ \/ UNCHANGED linkVars /\ \E reason : Fail(reason)
         \/ /\ slots' = slots /\ linked' = linked /\ offset' = offset
            /\ Onward(Len(objects), "request")
  BY DEF MergePools, Abort
<1>2. CASE slots' = slots /\ linked' = linked /\ offset' = offset /\ Onward(Len(objects), "request")
  <2>1. objects' = objects
    BY <1>2 DEF Onward, Goto
  <2>2. SlotsSound' /\ Placed'
    BY <1>1, <1>2, <2>1, ObjectAt, LinkStays
  <2> QED
    BY <1>1, <1>2, <2>2, OnwardSound DEF Linking
<1>3. ASSUME NEW reason, Fail(reason), UNCHANGED linkVars PROVE LinkInv'
  BY <1>3, FailSound
<1> QED
  BY <1>1, <1>2, <1>3

\* The steps that place nothing.
LEMMA PlainSound ==
    ASSUME LinkInv, AllocatePool \/ ResolveAliases \/ AliasesDone \/ CheckUnresolved \/ ApplyRelocations
    PROVE  LinkInv'
<1>1. /\ phase \in {"allocate", "aliases", "check", "relocate"}
      /\ \/ UNCHANGED linkVars /\ \E reason : Fail(reason)
         \/ /\ slots' = slots /\ linked' = linked /\ offset' = offset
            /\ source' = source /\ objects' = objects
            /\ phase' = phase \/ (phase' \in {"ingest", "check", "relocate", "linked"} /\ i' = 1)
  <2>1. CASE AllocatePool
    BY <2>1 DEF AllocatePool, Abort, Onward, Goto
  <2>2. CASE ResolveAliases
    BY <2>2 DEF ResolveAliases, Abort, buildVars
  <2>3. CASE AliasesDone
    BY <2>3 DEF AliasesDone, Goto, linkVars
  <2>4. CASE CheckUnresolved
    BY <2>4 DEF CheckUnresolved, Abort, Goto, linkVars
  <2>5. CASE ApplyRelocations
    BY <2>5 DEF ApplyRelocations, Abort, Goto
  <2> QED
    BY <2>1, <2>2, <2>3, <2>4, <2>5
<1>2. ASSUME NEW reason, Fail(reason), UNCHANGED linkVars PROVE LinkInv'
  BY <1>2, FailSound
<1>3. CASE /\ slots' = slots /\ linked' = linked /\ offset' = offset
           /\ source' = source /\ objects' = objects
           /\ phase' = phase \/ (phase' \in {"ingest", "check", "relocate", "linked"} /\ i' = 1)
  <2>1. SlotsSound' /\ Placed'
    BY <1>3, LinkStays DEF LinkInv, LinkSound
  <2>2. phase \in Linking /\ phase' \in Linking
    BY <1>1, <1>3 DEF Linking
  <2>3. Len(objects) \in Nat /\ Len(objects) > 0
    BY <1>1, SeqFacts DEF LinkInv, LinkSound, ObjectsSound, Walks
  <2>4. phase' \in {"merge", "request", "ingest"} => i' \in 1 .. Len(objects)
    BY <2>3, <1>1, <1>3
  <2> QED
    BY <2>1, <2>2, <2>4, <1>3, LinkOn
<1> QED
  BY <1>1, <1>2, <1>3
\* A request is entered under the object that makes it.
LEMMA RequestDomain ==
    ASSUME NEW acc, NEW a
    PROVE  DOMAIN RequestStep(acc, a).slots = DOMAIN acc.slots \cup {<<i, a.section>>}
<1>1. PICK v : RequestStep(acc, a).slots = Bound(acc.slots, <<i, a.section>>, v)
  BY DEF RequestStep, RequestOne
<1> QED
  BY <1>1 DEF Bound

LEMMA RequestsOfObject ==
    ASSUME NEW acc, NEW q, IsSeq(q)
    PROVE  LET all == Fold(LAMBDA x, a : RequestOne(i, x, a), acc, q)
           IN  /\ \A x \in DOMAIN all.slots : x \in DOMAIN acc.slots \/ x[1] = i
               /\ q = <<>> => all = acc
<1> DEFINE all == Fold(LAMBDA x, a : RequestOne(i, x, a), acc, q)
           Mine(r) == \A x \in DOMAIN r.slots : x \in DOMAIN acc.slots \/ x[1] = i
<1>1. all = SlotSteps!Left(acc, q)
  BY SlotFold
<1> HIDE DEF all
<1>2. Len(q) \in Nat
  BY SeqFacts
<1>3. PICK run : SlotSteps!IsRun(acc, q, run) /\ SlotSteps!Left(acc, q) = run[Len(q)]
  BY <1>2, SlotSteps!FoldIsRun
<1> DEFINE D == {k \in 0 .. Len(q) : Mine(run[k])}
<1>4. 0 \in D
  BY <1>2, <1>3 DEF SlotSteps!IsRun
<1>5. ASSUME NEW k \in 1 .. Len(q), k - 1 \in D PROVE k \in D
  <2>1. run[k] = RequestStep(run[k - 1], q[k])
    BY <1>3 DEF SlotSteps!IsRun
  <2>2. DOMAIN run[k].slots = DOMAIN run[k - 1].slots \cup {<<i, q[k].section>>}
    BY <2>1, RequestDomain
  <2>3. Mine(run[k - 1])
    BY <1>5
  <2>4. Mine(run[k])
    BY <2>2, <2>3
  <2> QED
    BY <2>4, <1>2
<1> HIDE DEF D
<1>6. Len(q) \in D
  BY <1>2, <1>4, <1>5, CodeSteps!UpFromZero
<1>7. Mine(all)
  BY <1>1, <1>3, <1>6 DEF D
<1>8. q = <<>> => all = acc
  <2>1. q = <<>> => Len(q) = 0
    OBVIOUS
  <2> QED
    BY <2>1, <1>1, <1>3 DEF SlotSteps!IsRun
<1> QED
  BY <1>7, <1>8 DEF all

LEMMA RequestSlotsSound ==
    ASSUME LinkInv, RequestSlots
    PROVE  LinkInv'
<1> DEFINE start == [slots |-> slots, pools |-> merged]
           acc == Fold(LAMBDA x, a : RequestOne(i, x, a), start, Object.allocs)
<1>1. /\ phase = "request"
      /\ \/ UNCHANGED linkVars /\ \E reason : Fail(reason)
         \/ /\ slots' = acc.slots /\ linked' = linked /\ offset' = offset
            /\ \E next \in {"ingest", "allocate"} : Onward(Len(objects), next)
  BY DEF RequestSlots, Abort
<1>o. start.slots = slots
  OBVIOUS
<1> HIDE DEF start
<1>2. /\ i \in 1 .. Len(objects) /\ ObjectSound(i) /\ SlotsSound /\ Placed
  BY <1>1, ObjectAt
<1>3. ASSUME NEW reason, Fail(reason), UNCHANGED linkVars PROVE LinkInv'
  BY <1>3, FailSound
<1>4. ASSUME slots' = acc.slots, linked' = linked, offset' = offset,
             NEW next \in {"ingest", "allocate"}, Onward(Len(objects), next)
      PROVE  LinkInv'
  <2>1. objects' = objects
    BY <1>4 DEF Onward, Goto
  <2>2. IsSeq(Object.allocs) /\ (Object.relocatable => Object.allocs = <<>>)
    BY <1>2 DEF ObjectSound, AllocsSound, Object
  <2>3. /\ \A x \in DOMAIN acc.slots : x \in DOMAIN start.slots \/ x[1] = i
        /\ Object.allocs = <<>> => acc = start
    BY <2>2, RequestsOfObject
  <2> HIDE DEF acc
  <2>4. ASSUME NEW x \in DOMAIN acc.slots
        PROVE  x[1] \in 1 .. Len(objects) /\ ~objects[x[1]].relocatable
    <3>1. CASE Object.relocatable
      <4>1. x \in DOMAIN slots
        BY <2>2, <2>3, <2>4, <3>1, <1>o
      <4> QED
        BY <4>1, <1>2 DEF SlotsSound
    <3>2. CASE ~Object.relocatable
      <4>1. x \in DOMAIN slots \/ x[1] = i
        BY <2>3, <2>4, <1>o
      <4> QED
        BY <4>1, <3>2, <1>2 DEF SlotsSound, Object
    <3> QED
      BY <3>1, <3>2
  <2>5. SlotsSound'
    BY <2>1, <2>4, <1>4 DEF SlotsSound
  <2>6. Placed'
    BY <2>1, <1>2, <1>4 DEF Placed, Relocated
  <2>7. next \in Linking
    BY <1>4 DEF Linking
  <2> QED
    BY <2>5, <2>6, <2>7, <1>1, <1>4, OnwardSound
<1> QED
  BY <1>1, <1>3, <1>4

-----------------------------------------------------------------------------
(* An object is placed.                                                    *)

LEMMA ConcatFacts ==
    ASSUME NEW q, IsSeq(q), NEW t, IsSeq(t)
    PROVE  /\ IsSeq(q \o t) /\ Len(q \o t) = Len(q) + Len(t)
           /\ \A k \in 1 .. Len(q) : (q \o t)[k] = q[k]
           /\ \A k \in 1 .. Len(t) : (q \o t)[Len(q) + k] = t[k]
<1>1. PICK S : q \in Seq(S)
  BY DEF IsSeq
<1>2. PICK T : t \in Seq(T)
  BY DEF IsSeq
<1>3. q \in Seq(S \cup T) /\ t \in Seq(S \cup T)
  BY <1>1, <1>2
<1> DEFINE U == S \cup T
<1> HIDE DEF U
<1>4. q \in Seq(U) /\ t \in Seq(U)
  BY <1>3 DEF U
<1>5. q \o t \in Seq(U)
  BY <1>4
<1>6. Len(q \o t) = Len(q) + Len(t)
  BY <1>4
<1>7. \A k \in 1 .. Len(q) : (q \o t)[k] = q[k]
  BY <1>4
<1>8. \A k \in 1 .. Len(t) : (q \o t)[Len(q) + k] = t[k]
  BY <1>4
<1> QED
  BY <1>5, <1>6, <1>7, <1>8 DEF IsSeq

\* The sections of the object at hand, as they are linked.
Sections ==
    [s \in DOMAIN Object.sections |->
        [base |-> FinalBase(i, s), code |-> Object.sections[s].code,
         lines |-> Object.sections[s].lines,
         relocs |-> Object.sections[s].relocs, obj |-> i, index |-> s]]

Room == IF Object.relocatable THEN CodeOf(Object.sections) ELSE 0

LEMMA SectionsFacts ==
    ASSUME LinkInv, phase = "ingest"
    PROVE  /\ IsSeq(Sections) /\ Len(Sections) = Len(Object.sections) /\ Room \in Nat
           /\ \A s \in 1 .. Len(Sections) : Sections[s].obj = i
           /\ objects[i].relocatable =>
                 /\ Len(Sections) <= 1
                 /\ \A s \in 1 .. Len(Sections) :
                       /\ Sections[s].base = BaseAddress + offset
                       /\ Sections[s].code \in Nat /\ Sections[s].code = Room
<1> DEFINE q == Object.sections
           n == Len(q)
<1>1. i \in 1 .. Len(objects) /\ ObjectSound(i) /\ SlotsSound /\ Placed
  BY ObjectAt
<1>2. /\ SectionsShape(q) /\ Object.relocatable \in BOOLEAN
      /\ Object.relocatable => n <= 1 /\ \A k \in 1 .. n : q[k].base = Origin
  BY <1>1 DEF ObjectSound, Object
<1>3. IsSeq(q) /\ n \in Nat /\ DOMAIN q = 1 .. n /\ \A k \in 1 .. n : q[k].code \in Nat
  BY <1>2, SeqFacts DEF SectionsShape, SectionShape
<1>4. Sections = [s \in 1 .. n |-> Sections[s]]
  BY <1>3 DEF Sections
<1>5. IsSeq(Sections) /\ Len(Sections) = n
  <2> DEFINE S == {Sections[s] : s \in 1 .. n}
  <2>1. \A s \in 1 .. n : Sections[s] \in S
    OBVIOUS
  <2> HIDE DEF S
  <2>2. Sections \in Seq(S) /\ Len(Sections) = n
    BY <1>3, <1>4, <2>1
  <2> QED
    BY <2>2 DEF IsSeq
<1>6. \A s \in 1 .. n : /\ Sections[s].obj = i /\ Sections[s].code = q[s].code
                        /\ Sections[s].base = FinalBase(i, s)
  BY <1>3 DEF Sections
<1>7. CodeOf(q) \in Nat
  BY <1>3, CodeNat
<1>8. Room \in Nat
  BY <1>7 DEF Room
<1>9. ASSUME Object.relocatable, NEW s \in 1 .. n
      PROVE  /\ Sections[s].base = BaseAddress + offset
             /\ Sections[s].code \in Nat /\ Sections[s].code = Room
  <2>1. n = 1 /\ s = 1
    <3>1. n <= 1
      <4> HIDE DEF q, n
      <4> QED
        BY <1>2, <1>9
    <3>2. n \in Nat
      BY <1>3
    <3> HIDE DEF n
    <3> QED
      BY <3>1, <3>2
  <2>2. q[1].base = Origin /\ q # <<>>
    <3>1. 1 \in 1 .. n /\ n # 0
      BY <2>1
    <3>2. q # <<>>
      BY <3>1
    <3> HIDE DEF q, n
    <3>3. q[1].base = Origin
      BY <3>1, <1>2, <1>9
    <3> QED
      BY <3>2, <3>3
  <2>3. ~Pooled(i, 1)
    <3>1. <<i, 1>> \in DOMAIN slots => ~objects[<<i, 1>>[1]].relocatable
      BY <1>1 DEF SlotsSound
    <3> QED
      BY <3>1, <1>9 DEF Pooled, Object
  <2>4. FinalBase(i, 1) = q[1].base + (BaseAddress + offset - q[1].base)
    BY <2>2, <2>3, <1>9 DEF FinalBase, DeltaFor, Object
  <2>5. Origin \in Nat /\ BaseAddress \in Nat /\ offset \in Nat
    BY <1>1, ProgramAssumption, BaseAssumption DEF Placed
  <2>6. FinalBase(i, 1) = BaseAddress + offset
    BY <2>2, <2>4, <2>5
  <2>7. CodeOf(q) = q[1].code
    <3> DEFINE x == q[1]
    <3>1. IsSeq(<<>>) /\ Len(<<>>) = 0
      BY DEF IsSeq
    <3> HIDE DEF x
    <3>2. IsSeq(Append(<<>>, x)) /\ Len(Append(<<>>, x)) = 1 /\ Append(<<>>, x)[1] = x
      <4> DEFINE e == <<>>
      <4>1. IsSeq(e) /\ Len(e) = 0
        BY <3>1
      <4> HIDE DEF e
      <4>2. IsSeq(Append(e, x)) /\ Len(Append(e, x)) = Len(e) + 1 /\ Append(e, x)[Len(e) + 1] = x
        BY <4>1, AppendFacts
      <4>3. Len(e) + 1 = 1
        BY <4>1
      <4> QED
        BY <4>2, <4>3 DEF e
    <3>3. Append(<<>>, x) = q
      BY <3>2, <2>1, <1>3, SameSequence DEF x
    <3>4. CodeOf(Append(<<>>, x)) = CodeOf(<<>>) + x.code
      BY <3>1, CodeAppend
    <3> QED
      BY <3>3, <3>4, <2>1, <1>3, NoCode DEF x
  <2> QED
    BY <2>1, <2>6, <2>7, <1>3, <1>6, <1>9 DEF Room
<1> QED
  BY <1>2, <1>5, <1>6, <1>8, <1>9 DEF Object
LEMMA IngestObjectSound ==
    ASSUME LinkInv, IngestObject
    PROVE  LinkInv'
<1> DEFINE end == BaseAddress + offset
<1>1. /\ phase = "ingest"
      /\ \/ UNCHANGED linkVars /\ \E reason : Fail(reason)
         \/ /\ linked' = linked \o Sections /\ offset' = offset + Room /\ slots' = slots
            /\ Onward(Len(objects), "aliases")
  BY DEF IngestObject, Abort, Sections, Room
<1>2. ASSUME NEW reason, Fail(reason), UNCHANGED linkVars PROVE LinkInv'
  BY <1>2, FailSound
<1>3. ASSUME linked' = linked \o Sections, offset' = offset + Room, slots' = slots,
             Onward(Len(objects), "aliases")
      PROVE  LinkInv'
  <2>1. objects' = objects
    BY <1>3 DEF Onward, Goto
  <2>2. /\ i \in 1 .. Len(objects) /\ SlotsSound
        /\ IsSeq(linked) /\ offset \in Nat /\ BaseAddress \in Nat
        /\ \A s \in 1 .. Len(linked) :
              /\ linked[s].obj \in 1 .. Len(objects)
              /\ Relocated(s) =>
                    /\ linked[s].base \in Nat /\ linked[s].code \in Nat
                    /\ linked[s].base + linked[s].code <= end
        /\ \A s, t \in 1 .. Len(linked) :
              s < t /\ Relocated(s) /\ Relocated(t) =>
                  linked[s].base + linked[s].code <= linked[t].base
    BY <1>1, ObjectAt, BaseAssumption DEF Placed
  <2>3. /\ IsSeq(Sections) /\ Room \in Nat
        /\ \A s \in 1 .. Len(Sections) : Sections[s].obj = i
        /\ objects[i].relocatable =>
              /\ Len(Sections) <= 1
              /\ \A s \in 1 .. Len(Sections) :
                    /\ Sections[s].base = end
                    /\ Sections[s].code \in Nat /\ Sections[s].code = Room
    BY <1>1, SectionsFacts
  <2>4. Len(linked) \in Nat /\ Len(Sections) \in Nat
    BY <2>2, <2>3, SeqFacts
  <2>5. /\ IsSeq(linked') /\ Len(linked') = Len(linked) + Len(Sections)
        /\ \A s \in 1 .. Len(linked) : linked'[s] = linked[s]
        /\ \A s \in 1 .. Len(Sections) : linked'[Len(linked) + s] = Sections[s]
    BY <2>2, <2>3, <1>3, ConcatFacts
  <2>6. ASSUME NEW s \in 1 .. Len(linked)
        PROVE  /\ s \in 1 .. Len(linked') /\ linked'[s] = linked[s] /\ Relocated(s)' = Relocated(s)
    BY <2>1, <2>4, <2>5 DEF Relocated
  <2>7. ASSUME NEW s \in 1 .. Len(linked'), s > Len(linked)
        PROVE  /\ linked'[s].obj = i
               /\ Relocated(s)' =>
                     /\ s = Len(linked) + 1
                     /\ linked'[s].base = end
                     /\ linked'[s].code \in Nat /\ linked'[s].code = Room
    <3> DEFINE k == s - Len(linked)
    <3>1. k \in 1 .. Len(Sections) /\ Len(linked) + k = s
      BY <2>4, <2>5, <2>7
    <3>2. linked'[s] = Sections[k]
      BY <3>1, <2>5
    <3>3. linked'[s].obj = i
      BY <3>1, <3>2, <2>3
    <3>4. ASSUME Relocated(s)'
          PROVE  /\ s = Len(linked) + 1
                 /\ linked'[s].base = end
                 /\ linked'[s].code \in Nat /\ linked'[s].code = Room
      <4>1. objects[i].relocatable
        BY <3>3, <3>4, <2>1 DEF Relocated
      <4>2. Len(Sections) <= 1
        BY <4>1, <2>3
      <4>3. Sections[k].base = end /\ Sections[k].code \in Nat /\ Sections[k].code = Room
        BY <4>1, <3>1, <2>3
      <4>4. s = Len(linked) + 1
        BY <4>2, <3>1, <2>4
      <4> QED
        BY <4>3, <4>4, <3>2
    <3> QED
      BY <3>3, <3>4
  <2>8. offset' \in Nat /\ BaseAddress + offset' = end + Room /\ end \in Nat
    BY <2>2, <2>3, <1>3
  <2> HIDE DEF end
  <2>9. ASSUME NEW s \in 1 .. Len(linked')
        PROVE  /\ linked'[s].obj \in 1 .. Len(objects')
               /\ Relocated(s)' =>
                     /\ linked'[s].base \in Nat /\ linked'[s].code \in Nat
                     /\ linked'[s].base + linked'[s].code <= BaseAddress + offset'
    <3>1. CASE s <= Len(linked)
      <4>1. s \in 1 .. Len(linked)
        BY <3>1, <2>4
      <4>2. linked'[s] = linked[s] /\ Relocated(s)' = Relocated(s)
        BY <4>1, <2>6
      <4>3. linked[s].obj \in 1 .. Len(objects)
        BY <4>1, <2>2
      <4>4. Relocated(s) => /\ linked[s].base \in Nat /\ linked[s].code \in Nat
                            /\ linked[s].base + linked[s].code <= end
        BY <4>1, <2>2
      <4>5. ASSUME Relocated(s)'
            PROVE  /\ linked'[s].base \in Nat /\ linked'[s].code \in Nat
                   /\ linked'[s].base + linked'[s].code <= BaseAddress + offset'
        <5>1. /\ linked'[s].base \in Nat /\ linked'[s].code \in Nat
              /\ linked'[s].base + linked'[s].code <= end
          BY <4>2, <4>4, <4>5
        <5> QED
          BY <5>1, <2>3, <2>8
      <4> QED
        BY <4>2, <4>3, <4>5, <2>1
    <3>2. CASE s > Len(linked)
      <4>1. linked'[s].obj \in 1 .. Len(objects')
        BY <3>2, <2>1, <2>2, <2>7
      <4>2. ASSUME Relocated(s)'
            PROVE  /\ linked'[s].base \in Nat /\ linked'[s].code \in Nat
                   /\ linked'[s].base + linked'[s].code <= BaseAddress + offset'
        <5>1. linked'[s].base = end /\ linked'[s].code \in Nat /\ linked'[s].code = Room
          BY <3>2, <4>2, <2>7
        <5> QED
          BY <5>1, <2>8
      <4> QED
        BY <4>1, <4>2
    <3> QED
      BY <3>1, <3>2, <2>4
  <2>10. ASSUME NEW s \in 1 .. Len(linked'), NEW t \in 1 .. Len(linked'), s < t,
                Relocated(s)', Relocated(t)'
         PROVE  linked'[s].base + linked'[s].code <= linked'[t].base
    <3>1. CASE t <= Len(linked)
      <4>1. s \in 1 .. Len(linked) /\ t \in 1 .. Len(linked)
        BY <3>1, <2>4, <2>10
      <4>2. /\ linked'[s] = linked[s] /\ Relocated(s)' = Relocated(s)
            /\ linked'[t] = linked[t] /\ Relocated(t)' = Relocated(t)
        BY <4>1, <2>6
      <4>3. linked[s].base + linked[s].code <= linked[t].base
        BY <4>1, <4>2, <2>2, <2>10
      <4> QED
        BY <4>2, <4>3
    <3>2. CASE t > Len(linked)
      <4>1. t = Len(linked) + 1 /\ linked'[t].base = end
        BY <3>2, <2>7, <2>10
      <4>2. s \in 1 .. Len(linked)
        BY <4>1, <2>4, <2>10
      <4>3. linked'[s] = linked[s] /\ Relocated(s)' = Relocated(s)
        BY <4>2, <2>6
      <4>4. linked[s].base + linked[s].code <= end
        BY <4>2, <4>3, <2>2, <2>10
      <4> QED
        BY <4>1, <4>3, <4>4
    <3> QED
      BY <3>1, <3>2, <2>4
  <2>11. Placed'
    BY <2>5, <2>8, <2>9, <2>10 DEF Placed
  <2>12. SlotsSound'
    BY <2>1, <2>2, <1>3 DEF SlotsSound
  <2> QED
    BY <2>11, <2>12, <1>1, <1>3, OnwardSound DEF Linking
<1> QED
  BY <1>1, <1>2, <1>3

-----------------------------------------------------------------------------
(* What the resolver knows while a module is walked.                       *)

LEMMA SizeNat ==
    ASSUME NEW body \in Seq(BodyNodes)
    PROVE  SizeOf(body) \in Nat
<1> DEFINE n == Len(body)
<1>1. n \in Nat
  OBVIOUS
<1>2. PICK run : LengthSteps!IsRun(0, body, run) /\ LengthSteps!Left(0, body) = run[n]
  BY <1>1, LengthSteps!FoldIsRun
<1> DEFINE D == {k \in 0 .. n : run[k] \in Nat}
<1>3. 0 \in D
  BY <1>1, <1>2 DEF LengthSteps!IsRun
<1>4. ASSUME NEW k \in 1 .. n, k - 1 \in D PROVE k \in D
  <2>1. run[k] = run[k - 1] + Length(body[k])
    BY <1>2 DEF LengthSteps!IsRun, AddLength
  <2>2. body[k] \in BodyNodes
    OBVIOUS
  <2>3. Length(body[k]) \in Nat
    BY <2>2 DEF Length, BodyNodes
  <2> QED
    BY <1>4, <2>1, <2>3
<1> HIDE DEF D
<1>5. n \in D
  BY <1>1, <1>3, <1>4, CodeSteps!UpFromZero
<1> QED
  BY <1>2, <1>5, LengthFold DEF D

LEMMA OverAddresses ==
    ASSUME NEW f, NEW d, Addresses(f), Addresses(d)
    PROVE  Addresses(Over(f, d))
BY DEF Addresses, Over

LEMMA BoundAddresses ==
    ASSUME NEW d, Addresses(d), NEW x, NEW v \in Nat
    PROVE  Addresses(Bound(d, x, v))
BY DEF Addresses, Bound

\* The sandbox of a pool starts at its first range.
LEMMA SandboxNat ==
    ASSUME ResolverInv, NEW pool \in DOMAIN pools
    PROVE  Cursor(pool) \in Nat /\ SandboxPc(pool) \in Nat
<1> DEFINE B == {r.lo : r \in pools[pool].ranges}
<1>1. B \in SUBSET Nat /\ B # {}
  BY DEF ResolverInv, PoolTaken, Ranges
<1> HIDE DEF B
<1>2. PICK x \in B : \A y \in B : x <= y
  BY <1>1, CodeSteps!LeastNumber
<1>3. Min(B) \in B
  BY <1>2 DEF Min
<1>4. Cursor(pool) \in Nat
  BY DEF ResolverInv, Cursor, Addresses
<1>5. SandboxPc(pool) = Min(B) + Cursor(pool)
  BY DEF SandboxPc, B
<1>6. PICK least : least = Min(B)
  OBVIOUS
<1>7. least \in Nat
  BY <1>1, <1>3, <1>6
<1>8. PICK c : c = Cursor(pool)
  OBVIOUS
<1>9. least + c \in Nat
  BY <1>4, <1>7, <1>8
<1>10. SandboxPc(pool) = least + c
  BY <1>5, <1>6, <1>8, Zenon
<1> QED
  BY <1>4, <1>9, <1>10

\* The labels of a body lie behind its start.
LEMMA BodyLabelsNat ==
    ASSUME NEW j, source[m][j].body \in Seq(BodyNodes), NEW base \in Nat
    PROVE  Addresses(BodyLabels(j, base))
<1> DEFINE n == source[m][j]
           marks == {k \in DOMAIN n.body : n.body[k].kind = "label"}
           Names == {BodyName(m, j, n.body[k].id) : k \in marks}
           At1(x) == CHOOSE k \in marks : BodyName(m, j, n.body[k].id) = x
           inner == [x \in Names |-> base + SizeOf(SubSeq(n.body, 1, At1(x) - 1))]
           own == [x \in {Plain(n.id)} |-> base]
<1>1. ASSUME NEW x \in Names PROVE inner[x] \in Nat
  <2> DEFINE k == At1(x)
  <2>1. k \in marks
    OBVIOUS
  <2>2. k \in 1 .. Len(n.body)
    BY <2>1
  <2> HIDE DEF k, marks
  <2>3. SubSeq(n.body, 1, k - 1) \in Seq(BodyNodes)
    <3>1. k - 1 \in 0 .. Len(n.body)
      BY <2>2
    <3> QED
      BY <3>1
  <2>4. SizeOf(SubSeq(n.body, 1, k - 1)) \in Nat
    BY <2>3, SizeNat
  <2> QED
    BY <2>4 DEF k
<1>2. Addresses(inner)
  BY <1>1 DEF Addresses
<1>3. Addresses(own)
  BY DEF Addresses
<1>4. BodyLabels(j, base) = Over(inner, own)
  BY DEF BodyLabels
<1> HIDE DEF inner, own
<1> QED
  BY <1>2, <1>3, <1>4, OverAddresses

\* Code generation goes on to the next node.
LEMMA GeneratedOn ==
    ASSUME LinkInv, ResolverInv, At("codegen"), Advance,
           UNCHANGED <<cursors, here, labels, sandbox>>,
           DOMAIN pools \subseteq DOMAIN pools', \A p \in DOMAIN pools' : PoolTaken(pools'[p]),
           IsAlloc(Node) => Node.pool \in DOMAIN pools'
    PROVE  ResolverInv'
<1>1. phase = "codegen" /\ m <= Len(source) /\ phase' = phase /\ i' = i + 1 /\ source' = source
      /\ objects' = objects /\ m' = m
  BY DEF At, Advance, m
<1>2. Compiling
  BY <1>1 DEF Compiling, Walks
<1>3. i \in 1 .. Len(source[m]) + 1 /\ PoolsKnown(i - 1)
  BY <1>1, <1>2 DEF LinkInv, CompileSound, ResolverInv
<1>4. i \in Nat /\ i' - 1 = i
  BY <1>1, <1>3
<1>5. ASSUME NEW j \in 1 .. i, IsAlloc(source[m][j]) PROVE source[m][j].pool \in DOMAIN pools'
  <2>1. CASE j = i
    BY <2>1, <1>5 DEF Node
  <2>2. CASE j # i
    BY <2>2, <1>3, <1>4, <1>5 DEF PoolsKnown
  <2> QED
    BY <2>1, <2>2
<1>6. PoolsKnown(i - 1)'
  BY <1>1, <1>4, <1>5 DEF PoolsKnown
<1> QED
  BY <1>1, <1>6 DEF ResolverInv, Addresses

\* The other walks leave the pools alone.
LEMMA ResolvedOn ==
    ASSUME ResolverInv, phase \in Walks \ {"codegen"}, Advance, pools' = pools,
           here' \in Nat, Addresses(labels'), Addresses(cursors'),
           \A j \in DOMAIN sandbox' : sandbox'[j].base \in Nat
    PROVE  ResolverInv'
<1>1. phase' = phase /\ source' = source /\ objects' = objects /\ m' = m
  BY DEF Advance, m
<1>2. Compiling' = Compiling
  BY <1>1 DEF Compiling
<1>3. Compiling /\ phase # "codegen" => PoolsKnown(Len(source[m]))
  BY DEF ResolverInv
<1>4. PoolsKnown(Len(source[m]))' = PoolsKnown(Len(source[m]))
  BY <1>1 DEF PoolsKnown
<1> QED
  BY <1>1, <1>2, <1>3, <1>4 DEF ResolverInv

LEMMA ResolverRests ==
    ASSUME ResolverInv, UNCHANGED <<pools, cursors, here, labels, sandbox>>,
           phase' \notin Walks
    PROVE  ResolverInv'
BY DEF ResolverInv, Compiling, Addresses

LEMMA FailResolver ==
    ASSUME ResolverInv, NEW reason, Fail(reason)
    PROVE  ResolverInv'
<1>1. phase' \notin Walks /\ UNCHANGED <<pools, cursors, here, labels, sandbox>>
  BY DEF Fail, Walks, compileVars
<1> QED
  BY <1>1, ResolverRests

\* A step of a walk is at a node.
LEMMA AtWalk ==
    ASSUME LinkInv, NEW walk \in Walks, At(walk)
    PROVE  /\ phase = walk /\ Compiling /\ ObjectsSound
           /\ i \in 1 .. Len(source[m]) /\ Node \in Nodes
<1>1. phase = walk /\ m <= Len(source) /\ i <= Len(source[m])
  BY DEF At
<1>2. ObjectsSound /\ Compiling
  BY <1>1 DEF LinkInv, Compiling
<1>3. i \in 1 .. Len(source[m]) + 1
  BY <1>2 DEF LinkInv, CompileSound
<1>4. source \in Seq(Seq(Nodes)) /\ IsSeq(objects)
  BY <1>2, ProgramAssumption DEF ObjectsSound
<1>5. m \in 1 .. Len(source)
  BY <1>1, <1>4, SeqFacts DEF m
<1>6. i \in 1 .. Len(source[m])
  BY <1>1, <1>3, <1>4, <1>5
<1> QED
  BY <1>1, <1>2, <1>6, AtNode

\* generate_pool and _synthesize_pinned_pool.
LEMMA NewPoolTaken ==
    ASSUME NEW x \in Nodes, NEW pool,
           \/ /\ x.kind = "pool" /\ Disjoint(x.ranges)
              /\ pool = [ranges |-> Normalize(x.ranges), strategy |-> x.strategy, bss |-> x.bss]
           \/ /\ x.kind = "at"
              /\ pool = [ranges |-> {x.range}, strategy |-> "pack", bss |-> FALSE]
    PROVE  PoolTaken(pool)
<1>1. CASE /\ x.kind = "pool" /\ Disjoint(x.ranges)
           /\ pool = [ranges |-> Normalize(x.ranges), strategy |-> x.strategy, bss |-> x.bss]
  <2>1. /\ x.ranges \in SUBSET Ranges /\ NonEmpty(x.ranges)
        /\ x.ranges # {} /\ IsFiniteSet(x.ranges)
    BY <1>1, PoolNode, TakenFacts
  <2>2. PICK N : N = Normalize(x.ranges)
    OBVIOUS
  <2>3. N \in SUBSET Ranges /\ NonEmpty(N) /\ Disjoint(N) /\ N # {} /\ IsFiniteSet(N)
    BY <1>1, <2>1, <2>2, NormalizeType, NormalizeDisjoint, NormalizeNotEmpty, NormalizeFinite
  <2>4. pool = [ranges |-> N, strategy |-> x.strategy, bss |-> x.bss]
    BY <1>1, <2>2
  <2> QED
    BY <2>3, <2>4 DEF PoolTaken
<1>2. CASE /\ x.kind = "at"
           /\ pool = [ranges |-> {x.range}, strategy |-> "pack", bss |-> FALSE]
  <2>1. PICK N : N = {x.range}
    OBVIOUS
  <2>2. {x.range} \in SUBSET RangesTaken
    BY <1>2, PoolNode
  <2>3. N \in SUBSET Ranges /\ NonEmpty(N)
    BY <2>1, <2>2, TakenFacts
  <2>4. Disjoint(N) /\ N # {}
    BY <2>1 DEF Disjoint
  <2>5. IsFiniteSet(N)
    BY <2>1, FS_Singleton
  <2>6. pool = [ranges |-> N, strategy |-> "pack", bss |-> FALSE]
    BY <1>2, <2>1
  <2> QED
    BY <2>3, <2>4, <2>5, <2>6 DEF PoolTaken
<1> QED
  BY <1>1, <1>2

\* generate_reclaim.
LEMMA WiderPoolTaken ==
    ASSUME NEW p, PoolTaken(p), NEW r \in RangesTaken, \A s \in p.ranges : ~Overlaps(s, r)
    PROVE  PoolTaken([p EXCEPT !.ranges = Normalize(@ \cup {r})])
<1>1. PICK S : S = p.ranges \cup {r}
  OBVIOUS
<1>2. r \in Ranges /\ r.lo <= r.hi
  BY DEF RangesTaken, ValidRange
<1>3. S \in SUBSET Ranges /\ NonEmpty(S) /\ S # {}
  BY <1>1, <1>2 DEF PoolTaken, NonEmpty
<1>4. IsFiniteSet(S)
  BY <1>1, FS_AddElement DEF PoolTaken
<1>5. Disjoint(S)
  BY <1>1, <1>2 DEF PoolTaken, Disjoint, Overlaps, Ranges
<1>6. PICK N : N = Normalize(S)
  OBVIOUS
<1>7. N \in SUBSET Ranges /\ NonEmpty(N) /\ Disjoint(N) /\ N # {} /\ IsFiniteSet(N)
  BY <1>3, <1>4, <1>5, <1>6, NormalizeType, NormalizeDisjoint, NormalizeNotEmpty, NormalizeFinite
<1>8. PICK q : q = [p EXCEPT !.ranges = N]
  OBVIOUS
<1>9. q = [ranges |-> N, strategy |-> p.strategy, bss |-> p.bss]
  BY <1>8 DEF PoolTaken
<1>10. PoolTaken(q)
  BY <1>7, <1>9 DEF PoolTaken
<1> QED
  BY <1>1, <1>6, <1>8, <1>10

LEMMA GenerateResolver ==
    ASSUME LinkInv, ResolverInv,
           GeneratePool \/ GenerateReclaim \/ GenerateAlloc \/ GeneratePinned \/ GenerateOther
    PROVE  ResolverInv'
<1>1. At("codegen")
  BY DEF GeneratePool, GenerateReclaim, GenerateAlloc, GeneratePinned, GenerateOther
<1>2. Node \in Nodes
  BY <1>1, AtWalk DEF Walks
<1>3. \A p \in DOMAIN pools : PoolTaken(pools[p])
  BY DEF ResolverInv
<1>4. ASSUME NEW reason, Fail(reason) PROVE ResolverInv'
  BY <1>4, FailResolver
<1>5. ASSUME NEW name, NEW pool, PoolTaken(pool), pools' = Bound(pools, name, pool)
      PROVE  /\ DOMAIN pools \subseteq DOMAIN pools' /\ name \in DOMAIN pools'
             /\ \A p \in DOMAIN pools' : PoolTaken(pools'[p])
  BY <1>3, <1>5 DEF Bound
<1>6. CASE GeneratePool
  <2> DEFINE pool == [ranges |-> Normalize(Node.ranges), strategy |-> Node.strategy,
                      bss |-> Node.bss]
  <2>1. \/ \E reason : Fail(reason)
        \/ Disjoint(Node.ranges) /\ Advance /\ UNCHANGED compileVars
        \/ /\ Disjoint(Node.ranges) /\ pools' = Bound(pools, Node.pool, pool) /\ Advance
           /\ UNCHANGED <<cursors, here, labels, sandbox>>
    BY <1>6 DEF GeneratePool
  <2>2. Node.kind = "pool" /\ ~IsAlloc(Node)
    BY <1>6 DEF GeneratePool, IsAlloc
  <2>3. Disjoint(Node.ranges) => PoolTaken(pool)
    BY <2>2, <1>2, NewPoolTaken
  <2> HIDE DEF pool
  <2>4. CASE Advance /\ UNCHANGED compileVars
    BY <2>2, <2>4, <1>1, <1>3, GeneratedOn DEF compileVars
  <2>5. CASE /\ Disjoint(Node.ranges) /\ pools' = Bound(pools, Node.pool, pool) /\ Advance
             /\ UNCHANGED <<cursors, here, labels, sandbox>>
    <3>1. /\ DOMAIN pools \subseteq DOMAIN pools'
          /\ \A p \in DOMAIN pools' : PoolTaken(pools'[p])
      BY <2>3, <2>5, <1>5
    <3> QED
      BY <3>1, <2>2, <2>5, <1>1, GeneratedOn
  <2> QED
    BY <2>1, <2>4, <2>5, <1>4
<1>7. CASE GenerateReclaim
  <2>1. Node.kind = "reclaim" /\ ~IsAlloc(Node)
    BY <1>7 DEF GenerateReclaim, IsAlloc
  <2>2. \/ \E reason : Fail(reason)
        \/ /\ Node.pool \in DOMAIN pools
           /\ \A r \in pools[Node.pool].ranges : ~Overlaps(r, Node.range)
           /\ pools' = [pools EXCEPT ![Node.pool].ranges = Normalize(@ \cup {Node.range})]
           /\ Advance /\ UNCHANGED <<cursors, here, labels, sandbox>>
    BY <1>7 DEF GenerateReclaim
  <2>3. CASE /\ Node.pool \in DOMAIN pools
             /\ \A r \in pools[Node.pool].ranges : ~Overlaps(r, Node.range)
             /\ pools' = [pools EXCEPT ![Node.pool].ranges = Normalize(@ \cup {Node.range})]
             /\ Advance /\ UNCHANGED <<cursors, here, labels, sandbox>>
    <3>1. PICK p : p = pools[Node.pool]
      OBVIOUS
    <3>2. PICK q : q = [p EXCEPT !.ranges = Normalize(@ \cup {Node.range})]
      OBVIOUS
    <3>3. Node.range \in RangesTaken
      BY <2>1, <1>2, PoolNode
    <3>4. PoolTaken(q)
      BY <3>1, <3>2, <3>3, <2>3, <1>3, WiderPoolTaken
    <3>5. pools' = [pools EXCEPT ![Node.pool] = q]
      BY <2>3, <3>1, <3>2
    <3>6. /\ DOMAIN pools \subseteq DOMAIN pools'
          /\ \A x \in DOMAIN pools' : PoolTaken(pools'[x])
      BY <3>4, <3>5, <1>3
    <3> QED
      BY <3>6, <2>1, <2>3, <1>1, GeneratedOn
  <2> QED
    BY <2>2, <2>3, <1>4
<1>8. CASE GenerateAlloc
  <2>1. \/ \E reason : Fail(reason)
        \/ Node.pool \in DOMAIN pools /\ Advance /\ UNCHANGED compileVars
    BY <1>8 DEF GenerateAlloc
  <2>2. CASE Node.pool \in DOMAIN pools /\ Advance /\ UNCHANGED compileVars
    BY <2>2, <1>1, <1>3, GeneratedOn DEF compileVars
  <2> QED
    BY <2>1, <2>2, <1>4
<1>9. CASE GeneratePinned
  <2> DEFINE pool == [ranges |-> {Node.range}, strategy |-> "pack", bss |-> FALSE]
  <2>1. /\ Node.kind = "at" /\ Advance /\ UNCHANGED <<cursors, here, labels, sandbox>>
        /\ \/ Node.pool \in DOMAIN pools /\ pools' = pools
           \/ pools' = Bound(pools, Node.pool, pool)
    BY <1>9 DEF GeneratePinned
  <2>2. PoolTaken(pool)
    BY <2>1, <1>2, NewPoolTaken
  <2> HIDE DEF pool
  <2>3. /\ DOMAIN pools \subseteq DOMAIN pools' /\ Node.pool \in DOMAIN pools'
        /\ \A p \in DOMAIN pools' : PoolTaken(pools'[p])
    BY <2>1, <2>2, <1>3, <1>5
  <2> QED
    BY <2>1, <2>3, <1>1, GeneratedOn
<1>10. CASE GenerateOther
  <2>1. ~IsAlloc(Node) /\ Advance /\ UNCHANGED compileVars
    BY <1>10 DEF GenerateOther, IsAlloc
  <2> QED
    BY <2>1, <1>1, <1>3, GeneratedOn DEF compileVars
<1> QED
  BY <1>6, <1>7, <1>8, <1>9, <1>10

\* The first resolver pass: a slot in the sandbox, labels, the address.
LEMMA Pass1Resolver ==
    ASSUME LinkInv, ResolverInv,
           RequestSlot \/ BindLabel \/ DeclareLabel \/ DeclareExtern \/ MoveOn \/ PassOver
    PROVE  ResolverInv'
<1>1. At("pass1") /\ Advance
  BY DEF RequestSlot, BindLabel, DeclareLabel, DeclareExtern, MoveOn, PassOver
<1>2. /\ phase = "pass1" /\ phase \in Walks \ {"codegen"} /\ Compiling
      /\ i \in 1 .. Len(source[m]) /\ Node \in Nodes
  BY <1>1, AtWalk DEF Walks
<1>3. /\ here \in Nat /\ Addresses(labels) /\ Addresses(cursors)
      /\ \A j \in DOMAIN sandbox : sandbox[j].base \in Nat
  BY DEF ResolverInv
<1>4. CASE RequestSlot
  <2>1. /\ IsAlloc(Node) /\ pools' = pools /\ here' = here
        /\ sandbox' = Bound(sandbox, i, [base |-> SandboxPc(Node.pool), size |-> SlotSize(Node)])
        /\ labels' = Over(BodyLabels(i, SandboxPc(Node.pool)), labels)
        /\ cursors' = Bound(cursors, Node.pool, Cursor(Node.pool) + SlotSize(Node))
    BY <1>4 DEF RequestSlot
  <2>2. Node.pool \in DOMAIN pools
    BY <2>1, <1>2 DEF ResolverInv, PoolsKnown, Node
  <2>3. Cursor(Node.pool) \in Nat /\ SandboxPc(Node.pool) \in Nat
    BY <2>2, SandboxNat
  <2>4. Node.body \in Seq(BodyNodes)
    BY <2>1, <1>2, NodeFacts
  <2>5. SlotSize(Node) \in Nat
    BY <2>1, <2>4, EmittedFits
  <2>6. Addresses(cursors')
    BY <2>1, <2>3, <2>5, <1>3, BoundAddresses
  <2>7. Addresses(labels')
    <3>1. Addresses(BodyLabels(i, SandboxPc(Node.pool)))
      BY <2>3, <2>4, BodyLabelsNat DEF Node
    <3> QED
      BY <3>1, <2>1, <1>3, OverAddresses
  <2>8. \A j \in DOMAIN sandbox' : sandbox'[j].base \in Nat
    <3>1. PICK slot : slot = [base |-> SandboxPc(Node.pool), size |-> SlotSize(Node)]
      OBVIOUS
    <3>2. slot.base \in Nat /\ sandbox' = Bound(sandbox, i, slot)
      BY <3>1, <2>1, <2>3
    <3> QED
      BY <3>2, <1>3 DEF Bound
  <2> QED
    BY <2>1, <2>6, <2>7, <2>8, <1>1, <1>2, <1>3, ResolvedOn
<1>5. CASE BindLabel
  <2>1. /\ labels' = Bound(labels, Plain(Node.id), here)
        /\ pools' = pools /\ cursors' = cursors /\ here' = here /\ sandbox' = sandbox
    BY <1>5 DEF BindLabel
  <2>2. Addresses(labels')
    BY <2>1, <1>3, BoundAddresses
  <2> QED
    BY <2>1, <2>2, <1>1, <1>2, <1>3, ResolvedOn
<1>6. CASE DeclareLabel \/ DeclareExtern \/ PassOver
  <2>1. /\ labels' = labels
        /\ pools' = pools /\ cursors' = cursors /\ here' = here /\ sandbox' = sandbox
    BY <1>6 DEF DeclareLabel, DeclareExtern, PassOver, compileVars
  <2> QED
    BY <2>1, <1>1, <1>2, <1>3, ResolvedOn
<1>7. CASE MoveOn
  <2>1. /\ Node.kind \in {"bytes", "res", "org"}
        /\ here' = IF Node.kind = "org" THEN Node.to ELSE here + Node.size
        /\ labels' = labels /\ pools' = pools /\ cursors' = cursors /\ sandbox' = sandbox
    BY <1>7 DEF MoveOn
  <2>2. here' \in Nat
    BY <2>1, <1>2, <1>3, NodeFacts
  <2> QED
    BY <2>1, <2>2, <1>1, <1>2, <1>3, ResolvedOn
<1> QED
  BY <1>4, <1>5, <1>6, <1>7

LEMMA Pass2Resolver ==
    ASSUME LinkInv, ResolverInv, RegisterAlias \/ RevisitOther
    PROVE  ResolverInv'
<1>1. /\ phase = "pass2"
      /\ \/ \E reason : Fail(reason)
         \/ Advance /\ UNCHANGED <<pools, cursors, here, labels, sandbox>>
  BY DEF RegisterAlias, RevisitOther, At, compileVars
<1>2. CASE Advance /\ UNCHANGED <<pools, cursors, here, labels, sandbox>>
  BY <1>1, <1>2, ResolvedOn DEF ResolverInv, Walks
<1> QED
  BY <1>1, <1>2, FailResolver

\* Emitting moves the address on.
LEMMA EmitResolver ==
    ASSUME LinkInv, ResolverInv, EmitAlloc \/ EmitBytes \/ EmitOrg \/ EmitIps \/ EmitNothing
    PROVE  ResolverInv'
<1>1. At("emit")
  BY DEF EmitAlloc, EmitBytes, EmitOrg, EmitIps, EmitNothing
<1>2. phase \in Walks \ {"codegen"} /\ Node \in Nodes
  BY <1>1, AtWalk DEF Walks
<1>3. \/ \E reason : Fail(reason)
      \/ /\ Advance /\ UNCHANGED <<pools, cursors, labels, sandbox>>
         /\ \/ here' = here
            \/ Node.kind = "bytes" /\ here' = here + Node.size
            \/ Node.kind = "org" /\ here' = Node.to
  <2>1. CASE EmitAlloc
    BY <2>1 DEF EmitAlloc
  <2>2. CASE EmitBytes
    BY <2>2 DEF EmitBytes
  <2>3. CASE EmitOrg
    BY <2>3 DEF EmitOrg
  <2>4. CASE EmitIps
    BY <2>4 DEF EmitIps
  <2>5. CASE EmitNothing
    BY <2>5 DEF EmitNothing, compileVars
  <2> QED
    BY <2>1, <2>2, <2>3, <2>4, <2>5
<1>4. CASE /\ Advance /\ UNCHANGED <<pools, cursors, labels, sandbox>>
           /\ \/ here' = here
              \/ Node.kind = "bytes" /\ here' = here + Node.size
              \/ Node.kind = "org" /\ here' = Node.to
  <2>1. here' \in Nat
    BY <1>2, <1>4, NodeFacts DEF ResolverInv
  <2> QED
    BY <2>1, <1>2, <1>4, ResolvedOn DEF ResolverInv
<1> QED
  BY <1>3, <1>4, FailResolver

\* A walk begins.
LEMMA WalkResolver ==
    ASSUME LinkInv, ResolverInv, NextWalk \/ ExportSymbols \/ FinishModule
    PROVE  ResolverInv'
<1>0. Origin \in Nat
  BY ProgramAssumption
<1>1. CASE NextWalk \/ ExportSymbols
  <2>1. /\ phase \in Walks /\ phase' \in Walks \ {"codegen"} /\ m <= Len(source)
        /\ phase = "codegen" => i > Len(source[m])
        /\ here' = Origin /\ source' = source /\ objects' = objects
        /\ UNCHANGED <<pools, cursors, labels, sandbox>>
    BY <1>1 DEF NextWalk, ExportSymbols, Walks
  <2>2. Compiling /\ m' = m
    BY <2>1 DEF Compiling, m
  <2>3. phase = "codegen" => i - 1 = Len(source[m])
    BY <2>1, <2>2, AtEnd
  <2>4. PoolsKnown(Len(source[m]))
    BY <2>2, <2>3 DEF ResolverInv
  <2>5. PoolsKnown(Len(source[m]))'
    BY <2>1, <2>2, <2>4 DEF PoolsKnown
  <2> QED
    BY <2>1, <2>5, <1>0 DEF ResolverInv, Addresses
<1>2. CASE FinishModule
  <2>1. /\ phase' \in {"codegen", "merge"} /\ i' = 1 /\ here' = Origin
        /\ pools' = NoFunction /\ cursors' = NoFunction /\ labels' = NoFunction
        /\ sandbox' = NoFunction
    BY <1>2 DEF FinishModule, ResetResolver
  <2>2. DOMAIN NoFunction = {}
    BY DEF NoFunction
  <2>3. i' - 1 = 0
    BY <2>1
  <2>4. PoolsKnown(i - 1)'
    BY <2>3 DEF PoolsKnown
  <2>5. Compiling' => phase' = "codegen"
    BY <2>1 DEF Compiling, Walks
  <2> QED
    BY <2>1, <2>2, <2>4, <2>5, <1>0 DEF ResolverInv, Addresses
<1> QED
  BY <1>1, <1>2

\* The linker has no resolver of its own.
LEMMA LinkResolver ==
    ASSUME ResolverInv, LinkNext
    PROVE  ResolverInv'
<1>1. ASSUME NEW reason, Fail(reason) PROVE ResolverInv'
  BY <1>1, FailResolver
<1>2. ASSUME NEW last, NEW next \in Linking, phase \in Linking, Onward(last, next)
      PROVE  ResolverInv'
  <2>1. phase' \notin Walks /\ UNCHANGED <<pools, cursors, here, labels, sandbox>>
    BY <1>2 DEF Onward, Goto, compileVars, Linking, Walks
  <2> QED
    BY <2>1, ResolverRests
<1>3. ASSUME NEW next \in Linking, Goto(next) PROVE ResolverInv'
  <2>1. phase' \notin Walks /\ UNCHANGED <<pools, cursors, here, labels, sandbox>>
    BY <1>3 DEF Goto, compileVars, Linking, Walks
  <2> QED
    BY <2>1, ResolverRests
<1>4. CASE MergePools
  BY <1>1, <1>2, <1>4 DEF MergePools, Abort, Linking
<1>5. CASE RequestSlots
  <2>1. \/ \E reason : Fail(reason)
        \/ phase = "request" /\ \E next \in {"ingest", "allocate"} : Onward(Len(objects), next)
    BY <1>5 DEF RequestSlots, Abort
  <2> QED
    BY <2>1, <1>1, <1>2 DEF Linking
<1>6. CASE AllocatePool
  BY <1>1, <1>2, <1>6 DEF AllocatePool, Abort, Linking
<1>7. CASE IngestObject
  <2>1. \/ \E reason : Fail(reason)
        \/ phase = "ingest" /\ Onward(Len(objects), "aliases")
    BY <1>7 DEF IngestObject, Abort
  <2> QED
    BY <2>1, <1>1, <1>2 DEF Linking
<1>8. CASE ResolveAliases
  <2>1. \/ \E reason : Fail(reason)
        \/ phase = "aliases" /\ UNCHANGED buildVars
    BY <1>8 DEF ResolveAliases, Abort
  <2>2. CASE phase = "aliases" /\ UNCHANGED buildVars
    <3>1. phase' \notin Walks /\ UNCHANGED <<pools, cursors, here, labels, sandbox>>
      BY <2>2 DEF buildVars, compileVars, Walks
    <3> QED
      BY <3>1, ResolverRests
  <2> QED
    BY <2>1, <2>2, <1>1
<1>9. CASE AliasesDone
  BY <1>3, <1>9 DEF AliasesDone, Linking
<1>10. CASE CheckUnresolved
  BY <1>1, <1>3, <1>10 DEF CheckUnresolved, Abort, Linking
<1>11. CASE ApplyRelocations
  <2>1. \/ \E reason : Fail(reason)
        \/ Goto("linked")
    BY <1>11 DEF ApplyRelocations, Abort
  <2> QED
    BY <2>1, <1>1, <1>3 DEF Linking
<1> QED
  BY <1>4, <1>5, <1>6, <1>7, <1>8, <1>9, <1>10, <1>11 DEF LinkNext

LEMMA ResolverInit == Init => ResolverInv
<1> SUFFICES ASSUME Init PROVE ResolverInv
  OBVIOUS
<1>1. /\ phase = "codegen" /\ i = 1 /\ here = Origin
      /\ pools = NoFunction /\ cursors = NoFunction /\ labels = NoFunction
      /\ sandbox = NoFunction
  BY DEF Init, InitBuild
<1>2. DOMAIN NoFunction = {} /\ Origin \in Nat
  BY ProgramAssumption DEF NoFunction
<1>3. i - 1 = 0
  BY <1>1
<1>4. PoolsKnown(i - 1)
  BY <1>3 DEF PoolsKnown
<1> QED
  BY <1>1, <1>2, <1>4 DEF ResolverInv, Addresses

LEMMA ResolverNext ==
    ASSUME LinkInv, ResolverInv, Next
    PROVE  ResolverInv'
BY GenerateResolver, Pass1Resolver, Pass2Resolver, EmitResolver, WalkResolver, LinkResolver
   DEF Next, CompileNext

LEMMA ResolverStutter ==
    ASSUME ResolverInv, UNCHANGED vars
    PROVE  ResolverInv'
<1>1. /\ source' = source /\ phase' = phase /\ i' = i /\ objects' = objects
      /\ UNCHANGED <<pools, cursors, here, labels, sandbox>>
  BY DEF vars, buildVars, compileVars
<1>2. m' = m /\ Compiling' = Compiling
  BY <1>1 DEF m, Compiling
<1> QED
  BY <1>1, <1>2 DEF ResolverInv, PoolsKnown, Addresses

-----------------------------------------------------------------------------
(* The theorems.                                                           *)

LEMMA LinkInit == Init => LinkInv
<1> SUFFICES ASSUME Init PROVE LinkInv
  OBVIOUS
<1>1. /\ source \in Programs /\ phase = "codegen" /\ i = 1 /\ writer = EmptyWriter
      /\ objects = <<>> /\ slots = NoFunction /\ linked = <<>> /\ offset = 0
  BY DEF Init, InitBuild, InitLink
<1>2. IsSeq(<<>>) /\ Len(<<>>) = 0
  BY DEF IsSeq
<1>3. source \in Seq(Seq(Nodes))
  BY <1>1, ProgramAssumption
<1>4. ObjectsSound
  <2>1. Len(source) \in Nat
    BY <1>3
  <2> QED
    BY <1>1, <1>2, <2>1 DEF ObjectsSound
<1>5. CompileSound
  <2>1. ASSUME Compiling PROVE i \in 1 .. Len(source[m]) + 1
    <3>1. m = 1 /\ m <= Len(source)
      BY <1>1, <1>2, <2>1 DEF m, Compiling
    <3>2. source[1] \in Seq(Nodes)
      BY <3>1, <1>3
    <3>3. Len(source[m]) \in Nat
      BY <3>1, <3>2
    <3> QED
      BY <3>3, <1>1
  <2> QED
    BY <1>1, <2>1, UnusedEmpty DEF CompileSound
<1>6. SlotsSound
  BY <1>1 DEF SlotsSound, NoFunction
<1>7. Placed
  BY <1>1, <1>2 DEF Placed
<1>8. LinkSound
  BY <1>1, <1>6, <1>7 DEF LinkSound, Walks
<1> QED
  BY <1>4, <1>5, <1>8 DEF LinkInv

LEMMA LinkNextSound ==
    ASSUME LinkInv, ResolverInv, Next
    PROVE  LinkInv'
BY CompileStepSound, MergePoolsSound, RequestSlotsSound, PlainSound, IngestObjectSound
   DEF Next, LinkNext

LEMMA LinkStutter ==
    ASSUME LinkInv, UNCHANGED vars
    PROVE  LinkInv'
<1>1. /\ source' = source /\ phase' = phase /\ i' = i /\ sandbox' = sandbox /\ writer' = writer
      /\ objects' = objects /\ slots' = slots /\ linked' = linked /\ offset' = offset
  BY DEF vars, buildVars, compileVars, linkVars
<1>2. ObjectsSound'
  BY <1>1, ObjectsStay DEF LinkInv
<1>3. SlotsSound' /\ Placed'
  BY <1>1, LinkStays DEF LinkInv, LinkSound
<1>4. m' = m /\ (Compiling' => Compiling)
  BY <1>1 DEF m, Compiling
<1>5. CompileSound'
  <2>1. ASSUME Compiling
        PROVE  /\ i' \in 1 .. Len(source'[m']) + 1
               /\ phase' \in {"codegen", "pass1", "pass2", "export"} => Unused(writer')
               /\ phase' = "pass1" => Measured(i - 1)'
               /\ phase' \in {"pass2", "export", "emit"} => Measured(Len(source[m]))'
               /\ phase' = "emit" => Emitting(writer, i - 1)'
    BY <2>1, <1>1, <1>4 DEF LinkInv, CompileSound, Measured, Emitting
  <2> QED
    BY <2>1, <1>4 DEF CompileSound
<1>6. LinkSound'
  BY <1>1, <1>3 DEF LinkInv, LinkSound
<1> QED
  BY <1>2, <1>5, <1>6 DEF LinkInv

\* The inductive invariant holds: what the writer has pending and written
\* adds up to what the nodes so far emit, each finished object file is whole,
\* and what is linked lies below the running offset.  The resolver knows the
\* pool of every alloc it lays out, with a first range to start the sandbox at.
THEOREM LinkInvariant == Spec => [](LinkInv /\ ResolverInv)
<1>1. Init => LinkInv /\ ResolverInv
  BY LinkInit, ResolverInit
<1>2. LinkInv /\ ResolverInv /\ [Next]_vars => LinkInv' /\ ResolverInv'
  BY LinkNextSound, LinkStutter, ResolverNext, ResolverStutter
<1> QED
  BY <1>1, <1>2, PTL DEF Spec

LEMMA BytesKept ==
    ASSUME LinkInv
    PROVE  SectionsKeepTheirBytes
<1>1. IsSeq(objects) /\ \A o \in 1 .. Len(objects) : ObjectSound(o)
  BY DEF LinkInv, ObjectsSound
<1>2. DOMAIN objects = 1 .. Len(objects)
  BY <1>1, SeqFacts
<1>3. ASSUME NEW o \in DOMAIN objects
      PROVE  /\ CodeOf(objects[o].sections) = EmittedBy(source[o])
             /\ \A k \in DOMAIN objects[o].allocs :
                   LET a == objects[o].allocs[k]
                       sections == objects[o].sections
                   IN  /\ a.section \in DOMAIN sections
                       /\ \A l \in sections[a.section].lines :
                             Plain(source[o][l.at[1]].id) = a.name
                       /\ sections[a.section].code <= a.size
                       /\ \A n \in DOMAIN objects[o].allocs :
                             n # k => objects[o].allocs[n].section # a.section
  <2> DEFINE x == objects[o].sections
             y == objects[o].allocs
  <2>1. /\ SectionsShape(x) /\ CodeOf(x) = EmittedBy(source[o])
        /\ AllocsSound(x, Len(x), y, source[o])
    BY <1>1, <1>2 DEF ObjectSound
  <2>2. IsSeq(x) /\ IsSeq(y)
    BY <2>1 DEF SectionsShape, AllocsSound
  <2> HIDE DEF x, y
  <2>3. DOMAIN x = 1 .. Len(x) /\ DOMAIN y = 1 .. Len(y)
    BY <2>2, SeqFacts
  <2>4. ASSUME NEW k \in DOMAIN y
        PROVE  /\ y[k].section \in DOMAIN x
               /\ \A l \in x[y[k].section].lines : Plain(source[o][l.at[1]].id) = y[k].name
               /\ x[y[k].section].code <= y[k].size
               /\ \A n \in DOMAIN y : n # k => y[n].section # y[k].section
    BY <2>1, <2>3 DEF AllocsSound
  <2> QED
    BY <2>1, <2>4 DEF x, y
<1> QED
  BY <1>3 DEF SectionsKeepTheirBytes

LEMMA ModulesApart ==
    ASSUME LinkInv
    PROVE  RelocatableModulesApart
<1>1. Placed
  BY DEF LinkInv, LinkSound
<1>2. IsSeq(linked)
  BY <1>1 DEF Placed
<1>3. DOMAIN linked = 1 .. Len(linked) /\ Len(linked) \in Nat
  BY <1>2, SeqFacts
<1>4. ASSUME NEW s \in 1 .. Len(linked), NEW t \in 1 .. Len(linked), s < t,
             Relocated(s), Relocated(t)
      PROVE  BytesOf(s) \cap BytesOf(t) = {}
  <2>1. linked[s].base + linked[s].code <= linked[t].base
    BY <1>1, <1>4 DEF Placed
  <2>2. linked[s].base \in Nat /\ linked[s].code \in Nat /\ linked[t].base \in Nat
        /\ linked[t].code \in Nat
    BY <1>1, <1>4 DEF Placed
  <2> DEFINE b == linked[s].base
             c == linked[s].code
             d == linked[t].base
             e == linked[t].code
  <2>3. BytesOf(s) = b .. b + c - 1 /\ BytesOf(t) = d .. d + e - 1
    BY DEF BytesOf
  <2>4. b + c <= d /\ b \in Nat /\ c \in Nat /\ d \in Nat /\ e \in Nat
    BY <2>1, <2>2
  <2> HIDE DEF b, c, d, e
  <2>5. (b .. b + c - 1) \cap (d .. d + e - 1) = {}
    BY <2>4
  <2> QED
    BY <2>3, <2>5
<1>5. ASSUME NEW s \in DOMAIN linked, NEW t \in DOMAIN linked, s # t,
             objects[linked[s].obj].relocatable, objects[linked[t].obj].relocatable
      PROVE  BytesOf(s) \cap BytesOf(t) = {}
  <2>1. s \in 1 .. Len(linked) /\ t \in 1 .. Len(linked) /\ Relocated(s) /\ Relocated(t)
    BY <1>3, <1>5 DEF Relocated
  <2>2. s < t \/ t < s
    BY <2>1, <1>3, <1>5
  <2>3. BytesOf(s) \cap BytesOf(t) = BytesOf(t) \cap BytesOf(s)
    OBVIOUS
  <2> QED
    BY <2>1, <2>2, <2>3, <1>4
<1> QED
  BY <1>5 DEF RelocatableModulesApart

\* Every byte a module emits is in its object file once, and each pool
\* request names the one section that holds its body and nothing else,
\* whatever the module's nodes are and in whatever order: blocks flushed
\* late, sections dropped for being empty and byte-less bodies included
\* (ObjectWriter and Program._object_emit_*).
THEOREM BytesKeptInSections == Spec => []SectionsKeepTheirBytes
<1>1. LinkInv => SectionsKeepTheirBytes
  BY BytesKept
<1> QED
  BY <1>1, LinkInvariant, PTL

\* Relocatable modules never share a byte of the image, however many there
\* are and whatever modules that place themselves come in between
\* (Linker._delta_for and the running offset of _ingest_object).
THEOREM RelocatablesApart == Spec => []RelocatableModulesApart
<1>1. LinkInv => RelocatableModulesApart
  BY ModulesApart
<1> QED
  BY <1>1, LinkInvariant, PTL
=============================================================================
