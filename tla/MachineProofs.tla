---------------------------- MODULE MachineProofs ----------------------------
(***************************************************************************)
(* The labels of MachineCode for every program, every origin and both      *)
(* settings of the width tracking: what the first pass measured is what    *)
(* the emission writes, so that a label is the address of its bytes.  And  *)
(* what emission relies on when it turns addresses into file offsets: an   *)
(* address of a mapping goes to the file and back unchanged, and counting  *)
(* on from an address counts on in the file, over the ends of banks too.   *)
(***************************************************************************)
EXTENDS MachineProperties, Bus, TLAPS

AddLength(sum, bytes) == sum + Len(bytes)
Lengths == INSTANCE FoldSteps WITH Op <- AddLength

-----------------------------------------------------------------------------
(* The opcode table.                                                       *)

Switches == {"rep", "sep"}

\* What the lengths rest on: only an opcode of several sizes, or a long one,
\* has more than one byte to choose from; and rep and sep are immediate.
Regular(r) ==
    /\ r.kind \in {"sized", "implied", "relative", "relative2", "long", "move"}
    /\ r.kind \in {"implied", "relative", "relative2", "move"} => \E byte : r.bytes = <<byte>>
    /\ r.op \in Switches => r.mode = "immediate"

\* The rows, by the class of their opcode.
LEMMA RowsRegular ==
    /\ \A op, byte : op \notin Switches =>
          /\ Regular(Implied(op, byte)) /\ Regular(Relative(op, byte))
          /\ Regular(Relative2(op, byte)) /\ Regular(Long(op, byte)) /\ Regular(Move(op, byte))
    /\ \A op, mode, index, bytes, reg : op \notin Switches =>
          Regular(Sized(op, mode, index, bytes, reg))
    /\ \A op, index, bytes, reg : Regular(Sized(op, "immediate", index, bytes, reg))
    /\ \A op, byte, reg : Regular(Immediate(op, byte, reg))
BY DEF Implied, Relative, Relative2, Long, Move, Sized, Immediate, Row, Regular

\* The emitters of an accumulator instruction, and of a shift.
LEMMA AccumulatorRegular ==
    ASSUME NEW op, op \notin Switches, NEW base, NEW reg
    PROVE  \A r \in Accumulator(op, base, reg) : Regular(r)
BY RowsRegular DEF Accumulator

LEMMA ModifyRegular ==
    ASSUME NEW op, op \notin Switches, NEW acc, NEW base
    PROVE  \A r \in Modify(op, acc, base) : Regular(r)
BY RowsRegular DEF Modify

LEMMA ModesRegular == \A r \in AccumulatorModes \cup ShiftsAndSteps : Regular(r)
BY AccumulatorRegular, ModifyRegular DEF AccumulatorModes, ShiftsAndSteps, Switches

LEMMA LoadsRegular == \A r \in LoadsAndStores : Regular(r)
BY RowsRegular DEF LoadsAndStores, Switches

LEMMA JumpsRegular == \A r \in JumpsAndArithmetic : Regular(r)
BY RowsRegular DEF JumpsAndArithmetic, Switches

LEMMA StackRegular == \A r \in StackAndMoves : Regular(r)
BY RowsRegular DEF StackAndMoves, Switches

LEMMA StoresRegular == \A r \in StoresAndTransfers : Regular(r)
BY RowsRegular DEF StoresAndTransfers, Switches

LEMMA TableRegular == \A r \in Table : Regular(r)
BY ModesRegular, LoadsRegular, JumpsRegular, StackRegular, StoresRegular DEF Table
-----------------------------------------------------------------------------
(* The widths behind a list of nodes.                                      *)

\* MachineProperties' Width, of a program p.
Decides(p, flag, i) == p[i].op \in {"rep", "sep"} /\ Bit(flag, p[i].value)
Deciding(p, flag, j) == {i \in 1 .. j : Decides(p, flag, i)}
Newest(D) == CHOOSE i \in D : \A h \in D : h <= i
WidthIn(p, flag, j) == IF Deciding(p, flag, j) = {} THEN 8
                       ELSE IF p[Newest(Deciding(p, flag, j))].op = "rep" THEN 16 ELSE 8

LEMMA WidthOfProgram == \A flag, j : Width(flag, j) = WidthIn(program, flag, j)
BY DEF Width, WidthIn, Deciding, Decides, Newest

\* A node that decides the flag is the newest one, and any other changes nothing.
LEMMA WidthStep ==
    ASSUME NEW p, NEW flag, NEW j \in Nat
    PROVE  /\ WidthIn(p, flag, 0) = 8
           /\ WidthIn(p, flag, j + 1) = IF Decides(p, flag, j + 1)
                                        THEN (IF p[j + 1].op = "rep" THEN 16 ELSE 8)
                                        ELSE WidthIn(p, flag, j)
<1>1. Deciding(p, flag, 0) = {}
  BY DEF Deciding
<1>2. CASE Decides(p, flag, j + 1)
  <2>1. j + 1 \in Deciding(p, flag, j + 1) /\ \A h \in Deciding(p, flag, j + 1) : h <= j + 1
    BY <1>2 DEF Deciding
  <2>2. \A i \in Deciding(p, flag, j + 1) : i \in Int
    BY DEF Deciding
  <2>3. Newest(Deciding(p, flag, j + 1)) = j + 1
    BY <2>1, <2>2 DEF Newest
  <2> QED
    BY <1>1, <1>2, <2>1, <2>3 DEF WidthIn
<1>3. CASE ~Decides(p, flag, j + 1)
  <2>1. Deciding(p, flag, j + 1) = Deciding(p, flag, j)
    BY <1>3 DEF Deciding
  <2> QED
    BY <1>1, <1>3, <2>1 DEF WidthIn
<1> QED
  BY <1>2, <1>3

\* The registers behind the first j nodes of p.
RegsIn(p, tracked, j) == [a |-> IF tracked THEN WidthIn(p, 5, j) ELSE 8,
                          x |-> IF tracked THEN WidthIn(p, 4, j) ELSE 8]

LEMMA RegsStart == ASSUME NEW p, NEW tracked PROVE RegsIn(p, tracked, 0) = Eight
BY WidthStep DEF RegsIn, Eight

\* Node j + 1 moves the registers as far as the widths say, if rep and sep are
\* immediate and their value is the one the source wrote.
LEMMA RegsStep ==
    ASSUME NEW p, NEW tracked \in BOOLEAN, NEW j \in Nat, NEW v,
           p[j + 1].op \in Switches => p[j + 1].mode = "immediate",
           tracked /\ p[j + 1].op \in Switches => v = p[j + 1].value
    PROVE  RegistersAfter(RegsIn(p, tracked, j), p[j + 1], v, tracked) = RegsIn(p, tracked, j + 1)
<1>1. CASE tracked /\ p[j + 1].op \in Switches
  <2>1. v = p[j + 1].value /\ p[j + 1].mode = "immediate"
    BY <1>1
  <2>2. \A flag : Decides(p, flag, j + 1) <=> Bit(flag, v)
    BY <1>1, <2>1 DEF Decides, Switches
  <2>3. \A flag : WidthIn(p, flag, j + 1) =
                  IF Bit(flag, v) THEN (IF p[j + 1].op = "rep" THEN 16 ELSE 8) ELSE WidthIn(p, flag, j)
    BY <2>2, WidthStep
  <2> QED
    BY <1>1, <2>1, <2>3 DEF RegistersAfter, RegsIn, Switches
<1>2. CASE tracked /\ p[j + 1].op \notin Switches
  <2>1. \A flag : WidthIn(p, flag, j + 1) = WidthIn(p, flag, j)
    BY <1>2, WidthStep DEF Decides, Switches
  <2> QED
    BY <1>2, <2>1 DEF RegistersAfter, RegsIn, Switches
<1>3. CASE ~tracked
  BY <1>3 DEF RegistersAfter, RegsIn
<1> QED
  BY <1>1, <1>2, <1>3

\* And a node that is neither rep nor sep leaves them.
LEMMA RegsStay ==
    ASSUME NEW p, NEW tracked \in BOOLEAN, NEW j \in Nat, tracked => p[j + 1].op \notin Switches
    PROVE  RegsIn(p, tracked, j + 1) = RegsIn(p, tracked, j)
<1>1. tracked => \A flag : WidthIn(p, flag, j + 1) = WidthIn(p, flag, j)
  BY WidthStep DEF Decides, Switches
<1> QED
  BY <1>1 DEF RegsIn

-----------------------------------------------------------------------------
(* The length of one instruction, measured and written.                    *)

LEMMA OperandSizes == \A value : OperandSize(value) \in 1 .. 3
BY DEF OperandSize

LEMMA ValueSizes ==
    ASSUME NEW row, NEW size \in Nat, NEW value, NEW widths
    PROVE  ValueSize(row, size, value, widths) \in Nat
BY OperandSizes DEF ValueSize

LEMMA LittleEndianBytes ==
    ASSUME NEW value, NEW n \in Nat
    PROVE  \E S : LittleEndian(value, n) \in Seq(S) /\ Len(LittleEndian(value, n)) = n
<1> DEFINE le == LittleEndian(value, n)
           S == {le[i] : i \in 1 .. n}
<1>1. le = [i \in 1 .. n |-> le[i]]
  BY DEF LittleEndian
<1> HIDE DEF le
<1>2. le \in [1 .. n -> S]
  BY <1>1
<1>3. le \in Seq(S) /\ Len(le) = n
  BY <1>2
<1> QED
  BY <1>3 DEF le

LEMMA BytesInFront ==
    ASSUME NEW byte, NEW value, NEW n \in Nat
    PROVE  \E S : <<byte>> \o LittleEndian(value, n) \in Seq(S) /\ Len(<<byte>> \o LittleEndian(value, n)) = 1 + n
<1>1. PICK S : LittleEndian(value, n) \in Seq(S) /\ Len(LittleEndian(value, n)) = n
  BY LittleEndianBytes
<1> DEFINE le == LittleEndian(value, n)
           T == S \cup {byte}
<1>2. le \in Seq(T) /\ Len(le) = n
  BY <1>1
<1> HIDE DEF le, T
<1>3. byte \in T
  BY DEF T
<1>4. <<byte>> \o le \in Seq(T) /\ Len(<<byte>> \o le) = 1 + n
  BY <1>2, <1>3
<1> QED
  BY <1>4 DEF le

\* The value an instruction is measured with is the one it is written with, or
\* its length does not depend on it.
LEMMA WrittenAsMeasured ==
    ASSUME NEW row, Regular(row), NEW ins, ins.size \in Nat, NEW value, NEW at, NEW widths,
           NEW supposed, supposed = value \/ ~NeedsValue(row, ins.size, widths),
           Emit(row, ins, value, at, widths) # <<>>
    PROVE  Len(Emit(row, ins, value, at, widths)) = SupposedLength(row, ins.size, supposed, widths)
<1> DEFINE out == Emit(row, ins, value, at, widths)
<1>1. CASE row.kind \in {"sized", "long"}
  <2> DEFINE n == ValueSize(row, ins.size, value, widths)
  <2>1. out = <<row.bytes[n]>> \o LittleEndian(value, n)
    <3>1. out = EmitSized(row, ins.size, value, widths)
      BY <1>1 DEF Emit
    <3> QED
      BY <3>1 DEF EmitSized
  <2>2. n \in Nat
    BY ValueSizes
  <2>3. Len(out) = 1 + n
    BY <2>1, <2>2, BytesInFront
  <2>4. ValueSize(row, ins.size, supposed, widths) = n
    BY <1>1 DEF ValueSize, NeedsValue
  <2>5. SupposedLength(row, ins.size, supposed, widths) = 1 + n
    BY <1>1, <2>4 DEF SupposedLength
  <2> QED
    BY <2>3, <2>5
<1>2. CASE row.kind = "implied"
  <2>1. PICK byte : row.bytes = <<byte>>
    BY <1>2 DEF Regular
  <2>2. out = <<byte>>
    BY <1>2, <2>1 DEF Emit
  <2> QED
    BY <1>2, <2>2 DEF SupposedLength
<1>3. ASSUME NEW n \in {1, 2}, row.kind = IF n = 1 THEN "relative" ELSE "relative2"
      PROVE  Len(out) = SupposedLength(row, ins.size, supposed, widths)
  <2>1. PICK byte : row.bytes = <<byte>>
    BY <1>3 DEF Regular
  <2>2. out = EmitRelative(row, n, value, at)
    BY <1>3 DEF Emit
  <2>3. out = <<byte>> \o LittleEndian(value - at - (1 + n), n)
    BY <2>1, <2>2 DEF EmitRelative
  <2>4. Len(out) = 1 + n
    BY <2>3, BytesInFront
  <2> QED
    BY <1>3, <2>4 DEF SupposedLength
<1>4. CASE row.kind = "move"
  <2>1. PICK byte : row.bytes = <<byte>>
    BY <1>4 DEF Regular
  <2> DEFINE first == <<byte>> \o LittleEndian(ins.second, 1)
             last == LittleEndian(value, 1)
  <2>2. out = first \o last
    <3>1. out = row.bytes \o LittleEndian(ins.second, 1) \o LittleEndian(value, 1)
      BY <1>4 DEF Emit
    <3> QED
      BY <3>1, <2>1
  <2>3. 1 \in Nat /\ 1 + 1 = 2
    OBVIOUS
  <2>4. PICK S : first \in Seq(S) /\ Len(first) = 1 + 1
    BY <2>3, BytesInFront
  <2>5. PICK T : last \in Seq(T) /\ Len(last) = 1
    BY <2>3, LittleEndianBytes
  <2> HIDE DEF first, last
  <2>6. first \in Seq(S \cup T) /\ last \in Seq(S \cup T)
    BY <2>4, <2>5
  <2>7. Len(out) = 3
    <3>1. Len(first \o last) = Len(first) + Len(last)
      BY <2>6
    <3> QED
      BY <3>1, <2>2, <2>4, <2>5
  <2> QED
    BY <1>4, <2>7 DEF SupposedLength
<1> QED
  BY <1>1, <1>2, <1>3, <1>4 DEF Regular

LEMMA SupposedLengths ==
    ASSUME NEW row, NEW size \in Nat, NEW value, NEW widths
    PROVE  SupposedLength(row, size, value, widths) \in Nat
BY ValueSizes DEF SupposedLength
-----------------------------------------------------------------------------
(* The addresses the first pass goes through.                              *)

IsData(p, j) == p[j].op = ".db"

\* The operand of node j as the first pass has it: a label behind the node is
\* not bound yet.
OperandAt(p, q, j) == IF p[j].to = 0 THEN p[j].value ELSE IF p[j].to <= j THEN q[p[j].to] ELSE 0

\* What the first pass adds for node j.
Measured(p, tracked, q, j) ==
    IF IsData(p, j) THEN 1
    ELSE SupposedLength(Emitter(p[j]), p[j].size, OperandAt(p, q, j), RegsIn(p, tracked, j))

\* Node j has an emitter, and a length without the labels behind it.
Measurable(p, tracked, j) ==
    IsData(p, j) \/ /\ Emitters(p[j]) # {}
                    /\ p[j].to > j => ~NeedsValue(Emitter(p[j]), p[j].size, RegsIn(p, tracked, j))

\* q has the addresses of the nodes it reaches, each where the one before ends.
Chain(p, tracked, q) ==
    /\ q \in Seq(Int) /\ Len(q) > 0 /\ q[1] = Origin
    /\ \A j \in 1 .. Len(q) - 1 : /\ Measurable(p, tracked, j)
                                  /\ q[j + 1] = q[j] + Measured(p, tracked, q, j)

LEMMA ProgramFacts ==
    ASSUME NEW p \in Programs
    PROVE  /\ Len(p) \in Nat /\ DOMAIN p = 1 .. Len(p)
           /\ \A j \in 1 .. Len(p) : /\ p[j].size \in Nat /\ p[j].value \in Int
                                     /\ p[j].to \in 0 .. Len(p) /\ p[j] \in Nodes
<1>1. p \in Seq(Nodes) /\ \A j \in DOMAIN p : p[j].to <= Len(p)
  BY ProgramAssumption
<1>2. DOMAIN p = 1 .. Len(p) /\ Len(p) \in Nat /\ \A j \in 1 .. Len(p) : p[j] \in Nodes
  BY <1>1
<1>3. \A n \in Nodes : n.size \in Nat /\ n.value \in Int /\ n.to \in Nat
  BY DEF Nodes
<1> QED
  BY <1>1, <1>2, <1>3

\* What node j is measured with is within the first j addresses.
LEMMA MeasuredFromFront ==
    ASSUME NEW p \in Programs, NEW tracked, NEW j \in 1 .. Len(p), NEW q, NEW r,
           \A i \in 1 .. j : q[i] = r[i]
    PROVE  Measured(p, tracked, q, j) = Measured(p, tracked, r, j)
<1>1. OperandAt(p, q, j) = OperandAt(p, r, j)
  BY ProgramFacts DEF OperandAt
<1> QED
  BY <1>1 DEF Measured

LEMMA MeasuredType ==
    ASSUME NEW p \in Programs, NEW tracked, NEW q, NEW j \in 1 .. Len(p)
    PROVE  Measured(p, tracked, q, j) \in Nat
BY ProgramFacts, SupposedLengths DEF Measured

LEMMA ChainGrows ==
    ASSUME NEW p \in Programs, NEW tracked, NEW q, Chain(p, tracked, q), Len(q) <= Len(p),
           Measurable(p, tracked, Len(q)),
           NEW x, x = q[Len(q)] + Measured(p, tracked, q, Len(q))
    PROVE  Chain(p, tracked, Append(q, x))
<1> DEFINE n == Len(q)
           r == Append(q, x)
<1>1. n \in 1 .. Len(p) /\ q[n] \in Int
  BY ProgramFacts DEF Chain
<1>2. x \in Int
  BY <1>1, MeasuredType
<1>3. /\ r \in Seq(Int) /\ Len(r) = n + 1 /\ r[n + 1] = x
      /\ \A i \in 1 .. n : r[i] = q[i]
  BY <1>1, <1>2 DEF Chain
<1> HIDE DEF r
<1>4. ASSUME NEW j \in 1 .. Len(r) - 1
      PROVE  Measurable(p, tracked, j) /\ r[j + 1] = r[j] + Measured(p, tracked, r, j)
  <2>1. j \in 1 .. n /\ j \in 1 .. Len(p)
    BY <1>1, <1>3, <1>4, ProgramFacts
  <2>2. Measured(p, tracked, r, j) = Measured(p, tracked, q, j)
    <3>1. \A i \in 1 .. j : r[i] = q[i]
      BY <2>1, <1>1, <1>3
    <3> QED
      BY <3>1, <2>1, MeasuredFromFront
  <2>3. CASE j = n
    BY <2>2, <2>3, <1>1, <1>3
  <2>4. CASE j # n
    <3>1. j \in 1 .. n - 1 /\ j + 1 \in 1 .. n
      BY <2>1, <2>4, <1>1
    <3>2. Measurable(p, tracked, j) /\ q[j + 1] = q[j] + Measured(p, tracked, q, j)
      BY <3>1 DEF Chain
    <3> QED
      BY <3>1, <3>2, <2>1, <2>2, <1>3
  <2> QED
    BY <2>3, <2>4
<1>5. r[1] = Origin /\ Len(r) > 0
  BY <1>1, <1>3 DEF Chain
<1>6. Chain(p, tracked, r)
  BY <1>3, <1>4, <1>5 DEF Chain
<1> QED
  BY <1>6 DEF r

\* The one emitter a node has is a row of the table.
LEMMA EmitterRegular ==
    ASSUME NEW ins, Emitters(ins) # {}
    PROVE  /\ Regular(Emitter(ins)) /\ Emitter(ins).mode = ins.mode
           /\ ins.op \in Switches => ins.mode = "immediate"
<1>1. Emitter(ins) \in Emitters(ins)
  BY DEF Emitter
<1>2. /\ Emitter(ins) \in Table /\ Emitter(ins).op = ins.op /\ Emitter(ins).mode = ins.mode
  BY <1>1 DEF Emitters
<1> QED
  BY <1>2, TableRegular DEF Regular

-----------------------------------------------------------------------------
(* The invariant.                                                          *)

\* What the program is asked for.
Steady == NoDirective /\ Restores

\* The node the walk is at, and the registers as the nodes behind it left them.
Walking == k \in 1 .. Len(program) + 1 /\ regs = RegsIn(program, tracking, k - 1)

\* In the first pass the labels bound so far, and the place of the next one.
Binding == label \in Seq(Int) /\ Len(label) = k - 1 /\ Chain(program, tracking, Append(label, pc))

\* Afterwards every node has its label.
Laid == /\ label \in Seq(Int) /\ Len(label) = Len(program)
        /\ \E end : Chain(program, tracking, Append(label, end))

\* The first n nodes have been written, each as long as it was measured.
Written(n) == /\ \E S : code \in Seq(S)
              /\ Len(code) = n
              /\ \A j \in 1 .. n : Len(code[j]) = Measured(program, tracking, label, j)

Inv ==
    /\ program \in Programs /\ tracking \in BOOLEAN
    /\ Steady =>
        /\ phase = "first"  => Walking /\ Binding /\ code = <<>>
        /\ phase = "second" => Walking /\ Laid /\ code = <<>>
        /\ phase = "emit"   => Walking /\ Laid /\ Written(k - 1)
        /\ Emitted          => Laid /\ Written(Len(program))

\* The addresses of a program that is laid out are those of its labels.
LEMMA LaidFacts ==
    ASSUME program \in Programs, Laid
    PROVE  /\ Len(program) > 0 => label[1] = Origin
           /\ \A j \in 1 .. Len(program) - 1 :
                 label[j + 1] = label[j] + Measured(program, tracking, label, j)
           /\ \A j \in 1 .. Len(program) : Measurable(program, tracking, j) /\ label[j] \in Int
<1>1. PICK end : Chain(program, tracking, Append(label, end))
  BY DEF Laid
<1> DEFINE n == Len(program)
           q == Append(label, end)
<1>2. n \in Nat /\ label \in Seq(Int) /\ Len(label) = n
  BY ProgramFacts DEF Laid
<1>3. Len(q) = n + 1 /\ \A i \in 1 .. n : q[i] = label[i]
  BY <1>2
<1> HIDE DEF q
<1>4. Chain(program, tracking, q)
  BY <1>1 DEF q
<1>5. \A j \in 1 .. n : Measured(program, tracking, q, j) = Measured(program, tracking, label, j)
  <2> TAKE j \in 1 .. n
  <2>1. \A i \in 1 .. j : q[i] = label[i]
    BY <1>2, <1>3
  <2> QED
    BY <2>1, MeasuredFromFront
<1>6. \A j \in 1 .. n : Measurable(program, tracking, j) /\ q[j + 1] = q[j] + Measured(program, tracking, q, j)
  BY <1>2, <1>3, <1>4 DEF Chain
<1>7. n > 0 => label[1] = Origin
  BY <1>2, <1>3, <1>4 DEF Chain
<1>8. \A j \in 1 .. n - 1 : label[j + 1] = label[j] + Measured(program, tracking, label, j)
  <2> TAKE j \in 1 .. n - 1
  <2>1. j \in 1 .. n /\ j + 1 \in 1 .. n
    BY <1>2
  <2> QED
    BY <2>1, <1>3, <1>5, <1>6
<1>9. \A j \in 1 .. n : label[j] \in Int
  BY <1>2
<1> QED
  BY <1>6, <1>7, <1>8, <1>9

-----------------------------------------------------------------------------
(* Each label is the address of its bytes once they are written.           *)

LEMMA AddressIsFold ==
    \A j : Address(j) = Origin + Lengths!Left(0, SubSeq(code, 1, j - 1))
BY DEF Address, Lengths!Left, Fold, Lengths!Fold, Strictly, Lengths!Strictly, AddLength

LEMMA FirstAddress ==
    ASSUME NEW S, code \in Seq(S)
    PROVE  Address(1) = Origin
<1>1. SubSeq(code, 1, 1 - 1) = <<>>
  OBVIOUS
<1>2. Lengths!Left(0, SubSeq(code, 1, 1 - 1)) = 0
  BY <1>1, Lengths!FoldEmpty
<1> QED
  BY <1>2, AddressIsFold, ProgramAssumption

LEMMA NextAddress ==
    ASSUME NEW S, code \in Seq(S), NEW j \in 1 .. Len(code), Len(code[j]) \in Int, Address(j) \in Int,
           Lengths!Left(0, SubSeq(code, 1, j - 1)) \in Int
    PROVE  /\ Address(j + 1) = Address(j) + Len(code[j])
           /\ Lengths!Left(0, SubSeq(code, 1, j)) \in Int
<1> DEFINE front == SubSeq(code, 1, j - 1)
<1>1. front \in Seq(S) /\ code[j] \in S
  OBVIOUS
<1>2. SubSeq(code, 1, j) = Append(front, code[j])
  OBVIOUS
<1> HIDE DEF front
<1>3. Lengths!Left(0, SubSeq(code, 1, j)) = Lengths!Left(0, front) + Len(code[j])
  <2>1. Lengths!Left(0, Append(front, code[j])) = AddLength(Lengths!Left(0, front), code[j])
    BY <1>1, Lengths!FoldAppend
  <2> QED
    BY <2>1, <1>2 DEF AddLength
<1>4. (j + 1) - 1 = j
  OBVIOUS
<1>5. Address(j + 1) = Origin + Lengths!Left(0, SubSeq(code, 1, j))
  BY <1>4, AddressIsFold
<1>6. Address(j) = Origin + Lengths!Left(0, front)
  BY AddressIsFold DEF front
<1>7. Lengths!Left(0, front) \in Int
  BY DEF front
<1>8. Origin \in Int /\ Len(code[j]) \in Int
  BY ProgramAssumption
<1> HIDE DEF front
<1> QED
  BY <1>3, <1>5, <1>6, <1>7, <1>8

LEMMA WrittenAtLabels ==
    ASSUME program \in Programs, Laid, Written(Len(program))
    PROVE  \A j \in Positions : label[j] = Address(j)
<1>1. PICK S : code \in Seq(S)
  BY DEF Written
<1> DEFINE n == Len(program)
           Sum(j) == Lengths!Left(0, SubSeq(code, 1, j))
           Right == {j \in 0 .. n : j < n => label[j + 1] = Address(j + 1) /\ Sum(j) \in Int}
<1>2. n \in Nat /\ DOMAIN program = 1 .. n
  BY ProgramFacts
<1>3. 0 \in Right
  <2>1. Address(1) = Origin
    BY <1>1, FirstAddress
  <2>2. SubSeq(code, 1, 0) = <<>>
    BY <1>1
  <2>3. Sum(0) = 0
    BY <2>2, Lengths!FoldEmpty
  <2>4. n > 0 => label[0 + 1] = Address(0 + 1)
    BY <2>1, LaidFacts
  <2> QED
    BY <1>2, <2>3, <2>4
<1>4. ASSUME NEW j \in 1 .. n, j - 1 \in Right PROVE j \in Right
  <2> SUFFICES ASSUME j < n PROVE label[j + 1] = Address(j + 1) /\ Sum(j) \in Int
    BY <1>4
  <2>1. label[j] = Address(j) /\ Sum(j - 1) \in Int
    BY <1>2, <1>4
  <2>2. Len(code[j]) = Measured(program, tracking, label, j) /\ j \in 1 .. Len(code)
    BY <1>2, <1>4 DEF Written
  <2>3. Measured(program, tracking, label, j) \in Nat
    BY MeasuredType
  <2>4. label[j + 1] = label[j] + Measured(program, tracking, label, j) /\ label[j] \in Int
    BY <1>2, <1>4, LaidFacts
  <2>5. Address(j + 1) = Address(j) + Len(code[j]) /\ Sum(j) \in Int
    BY <1>1, <2>1, <2>2, <2>3, <2>4, NextAddress
  <2> QED
    BY <2>1, <2>2, <2>4, <2>5
<1> HIDE DEF Right
<1>5. \A j \in 0 .. n : j \in Right
  <2> TAKE m \in 0 .. n
  <2>1. m \in Nat /\ \A j \in 1 .. m : j - 1 \in Right => j \in Right
    BY <1>2, <1>4
  <2> QED
    BY <2>1, <1>3, Lengths!UpFromZero
<1>6. ASSUME NEW j \in 1 .. n PROVE label[j] = Address(j)
  <2>1. j - 1 \in Right /\ j - 1 < n /\ (j - 1) + 1 = j
    BY <1>2, <1>5
  <2> QED
    BY <2>1 DEF Right
<1> QED
  BY <1>2, <1>6 DEF Positions
-----------------------------------------------------------------------------
(* The steps keep the invariant.                                           *)

LEMMA InvInit == Init => Inv
<1> SUFFICES ASSUME Init PROVE Inv
  OBVIOUS
<1>1. /\ program \in Programs /\ tracking \in BOOLEAN /\ phase = "first" /\ k = 1
      /\ pc = Origin /\ regs = Eight /\ label = <<>> /\ code = <<>>
  BY DEF Init, InitCode
<1>2. Walking
  <2>1. k - 1 = 0 /\ k \in 1 .. Len(program) + 1
    BY <1>1, ProgramFacts
  <2> QED
    BY <2>1, <1>1, RegsStart DEF Walking
<1>3. Binding
  <2> DEFINE q == Append(label, pc)
  <2>1. Origin \in Int
    BY ProgramAssumption
  <2>2. q \in Seq(Int) /\ Len(q) = 1 /\ q[1] = Origin
    BY <1>1, <2>1
  <2> HIDE DEF q
  <2>3. Chain(program, tracking, q)
    BY <2>2 DEF Chain
  <2> QED
    BY <2>3, <1>1 DEF Binding, q
<1>4. Emitted = FALSE
  BY <1>1 DEF Emitted
<1> QED
  BY <1>1, <1>2, <1>3, <1>4 DEF Inv

\* Nothing changes the program.
LEMMA ProgramStays == [Next]_vars => UNCHANGED <<program, tracking>>
BY DEF Next, vars, asmVars, AssembleNext, MeasureDirective, MeasureData, MeasureOpcode, MeasureFails,
       EndPass, EmitDirective, EmitData, EmitOpcode, EmitFails, EmitNode, Reset, Fail,
       StartListing, List, StartWalk, Pop, Walk, LeavePath, FinishWalk, disVars

LEMMA SteadyStays == UNCHANGED <<program, tracking>> /\ Steady' => Steady
BY DEF Steady, NoDirective, Restores, Positions, Width, Bit

\* What is laid out and written stays so.
LEMMA LaidStays == UNCHANGED <<program, tracking, label>> /\ Laid => Laid'
BY DEF Laid

LEMMA WrittenStays ==
    ASSUME UNCHANGED <<program, tracking, label, code>>, NEW n, Written(n)
    PROVE  Written(n)'
BY DEF Written

\* No width directive, and an operand for each rep and sep.
LEMMA SteadyNodes ==
    ASSUME Steady, program \in Programs
    PROVE  \A j \in 1 .. Len(program) :
              /\ program[j].op \notin {".a", ".i"}
              /\ tracking /\ program[j].op \in Switches => program[j].to = 0
BY ProgramFacts DEF Steady, NoDirective, Restores, Positions, Switches

\* The widths end where they began.
LEMMA SteadyEnd ==
    ASSUME Steady
    PROVE  RegsIn(program, tracking, Len(program)) = RegsIn(program, tracking, 0)
<1>1. tracking => WidthIn(program, 5, Len(program)) = 8 /\ WidthIn(program, 4, Len(program)) = 8
  BY WidthOfProgram DEF Steady, Restores
<1>2. RegsIn(program, tracking, Len(program)) = Eight
  BY <1>1 DEF RegsIn, Eight
<1> QED
  BY <1>2, RegsStart

\* The operand of the node the walk is at, and the registers behind it.
LEMMA RegsOfNode ==
    ASSUME program \in Programs, tracking \in BOOLEAN, Steady, Walking, k <= Len(program),
           Emitters(Node) # {}, NEW v, Node.to = 0 => v = Node.value
    PROVE  RegistersAfter(regs, Node, v, tracking) = RegsIn(program, tracking, k)
<1>1. k - 1 \in Nat /\ (k - 1) + 1 = k /\ k \in 1 .. Len(program)
  BY ProgramFacts DEF Walking
<1>2. program[k].op \in Switches => program[k].mode = "immediate"
  BY EmitterRegular DEF Node
<1>3. tracking /\ program[k].op \in Switches => v = program[k].value
  BY <1>1, SteadyNodes DEF Node
<1>4. RegistersAfter(RegsIn(program, tracking, k - 1), program[(k - 1) + 1], v, tracking)
      = RegsIn(program, tracking, (k - 1) + 1)
  BY <1>1, <1>2, <1>3, RegsStep
<1> QED
  BY <1>1, <1>4 DEF Walking, Node

LEMMA RegsOfOther ==
    ASSUME program \in Programs, tracking \in BOOLEAN, Walking, k <= Len(program),
           tracking => Node.op \notin Switches
    PROVE  RegsIn(program, tracking, k) = regs
<1>1. k - 1 \in Nat /\ (k - 1) + 1 = k
  BY ProgramFacts DEF Walking
<1>2. RegsIn(program, tracking, (k - 1) + 1) = RegsIn(program, tracking, k - 1)
  BY <1>1, RegsStay DEF Node
<1> QED
  BY <1>1, <1>2 DEF Walking

\* One node on in the first pass: its label is bound and the next place known.
LEMMA BindingGrows ==
    ASSUME program \in Programs, Walking, Binding, k <= Len(program), phase = "first",
           Measurable(program, tracking, k),
           UNCHANGED <<program, tracking>>, k' = k + 1, label' = BindLabel,
           pc' = pc + Measured(program, tracking, BindLabel, k)
    PROVE  Binding'
<1> DEFINE q == Append(label, pc)
<1>1. BindLabel = q
  BY DEF BindLabel
<1>2. k \in Nat /\ Len(program) \in Nat
  BY ProgramFacts DEF Walking
<1>3. Chain(program, tracking, q) /\ label \in Seq(Int) /\ Len(label) = k - 1
  BY DEF Binding
<1>4. Len(q) = k /\ q[k] = pc
  BY <1>2, <1>3
<1> HIDE DEF q
<1>5. pc' = q[Len(q)] + Measured(program, tracking, q, Len(q))
  BY <1>1, <1>4
<1>6. Chain(program, tracking, Append(q, pc'))
  BY <1>3, <1>4, <1>5, ChainGrows
<1>7. label' = q /\ q \in Seq(Int) /\ Len(q) = k' - 1
  BY <1>1, <1>2, <1>3, <1>4 DEF Chain
<1> QED
  BY <1>6, <1>7 DEF Binding

LEMMA NoDirectiveHere ==
    ASSUME program \in Programs, Steady, Walking, k <= Len(program)
    PROVE  Node.op \notin {".a", ".i"} /\ k \in 1 .. Len(program)
BY SteadyNodes, ProgramFacts DEF Walking, Node

LEMMA MeasureDirectiveKeeps == Inv /\ MeasureDirective /\ Steady => FALSE
BY NoDirectiveHere DEF Inv, MeasureDirective, InPass

LEMMA MeasureDataKeeps ==
    ASSUME Inv, Steady, MeasureData
    PROVE  Inv'
<1>1. /\ program \in Programs /\ tracking \in BOOLEAN /\ k <= Len(program) /\ IsData(program, k)
      /\ phase \in {"first", "second"} /\ phase' = phase /\ code' = code /\ UNCHANGED <<program, tracking>>
      /\ label' = BindLabel /\ k' = k + 1 /\ pc' = pc + 1 /\ regs' = regs
  BY DEF Inv, MeasureData, InPass, Node, IsData
<1>2. Walking /\ code = <<>>
  BY <1>1 DEF Inv
<1>3. Node.op \notin Switches
  BY <1>1 DEF Node, IsData, Switches
<1>4. Walking'
  <2>1. RegsIn(program, tracking, k) = regs
    BY <1>1, <1>2, <1>3, RegsOfOther
  <2>2. k \in Nat /\ Len(program) \in Nat /\ (k + 1) - 1 = k
    BY <1>1, <1>2, ProgramFacts DEF Walking
  <2> QED
    BY <1>1, <2>1, <2>2 DEF Walking
<1>5. CASE phase = "first"
  <2>1. Measurable(program, tracking, k) /\ Measured(program, tracking, BindLabel, k) = 1
    BY <1>1 DEF Measurable, Measured
  <2>2. Binding
    BY <1>5 DEF Inv
  <2>3. Binding'
    BY <1>1, <1>2, <1>5, <2>1, <2>2, BindingGrows
  <2> QED
    BY <1>1, <1>2, <1>4, <1>5, <2>3 DEF Inv, Emitted
<1>6. CASE phase = "second"
  <2>1. label' = label
    BY <1>1, <1>6 DEF BindLabel
  <2>2. Laid'
    BY <1>1, <1>6, <2>1, LaidStays DEF Inv
  <2> QED
    BY <1>1, <1>2, <1>4, <1>6, <2>2 DEF Inv, Emitted
<1> QED
  BY <1>1, <1>5, <1>6

\* The operand of a measured node, as OperandAt has it.
LEMMA OperandMeasured ==
    ASSUME program \in Programs, Walking, Binding, k <= Len(program), phase = "first"
    PROVE  /\ HasValue(Node) <=> Node.to <= k
           /\ (IF HasValue(Node) THEN Value(Node) ELSE 0) = OperandAt(program, BindLabel, k)
           /\ Node.to = 0 => Value(Node) = Node.value
<1>1. k \in 1 .. Len(program) /\ Node = program[k] /\ Node.to \in Nat
  BY ProgramFacts DEF Walking, Node
<1>2. BindLabel \in Seq(Int) /\ Len(BindLabel) = k
  <2>1. Append(label, pc) \in Seq(Int) /\ label \in Seq(Int) /\ Len(label) = k - 1
    BY DEF Binding, Chain
  <2>2. Len(Append(label, pc)) = k
    BY <1>1, <2>1, ProgramFacts
  <2> QED
    BY <2>1, <2>2 DEF BindLabel
<1>3. DOMAIN BindLabel = 1 .. k
  BY <1>2
<1>4. HasValue(Node) <=> Node.to <= k
  BY <1>1, <1>3, ProgramFacts DEF HasValue
<1> QED
  BY <1>1, <1>4, ProgramFacts DEF Value, OperandAt

LEMMA OperandBound ==
    ASSUME program \in Programs, Walking, Laid, k <= Len(program), phase \in {"second", "emit"}
    PROVE  /\ HasValue(Node)
           /\ Value(Node) = IF Node.to = 0 THEN Node.value ELSE label[Node.to]
<1>1. k \in 1 .. Len(program) /\ Node = program[k] /\ Node.to \in 0 .. Len(program)
  BY ProgramFacts DEF Walking, Node
<1>2. BindLabel = label /\ DOMAIN label = 1 .. Len(program)
  BY DEF BindLabel, Laid
<1> QED
  BY <1>1, <1>2, ProgramFacts DEF HasValue, Value

LEMMA MeasureOpcodeKeeps ==
    ASSUME Inv, Steady, MeasureOpcode
    PROVE  Inv'
<1> DEFINE after == IF HasValue(Node) THEN RegistersAfter(regs, Node, Value(Node), tracking) ELSE regs
           operand == IF HasValue(Node) THEN Value(Node) ELSE 0
<1>1. /\ program \in Programs /\ tracking \in BOOLEAN /\ k <= Len(program)
      /\ phase \in {"first", "second"} /\ Node.op # ".db" /\ Emitters(Node) # {}
      /\ phase' = phase /\ code' = code /\ UNCHANGED <<program, tracking>>
      /\ NeedsValue(Emitter(Node), Node.size, after) => HasValue(Node)
      /\ label' = BindLabel /\ k' = k + 1 /\ regs' = after
      /\ pc' = pc + SupposedLength(Emitter(Node), Node.size, operand, after)
  BY DEF Inv, MeasureOpcode, InPass, IsOpcode
<1> HIDE DEF operand
<1>2. Walking /\ code = <<>>
  BY <1>1 DEF Inv
<1>3. k \in Nat /\ Len(program) \in Nat /\ (k + 1) - 1 = k /\ k \in 1 .. Len(program)
  BY <1>1, <1>2, ProgramFacts DEF Walking
<1>4. CASE phase = "first"
  <2>1. Binding
    BY <1>4 DEF Inv
  <2>2. /\ HasValue(Node) <=> Node.to <= k
        /\ operand = OperandAt(program, BindLabel, k)
        /\ Node.to = 0 => Value(Node) = Node.value
    BY <1>1, <1>2, <1>4, <2>1, OperandMeasured DEF operand
  <2>3. after = RegsIn(program, tracking, k)
    <3>1. CASE HasValue(Node)
      BY <1>1, <1>2, <2>2, <3>1, RegsOfNode
    <3>2. CASE ~HasValue(Node)
      <4>1. Node.to # 0
        BY <3>2 DEF HasValue
      <4>2. tracking => Node.op \notin Switches
        BY <1>1, <1>3, <4>1, SteadyNodes DEF Node
      <4> QED
        BY <1>1, <1>2, <3>2, <4>2, RegsOfOther
    <3> QED
      BY <3>1, <3>2
  <2> HIDE DEF after
  <2>4. Walking'
    BY <1>1, <1>3, <2>3 DEF Walking
  <2>5. Measurable(program, tracking, k)
    <3>1. Node.to > k => ~HasValue(Node)
      BY <1>1, <1>3, <2>2, ProgramFacts DEF Node
    <3> QED
      BY <3>1, <1>1, <2>3 DEF Measurable, Node
  <2>6. pc' = pc + Measured(program, tracking, BindLabel, k)
    BY <1>1, <2>2, <2>3 DEF Measured, IsData, Node
  <2>7. Binding'
    BY <1>1, <1>2, <1>4, <2>1, <2>5, <2>6, BindingGrows
  <2> QED
    BY <1>1, <1>2, <1>4, <2>4, <2>7 DEF Inv, Emitted
<1>5. CASE phase = "second"
  <2>1. Laid /\ label' = label
    BY <1>1, <1>5 DEF Inv, BindLabel
  <2>2. HasValue(Node) /\ (Node.to = 0 => Value(Node) = Node.value)
    BY <1>1, <1>2, <1>5, <2>1, OperandBound
  <2>3. after = RegsIn(program, tracking, k)
    BY <1>1, <1>2, <2>2, RegsOfNode
  <2> HIDE DEF after
  <2>4. Walking'
    BY <1>1, <1>3, <2>3 DEF Walking
  <2>5. Laid'
    BY <1>1, <2>1, LaidStays
  <2> QED
    BY <1>1, <1>2, <1>5, <2>4, <2>5 DEF Inv, Emitted
<1> QED
  BY <1>1, <1>4, <1>5

LEMMA FailKeeps == Inv /\ Fail => Inv'
BY DEF Inv, Fail, Emitted

LEMMA EndPassKeeps ==
    ASSUME Inv, Steady, EndPass
    PROVE  Inv'
<1>1. /\ program \in Programs /\ tracking \in BOOLEAN /\ k > Len(program)
      /\ phase \in {"first", "second"} /\ phase' = IF phase = "first" THEN "second" ELSE "emit"
      /\ k' = 1 /\ regs' = regs /\ UNCHANGED <<program, tracking, label, code>>
  BY DEF Inv, EndPass, InPass, Reset, WidthsAfterPass
<1>2. Walking /\ code = <<>>
  BY <1>1 DEF Inv
<1>3. Len(program) \in Nat /\ k = Len(program) + 1 /\ k - 1 = Len(program) /\ 1 - 1 = 0
  BY <1>1, <1>2, ProgramFacts DEF Walking
<1>4. Walking'
  BY <1>1, <1>2, <1>3, SteadyEnd DEF Walking
<1>5. CASE phase = "first"
  <2>1. Laid
    BY <1>3, <1>5 DEF Inv, Binding, Laid
  <2> QED
    BY <1>1, <1>2, <1>4, <1>5, <2>1, LaidStays DEF Inv, Emitted
<1>6. CASE phase = "second"
  <2>1. Laid'
    BY <1>1, <1>6, LaidStays DEF Inv
  <2>2. code' = <<>> /\ <<>> \in Seq({}) /\ Len(<<>>) = 0
    BY <1>1, <1>2
  <2>3. Written(k - 1)'
    BY <1>1, <1>3, <2>2 DEF Written
  <2> QED
    BY <1>1, <1>4, <1>6, <2>1, <2>3 DEF Inv, Emitted
<1> QED
  BY <1>1, <1>5, <1>6
\* A node's bytes are as many as were measured for it.
LEMMA WrittenGrows ==
    ASSUME program \in Programs, Walking, Written(k - 1),
           NEW bytes, code' = Append(code, bytes), k' = k + 1, UNCHANGED <<program, tracking, label>>,
           Len(bytes) = Measured(program, tracking, label, k)
    PROVE  Written(k - 1)'
<1>1. k \in Nat /\ k > 0 /\ (k + 1) - 1 = k /\ k - 1 \in Nat
  BY ProgramFacts DEF Walking
<1>2. PICK S : code \in Seq(S)
  BY DEF Written
<1> DEFINE T == S \cup {bytes}
<1>3. code \in Seq(T) /\ bytes \in T /\ Len(code) = k - 1
  BY <1>2 DEF Written
<1> HIDE DEF T
<1>4. /\ Append(code, bytes) \in Seq(T) /\ Len(Append(code, bytes)) = k
      /\ Append(code, bytes)[k] = bytes /\ \A j \in 1 .. k - 1 : Append(code, bytes)[j] = code[j]
  BY <1>1, <1>3
<1>5. ASSUME NEW j \in 1 .. k PROVE Len(code'[j]) = Measured(program, tracking, label, j)
  <2>1. CASE j = k
    BY <1>4, <2>1
  <2>2. CASE j # k
    <3>1. j \in 1 .. k - 1
      BY <1>1, <2>2
    <3> QED
      BY <3>1, <1>4 DEF Written
  <2> QED
    BY <2>1, <2>2
<1>6. k' - 1 = k
  BY <1>1
<1> QED
  BY <1>4, <1>5, <1>6 DEF Written

LEMMA EmitDirectiveKeeps == Inv /\ EmitDirective /\ Steady => FALSE
BY NoDirectiveHere DEF Inv, EmitDirective

\* A step of the emission behind which the registers are as the widths say.
LEMMA EmissionKeeps ==
    ASSUME Inv, Steady, phase = "emit", k <= Len(program), NEW bytes, EmitNode(bytes),
           regs' = RegsIn(program, tracking, k),
           Len(bytes) = Measured(program, tracking, label, k)
    PROVE  Inv'
<1>1. /\ program \in Programs /\ tracking \in BOOLEAN /\ Walking /\ Laid /\ Written(k - 1)
      /\ phase' = "emit" /\ code' = Append(code, bytes) /\ k' = k + 1
      /\ UNCHANGED <<program, tracking, label>>
  BY DEF Inv, EmitNode
<1>2. k \in 1 .. Len(program) /\ Len(program) \in Nat /\ (k + 1) - 1 = k
  BY <1>1, ProgramFacts DEF Walking
<1>3. Walking'
  BY <1>1, <1>2 DEF Walking
<1>4. Laid'
  BY <1>1, LaidStays
<1>5. Written(k - 1)'
  BY <1>1, WrittenGrows
<1> QED
  BY <1>1, <1>3, <1>4, <1>5 DEF Inv, Emitted

LEMMA EmitDataKeeps ==
    ASSUME Inv, Steady, EmitData
    PROVE  Inv'
<1> DEFINE bytes == LittleEndian(Node.value, 1)
<1>1. /\ program \in Programs /\ tracking \in BOOLEAN /\ k <= Len(program) /\ phase = "emit"
      /\ Node.op = ".db" /\ EmitNode(bytes) /\ regs' = regs
  BY DEF Inv, EmitData
<1>2. Walking
  BY <1>1 DEF Inv
<1>3. regs' = RegsIn(program, tracking, k)
  BY <1>1, <1>2, RegsOfOther DEF Switches
<1>4. 1 \in Nat
  OBVIOUS
<1>5. Len(bytes) = 1
  BY <1>4, LittleEndianBytes
<1>6. Len(bytes) = Measured(program, tracking, label, k)
  BY <1>1, <1>5 DEF Measured, IsData, Node
<1> HIDE DEF bytes
<1> QED
  BY <1>1, <1>3, <1>6, EmissionKeeps

LEMMA EmitOpcodeKeeps ==
    ASSUME Inv, Steady, EmitOpcode
    PROVE  Inv'
<1> DEFINE after == RegistersAfter(regs, Node, Value(Node), tracking)
           bytes == Encoded(after)
<1>1. /\ program \in Programs /\ tracking \in BOOLEAN /\ k <= Len(program) /\ phase = "emit"
      /\ Node.op # ".db" /\ EmitNode(bytes) /\ bytes # <<>> /\ regs' = after
  BY DEF Inv, EmitOpcode, IsOpcode
<1>2. Walking /\ Laid
  BY <1>1 DEF Inv
<1>3. k \in 1 .. Len(program) /\ Node = program[k] /\ Node.size \in Nat /\ Node.to \in Nat
  BY <1>1, <1>2, ProgramFacts DEF Walking, Node
<1>4. Emitters(Node) # {} /\ (Node.to > k => ~NeedsValue(Emitter(Node), Node.size, RegsIn(program, tracking, k)))
  BY <1>1, <1>2, <1>3, LaidFacts DEF Measurable, IsData
<1>5. Value(Node) = IF Node.to = 0 THEN Node.value ELSE label[Node.to]
  BY <1>1, <1>2, OperandBound
<1>6. after = RegsIn(program, tracking, k)
  BY <1>1, <1>2, <1>4, <1>5, RegsOfNode
<1>7. bytes = Emit(Emitter(Node), Node, Value(Node), pc, after)
  BY DEF Encoded
<1> HIDE DEF after, bytes
<1>8. \/ OperandAt(program, label, k) = Value(Node)
      \/ ~NeedsValue(Emitter(Node), Node.size, after)
  BY <1>3, <1>4, <1>5, <1>6 DEF OperandAt
<1>9. Len(bytes) = SupposedLength(Emitter(Node), Node.size, OperandAt(program, label, k), after)
  <2>1. Regular(Emitter(Node))
    BY <1>4, EmitterRegular
  <2>2. Emit(Emitter(Node), Node, Value(Node), pc, after) # <<>>
    BY <1>1, <1>7
  <2> DEFINE row == Emitter(Node)
             operand == OperandAt(program, label, k)
  <2>3. operand = Value(Node) \/ ~NeedsValue(row, Node.size, after)
    BY <1>8
  <2>4. Regular(row) /\ Node.size \in Nat /\ Emit(row, Node, Value(Node), pc, after) # <<>>
    BY <2>1, <2>2, <1>3
  <2> HIDE DEF row, operand
  <2>5. Len(Emit(row, Node, Value(Node), pc, after)) = SupposedLength(row, Node.size, operand, after)
    BY <2>3, <2>4, WrittenAsMeasured
  <2> QED
    BY <2>5, <1>7 DEF row, operand
<1>10. Len(bytes) = Measured(program, tracking, label, k)
  BY <1>1, <1>3, <1>6, <1>9 DEF Measured, IsData
<1> QED
  BY <1>1, <1>6, <1>10, EmissionKeeps

\* Behind the emission the disassembler only reads.
LEMMA ReadingKeeps ==
    ASSUME Inv, Steady, UNCHANGED <<program, tracking, label, code>>, Emitted',
           Emitted \/ (phase = "emit" /\ k > Len(program))
    PROVE  Inv'
<1>1. Laid /\ Written(Len(program))
  <2>1. CASE Emitted
    BY <2>1 DEF Inv
  <2>2. CASE phase = "emit" /\ k > Len(program)
    <3>1. program \in Programs /\ Walking /\ Laid /\ Written(k - 1)
      BY <2>2 DEF Inv
    <3>2. k - 1 = Len(program)
      BY <2>2, <3>1, ProgramFacts DEF Walking
    <3> QED
      BY <3>1, <3>2
  <2> QED
    BY <2>1, <2>2
<1>2. Laid' /\ Written(Len(program))'
  BY <1>1, LaidStays DEF Written
<1>3. phase' \notin {"first", "second", "emit"}
  BY DEF Emitted
<1> QED
  BY <1>2, <1>3 DEF Inv

LEMMA DisassemblerReads ==
    ASSUME StartListing \/ List \/ StartWalk \/ Pop \/ Walk \/ LeavePath \/ FinishWalk
    PROVE  /\ UNCHANGED <<program, tracking, label, code>> /\ Emitted'
           /\ Emitted \/ (phase = "emit" /\ k > Len(program))
<1>1. CASE StartListing
  BY <1>1 DEF StartListing, Emitted
<1>2. CASE List
  BY <1>2 DEF List, asmVars, Emitted
<1>3. CASE StartWalk
  BY <1>3 DEF StartWalk, Emitted
<1>4. CASE Pop
  BY <1>4 DEF Pop, Emitted
<1>5. CASE Walk
  BY <1>5 DEF Walk, Emitted
<1>6. CASE LeavePath
  BY <1>6 DEF LeavePath, Emitted
<1>7. CASE FinishWalk
  BY <1>7 DEF FinishWalk, Emitted
<1> QED
  BY <1>1, <1>2, <1>3, <1>4, <1>5, <1>6, <1>7

LEMMA StutterKeeps == Inv /\ UNCHANGED vars => Inv'
BY LaidStays, WrittenStays, SteadyStays DEF Inv, vars, asmVars, Walking, Binding, Emitted

LEMMA InvNext == Inv /\ [Next]_vars => Inv'
<1> SUFFICES ASSUME Inv, [Next]_vars PROVE Inv'
  OBVIOUS
<1>1. UNCHANGED <<program, tracking>>
  BY ProgramStays
<1>2. CASE ~Steady
  <2>1. ~Steady'
    BY <1>1, <1>2, SteadyStays
  <2> QED
    BY <1>1, <2>1 DEF Inv
<1>3. CASE Steady
  <2>1. CASE MeasureDirective \/ EmitDirective
    BY <1>3, <2>1, MeasureDirectiveKeeps, EmitDirectiveKeeps
  <2>2. CASE MeasureData
    BY <1>3, <2>2, MeasureDataKeeps
  <2>3. CASE MeasureOpcode
    BY <1>3, <2>3, MeasureOpcodeKeeps
  <2>4. CASE MeasureFails \/ EmitFails
    BY <2>4, FailKeeps DEF MeasureFails, EmitFails
  <2>5. CASE EndPass
    BY <1>3, <2>5, EndPassKeeps
  <2>6. CASE EmitData
    BY <1>3, <2>6, EmitDataKeeps
  <2>7. CASE EmitOpcode
    BY <1>3, <2>7, EmitOpcodeKeeps
  <2>8. CASE StartListing \/ List \/ StartWalk \/ Pop \/ Walk \/ LeavePath \/ FinishWalk
    BY <1>3, <2>8, DisassemblerReads, ReadingKeeps
  <2>9. CASE UNCHANGED vars
    BY <2>9, StutterKeeps
  <2> QED
    BY <2>1, <2>2, <2>3, <2>4, <2>5, <2>6, <2>7, <2>8, <2>9 DEF Next, AssembleNext
<1> QED
  BY <1>2, <1>3

LEMMA InvSteadyLabels == Inv => SteadyLabels
<1> SUFFICES ASSUME Inv, NoDirective /\ Restores, Emitted PROVE \A j \in Positions : label[j] = Address(j)
  BY DEF SteadyLabels, LabelsAtTheirBytes
<1>1. program \in Programs /\ Laid /\ Written(Len(program))
  BY DEF Inv, Steady
<1> QED
  BY <1>1, WrittenAtLabels

LEMMA InvAlways == Spec => []Inv
<1>1. Init => Inv
  BY InvInit
<1>2. Inv /\ [Next]_vars => Inv'
  BY InvNext
<1> QED
  BY <1>1, <1>2, PTL DEF Spec

\* For every program without width directives that gives rep and sep numbers
\* and restores the register widths, wherever it is placed: the label the first
\* pass binds is where the emission puts the bytes behind it.
THEOREM LabelsSteady == Spec => []SteadyLabels
<1>1. Inv => SteadyLabels
  BY InvSteadyLabels
<1> QED
  BY <1>1, InvAlways, PTL

-----------------------------------------------------------------------------
(* The bus.                                                                *)

\* The mappings Bus.map makes of a mask of one bit, and the addresses of a
\* bank the mask leaves alone: the upper half for 0x8000, all for 0x10000.
Mappings == [first : Nat, mask : Masks, writable : BOOLEAN]

Visible(m) == {a \in Nat : BankOf(a) >= m.first /\ a % Bank64K >= m.mask % Bank64K}

\* An address is its bank and its place in it.
LEMMA BankAndPlace ==
    ASSUME NEW bank \in Nat, NEW place \in Nat, place < Bank64K
    PROVE  /\ BankOf(bank * Bank64K + place) = bank
           /\ (bank * Bank64K + place) % Bank64K = place
           /\ (bank * Bank64K + place) % 32768 = place % 32768
BY SMTT(30) DEF BankOf, Bank64K

\* A number is put together again from what a mask takes it apart into.
LEMMA JoinMask ==
    ASSUME NEW whole \in Nat, NEW rest \in Nat, NEW mask \in {32768, 65536}, rest < mask
    PROVE  (whole * mask + rest) \div mask = whole /\ (whole * mask + rest) % mask = rest
<1>1. CASE mask = 32768
  <2>1. (whole * 32768 + rest) \div 32768 = whole /\ (whole * 32768 + rest) % 32768 = rest
    BY <1>1, SMTT(30)
  <2> QED
    BY <1>1, <2>1
<1>2. CASE mask = 65536
  <2>1. (whole * 65536 + rest) \div 65536 = whole /\ (whole * 65536 + rest) % 65536 = rest
    BY <1>2, SMTT(30)
  <2> QED
    BY <1>2, <2>1
<1> QED
  BY <1>1, <1>2

\* A place in memory is its bank by the mask and the rest, and the rest leaves room for the lower
\* bits.
LEMMA SplitMask ==
    ASSUME NEW p \in Nat, NEW mask \in {32768, 65536}
    PROVE  /\ p \div mask \in Nat /\ p % mask \in Nat /\ p % mask < mask
           /\ (p \div mask) * mask + (p % mask) = p
           /\ p % mask < 65536 - (mask % 65536)
<1>1. CASE mask = 32768
  <2>1. /\ p \div 32768 \in Nat /\ p % 32768 \in Nat /\ p % 32768 < 32768
        /\ (p \div 32768) * 32768 + (p % 32768) = p
    BY SMTT(30)
  <2> QED
    BY <1>1, <2>1
<1>2. CASE mask = 65536
  <2>1. /\ p \div 65536 \in Nat /\ p % 65536 \in Nat /\ p % 65536 < 65536
        /\ (p \div 65536) * 65536 + (p % 65536) = p
    BY SMTT(30)
  <2> QED
    BY <1>2, <2>1
<1> QED
  BY <1>1, <1>2

\* The parts of a mapping, and of an address of one.
LEMMA MappingParts ==
    ASSUME NEW m \in Mappings
    PROVE  m.first \in Nat /\ m.mask \in {32768, 65536}
BY DEF Mappings, Masks, Bank64K

\* An address is its bank and its place in the bank.
LEMMA AddressParts ==
    ASSUME NEW a \in Nat
    PROVE  /\ BankOf(a) \in Nat /\ a % 65536 \in Nat /\ a % 65536 < 65536
           /\ BankOf(a) * 65536 + (a % 65536) = a
<1>1. BankOf(a) = a \div 65536
  BY DEF BankOf, Bank64K
<1>2. /\ a \div 65536 \in Nat /\ a % 65536 \in Nat /\ a % 65536 < 65536
      /\ (a \div 65536) * 65536 + (a % 65536) = a
  BY SMTT(30)
<1> QED
  BY <1>1, <1>2

\* What physical_address gives is an offset in the file.
LEMMA PhysicalNat ==
    ASSUME NEW m \in Mappings, NEW a \in Nat, BankOf(a) >= m.first
    PROVE  PhysicalIn(m, a) \in Nat
<1> DEFINE bank == BankOf(a) - m.first
           rest == a % m.mask
<1>1. m.first \in Nat /\ m.mask \in {32768, 65536}
  BY MappingParts
<1>2. BankOf(a) \in Nat
  BY AddressParts
<1>3. rest \in Nat
  BY <1>1, SplitMask
<1>4. bank \in Nat
  BY <1>1, <1>2
<1>5. PhysicalIn(m, a) = bank * m.mask + rest
  BY DEF PhysicalIn
<1> HIDE DEF bank, rest
<1>6. CASE m.mask = 32768
  BY <1>3, <1>4, <1>5, <1>6
<1>7. CASE m.mask = 65536
  BY <1>3, <1>4, <1>5, <1>7
<1> QED
  BY <1>1, <1>6, <1>7

\* Every offset of a mapping has an address, from which physical_address
\* leads back to it.
THEOREM FileOffsetsHaveAddresses ==
    ASSUME NEW m \in Mappings, NEW p \in Nat
    PROVE  LogicalIn(m, p) \in Visible(m) /\ PhysicalIn(m, LogicalIn(m, p)) = p
<1> DEFINE half == m.mask % 65536
           whole == p \div m.mask
           rest == p % m.mask
           bank == whole + m.first
           place == half + rest
           a == LogicalIn(m, p)
<1>1. m.first \in Nat /\ m.mask \in {32768, 65536}
  BY MappingParts
<1>2. /\ whole \in Nat /\ rest \in Nat /\ rest < m.mask
      /\ whole * m.mask + rest = p /\ rest < 65536 - half
  BY <1>1, SplitMask
<1>3. half \in {0, 32768}
  BY <1>1
<1>4. a = bank * 65536 + half + rest
  BY DEF LogicalIn, Bank64K
<1>5. half + rest = 32768 + rest \/ half + rest = rest
  BY <1>2, <1>3
<1>6. place % m.mask = rest
  <2> HIDE DEF rest
  <2>1. CASE m.mask = 32768
    <3>1. (32768 + rest) % 32768 = rest
      BY <1>2, <2>1, SMTT(30)
    <3> QED
      BY <2>1, <3>1
  <2>2. CASE m.mask = 65536
    <3>1. rest % 65536 = rest
      BY <1>2, <2>2, SMTT(30)
    <3> QED
      BY <1>2, <2>2, <3>1
  <2> QED
    BY <1>1, <2>1, <2>2
<1> HIDE DEF half, whole, rest, a
<1>7. bank \in Nat /\ bank >= m.first /\ bank - m.first = whole
  BY <1>1, <1>2
<1>8. place \in Nat /\ place < 65536 /\ place >= half
  BY <1>2, <1>3
<1>9. a = bank * 65536 + place
  BY <1>2, <1>3, <1>4, <1>7
<1> HIDE DEF bank, place
<1>10. a \in Nat /\ BankOf(a) = bank /\ a % 65536 = place
  <2>1. bank * 65536 + place \in Nat
    BY <1>7, <1>8
  <2>2. /\ BankOf(bank * 65536 + place) = bank
        /\ (bank * 65536 + place) % 65536 = place
    BY <1>7, <1>8, BankAndPlace DEF Bank64K
  <2> QED
    BY <1>9, <2>1, <2>2
<1>11. a % m.mask = place % m.mask
  <2>1. CASE m.mask = 32768
    <3>1. (bank * 65536 + place) % 32768 = place % 32768
      BY <1>7, <1>8, SMTT(30)
    <3> QED
      BY <1>9, <2>1, <3>1
  <2>2. CASE m.mask = 65536
    <3>1. place % 65536 = place
      BY <1>8, SMTT(30)
    <3> QED
      BY <1>10, <2>2, <3>1
  <2> QED
    BY <1>1, <2>1, <2>2
<1>12. a \in Visible(m)
  BY <1>7, <1>8, <1>10 DEF Visible, Bank64K, half
<1>13. PhysicalIn(m, a) = whole * m.mask + rest
  BY <1>6, <1>7, <1>10, <1>11 DEF PhysicalIn
<1> QED
  BY <1>2, <1>12, <1>13 DEF a

\* An address of a mapping is the address of its own offset
\* (Mapping.logical_address undoes Mapping.physical_address).
THEOREM AddressesHaveTheirOffset ==
    ASSUME NEW m \in Mappings, NEW a \in Visible(m)
    PROVE  LogicalIn(m, PhysicalIn(m, a)) = a
<1>a. a \in Nat
  BY DEF Visible
<1>b. /\ BankOf(a) \in Nat /\ a % 65536 \in Nat /\ a % 65536 < 65536
      /\ BankOf(a) * 65536 + (a % 65536) = a
  BY <1>a, AddressParts
<1> DEFINE bank == BankOf(a) - m.first
           rest == a % m.mask
           place == a % 65536
           half == m.mask % 65536
<1>1. m.first \in Nat /\ m.mask \in {32768, 65536}
  BY MappingParts
<1>2. a \in Nat /\ BankOf(a) >= m.first /\ place >= half
  BY DEF Visible, Bank64K
<1>3. BankOf(a) \in Nat /\ place \in Nat /\ place < 65536 /\ BankOf(a) * 65536 + place = a
  BY <1>b
<1>4. bank \in Nat /\ bank + m.first = BankOf(a)
  BY <1>1, <1>2, <1>3
<1>5. rest \in Nat /\ rest < m.mask
  BY <1>1, <1>2, SplitMask
<1>6. place = half + rest
  <2>1. CASE m.mask = 32768
    <3>1. a % 65536 >= 32768
      BY <1>2, <2>1
    <3>2. a % 65536 = 32768 + (a % 32768)
      BY <1>2, <3>1, SMTT(30)
    <3> QED
      BY <2>1, <3>2
  <2>2. CASE m.mask = 65536
    <3>1. a % 65536 \in Nat /\ 0 + (a % 65536) = a % 65536
      BY <1>3
    <3> QED
      BY <2>2, <3>1
  <2> QED
    BY <1>1, <2>1, <2>2
<1>7. PhysicalIn(m, a) = bank * m.mask + rest
  BY DEF PhysicalIn
<1> HIDE DEF bank, rest, place
<1>8. PhysicalIn(m, a) \div m.mask = bank /\ PhysicalIn(m, a) % m.mask = rest
  BY <1>1, <1>4, <1>5, <1>7, JoinMask
<1>9. LogicalIn(m, PhysicalIn(m, a)) = (bank + m.first) * 65536 + half + rest
  BY <1>8 DEF LogicalIn, Bank64K
<1>10. half \in {0, 32768}
  BY <1>1
<1> HIDE DEF half
<1> QED
  BY <1>3, <1>4, <1>5, <1>6, <1>9, <1>10

\* So no two addresses of a mapping share a byte of the file.
THEOREM AddressesApart ==
    ASSUME NEW m \in Mappings, NEW a \in Visible(m), NEW b \in Visible(m),
           PhysicalIn(m, a) = PhysicalIn(m, b)
    PROVE  a = b
<1>1. LogicalIn(m, PhysicalIn(m, a)) = a /\ LogicalIn(m, PhysicalIn(m, b)) = b
  BY AddressesHaveTheirOffset
<1> QED
  BY <1>1

\* Address.__add__ keeps step with the file: n bytes on from an address in
\* ROM are n bytes on in the file, as long as the same mapping goes on.
THEOREM PlusFollowsTheFile ==
    ASSUME NEW bus, NEW a \in Nat, NEW n \in Nat,
           bus[BankOf(a)] \in Mappings, ~bus[BankOf(a)].writable,
           BankOf(a) >= bus[BankOf(a)].first,
           bus[BankOf(Plus(bus, a, n))] = bus[BankOf(a)]
    PROVE  Physical(bus, Plus(bus, a, n)) = Physical(bus, a) + n
<1> DEFINE m == bus[BankOf(a)]
           p == PhysicalIn(m, a)
<1>1. p \in Nat /\ p + n \in Nat
  BY PhysicalNat
<1>2. Plus(bus, a, n) = LogicalIn(m, p + n) /\ Physical(bus, a) = p
  BY DEF Plus, Physical
<1>3. PhysicalIn(m, LogicalIn(m, p + n)) = p + n
  BY <1>1, FileOffsetsHaveAddresses
<1> QED
  BY <1>2, <1>3 DEF Physical
=============================================================================
