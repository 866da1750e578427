----------------------------- MODULE MachineCode ----------------------------
(***************************************************************************)
(* Straight-line code through the assembler in direct mode: two passes of  *)
(* pc_after over the nodes, the labels bound in the first one, then the    *)
(* emission (Program.resolve_labels and EmitMixin.emit of src/a816/program)*)
(* for instructions, data bytes and the register-width directives.  The    *)
(* register widths the resolver remembers are not among the things         *)
(* resolver_reset resets.                                                  *)
(***************************************************************************)
EXTENDS Instructions

CONSTANTS Origin,    \* where the code is placed
          Programs   \* the sequences of nodes considered

\* The nodes, as the parser makes them: an instruction, data or a directive.
\* `to` is the node whose label the operand names, 0 for a number.
Nodes == [op : STRING, mode : STRING, index : STRING, size : Nat, value : Int, to : Nat, second : Int]

ASSUME ProgramAssumption ==
    /\ Origin \in Nat
    /\ Programs \subseteq Seq(Nodes)
    /\ \A p \in Programs : \A j \in DOMAIN p : p[j].to <= Len(p)

VARIABLES program,   \* the nodes, each with a label in front of it
          tracking,  \* resolver.track_register_size
          phase,     \* "first", "second", "emit", then the disassembler's phases
          k,         \* the node the walk is at
          pc,        \* where it is
          regs,      \* a_size, i_size
          label,     \* what the label of each node was bound to
          code       \* the bytes of each node emitted so far

asmVars == <<program, tracking, phase, k, pc, regs, label, code>>

Eight == [a |-> 8, x |-> 8]

InitCode ==
    /\ program \in Programs /\ tracking \in BOOLEAN
    /\ phase = "first" /\ k = 1 /\ pc = Origin /\ regs = Eight
    /\ label = <<>> /\ code = <<>>

Node == program[k]

\* LabelNode.pc_after, which the second pass leaves out.
BindLabel == IF phase = "first" THEN Append(label, pc) ELSE label

\* ExpressionNode.get_value of an operand: a literal, or the label of a node.
HasValue(ins) == ins.to = 0 \/ ins.to \in DOMAIN BindLabel

Value(ins) == IF ins.to = 0 THEN ins.value ELSE BindLabel[ins.to]

Fail == phase' = "failed" /\ UNCHANGED <<program, tracking, k, pc, regs, label, code>>

\* Program.resolver_reset: the register widths stay.
WidthsAfterPass == regs

\* The next pass starts where the resolver was left.
Reset(next) == /\ phase' = next /\ k' = 1 /\ pc' = Origin
               /\ regs' = WidthsAfterPass
               /\ UNCHANGED <<program, tracking, label, code>>

InPass == phase \in {"first", "second"}

\* RegisterSizeNode.pc_after does nothing.
MeasureDirective ==
    /\ InPass /\ k <= Len(program) /\ Node.op \in {".a", ".i"}
    /\ label' = BindLabel /\ k' = k + 1
    /\ UNCHANGED <<program, tracking, phase, pc, regs, code>>

MeasureData ==
    /\ InPass /\ k <= Len(program) /\ Node.op = ".db"
    /\ label' = BindLabel /\ k' = k + 1 /\ pc' = pc + 1
    /\ UNCHANGED <<program, tracking, phase, regs, code>>

IsOpcode == Node.op \notin {".a", ".i", ".db"}

\* OpcodeNode.pc_after: the widths move first, then the length is taken.  A
\* rep or sep whose operand is not known yet moves nothing.
MeasureOpcode ==
    /\ InPass /\ k <= Len(program) /\ IsOpcode
    /\ LET after == IF HasValue(Node) THEN RegistersAfter(regs, Node, Value(Node), tracking) ELSE regs
       IN  /\ Emitters(Node) # {}
           /\ NeedsValue(Emitter(Node), Node.size, after) => HasValue(Node)
           /\ label' = BindLabel /\ k' = k + 1 /\ regs' = after
           /\ pc' = pc + SupposedLength(Emitter(Node), Node.size,
                                        IF HasValue(Node) THEN Value(Node) ELSE 0, after)
    /\ UNCHANGED <<program, tracking, phase, code>>

\* No such mode, or a value that is needed for the length and not known.
MeasureFails ==
    /\ InPass /\ k <= Len(program) /\ IsOpcode
    /\ Emitters(Node) # {} => NeedsValue(Emitter(Node), Node.size, regs) /\ ~HasValue(Node)
    /\ Fail

EndPass == /\ InPass /\ k > Len(program)
           /\ Reset(IF phase = "first" THEN "second" ELSE "emit")

EmitNode(bytes) == /\ code' = Append(code, bytes) /\ k' = k + 1 /\ pc' = pc + Len(bytes)
                   /\ UNCHANGED <<program, tracking, phase, label>>

\* RegisterSizeNode.emit.
EmitDirective ==
    /\ phase = "emit" /\ k <= Len(program) /\ Node.op \in {".a", ".i"}
    /\ regs' = IF Node.op = ".a" THEN [regs EXCEPT !.a = Node.size] ELSE [regs EXCEPT !.x = Node.size]
    /\ EmitNode(<<>>)

EmitData == /\ phase = "emit" /\ k <= Len(program) /\ Node.op = ".db"
            /\ EmitNode(LittleEndian(Node.value, 1)) /\ UNCHANGED regs

Encoded(after) == Emit(Emitter(Node), Node, Value(Node), pc, after)

\* OpcodeNode.emit.
EmitOpcode ==
    /\ phase = "emit" /\ k <= Len(program) /\ IsOpcode
    /\ LET after == RegistersAfter(regs, Node, Value(Node), tracking)
       IN  Encoded(after) # <<>> /\ regs' = after /\ EmitNode(Encoded(after))

EmitFails ==
    /\ phase = "emit" /\ k <= Len(program) /\ IsOpcode
    /\ Encoded(RegistersAfter(regs, Node, Value(Node), tracking)) = <<>>
    /\ Fail

AssembleNext == \/ MeasureDirective \/ MeasureData \/ MeasureOpcode \/ MeasureFails \/ EndPass
                \/ EmitDirective \/ EmitData \/ EmitOpcode \/ EmitFails
=============================================================================
