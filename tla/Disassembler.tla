---------------------------- MODULE Disassembler ----------------------------
(***************************************************************************)
(* The disassembler (src/a816/cpu/disassembler.py) on the bytes the        *)
(* assembler emitted: its table derived from the assembler's, linear       *)
(* decoding with the M and X flags followed through rep and sep, and       *)
(* disassemble_function, which walks the flow of control from an entry     *)
(* point with a stack of addresses still to decode.                        *)
(***************************************************************************)
EXTENDS MachineCode

LOCAL INSTANCE SequencesExt
LOCAL INSTANCE TLC

CONSTANTS MaxInstructions,  \* disassemble_function(max_instructions), disassemble(count)
          FollowCalls

VARIABLES cur,      \* the address being decoded
          flags,    \* m_flag, x_flag: whether each register has eight bits
          listing,  \* what disassemble has returned so far
          work,     \* addresses to decode with the flags they are reached with
          seen,     \* those already popped
          output,   \* address -> instruction
          decoded   \* how many instructions were decoded

disVars == <<cur, flags, listing, work, seen, output, decoded>>
vars == <<asmVars, disVars>>

NoFunction == [a \in {} |-> a]

\* The emitted bytes, and data_provider: up to n of them at an address.
Image == FlattenSeq(code)

Read(a, n) == SubSeq(Image, a - Origin + 1, a - Origin + n)

Provided(a, n) == IF a < Origin THEN <<>>
                  ELSE Read(a, IF a + n > Origin + Len(Image) THEN Origin + Len(Image) - a ELSE n)

-----------------------------------------------------------------------------
\* _SLOT_MODES: what each operand size of an assembler mode decodes to.
SlotModes(row) ==
    CASE row.mode = "direct"                  -> <<"dp", "abs", "long">>
      [] row.mode = "direct_indexed" /\ row.index = "x" -> <<"dp,x", "abs,x", "long,x">>
      [] row.mode = "direct_indexed" /\ row.index = "y" -> <<"dp,y", "abs,y">>
      [] row.mode = "direct_indexed" /\ row.index = "s" -> <<"sr,s">>
      [] row.mode = "indirect"                -> <<"(dp)", "(abs)">>
      [] row.mode = "indirect_long"           -> <<"[dp]", "[abs]">>
      [] row.mode = "indirect_indexed"        -> <<"(dp),y">>
      [] row.mode = "indirect_indexed_long"   -> <<"[dp],y">>
      [] row.mode = "dp_or_sr_indirect_indexed" -> <<"(dp,x)", "(abs,x)">>
      [] row.mode = "stack_indexed_indirect_indexed" -> <<"(sr,s),y">>

\* The operand of an immediate follows the flags: get_operand_size.
Following(row) == IF row.reg = "a" THEN "immM" ELSE IF row.reg = "x" THEN "immX" ELSE "imm8"

Entry(byte, op, mode, n) == [byte |-> byte, op |-> op, mode |-> mode, n |-> n]

\* _emitter_records: the bytes of one emitter.  jsl and jml are encode-only.
Records(row) ==
    CASE row.kind = "move"      -> {Entry(row.bytes[1], row.op, "blk", 2)}
      [] row.kind = "relative2" -> {Entry(row.bytes[1], row.op, "rell", 2)}
      [] row.kind = "relative"  -> {Entry(row.bytes[1], row.op, "rel", 1)}
      [] row.kind = "implied"   -> {Entry(row.bytes[1], row.op, "imp", 0)}
      [] row.kind = "long"      -> {}
      [] row.kind = "sized" /\ row.mode = "immediate" -> {Entry(row.bytes[1], row.op, Following(row), 1)}
      [] OTHER -> {Entry(row.bytes[n], row.op, SlotModes(row)[n], n)
                   : n \in {j \in DOMAIN row.bytes : row.bytes[j] # None}}

\* _derive_opcode_table.  It raises if two entries claim a byte.
OpcodeTable == UNION {Records(row) : row \in Table}

ASSUME NoByteTwice == \A e, f \in OpcodeTable : e.byte = f.byte => e = f

\* The entries by their byte.
EntriesOf == [byte \in 0 .. 255 |-> {e \in OpcodeTable : e.byte = byte}]

OperandWidth(e, f) ==
    IF (e.mode = "immM" /\ ~f.m) \/ (e.mode = "immX" /\ ~f.x) THEN 2 ELSE e.n

Decoded(op, mode, value, n) == [op |-> op, mode |-> mode, value |-> value, n |-> n]

ValueOf(bytes) == FoldLeft(LAMBDA v, j : v + bytes[j] * 256 ^ (j - 1), 0, [j \in DOMAIN bytes |-> j])

\* decode_instruction: a byte no entry claims, or an operand cut short by the
\* end of the data, is one data byte.
Decode(data, f) ==
    LET entries == EntriesOf[data[1]]
        e == CHOOSE x \in entries : TRUE
        n == OperandWidth(e, f)
    IN  IF entries = {} \/ Len(data) < 1 + n THEN Decoded(".db", "imm8", data[1], 0)
        ELSE Decoded(e.op, e.mode, ValueOf(SubSeq(data, 2, 1 + n)), n)

\* Mutant: rep sets the flags and sep clears them.
FlagsInverted(inst, f) ==
    IF inst.op \in {"rep", "sep"}
    THEN [m |-> IF Bit(5, inst.value) THEN inst.op = "rep" ELSE f.m,
          x |-> IF Bit(4, inst.value) THEN inst.op = "rep" ELSE f.x]
    ELSE f

\* _track_register_flags.
FlagsAfter(inst, f) ==
    IF inst.op \in {"rep", "sep"}
    THEN [m |-> IF Bit(5, inst.value) THEN inst.op = "sep" ELSE f.m,
          x |-> IF Bit(4, inst.value) THEN inst.op = "sep" ELSE f.x]
    ELSE f

\* Instruction.relative_target: inside the bank of the instruction.
Signed(value, n) == IF value < 128 * 256 ^ (n - 1) THEN value ELSE value - 256 ^ n

RelativeTarget(inst, a) == (a + 1 + inst.n + Signed(inst.value, inst.n)) % 2 ^ 16

\* _absolute_jump_target.
JumpTargets(inst, a) == IF inst.mode \in {"long", "abs"} THEN {inst.value} ELSE {}

-----------------------------------------------------------------------------
Narrow == [m |-> TRUE, x |-> TRUE]

InitWalk == /\ cur = Origin /\ flags = Narrow /\ listing = <<>>
            /\ work = <<>> /\ seen = {} /\ output = NoFunction /\ decoded = 0

\* The image is written; it is read back from its first byte.
StartListing ==
    /\ phase = "emit" /\ k > Len(program)
    /\ phase' = "listing"
    /\ UNCHANGED <<program, tracking, k, pc, regs, label, code, disVars>>

InImage(a) == Provided(a, 1) # <<>>

\* disassemble: one instruction after the other.
List ==
    /\ phase = "listing" /\ InImage(cur) /\ Len(listing) < MaxInstructions
    /\ LET inst == Decode(Provided(cur, Len(Image)), flags)
       IN  /\ listing' = Append(listing, inst)
           /\ cur' = cur + 1 + inst.n
           /\ flags' = FlagsAfter(inst, flags)
    /\ UNCHANGED <<asmVars, work, seen, output, decoded>>

\* The walk starts from the first byte, with the flags of a fresh disassembler.
StartWalk ==
    /\ phase = "listing" /\ ~(InImage(cur) /\ Len(listing) < MaxInstructions)
    /\ phase' = "pop" /\ work' = <<<<Origin, Narrow>>>>
    /\ UNCHANGED <<program, tracking, k, pc, regs, label, code, cur, flags, listing, seen, output, decoded>>

Top == work[Len(work)]

\* disassemble_function: take the last address pushed, unless it was done.
Pop ==
    /\ phase = "pop" /\ work # <<>> /\ decoded < MaxInstructions
    /\ work' = Front(work)
    /\ \/ Top \in seen /\ UNCHANGED <<phase, seen, cur, flags>>
       \/ /\ Top \notin seen
          /\ seen' = seen \cup {Top} /\ cur' = Top[1] /\ flags' = Top[2] /\ phase' = "path"
    /\ UNCHANGED <<program, tracking, k, pc, regs, label, code, listing, output, decoded>>

Returns == {"rts", "rtl", "rti"}
Always == {"bra", "brl"}
Conditional == {"bcc", "bcs", "beq", "bmi", "bne", "bpl", "bvc", "bvs"}

\* _enqueue_successors: where else control may go, and whether the path ends.
Successors(inst, a) ==
    IF inst.op \in {"jmp", "jml"} THEN JumpTargets(inst, a)
    ELSE IF inst.op \in Always \cup Conditional THEN {RelativeTarget(inst, a)}
    ELSE IF FollowCalls /\ inst.op \in {"jsr", "jsl"} THEN JumpTargets(inst, a)
    ELSE {}

\* Mutant: code goes on after an unconditional branch.
EndsAtReturn(inst) == inst.op \in Returns \cup {"jmp", "jml"}

EndsPath(inst) == inst.op \in Returns \cup {"jmp", "jml"} \cup Always

\* _walk_path: decode the next instruction of a path.  What an address was
\* decoded to first stays.
Walk ==
    /\ phase = "path" /\ InImage(cur) /\ decoded < MaxInstructions
    /\ LET inst == Decode(Provided(cur, 4), flags)
           after == FlagsAfter(inst, flags)
       IN  /\ output' = IF cur \in DOMAIN output THEN output ELSE output @@ (cur :> inst)
           /\ work' = work \o SetToSeq({<<t, after>> : t \in Successors(inst, cur)})
           /\ decoded' = decoded + 1
           /\ flags' = after
           /\ IF EndsPath(inst) THEN phase' = "pop" /\ UNCHANGED cur
              ELSE cur' = cur + 1 + inst.n /\ UNCHANGED phase
    /\ UNCHANGED <<program, tracking, k, pc, regs, label, code, listing, seen>>

\* The path runs off the bytes, or the budget is spent.
LeavePath ==
    /\ phase = "path" /\ ~(InImage(cur) /\ decoded < MaxInstructions)
    /\ phase' = "pop"
    /\ UNCHANGED <<program, tracking, k, pc, regs, label, code, disVars>>

FinishWalk ==
    /\ phase = "pop" /\ ~(work # <<>> /\ decoded < MaxInstructions)
    /\ phase' = "done"
    /\ UNCHANGED <<program, tracking, k, pc, regs, label, code, disVars>>

Init == InitCode /\ InitWalk

Next == \/ AssembleNext /\ UNCHANGED disVars
        \/ StartListing \/ List \/ StartWalk \/ Pop \/ Walk \/ LeavePath \/ FinishWalk

Spec == Init /\ [][Next]_vars
=============================================================================
