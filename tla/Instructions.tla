---------------------------- MODULE Instructions ----------------------------
(***************************************************************************)
(* The 65c816 opcode table and the encoder: snes_opcode_table and the      *)
(* opcode classes of src/a816/cpu/cpu_65c816.py, the width a value takes   *)
(* when the source names none (ValueNodeProtocol.get_operand_size), and    *)
(* OpcodeNode (src/a816/parse/nodes/opcode.py), which chooses the emitter  *)
(* and follows rep and sep.                                                *)
(***************************************************************************)
EXTENDS Integers, Sequences, FiniteSets

None == -1          \* a size slot of an Opcode without a byte
NoIndex == ""       \* a mode whose entry is an emitter, not a dictionary of indexes
NoReg == ""         \* neither is_a nor is_x

Row(op, mode, index, bytes, reg, kind) ==
    [op |-> op, mode |-> mode, index |-> index, bytes |-> bytes, reg |-> reg, kind |-> kind]

\* Opcode(bytes, is_a, is_x): one byte per operand size.  reg is "a" under
\* is_a, "x" under is_x.
Sized(op, mode, index, bytes, reg) == Row(op, mode, index, bytes, reg, "sized")

\* OpcodeWithoutOperand, RelativeJumpOpcode, RelativeLongJumpOpcode,
\* LongOpcode(alias=True), BlockMoveOpcode.
Implied(op, byte)   == Row(op, "none", NoIndex, <<byte>>, NoReg, "implied")
Relative(op, byte)  == Row(op, "direct", NoIndex, <<byte>>, NoReg, "relative")
Relative2(op, byte) == Row(op, "direct", NoIndex, <<byte>>, NoReg, "relative2")
Long(op, byte)      == Row(op, "direct", NoIndex, <<None, None, byte>>, NoReg, "long")
Move(op, byte)      == Row(op, "block_move", NoIndex, <<byte>>, NoReg, "move")

\* The modes every accumulator instruction has, at fixed distances from its
\* first byte.  reg: only lda, ora and cmp mark their memory modes is_a.
Accumulator(op, base, reg) ==
    {Sized(op, "direct", NoIndex, <<base + \h05, base + \h0D, base + \h0F>>, reg),
     Sized(op, "direct_indexed", "x", <<base + \h15, base + \h1D, base + \h1F>>, reg),
     Sized(op, "direct_indexed", "y", <<None, base + \h19, None>>, reg),
     Sized(op, "direct_indexed", "s", <<base + \h03>>, NoReg),
     Sized(op, "indirect", NoIndex, <<base + \h12>>, NoReg),
     Sized(op, "indirect_long", NoIndex, <<base + \h07>>, NoReg),
     Sized(op, "indirect_indexed", "y", <<base + \h11>>, NoReg),
     Sized(op, "indirect_indexed_long", "y", <<base + \h17>>, NoReg),
     Sized(op, "dp_or_sr_indirect_indexed", "x", <<base + \h01>>, NoReg),
     Sized(op, "stack_indexed_indirect_indexed", "y", <<base + \h13>>, NoReg)}

Immediate(op, byte, reg) == Sized(op, "immediate", NoIndex, <<byte, byte>>, reg)

\* Shifts, inc and dec: the accumulator, then memory.
Modify(op, acc, base) ==
    {Implied(op, acc), Sized(op, "direct", NoIndex, <<base, base + 8>>, NoReg),
     Sized(op, "direct_indexed", "x", <<base + 16, base + 24>>, NoReg)}

\* The instructions that have them.
AccumulatorModes ==
    UNION {Accumulator("lda", \hA0, "a"), Accumulator("ora", \h00, "a"), Accumulator("eor", \h40, NoReg),
           Accumulator("adc", \h60, NoReg), Accumulator("and", \h20, NoReg), Accumulator("cmp", \hC0, "a"),
           Accumulator("sbc", \hE0, NoReg), Accumulator("sta", \h80, NoReg)}

ShiftsAndSteps ==
    UNION {Modify("dec", \h3A, \hC6), Modify("lsr", \h4A, \h46), Modify("inc", \h1A, \hE6),
           Modify("asl", \h0A, \h06), Modify("rol", \h2A, \h26), Modify("ror", \h6A, \h66)}

LoadsAndStores ==
    {Implied("nop", \hEA), Sized("rep", "immediate", NoIndex, <<\hC2>>, NoReg),
     Immediate("cpx", \hE0, "x"), Sized("cpx", "direct", NoIndex, <<\hE4, \hEC>>, NoReg),
     Immediate("cpy", \hC0, "x"), Sized("cpy", "direct", NoIndex, <<\hC4, \hCC>>, NoReg),
     Immediate("lda", \hA9, "a"), Immediate("ora", \h09, "a"), Immediate("eor", \h49, "a"),
     Immediate("ldx", \hA2, "x"), Sized("ldx", "direct", NoIndex, <<\hA6, \hAE>>, "x"),
     Sized("ldx", "direct_indexed", "y", <<\hB6, \hBE>>, "x"),
     Immediate("ldy", \hA0, "x"), Sized("ldy", "direct", NoIndex, <<\hA4, \hAC>>, "x"),
     Sized("ldy", "direct_indexed", "x", <<\hB4, \hBC>>, "x")}

JumpsAndArithmetic ==
    {Sized("jsr", "direct", NoIndex, <<None, \h20, \h22>>, NoReg),
     Sized("jsr", "dp_or_sr_indirect_indexed", NoIndex, <<None, \hFC>>, NoReg),
     Sized("jmp", "direct", NoIndex, <<None, \h4C, \h5C>>, NoReg),
     Sized("jmp", "indirect", NoIndex, <<None, \h6C, None>>, NoReg),
     Sized("jmp", "indirect_long", NoIndex, <<None, \hDC, None>>, NoReg),
     Sized("jmp", "dp_or_sr_indirect_indexed", NoIndex, <<None, \h7C, None>>, NoReg),
     Long("jsl", \h22), Long("jml", \h5C),
     Implied("inx", \hE8), Implied("iny", \hC8), Implied("dex", \hCA), Implied("dey", \h88),
     Immediate("adc", \h69, "a"), Immediate("and", \h29, "a"),
     Relative("bcc", \h90), Relative("bcs", \hB0), Relative("beq", \hF0),
     Immediate("bit", \h89, "a"), Sized("bit", "direct", NoIndex, <<\h24, \h2C>>, NoReg),
     Sized("bit", "direct_indexed", "x", <<\h34, \h3C>>, NoReg),
     Relative("bmi", \h30), Relative("bne", \hD0), Relative("bpl", \h10), Relative("bra", \h80),
     Relative2("brl", \h82), Relative("bvc", \h50), Relative("bvs", \h70)}

StackAndMoves ==
    {Sized("brk", "immediate", NoIndex, <<\h00>>, NoReg), Sized("cop", "immediate", NoIndex, <<\h02>>, NoReg),
     Sized("wdm", "immediate", NoIndex, <<\h42>>, NoReg), Move("mvn", \h54), Move("mvp", \h44),
     Implied("clc", \h18), Implied("cld", \hD8), Implied("cli", \h58), Implied("clv", \hB8),
     Immediate("cmp", \hC9, "a"), Sized("pea", "direct", NoIndex, <<None, \hF4>>, NoReg),
     Sized("pei", "indirect", NoIndex, <<\hD4>>, NoReg), Relative2("per", \h62),
     Implied("pha", \h48), Implied("pla", \h68), Implied("phy", \h5A), Implied("ply", \h7A),
     Implied("phx", \hDA), Implied("plx", \hFA), Implied("php", \h08), Implied("plp", \h28),
     Implied("phb", \h8B), Implied("plb", \hAB), Implied("phd", \h0B), Implied("pld", \h2B),
     Implied("phk", \h4B), Implied("rti", \h40), Implied("rtl", \h6B), Implied("rts", \h60)}

StoresAndTransfers ==
    {Immediate("sbc", \hE9, "a"), Implied("sec", \h38), Implied("sed", \hF8), Implied("sei", \h78),
     Sized("sep", "immediate", NoIndex, <<\hE2>>, NoReg),
     Sized("stx", "direct", NoIndex, <<\h86, \h8E>>, NoReg), Sized("stx", "direct_indexed", "y", <<\h96>>, NoReg),
     Sized("sty", "direct", NoIndex, <<\h84, \h8C>>, NoReg), Sized("sty", "direct_indexed", "x", <<\h94>>, NoReg),
     Sized("stz", "direct", NoIndex, <<\h64, \h9C>>, NoReg), Sized("stz", "direct_indexed", "x", <<\h74, \h9E>>, NoReg),
     Sized("trb", "direct", NoIndex, <<\h14, \h1C>>, NoReg), Sized("tsb", "direct", NoIndex, <<\h04, \h0C>>, NoReg),
     Implied("stp", \hDB), Implied("tax", \hAA), Implied("tay", \hA8), Implied("tcd", \h5B),
     Implied("tcs", \h1B), Implied("tdc", \h7B), Implied("tsc", \h3B), Implied("tsx", \hBA),
     Implied("txa", \h8A), Implied("txs", \h9A), Implied("txy", \h9B), Implied("tya", \h98),
     Implied("tyx", \hBB), Implied("wai", \hCB), Implied("xba", \hEB), Implied("xce", \hFB)}

Table == AccumulatorModes \cup ShiftsAndSteps \cup LoadsAndStores
         \cup JumpsAndArithmetic \cup StackAndMoves \cup StoresAndTransfers

-----------------------------------------------------------------------------
\* OpcodeNode._get_emitter: the index is looked at only where the mode's
\* entry is a dictionary of indexes.
Emitters(ins) == {r \in Table : /\ r.op = ins.op /\ r.mode = ins.mode
                                /\ r.index \in {NoIndex, ins.index}}

Emitter(ins) == CHOOSE r \in Emitters(ins) : TRUE

\* len(hex(value)) - 2: the sign of a negative value counts as a digit.
Digits(value) ==
    LET n == IF value < 0 THEN -value ELSE value
        hex == CHOOSE d \in 1 .. 7 : n < 16 ^ d /\ (d = 1 \/ n >= 16 ^ (d - 1))
    IN  IF value < 0 THEN hex + 1 ELSE hex

\* get_operand_size, as a number of bytes.
OperandSize(value) == IF Digits(value) <= 2 THEN 1 ELSE IF Digits(value) <= 4 THEN 2 ELSE 3

\* guess_value_size; LongOpcode passes "l".  A size of 0 is none.
ValueSize(row, size, value, regs) ==
    IF row.kind = "long" THEN 3
    ELSE IF size # 0 THEN size
    ELSE IF (row.reg = "a" /\ regs.a = 16) \/ (row.reg = "x" /\ regs.x = 16) THEN 2
    ELSE OperandSize(value)

\* Whether the size of an instruction depends on the value of its operand.
NeedsValue(row, size, regs) ==
    /\ row.kind = "sized" /\ size = 0
    /\ ~(row.reg = "a" /\ regs.a = 16) /\ ~(row.reg = "x" /\ regs.x = 16)

\* Mutant: the length is taken from the value, whatever the registers hold.
LengthByValue(row, size, value, regs) ==
    CASE row.kind = "implied" -> 1
      [] row.kind = "relative" -> 2
      [] row.kind \in {"relative2", "move"} -> 3
      [] OTHER -> 1 + (IF size # 0 THEN size ELSE OperandSize(value))

\* supposed_length: what pc_after adds.
SupposedLength(row, size, value, regs) ==
    CASE row.kind = "implied" -> 1
      [] row.kind = "relative" -> 2
      [] row.kind \in {"relative2", "move"} -> 3
      [] OTHER -> 1 + ValueSize(row, size, value, regs)

LittleEndian(value, n) == [k \in 1 .. n |-> (value \div 256 ^ (k - 1)) % 256]

\* Opcode.emit: the width must have a byte; one and two bytes are masked, the
\* third is packed as it is.
EmitSized(row, size, value, regs) ==
    LET n == ValueSize(row, size, value, regs) IN
    IF /\ n \in DOMAIN row.bytes /\ row.bytes[n] # None
       /\ n = 3 => value \in 0 .. 2 ^ 24 - 1
    THEN <<row.bytes[n]>> \o LittleEndian(value, n)
    ELSE <<>>

\* RelativeJumpOpcode.emit: from the instruction after the branch.
EmitRelative(row, n, value, pc) ==
    LET delta == value - pc - (1 + n) IN
    IF delta \in -(128 * 256 ^ (n - 1)) .. 128 * 256 ^ (n - 1) - 1
    THEN row.bytes \o LittleEndian(delta, n)
    ELSE <<>>

\* The bytes of one instruction; none stands for the error the code raises.
\* A block move has its two operands reversed.
Emit(row, ins, value, pc, regs) ==
    CASE row.kind = "implied" -> row.bytes
      [] row.kind = "relative" -> EmitRelative(row, 1, value, pc)
      [] row.kind = "relative2" -> EmitRelative(row, 2, value, pc)
      [] row.kind = "move" -> row.bytes \o LittleEndian(ins.second, 1) \o LittleEndian(value, 1)
      [] OTHER -> EmitSized(row, ins.size, value, regs)

Bit(n, value) == (value \div 2 ^ n) % 2 = 1

\* OpcodeNode._maybe_update_register_sizes.
RegistersAfter(regs, ins, value, tracking) ==
    IF tracking /\ ins.op \in {"rep", "sep"} /\ ins.mode = "immediate"
    THEN LET wide == IF ins.op = "rep" THEN 16 ELSE 8 IN
         [a |-> IF Bit(5, value) THEN wide ELSE regs.a,
          x |-> IF Bit(4, value) THEN wide ELSE regs.x]
    ELSE regs
=============================================================================
