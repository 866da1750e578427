------------------------------ MODULE MCMachine -----------------------------
(* Every instruction of the table on operands at the edges of its widths,  *)
(* alone and behind a rep or sep; then functions with branches, calls,     *)
(* loops, data in the middle and code entered with different widths.       *)
EXTENDS MachineProperties

Ins(op, mode, index, size, value) ==
    [op |-> op, mode |-> mode, index |-> index, size |-> size, value |-> value, to |-> 0, second |-> 18]
To(op, j) == [Ins(op, "direct", "", 0, 0) EXCEPT !.to = j]
Sub(op, j) == [To(op, j) EXCEPT !.size = 2]
Plain(op) == Ins(op, "none", "", 0, 0)
Imm(op, size, v) == Ins(op, "immediate", "", size, v)
Data(v) == Ins(".db", "", "", 0, v)
WidthOf(op, n) == Ins(op, "", "", n, 0)

Rep(v) == Imm("rep", 0, v)
Sep(v) == Imm("sep", 0, v)

Edges == {0, 255, 256, 65535, 65536, 2 ^ 24, -16}

MCSingles ==
    {<<Ins(r.op, r.mode, r.index, n, v)>> :
        r \in {t \in Table : t.kind \in {"sized", "long", "move"}}, n \in 0 .. 3, v \in Edges}
    \cup {<<Plain(r.op)>> : r \in {t \in Table : t.kind = "implied"}}
    \cup {<<Ins(r.op, r.mode, r.index, 0, Origin + d)>> :
          r \in {t \in Table : t.kind \in {"relative", "relative2"}},
          d \in {2, 129, 130, -126, -127, 32770, 32771}}
    \cup {<<Ins("nop", "immediate", "", 0, 0)>>}

MCPairs ==
    {<<Imm(op, 0, b), Imm(r.op, 0, v)>> :
        op \in {"rep", "sep"}, b \in {16, 32, 48},
        r \in {t \in Table : t.mode = "immediate"}, v \in {1, 300}}

MCFlows ==
    {\* a loop, and widths that are put back
     <<Rep(32), Imm("lda", 2, 4660), Sep(32), Imm("lda", 0, 18), To("bne", 1), Plain("rts")>>,
     \* data in the middle, jumped over; the end of the path in the data
     <<Imm("lda", 0, 1), To("beq", 5), To("bra", 6), Data(169), Plain("rts"), Plain("nop"), To("bcc", 5), Plain("rtl")>>,
     \* a call of a local routine, and a jump out of the image
     <<Sub("jsr", 4), To("jsl", 4), Ins("jmp", "direct", "", 2, 300), Plain("inx"), Plain("rts")>>,
     \* code entered with both widths, and measured without its value
     <<To("bne", 3), Rep(48), Imm("sep", 1, 48), Imm("ldx", 0, 7), To("brl", 6), Plain("rti")>>,
     \* the loop changes the widths: every instruction is met twice
     <<Plain("nop"), Rep(32), To("bne", 1), Rep(16), To("bmi", 1), Plain("rts")>>,
     \* forward references, one of which needs its value to be measured
     <<Ins("jmp", "indirect", "", 0, 300), Plain("rts")>>,
     <<[Ins("lda", "direct", "", 2, 0) EXCEPT !.to = 2], Plain("rts")>>,
     <<[Ins("lda", "direct", "", 0, 0) EXCEPT !.to = 2], Plain("rts")>>,
     <<[Ins("lda", "direct", "", 0, 0) EXCEPT !.to = 1], To("jml", 1)>>,
     \* an immediate cut short by the end of the image
     <<Rep(16), Imm("ldx", 1, 3)>>}

MCPrograms == MCSingles \cup MCPairs \cup MCFlows

\* The widths a program ends with are the widths its emission starts with.
MCDrifting ==
    {<<Imm("lda", 0, 18), Plain("nop"), Rep(32), Imm("lda", 0, 4660), To("bne", 2)>>,
     <<WidthOf(".a", 16), Imm("lda", 0, 18), Plain("rts")>>}

=============================================================================
