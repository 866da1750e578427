-------------------------- MODULE MachineProperties -------------------------
(***************************************************************************)
(* What the assembler promises of the bytes of an instruction, and what    *)
(* the disassembler promises of those bytes, stated over the source: where *)
(* each node's bytes are, what was meant by them, and where control goes.  *)
(***************************************************************************)
EXTENDS Disassembler, Folding

Emitted == phase \notin {"first", "second", "emit", "failed"}

Positions == DOMAIN program

\* The address of node j's bytes, behind those of the nodes before it.
Address(j) == Origin + Fold(LAMBDA sum, bytes : sum + Len(bytes), 0, SubSeq(code, 1, j - 1))

\* The widths a processor has after a list of nodes, from eight bits each: the
\* last rep or sep that names a flag decides it.
Width(flag, j) ==
    LET deciding == {i \in 1 .. j : /\ program[i].op \in {"rep", "sep"}
                                    /\ Bit(flag, program[i].value)}
    IN  IF deciding = {} THEN 8
        ELSE IF program[CHOOSE i \in deciding : \A h \in deciding : h <= i].op = "rep" THEN 16 ELSE 8

NoDirective == \A j \in Positions : program[j].op \notin {".a", ".i"}

\* Each rep and sep has a number, and the widths are left as they were found.
Restores ==
    tracking => /\ \A j \in Positions : program[j].op \in {"rep", "sep"} => program[j].to = 0
                /\ Width(5, Len(program)) = 8 /\ Width(4, Len(program)) = 8

\* Every label is the address its node's bytes were emitted at.
LabelsAtTheirBytes == Emitted => \A j \in Positions : label[j] = Address(j)

\* A label bound while the program is measured (core.py:182) is the address at
\* which the emission, a pass later, puts the bytes behind it, for a program
\* without width directives whose rep and sep are given as numbers and leave
\* the register widths as it found them.
SteadyLabels == NoDirective /\ Restores => LabelsAtTheirBytes

-----------------------------------------------------------------------------
Canonical(op) == IF op = "jsl" THEN "jsr" ELSE IF op = "jml" THEN "jmp" ELSE op

\* What the source meant by a node whose bytes are n operand bytes.
Meant(j) ==
    LET ins == program[j]
        n == Len(code[j]) - 1
        row == Emitter(ins)
    IN  [op |-> Canonical(ins.op), n |-> n,
         value |-> CASE row.kind \in {"relative", "relative2"} -> (Value(ins) - Address(j) - 1 - n) % 256 ^ n
                     [] row.kind = "move" -> (Value(ins) % 256) * 256 + (ins.second % 256)
                     [] row.kind = "implied" -> 0
                     [] OTHER -> Value(ins) % 256 ^ n]

Same(inst, j) == /\ inst.op = Meant(j).op /\ inst.n = Meant(j).n /\ inst.value = Meant(j).value

\* The operand of an immediate has the width the register has at run time.
WidthAgrees(j, f) ==
    LET row == Emitter(program[j]) IN
    row.mode = "immediate" /\ row.reg # "" =>
        Len(code[j]) = 1 + (IF row.reg = "a" THEN (IF f.m THEN 1 ELSE 2) ELSE IF f.x THEN 1 ELSE 2)

IsCode(j) == program[j].op \notin {".db", ".a", ".i"}

FlagsAt(j) == [m |-> Width(5, j - 1) = 8, x |-> Width(4, j - 1) = 8]

\* The nodes that have bytes, in their order.
WithBytes == SelectSeq([j \in Positions |-> j], LAMBDA j : code[j] # <<>>)

\* Listing a program that is all code and whose immediates have the width of
\* their register gives the program back, one instruction per node, with the
\* mnemonic and the operand the source wrote (the masks of emit_value and the
\* two aliases apart): the assembler's table and the one the disassembler
\* derives from it (disassembler.py:310) are inverses, operand by operand.
ListingIsTheProgram ==
    /\ phase = "pop" /\ seen = {}
    /\ Len(program) <= MaxInstructions
    /\ \A j \in Positions : program[j].op # ".db" /\ (IsCode(j) => WidthAgrees(j, FlagsAt(j)))
    => /\ Len(listing) = Len(WithBytes)
       /\ \A h \in DOMAIN listing : Same(listing[h], WithBytes[h])

-----------------------------------------------------------------------------
\* Where control goes from a node of the source.
Flow(j) ==
    LET ins == program[j]
        target == IF ins.to # 0 /\ ins.mode = "direct" THEN {ins.to} ELSE {}
    IN  CASE ins.op \in Returns -> {}
          [] ins.op \in {"jmp", "jml"} \cup Always -> target
          [] ins.op \in Conditional -> target \cup {j + 1}
          [] ins.op \in {"jsr", "jsl"} -> {j + 1} \cup (IF FollowCalls THEN target ELSE {})
          [] OTHER -> {j + 1}

FlagsBehind(j, f) ==
    LET ins == program[j] IN
    IF ins.op \notin {"rep", "sep"} THEN f
    ELSE [m |-> IF Bit(5, ins.value) THEN ins.op = "sep" ELSE f.m,
          x |-> IF Bit(4, ins.value) THEN ins.op = "sep" ELSE f.x]

Steps(S) == S \cup UNION {{<<j, FlagsBehind(s[1], s[2])>> : j \in Flow(s[1]) \cap Positions} : s \in S}

\* The nodes control reaches from the first one, with the flags it has there.
Reached ==
    LET grow[n \in Nat] == IF n = 0 THEN {<<1, Narrow>>} ELSE Steps(grow[n - 1])
    IN  grow[4 * Len(program)]

\* A branch or a call goes to a node, or out of the image.
Aimed(j) ==
    \/ program[j].to # 0
    \/ program[j].op \notin Always \cup Conditional \cup {"jmp", "jml", "jsr", "jsl"}
    \/ program[j].mode # "direct"
    \/ ~InImage(program[j].value % 2 ^ 16)

\* Walked to its end, a function is found whole and nothing else is: the
\* instructions returned are those of the nodes that control can reach, each
\* decoded as it was meant, whatever data lies between them and in whatever
\* order their addresses were popped (disassembler.py:492).
WalkFindsTheFunction ==
    /\ phase = "done" /\ decoded < MaxInstructions
    /\ \A s \in Reached : /\ program[s[1]].op # ".db" /\ Aimed(s[1])
                          /\ IsCode(s[1]) => WidthAgrees(s[1], s[2])
    => LET found == {s[1] : s \in {r \in Reached : code[r[1]] # <<>>}} IN
       /\ DOMAIN output = {Address(j) : j \in found}
       /\ \A j \in found : Same(output[Address(j)], j)
=============================================================================
