------------------------------- MODULE MCFront ------------------------------
(***************************************************************************)
(* Programs of two lines, every line with every other, programs of three    *)
(* parts of statements, and expressions with every pair of operators.      *)
(***************************************************************************)
EXTENDS FrontProperties

TheFiles == [inc |-> "y = 2\n", bad |-> "y = 1 | 2\n"]

GoodLines ==
    {"x = 1 + 2", "x := 3", "foo:", "lda.w foo,x", "lda ( x + 1, x )", "sta [ x ],y", "lda (x + 1) * 2",
     "asl ; shift", "rts", "mvn 1, 2", ".db 1, x + 2", ".if x {\nnop\n} else {\nrts\n}",
     ".for i := 0, 2 {\n.db i\n}", ".struct T {\n byte a\n u3 b, u12 c\n word d\n}",
     ".macro m(a, b) {\n.dw a\n}", "m(x, { nop\n })", ".pool p { range 1 2 fill 0 strategy order bss }",
     ".alloc at 0x8000 size 3 {\n rts\n}", ".alloc f in p {\n rts\n}", ".reserve v 2 at 1 in p",
     ".reserve w as T in p", ".relocate f 1 2 into p {\nrts\n}", ".reclaim p 1 2",
     ".map mask=0x8000 bank_range=0,0x3f", ".include 'inc'", "{{ f }}", "/* two\nlines */",
     "'''doc\n'''", "*= 0x8000", "@= 0x7e0000", ".label L = x", ".scope s {\n{\nnop\n}\n}", ".extern e",
     ".include_ips 'f', 1", ".text 'it\\'s'", ".res 4", ".a16", "q := x as T", "as = 1", "; note", "{ nop }", "{\nnop\n}"}

BadLines ==
    {"x = 1 | 2", "lda", "lda.q 1", "$", ".db 1,", ".db { }", ".bogus", "lda #1,x", "x = 'open", ".scope s",
     ".pool p { }", ".alloc a on p { }", ".struct S { byte a byte a }", "(x as T).a", ".include 'none'",
     "-1", "+ 2", ", 2", "2", "(1)", "else { nop }", "foo", ".macro n(a)", ".if x", "x = 1 +", ".alloc f",
     "in p { nop }", ".map mask=1,", "'''note"}

Lines == GoodLines \cup BadLines
Pairs == {<<a, b>> : a \in Lines, b \in Lines}

\* Lines that begin or end in the middle of a statement.
Parts == {"x = 1", "-1", ".db 1,", "2", ", 2", ".scope s", "{ nop }", ".if x", "else { nop }", ".macro m(a)",
          "foo:", "rts", "asl", "; note", "size 2", ".scope s {", "}"}
Triples == {<<a, b, c>> : a \in Parts, b \in Parts, c \in Parts}

Operators == {"+", "-", "*", "&", "|", "<<", ">>", "==", "!=", "<", "<=", ">", ">="}
Chained ==
    UNION {{"9 " \o p \o " 6 " \o o \o " 2", "9 " \o p \o " (6 " \o o \o " 2)",
            "-(9 " \o p \o " 6) " \o o \o " 2", "~9 " \o p \o " 2 " \o o \o " -1"} :
               p \in Operators, o \in Operators}
Others == {"(x as T).d + 1", "2 * (x + 1 as T).c", "'a' == 'a'", "'a' < 'b'",
           "0x1F & 0b101", "~256", "~-1", "1 + none"}
Values == {<<".struct T {\n byte a\n word c\n byte d\n}", "x = 4", "lda " \o text>> : text \in Others} \cup
          {<<"lda #" \o text>> : text \in Chained}

Several ==
    {[j \in 1 .. 21 |-> "}"], <<".scope s {", "lda #", "x = 1", "}", "foo:">>,
     <<".struct T { byte a }", ".struct U { T t word w }", "q := 3 as U", "y = q.t.a + q.w">>,
     <<".struct T { byte a }", ".struct T { word a }">>, <<".struct T { none a }">>,
     <<".include 'bad'", "lda y">>, <<".struct T { u3 a u4 b }", ".struct T { u4 a u3 b }">>,
     <<".struct T { u3 a u8 b byte c u12 d }", "y = T.b.mask + T.b.shift + T.d.mask">>}

TheSources == Pairs \cup Triples \cup Values \cup Several
=============================================================================
