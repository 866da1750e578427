------------------------------- MODULE Scanner ------------------------------
(***************************************************************************)
(* The scanner: src/a816/parse/scanner.py, which keeps the place in the    *)
(* text, and the states of src/a816/parse/scanner_states.py, which cut it  *)
(* into tokens.  A scanner is a record; a state takes one and returns the  *)
(* one it leaves, with error set when it raised.  Positions count from 0   *)
(* as in the code, and peeking past the end gives "" for the code's "\0".  *)
(***************************************************************************)
EXTENDS Integers, Sequences, FiniteSets

Cpu == INSTANCE Instructions

Chars(str) == {SubSeq(str, j, j) : j \in 1 .. Len(str)}
Eof    == ""
Digit  == Chars("0123456789")
Letter == Chars("_ABCDEFGHIJKLMNOPQRSTUVWXYZabcdefghijklmnopqrstuvwxyz")
Blank  == {" ", "\t", "\n"}

Mnemonics == {r.op : r \in Cpu!Table}
Naked     == {r.op : r \in {t \in Cpu!Table : t.mode = "none"}}

DirectiveNames ==
    {"scope", "table", "include", "include_ips", "incbin", "pointer", "text", "ascii", "db", "dw",
     "dl", "macro", "map", "if", "else", "for", "struct", "istruct", "extern", "import", "debug",
     "label", "pool", "alloc", "relocate", "reclaim", "res", "reserve", "a8", "a16", "i8", "i16"}

-----------------------------------------------------------------------------
(* The place in the text. *)

\* inComment: _lex_block_comment is looking for the end of its comment.
NewScanner(text, state) ==
    [text |-> text, state |-> state, pos |-> 0, start |-> 0, line |-> 0, lineOffset |-> 0, startLine |-> 0,
     startColumn |-> 0, tokens |-> <<>>, errors |-> <<>>, error |-> FALSE, inComment |-> FALSE]

Slice(s, from, to) == SubSeq(s.text, from + 1, to)
Peek(s, k) == IF s.pos + k < Len(s.text) THEN Slice(s, s.pos + k, s.pos + k + 1) ELSE Eof
Ahead(s, str) == s.pos + Len(str) <= Len(s.text) /\ Slice(s, s.pos, s.pos + Len(str)) = str
Skip(s, n) == [s EXCEPT !.pos = @ + n]

HandleLine(s) ==
    IF s.lineOffset <= s.pos THEN [s EXCEPT !.lineOffset = s.pos + 1, !.line = @ + 1] ELSE s

\* Mutant: the line is not counted.
AdvanceOnly(s) == IF Peek(s, 0) = Eof THEN s ELSE Skip(s, 1)

\* next
Advance(s) ==
    IF Peek(s, 0) = Eof THEN s
    ELSE Skip(IF Peek(s, 0) = "\n" THEN HandleLine(s) ELSE s, 1)

\* accept_run, and accept_run(negate=True)
RECURSIVE Run(_, _), Until(_, _)
Run(s, chars)   == IF Peek(s, 0) \in chars THEN Run(Advance(s), chars) ELSE s
Until(s, chars) == IF Peek(s, 0) \in chars \cup {Eof} THEN s ELSE Until(Advance(s), chars)

SyncStart(s) ==
    [s EXCEPT !.start = s.pos, !.startLine = s.line, !.startColumn = s.pos - s.lineOffset]

\* ignore_run
Ignore(s, chars) == SyncStart(Run(s, chars))

\* from and to are where the token stands, which the code does not keep.
Emit(s, type) ==
    SyncStart([s EXCEPT !.tokens =
        Append(@, [type |-> type, text |-> Slice(s, s.start, s.pos), line |-> s.startLine,
                   column |-> s.startColumn, from |-> s.start, to |-> s.pos])])

\* raise ScannerException(..., s.get_position())
Raise(s) == [s EXCEPT !.error = TRUE]

\* What follows a state that may have raised.
Then(s, State(_)) == IF s.error THEN s ELSE State(s)

\* The except clause of scan: the rest of the line is given up.
Recovered(s) ==
    LET t == Until(s, {"\n"})
    IN [SyncStart(HandleLine(Advance(t))) EXCEPT
           !.errors = Append(@, [line |-> s.startLine, column |-> s.startColumn, from |-> s.start]),
           !.error = FALSE]

-----------------------------------------------------------------------------
(* Names, numbers and strings. *)

\* The scoped names and nested fields of lex_identifier.
RECURSIVE DotPath(_), DotChain(_)
DotPath(s) ==
    IF Peek(s, 0) = "." /\ Peek(s, 1) \in Letter
    THEN DotPath(Run(Advance(s), Letter \cup Digit)) ELSE s

\* _lex_postfix_dot_chain
DotChain(s) ==
    IF Peek(s, 0) = "." /\ Peek(s, 1) \in Letter
    THEN DotChain(Emit(Run(Emit(Advance(s), "DOT"), Letter \cup Digit), "IDENTIFIER")) ELSE s

EndName(s) ==
    IF Peek(s, 0) = ":" /\ Peek(s, 1) # "=" THEN SyncStart(Advance(Emit(s, "LABEL")))
    ELSE Emit(DotPath(s), "IDENTIFIER")

LexIdentifier(s) == EndName(Run(s, Letter \cup Digit))

Based == [b |-> Chars("01"), o |-> Chars("012345678"), x |-> Chars("0123456789ABCDEFabcdef")]

\* lex_number; its first digit has been taken.
LexNumber(s) ==
    Emit(IF Peek(s, 0) \in {"\n", Eof} THEN s
         ELSE IF Slice(s, s.pos - 1, s.pos) # "0" THEN Run(s, Digit)
         ELSE IF Peek(s, 0) \in DOMAIN Based THEN Run(Advance(s), Based[Peek(s, 0)]) ELSE s,
         "NUMBER")

\* _lex_string and lex_docstring; the opening quotes have been taken.
RECURSIVE LexString(_, _), LexDocstring(_, _)
InString(c, s, quote) ==
    IF c = quote THEN Emit(s, "QUOTED_STRING")
    ELSE IF c \in {"\n", Eof} THEN Raise(s)
    ELSE LexString(IF c = "\\" /\ Peek(s, 0) = quote THEN Advance(s) ELSE s, quote)
LexString(s, quote) == InString(Peek(s, 0), Advance(s), quote)

InDocstring(c, s, quote) ==
    IF c = Eof THEN Raise(s)
    ELSE IF c = quote /\ Peek(s, 0) = quote /\ Peek(s, 1) = quote THEN Emit(Skip(s, 2), "DOCSTRING")
    ELSE LexDocstring(IF c = "\\" THEN Advance(s) ELSE s, quote)
LexDocstring(s, quote) == InDocstring(Peek(s, 0), Advance(s), quote)

Triple(s, quote) == Ahead(s, quote \o quote \o quote)
Quotes == {"'", "\""}

LexQuotes(s) ==
    LET q == Peek(s, 0)
    IN IF Triple(s, q) THEN LexDocstring(Skip(s, 3), q) ELSE LexString(Advance(s), q)

-----------------------------------------------------------------------------
(* Instructions. *)

Wide == {"<<", ">>", "!=", "==", ">=", "<="}
Relational == {"<", ">"}
Longest(s, ops) == CHOOSE op \in ops : Ahead(s, op) /\ \A o \in ops : Ahead(s, o) => Len(o) <= Len(op)
Starts(s, ops)  == \E op \in ops : Ahead(s, op)

Operators == Chars("+-*/&|~") \cup Wide \cup Relational

LexTerm(s, c) ==
    IF c \in Digit THEN LexNumber(Advance(s))
    ELSE IF c \in Letter THEN LexIdentifier(s)
    ELSE IF c \in Quotes THEN LexQuotes(s)
    ELSE IF c = "(" THEN Emit(Advance(s), "LPAREN")
    ELSE IF c = ")" THEN DotChain(Emit(Advance(s), "RPAREN"))
    ELSE Emit(Skip(s, Len(Longest(s, Operators))), "OPERATOR")

RECURSIVE LexExpression(_)
BeforeTerm(s, c) ==
    IF c \in Digit \cup Letter \cup Quotes \cup {"(", ")"} \/ Starts(s, Operators)
    THEN LexExpression(LexTerm(s, c)) ELSE s
AtTerm(s) == BeforeTerm(s, Peek(s, 0))
LexExpression(s) == IF s.error \/ Peek(s, 0) = Eof THEN s ELSE AtTerm(Ignore(s, {" "}))

\* The `,` of lex_operand, and lex_opcode_index.
IndexName(s) ==
    IF Peek(s, 0) \in Chars("xXyYsS") THEN Emit(Advance(s), "ADDRESSING_MODE_INDEX") ELSE Raise(s)
BeforeIndex(s) == IF Peek(s, 0) = "," THEN IndexName(Ignore(SyncStart(Advance(s)), {" "})) ELSE s
LexIndex(s) == BeforeIndex(Ignore(s, {" "}))

Prefixes == [sharp |-> <<"#", "SHARP">>, paren |-> <<"(", "LPAREN">>, bracket |-> <<"[", "LBRAKET">>]

LexPrefix(s) ==
    LET found == {p \in {Prefixes[k] : k \in DOMAIN Prefixes} : p[1] = Peek(s, 0)}
    IN IF found = {} THEN s ELSE Emit(Advance(s), (CHOOSE p \in found : TRUE)[2])

LexClose(s) ==
    IF Peek(s, 0) = ")" THEN DotChain(Emit(Advance(s), "RPAREN"))
    ELSE IF Peek(s, 0) = "]" THEN DotChain(Emit(Advance(s), "RBRAKET")) ELSE s

LexOperandIn(s, blank) ==
    Then(Then(Then(LexExpression(Ignore(LexPrefix(s), blank)), LexIndex), LexClose), LexIndex)

\* Mutant: the operand may stand on a later line.
LexOperandAcross(s) == LexOperandIn(s, Blank)

LexOperand(s) == LexOperandIn(s, {" "})

\* lex_opcode_size; the dot has been taken.
SizeName(s) ==
    IF Peek(s, 0) \in Chars("bBwWlL")
    THEN LexOperand(Ignore(Emit(Advance(s), "OPCODE_SIZE"), {" "})) ELSE Raise(Advance(s))
LexOpcodeSize(s) == SizeName(SyncStart(s))

LexSecond(s) == LexExpression(IF Peek(s, 0) = "," THEN Emit(Advance(s), "COMMA") ELSE s)
LexBlockMove(s) == Then(LexExpression(s), LAMBDA t : LexSecond(Ignore(t, {" "})))

\* An instruction that may stand alone, and nothing but a comment behind it.
StandsAlone(s) ==
    LET t == Run(s, {" ", "\t"})
    IN /\ Slice(s, s.start, s.pos) \in Naked
       /\ Peek(s, 0) # "."
       /\ Peek(t, 0) \in {";", "\n", Eof}

\* accept_opcode and lex_opcode.
AtOpcode(s) == /\ Slice(s, s.pos, IF s.pos + 3 <= Len(s.text) THEN s.pos + 3 ELSE s.pos) \in Mnemonics
               /\ Peek(s, 3) \in Blank \cup {".", Eof}

LexSize(s) == IF Peek(s, 0) = "." THEN LexOpcodeSize(Advance(s)) ELSE s
LexOperands(s, word) == IF word \in {"mvn", "mvp"} THEN LexBlockMove(s) ELSE LexOperand(s)

LexOpcode(s) ==
    IF StandsAlone(s) THEN Emit(s, "OPCODE_NAKED")
    ELSE Then(LexSize(Emit(s, "OPCODE")),
              LAMBDA t : LexOperands(Ignore(t, {" "}), Slice(s, s.start, s.pos)))

-----------------------------------------------------------------------------
(* Everything else, and lex_initial. *)

\* lex_directive; the dot has been taken.
EndDirective(s) == IF Slice(s, s.start, s.pos) \in DirectiveNames THEN Emit(s, "KEYWORD") ELSE Raise(s)
LexDirective(s) == EndDirective(Run(SyncStart(s), Chars("abcdefghijklmnopqrstuvwxyz_0123456789")))

LexBrace(s) ==
    LET c == Peek(s, 0)
        name == IF c = "{" THEN "LBRACE" ELSE "RBRACE"
    IN IF Ahead(s, c \o c) THEN Emit(Skip(s, 2), "DOUBLE_" \o name) ELSE Emit(Advance(s), name)

\* _MULTI_CHAR_OPERATORS, _lex_simple_operator, _lex_relational, _lex_star
\* and _SINGLE_CHAR_TOKENS.
Punctuation ==
    {<<op, "OPERATOR">> : op \in Wide \cup Relational \cup {"+", "-", "&", "*"}} \cup
    {<<":=", "ASSIGN">>, <<"@=", "AT_EQ">>, <<"*=", "STAR_EQ">>, <<",", "COMMA">>, <<"(", "LPAREN">>,
     <<")", "RPAREN">>, <<"[", "LBRAKET">>, <<"]", "RBRAKET">>, <<"=", "EQUAL">>}
Marks == {p[1] : p \in Punctuation}

\* Mutant: the search for the end does not move.
CommentStays(s) ==
    IF Ahead(s, "*/") THEN [Emit(Skip(s, 2), "COMMENT") EXCEPT !.inComment = FALSE] ELSE s

\* _lex_block_comment, one turn of its loop: at the end of the text next
\* stays where it is.
CommentTurn(s) ==
    IF Ahead(s, "*/") THEN [Emit(Skip(s, 2), "COMMENT") EXCEPT !.inComment = FALSE] ELSE Advance(s)

EmitMark(s, mark) == Emit(Skip(s, Len(mark)), (CHOOSE p \in Punctuation : p[1] = mark)[2])

LexState(s, c) ==
    IF c = Eof THEN s
    ELSE IF c = ";" THEN Emit(Until(s, {"\n"}), "COMMENT")
    ELSE IF c \in Digit THEN LexNumber(Advance(s))
    ELSE IF c \in Letter THEN IF AtOpcode(s) THEN LexOpcode(Skip(s, 3)) ELSE LexIdentifier(s)
    ELSE IF c = "." THEN LexDirective(Advance(s))
    ELSE IF c \in Quotes THEN LexQuotes(s)
    ELSE IF c \in {"{", "}"} THEN LexBrace(s)
    ELSE IF Ahead(s, "/*") THEN [Skip(s, 2) EXCEPT !.inComment = TRUE]
    ELSE IF Starts(s, Marks) THEN EmitMark(s, Longest(s, Marks))
    ELSE Raise(Advance(s))
LexAt(s) == LexState(s, Peek(s, 0))
LexInitial(s) == LexAt(Ignore(s, Blank))

\* One turn of the loop of scan.
Checked(s) == IF s.error THEN Recovered(s) ELSE s
ScanTurn(s) ==
    Checked(IF s.inComment THEN CommentTurn(s)
            ELSE IF s.state = "lex_expression" THEN LexExpression(s) ELSE LexInitial(s))

AtEnd(s)   == Peek(s, 0) = Eof /\ ~s.inComment
Finished(s) == HandleLine(Emit(s, "EOF"))

\* The whole of scan, for a text scanned in one go.
RECURSIVE ScanOn(_)
ScanOn(s) == IF AtEnd(s) THEN Finished(s) ELSE ScanOn(ScanTurn(s))
ScanText(text)       == ScanOn(NewScanner(text, "lex_initial"))
ScanExpression(text) == ScanOn(NewScanner(text, "lex_expression"))
=============================================================================
