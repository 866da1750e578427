------------------------------- MODULE Grammar ------------------------------
(***************************************************************************)
(* The parser: src/a816/parse/parser.py and the states of                  *)
(* src/a816/parse/parser_states/.  No token ends a statement: a state      *)
(* reads tokens as far as its form goes, and the lines of the source are   *)
(* gone.  A parser is a record; a state takes one and returns the one it   *)
(* leaves, with the tree it built appended to out, or error set when it    *)
(* raised.                                                                 *)
(***************************************************************************)
EXTENDS Integers, Sequences, FiniteSets

CONSTANT Files    \* the text of every file .include can open, by its name

Lexer == INSTANCE Scanner

\* Mutant: one error too many.
ErrorsAllowedLate == 21

max_parse_errors == 20

\* An AST node; inner is the sequence of its children.
Part(node, text, inner) == [node |-> node, text |-> text, inner |-> inner]
Leaf(node, text) == Part(node, text, <<>>)

NoToken == [type |-> "EOF", text |-> "", line |-> 0, column |-> 0, from |-> 0, to |-> 0]

\* error: "" while nothing raised, "syntax" for ParserSyntaxError,
\* "fallback" for the SyntaxError of _parse_indirect_inner and "crash" for
\* any other exception; at is the token the error names.
NewParser(ts) == [ts |-> ts, p |-> 1, out |-> <<>>, error |-> "", at |-> NoToken]

Current(q)  == IF q.p <= Len(q.ts) THEN q.ts[q.p] ELSE NoToken
Step(q)     == [q EXCEPT !.p = @ + 1]
At(q, type) == Current(q).type = type
AtWord(q, word)  == At(q, "IDENTIFIER") /\ Current(q).text = word
Failed(q)        == q.error # ""
Fail(q, kind, t) == [q EXCEPT !.error = kind, !.at = t]

\* expect_token(p.current(), ...) raises in front of the token, and
\* expect_token(p.next(), ...) behind it.
Refuse(q) == Fail(q, "syntax", Current(q))
Reject(q) == Step(Refuse(q))

Put(q, part) == [q EXCEPT !.out = Append(@, part)]
Named(t) == t.type \in {"IDENTIFIER", "QUOTED_STRING", "NUMBER", "OPCODE_SIZE"}
Take(q) == Step(IF Named(Current(q)) THEN Put(q, Leaf(Current(q).type, Current(q).text)) ELSE q)

Expect(q, type)     == IF Failed(q) THEN q ELSE IF At(q, type) THEN Take(q) ELSE Reject(q)
ExpectHere(q, type) == IF Failed(q) THEN q ELSE IF At(q, type) THEN Take(q) ELSE Refuse(q)

\* _expect_contextual_keyword and _expect_contextual_keyword_one_of
ExpectWord(q, words) ==
    IF Failed(q) THEN q
    ELSE IF \E w \in words : AtWord(q, w) THEN Take(q) ELSE Reject(q)

\* What was built since q becomes the children of one node.
Gather(q, r, node, text) ==
    IF Failed(r) THEN r
    ELSE [r EXCEPT !.out = Append(q.out, Part(node, text, SubSeq(r.out, Len(q.out) + 1, Len(r.out))))]

-----------------------------------------------------------------------------
(* Expressions. *)

RECURSIVE ParseTokens(_), FieldPath(_)

\* _consume_dot_field_path
FieldPath(q) == IF Failed(q) \/ ~At(q, "DOT") THEN q ELSE FieldPath(Expect(Step(q), "IDENTIFIER"))

\* _parse_lparen_expression, the parenthesis taken: what it makes of the
\* expression inside, of the parenthesis closed, and of the path behind.
ParenTree(q, lparen, typed, closed, r) ==
    LET fields == Len(r.out) > Len(closed.out)
        plain  == q.out \o <<Leaf("LPAREN", "(")>> \o r.out[Len(q.out) + 1].inner \o <<Leaf("RPAREN", ")")>>
    IN IF Failed(r) THEN r
       ELSE IF typed THEN Gather(q, r, IF fields THEN "CastAccess" ELSE "CastValue", "(")
       ELSE IF fields THEN Fail(r, "syntax", lparen) ELSE [r EXCEPT !.out = plain]

CloseParen(q, lparen, typed, closed) == ParenTree(q, lparen, typed, closed, FieldPath(closed))

InParens(q, lparen, inner) ==
    LET typed == ~Failed(inner) /\ AtWord(inner, "as")
    IN CloseParen(q, lparen, typed,
                  ExpectHere(IF typed THEN Expect(Step(inner), "IDENTIFIER") ELSE inner, "RPAREN"))

ParseLparen(q, lparen) == InParens(q, lparen, Gather(q, ParseTokens(q), "Expression", ""))

\* A term, or what a unary operator or a parenthesis opens.
ParseTerm(q) ==
    LET t == Current(q)
    IN IF t.type = "LPAREN" THEN ParseLparen(Step(q), t)
       ELSE IF t.type \in {"NUMBER", "QUOTED_STRING", "IDENTIFIER"} THEN Take(q)
       ELSE IF t.type = "OPERATOR" /\ t.text \in {"-", "~"}
       THEN ParseTokens(Put(Step(q), Leaf("UnaryOp", t.text))) ELSE Reject(q)

\* _parse_expression
BehindTerm(r) ==
    IF Failed(r) \/ ~At(r, "OPERATOR") THEN r
    ELSE ParseTokens(Put(Step(r), Leaf("BinOp", Current(r).text)))

ParseTokens(q) == BehindTerm(ParseTerm(q))

ParseExpression(q) == IF Failed(q) THEN q ELSE Gather(q, ParseTokens(q), "Expression", "")

-----------------------------------------------------------------------------
(* Instructions: the addressing mode is read off the operand's shape. *)

index_map ==
    [indirect |-> "indirect_indexed", indirect_long |-> "indirect_indexed_long",
     direct |-> "direct_indexed", dp_or_sr_indirect_indexed |-> "stack_indexed_indirect_indexed"]

Operand(q, mode) == [q |-> q, mode |-> mode]

\* _parse_indirect_inner
CloseIndirect(r, mode) ==
    Operand(IF Failed(r) THEN r
            ELSE IF ~At(r, "RPAREN") THEN Refuse(r)
            ELSE IF Current(Step(r)).type \in {"OPERATOR", "DOT"} THEN Fail(r, "fallback", NoToken)
            ELSE Step(r), mode)

InIndirect(inner) ==
    IF ~Failed(inner) /\ AtWord(inner, "as") THEN CloseIndirect(Fail(inner, "fallback", NoToken), "indirect")
    ELSE IF ~Failed(inner) /\ At(inner, "ADDRESSING_MODE_INDEX")
    THEN CloseIndirect(Put(Step(inner), Leaf("Index", Current(inner).text)), "dp_or_sr_indirect_indexed")
    ELSE CloseIndirect(inner, "indirect")

\* _parse_paren_operand: only a SyntaxError falls back to direct.
DirectUnless(q, indirect) ==
    IF indirect.q.error = "fallback" THEN Operand(ParseExpression(q), "direct") ELSE indirect

\* parse_operand_and_addressing
ParseOperand(q, opcode) ==
    CASE At(q, "SHARP")   -> Operand(IF At(Step(q), "EOF") THEN Refuse(Step(q))
                                     ELSE ParseExpression(Step(q)), "immediate")
      [] At(q, "LPAREN")  -> DirectUnless(q, InIndirect(ParseExpression(Step(q))))
      [] At(q, "LBRAKET") -> Operand(Expect(ParseExpression(Step(q)), "RBRAKET"), "indirect_long")
      [] OTHER            -> IF opcode.type = "OPCODE" THEN Operand(ParseExpression(q), "direct")
                             ELSE Operand(q, "none")

ParseBlockMove(q, opcode) ==
    Gather(q, ParseExpression(Expect(ParseExpression(Step(q)), "COMMA")), "block_move", opcode.text)

\* An index behind a mode that index_map lacks is a KeyError.
BehindOperand(q, opcode, r) ==
    IF Failed(r.q) \/ ~At(r.q, "ADDRESSING_MODE_INDEX") THEN Gather(q, r.q, r.mode, opcode.text)
    ELSE IF r.mode \notin DOMAIN index_map THEN Fail(Step(r.q), "crash", NoToken)
    ELSE Gather(q, Put(Step(r.q), Leaf("Index", Current(r.q).text)), index_map[r.mode], opcode.text)

ParseOpcode(q) ==
    LET opcode == Current(q)
        sized  == Step(q)
    IN IF opcode.text \in {"mvn", "mvp"} THEN ParseBlockMove(q, opcode)
       ELSE BehindOperand(q, opcode,
                          ParseOperand(IF At(sized, "OPCODE_SIZE") THEN Take(sized) ELSE sized, opcode))

-----------------------------------------------------------------------------
(* Lists and blocks.  RECURSIVE, since a block holds statements. *)

RECURSIVE ParseDecl(_), ParseStatements(_), ParseItems(_), MoreParameters(_), ParseFields(_),
          ParseAttributes(_), ParseMapping(_), ParseShape(_, _), ParseAll(_)

ParseStatements(q) ==
    IF Failed(q) \/ Current(q).type \in {"EOF", "RBRACE"} THEN q ELSE ParseStatements(ParseDecl(q))

ParseBlock(q) == IF Failed(q) THEN q ELSE Gather(q, Expect(ParseStatements(q), "RBRACE"), "Block", "")

\* parse_expression_list_inner
BehindItem(r) == IF ~Failed(r) /\ At(r, "COMMA") THEN ParseItems(Step(r)) ELSE r

ParseItems(q) ==
    IF Failed(q) \/ At(q, "RPAREN") THEN q
    ELSE BehindItem(IF At(q, "LBRACE") THEN ParseBlock(Step(q)) ELSE ParseExpression(q))

\* _data_node: the constructor of DataNode asserts that nothing is a block.
WithoutBlocks(q, r) ==
    IF ~Failed(r) /\ \E j \in Len(q.out) + 1 .. Len(r.out) : r.out[j].node = "Block"
    THEN Fail(r, "crash", NoToken) ELSE r

ParseData(q) == WithoutBlocks(q, ParseItems(q))

\* parse_macro_definition_args: commas are optional.
MoreParameters(q) ==
    IF Failed(q) \/ At(q, "RPAREN") THEN q
    ELSE MoreParameters(IF At(q, "COMMA") THEN Step(q) ELSE Expect(q, "IDENTIFIER"))

ParseParameters(q) == IF At(q, "RPAREN") THEN q ELSE MoreParameters(Expect(q, "IDENTIFIER"))

\* The fields of parse_struct.
ParseFields(q) ==
    LET type == ExpectHere(q, "IDENTIFIER")
        name == Current(type)
        seen == \E j \in DOMAIN q.out : q.out[j].node = "Field" /\ q.out[j].text = name.text
    IN IF Failed(q) \/ Current(q).type \in {"EOF", "RBRACE"} THEN q
       ELSE IF Current(q).type \in {"COMMENT", "COMMA"} THEN ParseFields(Step(q))
       ELSE IF Failed(type) THEN type
       ELSE IF name.type # "IDENTIFIER" \/ seen THEN Refuse(type)
       ELSE ParseFields(Gather(q, Step(type), "Field", name.text))

\* The attributes of parse_pool.
Attribute(q, key) ==
    CASE key.text = "range"    -> ParseExpression(ParseExpression(q))
      [] key.text = "fill"     -> ParseExpression(q)
      [] key.text = "strategy" -> ExpectWord(q, {"pack", "order"})
      [] key.text = "bss"      -> q
      [] OTHER                 -> Fail(q, "syntax", key)

ParseAttributes(q) ==
    LET key == Current(q)
        r   == ExpectHere(q, "IDENTIFIER")
    IN IF Failed(q) \/ key.type \in {"EOF", "RBRACE"} THEN q
       ELSE ParseAttributes(IF key.type = "COMMENT" THEN Step(q) ELSE IF Failed(r) THEN r
                            ELSE Gather(q, Attribute(r, key), "Attribute", key.text))

\* The attributes of parse_map: they go on while identifiers follow.
ParseMapping(q) ==
    LET number == Expect(Expect(Step(q), "EQUAL"), "NUMBER")
        pair   == IF At(number, "COMMA") THEN Expect(Step(number), "NUMBER") ELSE number
        keys   == {"identifier", "writable", "bank_range", "addr_range", "mask", "mirror_bank_range"}
    IN IF Failed(q) \/ ~At(q, "IDENTIFIER") THEN q
       ELSE IF Current(q).text \notin keys THEN Reject(q)
       ELSE ParseMapping(Gather(q, IF Failed(number) THEN number ELSE pair, "Attribute", Current(q).text))

\* The else of parse_if, told by its text alone.
ParseElse(q) ==
    IF Failed(q) \/ Current(q).text # "else" THEN q ELSE ParseBlock(Expect(Step(q), "LBRACE"))

\* size N, and at ADDR, when they are there.
Clause(q, word) == IF Failed(q) \/ ~AtWord(q, word) THEN q ELSE ParseExpression(Take(q))

-----------------------------------------------------------------------------
(* Directives: what must follow the name, in order. *)

Braced == <<"LBRACE", "BLOCK">>
Quoted == <<"QUOTED_STRING">>
Data   == <<"DATA">>
Expr   == "EXPRESSION"
Name   == "IDENTIFIER"
Words  == {"in", "at", "in or at", "as", "into"}

Shapes ==
    [scope |-> <<Name>> \o Braced, ascii |-> Quoted, text |-> Quoted, incbin |-> Quoted, table |-> Quoted,
     import |-> Quoted, debug |-> <<"string here">>, db |-> Data, dw |-> Data, dl |-> Data, pointer |-> Data,
     include_ips |-> <<"QUOTED_STRING", "COMMA", Expr>>,
     macro |-> <<Name, "LPAREN", "PARAMETERS", "RPAREN">> \o Braced, map |-> <<"MAPPING">>,
     if |-> <<Expr>> \o Braced \o <<"ELSE">>, for |-> <<Name, "ASSIGN", Expr, "COMMA", Expr>> \o Braced,
     struct |-> <<Name, "LBRACE", "FIELDS", "RBRACE">>, extern |-> <<"name here">>,
     label |-> <<Name, "EQUAL", Expr>>, pool |-> <<Name, "LBRACE", "ATTRIBUTES", "RBRACE">>,
     relocate |-> <<Name, Expr, Expr, "into", Name>> \o Braced, reclaim |-> <<Name, Expr, Expr>>,
     res |-> <<Expr>>, a8 |-> <<>>, a16 |-> <<>>, i8 |-> <<>>, i16 |-> <<>>]

\* parse_alloc and parse_reserve look ahead for their form.
AllocShape(q) ==
    LET Pinned == <<Expr, "SIZE">> \o Braced
        Pooled == <<Name>> \o Braced
    IN CASE AtWord(q, "at")       -> <<Name>> \o Pinned
         [] AtWord(q, "in")       -> <<Name>> \o Pooled
         [] AtWord(Step(q), "at") -> <<Name, "in or at">> \o Pinned
         [] OTHER                 -> <<Name, "in or at">> \o Pooled

ReserveShape(q) ==
    IF AtWord(Step(q), "as") THEN <<Name, "as", Name, "in", Name>> ELSE <<Name, Expr, "AT", "in", Name>>

Element(q, e) ==
    CASE e = Expr           -> ParseExpression(q)
      [] e = "BLOCK"        -> ParseBlock(q)
      [] e = "ELSE"         -> ParseElse(q)
      [] e = "DATA"         -> ParseData(q)
      [] e = "PARAMETERS"   -> ParseParameters(q)
      [] e = "FIELDS"       -> ParseFields(q)
      [] e = "ATTRIBUTES"   -> ParseAttributes(q)
      [] e = "MAPPING"      -> IF At(q, Name) THEN ParseMapping(q) ELSE Refuse(q)
      [] e = "SIZE"         -> Clause(q, "size")
      [] e = "AT"           -> Clause(q, "at")
      [] e = "name here"    -> ExpectHere(q, Name)
      [] e = "string here"  -> ExpectHere(q, "QUOTED_STRING")
      [] e = "in or at"     -> ExpectWord(q, {"in", "at"})
      [] e \in Words        -> ExpectWord(q, {e})
      [] OTHER              -> Expect(q, e)

ParseShape(q, shape) ==
    IF Failed(q) \/ shape = <<>> THEN q ELSE ParseShape(Element(q, Head(shape)), Tail(shape))

\* The test of parse_pool, its attributes read.
HasRange(r) == \E j \in DOMAIN r.out : r.out[j].node = "Attribute" /\ r.out[j].text = "range"

-----------------------------------------------------------------------------
(* Statements. *)

\* What became of an included file: the first error of the parser is raised.
IncludedTree(quoted, file) ==
    LET raised == file.errors[IF file.q.error = "raised" THEN max_parse_errors ELSE 1]
    IN CASE file.q.error = "crash" -> Fail(quoted, "crash", NoToken)
         [] file.q.error # "crash" /\ file.errors # <<>> -> Fail(quoted, "syntax", raised)
         [] OTHER -> Put(quoted, Part("Block", "", file.q.out))

\* What scan and parse_initial do to it: the errors of the scanner are left behind.
ParseInclude(q) ==
    LET quoted == Expect(q, "QUOTED_STRING")
        name   == SubSeq(Current(q).text, 2, Len(Current(q).text) - 1)
    IN IF Failed(quoted) THEN quoted
       ELSE IF name \notin DOMAIN Files THEN Fail(quoted, "crash", NoToken)
       ELSE IncludedTree(quoted, ParseAll([q |-> NewParser(Lexer!ScanText(Files[name]).tokens),
                                           errors |-> <<>>]))

\* The directive at q, its body read; parse_pool wants a range.
Directive(q, name, body) ==
    IF name = "pool" /\ ~Failed(body) /\ ~HasRange(body) THEN Fail(body, "syntax", Current(Step(q)))
    ELSE Gather(q, body, name, "")

\* parse_directive
ParseDirective(q) ==
    LET name  == Current(q).text
        r     == Step(q)
        shape == CASE name = "alloc" -> AllocShape(r) [] name = "reserve" -> ReserveShape(r)
                   [] OTHER -> Shapes[name]
    IN IF name \notin DOMAIN Shapes \cup {"alloc", "reserve", "include"} THEN Reject(q)
       ELSE Directive(q, name, IF name = "include" THEN ParseInclude(r) ELSE ParseShape(r, shape))

\* parse_macro_application
ParseApplication(q) ==
    Gather(q, Expect(ParseItems(Step(Step(q))), "RPAREN"), "Application", Current(q).text)

\* parse_symbol_affectation; a cast may follow := without parentheses.
BehindValue(q, operator, value) ==
    LET cast == Expect(Step(value), "IDENTIFIER")
    IN IF Failed(value) \/ ~AtWord(value, "as") THEN Gather(q, value, operator, Current(q).text)
       ELSE IF operator # "ASSIGN" THEN Refuse(value)
       ELSE Gather(q, Gather(q, Gather(q, cast, "CastValue", ""), "Expression", ""), operator,
                   Current(q).text)

ParseAffectation(q) ==
    LET operator == Current(Step(q)).type
    IN IF operator \notin {"EQUAL", "ASSIGN"} THEN Reject(Step(q))
       ELSE BehindValue(q, operator, ParseExpression(Step(Step(q))))

\* parse_decl: one statement.
ParseDecl(q) ==
    LET t == Current(q)
        r == Step(q)
    IN CASE t.type \in {"COMMENT", "DOCSTRING", "LABEL"} -> Put(r, Leaf(t.type, t.text))
         [] t.type = "DOUBLE_LBRACE" -> Gather(q, Expect(Expect(r, Name), "DOUBLE_RBRACE"), "CodeLookup", "")
         [] t.type \in {"OPCODE", "OPCODE_NAKED"} -> ParseOpcode(q)
         [] t.type = "KEYWORD" -> ParseDirective(q)
         [] t.type = "IDENTIFIER" -> IF At(r, "LPAREN") THEN ParseApplication(q) ELSE ParseAffectation(q)
         [] t.type = "LBRACE" -> ParseBlock(r)
         [] t.type \in {"STAR_EQ", "AT_EQ"} -> Gather(q, ParseExpression(r), t.type, "")
         [] OTHER -> Reject(q)

-----------------------------------------------------------------------------
(* parse_initial: on an error the parser looks for a place to go on. *)

SyncTokens == {"LABEL", "OPCODE", "OPCODE_NAKED", "KEYWORD", "STAR_EQ", "AT_EQ", "DOUBLE_LBRACE"}

\* _recover_to_next_statement
RECURSIVE Recover(_, _)
Recover(q, depth) ==
    LET t == Current(q).type
    IN IF t = "EOF" \/ (depth = 0 /\ t \in SyncTokens \cup {"RBRACE"}) THEN q
       ELSE Recover(Step(q), CASE t = "LBRACE" -> depth + 1 [] t = "RBRACE" -> depth - 1 [] OTHER -> depth)

\* What parse_initial does with the statement r, or with the error and the
\* way on from it.
AfterStatement(run, r) ==
    LET resumed == [Recover(r, 0) EXCEPT !.error = "", !.out = run.q.out]
    IN IF ~Failed(r) THEN [run EXCEPT !.q = r]
       ELSE IF r.error = "crash" THEN [run EXCEPT !.q = Fail(run.q, "crash", NoToken)]
       ELSE IF Len(run.errors) + 1 = max_parse_errors
       THEN [q |-> [r EXCEPT !.error = "raised"], errors |-> Append(run.errors, r.at)]
       ELSE [q |-> resumed, errors |-> Append(run.errors, r.at)]

\* One turn of parse_initial over a run [q, errors].
ParseTurn(run) == AfterStatement(run, ParseDecl(run.q))

AtEnd(run) == Failed(run.q) \/ At(run.q, "EOF")

ParseAll(run) == IF AtEnd(run) THEN run ELSE ParseAll(ParseTurn(run))
=============================================================================
