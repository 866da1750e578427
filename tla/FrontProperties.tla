--------------------------- MODULE FrontProperties --------------------------
(***************************************************************************)
(* What the front end owes the author of a source text.                    *)
(***************************************************************************)
EXTENDS FrontEnd

LOCAL INSTANCE SequencesExt
LOCAL INSTANCE FiniteSetsExt

Ended == {"done", "failed", "crashed"}

\* The scanner and the parser stay inside what they read, no more errors are
\* kept than parse_initial allows (_MAX_PARSE_ERRORS, core.py:207), and a
\* bound name has a value.
TypeOK ==
    /\ phase \in {"scan", "parse", "bind"} \cup Ended
    /\ scanner.start \in 0 .. scanner.pos /\ scanner.pos \in 0 .. Len(scanner.text)
    /\ ~scanner.error
    /\ run.q.p \in 1 .. Len(run.q.ts) + 1 /\ Len(run.errors) <= 20
    /\ \A name \in DOMAIN symbols : symbols[name].type \in {"int", "str"}
    /\ \A T \in DOMAIN layouts : layouts[T].size >= 0 /\ layouts[T].bits = 0

-----------------------------------------------------------------------------
(* Tokens. *)

Character(from) == SubSeq(scanner.text, from + 1, from + 1)
NewlinesBefore(from) == {j \in 0 .. from - 1 : Character(j) = "\n"}
Tokens ==
    SelectSeq(scanner.tokens,
              LAMBDA t : \A j \in DOMAIN scanner.errors : t.to <= scanner.errors[j].from)

\* The characters that no token keeps.
Dropped(before, behind) ==
    Lexer!Blank \cup (IF behind.type \in {"KEYWORD", "OPCODE_SIZE"} THEN {"."} ELSE {})
                \cup (IF before.type = "LABEL" THEN {":"} ELSE {})
                \cup (IF behind.type = "ADDRESSING_MODE_INDEX" THEN {","} ELSE {})

\* Up to the first error, the tokens are the text: in order, apart, with
\* nothing between them but blanks and the marks a token implies; and each
\* stands at the line and column it carries, whatever newlines the strings,
\* comments and blocks before it hold (Scanner.next, _handle_line and
\* _sync_start, on which every later diagnostic relies).
TokensCoverText ==
    phase \in Ended =>
    \A j \in DOMAIN Tokens :
        LET t == Tokens[j]
            newlines == NewlinesBefore(t.from)
        IN /\ t.line = Cardinality(newlines)
           /\ t.column = t.from - Max({0} \cup {n + 1 : n \in newlines})
           /\ j > 1 => /\ Tokens[j - 1].to <= t.from
                       /\ \A c \in Tokens[j - 1].to .. t.from - 1 : Character(c) \in Dropped(Tokens[j - 1], t)

-----------------------------------------------------------------------------
(* Statements. *)

\* A text by itself, in one go: whether it is accepted, its statements, the
\* token it begins with, and whether it is cut short: the parser reports the
\* end before anything else, or the scanner a docstring that does not end.
CutShort(scanned, parsed) ==
    \/ parsed.errors # <<>> /\ parsed.errors[1].type = "EOF"
    \/ \E j \in DOMAIN scanned.errors, quote \in Lexer!Quotes :
          Lexer!Triple([scanned EXCEPT !.pos = scanned.errors[j].from], quote)

Verdict(scanned, parsed) ==
    [text |-> scanned.text, first |-> scanned.tokens[1], nodes |-> parsed.q.out,
     good |-> scanned.errors = <<>> /\ parsed.errors = <<>> /\ ~Failed(parsed.q),
     open |-> CutShort(scanned, parsed)]
Judged(scanned) == Verdict(scanned, ParseAll(NewRun(scanned.tokens)))
Alone(text) == Judged(Lexer!ScanText(text))

\* What a line may begin with to go on with what is complete before it: an
\* operator, a comma, nothing at all; the mark of an operand, even behind `rts`;
\* `as`, `else` and `size`, which are names a program may use; and behind a .map
\* line every name, for more attributes.
Continues(group, line) ==
    \/ line.first.type \in {"OPERATOR", "COMMA", "EOF", "LPAREN", "LBRAKET", "SHARP"}
    \/ /\ line.first.type = "IDENTIFIER"
       /\ group.first.text = "map" \/ line.first.text \in {"as", "else", "size"}

\* A group is a line with those that go on with it: because it is cut short
\* without them, or because of what they begin with.
AddLine(groups, line) ==
    IF groups # <<>> /\ (Last(groups).open \/ Continues(Last(groups), line))
    THEN Append(Front(groups), Alone(Last(groups).text \o line.text))
    ELSE Append(groups, line)

Groups(source) == FoldLeft(LAMBDA groups, line : AddLine(groups, Alone(line \o "\n")), <<>>, source)

ReadInGroups(good, groups) ==
    /\ good <=> \A j \in DOMAIN groups : groups[j].good
    /\ good => run.q.out = FoldLeft(LAMBDA all, group : all \o group.nodes, <<>>, groups)

\* No token ends a statement and the scanner drops the newlines, yet the
\* statements of a program are those of its lines: apart from the continuations
\* of Continues, and from lines that are cut short (a trailing comma or
\* operator; a macro, scope or .if whose brace stands on the next line; an open
\* block), every line stands by itself.  The program is refused exactly when one
\* of its groups of lines would be, and otherwise its tree is theirs in order
\* (parse_decl and every state under it stop where the line stops; lex_opcode
\* tells `asl` alone from `asl` with an operand by the end of its line).
LinesAreStatements ==
    phase \in Ended => ReadInGroups(phase # "crashed" /\ diagnostics = <<>>, Groups(lines))

-----------------------------------------------------------------------------
(* Expressions. *)

\* The operators of an expression that no parenthesis surrounds.
Outside(parts) ==
    {j \in DOMAIN parts :
        /\ parts[j].node = "BinOp"
        /\ Cardinality({m \in 1 .. j : parts[m].node = "LPAREN"}) =
               Cardinality({m \in 1 .. j : parts[m].node = "RPAREN"})}

\* The fields of T take their sizes, one behind the other.
FieldOffset(type, field) ==
    LET entries == layouts[type].entries
        at == CHOOSE j \in DOMAIN entries : entries[j].path = field
    IN FoldLeft(LAMBDA sum, e : sum + e.width, 0, SubSeq(entries, 1, at - 1))

\* What an expression means: the loosest operator of the last ones divides
\* it, and a sign belongs to what follows it.
RECURSIVE Meaning(_)
Meaning(parts) ==
    LET level(j) == OPERATOR_PRECEDENCE(parts[j].text)
        outer == {j \in Outside(parts) : \A m \in Outside(parts) : level(m) <= level(j)}
        split == Max(outer)
        n == Len(parts)
    IN IF outer # {}
       THEN Binary(parts[split].text, Meaning(SubSeq(parts, 1, split - 1)),
                   Meaning(SubSeq(parts, split + 1, n)))
       ELSE IF parts[1].node = "UnaryOp" THEN Unary(parts[1].text, Meaning(Tail(parts)))
       ELSE IF parts[1].node = "LPAREN" THEN Meaning(SubSeq(parts, 2, n - 1))
       ELSE IF parts[1].node = "CastAccess"
       THEN Binary("+", Meaning(parts[1].inner[1].inner),
                   Number(FieldOffset(parts[1].inner[2].text, parts[1].inner[3].text)))
       ELSE Term(parts[1], symbols)

\* `~` in front of another sign empties the stack (IndexError).
Stacked(parts) ==
    \E j \in 1 .. Len(parts) - 1 :
        parts[j].node = "UnaryOp" /\ parts[j].text = "~" /\ parts[j + 1].node = "UnaryOp"
Casts(parts) == \E j \in DOMAIN parts : parts[j].node \in {"CastAccess", "CastValue"}

\* The expressions of the instructions and of the names bound.
Written ==
    UNION {{node.inner[j].inner : j \in {i \in DOMAIN node.inner : node.inner[i].node = "Expression"}} :
               node \in {n \in ToSet(Inlined(run.q.out)) : n.node \in {"EQUAL", "direct", "immediate"}}}

\* What shunting_yard and the stack compute is what precedence and left
\* association say, casts through the layout of their struct included; and
\* the text that reconstruct_expression puts in an object file reads back as
\* the same expression, so that the linker computes the same.
ExpressionsByPrecedence ==
    (phase = "done" /\ run.errors = <<>>) =>
    \A parts \in {e \in Written : ~Stacked(e)} :
        /\ Eval(parts, symbols) = Meaning(parts)
        /\ Casts(parts) \/ ParseTokens(NewParser(Lexer!ScanExpression(Reconstruct(parts)).tokens)).out = parts

-----------------------------------------------------------------------------
(* The end. *)

\* Every text with closed comments is read to its end, whatever it holds:
\* recovery always gets past the token it stopped at, and the search for the
\* end of a comment moves (Scanner.scan, parse_initial, _lex_block_comment).
Terminates == <>(phase \in Ended)
=============================================================================
