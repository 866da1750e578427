----------------------------- MODULE Expressions ----------------------------
(***************************************************************************)
(* What an expression is worth: src/a816/parse/ast/expression.py.  The     *)
(* parser leaves the terms and operators in the order of the source;       *)
(* shunting_yard puts them in postfix order and eval_expression runs that  *)
(* on a stack.  Values stay within 16 bits: TLC's integers have no room    *)
(* for the 32-bit complement.                                              *)
(***************************************************************************)
EXTENDS Integers, Sequences, FiniteSets, Folding, Bitwise

LOCAL INSTANCE FiniteSetsExt
LOCAL INSTANCE SequencesExt

Number(n)   == [type |-> "int", int |-> n, str |-> ""]
Str(s)   == [type |-> "str", int |-> 0, str |-> s]
Raised   == [type |-> "raised", int |-> 0, str |-> ""]
Truth(b) == Number(IF b THEN 1 ELSE 0)

Levels == <<{"(", ")"}, {"~"}, {"*", "/", "%"}, {"+", "-"}, {"<<", ">>"}, {">=", "<=", ">", "<"},
            {"==", "!="}, {"&"}, {"^"}, {"|"}>>
OPERATOR_PRECEDENCE(op) == CHOOSE level \in DOMAIN Levels : op \in Levels[level]

-----------------------------------------------------------------------------
(* shunting_yard: stack holds operators and parentheses, queue is the      *)
(* postfix order.                                                          *)

Pop(y, kept) == [stack |-> SubSeq(y.stack, 1, kept),
                 queue |-> y.queue \o Reverse(SubSeq(y.stack, kept + 1, Len(y.stack)))]

\* Mutant: an operator does not give way to an equal one.
HeldByEquals(part, level) == part.text = "(" \/ OPERATOR_PRECEDENCE(part.text) >= level

\* The test of _pop_higher_precedence that ends its loop.
Held(part, level) == part.text = "(" \/ OPERATOR_PRECEDENCE(part.text) > level

PopHigherPrecedence(y, level) == Pop(y, Max({0} \cup {j \in DOMAIN y.stack : Held(y.stack[j], level)}))

PopUntilLparen(y) ==
    LET lparen == Max({j \in DOMAIN y.stack : y.stack[j].text = "("})
        popped == Pop(y, lparen)
    IN [popped EXCEPT !.stack = SubSeq(@, 1, lparen - 1)]

Shunt(y, part) ==
    CASE part.node = "BinOp"   -> [PopHigherPrecedence(y, OPERATOR_PRECEDENCE(part.text)) EXCEPT
                                      !.stack = Append(@, part)]
      [] part.node = "UnaryOp" -> [PopHigherPrecedence(y, 2) EXCEPT !.stack = Append(@, part)]
      [] part.node = "LPAREN"  -> [y EXCEPT !.stack = Append(@, part)]
      [] part.node = "RPAREN"  -> PopUntilLparen(y)
      [] OTHER                 -> [y EXCEPT !.queue = Append(@, part)]

shunting_yard(parts) == Pop(Fold(Shunt, [stack |-> <<>>, queue |-> <<>>], parts), 0).queue

-----------------------------------------------------------------------------
(* Operators and numbers. *)

\* & and | of two's complement; negative numbers have all high bits set.
High == 2 ^ 16
Signed(bits, negative) == IF negative THEN bits - High ELSE bits
BitAnd(a, b) == Signed((a % High) & (b % High), a < 0 /\ b < 0)
BitOr(a, b)  == Signed((a % High) | (b % High), a < 0 \/ b < 0)

IntBinop(op, a, b) ==
    CASE op = "+" -> Number(a + b) [] op = "-" -> Number(a - b) [] op = "*" -> Number(a * b)
      [] op = "&" -> Number(BitAnd(a, b)) [] op = "|" -> Number(BitOr(a, b))
      [] op = ">>" -> IF b < 0 THEN Raised ELSE Number(a \div 2 ^ b)
      [] op = "<<" -> IF b < 0 THEN Raised ELSE Number(a * 2 ^ b)
      [] op = ">=" -> Truth(a >= b) [] op = "<=" -> Truth(a <= b)
      [] op = ">"  -> Truth(a > b)  [] op = "<"  -> Truth(a < b)
      [] op = "==" -> Truth(a = b)  [] op = "!=" -> Truth(a # b)
      [] OTHER -> Raised

\* _apply_binary
Binary(op, v1, v2) ==
    IF v1.type = "int" /\ v2.type = "int" THEN IntBinop(op, v1.int, v2.int)
    ELSE IF v1.type = "str" /\ v2.type = "str" /\ op \in {"==", "!="}
    THEN Truth((v1.str = v2.str) <=> (op = "==")) ELSE Raised

\* _bitwise_not: the complement is as wide as the number.
BitwiseNot(n) ==
    LET magnitude == IF n < 0 THEN -n ELSE n
        width == IF magnitude < 2 ^ 8 THEN 2 ^ 8 ELSE 2 ^ 16
    IN (-n - 1) % width

\* _apply_unary
Unary(op, v) == IF v.type # "int" THEN Raised ELSE Number(IF op = "-" THEN -v.int ELSE BitwiseNot(v.int))

\* eval_number
Digits == "0123456789abcdefABCDEF"
DigitValue(c) == LET at == CHOOSE j \in 1 .. Len(Digits) : SubSeq(Digits, j, j) = c
                 IN IF at > 16 THEN at - 7 ELSE at - 1

EvalNumber(number) ==
    LET prefix == IF Len(number) > 1 THEN SubSeq(number, 1, 2) ELSE ""
        base   == IF prefix = "0x" THEN 16 ELSE IF prefix = "0b" THEN 2 ELSE 10
        start  == IF base = 10 THEN 1 ELSE 3
        digits == [j \in 1 .. Len(number) - start + 1 |-> SubSeq(number, start + j - 1, start + j - 1)]
    IN IF digits = <<>> \/ prefix = "0o" THEN Raised
       ELSE Number(FoldLeft(LAMBDA n, c : n * base + DigitValue(c), 0, digits))

-----------------------------------------------------------------------------
(* eval_expression, over the symbols the scope knows. *)

Lookup(symbols, name) == IF name \in DOMAIN symbols THEN symbols[name] ELSE Raised

FieldSymbol(cast) ==
    FoldLeft(LAMBDA path, part : path \o "." \o part.text, cast.inner[2].text,
             SubSeq(cast.inner, 3, Len(cast.inner)))

Address(v) == IF v.type = "int" THEN v ELSE Raised

RECURSIVE Eval(_, _)

\* _push_term
Term(part, symbols) ==
    CASE part.node = "NUMBER"        -> EvalNumber(part.text)
      [] part.node = "QUOTED_STRING" -> Str(SubSeq(part.text, 2, Len(part.text) - 1))
      [] part.node = "IDENTIFIER"    -> Lookup(symbols, part.text)
      [] part.node = "CastValue"     -> Address(Eval(part.inner[1].inner, symbols))
      [] part.node = "CastAccess"    -> Binary("+", Address(Eval(part.inner[1].inner, symbols)),
                                                Lookup(symbols, FieldSymbol(part)))

\* One step of the loop; a pop from an empty stack raises.
Execute(stack, part, symbols) ==
    LET n == Len(stack)
    IN IF part.node = "UnaryOp"
       THEN IF n < 1 THEN <<Raised>> ELSE Append(SubSeq(stack, 1, n - 1), Unary(part.text, stack[n]))
       ELSE IF part.node = "BinOp"
       THEN IF n < 2 THEN <<Raised>>
            ELSE Append(SubSeq(stack, 1, n - 2), Binary(part.text, stack[n - 1], stack[n]))
       ELSE Append(stack, Term(part, symbols))

Eval(parts, symbols) ==
    LET final == Fold(LAMBDA stack, part : Execute(stack, part, symbols), <<>>, shunting_yard(parts))
    IN IF \E j \in DOMAIN final : final[j].type = "raised" THEN Raised ELSE final[Len(final)]

\* reconstruct_expression: what an expression relocation holds.
Reconstruct(parts) == FoldLeft(LAMBDA text, part : text \o part.text \o " ", "", parts)

-----------------------------------------------------------------------------
(* Struct layouts: src/a816/parse/codegen/structs.py.  A field is          *)
(* [name, type], a layout [entries, size]; uN packs N bits behind those    *)
(* of the fields before it.                                                *)

FieldSizes == [byte |-> 1, word |-> 2, long |-> 3, dword |-> 4]
BitWidth(type) == CASE type = "u1" -> 1 [] type = "u3" -> 3 [] type = "u4" -> 4 [] type = "u8" -> 8
                    [] type = "u12" -> 12 [] OTHER -> 0

\* bits: where a packed field stands in its byte, and how many bits it has.
Entry(path, offset, width, bits) == [path |-> path, offset |-> offset, width |-> width, bits |-> bits]
Packed(name, layout, w) == Entry(name, layout.size + (layout.bits \div 8), 1, <<layout.bits % 8, w>>)

\* _flush_bit_run; bits is the width of the run being packed.
Flushed(layout) == [layout EXCEPT !.size = @ + ((layout.bits + 7) \div 8), !.bits = 0]

\* One turn of the loop of _layout_struct_fields.
AddField(layout, field, layouts) ==
    LET w    == BitWidth(field.type)
        full == Flushed(layout)
        nested == layouts[field.type]
        Sub(e) == Entry(field.name \o "." \o e.path, full.size + e.offset, e.width, <<>>)
    IN IF w > 0
       THEN [layout EXCEPT !.entries = Append(@, Packed(field.name, layout, w)),
                           !.bits = @ + w]
       ELSE IF field.type \in DOMAIN FieldSizes
       THEN [full EXCEPT !.entries = Append(@, Entry(field.name, full.size, FieldSizes[field.type], <<>>)),
                         !.size = @ + FieldSizes[field.type]]
       ELSE [full EXCEPT !.entries = @ \o <<Entry(field.name, full.size, nested.size, <<>>)>> \o
                                     [j \in DOMAIN nested.entries |-> Sub(nested.entries[j])],
                         !.size = @ + nested.size]

StructLayout(fields, layouts) ==
    Flushed(Fold(LAMBDA layout, field : AddField(layout, field, layouts),
                 [entries |-> <<>>, size |-> 0, bits |-> 0], fields))
=============================================================================
