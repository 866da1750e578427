------------------------------ MODULE FrontEnd ------------------------------
(***************************************************************************)
(* From a source text to symbols: A816Parser.parse                         *)
(* (src/a816/parse/mzparser.py) scans the text, parses the tokens, keeps   *)
(* every diagnostic of both, and hands the tree to code generation, of     *)
(* which this module has the generators that bind names at once: structs,  *)
(* constants and assignments.  The scanner and the parser go on behind an  *)
(* error, so that one run reports many.                                    *)
(***************************************************************************)
EXTENDS Grammar, Expressions

CONSTANT Sources      \* the programs: sequences of lines, or of blocks of them

ASSUME SourcesAssumption == \A source \in Sources : source # <<>>

LOCAL INSTANCE SequencesExt
LOCAL INSTANCE TLC

VARIABLES lines,        \* the program, as its author laid it out
          phase,        \* "scan", "parse", "bind", then "done", "failed" or "crashed"
          scanner,
          run,          \* the parser, and the tokens its errors name
          diagnostics,  \* ParserResult.parse_errors: [line, column]
          pending,      \* the nodes still to be generated
          symbols,      \* the scope: name -> value
          layouts       \* resolver.struct_layouts and struct_sizes

vars == <<lines, phase, scanner, run, diagnostics, pending, symbols, layouts>>

NewRun(tokens) == [q |-> NewParser(tokens), errors |-> <<>>]
Empty == [x \in {} |-> Raised]

\* Every line ends: "\n" behind each.
TextOf(source) == FoldLeft(LAMBDA text, line : text \o line \o "\n", "", source)

Init ==
    /\ lines \in Sources
    /\ phase = "scan"
    /\ scanner = Lexer!NewScanner(TextOf(lines), "lex_initial")
    /\ run = NewRun(<<>>)
    /\ diagnostics = <<>> /\ pending = <<>>
    /\ symbols = Empty /\ layouts = Empty

-----------------------------------------------------------------------------
(* Scanning. *)

bindVars == <<pending, symbols, layouts>>

\* One state of the scanner: the tokens of a statement part, or an error.
ScanToken ==
    /\ phase = "scan" /\ ~Lexer!AtEnd(scanner)
    /\ scanner' = Lexer!ScanTurn(scanner)
    /\ UNCHANGED <<lines, phase, run, diagnostics, bindVars>>

EndScan ==
    /\ phase = "scan" /\ Lexer!AtEnd(scanner)
    /\ scanner' = Lexer!Finished(scanner)
    /\ run' = NewRun(scanner'.tokens)
    /\ phase' = "parse"
    /\ UNCHANGED <<lines, diagnostics, bindVars>>

-----------------------------------------------------------------------------
(* Parsing. *)

ParseStatement ==
    /\ phase = "parse" /\ ~AtEnd(run)
    /\ run' = ParseTurn(run)
    /\ UNCHANGED <<lines, phase, scanner, diagnostics, bindVars>>

Places(tokens) == [j \in DOMAIN tokens |-> [line |-> tokens[j].line, column |-> tokens[j].column]]

\* .include puts the nodes of the file where it stands.
Inlined(nodes) ==
    FoldLeft(LAMBDA all, node : all \o (IF node.node = "include" THEN node.inner[2].inner ELSE <<node>>),
             <<>>, nodes)

\* _gather_context shows the line before an error, which must be one.
Refused == Places(scanner.errors) \o Places(run.errors)
LineCount == 1 + Cardinality({j \in 1 .. Len(scanner.text) : SubSeq(scanner.text, j, j) = "\n"})
Shown(place) == place.line <= LineCount

\* ParserResult: with an error of the parser there is no tree.
EndParse ==
    /\ phase = "parse" /\ AtEnd(run) /\ run.q.error # "crash"
    /\ \A j \in DOMAIN Refused : Shown(Refused[j])
    /\ diagnostics' = Refused
    /\ pending' = IF run.errors = <<>> THEN Inlined(run.q.out) ELSE <<>>
    /\ phase' = "bind"
    /\ UNCHANGED <<lines, scanner, run, symbols, layouts>>

\* An exception that is not an error of the source.
Crash ==
    /\ phase = "parse" /\ AtEnd(run)
    /\ run.q.error = "crash" \/ \E j \in DOMAIN Refused : ~Shown(Refused[j])
    /\ phase' = "crashed"
    /\ UNCHANGED <<lines, scanner, run, diagnostics, bindVars>>

-----------------------------------------------------------------------------
(* Code generation of what binds a name. *)

AddSymbol(name, value) == (name :> value) @@ symbols

\* The field symbols of a struct at a base.
Expanded(prefix, entries, base) ==
    [path \in {prefix \o "." \o entries[j].path : j \in DOMAIN entries} |->
        Number(base + entries[CHOOSE j \in DOMAIN entries : path = prefix \o "." \o entries[j].path].offset)]

\* The mask and the shift of each packed field, which are no part of the layout
\* that a typed name takes.
PackedSymbols(name, entries) ==
    LET packed    == {j \in DOMAIN entries : entries[j].bits # <<>>}
        Symbol(j, s) == name \o "." \o entries[j].path \o s
        Mask(bits) == (2 ^ bits[2] - 1) * 2 ^ bits[1]
    IN [s \in {Symbol(j, ".mask") : j \in packed} |->
            Number(Mask(entries[CHOOSE j \in packed : s = Symbol(j, ".mask")].bits))]
       @@ [s \in {Symbol(j, ".shift") : j \in packed} |->
            Number(entries[CHOOSE j \in packed : s = Symbol(j, ".shift")].bits[1])]

Node == Head(pending)
Value(node) == Eval(node.inner[1].inner, symbols)

\* generate_symbol: only an integer is bound now.
BindConstant ==
    /\ symbols' = IF Value(Node).type = "int" THEN AddSymbol(Node.text, Value(Node)) ELSE symbols
    /\ UNCHANGED <<phase, layouts>>

\* generate_assign and _try_typed_bind.
BindAssign ==
    LET only  == Node.inner[1].inner[1]
        typed == Len(Node.inner[1].inner) = 1 /\ only.node = "CastValue"
        type  == only.inner[2].text
        ok    == Value(Node).type # "raised" /\ (typed => type \in DOMAIN layouts)
    IN /\ symbols' = IF ~ok THEN symbols
                     ELSE IF typed
                     THEN Expanded(Node.text, layouts[type].entries, Value(Node).int)
                          @@ AddSymbol(Node.text, Value(Node))
                     ELSE AddSymbol(Node.text, Value(Node))
       /\ phase' = IF ok THEN phase ELSE "failed"
       /\ UNCHANGED layouts

\* generate_struct: the same layout again changes nothing, another is refused.
BindStruct ==
    LET name   == Node.inner[1].text
        parts  == SubSeq(Node.inner, 2, Len(Node.inner))
        fields == [j \in DOMAIN parts |-> [name |-> parts[j].text, type |-> parts[j].inner[1].text]]
        known  == \A j \in DOMAIN fields :
                      BitWidth(fields[j].type) > 0 \/ fields[j].type \in DOMAIN FieldSizes \cup DOMAIN layouts
        layout == StructLayout(fields, layouts)
        again  == name \in DOMAIN layouts
        ok     == known /\ (again => layouts[name] = layout)
    IN /\ phase' = IF ok THEN phase ELSE "failed"
       /\ layouts' = IF ok THEN (name :> layout) @@ layouts ELSE layouts
       /\ symbols' = IF ok /\ ~again
                     THEN Expanded(name, layout.entries, 0) @@ PackedSymbols(name, layout.entries)
                          @@ AddSymbol(name \o ".__size", Number(layout.size))
                     ELSE symbols

Bind ==
    /\ phase = "bind" /\ pending # <<>>
    /\ pending' = Tail(pending)
    /\ CASE Node.node = "EQUAL"  -> BindConstant
         [] Node.node = "ASSIGN" -> BindAssign
         [] Node.node = "struct" -> BindStruct
         [] OTHER                -> UNCHANGED <<phase, symbols, layouts>>
    /\ UNCHANGED <<lines, scanner, run, diagnostics>>

EndBind ==
    /\ phase = "bind" /\ pending = <<>>
    /\ phase' = "done"
    /\ UNCHANGED <<lines, scanner, run, diagnostics, bindVars>>

-----------------------------------------------------------------------------

Next == ScanToken \/ EndScan \/ ParseStatement \/ EndParse \/ Crash \/ Bind \/ EndBind

\* ENABLED <<Next>>_vars, case by case.
CanMove ==
    CASE phase = "scan"  -> Lexer!AtEnd(scanner) \/ Lexer!ScanTurn(scanner) # scanner
      [] phase = "parse" -> AtEnd(run) \/ ParseTurn(run) # run
      [] phase = "bind"  -> TRUE
      [] OTHER           -> FALSE

\* WF_vars(Next): one thread runs the front end, and nothing interrupts it.
\* Written out with CanMove, since TLC evaluates an operator's argument at
\* each of its uses under ENABLED.
Fairness == []<>~CanMove \/ []<><<Next>>_vars

Spec == Init /\ [][Next]_vars /\ Fairness
=============================================================================
