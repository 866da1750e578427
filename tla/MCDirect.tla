------------------------------ MODULE MCDirect -----------------------------
(* Programs of one, two or three fragments, in every order, between an     *)
(* origin and a tail that everything may refer to: each fragment is one    *)
(* feature of the language, and the combinations are what no test writes.  *)
EXTENDS DirectProperties

Num(n) == [id |-> Number, add |-> n]
Name(x) == [id |-> <<x>>, add |-> 0]
Dot(n, x) == [id |-> <<n, x>>, add |-> 0]

Label(x) == [kind |-> "label", id |-> <<x>>]
Word(e) == [kind |-> "data", size |-> 2, expr |-> e]
Byte(n) == [kind |-> "data", size |-> 1, expr |-> Num(n)]
Org(a) == [kind |-> "org", to |-> a]
At(a) == [kind |-> "at", to |-> a]
Bin(x) == [kind |-> "bin", id |-> <<x>>, size |-> 3]
Symbol(x, e) == [kind |-> "symbol", id |-> <<x>>, expr |-> e]
Assign(x, e) == [kind |-> "assign", id |-> <<x>>, expr |-> e]
LabelAt(x, e) == [kind |-> "abs", id |-> <<x>>, expr |-> e]
Braces(body) == [kind |-> "braces", body |-> body]
ScopeOf(n, body) == [kind |-> "scope", name |-> n, body |-> body]
For(x, to, body) == [kind |-> "for", id |-> <<x>>, from |-> 0, to |-> to, body |-> body]
If(e, then, else) == [kind |-> "if", expr |-> e, then |-> then, else |-> else]
Macro(n, params, body) == [kind |-> "macro", name |-> n, params |-> params, body |-> body]
Apply(n, args) == [kind |-> "apply", name |-> n, args |-> args]
Block(body) == [block |-> body]
Splice(x) == [kind |-> "splice", id |-> <<x>>]
PoolOf(n, ranges, strategy) ==
    [kind |-> "pool", name |-> n, ranges |-> ranges, strategy |-> strategy, bss |-> FALSE]
Alloc(x, p, rank, body) ==
    [kind |-> "alloc", id |-> <<x>>, pool |-> p, rank |-> rank, pin |-> Floating, body |-> body]
Pin(x, rank, a, body) ==
    [kind |-> "pinned", id |-> <<x>>, pool |-> x, rank |-> rank, to |-> a, body |-> body]
Relocate(x, p, rank, range, body) ==
    [kind |-> "relocate", id |-> <<x>>, pool |-> p, rank |-> rank, range |-> range, body |-> body]
Reserve(x, p, rank) ==
    [kind |-> "reserve", id |-> <<x>>, pool |-> p, rank |-> rank, size |-> 4,
     fields |-> <<[id |-> <<"f">>, offset |-> 0], [id |-> <<"g">>, offset |-> 2]>>]
Import(n) == [kind |-> "import", name |-> n]

R(a, b) == [lo |-> a, hi |-> b, cross |-> FALSE]

\* Pools: two ranges of the first bank, and RAM.
Pools == <<PoolOf("p", {R(33024, 33027), R(33040, 33060)}, "pack"),
           PoolOf("ram", {R(8257536, 8257550)}, "order")>>

\* An object: a section of three bytes at 0x8000, the first two a reference to
\* its second label; and one with its own place.
Sym(x, a, code, local) == [id |-> <<x>>, addr |-> a, code |-> code, local |-> local]
MCModules ==
    [mod |-> [form |-> "object", relocatable |-> TRUE, pools |-> NoNames,
              sections |-> <<[base |-> 32768, code |-> <<0, 0, 7>>,
                              relocs |-> <<[offset |-> 0, size |-> 2, expr |-> Name("mg")]>>]>>,
              symbols |-> <<Sym("mf", 32768, TRUE, FALSE), Sym("mg", 32770, TRUE, TRUE),
                            Sym("mk", 5, FALSE, FALSE)>>],
     fixed |-> [form |-> "object", relocatable |-> FALSE, pools |-> [q |-> {R(33100, 33110)}],
                sections |-> <<[base |-> 33280, code |-> <<1, 2>>, relocs |-> <<>>],
                               [base |-> 33290, code |-> <<3>>, relocs |-> <<>>]>>,
                symbols |-> <<Sym("ff", 33280, TRUE, FALSE)>>],
     decls |-> [form |-> "object", relocatable |-> TRUE, pools |-> NoNames, sections |-> <<>>,
                symbols |-> <<Sym("dk", 9, FALSE, FALSE)>>],
     text |-> [form |-> "source", body |-> <<Label("tx"), Word(Name("tx"))>>]]

\* A body across the end of a bank.
AcrossBanks ==
    <<Pin("E", 1, 65533, <<Word(Name("z")), Label("pub"), Word(Name("pub")),
                           Label("past"), Word(Name("past"))>>),
      Word(Name("E")), Word(Name("past"))>>

\* What is combined three at a time: labels, scopes, control flow, bodies,
\* moves and modules.
Core ==
    {<<Label("a"), Word(Name("z")), Word(Name("a"))>>,
     <<ScopeOf("N", <<Label("x"), Label("_x"), Word(Name("_x")), Symbol("y", Name("x"))>>),
       Word(Dot("N", "x"))>>,
     <<Assign("n", Num(2)), For("i", Name("n"), <<Label("l"), Word(Name("i")), Word(Name("l"))>>)>>,
     <<Alloc("A", "p", 1, <<Label("pub"), Label("_x"), Word(Name("_x")), Word(Name("pub"))>>),
       Word(Name("A"))>>,
     <<Alloc("B", "p", 2, <<Braces(<<Label("l"), Word(Name("l"))>>), Word(Name("B"))>>), Word(Name("B"))>>,
     <<[kind |-> "reclaim", pool |-> "p", range |-> R(33028, 33039)]>>,
     <<Relocate("O", "p", 3, R(33070, 33075), <<Label("old"), Word(Name("old")), Word(Name("O"))>>),
       Word(Name("O"))>>,
     <<Org(33536), Label("a"), Word(Name("a"))>>,
     <<Word(Name("c")), Bin("c"), Word([id |-> <<"c", "__size">>, add |-> 1])>>,
     <<Import("mod"), Word(Name("mf")), Word(Name("mk"))>>,
     <<ScopeOf("M", <<Import("mod")>>), Word(Dot("M", "mf"))>>}

Fragments ==
    Core \cup
    {\* scopes, symbols, private names
     <<Braces(<<Label("l"), Label("a"), Word(Name("l")), Word(Name("z"))>>)>>,
     <<LabelAt("far", Num(8257540)), Symbol("s", Name("far")), Symbol("t", Name("z")),
       Word(Name("t")), Word(Name("s"))>>,
     \* control flow
     <<If(Name("n"), <<Label("a"), Byte(1)>>, <<Word(Name("z"))>>), Assign("n", Num(0))>>,
     <<Macro("m", <<"u", "b">>, <<Label("l"), Word(Name("u")), Splice("b"), Word(Name("l"))>>),
       Apply("m", <<Name("z"), Block(<<Word(Name("z")), Byte(2)>>)>>),
       Apply("m", <<Num(4), Block(<<Word(Name("u"))>>)>>)>>,
     \* placement
     AcrossBanks,
     <<Pin("P", 1, 33300, <<Label("x"), Word(Name("x")), Bin("c")>>), Word(Name("x"))>>,
     <<Reserve("V", "ram", 1), Reserve("W", "ram", 2), Word(Dot("V", "g")), Word(Name("W"))>>,
     <<At(8257792), Label("r"), Word(Name("r")), Word(Name("z"))>>,
     <<[kind |-> "ips", expr |-> Num(1024), blocks |-> <<[at |-> 0, size |-> 2], [at |-> 8, size |-> 1]>>]>>,
     \* other files
     <<Import("fixed"), Import("decls"), Word(Name("ff")), Word(Name("dk"))>>,
     <<Alloc("G", "p", 4, <<Import("mod"), Word(Name("mf"))>>)>>,
     <<Import("text"), Import("text"), [kind |-> "include", body |-> <<Label("in"), Word(Name("in"))>>]>>}

Failing ==
    {<<Word(Name("nowhere"))>>, <<Assign("n", Name("nowhere"))>>, <<Splice("z")>>, <<Apply("z", <<>>)>>,
     <<Macro("m", <<"u">>, <<>>), Apply("m", <<>>)>>, <<Symbol("s", Name("nowhere"))>>,
     <<For("i", Name("z"), <<>>)>>, <<[kind |-> "ips", expr |-> Name("z"), blocks |-> <<>>]>>,
     <<Import("nowhere")>>, <<PoolOf("p", {R(1, 2)}, "pack")>>, <<Alloc("A", "nowhere", 1, <<>>)>>,
     <<Alloc("A", "p", 1, <<Org(32768)>>)>>, <<Pin("A", 1, 33300, <<Pin("B", 1, 1, <<>>)>>)>>,
     <<Reserve("A", "nowhere", 1)>>, <<Relocate("A", "nowhere", 1, R(1, 2), <<>>)>>,
     <<Relocate("A", "p", 1, R(33024, 33030), <<>>)>>,
     <<[kind |-> "reclaim", pool |-> "nowhere", range |-> R(1, 2)]>>,
     <<[kind |-> "reclaim", pool |-> "p", range |-> R(33024, 33025)]>>,
     <<Alloc("A", "p", 1, <<Word(Name("nowhere"))>>)>>,
     <<Alloc("A", "p", 1, <<LabelAt("b", Name("nowhere"))>>)>>,
     <<Alloc("A", "p", 1, [j \in 1 .. 11 |-> Word(Num(j))])>>,
     <<PoolOf("e", {R(65530, 65540)}, "pack")>>, <<PoolOf("e", {R(1, 3), R(3, 4)}, "pack")>>,
     <<[kind |-> "reclaim", pool |-> "p", range |-> R(65530, 65540)]>>,
     <<Pin("Q", 1, 33024, <<Byte(1)>>), Alloc("A", "p", 1, <<Byte(2)>>)>>,
     <<Org(32768), Byte(1)>>}

Around(body) == <<Org(32768), Byte(0)>> \o Pools \o body \o <<Word(Name("z")), Label("z"), Byte(9)>>

\* Left out: a binary before a relocatable module, whose length the second
\* pass loses, and an .alloc at twice on one line, which makes
\* one pool.
Has(f, kinds) == \E t \in Statements(f) : t.kind \in kinds
Imports(f) == \E t \in Statements(f) : t.kind = "import" /\ t.name = "mod"
Steady(f, g) == /\ ~(Has(f, {"bin"}) /\ Imports(g))
                /\ ~(f = g /\ Has(f, {"pinned"}))

\* Left out: an object with a place of its own in a body, whose bytes are
\* dropped, and a reservation in a body, which has no bytes to go by.
Wrapped(f) ==
    {<<Braces(f)>>, <<ScopeOf("K", f)>>}
    \cup (IF Has(f, {"reserve"}) \/ \E t \in Statements(f) : t.kind = "import" /\ t.name = "fixed" THEN {}
          ELSE {<<Alloc("K", "p", 5, f)>>})
    \cup (IF Has(f, {"pinned"}) THEN {}
          ELSE {<<For("j", Num(2), f)>>, <<Macro("w", <<>>, f), Apply("w", <<>>), Apply("w", <<>>)>>})

MCSources ==
    {Around(f) : f \in Fragments \cup Failing}
    \cup {Around(w) : w \in UNION {Wrapped(f) : f \in Fragments}}
    \cup {Around(p[1] \o p[2]) : p \in {q \in Fragments \X Fragments : Steady(q[1], q[2])}}
    \cup {Around(p[1] \o p[2] \o p[3]) : p \in {q \in Core \X Core \X Core :
              Steady(q[1], q[2]) /\ Steady(q[1], q[3]) /\ Steady(q[2], q[3])}}

\* Labels of a body, and the fields of a reservation, read from outside.
MCOutside ==
    {Around(<<Alloc("A", "p", 2, <<Label("pub"), Word(Name("pub"))>>),
              Alloc("B", "p", 1, <<Word(Num(1)), Byte(2)>>), Word(Name("pub"))>>),
     Around(<<Reserve("V", "ram", 1), Reserve("W", "ram", 2), Word(Dot("W", "g"))>>),
     Around(<<ScopeOf("M", <<Import("mod")>>), Import("mod"), Word(Dot("M", "mf"))>>)}
=============================================================================
