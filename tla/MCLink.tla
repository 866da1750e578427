------------------------------- MODULE MCLink -------------------------------
(* Two and three modules that share pools, import each other's symbols and  *)
(* repeat each other's allocs, on banks of 32 bytes.  In the programs of    *)
(* the passing run every module's sandboxes fit the first range of their    *)
(* pool and meet no other code; the programs of the other runs break one    *)
(* of these conditions.                                                     *)
EXTENDS LinkProperties

LOCAL INSTANCE SequencesExt

R(a, b) == [lo |-> a, hi |-> b, cross |-> FALSE]

MCPrivate == {"_l", "_s", "_t"}

MCRank == [x \in {"a", "b", "c", "pin", "pin2", "r", "_s"} |->
              CASE x = "_s" -> 0 [] x = "a" -> 1 [] x = "b" -> 2 [] x = "c" -> 3
                [] x = "pin" -> 4 [] x = "pin2" -> 5 [] x = "r" -> 6]

\* Nodes.
Label(id) == [kind |-> "label", id |-> id]
Data(n, refs) == [kind |-> "bytes", size |-> n, refs |-> refs]
Res(n) == [kind |-> "res", size |-> n]
Org(a) == [kind |-> "org", to |-> a]
Ips(a, n) == [kind |-> "ips", to |-> a, size |-> n]
Abs(id, a) == [kind |-> "abs", id |-> id, to |-> a]
Extern(id) == [kind |-> "extern", id |-> id]
Alias(id, target) == [kind |-> "alias", id |-> id, target |-> target]
Decl(p, ranges, strategy, bss) ==
    [kind |-> "pool", pool |-> p, ranges |-> ranges, strategy |-> strategy, bss |-> bss]
Reclaimed(p, r) == [kind |-> "reclaim", pool |-> p, range |-> r]
In(p, id, body) == [kind |-> "alloc", pool |-> p, id |-> id, pin |-> Floating, body |-> body]
PinIn(p, id, a, body) == [kind |-> "alloc", pool |-> p, id |-> id, pin |-> a, body |-> body]
PinnedAt(p, id, r, body) ==
    [kind |-> "at", pool |-> p, id |-> id, range |-> r, pin |-> Floating, body |-> body]

\* The sublists of a list: every choice of its elements, in its order.
Sublists(list) == {[k \in 1 .. Cardinality(S) |-> list[SetToSortSeq(S, <)[k]]]
                   : S \in SUBSET DOMAIN list}

PoolP(ranges) == Decl("p", ranges, "pack", FALSE)

\* Always part of the first module, and optional nodes of it.
HeadA == <<PoolP({R(0, 8), R(12, 12), R(13, 14)}), Extern("b"), Label("main"), Data(2, {"main", "b"}),
           Abs("hw", 1)>>
MoreA == << In("p", "a", <<Data(2, {"_l"}), Label("_l"), Data(1, {"a", "hw"})>>),
            In("p", "_s", <<Data(1, {"b"})>>),
            In("p", "c", <<Data(5, {"main"})>>),
            Org(70) >>
TailA == << Label("_t"), Data(1, {"_t", "main"}), Alias("al", "_t"), Alias("bl", "b") >>

\* The same for the second.
HeadB == <<PoolP({R(0, 8), R(16, 18)}), Decl("q", {R(32, 40)}, "order", TRUE), Extern("main"),
           In("p", "b", <<Label("_l"), Data(3, {"_l"}), Label("b2"), Data(1, {"_l", "b"})>>)>>
MoreB == << In("p", "_s", <<Data(1, {"b2"})>>),
            In("q", "r", <<Res(2), Label("r2"), Res(1)>>),
            PinnedAt("at80", "pin", R(80, 83), <<Data(2, {"main", "b2"})>>) >>

ModulesA == {HeadA \o s \o t : s \in Sublists(MoreA), t \in {<<>>, TailA}}

ModulesB == {HeadB \o s : s \in Sublists(MoreB)}

\* Modules without pools stay relocatable.
PlainA == <<Extern("y"), Label("x"), Data(2, {"y"}), Label("_t"), Data(1, {"_t"}), Alias("al", "x")>>
PlainB == <<Extern("x"), Extern("al"), Label("_t"), Data(1, {"x"}), Label("y"), Data(2, {"_t", "al"})>>
PlainC == <<Extern("x"), Ips(90, 1)>>

\* Builds that stop, or that a rare node is in.
Odd == { <<PlainA, PlainB, PlainC>>, <<PlainB, PlainA>>, <<PlainA, PlainA>>, <<PlainA>>,
         <<PlainB, PlainB, PlainA>>,
         <<<<Decl("p", {R(0, 2), R(2, 3)}, "pack", FALSE)>>>>,
         <<<<PoolP({R(0, 3)}), PoolP({R(0, 3)}), PoolP({R(0, 4)})>>>>,
         <<<<PoolP({R(4, 7)}), Reclaimed("p", R(0, 2)), In("p", "a", <<Data(2, {})>>)>>>>,
         <<<<PoolP({R(4, 7)}), Reclaimed("p", R(7, 8))>>>>,
         <<<<In("p", "a", <<Data(2, {})>>)>>>>,
         <<<<PoolP({R(0, 7)}), PinIn("p", "a", 4, <<Data(2, {})>>), In("p", "b", <<Data(4, {"a"})>>),
             In("p", "c", <<>>)>>>>,
         <<<<PoolP({R(0, 5), R(8, 11)}), PinIn("p", "a", 2, <<Data(1, {})>>),
             In("p", "b", <<Data(4, {"a"})>>)>>>>,
         <<<<Decl("q", {R(32, 40)}, "pack", TRUE), In("q", "a", <<Data(2, {})>>)>>>>,
         <<<<Decl("q", {R(32, 40)}, "pack", TRUE), PinIn("q", "a", 36, <<Res(2)>>),
             In("q", "b", <<Res(3), Label("b2"), Res(1)>>), In("q", "c", <<Res(1)>>)>>>>,
         <<<<Label("x"), Data(1, {"nowhere"})>>>>,
         <<<<Alias("al", "nowhere")>>>>,
         <<<<Extern("z"), Alias("al", "z")>>>>,
         <<<<Extern("cl"), Alias("al", "cl"), Label("x"), Data(1, {"al"})>>, <<Extern("x"), Alias("cl", "x")>>>>,
         <<<<PoolP({R(0, 3)}), In("p", "a", <<Data(4, {})>>)>>, <<PoolP({R(0, 3)}), In("p", "b", <<Data(1, {})>>)>>>>,
         <<<<PoolP({R(0, 3)})>>, <<Decl("p", {R(0, 3)}, "order", FALSE)>>>>,
         <<<<PoolP({R(0, 3)})>>, <<PoolP({R(3, 5)})>>>> }

MCPrograms == {<<a, b>> : a \in ModulesA, b \in ModulesB}
              \cup {<<b, a>> : a \in {HeadA \o MoreA \o TailA}, b \in ModulesB} \cup Odd

\* The programs of the passing run meet what PooledPlaced asks of programs.
ASSUME ProgramsAgree == Programs = MCPrograms => SizesAgree

-----------------------------------------------------------------------------
\* Modules that each have a private alloc of the same name, of two sizes.
PrivatePrograms ==
    {<<<<PoolP({R(0, 15)}), In("p", "_s", <<Data(k, {})>>)>>,
       <<PoolP({R(0, 15)}), In("p", "_s", <<Data(n, {})>>), In("p", "a", <<Data(1, {})>>)>>>>
       : k \in 1 .. 3, n \in 1 .. 3}
=============================================================================
