------------------------------- MODULE MCBuild -------------------------------
(* Two entry points share an object directory and import b and c.  b imports *)
(* a; it may use c, or c may use it, or both at once.  What imports b, names *)
(* constants of a as well: it sees them because b brings a into the build.   *)
EXTENDS BuildProperties

T(imports, names, assets) ==
    [imports |-> imports, names |-> names, assets |-> assets, compiles |-> TRUE, const |-> 0]

MCModules == {"__main__", "a", "b", "c"}
MCRank == [x \in MCModules |->
    CASE x = "__main__" -> 0 [] x = "a" -> 1 [] x = "b" -> 2 [] x = "c" -> 3]
MCSources == {"m1.s", "m2.s"}
MCHome == [x \in {"a", "b", "c"} |-> CASE x = "a" -> "a.s" [] x = "b" -> "b.s" [] x = "c" -> "c.s"]
MCAssets == {"t.tbl"}
MCTexts == [f \in {"m1.s", "m2.s", "a.s", "b.s", "c.s"} |->
    CASE f = "m1.s" -> {T(<<"b", "c">>, {"a", "c"}, {})}
      [] f = "m2.s" -> {T(<<"c", "b">>, {}, {})}
      [] f = "a.s" -> {T(<<>>, {}, {}), T(<<"c">>, {}, {})}
      [] f = "b.s" -> {T(<<"a">>, {"a"}, {"t.tbl"})}
      [] f = "c.s" -> {T(<<>>, {}, {}), T(<<"b">>, {"a"}, {})}]
MCContents == {1, 2}
MCLosable == {"b"}

\* One entry point imports b, which uses a constant of c; the other only c.
StaleTexts == [f \in {"m1.s", "m2.s", "a.s", "b.s", "c.s"} |->
    CASE f = "m1.s" -> {T(<<"b">>, {}, {})}
      [] f = "m2.s" -> {T(<<"c">>, {}, {})}
      [] f = "a.s" -> {T(<<>>, {}, {})}
      [] f = "b.s" -> {T(<<"c">>, {"c"}, {})}
      [] f = "c.s" -> {T(<<>>, {}, {}), [T(<<>>, {}, {}) EXCEPT !.const = 1]}]
=============================================================================
