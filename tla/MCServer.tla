------------------------------- MODULE MCServer -------------------------------
(* An entry point may import b, or use a pool that b declares; c is imported *)
(* by b and reached by the crawl only.  b may not have been saved yet.       *)
EXTENDS ServerProperties

MCFiles == {"main", "b", "c", "d"}
MCOpenable == {"main", "b"}
MCHandlers == 1 .. 2

Main == {<<"import", "b">>, <<"label", "start">>}
TextOfB == {<<"label", "own">>, <<"import", "c">>}
MCTexts == [f \in MCFiles |->
    CASE f = "main" -> {Main}
      [] f = "b" -> {Absent, TextOfB}
      [] f = "c" -> {{<<"import", "d">>}}
      [] f = "d" -> {{<<"pool", "bank">>, <<"label", "both">>}}]
MCEdits == [f \in MCOpenable |->
    IF f = "main" THEN {<<"use", "bank">>, <<"import", "c">>, <<"label", "both">>}
    ELSE {<<"issue", "lint">>, <<"label", "both">>, <<"import", "c">>, <<"label", "own">>}]
=============================================================================
