----------------------------- MODULE MCStageCli -----------------------------
(* Commands and files for StageCli. *)
EXTENDS StageCli

MCFiles == {"a", "b", "s1", "s2"}
MCNames == {"a", "./a", "b"}
MCFileOf == [n \in MCNames |-> IF n = "b" THEN "b" ELSE "a"]
MCRows == {1, 2}
MCSlice == <<"s1", "s2">>

Cmd(type, input, out) == [type |-> type, input |-> input, out |-> out, split |-> FALSE, delete |-> TRUE, gunter |-> FALSE, env |-> ".env"]
Kept(c) == [c EXCEPT !.delete = FALSE]
Split(c) == [c EXCEPT !.split = TRUE]
ByGunter(c) == [c EXCEPT !.gunter = TRUE, !.env = "given"]

\* Every stage, with one and two inputs, the output being an input under the same or
\* another name, another file, or stdout.
MCCommands ==
    { Kept(Cmd("collect", <<>>, "a")), Cmd("collect", <<"b">>, "a"),
      Cmd("trim", <<"a">>, "b"), Cmd("trim", <<"a">>, "./a"), Cmd("trim", <<"a", "b">>, Stdio),
      Cmd("merge", <<"a", "b">>, "a"), Cmd("merge", <<"a", Stdio, "./a">>, "b"), Cmd("merge", <<"a", "b">>, Stdio),
      Split(Cmd("aggregate", <<"a">>, Stdio)), Split(Cmd("aggregate", <<"a">>, "b")), Cmd("aggregate", <<>>, "b"),
      Cmd("resolve", <<"a">>, "b"), ByGunter(Cmd("resolve", <<"./a">>, "a")), Cmd("resolve", <<"a">>, Stdio) }

Doc(rows, filled) == [header |-> TRUE, rows |-> rows, filled |-> filled]
Disk(a, b) == [f \in MCFiles |-> CASE f = "a" -> a [] f = "b" -> b [] OTHER -> NoFile]
MCDisks == {Disk(Doc({1, 2}, {}), Doc({2}, {2})), Disk(NoDoc, NoDoc), Disk(Doc({1, 2}, {1}), NoFile),
            Disk(Doc({1}, {}), Doc({2}, {}))}

\* Everything is there; Graylog and Gunter are only in the file of --env; the default file
\* is invalid; that of --env does not exist.
Env(default, given) == [f \in EnvFiles |-> IF f = ".env" THEN default ELSE given]
MCEnvironments == {Env({}, {}), Env({"graylog", "gunter"}, {}), Env({"validity"}, {}), Env({}, {"existence"})}
=============================================================================
