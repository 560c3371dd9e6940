----------------------------- MODULE MCShellFs ------------------------------
(* Instances of ShellFs for TLC. *)
EXTENDS ShellFs, TLC

CONSTANTS I1, I2, I3

MCName  == {"a", "b", "c"}
MCInode == {I1, I2, I3}
MCText  == {<<1>>, <<1, 2>>}
MCWord  == MCName \cup {"<", ">", "-i", "-s", "sort", "cat"} \cup DOMAIN Option
MCStale == {<<>>, <<"b">>, <<"b", "c">>}

\* Two and three arguments with the option in every place, redirections of a
\* built-in and of a program, and lines that end in an operator.
MCLines ==
  {<<op, "a", "b">> : op \in {"cp", "mv", "ln"}}
  \cup {<<op, "-i", "a", "b">> : op \in {"cp", "mv"}}
  \cup {<<"cp", "a", "-i", "b", "c">>, <<"mv", "a", "b", "-i">>, <<"cp", "a">>,
        <<"cp", "a", ">", "c", "b">>, <<"cp", "a", ">">>, <<"ln", "-s", "b", "a">>,
        <<"rm", "a">>, <<"rm", "-i", "b", "a">>, <<"rm", ">">>, <<"mkdir", "a">>,
        <<"rmdir", "a">>, <<"sort", "<", "a", ">", "b">>,
        <<"<", "a", "sort", "<", "b", ">", "a">>, <<"sort", "<", "a", ">">>,
        <<"sort", ">", "a">>, <<"cat", "a", ">", "b">>, <<"<", "c", "rm", "a", ">", ">", "b", "-i">>}

Symmetric == Permutations(MCInode)
=============================================================================
