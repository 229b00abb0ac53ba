--------------------------- MODULE MCCommandLine ---------------------------
(* Two directories in the root, one of them without an end; a file; names   *)
(* that begin with the same letter as another, or with a command word.      *)
EXTENDS CommandLine

Entry(name, data) == [name |-> name, data |-> data]

MCDir ==
  [root |-> <<Entry(<<".">>, "root"), Entry(<<"b", "n">>, "bin"),
              Entry(<<"d", "n">>, "www"), Entry(<<"n">>, "text"),
              Entry(<<"o", "b">>, "text"), Entry(<<"d", "o">>, "text")>>,
   bin |-> <<Entry(<<".">>, "bin"), Entry(<<".", ".">>, "root"),
             Entry(<<"o">>, "code"), Entry(<<"n", "b">>, "code"), Entry(<<"c">>, "code")>>,
   www |-> <<Entry(<<".">>, "www"), Entry(<<".", ".">>, "root"),
             Entry(<<"b", "o">>, "text"), Entry(<<"b", "n">>, "text")>>]

MCOut == {<<"o">>, <<"0">>}
MCDirWords == {<<"d">>, <<"1">>}
MCCat == {<<"c">>, <<"2">>}
=============================================================================
