------------------------------ MODULE MCDirCat ------------------------------
(* A file of three bytes, read in chunks of two, a directory with a gap,    *)
(* and bin: a directory without end marker.                                 *)
EXTENDS DirCat

MCFiles == [n \in {"help.txt"} |-> 3]

MCDirs ==
  [n \in {"www", "bin"} |->
    IF n = "www" THEN <<"name", "gap", "name", "end">> ELSE <<"name">>]

\* Zero padding and another directory, or the marker at once.
MCLayouts == {<<"end">>, <<"gap", "name", "end">>}
=============================================================================
