------------------------------ MODULE MCFiles ------------------------------
(***************************************************************************)
(* A small file system: an archive with the directory a, the files a/b, b  *)
(* and bb, and processes that use a few paths in it, in /tmp and in /dev.  *)
(***************************************************************************)
EXTENDS Files

MCGlue(x, y) == IF x = "b" /\ y = "b" THEN "bb" ELSE "other"

MCName == {"dev", "tty", "tmp", "a", "b", "bb", "other"}

MCHeader(path, dir, size) == [head |-> TRUE, zero |-> FALSE, path |-> path, dir |-> dir, size |-> size]
Data == [head |-> FALSE, zero |-> FALSE, path |-> <<"other">>, dir |-> FALSE, size |-> 0]
Zero == [head |-> FALSE, zero |-> TRUE, path |-> <<>>, dir |-> FALSE, size |-> 0]

\* Two bytes to a block: a/b takes two blocks, the second one half empty.
MCImage ==
    {<<MCHeader(<<"a">>, TRUE, 0), MCHeader(<<"a", "b">>, FALSE, 3), Data, Data,
       MCHeader(<<"a", "bb">>, FALSE, 1), Data, Zero, Zero>>}

MCPath == {<<"a", "b">>, <<"tmp", "a", "b">>}
MCDir == {<<"tmp", "a">>, <<"a">>}

MCMode == {{}, {"O_CREAT", "O_APPEND"}}
=============================================================================
