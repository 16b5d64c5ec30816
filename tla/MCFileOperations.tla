-------------------------- MODULE MCFileOperations --------------------------
(***************************************************************************)
(* Messages for the runs of FileOperations.                                *)
(***************************************************************************)
EXTENDS FileOperations, TLC

\* One with '/' between two parts, and one that is only '/'.
WithSlashes == {<<"u", "a">>, <<"u", "a", "b">>, <<"u">>}

Exchangeable == Permutations(Boards)
=============================================================================
