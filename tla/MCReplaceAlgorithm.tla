------------------------- MODULE MCReplaceAlgorithm -------------------------
(***************************************************************************)
(* All files up to six bytes with two different letters, all new lines of  *)
(* two to five bytes: with LineMax = 4 the lines of a file, and the new    *)
(* one, may be longer than what readline returns.                          *)
(***************************************************************************)
EXTENDS ReplaceAlgorithm

CONSTANTS a, b

SmallSizes == 1 .. 6
SmallLengths == 2 .. 5
=============================================================================
