-------------------------------- MODULE Sums --------------------------------
(***************************************************************************)
(* Sums over sequences: bitrates of what is requested, units of payload in *)
(* a queue of frames.                                                      *)
(***************************************************************************)
EXTENDS Integers, Sequences, SequencesExt

SumOf(s) == FoldLeft(LAMBDA a, b : a + b, 0, s)
=============================================================================
