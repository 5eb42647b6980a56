------------------------------ MODULE MCPlayer ------------------------------
(***************************************************************************)
(* TLC instances of Player: interchangeable tiles.                         *)
(***************************************************************************)
EXTENDS Player, TLC

TileSymmetry == Permutations(Tiles)
=============================================================================
