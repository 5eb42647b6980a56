---------------------------- MODULE MCConnection ----------------------------
(***************************************************************************)
(* TLC instances of Connection.                                            *)
(***************************************************************************)
EXTENDS Connection
=============================================================================
