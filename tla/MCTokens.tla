------------------------------ MODULE MCTokens ------------------------------
(***************************************************************************)
(* A small instance of Tokens.                                             *)
(***************************************************************************)
EXTENDS Tokens, TLC

Commands_ == Permutations(Commands)
=============================================================================
