---------------------------- MODULE MCMembership ----------------------------
(***************************************************************************)
(* Small instances of Membership.                                          *)
(***************************************************************************)
EXTENDS Membership, TLC

Alike == Permutations(Users) \cup Permutations(Tasks) \cup Permutations(Requests)
=============================================================================
