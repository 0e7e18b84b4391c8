---------------------------- MODULE MCMobileApp ----------------------------
(***************************************************************************)
(* A small instance of MobileApp.                                          *)
(***************************************************************************)
EXTENDS MobileApp, TLC

Accounts_ == Permutations(Accounts)

\* A bound: a kill or the end of the activity, or a bundle that could not be
\* deleted, and not both.
OneMishap == deaths = 0 \/ ~ broken
=============================================================================
