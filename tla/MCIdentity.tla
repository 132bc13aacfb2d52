----------------------------- MODULE MCIdentity -----------------------------
(***************************************************************************)
(* Three accounts and two addresses; two requests at a time.               *)
(***************************************************************************)
EXTENDS Identity, TLC

IdentitySymmetry == Permutations(Users) \cup Permutations(Requests) \cup Permutations(Emails)

=============================================================================
