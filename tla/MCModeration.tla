---------------------------- MODULE MCModeration ----------------------------
(***************************************************************************)
(* A release and a backglass, one of them restricted; an author and a      *)
(* moderator, whose releases are approved at once.                         *)
(***************************************************************************)
EXTENDS Comments, TLC

CONSTANT author

MCAuthors == [e \in Entities |-> {author}]

RequestSymmetry == Permutations(Requests)

=============================================================================
