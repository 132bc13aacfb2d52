---------------------------- MODULE MCCommunity ----------------------------
(***************************************************************************)
(* Two users, two games, one rating and one star from before.              *)
(***************************************************************************)
EXTENDS Community, TLC

MCModel == [e \in Entities |-> "game"]

\* Users, entities and requests are interchangeable.
CommunitySymmetry ==
  Permutations(Users) \cup Permutations(Entities) \cup Permutations(RateRequests)

=============================================================================
