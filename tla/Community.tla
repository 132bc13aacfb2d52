----------------------------- MODULE Community -----------------------------
(***************************************************************************)
(* What users say of the content: ratings and stars, and how the merging   *)
(* of two users moves those of one to the other while requests go on.      *)
(***************************************************************************)
EXTENDS Ratings, Stars

vars == <<accountVars, ratingVars, starVars>>

Init == AccountInit /\ RatingInit /\ StarInit

Saving(u) ==
  \/ \E r \in RateRequests :
       rateReq[r].at = "saving" /\ rateReq[r].kind = "create" /\ rateReq[r].by = u
  \/ \E r \in StarRequests : starReq[r].at = "starring" /\ starReq[r].by = u

\* Bound: a name that both kinds of requests have is used by one of them.
Unused(r) ==
  /\ r \in RateRequests => rateReq[r].at = "idle"
  /\ r \in StarRequests => starReq[r].at = "idle"

-----------------------------------------------------------------------------
Rate(r) ==
  /\ \/ Unused(r) /\ \E u \in Users, e \in Entities, v \in Values, kind \in {"create", "update", "delete"} :
           FindRating(r, kind, u, e, v)
     \/ RateStep(r) /\ UNCHANGED accountVars
  /\ UNCHANGED starVars

Star(r) ==
  /\ \/ Unused(r) /\ \E u \in Users : FindNoStar(r, u) \/ FindStar(r, u)
     \/ Unused(r) /\ (Load(r) \/ Hit(r)) /\ UNCHANGED accountVars
     \/ (StarStep(r) \/ Forget) /\ UNCHANGED accountVars
  /\ UNCHANGED ratingVars

\* The documents found under the old user get the new one.  What follows to remove
\* duplicates looks for them under the old user again, and keeps a count where it
\* means a list: it never removes any.
MergeRatings(m, keep, gone) ==
  /\ BeginMerge(m, keep, gone, Saving(gone))
  /\ ratings' = [i \in RatingId |-> IF i \in Given /\ ratings[i].from = gone
                                    THEN [ratings[i] EXCEPT !.from = keep] ELSE ratings[i]]
  /\ UNCHANGED <<entity, atm, rateReq, outdated, revoters, starVars>>

\* The stars under one name get the other.
MoveStars(m, old, new) ==
  /\ StarsMerged(m)
  /\ stars' = [i \in StarId |-> IF stars[i] = old THEN new ELSE stars[i]]
  /\ UNCHANGED <<db, counters, stored, starReq, drifted, shifted, restarrers, ratingVars>>

\* Mutant of MergeStars: the users are swapped.
MergeStarsSwapped(m) == MoveStars(m, merge[m].keep, merge[m].gone)

MergeStars(m) == MoveStars(m, merge[m].gone, merge[m].keep)

MergeUsers(m) ==
  \/ \E keep, gone \in Users : MergeRatings(m, keep, gone)
  \/ MergeStars(m)
  \/ (RemoveMerged(m) \/ MergeFails(m)) /\ UNCHANGED <<ratingVars, starVars>>

Next ==
  \/ \E r \in RateRequests : Rate(r)
  \/ \E r \in StarRequests : Star(r)
  \/ \E m \in Merges : MergeUsers(m)

Spec == Init /\ [][Next]_vars

-----------------------------------------------------------------------------
OneEach(excepted) ==
  \A u \in Users \ excepted :
    /\ Cardinality(StarsBy(u)) <= 1
    /\ \A e \in Entities : Cardinality(RatingsBy(u, e)) <= 1

\* Nobody votes twice for an entity or stars it twice (rating.api.ts:139-141,
\* star.api.ts:128-130), but users whose first votes or stars overlapped, each
\* having found none, and users another was merged into.
OneVoteEach == OneEach(revoters \cup restarrers \cup Keepers)

\* A star or rating is of a user who exists, but those of a user who was merged
\* when he was about to save one: it is saved under the name the request began with
\* (user.util.ts:206, 231 and 297 against rating.api.ts:143-150, star.api.ts:131-138).
NoneDangling ==
  /\ \A i \in Starred : stars[i] \in users \cup ghosts
  /\ \A i \in Given : ratings[i].from \in users \cup ghosts

\* Everybody has one vote, and every vote is somebody's, whatever accounts are merged.
VotesHold == OneVoteEach /\ NoneDangling

=============================================================================
