-------------------------- MODULE CommunityProofs --------------------------
(***************************************************************************)
(* Votes, averages and stars hold for any number of users, entities,       *)
(* requests and merges.                                                    *)
(***************************************************************************)
EXTENDS Community, FiniteSetTheorems, TLAPS

(***************************************************************************)
(* Accounts and their merging.                                             *)
(***************************************************************************)
MergeStates ==
  [at : {"idle", "stars", "removing", "done"}, keep : Users \cup {None}, gone : Users \cup {None}]

Apart(m, n) ==
  MergeActive(m) /\ MergeActive(n) =>
    /\ merge[m].keep # merge[n].keep /\ merge[m].keep # merge[n].gone
    /\ merge[m].gone # merge[n].keep /\ merge[m].gone # merge[n].gone

AccountInv ==
  /\ users \subseteq Users /\ ghosts \subseteq Users
  /\ merge \in [Merges -> MergeStates]
  /\ \A m \in Merges :
       /\ merge[m].at = "idle" => merge[m].keep = None
       /\ MergeActive(m) =>
            merge[m].keep \in users /\ merge[m].gone \in users /\ merge[m].keep # merge[m].gone
  /\ \A m, n \in Merges : m # n => Apart(m, n)

\* A user who may still have something saved: he is there, and nobody is removing him but
\* with a note of it.
Known(u) ==
  /\ u \in users \cup ghosts
  /\ \A m \in Merges : MergeActive(m) /\ merge[m].gone = u => u \in ghosts

\* The same for what the merge moves later.
KnownByStars(u) ==
  /\ u \in users \cup ghosts
  /\ \A m \in Merges : merge[m].at = "removing" /\ merge[m].gone = u => u \in ghosts

\* A request of a user lets the accounts alone, but for a note that he is being merged.
Noting == UNCHANGED <<users, merge>> /\ ghosts \subseteq ghosts' /\ ghosts' \subseteq Users

LEMMA NotingKeeps ==
  ASSUME AccountInv, Noting
  PROVE  /\ AccountInv' /\ Keepers' = Keepers
         /\ \A u : (Known(u) => Known(u)') /\ (KnownByStars(u) => KnownByStars(u)')
<1>1. AccountInv'
  BY DEF AccountInv, Noting, Apart, MergeActive
<1>2. \A u : (Known(u) => Known(u)') /\ (KnownByStars(u) => KnownByStars(u)')
  BY DEF Known, KnownByStars, Noting, MergeActive
<1> QED
  BY <1>1, <1>2 DEF Keepers, Noting

LEMMA AdmitNotes ==
  ASSUME AccountInv, NEW u \in Users, NEW saves \in BOOLEAN, Admit(u, saves)
  PROVE  Noting /\ (saves => Known(u)')
<1>1. Noting
  BY DEF Admit, Noting, AccountInv
<1>2. ASSUME saves PROVE Known(u)'
  BY <1>2 DEF Admit, Known, MergeActive
<1> QED
  BY <1>1, <1>2

LEMMA BeginMergeInv ==
  ASSUME AccountInv, NEW m \in Merges, NEW keep \in Users, NEW gone \in Users, NEW busy \in BOOLEAN,
         BeginMerge(m, keep, gone, busy)
  PROVE  AccountInv'
<1>1. \A n \in Merges : merge'[n] = IF n = m THEN [at |-> "stars", keep |-> keep, gone |-> gone] ELSE merge[n]
  BY DEF AccountInv, BeginMerge
<1>2. merge' \in [Merges -> MergeStates]
  BY DEF AccountInv, BeginMerge, MergeStates
<1>3. \A n, k \in Merges : n # k => Apart(n, k)'
  BY <1>1 DEF AccountInv, BeginMerge, Apart, Merging, MergeActive
<1> QED
  BY <1>1, <1>2, <1>3 DEF AccountInv, BeginMerge, MergeActive

\* A merge that goes on or ends.
LEMMA MergeGoesInv ==
  ASSUME AccountInv, NEW m \in Merges, NEW at \in {"removing", "done"}, MergeActive(m),
         merge' = [merge EXCEPT ![m].at = at], ghosts' = ghosts,
         users' = users \/ (at = "done" /\ users' = users \ {merge[m].gone})
  PROVE  /\ AccountInv' /\ Keepers' = Keepers
         /\ \A n \in Merges : /\ merge'[n].keep = merge[n].keep /\ merge'[n].gone = merge[n].gone
                             /\ merge'[n].at = IF n = m THEN at ELSE merge[n].at
<1>1. /\ merge' \in [Merges -> MergeStates]
      /\ \A n \in Merges : /\ merge'[n].keep = merge[n].keep /\ merge'[n].gone = merge[n].gone
                           /\ merge'[n].at = IF n = m THEN at ELSE merge[n].at
  BY DEF AccountInv, MergeStates
<1>2. \A n \in Merges : MergeActive(n)' => MergeActive(n)
  BY <1>1 DEF MergeActive
<1>3. \A n, k \in Merges : n # k => Apart(n, k)'
  BY <1>1, <1>2 DEF AccountInv, Apart
<1>4. \A n \in Merges : MergeActive(n)' => merge[n].keep \in users' /\ merge[n].gone \in users'
  BY <1>1, <1>2 DEF AccountInv, Apart, MergeActive
<1>5. AccountInv'
  BY <1>1, <1>2, <1>3, <1>4 DEF AccountInv, MergeActive
<1> QED
  BY <1>1, <1>5 DEF Keepers

-----------------------------------------------------------------------------
(***************************************************************************)
(* Ratings.                                                                *)
(***************************************************************************)
Docs == [from : Users, on : Entities, value : Values]
Means == {Total(f) : f \in UNION {[S -> Values] : S \in SUBSET RatingId}} \cup {NoMean}

RateStates ==
  [at : {"idle", "saving", "averaging", "adding", "putting", "comparing", "keeping", "listing", "done"},
   kind : {"create", "update", "delete"}, by : Users \cup {None}, on : Entities \cup {None},
   doc : RatingId \cup {None}, value : Values \cup {0}, mean : Means, cur : Entities \cup {None},
   total : Means, stale : BOOLEAN, todo : SUBSET Entities, all : BOOLEAN]

RateTypes ==
  /\ ratings \in [RatingId -> Docs \cup {None}]
  /\ entity \in [Entities -> [total : Means, mean : Means]]
  /\ rateReq \in [RateRequests -> RateStates]

SumOn(e) == Aggregate(RatingsOn({e}))

\* A request that is about to save knows a rating on its entity, and one that creates it
\* has its name for it.
Asked(r) ==
  /\ rateReq[r].at \in {"idle", "saving"} => ratings[r] = None
  /\ rateReq[r].at = "saving" =>
       /\ rateReq[r].on \in Entities /\ rateReq[r].by \in Users
       /\ rateReq[r].kind # "delete" => rateReq[r].value \in Values
       /\ rateReq[r].kind # "create" =>
            /\ rateReq[r].doc \in RatingId
            /\ rateReq[r].doc \in RateRequests => rateReq[rateReq[r].doc].at \notin {"idle", "saving"}
            /\ ratings[rateReq[r].doc] # None => ratings[rateReq[r].doc].on = rateReq[r].on

\* A request that writes an entity writes the one it saved a rating on, but in the loop over
\* all of them; and what it has read is current until somebody saves another rating.
Summed(r) ==
  /\ rateReq[r].at = "averaging" => ~rateReq[r].all /\ rateReq[r].on \in Entities
  /\ rateReq[r].at \in {"adding", "putting"} =>
       rateReq[r].cur \in Entities /\ (rateReq[r].all \/ rateReq[r].cur = rateReq[r].on)
  /\ \A e \in Entities :
       rateReq[r].at = "putting" /\ ~rateReq[r].stale /\ rateReq[r].cur = e => rateReq[r].total = SumOn(e)

Writing(r, e) ==
  rateReq[r].at \in {"averaging", "adding", "putting"} /\ ~rateReq[r].all /\ rateReq[r].on = e

Current(e) == e \in outdated \/ (\E r \in RateRequests : Writing(r, e)) \/ entity[e].total = SumOn(e)

\* A first vote that is on its way.
Voting(r, u, e) ==
  rateReq[r].at = "saving" /\ rateReq[r].kind = "create" /\ rateReq[r].by = u /\ rateReq[r].on = e

OneRating(u, e) ==
  u \notin revoters \cup Keepers =>
    /\ \A i, j \in RatingsBy(u, e) : i = j
    /\ \A r \in RateRequests : Voting(r, u, e) => RatingsBy(u, e) = {}
    /\ \A r, q \in RateRequests : Voting(r, u, e) /\ Voting(q, u, e) => r = q

RatersKnown ==
  /\ \A i \in Given : Known(ratings[i].from)
  /\ \A r \in RateRequests :
       rateReq[r].at = "saving" /\ rateReq[r].kind = "create" => Known(rateReq[r].by)

RatingInv ==
  /\ RateTypes
  /\ \A r \in RateRequests : Asked(r) /\ Summed(r)
  /\ \A e \in Entities : Current(e)
  /\ \A u \in Users, e \in Entities : OneRating(u, e)
  /\ RatersKnown

\* One request moves on, the others stay.
Moves(r, s) == s \in RateStates /\ rateReq' = [rateReq EXCEPT ![r] = s]

LEMMA MovesTo ==
  ASSUME RateTypes, NEW r \in RateRequests, NEW s, Moves(r, s)
  PROVE  /\ rateReq' \in [RateRequests -> RateStates] /\ rateReq'[r] = s
         /\ \A q \in RateRequests : q # r => rateReq'[q] = rateReq[q]
BY DEF RateTypes, Moves

LEMMA MeanOf ==
  ASSUME ratings \in [RatingId -> Docs \cup {None}], NEW ids \in SUBSET Given
  PROVE  Aggregate(ids) \in Means
<1> DEFINE f == [i \in ids |-> ratings[i].value]
<1>1. ids \in SUBSET RatingId
  BY DEF Given
<1>2. f \in [ids -> Values]
  BY DEF Given, Docs
<1>3. f \in UNION {[S -> Values] : S \in SUBSET RatingId}
  BY <1>1, <1>2
<1>4. Aggregate(ids) = Total(f)
  BY DEF Aggregate
<1> HIDE DEF f
<1> QED
  BY <1>3, <1>4 DEF Means

LEMMA SumIsMean ==
  ASSUME ratings \in [RatingId -> Docs \cup {None}]
  PROVE  /\ \A e : SumOn(e) \in Means /\ GlobalMean(e) \in Means
         /\ NoMean \in Means
<1>1. \A S : RatingsOn(S) \in SUBSET Given
  BY DEF RatingsOn
<1>2. \A e : SumOn(e) \in Means /\ GlobalMean(e) \in Means
  BY <1>1, MeanOf DEF SumOn, GlobalMean
<1> QED
  BY <1>2 DEF Means

LEMMA RequestState ==
  ASSUME NEW at \in {"idle", "done"}, NoMean \in Means
  PROVE  RateRequest(at) \in RateStates /\ RateRequest(at).at = at
BY DEF RateRequest, RateStates

\* The sum on an entity depends on its ratings only.
LEMMA SumStays ==
  ASSUME NEW e, RatingsOn({e})' = RatingsOn({e}),
         \A i \in RatingsOn({e}) : ratings'[i].value = ratings[i].value
  PROVE  SumOn(e)' = SumOn(e)
BY DEF SumOn, Aggregate

LEMMA RatingInitInv == Init => RatingInv
<1> SUFFICES ASSUME Init PROVE RatingInv
  OBVIOUS
<1>1. PICK given \in [OldRatings -> {None} \cup Docs] :
        /\ \A i, j \in OldRatings :
             i # j /\ given[i] # None /\ given[j] # None =>
               given[i].from # given[j].from \/ given[i].on # given[j].on
        /\ ratings = [i \in RatingId |-> IF i \in OldRatings THEN given[i] ELSE None]
  BY DEF Init, RatingInit, Docs
<1>2. ratings \in [RatingId -> Docs \cup {None}] /\ \A r \in RateRequests : ratings[r] = None
  BY <1>1, RatingAssumption DEF RatingId
<1>3. /\ entity = [e \in Entities |-> Weighed(SumOn(e), GlobalMean(e))]
      /\ rateReq = [r \in RateRequests |-> RateRequest("idle")] /\ outdated = {} /\ revoters = {}
      /\ users = Users /\ ghosts = {} /\ \A m \in Merges : merge[m] = [at |-> "idle", keep |-> None, gone |-> None]
  BY DEF Init, RatingInit, AccountInit, SumOn
<1>5. NoMean \in Means
  BY DEF Means
<1>7. \A e : SumOn(e) \in Means /\ GlobalMean(e) \in Means
  BY <1>2, SumIsMean
<1>8. RateTypes
  <2>1. entity \in [Entities -> [total : Means, mean : Means]]
    BY <1>3, <1>5, <1>7 DEF Weighed
  <2> QED
    BY <2>1, <1>2, <1>3, <1>5, RequestState DEF RateTypes
<1>9. \A r \in RateRequests : rateReq[r].at = "idle"
  BY <1>3, <1>5, RequestState
<1>10. \A r \in RateRequests : Asked(r) /\ Summed(r)
  BY <1>2, <1>9 DEF Asked, Summed
<1>11. \A e \in Entities : Current(e)
  BY <1>3 DEF Current, Weighed
<1>12. ASSUME NEW u \in Users, NEW e \in Entities PROVE OneRating(u, e)
  <2>1. \A i \in Given : i \in OldRatings /\ ratings[i] = given[i]
    BY <1>1 DEF Given, RatingId
  <2>2. \A i, j \in RatingsBy(u, e) : i = j
    BY <2>1, <1>1 DEF RatingsBy, Given
  <2> QED
    BY <2>2, <1>9 DEF OneRating, Voting
<1>13. RatersKnown
  <2>1. \A u \in Users : Known(u)
    BY <1>3 DEF Known, MergeActive
  <2> QED
    BY <2>1, <1>2, <1>9 DEF RatersKnown, Given, Docs
<1> QED
  BY <1>8, <1>10, <1>11, <1>12, <1>13 DEF RatingInv

\* A request that moves on without saving leaves the others and the sums as they are.
LEMMA OthersStay ==
  ASSUME RatingInv, NEW r \in RateRequests, NEW s, Moves(r, s), ratings' = ratings,
         s.at # "idle", s.at = "saving" => rateReq[r].at = "idle"
  PROVE  /\ rateReq' \in [RateRequests -> RateStates] /\ rateReq'[r] = s
         /\ \A q \in RateRequests : q # r => rateReq'[q] = rateReq[q]
         /\ \A e : SumOn(e)' = SumOn(e) /\ \A u : RatingsBy(u, e)' = RatingsBy(u, e)
         /\ \A q \in RateRequests : q # r => Asked(q)' /\ Summed(q)'
         /\ s.at # "saving" => Asked(r)'
<1>1. /\ rateReq' \in [RateRequests -> RateStates] /\ rateReq'[r] = s
      /\ \A q \in RateRequests : q # r => rateReq'[q] = rateReq[q]
  BY MovesTo DEF RatingInv
<1>2. \A e : SumOn(e)' = SumOn(e) /\ \A u : RatingsBy(u, e)' = RatingsBy(u, e)
  BY DEF SumOn, Aggregate, RatingsOn, RatingsBy, Given
<1>3. ASSUME NEW q \in RateRequests, q # r PROVE Asked(q)' /\ Summed(q)'
  <2>1. Asked(q) /\ Summed(q) /\ rateReq'[q] = rateReq[q]
    BY <1>1, <1>3 DEF RatingInv
  <2>2. Asked(q)'
    BY <2>1, <1>1 DEF Asked
  <2> QED
    BY <2>1, <2>2, <1>2 DEF Summed
<1>4. s.at # "saving" => Asked(r)'
  BY <1>1 DEF Asked
<1> QED
  BY <1>1, <1>2, <1>3, <1>4

\* And if it was not going to save, or does not any more, what is known of votes and of
\* averages, but the one it may have been writing.
LEMMA OnwardKeeps ==
  ASSUME RatingInv, AccountInv, Noting, NEW r \in RateRequests, NEW s, Moves(r, s), ratings' = ratings,
         revoters' = revoters, s.at \notin {"idle", "saving"}
  PROVE  /\ \A u \in Users, e \in Entities : OneRating(u, e)'
         /\ RatersKnown'
<1>1. /\ rateReq'[r] = s /\ \A q \in RateRequests : q # r => rateReq'[q] = rateReq[q]
      /\ \A u, e : RatingsBy(u, e)' = RatingsBy(u, e)
  BY OthersStay
<1>2. \A q \in RateRequests, u \in Users, e \in Entities : Voting(q, u, e)' => Voting(q, u, e)
  BY <1>1 DEF Voting
<1>3. Keepers' = Keepers /\ \A u : Known(u) => Known(u)'
  BY NotingKeeps
<1>4. \A u \in Users, e \in Entities : OneRating(u, e)'
  BY <1>1, <1>2, <1>3 DEF RatingInv, OneRating
<1>5. RatersKnown'
  <2>1. Given' = Given
    BY DEF Given
  <2>2. \A q \in RateRequests : rateReq'[q].at = "saving" =>
          rateReq[q].at = "saving" /\ rateReq'[q].kind = rateReq[q].kind /\ rateReq'[q].by = rateReq[q].by
    BY <1>1
  <2> QED
    BY <2>1, <2>2, <1>3 DEF RatingInv, RatersKnown
<1> QED
  BY <1>4, <1>5

\* What is left to show of a step that saves nothing.
LEMMA OnwardInv ==
  ASSUME RatingInv, AccountInv, Noting, NEW r \in RateRequests, NEW s, Moves(r, s), ratings' = ratings,
         revoters' = revoters, s.at \notin {"idle", "saving"},
         entity' \in [Entities -> [total : Means, mean : Means]],
         Summed(r)', \A e \in Entities : Current(e)'
  PROVE  RatingInv'
<1>1. RateTypes'
  BY OthersStay DEF RatingInv, RateTypes
<1>2. \A q \in RateRequests : Asked(q)' /\ Summed(q)'
  BY OthersStay
<1> QED
  BY <1>1, <1>2, OnwardKeeps DEF RatingInv

\* Where it writes no entity either.
LEMMA QuietInv ==
  ASSUME RatingInv, AccountInv, Noting, NEW r \in RateRequests, NEW s, Moves(r, s), ratings' = ratings,
         revoters' = revoters, s.at \notin {"idle", "saving"}, entity' = entity,
         Summed(r)', outdated \subseteq outdated',
         \A e \in Entities : Writing(r, e) => Writing(r, e)' \/ e \in outdated'
  PROVE  RatingInv'
<1>1. /\ \A q \in RateRequests : q # r => rateReq'[q] = rateReq[q]
      /\ \A e : SumOn(e)' = SumOn(e)
  BY OthersStay
<1>2. ASSUME NEW e \in Entities PROVE Current(e)'
  <2>1. CASE e \in outdated \/ entity[e].total = SumOn(e)
    BY <2>1, <1>1 DEF Current
  <2>2. ASSUME NEW q \in RateRequests, Writing(q, e) PROVE Current(e)'
    <3>1. Writing(q, e)' \/ e \in outdated'
      BY <2>2, <1>1 DEF Writing
    <3> QED
      BY <3>1 DEF Current
  <2> QED
    BY <2>1, <2>2 DEF RatingInv, Current
<1> QED
  BY <1>2, OnwardInv DEF RatingInv, RateTypes

LEMMA StayingNotes ==
  ASSUME AccountInv, UNCHANGED accountVars
  PROVE  Noting
BY DEF AccountInv, accountVars, Noting

LEMMA ReadMeanInv ==
  ASSUME RatingInv, AccountInv, UNCHANGED accountVars, NEW r \in RateRequests, ReadMean(r)
  PROVE  RatingInv'
<1> DEFINE s == [rateReq[r] EXCEPT !.at = "adding", !.mean = GlobalMean(rateReq[r].on), !.cur = rateReq[r].on]
<1>1. rateReq[r] \in RateStates /\ Summed(r) /\ rateReq[r].at = "averaging"
  BY DEF RatingInv, RateTypes, ReadMean
<1>2. GlobalMean(rateReq[r].on) \in Means
  BY SumIsMean DEF RatingInv, RateTypes
<1>3. /\ s \in RateStates /\ s.at = "adding" /\ s.cur = rateReq[r].on /\ s.on = rateReq[r].on
      /\ s.all = rateReq[r].all /\ s.stale = rateReq[r].stale
  BY <1>1, <1>2 DEF RateStates
<1>4. Moves(r, s)
  BY <1>3 DEF ReadMean, Moves
<1> HIDE DEF s
<1>5. rateReq'[r] = s /\ ratings' = ratings
  BY <1>4, MovesTo DEF RatingInv, ReadMean
<1>6. Summed(r)'
  BY <1>1, <1>3, <1>5 DEF Summed
<1>7. \A e \in Entities : Writing(r, e) => Writing(r, e)'
  BY <1>1, <1>3, <1>5 DEF Writing
<1> QED
  BY <1>3, <1>4, <1>6, <1>7, StayingNotes, QuietInv DEF ReadMean

LEMMA AddUpInv ==
  ASSUME RatingInv, AccountInv, UNCHANGED accountVars, NEW r \in RateRequests, AddUp(r)
  PROVE  RatingInv'
<1> DEFINE s == [rateReq[r] EXCEPT !.at = "putting", !.stale = FALSE, !.total = SumOn(rateReq[r].cur)]
<1>1. rateReq[r] \in RateStates /\ Summed(r) /\ rateReq[r].at = "adding"
  BY DEF RatingInv, RateTypes, AddUp, AddUpTo
<1>2. SumOn(rateReq[r].cur) \in Means
  BY SumIsMean DEF RatingInv, RateTypes
<1>3. /\ s \in RateStates /\ s.at = "putting" /\ s.cur = rateReq[r].cur /\ s.on = rateReq[r].on
      /\ s.all = rateReq[r].all /\ s.total = SumOn(rateReq[r].cur)
  BY <1>1, <1>2 DEF RateStates
<1>4. Moves(r, s)
  BY <1>3 DEF AddUp, AddUpTo, Moves, SumOn
<1> HIDE DEF s
<1>5. rateReq'[r] = s /\ \A e : SumOn(e)' = SumOn(e)
  BY <1>3, <1>4, OthersStay DEF AddUp, AddUpTo
<1>6. Summed(r)'
  BY <1>1, <1>3, <1>5 DEF Summed
<1>7. \A e \in Entities : Writing(r, e) => Writing(r, e)'
  BY <1>1, <1>3, <1>5 DEF Writing
<1> QED
  BY <1>3, <1>4, <1>6, <1>7, StayingNotes, QuietInv DEF AddUp, AddUpTo

LEMMA SavedState ==
  ASSUME NEW job \in RateStates, NEW at \in {"averaging", "comparing", "adding"}, NoMean \in Means
  PROVE  /\ Saved(job, at) \in RateStates /\ Saved(job, at).at = at
         /\ Saved(job, at).on = job.on /\ Saved(job, at).all = FALSE
BY DEF Saved, RateRequest, RateStates

\* The loop over all entities goes on with one of them or is over.
LEMMA NextEntityMoves ==
  ASSUME RateTypes, NEW job \in RateStates, NEW todo \in SUBSET Entities, NEW r \in RateRequests,
         NextEntity(job, todo, r)
  PROVE  \E s \in RateStates : Moves(r, s) /\ (s.at = "done" \/ (s.at = "adding" /\ s.cur \in Entities /\ s.all))
<1>1. NoMean \in Means
  BY DEF Means
<1>2. CASE todo = {}
  BY <1>1, <1>2, RequestState DEF NextEntity, Moves
<1>3. CASE todo # {}
  <2>1. PICK e \in todo : rateReq' = [rateReq EXCEPT ![r] = [Saved(job, "adding") EXCEPT
                                       !.cur = e, !.todo = todo \ {e}, !.all = TRUE]]
    BY <1>3 DEF NextEntity
  <2> DEFINE b == Saved(job, "adding")
             s == [b EXCEPT !.cur = e, !.todo = todo \ {e}, !.all = TRUE]
  <2>2. b \in RateStates /\ b.at = "adding"
    BY <1>1, SavedState
  <2>3. rateReq' = [rateReq EXCEPT ![r] = s]
    BY <2>1
  <2> HIDE DEF b
  <2>4. s.at = "adding" /\ s.cur \in Entities /\ s.all
    BY <2>2 DEF RateStates
  <2>5. todo \ {e} \in SUBSET Entities
    OBVIOUS
  <2>6. s \in RateStates
    BY <2>2, <2>5 DEF RateStates
  <2> HIDE DEF s
  <2> QED
    BY <2>3, <2>4, <2>6 DEF Moves
<1> QED
  BY <1>2, <1>3

LEMMA PutInv ==
  ASSUME RatingInv, AccountInv, UNCHANGED accountVars, NEW r \in RateRequests, Put(r)
  PROVE  RatingInv'
<1> DEFINE job == rateReq[r]
<1>1. /\ job \in RateStates /\ Summed(r) /\ job.at = "putting" /\ RateTypes /\ NoMean \in Means
      /\ ratings' = ratings /\ revoters' = revoters
  BY SumIsMean DEF RatingInv, RateTypes, Put
<1>2. /\ entity' = [entity EXCEPT ![job.cur] = Weighed(job.total, job.mean)]
      /\ outdated' = IF job.stale THEN outdated \cup {job.cur} ELSE outdated \ {job.cur}
      /\ IF job.all THEN NextEntity(job, job.todo, r)
                    ELSE rateReq' = [rateReq EXCEPT ![r] = Saved(job, "comparing")]
  BY DEF Put
<1>3. job.cur \in Entities /\ (job.all \/ job.cur = job.on)
      /\ \A e \in Entities : ~job.stale /\ job.cur = e => job.total = SumOn(e)
  BY <1>1 DEF Summed
<1>4. PICK s \in RateStates :
        Moves(r, s) /\ (s.at \in {"done", "comparing"} \/ (s.at = "adding" /\ s.cur \in Entities /\ s.all))
  <2>1. CASE job.all
    <3>1. job.todo \in SUBSET Entities
      BY <1>1 DEF RateStates
    <3> QED
      BY <3>1, <1>1, <1>2, <2>1, NextEntityMoves
  <2>2. CASE ~job.all
    BY <1>1, <1>2, <2>2, SavedState DEF Moves
  <2> QED
    BY <2>1, <2>2
<1>5. /\ rateReq'[r] = s /\ \A q \in RateRequests : q # r => rateReq'[q] = rateReq[q]
      /\ \A e : SumOn(e)' = SumOn(e)
  BY <1>1, <1>4, OthersStay
<1>6. Weighed(job.total, job.mean) \in [total : Means, mean : Means] /\ Weighed(job.total, job.mean).total = job.total
  BY <1>1 DEF Weighed, RateStates
<1>7. /\ entity' \in [Entities -> [total : Means, mean : Means]] /\ entity'[job.cur].total = job.total
      /\ \A e \in Entities : e # job.cur => entity'[e] = entity[e]
  BY <1>1, <1>2, <1>3, <1>6 DEF RateTypes
<1>8. Summed(r)'
  BY <1>4, <1>5 DEF Summed
<1>9. ASSUME NEW e \in Entities PROVE Current(e)'
  <2>1. CASE e = job.cur
    <3>1. CASE job.stale
      BY <3>1, <2>1, <1>2 DEF Current
    <3>2. CASE ~job.stale
      BY <3>2, <2>1, <1>3, <1>5, <1>7 DEF Current
    <3> QED
      BY <3>1, <3>2
  <2>2. CASE e # job.cur
    <3>1. ~Writing(r, e)
      BY <2>2, <1>3 DEF Writing
    <3>2. CASE e \in outdated \/ entity[e].total = SumOn(e)
      BY <3>2, <2>2, <1>2, <1>5, <1>7 DEF Current
    <3>3. ASSUME NEW q \in RateRequests, Writing(q, e) PROVE Current(e)'
      <4>1. Writing(q, e)'
        BY <3>1, <3>3, <1>5 DEF Writing
      <4> QED
        BY <4>1 DEF Current
    <3> QED
      BY <3>2, <3>3 DEF RatingInv, Current
  <2> QED
    BY <2>1, <2>2
<1>10. Noting
  BY StayingNotes
<1> QED
  BY <1>1, <1>4, <1>7, <1>8, <1>9, <1>10, OnwardInv

LEMMA CompareInv ==
  ASSUME RatingInv, AccountInv, UNCHANGED accountVars, NEW r \in RateRequests, Compare(r)
  PROVE  RatingInv'
<1>1. /\ rateReq[r] \in RateStates /\ rateReq[r].at = "comparing" /\ RateTypes /\ NoMean \in Means
      /\ UNCHANGED <<ratings, entity, outdated, revoters>>
  BY SumIsMean DEF RatingInv, RateTypes, Compare
<1>2. PICK all \in BOOLEAN : rateReq' = [rateReq EXCEPT ![r] = RateRequest("done")]
                          \/ rateReq' = [rateReq EXCEPT ![r] = [rateReq[r] EXCEPT !.at = "keeping", !.all = all]]
  BY DEF Compare
<1>3. RateRequest("done") \in RateStates /\ RateRequest("done").at = "done"
  BY <1>1, RequestState
<1>4. [rateReq[r] EXCEPT !.at = "keeping", !.all = all] \in RateStates
      /\ [rateReq[r] EXCEPT !.at = "keeping", !.all = all].at = "keeping"
  BY <1>1 DEF RateStates
<1>5. PICK s \in RateStates : Moves(r, s) /\ s.at \in {"done", "keeping"}
  BY <1>2, <1>3, <1>4 DEF Moves
<1>6. rateReq'[r] = s
  BY <1>1, <1>5, MovesTo
<1>7. Summed(r)' /\ \A e \in Entities : Writing(r, e) => Writing(r, e)'
  BY <1>1, <1>5, <1>6 DEF Summed, Writing
<1>8. Noting
  BY StayingNotes
<1> QED
  BY <1>1, <1>5, <1>7, <1>8, QuietInv

LEMMA KeepMeanInv ==
  ASSUME RatingInv, AccountInv, UNCHANGED accountVars, NEW r \in RateRequests, KeepMean(r)
  PROVE  RatingInv'
<1>1. /\ rateReq[r] \in RateStates /\ rateReq[r].at = "keeping" /\ RateTypes /\ NoMean \in Means
      /\ UNCHANGED <<ratings, entity, outdated, revoters>>
  BY SumIsMean DEF RatingInv, RateTypes, KeepMean
<1>2. [rateReq[r] EXCEPT !.at = "listing"] \in RateStates /\ [rateReq[r] EXCEPT !.at = "listing"].at = "listing"
      /\ RateRequest("done") \in RateStates /\ RateRequest("done").at = "done"
  BY <1>1, RequestState DEF RateStates
<1>3. PICK s \in RateStates : Moves(r, s) /\ s.at \in {"done", "listing"}
  BY <1>2 DEF Moves, KeepMean
<1>4. rateReq'[r] = s
  BY <1>1, <1>3, MovesTo
<1>5. Summed(r)' /\ \A e \in Entities : Writing(r, e) => Writing(r, e)'
  BY <1>1, <1>3, <1>4 DEF Summed, Writing
<1>6. Noting
  BY StayingNotes
<1> QED
  BY <1>1, <1>3, <1>5, <1>6, QuietInv

LEMMA ListRatedInv ==
  ASSUME RatingInv, AccountInv, UNCHANGED accountVars, NEW r \in RateRequests, ListRated(r)
  PROVE  RatingInv'
<1>1. /\ rateReq[r] \in RateStates /\ rateReq[r].at = "listing" /\ RateTypes
      /\ UNCHANGED <<ratings, entity, outdated, revoters>>
  BY DEF RatingInv, RateTypes, ListRated
<1>2. NextEntity(rateReq[r], {e \in SameModel(rateReq[r].on) : entity[e].total.count > 0}, r)
  BY DEF ListRated
<1>3. {e \in SameModel(rateReq[r].on) : entity[e].total.count > 0} \in SUBSET Entities
  BY DEF SameModel
<1>4. PICK s \in RateStates : Moves(r, s) /\ (s.at = "done" \/ (s.at = "adding" /\ s.cur \in Entities /\ s.all))
  BY <1>1, <1>2, <1>3, NextEntityMoves
<1>5. rateReq'[r] = s
  BY <1>1, <1>4, MovesTo
<1>6. Summed(r)' /\ \A e \in Entities : Writing(r, e) => Writing(r, e)'
  BY <1>1, <1>4, <1>5 DEF Summed, Writing
<1>7. Noting
  BY StayingNotes
<1> QED
  BY <1>1, <1>4, <1>6, <1>7, QuietInv

LEMMA RateFailsInv ==
  ASSUME RatingInv, AccountInv, UNCHANGED accountVars, NEW r \in RateRequests, RateFails(r)
  PROVE  RatingInv'
<1>1. /\ RateTypes /\ NoMean \in Means /\ UNCHANGED <<ratings, entity, revoters>>
  BY SumIsMean DEF RatingInv, RateTypes, RateFails
<1>2. RateRequest("done") \in RateStates /\ RateRequest("done").at = "done"
  BY <1>1, RequestState
<1>3. Moves(r, RateRequest("done"))
  BY <1>2 DEF RateFails, Moves
<1>4. rateReq'[r] = RateRequest("done")
  BY <1>1, <1>3, MovesTo
<1>5. Summed(r)'
  BY <1>2, <1>4 DEF Summed
<1>6. outdated \subseteq outdated' /\ \A e \in Entities : Writing(r, e) => e \in outdated'
  BY DEF RateFails, Writing
<1>7. Noting
  BY StayingNotes
<1> QED
  BY <1>1, <1>2, <1>3, <1>5, <1>6, <1>7, QuietInv

\* A request that begins to save: it has voted if there was no rating, or has found one.
LEMMA BeginsInv ==
  ASSUME RatingInv, AccountInv, Noting, NEW r \in RateRequests, NEW s, Moves(r, s),
         rateReq[r].at = "idle", UNCHANGED <<ratings, entity, outdated>>, revoters \subseteq revoters',
         s.at = "saving", s.on \in Entities, s.by \in Users, s.kind # "delete" => s.value \in Values,
         s.kind # "create" => s.doc \in RatingsBy(s.by, s.on),
         s.kind = "create" =>
           /\ RatingsBy(s.by, s.on) = {} /\ Known(s.by)'
           /\ (\E q \in RateRequests : Voting(q, s.by, s.on)) => s.by \in revoters'
  PROVE  RatingInv'
<1>1. /\ rateReq' \in [RateRequests -> RateStates] /\ rateReq'[r] = s
      /\ \A q \in RateRequests : q # r => rateReq'[q] = rateReq[q]
      /\ \A e : SumOn(e)' = SumOn(e) /\ \A u : RatingsBy(u, e)' = RatingsBy(u, e)
      /\ \A q \in RateRequests : q # r => Asked(q)' /\ Summed(q)'
  BY OthersStay
<1>2. RateTypes'
  BY <1>1 DEF RatingInv, RateTypes
<1>3. Asked(r)'
  <2>1. ratings[r] = None
    BY DEF RatingInv, Asked
  <2>2. ASSUME s.kind # "create"
        PROVE  /\ s.doc \in RatingId /\ ratings[s.doc] # None /\ ratings[s.doc].on = s.on
               /\ s.doc \in RateRequests => s.doc # r /\ rateReq[s.doc].at \notin {"idle", "saving"}
    BY <2>1, <2>2 DEF RatingInv, Asked, RatingsBy, Given
  <2>3. s.kind # "create" /\ s.doc \in RateRequests => rateReq'[s.doc].at \notin {"idle", "saving"}
    BY <2>2, <1>1
  <2> QED
    BY <2>1, <2>2, <2>3, <1>1 DEF Asked
<1>4. Summed(r)'
  BY <1>1 DEF Summed
<1>5. ASSUME NEW e \in Entities PROVE Current(e)'
  <2>1. \A q \in RateRequests : Writing(q, e) => Writing(q, e)'
    BY <1>1 DEF Writing
  <2> QED
    BY <2>1, <1>1 DEF RatingInv, Current
<1>6. Keepers' = Keepers /\ \A u : Known(u) => Known(u)'
  BY NotingKeeps
<1>7. ASSUME NEW u \in Users, NEW e \in Entities PROVE OneRating(u, e)'
  <2>1. CASE s.kind = "create" /\ s.by = u /\ s.on = e
    <3>1. \A q \in RateRequests : u \notin revoters' /\ Voting(q, u, e)' => q = r
      BY <2>1, <1>1 DEF Voting
    <3>2. RatingsBy(u, e)' = {}
      BY <2>1, <1>1
    <3> QED
      BY <3>1, <3>2 DEF OneRating
  <2>2. CASE ~(s.kind = "create" /\ s.by = u /\ s.on = e)
    <3>1. \A q \in RateRequests : Voting(q, u, e)' => Voting(q, u, e)
      BY <2>2, <1>1 DEF Voting
    <3> QED
      BY <3>1, <1>1, <1>6 DEF RatingInv, OneRating
  <2> QED
    BY <2>1, <2>2
<1>8. RatersKnown'
  <2>1. Given' = Given
    BY DEF Given
  <2>2. \A i \in Given' : Known(ratings[i].from)'
    BY <2>1, <1>6 DEF RatingInv, RatersKnown
  <2>3. ASSUME NEW q \in RateRequests, rateReq'[q].at = "saving", rateReq'[q].kind = "create", NEW u,
               rateReq'[q].by = u
        PROVE  Known(u)'
    <3>1. CASE q = r
      BY <3>1, <2>3, <1>1
    <3>2. CASE q # r
      BY <3>2, <2>3, <1>1, <1>6 DEF RatingInv, RatersKnown
    <3> QED
      BY <3>1, <3>2
  <2> QED
    BY <2>2, <2>3 DEF RatersKnown
<1> QED
  BY <1>1, <1>2, <1>3, <1>4, <1>5, <1>7, <1>8 DEF RatingInv

LEMMA FindRatingInv ==
  ASSUME RatingInv, AccountInv, NEW r \in RateRequests, NEW kind \in {"create", "update", "delete"},
         NEW u \in Users, NEW e \in Entities, NEW v \in Values, FindRating(r, kind, u, e, v)
  PROVE  RatingInv' /\ Noting
<1> DEFINE found == RatingsBy(u, e)
           begun == [RateRequest("saving") EXCEPT !.kind = kind, !.by = u, !.on = e,
                                                  !.value = IF kind = "delete" THEN 0 ELSE v]
<1>1. /\ RateTypes /\ NoMean \in Means /\ rateReq[r].at = "idle"
      /\ UNCHANGED <<ratings, entity, outdated>> /\ Admit(u, kind = "create" /\ found = {})
  BY SumIsMean DEF RatingInv, RateTypes, FindRating
<1>2. (kind = "create" /\ found = {}) \in BOOLEAN
  OBVIOUS
<1>3. Noting /\ (kind = "create" /\ found = {} => Known(u)')
  BY <1>1, <1>2, AdmitNotes
<1>4. /\ begun \in RateStates /\ begun.at = "saving" /\ begun.kind = kind /\ begun.by = u /\ begun.on = e
      /\ begun.value = IF kind = "delete" THEN 0 ELSE v
  BY <1>1 DEF RateRequest, RateStates
<1>5. CASE /\ kind = "create" /\ found = {}
           /\ rateReq' = [rateReq EXCEPT ![r] = begun]
           /\ revoters' = IF \A q \in RateRequests : ~Voting(q, u, e) THEN revoters ELSE revoters \cup {u}
  <2>1. Moves(r, begun)
    BY <1>4, <1>5 DEF Moves
  <2>2. revoters \subseteq revoters' /\ ((\E q \in RateRequests : Voting(q, u, e)) => u \in revoters')
    BY <1>5
  <2> HIDE DEF begun
  <2> QED
    BY <1>1, <1>3, <1>4, <1>5, <2>1, <2>2, BeginsInv
<1>6. CASE /\ kind # "create" /\ revoters' = revoters
           /\ \E i \in found : rateReq' = [rateReq EXCEPT ![r] = [begun EXCEPT !.doc = i]]
  <2>1. PICK i \in found : rateReq' = [rateReq EXCEPT ![r] = [begun EXCEPT !.doc = i]]
    BY <1>6
  <2> DEFINE s == [begun EXCEPT !.doc = i]
  <2> HIDE DEF begun
  <2>2. i \in RatingId
    BY DEF RatingsBy, Given
  <2>3. /\ s \in RateStates /\ s.at = "saving" /\ s.kind = kind /\ s.by = u /\ s.on = e /\ s.doc = i
        /\ s.value = IF kind = "delete" THEN 0 ELSE v
    BY <1>4, <2>2 DEF RateStates
  <2>4. Moves(r, s)
    BY <2>1, <2>3 DEF Moves
  <2> HIDE DEF s
  <2> QED
    BY <1>1, <1>3, <1>6, <2>3, <2>4, BeginsInv
<1>7. CASE rateReq' = [rateReq EXCEPT ![r] = RateRequest("done")] /\ revoters' = revoters
  <2>1. RateRequest("done") \in RateStates /\ RateRequest("done").at = "done"
    BY <1>1, RequestState
  <2>2. Moves(r, RateRequest("done"))
    BY <1>7, <2>1 DEF Moves
  <2>3. rateReq'[r] = RateRequest("done")
    BY <1>1, <2>2, MovesTo
  <2>4. Summed(r)' /\ \A f \in Entities : ~Writing(r, f)
    BY <2>1, <2>3, <1>1 DEF Summed, Writing
  <2> QED
    BY <1>1, <1>3, <1>7, <2>1, <2>2, <2>4, QuietInv
<1> QED
  <2>1. {q \in RateRequests : rateReq[q].at = "saving" /\ rateReq[q].kind = "create"
                               /\ rateReq[q].by = u /\ rateReq[q].on = e} = {}
          <=> \A q \in RateRequests : ~Voting(q, u, e)
    BY DEF Voting
  <2> QED
    BY <2>1, <1>3, <1>5, <1>6, <1>7 DEF FindRating

\* A rating comes, changes or goes.  d is its name, x what it becomes.
Changes(r, d, x) ==
  /\ d \in RatingId /\ x \in Docs \cup {None}
  /\ ratings' = [ratings EXCEPT ![d] = x]
  /\ x # None => x.on = rateReq[r].on
  /\ ratings[d] # None => ratings[d].on = rateReq[r].on
  /\ d \in RateRequests /\ d # r => rateReq[d].at \notin {"idle", "saving"}
  /\ IF rateReq[r].kind = "create" THEN d = r /\ ratings[d] = None /\ x # None /\ x.from = rateReq[r].by
     ELSE x # None => ratings[d] # None /\ x.from = ratings[d].from

LEMMA SavingChanges ==
  ASSUME RatingInv, NEW r \in RateRequests, SaveRating(r), ~(rateReq[r].kind = "update" /\ ratings[rateReq[r].doc] = None)
  PROVE  \E d, x : Changes(r, d, x)
<1>1. /\ ratings \in [RatingId -> Docs \cup {None}] /\ rateReq[r] \in RateStates /\ rateReq[r].at = "saving"
      /\ Asked(r) /\ r \in RatingId
  BY DEF RatingInv, RateTypes, SaveRating, RatingId
<1>2. CASE rateReq[r].kind = "create"
  <2> DEFINE x == Rating(rateReq[r].by, rateReq[r].on, rateReq[r].value)
  <2>1. x \in Docs /\ x # None /\ x.on = rateReq[r].on /\ x.from = rateReq[r].by
    BY <1>1, <1>2, RatingAssumption DEF Asked, Rating, Docs
  <2>2. ratings' = [ratings EXCEPT ![r] = x]
    BY <1>2 DEF SaveRating
  <2> HIDE DEF x
  <2>3. Changes(r, r, x)
    BY <1>1, <1>2, <2>1, <2>2 DEF Changes, Asked
  <2> QED
    BY <2>3
<1>3. CASE rateReq[r].kind = "update"
  <2> DEFINE d == rateReq[r].doc
             x == [ratings[d] EXCEPT !.value = rateReq[r].value]
  <2>1. d \in RatingId /\ ratings[d] \in Docs /\ ratings[d] # None /\ rateReq[r].value \in Values
    BY <1>1, <1>3 DEF Asked
  <2>2. ratings' = [ratings EXCEPT ![d] = x]
    BY <1>3 DEF SaveRating
  <2>3. x \in Docs /\ x # None /\ x.on = ratings[d].on /\ x.from = ratings[d].from
    BY <2>1, RatingAssumption DEF Docs
  <2>4. Changes(r, d, x)
    BY <1>1, <1>3, <2>1, <2>2, <2>3 DEF Changes, Asked
  <2> QED
    BY <2>4
<1>4. CASE rateReq[r].kind = "delete"
  <2>1. ratings' = [ratings EXCEPT ![rateReq[r].doc] = None]
    BY <1>4 DEF SaveRating
  <2>2. Changes(r, rateReq[r].doc, None)
    BY <1>1, <1>4, <2>1 DEF Changes, Asked
  <2> QED
    BY <2>2
<1> QED
  BY <1>1, <1>2, <1>3, <1>4 DEF RateStates

\* Those who have read the ratings on the entity are out of date; the others stay.
LEMMA OvertakenStates ==
  ASSUME RateTypes, NEW r \in RateRequests, NoMean \in Means,
         rateReq' = Overtaken(rateReq[r].on, [rateReq EXCEPT ![r] = Saved(rateReq[r], "averaging")])
  PROVE  /\ rateReq' \in [RateRequests -> RateStates]
         /\ rateReq'[r].at = "averaging" /\ rateReq'[r].on = rateReq[r].on /\ ~rateReq'[r].all
         /\ \A q \in RateRequests : q # r =>
              /\ rateReq'[q].at = rateReq[q].at /\ rateReq'[q].kind = rateReq[q].kind
              /\ rateReq'[q].by = rateReq[q].by /\ rateReq'[q].on = rateReq[q].on
              /\ rateReq'[q].doc = rateReq[q].doc /\ rateReq'[q].value = rateReq[q].value
              /\ rateReq'[q].cur = rateReq[q].cur /\ rateReq'[q].all = rateReq[q].all
              /\ rateReq'[q].total = rateReq[q].total
              /\ ~rateReq'[q].stale =>
                   ~rateReq[q].stale /\ ~(rateReq[q].at = "putting" /\ rateReq[q].cur = rateReq[r].on)
<1> DEFINE b == Saved(rateReq[r], "averaging")
<1>1. b \in RateStates /\ b.at = "averaging" /\ b.on = rateReq[r].on /\ ~b.all
  BY SavedState DEF RateTypes
<1>2. \A q \in RateRequests : rateReq'[q] =
        IF q = r THEN [b EXCEPT !.stale = @ \/ (b.at = "putting" /\ b.cur = rateReq[r].on)]
        ELSE [rateReq[q] EXCEPT !.stale = @ \/ (rateReq[q].at = "putting" /\ rateReq[q].cur = rateReq[r].on)]
  BY DEF Overtaken, RateTypes
<1>3. DOMAIN rateReq' = RateRequests /\ rateReq' = [q \in RateRequests |-> rateReq'[q]]
  BY DEF Overtaken
<1> HIDE DEF b
<1>4. /\ rateReq'[r] \in RateStates
      /\ rateReq'[r].at = "averaging" /\ rateReq'[r].on = rateReq[r].on /\ ~rateReq'[r].all
  <2>1. PICK old \in BOOLEAN : rateReq'[r] = [b EXCEPT !.stale = old]
    BY <1>2
  <2> QED
    BY <1>1, <2>1 DEF RateStates
<1>5. ASSUME NEW q \in RateRequests, q # r
      PROVE  /\ rateReq'[q] \in RateStates
             /\ rateReq'[q].at = rateReq[q].at /\ rateReq'[q].kind = rateReq[q].kind
             /\ rateReq'[q].by = rateReq[q].by /\ rateReq'[q].on = rateReq[q].on
             /\ rateReq'[q].doc = rateReq[q].doc /\ rateReq'[q].value = rateReq[q].value
             /\ rateReq'[q].cur = rateReq[q].cur /\ rateReq'[q].all = rateReq[q].all
             /\ rateReq'[q].total = rateReq[q].total
             /\ ~rateReq'[q].stale =>
                  ~rateReq[q].stale /\ ~(rateReq[q].at = "putting" /\ rateReq[q].cur = rateReq[r].on)
  <2>1. rateReq[q] \in RateStates
    BY DEF RateTypes
  <2>2. PICK old \in BOOLEAN : rateReq'[q] = [rateReq[q] EXCEPT !.stale = old]
          /\ (old <=> rateReq[q].stale \/ (rateReq[q].at = "putting" /\ rateReq[q].cur = rateReq[r].on))
    BY <1>2, <1>5
  <2> QED
    BY <2>1, <2>2 DEF RateStates
<1> QED
  BY <1>3, <1>4, <1>5

LEMMA SaveRatingInv ==
  ASSUME RatingInv, AccountInv, UNCHANGED accountVars, NEW r \in RateRequests, SaveRating(r)
  PROVE  RatingInv'
<1> DEFINE on == rateReq[r].on
<1>1. /\ RateTypes /\ NoMean \in Means /\ UNCHANGED <<entity, outdated, revoters>>
      /\ rateReq[r].at = "saving" /\ Asked(r)
  BY SumIsMean DEF RatingInv, RateTypes, SaveRating
<1>2. CASE rateReq[r].kind = "update" /\ ratings[rateReq[r].doc] = None
  <2>1. rateReq' = [rateReq EXCEPT ![r] = RateRequest("done")] /\ ratings' = ratings
    BY <1>2 DEF SaveRating
  <2>2. RateRequest("done") \in RateStates /\ RateRequest("done").at = "done"
    BY <1>1, RequestState
  <2>3. Moves(r, RateRequest("done"))
    BY <2>1, <2>2 DEF Moves
  <2>4. rateReq'[r] = RateRequest("done")
    BY <1>1, <2>3, MovesTo
  <2>5. Summed(r)' /\ \A e \in Entities : ~Writing(r, e)
    BY <2>2, <2>4, <1>1 DEF Summed, Writing
  <2>6. Noting
    BY StayingNotes
  <2> QED
    BY <1>1, <2>1, <2>2, <2>3, <2>5, <2>6, QuietInv
<1>3. CASE ~(rateReq[r].kind = "update" /\ ratings[rateReq[r].doc] = None)
  <2>1. PICK d, x : Changes(r, d, x)
    BY <1>3, SavingChanges
  <2>2. /\ d \in RatingId /\ x \in Docs \cup {None}
        /\ \A i \in RatingId : ratings'[i] = IF i = d THEN x ELSE ratings[i]
        /\ ratings' \in [RatingId -> Docs \cup {None}]
    BY <2>1, <1>1 DEF Changes, RateTypes
  <2>3. rateReq' = Overtaken(on, [rateReq EXCEPT ![r] = Saved(rateReq[r], "averaging")])
    BY <1>3 DEF SaveRating
  <2>4. /\ rateReq' \in [RateRequests -> RateStates]
        /\ rateReq'[r].at = "averaging" /\ rateReq'[r].on = on /\ ~rateReq'[r].all
        /\ \A q \in RateRequests : q # r =>
              /\ rateReq'[q].at = rateReq[q].at /\ rateReq'[q].kind = rateReq[q].kind
              /\ rateReq'[q].by = rateReq[q].by /\ rateReq'[q].on = rateReq[q].on
              /\ rateReq'[q].doc = rateReq[q].doc /\ rateReq'[q].value = rateReq[q].value
              /\ rateReq'[q].cur = rateReq[q].cur /\ rateReq'[q].all = rateReq[q].all
              /\ rateReq'[q].total = rateReq[q].total
              /\ ~rateReq'[q].stale => ~rateReq[q].stale /\ ~(rateReq[q].at = "putting" /\ rateReq[q].cur = on)
    BY <1>1, <2>3, OvertakenStates
  <2>5. on \in Entities /\ rateReq[r].by \in Users
    BY <1>1 DEF Asked
  <2>6. RateTypes'
    BY <1>1, <2>2, <2>4 DEF RateTypes
  <2>7. ASSUME NEW e \in Entities, e # on PROVE SumOn(e)' = SumOn(e)
    <3>1. RatingsOn({e})' = RatingsOn({e})
      BY <2>1, <2>2, <2>7 DEF Changes, RatingsOn, Given
    <3>2. \A i \in RatingsOn({e}) : ratings'[i].value = ratings[i].value
      BY <2>1, <2>2, <2>7 DEF Changes, RatingsOn, Given
    <3> QED
      BY <3>1, <3>2, SumStays
  <2>8. ASSUME NEW q \in RateRequests PROVE Asked(q)'
    <3>1. CASE q = r
      BY <3>1, <2>4 DEF Asked
    <3>2. CASE q # r
      <4>1. Asked(q)
        BY DEF RatingInv
      <4>2. rateReq'[q].at \in {"idle", "saving"} => ratings'[q] = None
        BY <3>2, <4>1, <2>1, <2>2, <2>4 DEF Asked, Changes, RatingId
      <4>3. ASSUME rateReq[q].at = "saving", rateReq[q].kind # "create", NEW c, c = rateReq[q].doc
            PROVE  /\ c \in RatingId
                   /\ c \in RateRequests => rateReq'[c].at \notin {"idle", "saving"}
                   /\ ratings'[c] # None => ratings'[c].on = rateReq[q].on
        <5>1. /\ c \in RatingId /\ (c \in RateRequests => rateReq[c].at \notin {"idle", "saving"})
              /\ ratings[c] # None => ratings[c].on = rateReq[q].on
          BY <4>1, <4>3 DEF Asked
        <5>2. c \in RateRequests => c # r /\ rateReq'[c].at \notin {"idle", "saving"}
          BY <5>1, <1>1, <2>4
        <5>3. CASE c # d
          BY <5>1, <5>2, <5>3, <2>2
        <5>4. CASE c = d
          BY <5>1, <5>2, <5>4, <2>1, <2>2 DEF Changes
        <5> QED
          BY <5>3, <5>4
      <4> QED
        BY <3>2, <4>1, <4>2, <4>3, <2>4 DEF Asked
    <3> QED
      BY <3>1, <3>2
  <2>9. ASSUME NEW q \in RateRequests PROVE Summed(q)'
    <3>1. CASE q = r
      BY <3>1, <2>4, <2>5 DEF Summed
    <3>2. CASE q # r
      <4>1. Summed(q)
        BY DEF RatingInv
      <4> QED
        BY <3>2, <4>1, <2>4, <2>7 DEF Summed
    <3> QED
      BY <3>1, <3>2
  <2>10. ASSUME NEW e \in Entities PROVE Current(e)'
    <3>1. CASE e = on
      <4>1. Writing(r, e)'
        BY <3>1, <2>4 DEF Writing
      <4> QED
        BY <4>1 DEF Current
    <3>2. CASE e # on
      <4>1. \A q \in RateRequests : Writing(q, e) => Writing(q, e)'
        BY <1>1, <2>4 DEF Writing
      <4> QED
        BY <4>1, <3>2, <2>7, <1>1 DEF RatingInv, Current
    <3> QED
      BY <3>1, <3>2
  <2>11. Keepers' = Keepers /\ \A u : Known(u) => Known(u)'
    BY StayingNotes, NotingKeeps
  <2>12. ASSUME NEW u \in Users, NEW e \in Entities PROVE OneRating(u, e)'
    <3>1. OneRating(u, e)
      BY DEF RatingInv
    <3>2. \A q \in RateRequests : Voting(q, u, e)' => q # r /\ Voting(q, u, e)
      BY <2>4 DEF Voting
    <3>3. CASE Voting(r, u, e)
      <4>1. RatingsBy(u, e)' \subseteq RatingsBy(u, e) \cup {r}
        BY <3>3, <2>1, <2>2 DEF Voting, Changes, RatingsBy, Given
      <4> QED
        BY <4>1, <3>1, <3>2, <3>3, <2>11, <1>1 DEF OneRating
    <3>4. CASE ~Voting(r, u, e)
      <4>1. RatingsBy(u, e)' \subseteq RatingsBy(u, e)
        <5>1. ASSUME NEW i \in RatingsBy(u, e)' PROVE i \in RatingsBy(u, e)
          <6>1. CASE i # d
            BY <5>1, <6>1, <2>2 DEF RatingsBy, Given
          <6>2. CASE i = d
            <7>1. x # None /\ x.from = u /\ x.on = e
              BY <5>1, <6>2, <2>2 DEF RatingsBy, Given
            <7>2. rateReq[r].kind # "create"
              BY <7>1, <3>4, <1>1, <2>1 DEF Changes, Voting
            <7> QED
              BY <7>1, <7>2, <6>2, <2>1 DEF Changes, RatingsBy, Given
          <6> QED
            BY <6>1, <6>2
        <5> QED
          BY <5>1
      <4> QED
        BY <4>1, <3>1, <3>2, <2>11, <1>1 DEF OneRating
    <3> QED
      BY <3>3, <3>4
  <2>13. RatersKnown'
    <3>1. ASSUME NEW i \in Given', NEW u, ratings'[i].from = u PROVE Known(u)'
      <4>1. CASE i # d
        BY <3>1, <4>1, <2>2, <2>11 DEF RatingInv, RatersKnown, Given
      <4>2. CASE i = d
        <5>1. CASE rateReq[r].kind = "create"
          BY <3>1, <4>2, <5>1, <1>1, <2>1, <2>2, <2>11 DEF RatingInv, RatersKnown, Changes, Given
        <5>2. CASE rateReq[r].kind # "create"
          BY <3>1, <4>2, <5>2, <2>1, <2>2, <2>11 DEF RatingInv, RatersKnown, Changes, Given
        <5> QED
          BY <5>1, <5>2
      <4> QED
        BY <4>1, <4>2
    <3>2. \A q \in RateRequests : rateReq'[q].at = "saving" =>
            rateReq[q].at = "saving" /\ rateReq'[q].kind = rateReq[q].kind /\ rateReq'[q].by = rateReq[q].by
      BY <2>4
    <3> QED
      BY <3>1, <3>2, <2>11 DEF RatingInv, RatersKnown
  <2> QED
    BY <2>6, <2>8, <2>9, <2>10, <2>12, <2>13 DEF RatingInv
<1> QED
  BY <1>2, <1>3

\* The ratings of the one become the other's: what they add up to stays, and what is known of
\* the votes of anybody else.
LEMMA MergeRatingsInv ==
  ASSUME AccountInv, RatingInv, NEW m \in Merges, NEW keep \in Users, NEW gone \in Users,
         MergeRatings(m, keep, gone), AccountInv'
  PROVE  RatingInv'
<1>1. /\ RateTypes /\ merge[m].at = "idle" /\ merge[m].keep = None /\ keep # gone
      /\ keep \in users /\ ~Merging(keep) /\ users' = users /\ UNCHANGED <<entity, rateReq, outdated, revoters>>
      /\ \A n \in Merges : merge'[n] = IF n = m THEN [at |-> "stars", keep |-> keep, gone |-> gone] ELSE merge[n]
      /\ ghosts' = IF Saving(gone) THEN ghosts \cup {gone} ELSE ghosts
  BY DEF MergeRatings, BeginMerge, AccountInv, RatingInv
<1>2. /\ \A i \in RatingId : ratings'[i] = IF i \in Given /\ ratings[i].from = gone
                                           THEN [ratings[i] EXCEPT !.from = keep] ELSE ratings[i]
      /\ ratings' = [i \in RatingId |-> ratings'[i]]
  BY DEF MergeRatings
<1>3. ASSUME NEW i \in RatingId
      PROVE  /\ ratings'[i] \in Docs \cup {None} /\ (ratings'[i] = None <=> ratings[i] = None)
             /\ ratings[i] # None =>
                  /\ ratings'[i].on = ratings[i].on /\ ratings'[i].value = ratings[i].value
                  /\ ratings'[i].from = IF ratings[i].from = gone THEN keep ELSE ratings[i].from
  <2>1. CASE ratings[i] = None
    BY <2>1, <1>2 DEF Given
  <2>2. CASE ratings[i] # None
    <3>1. ratings[i] \in Docs
      BY <2>2, <1>1 DEF RateTypes
    <3>2. [ratings[i] EXCEPT !.from = keep] \in Docs
      BY <3>1 DEF Docs
    <3> QED
      BY <2>2, <3>1, <3>2, <1>2, RatingAssumption DEF Given, Docs
  <2> QED
    BY <2>1, <2>2
<1>4. Given' = Given /\ Given \subseteq RatingId
  BY <1>3 DEF Given
<1>5. ASSUME NEW e PROVE SumOn(e)' = SumOn(e)
  <2>1. RatingsOn({e})' = RatingsOn({e}) /\ \A i \in RatingsOn({e}) : ratings'[i].value = ratings[i].value
    BY <1>3, <1>4 DEF RatingsOn, Given
  <2> QED
    BY <2>1, SumStays
<1>6. RateTypes'
  BY <1>1, <1>2, <1>3 DEF RateTypes
<1>7. ASSUME NEW r \in RateRequests PROVE Asked(r)' /\ Summed(r)'
  <2>1. Asked(r) /\ Summed(r) /\ r \in RatingId
    BY DEF RatingInv, RatingId
  <2>2. Asked(r)'
    BY <2>1, <1>1, <1>3 DEF Asked
  <2> QED
    BY <2>1, <2>2, <1>1, <1>5 DEF Summed
<1>8. \A e \in Entities : Current(e)'
  BY <1>1, <1>5 DEF RatingInv, Current, Writing
<1>9. keep \in Keepers' /\ Keepers \subseteq Keepers'
  BY <1>1, UserAssumption DEF Keepers
<1>10. ASSUME NEW u \in Users, NEW e \in Entities PROVE OneRating(u, e)'
  <2>1. u # keep => RatingsBy(u, e)' \subseteq RatingsBy(u, e)
    BY <1>3, <1>4 DEF RatingsBy, Given
  <2>2. \A r \in RateRequests : Voting(r, u, e)' <=> Voting(r, u, e)
    BY <1>1 DEF Voting
  <2> QED
    BY <2>1, <2>2, <1>1, <1>9 DEF RatingInv, OneRating
<1>11. Known(keep)' /\ \A u : u # gone /\ Known(u) => Known(u)'
  BY <1>1 DEF Known, Merging, MergeActive
<1>12. RatersKnown'
  <2>1. ASSUME NEW i \in Given', NEW u, ratings'[i].from = u PROVE Known(u)'
    BY <2>1, <1>1, <1>3, <1>4, <1>11 DEF RatingInv, RatersKnown, Given
  <2>2. ASSUME NEW r \in RateRequests, rateReq[r].at = "saving", rateReq[r].kind = "create", NEW u, rateReq[r].by = u
        PROVE  Known(u)'
    <3>1. CASE u = gone
      <4>1. Saving(gone)
        BY <2>2, <3>1 DEF Saving
      <4> QED
        BY <4>1, <3>1, <1>1 DEF Known
    <3>2. CASE u # gone
      BY <2>2, <3>2, <1>11 DEF RatingInv, RatersKnown
    <3> QED
      BY <3>1, <3>2
  <2> QED
    BY <2>1, <2>2, <1>1 DEF RatersKnown
<1> QED
  BY <1>6, <1>7, <1>8, <1>10, <1>12 DEF RatingInv

\* Steps that leave ratings and their requests alone.
LEMMA RatingsAside ==
  ASSUME RatingInv, UNCHANGED ratingVars, Keepers' = Keepers, \A u : Known(u) => Known(u)'
  PROVE  RatingInv'
<1>1. RateTypes'
  BY DEF RatingInv, RateTypes, ratingVars
<1>2. Given' = Given /\ (\A e : SumOn(e)' = SumOn(e)) /\ \A u, e : RatingsBy(u, e)' = RatingsBy(u, e)
  BY DEF ratingVars, Given, SumOn, Aggregate, RatingsOn, RatingsBy
<1>3. \A r \in RateRequests : Asked(r)' /\ Summed(r)'
  <2>1. \A r \in RateRequests : Asked(r)'
    BY DEF RatingInv, Asked, ratingVars
  <2>2. \A r \in RateRequests : Summed(r)'
    BY <1>2 DEF RatingInv, Summed, ratingVars
  <2> QED
    BY <2>1, <2>2
<1>4. \A e \in Entities : Current(e)'
  BY <1>2 DEF RatingInv, Current, Writing, ratingVars
<1>5. \A u \in Users, e \in Entities : OneRating(u, e)'
  BY <1>2 DEF RatingInv, OneRating, Voting, ratingVars
<1>6. RatersKnown'
  BY <1>2 DEF RatingInv, RatersKnown, ratingVars
<1> QED
  BY <1>1, <1>3, <1>4, <1>5, <1>6 DEF RatingInv

LEMMA RateStepInv ==
  ASSUME RatingInv, AccountInv, UNCHANGED accountVars, NEW r \in RateRequests, RateStep(r)
  PROVE  RatingInv'
BY SaveRatingInv, ReadMeanInv, AddUpInv, PutInv, CompareInv, KeepMeanInv, ListRatedInv, RateFailsInv DEF RateStep

-----------------------------------------------------------------------------
(***************************************************************************)
(* Stars.                                                                  *)
(***************************************************************************)
StarStates ==
  [at : {"idle", "starring", "unstarring", "bumping", "counting", "storing", "setting", "done"},
   kind : {"star", "unstar", "miss", "hit"}, by : Users \cup {None}, doc : StarId \cup {None},
   read : [Counter -> Int], raced : SUBSET Counter]

StarTypes ==
  /\ stars \in [StarId -> Users \cup {None}]
  /\ db \in [Counter -> Int]
  /\ counters \in [Counter -> Int \cup {None}]
  /\ stored \in BOOLEAN /\ drifted \in BOOLEAN /\ shifted \in SUBSET Counter
  /\ starReq \in [StarRequests -> StarStates]

\* What a request is about at each await; a star it creates has its name.  A response that
\* nobody has raced with has read the number of stars there are.
StarAsked(r) ==
  /\ starReq[r].at \in {"idle", "starring"} => stars[r] = None
  /\ starReq[r].at = "starring" => starReq[r].kind = "star" /\ starReq[r].by \in Users
  /\ starReq[r].at = "unstarring" => starReq[r].kind = "unstar" /\ starReq[r].doc \in StarId
  /\ starReq[r].at \in {"storing", "setting"} => starReq[r].kind = "miss"
  /\ StarActive(r) /\ starReq[r].kind = "miss" /\ "stars" \notin starReq[r].raced =>
       starReq[r].read["stars"] = db["stars"]

\* The requests of a kind that have not counted yet, or have counted in Redis alone.
Late(kind) == {r \in StarRequests : starReq[r].kind = kind /\ starReq[r].at \in {"bumping", "counting"}}
Halfway(kind) == {r \in StarRequests : starReq[r].kind = kind /\ starReq[r].at = "counting"}

CountsStars ==
  drifted \/ Cardinality(Starred) = db["stars"] + Cardinality(Late("star")) - Cardinality(Late("unstar"))

ShowsStars ==
  stored =>
    \/ "stars" \in shifted
    \/ \E r \in StarRequests : starReq[r].at = "setting"
    \/ /\ counters["stars"] # None
       /\ counters["stars"] = db["stars"] + Cardinality(Halfway("star")) - Cardinality(Halfway("unstar"))

Starring(r, u) == starReq[r].at = "starring" /\ starReq[r].by = u

OneStar(u) ==
  u \notin restarrers \cup Keepers =>
    /\ \A i, j \in StarsBy(u) : i = j
    /\ \A r \in StarRequests : Starring(r, u) => StarsBy(u) = {}
    /\ \A r, q \in StarRequests : Starring(r, u) /\ Starring(q, u) => r = q

StarrersKnown ==
  /\ \A i \in Starred : KnownByStars(stars[i])
  /\ \A r \in StarRequests : starReq[r].at = "starring" => Known(starReq[r].by)

StarInv ==
  /\ StarTypes
  /\ \A r \in StarRequests : StarAsked(r)
  /\ CountsStars /\ ShowsStars
  /\ \A u \in Users : OneStar(u)
  /\ StarrersKnown

StarMoves(r, s) == s \in StarStates /\ starReq' = [starReq EXCEPT ![r] = s]

\* The others stay where they are, whatever is noted of them.
OthersGo(r) ==
  /\ starReq' \in [StarRequests -> StarStates]
  /\ \A q \in StarRequests : q # r =>
       /\ starReq'[q].at = starReq[q].at /\ starReq'[q].kind = starReq[q].kind
       /\ starReq'[q].by = starReq[q].by /\ starReq'[q].doc = starReq[q].doc
       /\ starReq'[q].read = starReq[q].read /\ starReq[q].raced \subseteq starReq'[q].raced

LEMMA StarMovesTo ==
  ASSUME StarTypes, NEW r \in StarRequests, NEW s, StarMoves(r, s)
  PROVE  OthersGo(r) /\ starReq'[r] = s
BY DEF StarTypes, StarMoves, OthersGo

\* Whoever has read the counter has raced.
LEMMA Raced ==
  ASSUME StarTypes, NEW r \in StarRequests, NEW s \in StarStates, NEW c \in Counter,
         starReq' = Race(c, [starReq EXCEPT ![r] = s])
  PROVE  /\ OthersGo(r)
         /\ starReq'[r].at = s.at /\ starReq'[r].kind = s.kind /\ starReq'[r].by = s.by
         /\ starReq'[r].doc = s.doc /\ starReq'[r].read = s.read /\ s.raced \subseteq starReq'[r].raced
         /\ \A q \in StarRequests : starReq'[q].kind = "miss" => c \in starReq'[q].raced
<1> DEFINE before == [starReq EXCEPT ![r] = s]
<1>1. before \in [StarRequests -> StarStates] /\ before[r] = s /\ \A q \in StarRequests : q # r => before[q] = starReq[q]
  BY DEF StarTypes
<1>2. starReq' = [q \in StarRequests |->
                   IF before[q].kind = "miss" THEN [before[q] EXCEPT !.raced = @ \cup {c}] ELSE before[q]]
  BY DEF Race
<1> HIDE DEF before
<1>3. ASSUME NEW q \in StarRequests
      PROVE  /\ starReq'[q] \in StarStates
             /\ starReq'[q].at = before[q].at /\ starReq'[q].kind = before[q].kind
             /\ starReq'[q].by = before[q].by /\ starReq'[q].doc = before[q].doc
             /\ starReq'[q].read = before[q].read /\ before[q].raced \subseteq starReq'[q].raced
             /\ starReq'[q].kind = "miss" => c \in starReq'[q].raced
  <2>1. before[q] \in StarStates
    BY <1>1
  <2>2. CASE before[q].kind = "miss"
    <3>1. before[q].raced \cup {c} \in SUBSET Counter
      BY <2>1 DEF StarStates
    <3>2. PICK raced \in SUBSET Counter :
            starReq'[q] = [before[q] EXCEPT !.raced = raced] /\ before[q].raced \subseteq raced /\ c \in raced
      BY <2>2, <3>1, <1>2
    <3> QED
      BY <2>1, <3>2 DEF StarStates
  <2>3. CASE before[q].kind # "miss"
    BY <2>1, <2>3, <1>2
  <2> QED
    BY <2>2, <2>3
<1> QED
  BY <1>1, <1>2, <1>3 DEF OthersGo

LEMMA StarRequestStates ==
  ASSUME StarTypes, NEW at \in {"idle", "starring", "unstarring", "bumping", "done"},
         NEW kind \in {"star", "unstar", "miss", "hit"}
  PROVE  /\ NoStarRequest(at) \in StarStates /\ NoStarRequest(at).at = at /\ NoStarRequest(at).kind = "star"
         /\ StarRequest(at, kind) \in StarStates /\ StarRequest(at, kind).at = at
         /\ StarRequest(at, kind).kind = kind /\ StarRequest(at, kind).read = db
BY DEF StarTypes, NoStarRequest, StarRequest, StarStates

LEMMA CardinalityMoves ==
  ASSUME NEW S, IsFiniteSet(S), NEW T, NEW x, T = S \cup {x} \/ T = S \ {x}
  PROVE  /\ IsFiniteSet(T) /\ Cardinality(S) \in Nat /\ Cardinality(T) \in Nat
         /\ x \in S /\ x \in T => Cardinality(T) = Cardinality(S)
         /\ x \notin S /\ x \notin T => Cardinality(T) = Cardinality(S)
         /\ x \notin S /\ x \in T => Cardinality(T) = Cardinality(S) + 1
         /\ x \in S /\ x \notin T => Cardinality(T) = Cardinality(S) - 1
<1>1. CASE T = S \cup {x}
  <2>1. x \in S => T = S
    BY <1>1
  <2> QED
    BY <1>1, <2>1, FS_AddElement, FS_CardinalityType
<1>2. CASE T = S \ {x}
  <2>1. x \notin S => T = S
    BY <1>2
  <2> QED
    BY <1>2, <2>1, FS_RemoveElement, FS_CardinalityType
<1> QED
  BY <1>1, <1>2

LEMMA LateFinite ==
  \A kind : /\ IsFiniteSet(Late(kind)) /\ IsFiniteSet(Halfway(kind))
           /\ Cardinality(Late(kind)) \in Nat /\ Cardinality(Halfway(kind)) \in Nat
<1>1. \A kind : Late(kind) \subseteq StarRequests /\ Halfway(kind) \subseteq StarRequests
  BY DEF Late, Halfway
<1> QED
  BY <1>1, StarAssumption, FS_Subset, FS_CardinalityType

LEMMA StarredFinite == IsFiniteSet(Starred) /\ Cardinality(Starred) \in Nat
<1>1. IsFiniteSet(StarId) /\ Starred \subseteq StarId
  BY StarAssumption, FS_Union DEF StarId, Starred
<1> QED
  BY <1>1, FS_Subset, FS_CardinalityType

\* What the step of one request does to the number of those who have not counted.
LEMMA LateMoves ==
  ASSUME NEW r \in StarRequests, OthersGo(r), NEW kind
  PROVE  /\ r \in Late(kind) /\ r \in Late(kind)' => Cardinality(Late(kind))' = Cardinality(Late(kind))
         /\ r \notin Late(kind) /\ r \notin Late(kind)' => Cardinality(Late(kind))' = Cardinality(Late(kind))
         /\ r \notin Late(kind) /\ r \in Late(kind)' => Cardinality(Late(kind))' = Cardinality(Late(kind)) + 1
         /\ r \in Late(kind) /\ r \notin Late(kind)' => Cardinality(Late(kind))' = Cardinality(Late(kind)) - 1
<1>1. Late(kind)' = Late(kind) \cup {r} \/ Late(kind)' = Late(kind) \ {r}
  BY DEF Late, OthersGo
<1>2. IsFiniteSet(Late(kind))
  BY LateFinite
<1> DEFINE T == Late(kind)'
<1>3. T = Late(kind) \cup {r} \/ T = Late(kind) \ {r}
  BY <1>1
<1> HIDE DEF T
<1>4. /\ r \in Late(kind) /\ r \in T => Cardinality(T) = Cardinality(Late(kind))
      /\ r \notin Late(kind) /\ r \notin T => Cardinality(T) = Cardinality(Late(kind))
      /\ r \notin Late(kind) /\ r \in T => Cardinality(T) = Cardinality(Late(kind)) + 1
      /\ r \in Late(kind) /\ r \notin T => Cardinality(T) = Cardinality(Late(kind)) - 1
  BY <1>2, <1>3, CardinalityMoves
<1> QED
  BY <1>4 DEF T

LEMMA HalfwayMoves ==
  ASSUME NEW r \in StarRequests, OthersGo(r), NEW kind
  PROVE  /\ r \in Halfway(kind) /\ r \in Halfway(kind)' => Cardinality(Halfway(kind))' = Cardinality(Halfway(kind))
         /\ r \notin Halfway(kind) /\ r \notin Halfway(kind)' => Cardinality(Halfway(kind))' = Cardinality(Halfway(kind))
         /\ r \notin Halfway(kind) /\ r \in Halfway(kind)' => Cardinality(Halfway(kind))' = Cardinality(Halfway(kind)) + 1
         /\ r \in Halfway(kind) /\ r \notin Halfway(kind)' => Cardinality(Halfway(kind))' = Cardinality(Halfway(kind)) - 1
<1>1. Halfway(kind)' = Halfway(kind) \cup {r} \/ Halfway(kind)' = Halfway(kind) \ {r}
  BY DEF Halfway, OthersGo
<1>2. IsFiniteSet(Halfway(kind))
  BY LateFinite
<1> DEFINE T == Halfway(kind)'
<1>3. T = Halfway(kind) \cup {r} \/ T = Halfway(kind) \ {r}
  BY <1>1
<1> HIDE DEF T
<1>4. /\ r \in Halfway(kind) /\ r \in T => Cardinality(T) = Cardinality(Halfway(kind))
      /\ r \notin Halfway(kind) /\ r \notin T => Cardinality(T) = Cardinality(Halfway(kind))
      /\ r \notin Halfway(kind) /\ r \in T => Cardinality(T) = Cardinality(Halfway(kind)) + 1
      /\ r \in Halfway(kind) /\ r \notin T => Cardinality(T) = Cardinality(Halfway(kind)) - 1
  BY <1>2, <1>3, CardinalityMoves
<1> QED
  BY <1>4 DEF T

\* A step that gives nobody a star leaves what is known of the others' stars.
LEMMA OthersKeepStars ==
  ASSUME StarInv, AccountInv, Noting, NEW r \in StarRequests, OthersGo(r),
         starReq'[r].at \notin {"idle", "starring"}, restarrers' = restarrers,
         \A i \in StarId : stars'[i] = stars[i] \/ stars'[i] = None,
         \/ db'["stars"] = db["stars"]
         \/ \A q \in StarRequests : starReq'[q].kind = "miss" => "stars" \in starReq'[q].raced
  PROVE  /\ \A q \in StarRequests : q # r => StarAsked(q)'
         /\ \A u \in Users : OneStar(u)'
         /\ StarrersKnown'
<1>1. ASSUME NEW q \in StarRequests, q # r PROVE StarAsked(q)'
  <2>1. StarAsked(q) /\ q \in StarId
    BY DEF StarInv, StarId
  <2>2. stars[q] = None => stars'[q] = None
    BY <2>1
  <2> QED
    BY <1>1, <2>1, <2>2 DEF StarAsked, OthersGo, StarActive
<1>2. Keepers' = Keepers /\ \A u : (Known(u) => Known(u)') /\ (KnownByStars(u) => KnownByStars(u)')
  BY NotingKeeps
<1>3. \A u : StarsBy(u)' \subseteq StarsBy(u)
  BY DEF StarsBy, Starred
<1>4. \A q \in StarRequests, u \in Users : Starring(q, u)' => Starring(q, u)
  BY DEF OthersGo, Starring
<1>5. ASSUME NEW u \in Users PROVE OneStar(u)'
  BY <1>2, <1>3, <1>4 DEF StarInv, OneStar
<1>6. StarrersKnown'
  <2>1. ASSUME NEW i \in Starred', NEW u, stars'[i] = u PROVE KnownByStars(u)'
    BY <2>1, <1>2 DEF StarInv, StarrersKnown, Starred
  <2>2. \A q \in StarRequests : starReq'[q].at = "starring" =>
          starReq[q].at = "starring" /\ starReq'[q].by = starReq[q].by
    BY DEF OthersGo
  <2> QED
    BY <2>1, <2>2, <1>2 DEF StarInv, StarrersKnown
<1> QED
  BY <1>1, <1>5, <1>6

\* A request that begins and does not star.
LEMMA StarBeginsInv ==
  ASSUME StarInv, AccountInv, Noting, NEW r \in StarRequests, NEW s, StarMoves(r, s), starReq[r].at = "idle",
         UNCHANGED <<stars, db, counters, stored, drifted, shifted, restarrers>>,
         s.at \in {"unstarring", "bumping", "done"},
         s.at = "unstarring" => s.kind = "unstar" /\ s.doc \in StarId,
         s.at = "bumping" => s.kind \in {"miss", "hit"} /\ s.read = db
  PROVE  StarInv'
<1>1. StarTypes /\ OthersGo(r) /\ starReq'[r] = s
  BY StarMovesTo DEF StarInv
<1>2. StarTypes'
  BY <1>1 DEF StarTypes, OthersGo
<1>3. (\A q \in StarRequests : q # r => StarAsked(q)') /\ (\A u \in Users : OneStar(u)') /\ StarrersKnown'
  BY <1>1, OthersKeepStars
<1>4. StarAsked(r)'
  BY <1>1 DEF StarAsked, StarActive
<1>5. \A kind \in {"star", "unstar"} : /\ Cardinality(Late(kind))' = Cardinality(Late(kind))
                                     /\ Cardinality(Halfway(kind))' = Cardinality(Halfway(kind))
  <2>1. \A kind \in {"star", "unstar"} : /\ r \notin Late(kind) /\ r \notin Late(kind)'
                                       /\ r \notin Halfway(kind) /\ r \notin Halfway(kind)'
    BY <1>1 DEF Late, Halfway
  <2> QED
    BY <1>1, <2>1, LateMoves, HalfwayMoves
<1>6. CountsStars'
  BY <1>5 DEF StarInv, CountsStars, Starred
<1>7. ShowsStars'
  <2>1. \A q \in StarRequests : starReq[q].at = "setting" => starReq'[q].at = "setting"
    BY <1>1 DEF OthersGo
  <2> QED
    BY <2>1, <1>5 DEF StarInv, ShowsStars
<1> QED
  BY <1>2, <1>3, <1>4, <1>6, <1>7 DEF StarInv

LEMMA FindStarInv ==
  ASSUME StarInv, AccountInv, NEW r \in StarRequests, NEW u \in Users, FindStar(r, u)
  PROVE  StarInv' /\ Noting
<1>1. StarTypes /\ starReq[r].at = "idle" /\ Admit(u, FALSE)
      /\ UNCHANGED <<stars, db, counters, stored, drifted, shifted, restarrers>>
  BY DEF StarInv, FindStar
<1>2. Noting
  BY <1>1, AdmitNotes
<1>3. CASE StarsBy(u) = {}
  <2>1. StarMoves(r, NoStarRequest("done")) /\ NoStarRequest("done").at = "done"
    BY <1>1, <1>3, StarRequestStates DEF StarMoves, FindStar
  <2> QED
    BY <1>1, <1>2, <2>1, StarBeginsInv
<1>4. CASE StarsBy(u) # {}
  <2> DEFINE b == StarRequest("unstarring", "unstar")
  <2>1. b \in StarStates /\ b.at = "unstarring" /\ b.kind = "unstar"
    BY <1>1, StarRequestStates
  <2>2. PICK i \in StarsBy(u) : starReq' = [starReq EXCEPT ![r] = [b EXCEPT !.by = u, !.doc = i]]
    BY <1>4 DEF FindStar
  <2>3. i \in StarId
    BY DEF StarsBy, Starred
  <2> HIDE DEF b
  <2> DEFINE s == [b EXCEPT !.by = u, !.doc = i]
  <2>4. s \in StarStates /\ s.at = "unstarring" /\ s.kind = "unstar" /\ s.doc = i
    BY <2>1, <2>3 DEF StarStates
  <2>5. StarMoves(r, s)
    BY <2>2, <2>4 DEF StarMoves
  <2> HIDE DEF s
  <2> QED
    BY <1>1, <1>2, <2>3, <2>4, <2>5, StarBeginsInv
<1> QED
  BY <1>2, <1>3, <1>4

LEMMA ViewInv ==
  ASSUME StarInv, AccountInv, UNCHANGED accountVars, NEW r \in StarRequests, Load(r) \/ Hit(r)
  PROVE  StarInv'
<1>1. StarTypes /\ starReq[r].at = "idle" /\ Noting
      /\ UNCHANGED <<stars, db, counters, stored, drifted, shifted, restarrers>>
  BY StayingNotes DEF StarInv, Load, Hit
<1>2. PICK kind \in {"miss", "hit"} : starReq' = [starReq EXCEPT ![r] = StarRequest("bumping", kind)]
  BY DEF Load, Hit
<1>3. /\ StarRequest("bumping", kind) \in StarStates /\ StarRequest("bumping", kind).at = "bumping"
      /\ StarRequest("bumping", kind).kind = kind /\ StarRequest("bumping", kind).read = db
  BY <1>1, StarRequestStates
<1>4. StarMoves(r, StarRequest("bumping", kind))
  BY <1>2, <1>3 DEF StarMoves
<1> QED
  BY <1>1, <1>3, <1>4, StarBeginsInv

LEMMA FindNoStarInv ==
  ASSUME StarInv, AccountInv, NEW r \in StarRequests, NEW u \in Users, FindNoStar(r, u)
  PROVE  StarInv' /\ Noting
<1>1. StarTypes /\ starReq[r].at = "idle" /\ Admit(u, StarsBy(u) = {})
      /\ UNCHANGED <<stars, db, counters, stored, drifted, shifted>>
  BY DEF StarInv, FindNoStar
<1>2. Noting /\ (StarsBy(u) = {} => Known(u)')
  BY <1>1, AdmitNotes
<1>3. CASE StarsBy(u) # {}
  <2>1. StarMoves(r, NoStarRequest("done")) /\ NoStarRequest("done").at = "done" /\ restarrers' = restarrers
    BY <1>1, <1>3, StarRequestStates DEF StarMoves, FindNoStar
  <2> QED
    BY <1>1, <1>2, <2>1, StarBeginsInv
<1>4. CASE StarsBy(u) = {}
  <2> DEFINE b == StarRequest("starring", "star")
             s == [b EXCEPT !.by = u]
  <2>1. b \in StarStates /\ b.at = "starring" /\ b.kind = "star"
    BY <1>1, StarRequestStates
  <2>2. /\ starReq' = [starReq EXCEPT ![r] = s]
        /\ restarrers \subseteq restarrers'
        /\ (\E q \in StarRequests : Starring(q, u)) => u \in restarrers'
    BY <1>4 DEF FindNoStar, Starring
  <2> HIDE DEF b
  <2>3. s \in StarStates /\ s.at = "starring" /\ s.kind = "star" /\ s.by = u
    BY <2>1 DEF StarStates
  <2> HIDE DEF s
  <2>4. OthersGo(r) /\ starReq'[r] = s
    BY <1>1, <2>2, <2>3, StarMovesTo DEF StarMoves
  <2>5. StarTypes'
    BY <1>1, <2>4 DEF StarTypes, OthersGo
  <2>6. ASSUME NEW q \in StarRequests PROVE StarAsked(q)'
    <3>1. StarAsked(q)
      BY DEF StarInv
    <3> QED
      BY <3>1, <1>1, <2>3, <2>4 DEF StarAsked, StarActive, OthersGo
  <2>7. \A kind : /\ Cardinality(Late(kind))' = Cardinality(Late(kind))
                 /\ Cardinality(Halfway(kind))' = Cardinality(Halfway(kind))
    <3>1. \A kind : /\ r \notin Late(kind) /\ r \notin Late(kind)'
                   /\ r \notin Halfway(kind) /\ r \notin Halfway(kind)'
      BY <1>1, <2>3, <2>4 DEF Late, Halfway
    <3> QED
      BY <2>4, <3>1, LateMoves, HalfwayMoves
  <2>8. CountsStars' /\ ShowsStars'
    <3>1. \A q \in StarRequests : starReq[q].at = "setting" => starReq'[q].at = "setting"
      BY <1>1, <2>4 DEF OthersGo
    <3>2. CountsStars'
      BY <1>1, <2>7 DEF StarInv, CountsStars, Starred
    <3>3. ShowsStars'
      BY <1>1, <2>7, <3>1 DEF StarInv, ShowsStars
    <3> QED
      BY <3>2, <3>3
  <2>9. Keepers' = Keepers /\ \A w : (Known(w) => Known(w)') /\ (KnownByStars(w) => KnownByStars(w)')
    BY <1>2, NotingKeeps
  <2>10. ASSUME NEW w \in Users PROVE OneStar(w)'
    <3>1. OneStar(w) /\ StarsBy(w)' = StarsBy(w)
      BY <1>1 DEF StarInv, StarsBy, Starred
    <3>2. CASE w = u
      <4>1. u \notin restarrers' => \A q \in StarRequests : Starring(q, u)' => q = r
        BY <2>2, <2>4 DEF Starring, OthersGo
      <4> QED
        BY <3>1, <3>2, <4>1, <1>4 DEF OneStar
    <3>3. CASE w # u
      <4>1. \A q \in StarRequests : Starring(q, w)' => Starring(q, w)
        BY <3>3, <2>3, <2>4 DEF Starring, OthersGo
      <4> QED
        BY <3>1, <4>1, <2>2, <2>9 DEF OneStar
    <3> QED
      BY <3>2, <3>3
  <2>11. StarrersKnown'
    <3>1. \A i \in Starred' : KnownByStars(stars[i])'
      BY <1>1, <2>9 DEF StarInv, StarrersKnown, Starred
    <3>2. ASSUME NEW q \in StarRequests, starReq'[q].at = "starring", NEW w, starReq'[q].by = w PROVE Known(w)'
      <4>1. CASE q = r
        BY <3>2, <4>1, <2>3, <2>4, <1>2, <1>4
      <4>2. CASE q # r
        BY <3>2, <4>2, <2>4, <2>9 DEF StarInv, StarrersKnown, OthersGo
      <4> QED
        BY <4>1, <4>2
    <3> QED
      BY <3>1, <3>2, <1>1 DEF StarrersKnown
  <2> QED
    BY <2>5, <2>6, <2>8, <2>10, <2>11, <1>2 DEF StarInv
<1> QED
  BY <1>2, <1>3, <1>4

LEMMA StoreResponseInv ==
  ASSUME StarInv, AccountInv, UNCHANGED accountVars, NEW r \in StarRequests, StoreResponse(r)
  PROVE  StarInv'
<1> DEFINE s == [starReq[r] EXCEPT !.at = "setting"]
<1>1. /\ StarTypes /\ StarAsked(r) /\ starReq[r].at = "storing" /\ stored' = TRUE /\ Noting
      /\ UNCHANGED <<stars, db, counters, drifted, shifted, restarrers>> /\ starReq[r] \in StarStates
  BY StayingNotes DEF StarInv, StarTypes, StoreResponse
<1>2. /\ s \in StarStates /\ s.at = "setting" /\ s.kind = starReq[r].kind /\ s.read = starReq[r].read
      /\ s.raced = starReq[r].raced
  BY <1>1 DEF StarStates
<1>3. StarMoves(r, s)
  BY <1>2 DEF StoreResponse, StarMoves
<1> HIDE DEF s
<1>4. OthersGo(r) /\ starReq'[r] = s
  BY <1>1, <1>3, StarMovesTo
<1>5. StarTypes'
  BY <1>1, <1>4 DEF StarTypes, OthersGo
<1>6. (\A q \in StarRequests : q # r => StarAsked(q)') /\ (\A u \in Users : OneStar(u)') /\ StarrersKnown'
  BY <1>1, <1>2, <1>4, OthersKeepStars
<1>7. StarAsked(r)'
  BY <1>1, <1>2, <1>4 DEF StarAsked, StarActive
<1>8. \A kind : Cardinality(Late(kind))' = Cardinality(Late(kind))
  <2>1. \A kind : r \notin Late(kind) /\ r \notin Late(kind)'
    BY <1>1, <1>2, <1>4 DEF Late
  <2> QED
    BY <2>1, <1>4, LateMoves
<1>9. CountsStars'
  BY <1>1, <1>8 DEF StarInv, CountsStars, Starred
<1>10. ShowsStars'
  BY <1>2, <1>4 DEF ShowsStars
<1> QED
  BY <1>5, <1>6, <1>7, <1>9, <1>10 DEF StarInv

LEMMA SetCountersInv ==
  ASSUME StarInv, AccountInv, UNCHANGED accountVars, NEW r \in StarRequests, SetCounters(r)
  PROVE  StarInv'
<1> DEFINE s == NoStarRequest("done")
<1>1. /\ StarTypes /\ StarAsked(r) /\ starReq[r].at = "setting" /\ starReq[r].kind = "miss" /\ Noting
      /\ UNCHANGED <<stars, db, stored, drifted, restarrers>> /\ starReq[r] \in StarStates
      /\ counters' = starReq[r].read
      /\ shifted' = starReq[r].raced \cup {CounterOf(q) : q \in {q \in StarRequests : starReq[q].at = "counting"}}
  BY StayingNotes DEF StarInv, StarTypes, SetCounters, StarAsked
<1>2. s \in StarStates /\ s.at = "done" /\ s.kind = "star"
  BY <1>1, StarRequestStates
<1>3. StarMoves(r, s)
  BY <1>2 DEF SetCounters, StarMoves
<1> HIDE DEF s
<1>4. OthersGo(r) /\ starReq'[r] = s
  BY <1>1, <1>3, StarMovesTo
<1>5. StarTypes'
  <2>1. starReq[r].read \in [Counter -> Int] /\ starReq[r].raced \in SUBSET Counter
    BY <1>1 DEF StarStates
  <2>2. shifted' \in SUBSET Counter
    BY <1>1, <2>1 DEF CounterOf, Counter
  <2>3. counters' \in [Counter -> Int \cup {None}]
    BY <1>1, <2>1
  <2> QED
    BY <2>2, <2>3, <1>1, <1>4 DEF StarTypes, OthersGo
<1>6. (\A q \in StarRequests : q # r => StarAsked(q)') /\ (\A u \in Users : OneStar(u)') /\ StarrersKnown'
  BY <1>1, <1>2, <1>4, OthersKeepStars
<1>7. StarAsked(r)'
  BY <1>2, <1>4 DEF StarAsked, StarActive
<1>8. \A kind : Cardinality(Late(kind))' = Cardinality(Late(kind))
  <2>1. \A kind : r \notin Late(kind) /\ r \notin Late(kind)'
    BY <1>1, <1>2, <1>4 DEF Late
  <2> QED
    BY <2>1, <1>4, LateMoves
<1>9. CountsStars'
  BY <1>1, <1>8 DEF StarInv, CountsStars, Starred
<1>10. ASSUME "stars" \notin shifted'
       PROVE  /\ counters'["stars"] = db'["stars"] /\ counters'["stars"] # None
              /\ Cardinality(Halfway("star"))' = 0 /\ Cardinality(Halfway("unstar"))' = 0
  <2>1. \A q \in StarRequests : starReq[q].at = "counting" => starReq[q].kind \notin {"star", "unstar"}
    BY <1>1, <1>10 DEF CounterOf
  <2>2. Halfway("star")' = {} /\ Halfway("unstar")' = {}
    BY <2>1, <1>2, <1>4 DEF Halfway, OthersGo
  <2>3. starReq[r].read["stars"] = db["stars"] /\ db["stars"] \in Int
    BY <1>1, <1>10 DEF StarAsked, StarActive, StarTypes, Counter
  <2> QED
    BY <2>2, <2>3, <1>1, FS_EmptySet, StarAssumption
<1>11. ShowsStars'
  BY <1>10, <1>5 DEF ShowsStars, StarTypes, Counter
<1> QED
  BY <1>5, <1>6, <1>7, <1>9, <1>11 DEF StarInv

LEMMA SaveStarInv ==
  ASSUME StarInv, AccountInv, UNCHANGED accountVars, NEW r \in StarRequests, SaveStar(r)
  PROVE  StarInv'
<1> DEFINE s == [starReq[r] EXCEPT !.at = "bumping", !.by = None, !.doc = None]
           u == starReq[r].by
<1>1. /\ StarTypes /\ starReq[r].at = "starring" /\ starReq[r].kind = "star" /\ u \in Users /\ u # None
      /\ stars[r] = None /\ starReq[r] \in StarStates /\ r \in StarId
      /\ UNCHANGED <<db, counters, stored, drifted, shifted, restarrers>> /\ stars' = [stars EXCEPT ![r] = u]
  BY UserAssumption DEF StarInv, StarTypes, StarAsked, SaveStar, StarId
<1>2. s \in StarStates /\ s.at = "bumping" /\ s.kind = "star"
  BY <1>1 DEF StarStates
<1>3. StarMoves(r, s)
  BY <1>2 DEF SaveStar, StarMoves
<1> HIDE DEF s
<1>4. OthersGo(r) /\ starReq'[r] = s
  BY <1>1, <1>3, StarMovesTo
<1>5. /\ stars' \in [StarId -> Users \cup {None}] /\ stars'[r] = u
      /\ \A i \in StarId : i # r => stars'[i] = stars[i]
  BY <1>1 DEF StarTypes
<1>6. StarTypes'
  BY <1>1, <1>4, <1>5 DEF StarTypes, OthersGo
<1>7. ASSUME NEW q \in StarRequests PROVE StarAsked(q)'
  <2>1. StarAsked(q) /\ q \in StarId
    BY DEF StarInv, StarId
  <2> QED
    BY <2>1, <1>1, <1>2, <1>4, <1>5 DEF StarAsked, StarActive, OthersGo
<1>8. /\ Cardinality(Late("star"))' = Cardinality(Late("star")) + 1
      /\ Cardinality(Late("unstar"))' = Cardinality(Late("unstar"))
      /\ Cardinality(Halfway("star"))' = Cardinality(Halfway("star"))
      /\ Cardinality(Halfway("unstar"))' = Cardinality(Halfway("unstar"))
  <2>1. /\ r \notin Late("star") /\ r \in Late("star")' /\ r \notin Late("unstar") /\ r \notin Late("unstar")'
        /\ r \notin Halfway("star") /\ r \notin Halfway("star")'
        /\ r \notin Halfway("unstar") /\ r \notin Halfway("unstar")'
    BY <1>1, <1>2, <1>4 DEF Late, Halfway
  <2> QED
    BY <2>1, <1>4, LateMoves, HalfwayMoves
<1>9. Cardinality(Starred)' = Cardinality(Starred) + 1
  <2> DEFINE T == Starred'
  <2>1. T = Starred \cup {r} /\ r \notin Starred
    BY <1>1, <1>5 DEF Starred
  <2> HIDE DEF T
  <2>2. Cardinality(T) = Cardinality(Starred) + 1
    BY <2>1, StarredFinite, CardinalityMoves
  <2> QED
    BY <2>2 DEF T
<1>10. CountsStars'
  BY <1>1, <1>8, <1>9, StarredFinite, LateFinite DEF StarInv, CountsStars, StarTypes, Counter
<1>11. ShowsStars'
  <2>1. \A q \in StarRequests : starReq[q].at = "setting" => starReq'[q].at = "setting"
    BY <1>1, <1>4 DEF OthersGo
  <2> QED
    BY <2>1, <1>1, <1>8 DEF StarInv, ShowsStars
<1>12. Keepers' = Keepers /\ \A w : (Known(w) => Known(w)') /\ (KnownByStars(w) => KnownByStars(w)')
  BY StayingNotes, NotingKeeps
<1>13. ASSUME NEW w \in Users PROVE OneStar(w)'
  <2>1. OneStar(w)
    BY DEF StarInv
  <2>2. \A q \in StarRequests : Starring(q, w)' => q # r /\ Starring(q, w)
    BY <1>2, <1>4 DEF Starring, OthersGo
  <2>3. CASE w = u
    <3>1. StarsBy(w)' \subseteq StarsBy(w) \cup {r}
      BY <1>5 DEF StarsBy, Starred
    <3>2. Starring(r, w)
      BY <2>3, <1>1 DEF Starring
    <3> QED
      BY <2>1, <2>2, <3>1, <3>2, <1>1, <1>12 DEF OneStar
  <2>4. CASE w # u
    <3>1. StarsBy(w)' \subseteq StarsBy(w)
      BY <2>4, <1>5 DEF StarsBy, Starred
    <3> QED
      BY <2>1, <2>2, <3>1, <1>1, <1>12 DEF OneStar
  <2> QED
    BY <2>3, <2>4
<1>14. StarrersKnown'
  <2>1. KnownByStars(u)
    BY <1>1 DEF StarInv, StarrersKnown, Known, KnownByStars, MergeActive
  <2>2. ASSUME NEW i \in Starred', NEW w, stars'[i] = w PROVE KnownByStars(w)'
    <3>1. CASE i = r
      BY <2>1, <2>2, <3>1, <1>5, <1>12
    <3>2. CASE i # r
      BY <2>2, <3>2, <1>5, <1>12 DEF StarInv, StarrersKnown, Starred
    <3> QED
      BY <3>1, <3>2
  <2>3. \A q \in StarRequests : starReq'[q].at = "starring" =>
          starReq[q].at = "starring" /\ starReq'[q].by = starReq[q].by
    BY <1>2, <1>4 DEF OthersGo
  <2> QED
    BY <2>2, <2>3, <1>12 DEF StarInv, StarrersKnown
<1> QED
  BY <1>6, <1>7, <1>10, <1>11, <1>13, <1>14 DEF StarInv

LEMMA RemoveStarInv ==
  ASSUME StarInv, AccountInv, UNCHANGED accountVars, NEW r \in StarRequests, RemoveStar(r)
  PROVE  StarInv'
<1> DEFINE s == [starReq[r] EXCEPT !.at = "bumping", !.by = None, !.doc = None]
           i == starReq[r].doc
<1>1. /\ StarTypes /\ starReq[r].at = "unstarring" /\ starReq[r].kind = "unstar" /\ i \in StarId
      /\ starReq[r] \in StarStates /\ Noting /\ StarAsked(r)
      /\ UNCHANGED <<db, counters, stored, shifted, restarrers>> /\ stars' = [stars EXCEPT ![i] = None]
      /\ (drifted' <=> drifted \/ stars[i] = None) /\ drifted' \in BOOLEAN
  BY StayingNotes DEF StarInv, StarTypes, StarAsked, RemoveStar
<1>2. s \in StarStates /\ s.at = "bumping" /\ s.kind = "unstar"
  BY <1>1 DEF StarStates
<1>3. StarMoves(r, s)
  BY <1>2 DEF RemoveStar, StarMoves
<1> HIDE DEF s
<1>4. OthersGo(r) /\ starReq'[r] = s
  BY <1>1, <1>3, StarMovesTo
<1>5. /\ stars' \in [StarId -> Users \cup {None}]
      /\ \A j \in StarId : stars'[j] = IF j = i THEN None ELSE stars[j]
  BY <1>1 DEF StarTypes
<1>6. StarTypes'
  BY <1>1, <1>4, <1>5 DEF StarTypes, OthersGo
<1>7. (\A q \in StarRequests : q # r => StarAsked(q)') /\ (\A u \in Users : OneStar(u)') /\ StarrersKnown'
  <2>1. \A j \in StarId : stars'[j] = stars[j] \/ stars'[j] = None
    BY <1>5
  <2> HIDE DEF i
  <2> QED
    BY <1>1, <1>2, <1>4, <2>1, OthersKeepStars
<1>8. StarAsked(r)'
  BY <1>2, <1>4 DEF StarAsked
<1>9. /\ Cardinality(Late("unstar"))' = Cardinality(Late("unstar")) + 1
      /\ Cardinality(Late("star"))' = Cardinality(Late("star"))
      /\ Cardinality(Halfway("star"))' = Cardinality(Halfway("star"))
      /\ Cardinality(Halfway("unstar"))' = Cardinality(Halfway("unstar"))
  <2>1. /\ r \notin Late("unstar") /\ r \in Late("unstar")' /\ r \notin Late("star") /\ r \notin Late("star")'
        /\ r \notin Halfway("star") /\ r \notin Halfway("star")'
        /\ r \notin Halfway("unstar") /\ r \notin Halfway("unstar")'
    BY <1>1, <1>2, <1>4 DEF Late, Halfway
  <2> QED
    BY <2>1, <1>4, LateMoves, HalfwayMoves
<1>10. stars[i] # None => Cardinality(Starred)' = Cardinality(Starred) - 1
  <2> DEFINE T == Starred'
  <2>1. T = Starred \ {i} /\ (stars[i] # None => i \in Starred) /\ i \notin T
    BY <1>1, <1>5 DEF Starred
  <2> HIDE DEF T, i
  <2>2. stars[i] # None => Cardinality(T) = Cardinality(Starred) - 1
    BY <2>1, StarredFinite, CardinalityMoves
  <2> QED
    BY <2>2 DEF T
<1>11. CountsStars'
  BY <1>1, <1>9, <1>10, StarredFinite, LateFinite DEF StarInv, CountsStars, StarTypes, Counter
<1>12. ShowsStars'
  <2>1. \A q \in StarRequests : starReq[q].at = "setting" => starReq'[q].at = "setting"
    BY <1>1, <1>4 DEF OthersGo
  <2> QED
    BY <2>1, <1>1, <1>9 DEF StarInv, ShowsStars
<1> QED
  BY <1>6, <1>7, <1>8, <1>11, <1>12 DEF StarInv

LEMMA BumpInv ==
  ASSUME StarInv, AccountInv, UNCHANGED accountVars, NEW r \in StarRequests, Bump(r)
  PROVE  StarInv'
<1> DEFINE s == [starReq[r] EXCEPT !.at = "counting"]
           c == CounterOf(r)
<1>1. /\ StarTypes /\ StarAsked(r) /\ starReq[r].at = "bumping" /\ starReq[r] \in StarStates /\ Noting
      /\ UNCHANGED <<stars, db, stored, drifted, shifted, restarrers>>
      /\ counters' = [counters EXCEPT ![c] = (IF @ = None THEN 0 ELSE @) + DeltaOf(r)]
  BY StayingNotes DEF StarInv, StarTypes, Bump
<1>2. s \in StarStates /\ s.at = "counting" /\ s.kind = starReq[r].kind /\ s.read = starReq[r].read /\ s.raced = starReq[r].raced
  BY <1>1 DEF StarStates
<1>3. c \in Counter /\ DeltaOf(r) \in Int /\ (c = "stars" <=> starReq[r].kind \in {"star", "unstar"})
  BY DEF CounterOf, DeltaOf, Counter
<1>4. starReq' = Race(c, [starReq EXCEPT ![r] = s])
  BY DEF Bump
<1>5. /\ counters' \in [Counter -> Int \cup {None}]
      /\ c # "stars" => counters'["stars"] = counters["stars"]
      /\ c = "stars" /\ counters["stars"] # None =>
           counters'["stars"] = counters["stars"] + DeltaOf(r) /\ counters'["stars"] # None
  <2>1. (IF counters[c] = None THEN 0 ELSE counters[c]) \in Int
    BY <1>1, <1>3 DEF StarTypes
  <2>2. (IF counters[c] = None THEN 0 ELSE counters[c]) + DeltaOf(r) \in Int
    BY <2>1, <1>3
  <2>3. "stars" \in Counter
    BY DEF Counter
  <2> HIDE DEF c
  <2> QED
    BY <2>2, <2>3, <1>1, <1>3, StarAssumption DEF StarTypes
<1> HIDE DEF s, c
<1>6. /\ OthersGo(r) /\ starReq'[r].at = "counting" /\ starReq'[r].kind = starReq[r].kind
      /\ starReq'[r].read = starReq[r].read /\ starReq[r].raced \subseteq starReq'[r].raced
  <2>1. /\ OthersGo(r) /\ starReq'[r].at = s.at /\ starReq'[r].kind = s.kind
        /\ starReq'[r].read = s.read /\ s.raced \subseteq starReq'[r].raced
    <3>1. s \in StarStates /\ c \in Counter
      BY <1>2, <1>3
    <3> QED
      BY <3>1, <1>1, <1>4, Raced
  <2> QED
    BY <2>1, <1>2
<1>7. StarTypes'
  BY <1>1, <1>5, <1>6 DEF StarTypes, OthersGo
<1>8. (\A q \in StarRequests : q # r => StarAsked(q)') /\ (\A u \in Users : OneStar(u)') /\ StarrersKnown'
  BY <1>1, <1>6, OthersKeepStars
<1>9. StarAsked(r)'
  BY <1>1, <1>6 DEF StarAsked, StarActive
<1>10. ASSUME NEW kind
       PROVE  /\ Cardinality(Late(kind))' = Cardinality(Late(kind))
              /\ Cardinality(Halfway(kind))' = Cardinality(Halfway(kind)) + IF starReq[r].kind = kind THEN 1 ELSE 0
  <2>1. /\ r \in Late(kind)' <=> r \in Late(kind)
        /\ r \notin Halfway(kind) /\ (r \in Halfway(kind)' <=> starReq[r].kind = kind)
    BY <1>1, <1>6 DEF Late, Halfway
  <2> QED
    BY <2>1, <1>6, LateMoves, HalfwayMoves, LateFinite
<1>11. CountsStars'
  BY <1>1, <1>10 DEF StarInv, CountsStars, Starred
<1>12. ShowsStars'
  <2>1. \A q \in StarRequests : starReq[q].at = "setting" => starReq'[q].at = "setting"
    BY <1>1, <1>6 DEF OthersGo
  <2>2. CASE c # "stars"
    <3>1. \A kind \in {"star", "unstar"} : Cardinality(Halfway(kind))' = Cardinality(Halfway(kind))
      BY <2>2, <1>3, <1>10, LateFinite
    <3> QED
      BY <2>1, <2>2, <3>1, <1>1, <1>5 DEF StarInv, ShowsStars
  <2>3. CASE c = "stars"
    <3>1. Cardinality(Halfway("star"))' - Cardinality(Halfway("unstar"))'
            = Cardinality(Halfway("star")) - Cardinality(Halfway("unstar")) + DeltaOf(r)
      <4>1. CASE starReq[r].kind = "star"
        BY <4>1, <1>10, LateFinite DEF DeltaOf
      <4>2. CASE starReq[r].kind = "unstar"
        BY <4>2, <1>10, LateFinite DEF DeltaOf
      <4> QED
        BY <4>1, <4>2, <2>3, <1>3
    <3>2. /\ Cardinality(Halfway("star")) \in Int /\ Cardinality(Halfway("unstar")) \in Int
          /\ Cardinality(Halfway("star"))' \in Int /\ Cardinality(Halfway("unstar"))' \in Int
      BY <1>10, LateFinite
    <3>3. db["stars"] \in Int /\ counters["stars"] \in Int \cup {None} /\ db' = db
      BY <1>1 DEF StarTypes, Counter
    <3> QED
      BY <2>1, <2>3, <3>1, <3>2, <3>3, <1>1, <1>3, <1>5 DEF StarInv, ShowsStars
  <2> QED
    BY <2>2, <2>3
<1> QED
  BY <1>7, <1>8, <1>9, <1>11, <1>12 DEF StarInv

LEMMA CountInv ==
  ASSUME StarInv, AccountInv, UNCHANGED accountVars, NEW r \in StarRequests, Count(r)
  PROVE  StarInv'
<1> DEFINE s == IF starReq[r].kind = "miss" THEN [starReq[r] EXCEPT !.at = "storing"] ELSE NoStarRequest("done")
           c == CounterOf(r)
<1>1. /\ StarTypes /\ StarAsked(r) /\ starReq[r].at = "counting" /\ starReq[r] \in StarStates /\ Noting
      /\ UNCHANGED <<stars, counters, stored, drifted, shifted, restarrers>>
      /\ db' = [db EXCEPT ![c] = db[c] + DeltaOf(r)]
  BY StayingNotes DEF StarInv, StarTypes, Count, CountTo
<1>2. /\ s \in StarStates
      /\ starReq[r].kind = "miss" => s.at = "storing" /\ s.kind = "miss" /\ s.read = starReq[r].read /\ s.raced = starReq[r].raced
      /\ starReq[r].kind # "miss" => s.at = "done" /\ s.kind = "star"
  <2>1. [starReq[r] EXCEPT !.at = "storing"] \in StarStates
    BY <1>1 DEF StarStates
  <2>2. NoStarRequest("done") \in StarStates /\ NoStarRequest("done").at = "done" /\ NoStarRequest("done").kind = "star"
    BY <1>1, StarRequestStates
  <2> QED
    BY <2>1, <2>2, <1>1 DEF StarStates
<1>3. c \in Counter /\ DeltaOf(r) \in Int /\ (c = "stars" <=> starReq[r].kind \in {"star", "unstar"})
  BY DEF CounterOf, DeltaOf, Counter
<1>4. starReq' = Race(c, [starReq EXCEPT ![r] = s])
  BY DEF Count, CountTo
<1>5. /\ db' \in [Counter -> Int]
      /\ c # "stars" => db'["stars"] = db["stars"]
      /\ c = "stars" => db'["stars"] = db["stars"] + DeltaOf(r)
  <2>1. "stars" \in Counter
    BY DEF Counter
  <2> HIDE DEF c
  <2> QED
    BY <2>1, <1>1, <1>3 DEF StarTypes
<1> HIDE DEF s, c
<1>6. /\ OthersGo(r) /\ starReq'[r].at = s.at /\ starReq'[r].kind = s.kind
      /\ starReq'[r].read = s.read /\ s.raced \subseteq starReq'[r].raced
      /\ \A q \in StarRequests : starReq'[q].kind = "miss" => c \in starReq'[q].raced
  BY <1>1, <1>2, <1>3, <1>4, Raced
<1>7. StarTypes'
  BY <1>1, <1>5, <1>6 DEF StarTypes, OthersGo
<1>8. (\A q \in StarRequests : q # r => StarAsked(q)') /\ (\A u \in Users : OneStar(u)') /\ StarrersKnown'
  <2>1. starReq'[r].at \notin {"idle", "starring"}
    BY <1>2, <1>6
  <2>2. \/ db'["stars"] = db["stars"]
        \/ \A q \in StarRequests : starReq'[q].kind = "miss" => "stars" \in starReq'[q].raced
    BY <1>5, <1>6
  <2> QED
    BY <2>1, <2>2, <1>1, <1>6, OthersKeepStars
<1>9. StarAsked(r)'
  BY <1>1, <1>2, <1>3, <1>5, <1>6 DEF StarAsked, StarActive
<1>10. ASSUME NEW kind \in {"star", "unstar"}
       PROVE  /\ Cardinality(Late(kind))' = Cardinality(Late(kind)) - IF starReq[r].kind = kind THEN 1 ELSE 0
              /\ Cardinality(Halfway(kind))' = Cardinality(Halfway(kind)) - IF starReq[r].kind = kind THEN 1 ELSE 0
  <2>1. /\ r \notin Late(kind)' /\ (r \in Late(kind) <=> starReq[r].kind = kind)
        /\ r \notin Halfway(kind)' /\ (r \in Halfway(kind) <=> starReq[r].kind = kind)
    BY <1>1, <1>2, <1>6 DEF Late, Halfway
  <2> QED
    BY <2>1, <1>6, LateMoves, HalfwayMoves, LateFinite
<1>11. db'["stars"] + Cardinality(Late("star"))' - Cardinality(Late("unstar"))'
         = db["stars"] + Cardinality(Late("star")) - Cardinality(Late("unstar"))
  <2>1. db["stars"] \in Int
    BY <1>1 DEF StarTypes, Counter
  <2>2. CASE starReq[r].kind = "star"
    BY <2>1, <2>2, <1>3, <1>5, <1>10, LateFinite DEF DeltaOf
  <2>3. CASE starReq[r].kind = "unstar"
    BY <2>1, <2>3, <1>3, <1>5, <1>10, LateFinite DEF DeltaOf
  <2>4. CASE starReq[r].kind \notin {"star", "unstar"}
    BY <2>1, <2>4, <1>3, <1>5, <1>10, LateFinite
  <2> QED
    BY <2>2, <2>3, <2>4
<1>12. db'["stars"] + Cardinality(Halfway("star"))' - Cardinality(Halfway("unstar"))'
         = db["stars"] + Cardinality(Halfway("star")) - Cardinality(Halfway("unstar"))
  <2>1. db["stars"] \in Int
    BY <1>1 DEF StarTypes, Counter
  <2>2. CASE starReq[r].kind = "star"
    BY <2>1, <2>2, <1>3, <1>5, <1>10, LateFinite DEF DeltaOf
  <2>3. CASE starReq[r].kind = "unstar"
    BY <2>1, <2>3, <1>3, <1>5, <1>10, LateFinite DEF DeltaOf
  <2>4. CASE starReq[r].kind \notin {"star", "unstar"}
    BY <2>1, <2>4, <1>3, <1>5, <1>10, LateFinite
  <2> QED
    BY <2>2, <2>3, <2>4
<1>13. CountsStars'
  BY <1>1, <1>11 DEF StarInv, CountsStars, Starred
<1>14. ShowsStars'
  <2>1. \A q \in StarRequests : starReq[q].at = "setting" => starReq'[q].at = "setting"
    BY <1>1, <1>6 DEF OthersGo
  <2> QED
    BY <2>1, <1>1, <1>12 DEF StarInv, ShowsStars
<1> QED
  BY <1>7, <1>8, <1>9, <1>13, <1>14 DEF StarInv

LEMMA StarFailsInv ==
  ASSUME StarInv, AccountInv, UNCHANGED accountVars, NEW r \in StarRequests, StarFails(r)
  PROVE  StarInv'
<1> DEFINE s == NoStarRequest("done")
<1>1. /\ StarTypes /\ Noting /\ UNCHANGED <<stars, db, counters, stored, restarrers>>
      /\ shifted' = IF starReq[r].at = "counting" THEN shifted \cup {CounterOf(r)}
                    ELSE IF starReq[r].at = "setting" THEN Counter ELSE shifted
      /\ drifted' \in BOOLEAN /\ (drifted => drifted')
      /\ starReq[r].kind \in {"star", "unstar"} /\ starReq[r].at \in {"bumping", "counting"} => drifted'
  BY StayingNotes DEF StarInv, StarTypes, StarFails
<1>2. s \in StarStates /\ s.at = "done" /\ s.kind = "star"
  BY <1>1, StarRequestStates
<1>3. StarMoves(r, s)
  BY <1>2 DEF StarFails, StarMoves
<1> HIDE DEF s
<1>4. OthersGo(r) /\ starReq'[r] = s
  BY <1>1, <1>3, StarMovesTo
<1>5. StarTypes'
  <2>1. shifted' \in SUBSET Counter
    BY <1>1 DEF StarTypes, CounterOf, Counter
  <2> QED
    BY <2>1, <1>1, <1>4 DEF StarTypes, OthersGo
<1>6. (\A q \in StarRequests : q # r => StarAsked(q)') /\ (\A u \in Users : OneStar(u)') /\ StarrersKnown'
  BY <1>1, <1>2, <1>4, OthersKeepStars
<1>7. StarAsked(r)'
  BY <1>2, <1>4 DEF StarAsked, StarActive
<1>8. CountsStars'
  <2>1. CASE starReq[r].kind \in {"star", "unstar"} /\ starReq[r].at \in {"bumping", "counting"}
    BY <2>1, <1>1 DEF CountsStars
  <2>2. CASE ~(starReq[r].kind \in {"star", "unstar"} /\ starReq[r].at \in {"bumping", "counting"})
    <3>1. \A kind \in {"star", "unstar"} : r \notin Late(kind) /\ r \notin Late(kind)'
      BY <2>2, <1>2, <1>4 DEF Late
    <3>2. \A kind \in {"star", "unstar"} : Cardinality(Late(kind))' = Cardinality(Late(kind))
      BY <3>1, <1>4, LateMoves
    <3> QED
      BY <3>2, <1>1 DEF StarInv, CountsStars, Starred
  <2> QED
    BY <2>1, <2>2
<1>9. ShowsStars'
  <2>1. CASE starReq[r].kind \in {"star", "unstar"} /\ starReq[r].at = "counting"
    BY <2>1, <1>1 DEF ShowsStars, CounterOf
  <2>2. CASE starReq[r].at = "setting"
    BY <2>2, <1>1 DEF ShowsStars, Counter
  <2>3. CASE ~(starReq[r].kind \in {"star", "unstar"} /\ starReq[r].at = "counting") /\ starReq[r].at # "setting"
    <3>1. \A kind \in {"star", "unstar"} : r \notin Halfway(kind) /\ r \notin Halfway(kind)'
      BY <2>3, <1>2, <1>4 DEF Halfway
    <3>2. \A kind \in {"star", "unstar"} : Cardinality(Halfway(kind))' = Cardinality(Halfway(kind))
      BY <3>1, <1>4, HalfwayMoves
    <3>3. \A q \in StarRequests : starReq[q].at = "setting" => starReq'[q].at = "setting"
      BY <2>3, <1>4 DEF OthersGo
    <3>4. shifted \subseteq shifted'
      BY <2>3, <1>1
    <3> QED
      BY <3>2, <3>3, <3>4, <1>1 DEF StarInv, ShowsStars
  <2> QED
    BY <2>1, <2>2, <2>3
<1> QED
  BY <1>5, <1>6, <1>7, <1>8, <1>9 DEF StarInv

\* Steps that leave stars and their requests alone.
LEMMA StarsAside ==
  ASSUME StarInv, UNCHANGED <<stars, db, counters, starReq, drifted, shifted, restarrers>>,
         stored' \in {stored, FALSE}, Keepers \subseteq Keepers',
         \A u : KnownByStars(u) => KnownByStars(u)',
         \A u, r : r \in StarRequests /\ Starring(r, u) => Known(u)'
  PROVE  StarInv'
<1>1. StarTypes'
  BY DEF StarInv, StarTypes
<1>2. Starred' = Starred /\ (\A u : StarsBy(u)' = StarsBy(u))
      /\ \A kind : Late(kind)' = Late(kind) /\ Halfway(kind)' = Halfway(kind)
  BY DEF Starred, StarsBy, Late, Halfway
<1>3. \A r \in StarRequests : StarAsked(r)'
  BY DEF StarInv, StarAsked, StarActive
<1>4. CountsStars'
  BY <1>2 DEF StarInv, CountsStars
<1>5. ShowsStars'
  BY <1>2 DEF StarInv, ShowsStars
<1>6. \A u \in Users : OneStar(u)'
  BY <1>2 DEF StarInv, OneStar, Starring
<1>7. StarrersKnown'
  BY <1>2 DEF StarInv, StarrersKnown, Starring
<1> QED
  BY <1>1, <1>3, <1>4, <1>5, <1>6, <1>7 DEF StarInv

\* The stars of the one become the other's: their number stays, and what is known of anybody else's.
LEMMA MergeStarsInv ==
  ASSUME AccountInv, StarInv, NEW m \in Merges, MergeStars(m)
  PROVE  /\ AccountInv' /\ StarInv'
         /\ Keepers' = Keepers /\ \A u : Known(u) => Known(u)'
<1>0. PICK keep, gone : keep = merge[m].keep /\ gone = merge[m].gone
  OBVIOUS
<1>1. /\ StarTypes /\ merge[m].at = "stars" /\ MergeActive(m) /\ keep \in users /\ gone \in users /\ keep # gone
      /\ keep \in Users /\ keep # None /\ gone # None
      /\ UNCHANGED <<users, ghosts, db, counters, stored, starReq, drifted, shifted, restarrers>>
      /\ merge' = [merge EXCEPT ![m].at = "removing"]
      /\ stars' = [i \in StarId |-> IF stars[i] = gone THEN keep ELSE stars[i]]
  BY <1>0, UserAssumption DEF MergeStars, MoveStars, StarsMerged, MergeActive, AccountInv, StarInv
<1>2. /\ AccountInv' /\ Keepers' = Keepers
      /\ \A n \in Merges : /\ merge'[n].keep = merge[n].keep /\ merge'[n].gone = merge[n].gone
                          /\ merge'[n].at = IF n = m THEN "removing" ELSE merge[n].at
  BY <1>1, MergeGoesInv
<1>3. \A u : Known(u) => Known(u)'
  BY <1>1, <1>2 DEF Known, MergeActive
<1>4. keep \in Keepers
  BY <1>0, <1>1 DEF Keepers
<1>5. \A u : u # gone /\ KnownByStars(u) => KnownByStars(u)'
  BY <1>0, <1>1, <1>2 DEF KnownByStars
<1>6. KnownByStars(keep)'
  <2>1. \A n \in Merges : merge'[n].at = "removing" => merge[n].gone # keep
    BY <1>0, <1>1, <1>2 DEF AccountInv, Apart, MergeActive
  <2> QED
    BY <2>1, <1>1, <1>2 DEF KnownByStars
<1>7. /\ stars' \in [StarId -> Users \cup {None}]
      /\ \A i \in StarId : stars'[i] = IF stars[i] = gone THEN keep ELSE stars[i]
  BY <1>1 DEF StarTypes
<1>8. Starred' = Starred /\ \A kind : Late(kind)' = Late(kind) /\ Halfway(kind)' = Halfway(kind)
  BY <1>1, <1>7 DEF Starred, Late, Halfway
<1>9. StarTypes'
  BY <1>1, <1>7 DEF StarTypes
<1>10. ASSUME NEW r \in StarRequests PROVE StarAsked(r)'
  <2>1. StarAsked(r) /\ r \in StarId
    BY DEF StarInv, StarId
  <2> QED
    BY <2>1, <1>1, <1>7 DEF StarAsked, StarActive
<1>11. CountsStars' /\ ShowsStars'
  BY <1>1, <1>8 DEF StarInv, CountsStars, ShowsStars
<1>12. ASSUME NEW u \in Users PROVE OneStar(u)'
  <2>1. u # keep => StarsBy(u)' \subseteq StarsBy(u)
    BY <1>7, <1>8 DEF StarsBy, Starred
  <2>2. \A r \in StarRequests : Starring(r, u)' <=> Starring(r, u)
    BY <1>1 DEF Starring
  <2> QED
    BY <2>1, <2>2, <1>1, <1>2, <1>4 DEF StarInv, OneStar
<1>13. StarrersKnown'
  <2>1. ASSUME NEW i \in Starred', NEW u, stars'[i] = u PROVE KnownByStars(u)'
    <3>1. i \in Starred /\ i \in StarId /\ KnownByStars(stars[i])
      BY <2>1, <1>8 DEF StarInv, StarrersKnown, Starred
    <3>2. CASE stars[i] = gone
      BY <2>1, <3>1, <3>2, <1>6, <1>7
    <3>3. CASE stars[i] # gone
      BY <2>1, <3>1, <3>3, <1>5, <1>7
    <3> QED
      BY <3>2, <3>3
  <2> QED
    BY <2>1, <1>1, <1>3 DEF StarInv, StarrersKnown
<1> QED
  BY <1>2, <1>3, <1>9, <1>10, <1>11, <1>12, <1>13 DEF StarInv

-----------------------------------------------------------------------------
CommunityInv == AccountInv /\ RatingInv /\ StarInv

LEMMA StarInitInv == Init => StarInv
<1> SUFFICES ASSUME Init PROVE StarInv
  OBVIOUS
<1>1. PICK given \in [OldStars -> Users \cup {None}] :
        /\ \A i, j \in OldStars : i # j /\ given[i] # None => given[i] # given[j]
        /\ stars = [i \in StarId |-> IF i \in OldStars THEN given[i] ELSE None]
  BY DEF Init, StarInit
<1>2. /\ stars \in [StarId -> Users \cup {None}]
      /\ \A i \in StarId : stars[i] = IF i \in OldStars THEN given[i] ELSE None
  BY <1>1
<1>3. /\ db = [c \in Counter |-> IF c = "stars" THEN Cardinality(Starred) ELSE 0]
      /\ counters = [c \in Counter |-> None] /\ stored = FALSE /\ drifted = FALSE /\ shifted = {} /\ restarrers = {}
      /\ starReq = [r \in StarRequests |-> NoStarRequest("idle")]
      /\ users = Users /\ \A m \in Merges : merge[m] = [at |-> "idle", keep |-> None, gone |-> None]
  BY DEF Init, StarInit, AccountInit
<1>4. NoStarRequest("idle") \in StarStates /\ NoStarRequest("idle").at = "idle"
  BY DEF NoStarRequest, StarRequest, StarStates
<1>5. \A r \in StarRequests : starReq[r].at = "idle"
  BY <1>3, <1>4
<1>6. StarTypes
  <2>1. db \in [Counter -> Int]
    BY <1>3, StarredFinite
  <2>2. starReq \in [StarRequests -> StarStates]
    BY <1>3, <1>4
  <2> QED
    BY <1>2, <1>3, <2>1, <2>2 DEF StarTypes
<1>7. \A r \in StarRequests : StarAsked(r)
  BY <1>2, <1>5, StarAssumption DEF StarAsked, StarActive, StarId
<1>8. CountsStars
  <2>1. Late("star") = {} /\ Late("unstar") = {}
    BY <1>5 DEF Late
  <2>2. db["stars"] = Cardinality(Starred)
    BY <1>3 DEF Counter
  <2> QED
    BY <2>1, <2>2, FS_EmptySet, StarredFinite DEF CountsStars
<1>9. ShowsStars
  BY <1>3 DEF ShowsStars
<1>10. ASSUME NEW u \in Users PROVE OneStar(u)
  <2>1. \A i \in StarsBy(u) : i \in OldStars /\ given[i] = u /\ u # None
    BY <1>2, UserAssumption DEF StarsBy, Starred
  <2>2. \A i, j \in StarsBy(u) : i = j
    BY <2>1, <1>1
  <2> QED
    BY <2>2, <1>5 DEF OneStar, Starring
<1>11. StarrersKnown
  <2>1. \A u \in Users : KnownByStars(u)
    BY <1>3 DEF KnownByStars
  <2> QED
    BY <2>1, <1>2, <1>5 DEF StarrersKnown, Starred
<1> QED
  BY <1>6, <1>7, <1>8, <1>9, <1>10, <1>11 DEF StarInv

LEMMA CommunityInitInv == Init => CommunityInv
<1>1. Init => AccountInv
  BY DEF Init, AccountInit, AccountInv, MergeStates, Apart, MergeActive
<1> QED
  BY <1>1, RatingInitInv, StarInitInv DEF CommunityInv

LEMMA RateInv ==
  ASSUME CommunityInv, NEW r \in RateRequests, Rate(r)
  PROVE  CommunityInv'
<1>1. AccountInv /\ RatingInv /\ StarInv
  BY DEF CommunityInv
<1>2. RatingInv' /\ Noting
  <2>1. ASSUME NEW u \in Users, NEW e \in Entities, NEW v \in Values, NEW kind \in {"create", "update", "delete"},
               FindRating(r, kind, u, e, v)
        PROVE  RatingInv' /\ Noting
    BY <2>1, <1>1, FindRatingInv
  <2>2. CASE RateStep(r) /\ UNCHANGED accountVars
    BY <2>2, <1>1, RateStepInv, StayingNotes
  <2> QED
    BY <2>1, <2>2 DEF Rate
<1>3. AccountInv' /\ Keepers' = Keepers /\ \A u : (Known(u) => Known(u)') /\ (KnownByStars(u) => KnownByStars(u)')
  BY <1>1, <1>2, NotingKeeps
<1>4. StarInv'
  BY <1>1, <1>3, StarsAside DEF Rate, starVars, StarInv, StarrersKnown, Starring
<1> QED
  BY <1>2, <1>3, <1>4 DEF CommunityInv

LEMMA StarStepInv ==
  ASSUME CommunityInv, NEW r \in StarRequests, Star(r)
  PROVE  CommunityInv'
<1>1. AccountInv /\ RatingInv /\ StarInv
  BY DEF CommunityInv
<1>2. StarInv' /\ Noting
  <2>1. ASSUME NEW u \in Users, FindNoStar(r, u) \/ FindStar(r, u) PROVE StarInv' /\ Noting
    BY <2>1, <1>1, FindNoStarInv, FindStarInv
  <2>2. ASSUME Load(r) \/ Hit(r) \/ StarStep(r), UNCHANGED accountVars PROVE StarInv' /\ Noting
    BY <2>2, <1>1, ViewInv, SaveStarInv, RemoveStarInv, StoreResponseInv, SetCountersInv, BumpInv, CountInv,
       StarFailsInv, StayingNotes DEF StarStep
  <2>3. ASSUME Forget, UNCHANGED accountVars PROVE StarInv' /\ Noting
    <3>1. Noting
      BY <2>3, <1>1, StayingNotes
    <3>2. Keepers' = Keepers /\ \A u : (Known(u) => Known(u)') /\ (KnownByStars(u) => KnownByStars(u)')
      BY <3>1, <1>1, NotingKeeps
    <3> QED
      BY <3>1, <3>2, <2>3, <1>1, StarsAside DEF Forget, StarInv, StarrersKnown, Starring
  <2> QED
    BY <2>1, <2>2, <2>3 DEF Star
<1>3. AccountInv' /\ Keepers' = Keepers /\ \A u : Known(u) => Known(u)'
  BY <1>1, <1>2, NotingKeeps
<1>4. RatingInv'
  BY <1>1, <1>3, RatingsAside DEF Star
<1> QED
  BY <1>2, <1>3, <1>4 DEF CommunityInv

LEMMA MergeInv ==
  ASSUME CommunityInv, NEW m \in Merges, MergeUsers(m)
  PROVE  CommunityInv'
<1>1. AccountInv /\ RatingInv /\ StarInv
  BY DEF CommunityInv
<1>2. ASSUME NEW keep \in Users, NEW gone \in Users, MergeRatings(m, keep, gone) PROVE CommunityInv'
  <2>1. Saving(gone) \in BOOLEAN /\ BeginMerge(m, keep, gone, Saving(gone)) /\ UNCHANGED starVars
    BY <1>2 DEF MergeRatings, Saving
  <2>2. AccountInv'
    BY <1>1, <2>1, BeginMergeInv
  <2>3. RatingInv'
    BY <1>1, <1>2, <2>2, MergeRatingsInv
  <2>4. /\ users' = users /\ ghosts' = IF Saving(gone) THEN ghosts \cup {gone} ELSE ghosts
        /\ \A n \in Merges : merge'[n] = IF n = m THEN [at |-> "stars", keep |-> keep, gone |-> gone] ELSE merge[n]
        /\ merge[m].keep = None
    BY <1>1, <2>1 DEF BeginMerge, AccountInv
  <2>5. Keepers \subseteq Keepers'
    BY <2>4 DEF Keepers
  <2>6. \A u : KnownByStars(u) => KnownByStars(u)'
    BY <2>4 DEF KnownByStars
  <2>7. \A u, r : r \in StarRequests /\ Starring(r, u) => Known(u)'
    <3>1. \A u : u # gone /\ Known(u) => Known(u)'
      BY <2>4 DEF Known, MergeActive
    <3>2. ASSUME NEW r \in StarRequests, Starring(r, gone) PROVE Known(gone)'
      BY <2>4, <3>2 DEF Starring, Saving, Known
    <3> QED
      BY <3>1, <3>2, <1>1 DEF StarInv, StarrersKnown, Starring
  <2>8. StarInv'
    BY <1>1, <2>1, <2>5, <2>6, <2>7, StarsAside DEF starVars
  <2> QED
    BY <2>2, <2>3, <2>8 DEF CommunityInv
<1>3. CASE MergeStars(m)
  <2>1. AccountInv' /\ StarInv' /\ Keepers' = Keepers /\ \A u : Known(u) => Known(u)'
    BY <1>1, <1>3, MergeStarsInv
  <2>2. RatingInv'
    BY <1>1, <1>3, <2>1, RatingsAside DEF MergeStars, MoveStars
  <2> QED
    BY <2>1, <2>2 DEF CommunityInv
<1>4. CASE RemoveMerged(m) /\ UNCHANGED <<ratingVars, starVars>>
  <2>1. MergeActive(m) /\ merge[m].at = "removing" /\ users' = users \ {merge[m].gone} /\ ghosts' = ghosts
        /\ merge' = [merge EXCEPT ![m].at = "done"]
    BY <1>4 DEF RemoveMerged, MergeActive
  <2>2. /\ AccountInv' /\ Keepers' = Keepers
        /\ \A n \in Merges : /\ merge'[n].keep = merge[n].keep /\ merge'[n].gone = merge[n].gone
                            /\ merge'[n].at = IF n = m THEN "done" ELSE merge[n].at
    BY <1>1, <2>1, MergeGoesInv
  <2>3. \A u : (Known(u) => Known(u)') /\ (KnownByStars(u) => KnownByStars(u)')
    BY <2>1, <2>2 DEF Known, KnownByStars, MergeActive
  <2>4. RatingInv'
    BY <1>1, <1>4, <2>2, <2>3, RatingsAside
  <2>5. StarInv'
    BY <1>1, <1>4, <2>2, <2>3, StarsAside DEF starVars, StarInv, StarrersKnown, Starring
  <2> QED
    BY <2>2, <2>4, <2>5 DEF CommunityInv
<1>5. CASE MergeFails(m) /\ UNCHANGED <<ratingVars, starVars>>
  <2>1. MergeActive(m) /\ users' = users /\ ghosts' = ghosts /\ merge' = [merge EXCEPT ![m].at = "done"]
    BY <1>5 DEF MergeFails
  <2>2. /\ AccountInv' /\ Keepers' = Keepers
        /\ \A n \in Merges : /\ merge'[n].keep = merge[n].keep /\ merge'[n].gone = merge[n].gone
                            /\ merge'[n].at = IF n = m THEN "done" ELSE merge[n].at
    BY <1>1, <2>1, MergeGoesInv
  <2>3. \A u : (Known(u) => Known(u)') /\ (KnownByStars(u) => KnownByStars(u)')
    BY <2>1, <2>2 DEF Known, KnownByStars, MergeActive
  <2>4. RatingInv'
    BY <1>1, <1>5, <2>2, <2>3, RatingsAside
  <2>5. StarInv'
    BY <1>1, <1>5, <2>2, <2>3, StarsAside DEF starVars, StarInv, StarrersKnown, Starring
  <2> QED
    BY <2>2, <2>4, <2>5 DEF CommunityInv
<1> QED
  BY <1>2, <1>3, <1>4, <1>5 DEF MergeUsers

LEMMA CommunityStepInv == CommunityInv /\ [Next]_vars => CommunityInv'
<1> SUFFICES ASSUME CommunityInv, [Next]_vars PROVE CommunityInv'
  OBVIOUS
<1>1. CASE UNCHANGED vars
  <2>1. UNCHANGED accountVars /\ UNCHANGED ratingVars /\ UNCHANGED starVars
    BY <1>1 DEF vars
  <2>2. AccountInv /\ RatingInv /\ StarInv
    BY DEF CommunityInv
  <2>3. Noting
    BY <2>1, <2>2, StayingNotes
  <2>4. AccountInv' /\ Keepers' = Keepers /\ \A u : (Known(u) => Known(u)') /\ (KnownByStars(u) => KnownByStars(u)')
    BY <2>2, <2>3, NotingKeeps
  <2>5. RatingInv'
    BY <2>1, <2>2, <2>4, RatingsAside
  <2>6. StarInv'
    BY <2>1, <2>2, <2>4, StarsAside DEF starVars, StarInv, StarrersKnown, Starring
  <2> QED
    BY <2>4, <2>5, <2>6 DEF CommunityInv
<1> QED
  BY <1>1, RateInv, StarStepInv, MergeInv DEF Next

LEMMA CommunityInvHolds == Spec => []CommunityInv
BY CommunityInitInv, CommunityStepInv, PTL DEF Spec

\* However many requests rate, fail or go over all entities, and users are merged: an entity whose last
\* write was up to date, and on which nobody is still to write, keeps the sum and the number of its
\* ratings.
THEOREM AveragesFollowRatings == Spec => []AverageCurrent
<1>1. CommunityInv => AverageCurrent
  BY DEF CommunityInv, RatingInv, Current, Writing, SumOn, AverageCurrent
<1> QED
  BY <1>1, CommunityInvHolds, PTL

\* However many requests star, unstar and view an entity and its cached response is stored, answered and
\* forgotten: its counter is the number of its stars, and the response shows it, but for the requests
\* half-way and what they leave behind.
THEOREM StarsAreCounted == Spec => []StarsAgree
<1>1. CommunityInv => StarsAgree
  <2> SUFFICES ASSUME CommunityInv PROVE StarsAgree
    OBVIOUS
  <2>1. StarInv /\ StarTypes
    BY DEF CommunityInv, StarInv
  <2>2. StarsCounted
    <3> DEFINE late == {r \in StarRequests : CounterOf(r) = "stars" /\ starReq[r].at \in {"bumping", "counting"}}
               added == {r \in late : starReq[r].kind = "star"}
    <3>1. added = Late("star") /\ late \ added = Late("unstar")
      BY DEF Late, CounterOf
    <3> HIDE DEF late, added
    <3>2. drifted \/ Cardinality(Starred) = db["stars"] + Cardinality(added) - Cardinality(late \ added)
      BY <2>1, <3>1 DEF StarInv, CountsStars
    <3> QED
      BY <3>2 DEF StarsCounted, late, added
  <2>3. StarsShown
    <3>1. CASE \E r \in StarRequests : starReq[r].at = "counting" /\ CounterOf(r) = "stars"
      BY <3>1 DEF StarsShown
    <3>2. CASE ~ \E r \in StarRequests : starReq[r].at = "counting" /\ CounterOf(r) = "stars"
      <4>1. Halfway("star") = {} /\ Halfway("unstar") = {}
        BY <3>2 DEF Halfway, CounterOf
      <4>2. Cardinality(Halfway("star")) = 0 /\ Cardinality(Halfway("unstar")) = 0 /\ db["stars"] \in Int
        BY <2>1, <4>1, FS_EmptySet DEF StarTypes, Counter
      <4> QED
        BY <2>1, <4>2 DEF StarInv, ShowsStars, StarsShown
    <3> QED
      BY <3>1, <3>2
  <2> QED
    BY <2>2, <2>3 DEF StarsAgree
<1> QED
  BY <1>1, CommunityInvHolds, PTL

\* However many users rate, star and are merged at once: nobody has two ratings of an entity or two stars,
\* and every rating and star is somebody's, but for the overlaps the code does not guard against.
THEOREM OneVoteEverybody == Spec => []VotesHold
<1>1. CommunityInv => VotesHold
  <2> SUFFICES ASSUME CommunityInv PROVE VotesHold
    OBVIOUS
  <2>1. \A S : (\A i, j \in S : i = j) => Cardinality(S) <= 1
    <3> SUFFICES ASSUME NEW S, \A i, j \in S : i = j PROVE Cardinality(S) <= 1
      OBVIOUS
    <3>1. CASE S = {}
      BY <3>1, FS_EmptySet
    <3>2. CASE S # {}
      <4>1. PICK i \in S : S = {i}
        BY <3>2
      <4> QED
        BY <4>1, FS_Singleton
    <3> QED
      BY <3>1, <3>2
  <2>2. OneVoteEach
    BY <2>1 DEF CommunityInv, RatingInv, StarInv, OneRating, OneStar, OneVoteEach, OneEach
  <2>3. NoneDangling
    BY DEF CommunityInv, RatingInv, StarInv, RatersKnown, StarrersKnown, Known, KnownByStars, NoneDangling
  <2> QED
    BY <2>2, <2>3 DEF VotesHold
<1> QED
  BY <1>1, CommunityInvHolds, PTL

=============================================================================
