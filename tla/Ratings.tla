------------------------------ MODULE Ratings ------------------------------
(***************************************************************************)
(* Ratings of games and releases (ratings/rating.api.ts) and the metrics   *)
(* that follow from them (common/metrics.ts).                              *)
(*                                                                         *)
(* A rating is a document of its own; an entity keeps what its ratings     *)
(* add up to, and a score that pulls its average towards the mean of all   *)
(* ratings of its model.  A request finds the user's rating, saves, reads  *)
(* the mean, reads the entity's ratings, writes the entity, compares the   *)
(* mean with the one kept in Redis and, when that changed, goes over all   *)
(* rated entities.  Every await is a step of its own.                      *)
(***************************************************************************)
EXTENDS Accounts, Integers, FiniteSets, Functions

CONSTANTS
  Entities,
  Model,         \* "game" or "release", per entity
  Values,        \* the ratings that are given
  RateRequests,  \* bound: requests; a rating one creates has its name
  OldRatings     \* the names of ratings given before

RatingId == RateRequests \cup OldRatings

ASSUME RatingAssumption ==
  /\ Model \in [Entities -> {"game", "release"}]
  /\ Values \subseteq 1..10
  /\ RateRequests \cap OldRatings = {}
  /\ None \notin [from : Users, on : Entities, value : Values]

VARIABLES
  ratings,   \* MongoDB: the ratings by name, or None
  entity,    \* MongoDB: what an entity keeps of its ratings
  atm,       \* Redis: the mean under metrics:atm, or None
  rateReq,   \* the requests
  outdated,  \* history: the entities whose last update was not of their last rating
  revoters   \* history: users two of whose first votes for an entity overlapped

ratingVars == <<ratings, entity, atm, rateReq, outdated, revoters>>

-----------------------------------------------------------------------------
(* A mean is kept as a sum and a count. *)

Given == {i \in RatingId : ratings[i] # None}
RatingsBy(u, e) == {i \in Given : ratings[i].from = u /\ ratings[i].on = e}
RatingsOn(entities) == {i \in Given : ratings[i].on \in entities}

Total(values) == [sum |-> SumFunction(values), count |-> Cardinality(DOMAIN values)]
Aggregate(ids) == Total([i \in ids |-> ratings[i].value])

SameModel(e) == {f \in Entities : Model[f] = Model[e]}
GlobalMean(e) == Aggregate(RatingsOn(SameModel(e)))

NoMean == [sum |-> 0, count |-> 0]

\* Math.round(mean * 100)
Hundredths(mean) ==
  IF mean.count = 0 THEN 0 ELSE (200 * mean.sum + mean.count) \div (2 * mean.count)

\* parseInt(..., 10) of the mean that Redis has kept as text
Parsed(mean) == IF mean.count = 0 THEN 0 ELSE mean.sum \div mean.count

Weighed(total, mean) ==
  [total |-> total, mean |-> IF total.count = 0 THEN NoMean ELSE mean]

Rating(u, e, v) == [from |-> u, on |-> e, value |-> v]

RateRequest(at) ==
  [at |-> at, kind |-> "create", by |-> None, on |-> None, doc |-> None, value |-> 0,
   mean |-> NoMean, cur |-> None, total |-> NoMean, stale |-> FALSE, todo |-> {}, all |-> FALSE]

\* What a request that has saved still knows.
Saved(job, at) == [RateRequest(at) EXCEPT !.on = job.on, !.mean = job.mean]

RateActive(r) == rateReq[r].at \notin {"idle", "done"}

\* Ratings given before, at most one per user and entity, and their metrics.
RatingInit ==
  /\ \E given \in [OldRatings -> {None} \cup [from : Users, on : Entities, value : Values]] :
       /\ \A i, j \in OldRatings :
            i # j /\ given[i] # None /\ given[j] # None =>
              given[i].from # given[j].from \/ given[i].on # given[j].on
       /\ ratings = [i \in RatingId |-> IF i \in OldRatings THEN given[i] ELSE None]
  /\ entity = [e \in Entities |-> Weighed(Aggregate(RatingsOn({e})), GlobalMean(e))]
  /\ atm \in {None} \cup {GlobalMean(e) : e \in Entities}
  /\ rateReq = [r \in RateRequests |-> RateRequest("idle")]
  /\ outdated = {}
  /\ revoters = {}

-----------------------------------------------------------------------------
\* find, and the 400 and 404 that follow from it.
FindRating(r, kind, u, e, v) ==
  LET found == RatingsBy(u, e)
      begun == [RateRequest("saving") EXCEPT !.kind = kind, !.by = u, !.on = e,
                                             !.value = IF kind = "delete" THEN 0 ELSE v]
      alike == {q \in RateRequests : rateReq[q].at = "saving" /\ rateReq[q].kind = "create"
                                     /\ rateReq[q].by = u /\ rateReq[q].on = e}
  IN
  /\ rateReq[r].at = "idle"
  /\ Admit(u, kind = "create" /\ found = {})
  /\ \/ kind = "create" /\ found = {}
        /\ rateReq' = [rateReq EXCEPT ![r] = begun]
        /\ revoters' = IF alike = {} THEN revoters ELSE revoters \cup {u}
     \/ kind # "create"
        /\ \E i \in found : rateReq' = [rateReq EXCEPT ![r] = [begun EXCEPT !.doc = i]]
        /\ UNCHANGED revoters
     \/ (kind = "create") # (found = {})
        /\ rateReq' = [rateReq EXCEPT ![r] = RateRequest("done")]
        /\ UNCHANGED revoters
  /\ UNCHANGED <<ratings, entity, atm, outdated>>

\* Requests that have read the ratings on e and not yet written them are out of date.
Overtaken(e, next) ==
  [q \in RateRequests |->
     [next[q] EXCEPT !.stale = @ \/ (next[q].at = "putting" /\ next[q].cur = e)]]

\* rating.save() or rating.remove().  Saving a rating that is gone is an error,
\* removing it is not.
SaveRating(r) ==
  LET job == rateReq[r] IN
  /\ job.at = "saving"
  /\ IF job.kind = "update" /\ ratings[job.doc] = None
       THEN rateReq' = [rateReq EXCEPT ![r] = RateRequest("done")] /\ UNCHANGED ratings
       ELSE /\ rateReq' = Overtaken(job.on, [rateReq EXCEPT ![r] = Saved(job, "averaging")])
            /\ ratings' = CASE job.kind = "create" ->
                                 [ratings EXCEPT ![r] = Rating(job.by, job.on, job.value)]
                            [] job.kind = "update" ->
                                 [ratings EXCEPT ![job.doc].value = job.value]
                            [] job.kind = "delete" ->
                                 [ratings EXCEPT ![job.doc] = None]
  /\ UNCHANGED <<entity, atm, outdated, revoters>>

\* getGlobalMean
ReadMean(r) ==
  /\ rateReq[r].at = "averaging"
  /\ rateReq' = [rateReq EXCEPT ![r] =
       [@ EXCEPT !.at = "adding", !.mean = GlobalMean(rateReq[r].on), !.cur = rateReq[r].on]]
  /\ UNCHANGED <<ratings, entity, atm, outdated, revoters>>

\* What AddUp(r) does, given what the ratings add up to.
AddUpTo(r, total) ==
  /\ rateReq[r].at = "adding"
  /\ rateReq' = [rateReq EXCEPT ![r] = [@ EXCEPT !.at = "putting", !.stale = FALSE, !.total = total]]
  /\ UNCHANGED <<ratings, entity, atm, outdated, revoters>>

\* Mutant of AddUp: in the loop over all entities, what the entity kept.
AddUpKept(r) ==
  AddUpTo(r, IF rateReq[r].all THEN entity[rateReq[r].cur].total
                               ELSE Aggregate(RatingsOn({rateReq[r].cur})))

\* updateEntityMetrics up to the aggregate
AddUp(r) == AddUpTo(r, Aggregate(RatingsOn({rateReq[r].cur})))

\* The next entity of the loop in updateAllEntities, or the end.
NextEntity(job, todo, r) ==
  IF todo = {} THEN rateReq' = [rateReq EXCEPT ![r] = RateRequest("done")]
  ELSE \E e \in todo :
         rateReq' = [rateReq EXCEPT ![r] = [Saved(job, "adding") EXCEPT
                                       !.cur = e, !.todo = todo \ {e}, !.all = TRUE]]

\* entity.update.  The last to write wins, whatever it has read.
Put(r) ==
  LET job == rateReq[r] IN
  /\ job.at = "putting"
  /\ entity' = [entity EXCEPT ![job.cur] = Weighed(job.total, job.mean)]
  /\ outdated' = IF job.stale THEN outdated \cup {job.cur} ELSE outdated \ {job.cur}
  /\ IF job.all THEN NextEntity(job, job.todo, r)
                ELSE rateReq' = [rateReq EXCEPT ![r] = Saved(job, "comparing")]
  /\ UNCHANGED <<ratings, atm, revoters>>

\* The rest of onRatingUpdated.  One key serves games and releases, and what was
\* kept is compared without its fraction.
Compare(r) ==
  LET job == rateReq[r]
      unset == atm = None \/ (atm # None /\ Parsed(atm) = 0)
      same == ~unset /\ 100 * Parsed(atm) = Hundredths(job.mean) IN
  /\ job.at = "comparing"
  /\ rateReq' = [rateReq EXCEPT ![r] = IF same THEN RateRequest("done")
                                       ELSE [job EXCEPT !.at = "keeping", !.all = ~unset]]
  /\ UNCHANGED <<ratings, entity, atm, outdated, revoters>>

\* updateGlobalMean
KeepMean(r) ==
  LET job == rateReq[r] IN
  /\ job.at = "keeping"
  /\ atm' = job.mean
  /\ rateReq' = [rateReq EXCEPT ![r] = IF job.all THEN [job EXCEPT !.at = "listing"]
                                                  ELSE RateRequest("done")]
  /\ UNCHANGED <<ratings, entity, outdated, revoters>>

\* updateAllEntities, the query for the rated entities
ListRated(r) ==
  LET job == rateReq[r] IN
  /\ job.at = "listing"
  /\ NextEntity(job, {e \in SameModel(job.on) : entity[e].total.count > 0}, r)
  /\ UNCHANGED <<ratings, entity, atm, outdated, revoters>>

\* A rating that is saved and whose entity is not updated stays unseen.
RateFails(r) ==
  LET job == rateReq[r] IN
  /\ RateActive(r)
  /\ outdated' = IF job.at \in {"averaging", "adding", "putting"} /\ ~job.all
                 THEN outdated \cup {job.on} ELSE outdated
  /\ rateReq' = [rateReq EXCEPT ![r] = RateRequest("done")]
  /\ UNCHANGED <<ratings, entity, atm, revoters>>

RateStep(r) ==
  \/ SaveRating(r) \/ ReadMean(r) \/ AddUp(r) \/ Put(r) \/ Compare(r) \/ KeepMean(r)
  \/ ListRated(r) \/ RateFails(r)

-----------------------------------------------------------------------------
\* An entity whose last write was up to date, and on which no request is still to
\* write, keeps the sum and the number of its ratings (metrics.ts:88-105).
AverageCurrent ==
  \A e \in Entities :
    \/ e \in outdated
    \/ \E r \in RateRequests :
         /\ rateReq[r].at \in {"averaging", "adding", "putting"} /\ ~rateReq[r].all
         /\ rateReq[r].on = e
    \/ entity[e].total = Aggregate(RatingsOn({e}))

=============================================================================
