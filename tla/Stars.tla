------------------------------- MODULE Stars -------------------------------
(***************************************************************************)
(* Stars of one entity (stars/star.api.ts), and its counters: in its       *)
(* document, and in Redis, from where a cached response takes the values   *)
(* to show (common/mongoose/metrics.plugin.ts, common/api.cache.ts).       *)
(*                                                                         *)
(* A star is a document of its own.  The counters are incremented in Redis *)
(* first and in MongoDB after; a response that is computed sets those in   *)
(* Redis to what it read, a response from the cache increments the views.  *)
(***************************************************************************)
EXTENDS Accounts, Integers, FiniteSets

CONSTANTS
  StarRequests,  \* bound: requests; a star one creates has its name
  OldStars       \* the names of stars given before

StarId == StarRequests \cup OldStars
Counter == {"stars", "views"}

ASSUME StarAssumption ==
  /\ StarRequests \cap OldStars = {}
  /\ IsFiniteSet(StarRequests) /\ IsFiniteSet(OldStars)
  /\ None \notin Int

VARIABLES
  stars,      \* MongoDB: the users who gave them, by name, or None
  db,         \* MongoDB: the counters
  counters,   \* Redis: the counters, or None
  stored,     \* Redis: there is a response of the entity's details
  starReq,    \* the requests
  drifted,    \* history: a star came or went without being counted
  shifted,    \* history: the counters Redis may have wrong
  restarrers  \* history: users two of whose first stars overlapped

starVars == <<stars, db, counters, stored, starReq, drifted, shifted, restarrers>>

-----------------------------------------------------------------------------
Starred == {i \in StarId : stars[i] # None}
StarsBy(u) == {i \in Starred : stars[i] = u}

\* "read" is the counters of the entity's document the request has loaded.
StarRequest(at, kind) ==
  [at |-> at, kind |-> kind, by |-> None, doc |-> None, read |-> db, raced |-> {}]
NoStarRequest(at) == [StarRequest(at, "star") EXCEPT !.read = [c \in Counter |-> 0]]

StarActive(r) == starReq[r].at \notin {"idle", "done"}
CounterOf(r) == IF starReq[r].kind \in {"star", "unstar"} THEN "stars" ELSE "views"
DeltaOf(r) == IF starReq[r].kind = "unstar" THEN -1 ELSE 1

StarInit ==
  /\ \E given \in [OldStars -> Users \cup {None}] :
       /\ \A i, j \in OldStars : i # j /\ given[i] # None => given[i] # given[j]
       /\ stars = [i \in StarId |-> IF i \in OldStars THEN given[i] ELSE None]
  /\ db = [c \in Counter |-> IF c = "stars" THEN Cardinality(Starred) ELSE 0]
  /\ counters = [c \in Counter |-> None]
  /\ stored = FALSE
  /\ starReq = [r \in StarRequests |-> NoStarRequest("idle")]
  /\ drifted = FALSE
  /\ shifted = {}
  /\ restarrers = {}

-----------------------------------------------------------------------------
(* star and unstar *)

FindNoStar(r, u) ==
  /\ starReq[r].at = "idle"
  /\ Admit(u, StarsBy(u) = {})
  /\ IF StarsBy(u) # {}
       THEN starReq' = [starReq EXCEPT ![r] = NoStarRequest("done")] /\ UNCHANGED restarrers
       ELSE /\ starReq' = [starReq EXCEPT ![r] = [StarRequest("starring", "star") EXCEPT !.by = u]]
            /\ restarrers' = IF \E q \in StarRequests : starReq[q].at = "starring"
                                                        /\ starReq[q].by = u
                             THEN restarrers \cup {u} ELSE restarrers
  /\ UNCHANGED <<stars, db, counters, stored, drifted, shifted>>

SaveStar(r) ==
  /\ starReq[r].at = "starring"
  /\ stars' = [stars EXCEPT ![r] = starReq[r].by]
  /\ starReq' = [starReq EXCEPT ![r] = [@ EXCEPT !.at = "bumping", !.by = None, !.doc = None]]
  /\ UNCHANGED <<db, counters, stored, drifted, shifted, restarrers>>

FindStar(r, u) ==
  /\ starReq[r].at = "idle"
  /\ Admit(u, FALSE)
  /\ IF StarsBy(u) = {}
       THEN starReq' = [starReq EXCEPT ![r] = NoStarRequest("done")]
       ELSE \E i \in StarsBy(u) :
              starReq' = [starReq EXCEPT ![r] =
                [StarRequest("unstarring", "unstar") EXCEPT !.by = u, !.doc = i]]
  /\ UNCHANGED <<stars, db, counters, stored, drifted, shifted, restarrers>>

\* Removing a star that another request has removed is no error.
RemoveStar(r) ==
  LET i == starReq[r].doc IN
  /\ starReq[r].at = "unstarring"
  /\ stars' = [stars EXCEPT ![i] = None]
  /\ drifted' = (drifted \/ stars[i] = None)
  /\ starReq' = [starReq EXCEPT ![r] = [@ EXCEPT !.at = "bumping", !.by = None, !.doc = None]]
  /\ UNCHANGED <<db, counters, stored, shifted, restarrers>>

(* GET of the entity's details *)

\* A miss loads the document and bumps the views before the response is stored.
Load(r) ==
  /\ starReq[r].at = "idle"
  /\ starReq' = [starReq EXCEPT ![r] = StarRequest("bumping", "miss")]
  /\ UNCHANGED <<stars, db, counters, stored, drifted, shifted, restarrers>>

\* updateCounters: a hit shows the counters of Redis, and bumps the views.
Hit(r) ==
  /\ starReq[r].at = "idle" /\ stored
  /\ starReq' = [starReq EXCEPT ![r] = StarRequest("bumping", "hit")]
  /\ UNCHANGED <<stars, db, counters, stored, drifted, shifted, restarrers>>

\* setCache: the response, and then the counters it shows.
StoreResponse(r) ==
  /\ starReq[r].at = "storing"
  /\ stored' = TRUE
  /\ starReq' = [starReq EXCEPT ![r].at = "setting"]
  /\ UNCHANGED <<stars, db, counters, drifted, shifted, restarrers>>

\* mset.  What others have counted since, or are about to, is undone.
SetCounters(r) ==
  LET halfway == {CounterOf(q) : q \in {q \in StarRequests : starReq[q].at = "counting"}} IN
  /\ starReq[r].at = "setting"
  /\ counters' = starReq[r].read
  /\ shifted' = starReq[r].raced \cup halfway
  /\ starReq' = [starReq EXCEPT ![r] = NoStarRequest("done")]
  /\ UNCHANGED <<stars, db, stored, drifted, restarrers>>

\* Expiry or invalidation of the response; the counters stay.
Forget ==
  /\ stored
  /\ stored' = FALSE
  /\ UNCHANGED <<stars, db, counters, starReq, drifted, shifted, restarrers>>

(* incrementCounter *)

\* Responses under way were read before the change.
Race(c, next) ==
  [q \in StarRequests |->
     IF next[q].kind = "miss" THEN [next[q] EXCEPT !.raced = @ \cup {c}] ELSE next[q]]

\* incrby or decrby; a key that does not exist counts from zero.
Bump(r) ==
  LET c == CounterOf(r) IN
  /\ starReq[r].at = "bumping"
  /\ counters' = [counters EXCEPT ![c] = (IF @ = None THEN 0 ELSE @) + DeltaOf(r)]
  /\ starReq' = Race(c, [starReq EXCEPT ![r].at = "counting"])
  /\ UNCHANGED <<stars, db, stored, drifted, shifted, restarrers>>

\* What Count(r) does, given the value it leaves.
CountTo(r, value) ==
  LET c == CounterOf(r) IN
  /\ starReq[r].at = "counting"
  /\ db' = [db EXCEPT ![c] = value]
  /\ starReq' = Race(c, [starReq EXCEPT ![r] =
       IF starReq[r].kind = "miss" THEN [@ EXCEPT !.at = "storing"] ELSE NoStarRequest("done")])
  /\ UNCHANGED <<stars, counters, stored, drifted, shifted, restarrers>>

\* Mutant of Count: the counter of the document that was loaded, plus one.
CountFromRead(r) == CountTo(r, starReq[r].read[CounterOf(r)] + DeltaOf(r))

\* $inc
Count(r) == CountTo(r, db[CounterOf(r)] + DeltaOf(r))

\* The process dies, or a database answers with an error.
StarFails(r) ==
  LET job == starReq[r] IN
  /\ StarActive(r)
  /\ drifted' = (drifted \/ (job.kind \in {"star", "unstar"} /\ job.at \in {"bumping", "counting"}))
  /\ shifted' = IF job.at = "counting" THEN shifted \cup {CounterOf(r)}
                ELSE IF job.at = "setting" THEN Counter ELSE shifted
  /\ starReq' = [starReq EXCEPT ![r] = NoStarRequest("done")]
  /\ UNCHANGED <<stars, db, counters, stored, restarrers>>

StarStep(r) ==
  \/ SaveStar(r) \/ RemoveStar(r) \/ StoreResponse(r) \/ SetCounters(r) \/ Bump(r)
  \/ Count(r) \/ StarFails(r)

-----------------------------------------------------------------------------
\* The counter of an entity's stars is their number, but for requests that have
\* saved or removed one and not counted it yet, and once two requests have
\* removed the same star or one failed half-way (star.api.ts:137-139, 161-162).
StarsCounted ==
  LET late == {r \in StarRequests : CounterOf(r) = "stars" /\ starReq[r].at \in {"bumping", "counting"}}
      added == {r \in late : starReq[r].kind = "star"} IN
  drifted \/ Cardinality(Starred) =
               db["stars"] + Cardinality(added) - Cardinality(late \ added)

\* A cached response shows the stars the database counts (api.cache.ts:806-807),
\* but for requests half-way through counting or storing, and unless a response
\* has brought back what it read before others counted.  (The views it always
\* brings back: it bumps them after it has read them.)
StarsShown ==
  stored => \/ "stars" \in shifted
            \/ \E r \in StarRequests :
                 \/ starReq[r].at \in {"storing", "setting"}
                 \/ starReq[r].at = "counting" /\ CounterOf(r) = "stars"
            \/ counters["stars"] = db["stars"]

\* Stars are counted once, in the database and in what the cache answers.
StarsAgree == StarsCounted /\ StarsShown

=============================================================================
