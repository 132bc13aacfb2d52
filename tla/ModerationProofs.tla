-------------------------- MODULE ModerationProofs --------------------------
(***************************************************************************)
(* What is proved about moderation and comments: the flags of an entity    *)
(* are those its history tells, a game counts its approved releases and    *)
(* its public comments, and no comment outlives its release.               *)
(***************************************************************************)
EXTENDS Comments, FiniteSetTheorems, TLAPS

Bit(b) == IF b THEN 1 ELSE 0

-----------------------------------------------------------------------------
(* Types *)

Events == {"approved", "refused", "pending", "deleted", "undeleted"}
FlagRecord == [approved : BOOLEAN, refused : BOOLEAN, deleted : BOOLEAN, auto : BOOLEAN,
               history : Seq(Events)]
Reviewing == {"moderating", "moderated"}
OnReleases == {"details", "created", "noting", "commenting", "moving", "counting"}
States == Reviewing \cup OnReleases \cup {"idle", "done", "answer", "deleting", "removing"}
References == {"release", "release_moderation"}
RequestRecord == [at : States, kind : Actions \cup References \cup {"none", "create", "remove"},
                  on : Entities \cup {None}, by : Users \cup {None}, doc : FlagRecord]

\* Who and what a request at work is about.
WellPlaced(d) ==
  /\ d.at \notin {"idle", "done"} => d.on \in Entities /\ d.by \in Users
  /\ d.at \in OnReleases => d.on \in Releases
  /\ d.at \in Reviewing => d.kind \in Actions
  /\ d.at = "commenting" => d.kind \in References

CommentRecord == [from : Users, on : Releases, ref : References]
Counters == Tallies \cup {"user"}
WorkRecord == [on : Requests \cup {None}, ref : References \cup {"none"},
               was : References \cup {"none"}, todo : SUBSET Counters]

\* A request that moves or counts a comment names it, no other request has one to see to.
WellWorking(at, w) ==
  /\ at \in {"moving", "counting"} => w.on \in Requests /\ w.ref \in References
  /\ at = "moving" => w.todo = Counters
  /\ at \notin {"moving", "counting"} => w = NoWork

DataTypes ==
  /\ saved \subseteq Entities
  /\ creator \in [Entities -> Users \cup {None}]
  /\ moderation \in [Entities -> FlagRecord]
  /\ counted \in [Releases -> Int]
  /\ comments \in [CommentId -> CommentRecord \cup {None}]
  /\ tally \in [Tallies -> [CommentId -> Int]]
  /\ said \in [Users -> Int]

RequestTypes ==
  /\ req \in [Requests -> RequestRecord]
  /\ work \in [Requests -> WorkRecord]
  /\ \A q \in Requests : WellPlaced(req[q]) /\ WellWorking(req[q].at, work[q])

Types == DataTypes /\ RequestTypes

-----------------------------------------------------------------------------
(* The inductive invariants *)

\* What a request will still add to a release's count, and what it will still take away.
Owes(d, r) ==
  /\ d.on = r
  /\ \/ d.at \in {"details", "created"} /\ d.doc.approved
     \/ d.at = "moderated" /\ ~d.doc.approved /\ Moderated(d.kind, d.doc).approved
Repays(d, r) ==
  /\ d.on = r /\ d.at = "moderated" /\ d.doc.approved /\ ~Moderated(d.kind, d.doc).approved

Owing(r) == {q \in Requests : Owes(req[q], r)}
Repaying(r) == {q \in Requests : Repays(req[q], r)}

\* A request that will find its release gone.
Doomed(d, r) == d.on = r /\ d.at \in {"details"} \cup Reviewing
Concerns(d, r) == d.on = r /\ d.at \in {"details", "created"} \cup Reviewing

Balanced(r) ==
  counted[r] = Bit(moderation[r].approved) - Cardinality(Owing(r)) + Cardinality(Repaying(r))

CountInv ==
  \A r \in Releases :
    /\ creator[r] = None => /\ r \notin saved /\ counted[r] = 0
                            /\ \A q \in Requests : ~Concerns(req[q], r)
    /\ \/ r \in outrun \cup failed
       \/ Balanced(r)
       \/ r \notin saved /\ \E q \in Requests : Doomed(req[q], r)

\* Somebody is about to remove r.
Removing(r) == \E p \in Requests : req[p].at = "removing" /\ req[p].on = r

StrayInv == \A c \in Made \ late : comments[c].on \in saved /\ ~Removing(comments[c].on)

\* The requests that have not yet counted a comment at a counter, as one more or one less.
Counting(q, t, ref) == req[q].at = "counting" /\ work[q].ref = ref /\ t \in work[q].todo
Due(c, t, ref) == {q \in Requests : work[q].on = c /\ Counting(q, t, ref)}

\* A request that has not made its comment yet.
Unspoken(c) == req[c].at \notin {"counting", "done"}

TallyInv ==
  \A c \in CommentId :
    /\ Unspoken(c) => /\ comments[c] = None
                      /\ \A t \in Tallies : tally[t][c] = 0
                      /\ \A q \in Requests : work[q].on # c
    /\ c \in Made \ drifted =>
         \A t \in Tallies :
           tally[t][c] = Bit(Public(c)) - Cardinality(Due(c, t, "release"))
                                        + Cardinality(Due(c, t, "release_moderation"))

\* What a user's own requests have not counted for him yet.
Unsaid(u, ref) == {q \in Requests : req[q].by = u /\ Counting(q, "user", ref)}
PublicBy(u) == {c \in Made : comments[c].from = u /\ Public(c)}

SaidInv ==
  \A u \in Users \ lent :
    said[u] >= Cardinality(PublicBy(u)) - Cardinality(Unsaid(u, "release"))
                                        + Cardinality(Unsaid(u, "release_moderation"))

ModerationInv == Types /\ HistoryExplains /\ CountInv /\ StrayInv /\ TallyInv /\ SaidInv

-----------------------------------------------------------------------------
(* Types are kept *)

\* A request takes the state d, with the work w.
Turns(q, d, w) ==
  /\ req' = [req EXCEPT ![q] = d] /\ d \in RequestRecord /\ WellPlaced(d)
  /\ work' = [work EXCEPT ![q] = w] /\ w \in WorkRecord /\ WellWorking(d.at, w)
Turned(d, at) == [d EXCEPT !.at = at]

LEMMA Distinct ==
  /\ \A e \in Entities : e # None
  /\ \A u \in Users : u # None
  /\ \A q \in Requests : q # None
  /\ Releases \subseteq Entities /\ Backglasses \subseteq Entities
  /\ Moderators \subseteq Users /\ AutoApprovers \subseteq Users
BY ModerationAssumption DEF Entities

LEMMA TurnTypes ==
  ASSUME RequestTypes, NEW q \in Requests, NEW d, NEW w, Turns(q, d, w)
  PROVE  RequestTypes'
<1>1. req' \in [Requests -> RequestRecord] /\ work' \in [Requests -> WorkRecord]
  BY DEF RequestTypes, Turns
<1>2. ASSUME NEW p \in Requests
      PROVE  WellPlaced(req'[p]) /\ WellWorking(req'[p].at, work'[p])
  <2>1. CASE p = q
    <3>1. req'[p] = d /\ work'[p] = w
      BY <2>1 DEF RequestTypes, Turns
    <3> QED
      BY <3>1 DEF Turns
  <2>2. CASE p # q
    <3>1. req'[p] = req[p] /\ work'[p] = work[p]
      BY <2>2 DEF RequestTypes, Turns
    <3> QED
      BY <3>1 DEF RequestTypes
  <2> QED
    BY <2>1, <2>2
<1> QED
  BY <1>1, <1>2 DEF RequestTypes, WellPlaced, WellWorking

\* What a step that turns a request leaves of the others.
LEMMA TurnKeeps ==
  ASSUME RequestTypes, NEW q \in Requests, NEW d, NEW w, Turns(q, d, w)
  PROVE  /\ req'[q] = d /\ work'[q] = w
         /\ \A p \in Requests \ {q} : req'[p] = req[p] /\ work'[p] = work[p]
BY DEF RequestTypes, Turns

LEMMA FlagsTyped ==
  /\ NoFlags \in FlagRecord /\ ~NoFlags.approved
  /\ \A u : AutoApproved(u) \in FlagRecord
<1>1. <<>> \in Seq(Events) /\ "approved" \in Events
  BY DEF Events
<1>2. <<"approved">> \in Seq(Events)
  BY <1>1
<1> QED
  BY <1>1, <1>2 DEF NoFlags, AutoApproved, Flags, FlagRecord

LEMMA NoWorkTyped == NoWork \in WorkRecord
BY DEF NoWork, WorkRecord

LEMMA OverTyped ==
  \A at \in {"idle", "done"} :
    /\ Over(at) \in RequestRecord /\ Over(at).at = at /\ Over(at).on = None
    /\ WellPlaced(Over(at)) /\ WellWorking(at, NoWork)
<1>1. NoFlags \in FlagRecord
  BY FlagsTyped
<1> QED
  BY <1>1 DEF Over, Request, RequestRecord, WellPlaced, WellWorking, States, OnReleases, Reviewing

\* A request that begins.
LEMMA BeginTurns ==
  ASSUME DataTypes, RequestTypes, NEW q \in Requests, NEW at \in States, NEW kind,
         NEW e \in Entities, NEW u \in Users, Begin(q, at, kind, e, u),
         kind \in Actions \cup References \cup {"remove"},
         WellPlaced(Request(at, kind, e, u, moderation[e])),
         NEW w \in WorkRecord, WellWorking(at, w), work' = [work EXCEPT ![q] = w]
  PROVE  Turns(q, Request(at, kind, e, u, moderation[e]), w)
<1>1. moderation[e] \in FlagRecord
  BY DEF DataTypes
<1>2. /\ Request(at, kind, e, u, moderation[e]) \in RequestRecord
      /\ Request(at, kind, e, u, moderation[e]).at = at
  BY <1>1 DEF Request, RequestRecord
<1> QED
  BY <1>2 DEF Begin, Turns

LEMMA SameWork ==
  ASSUME RequestTypes, NEW q \in Requests, UNCHANGED work
  PROVE  work' = [work EXCEPT ![q] = work[q]] /\ work[q] \in WorkRecord
BY DEF RequestTypes

\* A request that goes on.
LEMMA GotoTurns ==
  ASSUME RequestTypes, NEW q \in Requests, NEW at \in States, Goto(q, at),
         WellPlaced(Turned(req[q], at)),
         NEW w \in WorkRecord, WellWorking(at, w), work' = [work EXCEPT ![q] = w]
  PROVE  Turns(q, Turned(req[q], at), w)
<1>1. req[q] \in RequestRecord
  BY DEF RequestTypes
<1>2. Turned(req[q], at) \in RequestRecord /\ Turned(req[q], at).at = at
  BY <1>1 DEF Turned, RequestRecord
<1>3. req' = [req EXCEPT ![q] = Turned(req[q], at)]
  BY <1>1 DEF Goto, Turned
<1> QED
  BY <1>2, <1>3 DEF Turns

\* A request that ends.
LEMMA FinishTurns ==
  ASSUME RequestTypes, NEW q \in Requests, Finish(q), work' = [work EXCEPT ![q] = NoWork]
  PROVE  Turns(q, Over("done"), NoWork)
<1>1. req' = [req EXCEPT ![q] = Over("done")]
  BY DEF Finish
<1> QED
  BY <1>1, OverTyped, NoWorkTyped DEF Turns

\* The work of a request that has none.
LEMMA Workless ==
  ASSUME RequestTypes, NEW q \in Requests, req[q].at \notin {"moving", "counting"}
  PROVE  work[q] = NoWork /\ (UNCHANGED work => work' = [work EXCEPT ![q] = NoWork])
<1>1. work[q] = NoWork
  BY DEF RequestTypes, WellWorking
<1> QED
  BY <1>1, SameWork

-----------------------------------------------------------------------------
(* The turn each action gives a request *)

CreateRequest(e, u) ==
  IF e \in Releases THEN Request("details", "create", e, u, AutoApproved(u)) ELSE Over("done")

LEMMA CreateTurns ==
  ASSUME Types, NEW q \in Requests, NEW e \in Entities, NEW u \in Users, Create(q, e, u), UNCHANGED work
  PROVE  Turns(q, CreateRequest(e, u), NoWork)
<1>1. work' = [work EXCEPT ![q] = NoWork]
  BY Workless DEF Create, Types
<1>2. CASE e \in Releases
  <2>1. AutoApproved(u) \in FlagRecord
    BY FlagsTyped
  <2>2. Request("details", "create", e, u, AutoApproved(u)) \in RequestRecord
    BY <2>1 DEF Request, RequestRecord, States, OnReleases
  <2>3. /\ WellPlaced(Request("details", "create", e, u, AutoApproved(u)))
        /\ WellWorking("details", NoWork)
        /\ Request("details", "create", e, u, AutoApproved(u)).at = "details"
    BY <1>2 DEF Request, WellPlaced, WellWorking, OnReleases, Reviewing
  <2> QED
    BY <1>1, <1>2, <2>2, <2>3, NoWorkTyped DEF Create, CreateRequest, Turns
<1>3. CASE e \notin Releases
  BY <1>1, <1>3, OverTyped, NoWorkTyped DEF Create, CreateRequest, Turns
<1> QED
  BY <1>2, <1>3

Reloaded(d) == [d EXCEPT !.at = "created", !.doc = moderation[d.on]]

LEMMA CreateReloadTurns ==
  ASSUME Types, NEW q \in Requests, CreateReload(q), UNCHANGED work
  PROVE  /\ req[q].on \in Releases
         /\ req[q].on \notin saved => Turns(q, Over("done"), NoWork)
         /\ req[q].on \in saved => Turns(q, Reloaded(req[q]), NoWork)
<1>1. req[q].at = "details" /\ work' = [work EXCEPT ![q] = NoWork]
  BY Workless DEF CreateReload, Types
<1>2. req[q] \in RequestRecord /\ WellPlaced(req[q])
  BY DEF Types, RequestTypes
<1>3. req[q].on \in Releases /\ req[q].by \in Users
  BY <1>1, <1>2 DEF WellPlaced, OnReleases
<1>4. ASSUME req[q].on \notin saved  PROVE Turns(q, Over("done"), NoWork)
  BY <1>1, <1>4, FinishTurns DEF CreateReload, Types
<1>5. ASSUME req[q].on \in saved  PROVE Turns(q, Reloaded(req[q]), NoWork)
  <2>1. moderation[req[q].on] \in FlagRecord
    BY <1>3, Distinct DEF Types, DataTypes
  <2>2. Reloaded(req[q]) \in RequestRecord /\ Reloaded(req[q]).at = "created"
    BY <1>2, <2>1 DEF Reloaded, RequestRecord, States, OnReleases
  <2>3. Reloaded(req[q]).on = req[q].on /\ Reloaded(req[q]).by = req[q].by
    BY <1>2 DEF Reloaded, RequestRecord
  <2>4. WellPlaced(Reloaded(req[q])) /\ WellWorking("created", NoWork)
    BY <1>3, <2>2, <2>3, Distinct DEF WellPlaced, WellWorking, Reviewing
  <2>5. req' = [req EXCEPT ![q] = Reloaded(req[q])]
    BY <1>5, <1>2 DEF CreateReload, Reloaded, Types, RequestTypes
  <2> QED
    BY <1>1, <2>2, <2>4, <2>5, NoWorkTyped DEF Turns
<1> QED
  BY <1>3, <1>4, <1>5

LEMMA CreateCountTurns ==
  ASSUME Types, NEW q \in Requests, CreateCount(q), UNCHANGED work
  PROVE  Turns(q, Over("done"), NoWork) /\ req[q].on \in Releases
<1>1. req[q].at = "created" /\ Finish(q)
  BY DEF CreateCount
<1>2. req[q].on \in Releases
  BY <1>1 DEF Types, RequestTypes, WellPlaced, OnReleases
<1> QED
  BY <1>1, <1>2, Workless, FinishTurns DEF Types

LEMMA ModerateTurns ==
  ASSUME Types, NEW q \in Requests, NEW e \in Entities, NEW u \in Users, NEW action \in Actions,
         Moderate(q, e, u, action), UNCHANGED work
  PROVE  Turns(q, Request("moderating", action, e, u, moderation[e]), NoWork)
<1>1. Begin(q, "moderating", action, e, u) /\ req[q].at = "idle"
  BY DEF Moderate, Begin
<1>2. WellPlaced(Request("moderating", action, e, u, moderation[e])) /\ WellWorking("moderating", NoWork)
  BY DEF Request, WellPlaced, WellWorking, OnReleases, Reviewing
<1>3. "moderating" \in States /\ work' = [work EXCEPT ![q] = NoWork]
  BY <1>1, Workless DEF States, Reviewing, Types
<1> QED
  BY <1>1, <1>2, <1>3, NoWorkTyped, BeginTurns DEF Types

LEMMA DeleteTurns ==
  ASSUME Types, NEW q \in Requests, NEW e \in Entities, NEW u \in Users, Delete(q, e, u), UNCHANGED work
  PROVE  Turns(q, Request("deleting", "remove", e, u, moderation[e]), NoWork)
<1>1. Begin(q, "deleting", "remove", e, u) /\ req[q].at = "idle"
  BY DEF Delete, Begin
<1>2. WellPlaced(Request("deleting", "remove", e, u, moderation[e])) /\ WellWorking("deleting", NoWork)
  BY DEF Request, WellPlaced, WellWorking, OnReleases, Reviewing
<1>3. "deleting" \in States /\ work' = [work EXCEPT ![q] = NoWork]
  BY <1>1, Workless DEF States, Types
<1> QED
  BY <1>1, <1>2, <1>3, NoWorkTyped, BeginTurns DEF Types

LEMMA ModerateUpdateTurns ==
  ASSUME Types, NEW q \in Requests, ModerateUpdate(q), UNCHANGED work
  PROVE  /\ Turns(q, Turned(req[q], "moderated"), NoWork)
         /\ req[q].on \in Entities /\ req[q].kind \in Actions
<1>1. req[q].at = "moderating" /\ Goto(q, "moderated")
  BY DEF ModerateUpdate
<1>2. req[q] \in RequestRecord /\ WellPlaced(req[q])
  BY DEF Types, RequestTypes
<1>3. req[q].on \in Entities /\ req[q].kind \in Actions /\ req[q].by \in Users
  BY <1>1, <1>2 DEF WellPlaced, Reviewing
<1>4. WellPlaced(Turned(req[q], "moderated")) /\ WellWorking("moderated", NoWork)
  BY <1>2, <1>3 DEF Turned, WellPlaced, WellWorking, OnReleases, Reviewing, RequestRecord
<1>5. "moderated" \in States /\ work' = [work EXCEPT ![q] = NoWork]
  BY <1>1, Workless DEF States, Reviewing, Types
<1> QED
  BY <1>1, <1>3, <1>4, <1>5, NoWorkTyped, GotoTurns DEF Types

LEMMA ModerateCountTurns ==
  ASSUME Types, NEW q \in Requests, NEW next \in {"answer", "noting"}, ModerateCount(q, next),
         next = "noting" => req[q].on \in Releases, UNCHANGED work
  PROVE  /\ req[q].on \in Entities /\ req[q].kind \in Actions
         /\ req[q].on \notin saved => Turns(q, Over("done"), NoWork)
         /\ req[q].on \in saved => Turns(q, Turned(req[q], next), NoWork)
<1>1. req[q].at = "moderated" /\ work' = [work EXCEPT ![q] = NoWork]
  BY Workless DEF ModerateCount, Types
<1>2. req[q] \in RequestRecord /\ WellPlaced(req[q])
  BY DEF Types, RequestTypes
<1>3. req[q].on \in Entities /\ req[q].kind \in Actions /\ req[q].by \in Users
  BY <1>1, <1>2 DEF WellPlaced, Reviewing
<1>4. ASSUME req[q].on \notin saved  PROVE Turns(q, Over("done"), NoWork)
  BY <1>1, <1>4, FinishTurns DEF ModerateCount, Types
<1>5. ASSUME req[q].on \in saved  PROVE Turns(q, Turned(req[q], next), NoWork)
  <2>1. WellPlaced(Turned(req[q], next)) /\ WellWorking(next, NoWork)
    BY <1>2, <1>3 DEF Turned, WellPlaced, WellWorking, OnReleases, Reviewing, RequestRecord
  <2>2. next \in States /\ Goto(q, next)
    BY <1>5 DEF States, OnReleases, ModerateCount
  <2> QED
    BY <1>1, <2>1, <2>2, NoWorkTyped, GotoTurns DEF Types
<1> QED
  BY <1>3, <1>4, <1>5

LEMMA EndTurns ==
  ASSUME Types, NEW q \in Requests, Finish(q), req[q].at \notin {"moving", "counting"}, UNCHANGED work
  PROVE  Turns(q, Over("done"), NoWork)
BY Workless, FinishTurns DEF Types

LEMMA MadeTyped ==
  ASSUME Types
  PROVE  \A c \in Made : /\ c \in Requests /\ comments[c] \in CommentRecord
                         /\ comments[c].from \in Users /\ comments[c].on \in Releases
                         /\ comments[c].ref \in References
BY DEF Made, CommentId, Types, DataTypes, CommentRecord

LEMMA StartCommentTurns ==
  ASSUME Types, NEW q \in Requests, NEW r \in Releases, NEW u \in Users, NEW ref \in References,
         StartComment(q, r, u, ref)
  PROVE  Turns(q, Request("commenting", ref, r, u, moderation[r]), NoWork)
<1>1. Begin(q, "commenting", ref, r, u) /\ req[q].at = "idle" /\ UNCHANGED work
  BY DEF StartComment, Begin, commentVars
<1>2. WellPlaced(Request("commenting", ref, r, u, moderation[r])) /\ WellWorking("commenting", NoWork)
  BY Distinct DEF Request, WellPlaced, WellWorking, OnReleases, Reviewing
<1>3. "commenting" \in States /\ work' = [work EXCEPT ![q] = NoWork] /\ r \in Entities
  BY <1>1, Workless, Distinct DEF States, OnReleases, Types
<1> QED
  BY <1>1, <1>2, <1>3, NoWorkTyped, BeginTurns DEF Types

Told(q) == [on |-> q, ref |-> "release", was |-> "none", todo |-> Counters]

LEMMA SaveCommentTurns ==
  ASSUME Types, NEW q \in Requests, SaveComment(q)
  PROVE  /\ req[q].on \in Releases /\ req[q].by \in Users /\ req[q].kind \in References
         /\ req[q].kind = "release" => Turns(q, Turned(req[q], "counting"), Told(q))
         /\ req[q].kind # "release" => Turns(q, Over("done"), NoWork)
<1>1. req[q].at = "commenting"
  BY DEF SaveComment
<1>2. req[q] \in RequestRecord /\ WellPlaced(req[q])
  BY DEF Types, RequestTypes
<1>3. req[q].on \in Releases /\ req[q].kind \in References /\ req[q].by \in Users /\ req[q].on \in Entities
  BY <1>1, <1>2 DEF WellPlaced, OnReleases
<1>4. ASSUME req[q].kind # "release"  PROVE Turns(q, Over("done"), NoWork)
  BY <1>1, <1>4, EndTurns DEF SaveComment
<1>5. ASSUME req[q].kind = "release"  PROVE Turns(q, Turned(req[q], "counting"), Told(q))
  <2>1. WellPlaced(Turned(req[q], "counting"))
    BY <1>2, <1>3 DEF Turned, WellPlaced, OnReleases, Reviewing, RequestRecord
  <2>2. "counting" \in States /\ Goto(q, "counting")
    BY <1>5 DEF States, OnReleases, SaveComment
  <2>3. Told(q) \in WorkRecord /\ WellWorking("counting", Told(q))
    BY DEF Told, WorkRecord, References, WellWorking
  <2>4. work' = [work EXCEPT ![q] = Told(q)]
    BY <1>5 DEF SaveComment, Told, Counters
  <2> QED
    BY <2>1, <2>2, <2>3, <2>4, GotoTurns DEF Types
<1> QED
  BY <1>3, <1>4, <1>5

LEMMA CommentOnModerationTurns ==
  ASSUME Types, NEW q \in Requests, CommentOnModeration(q)
  PROVE  Turns(q, Over("done"), NoWork) /\ req[q].on \in Releases /\ req[q].by \in Users
<1>1. req[q].at = "noting" /\ Finish(q) /\ UNCHANGED work
  BY DEF CommentOnModeration
<1>2. req[q].on \in Releases /\ req[q].by \in Users
  BY <1>1 DEF Types, RequestTypes, WellPlaced, OnReleases
<1> QED
  BY <1>1, <1>2, EndTurns

ToMove(c, ref) == [on |-> c, ref |-> ref, was |-> comments[c].ref, todo |-> Counters]

LEMMA StartMoveTurns ==
  ASSUME Types, NEW q \in Requests, NEW c \in CommentId, NEW u \in Users, NEW ref \in References,
         StartMove(q, c, u, ref)
  PROVE  Turns(q, Request("moving", ref, comments[c].on, u, moderation[comments[c].on]), ToMove(c, ref))
<1> DEFINE r == comments[c].on
<1>1. Begin(q, "moving", ref, r, u) /\ work' = [work EXCEPT ![q] = ToMove(c, ref)]
  BY DEF StartMove, ToMove, Counters
<1>2. r \in Releases /\ r \in Entities
  BY MadeTyped, Distinct DEF StartMove
<1>3. WellPlaced(Request("moving", ref, r, u, moderation[r])) /\ WellWorking("moving", ToMove(c, ref))
  BY <1>2 DEF Request, WellPlaced, WellWorking, OnReleases, Reviewing, ToMove, CommentId
<1>4. "moving" \in States /\ ToMove(c, ref) \in WorkRecord
  BY MadeTyped DEF States, OnReleases, ToMove, WorkRecord, CommentId, StartMove, CommentRecord
<1> HIDE DEF r
<1> QED
  BY <1>1, <1>2, <1>3, <1>4, BeginTurns DEF Types, r

\* What a request that moves or counts a comment sees to.
LEMMA Seeing ==
  ASSUME Types, NEW q \in Requests, req[q].at \in {"moving", "counting"}
  PROVE  /\ work[q].on \in Requests /\ work[q].ref \in References /\ work[q].todo \subseteq Counters
         /\ req[q].on \in Releases /\ req[q].on \in Entities /\ req[q].by \in Users
BY DEF Types, RequestTypes, WellPlaced, WellWorking, WorkRecord, OnReleases

LEMMA SaveMoveTurns ==
  ASSUME Types, NEW q \in Requests, SaveMove(q)
  PROVE  /\ work[q].on \notin Made => Turns(q, Over("done"), NoWork)
         /\ work[q].on \in Made => Turns(q, Turned(req[q], "counting"), work[q])
<1>1. req[q].at = "moving"
  BY DEF SaveMove
<1>2. ASSUME work[q].on \notin Made  PROVE Turns(q, Over("done"), NoWork)
  BY <1>2, FinishTurns DEF SaveMove, Types
<1>3. ASSUME work[q].on \in Made  PROVE Turns(q, Turned(req[q], "counting"), work[q])
  <2>1. req[q] \in RequestRecord
    BY DEF Types, RequestTypes
  <2>2. WellPlaced(Turned(req[q], "counting")) /\ WellWorking("counting", work[q])
    BY <1>1, <2>1, Seeing DEF Turned, WellPlaced, WellWorking, OnReleases, Reviewing, RequestRecord
  <2>3. "counting" \in States /\ Goto(q, "counting") /\ UNCHANGED work
    BY <1>3 DEF States, OnReleases, SaveMove
  <2> QED
    BY <2>2, <2>3, SameWork, GotoTurns DEF Types
<1> QED
  BY <1>2, <1>3

Left(q, t) == [work[q] EXCEPT !.todo = @ \ {t}]

LEMMA CountTurns ==
  ASSUME Types, NEW q \in Requests, NEW t \in Counters, Count(q, t)
  PROVE  /\ work[q].todo \ {t} = {} => Turns(q, Over("done"), NoWork)
         /\ work[q].todo \ {t} # {} => Turns(q, req[q], Left(q, t))
<1>1. req[q].at = "counting" /\ t \in work[q].todo
  BY DEF Count
<1>2. ASSUME work[q].todo \ {t} = {}  PROVE Turns(q, Over("done"), NoWork)
  BY <1>2, FinishTurns DEF Count, Types
<1>3. ASSUME work[q].todo \ {t} # {}  PROVE Turns(q, req[q], Left(q, t))
  <2>1. req[q] \in RequestRecord /\ WellPlaced(req[q]) /\ work[q] \in WorkRecord /\ WellWorking(req[q].at, work[q])
    BY DEF Types, RequestTypes
  <2>2. Left(q, t) \in WorkRecord /\ Left(q, t).on = work[q].on /\ Left(q, t).ref = work[q].ref
    BY <2>1 DEF Left, WorkRecord
  <2>3. WellWorking(req[q].at, Left(q, t))
    BY <1>1, <2>1, <2>2 DEF WellWorking
  <2>4. work' = [work EXCEPT ![q] = Left(q, t)]
    BY <1>3, <2>1 DEF Count, Left, Types, RequestTypes
  <2>5. req' = [req EXCEPT ![q] = req[q]]
    BY <1>3 DEF Count, Types, RequestTypes
  <2> QED
    BY <2>1, <2>2, <2>3, <2>4, <2>5 DEF Turns
<1> QED
  BY <1>2, <1>3

LEMMA RemoveCommentsTurns ==
  ASSUME Types, NEW q \in Requests, RemoveComments(q)
  PROVE  Turns(q, Turned(req[q], "removing"), NoWork) /\ req[q].on \in Entities
<1>1. req[q].at = "deleting" /\ Goto(q, "removing") /\ UNCHANGED work
  BY DEF RemoveComments
<1>2. req[q] \in RequestRecord /\ WellPlaced(req[q])
  BY DEF Types, RequestTypes
<1>3. req[q].on \in Entities /\ req[q].by \in Users
  BY <1>1, <1>2 DEF WellPlaced
<1>4. WellPlaced(Turned(req[q], "removing")) /\ WellWorking("removing", NoWork)
  BY <1>2, <1>3 DEF Turned, WellPlaced, WellWorking, OnReleases, Reviewing, RequestRecord
<1>5. "removing" \in States /\ work' = [work EXCEPT ![q] = NoWork]
  BY <1>1, Workless DEF States, Types
<1> QED
  BY <1>1, <1>3, <1>4, <1>5, NoWorkTyped, GotoTurns DEF Types

LEMMA CommentDiesTurns ==
  ASSUME Types, NEW q \in Requests, CommentDies(q)
  PROVE  Turns(q, Over("done"), NoWork)
BY FinishTurns DEF CommentDies, Die, Types

-----------------------------------------------------------------------------
(* Types, step by step *)

\* The moderation data a request writes.
Written(q) ==
  LET new == Moderated(req[q].kind, req[q].doc) IN
  [moderation[req[q].on] EXCEPT
     !.approved = new.approved, !.refused = new.refused, !.deleted = new.deleted,
     !.history = Append(moderation[req[q].on].history, EventOf(req[q].kind))]

LEMMA EventTyped == \A action \in Actions : EventOf(action) \in Events
BY DEF Actions, EventOf, Events

LEMMA ModeratedTyped ==
  \A action \in Actions, doc \in FlagRecord :
    /\ Moderated(action, doc).approved \in BOOLEAN
    /\ Moderated(action, doc).refused \in BOOLEAN
    /\ Moderated(action, doc).deleted \in BOOLEAN
    /\ Moderated(action, doc).approved <=>
         (action = "approve" \/ (action \in {"delete", "undelete"} /\ doc.approved))
    /\ Moderated(action, doc).refused <=>
         (action = "refuse" \/ (action \in {"delete", "undelete"} /\ doc.refused))
    /\ Moderated(action, doc).deleted <=> (action = "delete")
BY DEF Moderated, FlagRecord

LEMMA WrittenTyped ==
  ASSUME Types, NEW q \in Requests, ModerateUpdate(q), req[q].on \in saved
  PROVE  /\ req[q].on \in Entities /\ req[q].kind \in Actions /\ req[q].doc \in FlagRecord
         /\ moderation' = [moderation EXCEPT ![req[q].on] = Written(q)]
         /\ Written(q) \in FlagRecord
         /\ Written(q).approved = Moderated(req[q].kind, req[q].doc).approved
         /\ Written(q).refused = Moderated(req[q].kind, req[q].doc).refused
         /\ Written(q).deleted = Moderated(req[q].kind, req[q].doc).deleted
         /\ Written(q).history = Append(moderation[req[q].on].history, EventOf(req[q].kind))
         /\ moderation'[req[q].on] = Written(q)
         /\ \A e \in Entities \ {req[q].on} : moderation'[e] = moderation[e]
<1>1. req[q] \in RequestRecord /\ WellPlaced(req[q]) /\ req[q].at = "moderating"
  BY DEF Types, RequestTypes, ModerateUpdate
<1>2. req[q].on \in Entities /\ req[q].kind \in Actions /\ req[q].doc \in FlagRecord
  BY <1>1 DEF WellPlaced, Reviewing, RequestRecord
<1>3. moderation' = [moderation EXCEPT ![req[q].on] = Written(q)]
  BY Zenon DEF ModerateUpdate, Written
<1>4. moderation[req[q].on] \in FlagRecord /\ moderation \in [Entities -> FlagRecord]
  BY <1>2 DEF Types, DataTypes
<1>5. EventOf(req[q].kind) \in Events
  BY <1>2, EventTyped
<1>6. Append(moderation[req[q].on].history, EventOf(req[q].kind)) \in Seq(Events)
  BY <1>4, <1>5 DEF FlagRecord
<1>7. PICK a \in BOOLEAN, r \in BOOLEAN, d \in BOOLEAN :
        /\ a = Moderated(req[q].kind, req[q].doc).approved
        /\ r = Moderated(req[q].kind, req[q].doc).refused
        /\ d = Moderated(req[q].kind, req[q].doc).deleted
  BY <1>2, ModeratedTyped
<1>8. Written(q) = [moderation[req[q].on] EXCEPT !.approved = a, !.refused = r, !.deleted = d,
                       !.history = Append(moderation[req[q].on].history, EventOf(req[q].kind))]
  BY <1>7, <1>4 DEF Written, FlagRecord
<1>9. /\ Written(q) \in FlagRecord
      /\ Written(q).approved = a /\ Written(q).refused = r /\ Written(q).deleted = d
      /\ Written(q).history = Append(moderation[req[q].on].history, EventOf(req[q].kind))
  BY <1>4, <1>6, <1>7, <1>8 DEF FlagRecord
<1> QED
  BY <1>2, <1>3, <1>4, <1>7, <1>9

SameData == UNCHANGED <<saved, creator, moderation, counted, comments, tally, said>>

LEMMA DataStays ==
  ASSUME DataTypes, SameData  PROVE DataTypes'
BY DEF DataTypes, SameData, Made

LEMMA CreateTypes ==
  ASSUME Types, NEW q \in Requests, NEW e \in Entities, NEW u \in Users, Create(q, e, u),
         UNCHANGED commentVars
  PROVE  Types'
<1>1. RequestTypes'
  BY CreateTurns, TurnTypes DEF Types, commentVars
<1>2. AutoApproved(u) \in FlagRecord
  BY FlagsTyped
<1>3. DataTypes'
  BY <1>2 DEF Types, DataTypes, Create, commentVars
<1> QED
  BY <1>1, <1>3 DEF Types

LEMMA ReloadTypes ==
  ASSUME Types, NEW q \in Requests, CreateReload(q), UNCHANGED commentVars
  PROVE  Types'
<1>1. RequestTypes'
  BY CreateReloadTurns, TurnTypes DEF Types, commentVars
<1>2. SameData
  BY DEF SameData, CreateReload, commentVars
<1> QED
  BY <1>1, <1>2, DataStays DEF Types

LEMMA CreateCountTypes ==
  ASSUME Types, NEW q \in Requests, CreateCount(q), UNCHANGED commentVars
  PROVE  Types'
<1>1. RequestTypes' /\ req[q].on \in Releases
  BY CreateCountTurns, TurnTypes DEF Types, commentVars
<1>2. counted[req[q].on] \in Int
  BY <1>1 DEF Types, DataTypes
<1>3. counted' \in [Releases -> Int]
  BY <1>1, <1>2 DEF CreateCount, Types, DataTypes
<1>4. DataTypes'
  BY <1>3 DEF Types, DataTypes, CreateCount, commentVars
<1> QED
  BY <1>1, <1>4 DEF Types

LEMMA ModerateTypes ==
  ASSUME Types, NEW q \in Requests, NEW e \in Entities, NEW u \in Users, NEW action \in Actions,
         Moderate(q, e, u, action), UNCHANGED commentVars
  PROVE  Types'
<1>1. RequestTypes'
  BY ModerateTurns, TurnTypes DEF Types, commentVars
<1>2. SameData
  BY DEF SameData, Moderate, commentVars
<1> QED
  BY <1>1, <1>2, DataStays DEF Types

LEMMA DeleteTypes ==
  ASSUME Types, NEW q \in Requests, NEW e \in Entities, NEW u \in Users, Delete(q, e, u),
         UNCHANGED commentVars
  PROVE  Types'
<1>1. RequestTypes'
  BY DeleteTurns, TurnTypes DEF Types, commentVars
<1>2. SameData
  BY DEF SameData, Delete, commentVars
<1> QED
  BY <1>1, <1>2, DataStays DEF Types

LEMMA UpdateTypes ==
  ASSUME Types, NEW q \in Requests, ModerateUpdate(q), UNCHANGED commentVars
  PROVE  Types'
<1>1. RequestTypes'
  BY ModerateUpdateTurns, TurnTypes DEF Types, commentVars
<1>2. moderation' \in [Entities -> FlagRecord]
  <2>1. CASE req[q].on \in saved
    BY <2>1, WrittenTyped DEF Types, DataTypes
  <2>2. CASE req[q].on \notin saved
    BY <2>2 DEF ModerateUpdate, Types, DataTypes
  <2> QED
    BY <2>1, <2>2
<1>3. DataTypes'
  BY <1>2 DEF Types, DataTypes, ModerateUpdate, commentVars
<1> QED
  BY <1>1, <1>3 DEF Types

LEMMA ModerateCountTypes ==
  ASSUME Types, NEW q \in Requests, NEW next \in {"answer", "noting"}, ModerateCount(q, next),
         next = "noting" => req[q].on \in Releases, UNCHANGED commentVars
  PROVE  Types'
<1>1. RequestTypes' /\ req[q].on \in Entities
  BY ModerateCountTurns, TurnTypes DEF Types, commentVars
<1>2. counted' \in [Releases -> Int]
  <2>1. counted \in [Releases -> Int]
    BY DEF Types, DataTypes
  <2>2. CASE req[q].on \in Releases
    <3>1. counted[req[q].on] + 1 \in Int /\ counted[req[q].on] - 1 \in Int
      BY <2>1, <2>2
    <3> QED
      BY <2>1, <3>1 DEF ModerateCount
  <2>3. CASE req[q].on \notin Releases
    BY <2>1, <2>3 DEF ModerateCount
  <2> QED
    BY <2>2, <2>3
<1>3. DataTypes'
  BY <1>2 DEF Types, DataTypes, ModerateCount, commentVars
<1> QED
  BY <1>1, <1>3 DEF Types

LEMMA RemoveTypes ==
  ASSUME Types, NEW q \in Requests, RemoveEntity(q), UNCHANGED commentVars
  PROVE  Types'
<1>1. RequestTypes'
  BY EndTurns, TurnTypes DEF RemoveEntity, Types, commentVars
<1>2. DataTypes'
  BY DEF Types, DataTypes, RemoveEntity, commentVars
<1> QED
  BY <1>1, <1>2 DEF Types

Answered(q) == req[q].at = "answer" /\ Finish(q) /\ SameEntities

LEMMA AnsweredTypes ==
  ASSUME Types, NEW q \in Requests, Answered(q), UNCHANGED commentVars
  PROVE  Types'
<1>1. RequestTypes'
  BY EndTurns, TurnTypes DEF Answered, Types, commentVars
<1>2. SameData
  BY DEF SameData, SameEntities, Answered, commentVars
<1> QED
  BY <1>1, <1>2, DataStays DEF Types

LEMMA StartCommentTypes ==
  ASSUME Types, NEW q \in Requests, NEW r \in Releases, NEW u \in Users, NEW ref \in References,
         StartComment(q, r, u, ref)
  PROVE  Types'
<1>1. RequestTypes'
  BY StartCommentTurns, TurnTypes DEF Types
<1>2. SameData
  BY DEF SameData, SameEntities, StartComment, commentVars
<1> QED
  BY <1>1, <1>2, DataStays DEF Types

LEMMA StartMoveTypes ==
  ASSUME Types, NEW q \in Requests, NEW c \in CommentId, NEW u \in Users, NEW ref \in References,
         StartMove(q, c, u, ref)
  PROVE  Types'
<1>1. RequestTypes'
  BY StartMoveTurns, TurnTypes DEF Types
<1>2. SameData
  BY DEF SameData, SameEntities, StartMove
<1> QED
  BY <1>1, <1>2, DataStays DEF Types

LEMMA SaveCommentTypes ==
  ASSUME Types, NEW q \in Requests, SaveComment(q)
  PROVE  Types'
<1>1. RequestTypes' /\ req[q].on \in Releases /\ req[q].by \in Users /\ req[q].kind \in References
  BY SaveCommentTurns, TurnTypes DEF Types
<1>2. Comment(req[q].by, req[q].on, req[q].kind) \in CommentRecord
  BY <1>1 DEF Comment, CommentRecord
<1>3. comments' \in [CommentId -> CommentRecord \cup {None}]
  BY <1>2 DEF SaveComment, Types, DataTypes, CommentId
<1>4. DataTypes'
  BY <1>3 DEF Types, DataTypes, SaveComment, SameEntities
<1> QED
  BY <1>1, <1>4 DEF Types

LEMMA NoteTypes ==
  ASSUME Types, NEW q \in Requests, CommentOnModeration(q)
  PROVE  Types'
<1>1. RequestTypes' /\ req[q].on \in Releases /\ req[q].by \in Users
  BY CommentOnModerationTurns, TurnTypes DEF Types
<1>2. Comment(req[q].by, req[q].on, "release_moderation") \in CommentRecord
  BY <1>1 DEF Comment, CommentRecord, References
<1>3. comments' \in [CommentId -> CommentRecord \cup {None}]
  BY <1>2 DEF CommentOnModeration, Types, DataTypes, CommentId
<1>4. DataTypes'
  BY <1>3 DEF Types, DataTypes, CommentOnModeration, SameEntities
<1> QED
  BY <1>1, <1>4 DEF Types

\* What a move writes.
LEMMA Moved ==
  ASSUME Types, NEW q \in Requests, SaveMove(q), work[q].on \in Made
  PROVE  /\ comments' \in [CommentId -> CommentRecord \cup {None}]
         /\ comments'[work[q].on] \in CommentRecord
         /\ comments'[work[q].on].ref \in {work[q].ref, comments[work[q].on].ref}
         /\ comments'[work[q].on].on = comments[work[q].on].on
         /\ comments'[work[q].on].from = comments[work[q].on].from
         /\ \A c \in CommentId \ {work[q].on} : comments'[c] = comments[c]
<1> DEFINE c == work[q].on
           ref == IF work[q].was = work[q].ref THEN comments[c].ref ELSE work[q].ref
<1>1. comments[c] \in CommentRecord /\ c \in CommentId
  BY MadeTyped DEF CommentId
<1>2. ref \in References /\ ref \in {work[q].ref, comments[c].ref}
  BY <1>1, Seeing DEF SaveMove, CommentRecord
<1>3. comments' = [comments EXCEPT ![c].ref = ref]
  BY DEF SaveMove
<1> HIDE DEF ref
<1>4. [comments[c] EXCEPT !.ref = ref] \in CommentRecord
  BY <1>1, <1>2 DEF CommentRecord
<1>5. comments' = [comments EXCEPT ![c] = [comments[c] EXCEPT !.ref = ref]]
  BY <1>3
<1> HIDE DEF c
<1> QED
  BY <1>1, <1>2, <1>4, <1>5 DEF c, Types, DataTypes, CommentRecord

\* What it notes: a comment that is where it was was not moved.
LEMMA MovedOrNoted ==
  ASSUME Types, NEW q \in Requests, SaveMove(q), work[q].on \in Made
  PROVE  LET m == work[q].on
             moved == comments'[m].ref # comments[m].ref
         IN /\ drifted' = IF moved THEN drifted ELSE drifted \cup {m}
            /\ lent' = IF moved /\ comments[m].from = req[q].by
                       THEN lent ELSE lent \cup {comments[m].from, req[q].by}
<1> DEFINE c == work[q].on
           ref == IF work[q].was = work[q].ref THEN comments[c].ref ELSE work[q].ref
<1>1. comments[c] \in CommentRecord /\ c \in CommentId
  BY MadeTyped DEF CommentId
<1>2. /\ comments' = [comments EXCEPT ![c].ref = ref]
      /\ drifted' = IF ref # comments[c].ref THEN drifted ELSE drifted \cup {c}
      /\ lent' = IF ref # comments[c].ref /\ comments[c].from = req[q].by
                 THEN lent ELSE lent \cup {comments[c].from, req[q].by}
  BY DEF SaveMove
<1> HIDE DEF ref
<1>3. comments'[c].ref = ref
  BY <1>1, <1>2 DEF Types, DataTypes, CommentRecord
<1> QED
  BY <1>2, <1>3

LEMMA SaveMoveTypes ==
  ASSUME Types, NEW q \in Requests, SaveMove(q)
  PROVE  Types'
<1>1. RequestTypes'
  BY SaveMoveTurns, TurnTypes DEF Types
<1>2. comments' \in [CommentId -> CommentRecord \cup {None}]
  BY Moved DEF SaveMove, Types, DataTypes
<1>3. DataTypes'
  BY <1>2 DEF Types, DataTypes, SaveMove, SameEntities
<1> QED
  BY <1>1, <1>3 DEF Types

LEMMA DeltaTyped == \A ref \in References : DeltaTo(ref) \in Int
BY DEF DeltaTo, References

\* What an increment moves.
LEMMA Counted ==
  ASSUME Types, NEW q \in Requests, NEW t \in Counters, Count(q, t)
  PROVE  /\ tally' \in [Tallies -> [CommentId -> Int]] /\ said' \in [Users -> Int]
         /\ t = "user" => /\ UNCHANGED tally
                          /\ said'[req[q].by] = said[req[q].by] + DeltaTo(work[q].ref)
                          /\ \A u \in Users \ {req[q].by} : said'[u] = said[u]
         /\ t # "user" => /\ UNCHANGED said /\ t \in Tallies
                          /\ tally'[t][work[q].on] = tally[t][work[q].on] + DeltaTo(work[q].ref)
                          /\ \A x \in Tallies, c \in CommentId :
                               x # t \/ c # work[q].on => tally'[x][c] = tally[x][c]
<1>1. /\ req[q].by \in Users /\ work[q].on \in CommentId /\ DeltaTo(work[q].ref) \in Int
  BY Seeing, DeltaTyped DEF Count, CommentId
<1>2. /\ tally \in [Tallies -> [CommentId -> Int]] /\ said \in [Users -> Int]
  BY DEF Types, DataTypes
<1>3. CASE t = "user"
  <2>1. said' = [said EXCEPT ![req[q].by] = said[req[q].by] + DeltaTo(work[q].ref)] /\ UNCHANGED tally
    BY <1>3 DEF Count
  <2>2. said[req[q].by] + DeltaTo(work[q].ref) \in Int
    BY <1>1, <1>2
  <2> QED
    BY <1>1, <1>2, <1>3, <2>1, <2>2
<1>4. CASE t # "user"
  <2>1. t \in Tallies /\ UNCHANGED said
    BY <1>4 DEF Counters, Count
  <2>2. tally' = [tally EXCEPT ![t] = [tally[t] EXCEPT ![work[q].on] = tally[t][work[q].on] + DeltaTo(work[q].ref)]]
    BY <1>4 DEF Count
  <2>3. tally[t] \in [CommentId -> Int] /\ tally[t][work[q].on] + DeltaTo(work[q].ref) \in Int
    BY <1>1, <1>2, <2>1
  <2>4. [tally[t] EXCEPT ![work[q].on] = tally[t][work[q].on] + DeltaTo(work[q].ref)] \in [CommentId -> Int]
    BY <1>1, <2>3
  <2>5. tally' \in [Tallies -> [CommentId -> Int]]
    BY <1>2, <2>1, <2>2, <2>4
  <2>6. tally'[t][work[q].on] = tally[t][work[q].on] + DeltaTo(work[q].ref)
    BY <1>1, <1>2, <2>1, <2>2, <2>3
  <2>7. \A x \in Tallies, c \in CommentId : x # t \/ c # work[q].on => tally'[x][c] = tally[x][c]
    BY <1>1, <1>2, <2>1, <2>2, <2>3
  <2> QED
    BY <1>2, <1>4, <2>1, <2>5, <2>6, <2>7
<1> QED
  BY <1>3, <1>4

LEMMA CountTypes ==
  ASSUME Types, NEW q \in Requests, NEW t \in Counters, Count(q, t)
  PROVE  Types'
<1>1. RequestTypes'
  BY CountTurns, TurnTypes DEF Types
<1>2. tally' \in [Tallies -> [CommentId -> Int]] /\ said' \in [Users -> Int]
  BY Counted
<1>3. DataTypes'
  BY <1>2 DEF Types, DataTypes, Count, SameEntities
<1> QED
  BY <1>1, <1>3 DEF Types

LEMMA RemoveCommentsTypes ==
  ASSUME Types, NEW q \in Requests, RemoveComments(q)
  PROVE  Types'
<1>1. RequestTypes'
  BY RemoveCommentsTurns, TurnTypes DEF Types
<1>2. \A c \in CommentId :
        (IF c \in Made /\ comments[c].on = req[q].on THEN None ELSE comments[c]) \in CommentRecord \cup {None}
  BY DEF Types, DataTypes
<1>3. comments' \in [CommentId -> CommentRecord \cup {None}]
  BY <1>2 DEF RemoveComments
<1>4. DataTypes'
  BY <1>3 DEF Types, DataTypes, RemoveComments, SameEntities
<1> QED
  BY <1>1, <1>4 DEF Types

LEMMA DiesTypes ==
  ASSUME Types, NEW q \in Requests, CommentDies(q)
  PROVE  Types'
<1>1. RequestTypes'
  BY CommentDiesTurns, TurnTypes DEF Types
<1>2. SameData
  BY DEF SameData, CommentDies, Die
<1> QED
  BY <1>1, <1>2, DataStays DEF Types

\* The steps of the system, one by one.
Quiet == UNCHANGED vars
ModerationCase(q) ==
  /\ UNCHANGED commentVars
  /\ \/ \E e \in Entities, u \in Users : Create(q, e, u)
     \/ \E e \in Entities, u \in Users : Delete(q, e, u)
     \/ \E e \in Entities, u \in Users, action \in Actions : Moderate(q, e, u, action)
     \/ CreateReload(q) \/ CreateCount(q) \/ ModerateUpdate(q) \/ RemoveEntity(q)
     \/ \E next \in {"answer", "noting"} :
          ModerateCount(q, next) /\ (next = "noting" => req[q].on \in Releases)
     \/ Answered(q)
CommentCase(q) ==
  \/ \E r \in Releases, u \in Users, ref \in References : StartComment(q, r, u, ref)
  \/ \E c \in CommentId, u \in Users, ref \in References : StartMove(q, c, u, ref)
  \/ SaveComment(q) \/ SaveMove(q) \/ CommentOnModeration(q) \/ RemoveComments(q)
  \/ \E t \in Counters : Count(q, t)
  \/ CommentDies(q)

LEMMA StepCases ==
  ASSUME [Next]_vars
  PROVE  Quiet \/ \E q \in Requests : ModerationCase(q) \/ CommentCase(q)
<1>1. ASSUME NEW q \in Requests, ModerationStep(q)  PROVE ModerationCase(q)
  BY <1>1 DEF ModerationStep, ModerationCase, Answered
<1>2. ASSUME NEW q \in Requests, CommentStep(q)  PROVE CommentCase(q)
  BY <1>2 DEF CommentStep, CommentCase, References, Counters
<1> QED
  BY <1>1, <1>2 DEF Next, Quiet

LEMMA QuietTypes == Types /\ Quiet => Types'
<1> SUFFICES ASSUME Types, Quiet  PROVE Types'
  OBVIOUS
<1>1. DataTypes'
  BY DataStays DEF Types, Quiet, vars, modVars, commentVars, SameData
<1>2. RequestTypes'
  BY DEF Types, RequestTypes, Quiet, vars, modVars, commentVars, WellPlaced, WellWorking
<1> QED
  BY <1>1, <1>2 DEF Types

LEMMA TypesStep ==
  ASSUME Types, [Next]_vars  PROVE Types'
<1>1. CASE Quiet
  BY <1>1, QuietTypes
<1>2. ASSUME NEW q \in Requests, ModerationCase(q)  PROVE Types'
  BY <1>2, CreateTypes, DeleteTypes, ModerateTypes, ReloadTypes, CreateCountTypes, UpdateTypes,
     RemoveTypes, ModerateCountTypes, AnsweredTypes DEF ModerationCase
<1>3. ASSUME NEW q \in Requests, CommentCase(q)  PROVE Types'
  BY <1>3, StartCommentTypes, StartMoveTypes, SaveCommentTypes, SaveMoveTypes, NoteTypes,
     RemoveCommentsTypes, CountTypes, DiesTypes DEF CommentCase
<1> QED
  BY <1>1, <1>2, <1>3, StepCases

-----------------------------------------------------------------------------
(* The flags and the history *)

LEMMA DecisionAppended ==
  ASSUME NEW h \in Seq(Events), NEW x \in Events, NEW d \in Decisive
  PROVE  /\ x \in Decisive => (LastDecision(Append(h, x), d) <=> d = x)
         /\ x \notin Decisive => (LastDecision(Append(h, x), d) <=> LastDecision(h, d))
<1> DEFINE n == Len(h) + 1
<1>1. /\ Len(h) \in Nat /\ DOMAIN h = 1 .. Len(h) /\ DOMAIN Append(h, x) = 1 .. n
      /\ Append(h, x)[n] = x /\ \A i \in 1 .. Len(h) : Append(h, x)[i] = h[i]
  OBVIOUS
<1>2. ASSUME x \in Decisive  PROVE LastDecision(Append(h, x), d) <=> d = x
  <2>1. ASSUME LastDecision(Append(h, x), d)  PROVE d = x
    <3>1. PICK i \in 1 .. n : /\ Append(h, x)[i] = d
                              /\ \A j \in 1 .. n : j > i => Append(h, x)[j] \notin Decisive
      BY <2>1, <1>1 DEF LastDecision
    <3>2. i = n
      BY <1>1, <1>2, <3>1
    <3> QED
      BY <1>1, <3>1, <3>2
  <2>2. ASSUME d = x  PROVE LastDecision(Append(h, x), d)
    BY <1>1, <2>2 DEF LastDecision
  <2> QED
    BY <2>1, <2>2
<1>3. ASSUME x \notin Decisive  PROVE LastDecision(Append(h, x), d) <=> LastDecision(h, d)
  <2>1. ASSUME LastDecision(Append(h, x), d)  PROVE LastDecision(h, d)
    <3>1. PICK i \in 1 .. n : /\ Append(h, x)[i] = d
                              /\ \A j \in 1 .. n : j > i => Append(h, x)[j] \notin Decisive
      BY <2>1, <1>1 DEF LastDecision
    <3>2. i # n /\ i \in 1 .. Len(h)
      BY <1>1, <1>3, <3>1
    <3>3. h[i] = d /\ \A j \in 1 .. Len(h) : j > i => h[j] \notin Decisive
      BY <1>1, <3>1, <3>2
    <3> QED
      BY <1>1, <3>2, <3>3 DEF LastDecision
  <2>2. ASSUME LastDecision(h, d)  PROVE LastDecision(Append(h, x), d)
    <3>1. PICK i \in 1 .. Len(h) : h[i] = d /\ \A j \in 1 .. Len(h) : j > i => h[j] \notin Decisive
      BY <2>2, <1>1 DEF LastDecision
    <3>2. i \in 1 .. n /\ Append(h, x)[i] = d
      BY <1>1, <3>1
    <3>3. \A j \in 1 .. n : j > i => Append(h, x)[j] \notin Decisive
      BY <1>1, <1>3, <3>1
    <3> QED
      BY <1>1, <3>2, <3>3 DEF LastDecision
  <2> QED
    BY <2>1, <2>2
<1> QED
  BY <1>2, <1>3

LEMMA EventAppended ==
  ASSUME NEW h \in Seq(Events), NEW x \in Events  PROVE LastEvent(Append(h, x)) = x
<1>1. Len(Append(h, x)) = Len(h) + 1 /\ Append(h, x)[Len(h) + 1] = x /\ Len(h) \in Nat
  OBVIOUS
<1>2. Append(h, x) # <<>>
  BY <1>1
<1> QED
  BY <1>1, <1>2 DEF LastEvent

\* The flags m are what their history tells.
Explained(m) ==
  /\ m.approved <=> LastDecision(m.history, "approved")
  /\ m.refused <=> LastDecision(m.history, "refused")
  /\ m.deleted <=> LastEvent(m.history) = "deleted"

LEMMA NewFlagsExplained ==
  Explained(NoFlags) /\ \A u : Explained(AutoApproved(u))
<1>1. Explained(Flags(FALSE, FALSE, FALSE, FALSE))
  BY DEF Explained, Flags, LastDecision, LastEvent
<1>2. Explained(Flags(TRUE, FALSE, FALSE, TRUE))
  <2>1. LastDecision(<<"approved">>, "approved") /\ ~LastDecision(<<"approved">>, "refused")
    BY DEF LastDecision
  <2>2. LastEvent(<<"approved">>) # "deleted"
    BY DEF LastEvent
  <2> QED
    BY <2>1, <2>2 DEF Explained, Flags
<1> QED
  BY <1>1, <1>2 DEF NoFlags, AutoApproved

LEMMA WrittenExplained ==
  ASSUME Types, NEW q \in Requests, ModerateUpdate(q), req[q].on \in saved,
         HistoryExplains, req[q].on \notin rewritten'
  PROVE  Explained(Written(q))
<1> DEFINE action == req[q].kind
           m == moderation[req[q].on]
           x == EventOf(req[q].kind)
<1>1. /\ action \in Actions /\ req[q].doc \in FlagRecord /\ req[q].on \in Entities
      /\ Written(q).history = Append(m.history, x)
      /\ Written(q).approved = Moderated(action, req[q].doc).approved
      /\ Written(q).refused = Moderated(action, req[q].doc).refused
      /\ Written(q).deleted = Moderated(action, req[q].doc).deleted
  BY WrittenTyped
<1>2. m \in FlagRecord /\ m.history \in Seq(Events) /\ x \in Events
  BY <1>1, EventTyped DEF Types, DataTypes, FlagRecord
<1>3. /\ req[q].on \notin rewritten
      /\ action \in {"delete", "undelete"} => /\ req[q].doc.approved = m.approved
                                              /\ req[q].doc.refused = m.refused
  BY DEF ModerateUpdate
<1>4. Explained(m)
  BY <1>1, <1>3 DEF HistoryExplains, Explained
<1>5. LastEvent(Append(m.history, x)) = x
  BY <1>2, EventAppended
<1>6. /\ Moderated(action, req[q].doc).approved <=>
           (action = "approve" \/ (action \in {"delete", "undelete"} /\ req[q].doc.approved))
      /\ Moderated(action, req[q].doc).refused <=>
           (action = "refuse" \/ (action \in {"delete", "undelete"} /\ req[q].doc.refused))
      /\ Moderated(action, req[q].doc).deleted <=> (action = "delete")
  BY <1>1, ModeratedTyped
<1>7. /\ action = "approve" => x = "approved"
      /\ action = "refuse" => x = "refused"
      /\ action = "moderate" => x = "pending"
      /\ action = "delete" => x = "deleted"
      /\ action = "undelete" => x = "undeleted"
  BY DEF EventOf
<1>8. /\ "approved" \in Decisive /\ "refused" \in Decisive /\ "pending" \in Decisive
      /\ "deleted" \notin Decisive /\ "undeleted" \notin Decisive
  BY DEF Decisive
<1>9. \A d \in Decisive :
        /\ x \in Decisive => (LastDecision(Append(m.history, x), d) <=> d = x)
        /\ x \notin Decisive => (LastDecision(Append(m.history, x), d) <=> LastDecision(m.history, d))
  BY <1>2, DecisionAppended
<1> HIDE DEF action, m, x
<1>10. Written(q).approved <=> LastDecision(Append(m.history, x), "approved")
  BY <1>1, <1>3, <1>4, <1>6, <1>7, <1>8, <1>9 DEF Actions, Explained
<1>11. Written(q).refused <=> LastDecision(Append(m.history, x), "refused")
  BY <1>1, <1>3, <1>4, <1>6, <1>7, <1>8, <1>9 DEF Actions, Explained
<1>12. Written(q).deleted <=> LastEvent(Append(m.history, x)) = "deleted"
  BY <1>1, <1>5, <1>6, <1>7 DEF Actions
<1> QED
  BY <1>1, <1>10, <1>11, <1>12 DEF Explained

LEMMA ExplainedEach ==
  HistoryExplains <=> \A e \in Entities \ rewritten : Explained(moderation[e])
BY DEF HistoryExplains, Explained

LEMMA HistoryStep ==
  ASSUME Types, HistoryExplains, [Next]_vars  PROVE HistoryExplains'
<1> SUFFICES ASSUME NEW e \in Entities, e \notin rewritten'
             PROVE  Explained(moderation'[e])
  BY DEF HistoryExplains, Explained, LastDecision, LastEvent
<1>1. e \notin rewritten => Explained(moderation[e])
  BY ExplainedEach
<1>2. CASE Quiet
  BY <1>1, <1>2 DEF Quiet, vars, modVars
<1>3. ASSUME NEW q \in Requests, ModerationCase(q)  PROVE Explained(moderation'[e])
  <2>1. ASSUME NEW f \in Entities, NEW u \in Users, Create(q, f, u)  PROVE Explained(moderation'[e])
    <3>1. moderation' = [moderation EXCEPT ![f] = AutoApproved(u)] /\ rewritten' = rewritten
      BY <2>1 DEF Create
    <3>2. moderation'[e] = AutoApproved(u) \/ moderation'[e] = moderation[e]
      BY <3>1 DEF Types, DataTypes
    <3> QED
      BY <1>1, <3>1, <3>2, NewFlagsExplained
  <2>2. CASE ModerateUpdate(q)
    <3>1. CASE req[q].on \in saved /\ req[q].on = e
      BY <2>2, <3>1, WrittenExplained, WrittenTyped
    <3>2. CASE req[q].on \in saved /\ req[q].on # e
      <4>1. moderation'[e] = moderation[e]
        BY <2>2, <3>2, WrittenTyped
      <4>2. e \notin rewritten
        BY <2>2 DEF ModerateUpdate
      <4> QED
        BY <1>1, <4>1, <4>2
    <3>3. CASE req[q].on \notin saved
      BY <1>1, <2>2, <3>3 DEF ModerateUpdate
    <3> QED
      BY <3>1, <3>2, <3>3
  <2>3. ASSUME UNCHANGED <<moderation, rewritten>>  PROVE Explained(moderation'[e])
    BY <1>1, <2>3
  <2>4. /\ \A f \in Entities, u \in Users : Delete(q, f, u) => UNCHANGED <<moderation, rewritten>>
        /\ \A f \in Entities, u \in Users, action \in Actions :
             Moderate(q, f, u, action) => UNCHANGED <<moderation, rewritten>>
        /\ \A next : ModerateCount(q, next) => UNCHANGED <<moderation, rewritten>>
        /\ CreateReload(q) \/ CreateCount(q) \/ RemoveEntity(q) \/ Answered(q) =>
             UNCHANGED <<moderation, rewritten>>
    BY DEF Delete, Moderate, ModerateCount, CreateReload, CreateCount, RemoveEntity, Answered, SameEntities
  <2> QED
    BY <1>3, <2>1, <2>2, <2>3, <2>4 DEF ModerationCase
<1>4. ASSUME NEW q \in Requests, CommentCase(q)  PROVE Explained(moderation'[e])
  <2>1. UNCHANGED <<moderation, rewritten>>
    BY <1>4 DEF CommentCase, StartComment, StartMove, SaveComment, SaveMove, CommentOnModeration,
                RemoveComments, Count, CommentDies, Die, SameEntities
  <2> QED
    BY <1>1, <2>1
<1> QED
  BY <1>2, <1>3, <1>4, StepCases

-----------------------------------------------------------------------------
(* The count of the releases *)

LEMMA CardinalityTurns ==
  ASSUME NEW S, IsFiniteSet(S), NEW T, NEW x, T \ {x} = S \ {x}
  PROVE  /\ IsFiniteSet(T) /\ Cardinality(S) \in Nat /\ Cardinality(T) \in Nat
         /\ Cardinality(T) = Cardinality(S) + Bit(x \in T) - Bit(x \in S)
<1> DEFINE R == S \ {x}
<1>1. /\ IsFiniteSet(R) /\ Cardinality(S) \in Nat /\ Cardinality(R) \in Nat
      /\ Cardinality(R) = Cardinality(S) - Bit(x \in S)
  BY FS_RemoveElement, FS_CardinalityType DEF Bit
<1>2. x \notin R /\ T = IF x \in T THEN R \cup {x} ELSE R
  OBVIOUS
<1> HIDE DEF R
<1>3. IsFiniteSet(R \cup {x}) /\ Cardinality(R \cup {x}) = Cardinality(R) + 1
  BY <1>1, <1>2, FS_AddElement
<1>4. IsFiniteSet(T) /\ Cardinality(T) = Cardinality(R) + Bit(x \in T)
  <2>1. CASE x \in T
    <3>1. T = R \cup {x} /\ Bit(x \in T) = 1
      BY <1>2, <2>1 DEF Bit
    <3> QED
      BY <1>3, <3>1
  <2>2. CASE x \notin T
    <3>1. T = R /\ Bit(x \in T) = 0
      BY <1>2, <2>2 DEF Bit
    <3> QED
      BY <1>1, <3>1
  <2> QED
    BY <2>1, <2>2
<1>5. Bit(x \in S) \in Nat /\ Bit(x \in T) \in Nat
  BY DEF Bit
<1> QED
  BY <1>1, <1>4, <1>5, FS_CardinalityType

LEMMA RequestsFinite ==
  ASSUME NEW S, S \subseteq Requests  PROVE IsFiniteSet(S) /\ Cardinality(S) \in Nat
BY ModerationAssumption, FS_Subset, FS_CardinalityType

LEMMA DebtsTurn ==
  ASSUME Types, NEW q \in Requests, NEW d, NEW w, Turns(q, d, w), NEW r
  PROVE  /\ Cardinality(Owing(r)) \in Nat /\ Cardinality(Owing(r))' \in Nat
         /\ Cardinality(Repaying(r)) \in Nat /\ Cardinality(Repaying(r))' \in Nat
         /\ Cardinality(Owing(r))' = Cardinality(Owing(r)) + Bit(Owes(d, r)) - Bit(Owes(req[q], r))
         /\ Cardinality(Repaying(r))' = Cardinality(Repaying(r)) + Bit(Repays(d, r)) - Bit(Repays(req[q], r))
<1>1. req'[q] = d /\ \A p \in Requests \ {q} : req'[p] = req[p]
  BY TurnKeeps DEF Types
<1> DEFINE O == {p \in Requests : Owes(req'[p], r)}
           R == {p \in Requests : Repays(req'[p], r)}
<1>2. O \ {q} = Owing(r) \ {q} /\ R \ {q} = Repaying(r) \ {q}
  BY <1>1 DEF Owing, Repaying
<1>3. (q \in O <=> Owes(d, r)) /\ (q \in R <=> Repays(d, r))
  BY <1>1
<1>4. (q \in Owing(r) <=> Owes(req[q], r)) /\ (q \in Repaying(r) <=> Repays(req[q], r))
  BY DEF Owing, Repaying
<1>5. IsFiniteSet(Owing(r)) /\ IsFiniteSet(Repaying(r))
  BY RequestsFinite DEF Owing, Repaying
<1>6. Owing(r)' = O /\ Repaying(r)' = R
  BY DEF Owing, Repaying
<1> HIDE DEF O, R
<1>7. /\ Cardinality(O) = Cardinality(Owing(r)) + Bit(q \in O) - Bit(q \in Owing(r))
      /\ Cardinality(Owing(r)) \in Nat /\ Cardinality(O) \in Nat
  BY <1>2, <1>5, CardinalityTurns
<1>8. /\ Cardinality(R) = Cardinality(Repaying(r)) + Bit(q \in R) - Bit(q \in Repaying(r))
      /\ Cardinality(Repaying(r)) \in Nat /\ Cardinality(R) \in Nat
  BY <1>2, <1>5, CardinalityTurns
<1> QED
  BY <1>3, <1>4, <1>6, <1>7, <1>8 DEF Bit

\* What the count of a release has to move by, for the balance to be kept.
Shift(q, d, r) ==
  Bit(moderation'[r].approved) - Bit(moderation[r].approved)
    - Bit(Owes(d, r)) + Bit(Owes(req[q], r)) + Bit(Repays(d, r)) - Bit(Repays(req[q], r))

LEMMA BalanceTurns ==
  ASSUME Types, NEW q \in Requests, NEW d, NEW w, Turns(q, d, w), NEW r \in Releases,
         Balanced(r), counted'[r] = counted[r] + Shift(q, d, r)
  PROVE  Balanced(r)'
<1>1. \A b : Bit(b) \in Int
  BY DEF Bit
<1>2. counted[r] = Bit(moderation[r].approved) - Cardinality(Owing(r)) + Cardinality(Repaying(r))
  BY DEF Balanced
<1>3. counted'[r] = Bit(moderation'[r].approved) - Cardinality(Owing(r))' + Cardinality(Repaying(r))'
  BY <1>1, <1>2, DebtsTurn DEF Shift
<1> QED
  BY <1>3 DEF Balanced, Bit

CountAt(r) ==
  /\ creator[r] = None => /\ r \notin saved /\ counted[r] = 0
                          /\ \A q \in Requests : ~Concerns(req[q], r)
  /\ \/ r \in outrun \cup failed
     \/ Balanced(r)
     \/ r \notin saved /\ \E q \in Requests : Doomed(req[q], r)

LEMMA CountEach == CountInv <=> \A r \in Releases : CountAt(r)
BY DEF CountInv, CountAt

\* Who owes or repays, or is doomed, is concerned.
LEMMA Concerned ==
  \A d, r : Owes(d, r) \/ Repays(d, r) \/ Doomed(d, r) => Concerns(d, r)
BY DEF Owes, Repays, Doomed, Concerns, Reviewing

\* A release the step does not concern, or that is aside.
SameRelease(r) ==
  /\ r \in saved' <=> r \in saved
  /\ creator'[r] = creator[r] /\ moderation'[r] = moderation[r] /\ counted'[r] = counted[r]
  /\ r \in outrun => r \in outrun'
  /\ r \in failed => r \in failed'

LEMMA CountAside ==
  ASSUME Types, NEW r \in Releases, CountAt(r), NEW q \in Requests, NEW d, NEW w, Turns(q, d, w),
         SameRelease(r), ~Concerns(req[q], r), ~Concerns(d, r)
  PROVE  CountAt(r)'
<1>1. req'[q] = d /\ \A p \in Requests \ {q} : req'[p] = req[p]
  BY TurnKeeps DEF Types
<1>2. ~Owes(d, r) /\ ~Owes(req[q], r) /\ ~Repays(d, r) /\ ~Repays(req[q], r) /\ ~Doomed(req[q], r)
  BY Concerned
<1>3. Shift(q, d, r) = 0
  BY <1>2 DEF Shift, SameRelease, Bit
<1>4. Balanced(r) => Balanced(r)'
  <2>1. counted[r] \in Int
    BY DEF Types, DataTypes
  <2>2. counted'[r] = counted[r] + Shift(q, d, r)
    BY <1>3, <2>1 DEF SameRelease
  <2> QED
    BY <2>2, BalanceTurns
<1>5. creator'[r] = None => /\ r \notin saved' /\ counted'[r] = 0
                            /\ \A p \in Requests : ~Concerns(req'[p], r)
  BY <1>1 DEF CountAt, SameRelease
<1>6. (\E p \in Requests : Doomed(req[p], r)) => \E p \in Requests : Doomed(req'[p], r)
  BY <1>1, <1>2
<1> QED
  BY <1>4, <1>5, <1>6 DEF CountAt, SameRelease, Concerns, Doomed

LEMMA CreateCounts ==
  ASSUME Types, CountInv, NEW q \in Requests, NEW e \in Entities, NEW u \in Users, Create(q, e, u),
         UNCHANGED commentVars, NEW r \in Releases
  PROVE  CountAt(r)'
<1> DEFINE d == CreateRequest(e, u)
<1>1. Turns(q, d, NoWork) /\ req[q].at = "idle"
  BY CreateTurns DEF commentVars, Create
<1>2. CountAt(r)
  BY CountEach
<1>3. ~Concerns(req[q], r)
  BY <1>1 DEF Concerns, Reviewing
<1>4. CASE r # e
  <2>1. ~Concerns(d, r)
    BY <1>4, OverTyped DEF Concerns, CreateRequest, Request, Reviewing
  <2>2. SameRelease(r)
    BY <1>4, Distinct DEF SameRelease, Create, Types, DataTypes
  <2> HIDE DEF d
  <2> QED
    BY <1>1, <1>2, <1>3, <2>1, <2>2, CountAside
<1>5. CASE r = e
  <2>1. creator[r] = None /\ counted[r] = 0 /\ \A p \in Requests : ~Concerns(req[p], r)
    BY <1>2, <1>5 DEF Create, CountAt
  <2>2. Owing(r) = {} /\ Repaying(r) = {}
    BY <2>1, Concerned DEF Owing, Repaying
  <2>3. Cardinality(Owing(r)) = 0 /\ Cardinality(Repaying(r)) = 0
    BY <2>2, FS_EmptySet
  <2>4. /\ d.at = "details" /\ d.on = r /\ d.doc = AutoApproved(u)
        /\ moderation'[r] = AutoApproved(u) /\ counted'[r] = 0 /\ creator'[r] = u
    BY <1>5, <2>1, Distinct DEF CreateRequest, Request, Create, Types, DataTypes
  <2>5. /\ Owes(d, r) <=> moderation'[r].approved
        /\ ~Repays(d, r) /\ ~Owes(req[q], r) /\ ~Repays(req[q], r)
    BY <1>3, <2>4, Concerned DEF Owes, Repays
  <2> HIDE DEF d
  <2>6. /\ Cardinality(Owing(r))' = Bit(moderation'[r].approved)
        /\ Cardinality(Repaying(r))' = 0
    BY <1>1, <2>3, <2>5, DebtsTurn DEF Bit
  <2>7. Balanced(r)'
    <3>1. 0 = Bit(moderation'[r].approved) - Bit(moderation'[r].approved) + 0
      BY DEF Bit
    <3>2. counted'[r] = Bit(moderation'[r].approved) - Cardinality(Owing(r))' + Cardinality(Repaying(r))'
      BY <2>4, <2>6, <3>1
    <3> QED
      BY <3>2 DEF Balanced, Bit
  <2>8. creator'[r] # None
    BY <2>4, Distinct
  <2> QED
    BY <2>7, <2>8 DEF CountAt
<1> QED
  BY <1>4, <1>5

\* A request that is about an entity is not about the others.
LEMMA OtherReleases ==
  ASSUME NEW q \in Requests, NEW r, req[q].on # r
  PROVE  /\ ~Concerns(req[q], r)
         /\ \A at : req[q] \in RequestRecord => ~Concerns(Turned(req[q], at), r)
         /\ r # None => ~Concerns(Over("done"), r)
BY DEF Concerns, Turned, RequestRecord, Over, Request

LEMMA OverUnconcerned == \A r : ~Concerns(Over("done"), r) /\ ~Doomed(Over("done"), r)
BY DEF Concerns, Over, Request, Doomed, Reviewing

LEMMA ReloadCounts ==
  ASSUME Types, CountInv, NEW q \in Requests, CreateReload(q), UNCHANGED commentVars,
         NEW r \in Releases
  PROVE  CountAt(r)'
<1>1. CountAt(r)
  BY CountEach
<1>2. /\ req[q] \in RequestRecord /\ req[q].at = "details" /\ UNCHANGED work
      /\ UNCHANGED <<saved, creator, moderation, counted>>
      /\ outrun \subseteq outrun' /\ failed \subseteq failed'
  BY DEF Types, RequestTypes, CreateReload, commentVars
<1>3. SameRelease(r)
  BY <1>2 DEF SameRelease
<1>4. CASE req[q].on # r
  <2>1. ~Concerns(req[q], r) /\ ~Concerns(Over("done"), r)
    BY <1>4, OtherReleases, OverUnconcerned
  <2>2. ~Concerns(Reloaded(req[q]), r)
    BY <1>2, <1>4 DEF Concerns, Reloaded, RequestRecord
  <2> QED
    BY <1>1, <1>2, <1>3, <2>1, <2>2, CreateReloadTurns, CountAside
<1>5. CASE req[q].on = r
  <2>1. creator[r] # None
    BY <1>1, <1>2, <1>5 DEF CountAt, Concerns
  <2>2. CASE r \notin saved
    <3>1. r \in failed'
      BY <1>5, <2>2 DEF CreateReload
    <3> QED
      BY <1>2, <2>1, <3>1 DEF CountAt
  <2>3. CASE r \in saved /\ ~(req[q].doc.approved = moderation[r].approved)
    <3>1. r \in outrun'
      BY <1>5, <2>3 DEF CreateReload
    <3> QED
      BY <1>2, <2>1, <3>1 DEF CountAt
  <2>4. CASE r \in saved /\ req[q].doc.approved = moderation[r].approved
    <3> DEFINE d == Reloaded(req[q])
    <3>1. Turns(q, d, NoWork)
      BY <1>2, <1>5, <2>4, CreateReloadTurns
    <3>2. d.at = "created" /\ d.on = r /\ d.doc = moderation[r]
      BY <1>2, <1>5 DEF Reloaded, RequestRecord
    <3>3. (Owes(d, r) <=> Owes(req[q], r)) /\ ~Repays(d, r) /\ ~Repays(req[q], r)
      BY <1>2, <1>5, <2>4, <3>2 DEF Owes, Repays
    <3> HIDE DEF d
    <3>4. counted'[r] = counted[r] + Shift(q, d, r)
      <4>1. counted[r] \in Int
        BY DEF Types, DataTypes
      <4>2. Shift(q, d, r) = 0
        BY <1>2, <3>3 DEF Shift, Bit
      <4> QED
        BY <1>2, <4>1, <4>2
    <3>5. Balanced(r) => Balanced(r)'
      BY <3>1, <3>4, BalanceTurns
    <3> QED
      BY <1>1, <1>2, <2>1, <2>4, <3>5 DEF CountAt
  <2> QED
    BY <2>2, <2>3, <2>4
<1> QED
  BY <1>4, <1>5

LEMMA CreateCountCounts ==
  ASSUME Types, CountInv, NEW q \in Requests, CreateCount(q), UNCHANGED commentVars,
         NEW r \in Releases
  PROVE  CountAt(r)'
<1>1. CountAt(r)
  BY CountEach
<1>2. /\ Turns(q, Over("done"), NoWork) /\ req[q].on \in Releases
      /\ req[q].at = "created"
      /\ UNCHANGED <<saved, creator, moderation, outrun, failed>>
      /\ counted' = [counted EXCEPT ![req[q].on] = IF req[q].doc.approved THEN @ + 1 ELSE @]
  BY CreateCountTurns DEF CreateCount, commentVars
<1>3. CASE req[q].on # r
  <2>1. ~Concerns(req[q], r) /\ ~Concerns(Over("done"), r)
    BY <1>3, OtherReleases, OverUnconcerned
  <2>2. SameRelease(r)
    BY <1>2, <1>3 DEF SameRelease, Types, DataTypes
  <2> QED
    BY <1>1, <1>2, <2>1, <2>2, CountAside
<1>4. CASE req[q].on = r
  <2>1. creator[r] # None
    BY <1>1, <1>2, <1>4 DEF CountAt, Concerns
  <2>2. counted[r] \in Int /\ counted'[r] = counted[r] + Bit(req[q].doc.approved)
    BY <1>2, <1>4 DEF Types, DataTypes, Bit
  <2>3. /\ Owes(req[q], r) <=> req[q].doc.approved
        /\ ~Repays(req[q], r) /\ ~Owes(Over("done"), r) /\ ~Repays(Over("done"), r)
    BY <1>2, <1>4, Concerned, OverUnconcerned DEF Owes, Repays
  <2>4. Shift(q, Over("done"), r) = Bit(req[q].doc.approved)
    BY <1>2, <2>3 DEF Shift, Bit
  <2>5. Balanced(r) => Balanced(r)'
    BY <1>2, <2>2, <2>4, BalanceTurns
  <2>6. ~Doomed(req[q], r)
    BY <1>2 DEF Doomed, Reviewing
  <2>7. (\E p \in Requests : Doomed(req[p], r)) => \E p \in Requests : Doomed(req'[p], r)
    BY <1>2, <2>6, TurnKeeps DEF Types
  <2> QED
    BY <1>1, <1>2, <2>1, <2>5, <2>7 DEF CountAt, Doomed
<1> QED
  BY <1>3, <1>4

LEMMA ModerateCounts ==
  ASSUME Types, CountInv, NEW q \in Requests, NEW e \in Entities, NEW u \in Users,
         NEW action \in Actions, Moderate(q, e, u, action), UNCHANGED commentVars, NEW r \in Releases
  PROVE  CountAt(r)'
<1> DEFINE d == Request("moderating", action, e, u, moderation[e])
<1>1. CountAt(r)
  BY CountEach
<1>2. /\ Turns(q, d, NoWork) /\ req[q].at = "idle" /\ e \in saved
      /\ UNCHANGED <<saved, creator, moderation, counted, outrun, failed>>
  BY ModerateTurns DEF Moderate, Begin, commentVars
<1>3. SameRelease(r) /\ ~Concerns(req[q], r)
  BY <1>2 DEF SameRelease, Concerns, Reviewing
<1>4. d.on = e /\ d.at = "moderating"
  BY DEF Request
<1> HIDE DEF d
<1>5. CASE r # e
  BY <1>1, <1>2, <1>3, <1>4, <1>5, CountAside DEF Concerns
<1>6. CASE r = e
  <2>1. creator[r] # None
    BY <1>1, <1>2, <1>6 DEF CountAt
  <2>2. ~Owes(req[q], r) /\ ~Repays(req[q], r) /\ ~Owes(d, r) /\ ~Repays(d, r)
    BY <1>3, <1>4, Concerned DEF Owes, Repays
  <2>3. counted[r] \in Int /\ Shift(q, d, r) = 0
    BY <1>2, <2>2 DEF Types, DataTypes, Shift, Bit
  <2>4. Balanced(r) => Balanced(r)'
    BY <1>2, <2>3, BalanceTurns
  <2> QED
    BY <1>1, <1>2, <1>6, <2>1, <2>4 DEF CountAt
<1> QED
  BY <1>5, <1>6

LEMMA UpdateCounts ==
  ASSUME Types, CountInv, NEW q \in Requests, ModerateUpdate(q), UNCHANGED commentVars,
         NEW r \in Releases
  PROVE  CountAt(r)'
<1> DEFINE d == Turned(req[q], "moderated")
           was == req[q].doc.approved
           is == Moderated(req[q].kind, req[q].doc).approved
<1>1. CountAt(r)
  BY CountEach
<1>2. /\ Turns(q, d, NoWork) /\ req[q].at = "moderating" /\ req[q] \in RequestRecord
      /\ UNCHANGED <<saved, creator, counted, failed>> /\ outrun \subseteq outrun'
  BY ModerateUpdateTurns DEF ModerateUpdate, commentVars, Types, RequestTypes
<1>3. d.on = req[q].on /\ d.at = "moderated" /\ d.kind = req[q].kind /\ d.doc = req[q].doc
  BY <1>2 DEF Turned, RequestRecord
<1> HIDE DEF d
<1>4. CASE req[q].on # r
  <2>1. ~Concerns(req[q], r) /\ ~Concerns(d, r)
    BY <1>3, <1>4 DEF Concerns
  <2>2. moderation'[r] = moderation[r]
    <3>1. CASE req[q].on \in saved
      BY <3>1, <1>4, WrittenTyped, Distinct
    <3>2. CASE req[q].on \notin saved
      BY <3>2 DEF ModerateUpdate
    <3> QED
      BY <3>1, <3>2
  <2>3. SameRelease(r)
    BY <1>2, <2>2 DEF SameRelease
  <2> QED
    BY <1>1, <1>2, <2>1, <2>3, CountAside
<1>5. CASE req[q].on = r
  <2>1. creator'[r] # None
    BY <1>1, <1>2, <1>5 DEF CountAt, Concerns, Reviewing
  <2>2. CASE r \notin saved
    <3>1. Doomed(req'[q], r) /\ r \notin saved'
      BY <1>2, <1>3, <1>5, <2>2, TurnKeeps DEF Doomed, Reviewing, Types
    <3> QED
      BY <2>1, <3>1 DEF CountAt, Doomed
  <2>3. CASE r \in saved /\ ~(was = moderation[r].approved)
    <3>1. r \in outrun'
      BY <1>5, <2>3 DEF ModerateUpdate
    <3> QED
      BY <2>1, <3>1 DEF CountAt
  <2>4. CASE r \in saved /\ was = moderation[r].approved
    <3>1. moderation'[r].approved = is
      BY <1>5, <2>4, WrittenTyped
    <3>2. /\ Owes(d, r) <=> ~was /\ is
          /\ Repays(d, r) <=> was /\ ~is
          /\ ~Owes(req[q], r) /\ ~Repays(req[q], r)
      BY <1>2, <1>3, <1>5 DEF Owes, Repays
    <3>3. Shift(q, d, r) = Bit(is) - Bit(was) - Bit(~was /\ is) + 0 + Bit(was /\ ~is) - 0
      BY <2>4, <3>1, <3>2 DEF Shift, Bit
    <3>4. Bit(is) - Bit(was) - Bit(~was /\ is) + 0 + Bit(was /\ ~is) - 0 = 0
      BY DEF Bit
    <3>5. counted[r] \in Int
      BY DEF Types, DataTypes
    <3>6. Balanced(r) => Balanced(r)'
      BY <1>2, <3>3, <3>4, <3>5, BalanceTurns
    <3> QED
      BY <1>1, <1>2, <2>1, <2>4, <3>6 DEF CountAt
  <2> QED
    BY <2>2, <2>3, <2>4
<1> QED
  BY <1>4, <1>5

LEMMA ModerateCountCounts ==
  ASSUME Types, CountInv, NEW q \in Requests, NEW next \in {"answer", "noting"},
         ModerateCount(q, next), next = "noting" => req[q].on \in Releases,
         UNCHANGED commentVars, NEW r \in Releases
  PROVE  CountAt(r)'
<1> DEFINE was == req[q].doc.approved
           is == Moderated(req[q].kind, req[q].doc).approved
           d == Turned(req[q], next)
<1>1. CountAt(r)
  BY CountEach
<1>2. /\ req[q] \in RequestRecord /\ req[q].at = "moderated" /\ UNCHANGED work
      /\ UNCHANGED <<saved, creator, moderation, outrun>> /\ failed \subseteq failed'
  BY DEF Types, RequestTypes, ModerateCount, commentVars
<1>3. d.at = next /\ d.on = req[q].on
  BY <1>2 DEF Turned, RequestRecord
<1>4. ~Concerns(d, r) /\ ~Concerns(Over("done"), r)
  BY <1>3, OverUnconcerned DEF Concerns, Reviewing
<1>5. /\ req[q].on \notin saved => Turns(q, Over("done"), NoWork)
      /\ req[q].on \in saved => Turns(q, d, NoWork)
  BY <1>2, ModerateCountTurns
<1> HIDE DEF d
<1>6. CASE req[q].on # r
  <2>1. ~Concerns(req[q], r)
    BY <1>6, OtherReleases
  <2>2. counted'[r] = counted[r]
    BY <1>6 DEF ModerateCount, Types, DataTypes
  <2>3. SameRelease(r)
    BY <1>2, <2>2 DEF SameRelease
  <2> QED
    BY <1>1, <1>4, <1>5, <2>1, <2>3, CountAside
<1>7. CASE req[q].on = r
  <2>1. creator'[r] # None
    BY <1>1, <1>2, <1>7 DEF CountAt, Concerns, Reviewing
  <2>2. CASE r \notin saved
    <3>1. r \in failed'
      BY <1>7, <2>2 DEF ModerateCount
    <3> QED
      BY <2>1, <3>1 DEF CountAt
  <2>3. CASE r \in saved
    <3>1. Turns(q, d, NoWork)
      BY <1>5, <1>7, <2>3
    <3>2. /\ Owes(req[q], r) <=> ~was /\ is
          /\ Repays(req[q], r) <=> was /\ ~is
          /\ ~Owes(d, r) /\ ~Repays(d, r)
      BY <1>2, <1>4, <1>7, Concerned DEF Owes, Repays
    <3>3. was \in BOOLEAN /\ is \in BOOLEAN
      <4>1. req[q].doc \in FlagRecord /\ req[q].kind \in Actions
        BY <1>2, ModerateCountTurns DEF RequestRecord
      <4> QED
        BY <4>1, ModeratedTyped DEF FlagRecord
    <3>4. counted[r] \in Int
      BY DEF Types, DataTypes
    <3>5. counted'[r] = counted[r] + Bit(~was /\ is) - Bit(was /\ ~is)
      <4>1. CASE was = is
        <5>1. counted'[r] = counted[r]
          BY <1>7, <2>3, <4>1 DEF ModerateCount
        <5> QED
          BY <3>4, <4>1, <5>1 DEF Bit
      <4>2. CASE ~(was = is)
        <5>1. counted' = [counted EXCEPT ![r] = IF is THEN @ + 1 ELSE @ - 1]
          BY <1>7, <2>3, <4>2 DEF ModerateCount
        <5>2. counted'[r] = IF is THEN counted[r] + 1 ELSE counted[r] - 1
          BY <5>1 DEF Types, DataTypes
        <5>3. is <=> ~was
          BY <3>3, <4>2
        <5> QED
          BY <3>4, <5>2, <5>3 DEF Bit
      <4> QED
        BY <4>1, <4>2
    <3>6. Shift(q, d, r) = Bit(~was /\ is) - Bit(was /\ ~is)
      BY <1>2, <3>2 DEF Shift, Bit
    <3>7. counted'[r] = counted[r] + Shift(q, d, r)
      BY <3>4, <3>5, <3>6 DEF Bit
    <3>8. Balanced(r) => Balanced(r)'
      BY <3>1, <3>7, BalanceTurns
    <3> QED
      BY <1>1, <1>2, <2>1, <2>3, <3>8 DEF CountAt
  <2> QED
    BY <2>2, <2>3
<1> QED
  BY <1>6, <1>7

LEMMA RemoveCounts ==
  ASSUME Types, CountInv, NEW q \in Requests, RemoveEntity(q), UNCHANGED commentVars,
         NEW r \in Releases
  PROVE  CountAt(r)'
<1>1. CountAt(r)
  BY CountEach
<1>2. /\ Turns(q, Over("done"), NoWork) /\ req[q].at = "removing"
      /\ saved' = saved \ {req[q].on}
      /\ UNCHANGED <<creator, moderation, counted, outrun, failed>>
  BY EndTurns DEF RemoveEntity, commentVars
<1>3. ~Concerns(req[q], r) /\ ~Concerns(Over("done"), r)
  BY <1>2, OverUnconcerned DEF Concerns, Reviewing
<1>4. \A p \in Requests \ {q} : req'[p] = req[p]
  BY <1>2, TurnKeeps DEF Types
<1>5. ~Owes(req[q], r) /\ ~Repays(req[q], r) /\ ~Owes(Over("done"), r) /\ ~Repays(Over("done"), r)
  BY <1>3, Concerned
<1>6. counted[r] \in Int /\ Shift(q, Over("done"), r) = 0
  BY <1>2, <1>5 DEF Types, DataTypes, Shift, Bit
<1>7. Balanced(r) => Balanced(r)'
  BY <1>2, <1>6, BalanceTurns
<1>8. ASSUME NEW p \in Requests, Doomed(req[p], r)  PROVE Doomed(req'[p], r)
  BY <1>3, <1>4, <1>8, Concerned
<1>9. creator'[r] = None => \A p \in Requests : ~Concerns(req'[p], r)
  BY <1>1, <1>2, <1>3, <1>4, TurnKeeps DEF CountAt, Types
<1> QED
  BY <1>1, <1>2, <1>7, <1>8, <1>9 DEF CountAt, Concerns, Doomed

LEMMA DiesCounts ==
  ASSUME Types, CountInv, NEW q \in Requests, CommentDies(q), NEW r \in Releases
  PROVE  CountAt(r)'
<1>1. CountAt(r)
  BY CountEach
<1>2. /\ Turns(q, Over("done"), NoWork)
      /\ failed' = failed \cup ({req[q].on} \ {None})
      /\ UNCHANGED <<saved, creator, moderation, counted, outrun>>
  BY CommentDiesTurns DEF CommentDies, Die
<1>3. CASE req[q].on # r
  <2>1. ~Concerns(req[q], r) /\ ~Concerns(Over("done"), r)
    BY <1>3, OtherReleases, OverUnconcerned
  <2>2. SameRelease(r)
    BY <1>2 DEF SameRelease
  <2> QED
    BY <1>1, <1>2, <2>1, <2>2, CountAside
<1>4. CASE req[q].on = r
  <2>1. r \in failed'
    BY <1>2, <1>4, Distinct
  <2>2. creator'[r] = None => /\ r \notin saved' /\ counted'[r] = 0
                              /\ \A p \in Requests : ~Concerns(req'[p], r)
    BY <1>1, <1>2, TurnKeeps, OverUnconcerned DEF CountAt, Types
  <2> QED
    BY <2>1, <2>2 DEF CountAt, Concerns
<1> QED
  BY <1>3, <1>4

\* The steps that are about no release's approval.
LEMMA QuietCounts ==
  ASSUME Types, CountInv, NEW q \in Requests, NEW r \in Releases, SameEntities,
         req[q].at \notin {"details", "created"} \cup Reviewing,
         NEW d, NEW w, Turns(q, d, w), d.at \notin {"details", "created"} \cup Reviewing
  PROVE  CountAt(r)'
<1>1. CountAt(r)
  BY CountEach
<1>2. SameRelease(r)
  BY DEF SameEntities, SameRelease
<1>3. ~Concerns(req[q], r) /\ ~Concerns(d, r)
  BY DEF Concerns
<1> QED
  BY <1>1, <1>2, <1>3, CountAside

LEMMA CommentCounts ==
  ASSUME Types, CountInv, NEW q \in Requests, CommentCase(q), NEW r \in Releases
  PROVE  CountAt(r)'
<1>1. ASSUME NEW x \in Releases, NEW u \in Users, NEW ref \in References, StartComment(q, x, u, ref)
      PROVE  CountAt(r)'
  <2> DEFINE d == Request("commenting", ref, x, u, moderation[x])
  <2>1. /\ Turns(q, d, NoWork) /\ SameEntities /\ req[q].at = "idle" /\ d.at = "commenting"
    BY <1>1, StartCommentTurns DEF StartComment, Begin, Request
  <2> HIDE DEF d
  <2> QED
    BY <2>1, QuietCounts DEF Reviewing
<1>2. ASSUME NEW c \in CommentId, NEW u \in Users, NEW ref \in References, StartMove(q, c, u, ref)
      PROVE  CountAt(r)'
  <2> DEFINE d == Request("moving", ref, comments[c].on, u, moderation[comments[c].on])
  <2>1. /\ Turns(q, d, ToMove(c, ref)) /\ SameEntities /\ req[q].at = "idle" /\ d.at = "moving"
    BY <1>2, StartMoveTurns DEF StartMove, Begin, Request
  <2> HIDE DEF d
  <2> QED
    BY <2>1, QuietCounts DEF Reviewing
<1>3. req[q] \in RequestRecord /\ \A at : Turned(req[q], at).at = at
  BY DEF Types, RequestTypes, Turned, RequestRecord
<1>4. CASE SaveComment(q)
  <2>1. req[q].at = "commenting" /\ SameEntities
    BY <1>4 DEF SaveComment
  <2> QED
    BY <1>3, <1>4, <2>1, SaveCommentTurns, OverTyped, QuietCounts DEF Reviewing
<1>5. CASE SaveMove(q)
  <2>1. req[q].at = "moving" /\ SameEntities
    BY <1>5 DEF SaveMove
  <2> QED
    BY <1>3, <1>5, <2>1, SaveMoveTurns, OverTyped, QuietCounts DEF Reviewing
<1>6. CASE CommentOnModeration(q)
  <2>1. req[q].at = "noting" /\ SameEntities
    BY <1>6 DEF CommentOnModeration
  <2> QED
    BY <1>6, <2>1, CommentOnModerationTurns, OverTyped, QuietCounts DEF Reviewing
<1>7. CASE RemoveComments(q)
  <2>1. req[q].at = "deleting" /\ SameEntities
    BY <1>7 DEF RemoveComments
  <2> QED
    BY <1>3, <1>7, <2>1, RemoveCommentsTurns, QuietCounts DEF Reviewing
<1>8. ASSUME NEW t \in Counters, Count(q, t)  PROVE CountAt(r)'
  <2>1. req[q].at = "counting" /\ SameEntities
    BY <1>8 DEF Count
  <2> QED
    BY <1>8, <2>1, CountTurns, OverTyped, QuietCounts DEF Reviewing
<1> QED
  BY <1>1, <1>2, <1>4, <1>5, <1>6, <1>7, <1>8, DiesCounts DEF CommentCase

LEMMA CountStep ==
  ASSUME Types, CountInv, [Next]_vars  PROVE CountInv'
<1> SUFFICES ASSUME NEW r \in Releases  PROVE CountAt(r)'
  BY DEF CountInv, CountAt, Concerns, Doomed
<1>1. CASE Quiet
  <2>1. CountAt(r)
    BY CountEach
  <2>2. UNCHANGED <<saved, creator, moderation, counted, req, outrun, failed>>
    BY <1>1 DEF Quiet, vars, modVars
  <2>3. Owing(r)' = Owing(r) /\ Repaying(r)' = Repaying(r)
    BY <2>2 DEF Owing, Repaying
  <2>4. Balanced(r)' <=> Balanced(r)
    BY <2>2, <2>3 DEF Balanced, Bit
  <2> QED
    BY <2>1, <2>2, <2>4 DEF CountAt
<1>2. ASSUME NEW q \in Requests, ModerationCase(q)  PROVE CountAt(r)'
  <2>1. ASSUME NEW e \in Entities, NEW u \in Users, Delete(q, e, u), UNCHANGED commentVars
        PROVE  CountAt(r)'
    <3> DEFINE d == Request("deleting", "remove", e, u, moderation[e])
    <3>1. Turns(q, d, NoWork) /\ req[q].at = "idle" /\ d.at = "deleting" /\ SameEntities
      BY <2>1, DeleteTurns DEF Delete, Begin, Request, commentVars, SameEntities
    <3> HIDE DEF d
    <3> QED
      BY <3>1, QuietCounts DEF Reviewing
  <2>2. ASSUME Answered(q), UNCHANGED commentVars  PROVE CountAt(r)'
    <3>1. Turns(q, Over("done"), NoWork) /\ req[q].at = "answer" /\ SameEntities
      BY <2>2, EndTurns DEF Answered, commentVars
    <3> QED
      BY <3>1, OverTyped, QuietCounts DEF Reviewing
  <2> QED
    BY <1>2, <2>1, <2>2, CreateCounts, ModerateCounts, ReloadCounts, CreateCountCounts, UpdateCounts,
       RemoveCounts, ModerateCountCounts DEF ModerationCase
<1>3. ASSUME NEW q \in Requests, CommentCase(q)  PROVE CountAt(r)'
  BY <1>3, CommentCounts
<1> QED
  BY <1>1, <1>2, <1>3, StepCases

-----------------------------------------------------------------------------
(* The comments of a release that goes *)

LEMMA StrayAside ==
  ASSUME Types, StrayInv, NEW q \in Requests, NEW d, NEW w, Turns(q, d, w), d.at # "removing",
         comments' = comments, late' = late, saved \subseteq saved'
  PROVE  StrayInv'
<1>1. req'[q] = d /\ \A p \in Requests \ {q} : req'[p] = req[p]
  BY TurnKeeps DEF Types
<1>2. \A e : Removing(e)' => Removing(e)
  BY <1>1 DEF Removing
<1> QED
  BY <1>2 DEF StrayInv, Made

LEMMA SavedStray ==
  ASSUME Types, StrayInv, NEW q \in Requests, NEW d, NEW w, Turns(q, d, w), d.at # "removing",
         NEW u, NEW r, NEW ref, comments' = [comments EXCEPT ![q] = Comment(u, r, ref)],
         late' = IF r \notin saved \/ Removing(r) THEN late \cup {q} ELSE late,
         saved' = saved
  PROVE  StrayInv'
<1>1. req'[q] = d /\ \A p \in Requests \ {q} : req'[p] = req[p]
  BY TurnKeeps DEF Types
<1>2. \A p \in Requests : req'[p].at = "removing" => req[p].at = "removing" /\ req[p].on = req'[p].on
  BY <1>1
<1>3. Comment(u, r, ref).on = r
  BY DEF Comment
<1>4. ASSUME NEW c \in Made' \ late'
      PROVE  comments'[c].on \in saved' /\ \A p \in Requests : ~(req'[p].at = "removing" /\ req'[p].on = comments'[c].on)
  <2>1. CASE c = q
    <3>1. comments'[c].on = r
      BY <1>3, <2>1 DEF Types, DataTypes, CommentId
    <3>2. r \in saved /\ ~Removing(r)
      BY <1>4, <2>1
    <3> QED
      BY <1>2, <3>1, <3>2 DEF Removing
  <2>2. CASE c # q
    <3>1. comments'[c] = comments[c]
      BY <1>4, <2>2 DEF Made, Types, DataTypes, CommentId
    <3>2. c \in Made \ late
      BY <1>4, <2>2, <3>1 DEF Made
    <3> QED
      BY <1>2, <3>1, <3>2 DEF StrayInv, Removing
  <2> QED
    BY <2>1, <2>2
<1> QED
  BY <1>4 DEF StrayInv, Removing

LEMMA StrayStep ==
  ASSUME Types, StrayInv, [Next]_vars  PROVE StrayInv'
<1>1. CASE Quiet
  BY <1>1 DEF Quiet, vars, modVars, commentVars, StrayInv, Made, Removing
<1>2. ASSUME NEW q \in Requests, ModerationCase(q)  PROVE StrayInv'
  <2>1. comments' = comments /\ late' = late /\ UNCHANGED work /\ UNCHANGED commentVars
    BY <1>2 DEF ModerationCase, commentVars
  <2>2. req[q] \in RequestRecord /\ \A at : Turned(req[q], at).at = at /\ Over("done").at = "done"
    BY OverTyped DEF Types, RequestTypes, Turned, RequestRecord
  <2>3. ASSUME NEW e \in Entities, NEW u \in Users, Create(q, e, u)  PROVE StrayInv'
    <3>1. Turns(q, CreateRequest(e, u), NoWork) /\ CreateRequest(e, u).at # "removing"
      BY <2>1, <2>2, <2>3, CreateTurns DEF CreateRequest, Request
    <3>2. saved \subseteq saved'
      BY <2>3 DEF Create
    <3> QED
      BY <2>1, <3>1, <3>2, StrayAside
  <2>4. ASSUME NEW e \in Entities, NEW u \in Users, Delete(q, e, u)  PROVE StrayInv'
    <3> DEFINE d == Request("deleting", "remove", e, u, moderation[e])
    <3>1. Turns(q, d, NoWork) /\ d.at # "removing" /\ saved' = saved
      BY <2>1, <2>4, DeleteTurns DEF Delete, Request
    <3> HIDE DEF d
    <3> QED
      BY <2>1, <3>1, StrayAside
  <2>5. ASSUME NEW e \in Entities, NEW u \in Users, NEW action \in Actions, Moderate(q, e, u, action)
        PROVE  StrayInv'
    <3> DEFINE d == Request("moderating", action, e, u, moderation[e])
    <3>1. Turns(q, d, NoWork) /\ d.at # "removing" /\ saved' = saved
      BY <2>1, <2>5, ModerateTurns DEF Moderate, Request
    <3> HIDE DEF d
    <3> QED
      BY <2>1, <3>1, StrayAside
  <2>6. CASE CreateReload(q)
    <3>1. Reloaded(req[q]).at # "removing" /\ saved' = saved
      BY <2>2, <2>6 DEF Reloaded, RequestRecord, CreateReload
    <3> QED
      BY <2>1, <2>2, <2>6, <3>1, CreateReloadTurns, StrayAside
  <2>7. CASE CreateCount(q)
    <3>1. saved' = saved
      BY <2>7 DEF CreateCount
    <3> QED
      BY <2>1, <2>2, <2>7, <3>1, CreateCountTurns, StrayAside
  <2>8. CASE ModerateUpdate(q)
    <3>1. saved' = saved
      BY <2>8 DEF ModerateUpdate
    <3> QED
      BY <2>1, <2>2, <2>8, <3>1, ModerateUpdateTurns, StrayAside
  <2>9. ASSUME NEW next \in {"answer", "noting"}, ModerateCount(q, next),
               next = "noting" => req[q].on \in Releases
        PROVE  StrayInv'
    <3>1. saved' = saved
      BY <2>9 DEF ModerateCount
    <3> QED
      BY <2>1, <2>2, <2>9, <3>1, ModerateCountTurns, StrayAside
  <2>10. CASE Answered(q)
    <3>1. saved' = saved /\ Turns(q, Over("done"), NoWork)
      BY <2>1, <2>10, EndTurns DEF Answered, SameEntities
    <3> QED
      BY <2>1, <2>2, <3>1, StrayAside
  <2>11. CASE RemoveEntity(q)
    <3>1. Turns(q, Over("done"), NoWork)
      BY <2>1, <2>11, EndTurns DEF RemoveEntity
    <3>2. req'[q] = Over("done") /\ \A p \in Requests \ {q} : req'[p] = req[p]
      BY <3>1, TurnKeeps DEF Types
    <3>3. \A e : Removing(e)' => Removing(e)
      BY <2>2, <3>2 DEF Removing
    <3>4. saved' = saved \ {req[q].on} /\ Removing(req[q].on)
      BY <2>11 DEF RemoveEntity, Removing
    <3> QED
      BY <2>1, <3>3, <3>4 DEF StrayInv, Made
  <2> QED
    BY <1>2, <2>3, <2>4, <2>5, <2>6, <2>7, <2>8, <2>9, <2>10, <2>11 DEF ModerationCase
<1>3. ASSUME NEW q \in Requests, CommentCase(q)  PROVE StrayInv'
  <2>1. req[q] \in RequestRecord /\ \A at : Turned(req[q], at).at = at /\ Over("done").at = "done"
    BY OverTyped DEF Types, RequestTypes, Turned, RequestRecord
  <2>2. ASSUME NEW r \in Releases, NEW u \in Users, NEW ref \in References, StartComment(q, r, u, ref)
        PROVE  StrayInv'
    <3> DEFINE d == Request("commenting", ref, r, u, moderation[r])
    <3>1. /\ Turns(q, d, NoWork) /\ d.at # "removing"
          /\ saved' = saved /\ comments' = comments /\ late' = late
      BY <2>2, StartCommentTurns DEF StartComment, Request, SameEntities, commentVars
    <3> HIDE DEF d
    <3> QED
      BY <3>1, StrayAside
  <2>3. ASSUME NEW c \in CommentId, NEW u \in Users, NEW ref \in References, StartMove(q, c, u, ref)
        PROVE  StrayInv'
    <3> DEFINE d == Request("moving", ref, comments[c].on, u, moderation[comments[c].on])
    <3>1. /\ Turns(q, d, ToMove(c, ref)) /\ d.at # "removing"
          /\ saved' = saved /\ comments' = comments /\ late' = late
      BY <2>3, StartMoveTurns DEF StartMove, Request, SameEntities
    <3> HIDE DEF d
    <3> QED
      BY <3>1, StrayAside
  <2>4. CASE SaveComment(q)
    <3> DEFINE u == req[q].by
               r == req[q].on
               ref == req[q].kind
    <3>1. /\ comments' = [comments EXCEPT ![q] = Comment(u, r, ref)] /\ saved' = saved
          /\ late' = IF r \notin saved \/ Removing(r) THEN late \cup {q} ELSE late
      BY <2>4 DEF SaveComment, SameEntities, Removing
    <3>2. \/ Turns(q, Turned(req[q], "counting"), Told(q))
          \/ Turns(q, Over("done"), NoWork)
      BY <2>4, SaveCommentTurns
    <3> HIDE DEF u, r, ref
    <3> QED
      BY <2>1, <3>1, <3>2, SavedStray
  <2>5. CASE CommentOnModeration(q)
    <3> DEFINE u == req[q].by
               r == req[q].on
    <3>1. /\ comments' = [comments EXCEPT ![q] = Comment(u, r, "release_moderation")] /\ saved' = saved
          /\ late' = IF r \notin saved \/ Removing(r) THEN late \cup {q} ELSE late
      BY <2>5 DEF CommentOnModeration, SameEntities, Removing
    <3>2. Turns(q, Over("done"), NoWork)
      BY <2>5, CommentOnModerationTurns
    <3> HIDE DEF u, r
    <3> QED
      BY <2>1, <3>1, <3>2, SavedStray
  <2>6. CASE SaveMove(q)
    <3>1. saved' = saved /\ late' = late
      BY <2>6 DEF SaveMove, SameEntities
    <3>2. CASE work[q].on \notin Made
      BY <2>1, <2>6, <3>1, <3>2, SaveMoveTurns, StrayAside DEF SaveMove
    <3>3. CASE work[q].on \in Made
      <4>1. Turns(q, Turned(req[q], "counting"), work[q])
        BY <2>6, <3>3, SaveMoveTurns
      <4>2. req'[q].at = "counting" /\ \A p \in Requests \ {q} : req'[p] = req[p]
        BY <2>1, <4>1, TurnKeeps DEF Types
      <4>3. \A e : Removing(e)' => Removing(e)
        BY <4>2 DEF Removing
      <4>4. \A c \in CommentId : comments'[c] # None =>
              c \in Made /\ comments'[c].on = comments[c].on
        BY <2>6, <3>3, Moved DEF Made
      <4> QED
        BY <3>1, <4>3, <4>4 DEF StrayInv, Made
    <3> QED
      BY <3>2, <3>3
  <2>7. CASE RemoveComments(q)
    <3>1. /\ saved' = saved /\ late' = late
          /\ comments' = [c \in CommentId |->
               IF c \in Made /\ comments[c].on = req[q].on THEN None ELSE comments[c]]
      BY <2>7 DEF RemoveComments, SameEntities
    <3>2. Turns(q, Turned(req[q], "removing"), NoWork)
      BY <2>7, RemoveCommentsTurns
    <3>3. /\ req'[q] = Turned(req[q], "removing") /\ \A p \in Requests \ {q} : req'[p] = req[p]
          /\ Turned(req[q], "removing").on = req[q].on
      BY <2>1, <3>2, TurnKeeps DEF Types, Turned, RequestRecord
    <3>4. \A e : Removing(e)' => Removing(e) \/ e = req[q].on
      BY <3>3 DEF Removing
    <3>5. \A c \in CommentId : comments'[c] # None =>
            /\ comments'[c] = comments[c] /\ c \in Made /\ comments[c].on # req[q].on
      BY <3>1 DEF Made
    <3> QED
      BY <3>1, <3>4, <3>5 DEF StrayInv, Made
  <2>8. ASSUME NEW t \in Counters, Count(q, t)  PROVE StrayInv'
    <3>1. saved' = saved /\ comments' = comments /\ late' = late /\ req[q].at = "counting"
      BY <2>8 DEF Count, SameEntities
    <3> QED
      BY <2>1, <2>8, <3>1, CountTurns, StrayAside
  <2>9. CASE CommentDies(q)
    <3>1. saved' = saved /\ comments' = comments /\ late' = late
      BY <2>9 DEF CommentDies, Die
    <3> QED
      BY <2>1, <2>9, <3>1, CommentDiesTurns, StrayAside
  <2> QED
    BY <1>3, <2>2, <2>3, <2>4, <2>5, <2>6, <2>7, <2>8, <2>9 DEF CommentCase
<1> QED
  BY <1>1, <1>2, <1>3, StepCases

-----------------------------------------------------------------------------
(* The count of the comments *)

\* Whether a request in the state at, with the work w, has to count c at t.
Dues(at, w, c, t, ref) == w.on = c /\ at = "counting" /\ w.ref = ref /\ t \in w.todo

LEMMA DueTurns ==
  ASSUME Types, NEW q \in Requests, NEW d, NEW w, Turns(q, d, w), NEW c, NEW t, NEW ref
  PROVE  /\ Cardinality(Due(c, t, ref)) \in Nat /\ Cardinality(Due(c, t, ref))' \in Nat
         /\ Cardinality(Due(c, t, ref))' = Cardinality(Due(c, t, ref))
              + Bit(Dues(d.at, w, c, t, ref)) - Bit(Dues(req[q].at, work[q], c, t, ref))
<1>1. /\ req'[q] = d /\ work'[q] = w
      /\ \A p \in Requests \ {q} : req'[p] = req[p] /\ work'[p] = work[p]
  BY TurnKeeps DEF Types
<1> DEFINE D == {p \in Requests : Dues(req'[p].at, work'[p], c, t, ref)}
<1>2. Due(c, t, ref) = {p \in Requests : Dues(req[p].at, work[p], c, t, ref)}
  BY DEF Due, Dues, Counting
<1>3. D \ {q} = Due(c, t, ref) \ {q}
  BY <1>1, <1>2
<1>4. (q \in D <=> Dues(d.at, w, c, t, ref)) /\ (q \in Due(c, t, ref) <=> Dues(req[q].at, work[q], c, t, ref))
  BY <1>1, <1>2
<1>5. IsFiniteSet(Due(c, t, ref))
  BY RequestsFinite DEF Due
<1>6. Due(c, t, ref)' = D
  BY DEF Due, Dues, Counting
<1> HIDE DEF D
<1>7. /\ Cardinality(D) = Cardinality(Due(c, t, ref)) + Bit(q \in D) - Bit(q \in Due(c, t, ref))
      /\ Cardinality(Due(c, t, ref)) \in Nat /\ Cardinality(D) \in Nat
  BY <1>3, <1>5, CardinalityTurns
<1> QED
  BY <1>4, <1>6, <1>7 DEF Bit

TallyAt(c) ==
  /\ Unspoken(c) => /\ comments[c] = None
                    /\ \A t \in Tallies : tally[t][c] = 0
                    /\ \A q \in Requests : work[q].on # c
  /\ c \in Made \ drifted =>
       \A t \in Tallies :
         tally[t][c] = Bit(Public(c)) - Cardinality(Due(c, t, "release"))
                                      + Cardinality(Due(c, t, "release_moderation"))

LEMMA TallyEach == TallyInv <=> \A c \in CommentId : TallyAt(c)
BY DEF TallyInv, TallyAt

\* A request that has made its comment has made it for good.
Onward(at, next) == at \in {"counting", "done"} => next \in {"counting", "done"}

LEMMA SpokenTurns ==
  ASSUME Types, NEW q \in Requests, NEW d, NEW w, Turns(q, d, w), Onward(req[q].at, d.at),
         NEW c \in CommentId
  PROVE  Unspoken(c)' => Unspoken(c)
BY TurnKeeps DEF Types, CommentId, Unspoken, Onward

\* A comment the step does not count.
LEMMA TallyAside ==
  ASSUME Types, NEW c \in CommentId, TallyAt(c), NEW q \in Requests, NEW d, NEW w, Turns(q, d, w),
         Onward(req[q].at, d.at), comments'[c] \in {None, comments[c]},
         \A t \in Tallies : tally'[t][c] = tally[t][c],
         \A t \in Tallies, ref \in References :
           Dues(d.at, w, c, t, ref) <=> Dues(req[q].at, work[q], c, t, ref),
         w.on = c => work[q].on = c \/ c \in Made,
         c \in drifted => c \in drifted'
  PROVE  TallyAt(c)'
<1>1. /\ req'[q] = d /\ work'[q] = w
      /\ \A p \in Requests \ {q} : req'[p] = req[p] /\ work'[p] = work[p]
  BY TurnKeeps DEF Types
<1>2. Unspoken(c)' => Unspoken(c)
  BY SpokenTurns
<1>3. ASSUME Unspoken(c)'
      PROVE  /\ comments'[c] = None
             /\ \A t \in Tallies : tally'[t][c] = 0
             /\ \A p \in Requests : work'[p].on # c
  <2>1. /\ comments[c] = None /\ \A t \in Tallies : tally[t][c] = 0
        /\ \A p \in Requests : work[p].on # c
    BY <1>2, <1>3 DEF TallyAt
  <2>2. w.on # c
    BY <2>1 DEF Made
  <2> QED
    BY <1>1, <2>1, <2>2
<1>4. ASSUME comments'[c] # None, c \notin drifted', NEW t \in Tallies
      PROVE  tally'[t][c] = Bit(comments'[c].ref = "release") - Cardinality(Due(c, t, "release"))'
                                          + Cardinality(Due(c, t, "release_moderation"))'
  <2>1. /\ comments'[c] = comments[c] /\ c \in Made \ drifted
    BY <1>4 DEF Made
  <2>2. tally[t][c] = Bit(comments[c].ref = "release") - Cardinality(Due(c, t, "release"))
                                      + Cardinality(Due(c, t, "release_moderation"))
    BY <2>1 DEF TallyAt, Public
  <2>3. \A ref \in References : Cardinality(Due(c, t, ref))' = Cardinality(Due(c, t, ref))
    <3> SUFFICES ASSUME NEW ref \in References
                 PROVE  Cardinality(Due(c, t, ref))' = Cardinality(Due(c, t, ref))
      OBVIOUS
    <3>1. Bit(Dues(d.at, w, c, t, ref)) = Bit(Dues(req[q].at, work[q], c, t, ref))
      BY DEF Bit
    <3>2. Cardinality(Due(c, t, ref)) \in Nat
      BY DueTurns
    <3>3. Bit(Dues(d.at, w, c, t, ref)) \in Nat
      BY DEF Bit
    <3> QED
      BY <3>1, <3>2, <3>3, DueTurns
  <2> QED
    BY <2>1, <2>2, <2>3 DEF References
<1> QED
  BY <1>3, <1>4 DEF TallyAt, Made, Public, Bit

\* The steps that count no comment and make none.
LEMMA TallyQuiet ==
  ASSUME Types, TallyInv, NEW q \in Requests, NEW d, NEW w, Turns(q, d, w), Onward(req[q].at, d.at),
         d.at # "counting", req[q].at # "counting", UNCHANGED tally, drifted \subseteq drifted',
         \A c \in CommentId : comments'[c] \in {None, comments[c]},
         w = NoWork \/ w.on \in Made
  PROVE  TallyInv'
<1>1. ASSUME NEW c \in CommentId  PROVE TallyAt(c)'
  <2>1. TallyAt(c)
    BY TallyEach
  <2>2. w.on = c => c \in Made
    BY Distinct DEF NoWork, CommentId
  <2>3. \A t \in Tallies, ref \in References :
          Dues(d.at, w, c, t, ref) <=> Dues(req[q].at, work[q], c, t, ref)
    BY DEF Dues
  <2> QED
    BY <2>1, <2>2, <2>3, TallyAside
<1> QED
  BY <1>1 DEF TallyInv, TallyAt, Unspoken, Made, Due, Counting, Public

\* A comment is made.
LEMMA SpeaksTally ==
  ASSUME Types, TallyInv, NEW q \in Requests, req[q].at \in {"commenting", "noting"},
         NEW u, NEW r, NEW ref \in References, comments' = [comments EXCEPT ![q] = Comment(u, r, ref)],
         NEW d, NEW w, Turns(q, d, w), UNCHANGED <<tally, drifted>>,
         \/ ref = "release" /\ d.at = "counting" /\ w = Told(q)
         \/ ref = "release_moderation" /\ d.at = "done" /\ w = NoWork
  PROVE  TallyInv'
<1>1. ASSUME NEW c \in CommentId  PROVE TallyAt(c)'
  <2>1. TallyAt(c) /\ Onward(req[q].at, d.at)
    BY TallyEach DEF Onward
  <2>2. work[q] = NoWork
    BY Workless DEF Types
  <2>3. CASE c # q
    <3>1. comments'[c] = comments[c]
      BY <2>3 DEF Types, DataTypes, CommentId
    <3>2. w.on # c
      BY <2>3, Distinct DEF Told, NoWork, CommentId
    <3>3. \A t \in Tallies, x \in References :
            Dues(d.at, w, c, t, x) <=> Dues(req[q].at, work[q], c, t, x)
      BY <3>2 DEF Dues
    <3> QED
      BY <2>1, <3>1, <3>2, <3>3, TallyAside
  <2>4. CASE c = q
    <3>1. /\ \A t \in Tallies : tally[t][c] = 0
          /\ \A p \in Requests : work[p].on # c
      BY <2>1, <2>4 DEF TallyAt, Unspoken
    <3>2. \A t, x : Due(c, t, x) = {} /\ Cardinality(Due(c, t, x)) = 0
      BY <3>1, FS_EmptySet DEF Due
    <3>3. comments'[c] = Comment(u, r, ref) /\ comments'[c].ref = ref
      BY <2>4 DEF Types, DataTypes, CommentId, Comment
    <3>4. ~Dues(req[q].at, work[q], c, "release", "release") /\ \A t, x : ~Dues(req[q].at, work[q], c, t, x)
      BY DEF Dues
    <3>5. \A t \in Tallies : /\ Dues(d.at, w, c, t, "release") <=> ref = "release"
                             /\ ~Dues(d.at, w, c, t, "release_moderation")
      BY <2>4 DEF Dues, Told, NoWork, Counters
    <3>6. ~Unspoken(c)'
      BY <2>4, TurnKeeps DEF Unspoken, Types
    <3>7. ASSUME NEW t \in Tallies
          PROVE  tally'[t][c] = Bit(comments'[c].ref = "release") - Cardinality(Due(c, t, "release"))'
                                              + Cardinality(Due(c, t, "release_moderation"))'
      <4>1. /\ Cardinality(Due(c, t, "release"))' = 0 + Bit(ref = "release") - 0
            /\ Cardinality(Due(c, t, "release_moderation"))' = 0
        BY <3>2, <3>4, <3>5, DueTurns DEF Bit
      <4> QED
        BY <3>1, <3>3, <4>1 DEF Bit
    <3> QED
      BY <3>6, <3>7 DEF TallyAt, Made, Public, Bit
  <2> QED
    BY <2>3, <2>4
<1> QED
  BY <1>1 DEF TallyInv, TallyAt, Unspoken, Made, Due, Counting, Public

LEMMA MoveTally ==
  ASSUME Types, TallyInv, NEW q \in Requests, SaveMove(q)
  PROVE  TallyInv'
<1>1. req[q].at = "moving" /\ UNCHANGED tally
  BY DEF SaveMove
<1>2. CASE work[q].on \notin Made
  <2>1. Turns(q, Over("done"), NoWork) /\ UNCHANGED <<comments, drifted>> /\ Over("done").at = "done"
    BY <1>2, SaveMoveTurns, OverTyped DEF SaveMove
  <2>2. Onward(req[q].at, "done")
    BY DEF Onward
  <2> QED
    BY <1>1, <2>1, <2>2, TallyQuiet
<1>3. CASE work[q].on \in Made
  <2> DEFINE d == Turned(req[q], "counting")
             w == work[q]
             m == work[q].on
  <2>1. Turns(q, d, w) /\ d.at = "counting"
    BY <1>3, SaveMoveTurns DEF Turned, Types, RequestTypes, RequestRecord
  <2>2. /\ m \in CommentId /\ w.ref \in References /\ w.todo = Counters
        /\ comments[m].ref \in References
        /\ comments'[m].ref \in {w.ref, comments[m].ref}
        /\ \A c \in CommentId \ {m} : comments'[c] = comments[c]
    BY <1>1, <1>3, Moved, MadeTyped, Seeing DEF CommentId, Types, RequestTypes, WellWorking
  <2>3. drifted' = IF comments'[m].ref # comments[m].ref THEN drifted ELSE drifted \cup {m}
    BY <1>3, MovedOrNoted
  <2>4. Onward(req[q].at, d.at)
    BY <1>1 DEF Onward
  <2> HIDE DEF d
  <2>5. ASSUME NEW c \in CommentId  PROVE TallyAt(c)'
    <3>1. TallyAt(c)
      BY TallyEach
    <3>2. CASE c # m
      <4>1. \A t \in Tallies, x \in References :
              Dues(d.at, w, c, t, x) <=> Dues(req[q].at, work[q], c, t, x)
        BY <3>2 DEF Dues
      <4>2. comments'[c] \in {None, comments[c]} /\ (c \in drifted => c \in drifted') /\ w.on # c
        BY <2>2, <2>3, <3>2
      <4> QED
        BY <1>1, <2>1, <2>4, <3>1, <4>1, <4>2, TallyAside
    <3>3. CASE c = m
      <4>1. ~Unspoken(c) /\ ~Unspoken(c)'
        BY <2>1, <2>4, <3>1, <3>3, SpokenTurns DEF TallyAt
      <4>2. ASSUME c \notin drifted', NEW t \in Tallies
            PROVE  tally'[t][c] = Bit(comments'[c].ref = "release") - Cardinality(Due(c, t, "release"))'
                                                + Cardinality(Due(c, t, "release_moderation"))'
        <5>1. c \notin drifted /\ comments'[c].ref = w.ref /\ comments[c].ref # w.ref
          BY <2>2, <2>3, <3>3, <4>2
        <5>2. tally[t][c] = Bit(comments[c].ref = "release") - Cardinality(Due(c, t, "release"))
                                            + Cardinality(Due(c, t, "release_moderation"))
          BY <1>3, <3>1, <3>3, <5>1 DEF TallyAt, Public
        <5>3. \A x \in References : /\ Dues(d.at, w, c, t, x) <=> w.ref = x
                                    /\ ~Dues(req[q].at, work[q], c, t, x)
          BY <1>1, <2>1, <2>2, <3>3 DEF Dues, Counters
        <5>4. /\ "release" \in References /\ "release_moderation" \in References
              /\ w.ref = "release" \/ w.ref = "release_moderation"
              /\ comments[c].ref = "release" \/ comments[c].ref = "release_moderation"
          BY <2>2, <3>3 DEF References
        <5>5. /\ Cardinality(Due(c, t, "release")) \in Nat
              /\ Cardinality(Due(c, t, "release_moderation")) \in Nat
              /\ Cardinality(Due(c, t, "release"))'
                   = Cardinality(Due(c, t, "release")) + Bit(w.ref = "release")
              /\ Cardinality(Due(c, t, "release_moderation"))'
                   = Cardinality(Due(c, t, "release_moderation")) + Bit(w.ref = "release_moderation")
          BY <2>1, <5>3, <5>4, DueTurns DEF Bit
        <5>6. tally'[t][c] = tally[t][c] /\ comments'[c].ref = w.ref
          BY <1>1, <5>1
        <5> HIDE DEF w, m
        <5> QED
          BY <5>1, <5>2, <5>4, <5>5, <5>6 DEF Bit
      <4> QED
        BY <4>1, <4>2 DEF TallyAt, Made, Public, Bit
    <3> QED
      BY <3>2, <3>3
  <2> QED
    BY <2>5 DEF TallyInv, TallyAt, Unspoken, Made, Due, Counting, Public
<1> QED
  BY <1>2, <1>3

LEMMA CountTally ==
  ASSUME Types, TallyInv, NEW q \in Requests, NEW t \in Counters, Count(q, t)
  PROVE  TallyInv'
<1> DEFINE m == work[q].on
           x == work[q].ref
<1>1. /\ req[q].at = "counting" /\ t \in work[q].todo /\ m \in CommentId /\ x \in References
      /\ UNCHANGED <<comments, drifted>>
  BY Seeing DEF Count, CommentId
<1>2. PICK d, w : /\ Turns(q, d, w) /\ d.at \in {"counting", "done"}
                  /\ w = NoWork \/ w.on = m
                  /\ \A c \in CommentId, y \in Tallies, ref \in References :
                       Dues(d.at, w, c, y, ref) <=> Dues(req[q].at, work[q], c, y, ref) /\ y # t
  <2>1. CASE work[q].todo \ {t} = {}
    <3>1. Turns(q, Over("done"), NoWork) /\ Over("done").at = "done"
      BY <2>1, CountTurns, OverTyped
    <3>2. \A c \in CommentId, y \in Tallies, ref \in References :
            /\ ~Dues("done", NoWork, c, y, ref)
            /\ ~(Dues(req[q].at, work[q], c, y, ref) /\ y # t)
      BY <2>1 DEF Dues
    <3> QED
      BY <3>1, <3>2
  <2>2. CASE work[q].todo \ {t} # {}
    <3>1. Turns(q, req[q], Left(q, t))
      BY <2>2, CountTurns
    <3>2. /\ Left(q, t).on = m /\ Left(q, t).ref = x /\ Left(q, t).todo = work[q].todo \ {t}
      BY DEF Left, Types, RequestTypes, WorkRecord
    <3>3. \A c \in CommentId, y \in Tallies, ref \in References :
            Dues(req[q].at, Left(q, t), c, y, ref) <=> Dues(req[q].at, work[q], c, y, ref) /\ y # t
      BY <3>2 DEF Dues
    <3> QED
      BY <1>1, <3>1, <3>2, <3>3
  <2> QED
    BY <2>1, <2>2
<1>3. Onward(req[q].at, d.at)
  BY <1>2 DEF Onward
<1>4. ASSUME NEW c \in CommentId  PROVE TallyAt(c)'
  <2>1. TallyAt(c)
    BY TallyEach
  <2>2. CASE t \notin Tallies \/ c # m
    <3>1. \A y \in Tallies, ref \in References :
            Dues(d.at, w, c, y, ref) <=> Dues(req[q].at, work[q], c, y, ref)
      BY <1>2, <2>2 DEF Dues
    <3>2. \A y \in Tallies : tally'[y][c] = tally[y][c]
      BY <2>2, Counted DEF Counters
    <3>3. w.on = c => work[q].on = c
      BY <1>2, Distinct DEF NoWork, CommentId
    <3> QED
      BY <1>1, <1>2, <1>3, <2>1, <3>1, <3>2, <3>3, TallyAside
  <2>3. CASE t \in Tallies /\ c = m
    <3>1. ~Unspoken(c) /\ ~Unspoken(c)'
      BY <1>2, <1>3, <2>1, <2>3, SpokenTurns DEF TallyAt
    <3>2. ASSUME c \in Made \ drifted, NEW y \in Tallies
          PROVE  tally'[y][c] = Bit(Public(c)) - Cardinality(Due(c, y, "release"))'
                                               + Cardinality(Due(c, y, "release_moderation"))'
      <4>1. tally[y][c] = Bit(Public(c)) - Cardinality(Due(c, y, "release"))
                                         + Cardinality(Due(c, y, "release_moderation"))
        BY <2>1, <3>2 DEF TallyAt
      <4>2. /\ "release" \in References /\ "release_moderation" \in References
            /\ x = "release" \/ x = "release_moderation"
        BY <1>1 DEF References
      <4>3. /\ Cardinality(Due(c, y, "release")) \in Nat
            /\ Cardinality(Due(c, y, "release_moderation")) \in Nat
            /\ tally[y][c] \in Int
        BY <1>2, <4>2, DueTurns DEF Types, DataTypes
      <4>4. CASE y = t
        <5>1. tally'[y][c] = tally[y][c] + DeltaTo(x)
          <6>1. t # "user"
            BY <2>3 DEF Tallies
          <6> QED
            BY <2>3, <4>4, <6>1, Counted
        <5>2. \A ref \in References :
                /\ Dues(req[q].at, work[q], c, y, ref) <=> x = ref
                /\ ~Dues(d.at, w, c, y, ref)
          BY <1>1, <1>2, <2>3, <4>4 DEF Dues
        <5>3. /\ Cardinality(Due(c, y, "release"))'
                   = Cardinality(Due(c, y, "release")) - Bit(x = "release")
              /\ Cardinality(Due(c, y, "release_moderation"))'
                   = Cardinality(Due(c, y, "release_moderation")) - Bit(x = "release_moderation")
          BY <1>2, <4>2, <4>3, <5>2, DueTurns DEF Bit
        <5> HIDE DEF x
        <5> QED
          BY <4>1, <4>2, <4>3, <5>1, <5>3 DEF Bit, DeltaTo
      <4>5. CASE y # t
        <5>1. tally'[y][c] = tally[y][c]
          BY <2>3, <4>5, Counted
        <5>2. \A ref \in References :
                Dues(d.at, w, c, y, ref) <=> Dues(req[q].at, work[q], c, y, ref)
          BY <1>2, <4>5
        <5>3. /\ Cardinality(Due(c, y, "release"))' = Cardinality(Due(c, y, "release"))
              /\ Cardinality(Due(c, y, "release_moderation"))' = Cardinality(Due(c, y, "release_moderation"))
          BY <1>2, <4>2, <4>3, <5>2, DueTurns DEF Bit
        <5> QED
          BY <4>1, <5>1, <5>3
      <4> QED
        BY <4>4, <4>5
    <3>3. Made' = Made /\ drifted' = drifted /\ (Public(c)' <=> Public(c))
      BY <1>1 DEF Made, Public
    <3> QED
      BY <3>1, <3>2, <3>3 DEF TallyAt, Made, Public, Bit
  <2> QED
    BY <2>2, <2>3
<1> QED
  BY <1>4 DEF TallyInv, TallyAt, Unspoken, Made, Due, Counting, Public

LEMMA DiesTally ==
  ASSUME Types, TallyInv, NEW q \in Requests, CommentDies(q)
  PROVE  TallyInv'
<1>1. /\ Turns(q, Over("done"), NoWork) /\ Over("done").at = "done" /\ Onward(req[q].at, Over("done").at)
      /\ UNCHANGED <<comments, tally>> /\ drifted' = drifted \cup ({work[q].on} \ {None})
  BY CommentDiesTurns, OverTyped DEF CommentDies, Onward
<1>2. ASSUME NEW c \in CommentId  PROVE TallyAt(c)'
  <2>1. TallyAt(c)
    BY TallyEach
  <2>2. CASE work[q].on = c
    <3>1. ~Unspoken(c)'
      BY <1>1, <2>1, <2>2, SpokenTurns DEF TallyAt
    <3>2. c \in drifted'
      BY <1>1, <2>2, Distinct DEF CommentId
    <3> QED
      BY <3>1, <3>2 DEF TallyAt
  <2>3. CASE work[q].on # c
    <3>1. \A t \in Tallies, ref \in References :
            Dues(Over("done").at, NoWork, c, t, ref) <=> Dues(req[q].at, work[q], c, t, ref)
      BY <1>1, <2>3 DEF Dues
    <3>2. NoWork.on # c
      BY Distinct DEF NoWork, CommentId
    <3> QED
      BY <1>1, <2>1, <3>1, <3>2, TallyAside
  <2> QED
    BY <2>2, <2>3
<1> QED
  BY <1>2 DEF TallyInv, TallyAt, Unspoken, Made, Due, Counting, Public

\* The states a step of moderation goes from and to.
LEMMA ModerationTurns ==
  ASSUME Types, NEW q \in Requests, ModerationCase(q)
  PROVE  /\ UNCHANGED commentVars /\ UNCHANGED work
         /\ req[q].at \notin {"counting", "moving", "done"}
         /\ \E d : Turns(q, d, NoWork) /\ d.at # "counting"
<1>1. /\ UNCHANGED commentVars /\ UNCHANGED work
  BY DEF ModerationCase, commentVars
<1>2. req[q].at \notin {"counting", "moving", "done"}
  BY DEF ModerationCase, Create, Delete, Moderate, Begin, CreateReload, CreateCount, ModerateUpdate,
         RemoveEntity, ModerateCount, Answered
<1>3. req[q] \in RequestRecord /\ \A at : Turned(req[q], at).at = at
  BY DEF Types, RequestTypes, Turned, RequestRecord
<1>4. ASSUME NEW e \in Entities, NEW u \in Users, Create(q, e, u)
      PROVE  \E d : Turns(q, d, NoWork) /\ d.at # "counting"
  <2>1. CreateRequest(e, u).at # "counting"
    BY OverTyped DEF CreateRequest, Request
  <2> QED
    BY <1>1, <1>4, <2>1, CreateTurns
<1>5. ASSUME NEW e \in Entities, NEW u \in Users, Delete(q, e, u)
      PROVE  \E d : Turns(q, d, NoWork) /\ d.at # "counting"
  <2>1. Request("deleting", "remove", e, u, moderation[e]).at # "counting"
    BY DEF Request
  <2> QED
    BY <1>1, <1>5, <2>1, DeleteTurns
<1>6. ASSUME NEW e \in Entities, NEW u \in Users, NEW action \in Actions, Moderate(q, e, u, action)
      PROVE  \E d : Turns(q, d, NoWork) /\ d.at # "counting"
  <2>1. Request("moderating", action, e, u, moderation[e]).at # "counting"
    BY DEF Request
  <2> QED
    BY <1>1, <1>6, <2>1, ModerateTurns
<1>7. ASSUME CreateReload(q)  PROVE \E d : Turns(q, d, NoWork) /\ d.at # "counting"
  <2>1. Reloaded(req[q]).at # "counting"
    BY <1>3 DEF Reloaded, RequestRecord
  <2> QED
    BY <1>1, <1>7, <2>1, CreateReloadTurns, OverTyped
<1>8. ASSUME CreateCount(q)  PROVE \E d : Turns(q, d, NoWork) /\ d.at # "counting"
  BY <1>1, <1>8, CreateCountTurns, OverTyped
<1>9. ASSUME ModerateUpdate(q)  PROVE \E d : Turns(q, d, NoWork) /\ d.at # "counting"
  BY <1>1, <1>3, <1>9, ModerateUpdateTurns
<1>10. ASSUME NEW next \in {"answer", "noting"}, ModerateCount(q, next),
              next = "noting" => req[q].on \in Releases
       PROVE  \E d : Turns(q, d, NoWork) /\ d.at # "counting"
  BY <1>1, <1>3, <1>10, ModerateCountTurns, OverTyped
<1>11. ASSUME RemoveEntity(q) \/ Answered(q)  PROVE \E d : Turns(q, d, NoWork) /\ d.at # "counting"
  <2>1. Finish(q)
    BY <1>11 DEF RemoveEntity, Answered
  <2> QED
    BY <1>1, <1>2, <2>1, EndTurns, OverTyped
<1> QED
  BY <1>1, <1>2, <1>4, <1>5, <1>6, <1>7, <1>8, <1>9, <1>10, <1>11 DEF ModerationCase

LEMMA TallyStep ==
  ASSUME Types, TallyInv, [Next]_vars  PROVE TallyInv'
<1>1. CASE Quiet
  <2>1. UNCHANGED <<comments, tally, drifted, req, work>>
    BY <1>1 DEF Quiet, vars, modVars, commentVars
  <2>2. \A c, t, ref : Due(c, t, ref)' = Due(c, t, ref)
    BY <2>1 DEF Due, Counting
  <2> QED
    BY <2>1, <2>2 DEF TallyInv, Unspoken, Made, Public, Bit
<1>2. ASSUME NEW q \in Requests, ModerationCase(q)  PROVE TallyInv'
  <2>1. PICK d : Turns(q, d, NoWork) /\ d.at # "counting"
    BY <1>2, ModerationTurns
  <2>2. Onward(req[q].at, d.at) /\ UNCHANGED <<tally, drifted, comments>> /\ req[q].at # "counting"
    BY <1>2, ModerationTurns DEF Onward, commentVars
  <2> QED
    BY <2>1, <2>2, TallyQuiet
<1>3. ASSUME NEW q \in Requests, CommentCase(q)  PROVE TallyInv'
  <2>1. req[q] \in RequestRecord /\ \A at : Turned(req[q], at).at = at /\ Over("done").at = "done"
    BY OverTyped DEF Types, RequestTypes, Turned, RequestRecord
  <2>2. ASSUME NEW r \in Releases, NEW u \in Users, NEW ref \in References, StartComment(q, r, u, ref)
        PROVE  TallyInv'
    <3> DEFINE d == Request("commenting", ref, r, u, moderation[r])
    <3>1. /\ Turns(q, d, NoWork) /\ d.at = "commenting" /\ req[q].at = "idle"
          /\ UNCHANGED <<tally, drifted, comments>>
      BY <2>2, StartCommentTurns DEF StartComment, Begin, Request, commentVars
    <3> HIDE DEF d
    <3> QED
      BY <3>1, TallyQuiet DEF Onward
  <2>3. ASSUME NEW c \in CommentId, NEW u \in Users, NEW ref \in References, StartMove(q, c, u, ref)
        PROVE  TallyInv'
    <3> DEFINE d == Request("moving", ref, comments[c].on, u, moderation[comments[c].on])
    <3>1. /\ Turns(q, d, ToMove(c, ref)) /\ d.at = "moving" /\ req[q].at = "idle"
          /\ UNCHANGED <<tally, drifted, comments>> /\ ToMove(c, ref).on \in Made
      BY <2>3, StartMoveTurns DEF StartMove, Begin, Request, ToMove
    <3> HIDE DEF d
    <3> QED
      BY <3>1, TallyQuiet DEF Onward
  <2>4. CASE SaveComment(q)
    <3> DEFINE u == req[q].by
               r == req[q].on
               ref == req[q].kind
    <3>1. /\ req[q].at = "commenting" /\ UNCHANGED <<tally, drifted>>
          /\ comments' = [comments EXCEPT ![q] = Comment(u, r, ref)]
      BY <2>4 DEF SaveComment
    <3>2. /\ ref \in References
          /\ ref = "release" => Turns(q, Turned(req[q], "counting"), Told(q))
          /\ ref # "release" => Turns(q, Over("done"), NoWork)
      BY <2>4, SaveCommentTurns
    <3> HIDE DEF u, r, ref
    <3>3. CASE ref = "release"
      BY <2>1, <3>1, <3>2, <3>3, SpeaksTally
    <3>4. CASE ref # "release"
      <4>1. ref = "release_moderation"
        BY <3>2, <3>4 DEF References
      <4> QED
        BY <2>1, <3>1, <3>2, <4>1, SpeaksTally
    <3> QED
      BY <3>3, <3>4
  <2>5. CASE CommentOnModeration(q)
    <3> DEFINE u == req[q].by
               r == req[q].on
    <3>1. /\ req[q].at = "noting" /\ UNCHANGED <<tally, drifted>>
          /\ comments' = [comments EXCEPT ![q] = Comment(u, r, "release_moderation")]
          /\ Turns(q, Over("done"), NoWork) /\ "release_moderation" \in References
      BY <2>5, CommentOnModerationTurns DEF CommentOnModeration, References
    <3> HIDE DEF u, r
    <3> QED
      BY <2>1, <3>1, SpeaksTally
  <2>6. CASE RemoveComments(q)
    <3>1. /\ req[q].at = "deleting" /\ UNCHANGED <<tally, drifted>>
          /\ Turns(q, Turned(req[q], "removing"), NoWork)
          /\ \A c \in CommentId : comments'[c] \in {None, comments[c]}
      BY <2>6, RemoveCommentsTurns DEF RemoveComments
    <3> QED
      BY <2>1, <3>1, TallyQuiet DEF Onward
  <2> QED
    BY <1>3, <2>2, <2>3, <2>4, <2>5, <2>6, MoveTally, CountTally, DiesTally DEF CommentCase
<1> QED
  BY <1>1, <1>2, <1>3, StepCases

-----------------------------------------------------------------------------
(* The count of a user's comments *)

\* Whether a request by u in the state at, with the work w, has to count him.
Owns(by, at, w, u, ref) == by = u /\ at = "counting" /\ w.ref = ref /\ "user" \in w.todo

LEMMA UnsaidTurns ==
  ASSUME Types, NEW q \in Requests, NEW d, NEW w, Turns(q, d, w), NEW u, NEW ref
  PROVE  /\ Cardinality(Unsaid(u, ref)) \in Nat /\ Cardinality(Unsaid(u, ref))' \in Nat
         /\ Cardinality(Unsaid(u, ref))' = Cardinality(Unsaid(u, ref))
              + Bit(Owns(d.by, d.at, w, u, ref)) - Bit(Owns(req[q].by, req[q].at, work[q], u, ref))
<1>1. /\ req'[q] = d /\ work'[q] = w
      /\ \A p \in Requests \ {q} : req'[p] = req[p] /\ work'[p] = work[p]
  BY TurnKeeps DEF Types
<1> DEFINE D == {p \in Requests : Owns(req'[p].by, req'[p].at, work'[p], u, ref)}
<1>2. Unsaid(u, ref) = {p \in Requests : Owns(req[p].by, req[p].at, work[p], u, ref)}
  BY DEF Unsaid, Owns, Counting
<1>3. D \ {q} = Unsaid(u, ref) \ {q}
  BY <1>1, <1>2
<1>4. /\ q \in D <=> Owns(d.by, d.at, w, u, ref)
      /\ q \in Unsaid(u, ref) <=> Owns(req[q].by, req[q].at, work[q], u, ref)
  BY <1>1, <1>2
<1>5. IsFiniteSet(Unsaid(u, ref))
  BY RequestsFinite DEF Unsaid
<1>6. Unsaid(u, ref)' = D
  BY DEF Unsaid, Owns, Counting
<1> HIDE DEF D
<1>7. /\ Cardinality(D) = Cardinality(Unsaid(u, ref)) + Bit(q \in D) - Bit(q \in Unsaid(u, ref))
      /\ Cardinality(Unsaid(u, ref)) \in Nat /\ Cardinality(D) \in Nat
  BY <1>3, <1>5, CardinalityTurns
<1> QED
  BY <1>4, <1>6, <1>7 DEF Bit

LEMMA PublicFinite ==
  ASSUME NEW u
  PROVE  /\ IsFiniteSet(PublicBy(u)) /\ Cardinality(PublicBy(u)) \in Nat
         /\ IsFiniteSet(PublicBy(u)') /\ Cardinality(PublicBy(u)') \in Nat
<1>1. PublicBy(u) \subseteq Requests /\ PublicBy(u)' \subseteq Requests
  BY DEF PublicBy, Made, CommentId
<1> QED
  BY <1>1, RequestsFinite

SaidAt(u) ==
  said[u] >= Cardinality(PublicBy(u)) - Cardinality(Unsaid(u, "release"))
                                      + Cardinality(Unsaid(u, "release_moderation"))

LEMMA SaidEach == SaidInv <=> \A u \in Users \ lent : SaidAt(u)
BY DEF SaidInv, SaidAt

\* The comments of a user do not become more, and his requests count what they did.
LEMMA SaidAside ==
  ASSUME Types, NEW u \in Users, SaidAt(u), NEW q \in Requests, NEW d, NEW w, Turns(q, d, w),
         said'[u] = said[u], PublicBy(u)' \subseteq PublicBy(u),
         \A ref \in References :
           Owns(d.by, d.at, w, u, ref) <=> Owns(req[q].by, req[q].at, work[q], u, ref)
  PROVE  SaidAt(u)'
<1>1. \A ref \in References : Cardinality(Unsaid(u, ref))' = Cardinality(Unsaid(u, ref))
  <2> SUFFICES ASSUME NEW ref \in References
               PROVE  Cardinality(Unsaid(u, ref))' = Cardinality(Unsaid(u, ref))
    OBVIOUS
  <2>1. /\ Bit(Owns(d.by, d.at, w, u, ref)) = Bit(Owns(req[q].by, req[q].at, work[q], u, ref))
        /\ Bit(Owns(d.by, d.at, w, u, ref)) \in Nat /\ Cardinality(Unsaid(u, ref)) \in Nat
    BY UnsaidTurns DEF Bit
  <2> QED
    BY <2>1, UnsaidTurns
<1>2. Cardinality(PublicBy(u)') <= Cardinality(PublicBy(u))
  BY PublicFinite, FS_Subset
<1>3. /\ Cardinality(Unsaid(u, "release")) \in Nat /\ Cardinality(Unsaid(u, "release_moderation")) \in Nat
      /\ said[u] \in Int
  BY UnsaidTurns DEF Types, DataTypes
<1>4. "release" \in References /\ "release_moderation" \in References
  BY DEF References
<1>5. Cardinality(PublicBy(u))' = Cardinality(PublicBy(u)')
  OBVIOUS
<1> QED
  BY <1>1, <1>2, <1>3, <1>4, <1>5, PublicFinite DEF SaidAt

\* The steps that make no comment public, and count none for a user.
LEMMA SaidQuiet ==
  ASSUME Types, SaidInv, NEW q \in Requests, NEW d, NEW w, Turns(q, d, w),
         d.at # "counting", req[q].at # "counting", UNCHANGED said, lent \subseteq lent',
         \A c \in CommentId : \/ comments'[c] \in {None, comments[c]}
                              \/ comments'[c].ref # "release"
  PROVE  SaidInv'
<1>1. ASSUME NEW u \in Users \ lent'  PROVE SaidAt(u)'
  <2>1. SaidAt(u)
    BY SaidEach
  <2>2. PublicBy(u)' \subseteq PublicBy(u)
    BY DEF PublicBy, Made, Public
  <2>3. \A ref : ~Owns(d.by, d.at, w, u, ref) /\ ~Owns(req[q].by, req[q].at, work[q], u, ref)
    BY DEF Owns
  <2> QED
    BY <2>1, <2>2, <2>3, SaidAside
<1> QED
  BY <1>1 DEF SaidInv, SaidAt, PublicBy, Unsaid, Made, Counting, Public

\* A comment of a user becomes public, and his own request is to count it.
LEMMA SaysMore ==
  ASSUME Types, NEW u \in Users, SaidAt(u), NEW q \in Requests, NEW d, NEW w, Turns(q, d, w),
         said'[u] = said[u], NEW c, PublicBy(u)' \subseteq PublicBy(u) \cup {c},
         \A ref \in References : ~Owns(req[q].by, req[q].at, work[q], u, ref),
         Owns(d.by, d.at, w, u, "release")
  PROVE  SaidAt(u)'
<1>1. ~Owns(d.by, d.at, w, u, "release_moderation")
  BY DEF Owns
<1>2. "release" \in References /\ "release_moderation" \in References
  BY DEF References
<1>3. /\ Cardinality(Unsaid(u, "release")) \in Nat /\ Cardinality(Unsaid(u, "release_moderation")) \in Nat
      /\ Cardinality(Unsaid(u, "release"))' = Cardinality(Unsaid(u, "release")) + 1
      /\ Cardinality(Unsaid(u, "release_moderation"))' = Cardinality(Unsaid(u, "release_moderation"))
  BY <1>1, <1>2, UnsaidTurns DEF Bit
<1>4. Cardinality(PublicBy(u)') <= Cardinality(PublicBy(u)) + 1
  <2>1. /\ IsFiniteSet(PublicBy(u) \cup {c})
        /\ Cardinality(PublicBy(u) \cup {c}) \in Nat
        /\ Cardinality(PublicBy(u) \cup {c}) <= Cardinality(PublicBy(u)) + 1
    <3>1. CASE c \in PublicBy(u)
      <4>1. PublicBy(u) \cup {c} = PublicBy(u)
        BY <3>1
      <4> QED
        BY <4>1, PublicFinite
    <3>2. CASE c \notin PublicBy(u)
      <4>1. /\ IsFiniteSet(PublicBy(u) \cup {c})
            /\ Cardinality(PublicBy(u) \cup {c}) = Cardinality(PublicBy(u)) + 1
        BY <3>2, PublicFinite, FS_AddElement
      <4> QED
        BY <4>1, PublicFinite
    <3> QED
      BY <3>1, <3>2
  <2>2. Cardinality(PublicBy(u)') <= Cardinality(PublicBy(u) \cup {c})
    BY <2>1, FS_Subset
  <2> QED
    BY <2>1, <2>2, PublicFinite
<1>5. said[u] \in Int /\ Cardinality(PublicBy(u))' = Cardinality(PublicBy(u)')
  BY DEF Types, DataTypes
<1> QED
  BY <1>3, <1>4, <1>5, PublicFinite DEF SaidAt

\* A comment of a user is no longer public, and his own request is to count it off.
LEMMA SaysLess ==
  ASSUME Types, NEW u \in Users, SaidAt(u), NEW q \in Requests, NEW d, NEW w, Turns(q, d, w),
         said'[u] = said[u], NEW c, c \in PublicBy(u), PublicBy(u)' \subseteq PublicBy(u) \ {c},
         \A ref \in References : ~Owns(req[q].by, req[q].at, work[q], u, ref),
         Owns(d.by, d.at, w, u, "release_moderation")
  PROVE  SaidAt(u)'
<1>1. ~Owns(d.by, d.at, w, u, "release")
  BY DEF Owns
<1>2. "release" \in References /\ "release_moderation" \in References
  BY DEF References
<1>3. /\ Cardinality(Unsaid(u, "release")) \in Nat /\ Cardinality(Unsaid(u, "release_moderation")) \in Nat
      /\ Cardinality(Unsaid(u, "release"))' = Cardinality(Unsaid(u, "release"))
      /\ Cardinality(Unsaid(u, "release_moderation"))' = Cardinality(Unsaid(u, "release_moderation")) + 1
  BY <1>1, <1>2, UnsaidTurns DEF Bit
<1>4. Cardinality(PublicBy(u)') <= Cardinality(PublicBy(u)) - 1
  <2>1. /\ IsFiniteSet(PublicBy(u) \ {c})
        /\ Cardinality(PublicBy(u) \ {c}) = Cardinality(PublicBy(u)) - 1
    BY PublicFinite, FS_RemoveElement
  <2> QED
    BY <2>1, FS_Subset
<1>5. said[u] \in Int /\ Cardinality(PublicBy(u))' = Cardinality(PublicBy(u)')
  BY DEF Types, DataTypes
<1> QED
  BY <1>3, <1>4, <1>5, PublicFinite DEF SaidAt

LEMMA SaveSaid ==
  ASSUME Types, SaidInv, NEW q \in Requests, SaveComment(q)
  PROVE  SaidInv'
<1>1. /\ req[q].at = "commenting" /\ UNCHANGED <<said, lent>>
      /\ comments' = [comments EXCEPT ![q] = Comment(req[q].by, req[q].on, req[q].kind)]
      /\ req[q] \in RequestRecord
  BY DEF SaveComment, Types, RequestTypes
<1>2. /\ comments'[q].from = req[q].by /\ comments'[q].ref = req[q].kind
      /\ \A c \in CommentId \ {q} : comments'[c] = comments[c]
  BY <1>1 DEF Types, DataTypes, CommentId, Comment
<1>3. CASE req[q].kind # "release"
  <2>1. Turns(q, Over("done"), NoWork) /\ Over("done").at = "done"
    BY <1>3, SaveCommentTurns, OverTyped
  <2> QED
    BY <1>1, <1>2, <1>3, <2>1, SaidQuiet
<1>4. CASE req[q].kind = "release"
  <2> DEFINE d == Turned(req[q], "counting")
  <2>1. Turns(q, d, Told(q)) /\ d.at = "counting" /\ d.by = req[q].by
    BY <1>1, <1>4, SaveCommentTurns DEF Turned, RequestRecord
  <2> HIDE DEF d
  <2>2. \A u, ref : ~Owns(req[q].by, req[q].at, work[q], u, ref)
    BY <1>1 DEF Owns
  <2>3. ASSUME NEW u \in Users \ lent'  PROVE SaidAt(u)'
    <3>1. SaidAt(u) /\ said'[u] = said[u]
      BY <1>1, SaidEach
    <3>2. CASE u = req[q].by
      <4>1. PublicBy(u)' \subseteq PublicBy(u) \cup {q}
        BY <1>2 DEF PublicBy, Made, Public
      <4>2. Owns(d.by, d.at, Told(q), u, "release")
        BY <2>1, <3>2 DEF Owns, Told, Counters
      <4> QED
        BY <2>1, <2>2, <3>1, <4>1, <4>2, SaysMore
    <3>3. CASE u # req[q].by
      <4>1. PublicBy(u)' \subseteq PublicBy(u)
        BY <1>2, <3>3 DEF PublicBy, Made, Public
      <4>2. \A ref : ~Owns(d.by, d.at, Told(q), u, ref)
        BY <2>1, <3>3 DEF Owns
      <4> QED
        BY <2>1, <2>2, <3>1, <4>1, <4>2, SaidAside
    <3> QED
      BY <3>2, <3>3
  <2> QED
    BY <2>3 DEF SaidInv, SaidAt, PublicBy, Unsaid, Made, Counting, Public
<1> QED
  BY <1>3, <1>4

LEMMA MoveSaid ==
  ASSUME Types, SaidInv, NEW q \in Requests, SaveMove(q)
  PROVE  SaidInv'
<1>1. req[q].at = "moving" /\ UNCHANGED said /\ req[q] \in RequestRecord
  BY DEF SaveMove, Types, RequestTypes
<1>2. CASE work[q].on \notin Made
  <2>1. Turns(q, Over("done"), NoWork) /\ UNCHANGED <<comments, lent>> /\ Over("done").at = "done"
    BY <1>2, SaveMoveTurns, OverTyped DEF SaveMove
  <2> QED
    BY <1>1, <2>1, SaidQuiet
<1>3. CASE work[q].on \in Made
  <2> DEFINE d == Turned(req[q], "counting")
             w == work[q]
             m == work[q].on
  <2>1. Turns(q, d, w) /\ d.at = "counting" /\ d.by = req[q].by
    BY <1>1, <1>3, SaveMoveTurns DEF Turned, RequestRecord
  <2>2. /\ m \in CommentId /\ w.ref \in References /\ w.todo = Counters
        /\ comments[m].ref \in References
        /\ comments'[m].ref \in {w.ref, comments[m].ref} /\ comments'[m].from = comments[m].from
        /\ \A c \in CommentId \ {m} : comments'[c] = comments[c]
    BY <1>1, <1>3, Moved, MadeTyped, Seeing DEF CommentId, Types, RequestTypes, WellWorking
  <2>3. lent' = IF comments'[m].ref # comments[m].ref /\ comments[m].from = req[q].by
                THEN lent ELSE lent \cup {comments[m].from, req[q].by}
    BY <1>3, MovedOrNoted
  <2>4. \A u, ref : ~Owns(req[q].by, req[q].at, work[q], u, ref)
    BY <1>1 DEF Owns
  <2>5. m \in Made
    BY <1>3
  <2> HIDE DEF d, m
  <2>6. ASSUME NEW u \in Users \ lent'  PROVE SaidAt(u)'
    <3>1. SaidAt(u) /\ said'[u] = said[u]
      BY <1>1, <2>3, SaidEach
    <3>2. CASE u # comments[m].from
      <4>1. u # req[q].by
        BY <2>3, <2>6, <3>2
      <4>2. PublicBy(u)' \subseteq PublicBy(u)
        BY <2>2, <3>2 DEF PublicBy, Made, Public
      <4>3. \A ref : ~Owns(d.by, d.at, w, u, ref)
        BY <2>1, <4>1 DEF Owns
      <4> QED
        BY <2>1, <2>4, <3>1, <4>2, <4>3, SaidAside
    <3>3. CASE u = comments[m].from
      <4>1. u = req[q].by /\ comments'[m].ref = w.ref /\ comments[m].ref # w.ref
        BY <2>2, <2>3, <2>6, <3>3
      <4>2. Owns(d.by, d.at, w, u, w.ref)
        BY <2>1, <2>2, <4>1 DEF Owns, Counters
      <4>3. CASE w.ref = "release"
        <5>1. PublicBy(u)' \subseteq PublicBy(u) \cup {m}
          BY <2>2 DEF PublicBy, Made, Public
        <5> QED
          BY <2>1, <2>4, <3>1, <4>2, <4>3, <5>1, SaysMore
      <4>4. CASE w.ref = "release_moderation"
        <5>1. comments[m].ref = "release"
          BY <2>2, <4>1, <4>4 DEF References
        <5>2. m \in PublicBy(u)
          BY <2>5, <3>3, <5>1 DEF PublicBy, Public
        <5>3. PublicBy(u)' \subseteq PublicBy(u) \ {m}
          BY <2>2, <4>1, <4>4 DEF PublicBy, Made, Public
        <5> QED
          BY <2>1, <2>4, <3>1, <4>2, <4>4, <5>2, <5>3, SaysLess
      <4> QED
        BY <2>2, <4>3, <4>4 DEF References
    <3> QED
      BY <3>2, <3>3
  <2> QED
    BY <2>6 DEF SaidInv, SaidAt, PublicBy, Unsaid, Made, Counting, Public
<1> QED
  BY <1>2, <1>3

LEMMA CountSaid ==
  ASSUME Types, SaidInv, NEW q \in Requests, NEW t \in Counters, Count(q, t)
  PROVE  SaidInv'
<1> DEFINE x == work[q].ref
           b == req[q].by
<1>1. /\ req[q].at = "counting" /\ t \in work[q].todo /\ x \in References /\ b \in Users
      /\ UNCHANGED <<comments, lent>>
  BY Seeing DEF Count
<1>2. PICK d, w : /\ Turns(q, d, w)
                  /\ \A u \in Users, ref \in References :
                       Owns(d.by, d.at, w, u, ref) <=>
                         Owns(req[q].by, req[q].at, work[q], u, ref) /\ t # "user"
  <2>1. CASE work[q].todo \ {t} = {}
    <3>1. Turns(q, Over("done"), NoWork) /\ Over("done").at = "done"
      BY <2>1, CountTurns, OverTyped
    <3>2. \A u \in Users, ref \in References :
            /\ ~Owns(Over("done").by, Over("done").at, NoWork, u, ref)
            /\ ~(Owns(req[q].by, req[q].at, work[q], u, ref) /\ t # "user")
      BY <2>1, <3>1 DEF Owns
    <3> QED
      BY <3>1, <3>2
  <2>2. CASE work[q].todo \ {t} # {}
    <3>1. Turns(q, req[q], Left(q, t))
      BY <2>2, CountTurns
    <3>2. Left(q, t).ref = x /\ Left(q, t).todo = work[q].todo \ {t}
      BY DEF Left, Types, RequestTypes, WorkRecord
    <3>3. \A u \in Users, ref \in References :
            Owns(req[q].by, req[q].at, Left(q, t), u, ref) <=>
              Owns(req[q].by, req[q].at, work[q], u, ref) /\ t # "user"
      BY <3>2 DEF Owns
    <3> QED
      BY <3>1, <3>3
  <2> QED
    BY <2>1, <2>2
<1>3. \A u : PublicBy(u)' = PublicBy(u)
  BY <1>1 DEF PublicBy, Made, Public
<1>4. ASSUME NEW u \in Users \ lent'  PROVE SaidAt(u)'
  <2>1. SaidAt(u)
    BY <1>1, <1>4, SaidEach
  <2>2. CASE t # "user" \/ u # b
    <3>1. \A ref \in References :
            Owns(d.by, d.at, w, u, ref) <=> Owns(req[q].by, req[q].at, work[q], u, ref)
      BY <1>2, <2>2 DEF Owns
    <3>2. said'[u] = said[u]
      BY <2>2, Counted
    <3> QED
      BY <1>2, <1>3, <2>1, <3>1, <3>2, SaidAside
  <2>3. CASE t = "user" /\ u = b
    <3>1. said'[u] = said[u] + DeltaTo(x) /\ said[u] \in Int
      BY <2>3, Counted DEF Types, DataTypes
    <3>2. \A ref \in References :
            /\ Owns(req[q].by, req[q].at, work[q], u, ref) <=> x = ref
            /\ ~Owns(d.by, d.at, w, u, ref)
      BY <1>1, <1>2, <2>3 DEF Owns
    <3>3. /\ "release" \in References /\ "release_moderation" \in References
          /\ x = "release" \/ x = "release_moderation"
      BY <1>1 DEF References
    <3>4. /\ Cardinality(Unsaid(u, "release")) \in Nat
          /\ Cardinality(Unsaid(u, "release_moderation")) \in Nat
          /\ Cardinality(Unsaid(u, "release"))'
               = Cardinality(Unsaid(u, "release")) - Bit(x = "release")
          /\ Cardinality(Unsaid(u, "release_moderation"))'
               = Cardinality(Unsaid(u, "release_moderation")) - Bit(x = "release_moderation")
      BY <1>2, <3>2, <3>3, UnsaidTurns DEF Bit
    <3>5. Cardinality(PublicBy(u))' = Cardinality(PublicBy(u)) /\ Cardinality(PublicBy(u)) \in Nat
      BY <1>3, PublicFinite
    <3> HIDE DEF x
    <3> QED
      BY <2>1, <3>1, <3>3, <3>4, <3>5 DEF SaidAt, Bit, DeltaTo
  <2> QED
    BY <2>2, <2>3
<1> QED
  BY <1>4 DEF SaidInv, SaidAt, PublicBy, Unsaid, Made, Counting, Public

LEMMA DiesSaid ==
  ASSUME Types, SaidInv, NEW q \in Requests, CommentDies(q)
  PROVE  SaidInv'
<1>1. /\ Turns(q, Over("done"), NoWork) /\ Over("done").at = "done" /\ UNCHANGED <<comments, said>>
      /\ lent' = IF "user" \in work[q].todo THEN lent \cup {req[q].by} ELSE lent
  BY CommentDiesTurns, OverTyped DEF CommentDies
<1>2. ASSUME NEW u \in Users \ lent'  PROVE SaidAt(u)'
  <2>1. SaidAt(u)
    BY <1>1, <1>2, SaidEach
  <2>2. \A ref : /\ ~Owns(req[q].by, req[q].at, work[q], u, ref)
                 /\ ~Owns(Over("done").by, Over("done").at, NoWork, u, ref)
    BY <1>1, <1>2 DEF Owns
  <2>3. PublicBy(u)' \subseteq PublicBy(u)
    BY <1>1 DEF PublicBy, Made, Public
  <2> QED
    BY <1>1, <2>1, <2>2, <2>3, SaidAside
<1> QED
  BY <1>2 DEF SaidInv, SaidAt, PublicBy, Unsaid, Made, Counting, Public

LEMMA SaidStep ==
  ASSUME Types, SaidInv, [Next]_vars  PROVE SaidInv'
<1>1. CASE Quiet
  <2>1. UNCHANGED <<comments, said, lent, req, work>>
    BY <1>1 DEF Quiet, vars, modVars, commentVars
  <2>2. \A u : PublicBy(u)' = PublicBy(u) /\ \A ref : Unsaid(u, ref)' = Unsaid(u, ref)
    BY <2>1 DEF PublicBy, Unsaid, Made, Public, Counting
  <2> QED
    BY <2>1, <2>2 DEF SaidInv
<1>2. ASSUME NEW q \in Requests, ModerationCase(q)  PROVE SaidInv'
  <2>1. PICK d : Turns(q, d, NoWork) /\ d.at # "counting"
    BY <1>2, ModerationTurns
  <2>2. UNCHANGED <<said, lent, comments>> /\ req[q].at # "counting"
    BY <1>2, ModerationTurns DEF commentVars
  <2> QED
    BY <2>1, <2>2, SaidQuiet
<1>3. ASSUME NEW q \in Requests, CommentCase(q)  PROVE SaidInv'
  <2>1. req[q] \in RequestRecord /\ \A at : Turned(req[q], at).at = at /\ Over("done").at = "done"
    BY OverTyped DEF Types, RequestTypes, Turned, RequestRecord
  <2>2. ASSUME NEW r \in Releases, NEW u \in Users, NEW ref \in References, StartComment(q, r, u, ref)
        PROVE  SaidInv'
    <3> DEFINE d == Request("commenting", ref, r, u, moderation[r])
    <3>1. /\ Turns(q, d, NoWork) /\ d.at = "commenting" /\ req[q].at = "idle"
          /\ UNCHANGED <<said, lent, comments>>
      BY <2>2, StartCommentTurns DEF StartComment, Begin, Request, commentVars
    <3> HIDE DEF d
    <3> QED
      BY <3>1, SaidQuiet
  <2>3. ASSUME NEW c \in CommentId, NEW u \in Users, NEW ref \in References, StartMove(q, c, u, ref)
        PROVE  SaidInv'
    <3> DEFINE d == Request("moving", ref, comments[c].on, u, moderation[comments[c].on])
    <3>1. /\ Turns(q, d, ToMove(c, ref)) /\ d.at = "moving" /\ req[q].at = "idle"
          /\ UNCHANGED <<said, lent, comments>>
      BY <2>3, StartMoveTurns DEF StartMove, Begin, Request
    <3> HIDE DEF d
    <3> QED
      BY <3>1, SaidQuiet
  <2>4. CASE CommentOnModeration(q)
    <3> DEFINE u == req[q].by
               r == req[q].on
    <3>1. /\ req[q].at = "noting" /\ UNCHANGED <<said, lent>>
          /\ comments' = [comments EXCEPT ![q] = Comment(u, r, "release_moderation")]
          /\ Turns(q, Over("done"), NoWork)
      BY <2>4, CommentOnModerationTurns DEF CommentOnModeration
    <3> HIDE DEF u, r
    <3>2. \A c \in CommentId : comments'[c] = comments[c] \/ comments'[c].ref # "release"
      BY <3>1 DEF Types, DataTypes, Comment
    <3> QED
      BY <2>1, <3>1, <3>2, SaidQuiet
  <2>5. CASE RemoveComments(q)
    <3>1. /\ req[q].at = "deleting" /\ UNCHANGED <<said, lent>>
          /\ Turns(q, Turned(req[q], "removing"), NoWork)
          /\ \A c \in CommentId : comments'[c] \in {None, comments[c]}
      BY <2>5, RemoveCommentsTurns DEF RemoveComments
    <3> QED
      BY <2>1, <3>1, SaidQuiet
  <2> QED
    BY <1>3, <2>2, <2>3, <2>4, <2>5, SaveSaid, MoveSaid, CountSaid, DiesSaid DEF CommentCase
<1> QED
  BY <1>1, <1>2, <1>3, StepCases

-----------------------------------------------------------------------------
(* The beginning *)

LEMMA InitTypes == Init => Types
<1> SUFFICES ASSUME Init  PROVE Types
  OBVIOUS
<1>1. PICK u \in Users : creator = [e \in Entities |-> IF e \in saved THEN u ELSE None]
  BY DEF Init, ModInit
<1>2. NoFlags \in FlagRecord
  BY FlagsTyped
<1>3. DataTypes
  BY <1>1, <1>2 DEF Init, ModInit, CommentInit, DataTypes
<1>4. \A q \in Requests : req[q] = Over("idle") /\ work[q] = NoWork
  BY DEF Init, ModInit, CommentInit
<1>5. req \in [Requests -> RequestRecord] /\ work \in [Requests -> WorkRecord]
  BY <1>4, OverTyped, NoWorkTyped DEF Init, ModInit, CommentInit
<1>6. RequestTypes
  BY <1>4, <1>5, OverTyped DEF RequestTypes
<1> QED
  BY <1>3, <1>6 DEF Types

LEMMA InitInv == Init => ModerationInv
<1> SUFFICES ASSUME Init  PROVE ModerationInv
  OBVIOUS
<1>1. Types
  BY InitTypes
<1>2. PICK u \in Users : creator = [e \in Entities |-> IF e \in saved THEN u ELSE None]
  BY DEF Init, ModInit
<1>3. /\ \A e \in Entities : moderation[e] = NoFlags /\ (creator[e] = None => e \notin saved)
      /\ \A r \in Releases : counted[r] = 0
      /\ \A q \in Requests : req[q] = Over("idle") /\ work[q] = NoWork /\ comments[q] = None
      /\ \A t \in Tallies, c \in CommentId : tally[t][c] = 0
      /\ \A x \in Users : said[x] = 0
  BY <1>2, Distinct DEF Init, ModInit, CommentInit, CommentId
<1>4. Made = {}
  BY <1>3 DEF Made, CommentId
<1>5. Over("idle").at = "idle" /\ NoWork.on = None
  BY OverTyped DEF NoWork
<1>6. HistoryExplains
  BY <1>3, NewFlagsExplained, ExplainedEach
<1>7. CountInv
  <2> SUFFICES ASSUME NEW r \in Releases  PROVE CountAt(r)
    BY CountEach
  <2>1. \A q \in Requests : ~Concerns(req[q], r)
    BY <1>3, <1>5 DEF Concerns, Reviewing
  <2>2. Owing(r) = {} /\ Repaying(r) = {}
    BY <2>1, Concerned DEF Owing, Repaying
  <2>3. Balanced(r)
    <3>1. Bit(moderation[r].approved) = 0 /\ counted[r] = 0
      BY <1>3, FlagsTyped, Distinct DEF Bit
    <3>2. Cardinality(Owing(r)) = 0 /\ Cardinality(Repaying(r)) = 0
      BY <2>2, FS_EmptySet
    <3> QED
      BY <3>1, <3>2 DEF Balanced
  <2> QED
    BY <1>3, <2>1, <2>3, Distinct DEF CountAt
<1>8. StrayInv
  BY <1>4 DEF StrayInv
<1>9. TallyInv
  BY <1>3, <1>4, <1>5, Distinct DEF TallyInv, CommentId
<1>10. SaidInv
  <2> SUFFICES ASSUME NEW x \in Users  PROVE SaidAt(x)
    BY SaidEach
  <2>1. PublicBy(x) = {} /\ Unsaid(x, "release") = {} /\ Unsaid(x, "release_moderation") = {}
    BY <1>3, <1>4, <1>5 DEF PublicBy, Unsaid, Counting
  <2>2. /\ Cardinality(PublicBy(x)) = 0 /\ Cardinality(Unsaid(x, "release")) = 0
        /\ Cardinality(Unsaid(x, "release_moderation")) = 0 /\ said[x] = 0
    BY <1>3, <2>1, FS_EmptySet
  <2> QED
    BY <2>2 DEF SaidAt
<1> QED
  BY <1>1, <1>6, <1>7, <1>8, <1>9, <1>10 DEF ModerationInv

LEMMA ModerationInvHolds == Spec => []ModerationInv
<1>1. Init => ModerationInv
  BY InitInv
<1>2. ModerationInv /\ [Next]_vars => ModerationInv'
  BY TypesStep, HistoryStep, CountStep, StrayStep, TallyStep, SaidStep DEF ModerationInv
<1> QED
  BY <1>1, <1>2, PTL DEF Spec

-----------------------------------------------------------------------------
(* The theorems *)

\* The games count their approved releases, whatever moderators do at once, but for the
\* releases whose flags moved between a request's read and its use, and those a request
\* died at (moderation.plugin.ts, release.ts:41-48).
THEOREM ReleasesAreCounted == Spec => []ReleasesCounted
<1>1. ModerationInv => ReleasesCounted
  <2> SUFFICES ASSUME ModerationInv, NEW r \in Releases \ (outrun \cup failed), ~Busy(r)
               PROVE  counted[r] = IF moderation[r].approved THEN 1 ELSE 0
    BY DEF ReleasesCounted
  <2>1. CountAt(r) /\ r # None
    BY CountEach, Distinct DEF ModerationInv
  <2>2. \A q \in Requests : ~Concerns(req[q], r)
    BY DEF Busy, Running, Concerns, Reviewing
  <2>3. Owing(r) = {} /\ Repaying(r) = {} /\ \A q \in Requests : ~Doomed(req[q], r)
    BY <2>2, Concerned DEF Owing, Repaying
  <2>4. Balanced(r)
    BY <2>1, <2>3 DEF CountAt
  <2>5. Cardinality(Owing(r)) = 0 /\ Cardinality(Repaying(r)) = 0
    BY <2>3, FS_EmptySet
  <2> QED
    BY <2>4, <2>5 DEF Balanced, Bit
<1> QED
  BY <1>1, ModerationInvHolds, PTL

\* The flags of an entity are those of the last decision in its history, and it is deleted
\* if the last event deleted it, but for the entities a deletion gave back flags it had
\* loaded before another decision (moderation.plugin.ts:454-470).
THEOREM HistoryTells == Spec => []HistoryExplains
<1>1. ModerationInv => HistoryExplains
  BY DEF ModerationInv
<1> QED
  BY <1>1, ModerationInvHolds, PTL

\* Whoever sees an entity in a list may open it: the filters of the lists are no wider than
\* the assertions of the views (game.reference.plugin.ts:70-175, moderation.plugin.ts:138-322).
THEOREM ListedOpens == Spec => []ListedIsViewable
<1>1. ModerationInv => ListedIsViewable
  <2> SUFFICES ASSUME ModerationInv, NEW reader \in Users \cup {None},
                      NEW filter \in Filters \cup {"none", "mine", "all"}, NEW e \in saved,
                      Listed(reader, filter, e)
               PROVE  Viewable(reader, e)
    BY DEF ListedIsViewable
  <2>1. CASE filter = "mine"
    BY <2>1 DEF Listed, Viewable, Restricts
  <2>2. CASE filter = "none"
    BY <2>2 DEF Listed, Viewable
  <2>3. CASE filter \notin {"mine", "none"}
    <3>1. ~Restricts(reader, e) /\ reader \in Moderators
      BY <2>3 DEF Listed
    <3>2. reader # None
      BY <3>1, Distinct
    <3> QED
      BY <3>1, <3>2 DEF Viewable
  <2> QED
    BY <2>1, <2>2, <2>3
<1> QED
  BY <1>1, ModerationInvHolds, PTL

\* Releases, games and users count their public comments, and the comments of a release go
\* with it, but for those the counters or the removal are known to miss (comment.api.ts).
THEOREM CommentsAreCounted == Spec => []CommentsConsistent
<1>1. ModerationInv => NoStrayComments
  BY DEF ModerationInv, StrayInv, NoStrayComments
<1>2. ASSUME ModerationInv, NEW c \in Made \ drifted, ~AtWorkOn(c), NEW t \in Tallies
      PROVE  tally[t][c] = IF Public(c) THEN 1 ELSE 0
  <2>1. TallyAt(c)
    BY <1>2, TallyEach DEF ModerationInv, Made
  <2>2. \A x : Due(c, t, x) = {}
    BY <1>2 DEF Due, Counting, AtWorkOn, Running
  <2>3. \A x : Cardinality(Due(c, t, x)) = 0
    BY <2>2, FS_EmptySet
  <2> QED
    BY <1>2, <2>1, <2>3 DEF TallyAt, Bit
<1>3. ASSUME ModerationInv, \A q \in Requests : Running(q) => work[q].on = None, NEW u \in Users \ lent
      PROVE  said[u] >= Cardinality({c \in Made \ drifted : comments[c].from = u /\ Public(c)})
  <2>1. SaidAt(u) /\ Types
    BY <1>3, SaidEach DEF ModerationInv
  <2>2. \A q \in Requests : req[q].at # "counting"
    <3> SUFFICES ASSUME NEW q \in Requests, req[q].at = "counting"  PROVE FALSE
      OBVIOUS
    <3>1. Running(q) /\ work[q].on \in Requests
      BY <2>1, Seeing DEF Running
    <3> QED
      BY <1>3, <3>1, Distinct
  <2>3. Unsaid(u, "release") = {} /\ Unsaid(u, "release_moderation") = {}
    BY <2>2 DEF Unsaid, Counting
  <2>4. Cardinality(Unsaid(u, "release")) = 0 /\ Cardinality(Unsaid(u, "release_moderation")) = 0
    BY <2>3, FS_EmptySet
  <2> DEFINE S == {c \in Made \ drifted : comments[c].from = u /\ Public(c)}
  <2>5. S \subseteq PublicBy(u)
    BY DEF PublicBy
  <2> HIDE DEF S
  <2>6. Cardinality(S) <= Cardinality(PublicBy(u)) /\ Cardinality(S) \in Nat
    BY <2>5, PublicFinite, FS_Subset, FS_CardinalityType
  <2>7. said[u] >= Cardinality(PublicBy(u)) /\ said[u] \in Int
    BY <2>1, <2>4, PublicFinite DEF SaidAt, Types, DataTypes
  <2>8. said[u] >= Cardinality(S)
    BY <2>6, <2>7, PublicFinite
  <2> QED
    BY <2>8 DEF S
<1>4. ModerationInv => CommentsConsistent
  BY <1>1, <1>2, <1>3 DEF CommentsConsistent, CommentsCounted
<1> QED
  BY <1>4, ModerationInvHolds, PTL

=============================================================================
