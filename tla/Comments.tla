------------------------------ MODULE Comments ------------------------------
(***************************************************************************)
(* Comments on releases, public or for the moderation, and their counters  *)
(* (comment.api.ts), together with what moderation and removal of the      *)
(* releases do to them.                                                    *)
(***************************************************************************)
EXTENDS Moderation

CommentId == Requests  \* a comment is named by the request that makes it
Tallies == {"release", "game"}

VARIABLES
  comments,  \* MongoDB: the comments, by name, or None
  tally,     \* MongoDB: counter.comments of release and game, what they got for each comment
  said,      \* MongoDB: counter.comments of the users
  work,      \* the comment a request sees to, where it goes and was loaded from, and the counters left
  drifted,   \* history: comments counted as moved that were not, or not counted
  lent,      \* history: users whose counter another one's comment moved
  late       \* history: comments saved when their release was going

commentVars == <<comments, tally, said, work, drifted, lent, late>>
vars == <<modVars, commentVars>>

Comment(u, r, ref) == [from |-> u, on |-> r, ref |-> ref]
NoWork == [on |-> None, ref |-> "none", was |-> "none", todo |-> {}]

CommentInit ==
  /\ comments = [c \in CommentId |-> None]
  /\ tally = [t \in Tallies |-> [c \in CommentId |-> 0]]
  /\ said = [u \in Users |-> 0]
  /\ work = [q \in Requests |-> NoWork]
  /\ drifted = {} /\ lent = {} /\ late = {}

Init == ModInit /\ CommentInit

Made == {c \in CommentId : comments[c] # None}
Public(c) == comments[c].ref = "release"
DeltaTo(ref) == IF ref = "release" THEN 1 ELSE -1

AtWorkOn(c) == \E q \in Requests : Running(q) /\ work[q].on = c
SameEntities == UNCHANGED <<saved, creator, moderation, counted, outrun, rewritten, failed>>

-----------------------------------------------------------------------------
\* POST comments: nobody may on a restricted release, not even its creator; the
\* moderation of the release is not asked.  POST moderate/comments: the creator, the
\* authors and moderators.
StartComment(q, r, u, ref) ==
  /\ r \in saved \cap Releases
  /\ IF ref = "release" THEN r \notin Restricted ELSE IsCreator(u, r) \/ u \in Moderators
  /\ Begin(q, "commenting", ref, r, u)
  /\ SameEntities /\ UNCHANGED commentVars

\* Those of the moderation are not counted.
SaveComment(q) ==
  /\ req[q].at = "commenting"
  /\ LET r == req[q].on  u == req[q].by  ref == req[q].kind IN
     /\ comments' = [comments EXCEPT ![q] = Comment(u, r, ref)]
     /\ late' = IF r \notin saved \/ \E p \in Requests : req[p].at = "removing" /\ req[p].on = r
                THEN late \cup {q} ELSE late
     /\ IF ref = "release"
          THEN /\ work' = [work EXCEPT ![q] = [on |-> q, ref |-> "release", was |-> "none",
                                               todo |-> Tallies \cup {"user"}]]
               /\ Goto(q, "counting")
          ELSE Finish(q) /\ UNCHANGED work
  /\ SameEntities /\ UNCHANGED <<tally, said, drifted, lent>>

\* A refusal, or another decision, with a message leaves a comment for the moderation.
CommentOnModeration(q) ==
  /\ req[q].at = "noting"
  /\ comments' = [comments EXCEPT ![q] = Comment(req[q].by, req[q].on, "release_moderation")]
  /\ late' = IF req[q].on \notin saved
                \/ \E p \in Requests : req[p].at = "removing" /\ req[p].on = req[q].on
             THEN late \cup {q} ELSE late
  /\ Finish(q)
  /\ SameEntities /\ UNCHANGED <<tally, said, work, drifted, lent>>

-----------------------------------------------------------------------------
\* PATCH comments: a moderator moves a comment between the public and the moderation
\* of the same release, as it has loaded it.  Whether it is there already is not asked.
StartMove(q, c, u, ref) ==
  /\ c \in Made /\ u \in Moderators
  /\ comments[c].on \in saved
  /\ Begin(q, "moving", ref, comments[c].on, u)
  /\ work' = [work EXCEPT ![q] = [on |-> c, ref |-> ref, was |-> comments[c].ref,
                                       todo |-> Tallies \cup {"user"}]]
  /\ SameEntities /\ UNCHANGED <<comments, tally, said, drifted, lent, late>>

\* Mutant of SaveMove: the reference is written, and nothing is counted.
SaveMoveOnce(q) ==
  /\ req[q].at = "moving"
  /\ LET c == work[q].on IN
     /\ c \in Made
     /\ comments' = [comments EXCEPT ![c].ref = work[q].ref]
     /\ Finish(q)
     /\ work' = [work EXCEPT ![q] = NoWork]
  /\ SameEntities /\ UNCHANGED <<tally, said, drifted, lent, late>>

\* Mongoose writes what differs from the comment as it was loaded: nothing, if it was there
\* already, wherever another request has moved it since.  The counters are moved either way.
\* Saving a comment that was removed throws, before anything is counted.
SaveMove(q) ==
  /\ req[q].at = "moving"
  /\ LET c == work[q].on
         ref == IF work[q].was = work[q].ref THEN comments[c].ref ELSE work[q].ref
         moved == ref # comments[c].ref
     IN
     IF c \notin Made
       THEN /\ Finish(q) /\ work' = [work EXCEPT ![q] = NoWork]
            /\ UNCHANGED <<comments, drifted, lent>>
       ELSE /\ comments' = [comments EXCEPT ![c].ref = ref]
            /\ drifted' = IF moved THEN drifted ELSE drifted \cup {c}
            /\ lent' = IF moved /\ comments[c].from = req[q].by
                       THEN lent ELSE lent \cup {comments[c].from, req[q].by}
            /\ Goto(q, "counting") /\ UNCHANGED work
  /\ SameEntities /\ UNCHANGED <<tally, said, late>>

\* The increments go out together; each is done or fails on its own.  The user who is
\* counted is the one of the request, also when the comment is another's.
Count(q, t) ==
  /\ req[q].at = "counting" /\ t \in work[q].todo
  /\ LET c == work[q].on  by == DeltaTo(work[q].ref)  left == work[q].todo \ {t} IN
     /\ IF t = "user"
          THEN said' = [said EXCEPT ![req[q].by] = @ + by] /\ UNCHANGED tally
          ELSE tally' = [tally EXCEPT ![t][c] = @ + by] /\ UNCHANGED said
     /\ IF left = {} THEN Finish(q) /\ work' = [work EXCEPT ![q] = NoWork]
                     ELSE work' = [work EXCEPT ![q].todo = left] /\ UNCHANGED req
  /\ SameEntities /\ UNCHANGED <<comments, drifted, lent, late>>

\* Before a release is removed, its comments are.
RemoveComments(q) ==
  /\ req[q].at = "deleting"
  /\ comments' = [c \in CommentId |->
       IF c \in Made /\ comments[c].on = req[q].on THEN None ELSE comments[c]]
  /\ Goto(q, "removing")
  /\ SameEntities /\ UNCHANGED <<tally, said, work, drifted, lent, late>>

CommentDies(q) ==
  /\ Die(q)
  /\ drifted' = drifted \cup ({work[q].on} \ {None})
  /\ lent' = IF "user" \in work[q].todo THEN lent \cup {req[q].by} ELSE lent
  /\ work' = [work EXCEPT ![q] = NoWork]
  /\ UNCHANGED <<comments, tally, said, late>>

-----------------------------------------------------------------------------
ModerationStep(q) ==
  /\ \/ \E e \in Entities, u \in Users : Create(q, e, u) \/ Delete(q, e, u)
     \/ \E e \in Entities, u \in Users, action \in Actions : Moderate(q, e, u, action)
     \/ CreateReload(q) \/ CreateCount(q) \/ ModerateUpdate(q) \/ RemoveEntity(q)
     \/ ModerateCount(q, "answer")
     \/ /\ req[q].on \in Releases /\ req[q].kind \in {"approve", "refuse", "moderate"}
        /\ ModerateCount(q, "noting")
     \/ /\ req[q].at = "answer"
        /\ Finish(q) /\ SameEntities
  /\ UNCHANGED commentVars

CommentStep(q) ==
  \/ \E r \in Releases, u \in Users, ref \in {"release", "release_moderation"} :
       StartComment(q, r, u, ref)
  \/ \E c \in CommentId, u \in Users, ref \in {"release", "release_moderation"} :
       StartMove(q, c, u, ref)
  \/ SaveComment(q) \/ SaveMove(q) \/ CommentOnModeration(q) \/ RemoveComments(q)
  \/ \E t \in Tallies \cup {"user"} : Count(q, t)
  \/ CommentDies(q)

Next == \E q \in Requests : ModerationStep(q) \/ CommentStep(q)

Spec == Init /\ [][Next]_vars

-----------------------------------------------------------------------------
\* When nobody is at work on a comment, its release and its game count it once if it
\* is public and else not (comment.api.ts:75-79, 224-234), but one that a request counted as
\* moved and did not move - it was there already, or the request had loaded it there and
\* wrote nothing while another moved it (221-260) -, and one a request died at.  A user's
\* counter holds no less than the comments of his that are counted - comments that were
\* removed stay counted - unless a moderator moved one of his (the moderator's counter is
\* moved, 227 and 233), or counted one as moved that was not, or a request died before
\* counting him.
CommentsCounted ==
  /\ \A c \in Made \ drifted :
       ~AtWorkOn(c) => \A t \in Tallies : tally[t][c] = IF Public(c) THEN 1 ELSE 0
  /\ (\A q \in Requests : Running(q) => work[q].on = None) =>
       \A u \in Users \ lent :
         said[u] >= Cardinality({c \in Made \ drifted : comments[c].from = u /\ Public(c)})

\* The comments of a release are removed with it, but those saved when it was going.
NoStrayComments ==
  \A c \in Made \ late : comments[c].on \in saved

\* The comments of a release are counted while it is there, and gone with it.
CommentsConsistent == CommentsCounted /\ NoStrayComments

=============================================================================
