----------------------------- MODULE Moderation -----------------------------
(***************************************************************************)
(* Releases and backglasses of one game, from their creation to their      *)
(* removal, and the moderation in between (moderation.plugin.ts,           *)
(* game.reference.plugin.ts, release.api.ts, backglass.api.ts).            *)
(*                                                                         *)
(* The flags of a document are set by an atomic update, but what the       *)
(* update writes, and whether the game's counter of releases moves, is     *)
(* decided by the document the request loaded before.                      *)
(***************************************************************************)
EXTENDS Integers, Sequences, FiniteSetsExt

CONSTANTS
  Releases, Backglasses,
  Users,
  Moderators,      \* users with the permissions "moderate" and "view-restricted"
  AutoApprovers,   \* users with the permission "auto-approve"
  Authors,         \* the authors an entity names, besides its creator
  Restricted,      \* entities their game's manufacturer is denied for
  Requests,        \* bound: the requests that change something
  None

Entities == Releases \cup Backglasses
Actions == {"approve", "refuse", "moderate", "delete", "undelete"}
Filters == {"refused", "pending", "auto_approved", "manually_approved", "deleted"}

ASSUME ModerationAssumption ==
  /\ Releases \cap Backglasses = {}
  /\ Moderators \cup AutoApprovers \subseteq Users
  /\ Authors \in [Entities -> SUBSET Users]
  /\ Restricted \subseteq Entities
  /\ None \notin Users \cup Entities \cup Requests
  /\ IsFiniteSet(Requests)

VARIABLES
  saved,       \* MongoDB: the entities in the collections
  creator,     \* MongoDB: _created_by
  moderation,  \* MongoDB: the moderation data; kept here when the entity is removed
  counted,     \* MongoDB: counter.releases of the game, what it got for each release
  req,         \* the requests
  outrun,      \* history: entities whose flags changed between a request's read and its use
  rewritten,   \* history: entities a deletion gave back flags that were no longer theirs
  failed       \* history: entities a request died at

modVars == <<saved, creator, moderation, counted, req, outrun, rewritten, failed>>

-----------------------------------------------------------------------------
Flags(approved, refused, deleted, auto) ==
  [approved |-> approved, refused |-> refused, deleted |-> deleted, auto |-> auto,
   history |-> IF auto THEN <<"approved">> ELSE <<>>]
NoFlags == Flags(FALSE, FALSE, FALSE, FALSE)

\* "doc" is the moderation data of the document the request has loaded.
Request(at, kind, e, u, doc) == [at |-> at, kind |-> kind, on |-> e, by |-> u, doc |-> doc]
Over(at) == Request(at, "none", None, None, NoFlags)

Running(q) == req[q].at \notin {"idle", "done"}
Busy(e) == \E q \in Requests : Running(q) /\ req[q].on = e
Goto(q, at) == req' = [req EXCEPT ![q].at = at]
Finish(q) == req' = [req EXCEPT ![q] = Over("done")]
Begin(q, at, kind, e, u) ==
  /\ req[q].at = "idle"
  /\ req' = [req EXCEPT ![q] = Request(at, kind, e, u, moderation[e])]

\* Entities from before wait for their moderation.
ModInit ==
  /\ saved \in {{}, Entities}
  /\ \E u \in Users \ AutoApprovers :
       creator = [e \in Entities |-> IF e \in saved THEN u ELSE None]
  /\ moderation = [e \in Entities |-> NoFlags]
  /\ counted = [r \in Releases |-> 0]
  /\ req = [q \in Requests |-> Over("idle")]
  /\ outrun = {} /\ rewritten = {} /\ failed = {}

-----------------------------------------------------------------------------
(* Create *)

\* The first save approves what an auto-approver creates.
AutoApproved(u) == IF u \in AutoApprovers THEN Flags(TRUE, FALSE, FALSE, TRUE) ELSE NoFlags

Create(q, e, u) ==
  /\ creator[e] = None
  /\ saved' = saved \cup {e}
  /\ creator' = [creator EXCEPT ![e] = u]
  /\ moderation' = [moderation EXCEPT ![e] = AutoApproved(u)]
  /\ req[q].at = "idle"
  /\ req' = [req EXCEPT ![q] = IF e \in Releases
                               THEN Request("details", "create", e, u, AutoApproved(u))
                               ELSE Over("done")]
  /\ UNCHANGED <<counted, outrun, rewritten, failed>>

\* A release that is created is read again when its files are processed and
\* activated.  What is read may already be another moderator's work.
CreateReload(q) ==
  /\ req[q].at = "details"
  /\ LET e == req[q].on IN
       IF e \notin saved
         THEN /\ Finish(q)
              /\ failed' = failed \cup {e} /\ UNCHANGED outrun
         ELSE /\ req' = [req EXCEPT ![q] = [@ EXCEPT !.at = "created", !.doc = moderation[e]]]
              /\ outrun' = IF req[q].doc.approved # moderation[e].approved
                           THEN outrun \cup {e} ELSE outrun
              /\ UNCHANGED failed
  /\ UNCHANGED <<saved, creator, moderation, counted, rewritten>>

\* Mutant of CreateCount: every release is counted.
CreateCountAny(q) ==
  /\ req[q].at = "created"
  /\ counted' = [counted EXCEPT ![req[q].on] = @ + 1]
  /\ Finish(q)
  /\ UNCHANGED <<saved, creator, moderation, outrun, rewritten, failed>>

\* After the response is sent: an approved release is counted.
CreateCount(q) ==
  /\ req[q].at = "created"
  /\ counted' = [counted EXCEPT ![req[q].on] = IF req[q].doc.approved THEN @ + 1 ELSE @]
  /\ Finish(q)
  /\ UNCHANGED <<saved, creator, moderation, outrun, rewritten, failed>>

-----------------------------------------------------------------------------
(* Moderate *)

EventOf(action) ==
  CASE action = "approve" -> "approved" [] action = "refuse" -> "refused"
    [] action = "moderate" -> "pending" [] action = "delete" -> "deleted"
    [] action = "undelete" -> "undeleted"

\* What an action writes: the document's own flags where it decides nothing.
Moderated(action, doc) ==
  [approved |-> \/ action = "approve"
                \/ action \in {"delete", "undelete"} /\ doc.approved,
   refused  |-> \/ action = "refuse"
                \/ action \in {"delete", "undelete"} /\ doc.refused,
   deleted  |-> action = "delete"]

Moderate(q, e, u, action) ==
  /\ e \in saved /\ u \in Moderators
  /\ Begin(q, "moderating", action, e, u)
  /\ UNCHANGED <<saved, creator, moderation, counted, outrun, rewritten, failed>>

\* Mutant of ModerateUpdate: the update leaves is_deleted as it is.
ModerateUpdateKept(q) ==
  /\ req[q].at = "moderating"
  /\ LET e == req[q].on  new == Moderated(req[q].kind, req[q].doc) IN
       moderation' = [moderation EXCEPT ![e] =
         [@ EXCEPT !.approved = new.approved, !.refused = new.refused,
                   !.deleted = IF req[q].kind \in {"delete", "undelete"} THEN new.deleted ELSE @,
                   !.history = Append(@, EventOf(req[q].kind))]]
  /\ Goto(q, "moderated")
  /\ UNCHANGED <<saved, creator, counted, outrun, rewritten, failed>>

\* One atomic update, of nothing if the entity is gone.
ModerateUpdate(q) ==
  /\ req[q].at = "moderating"
  /\ LET e == req[q].on
         now == moderation[e]
         new == Moderated(req[q].kind, req[q].doc)
         stale == e \in saved /\ req[q].doc.approved # now.approved
     IN /\ moderation' = IF e \notin saved THEN moderation ELSE
             [moderation EXCEPT ![e] =
               [now EXCEPT !.approved = new.approved, !.refused = new.refused,
                           !.deleted = new.deleted,
                           !.history = Append(now.history, EventOf(req[q].kind))]]
        /\ outrun' = IF stale THEN outrun \cup {e} ELSE outrun
        /\ rewritten' = IF /\ e \in saved /\ req[q].kind \in {"delete", "undelete"}
                           /\ \/ req[q].doc.approved # now.approved
                              \/ req[q].doc.refused # now.refused
                        THEN rewritten \cup {e} ELSE rewritten
  /\ Goto(q, "moderated")
  /\ UNCHANGED <<saved, creator, counted, failed>>

\* The entity is read again, to call its hook: the request throws if it is gone.
\* The hook of a release counts the change from the loaded flags to those written.
ModerateCount(q, next) ==
  /\ req[q].at = "moderated"
  /\ LET e == req[q].on
         was == req[q].doc.approved
         is == Moderated(req[q].kind, req[q].doc).approved
     IN IF e \notin saved
          THEN /\ Finish(q)
               /\ failed' = failed \cup {e} /\ UNCHANGED counted
          ELSE /\ counted' = IF e \notin Releases \/ was = is THEN counted
                             ELSE [counted EXCEPT ![e] = IF is THEN @ + 1 ELSE @ - 1]
               /\ Goto(q, next) /\ UNCHANGED failed
  /\ UNCHANGED <<saved, creator, moderation, outrun, rewritten>>

-----------------------------------------------------------------------------
(* Delete *)

\* A release is removed by its creator only, a backglass also by moderators.
Delete(q, e, u) ==
  /\ e \in saved
  /\ \/ u = creator[e]
     \/ e \in Backglasses /\ u \in Moderators
  /\ Begin(q, "deleting", "remove", e, u)
  /\ UNCHANGED <<saved, creator, moderation, counted, outrun, rewritten, failed>>

\* The game's counter keeps what it got for the release.
RemoveEntity(q) ==
  /\ req[q].at = "removing"
  /\ saved' = saved \ {req[q].on}
  /\ Finish(q)
  /\ UNCHANGED <<creator, moderation, counted, outrun, rewritten, failed>>

\* A request may die at any of its awaits, and what it did stays done.
Die(q) ==
  /\ Running(q)
  /\ failed' = failed \cup ({req[q].on} \ {None})
  /\ Finish(q)
  /\ UNCHANGED <<saved, creator, moderation, counted, outrun, rewritten>>

-----------------------------------------------------------------------------
(* Read *)

IsCreator(reader, e) == reader \in {creator[e]} \cup Authors[e]
Restricts(reader, e) ==
  e \in Restricted /\ reader \notin Moderators /\ ~(reader # None /\ IsCreator(reader, e))
Approved(e) == moderation[e].approved /\ ~moderation[e].deleted

\* Who gets the details (assertRestrictedView, assertModeratedView).
Viewable(reader, e) ==
  /\ ~Restricts(reader, e)
  /\ \/ Approved(e)
     \/ reader # None /\ (IsCreator(reader, e) \/ reader \in Moderators)

\* What a moderation filter of a list keeps (handleModerationQuery).
Keeps(filter, e) ==
  LET m == moderation[e] IN
  IF filter = "deleted" THEN m.deleted ELSE
    /\ ~m.deleted
    /\ CASE filter = "refused"           -> m.refused
         [] filter = "pending"           -> ~m.approved /\ ~m.refused
         [] filter = "auto_approved"     -> m.approved /\ m.auto
         [] filter = "manually_approved" -> m.approved /\ ~m.auto
         [] filter = "all"               -> TRUE

\* Mutant of Listed: the list without a filter forgets the deleted flag.
ListedDeleted(reader, filter, e) ==
  IF filter = "mine" THEN e \in Releases /\ reader # None /\ IsCreator(reader, e) ELSE
    /\ ~Restricts(reader, e)
    /\ IF filter = "none" THEN moderation[e].approved
                          ELSE reader \in Moderators /\ Keeps(filter, e)

\* What a list shows the reader; "mine" is show_mine_only of the releases.
Listed(reader, filter, e) ==
  IF filter = "mine" THEN e \in Releases /\ reader # None /\ IsCreator(reader, e) ELSE
    /\ ~Restricts(reader, e)
    /\ IF filter = "none" THEN Approved(e) ELSE reader \in Moderators /\ Keeps(filter, e)

-----------------------------------------------------------------------------
(* Properties *)

\* When no request is at work on a release, the game has counted it once if it is
\* approved and else not (release.ts:41-48, release.api.ts:131-133) - unless its flags
\* changed between a request's read and the use of it, or a request died at it.  A
\* release that was removed stays as it was counted.
ReleasesCounted ==
  \A r \in Releases \ (outrun \cup failed) :
    ~Busy(r) => counted[r] = IF moderation[r].approved THEN 1 ELSE 0

Decisive == {"approved", "refused", "pending"}
LastDecision(history, x) ==
  \E i \in DOMAIN history :
    history[i] = x /\ \A j \in DOMAIN history : j > i => history[j] \notin Decisive
LastEvent(history) == IF history = <<>> THEN "none" ELSE history[Len(history)]

\* The flags are what the history tells: the last decision, and whether the last event
\* is a deletion (moderation.plugin.ts:454-470).  The exception is a deletion that wrote
\* back flags it had loaded before another moderator decided.
HistoryExplains ==
  \A e \in Entities \ rewritten :
    LET m == moderation[e] IN
    /\ m.approved <=> LastDecision(m.history, "approved")
    /\ m.refused <=> LastDecision(m.history, "refused")
    /\ m.deleted <=> LastEvent(m.history) = "deleted"

\* Who sees an entity in some list can also open it: the restrictions and the
\* moderation of the lists (game.reference.plugin.ts:70-102, moderation.plugin.ts:138-191)
\* against those of the views (145-175 and 285-322).
ListedIsViewable ==
  \A reader \in Users \cup {None}, filter \in Filters \cup {"none", "mine", "all"}, e \in saved :
    Listed(reader, filter, e) => Viewable(reader, e)

=============================================================================
