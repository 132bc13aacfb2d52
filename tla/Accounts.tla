----------------------------- MODULE Accounts -----------------------------
(***************************************************************************)
(* The users of the site, and the merging of one into another as far as it *)
(* concerns the users themselves (UserUtil.mergeUsers, users/user.util.ts).*)
(***************************************************************************)
CONSTANTS
  Users,
  Merges,   \* bound: calls of mergeUsers
  None

ASSUME UserAssumption == None \notin Users

VARIABLES
  users,    \* MongoDB: the users that are left
  merge,    \* the merges under way
  ghosts    \* history: users who had something to save while being merged

accountVars == <<users, merge, ghosts>>

MergeActive(m) == merge[m].at \notin {"idle", "done"}
Keepers == {merge[m].keep : m \in Merges} \ {None}
Merging(u) == \E m \in Merges : MergeActive(m) /\ u \in {merge[m].keep, merge[m].gone}

AccountInit ==
  /\ users = Users
  /\ merge = [m \in Merges |-> [at |-> "idle", keep |-> None, gone |-> None]]
  /\ ghosts = {}

\* The request of a user who is being merged is let in like any other, also if it
\* is going to save something of his.
Admit(u, saves) ==
  /\ u \in users
  /\ ghosts' = IF saves /\ \E m \in Merges : MergeActive(m) /\ merge[m].gone = u
               THEN ghosts \cup {u} ELSE ghosts
  /\ UNCHANGED <<users, merge>>

\* The merge is at its first step that matters here, the ratings; the next is the
\* stars.  Two merges do not share a user here.  "busy": gone has something to save.
BeginMerge(m, keep, gone, busy) ==
  /\ merge[m].at = "idle"
  /\ {keep, gone} \subseteq users /\ keep # gone
  /\ ~Merging(keep) /\ ~Merging(gone)
  /\ merge' = [merge EXCEPT ![m] = [at |-> "stars", keep |-> keep, gone |-> gone]]
  /\ ghosts' = IF busy THEN ghosts \cup {gone} ELSE ghosts
  /\ UNCHANGED users

StarsMerged(m) ==
  /\ merge[m].at = "stars"
  /\ merge' = [merge EXCEPT ![m].at = "removing"]
  /\ UNCHANGED <<users, ghosts>>

\* The kept user is saved, the other removed.
RemoveMerged(m) ==
  /\ merge[m].at = "removing"
  /\ users' = users \ {merge[m].gone}
  /\ merge' = [merge EXCEPT ![m].at = "done"]
  /\ UNCHANGED ghosts

\* Nothing takes back the steps that are done.
MergeFails(m) ==
  /\ MergeActive(m)
  /\ merge' = [merge EXCEPT ![m].at = "done"]
  /\ UNCHANGED <<users, ghosts>>

=============================================================================
