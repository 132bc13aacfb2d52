------------------------------ MODULE Identity ------------------------------
(***************************************************************************)
(* The accounts: how they are registered, confirmed, linked, changed and   *)
(* merged (user.api.ts, user.util.ts, profile.api.ts,                      *)
(* authentication.api.ts), and the roles Redis keeps for them (acl.ts).    *)
(*                                                                         *)
(* A request loads documents, works on them in memory and saves them some  *)
(* awaits later.  MongoDB keeps e-mail addresses unique; a save that sets  *)
(* a list fails if another one did since the document was loaded.          *)
(***************************************************************************)
EXTENDS Naturals, FiniteSets

CONSTANTS
  Users,        \* the ids accounts may get
  Emails,
  ProviderIds,  \* the ids of people at the OAuth provider
  Requests,     \* bound: the requests at work at one time
  MaxRequests,  \* bound: the requests in a behaviour
  None

Roles == {"member", "admin", "root"}

VARIABLES
  users,     \* MongoDB: the documents of the users, or None
  acl,       \* Redis: the roles of the users
  req,       \* the requests
  started,   \* how many requests have started
  born,      \* the ids that were given out
  vouched,   \* history: addresses a mailed token or a provider vouched for
  asRoot,    \* history: users created as root
  raced,     \* history: users created while another one was
  twins,     \* history: users given an id or an address somebody got since the request
             \* looked, or a third account had besides the one merged
  gained,    \* history: users who got roles from a merge and not from a restart
  crossed,   \* history: users whose roles in Redis were set for a document since changed
  failed     \* history: users a request died at

history == <<vouched, asRoot, raced, twins, gained, crossed, failed>>
vars == <<users, acl, req, started, born, vouched, asRoot, raced, twins, gained, crossed, failed>>

-----------------------------------------------------------------------------
(* Documents *)

Status(code, value, mailed) == [code |-> code, value |-> value, mailed |-> mailed]
Confirmed == Status("confirmed", None, None)
Statuses == {Confirmed} \cup
  [code : {"pending_registration", "pending_update"}, value : Emails, mailed : Emails]
Documents ==
  [email : Emails, status : Statuses, validated : SUBSET Emails, emails : SUBSET Emails,
   provider : ProviderIds \cup {None}, local : BOOLEAN, active : BOOLEAN, roles : SUBSET Roles, v : Nat]

ASSUME IdentityAssumption ==
  None \notin Users \cup Emails \cup ProviderIds \cup Documents /\ MaxRequests \in Nat

\* A local account waits for its confirmation, the others are confirmed at once.
LocalUser(e) ==
  [email |-> e, status |-> Status("pending_registration", e, e), validated |-> {}, emails |-> {},
   provider |-> None, local |-> TRUE, active |-> FALSE, roles |-> {"member"}, v |-> 0]
ProviderUser(e, es, i) ==
  [email |-> e, status |-> Confirmed, validated |-> {e}, emails |-> es,
   provider |-> i, local |-> FALSE, active |-> TRUE, roles |-> {"member"}, v |-> 0]

Exists(u) == users[u] # None
Pending(d) == d.status.code = "pending_registration"
Holders(i) == {u \in Users : i # None /\ Exists(u) /\ users[u].provider = i}
Claimants(i, es) == Holders(i) \cup {u \in Users : Exists(u) /\ users[u].validated \cap es # {}}
Load(S) == [u \in S |-> users[u]]

ListsDiffer(old, new) ==
  old.validated # new.validated \/ old.emails # new.emails \/ old.roles # new.roles
InMemory(old, new) == [new EXCEPT !.v = IF ListsDiffer(old, new) THEN old.v + 1 ELSE old.v]
Taken(e, u) == \E w \in Users \ {u} : Exists(w) /\ users[w].email = e

CanSave(u, old, new) ==
  /\ Exists(u)
  /\ old.email # new.email => ~Taken(new.email, u)
  /\ ListsDiffer(old, new) => users[u].v = old.v

\* What was changed in memory is written, the rest stays as it is.
Saved(u, old, new) ==
  LET now == users[u]
      Written(f) == IF old[f] # new[f] THEN new[f] ELSE now[f]
  IN [users EXCEPT ![u] =
       [email |-> Written("email"), status |-> Written("status"), validated |-> Written("validated"),
        emails |-> Written("emails"), provider |-> Written("provider"), local |-> Written("local"),
        active |-> Written("active"), roles |-> Written("roles"),
        v |-> IF ListsDiffer(old, new) THEN now.v + 1 ELSE now.v]]

-----------------------------------------------------------------------------
(* Requests: "old" is the document of account "id" as loaded, "new" as it is in       *)
(* memory; "rest" are other documents, still to be removed or merged, and "next"      *)
(* those to merge after; "gone" is the one just removed.  "seen" are the users that   *)
(* were counted, "held" those that had the provider's id or the address when the      *)
(* request looked.                                                                    *)

NoDocs == [u \in {} |-> None]
Idle == [at |-> "idle", kind |-> "none", id |-> None, old |-> None, new |-> None,
         rest |-> NoDocs, next |-> NoDocs, gone |-> None, email |-> None, emails |-> {},
         provider |-> None, seen |-> {}, held |-> {}]

Running(q) == req[q].at # "idle"
Touches(q, u) == u \in {req[q].id, req[q].gone} \cup DOMAIN req[q].rest \cup DOMAIN req[q].next
Busy(u) == \E q \in Requests : Running(q) /\ Touches(q, u)
Others(fn, u) == [w \in DOMAIN fn \ {u} |-> fn[w]]

Start(q, r) ==
  /\ ~Running(q) /\ started < MaxRequests
  /\ started' = started + 1
  /\ req' = [req EXCEPT ![q] = r]
Goes(q, to) == req' = [req EXCEPT ![q] = [@ EXCEPT !.at = to]]
Finish(q) == req' = [req EXCEPT ![q] = Idle]

\* An administrator and an account that came by OAuth may be there before.
Root(e) == [LocalUser(e) EXCEPT !.status = Confirmed, !.validated = {e}, !.active = TRUE,
                                !.roles = {"root"}]
Init ==
  /\ \E r \in Users, e \in Emails : \E o \in Users \ {r}, g \in Emails \ {e}, i \in ProviderIds :
       /\ born \in {{}, {r}, {r, o}}
       /\ users = [u \in Users |-> IF u \notin born THEN None
                                   ELSE IF u = r THEN Root(e) ELSE ProviderUser(g, {g}, i)]
       /\ asRoot = {r} \cap born
  /\ vouched = {users[u].email : u \in born}
  /\ acl = [u \in Users |-> IF u \in born THEN users[u].roles ELSE {}]
  /\ req = [q \in Requests |-> Idle] /\ started = 0
  /\ raced = {} /\ twins = {} /\ gained = {} /\ crossed = {} /\ failed = {}

-----------------------------------------------------------------------------
(* Creation (createUser) *)

\* POST users.  That nobody else has the address is asked for those who have it from a
\* provider or confirmed it, and then by the validation for all.
Register(q, e) ==
  /\ \A u \in Users : Exists(u) => e \notin users[u].emails \cup users[u].validated \cup {users[u].email}
  /\ Start(q, [Idle EXCEPT !.at = "count", !.new = LocalUser(e)])
  /\ UNCHANGED <<users, acl, born, history>>

Counted(r, there, first) ==
  [r EXCEPT !.at = "insert", !.seen = there,
            !.new = [r.new EXCEPT !.roles = IF first THEN {"root"} ELSE {"member"}]]

\* Mutant of CountUsers: the second user becomes root, too.
CountUsersTwo(q) ==
  /\ req[q].at = "count"
  /\ LET there == {u \in Users : Exists(u)} IN
       req' = [req EXCEPT ![q] = Counted(@, there, Cardinality(there) < 2)]
  /\ UNCHANGED <<users, acl, started, born, history>>

CountUsers(q) ==
  /\ req[q].at = "count"
  /\ LET there == {u \in Users : Exists(u)} IN
       req' = [req EXCEPT ![q] = Counted(@, there, there = {})]
  /\ UNCHANGED <<users, acl, started, born, history>>

\* The address must be free; the user gets an id no one ever had.
InsertUser(q, u) ==
  /\ req[q].at = "insert" /\ u \notin born
  /\ LET d == req[q].new IN
     /\ ~Taken(d.email, None)
     /\ users' = [users EXCEPT ![u] = d]
     /\ born' = born \cup {u}
     /\ req' = [req EXCEPT ![q] = [@ EXCEPT !.at = "grant", !.id = u]]
     /\ vouched' = vouched \cup d.emails
     /\ asRoot' = IF "root" \in d.roles THEN asRoot \cup {u} ELSE asRoot
     /\ raced' = IF \A w \in Users : Exists(w) => w \in req[q].seen THEN raced ELSE raced \cup {u}
     /\ twins' = IF Claimants(d.provider, d.validated) \subseteq req[q].held THEN twins ELSE twins \cup {u}
  /\ UNCHANGED <<acl, started, gained, crossed, failed>>

InsertFails(q) ==
  /\ req[q].at = "insert" /\ Taken(req[q].new.email, None)
  /\ Finish(q)
  /\ UNCHANGED <<users, acl, started, born, history>>

Grant(q) ==
  /\ req[q].at = "grant"
  /\ LET u == req[q].id  roles == req[q].new.roles IN
     /\ acl' = [acl EXCEPT ![u] = @ \cup roles]
     /\ crossed' = IF Exists(u) /\ users[u].roles = roles THEN crossed ELSE crossed \cup {u}
  /\ Finish(q)
  /\ UNCHANGED <<users, started, born, vouched, asRoot, raced, twins, gained, failed>>

-----------------------------------------------------------------------------
(* Saving a loaded account *)

\* PUT users does not mind others that match.
Twin(q) ==
  LET r == req[q]
      id == IF r.new.provider = r.old.provider THEN None ELSE r.new.provider
      claimants == Claimants(id, r.new.validated \ r.old.validated) \ {r.id}
  IN IF r.kind = "put" THEN claimants # {} ELSE ~(claimants \subseteq r.held)

SaveUser(q) ==
  /\ req[q].at = "save"
  /\ LET r == req[q] IN
     IF ~CanSave(r.id, r.old, r.new)
       THEN Finish(q) /\ UNCHANGED <<users, vouched, twins>>
       ELSE /\ users' = Saved(r.id, r.old, r.new)
            /\ vouched' = vouched \cup r.emails
            /\ twins' = IF Twin(q) THEN twins \cup {r.id} ELSE twins
            /\ IF r.kind = "admin" /\ r.old.roles # r.new.roles
                 THEN Goes(q, "revoke") ELSE Finish(q)
  /\ UNCHANGED <<acl, started, born, asRoot, raced, gained, crossed, failed>>

Change(u, new, kind) ==
  [Idle EXCEPT !.at = "save", !.kind = kind, !.id = u, !.old = users[u], !.new = new]

\* PUT users, by a provider: whoever of those that match is found first is updated, and
\* keeps the id he has at the provider.
ProviderPut(q, i, e) ==
  /\ LET match == Holders(i) \cup
                  {u \in Users : Exists(u) /\ e \in users[u].validated \cup {users[u].email}}
         As(r) == [r EXCEPT !.kind = "put", !.held = Claimants(i, {e}), !.emails = {e}]
     IN IF match = {}
          THEN Start(q, As([Idle EXCEPT !.at = "count", !.new = ProviderUser(e, {e}, i)]))
          ELSE \E u \in match : LET d == users[u] IN
                 Start(q, As(Change(u, [d EXCEPT !.provider = IF @ = None THEN i ELSE @,
                                                 !.emails = @ \cup {d.email, e}], "put")))
  /\ UNCHANGED <<users, acl, born, history>>

\* PATCH profile with another address.  The mail is sent when the account has been set
\* back to the old address, so there the token goes.
Requested(d, e) ==
  IF e \in d.validated THEN [d EXCEPT !.email = e, !.status = Confirmed]
  ELSE [d EXCEPT !.status = Status("pending_update", e, d.email)]

PatchEmail(q, u, e) ==
  /\ Exists(u) /\ users[u].active
  /\ LET d == users[u]  pending == d.status.code = "pending_update" IN
     /\ (e = d.email) = pending
     /\ Start(q, Change(u, IF pending THEN [d EXCEPT !.status = Confirmed] ELSE Requested(d, e),
                        "patch"))
  /\ UNCHANGED <<users, acl, born, history>>

\* POST users/:id/send-confirmation
Resend(q, u) ==
  /\ Exists(u) /\ users[u].status.code # "confirmed"
  /\ users[u].status.mailed # users[u].email
  /\ LET d == users[u] IN
       Start(q, Change(u, [d EXCEPT !.status = Status(d.status.code, d.status.value, d.email)], "resend"))
  /\ UNCHANGED <<users, acl, born, history>>

-----------------------------------------------------------------------------
(* Merging (mergeUsers), and what goes on after it *)

\* The account is gone, and then its roles are taken back, as it had them when loaded.
RemoveUser(u, doc) ==
  /\ users' = [users EXCEPT ![u] = None]
  /\ acl' = [acl EXCEPT ![u] = @ \ doc.roles]
  /\ crossed' = IF Exists(u) /\ users[u].roles # doc.roles THEN crossed \cup {u} ELSE crossed

Merged(keep, other) ==
  [keep EXCEPT !.active = @ /\ other.active, !.emails = @ \cup other.emails,
               !.roles = @ \cup other.roles, !.validated = @ \cup other.validated,
               !.provider = IF @ = None THEN other.provider ELSE @]

\* A profile is linked: what was there of the provider is replaced.
Linked(d, r) == [d EXCEPT !.provider = r.provider, !.emails = @ \cup {d.email} \cup r.emails]

\* The address of a registration is the account's as it is now, that of a change the one
\* asked for.
ConfirmedDoc(d, e) ==
  IF Pending(d) THEN [d EXCEPT !.active = TRUE, !.status = Confirmed, !.validated = @ \cup {d.email}]
  ELSE [d EXCEPT !.email = e, !.status = Confirmed, !.validated = @ \cup {e}]

Ready(r) ==
  [r EXCEPT !.at = "save",
            !.new = IF r.kind = "confirm" THEN ConfirmedDoc(r.new, r.email) ELSE Linked(r.new, r)]

\* Merges the documents of "rest" into the account u, or does what is next if there are none.
MergeInto(r, u, doc, rest) ==
  LET there == [r EXCEPT !.id = u, !.old = doc, !.new = doc, !.rest = rest, !.next = NoDocs]
  IN IF DOMAIN rest = {} THEN Ready(there) ELSE [there EXCEPT !.at = "merge"]

\* Who is merged still has his id, and what the keeper gets from him no third account has.
MergesAlone(r, x, doc) ==
  LET id == IF r.new.provider = None THEN doc.provider ELSE None IN
  /\ Exists(x) /\ users[x].provider = r.rest[x].provider
  /\ Claimants(id, doc.validated \ r.new.validated) \subseteq {r.id, x}

\* One of the rest is merged: an account cannot be merged into itself.  The roles in Redis
\* are not the keeper's new ones.
MergeUser(q, x) ==
  /\ req[q].at = "merge" /\ x \in DOMAIN req[q].rest
  /\ LET r == req[q]  doc == Merged(r.new, r.rest[x]) IN
     IF x = r.id \/ ~CanSave(r.id, r.new, doc)
       THEN Finish(q) /\ UNCHANGED <<users, gained, twins>>
       ELSE /\ users' = Saved(r.id, r.new, doc)
            /\ req' = [req EXCEPT ![q] = [r EXCEPT !.at = "remove", !.gone = x,
                                   !.old = InMemory(r.new, doc), !.new = InMemory(r.new, doc)]]
            /\ gained' = IF doc.roles = r.new.roles THEN gained ELSE gained \cup {r.id}
            /\ twins' = IF MergesAlone(r, x, doc) THEN twins ELSE twins \cup {r.id}
  /\ UNCHANGED <<acl, started, born, vouched, asRoot, raced, crossed, failed>>

RemoveMerged(q) ==
  /\ req[q].at = "remove"
  /\ LET r == req[q] IN
     /\ RemoveUser(r.gone, r.rest[r.gone])
     /\ req' = [req EXCEPT ![q] = MergeInto([r EXCEPT !.gone = None], r.id, r.new, Others(r.rest, r.gone))]
  /\ UNCHANGED <<started, born, vouched, asRoot, raced, twins, gained, failed>>

\* Registrations that were never confirmed are removed on the way.
DropPending(q, x) ==
  /\ req[q].at \in {"pending", "purge"} /\ x \in DOMAIN req[q].rest
  /\ RemoveUser(x, req[q].rest[x])
  /\ req' = [req EXCEPT ![q] = [@ EXCEPT !.rest = Others(req[q].rest, x)]]
  /\ UNCHANGED <<started, born, vouched, asRoot, raced, twins, gained, failed>>

-----------------------------------------------------------------------------
(* OAuth (verifyCallbackOAuth) *)

\* The callback, with the id and the addresses of the profile, and the account u that is
\* logged in, if there is one.
OAuth(q, i, e, es, u) ==
  /\ e \in es
  /\ u # None => Exists(u) /\ users[u].active /\ users[u].provider \in {None, i}
  /\ LET pending == {w \in Users : Exists(w) /\ Pending(users[w]) /\ users[w].email \in es} IN
     Start(q, [Idle EXCEPT !.at = "pending", !.kind = IF u = None THEN "oauth" ELSE "link", !.id = u,
                           !.new = IF u = None THEN None ELSE users[u],
                           !.rest = Load(pending), !.provider = i, !.email = e, !.emails = es])
  /\ UNCHANGED <<users, acl, born, history>>

\* Mutant of Matching: accounts are found by their addresses only.
MatchingEmails(i, es) ==
  {u \in Users : Exists(u) /\ (users[u].emails \cup users[u].validated) \cap es # {}}

Matching(i, es) ==
  Holders(i) \cup {u \in Users : Exists(u) /\ (users[u].emails \cup users[u].validated) \cap es # {}}

FindOthers(q) ==
  /\ req[q].at = "pending" /\ DOMAIN req[q].rest = {}
  /\ LET i == req[q].provider IN
     req' = [req EXCEPT ![q] = [@ EXCEPT !.at = "identify", !.next = Load(Matching(i, req[q].emails)),
                                         !.held = Claimants(i, req[q].emails)]]
  /\ UNCHANGED <<users, acl, started, born, history>>

\* None is created, one is updated, and several need one of them named that the others
\* are merged into.  Into who is logged in, all are merged.
IdentifyUser(q) ==
  /\ req[q].at = "identify"
  /\ LET r == req[q]  found == DOMAIN r.next IN
     CASE r.kind = "link" -> req' = [req EXCEPT ![q] = MergeInto(r, r.id, r.new, r.next)]
       [] r.kind = "oauth" /\ found = {} ->
            req' = [req EXCEPT ![q] = [r EXCEPT !.at = "count",
                                       !.new = ProviderUser(r.email, r.emails, r.provider)]]
       [] OTHER -> \/ \E keep \in found : req' = [req EXCEPT ![q] =
                                MergeInto(r, keep, r.next[keep], Others(r.next, keep))]
                   \/ Cardinality(found) > 1 /\ Finish(q)
  /\ UNCHANGED <<users, acl, started, born, history>>

-----------------------------------------------------------------------------
(* Confirmation (confirm) *)

Confirm(q, u) ==
  /\ Exists(u) /\ users[u].status.code # "confirmed"
  /\ LET d == users[u] IN
     Start(q, [Idle EXCEPT !.at = "find", !.kind = "confirm", !.id = u, !.new = d,
                           !.email = d.status.value, !.emails = {d.status.mailed}])
  /\ UNCHANGED <<users, acl, born, history>>

SameAddress(e, u) ==
  {w \in Users \ {u} : Exists(w) /\ e \in users[w].emails \cup users[w].validated \cup {users[w].email}}

FindSame(q) ==
  /\ req[q].at = "find"
  /\ LET same == SameAddress(req[q].email, req[q].id)
         pending == {w \in same : Pending(users[w])}
     IN req' = [req EXCEPT ![q] = [@ EXCEPT !.at = "purge", !.rest = Load(pending),
                                            !.next = Load(same \ pending),
                                            !.held = Claimants(None, {req[q].email})]]
  /\ UNCHANGED <<users, acl, started, born, history>>

\* An account without credentials is merged into the one that is confirmed.  Else one of
\* them must be named that is kept.
ConfirmMerge(q) ==
  /\ req[q].at = "purge" /\ DOMAIN req[q].rest = {}
  /\ LET r == req[q]
         all == [w \in DOMAIN r.next \cup {r.id} |-> IF w = r.id THEN r.new ELSE r.next[w]]
     IN IF \/ DOMAIN r.next = {}
           \/ \E w \in Users : DOMAIN r.next = {w} /\ ~r.next[w].local
          THEN req' = [req EXCEPT ![q] = MergeInto(r, r.id, r.new, r.next)]
          ELSE \/ \E keep \in DOMAIN all : req' = [req EXCEPT ![q] =
                                   MergeInto(r, keep, all[keep], Others(all, keep))]
               \/ Finish(q)
  /\ UNCHANGED <<users, acl, started, born, history>>

-----------------------------------------------------------------------------
(* Administration, restarts and failures *)

\* PUT users/:id, with one thing changed.  The caller's permission is what Redis says, the
\* check of who may change roles is about his document.
AdminUpdate(q, c, u, new) ==
  /\ Exists(c) /\ users[c].active /\ acl[c] \cap {"admin", "root"} # {}
  /\ Exists(u) /\ new # users[u]
  /\ "root" \in users[c].roles \/ (new.roles = users[u].roles /\
                                  (u = c \/ users[u].roles \cap {"admin", "root"} = {}))
  /\ Start(q, Change(u, new, "admin"))
  /\ UNCHANGED <<users, acl, born, history>>

\* Mutant of RevokeRoles: roles are only ever added.
RevokeRolesNot(q) ==
  /\ req[q].at = "revoke"
  /\ Goes(q, "grant")
  /\ UNCHANGED <<users, acl, started, born, history>>

RevokeRoles(q) ==
  /\ req[q].at = "revoke"
  /\ LET r == req[q] IN
     /\ acl' = [acl EXCEPT ![r.id] = @ \ (r.old.roles \ r.new.roles)]
     /\ crossed' = IF Exists(r.id) /\ users[r.id].roles = r.new.roles THEN crossed
                   ELSE crossed \cup {r.id}
  /\ Goes(q, "grant")
  /\ UNCHANGED <<users, started, born, vouched, asRoot, raced, twins, gained, failed>>

\* The server restarts: what was going on is lost, and Redis gets the roles of all.
Touched(Q) == {u \in Users : \E q \in Q : Running(q) /\ Touches(q, u)}
Restart ==
  /\ \E q \in Requests : Running(q)
  /\ req' = [q \in Requests |-> Idle]
  /\ acl' = [u \in Users |-> IF Exists(u) THEN acl[u] \cup users[u].roles ELSE acl[u]]
  /\ gained' = {u \in gained : ~Exists(u)}
  /\ failed' = failed \cup Touched(Requests)
  /\ UNCHANGED <<users, started, born, vouched, asRoot, raced, twins, crossed>>

Die(q) ==
  /\ Running(q)
  /\ failed' = failed \cup Touched({q})
  /\ Finish(q)
  /\ UNCHANGED <<users, acl, started, born, vouched, asRoot, raced, twins, gained, crossed>>

-----------------------------------------------------------------------------
Begin(q) ==
  \/ \E e \in Emails : Register(q, e) \/ \E u \in Users : PatchEmail(q, u, e)
  \/ \E i \in ProviderIds, e \in Emails : ProviderPut(q, i, e)
  \/ \E i \in ProviderIds, es \in SUBSET Emails : \E e \in es, u \in Users \cup {None} :
       OAuth(q, i, e, es, u)
  \/ \E u \in Users : Confirm(q, u) \/ Resend(q, u)
  \/ \E c \in Users, u \in Users : Exists(u) /\
       \/ \E e \in Emails : AdminUpdate(q, c, u, [users[u] EXCEPT !.email = e])
       \/ \E roles \in {{"member"}, {"member", "admin"}} :
            AdminUpdate(q, c, u, [users[u] EXCEPT !.roles = roles])
       \/ AdminUpdate(q, c, u, [users[u] EXCEPT !.active = ~@])

Continue(q) ==
  \/ CountUsers(q) \/ InsertFails(q) \/ Grant(q) \/ SaveUser(q) \/ RevokeRoles(q)
  \/ RemoveMerged(q) \/ FindOthers(q) \/ IdentifyUser(q) \/ FindSame(q) \/ ConfirmMerge(q)
  \/ \E u \in Users : InsertUser(q, u) \/ MergeUser(q, u) \/ DropPending(q, u)

Next == Restart \/ \E q \in Requests : Begin(q) \/ Continue(q) \/ Die(q)

Spec == Init /\ [][Next]_vars

-----------------------------------------------------------------------------
Settled(u) == ~Busy(u) /\ u \notin failed

\* When nobody is at work on an account, Redis has the roles of its document, and none if
\* it is gone - unless its roles changed between a request's save of it and its update
\* of Redis, or it was merged into with other roles and the server has not restarted.
AclFollowsRoles ==
  \A u \in Users : Settled(u) /\ u \notin crossed \cup gained =>
    acl[u] = IF Exists(u) THEN users[u].roles ELSE {}

\* Of the accounts that are there, one at most was created as root, unless it was counted
\* for before another one that was created was saved (user.util.ts:64-67).
OneRoot ==
  Cardinality({u \in asRoot \ raced : Exists(u)}) <= 1

\* An id at the provider is one account's, however its profiles were linked and accounts
\* merged - unless requests overlapped, or PUT users found one of several that match.
ProviderIdOnce ==
  \A u, w \in Users : Exists(u) /\ Exists(w) /\ u # w /\ Settled(u) /\ Settled(w) =>
    \/ users[u].provider = None \/ users[u].provider # users[w].provider
    \/ {u, w} \cap twins # {}

\* An address that was validated is one account's, unless requests overlapped.
ValidatedOnce ==
  \A u, w \in Users : Exists(u) /\ Exists(w) /\ u # w /\ Settled(u) /\ Settled(w) =>
    \/ users[u].validated \cap users[w].validated = {}
    \/ {u, w} \cap twins # {}

\* Accounts of one person become one: neither an id at the provider nor a validated address
\* is left with two (user.util.ts:188-231, profile.api.ts:198).
IdentifiedOnce == ProviderIdOnce /\ ValidatedOnce

\* "The token was sent by email in order to validate that the user is indeed owner of the
\* provided email address." (doc/api/v1/user/user.raml:91)
ValidatedIsVouched ==
  \A u \in Users : Exists(u) => users[u].validated \subseteq vouched

=============================================================================
