------------------------------ MODULE Sessions ------------------------------
(***************************************************************************)
(* Tokens, and what a request may do with them: logging in                 *)
(* (authentication.api.ts), the middleware that turns a token into a user  *)
(* (authentication.middleware.ts), the authorization of a route (Api.auth) *)
(* and the routes that create and change tokens and users.                 *)
(*                                                                         *)
(* A JSON Web Token is known to whoever it was issued to until it expires; *)
(* an application token is a document in MongoDB.                          *)
(***************************************************************************)
EXTENDS Permissions

CONSTANTS
  Users,
  Tokens,    \* the ids of application tokens
  Requests,  \* bound: the requests at work at one time
  Paths,     \* files that can be downloaded
  None

ASSUME SessionsAssumption ==
  /\ None \notin Users \cup Tokens \cup Paths
  /\ None \notin {"jwt", "jwt-refreshed", "personal", "provider"}

VARIABLES
  account,  \* the users: active, plan with application tokens, password set, role
  jwts,     \* the JSON Web Tokens that have not expired
  tokens,   \* MongoDB: the application tokens, or None
  ctx       \* ctx.state of the requests

sessionVars == <<account, jwts, tokens, ctx>>

-----------------------------------------------------------------------------
(* Tokens.  "fresh" is a history field: the holder entered a password or   *)
(* came from the OAuth provider to get it.                                 *)

Jwt(u, irt, path, scp, fresh) == [iss |-> u, irt |-> irt, path |-> path, scp |-> scp, fresh |-> fresh]

\* generateApiToken, generateStorageToken: a storage token is not marked as refreshed.
ApiToken(u, refresh, fresh) == Jwt(u, refresh, None, {"all"}, fresh)
StorageToken(u, path)       == Jwt(u, FALSE, path, {"storage"}, FALSE)

ScopesOf(type) ==
  IF type = "personal" THEN {"all", "login", "community", "create", "storage"}
                       ELSE {"community", "create", "storage", "service"}

\* scope.isValid: one scope in common is enough.
ScopeValid(required, scopes) == required \cap scopes # {}

\* Bound: the lists of scopes a token is given.
ScopeLists == {{"login"}, {"all"}, {"service"}}

Route(method, resource, permission, scopes, plan) ==
  [method |-> method, needs |-> <<resource, permission>>, scopes |-> scopes, plan |-> plan]

Routes ==
  [createToken  |-> Route("POST",   "tokens", "add",        {"all"}, FALSE),
   listTokens   |-> Route("GET",    "tokens", "list",       {"all"}, TRUE),
   updateToken  |-> Route("PATCH",  "tokens", "update-own", {"all"}, FALSE),
   deleteToken  |-> Route("DELETE", "tokens", "delete-own", {"all"}, FALSE),
   download     |-> Route("GET",    "files",  "download",   {"all", "storage"}, FALSE),
   putUser      |-> Route("PUT",    "",       "",           {"service"}, FALSE)]

-----------------------------------------------------------------------------
\* at: "idle", "auth" (Api.auth begins), "handler".  user is the
\* document the middleware loaded, with its id; valid is a history field.
NoRequest == [at |-> "idle", route |-> None, path |-> None, id |-> None, user |-> None, type |-> None,
              scopes |-> {}, error |-> TRUE, fresh |-> FALSE, valid |-> FALSE]

Account(active, plan, password, role) ==
  [active |-> active, plan |-> plan, password |-> password, role |-> role]

SessionsInit ==
  /\ account \in [Users -> {Account(TRUE, TRUE, TRUE, "root"), Account(TRUE, FALSE, FALSE, "member")}]
  /\ jwts = {}
  /\ tokens = [t \in Tokens |-> None]
  /\ ctx = [r \in Requests |-> NoRequest]

\* assertUserIsActive, of the user as loaded a moment before.
UserIsActive(u) == account[u].active

\* authenticateUser
LoggedIn(u, how) ==
  /\ UserIsActive(u)
  /\ jwts' = jwts \cup {ApiToken(u, how = "token", how # "token")}

\* authenticateLocally, or authenticateWithToken: a personal token with the scope login
\* and no other.
Login(u) ==
  /\ \/ account[u].password /\ LoggedIn(u, "password")
     \/ /\ \E t \in Tokens :
             /\ tokens[t] # None /\ tokens[t].owner = u /\ tokens[t].type = "personal"
             /\ tokens[t].scopes = {"login"} /\ ~tokens[t].expired /\ tokens[t].active
        /\ LoggedIn(u, "token")
  /\ UNCHANGED <<account, tokens, ctx>>

\* The callback of a provider; the back-off does not apply.
LoginOAuth(u) == LoggedIn(u, "oauth") /\ UNCHANGED <<account, tokens, ctx>>

-----------------------------------------------------------------------------
(* The middleware *)

\* What the handlers look at of the document the middleware loaded.
Copy(u) == IF u = None THEN None ELSE [plan |-> account[u].plan, password |-> account[u].password]

Receive(r, name, path, c) ==
  /\ ctx[r].at = "idle"
  /\ ctx' = [ctx EXCEPT ![r] = [c EXCEPT !.at = "auth", !.route = name, !.path = path]]
  /\ UNCHANGED <<account, tokens>>

\* A token for a path allows to read this path.
JwtFits(j, name, path) == j.path # None => j.path = path /\ Routes[name].method = "GET"

\* authenticateWithJwt: every token for the API that is used comes back refreshed.
ReceiveJwt(r, name, path, j) ==
  /\ j \in jwts
  /\ LET fits == JwtFits(j, name, path) IN
     /\ Receive(r, name, path,
          IF fits THEN [NoRequest EXCEPT !.id = j.iss, !.user = Copy(j.iss), !.error = FALSE,
                          !.type = IF j.irt THEN "jwt-refreshed" ELSE "jwt", !.scopes = j.scp,
                          !.fresh = j.fresh, !.valid = TRUE]
                  ELSE NoRequest)
     /\ jwts' = IF fits /\ j.path = None THEN jwts \cup {ApiToken(j.iss, TRUE, FALSE)} ELSE jwts

\* Mutant of AppContext: type and scopes are known before the token is checked.
AppContextEarly(t, header) ==
  LET d    == tokens[t]
      ok   == d # None /\ (d.type = "personal" => account[d.owner].plan) /\ ~d.expired /\ d.active
      user == IF ~ok THEN None ELSE IF d.type = "personal" THEN d.owner ELSE header
  IN  [NoRequest EXCEPT !.type = IF d # None THEN d.type ELSE @, !.scopes = IF d # None THEN d.scopes ELSE @,
                        !.valid = ok, !.id = user, !.user = Copy(user),
                        !.error = user = None]

\* authenticateWithAppToken: a token that is unknown, expired, inactive or not in the
\* plan leaves nothing but the error; type and scopes of a good token stay when the
\* headers of a provider name no user.
AppContext(t, header) ==
  LET d    == tokens[t]
      ok   == d # None /\ (d.type = "personal" => account[d.owner].plan) /\ ~d.expired /\ d.active
      user == IF d.type = "personal" THEN d.owner ELSE header
  IN  IF ~ok THEN NoRequest
      ELSE [NoRequest EXCEPT !.type = d.type, !.scopes = d.scopes, !.valid = TRUE, !.id = user,
              !.user = Copy(user), !.error = user = None]

ReceiveAppToken(r, name, path, t, header) ==
  Receive(r, name, path, AppContext(t, header)) /\ UNCHANGED jwts

-----------------------------------------------------------------------------
(* Api.auth *)

Go(r, at) == ctx' = [ctx EXCEPT ![r].at = at]
End(r) == ctx' = [ctx EXCEPT ![r] = NoRequest]
ForService(c) ==
  "service" \in Routes[c.route].scopes /\ Routes[c.route].needs = <<"", "">> /\ c.type = "provider"

\* authorizeUser: the role is the one Redis has now, the plan is that of the loaded user.
Authorized(c) ==
  LET route == Routes[c.route] IN
  /\ ScopeValid(route.scopes, c.scopes)
  /\ route.plan => c.user.plan
  /\ route.needs # <<"", "">> => IsAllowed({account[c.id].role}, route.needs)

\* A route for services ignores the error of the middleware.
Authorize(r) ==
  /\ ctx[r].at = "auth"
  /\ IF ForService(ctx[r]) \/ (~ctx[r].error /\ Authorized(ctx[r])) THEN Go(r, "handler") ELSE End(r)
  /\ UNCHANGED <<account, jwts, tokens>>

-----------------------------------------------------------------------------
(* Handlers; a handler that throws ends the request. *)

Handling(r, name) == ctx[r].at = "handler" /\ ctx[r].route = name
HandlerEnds(r) ==
  /\ ctx[r].at = "handler"
  /\ End(r)
  /\ UNCHANGED <<account, jwts, tokens>>

\* Only a session that is not refreshed gets a login token without the password.
MayCreate(c, type, scopes, password) ==
  /\ "all" \in scopes => c.user.plan
  /\ IF c.type = "jwt" THEN "login" \in scopes \/ password ELSE password
  /\ password => c.user.password
  /\ type = "provider" => IsAllowed({account[c.id].role}, <<"tokens", "provider-token">>)
  /\ ScopeValid(ScopesOf(type), scopes)

CreateToken(r, t, type, scopes, password) ==
  /\ Handling(r, "createToken") /\ tokens[t] = None
  /\ MayCreate(ctx[r], type, scopes, password)
  /\ tokens' = [tokens EXCEPT ![t] =
       [owner |-> ctx[r].id, type |-> type, scopes |-> scopes, active |-> TRUE, expired |-> FALSE,
        fresh |-> password \/ ctx[r].fresh]]
  /\ End(r)
  /\ UNCHANGED <<account, jwts>>

Own(r, t) == tokens[t] # None /\ tokens[t].owner = ctx[r].id

UpdateToken(r, t, active, scopes) ==
  /\ Handling(r, "updateToken") /\ Own(r, t)
  /\ ScopeValid(ScopesOf(tokens[t].type), scopes)
  /\ tokens' = [tokens EXCEPT ![t].active = active, ![t].scopes = scopes]
  /\ End(r)
  /\ UNCHANGED <<account, jwts>>

DeleteToken(r, t) ==
  /\ Handling(r, "deleteToken") /\ Own(r, t)
  /\ tokens' = [tokens EXCEPT ![t] = None]
  /\ End(r)
  /\ UNCHANGED <<account, jwts>>

\* An administrator changes plan, activity or role of a user (see Identity for the steps).
UpdateUser(u, active, plan, role) ==
  /\ account' = [account EXCEPT ![u] = Account(active, plan, @.password, role)]
  /\ UNCHANGED <<jwts, tokens, ctx>>

\* POST authenticate at the storage needs a user and nothing else.
CreateStorageToken(r, path) ==
  /\ ctx[r].at = "auth" /\ ~ctx[r].error
  /\ jwts' = jwts \cup {StorageToken(ctx[r].id, path)}
  /\ End(r)
  /\ UNCHANGED <<account, tokens>>

SetPassword(u) ==
  /\ account' = [account EXCEPT ![u].password = TRUE]
  /\ UNCHANGED <<jwts, tokens, ctx>>
JwtExpires(j) == jwts' = jwts \ {j} /\ UNCHANGED <<account, tokens, ctx>>
TokenExpires(t) ==
  /\ tokens[t] # None /\ ~tokens[t].expired
  /\ tokens' = [tokens EXCEPT ![t].expired = TRUE]
  /\ UNCHANGED <<account, jwts, ctx>>

SessionsStep ==
  \/ \E u \in Users : Login(u) \/ LoginOAuth(u) \/ SetPassword(u)
  \/ \E u \in Users, active, plan \in BOOLEAN, role \in {"root", "moderator", "member"} : UpdateUser(u, active, plan, role)
  \/ \E r \in Requests, name \in DOMAIN Routes : \E path \in IF name = "download" THEN Paths ELSE {None} :
       \/ \E j \in jwts : ReceiveJwt(r, name, path, j)
       \/ \E t \in Tokens, header \in Users \cup {None} : ReceiveAppToken(r, name, path, t, header)
  \/ \E r \in Requests :
       \/ Authorize(r) \/ HandlerEnds(r)
       \/ \E t \in Tokens, type \in {"personal", "provider"}, s \in ScopeLists, password \in BOOLEAN :
            CreateToken(r, t, type, s, password)
       \/ \E t \in Tokens : DeleteToken(r, t) \/ \E active \in BOOLEAN, s \in ScopeLists : UpdateToken(r, t, active, s)
       \/ \E path \in Paths : CreateStorageToken(r, path)
  \/ \E j \in jwts : JwtExpires(j)
  \/ \E t \in Tokens : TokenExpires(t)

SessionsSpec == SessionsInit /\ [][SessionsStep]_sessionVars

-----------------------------------------------------------------------------
\* However sessions are refreshed, exchanged or turned into tokens for files: at the
\* origin of a token that was created without the password is a session that its holder
\* got for a password or by OAuth and that was not refreshed (token.api.ts:55-76).
TokensStemFromCredentials == \A t \in Tokens : tokens[t] # None => tokens[t].fresh

\* No handler runs for a token that was unknown, expired, inactive or not in the plan
\* when the request came, though routes for services ignore the error that the check of
\* the token leaves behind (api.ts:62-64, authentication.middleware.ts:135-211).
HandlersHadValidToken ==
  \A r \in Requests : ctx[r].at = "handler" => ctx[r].valid

\* What authorizes a request goes back to somebody's credentials and was good when the request
\* came.
AuthorizedByCredentials == TokensStemFromCredentials /\ HandlersHadValidToken

=============================================================================
