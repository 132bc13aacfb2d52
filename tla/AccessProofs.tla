---------------------------- MODULE AccessProofs ----------------------------
(***************************************************************************)
(* What lets a request pass and what it gets, for any number of users,     *)
(* tokens, logins, resets and downloads at once: what a token allows goes  *)
(* back to somebody's credentials, a token resets a password once, the     *)
(* back-off holds, a quota period ends and is overspent only by requests   *)
(* that raced, an archive is what was asked for, the counters of what was  *)
(* downloaded agree, and a file of any type gets all its variations.       *)
(***************************************************************************)
EXTENDS Sessions, PasswordReset, LoginBackoff, Quota, Archive, Pipeline, FiniteSetTheorems,
        SequenceTheorems, WellFoundedInduction, TLAPS

-----------------------------------------------------------------------------
Scopes == {"all", "login", "community", "create", "storage", "service"}

Accounts == [active : BOOLEAN, plan : BOOLEAN, password : BOOLEAN, role : Roles]

Jwts ==
  [iss : Users \cup {None}, irt : BOOLEAN, path : Paths \cup {None}, scp : SUBSET Scopes, fresh : BOOLEAN]

AppTokens ==
  [owner : Users \cup {None}, type : {"personal", "provider"}, scopes : SUBSET Scopes, active : BOOLEAN,
   expired : BOOLEAN, fresh : BOOLEAN]

Copies == [plan : BOOLEAN, password : BOOLEAN] \cup {None}

Contexts ==
  [at : {"idle", "auth", "handler"}, route : DOMAIN Routes \cup {None}, path : Paths \cup {None},
   id : Users \cup {None}, user : Copies, type : {"jwt", "jwt-refreshed", "personal", "provider", None},
   scopes : SUBSET Scopes, error : BOOLEAN, fresh : BOOLEAN, valid : BOOLEAN]

\* A JSON Web Token that is not refreshed is either new, or is for the storage.
NewOrStorage(fresh, scopes) == fresh = TRUE \/ scopes = {"storage"}

GoodJwt(j) == j \in Jwts /\ (j.irt = FALSE => NewOrStorage(j.fresh, j.scp))

GoodToken(d) == d \in AppTokens /\ d.fresh = TRUE

GoodContext(c) ==
  /\ c \in Contexts
  /\ c.type = "jwt" => NewOrStorage(c.fresh, c.scopes)
  /\ ~c.error => c.valid = TRUE
  /\ c.type = "provider" => c.valid = TRUE
  /\ c.at = "handler" => c.valid = TRUE
  /\ c.at = "handler" /\ c.route = "createToken" /\ c.type = "jwt" => c.fresh = TRUE

AccountInv == account \in [Users -> Accounts]
JwtsInv == \A j \in jwts : GoodJwt(j)
TokensInv ==
  /\ tokens \in [Tokens -> AppTokens \cup {None}]
  /\ \A t \in Tokens : tokens[t] # None => GoodToken(tokens[t])
CtxInv == ctx \in [Requests -> Contexts] /\ \A r \in Requests : GoodContext(ctx[r])

SessionsInv == AccountInv /\ JwtsInv /\ TokensInv /\ CtxInv

-----------------------------------------------------------------------------
LEMMA NoRequestGood == GoodContext(NoRequest)
BY SessionsAssumption DEF NoRequest, GoodContext, Contexts, Copies, NewOrStorage

LEMMA CopyOf ==
  ASSUME AccountInv, NEW u \in Users \cup {None}
  PROVE  Copy(u) \in Copies
<1>1. CASE u = None
  BY <1>1 DEF Copy, Copies
<1>2. CASE u # None
  <2>1. account[u] \in Accounts
    BY <1>2 DEF AccountInv
  <2>2. [plan |-> account[u].plan, password |-> account[u].password] \in [plan : BOOLEAN, password : BOOLEAN]
    BY <2>1 DEF Accounts
  <2> QED
    BY <1>2, <2>2 DEF Copy, Copies
<1> QED
  BY <1>1, <1>2

\* A request changes only what it has in ctx.
LEMMA OneContext ==
  ASSUME CtxInv, NEW r \in Requests, NEW c, GoodContext(c), ctx' = [ctx EXCEPT ![r] = c]
  PROVE  CtxInv'
BY DEF CtxInv, GoodContext

LEMMA EndKeeps ==
  ASSUME CtxInv, NEW r \in Requests, End(r)
  PROVE  CtxInv'
BY NoRequestGood, OneContext DEF End

LEMMA OneToken ==
  ASSUME TokensInv, NEW t \in Tokens, NEW d, d # None => GoodToken(d), tokens' = [tokens EXCEPT ![t] = d]
  PROVE  TokensInv'
BY DEF TokensInv, GoodToken

LEMMA AccountOf ==
  ASSUME NEW isActive \in BOOLEAN, NEW plan \in BOOLEAN, NEW password \in BOOLEAN, NEW role \in Roles
  PROVE  Account(isActive, plan, password, role) \in Accounts
BY DEF Account, Accounts

LEMMA SessionsInitInv == SessionsInit => SessionsInv
<1> SUFFICES ASSUME SessionsInit PROVE SessionsInv
  OBVIOUS
<1>1. JwtsInv
  BY DEF SessionsInit, JwtsInv
<1>2. TokensInv
  BY DEF SessionsInit, TokensInv
<1>3. CtxInv
  BY NoRequestGood DEF SessionsInit, CtxInv, GoodContext
<1>4. AccountInv
  <2>1. Account(TRUE, TRUE, TRUE, "root") \in Accounts /\ Account(TRUE, FALSE, FALSE, "member") \in Accounts
    BY AccountOf DEF Roles
  <2> QED
    BY <2>1 DEF SessionsInit, AccountInv
<1> QED
  BY <1>1, <1>2, <1>3, <1>4 DEF SessionsInv

-----------------------------------------------------------------------------
LEMMA ApiTokenGood ==
  ASSUME NEW u \in Users \cup {None}, NEW refresh \in BOOLEAN, NEW fresh \in BOOLEAN, refresh \/ fresh
  PROVE  GoodJwt(ApiToken(u, refresh, fresh))
BY DEF ApiToken, Jwt, Jwts, Scopes, GoodJwt, NewOrStorage

LEMMA LoggedInKeeps ==
  ASSUME JwtsInv, NEW u \in Users, NEW how, LoggedIn(u, how)
  PROVE  JwtsInv'
<1>1. jwts' = jwts \cup {ApiToken(u, how = "token", how # "token")}
  BY DEF LoggedIn
<1>2. GoodJwt(ApiToken(u, how = "token", how # "token"))
  BY ApiTokenGood
<1> QED
  BY <1>1, <1>2 DEF JwtsInv

LEMMA LoginInv ==
  ASSUME SessionsInv, NEW u \in Users, Login(u) \/ LoginOAuth(u)
  PROVE  SessionsInv'
<1>1. JwtsInv'
  BY LoggedInKeeps DEF Login, LoginOAuth, SessionsInv
<1>2. UNCHANGED <<account, tokens, ctx>>
  BY DEF Login, LoginOAuth
<1> QED
  BY <1>1, <1>2 DEF SessionsInv, AccountInv, TokensInv, CtxInv

LEMMA ReceiveKeeps ==
  ASSUME CtxInv, NEW r \in Requests, NEW name \in DOMAIN Routes, NEW path \in Paths \cup {None}, NEW c,
         GoodContext(c), Receive(r, name, path, c)
  PROVE  CtxInv'
<1> DEFINE d == [c EXCEPT !.at = "auth", !.route = name, !.path = path]
<1>1. GoodContext(d)
  BY DEF GoodContext, Contexts, NewOrStorage
<1>2. ctx' = [ctx EXCEPT ![r] = d]
  BY DEF Receive
<1> HIDE DEF d
<1> QED
  BY <1>1, <1>2, OneContext

LEMMA ReceiveJwtInv ==
  ASSUME SessionsInv, NEW r \in Requests, NEW name \in DOMAIN Routes, NEW path \in Paths \cup {None},
         NEW j \in jwts, ReceiveJwt(r, name, path, j)
  PROVE  SessionsInv'
<1>1. GoodJwt(j)
  BY DEF SessionsInv, JwtsInv
<1>2. CtxInv'
  <2>1. CASE JwtFits(j, name, path)
    <3> DEFINE type == IF j.irt THEN "jwt-refreshed" ELSE "jwt"
               copy == Copy(j.iss)
               c == [NoRequest EXCEPT !.id = j.iss, !.user = copy, !.error = FALSE,
                       !.type = type, !.scopes = j.scp, !.fresh = j.fresh, !.valid = TRUE]
    <3>1. /\ j.iss \in Users \cup {None} /\ j.scp \in SUBSET Scopes /\ j.fresh \in BOOLEAN
          /\ type \in {"jwt", "jwt-refreshed"}
          /\ type = "jwt" => NewOrStorage(j.fresh, j.scp)
      BY <1>1 DEF GoodJwt, Jwts
    <3>2. copy \in Copies
      BY <3>1, CopyOf DEF SessionsInv
    <3>3. Receive(r, name, path, c)
      BY <2>1 DEF ReceiveJwt
    <3> HIDE DEF type, copy
    <3>4. GoodContext(c)
      BY <3>1, <3>2, NoRequestGood DEF GoodContext, Contexts, NoRequest, NewOrStorage
    <3> HIDE DEF c
    <3> QED
      BY <3>3, <3>4, ReceiveKeeps DEF SessionsInv
  <2>2. CASE ~JwtFits(j, name, path)
    BY <2>2, NoRequestGood, ReceiveKeeps DEF ReceiveJwt, SessionsInv
  <2> QED
    BY <2>1, <2>2
<1>3. JwtsInv'
  <2>1. jwts' = jwts \/ jwts' = jwts \cup {ApiToken(j.iss, TRUE, FALSE)}
    BY DEF ReceiveJwt
  <2>2. GoodJwt(ApiToken(j.iss, TRUE, FALSE))
    BY <1>1, ApiTokenGood DEF GoodJwt, Jwts
  <2> QED
    BY <2>1, <2>2 DEF JwtsInv, SessionsInv
<1> QED
  BY <1>2, <1>3 DEF ReceiveJwt, Receive, SessionsInv, AccountInv, TokensInv

LEMMA ReceiveAppTokenInv ==
  ASSUME SessionsInv, NEW r \in Requests, NEW name \in DOMAIN Routes, NEW path \in Paths \cup {None},
         NEW t \in Tokens, NEW header \in Users \cup {None}, ReceiveAppToken(r, name, path, t, header)
  PROVE  SessionsInv'
<1>1. GoodContext(AppContext(t, header))
  <2> DEFINE d    == tokens[t]
             ok   == d # None /\ (d.type = "personal" => account[d.owner].plan) /\ ~d.expired /\ d.active
             user == IF d.type = "personal" THEN d.owner ELSE header
             copy == Copy(user)
             none == user = None
             c    == [NoRequest EXCEPT !.type = d.type, !.scopes = d.scopes, !.valid = TRUE, !.id = user,
                        !.user = copy, !.error = none]
  <2>1. CASE ok
    <3>1. AppContext(t, header) = c
      BY <2>1 DEF AppContext
    <3>2. /\ d.type \in {"personal", "provider"} /\ d.scopes \in SUBSET Scopes
          /\ user \in Users \cup {None}
      BY <2>1 DEF SessionsInv, TokensInv, GoodToken, AppTokens
    <3>3. copy \in Copies /\ none \in BOOLEAN
      BY <3>2, CopyOf DEF SessionsInv
    <3> HIDE DEF d, ok, user, copy, none
    <3>4. GoodContext(c)
      BY <3>2, <3>3 DEF GoodContext, Contexts, NoRequest
    <3> QED
      BY <3>1, <3>4
  <2>2. CASE ~ok
    BY <2>2, NoRequestGood DEF AppContext
  <2> QED
    BY <2>1, <2>2
<1>2. CtxInv'
  BY <1>1, ReceiveKeeps DEF ReceiveAppToken, SessionsInv
<1> QED
  BY <1>2 DEF ReceiveAppToken, Receive, SessionsInv, AccountInv, TokensInv, JwtsInv

\* A session for the storage does not get to the route that creates tokens.
LEMMA AuthorizeInv ==
  ASSUME SessionsInv, NEW r \in Requests, Authorize(r)
  PROVE  SessionsInv'
<1>1. GoodContext(ctx[r]) /\ ctx[r].at = "auth"
  BY DEF Authorize, SessionsInv, CtxInv
<1>2. CtxInv'
  <2>1. CASE ForService(ctx[r]) \/ (~ctx[r].error /\ Authorized(ctx[r]))
    <3> DEFINE c == [ctx[r] EXCEPT !.at = "handler"]
    <3>1. c.valid = TRUE
      BY <1>1, <2>1 DEF GoodContext, Contexts, ForService
    <3>2. ASSUME ctx[r].route = "createToken", ctx[r].type = "jwt" PROVE ctx[r].fresh = TRUE
      <4>1. ctx[r].type # "provider"
        BY <3>2
      <4>2. Authorized(ctx[r])
        BY <2>1, <4>1 DEF ForService
      <4>3. Routes["createToken"].scopes = {"all"}
        BY DEF Routes, Route
      <4>4. "all" \in ctx[r].scopes
        BY <3>2, <4>2, <4>3 DEF Authorized, ScopeValid
      <4> QED
        BY <1>1, <3>2, <4>4 DEF GoodContext, NewOrStorage
    <3>3. GoodContext(c)
      BY <1>1, <3>1, <3>2 DEF GoodContext, Contexts, NewOrStorage
    <3>4. ctx' = [ctx EXCEPT ![r] = c]
      BY <1>1, <2>1 DEF Authorize, Go, SessionsInv, CtxInv, GoodContext, Contexts
    <3> HIDE DEF c
    <3> QED
      BY <3>3, <3>4, OneContext DEF SessionsInv
  <2>2. CASE ~(ForService(ctx[r]) \/ (~ctx[r].error /\ Authorized(ctx[r])))
    BY <2>2, EndKeeps DEF Authorize, SessionsInv
  <2> QED
    BY <2>1, <2>2
<1> QED
  BY <1>2 DEF Authorize, SessionsInv, AccountInv, JwtsInv, TokensInv

-----------------------------------------------------------------------------
LEMMA CreateTokenInv ==
  ASSUME SessionsInv, NEW r \in Requests, NEW t \in Tokens, NEW type \in {"personal", "provider"},
         NEW scopes \in SUBSET Scopes, NEW password \in BOOLEAN, CreateToken(r, t, type, scopes, password)
  PROVE  SessionsInv'
<1> DEFINE d == [owner |-> ctx[r].id, type |-> type, scopes |-> scopes, active |-> TRUE, expired |-> FALSE,
                 fresh |-> password \/ ctx[r].fresh]
<1>1. password = TRUE \/ ctx[r].fresh = TRUE
  <2>1. GoodContext(ctx[r]) /\ ctx[r].at = "handler" /\ ctx[r].route = "createToken"
    BY DEF CreateToken, Handling, SessionsInv, CtxInv
  <2>2. ctx[r].type = "jwt" \/ password
    BY DEF CreateToken, MayCreate
  <2> QED
    BY <2>1, <2>2 DEF GoodContext
<1>2. (password \/ ctx[r].fresh) = TRUE
  BY <1>1, Zenon
<1>3. GoodToken(d)
  <2>1. ctx[r].id \in Users \cup {None}
    BY DEF SessionsInv, CtxInv, Contexts
  <2> QED
    BY <1>2, <2>1 DEF GoodToken, AppTokens
<1>4. TokensInv'
  BY <1>3, OneToken DEF CreateToken, SessionsInv
<1>5. CtxInv'
  BY EndKeeps DEF CreateToken, SessionsInv
<1> QED
  BY <1>4, <1>5 DEF CreateToken, SessionsInv, AccountInv, JwtsInv

LEMMA UpdateTokenInv ==
  ASSUME SessionsInv, NEW r \in Requests, NEW t \in Tokens, NEW isActive \in BOOLEAN,
         NEW scopes \in SUBSET Scopes, UpdateToken(r, t, isActive, scopes)
  PROVE  SessionsInv'
<1> DEFINE d == [tokens[t] EXCEPT !.active = isActive, !.scopes = scopes]
<1>1. GoodToken(tokens[t])
  BY DEF UpdateToken, Own, SessionsInv, TokensInv
<1>2. GoodToken(d)
  BY <1>1 DEF GoodToken, AppTokens
<1>3. tokens' = [tokens EXCEPT ![t] = d]
  BY <1>1 DEF UpdateToken, SessionsInv, TokensInv, GoodToken, AppTokens
<1> HIDE DEF d
<1>4. TokensInv'
  BY <1>2, <1>3, OneToken DEF SessionsInv
<1>5. CtxInv'
  BY EndKeeps DEF UpdateToken, SessionsInv
<1> QED
  BY <1>4, <1>5 DEF UpdateToken, SessionsInv, AccountInv, JwtsInv

LEMMA TokenExpiresInv ==
  ASSUME SessionsInv, NEW t \in Tokens, TokenExpires(t)
  PROVE  SessionsInv'
<1> DEFINE d == [tokens[t] EXCEPT !.expired = TRUE]
<1>1. GoodToken(tokens[t])
  BY DEF TokenExpires, SessionsInv, TokensInv
<1>2. GoodToken(d)
  BY <1>1 DEF GoodToken, AppTokens
<1>3. tokens' = [tokens EXCEPT ![t] = d]
  BY <1>1 DEF TokenExpires, SessionsInv, TokensInv, GoodToken, AppTokens
<1> HIDE DEF d
<1>4. TokensInv'
  BY <1>2, <1>3, OneToken DEF SessionsInv
<1> QED
  BY <1>4 DEF TokenExpires, SessionsInv, AccountInv, JwtsInv, CtxInv

LEMMA DeleteTokenInv ==
  ASSUME SessionsInv, NEW r \in Requests, NEW t \in Tokens, DeleteToken(r, t)
  PROVE  SessionsInv'
<1>1. TokensInv'
  BY OneToken DEF DeleteToken, SessionsInv
<1>2. CtxInv'
  BY EndKeeps DEF DeleteToken, SessionsInv
<1> QED
  BY <1>1, <1>2 DEF DeleteToken, SessionsInv, AccountInv, JwtsInv

LEMMA CreateStorageTokenInv ==
  ASSUME SessionsInv, NEW r \in Requests, NEW path \in Paths, CreateStorageToken(r, path)
  PROVE  SessionsInv'
<1>1. CtxInv'
  BY EndKeeps DEF CreateStorageToken, SessionsInv
<1>2. GoodJwt(StorageToken(ctx[r].id, path))
  <2>1. ctx[r].id \in Users \cup {None}
    BY DEF SessionsInv, CtxInv, Contexts
  <2> QED
    BY <2>1 DEF StorageToken, Jwt, Jwts, Scopes, GoodJwt, NewOrStorage
<1>3. JwtsInv'
  BY <1>2 DEF CreateStorageToken, SessionsInv, JwtsInv
<1> QED
  BY <1>1, <1>3 DEF CreateStorageToken, SessionsInv, AccountInv, TokensInv

LEMMA SessionsStepInv == SessionsInv /\ [SessionsStep]_sessionVars => SessionsInv'
<1> SUFFICES ASSUME SessionsInv, [SessionsStep]_sessionVars PROVE SessionsInv'
  OBVIOUS
<1>1. ASSUME NEW u \in Users, Login(u) \/ LoginOAuth(u) PROVE SessionsInv'
  BY <1>1, LoginInv
<1>2. ASSUME NEW u \in Users,
             SetPassword(u) \/ \E isActive, plan \in BOOLEAN, role \in {"root", "moderator", "member"} :
                                 UpdateUser(u, isActive, plan, role)
      PROVE  SessionsInv'
  <2>1. UNCHANGED <<jwts, tokens, ctx>>
    BY <1>2 DEF SetPassword, UpdateUser
  <2>2. AccountInv'
    <3>1. account \in [Users -> Accounts]
      BY DEF SessionsInv, AccountInv
    <3>2. CASE SetPassword(u)
      <4>1. [account[u] EXCEPT !.password = TRUE] \in Accounts
        BY <3>1 DEF Accounts
      <4>2. account' = [account EXCEPT ![u] = [account[u] EXCEPT !.password = TRUE]]
        BY <3>2 DEF SetPassword
      <4> QED
        BY <3>1, <4>1, <4>2 DEF AccountInv
    <3>3. ASSUME NEW isActive \in BOOLEAN, NEW plan \in BOOLEAN, NEW role \in {"root", "moderator", "member"},
                 UpdateUser(u, isActive, plan, role)
          PROVE  AccountInv'
      <4>1. account[u].password \in BOOLEAN
        BY <3>1 DEF Accounts
      <4>2. Account(isActive, plan, account[u].password, role) \in Accounts
        BY <4>1, AccountOf DEF Roles
      <4> QED
        BY <3>1, <3>3, <4>2 DEF UpdateUser, AccountInv
    <3> QED
      BY <1>2, <3>2, <3>3
  <2> QED
    BY <2>1, <2>2 DEF SessionsInv, JwtsInv, TokensInv, CtxInv
<1>3. ASSUME NEW r \in Requests, NEW name \in DOMAIN Routes, NEW path \in Paths \cup {None},
             \/ \E j \in jwts : ReceiveJwt(r, name, path, j)
             \/ \E t \in Tokens, header \in Users \cup {None} : ReceiveAppToken(r, name, path, t, header)
      PROVE  SessionsInv'
  BY <1>3, ReceiveJwtInv, ReceiveAppTokenInv
<1>4. ASSUME NEW r \in Requests, Authorize(r) PROVE SessionsInv'
  BY <1>4, AuthorizeInv
<1>5. ASSUME NEW r \in Requests, HandlerEnds(r) PROVE SessionsInv'
  <2>1. CtxInv'
    BY <1>5, EndKeeps DEF HandlerEnds, SessionsInv
  <2> QED
    BY <1>5, <2>1 DEF HandlerEnds, SessionsInv, AccountInv, JwtsInv, TokensInv
<1>12. ScopeLists \subseteq SUBSET Scopes
  BY DEF ScopeLists, Scopes
<1>6. ASSUME NEW r \in Requests, NEW t \in Tokens, NEW type \in {"personal", "provider"}, NEW s \in ScopeLists,
             NEW password \in BOOLEAN, CreateToken(r, t, type, s, password)
      PROVE  SessionsInv'
  BY <1>6, <1>12, CreateTokenInv
<1>7. ASSUME NEW r \in Requests, NEW t \in Tokens,
             DeleteToken(r, t) \/ \E isActive \in BOOLEAN, s \in ScopeLists : UpdateToken(r, t, isActive, s)
      PROVE  SessionsInv'
  BY <1>7, <1>12, DeleteTokenInv, UpdateTokenInv
<1>8. ASSUME NEW r \in Requests, NEW path \in Paths, CreateStorageToken(r, path) PROVE SessionsInv'
  BY <1>8, CreateStorageTokenInv
<1>9. ASSUME NEW j \in jwts, JwtExpires(j) PROVE SessionsInv'
  BY <1>9 DEF JwtExpires, SessionsInv, AccountInv, JwtsInv, TokensInv, CtxInv
<1>10. ASSUME NEW t \in Tokens, TokenExpires(t) PROVE SessionsInv'
  BY <1>10, TokenExpiresInv
<1>11. CASE UNCHANGED sessionVars
  BY <1>11 DEF sessionVars, SessionsInv, AccountInv, JwtsInv, TokensInv, CtxInv
<1> QED
  BY <1>1, <1>2, <1>3, <1>4, <1>5, <1>6, <1>7, <1>8, <1>9, <1>10, <1>11 DEF SessionsStep

LEMMA SessionsInvHolds == SessionsSpec => []SessionsInv
BY SessionsInitInv, SessionsStepInv, PTL DEF SessionsSpec

\* However many users, tokens and requests there are: a token that was created without the password
\* goes back to a session that its holder got for credentials, and no handler runs for a token that
\* was not good when the request came.
THEOREM AuthorityHasAnOrigin == SessionsSpec => []AuthorizedByCredentials
<1>1. SessionsInv => AuthorizedByCredentials
  <2> SUFFICES ASSUME SessionsInv PROVE AuthorizedByCredentials
    OBVIOUS
  <2>1. TokensStemFromCredentials
    BY DEF SessionsInv, TokensInv, GoodToken, TokensStemFromCredentials
  <2>2. HandlersHadValidToken
    BY DEF SessionsInv, CtxInv, GoodContext, HandlersHadValidToken
  <2> QED
    BY <2>1, <2>2 DEF AuthorizedByCredentials
<1> QED
  BY <1>1, SessionsInvHolds, PTL

-----------------------------------------------------------------------------
ResetTypes ==
  /\ reset \in [token : Secrets \cup {NoSecret}, expired : BOOLEAN]
  /\ resetting \in [Resets -> [at : {"idle", "save"}, token : Secrets \cup {NoSecret}]]
  /\ issued \in Seq(Secrets)
  /\ changedBy \in Seq(Secrets)
  /\ mailed \subseteq Secrets /\ mails \subseteq Secrets /\ overlapped \subseteq Secrets

Stored(t) == \E i \in DOMAIN issued : issued[i] = t
Used(t) == \E i \in DOMAIN changedBy : changedBy[i] = t
Saving(h, t) == resetting[h].at = "save" /\ resetting[h].token = t

\* What was mailed, looked up or used was stored before, each token once.
Origins ==
  /\ \A i, j \in DOMAIN issued : issued[i] = issued[j] => i = j
  /\ reset.token # NoSecret => Stored(reset.token)
  /\ \A t \in Secrets : t \in mails \cup mailed \/ Used(t) => Stored(t)
  /\ \A h \in Resets : \A t : Saving(h, t) => t \in Secrets /\ Stored(t)

\* The account holds the newest token, or none, and not one that was used.
HoldsNewest ==
  /\ reset.token # NoSecret => reset.token = issued[Len(issued)]
  /\ \A t \in Secrets : Used(t) => reset.token # t

\* A token without overlap has one reset, which is still to come or is over.
OneUse(t) ==
  t \notin overlapped =>
    /\ \A g, h \in Resets : Saving(g, t) /\ Saving(h, t) => g = h
    /\ \A h \in Resets : Saving(h, t) => ~Used(t)
    /\ \A i, j \in DOMAIN changedBy : changedBy[i] = t /\ changedBy[j] = t => i = j

\* Every token that is newer than one somebody is resetting the password with was stored meanwhile.
NewerOverlap ==
  \A h \in Resets, a, b \in DOMAIN issued :
    a < b /\ Saving(h, issued[a]) => issued[b] \in overlapped

\* The clauses of ResetOnce but the first, which counts.
OlderRefused ==
  \A i, j \in DOMAIN changedBy, a, b \in DOMAIN issued :
    i < j /\ a < b /\ changedBy[i] = issued[b] /\ changedBy[j] = issued[a] => issued[b] \in overlapped

LastStays ==
  issued # << >> =>
    LET last == issued[Len(issued)] IN Used(last) \/ last \in overlapped \/ reset.token = last

ResetInv ==
  ResetTypes /\ Origins /\ HoldsNewest /\ (\A t \in Secrets : OneUse(t)) /\ NewerOverlap /\ OlderRefused /\ LastStays

LEMMA ResetInitInv == ResetInit => ResetInv
<1> SUFFICES ASSUME ResetInit PROVE ResetInv
  OBVIOUS
<1>1. ResetTypes
  BY DEF ResetInit, ResetTypes, NoReset
<1>2. issued = << >> /\ changedBy = << >> /\ reset.token = NoSecret /\ mails = {} /\ mailed = {}
  BY DEF ResetInit, NoReset
<1>3. \A h \in Resets : resetting[h].at = "idle"
  BY DEF ResetInit
<1>4. Origins
  BY <1>2, <1>3 DEF Origins, Used, Saving
<1>5. HoldsNewest /\ NewerOverlap /\ OlderRefused /\ LastStays /\ \A t \in Secrets : OneUse(t)
  BY <1>2, <1>3 DEF HoldsNewest, NewerOverlap, OlderRefused, LastStays, OneUse, Used, Saving
<1> QED
  BY <1>1, <1>4, <1>5 DEF ResetInv

\* What appending to a sequence does to its elements.
LEMMA Appended ==
  ASSUME NEW S, NEW s \in Seq(S), NEW x \in S
  PROVE  /\ Append(s, x) \in Seq(S)
         /\ DOMAIN s = 1..Len(s) /\ Len(s) \in Nat
         /\ DOMAIN Append(s, x) = 1..Len(Append(s, x)) /\ Len(Append(s, x)) = Len(s) + 1
         /\ \A i \in DOMAIN s : i \in DOMAIN Append(s, x) /\ Append(s, x)[i] = s[i]
         /\ Append(s, x)[Len(s) + 1] = x
         /\ \A i \in DOMAIN Append(s, x) : i \in DOMAIN s \/ i = Len(s) + 1
OBVIOUS

LEMMA RequestInv ==
  ASSUME ResetInv, NEW t \in Secrets, RequestReset(t)
  PROVE  ResetInv'
<1>t. ResetTypes
  BY DEF ResetInv
<1>a. /\ issued' = Append(issued, t) /\ ~Stored(t)
      /\ changedBy' = changedBy /\ resetting' = resetting /\ mailed' = mailed
      /\ reset' = [token |-> t, expired |-> FALSE] /\ mails' = mails \cup {t}
  BY DEF RequestReset, Stored
<1>d. /\ issued' \in Seq(Secrets) /\ Len(issued) \in Nat
      /\ DOMAIN issued = 1..Len(issued) /\ DOMAIN issued' = 1..(Len(issued) + 1)
      /\ Len(issued') = Len(issued) + 1
      /\ \A i \in DOMAIN issued : i \in DOMAIN issued' /\ issued'[i] = issued[i]
      /\ issued'[Len(issued) + 1] = t
      /\ \A i \in DOMAIN issued' : i \in DOMAIN issued \/ i = Len(issued) + 1
  BY <1>t, <1>a, Appended DEF ResetTypes
<1>s. (\A u : Stored(u) => Stored(u)') /\ Stored(t)'
  <2>1. \A u : Stored(u) => Stored(u)'
    BY <1>d DEF Stored
  <2>2. Len(issued) + 1 \in DOMAIN issued'
    BY <1>d
  <2> QED
    BY <2>1, <2>2, <1>d DEF Stored
<1>u. \A u : Used(u)' <=> Used(u)
  BY <1>a DEF Used
<1>v. \A h, u : Saving(h, u)' <=> Saving(h, u)
  BY <1>a DEF Saving
<1>n. ~Used(t) /\ \A h \in Resets : ~Saving(h, t)
  BY <1>a DEF ResetInv, Origins, Saving
<1>o. overlapped \subseteq overlapped' /\ ((\E h \in Resets : resetting[h].at = "save") => t \in overlapped')
      /\ overlapped' \subseteq overlapped \cup {t}
  BY DEF RequestReset
<1>1. ResetTypes'
  BY <1>t, <1>a, <1>d, <1>o DEF ResetTypes
<1>2. Origins'
  <2>1. \A i, j \in DOMAIN issued' : issued'[i] = issued'[j] => i = j
    BY <1>a, <1>d DEF ResetInv, Origins, Stored
  <2>2. \A h \in Resets : \A u : Saving(h, u)' => u \in Secrets /\ Stored(u)'
    BY <1>v, <1>s DEF ResetInv, Origins
  <2>3. \A u \in Secrets : u \in mails' \cup mailed' \/ Used(u)' => Stored(u)'
    BY <1>a, <1>s, <1>u DEF ResetInv, Origins
  <2>4. reset'.token = t /\ Stored(t)'
    BY <1>a, <1>s
  <2> QED
    BY <2>1, <2>2, <2>3, <2>4, ResetAssumption DEF Origins
<1>3. HoldsNewest'
  BY <1>a, <1>d, <1>u, <1>n DEF ResetInv, HoldsNewest
<1>4. ASSUME NEW u \in Secrets PROVE OneUse(u)'
  <2>1. OneUse(u)
    BY DEF ResetInv
  <2> QED
    BY <2>1, <1>a, <1>o, <1>u, <1>v DEF OneUse
<1>5. NewerOverlap'
  <2> SUFFICES ASSUME NEW h \in Resets, NEW a \in DOMAIN issued', NEW b \in DOMAIN issued',
                      a < b, Saving(h, issued'[a])
               PROVE  issued'[b] \in overlapped'
    BY <1>v DEF NewerOverlap
  <2>1. a \in DOMAIN issued /\ issued'[a] = issued[a]
    BY <1>d
  <2>2. CASE b \in DOMAIN issued
    BY <2>1, <2>2, <1>d, <1>o DEF ResetInv, NewerOverlap
  <2>3. CASE b = Len(issued) + 1
    BY <2>3, <1>d, <1>o DEF Saving
  <2> QED
    BY <2>2, <2>3, <1>d
<1>6. OlderRefused'
  <2> SUFFICES ASSUME NEW i \in DOMAIN changedBy, NEW j \in DOMAIN changedBy,
                      NEW a \in DOMAIN issued', NEW b \in DOMAIN issued',
                      i < j, a < b, changedBy[i] = issued'[b], changedBy[j] = issued'[a]
               PROVE  issued'[b] \in overlapped'
    BY <1>a DEF OlderRefused
  <2>1. issued'[b] # t
    BY <1>n DEF Used
  <2>2. a \in DOMAIN issued /\ b \in DOMAIN issued
    BY <2>1, <1>d
  <2> QED
    BY <2>2, <1>d, <1>o DEF ResetInv, OlderRefused
<1>7. LastStays'
  BY <1>a, <1>d DEF LastStays
<1> QED
  BY <1>1, <1>2, <1>3, <1>4, <1>5, <1>6, <1>7 DEF ResetInv

LEMMA FindInv ==
  ASSUME ResetInv, NEW h \in Resets, NEW t \in Secrets, FindReset(h, t)
  PROVE  ResetInv'
<1>t. ResetTypes
  BY DEF ResetInv
<1>a. /\ issued' = issued /\ changedBy' = changedBy /\ mailed' = mailed /\ mails' = mails /\ reset' = reset
      /\ reset.token = t /\ t \in mailed /\ resetting[h].at = "idle"
      /\ \A g \in Resets : resetting'[g] = IF g = h THEN [at |-> "save", token |-> t] ELSE resetting[g]
  BY <1>t DEF FindReset, ResetTypes
<1>o. overlapped \subseteq overlapped' /\ overlapped' \subseteq overlapped \cup {t}
      /\ (t \notin overlapped' => \A g \in Resets : ~Saving(g, t))
  BY DEF FindReset, Ongoing, Saving
<1>s. \A u : (Stored(u)' <=> Stored(u)) /\ (Used(u)' <=> Used(u))
  BY <1>a DEF Stored, Used
<1>v. \A g \in Resets : \A u : Saving(g, u)' <=> IF g = h THEN u = t ELSE Saving(g, u)
  BY <1>a DEF Saving
<1>n. Stored(t) /\ ~Used(t) /\ t = issued[Len(issued)]
  BY <1>a, ResetAssumption DEF ResetInv, Origins, HoldsNewest
<1>1. ResetTypes'
  BY <1>t, <1>o DEF ResetTypes, FindReset
<1>2. Origins'
  BY <1>a, <1>s, <1>v, <1>n DEF ResetInv, Origins
<1>3. HoldsNewest'
  BY <1>a, <1>s DEF ResetInv, HoldsNewest
<1>4. ASSUME NEW u \in Secrets PROVE OneUse(u)'
  <2>1. OneUse(u)
    BY DEF ResetInv
  <2> QED
    BY <2>1, <1>a, <1>o, <1>s, <1>v, <1>n DEF OneUse
<1>5. NewerOverlap'
  <2> SUFFICES ASSUME NEW g \in Resets, NEW a \in DOMAIN issued, NEW b \in DOMAIN issued,
                      a < b, Saving(g, issued[a])'
               PROVE  issued[b] \in overlapped'
    BY <1>a DEF NewerOverlap, Saving
  <2>1. CASE g # h
    BY <2>1, <1>o, <1>v, <1>a DEF ResetInv, NewerOverlap
  <2>2. CASE g = h
    <3>1. issued[a] = issued[Len(issued)]
      BY <2>2, <1>v, <1>n, <1>a DEF Saving
    <3>2. Len(issued) \in Nat /\ DOMAIN issued = 1..Len(issued)
      BY <1>t DEF ResetTypes
    <3>3. a = Len(issued)
      BY <3>1, <3>2 DEF ResetInv, Origins
    <3> QED
      BY <3>2, <3>3
  <2> QED
    BY <2>1, <2>2
<1>6. OlderRefused'
  BY <1>a, <1>o DEF ResetInv, OlderRefused
<1>7. LastStays'
  BY <1>a, <1>o, <1>s DEF ResetInv, LastStays
<1> QED
  BY <1>1, <1>2, <1>3, <1>4, <1>5, <1>6, <1>7 DEF ResetInv

LEMMA SaveInv ==
  ASSUME ResetInv, NEW h \in Resets, SaveReset(h)
  PROVE  ResetInv'
<1> DEFINE t == resetting[h].token
<1>t. ResetTypes
  BY DEF ResetInv
<1>a. /\ issued' = issued /\ mailed' = mailed /\ mails' = mails /\ overlapped' = overlapped
      /\ reset' = NoReset /\ reset'.token = NoSecret
      /\ changedBy' = Append(changedBy, t) /\ resetting[h].at = "save"
      /\ \A g \in Resets : resetting'[g] = IF g = h THEN [at |-> "idle", token |-> NoSecret] ELSE resetting[g]
  BY <1>t DEF SaveReset, SaveWith, ResetTypes, NoReset
<1>n. t \in Secrets /\ Stored(t) /\ Saving(h, t)
  BY <1>a DEF ResetInv, Origins, Saving
<1> HIDE DEF t
<1>d. /\ changedBy' \in Seq(Secrets) /\ Len(changedBy) \in Nat
      /\ DOMAIN changedBy = 1..Len(changedBy) /\ DOMAIN changedBy' = 1..(Len(changedBy) + 1)
      /\ \A i \in DOMAIN changedBy : i \in DOMAIN changedBy' /\ changedBy'[i] = changedBy[i]
      /\ changedBy'[Len(changedBy) + 1] = t
      /\ \A i \in DOMAIN changedBy' : i \in DOMAIN changedBy \/ i = Len(changedBy) + 1
  BY <1>t, <1>a, <1>n, Appended DEF ResetTypes
<1>s. \A u : Stored(u)' <=> Stored(u)
  BY <1>a DEF Stored
<1>u. \A u : Used(u)' <=> Used(u) \/ u = t
  <2>1. Len(changedBy) + 1 \in DOMAIN changedBy'
    BY <1>d
  <2> QED
    BY <2>1, <1>d DEF Used
<1>v. \A g \in Resets : \A u : Saving(g, u)' <=> g # h /\ Saving(g, u)
  BY <1>a DEF Saving
<1>1. ResetTypes'
  <2>1. resetting' \in [Resets -> [at : {"idle", "save"}, token : Secrets \cup {NoSecret}]]
    BY <1>t DEF ResetTypes, SaveReset, SaveWith
  <2> QED
    BY <2>1, <1>t, <1>a, <1>d DEF ResetTypes, NoReset
<1>2. Origins'
  BY <1>a, <1>s, <1>u, <1>v, <1>n, ResetAssumption DEF ResetInv, Origins
<1>3. HoldsNewest'
  BY <1>a, ResetAssumption DEF HoldsNewest
<1>4. ASSUME NEW u \in Secrets PROVE OneUse(u)'
  <2> SUFFICES ASSUME u \notin overlapped
               PROVE  /\ \A g, k \in Resets : Saving(g, u)' /\ Saving(k, u)' => g = k
                      /\ \A g \in Resets : Saving(g, u)' => ~Used(u)'
                      /\ \A i, j \in DOMAIN changedBy' : changedBy'[i] = u /\ changedBy'[j] = u => i = j
    BY <1>a DEF OneUse
  <2>1. OneUse(u)
    BY DEF ResetInv
  <2>2. \A g, k \in Resets : Saving(g, u)' /\ Saving(k, u)' => g = k
    BY <2>1, <1>v DEF OneUse
  <2>3. \A g \in Resets : Saving(g, u)' => ~Used(u)'
    BY <2>1, <1>v, <1>u, <1>n DEF OneUse
  <2>4. ASSUME NEW i \in DOMAIN changedBy', NEW j \in DOMAIN changedBy', changedBy'[i] = u, changedBy'[j] = u
        PROVE  i = j
    <3>1. CASE u = t
      <4>1. ~Used(u)
        BY <3>1, <2>1, <1>n DEF OneUse
      <4> QED
        BY <4>1, <2>4, <1>d DEF Used
    <3>2. CASE u # t
      BY <3>2, <2>4, <2>1, <1>d DEF OneUse
    <3> QED
      BY <3>1, <3>2
  <2> QED
    BY <2>2, <2>3, <2>4
<1>5. NewerOverlap'
  BY <1>a, <1>v DEF ResetInv, NewerOverlap
<1>6. OlderRefused'
  <2> SUFFICES ASSUME NEW i \in DOMAIN changedBy', NEW j \in DOMAIN changedBy',
                      NEW a \in DOMAIN issued, NEW b \in DOMAIN issued,
                      i < j, a < b, changedBy'[i] = issued[b], changedBy'[j] = issued[a]
               PROVE  issued[b] \in overlapped
    BY <1>a DEF OlderRefused
  <2>1. CASE j \in DOMAIN changedBy
    <3>1. i \in DOMAIN changedBy
      BY <2>1, <1>d
    <3> QED
      BY <3>1, <2>1, <1>d DEF ResetInv, OlderRefused
  <2>2. CASE j = Len(changedBy) + 1
    BY <2>2, <1>d, <1>n DEF ResetInv, NewerOverlap
  <2> QED
    BY <2>1, <2>2, <1>d
<1>7. LastStays'
  <2> SUFFICES ASSUME issued # << >>
               PROVE  LET last == issued[Len(issued)]
                      IN Used(last)' \/ last \in overlapped \/ reset'.token = last
    BY <1>a DEF LastStays
  <2>1. Len(issued) \in DOMAIN issued
    BY <1>t DEF ResetTypes
  <2>2. PICK a \in DOMAIN issued : issued[a] = t
    BY <1>n DEF Stored
  <2>3. CASE a = Len(issued)
    BY <2>2, <2>3, <1>u, <1>a
  <2>4. CASE a # Len(issued)
    <3>1. a < Len(issued)
      BY <2>1, <2>4, <1>t DEF ResetTypes
    <3> QED
      BY <3>1, <2>1, <2>2, <1>n DEF ResetInv, NewerOverlap
  <2> QED
    BY <2>3, <2>4
<1> QED
  BY <1>1, <1>2, <1>3, <1>4, <1>5, <1>6, <1>7 DEF ResetInv

LEMMA ResetStepInv == ResetInv /\ [ResetStep]_resetVars => ResetInv'
<1> SUFFICES ASSUME ResetInv, [ResetStep]_resetVars PROVE ResetInv'
  OBVIOUS
<1>1. ASSUME NEW t \in Secrets, RequestReset(t) PROVE ResetInv'
  BY <1>1, RequestInv
<1>2. ASSUME NEW t \in Secrets, MailToken(t) PROVE ResetInv'
  <2>1. ResetTypes'
    BY <1>2 DEF ResetInv, ResetTypes, MailToken
  <2>2. Origins'
    BY <1>2 DEF ResetInv, Origins, MailToken, Stored, Used, Saving
  <2> QED
    BY <1>2, <2>1, <2>2 DEF ResetInv, MailToken, HoldsNewest, OneUse, NewerOverlap, OlderRefused, LastStays,
                            Used, Saving
<1>3. ASSUME NEW h \in Resets, NEW t \in Secrets, FindReset(h, t) PROVE ResetInv'
  BY <1>3, FindInv
<1>4. ASSUME NEW h \in Resets, SaveReset(h) PROVE ResetInv'
  BY <1>4, SaveInv
<1>5. CASE ExpireToken
  <2>1. reset'.token = reset.token
    BY <1>5 DEF ResetInv, ResetTypes, ExpireToken
  <2>2. ResetTypes'
    BY <1>5 DEF ResetInv, ResetTypes, ExpireToken
  <2>3. Origins'
    BY <1>5, <2>1 DEF ResetInv, Origins, ExpireToken, Stored, Used, Saving
  <2> QED
    BY <1>5, <2>1, <2>2, <2>3 DEF ResetInv, ExpireToken, HoldsNewest, OneUse, NewerOverlap, OlderRefused,
                                  LastStays, Used, Saving
<1>6. CASE UNCHANGED resetVars
  BY <1>6 DEF ResetInv, resetVars, ResetTypes, Origins, HoldsNewest, OneUse, NewerOverlap, OlderRefused,
              LastStays, Stored, Used, Saving
<1> QED
  BY <1>1, <1>2, <1>3, <1>4, <1>5, <1>6 DEF ResetStep

\* How often a token was used, by the places it has in the list.
LEMMA UsesOf ==
  ASSUME ResetTypes, NEW t
  PROVE  /\ (\A i, j \in DOMAIN changedBy : changedBy[i] = t /\ changedBy[j] = t => i = j) => Uses(t) <= 1
         /\ Used(t) => Uses(t) > 0
<1> DEFINE P == {i \in DOMAIN changedBy : changedBy[i] = t}
<1>1. IsFiniteSet(P)
  <2>1. IsFiniteSet(1..Len(changedBy)) /\ P \subseteq 1..Len(changedBy)
    BY FS_Interval DEF ResetTypes
  <2> QED
    BY <2>1, FS_Subset
<1>2. Cardinality(P) \in Nat /\ (Cardinality(P) = 0 <=> P = {})
  BY <1>1, FS_CardinalityType, FS_EmptySet
<1>3. ASSUME \A i, j \in DOMAIN changedBy : changedBy[i] = t /\ changedBy[j] = t => i = j
      PROVE  Cardinality(P) <= 1
  <2>1. CASE P = {}
    BY <2>1, <1>2
  <2>2. CASE P # {}
    <3>1. PICK i \in P : P = {i}
      BY <2>2, <1>3
    <3> QED
      BY <3>1, FS_Singleton
  <2> QED
    BY <2>1, <2>2
<1>4. Used(t) => P # {}
  BY DEF Used
<1> QED
  BY <1>2, <1>3, <1>4 DEF Uses

\* However many requests and resets overlap: a token sets the password once, unless two resets with it
\* overlap, and never after a newer one was used; and the newest token stays good until it is used or
\* has expired, unless it was stored while somebody was resetting the password with an older one.
THEOREM TokensResetOnce == ResetSpec => []ResetOnce
<1>1. ResetInv => ResetOnce
  <2> SUFFICES ASSUME ResetInv PROVE ResetOnce
    OBVIOUS
  <2>1. ASSUME NEW t \in Secrets PROVE Uses(t) <= 1 \/ t \in overlapped
    BY UsesOf DEF ResetInv, OneUse
  <2>2. issued # << >> =>
          LET last == issued[Len(issued)]
          IN Uses(last) > 0 \/ last \in overlapped \/ reset.token = last
    BY UsesOf DEF ResetInv, LastStays
  <2> QED
    BY <2>1, <2>2 DEF ResetInv, OlderRefused, ResetOnce
<1> QED
  BY <1>1, ResetInitInv, ResetStepInv, PTL DEF ResetSpec

-----------------------------------------------------------------------------
LoginStates == [at : {"idle", "checked", "passed", "lock", "expire", "keep"}, wait : Nat, first : BOOLEAN]

BackoffTypes ==
  /\ keep \in BOOLEAN
  /\ num \in Nat
  /\ numExpires \in BOOLEAN
  /\ lock \in {"none", "set", "expiring"}
  /\ login \in [Logins -> LoginStates]
  /\ elapsed \in BOOLEAN
  /\ crashed \in BOOLEAN

LockExpires == lock = "set" => \E l \in Logins : login[l].at = "expire"

CounterExpires ==
  keep /\ num > 0 /\ ~numExpires =>
    \E l \in Logins : login[l].first /\ login[l].at \in {"lock", "expire", "keep"}

\* Until a wait is over, there is a lock, or a login is about to set it.
WaitBlocks == ~elapsed => lock # "none" \/ \E l \in Logins : login[l].at = "lock"

BackoffInv ==
  /\ BackoffTypes
  /\ ~crashed => LockExpires /\ CounterExpires /\ WaitBlocks

-----------------------------------------------------------------------------
\* The wait a failure calls for is the one of its number, or the last.
LEMMA WaitIsNat ==
  ASSUME NEW n \in Nat
  PROVE  Delay[IF n + 1 < Len(Delay) THEN n + 1 ELSE Len(Delay)] \in Nat
BY BackoffAssumption

LEMMA NoLoginState == NoLogin \in LoginStates /\ NoLogin.at = "idle"
BY DEF NoLogin, LoginStates

LEMMA BackoffInitInv == BackoffInit => BackoffInv
<1> SUFFICES ASSUME BackoffInit PROVE BackoffInv
  OBVIOUS
<1>1. BackoffTypes
  BY NoLoginState DEF BackoffInit, BackoffTypes
<1>2. LockExpires /\ CounterExpires /\ WaitBlocks
  BY DEF BackoffInit, LockExpires, CounterExpires, WaitBlocks
<1> QED
  BY <1>1, <1>2 DEF BackoffInv

LEMMA CountInv ==
  ASSUME BackoffInv, NEW l \in Logins, Count(l)
  PROVE  BackoffInv'
<1> DEFINE w == Delay[IF num + 1 < Len(Delay) THEN num + 1 ELSE Len(Delay)]
<1>1. /\ w \in Nat
      /\ login[l].at = "checked"
      /\ num' = num + 1
      /\ login' = [login EXCEPT ![l] =
           [at |-> IF w > 0 THEN "lock" ELSE "keep", wait |-> w, first |-> num + 1 = 1]]
      /\ elapsed' = (elapsed /\ w = 0)
      /\ UNCHANGED <<keep, numExpires, lock, crashed>>
  BY WaitIsNat DEF Count, BackoffInv, BackoffTypes
<1> HIDE DEF w
<1>2. BackoffTypes'
  BY <1>1 DEF BackoffInv, BackoffTypes, LoginStates
<1>3. \A k \in Logins : k # l => login'[k] = login[k]
  BY <1>1 DEF BackoffInv, BackoffTypes
<1>4. /\ login'[l].at = IF w > 0 THEN "lock" ELSE "keep"
      /\ login'[l].first = (num + 1 = 1)
  BY <1>1 DEF BackoffInv, BackoffTypes, LoginStates
<1>5. ASSUME ~crashed, LockExpires PROVE LockExpires'
  BY <1>1, <1>3, <1>5 DEF LockExpires
<1>6. ASSUME ~crashed, CounterExpires PROVE CounterExpires'
  <2>1. CASE num = 0
    <3>1. (num + 1 = 1) = TRUE
      BY <2>1
    <3>2. login'[l].first
      BY <1>4, <3>1, Zenon
    <3>3. login'[l].at \in {"lock", "expire", "keep"}
      BY <1>4
    <3> QED
      BY <3>2, <3>3 DEF CounterExpires
  <2>2. CASE num > 0
    BY <1>1, <1>3, <1>6, <2>2 DEF CounterExpires
  <2> QED
    BY <2>1, <2>2 DEF BackoffInv, BackoffTypes
<1>7. ASSUME ~crashed, WaitBlocks PROVE WaitBlocks'
  <2>1. CASE w > 0
    BY <1>4, <2>1 DEF WaitBlocks
  <2>2. CASE w = 0
    BY <1>1, <1>3, <1>7, <2>2 DEF WaitBlocks
  <2> QED
    BY <1>1, <2>1, <2>2
<1> QED
  BY <1>1, <1>2, <1>5, <1>6, <1>7 DEF BackoffInv

\* A step of one login that leaves the keys alone and is not between a failure and its lock.
LEMMA AttemptInv ==
  ASSUME BackoffInv, NEW l \in Logins, AssertUnlocked(l) \/ Passed(l) \/ OnSuccess(l)
  PROVE  BackoffInv'
<1>1. BackoffTypes'
  <2>1. CASE AssertUnlocked(l)
    BY <2>1 DEF AssertUnlocked, BackoffInv, BackoffTypes, LoginStates
  <2>2. CASE Passed(l)
    BY <2>2 DEF Passed, BackoffInv, BackoffTypes, LoginStates
  <2>3. CASE OnSuccess(l)
    BY <2>3, NoLoginState DEF OnSuccess, BackoffInv, BackoffTypes
  <2> QED
    BY <2>1, <2>2, <2>3
<1>2. /\ login[l].at \in {"idle", "checked", "passed"}
      /\ \A k \in Logins : k # l => login'[k] = login[k]
      /\ UNCHANGED <<keep, lock, elapsed, crashed>>
  BY DEF AssertUnlocked, Passed, OnSuccess, BackoffInv, BackoffTypes
<1>3. keep => UNCHANGED <<num, numExpires>>
  BY DEF AssertUnlocked, Passed, OnSuccess, BackoffInv, BackoffTypes
<1> QED
  BY <1>1, <1>2, <1>3 DEF BackoffInv, LockExpires, CounterExpires, WaitBlocks

LEMMA SetLockInv ==
  ASSUME BackoffInv, NEW l \in Logins, SetLock(l)
  PROVE  BackoffInv'
<1>1. BackoffTypes'
  BY DEF SetLock, BackoffInv, BackoffTypes, LoginStates
<1>2. /\ lock' = "set" /\ login[l].at = "lock"
      /\ login'[l].at = "expire" /\ login'[l].first = login[l].first
      /\ \A k \in Logins : k # l => login'[k] = login[k]
      /\ UNCHANGED <<keep, num, numExpires, crashed>>
  BY DEF SetLock, BackoffInv, BackoffTypes, LoginStates
<1> QED
  BY <1>1, <1>2 DEF BackoffInv, LockExpires, CounterExpires, WaitBlocks

LEMMA ExpireLockInv ==
  ASSUME BackoffInv, NEW l \in Logins, ExpireLock(l)
  PROVE  BackoffInv'
<1>1. BackoffTypes'
  BY DEF ExpireLock, BackoffInv, BackoffTypes, LoginStates
<1>2. /\ lock' = (IF lock = "none" THEN "none" ELSE "expiring") /\ login[l].at = "expire"
      /\ login'[l].at = "keep" /\ login'[l].first = login[l].first
      /\ \A k \in Logins : k # l => login'[k] = login[k]
      /\ UNCHANGED <<keep, num, numExpires, elapsed, crashed>>
  BY DEF ExpireLock, BackoffInv, BackoffTypes, LoginStates
<1> QED
  BY <1>1, <1>2 DEF BackoffInv, LockExpires, CounterExpires, WaitBlocks

LEMMA KeepCounterInv ==
  ASSUME BackoffInv, NEW l \in Logins, KeepCounter(l)
  PROVE  BackoffInv'
<1>1. BackoffTypes'
  BY NoLoginState DEF KeepCounter, BackoffInv, BackoffTypes
<1>2. /\ numExpires' = (numExpires \/ (keep /\ login[l].first /\ num > 0))
      /\ login[l].at = "keep"
      /\ \A k \in Logins : k # l => login'[k] = login[k]
      /\ UNCHANGED <<keep, num, lock, elapsed, crashed>>
  BY DEF KeepCounter, BackoffInv, BackoffTypes
<1> QED
  BY <1>1, <1>2 DEF BackoffInv, LockExpires, CounterExpires, WaitBlocks

LEMMA BackoffStepInv == BackoffInv /\ [BackoffStep]_backoffVars => BackoffInv'
<1> SUFFICES ASSUME BackoffInv, [BackoffStep]_backoffVars PROVE BackoffInv'
  OBVIOUS
<1>1. ASSUME NEW l \in Logins, AssertUnlocked(l) \/ Passed(l) \/ OnSuccess(l) PROVE BackoffInv'
  BY <1>1, AttemptInv
<1>2. ASSUME NEW l \in Logins, Count(l) PROVE BackoffInv'
  BY <1>2, CountInv
<1>3. ASSUME NEW l \in Logins, SetLock(l) PROVE BackoffInv'
  BY <1>3, SetLockInv
<1>4. ASSUME NEW l \in Logins, ExpireLock(l) PROVE BackoffInv'
  BY <1>4, ExpireLockInv
<1>5. ASSUME NEW l \in Logins, KeepCounter(l) PROVE BackoffInv'
  BY <1>5, KeepCounterInv
<1>6. CASE LockElapses
  BY <1>6 DEF LockElapses, BackoffInv, BackoffTypes, LockExpires, CounterExpires, WaitBlocks
<1>7. CASE CounterElapses
  <2>1. BackoffTypes' /\ crashed' = crashed /\ num' = 0
    BY <1>7 DEF CounterElapses, BackoffInv, BackoffTypes
  <2>2. CounterExpires'
    BY <2>1 DEF CounterExpires
  <2>3. ~crashed => LockExpires' /\ WaitBlocks'
    BY <1>7 DEF CounterElapses, BackoffInv, LockExpires, WaitBlocks
  <2> QED
    BY <2>1, <2>2, <2>3 DEF BackoffInv
<1>8. CASE Die
  BY <1>8, NoLoginState DEF Die, BackoffInv, BackoffTypes
<1>9. CASE UNCHANGED backoffVars
  BY <1>9 DEF backoffVars, BackoffInv, BackoffTypes, LockExpires, CounterExpires, WaitBlocks
<1> QED
  BY <1>1, <1>2, <1>3, <1>4, <1>5, <1>6, <1>7, <1>8, <1>9 DEF BackoffStep

LEMMA BackoffInvHolds == BackoffSpec => []BackoffInv
BY BackoffInitInv, BackoffStepInv, PTL DEF BackoffSpec

\* However many logins fail and pass at the same time and for any delays: a lock and a counter that is
\* kept get their expiry, and a failure that calls for a wait blocks the address until the wait is
\* over, unless the process has died.
THEOREM WaitsNeitherLostNorLasting == BackoffSpec => []BackoffHolds
<1>1. BackoffInv => BackoffHolds
  <2> SUFFICES ASSUME BackoffInv PROVE BackoffHolds
    OBVIOUS
  <2>1. ExpiriesSet
    BY DEF BackoffInv, LockExpires, CounterExpires, ExpiriesSet
  <2>2. FailuresBlock
    BY DEF BackoffInv, BackoffTypes, LockExpires, WaitBlocks, FailuresBlock
  <2> QED
    BY <2>1, <2>2 DEF BackoffHolds
<1> QED
  BY <1>1, BackoffInvHolds, PTL

-----------------------------------------------------------------------------
\* The part of the type invariant that PeriodEnds depends on.
QuotaTimes ==
  /\ now \in Nat
  /\ ttl \in Nat \cup {Never}
  /\ DOMAIN req = Downloads

QuotaInv == QuotaTimes /\ PeriodEnds

LEMMA QuotaInitInv == Init => QuotaInv
BY QuotaAssumption DEF Init, QuotaInv, QuotaTimes, PeriodEnds

\* Steps that leave the sorted set and its expiry alone, and move no request
\* away from setting it.
LEMMA QuotaBystander ==
  ASSUME QuotaInv, UNCHANGED <<now, debits, ttl>>, DOMAIN req' = Downloads,
         timeless => timeless',
         \A r \in Downloads : req[r].at = "expiring" => req'[r].at = "expiring" \/ timeless'
  PROVE  QuotaInv'
BY DEF QuotaInv, QuotaTimes, PeriodEnds

LEMMA AddInv ==
  ASSUME QuotaInv, NEW r \in Downloads, Add(r)
  PROVE  QuotaInv'
<1> DEFINE debit == [t |-> req[r].stamp, w |-> req[r].cost]
<1> DEFINE first == debits \cup {debit} = {debit}
<1>1. /\ UNCHANGED <<now, ttl, timeless>>
      /\ req' = [q \in Downloads |->
           IF q = r
           THEN Request(IF first THEN "expiring" ELSE "serving", 0)
           ELSE [req[q] EXCEPT !.stale = @ \/ req[q].at \in {"deciding", "adding"}]]
      /\ req[r].at = "adding"
  BY DEF Add, Debit
<1>2. QuotaTimes'
  BY <1>1 DEF QuotaInv, QuotaTimes
<1>3. \A q \in Downloads : req[q].at = "expiring" => req'[q].at = "expiring"
  <2> TAKE q \in Downloads
  <2> HAVE req[q].at = "expiring"
  <2>1. q # r
    BY <1>1
  <2>2. req'[q] = [req[q] EXCEPT !.stale = @ \/ req[q].at \in {"deciding", "adding"}]
    BY <1>1, <2>1
  <2> QED
    BY <2>2
<1>4. ttl' = Never => timeless' \/ \E q \in Downloads : req'[q].at = "expiring"
  <2>1. CASE first
    <3>1. req'[r].at = "expiring"
      BY <1>1, <2>1 DEF Request
    <3> QED
      BY <3>1
  <2>2. CASE ~first
    <3>1. debits # {}
      BY <2>2
    <3> QED
      BY <1>1, <1>3, <3>1 DEF QuotaInv, PeriodEnds
  <2> QED
    BY <2>1, <2>2
<1> QED
  BY <1>1, <1>2, <1>4 DEF QuotaInv, PeriodEnds

LEMMA QuotaStepInv == QuotaInv /\ [Next]_vars => QuotaInv'
<1> SUFFICES ASSUME QuotaInv, [Next]_vars PROVE QuotaInv'
  OBVIOUS
<1>1. CASE Tick
  <2>1. CASE ttl = now'
    BY <1>1, <2>1, QuotaAssumption DEF Tick, QuotaInv, QuotaTimes, PeriodEnds
  <2>2. CASE ttl # now'
    BY <1>1, <2>2, QuotaAssumption DEF Tick, QuotaInv, QuotaTimes, PeriodEnds
  <2> QED
    BY <2>1, <2>2
<1>2. ASSUME NEW r \in Downloads, NEW files \in SUBSET Files, Ask(r, files) PROVE QuotaInv'
  BY <1>2, QuotaBystander DEF Ask, QuotaInv, QuotaTimes
<1>3. ASSUME NEW r \in Downloads, Read(r) PROVE QuotaInv'
  BY <1>3, QuotaBystander DEF Read, QuotaInv, QuotaTimes
<1>4. ASSUME NEW r \in Downloads, Decide(r) PROVE QuotaInv'
  BY <1>4, QuotaBystander DEF Decide, QuotaInv, QuotaTimes
<1>5. ASSUME NEW r \in Downloads, Add(r) PROVE QuotaInv'
  BY <1>5, AddInv
<1>6. ASSUME NEW r \in Downloads, Expire(r) PROVE QuotaInv'
  <2>1. CASE debits = {}
    BY <1>6, <2>1, QuotaAssumption DEF Expire, QuotaInv, QuotaTimes, PeriodEnds
  <2>2. CASE debits # {}
    <3>1. ttl' = now + Period /\ now' = now /\ DOMAIN req' = Downloads
      BY <1>6, <2>2 DEF Expire, QuotaInv, QuotaTimes
    <3>2. ttl' \in Nat /\ ttl' > now' /\ ttl' <= now' + Period
      BY <3>1, QuotaAssumption DEF QuotaInv, QuotaTimes
    <3>3. ttl' # Never
      BY <3>2, QuotaAssumption
    <3> QED
      BY <3>1, <3>2, <3>3 DEF QuotaInv, QuotaTimes, PeriodEnds
  <2> QED
    BY <2>1, <2>2
<1>7. ASSUME NEW r \in Downloads, Serve(r) PROVE QuotaInv'
  BY <1>7, QuotaBystander DEF Serve, QuotaInv, QuotaTimes
<1>8. ASSUME NEW r \in Downloads, Fail(r) PROVE QuotaInv'
  BY <1>8, QuotaBystander DEF Fail, QuotaInv, QuotaTimes
<1>9. CASE UNCHANGED vars
  BY <1>9, QuotaBystander DEF vars, QuotaInv, QuotaTimes
<1> QED
  BY <1>1, <1>2, <1>3, <1>4, <1>5, <1>6, <1>7, <1>8, <1>9 DEF Next

\* Whatever downloads do at the same time, a period that began has an end in
\* sight unless the request that began it died before its pexpire (consume).
THEOREM PeriodsEnd == Spec => []PeriodEnds
<1>1. QuotaInv => PeriodEnds
  BY DEF QuotaInv
<1> QED
  BY QuotaInitInv, QuotaStepInv, <1>1, PTL DEF Spec

-----------------------------------------------------------------------------
(* Sums over finite sets.  MapThenSumSet is a function that is equal to    *)
(* something with itself in it: there is one such function, and its value  *)
(* is the number of units of the things that are weighed.                  *)

\* Every unit of the weights of S on its own.
Units(W, S) == UNION {{x} \X (1 .. W[x]) : x \in S}
Total(W, S) == Cardinality(Units(W, S))
Weighed(W, S) == IsFiniteSet(S) /\ \A x \in S : W[x] \in Nat

LEMMA WeighedSubset ==
  ASSUME NEW W, NEW S, Weighed(W, S), NEW T \in SUBSET S
  PROVE  Weighed(W, T)
BY FS_Subset DEF Weighed

LEMMA UnitsFinite ==
  ASSUME NEW W, NEW S, Weighed(W, S)
  PROVE  IsFiniteSet(Units(W, S)) /\ Total(W, S) \in Nat
<1>1. \A x \in S : IsFiniteSet({x} \X (1 .. W[x]))
  <2> SUFFICES ASSUME NEW x \in S PROVE IsFiniteSet({x} \X (1 .. W[x]))
    OBVIOUS
  <2>1. IsFiniteSet(1 .. W[x])
    BY FS_Interval DEF Weighed
  <2> QED
    BY <2>1, FS_Singleton, FS_Product
<1> DEFINE part == [x \in S |-> {x} \X (1 .. W[x])]
           parts == {{x} \X (1 .. W[x]) : x \in S}
<1>2. IsFiniteSet(parts)
  <2>1. part \in Surjection(S, parts)
    BY DEF Surjection
  <2> HIDE DEF part, parts
  <2> QED
    BY <2>1, FS_Surjection DEF Weighed
<1>3. \A T \in parts : IsFiniteSet(T)
  BY <1>1
<1>4. IsFiniteSet(UNION parts)
  <2> HIDE DEF parts
  <2> QED
    BY <1>2, <1>3, FS_UNION
<1> QED
  BY <1>4, FS_CardinalityType DEF Units, Total

\* A total without one of the things weighed.
LEMMA TotalWithout ==
  ASSUME NEW W, NEW S, Weighed(W, S), NEW x \in S
  PROVE  Total(W, S) = W[x] + Total(W, S \ {x})
<1> DEFINE U == Units(W, S \ {x})
           V == {x} \X (1 .. W[x])
<1>1. Weighed(W, S \ {x}) /\ W[x] \in Nat
  BY WeighedSubset DEF Weighed
<1>2. Units(W, S) = U \cup V /\ U \cap V = {}
  BY DEF Units
<1>3. IsFiniteSet(V) /\ Cardinality(V) = W[x]
  <2>1. IsFiniteSet(1 .. W[x]) /\ Cardinality(1 .. W[x]) = W[x]
    <3> DEFINE w == W[x]
    <3>1. w \in Int /\ 1 \in Int /\ w >= 0
      BY <1>1
    <3> HIDE DEF w
    <3>2. IsFiniteSet(1 .. w) /\ Cardinality(1 .. w) = w
      BY <3>1, FS_Interval
    <3> QED
      BY <3>2 DEF w
  <2>2. IsFiniteSet({x}) /\ Cardinality({x}) = 1
    BY FS_Singleton
  <2>3. Cardinality(V) = Cardinality({x}) * Cardinality(1 .. W[x]) /\ IsFiniteSet(V)
    BY <2>1, <2>2, FS_Product
  <2> QED
    BY <1>1, <2>1, <2>2, <2>3
<1>4. IsFiniteSet(U) /\ Cardinality(U) = Total(W, S \ {x}) /\ Cardinality(U) \in Nat
  BY <1>1, UnitsFinite DEF Total
<1>5. Cardinality({}) = 0
  BY FS_EmptySet
<1> HIDE DEF U, V
<1>6. Cardinality(U \cup V) = Cardinality(U) + Cardinality(V)
  <2>1. Cardinality(U \cup V) = Cardinality(U) + Cardinality(V) - Cardinality(U \cap V)
    BY <1>3, <1>4, FS_Union
  <2>2. Cardinality(U \cap V) = 0
    BY <1>2, <1>5
  <2> QED
    BY <1>1, <1>3, <1>4, <2>1, <2>2
<1> QED
  BY <1>1, <1>2, <1>3, <1>4, <1>6 DEF Total

LEMMA TotalOfNothing ==
  ASSUME NEW W
  PROVE  Total(W, {}) = 0
BY FS_EmptySet DEF Total, Units

\* The sum of a set as the fold takes it apart.
Pick(s) == CHOOSE x \in s : TRUE

LEMMA Picked == \A s : s # {} => Pick(s) \in s
BY DEF Pick

SumsUp(g, W, S) ==
  g = [s \in SUBSET S |-> IF s = {} THEN 0 ELSE W[Pick(s)] + g[s \ {Pick(s)}]]

Totals(W, S) == [s \in SUBSET S |-> Total(W, s)]

LEMMA TotalsSumUp ==
  ASSUME NEW W, NEW S, Weighed(W, S)
  PROVE  SumsUp(Totals(W, S), W, S)
<1>1. \A s \in SUBSET S : s # {} => Total(W, s) = W[Pick(s)] + Totals(W, S)[s \ {Pick(s)}]
  BY Picked, WeighedSubset, TotalWithout DEF Totals
<1> QED
  BY <1>1, TotalOfNothing DEF SumsUp, Totals

\* There is no other function that does.
LEMMA OnlyTotalsSumUp ==
  ASSUME NEW W, NEW S, Weighed(W, S), NEW g, SumsUp(g, W, S)
  PROVE  g[S] = Total(W, S)
<1> DEFINE bad == {s \in SUBSET S : g[s] # Total(W, s)}
<1> SUFFICES ASSUME bad # {} PROVE FALSE
  OBVIOUS
<1>1. IsWellFoundedOn(StrictSubsetOrdering(S), SUBSET S)
  BY FS_StrictSubsetOrderingWellFounded, FS_FiniteSubsetsOfFinite DEF Weighed
<1>2. PICK s \in bad : \A t \in bad : <<t, s>> \notin StrictSubsetOrdering(S)
  <2>1. bad \subseteq SUBSET S
    OBVIOUS
  <2> HIDE DEF bad
  <2> QED
    BY <1>1, <2>1, WFMin
<1>3. s # {}
  BY <1>2, TotalOfNothing DEF SumsUp
<1> DEFINE rest == s \ {Pick(s)}
<1>4. g[rest] = Total(W, rest)
  <2>1. <<rest, s>> \in StrictSubsetOrdering(S)
    BY <1>2, <1>3, Picked DEF StrictSubsetOrdering
  <2> QED
    BY <1>2, <2>1
<1>5. Total(W, s) = W[Pick(s)] + Total(W, rest)
  BY <1>2, <1>3, Picked, WeighedSubset, TotalWithout
<1> QED
  BY <1>2, <1>3, <1>4, <1>5 DEF SumsUp

\* What the fold of a set is, for one thing that is summed up.
LEMMA SpentIsTotal ==
  ASSUME NEW S, NEW W, Weighed(W, S), \A m \in S : W[m] = m.w
  PROVE  Spent(S) = Total(W, S)
<1> DEFINE step(g) == [s \in SUBSET S |-> IF s = {} THEN 0 ELSE Pick(s).w + g[s \ {Pick(s)}]]
           sum == CHOOSE g : g = step(g)
<1>1. Spent(S) = sum[S]
  BY DEF Spent, MapThenSumSet, MapThenFoldSet, Pick
<1>2. ASSUME NEW g PROVE g = step(g) <=> SumsUp(g, W, S)
  <2>1. \A s \in SUBSET S : s # {} => Pick(s).w = W[Pick(s)]
    BY Picked
  <2> QED
    BY <2>1 DEF SumsUp
<1>3. sum = step(sum)
  <2>1. Totals(W, S) = step(Totals(W, S))
    BY <1>2, TotalsSumUp
  <2> HIDE DEF step
  <2> QED
    BY <2>1
<1> QED
  BY <1>1, <1>2, <1>3, OnlyTotalsSumUp

LEMMA TotalWith ==
  ASSUME NEW W, NEW S, Weighed(W, S), NEW x, x \notin S, W[x] \in Nat
  PROVE  Weighed(W, S \cup {x}) /\ Total(W, S \cup {x}) = Total(W, S) + W[x]
<1>1. Weighed(W, S \cup {x})
  BY FS_AddElement DEF Weighed
<1>2. Total(W, S \cup {x}) = W[x] + Total(W, (S \cup {x}) \ {x})
  BY <1>1, TotalWithout
<1>3. (S \cup {x}) \ {x} = S
  OBVIOUS
<1> QED
  BY <1>1, <1>2, <1>3, UnitsFinite

-----------------------------------------------------------------------------
(* The downloads of a period: those that are not excused had been debited  *)
(* from what was left when they were decided.                              *)

Debits == [t : Nat, w : Nat]
Grants == [by : Downloads, w : Nat, excused : BOOLEAN]
QuotaRequests ==
  [at : {"idle", "reading", "deciding", "adding", "expiring", "serving", "served", "refused", "failed"},
   cost : Nat, left : Nat, stamp : Nat, stale : BOOLEAN]

DebitWeight == [m \in Debits |-> m.w]
GrantWeight == [g \in Grants |-> g.w]

Unexcused == {g \in grants : ~g.excused}
Debited == Total(DebitWeight, debits)
Granted == Total(GrantWeight, Unexcused)

QuotaTypes ==
  /\ now \in Nat
  /\ debits \subseteq Debits /\ IsFiniteSet(debits)
  /\ grants \subseteq Grants /\ IsFiniteSet(grants)
  /\ req \in [Downloads -> QuotaRequests]

Left(spent) == IF spent < Credits THEN Credits - spent ELSE 0

\* A decision is about what is left, but for debits of others since.
LeftIsThere ==
  \A r \in Downloads :
    /\ req[r].at \in {"deciding", "adding"} /\ ~req[r].stale => req[r].left <= Left(Debited)
    /\ req[r].at = "adding" => req[r].cost <= req[r].left

SpentInv == QuotaTypes /\ LeftIsThere /\ Granted <= Debited /\ Granted <= Credits

LEMMA QuotaWeighed ==
  ASSUME QuotaTypes
  PROVE  /\ Weighed(DebitWeight, debits) /\ Debited \in Nat
         /\ Weighed(GrantWeight, Unexcused) /\ Granted \in Nat
<1>1. Weighed(DebitWeight, debits)
  BY DEF QuotaTypes, Weighed, DebitWeight, Debits
<1>2. Unexcused \subseteq grants
  BY DEF Unexcused
<1>3. Weighed(GrantWeight, Unexcused)
  BY <1>2, FS_Subset DEF QuotaTypes, Weighed, GrantWeight, Grants
<1> QED
  BY <1>1, <1>3, UnitsFinite DEF Debited, Granted

LEMMA QuotaSums ==
  ASSUME QuotaTypes
  PROVE  /\ Spent(debits) = Debited
         /\ MapThenSumSet(LAMBDA g : g.w, Unexcused) = Granted
<1>1. \A m \in debits : DebitWeight[m] = m.w
  BY DEF QuotaTypes, DebitWeight
<1>2. \A g \in Unexcused : GrantWeight[g] = g.w
  BY DEF QuotaTypes, GrantWeight, Unexcused
<1>3. Spent(debits) = Debited
  BY <1>1, QuotaWeighed, SpentIsTotal DEF Debited
<1>4. Spent(Unexcused) = Granted
  BY <1>2, QuotaWeighed, SpentIsTotal DEF Granted
<1> QED
  BY <1>3, <1>4 DEF Spent

LEMMA CostIsNat ==
  ASSUME QuotaAssumption, NEW files \in SUBSET Files
  PROVE  TotalCost(files) \in Nat
<1>0. Weighed(Cost, files)
  BY FS_Subset DEF QuotaAssumption, Weighed
<1> DEFINE step(g) == [s \in SUBSET files |-> IF s = {} THEN 0 ELSE Cost[Pick(s)] + g[s \ {Pick(s)}]]
           sum == CHOOSE g : g = step(g)
<1>1. TotalCost(files) = sum[files]
  BY DEF TotalCost, MapThenSumSet, MapThenFoldSet, Pick
<1>2. ASSUME NEW g PROVE g = step(g) <=> SumsUp(g, Cost, files)
  BY DEF SumsUp
<1>3. sum = step(sum)
  <2>1. Totals(Cost, files) = step(Totals(Cost, files))
    BY <1>0, <1>2, TotalsSumUp
  <2> HIDE DEF step
  <2> QED
    BY <2>1
<1>4. SumsUp(sum, Cost, files)
  BY <1>2, <1>3
<1> HIDE DEF sum, step
<1> QED
  BY <1>0, <1>1, <1>4, OnlyTotalsSumUp, UnitsFinite

LEMMA SpentInit == Init => SpentInv
<1> SUFFICES ASSUME Init PROVE SpentInv
  OBVIOUS
<1>1. QuotaTypes
  BY FS_EmptySet DEF Init, QuotaTypes, QuotaRequests, Request
<1>2. LeftIsThere
  BY DEF Init, LeftIsThere, Request
<1>3. Debited = 0 /\ Granted = 0
  BY TotalOfNothing DEF Init, Debited, Granted, Unexcused
<1> QED
  BY <1>1, <1>2, <1>3, QuotaAssumption DEF SpentInv

\* A step that neither debits nor ends a period.
LEMMA SpentKept ==
  ASSUME SpentInv, UNCHANGED <<debits, grants>>, now' \in Nat, NEW r \in Downloads, NEW new \in QuotaRequests,
         req' = [req EXCEPT ![r] = new],
         new.at \in {"deciding", "adding"} /\ ~new.stale => new.left <= Left(Debited),
         new.at = "adding" => new.cost <= new.left
  PROVE  SpentInv'
<1>1. QuotaTypes'
  BY DEF SpentInv, QuotaTypes
<1>2. Debited' = Debited /\ Granted' = Granted
  BY DEF Debited, Granted, Unexcused
<1>3. LeftIsThere'
  BY <1>2 DEF SpentInv, QuotaTypes, LeftIsThere, Left
<1> QED
  BY <1>1, <1>2, <1>3 DEF SpentInv

LEMMA SpentTick ==
  ASSUME SpentInv, Tick
  PROVE  SpentInv'
<1>0. now' \in Nat
  BY DEF Tick, SpentInv, QuotaTypes
<1>1. CASE ttl = now'
  <2>1. Debited' = 0 /\ Granted' = 0
    BY <1>1, TotalOfNothing DEF Tick, Debited, Granted, Unexcused
  <2>2. QuotaTypes'
    BY <1>0, <1>1, FS_EmptySet DEF Tick, SpentInv, QuotaTypes
  <2>3. Debited \in Nat
    BY QuotaWeighed DEF SpentInv
  <2>4. LeftIsThere'
    <3> SUFFICES ASSUME NEW r \in Downloads, req[r].at \in {"deciding", "adding"}, ~req[r].stale
                 PROVE  req[r].left <= Left(0)
      BY <2>1 DEF Tick, SpentInv, LeftIsThere
    <3>1. req[r].left <= Left(Debited) /\ req[r].left \in Nat
      BY DEF SpentInv, LeftIsThere, QuotaTypes, QuotaRequests
    <3> QED
      BY <2>3, <3>1, QuotaAssumption DEF Left
  <2> QED
    BY <2>1, <2>2, <2>4, QuotaAssumption DEF SpentInv
<1>2. CASE ttl # now'
  <2>1. Debited' = Debited /\ Granted' = Granted
    BY <1>2 DEF Tick, Debited, Granted, Unexcused
  <2> QED
    BY <1>0, <1>2, <2>1 DEF Tick, SpentInv, QuotaTypes, LeftIsThere, Left
<1> QED
  BY <1>1, <1>2

LEMMA SpentAdd ==
  ASSUME SpentInv, NEW r \in Downloads, Add(r)
  PROVE  SpentInv'
<1> DEFINE debit == [t |-> req[r].stamp, w |-> req[r].cost]
           grant == [by |-> r, w |-> debit.w, excused |-> req[r].stale \/ debit \in debits]
           first == debits \cup {debit} = {debit}
           others == [q \in Downloads |->
             IF q = r THEN Request(IF first THEN "expiring" ELSE "serving", 0)
             ELSE [req[q] EXCEPT !.stale = @ \/ req[q].at \in {"deciding", "adding"}]]
<1>1. /\ req[r].at = "adding"
      /\ debits' = debits \cup {debit} /\ grants' = grants \cup {grant}
      /\ req' = others /\ now' = now
  BY DEF Add, Debit
<1>2. debit \in Debits /\ grant \in Grants /\ req[r] \in QuotaRequests
  BY DEF SpentInv, QuotaTypes, QuotaRequests, Debits, Grants
<1>3. others \in [Downloads -> QuotaRequests]
  BY DEF SpentInv, QuotaTypes, QuotaRequests, Request
<1>4. QuotaTypes'
  BY <1>1, <1>2, <1>3, FS_AddElement DEF SpentInv, QuotaTypes
<1>5. LeftIsThere'
  BY <1>1, <1>2 DEF SpentInv, QuotaTypes, QuotaRequests, LeftIsThere, Request
<1>6. /\ Weighed(DebitWeight, debits) /\ Debited \in Nat
      /\ Weighed(GrantWeight, Unexcused) /\ Granted \in Nat
  BY QuotaWeighed DEF SpentInv
<1>7. DebitWeight[debit] = req[r].cost /\ GrantWeight[grant] = req[r].cost /\ req[r].cost \in Nat
  BY <1>2 DEF DebitWeight, GrantWeight, Debits, Grants, QuotaRequests
<1>8. Debited' = IF debit \in debits THEN Debited ELSE Debited + req[r].cost
  <2>1. CASE debit \in debits
    <3>1. debits \cup {debit} = debits
      BY <2>1
    <3> QED
      BY <1>1, <2>1, <3>1 DEF Debited
  <2>2. CASE debit \notin debits
    <3> HIDE DEF debit
    <3> QED
      BY <1>1, <1>6, <1>7, <2>2, TotalWith DEF Debited
  <2> QED
    BY <2>1, <2>2
<1>9. CASE grant.excused
  <2>1. Unexcused' = Unexcused
    BY <1>1, <1>9 DEF Unexcused
  <2>2. Granted' = Granted
    BY <2>1 DEF Granted
  <2> QED
    BY <1>4, <1>5, <1>6, <1>7, <1>8, <2>2, QuotaAssumption DEF SpentInv
<1>10. CASE ~grant.excused
  <2>1. Unexcused' = Unexcused \cup {grant}
    BY <1>1, <1>10 DEF Unexcused
  <2>2. Granted' = Granted \/ Granted' = Granted + req[r].cost
    <3>1. CASE grant \in Unexcused
      <4>1. Unexcused \cup {grant} = Unexcused
        BY <3>1
      <4>2. Unexcused' = Unexcused
        BY <2>1, <4>1
      <4> QED
        BY <4>2 DEF Granted
    <3>2. CASE grant \notin Unexcused
      <4> HIDE DEF grant
      <4> QED
        BY <1>6, <1>7, <2>1, <3>2, TotalWith DEF Granted
    <3> QED
      BY <3>1, <3>2
  <2>3. Debited' = Debited + req[r].cost /\ ~req[r].stale
    BY <1>8, <1>10
  <2>4. req[r].cost <= req[r].left /\ req[r].left <= Left(Debited) /\ req[r].left \in Nat
    BY <1>1, <1>2, <2>3 DEF SpentInv, LeftIsThere, QuotaRequests
  <2> QED
    BY <1>4, <1>5, <1>6, <1>7, <2>2, <2>3, <2>4, QuotaAssumption DEF SpentInv, Left
<1> QED
  BY <1>9, <1>10

LEMMA SpentStep == SpentInv /\ [Next]_vars => SpentInv'
<1> SUFFICES ASSUME SpentInv, [Next]_vars PROVE SpentInv'
  OBVIOUS
<1>0. now \in Nat /\ req \in [Downloads -> QuotaRequests]
  BY DEF SpentInv, QuotaTypes
<1>1. CASE Tick
  BY <1>1, SpentTick
<1>2. ASSUME NEW r \in Downloads, NEW files \in SUBSET Files, Ask(r, files) PROVE SpentInv'
  <2> DEFINE new == Request(IF TotalCost(files) = 0 THEN "serving" ELSE "reading", TotalCost(files))
  <2>1. new \in QuotaRequests /\ new.at \notin {"deciding", "adding"}
    BY CostIsNat, QuotaAssumption DEF QuotaRequests, Request
  <2>2. req' = [req EXCEPT ![r] = new] /\ UNCHANGED <<now, debits, grants>>
    BY <1>2 DEF Ask
  <2> HIDE DEF new
  <2> QED
    BY <1>0, <2>1, <2>2, SpentKept
<1>3. ASSUME NEW r \in Downloads, Read(r) PROVE SpentInv'
  <2> DEFINE new == [req[r] EXCEPT !.at = "deciding", !.left = Remaining(debits)]
  <2>1. Remaining(debits) = Left(Debited) /\ Left(Debited) \in Nat
    BY QuotaSums, QuotaWeighed, QuotaAssumption DEF SpentInv, Remaining, Left
  <2>2. new \in QuotaRequests /\ new.at = "deciding" /\ new.left = Left(Debited)
    BY <1>0, <2>1 DEF QuotaRequests
  <2>4. new.left <= Left(Debited) /\ new.at # "adding"
    BY <2>1, <2>2
  <2>3. req' = [req EXCEPT ![r] = new] /\ UNCHANGED <<now, debits, grants>>
    BY <1>0, <1>3 DEF Read
  <2> HIDE DEF new
  <2> QED
    BY <1>0, <2>2, <2>3, <2>4, SpentKept
<1>4. ASSUME NEW r \in Downloads, Decide(r) PROVE SpentInv'
  <2> DEFINE new == IF req[r].left < req[r].cost THEN Request("refused", 0)
                    ELSE [req[r] EXCEPT !.at = "adding", !.stamp = now]
  <2>1. /\ new \in QuotaRequests
        /\ new.at \in {"deciding", "adding"} /\ ~new.stale => new.left <= Left(Debited)
        /\ new.at = "adding" => new.cost <= new.left
    <3>1. CASE req[r].left < req[r].cost
      BY <3>1 DEF QuotaRequests, Request
    <3>2. CASE ~(req[r].left < req[r].cost)
      <4>1. new = [req[r] EXCEPT !.at = "adding", !.stamp = now]
        BY <3>2
      <4>2. req[r] \in QuotaRequests /\ req[r].at = "deciding"
        BY <1>0, <1>4 DEF Decide
      <4>3. ~req[r].stale => req[r].left <= Left(Debited)
        BY <4>2 DEF SpentInv, LeftIsThere
      <4>4. /\ new \in QuotaRequests /\ new.stale = req[r].stale
            /\ new.left = req[r].left /\ new.cost = req[r].cost
        BY <1>0, <4>1, <4>2 DEF QuotaRequests
      <4>5. req[r].cost <= req[r].left
        BY <3>2, <4>2 DEF QuotaRequests
      <4> HIDE DEF new
      <4> QED
        BY <4>3, <4>4, <4>5
    <3> QED
      BY <3>1, <3>2
  <2>2. req' = [req EXCEPT ![r] = new] /\ UNCHANGED <<now, debits, grants>>
    BY <1>4 DEF Decide
  <2> HIDE DEF new
  <2> QED
    BY <1>0, <2>1, <2>2, SpentKept
<1>5. ASSUME NEW r \in Downloads, Add(r) PROVE SpentInv'
  BY <1>5, SpentAdd
<1>6. ASSUME NEW r \in Downloads, Expire(r) \/ Serve(r) \/ Fail(r) PROVE SpentInv'
  <2>1. PICK new \in QuotaRequests : new.at \notin {"deciding", "adding"} /\ req' = [req EXCEPT ![r] = new]
    <3>1. CASE Expire(r)
      <4>1. /\ [req[r] EXCEPT !.at = "serving"] \in QuotaRequests
            /\ [req[r] EXCEPT !.at = "serving"].at \notin {"deciding", "adding"}
        BY <1>0 DEF QuotaRequests, Request
      <4>2. req' = [req EXCEPT ![r] = [req[r] EXCEPT !.at = "serving"]]
        BY <1>0, <3>1 DEF Expire
      <4> QED
        BY <4>1, <4>2
    <3>2. CASE Serve(r)
      <4>1. /\ Request("served", 0) \in QuotaRequests
            /\ Request("served", 0).at \notin {"deciding", "adding"}
        BY <1>0 DEF QuotaRequests, Request
      <4>2. req' = [req EXCEPT ![r] = Request("served", 0)]
        BY <1>0, <3>2 DEF Serve
      <4> QED
        BY <4>1, <4>2
    <3>3. CASE Fail(r)
      <4>1. /\ Request("failed", 0) \in QuotaRequests
            /\ Request("failed", 0).at \notin {"deciding", "adding"}
        BY <1>0 DEF QuotaRequests, Request
      <4>2. req' = [req EXCEPT ![r] = Request("failed", 0)]
        BY <1>0, <3>3 DEF Fail
      <4> QED
        BY <4>1, <4>2
    <3> QED
      BY <1>6, <3>1, <3>2, <3>3
  <2>2. UNCHANGED <<now, debits, grants>>
    BY <1>6 DEF Expire, Serve, Fail
  <2> QED
    BY <1>0, <2>1, <2>2, SpentKept
<1>7. CASE UNCHANGED vars
  <2>1. Debited' = Debited /\ Granted' = Granted
    BY <1>7 DEF vars, Debited, Granted, Unexcused
  <2> QED
    BY <1>7, <2>1 DEF vars, SpentInv, QuotaTypes, LeftIsThere
<1> QED
  BY <1>1, <1>2, <1>3, <1>4, <1>5, <1>6, <1>7 DEF Next

\* Whatever the plan, the files and the requests: who overspends has raced.
THEOREM OverspentOnlyInRaces == Spec => []OverspentOnlyByRaces
<1>1. SpentInv => OverspentOnlyByRaces
  <2> SUFFICES ASSUME SpentInv PROVE OverspentOnlyByRaces
    OBVIOUS
  <2>1. MapThenSumSet(LAMBDA g : g.w, Unexcused) <= Credits
    BY QuotaSums DEF SpentInv
  <2> QED
    BY <2>1 DEF OverspentOnlyByRaces, Unexcused
<1> QED
  BY <1>1, SpentInit, SpentStep, PTL DEF Spec

-----------------------------------------------------------------------------
(* The archives: what a request holds from collecting to sending.          *)

Ids == (UNION {body.ids : body \in Bodies}) \cup ShelfFiles

FileNames == {<<KindOf[x].base, n>> : x \in ArchivedFiles, n \in Nat}

FetchTypes ==
  [at : {"idle", "refused", "collected", "checked", "counting", "failing", "failed", "sent", "serving", "served"},
   dry : BOOLEAN, ids : SUBSET Ids, files : SUBSET ArchivedFiles, left : SUBSET Counters,
   seen : [Scored -> Nat], names : UNION {[D -> FileNames] : D \in SUBSET ArchivedFiles}]

GameCounter == <<"game", "">>

\* What an archive is about, from the request on.
Selected(x) ==
  /\ x.files \cap Tables = x.ids \cap Tables
  /\ \A v \in DOMAIN Shelf : Shelf[v] \cap x.ids # {} => Shelf[v] \ Tables \subseteq x.files

NamedApart(x) ==
  \A t, u \in DOMAIN x.names \cap Tables : x.names[t] = x.names[u] => t = u

\* The tables that are to be counted are those that were asked for.
EntriesAsked(x) == \A t \in Tables : <<"entry", t>> \in x.left => t \in x.ids

GoodFetch(x) ==
  /\ x \in FetchTypes
  /\ x.at \in {"collected", "counting", "failing", "sent"} => Selected(x) /\ NamedApart(x) /\ EntriesAsked(x)
  /\ x.at \in {"collected", "counting", "failing"} => DOMAIN x.names \subseteq x.files \cap Tables
  /\ x.at = "collected" => /\ GameCounter \in x.left
                           /\ \A t \in x.ids \cap Tables : <<"entry", t>> \in x.left /\ <<"file", t>> \in x.left
  /\ x.at = "sent" => DOMAIN x.names = x.files
  /\ x.at \in {"serving", "served"} =>
       /\ EntriesAsked(x)
       /\ \E y \in ShelfFiles : x.ids = {y}
       /\ GameCounter \notin x.left
       /\ \A t \in Tables : <<"file", t>> \notin x.left

FetchInv ==
  /\ \A f \in Fetches : GoodFetch(fetch[f])
  /\ fetch \in [Fetches -> FetchTypes]
  /\ counted \in [Counters -> Nat]
  /\ score \in [Scored -> Nat]

LEMMA NoFetchGood == GoodFetch(NoFetch) /\ \A phase \in {"refused", "checked", "failed"} : GoodFetch([NoFetch EXCEPT !.at = phase])
<1>1. << >> \in [{} -> FileNames]
  OBVIOUS
<1>2. NoFetch \in FetchTypes
  BY <1>1 DEF NoFetch, FetchTypes
<1>3. \A phase \in {"refused", "checked", "failed"} : [NoFetch EXCEPT !.at = phase] \in FetchTypes
  BY <1>1 DEF NoFetch, FetchTypes
<1> QED
  BY <1>2, <1>3 DEF NoFetch, GoodFetch

LEMMA RequestedParts ==
  ASSUME ArchiveAssumption, NEW body \in Bodies, body.extras \subseteq Extras
  PROVE  /\ Requested(body) \subseteq ArchivedFiles
         /\ Requested(body) \cap Tables = body.ids \cap Tables
         /\ \A v \in DOMAIN Shelf : Shelf[v] \cap body.ids # {} => Shelf[v] \ Tables \subseteq Requested(body)
         /\ ToCount(body) \subseteq Counters
         /\ GameCounter \in ToCount(body)
         /\ \A t \in body.ids \cap Tables : <<"entry", t>> \in ToCount(body) /\ <<"file", t>> \in ToCount(body)
         /\ \A t \in Tables : <<"entry", t>> \in ToCount(body) => t \in body.ids
<1>1. \A x \in Extras : x \notin Tables
  BY DEF ArchiveAssumption, Tables
<1>2. \A t \in Tables : Image[t] \notin Tables
  BY DEF ArchiveAssumption, Tables
<1>3. TouchedFiles(body.ids) \subseteq ShelfFiles /\ Tables \subseteq ShelfFiles
  BY DEF TouchedFiles, Touched, ShelfFiles, Tables
<1> DEFINE images == IF body.images THEN {Image[t] : t \in body.ids \cap Tables} ELSE {}
<1>4. images \subseteq {Image[t] : t \in Tables} /\ images \cap Tables = {}
  BY <1>2
<1>5. Requested(body) \subseteq ArchivedFiles /\ Requested(body) \cap Tables = body.ids \cap Tables
  BY <1>1, <1>3, <1>4 DEF Requested, ArchivedFiles
<1>6. \A v \in DOMAIN Shelf : Shelf[v] \cap body.ids # {} => Shelf[v] \ Tables \subseteq Requested(body)
  BY DEF Requested, TouchedFiles, Touched
<1>7. ToCount(body) \subseteq Counters
  BY <1>3 DEF ToCount, Counters, Touched
<1>8. \A t \in body.ids \cap Tables : t \in TouchedFiles(body.ids)
  BY DEF Tables, ShelfFiles, TouchedFiles, Touched
<1>9. /\ GameCounter \in ToCount(body)
      /\ \A t \in body.ids \cap Tables : <<"entry", t>> \in ToCount(body) /\ <<"file", t>> \in ToCount(body)
  BY <1>8 DEF ToCount, GameCounter, Scored
<1>10. \A t \in Tables : <<"entry", t>> \in ToCount(body) => t \in body.ids
  BY DEF ToCount, Scored
<1> QED
  BY <1>5, <1>6, <1>7, <1>9, <1>10

\* A set of numbers has a least one.
LEMMA LeastOf ==
  ASSUME NEW S \in SUBSET Nat, S # {}
  PROVE  \E n \in S : \A m \in S : n <= m
<1>1. PICK n \in S : \A m \in S : <<m, n>> \notin OpToRel(<, Nat)
  BY NatLessThanWellFounded, WFMin
<1>2. \A m \in S : ~(m < n)
  BY <1>1 DEF OpToRel
<1> QED
  BY <1>2

\* A step of one request.
LEMMA FetchKept ==
  ASSUME FetchInv, NEW f \in Fetches, NEW new, GoodFetch(new), fetch' = [fetch EXCEPT ![f] = new],
         counted' \in [Counters -> Nat], score' \in [Scored -> Nat]
  PROVE  FetchInv'
BY DEF FetchInv, GoodFetch

\* What Increment leaves.
LEMMA IncrementTypes ==
  ASSUME ArchiveAssumption, FetchInv, NEW f \in Fetches, NEW cs \in SUBSET Counters, NEW failing, Increment(f, cs, failing)
  PROVE  counted' \in [Counters -> Nat] /\ score' \in [Scored -> Nat]
<1>1. \A c : Weight(f, c) \in Nat
  <2>1. IsFiniteSet(fetch[f].ids \cap Tables)
    BY FS_Subset, Tables \subseteq ShelfFiles DEF ArchiveAssumption, Tables
  <2> QED
    BY <2>1, FS_CardinalityType DEF Weight
<1>2. fetch[f].seen \in [Scored -> Nat]
  BY DEF FetchInv, FetchTypes
<1> QED
  BY <1>1, <1>2 DEF Increment, FetchInv

LEMMA FreeNameIsFree ==
  ASSUME NEW used, IsFiniteSet(used), NEW base
  PROVE  /\ FreeName(used, base) \notin used
         /\ \E n \in Nat : FreeName(used, base) = <<base, n>>
<1>1. CASE <<base, 0>> \notin used
  BY <1>1 DEF FreeName
<1>2. CASE <<base, 0>> \in used
  <2> DEFINE N == Cardinality(used)
             free == {n \in 1 .. N : <<base, n>> \notin used}
             least == Min(free)
  <2>1. N \in Nat
    BY FS_CardinalityType
  <2>2. free # {}
    <3> SUFFICES ASSUME free = {} PROVE FALSE
      OBVIOUS
    <3> DEFINE name == [n \in 0 .. N |-> <<base, n>>]
    <3>1. name \in [0 .. N -> used]
      BY <1>2
    <3>2. IsFiniteSet(0 .. N) /\ Cardinality(0 .. N) = N + 1
      BY <2>1, FS_Interval
    <3>3. \A m, n \in 0 .. N : name[m] = name[n] => m = n
      OBVIOUS
    <3> HIDE DEF name
    <3>4. \E m, n \in 0 .. N : m # n /\ name[m] = name[n]
      <4> DEFINE numbers == 0 .. N
      <4>1. Cardinality(used) < Cardinality(numbers)
        BY <2>1, <3>2
      <4>2. IsFiniteSet(numbers) /\ name \in [numbers -> used]
        BY <3>1, <3>2
      <4> HIDE DEF numbers
      <4>3. \E m, n \in numbers : m # n /\ name[m] = name[n]
        BY <4>1, <4>2, FS_PigeonHole
      <4> QED
        BY <4>3 DEF numbers
    <3> QED
      BY <3>3, <3>4
  <2>3. least \in free
    <3>1. free \subseteq Nat
      OBVIOUS
    <3> HIDE DEF free
    <3>2. \E n \in free : \A m \in free : n <= m
      BY <2>2, <3>1, LeastOf
    <3> QED
      BY <3>2 DEF Min
  <2>4. FreeName(used, base) = <<base, least>>
    BY <1>2 DEF FreeName
  <2> HIDE DEF least
  <2> QED
    BY <2>3, <2>4
<1> QED
  BY <1>1, <1>2

LEMMA NamesFinite ==
  ASSUME ArchiveAssumption, FetchInv, NEW f \in Fetches, DOMAIN fetch[f].names \subseteq Tables
  PROVE  IsFiniteSet({fetch[f].names[y] : y \in Named(f)})
<1> DEFINE names == fetch[f].names
           D == DOMAIN names
           range == {names[y] : y \in D}
<1>1. IsFiniteSet(D)
  BY FS_Subset, Tables \subseteq ShelfFiles DEF ArchiveAssumption, Tables
<1>2. names \in Surjection(D, range)
  <2>1. names = [y \in D |-> names[y]]
    BY DEF FetchInv, FetchTypes
  <2> HIDE DEF names
  <2> QED
    BY <2>1 DEF Surjection
<1>3. IsFiniteSet(range)
  <2> HIDE DEF D, range
  <2> QED
    BY <1>1, <1>2, FS_Surjection
<1> QED
  BY <1>3 DEF Named

LEMMA CollectGood ==
  ASSUME ArchiveAssumption, FetchInv, NEW f \in Fetches, NEW body \in Bodies, NEW dry \in BOOLEAN, Collect(f, body, dry)
  PROVE  FetchInv'
<1> DEFINE new == [NoFetch EXCEPT !.at = "collected", !.dry = dry, !.ids = body.ids, !.files = Requested(body),
                                  !.left = ToCount(body), !.seen = Snapshot]
           no == [NoFetch EXCEPT !.at = "refused"]
           refused == body.ids = {} \/ ~body.extras \subseteq Extras \/ Requested(body) = {}
<1>1. counted' \in [Counters -> Nat] /\ score' \in [Scored -> Nat]
  BY DEF Collect, FetchInv
<1>2. CASE refused
  <2>1. fetch' = [fetch EXCEPT ![f] = no]
    BY <1>2 DEF Collect
  <2>2. GoodFetch(no)
    BY NoFetchGood
  <2> HIDE DEF no
  <2> QED
    BY <1>1, <2>1, <2>2, FetchKept
<1>3. CASE ~refused
  <2>1. fetch' = [fetch EXCEPT ![f] = new]
    BY <1>3 DEF Collect
  <2>2. /\ Requested(body) \subseteq ArchivedFiles
        /\ Requested(body) \cap Tables = body.ids \cap Tables
        /\ \A v \in DOMAIN Shelf : Shelf[v] \cap body.ids # {} => Shelf[v] \ Tables \subseteq Requested(body)
        /\ ToCount(body) \subseteq Counters
        /\ GameCounter \in ToCount(body)
        /\ \A t \in body.ids \cap Tables : <<"entry", t>> \in ToCount(body) /\ <<"file", t>> \in ToCount(body)
        /\ \A t \in Tables : <<"entry", t>> \in ToCount(body) => t \in body.ids
    BY <1>3, RequestedParts
  <2>3. Snapshot \in [Scored -> Nat]
    BY DEF Snapshot, FetchInv, Counters
  <2>4. body.ids \subseteq Ids
    BY DEF Ids
  <2>5. /\ new.at = "collected" /\ new.dry = dry /\ new.ids = body.ids /\ new.files = Requested(body)
        /\ new.left = ToCount(body) /\ new.seen = Snapshot /\ DOMAIN new.names = {}
    BY DEF NoFetch
  <2>6. new \in FetchTypes
    <3>1. << >> \in UNION {[D -> FileNames] : D \in SUBSET ArchivedFiles}
      <4>1. << >> \in [{} -> FileNames] /\ {} \in SUBSET ArchivedFiles
        OBVIOUS
      <4> QED
        BY <4>1
    <3>2. "collected" \in {"idle", "refused", "collected", "checked", "counting", "failing", "failed", "sent", "serving", "served"}
      OBVIOUS
    <3> QED
      BY <2>2, <2>3, <2>4, <3>1, <3>2 DEF NoFetch, FetchTypes
  <2> HIDE DEF new
  <2>7. Selected(new) /\ NamedApart(new) /\ EntriesAsked(new)
    BY <2>2, <2>5 DEF Selected, NamedApart, EntriesAsked
  <2>8. GoodFetch(new)
    BY <2>2, <2>5, <2>6, <2>7 DEF GoodFetch
  <2> QED
    BY <1>1, <2>1, <2>8, FetchKept
<1> QED
  BY <1>2, <1>3

LEMMA ChargeGood ==
  ASSUME ArchiveAssumption, FetchInv, NEW f \in Fetches, NEW enough \in BOOLEAN, Charge(f, enough)
  PROVE  FetchInv'
<1>1. counted' \in [Counters -> Nat] /\ score' \in [Scored -> Nat]
  BY DEF Charge, FetchInv
<1>2. ASSUME NEW phase \in {"refused", "checked"}, fetch' = [fetch EXCEPT ![f] = [NoFetch EXCEPT !.at = phase]]
      PROVE  FetchInv'
  <2> DEFINE no == [NoFetch EXCEPT !.at = phase]
  <2>1. GoodFetch(no) /\ fetch' = [fetch EXCEPT ![f] = no]
    BY <1>2, NoFetchGood
  <2> HIDE DEF no
  <2> QED
    BY <1>1, <2>1, FetchKept
<1>3. ASSUME fetch[f].at = "collected", fetch' = [fetch EXCEPT ![f] = [@ EXCEPT !.at = "counting"]] PROVE FetchInv'
  <2> DEFINE new == [fetch[f] EXCEPT !.at = "counting"]
  <2>1. GoodFetch(fetch[f]) /\ fetch' = [fetch EXCEPT ![f] = new]
    BY <1>3 DEF FetchInv
  <2>2. GoodFetch(new)
    BY <1>3, <2>1 DEF GoodFetch, FetchTypes, Selected, NamedApart, EntriesAsked
  <2> HIDE DEF new
  <2> QED
    BY <1>1, <2>1, <2>2, FetchKept
<1> QED
  BY <1>2, <1>3 DEF Charge

LEMMA CountDownloadGood ==
  ASSUME ArchiveAssumption, FetchInv, NEW f \in Fetches, NEW cs, cs \subseteq fetch[f].left,
         NEW failing, CountDownload(f, cs, failing)
  PROVE  FetchInv'
<1> DEFINE new == [fetch[f] EXCEPT !.left = @ \ cs, !.at = IF failing = {} THEN @ ELSE "failing"]
<1>1. GoodFetch(fetch[f]) /\ fetch' = [fetch EXCEPT ![f] = new] /\ fetch[f].at \in {"counting", "failing"}
  BY DEF CountDownload, FetchInv
<1>2. /\ new \in FetchTypes /\ new.at \in {"counting", "failing"} /\ new.left = fetch[f].left \ cs
      /\ new.ids = fetch[f].ids /\ new.files = fetch[f].files /\ new.names = fetch[f].names
  BY <1>1 DEF GoodFetch, FetchTypes
<1>3. cs \in SUBSET Counters
  BY <1>1 DEF GoodFetch, FetchTypes
<1>4. counted' \in [Counters -> Nat] /\ score' \in [Scored -> Nat]
  BY <1>3, IncrementTypes DEF CountDownload
<1> HIDE DEF new
<1>5. EntriesAsked(new)
  BY <1>1, <1>2 DEF GoodFetch, EntriesAsked
<1>6. GoodFetch(new)
  BY <1>1, <1>2, <1>5 DEF GoodFetch, Selected, NamedApart
<1> QED
  BY <1>1, <1>4, <1>6, FetchKept

LEMMA AppendGood ==
  ASSUME ArchiveAssumption, FetchInv, NEW f \in Fetches, NEW x, AppendTable(f, x)
  PROVE  FetchInv'
<1> DEFINE old == fetch[f]
           used == {old.names[y] : y \in Named(f)}
           name == FreeName(used, KindOf[x].base)
           names == [y \in Named(f) \cup {x} |-> IF y = x THEN name ELSE old.names[y]]
           new == [old EXCEPT !.names = names]
<1>1. GoodFetch(old) /\ fetch' = [fetch EXCEPT ![f] = new] /\ old.at = "counting"
  BY DEF AppendTable, FetchInv
<1>2. x \in old.files /\ x \in Tables /\ x \notin DOMAIN old.names /\ DOMAIN old.names \subseteq old.files \cap Tables
  BY <1>1 DEF AppendTable, GoodFetch, Named
<1>3. name \notin used /\ \E n \in Nat : name = <<KindOf[x].base, n>>
  <2>1. IsFiniteSet(used)
    BY <1>2, NamesFinite
  <2> HIDE DEF used
  <2> QED
    BY <2>1, FreeNameIsFree
<1>4. old \in FetchTypes
  BY <1>1 DEF GoodFetch
<1>5. /\ DOMAIN names = DOMAIN old.names \cup {x} /\ names[x] = name
      /\ \A y \in DOMAIN old.names : names[y] = old.names[y]
  <2> HIDE DEF name, old
  <2> QED
    BY <1>2 DEF Named, old
<1>6. name \in FileNames
  <2>1. x \in ArchivedFiles
    BY <1>2, <1>4 DEF FetchTypes
  <2> HIDE DEF name
  <2> QED
    BY <1>3, <2>1 DEF FileNames
<1>7. names \in UNION {[D -> FileNames] : D \in SUBSET ArchivedFiles}
  <2>1. PICK D \in SUBSET ArchivedFiles : old.names \in [D -> FileNames]
    BY <1>4 DEF FetchTypes
  <2>2. x \in ArchivedFiles
    BY <1>2, <1>4 DEF FetchTypes
  <2>3. D \cup {x} \in SUBSET ArchivedFiles
    BY <2>1, <2>2
  <2>4. names \in [D \cup {x} -> FileNames]
    <3>1. Named(f) = D /\ \A y \in D : old.names[y] \in FileNames
      BY <2>1 DEF Named
    <3> HIDE DEF name, old
    <3> QED
      BY <1>6, <3>1
  <2> QED
    BY <2>3, <2>4
<1>8. /\ new \in FetchTypes /\ new.at = "counting" /\ new.left = old.left
      /\ new.ids = old.ids /\ new.files = old.files /\ new.names = names
  <2> HIDE DEF names
  <2> QED
    BY <1>1, <1>4, <1>7 DEF FetchTypes
<1>9. NamedApart(new)
  <2>1. \A y \in DOMAIN old.names : old.names[y] # name
    <3>1. \A y \in DOMAIN old.names : old.names[y] \in used
      BY DEF Named
    <3> HIDE DEF used
    <3> QED
      BY <1>3, <3>1
  <2>2. NamedApart(old)
    BY <1>1 DEF GoodFetch
  <2> HIDE DEF new, names, name, old
  <2> QED
    BY <1>5, <1>8, <2>1, <2>2 DEF NamedApart
<1> HIDE DEF new, names, name
<1>10. Selected(new) /\ EntriesAsked(new)
  BY <1>1, <1>8 DEF GoodFetch, Selected, EntriesAsked
<1>11. GoodFetch(new)
  BY <1>1, <1>2, <1>5, <1>8, <1>9, <1>10 DEF GoodFetch
<1>12. counted' \in [Counters -> Nat] /\ score' \in [Scored -> Nat]
  BY DEF AppendTable, FetchInv
<1> QED
  BY <1>1, <1>11, <1>12, FetchKept

LEMMA FinalizeGood ==
  ASSUME ArchiveAssumption, FetchInv, NEW f \in Fetches, Finalize(f)
  PROVE  FetchInv'
<1> DEFINE old == fetch[f]
           others == old.files \ Tables
           names == [y \in old.files |-> IF y \in others THEN <<KindOf[y].base, 0>> ELSE old.names[y]]
           new == [old EXCEPT !.at = "sent", !.names = names]
<1>1. GoodFetch(old) /\ fetch' = [fetch EXCEPT ![f] = new] /\ old.at = "counting"
  BY DEF Finalize, FetchInv
<1>2. DOMAIN old.names = old.files \cap Tables /\ old \in FetchTypes
  BY <1>1 DEF Finalize, GoodFetch, Named
<1>3. /\ DOMAIN names = old.files
      /\ \A t \in old.files \cap Tables : names[t] = old.names[t]
  BY <1>2
<1>4. names \in [old.files -> FileNames]
  <2>1. old.files \subseteq ArchivedFiles
    BY <1>2 DEF FetchTypes
  <2>2. \A y \in old.files : names[y] \in FileNames
    <3>1. \A y \in others : <<KindOf[y].base, 0>> \in FileNames
      BY <2>1 DEF FileNames
    <3>2. \A y \in old.files \cap Tables : old.names[y] \in FileNames
      BY <1>2 DEF FetchTypes
    <3> QED
      BY <3>1, <3>2
  <2> QED
    BY <2>2
<1>5. /\ new \in FetchTypes /\ new.at = "sent" /\ new.left = old.left
      /\ new.ids = old.ids /\ new.files = old.files /\ new.names = names
  <2>1. names \in UNION {[D -> FileNames] : D \in SUBSET ArchivedFiles}
    BY <1>2, <1>4 DEF FetchTypes
  <2> HIDE DEF names
  <2> QED
    BY <1>2, <2>1 DEF FetchTypes
<1>6. NamedApart(old) /\ Selected(old) /\ EntriesAsked(old)
  BY <1>1 DEF GoodFetch
<1> HIDE DEF new, names, old
<1>7. NamedApart(new)
  BY <1>2, <1>3, <1>5, <1>6 DEF NamedApart
<1>8. Selected(new) /\ EntriesAsked(new)
  BY <1>5, <1>6 DEF Selected, EntriesAsked
<1>9. GoodFetch(new)
  BY <1>3, <1>5, <1>7, <1>8 DEF GoodFetch
<1>10. counted' \in [Counters -> Nat] /\ score' \in [Scored -> Nat]
  BY DEF Finalize, FetchInv
<1> QED
  BY <1>1, <1>9, <1>10, FetchKept

LEMMA ServeFileGood ==
  ASSUME ArchiveAssumption, FetchInv, NEW f \in Fetches, NEW x \in ShelfFiles, ServeFile(f, x)
  PROVE  FetchInv'
<1> DEFINE versions == {v \in DOMAIN Shelf : x \in Shelf[v] \cap Tables}
           left == ({"entry"} \X ({x} \cap Tables)) \cup ({"version"} \X versions)
                   \cup (IF versions = {} THEN {} ELSE {<<"release", "">>})
           no == [NoFetch EXCEPT !.at = "failed"]
           new == [NoFetch EXCEPT !.at = "serving", !.ids = {x}, !.files = {x}, !.seen = Snapshot, !.left = left]
<1>1. PICK failing \in SUBSET ({<<"file", x>>} \cap MayFail) :
        /\ Increment(f, {<<"file", x>>}, failing)
        /\ fetch' = [fetch EXCEPT ![f] = IF failing # {} THEN no ELSE new]
  BY DEF ServeFile
<1>2. counted' \in [Counters -> Nat] /\ score' \in [Scored -> Nat]
  <2>1. {<<"file", x>>} \in SUBSET Counters
    BY DEF Counters
  <2> QED
    BY <1>1, <2>1, IncrementTypes
<1>3. GoodFetch(no)
  BY NoFetchGood
<1>4. /\ left \in SUBSET Counters /\ GameCounter \notin left
      /\ \A t \in Tables : <<"file", t>> \notin left /\ (<<"entry", t>> \in left => t = x)
  BY DEF Counters, Scored, GameCounter
<1>5. GoodFetch(new)
  <2>1. Snapshot \in [Scored -> Nat]
    BY DEF Snapshot, FetchInv, Counters
  <2>2. {x} \subseteq Ids /\ {x} \subseteq ArchivedFiles
    <3>1. ShelfFiles \subseteq Ids
      BY DEF Ids
    <3>2. ShelfFiles \subseteq ArchivedFiles
      BY DEF ArchivedFiles
    <3> QED
      BY <3>1, <3>2
  <2>3. << >> \in [{} -> FileNames]
    OBVIOUS
  <2> HIDE DEF left
  <2>4. new \in FetchTypes
    BY <1>4, <2>1, <2>2, <2>3 DEF NoFetch, FetchTypes
  <2> QED
    BY <1>4, <2>4 DEF NoFetch, GoodFetch, EntriesAsked
<1> HIDE DEF no, new
<1>6. GoodFetch(IF failing # {} THEN no ELSE new)
  BY <1>3, <1>5
<1> QED
  BY <1>1, <1>2, <1>6, FetchKept

LEMMA NextCounterLeft ==
  ASSUME NEW f \in Fetches, fetch[f].left # {}
  PROVE  /\ NextCounter(f) \subseteq fetch[f].left \cup {<<"release", "">>}
         /\ GameCounter \notin fetch[f].left => GameCounter \notin NextCounter(f)
         /\ \A t : <<"entry", t>> \in NextCounter(f) <=> <<"entry", t>> \in fetch[f].left
<1>1. /\ GameCounter \notin fetch[f].left => GameCounter \notin NextCounter(f)
      /\ NextCounter(f) \subseteq fetch[f].left \cup {<<"release", "">>}
  BY DEF NextCounter, LeftOf, GameCounter
<1>2. ASSUME NEW t PROVE <<"entry", t>> \in NextCounter(f) <=> <<"entry", t>> \in fetch[f].left
  <2>1. <<"entry", t>> \in LeftOf(f, "entry") <=> <<"entry", t>> \in fetch[f].left
    BY DEF LeftOf
  <2>2. <<"entry", t>> \notin LeftOf(f, "version")
    BY DEF LeftOf
  <2> QED
    BY <2>1, <2>2 DEF NextCounter
<1> QED
  BY <1>1, <1>2

LEMMA CountServedGood ==
  ASSUME ArchiveAssumption, FetchInv, NEW f \in Fetches, NEW failing, CountServed(f, failing)
  PROVE  FetchInv'
<1> DEFINE no == [NoFetch EXCEPT !.at = "failed"]
           new == [fetch[f] EXCEPT !.left = @ \ NextCounter(f)]
<1>1. /\ fetch' = [fetch EXCEPT ![f] = IF failing # {} THEN no ELSE new]
      /\ Increment(f, NextCounter(f), failing) /\ fetch[f].at = "serving"
      /\ GoodFetch(fetch[f])
  <2>1. fetch[f].at = "serving" /\ Increment(f, NextCounter(f), failing) /\ GoodFetch(fetch[f])
    BY DEF CountServed, FetchInv
  <2> HIDE DEF no
  <2>2. fetch' = [fetch EXCEPT ![f] = IF failing # {} THEN no ELSE new]
    BY DEF CountServed, no
  <2> QED
    BY <2>1, <2>2
<1>2. fetch[f].left \in SUBSET Counters
  BY <1>1 DEF GoodFetch, FetchTypes
<1>3. NextCounter(f) \in SUBSET Counters
  BY <1>2, NextCounterLeft DEF CountServed, Counters, Scored
<1>4. counted' \in [Counters -> Nat] /\ score' \in [Scored -> Nat]
  BY <1>1, <1>3, IncrementTypes
<1>5. GoodFetch(new)
  BY <1>1 DEF GoodFetch, FetchTypes, EntriesAsked
<1>6. GoodFetch(no)
  BY NoFetchGood
<1> HIDE DEF no, new
<1>7. GoodFetch(IF failing # {} THEN no ELSE new)
  BY <1>5, <1>6
<1> QED
  BY <1>1, <1>4, <1>7, FetchKept

LEMMA ServedGood ==
  ASSUME ArchiveAssumption, FetchInv, NEW f \in Fetches, Served(f)
  PROVE  FetchInv'
<1> DEFINE new == [fetch[f] EXCEPT !.at = "served"]
           user == IF \A x \in fetch[f].files : IsFree(KindOf[x], "original") THEN {} ELSE {<<"user", "">>}
<1>1. /\ fetch' = [fetch EXCEPT ![f] = new] /\ Increment(f, user, {})
      /\ fetch[f].at = "serving" /\ GoodFetch(fetch[f])
  BY DEF Served, FetchInv
<1>2. counted' \in [Counters -> Nat] /\ score' \in [Scored -> Nat]
  <2>1. user \in SUBSET Counters
    BY DEF Counters
  <2> HIDE DEF user
  <2> QED
    BY <1>1, <2>1, IncrementTypes
<1>3. GoodFetch(new)
  BY <1>1 DEF GoodFetch, FetchTypes, EntriesAsked
<1> HIDE DEF new
<1> QED
  BY <1>1, <1>2, <1>3, FetchKept

LEMMA GiveUpGood ==
  ASSUME FetchInv, NEW f \in Fetches, GiveUp(f)
  PROVE  FetchInv'
<1> DEFINE no == [NoFetch EXCEPT !.at = "failed"]
<1>1. fetch' = [fetch EXCEPT ![f] = no] /\ counted' = counted /\ score' = score
  BY DEF GiveUp
<1>2. GoodFetch(no)
  BY NoFetchGood
<1> HIDE DEF no
<1> QED
  BY <1>1, <1>2, FetchKept DEF FetchInv

\* One of the steps of a request, with what is counted by it.
LEMMA ArchiveSteps ==
  ASSUME ArchiveStep
  PROVE  \E f \in Fetches :
           \/ \E body \in Bodies, dry \in BOOLEAN : Collect(f, body, dry)
           \/ \E enough \in BOOLEAN : Charge(f, enough)
           \/ \E cs, failing : cs \subseteq fetch[f].left /\ CountDownload(f, cs, failing)
           \/ GiveUp(f)
           \/ \E x : AppendTable(f, x)
           \/ Finalize(f)
           \/ \E x \in ShelfFiles : ServeFile(f, x)
           \/ \E failing : CountServed(f, failing)
           \/ Served(f)
BY DEF ArchiveStep

LEMMA FetchInit == ArchiveAssumption /\ ArchiveInit => FetchInv
<1> SUFFICES ASSUME ArchiveInit PROVE FetchInv
  OBVIOUS
<1>1. \A f \in Fetches : fetch[f] = NoFetch
  BY DEF ArchiveInit
<1>2. NoFetch \in FetchTypes
  BY NoFetchGood DEF GoodFetch
<1> QED
  BY <1>1, <1>2, NoFetchGood DEF ArchiveInit, FetchInv

LEMMA FetchStep == FetchInv /\ [ArchiveStep]_archiveVars => FetchInv'
<1> SUFFICES ASSUME FetchInv, [ArchiveStep]_archiveVars PROVE FetchInv'
  OBVIOUS
<1>1. CASE UNCHANGED archiveVars
  BY <1>1 DEF archiveVars, FetchInv, GoodFetch
<1>2. CASE ArchiveStep
  BY <1>2, ArchiveSteps, ArchiveAssumption, CollectGood, ChargeGood, CountDownloadGood, GiveUpGood, AppendGood,
     FinalizeGood, ServeFileGood, CountServedGood, ServedGood
<1> QED
  BY <1>1, <1>2

LEMMA HyperpinIsVariation ==
  ASSUME NEW file, file.type \in {"playfield-fs", "playfield-ws"}, file.category = "image"
  PROVE  "hyperpin" \in DOMAIN VariationsOf(file)
<1>1. \A t \in TypesNamed(file.type) : file.category \in t.categories => t.variations = PlayfieldSizes
  BY DEF TypesNamed, FileTypes
<1>2. \E t \in TypesNamed(file.type) : file.category \in t.categories
  <2> DEFINE t == [name |-> file.type, categories |-> {"image"}, variations |-> PlayfieldSizes]
  <2>1. t \in FileTypes
    BY DEF FileTypes
  <2> QED
    BY <2>1 DEF TypesNamed
<1>3. VariationsOf(file) = PlayfieldSizes
  BY <1>1, <1>2 DEF VariationsOf
<1> QED
  BY <1>3 DEF PlayfieldSizes, FromOriginal

LEMMA UnpackedElsewhere ==
  ASSUME ArchiveAssumption, NEW x \in DOMAIN Entries, NEW entry \in Entries[x], NEW name
  PROVE  ArchivedFilename(entry, x) # <<"Tables", name>>
<1>1. CASE entry.music
  BY <1>1 DEF ArchivedFilename
<1>2. CASE ~entry.music
  <2> DEFINE dirs == IF entry.dirs = <<>> THEN <<KindOf[x].base>> ELSE entry.dirs
             all == STRING \cup {"Tables", KindOf[x].base, entry.name}
  <2>1. dirs \in Seq(all) /\ Len(dirs) >= 1
    <3>1. entry.dirs \in Seq(all)
      BY SeqMonotonic DEF ArchiveAssumption
    <3>2. CASE entry.dirs = <<>>
      BY <3>2
    <3>3. CASE entry.dirs # <<>>
      BY <3>1, <3>3, EmptySeq
    <3> QED
      BY <3>2, <3>3
  <2>2. ArchivedFilename(entry, x) = <<"Tables">> \o dirs \o <<entry.name>>
    BY <1>2 DEF ArchivedFilename
  <2>3. <<"Tables">> \in Seq(all) /\ <<entry.name>> \in Seq(all)
    <3>1. "Tables" \in all /\ entry.name \in all
      OBVIOUS
    <3> HIDE DEF all
    <3> QED
      BY <3>1
  <2> HIDE DEF dirs, all
  <2>4. Len(<<"Tables">> \o dirs \o <<entry.name>>) >= 3
    BY <2>1, <2>3
  <2>5. Len(<<"Tables", name>>) = 2
    OBVIOUS
  <2> QED
    BY <2>2, <2>4, <2>5
<1> QED
  BY <1>1, <1>2

\* An archive is what was asked for, whatever the release and the requests.
THEOREM ArchivesAsAsked == ArchiveSpec => []ArchiveAsAsked
<1>1. FetchInv => ArchiveAsAsked
  <2> SUFFICES ASSUME FetchInv, NEW f \in Fetches, fetch[f].at = "sent"
               PROVE  /\ Named(f) \cap Tables = fetch[f].ids \cap Tables
                      /\ \A v \in DOMAIN Shelf : Shelf[v] \cap fetch[f].ids # {} => Shelf[v] \ Tables \subseteq Named(f)
                      /\ \A t, u \in Named(f) \cap Tables : fetch[f].names[t] = fetch[f].names[u] => t = u
                      /\ \A t \in Named(f) \cap Tables : <<"Tables", fetch[f].names[t]>> \notin Unpacked(f)
                      /\ \A x \in Named(f) : ArchivedAs(x) \in {"original"} \cup DOMAIN VariationsOf(KindOf[x])
    BY DEF ArchiveAsAsked
  <2>1. GoodFetch(fetch[f]) /\ Named(f) = fetch[f].files
    BY DEF FetchInv, GoodFetch, Named
  <2>2. Selected(fetch[f]) /\ NamedApart(fetch[f])
    BY <2>1 DEF GoodFetch
  <2>3. \A name : <<"Tables", name>> \notin Unpacked(f)
    BY ArchiveAssumption, UnpackedElsewhere DEF Unpacked
  <2>4. \A x \in Named(f) : ArchivedAs(x) \in {"original"} \cup DOMAIN VariationsOf(KindOf[x])
    BY HyperpinIsVariation DEF ArchivedAs
  <2> QED
    BY <2>1, <2>2, <2>3, <2>4 DEF Selected, NamedApart, Named
<1> QED
  BY <1>1, FetchInit, FetchStep, ArchiveAssumption, PTL DEF ArchiveSpec

LEMMA DisjointSum ==
  ASSUME NEW S, IsFiniteSet(S), NEW T, IsFiniteSet(T), S \cap T = {}
  PROVE  IsFiniteSet(S \cup T) /\ Cardinality(S \cup T) = Cardinality(S) + Cardinality(T)
<1>1. Cardinality(S \cup T) = Cardinality(S) + Cardinality(T) - Cardinality(S \cap T) /\ IsFiniteSet(S \cup T)
  BY FS_Union
<1>2. Cardinality(S) \in Nat /\ Cardinality(T) \in Nat /\ Cardinality(S \cap T) = 0
  BY FS_CardinalityType, FS_EmptySet
<1> QED
  BY <1>1, <1>2

-----------------------------------------------------------------------------
(* What is counted: while no increment is lost, the counter of a table is  *)
(* the number of requests of which it has landed, and that of the game has *)
(* the tables of the archives.                                             *)

Landed(x, kind, t) ==
  x.at \in {"counting", "sent", "serving", "served"} /\ t \in x.ids /\ <<kind, t>> \notin x.left
LandedOf(kind, t) == {f \in Fetches : Landed(fetch[f], kind, t)}

InGame(x, t) == x.at \in {"counting", "sent"} /\ t \in x.ids /\ GameCounter \notin x.left
GamePairs == {p \in Fetches \X Tables : InGame(fetch[p[1]], p[2])}

CountsInv ==
  lost = {} =>
    /\ \A f \in Fetches : fetch[f].at # "failing"
    /\ \A t \in Tables : /\ counted[<<"entry", t>>] = Cardinality(LandedOf("entry", t))
                         /\ Cardinality(LandedOf("file", t)) <= counted[<<"file", t>>]
    /\ counted[GameCounter] = Cardinality(GamePairs)

ScoreInv == \A d \in Scored \ raced : score[d] = counted[d]

LEMMA ArchiveFinite ==
  ASSUME ArchiveAssumption
  PROVE  /\ IsFiniteSet(Tables) /\ IsFiniteSet(Fetches \X Tables)
         /\ \A kind, t : IsFiniteSet(LandedOf(kind, t)) /\ Cardinality(LandedOf(kind, t)) \in Nat
         /\ IsFiniteSet(GamePairs) /\ Cardinality(GamePairs) \in Nat
<1>1. IsFiniteSet(Tables)
  BY FS_Subset, Tables \subseteq ShelfFiles DEF ArchiveAssumption, Tables
<1>2. IsFiniteSet(Fetches \X Tables)
  BY <1>1, FS_Product DEF ArchiveAssumption
<1>3. \A kind, t : IsFiniteSet(LandedOf(kind, t))
  <2>1. \A kind, t : LandedOf(kind, t) \subseteq Fetches
    BY DEF LandedOf
  <2> QED
    BY <2>1, FS_Subset DEF ArchiveAssumption
<1>4. IsFiniteSet(GamePairs)
  BY <1>2, FS_Subset, GamePairs \subseteq Fetches \X Tables DEF GamePairs
<1> QED
  BY <1>1, <1>2, <1>3, <1>4, FS_CardinalityType

\* A step of one request counts what is in cs.
LEMMA CountsKept ==
  ASSUME ArchiveAssumption, FetchInv, CountsInv, lost = {}, NEW f \in Fetches, NEW new, new.at # "failing",
         fetch' = [fetch EXCEPT ![f] = new],
         NEW cs, \A c \in Counters : counted'[c] = counted[c] + IF c \in cs THEN Weight(f, c) ELSE 0,
         \A t \in Tables : Landed(new, "entry", t) <=> Landed(fetch[f], "entry", t) \/ <<"entry", t>> \in cs,
         \A t \in Tables : <<"entry", t>> \in cs => ~Landed(fetch[f], "entry", t),
         \A t \in Tables : Landed(new, "file", t) => Landed(fetch[f], "file", t) \/ <<"file", t>> \in cs,
         \A t \in Tables : InGame(new, t) <=> InGame(fetch[f], t) \/ (GameCounter \in cs /\ t \in fetch[f].ids),
         GameCounter \in cs => \A t \in Tables : ~InGame(fetch[f], t)
  PROVE  CountsInv'
<1>0. fetch \in [Fetches -> FetchTypes] /\ counted \in [Counters -> Nat]
  BY DEF FetchInv
<1>1. \A g \in Fetches : fetch'[g] = IF g = f THEN new ELSE fetch[g]
  BY <1>0
<1>2. ASSUME NEW t \in Tables PROVE counted'[<<"entry", t>>] = Cardinality(LandedOf("entry", t)')
  <2> DEFINE c == <<"entry", t>>
  <2>1. c \in Counters /\ Weight(f, c) = 1
    BY DEF Counters, Weight
  <2>2. counted[c] = Cardinality(LandedOf("entry", t))
    BY <1>2 DEF CountsInv
  <2>3. CASE c \in cs
    <3>1. LandedOf("entry", t)' = LandedOf("entry", t) \cup {f} /\ f \notin LandedOf("entry", t)
      BY <1>1, <2>3 DEF LandedOf
    <3>2. Cardinality(LandedOf("entry", t) \cup {f}) = Cardinality(LandedOf("entry", t)) + 1
      BY <3>1, ArchiveFinite, FS_AddElement
    <3> QED
      BY <2>1, <2>2, <2>3, <3>1, <3>2
  <2>4. CASE c \notin cs
    <3>1. LandedOf("entry", t)' = LandedOf("entry", t)
      BY <1>1, <2>4 DEF LandedOf
    <3> QED
      BY <1>0, <2>1, <2>2, <2>4, <3>1
  <2> QED
    BY <2>3, <2>4
<1>3. ASSUME NEW t \in Tables PROVE Cardinality(LandedOf("file", t)') <= counted'[<<"file", t>>]
  <2> DEFINE c == <<"file", t>>
             old == LandedOf("file", t)
             now1 == LandedOf("file", t)'
  <2>1. c \in Counters /\ Weight(f, c) = 1 /\ counted[c] \in Nat
    BY <1>0 DEF Counters, Weight, Tables
  <2>2. Cardinality(old) <= counted[c] /\ IsFiniteSet(old) /\ Cardinality(old) \in Nat
    BY <1>3, ArchiveFinite DEF CountsInv
  <2>3. CASE c \in cs
    <3>1. now1 \subseteq old \cup {f}
      BY <1>1 DEF LandedOf
    <3> HIDE DEF old, now1
    <3>2. IsFiniteSet(old \cup {f}) /\ Cardinality(old \cup {f}) <= Cardinality(old) + 1
      <4>1. /\ IsFiniteSet(old \cup {f})
            /\ Cardinality(old \cup {f}) = IF f \in old THEN Cardinality(old) ELSE Cardinality(old) + 1
        BY <2>2, FS_AddElement
      <4> QED
        BY <2>2, <4>1
    <3>3. Cardinality(now1) <= Cardinality(old \cup {f}) /\ Cardinality(now1) \in Nat /\ Cardinality(old \cup {f}) \in Nat
      BY <3>1, <3>2, FS_Subset, FS_CardinalityType
    <3>4. counted'[c] = counted[c] + 1
      BY <2>1, <2>3
    <3> HIDE DEF c
    <3>5. Cardinality(now1) <= counted'[c]
      BY <2>1, <2>2, <3>2, <3>3, <3>4
    <3> QED
      BY <3>5 DEF now1, c
  <2>4. CASE c \notin cs
    <3>1. now1 \subseteq old
      BY <1>1, <2>4 DEF LandedOf
    <3> HIDE DEF old, now1
    <3>2. Cardinality(now1) <= Cardinality(old) /\ Cardinality(now1) \in Nat
      BY <2>2, <3>1, FS_Subset, FS_CardinalityType
    <3>3. counted'[c] = counted[c]
      BY <2>1, <2>4
    <3> HIDE DEF c
    <3>4. Cardinality(now1) <= counted'[c]
      BY <2>1, <2>2, <3>2, <3>3
    <3> QED
      BY <3>4 DEF now1, c
  <2> QED
    BY <2>3, <2>4
<1>4. counted'[GameCounter] = Cardinality(GamePairs')
  <2>1. GameCounter \in Counters /\ Weight(f, GameCounter) = Cardinality(fetch[f].ids \cap Tables)
    BY DEF Counters, Scored, GameCounter, Weight
  <2>2. counted[GameCounter] = Cardinality(GamePairs)
    BY DEF CountsInv
  <2>3. CASE GameCounter \in cs
    <3> DEFINE more == {f} \X (fetch[f].ids \cap Tables)
    <3>1. GamePairs' = GamePairs \cup more /\ GamePairs \cap more = {}
      BY <1>1, <2>3 DEF GamePairs
    <3>2. IsFiniteSet(more) /\ Cardinality(more) = Cardinality(fetch[f].ids \cap Tables)
      <4>1. IsFiniteSet(fetch[f].ids \cap Tables) /\ Cardinality(fetch[f].ids \cap Tables) \in Nat
        BY ArchiveFinite, FS_Subset, FS_CardinalityType
      <4>2. IsFiniteSet({f}) /\ Cardinality({f}) = 1
        BY FS_Singleton
      <4>3. IsFiniteSet(more) /\ Cardinality(more) = Cardinality({f}) * Cardinality(fetch[f].ids \cap Tables)
        BY <4>1, <4>2, FS_Product
      <4> QED
        BY <4>1, <4>2, <4>3
    <3> HIDE DEF more
    <3>3. Cardinality(GamePairs \cup more) = Cardinality(GamePairs) + Cardinality(more)
      BY <3>1, <3>2, ArchiveFinite, DisjointSum
    <3> QED
      BY <2>1, <2>2, <2>3, <3>1, <3>2, <3>3
  <2>4. CASE GameCounter \notin cs
    <3>1. GamePairs' = GamePairs
      BY <1>1, <2>4 DEF GamePairs
    <3> QED
      BY <1>0, <2>1, <2>2, <2>4, <3>1
  <2> QED
    BY <2>3, <2>4
<1>5. \A g \in Fetches : fetch'[g].at # "failing"
  BY <1>1 DEF CountsInv
<1> QED
  BY <1>2, <1>3, <1>4, <1>5 DEF CountsInv


\* What no request that is not in the middle of counting has a part in.
LEMMA CountsQuiet ==
  ASSUME FetchInv, CountsInv, NEW f \in Fetches, NEW new, new.at # "failing",
         fetch' = [fetch EXCEPT ![f] = new], counted' = counted, lost' = lost,
         \A t \in Tables : \A kind \in {"entry", "file"} : Landed(new, kind, t) <=> Landed(fetch[f], kind, t),
         \A t \in Tables : InGame(new, t) <=> InGame(fetch[f], t)
  PROVE  CountsInv'
<1>1. \A g \in Fetches : fetch'[g] = IF g = f THEN new ELSE fetch[g]
  BY DEF FetchInv
<1>2. \A t \in Tables : LandedOf("entry", t)' = LandedOf("entry", t) /\ LandedOf("file", t)' = LandedOf("file", t)
  <2> SUFFICES ASSUME NEW t \in Tables, NEW kind \in {"entry", "file"} PROVE LandedOf(kind, t)' = LandedOf(kind, t)
    OBVIOUS
  <2>1. Landed(new, kind, t) <=> Landed(fetch[f], kind, t)
    BY Zenon
  <2> QED
    BY <1>1, <2>1 DEF LandedOf, Landed
<1>3. GamePairs' = GamePairs
  BY <1>1 DEF GamePairs, InGame
<1> QED
  BY <1>1, <1>2, <1>3 DEF CountsInv

LEMMA CollectCounts ==
  ASSUME ArchiveAssumption, FetchInv, CountsInv, NEW f \in Fetches, NEW body \in Bodies, NEW dry \in BOOLEAN,
         Collect(f, body, dry)
  PROVE  CountsInv'
<1> DEFINE new == IF body.ids = {} \/ ~body.extras \subseteq Extras \/ Requested(body) = {}
                  THEN [NoFetch EXCEPT !.at = "refused"]
                  ELSE [NoFetch EXCEPT !.at = "collected", !.dry = dry, !.ids = body.ids, !.files = Requested(body),
                                       !.left = ToCount(body), !.seen = Snapshot]
<1>1. fetch' = [fetch EXCEPT ![f] = new] /\ counted' = counted /\ lost' = lost /\ fetch[f].at = "idle"
  BY DEF Collect
<1>2. new.at \in {"refused", "collected"}
  BY DEF NoFetch
<1> HIDE DEF new
<1> QED
  BY <1>1, <1>2, CountsQuiet DEF Landed, InGame

LEMMA ChargeCounts ==
  ASSUME ArchiveAssumption, FetchInv, CountsInv, NEW f \in Fetches, NEW enough \in BOOLEAN, Charge(f, enough)
  PROVE  CountsInv'
<1>1. GoodFetch(fetch[f]) /\ counted' = counted /\ lost' = lost /\ fetch[f].at = "collected"
  BY DEF Charge, FetchInv
<1>2. ASSUME NEW phase \in {"refused", "checked"}, fetch' = [fetch EXCEPT ![f] = [NoFetch EXCEPT !.at = phase]]
      PROVE  CountsInv'
  <2> DEFINE no == [NoFetch EXCEPT !.at = phase]
  <2>1. no.at = phase /\ fetch' = [fetch EXCEPT ![f] = no]
    BY <1>2 DEF NoFetch
  <2> HIDE DEF no
  <2> QED
    BY <1>1, <2>1, CountsQuiet DEF Landed, InGame
<1>3. ASSUME fetch' = [fetch EXCEPT ![f] = [@ EXCEPT !.at = "counting"]] PROVE CountsInv'
  <2> DEFINE new == [fetch[f] EXCEPT !.at = "counting"]
  <2>1. fetch' = [fetch EXCEPT ![f] = new]
    BY <1>3
  <2>2. new.at = "counting" /\ new.left = fetch[f].left /\ new.ids = fetch[f].ids
    BY <1>1 DEF GoodFetch, FetchTypes
  <2> HIDE DEF new
  <2>3. \A t \in Tables : \A kind \in {"entry", "file"} : ~Landed(new, kind, t)
    BY <1>1, <2>2 DEF GoodFetch, Landed
  <2>4. \A t : ~InGame(new, t)
    BY <1>1, <2>2 DEF GoodFetch, InGame
  <2> QED
    BY <1>1, <2>1, <2>2, <2>3, <2>4, CountsQuiet DEF Landed, InGame
<1> QED
  BY <1>2, <1>3 DEF Charge

LEMMA CountDownloadCounts ==
  ASSUME ArchiveAssumption, FetchInv, CountsInv, NEW f \in Fetches, NEW cs, cs \subseteq fetch[f].left,
         NEW failing, CountDownload(f, cs, failing)
  PROVE  CountsInv'
<1> SUFFICES ASSUME lost' = {} PROVE CountsInv'
  BY DEF CountsInv
<1>1. lost = {} /\ failing = {}
  BY DEF CountDownload, Increment
<1>2. GoodFetch(fetch[f]) /\ fetch[f].at = "counting"
  BY <1>1 DEF CountDownload, FetchInv, CountsInv
<1> DEFINE new == [fetch[f] EXCEPT !.left = @ \ cs]
<1>3. fetch' = [fetch EXCEPT ![f] = new]
  BY <1>1, <1>2 DEF CountDownload, GoodFetch, FetchTypes
<1>4. new.at = "counting" /\ new.left = fetch[f].left \ cs /\ new.ids = fetch[f].ids
  BY <1>2 DEF GoodFetch, FetchTypes
<1>5. \A c \in Counters : counted'[c] = counted[c] + IF c \in cs THEN Weight(f, c) ELSE 0
  BY <1>1 DEF CountDownload, Increment
<1> HIDE DEF new
<1>6. \A t \in Tables : <<"entry", t>> \in cs => t \in fetch[f].ids
  BY <1>2 DEF GoodFetch, EntriesAsked
<1>7. \A t \in Tables : Landed(new, "entry", t) <=> Landed(fetch[f], "entry", t) \/ <<"entry", t>> \in cs
  BY <1>2, <1>4, <1>6 DEF Landed
<1>8. \A t \in Tables : <<"entry", t>> \in cs => ~Landed(fetch[f], "entry", t)
  BY DEF Landed
<1>9. \A t \in Tables : Landed(new, "file", t) => Landed(fetch[f], "file", t) \/ <<"file", t>> \in cs
  BY <1>2, <1>4 DEF Landed
<1>10. /\ \A t \in Tables : InGame(new, t) <=> InGame(fetch[f], t) \/ (GameCounter \in cs /\ t \in fetch[f].ids)
       /\ GameCounter \in cs => \A t \in Tables : ~InGame(fetch[f], t)
  BY <1>2, <1>4 DEF InGame
<1> QED
  BY <1>1, <1>3, <1>4, <1>5, <1>7, <1>8, <1>9, <1>10, CountsKept

LEMMA AppendCounts ==
  ASSUME ArchiveAssumption, FetchInv, CountsInv, NEW f \in Fetches, NEW x, AppendTable(f, x) \/ Finalize(f)
  PROVE  CountsInv'
<1>1. GoodFetch(fetch[f]) /\ fetch[f].at = "counting" /\ counted' = counted /\ lost' = lost
  BY DEF AppendTable, Finalize, FetchInv
<1>2. \E new : /\ fetch' = [fetch EXCEPT ![f] = new] /\ new.at \in {"counting", "sent"}
               /\ new.left = fetch[f].left /\ new.ids = fetch[f].ids
  <2>1. ASSUME NEW names, NEW phase \in {"counting", "sent"}, fetch' = [fetch EXCEPT ![f] = [@ EXCEPT !.at = phase, !.names = names]]
        PROVE  \E new : /\ fetch' = [fetch EXCEPT ![f] = new] /\ new.at \in {"counting", "sent"}
                        /\ new.left = fetch[f].left /\ new.ids = fetch[f].ids
    <3> DEFINE new == [fetch[f] EXCEPT !.at = phase, !.names = names]
    <3>1. fetch' = [fetch EXCEPT ![f] = new]
      BY <2>1
    <3>2. new.at = phase /\ new.left = fetch[f].left /\ new.ids = fetch[f].ids
      BY <1>1 DEF GoodFetch, FetchTypes
    <3> HIDE DEF new
    <3> QED
      BY <3>1, <3>2
  <2>2. CASE Finalize(f)
    <3> DEFINE names == [y \in fetch[f].files |->
                           IF y \in fetch[f].files \ Tables THEN <<KindOf[y].base, 0>> ELSE fetch[f].names[y]]
    <3>1. fetch' = [fetch EXCEPT ![f] = [@ EXCEPT !.at = "sent", !.names = names]]
      BY <2>2 DEF Finalize
    <3> HIDE DEF names
    <3> QED
      BY <2>1, <3>1
  <2>3. CASE AppendTable(f, x)
    <3> DEFINE used == {fetch[f].names[y] : y \in Named(f)}
               names == [y \in Named(f) \cup {x} |-> IF y = x THEN FreeName(used, KindOf[x].base) ELSE fetch[f].names[y]]
    <3>1. fetch' = [fetch EXCEPT ![f] = [@ EXCEPT !.names = names]]
      BY <2>3 DEF AppendTable
    <3> HIDE DEF names
    <3>2. [fetch[f] EXCEPT !.names = names] = [fetch[f] EXCEPT !.at = "counting", !.names = names]
      BY <1>1 DEF GoodFetch, FetchTypes
    <3>3. fetch' = [fetch EXCEPT ![f] = [@ EXCEPT !.at = "counting", !.names = names]]
      BY <3>1, <3>2
    <3> QED
      BY <2>1, <3>3
  <2> QED
    BY <2>2, <2>3
<1> QED
  BY <1>1, <1>2, CountsQuiet DEF Landed, InGame

LEMMA ServeFileCounts ==
  ASSUME ArchiveAssumption, FetchInv, CountsInv, NEW f \in Fetches, NEW x \in ShelfFiles, ServeFile(f, x)
  PROVE  CountsInv'
<1> DEFINE versions == {v \in DOMAIN Shelf : x \in Shelf[v] \cap Tables}
           left == ({"entry"} \X ({x} \cap Tables)) \cup ({"version"} \X versions)
                   \cup (IF versions = {} THEN {} ELSE {<<"release", "">>})
           no == [NoFetch EXCEPT !.at = "failed"]
           new == [NoFetch EXCEPT !.at = "serving", !.ids = {x}, !.files = {x}, !.seen = Snapshot, !.left = left]
           cs == {<<"file", x>>}
<1> SUFFICES ASSUME lost' = {} PROVE CountsInv'
  BY DEF CountsInv
<1>1. PICK failing \in SUBSET (cs \cap MayFail) :
        Increment(f, cs, failing) /\ fetch' = [fetch EXCEPT ![f] = IF failing # {} THEN no ELSE new]
  BY DEF ServeFile
<1>2. lost = {} /\ failing = {} /\ fetch[f].at = "idle"
  BY <1>1 DEF Increment, ServeFile
<1>3. fetch' = [fetch EXCEPT ![f] = new]
  BY <1>1, <1>2
<1>4. \A c \in Counters : counted'[c] = counted[c] + IF c \in cs THEN Weight(f, c) ELSE 0
  BY <1>1, <1>2 DEF Increment
<1>5. \A t : <<"entry", t>> \notin cs /\ (<<"file", t>> \in cs <=> t = x) /\ GameCounter \notin cs
  BY DEF GameCounter
<1>6. \A t \in Tables : t = x => <<"entry", t>> \in left
  OBVIOUS
<1> HIDE DEF left, cs
<1>7. new.at = "serving" /\ new.ids = {x} /\ new.left = left
  BY DEF NoFetch
<1> HIDE DEF new
<1>8. \A t \in Tables : ~Landed(new, "entry", t) /\ ~Landed(fetch[f], "entry", t)
  BY <1>2, <1>6, <1>7 DEF Landed
<1>9. \A t \in Tables : Landed(new, "file", t) => <<"file", t>> \in cs
  BY <1>5, <1>7 DEF Landed
<1>10. \A t : ~InGame(new, t) /\ ~InGame(fetch[f], t)
  BY <1>2, <1>7 DEF InGame
<1> QED
  BY <1>2, <1>3, <1>4, <1>5, <1>7, <1>8, <1>9, <1>10, CountsKept

LEMMA CountServedCounts ==
  ASSUME ArchiveAssumption, FetchInv, CountsInv, NEW f \in Fetches, NEW failing, CountServed(f, failing)
  PROVE  CountsInv'
<1> DEFINE no == [NoFetch EXCEPT !.at = "failed"]
           new == [fetch[f] EXCEPT !.left = @ \ NextCounter(f)]
           cs == NextCounter(f)
<1> SUFFICES ASSUME lost' = {} PROVE CountsInv'
  BY DEF CountsInv
<1>1. lost = {} /\ failing = {} /\ Increment(f, cs, failing) /\ fetch[f].at = "serving" /\ GoodFetch(fetch[f])
      /\ fetch[f].left # {}
  BY DEF CountServed, Increment, FetchInv
<1>2. fetch' = [fetch EXCEPT ![f] = new]
  BY <1>1 DEF CountServed
<1>3. \A c \in Counters : counted'[c] = counted[c] + IF c \in cs THEN Weight(f, c) ELSE 0
  BY <1>1 DEF Increment
<1>4. new.at = "serving" /\ new.ids = fetch[f].ids /\ new.left = fetch[f].left \ cs
  BY <1>1 DEF GoodFetch, FetchTypes
<1>5. /\ \A t \in Tables : <<"entry", t>> \in cs <=> <<"entry", t>> \in fetch[f].left
      /\ \A t \in Tables : <<"file", t>> \notin cs
      /\ GameCounter \notin cs
  BY <1>1, NextCounterLeft DEF GoodFetch
<1> HIDE DEF new, cs
<1>6. \A t \in Tables : <<"entry", t>> \in fetch[f].left => t \in fetch[f].ids
  BY <1>1 DEF GoodFetch, EntriesAsked
<1>7. \A t \in Tables : Landed(new, "entry", t) <=> Landed(fetch[f], "entry", t) \/ <<"entry", t>> \in cs
  BY <1>1, <1>4, <1>5, <1>6 DEF Landed
<1>8. \A t \in Tables : <<"entry", t>> \in cs => ~Landed(fetch[f], "entry", t)
  BY <1>5 DEF Landed
<1>9. \A t \in Tables : Landed(new, "file", t) => Landed(fetch[f], "file", t)
  BY <1>1, <1>4, <1>5 DEF Landed, GoodFetch
<1>10. \A t : ~InGame(new, t) /\ ~InGame(fetch[f], t)
  BY <1>1, <1>4 DEF InGame
<1>11. /\ \A t \in Tables : InGame(new, t) <=> InGame(fetch[f], t) \/ (GameCounter \in cs /\ t \in fetch[f].ids)
       /\ GameCounter \in cs => \A t \in Tables : ~InGame(fetch[f], t)
       /\ lost = {} /\ new.at # "failing"
       /\ \A t \in Tables : Landed(new, "file", t) => Landed(fetch[f], "file", t) \/ <<"file", t>> \in cs
  BY <1>1, <1>4, <1>5, <1>9, <1>10
<1> QED
  BY <1>2, <1>3, <1>7, <1>8, <1>11, CountsKept

LEMMA ServedCounts ==
  ASSUME ArchiveAssumption, FetchInv, CountsInv, NEW f \in Fetches, Served(f)
  PROVE  CountsInv'
<1> DEFINE new == [fetch[f] EXCEPT !.at = "served"]
           cs == IF \A x \in fetch[f].files : IsFree(KindOf[x], "original") THEN {} ELSE {<<"user", "">>}
<1> SUFFICES ASSUME lost' = {} PROVE CountsInv'
  BY DEF CountsInv
<1>1. lost = {} /\ fetch' = [fetch EXCEPT ![f] = new] /\ Increment(f, cs, {})
      /\ fetch[f].at = "serving" /\ GoodFetch(fetch[f])
  BY DEF Served, FetchInv, Increment
<1>2. new.at = "served" /\ new.ids = fetch[f].ids /\ new.left = fetch[f].left
  BY <1>1 DEF GoodFetch, FetchTypes
<1>3. \A t : <<"entry", t>> \notin cs /\ <<"file", t>> \notin cs /\ GameCounter \notin cs
  BY DEF GameCounter
<1> HIDE DEF new, cs
<1>4. \A c \in Counters : counted'[c] = counted[c] + IF c \in cs THEN Weight(f, c) ELSE 0
  BY <1>1 DEF Increment
<1>5. \A t : ~InGame(new, t) /\ ~InGame(fetch[f], t)
  BY <1>1, <1>2 DEF InGame
<1>6. \A t, kind : Landed(new, kind, t) <=> Landed(fetch[f], kind, t)
  BY <1>1, <1>2 DEF Landed
<1> QED
  BY <1>1, <1>2, <1>3, <1>4, <1>5, <1>6, CountsKept

LEMMA CountsStep == FetchInv /\ CountsInv /\ [ArchiveStep]_archiveVars => CountsInv'
<1> SUFFICES ASSUME FetchInv, CountsInv, [ArchiveStep]_archiveVars PROVE CountsInv'
  OBVIOUS
<1>1. CASE UNCHANGED archiveVars
  BY <1>1 DEF archiveVars, CountsInv, LandedOf, GamePairs
<1>2. ASSUME NEW f \in Fetches, GiveUp(f) PROVE CountsInv'
  BY <1>2 DEF GiveUp, CountsInv
<1>3. CASE ArchiveStep
  BY <1>2, <1>3, ArchiveSteps, ArchiveAssumption, CollectCounts, ChargeCounts, CountDownloadCounts, AppendCounts,
     ServeFileCounts, CountServedCounts, ServedCounts
<1> QED
  BY <1>1, <1>3

LEMMA ScoreKept ==
  ASSUME FetchInv, ScoreInv, NEW f \in Fetches, NEW cs, NEW failing, Increment(f, cs, failing)
  PROVE  ScoreInv'
<1> DEFINE done == cs \ failing
<1>1. Scored \subseteq Counters
  BY DEF Counters
<1>2. \A d \in Scored : d \notin done => counted'[d] = counted[d] /\ score'[d] = score[d]
  BY <1>1 DEF Increment, FetchInv
<1>3. \A d \in Scored : d \in done => /\ counted'[d] = counted[d] + Weight(f, d)
                                      /\ score'[d] = fetch[f].seen[d] + Weight(f, d)
  BY <1>1 DEF Increment
<1>4. \A d \in Scored \ raced' : d \in done => fetch[f].seen[d] = counted[d]
  BY DEF Increment
<1>5. \A d \in Scored \ raced' : d \notin done => d \notin raced
  BY DEF Increment
<1> HIDE DEF done
<1> QED
  BY <1>2, <1>3, <1>4, <1>5 DEF ScoreInv

LEMMA ScoreStep == FetchInv /\ ScoreInv /\ [ArchiveStep]_archiveVars => ScoreInv'
<1> SUFFICES ASSUME FetchInv, ScoreInv, [ArchiveStep]_archiveVars PROVE ScoreInv'
  OBVIOUS
<1>1. ASSUME UNCHANGED <<counted, score, raced>> PROVE ScoreInv'
  BY <1>1 DEF ScoreInv
<1>2. ASSUME NEW f \in Fetches, NEW cs, NEW failing, CountDownload(f, cs, failing) PROVE ScoreInv'
  BY <1>2, ScoreKept DEF CountDownload
<1>3. ASSUME NEW f \in Fetches, NEW x, ServeFile(f, x) PROVE ScoreInv'
  BY <1>3, ScoreKept DEF ServeFile
<1>4. ASSUME NEW f \in Fetches, NEW failing, CountServed(f, failing) PROVE ScoreInv'
  BY <1>4, ScoreKept DEF CountServed
<1>5. ASSUME NEW f \in Fetches, Served(f) PROVE ScoreInv'
  BY <1>5, ScoreKept DEF Served
<1>6. CASE UNCHANGED archiveVars
  BY <1>1, <1>6 DEF archiveVars
<1>7. CASE ArchiveStep
  BY <1>1, <1>2, <1>3, <1>4, <1>5, <1>7, ArchiveSteps DEF Collect, Charge, GiveUp, AppendTable, Finalize
<1> QED
  BY <1>6, <1>7

LEMMA CountsInit == ArchiveAssumption /\ ArchiveInit => CountsInv /\ ScoreInv
<1> SUFFICES ASSUME ArchiveAssumption, ArchiveInit PROVE CountsInv /\ ScoreInv
  OBVIOUS
<1>1. \A f \in Fetches : fetch[f].at = "idle"
  BY DEF ArchiveInit, NoFetch
<1>2. \A kind, t : LandedOf(kind, t) = {}
  BY <1>1 DEF LandedOf, Landed
<1>3. GamePairs = {}
  BY <1>1 DEF GamePairs, InGame
<1>4. /\ \A t \in Tables : counted[<<"entry", t>>] = 0 /\ counted[<<"file", t>>] = 0
      /\ \A d \in Scored : counted[d] = 0 /\ score[d] = 0
      /\ GameCounter \in Scored
  BY DEF ArchiveInit, Counters, Tables, Scored, GameCounter
<1>5. CountsInv
  <2>1. /\ \A f \in Fetches : fetch[f].at # "failing"
        /\ \A t \in Tables : /\ counted[<<"entry", t>>] = 0 /\ LandedOf("entry", t) = {}
                             /\ counted[<<"file", t>>] = 0 /\ LandedOf("file", t) = {}
        /\ counted[GameCounter] = 0 /\ Cardinality({}) = 0
    BY <1>1, <1>2, <1>4, FS_EmptySet
  <2>2. \A t \in Tables : Cardinality(LandedOf("entry", t)) = 0 /\ Cardinality(LandedOf("file", t)) = 0
    BY <2>1
  <2>3. Cardinality(GamePairs) = 0
    BY <1>3, <2>1
  <2> QED
    BY <2>1, <2>2, <2>3 DEF CountsInv
<1> QED
  BY <1>4, <1>5 DEF ScoreInv

\* Pairs, counted by their second half.
LEMMA PairTotal ==
  ASSUME NEW F, IsFiniteSet(F), NEW T, IsFiniteSet(T), NEW P \in SUBSET (F \X T)
  PROVE  Total([t \in T |-> Cardinality({f \in F : <<f, t>> \in P})], T) = Cardinality(P)
<1> DEFINE W == [t \in T |-> Cardinality({f \in F : <<f, t>> \in P})]
           over(s) == {p \in P : p[2] \in s}
           g == [s \in SUBSET T |-> Cardinality(over(s))]
<1>1. \A s : IsFiniteSet(over(s)) /\ Cardinality(over(s)) \in Nat
  BY FS_Product, FS_Subset, FS_CardinalityType
<1>2. ASSUME NEW t \in T PROVE W[t] \in Nat /\ W[t] = Cardinality(over({t}))
  <2> DEFINE S == {f \in F : <<f, t>> \in P}
  <2>1. over({t}) = S \X {t}
    OBVIOUS
  <2>2. IsFiniteSet(S) /\ Cardinality(S) \in Nat
    BY FS_Subset, FS_CardinalityType
  <2>4. W[t] = Cardinality(S)
    OBVIOUS
  <2> HIDE DEF S, W
  <2>3. Cardinality(S \X {t}) = Cardinality(S) * Cardinality({t}) /\ Cardinality({t}) = 1
    BY <2>2, FS_Product, FS_Singleton
  <2>5. Cardinality(over({t})) = Cardinality(S \X {t})
    BY <2>1
  <2> HIDE DEF over
  <2>6. Cardinality(over({t})) = Cardinality(S)
    BY <2>2, <2>3, <2>5
  <2> QED
    BY <2>2, <2>4, <2>6
<1>3. ASSUME NEW s \in SUBSET T, s # {} PROVE g[s] = W[Pick(s)] + g[s \ {Pick(s)}]
  <2> DEFINE x == Pick(s)
             rest == s \ {x}
  <2>1. x \in s
    BY <1>3, Picked
  <2> HIDE DEF x
  <2>2. over(s) = over({x}) \cup over(rest) /\ over({x}) \cap over(rest) = {}
    BY <2>1
  <2>3. Cardinality(over(s)) = Cardinality(over({x})) + Cardinality(over(rest))
    <3> HIDE DEF over, rest
    <3> QED
      BY <1>1, <2>2, DisjointSum
  <2>4. g[s] = W[x] + g[rest]
    BY <1>2, <2>1, <2>3
  <2> QED
    BY <2>4 DEF x
<1>4. g[{}] = 0
  BY FS_EmptySet
<1>5. SumsUp(g, W, T)
  <2> HIDE DEF W, over
  <2> QED
    BY <1>3, <1>4 DEF SumsUp
<1>6. Weighed(W, T)
  <2> HIDE DEF W
  <2> QED
    BY <1>2 DEF Weighed
<1>7. g[T] = Cardinality(P)
  <2>1. over(T) = P
    OBVIOUS
  <2> QED
    BY <2>1
<1>8. g[T] = Total(W, T)
  <2> HIDE DEF g, W
  <2> QED
    BY <1>5, <1>6, OnlyTotalsSumUp
<1> QED
  BY <1>7, <1>8

LEMMA EntriesTotal ==
  ASSUME ArchiveAssumption, FetchInv
  PROVE  MapThenSumSet(LAMBDA t : counted[<<"entry", t>>], Tables) = Total([t \in Tables |-> counted[<<"entry", t>>]], Tables)
<1> DEFINE W == [t \in Tables |-> counted[<<"entry", t>>]]
           step(g) == [s \in SUBSET Tables |-> IF s = {} THEN 0 ELSE counted[<<"entry", Pick(s)>>] + g[s \ {Pick(s)}]]
           sum == CHOOSE g : g = step(g)
<1>0. Weighed(W, Tables)
  BY ArchiveFinite DEF FetchInv, Weighed, Counters
<1>1. MapThenSumSet(LAMBDA t : counted[<<"entry", t>>], Tables) = sum[Tables]
  BY DEF MapThenSumSet, MapThenFoldSet, Pick
<1>2. ASSUME NEW g PROVE g = step(g) <=> SumsUp(g, W, Tables)
  <2>1. \A s \in SUBSET Tables : s # {} => counted[<<"entry", Pick(s)>>] = W[Pick(s)]
    BY Picked
  <2> QED
    BY <2>1 DEF SumsUp
<1>3. sum = step(sum)
  <2>1. Totals(W, Tables) = step(Totals(W, Tables))
    BY <1>0, <1>2, TotalsSumUp
  <2> HIDE DEF step
  <2> QED
    BY <2>1
<1>4. SumsUp(sum, W, Tables)
  BY <1>2, <1>3
<1> HIDE DEF sum, step, W
<1>5. sum[Tables] = Total(W, Tables)
  BY <1>0, <1>4, OnlyTotalsSumUp
<1> QED
  BY <1>1, <1>5 DEF W

Alone == {f \in Fetches : fetch[f].at \in {"serving", "served"} /\ fetch[f].ids \subseteq Tables}

\* With all requests through, a table was downloaded in an archive or on its own.
LEMMA PairsDownloaded ==
  ASSUME ArchiveAssumption, FetchInv, CountsInv, lost = {}, \A f \in Fetches : fetch[f].left = {}
  PROVE  LET pairs == {p \in Fetches \X Tables : Landed(fetch[p[1]], "entry", p[2])} IN
         Cardinality(pairs) = Cardinality(GamePairs) + Cardinality(Alone)
<1> DEFINE pairs == {p \in Fetches \X Tables : Landed(fetch[p[1]], "entry", p[2])}
           singles == {p \in pairs : fetch[p[1]].at \in {"serving", "served"}}
           first == [p \in singles |-> p[1]]
<1>1. pairs = GamePairs \cup singles /\ GamePairs \cap singles = {}
  BY DEF GamePairs, InGame, Landed
<1>2. IsFiniteSet(singles) /\ IsFiniteSet(GamePairs)
  <2>1. singles \subseteq Fetches \X Tables
    OBVIOUS
  <2> HIDE DEF singles
  <2> QED
    BY <2>1, ArchiveFinite, FS_Subset
<1>3. \A f \in Fetches : fetch[f].at \in {"serving", "served"} => \E y : fetch[f].ids = {y}
  BY DEF FetchInv, GoodFetch
<1>4. \A p \in singles : first[p] \in Alone /\ fetch[p[1]].ids = {p[2]} /\ p = <<p[1], p[2]>>
  <2> SUFFICES ASSUME NEW p \in singles PROVE first[p] \in Alone /\ fetch[p[1]].ids = {p[2]} /\ p = <<p[1], p[2]>>
    OBVIOUS
  <2>1. PICK f \in Fetches, t \in Tables : p = <<f, t>> /\ Landed(fetch[f], "entry", t) /\ fetch[f].at \in {"serving", "served"}
    OBVIOUS
  <2>2. t \in fetch[f].ids /\ fetch[f].ids = {t}
    BY <1>3, <2>1 DEF Landed
  <2> QED
    BY <2>1, <2>2 DEF Alone
<1>5. \A f \in Alone : \E p \in singles : first[p] = f
  <2> SUFFICES ASSUME NEW f \in Alone PROVE \E p \in singles : first[p] = f
    OBVIOUS
  <2>1. PICK y : fetch[f].ids = {y}
    BY <1>3 DEF Alone
  <2>2. <<f, y>> \in singles
    BY <2>1 DEF Alone, Landed
  <2> QED
    BY <2>2
<1>6. first \in Bijection(singles, Alone)
  <2>1. ASSUME NEW p \in singles, NEW q \in singles, first[p] = first[q] PROVE p = q
    <3>1. p[1] = q[1]
      BY <2>1
    <3>2. /\ fetch[p[1]].ids = {p[2]} /\ p = <<p[1], p[2]>>
          /\ fetch[q[1]].ids = {q[2]} /\ q = <<q[1], q[2]>>
      BY <1>4
    <3> HIDE DEF singles, first
    <3>3. p[2] = q[2]
      BY <3>1, <3>2
    <3> QED
      BY <3>1, <3>2, <3>3
  <2>2. first \in [singles -> Alone]
    BY <1>4
  <2> HIDE DEF singles, first
  <2> QED
    BY <1>5, <2>1, <2>2 DEF Bijection, Injection, Surjection, IsInjective
<1> HIDE DEF singles, pairs, first
<1>7. Cardinality(singles) = Cardinality(Alone)
  BY <1>2, <1>6, FS_Bijection DEF ExistsBijection
<1>8. Cardinality(GamePairs \cup singles) = Cardinality(GamePairs) + Cardinality(singles)
  BY <1>1, <1>2, DisjointSum
<1>9. Cardinality(pairs) = Cardinality(GamePairs) + Cardinality(Alone)
  BY <1>1, <1>7, <1>8
<1> QED
  BY <1>9 DEF pairs

\* Whatever was downloaded together and alone: the counters agree.
THEOREM DownloadsAlwaysAgree == ArchiveSpec => []DownloadsAgree
<1>1. FetchInv /\ CountsInv /\ ScoreInv => DownloadsAgree
  <2> SUFFICES ASSUME FetchInv, CountsInv, ScoreInv, lost = {}, \A f \in Fetches : fetch[f].left = {}
               PROVE  /\ MapThenSumSet(LAMBDA t : counted[<<"entry", t>>], Tables) = counted[GameCounter] + Cardinality(Alone)
                      /\ \A t \in Tables : counted[<<"entry", t>>] <= counted[<<"file", t>>]
                      /\ \A d \in Scored \ raced : score[d] = counted[d]
    BY DEF DownloadsAgree, GameCounter, Alone
  <2> DEFINE pairs == {p \in Fetches \X Tables : Landed(fetch[p[1]], "entry", p[2])}
             W == [t \in Tables |-> Cardinality({f \in Fetches : <<f, t>> \in pairs})]
  <2>1. W = [t \in Tables |-> counted[<<"entry", t>>]]
    <3>1. \A t \in Tables : {f \in Fetches : <<f, t>> \in pairs} = LandedOf("entry", t)
      BY DEF LandedOf
    <3> QED
      BY <3>1 DEF CountsInv
  <2>2. Total(W, Tables) = Cardinality(pairs)
    <3>1. pairs \in SUBSET (Fetches \X Tables) /\ IsFiniteSet(Fetches) /\ IsFiniteSet(Tables)
      BY ArchiveFinite, ArchiveAssumption DEF ArchiveAssumption
    <3> HIDE DEF pairs
    <3> QED
      BY <3>1, PairTotal
  <2>3. Cardinality(pairs) = counted[GameCounter] + Cardinality(Alone)
    BY ArchiveAssumption, PairsDownloaded DEF CountsInv
  <2>4. ASSUME NEW t \in Tables PROVE counted[<<"entry", t>>] <= counted[<<"file", t>>]
    <3>1. LandedOf("entry", t) \subseteq LandedOf("file", t)
      BY DEF LandedOf, Landed
    <3>2. Cardinality(LandedOf("entry", t)) <= Cardinality(LandedOf("file", t))
      BY <3>1, ArchiveFinite, ArchiveAssumption, FS_Subset
    <3>3. counted[<<"file", t>>] \in Nat
      BY DEF FetchInv, Counters, Tables
    <3>4. /\ Cardinality(LandedOf("entry", t)) \in Nat /\ Cardinality(LandedOf("file", t)) \in Nat
          /\ counted[<<"entry", t>>] = Cardinality(LandedOf("entry", t))
          /\ Cardinality(LandedOf("file", t)) <= counted[<<"file", t>>]
      BY ArchiveFinite, ArchiveAssumption DEF CountsInv
    <3> QED
      BY <3>2, <3>3, <3>4
  <2> HIDE DEF W, pairs
  <2> QED
    BY <2>1, <2>2, <2>3, <2>4, EntriesTotal, ArchiveAssumption DEF ScoreInv
<1> QED
  BY <1>1, FetchInit, FetchStep, CountsInit, CountsStep, ScoreStep, ArchiveAssumption, PTL DEF ArchiveSpec

-----------------------------------------------------------------------------
(* Every variation has exactly one processor, and what it is made from is  *)
(* the original or another variation of the file.                          *)

ImageNames ==
  {"full", "medium", "medium-2x", "small", "small-2x", "square", "square-2x",
   "landscape", "landscape-2x", "hyperpin"}

\* What there is to know of a file that is accepted.
AnImage(file) ==
  /\ file.mime \in {"image/jpeg", "image/png"}
  /\ Defined(file) \subseteq ImageNames
  /\ \A v \in Defined(file) : SourceOf(file, v) = "original"

ABackglass(file) ==
  /\ file.type = "backglass" /\ file.mime = "application/x-directb2s"
  /\ VariationsOf(file) = B2sSizes

ATable(file) ==
  /\ file.type = "release" /\ file.mime = "application/x-visual-pinball-table"
  /\ VariationsOf(file) = FromOriginal({"gltf"})

AVideo(file) ==
  /\ file.type \in {"playfield-fs", "playfield-ws"} /\ file.mime \in {"video/mp4", "video/avi"}
  /\ VariationsOf(file) = FromOriginal({"still", "small-rotated"})

NoVariations(file) == VariationsOf(file) = << >>

LEMMA NothingIsFromNothing == DOMAIN << >> = {}
OBVIOUS

LEMMA UploadedAs ==
  ASSUME NEW file \in KnownFiles
  PROVE  /\ file = [type |-> file.type, mime |-> file.mime, category |-> file.category]
         /\ file.mime \in MimeTypes \ {"model/gltf-binary"}
         /\ file.category = CategoryOf[file.mime]
         /\ \E t \in FileTypes : t.name = file.type /\ file.category \in t.categories
BY DEF KnownFiles, Uploadable, Accepted, TypesNamed

LEMMA VariationsAre ==
  ASSUME NEW file, NEW t \in FileTypes, t.name = file.type, file.category \in t.categories
  PROVE  VariationsOf(file) = t.variations
<1>1. ASSUME NEW u \in FileTypes, u.name = file.type, file.category \in u.categories
      PROVE  u.variations = t.variations
  BY <1>1 DEF FileTypes
<1>2. t \in TypesNamed(file.type)
  BY DEF TypesNamed
<1>3. \A u \in TypesNamed(file.type) : file.category \in u.categories => u.variations = t.variations
  BY <1>1 DEF TypesNamed
<1> QED
  BY <1>2, <1>3 DEF VariationsOf

LEMMA FileShapes ==
  ASSUME NEW file \in KnownFiles
  PROVE  AnImage(file) \/ ABackglass(file) \/ ATable(file) \/ AVideo(file) \/ NoVariations(file)
<1>1. PICK t \in FileTypes : t.name = file.type /\ file.category \in t.categories
  BY UploadedAs
<1>2. VariationsOf(file) = t.variations
  BY <1>1, VariationsAre
<1>3. /\ file.category = "image" => file.mime \in {"image/jpeg", "image/png"}
      /\ file.category = "video" => file.mime \in {"video/mp4", "video/avi"}
      /\ file.category = "directb2s" => file.mime = "application/x-directb2s"
      /\ file.category = "table" => file.mime = "application/x-visual-pinball-table"
  BY UploadedAs DEF CategoryOf, MimeTypes
<1>4. CASE t.variations = << >>
  BY <1>2, <1>4 DEF NoVariations
<1>5. CASE t.categories = {"image"} /\ t.variations # << >>
  <2>1. DOMAIN t.variations \subseteq ImageNames /\ \A v \in DOMAIN t.variations : t.variations[v] = "original"
    BY <1>5 DEF FileTypes, ImageSizes, PlayfieldSizes, FromOriginal, ImageNames
  <2> QED
    BY <1>1, <1>2, <1>3, <1>5, <2>1 DEF AnImage, Defined, SourceOf
<1>6. CASE t.categories = {"directb2s"}
  BY <1>1, <1>2, <1>3, <1>6 DEF ABackglass, FileTypes
<1>7. CASE t.categories = {"table"}
  <2>1. t.name = "release" /\ t.variations = FromOriginal({"gltf"})
    BY <1>7 DEF FileTypes
  <2> QED
    BY <1>1, <1>2, <1>3, <1>7, <2>1 DEF ATable
<1>8. CASE t.categories = {"video"}
  BY <1>1, <1>2, <1>3, <1>8 DEF AVideo, FileTypes
<1>9. \/ t.variations = << >> \/ t.categories = {"image"} \/ t.categories = {"directb2s"}
      \/ t.categories = {"table"} \/ t.categories = {"video"}
  BY DEF FileTypes
<1> QED
  BY <1>4, <1>5, <1>6, <1>7, <1>8, <1>9

LEMMA MimeTypesOf ==
  ASSUME NEW file \in KnownFiles, NEW item
  PROVE  /\ MimeType(file, item) \in MimeTypes
         /\ MimeCategory(file, item) \in {CategoryOf[m] : m \in MimeTypes}
<1>1. MimeType(file, item) \in MimeTypes
  BY UploadedAs DEF MimeType, MimeTypes
<1> QED
  BY <1>1 DEF MimeCategory

LEMMA B2sNames ==
  /\ DOMAIN B2sSizes = {"full", "medium-2x", "medium", "small-2x", "small"}
  /\ B2sSizes["full"] = "original" /\ B2sSizes["medium-2x"] = "original"
  /\ B2sSizes["medium"] = "medium-2x" /\ B2sSizes["small-2x"] = "medium-2x"
  /\ B2sSizes["small"] = "small-2x"
BY DEF B2sSizes

LEMMA FewAreFinite ==
  ASSUME NEW a, NEW b, NEW c, NEW d, NEW e
  PROVE  IsFiniteSet({a, b, c, d, e})
<1>1. IsFiniteSet({a}) /\ IsFiniteSet({b})
  BY FS_Singleton
<1>2. IsFiniteSet({a, b})
  <2>1. {a, b} = {a} \cup {b}
    OBVIOUS
  <2> QED
    BY <1>1, <2>1, FS_AddElement
<1>3. IsFiniteSet({a, b, c})
  <2>1. {a, b, c} = {a, b} \cup {c}
    OBVIOUS
  <2> QED
    BY <1>2, <2>1, FS_AddElement
<1>4. IsFiniteSet({a, b, c, d})
  <2>1. {a, b, c, d} = {a, b, c} \cup {d}
    OBVIOUS
  <2> QED
    BY <1>3, <2>1, FS_AddElement
<1>5. {a, b, c, d, e} = {a, b, c, d} \cup {e}
  OBVIOUS
<1> QED
  BY <1>4, <1>5, FS_AddElement

\* The sources of variations lead to the original, over two others at most.
LEMMA SourcesAre ==
  ASSUME NEW file \in KnownFiles
  PROVE  /\ IsFiniteSet(Defined(file)) /\ "original" \notin Defined(file)
         /\ \A v \in Defined(file) : SourceOf(file, v) \in {"original"} \cup Defined(file)
         /\ \/ \A v \in Defined(file) : SourceOf(file, v) = "original"
            \/ ABackglass(file)
<1>1. IsFiniteSet(ImageNames)
  <2>1. ImageNames = {"full", "medium", "medium-2x", "small", "small-2x"}
                       \cup {"square", "square-2x", "landscape", "landscape-2x", "hyperpin"}
    BY DEF ImageNames
  <2>2. /\ IsFiniteSet({"full", "medium", "medium-2x", "small", "small-2x"})
        /\ IsFiniteSet({"square", "square-2x", "landscape", "landscape-2x", "hyperpin"})
    BY FewAreFinite
  <2> QED
    BY <2>1, <2>2, FS_Union
<1>2. CASE AnImage(file)
  <2>1. IsFiniteSet(Defined(file))
    BY <1>1, <1>2, FS_Subset DEF AnImage
  <2>2. "original" \notin Defined(file)
    BY <1>2 DEF AnImage, ImageNames
  <2> QED
    BY <1>2, <2>1, <2>2 DEF AnImage
<1>3. CASE ABackglass(file)
  <2>1. Defined(file) = {"full", "medium-2x", "medium", "small-2x", "small"}
    BY <1>3, B2sNames DEF ABackglass, Defined
  <2>2. IsFiniteSet(Defined(file))
    <3>1. IsFiniteSet({"full", "medium-2x", "medium", "small-2x", "small"})
      BY FewAreFinite
    <3> QED
      BY <2>1, <3>1
  <2>3. \A v \in Defined(file) : SourceOf(file, v) \in {"original"} \cup Defined(file)
    BY <1>3, <2>1, B2sNames DEF ABackglass, SourceOf
  <2> QED
    BY <1>3, <2>1, <2>2, <2>3
<1>4. ASSUME NEW names, VariationsOf(file) = FromOriginal(names), IsFiniteSet(names), "original" \notin names
      PROVE  /\ IsFiniteSet(Defined(file)) /\ "original" \notin Defined(file)
             /\ \A v \in Defined(file) : SourceOf(file, v) = "original"
  BY <1>4 DEF FromOriginal, Defined, SourceOf
<1>5. IsFiniteSet({"gltf"}) /\ IsFiniteSet({"still", "small-rotated"})
  <2>1. {"still", "small-rotated"} = {"still", "small-rotated", "small-rotated", "small-rotated", "small-rotated"}
    OBVIOUS
  <2>2. IsFiniteSet({"still", "small-rotated", "small-rotated", "small-rotated", "small-rotated"})
    BY FewAreFinite
  <2> QED
    BY <2>1, <2>2, FS_Singleton
<1>6. CASE ATable(file)
  <2>1. VariationsOf(file) = FromOriginal({"gltf"}) /\ "original" \notin {"gltf"}
    BY <1>6 DEF ATable
  <2> QED
    BY <1>4, <1>5, <2>1
<1>7. CASE AVideo(file)
  <2>1. VariationsOf(file) = FromOriginal({"still", "small-rotated"}) /\ "original" \notin {"still", "small-rotated"}
    BY <1>7 DEF AVideo
  <2> QED
    BY <1>4, <1>5, <2>1
<1>8. CASE NoVariations(file)
  BY <1>8, FS_EmptySet, NothingIsFromNothing DEF NoVariations, Defined
<1> QED
  BY <1>2, <1>3, <1>6, <1>7, <1>8, FileShapes

LEMMA OneProcessor ==
  ASSUME NEW file \in KnownFiles, NEW v \in Defined(file)
  PROVE  \E p \in DOMAIN Order : CreationProcessors(file, SourceOf(file, v), v) = {p}
<1>1. CASE AnImage(file)
  <2>1. SourceOf(file, v) = "original" /\ MimeCategory(file, "original") = "image"
    BY <1>1 DEF AnImage, MimeCategory, MimeType, CategoryOf, MimeTypes
  <2>2. MimeType(file, "original") # "application/x-directb2s"
    BY <1>1 DEF AnImage, MimeType
  <2>3. CreationProcessors(file, "original", v) = {"image.variation"}
    BY <2>1, <2>2 DEF CreationProcessors, IsVideo
  <2> QED
    BY <2>1, <2>3 DEF Order
<1>2. CASE ABackglass(file)
  <2>1. /\ MimeType(file, "original") = "application/x-directb2s"
        /\ MimeCategory(file, "original") = "directb2s"
    BY <1>2 DEF ABackglass, MimeCategory, MimeType, CategoryOf, MimeTypes
  <2>2. \A w \in Defined(file) : MimeType(file, w) = "image/jpeg" /\ MimeCategory(file, w) = "image"
    BY <1>2, B2sNames DEF ABackglass, MimeCategory, MimeType, CategoryOf, MimeTypes, Defined
  <2>3. CASE SourceOf(file, v) = "original"
    <3>1. CreationProcessors(file, "original", v) = {"directb2s.thumb"}
      BY <2>1, <2>2 DEF CreationProcessors, IsVideo
    <3> QED
      BY <2>3, <3>1 DEF Order
  <2>4. CASE SourceOf(file, v) \in Defined(file)
    <3>1. CreationProcessors(file, SourceOf(file, v), v) = {"image.variation"}
      BY <2>1, <2>2, <2>4 DEF CreationProcessors, IsVideo
    <3> QED
      BY <3>1 DEF Order
  <2> QED
    BY <2>3, <2>4, SourcesAre
<1>3. CASE ATable(file)
  <2>1. v = "gltf" /\ SourceOf(file, v) = "original"
    BY <1>3 DEF ATable, FromOriginal, Defined, SourceOf
  <2>2. /\ MimeType(file, "original") = "application/x-visual-pinball-table"
        /\ MimeCategory(file, "original") = "table"
    BY <1>3 DEF ATable, MimeCategory, MimeType, CategoryOf, MimeTypes
  <2>3. CreationProcessors(file, "original", v) = {"vpt.gltf"}
    BY <2>2 DEF CreationProcessors, IsVideo
  <2> QED
    BY <2>1, <2>3 DEF Order
<1>4. CASE AVideo(file)
  <2>1. v \in {"still", "small-rotated"} /\ SourceOf(file, v) = "original"
    BY <1>4 DEF AVideo, FromOriginal, Defined, SourceOf
  <2>2. /\ MimeType(file, "original") # "application/x-directb2s"
        /\ MimeCategory(file, "original") = "video"
    BY <1>4 DEF AVideo, MimeCategory, MimeType, CategoryOf, MimeTypes
  <2>3. MimeCategory(file, "still") = "image" /\ MimeCategory(file, "small-rotated") = "video"
    BY <1>4 DEF AVideo, MimeCategory, MimeType, CategoryOf, MimeTypes
  <2>4. CreationProcessors(file, "original", "still") = {"video.screenshot"}
    BY <2>2, <2>3 DEF CreationProcessors, IsVideo
  <2>5. CreationProcessors(file, "original", "small-rotated") = {"video.thumb"}
    BY <2>2, <2>3 DEF CreationProcessors, IsVideo
  <2> QED
    BY <2>1, <2>4, <2>5 DEF Order
<1>5. CASE NoVariations(file)
  BY <1>5, NothingIsFromNothing DEF NoVariations, Defined
<1> QED
  BY <1>1, <1>2, <1>3, <1>4, <1>5, FileShapes

-----------------------------------------------------------------------------
(* What AddJobs leaves in the queues, in whatever order it takes the jobs: *)
(* what was there and the jobs, each in its queue.                         *)

PipelineJobs ==
  [type : {"creation", "optimization"}, item : {"original"} \cup AllItems,
   processor : DOMAIN Order, src : {"original"} \cup AllItems]

Placed(job, file, queues) == [queues EXCEPT ![QueueFor(file, job)] = Insert(@, job)]

Places(g, queues, file, S) ==
  g = [s \in SUBSET S |->
         IF s = {} THEN queues ELSE Placed(Pick(s), file, g[s \ {Pick(s)}])]

LEMMA PlacesAgree ==
  ASSUME NEW S, IsFiniteSet(S), NEW T, NEW queues, NEW file, NEW g, NEW h,
         Places(g, queues, file, S), Places(h, queues, file, T)
  PROVE  \A s \in (SUBSET S) \cap (SUBSET T) : g[s] = h[s]
<1> DEFINE bad == {s \in (SUBSET S) \cap (SUBSET T) : g[s] # h[s]}
<1> SUFFICES ASSUME bad # {} PROVE FALSE
  OBVIOUS
<1>1. IsWellFoundedOn(StrictSubsetOrdering(S), SUBSET S)
  BY FS_StrictSubsetOrderingWellFounded, FS_FiniteSubsetsOfFinite
<1>2. PICK s \in bad : \A t \in bad : <<t, s>> \notin StrictSubsetOrdering(S)
  <2>1. bad \subseteq SUBSET S
    OBVIOUS
  <2> HIDE DEF bad
  <2> QED
    BY <1>1, <2>1, WFMin
<1>3. s # {}
  BY <1>2 DEF Places
<1>4. g[s \ {Pick(s)}] = h[s \ {Pick(s)}]
  <2>1. <<s \ {Pick(s)}, s>> \in StrictSubsetOrdering(S)
    BY <1>2, <1>3, Picked DEF StrictSubsetOrdering
  <2> QED
    BY <1>2, <2>1
<1>5. s \in SUBSET S /\ s \in SUBSET T /\ g[s] # h[s]
  BY <1>2
<1>6. g[s] = Placed(Pick(s), file, g[s \ {Pick(s)}])
  BY <1>3, <1>5 DEF Places
<1>7. h[s] = Placed(Pick(s), file, h[s \ {Pick(s)}])
  BY <1>3, <1>5 DEF Places
<1> QED
  BY <1>4, <1>5, <1>6, <1>7

LEMMA PlacesExist ==
  ASSUME NEW S, IsFiniteSet(S), NEW queues, NEW file
  PROVE  \E g : Places(g, queues, file, S)
<1> DEFINE bad == {s \in SUBSET S : ~\E g : Places(g, queues, file, s)}
<1>0. SUFFICES ASSUME bad # {} PROVE FALSE
  OBVIOUS
<1>1. IsWellFoundedOn(StrictSubsetOrdering(S), SUBSET S)
  BY FS_StrictSubsetOrderingWellFounded, FS_FiniteSubsetsOfFinite
<1>2. PICK u \in bad : \A t \in bad : <<t, u>> \notin StrictSubsetOrdering(S)
  <2>1. bad \subseteq SUBSET S
    OBVIOUS
  <2> HIDE DEF bad
  <2> QED
    BY <1>0, <1>1, <2>1, WFMin
<1> DEFINE part(s) == CHOOSE g : Places(g, queues, file, s)
<1>3. ASSUME NEW s \in SUBSET u, s # u PROVE Places(part(s), queues, file, s) /\ IsFiniteSet(s)
  <2>1. <<s, u>> \in StrictSubsetOrdering(S) /\ s \in SUBSET S
    BY <1>2, <1>3 DEF StrictSubsetOrdering
  <2>2. \E g : Places(g, queues, file, s)
    BY <1>2, <2>1
  <2> QED
    BY <2>1, <2>2, FS_Subset
<1> HIDE DEF part
<1> DEFINE value(s) == IF s = {} THEN queues ELSE Placed(Pick(s), file, part(s \ {Pick(s)})[s \ {Pick(s)}])
           all == [s \in SUBSET u |-> value(s)]
<1>4. ASSUME NEW s \in SUBSET u, s # {}
      PROVE  all[s \ {Pick(s)}] = part(s \ {Pick(s)})[s \ {Pick(s)}]
  <2> DEFINE r == s \ {Pick(s)}
  <2>1. r \in SUBSET u /\ r # u /\ all[r] = value(r)
    BY <1>4, Picked
  <2>2. Places(part(r), queues, file, r)
    BY <1>3, <2>1
  <2>3. CASE r = {}
    BY <2>1, <2>2, <2>3 DEF Places
  <2>4. CASE r # {}
    <3> DEFINE q == r \ {Pick(r)}
    <3>1. q \in SUBSET u /\ q # u /\ q \in SUBSET r
      BY <2>1, <2>4, Picked
    <3>2. Places(part(q), queues, file, q) /\ IsFiniteSet(q)
      BY <1>3, <3>1
    <3>3. part(q)[q] = part(r)[q]
      <4> HIDE DEF q, r
      <4>1. q \in (SUBSET q) \cap (SUBSET r)
        BY <3>1
      <4> QED
        BY <2>2, <3>2, <4>1, PlacesAgree
    <3>4. part(r)[r] = Placed(Pick(r), file, part(r)[q])
      BY <2>2, <2>4 DEF Places
    <3> QED
      BY <2>1, <2>4, <3>3, <3>4
  <2> QED
    BY <2>3, <2>4
<1>5. Places(all, queues, file, u)
  BY <1>4 DEF Places
<1> QED
  BY <1>2, <1>5

LEMMA JobsArePlaced ==
  ASSUME NEW S, IsFiniteSet(S), NEW queues, NEW file
  PROVE  \E g : Places(g, queues, file, S) /\ AddJobs(queues, file, S) = g[S]
<1> DEFINE step(g) == [s \in SUBSET S |->
                         IF s = {} THEN queues ELSE Placed(Pick(s), file, g[s \ {Pick(s)}])]
           iter == CHOOSE g : g = step(g)
<1>1. AddJobs(queues, file, S) = iter[S]
  BY DEF AddJobs, FoldSet, MapThenFoldSet, Pick, Placed
<1>2. ASSUME NEW g PROVE g = step(g) <=> Places(g, queues, file, S)
  BY DEF Places
<1>3. iter = step(iter)
  <2>1. \E g : g = step(g)
    BY <1>2, PlacesExist
  <2> HIDE DEF step
  <2> QED
    BY <2>1
<1>4. Places(iter, queues, file, S)
  BY <1>2, <1>3
<1> HIDE DEF iter, step
<1> QED
  BY <1>1, <1>4

LEMMA InsertPlaces ==
  ASSUME NEW queue \in Seq(PipelineJobs), NEW job \in PipelineJobs
  PROVE  /\ Insert(queue, job) \in Seq(PipelineJobs)
         /\ ToSet(Insert(queue, job)) = ToSet(queue) \cup {job}
<1> DEFINE before == {i \in DOMAIN queue : Order[queue[i].processor] <= Order[job.processor]}
           n == Cardinality(before)
<1>1. n \in 0 .. Len(queue)
  <2>1. Len(queue) \in Nat /\ before \subseteq 1 .. Len(queue)
    OBVIOUS
  <2> HIDE DEF before
  <2>2. IsFiniteSet(1 .. Len(queue)) /\ Cardinality(1 .. Len(queue)) = Len(queue)
    <3>1. /\ IsFiniteSet(1 .. Len(queue))
          /\ Cardinality(1 .. Len(queue)) = IF 1 > Len(queue) THEN 0 ELSE Len(queue) - 1 + 1
      BY <2>1, FS_Interval
    <3> QED
      BY <2>1, <3>1
  <2>3. IsFiniteSet(before) /\ Cardinality(before) <= Len(queue)
    BY <2>1, <2>2, FS_Subset
  <2> QED
    BY <2>1, <2>3, FS_CardinalityType
<1>2. Insert(queue, job) = SubSeq(queue, 1, n) \o <<job>> \o SubSeq(queue, n + 1, Len(queue))
  <2>1. Insert(queue, job) = InsertAt(queue, n + 1, job)
    BY DEF Insert
  <2> HIDE DEF n
  <2>2. (n + 1) - 1 = n
    BY <1>1
  <2> QED
    BY <2>1, <2>2 DEF InsertAt
<1> HIDE DEF n
<1> DEFINE front == SubSeq(queue, 1, n)
           back == SubSeq(queue, n + 1, Len(queue))
<1>3. front \in Seq(PipelineJobs) /\ Len(front) = n /\ \A i \in 1 .. n : front[i] = queue[i]
  BY <1>1
<1>4. back \in Seq(PipelineJobs) /\ Len(back) = Len(queue) - n
      /\ \A i \in 1 .. (Len(queue) - n) : back[i] = queue[n + i]
  BY <1>1
<1> HIDE DEF front, back
<1> DEFINE most == front \o <<job>>
           all == most \o back
<1>5. /\ most \in Seq(PipelineJobs) /\ Len(most) = n + 1
      /\ \A i \in 1 .. (n + 1) : most[i] = IF i <= n THEN queue[i] ELSE job
  BY <1>1, <1>3
<1> HIDE DEF most
<1>6. /\ all \in Seq(PipelineJobs) /\ Len(all) = Len(queue) + 1 /\ DOMAIN all = 1 .. (Len(queue) + 1)
      /\ \A i \in 1 .. (Len(queue) + 1) :
           all[i] = IF i <= n THEN queue[i] ELSE IF i = n + 1 THEN job ELSE queue[i - 1]
  <2>1. all \in Seq(PipelineJobs) /\ Len(all) = Len(queue) + 1 /\ DOMAIN all = 1 .. (Len(queue) + 1)
    <3>1. all \in Seq(PipelineJobs) /\ Len(all) = Len(most) + Len(back)
      BY <1>4, <1>5, ConcatProperties
    <3>2. Len(most) + Len(back) = Len(queue) + 1 /\ DOMAIN all = 1 .. Len(all)
      BY <1>1, <1>4, <1>5, <3>1
    <3> QED
      BY <3>1, <3>2
  <2>2. ASSUME NEW i \in 1 .. (Len(queue) + 1)
        PROVE  all[i] = IF i <= n + 1 THEN most[i] ELSE back[i - (n + 1)]
    BY <1>1, <1>4, <1>5
  <2>3. ASSUME NEW i \in 1 .. (Len(queue) + 1), i > n + 1
        PROVE  back[i - (n + 1)] = queue[i - 1]
    <3>1. i - (n + 1) \in 1 .. (Len(queue) - n) /\ n + (i - (n + 1)) = i - 1
      BY <1>1, <2>3
    <3> QED
      BY <1>4, <3>1
  <2> HIDE DEF all
  <2> QED
    BY <1>1, <1>5, <2>1, <2>2, <2>3
<1> HIDE DEF all
<1>7. ToSet(all) = ToSet(queue) \cup {job}
  <2>1. ASSUME NEW x \in ToSet(all) PROVE x \in ToSet(queue) \cup {job}
    <3>1. PICK i \in 1 .. (Len(queue) + 1) : x = all[i]
      BY <1>6 DEF ToSet
    <3> QED
      BY <1>1, <1>6, <3>1 DEF ToSet
  <2>2. ASSUME NEW x \in ToSet(queue) PROVE x \in ToSet(all)
    <3>1. PICK i \in 1 .. Len(queue) : x = queue[i]
      BY DEF ToSet
    <3>2. \/ i <= n /\ all[i] = x
          \/ i > n /\ all[i + 1] = x
      BY <1>1, <1>6, <3>1
    <3>3. i \in DOMAIN all /\ i + 1 \in DOMAIN all
      BY <1>6, <3>1
    <3> QED
      BY <3>2, <3>3 DEF ToSet
  <2>3. job \in ToSet(all)
    <3>1. n + 1 \in 1 .. (Len(queue) + 1) /\ all[n + 1] = job
      BY <1>1, <1>6
    <3> QED
      BY <1>6, <3>1 DEF ToSet
  <2> QED
    BY <2>1, <2>2, <2>3
<1> QED
  BY <1>2, <1>6, <1>7 DEF all, most, front, back

Queued(queues, q, S, file) == ToSet(queues[q]) \cup {job \in S : QueueFor(file, job) = q}

LEMMA AddJobsAdds ==
  ASSUME NEW Q, NEW queues \in [Q -> Seq(PipelineJobs)], NEW file,
         NEW S \in SUBSET PipelineJobs, IsFiniteSet(S), \A job \in S : QueueFor(file, job) \in Q
  PROVE  /\ AddJobs(queues, file, S) \in [Q -> Seq(PipelineJobs)]
         /\ \A q \in Q : ToSet(AddJobs(queues, file, S)[q]) = Queued(queues, q, S, file)
<1>1. PICK g : Places(g, queues, file, S) /\ AddJobs(queues, file, S) = g[S]
  BY JobsArePlaced
<1> DEFINE good(s) == /\ g[s] \in [Q -> Seq(PipelineJobs)]
                      /\ \A q \in Q : ToSet(g[s][q]) = Queued(queues, q, s, file)
           bad == {s \in SUBSET S : ~good(s)}
<1>2. SUFFICES ASSUME bad # {} PROVE FALSE
  BY <1>1
<1>3. IsWellFoundedOn(StrictSubsetOrdering(S), SUBSET S)
  BY FS_StrictSubsetOrderingWellFounded, FS_FiniteSubsetsOfFinite
<1>4. PICK s \in bad : \A t \in bad : <<t, s>> \notin StrictSubsetOrdering(S)
  <2>1. bad \subseteq SUBSET S
    OBVIOUS
  <2> HIDE DEF bad
  <2> QED
    BY <1>2, <1>3, <2>1, WFMin
<1>5. s # {}
  <2>1. g[{}] = queues
    BY <1>1 DEF Places
  <2>2. good({})
    BY <2>1 DEF Queued
  <2> QED
    BY <1>4, <2>2
<1> DEFINE rest == s \ {Pick(s)}
<1>6. Pick(s) \in S /\ rest \in SUBSET S /\ s = rest \cup {Pick(s)}
  BY <1>4, <1>5, Picked
<1>7. good(rest)
  <2>1. <<rest, s>> \in StrictSubsetOrdering(S)
    BY <1>4, <1>5, Picked DEF StrictSubsetOrdering
  <2>2. rest \notin bad
    BY <1>4, <2>1
  <2> HIDE DEF good, rest
  <2> QED
    BY <1>6, <2>2
<1>8. g[s] = Placed(Pick(s), file, g[rest])
  BY <1>1, <1>4, <1>5 DEF Places
<1>9. good(s)
  <2> DEFINE at0 == QueueFor(file, Pick(s))
             old == g[rest]
  <2>1. at0 \in Q /\ Pick(s) \in PipelineJobs
    BY <1>6
  <2>2. old \in [Q -> Seq(PipelineJobs)] /\ \A q \in Q : ToSet(old[q]) = Queued(queues, q, rest, file)
    BY <1>7
  <2>3. /\ Insert(old[at0], Pick(s)) \in Seq(PipelineJobs)
        /\ ToSet(Insert(old[at0], Pick(s))) = ToSet(old[at0]) \cup {Pick(s)}
    BY <2>1, <2>2, InsertPlaces
  <2>4. g[s] = [old EXCEPT ![at0] = Insert(old[at0], Pick(s))]
    BY <1>8 DEF Placed
  <2> HIDE DEF old
  <2>5. g[s] \in [Q -> Seq(PipelineJobs)]
    BY <2>1, <2>2, <2>3, <2>4
  <2>6. ASSUME NEW q \in Q PROVE ToSet(g[s][q]) = Queued(queues, q, s, file)
    <3>1. CASE q = at0
      <4>1. ToSet(g[s][q]) = Queued(queues, q, rest, file) \cup {Pick(s)}
        BY <2>1, <2>2, <2>3, <2>4, <3>1
      <4> HIDE DEF rest
      <4> QED
        BY <1>6, <3>1, <4>1 DEF Queued
    <3>2. CASE q # at0
      <4>1. ToSet(g[s][q]) = Queued(queues, q, rest, file)
        BY <2>1, <2>2, <2>4, <3>2
      <4> HIDE DEF rest
      <4> QED
        BY <1>6, <3>2, <4>1 DEF Queued
    <3> QED
      BY <3>1, <3>2
  <2> QED
    BY <2>5, <2>6
<1> QED
  BY <1>4, <1>9

LEMMA ImageFinite ==
  ASSUME NEW S, IsFiniteSet(S), NEW f
  PROVE  IsFiniteSet({f[x] : x \in S})
<1> DEFINE T == {f[x] : x \in S}
           g == [x \in S |-> f[x]]
<1>1. g \in Surjection(S, T)
  BY DEF Surjection
<1> HIDE DEF g
<1> QED
  BY <1>1, FS_Surjection

PipelineQueues == QueuesOf({CategoryOf[m] : m \in MimeTypes})
Items(file) == {"original"} \cup Defined(file)

LEMMA DefinedAreItems ==
  ASSUME NEW file \in KnownFiles
  PROVE  Defined(file) \subseteq AllItems
BY DEF AllItems

\* The jobs an item leads to when it is there.
LEMMA ProcessedJobs ==
  ASSUME NEW file \in KnownFiles, NEW item \in Items(file)
  PROVE  /\ Processed(file, item) \subseteq PipelineJobs /\ IsFiniteSet(Processed(file, item))
         /\ \A job \in Processed(file, item) :
              /\ QueueFor(file, job) \in PipelineQueues
              /\ job.src = item
              /\ \/ /\ job.type = "creation" /\ job.item \in Defined(file)
                    /\ SourceOf(file, job.item) = item
                 \/ job.type = "optimization" /\ job.item = item
         /\ \A v \in Defined(file) : SourceOf(file, v) = item =>
              \E job \in Processed(file, item) : job.type = "creation" /\ job.item = v
<1> DEFINE deps == Dependencies(file, item)
           made1 == {d \in deps : Cardinality(CreationProcessors(file, item, d)) = 1}
           create == [v \in made1 |-> Job("creation", v, CHOOSE p \in CreationProcessors(file, item, v) : TRUE, item)]
           optims == OptimizationProcessors(file, item)
           optimize == [p \in optims |-> Job("optimization", item, p, item)]
<1>1. deps \subseteq Defined(file) /\ \A v \in deps : SourceOf(file, v) = item
  BY DEF Dependencies
<1>2. Creations(file, item, deps) = {create[v] : v \in made1}
  BY DEF Creations
<1>3. Optimizations(file, item) = {optimize[p] : p \in optims}
  BY DEF Optimizations
<1>4. IsFiniteSet({create[v] : v \in made1})
  <2>1. IsFiniteSet(made1)
    BY <1>1, SourcesAre, FS_Subset
  <2> HIDE DEF create, made1
  <2> QED
    BY <2>1, ImageFinite
<1>5. IsFiniteSet({optimize[p] : p \in optims})
  <2>1. optims \subseteq {"directb2s.optimization", "image.optimization", "video.optimization",
                          "vpt.blockindex", "vpt.blockindex"}
    BY DEF OptimizationProcessors
  <2>2. IsFiniteSet({"directb2s.optimization", "image.optimization", "video.optimization",
                     "vpt.blockindex", "vpt.blockindex"})
    BY FewAreFinite
  <2>3. IsFiniteSet(optims)
    BY <2>1, <2>2, FS_Subset
  <2> HIDE DEF optimize, optims
  <2> QED
    BY <2>3, ImageFinite
<1>6. ASSUME NEW v \in deps
      PROVE  \E p \in DOMAIN Order : CreationProcessors(file, item, v) = {p} /\ v \in made1
                                     /\ create[v] = Job("creation", v, p, item)
  <2>1. PICK p \in DOMAIN Order : CreationProcessors(file, item, v) = {p}
    BY <1>1, OneProcessor
  <2>2. Cardinality({p}) = 1
    BY FS_Singleton
  <2>3. (CHOOSE x \in {p} : TRUE) = p
    OBVIOUS
  <2> QED
    BY <2>1, <2>2, <2>3
<1>7. optims \subseteq DOMAIN Order
  BY DEF OptimizationProcessors, Order
<1>8. item \in {"original"} \cup AllItems /\ Defined(file) \subseteq AllItems
  BY DefinedAreItems DEF Items
<1>9. ASSUME NEW job \in {create[v] : v \in made1}
      PROVE  /\ job \in PipelineJobs /\ job.src = item /\ job.type = "creation"
             /\ job.item \in Defined(file) /\ SourceOf(file, job.item) = item
  <2>1. PICK v \in made1 : job = create[v]
    BY <1>9
  <2>2. v \in deps
    OBVIOUS
  <2>3. PICK p \in DOMAIN Order : job = Job("creation", v, p, item)
    BY <1>6, <2>1, <2>2
  <2> QED
    BY <1>1, <1>8, <2>2, <2>3 DEF Job, PipelineJobs
<1>10. ASSUME NEW job \in {optimize[p] : p \in optims}
       PROVE  job \in PipelineJobs /\ job.src = item /\ job.type = "optimization" /\ job.item = item
  BY <1>7, <1>8 DEF Job, PipelineJobs
<1>11. Processed(file, item) = {create[v] : v \in made1} \cup {optimize[p] : p \in optims}
  BY <1>2, <1>3 DEF Processed
<1>12. ASSUME NEW v \in Defined(file), SourceOf(file, v) = item
       PROVE  \E job \in {create[w] : w \in made1} : job.type = "creation" /\ job.item = v
  <2>1. v \in deps
    BY <1>12 DEF Dependencies
  <2>2. v \in made1 /\ create[v].type = "creation" /\ create[v].item = v
    BY <1>6, <2>1 DEF Job
  <2> HIDE DEF create, made1
  <2> QED
    BY <2>2
<1> HIDE DEF create, made1, optimize, optims
<1>13. ASSUME NEW job \in PipelineJobs
       PROVE  QueueFor(file, job) \in PipelineQueues
  BY <1>13, MimeTypesOf DEF QueueFor, PipelineQueues, QueuesOf, PipelineJobs
<1>14. IsFiniteSet(Processed(file, item))
  BY <1>4, <1>5, <1>11, FS_Union
<1>15. ASSUME NEW job \in Processed(file, item)
       PROVE  /\ job \in PipelineJobs /\ QueueFor(file, job) \in PipelineQueues /\ job.src = item
              /\ \/ /\ job.type = "creation" /\ job.item \in Defined(file)
                    /\ SourceOf(file, job.item) = item
                 \/ job.type = "optimization" /\ job.item = item
  BY <1>9, <1>10, <1>11, <1>13
<1>16. ASSUME NEW v \in Defined(file), SourceOf(file, v) = item
       PROVE  \E job \in Processed(file, item) : job.type = "creation" /\ job.item = v
  BY <1>11, <1>12, <1>16
<1> QED
  BY <1>14, <1>15, <1>16

-----------------------------------------------------------------------------
(* A variation that is not made of the original as it is has its job, or   *)
(* waits for the one it is made from.                                      *)

\* What a job needs is there.
Ready(job) ==
  /\ job.src = "original" \/ made[job.src] > 0
  /\ \/ /\ job.type = "creation" /\ job.item \in Defined(upload)
        /\ job.src = SourceOf(upload, job.item)
     \/ job.type = "optimization" /\ job.item \in Items(upload) /\ job.src = job.item

PipelineTypes ==
  /\ upload \in KnownFiles
  /\ at \in {"uploaded", "processed", "rotated", "reprocessed"}
  /\ disk = IF at \in {"rotated", "reprocessed"} THEN 2 ELSE 1
  /\ made \in [AllItems -> 0 .. disk]
  /\ waiting \in [PipelineQueues -> Seq(PipelineJobs)]
  /\ active \subseteq [job : PipelineJobs, version : 1 .. disk]

OnTheWay ==
  /\ at \in {"rotated", "reprocessed"} =>
       upload.type \in {"playfield-fs", "playfield-ws"} /\ upload.category = "image"
  /\ at = "uploaded" =>
       /\ active = {} /\ \A q \in PipelineQueues : ToSet(waiting[q]) = {}
       /\ \A v \in AllItems : made[v] = 0

JobsReady ==
  /\ \A q \in PipelineQueues : \A job \in ToSet(waiting[q]) : Ready(job) /\ QueueFor(upload, job) = q
  /\ \A run \in active : Ready(run.job)

Coming(v) ==
  \/ \E q \in PipelineQueues : \E job \in ToSet(waiting[q]) : job.type = "creation" /\ job.item = v
  \/ \E run \in active : run.job.type = "creation" /\ run.job.item = v /\ run.version = disk

MadeOrComing ==
  /\ at = "processed" => \A v \in Defined(upload) :
       \/ made[v] = disk \/ Coming(v)
       \/ SourceOf(upload, v) # "original" /\ made[SourceOf(upload, v)] = 0
  /\ at = "reprocessed" => \A v \in Defined(upload) :
       made[v] = disk \/ Coming(v) \/ (v \in stale /\ made[v] > 0)

OldOnesStale ==
  /\ at = "reprocessed" =>
       \A run \in active : run.job.type = "creation" /\ run.version < disk => run.job.item \in stale
  /\ at # "reprocessed" => stale = {}

PipelineInv == PipelineTypes /\ OnTheWay /\ JobsReady /\ MadeOrComing /\ OldOnesStale

LEMMA TakenApart ==
  ASSUME NEW S, NEW s \in Seq(S), s # << >>
  PROVE  /\ Head(s) \in S /\ Head(s) \in ToSet(s) /\ Tail(s) \in Seq(S)
         /\ ToSet(s) = {Head(s)} \cup ToSet(Tail(s))
<1>1. Len(s) \in Nat \ {0} /\ DOMAIN s = 1 .. Len(s) /\ Head(s) = s[1] /\ s[1] \in S
  BY EmptySeq
<1>2. /\ Tail(s) \in Seq(S) /\ DOMAIN Tail(s) = 1 .. (Len(s) - 1)
      /\ \A i \in 1 .. (Len(s) - 1) : Tail(s)[i] = s[i + 1]
  BY <1>1
<1>3. ASSUME NEW x \in ToSet(s) PROVE x \in {Head(s)} \cup ToSet(Tail(s))
  <2>1. PICK i \in 1 .. Len(s) : x = s[i]
    BY <1>1 DEF ToSet
  <2>2. CASE i = 1
    BY <1>1, <2>1, <2>2
  <2>3. CASE i # 1
    <3>1. i - 1 \in 1 .. (Len(s) - 1) /\ (i - 1) + 1 = i
      BY <1>1, <2>3
    <3>2. Tail(s)[i - 1] = x /\ i - 1 \in DOMAIN Tail(s)
      BY <1>2, <2>1, <3>1
    <3> QED
      BY <3>2 DEF ToSet
  <2> QED
    BY <2>2, <2>3
<1>4. Head(s) \in ToSet(s)
  BY <1>1 DEF ToSet
<1>5. ASSUME NEW x \in ToSet(Tail(s)) PROVE x \in ToSet(s)
  <2>1. PICK i \in 1 .. (Len(s) - 1) : x = Tail(s)[i]
    BY <1>2 DEF ToSet
  <2>2. i + 1 \in DOMAIN s /\ s[i + 1] = x
    BY <1>1, <1>2, <2>1
  <2> QED
    BY <2>2 DEF ToSet
<1> QED
  BY <1>1, <1>2, <1>3, <1>4, <1>5

LEMMA NothingWaits ==
  ASSUME NEW s, s = << >>
  PROVE  ToSet(s) = {}
BY DEF ToSet

\* The types a rotated image may have are images whose variations are made of the original.
LEMMA RotatedIsImage ==
  ASSUME PipelineTypes, OnTheWay, at \in {"rotated", "reprocessed"}
  PROVE  \A v \in Defined(upload) : SourceOf(upload, v) = "original"
<1>1. upload \in KnownFiles /\ upload.category = "image"
  BY DEF PipelineTypes, OnTheWay
<1>2. ~ABackglass(upload)
  BY <1>1, UploadedAs DEF ABackglass, CategoryOf, MimeTypes
<1> QED
  BY <1>1, <1>2, SourcesAre

LEMMA PipelineStart == PipelineInit => PipelineInv
<1> SUFFICES ASSUME PipelineInit PROVE PipelineInv
  OBVIOUS
<1>1. \A q \in PipelineQueues : waiting[q] = << >> /\ << >> \in Seq(PipelineJobs)
  BY DEF PipelineInit, PipelineQueues
<1>2. PipelineTypes
  BY <1>1 DEF PipelineInit, PipelineTypes, PipelineQueues
<1>3. \A q \in PipelineQueues : ToSet(waiting[q]) = {}
  BY <1>1, NothingWaits
<1> QED
  BY <1>2, <1>3 DEF PipelineInit, PipelineInv, OnTheWay, JobsReady, MadeOrComing, OldOnesStale

\* What is added to the queues.
LEMMA JobsAdded ==
  ASSUME PipelineTypes, NEW item \in Items(upload)
  PROVE  LET queues == AddJobs(waiting, upload, Processed(upload, item)) IN
         /\ queues \in [PipelineQueues -> Seq(PipelineJobs)]
         /\ \A q \in PipelineQueues : \A job \in ToSet(queues[q]) :
              \/ job \in ToSet(waiting[q])
              \/ job \in Processed(upload, item) /\ QueueFor(upload, job) = q
         /\ \A q \in PipelineQueues : ToSet(waiting[q]) \subseteq ToSet(queues[q])
         /\ \A v \in Defined(upload) : SourceOf(upload, v) = item =>
              \E q \in PipelineQueues : \E job \in ToSet(queues[q]) :
                job.type = "creation" /\ job.item = v
<1> DEFINE S == Processed(upload, item)
           queues == AddJobs(waiting, upload, S)
<1>1. /\ S \in SUBSET PipelineJobs /\ IsFiniteSet(S)
      /\ \A job \in S : QueueFor(upload, job) \in PipelineQueues
      /\ \A v \in Defined(upload) : SourceOf(upload, v) = item =>
           \E job \in S : job.type = "creation" /\ job.item = v
  BY ProcessedJobs DEF PipelineTypes
<1>2. waiting \in [PipelineQueues -> Seq(PipelineJobs)]
  BY DEF PipelineTypes
<1> HIDE DEF S
<1>3. /\ queues \in [PipelineQueues -> Seq(PipelineJobs)]
      /\ \A q \in PipelineQueues : ToSet(queues[q]) = Queued(waiting, q, S, upload)
  BY <1>1, <1>2, AddJobsAdds
<1> HIDE DEF queues
<1> QED
  BY <1>1, <1>3 DEF Queued, queues, S

LEMMA NeededIsThere ==
  ASSUME PipelineTypes, OnTheWay, NEW job \in PipelineJobs, Ready(job)
  PROVE  LET version == IF job.src = "original" THEN disk ELSE made[job.src] IN
         /\ version \in 1 .. disk
         /\ at \in {"processed", "reprocessed"} /\ job.type = "creation" => version = disk
         /\ at = "uploaded" => job.src = "original"
<1>1. disk \in 1 .. 2 /\ (at # "reprocessed" /\ at # "rotated" => disk = 1)
  BY DEF PipelineTypes
<1>2. job.src # "original" => made[job.src] \in 1 .. disk /\ at # "uploaded"
  BY <1>1 DEF PipelineTypes, PipelineJobs, Ready, OnTheWay
<1>3. at = "reprocessed" /\ job.type = "creation" => job.src = "original"
  BY RotatedIsImage DEF Ready
<1> QED
  BY <1>1, <1>2, <1>3

LEMMA PipelineQueueUpload ==
  ASSUME PipelineInv, QueueUpload
  PROVE  PipelineInv'
<1> DEFINE S == Processed(upload, "original")
           queues == AddJobs(waiting, upload, S)
<1>1. /\ at = "uploaded" /\ at' = "processed" /\ waiting' = queues
      /\ upload' = upload /\ disk' = disk /\ active' = active /\ made' = made /\ stale' = stale
  BY DEF QueueUpload
<1>2. PipelineTypes /\ OnTheWay /\ JobsReady /\ OldOnesStale /\ upload \in KnownFiles /\ "original" \in Items(upload)
  BY DEF PipelineInv, PipelineTypes, Items
<1>3. /\ queues \in [PipelineQueues -> Seq(PipelineJobs)]
      /\ \A q \in PipelineQueues : \A job \in ToSet(queues[q]) :
           job \in ToSet(waiting[q]) \/ (job \in S /\ QueueFor(upload, job) = q)
      /\ \A v \in Defined(upload) : SourceOf(upload, v) = "original" =>
           \E q \in PipelineQueues : \E job \in ToSet(queues[q]) : job.type = "creation" /\ job.item = v
  BY <1>2, JobsAdded
<1>4. \A job \in S : Ready(job)
  BY <1>2, ProcessedJobs DEF Ready
<1> HIDE DEF S, queues
<1>5. PipelineTypes'
  BY <1>1, <1>2, <1>3 DEF PipelineTypes
<1>6. JobsReady'
  <2>1. \A job : Ready(job) => Ready(job)'
    BY <1>1 DEF Ready
  <2> QED
    BY <1>1, <1>2, <1>3, <1>4, <2>1 DEF JobsReady, QueueFor
<1>7. OnTheWay'
  BY <1>1 DEF OnTheWay
<1>8. MadeOrComing'
  <2> SUFFICES ASSUME NEW v \in Defined(upload)
               PROVE  Coming(v)' \/ (SourceOf(upload, v) # "original" /\ made[SourceOf(upload, v)] = 0)
    BY <1>1 DEF MadeOrComing
  <2>1. CASE SourceOf(upload, v) = "original"
    BY <1>1, <1>3, <2>1 DEF Coming
  <2>2. CASE SourceOf(upload, v) # "original"
    <3>1. SourceOf(upload, v) \in AllItems
      BY <1>2, <2>2, SourcesAre, DefinedAreItems
    <3> QED
      BY <1>1, <1>2, <2>2, <3>1 DEF OnTheWay
  <2> QED
    BY <2>1, <2>2
<1>9. OldOnesStale'
  BY <1>1, <1>2 DEF OldOnesStale
<1> QED
  BY <1>5, <1>6, <1>7, <1>8, <1>9 DEF PipelineInv

LEMMA PipelineRotate ==
  ASSUME PipelineInv, NEW type \in {"playfield-fs", "playfield-ws"}, RotateUpload(type)
  PROVE  PipelineInv'
<1>1. /\ at = "processed" /\ upload.type = "playfield" /\ at' = "rotated" /\ disk' = 2
      /\ upload' = [upload EXCEPT !.type = type]
      /\ waiting' = waiting /\ active' = active /\ made' = made /\ stale' = stale
  BY DEF RotateUpload
<1>2. PipelineTypes /\ JobsReady /\ OldOnesStale /\ upload \in KnownFiles /\ disk = 1
  BY <1>1 DEF PipelineInv, PipelineTypes
<1>3. PICK t \in FileTypes : t.name = upload.type /\ upload.category \in t.categories
  BY <1>2, UploadedAs
<1>4. upload.category = "image" /\ VariationsOf(upload) = FromOriginal({"landscape", "landscape-2x"})
  <2>1. t.categories = {"image"} /\ t.variations = FromOriginal({"landscape", "landscape-2x"})
    BY <1>1, <1>3 DEF FileTypes
  <2> QED
    BY <1>3, <2>1, VariationsAre
<1>5. /\ upload' = [type |-> type, mime |-> upload.mime, category |-> "image"]
      /\ upload.mime \in MimeTypes \ {"model/gltf-binary"} /\ CategoryOf[upload.mime] = "image"
  BY <1>1, <1>2, <1>4, UploadedAs
<1> DEFINE new == [name |-> type, categories |-> {"image"}, variations |-> PlayfieldSizes]
<1>6. new \in FileTypes /\ new.name = upload'.type /\ upload'.category \in new.categories
  BY <1>5 DEF FileTypes
<1>7. upload' \in KnownFiles
  <2>1. Accepted(upload'.type, upload'.category)
    BY <1>6 DEF Accepted, TypesNamed
  <2>2. upload' \in Uploadable
    BY <1>5, <1>6 DEF Uploadable
  <2> QED
    BY <1>5, <2>1, <2>2 DEF KnownFiles
<1>8. VariationsOf(upload') = PlayfieldSizes
  <2> HIDE DEF new
  <2>1. VariationsOf(upload') = new.variations
    BY <1>6, VariationsAre
  <2> QED
    BY <2>1 DEF new
<1>9. /\ Defined(upload) = {"landscape", "landscape-2x"} /\ Defined(upload) \subseteq Defined(upload')
      /\ \A v \in Defined(upload) : SourceOf(upload, v) = "original" /\ SourceOf(upload', v) = "original"
  BY <1>4, <1>8 DEF FromOriginal, PlayfieldSizes, Defined, SourceOf
<1>10. \A item \in Items(upload) : MimeType(upload', item) = MimeType(upload, item)
  BY <1>1, <1>5, <1>9 DEF MimeType, Items
<1>11. ASSUME NEW job, Ready(job)
       PROVE  Ready(job)' /\ QueueFor(upload', job) = QueueFor(upload, job)
  <2>1. job.item \in Items(upload)
    BY <1>11 DEF Ready, Items
  <2>2. QueueFor(upload', job) = QueueFor(upload, job)
    BY <1>10, <2>1 DEF QueueFor, MimeCategory
  <2>3. Ready(job)'
    BY <1>1, <1>9, <1>11 DEF Ready, Items
  <2> QED
    BY <2>2, <2>3
<1>12. JobsReady'
  BY <1>1, <1>2, <1>11 DEF JobsReady
<1>13. PipelineTypes'
  <2>1. made' \in [AllItems -> 0 .. 2]
    BY <1>1, <1>2 DEF PipelineTypes
  <2>2. active' \subseteq [job : PipelineJobs, version : 1 .. 2]
    BY <1>1, <1>2 DEF PipelineTypes
  <2> QED
    BY <1>1, <1>2, <1>7, <2>1, <2>2 DEF PipelineTypes
<1> QED
  BY <1>1, <1>2, <1>5, <1>12, <1>13 DEF PipelineInv, OnTheWay, MadeOrComing, OldOnesStale

LEMMA PipelineQueueRotated ==
  ASSUME PipelineInv, QueueRotated
  PROVE  PipelineInv'
<1> DEFINE S == Processed(upload, "original")
           queues == AddJobs(waiting, upload, S)
<1>1. /\ at = "rotated" /\ at' = "reprocessed" /\ waiting' = queues
      /\ stale' = {run.job.item : run \in {r \in active : r.job.type = "creation" /\ r.version < disk}}
      /\ upload' = upload /\ disk' = disk /\ active' = active /\ made' = made
  BY DEF QueueRotated
<1>2. PipelineTypes /\ OnTheWay /\ JobsReady /\ upload \in KnownFiles /\ "original" \in Items(upload)
  BY DEF PipelineInv, PipelineTypes, Items
<1>3. /\ queues \in [PipelineQueues -> Seq(PipelineJobs)]
      /\ \A q \in PipelineQueues : \A job \in ToSet(queues[q]) :
           job \in ToSet(waiting[q]) \/ (job \in S /\ QueueFor(upload, job) = q)
      /\ \A v \in Defined(upload) : SourceOf(upload, v) = "original" =>
           \E q \in PipelineQueues : \E job \in ToSet(queues[q]) : job.type = "creation" /\ job.item = v
  BY <1>2, JobsAdded
<1>4. \A job \in S : Ready(job)
  BY <1>2, ProcessedJobs DEF Ready
<1> HIDE DEF S, queues
<1>5. PipelineTypes'
  BY <1>1, <1>2, <1>3 DEF PipelineTypes
<1>6. JobsReady'
  <2>1. \A job : Ready(job) => Ready(job)'
    BY <1>1 DEF Ready
  <2> QED
    BY <1>1, <1>2, <1>3, <1>4, <2>1 DEF JobsReady, QueueFor
<1>7. OnTheWay'
  BY <1>1, <1>2 DEF OnTheWay
<1>8. MadeOrComing'
  <2> SUFFICES ASSUME NEW v \in Defined(upload) PROVE Coming(v)'
    BY <1>1 DEF MadeOrComing
  <2>1. SourceOf(upload, v) = "original"
    BY <1>1, <1>2, RotatedIsImage
  <2> QED
    BY <1>1, <1>3, <2>1 DEF Coming
<1>9. OldOnesStale'
  BY <1>1 DEF OldOnesStale
<1> QED
  BY <1>5, <1>6, <1>7, <1>8, <1>9 DEF PipelineInv

LEMMA PipelineTake ==
  ASSUME PipelineInv, NEW q \in PipelineQueues, TakeFirst(q)
  PROVE  PipelineInv'
<1> DEFINE job == Head(waiting[q])
           version == IF job.src = "original" THEN disk ELSE made[job.src]
           run == [job |-> job, version |-> version]
<1>1. /\ waiting[q] # << >> /\ waiting' = [waiting EXCEPT ![q] = Tail(waiting[q])]
      /\ active' = active \cup {run}
      /\ upload' = upload /\ disk' = disk /\ at' = at /\ made' = made /\ stale' = stale
  BY DEF TakeFirst
<1>2. PipelineTypes /\ OnTheWay /\ JobsReady /\ MadeOrComing /\ OldOnesStale
  BY DEF PipelineInv
<1>3. waiting[q] \in Seq(PipelineJobs)
  BY <1>2 DEF PipelineTypes
<1>4. /\ job \in PipelineJobs /\ job \in ToSet(waiting[q]) /\ Tail(waiting[q]) \in Seq(PipelineJobs)
      /\ ToSet(waiting[q]) = {job} \cup ToSet(Tail(waiting[q]))
  BY <1>1, <1>3, TakenApart
<1>5. Ready(job)
  BY <1>2, <1>4 DEF JobsReady
<1>6. /\ version \in 1 .. disk
      /\ at \in {"processed", "reprocessed"} /\ job.type = "creation" => version = disk
  BY <1>2, <1>4, <1>5, NeededIsThere
<1>7. at # "uploaded"
  BY <1>2, <1>4 DEF OnTheWay
<1>8. /\ waiting' \in [PipelineQueues -> Seq(PipelineJobs)]
      /\ \A p \in PipelineQueues : ToSet(waiting'[p]) \subseteq ToSet(waiting[p])
      /\ \A p \in PipelineQueues : \A j \in ToSet(waiting[p]) : j \in ToSet(waiting'[p]) \/ j = job
  <2> HIDE DEF job
  <2> QED
    BY <1>1, <1>2, <1>4 DEF PipelineTypes
<1> HIDE DEF job, version
<1>9. PipelineTypes'
  BY <1>1, <1>2, <1>4, <1>6, <1>8 DEF PipelineTypes
<1>10. OnTheWay'
  BY <1>1, <1>2, <1>7 DEF OnTheWay
<1>11. JobsReady'
  <2>1. \A j : Ready(j) => Ready(j)'
    BY <1>1 DEF Ready
  <2> QED
    BY <1>1, <1>2, <1>5, <1>8, <2>1 DEF JobsReady, QueueFor
<1>12. MadeOrComing'
  <2>1. ASSUME at \in {"processed", "reprocessed"}, NEW v, Coming(v) PROVE Coming(v)'
    <3>1. CASE \E r \in active : r.job.type = "creation" /\ r.job.item = v /\ r.version = disk
      BY <1>1, <3>1 DEF Coming
    <3>2. CASE \E p \in PipelineQueues : \E j \in ToSet(waiting[p]) : j.type = "creation" /\ j.item = v
      <4>0. PICK p \in PipelineQueues : \E j \in ToSet(waiting[p]) : j.type = "creation" /\ j.item = v
        BY <3>2
      <4>1. PICK j \in ToSet(waiting[p]) : j.type = "creation" /\ j.item = v
        BY <4>0
      <4>2. CASE j \in ToSet(waiting'[p])
        BY <4>1, <4>2 DEF Coming
      <4>3. CASE j = job
        <5>1. run \in active' /\ run.job = job /\ run.version = disk'
          BY <1>1, <1>6, <2>1, <4>1, <4>3
        <5> HIDE DEF run
        <5> QED
          BY <4>1, <4>3, <5>1 DEF Coming
      <4> QED
        BY <1>8, <4>1, <4>2, <4>3
    <3> QED
      BY <2>1, <3>1, <3>2 DEF Coming
  <2> QED
    BY <1>1, <1>2, <2>1 DEF MadeOrComing
<1>13. OldOnesStale'
  BY <1>1, <1>2, <1>6 DEF OldOnesStale
<1> QED
  BY <1>9, <1>10, <1>11, <1>12, <1>13 DEF PipelineInv

LEMMA PipelineFinish ==
  ASSUME PipelineInv, NEW run \in active, FinishCreation(run)
  PROVE  PipelineInv'
<1> DEFINE item == run.job.item
           S == Processed(upload, item)
           queues == AddJobs(waiting, upload, S)
<1>1. /\ run.job.type = "creation" /\ active' = active \ {run} /\ waiting' = queues
      /\ made' = [made EXCEPT ![item] = run.version]
      /\ upload' = upload /\ disk' = disk /\ at' = at /\ stale' = stale
  BY DEF FinishCreation
<1>2. PipelineTypes /\ OnTheWay /\ JobsReady /\ MadeOrComing /\ OldOnesStale /\ upload \in KnownFiles
  BY DEF PipelineInv, PipelineTypes
<1>3. /\ item \in Defined(upload) /\ item \in Items(upload) /\ item \in AllItems /\ run.version \in 1 .. disk
      /\ run.job \in PipelineJobs /\ Ready(run.job)
  BY <1>1, <1>2, DefinedAreItems DEF JobsReady, Ready, Items, PipelineTypes
<1>4. disk \in 1 .. 2 /\ (at = "processed" => run.version = disk) /\ at # "uploaded"
  BY <1>2, <1>3 DEF PipelineTypes, OnTheWay
<1>5. /\ queues \in [PipelineQueues -> Seq(PipelineJobs)]
      /\ \A q \in PipelineQueues : \A job \in ToSet(queues[q]) :
           job \in ToSet(waiting[q]) \/ (job \in S /\ QueueFor(upload, job) = q)
      /\ \A q \in PipelineQueues : ToSet(waiting[q]) \subseteq ToSet(queues[q])
      /\ \A v \in Defined(upload) : SourceOf(upload, v) = item =>
           \E q \in PipelineQueues : \E job \in ToSet(queues[q]) : job.type = "creation" /\ job.item = v
  BY <1>2, <1>3, JobsAdded
<1>6. made \in [AllItems -> 0 .. disk] /\ made'[item] = run.version
      /\ \A v \in AllItems : v # item => made'[v] = made[v]
  BY <1>1, <1>2, <1>3 DEF PipelineTypes
<1>7. \A v \in AllItems : made[v] > 0 => made'[v] > 0
  BY <1>3, <1>4, <1>6
<1>8. \A job : Ready(job) => Ready(job)'
  <2> SUFFICES ASSUME NEW job, Ready(job) PROVE Ready(job)'
    OBVIOUS
  <2>1. job.src # "original" => job.src \in AllItems
    BY <1>2, SourcesAre, DefinedAreItems DEF Ready, Items
  <2> QED
    BY <1>1, <1>7, <2>1 DEF Ready
<1>9. \A job \in S : Ready(job)'
  <2> SUFFICES ASSUME NEW job \in S PROVE Ready(job)'
    OBVIOUS
  <2>1. /\ job.src = item
        /\ \/ /\ job.type = "creation" /\ job.item \in Defined(upload)
              /\ SourceOf(upload, job.item) = item
           \/ job.type = "optimization" /\ job.item = item
    BY <1>2, <1>3, ProcessedJobs
  <2>2. made'[item] > 0
    BY <1>3, <1>4, <1>6
  <2> HIDE DEF item, S
  <2> QED
    BY <1>1, <1>3, <2>1, <2>2 DEF Ready, Items
<1> HIDE DEF S, queues, item
<1>10. PipelineTypes'
  BY <1>1, <1>2, <1>3, <1>5 DEF PipelineTypes
<1>11. OnTheWay'
  BY <1>1, <1>2, <1>4 DEF OnTheWay
<1>12. JobsReady'
  BY <1>1, <1>2, <1>5, <1>8, <1>9 DEF JobsReady, QueueFor
<1>13. ASSUME NEW v \in Defined(upload), Coming(v)
       PROVE  Coming(v)' \/ made'[v] = disk
  <2>1. CASE \E q \in PipelineQueues : \E job \in ToSet(waiting[q]) : job.type = "creation" /\ job.item = v
    BY <1>1, <1>5, <2>1 DEF Coming
  <2>2. CASE \E r \in active : r.job.type = "creation" /\ r.job.item = v /\ r.version = disk
    BY <1>1, <1>6, <2>2 DEF Coming, item
  <2> QED
    BY <1>13, <2>1, <2>2 DEF Coming
<1>14. MadeOrComing'
  <2>1. ASSUME at = "processed", NEW v \in Defined(upload)
        PROVE  \/ made'[v] = disk \/ Coming(v)'
               \/ SourceOf(upload, v) # "original" /\ made'[SourceOf(upload, v)] = 0
    <3>1. CASE made[v] = disk
      BY <1>2, <1>4, <1>6, <2>1, <3>1, DefinedAreItems
    <3>2. CASE Coming(v)
      BY <1>13, <3>2
    <3>3. CASE SourceOf(upload, v) # "original" /\ made[SourceOf(upload, v)] = 0
      <4>1. CASE SourceOf(upload, v) = item
        BY <1>1, <1>5, <4>1 DEF Coming
      <4>2. CASE SourceOf(upload, v) # item
        <5>1. SourceOf(upload, v) \in AllItems
          BY <1>2, <3>3, SourcesAre, DefinedAreItems
        <5> QED
          BY <1>6, <3>3, <4>2, <5>1
      <4> QED
        BY <4>1, <4>2
    <3> QED
      BY <1>2, <2>1, <3>1, <3>2, <3>3 DEF MadeOrComing
  <2>2. ASSUME at = "reprocessed", NEW v \in Defined(upload)
        PROVE  made'[v] = disk \/ Coming(v)' \/ (v \in stale /\ made'[v] > 0)
    <3>1. CASE v = item
      <4>1. run.version < disk => item \in stale
        BY <1>1, <1>2, <2>2 DEF OldOnesStale, item
      <4> QED
        BY <1>3, <1>4, <1>6, <3>1, <4>1
    <3>2. CASE v # item
      <4>1. made'[v] = made[v]
        BY <1>2, <1>6, <3>2, DefinedAreItems
      <4> QED
        BY <1>2, <1>13, <2>2, <4>1 DEF MadeOrComing
    <3> QED
      BY <3>1, <3>2
  <2> QED
    BY <1>1, <2>1, <2>2 DEF MadeOrComing
<1>15. OldOnesStale'
  BY <1>1, <1>2 DEF OldOnesStale
<1> QED
  BY <1>10, <1>11, <1>12, <1>14, <1>15 DEF PipelineInv

LEMMA PipelineEnd ==
  ASSUME PipelineInv, NEW run \in active, FailCreation(run) \/ FinishOptimization(run)
  PROVE  PipelineInv'
<1>1. /\ active' = active \ {run}
      /\ waiting' = waiting /\ upload' = upload /\ disk' = disk /\ at' = at
      /\ made' = made /\ stale' = stale
      /\ run.job.type = "creation" => run.job.item \in stale /\ made[run.job.item] > 0
  BY DEF FailCreation, FinishOptimization
<1>2. PipelineTypes /\ OnTheWay /\ JobsReady /\ MadeOrComing /\ OldOnesStale
  BY DEF PipelineInv
<1>3. PipelineTypes' /\ OnTheWay' /\ OldOnesStale'
  BY <1>1, <1>2 DEF PipelineTypes, OnTheWay, OldOnesStale
<1>4. JobsReady'
  <2>1. \A job : Ready(job) => Ready(job)'
    BY <1>1 DEF Ready
  <2> QED
    BY <1>1, <1>2, <2>1 DEF JobsReady, QueueFor
<1>5. ASSUME NEW v, Coming(v)
      PROVE  Coming(v)' \/ (v \in stale /\ made[v] > 0)
  BY <1>1, <1>5 DEF Coming
<1>6. MadeOrComing'
  <2>1. at # "reprocessed" => \A v : Coming(v) => Coming(v)'
    BY <1>2, <1>5 DEF OldOnesStale
  <2> QED
    BY <1>1, <1>2, <1>5, <2>1 DEF MadeOrComing
<1> QED
  BY <1>3, <1>4, <1>6 DEF PipelineInv

LEMMA PipelineStays == PipelineInv /\ [PipelineStep]_pipelineVars => PipelineInv'
<1> SUFFICES ASSUME PipelineInv, [PipelineStep]_pipelineVars PROVE PipelineInv'
  OBVIOUS
<1>1. DOMAIN waiting = PipelineQueues
  BY DEF PipelineInv, PipelineTypes
<1>2. CASE PipelineStep
  BY <1>1, <1>2, PipelineQueueUpload, PipelineRotate, PipelineQueueRotated, PipelineTake, PipelineFinish,
     PipelineEnd DEF PipelineStep
<1>3. CASE UNCHANGED pipelineVars
  <2>1. /\ active' = active /\ waiting' = waiting /\ upload' = upload /\ disk' = disk /\ at' = at
        /\ made' = made /\ stale' = stale
    BY <1>3 DEF pipelineVars
  <2> QED
    BY <2>1 DEF PipelineInv, PipelineTypes, OnTheWay, JobsReady, MadeOrComing, OldOnesStale, Ready,
                Coming, QueueFor
<1> QED
  BY <1>2, <1>3

LEMMA AllMade ==
  ASSUME PipelineInv, at \in {"processed", "reprocessed"}, NoJobs
  PROVE  \A v \in Defined(upload) : made[v] = disk \/ (v \in stale /\ made[v] > 0)
<1>1. PipelineTypes /\ OnTheWay /\ MadeOrComing /\ upload \in KnownFiles /\ disk \in 1 .. 2
  BY DEF PipelineInv, PipelineTypes
<1>2. \A v : ~Coming(v)
  <2>1. \A q \in PipelineQueues : ToSet(waiting[q]) = {}
    BY <1>1, NothingWaits DEF NoJobs, PipelineTypes
  <2> QED
    BY <2>1 DEF NoJobs, Coming
<1>3. CASE at = "reprocessed"
  BY <1>1, <1>2, <1>3 DEF MadeOrComing
<1>4. CASE at = "processed"
  <2>1. \A v \in Defined(upload) :
          made[v] = disk \/ (SourceOf(upload, v) # "original" /\ made[SourceOf(upload, v)] = 0)
    BY <1>1, <1>2, <1>4 DEF MadeOrComing
  <2>2. CASE ABackglass(upload)
    <3>1. /\ Defined(upload) = {"full", "medium-2x", "medium", "small-2x", "small"}
          /\ \A v \in Defined(upload) : SourceOf(upload, v) = B2sSizes[v]
      BY <2>2, B2sNames DEF ABackglass, Defined, SourceOf
    <3>2. made["full"] = disk /\ made["medium-2x"] = disk
      BY <2>1, <3>1, B2sNames
    <3>3. made["medium"] = disk /\ made["small-2x"] = disk
      BY <1>1, <2>1, <3>1, <3>2, B2sNames
    <3>4. made["small"] = disk
      BY <1>1, <2>1, <3>1, <3>3, B2sNames
    <3> QED
      BY <3>1, <3>2, <3>3, <3>4
  <2> QED
    BY <1>1, <2>1, <2>2, SourcesAre
<1> QED
  BY <1>3, <1>4

\* Once no job is left, an upload of any type has all its variations, made of the original as it
\* is, but for those that were at work on the image before it was rotated; no job copies a
\* source that is missing, and every job is in a queue that activating the file looks at - for
\* any number of workers (processor.queue.ts:114, processor.worker.ts:257,
\* release.abstract.api.ts:188).
THEOREM AllVariationsMade == PipelineSpec => []EveryVariationMade
<1>1. PipelineInv => EveryVariationMade
  <2> SUFFICES ASSUME PipelineInv PROVE EveryVariationMade
    OBVIOUS
  <2>1. PipelineTypes /\ JobsReady /\ upload \in KnownFiles /\ disk \in 1 .. 2
    BY DEF PipelineInv, PipelineTypes
  <2>2. \A run \in active : run.version > 0
    BY <2>1 DEF PipelineTypes
  <2>3. ASSUME NEW q \in DOMAIN waiting, waiting[q] # << >>
        PROVE  q \in QueuesOf(Categories(upload))
    <3>1. q \in PipelineQueues /\ waiting[q] \in Seq(PipelineJobs)
      BY <2>1 DEF PipelineTypes
    <3> DEFINE job == Head(waiting[q])
    <3>2. job \in ToSet(waiting[q]) /\ job \in PipelineJobs
      BY <2>3, <3>1, TakenApart
    <3> HIDE DEF job
    <3>3. QueueFor(upload, job) = q /\ Ready(job)
      BY <2>1, <3>1, <3>2 DEF JobsReady
    <3>4. job.item \in {"original"} \cup Defined(upload) /\ job.type \in {"creation", "optimization"}
      BY <3>3 DEF Ready, Items
    <3> QED
      BY <3>3, <3>4 DEF QueueFor, QueuesOf, Categories
  <2> QED
    BY <2>2, <2>3, AllMade DEF EveryVariationMade
<1> QED
  BY <1>1, PipelineStart, PipelineStays, PTL DEF PipelineSpec

=============================================================================
