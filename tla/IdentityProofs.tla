--------------------------- MODULE IdentityProofs ---------------------------
(***************************************************************************)
(* Accounts under any number of requests at once: Redis has the roles of   *)
(* the documents, one account at most was made root, and no id at the      *)
(* provider and no validated address is left with two accounts.            *)
(***************************************************************************)
EXTENDS Identity, FiniteSetTheorems, TLAPS

Stages == {"idle", "count", "insert", "grant", "save", "revoke", "pending", "identify",
           "find", "purge", "merge", "remove"}
Kinds == {"none", "put", "patch", "resend", "oauth", "link", "confirm", "admin"}
Collections == UNION {[S -> Documents] : S \in SUBSET Users}
RequestRecord ==
  [at : Stages, kind : Kinds, id : Users \cup {None},
   old : Documents \cup {None}, new : Documents \cup {None},
   rest : Collections, next : Collections, gone : Users \cup {None},
   email : Emails \cup {None}, emails : SUBSET Emails, provider : ProviderIds \cup {None},
   seen : SUBSET Users, held : SUBSET Users]
Database == [Users -> Documents \cup {None}]

There(db, u) == db[u] # None

\* A document that was loaded at the version MongoDB has is as MongoDB has it.
AsOf(db, u, d) ==
  There(db, u) => /\ d.v <= db[u].v
                  /\ d.v = db[u].v => d.roles = db[u].roles /\ d.validated = db[u].validated

\* What a request knows of its account, at which await.
OfAccount(r) ==
  r.at \in {"save", "grant", "revoke", "find", "purge", "merge", "remove"} \/ r.kind = "link"
Editing(r) == OfAccount(r) /\ r.at \in {"pending", "identify", "find", "purge", "merge", "remove"}

Shape(ids, r) ==
  /\ r.at = "idle" => r = Idle
  /\ OfAccount(r) => r.id \in ids
  /\ DOMAIN r.next \subseteq ids /\ r.held \subseteq ids
  /\ r.at \in {"count", "insert", "grant", "save", "revoke"} \/ Editing(r) => r.new \in Documents
  /\ r.at \in {"save", "revoke"} => r.old \in Documents
  /\ r.at = "save" /\ r.kind # "admin" => r.old.roles = r.new.roles
  /\ r.at \in {"count", "insert"} \/ (r.at \in {"pending", "identify"} /\ r.kind = "oauth") => r.id = None
  /\ r.at = "insert" /\ "root" \in r.new.roles => r.seen = {}
  /\ r.at \in {"pending", "identify"} => r.kind \in {"link", "oauth"}
  /\ r.at \in {"find", "purge"} => r.kind = "confirm"
  /\ r.at \in {"merge", "remove"} => r.kind \in {"oauth", "link", "confirm"}
  /\ r.kind \in {"oauth", "link", "confirm"} => r.email \in Emails
  /\ r.at \in {"count", "insert", "save", "merge", "remove"} => DOMAIN r.next = {}
  /\ r.at \in {"count", "insert", "save", "identify"} => DOMAIN r.rest = {}
  /\ r.at = "remove" => r.gone \in DOMAIN r.rest /\ r.gone # r.id

Dated(db, r) ==
  /\ r.at = "save" => AsOf(db, r.id, r.old)
  /\ Editing(r) => AsOf(db, r.id, r.new)
  /\ \A w \in DOMAIN r.next : AsOf(db, w, r.next[w])

\* Who had the id or the address when the request looked is gone, or is still to be merged.
\* PUT users takes the first that matches.
Covered(db, r) ==
  \/ r.at \in {"idle", "grant", "revoke"}
  \/ r.at = "save" /\ r.kind = "put"
  \/ \A w \in r.held : There(db, w) => w \in {r.id} \cup DOMAIN r.rest \cup DOMAIN r.next

Types ==
  /\ users \in Database /\ acl \in [Users -> SUBSET Roles]
  /\ req \in [Requests -> RequestRecord]
  /\ born \subseteq Users
  /\ \A u \in Users \ born : users[u] = None /\ acl[u] = {}

RequestInv ==
  \A q \in Requests : Shape(born, req[q]) /\ Dated(users, req[q]) /\ Covered(users, req[q])

\* Redis has no more roles than the document, but those a request is about to take, and no
\* less, but those one is about to give.
HasRole(u, x) == Exists(u) /\ x \in users[u].roles
Takes(q, u, x) == req[q].at = "revoke" /\ req[q].id = u /\ x \in req[q].old.roles \ req[q].new.roles
Gives(q, u, x) == req[q].at \in {"revoke", "grant"} /\ req[q].id = u /\ x \in req[q].new.roles
NoRoleTooMany(u) == \A x \in acl[u] : HasRole(u, x) \/ \E q \in Requests : Takes(q, u, x)
NoRoleTooFew(u) ==
  \A x \in Roles : HasRole(u, x) => x \in acl[u] \/ \E q \in Requests : Gives(q, u, x)
RolesInv ==
  \A u \in Users \ (crossed \cup failed) : NoRoleTooMany(u) /\ (u \notin gained => NoRoleTooFew(u))

\* Two accounts with an id or an address in common are one that was just merged and the
\* other.
Alike(db, u, w) ==
  /\ u # w /\ There(db, u) /\ There(db, w)
  /\ \/ db[u].provider # None /\ db[u].provider = db[w].provider
     \/ db[u].validated \cap db[w].validated # {}
Merging(q, u, w) == req[q].at = "remove" /\ {req[q].id, req[q].gone} = {u, w}
TwinInv ==
  \A u, w \in Users \ twins :
    Alike(users, u, w) => u \in failed \/ w \in failed \/ \E q \in Requests : Merging(q, u, w)

RootInv ==
  /\ asRoot \subseteq born
  /\ \A u, w \in asRoot \ raced : Exists(u) /\ Exists(w) => u = w

IdentityInv == Types /\ RequestInv /\ RolesInv /\ TwinInv /\ RootInv

-----------------------------------------------------------------------------
(* Documents and collections of them *)

LEMMA DocumentFields ==
  ASSUME NEW d \in Documents
  PROVE  /\ d.email \in Emails /\ d.status \in Statuses
         /\ d.validated \subseteq Emails /\ d.emails \subseteq Emails
         /\ d.provider \in ProviderIds \cup {None}
         /\ d.local \in BOOLEAN /\ d.active \in BOOLEAN
         /\ d.roles \subseteq Roles /\ d.v \in Nat /\ d # None
BY IdentityAssumption DEF Documents

LEMMA CollectionFacts ==
  ASSUME NEW f \in Collections
  PROVE  /\ DOMAIN f \subseteq Users /\ \A w \in DOMAIN f : f[w] \in Documents
         /\ \A x : Others(f, x) \in Collections /\ DOMAIN Others(f, x) = DOMAIN f \ {x}
         /\ \A x : \A w \in DOMAIN f \ {x} : Others(f, x)[w] = f[w]
<1>1. PICK S \in SUBSET Users : f \in [S -> Documents]
  BY DEF Collections
<1>2. ASSUME NEW x  PROVE Others(f, x) \in [S \ {x} -> Documents]
  BY <1>1 DEF Others
<1>3. ASSUME NEW x  PROVE Others(f, x) \in Collections
  BY <1>1, <1>2 DEF Collections
<1> QED
  BY <1>1, <1>3 DEF Others

LEMMA LoadFacts ==
  ASSUME Types, NEW S \in SUBSET Users, \A u \in S : Exists(u)
  PROVE  /\ Load(S) \in Collections /\ DOMAIN Load(S) = S
         /\ S \subseteq born /\ \A w \in S : AsOf(users, w, Load(S)[w])
<1>1. Load(S) \in [S -> Documents]
  BY DEF Load, Types, Database, Exists
<1>2. Load(S) \in Collections
  BY <1>1 DEF Collections
<1>3. \A w \in S : AsOf(users, w, users[w])
  <2> SUFFICES ASSUME NEW w \in S  PROVE AsOf(users, w, users[w])
    OBVIOUS
  <2>1. users[w] \in Documents
    BY DEF Types, Database, Exists
  <2> QED
    BY <2>1, DocumentFields DEF AsOf
<1> QED
  BY <1>2, <1>3 DEF Load, Types, Exists

LEMMA NoDocsFacts == NoDocs \in Collections /\ DOMAIN NoDocs = {}
<1>1. NoDocs \in [{} -> Documents]
  BY DEF NoDocs
<1> QED
  BY <1>1 DEF NoDocs, Collections

LEMMA IdleFacts ==
  /\ Idle \in RequestRecord /\ Idle.at = "idle" /\ Idle.kind = "none" /\ Idle.id = None
  /\ DOMAIN Idle.rest = {} /\ DOMAIN Idle.next = {} /\ Idle.held = {}
<1>1. Idle \in RequestRecord
  BY NoDocsFacts DEF Idle, RequestRecord, Stages, Kinds
<1> QED
  BY <1>1, NoDocsFacts DEF Idle

\* A request that ended knows nothing.
LEMMA IdleIsFine ==
  ASSUME NEW db, NEW ids
  PROVE  Shape(ids, Idle) /\ Dated(db, Idle) /\ Covered(db, Idle)
BY IdleFacts DEF Shape, Dated, Covered, OfAccount, Editing

-----------------------------------------------------------------------------
(* What a write does to the documents others have loaded *)

\* An account is as it was or has a newer version; ids that were given out are not again.
Moved(db, db2, u) ==
  /\ There(db, u)
  /\ \/ db[u].v < db2[u].v
     \/ db[u].v = db2[u].v /\ db[u].roles = db2[u].roles /\ db[u].validated = db2[u].validated
Evolves(db, db2, ids, ids2) ==
  /\ db \in Database /\ db2 \in Database /\ ids \subseteq ids2 /\ ids2 \subseteq Users
  /\ \A u \in Users : There(db2, u) => Moved(db, db2, u) \/ u \notin ids

LEMMA AsOfStays ==
  ASSUME NEW db, NEW db2, NEW ids, NEW ids2, Evolves(db, db2, ids, ids2),
         NEW u \in ids, NEW d \in Documents, AsOf(db, u, d)
  PROVE  AsOf(db2, u, d)
<1> SUFFICES ASSUME There(db2, u)
             PROVE  d.v <= db2[u].v /\ (d.v = db2[u].v => d.roles = db2[u].roles
                                                        /\ d.validated = db2[u].validated)
  BY DEF AsOf
<1>1. u \in Users /\ Moved(db, db2, u) /\ There(db, u)
  BY DEF Evolves, Moved
<1>2. db[u].v \in Nat /\ db2[u].v \in Nat /\ d.v \in Nat
  BY <1>1, DocumentFields DEF Evolves, There, Database
<1> QED
  BY <1>1, <1>2 DEF Moved, AsOf

LEMMA OthersStayFine ==
  ASSUME NEW db, NEW db2, NEW ids, NEW ids2, Evolves(db, db2, ids, ids2),
         NEW r \in RequestRecord, Shape(ids, r), Dated(db, r), Covered(db, r)
  PROVE  Shape(ids2, r) /\ Dated(db2, r) /\ Covered(db2, r)
<1>1. Shape(ids2, r)
  <2>1. ids \subseteq ids2
    BY DEF Evolves
  <2> QED
    BY <2>1 DEF Shape
<1>2. Dated(db2, r)
  <2>1. ASSUME r.at = "save"  PROVE AsOf(db2, r.id, r.old)
    <3>1. r.id \in ids /\ r.old \in Documents /\ AsOf(db, r.id, r.old)
      BY <2>1 DEF Shape, Dated, OfAccount
    <3> QED
      BY <3>1, AsOfStays
  <2>2. ASSUME Editing(r)  PROVE AsOf(db2, r.id, r.new)
    <3>1. r.id \in ids /\ r.new \in Documents /\ AsOf(db, r.id, r.new)
      BY <2>2 DEF Shape, Dated, Editing
    <3> QED
      BY <3>1, AsOfStays
  <2>3. ASSUME NEW w \in DOMAIN r.next  PROVE AsOf(db2, w, r.next[w])
    <3>1. w \in ids /\ AsOf(db, w, r.next[w])
      BY DEF Shape, Dated
    <3>2. r.next \in Collections
      BY DEF RequestRecord
    <3>3. r.next[w] \in Documents
      BY <3>2, CollectionFacts
    <3> QED
      BY <3>1, <3>3, AsOfStays
  <2> QED
    BY <2>1, <2>2, <2>3 DEF Dated
<1>3. ASSUME NEW w \in r.held, There(db2, w)  PROVE There(db, w)
  <2>1. w \in ids /\ w \in Users
    BY DEF Shape, RequestRecord
  <2> QED
    BY <1>3, <2>1 DEF Evolves, Moved
<1>4. Covered(db2, r)
  BY <1>3 DEF Covered
<1> QED
  BY <1>1, <1>2, <1>4

\* One request goes on as r.
LEMMA RequestStep ==
  ASSUME Types, RequestInv, NEW q \in Requests, NEW r \in RequestRecord,
         req' = [req EXCEPT ![q] = r], Evolves(users, users', born, born'),
         Shape(born', r), Dated(users', r), Covered(users', r)
  PROVE  req' \in [Requests -> RequestRecord] /\ RequestInv'
<1>1. req' \in [Requests -> RequestRecord]
  BY DEF Types
<1>2. ASSUME NEW p \in Requests
      PROVE  Shape(born', req'[p]) /\ Dated(users', req'[p]) /\ Covered(users', req'[p])
  <2>1. CASE p = q
    BY <2>1 DEF Types
  <2>2. CASE p # q
    <3>1. req'[p] = req[p] /\ req[p] \in RequestRecord
      BY <2>2 DEF Types
    <3>2. Shape(born, req[p]) /\ Dated(users, req[p]) /\ Covered(users, req[p])
      BY DEF RequestInv
    <3> QED
      BY <3>1, <3>2, OthersStayFine
  <2> QED
    BY <2>1, <2>2
<1> QED
  BY <1>1, <1>2 DEF RequestInv

LEMMA SameDatabase ==
  ASSUME Types, UNCHANGED <<users, born>>
  PROVE  Evolves(users, users', born, born')
BY DEF Types, Evolves, Moved

\* What is saved, if the document was as loaded.
LEMMA SavedFacts ==
  ASSUME Types, NEW u \in born, NEW old \in Documents, NEW new \in Documents,
         CanSave(u, old, new), AsOf(users, u, old), users' = Saved(u, old, new), born' = born
  PROVE  /\ Evolves(users, users', born, born')
         /\ \A w \in Users \ {u} : users'[w] = users[w]
         /\ Exists(u) /\ users'[u] \in Documents /\ users[u] \in Documents
         /\ \A w \in Users : There(users', w) <=> There(users, w)
         /\ IF ListsDiffer(old, new)
              THEN /\ users[u].roles = old.roles /\ users[u].validated = old.validated
                   /\ users'[u].roles = new.roles /\ users'[u].validated = new.validated
                   /\ users'[u].v = users[u].v + 1 /\ users[u].v = old.v
              ELSE /\ users'[u].roles = users[u].roles /\ users'[u].validated = users[u].validated
                   /\ users'[u].v = users[u].v
                   /\ old.roles = new.roles /\ old.validated = new.validated
         /\ users'[u].provider =
              IF old.provider # new.provider THEN new.provider ELSE users[u].provider
<1>1. u \in Users /\ Exists(u) /\ users[u] \in Documents
  BY DEF CanSave, Exists, Types, Database
<1> DEFINE now == users[u]
<1>2. users' = [users EXCEPT ![u] = users'[u]]
  BY <1>1 DEF Saved, Types, Database
<1>3. /\ users'[u].roles = IF old.roles # new.roles THEN new.roles ELSE now.roles
      /\ users'[u].validated = IF old.validated # new.validated THEN new.validated ELSE now.validated
      /\ users'[u].provider = IF old.provider # new.provider THEN new.provider ELSE now.provider
      /\ users'[u].v = IF ListsDiffer(old, new) THEN now.v + 1 ELSE now.v
  BY <1>1 DEF Saved, Types, Database
<1>4. users'[u] \in Documents
  <2>1. users'[u] =
          [email |-> IF old.email # new.email THEN new.email ELSE now.email,
           status |-> IF old.status # new.status THEN new.status ELSE now.status,
           validated |-> IF old.validated # new.validated THEN new.validated ELSE now.validated,
           emails |-> IF old.emails # new.emails THEN new.emails ELSE now.emails,
           provider |-> IF old.provider # new.provider THEN new.provider ELSE now.provider,
           local |-> IF old.local # new.local THEN new.local ELSE now.local,
           active |-> IF old.active # new.active THEN new.active ELSE now.active,
           roles |-> IF old.roles # new.roles THEN new.roles ELSE now.roles,
           v |-> IF ListsDiffer(old, new) THEN now.v + 1 ELSE now.v]
    BY <1>1 DEF Saved, Types, Database
  <2> QED
    BY <1>1, <2>1 DEF Documents
<1>5. now.v \in Nat /\ users'[u] # None
  BY <1>1, <1>4, DocumentFields
<1>6. ListsDiffer(old, new) => now.v = old.v /\ now.roles = old.roles /\ now.validated = old.validated
  BY <1>1 DEF CanSave, AsOf, There, Exists
<1>7. \A w \in Users \ {u} : users'[w] = users[w]
  BY <1>1 DEF Saved, Types, Database
<1>8. users' \in Database
  BY <1>2, <1>4 DEF Types, Database
<1>9. Moved(users, users', u)
  BY <1>1, <1>3, <1>5 DEF Moved, There, Exists, ListsDiffer
<1>10. \A w \in Users : There(users', w) <=> There(users, w)
  BY <1>1, <1>5, <1>7 DEF There, Exists
<1>11. Evolves(users, users', born, born')
  <2>1. \A w \in Users \ {u} : There(users', w) => Moved(users, users', w)
    BY <1>7, <1>10 DEF Moved
  <2> QED
    BY <1>8, <1>9, <2>1 DEF Evolves, Types
<1> QED
  BY <1>1, <1>3, <1>4, <1>6, <1>7, <1>10, <1>11 DEF ListsDiffer

-----------------------------------------------------------------------------
(* Steps that leave a part of the invariant alone *)

LEMMA RolesAside ==
  ASSUME Types, RolesInv, acl' = acl,
         \A u \in Users : /\ There(users', u) <=> There(users, u)
                          /\ There(users, u) => users'[u].roles = users[u].roles,
         \A p \in Requests : req[p].at \in {"revoke", "grant"} => req'[p] = req[p],
         crossed \subseteq crossed', failed \subseteq failed', gained \subseteq gained'
  PROVE  RolesInv'
<1> SUFFICES ASSUME NEW u \in Users, u \notin crossed', u \notin failed'
             PROVE  NoRoleTooMany(u)' /\ (u \notin gained' => NoRoleTooFew(u)')
  BY DEF RolesInv
<1>1. NoRoleTooMany(u) /\ (u \notin gained => NoRoleTooFew(u))
  BY DEF RolesInv
<1>2. \A x : HasRole(u, x) <=> HasRole(u, x)'
  BY DEF HasRole, Exists, There
<1>3. ASSUME NEW x, NEW q \in Requests  PROVE Takes(q, u, x) => Takes(q, u, x)'
  BY DEF Takes
<1>4. ASSUME NEW x, NEW q \in Requests  PROVE Gives(q, u, x) => Gives(q, u, x)'
  BY DEF Gives
<1>5. NoRoleTooMany(u)'
  BY <1>1, <1>2, <1>3 DEF NoRoleTooMany
<1>6. u \notin gained' => NoRoleTooFew(u)'
  BY <1>1, <1>2, <1>4 DEF NoRoleTooFew
<1> QED
  BY <1>5, <1>6

\* Nobody becomes like another one.
LEMMA TwinsAside ==
  ASSUME TwinInv,
         \A u, w \in Users : Alike(users', u, w) => Alike(users, u, w),
         \A p \in Requests : req[p].at = "remove" =>
           req'[p] = req[p] \/ ~There(users', req[p].gone) \/ {req[p].id, req[p].gone} \subseteq failed',
         twins \subseteq twins', failed \subseteq failed'
  PROVE  TwinInv'
<1> SUFFICES ASSUME NEW u \in Users, NEW w \in Users, u \notin twins', w \notin twins',
                    Alike(users', u, w), u \notin failed', w \notin failed'
             PROVE  \E q \in Requests : Merging(q, u, w)'
  BY DEF TwinInv
<1>1. PICK q \in Requests : Merging(q, u, w)
  BY DEF TwinInv
<1>2. There(users', u) /\ There(users', w) /\ req[q].gone \in {u, w}
  BY <1>1 DEF Alike, Merging
<1>3. req'[q] = req[q]
  BY <1>1, <1>2 DEF Merging
<1> QED
  BY <1>1, <1>3 DEF Merging

LEMMA RootAside ==
  ASSUME RootInv, \A u \in Users : There(users', u) => There(users, u), born \subseteq Users,
         UNCHANGED <<asRoot, raced>>, born \subseteq born'
  PROVE  RootInv'
BY DEF RootInv, There, Exists

\* A request goes on, and nothing else happens that matters: the most of all steps.
Goes1(q, r) ==
  /\ req' = [req EXCEPT ![q] = r]
  /\ UNCHANGED <<users, acl, born, asRoot, raced, twins, gained, crossed, failed>>

LEMMA OnlyTheRequest ==
  ASSUME IdentityInv, NEW q \in Requests, NEW r \in RequestRecord, Goes1(q, r),
         req[q].at \notin {"revoke", "grant", "remove"},
         Shape(born, r), Dated(users, r), Covered(users, r)
  PROVE  IdentityInv'
<1>1. Evolves(users, users', born, born')
  BY SameDatabase DEF Goes1, IdentityInv
<1>2. req' \in [Requests -> RequestRecord] /\ RequestInv'
  BY <1>1, RequestStep DEF Goes1, IdentityInv
<1>3. Types'
  BY <1>2 DEF Goes1, IdentityInv, Types
<1>4. \A p \in Requests : req[p].at \in {"revoke", "grant", "remove"} => req'[p] = req[p]
  BY DEF Goes1, IdentityInv, Types
<1>5. RolesInv'
  BY <1>4, RolesAside DEF Goes1, IdentityInv
<1>6. TwinInv'
  BY <1>4, TwinsAside DEF Goes1, IdentityInv
<1>7. RootInv'
  BY RootAside DEF Goes1, IdentityInv, Types
<1> QED
  BY <1>2, <1>3, <1>5, <1>6, <1>7 DEF IdentityInv

LEMMA TheRequest ==
  ASSUME IdentityInv, NEW q \in Requests
  PROVE  /\ req[q] \in RequestRecord
         /\ Shape(born, req[q]) /\ Dated(users, req[q]) /\ Covered(users, req[q])
BY DEF IdentityInv, Types, RequestInv

LEMMA Ends ==
  ASSUME IdentityInv, NEW q \in Requests, req[q].at \notin {"revoke", "grant", "remove"}, Finish(q),
         UNCHANGED <<users, acl, born, asRoot, raced, twins, gained, crossed, failed>>
  PROVE  IdentityInv'
BY OnlyTheRequest, IdleFacts, IdleIsFine DEF Finish, Goes1

-----------------------------------------------------------------------------
(* The documents the handlers make *)

LEMMA MadeDocuments ==
  ASSUME NEW e \in Emails, NEW es \in SUBSET Emails, NEW i \in ProviderIds \cup {None}
  PROVE  /\ LocalUser(e) \in Documents /\ LocalUser(e).provider = None
         /\ LocalUser(e).validated = {} /\ LocalUser(e).roles = {"member"}
         /\ ProviderUser(e, es, i) \in Documents /\ ProviderUser(e, es, i).roles = {"member"}
BY DEF LocalUser, ProviderUser, Documents, Statuses, Status, Confirmed, Roles

LEMMA ConfirmedFacts ==
  ASSUME NEW d \in Documents, NEW e \in Emails
  PROVE  ConfirmedDoc(d, e) \in Documents /\ ConfirmedDoc(d, e).roles = d.roles
<1>1. d.email \in Emails /\ d.validated \subseteq Emails
  BY DocumentFields
<1>2. Confirmed \in Statuses
  BY DEF Statuses
<1>3. CASE Pending(d)
  BY <1>1, <1>2, <1>3 DEF ConfirmedDoc, Documents
<1>4. CASE ~Pending(d)
  BY <1>1, <1>2, <1>4 DEF ConfirmedDoc, Documents
<1> QED
  BY <1>3, <1>4

LEMMA LinkedFacts ==
  ASSUME NEW d \in Documents, NEW r \in RequestRecord
  PROVE  Linked(d, r) \in Documents /\ Linked(d, r).roles = d.roles
<1>1. d.email \in Emails /\ d.emails \subseteq Emails
  BY DocumentFields
<1>2. r.provider \in ProviderIds \cup {None} /\ r.emails \subseteq Emails
  BY DEF RequestRecord
<1> QED
  BY <1>1, <1>2 DEF Linked, Documents

LEMMA MergedFacts ==
  ASSUME NEW keep \in Documents, NEW other \in Documents
  PROVE  /\ Merged(keep, other) \in Documents
         /\ Merged(keep, other).roles = keep.roles \cup other.roles
         /\ InMemory(keep, Merged(keep, other)) \in Documents
         /\ InMemory(keep, Merged(keep, other)).roles = Merged(keep, other).roles
         /\ InMemory(keep, Merged(keep, other)).validated = Merged(keep, other).validated
         /\ InMemory(keep, Merged(keep, other)).v =
              IF ListsDiffer(keep, Merged(keep, other)) THEN keep.v + 1 ELSE keep.v
<1> DEFINE m == Merged(keep, other)
<1>1. /\ keep.provider \in ProviderIds \cup {None} /\ other.provider \in ProviderIds \cup {None}
      /\ keep.active \in BOOLEAN /\ other.active \in BOOLEAN
      /\ keep.emails \cup other.emails \subseteq Emails
      /\ keep.validated \cup other.validated \subseteq Emails
      /\ keep.roles \cup other.roles \subseteq Roles /\ keep.v \in Nat
  BY DocumentFields
<1>2. m \in Documents /\ m.roles = keep.roles \cup other.roles
  <2>1. PICK b \in BOOLEAN : b <=> keep.active /\ other.active
    OBVIOUS
  <2>2. m = [keep EXCEPT !.active = keep.active /\ other.active, !.emails = keep.emails \cup other.emails,
               !.roles = keep.roles \cup other.roles, !.validated = keep.validated \cup other.validated,
               !.provider = IF keep.provider = None THEN other.provider ELSE keep.provider]
    BY DEF Merged
  <2>3. (keep.active /\ other.active) \in BOOLEAN
    OBVIOUS
  <2>4. (IF keep.provider = None THEN other.provider ELSE keep.provider) \in ProviderIds \cup {None}
    BY <1>1
  <2>5. m \in Documents
    BY <1>1, <2>2, <2>3, <2>4 DEF Documents
  <2>6. m.roles = keep.roles \cup other.roles
    BY <2>2 DEF Documents
  <2> QED
    BY <2>5, <2>6
<1> HIDE DEF m
<1>3. InMemory(keep, m) \in Documents
  BY <1>1, <1>2 DEF InMemory, Documents
<1>4. /\ InMemory(keep, m).roles = m.roles /\ InMemory(keep, m).validated = m.validated
      /\ InMemory(keep, m).v = IF ListsDiffer(keep, m) THEN keep.v + 1 ELSE keep.v
  BY <1>2 DEF InMemory, Documents
<1> QED
  BY <1>2, <1>3, <1>4 DEF m

LEMMA RequestAtWith ==
  ASSUME NEW r \in RequestRecord, NEW at \in Stages, NEW d \in Documents
  PROVE  [r EXCEPT !.at = at, !.new = d] \in RequestRecord
BY DEF RequestRecord

\* Merging begins, goes on, or is over and the account about to be saved.
LEMMA MergeIntoIsFine ==
  ASSUME NEW db, NEW ids \in SUBSET Users, NEW r \in RequestRecord,
         r.kind \in {"oauth", "link", "confirm"}, r.email \in Emails, r.held \subseteq ids,
         NEW u \in ids, NEW doc \in Documents, NEW rest \in Collections, AsOf(db, u, doc),
         \A w \in r.held : There(db, w) => w \in {u} \cup DOMAIN rest
  PROVE  /\ MergeInto(r, u, doc, rest) \in RequestRecord
         /\ Shape(ids, MergeInto(r, u, doc, rest))
         /\ Dated(db, MergeInto(r, u, doc, rest))
         /\ Covered(db, MergeInto(r, u, doc, rest))
<1> DEFINE t == [r EXCEPT !.id = u, !.old = doc, !.new = doc, !.rest = rest, !.next = NoDocs]
           m == MergeInto(r, u, doc, rest)
<1>1. /\ t \in RequestRecord /\ t.id = u /\ t.old = doc /\ t.new = doc /\ t.rest = rest
      /\ t.next = NoDocs /\ t.kind = r.kind /\ t.email = r.email /\ t.held = r.held
  BY NoDocsFacts DEF RequestRecord
<1>2. m = IF DOMAIN rest = {} THEN Ready(t) ELSE [t EXCEPT !.at = "merge"]
  BY DEF MergeInto
<1> HIDE DEF t, m
<1>3. PICK n \in Documents : /\ n.roles = doc.roles
                             /\ n = IF t.kind = "confirm" THEN ConfirmedDoc(t.new, t.email) ELSE Linked(t.new, t)
  BY <1>1, ConfirmedFacts, LinkedFacts
<1>4. Ready(t) = [t EXCEPT !.at = "save", !.new = n]
  BY <1>3 DEF Ready
<1>5. CASE DOMAIN rest = {}
  <2>1. /\ m \in RequestRecord /\ m.at = "save" /\ m.id = u /\ m.old = doc /\ m.new = n /\ m.rest = rest
        /\ m.next = NoDocs /\ m.kind = r.kind /\ m.email = r.email /\ m.held = r.held
    <3>1. m = [t EXCEPT !.at = "save", !.new = n]
      BY <1>2, <1>4, <1>5
    <3>2. "save" \in Stages
      BY DEF Stages
    <3>3. m \in RequestRecord
      BY <1>1, <1>3, <3>1, <3>2, RequestAtWith
    <3>4. /\ m.at = "save" /\ m.new = n /\ m.id = t.id /\ m.old = t.old /\ m.rest = t.rest
          /\ m.next = t.next /\ m.kind = t.kind /\ m.email = t.email /\ m.held = t.held
      BY <1>1, <3>1 DEF RequestRecord
    <3> QED
      BY <1>1, <3>3, <3>4
  <2> QED
    BY <1>3, <1>5, <2>1, NoDocsFacts DEF Shape, Dated, Covered, OfAccount, Editing, m
<1>6. CASE DOMAIN rest # {}
  <2>1. /\ m \in RequestRecord /\ m.at = "merge" /\ m.id = u /\ m.old = doc /\ m.new = doc /\ m.rest = rest
        /\ m.next = NoDocs /\ m.kind = r.kind /\ m.email = r.email /\ m.held = r.held
    BY <1>1, <1>2, <1>6 DEF RequestRecord, Stages
  <2> QED
    BY <1>6, <2>1, NoDocsFacts DEF Shape, Dated, Covered, OfAccount, Editing, m
<1> QED
  BY <1>5, <1>6

-----------------------------------------------------------------------------
(* Requests begin *)

\* Begins with a user to create.
LEMMA CountIsFine ==
  ASSUME NEW db, NEW ids, NEW r \in RequestRecord, r.at = "count", r.id = None, r.kind \in {"none", "put"},
         r.new \in Documents, DOMAIN r.rest = {}, DOMAIN r.next = {}, r.held = {}
  PROVE  Shape(ids, r) /\ Dated(db, r) /\ Covered(db, r)
BY DEF Shape, Dated, Covered, OfAccount, Editing

LEMMA Begins ==
  ASSUME IdentityInv, NEW q \in Requests, NEW r \in RequestRecord, Start(q, r),
         Shape(born, r), Dated(users, r), Covered(users, r), UNCHANGED <<users, acl, born, history>>
  PROVE  IdentityInv'
BY OnlyTheRequest DEF Start, Running, Goes1, history

LEMMA ExistingAccount ==
  ASSUME Types, NEW u \in Users, Exists(u)
  PROVE  u \in born /\ users[u] \in Documents /\ AsOf(users, u, users[u])
BY LoadFacts, DocumentFields DEF Types, Exists, Database, AsOf

\* A change of an account that takes and gives no role, or is an administrator's.
LEMMA ChangeIsFine ==
  ASSUME Types, NEW u \in Users, Exists(u), NEW d \in Documents, NEW kind \in {"patch", "resend", "put", "admin"},
         kind = "admin" \/ d.roles = users[u].roles
  PROVE  LET r == Change(u, d, kind) IN
         /\ r \in RequestRecord /\ r.at = "save" /\ r.kind = kind
         /\ Shape(born, r) /\ Dated(users, r) /\ Covered(users, r)
<1> DEFINE r == Change(u, d, kind)
<1>1. u \in born /\ users[u] \in Documents /\ AsOf(users, u, users[u])
  BY ExistingAccount
<1>2. /\ r \in RequestRecord /\ r.at = "save" /\ r.kind = kind /\ r.id = u /\ r.old = users[u] /\ r.new = d
      /\ DOMAIN r.rest = {} /\ DOMAIN r.next = {} /\ r.held = {}
  <2>1. r = [Idle EXCEPT !.at = "save", !.kind = kind, !.id = u, !.old = users[u], !.new = d]
    BY DEF Change
  <2>2. Idle \in RequestRecord
    BY IdleFacts
  <2> HIDE DEF r
  <2>3. r \in RequestRecord
    BY <1>1, <2>1, <2>2 DEF RequestRecord, Stages, Kinds
  <2>4. /\ r.at = "save" /\ r.kind = kind /\ r.id = u /\ r.old = users[u] /\ r.new = d
        /\ r.rest = Idle.rest /\ r.next = Idle.next /\ r.held = Idle.held
    BY <2>1, <2>2 DEF RequestRecord
  <2> QED
    BY <2>3, <2>4, IdleFacts
<1> HIDE DEF r
<1>3. Shape(born, r) /\ Dated(users, r) /\ Covered(users, r)
  BY <1>1, <1>2 DEF Shape, Dated, Covered, OfAccount, Editing
<1> QED
  BY <1>2, <1>3 DEF r

LEMMA RegisterKeeps ==
  ASSUME IdentityInv, NEW q \in Requests, NEW e \in Emails, Register(q, e)
  PROVE  IdentityInv'
<1>1. LocalUser(e) \in Documents
  BY MadeDocuments
<1>2. PICK r : r = [Idle EXCEPT !.at = "count", !.new = LocalUser(e)]
  OBVIOUS
<1>3. /\ r \in RequestRecord /\ r.at = "count" /\ r.id = None /\ r.kind = "none" /\ r.new = LocalUser(e)
      /\ DOMAIN r.rest = {} /\ DOMAIN r.next = {} /\ r.held = {}
  <2>1. Idle \in RequestRecord
    BY IdleFacts
  <2>2. r \in RequestRecord
    BY <1>1, <1>2, <2>1 DEF RequestRecord, Stages
  <2>3. /\ r.at = "count" /\ r.id = Idle.id /\ r.kind = Idle.kind /\ r.new = LocalUser(e)
        /\ r.rest = Idle.rest /\ r.next = Idle.next /\ r.held = Idle.held
    BY <1>2, <2>1 DEF RequestRecord
  <2> QED
    BY <2>2, <2>3, IdleFacts
<1>4. Start(q, r) /\ UNCHANGED <<users, acl, born, history>>
  BY <1>2 DEF Register
<1> QED
  BY <1>1, <1>3, <1>4, CountIsFine, Begins

LEMMA ProviderPutKeeps ==
  ASSUME IdentityInv, NEW q \in Requests, NEW i \in ProviderIds, NEW e \in Emails, ProviderPut(q, i, e)
  PROVE  IdentityInv'
<1> DEFINE match == Holders(i) \cup
                    {u \in Users : Exists(u) /\ e \in users[u].validated \cup {users[u].email}}
           As(r) == [r EXCEPT !.kind = "put", !.held = Claimants(i, {e}), !.emails = {e}]
<1>1. Types /\ UNCHANGED <<users, acl, born, history>>
  BY DEF ProviderPut, IdentityInv
<1>2. \A u \in match : u \in Users /\ Exists(u)
  BY DEF Holders
<1>3. Claimants(i, {e}) \subseteq match /\ Claimants(i, {e}) \subseteq Users
      /\ \A u \in Claimants(i, {e}) : Exists(u)
  BY DEF Claimants, Holders
<1>4. CASE match = {}
  <2>1. ProviderUser(e, {e}, i) \in Documents
    BY MadeDocuments
  <2>2. PICK r : r = As([Idle EXCEPT !.at = "count", !.new = ProviderUser(e, {e}, i)])
    OBVIOUS
  <2>3. /\ r \in RequestRecord /\ r.at = "count" /\ r.id = None /\ r.kind = "put"
        /\ r.new = ProviderUser(e, {e}, i) /\ r.held = Claimants(i, {e})
        /\ DOMAIN r.rest = {} /\ DOMAIN r.next = {}
    <3>1. Idle \in RequestRecord
      BY IdleFacts
    <3>2. r = [Idle EXCEPT !.at = "count", !.new = ProviderUser(e, {e}, i), !.kind = "put",
                           !.held = Claimants(i, {e}), !.emails = {e}]
      BY <2>2, <3>1 DEF RequestRecord
    <3>3. r \in RequestRecord
      BY <1>3, <2>1, <3>1, <3>2 DEF RequestRecord, Stages, Kinds
    <3>4. /\ r.at = "count" /\ r.id = Idle.id /\ r.kind = "put" /\ r.new = ProviderUser(e, {e}, i)
          /\ r.held = Claimants(i, {e}) /\ r.rest = Idle.rest /\ r.next = Idle.next
      BY <3>1, <3>2 DEF RequestRecord
    <3> QED
      BY <3>3, <3>4, IdleFacts
  <2>4. Start(q, r)
    BY <1>4, <2>2 DEF ProviderPut
  <2> QED
    BY <1>1, <1>3, <1>4, <2>1, <2>3, <2>4, CountIsFine, Begins
<1>5. CASE match # {}
  <2>1. PICK u \in match : Start(q, As(Change(u,
          [users[u] EXCEPT !.provider = IF users[u].provider = None THEN i ELSE users[u].provider,
                           !.emails = users[u].emails \cup {users[u].email, e}], "put")))
    BY <1>5 DEF ProviderPut
  <2>2. u \in born /\ users[u] \in Documents /\ u \in Users /\ Exists(u)
    BY <1>1, <1>2, ExistingAccount
  <2>3. PICK d : d = [users[u] EXCEPT !.provider = IF users[u].provider = None THEN i ELSE users[u].provider,
                                      !.emails = users[u].emails \cup {users[u].email, e}]
    OBVIOUS
  <2>4. users[u].email \in Emails /\ users[u].emails \subseteq Emails
        /\ users[u].provider \in ProviderIds \cup {None}
    BY <2>2, DocumentFields
  <2>5. d \in Documents /\ d.roles = users[u].roles
    BY <2>2, <2>3, <2>4 DEF Documents
  <2>6. PICK c : c = Change(u, d, "put")
    OBVIOUS
  <2>7. /\ c \in RequestRecord /\ c.at = "save" /\ c.kind = "put"
        /\ Shape(born, c) /\ Dated(users, c)
    BY <1>1, <2>2, <2>5, <2>6, ChangeIsFine
  <2>8. PICK r : r = As(c)
    OBVIOUS
  <2>9. /\ r \in RequestRecord /\ r.at = "save" /\ r.kind = "put" /\ r.held \subseteq born
        /\ r.id = c.id /\ r.old = c.old /\ r.new = c.new /\ r.rest = c.rest /\ r.next = c.next
    <3>1. Claimants(i, {e}) \subseteq born
      BY <1>1, <1>3, ExistingAccount
    <3> QED
      BY <1>3, <2>7, <2>8, <3>1 DEF RequestRecord, Kinds
  <2>10. Shape(born, r) /\ Dated(users, r) /\ Covered(users, r)
    BY <2>7, <2>9 DEF Shape, Dated, Covered, OfAccount, Editing
  <2>11. Start(q, r)
    BY <2>1, <2>3, <2>6, <2>8
  <2> QED
    BY <1>1, <2>9, <2>10, <2>11, Begins
<1> QED
  BY <1>4, <1>5

LEMMA PatchEmailKeeps ==
  ASSUME IdentityInv, NEW q \in Requests, NEW u \in Users, NEW e \in Emails, PatchEmail(q, u, e)
  PROVE  IdentityInv'
<1>1. Types /\ Exists(u) /\ UNCHANGED <<users, acl, born, history>>
  BY DEF PatchEmail, IdentityInv
<1>2. users[u] \in Documents
  BY <1>1, ExistingAccount
<1>3. Confirmed \in Statuses /\ Status("pending_update", e, users[u].email) \in Statuses
  BY <1>2, DocumentFields DEF Statuses, Status
<1>4. PICK d : /\ d = IF users[u].status.code = "pending_update"
                        THEN [users[u] EXCEPT !.status = Confirmed] ELSE Requested(users[u], e)
               /\ Start(q, Change(u, d, "patch"))
  BY DEF PatchEmail
<1>5. d \in Documents /\ d.roles = users[u].roles
  <2>1. CASE users[u].status.code = "pending_update"
    BY <1>2, <1>3, <1>4, <2>1 DEF Documents
  <2>2. CASE users[u].status.code # "pending_update" /\ e \in users[u].validated
    BY <1>2, <1>3, <1>4, <2>2 DEF Documents, Requested
  <2>3. CASE users[u].status.code # "pending_update" /\ e \notin users[u].validated
    BY <1>2, <1>3, <1>4, <2>3 DEF Documents, Requested
  <2> QED
    BY <2>1, <2>2, <2>3
<1>6. PICK r : r = Change(u, d, "patch")
  OBVIOUS
<1>7. r \in RequestRecord /\ Shape(born, r) /\ Dated(users, r) /\ Covered(users, r)
  BY <1>1, <1>5, <1>6, ChangeIsFine
<1> QED
  BY <1>1, <1>4, <1>6, <1>7, Begins

LEMMA ResendKeeps ==
  ASSUME IdentityInv, NEW q \in Requests, NEW u \in Users, Resend(q, u)
  PROVE  IdentityInv'
<1>1. /\ Types /\ Exists(u) /\ UNCHANGED <<users, acl, born, history>>
      /\ users[u].status.code # "confirmed"
  BY DEF Resend, IdentityInv
<1>2. users[u] \in Documents
  BY <1>1, ExistingAccount
<1>3. users[u].email \in Emails /\ users[u].status \in Statuses
  BY <1>2, DocumentFields
<1>4. PICK s : s = Status(users[u].status.code, users[u].status.value, users[u].email)
  OBVIOUS
<1>5. s \in Statuses
  BY <1>1, <1>3, <1>4 DEF Statuses, Status, Confirmed
<1>6. PICK d : d = [users[u] EXCEPT !.status = s]
  OBVIOUS
<1>7. d \in Documents /\ d.roles = users[u].roles
  BY <1>2, <1>5, <1>6 DEF Documents
<1>8. Start(q, Change(u, d, "resend"))
  BY <1>4, <1>6 DEF Resend
<1>9. PICK r : r = Change(u, d, "resend")
  OBVIOUS
<1>10. r \in RequestRecord /\ Shape(born, r) /\ Dated(users, r) /\ Covered(users, r)
  BY <1>1, <1>7, <1>9, ChangeIsFine
<1> QED
  BY <1>1, <1>8, <1>9, <1>10, Begins

LEMMA AdminUpdateKeeps ==
  ASSUME IdentityInv, NEW q \in Requests, NEW c \in Users, NEW u \in Users, NEW d,
         users[u] \in Documents => d \in Documents, AdminUpdate(q, c, u, d)
  PROVE  IdentityInv'
<1>1. Types /\ Exists(u) /\ UNCHANGED <<users, acl, born, history>> /\ Start(q, Change(u, d, "admin"))
  BY DEF AdminUpdate, IdentityInv
<1>2. d \in Documents
  BY <1>1, ExistingAccount
<1>3. PICK r : r = Change(u, d, "admin")
  OBVIOUS
<1>4. r \in RequestRecord /\ Shape(born, r) /\ Dated(users, r) /\ Covered(users, r)
  BY <1>1, <1>2, <1>3, ChangeIsFine
<1> QED
  BY <1>1, <1>3, <1>4, Begins

LEMMA OAuthKeeps ==
  ASSUME IdentityInv, NEW q \in Requests, NEW i \in ProviderIds, NEW es \in SUBSET Emails,
         NEW e \in es, NEW u \in Users \cup {None}, OAuth(q, i, e, es, u)
  PROVE  IdentityInv'
<1> DEFINE pending == {w \in Users : Exists(w) /\ Pending(users[w]) /\ users[w].email \in es}
           kind == IF u = None THEN "oauth" ELSE "link"
           doc == IF u = None THEN None ELSE users[u]
<1>1. Types /\ UNCHANGED <<users, acl, born, history>> /\ (u # None => Exists(u))
  BY DEF OAuth, IdentityInv
<1>2. u # None => u \in born /\ doc \in Documents /\ AsOf(users, u, doc)
  BY <1>1, ExistingAccount
<1>3. Load(pending) \in Collections
  BY <1>1, LoadFacts
<1>4. PICK r : r = [Idle EXCEPT !.at = "pending", !.kind = kind, !.id = u, !.new = doc,
                                !.rest = Load(pending), !.provider = i, !.email = e, !.emails = es]
  OBVIOUS
<1>5. Start(q, r)
  BY <1>4 DEF OAuth
<1>6. doc \in Documents \cup {None} /\ kind \in {"oauth", "link"} /\ (kind = "link" <=> u # None)
  BY <1>2
<1> HIDE DEF pending, kind, doc
<1>7. Idle \in RequestRecord
  BY IdleFacts
<1>8. r \in RequestRecord
  BY <1>3, <1>4, <1>6, <1>7 DEF RequestRecord, Stages, Kinds
<1>9. /\ r.at = "pending" /\ r.kind = kind /\ r.id = u /\ r.new = doc /\ r.email = e
      /\ r.next = Idle.next /\ r.held = Idle.held
  BY <1>4, <1>7 DEF RequestRecord
<1>10. Shape(born, r) /\ Dated(users, r) /\ Covered(users, r)
  BY <1>2, <1>6, <1>9, IdleFacts DEF Shape, Dated, Covered, OfAccount, Editing
<1> QED
  BY <1>1, <1>5, <1>8, <1>10, Begins

LEMMA ConfirmKeeps ==
  ASSUME IdentityInv, NEW q \in Requests, NEW u \in Users, Confirm(q, u)
  PROVE  IdentityInv'
<1>1. /\ Types /\ Exists(u) /\ UNCHANGED <<users, acl, born, history>>
      /\ users[u].status.code # "confirmed"
  BY DEF Confirm, IdentityInv
<1>2. u \in born /\ users[u] \in Documents /\ AsOf(users, u, users[u])
  BY <1>1, ExistingAccount
<1>3. users[u].status \in Statuses
  BY <1>2, DocumentFields
<1>4. users[u].status.value \in Emails /\ users[u].status.mailed \in Emails
  BY <1>1, <1>3 DEF Statuses, Status, Confirmed
<1>5. PICK r : r = [Idle EXCEPT !.at = "find", !.kind = "confirm", !.id = u, !.new = users[u],
                      !.email = users[u].status.value, !.emails = {users[u].status.mailed}]
  OBVIOUS
<1>6. Start(q, r)
  BY <1>5 DEF Confirm
<1>7. Idle \in RequestRecord
  BY IdleFacts
<1>8. r \in RequestRecord
  BY <1>2, <1>4, <1>5, <1>7 DEF RequestRecord, Stages, Kinds
<1>9. /\ r.at = "find" /\ r.kind = "confirm" /\ r.id = u /\ r.new = users[u]
      /\ r.email = users[u].status.value /\ r.next = Idle.next /\ r.held = Idle.held
  BY <1>5, <1>7 DEF RequestRecord
<1>10. Shape(born, r) /\ Dated(users, r) /\ Covered(users, r)
  BY <1>2, <1>4, <1>9, IdleFacts DEF Shape, Dated, Covered, OfAccount, Editing
<1> QED
  BY <1>1, <1>6, <1>8, <1>10, Begins

-----------------------------------------------------------------------------
(* Requests go on *)

LEMMA CountUsersKeeps ==
  ASSUME IdentityInv, NEW q \in Requests, CountUsers(q)
  PROVE  IdentityInv'
<1> DEFINE there == {u \in Users : Exists(u)}
<1>1. PICK r : r = Counted(req[q], there, there = {})
  OBVIOUS
<1>2. /\ req[q].at = "count" /\ req' = [req EXCEPT ![q] = r]
      /\ UNCHANGED <<users, acl, started, born, history>>
  BY <1>1 DEF CountUsers, IdentityInv, Types
<1>3. /\ req[q] \in RequestRecord
      /\ Shape(born, req[q]) /\ Dated(users, req[q]) /\ Covered(users, req[q])
  BY TheRequest
<1>4. req[q].new \in Documents
  BY <1>2, <1>3 DEF Shape
<1>5. PICK d : /\ d = [req[q].new EXCEPT !.roles = IF there = {} THEN {"root"} ELSE {"member"}]
               /\ d \in Documents /\ ("root" \in d.roles => there = {})
  <2>1. PICK roles : roles = IF there = {} THEN {"root"} ELSE {"member"}
    OBVIOUS
  <2>2. roles \subseteq Roles /\ ("root" \in roles => there = {})
    BY <2>1 DEF Roles
  <2>3. PICK d : d = [req[q].new EXCEPT !.roles = roles]
    OBVIOUS
  <2>4. d \in Documents /\ d.roles = roles
    BY <1>4, <2>2, <2>3 DEF Documents
  <2> QED
    BY <2>1, <2>2, <2>3, <2>4
<1>6. r = [req[q] EXCEPT !.at = "insert", !.seen = there, !.new = d]
  BY <1>1, <1>5 DEF Counted
<1>7. there \subseteq Users
  OBVIOUS
<1> HIDE DEF there
<1>8. r \in RequestRecord
  <2>1. there \in SUBSET Users /\ d \in Documents \cup {None}
    BY <1>5, <1>7
  <2> QED
    BY <1>3, <1>6, <2>1 DEF RequestRecord, Stages
<1>9. /\ r.at = "insert" /\ r.seen = there /\ r.new = d /\ r.id = req[q].id /\ r.kind = req[q].kind
      /\ r.rest = req[q].rest /\ r.next = req[q].next /\ r.held = req[q].held /\ r.email = req[q].email
  BY <1>3, <1>6 DEF RequestRecord
<1>10. Shape(born, r) /\ Dated(users, r) /\ Covered(users, r)
  BY <1>2, <1>3, <1>5, <1>9 DEF Shape, Dated, Covered, OfAccount, Editing
<1> QED
  BY <1>2, <1>8, <1>10, OnlyTheRequest DEF Goes1, history

LEMMA InsertFailsKeeps ==
  ASSUME IdentityInv, NEW q \in Requests, InsertFails(q)
  PROVE  IdentityInv'
BY Ends DEF InsertFails, history

LEMMA MatchingFacts ==
  ASSUME NEW i, NEW es
  PROVE  /\ Matching(i, es) \in SUBSET Users /\ \A u \in Matching(i, es) : Exists(u)
         /\ Claimants(i, es) \subseteq Matching(i, es)
BY DEF Matching, Claimants, Holders

LEMMA FindOthersKeeps ==
  ASSUME IdentityInv, NEW q \in Requests, FindOthers(q)
  PROVE  IdentityInv'
<1>1. /\ req[q] \in RequestRecord
      /\ Shape(born, req[q]) /\ Dated(users, req[q]) /\ Covered(users, req[q])
  BY TheRequest
<1> DEFINE i == req[q].provider
           S == Matching(i, req[q].emails)
           held == Claimants(i, req[q].emails)
<1>2. PICK r : r = [req[q] EXCEPT !.at = "identify", !.next = Load(S), !.held = held]
  OBVIOUS
<1>3. /\ req[q].at = "pending" /\ DOMAIN req[q].rest = {} /\ req' = [req EXCEPT ![q] = r]
      /\ UNCHANGED <<users, acl, started, born, history>>
  BY <1>2 DEF FindOthers, IdentityInv, Types
<1>4. /\ S \in SUBSET Users /\ held \subseteq S /\ Load(S) \in Collections /\ DOMAIN Load(S) = S
      /\ S \subseteq born /\ \A w \in S : AsOf(users, w, Load(S)[w])
  BY MatchingFacts, LoadFacts DEF IdentityInv
<1> HIDE DEF i, S, held
<1>5. r \in RequestRecord
  BY <1>1, <1>2, <1>4 DEF RequestRecord, Stages
<1>6. /\ r.at = "identify" /\ r.next = Load(S) /\ r.held = held /\ r.id = req[q].id
      /\ r.kind = req[q].kind /\ r.rest = req[q].rest /\ r.new = req[q].new /\ r.email = req[q].email
  BY <1>1, <1>2 DEF RequestRecord
<1>7. Shape(born, r) /\ Dated(users, r) /\ Covered(users, r)
  BY <1>1, <1>3, <1>4, <1>6 DEF Shape, Dated, Covered, OfAccount, Editing
<1> QED
  BY <1>3, <1>5, <1>7, OnlyTheRequest DEF Goes1, history

LEMMA IdentifyUserKeeps ==
  ASSUME IdentityInv, NEW q \in Requests, IdentifyUser(q)
  PROVE  IdentityInv'
<1> DEFINE r == req[q]
           found == DOMAIN r.next
<1>1. r \in RequestRecord /\ Shape(born, r) /\ Dated(users, r) /\ Covered(users, r)
  BY TheRequest
<1>2. r.at = "identify" /\ UNCHANGED <<users, acl, started, born, history>>
  BY DEF IdentifyUser
<1>3. /\ r.kind \in {"link", "oauth"} /\ r.email \in Emails /\ r.held \subseteq born
      /\ DOMAIN r.rest = {} /\ r.next \in Collections /\ found \subseteq born
      /\ \A w \in found : r.next[w] \in Documents /\ AsOf(users, w, r.next[w])
      /\ \A w \in r.held : There(users, w) => w \in {r.id} \cup found
      /\ born \in SUBSET Users
  <2>1. r.next \in Collections
    BY <1>1 DEF RequestRecord
  <2> QED
    BY <1>1, <1>2, <2>1, CollectionFacts DEF Shape, Dated, Covered, IdentityInv, Types
<1> HIDE DEF r, found
<1>4. CASE r.kind = "link"
  <2>1. PICK m : m = MergeInto(r, r.id, r.new, r.next)
    OBVIOUS
  <2>2. r.id \in born /\ r.new \in Documents /\ AsOf(users, r.id, r.new)
    BY <1>1, <1>2, <1>4 DEF Shape, Dated, OfAccount, Editing
  <2>3. m \in RequestRecord /\ Shape(born, m) /\ Dated(users, m) /\ Covered(users, m)
    BY <1>1, <1>3, <2>1, <2>2, MergeIntoIsFine DEF found
  <2>4. req' = [req EXCEPT ![q] = m]
    BY <1>4, <2>1 DEF IdentifyUser, r
  <2> QED
    BY <1>2, <2>3, <2>4, OnlyTheRequest DEF Goes1, history, r
<1>5. CASE r.kind = "oauth" /\ found = {}
  <2>1. PICK m : m = [r EXCEPT !.at = "count", !.new = ProviderUser(r.email, r.emails, r.provider)]
    OBVIOUS
  <2>2. ProviderUser(r.email, r.emails, r.provider) \in Documents
    BY <1>1, <1>3, MadeDocuments DEF RequestRecord
  <2>3. m \in RequestRecord
    BY <1>1, <2>1, <2>2 DEF RequestRecord, Stages
  <2>4. /\ m.at = "count" /\ m.new = ProviderUser(r.email, r.emails, r.provider) /\ m.id = r.id
        /\ m.kind = r.kind /\ m.rest = r.rest /\ m.next = r.next /\ m.held = r.held /\ m.email = r.email
    BY <1>1, <2>1 DEF RequestRecord
  <2>5. r.id = None
    BY <1>1, <1>2, <1>5 DEF Shape
  <2>6. Shape(born, m) /\ Dated(users, m) /\ Covered(users, m)
    BY <1>1, <1>2, <1>3, <1>5, <2>2, <2>4, <2>5 DEF Shape, Dated, Covered, OfAccount, Editing, found
  <2>7. req' = [req EXCEPT ![q] = m]
    BY <1>5, <2>1 DEF IdentifyUser, r, found
  <2> QED
    BY <1>2, <2>3, <2>6, <2>7, OnlyTheRequest DEF Goes1, history, r
<1>6. CASE r.kind = "oauth" /\ found # {}
  <2>1. \/ Finish(q)
        \/ \E keep \in found : req' = [req EXCEPT ![q] = MergeInto(r, keep, r.next[keep], Others(r.next, keep))]
    BY <1>6 DEF IdentifyUser, r, found
  <2>2. CASE Finish(q)
    BY <1>2, <2>2, Ends DEF history, r
  <2>3. CASE \E keep \in found :
               req' = [req EXCEPT ![q] = MergeInto(r, keep, r.next[keep], Others(r.next, keep))]
    <3>0. PICK keep \in found :
            req' = [req EXCEPT ![q] = MergeInto(r, keep, r.next[keep], Others(r.next, keep))]
      BY <2>3
    <3>1. PICK m : /\ m = MergeInto(r, keep, r.next[keep], Others(r.next, keep))
                   /\ req' = [req EXCEPT ![q] = m]
      BY <3>0
    <3>2. /\ Others(r.next, keep) \in Collections /\ DOMAIN Others(r.next, keep) = found \ {keep}
      BY <1>3, CollectionFacts DEF found
    <3>3. r.id = None
      BY <1>1, <1>2, <1>6 DEF Shape
    <3>4. \A w \in r.held : There(users, w) => w \in {keep} \cup DOMAIN Others(r.next, keep)
      BY <1>3, <3>2, <3>3, IdentityAssumption
    <3>5. m \in RequestRecord /\ Shape(born, m) /\ Dated(users, m) /\ Covered(users, m)
      BY <1>1, <1>3, <3>1, <3>2, <3>4, MergeIntoIsFine
    <3> QED
      BY <1>2, <3>1, <3>5, OnlyTheRequest DEF Goes1, history, r
  <2> QED
    BY <2>1, <2>2, <2>3
<1> QED
  BY <1>3, <1>4, <1>5, <1>6

LEMMA FindSameKeeps ==
  ASSUME IdentityInv, NEW q \in Requests, FindSame(q)
  PROVE  IdentityInv'
<1>1. /\ req[q] \in RequestRecord
      /\ Shape(born, req[q]) /\ Dated(users, req[q]) /\ Covered(users, req[q])
  BY TheRequest
<1> DEFINE same == SameAddress(req[q].email, req[q].id)
           pending == {w \in same : Pending(users[w])}
           held == Claimants(None, {req[q].email})
<1>2. PICK r : r = [req[q] EXCEPT !.at = "purge", !.rest = Load(pending),
                                  !.next = Load(same \ pending), !.held = held]
  OBVIOUS
<1>3. /\ req[q].at = "find" /\ req' = [req EXCEPT ![q] = r]
      /\ UNCHANGED <<users, acl, started, born, history>>
  BY <1>2 DEF FindSame, IdentityInv, Types
<1>4. /\ same \in SUBSET Users /\ (\A w \in same : Exists(w)) /\ pending \subseteq same
      /\ held \subseteq Users /\ \A w \in held : Exists(w) /\ w \in same \cup {req[q].id}
  BY DEF SameAddress, Claimants, Holders
<1>5. /\ Load(pending) \in Collections /\ DOMAIN Load(pending) = pending
      /\ Load(same \ pending) \in Collections /\ DOMAIN Load(same \ pending) = same \ pending
      /\ same \subseteq born /\ \A w \in same \ pending : AsOf(users, w, Load(same \ pending)[w])
  <2> HIDE DEF same, pending
  <2>1. pending \in SUBSET Users /\ same \ pending \in SUBSET Users
    BY <1>4
  <2> QED
    BY <1>4, <2>1, LoadFacts DEF IdentityInv
<1>6. held \subseteq born
  BY <1>4, ExistingAccount DEF IdentityInv
<1> HIDE DEF same, pending, held
<1>7. r \in RequestRecord
  BY <1>1, <1>2, <1>4, <1>5 DEF RequestRecord, Stages
<1>8. /\ r.at = "purge" /\ r.next = Load(same \ pending) /\ r.held = held /\ r.id = req[q].id
      /\ r.kind = req[q].kind /\ r.rest = Load(pending) /\ r.new = req[q].new /\ r.email = req[q].email
  BY <1>1, <1>2 DEF RequestRecord
<1>9. Shape(born, r)
  BY <1>1, <1>3, <1>5, <1>6, <1>8 DEF Shape, OfAccount, Editing
<1>10. Dated(users, r) /\ Covered(users, r)
  BY <1>1, <1>3, <1>4, <1>5, <1>8 DEF Dated, Covered, OfAccount, Editing
<1> QED
  BY <1>3, <1>7, <1>9, <1>10, OnlyTheRequest DEF Goes1, history

LEMMA ConfirmMergeKeeps ==
  ASSUME IdentityInv, NEW q \in Requests, ConfirmMerge(q)
  PROVE  IdentityInv'
<1> DEFINE r == req[q]
           all == [w \in DOMAIN r.next \cup {r.id} |-> IF w = r.id THEN r.new ELSE r.next[w]]
<1>1. r \in RequestRecord /\ Shape(born, r) /\ Dated(users, r) /\ Covered(users, r)
  BY TheRequest
<1>2. r.at = "purge" /\ DOMAIN r.rest = {} /\ UNCHANGED <<users, acl, started, born, history>>
  BY DEF ConfirmMerge
<1>3. /\ r.kind = "confirm" /\ r.email \in Emails /\ r.held \subseteq born
      /\ r.next \in Collections /\ DOMAIN r.next \subseteq born
      /\ \A w \in DOMAIN r.next : r.next[w] \in Documents /\ AsOf(users, w, r.next[w])
      /\ \A w \in r.held : There(users, w) => w \in {r.id} \cup DOMAIN r.next
      /\ r.id \in born /\ r.new \in Documents /\ AsOf(users, r.id, r.new)
      /\ born \in SUBSET Users
  <2>1. r.next \in Collections
    BY <1>1 DEF RequestRecord
  <2> QED
    BY <1>1, <1>2, <2>1, CollectionFacts DEF Shape, Dated, Covered, OfAccount, Editing, IdentityInv, Types
<1>4. /\ DOMAIN all = DOMAIN r.next \cup {r.id} /\ all \in Collections
      /\ \A w \in DOMAIN all : all[w] \in Documents /\ AsOf(users, w, all[w]) /\ w \in born
  <2>1. all \in [DOMAIN r.next \cup {r.id} -> Documents]
    BY <1>3
  <2>2. (DOMAIN r.next \cup {r.id}) \in SUBSET Users
    BY <1>3
  <2>3. all \in Collections
    BY <2>1, <2>2 DEF Collections
  <2> QED
    BY <1>3, <2>3
<1>5. \/ Finish(q)
      \/ req' = [req EXCEPT ![q] = MergeInto(r, r.id, r.new, r.next)]
      \/ \E keep \in DOMAIN all : req' = [req EXCEPT ![q] = MergeInto(r, keep, all[keep], Others(all, keep))]
  BY DEF ConfirmMerge
<1> HIDE DEF r, all
<1>6. CASE Finish(q)
  BY <1>2, <1>6, Ends DEF history, r
<1>7. CASE req' = [req EXCEPT ![q] = MergeInto(r, r.id, r.new, r.next)]
  <2>1. PICK m : m = MergeInto(r, r.id, r.new, r.next)
    OBVIOUS
  <2>2. m \in RequestRecord /\ Shape(born, m) /\ Dated(users, m) /\ Covered(users, m)
    BY <1>1, <1>3, <2>1, MergeIntoIsFine
  <2> QED
    BY <1>2, <1>7, <2>1, <2>2, OnlyTheRequest DEF Goes1, history, r
<1>8. CASE \E keep \in DOMAIN all :
             req' = [req EXCEPT ![q] = MergeInto(r, keep, all[keep], Others(all, keep))]
  <2>0. PICK keep \in DOMAIN all :
          req' = [req EXCEPT ![q] = MergeInto(r, keep, all[keep], Others(all, keep))]
    BY <1>8
  <2>1. PICK m : m = MergeInto(r, keep, all[keep], Others(all, keep)) /\ req' = [req EXCEPT ![q] = m]
    BY <2>0
  <2>2. Others(all, keep) \in Collections /\ DOMAIN Others(all, keep) = DOMAIN all \ {keep}
    BY <1>4, CollectionFacts
  <2>3. \A w \in r.held : There(users, w) => w \in {keep} \cup DOMAIN Others(all, keep)
    BY <1>3, <1>4, <2>2
  <2>4. m \in RequestRecord /\ Shape(born, m) /\ Dated(users, m) /\ Covered(users, m)
    BY <1>1, <1>3, <1>4, <2>1, <2>2, <2>3, MergeIntoIsFine
  <2> QED
    BY <1>2, <2>1, <2>4, OnlyTheRequest DEF Goes1, history, r
<1> QED
  BY <1>5, <1>6, <1>7, <1>8

-----------------------------------------------------------------------------
(* A user is created *)

LEMMA InsertUserKeeps ==
  ASSUME IdentityInv, NEW q \in Requests, NEW u \in Users, InsertUser(q, u)
  PROVE  IdentityInv'
<1>1. /\ req[q] \in RequestRecord
      /\ Shape(born, req[q]) /\ Dated(users, req[q]) /\ Covered(users, req[q])
  BY TheRequest
<1>2. Types /\ RequestInv /\ RolesInv /\ TwinInv /\ RootInv
  BY DEF IdentityInv
<1> DEFINE d == req[q].new
<1>3. PICK r : r = [req[q] EXCEPT !.at = "grant", !.id = u]
  OBVIOUS
<1>4. /\ req[q].at = "insert" /\ u \notin born /\ req' = [req EXCEPT ![q] = r]
      /\ users' = [users EXCEPT ![u] = d] /\ born' = born \cup {u}
      /\ asRoot' = IF "root" \in d.roles THEN asRoot \cup {u} ELSE asRoot
      /\ raced' = IF \A w \in Users : Exists(w) => w \in req[q].seen THEN raced ELSE raced \cup {u}
      /\ twins' = IF Claimants(d.provider, d.validated) \subseteq req[q].held THEN twins ELSE twins \cup {u}
      /\ UNCHANGED <<acl, started, gained, crossed, failed>>
  BY <1>2, <1>3 DEF InsertUser, Types
<1>5. /\ d \in Documents /\ DOMAIN req[q].rest = {} /\ DOMAIN req[q].next = {} /\ req[q].id = None
      /\ ("root" \in d.roles => req[q].seen = {})
      /\ \A w \in req[q].held : There(users, w) => w = None
  BY <1>1, <1>4 DEF Shape, Covered
<1> HIDE DEF d
<1>6. /\ users' \in Database /\ users'[u] = d /\ There(users', u) /\ ~There(users, u) /\ acl[u] = {}
      /\ \A w \in Users \ {u} : users'[w] = users[w]
  BY <1>2, <1>4, <1>5, DocumentFields DEF Types, Database, There
<1>7. Evolves(users, users', born, born')
  BY <1>2, <1>4, <1>6 DEF Evolves, Types, Moved, There
<1>8. r \in RequestRecord
  BY <1>1, <1>3 DEF RequestRecord, Stages
<1>9. /\ r.at = "grant" /\ r.id = u /\ r.new = d /\ r.kind = req[q].kind /\ r.email = req[q].email
      /\ r.next = req[q].next /\ r.held = req[q].held
  BY <1>1, <1>3 DEF RequestRecord, d
<1>10. Shape(born', r) /\ Dated(users', r) /\ Covered(users', r)
  BY <1>1, <1>4, <1>5, <1>9 DEF Shape, Dated, Covered, OfAccount, Editing
<1>11. req' \in [Requests -> RequestRecord] /\ RequestInv'
  BY <1>2, <1>4, <1>7, <1>8, <1>10, RequestStep
<1>12. Types'
  BY <1>2, <1>4, <1>6, <1>11 DEF Types
<1>13. req'[q] = r /\ \A p \in Requests \ {q} : req'[p] = req[p]
  BY <1>2, <1>4 DEF Types
<1>14. RolesInv'
  <2> SUFFICES ASSUME NEW x \in Users, x \notin crossed', x \notin failed'
               PROVE  NoRoleTooMany(x)' /\ (x \notin gained' => NoRoleTooFew(x)')
    BY DEF RolesInv
  <2>1. NoRoleTooMany(x) /\ (x \notin gained => NoRoleTooFew(x))
    BY <1>2, <1>4 DEF RolesInv
  <2>2. ASSUME NEW role, NEW p \in Requests
        PROVE  /\ Takes(p, x, role) => Takes(p, x, role)'
               /\ Gives(p, x, role) => Gives(p, x, role)'
    BY <1>4, <1>13 DEF Takes, Gives
  <2>3. CASE x = u
    <3>1. NoRoleTooMany(x)'
      BY <1>4, <1>6, <2>3 DEF NoRoleTooMany
    <3>2. ASSUME NEW role, HasRole(x, role)'  PROVE Gives(q, x, role)'
      BY <1>6, <1>9, <1>13, <2>3, <3>2 DEF HasRole, Gives
    <3> QED
      BY <3>1, <3>2 DEF NoRoleTooFew
  <2>4. CASE x # u
    <3>1. \A role : HasRole(x, role) <=> HasRole(x, role)'
      BY <1>6, <2>4 DEF HasRole, Exists
    <3> QED
      BY <1>4, <2>1, <2>2, <3>1 DEF NoRoleTooMany, NoRoleTooFew
  <2> QED
    BY <2>3, <2>4
<1>15. ASSUME NEW w \in Users, Alike(users', u, w) \/ Alike(users', w, u)  PROVE u \in twins'
  <2>1. w # u /\ There(users, w) /\ users'[w] = users[w] /\ w # None
    BY <1>6, <1>15, IdentityAssumption DEF Alike, There
  <2>2. w \in Claimants(d.provider, d.validated)
    BY <1>6, <1>15, <2>1 DEF Alike, Claimants, Holders, Exists, There
  <2>3. w \notin req[q].held
    BY <1>5, <2>1
  <2> QED
    BY <1>4, <2>2, <2>3
<1>16. TwinInv'
  <2> SUFFICES ASSUME NEW x \in Users, NEW w \in Users, x \notin twins', w \notin twins',
                      Alike(users', x, w), x \notin failed', w \notin failed'
               PROVE  \E p \in Requests : Merging(p, x, w)'
    BY DEF TwinInv
  <2>1. x # u /\ w # u
    BY <1>15
  <2>2. Alike(users, x, w)
    BY <1>6, <2>1 DEF Alike, There
  <2>3. PICK p \in Requests : Merging(p, x, w)
    BY <1>2, <1>4, <2>2 DEF TwinInv
  <2>4. p # q
    BY <1>4, <2>3 DEF Merging
  <2> QED
    BY <1>13, <2>3, <2>4 DEF Merging
<1>17. RootInv'
  <2>1. asRoot' \subseteq born'
    BY <1>2, <1>4 DEF RootInv
  <2>2. ASSUME NEW x \in asRoot' \ raced', NEW w \in asRoot' \ raced', Exists(x)', Exists(w)'
        PROVE  x = w
    <3>1. ASSUME NEW y \in asRoot' \ raced', Exists(y)', y # u  PROVE y \in asRoot \ raced /\ Exists(y)
      <4>1. y \in Users /\ y \in asRoot
        BY <1>2, <1>4, <3>1 DEF RootInv, Types
      <4> QED
        BY <1>4, <1>6, <3>1, <4>1 DEF Exists
    <3>2. ASSUME NEW y \in asRoot \ raced, Exists(y), u \in asRoot' \ raced'  PROVE FALSE
      <4>1. u \notin asRoot
        BY <1>2, <1>4 DEF RootInv
      <4>2. req[q].seen = {}
        BY <1>4, <1>5, <3>2, <4>1
      <4>3. y \in Users
        BY <1>2, <3>2 DEF RootInv, Types
      <4> QED
        BY <1>4, <3>2, <4>2, <4>3
    <3> QED
      BY <1>2, <2>2, <3>1, <3>2 DEF RootInv
  <2> QED
    BY <2>1, <2>2 DEF RootInv
<1> QED
  BY <1>11, <1>12, <1>14, <1>16, <1>17 DEF IdentityInv

LEMMA GrantKeeps ==
  ASSUME IdentityInv, NEW q \in Requests, Grant(q)
  PROVE  IdentityInv'
<1>1. req[q] \in RequestRecord /\ Shape(born, req[q])
  BY TheRequest
<1>2. Types /\ RequestInv /\ RolesInv /\ TwinInv /\ RootInv
  BY DEF IdentityInv
<1> DEFINE u == req[q].id
           roles == req[q].new.roles
<1>3. /\ req[q].at = "grant" /\ acl' = [acl EXCEPT ![u] = @ \cup roles] /\ Finish(q)
      /\ crossed' = IF Exists(u) /\ users[u].roles = roles THEN crossed ELSE crossed \cup {u}
      /\ UNCHANGED <<users, started, born, vouched, asRoot, raced, twins, gained, failed>>
  BY DEF Grant
<1>4. u \in born /\ u \in Users /\ roles \subseteq Roles
  <2>1. req[q].new \in Documents /\ u \in born
    BY <1>1, <1>3 DEF Shape, OfAccount
  <2> QED
    BY <1>2, <2>1, DocumentFields DEF Types
<1>5. req' \in [Requests -> RequestRecord] /\ RequestInv'
  BY <1>2, <1>3, SameDatabase, RequestStep, IdleFacts, IdleIsFine DEF Finish
<1>6. acl'[u] = acl[u] \cup roles /\ \A w \in Users \ {u} : acl'[w] = acl[w]
  BY <1>2, <1>3, <1>4 DEF Types
<1>7. \A p \in Requests \ {q} : req'[p] = req[p]
  BY <1>2, <1>3 DEF Types, Finish
<1>8. Types'
  BY <1>2, <1>3, <1>4, <1>5, <1>6 DEF Types
<1>9. RolesInv'
  <2> SUFFICES ASSUME NEW x \in Users, x \notin crossed', x \notin failed'
               PROVE  NoRoleTooMany(x)' /\ (x \notin gained' => NoRoleTooFew(x)')
    BY DEF RolesInv
  <2>1. NoRoleTooMany(x) /\ (x \notin gained => NoRoleTooFew(x))
    BY <1>2, <1>3 DEF RolesInv
  <2>2. \A role : HasRole(x, role) <=> HasRole(x, role)'
    BY <1>3 DEF HasRole, Exists
  <2>3. ASSUME NEW role, NEW p \in Requests  PROVE Takes(p, x, role) => Takes(p, x, role)'
    BY <1>3, <1>7 DEF Takes
  <2>4. ASSUME NEW role, NEW p \in Requests, x # u \/ p # q  PROVE Gives(p, x, role) => Gives(p, x, role)'
    BY <1>7, <2>4 DEF Gives
  <2>5. CASE x = u
    <3>1. \A role \in roles : HasRole(x, role)
      BY <1>3, <2>5 DEF HasRole
    <3>2. NoRoleTooMany(x)'
      BY <1>6, <2>1, <2>2, <2>3, <2>5, <3>1 DEF NoRoleTooMany
    <3>3. \A role : HasRole(x, role) => role \in roles
      BY <1>3, <2>5 DEF HasRole
    <3>4. NoRoleTooFew(x)'
      BY <1>6, <2>2, <2>5, <3>3 DEF NoRoleTooFew
    <3> QED
      BY <3>2, <3>4
  <2>6. CASE x # u
    BY <1>3, <1>6, <2>1, <2>2, <2>3, <2>4, <2>6 DEF NoRoleTooMany, NoRoleTooFew
  <2> QED
    BY <2>5, <2>6
<1>10. TwinInv'
  BY <1>2, <1>3, <1>7, TwinsAside
<1>11. RootInv'
  BY <1>2, <1>3, RootAside DEF Types
<1> QED
  BY <1>5, <1>8, <1>9, <1>10, <1>11 DEF IdentityInv

LEMMA RevokeRolesKeeps ==
  ASSUME IdentityInv, NEW q \in Requests, RevokeRoles(q)
  PROVE  IdentityInv'
<1>1. /\ req[q] \in RequestRecord /\ Shape(born, req[q])
      /\ Dated(users, req[q]) /\ Covered(users, req[q])
  BY TheRequest
<1>2. Types /\ RequestInv /\ RolesInv /\ TwinInv /\ RootInv
  BY DEF IdentityInv
<1> DEFINE u == req[q].id
           lost == req[q].old.roles \ req[q].new.roles
<1>3. PICK r : r = [req[q] EXCEPT !.at = "grant"]
  OBVIOUS
<1>4. /\ req[q].at = "revoke" /\ acl' = [acl EXCEPT ![u] = @ \ lost] /\ req' = [req EXCEPT ![q] = r]
      /\ crossed' = IF Exists(u) /\ users[u].roles = req[q].new.roles THEN crossed ELSE crossed \cup {u}
      /\ UNCHANGED <<users, started, born, vouched, asRoot, raced, twins, gained, failed>>
  BY <1>2, <1>3 DEF RevokeRoles, Goes, Types
<1>5. u \in born /\ u \in Users
  BY <1>1, <1>2, <1>4 DEF Shape, OfAccount, Types
<1>6. r \in RequestRecord
  BY <1>1, <1>3 DEF RequestRecord, Stages
<1>7. /\ r.at = "grant" /\ r.id = u /\ r.new = req[q].new /\ r.kind = req[q].kind
      /\ r.email = req[q].email /\ r.next = req[q].next /\ r.held = req[q].held
  BY <1>1, <1>3 DEF RequestRecord
<1>8. Shape(born, r) /\ Dated(users, r) /\ Covered(users, r)
  BY <1>1, <1>4, <1>7 DEF Shape, Dated, Covered, OfAccount, Editing
<1>9. req' \in [Requests -> RequestRecord] /\ RequestInv'
  BY <1>2, <1>4, <1>6, <1>8, SameDatabase, RequestStep
<1>10. acl'[u] = acl[u] \ lost /\ \A w \in Users \ {u} : acl'[w] = acl[w]
  BY <1>2, <1>4, <1>5 DEF Types
<1>11. req'[q] = r /\ \A p \in Requests \ {q} : req'[p] = req[p]
  BY <1>2, <1>4 DEF Types
<1>12. Types'
  BY <1>2, <1>4, <1>5, <1>9, <1>10 DEF Types
<1>13. RolesInv'
  <2> SUFFICES ASSUME NEW x \in Users, x \notin crossed', x \notin failed'
               PROVE  NoRoleTooMany(x)' /\ (x \notin gained' => NoRoleTooFew(x)')
    BY DEF RolesInv
  <2>1. NoRoleTooMany(x) /\ (x \notin gained => NoRoleTooFew(x))
    BY <1>2, <1>4 DEF RolesInv
  <2>2. \A role : HasRole(x, role) <=> HasRole(x, role)'
    BY <1>4 DEF HasRole, Exists
  <2>3. ASSUME NEW role, NEW p \in Requests  PROVE Gives(p, x, role) => Gives(p, x, role)'
    BY <1>7, <1>11 DEF Gives
  <2>4. ASSUME NEW role, NEW p \in Requests, Takes(p, x, role)
        PROVE  Takes(p, x, role)' \/ (x = u /\ role \in lost)
    BY <1>11, <2>4 DEF Takes
  <2>5. NoRoleTooMany(x)'
    BY <1>10, <2>1, <2>2, <2>4 DEF NoRoleTooMany
  <2>6. NoRoleTooFew(x) => NoRoleTooFew(x)'
    <3>1. ASSUME NEW role, HasRole(x, role), role \in acl[x], role \notin acl'[x]  PROVE FALSE
      <4>1. x = u /\ role \in lost
        BY <1>10, <3>1
      <4> QED
        BY <1>4, <3>1, <4>1 DEF HasRole
    <3> QED
      BY <2>2, <2>3, <3>1 DEF NoRoleTooFew
  <2> QED
    BY <1>4, <2>1, <2>5, <2>6
<1>14. TwinInv'
  BY <1>2, <1>4, <1>11, TwinsAside
<1>15. RootInv'
  BY <1>2, <1>4, RootAside DEF Types
<1> QED
  BY <1>9, <1>12, <1>13, <1>14, <1>15 DEF IdentityInv

-----------------------------------------------------------------------------
(* An account is saved *)

\* Who becomes like another one with a save claims what that one has.
LEMMA SavedAlike ==
  ASSUME Types, NEW u \in born, NEW old \in Documents, NEW new \in Documents,
         CanSave(u, old, new), AsOf(users, u, old), users' = Saved(u, old, new), born' = born,
         NEW w \in Users, Alike(users', u, w) \/ Alike(users', w, u), ~Alike(users, u, w)
  PROVE  /\ w # u /\ There(users, w)
         /\ w \in Claimants(IF new.provider = old.provider THEN None ELSE new.provider,
                            new.validated \ old.validated)
<1>1. /\ \A x \in Users \ {u} : users'[x] = users[x]
      /\ \A x \in Users : There(users', x) <=> There(users, x)
      /\ users'[u].provider = IF old.provider # new.provider THEN new.provider ELSE users[u].provider
      /\ IF ListsDiffer(old, new)
           THEN users[u].validated = old.validated /\ users'[u].validated = new.validated
           ELSE users'[u].validated = users[u].validated
  BY SavedFacts
<1>2. w # u /\ There(users, w) /\ There(users, u) /\ users'[w] = users[w]
  BY <1>1 DEF Alike, Types
<1>3. CASE users'[u].provider # None /\ users'[u].provider = users'[w].provider
  <2>1. old.provider # new.provider /\ new.provider = users[w].provider /\ new.provider # None
    BY <1>1, <1>2, <1>3 DEF Alike
  <2> QED
    BY <1>2, <2>1 DEF Claimants, Holders, There, Exists
<1>4. CASE users'[u].validated \cap users'[w].validated # {}
  <2>1. PICK e : e \in users'[u].validated /\ e \in users[w].validated
    BY <1>2, <1>4
  <2>2. e \notin users[u].validated
    BY <1>2, <2>1 DEF Alike
  <2>3. e \in new.validated \ old.validated
    BY <1>1, <2>1, <2>2
  <2> QED
    BY <1>2, <2>1, <2>3 DEF Claimants, There, Exists
<1> QED
  BY <1>3, <1>4 DEF Alike

LEMMA AlikeTurns ==
  ASSUME NEW db, NEW u, NEW w
  PROVE  Alike(db, u, w) <=> Alike(db, w, u)
BY DEF Alike

LEMMA SaveUserKeeps ==
  ASSUME IdentityInv, NEW q \in Requests, SaveUser(q)
  PROVE  IdentityInv'
<1>1. /\ req[q] \in RequestRecord
      /\ Shape(born, req[q]) /\ Dated(users, req[q]) /\ Covered(users, req[q])
  BY TheRequest
<1>2. Types /\ RequestInv /\ RolesInv /\ TwinInv /\ RootInv
  BY DEF IdentityInv
<1> DEFINE u == req[q].id
           old == req[q].old
           new == req[q].new
<1>3. /\ req[q].at = "save"
      /\ UNCHANGED <<acl, started, born, asRoot, raced, gained, crossed, failed>>
  BY DEF SaveUser
<1>4. /\ u \in born /\ u \in Users /\ old \in Documents /\ new \in Documents /\ AsOf(users, u, old)
      /\ (req[q].kind # "admin" => old.roles = new.roles)
      /\ DOMAIN req[q].rest = {} /\ DOMAIN req[q].next = {}
  BY <1>1, <1>2, <1>3 DEF Shape, Dated, OfAccount, Types
<1>5. CASE ~CanSave(u, old, new)
  <2>1. Finish(q) /\ UNCHANGED <<users, twins>>
    BY <1>5 DEF SaveUser
  <2> QED
    BY <1>3, <2>1, Ends
<1>6. CASE CanSave(u, old, new)
  <2>1. /\ users' = Saved(u, old, new)
        /\ twins' = IF Twin(q) THEN twins \cup {u} ELSE twins
        /\ IF req[q].kind = "admin" /\ old.roles # new.roles THEN Goes(q, "revoke") ELSE Finish(q)
    BY <1>6 DEF SaveUser
  <2>2. /\ Evolves(users, users', born, born')
        /\ \A w \in Users \ {u} : users'[w] = users[w]
        /\ \A w \in Users : There(users', w) <=> There(users, w)
        /\ IF ListsDiffer(old, new)
             THEN users[u].roles = old.roles /\ users'[u].roles = new.roles
             ELSE users'[u].roles = users[u].roles /\ old.roles = new.roles
    BY <1>2, <1>3, <1>4, <1>6, <2>1, SavedFacts
  <2>3. PICK r \in RequestRecord :
          /\ req' = [req EXCEPT ![q] = r]
          /\ IF old.roles # new.roles
               THEN r.at = "revoke" /\ r.id = u /\ r.old = old /\ r.new = new
               ELSE r = Idle
          /\ Shape(born, r) /\ Dated(users', r) /\ Covered(users', r)
    <3>1. CASE old.roles # new.roles
      <4>1. PICK r : r = [req[q] EXCEPT !.at = "revoke"]
        OBVIOUS
      <4>2. r \in RequestRecord
        BY <1>1, <4>1 DEF RequestRecord, Stages
      <4>3. /\ r.at = "revoke" /\ r.id = u /\ r.old = old /\ r.new = new /\ r.kind = req[q].kind
            /\ r.email = req[q].email /\ r.next = req[q].next /\ r.held = req[q].held
        BY <1>1, <4>1 DEF RequestRecord
      <4>4. Shape(born, r) /\ Dated(users', r) /\ Covered(users', r)
        BY <1>1, <1>3, <1>4, <4>3 DEF Shape, Dated, Covered, OfAccount, Editing
      <4>5. req' = [req EXCEPT ![q] = r]
        BY <1>2, <1>4, <2>1, <3>1, <4>1 DEF Goes, Types
      <4> QED
        BY <3>1, <4>2, <4>3, <4>4, <4>5
    <3>2. CASE old.roles = new.roles
      BY <2>1, <3>2, IdleFacts, IdleIsFine DEF Finish
    <3> QED
      BY <3>1, <3>2
  <2>4. req' \in [Requests -> RequestRecord] /\ RequestInv'
    BY <1>2, <1>3, <2>2, <2>3, RequestStep
  <2>5. req'[q] = r /\ \A p \in Requests \ {q} : req'[p] = req[p]
    BY <1>2, <2>3 DEF Types
  <2>6. Types'
    BY <1>2, <1>3, <1>4, <2>2, <2>4 DEF Types, Evolves
  <2>7. RolesInv'
    <3>1. CASE old.roles = new.roles
      <4>1. \A w \in Users : users'[w].roles = users[w].roles
        BY <2>2, <3>1
      <4> QED
        BY <1>2, <1>3, <2>2, <2>5, <4>1, RolesAside
    <3>2. CASE old.roles # new.roles
      <4>1. users[u].roles = old.roles /\ users'[u].roles = new.roles /\ There(users, u) /\ There(users', u)
        BY <1>4, <1>6, <2>2, <3>2 DEF ListsDiffer, CanSave, Exists, There
      <4> SUFFICES ASSUME NEW x \in Users, x \notin crossed', x \notin failed'
                   PROVE  NoRoleTooMany(x)' /\ (x \notin gained' => NoRoleTooFew(x)')
        BY DEF RolesInv
      <4>2. NoRoleTooMany(x) /\ (x \notin gained => NoRoleTooFew(x))
        BY <1>2, <1>3 DEF RolesInv
      <4>3. ASSUME NEW role, NEW p \in Requests
            PROVE  /\ Takes(p, x, role) => Takes(p, x, role)'
                   /\ Gives(p, x, role) => Gives(p, x, role)'
        BY <1>3, <2>5 DEF Takes, Gives
      <4>4. CASE x = u
        <5>1. ASSUME NEW role, HasRole(x, role), ~HasRole(x, role)'  PROVE Takes(q, x, role)'
          BY <2>3, <2>5, <3>2, <4>1, <4>4, <5>1 DEF HasRole, Takes, There, Exists
        <5>2. ASSUME NEW role, HasRole(x, role)'  PROVE Gives(q, x, role)'
          BY <2>3, <2>5, <3>2, <4>1, <4>4, <5>2 DEF HasRole, Gives, There, Exists
        <5>3. NoRoleTooMany(x)'
          BY <1>3, <4>2, <4>3, <5>1 DEF NoRoleTooMany
        <5>4. NoRoleTooFew(x)'
          BY <5>2 DEF NoRoleTooFew
        <5> QED
          BY <5>3, <5>4
      <4>5. CASE x # u
        <5>1. \A role : HasRole(x, role) <=> HasRole(x, role)'
          BY <2>2, <4>5 DEF HasRole, Exists
        <5> QED
          BY <1>3, <4>2, <4>3, <5>1 DEF NoRoleTooMany, NoRoleTooFew
      <4> QED
        BY <4>4, <4>5
    <3> QED
      BY <3>1, <3>2
  <2>8. ASSUME NEW w \in Users, Alike(users', u, w) \/ Alike(users', w, u), ~Alike(users, u, w)
        PROVE  u \in twins'
    <3>1. /\ w # u /\ There(users, w)
          /\ w \in Claimants(IF new.provider = old.provider THEN None ELSE new.provider,
                             new.validated \ old.validated)
      BY <1>2, <1>3, <1>4, <1>6, <2>1, <2>8, SavedAlike
    <3>2. req[q].kind # "put" => w \notin req[q].held
      BY <1>1, <1>3, <1>4, <3>1 DEF Covered
    <3>3. Twin(q)
      BY <3>1, <3>2 DEF Twin
    <3> QED
      BY <2>1, <3>3
  <2>9. TwinInv'
    <3>1. twins \subseteq twins'
      BY <2>1
    <3> SUFFICES ASSUME NEW x \in Users, NEW w \in Users, x \notin twins', w \notin twins',
                        Alike(users', x, w), x \notin failed', w \notin failed'
                 PROVE  \E p \in Requests : Merging(p, x, w)'
      BY DEF TwinInv
    <3>2. Alike(users, x, w)
      <4>1. CASE x = u \/ w = u
        BY <2>8, <4>1, AlikeTurns
      <4>2. CASE x # u /\ w # u
        BY <2>2, <4>2 DEF Alike
      <4> QED
        BY <4>1, <4>2
    <3>3. PICK p \in Requests : Merging(p, x, w)
      BY <1>2, <1>3, <3>1, <3>2 DEF TwinInv
    <3>4. p # q
      BY <1>3, <3>3 DEF Merging
    <3> QED
      BY <2>5, <3>3, <3>4 DEF Merging
  <2>10. RootInv'
    BY <1>2, <1>3, <2>2, RootAside DEF Types
  <2> QED
    BY <2>4, <2>6, <2>7, <2>9, <2>10 DEF IdentityInv
<1> QED
  BY <1>5, <1>6

-----------------------------------------------------------------------------
(* Accounts are merged and removed *)

LEMMA MergeUserKeeps ==
  ASSUME IdentityInv, NEW q \in Requests, NEW x \in Users, MergeUser(q, x)
  PROVE  IdentityInv'
<1>1. /\ req[q] \in RequestRecord
      /\ Shape(born, req[q]) /\ Dated(users, req[q]) /\ Covered(users, req[q])
  BY TheRequest
<1>2. Types /\ RequestInv /\ RolesInv /\ TwinInv /\ RootInv
  BY DEF IdentityInv
<1> DEFINE u == req[q].id
           keep == req[q].new
           other == req[q].rest[x]
           doc == Merged(keep, other)
           kept == InMemory(keep, doc)
<1>3. /\ req[q].at = "merge" /\ x \in DOMAIN req[q].rest
      /\ UNCHANGED <<acl, started, born, vouched, asRoot, raced, crossed, failed>>
  BY DEF MergeUser
<1>4. /\ u \in born /\ u \in Users /\ keep \in Documents /\ other \in Documents /\ AsOf(users, u, keep)
  <2>1. req[q].rest \in Collections
    BY <1>1 DEF RequestRecord
  <2> QED
    BY <1>1, <1>2, <1>3, <2>1, CollectionFacts DEF Shape, Dated, OfAccount, Editing, Types
<1>5. CASE x = u \/ ~CanSave(u, keep, doc)
  <2>1. Finish(q) /\ UNCHANGED <<users, gained, twins>>
    BY <1>5 DEF MergeUser
  <2> QED
    BY <1>3, <2>1, Ends
<1>6. CASE x # u /\ CanSave(u, keep, doc)
  <2>1. PICK r : r = [req[q] EXCEPT !.at = "remove", !.gone = x, !.old = kept, !.new = kept]
    OBVIOUS
  <2>2. /\ users' = Saved(u, keep, doc) /\ req' = [req EXCEPT ![q] = r]
        /\ gained' = IF doc.roles = keep.roles THEN gained ELSE gained \cup {u}
        /\ twins' = IF MergesAlone(req[q], x, doc) THEN twins ELSE twins \cup {u}
    BY <1>6, <2>1 DEF MergeUser
  <2>3. /\ doc \in Documents /\ doc.roles = keep.roles \cup other.roles
        /\ kept \in Documents /\ kept.roles = doc.roles /\ kept.validated = doc.validated
        /\ kept.v = IF ListsDiffer(keep, doc) THEN keep.v + 1 ELSE keep.v
    BY <1>4, MergedFacts
  <2>4. /\ Evolves(users, users', born, born')
        /\ \A w \in Users \ {u} : users'[w] = users[w]
        /\ Exists(u) /\ users'[u] \in Documents /\ users[u] \in Documents
        /\ \A w \in Users : There(users', w) <=> There(users, w)
        /\ IF ListsDiffer(keep, doc)
             THEN /\ users[u].roles = keep.roles /\ users[u].validated = keep.validated
                  /\ users'[u].roles = doc.roles /\ users'[u].validated = doc.validated
                  /\ users'[u].v = users[u].v + 1 /\ users[u].v = keep.v
             ELSE /\ users'[u].roles = users[u].roles /\ users'[u].validated = users[u].validated
                  /\ users'[u].v = users[u].v
                  /\ keep.roles = doc.roles /\ keep.validated = doc.validated
    <3>1. CanSave(u, keep, doc) /\ users' = Saved(u, keep, doc)
      BY <1>6, <2>2
    <3> HIDE DEF doc, kept
    <3> QED
      BY <1>2, <1>3, <1>4, <2>3, <3>1, SavedFacts
  <2> HIDE DEF doc, kept
  <2>5. AsOf(users', u, kept)
    <3>1. users[u].v \in Nat /\ keep.v \in Nat
      BY <1>4, <2>4, DocumentFields
    <3> QED
      BY <1>4, <2>3, <2>4, <3>1 DEF AsOf, There, Exists
  <2>6. r \in RequestRecord
    BY <1>1, <2>1, <2>3 DEF RequestRecord, Stages
  <2>7. /\ r.at = "remove" /\ r.gone = x /\ r.new = kept /\ r.id = u /\ r.kind = req[q].kind
        /\ r.email = req[q].email /\ r.rest = req[q].rest /\ r.next = req[q].next /\ r.held = req[q].held
    BY <1>1, <2>1 DEF RequestRecord
  <2>8. Shape(born, r) /\ Dated(users', r) /\ Covered(users', r)
    <3>1. Shape(born, r)
      BY <1>1, <1>3, <1>6, <2>3, <2>7 DEF Shape, OfAccount, Editing
    <3>2. Dated(users', r)
      BY <1>1, <1>3, <2>5, <2>7 DEF Shape, Dated, Editing
    <3>3. \A w \in r.held : w \in Users
      BY <2>6 DEF RequestRecord
    <3>4. Covered(users', r)
      BY <1>1, <1>3, <2>4, <2>7, <3>3 DEF Covered
    <3> QED
      BY <3>1, <3>2, <3>4
  <2>9. req' \in [Requests -> RequestRecord] /\ RequestInv'
    BY <1>2, <1>3, <2>2, <2>4, <2>6, <2>8, RequestStep
  <2>10. req'[q] = r /\ \A p \in Requests \ {q} : req'[p] = req[p]
    BY <1>2, <2>2 DEF Types
  <2>11. Types'
    BY <1>2, <1>3, <1>4, <2>4, <2>9 DEF Types, Evolves
  <2>12. RolesInv'
    <3> SUFFICES ASSUME NEW y \in Users, y \notin crossed', y \notin failed'
                 PROVE  NoRoleTooMany(y)' /\ (y \notin gained' => NoRoleTooFew(y)')
      BY DEF RolesInv
    <3>1. NoRoleTooMany(y) /\ (y \notin gained => NoRoleTooFew(y))
      BY <1>2, <1>3 DEF RolesInv
    <3>2. ASSUME NEW role, NEW p \in Requests
          PROVE  /\ Takes(p, y, role) => Takes(p, y, role)'
                 /\ Gives(p, y, role) => Gives(p, y, role)'
      BY <1>3, <2>10 DEF Takes, Gives
    <3>3. ASSUME NEW role, HasRole(y, role)  PROVE HasRole(y, role)'
      <4>1. users'[y].roles = users[y].roles \/ (y = u /\ users[u].roles \subseteq users'[u].roles)
        BY <2>3, <2>4
      <4> QED
        BY <2>4, <3>3, <4>1 DEF HasRole, There, Exists
    <3>4. NoRoleTooMany(y)'
      BY <1>3, <3>1, <3>2, <3>3 DEF NoRoleTooMany
    <3>5. ASSUME y \notin gained'  PROVE NoRoleTooFew(y)'
      <4>1. y \notin gained /\ (y = u => doc.roles = keep.roles)
        BY <2>2, <3>5
      <4>2. users'[y].roles = users[y].roles
        BY <2>4, <4>1
      <4>3. \A role : HasRole(y, role)' => HasRole(y, role)
        BY <2>4, <4>2 DEF HasRole, There, Exists
      <4> QED
        BY <1>3, <3>1, <3>2, <4>1, <4>3 DEF NoRoleTooFew
    <3> QED
      BY <3>4, <3>5
  <2>13. ASSUME NEW w \in Users, Alike(users', u, w) \/ Alike(users', w, u), ~Alike(users, u, w), w # x
         PROVE  u \in twins'
    <3>1. /\ w # u /\ There(users, w)
          /\ w \in Claimants(IF doc.provider = keep.provider THEN None ELSE doc.provider,
                             doc.validated \ keep.validated)
      BY <1>2, <1>3, <1>4, <1>6, <2>2, <2>3, <2>13, SavedAlike
    <3>2. doc.provider = IF keep.provider = None THEN other.provider ELSE keep.provider
      BY <1>4 DEF doc, Merged, Documents
    <3>3. w \in Claimants(IF keep.provider = None THEN doc.provider ELSE None,
                          doc.validated \ keep.validated)
      BY <3>1, <3>2 DEF Claimants, Holders
    <3>4. ~MergesAlone(req[q], x, doc)
      BY <2>13, <3>1, <3>3 DEF MergesAlone
    <3> QED
      BY <2>2, <3>4
  <2>14. TwinInv'
    <3>1. twins \subseteq twins'
      BY <2>2
    <3> SUFFICES ASSUME NEW y \in Users, NEW w \in Users, y \notin twins', w \notin twins',
                        Alike(users', y, w), y \notin failed', w \notin failed'
                 PROVE  \E p \in Requests : Merging(p, y, w)'
      BY DEF TwinInv
    <3>2. CASE Alike(users, y, w)
      <4>1. PICK p \in Requests : Merging(p, y, w)
        BY <1>2, <1>3, <3>1, <3>2 DEF TwinInv
      <4>2. p # q
        BY <1>3, <4>1 DEF Merging
      <4> QED
        BY <2>10, <4>1, <4>2 DEF Merging
    <3>3. CASE ~Alike(users, y, w)
      <4>1. y = u \/ w = u
        BY <2>4, <3>3 DEF Alike
      <4>2. {y, w} = {u, x}
        BY <2>13, <3>3, <4>1, AlikeTurns
      <4>3. Merging(q, y, w)'
        BY <2>7, <2>10, <4>2 DEF Merging
      <4> QED
        BY <4>3
    <3> QED
      BY <3>2, <3>3
  <2>15. RootInv'
    BY <1>2, <1>3, <2>4, RootAside DEF Types
  <2> QED
    BY <2>9, <2>11, <2>12, <2>14, <2>15 DEF IdentityInv
<1> QED
  BY <1>5, <1>6

\* An account is removed, by a request that goes on as r.
LEMMA RemovalKeeps ==
  ASSUME IdentityInv, NEW q \in Requests, NEW r \in RequestRecord, NEW x \in Users, NEW doc,
         RemoveUser(x, doc), req' = [req EXCEPT ![q] = r],
         req[q].at \in {"pending", "purge"} \/ (req[q].at = "remove" /\ x = req[q].gone),
         UNCHANGED <<started, born, vouched, asRoot, raced, twins, gained, failed>>,
         Shape(born, r), Dated(users', r), Covered(users', r)
  PROVE  IdentityInv'
<1>1. Types /\ RequestInv /\ RolesInv /\ TwinInv /\ RootInv
  BY DEF IdentityInv
<1>2. /\ users' \in Database /\ users'[x] = None /\ \A w \in Users \ {x} : users'[w] = users[w]
      /\ acl' \in [Users -> SUBSET Roles] /\ acl'[x] = acl[x] \ doc.roles
      /\ \A w \in Users \ {x} : acl'[w] = acl[w]
      /\ crossed \subseteq crossed' /\ (x \notin crossed' => ~Exists(x) \/ users[x].roles = doc.roles)
  BY <1>1 DEF RemoveUser, Types, Database
<1>3. Evolves(users, users', born, born')
  BY <1>1, <1>2 DEF Evolves, Types, There, Moved
<1>4. req' \in [Requests -> RequestRecord] /\ RequestInv'
  BY <1>1, <1>3, RequestStep
<1>5. \A p \in Requests \ {q} : req'[p] = req[p]
  BY <1>1 DEF Types
<1>6. Types'
  BY <1>1, <1>2, <1>4 DEF Types
<1>7. RolesInv'
  <2> SUFFICES ASSUME NEW y \in Users, y \notin crossed', y \notin failed'
               PROVE  NoRoleTooMany(y)' /\ (y \notin gained' => NoRoleTooFew(y)')
    BY DEF RolesInv
  <2>1. NoRoleTooMany(y) /\ (y \notin gained => NoRoleTooFew(y))
    BY <1>1, <1>2 DEF RolesInv
  <2>2. ASSUME NEW role, NEW p \in Requests
        PROVE  /\ Takes(p, y, role) => Takes(p, y, role)'
               /\ Gives(p, y, role) => Gives(p, y, role)'
    BY <1>5 DEF Takes, Gives
  <2>3. CASE y = x
    <3>1. \A role : ~HasRole(y, role)'
      BY <1>2, <2>3 DEF HasRole, Exists
    <3>2. \A role : HasRole(y, role) => role \in doc.roles
      BY <1>2, <2>3 DEF HasRole
    <3>3. NoRoleTooMany(y)'
      BY <1>2, <2>1, <2>2, <2>3, <3>2 DEF NoRoleTooMany
    <3>4. NoRoleTooFew(y)'
      BY <3>1 DEF NoRoleTooFew
    <3> QED
      BY <3>3, <3>4
  <2>4. CASE y # x
    <3>1. \A role : HasRole(y, role) <=> HasRole(y, role)'
      BY <1>2, <2>4 DEF HasRole, Exists
    <3> QED
      BY <1>2, <2>1, <2>2, <2>4, <3>1 DEF NoRoleTooMany, NoRoleTooFew
  <2> QED
    BY <2>3, <2>4
<1>8. TwinInv'
  <2>1. \A y, w \in Users : Alike(users', y, w) => Alike(users, y, w)
    BY <1>2 DEF Alike, There
  <2>2. \A p \in Requests : req[p].at = "remove" => req'[p] = req[p] \/ ~There(users', req[p].gone)
    BY <1>2, <1>5 DEF There
  <2> QED
    BY <1>1, <2>1, <2>2, TwinsAside
<1>9. RootInv'
  BY <1>1, <1>2, RootAside DEF Types, There
<1> QED
  BY <1>4, <1>6, <1>7, <1>8, <1>9 DEF IdentityInv

\* A removal makes no document of others older.
LEMMA AsOfAfterRemoval ==
  ASSUME Types, NEW x \in Users, NEW doc, RemoveUser(x, doc)
  PROVE  /\ \A w \in Users : \A d : AsOf(users, w, d) => AsOf(users', w, d)
         /\ \A w \in Users : There(users', w) => w # x /\ There(users, w)
BY DEF Types, Database, RemoveUser, AsOf, There

LEMMA RemoveMergedKeeps ==
  ASSUME IdentityInv, NEW q \in Requests, RemoveMerged(q)
  PROVE  IdentityInv'
<1> DEFINE r == req[q]
           rest == Others(r.rest, r.gone)
<1>1. r \in RequestRecord /\ Shape(born, r) /\ Dated(users, r) /\ Covered(users, r)
  BY TheRequest
<1>2. /\ r.at = "remove" /\ RemoveUser(r.gone, r.rest[r.gone])
      /\ UNCHANGED <<started, born, vouched, asRoot, raced, twins, gained, failed>>
  BY DEF RemoveMerged
<1>0. PICK t : t = [r EXCEPT !.gone = None]
  OBVIOUS
<1>3. PICK m : m = MergeInto(t, r.id, r.new, rest) /\ req' = [req EXCEPT ![q] = m]
  BY <1>0 DEF RemoveMerged
<1>4. /\ r.rest \in Collections /\ r.gone \in DOMAIN r.rest /\ r.gone \in Users
      /\ rest \in Collections /\ DOMAIN rest = DOMAIN r.rest \ {r.gone}
  <2>1. r.rest \in Collections /\ r.gone \in DOMAIN r.rest
    BY <1>1, <1>2 DEF RequestRecord, Shape
  <2> QED
    BY <2>1, CollectionFacts
<1>5. /\ r.id \in born /\ r.new \in Documents /\ AsOf(users, r.id, r.new)
      /\ r.kind \in {"oauth", "link", "confirm"} /\ r.email \in Emails /\ r.held \subseteq born
      /\ \A w \in r.held : There(users, w) => w \in {r.id} \cup DOMAIN r.rest
  BY <1>1, <1>2 DEF Shape, Dated, Covered, OfAccount, Editing
<1> HIDE DEF r, rest
<1>6. /\ t \in RequestRecord /\ t.kind = r.kind /\ t.email = r.email /\ t.held = r.held
  BY <1>0, <1>1 DEF RequestRecord
<1>7. AsOf(users', r.id, r.new) /\ born \in SUBSET Users /\ r.held \subseteq Users
      /\ \A w \in Users : There(users', w) => w # r.gone /\ There(users, w)
  BY <1>2, <1>4, <1>5, AsOfAfterRemoval DEF IdentityInv, Types
<1>8. \A w \in t.held : There(users', w) => w \in {r.id} \cup DOMAIN rest
  BY <1>4, <1>5, <1>6, <1>7
<1>9. m \in RequestRecord /\ Shape(born, m) /\ Dated(users', m) /\ Covered(users', m)
  BY <1>3, <1>4, <1>5, <1>6, <1>7, <1>8, MergeIntoIsFine
<1> QED
  BY <1>2, <1>3, <1>4, <1>9, RemovalKeeps DEF r

LEMMA DropPendingKeeps ==
  ASSUME IdentityInv, NEW q \in Requests, NEW x \in Users, DropPending(q, x)
  PROVE  IdentityInv'
<1> DEFINE rest == Others(req[q].rest, x)
<1>1. /\ req[q] \in RequestRecord
      /\ Shape(born, req[q]) /\ Dated(users, req[q]) /\ Covered(users, req[q])
  BY TheRequest
<1>2. PICK r : r = [req[q] EXCEPT !.rest = rest]
  OBVIOUS
<1>3. /\ req[q].at \in {"pending", "purge"} /\ x \in DOMAIN req[q].rest
      /\ RemoveUser(x, req[q].rest[x]) /\ req' = [req EXCEPT ![q] = r]
      /\ UNCHANGED <<started, born, vouched, asRoot, raced, twins, gained, failed>>
  BY <1>2 DEF DropPending, IdentityInv, Types
<1>4. rest \in Collections /\ DOMAIN rest = DOMAIN req[q].rest \ {x}
  <2>1. req[q].rest \in Collections
    BY <1>1 DEF RequestRecord
  <2> QED
    BY <2>1, CollectionFacts
<1> HIDE DEF rest
<1>5. r \in RequestRecord
  BY <1>1, <1>2, <1>4 DEF RequestRecord
<1>6. /\ r.at = req[q].at /\ r.rest = rest /\ r.new = req[q].new /\ r.id = req[q].id /\ r.kind = req[q].kind
      /\ r.email = req[q].email /\ r.next = req[q].next /\ r.held = req[q].held
  BY <1>1, <1>2 DEF RequestRecord
<1>7. /\ \A w \in Users : \A d : AsOf(users, w, d) => AsOf(users', w, d)
      /\ \A w \in Users : There(users', w) => w # x /\ There(users, w)
  BY <1>3, AsOfAfterRemoval DEF IdentityInv
<1>8. Shape(born, r)
  BY <1>1, <1>3, <1>6 DEF Shape, OfAccount, Editing
<1>9. Dated(users', r)
  <2>1. DOMAIN r.next \subseteq Users /\ (Editing(r) => r.id \in Users)
    BY <1>8 DEF Shape, Editing, IdentityInv, Types
  <2>2. r.at # "save"
    BY <1>3, <1>6
  <2>3. Editing(r) => AsOf(users, r.id, r.new)
    BY <1>1, <1>6 DEF Dated, Editing, OfAccount
  <2>4. \A w \in DOMAIN r.next : AsOf(users, w, r.next[w])
    BY <1>1, <1>6 DEF Dated
  <2> QED
    BY <1>7, <2>1, <2>2, <2>3, <2>4 DEF Dated
<1>10. Covered(users', r)
  <2>1. r.held \subseteq Users
    BY <1>5 DEF RequestRecord
  <2> QED
    BY <1>1, <1>3, <1>4, <1>6, <1>7, <2>1 DEF Covered
<1> QED
  BY <1>3, <1>5, <1>8, <1>9, <1>10, RemovalKeeps

-----------------------------------------------------------------------------
(* Requests die *)

LEMMA DieKeeps ==
  ASSUME IdentityInv, NEW q \in Requests, Die(q)
  PROVE  IdentityInv'
<1>1. Types /\ RequestInv /\ RolesInv /\ TwinInv /\ RootInv
  BY DEF IdentityInv
<1>2. /\ Finish(q) /\ failed' = failed \cup Touched({q}) /\ Running(q)
      /\ UNCHANGED <<users, acl, started, born, vouched, asRoot, raced, twins, gained, crossed>>
  BY DEF Die
<1>3. req' \in [Requests -> RequestRecord] /\ RequestInv'
  BY <1>1, <1>2, SameDatabase, RequestStep, IdleFacts, IdleIsFine DEF Finish
<1>4. Types'
  BY <1>1, <1>2, <1>3 DEF Types
<1>5. \A p \in Requests \ {q} : req'[p] = req[p]
  BY <1>1, <1>2 DEF Finish, Types
<1>6. {req[q].id, req[q].gone} \cap Users \subseteq failed'
  BY <1>2 DEF Touched, Touches
<1>7. RolesInv'
  <2> SUFFICES ASSUME NEW y \in Users, y \notin crossed', y \notin failed'
               PROVE  NoRoleTooMany(y)' /\ (y \notin gained' => NoRoleTooFew(y)')
    BY DEF RolesInv
  <2>1. NoRoleTooMany(y) /\ (y \notin gained => NoRoleTooFew(y)) /\ req[q].id # y
    BY <1>1, <1>2, <1>6 DEF RolesInv
  <2>2. ASSUME NEW role, NEW p \in Requests
        PROVE  /\ Takes(p, y, role) => Takes(p, y, role)'
               /\ Gives(p, y, role) => Gives(p, y, role)'
    BY <1>5, <2>1 DEF Takes, Gives
  <2>3. \A role : HasRole(y, role) <=> HasRole(y, role)'
    BY <1>2 DEF HasRole, Exists
  <2> QED
    BY <1>2, <2>1, <2>2, <2>3 DEF NoRoleTooMany, NoRoleTooFew
<1>8. TwinInv'
  <2>1. req[q].at = "remove" => {req[q].id, req[q].gone} \subseteq Users
    <3>1. req[q] \in RequestRecord /\ Shape(born, req[q])
      BY TheRequest
    <3>2. req[q].at = "remove" => req[q].id \in born /\ req[q].gone \in DOMAIN req[q].rest
      BY <3>1 DEF Shape, OfAccount
    <3>3. DOMAIN req[q].rest \subseteq Users
      BY <3>1, CollectionFacts DEF RequestRecord
    <3> QED
      BY <1>1, <3>2, <3>3 DEF Types
  <2>2. \A p \in Requests : req[p].at = "remove" =>
          req'[p] = req[p] \/ {req[p].id, req[p].gone} \subseteq failed'
    BY <1>5, <1>6, <2>1
  <2> QED
    BY <1>1, <1>2, <2>2, TwinsAside
<1>9. RootInv'
  BY <1>1, <1>2, RootAside DEF Types
<1> QED
  BY <1>3, <1>4, <1>7, <1>8, <1>9 DEF IdentityInv

\* All requests die at once, and Redis gets the roles of all.
LEMMA RestartKeeps ==
  ASSUME IdentityInv, Restart
  PROVE  IdentityInv'
<1>1. Types /\ RequestInv /\ RolesInv /\ TwinInv /\ RootInv
  BY DEF IdentityInv
<1>2. /\ req' = [q \in Requests |-> Idle] /\ failed' = failed \cup Touched(Requests)
      /\ acl' = [u \in Users |-> IF Exists(u) THEN acl[u] \cup users[u].roles ELSE acl[u]]
      /\ gained' = {u \in gained : ~Exists(u)}
      /\ UNCHANGED <<users, started, born, vouched, asRoot, raced, twins, crossed>>
  BY DEF Restart
<1>3. Types'
  <2>1. \A u \in Users : Exists(u) => users[u].roles \subseteq Roles
    BY <1>1, ExistingAccount, DocumentFields
  <2>2. acl' \in [Users -> SUBSET Roles]
    BY <1>1, <1>2, <2>1 DEF Types
  <2> QED
    BY <1>1, <1>2, <2>2, IdleFacts DEF Types, Exists
<1>4. RequestInv'
  BY <1>2, IdleIsFine DEF RequestInv
<1>5. ASSUME NEW q \in Requests, req[q].at # "idle"
      PROVE  {req[q].id, req[q].gone} \cap Users \subseteq failed'
  BY <1>2, <1>5 DEF Touched, Touches, Running
<1>6. RolesInv'
  <2> SUFFICES ASSUME NEW y \in Users, y \notin crossed', y \notin failed'
               PROVE  NoRoleTooMany(y)' /\ (y \notin gained' => NoRoleTooFew(y)')
    BY DEF RolesInv
  <2>1. NoRoleTooMany(y) /\ (y \notin gained => NoRoleTooFew(y))
    BY <1>1, <1>2 DEF RolesInv
  <2>2. \A role : HasRole(y, role) <=> HasRole(y, role)'
    BY <1>2 DEF HasRole, Exists
  <2>3. ASSUME NEW role, NEW p \in Requests  PROVE ~Takes(p, y, role) /\ ~Gives(p, y, role)
    BY <1>5 DEF Takes, Gives
  <2>4. \A role \in acl[y] : HasRole(y, role)
    BY <2>1, <2>3 DEF NoRoleTooMany
  <2>5. acl'[y] = IF Exists(y) THEN acl[y] \cup users[y].roles ELSE acl[y]
    BY <1>2
  <2>6. NoRoleTooMany(y)'
    BY <2>2, <2>4, <2>5 DEF NoRoleTooMany, HasRole
  <2>7. NoRoleTooFew(y)'
    BY <2>2, <2>5 DEF NoRoleTooFew, HasRole
  <2> QED
    BY <2>6, <2>7
<1>7. TwinInv'
  <2> SUFFICES ASSUME NEW u \in Users, NEW w \in Users, u \notin twins', w \notin twins',
                      Alike(users', u, w), u \notin failed', w \notin failed'
               PROVE  FALSE
    BY DEF TwinInv
  <2>1. Alike(users, u, w) /\ u \notin twins /\ w \notin twins /\ u \notin failed /\ w \notin failed
    BY <1>2
  <2>2. PICK q \in Requests : Merging(q, u, w)
    BY <1>1, <2>1 DEF TwinInv
  <2>3. u \in failed' \/ w \in failed'
    BY <1>5, <2>2 DEF Merging
  <2> QED
    BY <2>3
<1>8. RootInv'
  BY <1>1, <1>2, RootAside DEF Types
<1> QED
  BY <1>3, <1>4, <1>6, <1>7, <1>8 DEF IdentityInv

-----------------------------------------------------------------------------
(* The invariant *)

LEMMA InitialAccounts ==
  ASSUME NEW e \in Emails, NEW i \in ProviderIds
  PROVE  /\ Root(e) \in Documents /\ Root(e).provider = None /\ Root(e).validated = {e}
         /\ Root(e).roles = {"root"}
         /\ ProviderUser(e, {e}, i) \in Documents /\ ProviderUser(e, {e}, i).validated = {e}
         /\ ProviderUser(e, {e}, i).roles = {"member"}
BY DEF Root, LocalUser, ProviderUser, Documents, Statuses, Status, Confirmed, Roles

LEMMA IdentityInvInit ==
  ASSUME Init
  PROVE  IdentityInv
<1>1. PICK r \in Users, e \in Emails : \E o \in Users \ {r}, g \in Emails \ {e}, i \in ProviderIds :
        /\ born \in {{}, {r}, {r, o}}
        /\ users = [u \in Users |-> IF u \notin born THEN None
                                    ELSE IF u = r THEN Root(e) ELSE ProviderUser(g, {g}, i)]
        /\ asRoot = {r} \cap born
  BY DEF Init
<1>2. PICK o \in Users \ {r}, g \in Emails \ {e}, i \in ProviderIds :
        /\ born \in {{}, {r}, {r, o}}
        /\ users = [u \in Users |-> IF u \notin born THEN None
                                    ELSE IF u = r THEN Root(e) ELSE ProviderUser(g, {g}, i)]
        /\ asRoot = {r} \cap born
  BY <1>1
<1>3. /\ acl = [u \in Users |-> IF u \in born THEN users[u].roles ELSE {}]
      /\ req = [q \in Requests |-> Idle]
      /\ raced = {} /\ twins = {} /\ gained = {} /\ crossed = {} /\ failed = {}
  BY DEF Init
<1>4. /\ Root(e) \in Documents /\ Root(e).provider = None /\ Root(e).validated = {e}
      /\ Root(e).roles = {"root"} /\ Root(e) # None
      /\ ProviderUser(g, {g}, i) \in Documents /\ ProviderUser(g, {g}, i).validated = {g}
      /\ ProviderUser(g, {g}, i).roles = {"member"} /\ ProviderUser(g, {g}, i) # None
  BY InitialAccounts, DocumentFields
<1>5. Types
  <2>1. users \in Database /\ born \subseteq Users
    BY <1>2, <1>4 DEF Database
  <2>2. \A u \in born : users[u].roles \subseteq Roles
    BY <1>2, <1>4 DEF Roles
  <2>3. acl \in [Users -> SUBSET Roles]
    BY <1>3, <2>1, <2>2
  <2> QED
    BY <1>2, <1>3, <2>1, <2>3, IdleFacts DEF Types
<1>6. RequestInv
  BY <1>3, IdleIsFine DEF RequestInv
<1>7. RolesInv
  <2>1. \A u \in Users : acl[u] = IF Exists(u) THEN users[u].roles ELSE {}
    BY <1>2, <1>3, <1>4 DEF Exists
  <2> QED
    BY <2>1 DEF RolesInv, NoRoleTooMany, NoRoleTooFew, HasRole
<1>8. \A u, w \in Users : ~Alike(users, u, w)
  BY <1>2, <1>4 DEF Alike, There
<1>9. RootInv
  BY <1>2 DEF RootInv
<1> QED
  BY <1>5, <1>6, <1>7, <1>8, <1>9 DEF IdentityInv, TwinInv

LEMMA NothingHappens ==
  ASSUME IdentityInv, UNCHANGED vars
  PROVE  IdentityInv'
<1>1. /\ users' = users /\ acl' = acl /\ req' = req /\ started' = started /\ born' = born
  BY DEF vars
<1>2. /\ vouched' = vouched /\ asRoot' = asRoot /\ raced' = raced /\ twins' = twins
      /\ gained' = gained /\ crossed' = crossed /\ failed' = failed
  BY DEF vars
<1>3. Types'
  BY <1>1, <1>2 DEF IdentityInv, Types
<1>4. RequestInv'
  BY <1>1, <1>2 DEF IdentityInv, RequestInv
<1>5. RolesInv'
  BY <1>1, <1>2 DEF IdentityInv, RolesInv, NoRoleTooMany, NoRoleTooFew, HasRole, Takes, Gives,
                    Merging, Exists
<1>6. TwinInv'
  BY <1>1, <1>2 DEF IdentityInv, TwinInv, Alike, There, Merging
<1>7. RootInv'
  BY <1>1, <1>2 DEF IdentityInv, RootInv, Exists
<1> QED
  BY <1>3, <1>4, <1>5, <1>6, <1>7 DEF IdentityInv

LEMMA BeginKeeps ==
  ASSUME IdentityInv, NEW q \in Requests, Begin(q)
  PROVE  IdentityInv'
<1>1. ASSUME NEW u \in Users, Exists(u)  PROVE users[u] \in Documents
  BY <1>1, ExistingAccount DEF IdentityInv
<1>2. ASSUME NEW c \in Users, NEW u \in Users, NEW e \in Emails, Exists(u),
             AdminUpdate(q, c, u, [users[u] EXCEPT !.email = e])
      PROVE  IdentityInv'
  <2>1. [users[u] EXCEPT !.email = e] \in Documents
    BY <1>1, <1>2 DEF Documents
  <2> QED
    BY <1>2, <2>1, AdminUpdateKeeps
<1>3. ASSUME NEW c \in Users, NEW u \in Users, Exists(u),
             NEW roles \in {{"member"}, {"member", "admin"}},
             AdminUpdate(q, c, u, [users[u] EXCEPT !.roles = roles])
      PROVE  IdentityInv'
  <2>1. roles \subseteq Roles
    BY DEF Roles
  <2>2. [users[u] EXCEPT !.roles = roles] \in Documents
    BY <1>1, <1>3, <2>1 DEF Documents
  <2> QED
    BY <1>3, <2>2, AdminUpdateKeeps
<1>4. ASSUME NEW c \in Users, NEW u \in Users, Exists(u),
             AdminUpdate(q, c, u, [users[u] EXCEPT !.active = ~users[u].active])
      PROVE  IdentityInv'
  <2>1. [users[u] EXCEPT !.active = ~users[u].active] \in Documents
    BY <1>1, <1>4 DEF Documents
  <2> QED
    BY <1>4, <2>1, AdminUpdateKeeps
<1> QED
  BY <1>2, <1>3, <1>4, RegisterKeeps, PatchEmailKeeps, ProviderPutKeeps, OAuthKeeps, ConfirmKeeps,
     ResendKeeps DEF Begin

LEMMA ContinueKeeps ==
  ASSUME IdentityInv, NEW q \in Requests, Continue(q)
  PROVE  IdentityInv'
BY CountUsersKeeps, InsertFailsKeeps, GrantKeeps, SaveUserKeeps, RevokeRolesKeeps, RemoveMergedKeeps,
   FindOthersKeeps, IdentifyUserKeeps, FindSameKeeps, ConfirmMergeKeeps, InsertUserKeeps,
   MergeUserKeeps, DropPendingKeeps DEF Continue

LEMMA IdentityInvHolds == Spec => []IdentityInv
<1>1. IdentityInv /\ [Next]_vars => IdentityInv'
  BY RestartKeeps, BeginKeeps, ContinueKeeps, DieKeeps, NothingHappens DEF Next
<1> QED
  BY IdentityInvInit, <1>1, PTL DEF Spec

-----------------------------------------------------------------------------
(* The theorems *)

LEMMA SettledIsAlone ==
  ASSUME IdentityInv, NEW u \in Users, Settled(u)
  PROVE  /\ u \notin failed
         /\ \A q \in Requests : req[q].at # "idle" => u # req[q].id /\ u # req[q].gone
BY DEF Settled, Busy, Running, Touches

\* Redis has the roles of the document of every account nobody is at work on, and none of one
\* that is gone, but where a request gave or took them for a document that had changed since,
\* or a merge gave the document more (acl.ts, user.api.ts, user.util.ts).
THEOREM RolesFollow == Spec => []AclFollowsRoles
<1>1. IdentityInv => AclFollowsRoles
  <2> SUFFICES ASSUME IdentityInv, NEW u \in Users, Settled(u), u \notin crossed \cup gained
               PROVE  acl[u] = IF Exists(u) THEN users[u].roles ELSE {}
    BY DEF AclFollowsRoles
  <2>1. NoRoleTooMany(u) /\ NoRoleTooFew(u)
    BY SettledIsAlone DEF IdentityInv, RolesInv
  <2>2. ASSUME NEW x, NEW q \in Requests  PROVE ~Takes(q, u, x) /\ ~Gives(q, u, x)
    BY SettledIsAlone DEF Takes, Gives
  <2>3. \A x \in acl[u] : HasRole(u, x)
    BY <2>1, <2>2 DEF NoRoleTooMany
  <2>4. \A x \in Roles : HasRole(u, x) => x \in acl[u]
    BY <2>1, <2>2 DEF NoRoleTooFew
  <2>5. Exists(u) => users[u].roles \subseteq Roles
    BY ExistingAccount, DocumentFields DEF IdentityInv
  <2> QED
    BY <2>3, <2>4, <2>5 DEF HasRole
<1> QED
  BY <1>1, IdentityInvHolds, PTL

\* One account at most is there that was made root, however many are registered, but those
\* that were counted for before another one was saved (user.util.ts:64-67).
THEOREM OnlyOneRoot == Spec => []OneRoot
<1>1. IdentityInv => OneRoot
  <2> SUFFICES ASSUME IdentityInv
               PROVE  Cardinality({u \in asRoot \ raced : Exists(u)}) <= 1
    BY DEF OneRoot
  <2>1. CASE {u \in asRoot \ raced : Exists(u)} = {}
    BY <2>1, FS_EmptySet
  <2>2. CASE {u \in asRoot \ raced : Exists(u)} # {}
    <3>1. PICK u : {w \in asRoot \ raced : Exists(w)} = {u}
      BY <2>2 DEF IdentityInv, RootInv
    <3>2. Cardinality({u}) = 1
      BY FS_Singleton
    <3> QED
      BY <3>1, <3>2
  <2> QED
    BY <2>1, <2>2
<1> QED
  BY <1>1, IdentityInvHolds, PTL

\* Neither an id at the provider nor a validated address is left with two accounts, however
\* accounts are linked, confirmed and merged at once, but where one of them got it while a
\* third had it, or since the request had looked (user.util.ts:188-231, profile.api.ts:198).
THEOREM OneAccountEach == Spec => []IdentifiedOnce
<1>1. ASSUME IdentityInv, NEW u \in Users, NEW w \in Users, Alike(users, u, w), Settled(u), Settled(w)
      PROVE  {u, w} \cap twins # {}
  <2>1. CASE u \notin twins /\ w \notin twins
    <3>1. PICK q \in Requests : Merging(q, u, w)
      BY <1>1, <2>1, SettledIsAlone DEF IdentityInv, TwinInv
    <3> QED
      BY <1>1, <3>1, SettledIsAlone DEF Merging
  <2> QED
    BY <2>1
<1>2. IdentityInv => ProviderIdOnce
  BY <1>1 DEF ProviderIdOnce, Alike, There, Exists
<1>3. IdentityInv => ValidatedOnce
  BY <1>1 DEF ValidatedOnce, Alike, There, Exists
<1> QED
  BY <1>2, <1>3, IdentityInvHolds, PTL DEF IdentifiedOnce

=============================================================================
