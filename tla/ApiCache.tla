------------------------------ MODULE ApiCache ------------------------------
(***************************************************************************)
(* The cache of GET responses in Redis (common/api.cache.ts) and the       *)
(* handlers that change what the cached routes show.                       *)
(*                                                                         *)
(* A miss computes the body, stores it under a key made of the path and    *)
(* the reader, and then adds the key to a reference set per entity shown   *)
(* (with the level it is serialized at), per listed model and for the      *)
(* reader.  A handler that changes an entity looks its key sets up and     *)
(* deletes what it finds.  Nothing locks the two against each other: every *)
(* await is a step of its own here.                                        *)
(*                                                                         *)
(* One game with its releases, one backglass, one medium and one author    *)
(* of all of them stand for the content.  Readers are users who neither    *)
(* made the content nor moderate it.                                       *)
(***************************************************************************)
EXTENDS Naturals, Sequences

CONSTANTS
  Game, Releases, Backglass, Medium, Author,  \* the content
  Copies,      \* values of a title, a version list, a rating, ...
  Readers,     \* signed-in readers
  Anon,        \* the reader without a token
  Misses,      \* bound: GET requests that find no cached response
  Writers,     \* bound: requests that change content
  Handlers,    \* the handlers a run exercises
  None

Entity == {Game, Backglass, Medium, Author} \cup Releases

ASSUME ContentAssumption ==
  /\ {Game, Backglass, Medium, Author} \cap Releases = {}
  /\ Game # Backglass /\ Game # Medium /\ Game # Author
  /\ Backglass # Medium /\ Backglass # Author /\ Medium # Author

ASSUME CopiesAssumption == Copies # {}

ASSUME ReaderAssumption == Anon \notin Readers

VARIABLES
  db,       \* MongoDB: what the routes read, per entity
  cache,    \* Redis: the response stored under a key, or None
  refs,     \* Redis: the reference sets, as pairs of a tag and a key
  miss,     \* GET requests that missed
  writer,   \* requests that change content
  excused   \* history: the stored responses that no invalidation need reach

vars == <<db, cache, refs, miss, writer, excused>>

-----------------------------------------------------------------------------
(* What the cached routes show *)

Page == {"releases", "release", "games", "game", "sitemap"}

\* getCacheKey: the path and the reader.
Key == {k \in [page: Page, of: Releases \cup {Game}, reader: Readers \cup {Anon}] :
          k.page = "release" <=> k.of \in Releases}

Listed(d) == {r \in Releases : d[r].status = "listed"}

\* The entities in the response to k.
ShownInReleases(d) == Listed(d) \cup (IF Listed(d) = {} THEN {} ELSE {Game, Author})
ShownInGame(d) ==
  {Game} \cup {x \in {Backglass, Medium} \cup Releases : d[x].status = "listed"}
         \cup (IF Listed(d) = {} /\ d[Backglass].status # "listed" THEN {} ELSE {Author})

\* Of releases that wait for moderation, too.
ShownInSitemap(d) ==
  LET releases == {r \in Releases : d[r].status # "absent"} IN
  {Game} \cup releases \cup {x \in {Medium} : d[x].status = "listed"}
         \cup (IF releases = {} THEN {} ELSE {Author})

Shown(k, d) ==
  {x \in Entity :
     \/ k.page = "releases" /\ x \in ShownInReleases(d)
     \/ k.page = "release" /\ k.of \in Listed(d) /\ x \in {k.of, Game, Author}
     \/ k.page = "games" /\ x = Game
     \/ k.page = "game" /\ x \in ShownInGame(d)
     \/ k.page = "sitemap" /\ x \in ShownInSitemap(d)}

\* Lists and details show more of a release or game than a mention does.
InFull(k, x) ==
  \/ x = Backglass
  \/ x \in Releases /\ k.page # "sitemap"
  \/ x = Game /\ k.page \in {"games", "game"}

View(k, x, d) ==
  [name |-> d[x].name,
   rest |-> IF InFull(k, x) THEN <<d[x].more, d[x].rating, k.reader \in d[x].stars>> ELSE <<>>]

Show(k, d) == [x \in Shown(k, d) |-> View(k, x, d)]

\* The details of a release that is not listed are a 404, which is not cached.
Found(k, body) == k.page = "release" => DOMAIN body # {}

(* How a response is tagged *)

LevelOf(k, x) ==
  CASE x = Author \/ (x = Game /\ k.page \in {"releases", "release"}) -> "reduced"
    [] \/ x \in {Backglass, Medium}
       \/ x = Game /\ k.page = "games"
       \/ x \in Releases /\ k.page = "releases" -> "simple"
    [] OTHER -> "detailed"

Lists(k) ==
  CASE k.page = "releases" -> {"release"}
    [] k.page = "games" -> {"game"}
    [] k.page = "sitemap" -> {"game", "release"}
    [] OTHER -> {}

EntityTag(x, level) == <<"entity", x, level>>
ListTag(model) == <<"list", model>>
UserTag(u) == <<"user", u>>

Tags(k, body) ==
       {EntityTag(x, LevelOf(k, x)) : x \in IF k.page = "sitemap" THEN {} ELSE DOMAIN body}
  \cup {ListTag(model) : model \in Lists(k)}
  \cup {UserTag(u) : u \in {k.reader} \ {Anon}}

-----------------------------------------------------------------------------
(* What a handler invalidates: a sequence of calls, each a set of tag lists.  *)
(* A tag list finds the keys that are in the reference sets of all its tags.  *)

AllLevels == {"reduced", "simple", "detailed"}

InvalidateList(model) == {{ListTag(model)}}
InvalidateEntity(x, levels) == {{EntityTag(x, level)} : level \in levels}

InvalidateUpdatedGame(levels) == <<InvalidateList("game"), InvalidateEntity(Game, levels)>>
\* Mutant of InvalidateCreatedRelease: the details of the game are forgotten.
InvalidateCreatedReleaseAlone == <<InvalidateList("release")>>
InvalidateCreatedRelease == <<InvalidateList("release"), InvalidateEntity(Game, {"detailed"})>>
InvalidateUpdatedRelease(r, levels) ==
  <<InvalidateList("release"), InvalidateEntity(r, levels), InvalidateEntity(Game, {"detailed"})>>
\* The callers below pass a release whose _game is not populated: the third
\* call names no game, and finds nothing.
InvalidateReleaseOnly(r, levels) == <<InvalidateList("release"), InvalidateEntity(r, levels)>>
InvalidateUpdatedBackglass == <<InvalidateEntity(Game, {"detailed"})>>
InvalidateUpdatedUser == <<InvalidateList("user"), InvalidateEntity(Author, AllLevels)>>
InvalidateStarredEntity(u) ==
  <<{{ListTag("release"), UserTag(u)}, {EntityTag(Game, "detailed"), UserTag(u)}}>>
InvalidateRated(x) == <<InvalidateEntity(x, AllLevels), InvalidateEntity(x, AllLevels)>>

\* handleModeration, with opts.cachedEntities for releases and without for backglasses.
InvalidateModeratedRelease(r) ==
  <<InvalidateEntity(r, AllLevels), InvalidateList("release"),
    InvalidateList("game"), InvalidateEntity(Game, AllLevels)>>
InvalidateModeratedBackglass ==
  <<InvalidateEntity(Backglass, AllLevels), InvalidateList("backglass")>>

\* The keys one tag list finds.
Hit(tags) == {k \in Key : \A t \in tags : <<t, k>> \in refs}

Stored(k) == cache[k] # None

\* What writer w will still delete, or find and then delete.
Pending(w, k) ==
  /\ writer[w].at = "busy"
  /\ \/ k \in writer[w].doomed
     \/ \E tags \in writer[w].todo : k \in Hit(tags)
     \/ \E i \in (writer[w].call + 1)..Len(writer[w].plan) :
          \E tags \in writer[w].plan[i] : k \in Hit(tags)

Job(plan, removes) ==
  [at |-> "busy", plan |-> plan, call |-> 0, todo |-> {}, doomed |-> {}, removes |-> removes]
NoJob(at) == [Job(<<>>, {}) EXCEPT !.at = at]

NoMiss(at, k) == [at |-> at, key |-> k, body |-> None, raced |-> FALSE]
SomeKey == [page |-> "games", of |-> Game, reader |-> Anon]

-----------------------------------------------------------------------------
NewEntity(status) ==
  [status |-> status, name |-> CHOOSE c \in Copies : TRUE, more |-> CHOOSE c \in Copies : TRUE,
   rating |-> CHOOSE c \in Copies : TRUE, stars |-> {}]

Init ==
  /\ \E status \in [{Backglass, Medium} \cup Releases -> {"absent", "pending", "listed"}] :
       /\ status[Medium] # "pending"
       /\ db = [x \in Entity |-> NewEntity(IF x \in {Game, Author} THEN "listed" ELSE status[x])]
  /\ cache = [k \in Key |-> None]
  /\ refs = {}
  /\ miss = [m \in Misses |-> NoMiss("idle", SomeKey)]
  /\ writer = [w \in Writers |-> NoJob("idle")]
  /\ excused = {}

(* A GET request that misses: middleware and setCache *)

\* A hit is answered from the cache and changes nothing here.
Request(m, k) ==
  /\ miss[m].at = "idle"
  /\ ~Stored(k)
  /\ miss' = [miss EXCEPT ![m] = NoMiss("reading", k)]
  /\ UNCHANGED <<db, cache, refs, writer, excused>>

\* The last query of the route's handler.  A body whose queries straddle a
\* write can mix old and new content; such a miss is raced whatever it read.
Read(m) ==
  LET k == miss[m].key
      body == Show(k, db) IN
  /\ miss[m].at = "reading"
  /\ miss' = [miss EXCEPT ![m] = IF Found(k, body)
                                 THEN [@ EXCEPT !.at = "storing", !.body = body]
                                 ELSE NoMiss("done", SomeKey)]
  /\ UNCHANGED <<db, cache, refs, writer, excused>>

Store(m) ==
  LET k == miss[m].key IN
  /\ miss[m].at = "storing"
  /\ cache' = [cache EXCEPT ![k] = miss[m].body]
  /\ excused' = IF miss[m].raced THEN excused \cup {k} ELSE excused \ {k}
  /\ miss' = [miss EXCEPT ![m].at = "tagging"]
  /\ UNCHANGED <<db, refs, writer>>

\* Mutant of Tag: only the entities are referenced, neither list nor reader.
TagEntities(m) ==
  LET k == miss[m].key IN
  /\ miss[m].at = "tagging"
  /\ refs' = refs \cup {<<EntityTag(x, LevelOf(k, x)), k>> : x \in DOMAIN miss[m].body}
  /\ miss' = [miss EXCEPT ![m] = NoMiss("done", SomeKey)]
  /\ UNCHANGED <<db, cache, writer, excused>>

\* The sadds are issued together on one connection, hence in one step.
Tag(m) ==
  LET k == miss[m].key IN
  /\ miss[m].at = "tagging"
  /\ refs' = refs \cup {<<t, k>> : t \in Tags(k, miss[m].body)}
  /\ miss' = [miss EXCEPT ![m] = NoMiss("done", SomeKey)]
  /\ UNCHANGED <<db, cache, writer, excused>>

\* The process dies, or MongoDB or Redis answers with an error.
MissFails(m) ==
  /\ miss[m].at \in {"reading", "storing", "tagging"}
  /\ miss' = [miss EXCEPT ![m] = NoMiss("done", SomeKey)]
  /\ excused' = IF miss[m].at = "tagging" /\ Stored(miss[m].key)
                THEN excused \cup {miss[m].key} ELSE excused
  /\ UNCHANGED <<db, cache, refs, writer>>

\* The responses of signed-in readers live for a day.
Expire(k) ==
  /\ k.reader # Anon /\ Stored(k)
  /\ cache' = [cache EXCEPT ![k] = None]
  /\ excused' = excused \ {k}
  /\ UNCHANGED <<db, refs, miss, writer>>

(* The invalidation of a writer: invalidate *)

NextCall(w) ==
  LET job == writer[w] IN
  /\ job.at = "busy" /\ job.todo = {} /\ job.doomed = {} /\ job.call < Len(job.plan)
  /\ writer' = [writer EXCEPT ![w].call = @ + 1, ![w].todo = job.plan[job.call + 1]]
  /\ UNCHANGED <<db, cache, refs, miss, excused>>

\* The reference sets of one tag list.  Those of a list with a user tag are read
\* one after the other; a key's user never changes, so the order shows nothing.
Scan(w) ==
  /\ writer[w].at = "busy"
  /\ \E tags \in writer[w].todo :
       writer' = [writer EXCEPT ![w].todo = @ \ {tags}, ![w].doomed = @ \cup Hit(tags)]
  /\ UNCHANGED <<db, cache, refs, miss, excused>>

Drop(w) ==
  /\ writer[w].at = "busy" /\ writer[w].todo = {}
  /\ \E k \in writer[w].doomed :
       /\ writer' = [writer EXCEPT ![w].doomed = @ \ {k}]
       /\ cache' = [cache EXCEPT ![k] = None]
       /\ excused' = excused \ {k}
  /\ UNCHANGED <<db, refs, miss>>

Invalidated(w) ==
  /\ writer[w].at = "busy" /\ writer[w].todo = {} /\ writer[w].doomed = {}
  /\ writer[w].call = Len(writer[w].plan)

Finish(w) ==
  /\ Invalidated(w) /\ writer[w].removes = {}
  /\ writer' = [writer EXCEPT ![w] = NoJob("done")]
  /\ UNCHANGED <<db, cache, refs, miss, excused>>

\* Whatever it had still to delete stays.
WriterFails(w) ==
  /\ writer[w].at = "busy"
  /\ writer' = [writer EXCEPT ![w] = NoJob("done")]
  /\ excused' = excused \cup {k \in Key : Stored(k) /\ Pending(w, k)}
  /\ UNCHANGED <<db, cache, refs, miss>>

\* DELETE /v1/cache: one Lua script removes the responses and the references.
InvalidateAll ==
  /\ "invalidateCache" \in Handlers
  /\ cache' = [k \in Key |-> None]
  /\ refs' = {}
  /\ excused' = {}
  /\ UNCHANGED <<db, miss, writer>>

-----------------------------------------------------------------------------
(* The handlers that change content *)

\* Saves newdb and invalidates along plan.  The history is kept here: a miss
\* under way is raced from now on, a response that is stored but not yet tagged
\* cannot be found, and the pages in "gaps" are the ones the plan forgets.
Save(w, newdb, plan, gaps) ==
  /\ db' = newdb
  /\ writer' = [writer EXCEPT ![w] = Job(plan, {})]
  /\ miss' = [m \in Misses |-> [miss[m] EXCEPT !.raced = miss[m].at \notin {"idle", "done"}]]
  /\ excused' = excused
       \cup {k \in Key : Stored(k) /\ \E m \in Misses : miss[m].at = "tagging" /\ miss[m].key = k}
       \cup {k \in Key : Stored(k) /\ k.page \in gaps /\ Show(k, newdb) # Show(k, db)}
  /\ UNCHANGED <<cache, refs>>

Serves(w, handler) == handler \in Handlers /\ writer[w].at = "idle"
Exists(x) == db[x].status # "absent"

UpdateGameTitle(w) ==
  /\ Serves(w, "updateGameTitle")
  /\ \E c \in Copies \ {db[Game].name} :
       Save(w, [db EXCEPT ![Game].name = c], InvalidateUpdatedGame(AllLevels), {})

UpdateGameLogo(w) ==
  /\ Serves(w, "updateGameLogo")
  /\ \E c \in Copies \ {db[Game].more} :
       Save(w, [db EXCEPT ![Game].more = c], InvalidateUpdatedGame({"simple", "detailed"}), {})

RateGame(w) ==
  /\ Serves(w, "rateGame")
  /\ \E c \in Copies \ {db[Game].rating} :
       Save(w, [db EXCEPT ![Game].rating = c], InvalidateRated(Game), {})

\* Listed at once when the creator's role is auto-approved.
CreateRelease(w, r) ==
  /\ Serves(w, "createRelease") /\ ~Exists(r)
  /\ \E status \in {"pending", "listed"} :
       Save(w, [db EXCEPT ![r] = NewEntity(status)], InvalidateCreatedRelease, {})

UpdateRelease(w, r) ==
  /\ Serves(w, "updateRelease") /\ Exists(r)
  /\ \E c \in Copies \ {db[r].name} :
       Save(w, [db EXCEPT ![r].name = c], InvalidateUpdatedRelease(r, AllLevels), {})

\* addVersion and updateVersion
UpdateVersion(w, r) ==
  /\ Serves(w, "updateVersion") /\ Exists(r)
  /\ \E c \in Copies \ {db[r].more} :
       Save(w, [db EXCEPT ![r].more = c], InvalidateUpdatedRelease(r, {"detailed"}), {})

ValidateFile(w, r) ==
  /\ Serves(w, "validateFile") /\ Exists(r)
  /\ \E c \in Copies \ {db[r].more} :
       Save(w, [db EXCEPT ![r].more = c], InvalidateReleaseOnly(r, {"detailed"}), {})

ModerateRelease(w, r) ==
  /\ Serves(w, "moderateRelease") /\ Exists(r)
  /\ \E status \in {"pending", "listed"} \ {db[r].status} :
       Save(w, [db EXCEPT ![r].status = status], InvalidateModeratedRelease(r), {})

RateRelease(w, r) ==
  /\ Serves(w, "rateRelease") /\ Exists(r)
  /\ \E c \in Copies \ {db[r].rating} :
       Save(w, [db EXCEPT ![r].rating = c], InvalidateRated(r), {})

\* star and unstar.  No tag list reaches the release's own page.
StarRelease(w, r, u) ==
  /\ Serves(w, "starRelease") /\ Exists(r)
  /\ \E stars \in {db[r].stars \cup {u}, db[r].stars \ {u}} \ {db[r].stars} :
       Save(w, [db EXCEPT ![r].stars = stars], InvalidateStarredEntity(u), {"release"})

\* The only handler that invalidates first and removes the document after.
DeleteRelease(w, r) ==
  /\ Serves(w, "deleteRelease") /\ Exists(r)
  /\ writer' = [writer EXCEPT ![w] = Job(InvalidateReleaseOnly(r, AllLevels), {r})]
  /\ UNCHANGED <<db, cache, refs, miss, excused>>

RemoveRelease(w) ==
  /\ Invalidated(w)
  /\ \E r \in writer[w].removes :
       Save(w, [db EXCEPT ![r] = NewEntity("absent")], <<>>, Page)

CreateBackglass(w) ==
  /\ Serves(w, "createBackglass") /\ ~Exists(Backglass)
  /\ \E status \in {"pending", "listed"} :
       Save(w, [db EXCEPT ![Backglass] = NewEntity(status)], InvalidateUpdatedBackglass, {})

AddBackglassVersion(w) ==
  /\ Serves(w, "addBackglassVersion") /\ Exists(Backglass)
  /\ \E c \in Copies \ {db[Backglass].more} :
       Save(w, [db EXCEPT ![Backglass].more = c], InvalidateUpdatedBackglass, {})

\* A page that does not show the backglass yet carries no tag of it.
ModerateBackglass(w) ==
  /\ Serves(w, "moderateBackglass") /\ Exists(Backglass)
  /\ \E status \in {"pending", "listed"} \ {db[Backglass].status} :
       Save(w, [db EXCEPT ![Backglass].status = status], InvalidateModeratedBackglass,
            IF status = "listed" THEN {"game"} ELSE {})

\* Invalidates nothing.
UpdateBackglass(w) ==
  /\ Serves(w, "updateBackglass") /\ Exists(Backglass)
  /\ \E c \in Copies \ {db[Backglass].name} :
       Save(w, [db EXCEPT ![Backglass].name = c], <<>>, {"game"})

DeleteBackglass(w) ==
  /\ Serves(w, "deleteBackglass") /\ Exists(Backglass)
  /\ Save(w, [db EXCEPT ![Backglass] = NewEntity("absent")], InvalidateUpdatedGame(AllLevels), {})

\* Invalidates nothing.
CreateMedium(w) ==
  /\ Serves(w, "createMedium") /\ ~Exists(Medium)
  /\ Save(w, [db EXCEPT ![Medium] = NewEntity("listed")], <<>>, {"game", "sitemap"})

DeleteMedium(w) ==
  /\ Serves(w, "deleteMedium") /\ Exists(Medium)
  /\ Save(w, [db EXCEPT ![Medium] = NewEntity("absent")], InvalidateUpdatedGame(AllLevels), {})

\* The sitemap names the authors, but is tagged with games and releases only.
UpdateAuthor(w) ==
  /\ Serves(w, "updateAuthor")
  /\ \E c \in Copies \ {db[Author].name} :
       Save(w, [db EXCEPT ![Author].name = c], InvalidateUpdatedUser, {"sitemap"})

-----------------------------------------------------------------------------
Miss(m) ==
  \/ \E k \in Key : Request(m, k)
  \/ Read(m) \/ Store(m) \/ Tag(m) \/ MissFails(m)

Invalidate(w) == NextCall(w) \/ Scan(w) \/ Drop(w) \/ Finish(w) \/ WriterFails(w)

ChangeGame(w) == UpdateGameTitle(w) \/ UpdateGameLogo(w) \/ RateGame(w)

ChangeRelease(w, r) ==
  \/ CreateRelease(w, r) \/ UpdateRelease(w, r) \/ UpdateVersion(w, r) \/ ValidateFile(w, r)
  \/ ModerateRelease(w, r) \/ RateRelease(w, r) \/ DeleteRelease(w, r)
  \/ \E u \in Readers : StarRelease(w, r, u)

ChangeOther(w) ==
  \/ RemoveRelease(w) \/ CreateBackglass(w) \/ AddBackglassVersion(w) \/ ModerateBackglass(w)
  \/ UpdateBackglass(w) \/ DeleteBackglass(w) \/ CreateMedium(w) \/ DeleteMedium(w)
  \/ UpdateAuthor(w)

Next ==
  \/ \E m \in Misses : Miss(m)
  \/ \E w \in Writers : Invalidate(w) \/ ChangeGame(w) \/ ChangeOther(w)
  \/ \E w \in Writers, r \in Releases : ChangeRelease(w, r)
  \/ \E k \in Key : Expire(k)
  \/ InvalidateAll

Spec == Init /\ [][Next]_vars

-----------------------------------------------------------------------------
Models == {"game", "release", "user", "backglass"}
AllTags ==
       {EntityTag(x, level) : x \in Entity, level \in AllLevels}
  \cup {ListTag(model) : model \in Models}
  \cup {UserTag(u) : u \in Readers}

Entities == [status: {"absent", "pending", "listed"}, name: Copies, more: Copies,
             rating: Copies, stars: SUBSET Readers]
Views == [name: Copies, rest: {<<>>} \cup (Copies \X Copies \X BOOLEAN)]
Jobs == [at: {"idle", "busy", "done"}, plan: Seq(SUBSET (SUBSET AllTags)), call: Nat,
         todo: SUBSET (SUBSET AllTags), doomed: SUBSET Key, removes: SUBSET Releases]
IsBody(body) == DOMAIN body \subseteq Entity /\ body \in [DOMAIN body -> Views]

\* Type invariant.  Of the code it says that an invalidation never runs past its
\* calls, and that the 404 of a release is never stored (api.cache.ts:134).
TypeOK ==
  /\ db \in [Entity -> Entities]
  /\ DOMAIN cache = Key
  /\ \A k \in Key : Stored(k) => IsBody(cache[k]) /\ Found(k, cache[k])
  /\ refs \subseteq AllTags \X Key
  /\ DOMAIN miss = Misses
  /\ \A m \in Misses :
       /\ DOMAIN miss[m] = {"at", "key", "body", "raced"}
       /\ miss[m].at \in {"idle", "reading", "storing", "tagging", "done"}
       /\ miss[m].key \in Key
       /\ miss[m].raced \in BOOLEAN
       /\ miss[m].at \in {"storing", "tagging"} =>
            IsBody(miss[m].body) /\ Found(miss[m].key, miss[m].body)
  /\ writer \in [Writers -> Jobs]
  /\ \A w \in Writers : writer[w].call <= Len(writer[w].plan)
  /\ excused \subseteq Key

\* A stored response that differs from what its route would answer now is
\* about to be deleted by a handler under way, or has one of the excuses the
\* history records: a write overlapped the miss that stored it, a step between
\* the set and the sadds or in an invalidation failed, or the change is one of
\* the pairs of handler and page the invalidation forgets.  In all other cases
\* what api.cache.ts:38-41 promises holds.
StaleOnlyIfExcused ==
  \A k \in Key : Stored(k) /\ cache[k] # Show(k, db) =>
    k \in excused \/ \E w \in Writers : Pending(w, k)

\* A response that is stored, tagged and not excused is in the reference set of
\* everything it shows (api.cache.ts:503-529), so that an invalidation finds it.
Findable ==
  \A k \in Key : Stored(k) /\ k \notin excused =>
    \/ \A t \in Tags(k, cache[k]) : <<t, k>> \in refs
    \/ \E m \in Misses : miss[m].at = "tagging" /\ miss[m].key = k

=============================================================================
