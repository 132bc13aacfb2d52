------------------------------ MODULE Listing ------------------------------
(***************************************************************************)
(* Lists, page by page: log events (log.event.api.ts), games (game.api.ts) *)
(* releases (release.api.ts, release.list.query.builder.ts), backglasses   *)
(* and ROMs; and whole: tags, builds and users.  A request looks up what   *)
(* its filter needs, then counts and finds in parallel, and answers with a *)
(* page and links to others (common/api.ts).  A reader follows the links   *)
(* to the next page while entities come and go, or change what the list is *)
(* sorted by.                                                              *)
(***************************************************************************)
EXTENDS Integers, Sequences, FiniteSetsExt

CONSTANTS
  Entries,    \* what there can be to list, each with its list, what it is sorted by and its attributes
  Filters,    \* bound: per list, what readers ask for
  Visitors,   \* Anybody, if not logged in; else with whether it is a moderator, an admin
  Stocks,     \* bound: what there is at first, and what has a star of the reader
  PerPages,   \* bound: the sizes of pages asked for
  MaxChanges, \* bound: of the database during a walk
  Anybody     \* no logged user

ASSUME ListingAssumption ==
  /\ IsFiniteSet(Entries) /\ \A e \in Entries : e.rank \in Int
  /\ \A q \in Filters : q.list \in {"events", "games", "releases", "backglasses", "roms", "labels", "users"}
  /\ PerPages \subseteq Int
  /\ \A stock \in Stocks : stock.there \subseteq Entries

VARIABLES
  there,     \* the entities in the database
  starred,   \* the games and releases with a star of the reader
  walk,      \* the reader going through a list; steady, shifted, torn: history, see below
  changes    \* history: how often the database has changed

listingVars == <<there, starred, walk, changes>>

NoWalk == [at |-> "none"]

ListingInit ==
  /\ \E stock \in Stocks : there = stock.there /\ starred = stock.starred
  /\ walk = NoWalk
  /\ changes = 0

-----------------------------------------------------------------------------
\* Api.pagination: a page that is none is the first, a size that is none the default.
PageNumber(page) == Max({page, 1})
PerPage(perPage, default, most) == IF perPage <= 0 THEN default ELSE Min({perPage, most})

\* Api.success: next and prev, and first and last where these lead elsewhere.
LastPage(count, perPage) == (count + perPage - 1) \div perPage
PageLinks(page, perPage, count) ==
  LET last == LastPage(count, perPage) IN
  (IF page > 2 THEN {<<"first", 1>>} ELSE {})
  \cup (IF page > 1 THEN {<<"prev", page - 1>>} ELSE {})
  \cup (IF page < last THEN {<<"next", page + 1>>} ELSE {})
  \cup (IF page < last - 1 THEN {<<"last", last>>} ELSE {})

\* Mutant of NextPages: a link to the next page only where it is not the last one.
NextUnlessLast(page, perPage, count) ==
  {link[2] : link \in {k \in PageLinks(page, perPage, count) : k[1] = "next"} \ {<<"next", LastPage(count, perPage)>>}}

NextPages(page, perPage, count) ==
  {link[2] : link \in {k \in PageLinks(page, perPage, count) : k[1] = "next"}}

-----------------------------------------------------------------------------
\* The game that backglasses and ROMs are asked for, by its id or by its number.
GamesAsked(q, db) ==
  {g \in db : g.list = "games" /\ (q.game = g.name \/ (q.game = "none" /\ q.number \in {g.number} \ {0}))}

\* What a request looks up before it queries: the stars of the reader, the games of his
\* releases and the game asked for.
Loaded(db, stars, q, visitor) ==
  [stars |-> stars, games |-> {r.game : r \in {d \in db : d.list = "releases" /\ d.author = visitor}},
   asked |-> IF q.list \in {"backglasses", "roms"} THEN {g.name : g \in GamesAsked(q, db)} ELSE {}]
NothingLoaded == [stars |-> {}, games |-> {}, asked |-> {}]

IsModerator(visitor) == visitor # Anybody /\ visitor.moderator
CanListUsers(visitor) == visitor # Anybody /\ visitor.admin

\* applyRestrictions and applyRestrictionsForGame.  Bound: some games are restricted.
MayView(e, visitor) == ~e.restricted \/ e.author = visitor \/ IsModerator(visitor)

\* LogEventApi.list
EventMatches(e, q, visitor, stars) ==
  /\ e.public
  /\ q.events # {} => e.event \in q.events
  /\ e.event \notin q.without
  /\ q.mine => e.actor = visitor
  /\ q.of # {} => {e.game, e.release} \cap q.of # {}
  /\ q.starred => {e.game, e.release} \cap stars # {}

\* counter.releases, which module Moderation keeps.
ReleasesOf(g, db) == {r \in db : r.list = "releases" /\ r.game = g.name}

\* GameApi.list: games with a release; those of a restricted manufacturer for moderators and
\* the authors of a release, originals only with a release or among one's own.  Text,
\* manufacturer and decade are filters like the tags of releases and left out.
GameMatches(g, q, visitor, games, db) ==
  /\ q.withReleases =>
       /\ ReleasesOf(g, db) # {}
       /\ IsModerator(visitor) \/ ~g.restricted \/ g.name \in games
  /\ IF q.mine /\ visitor # Anybody
       THEN g.owner = visitor
       ELSE g.original => ReleasesOf(g, db) # {}

\* ReleaseApi.list with ReleaseListQueryBuilder.  Tags stand for all filters by what a release
\* has: ids, validation, builds, file size and text.
ReleaseMatches(r, q, visitor, stars) ==
  /\ IF q.mine /\ visitor # Anybody
       THEN r.author = visitor
       ELSE MayView(r, visitor)
  /\ q.tags \subseteq r.tags
  /\ q.flavor # {} => r.flavor \in q.flavor \cup {"any"}
  /\ q.starred = "yes" => r.name \in stars
  /\ q.starred = "no" => r.name \notin stars

\* BackglassApi.list.  Both the game and the restriction are a condition on _game, and the
\* second replaces the first: without a login one is shown the backglasses of all games.
BackglassMatches(b, q, visitor, asked) ==
  /\ MayView(b, visitor)
  /\ asked # {} /\ visitor # Anybody => b.game \in asked

\* RomApi.list: of a game, of a number without a game, or all.
RomMatches(r, q, visitor, asked) ==
  IF asked = {} /\ q.number # 0
    THEN r.number = q.number
    ELSE MayView(r, visitor) /\ (asked = {} \/ r.game \in asked)

\* TagApi.list, BuildApi.list: the active ones and one's own.
LabelMatches(l, visitor) == l.active \/ (visitor # Anybody /\ l.owner = visitor)

\* UserApi.list: only those who may list everybody find users by mail or by role.
UserMatches(u, q, visitor) ==
  /\ q.text # "" => q.text = u.name \/ (CanListUsers(visitor) /\ q.text = u.email)
  /\ CanListUsers(visitor) /\ q.roles # {} => u.roles \cap q.roles # {}

Matching(db, q, visitor, loaded) ==
  {e \in db :
     /\ e.list = q.list
     /\ CASE q.list = "events" -> EventMatches(e, q, visitor, loaded.stars)
          [] q.list = "games" -> GameMatches(e, q, visitor, loaded.games, db)
          [] q.list = "releases" -> ReleaseMatches(e, q, visitor, loaded.stars)
          [] q.list = "backglasses" -> BackglassMatches(e, q, visitor, loaded.asked)
          [] q.list = "roms" -> RomMatches(e, q, visitor, loaded.asked)
          [] q.list = "labels" -> LabelMatches(e, visitor)
          [] q.list = "users" -> UserMatches(e, q, visitor)}

ListNow(db, stars, q, visitor) == Matching(db, q, visitor, Loaded(db, stars, q, visitor))

\* MongoDB sorts by one key, a date, a title, a version or a score; entities with equal keys
\* come in any order, and in another one the next time.
Orders(entities) == Injection(entities, 1..Cardinality(entities))
Place(entities, order, e) ==
  Cardinality({d \in entities : d.rank < e.rank \/ (d.rank = e.rank /\ order[d] < order[e])})

OnPage(entities, order, page, perPage) ==
  {e \in entities : /\ Place(entities, order, e) >= (page - 1) * perPage
                    /\ Place(entities, order, e) < page * perPage}

-----------------------------------------------------------------------------
\* The lists without pages are found at once and not counted.
Whole == {"labels", "users"}
Begin(q) == IF q.list \in Whole THEN {"count"} ELSE {}
PageFound(q, entities, order, page, perPage) ==
  IF q.list \in Whole THEN entities ELSE OnPage(entities, order, page, perPage)

\* History: those that the end of the page parts from one with the same key.
Torn(q, entities, order, page, perPage) ==
  LET after(e) == Place(entities, order, e) >= page * perPage
  IN {e \in entities : q.list \notin Whole /\ \E d \in entities : d.rank = e.rank /\ after(d) # after(e)}

\* The first page.  Asking for what is starred needs a login.
AskFor(visitor, q, perPage) ==
  /\ walk = NoWalk
  /\ q.list = "events" => (q.mine \/ q.starred => visitor # Anybody)
  /\ q.list = "releases" => (q.starred # "any" => visitor # Anybody)
  /\ walk' = [at |-> "ask", visitor |-> visitor, q |-> q, page |-> PageNumber(0),
              perPage |-> PerPage(perPage, 2, 3),
              seen |-> {}, loaded |-> NothingLoaded, count |-> 0, found |-> {}, done |-> {},
              steady |-> ListNow(there, starred, q, visitor), shifted |-> FALSE, torn |-> {}]
  /\ UNCHANGED <<there, starred, changes>>

\* Of a game or a release that is gone, or that one may not see, there is no list of events;
\* of a game that is gone, none of backglasses and ROMs.
Refused(q, visitor) ==
  \/ /\ q.list = "events"
     /\ \E name \in q.of : \A e \in there :
          e.list \in {"games", "releases"} /\ e.name = name => e.list = "releases" /\ ~MayView(e, visitor)
  \/ q.list \in {"backglasses", "roms"} /\ q.game # "none" /\ GamesAsked(q, there) = {}
  \/ q.list = "users" /\ q.text = "" /\ ~CanListUsers(visitor)

\* If an event list shows what is starred and nothing is, nothing is queried.
LookUp ==
  LET empty == walk.q.list = "events" /\ walk.q.starred /\ starred = {} IN
  /\ walk.at = "ask"
  /\ walk' = IF Refused(walk.q, walk.visitor)
               THEN [walk EXCEPT !.at = "refused"]
               ELSE [walk EXCEPT !.at = "query", !.loaded = Loaded(there, starred, walk.q, walk.visitor),
                                 !.done = IF empty THEN {"count", "find"} ELSE Begin(walk.q)]
  /\ UNCHANGED <<there, starred, changes>>

\* The list as the request queries it, with what it has looked up.
Queried(db) == Matching(db, walk.q, walk.visitor, walk.loaded)

\* The plugin counts and finds in any order.
CountEntries ==
  /\ walk.at = "query" /\ "count" \notin walk.done
  /\ walk' = [walk EXCEPT !.count = Cardinality(Queried(there)), !.done = @ \cup {"count"}]
  /\ UNCHANGED <<there, starred, changes>>

FindEntries ==
  /\ walk.at = "query" /\ "find" \notin walk.done
  /\ \E order \in Orders(Queried(there)) :
       walk' = [walk EXCEPT !.found = PageFound(walk.q, Queried(there), order, walk.page, walk.perPage),
                            !.torn = @ \cup Torn(walk.q, Queried(there), order, walk.page, walk.perPage),
                            !.done = @ \cup {"find"}]
  /\ UNCHANGED <<there, starred, changes>>

\* The answer, and the request for the next page if there is one.
FollowNext ==
  LET next == NextPages(walk.page, walk.perPage, walk.count)
      read == [walk EXCEPT !.seen = @ \cup walk.found, !.count = 0, !.found = {}, !.done = {},
                            !.loaded = NothingLoaded]
  IN
  /\ walk.at = "query" /\ walk.done = {"count", "find"}
  /\ IF next = {}
       THEN walk' = [read EXCEPT !.at = "end"]
       ELSE \E page \in next : walk' = [read EXCEPT !.at = "ask", !.page = page]
  /\ UNCHANGED <<there, starred, changes>>

-----------------------------------------------------------------------------
\* The database changes while somebody walks; what was before is any state.  A walk through
\* pages is shifted, if an entity leaves the list or its place in it, or if one comes between
\* counting and finding, or only to a request that has looked up its filter before.
Change(db, stars) ==
  LET before == ListNow(there, starred, walk.q, walk.visitor)
      after == ListNow(db, stars, walk.q, walk.visitor)
      shifts ==
        /\ walk.q.list \notin Whole
        /\ \/ before \ after # {}
           \/ walk.done = {"count"} /\ Queried(db) \ Queried(there) # {}
           \/ walk.at = "query" /\ Queried(db) \ after # {}
  IN
  /\ walk.at \in {"ask", "query"} /\ changes < MaxChanges
  /\ changes' = changes + 1
  /\ there' = db /\ starred' = stars
  /\ walk' = [walk EXCEPT !.steady = @ \cap after, !.shifted = @ \/ shifts]

\* Bound: only what the list depends on changes.
Concerns(e) ==
  \/ e.list = walk.q.list
  \/ e.list = "games" /\ walk.q.list \notin Whole
  \/ e.list = "releases" /\ walk.q.list \in {"events", "games"}

\* LogEventUtil.log: what the other handlers did, one event each.
LogEvent(e) ==
  /\ e \notin there /\ Concerns(e) /\ e.list = "events"
  /\ Change(there \cup {e}, starred)

\* A release refers to a game there is, and goes before it; labels have actions of their own.
AddEntry(e) ==
  /\ e \notin there /\ Concerns(e) /\ e.list \notin {"events", "labels"}
  /\ e.list = "releases" => \E g \in there : g.list = "games" /\ g.name = e.game
  /\ \A d \in there : [d EXCEPT !.rank = e.rank] # e
  /\ Change(there \cup {e}, starred)

\* Events stay.
RemoveEntry(e) ==
  /\ e \in there /\ Concerns(e) /\ e.list \notin {"events", "labels"}
  /\ e.list = "games" => ReleasesOf(e, there) = {}
  /\ Change(there \ {e}, starred)

\* What games and releases may be sorted by - views, downloads, stars, comments, votes and
\* titles - changes with what others do.
Rerank(e, f) ==
  /\ e \in there /\ f \notin there /\ e.list = walk.q.list
  /\ e.list \in {"games", "releases"} /\ f = [e EXCEPT !.rank = f.rank]
  /\ Change((there \ {e}) \cup {f}, starred)

ToggleStar(e) ==
  /\ e \in there /\ Concerns(e) /\ e.list \in {"games", "releases"}
  /\ Change(there, IF e.name \in starred THEN starred \ {e.name} ELSE starred \cup {e.name})

\* TagApi.create and BuildApi.create: a new label is its creator's and not active.
Label(l, active) ==
  [list |-> "labels", rank |-> l.rank, name |-> l.name, active |-> active, owner |-> l.owner]
CreateLabel(l) ==
  /\ l.list = "labels" /\ Concerns(l) /\ \A k \in there : k.list = "labels" => k.name # l.name
  /\ Change(there \cup {Label(l, FALSE)}, starred)

\* BuildApi.update, by a moderator.
UpdateLabel(l) ==
  /\ l \in there /\ l.list = "labels" /\ Concerns(l)
  /\ Change((there \ {l}) \cup {Label(l, ~l.active)}, starred)

\* TagApi.del, by the owner or a moderator, whatever has the tag.
DeleteLabel(l) ==
  /\ l \in there /\ l.list = "labels" /\ Concerns(l)
  /\ \E visitor \in Visitors : IsModerator(visitor) \/ (visitor # Anybody /\ l.owner = visitor)
  /\ Change(there \ {l}, starred)

ListingStep ==
  \/ \E visitor \in Visitors, q \in Filters, n \in PerPages : AskFor(visitor, q, n)
  \/ LookUp \/ CountEntries \/ FindEntries \/ FollowNext
  \/ /\ walk.at \in {"ask", "query"}
     /\ \/ \E e \in Entries : LogEvent(e) \/ AddEntry(e) \/ RemoveEntry(e) \/ ToggleStar(e) \/ CreateLabel(e)
        \/ \E e, f \in Entries : Rerank(e, f)
        \/ \E l \in there : UpdateLabel(l) \/ DeleteLabel(l)

-----------------------------------------------------------------------------
\* Who goes from the first page to the last has seen every entity that was in the list all
\* the time, unless the list has pages and one has left it or moved within it meanwhile, or
\* come after a page was counted and before it was found, or come to a page by a filter that
\* was out of date (api.ts:164-187, mongoose-paginate as log.event.api.ts:148 uses it); and
\* except those that a page ended among others with the same date, title or score, of which
\* the next request may show the same ones again (game.api.ts:375-380, log.event.api.ts:148).
WalkSeesAll == walk.at = "end" /\ ~walk.shifted => walk.steady \ walk.torn \subseteq walk.seen

=============================================================================
