---------------------------- MODULE ReadingProofs ----------------------------
(***************************************************************************)
(* What a reader of the API gets: from the cache, which stays as fresh as  *)
(* StaleOnlyIfExcused says with any number of releases, readers,           *)
(* concurrent misses and concurrent writers; from the lists, through       *)
(* which he walks page by page, as WalkSeesAll says, however long they are *)
(* and whatever changes meanwhile; and from the index of table contents,   *)
(* which matches tables as MatchesByContent says, whatever is in them.     *)
(***************************************************************************)
EXTENDS ApiCache, BlockIndex, Listing, FiniteSetTheorems, SequenceTheorems, WellFoundedInduction, TLAPS

Plans == Seq(SUBSET (SUBSET AllTags))

-----------------------------------------------------------------------------
(* What a change of one entity does to the routes.                         *)

LEMMA StatusDecidesShown ==
  ASSUME NEW d \in [Entity -> Entities], NEW e \in [Entity -> Entities], NEW k \in Key,
         \A x \in Entity : d[x].status = e[x].status
  PROVE  Shown(k, d) = Shown(k, e)
<1>1. Listed(d) = Listed(e)
  BY DEF Listed, Entity
<1>2. \A x \in Entity : x \in Shown(k, d) <=> x \in Shown(k, e)
  BY <1>1 DEF Shown, ShownInReleases, ShownInGame, ShownInSitemap, Entity
<1> QED
  BY <1>2 DEF Shown

LEMMA SameViews ==
  ASSUME NEW d, NEW e, NEW k, Shown(k, d) = Shown(k, e),
         \A x \in Shown(k, d) : View(k, x, d) = View(k, x, e)
  PROVE  Show(k, d) = Show(k, e)
  BY DEF Show

\* An edit that keeps the status of y shows where y is shown, and nowhere else.
LEMMA EditShows ==
  ASSUME NEW d \in [Entity -> Entities], NEW y \in Entity, NEW v \in Entities,
         v.status = d[y].status, NEW k \in Key,
         Show(k, [d EXCEPT ![y] = v]) # Show(k, d)
  PROVE  /\ y \in Shown(k, d)
         /\ View(k, y, [d EXCEPT ![y] = v]) # View(k, y, d)
<1> DEFINE e == [d EXCEPT ![y] = v]
<1>1. e \in [Entity -> Entities] /\ e[y] = v /\ \A x \in Entity \ {y} : e[x] = d[x]
  OBVIOUS
<1>2. \A x \in Entity : d[x].status = e[x].status
  BY <1>1
<1> HIDE DEF e
<1>3. Shown(k, d) = Shown(k, e)
  BY <1>1, <1>2, StatusDecidesShown
<1>4. \A x \in Entity \ {y} : View(k, x, e) = View(k, x, d)
  BY <1>1 DEF View
<1>5. Shown(k, d) \subseteq Entity
  BY DEF Shown
<1>6. Show(k, e) # Show(k, d)
  BY DEF e
<1>7. y \in Shown(k, d) /\ View(k, y, e) # View(k, y, d)
  BY <1>3, <1>4, <1>5, <1>6, SameViews
<1> QED
  BY <1>7 DEF e

LEMMA ShownIsTagged ==
  ASSUME NEW d, NEW k \in Key, NEW y \in Shown(k, d), k.page # "sitemap"
  PROVE  EntityTag(y, LevelOf(k, y)) \in Tags(k, Show(k, d))
  BY DEF Tags, Show

LEMMA ListIsTagged ==
  ASSUME NEW d, NEW k \in Key
  PROVE  /\ k.page \in {"releases", "sitemap"} => ListTag("release") \in Tags(k, Show(k, d))
         /\ k.page \in {"games", "sitemap"} => ListTag("game") \in Tags(k, Show(k, d))
  BY DEF Tags, Lists

LEMMA ReaderIsTagged ==
  ASSUME NEW d, NEW k \in Key, k.reader # Anon
  PROVE  UserTag(k.reader) \in Tags(k, Show(k, d))
  BY DEF Tags

LEMMA GameIsTagged ==
  ASSUME NEW d, NEW k \in Key, k.page = "game"
  PROVE  EntityTag(Game, "detailed") \in Tags(k, Show(k, d))
<1>1. Game \in Shown(k, d)
  BY DEF Shown, ShownInReleases, ShownInGame, ShownInSitemap, Entity
<1>2. LevelOf(k, Game) = "detailed"
  BY ContentAssumption DEF LevelOf
<1> QED
  BY <1>1, <1>2, ShownIsTagged

LEMMA LevelType ==
  ASSUME NEW k \in Key, NEW x
  PROVE  LevelOf(k, x) \in AllLevels
  BY DEF LevelOf, AllLevels

\* The pages a change of one document can reach.
LEMMA ReleaseReach ==
  ASSUME NEW d \in [Entity -> Entities], NEW r \in Releases, NEW v \in Entities, NEW k \in Key,
         k.page = "games" \/ (k.page = "release" /\ k.of # r)
  PROVE  Show(k, [d EXCEPT ![r] = v]) = Show(k, d)
<1> DEFINE e == [d EXCEPT ![r] = v]
<1>1. r \in Entity /\ Game # r /\ Author # r
  BY ContentAssumption DEF Entity
<1>2. e \in [Entity -> Entities] /\ \A x \in Entity \ {r} : e[x] = d[x]
  BY <1>1
<1> HIDE DEF e
<1>3. k.page = "release" => k.of \in Releases /\ k.of \in Entity \ {r}
  BY DEF Key, Entity
<1>4. \A x \in Shown(k, d) \cup Shown(k, e) : x \in Entity \ {r}
  BY <1>1, <1>3 DEF Shown, ShownInReleases, ShownInGame, ShownInSitemap, Entity
<1>5. \A x \in Entity : x \in Shown(k, d) <=> x \in Shown(k, e)
  BY <1>2, <1>3 DEF Shown, ShownInReleases, ShownInGame, ShownInSitemap, Listed
<1>6. Shown(k, d) = Shown(k, e)
  BY <1>5 DEF Shown
<1>7. \A x \in Shown(k, d) : View(k, x, d) = View(k, x, e)
  BY <1>2, <1>4 DEF View
<1>8. Show(k, d) = Show(k, e)
  BY <1>6, <1>7, SameViews
<1> QED
  BY <1>8 DEF e

LEMMA AssetReach ==
  ASSUME NEW d \in [Entity -> Entities], NEW y \in {Backglass, Medium}, NEW v \in Entities,
         NEW k \in Key, k.page # "game", k.page = "sitemap" => y = Backglass
  PROVE  Show(k, [d EXCEPT ![y] = v]) = Show(k, d)
<1> DEFINE e == [d EXCEPT ![y] = v]
<1>1. y \in Entity /\ y \notin Releases /\ y # Game /\ y # Author
  BY ContentAssumption DEF Entity
<1>2. e \in [Entity -> Entities] /\ \A x \in Entity \ {y} : e[x] = d[x]
  BY <1>1
<1> HIDE DEF e
<1>3. Listed(e) = Listed(d) /\ \A x \in Releases : x \in Entity \ {y}
  BY <1>1, <1>2 DEF Listed, Entity
<1>4. \A x \in Entity : x \in Shown(k, d) <=> x \in Shown(k, e)
  BY <1>1, <1>2, <1>3, ContentAssumption DEF Shown, ShownInReleases, ShownInGame, ShownInSitemap, Key
<1>5. Shown(k, d) = Shown(k, e)
  BY <1>4 DEF Shown
<1>6. \A x \in Shown(k, d) : x \in Entity \ {y}
  BY <1>1, ContentAssumption DEF Shown, ShownInReleases, ShownInGame, ShownInSitemap, Key, Listed
<1>7. \A x \in Shown(k, d) : View(k, x, d) = View(k, x, e)
  BY <1>2, <1>6 DEF View
<1>8. Show(k, d) = Show(k, e)
  BY <1>5, <1>7, SameViews
<1> QED
  BY <1>8 DEF e

-----------------------------------------------------------------------------
(* Every handler's plan covers its change: a route that would now answer   *)
(* something else was tagged with all the tags of one of the tag lists, or *)
(* is among the pages the handler forgets.                                 *)

Covers(newdb, plan, gaps) ==
  \A k \in Key : Show(k, newdb) # Show(k, db) /\ Found(k, Show(k, db)) =>
    \/ k.page \in gaps
    \/ \E i \in 1..Len(plan) : \E tags \in plan[i] : tags \subseteq Tags(k, Show(k, db))

LEMMA PlanTypes ==
  /\ \A model \in Models : InvalidateList(model) \in SUBSET (SUBSET AllTags)
  /\ \A x \in Entity, levels \in SUBSET AllLevels :
       InvalidateEntity(x, levels) \in SUBSET (SUBSET AllTags)
<1>1. ASSUME NEW model \in Models PROVE ListTag(model) \in AllTags
  BY DEF AllTags
<1>2. ASSUME NEW x \in Entity, NEW level \in AllLevels PROVE EntityTag(x, level) \in AllTags
  BY DEF AllTags
<1> QED
  BY <1>1, <1>2 DEF InvalidateList, InvalidateEntity

LEMMA EntityTypes ==
  /\ \A status \in {"absent", "pending", "listed"} :
       NewEntity(status) \in Entities /\ NewEntity(status).status = status
  /\ \A e \in Entities, c \in Copies :
       /\ [e EXCEPT !.name = c] \in Entities
       /\ [e EXCEPT !.more = c] \in Entities
       /\ [e EXCEPT !.rating = c] \in Entities
  /\ \A e \in Entities, stars \in SUBSET Readers : [e EXCEPT !.stars = stars] \in Entities
  BY CopiesAssumption DEF NewEntity, Entities

\* A plan with a call for an entity at the levels a page may show it at.
LEMMA EntityCallCovers ==
  ASSUME NEW plan \in Plans, NEW i \in 1..Len(plan), NEW y, NEW levels,
         plan[i] = InvalidateEntity(y, levels),
         NEW d, NEW k \in Key, k.page # "sitemap", y \in Shown(k, d), LevelOf(k, y) \in levels
  PROVE  \E j \in 1..Len(plan) : \E tags \in plan[j] : tags \subseteq Tags(k, Show(k, d))
<1>1. {EntityTag(y, LevelOf(k, y))} \in plan[i]
  BY DEF InvalidateEntity
<1> QED
  BY <1>1, ShownIsTagged

LEMMA ListCallCovers ==
  ASSUME NEW plan \in Plans, NEW i \in 1..Len(plan), NEW d, NEW k \in Key,
         \/ plan[i] = InvalidateList("game") /\ k.page \in {"games", "sitemap"}
         \/ plan[i] = InvalidateList("release") /\ k.page \in {"releases", "sitemap"}
  PROVE  \E j \in 1..Len(plan) : \E tags \in plan[j] : tags \subseteq Tags(k, Show(k, d))
<1>1. CASE plan[i] = InvalidateList("game") /\ k.page \in {"games", "sitemap"}
  <2>1. {ListTag("game")} \in plan[i]
    BY <1>1 DEF InvalidateList
  <2>2. {ListTag("game")} \subseteq Tags(k, Show(k, d))
    BY <1>1, ListIsTagged
  <2> QED
    BY <2>1, <2>2
<1>2. CASE plan[i] = InvalidateList("release") /\ k.page \in {"releases", "sitemap"}
  <2>1. {ListTag("release")} \in plan[i]
    BY <1>2 DEF InvalidateList
  <2>2. {ListTag("release")} \subseteq Tags(k, Show(k, d))
    BY <1>2, ListIsTagged
  <2> QED
    BY <2>1, <2>2
<1> QED
  BY <1>1, <1>2

LEMMA GameCallCovers ==
  ASSUME NEW plan \in Plans, NEW i \in 1..Len(plan), NEW levels,
         plan[i] = InvalidateEntity(Game, levels), "detailed" \in levels,
         NEW d, NEW k \in Key, k.page = "game"
  PROVE  \E j \in 1..Len(plan) : \E tags \in plan[j] : tags \subseteq Tags(k, Show(k, d))
<1>1. {EntityTag(Game, "detailed")} \in plan[i]
  BY DEF InvalidateEntity
<1>2. {EntityTag(Game, "detailed")} \subseteq Tags(k, Show(k, d))
  BY GameIsTagged
<1> QED
  BY <1>1, <1>2

\* The plans the handlers use, call by call.
LEMMA UpdatedGamePlan ==
  ASSUME NEW levels \in SUBSET AllLevels
  PROVE  LET plan == InvalidateUpdatedGame(levels) IN
         /\ plan \in Plans /\ Len(plan) = 2 /\ 1 \in 1..Len(plan) /\ 2 \in 1..Len(plan)
         /\ plan[1] = InvalidateList("game") /\ plan[2] = InvalidateEntity(Game, levels)
<1>1. Game \in Entity /\ "game" \in Models
  BY DEF Entity, Models
<1> QED
  BY <1>1, PlanTypes DEF InvalidateUpdatedGame, Plans

LEMMA ReleasePlans ==
  ASSUME NEW r \in Releases, NEW levels \in SUBSET AllLevels
  PROVE  /\ LET plan == InvalidateCreatedRelease IN
            /\ plan \in Plans /\ 1 \in 1..Len(plan) /\ 2 \in 1..Len(plan)
            /\ plan[1] = InvalidateList("release") /\ plan[2] = InvalidateEntity(Game, {"detailed"})
         /\ LET plan == InvalidateUpdatedRelease(r, levels) IN
            /\ plan \in Plans
            /\ 1 \in 1..Len(plan) /\ 2 \in 1..Len(plan) /\ 3 \in 1..Len(plan)
            /\ plan[1] = InvalidateList("release") /\ plan[2] = InvalidateEntity(r, levels)
            /\ plan[3] = InvalidateEntity(Game, {"detailed"})
         /\ LET plan == InvalidateReleaseOnly(r, levels) IN
            /\ plan \in Plans /\ 1 \in 1..Len(plan) /\ 2 \in 1..Len(plan)
            /\ plan[1] = InvalidateList("release") /\ plan[2] = InvalidateEntity(r, levels)
         /\ LET plan == InvalidateModeratedRelease(r) IN
            /\ plan \in Plans /\ 1 \in 1..Len(plan) /\ 2 \in 1..Len(plan) /\ 4 \in 1..Len(plan)
            /\ plan[1] = InvalidateEntity(r, AllLevels) /\ plan[2] = InvalidateList("release")
            /\ plan[4] = InvalidateEntity(Game, AllLevels)
<1>1. Game \in Entity /\ r \in Entity /\ {"game", "release"} \subseteq Models
  BY DEF Entity, Models
<1>2. {"detailed"} \in SUBSET AllLevels
  BY DEF AllLevels
<1>3. /\ InvalidateList("game") \in SUBSET (SUBSET AllTags)
      /\ InvalidateList("release") \in SUBSET (SUBSET AllTags)
      /\ InvalidateEntity(r, levels) \in SUBSET (SUBSET AllTags)
      /\ InvalidateEntity(r, AllLevels) \in SUBSET (SUBSET AllTags)
      /\ InvalidateEntity(Game, AllLevels) \in SUBSET (SUBSET AllTags)
      /\ InvalidateEntity(Game, {"detailed"}) \in SUBSET (SUBSET AllTags)
  BY <1>1, <1>2, PlanTypes
<1> QED
  BY <1>3 DEF InvalidateCreatedRelease, InvalidateUpdatedRelease, InvalidateReleaseOnly,
              InvalidateModeratedRelease, Plans

LEMMA OtherPlans ==
  /\ <<>> \in Plans
  /\ LET plan == InvalidateUpdatedBackglass IN
     plan \in Plans /\ 1 \in 1..Len(plan) /\ plan[1] = InvalidateEntity(Game, {"detailed"})
  /\ LET plan == InvalidateModeratedBackglass IN
     plan \in Plans /\ 1 \in 1..Len(plan) /\ plan[1] = InvalidateEntity(Backglass, AllLevels)
  /\ LET plan == InvalidateUpdatedUser IN
     /\ plan \in Plans /\ 1 \in 1..Len(plan) /\ 2 \in 1..Len(plan)
     /\ plan[2] = InvalidateEntity(Author, AllLevels)
  /\ \A x \in Entity : LET plan == InvalidateRated(x) IN
     plan \in Plans /\ 1 \in 1..Len(plan) /\ plan[1] = InvalidateEntity(x, AllLevels)
  /\ \A u \in Readers : LET plan == InvalidateStarredEntity(u) IN
     /\ plan \in Plans /\ 1 \in 1..Len(plan)
     /\ plan[1] = {{ListTag("release"), UserTag(u)}, {EntityTag(Game, "detailed"), UserTag(u)}}
<1>1. Game \in Entity /\ Backglass \in Entity /\ Author \in Entity
      /\ {"user", "backglass"} \subseteq Models
  BY DEF Entity, Models
<1>2. {"detailed"} \in SUBSET AllLevels
  BY DEF AllLevels
<1>3. /\ InvalidateList("user") \in SUBSET (SUBSET AllTags)
      /\ InvalidateList("backglass") \in SUBSET (SUBSET AllTags)
      /\ \A x \in Entity : InvalidateEntity(x, AllLevels) \in SUBSET (SUBSET AllTags)
      /\ InvalidateEntity(Game, {"detailed"}) \in SUBSET (SUBSET AllTags)
  BY <1>1, <1>2, PlanTypes
<1>4. ASSUME NEW u \in Readers
      PROVE  {{ListTag("release"), UserTag(u)}, {EntityTag(Game, "detailed"), UserTag(u)}}
               \in SUBSET (SUBSET AllTags)
  <2>1. ListTag("release") \in AllTags /\ UserTag(u) \in AllTags
    BY DEF AllTags, Models
  <2>2. EntityTag(Game, "detailed") \in AllTags
    BY <1>1 DEF AllTags, AllLevels
  <2> QED
    BY <2>1, <2>2
<1> QED
  BY <1>1, <1>3, <1>4 DEF InvalidateUpdatedBackglass, InvalidateModeratedBackglass,
     InvalidateUpdatedUser, InvalidateRated, InvalidateStarredEntity, Plans

-----------------------------------------------------------------------------
(* One lemma per handler: it saves a typed document, and its plan covers   *)
(* the change.                                                             *)

GoodSave(w) ==
  /\ writer[w].at = "idle" \/ Invalidated(w)
  /\ \E newdb \in [Entity -> Entities], plan \in Plans, gaps \in SUBSET Page :
       Covers(newdb, plan, gaps) /\ Save(w, newdb, plan, gaps)

\* An edit of a field of y, with a call for y and, for the sitemap, a list call.
LEMMA EditCovers ==
  ASSUME TypeOK, NEW y \in Entity, NEW v \in Entities, v.status = db[y].status,
         NEW plan \in Plans, NEW i \in 1..Len(plan), NEW levels, NEW gaps,
         plan[i] = InvalidateEntity(y, levels),
         \A k \in Key : y \in Shown(k, db) /\ View(k, y, [db EXCEPT ![y] = v]) # View(k, y, db) =>
           \/ k.page \in gaps
           \/ k.page # "sitemap" /\ LevelOf(k, y) \in levels
           \/ \E j \in 1..Len(plan) : \E tags \in plan[j] : tags \subseteq Tags(k, Show(k, db))
  PROVE  Covers([db EXCEPT ![y] = v], plan, gaps)
<1> SUFFICES ASSUME NEW k \in Key, Show(k, [db EXCEPT ![y] = v]) # Show(k, db)
             PROVE  \/ k.page \in gaps
                    \/ \E j \in 1..Len(plan) : \E tags \in plan[j] : tags \subseteq Tags(k, Show(k, db))
  BY DEF Covers
<1>1. y \in Shown(k, db) /\ View(k, y, [db EXCEPT ![y] = v]) # View(k, y, db)
  BY EditShows DEF TypeOK
<1> QED
  BY <1>1, EntityCallCovers

LEMMA GameHandlers ==
  ASSUME TypeOK, NEW w \in Writers, ChangeGame(w)
  PROVE  GoodSave(w)
<1>0. Game \in Entity /\ db \in [Entity -> Entities] /\ db[Game] \in Entities
  BY DEF TypeOK, Entity
<1>1. CASE UpdateGameTitle(w)
  <2>1. PICK c \in Copies : Save(w, [db EXCEPT ![Game].name = c], InvalidateUpdatedGame(AllLevels), {})
    BY <1>1 DEF UpdateGameTitle
  <2> DEFINE v == [db[Game] EXCEPT !.name = c]
             plan == InvalidateUpdatedGame(AllLevels)
  <2>2. v \in Entities /\ v.status = db[Game].status
    BY <1>0, EntityTypes DEF Entities
  <2>3. Save(w, [db EXCEPT ![Game] = v], plan, {})
    BY <2>1
  <2>4. /\ plan \in Plans /\ 1 \in 1..Len(plan) /\ 2 \in 1..Len(plan)
        /\ plan[1] = InvalidateList("game") /\ plan[2] = InvalidateEntity(Game, AllLevels)
    BY UpdatedGamePlan
  <2> HIDE DEF v, plan
  <2>5. \A k \in Key : k.page # "sitemap" => LevelOf(k, Game) \in AllLevels
    BY LevelType
  <2>6. \A k \in Key : k.page = "sitemap" =>
          \E j \in 1..Len(plan) : \E tags \in plan[j] : tags \subseteq Tags(k, Show(k, db))
    BY <2>4, ListCallCovers
  <2>7. Covers([db EXCEPT ![Game] = v], plan, {})
    BY <1>0, <2>2, <2>4, <2>5, <2>6, EditCovers
  <2>8. [db EXCEPT ![Game] = v] \in [Entity -> Entities]
    BY <1>0, <2>2
  <2> QED
    BY <1>1, <2>3, <2>4, <2>7, <2>8 DEF GoodSave, UpdateGameTitle, Serves
<1>2. CASE UpdateGameLogo(w)
  <2>1. PICK c \in Copies :
          Save(w, [db EXCEPT ![Game].more = c], InvalidateUpdatedGame({"simple", "detailed"}), {})
    BY <1>2 DEF UpdateGameLogo
  <2> DEFINE v == [db[Game] EXCEPT !.more = c]
             plan == InvalidateUpdatedGame({"simple", "detailed"})
  <2>2. v \in Entities /\ v.status = db[Game].status /\ v.name = db[Game].name
    BY <1>0, EntityTypes DEF Entities
  <2>3. Save(w, [db EXCEPT ![Game] = v], plan, {})
    BY <2>1
  <2>4. /\ plan \in Plans /\ 1 \in 1..Len(plan) /\ 2 \in 1..Len(plan)
        /\ plan[2] = InvalidateEntity(Game, {"simple", "detailed"})
    BY UpdatedGamePlan DEF AllLevels
  <2> HIDE DEF v, plan
  <2>5. ASSUME NEW k \in Key, View(k, Game, [db EXCEPT ![Game] = v]) # View(k, Game, db)
        PROVE  k.page # "sitemap" /\ LevelOf(k, Game) \in {"simple", "detailed"}
    <3>1. InFull(k, Game)
      BY <1>0, <2>2, <2>5 DEF View
    <3>2. k.page \in {"games", "game"}
      BY <3>1, ContentAssumption DEF InFull
    <3> QED
      BY <3>2, ContentAssumption DEF LevelOf
  <2>6. Covers([db EXCEPT ![Game] = v], plan, {})
    BY <1>0, <2>2, <2>4, <2>5, EditCovers
  <2>7. [db EXCEPT ![Game] = v] \in [Entity -> Entities]
    BY <1>0, <2>2
  <2> QED
    BY <1>2, <2>3, <2>4, <2>6, <2>7 DEF GoodSave, UpdateGameLogo, Serves
<1>3. CASE RateGame(w)
  <2>1. PICK c \in Copies : Save(w, [db EXCEPT ![Game].rating = c], InvalidateRated(Game), {})
    BY <1>3 DEF RateGame
  <2> DEFINE v == [db[Game] EXCEPT !.rating = c]
             plan == InvalidateRated(Game)
  <2>2. v \in Entities /\ v.status = db[Game].status /\ v.name = db[Game].name
    BY <1>0, EntityTypes DEF Entities
  <2>3. Save(w, [db EXCEPT ![Game] = v], plan, {})
    BY <2>1
  <2>4. plan \in Plans /\ 1 \in 1..Len(plan) /\ plan[1] = InvalidateEntity(Game, AllLevels)
    BY <1>0, OtherPlans
  <2> HIDE DEF v, plan
  <2>5. ASSUME NEW k \in Key, View(k, Game, [db EXCEPT ![Game] = v]) # View(k, Game, db)
        PROVE  k.page # "sitemap" /\ LevelOf(k, Game) \in AllLevels
    <3>1. InFull(k, Game)
      BY <1>0, <2>2, <2>5 DEF View
    <3>2. k.page \in {"games", "game"}
      BY <3>1, ContentAssumption DEF InFull
    <3> QED
      BY <3>2, LevelType
  <2>6. Covers([db EXCEPT ![Game] = v], plan, {})
    BY <1>0, <2>2, <2>4, <2>5, EditCovers
  <2>7. [db EXCEPT ![Game] = v] \in [Entity -> Entities]
    BY <1>0, <2>2
  <2> QED
    BY <1>3, <2>3, <2>4, <2>6, <2>7 DEF GoodSave, RateGame, Serves
<1> QED
  BY <1>1, <1>2, <1>3 DEF ChangeGame

LEMMA ReleaseInEntity ==
  ASSUME NEW r \in Releases
  PROVE  /\ r \in Entity /\ r # Game /\ r # Author /\ r # Backglass /\ r # Medium
         /\ \A k \in Key : k.page \in {"release", "game"} => LevelOf(k, r) = "detailed"
  BY ContentAssumption DEF Entity, LevelOf

\* The pages that show a release show more than its name, the sitemap apart.
LEMMA ReleaseView ==
  ASSUME TypeOK, NEW r \in Releases, NEW v \in Entities, NEW k \in Key, v.status = db[r].status,
         r \in Shown(k, db), View(k, r, [db EXCEPT ![r] = v]) # View(k, r, db)
  PROVE  /\ k.page \in {"releases", "release", "game", "sitemap"}
         /\ k.page = "sitemap" => v.name # db[r].name
<1>1. r \in Entity /\ r # Game /\ r # Author
  BY ReleaseInEntity
<1>2. k.page \in Page /\ k.page # "games"
  BY <1>1 DEF Shown, ShownInReleases, ShownInGame, ShownInSitemap, Key
<1>3. k.page = "sitemap" => ~InFull(k, r)
  BY <1>1, ReleaseInEntity DEF InFull
<1>4. View(k, r, [db EXCEPT ![r] = v]).name = v.name
  BY <1>1 DEF View, TypeOK
<1>5. k.page = "sitemap" /\ v.name = db[r].name => View(k, r, [db EXCEPT ![r] = v]) = View(k, r, db)
  BY <1>1, <1>3 DEF View, TypeOK
<1> QED
  BY <1>2, <1>5 DEF Page

LEMMA ReleaseEdits ==
  ASSUME TypeOK, NEW w \in Writers, NEW r \in Releases,
         UpdateRelease(w, r) \/ UpdateVersion(w, r) \/ ValidateFile(w, r) \/ RateRelease(w, r)
  PROVE  GoodSave(w)
<1>0. r \in Entity /\ db \in [Entity -> Entities] /\ db[r] \in Entities
  BY ReleaseInEntity DEF TypeOK
<1>a. AllLevels \in SUBSET AllLevels /\ {"detailed"} \in SUBSET AllLevels
  BY DEF AllLevels
<1>1. CASE UpdateRelease(w, r)
  <2>1. PICK c \in Copies :
          Save(w, [db EXCEPT ![r].name = c], InvalidateUpdatedRelease(r, AllLevels), {})
    BY <1>1 DEF UpdateRelease
  <2> DEFINE v == [db[r] EXCEPT !.name = c]
             plan == InvalidateUpdatedRelease(r, AllLevels)
  <2>2. v \in Entities /\ v.status = db[r].status
    BY <1>0, EntityTypes DEF Entities
  <2>3. Save(w, [db EXCEPT ![r] = v], plan, {})
    BY <2>1
  <2>4. /\ plan \in Plans /\ 1 \in 1..Len(plan) /\ 2 \in 1..Len(plan)
        /\ plan[1] = InvalidateList("release") /\ plan[2] = InvalidateEntity(r, AllLevels)
    BY <1>a, ReleasePlans
  <2> HIDE DEF v, plan
  <2>5. \A k \in Key : k.page # "sitemap" => LevelOf(k, r) \in AllLevels
    BY LevelType
  <2>6. \A k \in Key : k.page = "sitemap" =>
          \E j \in 1..Len(plan) : \E tags \in plan[j] : tags \subseteq Tags(k, Show(k, db))
    BY <2>4, ListCallCovers
  <2>7. Covers([db EXCEPT ![r] = v], plan, {})
    BY <1>0, <2>2, <2>4, <2>5, <2>6, EditCovers
  <2>8. [db EXCEPT ![r] = v] \in [Entity -> Entities]
    BY <1>0, <2>2
  <2> QED
    BY <1>1, <2>3, <2>4, <2>7, <2>8 DEF GoodSave, UpdateRelease, Serves
<1>2. ASSUME NEW v \in Entities, v.status = db[r].status,
             NEW plan \in Plans, 1 \in 1..Len(plan), 2 \in 1..Len(plan),
             plan[1] = InvalidateList("release"), plan[2] = InvalidateEntity(r, {"detailed"})
      PROVE  Covers([db EXCEPT ![r] = v], plan, {})
  <2>1. ASSUME NEW k \in Key, r \in Shown(k, db),
               View(k, r, [db EXCEPT ![r] = v]) # View(k, r, db)
        PROVE  \/ k.page # "sitemap" /\ LevelOf(k, r) \in {"detailed"}
               \/ \E j \in 1..Len(plan) : \E tags \in plan[j] : tags \subseteq Tags(k, Show(k, db))
    <3>1. k.page \in {"releases", "release", "game", "sitemap"}
      BY <1>2, <2>1, ReleaseView
    <3>2. CASE k.page \in {"release", "game"}
      BY <3>2, ReleaseInEntity
    <3>3. CASE k.page \in {"releases", "sitemap"}
      BY <1>2, <3>3, ListCallCovers
    <3> QED
      BY <3>1, <3>2, <3>3
  <2> QED
    BY <1>0, <1>2, <2>1, EditCovers
<1>3. CASE UpdateVersion(w, r)
  <2>1. PICK c \in Copies :
          Save(w, [db EXCEPT ![r].more = c], InvalidateUpdatedRelease(r, {"detailed"}), {})
    BY <1>3 DEF UpdateVersion
  <2> DEFINE v == [db[r] EXCEPT !.more = c]
             plan == InvalidateUpdatedRelease(r, {"detailed"})
  <2>2. v \in Entities /\ v.status = db[r].status
    BY <1>0, EntityTypes DEF Entities
  <2>3. Save(w, [db EXCEPT ![r] = v], plan, {})
    BY <2>1
  <2>4. /\ plan \in Plans /\ 1 \in 1..Len(plan) /\ 2 \in 1..Len(plan)
        /\ plan[1] = InvalidateList("release") /\ plan[2] = InvalidateEntity(r, {"detailed"})
    BY <1>a, ReleasePlans
  <2> HIDE DEF v, plan
  <2>5. Covers([db EXCEPT ![r] = v], plan, {})
    BY <1>2, <2>2, <2>4
  <2>6. [db EXCEPT ![r] = v] \in [Entity -> Entities]
    BY <1>0, <2>2
  <2> QED
    BY <1>3, <2>3, <2>4, <2>5, <2>6 DEF GoodSave, UpdateVersion, Serves
<1>4. CASE ValidateFile(w, r)
  <2>1. PICK c \in Copies :
          Save(w, [db EXCEPT ![r].more = c], InvalidateReleaseOnly(r, {"detailed"}), {})
    BY <1>4 DEF ValidateFile
  <2> DEFINE v == [db[r] EXCEPT !.more = c]
             plan == InvalidateReleaseOnly(r, {"detailed"})
  <2>2. v \in Entities /\ v.status = db[r].status
    BY <1>0, EntityTypes DEF Entities
  <2>3. Save(w, [db EXCEPT ![r] = v], plan, {})
    BY <2>1
  <2>4. /\ plan \in Plans /\ 1 \in 1..Len(plan) /\ 2 \in 1..Len(plan)
        /\ plan[1] = InvalidateList("release") /\ plan[2] = InvalidateEntity(r, {"detailed"})
    BY <1>a, ReleasePlans
  <2> HIDE DEF v, plan
  <2>5. Covers([db EXCEPT ![r] = v], plan, {})
    BY <1>2, <2>2, <2>4
  <2>6. [db EXCEPT ![r] = v] \in [Entity -> Entities]
    BY <1>0, <2>2
  <2> QED
    BY <1>4, <2>3, <2>4, <2>5, <2>6 DEF GoodSave, ValidateFile, Serves
<1>5. CASE RateRelease(w, r)
  <2>1. PICK c \in Copies : Save(w, [db EXCEPT ![r].rating = c], InvalidateRated(r), {})
    BY <1>5 DEF RateRelease
  <2> DEFINE v == [db[r] EXCEPT !.rating = c]
             plan == InvalidateRated(r)
  <2>2. v \in Entities /\ v.status = db[r].status /\ v.name = db[r].name
    BY <1>0, EntityTypes DEF Entities
  <2>3. Save(w, [db EXCEPT ![r] = v], plan, {})
    BY <2>1
  <2>4. plan \in Plans /\ 1 \in 1..Len(plan) /\ plan[1] = InvalidateEntity(r, AllLevels)
    BY <1>0, OtherPlans
  <2> HIDE DEF v, plan
  <2>5. \A k \in Key : r \in Shown(k, db) /\ View(k, r, [db EXCEPT ![r] = v]) # View(k, r, db) =>
          k.page # "sitemap" /\ LevelOf(k, r) \in AllLevels
    BY <2>2, ReleaseView, LevelType
  <2>6. Covers([db EXCEPT ![r] = v], plan, {})
    BY <1>0, <2>2, <2>4, <2>5, EditCovers
  <2>7. [db EXCEPT ![r] = v] \in [Entity -> Entities]
    BY <1>0, <2>2
  <2> QED
    BY <1>5, <2>3, <2>4, <2>6, <2>7 DEF GoodSave, RateRelease, Serves
<1> QED
  BY <1>1, <1>3, <1>4, <1>5

LEMMA StarHandler ==
  ASSUME TypeOK, NEW w \in Writers, NEW r \in Releases, NEW u \in Readers, StarRelease(w, r, u)
  PROVE  GoodSave(w)
<1>0. r \in Entity /\ db \in [Entity -> Entities] /\ db[r] \in Entities
  BY ReleaseInEntity DEF TypeOK
<1>1. PICK stars \in {db[r].stars \cup {u}, db[r].stars \ {u}} :
        Save(w, [db EXCEPT ![r].stars = stars], InvalidateStarredEntity(u), {"release"})
  BY DEF StarRelease
<1> DEFINE v == [db[r] EXCEPT !.stars = stars]
           plan == InvalidateStarredEntity(u)
<1>2. stars \in SUBSET Readers /\ \A q \in Readers \cup {Anon} : q # u => (q \in stars <=> q \in db[r].stars)
  BY <1>0, ReaderAssumption DEF Entities
<1>3. /\ v \in Entities /\ v.status = db[r].status /\ v.name = db[r].name
      /\ v.more = db[r].more /\ v.rating = db[r].rating /\ v.stars = stars
  BY <1>0, <1>2, EntityTypes DEF Entities
<1>4. Save(w, [db EXCEPT ![r] = v], plan, {"release"})
  BY <1>1
<1>5. /\ plan \in Plans /\ 1 \in 1..Len(plan)
      /\ plan[1] = {{ListTag("release"), UserTag(u)}, {EntityTag(Game, "detailed"), UserTag(u)}}
  BY OtherPlans
<1> HIDE DEF v, plan
<1>6. ASSUME NEW k \in Key, Show(k, [db EXCEPT ![r] = v]) # Show(k, db)
      PROVE  \/ k.page \in {"release"}
             \/ \E i \in 1..Len(plan) : \E tags \in plan[i] : tags \subseteq Tags(k, Show(k, db))
  <2>1. r \in Shown(k, db) /\ View(k, r, [db EXCEPT ![r] = v]) # View(k, r, db)
    BY <1>0, <1>3, <1>6, EditShows
  <2>2. k.page \in {"releases", "release", "game"}
    BY <1>3, <2>1, ReleaseView
  <2>3. k.reader = u
    <3>1. k.reader \in Readers \cup {Anon}
      BY DEF Key
    <3>2. CASE k.reader # u
      <4>1. (k.reader \in v.stars) = (k.reader \in db[r].stars)
        BY <1>2, <1>3, <3>1, <3>2
      <4>2. View(k, r, [db EXCEPT ![r] = v]) = View(k, r, db)
        BY <1>0, <1>3, <4>1 DEF View
      <4> QED
        BY <2>1, <4>2
    <3> QED
      BY <3>2
  <2>4. UserTag(u) \in Tags(k, Show(k, db))
    BY <2>3, ReaderIsTagged, ReaderAssumption
  <2>5. CASE k.page = "releases"
    <3>1. {ListTag("release"), UserTag(u)} \subseteq Tags(k, Show(k, db))
      BY <2>4, <2>5, ListIsTagged
    <3>2. {ListTag("release"), UserTag(u)} \in plan[1]
      BY <1>5
    <3> QED
      BY <1>5, <3>1, <3>2
  <2>6. CASE k.page = "game"
    <3>1. {EntityTag(Game, "detailed"), UserTag(u)} \subseteq Tags(k, Show(k, db))
      BY <2>4, <2>6, GameIsTagged
    <3>2. {EntityTag(Game, "detailed"), UserTag(u)} \in plan[1]
      BY <1>5
    <3> QED
      BY <1>5, <3>1, <3>2
  <2> QED
    BY <2>2, <2>5, <2>6
<1>7. Covers([db EXCEPT ![r] = v], plan, {"release"})
  BY <1>6 DEF Covers
<1>8. [db EXCEPT ![r] = v] \in [Entity -> Entities] /\ {"release"} \in SUBSET Page
  BY <1>0, <1>3 DEF Page
<1> QED
  BY <1>4, <1>5, <1>7, <1>8 DEF GoodSave, StarRelease, Serves

\* A new or removed listing of r: every page that lists releases, and its own.
LEMMA ReleaseStatusCovers ==
  ASSUME TypeOK, NEW r \in Releases, NEW v \in Entities, NEW plan \in Plans,
         NEW list \in 1..Len(plan), NEW game \in 1..Len(plan), NEW levels,
         plan[list] = InvalidateList("release"), plan[game] = InvalidateEntity(Game, levels),
         "detailed" \in levels,
         \/ r \notin Listed(db)
         \/ \E i \in 1..Len(plan) : plan[i] = InvalidateEntity(r, AllLevels)
  PROVE  Covers([db EXCEPT ![r] = v], plan, {})
<1> SUFFICES ASSUME NEW k \in Key, Show(k, [db EXCEPT ![r] = v]) # Show(k, db), Found(k, Show(k, db))
             PROVE  \E i \in 1..Len(plan) : \E tags \in plan[i] : tags \subseteq Tags(k, Show(k, db))
  BY DEF Covers
<1>0. db \in [Entity -> Entities]
  BY DEF TypeOK
<1>1. k.page # "games" /\ (k.page = "release" => k.of = r)
  BY <1>0, ReleaseReach
<1>2. k.page \in Page
  BY DEF Key
<1>3. CASE k.page \in {"releases", "sitemap"}
  BY <1>3, ListCallCovers
<1>4. CASE k.page = "game"
  BY <1>4, GameCallCovers
<1>5. CASE k.page = "release"
  <2>1. Shown(k, db) # {}
    BY <1>5 DEF Found, Show
  <2>2. k.of = r /\ r \in Listed(db) /\ r \in Shown(k, db)
    BY <1>1, <1>5, <2>1, ReleaseInEntity DEF Shown, ShownInReleases, ShownInGame, ShownInSitemap
  <2>3. PICK i \in 1..Len(plan) : plan[i] = InvalidateEntity(r, AllLevels)
    BY <2>2
  <2> QED
    BY <1>5, <2>2, <2>3, LevelType, EntityCallCovers
<1> QED
  BY <1>1, <1>2, <1>3, <1>4, <1>5 DEF Page

LEMMA ReleaseStatus ==
  ASSUME TypeOK, NEW w \in Writers, NEW r \in Releases, CreateRelease(w, r) \/ ModerateRelease(w, r)
  PROVE  GoodSave(w)
<1>0. r \in Entity /\ db \in [Entity -> Entities] /\ db[r] \in Entities
  BY ReleaseInEntity DEF TypeOK
<1>a. AllLevels \in SUBSET AllLevels /\ "detailed" \in AllLevels
  BY DEF AllLevels
<1>1. CASE CreateRelease(w, r)
  <2>1. PICK status \in {"pending", "listed"} :
          Save(w, [db EXCEPT ![r] = NewEntity(status)], InvalidateCreatedRelease, {})
    BY <1>1 DEF CreateRelease
  <2> DEFINE plan == InvalidateCreatedRelease
  <2>2. NewEntity(status) \in Entities
    BY EntityTypes
  <2>3. /\ plan \in Plans /\ 1 \in 1..Len(plan) /\ 2 \in 1..Len(plan)
        /\ plan[1] = InvalidateList("release") /\ plan[2] = InvalidateEntity(Game, {"detailed"})
    BY <1>a, ReleasePlans
  <2>4. r \notin Listed(db)
    BY <1>1 DEF CreateRelease, Exists, Listed
  <2> HIDE DEF plan
  <2>5. "detailed" \in {"detailed"}
    OBVIOUS
  <2>6. Covers([db EXCEPT ![r] = NewEntity(status)], plan, {})
    BY <2>2, <2>3, <2>4, <2>5, ReleaseStatusCovers
  <2>7. [db EXCEPT ![r] = NewEntity(status)] \in [Entity -> Entities]
    BY <1>0, <2>2
  <2>8. Save(w, [db EXCEPT ![r] = NewEntity(status)], plan, {})
    BY <2>1 DEF plan
  <2> QED
    BY <1>1, <2>3, <2>6, <2>7, <2>8 DEF GoodSave, CreateRelease, Serves
<1>2. CASE ModerateRelease(w, r)
  <2>1. PICK status \in {"pending", "listed"} :
          Save(w, [db EXCEPT ![r].status = status], InvalidateModeratedRelease(r), {})
    BY <1>2 DEF ModerateRelease
  <2> DEFINE v == [db[r] EXCEPT !.status = status]
             plan == InvalidateModeratedRelease(r)
  <2>2. v \in Entities
    BY <1>0 DEF Entities
  <2>3. /\ plan \in Plans /\ 1 \in 1..Len(plan) /\ 2 \in 1..Len(plan) /\ 4 \in 1..Len(plan)
        /\ plan[1] = InvalidateEntity(r, AllLevels) /\ plan[2] = InvalidateList("release")
        /\ plan[4] = InvalidateEntity(Game, AllLevels)
    BY <1>a, ReleasePlans
  <2>4. Save(w, [db EXCEPT ![r] = v], plan, {})
    BY <2>1
  <2> HIDE DEF v, plan
  <2>5. Covers([db EXCEPT ![r] = v], plan, {})
    BY <1>a, <2>2, <2>3, ReleaseStatusCovers
  <2>6. [db EXCEPT ![r] = v] \in [Entity -> Entities]
    BY <1>0, <2>2
  <2> QED
    BY <1>2, <2>3, <2>4, <2>5, <2>6 DEF GoodSave, ModerateRelease, Serves
<1> QED
  BY <1>1, <1>2

LEMMA RemoveHandler ==
  ASSUME TypeOK, NEW w \in Writers, RemoveRelease(w)
  PROVE  GoodSave(w)
<1>1. PICK r \in writer[w].removes : Save(w, [db EXCEPT ![r] = NewEntity("absent")], <<>>, Page)
  BY DEF RemoveRelease
<1>2. r \in Entity
  BY ReleaseInEntity DEF TypeOK, Jobs
<1>3. [db EXCEPT ![r] = NewEntity("absent")] \in [Entity -> Entities]
  BY <1>2, EntityTypes DEF TypeOK
<1>4. Covers([db EXCEPT ![r] = NewEntity("absent")], <<>>, Page)
  BY DEF Covers, Key
<1>5. <<>> \in Plans /\ Page \in SUBSET Page
  BY OtherPlans
<1> QED
  BY <1>1, <1>3, <1>4, <1>5 DEF GoodSave, RemoveRelease

\* The backglass is on the page of the game, the medium there and in the sitemap.
LEMMA AssetCovers ==
  ASSUME TypeOK, NEW y \in {Backglass, Medium}, NEW v \in Entities, NEW plan, NEW gaps,
         \A k \in Key : k.page = "game" \/ (k.page = "sitemap" /\ y = Medium) =>
           \/ k.page \in gaps
           \/ \E i \in 1..Len(plan) : \E tags \in plan[i] : tags \subseteq Tags(k, Show(k, db))
  PROVE  Covers([db EXCEPT ![y] = v], plan, gaps)
<1>1. ASSUME NEW k \in Key, Show(k, [db EXCEPT ![y] = v]) # Show(k, db)
      PROVE  k.page = "game" \/ (k.page = "sitemap" /\ y = Medium)
  <2>1. db \in [Entity -> Entities]
    BY DEF TypeOK
  <2>2. CASE k.page # "game" /\ ~(k.page = "sitemap" /\ y = Medium)
    <3>1. k.page = "sitemap" => y = Backglass
      BY <2>2
    <3> QED
      BY <1>1, <2>1, <2>2, <3>1, AssetReach
  <2> QED
    BY <2>2
<1> QED
  BY <1>1 DEF Covers

LEMMA BackglassHandlers ==
  ASSUME TypeOK, NEW w \in Writers,
         CreateBackglass(w) \/ AddBackglassVersion(w) \/ UpdateBackglass(w) \/ DeleteBackglass(w)
  PROVE  GoodSave(w)
<1>0. /\ Backglass \in Entity /\ db \in [Entity -> Entities] /\ db[Backglass] \in Entities
      /\ AllLevels \in SUBSET AllLevels /\ "detailed" \in AllLevels /\ "detailed" \in {"detailed"}
  BY DEF TypeOK, Entity, AllLevels
<1>1. ASSUME NEW v \in Entities, NEW plan \in Plans, NEW i \in 1..Len(plan), NEW levels,
             plan[i] = InvalidateEntity(Game, levels), "detailed" \in levels,
             writer[w].at = "idle", Save(w, [db EXCEPT ![Backglass] = v], plan, {})
      PROVE  GoodSave(w)
  <2>1. Covers([db EXCEPT ![Backglass] = v], plan, {})
    BY <1>1, ContentAssumption, AssetCovers, GameCallCovers
  <2>2. [db EXCEPT ![Backglass] = v] \in [Entity -> Entities]
    BY <1>0
  <2> QED
    BY <1>1, <2>1, <2>2 DEF GoodSave
<1>2. /\ InvalidateUpdatedBackglass \in Plans /\ 1 \in 1..Len(InvalidateUpdatedBackglass)
      /\ InvalidateUpdatedBackglass[1] = InvalidateEntity(Game, {"detailed"})
  BY OtherPlans
<1>3. CASE CreateBackglass(w)
  <2>1. PICK status \in {"pending", "listed"} :
          Save(w, [db EXCEPT ![Backglass] = NewEntity(status)], InvalidateUpdatedBackglass, {})
    BY <1>3 DEF CreateBackglass
  <2> QED
    BY <1>0, <1>1, <1>2, <1>3, <2>1, EntityTypes DEF CreateBackglass, Serves
<1>4. CASE AddBackglassVersion(w)
  <2>1. PICK c \in Copies :
          Save(w, [db EXCEPT ![Backglass].more = c], InvalidateUpdatedBackglass, {})
    BY <1>4 DEF AddBackglassVersion
  <2> DEFINE v == [db[Backglass] EXCEPT !.more = c]
  <2>2. v \in Entities
    BY <1>0, EntityTypes
  <2>3. Save(w, [db EXCEPT ![Backglass] = v], InvalidateUpdatedBackglass, {})
    BY <2>1
  <2> QED
    BY <1>0, <1>1, <1>2, <1>4, <2>2, <2>3 DEF AddBackglassVersion, Serves
<1>5. CASE UpdateBackglass(w)
  <2>1. PICK c \in Copies : Save(w, [db EXCEPT ![Backglass].name = c], <<>>, {"game"})
    BY <1>5 DEF UpdateBackglass
  <2> DEFINE v == [db[Backglass] EXCEPT !.name = c]
  <2>2. v \in Entities
    BY <1>0, EntityTypes
  <2>3. Save(w, [db EXCEPT ![Backglass] = v], <<>>, {"game"})
    BY <2>1
  <2> HIDE DEF v
  <2>4. Covers([db EXCEPT ![Backglass] = v], <<>>, {"game"})
    BY <2>2, ContentAssumption, AssetCovers
  <2>5. /\ [db EXCEPT ![Backglass] = v] \in [Entity -> Entities]
        /\ {"game"} \in SUBSET Page /\ <<>> \in Plans
    BY <1>0, <2>2, OtherPlans DEF Page
  <2> QED
    BY <1>5, <2>3, <2>4, <2>5 DEF GoodSave, UpdateBackglass, Serves
<1>6. CASE DeleteBackglass(w)
  <2> DEFINE plan == InvalidateUpdatedGame(AllLevels)
  <2>1. Save(w, [db EXCEPT ![Backglass] = NewEntity("absent")], plan, {})
    BY <1>6 DEF DeleteBackglass
  <2>2. plan \in Plans /\ 2 \in 1..Len(plan) /\ plan[2] = InvalidateEntity(Game, AllLevels)
    BY <1>0, UpdatedGamePlan
  <2> HIDE DEF plan
  <2>3. NewEntity("absent") \in Entities
    BY EntityTypes
  <2> QED
    BY <1>0, <1>1, <1>6, <2>1, <2>2, <2>3 DEF DeleteBackglass, Serves
<1> QED
  BY <1>3, <1>4, <1>5, <1>6

LEMMA ModerateBackglassHandler ==
  ASSUME TypeOK, NEW w \in Writers, ModerateBackglass(w)
  PROVE  GoodSave(w)
<1>0. Backglass \in Entity /\ db \in [Entity -> Entities] /\ db[Backglass] \in Entities
  BY DEF TypeOK, Entity
<1> DEFINE gaps(status) == IF status = "listed" THEN {"game"} ELSE {}
<1>1. PICK status \in {"pending", "listed"} \ {db[Backglass].status} :
        Save(w, [db EXCEPT ![Backglass].status = status], InvalidateModeratedBackglass, gaps(status))
  BY DEF ModerateBackglass
<1> DEFINE v == [db[Backglass] EXCEPT !.status = status]
           plan == InvalidateModeratedBackglass
<1>2. v \in Entities
  BY <1>0 DEF Entities
<1>3. Save(w, [db EXCEPT ![Backglass] = v], plan, gaps(status))
  BY <1>1
<1>4. plan \in Plans /\ 1 \in 1..Len(plan) /\ plan[1] = InvalidateEntity(Backglass, AllLevels)
  BY OtherPlans
<1>5. db[Backglass].status # "absent" /\ writer[w].at = "idle"
  BY DEF ModerateBackglass, Exists, Serves
<1> HIDE DEF v, plan
<1>6. ASSUME NEW k \in Key, k.page = "game"
      PROVE  \/ k.page \in gaps(status)
             \/ \E i \in 1..Len(plan) : \E tags \in plan[i] : tags \subseteq Tags(k, Show(k, db))
  <2>1. CASE status = "listed"
    BY <1>6, <2>1
  <2>2. CASE status = "pending"
    <3>1. db[Backglass].status = "listed"
      BY <1>0, <1>1, <1>5, <2>2 DEF Entities
    <3>2. Backglass \in Shown(k, db)
      BY <1>0, <1>6, <3>1 DEF Shown, ShownInReleases, ShownInGame, ShownInSitemap
    <3> QED
      BY <1>4, <1>6, <3>2, LevelType, EntityCallCovers
  <2> QED
    BY <2>1, <2>2
<1>7. Covers([db EXCEPT ![Backglass] = v], plan, gaps(status))
  BY <1>2, <1>6, ContentAssumption, AssetCovers
<1>8. [db EXCEPT ![Backglass] = v] \in [Entity -> Entities] /\ gaps(status) \in SUBSET Page
  BY <1>0, <1>2 DEF Page
<1> QED
  BY <1>3, <1>4, <1>5, <1>7, <1>8 DEF GoodSave

LEMMA MediumHandlers ==
  ASSUME TypeOK, NEW w \in Writers, CreateMedium(w) \/ DeleteMedium(w)
  PROVE  GoodSave(w)
<1>0. Medium \in Entity /\ db \in [Entity -> Entities]
  BY DEF TypeOK, Entity
<1>1. \A status \in {"listed", "absent"} :
        /\ NewEntity(status) \in Entities
        /\ [db EXCEPT ![Medium] = NewEntity(status)] \in [Entity -> Entities]
  BY <1>0, EntityTypes
<1>2. CASE CreateMedium(w)
  <2>1. Covers([db EXCEPT ![Medium] = NewEntity("listed")], <<>>, {"game", "sitemap"})
    BY <1>1, AssetCovers
  <2>2. {"game", "sitemap"} \in SUBSET Page /\ <<>> \in Plans
    BY OtherPlans DEF Page
  <2> QED
    BY <1>1, <1>2, <2>1, <2>2 DEF GoodSave, CreateMedium, Serves
<1>3. CASE DeleteMedium(w)
  <2> DEFINE plan == InvalidateUpdatedGame(AllLevels)
  <2>1. /\ plan \in Plans /\ 1 \in 1..Len(plan) /\ 2 \in 1..Len(plan)
        /\ plan[1] = InvalidateList("game") /\ plan[2] = InvalidateEntity(Game, AllLevels)
        /\ "detailed" \in AllLevels
    BY UpdatedGamePlan DEF AllLevels
  <2>2. Save(w, [db EXCEPT ![Medium] = NewEntity("absent")], plan, {})
    BY <1>3 DEF DeleteMedium
  <2> HIDE DEF plan
  <2>3. ASSUME NEW k \in Key, k.page = "game" \/ k.page = "sitemap"
        PROVE  \E i \in 1..Len(plan) : \E tags \in plan[i] : tags \subseteq Tags(k, Show(k, db))
    BY <2>1, <2>3, GameCallCovers, ListCallCovers
  <2>4. Covers([db EXCEPT ![Medium] = NewEntity("absent")], plan, {})
    BY <1>1, <2>3, AssetCovers
  <2> QED
    BY <1>1, <1>3, <2>1, <2>2, <2>4 DEF GoodSave, DeleteMedium, Serves
<1> QED
  BY <1>2, <1>3

LEMMA AuthorHandler ==
  ASSUME TypeOK, NEW w \in Writers, UpdateAuthor(w)
  PROVE  GoodSave(w)
<1>0. Author \in Entity /\ db \in [Entity -> Entities] /\ db[Author] \in Entities
  BY DEF TypeOK, Entity
<1>1. PICK c \in Copies : Save(w, [db EXCEPT ![Author].name = c], InvalidateUpdatedUser, {"sitemap"})
  BY DEF UpdateAuthor
<1> DEFINE v == [db[Author] EXCEPT !.name = c]
           plan == InvalidateUpdatedUser
<1>2. v \in Entities /\ v.status = db[Author].status
  BY <1>0, EntityTypes DEF Entities
<1>3. Save(w, [db EXCEPT ![Author] = v], plan, {"sitemap"})
  BY <1>1
<1>4. plan \in Plans /\ 2 \in 1..Len(plan) /\ plan[2] = InvalidateEntity(Author, AllLevels)
  BY OtherPlans
<1> HIDE DEF v, plan
<1>5. \A k \in Key : k.page # "sitemap" => LevelOf(k, Author) \in AllLevels
  BY LevelType
<1>6. Covers([db EXCEPT ![Author] = v], plan, {"sitemap"})
  BY <1>0, <1>2, <1>4, <1>5, EditCovers
<1>7. [db EXCEPT ![Author] = v] \in [Entity -> Entities] /\ {"sitemap"} \in SUBSET Page
  BY <1>0, <1>2 DEF Page
<1> QED
  BY <1>3, <1>4, <1>6, <1>7 DEF GoodSave, UpdateAuthor, Serves

LEMMA OtherHandlers ==
  ASSUME TypeOK, NEW w \in Writers, ChangeOther(w)
  PROVE  GoodSave(w)
  BY RemoveHandler, BackglassHandlers, ModerateBackglassHandler, MediumHandlers, AuthorHandler
  DEF ChangeOther

LEMMA ReleaseHandlers ==
  ASSUME TypeOK, NEW w \in Writers, NEW r \in Releases, ChangeRelease(w, r), ~DeleteRelease(w, r)
  PROVE  GoodSave(w)
  BY ReleaseEdits, StarHandler, ReleaseStatus DEF ChangeRelease

-----------------------------------------------------------------------------
(* The inductive invariant.                                                *)

\* What an unraced miss holds, and has stored, is what its route answers now.
Current ==
  \A m \in Misses : miss[m].at \in {"storing", "tagging"} /\ ~miss[m].raced =>
    /\ miss[m].body = Show(miss[m].key, db)
    /\ miss[m].at = "tagging" /\ Stored(miss[m].key) /\ miss[m].key \notin excused =>
         cache[miss[m].key] = miss[m].body

\* An entry that is neither excused nor about to be tagged is tagged.
Tagged ==
  \A k \in Key : Stored(k) /\ k \notin excused =>
    \/ \A t \in Tags(k, cache[k]) : <<t, k>> \in refs
    \/ \E m \in Misses : miss[m].at = "tagging" /\ ~miss[m].raced /\ miss[m].key = k

\* The inductive invariant of the cache.
IInv == TypeOK /\ Current /\ Tagged /\ StaleOnlyIfExcused

LEMMA ShowType ==
  ASSUME NEW k \in Key, db \in [Entity -> Entities]
  PROVE  IsBody(Show(k, db))
<1>1. Shown(k, db) \subseteq Entity
  BY DEF Shown
<1>2. ASSUME NEW x \in Entity PROVE View(k, x, db) \in Views
  <2>1. /\ db[x].name \in Copies /\ db[x].more \in Copies /\ db[x].rating \in Copies
        /\ (k.reader \in db[x].stars) \in BOOLEAN
    BY DEF Entities
  <2>2. <<db[x].more, db[x].rating, k.reader \in db[x].stars>> \in Copies \X Copies \X BOOLEAN
    BY <2>1
  <2> QED
    BY <2>1, <2>2 DEF View, Views
<1> QED
  BY <1>1, <1>2 DEF Show, IsBody

LEMMA TagType ==
  ASSUME NEW k \in Key, NEW body, IsBody(body)
  PROVE  Tags(k, body) \subseteq AllTags
<1>1. \A x \in DOMAIN body : EntityTag(x, LevelOf(k, x)) \in AllTags
  BY LevelType DEF IsBody, AllTags
<1>2. \A model \in Lists(k) : ListTag(model) \in AllTags
  BY DEF Lists, AllTags, Models
<1>3. \A u \in {k.reader} \ {Anon} : UserTag(u) \in AllTags
  BY DEF Key, AllTags
<1> QED
  BY <1>1, <1>2, <1>3 DEF Tags

\* More references and the same job: what was pending is pending.
LEMMA PendingStays ==
  ASSUME NEW w \in Writers, NEW k \in Key, Pending(w, k), refs \subseteq refs', writer'[w] = writer[w]
  PROVE  Pending(w, k)'
  BY DEF Pending, Hit

LEMMA NoJobType ==
  ASSUME NEW at \in {"idle", "done"}
  PROVE  NoJob(at) \in Jobs /\ NoJob(at).call <= Len(NoJob(at).plan)
<1>1. NoJob(at) \in Jobs
  BY OtherPlans DEF NoJob, Job, Jobs, Plans
<1>2. NoJob(at).call <= Len(NoJob(at).plan)
  BY DEF NoJob, Job
<1> QED
  BY <1>1, <1>2

LEMMA InitIInv == Init => IInv
<1> SUFFICES ASSUME Init PROVE IInv
  OBVIOUS
<1>1. SomeKey \in Key
  BY ContentAssumption DEF SomeKey, Key, Page
<1>2. \A k \in Key : ~Stored(k)
  BY DEF Init, Stored
<1>3. db \in [Entity -> Entities]
  BY EntityTypes DEF Init, Entity
<1>4. \A m \in Misses : miss[m] = NoMiss("idle", SomeKey)
  BY DEF Init
<1>5. /\ writer \in [Writers -> Jobs]
      /\ \A w \in Writers : writer[w].call <= Len(writer[w].plan)
  BY NoJobType DEF Init
<1>6. TypeOK
  BY <1>1, <1>2, <1>3, <1>4, <1>5 DEF Init, TypeOK, NoMiss
<1> QED
  BY <1>2, <1>4, <1>6 DEF IInv, Current, Tagged, StaleOnlyIfExcused, NoMiss

LEMMA SaveKeeps ==
  ASSUME IInv, NEW w \in Writers, GoodSave(w)
  PROVE  IInv'
<1>1. PICK newdb \in [Entity -> Entities], plan \in Plans, gaps \in SUBSET Page :
        Covers(newdb, plan, gaps) /\ Save(w, newdb, plan, gaps)
  BY DEF GoodSave
<1>2. /\ db' = newdb /\ cache' = cache /\ refs' = refs
      /\ writer' = [writer EXCEPT ![w] = Job(plan, {})]
      /\ miss' = [m \in Misses |-> [miss[m] EXCEPT !.raced = miss[m].at \notin {"idle", "done"}]]
      /\ excused \subseteq excused'
      /\ excused' \subseteq Key
      /\ \A k \in Key : Stored(k) /\ k \notin excused' =>
           /\ k.page \in gaps => Show(k, newdb) = Show(k, db)
           /\ \A m \in Misses : miss[m].at = "tagging" => miss[m].key # k
  BY <1>1 DEF Save, IInv, TypeOK
<1>3. \A m \in Misses : /\ miss'[m].at = miss[m].at /\ miss'[m].key = miss[m].key
                        /\ miss'[m].body = miss[m].body
                        /\ miss'[m].raced = (miss[m].at \notin {"idle", "done"})
                        /\ DOMAIN miss'[m] = DOMAIN miss[m]
  BY <1>2 DEF IInv, TypeOK
<1>4. /\ writer \in [Writers -> Jobs]
      /\ \A v \in Writers : writer[v].call <= Len(writer[v].plan)
  BY DEF IInv, TypeOK
<1>5. Job(plan, {}) \in Jobs
  BY DEF Job, Jobs, Plans
<1>6. Len(plan) \in Nat
  BY DEF Plans
<1>7. /\ writer' \in [Writers -> Jobs]
      /\ \A v \in Writers : writer'[v].call <= Len(writer'[v].plan)
      /\ writer'[w] = Job(plan, {}) /\ \A v \in Writers \ {w} : writer'[v] = writer[v]
  BY <1>2, <1>4, <1>5, <1>6 DEF Job
<1>8. TypeOK'
  <2>1. (\A k \in Key : Stored(k) => IsBody(cache[k]) /\ Found(k, cache[k]))'
    BY <1>2 DEF IInv, TypeOK, Stored
  <2>2. /\ DOMAIN miss' = Misses
        /\ \A m \in Misses :
             /\ DOMAIN miss'[m] = {"at", "key", "body", "raced"}
             /\ miss'[m].at \in {"idle", "reading", "storing", "tagging", "done"}
             /\ miss'[m].key \in Key
             /\ miss'[m].raced \in BOOLEAN
             /\ miss'[m].at \in {"storing", "tagging"} =>
                  IsBody(miss'[m].body) /\ Found(miss'[m].key, miss'[m].body)
    <3>1. DOMAIN miss' = Misses
      BY <1>2
    <3>2. ASSUME NEW m \in Misses
          PROVE  /\ DOMAIN miss[m] = {"at", "key", "body", "raced"}
                 /\ miss[m].at \in {"idle", "reading", "storing", "tagging", "done"}
                 /\ miss[m].key \in Key
                 /\ miss[m].at \in {"storing", "tagging"} =>
                      IsBody(miss[m].body) /\ Found(miss[m].key, miss[m].body)
      BY DEF IInv, TypeOK
    <3>3. ASSUME NEW m \in Misses PROVE (miss[m].at \notin {"idle", "done"}) \in BOOLEAN
      OBVIOUS
    <3> QED
      BY <1>3, <3>1, <3>2, <3>3
  <2> QED
    BY <1>2, <1>7, <2>1, <2>2 DEF IInv, TypeOK
<1>9. Current'
  BY <1>3 DEF Current
<1>10. Tagged'
  BY <1>2 DEF IInv, Tagged, Stored
<1>11. StaleOnlyIfExcused'
  <2> SUFFICES ASSUME NEW k \in Key, Stored(k), cache[k] # Show(k, newdb), k \notin excused'
               PROVE  \E v \in Writers : Pending(v, k)'
    BY <1>2 DEF StaleOnlyIfExcused, Stored
  <2>1. CASE cache[k] # Show(k, db)
    <3>1. PICK v \in Writers : Pending(v, k)
      BY <1>2, <2>1 DEF IInv, StaleOnlyIfExcused
    <3>2. v # w
      BY <3>1 DEF GoodSave, Invalidated, Pending
    <3> QED
      BY <1>2, <1>7, <3>1, <3>2, PendingStays
  <2>2. CASE cache[k] = Show(k, db)
    <3>1. Found(k, Show(k, db))
      BY <2>2 DEF IInv, TypeOK
    <3>2. PICK i \in 1..Len(plan) : \E tags \in plan[i] : tags \subseteq Tags(k, Show(k, db))
      BY <1>1, <1>2, <2>2, <3>1 DEF Covers
    <3>3. \A t \in Tags(k, Show(k, db)) : <<t, k>> \in refs
      BY <1>2, <2>2 DEF IInv, Tagged
    <3>4. \E tags \in plan[i] : k \in Hit(tags)'
      BY <1>2, <3>2, <3>3 DEF Hit
    <3>5. i \in (0 + 1)..Len(plan)
      BY <3>2
    <3> QED
      BY <1>7, <3>4, <3>5 DEF Pending, Job
  <2> QED
    BY <2>1, <2>2
<1> QED
  BY <1>8, <1>9, <1>10, <1>11 DEF IInv

\* A step of one miss that leaves the database and the writers alone.
LEMMA MissType ==
  ASSUME TypeOK, NEW m \in Misses, NEW next, miss' = [miss EXCEPT ![m] = next],
         DOMAIN next = {"at", "key", "body", "raced"},
         next.at \in {"idle", "reading", "storing", "tagging", "done"},
         next.key \in Key, next.raced \in BOOLEAN,
         next.at \in {"storing", "tagging"} => IsBody(next.body) /\ Found(next.key, next.body),
         UNCHANGED <<db, writer>>,
         refs' \subseteq AllTags \X Key, excused' \subseteq Key, DOMAIN cache' = Key,
         \A k \in Key : Stored(k)' => IsBody(cache'[k]) /\ Found(k, cache'[k])
  PROVE  /\ TypeOK'
         /\ miss'[m] = next /\ \A n \in Misses \ {m} : miss'[n] = miss[n]
<1>1. /\ DOMAIN miss' = Misses
      /\ miss'[m] = next /\ \A n \in Misses \ {m} : miss'[n] = miss[n]
  BY DEF TypeOK
<1>2. /\ \A n \in Misses :
           /\ DOMAIN miss'[n] = {"at", "key", "body", "raced"}
           /\ miss'[n].at \in {"idle", "reading", "storing", "tagging", "done"}
           /\ miss'[n].key \in Key
           /\ miss'[n].raced \in BOOLEAN
           /\ miss'[n].at \in {"storing", "tagging"} =>
                IsBody(miss'[n].body) /\ Found(miss'[n].key, miss'[n].body)
  BY <1>1 DEF TypeOK
<1>3. (\A k \in Key : Stored(k) => IsBody(cache[k]) /\ Found(k, cache[k]))'
  OBVIOUS
<1>4. /\ db' \in [Entity -> Entities] /\ writer' \in [Writers -> Jobs]
      /\ \A w \in Writers : writer'[w].call <= Len(writer'[w].plan)
  BY DEF TypeOK
<1> QED
  BY <1>1, <1>2, <1>3, <1>4 DEF TypeOK

\* What is pending for an unchanged entry stays so while no writer moves.
LEMMA StaleStays ==
  ASSUME IInv, UNCHANGED <<db, writer>>, refs \subseteq refs',
         \A k \in Key : Stored(k)' /\ k \notin excused' =>
           cache'[k] = Show(k, db) \/ (cache'[k] = cache[k] /\ k \notin excused)
  PROVE  StaleOnlyIfExcused'
<1> SUFFICES ASSUME NEW k \in Key, Stored(k)', cache'[k] # Show(k, db), k \notin excused'
             PROVE  \E w \in Writers : Pending(w, k)'
  BY DEF StaleOnlyIfExcused
<1>1. cache'[k] = cache[k] /\ k \notin excused
  OBVIOUS
<1>2. PICK w \in Writers : Pending(w, k)
  BY <1>1 DEF IInv, StaleOnlyIfExcused, Stored
<1> QED
  BY <1>2, PendingStays

\* A miss that reaches no store step, or whose body is what the route answers now.
LEMMA NewMissKeeps ==
  ASSUME IInv, NEW m \in Misses, NEW next, miss' = [miss EXCEPT ![m] = next],
         miss[m].at # "tagging",
         DOMAIN next = {"at", "key", "body", "raced"},
         next.at \in {"reading", "storing", "done"}, next.key \in Key, next.raced \in BOOLEAN,
         next.at = "storing" => next.body = Show(next.key, db) /\ Found(next.key, next.body),
         UNCHANGED <<db, cache, refs, writer, excused>>
  PROVE  IInv'
<1>1. TypeOK /\ db \in [Entity -> Entities]
  BY DEF IInv, TypeOK
<1>2. next.at = "storing" => IsBody(next.body) /\ Found(next.key, next.body)
  BY <1>1, ShowType
<1>3. TypeOK' /\ miss'[m] = next /\ \A n \in Misses \ {m} : miss'[n] = miss[n]
  <2>1. /\ refs' \subseteq AllTags \X Key /\ excused' \subseteq Key /\ DOMAIN cache' = Key
        /\ \A k \in Key : Stored(k)' => IsBody(cache'[k]) /\ Found(k, cache'[k])
    BY <1>1 DEF TypeOK, Stored
  <2>2. /\ next.at \in {"idle", "reading", "storing", "tagging", "done"}
        /\ next.at \in {"storing", "tagging"} => IsBody(next.body) /\ Found(next.key, next.body)
    BY <1>2
  <2> QED
    BY <1>1, <2>1, <2>2, MissType
<1>4. Current'
  BY <1>3 DEF IInv, Current, Stored
<1>5. Tagged'
  BY <1>3 DEF IInv, Tagged, Stored
<1>6. StaleOnlyIfExcused'
  BY StaleStays DEF Stored, IInv, StaleOnlyIfExcused
<1> QED
  BY <1>3, <1>4, <1>5, <1>6 DEF IInv

LEMMA RequestAndRead ==
  ASSUME IInv, NEW m \in Misses, (\E k \in Key : Request(m, k)) \/ Read(m)
  PROVE  IInv'
<1>1. TypeOK /\ SomeKey \in Key
  BY ContentAssumption DEF IInv, SomeKey, Key, Page
<1>2. CASE \E k \in Key : Request(m, k)
  <2>1. PICK k \in Key : Request(m, k)
    BY <1>2
  <2> DEFINE next == NoMiss("reading", k)
  <2>2. DOMAIN next = {"at", "key", "body", "raced"} /\ next.at = "reading" /\ next.key = k
        /\ next.raced = FALSE
    BY DEF NoMiss
  <2>3. miss' = [miss EXCEPT ![m] = next] /\ miss[m].at # "tagging"
        /\ UNCHANGED <<db, cache, refs, writer, excused>>
    BY <2>1 DEF Request
  <2> HIDE DEF next
  <2> QED
    BY <2>2, <2>3, NewMissKeeps
<1>3. CASE Read(m)
  <2> DEFINE k == miss[m].key
             next == IF Found(k, Show(k, db))
                     THEN [miss[m] EXCEPT !.at = "storing", !.body = Show(k, db)]
                     ELSE NoMiss("done", SomeKey)
  <2>1. miss' = [miss EXCEPT ![m] = next] /\ miss[m].at # "tagging"
        /\ UNCHANGED <<db, cache, refs, writer, excused>>
    BY <1>3 DEF Read
  <2>2. k \in Key /\ miss[m].raced \in BOOLEAN /\ DOMAIN miss[m] = {"at", "key", "body", "raced"}
    BY <1>1 DEF TypeOK
  <2>3. /\ DOMAIN next = {"at", "key", "body", "raced"} /\ next.at \in {"storing", "done"}
        /\ next.key \in Key /\ next.raced \in BOOLEAN
        /\ next.at = "storing" => next.body = Show(next.key, db) /\ Found(next.key, next.body)
    <3>1. CASE Found(k, Show(k, db))
      <4> DEFINE stored == [miss[m] EXCEPT !.at = "storing", !.body = Show(k, db)]
      <4>1. next = stored
        BY <3>1
      <4>2. /\ DOMAIN stored = {"at", "key", "body", "raced"} /\ stored.at = "storing"
            /\ stored.key = k /\ stored.raced = miss[m].raced /\ stored.body = Show(k, db)
        BY <2>2
      <4> HIDE DEF stored, next
      <4> QED
        BY <2>2, <3>1, <4>1, <4>2
    <3>2. CASE ~Found(k, Show(k, db))
      BY <1>1, <3>2 DEF NoMiss
    <3> QED
      BY <3>1, <3>2
  <2> HIDE DEF next
  <2> QED
    BY <2>1, <2>3, NewMissKeeps
<1> QED
  BY <1>2, <1>3

LEMMA StoreKeeps ==
  ASSUME IInv, NEW m \in Misses, Store(m)
  PROVE  IInv'
<1> DEFINE k == miss[m].key
           next == [miss[m] EXCEPT !.at = "tagging"]
<1>0. TypeOK /\ k \in Key /\ miss[m].at = "storing"
  BY DEF IInv, TypeOK, Store
<1>1. /\ UNCHANGED <<db, refs, writer>>
      /\ cache' = [cache EXCEPT ![k] = miss[m].body]
      /\ excused' = IF miss[m].raced THEN excused \cup {k} ELSE excused \ {k}
      /\ miss' = [miss EXCEPT ![m] = next]
  BY DEF Store
<1>2. /\ DOMAIN next = {"at", "key", "body", "raced"} /\ next.at = "tagging" /\ next.key = k
      /\ next.body = miss[m].body /\ next.raced = miss[m].raced /\ next.raced \in BOOLEAN
      /\ IsBody(next.body) /\ Found(k, next.body)
  BY <1>0 DEF TypeOK
<1>3. DOMAIN cache' = Key /\ cache'[k] = miss[m].body /\ \A j \in Key \ {k} : cache'[j] = cache[j]
  BY <1>0, <1>1 DEF TypeOK
<1>4. TypeOK' /\ miss'[m] = next /\ \A n \in Misses \ {m} : miss'[n] = miss[n]
  <2>1. /\ refs' \subseteq AllTags \X Key /\ excused' \subseteq Key
        /\ \A j \in Key : Stored(j)' => IsBody(cache'[j]) /\ Found(j, cache'[j])
    BY <1>0, <1>1, <1>2, <1>3 DEF TypeOK, Stored
  <2>2. /\ next.at \in {"idle", "reading", "storing", "tagging", "done"} /\ next.key \in Key
        /\ next.at \in {"storing", "tagging"} => IsBody(next.body) /\ Found(next.key, next.body)
    BY <1>0, <1>2
  <2> HIDE DEF next
  <2> QED
    BY <1>0, <1>1, <1>2, <1>3, <2>1, <2>2, MissType
<1> HIDE DEF next
<1>5. ~miss[m].raced => miss[m].body = Show(k, db)
  BY <1>0 DEF IInv, Current
<1>6. Current'
  <2> SUFFICES ASSUME NEW n \in Misses, miss'[n].at \in {"storing", "tagging"}, ~miss'[n].raced
               PROVE  /\ miss'[n].body = Show(miss'[n].key, db)
                      /\ miss'[n].at = "tagging" /\ cache'[miss'[n].key] # None /\ miss'[n].key \notin excused' =>
                           cache'[miss'[n].key] = miss'[n].body
    BY <1>1 DEF Current, Stored
  <2>1. CASE n = m
    <3>1. miss'[n].body = miss[m].body /\ miss'[n].key = k /\ miss'[n].at = "tagging"
          /\ ~miss[m].raced
      BY <1>2, <1>4, <2>1
    <3> QED
      BY <1>3, <1>5, <3>1
  <2>2. CASE n # m /\ miss[n].key = k
    <3>1. miss'[n] = miss[n] /\ miss[n].body = Show(k, db)
      BY <1>4, <2>2 DEF IInv, Current
    <3>2. miss'[n].key \notin excused' => ~miss[m].raced
      BY <1>1, <2>2, <3>1
    <3> QED
      BY <1>3, <1>5, <2>2, <3>1, <3>2
  <2>3. CASE n # m /\ miss[n].key # k
    <3>1. miss'[n] = miss[n] /\ miss[n].key \in Key \ {k}
      BY <1>0, <1>4, <2>3 DEF TypeOK
    <3>2. cache'[miss[n].key] = cache[miss[n].key] /\ (miss[n].key \in excused' <=> miss[n].key \in excused)
      BY <1>1, <1>3, <3>1
    <3> QED
      BY <3>1, <3>2 DEF IInv, Current, Stored
  <2> QED
    BY <2>1, <2>2, <2>3
<1>7. Tagged'
  <2> SUFFICES ASSUME NEW j \in Key, Stored(j)', j \notin excused'
               PROVE  \/ \A t \in Tags(j, cache'[j]) : <<t, j>> \in refs
                      \/ \E n \in Misses : miss'[n].at = "tagging" /\ ~miss'[n].raced /\ miss'[n].key = j
    BY <1>1 DEF Tagged
  <2>1. CASE j = k
    BY <1>1, <1>2, <1>4, <2>1
  <2>2. CASE j # k
    <3>1. Stored(j) /\ j \notin excused /\ cache'[j] = cache[j]
      BY <1>1, <1>3, <2>2 DEF Stored
    <3> QED
      BY <1>0, <1>4, <3>1 DEF IInv, Tagged
  <2> QED
    BY <2>1, <2>2
<1>8. StaleOnlyIfExcused'
  <2>1. \A j \in Key : Stored(j)' /\ j \notin excused' =>
          cache'[j] = Show(j, db) \/ (cache'[j] = cache[j] /\ j \notin excused)
    BY <1>1, <1>3, <1>5
  <2> QED
    BY <1>1, <2>1, StaleStays
<1> QED
  BY <1>4, <1>6, <1>7, <1>8 DEF IInv

LEMMA TagKeeps ==
  ASSUME IInv, NEW m \in Misses, Tag(m) \/ MissFails(m)
  PROVE  IInv'
<1> DEFINE k == miss[m].key
           next == NoMiss("done", SomeKey)
<1>0. TypeOK /\ k \in Key /\ SomeKey \in Key
  BY ContentAssumption DEF IInv, TypeOK, SomeKey, Key, Page
<1>1. UNCHANGED <<db, cache, writer>> /\ miss' = [miss EXCEPT ![m] = next]
  BY DEF Tag, MissFails
<1>2. DOMAIN next = {"at", "key", "body", "raced"} /\ next.at = "done" /\ next.key \in Key
      /\ next.raced \in BOOLEAN
  BY <1>0 DEF NoMiss
<1>3. refs \subseteq refs' /\ excused \subseteq excused'
  BY DEF Tag, MissFails
<1>4. refs' \subseteq AllTags \X Key /\ excused' \subseteq Key
  <2>1. CASE Tag(m)
    <3>1. IsBody(miss[m].body)
      BY <1>0, <2>1 DEF TypeOK, Tag
    <3>2. Tags(k, miss[m].body) \subseteq AllTags
      BY <1>0, <3>1, TagType
    <3> QED
      BY <1>0, <2>1, <3>2 DEF TypeOK, Tag
  <2>2. CASE MissFails(m)
    BY <1>0, <2>2 DEF TypeOK, MissFails
  <2> QED
    BY <2>1, <2>2
<1> HIDE DEF next
<1>5. TypeOK' /\ miss'[m] = next /\ \A n \in Misses \ {m} : miss'[n] = miss[n]
  <2>1. DOMAIN cache' = Key /\ \A j \in Key : Stored(j)' => IsBody(cache'[j]) /\ Found(j, cache'[j])
    BY <1>0, <1>1 DEF TypeOK, Stored
  <2> QED
    BY <1>0, <1>1, <1>2, <1>4, <2>1, MissType
<1>6. Current'
  BY <1>1, <1>2, <1>3, <1>5 DEF IInv, Current, Stored
<1>7. Tagged'
  <2> SUFFICES ASSUME NEW j \in Key, Stored(j), j \notin excused', j \notin excused
               PROVE  \/ \A t \in Tags(j, cache[j]) : <<t, j>> \in refs'
                      \/ \E n \in Misses : miss'[n].at = "tagging" /\ ~miss'[n].raced /\ miss'[n].key = j
    BY <1>1, <1>3 DEF Tagged, Stored
  <2>1. CASE \A t \in Tags(j, cache[j]) : <<t, j>> \in refs
    BY <1>3, <2>1
  <2>2. CASE \E n \in Misses : miss[n].at = "tagging" /\ ~miss[n].raced /\ miss[n].key = j
    <3>1. PICK n \in Misses : miss[n].at = "tagging" /\ ~miss[n].raced /\ miss[n].key = j
      BY <2>2
    <3>2. CASE n # m
      BY <1>5, <3>1, <3>2
    <3>3. CASE n = m
      <4>1. Tag(m)
        BY <3>1, <3>3 DEF MissFails
      <4>2. cache[j] = miss[m].body
        BY <3>1, <3>3 DEF IInv, Current
      <4> QED
        BY <3>1, <3>3, <4>1, <4>2 DEF Tag
    <3> QED
      BY <3>2, <3>3
  <2> QED
    BY <2>1, <2>2 DEF IInv, Tagged
<1>8. StaleOnlyIfExcused'
  BY <1>1, <1>3, StaleStays DEF Stored
<1> QED
  BY <1>5, <1>6, <1>7, <1>8 DEF IInv

\* A step that at most removes responses, and loses none that was to be deleted.
LEMMA RemovalKeeps ==
  ASSUME IInv, NEW gone \in SUBSET Key,
         DOMAIN cache' = Key, \A k \in Key : cache'[k] = IF k \in gone THEN None ELSE cache[k],
         refs' \subseteq refs, gone = Key \/ refs' = refs,
         excused' \subseteq Key, \A k \in Key \ gone : k \in excused => k \in excused',
         UNCHANGED <<db, miss>>,
         writer' \in [Writers -> Jobs], \A w \in Writers : writer'[w].call <= Len(writer'[w].plan),
         \A w \in Writers, k \in Key \ gone : Pending(w, k) => k \in excused' \/ Pending(w, k)'
  PROVE  IInv'
<1>1. /\ DOMAIN cache' = Key
      /\ \A k \in Key : Stored(k)' => k \notin gone /\ Stored(k) /\ cache'[k] = cache[k]
  BY DEF Stored
<1>2. TypeOK'
  <2>1. /\ db' \in [Entity -> Entities] /\ refs' \subseteq AllTags \X Key
        /\ DOMAIN miss' = Misses
        /\ \A m \in Misses :
             /\ DOMAIN miss'[m] = {"at", "key", "body", "raced"}
             /\ miss'[m].at \in {"idle", "reading", "storing", "tagging", "done"}
             /\ miss'[m].key \in Key
             /\ miss'[m].raced \in BOOLEAN
             /\ miss'[m].at \in {"storing", "tagging"} =>
                  IsBody(miss'[m].body) /\ Found(miss'[m].key, miss'[m].body)
    BY DEF IInv, TypeOK
  <2>2. \A k \in Key : Stored(k)' => IsBody(cache'[k]) /\ Found(k, cache'[k])
    BY <1>1 DEF IInv, TypeOK
  <2> QED
    BY <1>1, <2>1, <2>2 DEF TypeOK
<1>3. \A m \in Misses : miss[m].key \in Key
  BY DEF IInv, TypeOK
<1>4. Current'
  BY <1>1, <1>3 DEF IInv, Current
<1>5. Tagged'
  BY <1>1 DEF IInv, Tagged
<1>6. StaleOnlyIfExcused'
  BY <1>1 DEF IInv, StaleOnlyIfExcused
<1> QED
  BY <1>2, <1>4, <1>5, <1>6 DEF IInv

LEMMA ExpireKeeps ==
  ASSUME IInv, InvalidateAll \/ \E k \in Key : Expire(k)
  PROVE  IInv'
<1>1. /\ writer \in [Writers -> Jobs] /\ DOMAIN cache = Key /\ excused \subseteq Key
      /\ \A w \in Writers : writer[w].call <= Len(writer[w].plan)
  BY DEF IInv, TypeOK
<1>2. CASE InvalidateAll
  <2>1. DOMAIN cache' = Key /\ \A k \in Key : cache'[k] = IF k \in Key THEN None ELSE cache[k]
    BY <1>2 DEF InvalidateAll
  <2> QED
    BY <1>1, <1>2, <2>1, RemovalKeeps DEF InvalidateAll
<1>3. CASE \E k \in Key : Expire(k)
  <2>1. PICK k \in Key : Expire(k)
    BY <1>3
  <2>2. /\ DOMAIN cache' = Key
        /\ \A j \in Key : cache'[j] = IF j \in {k} THEN None ELSE cache[j]
        /\ UNCHANGED <<db, refs, miss, writer>>
        /\ excused' = excused \ {k}
    BY <1>1, <2>1 DEF Expire
  <2>3. \A w \in Writers, j \in Key : Pending(w, j) => Pending(w, j)'
    BY <2>2, PendingStays
  <2> QED
    BY <1>1, <2>2, <2>3, RemovalKeeps
<1> QED
  BY <1>2, <1>3

\* A step of one writer that leaves the responses, and keeps what is pending.
LEMMA WriterKeeps ==
  ASSUME IInv, NEW w \in Writers, NEW job \in Jobs, job.call <= Len(job.plan),
         writer' = [writer EXCEPT ![w] = job], UNCHANGED <<db, cache, refs, miss>>,
         excused \subseteq excused', excused' \subseteq Key,
         \A k \in Key : Stored(k) /\ Pending(w, k) => k \in excused' \/ Pending(w, k)'
  PROVE  IInv'
<1> DEFINE gone == {k \in Key : ~Stored(k)}
<1>1. DOMAIN cache' = Key /\ \A k \in Key : cache'[k] = IF k \in gone THEN None ELSE cache[k]
  BY DEF IInv, TypeOK, Stored
<1>2. /\ writer' \in [Writers -> Jobs] /\ \A v \in Writers \ {w} : writer'[v] = writer[v]
      /\ \A v \in Writers : writer'[v].call <= Len(writer'[v].plan)
  BY DEF IInv, TypeOK
<1>3. \A v \in Writers, k \in Key \ gone : Pending(v, k) => k \in excused' \/ Pending(v, k)'
  BY <1>2, PendingStays
<1> HIDE DEF gone
<1>4. gone \in SUBSET Key
  BY DEF gone
<1> QED
  BY <1>1, <1>2, <1>3, <1>4, RemovalKeeps

LEMMA InvalidationKeeps ==
  ASSUME IInv, NEW w \in Writers, Invalidate(w)
  PROVE  IInv'
<1>0. /\ writer[w] \in Jobs /\ writer[w].call \in Nat /\ Len(writer[w].plan) \in Nat
      /\ writer[w].plan \in Plans /\ writer[w].todo \in SUBSET (SUBSET AllTags)
      /\ writer[w].doomed \in SUBSET Key
      /\ DOMAIN writer = Writers /\ excused \subseteq Key
      /\ writer[w].call <= Len(writer[w].plan)
  BY DEF IInv, TypeOK, Jobs, Plans
<1>1. CASE NextCall(w)
  <2> DEFINE job == [writer[w] EXCEPT !.call = @ + 1, !.todo = writer[w].plan[writer[w].call + 1]]
  <2>1. writer[w].call + 1 \in 1..Len(writer[w].plan)
    BY <1>0, <1>1 DEF NextCall
  <2>2. writer[w].plan[writer[w].call + 1] \in SUBSET (SUBSET AllTags)
    BY <1>0, <2>1 DEF Plans
  <2>3. /\ job \in Jobs /\ job.call = writer[w].call + 1 /\ job.plan = writer[w].plan
        /\ job.todo = writer[w].plan[writer[w].call + 1] /\ job.at = writer[w].at
        /\ job.doomed = writer[w].doomed
    <3>1. writer[w].call + 1 \in Nat
      BY <1>0
    <3> DEFINE call == writer[w].call + 1
               todo == writer[w].plan[writer[w].call + 1]
    <3> HIDE DEF call, todo
    <3>2. job = [writer[w] EXCEPT !.call = call, !.todo = todo]
      BY DEF call, todo
    <3>3. call \in Nat /\ todo \in SUBSET (SUBSET AllTags)
      BY <2>2, <3>1 DEF call, todo
    <3>4. /\ job \in Jobs /\ job.call = call /\ job.todo = todo /\ job.plan = writer[w].plan
          /\ job.at = writer[w].at /\ job.doomed = writer[w].doomed
      BY <1>0, <3>2, <3>3 DEF Jobs
    <3> QED
      BY <3>4 DEF call, todo
  <2>4. writer' = [writer EXCEPT ![w] = job] /\ UNCHANGED <<db, cache, refs, miss, excused>>
    BY <1>0, <1>1 DEF NextCall
  <2> HIDE DEF job
  <2>5. writer'[w] = job
    BY <1>0, <2>4
  <2>6. ASSUME NEW k \in Key, Pending(w, k) PROVE Pending(w, k)'
    <3>1. PICK i \in (writer[w].call + 1)..Len(writer[w].plan) :
            \E tags \in writer[w].plan[i] : k \in Hit(tags)
      BY <1>1, <2>6 DEF Pending, NextCall
    <3>2. \E tags \in writer[w].plan[i] : k \in Hit(tags)'
      BY <2>4, <3>1 DEF Hit
    <3>3. CASE i = writer[w].call + 1
      BY <1>1, <2>3, <2>5, <3>2, <3>3 DEF Pending, NextCall
    <3>4. CASE i # writer[w].call + 1
      <4>1. i \in (job.call + 1)..Len(job.plan)
        BY <1>0, <2>3, <3>1, <3>4
      <4> QED
        BY <1>1, <2>3, <2>5, <3>2, <4>1 DEF Pending, NextCall
    <3> QED
      BY <3>3, <3>4
  <2>7. job.call <= Len(job.plan)
    BY <1>0, <2>1, <2>3
  <2> QED
    BY <1>0, <2>3, <2>4, <2>6, <2>7, WriterKeeps
<1>2. CASE Scan(w)
  <2>1. PICK tags \in writer[w].todo :
          writer' = [writer EXCEPT ![w].todo = @ \ {tags}, ![w].doomed = @ \cup Hit(tags)]
    BY <1>2 DEF Scan
  <2> DEFINE job == [writer[w] EXCEPT !.todo = @ \ {tags}, !.doomed = @ \cup Hit(tags)]
  <2>2. Hit(tags) \in SUBSET Key
    BY DEF Hit
  <2>3. /\ job \in Jobs /\ job.call = writer[w].call /\ job.plan = writer[w].plan
        /\ job.todo = writer[w].todo \ {tags} /\ job.at = writer[w].at
        /\ job.doomed = writer[w].doomed \cup Hit(tags)
    BY <1>0, <2>2 DEF Jobs
  <2>4. writer' = [writer EXCEPT ![w] = job] /\ UNCHANGED <<db, cache, refs, miss, excused>>
    BY <1>0, <1>2, <2>1 DEF Scan
  <2> HIDE DEF job
  <2>5. writer'[w] = job /\ \A t : Hit(t)' = Hit(t)
    BY <1>0, <2>4 DEF Hit
  <2>6. \A k \in Key : Pending(w, k) => Pending(w, k)'
    BY <2>3, <2>5 DEF Pending
  <2> QED
    BY <1>0, <2>3, <2>4, <2>6, WriterKeeps
<1>3. CASE Drop(w)
  <2>1. PICK k \in writer[w].doomed :
          /\ writer' = [writer EXCEPT ![w].doomed = @ \ {k}]
          /\ cache' = [cache EXCEPT ![k] = None]
          /\ excused' = excused \ {k}
    BY <1>3 DEF Drop
  <2> DEFINE job == [writer[w] EXCEPT !.doomed = @ \ {k}]
  <2>2. /\ job \in Jobs /\ job.call = writer[w].call /\ job.plan = writer[w].plan
        /\ job.todo = writer[w].todo /\ job.at = writer[w].at
        /\ job.doomed = writer[w].doomed \ {k}
    BY <1>0 DEF Jobs
  <2>3. writer' = [writer EXCEPT ![w] = job] /\ UNCHANGED <<db, refs, miss>>
    BY <1>0, <1>3, <2>1 DEF Drop
  <2> HIDE DEF job
  <2>4. /\ writer'[w] = job /\ \A v \in Writers \ {w} : writer'[v] = writer[v]
        /\ \A t : Hit(t)' = Hit(t)
    BY <1>0, <2>3 DEF Hit
  <2>5. /\ writer' \in [Writers -> Jobs]
        /\ \A v \in Writers : writer'[v].call <= Len(writer'[v].plan)
    BY <2>2, <2>3, <2>4 DEF IInv, TypeOK
  <2>6. \A v \in Writers, j \in Key \ {k} : Pending(v, j) => Pending(v, j)'
    BY <2>2, <2>4 DEF Pending
  <2>7. /\ DOMAIN cache' = Key /\ \A j \in Key : cache'[j] = IF j \in {k} THEN None ELSE cache[j]
    BY <1>0, <2>1 DEF IInv, TypeOK
  <2>8. {k} \in SUBSET Key /\ refs' \subseteq refs /\ refs' = refs
    BY <1>0, <2>3
  <2>9. excused' \subseteq Key /\ \A j \in Key \ {k} : j \in excused => j \in excused'
    BY <1>0, <2>1
  <2> QED
    BY <2>3, <2>5, <2>6, <2>7, <2>8, <2>9, RemovalKeeps
<1>4. NoJob("done") \in Jobs /\ NoJob("done").call <= Len(NoJob("done").plan)
  BY NoJobType
<1>5. CASE Finish(w)
  <2>1. \A k \in Key : ~Pending(w, k)
    BY <1>0, <1>5 DEF Finish, Invalidated, Pending
  <2> QED
    BY <1>0, <1>4, <1>5, <2>1, WriterKeeps DEF Finish
<1>6. CASE WriterFails(w)
  <2>1. /\ excused' = excused \cup {k \in Key : Stored(k) /\ Pending(w, k)}
        /\ writer' = [writer EXCEPT ![w] = NoJob("done")] /\ UNCHANGED <<db, cache, refs, miss>>
    BY <1>6 DEF WriterFails
  <2> QED
    BY <1>0, <1>4, <2>1, WriterKeeps
<1> QED
  BY <1>1, <1>2, <1>3, <1>5, <1>6 DEF Invalidate

\* The writer was idle: nothing of its was pending.
LEMMA DeleteKeeps ==
  ASSUME IInv, NEW w \in Writers, NEW r \in Releases, DeleteRelease(w, r)
  PROVE  IInv'
<1> DEFINE job == Job(InvalidateReleaseOnly(r, AllLevels), {r})
<1>1. AllLevels \in SUBSET AllLevels
  OBVIOUS
<1>2. InvalidateReleaseOnly(r, AllLevels) \in Plans
  BY <1>1, ReleasePlans
<1>3. job \in Jobs /\ job.call <= Len(job.plan)
  BY <1>2 DEF Job, Jobs, Plans
<1>4. /\ writer' = [writer EXCEPT ![w] = job] /\ UNCHANGED <<db, cache, refs, miss, excused>>
      /\ \A k \in Key : ~Pending(w, k)
  BY DEF DeleteRelease, Serves, Pending
<1> HIDE DEF job
<1> QED
  BY <1>3, <1>4, WriterKeeps DEF IInv, TypeOK

LEMMA NextIInv == IInv /\ [Next]_vars => IInv'
<1> SUFFICES ASSUME IInv, [Next]_vars PROVE IInv'
  OBVIOUS
<1>1. ASSUME NEW m \in Misses, Miss(m) PROVE IInv'
  BY <1>1, RequestAndRead, StoreKeeps, TagKeeps DEF Miss
<1>2. ASSUME NEW w \in Writers, Invalidate(w) PROVE IInv'
  BY <1>2, InvalidationKeeps
<1>3. ASSUME NEW w \in Writers, ChangeGame(w) \/ ChangeOther(w) PROVE IInv'
  <2>1. GoodSave(w)
    BY <1>3, GameHandlers, OtherHandlers DEF IInv
  <2> QED
    BY <2>1, SaveKeeps
<1>4. ASSUME NEW w \in Writers, NEW r \in Releases, ChangeRelease(w, r) PROVE IInv'
  <2>1. CASE DeleteRelease(w, r)
    BY <2>1, DeleteKeeps
  <2>2. CASE ~DeleteRelease(w, r)
    <3>1. GoodSave(w)
      BY <1>4, <2>2, ReleaseHandlers DEF IInv
    <3> QED
      BY <3>1, SaveKeeps
  <2> QED
    BY <2>1, <2>2
<1>5. CASE InvalidateAll \/ \E k \in Key : Expire(k)
  BY <1>5, ExpireKeeps
<1>6. CASE UNCHANGED vars
  <2>1. /\ writer \in [Writers -> Jobs] /\ DOMAIN cache = Key /\ excused \subseteq Key
        /\ \A w \in Writers : writer[w].call <= Len(writer[w].plan)
    BY DEF IInv, TypeOK
  <2>2. /\ UNCHANGED <<db, cache, refs, miss, writer, excused>>
        /\ \A w \in Writers, k \in Key : Pending(w, k) => Pending(w, k)'
    BY <1>6, PendingStays DEF vars
  <2> DEFINE gone == {k \in Key : FALSE}
  <2>3. /\ gone \in SUBSET Key
        /\ DOMAIN cache' = Key /\ \A k \in Key : cache'[k] = IF k \in gone THEN None ELSE cache[k]
    BY <2>1, <2>2
  <2>4. /\ writer' \in [Writers -> Jobs] /\ excused' \subseteq Key
        /\ \A w \in Writers : writer'[w].call <= Len(writer'[w].plan)
    BY <2>1, <2>2
  <2> HIDE DEF gone
  <2> QED
    BY <2>2, <2>3, <2>4, RemovalKeeps
<1> QED
  BY <1>1, <1>2, <1>3, <1>4, <1>5, <1>6 DEF Next

LEMMA AlwaysIInv == Spec => []IInv
  BY InitIInv, NextIInv, PTL DEF Spec

-----------------------------------------------------------------------------
\* Whatever the interleaving of misses and writers, no invalidation runs past
\* its calls and the 404 of a release is never stored (api.cache.ts:134).
THEOREM CacheTypeCorrect == Spec => []TypeOK
<1>1. IInv => TypeOK
  BY DEF IInv
<1> QED
  BY <1>1, AlwaysIInv, PTL

\* A stored response that differs from what its route would answer is about to
\* be deleted or has one of the recorded excuses (api.cache.ts:38-41, 402-466).
THEOREM StaleOnlyWithExcuse == Spec => []StaleOnlyIfExcused
<1>1. IInv => StaleOnlyIfExcused
  BY DEF IInv
<1> QED
  BY <1>1, AlwaysIInv, PTL

\* A stored response without an excuse is, or is about to be, in every reference
\* set its entities, lists and reader call for (api.cache.ts:503-529).
THEOREM AlwaysFindable == Spec => []Findable
<1>1. IInv => Findable
  BY DEF IInv, Tagged, Findable
<1> QED
  BY <1>1, AlwaysIInv, PTL

-----------------------------------------------------------------------------
(***************************************************************************)
(* Who walks through a list sees what stays in it.  The invariant counts   *)
(* what is before an entity in the list, as the request queries it: what   *)
(* the reader has still to see is not before his page; and not on it,      *)
(* either, once it is found; so there is a next page.                      *)
(***************************************************************************)
IsWalk(w) ==
  /\ w = [at |-> w.at, visitor |-> w.visitor, q |-> w.q, page |-> w.page, perPage |-> w.perPage,
          seen |-> w.seen, loaded |-> w.loaded, count |-> w.count, found |-> w.found, done |-> w.done,
          steady |-> w.steady, shifted |-> w.shifted, torn |-> w.torn]
  /\ w.at \in {"ask", "query", "end", "refused"} /\ w.q \in Filters
  /\ w.page \in Nat \ {0} /\ w.perPage \in 1..3 /\ w.count \in Nat
  /\ w.done \subseteq {"count", "find"} /\ w.shifted \in BOOLEAN
  /\ w.at = "ask" => w.done = {}

ListTypes ==
  /\ IsFiniteSet(there) /\ \A e \in there : e.list \notin Whole => e.rank \in Int
  /\ walk = NoWalk \/ IsWalk(walk)

\* How many entities of a list are before one, whatever order those of its key come in.
Lower(entities, e) == Cardinality({d \in entities : d.rank < e.rank})

\* The list as a request has it at hand, and as it has it in mind.
AtHand(w, base) == Matching(base, w.q, w.visitor, w.loaded)
Now(w, base, stars) == ListNow(base, stars, w.q, w.visitor)
InMind(w, base, stars) == IF w.at = "query" THEN AtHand(w, base) ELSE Now(w, base, stars)

Missing(w) == w.steady \ (w.seen \cup w.torn)
MissingStill(w) == w.steady \ (w.seen \cup w.found \cup w.torn)

PagesKnown(w, base, stars) ==
  /\ InMind(w, base, stars) \subseteq Now(w, base, stars) /\ w.steady \subseteq InMind(w, base, stars)
  /\ \A e \in Missing(w) : Lower(InMind(w, base, stars), e) >= (w.page - 1) * w.perPage
  /\ "find" \in w.done => \A e \in MissingStill(w) : Lower(InMind(w, base, stars), e) >= w.page * w.perPage
  /\ w.done = {"count"} => w.count = Cardinality(InMind(w, base, stars))
  /\ w.done = {"count", "find"} => \A e \in MissingStill(w) : w.count > w.page * w.perPage

WalkGoesOn(w, base, stars) ==
  /\ w.steady \subseteq Now(w, base, stars)
  /\ IF w.q.list \in Whole
       THEN /\ w.count = 0
            /\ w.at = "query" => "count" \in w.done
            /\ "find" \in w.done => w.steady \subseteq w.found
       ELSE w.shifted \/ PagesKnown(w, base, stars)

WalkInv ==
  /\ ListTypes
  /\ walk.at \in {"ask", "query"} => WalkGoesOn(walk, there, starred)
  /\ walk.at = "end" => walk.shifted \/ walk.steady \ walk.torn \subseteq walk.seen

-----------------------------------------------------------------------------
\* What is in a list is in the database and of its kind.
LEMMA MatchingIn ==
  ASSUME NEW base, NEW q, NEW visitor, NEW loaded
  PROVE  /\ Matching(base, q, visitor, loaded) \subseteq base
         /\ \A e \in Matching(base, q, visitor, loaded) : e.list = q.list
BY DEF Matching

\* What was looked up decides by itself: what was in the list with it, and is now with
\* something else, is now with it.
LEMMA Stays ==
  ASSUME NEW q \in Filters, NEW visitor, NEW old, NEW base, NEW loaded, NEW other,
         NEW e, e \in Matching(old, q, visitor, loaded), e \in Matching(base, q, visitor, other)
  PROVE  e \in Matching(base, q, visitor, loaded)
<1>1. e \in base /\ e.list = q.list
  BY DEF Matching
<1>2. CASE q.list = "events"
  BY <1>1, <1>2 DEF Matching
<1>3. CASE q.list = "games"
  BY <1>1, <1>3 DEF Matching, GameMatches
<1>4. CASE q.list = "releases"
  BY <1>1, <1>4 DEF Matching
<1>5. CASE q.list = "backglasses"
  BY <1>1, <1>5 DEF Matching
<1>6. CASE q.list = "roms"
  BY <1>1, <1>6 DEF Matching
<1>7. CASE q.list = "labels"
  BY <1>1, <1>7 DEF Matching
<1>8. CASE q.list = "users"
  BY <1>1, <1>8 DEF Matching
<1> QED
  BY <1>2, <1>3, <1>4, <1>5, <1>6, <1>7, <1>8, ListingAssumption

LEMMA LowerGrows ==
  ASSUME NEW A, NEW B, A \subseteq B, IsFiniteSet(B), NEW e
  PROVE  Lower(A, e) \in Nat /\ Lower(B, e) \in Nat /\ Lower(A, e) <= Lower(B, e)
<1>1. /\ {d \in A : d.rank < e.rank} \subseteq {d \in B : d.rank < e.rank}
      /\ {d \in B : d.rank < e.rank} \subseteq B
  OBVIOUS
<1>2. IsFiniteSet({d \in B : d.rank < e.rank})
  BY <1>1, FS_Subset
<1> QED
  BY <1>1, <1>2, FS_Subset, FS_CardinalityType DEF Lower

\* Entities with equal keys come in any order; the one that comes first is where the lower ones
\* end.
LEMMA FirstOfEquals ==
  ASSUME NEW A, IsFiniteSet(A), NEW order \in Orders(A), NEW e \in A
  PROVE  /\ Place(A, order, e) \in Nat /\ Lower(A, e) \in Nat /\ Lower(A, e) <= Place(A, order, e)
         /\ \E d \in A : d.rank = e.rank /\ Place(A, order, d) = Lower(A, e)
<1>1. Cardinality(A) \in Nat /\ order \in [A -> 1..Cardinality(A)]
  BY FS_CardinalityType DEF Orders, Injection
<1> DEFINE Before(d) == {c \in A : c.rank < d.rank \/ (c.rank = d.rank /\ order[c] < order[d])}
           Equals == {d \in A : d.rank = e.rank}
           Numbers == {order[d] : d \in Equals}
<1>2. /\ {c \in A : c.rank < e.rank} \subseteq Before(e) /\ Before(e) \subseteq A
      /\ IsFiniteSet(Before(e))
  BY FS_Subset
<1>3. /\ Place(A, order, e) \in Nat /\ Lower(A, e) \in Nat /\ Lower(A, e) <= Place(A, order, e)
  BY <1>2, FS_Subset, FS_CardinalityType DEF Place, Lower
<1>4. PICK n \in Numbers : \A m \in Numbers : <<m, n>> \notin OpToRel(<, Nat)
  <2>1. Numbers \subseteq Nat /\ Numbers # {}
    BY <1>1
  <2> HIDE DEF Numbers
  <2> QED
    BY <2>1, NatLessThanWellFounded, WFMin
<1>5. PICK d \in Equals : n = order[d]
  OBVIOUS
<1>6. \A c \in Equals : ~(order[c] < order[d])
  <2> SUFFICES ASSUME NEW c \in Equals, order[c] < order[d] PROVE FALSE
    OBVIOUS
  <2>1. order[c] \in Nat /\ order[d] \in Nat
    BY <1>1
  <2>2. <<order[c], order[d]>> \in OpToRel(<, Nat)
    BY <2>1 DEF OpToRel
  <2> QED
    BY <1>4, <1>5, <2>2
<1>7. Before(d) = {c \in A : c.rank < e.rank}
  BY <1>6
<1> QED
  BY <1>3, <1>5, <1>7 DEF Place, Lower

LEMMA LowerInList ==
  ASSUME NEW A, IsFiniteSet(A), NEW e \in A, e.rank \in Int
  PROVE  Cardinality(A) \in Nat /\ Lower(A, e) < Cardinality(A)
<1> DEFINE B == {d \in A : d.rank < e.rank}
<1>1. B \subseteq A /\ e \notin B
  OBVIOUS
<1>2. /\ Cardinality(B) \in Nat /\ Cardinality(A) \in Nat /\ Cardinality(B) <= Cardinality(A)
      /\ Cardinality(B) = Cardinality(A) => B = A
  BY <1>1, FS_Subset, FS_CardinalityType
<1> QED
  BY <1>1, <1>2 DEF Lower

\* There is a next page if the page does not reach the end of the list, and only then.
LEMMA NextPagesAre ==
  ASSUME NEW page \in Nat \ {0}, NEW perPage \in 1..3, NEW count \in Nat
  PROVE  /\ NextPages(page, perPage, count) \subseteq {page + 1}
         /\ count > page * perPage => NextPages(page, perPage, count) # {}
         /\ NextPages(page, perPage, 0) = {}
<1>1. LastPage(count, perPage) \in Int /\ (count > page * perPage => page < LastPage(count, perPage))
  <2>1. CASE perPage = 1
    BY <2>1 DEF LastPage
  <2>2. CASE perPage = 2
    BY <2>2 DEF LastPage
  <2>3. CASE perPage = 3
    BY <2>3 DEF LastPage
  <2> QED
    BY <2>1, <2>2, <2>3
<1>2. LastPage(0, perPage) = 0
  <2>1. CASE perPage = 1
    BY <2>1 DEF LastPage
  <2>2. CASE perPage = 2
    BY <2>2 DEF LastPage
  <2>3. CASE perPage = 3
    BY <2>3 DEF LastPage
  <2> QED
    BY <2>1, <2>2, <2>3
<1>3. \A k \in PageLinks(page, perPage, count) : k[1] = "next" => k = <<"next", page + 1>>
  BY DEF PageLinks
<1>4. NextPages(page, perPage, count) \subseteq {page + 1}
  BY <1>3 DEF NextPages
<1>5. ASSUME count > page * perPage  PROVE page + 1 \in NextPages(page, perPage, count)
  <2>1. <<"next", page + 1>> \in PageLinks(page, perPage, count)
    BY <1>1, <1>5 DEF PageLinks
  <2>2. <<"next", page + 1>>[1] = "next" /\ <<"next", page + 1>>[2] = page + 1
    OBVIOUS
  <2> QED
    BY <2>1, <2>2 DEF NextPages
<1>6. \A k \in PageLinks(page, perPage, 0) : k[1] # "next"
  BY <1>2 DEF PageLinks
<1>7. NextPages(page, perPage, 0) = {}
  BY <1>6 DEF NextPages
<1> QED
  BY <1>4, <1>5, <1>7
-----------------------------------------------------------------------------
LEMMA FirstPage ==
  ASSUME NEW n \in Int
  PROVE  PageNumber(0) = 1 /\ PerPage(n, 2, 3) \in 1..3
<1>1. PageNumber(0) = 1
  <2> DEFINE P(x) == x \in {0, 1} /\ \A y \in {0, 1} : x >= y
  <2>1. P(1)
    OBVIOUS
  <2>2. \A x : P(x) => x = 1
    OBVIOUS
  <2>3. PageNumber(0) = CHOOSE x \in {0, 1} : \A y \in {0, 1} : x >= y
    BY DEF PageNumber, Max
  <2> QED
    BY <2>1, <2>2, <2>3
<1>2. ASSUME n <= 0  PROVE PerPage(n, 2, 3) \in 1..3
  BY <1>2 DEF PerPage
<1>3. ASSUME n > 0  PROVE PerPage(n, 2, 3) \in 1..3
  <2> DEFINE P(x) == x \in {n, 3} /\ \A y \in {n, 3} : x <= y
  <2>1. P(n) \/ P(3)
    OBVIOUS
  <2>2. \A x : P(x) => x \in 1..3
    BY <1>3
  <2>3. PerPage(n, 2, 3) = CHOOSE x \in {n, 3} : \A y \in {n, 3} : x <= y
    BY <1>3 DEF PerPage, Min
  <2>4. P(CHOOSE x : P(x))
    BY <2>1
  <2> QED
    BY <2>2, <2>3, <2>4
<1> QED
  BY <1>1, <1>2, <1>3

LEMMA WalkInitInv == ListingInit => WalkInv
<1> SUFFICES ASSUME ListingInit PROVE WalkInv
  OBVIOUS
<1>1. PICK stock \in Stocks : there = stock.there
  BY DEF ListingInit
<1>2. there \subseteq Entries /\ IsFiniteSet(there) /\ \A e \in there : e.rank \in Int
  BY <1>1, ListingAssumption, FS_Subset
<1>3. walk = NoWalk /\ NoWalk.at = "none"
  BY DEF ListingInit, NoWalk
<1> QED
  BY <1>2, <1>3 DEF WalkInv, ListTypes

LEMMA AskForInv ==
  ASSUME WalkInv, NEW visitor \in Visitors, NEW q \in Filters, NEW n \in PerPages,
         AskFor(visitor, q, n)
  PROVE  WalkInv'
<1> DEFINE now == ListNow(there, starred, q, visitor)
           w == [at |-> "ask", visitor |-> visitor, q |-> q, page |-> PageNumber(0), perPage |-> PerPage(n, 2, 3),
                 seen |-> {}, loaded |-> NothingLoaded, count |-> 0, found |-> {}, done |-> {},
                 steady |-> now, shifted |-> FALSE, torn |-> {}]
<1>1. walk' = w /\ there' = there /\ starred' = starred
  BY DEF AskFor
<1>2. PageNumber(0) = 1 /\ PerPage(n, 2, 3) \in 1..3
  BY FirstPage, ListingAssumption
<1>3. IsWalk(w)
  BY <1>2 DEF IsWalk
<1>4. IsFiniteSet(now)
  BY MatchingIn, FS_Subset DEF ListNow, WalkInv, ListTypes
<1>5. \A e : Lower(now, e) \in Nat
  BY <1>4, LowerGrows
<1>6. /\ Now(w, there, starred) = now /\ InMind(w, there, starred) = now
      /\ w.page = 1 /\ w.perPage \in 1..3 /\ w.count = 0 /\ w.done = {} /\ w.steady = now
      /\ w.at = "ask"
  BY <1>2 DEF Now, InMind
<1> HIDE DEF w, now
<1>7. \A e : Lower(now, e) >= (w.page - 1) * w.perPage
  BY <1>5, <1>6
<1>8. WalkGoesOn(w, there, starred)
  BY <1>6, <1>7 DEF WalkGoesOn, PagesKnown
<1> QED
  BY <1>1, <1>3, <1>6, <1>8 DEF WalkInv, ListTypes

\* A step of the request lets the database alone.
LEMMA RequestStep ==
  ASSUME WalkInv, NEW w, walk' = w, IsWalk(w), UNCHANGED <<there, starred>>,
         w.at \in {"ask", "query"} => WalkGoesOn(w, there, starred),
         w.at = "end" => w.shifted \/ w.steady \ w.torn \subseteq w.seen
  PROVE  WalkInv'
BY DEF WalkInv, ListTypes

LEMMA AtWork ==
  ASSUME WalkInv, walk.at \in {"ask", "query"}
  PROVE  /\ IsWalk(walk) /\ WalkGoesOn(walk, there, starred)
         /\ IsFiniteSet(AtHand(walk, there)) /\ IsFiniteSet(Now(walk, there, starred))
         /\ \A e \in walk.steady :
              e \in there /\ e.list = walk.q.list /\ (walk.q.list \notin Whole => e.rank \in Int)
<1>1. IsWalk(walk) /\ WalkGoesOn(walk, there, starred)
  BY DEF WalkInv, ListTypes, NoWalk
<1>2. IsFiniteSet(there)
  BY DEF WalkInv, ListTypes
<1>3. AtHand(walk, there) \subseteq there /\ Now(walk, there, starred) \subseteq there
  BY MatchingIn DEF AtHand, Now, ListNow
<1>4. IsFiniteSet(AtHand(walk, there)) /\ IsFiniteSet(Now(walk, there, starred))
  BY <1>2, <1>3, FS_Subset
<1>5. \A e \in Now(walk, there, starred) : e.list = walk.q.list
  BY MatchingIn DEF Now, ListNow
<1>6. walk.steady \subseteq Now(walk, there, starred)
  BY <1>1 DEF WalkGoesOn
<1>7. \A e \in there : e.list \notin Whole => e.rank \in Int
  BY DEF WalkInv, ListTypes
<1> QED
  BY <1>1, <1>3, <1>4, <1>5, <1>6, <1>7

LEMMA LookUpInv ==
  ASSUME WalkInv, LookUp
  PROVE  WalkInv'
<1> DEFINE empty == walk.q.list = "events" /\ walk.q.starred /\ starred = {}
           loaded == Loaded(there, starred, walk.q, walk.visitor)
           done == IF empty THEN {"count", "find"} ELSE Begin(walk.q)
<1>1. walk.at = "ask" /\ there' = there /\ starred' = starred
  BY DEF LookUp
<1>2. IsWalk(walk) /\ WalkGoesOn(walk, there, starred)
  BY <1>1, AtWork
<1>3. CASE Refused(walk.q, walk.visitor)
  <2>1. PICK w : w = [walk EXCEPT !.at = "refused"]
    OBVIOUS
  <2>2. walk' = w
    BY <1>3, <2>1 DEF LookUp
  <2>3. IsWalk(w) /\ w.at = "refused"
    BY <1>2, <2>1 DEF IsWalk
  <2> QED
    BY <1>1, <2>2, <2>3, RequestStep
<1>4. CASE ~Refused(walk.q, walk.visitor)
  <2>1. PICK w : w = [walk EXCEPT !.at = "query", !.loaded = loaded, !.done = done]
    OBVIOUS
  <2>2. walk' = w
    BY <1>4, <2>1 DEF LookUp
  <2>3. ASSUME empty PROVE walk.steady = {} /\ walk.q.list \notin Whole
    <3>1. Now(walk, there, starred) = {}
      BY <2>3 DEF Now, ListNow, Matching, EventMatches, Loaded
    <3> QED
      BY <1>2, <2>3, <3>1 DEF WalkGoesOn, Whole
  <2>5. /\ done \subseteq {"count", "find"}
        /\ walk.q.list \in Whole => done = {"count"}
        /\ walk.q.list \notin Whole => done = {} \/ (walk.steady = {} /\ done = {"count", "find"})
    <3>1. CASE empty
      <4>1. done = {"count", "find"}
        BY <3>1
      <4> HIDE DEF done
      <4> QED
        BY <2>3, <3>1, <4>1
    <3>2. CASE ~empty
      <4>1. done = Begin(walk.q)
        BY <3>2
      <4> HIDE DEF done, empty
      <4> QED
        BY <4>1 DEF Begin
    <3> QED
      BY <3>1, <3>2
  <2> HIDE DEF done, loaded, empty
  <2>4. /\ IsWalk(w) /\ w.at = "query" /\ w.loaded = loaded /\ w.done = done
        /\ w.q = walk.q /\ w.visitor = walk.visitor /\ w.page = walk.page /\ w.perPage = walk.perPage
        /\ w.seen = walk.seen /\ w.count = walk.count /\ w.found = walk.found /\ w.steady = walk.steady
        /\ w.torn = walk.torn /\ (w.shifted <=> walk.shifted)
    BY <1>2, <2>1, <2>5 DEF IsWalk
  <2>6. /\ Now(w, there, starred) = Now(walk, there, starred)
        /\ InMind(w, there, starred) = Now(walk, there, starred)
        /\ InMind(walk, there, starred) = Now(walk, there, starred)
    BY <1>1, <2>4 DEF Now, InMind, AtHand, ListNow, loaded
  <2>7. WalkGoesOn(w, there, starred)
    <3>1. CASE walk.q.list \in Whole
      BY <1>2, <2>4, <2>5, <2>6, <3>1 DEF WalkGoesOn
    <3>2. CASE walk.q.list \notin Whole
      <4>1. walk.shifted \/ PagesKnown(walk, there, starred)
        BY <1>2, <3>2 DEF WalkGoesOn
      <4>2. done = {} \/ (walk.steady = {} /\ done = {"count", "find"})
        BY <2>5, <3>2
      <4>3. w.shifted \/ PagesKnown(w, there, starred)
        BY <1>2, <2>4, <2>6, <4>1, <4>2 DEF WalkGoesOn, PagesKnown, Missing, MissingStill
      <4> QED
        BY <1>2, <2>4, <2>6, <3>2, <4>3 DEF WalkGoesOn
    <3> QED
      BY <3>1, <3>2
  <2> QED
    BY <1>1, <2>2, <2>4, <2>7, RequestStep
<1> QED
  BY <1>3, <1>4

LEMMA CountEntriesInv ==
  ASSUME WalkInv, CountEntries
  PROVE  WalkInv'
<1> DEFINE hand == AtHand(walk, there)
<1>1. walk.at = "query" /\ "count" \notin walk.done /\ there' = there /\ starred' = starred
  BY DEF CountEntries
<1>2. /\ IsWalk(walk) /\ WalkGoesOn(walk, there, starred) /\ IsFiniteSet(hand)
      /\ IsFiniteSet(Now(walk, there, starred))
      /\ \A e \in walk.steady : e.list = walk.q.list /\ (walk.q.list \notin Whole => e.rank \in Int)
  BY <1>1, AtWork
<1>3. walk.q.list \notin Whole
  BY <1>1, <1>2 DEF WalkGoesOn
<1>4. Cardinality(hand) \in Nat
  BY <1>2, FS_CardinalityType
<1>5. PICK w : w = [walk EXCEPT !.count = Cardinality(hand), !.done = walk.done \cup {"count"}]
  OBVIOUS
<1>6. walk' = w
  BY <1>5 DEF CountEntries, Queried, AtHand
<1> HIDE DEF hand
<1>7. /\ IsWalk(w) /\ w.at = "query" /\ w.loaded = walk.loaded /\ w.done = walk.done \cup {"count"}
      /\ w.q = walk.q /\ w.visitor = walk.visitor /\ w.page = walk.page /\ w.perPage = walk.perPage
      /\ w.seen = walk.seen /\ w.count = Cardinality(hand) /\ w.found = walk.found /\ w.steady = walk.steady
      /\ w.torn = walk.torn /\ (w.shifted <=> walk.shifted)
  BY <1>1, <1>2, <1>4, <1>5 DEF IsWalk
<1>8. /\ Now(w, there, starred) = Now(walk, there, starred)
      /\ InMind(w, there, starred) = hand /\ InMind(walk, there, starred) = hand
  BY <1>1, <1>7 DEF Now, InMind, AtHand, hand
<1>9. ASSUME ~walk.shifted  PROVE PagesKnown(w, there, starred)
  <2>1. PagesKnown(walk, there, starred)
    BY <1>2, <1>3, <1>9 DEF WalkGoesOn
  <2>2. /\ w.done = {"count"} \/ (w.done = {"count", "find"} /\ "find" \in walk.done)
        /\ Missing(w) = Missing(walk) /\ MissingStill(w) = MissingStill(walk)
    <3>1. walk.done = {} \/ walk.done = {"find"}
      BY <1>1, <1>2 DEF IsWalk
    <3>2. w.done = {"count"} \/ (w.done = {"count", "find"} /\ "find" \in walk.done)
      <4>1. CASE walk.done = {}
        <5>1. w.done = {} \cup {"count"}
          BY <1>7, <4>1
        <5> QED
          BY <5>1
      <4>2. CASE walk.done = {"find"}
        <5>1. w.done = {"find"} \cup {"count"}
          BY <1>7, <4>2
        <5> QED
          BY <4>2, <5>1
      <4> QED
        BY <3>1, <4>1, <4>2
    <3> QED
      BY <1>7, <3>2 DEF Missing, MissingStill
  <2>3. ASSUME "find" \in walk.done, NEW e \in MissingStill(walk)
        PROVE  Cardinality(hand) > walk.page * walk.perPage
    <3>1. Lower(hand, e) >= walk.page * walk.perPage /\ e \in hand /\ e \in walk.steady
      BY <1>8, <2>1, <2>3 DEF PagesKnown, MissingStill
    <3>2. Lower(hand, e) < Cardinality(hand)
      BY <1>2, <1>3, <3>1, LowerInList
    <3>3. Lower(hand, e) \in Nat /\ walk.page * walk.perPage \in Nat
      BY <1>2, LowerGrows DEF IsWalk
    <3> QED
      BY <1>4, <3>1, <3>2, <3>3
  <2> QED
    BY <1>7, <1>8, <2>1, <2>2, <2>3 DEF PagesKnown
<1>10. WalkGoesOn(w, there, starred)
  BY <1>2, <1>3, <1>7, <1>8, <1>9 DEF WalkGoesOn
<1> QED
  BY <1>1, <1>6, <1>7, <1>10, RequestStep

LEMMA FindEntriesInv ==
  ASSUME WalkInv, FindEntries
  PROVE  WalkInv'
<1> DEFINE hand == AtHand(walk, there)
<1>1. walk.at = "query" /\ "find" \notin walk.done /\ there' = there /\ starred' = starred
  BY DEF FindEntries
<1>2. /\ IsWalk(walk) /\ WalkGoesOn(walk, there, starred) /\ IsFiniteSet(hand)
      /\ \A e \in walk.steady : e \in there /\ e.list = walk.q.list
  BY <1>1, AtWork
<1>14. PICK order \in Orders(hand) :
         walk' = [walk EXCEPT !.found = PageFound(walk.q, hand, order, walk.page, walk.perPage),
                              !.torn = walk.torn \cup Torn(walk.q, hand, order, walk.page, walk.perPage),
                              !.done = walk.done \cup {"find"}]
  BY DEF FindEntries, Queried, AtHand
<1> DEFINE found == PageFound(walk.q, hand, order, walk.page, walk.perPage)
           torn == Torn(walk.q, hand, order, walk.page, walk.perPage)
<1> HIDE DEF hand, found, torn
<1>3. PICK w : w = [walk EXCEPT !.found = found, !.torn = walk.torn \cup torn, !.done = walk.done \cup {"find"}]
  OBVIOUS
<1>4. walk' = w
  BY <1>3, <1>14 DEF found, torn
<1>5. /\ IsWalk(w) /\ w.at = "query" /\ w.loaded = walk.loaded /\ w.done = walk.done \cup {"find"}
      /\ w.q = walk.q /\ w.visitor = walk.visitor /\ w.page = walk.page /\ w.perPage = walk.perPage
      /\ w.seen = walk.seen /\ w.count = walk.count /\ w.found = found /\ w.steady = walk.steady
      /\ w.torn = walk.torn \cup torn /\ (w.shifted <=> walk.shifted)
  BY <1>1, <1>2, <1>3 DEF IsWalk
<1>6. /\ Now(w, there, starred) = Now(walk, there, starred)
      /\ InMind(w, there, starred) = hand /\ InMind(walk, there, starred) = hand
  BY <1>1, <1>5 DEF Now, InMind, AtHand, hand
<1>7. CASE walk.q.list \in Whole
  <2>1. walk.steady \subseteq hand
    <3>1. \A e \in walk.steady : e \in Now(walk, there, starred)
      BY <1>2 DEF WalkGoesOn
    <3>2. walk.q.list = "labels" \/ walk.q.list = "users"
      BY <1>7 DEF Whole
    <3> QED
      BY <3>1, <3>2 DEF Now, ListNow, hand, AtHand, Matching
  <2>2. found = hand
    BY <1>7 DEF found, PageFound
  <2>3. WalkGoesOn(w, there, starred)
    BY <1>1, <1>2, <1>5, <1>6, <1>7, <2>1, <2>2 DEF WalkGoesOn
  <2> QED
    BY <1>1, <1>4, <1>5, <2>3, RequestStep
<1>8. CASE walk.q.list \notin Whole
  <2>1. found = OnPage(hand, order, walk.page, walk.perPage)
    BY <1>8 DEF found, PageFound
  <2>2. ASSUME ~walk.shifted  PROVE PagesKnown(w, there, starred)
    <3>1. PagesKnown(walk, there, starred)
      BY <1>2, <1>8, <2>2 DEF WalkGoesOn
    <3>2. /\ w.done = {"find"} \/ (w.done = {"count", "find"} /\ walk.done = {"count"})
          /\ Missing(w) \subseteq Missing(walk) /\ MissingStill(w) = Missing(walk) \ (found \cup torn)
      <4>1. walk.done = {} \/ walk.done = {"count"}
        BY <1>1, <1>2 DEF IsWalk
      <4>2. w.done = {"find"} \/ (w.done = {"count", "find"} /\ walk.done = {"count"})
        <5>1. CASE walk.done = {}
          <6>1. w.done = {} \cup {"find"}
            BY <1>5, <5>1
          <6> QED
            BY <6>1
        <5>2. CASE walk.done = {"count"}
          <6>1. w.done = {"count"} \cup {"find"}
            BY <1>5, <5>2
          <6> QED
            BY <5>2, <6>1
        <5> QED
          BY <4>1, <5>1, <5>2
      <4>3. MissingStill(w) = Missing(walk) \ (found \cup torn) /\ Missing(w) \subseteq Missing(walk)
        BY <1>5 DEF Missing, MissingStill
      <4> QED
        BY <4>2, <4>3
    <3>3. ASSUME NEW e \in Missing(walk) \ (found \cup torn)
          PROVE  /\ Lower(hand, e) >= walk.page * walk.perPage
                 /\ walk.done = {"count"} => walk.count > walk.page * walk.perPage
      <4>1. e \in hand /\ e \in walk.steady /\ Lower(hand, e) >= (walk.page - 1) * walk.perPage
        BY <1>6, <3>1, <3>3 DEF PagesKnown, Missing
      <4>2. PICK d \in hand : d.rank = e.rank /\ Place(hand, order, d) = Lower(hand, e)
        BY <1>2, <4>1, FirstOfEquals
      <4>3. /\ Lower(hand, e) \in Nat /\ Place(hand, order, e) \in Nat /\ Lower(hand, e) <= Place(hand, order, e)
            /\ Cardinality(hand) \in Nat
        BY <1>2, <4>1, FirstOfEquals, FS_CardinalityType
      <4>9. walk.page * walk.perPage \in Nat /\ (walk.page - 1) * walk.perPage \in Nat
        BY <1>2 DEF IsWalk
      <4>8. Place(hand, order, e) >= walk.page * walk.perPage
        <5>1. ~(Place(hand, order, e) >= (walk.page - 1) * walk.perPage
                /\ Place(hand, order, e) < walk.page * walk.perPage)
          BY <2>1, <3>3, <4>1 DEF OnPage
        <5> QED
          BY <4>1, <4>3, <4>9, <5>1
      <4>4. Lower(hand, e) >= walk.page * walk.perPage
        BY <1>8, <3>3, <4>1, <4>2, <4>8 DEF torn, Torn
      <4>5. e.rank \in Int
        BY <1>1, <1>8, <4>1, AtWork
      <4>6. Lower(hand, e) < Cardinality(hand)
        BY <1>2, <4>1, <4>5, LowerInList
      <4>7. walk.done = {"count"} => walk.count = Cardinality(hand)
        BY <1>6, <3>1 DEF PagesKnown
      <4> QED
        BY <4>3, <4>4, <4>6, <4>7, <4>9
    <3> QED
      BY <1>5, <1>6, <3>1, <3>2, <3>3 DEF PagesKnown
  <2>3. WalkGoesOn(w, there, starred)
    BY <1>2, <1>5, <1>6, <1>8, <2>2 DEF WalkGoesOn
  <2> QED
    BY <1>1, <1>4, <1>5, <2>3, RequestStep
<1> QED
  BY <1>7, <1>8

LEMMA FollowNextInv ==
  ASSUME WalkInv, FollowNext
  PROVE  WalkInv'
<1> DEFINE next == NextPages(walk.page, walk.perPage, walk.count)
           now == Now(walk, there, starred)
           hand == AtHand(walk, there)
<1>1. walk.at = "query" /\ walk.done = {"count", "find"} /\ there' = there /\ starred' = starred
  BY DEF FollowNext
<1>2. /\ IsWalk(walk) /\ WalkGoesOn(walk, there, starred)
      /\ IsFiniteSet(hand) /\ IsFiniteSet(now)
  BY <1>1, AtWork
<1>3. /\ next \subseteq {walk.page + 1} /\ (walk.count > walk.page * walk.perPage => next # {})
      /\ walk.count = 0 => next = {}
  BY <1>2, NextPagesAre DEF IsWalk
<1>4. PICK at \in {"ask", "end"}, page \in Nat \ {0} :
        /\ at = "end" <=> next = {}
        /\ at = "ask" => page = walk.page + 1
        /\ walk' = [walk EXCEPT !.seen = walk.seen \cup walk.found, !.count = 0, !.found = {}, !.done = {},
                                !.loaded = NothingLoaded, !.at = at, !.page = page]
  <2> DEFINE read == [walk EXCEPT !.seen = walk.seen \cup walk.found, !.count = 0, !.found = {}, !.done = {},
                            !.loaded = NothingLoaded]
             W(a, p) == [walk EXCEPT !.seen = walk.seen \cup walk.found, !.count = 0, !.found = {}, !.done = {},
                                !.loaded = NothingLoaded, !.at = a, !.page = p]
  <2>1. CASE next = {}
    <3>1. walk' = [read EXCEPT !.at = "end"]
      BY <2>1 DEF FollowNext
    <3>2. walk' = W("end", walk.page)
      BY <1>2, <3>1 DEF IsWalk
    <3> QED
      BY <1>2, <2>1, <3>2 DEF IsWalk
  <2>2. CASE next # {}
    <3>1. PICK page \in next : walk' = [read EXCEPT !.at = "ask", !.page = page]
      BY <2>2 DEF FollowNext
    <3>2. walk' = W("ask", page)
      BY <1>2, <3>1 DEF IsWalk
    <3>3. page = walk.page + 1 /\ page \in Nat \ {0}
      BY <1>2, <1>3 DEF IsWalk
    <3> QED
      BY <2>2, <3>2, <3>3
  <2> QED
    BY <2>1, <2>2
<1>5. PICK w : w = [walk EXCEPT !.seen = walk.seen \cup walk.found, !.count = 0, !.found = {}, !.done = {},
                                !.loaded = NothingLoaded, !.at = at, !.page = page]
  OBVIOUS
<1>6. /\ IsWalk(w) /\ w.at = at /\ w.done = {} /\ w.page = page
      /\ w.q = walk.q /\ w.visitor = walk.visitor /\ w.perPage = walk.perPage
      /\ w.seen = walk.seen \cup walk.found /\ w.count = 0 /\ w.found = {} /\ w.steady = walk.steady
      /\ w.torn = walk.torn /\ (w.shifted <=> walk.shifted)
  BY <1>2, <1>4, <1>5 DEF IsWalk
<1> HIDE DEF next, now, hand
<1>7. Now(w, there, starred) = now /\ InMind(walk, there, starred) = hand
  BY <1>1, <1>6 DEF Now, InMind, now, hand
<1>8. CASE walk.q.list \in Whole
  <2>1. walk.count = 0 /\ walk.steady \subseteq walk.found
    BY <1>1, <1>2, <1>8 DEF WalkGoesOn
  <2>2. at = "end"
    BY <1>3, <1>4, <2>1
  <2> QED
    BY <1>1, <1>4, <1>5, <1>6, <2>1, <2>2, RequestStep
<1>9. CASE walk.q.list \notin Whole
  <2>1. ASSUME ~walk.shifted
        PROVE  /\ hand \subseteq now /\ walk.steady \subseteq now
               /\ \A e \in MissingStill(walk) : /\ walk.count > walk.page * walk.perPage
                                                /\ Lower(hand, e) >= walk.page * walk.perPage
    <3>1. PagesKnown(walk, there, starred)
      BY <1>2, <1>9, <2>1 DEF WalkGoesOn
    <3> QED
      BY <1>1, <1>2, <1>7, <3>1 DEF PagesKnown, WalkGoesOn, now
  <2>2. Missing(w) = MissingStill(walk)
    BY <1>6 DEF Missing, MissingStill
  <2>3. CASE at = "end"
    <3>1. ~walk.shifted => MissingStill(walk) = {}
      BY <1>3, <1>4, <2>1, <2>3
    <3>2. w.shifted \/ w.steady \ w.torn \subseteq w.seen
      BY <1>6, <2>2, <3>1 DEF Missing
    <3> QED
      BY <1>1, <1>4, <1>5, <1>6, <2>3, <3>2, RequestStep
  <2>4. CASE at = "ask"
    <3>1. InMind(w, there, starred) = now
      BY <1>6, <1>7, <2>4 DEF InMind
    <3>2. page - 1 = walk.page
      BY <1>2, <1>4, <2>4 DEF IsWalk
    <3>3. ASSUME ~walk.shifted, NEW e \in Missing(w)
          PROVE  Lower(now, e) >= (w.page - 1) * w.perPage
      <4>1. Lower(hand, e) >= walk.page * walk.perPage
        BY <2>1, <2>2, <3>3
      <4>2. /\ Lower(hand, e) \in Nat /\ Lower(now, e) \in Nat /\ Lower(hand, e) <= Lower(now, e)
            /\ walk.page * walk.perPage \in Nat
        BY <1>2, <2>1, <3>3, LowerGrows DEF IsWalk
      <4>3. (w.page - 1) * w.perPage = walk.page * walk.perPage
        BY <1>6, <3>2
      <4> QED
        BY <4>1, <4>2, <4>3
    <3>4. w.shifted \/ PagesKnown(w, there, starred)
      BY <1>6, <1>7, <2>1, <3>1, <3>3 DEF PagesKnown
    <3>5. WalkGoesOn(w, there, starred)
      BY <1>2, <1>6, <1>7, <1>9, <3>4 DEF WalkGoesOn, now
    <3> QED
      BY <1>1, <1>4, <1>5, <1>6, <2>4, <3>5, RequestStep
  <2> QED
    BY <2>3, <2>4
<1> QED
  BY <1>8, <1>9
\* The database changes.  The list as the request has it at hand loses nothing, as long as the
\* walk is not shifted.
LEMMA ChangeInv ==
  ASSUME WalkInv, NEW base, NEW stars, Change(base, stars), IsFiniteSet(base),
         \A e \in base : e.list \notin Whole => e.rank \in Int
  PROVE  WalkInv'
<1> DEFINE before == Now(walk, there, starred)
           after == Now(walk, base, stars)
           old == AtHand(walk, there)
           new == AtHand(walk, base)
           shifts == /\ walk.q.list \notin Whole
                     /\ \/ before \ after # {}
                        \/ walk.done = {"count"} /\ new \ old # {}
                        \/ walk.at = "query" /\ new \ after # {}
<1>1. walk.at \in {"ask", "query"} /\ there' = base /\ starred' = stars
  BY DEF Change
<1>2. IsWalk(walk) /\ WalkGoesOn(walk, there, starred)
  BY <1>1, AtWork
<1>3. walk' = [walk EXCEPT !.steady = walk.steady \cap after, !.shifted = walk.shifted \/ shifts]
  BY DEF Change, Now, Queried, AtHand
<1> HIDE DEF before, after, old, new, shifts
<1>4. PICK w : w = [walk EXCEPT !.steady = walk.steady \cap after, !.shifted = walk.shifted \/ shifts]
  OBVIOUS
<1>5. PICK b \in BOOLEAN : b <=> (walk.shifted \/ shifts)
  OBVIOUS
<1>6. (walk.shifted \/ shifts) \in BOOLEAN
  OBVIOUS
<1>7. /\ w.at = walk.at /\ w.loaded = walk.loaded /\ w.done = walk.done /\ w.count = walk.count
      /\ w.q = walk.q /\ w.visitor = walk.visitor /\ w.page = walk.page /\ w.perPage = walk.perPage
      /\ w.seen = walk.seen /\ w.found = walk.found /\ w.steady = walk.steady \cap after
      /\ w.torn = walk.torn
  BY <1>2, <1>4 DEF IsWalk
<1>8. w.shifted <=> (walk.shifted \/ shifts)
  BY <1>2, <1>4 DEF IsWalk
<1>9. IsWalk(w)
  BY <1>2, <1>4, <1>6, <1>7 DEF IsWalk
<1>10. /\ Now(w, base, stars) = after /\ InMind(w, base, stars) = IF walk.at = "query" THEN new ELSE after
       /\ InMind(walk, there, starred) = IF walk.at = "query" THEN old ELSE before
  BY <1>1, <1>7 DEF Now, InMind, AtHand, after, new, old, before
<1>11. CASE walk.q.list \in Whole
  <2>1. WalkGoesOn(w, base, stars)
    BY <1>2, <1>7, <1>10, <1>11 DEF WalkGoesOn
  <2> QED
    BY <1>1, <1>3, <1>4, <1>7, <1>9, <2>1 DEF WalkInv, ListTypes
<1>12. CASE walk.q.list \notin Whole
  <2>1. ASSUME ~walk.shifted, ~shifts  PROVE PagesKnown(w, base, stars)
    <3>1. PagesKnown(walk, there, starred)
      BY <1>2, <1>12, <2>1 DEF WalkGoesOn
    <3>2. /\ before \subseteq after /\ (walk.done = {"count"} => new \subseteq old)
          /\ walk.at = "query" => new \subseteq after
      BY <1>12, <2>1 DEF shifts
    <3>3. ASSUME NEW e \in old, e \in after  PROVE e \in new
      BY <1>2, <3>3, Stays DEF old, after, new, AtHand, Now, ListNow, IsWalk
    <3>4. InMind(walk, there, starred) \subseteq before /\ walk.steady \subseteq InMind(walk, there, starred)
      BY <3>1 DEF PagesKnown, before
    <3>5. InMind(walk, there, starred) \subseteq InMind(w, base, stars)
      BY <1>10, <3>2, <3>3, <3>4
    <3>6. IsFiniteSet(InMind(w, base, stars))
      <4>1. new \subseteq base /\ after \subseteq base
        BY MatchingIn DEF new, after, AtHand, Now, ListNow
      <4> QED
        BY <1>10, <4>1, FS_Subset
    <3>7. ASSUME NEW e, NEW n \in Nat, Lower(InMind(walk, there, starred), e) >= n
          PROVE  Lower(InMind(w, base, stars), e) >= n
      BY <3>5, <3>6, <3>7, LowerGrows
    <3>8. Missing(w) \subseteq Missing(walk) /\ MissingStill(w) \subseteq MissingStill(walk)
      BY <1>7 DEF Missing, MissingStill
    <3>9. walk.page * walk.perPage \in Nat /\ (walk.page - 1) * walk.perPage \in Nat
      BY <1>2 DEF IsWalk
    <3>10. walk.done = {"count"} => InMind(w, base, stars) = InMind(walk, there, starred)
      BY <1>2, <1>10, <3>2, <3>5, <1>1 DEF IsWalk
    <3>11. /\ InMind(w, base, stars) \subseteq Now(w, base, stars) /\ w.steady \subseteq InMind(w, base, stars)
      BY <1>7, <1>10, <3>2, <3>4, <3>5
    <3>12. \A e \in Missing(w) : Lower(InMind(w, base, stars), e) >= (w.page - 1) * w.perPage
      BY <1>7, <3>1, <3>7, <3>8, <3>9 DEF PagesKnown
    <3>13. "find" \in w.done => \A e \in MissingStill(w) : Lower(InMind(w, base, stars), e) >= w.page * w.perPage
      BY <1>7, <3>1, <3>7, <3>8, <3>9 DEF PagesKnown
    <3>14. w.done = {"count"} => w.count = Cardinality(InMind(w, base, stars))
      BY <1>7, <3>1, <3>10 DEF PagesKnown
    <3>15. w.done = {"count", "find"} => \A e \in MissingStill(w) : w.count > w.page * w.perPage
      BY <1>7, <3>1, <3>8 DEF PagesKnown
    <3> QED
      BY <3>11, <3>12, <3>13, <3>14, <3>15 DEF PagesKnown
  <2>2. WalkGoesOn(w, base, stars)
    BY <1>2, <1>7, <1>8, <1>10, <1>12, <2>1 DEF WalkGoesOn
  <2> QED
    BY <1>1, <1>3, <1>4, <1>7, <1>9, <2>2 DEF WalkInv, ListTypes
<1> QED
  BY <1>11, <1>12

LEMMA ChangesInv ==
  ASSUME WalkInv, NEW e,
         \/ e \in Entries /\ (LogEvent(e) \/ AddEntry(e) \/ RemoveEntry(e) \/ ToggleStar(e) \/ CreateLabel(e))
         \/ e \in there /\ (UpdateLabel(e) \/ DeleteLabel(e))
  PROVE  WalkInv'
<1>1. IsFiniteSet(there) /\ \A d \in there : d.list \notin Whole => d.rank \in Int
  BY DEF WalkInv, ListTypes
<1>2. ASSUME NEW x  PROVE IsFiniteSet(there \cup {x}) /\ IsFiniteSet(there \ {x})
                          /\ IsFiniteSet((there \ {e}) \cup {x})
  BY <1>1, FS_AddElement, FS_RemoveElement
<1>3. e \in Entries => e.rank \in Int
  BY ListingAssumption
<1>4. \A active : Label(e, active).list \in Whole
  BY DEF Label, Whole
<1>5. CASE e \in Entries /\ (LogEvent(e) \/ AddEntry(e))
  <2>1. Change(there \cup {e}, starred)
    BY <1>5 DEF LogEvent, AddEntry
  <2> QED
    BY <1>1, <1>2, <1>3, <1>5, <2>1, ChangeInv
<1>6. CASE RemoveEntry(e) \/ DeleteLabel(e)
  <2>1. Change(there \ {e}, starred)
    BY <1>6 DEF RemoveEntry, DeleteLabel
  <2> QED
    BY <1>1, <1>2, <2>1, ChangeInv
<1>7. CASE ToggleStar(e)
  <2>1. PICK stars : Change(there, stars)
    BY <1>7 DEF ToggleStar
  <2> QED
    BY <1>1, <2>1, ChangeInv
<1>8. CASE CreateLabel(e)
  <2>1. Change(there \cup {Label(e, FALSE)}, starred)
    BY <1>8 DEF CreateLabel
  <2> QED
    BY <1>1, <1>2, <1>4, <2>1, ChangeInv
<1>9. CASE UpdateLabel(e)
  <2>1. PICK active : Change((there \ {e}) \cup {Label(e, active)}, starred)
    BY <1>9 DEF UpdateLabel
  <2> QED
    BY <1>1, <1>2, <1>4, <2>1, ChangeInv
<1> QED
  BY <1>5, <1>6, <1>7, <1>8, <1>9

LEMMA RerankInv ==
  ASSUME WalkInv, NEW e \in Entries, NEW f \in Entries, Rerank(e, f)
  PROVE  WalkInv'
<1>1. IsFiniteSet(there) /\ \A d \in there : d.list \notin Whole => d.rank \in Int
  BY DEF WalkInv, ListTypes
<1>2. IsFiniteSet((there \ {e}) \cup {f}) /\ f.rank \in Int
  BY <1>1, FS_AddElement, FS_RemoveElement, ListingAssumption
<1>3. Change((there \ {e}) \cup {f}, starred)
  BY DEF Rerank
<1> QED
  BY <1>1, <1>2, <1>3, ChangeInv

LEMMA WalkStepInv == WalkInv /\ [ListingStep]_listingVars => WalkInv'
<1> SUFFICES ASSUME WalkInv, [ListingStep]_listingVars PROVE WalkInv'
  OBVIOUS
<1>1. CASE UNCHANGED listingVars
  BY <1>1 DEF listingVars, WalkInv, ListTypes
<1>2. CASE \E visitor \in Visitors, q \in Filters, n \in PerPages : AskFor(visitor, q, n)
  BY <1>2, AskForInv
<1>3. CASE LookUp \/ CountEntries \/ FindEntries \/ FollowNext
  BY <1>3, LookUpInv, CountEntriesInv, FindEntriesInv, FollowNextInv
<1>4. CASE \/ \E e \in Entries : LogEvent(e) \/ AddEntry(e) \/ RemoveEntry(e) \/ ToggleStar(e) \/ CreateLabel(e)
           \/ \E l \in there : UpdateLabel(l) \/ DeleteLabel(l)
  BY <1>4, ChangesInv
<1>5. CASE \E e, f \in Entries : Rerank(e, f)
  BY <1>5, RerankInv
<1> QED
  BY <1>1, <1>2, <1>3, <1>4, <1>5 DEF ListingStep

\* Whatever comes, goes and changes while a reader goes from page to page, in lists of any
\* length: at the end he has seen what was in the list all the time, with the exceptions of
\* WalkSeesAll (api.ts:164-187).
THEOREM WalksSeeAll == ListingInit /\ [][ListingStep]_listingVars => []WalkSeesAll
<1>1. WalkInv => WalkSeesAll
  BY DEF WalkInv, WalkSeesAll
<1> QED
  BY <1>1, WalkInitInv, WalkStepInv, PTL

-----------------------------------------------------------------------------
(* The sum of a set of numbers, however the fold takes it apart, is one.   *)

Pick(s) == CHOOSE x \in s : TRUE

LEMMA Picked == \A s : s # {} => Pick(s) \in s
BY DEF Pick

SumsUp(g, W, S) ==
  g = [s \in SUBSET S |-> IF s = {} THEN 0 ELSE W[Pick(s)] + g[s \ {Pick(s)}]]

LEMMA SumsAgree ==
  ASSUME NEW S, IsFiniteSet(S), NEW T, NEW W, NEW g, NEW h, SumsUp(g, W, S), SumsUp(h, W, T)
  PROVE  \A s \in (SUBSET S) \cap (SUBSET T) : g[s] = h[s]
<1> DEFINE bad == {s \in (SUBSET S) \cap (SUBSET T) : g[s] # h[s]}
<1> SUFFICES ASSUME bad # {} PROVE FALSE
  OBVIOUS
<1>1. IsWellFoundedOn(StrictSubsetOrdering(S), SUBSET S)
  BY FS_StrictSubsetOrderingWellFounded, FS_FiniteSubsetsOfFinite
<1>2. PICK s \in bad : \A t \in bad : <<t, s>> \notin StrictSubsetOrdering(S)
  <2>1. bad \subseteq SUBSET S
    OBVIOUS
  <2> HIDE DEF bad
  <2> QED
    BY <1>1, <2>1, WFMin
<1>3. s # {}
  BY <1>2 DEF SumsUp
<1>4. g[s \ {Pick(s)}] = h[s \ {Pick(s)}]
  <2>1. <<s \ {Pick(s)}, s>> \in StrictSubsetOrdering(S)
    BY <1>2, <1>3, Picked DEF StrictSubsetOrdering
  <2> QED
    BY <1>2, <2>1
<1>5. s \in SUBSET S /\ s \in SUBSET T /\ g[s] # h[s]
  BY <1>2
<1>6. g[s] = W[Pick(s)] + g[s \ {Pick(s)}]
  BY <1>3, <1>5 DEF SumsUp
<1>7. h[s] = W[Pick(s)] + h[s \ {Pick(s)}]
  BY <1>3, <1>5 DEF SumsUp
<1> QED
  BY <1>4, <1>5, <1>6, <1>7

LEMMA SumsExist ==
  ASSUME NEW S, IsFiniteSet(S), NEW W
  PROVE  \E g : SumsUp(g, W, S)
<1> DEFINE bad == {s \in SUBSET S : ~\E g : SumsUp(g, W, s)}
<1>0. SUFFICES ASSUME bad # {} PROVE FALSE
  OBVIOUS
<1>1. IsWellFoundedOn(StrictSubsetOrdering(S), SUBSET S)
  BY FS_StrictSubsetOrderingWellFounded, FS_FiniteSubsetsOfFinite
<1>2. PICK u \in bad : \A t \in bad : <<t, u>> \notin StrictSubsetOrdering(S)
  <2>1. bad \subseteq SUBSET S
    OBVIOUS
  <2> HIDE DEF bad
  <2> QED
    BY <1>0, <1>1, <2>1, WFMin
<1> DEFINE part(s) == CHOOSE g : SumsUp(g, W, s)
<1>3. ASSUME NEW s \in SUBSET u, s # u PROVE SumsUp(part(s), W, s) /\ IsFiniteSet(s)
  <2>1. <<s, u>> \in StrictSubsetOrdering(S) /\ s \in SUBSET S
    BY <1>2, <1>3 DEF StrictSubsetOrdering
  <2>2. \E g : SumsUp(g, W, s)
    BY <1>2, <2>1
  <2> QED
    BY <2>1, <2>2, FS_Subset
<1> HIDE DEF part
<1> DEFINE value(s) == IF s = {} THEN 0 ELSE W[Pick(s)] + part(s \ {Pick(s)})[s \ {Pick(s)}]
           all == [s \in SUBSET u |-> value(s)]
<1>4. ASSUME NEW s \in SUBSET u, s # {}
      PROVE  all[s \ {Pick(s)}] = part(s \ {Pick(s)})[s \ {Pick(s)}]
  <2> DEFINE r == s \ {Pick(s)}
  <2>1. r \in SUBSET u /\ r # u /\ all[r] = value(r)
    BY <1>4, Picked
  <2>2. SumsUp(part(r), W, r)
    BY <1>3, <2>1
  <2>3. CASE r = {}
    BY <2>1, <2>2, <2>3 DEF SumsUp
  <2>4. CASE r # {}
    <3> DEFINE q == r \ {Pick(r)}
    <3>1. q \in SUBSET u /\ q # u /\ q \in SUBSET r
      BY <2>1, <2>4, Picked
    <3>2. SumsUp(part(q), W, q) /\ IsFiniteSet(q)
      BY <1>3, <3>1
    <3>3. part(q)[q] = part(r)[q]
      <4> HIDE DEF q, r
      <4>1. q \in (SUBSET q) \cap (SUBSET r)
        BY <3>1
      <4> QED
        BY <2>2, <3>2, <4>1, SumsAgree
    <3>4. part(r)[r] = W[Pick(r)] + part(r)[q]
      BY <2>2, <2>4 DEF SumsUp
    <3> QED
      BY <2>1, <2>4, <3>3, <3>4
  <2> QED
    BY <2>3, <2>4
<1>5. SumsUp(all, W, u)
  BY <1>4 DEF SumsUp
<1> QED
  BY <1>2, <1>5

LEMMA SumsAreNat ==
  ASSUME NEW S, IsFiniteSet(S), NEW W, \A x \in S : W[x] \in Nat, NEW g, SumsUp(g, W, S)
  PROVE  g[S] \in Nat /\ g[{}] = 0
<1> DEFINE bad == {s \in SUBSET S : g[s] \notin Nat}
<1>0. g[{}] = 0
  BY DEF SumsUp
<1> SUFFICES ASSUME bad # {} PROVE FALSE
  BY <1>0
<1>1. IsWellFoundedOn(StrictSubsetOrdering(S), SUBSET S)
  BY FS_StrictSubsetOrderingWellFounded, FS_FiniteSubsetsOfFinite
<1>2. PICK s \in bad : \A t \in bad : <<t, s>> \notin StrictSubsetOrdering(S)
  <2>1. bad \subseteq SUBSET S
    OBVIOUS
  <2> HIDE DEF bad
  <2> QED
    BY <1>1, <2>1, WFMin
<1>3. s # {} /\ s \in SUBSET S /\ g[s] \notin Nat
  BY <1>0, <1>2
<1>4. g[s \ {Pick(s)}] \in Nat
  <2>1. <<s \ {Pick(s)}, s>> \in StrictSubsetOrdering(S) /\ s \ {Pick(s)} \in SUBSET S
    BY <1>3, Picked DEF StrictSubsetOrdering
  <2> QED
    BY <1>2, <2>1
<1>5. g[s] = W[Pick(s)] + g[s \ {Pick(s)}]
  BY <1>3 DEF SumsUp
<1>6. W[Pick(s)] \in Nat
  BY <1>3, Picked
<1> QED
  BY <1>3, <1>4, <1>5, <1>6

LEMMA SizeIsNat ==
  ASSUME BlockAssumption, NEW h \in Seq(Chunks)
  PROVE  Size(h) \in Nat
<1> DEFINE W == [i \in DOMAIN h |-> Bytes[h[i].data]]
           step(g) == [s \in SUBSET DOMAIN h |->
                         IF s = {} THEN 0 ELSE Bytes[h[Pick(s)].data] + g[s \ {Pick(s)}]]
           sum == CHOOSE g : g = step(g)
<1>1. Size(h) = sum[DOMAIN h]
  BY DEF Size, MapThenSumSet, MapThenFoldSet, Pick
<1>2. ASSUME NEW g PROVE g = step(g) <=> SumsUp(g, W, DOMAIN h)
  <2>1. \A s \in SUBSET DOMAIN h : s # {} => W[Pick(s)] = Bytes[h[Pick(s)].data]
    BY Picked
  <2> HIDE DEF W
  <2> QED
    BY <2>1 DEF SumsUp
<1>3. IsFiniteSet(DOMAIN h)
  <2>1. DOMAIN h = 1 .. Len(h) /\ Len(h) \in Int
    OBVIOUS
  <2> QED
    BY <2>1, FS_Interval
<1>4. ASSUME NEW i \in DOMAIN h PROVE W[i] \in Nat
  <2>1. h[i] \in Chunks
    OBVIOUS
  <2>2. h[i].data \in DOMAIN Bytes
    BY <2>1 DEF Chunks
  <2> QED
    BY <2>2 DEF BlockAssumption
<1> HIDE DEF W
<1>5. sum = step(sum)
  <2>1. \E g : g = step(g)
    BY <1>2, <1>3, SumsExist
  <2> HIDE DEF step
  <2> QED
    BY <2>1
<1>6. SumsUp(sum, W, DOMAIN h)
  BY <1>2, <1>5
<1> HIDE DEF sum, step
<1> QED
  BY <1>1, <1>3, <1>4, <1>6, SumsAreNat

LEMMA BytesAreNat ==
  ASSUME BlockAssumption, NEW S \in SUBSET Seq(Chunks), IsFiniteSet(S)
  PROVE  TotalBytes(S) \in Nat /\ (S = {} => TotalBytes(S) = 0)
<1> DEFINE W == [h \in S |-> Size(h)]
           step(g) == [s \in SUBSET S |-> IF s = {} THEN 0 ELSE Size(Pick(s)) + g[s \ {Pick(s)}]]
           sum == CHOOSE g : g = step(g)
<1>1. TotalBytes(S) = sum[S]
  BY DEF TotalBytes, MapThenSumSet, MapThenFoldSet, Pick
<1>2. ASSUME NEW g PROVE g = step(g) <=> SumsUp(g, W, S)
  <2>1. \A s \in SUBSET S : s # {} => W[Pick(s)] = Size(Pick(s))
    BY Picked
  <2> HIDE DEF W
  <2> QED
    BY <2>1 DEF SumsUp
<1>3. \A h \in S : W[h] \in Nat
  BY SizeIsNat
<1> HIDE DEF W
<1>4. sum = step(sum)
  <2>1. \E g : g = step(g)
    BY <1>2, SumsExist
  <2> HIDE DEF step
  <2> QED
    BY <2>1
<1>5. SumsUp(sum, W, S)
  BY <1>2, <1>4
<1> HIDE DEF sum, step
<1> QED
  BY <1>1, <1>3, <1>5, SumsAreNat

-----------------------------------------------------------------------------
(* What the processor reads of the streams of a file is what they contain. *)

LEMMA LeastPosition ==
  ASSUME NEW S \in SUBSET Nat, S # {}
  PROVE  Min(S) \in S /\ \A k \in S : Min(S) <= k
<1>1. PICK m \in S : \A k \in S : <<k, m>> \notin OpToRel(<, Nat)
  BY NatLessThanWellFounded, WFMin
<1>2. \A k \in S : ~(k < m)
  BY <1>1 DEF OpToRel
<1>3. \A k \in S : m <= k
  BY <1>2
<1> QED
  BY <1>3 DEF Min

LEMMA PictureIsHashed ==
  ASSUME NEW s \in Seq(Chunks)
  PROVE  Hashed("image", s) = PictureOf(s)
<1> DEFINE pictures == {i \in DOMAIN s : s[i].tag = "DATA" /\ s[i].data # Empty}
<1>1. {i \in ParseBiff(s) : s[i].tag = "DATA"} = pictures
  BY DEF ParseBiff
<1>2. Max(pictures) = CHOOSE i \in pictures : \A j \in pictures : j <= i
  <2>1. ASSUME NEW i \in pictures PROVE (\A j \in pictures : i >= j) <=> (\A j \in pictures : j <= i)
    OBVIOUS
  <2> HIDE DEF pictures
  <2> QED
    BY <2>1 DEF Max
<1>3. \A d : Data(d) # << >>
  BY DEF Data
<1> QED
  BY <1>1, <1>2, <1>3 DEF Hashed, ParseImage, PictureOf

LEMMA SoundIsHashed ==
  ASSUME NEW s \in Seq(Chunks)
  PROVE  Hashed("sound", s) = SoundOf(s)
<1> DEFINE ends == {i \in DOMAIN s : s[i].data = Empty}
           parsed == ParseUntaggedBiff(s)
<1>1. Len(s) \in Nat /\ DOMAIN s = 1 .. Len(s)
  OBVIOUS
<1>2. /\ (Len(parsed) >= 4 <=> Len(s) >= 4 /\ \A i \in 1 .. 3 : s[i].data # Empty)
      /\ Len(parsed) \in Nat
      /\ Len(parsed) >= 4 => parsed[4] = s[4]
  <2>1. CASE ends = {}
    <3>1. parsed = s
      BY <2>1 DEF ParseUntaggedBiff
    <3>2. Len(s) >= 4 => \A i \in 1 .. 3 : i \in DOMAIN s
      BY <1>1
    <3> QED
      BY <1>1, <2>1, <3>1, <3>2
  <2>2. CASE ends # {}
    <3> DEFINE e == Min(ends)
    <3>0. ends \in SUBSET Nat
      BY <1>1
    <3>1. e \in ends /\ \A k \in ends : e <= k
      BY <2>2, <3>0, LeastPosition
    <3>2. parsed = SubSeq(s, 1, e)
      BY <2>2 DEF ParseUntaggedBiff
    <3>3. e \in 1 .. Len(s) /\ s[e].data = Empty
      BY <1>1, <3>1
    <3>4. \A i \in 1 .. Len(s) : s[i].data = Empty => e <= i
      BY <1>1, <3>1
    <3> HIDE DEF e, ends, parsed
    <3>5. Len(parsed) = e /\ \A i \in 1 .. e : parsed[i] = s[i]
      BY <3>2, <3>3
    <3> QED
      BY <1>1, <3>3, <3>4, <3>5
  <2> QED
    BY <2>1, <2>2
<1>3. \A d : Data(d) # << >>
  BY DEF Data
<1> HIDE DEF parsed
<1>4. Hashed("sound", s) = LET p == ParseSound(parsed) IN IF p = << >> THEN s ELSE p
  BY DEF Hashed, parsed
<1> QED
  BY <1>2, <1>3, <1>4 DEF ParseSound, SoundOf

LEMMA OthersAreHashed ==
  ASSUME NEW s, NEW k \in {"gameitem", "collection"}
  PROVE  Hashed(k, s) = s
BY DEF Hashed

LEMMA JoinedSet ==
  ASSUME NEW S, NEW a \in Seq(S), NEW b \in Seq(S)
  PROVE  a \o b \in Seq(S) /\ ToSet(a \o b) = ToSet(a) \cup ToSet(b)
<1> DEFINE c == a \o b
<1>1. /\ c \in Seq(S) /\ Len(c) = Len(a) + Len(b) /\ Len(a) \in Nat /\ Len(b) \in Nat
      /\ \A i \in 1 .. Len(c) : c[i] = IF i <= Len(a) THEN a[i] ELSE b[i - Len(a)]
  BY ConcatProperties
<1> HIDE DEF c
<1>2. ASSUME NEW x \in ToSet(c) PROVE x \in ToSet(a) \cup ToSet(b)
  <2>1. PICK i \in 1 .. Len(c) : x = c[i]
    BY <1>1 DEF ToSet
  <2>2. CASE i <= Len(a)
    BY <1>1, <2>1, <2>2 DEF ToSet
  <2>3. CASE ~(i <= Len(a))
    <3>1. i - Len(a) \in DOMAIN b /\ x = b[i - Len(a)]
      BY <1>1, <2>1, <2>3
    <3> QED
      BY <3>1 DEF ToSet
  <2> QED
    BY <2>2, <2>3
<1>3. ASSUME NEW x \in ToSet(a) PROVE x \in ToSet(c)
  <2>1. PICK i \in 1 .. Len(a) : x = a[i]
    BY DEF ToSet
  <2>2. i \in DOMAIN c /\ c[i] = x
    BY <1>1, <2>1
  <2> QED
    BY <2>2 DEF ToSet
<1>4. ASSUME NEW x \in ToSet(b) PROVE x \in ToSet(c)
  <2>1. PICK i \in 1 .. Len(b) : x = b[i]
    BY DEF ToSet
  <2>2. Len(a) + i \in 1 .. Len(c) /\ ~(Len(a) + i <= Len(a)) /\ (Len(a) + i) - Len(a) = i
    BY <1>1, <2>1
  <2>3. Len(a) + i \in DOMAIN c /\ c[Len(a) + i] = x
    BY <1>1, <2>1, <2>2
  <2> QED
    BY <2>3 DEF ToSet
<1> QED
  BY <1>1, <1>2, <1>3, <1>4 DEF c

LEMMA ElementsFinite ==
  ASSUME NEW S, NEW s \in Seq(S)
  PROVE  IsFiniteSet(ToSet(s)) /\ ToSet(s) \subseteq S
<1>1. IsFiniteSet(DOMAIN s)
  <2>1. DOMAIN s = 1 .. Len(s) /\ Len(s) \in Int
    OBVIOUS
  <2> QED
    BY <2>1, FS_Interval
<1>2. s \in Surjection(DOMAIN s, ToSet(s))
  BY DEF Surjection, ToSet
<1>3. ToSet(s) \subseteq S
  BY DEF ToSet
<1> QED
  BY <1>1, <1>2, <1>3, FS_Surjection

LEMMA HashedOf ==
  ASSUME BlockAssumption, NEW f \in VptFiles, NEW k \in Kinds
  PROVE  LET hashes == [i \in DOMAIN Streams[f][k] |-> Hashed(k, Streams[f][k][i])] IN
         /\ hashes \in Seq(Seq(Chunks))
         /\ ToSet(hashes) = {Hashed(k, s) : s \in ToSet(Streams[f][k])}
<1> DEFINE streams == Streams[f][k]
           hashes == [i \in DOMAIN streams |-> Hashed(k, streams[i])]
<1>1. streams \in Seq(Seq(Chunks))
  BY DEF BlockAssumption
<1> HIDE DEF streams
<1>2. ASSUME NEW d \in DOMAIN Bytes PROVE Data(d) \in Seq(Chunks)
  <2> DEFINE c == [tag |-> "", data |-> d]
  <2>1. c \in Chunks
    BY DEF Chunks, ChunkTags
  <2>2. Data(d) = <<c>>
    BY DEF Data
  <2> HIDE DEF c
  <2> QED
    BY <2>1, <2>2
<1>3. ASSUME NEW s \in Seq(Chunks) PROVE Hashed(k, s) \in Seq(Chunks)
  <2>1. ASSUME NEW i \in DOMAIN s PROVE s[i].data \in DOMAIN Bytes
    <3>1. s[i] \in Chunks
      OBVIOUS
    <3> QED
      BY <3>1 DEF Chunks
  <2>2. CASE k = "image"
    <3> DEFINE pictures == {i \in DOMAIN s : s[i].tag = "DATA" /\ s[i].data # Empty}
    <3>1. pictures # {} => Max(pictures) \in pictures
      <4>1. ASSUME pictures # {} PROVE \E m \in pictures : \A j \in pictures : m >= j
        <5> DEFINE T == {Len(s) - i : i \in pictures}
        <5>1. T \in SUBSET Nat /\ T # {}
          BY <4>1
        <5>2. Min(T) \in T /\ \A t \in T : Min(T) <= t
          <6> HIDE DEF T
          <6> QED
            BY <5>1, LeastPosition
        <5>3. PICK m \in pictures : Min(T) = Len(s) - m
          BY <5>2
        <5>4. ASSUME NEW j \in pictures PROVE m >= j
          <6>1. Len(s) - m <= Len(s) - j
            BY <5>2, <5>3
          <6> QED
            BY <6>1
        <5> QED
          BY <5>4
      <4> HIDE DEF pictures
      <4> QED
        BY <4>1 DEF Max
    <3>2. {i \in ParseBiff(s) : s[i].tag = "DATA"} = pictures
      BY DEF ParseBiff
    <3>3. ParseImage(s) = IF pictures = {} THEN << >> ELSE Data(s[Max(pictures)].data)
      BY <3>2 DEF ParseImage
    <3>4. Hashed(k, s) = IF ParseImage(s) = << >> THEN s ELSE ParseImage(s)
      BY <2>2 DEF Hashed
    <3> QED
      BY <1>2, <2>1, <3>1, <3>3, <3>4
  <2>3. CASE k = "sound"
    <3>1. Hashed(k, s) = SoundOf(s)
      BY <2>3, SoundIsHashed
    <3>2. Len(s) >= 4 => 4 \in DOMAIN s
      OBVIOUS
    <3> QED
      BY <1>2, <2>1, <3>1, <3>2 DEF SoundOf
  <2>4. CASE k \in {"gameitem", "collection"}
    BY <2>4, OthersAreHashed
  <2> QED
    BY <2>2, <2>3, <2>4 DEF Kinds
<1>4. hashes \in Seq(Seq(Chunks)) /\ DOMAIN hashes = DOMAIN streams
  BY <1>1, <1>3, SMTT(30)
<1>5. ToSet(hashes) = {Hashed(k, s) : s \in ToSet(streams)}
  BY <1>4 DEF ToSet
<1> QED
  BY <1>4, <1>5 DEF streams

\* The blocks of a file are its contents.
LEMMA BlocksAreContents ==
  ASSUME BlockAssumption, NEW f \in VptFiles
  PROVE  /\ AnalyzeFile[f] \in Seq(Seq(Chunks))
         /\ Blocks[f] = ToSet(AnalyzeFile[f]) /\ Blocks[f] = Contents(f)
         /\ IsFiniteSet(Blocks[f]) /\ Blocks[f] \subseteq Seq(Chunks) /\ Blocks[f] \subseteq Hashes
<1> DEFINE hashes(k) == [i \in DOMAIN Streams[f][k] |-> Hashed(k, Streams[f][k][i])]
           set(k) == {Hashed(k, s) : s \in ToSet(Streams[f][k])}
<1>1. \A k \in Kinds : hashes(k) \in Seq(Seq(Chunks)) /\ ToSet(hashes(k)) = set(k)
  BY HashedOf
<1>2. \A k \in Kinds : \A s \in ToSet(Streams[f][k]) : s \in Seq(Chunks)
  <2> SUFFICES ASSUME NEW k \in Kinds, NEW s \in ToSet(Streams[f][k]) PROVE s \in Seq(Chunks)
    OBVIOUS
  <2>1. Streams[f][k] \in Seq(Seq(Chunks))
    BY DEF BlockAssumption
  <2> QED
    BY <2>1, ElementsFinite
<1>3. set("image") = {PictureOf(s) : s \in ToSet(Streams[f]["image"])}
  BY <1>2, PictureIsHashed DEF Kinds
<1>4. set("sound") = {SoundOf(s) : s \in ToSet(Streams[f]["sound"])}
  BY <1>2, SoundIsHashed DEF Kinds
<1>5. set("gameitem") = ToSet(Streams[f]["gameitem"]) /\ set("collection") = ToSet(Streams[f]["collection"])
  BY OthersAreHashed
<1>6. AnalyzeFile[f] = ((hashes("image") \o hashes("sound")) \o hashes("gameitem")) \o hashes("collection")
  BY DEF AnalyzeFile
<1>7. \A k \in {"image", "sound", "gameitem", "collection"} :
        hashes(k) \in Seq(Seq(Chunks)) /\ ToSet(hashes(k)) = set(k)
  BY <1>1 DEF Kinds
<1> HIDE DEF hashes, set
<1>8. /\ AnalyzeFile[f] \in Seq(Seq(Chunks))
      /\ ToSet(AnalyzeFile[f]) = set("image") \cup set("sound") \cup set("gameitem") \cup set("collection")
  <2> DEFINE a == hashes("image") \o hashes("sound")
             b == a \o hashes("gameitem")
  <2>1. a \in Seq(Seq(Chunks)) /\ ToSet(a) = set("image") \cup set("sound")
    BY <1>7, JoinedSet
  <2> HIDE DEF a
  <2>2. b \in Seq(Seq(Chunks)) /\ ToSet(b) = set("image") \cup set("sound") \cup set("gameitem")
    BY <1>7, <2>1, JoinedSet
  <2> HIDE DEF b
  <2>3. b \o hashes("collection") \in Seq(Seq(Chunks))
        /\ ToSet(b \o hashes("collection")) = ToSet(b) \cup set("collection")
    BY <1>7, <2>2, JoinedSet
  <2> QED
    BY <1>6, <2>2, <2>3 DEF a, b
<1>9. Blocks[f] = ToSet(AnalyzeFile[f])
  BY DEF Blocks
<1>10. Blocks[f] = Contents(f)
  BY <1>3, <1>4, <1>5, <1>8, <1>9 DEF Contents
<1>11. Blocks[f] \subseteq Hashes
  BY DEF Hashes
<1> QED
  BY <1>8, <1>9, <1>10, <1>11, ElementsFinite

LEMMA FirstIsOfThem ==
  ASSUME BlockAssumption, NEW f \in VptFiles, NEW hashes \in SUBSET Blocks[f], hashes # {}
  PROVE  FirstOf(f, hashes) \in hashes
<1> DEFINE s == AnalyzeFile[f]
           places == {i \in DOMAIN s : s[i] \in hashes}
<1>1. s \in Seq(Seq(Chunks)) /\ Blocks[f] = ToSet(s)
  BY BlocksAreContents
<1>2. PICK h \in hashes : TRUE
  OBVIOUS
<1>3. PICK i \in DOMAIN s : s[i] = h
  BY <1>1, <1>2 DEF ToSet
<1>4. places # {} /\ places \in SUBSET Nat
  BY <1>1, <1>3
<1>5. Min(places) \in places
  <2> HIDE DEF places
  <2> QED
    BY <1>4, LeastPosition
<1> QED
  BY <1>5 DEF FirstOf

\* Who shares nothing is not alike.
LEMMA NothingInCommon ==
  ASSUME BlockAssumption, NEW f \in VptFiles
  PROVE  ~Alike({}, Blocks[f])
<1>1. /\ Cardinality(Blocks[f]) \in Nat /\ TotalBytes(Blocks[f]) \in Nat
      /\ Cardinality({}) = 0 /\ TotalBytes({}) = 0
  BY BlocksAreContents, BytesAreNat, FS_CardinalityType, FS_EmptySet
<1>2. \A m, n \in Nat : m * n \in Nat
  OBVIOUS
<1> DEFINE c == Cardinality(Blocks[f])
           b == TotalBytes(Blocks[f])
<1>3. c * b \in Nat /\ 0 * b = 0 /\ 0 * c = 0
  <2> HIDE DEF c, b
  <2> QED
    BY <1>1, <1>2 DEF c, b
<1> QED
  BY <1>1, <1>3 DEF Alike

-----------------------------------------------------------------------------
(* The inductive invariant of the index.                                   *)

BlockDocs == [there : BOOLEAN, files : SUBSET VptFiles, rev : Nat]
Having(h) == {f \in VptFiles : h \in Blocks[f]}

\* The job of g has read block h and has it still.
Reads(g, h) == indexing[g].at = "work" /\ h \in DOMAIN indexing[g].doc
Copy(g, h) == indexing[g].doc[h]

\* The table stays in the index, as nobody removes it.
Staying(f) == vpt[f] = "stored" /\ shelf[Owner[f]].at \in {"absent", "public"}
ToSave(f) == IF indexing[f].at = "work" THEN indexing[f].todo ELSE {}

\* The table has never been in the index, or was taken out when no job was at work.
Absent(f) == vpt[f] = "absent" \/ (vpt[f] \in {"pulled", "gone"} /\ f \notin late)

ATypedJob(f) ==
  /\ indexing[f] = [at |-> indexing[f].at, doc |-> indexing[f].doc, todo |-> indexing[f].todo]
  /\ indexing[f].at \in {"none", "waiting", "work", "done", "failed"}
  /\ indexing[f].at = "work" =>
       /\ indexing[f].todo \subseteq Blocks[f] /\ indexing[f].todo # {}
       /\ \A h \in DOMAIN indexing[f].doc : h \in Hashes /\ Copy(f, h) \in BlockDocs

BlockTypes ==
  /\ block \in [Hashes -> BlockDocs]
  /\ vpt \in [VptFiles -> {"absent", "stored", "removed", "pulled", "gone"}]
  /\ indexing = [f \in VptFiles |-> indexing[f]] /\ \A f \in VptFiles : ATypedJob(f)
  /\ shelf \in [Shelves -> [at : {"absent", "public", "pull", "gone"}, todo : SUBSET VptFiles]]
  /\ \A r \in Shelves : shelf[r].todo \subseteq FilesOf(r)
  /\ late \subseteq VptFiles

\* A block lists tables that have it, and so do the copies the jobs have read.
OnlyOfFiles ==
  /\ \A h \in Hashes : block[h].files \subseteq Having(h) /\ (~block[h].there => block[h].files = {})
  /\ \A g \in VptFiles : \A h \in Hashes : Reads(g, h) => Copy(g, h).files \subseteq Having(h)

\* A copy as new as the block lacks no table of it.
CopiesComplete ==
  \A g \in VptFiles : \A h \in Hashes : Reads(g, h) =>
    /\ Copy(g, h).rev <= block[h].rev
    /\ Copy(g, h).rev = block[h].rev => block[h].files \subseteq Copy(g, h).files

Indexed ==
  \A f \in VptFiles : Staying(f) /\ indexing[f].at \in {"work", "done"} =>
    \A h \in Blocks[f] \ ToSave(f) : block[h].there /\ f \in block[h].files

PublicStored == \A f \in VptFiles : shelf[Owner[f]].at \in {"public", "pull"} => vpt[f] = "stored"

AbsentFromIndex ==
  \A f \in VptFiles : Absent(f) =>
    /\ indexing[f].at # "work" /\ (vpt[f] = "absent" => indexing[f].at = "none")
    /\ \A h \in Hashes : f \notin block[h].files
    /\ \A g \in VptFiles : \A h \in Hashes : Reads(g, h) => f \notin Copy(g, h).files

\* Who leaves an empty block is about to sweep.
SweepToCome ==
  (\E h \in Hashes : block[h].there /\ block[h].files = {}) =>
     (\E r \in Shelves : shelf[r].at = "pull") \/ (\E f \in VptFiles : vpt[f] = "pulled")

IndexInv ==
  /\ BlockTypes /\ OnlyOfFiles /\ CopiesComplete /\ Indexed
  /\ PublicStored /\ AbsentFromIndex /\ SweepToCome

LEMMA BlocksAreHashes ==
  /\ \A f \in VptFiles : Blocks[f] \subseteq Hashes
  /\ \A f \in VptFiles : Owner[f] \in Shelves
  /\ \A f \in VptFiles : \A h \in Blocks[f] : f \in Having(h)
BY DEF Hashes, Shelves, Having

LEMMA IndexInit == BlockInit => IndexInv
<1> SUFFICES ASSUME BlockInit PROVE IndexInv
  OBVIOUS
<1>1. /\ \A h \in Hashes : block[h] = NoBlock
      /\ \A f \in VptFiles : vpt[f] = "absent" /\ indexing[f] = NotIndexing
      /\ \A r \in Shelves : shelf[r] = [at |-> "absent", todo |-> {}]
  BY DEF BlockInit
<1>2. BlockTypes
  BY DEF BlockInit, BlockTypes, BlockDocs, NoBlock, NotIndexing, ATypedJob
<1>3. OnlyOfFiles /\ CopiesComplete /\ Indexed /\ AbsentFromIndex /\ SweepToCome
  BY <1>1 DEF OnlyOfFiles, CopiesComplete, Indexed, AbsentFromIndex, SweepToCome, NoBlock, NotIndexing, Reads
<1>4. PublicStored
  BY <1>1 DEF PublicStored, Shelves
<1> QED
  BY <1>2, <1>3, <1>4 DEF IndexInv

\* Lemmas of the steps: the parts of the invariant each leaves alone, and those it does not.
LEMMA UploadTableKeeps ==
  ASSUME IndexInv, NEW f \in VptFiles, UploadTable(f) PROVE IndexInv'
<1>1. /\ vpt[f] = "absent" /\ vpt'[f] = "stored" /\ indexing[f].at = "none" /\ indexing'[f].at = "waiting"
      /\ \A g \in VptFiles \ {f} : vpt'[g] = vpt[g] /\ indexing'[g] = indexing[g]
      /\ vpt' \in [VptFiles -> {"absent", "stored", "removed", "pulled", "gone"}]
      /\ UNCHANGED <<block, shelf, late>>
  BY DEF UploadTable, IndexInv, BlockTypes, ATypedJob, AbsentFromIndex, Absent
<1>2. BlockTypes'
  <2>1. indexing' = [g \in VptFiles |-> indexing'[g]]
    BY DEF UploadTable, IndexInv, BlockTypes
  <2>2. ATypedJob(f)'
    BY <1>1 DEF UploadTable, IndexInv, BlockTypes, ATypedJob
  <2>3. \A g \in VptFiles \ {f} : ATypedJob(g)'
    BY <1>1 DEF IndexInv, BlockTypes, ATypedJob, Copy
  <2> QED
    BY <1>1, <2>1, <2>2, <2>3 DEF IndexInv, BlockTypes
<1>3. \A g \in VptFiles, h \in Hashes : Reads(g, h)' => g # f /\ Reads(g, h) /\ Copy(g, h)' = Copy(g, h)
  BY <1>1 DEF Reads, Copy
<1>4. OnlyOfFiles' /\ CopiesComplete'
  BY <1>1, <1>3 DEF IndexInv, OnlyOfFiles, CopiesComplete
<1>5. Indexed'
  BY <1>1 DEF IndexInv, Indexed, Staying, ToSave
<1>6. AbsentFromIndex'
  BY <1>1, <1>3 DEF IndexInv, AbsentFromIndex, Absent
<1>7. PublicStored' /\ SweepToCome'
  BY <1>1 DEF IndexInv, PublicStored, SweepToCome
<1> QED
  BY <1>2, <1>4, <1>5, <1>6, <1>7 DEF IndexInv

LEMMA FindBlocksKeeps ==
  ASSUME IndexInv, NEW f \in VptFiles, FindBlocks(f) PROVE IndexInv'
<1>1. /\ indexing[f].at = "waiting" /\ vpt[f] # "absent" /\ UNCHANGED <<block, vpt, shelf, late>>
      /\ indexing' = [g \in VptFiles |-> indexing'[g]]
      /\ \A g \in VptFiles \ {f} : indexing'[g] = indexing[g]
  BY DEF FindBlocks, IndexInv, BlockTypes, AbsentFromIndex, Absent
<1>2. \A g \in VptFiles \ {f} : ATypedJob(g)' /\ \A h \in Hashes :
         Reads(g, h)' <=> Reads(g, h) /\ Copy(g, h)' = Copy(g, h)
  BY <1>1 DEF IndexInv, BlockTypes, ATypedJob, Reads, Copy
<1>3. CASE vpt[f] = "stored" /\ Blocks[f] # {}
  <2> DEFINE found == {h \in Blocks[f] : block[h].there}
  <2>1. indexing'[f] = [at |-> "work", doc |-> [h \in found |-> block[h]], todo |-> Blocks[f]]
    BY <1>3 DEF FindBlocks, IndexInv, BlockTypes
  <2>2. found \subseteq Hashes
    BY BlocksAreHashes
  <2> HIDE DEF found
  <2>3. \A h \in Hashes : Reads(f, h)' => Copy(f, h)' = block[h]
    BY <2>1 DEF Reads, Copy
  <2>4. ATypedJob(f)'
    BY <1>3, <2>1, <2>2 DEF IndexInv, BlockTypes, ATypedJob, Copy
  <2>5. BlockTypes'
    BY <1>1, <1>2, <2>4 DEF IndexInv, BlockTypes
  <2>6. OnlyOfFiles' /\ CopiesComplete'
    <3>1. \A h \in Hashes : block[h].rev \in Nat
      BY DEF IndexInv, BlockTypes, BlockDocs
    <3> QED
      BY <1>1, <1>2, <2>3, <3>1 DEF IndexInv, OnlyOfFiles, CopiesComplete
  <2>7. Indexed'
    BY <1>1, <2>1 DEF IndexInv, Indexed, Staying, ToSave
  <2>8. AbsentFromIndex'
    BY <1>1, <1>2, <1>3, <2>3 DEF IndexInv, AbsentFromIndex, Absent
  <2>9. PublicStored' /\ SweepToCome'
    BY <1>1 DEF IndexInv, PublicStored, SweepToCome
  <2> QED
    BY <2>5, <2>6, <2>7, <2>8, <2>9 DEF IndexInv
<1>4. CASE ~(vpt[f] = "stored" /\ Blocks[f] # {})
  <2>1. indexing'[f] = [at |-> "done", doc |-> << >>, todo |-> {}]
    BY <1>4 DEF FindBlocks, IndexInv, BlockTypes, NotIndexing
  <2>2. ATypedJob(f)' /\ \A h \in Hashes : ~Reads(f, h)'
    BY <2>1 DEF ATypedJob, Reads
  <2>3. BlockTypes'
    BY <1>1, <1>2, <2>2 DEF IndexInv, BlockTypes
  <2>4. OnlyOfFiles' /\ CopiesComplete'
    BY <1>1, <1>2, <2>2 DEF IndexInv, OnlyOfFiles, CopiesComplete
  <2>5. Indexed'
    BY <1>1, <1>4, <2>1 DEF IndexInv, Indexed, Staying, ToSave
  <2>6. AbsentFromIndex'
    BY <1>1, <1>2, <2>1, <2>2 DEF IndexInv, AbsentFromIndex, Absent
  <2>7. PublicStored' /\ SweepToCome'
    BY <1>1 DEF IndexInv, PublicStored, SweepToCome
  <2> QED
    BY <2>3, <2>4, <2>5, <2>6, <2>7 DEF IndexInv
<1> QED
  BY <1>3, <1>4

\* A job whose save has failed.
LEMMA FailedKeeps ==
  ASSUME IndexInv, NEW f \in VptFiles, indexing[f].at = "work", indexing' = Failed(f),
         UNCHANGED <<block, vpt, shelf, late>>
  PROVE  IndexInv'
<1>1. /\ indexing'[f] = [at |-> "failed", doc |-> << >>, todo |-> {}]
      /\ indexing' = [g \in VptFiles |-> indexing'[g]]
      /\ \A g \in VptFiles \ {f} : indexing'[g] = indexing[g]
  BY DEF Failed, NotIndexing, IndexInv, BlockTypes
<1>2. ATypedJob(f)' /\ \A h \in Hashes : ~Reads(f, h)'
  BY <1>1 DEF ATypedJob, Reads
<1>3. \A g \in VptFiles \ {f} : ATypedJob(g)' /\ \A h \in Hashes :
         Reads(g, h)' <=> Reads(g, h) /\ Copy(g, h)' = Copy(g, h)
  BY <1>1 DEF IndexInv, BlockTypes, ATypedJob, Reads, Copy
<1>4. BlockTypes'
  BY <1>1, <1>2, <1>3 DEF IndexInv, BlockTypes
<1>5. OnlyOfFiles' /\ CopiesComplete'
  BY <1>2, <1>3 DEF IndexInv, OnlyOfFiles, CopiesComplete
<1>6. Indexed'
  BY <1>1 DEF IndexInv, Indexed, Staying, ToSave
<1>7. AbsentFromIndex'
  BY <1>1, <1>2, <1>3 DEF IndexInv, AbsentFromIndex, Absent
<1>8. PublicStored' /\ SweepToCome'
  BY DEF IndexInv, PublicStored, SweepToCome
<1> QED
  BY <1>4, <1>5, <1>6, <1>7, <1>8 DEF IndexInv

\* A job saves block h with f in it, and with every other table that had it and could not go.
LEMMA SavedKeeps ==
  ASSUME IndexInv, NEW f \in VptFiles, indexing[f].at = "work", NEW h \in indexing[f].todo,
         indexing' = Saved(f, h), UNCHANGED <<vpt, shelf, late>>,
         NEW files \in SUBSET VptFiles, f \in files, files \subseteq Having(h),
         block' = [block EXCEPT ![h] = [there |-> TRUE, files |-> files, rev |-> block[h].rev + 1]],
         block[h].files \subseteq files, \A g \in files : ~Absent(g)
  PROVE  IndexInv'
<1>1. /\ indexing' = [g \in VptFiles |-> indexing'[g]]
      /\ \A g \in VptFiles \ {f} : indexing'[g] = indexing[g]
      /\ indexing'[f] = [at |-> IF indexing[f].todo = {h} THEN "done" ELSE "work",
                         doc |-> indexing[f].doc, todo |-> indexing[f].todo \ {h}]
  <2>1. indexing[f] = [at |-> indexing[f].at, doc |-> indexing[f].doc, todo |-> indexing[f].todo]
    BY DEF IndexInv, BlockTypes, ATypedJob
  <2>2. indexing = [g \in VptFiles |-> indexing[g]]
    BY DEF IndexInv, BlockTypes
  <2>3. indexing'[f] = [[indexing[f] EXCEPT !.todo = @ \ {h}]
                          EXCEPT !.at = IF indexing[f].todo = {h} THEN "done" ELSE "work"]
    BY <2>2 DEF Saved
  <2>4. \A g \in VptFiles \ {f} : indexing'[g] = indexing[g]
    BY <2>2 DEF Saved
  <2>5. indexing' = [g \in VptFiles |-> indexing'[g]]
    BY <2>2 DEF Saved
  <2> QED
    BY <2>1, <2>3, <2>4, <2>5
<1>2. h \in Blocks[f] /\ h \in Hashes /\ block[h] \in BlockDocs
  BY BlocksAreHashes DEF IndexInv, BlockTypes, ATypedJob
<1>3. /\ block' \in [Hashes -> BlockDocs]
      /\ block'[h].there /\ block'[h].files = files /\ block'[h].rev = block[h].rev + 1
      /\ \A k \in Hashes \ {h} : block'[k] = block[k]
  BY <1>2 DEF IndexInv, BlockTypes, BlockDocs
<1>4. \A g \in VptFiles : ATypedJob(g)' /\ \A k \in Hashes :
         Reads(g, k)' => Reads(g, k) /\ Copy(g, k)' = Copy(g, k)
  <2>1. ASSUME NEW g \in VptFiles \ {f}
        PROVE  ATypedJob(g)' /\ \A k \in Hashes : Reads(g, k)' => Reads(g, k) /\ Copy(g, k)' = Copy(g, k)
    BY <1>1 DEF IndexInv, BlockTypes, ATypedJob, Reads, Copy
  <2>2. ATypedJob(f)' /\ \A k \in Hashes : Reads(f, k)' => Reads(f, k) /\ Copy(f, k)' = Copy(f, k)
    BY <1>1 DEF IndexInv, BlockTypes, ATypedJob, Reads, Copy
  <2> QED
    BY <2>1, <2>2
<1>5. BlockTypes'
  BY <1>1, <1>3, <1>4 DEF IndexInv, BlockTypes
<1>6. OnlyOfFiles'
  BY <1>3, <1>4 DEF IndexInv, OnlyOfFiles, Having
<1>7. CopiesComplete'
  <2>1. ASSUME NEW g \in VptFiles, Reads(g, h)
        PROVE  Copy(g, h).rev < block[h].rev + 1 /\ Copy(g, h).rev # block[h].rev + 1
    <3>1. Copy(g, h).rev \in Nat /\ block[h].rev \in Nat /\ Copy(g, h).rev <= block[h].rev
      BY <1>2, <2>1 DEF IndexInv, BlockTypes, ATypedJob, Reads, BlockDocs, CopiesComplete
    <3> QED
      BY <3>1
  <2>2. ASSUME NEW g \in VptFiles, Reads(g, h) PROVE Copy(g, h).rev <= block[h].rev + 1
    <3>1. Copy(g, h).rev \in Nat /\ block[h].rev \in Nat
      BY <1>2, <2>2 DEF IndexInv, BlockTypes, ATypedJob, Reads, BlockDocs
    <3> QED
      BY <2>1, <2>2, <3>1
  <2> QED
    BY <1>3, <1>4, <2>1, <2>2 DEF IndexInv, CopiesComplete
<1>8. Indexed'
  <2> SUFFICES ASSUME NEW g \in VptFiles, Staying(g)', indexing'[g].at \in {"work", "done"},
                      NEW k \in Blocks[g], k \notin ToSave(g)'
               PROVE  block'[k].there /\ g \in block'[k].files
    BY DEF Indexed
  <2>0. k \in Hashes /\ Staying(g)
    BY BlocksAreHashes DEF Staying
  <2>1. CASE k = h /\ g = f
    BY <1>3, <2>1
  <2>2. CASE ~(k = h /\ g = f)
    <3>1. indexing[g].at \in {"work", "done"} /\ k \notin ToSave(g)
      <4>1. CASE g = f
        BY <1>1, <2>2, <4>1 DEF ToSave
      <4>2. CASE g # f
        BY <1>1, <4>2 DEF ToSave
      <4> QED
        BY <4>1, <4>2
    <3>2. block[k].there /\ g \in block[k].files
      BY <2>0, <3>1 DEF IndexInv, Indexed
    <3> QED
      BY <1>3, <2>0, <3>2
  <2> QED
    BY <2>1, <2>2
<1>9. AbsentFromIndex'
  <2> SUFFICES ASSUME NEW g \in VptFiles, Absent(g)'
               PROVE  /\ indexing'[g].at # "work" /\ (vpt'[g] = "absent" => indexing'[g].at = "none")
                      /\ \A k \in Hashes : g \notin block'[k].files
                      /\ \A x \in VptFiles : \A k \in Hashes : Reads(x, k)' => g \notin (Copy(x, k)').files
    BY DEF AbsentFromIndex
  <2>1. Absent(g) /\ g # f
    BY DEF Absent
  <2> QED
    BY <1>1, <1>3, <1>4, <2>1 DEF IndexInv, AbsentFromIndex
<1>10. PublicStored' /\ SweepToCome'
  BY <1>3 DEF IndexInv, PublicStored, SweepToCome
<1> QED
  BY <1>5, <1>6, <1>7, <1>8, <1>9, <1>10 DEF IndexInv

LEMMA InsertBlockKeeps ==
  ASSUME BlockAssumption, IndexInv, NEW f \in VptFiles, InsertBlock(f) PROVE IndexInv'
<1> DEFINE new == indexing[f].todo \ DOMAIN indexing[f].doc
           h == FirstOf(f, new)
<1>1. indexing[f].at = "work" /\ new # {} /\ UNCHANGED <<vpt, shelf, late>> /\ indexing[f].todo \subseteq Blocks[f]
  BY DEF InsertBlock, IndexInv, BlockTypes, ATypedJob
<1>2. h \in new
  <2>1. new \in SUBSET Blocks[f] /\ new # {}
    BY <1>1
  <2> HIDE DEF new
  <2> QED
    BY <2>1, FirstIsOfThem
<1>3. \/ block[h].there /\ indexing' = Failed(f) /\ UNCHANGED block
      \/ /\ ~block[h].there /\ indexing' = Saved(f, h)
         /\ block' = [block EXCEPT ![h] = [there |-> TRUE, files |-> {f}, rev |-> block[h].rev + 1]]
  BY DEF InsertBlock
<1>4. h \in indexing[f].todo /\ h \in Hashes /\ f \in Having(h)
  BY <1>1, <1>2, BlocksAreHashes
<1>5. (~block[h].there => block[h].files = {}) /\ ~Absent(f)
  BY <1>1, <1>4 DEF IndexInv, OnlyOfFiles, AbsentFromIndex
<1> HIDE DEF h, new
<1>6. CASE indexing' = Failed(f) /\ UNCHANGED block
  BY <1>1, <1>6, FailedKeeps
<1>7. CASE /\ ~block[h].there /\ indexing' = Saved(f, h)
           /\ block' = [block EXCEPT ![h] = [there |-> TRUE, files |-> {f}, rev |-> block[h].rev + 1]]
  <2>1. {f} \in SUBSET VptFiles /\ f \in {f} /\ {f} \subseteq Having(h) /\ block[h].files \subseteq {f}
        /\ \A g \in {f} : ~Absent(g)
    BY <1>4, <1>5, <1>7
  <2> QED
    BY <1>1, <1>4, <1>7, <2>1, SavedKeeps
<1> QED
  BY <1>3, <1>6, <1>7

LEMMA UpdateBlockKeeps ==
  ASSUME BlockAssumption, IndexInv, NEW f \in VptFiles, UpdateBlock(f) PROVE IndexInv'
<1> DEFINE todo == indexing[f].todo
           h == FirstOf(f, todo)
           files == indexing[f].doc[h].files \cup {f}
<1>1. /\ indexing[f].at = "work" /\ todo \subseteq DOMAIN indexing[f].doc /\ UNCHANGED <<vpt, shelf, late>>
      /\ todo \subseteq Blocks[f] /\ todo # {}
  BY DEF UpdateBlock, SaveBlock, IndexInv, BlockTypes, ATypedJob
<1>2. h \in todo
  <2> HIDE DEF todo
  <2> QED
    BY <1>1, FirstIsOfThem
<1>3. \/ indexing' = Failed(f) /\ UNCHANGED block
      \/ /\ block[h].there /\ block[h].rev = indexing[f].doc[h].rev /\ indexing' = Saved(f, h)
         /\ block' = [block EXCEPT ![h].files = files, ![h].rev = @ + 1]
  BY DEF UpdateBlock, SaveBlock
<1>4. h \in Hashes /\ f \in Having(h) /\ Reads(f, h) /\ block[h] \in BlockDocs
  BY <1>1, <1>2, BlocksAreHashes DEF Reads, IndexInv, BlockTypes
<1>5. Copy(f, h) \in BlockDocs /\ Copy(f, h).files \subseteq Having(h) /\ ~Absent(f)
      /\ \A g \in Copy(f, h).files : ~Absent(g)
  BY <1>1, <1>4 DEF IndexInv, BlockTypes, ATypedJob, BlockDocs, Reads, OnlyOfFiles, AbsentFromIndex
<1>6. files = Copy(f, h).files \cup {f}
  BY DEF Copy
<1> HIDE DEF h, files
<1>7. CASE indexing' = Failed(f) /\ UNCHANGED block
  BY <1>1, <1>7, FailedKeeps
<1>8. CASE /\ block[h].there /\ block[h].rev = indexing[f].doc[h].rev /\ indexing' = Saved(f, h)
           /\ block' = [block EXCEPT ![h].files = files, ![h].rev = @ + 1]
  <2>1. block[h].files \subseteq Copy(f, h).files
    BY <1>4, <1>8 DEF IndexInv, CopiesComplete, Copy
  <2>2. block' = [block EXCEPT ![h] = [there |-> TRUE, files |-> files, rev |-> block[h].rev + 1]]
    <3>1. block \in [Hashes -> BlockDocs] /\ block[h].there = TRUE
      BY <1>4, <1>8 DEF IndexInv, BlockTypes, BlockDocs
    <3> QED
      BY <1>4, <1>8, <3>1 DEF BlockDocs
  <2>3. files \in SUBSET VptFiles /\ f \in files /\ files \subseteq Having(h) /\ block[h].files \subseteq files
        /\ \A g \in files : ~Absent(g)
    BY <1>4, <1>5, <1>6, <2>1 DEF BlockDocs
  <2>4. h \in indexing[f].todo
    BY <1>2
  <2> HIDE DEF todo
  <2> QED
    BY <1>1, <1>8, <2>2, <2>3, <2>4, SavedKeeps
<1> QED
  BY <1>3, <1>7, <1>8

LEMMA PublishKeeps ==
  ASSUME IndexInv, NEW r \in Shelves, Publish(r) PROVE IndexInv'
<1>1. /\ shelf[r].at = "absent" /\ shelf'[r].at = "public" /\ shelf'[r].todo = shelf[r].todo
      /\ shelf' \in [Shelves -> [at : {"absent", "public", "pull", "gone"}, todo : SUBSET VptFiles]]
      /\ \A x \in Shelves \ {r} : shelf'[x] = shelf[x]
      /\ \A f \in FilesOf(r) : vpt[f] = "stored"
      /\ UNCHANGED <<block, vpt, indexing, late>>
  BY DEF Publish, IndexInv, BlockTypes
<1>2. \A f \in VptFiles : Owner[f] \in Shelves /\ (Owner[f] = r => f \in FilesOf(r))
  BY BlocksAreHashes DEF FilesOf
<1>3. BlockTypes'
  BY <1>1 DEF IndexInv, BlockTypes, ATypedJob, Copy
<1>4. OnlyOfFiles' /\ CopiesComplete' /\ AbsentFromIndex'
  BY <1>1 DEF IndexInv, OnlyOfFiles, CopiesComplete, AbsentFromIndex, Absent, Reads, Copy
<1>5. \A f \in VptFiles : Staying(f)' => Staying(f)
  BY <1>1, <1>2 DEF Staying
<1>6. Indexed'
  BY <1>1, <1>5 DEF IndexInv, Indexed, ToSave
<1>7. PublicStored' /\ SweepToCome'
  BY <1>1, <1>2 DEF IndexInv, PublicStored, SweepToCome
<1> QED
  BY <1>3, <1>4, <1>6, <1>7 DEF IndexInv

LEMMA BeginRemovalKeeps ==
  ASSUME IndexInv, NEW r \in Shelves, BeginRemoval(r) PROVE IndexInv'
<1>1. /\ shelf[r].at = "public" /\ shelf'[r] = [at |-> "pull", todo |-> FilesOf(r)]
      /\ shelf' \in [Shelves -> [at : {"absent", "public", "pull", "gone"}, todo : SUBSET VptFiles]]
      /\ \A x \in Shelves \ {r} : shelf'[x] = shelf[x]
      /\ UNCHANGED <<block, vpt, indexing, late>>
  BY DEF BeginRemoval, IndexInv, BlockTypes, FilesOf
<1>2. \A f \in VptFiles : Owner[f] \in Shelves
  BY BlocksAreHashes
<1>3. BlockTypes'
  BY <1>1 DEF IndexInv, BlockTypes, ATypedJob, Copy
<1>4. OnlyOfFiles' /\ CopiesComplete' /\ AbsentFromIndex'
  BY <1>1 DEF IndexInv, OnlyOfFiles, CopiesComplete, AbsentFromIndex, Absent, Reads, Copy
<1>5. \A f \in VptFiles : Staying(f)' => Staying(f)
  BY <1>1, <1>2 DEF Staying
<1>6. Indexed'
  BY <1>1, <1>5 DEF IndexInv, Indexed, ToSave
<1>7. PublicStored' /\ SweepToCome'
  BY <1>1, <1>2 DEF IndexInv, PublicStored, SweepToCome
<1> QED
  BY <1>3, <1>4, <1>6, <1>7 DEF IndexInv

\* What taking tables out of blocks keeps, whoever does it.
LEMMA PulledKeep ==
  ASSUME IndexInv, NEW removed \in SUBSET VptFiles, \A f \in removed : ~Staying(f), UNCHANGED indexing,
         block' \in [Hashes -> BlockDocs],
         \A h \in Hashes : /\ block'[h].there = block[h].there /\ block'[h].rev = block[h].rev
                           /\ block'[h].files \in {block[h].files, block[h].files \ removed},
         \A f \in VptFiles : Staying(f)' => Staying(f)
  PROVE  OnlyOfFiles' /\ CopiesComplete' /\ Indexed'
<1>1. \A h \in Hashes : block'[h].files \subseteq block[h].files
  OBVIOUS
<1>2. OnlyOfFiles' /\ CopiesComplete'
  BY <1>1 DEF IndexInv, OnlyOfFiles, CopiesComplete, Reads, Copy
<1>3. \A f \in VptFiles : \A h \in Hashes : Staying(f) /\ f \in block[h].files => f \in block'[h].files
  OBVIOUS
<1>4. Indexed'
  <2> SUFFICES ASSUME NEW f \in VptFiles, Staying(f)', indexing[f].at \in {"work", "done"},
                      NEW h \in Blocks[f], h \notin ToSave(f)
               PROVE  block'[h].there /\ f \in block'[h].files
    BY DEF Indexed, ToSave
  <2>1. Staying(f) /\ h \in Hashes
    BY BlocksAreHashes
  <2>2. block[h].there /\ f \in block[h].files
    BY <2>1 DEF IndexInv, Indexed
  <2> QED
    BY <1>3, <2>1, <2>2
<1> QED
  BY <1>2, <1>4

LEMMA PullOneKeeps ==
  ASSUME IndexInv, NEW r \in Shelves, NEW f \in VptFiles, NEW h \in Hashes, PullOne(r, f, h) PROVE IndexInv'
<1>1. /\ shelf[r].at = "pull" /\ f \in shelf[r].todo /\ UNCHANGED <<vpt, indexing, late>>
      /\ \A x \in Shelves : shelf'[x].at = shelf[x].at /\ shelf'[x].todo \subseteq shelf[x].todo
      /\ shelf' \in [Shelves -> [at : {"absent", "public", "pull", "gone"}, todo : SUBSET VptFiles]]
  BY DEF PullOne, IndexInv, BlockTypes
<1>2. /\ block' \in [Hashes -> BlockDocs]
      /\ \A k \in Hashes : /\ block'[k].there = block[k].there /\ block'[k].rev = block[k].rev
                           /\ block'[k].files \in {block[k].files, block[k].files \ {f}}
  BY DEF PullOne, IndexInv, BlockTypes, BlockDocs
<1>3. Owner[f] = r /\ \A g \in VptFiles : Owner[g] \in Shelves
  BY <1>1, BlocksAreHashes DEF IndexInv, BlockTypes, FilesOf
<1>4. \A g \in {f} : ~Staying(g)
  BY <1>1, <1>3 DEF Staying
<1>5. \A g \in VptFiles : Staying(g)' => Staying(g)
  BY <1>1, <1>3 DEF Staying
<1>6. OnlyOfFiles' /\ CopiesComplete' /\ Indexed'
  <2>1. {f} \in SUBSET VptFiles /\ UNCHANGED indexing
    BY <1>1
  <2> QED
    BY <1>2, <1>4, <1>5, <2>1, PulledKeep
<1>7. BlockTypes'
  BY <1>1, <1>2 DEF IndexInv, BlockTypes, ATypedJob, Copy
<1>8. AbsentFromIndex'
  BY <1>1, <1>2 DEF IndexInv, AbsentFromIndex, Absent, Reads, Copy
<1>9. PublicStored' /\ SweepToCome'
  BY <1>1, <1>3 DEF IndexInv, PublicStored, SweepToCome
<1> QED
  BY <1>6, <1>7, <1>8, <1>9 DEF IndexInv

LEMMA RemoveTableKeeps ==
  ASSUME IndexInv, NEW f \in VptFiles, RemoveTable(f) PROVE IndexInv'
<1>1. /\ vpt[f] = "stored" /\ shelf[Owner[f]].at \in {"absent", "gone"} /\ vpt'[f] = "removed"
      /\ \A g \in VptFiles \ {f} : vpt'[g] = vpt[g]
      /\ vpt' \in [VptFiles -> {"absent", "stored", "removed", "pulled", "gone"}]
      /\ UNCHANGED <<block, indexing, shelf, late>>
  BY DEF RemoveTable, IndexInv, BlockTypes
<1>2. BlockTypes'
  BY <1>1 DEF IndexInv, BlockTypes, ATypedJob, Copy
<1>3. OnlyOfFiles' /\ CopiesComplete'
  BY <1>1 DEF IndexInv, OnlyOfFiles, CopiesComplete, Reads, Copy
<1>4. Indexed'
  BY <1>1 DEF IndexInv, Indexed, Staying, ToSave
<1>5. \A g \in VptFiles : Absent(g)' => Absent(g) /\ (vpt'[g] = "absent" => vpt[g] = "absent")
  BY <1>1 DEF Absent
<1>6. AbsentFromIndex'
  BY <1>1, <1>5 DEF IndexInv, AbsentFromIndex, Reads, Copy
<1>7. PublicStored' /\ SweepToCome'
  BY <1>1 DEF IndexInv, PublicStored, SweepToCome
<1> QED
  BY <1>2, <1>3, <1>4, <1>6, <1>7 DEF IndexInv

LEMMA PullBlocksKeeps ==
  ASSUME IndexInv, NEW f \in VptFiles, PullBlocks(f) PROVE IndexInv'
<1>1. /\ vpt[f] = "removed" /\ vpt'[f] = "pulled" /\ UNCHANGED <<indexing, shelf>>
      /\ \A g \in VptFiles \ {f} : vpt'[g] = vpt[g]
      /\ vpt' \in [VptFiles -> {"absent", "stored", "removed", "pulled", "gone"}]
      /\ late' \subseteq VptFiles /\ late \subseteq late'
      /\ f \notin late' => Working = {}
  BY DEF PullBlocks, IndexInv, BlockTypes
<1>2. /\ block' \in [Hashes -> BlockDocs]
      /\ \A h \in Hashes : /\ block'[h].there = block[h].there /\ block'[h].rev = block[h].rev
                           /\ block'[h].files = block[h].files \ {f}
  BY DEF PullBlocks, IndexInv, BlockTypes, BlockDocs
<1>3. \A g \in VptFiles : Staying(g)' => Staying(g)
  BY <1>1 DEF Staying
<1>4. OnlyOfFiles' /\ CopiesComplete' /\ Indexed'
  <2>1. {f} \in SUBSET VptFiles /\ (\A g \in {f} : ~Staying(g)) /\ UNCHANGED indexing
    BY <1>1 DEF Staying
  <2> QED
    BY <1>2, <1>3, <2>1, PulledKeep
<1>5. BlockTypes'
  BY <1>1, <1>2 DEF IndexInv, BlockTypes, ATypedJob, Copy
<1>6. AbsentFromIndex'
  <2> SUFFICES ASSUME NEW g \in VptFiles, Absent(g)'
               PROVE  /\ indexing[g].at # "work" /\ (vpt'[g] = "absent" => indexing[g].at = "none")
                      /\ \A h \in Hashes : g \notin block'[h].files
                      /\ \A x \in VptFiles : \A h \in Hashes : Reads(x, h) => g \notin Copy(x, h).files
    BY <1>1 DEF AbsentFromIndex, Reads, Copy
  <2>1. CASE g = f
    <3>1. \A x \in VptFiles : indexing[x].at # "work"
      BY <1>1, <2>1 DEF Absent, Working
    <3> QED
      BY <1>1, <1>2, <2>1, <3>1 DEF Reads
  <2>2. CASE g # f
    <3>1. Absent(g) /\ (vpt'[g] = "absent" => vpt[g] = "absent")
      BY <1>1, <2>2 DEF Absent
    <3> QED
      BY <1>2, <3>1 DEF IndexInv, AbsentFromIndex
  <2> QED
    BY <2>1, <2>2
<1>7. PublicStored' /\ SweepToCome'
  BY <1>1 DEF IndexInv, PublicStored, SweepToCome
<1> QED
  BY <1>4, <1>5, <1>6, <1>7 DEF IndexInv

LEMMA SweptKeep ==
  ASSUME IndexInv, Sweep
  PROVE  /\ block' \in [Hashes -> BlockDocs]
         /\ \A h \in Hashes : /\ block'[h].rev = block[h].rev /\ block'[h].files = block[h].files
                              /\ block'[h].there <=> block[h].there /\ block[h].files # {}
<1>1. block \in [Hashes -> BlockDocs]
  BY DEF IndexInv, BlockTypes
<1>2. ASSUME NEW h \in Hashes
      PROVE  /\ block'[h] \in BlockDocs /\ block'[h].rev = block[h].rev /\ block'[h].files = block[h].files
             /\ block'[h].there <=> block[h].there /\ block[h].files # {}
  BY <1>1 DEF Sweep, NoBlock, BlockDocs
<1>3. block' = [h \in Hashes |-> block'[h]]
  BY DEF Sweep
<1> QED
  BY <1>2, <1>3

LEMMA SweepReleaseKeeps ==
  ASSUME IndexInv, NEW r \in Shelves, SweepRelease(r) PROVE IndexInv'
<1>1. /\ shelf[r].at = "pull" /\ shelf'[r].at = "gone" /\ shelf'[r].todo = shelf[r].todo
      /\ shelf' \in [Shelves -> [at : {"absent", "public", "pull", "gone"}, todo : SUBSET VptFiles]]
      /\ \A x \in Shelves \ {r} : shelf'[x] = shelf[x]
      /\ UNCHANGED <<vpt, indexing, late>>
  BY DEF SweepRelease, IndexInv, BlockTypes
<1>2. /\ block' \in [Hashes -> BlockDocs]
      /\ \A h \in Hashes : /\ block'[h].rev = block[h].rev /\ block'[h].files = block[h].files
                           /\ block'[h].there <=> block[h].there /\ block[h].files # {}
  BY SweptKeep DEF SweepRelease
<1>3. \A f \in VptFiles : Owner[f] \in Shelves /\ Blocks[f] \subseteq Hashes
  BY BlocksAreHashes
<1>4. BlockTypes'
  BY <1>1, <1>2 DEF IndexInv, BlockTypes, ATypedJob, Copy
<1>5. OnlyOfFiles' /\ CopiesComplete' /\ AbsentFromIndex'
  BY <1>1, <1>2 DEF IndexInv, OnlyOfFiles, CopiesComplete, AbsentFromIndex, Absent, Reads, Copy
<1>6. \A f \in VptFiles : Staying(f)' => Staying(f)
  BY <1>1, <1>3 DEF Staying
<1>7. Indexed'
  BY <1>1, <1>2, <1>3, <1>6 DEF IndexInv, Indexed, ToSave
<1>8. PublicStored' /\ SweepToCome'
  BY <1>1, <1>2, <1>3 DEF IndexInv, PublicStored, SweepToCome
<1> QED
  BY <1>4, <1>5, <1>7, <1>8 DEF IndexInv

LEMMA SweepBlocksKeeps ==
  ASSUME IndexInv, NEW f \in VptFiles, SweepBlocks(f) PROVE IndexInv'
<1>1. /\ vpt[f] = "pulled" /\ vpt'[f] = "gone" /\ UNCHANGED <<indexing, shelf, late>>
      /\ \A g \in VptFiles \ {f} : vpt'[g] = vpt[g]
      /\ vpt' \in [VptFiles -> {"absent", "stored", "removed", "pulled", "gone"}]
  BY DEF SweepBlocks, IndexInv, BlockTypes
<1>2. /\ block' \in [Hashes -> BlockDocs]
      /\ \A h \in Hashes : /\ block'[h].rev = block[h].rev /\ block'[h].files = block[h].files
                           /\ block'[h].there <=> block[h].there /\ block[h].files # {}
  BY SweptKeep DEF SweepBlocks
<1>3. \A g \in VptFiles : Blocks[g] \subseteq Hashes
  BY BlocksAreHashes
<1>4. BlockTypes'
  BY <1>1, <1>2 DEF IndexInv, BlockTypes, ATypedJob, Copy
<1>5. OnlyOfFiles' /\ CopiesComplete'
  BY <1>1, <1>2 DEF IndexInv, OnlyOfFiles, CopiesComplete, Reads, Copy
<1>6. \A g \in VptFiles : Absent(g)' => Absent(g) /\ (vpt'[g] = "absent" => vpt[g] = "absent")
  BY <1>1 DEF Absent
<1>7. AbsentFromIndex'
  BY <1>1, <1>2, <1>6 DEF IndexInv, AbsentFromIndex, Reads, Copy
<1>8. \A g \in VptFiles : Staying(g)' => Staying(g)
  BY <1>1 DEF Staying
<1>9. Indexed'
  BY <1>1, <1>2, <1>3, <1>8 DEF IndexInv, Indexed, ToSave
<1>10. PublicStored' /\ SweepToCome'
  BY <1>1, <1>2 DEF IndexInv, PublicStored, SweepToCome
<1> QED
  BY <1>4, <1>5, <1>7, <1>9, <1>10 DEF IndexInv

LEMMA BlockStepKeeps ==
  ASSUME BlockAssumption, IndexInv, [BlockStep]_blockVars PROVE IndexInv'
<1>1. CASE UNCHANGED blockVars
  BY <1>1 DEF blockVars, IndexInv, BlockTypes, ATypedJob, OnlyOfFiles, CopiesComplete, Indexed, PublicStored,
              AbsentFromIndex, SweepToCome, Reads, Copy, Staying, ToSave, Absent
<1>2. ASSUME NEW f \in VptFiles,
             UploadTable(f) \/ FindBlocks(f) \/ RemoveTable(f) \/ PullBlocks(f) \/ SweepBlocks(f)
             \/ InsertBlock(f) \/ UpdateBlock(f)
      PROVE  IndexInv'
  BY <1>2, UploadTableKeeps, FindBlocksKeeps, RemoveTableKeeps, PullBlocksKeeps, SweepBlocksKeeps,
     InsertBlockKeeps, UpdateBlockKeeps
<1>3. ASSUME NEW r \in Shelves, Publish(r) \/ BeginRemoval(r) \/ SweepRelease(r) PROVE IndexInv'
  BY <1>3, PublishKeeps, BeginRemovalKeeps, SweepReleaseKeeps
<1>4. ASSUME NEW r \in Shelves, NEW f \in VptFiles, NEW h \in Hashes, PullOne(r, f, h) PROVE IndexInv'
  BY <1>4, PullOneKeeps
<1> QED
  BY <1>1, <1>2, <1>3, <1>4 DEF BlockStep

-----------------------------------------------------------------------------
(* What a published table that has been indexed gets for its matches.      *)

LEMMA IndexedBlocks ==
  ASSUME IndexInv, NEW f \in VptFiles, indexing[f].at = "done", shelf[Owner[f]].at = "public"
  PROVE  /\ BlocksOf(f) = Blocks[f]
         /\ \A h \in Hashes : f \in block[h].files <=> h \in Blocks[f]
<1>1. Staying(f) /\ ToSave(f) = {} /\ Blocks[f] \subseteq Hashes
  BY BlocksAreHashes DEF IndexInv, PublicStored, Staying, ToSave
<1>2. \A h \in Blocks[f] : block[h].there /\ f \in block[h].files
  BY <1>1 DEF IndexInv, Indexed
<1>3. \A h \in Hashes : f \in block[h].files => h \in Blocks[f]
  BY DEF IndexInv, OnlyOfFiles, Having
<1> QED
  BY <1>1, <1>2, <1>3 DEF BlocksOf

LEMMA MatchesAreAlike ==
  ASSUME BlockAssumption, IndexInv, NEW f \in VptFiles, NEW g \in VptFiles, f # g,
         indexing[f].at = "done", shelf[Owner[f]].at = "public",
         indexing[g].at = "done", shelf[Owner[g]].at = "public"
  PROVE  g \in Blockmatch(f, TRUE) <=> Alike(Contents(f) \cap Contents(g), Contents(f))
<1> DEFINE common == {h \in BlocksOf(f) : g \in block[h].files}
<1>1. /\ BlocksOf(f) = Blocks[f] /\ Blocks[f] \subseteq Hashes
      /\ \A h \in Hashes : g \in block[h].files <=> h \in Blocks[g]
  BY IndexedBlocks, BlocksAreHashes
<1>2. common = Blocks[f] \cap Blocks[g]
  BY <1>1
<1>3. Blocks[f] = Contents(f) /\ Blocks[g] = Contents(g)
  BY BlocksAreContents
<1>4. g \in FilesOf(Owner[g])
  BY DEF FilesOf
<1> DEFINE listed == UNION {block[h].files : h \in BlocksOf(f)}
<1>5. Alike(common, BlocksOf(f)) <=> Alike(common, Blocks[f])
  BY <1>1
<1>6. Alike(common, Blocks[f]) => g \in listed
  <2>1. ~Alike({}, Blocks[f])
    BY NothingInCommon
  <2>2. common # {} => g \in listed
    OBVIOUS
  <2> HIDE DEF common, listed
  <2> QED
    BY <2>1, <2>2
<1>7. g \in Blockmatch(f, TRUE) <=>
        /\ g \in listed \ {f}
        /\ shelf[Owner[g]].at = "public" /\ g \in FilesOf(Owner[g]) /\ Alike(common, BlocksOf(f))
  BY DEF Blockmatch
<1> HIDE DEF common, listed
<1>8. g \in Blockmatch(f, TRUE) <=> Alike(common, Blocks[f])
  BY <1>4, <1>5, <1>6, <1>7
<1> QED
  BY <1>2, <1>3, <1>8

\* What is left when nothing is under way.
LEMMA QuietIndex ==
  ASSUME IndexInv, \A f \in VptFiles : vpt[f] \in {"absent", "stored", "gone"},
         \A r \in Shelves : shelf[r].at # "pull", NEW h \in Hashes
  PROVE  /\ block[h].files \subseteq {f \in VptFiles : vpt[f] = "stored"} \cup late
         /\ block[h].there <=> block[h].files # {}
<1>1. block[h].files \subseteq VptFiles
  BY DEF IndexInv, BlockTypes, BlockDocs
<1>2. \A f \in block[h].files : ~Absent(f)
  BY <1>1 DEF IndexInv, AbsentFromIndex
<1>3. \A f \in block[h].files : vpt[f] = "stored" \/ f \in late
  BY <1>1, <1>2 DEF Absent
<1>4. block[h].there <=> block[h].files # {}
  <2>1. \A f \in VptFiles : vpt[f] # "pulled"
    OBVIOUS
  <2> QED
    BY <2>1 DEF IndexInv, OnlyOfFiles, SweepToCome
<1> QED
  BY <1>1, <1>3, <1>4

LEMMA IndexMatches == ASSUME BlockAssumption, IndexInv PROVE MatchesByContent
BY MatchesAreAlike, QuietIndex DEF MatchesByContent

\* A published table is matched with exactly those published tables that have more than half of
\* its contents by number and bytes together, whatever jobs, failed saves and removals have run
\* between the two jobs that indexed them; and the index lists nothing that is gone and no empty
\* block when it rests (vpt.blockindex.processor.ts:69-80 against file.schema.ts:158-163).
THEOREM MatchedByContent == BlockSpec => []MatchesByContent
<1>1. BlockInit => IndexInv
  BY IndexInit
<1>2. IndexInv /\ [BlockStep]_blockVars => IndexInv'
  BY BlockAssumption, BlockStepKeeps
<1>3. IndexInv => MatchesByContent
  BY BlockAssumption, IndexMatches
<1> QED
  BY <1>1, <1>2, <1>3, PTL DEF BlockSpec

===============================================================================
