----------------------------- MODULE MCReading -----------------------------
(***************************************************************************)
(* What readers are shown: one release through the cache, with and without *)
(* a token, against every handler that changes content; lists of events,   *)
(* games and releases, page by page; and the matches of three tables, two  *)
(* of them of one release.  The parts have nothing in common but that one  *)
(* instance checks them, one at a time.                                    *)
(***************************************************************************)
EXTENDS ApiCache, BlockIndex, Listing, TLC

CONSTANTS ball, bell, wall, title, other

VARIABLE part

AllHandlers ==
  {"updateGameTitle", "updateGameLogo", "rateGame", "createRelease", "updateRelease",
   "updateVersion", "validateFile", "moderateRelease", "rateRelease", "starRelease",
   "deleteRelease", "createBackglass", "addBackglassVersion", "moderateBackglass",
   "updateBackglass", "deleteBackglass", "createMedium", "deleteMedium", "updateAuthor",
   "invalidateCache"}

\* The three have a picture in common, one of them under another name; but most of the third is
\* a sound, twice, and an item of its own.
MCStreams ==
  LET chunk(tag, data) == [tag |-> tag, data |-> data]
      image(name, data) == <<chunk("NAME", name), chunk("FONT", data), chunk("DATA", data)>>
      sound(name, data) == <<chunk("", name), chunk("", name), chunk("", name), chunk("", data)>>
      streams(images, sounds, items) ==
        ("image" :> images) @@ ("sound" :> sounds) @@ ("gameitem" :> items) @@ ("collection" :> << >>)
  IN ("v1" :> streams(<<image(title, ball)>>, << >>, << >>))
  @@ ("v2" :> streams(<<image(other, ball)>>, << >>, << >>))
  @@ ("v3" :> streams(<<image(title, ball)>>, <<sound(title, bell), sound(other, bell)>>,
                      <<<<chunk("NAME", wall)>>>>))
MCBytes == (ball :> 1) @@ (bell :> 3) @@ (wall :> 8) @@ (title :> 1) @@ (other :> 1)
MCOwner == ("v1" :> "ra") @@ ("v2" :> "rb") @@ ("v3" :> "ra")

-----------------------------------------------------------------------------
Member == [name |-> "member", moderator |-> FALSE, admin |-> FALSE]
Moderator == [name |-> "moderator", moderator |-> TRUE, admin |-> TRUE]
MCVisitors == {Anybody, Member, Moderator}

\* The third game, as often viewed as the first.
Popular == [list |-> "games", rank |-> 1, name |-> "g3", original |-> FALSE,
            restricted |-> FALSE, owner |-> Moderator, number |-> 2]

\* Two events of the same time.
MCEntries ==
  LET game(n, name, original, restricted) ==
        [list |-> "games", rank |-> n, name |-> name, original |-> original,
         restricted |-> restricted, owner |-> Moderator, number |-> n - 1]
      release(n, name, g, flavor, tags) ==
        [list |-> "releases", rank |-> n, name |-> name, game |-> g, restricted |-> (g = "g2"),
         author |-> Member, tags |-> tags, flavor |-> flavor]
      event(n, what, g, r) ==
        [list |-> "events", rank |-> n, event |-> what, actor |-> Member, game |-> g,
         release |-> r, public |-> TRUE]
      backglass(n, g) ==
        [list |-> "backglasses", rank |-> n, name |-> "b", game |-> g, restricted |-> (g = "g2"), author |-> Moderator]
      rom(n, g, number) ==
        [list |-> "roms", rank |-> n, name |-> "m", game |-> g, restricted |-> (g = "g2"), author |-> Member,
         number |-> number]
      label(n, name, active, owner) ==
        [list |-> "labels", rank |-> n, name |-> name, active |-> active, owner |-> owner]
      user(n, name, email) ==
        [list |-> "users", rank |-> n, name |-> name, email |-> email, roles |-> {name}]
  IN {backglass(1, "g1"), backglass(2, "g2"), rom(1, "g2", 1), rom(2, "none", 2),
      label(1, "vp9", TRUE, Moderator), label(2, "vp10", FALSE, Member),
      user(1, "member", "m@x.org"), user(2, "moderator", "o@x.org"),
      game(1, "g1", TRUE, FALSE), game(2, "g2", FALSE, TRUE), game(3, "g3", FALSE, FALSE),
      Popular,
      release(1, "r1", "g1", "any", {"hd"}), release(2, "r2", "g2", "night", {}),
      event(1, "create_game", "g1", "none"), event(2, "star_release", "g1", "r1"),
      event(2, "create_comment", "g2", "r2")}

MCFilters ==
  LET events(in, without, mine, of, stars) ==
        [list |-> "events", events |-> in, without |-> without, mine |-> mine, of |-> of, starred |-> stars]
      games(mine, with) == [list |-> "games", mine |-> mine, withReleases |-> with]
      releases(mine, tags, flavor, stars) ==
        [list |-> "releases", mine |-> mine, tags |-> tags, flavor |-> flavor, starred |-> stars]
      of(list, g, number) == [list |-> list, game |-> g, number |-> number]
  IN {events({}, {"star_release"}, FALSE, {}, FALSE), events({}, {}, FALSE, {}, TRUE),
      events({"create_game", "create_comment"}, {}, TRUE, {}, FALSE), events({}, {}, FALSE, {"g2"}, FALSE),
      games(FALSE, FALSE), games(FALSE, TRUE), games(TRUE, FALSE),
      releases(FALSE, {}, {"night"}, "no"), releases(FALSE, {"hd"}, {}, "yes"),
      of("backglasses", "none", 0), of("backglasses", "g1", 0),
      of("roms", "g2", 0), of("roms", "none", 2), of("roms", "none", 1), of("roms", "none", 0),
      [list |-> "labels"], [list |-> "users", text |-> "", roles |-> {"member"}],
      [list |-> "users", text |-> "m@x.org", roles |-> {}]}

\* Everything, with a star for one release or for a game and the other; or all but an entity.
MCStocks ==
  {[there |-> MCEntries \ {Popular}, starred |-> stars] : stars \in {{"r1"}, {"g2", "r2"}}}
  \cup {[there |-> MCEntries \ {Popular, e}, starred |-> {"g1"}] :
          e \in {d \in MCEntries : \/ (d.list = "events" /\ d.event = "create_comment")
                                  \/ (d.list = "games" /\ d.name = "g3")}}

ReadingInit ==
  /\ Init /\ BlockInit /\ ListingInit
  /\ part \in {"cache", "blocks", "lists"}
  /\ part # "lists" => there = MCEntries \ {Popular} /\ starred = {"r1"}
  /\ part # "cache" => \A x \in Entity : db[x].status = "listed"

ReadingNext ==
  /\ \/ part = "cache" /\ Next /\ UNCHANGED <<blockVars, listingVars>>
     \/ part = "blocks" /\ BlockStep /\ UNCHANGED <<vars, listingVars>>
     \/ part = "lists" /\ ListingStep /\ UNCHANGED <<vars, blockVars>>
  /\ UNCHANGED part

ReadingSpec == ReadingInit /\ [][ReadingNext]_<<part, vars, blockVars, listingVars>>

=============================================================================
