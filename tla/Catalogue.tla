----------------------------- MODULE Catalogue -----------------------------
(***************************************************************************)
(* Games and what hangs on them: the requests for games, the ROMs, and the *)
(* releases and backglasses ("entries").  MongoDB joins nothing and checks *)
(* no reference: a handler looks for what it refers to, and saves later,   *)
(* while other handlers do the same (game.api.ts, game.request.api.ts,     *)
(* rom.api.ts, release.api.ts, backglass.api.ts).                          *)
(*                                                                         *)
(* A game, ROM or request that imitates a real machine has the number of   *)
(* that machine in the IPDB.  An original game needs none, but may be      *)
(* given one, and then nobody asks whether another game has it.            *)
(***************************************************************************)
LOCAL INSTANCE FiniteSets

CONSTANTS
  Games, Roms, GameRequests,
  Releases, Backglasses,
  Numbers,   \* of the IPDB
  Handlers,  \* bound: the requests to the API at work at one time
  None

Entries == Releases \cup Backglasses

ASSUME CatalogueAssumption == None \notin Games \cup Roms \cup GameRequests \cup Numbers

VARIABLES
  game,     \* the collections of MongoDB
  rom,
  wanted,   \* the game requests
  entry,    \* the releases and the backglasses
  job       \* the handlers

catalogueVars == <<game, rom, wanted, entry, job>>

-----------------------------------------------------------------------------
(* Documents are saved once and removed once.  The other fields of a game  *)
(* are history: linked is set when create has done with ROMs and requests, *)
(* renumbered when an update gave the game its number; a document is       *)
(* "excused" when it was saved on a lookup that had been overtaken, and an *)
(* original game when it was saved with the number of another one.         *)

Unsaved(doc) == doc.at = "unsaved"
Saved(coll) == {i \in DOMAIN coll : coll[i].at = "saved"}

Game(at, num, excused) ==
  [at |-> at, num |-> num, linked |-> FALSE, renumbered |-> FALSE, excused |-> excused]
Rom(at, num, g, excused) == [at |-> at, num |-> num, game |-> g, excused |-> excused]
GameRequest(at, num, excused) ==
  [at |-> at, num |-> num, closed |-> FALSE, game |-> None, excused |-> excused]
Entry(at, g, excused) == [at |-> at, game |-> g, excused |-> excused]

\* id: what is saved or removed; over: history, the lookup has been overtaken;
\* seen: history, the entries of the game when they were counted.
Idle == [at |-> "idle", id |-> None, game |-> None, num |-> None, asked |-> None,
         roms |-> {}, over |-> FALSE, seen |-> {}]

\* Bound: the requests for games are used, or the ROMs and the backglasses, or the
\* releases; the others are gone.
CatalogueInit ==
  /\ game = [g \in Games |-> Game("unsaved", None, FALSE)]
  /\ \E used \in {GameRequests, Roms \cup Backglasses, Releases} :
       LET at(i) == IF i \in used THEN "unsaved" ELSE "removed" IN
       /\ wanted = [q \in GameRequests |-> GameRequest(at(q), None, FALSE)]
       /\ rom = [r \in Roms |-> Rom(at(r), None, None, FALSE)]
       /\ entry = [e \in Entries |-> Entry(at(e), None, FALSE)]
  /\ job = [h \in Handlers |-> Idle]

WithNumber(coll, n) == {i \in Saved(coll) : n # None /\ coll[i].num = n}
EntriesOf(kind, g) == {e \in kind \cap Saved(entry) : entry[e].game = g}

Begin(h, j) == job[h].at = "idle" /\ job' = [job EXCEPT ![h] = j]
Go(h, at) == job' = [job EXCEPT ![h].at = at]
End(h) == job' = [job EXCEPT ![h] = Idle]

-----------------------------------------------------------------------------
(* GameApi *)

\* create up to its first validation; asked: the request named in the body.  A recreation
\* has a number that no other game has; of an original one, nothing is checked.
CreateGame(h, g, n, q) ==
  LET create(at) == Begin(h, [Idle EXCEPT !.at = at, !.id = g, !.num = n, !.asked = q]) IN
  /\ Unsaved(game[g]) /\ \A k \in Handlers : job[k].id # g
  /\ \/ n # None /\ WithNumber(game, n) = {} /\ create("validate game")
     \/ create("insert original")
  /\ UNCHANGED <<game, rom, wanted, entry>>

\* save validates a recreation again: no other game has its number.
ValidateGame(h) ==
  /\ job[h].at = "validate game"
  /\ job' = [job EXCEPT ![h] = IF WithNumber(game, @.num) = {}
                               THEN [@ EXCEPT !.at = "insert game", !.over = FALSE] ELSE Idle]
  /\ UNCHANGED <<game, rom, wanted, entry>>

\* The others that looked for a game with this number have looked too early.
InsertGame(h) ==
  LET n == job[h].num
      second == IF job[h].at = "insert original" THEN WithNumber(game, n) # {} ELSE job[h].over
  IN
  /\ job[h].at \in {"insert game", "insert original"}
  /\ game' = [game EXCEPT ![job[h].id] = Game("saved", n, second)]
  /\ job' = [k \in Handlers |->
       IF k = h THEN [job[h] EXCEPT !.at = "find roms"]
                ELSE [job[k] EXCEPT !.over = @ \/ (n # None /\ job[k].num = n)]]
  /\ UNCHANGED <<rom, wanted, entry>>

\* Mutant of FindRoms: a ROM that has had a game stays with it.
FindLooseRoms(h) ==
  /\ job[h].at = "find roms"
  /\ job' = [job EXCEPT ![h].at = "link roms",
                        ![h].roms = {r \in WithNumber(rom, job[h].num) : rom[r].game = None}]
  /\ UNCHANGED <<game, rom, wanted, entry>>

\* All with the number, those included that belonged to a game since removed.
FindRoms(h) ==
  /\ job[h].at = "find roms"
  /\ job' = [job EXCEPT ![h].at = "link roms", ![h].roms = WithNumber(rom, job[h].num)]
  /\ UNCHANGED <<game, rom, wanted, entry>>

\* Saving a ROM that has been removed throws.
LinkRom(h, r) ==
  /\ job[h].at = "link roms" /\ r \in job[h].roms
  /\ IF r \in Saved(rom)
       THEN /\ rom' = [rom EXCEPT ![r].game = job[h].id, ![r].excused = @ \/ job[h].id \notin Saved(game)]
            /\ job' = [job EXCEPT ![h].roms = @ \ {r}]
       ELSE End(h) /\ UNCHANGED rom
  /\ UNCHANGED <<game, wanted, entry>>

\* What CreateGame(h, ...) looks for next: the request with this id, or else one with
\* the number.  Without one the game is done.
FindRequest(h) ==
  LET found == IF job[h].asked # None THEN {job[h].asked} \cap Saved(wanted)
                                      ELSE WithNumber(wanted, job[h].num)
  IN
  /\ job[h].at = "link roms" /\ job[h].roms = {}
  /\ IF found = {}
       THEN /\ End(h)
            /\ game' = [game EXCEPT ![job[h].id].linked = TRUE]
       ELSE /\ \E q \in found :
                 job' = [job EXCEPT ![h].at = "close request", ![h].asked = q,
                                    ![h].seen = IF wanted[q].closed THEN {q} ELSE {}]
            /\ UNCHANGED game
  /\ wanted' = [q \in GameRequests |->
       [wanted[q] EXCEPT !.excused =
          @ \/ (job[h].asked \notin {None, q} /\ wanted[q].num = job[h].num)]]
  /\ UNCHANGED <<rom, entry>>

\* Mongoose saves what has changed since it was loaded.
CloseRequest(h) ==
  LET q == job[h].asked IN
  /\ job[h].at = "close request"
  /\ End(h)
  /\ IF q \in Saved(wanted)
       THEN /\ wanted' = [wanted EXCEPT ![q].closed = @ \/ q \notin job[h].seen,
                                        ![q].game = job[h].id]
            /\ game' = [game EXCEPT ![job[h].id].linked = TRUE]
       ELSE UNCHANGED <<wanted, game>>
  /\ UNCHANGED <<rom, entry>>

\* update: a number may change, and nothing is checked or linked anew.  Bound: once.
UpdateGame(g, n) ==
  /\ g \in Saved(game) /\ game[g].num # n /\ ~game[g].renumbered
  /\ game' = [game EXCEPT ![g].num = n, ![g].renumbered = TRUE]
  /\ UNCHANGED <<rom, wanted, entry, job>>

\* del counts the releases, then the backglasses, and nothing else.
CountReleases(h, g) ==
  /\ g \in Saved(game)
  /\ EntriesOf(Releases, g) = {}
  /\ Begin(h, [Idle EXCEPT !.at = "count backglasses", !.id = g, !.seen = EntriesOf(Releases, g)])
  /\ UNCHANGED <<game, rom, wanted, entry>>

CountThenRemove(h, found) ==
  /\ job[h].at = "count backglasses"
  /\ job' = [job EXCEPT ![h] =
       IF found = {} THEN [@ EXCEPT !.at = "remove game", !.seen = job[h].seen \cup EntriesOf(Backglasses, job[h].id)]
                     ELSE Idle]
  /\ UNCHANGED <<game, rom, wanted, entry>>

\* Mutant of CountBackglasses: the count is not looked at.
CountReleasesOnly(h) == CountThenRemove(h, {})

CountBackglasses(h) == CountThenRemove(h, EntriesOf(Backglasses, job[h].id))

\* remove, with its hooks, which are in module Community.
RemoveGame(h) ==
  LET g == job[h].id IN
  /\ job[h].at = "remove game"
  /\ game' = [game EXCEPT ![g].at = "removed"]
  /\ entry' = [e \in Entries |->
       IF entry[e].game = g /\ e \notin job[h].seen
       THEN [entry[e] EXCEPT !.excused = TRUE] ELSE entry[e]]
  /\ job' = [k \in Handlers |->
       IF k = h THEN Idle ELSE [job[k] EXCEPT !.over = @ \/ job[k].game = g]]
  /\ UNCHANGED <<rom, wanted>>

-----------------------------------------------------------------------------
(* RomApi *)

\* create, by the game's id or by the number, whichever game has it.
FindGameOfRom(h, r, n) ==
  /\ Unsaved(rom[r]) /\ \A k \in Handlers : job[k].id # r
  /\ \/ \E g \in Saved(game) :
          Begin(h, [Idle EXCEPT !.at = "insert rom", !.id = r, !.game = g, !.num = game[g].num])
     \/ /\ n # None /\ WithNumber(game, n) = {}
        /\ Begin(h, [Idle EXCEPT !.at = "insert rom", !.id = r, !.num = n])
  /\ UNCHANGED <<game, rom, wanted, entry>>

InsertRom(h) ==
  /\ job[h].at = "insert rom"
  /\ rom' = [rom EXCEPT ![job[h].id] = Rom("saved", job[h].num, job[h].game, job[h].over)]
  /\ End(h)
  /\ UNCHANGED <<game, wanted, entry>>

RemoveRom(r) ==
  /\ r \in Saved(rom)
  /\ rom' = [rom EXCEPT ![r] = Rom("removed", None, None, FALSE)]
  /\ UNCHANGED <<game, wanted, entry, job>>

-----------------------------------------------------------------------------
(* GameRequestApi *)

FindRequestedGame(h, q, n) ==
  /\ Unsaved(wanted[q]) /\ \A k \in Handlers : job[k].id # q
  /\ n # None /\ WithNumber(game, n) = {}
  /\ Begin(h, [Idle EXCEPT !.at = "find dupe", !.id = q, !.num = n])
  /\ UNCHANGED <<game, rom, wanted, entry>>

\* Another request for the game, open or closed, and the data from ipdb.org, which
\* may be missing (Fail).
FindDupe(h) ==
  /\ job[h].at = "find dupe"
  /\ IF WithNumber(wanted, job[h].num) = {} THEN Go(h, "insert request") ELSE End(h)
  /\ UNCHANGED <<game, rom, wanted, entry>>

\* History: the requests for one machine that overlapped.
InsertRequest(h) ==
  LET dupes == WithNumber(wanted, job[h].num) IN
  /\ job[h].at = "insert request"
  /\ wanted' = [q \in GameRequests |->
       IF q = job[h].id THEN GameRequest("saved", job[h].num, job[h].over \/ dupes # {})
                        ELSE [wanted[q] EXCEPT !.excused = @ \/ q \in dupes]]
  /\ End(h)
  /\ UNCHANGED <<game, rom, entry>>

\* update: closed with a message, or opened again, which the moderator answers for.
UpdateRequest(q) ==
  /\ q \in Saved(wanted)
  /\ wanted' = [wanted EXCEPT ![q].closed = ~@, ![q].excused = @ \/ wanted[q].closed]
  /\ UNCHANGED <<game, rom, entry, job>>

RemoveRequest(q) ==
  /\ q \in Saved(wanted)
  /\ wanted' = [wanted EXCEPT ![q] = GameRequest("removed", None, FALSE)]
  /\ UNCHANGED <<game, rom, entry, job>>

\* list
Listing(status) ==
  {q \in Saved(wanted) : CASE status = "open" -> ~wanted[q].closed
                           [] status = "closed" -> wanted[q].closed
                           [] status = "denied" -> wanted[q].closed /\ wanted[q].game = None
                           [] status = "all" -> TRUE}

-----------------------------------------------------------------------------
(* ReleaseApi.create, BackglassApi.create and update *)

\* getInstance, or the game of the path, or for a backglass the game of the ROM that
\* the file is made for, which may be gone: nobody unlinks the ROMs of a game.
FindGame(h, e) ==
  /\ Unsaved(entry[e]) \/ e \in Backglasses \cap Saved(entry)
  /\ \A k \in Handlers : job[k].id # e
  /\ \/ \E g \in Saved(game) : Begin(h, [Idle EXCEPT !.at = "save entry", !.id = e, !.game = g])
     \/ /\ e \in Backglasses /\ Unsaved(entry[e])
        /\ \E r \in Saved(rom) :
             /\ rom[r].game # None
             /\ Begin(h, [Idle EXCEPT !.at = "save entry", !.id = e, !.game = rom[r].game,
                                      !.over = rom[r].game \notin Saved(game)])
  /\ UNCHANGED <<game, rom, wanted, entry>>

\* Saving a backglass that has been removed throws.
SaveEntry(h) ==
  /\ job[h].at = "save entry"
  /\ entry' = [entry EXCEPT ![job[h].id] =
       IF @.at = "removed" THEN @ ELSE Entry("saved", job[h].game, job[h].over)]
  /\ End(h)
  /\ UNCHANGED <<game, rom, wanted>>

RemoveEntry(e) ==
  /\ e \in Saved(entry)
  /\ entry' = [entry EXCEPT ![e] = Entry("removed", None, FALSE)]
  /\ UNCHANGED <<game, rom, wanted, job>>

\* The process dies, or MongoDB or ipdb.org answers with an error.
Fail(h) ==
  /\ job[h].at # "idle"
  /\ End(h)
  /\ UNCHANGED <<game, rom, wanted, entry>>

CatalogueStep ==
  \/ \E h \in Handlers :
       \/ \E g \in Games, n \in Numbers \cup {None}, q \in Saved(wanted) \cup {None} : CreateGame(h, g, n, q)
       \/ \E g \in Games : CountReleases(h, g)
       \/ \E r \in Roms, n \in Numbers : FindGameOfRom(h, r, n)
       \/ \E q \in GameRequests, n \in Numbers : FindRequestedGame(h, q, n)
       \/ \E e \in Entries : FindGame(h, e)
       \/ \E r \in Roms : LinkRom(h, r)
       \/ ValidateGame(h) \/ InsertGame(h) \/ FindRoms(h) \/ FindRequest(h) \/ CloseRequest(h)
       \/ CountBackglasses(h) \/ RemoveGame(h) \/ InsertRom(h) \/ FindDupe(h)
       \/ InsertRequest(h) \/ SaveEntry(h) \/ Fail(h)
  \/ \E g \in Games, n \in Numbers \cup {None} : UpdateGame(g, n)
  \/ \E r \in Roms : RemoveRom(r)
  \/ \E q \in GameRequests : UpdateRequest(q) \/ RemoveRequest(q)
  \/ \E e \in Entries : RemoveEntry(e)

CatalogueSpec == CatalogueInit /\ [][CatalogueStep]_catalogueVars

-----------------------------------------------------------------------------
\* A release or backglass shows a game that exists (game.api.ts:260-267), but one that
\* was saved while its game was being counted and removed, and a backglass that took
\* its game from the ROM of a removed game (backglass.api.ts:81).
NoDanglingGame ==
  \A e \in Saved(entry) : entry[e].game \in Saved(game) \/ entry[e].excused

\* The game of a machine, created to the end, of which there never were two: neither did
\* two recreations overlap (nothing but the validation keeps the numbers apart), nor was an
\* original saved with a number that was taken, which takes over the ROMs of the other game
\* (game.schema.ts:129, game.api.ts:102-108).
Proper(g) ==
  /\ g \in Saved(game) /\ game[g].linked
  /\ \A f \in Games : ~game[f].renumbered /\ (game[f].num = game[g].num => ~game[f].excused)

\* Whoever comes first, the ROM or the game: they find each other (rom.api.ts:76,
\* game.api.ts:101-107), unless there were two games of the machine, the game was saved
\* between the lookup and the insertion of the ROM, or a game linked it that was removed
\* while it was still being created.
RomsLinked ==
  \A r \in Saved(rom), g \in Games :
    Proper(g) /\ rom[r].num = game[g].num /\ rom[r].num # None => rom[r].game = g \/ rom[r].excused

\* Nobody is left waiting for a game that exists (game.api.ts:110-131), unless there were
\* two games of the machine, the game was saved while the request was checked, the
\* moderator named another request or opened it again, or two requests for one machine
\* overlapped.
RequestsClosed ==
  \A q \in Listing("open"), g \in Games :
    Proper(g) /\ wanted[q].num = game[g].num => wanted[q].excused

\* A game is found by the ROMs and the requests for its machine, in whichever order they come
\* (game.api.ts:101-131, rom.api.ts:76).
GamesFound == RomsLinked /\ RequestsClosed

=============================================================================
