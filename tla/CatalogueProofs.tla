-------------------------- MODULE CatalogueProofs --------------------------
(***************************************************************************)
(* A game is found by what waits for it, and what shows a game shows one   *)
(* that exists (module Catalogue), whatever handlers work at once.         *)
(*                                                                         *)
(* The invariant says first what shape the documents and the jobs have,    *)
(* then what a handler knows of the number it works for: as long as no     *)
(* game was renumbered, one that was not overtaken knows the only game of  *)
(* the machine, or that there is none.  On that rests that a ROM or a      *)
(* request nobody has found yet is still in the hands of the handler that  *)
(* creates its game.                                                       *)
(***************************************************************************)
EXTENDS Catalogue, TLAPS

-----------------------------------------------------------------------------
(* The types *)

Stages == {"unsaved", "saved", "removed"}

GameRows ==
  [at : Stages, num : Numbers \cup {None}, linked : BOOLEAN, renumbered : BOOLEAN, excused : BOOLEAN]
RomRows == [at : Stages, num : Numbers \cup {None}, game : Games \cup {None}, excused : BOOLEAN]
RequestRows ==
  [at : Stages, num : Numbers \cup {None}, closed : BOOLEAN, game : Games \cup {None}, excused : BOOLEAN]
EntryRows == [at : Stages, game : Games \cup {None}, excused : BOOLEAN]

Ids == Games \cup Roms \cup GameRequests \cup Entries \cup {None}

JobStages ==
  {"idle", "validate game", "insert game", "insert original", "find roms", "link roms", "close request",
   "count backglasses", "remove game", "insert rom", "find dupe", "insert request", "save entry"}

\* What a handler has seen: entries, or requests.
Sights == SUBSET (Entries \cup GameRequests)

Jobs ==
  [at : JobStages, id : Ids, game : Games \cup {None}, num : Numbers \cup {None}, asked : GameRequests \cup {None},
   roms : SUBSET Roms, over : BOOLEAN, seen : Sights]

-----------------------------------------------------------------------------
(* The invariant *)

CatalogueTypes ==
  /\ game \in [Games -> GameRows]
  /\ rom \in [Roms -> RomRows]
  /\ wanted \in [GameRequests -> RequestRows]
  /\ entry \in [Entries -> EntryRows]
  /\ job \in [Handlers -> Jobs]

\* The stages of creating and of removing a game, and of asking for one.
Checking == {"validate game", "insert game", "insert original"}
Linking  == {"find roms", "link roms", "close request"}
Removing == {"count backglasses", "remove game"}
Asking   == {"find dupe", "insert request"}

\* What a handler has in hand is there, or is still to be saved.
SoundJob(j) ==
  /\ j.at \in Checking => j.id \in Games /\ game[j.id].at = "unsaved"
  /\ j.at \in Linking \cup Removing => j.id \in Games /\ game[j.id].at # "unsaved"
  /\ j.at \in Linking => ~game[j.id].linked
  /\ j.at = "insert rom" => j.id \in Roms /\ rom[j.id].at = "unsaved"
  /\ j.at \in Asking => j.id \in GameRequests /\ wanted[j.id].at = "unsaved" /\ j.num # None
  /\ j.at \in {"link roms", "close request"} => \A r \in j.roms : rom[r].at # "unsaved" /\ rom[r].num \in {j.num, None}
  /\ j.at = "close request" => j.roms = {} /\ j.asked \in GameRequests /\ wanted[j.asked].at # "unsaved"
  /\ j.at = "save entry" => j.id \in Entries /\ (j.game \in Saved(game) \/ j.over)
  /\ j.at \in Removing => j.seen = {}

SoundJobs == \A h \in Handlers : SoundJob(job[h])

\* Two handlers never save the same document.
Saves(j) ==
  CASE j.at \in Checking \cup Linking -> "game"
    [] j.at = "insert rom" -> "rom"
    [] j.at \in Asking -> "request"
    [] OTHER -> "nothing"

Apart(i, j) == i.id = j.id /\ Saves(i) # "nothing" => Saves(i) # Saves(j)

OneEach == \A h, k \in Handlers : h # k => Apart(job[h], job[k])

\* Unsaved games, saved requests and removed ROMs.
Rows ==
  /\ \A g \in Games :
       game[g].at = "unsaved" => ~game[g].linked /\ ~game[g].renumbered /\ game[g].num = None
  /\ \A q \in GameRequests : wanted[q].at = "saved" => wanted[q].num # None
  /\ \A r \in Roms : rom[r].at = "removed" => rom[r].num = None

Shape == CatalogueTypes /\ SoundJobs /\ OneEach /\ Rows

\* No game has another number than it was created with.
Same == \A g \in Games : ~game[g].renumbered

\* What a handler knows of the games with the number it works for.
NumberJob(j) ==
  /\ j.at \in Linking => game[j.id].num = j.num
  /\ j.at \in {"insert game"} \cup Asking /\ ~j.over => WithNumber(game, j.num) = {}
  /\ j.at = "insert rom" /\ ~j.over =>
       IF j.game = None THEN WithNumber(game, j.num) = {}
                        ELSE j.game \in Saved(game) /\ game[j.game].num = j.num

\* Of two saved games of a machine, one was saved too late.
OneInTime ==
  \A f, g \in Saved(game) :
    game[f].num = game[g].num /\ game[f].num # None => f = g \/ game[f].excused \/ game[g].excused

\* It all depends on the numbers, which an update may change.
NumbersKnown == Same => (\A h \in Handlers : NumberJob(job[h])) /\ OneInTime

\* A game of a machine of which none was saved too late.
Lasting(g) ==
  /\ g \in Saved(game) /\ game[g].num # None
  /\ \A f \in Games : ~game[f].renumbered /\ (game[f].num = game[g].num => ~game[f].excused)

\* A ROM that its game has still to find.
Loose(r, g) ==
  Lasting(g) /\ r \in WithNumber(rom, game[g].num) /\ rom[r].game # g /\ ~rom[r].excused

\* A loose ROM is in the hands of whoever creates its game.
RomsKnown ==
  \A r \in Roms, g \in Games : Loose(r, g) =>
    /\ ~game[g].linked
    /\ \A h \in Handlers : job[h].at \in {"link roms", "close request"} /\ job[h].id = g => r \in job[h].roms

\* A request that its game has still to find.
Waiting(q, g) ==
  Lasting(g) /\ q \in WithNumber(wanted, game[g].num) /\ ~wanted[q].closed /\ ~wanted[q].excused

\* Of two requests for a machine, both are excused.
OneRequest ==
  \A p, q \in Saved(wanted) :
    p # q /\ wanted[p].num = wanted[q].num => wanted[p].excused /\ wanted[q].excused

\* So is a request that waits.
RequestsKnown ==
  \A q \in GameRequests, g \in Games : Waiting(q, g) =>
    /\ ~game[g].linked
    /\ \A h \in Handlers : job[h].at = "close request" /\ job[h].id = g => q = job[h].asked /\ q \notin job[h].seen

CatalogueInv == Shape /\ NumbersKnown /\ RomsKnown /\ OneRequest /\ RequestsKnown /\ NoDanglingGame

-----------------------------------------------------------------------------
(* Jobs and documents *)

Others(h) == \A k \in Handlers : k # h => job'[k] = job[k]

\* Equal but for what has been overtaken.
Alike(i, j) ==
  /\ i.at = j.at /\ i.id = j.id /\ i.game = j.game /\ i.num = j.num
  /\ i.asked = j.asked /\ i.roms = j.roms /\ i.seen = j.seen

\* What a handler does to the others that have looked for the game g or the number n.
Marked(h, g, n) ==
  \A k \in Handlers : k # h =>
    /\ Alike(job'[k], job[k])
    /\ job'[k].over <=> job[k].over \/ (g # None /\ job[k].game = g) \/ (n # None /\ job[k].num = n)

USE CatalogueAssumption

\* A handler at rest.
LEMMA IdleJob == Idle \in Jobs /\ Idle.at = "idle" /\ Idle.num = None
  BY DEF Idle, Jobs, JobStages, Sights, Ids

\* The shape gives the types of the variables.
LEMMA TypesOf ==
  ASSUME Shape
  PROVE  /\ game \in [Games -> GameRows] /\ rom \in [Roms -> RomRows]
         /\ wanted \in [GameRequests -> RequestRows] /\ entry \in [Entries -> EntryRows]
         /\ job \in [Handlers -> Jobs]
  BY DEF Shape, CatalogueTypes

\* A handler has its job changed, and the others keep theirs.
LEMMA JobMoves ==
  ASSUME job \in [Handlers -> Jobs], NEW h \in Handlers, NEW j \in Jobs, job' = [job EXCEPT ![h] = j]
  PROVE  job' \in [Handlers -> Jobs] /\ job'[h] = j /\ Others(h)
  BY DEF Others

\* A handler that ends rests, and the others keep their jobs.
LEMMA EndMoves ==
  ASSUME job \in [Handlers -> Jobs], NEW h \in Handlers, End(h)
  PROVE  job' \in [Handlers -> Jobs] /\ job'[h].at = "idle" /\ Others(h)
  BY IdleJob, JobMoves DEF End

\* A job that has been overtaken is otherwise what it was.
LEMMA OverJob ==
  ASSUME NEW j \in Jobs, NEW o \in BOOLEAN
  PROVE  LET i == [j EXCEPT !.over = o] IN i \in Jobs /\ Alike(i, j) /\ i.over = o
  BY DEF Jobs, Alike

\* The stages that the steps below lead to.
LEMMA StagesKnown ==
  {"insert game", "find roms", "link roms", "close request", "remove game", "insert request"} \subseteq JobStages
  BY DEF JobStages

\* A job at another stage is otherwise what it was.
LEMMA StageJob ==
  ASSUME NEW j \in Jobs, NEW s \in JobStages
  PROVE  LET i == [j EXCEPT !.at = s]
         IN i \in Jobs /\ i.at = s /\ i.id = j.id /\ i.num = j.num /\ (i.over <=> j.over)
              /\ i.roms = j.roms /\ i.seen = j.seen
  BY DEF Jobs

\* So is one that has seen something,
LEMMA SeenJob ==
  ASSUME NEW j \in Jobs, NEW es \in Sights
  PROVE  LET i == [j EXCEPT !.seen = es]
         IN i \in Jobs /\ i.at = j.at /\ i.id = j.id /\ i.num = j.num
              /\ i.asked = j.asked /\ i.roms = j.roms /\ i.seen = es
  BY DEF Jobs

\* and one that has found a request.
LEMMA AskedJob ==
  ASSUME NEW j \in Jobs, NEW q \in GameRequests \cup {None}
  PROVE  LET i == [j EXCEPT !.asked = q]
         IN i \in Jobs /\ i.at = j.at /\ i.id = j.id /\ i.num = j.num /\ i.asked = q /\ i.roms = j.roms
  BY DEF Jobs

\* A game that is linked is otherwise what it was,
LEMMA LinkedRow ==
  ASSUME NEW x \in GameRows
  PROVE  LET i == [x EXCEPT !.linked = TRUE]
         IN i \in GameRows /\ i.linked /\ i.at = x.at /\ i.num = x.num
              /\ i.renumbered = x.renumbered /\ i.excused = x.excused
  BY DEF GameRows

\* so is one that is removed,
LEMMA RemovedRow ==
  ASSUME NEW x \in GameRows
  PROVE  LET i == [x EXCEPT !.at = "removed"]
         IN i \in GameRows /\ i.at = "removed" /\ i.num = x.num /\ i.linked = x.linked
              /\ i.renumbered = x.renumbered /\ i.excused = x.excused
  BY DEF GameRows, Stages

\* and one that has another number.
LEMMA RenumberedRow ==
  ASSUME NEW x \in GameRows, NEW n \in Numbers \cup {None}
  PROVE  LET i == [x EXCEPT !.num = n, !.renumbered = TRUE]
         IN i \in GameRows /\ i.renumbered /\ i.at = x.at /\ i.linked = x.linked
  BY DEF GameRows

-----------------------------------------------------------------------------
(* What each action does, field by field: the lemma XEffect says of the action X that it
   does XDoes, with the types kept.  The other lemmas use only that. *)

CreateGameDoes(h, g, n, q) ==
  /\ CatalogueTypes' /\ Others(h) /\ UNCHANGED <<game, rom, wanted, entry>>
  /\ game[g].at = "unsaved" /\ (\A k \in Handlers : job[k].id # g)
  /\ job'[h].at \in {"validate game", "insert original"} /\ job'[h].id = g

LEMMA CreateGameEffect ==
  ASSUME Shape, NEW h \in Handlers, NEW g \in Games, NEW n \in Numbers \cup {None},
         NEW q \in Saved(wanted) \cup {None}, CreateGame(h, g, n, q)
  PROVE  CreateGameDoes(h, g, n, q)
<1> USE DEF CreateGameDoes
<1> DEFINE j(at) == [Idle EXCEPT !.at = at, !.id = g, !.num = n, !.asked = q]
<1>1. \A at \in {"validate game", "insert original"} : j(at) \in Jobs /\ j(at).at = at /\ j(at).id = g
  BY TypesOf DEF Idle, Jobs, JobStages, Sights, Ids, Saved
<1> HIDE DEF j
<1>2. /\ \E at \in {"validate game", "insert original"} : job' = [job EXCEPT ![h] = j(at)]
      /\ UNCHANGED <<game, rom, wanted, entry>>
  BY DEF CreateGame, Begin, j
<1> QED
  BY <1>1, <1>2, JobMoves, TypesOf DEF CreateGame, Unsaved, CatalogueTypes

ValidateGameDoes(h) ==
  /\ CatalogueTypes' /\ Others(h) /\ UNCHANGED <<game, rom, wanted, entry>>
  /\ job[h].at = "validate game"
  /\ \/ job'[h].at = "idle"
     \/ /\ job'[h].at = "insert game" /\ job'[h].id = job[h].id /\ job'[h].num = job[h].num
        /\ WithNumber(game, job[h].num) = {}

LEMMA ValidateGameEffect ==
  ASSUME Shape, NEW h \in Handlers, ValidateGame(h)
  PROVE  ValidateGameDoes(h)
<1> USE DEF ValidateGameDoes
<1> DEFINE i == [job[h] EXCEPT !.at = "insert game"]
           j == [i EXCEPT !.over = FALSE]
<1>0. i \in Jobs /\ i.at = "insert game" /\ i.id = job[h].id /\ i.num = job[h].num
  BY TypesOf, StagesKnown, StageJob
<1> HIDE DEF i
<1>1. j \in Jobs /\ j.at = "insert game" /\ j.id = job[h].id /\ j.num = job[h].num
  BY <1>0, OverJob DEF Alike
<1> HIDE DEF j
<1>2. /\ UNCHANGED <<game, rom, wanted, entry>> /\ job[h].at = "validate game"
      /\ job' = [job EXCEPT ![h] = IF WithNumber(game, job[h].num) = {} THEN j ELSE Idle]
  BY DEF ValidateGame, j, i
<1> QED
  BY <1>1, <1>2, JobMoves, IdleJob, TypesOf DEF CatalogueTypes

InsertGameDoes(h) ==
  /\ CatalogueTypes' /\ Marked(h, None, job[h].num) /\ UNCHANGED <<rom, wanted, entry>>
  /\ job[h].at \in {"insert game", "insert original"} /\ job[h].id \in Games
  /\ job'[h].at = "find roms" /\ job'[h].id = job[h].id /\ job'[h].num = job[h].num
  /\ game'[job[h].id].at = "saved" /\ game'[job[h].id].num = job[h].num
  /\ ~game'[job[h].id].linked /\ ~game'[job[h].id].renumbered
  /\ game'[job[h].id].excused =
       IF job[h].at = "insert original" THEN WithNumber(game, job[h].num) # {} ELSE job[h].over
  /\ \A g \in Games : g # job[h].id => game'[g] = game[g]

LEMMA InsertGameEffect ==
  ASSUME Shape, NEW h \in Handlers, InsertGame(h)
  PROVE  InsertGameDoes(h)
<1> USE DEF InsertGameDoes
<1> USE TypesOf
<1>1. job[h].at \in {"insert game", "insert original"} /\ job[h].id \in Games
  BY DEF InsertGame, Shape, SoundJobs, SoundJob, Checking
<1>2. ASSUME NEW k \in Handlers, k # h
      PROVE  /\ job'[k] \in Jobs /\ Alike(job'[k], job[k])
             /\ job'[k].over <=> job[k].over \/ (job[h].num # None /\ job[k].num = job[h].num)
  <2> DEFINE o == job[k].over \/ (job[h].num # None /\ job[k].num = job[h].num)
  <2>1. job'[k] = [job[k] EXCEPT !.over = o]
    BY <1>2 DEF InsertGame
  <2>2. o \in BOOLEAN /\ job[k] \in Jobs
    BY DEF Jobs
  <2> HIDE DEF o
  <2>3. job'[k] \in Jobs /\ Alike(job'[k], job[k]) /\ job'[k].over = o
    BY <2>1, <2>2, OverJob
  <2> QED
    BY <2>3 DEF o
<1>3. /\ job'[h] \in Jobs /\ job'[h].at = "find roms"
      /\ job'[h].id = job[h].id /\ job'[h].num = job[h].num
  <2>1. job'[h] = [job[h] EXCEPT !.at = "find roms"]
    BY DEF InsertGame
  <2> DEFINE i == [job[h] EXCEPT !.at = "find roms"]
  <2>2. i \in Jobs /\ i.at = "find roms" /\ i.id = job[h].id /\ i.num = job[h].num
    BY StagesKnown, StageJob
  <2> QED
    BY <2>1, <2>2
<1>4. job' \in [Handlers -> Jobs]
  <2>1. DOMAIN job' = Handlers /\ job' = [k \in Handlers |-> job'[k]]
    BY DEF InsertGame
  <2> QED
    BY <1>2, <1>3, <2>1
<1> DEFINE second == IF job[h].at = "insert original" THEN WithNumber(game, job[h].num) # {} ELSE job[h].over
           row == Game("saved", job[h].num, second)
<1>6. game' = [game EXCEPT ![job[h].id] = row]
  BY DEF InsertGame
<1>7. second \in BOOLEAN /\ job[h].num \in Numbers \cup {None}
  BY DEF Jobs
<1> HIDE DEF second
<1>5. /\ row \in GameRows /\ row.at = "saved" /\ row.num = job[h].num
      /\ ~row.linked /\ ~row.renumbered /\ row.excused = second
  BY <1>7 DEF Game, GameRows, Stages
<1> HIDE DEF row
<1>8. /\ game' \in [Games -> GameRows] /\ game'[job[h].id] = row
      /\ \A g \in Games : g # job[h].id => game'[g] = game[g]
  BY <1>1, <1>5, <1>6
<1>9. CatalogueTypes'
  BY <1>4, <1>8 DEF InsertGame, CatalogueTypes
<1> USE DEF second
<1> QED
  BY <1>1, <1>2, <1>3, <1>5, <1>8, <1>9 DEF InsertGame, Marked

FindRomsDoes(h) ==
  /\ CatalogueTypes' /\ Others(h) /\ UNCHANGED <<game, rom, wanted, entry>>
  /\ job[h].at = "find roms"
  /\ job'[h].at = "link roms" /\ job'[h].id = job[h].id /\ job'[h].num = job[h].num
  /\ job'[h].roms = WithNumber(rom, job[h].num)

LEMMA FindRomsEffect ==
  ASSUME Shape, NEW h \in Handlers, FindRoms(h)
  PROVE  FindRomsDoes(h)
<1> USE DEF FindRomsDoes
<1> DEFINE i == [job[h] EXCEPT !.at = "link roms"]
           j == [i EXCEPT !.roms = WithNumber(rom, job[h].num)]
<1>0. i \in Jobs /\ i.at = "link roms" /\ i.id = job[h].id /\ i.num = job[h].num
  BY TypesOf, StagesKnown, StageJob
<1> HIDE DEF i
<1>1. /\ j \in Jobs /\ j.at = "link roms" /\ j.id = job[h].id /\ j.num = job[h].num
      /\ j.roms = WithNumber(rom, job[h].num)
  <2>1. WithNumber(rom, job[h].num) \subseteq Roms
    BY TypesOf DEF WithNumber, Saved
  <2> QED
    BY <1>0, <2>1 DEF Jobs
<1> HIDE DEF j
<1>2. /\ job' = [job EXCEPT ![h] = j] /\ UNCHANGED <<game, rom, wanted, entry>>
      /\ job[h].at = "find roms"
  BY DEF FindRoms, j, i
<1> QED
  BY <1>1, <1>2, JobMoves, TypesOf DEF CatalogueTypes

LinkRomDoes(h, r) ==
  /\ CatalogueTypes' /\ Others(h) /\ UNCHANGED <<game, wanted, entry>>
  /\ job[h].at = "link roms" /\ r \in job[h].roms /\ job[h].id \in Games
  /\ \A s \in Roms : s # r => rom'[s] = rom[s]
  /\ \/ /\ rom[r].at = "saved" /\ rom'[r].at = "saved" /\ rom'[r].num = rom[r].num
        /\ rom'[r].game = job[h].id
        /\ rom'[r].excused <=> rom[r].excused \/ job[h].id \notin Saved(game)
        /\ job'[h].at = "link roms" /\ job'[h].id = job[h].id /\ job'[h].num = job[h].num
        /\ job'[h].roms = job[h].roms \ {r}
     \/ rom[r].at # "saved" /\ rom'[r] = rom[r] /\ job'[h].at = "idle"

LEMMA LinkRomEffect ==
  ASSUME Shape, NEW h \in Handlers, NEW r \in Roms, LinkRom(h, r)
  PROVE  LinkRomDoes(h, r)
<1> USE DEF LinkRomDoes
<1> USE TypesOf
<1>1. job[h].at = "link roms" /\ job[h].id \in Games /\ r \in job[h].roms
  BY DEF LinkRom, Shape, SoundJobs, SoundJob, Linking
<1>2. UNCHANGED <<game, wanted, entry>>
  BY DEF LinkRom
<1>3. CASE r \in Saved(rom)
  <2> DEFINE j == [job[h] EXCEPT !.roms = @ \ {r}]
             o == rom[r].excused \/ job[h].id \notin Saved(game)
             row == [rom[r] EXCEPT !.game = job[h].id, !.excused = o]
  <2>1. /\ j \in Jobs /\ j.at = "link roms" /\ j.id = job[h].id /\ j.num = job[h].num
        /\ j.roms = job[h].roms \ {r}
    <3>1. job[h].roms \ {r} \subseteq Roms
      BY DEF Jobs
    <3> QED
      BY <1>1, <3>1 DEF Jobs
  <2>2. o \in BOOLEAN /\ rom[r] \in RomRows
    BY DEF RomRows
  <2>3. job' = [job EXCEPT ![h] = j] /\ rom' = [rom EXCEPT ![r] = row]
    BY <1>3 DEF LinkRom, Jobs, RomRows
  <2> HIDE DEF j, o
  <2>5. rom[r].at = "saved"
    BY <1>3 DEF Saved
  <2>6. row \in RomRows /\ row.game = job[h].id /\ row.at = "saved" /\ row.num = rom[r].num /\ row.excused = o
    BY <1>1, <2>2, <2>5 DEF RomRows
  <2> HIDE DEF row
  <2>4. rom' \in [Roms -> RomRows] /\ rom'[r] = row /\ \A s \in Roms : s # r => rom'[s] = rom[s]
    BY <2>3, <2>6
  <2> QED
    BY <1>1, <1>2, <2>1, <2>3, <2>4, <2>5, <2>6, JobMoves DEF CatalogueTypes, o
<1>4. CASE r \notin Saved(rom)
  <2>1. rom' = rom /\ End(h) /\ rom[r].at # "saved"
    BY <1>4 DEF LinkRom, Saved
  <2> QED
    BY <1>1, <1>2, <2>1, EndMoves DEF CatalogueTypes
<1> QED
  BY <1>3, <1>4

\* The request that is named, or one with the number.
Found(h) ==
  IF job[h].asked # None THEN {job[h].asked} \cap Saved(wanted) ELSE WithNumber(wanted, job[h].num)

FindRequestDoes(h) ==
  /\ CatalogueTypes' /\ Others(h) /\ UNCHANGED <<rom, entry>>
  /\ job[h].at = "link roms" /\ job[h].roms = {}
  /\ job[h].id \in Games /\ game[job[h].id].at # "unsaved"
  /\ \A q \in GameRequests :
       /\ wanted'[q].at = wanted[q].at /\ wanted'[q].num = wanted[q].num
       /\ (wanted'[q].closed <=> wanted[q].closed)
       /\ wanted'[q].excused <=>
            wanted[q].excused \/ (job[h].asked \notin {None, q} /\ wanted[q].num = job[h].num)
  /\ \A g \in Games :
       /\ game'[g].at = game[g].at /\ game'[g].num = game[g].num
       /\ (game'[g].renumbered <=> game[g].renumbered) /\ (game'[g].excused <=> game[g].excused)
       /\ game'[g].linked <=> game[g].linked \/ (g = job[h].id /\ Found(h) = {})
  /\ \/ Found(h) = {} /\ job'[h].at = "idle"
     \/ /\ job'[h].at = "close request" /\ job'[h].id = job[h].id /\ job'[h].num = job[h].num
        /\ job'[h].roms = {} /\ job'[h].asked \in Found(h) /\ job'[h].asked \in GameRequests
        /\ wanted[job'[h].asked].at = "saved"
        /\ job'[h].seen = IF wanted[job'[h].asked].closed THEN {job'[h].asked} ELSE {}

LEMMA FindRequestEffect ==
  ASSUME Shape, NEW h \in Handlers, FindRequest(h)
  PROVE  FindRequestDoes(h)
<1> USE TypesOf
<1>1. /\ job[h].at = "link roms" /\ job[h].id \in Games /\ game[job[h].id].at # "unsaved"
      /\ job[h].roms = {} /\ UNCHANGED <<rom, entry>>
  BY DEF FindRequest, Shape, SoundJobs, SoundJob, Linking
<1>2. /\ wanted' \in [GameRequests -> RequestRows]
      /\ \A q \in GameRequests :
           /\ wanted'[q].at = wanted[q].at /\ wanted'[q].num = wanted[q].num
           /\ (wanted'[q].closed <=> wanted[q].closed)
           /\ wanted'[q].excused <=>
                wanted[q].excused \/ (job[h].asked \notin {None, q} /\ wanted[q].num = job[h].num)
  <2> DEFINE o(q) == wanted[q].excused \/ (job[h].asked \notin {None, q} /\ wanted[q].num = job[h].num)
  <2>1. wanted' = [q \in GameRequests |-> [wanted[q] EXCEPT !.excused = o(q)]]
    BY DEF FindRequest
  <2>2. \A q \in GameRequests : o(q) \in BOOLEAN /\ wanted[q] \in RequestRows
    BY DEF RequestRows
  <2> HIDE DEF o
  <2>3. ASSUME NEW q \in GameRequests
        PROVE  /\ wanted'[q] \in RequestRows
               /\ wanted'[q].at = wanted[q].at /\ wanted'[q].num = wanted[q].num
               /\ (wanted'[q].closed <=> wanted[q].closed)
               /\ wanted'[q].excused <=> o(q)
    BY <2>1, <2>2 DEF RequestRows
  <2>4. wanted' \in [GameRequests -> RequestRows]
    BY <2>1, <2>3
  <2> QED
    BY <2>3, <2>4 DEF o
<1>3. CASE Found(h) = {}
  <2> DEFINE row == [game[job[h].id] EXCEPT !.linked = TRUE]
  <2>1. End(h) /\ game' = [game EXCEPT ![job[h].id] = row]
    BY <1>3 DEF FindRequest, Found
  <2>2. /\ row \in GameRows /\ row.linked /\ row.at = game[job[h].id].at /\ row.num = game[job[h].id].num
        /\ row.renumbered = game[job[h].id].renumbered /\ row.excused = game[job[h].id].excused
    BY <1>1, LinkedRow
  <2> HIDE DEF row
  <2>3. game' \in [Games -> GameRows] /\ game'[job[h].id] = row /\ \A g \in Games : g # job[h].id => game'[g] = game[g]
    BY <1>1, <2>1, <2>2
  <2>4. \A g \in Games :
          /\ game'[g].at = game[g].at /\ game'[g].num = game[g].num
          /\ (game'[g].renumbered <=> game[g].renumbered) /\ (game'[g].excused <=> game[g].excused)
          /\ game'[g].linked <=> game[g].linked \/ g = job[h].id
    BY <2>2, <2>3
  <2>5. CatalogueTypes' /\ Others(h) /\ job'[h].at = "idle"
    BY <1>1, <1>2, <2>1, <2>3, EndMoves DEF CatalogueTypes
  <2> QED
    BY <1>1, <1>2, <1>3, <2>4, <2>5 DEF FindRequestDoes
<1>4. CASE Found(h) # {}
  <2>1. /\ game' = game
        /\ \E q \in Found(h) :
             job' = [job EXCEPT ![h].at = "close request", ![h].asked = q,
                                ![h].seen = IF wanted[q].closed THEN {q} ELSE {}]
    BY <1>4 DEF FindRequest, Found
  <2>2. PICK q \in Found(h) :
          job' = [job EXCEPT ![h].at = "close request", ![h].asked = q,
                             ![h].seen = IF wanted[q].closed THEN {q} ELSE {}]
    BY <2>1
  <2>3. q \in GameRequests /\ wanted[q].at = "saved"
    BY DEF Found, WithNumber, Saved
  <2> DEFINE seen == IF wanted[q].closed THEN {q} ELSE {}
             i == [job[h] EXCEPT !.at = "close request"]
             i2 == [i EXCEPT !.asked = q]
             j == [i2 EXCEPT !.seen = seen]
  <2>4. job[h] \in Jobs /\ q \in GameRequests /\ seen \in Sights
    BY <2>3 DEF Sights
  <2>5. job' = [job EXCEPT ![h] = j]
    BY <2>2
  <2> HIDE DEF seen
  <2>a. /\ i \in Jobs /\ i.at = "close request" /\ i.id = job[h].id /\ i.num = job[h].num
        /\ i.roms = job[h].roms
    BY <2>4, StagesKnown, StageJob
  <2> HIDE DEF i
  <2>b. /\ i2 \in Jobs /\ i2.at = "close request" /\ i2.id = job[h].id /\ i2.num = job[h].num
        /\ i2.roms = job[h].roms /\ i2.asked = q
    <3>1. q \in GameRequests \cup {None}
      BY <2>4
    <3> QED
      BY <2>a, <3>1, AskedJob
  <2> HIDE DEF i2
  <2>6. /\ j \in Jobs /\ j.at = "close request" /\ j.id = job[h].id /\ j.num = job[h].num
        /\ j.roms = job[h].roms /\ j.asked = q /\ j.seen = seen
    BY <2>4, <2>b, SeenJob
  <2> HIDE DEF j
  <2>7. job' \in [Handlers -> Jobs] /\ job'[h] = j /\ Others(h)
    BY <2>5, <2>6, JobMoves
  <2>8. CatalogueTypes'
    BY <1>1, <1>2, <2>1, <2>7 DEF CatalogueTypes
  <2>9. /\ job'[h].at = "close request" /\ job'[h].id = job[h].id /\ job'[h].num = job[h].num
        /\ job'[h].roms = {} /\ job'[h].asked = q
        /\ job'[h].seen = IF wanted[q].closed THEN {q} ELSE {}
    BY <1>1, <2>6, <2>7 DEF seen
  <2> QED
    BY <1>1, <1>2, <1>4, <2>1, <2>3, <2>7, <2>8, <2>9 DEF FindRequestDoes
<1> QED
  BY <1>3, <1>4

CloseRequestDoes(h) ==
  /\ CatalogueTypes' /\ Others(h) /\ UNCHANGED <<rom, entry>>
  /\ job[h].at = "close request" /\ job[h].asked \in GameRequests
  /\ job[h].id \in Games /\ game[job[h].id].at # "unsaved"
  /\ job'[h].at = "idle"
  /\ \A g \in Games :
       /\ game'[g].at = game[g].at /\ game'[g].num = game[g].num
       /\ (game'[g].renumbered <=> game[g].renumbered) /\ (game'[g].excused <=> game[g].excused)
       /\ game'[g].linked <=> game[g].linked \/ (g = job[h].id /\ job[h].asked \in Saved(wanted))
  /\ \A q \in GameRequests :
       /\ wanted'[q].at = wanted[q].at /\ wanted'[q].num = wanted[q].num
       /\ (wanted'[q].excused <=> wanted[q].excused)
       /\ wanted'[q].closed <=> wanted[q].closed \/ (q = job[h].asked /\ q \in Saved(wanted) /\ q \notin job[h].seen)

LEMMA CloseRequestEffect ==
  ASSUME Shape, NEW h \in Handlers, CloseRequest(h)
  PROVE  CloseRequestDoes(h)
<1> USE DEF CloseRequestDoes
<1> USE TypesOf
<1>1. /\ job[h].at = "close request" /\ job[h].asked \in GameRequests
      /\ job[h].id \in Games /\ game[job[h].id].at # "unsaved"
      /\ End(h) /\ UNCHANGED <<rom, entry>>
  BY DEF CloseRequest, Shape, SoundJobs, SoundJob, Linking
<1>2. CASE job[h].asked \in Saved(wanted)
  <2> DEFINE q == job[h].asked
             g == job[h].id
             c == wanted[q].closed \/ q \notin job[h].seen
             row == [wanted[q] EXCEPT !.closed = c, !.game = g]
             grow == [game[g] EXCEPT !.linked = TRUE]
  <2>0. wanted' = [wanted EXCEPT ![q] = row]
    BY <1>1, <1>2 DEF CloseRequest, RequestRows
  <2>1. game' = [game EXCEPT ![g] = grow]
    BY <1>1, <1>2 DEF CloseRequest, GameRows
  <2>2. c \in BOOLEAN /\ wanted[q] \in RequestRows /\ game[g] \in GameRows
    BY <1>1 DEF RequestRows
  <2> HIDE DEF c
  <2>3. /\ row \in RequestRows /\ row.at = wanted[q].at /\ row.num = wanted[q].num
        /\ row.excused = wanted[q].excused
        /\ row.closed <=> c
    BY <1>1, <2>2 DEF RequestRows
  <2>4. /\ grow \in GameRows /\ grow.at = game[g].at /\ grow.num = game[g].num /\ grow.linked
        /\ grow.renumbered = game[g].renumbered /\ grow.excused = game[g].excused
    BY <2>2, LinkedRow
  <2> HIDE DEF row, grow
  <2>5. /\ wanted' \in [GameRequests -> RequestRows] /\ wanted'[q] = row
        /\ game' \in [Games -> GameRows] /\ game'[g] = grow
        /\ \A f \in Games : f # g => game'[f] = game[f]
        /\ \A p \in GameRequests : p # q => wanted'[p] = wanted[p]
    BY <1>1, <2>0, <2>1, <2>3, <2>4
  <2>6. CatalogueTypes' /\ Others(h) /\ job'[h].at = "idle"
    BY <1>1, <2>5, EndMoves DEF CatalogueTypes
  <2>7. \A f \in Games :
          /\ game'[f].at = game[f].at /\ game'[f].num = game[f].num
          /\ (game'[f].renumbered <=> game[f].renumbered) /\ (game'[f].excused <=> game[f].excused)
          /\ game'[f].linked <=> game[f].linked \/ f = g
    BY <2>4, <2>5
  <2>8. \A p \in GameRequests :
          /\ wanted'[p].at = wanted[p].at /\ wanted'[p].num = wanted[p].num
          /\ (wanted'[p].excused <=> wanted[p].excused)
          /\ wanted'[p].closed <=> wanted[p].closed \/ (p = q /\ p \notin job[h].seen)
    BY <2>3, <2>5 DEF c
  <2> QED
    BY <1>1, <1>2, <2>6, <2>7, <2>8
<1>3. CASE job[h].asked \notin Saved(wanted)
  <2>1. UNCHANGED <<wanted, game>>
    BY <1>3 DEF CloseRequest
  <2> QED
    BY <1>1, <1>3, <2>1, EndMoves DEF CatalogueTypes
<1> QED
  BY <1>2, <1>3

UpdateGameDoes(g, n) ==
  /\ CatalogueTypes' /\ UNCHANGED <<rom, wanted, entry, job>>
  /\ game[g].at = "saved" /\ game'[g].at = "saved" /\ (game'[g].linked <=> game[g].linked)
  /\ game'[g].renumbered
  /\ \A f \in Games : f # g => game'[f] = game[f]

LEMMA UpdateGameEffect ==
  ASSUME Shape, NEW g \in Games, NEW n \in Numbers \cup {None}, UpdateGame(g, n)
  PROVE  UpdateGameDoes(g, n)
<1> USE DEF UpdateGameDoes
<1> USE TypesOf
<1> DEFINE row == [game[g] EXCEPT !.num = n, !.renumbered = TRUE]
<1>1. game' = [game EXCEPT ![g] = row] /\ game[g].at = "saved" /\ UNCHANGED <<rom, wanted, entry, job>>
  BY DEF UpdateGame, Saved, GameRows
<1>2. row \in GameRows /\ row.at = game[g].at /\ row.linked = game[g].linked /\ row.renumbered
  BY RenumberedRow
<1> HIDE DEF row
<1> QED
  BY <1>1, <1>2 DEF CatalogueTypes

CountReleasesDoes(h, g) ==
  /\ CatalogueTypes' /\ Others(h) /\ UNCHANGED <<game, rom, wanted, entry>>
  /\ game[g].at = "saved"
  /\ job'[h].at = "count backglasses" /\ job'[h].id = g /\ job'[h].seen = {}

LEMMA CountReleasesEffect ==
  ASSUME Shape, NEW h \in Handlers, NEW g \in Games, CountReleases(h, g)
  PROVE  CountReleasesDoes(h, g)
<1> USE DEF CountReleasesDoes
<1> DEFINE j == [Idle EXCEPT !.at = "count backglasses", !.id = g, !.seen = {}]
<1>1. j \in Jobs /\ j.at = "count backglasses" /\ j.id = g /\ j.seen = {}
  BY DEF Idle, Jobs, JobStages, Sights, Ids
<1> HIDE DEF j
<1>2. /\ job' = [job EXCEPT ![h] = j] /\ UNCHANGED <<game, rom, wanted, entry>>
      /\ game[g].at = "saved"
  BY TypesOf DEF CountReleases, Begin, Saved, j
<1> QED
  BY <1>1, <1>2, JobMoves, TypesOf DEF CatalogueTypes

CountBackglassesDoes(h) ==
  /\ CatalogueTypes' /\ Others(h) /\ UNCHANGED <<game, rom, wanted, entry>>
  /\ job[h].at = "count backglasses"
  /\ \/ job'[h].at = "idle"
     \/ job'[h].at = "remove game" /\ job'[h].id = job[h].id /\ job'[h].seen = job[h].seen

LEMMA CountBackglassesEffect ==
  ASSUME Shape, NEW h \in Handlers, CountBackglasses(h)
  PROVE  CountBackglassesDoes(h)
<1> USE TypesOf
<1> DEFINE found == EntriesOf(Backglasses, job[h].id)
           seen == job[h].seen \cup EntriesOf(Backglasses, job[h].id)
           i == [job[h] EXCEPT !.at = "remove game"]
           j == [i EXCEPT !.seen = seen]
<1>1. /\ job' = [job EXCEPT ![h] = IF found = {} THEN j ELSE Idle]
      /\ UNCHANGED <<game, rom, wanted, entry>> /\ job[h].at = "count backglasses"
  BY DEF CountBackglasses, CountThenRemove
<1>2. CASE found = {}
  <2>1. seen = job[h].seen
    BY <1>2
  <2> HIDE DEF seen
  <2>0. i \in Jobs /\ i.at = "remove game" /\ i.id = job[h].id /\ seen \in Sights
    <3>1. i \in Jobs /\ i.at = "remove game" /\ i.id = job[h].id
      BY StagesKnown, StageJob
    <3>2. job[h].seen \in Sights
      BY DEF Jobs
    <3> QED
      BY <2>1, <3>1, <3>2
  <2> HIDE DEF i
  <2>2. j \in Jobs /\ j.at = "remove game" /\ j.id = job[h].id /\ j.seen = job[h].seen
    BY <2>0, <2>1 DEF Jobs
  <2> HIDE DEF j
  <2> QED
    BY <1>1, <1>2, <2>2, JobMoves DEF CatalogueTypes, CountBackglassesDoes
<1>3. CASE found # {}
  BY <1>1, <1>3, IdleJob, JobMoves DEF CatalogueTypes, CountBackglassesDoes
<1> QED
  BY <1>2, <1>3

RemoveGameDoes(h) ==
  /\ CatalogueTypes' /\ Marked(h, job[h].id, None) /\ UNCHANGED <<rom, wanted>>
  /\ job[h].at = "remove game" /\ job'[h].at = "idle"
  /\ job[h].id \in Games /\ game[job[h].id].at # "unsaved"
  /\ LET g == job[h].id IN
       /\ \A f \in Games :
            /\ game'[f].num = game[f].num /\ (game'[f].linked <=> game[f].linked)
            /\ (game'[f].renumbered <=> game[f].renumbered) /\ (game'[f].excused <=> game[f].excused)
            /\ f # g => game'[f].at = game[f].at
       /\ game'[g].at = "removed"
       /\ \A e \in Entries :
            /\ entry'[e].at = entry[e].at /\ entry'[e].game = entry[e].game
            /\ entry'[e].excused <=> entry[e].excused \/ (entry[e].game = g /\ e \notin job[h].seen)

LEMMA RemoveGameEffect ==
  ASSUME Shape, NEW h \in Handlers, RemoveGame(h)
  PROVE  RemoveGameDoes(h)
<1> USE DEF RemoveGameDoes
<1> USE TypesOf
<1> DEFINE g == job[h].id
<1>1. /\ job[h].at = "remove game" /\ g \in Games /\ g # None /\ game[g].at # "unsaved"
      /\ UNCHANGED <<rom, wanted>>
  BY DEF RemoveGame, Shape, SoundJobs, SoundJob, Removing
<1>2. ASSUME NEW k \in Handlers, k # h
      PROVE  /\ job'[k] \in Jobs /\ Alike(job'[k], job[k])
             /\ job'[k].over <=> job[k].over \/ job[k].game = g
  <2> DEFINE o == job[k].over \/ job[k].game = g
  <2>1. job'[k] = [job[k] EXCEPT !.over = o]
    BY <1>2 DEF RemoveGame
  <2>2. o \in BOOLEAN /\ job[k] \in Jobs
    BY DEF Jobs
  <2> HIDE DEF o
  <2>3. job'[k] \in Jobs /\ Alike(job'[k], job[k]) /\ job'[k].over = o
    BY <2>1, <2>2, OverJob
  <2> QED
    BY <2>3 DEF o
<1>3. job' \in [Handlers -> Jobs] /\ job'[h].at = "idle"
  <2>1. DOMAIN job' = Handlers /\ job' = [k \in Handlers |-> job'[k]] /\ job'[h] = Idle
    BY DEF RemoveGame
  <2> QED
    BY <1>2, <2>1, IdleJob
<1>4. /\ game' \in [Games -> GameRows]
      /\ \A f \in Games :
           /\ game'[f].num = game[f].num /\ (game'[f].linked <=> game[f].linked)
           /\ (game'[f].renumbered <=> game[f].renumbered) /\ (game'[f].excused <=> game[f].excused)
           /\ f # g => game'[f].at = game[f].at
      /\ game'[g].at = "removed"
  <2> DEFINE row == [game[g] EXCEPT !.at = "removed"]
  <2>1. /\ row \in GameRows /\ row.at = "removed" /\ row.num = game[g].num /\ row.linked = game[g].linked
        /\ row.renumbered = game[g].renumbered /\ row.excused = game[g].excused
    BY <1>1, RemovedRow
  <2>2. game' = [game EXCEPT ![g] = row]
    BY <1>1 DEF RemoveGame, GameRows
  <2> HIDE DEF row
  <2> QED
    BY <1>1, <2>1, <2>2
<1>5. /\ entry' \in [Entries -> EntryRows]
      /\ \A e \in Entries :
           /\ entry'[e].at = entry[e].at /\ entry'[e].game = entry[e].game
           /\ entry'[e].excused <=> entry[e].excused \/ (entry[e].game = g /\ e \notin job[h].seen)
  <2>1. ASSUME NEW e \in Entries
        PROVE  /\ entry'[e] \in EntryRows
               /\ entry'[e].at = entry[e].at /\ entry'[e].game = entry[e].game
               /\ entry'[e].excused <=> entry[e].excused \/ (entry[e].game = g /\ e \notin job[h].seen)
    BY DEF RemoveGame, EntryRows
  <2>2. entry' \in [Entries -> EntryRows]
    BY <2>1 DEF RemoveGame
  <2> QED
    BY <2>1, <2>2
<1>6. CatalogueTypes'
  BY <1>1, <1>3, <1>4, <1>5 DEF CatalogueTypes
<1>7. Marked(h, g, None)
  BY <1>1, <1>2 DEF Marked
<1> QED
  BY <1>1, <1>3, <1>4, <1>5, <1>6, <1>7

FindGameOfRomDoes(h, r, n) ==
  /\ CatalogueTypes' /\ Others(h) /\ UNCHANGED <<game, rom, wanted, entry>>
  /\ rom[r].at = "unsaved" /\ (\A k \in Handlers : job[k].id # r)
  /\ job'[h].at = "insert rom" /\ job'[h].id = r /\ ~job'[h].over
  /\ IF job'[h].game = None THEN WithNumber(game, job'[h].num) = {}
     ELSE job'[h].game \in Saved(game) /\ job'[h].num = game[job'[h].game].num

LEMMA FindGameOfRomEffect ==
  ASSUME Shape, NEW h \in Handlers, NEW r \in Roms, NEW n \in Numbers, FindGameOfRom(h, r, n)
  PROVE  FindGameOfRomDoes(h, r, n)
<1> USE DEF FindGameOfRomDoes
<1> USE TypesOf
<1>1. /\ rom[r].at = "unsaved" /\ (\A k \in Handlers : job[k].id # r)
      /\ UNCHANGED <<game, rom, wanted, entry>>
  BY DEF FindGameOfRom, Unsaved
<1>2. ASSUME NEW j \in Jobs, Begin(h, j), j.at = "insert rom", j.id = r, ~j.over,
             IF j.game = None THEN WithNumber(game, j.num) = {}
                              ELSE j.game \in Saved(game) /\ j.num = game[j.game].num
      PROVE  /\ CatalogueTypes' /\ Others(h)
             /\ job'[h].at = "insert rom" /\ job'[h].id = r /\ ~job'[h].over
             /\ IF job'[h].game = None THEN WithNumber(game, job'[h].num) = {}
                ELSE job'[h].game \in Saved(game) /\ job'[h].num = game[job'[h].game].num
  <2>1. job' = [job EXCEPT ![h] = j]
    BY <1>2 DEF Begin
  <2>2. job' \in [Handlers -> Jobs] /\ job'[h] = j /\ Others(h)
    BY <2>1, JobMoves
  <2> QED
    BY <1>1, <1>2, <2>2 DEF CatalogueTypes
<1>3. ASSUME NEW g \in Saved(game),
             Begin(h, [Idle EXCEPT !.at = "insert rom", !.id = r, !.game = g, !.num = game[g].num])
      PROVE  /\ CatalogueTypes' /\ Others(h)
             /\ job'[h].at = "insert rom" /\ job'[h].id = r /\ ~job'[h].over
             /\ IF job'[h].game = None THEN WithNumber(game, job'[h].num) = {}
                ELSE job'[h].game \in Saved(game) /\ job'[h].num = game[job'[h].game].num
  <2> DEFINE j == [Idle EXCEPT !.at = "insert rom", !.id = r, !.game = g, !.num = game[g].num]
  <2>1. g \in Games /\ game[g].num \in Numbers \cup {None} /\ g # None
    BY DEF Saved, GameRows
  <2>2. j \in Jobs /\ j.at = "insert rom" /\ j.id = r /\ ~j.over /\ j.game = g /\ j.num = game[g].num
    BY <2>1 DEF Idle, Jobs, JobStages, Sights, Ids
  <2>3. Begin(h, j)
    BY <1>3
  <2> HIDE DEF j
  <2> QED
    BY <1>2, <2>1, <2>2, <2>3
<1>4. ASSUME WithNumber(game, n) = {}, Begin(h, [Idle EXCEPT !.at = "insert rom", !.id = r, !.num = n])
      PROVE  /\ CatalogueTypes' /\ Others(h)
             /\ job'[h].at = "insert rom" /\ job'[h].id = r /\ ~job'[h].over
             /\ IF job'[h].game = None THEN WithNumber(game, job'[h].num) = {}
                ELSE job'[h].game \in Saved(game) /\ job'[h].num = game[job'[h].game].num
  <2> DEFINE j == [Idle EXCEPT !.at = "insert rom", !.id = r, !.num = n]
  <2>1. j \in Jobs /\ j.at = "insert rom" /\ j.id = r /\ ~j.over /\ j.game = None /\ j.num = n
    BY DEF Idle, Jobs, JobStages, Sights, Ids
  <2>2. Begin(h, j)
    BY <1>4
  <2> HIDE DEF j
  <2> QED
    BY <1>2, <1>4, <2>1, <2>2
<1> QED
  BY <1>1, <1>3, <1>4 DEF FindGameOfRom

InsertRomDoes(h) ==
  /\ CatalogueTypes' /\ Others(h) /\ UNCHANGED <<game, wanted, entry>>
  /\ job[h].at = "insert rom" /\ job[h].id \in Roms /\ job'[h].at = "idle"
  /\ rom'[job[h].id].at = "saved" /\ rom'[job[h].id].num = job[h].num
  /\ rom'[job[h].id].game = job[h].game /\ rom'[job[h].id].excused = job[h].over
  /\ \A r \in Roms : r # job[h].id => rom'[r] = rom[r]

LEMMA InsertRomEffect ==
  ASSUME Shape, NEW h \in Handlers, InsertRom(h)
  PROVE  InsertRomDoes(h)
<1> USE DEF InsertRomDoes
<1> USE TypesOf
<1>1. job[h].at = "insert rom" /\ job[h].id \in Roms /\ UNCHANGED <<game, wanted, entry>> /\ End(h)
  BY DEF InsertRom, Shape, SoundJobs, SoundJob
<1> DEFINE row == Rom("saved", job[h].num, job[h].game, job[h].over)
<1>2. /\ row \in RomRows /\ row.at = "saved" /\ row.num = job[h].num
      /\ row.game = job[h].game /\ row.excused = job[h].over
  BY DEF Rom, RomRows, Stages, Jobs
<1>3. rom' = [rom EXCEPT ![job[h].id] = row]
  BY DEF InsertRom
<1> HIDE DEF row
<1> QED
  BY <1>1, <1>2, <1>3, EndMoves DEF CatalogueTypes

RemoveRomDoes(r) ==
  /\ CatalogueTypes' /\ UNCHANGED <<game, wanted, entry, job>>
  /\ rom[r].at = "saved" /\ rom'[r].at = "removed" /\ rom'[r].num = None
  /\ \A s \in Roms : s # r => rom'[s] = rom[s]

LEMMA RemoveRomEffect ==
  ASSUME Shape, NEW r \in Roms, RemoveRom(r)
  PROVE  RemoveRomDoes(r)
<1> USE DEF RemoveRomDoes
<1>1. LET row == Rom("removed", None, None, FALSE)
      IN row \in RomRows /\ row.at = "removed" /\ row.num = None
  BY DEF Rom, RomRows, Stages
<1> QED
  BY <1>1, TypesOf DEF RemoveRom, CatalogueTypes, Saved

FindRequestedGameDoes(h, q, n) ==
  /\ CatalogueTypes' /\ Others(h) /\ UNCHANGED <<game, rom, wanted, entry>>
  /\ wanted[q].at = "unsaved" /\ (\A k \in Handlers : job[k].id # q)
  /\ job'[h].at = "find dupe" /\ job'[h].id = q /\ job'[h].num = n /\ n # None
  /\ WithNumber(game, n) = {}

LEMMA FindRequestedGameEffect ==
  ASSUME Shape, NEW h \in Handlers, NEW q \in GameRequests, NEW n \in Numbers, FindRequestedGame(h, q, n)
  PROVE  FindRequestedGameDoes(h, q, n)
<1> USE DEF FindRequestedGameDoes
<1> DEFINE j == [Idle EXCEPT !.at = "find dupe", !.id = q, !.num = n]
<1>1. j \in Jobs /\ j.at = "find dupe" /\ j.id = q /\ j.num = n
  BY DEF Idle, Jobs, JobStages, Sights, Ids
<1>2. job' = [job EXCEPT ![h] = j]
  BY DEF FindRequestedGame, Begin
<1> HIDE DEF j
<1>3. /\ UNCHANGED <<game, rom, wanted, entry>> /\ wanted[q].at = "unsaved" /\ n # None
      /\ (\A k \in Handlers : job[k].id # q) /\ WithNumber(game, n) = {}
  BY DEF FindRequestedGame, Unsaved
<1> QED
  BY <1>1, <1>2, <1>3, JobMoves, TypesOf DEF CatalogueTypes

FindDupeDoes(h) ==
  /\ CatalogueTypes' /\ Others(h) /\ UNCHANGED <<game, rom, wanted, entry>>
  /\ job[h].at = "find dupe"
  /\ \/ job'[h].at = "idle"
     \/ /\ job'[h].at = "insert request" /\ job'[h].id = job[h].id /\ job'[h].num = job[h].num
        /\ job'[h].over <=> job[h].over

LEMMA FindDupeEffect ==
  ASSUME Shape, NEW h \in Handlers, FindDupe(h)
  PROVE  FindDupeDoes(h)
<1> USE DEF FindDupeDoes
<1> USE TypesOf
<1>1. job[h].at = "find dupe" /\ UNCHANGED <<game, rom, wanted, entry>>
  BY DEF FindDupe
<1> DEFINE j == [job[h] EXCEPT !.at = "insert request"]
<1>2. End(h) \/ job' = [job EXCEPT ![h] = j]
  BY DEF FindDupe, Go, Jobs
<1>3. j \in Jobs /\ j.at = "insert request" /\ j.id = job[h].id /\ j.num = job[h].num /\ (j.over <=> job[h].over)
  BY StagesKnown, StageJob
<1> HIDE DEF j
<1> QED
  BY <1>1, <1>2, <1>3, EndMoves, JobMoves DEF CatalogueTypes

InsertRequestDoes(h) ==
  /\ CatalogueTypes' /\ Others(h) /\ UNCHANGED <<game, rom, entry>>
  /\ job[h].at = "insert request" /\ job[h].id \in GameRequests /\ job[h].num # None /\ job'[h].at = "idle"
  /\ LET dupes == WithNumber(wanted, job[h].num) IN
       /\ wanted'[job[h].id].at = "saved" /\ wanted'[job[h].id].num = job[h].num
       /\ wanted'[job[h].id].excused <=> job[h].over \/ dupes # {}
       /\ \A q \in GameRequests : q # job[h].id =>
            /\ wanted'[q].at = wanted[q].at /\ wanted'[q].num = wanted[q].num
            /\ (wanted'[q].closed <=> wanted[q].closed)
            /\ wanted'[q].excused <=> wanted[q].excused \/ q \in dupes

LEMMA InsertRequestEffect ==
  ASSUME Shape, NEW h \in Handlers, InsertRequest(h)
  PROVE  InsertRequestDoes(h)
<1> USE DEF InsertRequestDoes
<1> USE TypesOf
<1> DEFINE dupes == WithNumber(wanted, job[h].num)
           o(q) == wanted[q].excused \/ q \in dupes
           late == job[h].over \/ dupes # {}
<1>1. /\ job[h].at = "insert request" /\ job[h].id \in GameRequests /\ job[h].num # None
      /\ UNCHANGED <<game, rom, entry>> /\ End(h)
  BY DEF InsertRequest, Shape, SoundJobs, SoundJob, Asking
<1>2. wanted' = [q \in GameRequests |->
        IF q = job[h].id THEN GameRequest("saved", job[h].num, late) ELSE [wanted[q] EXCEPT !.excused = o(q)]]
  BY DEF InsertRequest
<1>3. late \in BOOLEAN /\ \A q \in GameRequests : o(q) \in BOOLEAN /\ wanted[q] \in RequestRows
  BY DEF Jobs, RequestRows
<1> HIDE DEF late, o
<1> DEFINE row == GameRequest("saved", job[h].num, late)
<1>4. row \in RequestRows /\ row.at = "saved" /\ row.num = job[h].num /\ row.excused = late
  BY <1>3 DEF GameRequest, RequestRows, Stages, Jobs
<1>5. wanted'[job[h].id] = row
  BY <1>1, <1>2
<1> HIDE DEF row
<1>6. ASSUME NEW q \in GameRequests, q # job[h].id
      PROVE  /\ wanted'[q] \in RequestRows
             /\ wanted'[q].at = wanted[q].at /\ wanted'[q].num = wanted[q].num
             /\ (wanted'[q].closed <=> wanted[q].closed)
             /\ wanted'[q].excused <=> o(q)
  <2>1. wanted'[q] = [wanted[q] EXCEPT !.excused = o(q)]
    BY <1>2, <1>6
  <2> QED
    BY <1>3, <2>1 DEF RequestRows
<1>7. wanted' \in [GameRequests -> RequestRows]
  <2>1. wanted' = [q \in GameRequests |-> wanted'[q]]
    BY <1>2
  <2>2. \A q \in GameRequests : wanted'[q] \in RequestRows
    BY <1>4, <1>5, <1>6
  <2> QED
    BY <2>1, <2>2
<1> QED
  BY <1>1, <1>4, <1>5, <1>6, <1>7, EndMoves DEF CatalogueTypes, o, late

UpdateRequestDoes(q) ==
  /\ CatalogueTypes' /\ UNCHANGED <<game, rom, entry, job>>
  /\ wanted'[q].at = wanted[q].at /\ wanted'[q].num = wanted[q].num
  /\ wanted'[q].closed <=> ~wanted[q].closed
  /\ wanted'[q].excused <=> wanted[q].excused \/ wanted[q].closed
  /\ \A p \in GameRequests : p # q => wanted'[p] = wanted[p]

LEMMA UpdateRequestEffect ==
  ASSUME Shape, NEW q \in GameRequests, UpdateRequest(q)
  PROVE  UpdateRequestDoes(q)
<1> USE DEF UpdateRequestDoes
<1> USE TypesOf
<1> DEFINE o == wanted[q].excused \/ wanted[q].closed
           c == ~wanted[q].closed
           row == [wanted[q] EXCEPT !.closed = c, !.excused = o]
<1>1. wanted' = [wanted EXCEPT ![q] = row] /\ UNCHANGED <<game, rom, entry, job>>
  BY DEF UpdateRequest, RequestRows
<1>2. o \in BOOLEAN /\ c \in BOOLEAN /\ wanted[q] \in RequestRows
  BY DEF RequestRows
<1> HIDE DEF o, c
<1>3. /\ row \in RequestRows /\ row.at = wanted[q].at /\ row.num = wanted[q].num
      /\ row.closed <=> c
      /\ row.excused <=> o
  BY <1>2 DEF RequestRows
<1> HIDE DEF row
<1>4. wanted' \in [GameRequests -> RequestRows] /\ wanted'[q] = row
  BY <1>1, <1>3
<1>5. CatalogueTypes'
  BY <1>1, <1>4 DEF CatalogueTypes
<1> QED
  BY <1>1, <1>3, <1>4, <1>5 DEF o, c

RemoveRequestDoes(q) ==
  /\ CatalogueTypes' /\ UNCHANGED <<game, rom, entry, job>>
  /\ wanted[q].at = "saved" /\ wanted'[q].at = "removed"
  /\ \A p \in GameRequests : p # q => wanted'[p] = wanted[p]

LEMMA RemoveRequestEffect ==
  ASSUME Shape, NEW q \in GameRequests, RemoveRequest(q)
  PROVE  RemoveRequestDoes(q)
<1> USE DEF RemoveRequestDoes
<1>1. LET row == GameRequest("removed", None, FALSE) IN row \in RequestRows /\ row.at = "removed"
  BY DEF GameRequest, RequestRows, Stages
<1> QED
  BY <1>1, TypesOf DEF RemoveRequest, CatalogueTypes, Saved

FindGameDoes(h, e) ==
  /\ CatalogueTypes' /\ Others(h) /\ UNCHANGED <<game, rom, wanted, entry>>
  /\ job'[h].at = "save entry" /\ job'[h].id = e
  /\ job'[h].game \in Saved(game) \/ job'[h].over

LEMMA FindGameEffect ==
  ASSUME Shape, NEW h \in Handlers, NEW e \in Entries, FindGame(h, e)
  PROVE  FindGameDoes(h, e)
<1> USE DEF FindGameDoes
<1> USE TypesOf
<1>1. UNCHANGED <<game, rom, wanted, entry>>
  BY DEF FindGame
<1>2. ASSUME NEW j \in Jobs, Begin(h, j), j.at = "save entry", j.id = e, j.game \in Saved(game) \/ j.over
      PROVE  /\ CatalogueTypes' /\ Others(h) /\ job'[h].at = "save entry" /\ job'[h].id = e
             /\ job'[h].game \in Saved(game) \/ job'[h].over
  <2>1. job' = [job EXCEPT ![h] = j]
    BY <1>2 DEF Begin
  <2>2. job' \in [Handlers -> Jobs] /\ job'[h] = j /\ Others(h)
    BY <2>1, JobMoves
  <2> QED
    BY <1>1, <1>2, <2>2 DEF CatalogueTypes
<1>3. ASSUME NEW g \in Saved(game), Begin(h, [Idle EXCEPT !.at = "save entry", !.id = e, !.game = g])
      PROVE  /\ CatalogueTypes' /\ Others(h) /\ job'[h].at = "save entry" /\ job'[h].id = e
             /\ job'[h].game \in Saved(game) \/ job'[h].over
  <2> DEFINE j == [Idle EXCEPT !.at = "save entry", !.id = e, !.game = g]
  <2>1. g \in Games
    BY DEF Saved
  <2>2. j \in Jobs /\ j.at = "save entry" /\ j.id = e /\ j.game = g
    BY <2>1 DEF Idle, Jobs, JobStages, Sights, Ids
  <2>3. Begin(h, j)
    BY <1>3
  <2> HIDE DEF j
  <2> QED
    BY <1>2, <2>2, <2>3
<1>4. ASSUME NEW r \in Saved(rom),
             Begin(h, [Idle EXCEPT !.at = "save entry", !.id = e, !.game = rom[r].game,
                                   !.over = rom[r].game \notin Saved(game)])
      PROVE  /\ CatalogueTypes' /\ Others(h) /\ job'[h].at = "save entry" /\ job'[h].id = e
             /\ job'[h].game \in Saved(game) \/ job'[h].over
  <2> DEFINE o == rom[r].game \notin Saved(game)
             j == [Idle EXCEPT !.at = "save entry", !.id = e, !.game = rom[r].game, !.over = o]
  <2>1. rom[r].game \in Games \cup {None} /\ o \in BOOLEAN
    BY DEF Saved, RomRows
  <2>2. Begin(h, j)
    BY <1>4
  <2> HIDE DEF o
  <2>3. j \in Jobs /\ j.at = "save entry" /\ j.id = e /\ j.game = rom[r].game
    BY <2>1 DEF Idle, Jobs, JobStages, Sights, Ids
  <2>4. j.over <=> o
    BY <2>1 DEF Idle
  <2> HIDE DEF j
  <2>5. j.game \in Saved(game) \/ j.over
    BY <2>3, <2>4 DEF o
  <2> QED
    BY <1>2, <2>2, <2>3, <2>5
<1> QED
  BY <1>1, <1>3, <1>4 DEF FindGame

SaveEntryDoes(h) ==
  /\ CatalogueTypes' /\ Others(h) /\ UNCHANGED <<game, rom, wanted>>
  /\ job[h].at = "save entry" /\ job[h].id \in Entries /\ job'[h].at = "idle"
  /\ \A e \in Entries : e # job[h].id => entry'[e] = entry[e]
  /\ \/ entry'[job[h].id].at = "removed"
     \/ /\ entry'[job[h].id].game = job[h].game
        /\ entry'[job[h].id].excused = job[h].over

LEMMA SaveEntryEffect ==
  ASSUME Shape, NEW h \in Handlers, SaveEntry(h)
  PROVE  SaveEntryDoes(h)
<1> USE DEF SaveEntryDoes
<1> USE TypesOf
<1> DEFINE id == job[h].id
<1>1. job[h].at = "save entry" /\ id \in Entries /\ End(h) /\ UNCHANGED <<game, rom, wanted>>
  BY DEF SaveEntry, Shape, SoundJobs, SoundJob
<1> DEFINE new == Entry("saved", job[h].game, job[h].over)
<1>2. new \in EntryRows /\ new.game = job[h].game /\ new.excused = job[h].over
  BY DEF Entry, EntryRows, Stages, Jobs
<1>3. entry' = [entry EXCEPT ![id] = IF entry[id].at = "removed" THEN entry[id] ELSE new]
  BY <1>1 DEF SaveEntry
<1> HIDE DEF new
<1> QED
  BY <1>1, <1>2, <1>3, EndMoves DEF CatalogueTypes

RemoveEntryDoes(e) ==
  /\ CatalogueTypes' /\ UNCHANGED <<game, rom, wanted, job>>
  /\ entry'[e].at = "removed"
  /\ \A f \in Entries : f # e => entry'[f] = entry[f]

LEMMA RemoveEntryEffect ==
  ASSUME Shape, NEW e \in Entries, RemoveEntry(e)
  PROVE  RemoveEntryDoes(e)
<1> USE DEF RemoveEntryDoes
<1>1. LET row == Entry("removed", None, FALSE) IN row \in EntryRows /\ row.at = "removed"
  BY DEF Entry, EntryRows, Stages
<1> QED
  BY <1>1, TypesOf DEF RemoveEntry, CatalogueTypes

FailDoes(h) ==
  /\ CatalogueTypes' /\ Others(h) /\ UNCHANGED <<game, rom, wanted, entry>>
  /\ job'[h].at = "idle"

LEMMA FailEffect ==
  ASSUME Shape, NEW h \in Handlers, Fail(h)
  PROVE  FailDoes(h)
  BY EndMoves, TypesOf DEF Fail, CatalogueTypes, FailDoes

-----------------------------------------------------------------------------
(* Shape: the documents and what the handlers have in hand *)

\* A handler that waits while another one looks something up has the same in hand.
LEMMA SoundStays ==
  ASSUME NEW k \in Handlers, SoundJob(job[k]), job'[k] = job[k], UNCHANGED <<game, rom, wanted, entry>>
  PROVE  SoundJob(job[k])'
  BY DEF SoundJob, Saved

\* What a handler counts on while others work.
GoesOnGames(k) ==
  /\ \A g \in Games : game[g].at # "unsaved" => game'[g].at # "unsaved"
  /\ job[k].at \in Checking => game'[job[k].id].at = "unsaved"
  /\ job[k].at \in Linking => ~game'[job[k].id].linked
  /\ \A g \in Games : g = job[k].game /\ game[g].at = "saved" => game'[g].at = "saved" \/ job'[k].over

Goes(k) ==
  /\ Alike(job'[k], job[k]) /\ (job[k].over => job'[k].over)
  /\ job[k].at = "insert rom" => rom'[job[k].id].at = "unsaved"
  /\ job[k].at \in Asking => wanted'[job[k].id].at = "unsaved"
  /\ \A r \in Roms : rom[r].at # "unsaved" => rom'[r].at # "unsaved" /\ rom'[r].num \in {rom[r].num, None}
  /\ \A q \in GameRequests : wanted[q].at # "unsaved" => wanted'[q].at # "unsaved"

\* What a handler has in hand stays sound if the others leave it what it counts on.
LEMMA SoundKept ==
  ASSUME NEW k \in Handlers, SoundJob(job[k]), CatalogueTypes, CatalogueTypes', GoesOnGames(k), Goes(k)
  PROVE  SoundJob(job[k])'
<1> job[k] \in Jobs /\ job'[k] \in Jobs
  BY DEF CatalogueTypes
<1>1. \A r \in job[k].roms : r \in Roms
  BY DEF Jobs
<1>2. job[k].game \in Saved(game) => job'[k].game \in Saved(game') \/ job'[k].over
  BY DEF GoesOnGames, Goes, Alike, Saved, CatalogueTypes
<1> QED
  BY <1>1, <1>2 DEF SoundJob, GoesOnGames, Goes, Alike, Checking, Linking, Removing, Asking

\* A handler that saves no other document than before, or one that nobody saves, stays apart.
LEMMA ApartKept ==
  ASSUME OneEach, NEW h \in Handlers,
         \A k \in Handlers : k # h => job'[k].at = job[k].at /\ job'[k].id = job[k].id,
         \/ Saves(job'[h]) = "nothing"
         \/ Saves(job'[h]) = Saves(job[h]) /\ job'[h].id = job[h].id
         \/ \A k \in Handlers : job[k].id # job'[h].id
  PROVE  OneEach'
<1> SUFFICES ASSUME NEW a \in Handlers, NEW b \in Handlers, a # b
             PROVE  Apart(job'[a], job'[b])
  BY DEF OneEach, Apart, Saves
<1>1. \A k \in Handlers : k # h => Saves(job'[k]) = Saves(job[k])
  BY DEF Saves
<1>2. Apart(job[a], job[b]) /\ Apart(job[b], job[a])
  BY DEF OneEach
<1> HIDE DEF Saves
<1> QED
  BY <1>1, <1>2 DEF Apart

\* Every step keeps the shape.
LEMMA ShapeStep == Shape /\ CatalogueStep => Shape'
<1> SUFFICES ASSUME Shape, CatalogueStep PROVE Shape'
  OBVIOUS
<1>t. CatalogueTypes /\ SoundJobs /\ OneEach /\ Rows
  BY DEF Shape
<1>1. ASSUME NEW h \in Handlers, NEW g \in Games, NEW n \in Numbers \cup {None},
             NEW q \in Saved(wanted) \cup {None}, CreateGame(h, g, n, q) PROVE Shape'
  <2>0. CreateGameDoes(h, g, n, q)
    BY <1>1, CreateGameEffect
  <2>1. CatalogueTypes'
    BY <2>0 DEF CreateGameDoes
  <2>2. SoundJob(job[h])'
    BY <2>0, <2>1, <1>t DEF CreateGameDoes, Rows, SoundJobs, SoundJob, Checking, Linking, Removing, Asking, Saved, CatalogueTypes
  <2>3. ASSUME NEW k \in Handlers, k # h PROVE SoundJob(job[k])'
    BY <2>0, <2>3, <1>t, SoundStays DEF CreateGameDoes, Others, SoundJobs
  <2>4. OneEach'
    BY <2>0, <1>t, ApartKept DEF CreateGameDoes, Saves, Checking, Linking, Asking, Others, Alike, Marked
  <2>5. Rows'
    BY <2>0, <1>t DEF CreateGameDoes, Rows
  <2> QED
    BY <2>1, <2>2, <2>3, <2>4, <2>5 DEF Shape, SoundJobs
<1>2. ASSUME NEW h \in Handlers, ValidateGame(h) PROVE Shape'
  <2>0. ValidateGameDoes(h)
    BY <1>2, ValidateGameEffect
  <2>1. CatalogueTypes'
    BY <2>0 DEF ValidateGameDoes
  <2>2. SoundJob(job[h])'
    BY <2>0, <2>1, <1>t DEF ValidateGameDoes, Rows, SoundJobs, SoundJob, Checking, Linking, Removing, Asking, Saved, CatalogueTypes
  <2>3. ASSUME NEW k \in Handlers, k # h PROVE SoundJob(job[k])'
    BY <2>0, <2>3, <1>t, SoundStays DEF ValidateGameDoes, Others, SoundJobs
  <2>4. OneEach'
    BY <2>0, <1>t, ApartKept DEF ValidateGameDoes, Saves, Checking, Linking, Asking, Others, Alike, Marked
  <2>5. Rows'
    BY <2>0, <1>t DEF ValidateGameDoes, Rows
  <2> QED
    BY <2>1, <2>2, <2>3, <2>4, <2>5 DEF Shape, SoundJobs
<1>3. ASSUME NEW h \in Handlers, InsertGame(h) PROVE Shape'
  <2>0. InsertGameDoes(h)
    BY <1>3, InsertGameEffect
  <2>1. CatalogueTypes'
    BY <2>0 DEF InsertGameDoes
  <2>2. SoundJob(job[h])'
    BY <2>0, <2>1, <1>t DEF InsertGameDoes, Rows, SoundJobs, SoundJob, Checking, Linking, Removing, Asking, Saved, CatalogueTypes, Marked, Alike
  <2>3. ASSUME NEW k \in Handlers, k # h PROVE SoundJob(job[k])'
    <3>1. SoundJob(job[k]) /\ SoundJob(job[h]) /\ Apart(job[h], job[k])
      BY <2>3, <1>t DEF SoundJobs, OneEach
    <3>2. job[k].at \in Checking \cup Linking => job[k].id # job[h].id
      BY <2>0, <3>1 DEF InsertGameDoes, Apart, Saves, Checking, Linking, Asking
    <3>3. GoesOnGames(k)
      BY <2>0, <2>1, <2>3, <3>1, <1>t, <3>2 DEF InsertGameDoes, Others, Marked, Alike, GoesOnGames, SoundJob, Checking, Linking, Removing, CatalogueTypes
    <3>4. Goes(k)
      BY <2>0, <2>1, <2>3, <3>1, <1>t, <3>2 DEF InsertGameDoes, Others, Marked, Alike, Goes, SoundJob, Asking, CatalogueTypes
    <3> QED
      BY <2>1, <3>1, <3>3, <3>4, <1>t, SoundKept
  <2>4. OneEach'
    BY <2>0, <1>t, ApartKept DEF InsertGameDoes, Saves, Checking, Linking, Asking, Others, Alike, Marked
  <2>5. Rows'
    BY <2>0, <2>1, <1>t DEF InsertGameDoes, Rows, CatalogueTypes
  <2> QED
    BY <2>1, <2>2, <2>3, <2>4, <2>5 DEF Shape, SoundJobs
<1>4. ASSUME NEW h \in Handlers, FindRoms(h) PROVE Shape'
  <2>0. FindRomsDoes(h)
    BY <1>4, FindRomsEffect
  <2>1. CatalogueTypes'
    BY <2>0 DEF FindRomsDoes
  <2>2. SoundJob(job[h])'
    BY <2>0, <2>1, <1>t DEF FindRomsDoes, Rows, SoundJobs, SoundJob, Checking, Linking, Removing, Asking, Saved, CatalogueTypes, WithNumber
  <2>3. ASSUME NEW k \in Handlers, k # h PROVE SoundJob(job[k])'
    BY <2>0, <2>3, <1>t, SoundStays DEF FindRomsDoes, Others, SoundJobs
  <2>4. OneEach'
    BY <2>0, <1>t, ApartKept DEF FindRomsDoes, Saves, Checking, Linking, Asking, Others, Alike, Marked
  <2>5. Rows'
    BY <2>0, <1>t DEF FindRomsDoes, Rows
  <2> QED
    BY <2>1, <2>2, <2>3, <2>4, <2>5 DEF Shape, SoundJobs
<1>5. ASSUME NEW h \in Handlers, NEW r \in Roms, LinkRom(h, r) PROVE Shape'
  <2>0. LinkRomDoes(h, r)
    BY <1>5, LinkRomEffect
  <2>1. CatalogueTypes'
    BY <2>0 DEF LinkRomDoes
  <2>2. SoundJob(job[h])'
    <3>1. SoundJob(job[h])
      BY <1>t DEF SoundJobs
    <3>2. CASE job'[h].at = "link roms"
      <4>1. /\ job'[h].id = job[h].id /\ job'[h].num = job[h].num /\ job'[h].roms = job[h].roms \ {r}
            /\ \A s \in Roms : rom'[s].at = rom[s].at /\ rom'[s].num = rom[s].num
        BY <3>2, <2>0 DEF LinkRomDoes
      <4>2. job[h].roms \subseteq Roms
        BY <1>t DEF CatalogueTypes, Jobs
      <4>3. \A s \in job'[h].roms : rom'[s].at # "unsaved" /\ rom'[s].num \in {job'[h].num, None}
        <5>1. \A s \in job[h].roms : rom[s].at # "unsaved" /\ rom[s].num \in {job[h].num, None}
          BY <2>0, <3>1 DEF LinkRomDoes, SoundJob
        <5> QED
          BY <4>1, <4>2, <5>1
      <4>4. game' = game /\ job[h].id \in Games /\ game[job[h].id].at # "unsaved" /\ ~game[job[h].id].linked
        BY <2>0, <3>1 DEF LinkRomDoes, SoundJob, Linking
      <4> QED
        BY <3>2, <4>1, <4>3, <4>4 DEF SoundJob, Checking, Linking, Removing, Asking
    <3>3. CASE job'[h].at = "idle"
      BY <3>3 DEF SoundJob, Checking, Linking, Removing, Asking
    <3> QED
      BY <2>0, <3>2, <3>3 DEF LinkRomDoes
  <2>3. ASSUME NEW k \in Handlers, k # h PROVE SoundJob(job[k])'
    <3>1. SoundJob(job[k]) /\ SoundJob(job[h]) /\ Apart(job[h], job[k])
      BY <2>3, <1>t DEF SoundJobs, OneEach
    <3>3. GoesOnGames(k)
      BY <2>0, <2>1, <2>3, <3>1, <1>t DEF LinkRomDoes, Others, Marked, Alike, GoesOnGames, SoundJob, Checking, Linking, Removing, CatalogueTypes
    <3>4. Goes(k)
      <4>1. job'[k] = job[k] /\ wanted' = wanted
            /\ \A s \in Roms : rom'[s].at = rom[s].at /\ rom'[s].num = rom[s].num
        BY <2>0, <2>3 DEF LinkRomDoes, Others
      <4> QED
        BY <3>1, <4>1 DEF Goes, Alike, SoundJob
    <3> QED
      BY <2>1, <3>1, <3>3, <3>4, <1>t, SoundKept
  <2>4. OneEach'
    BY <2>0, <1>t, ApartKept DEF LinkRomDoes, Saves, Checking, Linking, Asking, Others, Alike, Marked
  <2>5. Rows'
    BY <2>0, <2>1, <1>t DEF LinkRomDoes, Rows, CatalogueTypes
  <2> QED
    BY <2>1, <2>2, <2>3, <2>4, <2>5 DEF Shape, SoundJobs
<1>6. ASSUME NEW h \in Handlers, FindRequest(h) PROVE Shape'
  <2>0. FindRequestDoes(h)
    BY <1>6, FindRequestEffect
  <2>1. CatalogueTypes'
    BY <2>0 DEF FindRequestDoes
  <2>2. SoundJob(job[h])'
    <3>1. SoundJob(job[h])
      BY <1>t DEF SoundJobs
    <3>2. CASE job'[h].at = "close request"
      <4>1. /\ job'[h].id = job[h].id /\ job'[h].roms = {}
            /\ job'[h].asked \in GameRequests /\ wanted[job'[h].asked].at = "saved"
        BY <3>2, <2>0 DEF FindRequestDoes
      <4>2. /\ game'[job[h].id].at # "unsaved" /\ job[h].id \in Games
            /\ wanted'[job'[h].asked].at = "saved"
        BY <2>0, <4>1 DEF FindRequestDoes
      <4>3. ~game'[job[h].id].linked
        BY <2>0, <3>1, <3>2 DEF FindRequestDoes, SoundJob, Linking
      <4> QED
        BY <3>2, <4>1, <4>2, <4>3 DEF SoundJob, Checking, Linking, Removing, Asking
    <3>3. CASE job'[h].at = "idle"
      BY <3>3 DEF SoundJob, Checking, Linking, Removing, Asking
    <3> QED
      BY <2>0, <3>2, <3>3 DEF FindRequestDoes
  <2>3. ASSUME NEW k \in Handlers, k # h PROVE SoundJob(job[k])'
    <3>1. SoundJob(job[k]) /\ SoundJob(job[h]) /\ Apart(job[h], job[k])
      BY <2>3, <1>t DEF SoundJobs, OneEach
    <3>2. job[k].at \in Checking \cup Linking => job[k].id # job[h].id
      BY <2>0, <3>1 DEF FindRequestDoes, Apart, Saves, Checking, Linking, Asking
    <3>3. GoesOnGames(k)
      BY <2>0, <2>1, <2>3, <3>1, <1>t, <3>2 DEF FindRequestDoes, Others, Marked, Alike, GoesOnGames, SoundJob, Checking, Linking, Removing, CatalogueTypes
    <3>4. Goes(k)
      BY <2>0, <2>1, <2>3, <3>1, <1>t, <3>2 DEF FindRequestDoes, Others, Marked, Alike, Goes, SoundJob, Asking, CatalogueTypes
    <3> QED
      BY <2>1, <3>1, <3>3, <3>4, <1>t, SoundKept
  <2>4. OneEach'
    BY <2>0, <1>t, ApartKept DEF FindRequestDoes, Saves, Checking, Linking, Asking, Others, Alike, Marked
  <2>5. Rows'
    <3>0. /\ game[job[h].id].at # "unsaved"
          /\ \A g \in Games :
               /\ game'[g].at = "unsaved" => game[g].at = "unsaved"
               /\ game'[g].num = game[g].num /\ (game'[g].renumbered <=> game[g].renumbered)
               /\ g # job[h].id => (game'[g].linked <=> game[g].linked)
          /\ \A q \in GameRequests : wanted'[q].at = wanted[q].at /\ wanted'[q].num = wanted[q].num
          /\ rom' = rom
      BY <2>0 DEF FindRequestDoes
    <3>1. ASSUME NEW g \in Games, game'[g].at = "unsaved"
          PROVE  ~game'[g].linked /\ ~game'[g].renumbered /\ game'[g].num = None
      <4>1. game[g].at = "unsaved" /\ g # job[h].id
        BY <3>0, <3>1
      <4>2. ~game[g].linked /\ ~game[g].renumbered /\ game[g].num = None
        BY <1>t, <4>1 DEF Rows
      <4> QED
        BY <3>0, <4>1, <4>2
    <3>2. \A q \in GameRequests : wanted'[q].at = "saved" => wanted'[q].num # None
      BY <3>0, <1>t DEF Rows
    <3>3. \A s \in Roms : rom'[s].at = "removed" => rom'[s].num = None
      BY <3>0, <1>t DEF Rows
    <3> QED
      BY <3>1, <3>2, <3>3 DEF Rows
  <2> QED
    BY <2>1, <2>2, <2>3, <2>4, <2>5 DEF Shape, SoundJobs
<1>7. ASSUME NEW h \in Handlers, CloseRequest(h) PROVE Shape'
  <2>0. CloseRequestDoes(h)
    BY <1>7, CloseRequestEffect
  <2>1. CatalogueTypes'
    BY <2>0 DEF CloseRequestDoes
  <2>2. SoundJob(job[h])'
    BY <2>0, <2>1, <1>t DEF CloseRequestDoes, Rows, SoundJobs, SoundJob, Checking, Linking, Removing, Asking, Saved, CatalogueTypes
  <2>3. ASSUME NEW k \in Handlers, k # h PROVE SoundJob(job[k])'
    <3>1. SoundJob(job[k]) /\ SoundJob(job[h]) /\ Apart(job[h], job[k])
      BY <2>3, <1>t DEF SoundJobs, OneEach
    <3>2. job[k].at \in Checking \cup Linking => job[k].id # job[h].id
      BY <2>0, <3>1 DEF CloseRequestDoes, Apart, Saves, Checking, Linking, Asking
    <3>3. GoesOnGames(k)
      BY <2>0, <2>1, <2>3, <3>1, <1>t, <3>2 DEF CloseRequestDoes, Others, Marked, Alike, GoesOnGames, SoundJob, Checking, Linking, Removing, CatalogueTypes
    <3>4. Goes(k)
      BY <2>0, <2>1, <2>3, <3>1, <1>t, <3>2 DEF CloseRequestDoes, Others, Marked, Alike, Goes, SoundJob, Asking, CatalogueTypes
    <3> QED
      BY <2>1, <3>1, <3>3, <3>4, <1>t, SoundKept
  <2>4. OneEach'
    <3>1. Saves(job'[h]) = "nothing" /\ \A k \in Handlers : k # h => job'[k].at = job[k].at /\ job'[k].id = job[k].id
      BY <2>0 DEF CloseRequestDoes, Others, Saves, Checking, Linking, Asking
    <3> QED
      BY <3>1, <1>t, ApartKept
  <2>5. Rows'
    <3>0. /\ game[job[h].id].at # "unsaved"
          /\ \A g \in Games :
               /\ game'[g].at = "unsaved" => game[g].at = "unsaved"
               /\ game'[g].num = game[g].num /\ (game'[g].renumbered <=> game[g].renumbered)
               /\ g # job[h].id => (game'[g].linked <=> game[g].linked)
          /\ \A q \in GameRequests : wanted'[q].at = wanted[q].at /\ wanted'[q].num = wanted[q].num
          /\ rom' = rom
      BY <2>0 DEF CloseRequestDoes
    <3>1. ASSUME NEW g \in Games, game'[g].at = "unsaved"
          PROVE  ~game'[g].linked /\ ~game'[g].renumbered /\ game'[g].num = None
      <4>1. game[g].at = "unsaved" /\ g # job[h].id
        BY <3>0, <3>1
      <4>2. ~game[g].linked /\ ~game[g].renumbered /\ game[g].num = None
        BY <1>t, <4>1 DEF Rows
      <4> QED
        BY <3>0, <4>1, <4>2
    <3>2. \A q \in GameRequests : wanted'[q].at = "saved" => wanted'[q].num # None
      BY <3>0, <1>t DEF Rows
    <3>3. \A s \in Roms : rom'[s].at = "removed" => rom'[s].num = None
      BY <3>0, <1>t DEF Rows
    <3> QED
      BY <3>1, <3>2, <3>3 DEF Rows
  <2> QED
    BY <2>1, <2>2, <2>3, <2>4, <2>5 DEF Shape, SoundJobs
<1>8. ASSUME NEW g \in Games, NEW n \in Numbers \cup {None}, UpdateGame(g, n) PROVE Shape'
  <2>0. UpdateGameDoes(g, n)
    BY <1>8, UpdateGameEffect
  <2>1. CatalogueTypes'
    BY <2>0 DEF UpdateGameDoes
  <2>3. ASSUME NEW k \in Handlers PROVE SoundJob(job[k])'
    <3>1. SoundJob(job[k])
      BY <1>t DEF SoundJobs
    <3>3. GoesOnGames(k)
      BY <2>0, <2>1, <3>1, <1>t DEF UpdateGameDoes, GoesOnGames, SoundJob, Checking, Linking, CatalogueTypes
    <3>4. Goes(k)
      BY <2>0, <2>1, <3>1, <1>t DEF UpdateGameDoes, Alike, Goes, SoundJob, Asking, CatalogueTypes
    <3> QED
      BY <2>1, <3>1, <3>3, <3>4, <1>t, SoundKept
  <2>4. OneEach'
    BY <2>0, <1>t DEF UpdateGameDoes, OneEach
  <2>5. Rows'
    BY <2>0, <2>1, <1>t DEF UpdateGameDoes, Rows, CatalogueTypes
  <2> QED
    BY <2>1, <2>3, <2>4, <2>5 DEF Shape, SoundJobs
<1>9. ASSUME NEW h \in Handlers, NEW g \in Games, CountReleases(h, g) PROVE Shape'
  <2>0. CountReleasesDoes(h, g)
    BY <1>9, CountReleasesEffect
  <2>1. CatalogueTypes'
    BY <2>0 DEF CountReleasesDoes
  <2>2. SoundJob(job[h])'
    BY <2>0, <2>1, <1>t DEF CountReleasesDoes, Rows, SoundJobs, SoundJob, Checking, Linking, Removing, Asking, Saved, CatalogueTypes
  <2>3. ASSUME NEW k \in Handlers, k # h PROVE SoundJob(job[k])'
    BY <2>0, <2>3, <1>t, SoundStays DEF CountReleasesDoes, Others, SoundJobs
  <2>4. OneEach'
    BY <2>0, <1>t, ApartKept DEF CountReleasesDoes, Saves, Checking, Linking, Asking, Others, Alike, Marked
  <2>5. Rows'
    BY <2>0, <1>t DEF CountReleasesDoes, Rows
  <2> QED
    BY <2>1, <2>2, <2>3, <2>4, <2>5 DEF Shape, SoundJobs
<1>10. ASSUME NEW h \in Handlers, CountBackglasses(h) PROVE Shape'
  <2>0. CountBackglassesDoes(h)
    BY <1>10, CountBackglassesEffect
  <2>1. CatalogueTypes'
    BY <2>0 DEF CountBackglassesDoes
  <2>2. SoundJob(job[h])'
    BY <2>0, <2>1, <1>t DEF CountBackglassesDoes, Rows, SoundJobs, SoundJob, Checking, Linking, Removing, Asking, Saved, CatalogueTypes
  <2>3. ASSUME NEW k \in Handlers, k # h PROVE SoundJob(job[k])'
    BY <2>0, <2>3, <1>t, SoundStays DEF CountBackglassesDoes, Others, SoundJobs
  <2>4. OneEach'
    BY <2>0, <1>t, ApartKept DEF CountBackglassesDoes, Saves, Checking, Linking, Asking, Others, Alike, Marked
  <2>5. Rows'
    BY <2>0, <1>t DEF CountBackglassesDoes, Rows
  <2> QED
    BY <2>1, <2>2, <2>3, <2>4, <2>5 DEF Shape, SoundJobs
<1>11. ASSUME NEW h \in Handlers, RemoveGame(h) PROVE Shape'
  <2>0. RemoveGameDoes(h)
    BY <1>11, RemoveGameEffect
  <2>1. CatalogueTypes'
    BY <2>0 DEF RemoveGameDoes
  <2>2. SoundJob(job[h])'
    BY <2>0, <2>1, <1>t DEF RemoveGameDoes, Rows, SoundJobs, SoundJob, Checking, Linking, Removing, Asking, Saved, CatalogueTypes, Marked, Alike
  <2>3. ASSUME NEW k \in Handlers, k # h PROVE SoundJob(job[k])'
    <3>1. SoundJob(job[k]) /\ SoundJob(job[h]) /\ Apart(job[h], job[k])
      BY <2>3, <1>t DEF SoundJobs, OneEach
    <3>3. GoesOnGames(k)
      <4>1. \A g \in Games : game[g].at # "unsaved" => game'[g].at # "unsaved"
        BY <2>0 DEF RemoveGameDoes
      <4>2. job[k].at \in Checking => game'[job[k].id].at = "unsaved"
        BY <2>0, <3>1 DEF RemoveGameDoes, SoundJob
      <4>3. job[k].at \in Linking => ~game'[job[k].id].linked
        BY <2>0, <3>1 DEF RemoveGameDoes, SoundJob
      <4>4. ASSUME NEW g \in Games, g = job[k].game, game[g].at = "saved"
            PROVE  game'[g].at = "saved" \/ job'[k].over
        <5>1. CASE g = job[h].id
          <6>1. g # None
            BY CatalogueAssumption
          <6> QED
            BY <2>0, <2>3, <4>4, <5>1, <6>1 DEF RemoveGameDoes, Marked
        <5>2. CASE g # job[h].id
          BY <2>0, <4>4, <5>2 DEF RemoveGameDoes
        <5> QED
          BY <5>1, <5>2
      <4> QED
        BY <4>1, <4>2, <4>3, <4>4 DEF GoesOnGames
    <3>4. Goes(k)
      BY <2>0, <2>1, <2>3, <3>1, <1>t DEF RemoveGameDoes, Others, Marked, Alike, Goes, SoundJob, Asking, CatalogueTypes
    <3> QED
      BY <2>1, <3>1, <3>3, <3>4, <1>t, SoundKept
  <2>4. OneEach'
    BY <2>0, <1>t, ApartKept DEF RemoveGameDoes, Saves, Checking, Linking, Asking, Others, Alike, Marked
  <2>5. Rows'
    <3>0. /\ game[job[h].id].at # "unsaved"
          /\ \A g \in Games :
               /\ game'[g].at = "unsaved" => game[g].at = "unsaved"
               /\ game'[g].num = game[g].num /\ (game'[g].renumbered <=> game[g].renumbered)
               /\ g # job[h].id => (game'[g].linked <=> game[g].linked)
          /\ \A q \in GameRequests : wanted'[q].at = wanted[q].at /\ wanted'[q].num = wanted[q].num
          /\ rom' = rom
      BY <2>0 DEF RemoveGameDoes
    <3>1. ASSUME NEW g \in Games, game'[g].at = "unsaved"
          PROVE  ~game'[g].linked /\ ~game'[g].renumbered /\ game'[g].num = None
      <4>1. game[g].at = "unsaved" /\ g # job[h].id
        BY <3>0, <3>1
      <4>2. ~game[g].linked /\ ~game[g].renumbered /\ game[g].num = None
        BY <1>t, <4>1 DEF Rows
      <4> QED
        BY <3>0, <4>1, <4>2
    <3>2. \A q \in GameRequests : wanted'[q].at = "saved" => wanted'[q].num # None
      BY <3>0, <1>t DEF Rows
    <3>3. \A s \in Roms : rom'[s].at = "removed" => rom'[s].num = None
      BY <3>0, <1>t DEF Rows
    <3> QED
      BY <3>1, <3>2, <3>3 DEF Rows
  <2> QED
    BY <2>1, <2>2, <2>3, <2>4, <2>5 DEF Shape, SoundJobs
<1>12. ASSUME NEW h \in Handlers, NEW r \in Roms, NEW n \in Numbers, FindGameOfRom(h, r, n) PROVE Shape'
  <2>0. FindGameOfRomDoes(h, r, n)
    BY <1>12, FindGameOfRomEffect
  <2>1. CatalogueTypes'
    BY <2>0 DEF FindGameOfRomDoes
  <2>2. SoundJob(job[h])'
    BY <2>0, <2>1, <1>t DEF FindGameOfRomDoes, Rows, SoundJobs, SoundJob, Checking, Linking, Removing, Asking, Saved, CatalogueTypes
  <2>3. ASSUME NEW k \in Handlers, k # h PROVE SoundJob(job[k])'
    BY <2>0, <2>3, <1>t, SoundStays DEF FindGameOfRomDoes, Others, SoundJobs
  <2>4. OneEach'
    BY <2>0, <1>t, ApartKept DEF FindGameOfRomDoes, Saves, Checking, Linking, Asking, Others, Alike, Marked
  <2>5. Rows'
    BY <2>0, <1>t DEF FindGameOfRomDoes, Rows
  <2> QED
    BY <2>1, <2>2, <2>3, <2>4, <2>5 DEF Shape, SoundJobs
<1>13. ASSUME NEW h \in Handlers, InsertRom(h) PROVE Shape'
  <2>0. InsertRomDoes(h)
    BY <1>13, InsertRomEffect
  <2>1. CatalogueTypes'
    BY <2>0 DEF InsertRomDoes
  <2>2. SoundJob(job[h])'
    BY <2>0, <2>1, <1>t DEF InsertRomDoes, Rows, SoundJobs, SoundJob, Checking, Linking, Removing, Asking, Saved, CatalogueTypes
  <2>3. ASSUME NEW k \in Handlers, k # h PROVE SoundJob(job[k])'
    <3>1. SoundJob(job[k]) /\ SoundJob(job[h]) /\ Apart(job[h], job[k])
      BY <2>3, <1>t DEF SoundJobs, OneEach
    <3>2. job[k].at \in {"insert rom"} => job[k].id # job[h].id
      BY <2>0, <3>1 DEF InsertRomDoes, Apart, Saves, Checking, Linking, Asking
    <3>3. GoesOnGames(k)
      BY <2>0, <2>1, <2>3, <3>1, <1>t, <3>2 DEF InsertRomDoes, Others, Marked, Alike, GoesOnGames, SoundJob, Checking, Linking, Removing, CatalogueTypes
    <3>4. Goes(k)
      BY <2>0, <2>1, <2>3, <3>1, <1>t, <3>2 DEF InsertRomDoes, Others, Marked, Alike, Goes, SoundJob, Asking, CatalogueTypes
    <3> QED
      BY <2>1, <3>1, <3>3, <3>4, <1>t, SoundKept
  <2>4. OneEach'
    BY <2>0, <1>t, ApartKept DEF InsertRomDoes, Saves, Checking, Linking, Asking, Others, Alike, Marked
  <2>5. Rows'
    BY <2>0, <2>1, <1>t DEF InsertRomDoes, Rows, CatalogueTypes
  <2> QED
    BY <2>1, <2>2, <2>3, <2>4, <2>5 DEF Shape, SoundJobs
<1>14. ASSUME NEW r \in Roms, RemoveRom(r) PROVE Shape'
  <2>0. RemoveRomDoes(r)
    BY <1>14, RemoveRomEffect
  <2>1. CatalogueTypes'
    BY <2>0 DEF RemoveRomDoes
  <2>3. ASSUME NEW k \in Handlers PROVE SoundJob(job[k])'
    <3>1. SoundJob(job[k])
      BY <1>t DEF SoundJobs
    <3>3. GoesOnGames(k)
      BY <2>0, <2>1, <3>1, <1>t DEF RemoveRomDoes, GoesOnGames, SoundJob, Checking, Linking, CatalogueTypes
    <3>4. Goes(k)
      BY <2>0, <2>1, <3>1, <1>t DEF RemoveRomDoes, Alike, Goes, SoundJob, Asking, CatalogueTypes
    <3> QED
      BY <2>1, <3>1, <3>3, <3>4, <1>t, SoundKept
  <2>4. OneEach'
    BY <2>0, <1>t DEF RemoveRomDoes, OneEach
  <2>5. Rows'
    BY <2>0, <2>1, <1>t DEF RemoveRomDoes, Rows, CatalogueTypes
  <2> QED
    BY <2>1, <2>3, <2>4, <2>5 DEF Shape, SoundJobs
<1>15. ASSUME NEW h \in Handlers, NEW q \in GameRequests, NEW n \in Numbers, FindRequestedGame(h, q, n) PROVE Shape'
  <2>0. FindRequestedGameDoes(h, q, n)
    BY <1>15, FindRequestedGameEffect
  <2>1. CatalogueTypes'
    BY <2>0 DEF FindRequestedGameDoes
  <2>2. SoundJob(job[h])'
    BY <2>0, <2>1, <1>t DEF FindRequestedGameDoes, Rows, SoundJobs, SoundJob, Checking, Linking, Removing, Asking, Saved, CatalogueTypes
  <2>3. ASSUME NEW k \in Handlers, k # h PROVE SoundJob(job[k])'
    BY <2>0, <2>3, <1>t, SoundStays DEF FindRequestedGameDoes, Others, SoundJobs
  <2>4. OneEach'
    BY <2>0, <1>t, ApartKept DEF FindRequestedGameDoes, Saves, Checking, Linking, Asking, Others, Alike, Marked
  <2>5. Rows'
    BY <2>0, <1>t DEF FindRequestedGameDoes, Rows
  <2> QED
    BY <2>1, <2>2, <2>3, <2>4, <2>5 DEF Shape, SoundJobs
<1>16. ASSUME NEW h \in Handlers, FindDupe(h) PROVE Shape'
  <2>0. FindDupeDoes(h)
    BY <1>16, FindDupeEffect
  <2>1. CatalogueTypes'
    BY <2>0 DEF FindDupeDoes
  <2>2. SoundJob(job[h])'
    <3>1. SoundJob(job[h]) /\ job[h].at = "find dupe" /\ wanted' = wanted
      BY <2>0, <1>t DEF FindDupeDoes, SoundJobs
    <3>2. /\ job[h].id \in GameRequests /\ wanted[job[h].id].at = "unsaved" /\ job[h].num # None
      BY <3>1 DEF SoundJob, Asking
    <3>3. \/ job'[h].at = "idle"
          \/ job'[h].at = "insert request" /\ job'[h].id = job[h].id /\ job'[h].num = job[h].num
      BY <2>0 DEF FindDupeDoes
    <3> QED
      BY <3>1, <3>2, <3>3 DEF SoundJob, Checking, Linking, Removing, Asking
  <2>3. ASSUME NEW k \in Handlers, k # h PROVE SoundJob(job[k])'
    BY <2>0, <2>3, <1>t, SoundStays DEF FindDupeDoes, Others, SoundJobs
  <2>4. OneEach'
    BY <2>0, <1>t, ApartKept DEF FindDupeDoes, Saves, Checking, Linking, Asking, Others, Alike, Marked
  <2>5. Rows'
    BY <2>0, <1>t DEF FindDupeDoes, Rows
  <2> QED
    BY <2>1, <2>2, <2>3, <2>4, <2>5 DEF Shape, SoundJobs
<1>17. ASSUME NEW h \in Handlers, InsertRequest(h) PROVE Shape'
  <2>0. InsertRequestDoes(h)
    BY <1>17, InsertRequestEffect
  <2>1. CatalogueTypes'
    BY <2>0 DEF InsertRequestDoes
  <2>2. SoundJob(job[h])'
    BY <2>0, <2>1, <1>t DEF InsertRequestDoes, Rows, SoundJobs, SoundJob, Checking, Linking, Removing, Asking, Saved, CatalogueTypes
  <2>3. ASSUME NEW k \in Handlers, k # h PROVE SoundJob(job[k])'
    <3>1. SoundJob(job[k]) /\ SoundJob(job[h]) /\ Apart(job[h], job[k])
      BY <2>3, <1>t DEF SoundJobs, OneEach
    <3>2. job[k].at \in Asking => job[k].id # job[h].id
      BY <2>0, <3>1 DEF InsertRequestDoes, Apart, Saves, Checking, Linking, Asking
    <3>3. GoesOnGames(k)
      BY <2>0, <2>1, <2>3, <3>1, <1>t, <3>2 DEF InsertRequestDoes, Others, Marked, Alike, GoesOnGames, SoundJob, Checking, Linking, Removing, CatalogueTypes
    <3>4. Goes(k)
      BY <2>0, <2>1, <2>3, <3>1, <1>t, <3>2 DEF InsertRequestDoes, Others, Marked, Alike, Goes, SoundJob, Asking, CatalogueTypes
    <3> QED
      BY <2>1, <3>1, <3>3, <3>4, <1>t, SoundKept
  <2>4. OneEach'
    BY <2>0, <1>t, ApartKept DEF InsertRequestDoes, Saves, Checking, Linking, Asking, Others, Alike, Marked
  <2>5. Rows'
    BY <2>0, <2>1, <1>t DEF InsertRequestDoes, Rows, CatalogueTypes
  <2> QED
    BY <2>1, <2>2, <2>3, <2>4, <2>5 DEF Shape, SoundJobs
<1>18. ASSUME NEW q \in GameRequests, UpdateRequest(q) PROVE Shape'
  <2>0. UpdateRequestDoes(q)
    BY <1>18, UpdateRequestEffect
  <2>1. CatalogueTypes'
    BY <2>0 DEF UpdateRequestDoes
  <2>3. ASSUME NEW k \in Handlers PROVE SoundJob(job[k])'
    <3>1. SoundJob(job[k])
      BY <1>t DEF SoundJobs
    <3>3. GoesOnGames(k)
      BY <2>0, <2>1, <3>1, <1>t DEF UpdateRequestDoes, GoesOnGames, SoundJob, Checking, Linking, CatalogueTypes
    <3>4. Goes(k)
      BY <2>0, <2>1, <3>1, <1>t DEF UpdateRequestDoes, Alike, Goes, SoundJob, Asking, CatalogueTypes
    <3> QED
      BY <2>1, <3>1, <3>3, <3>4, <1>t, SoundKept
  <2>4. OneEach'
    BY <2>0, <1>t DEF UpdateRequestDoes, OneEach
  <2>5. Rows'
    BY <2>0, <2>1, <1>t DEF UpdateRequestDoes, Rows, CatalogueTypes
  <2> QED
    BY <2>1, <2>3, <2>4, <2>5 DEF Shape, SoundJobs
<1>19. ASSUME NEW q \in GameRequests, RemoveRequest(q) PROVE Shape'
  <2>0. RemoveRequestDoes(q)
    BY <1>19, RemoveRequestEffect
  <2>1. CatalogueTypes'
    BY <2>0 DEF RemoveRequestDoes
  <2>3. ASSUME NEW k \in Handlers PROVE SoundJob(job[k])'
    <3>1. SoundJob(job[k])
      BY <1>t DEF SoundJobs
    <3>3. GoesOnGames(k)
      BY <2>0, <2>1, <3>1, <1>t DEF RemoveRequestDoes, GoesOnGames, SoundJob, Checking, Linking, CatalogueTypes
    <3>4. Goes(k)
      BY <2>0, <2>1, <3>1, <1>t DEF RemoveRequestDoes, Alike, Goes, SoundJob, Asking, CatalogueTypes
    <3> QED
      BY <2>1, <3>1, <3>3, <3>4, <1>t, SoundKept
  <2>4. OneEach'
    BY <2>0, <1>t DEF RemoveRequestDoes, OneEach
  <2>5. Rows'
    BY <2>0, <2>1, <1>t DEF RemoveRequestDoes, Rows, CatalogueTypes
  <2> QED
    BY <2>1, <2>3, <2>4, <2>5 DEF Shape, SoundJobs
<1>20. ASSUME NEW h \in Handlers, NEW e \in Entries, FindGame(h, e) PROVE Shape'
  <2>0. FindGameDoes(h, e)
    BY <1>20, FindGameEffect
  <2>1. CatalogueTypes'
    BY <2>0 DEF FindGameDoes
  <2>2. SoundJob(job[h])'
    BY <2>0, <2>1, <1>t DEF FindGameDoes, Rows, SoundJobs, SoundJob, Checking, Linking, Removing, Asking, Saved, CatalogueTypes
  <2>3. ASSUME NEW k \in Handlers, k # h PROVE SoundJob(job[k])'
    BY <2>0, <2>3, <1>t, SoundStays DEF FindGameDoes, Others, SoundJobs
  <2>4. OneEach'
    BY <2>0, <1>t, ApartKept DEF FindGameDoes, Saves, Checking, Linking, Asking, Others, Alike, Marked
  <2>5. Rows'
    BY <2>0, <1>t DEF FindGameDoes, Rows
  <2> QED
    BY <2>1, <2>2, <2>3, <2>4, <2>5 DEF Shape, SoundJobs
<1>21. ASSUME NEW h \in Handlers, SaveEntry(h) PROVE Shape'
  <2>0. SaveEntryDoes(h)
    BY <1>21, SaveEntryEffect
  <2>1. CatalogueTypes'
    BY <2>0 DEF SaveEntryDoes
  <2>2. SoundJob(job[h])'
    BY <2>0, <2>1, <1>t DEF SaveEntryDoes, Rows, SoundJobs, SoundJob, Checking, Linking, Removing, Asking, Saved, CatalogueTypes
  <2>3. ASSUME NEW k \in Handlers, k # h PROVE SoundJob(job[k])'
    <3>1. SoundJob(job[k]) /\ SoundJob(job[h]) /\ Apart(job[h], job[k])
      BY <2>3, <1>t DEF SoundJobs, OneEach
    <3>3. GoesOnGames(k)
      BY <2>0, <2>1, <2>3, <3>1, <1>t DEF SaveEntryDoes, Others, Marked, Alike, GoesOnGames, SoundJob, Checking, Linking, Removing, CatalogueTypes
    <3>4. Goes(k)
      BY <2>0, <2>1, <2>3, <3>1, <1>t DEF SaveEntryDoes, Others, Marked, Alike, Goes, SoundJob, Asking, CatalogueTypes
    <3> QED
      BY <2>1, <3>1, <3>3, <3>4, <1>t, SoundKept
  <2>4. OneEach'
    BY <2>0, <1>t, ApartKept DEF SaveEntryDoes, Saves, Checking, Linking, Asking, Others, Alike, Marked
  <2>5. Rows'
    BY <2>0, <2>1, <1>t DEF SaveEntryDoes, Rows, CatalogueTypes
  <2> QED
    BY <2>1, <2>2, <2>3, <2>4, <2>5 DEF Shape, SoundJobs
<1>22. ASSUME NEW e \in Entries, RemoveEntry(e) PROVE Shape'
  <2>0. RemoveEntryDoes(e)
    BY <1>22, RemoveEntryEffect
  <2>1. CatalogueTypes'
    BY <2>0 DEF RemoveEntryDoes
  <2>3. ASSUME NEW k \in Handlers PROVE SoundJob(job[k])'
    <3>1. SoundJob(job[k])
      BY <1>t DEF SoundJobs
    <3>3. GoesOnGames(k)
      BY <2>0, <2>1, <3>1, <1>t DEF RemoveEntryDoes, GoesOnGames, SoundJob, Checking, Linking, CatalogueTypes
    <3>4. Goes(k)
      BY <2>0, <2>1, <3>1, <1>t DEF RemoveEntryDoes, Alike, Goes, SoundJob, Asking, CatalogueTypes
    <3> QED
      BY <2>1, <3>1, <3>3, <3>4, <1>t, SoundKept
  <2>4. OneEach'
    BY <2>0, <1>t DEF RemoveEntryDoes, OneEach
  <2>5. Rows'
    BY <2>0, <2>1, <1>t DEF RemoveEntryDoes, Rows, CatalogueTypes
  <2> QED
    BY <2>1, <2>3, <2>4, <2>5 DEF Shape, SoundJobs
<1>23. ASSUME NEW h \in Handlers, Fail(h) PROVE Shape'
  <2>0. FailDoes(h)
    BY <1>23, FailEffect
  <2>1. CatalogueTypes'
    BY <2>0 DEF FailDoes
  <2>2. SoundJob(job[h])'
    BY <2>0, <2>1, <1>t DEF FailDoes, Rows, SoundJobs, SoundJob, Checking, Linking, Removing, Asking, Saved, CatalogueTypes
  <2>3. ASSUME NEW k \in Handlers, k # h PROVE SoundJob(job[k])'
    BY <2>0, <2>3, <1>t, SoundStays DEF FailDoes, Others, SoundJobs
  <2>4. OneEach'
    BY <2>0, <1>t, ApartKept DEF FailDoes, Saves, Checking, Linking, Asking, Others, Alike, Marked
  <2>5. Rows'
    BY <2>0, <1>t DEF FailDoes, Rows
  <2> QED
    BY <2>1, <2>2, <2>3, <2>4, <2>5 DEF Shape, SoundJobs
<1> QED
  BY <1>1, <1>2, <1>3, <1>4, <1>5, <1>6, <1>7, <1>8, <1>9, <1>10, <1>11, <1>12, <1>13, <1>14, <1>15, <1>16, <1>17, <1>18, <1>19, <1>20, <1>21, <1>22, <1>23 DEF CatalogueStep

-----------------------------------------------------------------------------
(* The numbers of the games *)

\* The games are as they were, but for what create has linked.
GamesAlike ==
  \A g \in Games :
    /\ game'[g].at = game[g].at /\ game'[g].num = game[g].num
    /\ (game'[g].renumbered <=> game[g].renumbered) /\ (game'[g].excused <=> game[g].excused)

\* Where the games are as they were, so is what a lookup finds.
LEMMA SameGames ==
  ASSUME CatalogueTypes, CatalogueTypes', GamesAlike
  PROVE  /\ Saved(game') = Saved(game) /\ (Same' <=> Same)
         /\ \A n \in Numbers \cup {None} : WithNumber(game', n) = WithNumber(game, n)
  BY DEF CatalogueTypes, GamesAlike, Saved, WithNumber, Same

\* A handler that leaves the games alone has only its own next step to account for.
LEMMA NumbersKept ==
  ASSUME Shape, Shape', NumbersKnown, GamesAlike, NEW h \in Handlers, Others(h),
         Same => NumberJob(job'[h])
  PROVE  NumbersKnown'
<1> SUFFICES ASSUME Same' PROVE (\A k \in Handlers : NumberJob(job[k])') /\ OneInTime'
  BY DEF NumbersKnown, OneInTime
<1>1. CatalogueTypes /\ CatalogueTypes' /\ SoundJobs' /\ Same
  BY SameGames DEF Shape
<1>2. (\A k \in Handlers : NumberJob(job[k])) /\ OneInTime
  BY <1>1 DEF NumbersKnown, OneInTime
<1>3. \A k \in Handlers : NumberJob(job'[k])
  BY <1>1, <1>2 DEF Others
<1>4. ASSUME NEW k \in Handlers PROVE NumberJob(job[k])'
  <2>1. job'[k] \in Jobs /\ NumberJob(job'[k]) /\ SoundJob(job[k])'
    BY <1>1, <1>3 DEF CatalogueTypes, SoundJobs
  <2> QED
    BY <1>1, <2>1, SameGames DEF NumberJob, SoundJob, Jobs, GamesAlike, Linking, Saved
<1>5. OneInTime'
  BY <1>1, <1>2, SameGames DEF OneInTime, GamesAlike, Saved, CatalogueTypes
<1> QED
  BY <1>4, <1>5

\* What is known of the numbers depends on the games and the jobs alone.
LEMMA NumbersStay ==
  ASSUME NumbersKnown, UNCHANGED <<game, job>>
  PROVE  NumbersKnown'
<1>1. Same' <=> Same
  BY DEF Same
<1>2. \A k \in Handlers : NumberJob(job[k])' <=> NumberJob(job[k])
  BY DEF NumberJob, WithNumber, Saved
<1>3. OneInTime' <=> OneInTime
  BY DEF OneInTime, Saved
<1>4. NumbersKnown <=> (Same => (\A k \in Handlers : NumberJob(job[k])) /\ OneInTime)
  BY DEF NumbersKnown, OneInTime
<1>5. NumbersKnown' <=> (Same' => (\A k \in Handlers : NumberJob(job[k])') /\ OneInTime')
  BY DEF NumbersKnown, OneInTime
<1> QED
  BY <1>1, <1>2, <1>3, <1>4, <1>5

\* Every step keeps what is known of the numbers.
LEMMA NumbersStep == Shape /\ NumbersKnown /\ Shape' /\ CatalogueStep => NumbersKnown'
<1> SUFFICES ASSUME Shape, NumbersKnown, Shape', CatalogueStep PROVE NumbersKnown'
  OBVIOUS
<1>t. CatalogueTypes /\ CatalogueTypes' /\ SoundJobs /\ Rows
  BY DEF Shape
<1>s. ASSUME Same PROVE (\A k \in Handlers : NumberJob(job[k])) /\ OneInTime
  BY <1>s DEF NumbersKnown, OneInTime
<1>1. ASSUME NEW h \in Handlers, NEW g \in Games, NEW n \in Numbers \cup {None},
             NEW q \in Saved(wanted) \cup {None}, CreateGame(h, g, n, q) PROVE NumbersKnown'
  <2>0. CreateGameDoes(h, g, n, q)
    BY <1>1, CreateGameEffect
  <2>1. Same => NumberJob(job'[h])
    BY <2>0, <1>s DEF CreateGameDoes, NumberJob, Linking, Asking
  <2> QED
    BY <2>0, <2>1, NumbersKept DEF CreateGameDoes, GamesAlike
<1>2. ASSUME NEW h \in Handlers, ValidateGame(h) PROVE NumbersKnown'
  <2>0. ValidateGameDoes(h)
    BY <1>2, ValidateGameEffect
  <2>1. Same => NumberJob(job'[h])
    BY <2>0, <1>s DEF ValidateGameDoes, NumberJob, Linking, Asking
  <2> QED
    BY <2>0, <2>1, NumbersKept DEF ValidateGameDoes, GamesAlike
<1>3. ASSUME NEW h \in Handlers, InsertGame(h) PROVE NumbersKnown'
  <2>0. InsertGameDoes(h)
    BY <1>3, InsertGameEffect
  <2> DEFINE i == job[h].id
             n == job[h].num
  <2> SUFFICES ASSUME Same' PROVE (\A k \in Handlers : NumberJob(job[k])') /\ OneInTime'
    BY DEF NumbersKnown, OneInTime
  <2>1. /\ job[h].at \in {"insert game", "insert original"} /\ i \in Games /\ n \in Numbers \cup {None}
        /\ \A g \in Games : g # i => game'[g] = game[g]
        /\ game'[i].at = "saved" /\ game'[i].num = n
        /\ game'[i].excused = IF job[h].at = "insert original" THEN WithNumber(game, n) # {} ELSE job[h].over
        /\ Marked(h, None, n)
        /\ job'[h].at = "find roms" /\ job'[h].id = i /\ job'[h].num = n
    BY <2>0, <1>t DEF InsertGameDoes, CatalogueTypes, Jobs
  <2>2. game[i].at = "unsaved" /\ ~game[i].renumbered
    BY <2>1, <1>t DEF SoundJobs, SoundJob, Checking, Rows
  <2>3. Same
    BY <2>1, <2>2 DEF Same
  <2>4. \A m \in Numbers \cup {None} : m # n \/ n = None => WithNumber(game', m) = WithNumber(game, m)
    <3> SUFFICES ASSUME NEW m \in Numbers \cup {None}, m # n \/ n = None, NEW g \in Games
                 PROVE  g \in WithNumber(game', m) <=> g \in WithNumber(game, m)
      BY <1>t DEF WithNumber, Saved, CatalogueTypes
    <3> QED
      BY <2>1, <2>2, <1>t DEF WithNumber, Saved, CatalogueTypes
  <2>5. ASSUME NEW k \in Handlers, k # h PROVE NumberJob(job[k])'
    <3>1. NumberJob(job[k]) /\ SoundJob(job[k]) /\ job[k] \in Jobs
      BY <2>3, <1>s, <1>t DEF SoundJobs, CatalogueTypes
    <3>2. /\ Alike(job'[k], job[k])
          /\ job'[k].over <=> job[k].over \/ (n # None /\ job[k].num = n)
      BY <2>1, <2>5 DEF Marked
    <3>3. job'[k].at \in Linking => game'[job'[k].id].num = job'[k].num
      BY <2>1, <2>2, <3>1, <3>2 DEF NumberJob, SoundJob, Alike
    <3>4. job'[k].at \in {"insert game"} \cup Asking /\ ~job'[k].over => WithNumber(game', job'[k].num) = {}
      BY <2>4, <3>1, <3>2 DEF NumberJob, Alike, Jobs
    <3>5. job'[k].at = "insert rom" /\ ~job'[k].over =>
            IF job'[k].game = None THEN WithNumber(game', job'[k].num) = {}
              ELSE job'[k].game \in Saved(game') /\ game'[job'[k].game].num = job'[k].num
      <4> SUFFICES ASSUME job[k].at = "insert rom", ~job[k].over, n = None \/ job[k].num # n
                   PROVE  IF job[k].game = None THEN WithNumber(game', job[k].num) = {}
                            ELSE job[k].game \in Saved(game') /\ game'[job[k].game].num = job[k].num
        BY <3>2 DEF Alike
      <4>1. IF job[k].game = None THEN WithNumber(game, job[k].num) = {}
              ELSE job[k].game \in Saved(game) /\ game[job[k].game].num = job[k].num
        BY <3>1 DEF NumberJob
      <4>2. CASE job[k].game = None
        BY <2>4, <3>1, <4>1, <4>2 DEF Jobs
      <4>3. CASE job[k].game # None
        BY <2>1, <2>2, <4>1, <4>3, <1>t DEF Saved, CatalogueTypes
      <4> QED
        BY <4>2, <4>3
    <3> QED
      BY <3>3, <3>4, <3>5 DEF NumberJob
  <2>6. NumberJob(job[h])'
    BY <2>1 DEF NumberJob, Linking, Asking
  <2>7. ASSUME NEW f \in Saved(game'), NEW g \in Saved(game'), game'[f].num = game'[g].num, game'[f].num # None
        PROVE  f = g \/ game'[f].excused \/ game'[g].excused
    <3>1. f \in Games /\ g \in Games /\ game'[f].at = "saved" /\ game'[g].at = "saved"
      BY <1>t DEF Saved, CatalogueTypes
    <3>2. CASE f # i /\ g # i
      BY <2>1, <2>3, <2>7, <3>1, <3>2, <1>s, <1>t DEF OneInTime, Saved, CatalogueTypes
    <3>3. ASSUME NEW x \in Games, x # i, game'[x].at = "saved", game'[x].num = n, n # None
          PROVE  game'[i].excused
      <4>1. x \in WithNumber(game, n)
        BY <2>1, <3>3, <1>t DEF WithNumber, Saved, CatalogueTypes
      <4>2. NumberJob(job[h])
        BY <2>3, <1>s
      <4> QED
        BY <2>1, <4>1, <4>2 DEF NumberJob
    <3> QED
      BY <2>1, <2>7, <3>1, <3>2, <3>3
  <2> QED
    BY <2>5, <2>6, <2>7 DEF OneInTime
<1>4. ASSUME NEW h \in Handlers, FindRoms(h) PROVE NumbersKnown'
  <2>0. FindRomsDoes(h)
    BY <1>4, FindRomsEffect
  <2>1. Same => NumberJob(job'[h])
    BY <2>0, <1>s DEF FindRomsDoes, NumberJob, Linking, Asking
  <2> QED
    BY <2>0, <2>1, NumbersKept DEF FindRomsDoes, GamesAlike
<1>5. ASSUME NEW h \in Handlers, NEW r \in Roms, LinkRom(h, r) PROVE NumbersKnown'
  <2>0. LinkRomDoes(h, r)
    BY <1>5, LinkRomEffect
  <2>1. Same => NumberJob(job'[h])
    BY <2>0, <1>s DEF LinkRomDoes, NumberJob, Linking, Asking
  <2> QED
    BY <2>0, <2>1, NumbersKept DEF LinkRomDoes, GamesAlike
<1>6. ASSUME NEW h \in Handlers, FindRequest(h) PROVE NumbersKnown'
  <2>0. FindRequestDoes(h)
    BY <1>6, FindRequestEffect
  <2>1. ASSUME Same PROVE NumberJob(job'[h])
    <3>1. NumberJob(job[h]) /\ job[h].at = "link roms"
      BY <2>0, <2>1, <1>s DEF FindRequestDoes
    <3>2. \/ job'[h].at = "idle"
          \/ job'[h].at = "close request" /\ job'[h].id = job[h].id /\ job'[h].num = job[h].num
      BY <2>0 DEF FindRequestDoes
    <3> QED
      BY <3>1, <3>2 DEF NumberJob, Linking, Asking
  <2> QED
    BY <2>0, <2>1, NumbersKept DEF FindRequestDoes, GamesAlike
<1>7. ASSUME NEW h \in Handlers, CloseRequest(h) PROVE NumbersKnown'
  <2>0. CloseRequestDoes(h)
    BY <1>7, CloseRequestEffect
  <2>1. Same => NumberJob(job'[h])
    BY <2>0, <1>s DEF CloseRequestDoes, NumberJob, Linking, Asking
  <2> QED
    BY <2>0, <2>1, NumbersKept DEF CloseRequestDoes, GamesAlike
<1>8. ASSUME NEW g \in Games, NEW n \in Numbers \cup {None}, UpdateGame(g, n) PROVE NumbersKnown'
  <2>0. UpdateGameDoes(g, n)
    BY <1>8, UpdateGameEffect
  <2> QED
    BY <2>0 DEF UpdateGameDoes, NumbersKnown, Same
<1>9. ASSUME NEW h \in Handlers, NEW g \in Games, CountReleases(h, g) PROVE NumbersKnown'
  <2>0. CountReleasesDoes(h, g)
    BY <1>9, CountReleasesEffect
  <2>1. Same => NumberJob(job'[h])
    BY <2>0, <1>s DEF CountReleasesDoes, NumberJob, Linking, Asking
  <2> QED
    BY <2>0, <2>1, NumbersKept DEF CountReleasesDoes, GamesAlike
<1>10. ASSUME NEW h \in Handlers, CountBackglasses(h) PROVE NumbersKnown'
  <2>0. CountBackglassesDoes(h)
    BY <1>10, CountBackglassesEffect
  <2>1. Same => NumberJob(job'[h])
    BY <2>0, <1>s DEF CountBackglassesDoes, NumberJob, Linking, Asking
  <2> QED
    BY <2>0, <2>1, NumbersKept DEF CountBackglassesDoes, GamesAlike
<1>11. ASSUME NEW h \in Handlers, RemoveGame(h) PROVE NumbersKnown'
  <2>0. RemoveGameDoes(h)
    BY <1>11, RemoveGameEffect
  <2> DEFINE i == job[h].id
  <2> SUFFICES ASSUME Same' PROVE (\A k \in Handlers : NumberJob(job[k])') /\ OneInTime'
    BY DEF NumbersKnown, OneInTime
  <2>1. /\ i \in Games /\ i # None /\ Marked(h, i, None) /\ job'[h].at = "idle"
        /\ \A f \in Games :
            /\ game'[f].num = game[f].num
            /\ (game'[f].renumbered <=> game[f].renumbered) /\ (game'[f].excused <=> game[f].excused)
            /\ f # i => game'[f].at = game[f].at
        /\ game'[i].at = "removed"
    BY <2>0 DEF RemoveGameDoes
  <2>2. /\ Same /\ Saved(game') = Saved(game) \ {i}
        /\ \A m \in Numbers \cup {None} : WithNumber(game', m) \subseteq WithNumber(game, m)
    BY <2>1, <1>t DEF WithNumber, Saved, CatalogueTypes, Same
  <2>3. ASSUME NEW k \in Handlers, k # h PROVE NumberJob(job[k])'
    <3>1. NumberJob(job[k]) /\ SoundJob(job[k]) /\ job[k] \in Jobs
      BY <2>2, <1>s, <1>t DEF SoundJobs, CatalogueTypes
    <3>2. /\ Alike(job'[k], job[k])
          /\ job'[k].over <=> job[k].over \/ job[k].game = i
      BY <2>1, <2>3 DEF Marked
    <3>3. job'[k].at \in Linking => game'[job'[k].id].num = job'[k].num
      BY <2>1, <3>1, <3>2 DEF NumberJob, SoundJob, Alike
    <3>4. job'[k].at \in {"insert game"} \cup Asking /\ ~job'[k].over => WithNumber(game', job'[k].num) = {}
      BY <2>2, <3>1, <3>2 DEF NumberJob, Alike, Jobs
    <3>5. job'[k].at = "insert rom" /\ ~job'[k].over =>
            IF job'[k].game = None THEN WithNumber(game', job'[k].num) = {}
              ELSE job'[k].game \in Saved(game') /\ game'[job'[k].game].num = job'[k].num
      <4> SUFFICES ASSUME job[k].at = "insert rom", ~job[k].over, job[k].game # i
                   PROVE  IF job[k].game = None THEN WithNumber(game', job[k].num) = {}
                            ELSE job[k].game \in Saved(game') /\ game'[job[k].game].num = job[k].num
        BY <3>2 DEF Alike
      <4>1. IF job[k].game = None THEN WithNumber(game, job[k].num) = {}
              ELSE job[k].game \in Saved(game) /\ game[job[k].game].num = job[k].num
        BY <3>1 DEF NumberJob
      <4>2. CASE job[k].game = None
        BY <2>2, <3>1, <4>1, <4>2 DEF Jobs
      <4>3. CASE job[k].game # None
        BY <2>1, <2>2, <4>1, <4>3, <1>t DEF Saved, CatalogueTypes
      <4> QED
        BY <4>2, <4>3
    <3> QED
      BY <3>3, <3>4, <3>5 DEF NumberJob
  <2>4. NumberJob(job[h])'
    BY <2>1 DEF NumberJob, Linking, Asking
  <2>5. OneInTime'
    BY <2>1, <2>2, <1>s, <1>t DEF OneInTime, Saved, CatalogueTypes
  <2> QED
    BY <2>3, <2>4, <2>5
<1>12. ASSUME NEW h \in Handlers, NEW r \in Roms, NEW n \in Numbers, FindGameOfRom(h, r, n) PROVE NumbersKnown'
  <2>0. FindGameOfRomDoes(h, r, n)
    BY <1>12, FindGameOfRomEffect
  <2>1. Same => NumberJob(job'[h])
    BY <2>0, <1>s DEF FindGameOfRomDoes, NumberJob, Linking, Asking
  <2> QED
    BY <2>0, <2>1, NumbersKept DEF FindGameOfRomDoes, GamesAlike
<1>13. ASSUME NEW h \in Handlers, InsertRom(h) PROVE NumbersKnown'
  <2>0. InsertRomDoes(h)
    BY <1>13, InsertRomEffect
  <2>1. Same => NumberJob(job'[h])
    BY <2>0, <1>s DEF InsertRomDoes, NumberJob, Linking, Asking
  <2> QED
    BY <2>0, <2>1, NumbersKept DEF InsertRomDoes, GamesAlike
<1>14. ASSUME NEW r \in Roms, RemoveRom(r) PROVE NumbersKnown'
  <2>0. RemoveRomDoes(r)
    BY <1>14, RemoveRomEffect
  <2> QED
    BY <2>0, NumbersStay DEF RemoveRomDoes
<1>15. ASSUME NEW h \in Handlers, NEW q \in GameRequests, NEW n \in Numbers, FindRequestedGame(h, q, n) PROVE NumbersKnown'
  <2>0. FindRequestedGameDoes(h, q, n)
    BY <1>15, FindRequestedGameEffect
  <2>1. Same => NumberJob(job'[h])
    BY <2>0, <1>s DEF FindRequestedGameDoes, NumberJob, Linking, Asking
  <2> QED
    BY <2>0, <2>1, NumbersKept DEF FindRequestedGameDoes, GamesAlike
<1>16. ASSUME NEW h \in Handlers, FindDupe(h) PROVE NumbersKnown'
  <2>0. FindDupeDoes(h)
    BY <1>16, FindDupeEffect
  <2>1. Same => NumberJob(job'[h])
    BY <2>0, <1>s DEF FindDupeDoes, NumberJob, Linking, Asking
  <2> QED
    BY <2>0, <2>1, NumbersKept DEF FindDupeDoes, GamesAlike
<1>17. ASSUME NEW h \in Handlers, InsertRequest(h) PROVE NumbersKnown'
  <2>0. InsertRequestDoes(h)
    BY <1>17, InsertRequestEffect
  <2>1. Same => NumberJob(job'[h])
    BY <2>0, <1>s DEF InsertRequestDoes, NumberJob, Linking, Asking
  <2> QED
    BY <2>0, <2>1, NumbersKept DEF InsertRequestDoes, GamesAlike
<1>18. ASSUME NEW q \in GameRequests, UpdateRequest(q) PROVE NumbersKnown'
  <2>0. UpdateRequestDoes(q)
    BY <1>18, UpdateRequestEffect
  <2> QED
    BY <2>0, NumbersStay DEF UpdateRequestDoes
<1>19. ASSUME NEW q \in GameRequests, RemoveRequest(q) PROVE NumbersKnown'
  <2>0. RemoveRequestDoes(q)
    BY <1>19, RemoveRequestEffect
  <2> QED
    BY <2>0, NumbersStay DEF RemoveRequestDoes
<1>20. ASSUME NEW h \in Handlers, NEW e \in Entries, FindGame(h, e) PROVE NumbersKnown'
  <2>0. FindGameDoes(h, e)
    BY <1>20, FindGameEffect
  <2>1. Same => NumberJob(job'[h])
    BY <2>0, <1>s DEF FindGameDoes, NumberJob, Linking, Asking
  <2> QED
    BY <2>0, <2>1, NumbersKept DEF FindGameDoes, GamesAlike
<1>21. ASSUME NEW h \in Handlers, SaveEntry(h) PROVE NumbersKnown'
  <2>0. SaveEntryDoes(h)
    BY <1>21, SaveEntryEffect
  <2>1. Same => NumberJob(job'[h])
    BY <2>0, <1>s DEF SaveEntryDoes, NumberJob, Linking, Asking
  <2> QED
    BY <2>0, <2>1, NumbersKept DEF SaveEntryDoes, GamesAlike
<1>22. ASSUME NEW e \in Entries, RemoveEntry(e) PROVE NumbersKnown'
  <2>0. RemoveEntryDoes(e)
    BY <1>22, RemoveEntryEffect
  <2> QED
    BY <2>0, NumbersStay DEF RemoveEntryDoes
<1>23. ASSUME NEW h \in Handlers, Fail(h) PROVE NumbersKnown'
  <2>0. FailDoes(h)
    BY <1>23, FailEffect
  <2>1. Same => NumberJob(job'[h])
    BY <2>0, <1>s DEF FailDoes, NumberJob, Linking, Asking
  <2> QED
    BY <2>0, <2>1, NumbersKept DEF FailDoes, GamesAlike
<1> QED
  BY <1>1, <1>2, <1>3, <1>4, <1>5, <1>6, <1>7, <1>8, <1>9, <1>10, <1>11, <1>12, <1>13, <1>14, <1>15, <1>16, <1>17, <1>18, <1>19, <1>20, <1>21, <1>22, <1>23 DEF CatalogueStep

-----------------------------------------------------------------------------
(* The ROMs *)

\* No game is inserted or given another number.
GamesGoOn ==
  \A g \in Games :
    /\ game'[g].at = "saved" => game[g].at = "saved"
    /\ game'[g].num = game[g].num
    /\ (game'[g].renumbered <=> game[g].renumbered) /\ (game'[g].excused <=> game[g].excused)

\* A lasting game was one before, if no game was inserted or renumbered.
LEMMA GoneOn ==
  ASSUME CatalogueTypes, CatalogueTypes', GamesGoOn, NEW g \in Games, Lasting(g)'
  PROVE  Lasting(g) /\ game'[g].num = game[g].num
  BY DEF CatalogueTypes, GamesGoOn, Lasting, Saved

\* A lasting game was one before, but for the game that is inserted.
LEMMA LastingBefore ==
  ASSUME Shape, Shape', CatalogueStep, NEW g \in Games, Lasting(g)', game[g].at # "unsaved"
  PROVE  Lasting(g) /\ game'[g].num = game[g].num
<1>t. CatalogueTypes /\ CatalogueTypes' /\ SoundJobs /\ Rows
  BY DEF Shape
<1>s. ASSUME GamesGoOn PROVE Lasting(g) /\ game'[g].num = game[g].num
  BY <1>s, <1>t, GoneOn
<1>1. ASSUME NEW h \in Handlers, NEW x \in Games, NEW n \in Numbers \cup {None},
             NEW q \in Saved(wanted) \cup {None}, CreateGame(h, x, n, q) PROVE Lasting(g) /\ game'[g].num = game[g].num
  BY <1>1, <1>s, CreateGameEffect DEF CreateGameDoes, GamesGoOn
<1>2. ASSUME NEW h \in Handlers, ValidateGame(h) PROVE Lasting(g) /\ game'[g].num = game[g].num
  BY <1>2, <1>s, ValidateGameEffect DEF ValidateGameDoes, GamesGoOn
<1>3. ASSUME NEW h \in Handlers, InsertGame(h) PROVE Lasting(g) /\ game'[g].num = game[g].num
  <2>0. InsertGameDoes(h)
    BY <1>3, InsertGameEffect
  <2>1. /\ job[h].at \in {"insert game", "insert original"} /\ job[h].id \in Games
        /\ \A f \in Games : f # job[h].id => game'[f] = game[f]
    BY <2>0 DEF InsertGameDoes
  <2>2. /\ game[job[h].id].at = "unsaved" /\ ~game[job[h].id].renumbered /\ game[job[h].id].num = None
    BY <2>1, <1>t DEF SoundJobs, SoundJob, Checking, Rows
  <2>3. game'[g] = game[g]
    BY <2>1, <2>2
  <2> QED
    BY <2>1, <2>2, <2>3, <1>t DEF Lasting, Saved, CatalogueTypes
<1>4. ASSUME NEW h \in Handlers, FindRoms(h) PROVE Lasting(g) /\ game'[g].num = game[g].num
  BY <1>4, <1>s, FindRomsEffect DEF FindRomsDoes, GamesGoOn
<1>5. ASSUME NEW h \in Handlers, NEW r \in Roms, LinkRom(h, r) PROVE Lasting(g) /\ game'[g].num = game[g].num
  BY <1>5, <1>s, LinkRomEffect DEF LinkRomDoes, GamesGoOn
<1>6. ASSUME NEW h \in Handlers, FindRequest(h) PROVE Lasting(g) /\ game'[g].num = game[g].num
  BY <1>6, <1>s, FindRequestEffect DEF FindRequestDoes, GamesGoOn
<1>7. ASSUME NEW h \in Handlers, CloseRequest(h) PROVE Lasting(g) /\ game'[g].num = game[g].num
  BY <1>7, <1>s, CloseRequestEffect DEF CloseRequestDoes, GamesGoOn
<1>8. ASSUME NEW x \in Games, NEW n \in Numbers \cup {None}, UpdateGame(x, n) PROVE Lasting(g) /\ game'[g].num = game[g].num
  <2>0. UpdateGameDoes(x, n)
    BY <1>8, UpdateGameEffect
  <2> QED
    BY <2>0, <1>8 DEF UpdateGameDoes, Lasting
<1>9. ASSUME NEW h \in Handlers, NEW x \in Games, CountReleases(h, x) PROVE Lasting(g) /\ game'[g].num = game[g].num
  BY <1>9, <1>s, CountReleasesEffect DEF CountReleasesDoes, GamesGoOn
<1>10. ASSUME NEW h \in Handlers, CountBackglasses(h) PROVE Lasting(g) /\ game'[g].num = game[g].num
  BY <1>10, <1>s, CountBackglassesEffect DEF CountBackglassesDoes, GamesGoOn
<1>11. ASSUME NEW h \in Handlers, RemoveGame(h) PROVE Lasting(g) /\ game'[g].num = game[g].num
  BY <1>11, <1>s, RemoveGameEffect DEF RemoveGameDoes, GamesGoOn
<1>12. ASSUME NEW h \in Handlers, NEW r \in Roms, NEW n \in Numbers, FindGameOfRom(h, r, n) PROVE Lasting(g) /\ game'[g].num = game[g].num
  BY <1>12, <1>s, FindGameOfRomEffect DEF FindGameOfRomDoes, GamesGoOn
<1>13. ASSUME NEW h \in Handlers, InsertRom(h) PROVE Lasting(g) /\ game'[g].num = game[g].num
  BY <1>13, <1>s, InsertRomEffect DEF InsertRomDoes, GamesGoOn
<1>14. ASSUME NEW r \in Roms, RemoveRom(r) PROVE Lasting(g) /\ game'[g].num = game[g].num
  BY <1>14, <1>s, RemoveRomEffect DEF RemoveRomDoes, GamesGoOn
<1>15. ASSUME NEW h \in Handlers, NEW q \in GameRequests, NEW n \in Numbers, FindRequestedGame(h, q, n) PROVE Lasting(g) /\ game'[g].num = game[g].num
  BY <1>15, <1>s, FindRequestedGameEffect DEF FindRequestedGameDoes, GamesGoOn
<1>16. ASSUME NEW h \in Handlers, FindDupe(h) PROVE Lasting(g) /\ game'[g].num = game[g].num
  BY <1>16, <1>s, FindDupeEffect DEF FindDupeDoes, GamesGoOn
<1>17. ASSUME NEW h \in Handlers, InsertRequest(h) PROVE Lasting(g) /\ game'[g].num = game[g].num
  BY <1>17, <1>s, InsertRequestEffect DEF InsertRequestDoes, GamesGoOn
<1>18. ASSUME NEW q \in GameRequests, UpdateRequest(q) PROVE Lasting(g) /\ game'[g].num = game[g].num
  BY <1>18, <1>s, UpdateRequestEffect DEF UpdateRequestDoes, GamesGoOn
<1>19. ASSUME NEW q \in GameRequests, RemoveRequest(q) PROVE Lasting(g) /\ game'[g].num = game[g].num
  BY <1>19, <1>s, RemoveRequestEffect DEF RemoveRequestDoes, GamesGoOn
<1>20. ASSUME NEW h \in Handlers, NEW e \in Entries, FindGame(h, e) PROVE Lasting(g) /\ game'[g].num = game[g].num
  BY <1>20, <1>s, FindGameEffect DEF FindGameDoes, GamesGoOn
<1>21. ASSUME NEW h \in Handlers, SaveEntry(h) PROVE Lasting(g) /\ game'[g].num = game[g].num
  BY <1>21, <1>s, SaveEntryEffect DEF SaveEntryDoes, GamesGoOn
<1>22. ASSUME NEW e \in Entries, RemoveEntry(e) PROVE Lasting(g) /\ game'[g].num = game[g].num
  BY <1>22, <1>s, RemoveEntryEffect DEF RemoveEntryDoes, GamesGoOn
<1>23. ASSUME NEW h \in Handlers, Fail(h) PROVE Lasting(g) /\ game'[g].num = game[g].num
  BY <1>23, <1>s, FailEffect DEF FailDoes, GamesGoOn
<1> QED
  BY <1>1, <1>2, <1>3, <1>4, <1>5, <1>6, <1>7, <1>8, <1>9, <1>10, <1>11, <1>12, <1>13, <1>14, <1>15, <1>16, <1>17, <1>18, <1>19, <1>20, <1>21, <1>22, <1>23 DEF CatalogueStep

\* A ROM that has still to be found by its game was not found before: whoever links it to
\* another game, or inserts it, has looked for its machine in time.
LEMMA LooseBefore ==
  ASSUME Shape, Shape', NumbersKnown, CatalogueStep,
         NEW r \in Roms, NEW g \in Games, Loose(r, g)', game[g].at # "unsaved"
  PROVE  Loose(r, g)
<1>t. CatalogueTypes /\ CatalogueTypes' /\ SoundJobs
  BY DEF Shape
<1>g. /\ Lasting(g) /\ game'[g].num = game[g].num /\ game[g].num # None
      /\ game[g].at = "saved" /\ g \in Saved(game) /\ ~game[g].excused
  BY LastingBefore DEF Loose, Lasting, Saved
<1>r. /\ rom'[r].at = "saved" /\ rom'[r].num = game[g].num
      /\ rom'[r].game # g /\ ~rom'[r].excused
  BY <1>g DEF Loose, WithNumber, Saved
<1>n. (\A h \in Handlers : NumberJob(job[h])) /\ OneInTime
  BY <1>g DEF NumbersKnown, Lasting, Same
<1>s. ASSUME rom'[r] = rom[r] PROVE Loose(r, g)
  BY <1>s, <1>t, <1>g, <1>r DEF Loose, WithNumber, Saved, CatalogueTypes
<1>1. ASSUME NEW h \in Handlers, NEW x \in Games, NEW m \in Numbers \cup {None},
             NEW p \in Saved(wanted) \cup {None}, CreateGame(h, x, m, p) PROVE Loose(r, g)
  BY <1>1, <1>s, CreateGameEffect DEF CreateGameDoes
<1>2. ASSUME NEW h \in Handlers, ValidateGame(h) PROVE Loose(r, g)
  BY <1>2, <1>s, ValidateGameEffect DEF ValidateGameDoes
<1>3. ASSUME NEW h \in Handlers, InsertGame(h) PROVE Loose(r, g)
  BY <1>3, <1>s, InsertGameEffect DEF InsertGameDoes
<1>4. ASSUME NEW h \in Handlers, FindRoms(h) PROVE Loose(r, g)
  BY <1>4, <1>s, FindRomsEffect DEF FindRomsDoes
<1>5. ASSUME NEW h \in Handlers, NEW s \in Roms, LinkRom(h, s) PROVE Loose(r, g)
  <2>0. LinkRomDoes(h, s)
    BY <1>5, LinkRomEffect
  <2>1. CASE rom'[r] = rom[r]
    BY <1>s, <2>1
  <2>2. CASE rom'[r] # rom[r]
    <3>1. /\ r = s /\ r \in job[h].roms /\ job[h].at = "link roms" /\ job[h].id \in Games
          /\ rom[r].num = game[g].num /\ rom'[r].game = job[h].id
          /\ rom'[r].excused <=> rom[r].excused \/ job[h].id \notin Saved(game)
      BY <2>0, <2>2, <1>r DEF LinkRomDoes
    <3>2. job[h].id \in Saved(game)
      BY <3>1, <1>r
    <3>3. game[job[h].id].num = job[h].num /\ rom[r].num = job[h].num
      <4>1. NumberJob(job[h]) /\ SoundJob(job[h])
        BY <1>n, <1>t DEF SoundJobs
      <4>2. game[job[h].id].num = job[h].num
        BY <3>1, <4>1 DEF NumberJob, Linking
      <4>3. rom[r].num \in {job[h].num, None}
        BY <3>1, <4>1 DEF SoundJob
      <4> QED
        BY <3>1, <4>2, <4>3, <1>g
    <3>4. g = job[h].id \/ game[job[h].id].excused
      BY <3>1, <3>2, <3>3, <1>g, <1>n DEF OneInTime
    <3> QED
      BY <3>1, <3>3, <3>4, <1>g, <1>r DEF Lasting
  <2> QED
    BY <2>1, <2>2
<1>6. ASSUME NEW h \in Handlers, FindRequest(h) PROVE Loose(r, g)
  BY <1>6, <1>s, FindRequestEffect DEF FindRequestDoes
<1>7. ASSUME NEW h \in Handlers, CloseRequest(h) PROVE Loose(r, g)
  BY <1>7, <1>s, CloseRequestEffect DEF CloseRequestDoes
<1>8. ASSUME NEW x \in Games, NEW m \in Numbers \cup {None}, UpdateGame(x, m) PROVE Loose(r, g)
  BY <1>8, <1>s, UpdateGameEffect DEF UpdateGameDoes
<1>9. ASSUME NEW h \in Handlers, NEW x \in Games, CountReleases(h, x) PROVE Loose(r, g)
  BY <1>9, <1>s, CountReleasesEffect DEF CountReleasesDoes
<1>10. ASSUME NEW h \in Handlers, CountBackglasses(h) PROVE Loose(r, g)
  BY <1>10, <1>s, CountBackglassesEffect DEF CountBackglassesDoes
<1>11. ASSUME NEW h \in Handlers, RemoveGame(h) PROVE Loose(r, g)
  BY <1>11, <1>s, RemoveGameEffect DEF RemoveGameDoes
<1>12. ASSUME NEW h \in Handlers, NEW s \in Roms, NEW m \in Numbers, FindGameOfRom(h, s, m) PROVE Loose(r, g)
  BY <1>12, <1>s, FindGameOfRomEffect DEF FindGameOfRomDoes
<1>13. ASSUME NEW h \in Handlers, InsertRom(h) PROVE Loose(r, g)
  <2>0. InsertRomDoes(h)
    BY <1>13, InsertRomEffect
  <2>1. CASE rom'[r] = rom[r]
    BY <1>s, <2>1
  <2>2. CASE rom'[r] # rom[r]
    <3>1. /\ job[h].at = "insert rom" /\ ~job[h].over
          /\ job[h].num = game[g].num /\ job[h].game # g
      BY <2>0, <2>2, <1>r DEF InsertRomDoes
    <3>2. NumberJob(job[h])
      BY <1>n
    <3>3. g \in WithNumber(game, job[h].num)
      BY <3>1, <1>g DEF WithNumber
    <3>4. /\ job[h].game # None /\ job[h].game \in Saved(game)
          /\ game[job[h].game].num = game[g].num
      BY <3>1, <3>2, <3>3 DEF NumberJob
    <3>5. game[job[h].game].excused /\ job[h].game \in Games
      BY <3>1, <3>4, <1>g, <1>n, <1>t DEF OneInTime, Saved, CatalogueTypes
    <3> QED
      BY <3>4, <3>5, <1>g DEF Lasting
  <2> QED
    BY <2>1, <2>2
<1>14. ASSUME NEW s \in Roms, RemoveRom(s) PROVE Loose(r, g)
  <2>0. RemoveRomDoes(s)
    BY <1>14, RemoveRomEffect
  <2>1. rom'[r] = rom[r]
    BY <2>0, <1>r DEF RemoveRomDoes
  <2> QED
    BY <2>1, <1>s
<1>15. ASSUME NEW h \in Handlers, NEW p \in GameRequests, NEW m \in Numbers, FindRequestedGame(h, p, m) PROVE Loose(r, g)
  BY <1>15, <1>s, FindRequestedGameEffect DEF FindRequestedGameDoes
<1>16. ASSUME NEW h \in Handlers, FindDupe(h) PROVE Loose(r, g)
  BY <1>16, <1>s, FindDupeEffect DEF FindDupeDoes
<1>17. ASSUME NEW h \in Handlers, InsertRequest(h) PROVE Loose(r, g)
  BY <1>17, <1>s, InsertRequestEffect DEF InsertRequestDoes
<1>18. ASSUME NEW p \in GameRequests, UpdateRequest(p) PROVE Loose(r, g)
  BY <1>18, <1>s, UpdateRequestEffect DEF UpdateRequestDoes
<1>19. ASSUME NEW p \in GameRequests, RemoveRequest(p) PROVE Loose(r, g)
  BY <1>19, <1>s, RemoveRequestEffect DEF RemoveRequestDoes
<1>20. ASSUME NEW h \in Handlers, NEW d \in Entries, FindGame(h, d) PROVE Loose(r, g)
  BY <1>20, <1>s, FindGameEffect DEF FindGameDoes
<1>21. ASSUME NEW h \in Handlers, SaveEntry(h) PROVE Loose(r, g)
  BY <1>21, <1>s, SaveEntryEffect DEF SaveEntryDoes
<1>22. ASSUME NEW d \in Entries, RemoveEntry(d) PROVE Loose(r, g)
  BY <1>22, <1>s, RemoveEntryEffect DEF RemoveEntryDoes
<1>23. ASSUME NEW h \in Handlers, Fail(h) PROVE Loose(r, g)
  BY <1>23, <1>s, FailEffect DEF FailDoes
<1> QED
  BY <1>1, <1>2, <1>3, <1>4, <1>5, <1>6, <1>7, <1>8, <1>9, <1>10, <1>11, <1>12, <1>13, <1>14, <1>15, <1>16, <1>17, <1>18, <1>19, <1>20, <1>21, <1>22, <1>23 DEF CatalogueStep

\* The jobs of the others are what they were.
LEMMA OthersAlike ==
  ASSUME NEW h \in Handlers, Others(h) \/ (\E g, n : Marked(h, g, n)), NEW k \in Handlers, k # h
  PROVE  Alike(job'[k], job[k])
  BY DEF Others, Marked, Alike

\* Every step keeps what is known of the ROMs.
LEMMA RomsStep == Shape /\ NumbersKnown /\ RomsKnown /\ Shape' /\ CatalogueStep => RomsKnown'
<1> SUFFICES ASSUME Shape, NumbersKnown, RomsKnown, Shape', CatalogueStep,
                    NEW r \in Roms, NEW g \in Games, Loose(r, g)'
             PROVE  /\ ~game'[g].linked
                    /\ \A k \in Handlers : job'[k].at \in {"link roms", "close request"} /\ job'[k].id = g
                                             => r \in job'[k].roms
  BY DEF RomsKnown
<1> DEFINE Left == /\ ~game'[g].linked
                   /\ \A k \in Handlers : job'[k].at \in {"link roms", "close request"} /\ job'[k].id = g
                                            => r \in job'[k].roms
<1>t. CatalogueTypes /\ CatalogueTypes' /\ SoundJobs /\ SoundJobs' /\ Rows
  BY DEF Shape
<1>g. game'[g].at = "saved"
  BY DEF Loose, Lasting, Saved
<1>b. ASSUME game[g].at # "unsaved"
      PROVE  /\ Loose(r, g) /\ ~game[g].linked
             /\ \A k \in Handlers : job[k].at \in {"link roms", "close request"} /\ job[k].id = g => r \in job[k].roms
  BY <1>b, LooseBefore DEF RomsKnown
<1>u. ASSUME game[g].at # "unsaved", game'[g].linked <=> game[g].linked,
             NEW h \in Handlers, \A k \in Handlers : k # h => Alike(job'[k], job[k]),
             job'[h].at \in {"link roms", "close request"} /\ job'[h].id = g => r \in job'[h].roms
      PROVE  Left
  BY <1>b, <1>u DEF Alike
<1>v. ASSUME game[g].at # "unsaved", game'[g].linked <=> game[g].linked, job' = job
      PROVE  Left
  BY <1>b, <1>v
<1>1. ASSUME NEW h \in Handlers, NEW x \in Games, NEW m \in Numbers \cup {None},
             NEW p \in Saved(wanted) \cup {None}, CreateGame(h, x, m, p) PROVE Left
  <2>0. CreateGameDoes(h, x, m, p)
    BY <1>1, CreateGameEffect
  <2> QED
    BY <2>0, <1>g, <1>u, OthersAlike DEF CreateGameDoes
<1>2. ASSUME NEW h \in Handlers, ValidateGame(h) PROVE Left
  BY <1>2, <1>g, <1>u, ValidateGameEffect, OthersAlike DEF ValidateGameDoes
<1>3. ASSUME NEW h \in Handlers, InsertGame(h) PROVE Left
  <2>0. InsertGameDoes(h)
    BY <1>3, InsertGameEffect
  <2>1. CASE g = job[h].id
    <3>1. ~game'[g].linked /\ job'[h].at = "find roms" /\ game[g].at = "unsaved"
      BY <2>0, <2>1, <1>t DEF InsertGameDoes, SoundJobs, SoundJob, Checking
    <3>2. ASSUME NEW k \in Handlers, job'[k].at \in {"link roms", "close request"}
          PROVE  job'[k].id # g
      <4>1. Alike(job'[k], job[k]) /\ SoundJob(job[k])
        BY <2>0, <3>1, <3>2, <1>t, OthersAlike DEF InsertGameDoes, SoundJobs
      <4> QED
        BY <3>1, <3>2, <4>1 DEF Alike, SoundJob, Linking
    <3> QED
      BY <3>1, <3>2
  <2>2. CASE g # job[h].id
    BY <2>0, <2>2, <1>g, <1>u, OthersAlike DEF InsertGameDoes
  <2> QED
    BY <2>1, <2>2
<1>4. ASSUME NEW h \in Handlers, FindRoms(h) PROVE Left
  <2>0. FindRomsDoes(h)
    BY <1>4, FindRomsEffect
  <2>1. game[g].at # "unsaved"
    BY <2>0, <1>g DEF FindRomsDoes
  <2>2. ASSUME job[h].id = g PROVE r \in WithNumber(rom, job[h].num)
    <3>1. game[g].num = job[h].num
      BY <2>0, <2>1, <2>2, <1>b DEF FindRomsDoes, Loose, Lasting, NumbersKnown, Same, NumberJob, Linking
    <3> QED
      BY <2>1, <3>1, <1>b DEF Loose
  <2> QED
    BY <2>0, <2>1, <2>2, <1>u, OthersAlike DEF FindRomsDoes
<1>5. ASSUME NEW h \in Handlers, NEW s \in Roms, LinkRom(h, s) PROVE Left
  <2>0. LinkRomDoes(h, s)
    BY <1>5, LinkRomEffect
  <2>1. game[g].at # "unsaved"
    BY <2>0, <1>g DEF LinkRomDoes
  <2>2. ASSUME job'[h].at = "link roms", job'[h].id = g PROVE r \in job'[h].roms
    <3>1. /\ job[h].at = "link roms" /\ job[h].id = g /\ rom'[s].game = g
          /\ job'[h].roms = job[h].roms \ {s}
      BY <2>0, <2>2 DEF LinkRomDoes
    <3>2. r # s
      BY <3>1 DEF Loose
    <3> QED
      BY <2>1, <3>1, <3>2, <1>b
  <2>3. job'[h].at # "close request"
    BY <2>0 DEF LinkRomDoes
  <2> QED
    BY <2>0, <2>1, <2>2, <2>3, <1>u, OthersAlike DEF LinkRomDoes
<1>6. ASSUME NEW h \in Handlers, FindRequest(h) PROVE Left
  <2>0. FindRequestDoes(h)
    BY <1>6, FindRequestEffect
  <2>1. game[g].at # "unsaved"
    BY <2>0, <1>g DEF FindRequestDoes
  <2>2. job[h].id # g
    <3>1. job[h].at \in {"link roms", "close request"} /\ job[h].roms = {}
      BY <2>0, <1>t DEF FindRequestDoes, SoundJobs, SoundJob
    <3> QED
      BY <2>1, <3>1, <1>b
  <2>3. game'[g].linked <=> game[g].linked
    BY <2>0, <2>2, <1>b DEF FindRequestDoes
  <2>4. job'[h].at \in {"link roms", "close request"} => job'[h].id # g
    BY <2>0, <2>2, <1>b DEF FindRequestDoes
  <2> QED
    BY <2>0, <2>1, <2>3, <2>4, <1>u, OthersAlike DEF FindRequestDoes
<1>7. ASSUME NEW h \in Handlers, CloseRequest(h) PROVE Left
  <2>0. CloseRequestDoes(h)
    BY <1>7, CloseRequestEffect
  <2>1. game[g].at # "unsaved"
    BY <2>0, <1>g DEF CloseRequestDoes
  <2>2. job[h].id # g
    <3>1. job[h].at \in {"link roms", "close request"} /\ job[h].roms = {}
      BY <2>0, <1>t DEF CloseRequestDoes, SoundJobs, SoundJob
    <3> QED
      BY <2>1, <3>1, <1>b
  <2>3. game'[g].linked <=> game[g].linked
    BY <2>0, <2>2, <1>b DEF CloseRequestDoes
  <2>4. job'[h].at \in {"link roms", "close request"} => job'[h].id # g
    BY <2>0, <2>2, <1>b DEF CloseRequestDoes
  <2> QED
    BY <2>0, <2>1, <2>3, <2>4, <1>u, OthersAlike DEF CloseRequestDoes
<1>8. ASSUME NEW x \in Games, NEW m \in Numbers \cup {None}, UpdateGame(x, m) PROVE Left
  BY <1>8, <1>g, <1>v, UpdateGameEffect DEF UpdateGameDoes
<1>9. ASSUME NEW h \in Handlers, NEW x \in Games, CountReleases(h, x) PROVE Left
  BY <1>9, <1>g, <1>u, CountReleasesEffect, OthersAlike DEF CountReleasesDoes
<1>10. ASSUME NEW h \in Handlers, CountBackglasses(h) PROVE Left
  BY <1>10, <1>g, <1>u, CountBackglassesEffect, OthersAlike DEF CountBackglassesDoes
<1>11. ASSUME NEW h \in Handlers, RemoveGame(h) PROVE Left
  BY <1>11, <1>g, <1>u, RemoveGameEffect, OthersAlike DEF RemoveGameDoes
<1>12. ASSUME NEW h \in Handlers, NEW s \in Roms, NEW m \in Numbers, FindGameOfRom(h, s, m) PROVE Left
  BY <1>12, <1>g, <1>u, FindGameOfRomEffect, OthersAlike DEF FindGameOfRomDoes
<1>13. ASSUME NEW h \in Handlers, InsertRom(h) PROVE Left
  BY <1>13, <1>g, <1>u, InsertRomEffect, OthersAlike DEF InsertRomDoes
<1>14. ASSUME NEW s \in Roms, RemoveRom(s) PROVE Left
  BY <1>14, <1>g, <1>v, RemoveRomEffect DEF RemoveRomDoes
<1>15. ASSUME NEW h \in Handlers, NEW p \in GameRequests, NEW m \in Numbers, FindRequestedGame(h, p, m) PROVE Left
  BY <1>15, <1>g, <1>u, FindRequestedGameEffect, OthersAlike DEF FindRequestedGameDoes
<1>16. ASSUME NEW h \in Handlers, FindDupe(h) PROVE Left
  BY <1>16, <1>g, <1>u, FindDupeEffect, OthersAlike DEF FindDupeDoes
<1>17. ASSUME NEW h \in Handlers, InsertRequest(h) PROVE Left
  BY <1>17, <1>g, <1>u, InsertRequestEffect, OthersAlike DEF InsertRequestDoes
<1>18. ASSUME NEW p \in GameRequests, UpdateRequest(p) PROVE Left
  BY <1>18, <1>g, <1>v, UpdateRequestEffect DEF UpdateRequestDoes
<1>19. ASSUME NEW p \in GameRequests, RemoveRequest(p) PROVE Left
  BY <1>19, <1>g, <1>v, RemoveRequestEffect DEF RemoveRequestDoes
<1>20. ASSUME NEW h \in Handlers, NEW d \in Entries, FindGame(h, d) PROVE Left
  BY <1>20, <1>g, <1>u, FindGameEffect, OthersAlike DEF FindGameDoes
<1>21. ASSUME NEW h \in Handlers, SaveEntry(h) PROVE Left
  BY <1>21, <1>g, <1>u, SaveEntryEffect, OthersAlike DEF SaveEntryDoes
<1>22. ASSUME NEW d \in Entries, RemoveEntry(d) PROVE Left
  BY <1>22, <1>g, <1>v, RemoveEntryEffect DEF RemoveEntryDoes
<1>23. ASSUME NEW h \in Handlers, Fail(h) PROVE Left
  BY <1>23, <1>g, <1>u, FailEffect, OthersAlike DEF FailDoes
<1> QED
  BY <1>1, <1>2, <1>3, <1>4, <1>5, <1>6, <1>7, <1>8, <1>9, <1>10, <1>11, <1>12, <1>13, <1>14, <1>15, <1>16, <1>17, <1>18, <1>19, <1>20, <1>21, <1>22, <1>23 DEF CatalogueStep

-----------------------------------------------------------------------------
(* The requests *)

\* A request in the next state was there before, if none was inserted.
RequestsGoOn ==
  \A q \in GameRequests :
    wanted'[q].at = "saved" =>
      /\ wanted[q].at = "saved" /\ wanted'[q].num = wanted[q].num
      /\ wanted[q].excused => wanted'[q].excused
      /\ wanted[q].closed => wanted'[q].closed \/ wanted'[q].excused

\* A request that waits has waited before, if no request was inserted.
LEMMA RequestsGone ==
  ASSUME Shape, Shape', OneRequest, RequestsGoOn
  PROVE  /\ OneRequest'
         /\ \A q \in GameRequests, g \in Games :
              Waiting(q, g)' /\ Lasting(g) /\ game'[g].num = game[g].num => Waiting(q, g)
<1>t. CatalogueTypes /\ CatalogueTypes'
  BY DEF Shape
<1>1. OneRequest'
  BY <1>t DEF OneRequest, RequestsGoOn, Saved, CatalogueTypes
<1>2. ASSUME NEW q \in GameRequests, NEW g \in Games,
             Waiting(q, g)', Lasting(g), game'[g].num = game[g].num
      PROVE  Waiting(q, g)
  <2>1. /\ wanted'[q].at = "saved" /\ wanted'[q].num = game[g].num /\ game[g].num # None
        /\ ~wanted'[q].closed /\ ~wanted'[q].excused
    BY <1>2 DEF Waiting, WithNumber, Saved
  <2>2. /\ wanted[q].at = "saved" /\ wanted[q].num = game[g].num
        /\ ~wanted[q].closed /\ ~wanted[q].excused
    BY <2>1 DEF RequestsGoOn
  <2> QED
    BY <1>2, <1>t, <2>1, <2>2 DEF Waiting, WithNumber, Saved, CatalogueTypes
<1> QED
  BY <1>1, <1>2

\* Every step keeps two requests for a machine excused, and a request that waits has waited
\* before, but for the game that is inserted.
LEMMA OneRequestStep ==
  ASSUME Shape, Shape', NumbersKnown, OneRequest, CatalogueStep
  PROVE  /\ OneRequest'
         /\ \A q \in GameRequests, g \in Games : Waiting(q, g)' /\ game[g].at # "unsaved" => Waiting(q, g)
<1> DEFINE Kept == /\ OneRequest'
                   /\ \A q \in GameRequests, g \in Games :
                        Waiting(q, g)' /\ game[g].at # "unsaved" => Waiting(q, g)
<1>t. CatalogueTypes /\ CatalogueTypes'
  BY DEF Shape
<1>g. ASSUME NEW q \in GameRequests, NEW g \in Games, Waiting(q, g)', game[g].at # "unsaved"
      PROVE  Lasting(g) /\ game'[g].num = game[g].num
  BY <1>g, LastingBefore DEF Waiting
<1>s. ASSUME RequestsGoOn PROVE Kept
  BY <1>s, <1>g, RequestsGone
<1>1. ASSUME NEW h \in Handlers, NEW x \in Games, NEW m \in Numbers \cup {None},
             NEW p \in Saved(wanted) \cup {None}, CreateGame(h, x, m, p) PROVE Kept
  BY <1>1, <1>s, CreateGameEffect DEF CreateGameDoes, RequestsGoOn
<1>2. ASSUME NEW h \in Handlers, ValidateGame(h) PROVE Kept
  BY <1>2, <1>s, ValidateGameEffect DEF ValidateGameDoes, RequestsGoOn
<1>3. ASSUME NEW h \in Handlers, InsertGame(h) PROVE Kept
  BY <1>3, <1>s, InsertGameEffect DEF InsertGameDoes, RequestsGoOn
<1>4. ASSUME NEW h \in Handlers, FindRoms(h) PROVE Kept
  BY <1>4, <1>s, FindRomsEffect DEF FindRomsDoes, RequestsGoOn
<1>5. ASSUME NEW h \in Handlers, NEW s \in Roms, LinkRom(h, s) PROVE Kept
  BY <1>5, <1>s, LinkRomEffect DEF LinkRomDoes, RequestsGoOn
<1>6. ASSUME NEW h \in Handlers, FindRequest(h) PROVE Kept
  <2>0. FindRequestDoes(h)
    BY <1>6, FindRequestEffect
  <2>1. RequestsGoOn
    BY <2>0 DEF FindRequestDoes, RequestsGoOn
  <2> QED
    BY <2>1, <1>s
<1>7. ASSUME NEW h \in Handlers, CloseRequest(h) PROVE Kept
  BY <1>7, <1>s, CloseRequestEffect DEF CloseRequestDoes, RequestsGoOn
<1>8. ASSUME NEW x \in Games, NEW m \in Numbers \cup {None}, UpdateGame(x, m) PROVE Kept
  BY <1>8, <1>s, UpdateGameEffect DEF UpdateGameDoes, RequestsGoOn
<1>9. ASSUME NEW h \in Handlers, NEW x \in Games, CountReleases(h, x) PROVE Kept
  BY <1>9, <1>s, CountReleasesEffect DEF CountReleasesDoes, RequestsGoOn
<1>10. ASSUME NEW h \in Handlers, CountBackglasses(h) PROVE Kept
  BY <1>10, <1>s, CountBackglassesEffect DEF CountBackglassesDoes, RequestsGoOn
<1>11. ASSUME NEW h \in Handlers, RemoveGame(h) PROVE Kept
  BY <1>11, <1>s, RemoveGameEffect DEF RemoveGameDoes, RequestsGoOn
<1>12. ASSUME NEW h \in Handlers, NEW s \in Roms, NEW m \in Numbers, FindGameOfRom(h, s, m) PROVE Kept
  BY <1>12, <1>s, FindGameOfRomEffect DEF FindGameOfRomDoes, RequestsGoOn
<1>13. ASSUME NEW h \in Handlers, InsertRom(h) PROVE Kept
  BY <1>13, <1>s, InsertRomEffect DEF InsertRomDoes, RequestsGoOn
<1>14. ASSUME NEW s \in Roms, RemoveRom(s) PROVE Kept
  BY <1>14, <1>s, RemoveRomEffect DEF RemoveRomDoes, RequestsGoOn
<1>15. ASSUME NEW h \in Handlers, NEW p \in GameRequests, NEW m \in Numbers, FindRequestedGame(h, p, m) PROVE Kept
  BY <1>15, <1>s, FindRequestedGameEffect DEF FindRequestedGameDoes, RequestsGoOn
<1>16. ASSUME NEW h \in Handlers, FindDupe(h) PROVE Kept
  BY <1>16, <1>s, FindDupeEffect DEF FindDupeDoes, RequestsGoOn
<1>17. ASSUME NEW h \in Handlers, InsertRequest(h) PROVE Kept
  <2>0. InsertRequestDoes(h)
    BY <1>17, InsertRequestEffect
  <2> DEFINE n == job[h].num
             dupes == WithNumber(wanted, n)
  <2>1. /\ job[h].at = "insert request" /\ job[h].id \in GameRequests /\ n # None
        /\ wanted'[job[h].id].num = n /\ (wanted'[job[h].id].excused <=> job[h].over \/ dupes # {})
        /\ \A q \in GameRequests : q # job[h].id =>
             /\ wanted'[q].at = wanted[q].at /\ wanted'[q].num = wanted[q].num
             /\ (wanted'[q].closed <=> wanted[q].closed)
             /\ wanted'[q].excused <=> wanted[q].excused \/ q \in dupes
        /\ game' = game
    BY <2>0 DEF InsertRequestDoes
  <2>2. ASSUME NEW p \in GameRequests, NEW q \in GameRequests, p # q, wanted'[p].at = "saved",
               wanted'[q].at = "saved", wanted'[p].num = wanted'[q].num, q # job[h].id
        PROVE  wanted'[p].excused /\ wanted'[q].excused
    <3>1. CASE p = job[h].id
      <4>1. q \in dupes
        BY <2>1, <2>2, <3>1, <1>t DEF WithNumber, Saved, CatalogueTypes
      <4> QED
        BY <2>1, <2>2, <3>1, <4>1
    <3>2. CASE p # job[h].id
      <4>1. /\ p \in Saved(wanted) /\ q \in Saved(wanted) /\ wanted[p].num = wanted[q].num
        BY <2>1, <2>2, <3>2, <1>t DEF Saved, CatalogueTypes
      <4>2. wanted[p].excused /\ wanted[q].excused
        BY <2>2, <4>1 DEF OneRequest
      <4> QED
        BY <2>1, <2>2, <3>2, <4>2
    <3> QED
      BY <3>1, <3>2
  <2>3. OneRequest'
    BY <2>2, <1>t DEF OneRequest, Saved, CatalogueTypes
  <2>4. ASSUME NEW q \in GameRequests, NEW g \in Games, Waiting(q, g)', game[g].at # "unsaved"
        PROVE  Waiting(q, g)
    <3>1. /\ Lasting(g) /\ game[g].num # None /\ wanted'[q].at = "saved" /\ wanted'[q].num = game[g].num
          /\ ~wanted'[q].closed /\ ~wanted'[q].excused
      BY <2>1, <2>4, <1>g DEF Waiting, WithNumber, Saved
    <3>2. q # job[h].id
      <4> SUFFICES ASSUME q = job[h].id PROVE FALSE
        OBVIOUS
      <4>1. ~job[h].over /\ n = game[g].num
        BY <2>1, <3>1
      <4>2. NumberJob(job[h])
        BY <3>1 DEF NumbersKnown, Same, Lasting
      <4>3. g \in WithNumber(game, n)
        BY <3>1, <4>1 DEF WithNumber, Lasting
      <4> QED
        BY <2>1, <4>1, <4>2, <4>3 DEF NumberJob, Asking
    <3> QED
      BY <2>1, <3>1, <3>2, <1>t DEF Waiting, WithNumber, Saved, CatalogueTypes
  <2> QED
    BY <2>3, <2>4
<1>18. ASSUME NEW p \in GameRequests, UpdateRequest(p) PROVE Kept
  BY <1>18, <1>s, UpdateRequestEffect DEF UpdateRequestDoes, RequestsGoOn
<1>19. ASSUME NEW p \in GameRequests, RemoveRequest(p) PROVE Kept
  BY <1>19, <1>s, RemoveRequestEffect DEF RemoveRequestDoes, RequestsGoOn
<1>20. ASSUME NEW h \in Handlers, NEW d \in Entries, FindGame(h, d) PROVE Kept
  BY <1>20, <1>s, FindGameEffect DEF FindGameDoes, RequestsGoOn
<1>21. ASSUME NEW h \in Handlers, SaveEntry(h) PROVE Kept
  BY <1>21, <1>s, SaveEntryEffect DEF SaveEntryDoes, RequestsGoOn
<1>22. ASSUME NEW d \in Entries, RemoveEntry(d) PROVE Kept
  BY <1>22, <1>s, RemoveEntryEffect DEF RemoveEntryDoes, RequestsGoOn
<1>23. ASSUME NEW h \in Handlers, Fail(h) PROVE Kept
  BY <1>23, <1>s, FailEffect DEF FailDoes, RequestsGoOn
<1> QED
  BY <1>1, <1>2, <1>3, <1>4, <1>5, <1>6, <1>7, <1>8, <1>9, <1>10, <1>11, <1>12, <1>13, <1>14, <1>15, <1>16, <1>17, <1>18, <1>19, <1>20, <1>21, <1>22, <1>23 DEF CatalogueStep

\* Every step keeps what is known of the requests.
LEMMA RequestsStep ==
  Shape /\ NumbersKnown /\ OneRequest /\ RequestsKnown /\ Shape' /\ CatalogueStep => RequestsKnown'
<1> SUFFICES ASSUME Shape, NumbersKnown, OneRequest, RequestsKnown, Shape', CatalogueStep,
                    NEW q \in GameRequests, NEW g \in Games, Waiting(q, g)'
             PROVE  /\ ~game'[g].linked
                    /\ \A k \in Handlers : job'[k].at = "close request" /\ job'[k].id = g
                                             => q = job'[k].asked /\ q \notin job'[k].seen
  BY DEF RequestsKnown
<1> DEFINE Left == /\ ~game'[g].linked
                   /\ \A k \in Handlers : job'[k].at = "close request" /\ job'[k].id = g
                                            => q = job'[k].asked /\ q \notin job'[k].seen
<1>t. CatalogueTypes /\ CatalogueTypes' /\ SoundJobs /\ SoundJobs' /\ Rows
  BY DEF Shape
<1>g. /\ game'[g].at = "saved" /\ wanted'[q].at = "saved"
      /\ ~wanted'[q].closed /\ ~wanted'[q].excused
  BY DEF Waiting, WithNumber, Lasting, Saved
<1>b. ASSUME game[g].at # "unsaved"
      PROVE  /\ Waiting(q, g) /\ ~game[g].linked
             /\ \A k \in Handlers : job[k].at = "close request" /\ job[k].id = g
                                      => q = job[k].asked /\ q \notin job[k].seen
  BY <1>b, OneRequestStep DEF RequestsKnown
<1>u. ASSUME game[g].at # "unsaved", game'[g].linked <=> game[g].linked,
             NEW h \in Handlers, \A k \in Handlers : k # h => Alike(job'[k], job[k]),
             job'[h].at = "close request" /\ job'[h].id = g => q = job'[h].asked /\ q \notin job'[h].seen
      PROVE  Left
  BY <1>b, <1>u DEF Alike
<1>v. ASSUME game[g].at # "unsaved", game'[g].linked <=> game[g].linked, job' = job
      PROVE  Left
  BY <1>b, <1>v
<1>1. ASSUME NEW h \in Handlers, NEW x \in Games, NEW m \in Numbers \cup {None},
             NEW p \in Saved(wanted) \cup {None}, CreateGame(h, x, m, p) PROVE Left
  <2>0. CreateGameDoes(h, x, m, p)
    BY <1>1, CreateGameEffect
  <2> QED
    BY <2>0, <1>g, <1>u, OthersAlike DEF CreateGameDoes
<1>2. ASSUME NEW h \in Handlers, ValidateGame(h) PROVE Left
  BY <1>2, <1>g, <1>u, ValidateGameEffect, OthersAlike DEF ValidateGameDoes
<1>3. ASSUME NEW h \in Handlers, InsertGame(h) PROVE Left
  <2>0. InsertGameDoes(h)
    BY <1>3, InsertGameEffect
  <2>1. CASE g = job[h].id
    <3>1. ~game'[g].linked /\ job'[h].at = "find roms" /\ game[g].at = "unsaved"
      BY <2>0, <2>1, <1>t DEF InsertGameDoes, SoundJobs, SoundJob, Checking
    <3>2. ASSUME NEW k \in Handlers, job'[k].at = "close request"
          PROVE  job'[k].id # g
      <4>1. Alike(job'[k], job[k]) /\ SoundJob(job[k])
        BY <2>0, <3>1, <3>2, <1>t, OthersAlike DEF InsertGameDoes, SoundJobs
      <4> QED
        BY <3>1, <3>2, <4>1 DEF Alike, SoundJob, Linking
    <3> QED
      BY <3>1, <3>2
  <2>2. CASE g # job[h].id
    BY <2>0, <2>2, <1>g, <1>u, OthersAlike DEF InsertGameDoes
  <2> QED
    BY <2>1, <2>2
<1>4. ASSUME NEW h \in Handlers, FindRoms(h) PROVE Left
  BY <1>4, <1>g, <1>u, FindRomsEffect, OthersAlike DEF FindRomsDoes
<1>5. ASSUME NEW h \in Handlers, NEW s \in Roms, LinkRom(h, s) PROVE Left
  BY <1>5, <1>g, <1>u, LinkRomEffect, OthersAlike DEF LinkRomDoes
<1>6. ASSUME NEW h \in Handlers, FindRequest(h) PROVE Left
  <2>0. FindRequestDoes(h)
    BY <1>6, FindRequestEffect
  <2>1. game[g].at # "unsaved"
    BY <2>0, <1>g DEF FindRequestDoes
  <2>2. ASSUME g = job[h].id
        PROVE  /\ Found(h) # {}
               /\ \A p \in Found(h) : p = q /\ ~wanted[p].closed
    <3>1. /\ Waiting(q, g) /\ Lasting(g) /\ game[g].num # None /\ q \in Saved(wanted)
          /\ wanted[q].num = game[g].num /\ ~wanted[q].closed /\ ~wanted[q].excused
      BY <2>1, <1>b DEF Waiting, WithNumber, Lasting
    <3>2. game[g].num = job[h].num
      <4>1. NumberJob(job[h])
        BY <3>1 DEF NumbersKnown, Same, Lasting
      <4> QED
        BY <2>0, <2>2, <4>1 DEF FindRequestDoes, NumberJob, Linking
    <3>3. job[h].asked \in {None, q}
      BY <2>0, <3>1, <3>2, <1>g DEF FindRequestDoes
    <3>4. CASE job[h].asked = None
      <4>1. q \in Found(h)
        BY <3>1, <3>2, <3>4 DEF Found, WithNumber
      <4>2. ASSUME NEW p \in Found(h) PROVE p = q
        BY <3>1, <3>2, <3>4, <4>2 DEF Found, WithNumber, OneRequest
      <4> QED
        BY <3>1, <4>1, <4>2
    <3>5. CASE job[h].asked # None
      BY <3>1, <3>3, <3>5 DEF Found
    <3> QED
      BY <3>4, <3>5
  <2>3. game'[g].linked <=> game[g].linked
    BY <2>0, <2>2 DEF FindRequestDoes
  <2>4. job'[h].at = "close request" /\ job'[h].id = g => q = job'[h].asked /\ q \notin job'[h].seen
    BY <2>0, <2>2 DEF FindRequestDoes
  <2>5. \A k \in Handlers : k # h => Alike(job'[k], job[k])
    BY <2>0, OthersAlike DEF FindRequestDoes
  <2> QED
    BY <2>1, <2>3, <2>4, <2>5, <1>u
<1>7. ASSUME NEW h \in Handlers, CloseRequest(h) PROVE Left
  <2>0. CloseRequestDoes(h)
    BY <1>7, CloseRequestEffect
  <2>1. game[g].at # "unsaved"
    BY <2>0, <1>g DEF CloseRequestDoes
  <2>2. game'[g].linked <=> game[g].linked
    <3>1. ASSUME g = job[h].id PROVE q = job[h].asked /\ q \notin job[h].seen /\ q \in Saved(wanted)
      BY <2>0, <2>1, <3>1, <1>b DEF CloseRequestDoes, Waiting, WithNumber
    <3> QED
      BY <2>0, <3>1, <1>g DEF CloseRequestDoes
  <2>3. job'[h].at = "idle" /\ \A k \in Handlers : k # h => Alike(job'[k], job[k])
    BY <2>0, OthersAlike DEF CloseRequestDoes
  <2> QED
    BY <2>1, <2>2, <2>3, <1>u
<1>8. ASSUME NEW x \in Games, NEW m \in Numbers \cup {None}, UpdateGame(x, m) PROVE Left
  BY <1>8, <1>g, <1>v, UpdateGameEffect DEF UpdateGameDoes
<1>9. ASSUME NEW h \in Handlers, NEW x \in Games, CountReleases(h, x) PROVE Left
  BY <1>9, <1>g, <1>u, CountReleasesEffect, OthersAlike DEF CountReleasesDoes
<1>10. ASSUME NEW h \in Handlers, CountBackglasses(h) PROVE Left
  BY <1>10, <1>g, <1>u, CountBackglassesEffect, OthersAlike DEF CountBackglassesDoes
<1>11. ASSUME NEW h \in Handlers, RemoveGame(h) PROVE Left
  BY <1>11, <1>g, <1>u, RemoveGameEffect, OthersAlike DEF RemoveGameDoes
<1>12. ASSUME NEW h \in Handlers, NEW s \in Roms, NEW m \in Numbers, FindGameOfRom(h, s, m) PROVE Left
  BY <1>12, <1>g, <1>u, FindGameOfRomEffect, OthersAlike DEF FindGameOfRomDoes
<1>13. ASSUME NEW h \in Handlers, InsertRom(h) PROVE Left
  BY <1>13, <1>g, <1>u, InsertRomEffect, OthersAlike DEF InsertRomDoes
<1>14. ASSUME NEW s \in Roms, RemoveRom(s) PROVE Left
  BY <1>14, <1>g, <1>v, RemoveRomEffect DEF RemoveRomDoes
<1>15. ASSUME NEW h \in Handlers, NEW p \in GameRequests, NEW m \in Numbers, FindRequestedGame(h, p, m) PROVE Left
  BY <1>15, <1>g, <1>u, FindRequestedGameEffect, OthersAlike DEF FindRequestedGameDoes
<1>16. ASSUME NEW h \in Handlers, FindDupe(h) PROVE Left
  BY <1>16, <1>g, <1>u, FindDupeEffect, OthersAlike DEF FindDupeDoes
<1>17. ASSUME NEW h \in Handlers, InsertRequest(h) PROVE Left
  BY <1>17, <1>g, <1>u, InsertRequestEffect, OthersAlike DEF InsertRequestDoes
<1>18. ASSUME NEW p \in GameRequests, UpdateRequest(p) PROVE Left
  BY <1>18, <1>g, <1>v, UpdateRequestEffect DEF UpdateRequestDoes
<1>19. ASSUME NEW p \in GameRequests, RemoveRequest(p) PROVE Left
  BY <1>19, <1>g, <1>v, RemoveRequestEffect DEF RemoveRequestDoes
<1>20. ASSUME NEW h \in Handlers, NEW d \in Entries, FindGame(h, d) PROVE Left
  BY <1>20, <1>g, <1>u, FindGameEffect, OthersAlike DEF FindGameDoes
<1>21. ASSUME NEW h \in Handlers, SaveEntry(h) PROVE Left
  BY <1>21, <1>g, <1>u, SaveEntryEffect, OthersAlike DEF SaveEntryDoes
<1>22. ASSUME NEW d \in Entries, RemoveEntry(d) PROVE Left
  BY <1>22, <1>g, <1>v, RemoveEntryEffect DEF RemoveEntryDoes
<1>23. ASSUME NEW h \in Handlers, Fail(h) PROVE Left
  BY <1>23, <1>g, <1>u, FailEffect, OthersAlike DEF FailDoes
<1> QED
  BY <1>1, <1>2, <1>3, <1>4, <1>5, <1>6, <1>7, <1>8, <1>9, <1>10, <1>11, <1>12, <1>13, <1>14, <1>15, <1>16, <1>17, <1>18, <1>19, <1>20, <1>21, <1>22, <1>23 DEF CatalogueStep

-----------------------------------------------------------------------------
(* The releases and backglasses *)

\* Every step keeps the games that releases and backglasses show.
LEMMA DanglingStep == Shape /\ Shape' /\ NoDanglingGame /\ CatalogueStep => NoDanglingGame'
<1> SUFFICES ASSUME Shape, Shape', NoDanglingGame, CatalogueStep,
                    NEW e \in Entries, entry'[e].at = "saved"
             PROVE  \/ entry'[e].game \in Games /\ game'[entry'[e].game].at = "saved"
                    \/ entry'[e].excused
  BY DEF NoDanglingGame, Saved, Shape, CatalogueTypes
<1> DEFINE Shown == \/ entry'[e].game \in Games /\ game'[entry'[e].game].at = "saved"
                    \/ entry'[e].excused
<1>t. CatalogueTypes /\ CatalogueTypes' /\ SoundJobs
  BY DEF Shape
<1>b. ASSUME entry[e].at = "saved"
      PROVE  \/ entry[e].game \in Games /\ game[entry[e].game].at = "saved"
             \/ entry[e].excused
  BY <1>b, <1>t DEF NoDanglingGame, Saved, CatalogueTypes
<1>s. ASSUME entry'[e] = entry[e], \A g \in Games : game[g].at = "saved" => game'[g].at = "saved"
      PROVE  Shown
  BY <1>s, <1>b
<1>1. ASSUME NEW h \in Handlers, NEW x \in Games, NEW m \in Numbers \cup {None},
             NEW p \in Saved(wanted) \cup {None}, CreateGame(h, x, m, p) PROVE Shown
  BY <1>1, <1>s, CreateGameEffect DEF CreateGameDoes
<1>2. ASSUME NEW h \in Handlers, ValidateGame(h) PROVE Shown
  BY <1>2, <1>s, ValidateGameEffect DEF ValidateGameDoes
<1>3. ASSUME NEW h \in Handlers, InsertGame(h) PROVE Shown
  BY <1>3, <1>s, InsertGameEffect DEF InsertGameDoes
<1>4. ASSUME NEW h \in Handlers, FindRoms(h) PROVE Shown
  BY <1>4, <1>s, FindRomsEffect DEF FindRomsDoes
<1>5. ASSUME NEW h \in Handlers, NEW s \in Roms, LinkRom(h, s) PROVE Shown
  BY <1>5, <1>s, LinkRomEffect DEF LinkRomDoes
<1>6. ASSUME NEW h \in Handlers, FindRequest(h) PROVE Shown
  BY <1>6, <1>s, FindRequestEffect DEF FindRequestDoes
<1>7. ASSUME NEW h \in Handlers, CloseRequest(h) PROVE Shown
  BY <1>7, <1>s, CloseRequestEffect DEF CloseRequestDoes
<1>8. ASSUME NEW x \in Games, NEW m \in Numbers \cup {None}, UpdateGame(x, m) PROVE Shown
  BY <1>8, <1>s, UpdateGameEffect DEF UpdateGameDoes
<1>9. ASSUME NEW h \in Handlers, NEW x \in Games, CountReleases(h, x) PROVE Shown
  BY <1>9, <1>s, CountReleasesEffect DEF CountReleasesDoes
<1>10. ASSUME NEW h \in Handlers, CountBackglasses(h) PROVE Shown
  BY <1>10, <1>s, CountBackglassesEffect DEF CountBackglassesDoes
<1>11. ASSUME NEW h \in Handlers, RemoveGame(h) PROVE Shown
  <2>0. RemoveGameDoes(h)
    BY <1>11, RemoveGameEffect
  <2>1. job[h].seen = {}
    BY <2>0, <1>t DEF RemoveGameDoes, SoundJobs, SoundJob, Removing
  <2>2. /\ entry'[e].at = entry[e].at /\ entry'[e].game = entry[e].game
        /\ entry'[e].excused <=> entry[e].excused \/ entry[e].game = job[h].id
        /\ \A f \in Games : f # job[h].id => game'[f].at = game[f].at
    BY <2>0, <2>1 DEF RemoveGameDoes
  <2> QED
    BY <2>2, <1>b
<1>12. ASSUME NEW h \in Handlers, NEW s \in Roms, NEW m \in Numbers, FindGameOfRom(h, s, m) PROVE Shown
  BY <1>12, <1>s, FindGameOfRomEffect DEF FindGameOfRomDoes
<1>13. ASSUME NEW h \in Handlers, InsertRom(h) PROVE Shown
  BY <1>13, <1>s, InsertRomEffect DEF InsertRomDoes
<1>14. ASSUME NEW s \in Roms, RemoveRom(s) PROVE Shown
  BY <1>14, <1>s, RemoveRomEffect DEF RemoveRomDoes
<1>15. ASSUME NEW h \in Handlers, NEW p \in GameRequests, NEW m \in Numbers, FindRequestedGame(h, p, m) PROVE Shown
  BY <1>15, <1>s, FindRequestedGameEffect DEF FindRequestedGameDoes
<1>16. ASSUME NEW h \in Handlers, FindDupe(h) PROVE Shown
  BY <1>16, <1>s, FindDupeEffect DEF FindDupeDoes
<1>17. ASSUME NEW h \in Handlers, InsertRequest(h) PROVE Shown
  BY <1>17, <1>s, InsertRequestEffect DEF InsertRequestDoes
<1>18. ASSUME NEW p \in GameRequests, UpdateRequest(p) PROVE Shown
  BY <1>18, <1>s, UpdateRequestEffect DEF UpdateRequestDoes
<1>19. ASSUME NEW p \in GameRequests, RemoveRequest(p) PROVE Shown
  BY <1>19, <1>s, RemoveRequestEffect DEF RemoveRequestDoes
<1>20. ASSUME NEW h \in Handlers, NEW d \in Entries, FindGame(h, d) PROVE Shown
  BY <1>20, <1>s, FindGameEffect DEF FindGameDoes
<1>21. ASSUME NEW h \in Handlers, SaveEntry(h) PROVE Shown
  <2>0. SaveEntryDoes(h)
    BY <1>21, SaveEntryEffect
  <2>1. CASE e = job[h].id
    <3>1. /\ entry'[e].game = job[h].game /\ (entry'[e].excused <=> job[h].over) /\ game' = game
      BY <2>0, <2>1 DEF SaveEntryDoes
    <3>2. job[h].game \in Saved(game) \/ job[h].over
      BY <2>0, <1>t DEF SaveEntryDoes, SoundJobs, SoundJob
    <3> QED
      BY <3>1, <3>2, <1>t DEF Saved, CatalogueTypes
  <2>2. CASE e # job[h].id
    BY <2>0, <2>2, <1>s DEF SaveEntryDoes
  <2> QED
    BY <2>1, <2>2
<1>22. ASSUME NEW d \in Entries, RemoveEntry(d) PROVE Shown
  BY <1>22, <1>s, RemoveEntryEffect DEF RemoveEntryDoes
<1>23. ASSUME NEW h \in Handlers, Fail(h) PROVE Shown
  BY <1>23, <1>s, FailEffect DEF FailDoes
<1> QED
  BY <1>1, <1>2, <1>3, <1>4, <1>5, <1>6, <1>7, <1>8, <1>9, <1>10, <1>11, <1>12, <1>13, <1>14, <1>15, <1>16, <1>17, <1>18, <1>19, <1>20, <1>21, <1>22, <1>23 DEF CatalogueStep

-----------------------------------------------------------------------------
(* The invariant *)

\* A step of something else keeps the invariant.
LEMMA CatalogueStays ==
  ASSUME UNCHANGED catalogueVars, CatalogueInv PROVE CatalogueInv'
<1>1. game' = game /\ rom' = rom /\ wanted' = wanted /\ entry' = entry /\ job' = job
  BY DEF catalogueVars
<1>2. Shape'
  <2>1. CatalogueTypes'
    BY <1>1 DEF CatalogueInv, Shape, CatalogueTypes
  <2>2. \A h \in Handlers : SoundJob(job[h])' <=> SoundJob(job[h])
    BY <1>1 DEF SoundJob, Saved
  <2>3. OneEach' /\ Rows'
    BY <1>1 DEF CatalogueInv, Shape, OneEach, Rows
  <2> QED
    BY <2>1, <2>2, <2>3 DEF CatalogueInv, Shape, SoundJobs
<1>3. NumbersKnown'
  BY <1>1, NumbersStay DEF CatalogueInv
<1>4. \A r \in Roms, g \in Games : Loose(r, g)' <=> Loose(r, g)
  BY <1>1 DEF Loose, Lasting, WithNumber, Saved
<1>5. \A q \in GameRequests, g \in Games : Waiting(q, g)' <=> Waiting(q, g)
  BY <1>1 DEF Waiting, Lasting, WithNumber, Saved
<1>6. RomsKnown' /\ RequestsKnown'
  BY <1>1, <1>4, <1>5 DEF CatalogueInv, RomsKnown, RequestsKnown
<1>7. OneRequest' /\ NoDanglingGame'
  BY <1>1 DEF CatalogueInv, OneRequest, NoDanglingGame, Saved
<1> QED
  BY <1>2, <1>3, <1>6, <1>7 DEF CatalogueInv

\* The invariant holds of the empty catalogue.
LEMMA CatalogueBegins == CatalogueInit => CatalogueInv
<1> SUFFICES ASSUME CatalogueInit PROVE CatalogueInv
  OBVIOUS
<1>1. Idle \in Jobs /\ Idle.at = "idle"
  BY IdleJob
<1>2. /\ game \in [Games -> GameRows]
      /\ \A g \in Games : /\ game[g].at = "unsaved" /\ game[g].num = None
                          /\ ~game[g].linked /\ ~game[g].renumbered /\ ~game[g].excused
  BY DEF CatalogueInit, Game, GameRows, Stages
<1>3. job \in [Handlers -> Jobs] /\ \A h \in Handlers : job[h].at = "idle"
  BY <1>1 DEF CatalogueInit
<1>4. PICK used \in {GameRequests, Roms \cup Backglasses, Releases} :
        /\ wanted = [q \in GameRequests |-> GameRequest(IF q \in used THEN "unsaved" ELSE "removed", None, FALSE)]
        /\ rom = [r \in Roms |-> Rom(IF r \in used THEN "unsaved" ELSE "removed", None, None, FALSE)]
        /\ entry = [e \in Entries |-> Entry(IF e \in used THEN "unsaved" ELSE "removed", None, FALSE)]
  BY DEF CatalogueInit
<1>5. /\ wanted \in [GameRequests -> RequestRows]
      /\ \A q \in GameRequests : wanted[q].at # "saved"
  BY <1>4 DEF GameRequest, RequestRows, Stages
<1>6. /\ rom \in [Roms -> RomRows]
      /\ \A r \in Roms : rom[r].at # "saved" /\ rom[r].num = None
  BY <1>4 DEF Rom, RomRows, Stages
<1>7. /\ entry \in [Entries -> EntryRows]
      /\ \A e \in Entries : entry[e].at # "saved"
  BY <1>4 DEF Entry, EntryRows, Stages
<1>8. Saved(game) = {} /\ Saved(wanted) = {} /\ Saved(rom) = {} /\ Saved(entry) = {}
  BY <1>2, <1>5, <1>6, <1>7 DEF Saved
<1>9. CatalogueTypes
  BY <1>2, <1>3, <1>5, <1>6, <1>7 DEF CatalogueTypes
<1>10. SoundJobs /\ OneEach /\ Rows
  <2>1. SoundJobs
    BY <1>3 DEF SoundJobs, SoundJob, Checking, Linking, Removing, Asking
  <2>2. OneEach
    BY <1>3 DEF OneEach, Apart, Saves, Checking, Linking, Asking
  <2> QED
    BY <2>1, <2>2, <1>2, <1>5, <1>6 DEF Rows
<1>11. NumbersKnown
  BY <1>3, <1>8 DEF NumbersKnown, NumberJob, OneInTime, Linking, Asking
<1>12. RomsKnown /\ OneRequest /\ RequestsKnown /\ NoDanglingGame
  BY <1>8 DEF RomsKnown, Loose, Lasting, OneRequest, RequestsKnown, Waiting, NoDanglingGame
<1> QED
  BY <1>9, <1>10, <1>11, <1>12 DEF CatalogueInv, Shape

\* A game that is done has no loose ROM and no waiting request.
LEMMA GamesAreFound == CatalogueInv => GamesFound
<1> SUFFICES ASSUME CatalogueInv PROVE RomsLinked /\ RequestsClosed
  BY DEF GamesFound
<1>t. CatalogueTypes /\ Rows
  BY DEF CatalogueInv, Shape
<1>1. RomsLinked
  <2> SUFFICES ASSUME NEW r \in Saved(rom), NEW g \in Games,
                      Proper(g), rom[r].num = game[g].num, rom[r].num # None
               PROVE  rom[r].game = g \/ rom[r].excused
    BY DEF RomsLinked
  <2>1. ~Loose(r, g) /\ r \in Roms
    BY <1>t DEF Proper, CatalogueInv, RomsKnown, Saved, CatalogueTypes
  <2> QED
    BY <2>1 DEF Loose, Lasting, Proper, WithNumber
<1>2. RequestsClosed
  <2> SUFFICES ASSUME NEW q \in Listing("open"), NEW g \in Games, Proper(g), wanted[q].num = game[g].num
               PROVE  wanted[q].excused
    BY DEF RequestsClosed
  <2>1. q \in Saved(wanted) /\ q \in GameRequests /\ wanted[q].num # None /\ ~wanted[q].closed
    BY <1>t DEF Listing, Saved, CatalogueTypes, Rows
  <2>2. ~Waiting(q, g)
    BY <2>1 DEF Proper, CatalogueInv, RequestsKnown
  <2> QED
    BY <2>1, <2>2 DEF Waiting, Lasting, Proper, WithNumber
<1> QED
  BY <1>1, <1>2

\* The invariant of the catalogue is inductive.
LEMMA CatalogueInvStep == CatalogueInv /\ [CatalogueStep]_catalogueVars => CatalogueInv'
<1> SUFFICES ASSUME CatalogueInv, [CatalogueStep]_catalogueVars PROVE CatalogueInv'
  OBVIOUS
<1>1. CASE CatalogueStep
  <2>1. Shape /\ NumbersKnown /\ RomsKnown /\ OneRequest /\ RequestsKnown /\ NoDanglingGame
    BY DEF CatalogueInv
  <2>2. Shape'
    BY <1>1, <2>1, ShapeStep
  <2>3. NumbersKnown' /\ RomsKnown'
    BY <1>1, <2>1, <2>2, NumbersStep, RomsStep
  <2>4. OneRequest' /\ RequestsKnown'
    BY <1>1, <2>1, <2>2, OneRequestStep, RequestsStep
  <2>5. NoDanglingGame'
    BY <1>1, <2>1, <2>2, DanglingStep
  <2> QED
    BY <2>2, <2>3, <2>4, <2>5 DEF CatalogueInv
<1>2. CASE UNCHANGED catalogueVars
  BY <1>2, CatalogueStays
<1> QED
  BY <1>1, <1>2

\* The invariant of the catalogue holds.
LEMMA CatalogueInvHolds == CatalogueSpec => []CatalogueInv
<1> QED
  BY CatalogueBegins, CatalogueInvStep, PTL DEF CatalogueSpec

\* The ROMs and the requests for a machine find its game, whichever of them comes first
\* (game.api.ts:101-131, rom.api.ts:76), with any number of games, documents and handlers.
THEOREM NobodyMissesTheGame == CatalogueSpec => []GamesFound
<1> QED
  BY CatalogueInvHolds, GamesAreFound, PTL

\* A release or a backglass never shows a game that was removed (game.api.ts:260-267), but
\* one that was saved in between.
THEOREM GamesStayForEntries == CatalogueSpec => []NoDanglingGame
<1>1. CatalogueInv => NoDanglingGame
  BY DEF CatalogueInv
<1> QED
  BY <1>1, CatalogueInvHolds, PTL

=============================================================================
