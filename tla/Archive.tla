------------------------------ MODULE Archive ------------------------------
(***************************************************************************)
(* Downloads of what belongs to a release (release.storage.ts): an archive *)
(* with the tables a user asks for, what belongs to their versions, and    *)
(* media of the game - or one file as it is (FileStorage.get).  Both count *)
(* the download at the release, its versions, their files and the game;    *)
(* the score of popularity is computed from counters read before           *)
(* (metrics.plugin.ts).  The users may see the release; whether they have  *)
(* the credits for a download is left to Quota.                            *)
(***************************************************************************)
EXTENDS FileKinds, FiniteSetsExt, Sequences

CONSTANTS
  Fetches,   \* the requests
  Shelf,     \* per version of the release: its files
  Image,     \* per table file: its playfield image
  Extras,    \* media, ROMs and backglasses of the game
  KindOf,    \* per file: its type, its category, the name it gets in an archive
  Entries,   \* per file that is an archive itself: what is in it
  Rars,      \* those that are no zips
  Bodies,    \* bound: what the users ask for
  MayFail    \* bound: the increments that may fail

VARIABLES
  fetch,     \* the requests
  counted,   \* counter.downloads of every document, by Counters
  score,     \* metrics.popularity of the game and the release, as its argument
  lost,      \* history: the counters of which an increment failed
  raced      \* history: the documents whose last score came from an old counter

archiveVars == <<fetch, counted, score, lost, raced>>

ShelfFiles == UNION {Shelf[v] : v \in DOMAIN Shelf}

Tables == {x \in ShelfFiles : KindOf[x].category = "table"}

\* An entry is in directories, or in none, and music or not.
ASSUME ArchiveAssumption ==
  /\ \A x \in DOMAIN KindOf : Accepted(KindOf[x].type, KindOf[x].category)
  /\ \A x \in DOMAIN Entries : KindOf[x].category = "archive"
  /\ Rars \subseteq DOMAIN Entries
  /\ \A x \in DOMAIN Entries : \A entry \in Entries[x] : entry.dirs \in Seq(STRING)
  /\ DOMAIN Image = Tables
  /\ \A x \in Extras \cup {Image[t] : t \in Tables} : KindOf[x].category # "table"
  /\ IsFiniteSet(Fetches) /\ IsFiniteSet(ShelfFiles)

ArchivedFiles == ShelfFiles \cup Extras \cup {Image[t] : t \in Tables}

Scored == {<<"game", "">>, <<"release", "">>}

Counters ==
  Scored \cup {<<"user", "">>} \cup ({"version"} \X DOMAIN Shelf) \cup ({"entry"} \X Tables)
  \cup ({"file"} \X (ShelfFiles \cup Extras))

NoFetch ==
  [at |-> "idle", dry |-> FALSE, ids |-> {}, files |-> {}, left |-> {}, seen |-> [d \in Scored |-> 0],
   names |-> << >>]

ArchiveInit ==
  /\ fetch = [f \in Fetches |-> NoFetch]
  /\ counted = [c \in Counters |-> 0]
  /\ score = [d \in Scored |-> 0]
  /\ lost = {} /\ raced = {}

Snapshot == [d \in Scored |-> counted[d]]

-----------------------------------------------------------------------------
\* collectFiles: the versions with a file that was asked for, and of these the tables
\* asked for and everything that is no table.
Touched(ids) == {v \in DOMAIN Shelf : Shelf[v] \cap ids # {}}
TouchedFiles(ids) == UNION {Shelf[v] : v \in Touched(ids)}

Requested(body) ==
  LET tables == body.ids \cap Tables IN
  tables
  \cup (TouchedFiles(body.ids) \ Tables)
  \cup (IF body.images THEN {Image[t] : t \in tables} ELSE {})
  \cup body.extras

\* Every file of a touched version counts, the tables left out of the archive as well.
\* A playfield image does not.
ToCount(body) ==
  Scored \cup {<<"user", "">>} \cup ({"version"} \X Touched(body.ids))
  \cup ({"entry"} \X (body.ids \cap Tables))
  \cup ({"file"} \X (TouchedFiles(body.ids) \cup body.extras))

Collect(f, body, dry) ==
  /\ fetch[f].at = "idle"
  /\ fetch' = [fetch EXCEPT ![f] =
       IF body.ids = {} \/ ~body.extras \subseteq Extras \/ Requested(body) = {}
       THEN [NoFetch EXCEPT !.at = "refused"]
       ELSE [NoFetch EXCEPT !.at = "collected", !.dry = dry, !.ids = body.ids,
                            !.files = Requested(body), !.left = ToCount(body),
                            !.seen = Snapshot]]
  /\ UNCHANGED <<counted, score, lost, raced>>

\* The quota has the last word: a dry run ends here.
Charge(f, enough) ==
  LET price == MapThenSumSet(LAMBDA x : CostOf(KindOf[x]), fetch[f].files) IN
  /\ fetch[f].at = "collected"
  /\ enough \/ price > 0
  /\ fetch' = [fetch EXCEPT ![f] =
       IF ~enough THEN [NoFetch EXCEPT !.at = "refused"]
       ELSE IF @.dry THEN [NoFetch EXCEPT !.at = "checked"]
       ELSE [@ EXCEPT !.at = "counting"]]
  /\ UNCHANGED <<counted, score, lost, raced>>

\* Mutant of Weight: a download is a download.
WeightOne(f, c) == 1

\* A download counts once for everything, but for the game once per table.
Weight(f, c) == IF c = <<"game", "">> THEN Cardinality(fetch[f].ids \cap Tables) ELSE 1

\* incrementCounter of the documents in cs, but for the failing ones.
Increment(f, cs, failing) ==
  /\ counted' = [c \in Counters |->
       counted[c] + IF c \in cs \ failing THEN Weight(f, c) ELSE 0]
  /\ score' = [d \in Scored |->
       IF d \in cs \ failing THEN fetch[f].seen[d] + Weight(f, d) ELSE score[d]]
  /\ raced' = (raced \ (cs \ failing)) \cup {d \in (cs \cap Scored) \ failing : fetch[f].seen[d] # counted[d]}
  /\ lost' = lost \cup failing

\* Promise.all: the increments land in any order, those without a score in one step here;
\* one may fail, the others land all the same.
CountDownload(f, cs, failing) ==
  /\ fetch[f].at \in {"counting", "failing"} /\ cs # {}
  /\ failing \subseteq cs /\ Cardinality(failing) <= 1
  /\ Increment(f, cs, failing)
  /\ fetch' = [fetch EXCEPT ![f].left = @ \ cs,
                            ![f].at = IF failing = {} THEN @ ELSE "failing"]

\* The first failure has answered the request long before.
GiveUp(f) ==
  /\ fetch[f].at = "failing" /\ fetch[f].left = {}
  /\ fetch' = [fetch EXCEPT ![f] = [NoFetch EXCEPT !.at = "failed"]]
  /\ UNCHANGED <<counted, score, lost, raced>>

-----------------------------------------------------------------------------
\* Mutant of FreeName: the number of the tables before.
CountedName(used, base) ==
  IF <<base, 0>> \notin used THEN <<base, 0>>
  ELSE <<base, Cardinality({name \in used : name[1] = base}) - 1>>

\* getTableFilename: the name the user's pattern makes, or with the next free number.
FreeName(used, base) ==
  IF <<base, 0>> \notin used THEN <<base, 0>>
  ELSE <<base, Min({n \in 1 .. Cardinality(used) : <<base, n>> \notin used})>>

Named(f) == DOMAIN fetch[f].names

AppendTable(f, x) ==
  LET used == {fetch[f].names[y] : y \in Named(f)} IN
  /\ fetch[f].at = "counting" /\ fetch[f].left = {}
  /\ x \in (fetch[f].files \cap Tables) \ Named(f)
  /\ fetch' = [fetch EXCEPT ![f].names =
       [y \in Named(f) \cup {x} |-> IF y = x THEN FreeName(used, KindOf[x].base) ELSE @[y]]]
  /\ UNCHANGED <<counted, score, lost, raced>>

\* The variation that goes into the archive instead of a playfield image.
ArchivedAs(x) ==
  IF KindOf[x].type \in {"playfield-fs", "playfield-ws"} /\ KindOf[x].category = "image"
    THEN "hyperpin" ELSE "original"

\* getArchivedFilename: music goes where music is, the rest to the tables, in a directory.
ArchivedFilename(entry, x) ==
  IF entry.music THEN <<"Music", entry.name>>
  ELSE <<"Tables">> \o (IF entry.dirs = <<>> THEN <<KindOf[x].base>> ELSE entry.dirs) \o <<entry.name>>

\* Where the entries of an archive go that is in the archive.
Unpacked(f) ==
  UNION {{ArchivedFilename(entry, x) : entry \in Entries[x]} : x \in Named(f) \cap DOMAIN Entries}

\* The others keep their names.  The request waits for the first entry of a rar to be
\* streamed: for good, if there is none.
Finalize(f) ==
  LET others == fetch[f].files \ Tables IN
  /\ fetch[f].at = "counting" /\ fetch[f].left = {}
  /\ \A x \in others \cap Rars : Entries[x] # {}
  /\ Named(f) = fetch[f].files \cap Tables
  /\ fetch' = [fetch EXCEPT ![f].at = "sent",
                            ![f].names = [x \in fetch[f].files |->
                                            IF x \in others THEN <<KindOf[x].base, 0>> ELSE @[x]]]
  /\ UNCHANGED <<counted, score, lost, raced>>

-----------------------------------------------------------------------------
\* FileStorage.serve of an original: the file, then the release that has it, as loaded
\* now, one increment after the other; the game is not told.
ServeFile(f, x) ==
  LET versions == {v \in DOMAIN Shelf : x \in Shelf[v] \cap Tables} IN
  /\ fetch[f].at = "idle"
  /\ \E failing \in SUBSET ({<<"file", x>>} \cap MayFail) :
       /\ Increment(f, {<<"file", x>>}, failing)
       /\ fetch' = [fetch EXCEPT ![f] =
            IF failing # {} THEN [NoFetch EXCEPT !.at = "failed"]
            ELSE [NoFetch EXCEPT !.at = "serving", !.ids = {x}, !.files = {x}, !.seen = Snapshot,
                                 !.left = ({"entry"} \X ({x} \cap Tables))
                                          \cup ({"version"} \X versions)
                                          \cup (IF versions = {} THEN {} ELSE {<<"release", "">>})]]

\* The order of the awaits: entry, version, release.
LeftOf(f, kind) == {c \in fetch[f].left : c[1] = kind}
NextCounter(f) ==
  IF LeftOf(f, "entry") # {} THEN LeftOf(f, "entry")
  ELSE IF LeftOf(f, "version") # {} THEN LeftOf(f, "version")
  ELSE {<<"release", "">>}

CountServed(f, failing) ==
  /\ fetch[f].at = "serving" /\ fetch[f].left # {}
  /\ failing \subseteq NextCounter(f)
  /\ Increment(f, NextCounter(f), failing)
  /\ fetch' = [fetch EXCEPT ![f] = IF failing # {} THEN [NoFetch EXCEPT !.at = "failed"]
                                   ELSE [@ EXCEPT !.left = fetch[f].left \ NextCounter(f)]]

\* The stream is through; what was not free counts for the user.
Served(f) ==
  LET user == IF \A x \in fetch[f].files : IsFree(KindOf[x], "original") THEN {}
              ELSE {<<"user", "">>} IN
  /\ fetch[f].at = "serving" /\ fetch[f].left = {}
  /\ Increment(f, user, {})
  /\ fetch' = [fetch EXCEPT ![f].at = "served"]

ArchiveStep ==
  \E f \in Fetches :
    \/ \E body \in Bodies, dry \in BOOLEAN : Collect(f, body, dry)
    \/ \E enough \in BOOLEAN : Charge(f, enough)
    \/ \E cs \in {{d} : d \in Scored} \cup {fetch[f].left \ Scored} :
         /\ cs \subseteq fetch[f].left
         /\ \E failing \in {{}} \cup {{c} : c \in cs \cap MayFail} : CountDownload(f, cs, failing)
    \/ GiveUp(f)
    \/ \E x \in fetch[f].files : AppendTable(f, x)
    \/ Finalize(f)
    \/ \E x \in ShelfFiles : ServeFile(f, x)
    \/ \E failing \in {{}} \cup {{c} : c \in NextCounter(f) \cap MayFail} : CountServed(f, failing)
    \/ Served(f)

ArchiveSpec == ArchiveInit /\ [][ArchiveStep]_archiveVars

-----------------------------------------------------------------------------
\* An archive that was sent has all tables that were asked for and no other, with all
\* files of their versions that are no tables; no two tables have the same name in it, and
\* nothing that is unpacked into it has the name of one; what takes the place of a picture is
\* a variation of it (release.storage.ts:114-187).
ArchiveAsAsked ==
  \A f \in Fetches : fetch[f].at = "sent" =>
    /\ Named(f) \cap Tables = fetch[f].ids \cap Tables
    /\ \A v \in DOMAIN Shelf : Shelf[v] \cap fetch[f].ids # {} => Shelf[v] \ Tables \subseteq Named(f)
    /\ \A t, u \in Named(f) \cap Tables : fetch[f].names[t] = fetch[f].names[u] => t = u
    /\ \A t \in Named(f) \cap Tables : <<"Tables", fetch[f].names[t]>> \notin Unpacked(f)
    /\ \A x \in Named(f) : ArchivedAs(x) \in {"original"} \cup DOMAIN VariationsOf(KindOf[x])

\* However downloads of archives and of single files meet: once none is under way and no
\* increment was lost, the tables of a release were downloaded as often as the game was in
\* archives and they were on their own, none of them more often than its file, and the score
\* of a document is that of its counter, unless another request had counted since it was read
\* (release.storage.ts:309-350, file.storage.ts:378-392, metrics.plugin.ts:84-109).
DownloadsAgree ==
  LET entries(t) == counted[<<"entry", t>>]
      alone == {f \in Fetches : fetch[f].at \in {"serving", "served"} /\ fetch[f].ids \subseteq Tables}
  IN lost = {} /\ (\A f \in Fetches : fetch[f].left = {}) =>
       /\ MapThenSumSet(entries, Tables) = counted[<<"game", "">>] + Cardinality(alone)
       /\ \A t \in Tables : entries(t) <= counted[<<"file", t>>]
       /\ \A d \in Scored \ raced : score[d] = counted[d]

=============================================================================
