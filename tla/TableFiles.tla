----------------------------- MODULE TableFiles -----------------------------
(***************************************************************************)
(* The table files of a release: each has a flavor and is compatible with  *)
(* builds of Visual Pinball, and has an image of its playfield             *)
(* (release.version.schema.ts, build.api.ts).                              *)
(* Handlers add and change files of the version and remove builds, with    *)
(* awaits between what they look up, what they validate and what they      *)
(* save; __v guards the array as in module Versions.  Lists show a file    *)
(* per flavor and a picture of the best of them (release.serializer.ts).   *)
(***************************************************************************)
EXTENDS Integers, Sequences, FiniteSetsExt

CONSTANTS
  TableIds,     \* the documents of table files
  Offers,       \* bound: the flavors and playfield images used
  Builds,
  Compats,      \* bound: the sets of builds used
  Editors,      \* bound: the requests at work at one time
  MaxSaves      \* bound: of the release

\* odd: neither between 16:10 and 16:9, nor square.
ASSUME TableAssumption ==
  Offers \subseteq
    [orientation : {"fs", "ws", "any"}, lighting : {"day", "night", "any"},
     picture : [type : {"playfield", "playfield-fs", "playfield-ws"},
                shape : {"portrait", "landscape", "square", "odd"}]]

VARIABLES
  table,     \* the files of the version, in their order
  tableRev,  \* __v of the release
  build,     \* the builds in the database
  desk,      \* the handlers
  rushed     \* history: the builds removed while a file was saved that had found them

tableVars == <<table, tableRev, build, desk, rushed>>

\* edited: history, an update has changed the file.
Table(file, offer, compat) ==
  [file |-> file, flavor |-> [orientation |-> offer.orientation, lighting |-> offer.lighting],
   compat |-> compat, picture |-> offer.picture, edited |-> FALSE]

\* had: the files of the document the request is compared with; doc, rev: of the one that is
\* saved, or in which the uses of a build were looked for.
NoEditor == [at |-> "idle", new |-> << >>, had |-> {}, doc |-> << >>, rev |-> 0]

Indices(doc) == 1 .. Len(doc)
FilesIn(doc) == {doc[i].file : i \in Indices(doc)}
UsersOf(doc, b) == {i \in Indices(doc) : b \in doc[i].compat}

TableInit ==
  /\ build = Builds
  /\ table = << >>
  /\ tableRev = 0
  /\ desk = [h \in Editors |-> NoEditor]
  /\ rushed = {}

Leave(h) == desk' = [desk EXCEPT ![h] = NoEditor]

-----------------------------------------------------------------------------
\* validateFile: a square image is neither too high nor too wide for the other type.
ImageFits(picture, orientation) ==
  /\ picture.shape # "odd"
  /\ picture.type # "playfield"
  /\ orientation = "fs" => picture.type = "playfield-fs"
  /\ orientation = "ws" => picture.type = "playfield-ws"
  /\ picture.type = "playfield-fs" => picture.shape # "landscape"
  /\ picture.type = "playfield-ws" => picture.shape # "portrait"

Fits(new) == ImageFits(new.picture, new.flavor.orientation)

\* ReleaseApi.create, with one file.
CreateRelease(new) ==
  /\ table = << >> /\ new.compat \subseteq build /\ Fits(new)
  /\ table' = <<new>>
  /\ UNCHANGED <<tableRev, build, desk, rushed>>

\* updateVersion: the release with its files, to tell new ones from old ones.
LoadFiles(h, new) ==
  /\ table # << >> /\ desk[h].at = "idle" /\ tableRev < MaxSaves
  /\ new.compat \subseteq build
  /\ desk' = [desk EXCEPT ![h] = [NoEditor EXCEPT !.at = "load", !.had = FilesIn(table),
                                                  !.new = <<new>>]]
  /\ UNCHANGED <<table, tableRev, build, rushed>>

\* The release again, then the ids of the builds (pretty.id.plugin.ts).
LoadDocument(h) ==
  LET new == desk[h].new[1] IN
  /\ desk[h].at = "load"
  /\ IF new.compat \subseteq build
       THEN desk' = [desk EXCEPT ![h].at = "validate", ![h].doc = table, ![h].rev = tableRev]
       ELSE Leave(h)
  /\ UNCHANGED <<table, tableRev, build, rushed>>

\* A file that was there is changed, another is appended.
Edited(h) ==
  LET new == desk[h].new[1]
      doc == desk[h].doc
  IN IF new.file \in desk[h].had
       THEN [doc EXCEPT ![Min({i \in Indices(doc) : doc[i].file = new.file})] = [new EXCEPT !.edited = TRUE]]
       ELSE Append(doc, new)

\* All files are validated, but those that were saved have passed; only what is new is
\* compared with the others.
DupesOf(new, doc) ==
  {i \in Indices(doc) : doc[i].flavor = new.flavor /\ doc[i].compat = new.compat}

CheckTables(h, dupes) ==
  /\ desk[h].at = "validate"
  /\ IF ~Fits(desk[h].new[1]) \/ (desk[h].new[1].file \notin desk[h].had /\ dupes # {})
       THEN Leave(h)
       ELSE desk' = [desk EXCEPT ![h].at = "save"]
  /\ UNCHANGED <<table, tableRev, build, rushed>>

\* Mutant of ValidateTables: only the file before is compared.
ValidateNewest(h) == CheckTables(h, DupesOf(desk[h].new[1], desk[h].doc) \cap {Len(desk[h].doc)})

ValidateTables(h) == CheckTables(h, DupesOf(desk[h].new[1], desk[h].doc))

\* The array is set as a whole, if nobody has since it was loaded.
SaveTables(h) ==
  /\ desk[h].at = "save"
  /\ IF desk[h].rev = tableRev
       THEN table' = Edited(h) /\ tableRev' = tableRev + 1
       ELSE UNCHANGED <<table, tableRev>>
  /\ Leave(h)
  /\ UNCHANGED <<build, rushed>>

-----------------------------------------------------------------------------
\* BuildApi.del: no release refers to the build.
FindUses(h, b) ==
  /\ desk[h].at = "idle" /\ b \in build
  /\ UsersOf(table, b) = {}
  /\ desk' = [desk EXCEPT ![h] = [NoEditor EXCEPT !.at = "remove", !.had = {b}, !.doc = table]]
  /\ UNCHANGED <<table, tableRev, build, rushed>>

RemoveBuild(h) ==
  LET racing == {k \in Editors : desk[k].at \in {"validate", "save"}} IN
  /\ desk[h].at = "remove"
  /\ build' = build \ desk[h].had
  /\ rushed' = IF racing # {} \/ desk[h].doc # table THEN rushed \cup desk[h].had ELSE rushed
  /\ Leave(h)
  /\ UNCHANGED <<table, tableRev>>

TableStep ==
  \/ \E f \in TableIds, offer \in Offers, compat \in Compats :
       LET new == Table(f, offer, compat) IN
       CreateRelease(new) \/ \E h \in Editors : LoadFiles(h, new)
  \/ \E h \in Editors :
       \/ LoadDocument(h) \/ ValidateTables(h) \/ SaveTables(h)
       \/ \E b \in Builds : FindUses(h, b)
       \/ RemoveBuild(h)

TableSpec == TableInit /\ [][TableStep]_tableVars

-----------------------------------------------------------------------------
(* What a list of releases shows.  A request names some of the two sorts   *)
(* of flavor, in an order: a sequence of pairs of a sort and a value.      *)

Sorts(asked) == {asked[i][1] : i \in DOMAIN asked}

\* getFlavorNames: those that were asked for, then orientation, then lighting.
FlavorNames(asked) ==
  LET unasked(s) == IF s \in Sorts(asked) THEN << >> ELSE <<s>>
  IN [i \in DOMAIN asked |-> asked[i][1]] \o unasked("orientation") \o unasked("lighting")

DefaultFlavor == [orientation |-> "fs", lighting |-> "day"]

\* Mutant of MatchExponent: each sort weighs ten times the next, asked for or not.
PlainExponent(p, isAsked) == p

\* The logarithms of the weights.
MatchExponent(p, isAsked) == IF isAsked THEN p * 3 ELSE p

\* findThumb: what was asked for weighs more than the defaults.
SortWeight(flavor, asked, n) ==
  LET names == FlavorNames(asked)
      p == Len(names) + 2 - n
  IN IF n \in DOMAIN asked /\ asked[n][2] = flavor[names[n]] THEN 10 ^ MatchExponent(p, TRUE)
     ELSE IF flavor[names[n]] = DefaultFlavor[names[n]] THEN 10 ^ MatchExponent(p, FALSE)
     ELSE 0

Weight(flavor, asked) == MapThenSumSet(LAMBDA n : SortWeight(flavor, asked, n), DOMAIN FlavorNames(asked))

ThumbOf(asked) ==
  LET weights == [i \in Indices(table) |-> Weight(table[i].flavor, asked)] IN
  table[Min({i \in Indices(table) : \A j \in Indices(table) : weights[i] >= weights[j]})]

\* The picture of a release whose files nobody named.
ThumbRedirect == ThumbOf(<<>>)

\* strip: the first file of a flavor; what is asked for takes only these.
Stripped == {i \in Indices(table) : \A j \in 1 .. i - 1 : table[j].flavor # table[i].flavor}

Matches(flavor, asked) == \A n \in DOMAIN asked : flavor[asked[n][1]] = asked[n][2]

\* filterByFlavor: a sort each, and not of the same file.
Listed(asked) ==
  \A n \in DOMAIN asked : \E i \in Indices(table) : table[i].flavor[asked[n][1]] \in {"any", asked[n][2]}

Shown(asked) == IF Listed(asked) THEN {i \in Stripped : Matches(table[i].flavor, asked)} ELSE {}

Requests ==
  {<<>>} \cup {<<p>> : p \in {"orientation"} \X {"fs", "ws"} \cup {"lighting"} \X {"day", "night"}}
  \cup UNION {{<<o, l>>, <<l, o>>} : o \in {"orientation"} \X {"fs", "ws"}, l \in {"lighting"} \X {"day", "night"}}

-----------------------------------------------------------------------------
\* No two files of a version have the same flavor and builds, however many requests add
\* them at once, unless an update changed one of them (release.version.schema.ts:117).
FlavorsDistinct ==
  \A i, j \in Indices(table) :
    i # j /\ table[i].flavor = table[j].flavor /\ table[i].compat = table[j].compat
      => table[i].edited \/ table[j].edited

\* A file's builds exist, but those removed while a file was being saved, or whose uses were
\* looked for before a file was (build.api.ts:177).
NoDanglingBuild == \A i \in Indices(table) : table[i].compat \subseteq build \cup rushed

\* What requests at work at one time may not break: neither the files of a version nor what they
\* refer to.
TablesConsistent == FlavorsDistinct /\ NoDanglingBuild

\* A release with a file as asked for is listed with one, and with nothing else, and has its
\* picture, held as it was asked for; of the defaults, the picture is only if there is nothing
\* better, and who asks for nothing gets them (release.serializer.ts:155-196,
\* release.list.query.builder.ts:63, release.storage.ts:254).  Whoever is at work has changed
\* nothing yet, so it is enough to look when nobody is.
ShownAsAsked ==
  table # << >> /\ (\A h \in Editors : desk[h].at = "idle") => \A asked \in Requests :
    LET matching == {i \in Indices(table) : Matches(table[i].flavor, asked)} IN
    /\ matching # {} => Shown(asked) # {} /\ Matches(ThumbOf(asked).flavor, asked)
    /\ Shown(asked) \subseteq matching
    /\ asked # <<>> /\ (\E i \in Indices(table) : Matches(table[i].flavor, <<asked[1]>>))
         => Matches(ThumbOf(asked).flavor, <<asked[1]>>)
    /\ matching # {} =>
         \A n \in DOMAIN asked :
           /\ asked[n][2] = "fs" => ThumbOf(asked).picture.shape # "landscape"
           /\ asked[n][2] = "ws" => ThumbOf(asked).picture.shape # "portrait"
    /\ (\E i \in Indices(table) : table[i].flavor = DefaultFlavor) =>
         ThumbRedirect.flavor = DefaultFlavor

=============================================================================
