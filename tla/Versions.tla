------------------------------ MODULE Versions ------------------------------
(***************************************************************************)
(* The versions of one release, an array inside of its document, and the   *)
(* handlers that load the document, change the array and save it           *)
(* (release.version.api.ts, release.version.file.api.ts).                  *)
(*                                                                         *)
(* Mongoose guards arrays with a counter in the document, __v: a save that *)
(* sets the array wants the counter it has loaded and increments it, a     *)
(* save that sets a field of an element wants it too and leaves it.        *)
(* Counting a download does neither.                                       *)
(***************************************************************************)
EXTENDS Naturals, FiniteSets

CONSTANTS
  VersionIds,
  VersionNames,
  FirstName,     \* the name of the version the release is created with
  Edits,         \* bound: the requests at work at one time
  MaxRevision,   \* bound: of __v
  MaxDownloads,  \* bound: the versions that are downloaded, once each
  Absent

VARIABLES
  version,   \* the array: what is known of a version, or Absent
  revision,  \* __v
  edit,      \* the handlers
  added,     \* history: the versions the API answered 201 for
  served,    \* history: the downloads
  vetted,    \* history: the versions a moderator has validated
  forgiven   \* history: versions whose data was overwritten by a save that overlapped

versionVars == <<version, revision, edit, added, served, vetted, forgiven>>

ASSUME VersionAssumption ==
  /\ FirstName \in VersionNames
  /\ Absent \notin [name : VersionNames, validated : BOOLEAN, downloads : Nat]

-----------------------------------------------------------------------------
Version(name) == [name |-> name, validated |-> FALSE, downloads |-> 0]

\* doc and rev: the document that will be saved; checked: the names the request
\* is checked on; of: the id of the version; touched: history, the versions forgiven with it.
NoEdit == [at |-> "idle", op |-> "none", of |-> Absent, name |-> Absent,
           checked |-> <<>>, doc |-> <<>>, rev |-> 0, touched |-> {}]

VersionInit ==
  /\ version = [i \in VersionIds |->
       IF i = CHOOSE v \in VersionIds : TRUE THEN Version(FirstName) ELSE Absent]
  /\ revision = 0
  /\ edit = [e \in Edits |-> NoEdit]
  /\ added = {}
  /\ served = [i \in VersionIds |-> 0]
  /\ vetted = {}
  /\ forgiven = {}

Present(doc) == {i \in DOMAIN doc : doc[i] # Absent}
Names(doc) == [i \in Present(doc) |-> doc[i].name]
Named(doc, n) == {i \in Present(doc) : doc[i].name = n}
\* Which id is next does not matter.
Unused == VersionIds \ (Present(version) \cup added \cup {edit[e].of : e \in Edits})
NewId == CHOOSE i \in Unused : TRUE

Take(e, next) == edit[e].at = "idle" /\ edit' = [edit EXCEPT ![e] = next]

-----------------------------------------------------------------------------
\* addVersion: one load, a name that the loaded document does not have.
LoadToAdd(e, n) ==
  LET i == NewId IN
  /\ Unused # {} /\ Named(version, n) = {}
  /\ Take(e, [NoEdit EXCEPT !.at = "save", !.op = "add", !.of = i, !.name = n,
                            !.doc = version, !.rev = revision])
  /\ UNCHANGED <<version, revision, added, served, vetted, forgiven>>

\* updateVersion, validateFile: a load with what the request is checked on: the version
\* exists, and a new name is not that of another.
LoadToCheck(e, op, i, n) ==
  /\ i \in Present(version)
  /\ op = "update" => Named(version, n) \subseteq {i}
  /\ Take(e, [NoEdit EXCEPT !.at = "load", !.op = op, !.of = i, !.name = n, !.checked = Names(version)])
  /\ UNCHANGED <<version, revision, added, served, vetted, forgiven>>

\* And a load of what is saved: the version with the name of the path, which may be gone
\* by now or be another one; the latter has no such file, which throws for validateFile.
LoadToUpdate(e) ==
  LET path == edit[e].checked[edit[e].of] IN
  /\ edit[e].at = "load"
  /\ IF Named(version, path) = {} \/ (edit[e].op = "validate" /\ edit[e].of \notin Named(version, path))
       THEN edit' = [edit EXCEPT ![e] = NoEdit]
       ELSE \E i \in Named(version, path) :
              edit' = [edit EXCEPT ![e].at = "save", ![e].of = i, ![e].doc = version, ![e].rev = revision,
                         ![e].checked = <<>>]
  /\ UNCHANGED <<version, revision, added, served, vetted, forgiven>>

\* The array as addVersion and updateVersion send it: whole, counters included.
Array(e) ==
  [edit[e].doc EXCEPT ![edit[e].of] =
     IF edit[e].op = "add" THEN Version(edit[e].name) ELSE [@ EXCEPT !.name = edit[e].name]]

Saves(e, asLoaded) ==
  /\ edit[e].at = "save" /\ edit[e].op \in {"add", "update"}
  /\ IF asLoaded
       THEN /\ revision < MaxRevision
            /\ version' = Array(e)
            /\ revision' = revision + 1
            /\ added' = IF edit[e].op = "add" THEN added \cup {edit[e].of} ELSE added
            /\ forgiven' = forgiven \cup edit[e].touched
       ELSE UNCHANGED <<version, revision, added, forgiven>>
  /\ edit' = [edit EXCEPT ![e] = NoEdit]
  /\ UNCHANGED <<served, vetted>>

\* Mutant of SaveArray: versions are not checked.
SaveArrayBlindly(e) == Saves(e, TRUE)

\* A VersionError otherwise, which the client sees as an error of the server.
SaveArray(e) == Saves(e, revision = edit[e].rev)

\* History: who has loaded the array will overwrite what is written to a field of i.
Touch(i) ==
  [k \in Edits |-> IF edit[k].at = "save" /\ edit[k].op # "validate"
                   THEN [edit[k] EXCEPT !.touched = @ \cup {i}]
                   ELSE edit[k]]

\* validateFile sets one field, at the position the version had when it was loaded.
SaveValidation(e) ==
  /\ edit[e].at = "save" /\ edit[e].op = "validate"
  /\ IF revision = edit[e].rev
       THEN /\ version' = [version EXCEPT ![edit[e].of].validated = TRUE]
            /\ vetted' = vetted \cup {edit[e].of}
            /\ edit' = [Touch(edit[e].of) EXCEPT ![e] = NoEdit]
       ELSE edit' = [edit EXCEPT ![e] = NoEdit] /\ UNCHANGED <<version, vetted>>
  /\ UNCHANGED <<revision, added, served, forgiven>>

\* MetricsDocument.incrementCounter, by the position's filter and not by __v.
CountDownload(i) ==
  /\ i \in Present(version) /\ served[i] = 0
  /\ Cardinality({k \in VersionIds : served[k] > 0}) < MaxDownloads
  /\ version' = [version EXCEPT ![i].downloads = @ + 1]
  /\ served' = [served EXCEPT ![i] = @ + 1]
  /\ edit' = Touch(i)
  /\ UNCHANGED <<revision, added, vetted, forgiven>>

\* Validation of the rest fails, or the process dies.
EditFails(e) ==
  /\ edit[e].at # "idle"
  /\ edit' = [edit EXCEPT ![e] = NoEdit]
  /\ UNCHANGED <<version, revision, added, served, vetted, forgiven>>

VersionStep ==
  \/ \E e \in Edits :
       \/ \E n \in VersionNames :
            LoadToAdd(e, n) \/ \E i \in VersionIds : LoadToCheck(e, "update", i, n)
       \/ \E i \in VersionIds : LoadToCheck(e, "validate", i, Absent)
       \/ LoadToUpdate(e) \/ SaveArray(e) \/ SaveValidation(e) \/ EditFails(e)
  \/ \E i \in VersionIds : CountDownload(i)

VersionsSpec == VersionInit /\ [][VersionStep]_versionVars

-----------------------------------------------------------------------------
\* A version that was added is not lost to another request that had loaded the release
\* before (release.version.api.ts:103-109, 247-251).
AddedVersionsStay == added \subseteq Present(version)

\* The downloads of a version are counted and its validation stays, but for what happens
\* during an edit of any version, which writes all of them back as it has loaded them
\* (release.version.api.ts:103-109, metrics.plugin.ts:84-105).
CountersKept ==
  \A i \in Present(version) : i \notin forgiven =>
    version[i].downloads = served[i] /\ (i \in vetted => version[i].validated)

\* What requests did to the versions of a release at the same time is all there
\* (release.version.api.ts:103-109).
VersionsKept == AddedVersionsStay /\ CountersKept

=============================================================================
