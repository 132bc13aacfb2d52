--------------------------- MODULE ContentProofs ---------------------------
(***************************************************************************)
(* What any number of requests at once do not break of releases and files: *)
(* the rotation of an image, the versions of a release, the files of a     *)
(* version and what is shown of them; the answers to uploads, and          *)
(* documents and their files.  Each part has an inductive invariant of its *)
(* own, stated first.                                                      *)
(***************************************************************************)
EXTENDS Rotation, Versions, TableFiles, Uploads, Attachments, SequenceTheorems, WellFoundedInduction,
        TLAPS

-----------------------------------------------------------------------------
(***************************************************************************)
(* A request that passes leaves its image as accepted, after any number of *)
(* requests that did not.  The invariant says what disk, `rotation` and    *)
(* `unvalidatedRotation` have to do with each other at every await, as     *)
(* long as the image is not spoiled.                                       *)
(***************************************************************************)
RecordedAngles == Angles \cup {Unset}

RotationTypes ==
  /\ image \in [disk : Angles, rotation : Angles, unvalidated : RecordedAngles, used : BOOLEAN]
  /\ rotating \in [at : {"none", "record", "validate", "post", "rollback"},
                   kind : {"none", "create", "update", "rolledback"}, angle : Angles,
                   unvalidated : RecordedAngles, sound : BOOLEAN]
  /\ accepted \in Angles
  /\ spoiled \in BOOLEAN

\* What was recorded or is about to be is never the rotation that is validated: angle 0 records
\* nothing.  So a postProcess that finds a 0 always spoils the image.
Differs ==
  /\ image.unvalidated # image.rotation
  /\ rotating.at = "record" => rotating.unvalidated # image.rotation

\* The validated rotation is the accepted one, until a request has passed.
Validated == rotating.at # "post" => image.rotation = accepted

\* Between requests, what a rejected one recorded goes with a file that is still turned.
Leftover == rotating.at = "none" /\ image.disk = accepted => image.unvalidated = Unset

\* A request without a turn began with a file as accepted and finds nothing recorded.
Unturned ==
  rotating.at # "none" /\ rotating.angle = 0 =>
    /\ image.disk = accepted /\ image.rotation = accepted
    /\ image.unvalidated = Unset
    /\ rotating.at = "record" => rotating.unvalidated = Unset

\* The file has the turn of the request at work, and so has what is recorded of it.
TurnedAsAsked ==
  rotating.at # "none" /\ rotating.angle # 0 =>
    /\ image.disk = Target(rotating.angle)
    /\ rotating.at = "record" => rotating.unvalidated = image.disk
    /\ rotating.at # "record" => image.unvalidated = image.disk
    /\ rotating.at = "post" => image.disk = accepted

RotationInv ==
  /\ RotationTypes
  /\ Differs
  /\ ~spoiled => Validated /\ Leftover /\ Unturned /\ TurnedAsAsked

-----------------------------------------------------------------------------
LEMMA TurnMoves ==
  ASSUME NEW from \in Angles, NEW angle \in Angles
  PROVE  /\ Turn(from, angle) \in Angles
         /\ angle # 0 => Turn(from, angle) # from
         /\ angle = 0 => Turn(from, angle) = from
BY DEF Turn, Angles

LEMMA TurnBack ==
  ASSUME NEW angle \in Angles
  PROVE  /\ (4 - angle) % 4 \in Angles
         /\ angle % 2 # 1 => (4 - angle) % 4 = angle
BY DEF Angles

LEMMA ZeroAngle == 0 \in Angles /\ 0 # Unset
BY UnsetAssumption DEF Angles

LEMMA RotationInitInv == RotationInit => RotationInv
<1> SUFFICES ASSUME RotationInit PROVE RotationInv
  OBVIOUS
<1>1. RotationTypes
  BY ZeroAngle DEF RotationInit, NoRotation, RotationTypes, RecordedAngles
<1>2. Differs
  BY ZeroAngle DEF RotationInit, NoRotation, Differs
<1>3. Validated /\ Leftover /\ Unturned /\ TurnedAsAsked
  BY DEF RotationInit, NoRotation, Validated, Leftover, Unturned, TurnedAsAsked
<1> QED
  BY <1>1, <1>2, <1>3 DEF RotationInv

LEMMA RotateFileInv ==
  ASSUME RotationInv, NEW kind \in {"create", "update"}, NEW angle \in Angles, RotateFile(kind,
         angle)
  PROVE  RotationInv'
<1>1. Target(angle) \in Angles /\ (angle # 0 => Target(angle) # image.rotation)
  BY TurnMoves DEF RotationInv, RotationTypes, Target
<1>2. CASE angle = 0
  BY <1>2 DEF RotateFile, RotationInv, RotationTypes, RecordedAngles, Differs, Validated, Leftover,
     Unturned, TurnedAsAsked
<1>3. CASE angle # 0
  <2>1. RotationTypes' /\ Differs'
    BY <1>1, <1>3 DEF RotateFile, RotationInv, RotationTypes, RecordedAngles, Differs
  <2>2. ~spoiled' => (Validated /\ Leftover /\ Unturned /\ TurnedAsAsked)'
    BY <1>1, <1>3 DEF RotateFile, RotationInv, RotationTypes, Validated, Leftover, Unturned,
       TurnedAsAsked, Target
  <2> QED
    BY <2>1, <2>2 DEF RotationInv
<1> QED
  BY <1>2, <1>3

LEMMA PassInv ==
  ASSUME RotationInv, PassValidation
  PROVE  RotationInv'
<1>1. Turn(accepted, rotating.angle) \in Angles
  BY TurnMoves DEF RotationInv, RotationTypes
<1>2. rotating.angle = 0 => accepted' = accepted
  BY TurnMoves DEF PassValidation, RotationInv, RotationTypes
<1>3. RotationTypes' /\ Differs'
  BY <1>1 DEF PassValidation, RotationInv, RotationTypes, Differs
<1>4. ASSUME ~spoiled' PROVE (Validated /\ Leftover /\ Unturned /\ TurnedAsAsked)'
  BY <1>2, <1>4 DEF PassValidation, RotationInv, RotationTypes, Validated, Leftover, Unturned,
     TurnedAsAsked, Target
<1> QED
  BY <1>3, <1>4 DEF RotationInv

LEMMA PostInv ==
  ASSUME RotationInv, PostProcess
  PROVE  RotationInv'
<1>1. CASE image.unvalidated \in Angles \ {0}
  BY <1>1, ZeroAngle, UnsetAssumption DEF PostProcess, NoRotation, RotationInv, RotationTypes,
     RecordedAngles, Differs, Validated, Leftover, Unturned, TurnedAsAsked
<1>2. CASE image.unvalidated \notin Angles \ {0}
  BY <1>2, ZeroAngle, UnsetAssumption DEF PostProcess, NoRotation, RotationInv, RotationTypes,
     RecordedAngles, Differs, Validated, Leftover, Unturned, TurnedAsAsked
<1> QED
  BY <1>1, <1>2

LEMMA RollbackInv ==
  ASSUME RotationInv, Rollback
  PROVE  RotationInv'
<1>1. /\ (4 - image.rotation) % 4 \in Angles
      /\ image.rotation % 2 # 1 => (4 - image.rotation) % 4 = image.rotation
  BY TurnBack DEF RotationInv, RotationTypes
<1>2. image'.disk \in Angles /\ image'.rotation = image.rotation
  BY <1>1 DEF Rollback, RotationInv, RotationTypes
<1>3. RotationTypes' /\ Differs'
  BY <1>2, UnsetAssumption DEF Rollback, RotationInv, RotationTypes, RecordedAngles, Differs
<1>4. ASSUME ~spoiled' PROVE (Validated /\ Leftover /\ Unturned /\ TurnedAsAsked)'
  BY <1>4 DEF Rollback, RotationInv, RotationTypes, Validated, Leftover, Unturned, TurnedAsAsked
<1> QED
  BY <1>3, <1>4 DEF RotationInv

LEMMA AbandonInv ==
  ASSUME RotationInv, AbandonRotation
  PROVE  RotationInv'
<1>1. rotating.angle # 0 => Target(rotating.angle) # image.rotation
  BY TurnMoves DEF RotationInv, RotationTypes, Target
<1> QED
  BY <1>1, ZeroAngle DEF AbandonRotation, NoRotation, RotationInv, RotationTypes, RecordedAngles,
     Differs, Validated, Leftover, Unturned, TurnedAsAsked

LEMMA FailInv ==
  ASSUME RotationInv, FailValidation
  PROVE  RotationInv'
<1>1. rotating.angle # 0 => Target(rotating.angle) # image.rotation
  BY TurnMoves DEF RotationInv, RotationTypes, Target
<1>2. CASE rotating.kind = "update"
  BY <1>2 DEF FailValidation, RotationInv, RotationTypes, Differs, Validated, Leftover, Unturned,
     TurnedAsAsked, Target
<1>3. CASE rotating.kind # "update"
  BY <1>1, <1>3, ZeroAngle DEF FailValidation, NoRotation, RotationInv, RotationTypes,
     RecordedAngles, Differs, Validated, Leftover, Unturned, TurnedAsAsked
<1> QED
  BY <1>2, <1>3

LEMMA RotationStepInv == RotationInv /\ [RotationStep]_rotationVars => RotationInv'
<1> SUFFICES ASSUME RotationInv, [RotationStep]_rotationVars PROVE RotationInv'
  OBVIOUS
<1>1. ASSUME NEW kind \in {"create", "update"}, NEW angle \in Angles, RotateFile(kind, angle)
      PROVE  RotationInv'
  BY <1>1, RotateFileInv
<1>2. CASE RecordUnvalidated
  BY <1>2 DEF RecordUnvalidated, RotationInv, RotationTypes, Differs, Validated, Leftover,
     Unturned, TurnedAsAsked, Target
<1>3. CASE PassValidation
  BY <1>3, PassInv
<1>4. CASE PostProcess
  BY <1>4, PostInv
<1>5. CASE FailValidation
  BY <1>5, FailInv
<1>6. CASE Rollback
  BY <1>6, RollbackInv
<1>7. CASE AbandonRotation
  BY <1>7, AbandonInv
<1>8. CASE UNCHANGED rotationVars
  BY <1>8 DEF rotationVars, RotationInv, RotationTypes, Differs, Validated, Leftover, Unturned,
     TurnedAsAsked, Target
<1> QED
  BY <1>1, <1>2, <1>3, <1>4, <1>5, <1>6, <1>7, <1>8 DEF RotationStep

LEMMA RotationInvHolds == RotationSpec => []RotationInv
BY RotationInitInv, RotationStepInv, PTL DEF RotationSpec

\* A request that passes leaves the file turned by its angle from what was accepted before, however
\* many requests were rejected, rolled back or broken off, unless the image is spoiled.
THEOREM PassedAsAccepted == RotationSpec => []ImageAsAccepted
<1>1. RotationInv => ImageAsAccepted
  BY DEF RotationInv, Unturned, TurnedAsAsked, ImageAsAccepted
<1> QED
  BY <1>1, RotationInvHolds, PTL

-----------------------------------------------------------------------------
(***************************************************************************)
(* No version and no count is lost, for any number of requests that edit   *)
(* the versions of a release at once.  A document that was loaded at the   *)
(* present __v has the versions the release has, and what it says of them  *)
(* is current but for what was touched since; so saving it loses nothing.  *)
(***************************************************************************)
VersionRecords == [name : VersionNames, validated : BOOLEAN, downloads : Nat]

VersionDocuments == [VersionIds -> VersionRecords \cup {Absent}]

Checks == UNION {[S -> VersionNames] : S \in SUBSET VersionIds}

EditStates ==
  [at : {"idle", "load", "save"}, op : {"none", "add", "update", "validate"},
   of : VersionIds \cup {Absent}, name : VersionNames \cup {Absent}, checked : Checks \cup {<<>>},
   doc : VersionDocuments \cup {<<>>}, rev : Nat, touched : SUBSET VersionIds]

VersionTypes ==
  /\ version \in VersionDocuments
  /\ revision \in Nat
  /\ edit \in [Edits -> EditStates]
  /\ added \subseteq VersionIds
  /\ served \in [VersionIds -> Nat]
  /\ vetted \subseteq VersionIds
  /\ forgiven \subseteq VersionIds

\* Two documents have the same versions, and say the same of those that were not touched.
Same(v, w) == \A i \in VersionIds : v[i] = Absent <=> w[i] = Absent
Agree(v, w, touched) ==
  \A i \in VersionIds \ touched :
    v[i] # Absent => w[i].downloads = v[i].downloads /\ w[i].validated = v[i].validated

\* What a request is about to save, if the release is v at revision r.
Current(s, v, r) ==
  s.rev = r => Same(v, s.doc) /\ (s.op # "validate" => Agree(v, s.doc, s.touched))

Ready(s, v, r) ==
  /\ s.at # "idle" /\ s.op # "validate" => s.name \in VersionNames
  /\ s.at = "load" => s.op # "add"
  /\ s.at = "save" =>
       /\ s.of \in VersionIds /\ s.doc \in VersionDocuments /\ s.rev <= r
       /\ s.op = "add" <=> s.doc[s.of] = Absent
       /\ Current(s, v, r)

\* What the release is to have, it has.
Kept(v) ==
  \A i \in VersionIds :
    /\ i \in added \cup vetted \/ served[i] # 0 => v[i] # Absent
    /\ v[i] # Absent /\ i \notin forgiven =>
         v[i].downloads = served[i] /\ (i \in vetted => v[i].validated)

VersionInv ==
  /\ VersionTypes
  /\ \A e \in Edits : Ready(edit[e], version, revision)
  /\ Kept(version)

-----------------------------------------------------------------------------
LEMMA AbsentIsNone == Absent \notin VersionRecords
BY VersionAssumption DEF VersionRecords

LEMMA NewRecord ==
  ASSUME NEW n \in VersionNames
  PROVE  /\ Version(n) \in VersionRecords /\ Version(n) # Absent
         /\ Version(n).downloads = 0 /\ Version(n).validated = FALSE
<1>1. Version(n) \in VersionRecords
  BY DEF Version, VersionRecords
<1>2. Version(n).downloads = 0 /\ Version(n).validated = FALSE
  BY DEF Version
<1> QED
  BY <1>1, <1>2, AbsentIsNone

LEMMA NoEditState == NoEdit \in EditStates /\ NoEdit.at = "idle"
BY DEF NoEdit, EditStates

LEMMA IdleReady ==
  ASSUME NEW v, NEW r
  PROVE  Ready(NoEdit, v, r)
BY DEF Ready, NoEdit

LEMMA VersionInitInv == VersionInit => VersionInv
<1> SUFFICES ASSUME VersionInit PROVE VersionInv
  OBVIOUS
<1>1. VersionTypes
  <2>1. Version(FirstName) \in VersionRecords
    BY VersionAssumption, NewRecord
  <2>2. version \in VersionDocuments
    BY <2>1 DEF VersionInit, VersionDocuments
  <2> QED
    BY <2>2, NoEditState DEF VersionInit, VersionTypes
<1>2. \A e \in Edits : Ready(edit[e], version, revision)
  BY IdleReady DEF VersionInit
<1>3. Kept(version)
  <2>1. \A i \in VersionIds : version[i] # Absent => version[i] = Version(FirstName)
    BY DEF VersionInit
  <2> QED
    BY <2>1, VersionAssumption, NewRecord DEF VersionInit, Kept
<1> QED
  BY <1>1, <1>2, <1>3 DEF VersionInv

-----------------------------------------------------------------------------
(* Steps that change nothing but what one request holds.                   *)

LEMMA OneEdit ==
  ASSUME VersionInv, NEW e \in Edits, NEW s \in EditStates, Ready(s, version, revision),
         edit' = [edit EXCEPT ![e] = s],
         UNCHANGED <<version, revision, added, served, vetted, forgiven>>
  PROVE  VersionInv'
<1>1. VersionTypes'
  BY DEF VersionInv, VersionTypes
<1>2. \A k \in Edits : Ready(edit'[k], version, revision)
  BY DEF VersionInv, VersionTypes
<1>3. Kept(version)'
  BY DEF VersionInv, Kept
<1> QED
  BY <1>1, <1>2, <1>3 DEF VersionInv

\* A document that has just been loaded is current.
LEMMA LoadedCurrent ==
  ASSUME VersionInv, NEW s \in EditStates, s.doc = version, s.rev = revision
  PROVE  Current(s, version, revision) /\ s.doc \in VersionDocuments /\ s.rev <= revision
<1>1. revision \in Nat /\ version \in VersionDocuments
  BY DEF VersionInv, VersionTypes
<1>2. revision <= revision
  BY <1>1
<1> QED
  BY <1>1, <1>2 DEF Current, Same, Agree

LEMMA LoadToAddInv ==
  ASSUME VersionInv, NEW e \in Edits, NEW n \in VersionNames, LoadToAdd(e, n)
  PROVE  VersionInv'
<1> DEFINE s == [NoEdit EXCEPT !.at = "save", !.op = "add", !.of = NewId, !.name = n,
                               !.doc = version, !.rev = revision]
<1>1. NewId \in VersionIds /\ version[NewId] = Absent
  <2>1. NewId \in Unused
    BY DEF LoadToAdd, NewId
  <2> QED
    BY <2>1 DEF Unused, Present, VersionInv, VersionTypes, VersionDocuments
<1>2. /\ s.at = "save" /\ s.op = "add" /\ s.of = NewId /\ s.name = n
      /\ s.doc = version /\ s.rev = revision
  BY DEF NoEdit
<1>3. s \in EditStates
  BY <1>1 DEF NoEdit, EditStates, VersionInv, VersionTypes
<1>4. edit' = [edit EXCEPT ![e] = s] /\ UNCHANGED <<version, revision, added, served, vetted, forgiven>>
  BY DEF LoadToAdd, Take
<1> HIDE DEF s
<1>5. Ready(s, version, revision)
  BY <1>1, <1>2, <1>3, LoadedCurrent DEF Ready
<1> QED
  BY <1>3, <1>4, <1>5, OneEdit

LEMMA LoadToCheckInv ==
  ASSUME VersionInv, NEW e \in Edits, NEW op \in {"update", "validate"}, NEW i \in VersionIds,
         NEW n \in VersionNames \cup {Absent}, op = "update" => n \in VersionNames,
         LoadToCheck(e, op, i, n)
  PROVE  VersionInv'
<1> DEFINE s == [NoEdit EXCEPT !.at = "load", !.op = op, !.of = i, !.name = n,
                               !.checked = Names(version)]
<1>1. Names(version) \in Checks
  <2>1. Present(version) \in SUBSET VersionIds
    BY DEF Present, VersionInv, VersionTypes, VersionDocuments
  <2>2. \A k \in Present(version) : version[k].name \in VersionNames
    BY DEF Present, VersionInv, VersionTypes, VersionDocuments, VersionRecords
  <2>3. Names(version) \in [Present(version) -> VersionNames]
    BY <2>2 DEF Names
  <2> QED
    BY <2>1, <2>3 DEF Checks
<1>2. s.at = "load" /\ s.op = op /\ s.name = n
  BY DEF NoEdit
<1>3. s \in EditStates
  BY <1>1 DEF NoEdit, EditStates
<1>4. edit' = [edit EXCEPT ![e] = s] /\ UNCHANGED <<version, revision, added, served, vetted, forgiven>>
  BY DEF LoadToCheck, Take
<1> HIDE DEF s
<1>5. Ready(s, version, revision)
  BY <1>2 DEF Ready
<1> QED
  BY <1>3, <1>4, <1>5, OneEdit

LEMMA Abandoned ==
  ASSUME VersionInv, NEW e \in Edits, edit' = [edit EXCEPT ![e] = NoEdit],
         UNCHANGED <<version, revision, added, served, vetted, forgiven>>
  PROVE  VersionInv'
BY OneEdit, NoEditState, IdleReady

LEMMA LoadToUpdateInv ==
  ASSUME VersionInv, NEW e \in Edits, LoadToUpdate(e)
  PROVE  VersionInv'
<1>1. CASE edit' = [edit EXCEPT ![e] = NoEdit]
  BY <1>1, Abandoned DEF LoadToUpdate
<1>2. CASE edit' # [edit EXCEPT ![e] = NoEdit]
  <2>1. PICK i \in Named(version, edit[e].checked[edit[e].of]) :
          edit' = [edit EXCEPT ![e].at = "save", ![e].of = i, ![e].doc = version,
                               ![e].rev = revision, ![e].checked = <<>>]
    BY <1>2 DEF LoadToUpdate
  <2> DEFINE s == [edit[e] EXCEPT !.at = "save", !.of = i, !.doc = version, !.rev = revision,
                                  !.checked = <<>>]
  <2>2. i \in VersionIds /\ version[i] # Absent
    BY DEF Named, Present, VersionInv, VersionTypes, VersionDocuments
  <2>3. edit[e] \in EditStates /\ edit[e].at = "load"
    BY DEF LoadToUpdate, VersionInv, VersionTypes
  <2>4. /\ s.at = "save" /\ s.of = i /\ s.doc = version /\ s.rev = revision
        /\ s.op = edit[e].op /\ s.name = edit[e].name
    BY <2>3 DEF EditStates
  <2>5. s \in EditStates
    BY <2>2, <2>3 DEF EditStates, VersionInv, VersionTypes
  <2>6. edit' = [edit EXCEPT ![e] = s]
    BY <2>1, <2>3 DEF EditStates, VersionInv, VersionTypes
  <2> HIDE DEF s
  <2>7. Ready(edit[e], version, revision)
    BY DEF VersionInv
  <2>8. Ready(s, version, revision)
    BY <2>2, <2>3, <2>4, <2>5, <2>7, LoadedCurrent DEF Ready
  <2> QED
    BY <2>5, <2>6, <2>8, OneEdit DEF LoadToUpdate
<1> QED
  BY <1>1, <1>2

-----------------------------------------------------------------------------
(* Steps that write the release.                                           *)

\* The array that is saved has every version the release has; of those that were not touched
\* it says what the release says.
LEMMA ArrayKeeps ==
  ASSUME VersionInv, NEW e \in Edits, edit[e].at = "save", edit[e].op \in {"add", "update"},
         edit[e].rev = revision
  PROVE  /\ Array(e) \in VersionDocuments
         /\ \A i \in VersionIds :
              /\ version[i] # Absent \/ i = edit[e].of => Array(e)[i] # Absent
              /\ Array(e)[i] # Absent /\ i \notin edit[e].touched =>
                   IF version[i] = Absent
                     THEN Array(e)[i].downloads = 0
                     ELSE /\ Array(e)[i].downloads = version[i].downloads
                          /\ Array(e)[i].validated = version[i].validated
<1> DEFINE s == edit[e]
<1>1. s \in EditStates /\ Ready(s, version, revision)
  BY DEF VersionInv, VersionTypes
<1> HIDE DEF s
<1>2. /\ s.of \in VersionIds /\ s.doc \in VersionDocuments /\ s.name \in VersionNames
      /\ s.op = "add" <=> s.doc[s.of] = Absent
      /\ Same(version, s.doc) /\ Agree(version, s.doc, s.touched)
  BY <1>1 DEF Ready, Current, s
<1>3. CASE s.op = "add"
  <2>1. Array(e) = [s.doc EXCEPT ![s.of] = Version(s.name)]
    BY <1>3 DEF Array, s
  <2>2. Version(s.name) \in VersionRecords /\ Version(s.name) # Absent /\ Version(s.name).downloads = 0
    BY <1>2, NewRecord
  <2>3. version[s.of] = Absent
    BY <1>2, <1>3 DEF Same
  <2>4. Array(e) \in VersionDocuments
    BY <1>2, <2>1, <2>2 DEF VersionDocuments
  <2>5. Array(e)[s.of] = Version(s.name) /\ \A i \in VersionIds : i # s.of => Array(e)[i] = s.doc[i]
    BY <1>2, <2>1 DEF VersionDocuments
  <2> QED
    BY <1>2, <2>2, <2>3, <2>4, <2>5 DEF Same, Agree, s
<1>4. CASE s.op = "update"
  <2> DEFINE d == s.doc[s.of]
             new == [d EXCEPT !.name = s.name]
  <2>1. Array(e) = [s.doc EXCEPT ![s.of] = new]
    BY <1>2, <1>4 DEF Array, s, VersionDocuments
  <2>2. d \in VersionRecords /\ d # Absent
    BY <1>2, <1>4 DEF VersionDocuments
  <2>3. new \in VersionRecords /\ new # Absent /\ new.downloads = d.downloads /\ new.validated = d.validated
    BY <1>2, <2>2, AbsentIsNone DEF VersionRecords
  <2>4. version[s.of] # Absent
    BY <1>2, <2>2 DEF Same
  <2> HIDE DEF d, new
  <2>5. Array(e) \in VersionDocuments
    BY <1>2, <2>1, <2>3 DEF VersionDocuments
  <2>6. Array(e)[s.of] = new /\ \A i \in VersionIds : i # s.of => Array(e)[i] = s.doc[i]
    BY <1>2, <2>1 DEF VersionDocuments
  <2> QED
    BY <1>2, <2>2, <2>3, <2>4, <2>5, <2>6 DEF Same, Agree, s, d
<1> QED
  BY <1>3, <1>4 DEF s

LEMMA SaveArrayInv ==
  ASSUME VersionInv, NEW e \in Edits, SaveArray(e)
  PROVE  VersionInv'
<1>1. CASE revision # edit[e].rev
  BY <1>1, Abandoned DEF SaveArray, Saves
<1>2. CASE revision = edit[e].rev
  <2> DEFINE s == edit[e]
  <2>1. /\ s.at = "save" /\ s.op \in {"add", "update"} /\ s.rev = revision
        /\ version' = Array(e) /\ revision' = revision + 1
        /\ added' = IF s.op = "add" THEN added \cup {s.of} ELSE added
        /\ forgiven' = forgiven \cup s.touched
        /\ edit' = [edit EXCEPT ![e] = NoEdit]
        /\ UNCHANGED <<served, vetted>>
    BY <1>2 DEF SaveArray, Saves
  <2>2. s \in EditStates /\ s.of \in VersionIds
    BY <2>1 DEF VersionInv, VersionTypes, Ready
  <2> HIDE DEF s
  <2>3. /\ Array(e) \in VersionDocuments
        /\ \A i \in VersionIds :
             /\ version[i] # Absent \/ i = s.of => Array(e)[i] # Absent
             /\ Array(e)[i] # Absent /\ i \notin s.touched =>
                  IF version[i] = Absent
                    THEN Array(e)[i].downloads = 0
                    ELSE /\ Array(e)[i].downloads = version[i].downloads
                         /\ Array(e)[i].validated = version[i].validated
    BY <2>1, ArrayKeeps DEF s
  <2>4. VersionTypes'
    <3>1. edit' \in [Edits -> EditStates]
      BY <2>1, NoEditState DEF VersionInv, VersionTypes
    <3>2. s.touched \subseteq VersionIds
      BY <2>2 DEF EditStates
    <3> QED
      BY <2>1, <2>2, <2>3, <3>1, <3>2 DEF VersionInv, VersionTypes
  <2>5. ASSUME NEW k \in Edits PROVE Ready(edit'[k], version', revision')
    <3>1. CASE k = e
      <4>1. edit'[k] = NoEdit
        BY <2>1, <3>1 DEF VersionInv, VersionTypes
      <4> QED
        BY <4>1, IdleReady
    <3>2. CASE k # e
      <4>1. edit'[k] = edit[k] /\ edit[k] \in EditStates /\ Ready(edit[k], version, revision)
        BY <2>1, <3>2 DEF VersionInv, VersionTypes
      <4>2. revision \in Nat /\ edit[k].rev \in Nat
        BY <4>1 DEF VersionInv, VersionTypes, EditStates
      <4>3. edit[k].rev <= revision => edit[k].rev <= revision' /\ edit[k].rev # revision'
        BY <2>1, <4>2
      <4> QED
        BY <4>1, <4>3 DEF Ready, Current
    <3> QED
      BY <3>1, <3>2
  <2>6. Kept(version)'
    <3> SUFFICES ASSUME NEW i \in VersionIds
                 PROVE  /\ i \in added' \cup vetted' \/ served'[i] # 0 => version'[i] # Absent
                        /\ version'[i] # Absent /\ i \notin forgiven' =>
                             /\ version'[i].downloads = served'[i]
                             /\ i \in vetted' => version'[i].validated
      BY DEF Kept
    <3>1. /\ i \in added \cup vetted \/ served[i] # 0 => version[i] # Absent
          /\ version[i] # Absent /\ i \notin forgiven =>
               version[i].downloads = served[i] /\ (i \in vetted => version[i].validated)
      BY DEF VersionInv, Kept
    <3> QED
      BY <2>1, <2>3, <3>1
  <2> QED
    BY <2>4, <2>5, <2>6 DEF VersionInv
<1> QED
  BY <1>1, <1>2

-----------------------------------------------------------------------------
(* One field of a version is written, which leaves __v as it is.           *)

LEMMA TouchTypes ==
  ASSUME VersionInv, NEW i \in VersionIds
  PROVE  /\ Touch(i) \in [Edits -> EditStates]
         /\ \A k \in Edits : Touch(i)[k] = IF edit[k].at = "save" /\ edit[k].op # "validate"
                                           THEN [edit[k] EXCEPT !.touched = @ \cup {i}]
                                           ELSE edit[k]
<1>1. ASSUME NEW k \in Edits
      PROVE  [edit[k] EXCEPT !.touched = @ \cup {i}] \in EditStates /\ edit[k] \in EditStates
  BY DEF VersionInv, VersionTypes, EditStates
<1> QED
  BY <1>1 DEF Touch

\* Whoever holds the array knows that it has been touched.
LEMMA TouchReady ==
  ASSUME VersionInv, NEW i \in VersionIds, NEW v \in VersionDocuments, version[i] # Absent,
         v[i] # Absent, \A j \in VersionIds : j # i => v[j] = version[j], NEW k \in Edits
  PROVE  Ready(Touch(i)[k], v, revision)
<1>1. edit[k] \in EditStates /\ Ready(edit[k], version, revision)
  BY DEF VersionInv, VersionTypes
<1>2. ASSUME NEW d, Same(version, d) PROVE Same(v, d)
  BY <1>2 DEF Same
<1>3. ASSUME NEW d, NEW touched, Agree(version, d, touched) PROVE Agree(v, d, touched \cup {i})
  BY <1>3 DEF Agree
<1>4. CASE edit[k].at = "save" /\ edit[k].op # "validate"
  <2> DEFINE s == [edit[k] EXCEPT !.touched = @ \cup {i}]
  <2>1. Touch(i)[k] = s
    BY <1>4, TouchTypes
  <2>2. /\ s.at = edit[k].at /\ s.op = edit[k].op /\ s.of = edit[k].of /\ s.name = edit[k].name
        /\ s.doc = edit[k].doc /\ s.rev = edit[k].rev /\ s.touched = edit[k].touched \cup {i}
    BY <1>1 DEF EditStates
  <2> HIDE DEF s
  <2> QED
    BY <1>1, <1>2, <1>3, <1>4, <2>1, <2>2 DEF Ready, Current
<1>5. CASE ~(edit[k].at = "save" /\ edit[k].op # "validate")
  <2>1. Touch(i)[k] = edit[k]
    BY <1>5, TouchTypes
  <2> QED
    BY <1>1, <1>2, <1>5, <2>1 DEF Ready, Current
<1> QED
  BY <1>4, <1>5

LEMMA SaveValidationInv ==
  ASSUME VersionInv, NEW e \in Edits, SaveValidation(e)
  PROVE  VersionInv'
<1>1. CASE revision # edit[e].rev
  BY <1>1, Abandoned DEF SaveValidation
<1>2. CASE revision = edit[e].rev
  <2> DEFINE i == edit[e].of
             d == [version[i] EXCEPT !.validated = TRUE]
  <2>1. /\ edit[e].at = "save" /\ edit[e].op = "validate"
        /\ version' = [version EXCEPT ![i] = d]
        /\ vetted' = vetted \cup {i}
        /\ edit' = [Touch(i) EXCEPT ![e] = NoEdit]
        /\ UNCHANGED <<revision, added, served, forgiven>>
    BY <1>2 DEF SaveValidation
  <2>2. i \in VersionIds /\ version[i] # Absent
    <3>1. Ready(edit[e], version, revision)
      BY DEF VersionInv
    <3> QED
      BY <1>2, <2>1, <3>1 DEF Ready, Current, Same
  <2>3. version \in VersionDocuments /\ version[i] \in VersionRecords
    BY <2>2 DEF VersionInv, VersionTypes, VersionDocuments
  <2>4. d \in VersionRecords /\ d # Absent /\ d.downloads = version[i].downloads /\ d.validated = TRUE
    BY <2>3, AbsentIsNone DEF VersionRecords
  <2> HIDE DEF i, d
  <2>5. /\ version' \in VersionDocuments /\ version'[i] = d
        /\ \A j \in VersionIds : j # i => version'[j] = version[j]
    BY <2>1, <2>2, <2>3, <2>4 DEF VersionDocuments
  <2>6. VersionTypes'
    <3>1. edit' \in [Edits -> EditStates]
      BY <2>1, <2>2, TouchTypes, NoEditState
    <3> QED
      BY <2>1, <2>2, <2>5, <3>1 DEF VersionInv, VersionTypes
  <2>7. ASSUME NEW k \in Edits PROVE Ready(edit'[k], version', revision')
    <3>1. Touch(i) \in [Edits -> EditStates]
      BY <2>2, TouchTypes
    <3>2. edit'[k] = IF k = e THEN NoEdit ELSE Touch(i)[k]
      BY <2>1, <3>1
    <3>3. Ready(Touch(i)[k], version', revision)
      BY <2>2, <2>4, <2>5, TouchReady
    <3> QED
      BY <2>1, <3>2, <3>3, IdleReady
  <2>8. Kept(version)'
    BY <2>1, <2>2, <2>4, <2>5 DEF VersionInv, Kept
  <2> QED
    BY <2>6, <2>7, <2>8 DEF VersionInv
<1> QED
  BY <1>1, <1>2

LEMMA CountDownloadInv ==
  ASSUME VersionInv, NEW i \in VersionIds, CountDownload(i)
  PROVE  VersionInv'
<1> DEFINE d == [version[i] EXCEPT !.downloads = version[i].downloads + 1]
<1>1. /\ version' = [version EXCEPT ![i] = d]
      /\ served' = [served EXCEPT ![i] = served[i] + 1]
      /\ edit' = Touch(i)
      /\ UNCHANGED <<revision, added, vetted, forgiven>>
  BY DEF CountDownload
<1>2. version \in VersionDocuments /\ version[i] # Absent /\ version[i] \in VersionRecords /\ served[i] \in Nat
  BY DEF CountDownload, Present, VersionInv, VersionTypes, VersionDocuments
<1>3. /\ d \in VersionRecords /\ d # Absent
      /\ d.downloads = version[i].downloads + 1 /\ d.validated = version[i].validated
  BY <1>2, AbsentIsNone DEF VersionRecords
<1> HIDE DEF d
<1>4. /\ version' \in VersionDocuments /\ version'[i] = d
      /\ \A j \in VersionIds : j # i => version'[j] = version[j]
  BY <1>1, <1>2, <1>3 DEF VersionDocuments
<1>5. /\ served' \in [VersionIds -> Nat] /\ served'[i] = served[i] + 1
      /\ \A j \in VersionIds : j # i => served'[j] = served[j]
  BY <1>1, <1>2 DEF VersionInv, VersionTypes
<1>6. VersionTypes'
  BY <1>1, <1>4, <1>5, TouchTypes DEF VersionInv, VersionTypes
<1>7. \A k \in Edits : Ready(edit'[k], version', revision')
  BY <1>1, <1>2, <1>3, <1>4, TouchReady
<1>8. Kept(version)'
  <2> SUFFICES ASSUME NEW j \in VersionIds
               PROVE  /\ j \in added' \cup vetted' \/ served'[j] # 0 => version'[j] # Absent
                      /\ version'[j] # Absent /\ j \notin forgiven' =>
                           /\ version'[j].downloads = served'[j]
                           /\ j \in vetted' => version'[j].validated
    BY DEF Kept
  <2>1. /\ j \in added \cup vetted \/ served[j] # 0 => version[j] # Absent
        /\ version[j] # Absent /\ j \notin forgiven =>
             version[j].downloads = served[j] /\ (j \in vetted => version[j].validated)
    BY DEF VersionInv, Kept
  <2>2. CASE j # i
    BY <1>1, <1>4, <1>5, <2>1, <2>2
  <2>3. CASE j = i
    BY <1>1, <1>2, <1>3, <1>4, <1>5, <2>1, <2>3
  <2> QED
    BY <2>2, <2>3
<1> QED
  BY <1>6, <1>7, <1>8 DEF VersionInv

-----------------------------------------------------------------------------
LEMMA VersionStepInv ==
  ASSUME VersionInv, [VersionStep]_versionVars
  PROVE  VersionInv'
<1>1. ASSUME NEW e \in Edits, NEW n \in VersionNames, LoadToAdd(e, n) PROVE VersionInv'
  BY <1>1, LoadToAddInv
<1>2. ASSUME NEW e \in Edits, NEW n \in VersionNames, NEW i \in VersionIds,
             LoadToCheck(e, "update", i, n)
      PROVE  VersionInv'
  BY <1>2, LoadToCheckInv
<1>3. ASSUME NEW e \in Edits, NEW i \in VersionIds, LoadToCheck(e, "validate", i, Absent)
      PROVE  VersionInv'
  BY <1>3, LoadToCheckInv
<1>4. ASSUME NEW e \in Edits, LoadToUpdate(e) PROVE VersionInv'
  BY <1>4, LoadToUpdateInv
<1>5. ASSUME NEW e \in Edits, SaveArray(e) PROVE VersionInv'
  BY <1>5, SaveArrayInv
<1>6. ASSUME NEW e \in Edits, SaveValidation(e) PROVE VersionInv'
  BY <1>6, SaveValidationInv
<1>7. ASSUME NEW e \in Edits, EditFails(e) PROVE VersionInv'
  BY <1>7, Abandoned DEF EditFails
<1>8. ASSUME NEW i \in VersionIds, CountDownload(i) PROVE VersionInv'
  BY <1>8, CountDownloadInv
<1>9. CASE UNCHANGED versionVars
  BY <1>9 DEF versionVars, VersionInv, VersionTypes, Kept, Ready, Current
<1> QED
  BY <1>1, <1>2, <1>3, <1>4, <1>5, <1>6, <1>7, <1>8, <1>9 DEF VersionStep

LEMMA VersionInvKeeps == VersionInv => VersionsKept
<1> SUFFICES ASSUME VersionInv PROVE VersionsKept
  OBVIOUS
<1>1. Present(version) = {i \in VersionIds : version[i] # Absent}
  BY DEF VersionInv, VersionTypes, VersionDocuments, Present
<1> QED
  BY <1>1 DEF VersionInv, VersionTypes, Kept, VersionsKept, AddedVersionsStay, CountersKept

\* However many requests add, change and validate versions of a release at once, and die on
\* the way: a version that was added stays, and so do its downloads and its validation,
\* but for what a request that saves the array has overlapped with.
THEOREM NoVersionLost == VersionsSpec => []VersionsKept
<1>1. VersionInit => VersionInv
  BY VersionInitInv
<1>2. VersionInv /\ [VersionStep]_versionVars => VersionInv'
  BY VersionStepInv
<1> QED
  BY <1>1, <1>2, VersionInvKeeps, PTL DEF VersionsSpec

-----------------------------------------------------------------------------
(***************************************************************************)
(* The files of a version stay distinct, and have their builds.  A request *)
(* that saves at the revision it loaded saves the rows that were checked;  *)
(* the row it adds or changes is like none of them, or is excused as       *)
(* edited.  A build that is removed had no use when it was looked for, and *)
(* whoever has it in a file it is about to save excuses it as rushed.      *)
(***************************************************************************)
\* A row of the array, and one nobody has changed yet.
TableRows ==
  [file : TableIds, flavor : [orientation : {"fs", "ws", "any"}, lighting : {"day", "night", "any"}],
   compat : SUBSET Builds,
   picture : [type : {"playfield", "playfield-fs", "playfield-ws"},
              shape : {"portrait", "landscape", "square", "odd"}],
   edited : BOOLEAN]

NewRows == {row \in TableRows : ~row.edited}

DeskStates ==
  [at : {"idle", "load", "validate", "save", "remove"}, new : Seq(NewRows),
   had : SUBSET (TableIds \cup Builds), doc : Seq(TableRows), rev : Nat]

TableTypes ==
  /\ table \in Seq(TableRows)
  /\ tableRev \in Nat
  /\ build \subseteq Builds
  /\ desk \in [Editors -> DeskStates]
  /\ rushed \subseteq Builds

\* What a handler is going to do, if rows are the files of the release at revision rev and known
\* the builds that are there or have been: its new file has such builds; the document it saves
\* is the release, if that is at the revision it was loaded at, and has no file like a new one.
\* A build it is going to remove had no uses in the document.
Prepared(s, rows, rev, known) ==
  /\ s.at \in {"load", "validate", "save"} => rows # << >> /\ Len(s.new) = 1
  /\ s.at \in {"validate", "save"} =>
       /\ s.new[1].compat \subseteq known
       /\ s.rev <= rev
       /\ s.rev = rev => s.doc = rows
  /\ s.at = "save" /\ s.new[1].file \notin s.had => DupesOf(s.new[1], s.doc) = {}
  /\ s.at = "remove" => \E b \in Builds : s.had = {b} /\ UsersOf(s.doc, b) = {}

TableInv ==
  /\ TableTypes
  /\ \A h \in Editors : Prepared(desk[h], table, tableRev, build \cup rushed)
  /\ FlavorsDistinct
  /\ NoDanglingBuild

-----------------------------------------------------------------------------
LEMMA NewRowOfOffer ==
  ASSUME NEW f \in TableIds, NEW offer \in Offers, NEW compat, compat \subseteq Builds
  PROVE  Table(f, offer, compat) \in NewRows
BY TableAssumption DEF Table, NewRows, TableRows

LEMMA NobodyAtDesk ==
  /\ NoEditor \in DeskStates
  /\ \A rows, rev, known : Prepared(NoEditor, rows, rev, known)
BY DEF NoEditor, DeskStates, Prepared

LEMMA TableInitInv == TableInit => TableInv
<1> SUFFICES ASSUME TableInit PROVE TableInv
  OBVIOUS
<1>1. TableTypes
  BY NobodyAtDesk DEF TableInit, TableTypes
<1>2. \A h \in Editors : Prepared(desk[h], table, tableRev, build \cup rushed)
  BY NobodyAtDesk DEF TableInit
<1>3. FlavorsDistinct /\ NoDanglingBuild
  BY DEF TableInit, FlavorsDistinct, NoDanglingBuild, Indices
<1> QED
  BY <1>1, <1>2, <1>3 DEF TableInv

\* A handler goes on while the collections stay as they are.
LEMMA DeskStep ==
  ASSUME TableInv, NEW h \in Editors, NEW s \in DeskStates, Prepared(s, table, tableRev,
         build \cup rushed), desk' = [desk EXCEPT ![h] = s], UNCHANGED <<table, tableRev, build,
         rushed>>
  PROVE  TableInv'
<1>1. TableTypes'
  BY DEF TableInv, TableTypes
<1>3. \A k \in Editors : Prepared(desk'[k], table', tableRev', build' \cup rushed')
  BY DEF TableInv, TableTypes
<1>4. FlavorsDistinct' /\ NoDanglingBuild'
  BY DEF TableInv, FlavorsDistinct, NoDanglingBuild, Indices
<1> QED
  BY <1>1, <1>3, <1>4 DEF TableInv

LEMMA LeaveStep ==
  ASSUME TableInv, NEW h \in Editors, Leave(h), UNCHANGED <<table, tableRev, build, rushed>>
  PROVE  TableInv'
BY NobodyAtDesk, DeskStep DEF Leave

LEMMA CreateReleaseInv ==
  ASSUME TableInv, NEW row \in NewRows, CreateRelease(row)
  PROVE  TableInv'
<1>1. table' = <<row>> /\ table = << >> /\ row.compat \subseteq build /\ row \in TableRows
      /\ UNCHANGED <<tableRev, build, desk, rushed>>
  BY DEF CreateRelease, NewRows
<1>2. TableTypes'
  BY <1>1 DEF TableInv, TableTypes
<1>3. \A k \in Editors : Prepared(desk'[k], table', tableRev', build' \cup rushed')
  BY <1>1 DEF TableInv, TableTypes, DeskStates, Prepared
<1>4. FlavorsDistinct' /\ NoDanglingBuild'
  BY <1>1 DEF FlavorsDistinct, NoDanglingBuild, Indices
<1> QED
  BY <1>2, <1>3, <1>4 DEF TableInv

LEMMA LoadFilesInv ==
  ASSUME TableInv, NEW h \in Editors, NEW row \in NewRows, LoadFiles(h, row)
  PROVE  TableInv'
<1> DEFINE s == [NoEditor EXCEPT !.at = "load", !.had = FilesIn(table), !.new = <<row>>]
<1>1. FilesIn(table) \subseteq TableIds
  <2>1. \A i \in 1 .. Len(table) : table[i] \in TableRows
    BY DEF TableInv, TableTypes
  <2> QED
    BY <2>1 DEF FilesIn, Indices, TableRows
<1>2. s.at = "load" /\ s.new = <<row>>
  BY DEF NoEditor
<1>3. s \in DeskStates
  <2>1. <<row>> \in Seq(NewRows)
    OBVIOUS
  <2> QED
    BY <1>1, <2>1, NobodyAtDesk DEF DeskStates
<1>4. Prepared(s, table, tableRev, build \cup rushed)
  BY <1>2 DEF LoadFiles, Prepared
<1> QED
  BY <1>3, <1>4, DeskStep DEF LoadFiles

LEMMA LoadDocumentInv ==
  ASSUME TableInv, NEW h \in Editors, LoadDocument(h)
  PROVE  TableInv'
<1> DEFINE s == [desk[h] EXCEPT !.at = "validate", !.doc = table, !.rev = tableRev]
<1>1. CASE desk[h].new[1].compat \subseteq build
  <2>0. desk[h] \in DeskStates /\ table \in Seq(TableRows) /\ tableRev \in Nat
    BY DEF TableInv, TableTypes
  <2>1. s \in DeskStates /\ Prepared(s, table, tableRev, build \cup rushed)
    <3>1. s \in DeskStates
      BY <2>0 DEF DeskStates
    <3>2. s.at = "validate" /\ s.new = desk[h].new /\ s.doc = table /\ s.rev = tableRev
      BY <2>0 DEF DeskStates
    <3>3. table # << >> /\ Len(desk[h].new) = 1
      BY DEF LoadDocument, TableInv, Prepared
    <3> QED
      BY <1>1, <2>0, <3>1, <3>2, <3>3 DEF Prepared
  <2>2. desk' = [desk EXCEPT ![h] = s]
    BY <1>1 DEF LoadDocument, TableInv, TableTypes
  <2> QED
    BY <2>1, <2>2, DeskStep DEF LoadDocument
<1>2. CASE ~(desk[h].new[1].compat \subseteq build)
  BY <1>2, LeaveStep DEF LoadDocument
<1> QED
  BY <1>1, <1>2

LEMMA ValidateTablesInv ==
  ASSUME TableInv, NEW h \in Editors, ValidateTables(h)
  PROVE  TableInv'
<1> DEFINE s == [desk[h] EXCEPT !.at = "save"]
<1>1. CASE desk' = [desk EXCEPT ![h] = s]
           /\ (desk[h].new[1].file \in desk[h].had \/ DupesOf(desk[h].new[1], desk[h].doc) = {})
  <2>1. s \in DeskStates /\ Prepared(s, table, tableRev, build \cup rushed)
    BY <1>1 DEF ValidateTables, CheckTables, TableInv, TableTypes, DeskStates, Prepared
  <2> QED
    BY <1>1, <2>1, DeskStep DEF ValidateTables, CheckTables
<1>2. CASE Leave(h)
  BY <1>2, LeaveStep DEF ValidateTables, CheckTables
<1> QED
  BY <1>1, <1>2 DEF ValidateTables, CheckTables, TableInv, TableTypes

\* Rows of one flavor for the same builds are one, or one has been edited.
DistinctRows(rows) ==
  \A i, j \in DOMAIN rows :
    i # j /\ rows[i].flavor = rows[j].flavor /\ rows[i].compat = rows[j].compat
      => rows[i].edited \/ rows[j].edited

\* What is saved keeps the flavors apart and has no builds but those of the release and of the new file.
LEMMA SavedRows ==
  ASSUME TableInv, NEW h \in Editors, desk[h].at = "save", desk[h].rev = tableRev
  PROVE  /\ Edited(h) \in Seq(TableRows) /\ Edited(h) # << >>
         /\ DistinctRows(Edited(h))
         /\ \A i \in DOMAIN Edited(h) : Edited(h)[i].compat \subseteq build \cup rushed
<1> DEFINE row == desk[h].new[1]
           k == Min({i \in Indices(table) : table[i].file = row.file})
<1>1. desk[h] \in DeskStates /\ Prepared(desk[h], table, tableRev, build \cup rushed)
  BY DEF TableInv, TableTypes
<1>2. /\ row \in NewRows /\ desk[h].doc = table /\ table # << >> /\ table \in Seq(TableRows)
      /\ row.compat \subseteq build \cup rushed
      /\ row.file \notin desk[h].had => DupesOf(row, table) = {}
  BY <1>1 DEF TableInv, TableTypes, DeskStates, Prepared
<1>3. DistinctRows(table) /\ \A i \in DOMAIN table : table[i].compat \subseteq build \cup rushed
  BY <1>2 DEF TableInv, FlavorsDistinct, NoDanglingBuild, DistinctRows, Indices
<1>4. CASE row.file \in desk[h].had
  <2>1. Edited(h) = [table EXCEPT ![k] = [row EXCEPT !.edited = TRUE]]
    BY <1>2, <1>4 DEF Edited
  <2>2. [row EXCEPT !.edited = TRUE] \in TableRows /\ [row EXCEPT !.edited = TRUE].edited
        /\ [row EXCEPT !.edited = TRUE].compat = row.compat
    BY <1>2 DEF NewRows, TableRows
  <2> HIDE DEF k
  <2>3. Edited(h) \in Seq(TableRows) /\ Edited(h) # << >> /\ DOMAIN Edited(h) = DOMAIN table
    <3>1. CASE k \in 1 .. Len(table)
      BY <1>2, <2>1, <2>2, <3>1, ExceptSeq
    <3>2. CASE k \notin 1 .. Len(table)
      <4>1. table = [i \in 1 .. Len(table) |-> table[i]]
        BY <1>2
      <4>2. Edited(h) = table
        BY <2>1, <3>2, <4>1
      <4> QED
        BY <1>2, <4>2
    <3> QED
      BY <3>1, <3>2
  <2>4. \A i \in DOMAIN table : Edited(h)[i] = IF i = k THEN [row EXCEPT !.edited = TRUE] ELSE table[i]
    BY <1>2, <2>1
  <2> QED
    BY <1>2, <1>3, <2>2, <2>3, <2>4 DEF DistinctRows
<1>5. CASE row.file \notin desk[h].had
  <2>1. Edited(h) = Append(table, row) /\ row \in TableRows
    BY <1>2, <1>5 DEF Edited, NewRows
  <2>2. \A i \in DOMAIN table : ~(table[i].flavor = row.flavor /\ table[i].compat = row.compat)
    BY <1>2, <1>5 DEF DupesOf, Indices
  <2>3. /\ DOMAIN Edited(h) = DOMAIN table \cup {Len(table) + 1}
        /\ \A i \in DOMAIN table : i # Len(table) + 1 /\ Edited(h)[i] = table[i]
        /\ Edited(h)[Len(table) + 1] = row
    BY <1>2, <2>1
  <2>4. Edited(h) \in Seq(TableRows) /\ Edited(h) # << >>
    BY <1>2, <2>1
  <2> QED
    BY <1>2, <1>3, <2>2, <2>3, <2>4 DEF DistinctRows
<1> QED
  BY <1>4, <1>5

LEMMA SaveTablesInv ==
  ASSUME TableInv, NEW h \in Editors, SaveTables(h)
  PROVE  TableInv'
<1>1. CASE desk[h].rev = tableRev
  <2>1. /\ table' = Edited(h) /\ tableRev' = tableRev + 1 /\ UNCHANGED <<build, rushed>>
        /\ desk' = [desk EXCEPT ![h] = NoEditor]
    BY <1>1 DEF SaveTables, Leave
  <2>2. /\ table' \in Seq(TableRows) /\ table' # << >> /\ DistinctRows(table')
        /\ \A i \in DOMAIN table' : table'[i].compat \subseteq build \cup rushed
    BY <1>1, <2>1, SavedRows DEF SaveTables
  <2>3. TableTypes'
    BY <2>1, <2>2, NobodyAtDesk DEF TableInv, TableTypes
  <2>4. ASSUME NEW k \in Editors PROVE Prepared(desk'[k], table', tableRev', build' \cup rushed')
    <3>1. CASE k = h
      BY <2>1, <3>1, NobodyAtDesk DEF TableInv, TableTypes
    <3>2. CASE k # h
      <4>1. desk'[k] = desk[k] /\ desk[k].rev \in Nat /\ tableRev \in Nat
        BY <2>1, <3>2 DEF TableInv, TableTypes, DeskStates
      <4>2. Prepared(desk[k], table, tableRev, build \cup rushed)
        BY DEF TableInv
      <4>3. build' \cup rushed' = build \cup rushed /\ tableRev' = tableRev + 1 /\ table' # << >>
        BY <2>1, <2>2
      <4>4. desk[k].at \in {"validate", "save"} => desk[k].rev <= tableRev' /\ desk[k].rev # tableRev'
        BY <4>1, <4>2, <4>3 DEF Prepared
      <4> QED
        BY <4>1, <4>2, <4>3, <4>4 DEF Prepared
    <3> QED
      BY <3>1, <3>2
  <2>5. FlavorsDistinct' /\ NoDanglingBuild'
    BY <2>1, <2>2 DEF FlavorsDistinct, NoDanglingBuild, DistinctRows, Indices
  <2> QED
    BY <2>3, <2>4, <2>5 DEF TableInv
<1>2. CASE desk[h].rev # tableRev
  BY <1>2, LeaveStep DEF SaveTables
<1> QED
  BY <1>1, <1>2

LEMMA FindUsesInv ==
  ASSUME TableInv, NEW h \in Editors, NEW b \in Builds, FindUses(h, b)
  PROVE  TableInv'
<1> DEFINE s == [NoEditor EXCEPT !.at = "remove", !.had = {b}, !.doc = table]
<1>1. s.at = "remove" /\ s.had = {b} /\ s.doc = table
  BY DEF NoEditor
<1>2. s \in DeskStates
  BY NobodyAtDesk DEF DeskStates, TableInv, TableTypes
<1>3. Prepared(s, table, tableRev, build \cup rushed)
  BY <1>1 DEF FindUses, Prepared
<1> QED
  BY <1>2, <1>3, DeskStep DEF FindUses

\* A build that is removed without a race is not referred to: the document in which its uses
\* were looked for is the release.
LEMMA RemoveBuildInv ==
  ASSUME TableInv, NEW h \in Editors, RemoveBuild(h)
  PROVE  TableInv'
<1>1. PICK b \in Builds : desk[h].had = {b} /\ UsersOf(desk[h].doc, b) = {}
  BY DEF RemoveBuild, TableInv, Prepared
<1>2. /\ build' = build \ {b} /\ UNCHANGED <<table, tableRev>>
      /\ desk' = [desk EXCEPT ![h] = NoEditor]
      /\ rushed' = IF {k \in Editors : desk[k].at \in {"validate", "save"}} # {} \/ desk[h].doc # table
                   THEN rushed \cup {b} ELSE rushed
  BY <1>1 DEF RemoveBuild, Leave
<1>3. CASE rushed' = rushed \cup {b}
  <2>1. build \cup rushed \subseteq build' \cup rushed'
    BY <1>2, <1>3
  <2>2. TableTypes'
    BY <1>2, <1>3, NobodyAtDesk DEF TableInv, TableTypes
  <2>3. ASSUME NEW k \in Editors PROVE Prepared(desk'[k], table', tableRev', build' \cup rushed')
    <3>1. CASE k = h
      BY <1>2, <3>1, NobodyAtDesk DEF TableInv, TableTypes
    <3>2. CASE k # h
      BY <1>2, <2>1, <3>2 DEF TableInv, TableTypes, Prepared
    <3> QED
      BY <3>1, <3>2
  <2>4. FlavorsDistinct' /\ NoDanglingBuild'
    BY <1>2, <2>1 DEF TableInv, FlavorsDistinct, NoDanglingBuild, Indices
  <2> QED
    BY <2>2, <2>3, <2>4 DEF TableInv
<1>4. CASE /\ rushed' = rushed /\ desk[h].doc = table
           /\ \A k \in Editors : desk[k].at \notin {"validate", "save"}
  <2>1. TableTypes'
    BY <1>2, <1>4, NobodyAtDesk DEF TableInv, TableTypes
  <2>2. ASSUME NEW k \in Editors PROVE Prepared(desk'[k], table', tableRev', build' \cup rushed')
    <3>1. CASE k = h
      BY <1>2, <3>1, NobodyAtDesk DEF TableInv, TableTypes
    <3>2. CASE k # h
      BY <1>2, <1>4, <3>2 DEF TableInv, TableTypes, Prepared
    <3> QED
      BY <3>1, <3>2
  <2>3. \A i \in Indices(table) : b \notin table[i].compat
    BY <1>1, <1>4 DEF UsersOf
  <2>4. FlavorsDistinct' /\ NoDanglingBuild'
    BY <1>2, <1>4, <2>3 DEF TableInv, FlavorsDistinct, NoDanglingBuild, Indices
  <2> QED
    BY <2>1, <2>2, <2>4 DEF TableInv
<1> QED
  BY <1>2, <1>3, <1>4

LEMMA TableStepInv == TableInv /\ [TableStep]_tableVars => TableInv'
<1> SUFFICES ASSUME TableInv, [TableStep]_tableVars PROVE TableInv'
  OBVIOUS
<1>1. ASSUME NEW f \in TableIds, NEW offer \in Offers, NEW compat \in Compats,
             CreateRelease(Table(f, offer, compat))
      PROVE  TableInv'
  <2>1. compat \subseteq Builds
    BY <1>1 DEF CreateRelease, Table, TableInv, TableTypes
  <2> QED
    BY <1>1, <2>1, NewRowOfOffer, CreateReleaseInv
<1>2. ASSUME NEW f \in TableIds, NEW offer \in Offers, NEW compat \in Compats, NEW h \in Editors,
             LoadFiles(h, Table(f, offer, compat))
      PROVE  TableInv'
  <2>1. compat \subseteq Builds
    BY <1>2 DEF LoadFiles, Table, TableInv, TableTypes
  <2> QED
    BY <1>2, <2>1, NewRowOfOffer, LoadFilesInv
<1>3. ASSUME NEW h \in Editors, LoadDocument(h) \/ ValidateTables(h) \/ SaveTables(h) \/ RemoveBuild(h)
      PROVE  TableInv'
  BY <1>3, LoadDocumentInv, ValidateTablesInv, SaveTablesInv, RemoveBuildInv
<1>4. ASSUME NEW h \in Editors, NEW b \in Builds, FindUses(h, b) PROVE TableInv'
  BY <1>4, FindUsesInv
<1>5. CASE UNCHANGED tableVars
  BY <1>5 DEF tableVars, TableInv, TableTypes, Prepared, FlavorsDistinct, NoDanglingBuild, Indices
<1> QED
  BY <1>1, <1>2, <1>3, <1>4, <1>5 DEF TableStep

\* However many requests add and change files at once, and however many builds are removed
\* meanwhile: no two files of the version are the same, but where an update changed one, and
\* the builds of a file exist, but those removed while it was being saved.
THEOREM FlavorsStayDistinct == TableSpec => []TablesConsistent
<1>1. TableInv => TablesConsistent
  BY DEF TableInv, TablesConsistent
<1> QED
  BY TableInitInv, TableStepInv, <1>1, PTL DEF TableSpec

-----------------------------------------------------------------------------
(***************************************************************************)
(* What is shown of a release.  The pictures of its files fit, as those a  *)
(* request is about to save do; and the heaviest file is as asked for,     *)
(* since what is asked for outweighs all that is not, the first of two the *)
(* second, and both the defaults.                                          *)
(***************************************************************************)
\* The files of the release, and those a request is about to save, have a picture that fits.
FitInv ==
  /\ \A i \in DOMAIN table : Fits(table[i])
  /\ \A h \in Editors :
       /\ desk[h].at \in {"validate", "save"} => \A i \in DOMAIN desk[h].doc : Fits(desk[h].doc[i])
       /\ desk[h].at = "save" => Fits(desk[h].new[1])

LEMMA FitDesk ==
  ASSUME TableInv, FitInv, UNCHANGED table, NEW h \in Editors, NEW s, desk' = [desk EXCEPT ![h] = s],
         s.at \in {"validate", "save"} => \A i \in DOMAIN s.doc : Fits(s.doc[i]),
         s.at = "save" => Fits(s.new[1])
  PROVE  FitInv'
<1>1. \A k \in Editors : desk'[k] = IF k = h THEN s ELSE desk[k]
  BY DEF TableInv, TableTypes
<1> QED
  BY <1>1 DEF FitInv

LEMMA FitLeave ==
  ASSUME TableInv, FitInv, UNCHANGED table, NEW h \in Editors, Leave(h)
  PROVE  FitInv'
<1>1. desk' = [desk EXCEPT ![h] = NoEditor] /\ NoEditor.at = "idle"
  BY DEF Leave, NoEditor
<1> QED
  BY <1>1, FitDesk

LEMMA FitSaved ==
  ASSUME TableInv, FitInv, NEW h \in Editors, desk[h].at = "save", desk[h].rev = tableRev
  PROVE  \A i \in DOMAIN Edited(h) : Fits(Edited(h)[i])
<1> DEFINE row == desk[h].new[1]
           k == Min({i \in Indices(table) : table[i].file = row.file})
<1>1. desk[h] \in DeskStates /\ Prepared(desk[h], table, tableRev, build \cup rushed)
  BY DEF TableInv, TableTypes
<1>2. row \in NewRows /\ desk[h].doc = table /\ table \in Seq(TableRows) /\ Fits(row)
  BY <1>1 DEF TableInv, TableTypes, DeskStates, Prepared, FitInv
<1>3. \A i \in DOMAIN table : Fits(table[i])
  BY DEF FitInv
<1>4. CASE row.file \in desk[h].had
  <2>1. Edited(h) = [table EXCEPT ![k] = [row EXCEPT !.edited = TRUE]]
    BY <1>2, <1>4 DEF Edited
  <2>2. Fits([row EXCEPT !.edited = TRUE])
    BY <1>2 DEF Fits, NewRows, TableRows
  <2> HIDE DEF k
  <2> QED
    BY <1>2, <1>3, <2>1, <2>2
<1>5. CASE row.file \notin desk[h].had
  BY <1>2, <1>3, <1>5 DEF Edited
<1> QED
  BY <1>4, <1>5

LEMMA FitStep == TableInv /\ FitInv /\ [TableStep]_tableVars => FitInv'
<1> SUFFICES ASSUME TableInv, FitInv, [TableStep]_tableVars PROVE FitInv'
  OBVIOUS
<1>0. /\ desk \in [Editors -> DeskStates]
      /\ \A h \in Editors : desk[h] \in DeskStates /\ Prepared(desk[h], table, tableRev, build \cup rushed)
  BY DEF TableInv, TableTypes
<1>1. ASSUME NEW row, CreateRelease(row) PROVE FitInv'
  BY <1>1 DEF CreateRelease, FitInv
<1>2. ASSUME NEW h \in Editors, NEW row, LoadFiles(h, row) PROVE FitInv'
  <2> DEFINE s == [NoEditor EXCEPT !.at = "load", !.had = FilesIn(table), !.new = <<row>>]
  <2>1. desk' = [desk EXCEPT ![h] = s] /\ UNCHANGED table /\ s.at = "load"
    BY <1>2 DEF LoadFiles, NoEditor
  <2> HIDE DEF s
  <2> QED
    BY <2>1, FitDesk
<1>3. ASSUME NEW h \in Editors, LoadDocument(h) PROVE FitInv'
  <2> DEFINE s == [desk[h] EXCEPT !.at = "validate", !.doc = table, !.rev = tableRev]
  <2>1. CASE desk' = [desk EXCEPT ![h] = s]
    <3>1. s.at = "validate" /\ s.doc = table /\ UNCHANGED table
      BY <1>0, <1>3 DEF DeskStates, LoadDocument
    <3>2. \A i \in DOMAIN s.doc : Fits(s.doc[i])
      BY <3>1 DEF FitInv
    <3> HIDE DEF s
    <3> QED
      BY <2>1, <3>1, <3>2, FitDesk
  <2>2. CASE Leave(h)
    BY <1>3, <2>2, FitLeave DEF LoadDocument
  <2> QED
    BY <1>0, <1>3, <2>1, <2>2 DEF LoadDocument
<1>4. ASSUME NEW h \in Editors, ValidateTables(h) PROVE FitInv'
  <2> DEFINE s == [desk[h] EXCEPT !.at = "save"]
  <2>1. UNCHANGED table /\ desk[h].at = "validate"
    BY <1>4 DEF ValidateTables, CheckTables
  <2>2. CASE desk' = [desk EXCEPT ![h] = s] /\ Fits(desk[h].new[1])
    <3>1. s.at = "save" /\ s.doc = desk[h].doc /\ s.new = desk[h].new
      BY <1>0 DEF DeskStates
    <3>2. \A i \in DOMAIN s.doc : Fits(s.doc[i])
      BY <2>1, <3>1 DEF FitInv
    <3> HIDE DEF s
    <3> QED
      BY <2>1, <2>2, <3>1, <3>2, FitDesk
  <2>3. CASE Leave(h)
    BY <2>1, <2>3, FitLeave
  <2> QED
    BY <1>0, <1>4, <2>2, <2>3 DEF ValidateTables, CheckTables
<1>5. ASSUME NEW h \in Editors, SaveTables(h) PROVE FitInv'
  <2>1. CASE desk[h].rev = tableRev
    <3>1. \A i \in DOMAIN table' : Fits(table'[i])
      BY <1>5, <2>1, FitSaved DEF SaveTables
    <3>2. \A k \in Editors : desk'[k] = IF k = h THEN NoEditor ELSE desk[k]
      BY <1>0, <1>5 DEF SaveTables, Leave
    <3> QED
      BY <3>1, <3>2 DEF FitInv, NoEditor
  <2>2. CASE desk[h].rev # tableRev
    BY <1>5, <2>2, FitLeave DEF SaveTables
  <2> QED
    BY <2>1, <2>2
<1>6. ASSUME NEW h \in Editors, NEW b, FindUses(h, b) PROVE FitInv'
  <2> DEFINE s == [NoEditor EXCEPT !.at = "remove", !.had = {b}, !.doc = table]
  <2>1. desk' = [desk EXCEPT ![h] = s] /\ UNCHANGED table /\ s.at = "remove"
    BY <1>6 DEF FindUses, NoEditor
  <2> HIDE DEF s
  <2> QED
    BY <2>1, FitDesk
<1>7. ASSUME NEW h \in Editors, RemoveBuild(h) PROVE FitInv'
  BY <1>7, FitLeave DEF RemoveBuild
<1>8. CASE UNCHANGED tableVars
  BY <1>8 DEF tableVars, FitInv
<1> QED
  BY <1>1, <1>2, <1>3, <1>4, <1>5, <1>6, <1>7, <1>8 DEF TableStep

-----------------------------------------------------------------------------
\* What is asked for: each sort of flavor once.
AskedOf(asked, names) ==
  /\ asked \in Seq({"orientation", "lighting"} \X {"fs", "ws", "day", "night"}) /\ Len(asked) <= 2
  /\ DOMAIN asked = 1 .. Len(asked)
  /\ names \in {<<"orientation", "lighting">>, <<"lighting", "orientation">>}
  /\ \A n \in DOMAIN asked : /\ asked[n][1] = names[n]
                             /\ asked[n][2] \in {"fs", "ws"} => names[n] = "orientation"
  /\ asked = <<>> => names = <<"orientation", "lighting">>

LEMMA PairOfSeqs ==
  ASSUME NEW a, NEW b
  PROVE  <<a>> \o <<b>> = <<a, b>>
<1> DEFINE c == <<a>> \o <<b>>
<1>1. <<a>> \in Seq({a, b}) /\ <<b>> \in Seq({a, b}) /\ <<a, b>> \in Seq({a, b})
  OBVIOUS
<1>2. Len(c) = 2 /\ c \in Seq({a, b}) /\ c[1] = a /\ c[2] = b
  BY <1>1
<1> HIDE DEF c
<1>3. c = <<a, b>>
  BY <1>1, <1>2, SeqEqual
<1> QED
  BY <1>3 DEF c

LEMMA NothingJoined ==
  ASSUME NEW a, NEW b
  PROVE  /\ << >> \o <<a>> = <<a>> /\ <<a>> \o << >> = <<a>>
         /\ <<a, b>> \o << >> = <<a, b>>
<1>1. <<a>> \in Seq({a}) /\ <<a, b>> \in Seq({a, b})
  OBVIOUS
<1> QED
  BY <1>1, ConcatEmptySeq

LEMMA NamesOfRequest ==
  ASSUME NEW asked \in Requests
  PROVE  AskedOf(asked, FlavorNames(asked))
<1> DEFINE sorts == {"orientation", "lighting"}
           pairs == sorts \X {"fs", "ws", "day", "night"}
<1>1. CASE asked = << >>
  <2>1. [i \in DOMAIN asked |-> asked[i][1]] = << >> /\ Sorts(asked) = {}
    BY <1>1 DEF Sorts
  <2>2. FlavorNames(asked) = << >> \o <<"orientation">> \o <<"lighting">>
    BY <2>1 DEF FlavorNames
  <2>3. << >> \o <<"orientation">> \o <<"lighting">> = <<"orientation", "lighting">>
    BY PairOfSeqs, NothingJoined
  <2> QED
    BY <1>1, <2>2, <2>3 DEF AskedOf
<1>2. ASSUME NEW s \in sorts, NEW v \in {"fs", "ws", "day", "night"}, v \in {"fs", "ws"} => s = "orientation", asked = <<<<s, v>>>>
      PROVE  AskedOf(asked, FlavorNames(asked))
  <2>1. [i \in DOMAIN asked |-> asked[i][1]] = <<s>> /\ Sorts(asked) = {s}
    BY <1>2 DEF Sorts
  <2>2. CASE s = "orientation"
    <3>1. FlavorNames(asked) = <<s>> \o << >> \o <<"lighting">>
      BY <2>1, <2>2 DEF FlavorNames
    <3>2. <<s>> \o << >> \o <<"lighting">> = <<"orientation", "lighting">>
      BY <2>2, PairOfSeqs, NothingJoined
    <3> QED
      BY <1>2, <2>2, <3>1, <3>2 DEF AskedOf
  <2>3. CASE s = "lighting"
    <3>1. FlavorNames(asked) = <<s>> \o <<"orientation">> \o << >>
      BY <2>1, <2>3 DEF FlavorNames
    <3>2. <<s>> \o <<"orientation">> \o << >> = <<"lighting", "orientation">>
      BY <2>3, PairOfSeqs, NothingJoined
    <3> QED
      BY <1>2, <2>3, <3>1, <3>2 DEF AskedOf
  <2> QED
    BY <2>2, <2>3
<1>3. ASSUME NEW s \in sorts, NEW v \in {"fs", "ws", "day", "night"}, v \in {"fs", "ws"} => s = "orientation",
             NEW t \in sorts, NEW w \in {"fs", "ws", "day", "night"}, w \in {"fs", "ws"} => t = "orientation",
             s # t, asked = <<<<s, v>>, <<t, w>>>>
      PROVE  AskedOf(asked, FlavorNames(asked))
  <2>1. [i \in DOMAIN asked |-> asked[i][1]] = <<s, t>> /\ Sorts(asked) = {s, t}
    BY <1>3 DEF Sorts
  <2>2. FlavorNames(asked) = <<s, t>> \o << >> \o << >>
    BY <1>3, <2>1 DEF FlavorNames
  <2>3. <<s, t>> \o << >> \o << >> = <<s, t>> /\ <<s, t>> \in {<<"orientation", "lighting">>, <<"lighting", "orientation">>}
    BY <1>3
  <2> QED
    BY <1>3, <2>2, <2>3 DEF AskedOf
<1> QED
  BY <1>1, <1>2, <1>3 DEF Requests

LEMMA WeightOfBoth ==
  ASSUME NEW flavor, NEW asked, NEW u \in Nat, NEW v \in Nat, DOMAIN FlavorNames(asked) = {1, 2},
         SortWeight(flavor, asked, 1) = u, SortWeight(flavor, asked, 2) = v
  PROVE  Weight(flavor, asked) = u + v
<1> DEFINE pick(s) == CHOOSE n \in s : TRUE
           step(g) == [s \in SUBSET {1, 2} |->
                         IF s = {} THEN 0 ELSE SortWeight(flavor, asked, pick(s)) + g[s \ {pick(s)}]]
           sum == CHOOSE g : g = step(g)
           both == [s \in SUBSET {1, 2} |-> (IF 1 \in s THEN u ELSE 0) + (IF 2 \in s THEN v ELSE 0)]
<1>1. Weight(flavor, asked) = sum[{1, 2}]
  BY DEF Weight, MapThenSumSet, MapThenFoldSet
<1>2. \A s \in SUBSET {1, 2} : s # {} => pick(s) \in s
  OBVIOUS
<1> HIDE DEF pick
<1>3. both = step(both)
  <2> SUFFICES ASSUME NEW s \in SUBSET {1, 2}, s # {}
               PROVE  both[s] = SortWeight(flavor, asked, pick(s)) + both[s \ {pick(s)}]
    BY both[{}] = 0
  <2>1. CASE pick(s) = 1
    BY <1>2, <2>1
  <2>2. CASE pick(s) = 2
    BY <1>2, <2>2
  <2> QED
    BY <1>2, <2>1, <2>2
<1>4. sum = step(sum)
  <2> HIDE DEF step, both
  <2> QED
    BY <1>3
<1> HIDE DEF sum
<1>5. /\ sum[{}] = 0
      /\ \A s \in SUBSET {1, 2} : s # {} => sum[s] = SortWeight(flavor, asked, pick(s)) + sum[s \ {pick(s)}]
  BY <1>4
<1>6. sum[{1}] = u /\ sum[{2}] = v
  <2>1. pick({1}) = 1 /\ pick({2}) = 2 /\ {1} \ {1} = {} /\ {2} \ {2} = {}
    BY <1>2
  <2>2. sum[{1}] = SortWeight(flavor, asked, 1) + sum[{}] /\ sum[{2}] = SortWeight(flavor, asked, 2) + sum[{}]
    <3>1. /\ sum[{1}] = SortWeight(flavor, asked, pick({1})) + sum[{1} \ {pick({1})}]
          /\ sum[{2}] = SortWeight(flavor, asked, pick({2})) + sum[{2} \ {pick({2})}]
      BY <1>5
    <3> HIDE DEF step
    <3> QED
      BY <2>1, <3>1
  <2> QED
    BY <1>5, <2>2
<1>7. sum[{1, 2}] = u + v
  <2>1. pick({1, 2}) \in {1, 2} /\ {1, 2} \ {1} = {2} /\ {1, 2} \ {2} = {1}
    BY <1>2
  <2>2. sum[{1, 2}] = SortWeight(flavor, asked, pick({1, 2})) + sum[{1, 2} \ {pick({1, 2})}]
    BY <1>5
  <2> HIDE DEF step
  <2>3. CASE pick({1, 2}) = 1
    <3>1. sum[{1, 2}] = SortWeight(flavor, asked, 1) + sum[{2}]
      BY <2>1, <2>2, <2>3
    <3> QED
      BY <1>6, <3>1
  <2>4. CASE pick({1, 2}) = 2
    <3>1. sum[{1, 2}] = SortWeight(flavor, asked, 2) + sum[{1}]
      BY <2>1, <2>2, <2>4
    <3> QED
      BY <1>6, <3>1
  <2> QED
    BY <2>1, <2>3, <2>4
<1> QED
  BY <1>1, <1>7

\* The weights of the first and the second sort, asked for and as the default has it.
AskedFirst == 10 ^ 9
AskedSecond == 10 ^ 6
DefaultFirst == 10 ^ 3
DefaultSecond == 10 ^ 2

LEMMA PowersOfTen ==
  /\ AskedFirst \in Nat /\ AskedSecond \in Nat /\ DefaultFirst \in Nat /\ DefaultSecond \in Nat
  /\ AskedFirst > AskedSecond + DefaultFirst
  /\ AskedSecond > DefaultSecond /\ DefaultSecond > 0 /\ DefaultFirst > 0
BY SMT DEF AskedFirst, AskedSecond, DefaultFirst, DefaultSecond

\* What the two sorts of flavor weigh.
LEMMA Weights ==
  ASSUME NEW flavor, NEW asked, NEW names, names = FlavorNames(asked), AskedOf(asked, names)
  PROVE  \E u \in {AskedFirst, DefaultFirst, 0}, v \in {AskedSecond, DefaultSecond, 0} :
           /\ Weight(flavor, asked) = u + v
           /\ u = AskedFirst <=> 1 \in DOMAIN asked /\ asked[1][2] = flavor[names[1]]
           /\ v = AskedSecond <=> 2 \in DOMAIN asked /\ asked[2][2] = flavor[names[2]]
           /\ asked = << >> => /\ u = DefaultFirst <=> flavor[names[1]] = DefaultFlavor[names[1]]
                               /\ v = DefaultSecond <=> flavor[names[2]] = DefaultFlavor[names[2]]
<1>1. Len(names) = 2 /\ DOMAIN names = {1, 2}
  BY DEF AskedOf
<1> DEFINE u == IF 1 \in DOMAIN asked /\ asked[1][2] = flavor[names[1]] THEN AskedFirst
                ELSE IF flavor[names[1]] = DefaultFlavor[names[1]] THEN DefaultFirst ELSE 0
           v == IF 2 \in DOMAIN asked /\ asked[2][2] = flavor[names[2]] THEN AskedSecond
                ELSE IF flavor[names[2]] = DefaultFlavor[names[2]] THEN DefaultSecond ELSE 0
<1>2. SortWeight(flavor, asked, 1) = u
  <2>2. Len(names) + 2 - 1 = 3 /\ MatchExponent(3, TRUE) = 9 /\ MatchExponent(3, FALSE) = 3
    BY <1>1 DEF MatchExponent
  <2>3. SortWeight(flavor, asked, 1) = IF 1 \in DOMAIN asked /\ asked[1][2] = flavor[names[1]] THEN 10 ^ 9
                                       ELSE IF flavor[names[1]] = DefaultFlavor[names[1]] THEN 10 ^ 3 ELSE 0
    BY <2>2 DEF SortWeight
  <2> QED
    BY <2>3 DEF AskedFirst, AskedSecond, DefaultFirst, DefaultSecond
<1>3. SortWeight(flavor, asked, 2) = v
  <2>2. Len(names) + 2 - 2 = 2 /\ MatchExponent(2, TRUE) = 6 /\ MatchExponent(2, FALSE) = 2
    BY <1>1 DEF MatchExponent
  <2>3. SortWeight(flavor, asked, 2) = IF 2 \in DOMAIN asked /\ asked[2][2] = flavor[names[2]] THEN 10 ^ 6
                                       ELSE IF flavor[names[2]] = DefaultFlavor[names[2]] THEN 10 ^ 2 ELSE 0
    BY <2>2 DEF SortWeight
  <2> QED
    BY <2>3 DEF AskedFirst, AskedSecond, DefaultFirst, DefaultSecond
<1>4. u \in {AskedFirst, DefaultFirst, 0} /\ v \in {AskedSecond, DefaultSecond, 0}
  OBVIOUS
<1>5. Weight(flavor, asked) = u + v
  <2>1. u \in Nat /\ v \in Nat
    BY <1>4, PowersOfTen
  <2> HIDE DEF u, v
  <2> QED
    BY <1>1, <1>2, <1>3, <2>1, WeightOfBoth
<1>6. /\ u = AskedFirst <=> 1 \in DOMAIN asked /\ asked[1][2] = flavor[names[1]]
      /\ v = AskedSecond <=> 2 \in DOMAIN asked /\ asked[2][2] = flavor[names[2]]
  BY PowersOfTen
<1>7. asked = << >> => /\ u = DefaultFirst <=> flavor[names[1]] = DefaultFlavor[names[1]]
                       /\ v = DefaultSecond <=> flavor[names[2]] = DefaultFlavor[names[2]]
  BY PowersOfTen
<1> HIDE DEF u, v
<1> QED
  BY <1>4, <1>5, <1>6, <1>7

LEMMA LeastOf ==
  ASSUME NEW S \in SUBSET Nat, S # {}
  PROVE  \E n \in S : \A m \in S : n <= m
<1>1. PICK n \in S : \A m \in S : <<m, n>> \notin OpToRel(<, Nat)
  BY NatLessThanWellFounded, WFMin
<1>2. \A m \in S : ~(m < n)
  BY <1>1 DEF OpToRel
<1> QED
  BY <1>2

\* The file whose picture is shown is one of the heaviest.
LEMMA ThumbIsHeaviest ==
  ASSUME TableInv, table # << >>, NEW asked \in Requests
  PROVE  \E k \in Indices(table) : /\ ThumbOf(asked) = table[k]
                                   /\ \A j \in Indices(table) : Weight(table[k].flavor, asked) >= Weight(table[j].flavor, asked)
<1> DEFINE weights == [i \in Indices(table) |-> Weight(table[i].flavor, asked)]
           best == {i \in Indices(table) : \A j \in Indices(table) : weights[i] >= weights[j]}
           gaps == {(AskedFirst + AskedSecond) - weights[i] : i \in Indices(table)}
<1>1. \A i \in Indices(table) : weights[i] \in 0 .. (AskedFirst + AskedSecond)
  <2> SUFFICES ASSUME NEW i \in Indices(table) PROVE Weight(table[i].flavor, asked) \in 0 .. (AskedFirst + AskedSecond)
    OBVIOUS
  <2>1. PICK u \in {AskedFirst, DefaultFirst, 0}, v \in {AskedSecond, DefaultSecond, 0} : Weight(table[i].flavor, asked) = u + v
    BY NamesOfRequest, Weights
  <2> QED
    BY <2>1, PowersOfTen
<1>2. 1 \in Indices(table)
  BY DEF TableInv, TableTypes, Indices
<1> HIDE DEF weights
<1>3. gaps \in SUBSET Nat /\ gaps # {}
  BY <1>1, <1>2, PowersOfTen
<1>4. PICK gap \in gaps : \A other \in gaps : gap <= other
  <2> HIDE DEF gaps
  <2> QED
    BY <1>3, LeastOf
<1>5. PICK i \in Indices(table) : gap = (AskedFirst + AskedSecond) - weights[i]
  BY <1>4
<1>6. \A j \in Indices(table) : weights[i] >= weights[j]
  <2> SUFFICES ASSUME NEW j \in Indices(table) PROVE weights[i] >= weights[j]
    OBVIOUS
  <2>1. gap <= (AskedFirst + AskedSecond) - weights[j]
    BY <1>4
  <2>2. weights[i] \in 0 .. AskedFirst + AskedSecond /\ weights[j] \in 0 .. AskedFirst + AskedSecond
    BY <1>1
  <2> QED
    BY <1>5, <2>1, <2>2, PowersOfTen
<1>7. best \in SUBSET Nat /\ best # {}
  BY <1>6 DEF Indices
<1>8. Min(best) \in best
  <2> HIDE DEF best
  <2>1. \E n \in best : \A m \in best : n <= m
    BY <1>7, LeastOf
  <2> QED
    BY <2>1 DEF Min
<1>9. ThumbOf(asked) = table[Min(best)]
  BY DEF ThumbOf, weights
<1> DEFINE k == Min(best)
<1> HIDE DEF k
<1>10. k \in best /\ ThumbOf(asked) = table[k]
  BY <1>8, <1>9 DEF k
<1> QED
  BY <1>10 DEF weights

\* The heaviest file is as asked for, if there is one that is, and of the first sort in any case.
LEMMA ThumbAsAsked ==
  ASSUME TableInv, table # << >>, NEW asked \in Requests
  PROVE  /\ (\E i \in Indices(table) : Matches(table[i].flavor, asked)) => Matches(ThumbOf(asked).flavor, asked)
         /\ asked # << >> /\ (\E i \in Indices(table) : Matches(table[i].flavor, <<asked[1]>>))
              => Matches(ThumbOf(asked).flavor, <<asked[1]>>)
         /\ asked = << >> /\ (\E i \in Indices(table) : table[i].flavor = DefaultFlavor)
              => ThumbOf(asked).flavor = DefaultFlavor
<1> DEFINE names == FlavorNames(asked)
           first(i) == 1 \in DOMAIN asked /\ asked[1][2] = table[i].flavor[names[1]]
           second(i) == 2 \in DOMAIN asked /\ asked[2][2] = table[i].flavor[names[2]]
           default(i, n) == table[i].flavor[names[n]] = DefaultFlavor[names[n]]
           W(i) == Weight(table[i].flavor, asked)
<1>1. AskedOf(asked, names)
  BY NamesOfRequest
<1>2. \A i \in Indices(table) :
        \E u \in {AskedFirst, DefaultFirst, 0}, v \in {AskedSecond, DefaultSecond, 0} :
          /\ W(i) = u + v
          /\ u = AskedFirst <=> first(i)
          /\ v = AskedSecond <=> second(i)
          /\ asked = << >> => /\ u = DefaultFirst <=> default(i, 1)
                              /\ v = DefaultSecond <=> default(i, 2)
  <2> SUFFICES ASSUME NEW i \in Indices(table)
               PROVE  \E u \in {AskedFirst, DefaultFirst, 0}, v \in {AskedSecond, DefaultSecond, 0} :
                        /\ W(i) = u + v
                        /\ u = AskedFirst <=> first(i)
                        /\ v = AskedSecond <=> second(i)
                        /\ asked = << >> => /\ u = DefaultFirst <=> default(i, 1)
                                            /\ v = DefaultSecond <=> default(i, 2)
    OBVIOUS
  <2> DEFINE flavor == table[i].flavor
  <2> HIDE DEF flavor
  <2>1. PICK u \in {AskedFirst, DefaultFirst, 0}, v \in {AskedSecond, DefaultSecond, 0} :
           /\ Weight(flavor, asked) = u + v
           /\ u = AskedFirst <=> 1 \in DOMAIN asked /\ asked[1][2] = flavor[names[1]]
           /\ v = AskedSecond <=> 2 \in DOMAIN asked /\ asked[2][2] = flavor[names[2]]
           /\ asked = << >> => /\ u = DefaultFirst <=> flavor[names[1]] = DefaultFlavor[names[1]]
                               /\ v = DefaultSecond <=> flavor[names[2]] = DefaultFlavor[names[2]]
    BY <1>1, Weights
  <2> QED
    BY <2>1 DEF flavor
<1>3. PICK k \in Indices(table) : ThumbOf(asked) = table[k] /\ \A j \in Indices(table) : W(k) >= W(j)
  BY ThumbIsHeaviest
<1> HIDE DEF W
<1>4. ASSUME NEW i \in Indices(table), first(i) PROVE first(k)
  <2> HIDE DEF first, second, default
  <2>1. W(i) >= AskedFirst
    BY <1>2, <1>4, PowersOfTen
  <2>2. W(k) >= AskedFirst
    BY <1>2, <1>3, <2>1, PowersOfTen
  <2> QED
    BY <1>2, <2>2, PowersOfTen
<1>5. ASSUME NEW i \in Indices(table), first(i), second(i) PROVE second(k)
  <2> HIDE DEF first, second, default
  <2>1. W(i) = AskedFirst + AskedSecond
    BY <1>2, <1>5, PowersOfTen
  <2>2. W(k) >= AskedFirst + AskedSecond
    BY <1>2, <1>3, <2>1, PowersOfTen
  <2> QED
    BY <1>2, <2>2, PowersOfTen
<1>6. ASSUME NEW i \in Indices(table), default(i, 1), default(i, 2), asked = << >> PROVE default(k, 1) /\ default(k, 2)
  <2>0. ~first(i) /\ ~second(i) /\ ~first(k) /\ ~second(k)
    BY <1>6
  <2> HIDE DEF first, second, default
  <2>1. W(i) = DefaultFirst + DefaultSecond
    BY <1>2, <1>6, <2>0, PowersOfTen
  <2>2. W(k) >= DefaultFirst + DefaultSecond
    BY <1>2, <1>3, <2>1, PowersOfTen
  <2> QED
    BY <1>2, <1>6, <2>0, <2>2, PowersOfTen
<1> HIDE DEF names
<1>7. \A i : Matches(table[i].flavor, asked) <=> /\ 1 \in DOMAIN asked => first(i)
                                                 /\ 2 \in DOMAIN asked => second(i)
  BY <1>1 DEF AskedOf, Matches
<1>8. asked # << >> => 1 \in DOMAIN asked /\ \A i : Matches(table[i].flavor, <<asked[1]>>) <=> first(i)
  BY <1>1 DEF AskedOf, Matches
<1>9. asked = << >> => \A i \in Indices(table) : table[i].flavor = DefaultFlavor <=> default(i, 1) /\ default(i, 2)
  <2>1. \A i \in Indices(table) : table[i].flavor \in [orientation : {"fs", "ws", "any"}, lighting : {"day", "night", "any"}]
    <3>1. \A i \in 1 .. Len(table) : table[i] \in TableRows
      BY DEF TableInv, TableTypes
    <3> QED
      BY <3>1 DEF TableRows, Indices
  <2> QED
    BY <1>1, <2>1 DEF AskedOf, DefaultFlavor
<1> HIDE DEF first, second, default
<1>10. 2 \in DOMAIN asked => 1 \in DOMAIN asked
  BY <1>1 DEF AskedOf
<1> QED
  BY <1>3, <1>4, <1>5, <1>6, <1>7, <1>8, <1>9, <1>10

LEMMA FirstOfFlavor ==
  ASSUME TableInv, NEW i \in Indices(table)
  PROVE  \E k \in Stripped : table[k].flavor = table[i].flavor
<1> DEFINE alike == {j \in Indices(table) : table[j].flavor = table[i].flavor}
<1>1. alike \in SUBSET Nat /\ alike # {}
  BY DEF Indices
<1>2. PICK k \in alike : \A j \in alike : k <= j
  <2> HIDE DEF alike
  <2> QED
    BY <1>1, LeastOf
<1>3. Len(table) \in Nat
  BY DEF TableInv, TableTypes
<1>4. k \in Stripped
  BY <1>2, <1>3 DEF Stripped, Indices
<1> QED
  BY <1>2, <1>4

\* Whatever files a release has: what is asked for is listed, and its picture is shown.
THEOREM WhatIsAskedIsShown == TableSpec => []ShownAsAsked
<1>1. TableInv /\ FitInv => ShownAsAsked
  <2> SUFFICES ASSUME TableInv, FitInv, table # << >>, NEW asked \in Requests
               PROVE  LET matching == {i \in Indices(table) : Matches(table[i].flavor, asked)} IN
                      /\ matching # {} => Shown(asked) # {} /\ Matches(ThumbOf(asked).flavor, asked)
                      /\ Shown(asked) \subseteq matching
                      /\ asked # <<>> /\ (\E i \in Indices(table) : Matches(table[i].flavor, <<asked[1]>>))
                           => Matches(ThumbOf(asked).flavor, <<asked[1]>>)
                      /\ matching # {} =>
                           \A n \in DOMAIN asked :
                             /\ asked[n][2] = "fs" => ThumbOf(asked).picture.shape # "landscape"
                             /\ asked[n][2] = "ws" => ThumbOf(asked).picture.shape # "portrait"
                      /\ (\E i \in Indices(table) : table[i].flavor = DefaultFlavor) =>
                           ThumbRedirect.flavor = DefaultFlavor
    BY DEF ShownAsAsked
  <2> DEFINE matching == {i \in Indices(table) : Matches(table[i].flavor, asked)}
  <2>1. matching # {} => Shown(asked) # {}
    <3> SUFFICES ASSUME NEW i \in matching PROVE Shown(asked) # {}
      OBVIOUS
    <3>1. Listed(asked)
      BY DEF Listed, Matches
    <3>2. PICK k \in Stripped : table[k].flavor = table[i].flavor
      BY FirstOfFlavor
    <3> QED
      BY <3>1, <3>2 DEF Shown
  <2>2. matching # {} => Matches(ThumbOf(asked).flavor, asked)
    BY ThumbAsAsked
  <2>3. Shown(asked) \subseteq matching
    BY DEF Shown, Stripped
  <2>4. asked # <<>> /\ (\E i \in Indices(table) : Matches(table[i].flavor, <<asked[1]>>))
          => Matches(ThumbOf(asked).flavor, <<asked[1]>>)
    BY ThumbAsAsked
  <2>5. ASSUME matching # {}, NEW n \in DOMAIN asked
        PROVE  /\ asked[n][2] = "fs" => ThumbOf(asked).picture.shape # "landscape"
               /\ asked[n][2] = "ws" => ThumbOf(asked).picture.shape # "portrait"
    <3>1. PICK k \in Indices(table) : ThumbOf(asked) = table[k]
      BY ThumbIsHeaviest
    <3>2. Fits(table[k])
      <4>1. \A i \in 1 .. Len(table) : i \in DOMAIN table
        BY DEF TableInv, TableTypes
      <4> QED
        BY <4>1 DEF FitInv, Indices
    <3>3. asked[n][2] \in {"fs", "ws"} => asked[n][2] = ThumbOf(asked).flavor.orientation
      <4>1. asked[n][2] \in {"fs", "ws"} => asked[n][1] = "orientation"
        BY NamesOfRequest DEF AskedOf
      <4> QED
        BY <2>2, <2>5, <4>1 DEF Matches
    <3> QED
      BY <3>1, <3>2, <3>3 DEF Fits, ImageFits
  <2>6. (\E i \in Indices(table) : table[i].flavor = DefaultFlavor) => ThumbRedirect.flavor = DefaultFlavor
    <3>1. << >> \in Requests
      BY DEF Requests
    <3> QED
      BY <3>1, ThumbAsAsked DEF ThumbRedirect
  <2> QED
    BY <2>1, <2>2, <2>3, <2>4, <2>5, <2>6
<1>2. TableInit => FitInv
  BY DEF TableInit, FitInv, NoEditor
<1> QED
  BY <1>1, <1>2, TableInitInv, TableStepInv, FitStep, PTL DEF TableSpec

-----------------------------------------------------------------------------
(***************************************************************************)
(* Uploads and their answers.                                              *)
(***************************************************************************)
PostStates ==
  [at : {"idle", "receiving", "removing", "over"}, multipart : BOOLEAN, parts : Nat, file : BOOLEAN,
   err : BOOLEAN, finished : BOOLEAN, exists : BOOLEAN]

PostTypes ==
  /\ post \in [Posts -> PostStates]
  /\ creation \in [Posts -> Creations]
  /\ answer \in [Posts -> {"none", "created", "error"}]
  /\ stray \in [Posts -> BOOLEAN]

\* Whoever settles the promise of the request: the callback of the creation, of a raw body
\* or of a body that is over, or the end of the body.
ByCallback(q) == q.finished \/ ~q.multipart

\* What a request starts with.
Fresh(q, c, a, s) == q.at = "idle" => q = NoPost /\ c = "none" /\ a = "none" /\ s = FALSE

\* Where a request has got to.
Progress(q, c) ==
  /\ q.at # "idle" /\ ~q.multipart => q.parts = 1
  /\ q.parts = 1 => c # "none"
  /\ q.at # "removing"
  /\ q.finished => q.multipart /\ q.at = "over"
  /\ ~q.multipart /\ q.at = "receiving" => c \notin {"kept", "dropped"}

\* What the handler has noted of its creation, and what there is.
Noted(q, c, s) ==
  /\ q.parts = 0 => c = "none"
  /\ q.file => q.multipart /\ c = "kept"
  /\ q.err => q.multipart /\ c = "dropped"
  /\ q.multipart /\ q.at = "receiving" => (c = "kept" => q.file) /\ (c = "dropped" => q.err)
  /\ q.exists => c \notin {"none", "writing"}
  /\ c \in {"stored", "created"} => q.exists
  /\ c \in {"refused", "dropped"} /\ q.exists => s
  /\ q.at = "receiving" /\ c = "kept" => q.exists

\* What the client has been told.
Told(q, c, a) ==
  /\ q.at = "receiving" => a = "none"
  /\ a = "created" => c = "kept" /\ q.exists
  /\ ByCallback(q) => (c = "kept" => a = "created") /\ (c = "dropped" => a = "error")
                      /\ (c \notin {"kept", "dropped"} => a = "none")
  /\ q.at = "over" /\ ~ByCallback(q) => a # "none"

Sound(q, c, a, s) ==
  /\ Fresh(q, c, a, s)
  /\ q.parts <= 1 => Progress(q, c) /\ Noted(q, c, s) /\ Told(q, c, a)

UploadsInv ==
  /\ PostTypes
  /\ \A p \in Posts : Sound(post[p], creation[p], answer[p], stray[p])

\* A step of request p alone.
OnlyAndSound(p) ==
  /\ PostTypes'
  /\ \A k \in Posts : k # p => /\ post'[k] = post[k] /\ creation'[k] = creation[k]
                              /\ answer'[k] = answer[k] /\ stray'[k] = stray[k]
  /\ Sound(post'[p], creation'[p], answer'[p], stray'[p])

-----------------------------------------------------------------------------
LEMMA NoPostState == NoPost \in PostStates
BY DEF NoPost, PostStates

LEMMA ExistsState ==
  ASSUME NEW q \in PostStates, NEW b \in BOOLEAN
  PROVE  [q EXCEPT !.exists = b] \in PostStates
BY DEF PostStates

LEMMA OverState ==
  ASSUME NEW q \in PostStates
  PROVE  [q EXCEPT !.at = "over"] \in PostStates
BY DEF PostStates

\* A callback notes something of its request.
LEMMA NotedState ==
  ASSUME NEW q \in PostStates, NEW b \in BOOLEAN, NEW n \in Nat
  PROVE  /\ [q EXCEPT !.file = b] \in PostStates
         /\ [q EXCEPT !.err = b] \in PostStates
         /\ [q EXCEPT !.parts = n, !.err = b] \in PostStates
BY DEF PostStates

LEMMA UploadsInitInv == UploadsInit => UploadsInv
<1> SUFFICES ASSUME UploadsInit PROVE UploadsInv
  OBVIOUS
<1>1. PostTypes
  BY NoPostState DEF UploadsInit, PostTypes, Creations
<1>2. ASSUME NEW p \in Posts PROVE Sound(post[p], creation[p], answer[p], stray[p])
  BY DEF UploadsInit, NoPost, Sound, Fresh, Progress, Noted, Told, ByCallback
<1> QED
  BY <1>1, <1>2 DEF UploadsInv

LEMMA OnlyInv ==
  ASSUME UploadsInv, NEW p \in Posts, OnlyAndSound(p)
  PROVE  UploadsInv'
BY DEF UploadsInv, OnlyAndSound

LEMMA PostSound ==
  ASSUME UploadsInv, NEW p \in Posts, NEW multipart \in BOOLEAN, Post(p, multipart)
  PROVE  OnlyAndSound(p)
<1>1. PostTypes'
  <2>1. [NoPost EXCEPT !.at = "receiving", !.multipart = multipart,
                    !.parts = IF multipart THEN 0 ELSE 1] \in PostStates
    BY DEF NoPost, PostStates
  <2>2. post' = [post EXCEPT ![p] = [NoPost EXCEPT !.at = "receiving", !.multipart = multipart,
                    !.parts = IF multipart THEN 0 ELSE 1]]
    BY DEF Post, UploadsInv, PostTypes, PostStates
  <2>3. post' \in [Posts -> PostStates]
    BY <2>1, <2>2 DEF UploadsInv, PostTypes
  <2>4. creation' \in [Posts -> Creations] /\ UNCHANGED <<answer, stray>>
    BY DEF Post, UploadsInv, PostTypes, Creations
  <2> QED
    BY <2>3, <2>4 DEF UploadsInv, PostTypes
<1>2. \A k \in Posts : k # p => /\ post'[k] = post[k] /\ creation'[k] = creation[k]
                               /\ answer'[k] = answer[k] /\ stray'[k] = stray[k]
  BY DEF Post, UploadsInv, PostTypes, Settle
<1>3. Sound(post'[p], creation'[p], answer'[p], stray'[p])
  <2>1. Sound(post[p], creation[p], answer[p], stray[p])
    BY DEF UploadsInv
  <2>2. Fresh(post'[p], creation'[p], answer'[p], stray'[p])
    BY <2>1 DEF Post, UploadsInv, PostTypes, PostStates, Creations, Settle, NoPost, Sound, Fresh
  <2>3. ASSUME post'[p].parts <= 1 PROVE Progress(post'[p], creation'[p])
    BY <2>1, <2>3, SMTT(30) DEF Post, UploadsInv, PostTypes, PostStates, Creations, Settle, NoPost,
              Sound, Fresh, Progress, Noted, Told, ByCallback
  <2>4. ASSUME post'[p].parts <= 1 PROVE Noted(post'[p], creation'[p], stray'[p])
    BY <2>1, <2>4, SMTT(30) DEF Post, UploadsInv, PostTypes, PostStates, Creations, Settle, NoPost,
              Sound, Fresh, Progress, Noted, Told, ByCallback
  <2>5. ASSUME post'[p].parts <= 1 PROVE Told(post'[p], creation'[p], answer'[p])
    BY <2>1, <2>5, SMTT(30) DEF Post, UploadsInv, PostTypes, PostStates, Creations, Settle, NoPost,
              Sound, Fresh, Progress, Noted, Told, ByCallback
  <2> QED
    BY <2>2, <2>3, <2>4, <2>5 DEF Sound
<1> QED
  BY <1>1, <1>2, <1>3 DEF OnlyAndSound

LEMMA PartSound ==
  ASSUME UploadsInv, NEW p \in Posts, Part(p)
  PROVE  OnlyAndSound(p)
<1>1. PostTypes'
  <2> DEFINE q == [post[p] EXCEPT !.parts = @ + 1, !.err = @ \/ post[p].parts > 0]
  <2>1. q \in PostStates
    <3>1. /\ post[p] \in PostStates
          /\ post[p].parts + 1 \in Nat
          /\ (post[p].err \/ post[p].parts > 0) \in BOOLEAN
      BY DEF UploadsInv, PostTypes, PostStates
    <3> QED
      BY <3>1, NotedState
  <2>2. post' = [post EXCEPT ![p] = q]
    BY DEF Part, UploadsInv, PostTypes, PostStates
  <2>3. post' \in [Posts -> PostStates]
    BY <2>1, <2>2 DEF UploadsInv, PostTypes
  <2> QED
    BY <2>3 DEF Part, UploadsInv, PostTypes, Creations
<1>2. \A k \in Posts : k # p => /\ post'[k] = post[k] /\ creation'[k] = creation[k]
                               /\ answer'[k] = answer[k] /\ stray'[k] = stray[k]
  BY DEF Part, UploadsInv, PostTypes, Settle
<1>3. Sound(post'[p], creation'[p], answer'[p], stray'[p])
  <2>1. Sound(post[p], creation[p], answer[p], stray[p])
    BY DEF UploadsInv
  <2>2. Fresh(post'[p], creation'[p], answer'[p], stray'[p])
    BY <2>1 DEF Part, UploadsInv, PostTypes, PostStates, Creations, Settle, NoPost, Sound, Fresh
  <2>3. ASSUME post'[p].parts <= 1 PROVE Progress(post'[p], creation'[p])
    BY <2>1, <2>3, SMTT(30) DEF Part, UploadsInv, PostTypes, PostStates, Creations, Settle, NoPost,
              Sound, Fresh, Progress, Noted, Told, ByCallback
  <2>4. ASSUME post'[p].parts <= 1 PROVE Noted(post'[p], creation'[p], stray'[p])
    BY <2>1, <2>4, SMTT(30) DEF Part, UploadsInv, PostTypes, PostStates, Creations, Settle, NoPost,
              Sound, Fresh, Progress, Noted, Told, ByCallback
  <2>5. ASSUME post'[p].parts <= 1 PROVE Told(post'[p], creation'[p], answer'[p])
    BY <2>1, <2>5, SMTT(30) DEF Part, UploadsInv, PostTypes, PostStates, Creations, Settle, NoPost,
              Sound, Fresh, Progress, Noted, Told, ByCallback
  <2> QED
    BY <2>2, <2>3, <2>4, <2>5 DEF Sound
<1> QED
  BY <1>1, <1>2, <1>3 DEF OnlyAndSound

LEMMA BodyEndsSound ==
  ASSUME UploadsInv, NEW p \in Posts, BodyEnds(p)
  PROVE  OnlyAndSound(p)
<1>1. PostTypes'
  BY SMTT(30) DEF BodyEnds, UploadsInv, PostTypes, PostStates, Creations, Settle, NoPost
<1>2. \A k \in Posts : k # p => /\ post'[k] = post[k] /\ creation'[k] = creation[k]
                               /\ answer'[k] = answer[k] /\ stray'[k] = stray[k]
  BY DEF BodyEnds, UploadsInv, PostTypes, Settle
<1>3. Sound(post'[p], creation'[p], answer'[p], stray'[p])
  <2>1. Sound(post[p], creation[p], answer[p], stray[p])
    BY DEF UploadsInv
  <2>2. Fresh(post'[p], creation'[p], answer'[p], stray'[p])
    BY <2>1 DEF BodyEnds, UploadsInv, PostTypes, PostStates, Creations, Settle, NoPost, Sound, Fresh
  <2>3. ASSUME post'[p].parts <= 1 PROVE Progress(post'[p], creation'[p])
    BY <2>1, <2>3, SMTT(30) DEF BodyEnds, UploadsInv, PostTypes, PostStates, Creations, Settle, NoPost,
              Sound, Fresh, Progress, Noted, Told, ByCallback
  <2>4. ASSUME post'[p].parts <= 1 PROVE Noted(post'[p], creation'[p], stray'[p])
    BY <2>1, <2>4, SMTT(30) DEF BodyEnds, UploadsInv, PostTypes, PostStates, Creations, Settle, NoPost,
              Sound, Fresh, Progress, Noted, Told, ByCallback
  <2>5. ASSUME post'[p].parts <= 1 PROVE Told(post'[p], creation'[p], answer'[p])
    BY <2>1, <2>5, SMTT(30) DEF BodyEnds, UploadsInv, PostTypes, PostStates, Creations, Settle, NoPost,
              Sound, Fresh, Progress, Noted, Told, ByCallback
  <2> QED
    BY <2>2, <2>3, <2>4, <2>5 DEF Sound
<1> QED
  BY <1>1, <1>2, <1>3 DEF OnlyAndSound

LEMMA BodyBrokenSound ==
  ASSUME UploadsInv, NEW p \in Posts, BodyBroken(p)
  PROVE  OnlyAndSound(p)
<1>1. PostTypes'
  BY SMTT(30) DEF BodyBroken, UploadsInv, PostTypes, PostStates, Creations, Settle, NoPost
<1>2. \A k \in Posts : k # p => /\ post'[k] = post[k] /\ creation'[k] = creation[k]
                               /\ answer'[k] = answer[k] /\ stray'[k] = stray[k]
  BY DEF BodyBroken, UploadsInv, PostTypes, Settle
<1>3. Sound(post'[p], creation'[p], answer'[p], stray'[p])
  <2>1. Sound(post[p], creation[p], answer[p], stray[p])
    BY DEF UploadsInv
  <2>2. Fresh(post'[p], creation'[p], answer'[p], stray'[p])
    BY <2>1 DEF BodyBroken, UploadsInv, PostTypes, PostStates, Creations, Settle, NoPost, Sound, Fresh
  <2>3. ASSUME post'[p].parts <= 1 PROVE Progress(post'[p], creation'[p])
    BY <2>1, <2>3, SMTT(30) DEF BodyBroken, UploadsInv, PostTypes, PostStates, Creations, Settle, NoPost,
              Sound, Fresh, Progress, Noted, Told, ByCallback
  <2>4. ASSUME post'[p].parts <= 1 PROVE Noted(post'[p], creation'[p], stray'[p])
    BY <2>1, <2>4, SMTT(30) DEF BodyBroken, UploadsInv, PostTypes, PostStates, Creations, Settle, NoPost,
              Sound, Fresh, Progress, Noted, Told, ByCallback
  <2>5. ASSUME post'[p].parts <= 1 PROVE Told(post'[p], creation'[p], answer'[p])
    BY <2>1, <2>5, SMTT(30) DEF BodyBroken, UploadsInv, PostTypes, PostStates, Creations, Settle, NoPost,
              Sound, Fresh, Progress, Noted, Told, ByCallback
  <2> QED
    BY <2>2, <2>3, <2>4, <2>5 DEF Sound
<1> QED
  BY <1>1, <1>2, <1>3 DEF OnlyAndSound

LEMMA RemoveSound ==
  ASSUME UploadsInv, NEW p \in Posts, Remove(p)
  PROVE  OnlyAndSound(p)
<1>1. PostTypes'
  <2> DEFINE q == [post[p] EXCEPT !.at = "over", !.exists = FALSE]
  <2>1. q \in PostStates
    <3>1. post[p] \in PostStates
      BY DEF UploadsInv, PostTypes
    <3>2. [[post[p] EXCEPT !.at = "over"] EXCEPT !.exists = FALSE] \in PostStates
      BY <3>1, OverState, ExistsState
    <3> QED
      BY <3>1, <3>2 DEF PostStates
  <2>2. post' = [post EXCEPT ![p] = q]
    BY DEF Remove, UploadsInv, PostTypes, PostStates
  <2>3. post' \in [Posts -> PostStates]
    BY <2>1, <2>2 DEF UploadsInv, PostTypes
  <2> QED
    BY <2>3 DEF Remove, UploadsInv, PostTypes, Creations
<1>2. \A k \in Posts : k # p => /\ post'[k] = post[k] /\ creation'[k] = creation[k]
                               /\ answer'[k] = answer[k] /\ stray'[k] = stray[k]
  BY DEF Remove, UploadsInv, PostTypes, Settle
<1>3. Sound(post'[p], creation'[p], answer'[p], stray'[p])
  <2>1. Sound(post[p], creation[p], answer[p], stray[p])
    BY DEF UploadsInv
  <2>2. Fresh(post'[p], creation'[p], answer'[p], stray'[p])
    BY <2>1 DEF Remove, UploadsInv, PostTypes, PostStates, Creations, Settle, NoPost, Sound, Fresh
  <2>3. ASSUME post'[p].parts <= 1 PROVE Progress(post'[p], creation'[p])
    BY <2>1, <2>3, SMTT(30) DEF Remove, UploadsInv, PostTypes, PostStates, Creations, Settle, NoPost,
              Sound, Fresh, Progress, Noted, Told, ByCallback
  <2>4. ASSUME post'[p].parts <= 1 PROVE Noted(post'[p], creation'[p], stray'[p])
    BY <2>1, <2>4, SMTT(30) DEF Remove, UploadsInv, PostTypes, PostStates, Creations, Settle, NoPost,
              Sound, Fresh, Progress, Noted, Told, ByCallback
  <2>5. ASSUME post'[p].parts <= 1 PROVE Told(post'[p], creation'[p], answer'[p])
    BY <2>1, <2>5, SMTT(30) DEF Remove, UploadsInv, PostTypes, PostStates, Creations, Settle, NoPost,
              Sound, Fresh, Progress, Noted, Told, ByCallback
  <2> QED
    BY <2>2, <2>3, <2>4, <2>5 DEF Sound
<1> QED
  BY <1>1, <1>2, <1>3 DEF OnlyAndSound

LEMMA SaveSound ==
  ASSUME UploadsInv, NEW p \in Posts, Save(p)
  PROVE  OnlyAndSound(p)
<1>1. PostTypes'
  <2>1. [post[p] EXCEPT !.exists = TRUE] \in PostStates
    BY ExistsState DEF UploadsInv, PostTypes
  <2>2. post' = [post EXCEPT ![p] = [post[p] EXCEPT !.exists = TRUE]]
    BY DEF Save, UploadsInv, PostTypes, PostStates
  <2>3. post' \in [Posts -> PostStates]
    BY <2>1, <2>2 DEF UploadsInv, PostTypes
  <2>4. creation' \in [Posts -> Creations] /\ UNCHANGED <<answer, stray>>
    BY DEF Save, UploadsInv, PostTypes, Creations
  <2> QED
    BY <2>3, <2>4 DEF UploadsInv, PostTypes
<1>2. \A k \in Posts : k # p => /\ post'[k] = post[k] /\ creation'[k] = creation[k]
                               /\ answer'[k] = answer[k] /\ stray'[k] = stray[k]
  BY DEF Save, UploadsInv, PostTypes, Settle
<1>3. Sound(post'[p], creation'[p], answer'[p], stray'[p])
  <2>1. Sound(post[p], creation[p], answer[p], stray[p])
    BY DEF UploadsInv
  <2>2. Fresh(post'[p], creation'[p], answer'[p], stray'[p])
    BY <2>1 DEF Save, UploadsInv, PostTypes, PostStates, Creations, Settle, NoPost, Sound, Fresh
  <2>3. ASSUME post'[p].parts <= 1 PROVE Progress(post'[p], creation'[p])
    BY <2>1, <2>3, SMTT(30) DEF Save, UploadsInv, PostTypes, PostStates, Creations, Settle, NoPost,
              Sound, Fresh, Progress, Noted, Told, ByCallback
  <2>4. ASSUME post'[p].parts <= 1 PROVE Noted(post'[p], creation'[p], stray'[p])
    BY <2>1, <2>4, SMTT(30) DEF Save, UploadsInv, PostTypes, PostStates, Creations, Settle, NoPost,
              Sound, Fresh, Progress, Noted, Told, ByCallback
  <2>5. ASSUME post'[p].parts <= 1 PROVE Told(post'[p], creation'[p], answer'[p])
    BY <2>1, <2>5, SMTT(30) DEF Save, UploadsInv, PostTypes, PostStates, Creations, Settle, NoPost,
              Sound, Fresh, Progress, Noted, Told, ByCallback
  <2> QED
    BY <2>2, <2>3, <2>4, <2>5 DEF Sound
<1> QED
  BY <1>1, <1>2, <1>3 DEF OnlyAndSound

LEMMA PlaceSound ==
  ASSUME UploadsInv, NEW p \in Posts, Place(p)
  PROVE  OnlyAndSound(p)
<1>1. PostTypes'
  BY SMTT(30) DEF Place, UploadsInv, PostTypes, PostStates, Creations, Settle, NoPost
<1>2. \A k \in Posts : k # p => /\ post'[k] = post[k] /\ creation'[k] = creation[k]
                               /\ answer'[k] = answer[k] /\ stray'[k] = stray[k]
  BY DEF Place, UploadsInv, PostTypes, Settle
<1>3. Sound(post'[p], creation'[p], answer'[p], stray'[p])
  <2>1. Sound(post[p], creation[p], answer[p], stray[p])
    BY DEF UploadsInv
  <2>2. Fresh(post'[p], creation'[p], answer'[p], stray'[p])
    BY <2>1 DEF Place, UploadsInv, PostTypes, PostStates, Creations, Settle, NoPost, Sound, Fresh
  <2>3. ASSUME post'[p].parts <= 1 PROVE Progress(post'[p], creation'[p])
    BY <2>1, <2>3, SMTT(30) DEF Place, UploadsInv, PostTypes, PostStates, Creations, Settle, NoPost,
              Sound, Fresh, Progress, Noted, Told, ByCallback
  <2>4. ASSUME post'[p].parts <= 1 PROVE Noted(post'[p], creation'[p], stray'[p])
    BY <2>1, <2>4, SMTT(30) DEF Place, UploadsInv, PostTypes, PostStates, Creations, Settle, NoPost,
              Sound, Fresh, Progress, Noted, Told, ByCallback
  <2>5. ASSUME post'[p].parts <= 1 PROVE Told(post'[p], creation'[p], answer'[p])
    BY <2>1, <2>5, SMTT(30) DEF Place, UploadsInv, PostTypes, PostStates, Creations, Settle, NoPost,
              Sound, Fresh, Progress, Noted, Told, ByCallback
  <2> QED
    BY <2>2, <2>3, <2>4, <2>5 DEF Sound
<1> QED
  BY <1>1, <1>2, <1>3 DEF OnlyAndSound

LEMMA CreationFailsSound ==
  ASSUME UploadsInv, NEW p \in Posts, CreationFails(p)
  PROVE  OnlyAndSound(p)
<1>1. PostTypes'
  BY SMTT(30) DEF CreationFails, UploadsInv, PostTypes, PostStates, Creations, Settle, NoPost
<1>2. \A k \in Posts : k # p => /\ post'[k] = post[k] /\ creation'[k] = creation[k]
                               /\ answer'[k] = answer[k] /\ stray'[k] = stray[k]
  BY DEF CreationFails, UploadsInv, PostTypes, Settle
<1>3. Sound(post'[p], creation'[p], answer'[p], stray'[p])
  <2>1. Sound(post[p], creation[p], answer[p], stray[p])
    BY DEF UploadsInv
  <2>2. Fresh(post'[p], creation'[p], answer'[p], stray'[p])
    BY <2>1 DEF CreationFails, UploadsInv, PostTypes, PostStates, Creations, Settle, NoPost, Sound, Fresh
  <2>3. ASSUME post'[p].parts <= 1 PROVE Progress(post'[p], creation'[p])
    BY <2>1, <2>3, SMTT(30) DEF CreationFails, UploadsInv, PostTypes, PostStates, Creations, Settle, NoPost,
              Sound, Fresh, Progress, Noted, Told, ByCallback
  <2>4. ASSUME post'[p].parts <= 1 PROVE Noted(post'[p], creation'[p], stray'[p])
    BY <2>1, <2>4, SMTT(30) DEF CreationFails, UploadsInv, PostTypes, PostStates, Creations, Settle, NoPost,
              Sound, Fresh, Progress, Noted, Told, ByCallback
  <2>5. ASSUME post'[p].parts <= 1 PROVE Told(post'[p], creation'[p], answer'[p])
    BY <2>1, <2>5, SMTT(30) DEF CreationFails, UploadsInv, PostTypes, PostStates, Creations, Settle, NoPost,
              Sound, Fresh, Progress, Noted, Told, ByCallback
  <2> QED
    BY <2>2, <2>3, <2>4, <2>5 DEF Sound
<1> QED
  BY <1>1, <1>2, <1>3 DEF OnlyAndSound

LEMMA CreatedSound ==
  ASSUME UploadsInv, NEW p \in Posts, Created(p)
  PROVE  OnlyAndSound(p)
<1>1. PostTypes'
  <2>1. CASE post[p].multipart /\ ~post[p].finished
    <3>1. [post[p] EXCEPT !.file = TRUE] \in PostStates
      BY NotedState DEF UploadsInv, PostTypes
    <3>2. post' = [post EXCEPT ![p] = [post[p] EXCEPT !.file = TRUE]]
      BY <2>1 DEF Created, UploadsInv, PostTypes, PostStates
    <3>3. post' \in [Posts -> PostStates]
      BY <3>1, <3>2 DEF UploadsInv, PostTypes
    <3> QED
      BY <2>1, <3>3 DEF Created, UploadsInv, PostTypes, Creations
  <2>2. CASE ~(post[p].multipart /\ ~post[p].finished)
    <3>1. [post[p] EXCEPT !.at = "over"] \in PostStates
      BY OverState DEF UploadsInv, PostTypes
    <3>2. post' = [post EXCEPT ![p] = [post[p] EXCEPT !.at = "over"]]
      BY <2>2 DEF Created, UploadsInv, PostTypes, PostStates
    <3>3. post' \in [Posts -> PostStates]
      BY <3>1, <3>2 DEF UploadsInv, PostTypes
    <3>4. answer' \in [Posts -> {"none", "created", "error"}]
      BY <2>2 DEF Created, UploadsInv, PostTypes, Settle
    <3>5. creation' \in [Posts -> Creations] /\ stray' \in [Posts -> BOOLEAN]
      BY DEF Created, UploadsInv, PostTypes, Creations
    <3> QED
      BY <3>3, <3>4, <3>5 DEF PostTypes
  <2> QED
    BY <2>1, <2>2
<1>2. \A k \in Posts : k # p => /\ post'[k] = post[k] /\ creation'[k] = creation[k]
                               /\ answer'[k] = answer[k] /\ stray'[k] = stray[k]
  BY DEF Created, UploadsInv, PostTypes, Settle
<1>3. Sound(post'[p], creation'[p], answer'[p], stray'[p])
  <2>1. Sound(post[p], creation[p], answer[p], stray[p])
    BY DEF UploadsInv
  <2>2. Fresh(post'[p], creation'[p], answer'[p], stray'[p])
    BY <2>1 DEF Created, UploadsInv, PostTypes, PostStates, Creations, Settle, NoPost, Sound, Fresh
  <2>3. ASSUME post'[p].parts <= 1 PROVE Progress(post'[p], creation'[p])
    BY <2>1, <2>3, SMTT(30) DEF Created, UploadsInv, PostTypes, PostStates, Creations, Settle, NoPost,
              Sound, Fresh, Progress, Noted, Told, ByCallback
  <2>4. ASSUME post'[p].parts <= 1 PROVE Noted(post'[p], creation'[p], stray'[p])
    BY <2>1, <2>4, SMTT(30) DEF Created, UploadsInv, PostTypes, PostStates, Creations, Settle, NoPost,
              Sound, Fresh, Progress, Noted, Told, ByCallback
  <2>5. ASSUME post'[p].parts <= 1 PROVE Told(post'[p], creation'[p], answer'[p])
    <3>1. CASE post[p].multipart /\ ~post[p].finished
      BY <2>1, <2>5, <3>1, SMTT(30) DEF Created, UploadsInv, PostTypes, PostStates, Creations, Settle, NoPost,
              Sound, Fresh, Progress, Noted, Told, ByCallback
    <3>2. CASE ~(post[p].multipart /\ ~post[p].finished)
      BY <2>1, <2>5, <3>2, SMTT(30) DEF Created, UploadsInv, PostTypes, PostStates, Creations, Settle, NoPost,
              Sound, Fresh, Progress, Noted, Told, ByCallback
    <3> QED
      BY <3>1, <3>2
  <2> QED
    BY <2>2, <2>3, <2>4, <2>5 DEF Sound
<1> QED
  BY <1>1, <1>2, <1>3 DEF OnlyAndSound

LEMMA RefusedSound ==
  ASSUME UploadsInv, NEW p \in Posts, Refused(p)
  PROVE  OnlyAndSound(p)
<1>1. PostTypes'
  <2>1. CASE post[p].multipart /\ ~post[p].finished
    <3>1. [post[p] EXCEPT !.err = TRUE] \in PostStates
      BY NotedState DEF UploadsInv, PostTypes
    <3>2. post' = [post EXCEPT ![p] = [post[p] EXCEPT !.err = TRUE]]
      BY <2>1 DEF Refused, UploadsInv, PostTypes, PostStates
    <3>3. post' \in [Posts -> PostStates]
      BY <3>1, <3>2 DEF UploadsInv, PostTypes
    <3> QED
      BY <2>1, <3>3 DEF Refused, UploadsInv, PostTypes, Creations
  <2>2. CASE ~(post[p].multipart /\ ~post[p].finished)
    <3>1. [post[p] EXCEPT !.at = "over"] \in PostStates
      BY OverState DEF UploadsInv, PostTypes
    <3>2. post' = [post EXCEPT ![p] = [post[p] EXCEPT !.at = "over"]]
      BY <2>2 DEF Refused, UploadsInv, PostTypes, PostStates
    <3>3. post' \in [Posts -> PostStates]
      BY <3>1, <3>2 DEF UploadsInv, PostTypes
    <3>4. answer' \in [Posts -> {"none", "created", "error"}]
      BY <2>2 DEF Refused, UploadsInv, PostTypes, Settle
    <3>5. creation' \in [Posts -> Creations] /\ stray' \in [Posts -> BOOLEAN]
      BY DEF Refused, UploadsInv, PostTypes, Creations
    <3> QED
      BY <3>3, <3>4, <3>5 DEF PostTypes
  <2> QED
    BY <2>1, <2>2
<1>2. \A k \in Posts : k # p => /\ post'[k] = post[k] /\ creation'[k] = creation[k]
                               /\ answer'[k] = answer[k] /\ stray'[k] = stray[k]
  BY DEF Refused, UploadsInv, PostTypes, Settle
<1>3. Sound(post'[p], creation'[p], answer'[p], stray'[p])
  <2>1. Sound(post[p], creation[p], answer[p], stray[p])
    BY DEF UploadsInv
  <2>2. Fresh(post'[p], creation'[p], answer'[p], stray'[p])
    BY <2>1 DEF Refused, UploadsInv, PostTypes, PostStates, Creations, Settle, NoPost, Sound, Fresh
  <2>3. ASSUME post'[p].parts <= 1 PROVE Progress(post'[p], creation'[p])
    BY <2>1, <2>3, SMTT(30) DEF Refused, UploadsInv, PostTypes, PostStates, Creations, Settle, NoPost,
              Sound, Fresh, Progress, Noted, Told, ByCallback
  <2>4. ASSUME post'[p].parts <= 1 PROVE Noted(post'[p], creation'[p], stray'[p])
    BY <2>1, <2>4, SMTT(30) DEF Refused, UploadsInv, PostTypes, PostStates, Creations, Settle, NoPost,
              Sound, Fresh, Progress, Noted, Told, ByCallback
  <2>5. ASSUME post'[p].parts <= 1 PROVE Told(post'[p], creation'[p], answer'[p])
    <3>1. CASE post[p].multipart /\ ~post[p].finished
      BY <2>1, <2>5, <3>1, SMTT(30) DEF Refused, UploadsInv, PostTypes, PostStates, Creations, Settle, NoPost,
              Sound, Fresh, Progress, Noted, Told, ByCallback
    <3>2. CASE ~(post[p].multipart /\ ~post[p].finished)
      BY <2>1, <2>5, <3>2, SMTT(30) DEF Refused, UploadsInv, PostTypes, PostStates, Creations, Settle, NoPost,
              Sound, Fresh, Progress, Noted, Told, ByCallback
    <3> QED
      BY <3>1, <3>2
  <2> QED
    BY <2>2, <2>3, <2>4, <2>5 DEF Sound
<1> QED
  BY <1>1, <1>2, <1>3 DEF OnlyAndSound

LEMMA CleanUpSound ==
  ASSUME UploadsInv, NEW p \in Posts, CleanUp(p)
  PROVE  OnlyAndSound(p)
<1>1. PostTypes'
  <2>1. [post[p] EXCEPT !.exists = FALSE] \in PostStates
    BY ExistsState DEF UploadsInv, PostTypes
  <2>2. post' = [post EXCEPT ![p] = [post[p] EXCEPT !.exists = FALSE]]
    BY DEF CleanUp, UploadsInv, PostTypes, PostStates
  <2>3. post' \in [Posts -> PostStates]
    BY <2>1, <2>2 DEF UploadsInv, PostTypes
  <2>4. creation' \in [Posts -> Creations] /\ UNCHANGED <<answer, stray>>
    BY DEF CleanUp, UploadsInv, PostTypes, Creations
  <2> QED
    BY <2>3, <2>4 DEF UploadsInv, PostTypes
<1>2. \A k \in Posts : k # p => /\ post'[k] = post[k] /\ creation'[k] = creation[k]
                               /\ answer'[k] = answer[k] /\ stray'[k] = stray[k]
  BY DEF CleanUp, UploadsInv, PostTypes, Settle
<1>3. Sound(post'[p], creation'[p], answer'[p], stray'[p])
  <2>1. Sound(post[p], creation[p], answer[p], stray[p])
    BY DEF UploadsInv
  <2>2. Fresh(post'[p], creation'[p], answer'[p], stray'[p])
    BY <2>1 DEF CleanUp, UploadsInv, PostTypes, PostStates, Creations, Settle, NoPost, Sound, Fresh
  <2>3. ASSUME post'[p].parts <= 1 PROVE Progress(post'[p], creation'[p])
    BY <2>1, <2>3, SMTT(30) DEF CleanUp, UploadsInv, PostTypes, PostStates, Creations, Settle, NoPost,
              Sound, Fresh, Progress, Noted, Told, ByCallback
  <2>4. ASSUME post'[p].parts <= 1 PROVE Noted(post'[p], creation'[p], stray'[p])
    BY <2>1, <2>4, SMTT(30) DEF CleanUp, UploadsInv, PostTypes, PostStates, Creations, Settle, NoPost,
              Sound, Fresh, Progress, Noted, Told, ByCallback
  <2>5. ASSUME post'[p].parts <= 1 PROVE Told(post'[p], creation'[p], answer'[p])
    BY <2>1, <2>5, SMTT(30) DEF CleanUp, UploadsInv, PostTypes, PostStates, Creations, Settle, NoPost,
              Sound, Fresh, Progress, Noted, Told, ByCallback
  <2> QED
    BY <2>2, <2>3, <2>4, <2>5 DEF Sound
<1> QED
  BY <1>1, <1>2, <1>3 DEF OnlyAndSound

LEMMA UploadsStepInv == UploadsInv /\ [UploadsStep]_uploadVars => UploadsInv'
<1> SUFFICES ASSUME UploadsInv, [UploadsStep]_uploadVars PROVE UploadsInv'
  OBVIOUS
<1>1. CASE UploadsStep
  <2>1. PICK p \in Posts :
          \/ \E multipart \in BOOLEAN : Post(p, multipart)
          \/ Part(p) \/ BodyEnds(p) \/ BodyBroken(p) \/ Remove(p)
          \/ Save(p) \/ Place(p) \/ CreationFails(p) \/ Created(p) \/ Refused(p) \/ CleanUp(p)
    BY <1>1 DEF UploadsStep
  <2>2. OnlyAndSound(p)
    BY <2>1, PostSound, PartSound, BodyEndsSound, BodyBrokenSound, RemoveSound, SaveSound,
       PlaceSound, CreationFailsSound, CreatedSound, RefusedSound, CleanUpSound
  <2> QED
    BY <2>2, OnlyInv
<1>2. CASE UNCHANGED uploadVars
  BY <1>2 DEF uploadVars, UploadsInv, PostTypes
<1> QED
  BY <1>1, <1>2

LEMMA UploadsInvHolds == UploadsSpec => []UploadsInv
BY UploadsInitInv, UploadsStepInv, PTL DEF UploadsSpec

\* Whatever other requests do and whichever is faster, the body or the file: an upload of one file is
\* answered once both are done, and the answer says whether the file is there.
THEOREM OneFileAnswered == UploadsSpec => []UploadAnswered
<1>1. UploadsInv => UploadAnswered
  <2> SUFFICES ASSUME UploadsInv, NEW p \in Posts, Answered(p), post[p].parts = 1
               PROVE  /\ answer[p] = "created" => post[p].exists
                      /\ answer[p] # "none"
                      /\ answer[p] = "error" /\ post[p].exists => creation[p] = "kept" \/ stray[p]
    BY DEF UploadAnswered
  <2>1. /\ post[p].at = "over" /\ creation[p] \in {"kept", "dropped"}
        /\ Noted(post[p], creation[p], stray[p]) /\ Told(post[p], creation[p], answer[p])
    BY DEF UploadsInv, Answered, Sound, Progress
  <2> QED
    BY <2>1 DEF Noted, Told, ByCallback
<1> QED
  BY <1>1, UploadsInvHolds, PTL

-----------------------------------------------------------------------------
(***************************************************************************)
(* Documents and their files.  The invariant looks at one file: until      *)
(* something the code does not guard against has happened to it,           *)
(*   - a document that refers to it is the only one, and the file is there *)
(*     and active, or about to be activated;                               *)
(*   - a request that was not overtaken finds it as it was when the        *)
(*     request began, so it does not take what somebody else has;          *)
(*   - a request that drops it has it from the only document that had it;  *)
(*   - an active file without a document is about to be removed.           *)
(***************************************************************************)
TaskStates ==
  [at : {"idle", "validate", "save", "activate", "remove old", "remove", "remove file"},
   op : {"none", "create", "replace", "add", "exchange", "remove"},
   of : Holders \cup {"none"}, files : SUBSET Uploads, old : SUBSET Uploads, over : BOOLEAN]

AttachmentTypes ==
  /\ upload \in [Uploads -> [at : {"saved", "removed"}, active : BOOLEAN, excused : BOOLEAN]]
  /\ holder \in [Holders -> [at : {"unsaved", "saved", "removed"}, files : SUBSET Uploads]]
  /\ task \in [Tasks -> TaskStates]

\* What a request has of a document and of files.
Shaped(s) ==
  /\ s.at \in {"validate", "save", "activate", "remove"} => s.of \in Holders
  /\ s.at \in {"validate", "save", "activate"} => s.op \in {"create", "replace", "add", "exchange"}
  /\ s.op \in {"create", "add"} \/ s.at = "remove file" => s.old = {}
  /\ s.at = "remove" => s.op = "remove" /\ s.files = {}
  /\ s.files \cap s.old = {}

Shapes ==
  /\ \A t \in Tasks : Shaped(task[t])
  /\ \A d \in Holders : holder[d].at # "saved" => holder[d].files = {}

Held(f) == \E d \in Holders : f \in holder[d].files
There(f) == upload[f].at = "saved"
Activated(f) == There(f) /\ upload[f].active
Committed(t) == task[t].at \in {"activate", "remove old"}

\* Whoever refers to the file has it alone.
Alone(f) ==
  /\ Held(f) =>
       /\ There(f)
       /\ upload[f].active \/ \E t \in Tasks : task[t].at = "activate" /\ f \in task[t].files
  /\ \A c, d \in Holders : f \in holder[c].files /\ f \in holder[d].files => c = d

\* A request that was not overtaken takes a file nobody else has, or finds it active.
Undisturbed(t, f) ==
  task[t].at \in {"validate", "save"} /\ ~task[t].over /\ f \in task[t].files =>
    /\ There(f)
    /\ Held(f) \/ (\E s \in Tasks \ {t} : f \in task[s].old) => upload[f].active
    /\ task[t].at = "save" /\ task[t].op = "create" /\ task[t].of \in Singles => ~upload[f].active

Unwanted(t, f) ==
  task[t].at = "remove file" /\ ~task[t].over /\ f \in task[t].files => ~Held(f)

\* What a request drops only its document has, and nobody once it has dropped it.
Dropped(t, f) ==
  f \in task[t].old =>
    /\ task[t].at # "idle"
    /\ \A d \in Holders : f \in holder[d].files => ~Committed(t) /\ d = task[t].of
    /\ ~(task[t].at = "activate" /\ task[t].op = "exchange")

\* A file that is or will be active has a document, or somebody is to remove it.
Wanted(f) ==
  There(f) /\ (upload[f].active \/ \E t \in Tasks : Committed(t) /\ f \in task[t].files) =>
    Held(f) \/ \E t \in Tasks : Committed(t) /\ f \in task[t].old

Agreed(f) ==
  /\ Alone(f)
  /\ Wanted(f)
  /\ \A t \in Tasks : Undisturbed(t, f) /\ Unwanted(t, f) /\ Dropped(t, f)

FileInv(f) == ~upload[f].excused => Agreed(f)

AttachmentInv ==
  /\ AttachmentTypes
  /\ Shapes
  /\ \A f \in Uploads : FileInv(f)

-----------------------------------------------------------------------------
\* The effects of a step: on the requests that go on, and on the files.
Going(s) ==
  /\ task'[s].at = task[s].at /\ task'[s].op = task[s].op /\ task'[s].of = task[s].of
  /\ task'[s].files = task[s].files /\ task'[s].old = task[s].old
  /\ task[s].over => task'[s].over

Others(t) == \A s \in Tasks \ {t} : Going(s)

Overtaken(t, files) == \A s \in Tasks \ {t} : task[s].files \cap files # {} => task'[s].over

Excused(files) ==
  \A f \in Uploads :
    /\ upload'[f].at = upload[f].at /\ upload'[f].active = upload[f].active
    /\ upload'[f].excused <=> upload[f].excused \/ f \in files

Becomes(t, at) ==
  /\ task'[t].at = at /\ task'[t].op = task[t].op /\ task'[t].of = task[t].of
  /\ task'[t].files = task[t].files /\ task'[t].old = task[t].old /\ task'[t].over = task[t].over

Ends(t) == task'[t].at = "idle" /\ task'[t].files = {} /\ task'[t].old = {}

LEMMA NoTaskState ==
  /\ NoTask \in TaskStates /\ Shaped(NoTask)
  /\ NoTask.at = "idle" /\ NoTask.files = {} /\ NoTask.old = {}
BY DEF NoTask, TaskStates, Shaped

LEMMA OvertakingDoes ==
  ASSUME AttachmentTypes, NEW t \in Tasks, NEW next \in TaskStates, NEW files, Overtaking(t, next, files)
  PROVE  /\ task' \in [Tasks -> TaskStates]
         /\ task'[t] = next /\ Others(t) /\ Overtaken(t, files)
<1> DEFINE later(s) == [task[s] EXCEPT !.over = @ \/ task[s].files \cap files # {}]
<1>1. \A s \in Tasks : task[s] \in TaskStates
  BY DEF AttachmentTypes
<1>2. ASSUME NEW s \in Tasks
      PROVE  /\ later(s) \in TaskStates
             /\ later(s).at = task[s].at /\ later(s).op = task[s].op /\ later(s).of = task[s].of
             /\ later(s).files = task[s].files /\ later(s).old = task[s].old
             /\ later(s).over <=> task[s].over \/ task[s].files \cap files # {}
  BY <1>1 DEF TaskStates
<1>3. task' = [s \in Tasks |-> IF s = t THEN next ELSE later(s)]
  BY DEF Overtaking
<1> HIDE DEF later
<1>4. \A s \in Tasks \ {t} : task'[s] = later(s)
  BY <1>3
<1>5. task' \in [Tasks -> TaskStates] /\ task'[t] = next
  BY <1>2, <1>3
<1> QED
  BY <1>2, <1>4, <1>5 DEF Others, Going, Overtaken

LEMMA AtDoes ==
  ASSUME AttachmentTypes, NEW t \in Tasks, NEW at \in {"save", "activate", "remove old"}
  PROVE  /\ At(t, at) \in TaskStates
         /\ At(t, at).at = at /\ At(t, at).op = task[t].op /\ At(t, at).of = task[t].of
         /\ At(t, at).files = task[t].files /\ At(t, at).old = task[t].old /\ At(t, at).over = task[t].over
<1>1. task[t] \in TaskStates
  BY DEF AttachmentTypes
<1> QED
  BY <1>1 DEF At, TaskStates

LEMMA AtBecomes ==
  ASSUME AttachmentTypes, NEW t \in Tasks, NEW at \in {"save", "activate", "remove old"},
         task'[t] = At(t, at)
  PROVE  Becomes(t, at)
<1>1. task[t] \in TaskStates
  BY DEF AttachmentTypes
<1> QED
  BY <1>1 DEF At, TaskStates, Becomes

LEMMA ExcuseDoes ==
  ASSUME AttachmentTypes, NEW files, upload' = Excuse(files)
  PROVE  /\ upload' \in [Uploads -> [at : {"saved", "removed"}, active : BOOLEAN, excused : BOOLEAN]]
         /\ Excused(files)
BY DEF AttachmentTypes, Excuse, Excused

\* The requests have the shape they had, but the one at work.
LEMMA ShapesKept ==
  ASSUME Shapes, NEW t \in Tasks, Others(t), Shaped(task[t])',
         \A d \in Holders : holder'[d].at # "saved" => holder'[d].files = {}
  PROVE  Shapes'
<1>1. ASSUME NEW s \in Tasks \ {t} PROVE Shaped(task[s])'
  <2>1. Shaped(task[s]) /\ Going(s)
    BY DEF Shapes, Others
  <2> QED
    BY <2>1 DEF Shaped, Going
<1> QED
  BY <1>1 DEF Shapes

LEMMA AttachmentInitInv == AttachmentInit => AttachmentInv
<1> SUFFICES ASSUME AttachmentInit PROVE AttachmentInv
  OBVIOUS
<1>1. AttachmentTypes
  BY NoTaskState DEF AttachmentInit, AttachmentTypes
<1>2. Shapes
  BY NoTaskState DEF AttachmentInit, Shapes
<1>3. ASSUME NEW f \in Uploads PROVE FileInv(f)
  BY DEF AttachmentInit, NoTask, FileInv, Agreed, Alone, Undisturbed, Unwanted, Dropped, Wanted, Held, There,
     Committed
<1> QED
  BY <1>1, <1>2, <1>3 DEF AttachmentInv

-----------------------------------------------------------------------------
\* What a request has looked up when it begins.
MayBegin(at, op, d, files, old) ==
  /\ at \in {"validate", "remove", "remove file"} /\ d \in Holders \cup {"none"}
  /\ op \in {"create", "replace", "add", "exchange", "remove"}
  /\ files \subseteq Uploads /\ old \subseteq Uploads /\ files \subseteq Stored /\ files \cap old = {}
  /\ old # {} => d \in Holders /\ holder[d].at = "saved" /\ old \subseteq holder[d].files
  /\ at # "remove file" => d \in Holders
  /\ at = "validate" <=> op # "remove"
  /\ op \in {"create", "add"} => old = {}
  /\ at = "remove" => files = {}
  /\ at = "remove file" => files \cap Active = {} /\ old = {}

\* A request begins, and is overtaken from the start where another has what it takes.
LEMMA BeginInv ==
  ASSUME AttachmentInv, NEW t \in Tasks, NEW at, NEW op, NEW d, NEW files, NEW old,
         MayBegin(at, op, d, files, old), BeginTask(t, at, op, d, files, old)
  PROVE  AttachmentInv'
<1> DEFINE new == [at |-> at, op |-> op, of |-> d, files |-> files, old |-> old, over |-> Busy(files)]
<1>1. new \in TaskStates /\ new.at = at /\ new.op = op /\ new.of = d /\ new.files = files /\ new.old = old
      /\ (new.over <=> Busy(files))
  BY DEF MayBegin, TaskStates, Busy
<1>2. task' = [task EXCEPT ![t] = new] /\ UNCHANGED <<upload, holder>> /\ task[t].at = "idle"
  BY DEF BeginTask
<1> HIDE DEF new
<1>3. task'[t] = new /\ (\A s \in Tasks \ {t} : task'[s] = task[s]) /\ task' \in [Tasks -> TaskStates]
  BY <1>1, <1>2 DEF AttachmentInv, AttachmentTypes
<1>4. AttachmentTypes'
  BY <1>2, <1>3 DEF AttachmentInv, AttachmentTypes
<1>5. Shapes'
  <2>1. Shaped(task'[t])
    BY <1>1, <1>3 DEF MayBegin, Shaped
  <2>2. \A s \in Tasks \ {t} : Shaped(task'[s])
    BY <1>3 DEF AttachmentInv, Shapes
  <2>3. \A c \in Holders : holder'[c].at # "saved" => holder'[c].files = {}
    BY <1>2 DEF AttachmentInv, Shapes
  <2> QED
    BY <2>1, <2>2, <2>3 DEF Shapes
<1>6. ASSUME NEW f \in Uploads, ~upload[f].excused
      PROVE  Agreed(f)'
  <2>1. /\ Alone(f) /\ Wanted(f)
        /\ \A s \in Tasks : Undisturbed(s, f) /\ Unwanted(s, f) /\ Dropped(s, f)
    BY <1>6 DEF AttachmentInv, FileInv, Agreed
  <2>2. f \in files => There(f) /\ (at = "remove file" => ~upload[f].active)
    BY DEF MayBegin, Stored, Active, There
  <2>3. f \in files /\ ~Busy(files) => \A s \in Tasks : f \notin task[s].files /\ f \notin task[s].old
    BY DEF Busy
  <2>4. Alone(f)'
    BY <1>1, <1>2, <1>3, <2>1 DEF MayBegin, Alone, Held, There
  <2>5. Wanted(f)'
    BY <1>1, <1>2, <1>3, <2>1 DEF MayBegin, Wanted, Held, There, Committed
  <2>6. f \in old => Held(f)
    BY DEF MayBegin, Held
  <2>7. Undisturbed(t, f)'
    BY <1>1, <1>2, <1>3, <2>1, <2>2, <2>3 DEF MayBegin, Undisturbed, Alone, Held, There
  <2>8. ASSUME NEW s \in Tasks \ {t} PROVE Undisturbed(s, f)'
    BY <1>1, <1>2, <1>3, <2>1, <2>6 DEF MayBegin, Undisturbed, Held, There
  <2>9. ASSUME NEW s \in Tasks PROVE Unwanted(s, f)'
    BY <1>1, <1>2, <1>3, <2>1, <2>2, <2>3 DEF MayBegin, Unwanted, Alone, Held
  <2>10. Dropped(t, f)'
    BY <1>1, <1>2, <1>3, <2>1 DEF MayBegin, Dropped, Alone, Committed
  <2>11. ASSUME NEW s \in Tasks \ {t} PROVE Dropped(s, f)'
    BY <1>1, <1>2, <1>3, <2>1 DEF MayBegin, Dropped, Committed
  <2> QED
    BY <2>4, <2>5, <2>7, <2>8, <2>9, <2>10, <2>11 DEF Agreed
<1>7. ASSUME NEW f \in Uploads PROVE FileInv(f)'
  BY <1>2, <1>6 DEF FileInv
<1> QED
  BY <1>4, <1>5, <1>7 DEF AttachmentInv

\* The five ways to begin.
LEMMA BeginsInv ==
  ASSUME AttachmentInv, NEW t \in Tasks,
         \/ \E d \in Holders, files \in SUBSET Uploads : CreateHolder(t, d, files)
         \/ \E d \in Holders, old, f \in Uploads : ReplaceFile(t, d, old, f) \/ ReplaceImage(t, d, old, f)
         \/ \E d \in Holders, f \in Uploads : AddFile(t, d, f)
         \/ \E d \in Holders : LoadHolder(t, d)
         \/ \E f \in Uploads : LoadFile(t, f)
  PROVE  AttachmentInv'
<1>1. ASSUME NEW d \in Holders, NEW files \in SUBSET Uploads, CreateHolder(t, d, files) PROVE AttachmentInv'
  <2>1. BeginTask(t, "validate", "create", d, files, {})
    BY <1>1 DEF CreateHolder, StartTask
  <2>2. MayBegin("validate", "create", d, files, {})
    BY <1>1 DEF CreateHolder, MayBegin
  <2> QED
    BY <2>1, <2>2, BeginInv
<1>2. ASSUME NEW d \in Holders, NEW old \in Uploads, NEW f \in Uploads, ReplaceFile(t, d, old, f)
      PROVE  AttachmentInv'
  <2>1. BeginTask(t, "validate", "replace", d, {f}, {old})
    BY <1>2 DEF ReplaceFile, StartTask
  <2>2. MayBegin("validate", "replace", d, {f}, {old})
    BY <1>2 DEF ReplaceFile, MayBegin
  <2> QED
    BY <2>1, <2>2, BeginInv
<1>3. ASSUME NEW d \in Holders, NEW old \in Uploads, NEW f \in Uploads, ReplaceImage(t, d, old, f)
      PROVE  AttachmentInv'
  <2>1. BeginTask(t, "validate", "exchange", d, {f}, {old})
    BY <1>3 DEF ReplaceImage, StartTask
  <2>2. MayBegin("validate", "exchange", d, {f}, {old})
    BY <1>3 DEF ReplaceImage, MayBegin
  <2> QED
    BY <2>1, <2>2, BeginInv
<1>4. ASSUME NEW d \in Holders, NEW f \in Uploads, AddFile(t, d, f) PROVE AttachmentInv'
  <2>1. BeginTask(t, "validate", "add", d, {f}, {})
    BY <1>4 DEF AddFile, StartTask
  <2>2. MayBegin("validate", "add", d, {f}, {})
    BY <1>4 DEF AddFile, MayBegin
  <2> QED
    BY <2>1, <2>2, BeginInv
<1>5. ASSUME NEW d \in Holders, LoadHolder(t, d) PROVE AttachmentInv'
  <2>1. BeginTask(t, "remove", "remove", d, {}, holder[d].files) /\ holder[d].files \in SUBSET Uploads
    BY <1>5 DEF LoadHolder, AttachmentInv, AttachmentTypes
  <2>2. MayBegin("remove", "remove", d, {}, holder[d].files)
    BY <1>5, <2>1 DEF LoadHolder, MayBegin
  <2> QED
    BY <2>1, <2>2, BeginInv
<1>6. ASSUME NEW f \in Uploads, LoadFile(t, f) PROVE AttachmentInv'
  <2>1. BeginTask(t, "remove file", "remove", "none", {f}, {})
    BY <1>6 DEF LoadFile
  <2>2. MayBegin("remove file", "remove", "none", {f}, {})
    BY <1>6 DEF LoadFile, MayBegin
  <2> QED
    BY <2>1, <2>2, BeginInv
<1> QED
  BY <1>1, <1>2, <1>3, <1>4, <1>5, <1>6

-----------------------------------------------------------------------------
\* What a step shows of a file that is not excused: nothing has happened to it before.
LEMMA FileSteps ==
  ASSUME AttachmentInv, AttachmentTypes', Shapes',
         \A f \in Uploads : upload[f].excused => upload'[f].excused,
         ASSUME NEW f \in Uploads, ~upload[f].excused, ~upload'[f].excused, Alone(f), Wanted(f),
                \A s \in Tasks : Undisturbed(s, f) /\ Unwanted(s, f) /\ Dropped(s, f)
         PROVE  Agreed(f)'
  PROVE  AttachmentInv'
<1>1. ASSUME NEW f \in Uploads, ~upload'[f].excused
      PROVE  Agreed(f)'
  BY <1>1 DEF AttachmentInv, FileInv, Agreed
<1> QED
  BY <1>1 DEF AttachmentInv, FileInv, Agreed

LEMMA ValidateInv ==
  ASSUME AttachmentInv, NEW t \in Tasks, Validate(t)
  PROVE  AttachmentInv'
<1>1. task[t].at = "validate" /\ UNCHANGED <<upload, holder>> /\ task[t] \in TaskStates /\ Shaped(task[t])
  BY DEF Validate, Accept, AttachmentInv, AttachmentTypes, Shapes
<1>2. \A s \in Tasks \ {t} : task'[s] = task[s]
  BY DEF Validate, Accept, AttachmentInv, AttachmentTypes
<1>3. \/ Ends(t) /\ task'[t] = NoTask
      \/ /\ Becomes(t, "save") /\ task'[t] = [task[t] EXCEPT !.at = "save"]
         /\ task[t].op = "create" /\ task[t].of \in Singles => task[t].files \cap Active = {}
  <2>1. ASSUME NEW valid, Accept(t, valid)
        PROVE  task'[t] = IF valid THEN [task[t] EXCEPT !.at = "save"] ELSE NoTask
    BY <2>1 DEF Accept, AttachmentInv, AttachmentTypes
  <2>2. task'[t] = NoTask => Ends(t)
    BY NoTaskState DEF Ends
  <2>3. task'[t] = [task[t] EXCEPT !.at = "save"] => Becomes(t, "save")
    BY <1>1 DEF TaskStates, Becomes
  <2>4. CASE Accept(t, FALSE)
    BY <2>1, <2>2, <2>4
  <2>5. CASE Accept(t, task[t].op = "create" /\ task[t].of \in Singles => task[t].files \cap Active = {})
    BY <2>1, <2>2, <2>3, <2>5
  <2> QED
    BY <2>4, <2>5 DEF Validate
<1>4. task'[t] \in TaskStates
  BY <1>1, <1>3, NoTaskState DEF TaskStates
<1>5. AttachmentTypes'
  BY <1>1, <1>2, <1>4 DEF Validate, Accept, AttachmentInv, AttachmentTypes
<1>6. Shaped(task'[t])
  BY <1>1, <1>3, NoTaskState DEF Shaped, Becomes
<1>7. Shapes'
  BY <1>1, <1>2, <1>6 DEF AttachmentInv, Shapes
<1>8. ASSUME NEW f \in Uploads, ~upload[f].excused, Alone(f), Wanted(f),
             \A s \in Tasks : Undisturbed(s, f) /\ Unwanted(s, f) /\ Dropped(s, f)
      PROVE  Agreed(f)'
  <2>1. Alone(f)'
    BY <1>1, <1>2, <1>3, <1>8 DEF Alone, Held, There, Becomes, Ends
  <2>2. Wanted(f)'
    BY <1>1, <1>2, <1>3, <1>8 DEF Wanted, Held, There, Committed, Becomes, Ends
  <2>3. Undisturbed(t, f)'
    BY <1>1, <1>2, <1>3, <1>8 DEF Undisturbed, Held, There, Becomes, Ends, Active, Stored
  <2>4. ASSUME NEW s \in Tasks \ {t} PROVE Undisturbed(s, f)'
    BY <1>1, <1>2, <1>3, <1>8 DEF Undisturbed, Held, There, Becomes, Ends
  <2>5. ASSUME NEW s \in Tasks PROVE Unwanted(s, f)'
    BY <1>1, <1>2, <1>3, <1>8 DEF Unwanted, Held, Becomes, Ends
  <2>6. Dropped(t, f)'
    BY <1>1, <1>3, <1>8 DEF Dropped, Committed, Becomes, Ends
  <2>7. ASSUME NEW s \in Tasks \ {t} PROVE Dropped(s, f)'
    BY <1>1, <1>2, <1>8 DEF Dropped, Committed
  <2> QED
    BY <2>1, <2>2, <2>3, <2>4, <2>5, <2>6, <2>7 DEF Agreed
<1> QED
  BY <1>1, <1>5, <1>7, <1>8, FileSteps

\* A request ends, and files may go that no document has.
LEMMA EndInv ==
  ASSUME AttachmentInv, NEW t \in Tasks, NEW files,
         Others(t), Overtaken(t, files), Ends(t), Shaped(task'[t]), task' \in [Tasks -> TaskStates],
         UNCHANGED holder,
         upload' \in [Uploads -> [at : {"saved", "removed"}, active : BOOLEAN, excused : BOOLEAN]],
         \A f \in Uploads :
           /\ upload[f].excused => upload'[f].excused
           /\ upload'[f].at = (IF f \in files THEN "removed" ELSE upload[f].at)
           /\ upload'[f].active = upload[f].active,
         \A f \in Uploads : ~upload'[f].excused =>
           /\ f \in files => ~Held(f)
           /\ f \notin files => ~(Committed(t) /\ f \in task[t].old)
           /\ f \notin files => ~(task[t].at = "activate" /\ f \in task[t].files)
  PROVE  AttachmentInv'
<1>0. AttachmentTypes'
  BY DEF AttachmentInv, AttachmentTypes
<1>1. Shapes'
  BY ShapesKept DEF AttachmentInv, Shapes
<1>2. ASSUME NEW f \in Uploads, ~upload[f].excused, ~upload'[f].excused, Alone(f), Wanted(f),
             \A s \in Tasks : Undisturbed(s, f) /\ Unwanted(s, f) /\ Dropped(s, f)
      PROVE  Agreed(f)'
  <2>1. There(f)' <=> There(f) /\ f \notin files
    BY DEF There
  <2>2. Held(f)' <=> Held(f)
    BY DEF Held
  <2>3. \A s \in Tasks : f \in task'[s].old => f \in task[s].old /\ s # t
    BY DEF Ends, Others, Going
  <2>4. \A s \in Tasks : f \in task'[s].files => f \in task[s].files /\ s # t
    BY DEF Ends, Others, Going
  <2>5. Alone(f)'
    <3>1. Held(f)' => There(f)' /\ f \notin files
      BY <1>2, <2>1, <2>2 DEF Alone
    <3>2. \A s \in Tasks : task[s].at = "activate" /\ f \in task[s].files /\ f \notin files
             => task'[s].at = "activate" /\ f \in task'[s].files
      BY <1>2 DEF Committed, Others, Going
    <3> QED
      BY <1>2, <2>2, <3>1, <3>2 DEF Alone
  <2>6. Wanted(f)'
    <3>1. CASE f \in files
      BY <2>1, <3>1 DEF Wanted
    <3>2. CASE f \notin files
      <4>1. \A s \in Tasks : Committed(s)' /\ f \in task'[s].files => Committed(s) /\ f \in task[s].files
        BY <2>4 DEF Committed, Others, Going
      <4>2. \A s \in Tasks : Committed(s) /\ f \in task[s].old => Committed(s)' /\ f \in task'[s].old
        BY <1>2, <3>2 DEF Committed, Others, Going
      <4> QED
        BY <1>2, <2>1, <2>2, <4>1, <4>2 DEF Wanted
    <3> QED
      BY <3>1, <3>2
  <2>7. Undisturbed(t, f)' /\ Unwanted(t, f)' /\ Dropped(t, f)'
    BY DEF Undisturbed, Unwanted, Dropped, Ends
  <2>8. ASSUME NEW s \in Tasks \ {t} PROVE Undisturbed(s, f)'
    <3>1. f \in files /\ f \in task[s].files => task'[s].over
      BY DEF Overtaken
    <3> QED
      BY <1>2, <2>1, <2>2, <2>3, <3>1 DEF Undisturbed, Others, Going
  <2>9. ASSUME NEW s \in Tasks \ {t} PROVE Unwanted(s, f)'
    BY <1>2, <2>2 DEF Unwanted, Others, Going
  <2>10. ASSUME NEW s \in Tasks \ {t} PROVE Dropped(s, f)'
    <3>1. Dropped(s, f) /\ Going(s) /\ holder' = holder
      BY <1>2 DEF Others
    <3> QED
      BY <3>1 DEF Dropped, Committed, Going
  <2> QED
    BY <2>5, <2>6, <2>7, <2>8, <2>9, <2>10 DEF Agreed
<1> QED
  BY <1>0, <1>1, <1>2, FileSteps

\* A request that has changed nothing yet ends.
LEMMA IdleInv ==
  ASSUME AttachmentInv, NEW t \in Tasks, ~Committed(t), Finish(t), UNCHANGED holder, Excused({}),
         upload' \in [Uploads -> [at : {"saved", "removed"}, active : BOOLEAN, excused : BOOLEAN]]
  PROVE  AttachmentInv'
<1>1. /\ task'[t] = NoTask /\ task' \in [Tasks -> TaskStates]
      /\ \A s \in Tasks \ {t} : task'[s] = task[s]
  BY NoTaskState DEF Finish, AttachmentInv, AttachmentTypes
<1>2. Ends(t) /\ Shaped(task'[t]) /\ Others(t) /\ Overtaken(t, {})
  BY <1>1, NoTaskState DEF Ends, Others, Going, Overtaken
<1>3. ASSUME NEW f \in Uploads, ~upload'[f].excused
      PROVE  ~(Committed(t) /\ f \in task[t].old) /\ ~(task[t].at = "activate" /\ f \in task[t].files)
  BY DEF Committed
<1>4. \A f \in Uploads :
        /\ upload[f].excused => upload'[f].excused
        /\ upload'[f].at = (IF f \in {} THEN "removed" ELSE upload[f].at)
        /\ upload'[f].active = upload[f].active
  BY DEF Excused
<1> QED
  BY <1>1, <1>2, <1>3, <1>4, EndInv

\* Who is not refused takes a file that is neither active nor referred to, or excuses it.
LEMMA SaveHolderInv ==
  ASSUME AttachmentInv, NEW t \in Tasks, SaveHolder(t)
  PROVE  AttachmentInv'
<1> DEFINE d == task[t].of
           saved == [at |-> "saved", files |-> (holder[d].files \ task[t].old) \cup task[t].files]
           taken == {f \in task[t].files : task[t].op # "create" \/ d \in Versioned}
                      \cap {f \in Uploads : f \in Active \/ HoldersOf(f) # {}}
           excused == taken \cup (IF task[t].over THEN task[t].files ELSE {})
                        \cup (IF task[t].op = "exchange" THEN task[t].old ELSE {})
<1>1. task[t].at = "save" /\ task[t] \in TaskStates /\ Shaped(task[t]) /\ d \in Holders
  BY DEF SaveHolder, AttachmentInv, AttachmentTypes, Shapes, Shaped
<1>2. CASE Finish(t) /\ UNCHANGED <<upload, holder>>
  <2>1. Excused({}) /\ UNCHANGED holder
    BY <1>2 DEF Excused
  <2>2. upload' \in [Uploads -> [at : {"saved", "removed"}, active : BOOLEAN, excused : BOOLEAN]]
    BY <1>2 DEF AttachmentInv, AttachmentTypes
  <2> QED
    BY <1>1, <1>2, <2>1, <2>2, IdleInv DEF Committed
<1>3. CASE holder' = [holder EXCEPT ![d] = saved] /\ Overtaking(t, At(t, "activate"), task[t].files)
           /\ upload' = Excuse(excused)
  <2>1. task' \in [Tasks -> TaskStates] /\ Becomes(t, "activate") /\ Others(t) /\ Overtaken(t, task[t].files)
    <3>1. task' \in [Tasks -> TaskStates] /\ task'[t] = At(t, "activate") /\ Others(t)
          /\ Overtaken(t, task[t].files)
      BY <1>3, OvertakingDoes, AtDoes DEF AttachmentInv
    <3> QED
      BY <3>1, AtBecomes DEF AttachmentInv
  <2>2. AttachmentTypes' /\ Excused(excused)
    <3>1. holder' \in [Holders -> [at : {"unsaved", "saved", "removed"}, files : SUBSET Uploads]]
      BY <1>1, <1>3 DEF AttachmentInv, AttachmentTypes, TaskStates
    <3> QED
      BY <1>3, <2>1, <3>1, ExcuseDoes DEF AttachmentInv, AttachmentTypes
  <2>3. /\ holder'[d].at = "saved" /\ holder'[d].files = (holder[d].files \ task[t].old) \cup task[t].files
        /\ \A c \in Holders \ {d} : holder'[c] = holder[c]
    BY <1>1, <1>3 DEF AttachmentInv, AttachmentTypes
  <2>4. Shapes'
    <3>1. Shaped(task[t])'
      BY <1>1, <2>1 DEF Shaped, Becomes
    <3> QED
      BY <2>1, <2>3, <3>1, ShapesKept DEF AttachmentInv, Shapes
  <2>5. ASSUME NEW f \in Uploads, ~upload[f].excused, ~upload'[f].excused, Alone(f), Wanted(f),
               \A s \in Tasks : Undisturbed(s, f) /\ Unwanted(s, f) /\ Dropped(s, f)
        PROVE  Agreed(f)'
    <3>1. f \notin excused /\ (There(f)' <=> There(f)) /\ upload'[f].active = upload[f].active
      BY <2>2, <2>5 DEF Excused, There
    <3>2. f \in task[t].files =>
            /\ There(f) /\ ~upload[f].active /\ ~Held(f) /\ f \notin task[t].old
            /\ \A s \in Tasks : f \notin task[s].old
      <4> SUFFICES ASSUME f \in task[t].files
                   PROVE  /\ There(f) /\ ~upload[f].active /\ ~Held(f) /\ f \notin task[t].old
                          /\ \A s \in Tasks : f \notin task[s].old
        OBVIOUS
      <4>1. ~task[t].over
        BY <3>1
      <4>2. There(f) /\ f \notin task[t].old
        BY <1>1, <2>5, <4>1 DEF Undisturbed, Shaped
      <4>3. ~upload[f].active
        <5>1. CASE task[t].op = "create" /\ d \notin Versioned
          BY <1>1, <2>5, <4>1, <5>1 DEF Undisturbed, Holders
        <5>2. CASE ~(task[t].op = "create" /\ d \notin Versioned)
          BY <3>1, <4>2, <5>2 DEF Active, Stored, There
        <5> QED
          BY <5>1, <5>2
      <4>4. ~Held(f) /\ \A s \in Tasks \ {t} : f \notin task[s].old
        BY <1>1, <2>5, <4>1, <4>3 DEF Undisturbed
      <4> QED
        BY <4>2, <4>3, <4>4
    <3>3. task[t].op = "exchange" => f \notin task[t].old
      BY <3>1
    <3>4. \A c \in Holders : f \in holder'[c].files <=>
            (f \in holder[c].files /\ ~(c = d /\ f \in task[t].old)) \/ (c = d /\ f \in task[t].files)
      BY <1>1, <2>3
    <3> HIDE DEF d, saved, taken, excused
    <3>5. Alone(f)'
      BY <1>1, <2>1, <2>5, <3>1, <3>2, <3>4 DEF Alone, Held, Becomes, Others, Going
    <3>6. Wanted(f)'
      <4>1. ASSUME Held(f), ~Held(f)' PROVE f \in task[t].old /\ task[t].op # "exchange"
        BY <1>1, <3>3, <3>4, <4>1 DEF Held
      <4>2. f \in task[t].files => Held(f)'
        BY <1>1, <3>4 DEF Held
      <4>3. Committed(t)' /\ task'[t].old = task[t].old /\ task'[t].files = task[t].files /\ ~Committed(t)
        BY <1>1, <2>1 DEF Becomes, Committed
      <4>4. \A s \in Tasks \ {t} :
              /\ Committed(s)' <=> Committed(s)
              /\ task'[s].old = task[s].old /\ task'[s].files = task[s].files
        BY <2>1 DEF Committed, Others, Going
      <4> QED
        BY <2>5, <3>1, <4>1, <4>2, <4>3, <4>4 DEF Wanted
    <3>7. Undisturbed(t, f)' /\ Unwanted(t, f)'
      BY <2>1 DEF Undisturbed, Unwanted, Becomes
    <3>8. ASSUME NEW s \in Tasks \ {t} PROVE Undisturbed(s, f)'
      <4>1. f \in task[t].files /\ f \in task[s].files => task'[s].over
        BY <2>1 DEF Overtaken
      <4>2. Held(f)' => Held(f) \/ f \in task[t].files
        BY <3>4 DEF Held
      <4> QED
        BY <2>1, <2>5, <3>1, <4>1, <4>2 DEF Undisturbed, Becomes, Others, Going
    <3>9. ASSUME NEW s \in Tasks \ {t} PROVE Unwanted(s, f)'
      <4>1. f \in task[t].files /\ f \in task[s].files => task'[s].over
        BY <2>1 DEF Overtaken
      <4>2. Held(f)' => Held(f) \/ f \in task[t].files
        BY <3>4 DEF Held
      <4> QED
        BY <2>1, <2>5, <4>1, <4>2 DEF Unwanted, Others, Going
    <3>10. Dropped(t, f)'
      BY <1>1, <2>1, <2>5, <3>2, <3>3, <3>4 DEF Dropped, Committed, Becomes, d
    <3>11. ASSUME NEW s \in Tasks \ {t} PROVE Dropped(s, f)'
      BY <2>1, <2>5, <3>2, <3>4 DEF Dropped, Committed, Others, Going
    <3> QED
      BY <3>5, <3>6, <3>7, <3>8, <3>9, <3>10, <3>11 DEF Agreed
  <2> QED
    BY <2>2, <2>4, <2>5, FileSteps DEF Excused
<1> QED
  BY <1>2, <1>3 DEF SaveHolder

LEMMA ActivateInv ==
  ASSUME AttachmentInv, NEW t \in Tasks, ActivateFiles(t)
  PROVE  AttachmentInv'
<1>1. task[t].at = "activate" /\ task[t] \in TaskStates /\ Shaped(task[t]) /\ UNCHANGED holder
  BY DEF ActivateFiles, AttachmentInv, AttachmentTypes, Shapes
<1>2. /\ upload' \in [Uploads -> [at : {"saved", "removed"}, active : BOOLEAN, excused : BOOLEAN]]
      /\ \A f \in Uploads :
           /\ upload'[f].at = upload[f].at /\ (upload'[f].excused <=> upload[f].excused)
           /\ upload'[f].active <=> upload[f].active \/ (f \in task[t].files /\ There(f))
  <2>1. upload' = [f \in Uploads |->
          [upload[f] EXCEPT !.active = @ \/ (f \in task[t].files \cap Stored)]]
    BY DEF ActivateFiles
  <2>2. \A f \in Uploads :
          upload[f] \in [at : {"saved", "removed"}, active : BOOLEAN, excused : BOOLEAN]
    BY DEF AttachmentInv, AttachmentTypes
  <2>3. \A f \in Uploads : f \in task[t].files \cap Stored <=> f \in task[t].files /\ There(f)
    BY DEF Stored, There
  <2> QED
    BY <2>1, <2>2, <2>3
<1>3. /\ task' \in [Tasks -> TaskStates] /\ Others(t) /\ Overtaken(t, task[t].files)
      /\ \/ Becomes(t, "remove old")
         \/ task[t].op # "replace" /\ Ends(t) /\ Shaped(task'[t])
  <2>1. CASE task[t].op = "replace"
    <3>1. Overtaking(t, At(t, "remove old"), task[t].files)
      BY <2>1 DEF ActivateFiles
    <3>2. task' \in [Tasks -> TaskStates] /\ Others(t) /\ Overtaken(t, task[t].files)
          /\ task'[t] = At(t, "remove old")
      BY <3>1, OvertakingDoes, AtDoes DEF AttachmentInv
    <3> QED
      BY <3>2, AtBecomes DEF AttachmentInv
  <2>2. CASE task[t].op # "replace"
    <3>1. Overtaking(t, NoTask, task[t].files)
      BY <2>2 DEF ActivateFiles
    <3> QED
      BY <2>2, <3>1, OvertakingDoes, NoTaskState DEF AttachmentInv, Ends
  <2> QED
    BY <2>1, <2>2
<1>4. AttachmentTypes'
  BY <1>1, <1>2, <1>3 DEF AttachmentInv, AttachmentTypes
<1>5. Shapes'
  <2>1. Shaped(task[t])'
    BY <1>1, <1>3 DEF Shaped, Becomes
  <2> QED
    BY <1>1, <1>3, <2>1, ShapesKept DEF AttachmentInv, Shapes
<1>6. ASSUME NEW f \in Uploads, ~upload[f].excused, ~upload'[f].excused, Alone(f), Wanted(f),
             \A s \in Tasks : Undisturbed(s, f) /\ Unwanted(s, f) /\ Dropped(s, f)
      PROVE  Agreed(f)'
  <2>1. There(f)' <=> There(f)
    BY <1>2 DEF There
  <2>2. Alone(f)'
    BY <1>1, <1>2, <1>3, <1>6, <2>1 DEF Alone, Held, Others, Going
  <2>3. Wanted(f)'
    <3>1. ASSUME There(f), upload'[f].active \/ \E s \in Tasks : Committed(s)' /\ f \in task'[s].files
          PROVE  upload[f].active \/ \E s \in Tasks : Committed(s) /\ f \in task[s].files
      BY <1>1, <1>2, <1>3, <3>1 DEF Committed, Becomes, Ends, Others, Going
    <3>2. ASSUME NEW s \in Tasks, Committed(s), f \in task[s].old
          PROVE  Committed(s)' /\ f \in task'[s].old
      <4>1. CASE s = t
        BY <1>1, <1>3, <1>6, <3>2, <4>1 DEF Committed, Becomes, Dropped, Shaped
      <4>2. CASE s # t
        BY <1>3, <3>2, <4>2 DEF Committed, Others, Going
      <4> QED
        BY <4>1, <4>2
    <3> QED
      BY <1>1, <1>6, <2>1, <3>1, <3>2 DEF Wanted, Held
  <2>4. Undisturbed(t, f)' /\ Unwanted(t, f)'
    BY <1>3 DEF Undisturbed, Unwanted, Becomes, Ends
  <2>5. ASSUME NEW s \in Tasks \ {t} PROVE Undisturbed(s, f)'
    <3>1. f \in task[t].files /\ f \in task[s].files => task'[s].over
      BY <1>3 DEF Overtaken
    <3>2. \A r \in Tasks : f \in task'[r].old => f \in task[r].old
      BY <1>3 DEF Becomes, Ends, Others, Going
    <3>3. (upload'[f].active <=> upload[f].active \/ (f \in task[t].files /\ There(f))) /\ (Held(f)' <=> Held(f))
      BY <1>1, <1>2 DEF Held
    <3>4. Undisturbed(s, f) /\ Going(s)
      BY <1>3, <1>6 DEF Others
    <3> QED
      BY <2>1, <3>1, <3>2, <3>3, <3>4 DEF Undisturbed, Going
  <2>6. ASSUME NEW s \in Tasks \ {t} PROVE Unwanted(s, f)'
    BY <1>1, <1>3, <1>6 DEF Unwanted, Held, Others, Going
  <2>7. Dropped(t, f)'
    BY <1>1, <1>3, <1>6 DEF Dropped, Committed, Becomes, Ends
  <2>8. ASSUME NEW s \in Tasks \ {t} PROVE Dropped(s, f)'
    BY <1>1, <1>3, <1>6 DEF Dropped, Committed, Others, Going
  <2> QED
    BY <2>2, <2>3, <2>4, <2>5, <2>6, <2>7, <2>8 DEF Agreed
<1> QED
  BY <1>2, <1>4, <1>5, <1>6, FileSteps

\* A document goes, and what it had is dropped by who loaded it.
LEMMA RemoveHolderInv ==
  ASSUME AttachmentInv, NEW t \in Tasks, RemoveHolder(t)
  PROVE  AttachmentInv'
<1> DEFINE d == task[t].of
<1>1. task[t].at = "remove" /\ task[t] \in TaskStates /\ Shaped(task[t]) /\ d \in Holders
  BY DEF RemoveHolder, AttachmentInv, AttachmentTypes, Shapes, Shaped
<1>2. /\ task' \in [Tasks -> TaskStates] /\ Others(t) /\ Becomes(t, "remove old")
  <2>1. Overtaking(t, At(t, "remove old"), {})
    BY DEF RemoveHolder
  <2>2. task' \in [Tasks -> TaskStates] /\ Others(t) /\ task'[t] = At(t, "remove old")
    BY <2>1, OvertakingDoes, AtDoes DEF AttachmentInv
  <2> QED
    BY <2>2, AtBecomes DEF AttachmentInv
<1>3. /\ upload' \in [Uploads -> [at : {"saved", "removed"}, active : BOOLEAN, excused : BOOLEAN]]
      /\ Excused(holder[d].files \ task[t].old)
  BY ExcuseDoes DEF RemoveHolder, AttachmentInv
<1>4. /\ holder' \in [Holders -> [at : {"unsaved", "saved", "removed"}, files : SUBSET Uploads]]
      /\ holder'[d].at = "removed" /\ holder'[d].files = {}
      /\ \A c \in Holders \ {d} : holder'[c] = holder[c]
  BY <1>1 DEF RemoveHolder, AttachmentInv, AttachmentTypes
<1>5. AttachmentTypes'
  BY <1>2, <1>3, <1>4 DEF AttachmentTypes
<1>6. Shapes'
  <2>1. Shaped(task[t])'
    BY <1>1, <1>2 DEF Shaped, Becomes
  <2>2. \A c \in Holders : holder'[c].at # "saved" => holder'[c].files = {}
    BY <1>1, <1>4 DEF AttachmentInv, Shapes
  <2> QED
    BY <1>2, <2>1, <2>2, ShapesKept DEF AttachmentInv
<1>7. ASSUME NEW f \in Uploads, ~upload[f].excused, ~upload'[f].excused, Alone(f), Wanted(f),
             \A s \in Tasks : Undisturbed(s, f) /\ Unwanted(s, f) /\ Dropped(s, f)
      PROVE  Agreed(f)'
  <2>1. /\ (There(f)' <=> There(f)) /\ upload'[f].active = upload[f].active
        /\ f \in holder[d].files => f \in task[t].old
    BY <1>3, <1>7 DEF Excused, There
  <2>2. \A c \in Holders : f \in holder'[c].files => f \in holder[c].files /\ c # d
    BY <1>1, <1>4
  <2>3. Held(f) => Held(f)' \/ (Committed(t)' /\ f \in task'[t].old)
    BY <1>1, <1>2, <1>4, <2>1 DEF Held, Becomes, Committed
  <2>4. Held(f)' => Held(f)
    BY <2>2 DEF Held
  <2> HIDE DEF d
  <2>5. Alone(f)'
    BY <1>1, <1>2, <1>7, <2>1, <2>2, <2>4 DEF Alone, Becomes, Others, Going
  <2>6. Wanted(f)'
    <3>1. \A s \in Tasks : f \in task'[s].files => f \in task[s].files /\ (s = t \/ task'[s].at = task[s].at)
      BY <1>2 DEF Becomes, Others, Going
    <3>2. f \notin task[t].files
      BY <1>1 DEF Shaped
    <3>3. \A s \in Tasks : Committed(s) /\ f \in task[s].old => Committed(s)' /\ f \in task'[s].old
      BY <1>1, <1>2 DEF Committed, Becomes, Others, Going
    <3> QED
      BY <1>2, <1>7, <2>1, <2>3, <3>1, <3>2, <3>3 DEF Wanted, Committed
  <2>7. Undisturbed(t, f)' /\ Unwanted(t, f)'
    BY <1>2 DEF Undisturbed, Unwanted, Becomes
  <2>8. ASSUME NEW s \in Tasks \ {t} PROVE Undisturbed(s, f)'
    <3>1. \A r \in Tasks : f \in task'[r].old => f \in task[r].old
      BY <1>2 DEF Becomes, Others, Going
    <3> QED
      BY <1>2, <1>7, <2>1, <2>4, <3>1 DEF Undisturbed, Others, Going
  <2>9. ASSUME NEW s \in Tasks \ {t} PROVE Unwanted(s, f)'
    BY <1>2, <1>7, <2>4 DEF Unwanted, Others, Going
  <2>10. Dropped(t, f)'
    BY <1>1, <1>2, <1>7, <2>2 DEF Dropped, Committed, Becomes, d
  <2>11. ASSUME NEW s \in Tasks \ {t} PROVE Dropped(s, f)'
    BY <1>2, <1>7, <2>2 DEF Dropped, Committed, Others, Going
  <2> QED
    BY <2>5, <2>6, <2>7, <2>8, <2>9, <2>10, <2>11 DEF Agreed
<1> QED
  BY <1>3, <1>5, <1>6, <1>7, FileSteps DEF Excused

LEMMA RemoveOldInv ==
  ASSUME AttachmentInv, NEW t \in Tasks, RemoveOld(t)
  PROVE  AttachmentInv'
<1>1. task[t].at = "remove old" /\ UNCHANGED holder /\ Overtaking(t, NoTask, task[t].old)
  BY DEF RemoveOld
<1>2. /\ task' \in [Tasks -> TaskStates] /\ Others(t) /\ Overtaken(t, task[t].old) /\ Ends(t)
      /\ Shaped(task'[t])
  BY <1>1, OvertakingDoes, NoTaskState DEF AttachmentInv, Ends
<1>3. /\ upload' \in [Uploads -> [at : {"saved", "removed"}, active : BOOLEAN, excused : BOOLEAN]]
      /\ \A f \in Uploads :
           /\ upload'[f].excused = upload[f].excused
           /\ upload'[f].at = (IF f \in task[t].old THEN "removed" ELSE upload[f].at)
           /\ upload'[f].active = upload[f].active
  <2>1. upload' = [f \in Uploads |->
          IF f \in task[t].old THEN [upload[f] EXCEPT !.at = "removed"] ELSE upload[f]]
    BY DEF RemoveOld
  <2>2. upload \in [Uploads -> [at : {"saved", "removed"}, active : BOOLEAN, excused : BOOLEAN]]
    BY DEF AttachmentInv, AttachmentTypes
  <2> QED
    BY <2>1, <2>2
<1>4. ASSUME NEW f \in Uploads, ~upload[f].excused, f \in task[t].old PROVE ~Held(f)
  <2>1. Dropped(t, f)
    BY <1>4 DEF AttachmentInv, FileInv, Agreed
  <2> QED
    BY <1>1, <1>4, <2>1 DEF Dropped, Committed, Held
<1> QED
  BY <1>1, <1>2, <1>3, <1>4, EndInv

LEMMA RemoveFileInv ==
  ASSUME AttachmentInv, NEW t \in Tasks, RemoveFile(t)
  PROVE  AttachmentInv'
<1>1. task[t].at = "remove file" /\ UNCHANGED holder /\ Overtaking(t, NoTask, task[t].files)
  BY DEF RemoveFile
<1>2. /\ task' \in [Tasks -> TaskStates] /\ Others(t) /\ Overtaken(t, task[t].files) /\ Ends(t)
      /\ Shaped(task'[t])
  BY <1>1, OvertakingDoes, NoTaskState DEF AttachmentInv, Ends
<1>3. ASSUME NEW f \in Uploads
      PROVE  /\ upload'[f] \in [at : {"saved", "removed"}, active : BOOLEAN, excused : BOOLEAN]
             /\ upload[f].excused => upload'[f].excused
             /\ upload'[f].at = (IF f \in task[t].files THEN "removed" ELSE upload[f].at)
             /\ upload'[f].active = upload[f].active
             /\ f \in task[t].files /\ task[t].over => upload'[f].excused
  <2>1. upload[f] \in [at : {"saved", "removed"}, active : BOOLEAN, excused : BOOLEAN]
        /\ task[t].over \in BOOLEAN
    BY DEF AttachmentInv, AttachmentTypes, TaskStates
  <2>2. CASE f \in task[t].files
    <3>1. upload'[f] = [upload[f] EXCEPT !.at = "removed", !.excused = @ \/ task[t].over]
      BY <2>2 DEF RemoveFile
    <3> QED
      BY <2>1, <2>2, <3>1
  <2>3. CASE f \notin task[t].files
    BY <2>1, <2>3 DEF RemoveFile
  <2> QED
    BY <2>2, <2>3
<1>4. upload' \in [Uploads -> [at : {"saved", "removed"}, active : BOOLEAN, excused : BOOLEAN]]
  BY <1>3 DEF RemoveFile
<1>5. ASSUME NEW f \in Uploads, ~upload'[f].excused
      PROVE  f \in task[t].files => ~Held(f)
  <2>1. Unwanted(t, f)
    BY <1>3, <1>5 DEF AttachmentInv, FileInv, Agreed
  <2> QED
    BY <1>1, <1>3, <1>5, <2>1 DEF Unwanted
<1>6. ~Committed(t) /\ task[t].at # "activate"
  BY <1>1 DEF Committed
<1> QED
  BY <1>1, <1>2, <1>3, <1>4, <1>5, <1>6, EndInv

LEMMA TaskFailsInv ==
  ASSUME AttachmentInv, NEW t \in Tasks, TaskFails(t)
  PROVE  AttachmentInv'
<1> DEFINE dead == IF task[t].at \in {"activate", "remove old"} THEN task[t].files \cup task[t].old ELSE {}
<1>1. upload' = Excuse(dead) /\ Finish(t) /\ UNCHANGED holder
  BY DEF TaskFails
<1>2. \A f : Committed(t) /\ (f \in task[t].files \/ f \in task[t].old) => f \in dead
  BY DEF Committed
<1>3. upload' \in [Uploads -> [at : {"saved", "removed"}, active : BOOLEAN, excused : BOOLEAN]]
      /\ Excused(dead)
  BY <1>1, ExcuseDoes DEF AttachmentInv
<1> HIDE DEF dead
<1>4. (\A s \in Tasks \ {t} : task'[s] = task[s]) /\ task'[t] = NoTask /\ task' \in [Tasks -> TaskStates]
  BY <1>1, NoTaskState DEF Finish, AttachmentInv, AttachmentTypes
<1>5. Ends(t) /\ Shaped(task'[t]) /\ Others(t) /\ Overtaken(t, {})
  BY <1>4, NoTaskState DEF Ends, Others, Going, Overtaken
<1>6. ASSUME NEW f \in Uploads, ~upload'[f].excused
      PROVE  ~(Committed(t) /\ f \in task[t].old) /\ ~(task[t].at = "activate" /\ f \in task[t].files)
  BY <1>2, <1>3, <1>6 DEF Excused, Committed
<1>7. \A f \in Uploads :
        /\ upload[f].excused => upload'[f].excused
        /\ upload'[f].at = (IF f \in {} THEN "removed" ELSE upload[f].at)
        /\ upload'[f].active = upload[f].active
  BY <1>3 DEF Excused
<1> QED
  BY <1>1, <1>3, <1>4, <1>5, <1>6, <1>7, EndInv

-----------------------------------------------------------------------------
LEMMA AttachmentStepInv == AttachmentInv /\ [AttachmentStep]_attachmentVars => AttachmentInv'
<1> SUFFICES ASSUME AttachmentInv, [AttachmentStep]_attachmentVars PROVE AttachmentInv'
  OBVIOUS
<1>1. CASE UNCHANGED attachmentVars
  <2>1. AttachmentTypes' /\ Shapes'
    BY <1>1 DEF attachmentVars, AttachmentInv, AttachmentTypes, Shapes, Shaped
  <2>2. ASSUME NEW f \in Uploads
        PROVE  (Alone(f)' <=> Alone(f)) /\ (Wanted(f)' <=> Wanted(f))
               /\ upload'[f].excused = upload[f].excused
    BY <1>1 DEF attachmentVars, Alone, Wanted, Held, There, Committed
  <2>3. ASSUME NEW f \in Uploads, NEW t \in Tasks
        PROVE  /\ Undisturbed(t, f)' <=> Undisturbed(t, f)
               /\ Unwanted(t, f)' <=> Unwanted(t, f)
               /\ Dropped(t, f)' <=> Dropped(t, f)
    BY <1>1 DEF attachmentVars, Undisturbed, Unwanted, Dropped, Held, There, Committed
  <2> QED
    BY <2>1, <2>2, <2>3 DEF AttachmentInv, FileInv, Agreed
<1>2. CASE AttachmentStep
  BY <1>2, BeginsInv, ValidateInv, SaveHolderInv, ActivateInv, RemoveOldInv, RemoveHolderInv,
     RemoveFileInv, TaskFailsInv DEF AttachmentStep
<1> QED
  BY <1>1, <1>2

\* Whatever requests create, change and remove documents and delete files at once, and die at any
\* await: what a document refers to exists, and an active file has a document or is about to
\* be removed, but for the files something happened to that the code does not guard against.
THEOREM FilesAgree == AttachmentSpec => []FilesAccounted
<1>1. AttachmentInv => FilesAccounted
  <2> SUFFICES ASSUME AttachmentInv PROVE FilesPresent /\ NoneForgotten
    BY DEF FilesAccounted
  <2>1. FilesPresent
    BY DEF AttachmentInv, AttachmentTypes, FileInv, Agreed, Alone, Held, There, FilesPresent, Stored
  <2>2. ASSUME NEW f \in Active, ~upload[f].excused
        PROVE  HoldersOf(f) # {} \/ \E t \in Tasks : f \in task[t].old
    <3>1. f \in Uploads /\ Wanted(f) /\ There(f) /\ upload[f].active
      BY <2>2 DEF Active, Stored, There, AttachmentInv, FileInv, Agreed
    <3>2. Held(f) => HoldersOf(f) # {}
      BY DEF AttachmentInv, Shapes, Held, HoldersOf
    <3> QED
      BY <3>1, <3>2 DEF Wanted
  <2> QED
    BY <2>1, <2>2 DEF NoneForgotten
<1> QED
  BY AttachmentInitInv, AttachmentStepInv, <1>1, PTL DEF AttachmentSpec

=============================================================================
