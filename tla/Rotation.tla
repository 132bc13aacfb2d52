------------------------------ MODULE Rotation ------------------------------
(***************************************************************************)
(* The rotation of a playfield image by requests that create a release,    *)
(* add a version or update one (release.abstract.api.ts): the file is      *)
(* rotated before the request is validated, and what was rotated is        *)
(* recorded as `unvalidatedRotation` of the file's document, which becomes *)
(* its `rotation` once the request has passed.  One image, one request at  *)
(* a time, and a process that may die at every await.  Angles are quarter  *)
(* turns.                                                                  *)
(***************************************************************************)
EXTENDS Naturals

CONSTANT Unset

Angles == 0 .. 3

ASSUME UnsetAssumption == Unset \notin Angles

Turn(from, angle) == (from + angle) % 4

VARIABLES
  image,     \* disk: how the file is turned; rotation, unvalidated: what its document
             \* says; used: in a release
  rotating,  \* the request: kind, angle, where it is, what it has loaded, and whether
             \* the file was as accepted when it began
  accepted,  \* history: the turns of the requests that passed
  spoiled    \* history: a turn the code does not follow, see below

rotationVars == <<image, rotating, accepted, spoiled>>

-----------------------------------------------------------------------------
NoRotation == [at |-> "none", kind |-> "none", angle |-> 0, unvalidated |-> Unset,
               sound |-> TRUE]

RotationInit ==
  /\ image = [disk |-> 0, rotation |-> 0, unvalidated |-> Unset, used |-> FALSE]
  /\ rotating = NoRotation
  /\ accepted = 0
  /\ spoiled = FALSE

\* Mutant of Target: the rotation starts from the one of a request that was rejected.
TargetOfRetry(angle) ==
  Turn(IF image.unvalidated = Unset THEN image.rotation ELSE image.unvalidated, angle)

\* Counted from the original, of which backupFile keeps a copy, and the rotation that is
\* validated; so a retry does not add up.
Target(angle) == Turn(image.rotation, angle)

\* preProcess: loads the document, rotates the file.  Angle 0 only records the size.
\* An image in use is refused by create and addVersion, as it is active.
RotateFile(kind, angle) ==
  /\ rotating.at = "none"
  /\ kind = "create" => ~image.used
  /\ rotating' = [at |-> "record", kind |-> kind, angle |-> angle, sound |-> image.disk = accepted,
                  unvalidated |-> IF angle = 0 THEN image.unvalidated ELSE Target(angle)]
  /\ image' = IF angle = 0 THEN image ELSE [image EXCEPT !.disk = Target(angle)]
  /\ spoiled' = (spoiled \/ (angle = 0 /\ image.disk # accepted))
  /\ UNCHANGED accepted

\* preProcess persists the unvalidated rotation.
RecordUnvalidated ==
  /\ rotating.at = "record"
  /\ image' = [image EXCEPT !.unvalidated = rotating.unvalidated]
  /\ rotating' = [rotating EXCEPT !.at = "validate"]
  /\ UNCHANGED <<accepted, spoiled>>

\* The document is valid and saved.
PassValidation ==
  /\ rotating.at = "validate"
  /\ rotating' = [rotating EXCEPT !.at = "post"]
  /\ image' = [image EXCEPT !.used = TRUE]
  /\ accepted' = Turn(accepted, rotating.angle)
  /\ UNCHANGED spoiled

\* postProcess: a rotation back to 0 is falsy and not recorded.
PostProcess ==
  /\ rotating.at = "post"
  /\ IF image.unvalidated \in Angles \ {0}
       THEN image' = [image EXCEPT !.rotation = image.unvalidated, !.unvalidated = Unset]
       ELSE UNCHANGED image
  /\ spoiled' = (spoiled \/ (image.unvalidated = 0 /\ image.rotation # 0))
  /\ rotating' = NoRotation
  /\ UNCHANGED accepted

\* Only updateVersion rolls back; creating a release or a version leaves the file to the
\* retry.
FailValidation ==
  /\ rotating.at = "validate"
  /\ rotating' = IF rotating.kind = "update" THEN [rotating EXCEPT !.at = "rollback"] ELSE NoRotation
  /\ UNCHANGED <<image, accepted, spoiled>>

\* rollbackPreProcess: rotates the original by the rotation, where preProcess rotates by
\* its negative.  Afterwards the unvalidated rotation is gone.
Rollback ==
  /\ rotating.at = "rollback"
  /\ image' = [image EXCEPT !.disk = IF rotating.angle = 0 THEN @ ELSE (4 - image.rotation) % 4,
                            !.unvalidated = IF rotating.angle = 0 THEN @ ELSE Unset]
  /\ spoiled' = (spoiled \/ (rotating.angle # 0 /\ image.rotation % 2 = 1))
  /\ rotating' = [rotating EXCEPT !.at = "none", !.kind = "rolledback"]
  /\ UNCHANGED accepted

\* The process dies, or preProcess throws for another file of the request.
AbandonRotation ==
  /\ rotating.at \in {"record", "validate", "post", "rollback"}
  /\ rotating' = NoRotation
  /\ spoiled' = (spoiled \/ rotating.at = "post")
  /\ UNCHANGED <<image, accepted>>

RotationStep ==
  \/ \E kind \in {"create", "update"}, angle \in Angles : RotateFile(kind, angle)
  \/ RecordUnvalidated \/ PassValidation \/ PostProcess
  \/ FailValidation \/ Rollback \/ AbandonRotation

RotationSpec == RotationInit /\ [][RotationStep]_rotationVars

-----------------------------------------------------------------------------
\* However many requests were rejected, rolled back or broken off in between, a request
\* that passes leaves the file turned by its angle from what was accepted before.  Spoiled
\* are images that were turned back to 0, that a rollback has turned the wrong way, whose
\* postProcess did not run, or that pass with angle 0 after a rejected turn
\* (release.abstract.api.ts:101-104, 154, 182).
ImageAsAccepted ==
  rotating.at = "post" /\ ~spoiled => image.disk = accepted

\* "we also need a way to roll them back when validations fail" (release.abstract.api.ts:131-132):
\* after the rollback of an update the file is turned as it was before, if that was as accepted.
RollbackRestores ==
  rotating.kind = "rolledback" /\ rotating.sound => image.disk = accepted

=============================================================================
