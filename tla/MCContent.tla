----------------------------- MODULE MCContent -----------------------------
(***************************************************************************)
(* The content of the site: games and what refers to them, the upload of   *)
(* files and the documents that hold them, the versions of a release, the  *)
(* table files of a version and the rotation of an image.                  *)
(* Each part keeps its own collections, and the step of one changes        *)
(* nothing another one reads: an instance checks them one at a time.       *)
(***************************************************************************)
EXTENDS Catalogue, Attachments, Uploads, Versions, TableFiles, Rotation, TLC

CONSTANT Parts

VARIABLE part

\* Nobody asks for a table for any orientation; it shows with the others.  The last does not
\* fit its image.
MCOffers ==
  LET portrait == [type |-> "playfield-fs", shape |-> "portrait"]
      landscape == [type |-> "playfield-ws", shape |-> "landscape"]
  IN {[orientation |-> "fs", lighting |-> "day", picture |-> portrait],
      [orientation |-> "any", lighting |-> "night", picture |-> portrait],
      [orientation |-> "ws", lighting |-> "day", picture |-> landscape],
      [orientation |-> "fs", lighting |-> "day", picture |-> landscape]}

MCCompats == {{b} : b \in Builds}

Init ==
  /\ CatalogueInit /\ AttachmentInit /\ UploadsInit /\ VersionInit /\ TableInit /\ RotationInit
  /\ part \in Parts
  /\ part # "catalogue" => \A q \in GameRequests : wanted[q].at = "unsaved"

\* Bound: one of the documents that refer to files is never saved.
Next ==
  /\ \/ /\ part = "catalogue" /\ CatalogueStep
        /\ UNCHANGED <<attachmentVars, uploadVars, versionVars, tableVars, rotationVars>>
     \/ /\ part = "attachments" /\ AttachmentStep /\ \E d \in Holders : holder'[d].at = "unsaved"
        /\ UNCHANGED <<catalogueVars, uploadVars, versionVars, tableVars, rotationVars>>
     \/ /\ part = "uploads" /\ UploadsStep
        /\ UNCHANGED <<catalogueVars, attachmentVars, versionVars, tableVars, rotationVars>>
     \/ /\ part = "versions" /\ VersionStep
        /\ UNCHANGED <<catalogueVars, attachmentVars, uploadVars, tableVars, rotationVars>>
     \/ /\ part = "tables" /\ TableStep
        /\ UNCHANGED <<catalogueVars, attachmentVars, uploadVars, versionVars, rotationVars>>
     \/ /\ part = "rotation" /\ RotationStep
        /\ UNCHANGED <<catalogueVars, attachmentVars, uploadVars, versionVars, tableVars>>
  /\ UNCHANGED part

Spec ==
  Init /\ [][Next]_<<part, catalogueVars, attachmentVars, uploadVars, versionVars, tableVars, rotationVars>>

\* The parts have their handlers in common, and one set of two values for the games and
\* the uploads; so TLC has few permutations to try.
Sym == Permutations(Handlers) \cup Permutations(Games)

=============================================================================
