---------------------------- MODULE Attachments ----------------------------
(***************************************************************************)
(* Uploaded files and the documents that refer to them (the plugin         *)
(* file.reference.plugin.ts and the handlers that use it).  A file is      *)
(* inactive until a document refers to it, and is removed with it, so it   *)
(* should have one; but a file is looked up by its id, validated, saved    *)
(* as a reference and activated in turn, and only a new document at the    *)
(* top level refuses an active file: the validator wants _created_by,      *)
(* which the versions inside of releases and backglasses do not have.      *)
(***************************************************************************)
LOCAL INSTANCE FiniteSets

CONSTANTS
  Uploads,   \* the files
  Singles,   \* games, ROMs and media: they refer to files themselves
  Versioned, \* releases and backglasses: their versions do
  Tasks      \* bound: the requests at work at one time

Holders == Singles \cup Versioned

VARIABLES
  upload,  \* the file documents
  holder,  \* the documents that refer to them
  task     \* the handlers

attachmentVars == <<upload, holder, task>>

-----------------------------------------------------------------------------
\* excused: history; something the code does not guard against has happened to the file.
NoTask == [at |-> "idle", op |-> "none", of |-> "none", files |-> {}, old |-> {}, over |-> FALSE]

AttachmentInit ==
  /\ upload = [f \in Uploads |-> [at |-> "saved", active |-> FALSE, excused |-> FALSE]]
  /\ holder = [d \in Holders |-> [at |-> "unsaved", files |-> {}]]
  /\ task = [t \in Tasks |-> NoTask]

Stored == {f \in Uploads : upload[f].at = "saved"}
Active == {f \in Stored : upload[f].active}
HoldersOf(f) == {d \in Holders : holder[d].at = "saved" /\ f \in holder[d].files}

Busy(files) == \E s \in Tasks : (task[s].files \cup task[s].old) \cap files # {}

BeginTask(t, at, op, d, files, old) ==
  /\ task[t].at = "idle"
  /\ task' = [task EXCEPT ![t] =
       [at |-> at, op |-> op, of |-> d, files |-> files, old |-> old, over |-> Busy(files)]]
  /\ UNCHANGED <<upload, holder>>

StartTask(t, op, d, files, old) == BeginTask(t, "validate", op, d, files, old)

At(t, at) == [task[t] EXCEPT !.at = at]

\* The others have looked at these files too early.
Overtaking(t, next, files) ==
  task' = [s \in Tasks |->
    IF s = t THEN next
    ELSE [task[s] EXCEPT !.over = @ \/ task[s].files \cap files # {}]]

Finish(t) == task' = [task EXCEPT ![t] = NoTask]

Excuse(files) == [f \in Uploads |-> [upload[f] EXCEPT !.excused = @ \/ f \in files]]

-----------------------------------------------------------------------------
\* create of the six APIs: getInstance finds the files.
CreateHolder(t, d, files) ==
  /\ holder[d].at = "unsaved" /\ \A s \in Tasks : task[s].of # d
  /\ files # {} /\ files \subseteq Stored
  /\ StartTask(t, "create", d, files, {})

\* GameApi.update: the backglass or the logo is another one, whatever it was before.
ReplaceFile(t, d, old, f) ==
  /\ d \in Singles /\ holder[d].at = "saved"
  /\ old \in holder[d].files /\ f \in Stored /\ f \notin holder[d].files
  /\ StartTask(t, "replace", d, {f}, {old})

\* ReleaseVersionApi.addVersion, BackglassVersionApi.addVersion, updateVersion with a new file.
AddFile(t, d, f) ==
  /\ d \in Versioned /\ holder[d].at = "saved" /\ f \in Stored
  /\ StartTask(t, "add", d, {f}, {})

\* updateVersion: another playfield image or video for a file that is there.
ReplaceImage(t, d, old, f) ==
  /\ d \in Versioned /\ holder[d].at = "saved"
  /\ old \in holder[d].files /\ f \in Stored /\ f \notin holder[d].files
  /\ StartTask(t, "exchange", d, {f}, {old})

Accept(t, accepted) ==
  /\ task[t].at = "validate"
  /\ task' = [task EXCEPT ![t] = IF accepted THEN [@ EXCEPT !.at = "save"] ELSE NoTask]
  /\ UNCHANGED <<upload, holder>>

\* Mutant of Validate: a new document takes an active file.
ValidateAny(t) == Accept(t, TRUE)

\* A file that has gone does not matter to the plugin; the schema of a version misses
\* the table or the playfield image.
Validate(t) ==
  \/ Accept(t, task[t].op = "create" /\ task[t].of \in Singles => task[t].files \cap Active = {})
  \/ task[t].of \in Versioned /\ ~(task[t].files \subseteq Stored) /\ Accept(t, FALSE)

\* A document that has been removed cannot be saved.  History: files that were
\* validated too early, or taken though somebody had them, by a request that is
\* not refused them.
SaveHolder(t) ==
  LET d == task[t].of
      taken == {f \in task[t].files : task[t].op # "create" \/ d \in Versioned}
                 \cap {f \in Uploads : f \in Active \/ HoldersOf(f) # {}} IN
  /\ task[t].at = "save"
  /\ IF task[t].op # "create" /\ holder[d].at # "saved"
       THEN Finish(t) /\ UNCHANGED <<upload, holder>>
       ELSE /\ holder' = [holder EXCEPT ![d] =
                  [at |-> "saved", files |-> (@.files \ task[t].old) \cup task[t].files]]
            /\ Overtaking(t, At(t, "activate"), task[t].files)
            /\ upload' = Excuse(taken \cup (IF task[t].over THEN task[t].files ELSE {})
                                \cup (IF task[t].op = "exchange" THEN task[t].old ELSE {}))

\* activateFiles: all files of the document that are not active, as it was saved.
ActivateFiles(t) ==
  LET d == task[t].of IN
  /\ task[t].at = "activate"
  /\ upload' = [f \in Uploads |->
       [upload[f] EXCEPT !.active = @ \/ (f \in task[t].files \cap Stored)]]
  /\ Overtaking(t, IF task[t].op = "replace" THEN At(t, "remove old") ELSE NoTask, task[t].files)
  /\ UNCHANGED holder

\* The hook of the removal, and GameApi.update for what it replaced, whoever else
\* refers to it.
RemoveOld(t) ==
  /\ task[t].at = "remove old"
  /\ upload' = [f \in Uploads |-> IF f \in task[t].old THEN [upload[f] EXCEPT !.at = "removed"] ELSE upload[f]]
  /\ Overtaking(t, NoTask, task[t].old)
  /\ UNCHANGED holder

-----------------------------------------------------------------------------
\* del of the APIs: the document is loaded, then removed, then its files are.
LoadHolder(t, d) ==
  /\ holder[d].at = "saved"
  /\ BeginTask(t, "remove", "remove", d, {}, holder[d].files)

\* History: files attached since the document was loaded stay.
RemoveHolder(t) ==
  /\ task[t].at = "remove"
  /\ holder' = [holder EXCEPT ![task[t].of] = [at |-> "removed", files |-> {}]]
  /\ upload' = Excuse(holder[task[t].of].files \ task[t].old)
  /\ Overtaking(t, At(t, "remove old"), {})

\* FileApi.del refuses an active file.
LoadFile(t, f) ==
  /\ f \in Stored \ Active
  /\ BeginTask(t, "remove file", "remove", "none", {f}, {})

RemoveFile(t) ==
  LET files == task[t].files IN
  /\ task[t].at = "remove file"
  /\ upload' = [f \in Uploads |->
       IF f \in files THEN [upload[f] EXCEPT !.at = "removed", !.excused = @ \/ task[t].over] ELSE upload[f]]
  /\ Overtaking(t, NoTask, files)
  /\ UNCHANGED holder

\* The process dies: files may stay inactive, and what was to be removed stays.
TaskFails(t) ==
  /\ task[t].at # "idle"
  /\ upload' = Excuse(IF task[t].at \in {"activate", "remove old"}
                      THEN task[t].files \cup task[t].old ELSE {})
  /\ Finish(t)
  /\ UNCHANGED holder

AttachmentStep ==
  \E t \in Tasks :
    \/ \E d \in Holders, files \in SUBSET Uploads : CreateHolder(t, d, files)
    \/ \E d \in Holders, old, f \in Uploads : ReplaceFile(t, d, old, f) \/ ReplaceImage(t, d, old, f)
    \/ \E d \in Holders, f \in Uploads : AddFile(t, d, f)
    \/ \E d \in Holders : LoadHolder(t, d)
    \/ \E f \in Uploads : LoadFile(t, f)
    \/ Validate(t) \/ SaveHolder(t) \/ ActivateFiles(t) \/ RemoveOld(t)
    \/ RemoveHolder(t) \/ RemoveFile(t) \/ TaskFails(t)

AttachmentSpec == AttachmentInit /\ [][AttachmentStep]_attachmentVars

-----------------------------------------------------------------------------
\* What a document refers to exists (file.reference.plugin.ts:96-113, game.api.ts:222,
\* file.api.ts:52), but files that several have: validated at once, or taken by an update
\* or a version, which nobody refuses; and files that were deleted or not activated
\* because requests overlapped or died.
FilesPresent ==
  \A d \in Holders : holder[d].at = "saved" =>
    \A f \in holder[d].files : f \in Stored \/ upload[f].excused

\* An active file belongs to a document, or a request is about to remove it: nothing
\* else would (file.api.ts:52).  But images that a version exchanged for others stay.
NoneForgotten ==
  \A f \in Active :
    HoldersOf(f) # {} \/ upload[f].excused \/ \E t \in Tasks : f \in task[t].old

\* Documents and files agree: no file is missing, and none is left behind for good.
FilesAccounted == FilesPresent /\ NoneForgotten

=============================================================================
