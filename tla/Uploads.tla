------------------------------ MODULE Uploads ------------------------------
(***************************************************************************)
(* The upload of a file (file.storage.ts, file.util.ts): a raw body, or a  *)
(* multipart body whose parser reports each part and then the end of the   *)
(* body, while FileUtil.create is still at work on the first part.  What   *)
(* creates the file and what answers the request meet in three variables   *)
(* of the handler, whichever is faster.  How a stored file is processed is *)
(* the subject of FileProcessing.                                          *)
(***************************************************************************)
EXTENDS Naturals

CONSTANTS
  Posts,      \* the requests
  MaxParts    \* bound: the parts of a multipart body

VARIABLES
  post,      \* the requests, with the variables of handleMultipartUpload
  creation,  \* FileUtil.create of a request, see Creations
  answer,    \* what the client is told: "none", "created", "error"
  stray      \* history: the file stayed although its creation was rejected

uploadVars == <<post, creation, answer, stray>>

\* "stored" has its document in the database, "created" and "refused" have settled the
\* promise, "kept" and "dropped" have been noticed by the handler.
Creations == {"none", "writing", "stored", "created", "refused", "kept", "dropped"}

NoPost == [at |-> "idle", multipart |-> FALSE, parts |-> 0, file |-> FALSE, err |-> FALSE,
           finished |-> FALSE, exists |-> FALSE]

UploadsInit ==
  /\ post = [p \in Posts |-> NoPost]
  /\ creation = [p \in Posts |-> "none"]
  /\ answer = [p \in Posts |-> "none"]
  /\ stray = [p \in Posts |-> FALSE]

\* The first to settle a promise wins.
Settle(p, a) == answer' = IF answer[p] = "none" THEN [answer EXCEPT ![p] = a] ELSE answer

-----------------------------------------------------------------------------
\* upload: the type and the headers are good; a raw body goes to FileUtil.create at once.
Post(p, multipart) ==
  /\ post[p].at = "idle"
  /\ post' = [post EXCEPT ![p] = [NoPost EXCEPT !.at = "receiving", !.multipart = multipart,
                                                !.parts = IF multipart THEN 0 ELSE 1]]
  /\ creation' = [creation EXCEPT ![p] = IF multipart THEN "none" ELSE "writing"]
  /\ UNCHANGED <<answer, stray>>

\* busboy's "file": the second one is an error, and is read to nowhere.
Part(p) ==
  /\ post[p].at = "receiving" /\ post[p].multipart /\ post[p].parts < MaxParts
  /\ post' = [post EXCEPT ![p].parts = @ + 1, ![p].err = @ \/ post[p].parts > 0]
  /\ creation' = [creation EXCEPT ![p] = IF post[p].parts = 0 THEN "writing" ELSE @]
  /\ UNCHANGED <<answer, stray>>

\* Mutant of BodyEnds: nobody notes that the body is over.
BodyEndsUnnoted(p) ==
  /\ post[p].at = "receiving" /\ post[p].multipart
  /\ post' = [post EXCEPT ![p].at = "over"]
  /\ IF post[p].err THEN Settle(p, IF post[p].file THEN "created" ELSE "error")
     ELSE IF post[p].file THEN Settle(p, "created") ELSE UNCHANGED answer
  /\ UNCHANGED <<creation, stray>>

\* busboy's "finish".  With an error and a file, the file is removed, and then the
\* promise rejected: but the next line has resolved it with the file by then.
BodyEnds(p) ==
  /\ post[p].at = "receiving" /\ post[p].multipart
  /\ IF post[p].file
       THEN /\ post' = [post EXCEPT ![p].at = IF post[p].err THEN "removing" ELSE "over"]
            /\ Settle(p, "created")
       ELSE IF post[p].err
       THEN /\ post' = [post EXCEPT ![p].at = "over"]
            /\ Settle(p, "error")
       ELSE /\ post' = [post EXCEPT ![p].at = "over", ![p].finished = TRUE]
            /\ UNCHANGED answer
  /\ UNCHANGED <<creation, stray>>

\* busboy's "error": the body is not what its headers say.
BodyBroken(p) ==
  /\ post[p].at = "receiving" /\ post[p].multipart
  /\ post' = [post EXCEPT ![p].at = "over"]
  /\ Settle(p, "error")
  /\ UNCHANGED <<creation, stray>>

\* The file the client was told of is removed, with its hook.
Remove(p) ==
  /\ post[p].at = "removing"
  /\ post' = [post EXCEPT ![p].at = "over", ![p].exists = FALSE]
  /\ UNCHANGED <<creation, answer, stray>>

-----------------------------------------------------------------------------
\* FileUtil.create up to the save: written, measured, its metadata read.
Save(p) ==
  /\ creation[p] = "writing"
  /\ creation' = [creation EXCEPT ![p] = "stored"]
  /\ post' = [post EXCEPT ![p].exists = TRUE]
  /\ UNCHANGED <<answer, stray>>

\* Moved to its place and queued.
Place(p) ==
  /\ creation[p] = "stored"
  /\ creation' = [creation EXCEPT ![p] = "created"]
  /\ UNCHANGED <<post, answer, stray>>

\* The disk, the metadata or Redis: what was saved before is not taken back.
CreationFails(p) ==
  /\ creation[p] \in {"writing", "stored"}
  /\ creation' = [creation EXCEPT ![p] = "refused"]
  /\ stray' = [stray EXCEPT ![p] = creation[p] = "stored"]
  /\ UNCHANGED <<post, answer>>

\* The callbacks of the promise, or the await of a raw upload.
Created(p) ==
  /\ creation[p] = "created"
  /\ creation' = [creation EXCEPT ![p] = "kept"]
  /\ IF post[p].multipart /\ ~post[p].finished
       THEN post' = [post EXCEPT ![p].file = TRUE] /\ UNCHANGED answer
       ELSE post' = [post EXCEPT ![p].at = "over"] /\ Settle(p, "created")
  /\ UNCHANGED stray

Refused(p) ==
  /\ creation[p] = "refused"
  /\ creation' = [creation EXCEPT ![p] = "dropped"]
  /\ IF post[p].multipart /\ ~post[p].finished
       THEN post' = [post EXCEPT ![p].err = TRUE] /\ UNCHANGED answer
       ELSE post' = [post EXCEPT ![p].at = "over"] /\ Settle(p, "error")
  /\ UNCHANGED stray

\* cleanup, a week later, at the start of the server: no parent has taken the file.
CleanUp(p) ==
  /\ post[p].at = "over" /\ post[p].exists /\ answer[p] # "created"
  /\ creation[p] \in {"kept", "dropped"}
  /\ post' = [post EXCEPT ![p].exists = FALSE]
  /\ UNCHANGED <<creation, answer, stray>>

UploadsStep ==
  \E p \in Posts :
    \/ \E multipart \in BOOLEAN : Post(p, multipart)
    \/ Part(p) \/ BodyEnds(p) \/ BodyBroken(p) \/ Remove(p)
    \/ Save(p) \/ Place(p) \/ CreationFails(p) \/ Created(p) \/ Refused(p) \/ CleanUp(p)

UploadsSpec == UploadsInit /\ [][UploadsStep]_uploadVars

-----------------------------------------------------------------------------
Answered(p) == post[p].at = "over" /\ creation[p] \in {"none", "kept", "dropped"}

\* Whether the body or the file is done first, a request with one file is answered once
\* both are, and as it is: its file is there if and only if the client was told so, but
\* one whose creation failed after the save or whose body broke off behind it.  Of several
\* files nothing like it holds: see the README (file.storage.ts:234-283).
UploadAnswered ==
  \A p \in Posts : Answered(p) /\ post[p].parts = 1 =>
    /\ answer[p] = "created" => post[p].exists
    /\ answer[p] # "none"
    /\ answer[p] = "error" /\ post[p].exists => creation[p] = "kept" \/ stray[p]

=============================================================================
