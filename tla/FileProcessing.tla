--------------------------- MODULE FileProcessing ---------------------------
(***************************************************************************)
(* Post-processing of ONE uploaded file (src/app/files): the upload        *)
(* handler, the creation and optimization workers, the activation that     *)
(* moves variations to the public directory, the deletion and a download   *)
(* that waits for a variation.  They share the File document in MongoDB,   *)
(* the storage directories, Bull's job queues and two kinds of Redis keys. *)
(*                                                                         *)
(* One action is the code between two awaits that other processes can      *)
(* observe; awaits that only touch data nobody else reads are merged, and  *)
(* the comment of the action says so.  Other files enter the model only by *)
(* the delays their jobs cause, which every interleaving already covers.   *)
(***************************************************************************)
EXTENDS Naturals, Sequences, FiniteSets

CONSTANTS
  Variations,       \* names of the variations the file type defines
  Original,         \* stands for "no variation", the uploaded file itself
  Source,           \* [Variations -> Variations \cup {Original}], FileVariation.source
  Category,         \* MIME category of every item: it selects the queue
  Priority,         \* processor.getOrder: within a queue, lower runs first
  Optimized,        \* items with a valid optimization processor
  Skipped,          \* of those, the ones whose processor returns null
  ModifiesOriginal, \* processorQueue.modifiesFile(file)
  PublicItems,      \* items of cost -1: public once the file is active
  Queues,           \* <<type, category>> in the order of processorManager.getQueues
  Nodes,            \* processes of the pm2 cluster, each a worker of every queue
  Activates,        \* whether some parent entity references and activates the file
  Deletes,          \* subset of {"api", "parent"}: who may delete it
  Requested,        \* items a client may download
  MayFail,          \* whether a processor may throw
  None              \* no node, no path

Items == Variations \cup {Original}
Jobs == [type: {"creation"}, item: Variations] \cup [type: {"optimization"}, item: Optimized]
QueueOf(j) == <<j.type, Category[j.item]>>

ASSUME ItemsAssumption ==
  /\ Original \notin Variations
  /\ Source \in [Variations -> Items]
  /\ PublicItems \subseteq Variations   \* "original files always stay in the protected folder"
  /\ Optimized \subseteq Items
  /\ Skipped \subseteq Optimized
  /\ ModifiesOriginal \in BOOLEAN
  /\ ModifiesOriginal => Original \in Optimized
ASSUME QueuesAssumption ==
  /\ Queues \in Seq({"creation", "optimization"} \X {Category[i] : i \in Items})
  /\ \A j \in Jobs : \E n \in 1..Len(Queues) : Queues[n] = QueueOf(j)
  /\ Priority \in [Jobs -> Nat]
ASSUME EnvironmentAssumption ==
  /\ Activates \in BOOLEAN
  /\ MayFail \in BOOLEAN
  /\ Deletes \subseteq {"api", "parent"}
  /\ Requested \subseteq Items
  /\ None \notin Nodes

VARIABLES
  doc,      \* the File document: does it exist, is_active, names in variations
  fs,       \* the paths that exist in the storage directories
  pc,       \* where each job is: not queued, waiting, a step of the worker, ended
  src,      \* srcPath of each job
  dest,     \* destPath of each job
  seen,     \* is_active in the worker's copy of the document
  runner,   \* the node that executes the job
  lock,     \* Redis key queue:delete:<file id>
  renamed,  \* items whose protected path has a Redis key queue:rename:<path>
  upload,   \* FileUtil.create
  act,      \* switchToActive and activateFile
  del,      \* file.remove and deleteProcessingFile
  get       \* FileStorage.get waiting in stats
  \* del.quiet is a history variable: no job was waiting or active when it began.

jobVars == <<pc, src, dest, seen, runner>>
redisVars == <<lock, renamed>>
vars == <<doc, fs, jobVars, redisVars, upload, act, del, get>>

-----------------------------------------------------------------------------
(* Paths.  A suffix distinguishes the final file from the original as      *)
(* uploaded, the copy a creation worker reads, and the results of the two  *)
(* kinds of processors that have not been moved into place.                *)

Suffixes == {"final", "original", "source", "creation", "optimization"}
Paths == [dir: {"protected", "public"}, item: Items, suffix: Suffixes]

\* Mutant of Path: the cost alone decides.
PathByCost(item, isActive, suffix) ==
  [dir    |-> IF item \in PublicItems THEN "public" ELSE "protected",
   item   |-> item,
   suffix |-> suffix]

\* File.getPath: public iff the document at hand is active and the item costs -1.
Path(item, isActive, suffix) ==
  [dir    |-> IF isActive /\ item \in PublicItems THEN "public" ELSE "protected",
   item   |-> item,
   suffix |-> suffix]

Final(item, isActive) == Path(item, isActive, "final")
Backup == Path(Original, FALSE, "original")
\* "<id>_<variation>.source" lies where the original lies, which is never public.
SourceCopy(v) == Path(v, FALSE, "source")

-----------------------------------------------------------------------------
(* Jobs.                                                                   *)

Steps == {"load", "copy", "process", "describe", "checkDeleted", "resolve",
          "move", "reload", "continue"}
Ended == {"completed", "failed", "removed"}

Creation(v) == [type |-> "creation", item |-> v]
Optimization(i) == [type |-> "optimization", item |-> i]

Waiting(j) == pc[j] = "waiting"
Active(j) == pc[j] \in Steps
Quiet == \A j \in Jobs : ~Waiting(j) /\ ~Active(j)

\* Mutant of Children: only variations of the original are ever queued.
ChildrenOfOriginal(i) ==
  {Creation(v) : v \in {w \in Variations : Source[w] = i /\ i = Original}}
    \cup {Optimization(x) : x \in {i} \cap Optimized}
\* Mutant of Children: a variation's optimization is queued with its creation.
ChildrenEager(i) ==
  LET dependents == {w \in Variations : Source[w] = i}
  IN  {Creation(v) : v \in dependents}
        \cup {Optimization(x) : x \in (dependents \cup ({i} \cap {Original})) \cap Optimized}

\* Jobs queued when item i is available: its dependents, then its optimization.
Children(i) ==
  {Creation(v) : v \in {w \in Variations : Source[w] = i}}
    \cup {Optimization(x) : x \in {i} \cap Optimized}
Pending(i) == {j \in Children(i) : pc[j] = "none"}
\* The loops add all creation jobs before the optimization jobs.
NextPending(i) ==
  {j \in Pending(i) : j.type = "creation" \/ \A k \in Pending(i) : k.type = "optimization"}

\* Mutant of Enqueue: the caller forgets destPath.
EnqueueNoDest(j, from, isActive) ==
  /\ pc' = [pc EXCEPT ![j] = "waiting"]
  /\ src' = [src EXCEPT ![j] = from]
  /\ UNCHANGED dest

\* queue.add with the paths the caller computed.
Enqueue(j, from, isActive) ==
  /\ pc' = [pc EXCEPT ![j] = "waiting"]
  /\ src' = [src EXCEPT ![j] = from]
  /\ dest' = [dest EXCEPT ![j] = Path(j.item, isActive, j.type)]

\* Mutant of End: isSame is not asked, any completed job wakes the request.
EndWakesAll(j, outcome) ==
  /\ pc' = [pc EXCEPT ![j] = outcome]
  /\ seen' = [seen EXCEPT ![j] = FALSE]
  /\ runner' = [runner EXCEPT ![j] = None]
  /\ get' = IF outcome = "completed" /\ get.pc = "listening" /\ get.node = runner[j]
            THEN [get EXCEPT !.pc = "restat"] ELSE get
  /\ UNCHANGED del

\* The job's promise settled.  "completed" is emitted in the process that ran
\* the job, to the listeners registered there by now; nobody hears "failed".
\* What the worker held in memory is gone with it.
End(j, outcome) ==
  /\ pc' = [pc EXCEPT ![j] = outcome]
  /\ seen' = [seen EXCEPT ![j] = FALSE]
  /\ runner' = [runner EXCEPT ![j] = None]
  /\ get' = IF /\ outcome = "completed" /\ get.pc = "listening"
               /\ j = Creation(get.item) /\ get.node = runner[j]
            THEN [get EXCEPT !.pc = "restat"] ELSE get
  /\ del' = IF outcome = "completed" /\ del.pc = "background" /\ del.node = runner[j]
            THEN [del EXCEPT !.waitFor = @ \ {j}] ELSE del

Step(j, step) == pc' = [pc EXCEPT ![j] = step] /\ UNCHANGED <<runner, del, get>>
Goto(j, step) == Step(j, step) /\ UNCHANGED seen

-----------------------------------------------------------------------------
(* FileUtil.create.  Nobody knows the file's id before it returns.         *)

UploadStore ==
  /\ upload = "idle"
  /\ upload' = "stored"
  /\ fs' = fs \cup {Backup}
  /\ UNCHANGED <<doc, jobVars, redisVars, act, del, get>>

\* The metadata reader throws: the only case in which the upload is refused.
UploadReject ==
  /\ upload = "stored"
  /\ upload' = "rejected"
  /\ fs' = fs \ {Backup}
  /\ UNCHANGED <<doc, jobVars, redisVars, act, del, get>>

UploadSave ==
  /\ upload = "stored"
  /\ upload' = "saved"
  /\ doc' = [doc EXCEPT !.exists = TRUE]
  /\ UNCHANGED <<fs, jobVars, redisVars, act, del, get>>

\* Copies the upload if its optimization will need the original, else moves it.
UploadPlace ==
  /\ upload = "saved"
  /\ upload' = IF Pending(Original) = {} THEN "returned" ELSE "placed"
  /\ fs' = (IF ModifiesOriginal THEN fs ELSE fs \ {Backup}) \cup {Final(Original, FALSE)}
  /\ UNCHANGED <<doc, jobVars, redisVars, act, del, get>>

\* One await queue.add of processFile.
UploadQueue ==
  /\ upload = "placed"
  /\ \E j \in NextPending(Original) :
       /\ Enqueue(j, IF ModifiesOriginal THEN Backup ELSE Final(Original, FALSE), FALSE)
       /\ upload' = IF Pending(Original) = {j} THEN "returned" ELSE "placed"
  /\ UNCHANGED <<doc, fs, seen, runner, redisVars, act, del, get>>

-----------------------------------------------------------------------------
(* Bull hands the first job of a queue to a node whose worker for that     *)
(* queue is free: each process runs one job per queue at a time.           *)

Take(n, j) ==
  /\ Waiting(j)
  /\ \A k \in Jobs : Waiting(k) /\ QueueOf(k) = QueueOf(j) => Priority[j] <= Priority[k]
  /\ \A k \in Jobs : Active(k) /\ QueueOf(k) = QueueOf(j) => runner[k] # n
  /\ pc' = [pc EXCEPT ![j] = "load"]
  /\ runner' = [runner EXCEPT ![j] = n]
  /\ UNCHANGED <<doc, fs, src, dest, seen, redisVars, upload, act, del, get>>

\* Mutant of Load: the early return for a document that is gone does not settle the job.
LoadUnsettled(j) ==
  /\ pc[j] = "load" /\ doc.exists
  /\ seen' = [seen EXCEPT ![j] = doc.active]
  /\ Step(j, IF j.type = "creation" THEN "copy" ELSE "process")
  /\ UNCHANGED <<doc, fs, src, dest, redisVars, upload, act>>

\* Both workers start by fetching the document, and give up if it is gone.
Load(j) ==
  /\ pc[j] = "load"
  /\ \/ /\ doc.exists
        /\ seen' = [seen EXCEPT ![j] = doc.active]
        /\ Step(j, IF j.type = "creation" THEN "copy" ELSE "process")
     \/ /\ ~doc.exists
        /\ End(j, "completed")
  /\ UNCHANGED <<doc, fs, src, dest, redisVars, upload, act>>

-----------------------------------------------------------------------------
(* ProcessorWorker.create.                                                 *)

\* FileUtil.cp runs outside the try block: if the source is gone the job fails,
\* and the write stream may already have created the copy.
CreateCopy(j) ==
  /\ j.type = "creation" /\ pc[j] = "copy"
  /\ \/ /\ src[j] \in fs
        /\ fs' = fs \cup {SourceCopy(j.item)}
        /\ Goto(j, "process")
     \/ /\ src[j] \notin fs
        /\ fs' \in {fs, fs \cup {SourceCopy(j.item)}}
        /\ End(j, "failed")
  /\ UNCHANGED <<doc, src, dest, redisVars, upload, act>>

\* processor.process and the unlink of the copy, which no one else reads.  An
\* error is logged and swallowed; what the processor wrote so far stays.
CreateProcess(j) ==
  /\ j.type = "creation" /\ pc[j] = "process"
  /\ \/ /\ fs' = (fs \ {SourceCopy(j.item)}) \cup {dest[j]}
        /\ Goto(j, "describe")
     \/ /\ MayFail
        /\ fs' \in {fs \ {SourceCopy(j.item)}, (fs \ {SourceCopy(j.item)}) \cup {dest[j]}}
        /\ End(j, "completed")
  /\ UNCHANGED <<doc, src, dest, redisVars, upload, act>>

\* Mutant of Described: the update recreates the document's description.
DescribedUpsert(item) ==
  IF item \in Variations THEN [doc EXCEPT !.variations = @ \cup {item}] ELSE doc

\* findOneAndUpdate finds nothing once the document is gone.
Described(item) ==
  IF doc.exists /\ item \in Variations
  THEN [doc EXCEPT !.variations = @ \cup {item}] ELSE doc

CreateDescribe(j) ==
  /\ j.type = "creation" /\ pc[j] = "describe"
  /\ doc' = Described(j.item)
  /\ Goto(j, "checkDeleted")
  /\ UNCHANGED <<fs, src, dest, redisVars, upload, act>>

CreateCheckDeleted(j) ==
  /\ j.type = "creation" /\ pc[j] = "checkDeleted"
  /\ \/ /\ lock
        /\ fs' = fs \ {dest[j]}
        /\ End(j, "completed")
     \/ /\ ~lock
        /\ Goto(j, "resolve")
        /\ UNCHANGED fs
  /\ UNCHANGED <<doc, src, dest, redisVars, upload, act>>

\* isFileRenamed: a key for the path the worker would use redirects the result.
Resolve(j) ==
  /\ pc[j] = "resolve"
  /\ seen' = [seen EXCEPT ![j] = @ \/ j.item \in renamed]
  /\ Step(j, "move")
  /\ UNCHANGED <<doc, fs, src, dest, redisVars, upload, act>>

\* Mutant of CreateMove: renames first, unlinks the final path afterwards.
CreateMoveThenUnlink(j) ==
  /\ j.type = "creation" /\ pc[j] = "move"
  /\ fs' = fs \ {dest[j], Final(j.item, seen[j])}
  /\ Goto(j, "reload")
  /\ UNCHANGED <<doc, src, dest, redisVars, upload, act>>

\* A rename: the final path is unlinked first if it exists, which it cannot
\* before the file is processed a second time.
CreateMove(j) ==
  /\ j.type = "creation" /\ pc[j] = "move"
  /\ fs' = (fs \ {dest[j]}) \cup {Final(j.item, seen[j])}
  /\ Goto(j, "reload")
  /\ UNCHANGED <<doc, src, dest, redisVars, upload, act>>

CreateReload(j) ==
  /\ j.type = "creation" /\ pc[j] = "reload"
  /\ \/ /\ doc.exists
        /\ seen' = [seen EXCEPT ![j] = doc.active]
        /\ Step(j, "continue")
     \/ /\ ~doc.exists
        /\ End(j, "completed")
  /\ UNCHANGED <<doc, fs, src, dest, redisVars, upload, act>>

\* One await queue.add of continueCreation.
CreateContinue(j) ==
  /\ j.type = "creation" /\ pc[j] = "continue"
  /\ \E k \in NextPending(j.item) : Enqueue(k, Final(j.item, seen[j]), seen[j])
  /\ UNCHANGED <<doc, fs, seen, runner, redisVars, upload, act, del, get>>

CreateEnd(j) ==
  /\ j.type = "creation" /\ pc[j] = "continue"
  /\ Pending(j.item) = {}
  /\ End(j, "completed")
  /\ UNCHANGED <<doc, fs, src, dest, redisVars, upload, act>>

-----------------------------------------------------------------------------
(* ProcessorWorker.optimize.  It reads the file in place, without a copy.  *)

OptimizeProcess(j) ==
  /\ j.type = "optimization" /\ pc[j] = "process"
  /\ \/ /\ src[j] \in fs /\ j.item \notin Skipped
        /\ fs' = fs \cup {dest[j]}
        /\ Goto(j, "checkDeleted")
     \/ /\ j.item \in Skipped
        /\ End(j, "completed")
        /\ UNCHANGED fs
     \/ /\ (MayFail \/ src[j] \notin fs) /\ j.item \notin Skipped
        /\ fs' \in {fs, fs \cup {dest[j]}}
        /\ End(j, "completed")
  /\ UNCHANGED <<doc, src, dest, redisVars, upload, act>>

\* The metadata update precedes the check; an optimized variation is described
\* already, so only the fields of its description change.
OptimizeCheckDeleted(j) ==
  /\ j.type = "optimization" /\ pc[j] = "checkDeleted"
  /\ doc' = Described(j.item)
  /\ \/ /\ lock
        /\ fs' = fs \ {dest[j]}
        /\ End(j, "completed")
     \/ /\ ~lock
        /\ Goto(j, "resolve")
        /\ UNCHANGED fs
  /\ UNCHANGED <<src, dest, redisVars, upload, act>>

OptimizeMove(j) ==
  /\ j.type = "optimization" /\ pc[j] = "move"
  /\ fs' = (fs \ {dest[j]}) \cup {Final(j.item, seen[j])}
  /\ End(j, "completed")
  /\ UNCHANGED <<doc, src, dest, redisVars, upload, act>>

Work(j) ==
  \/ Load(j) \/ CreateCopy(j) \/ CreateProcess(j) \/ CreateDescribe(j)
  \/ CreateCheckDeleted(j) \/ Resolve(j) \/ CreateMove(j) \/ CreateReload(j)
  \/ CreateContinue(j) \/ CreateEnd(j)
  \/ OptimizeProcess(j) \/ OptimizeCheckDeleted(j) \/ OptimizeMove(j)

-----------------------------------------------------------------------------
(* switchToActive, called for the inactive files a new entity references.  *)

ActivateGoto(step) == act' = [act EXCEPT !.pc = step]

\* Saving a document that is gone throws, so nothing happens without one.
ActivateSave ==
  /\ Activates /\ upload = "returned" /\ act.pc = "idle"
  /\ doc.exists /\ ~doc.active
  /\ doc' = [doc EXCEPT !.active = TRUE]
  /\ act' = [act EXCEPT !.pc = "scan", !.changes = PublicItems]
  /\ UNCHANGED <<fs, jobVars, redisVars, upload, del, get>>

\* await queue.getActive: which items is a worker of this queue busy with?
ActivateScan ==
  /\ act.pc = "scan"
  /\ \/ /\ act.queue <= Len(Queues)
        /\ act' = [act EXCEPT !.pc = "flag", !.queue = @ + 1,
             !.current = {i \in act.changes :
                            \E j \in Jobs : j.item = i /\ Active(j) /\ QueueOf(j) = Queues[act.queue]}]
     \/ /\ act.queue > Len(Queues)
        /\ ActivateGoto("stat")
  /\ UNCHANGED <<doc, fs, jobVars, redisVars, upload, del, get>>

\* Those are flagged one by one, and left to the worker.
ActivateFlag ==
  /\ act.pc = "flag"
  /\ \/ \E i \in act.current :
          /\ renamed' = renamed \cup {i}
          /\ act' = [act EXCEPT !.current = @ \ {i}, !.changes = @ \ {i}]
     \/ /\ act.current = {}
        /\ ActivateGoto("scan")
        /\ UNCHANGED renamed
  /\ UNCHANGED <<doc, fs, jobVars, lock, upload, del, get>>

\* await FileUtil.exists: an item that is not there is skipped.
ActivateStat ==
  /\ act.pc = "stat"
  /\ \/ \E i \in act.changes :
          act' = IF Final(i, FALSE) \in fs
                 THEN [act EXCEPT !.pc = "rename", !.current = {i}, !.changes = @ \ {i}]
                 ELSE [act EXCEPT !.changes = @ \ {i}]
     \/ /\ act.changes = {}
        /\ ActivateGoto("done")
  /\ UNCHANGED <<doc, fs, jobVars, redisVars, upload, del, get>>

\* The rename rejects if the file has been deleted since, and ends the activation.
ActivateRename ==
  /\ act.pc = "rename"
  /\ \E i \in act.current :
       \/ /\ Final(i, FALSE) \in fs
          /\ fs' = (fs \ {Final(i, FALSE)}) \cup {Final(i, TRUE)}
          /\ act' = [act EXCEPT !.pc = "stat", !.current = {}]
       \/ /\ Final(i, FALSE) \notin fs
          /\ ActivateGoto("failed")
          /\ UNCHANGED fs
  /\ UNCHANGED <<doc, jobVars, redisVars, upload, del, get>>

Activate == ActivateSave \/ ActivateScan \/ ActivateFlag \/ ActivateStat \/ ActivateRename

-----------------------------------------------------------------------------
(* Deletion: by the owner through FileApi.del, which refuses active files, *)
(* or with the parent entity that references the file.                     *)

DeleteLoad(n, via) ==
  /\ upload = "returned" /\ del.pc = "idle" /\ doc.exists
  /\ via = "api" => ~doc.active
  /\ del' = [del EXCEPT !.pc = "loaded", !.via = via, !.node = n,
                        !.active = doc.active, !.variations = doc.variations,
                        !.quiet = Quiet]
  /\ UNCHANGED <<doc, fs, jobVars, redisVars, upload, act, get>>

\* Mutant of FilesToDelete: the variations stay.
OriginalToDelete(d) == {Backup, Final(Original, d.active)}

\* The files FileUtil.remove finds with the deleted copy d of the document.
FilesToDelete(d) == {Backup} \cup {Final(i, d.active) : i \in {Original} \cup d.variations}

DeleteDocument ==
  /\ del.pc = "loaded"
  /\ doc' = [doc EXCEPT !.exists = FALSE]
  /\ del' = [del EXCEPT !.pc = "files", !.files = FilesToDelete(del)]
  /\ UNCHANGED <<fs, jobVars, redisVars, upload, act, get>>

\* FileUtil.remove: one file at a time, the original before the variations.
DeleteFile ==
  /\ del.pc = "files"
  /\ \/ \E p \in del.files :
          /\ p.item = Original \/ \A q \in del.files : q.item # Original
          /\ fs' = fs \ {p}
          /\ del' = [del EXCEPT !.files = @ \ {p}]
     \/ /\ del.files = {}
        /\ del' = [del EXCEPT !.pc = "lock"]
        /\ UNCHANGED fs
  /\ UNCHANGED <<doc, jobVars, redisVars, upload, act, get>>

DeleteLock ==
  /\ del.pc = "lock"
  /\ lock' = TRUE
  /\ del' = [del EXCEPT !.pc = "scanWaiting"]
  /\ UNCHANGED <<doc, fs, jobVars, renamed, upload, act, get>>

\* await queue.getWaiting, then await queue.getActive, for each queue in turn.
DeleteScanWaiting ==
  /\ del.pc = "scanWaiting" /\ del.queue <= Len(Queues)
  /\ del' = [del EXCEPT !.pc = "scanActive",
       !.toRemove = @ \cup {j \in Jobs : Waiting(j) /\ QueueOf(j) = Queues[del.queue]}]
  /\ UNCHANGED <<doc, fs, jobVars, redisVars, upload, act, get>>

DeleteScanActive ==
  /\ del.pc = "scanActive" /\ del.queue <= Len(Queues)
  /\ del' = [del EXCEPT !.pc = "scanWaiting", !.queue = @ + 1,
       !.waitFor = @ \cup {j \in Jobs : Active(j) /\ QueueOf(j) = Queues[del.queue]}]
  /\ UNCHANGED <<doc, fs, jobVars, redisVars, upload, act, get>>

\* Only now are the listeners registered and the removals started, in the
\* background: the handler answers its client.
DeleteSubscribe ==
  /\ del.pc = "scanWaiting" /\ del.queue > Len(Queues)
  /\ del' = [del EXCEPT !.pc = "background"]
  /\ UNCHANGED <<doc, fs, jobVars, redisVars, upload, act, get>>

\* job.remove rejects for a job that has been taken; otherwise the source of a
\* job with a destVariation is unlinked, which rejects if it does not exist.
DeleteRemoveJob(j) ==
  /\ del.pc = "background" /\ j \in del.toRemove
  /\ \/ /\ Active(j)
        /\ del' = [del EXCEPT !.toRemove = @ \ {j}, !.rejected = TRUE]
        /\ UNCHANGED <<pc, fs>>
     \/ /\ ~Active(j)
        /\ pc' = [pc EXCEPT ![j] = IF Waiting(j) THEN "removed" ELSE @]
        /\ fs' = IF j.item = Original THEN fs ELSE fs \ {src[j]}
        /\ del' = [del EXCEPT !.toRemove = @ \ {j},
                              !.rejected = @ \/ (j.item # Original /\ src[j] \notin fs)]
  /\ UNCHANGED <<doc, src, dest, seen, runner, redisVars, upload, act, get>>

\* Promise.all resolves only if no removal was rejected and every job waited
\* for has reported; then the key and the original are removed.
DeleteUnlock ==
  /\ del.pc = "background" /\ del.toRemove = {} /\ del.waitFor = {} /\ ~del.rejected
  /\ lock' = FALSE
  /\ fs' = fs \ {Backup}
  /\ del' = [del EXCEPT !.pc = "done"]
  /\ UNCHANGED <<doc, jobVars, renamed, upload, act, get>>

DeleteStep ==
  \/ DeleteDocument \/ DeleteFile \/ DeleteLock \/ DeleteScanWaiting \/ DeleteScanActive
  \/ DeleteSubscribe \/ (\E j \in Jobs : DeleteRemoveJob(j)) \/ DeleteUnlock

-----------------------------------------------------------------------------
(* FileStorage.get: find, then ProcessorQueue.stats, then the read stream. *)

GetLoad(n, i) ==
  /\ upload = "returned" /\ get.pc = "idle" /\ doc.exists
  /\ get' = [pc |-> "stat", node |-> n, item |-> i, active |-> doc.active]
  /\ UNCHANGED <<doc, fs, jobVars, redisVars, upload, act, del>>

GetGoto(step) ==
  /\ get' = [get EXCEPT !.pc = step]
  /\ UNCHANGED <<doc, fs, jobVars, redisVars, upload, act, del>>

GetPath == Final(get.item, get.active)

GetStat ==
  /\ get.pc = "stat"
  /\ GetGoto(IF GetPath \in fs THEN "open" ELSE "count")

\* hasRemainingCreationJob reads variation.name, which throws for the original
\* if the queue holds any job, of whatever file.
GetCount ==
  /\ get.pc = "count"
  /\ IF get.item = Original THEN \E answer \in {"notFound", "error"} : GetGoto(answer)
     ELSE GetGoto(IF Waiting(Creation(get.item)) \/ Active(Creation(get.item))
                  THEN "subscribe" ELSE "notFound")

GetSubscribe ==
  /\ get.pc = "subscribe"
  /\ GetGoto("listening")

GetRestat ==
  /\ get.pc = "restat"
  /\ GetGoto(IF GetPath \in fs THEN "open" ELSE "error")

GetOpen ==
  /\ get.pc = "open"
  /\ GetGoto(IF GetPath \in fs THEN "served" ELSE "error")

GetStep == GetStat \/ GetCount \/ GetSubscribe \/ GetRestat \/ GetOpen

-----------------------------------------------------------------------------
Init ==
  /\ doc = [exists |-> FALSE, active |-> FALSE, variations |-> {}]
  /\ fs = {}
  /\ pc = [j \in Jobs |-> "none"]
  /\ src = [j \in Jobs |-> None]
  /\ dest = [j \in Jobs |-> None]
  /\ seen = [j \in Jobs |-> FALSE]
  /\ runner = [j \in Jobs |-> None]
  /\ lock = FALSE
  /\ renamed = {}
  /\ upload = "idle"
  /\ act = [pc |-> "idle", queue |-> 1, changes |-> {}, current |-> {}]
  /\ del = [pc |-> "idle", via |-> "api", node |-> None, active |-> FALSE, variations |-> {},
            files |-> {}, queue |-> 1, toRemove |-> {}, waitFor |-> {}, rejected |-> FALSE,
            quiet |-> FALSE]
  /\ get = [pc |-> "idle", node |-> None, item |-> Original, active |-> FALSE]

UploadStep == UploadStore \/ UploadReject \/ UploadSave \/ UploadPlace \/ UploadQueue

Next ==
  \/ UploadStep
  \/ \E j \in Jobs : Work(j) \/ \E n \in Nodes : Take(n, j)
  \/ Activate
  \/ \E n \in Nodes, via \in Deletes : DeleteLoad(n, via)
  \/ DeleteStep
  \/ \E n \in Nodes, i \in Requested : GetLoad(n, i)
  \/ GetStep

\* Bull's workers and the Node event loop keep going; clients need not come.
Fairness ==
  /\ WF_vars(UploadStep)
  /\ \A j \in Jobs : WF_vars(Work(j)) /\ WF_vars(\E n \in Nodes : Take(n, j))
  /\ WF_vars(Activate /\ act.pc # "idle")
  /\ WF_vars(DeleteStep)
  /\ WF_vars(GetStep)

Spec == Init /\ [][Next]_vars
FairSpec == Spec /\ Fairness

-----------------------------------------------------------------------------
(* Safety.                                                                 *)

DocStates == [exists: BOOLEAN, active: BOOLEAN, variations: SUBSET Variations]
UploadStates == {"idle", "stored", "rejected", "saved", "placed", "returned"}
ActStates ==
  [pc: {"idle", "scan", "flag", "stat", "rename", "done", "failed"},
   queue: 1..(Len(Queues) + 1), changes: SUBSET PublicItems, current: SUBSET PublicItems]
DelStates ==
  [pc: {"idle", "loaded", "files", "lock", "scanWaiting", "scanActive", "background", "done"},
   via: {"api", "parent"}, node: Nodes \cup {None},
   active: BOOLEAN, variations: SUBSET Variations, files: SUBSET Paths, queue: 1..(Len(Queues) + 1),
   toRemove: SUBSET Jobs, waitFor: SUBSET Jobs, rejected: BOOLEAN, quiet: BOOLEAN]
GetStates ==
  [pc: {"idle", "stat", "count", "subscribe", "listening", "restat", "open",
        "served", "notFound", "error"},
   node: Nodes \cup {None}, item: Items, active: BOOLEAN]

\* The type of every variable.
TypeOK ==
  /\ doc \in DocStates
  /\ fs \subseteq Paths
  /\ pc \in [Jobs -> Steps \cup Ended \cup {"none", "waiting"}]
  /\ src \in [Jobs -> Paths \cup {None}]
  /\ dest \in [Jobs -> Paths \cup {None}]
  /\ seen \in [Jobs -> BOOLEAN]
  /\ runner \in [Jobs -> Nodes \cup {None}]
  /\ lock \in BOOLEAN
  /\ renamed \subseteq PublicItems
  /\ upload \in UploadStates
  /\ act \in ActStates
  /\ del \in DelStates
  /\ get \in GetStates

\* Nothing is stored in the directory Nginx serves to everybody before the file
\* has been activated, however stale the document a worker or handler holds.
PublicOnlyIfActivated == \A p \in fs : p.dir = "public" => doc.active

\* The optimization of a variation starts from, and replaces, the file its
\* creation put in place: the two never work on the variation at the same time.
OneWriter ==
  \A v \in Variations :
    Optimization(v) \in Jobs /\ pc[Optimization(v)] # "none"
      => pc[Creation(v)] \in {"continue", "completed"}

\* Once created, a variation of a file that was not deleted stays stored in one
\* of its two places, whatever activation and optimization do to it meanwhile.
NothingLost ==
  \A v \in doc.variations :
    doc.exists /\ pc[Creation(v)] \in {"reload", "continue", "completed"}
      => Final(v, FALSE) \in fs \/ Final(v, TRUE) \in fs

\* When an upload nobody interfered with has been processed, every variation is
\* stored and described, and no intermediate file is left.
ProcessedCompletely ==
  upload = "returned" /\ Quiet
    => /\ doc.variations = Variations
       /\ fs = {Final(i, FALSE) : i \in Items}
                 \cup (IF ModifiesOriginal THEN {Backup} ELSE {})

\* Deleting a file that is not being processed leaves no file behind, if no activation
\* has begun by the time it is over (file.api.ts:52-56, file.util.ts).
QuietDeleteIsClean == del.pc = "done" /\ del.quiet /\ act.pc = "idle" => fs = {}

\* A request that waited for a variation finds it when it is woken.
GetFinds == get.pc # "error"

-----------------------------------------------------------------------------
(* Liveness.                                                               *)

\* Every upload is processed to the end.
EventuallyProcessed == upload = "saved" ~> (Quiet /\ doc.variations = Variations)

\* Whatever is activated or deleted meanwhile, no job is left behind in a queue.
EventuallyQuiet == upload = "returned" ~> []Quiet

-----------------------------------------------------------------------------
(* Refinement.                                                             *)

Phase == IF doc.exists THEN "stored"
         ELSE IF upload \in {"idle", "stored", "rejected"} THEN "new" ELSE "removed"

Abstract == INSTANCE Derivation WITH
  phase <- Phase, published <- doc.active, derived <- doc.variations

\* The document of the file grows as module Derivation says: a variation is
\* recorded once its source is, and nothing changes after the removal.
DerivationSpec == Abstract!Spec

-----------------------------------------------------------------------------
(* What comments and documents of the repository promise.                  *)

\* "the socket is kept alive until the first version of the item is available"
RequestAnswered == get.pc = "stat" ~> get.pc \in {"served", "notFound", "error"}

=============================================================================
