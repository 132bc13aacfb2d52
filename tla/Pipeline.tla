------------------------------ MODULE Pipeline ------------------------------
(***************************************************************************)
(* Which jobs a file of each type leads to (processor.manager.ts, the      *)
(* processors, processor.queue.ts): a creation per variation, the ones     *)
(* made from another variation once it is there, and optimizations.        *)
(* Module FileProcessing has one file with two variations and every step   *)
(* of a job; this one has every type, a job is taken and finished, and an  *)
(* image uploaded as "playfield" is rotated and processed once more as a   *)
(* type with more variations when a release takes it                       *)
(* (release.abstract.api.ts).                                              *)
(***************************************************************************)
EXTENDS FileKinds, Sequences, SequencesExt

CONSTANT Workers   \* bound: the jobs of a queue at work at one time

MimeTypes ==
  {"image/jpeg", "image/png", "video/mp4", "video/avi", "application/x-directb2s",
   "application/x-visual-pinball-table", "application/zip", "text/plain", "audio/mpeg",
   "application/vbscript", "model/gltf-binary"}

CategoryOf ==
  [mime \in MimeTypes |->
     CASE mime \in {"image/jpeg", "image/png"} -> "image"
       [] mime \in {"video/mp4", "video/avi"} -> "video"
       [] mime = "application/x-directb2s" -> "directb2s"
       [] mime = "application/x-visual-pinball-table" -> "table"
       [] mime = "application/zip" -> "archive"
       [] mime = "text/plain" -> "text"
       [] mime = "audio/mpeg" -> "audio"
       [] mime = "application/vbscript" -> "script"
       [] mime = "model/gltf-binary" -> "model"]

\* The files the API accepts; of an image type, logos are PNGs.
Uploadable ==
  {[type |-> t, mime |-> m, category |-> CategoryOf[m]] :
     t \in {k.name : k \in FileTypes}, m \in MimeTypes \ {"model/gltf-binary"}}

KnownFiles ==
  {file \in Uploadable : Accepted(file.type, file.category) /\ (file.type = "logo" => file.mime = "image/png")}

Defined(file) == DOMAIN VariationsOf(file)
SourceOf(file, variation) == VariationsOf(file)[variation]

\* File.getMimeType, of the original and of what its variations are declared as.
MimeType(file, item) ==
  CASE item = "original" -> file.mime
    [] item = "gltf" -> "model/gltf-binary"
    [] item = "small-rotated" -> "video/mp4"
    [] item \in {"still", "hyperpin"} \/ file.type = "logo" -> "image/png"
    [] OTHER -> "image/jpeg"

MimeCategory(file, item) == CategoryOf[MimeType(file, item)]
IsVideo(file, item) == MimeCategory(file, item) = "video"

-----------------------------------------------------------------------------
\* canProcess of the creation processors.
CreationProcessors(file, src, dest) ==
  {p \in {"directb2s.thumb", "image.variation", "video.screenshot", "video.thumb", "vpt.gltf"} :
     CASE p = "directb2s.thumb" -> /\ MimeType(file, src) = "application/x-directb2s"
                                   /\ MimeCategory(file, dest) = "image"
       [] p = "image.variation" -> MimeCategory(file, src) = "image"
       [] p = "video.screenshot" -> IsVideo(file, src) /\ dest = "still"
       [] p = "video.thumb" -> IsVideo(file, src) /\ IsVideo(file, dest)
       [] p = "vpt.gltf" -> MimeCategory(file, "original") = "table"}

\* canProcess of the optimization processors.
OptimizationProcessors(file, item) ==
  {p \in {"directb2s.optimization", "image.optimization", "video.optimization", "vpt.blockindex"} :
     CASE p = "directb2s.optimization" -> MimeType(file, item) = "application/x-directb2s"
       [] p = "image.optimization" -> MimeType(file, item) = "image/png"
       [] p = "video.optimization" -> item = "original" /\ IsVideo(file, item)
       [] p = "vpt.blockindex" -> item = "original" /\ MimeCategory(file, item) = "table"}

Order ==
  [p \in {"directb2s.thumb", "image.variation", "video.screenshot", "video.thumb", "vpt.gltf",
          "directb2s.optimization", "image.optimization", "video.optimization", "vpt.blockindex"} |->
     CASE p = "vpt.gltf" -> 0
       [] p \in {"image.variation", "video.screenshot", "video.thumb"} -> 100
       [] p = "directb2s.thumb" -> 200
       [] p \in {"image.optimization", "video.optimization"} -> 500
       [] p = "directb2s.optimization" -> 600
       [] p = "vpt.blockindex" -> 700]

VARIABLES
  upload,   \* the document of the file
  disk,     \* the version of the original: 1 as uploaded, 2 as rotated
  at,       \* "uploaded", "processed", "rotated", or "reprocessed"
  waiting,  \* the jobs of each queue, in their order
  active,   \* the jobs at work, each with the version of its source
  made,     \* the version of each variation, 0 if there is none
  stale     \* history: the variations a job made of the first version while the second was queued

pipelineVars == <<upload, disk, at, waiting, active, made, stale>>

QueuesOf(categories) == {"creation", "optimization"} \X categories

\* Queues of the categories of the file and its variations, for activation and removal.
Categories(file) == {MimeCategory(file, i) : i \in {"original"} \cup Defined(file)}

Job(type, item, processor, src) == [type |-> type, item |-> item, processor |-> processor, src |-> src]
QueueFor(file, job) == <<job.type, MimeCategory(file, job.item)>>

\* A queue is ordered by priority, and jobs of one priority by age (of the jobs that are added
\* together, in some order).
Insert(queue, job) ==
  LET before == {i \in DOMAIN queue : Order[queue[i].processor] <= Order[job.processor]}
  IN InsertAt(queue, Cardinality(before) + 1, job)

AddJobs(queues, file, jobs) ==
  FoldSet(LAMBDA job, qs : [qs EXCEPT ![QueueFor(file, job)] = Insert(@, job)], queues, jobs)

\* A variation for which there is not exactly one processor is not made.
Creations(file, src, dests) ==
  {Job("creation", v, CHOOSE p \in CreationProcessors(file, src, v) : TRUE, src) :
     v \in {d \in dests : Cardinality(CreationProcessors(file, src, d)) = 1}}
Optimizations(file, item) ==
  {Job("optimization", item, p, item) : p \in OptimizationProcessors(file, item)}

\* Mutant of Dependencies: what is made from a variation is never queued.
NoDependencies(file, item) == IF item = "original" THEN {v \in Defined(file) : SourceOf(file, v) = item} ELSE {}

Dependencies(file, item) == {v \in Defined(file) : SourceOf(file, v) = item}

\* processFile for the original, continueCreation for a variation.
Processed(file, item) == Creations(file, item, Dependencies(file, item)) \cup Optimizations(file, item)

AllItems == UNION {Defined(f) : f \in KnownFiles}

PipelineInit ==
  /\ upload \in KnownFiles
  /\ disk = 1
  /\ at = "uploaded"
  /\ waiting = [q \in QueuesOf({CategoryOf[m] : m \in MimeTypes}) |-> << >>]
  /\ active = {}
  /\ made = [v \in AllItems |-> 0]
  /\ stale = {}

\* FileUtil.create
QueueUpload ==
  /\ at = "uploaded" /\ at' = "processed"
  /\ waiting' = AddJobs(waiting, upload, Processed(upload, "original"))
  /\ UNCHANGED <<upload, disk, active, made, stale>>

\* preProcess, when a release is created with the image: it gets its orientation.
RotateUpload(type) ==
  /\ at = "processed" /\ upload.type = "playfield"
  /\ at' = "rotated" /\ disk' = 2
  /\ upload' = [upload EXCEPT !.type = type]
  /\ UNCHANGED <<waiting, active, made, stale>>

\* postProcess
QueueRotated ==
  /\ at = "rotated" /\ at' = "reprocessed"
  /\ waiting' = AddJobs(waiting, upload, Processed(upload, "original"))
  /\ stale' = {run.job.item : run \in {r \in active : r.job.type = "creation" /\ r.version < disk}}
  /\ UNCHANGED <<upload, disk, active, made>>

-----------------------------------------------------------------------------
InQueue(q) == {run \in active : QueueFor(upload, run.job) = q}

\* A free worker takes the first job and copies its source.
TakeFirst(q) ==
  LET job == Head(waiting[q])
      version == IF job.src = "original" THEN disk ELSE made[job.src]
  IN
  /\ waiting[q] # << >> /\ Cardinality(InQueue(q)) < Workers
  /\ waiting' = [waiting EXCEPT ![q] = Tail(@)]
  /\ active' = active \cup {[job |-> job, version |-> version]}
  /\ UNCHANGED <<upload, disk, at, made, stale>>

\* A variation is made; what is made from it is queued.
FinishCreation(run) ==
  /\ run \in active /\ run.job.type = "creation"
  /\ active' = active \ {run}
  /\ made' = [made EXCEPT ![run.job.item] = run.version]
  /\ waiting' = AddJobs(waiting, upload, Processed(upload, run.job.item))
  /\ UNCHANGED <<upload, disk, at, stale>>

\* The one that ends first has removed the copy the two jobs of a variation have in common.
FailCreation(run) ==
  /\ run \in active /\ run.job.type = "creation"
  /\ run.job.item \in stale /\ made[run.job.item] > 0
  /\ active' = active \ {run}
  /\ UNCHANGED <<upload, disk, at, waiting, made, stale>>

FinishOptimization(run) ==
  /\ run \in active /\ run.job.type = "optimization"
  /\ active' = active \ {run}
  /\ UNCHANGED <<upload, disk, at, waiting, made, stale>>

PipelineStep ==
  \/ QueueUpload \/ QueueRotated
  \/ \E type \in {"playfield-fs", "playfield-ws"} : RotateUpload(type)
  \/ \E q \in DOMAIN waiting : TakeFirst(q)
  \/ \E run \in active : FinishCreation(run) \/ FailCreation(run) \/ FinishOptimization(run)

PipelineSpec == PipelineInit /\ [][PipelineStep]_pipelineVars

-----------------------------------------------------------------------------
NoJobs == active = {} /\ \A q \in DOMAIN waiting : waiting[q] = << >>

\* A file has all the variations of its type once no job is left, each made of the original
\* as it is - but for those a job was still making of the image before it was rotated; no
\* variation is made while the one it is made from is missing; and every job is in a queue
\* that activating or removing the file looks at (processor.queue.ts:114 and :269,
\* processor.worker.ts:257, release.abstract.api.ts:188).
EveryVariationMade ==
  /\ at \in {"processed", "reprocessed"} /\ NoJobs =>
       \A v \in Defined(upload) : made[v] = disk \/ (v \in stale /\ made[v] > 0)
  /\ \A run \in active : run.version > 0
  /\ \A q \in DOMAIN waiting : waiting[q] # << >> => q \in QueuesOf(Categories(upload))

=============================================================================
