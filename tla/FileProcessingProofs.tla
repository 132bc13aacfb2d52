------------------------ MODULE FileProcessingProofs ------------------------
(***************************************************************************)
(* Theorems about file processing for every file type (any tree of         *)
(* variations, queues, priorities and costs), any number of nodes, and     *)
(* every interleaving of uploads, workers, activation, deletion and        *)
(* downloads.                                                              *)
(***************************************************************************)
EXTENDS FileProcessing, TLAPS

-----------------------------------------------------------------------------
(* Paths and jobs have the shapes the actions rely on.                     *)

LEMMA PathType ==
  ASSUME NEW item \in Items, NEW isActive \in BOOLEAN, NEW suffix \in Suffixes
  PROVE  /\ Path(item, isActive, suffix) \in Paths
         /\ Path(item, isActive, suffix).suffix = suffix
         /\ Path(item, isActive, suffix).dir = "public" => isActive
  BY DEF Path, Paths

LEMMA JobType ==
  ASSUME NEW j \in Jobs
  PROVE  /\ j.item \in Items
         /\ j.type \in {"creation", "optimization"}
         /\ j.type \in Suffixes
         /\ j.type = "creation" => j.item \in Variations
  BY ItemsAssumption DEF Jobs, Items, Suffixes

LEMMA KnownPaths ==
  /\ Backup \in Paths /\ Backup.dir = "protected"
  /\ \A v \in Variations : SourceCopy(v) \in Paths /\ SourceCopy(v).dir = "protected"
  /\ \A i \in Items, a \in BOOLEAN :
       Final(i, a) \in Paths /\ (Final(i, a).dir = "public" => a)
  BY ItemsAssumption DEF Backup, SourceCopy, Final, Path, Paths, Items, Suffixes

LEMMA PendingType ==
  ASSUME NEW i \in Items
  PROVE  NextPending(i) \subseteq {j \in Jobs : pc[j] = "none"}
  BY DEF NextPending, Pending, Children, Creation, Optimization, Jobs

-----------------------------------------------------------------------------
(* Type correctness.  A queued job has both its paths, and writes beside   *)
(* the files of its item: without this part a worker could write anywhere. *)

Queued ==
  \A j \in Jobs :
    pc[j] # "none" => src[j] \in Paths /\ dest[j] \in Paths /\ dest[j].suffix = j.type

TypeInv == TypeOK /\ Queued

LEMMA TypeInit == Init => TypeInv
<1> SUFFICES ASSUME Init PROVE TypeInv
  OBVIOUS
<1> USE DEF Init
<1>1. 1 \in 1..(Len(Queues) + 1)
  BY QueuesAssumption
<1>2. act \in ActStates
  BY <1>1 DEF ActStates
<1>3. del \in DelStates
  BY <1>1 DEF DelStates
<1>4. get \in GetStates
  BY DEF GetStates, Items
<1> QED
  BY <1>2, <1>3, <1>4 DEF TypeInv, TypeOK, Queued, DocStates, UploadStates

\* The three effects a worker's step can have on its job.
LEMMA StepType ==
  ASSUME TypeInv, NEW j \in Jobs, NEW step \in Steps, pc[j] # "none", Step(j, step)
  PROVE  /\ pc' \in [Jobs -> Steps \cup Ended \cup {"none", "waiting"}]
         /\ runner' = runner /\ del' = del /\ get' = get
         /\ UNCHANGED <<src, dest>> => Queued'
  BY DEF TypeInv, TypeOK, Queued, Step

LEMMA EndType ==
  ASSUME TypeInv, NEW j \in Jobs, NEW outcome \in Ended, pc[j] # "none", End(j, outcome)
  PROVE  /\ pc' \in [Jobs -> Steps \cup Ended \cup {"none", "waiting"}]
         /\ seen' \in [Jobs -> BOOLEAN]
         /\ runner' \in [Jobs -> Nodes \cup {None}]
         /\ del' \in DelStates
         /\ get' \in GetStates
         /\ UNCHANGED <<src, dest>> => Queued'
<1> USE DEF TypeInv, TypeOK, End
<1>1. pc' \in [Jobs -> Steps \cup Ended \cup {"none", "waiting"}]
  OBVIOUS
<1>2. seen' \in [Jobs -> BOOLEAN] /\ runner' \in [Jobs -> Nodes \cup {None}]
  OBVIOUS
<1>3. del' \in DelStates
  BY DEF DelStates
<1>4. get' \in GetStates
  BY DEF GetStates
<1>5. UNCHANGED <<src, dest>> => Queued'
  BY DEF Queued
<1> QED
  BY <1>1, <1>2, <1>3, <1>4, <1>5

LEMMA EnqueueType ==
  ASSUME TypeInv, NEW i \in Items, NEW j \in NextPending(i), NEW from \in Paths,
         NEW isActive \in BOOLEAN, Enqueue(j, from, isActive)
  PROVE  /\ pc' \in [Jobs -> Steps \cup Ended \cup {"none", "waiting"}]
         /\ src' \in [Jobs -> Paths \cup {None}]
         /\ dest' \in [Jobs -> Paths \cup {None}]
         /\ Queued'
<1>1. j \in Jobs /\ pc[j] = "none"
  BY PendingType
<1>2. /\ Path(j.item, isActive, j.type) \in Paths
      /\ Path(j.item, isActive, j.type).suffix = j.type
  BY <1>1, JobType, PathType
<1> QED
  BY <1>1, <1>2 DEF TypeInv, TypeOK, Queued, Enqueue

LEMMA TypeStep == TypeInv /\ [Next]_vars => TypeInv'
<1> SUFFICES ASSUME TypeInv, [Next]_vars PROVE TypeInv'
  OBVIOUS
<1>a. Len(Queues) \in Nat
  BY QueuesAssumption
<1> USE DEF TypeInv, TypeOK
<1>1. CASE UploadStep
  <2> USE DEF UploadStates
  <2>1. CASE UploadStore
    BY <2>1, KnownPaths DEF UploadStore, Queued, jobVars, redisVars
  <2>2. CASE UploadReject
    BY <2>2 DEF UploadReject, Queued, jobVars, redisVars
  <2>3. CASE UploadSave
    BY <2>3 DEF UploadSave, Queued, jobVars, redisVars, DocStates
  <2>4. CASE UploadPlace
    <3>1. Final(Original, FALSE) \in Paths
      BY KnownPaths DEF Items
    <3>2. fs' \subseteq Paths
      BY <2>4, <3>1 DEF UploadPlace
    <3> QED
      BY <2>4, <3>2 DEF UploadPlace, Queued, jobVars, redisVars
  <2>5. CASE UploadQueue
    <3>1. PICK j \in NextPending(Original) :
            Enqueue(j, IF ModifiesOriginal THEN Backup ELSE Final(Original, FALSE), FALSE)
      BY <2>5 DEF UploadQueue
    <3>2. (IF ModifiesOriginal THEN Backup ELSE Final(Original, FALSE)) \in Paths
      BY KnownPaths DEF Items
    <3>3. /\ pc' \in [Jobs -> Steps \cup Ended \cup {"none", "waiting"}]
          /\ src' \in [Jobs -> Paths \cup {None}]
          /\ dest' \in [Jobs -> Paths \cup {None}]
          /\ Queued'
      BY <3>1, <3>2, EnqueueType DEF Items
    <3> QED
      BY <2>5, <3>3 DEF UploadQueue, redisVars
  <2> QED
    BY <1>1, <2>1, <2>2, <2>3, <2>4, <2>5 DEF UploadStep
<1>2. ASSUME NEW j \in Jobs, Work(j) PROVE TypeInv'
  <2>0. /\ j.item \in Items /\ j.type \in Suffixes
        /\ j.type = "creation" => j.item \in Variations
    BY JobType
  <2>a. pc[j] # "none"
    BY <1>2 DEF Work, Load, CreateCopy, CreateProcess, CreateDescribe, CreateCheckDeleted, Resolve,
       CreateMove, CreateReload, CreateContinue, CreateEnd, OptimizeProcess,
       OptimizeCheckDeleted, OptimizeMove
  <2>b. /\ \A step \in Steps : Step(j, step) =>
             /\ pc' \in [Jobs -> Steps \cup Ended \cup {"none", "waiting"}]
             /\ runner' = runner /\ del' = del /\ get' = get
             /\ UNCHANGED <<src, dest>> => Queued'
        /\ \A outcome \in Ended : End(j, outcome) =>
             /\ pc' \in [Jobs -> Steps \cup Ended \cup {"none", "waiting"}]
             /\ seen' \in [Jobs -> BOOLEAN]
             /\ runner' \in [Jobs -> Nodes \cup {None}]
             /\ del' \in DelStates
             /\ get' \in GetStates
             /\ UNCHANGED <<src, dest>> => Queued'
    BY <2>a, StepType, EndType
  <2>c. /\ {"copy", "process", "describe", "checkDeleted", "resolve", "move", "reload",
            "continue"} \subseteq Steps
        /\ {"completed", "failed"} \subseteq Ended
    BY DEF Steps, Ended
  <2>d. dest[j] \in Paths
    BY <2>a DEF Queued
  <2>e. doc.active \in BOOLEAN /\ Described(j.item) \in DocStates
    BY DEF DocStates, Described
  <2>f. \A i \in Items : Final(i, seen[j]) \in Paths
    BY KnownPaths
  <2>1. CASE Load(j)
    BY <2>1, <2>b, <2>c, <2>e DEF Load, redisVars
  <2>2. CASE CreateCopy(j)
    BY <2>0, <2>2, <2>b, <2>c, KnownPaths DEF CreateCopy, Goto, redisVars
  <2>3. CASE CreateProcess(j)
    BY <2>3, <2>b, <2>c, <2>d DEF CreateProcess, Goto, redisVars
  <2>4. CASE CreateDescribe(j)
    BY <2>4, <2>b, <2>c, <2>e DEF CreateDescribe, Goto, redisVars
  <2>5. CASE CreateCheckDeleted(j)
    BY <2>5, <2>b, <2>c DEF CreateCheckDeleted, Goto, redisVars
  <2>6. CASE Resolve(j)
    BY <2>6, <2>b, <2>c DEF Resolve, redisVars
  <2>7. CASE CreateMove(j)
    BY <2>0, <2>7, <2>b, <2>c, <2>f DEF CreateMove, Goto, redisVars
  <2>8. CASE CreateReload(j)
    BY <2>8, <2>b, <2>c, <2>e DEF CreateReload, redisVars
  <2>9. CASE CreateContinue(j)
    <3>1. PICK k \in NextPending(j.item) : Enqueue(k, Final(j.item, seen[j]), seen[j])
      BY <2>9 DEF CreateContinue
    <3>2. Final(j.item, seen[j]) \in Paths /\ seen[j] \in BOOLEAN
      BY <2>0, <2>f
    <3>3. /\ pc' \in [Jobs -> Steps \cup Ended \cup {"none", "waiting"}]
          /\ src' \in [Jobs -> Paths \cup {None}]
          /\ dest' \in [Jobs -> Paths \cup {None}]
          /\ Queued'
      BY <2>0, <3>1, <3>2, EnqueueType
    <3> QED
      BY <2>9, <3>3 DEF CreateContinue, redisVars
  <2>10. CASE CreateEnd(j)
    BY <2>10, <2>b, <2>c DEF CreateEnd, redisVars
  <2>11. CASE OptimizeProcess(j)
    BY <2>11, <2>b, <2>c, <2>d DEF OptimizeProcess, Goto, redisVars
  <2>12. CASE OptimizeCheckDeleted(j)
    BY <2>12, <2>b, <2>c, <2>e DEF OptimizeCheckDeleted, Goto, redisVars
  <2>13. CASE OptimizeMove(j)
    BY <2>0, <2>13, <2>b, <2>c, <2>f DEF OptimizeMove, redisVars
  <2> QED
    BY <1>2, <2>1, <2>2, <2>3, <2>4, <2>5, <2>6, <2>7, <2>8, <2>9, <2>10, <2>11, <2>12, <2>13
    DEF Work
<1>3. ASSUME NEW j \in Jobs, NEW n \in Nodes, Take(n, j) PROVE TypeInv'
  BY <1>3 DEF Take, Waiting, Queued, redisVars, Steps
<1>4. CASE Activate
  <2>0. act.queue \in 1..(Len(Queues) + 1) /\ act.changes \subseteq PublicItems
        /\ act.current \subseteq PublicItems
    BY DEF ActStates
  <2>a. \A step \in {"scan", "stat", "done", "failed"} : ActivateGoto(step) => act' \in ActStates
    BY DEF ActivateGoto, ActStates
  <2>b. \A i \in PublicItems : Final(i, TRUE) \in Paths
    BY KnownPaths, ItemsAssumption DEF Items
  <2>1. CASE ActivateSave
    <3>1. doc' \in DocStates
      BY <2>1 DEF ActivateSave, DocStates
    <3>2. act' \in ActStates
      BY <2>1 DEF ActivateSave, ActStates
    <3> QED
      BY <2>1, <3>1, <3>2 DEF ActivateSave, Queued, jobVars, redisVars
  <2>2. CASE ActivateScan
    <3>1. act' \in ActStates
      <4>1. CASE act.queue > Len(Queues)
        BY <1>a, <2>0, <2>a, <2>2, <4>1 DEF ActivateScan
      <4>2. CASE act.queue <= Len(Queues)
        <5> DEFINE current == {i \in act.changes : \E j \in Jobs :
                                 j.item = i /\ Active(j) /\ QueueOf(j) = Queues[act.queue]}
        <5>1. current \subseteq PublicItems
          BY <2>0
        <5>2. act' = [act EXCEPT !.pc = "flag", !.queue = @ + 1, !.current = current]
          BY <1>a, <2>0, <2>2, <4>2 DEF ActivateScan
        <5>3. act.queue + 1 \in 1..(Len(Queues) + 1)
          BY <1>a, <2>0, <4>2
        <5> HIDE DEF current
        <5> QED
          BY <5>1, <5>2, <5>3 DEF ActStates
      <4> QED
        BY <1>a, <2>0, <4>1, <4>2
    <3> QED
      BY <2>2, <3>1 DEF ActivateScan, Queued, jobVars, redisVars
  <2>3. CASE ActivateFlag
    <3>1. ASSUME NEW i \in act.current, renamed' = renamed \cup {i},
                 act' = [act EXCEPT !.current = @ \ {i}, !.changes = @ \ {i}]
          PROVE  act' \in ActStates /\ renamed' \subseteq PublicItems
      <4>1. i \in PublicItems /\ act.current \ {i} \subseteq PublicItems
            /\ act.changes \ {i} \subseteq PublicItems
        BY <2>0
      <4> QED
        BY <3>1, <4>1 DEF ActStates
    <3>2. act' \in ActStates /\ renamed' \subseteq PublicItems
      BY <2>3, <2>a, <3>1 DEF ActivateFlag
    <3> QED
      BY <2>3, <3>2 DEF ActivateFlag, Queued, jobVars
  <2>4. CASE ActivateStat
    <3>1. ASSUME NEW i \in act.changes
          PROVE  /\ [act EXCEPT !.pc = "rename", !.current = {i}, !.changes = @ \ {i}] \in ActStates
                 /\ [act EXCEPT !.changes = @ \ {i}] \in ActStates
      BY <2>0 DEF ActStates
    <3>2. act' \in ActStates
      BY <2>4, <2>a, <3>1 DEF ActivateStat
    <3> QED
      BY <2>4, <3>2 DEF ActivateStat, Queued, jobVars, redisVars
  <2>5. CASE ActivateRename
    <3>1. [act EXCEPT !.pc = "stat", !.current = {}] \in ActStates
      BY DEF ActStates
    <3>2. act' \in ActStates
      BY <2>5, <2>a, <3>1 DEF ActivateRename
    <3>3. fs' \subseteq Paths
      <4>1. fs \subseteq Paths
        OBVIOUS
      <4>2. ASSUME NEW i \in act.current, fs' = (fs \ {Final(i, FALSE)}) \cup {Final(i, TRUE)}
            PROVE  fs' \subseteq Paths
        BY <2>0, <2>b, <4>1, <4>2
      <4> QED
        BY <2>5, <4>1, <4>2 DEF ActivateRename
    <3> QED
      BY <2>5, <3>2, <3>3 DEF ActivateRename, Queued, jobVars, redisVars
  <2> QED
    BY <1>4, <2>1, <2>2, <2>3, <2>4, <2>5 DEF Activate
<1>5. ASSUME NEW n \in Nodes, NEW via \in Deletes, DeleteLoad(n, via) PROVE TypeInv'
  <2>1. Quiet \in BOOLEAN
    BY DEF Quiet
  <2>2. del' \in DelStates
    BY <1>5, <2>1, EnvironmentAssumption DEF DeleteLoad, DelStates, DocStates
  <2> QED
    BY <1>5, <2>2 DEF DeleteLoad, Queued, jobVars, redisVars
<1>6. CASE DeleteStep
  <2>1. CASE DeleteDocument
    <3>1. FilesToDelete(del) \subseteq Paths
      BY KnownPaths DEF FilesToDelete, DelStates, Items
    <3>2. del' \in DelStates /\ doc' \in DocStates
      BY <2>1, <3>1 DEF DeleteDocument, DelStates, DocStates
    <3> QED
      BY <2>1, <3>2 DEF DeleteDocument, Queued, jobVars, redisVars
  <2>2. CASE DeleteFile
    <3>1. del' \in DelStates
      <4>1. ASSUME NEW p \in del.files, del' = [del EXCEPT !.files = @ \ {p}]
            PROVE  del' \in DelStates
        <5>1. del.files \ {p} \subseteq Paths
          BY DEF DelStates
        <5> QED
          BY <4>1, <5>1 DEF DelStates
      <4>2. ASSUME del' = [del EXCEPT !.pc = "lock"]
            PROVE  del' \in DelStates
        BY <4>2 DEF DelStates
      <4> QED
        BY <2>2, <4>1, <4>2 DEF DeleteFile
    <3>2. fs' \subseteq Paths
      BY <2>2 DEF DeleteFile
    <3> QED
      BY <2>2, <3>1, <3>2 DEF DeleteFile, Queued, jobVars, redisVars
  <2>3. CASE DeleteLock
    <3>1. del' \in DelStates
      BY <2>3 DEF DeleteLock, DelStates
    <3> QED
      BY <2>3, <3>1 DEF DeleteLock, Queued, jobVars, redisVars
  <2>4. CASE DeleteScanWaiting
    <3>1. del' \in DelStates
      BY <2>4 DEF DeleteScanWaiting, DelStates
    <3> QED
      BY <2>4, <3>1 DEF DeleteScanWaiting, Queued, jobVars, redisVars
  <2>5. CASE DeleteScanActive
    <3>1. del' \in DelStates
      <4>1. del.queue + 1 \in 1..(Len(Queues) + 1)
        BY <1>a, <2>5 DEF DeleteScanActive, DelStates
      <4> QED
        BY <2>5, <4>1 DEF DeleteScanActive, DelStates
    <3> QED
      BY <2>5, <3>1 DEF DeleteScanActive, Queued, jobVars, redisVars
  <2>6. CASE DeleteSubscribe
    <3>1. del' \in DelStates
      BY <2>6 DEF DeleteSubscribe, DelStates
    <3> QED
      BY <2>6, <3>1 DEF DeleteSubscribe, Queued, jobVars, redisVars
  <2>7. ASSUME NEW j \in Jobs, DeleteRemoveJob(j) PROVE TypeInv'
    <3>1. del' \in DelStates
      <4>1. PICK r \in BOOLEAN :
              del' = [del EXCEPT !.toRemove = @ \ {j}, !.rejected = r]
        <5>1. del.rejected \in BOOLEAN
          BY DEF DelStates
        <5>2. CASE Active(j)
          BY <2>7, <5>2 DEF DeleteRemoveJob
        <5>3. CASE ~Active(j)
          <6>1. (del.rejected \/ (j.item # Original /\ src[j] \notin fs)) \in BOOLEAN
            OBVIOUS
          <6>2. del' = [del EXCEPT !.toRemove = @ \ {j},
                          !.rejected = @ \/ (j.item # Original /\ src[j] \notin fs)]
            BY <2>7, <5>3 DEF DeleteRemoveJob
          <6> QED
            BY <6>1, <6>2
        <5> QED
          BY <5>2, <5>3
      <4>2. del.toRemove \ {j} \subseteq Jobs
        BY DEF DelStates
      <4> QED
        BY <4>1, <4>2 DEF DelStates
    <3>2. pc' \in [Jobs -> Steps \cup Ended \cup {"none", "waiting"}]
      BY <2>7 DEF DeleteRemoveJob, Ended
    <3>3. Queued'
      BY <2>7 DEF DeleteRemoveJob, Queued, Waiting
    <3>4. fs' \subseteq Paths
      BY <2>7 DEF DeleteRemoveJob
    <3> QED
      BY <2>7, <3>1, <3>2, <3>3, <3>4 DEF DeleteRemoveJob, redisVars
  <2>8. CASE DeleteUnlock
    <3>1. del' \in DelStates
      BY <2>8 DEF DeleteUnlock, DelStates
    <3> QED
      BY <2>8, <3>1 DEF DeleteUnlock, Queued, jobVars
  <2> QED
    BY <1>6, <2>1, <2>2, <2>3, <2>4, <2>5, <2>6, <2>7, <2>8 DEF DeleteStep
<1>7. ASSUME NEW n \in Nodes, NEW i \in Requested, GetLoad(n, i) PROVE TypeInv'
  <2>1. get' \in GetStates
    BY <1>7, EnvironmentAssumption DEF GetLoad, GetStates, DocStates
  <2> QED
    BY <1>7, <2>1 DEF GetLoad, Queued, jobVars, redisVars
<1>8. CASE GetStep
  <2>1. \E step \in {"count", "subscribe", "listening", "open", "served", "notFound", "error"} :
          GetGoto(step)
    BY <1>8 DEF GetStep, GetStat, GetCount, GetSubscribe, GetRestat, GetOpen
  <2>2. get' \in GetStates
    BY <2>1 DEF GetGoto, GetStates
  <2> QED
    BY <2>1, <2>2 DEF GetGoto, Queued, jobVars, redisVars
<1>9. CASE UNCHANGED vars
  BY <1>9 DEF vars, Queued, jobVars, redisVars
<1> QED
  BY <1>1, <1>2, <1>3, <1>4, <1>5, <1>6, <1>7, <1>8, <1>9 DEF Next

\* Every variable keeps its type, and no job is queued without its paths.
THEOREM TypeCorrect == Spec => []TypeOK
<1>1. Spec => []TypeInv
  BY TypeInit, TypeStep, PTL DEF Spec
<1> QED
  BY <1>1, PTL DEF TypeInv

-----------------------------------------------------------------------------
(* The inductive invariants behind the safety theorems.                    *)

\* A creation is queued when its source is described, and continues once its
\* own variation is; an optimization is queued by the creation before it.
DescribedInOrder ==
  /\ \A v \in Variations : pc[Creation(v)] # "none" => Source[v] \in doc.variations \cup {Original}
  /\ \A v \in Variations :
       doc.exists /\ pc[Creation(v)] \in {"checkDeleted", "resolve", "move", "reload"}
         => v \in doc.variations
  /\ \A v \in Variations : pc[Creation(v)] = "continue" => v \in doc.variations
  /\ \A v \in Variations :
       Optimization(v) \in Jobs /\ pc[Optimization(v)] # "none" => v \in doc.variations

\* Nothing is queued before the upload is in place.
NoJobsYet == \A j \in Jobs : pc[j] # "none" => upload \in {"placed", "returned"}

\* A document is removed after its upload has returned, and never comes back.
RemovedForGood ==
  /\ del.pc # "idle" => upload = "returned"
  /\ del.pc \notin {"idle", "loaded"} \/ lock => ~doc.exists /\ upload = "returned"

\* Whoever believes the file to be active is right.
KnownActive ==
  /\ \A j \in Jobs : seen[j] => doc.active
  /\ \A j \in Jobs : pc[j] # "none" /\ dest[j].dir = "public" => doc.active
  /\ renamed # {} \/ act.pc # "idle" => doc.active

\* A described variation has been created.
CreatedFirst ==
  \A v \in doc.variations :
    pc[Creation(v)] \in {"checkDeleted", "resolve", "move", "reload", "continue", "completed"}

OrderInv == DescribedInOrder /\ NoJobsYet /\ RemovedForGood /\ OneWriter
PublicInv == KnownActive /\ PublicOnlyIfActivated
StoredInv == CreatedFirst /\ NothingLost

-----------------------------------------------------------------------------
(* The life of a job and of the document, one step at a time.              *)

\* What a step can do to job j, and to the document if j moves.
JobStep(j) ==
  \/ pc'[j] = pc[j]
  \/ /\ pc[j] = "none" /\ pc'[j] = "waiting" /\ doc' = doc
     /\ \/ upload = "placed" /\ j \in Children(Original)
        \/ \E v \in Variations : pc[Creation(v)] = "continue" /\ j \in Children(v)
  \/ pc[j] = "waiting" /\ pc'[j] \in {"load", "removed"} /\ doc' = doc
  \/ /\ j.type = "optimization" /\ pc[j] \in Steps /\ pc'[j] \in Steps \cup Ended
     /\ doc' = doc \/ doc' = Described(j.item)
  \/ /\ j.type = "creation" /\ doc' = doc
     /\ \/ pc[j] = "load" /\ pc'[j] = "copy"
        \/ pc[j] \in {"load", "copy", "process"} /\ pc'[j] \in {"process", "describe", "completed", "failed"}
        \/ pc[j] = "checkDeleted" /\ pc'[j] = "completed" /\ lock
        \/ <<pc[j], pc'[j]>> \in {<<"checkDeleted", "resolve">>, <<"resolve", "move">>,
                                   <<"move", "reload">>, <<"continue", "completed">>}
        \/ pc[j] = "reload" /\ pc'[j] = "continue" /\ doc.exists
        \/ pc[j] = "reload" /\ pc'[j] = "completed" /\ ~doc.exists
  \/ /\ j.type = "creation" /\ pc[j] = "describe" /\ pc'[j] = "checkDeleted"
     /\ doc' = Described(j.item)

LEMMA MoveTo ==
  ASSUME TypeInv, NEW k \in Jobs
  PROVE  /\ \A step : Step(k, step) =>
              pc'[k] = step /\ \A j \in Jobs \ {k} : pc'[j] = pc[j]
         /\ \A outcome : End(k, outcome) =>
              pc'[k] = outcome /\ \A j \in Jobs \ {k} : pc'[j] = pc[j]
         /\ \A from, isActive : Enqueue(k, from, isActive) =>
              pc'[k] = "waiting" /\ \A j \in Jobs \ {k} : pc'[j] = pc[j]
  BY DEF TypeInv, TypeOK, Step, End, Enqueue

LEMMA WorkStep ==
  ASSUME TypeInv, NEW k \in Jobs, Work(k), NEW j \in Jobs
  PROVE  JobStep(j)
<1>0. k.type \in {"creation", "optimization"}
  BY JobType
<1> USE MoveTo DEF JobStep, Steps, Ended
<1>1. CASE Load(k)
  BY <1>0, <1>1 DEF Load
<1>2. CASE CreateCopy(k)
  BY <1>2 DEF CreateCopy, Goto
<1>3. CASE CreateProcess(k)
  BY <1>3 DEF CreateProcess, Goto
<1>4. CASE CreateDescribe(k)
  BY <1>4 DEF CreateDescribe, Goto
<1>5. CASE CreateCheckDeleted(k)
  BY <1>5 DEF CreateCheckDeleted, Goto
<1>6. CASE Resolve(k)
  BY <1>0, <1>6 DEF Resolve
<1>7. CASE CreateMove(k)
  BY <1>7 DEF CreateMove, Goto
<1>8. CASE CreateReload(k)
  BY <1>8 DEF CreateReload
<1>9. CASE CreateContinue(k)
  <2>1. PICK i \in NextPending(k.item) : Enqueue(i, Final(k.item, seen[k]), seen[k])
    BY <1>9 DEF CreateContinue
  <2>2. k.item \in Variations /\ k = Creation(k.item)
    BY <1>9, ItemsAssumption DEF CreateContinue, Jobs, Creation
  <2>3. i \in Jobs /\ pc[i] = "none" /\ i \in Children(k.item)
    BY <2>2, PendingType DEF NextPending, Pending, Items
  <2> QED
    BY <1>9, <2>1, <2>2, <2>3 DEF CreateContinue
<1>10. CASE CreateEnd(k)
  BY <1>10 DEF CreateEnd
<1>11. CASE OptimizeProcess(k)
  BY <1>11 DEF OptimizeProcess, Goto
<1>12. CASE OptimizeCheckDeleted(k)
  BY <1>12 DEF OptimizeCheckDeleted, Goto
<1>13. CASE OptimizeMove(k)
  BY <1>13 DEF OptimizeMove
<1> QED
  BY <1>1, <1>2, <1>3, <1>4, <1>5, <1>6, <1>7, <1>8, <1>9, <1>10, <1>11, <1>12, <1>13 DEF Work

LEMMA AnyJobStep ==
  ASSUME TypeInv, [Next]_vars, NEW j \in Jobs
  PROVE  JobStep(j)
<1>1. CASE UploadStep
  <2>1. CASE UploadQueue
    <3>1. PICK i \in NextPending(Original) :
            Enqueue(i, IF ModifiesOriginal THEN Backup ELSE Final(Original, FALSE), FALSE)
      BY <2>1 DEF UploadQueue
    <3>2. i \in Jobs /\ pc[i] = "none" /\ i \in Children(Original)
      BY PendingType DEF NextPending, Pending, Items
    <3> QED
      BY <2>1, <3>1, <3>2, MoveTo DEF UploadQueue, JobStep
  <2>2. CASE ~UploadQueue
    BY <1>1, <2>2 DEF UploadStep, UploadStore, UploadReject, UploadSave, UploadPlace, jobVars,
       JobStep
  <2> QED
    BY <2>1, <2>2
<1>2. CASE \E k \in Jobs : Work(k)
  BY <1>2, WorkStep
<1>3. CASE \E k \in Jobs, n \in Nodes : Take(n, k)
  BY <1>3 DEF Take, Waiting, JobStep, TypeInv, TypeOK
<1>4. CASE Activate
  BY <1>4 DEF Activate, ActivateSave, ActivateScan, ActivateFlag, ActivateStat, ActivateRename,
     jobVars, JobStep
<1>5. CASE \E n \in Nodes, via \in Deletes : DeleteLoad(n, via)
  BY <1>5 DEF DeleteLoad, jobVars, JobStep
<1>6. CASE DeleteStep
  <2>1. CASE \E k \in Jobs : DeleteRemoveJob(k)
    BY <2>1 DEF DeleteRemoveJob, Waiting, JobStep, TypeInv, TypeOK
  <2>2. CASE ~\E k \in Jobs : DeleteRemoveJob(k)
    BY <1>6, <2>2 DEF DeleteStep, DeleteDocument, DeleteFile, DeleteLock, DeleteScanWaiting,
       DeleteScanActive, DeleteSubscribe, DeleteUnlock, jobVars, JobStep
  <2> QED
    BY <2>1, <2>2
<1>7. CASE \E n \in Nodes, i \in Requested : GetLoad(n, i)
  BY <1>7 DEF GetLoad, jobVars, JobStep
<1>8. CASE GetStep
  BY <1>8 DEF GetStep, GetStat, GetCount, GetSubscribe, GetRestat, GetOpen, GetGoto, jobVars,
     JobStep
<1>9. CASE UNCHANGED vars
  BY <1>9 DEF vars, jobVars, JobStep
<1> QED
  BY <1>1, <1>2, <1>3, <1>4, <1>5, <1>6, <1>7, <1>8, <1>9 DEF Next

\* What a step can do to the document, the upload and the deletion.
DocStep ==
  \/ doc' = doc
  \/ upload = "stored" /\ doc' = [doc EXCEPT !.exists = TRUE]
  \/ upload = "returned" /\ doc.exists /\ doc' = [doc EXCEPT !.active = TRUE]
  \/ del.pc = "loaded" /\ doc' = [doc EXCEPT !.exists = FALSE]
  \/ \E j \in Jobs :
       /\ \/ j.type = "creation" /\ pc[j] = "describe" /\ pc'[j] = "checkDeleted"
          \/ j.type = "optimization" /\ pc[j] = "checkDeleted"
       /\ doc' = Described(j.item)
UploadOnward ==
  \/ upload' = upload
  \/ upload' # "idle" /\ upload \notin {"returned", "rejected"} /\ (upload = "placed" => upload' = "returned")
DeleteOnward ==
  \/ del'.pc = del.pc
  \/ del.pc = "idle" /\ del'.pc = "loaded" /\ upload = "returned" /\ doc' = doc
  \/ del.pc = "loaded" /\ doc' = [doc EXCEPT !.exists = FALSE]
  \/ del.pc \notin {"idle", "loaded"} /\ del'.pc \notin {"idle", "loaded"} /\ doc' = doc

LEMMA AnyDocStep ==
  ASSUME TypeInv, [Next]_vars
  PROVE  /\ DocStep /\ UploadOnward /\ DeleteOnward
         /\ lock' => lock \/ del.pc \notin {"idle", "loaded"}
<1> DEFINE Goal == /\ DocStep /\ UploadOnward /\ DeleteOnward
                   /\ lock' => lock \/ del.pc \notin {"idle", "loaded"}
<1> USE DEF DocStep, UploadOnward, DeleteOnward
<1>1. CASE UploadStep
  <2>1. CASE UploadStore
    BY <2>1 DEF UploadStore, redisVars
  <2>2. CASE UploadReject
    BY <2>2 DEF UploadReject, redisVars
  <2>3. CASE UploadSave
    BY <2>3 DEF UploadSave, redisVars
  <2>4. CASE UploadPlace
    BY <2>4 DEF UploadPlace, redisVars
  <2>5. CASE UploadQueue
    BY <2>5 DEF UploadQueue, redisVars
  <2> QED
    BY <1>1, <2>1, <2>2, <2>3, <2>4, <2>5 DEF UploadStep
<1>2. ASSUME NEW j \in Jobs, Work(j) PROVE Goal
  <2>0. del \in DelStates
    BY DEF TypeInv, TypeOK
  <2>1. lock' = lock /\ upload' = upload
    BY <1>2 DEF Work, Load, CreateCopy, CreateProcess, CreateDescribe, CreateCheckDeleted,
       Resolve, CreateMove, CreateReload, CreateContinue, CreateEnd, OptimizeProcess,
       OptimizeCheckDeleted, OptimizeMove, redisVars
  <2>2. del'.pc = del.pc
    <3>1. \A step : Step(j, step) => del' = del
      BY DEF Step
    <3>2. \A outcome : End(j, outcome) => del'.pc = del.pc
      BY <2>0 DEF End, DelStates
    <3> QED
      BY <1>2, <3>1, <3>2 DEF Work, Load, CreateCopy, CreateProcess, CreateDescribe, Goto,
         CreateCheckDeleted, Resolve, CreateMove, CreateReload, CreateContinue, CreateEnd,
         OptimizeProcess, OptimizeCheckDeleted, OptimizeMove
  <2>3. DocStep
    <3>1. CASE CreateDescribe(j)
      BY <3>1, MoveTo DEF CreateDescribe, Goto
    <3>2. CASE OptimizeCheckDeleted(j)
      BY <3>2 DEF OptimizeCheckDeleted
    <3> QED
      BY <1>2, <3>1, <3>2 DEF Work, Load, CreateCopy, CreateProcess, CreateCheckDeleted,
         Resolve, CreateMove, CreateReload, CreateContinue, CreateEnd, OptimizeProcess,
         OptimizeMove
  <2> QED
    BY <2>1, <2>2, <2>3
<1>3. ASSUME NEW j \in Jobs, NEW n \in Nodes, Take(n, j) PROVE Goal
  BY <1>3 DEF Take, redisVars
<1>4. CASE Activate
  <2>1. CASE ActivateSave
    BY <2>1 DEF ActivateSave, redisVars
  <2>2. ActivateScan => UNCHANGED <<doc, upload, del, lock>>
    BY DEF ActivateScan, redisVars
  <2>3. ActivateFlag => UNCHANGED <<doc, upload, del, lock>>
    BY DEF ActivateFlag
  <2>4. ActivateStat \/ ActivateRename => UNCHANGED <<doc, upload, del, lock>>
    BY DEF ActivateStat, ActivateRename, redisVars
  <2> QED
    BY <1>4, <2>1, <2>2, <2>3, <2>4 DEF Activate
<1>5. ASSUME NEW n \in Nodes, NEW via \in Deletes, DeleteLoad(n, via) PROVE Goal
  <2>1. del'.pc = "loaded"
    BY <1>5 DEF DeleteLoad, TypeInv, TypeOK, DelStates
  <2> QED
    BY <1>5, <2>1 DEF DeleteLoad, redisVars
<1>6. CASE DeleteStep
  <2>0. del \in DelStates
    BY DEF TypeInv, TypeOK
  <2>1. CASE DeleteDocument
    BY <2>0, <2>1 DEF DeleteDocument, redisVars, DelStates
  <2>2. CASE DeleteFile
    BY <2>0, <2>2 DEF DeleteFile, redisVars, DelStates
  <2>3. CASE DeleteLock
    BY <2>0, <2>3 DEF DeleteLock, DelStates
  <2>4. CASE DeleteScanWaiting
    BY <2>0, <2>4 DEF DeleteScanWaiting, redisVars, DelStates
  <2>5. CASE DeleteScanActive
    BY <2>0, <2>5 DEF DeleteScanActive, redisVars, DelStates
  <2>6. CASE DeleteSubscribe
    BY <2>0, <2>6 DEF DeleteSubscribe, redisVars, DelStates
  <2>7. ASSUME NEW j \in Jobs, DeleteRemoveJob(j) PROVE Goal
    BY <2>0, <2>7 DEF DeleteRemoveJob, redisVars, DelStates
  <2>8. CASE DeleteUnlock
    BY <2>0, <2>8 DEF DeleteUnlock, DelStates
  <2> QED
    BY <1>6, <2>1, <2>2, <2>3, <2>4, <2>5, <2>6, <2>7, <2>8 DEF DeleteStep
<1>7. CASE \E n \in Nodes, i \in Requested : GetLoad(n, i)
  BY <1>7 DEF GetLoad, redisVars
<1>8. CASE GetStep
  BY <1>8 DEF GetStep, GetStat, GetCount, GetSubscribe, GetRestat, GetOpen, GetGoto, redisVars
<1>9. CASE UNCHANGED vars
  BY <1>9 DEF vars, redisVars
<1> QED
  BY <1>1, <1>2, <1>3, <1>4, <1>5, <1>6, <1>7, <1>8, <1>9 DEF Next

LEMMA JobShapes ==
  /\ \A v \in Variations : Creation(v) \in Jobs /\ Creation(v).item = v /\ Creation(v).type = "creation"
  /\ \A v : Optimization(v).item = v /\ Optimization(v).type = "optimization"
  /\ \A j \in Jobs : j.type = "creation" => j.item \in Variations /\ j = Creation(j.item)
  /\ \A j \in Jobs : j.type = "optimization" => j.item \in Items /\ j = Optimization(j.item)
  /\ \A i : \A j \in Children(i) : j = Optimization(i) \/ (j = Creation(j.item) /\ Source[j.item] = i)
  BY ItemsAssumption DEF Creation, Optimization, Jobs, Children

\* Only a creation that is past the processor adds a description, and only
\* while the document exists: an optimization finds its variation described.
LEMMA DocGrows ==
  ASSUME TypeInv, OrderInv, [Next]_vars
  PROVE  /\ doc.variations \subseteq doc'.variations
         /\ \A v \in doc'.variations \ doc.variations :
              /\ v \in Variations /\ doc.exists
              /\ pc[Creation(v)] = "describe" /\ pc'[Creation(v)] = "checkDeleted"
         /\ doc'.exists => doc.exists \/ upload = "stored"
         /\ doc.active => doc'.active
<1> USE DEF TypeInv, TypeOK, DocStates
<1>1. CASE doc' = doc
  BY <1>1
<1>2. CASE doc' \in {[doc EXCEPT !.exists = FALSE], [doc EXCEPT !.active = TRUE]}
  BY <1>2
<1>3. CASE upload = "stored" /\ doc' = [doc EXCEPT !.exists = TRUE]
  BY <1>3
<1>4. ASSUME NEW j \in Jobs,
             \/ j.type = "creation" /\ pc[j] = "describe" /\ pc'[j] = "checkDeleted"
             \/ j.type = "optimization" /\ pc[j] = "checkDeleted",
             doc' = Described(j.item)
      PROVE  /\ doc.variations \subseteq doc'.variations
             /\ \A v \in doc'.variations \ doc.variations :
                  /\ v \in Variations /\ doc.exists
                  /\ pc[Creation(v)] = "describe" /\ pc'[Creation(v)] = "checkDeleted"
             /\ doc'.exists = doc.exists /\ doc'.active = doc.active
  <2>1. CASE j.type = "creation"
    BY <1>4, <2>1, JobShapes DEF Described
  <2>2. CASE j.type = "optimization"
    <3>1. j.item \in Variations => j.item \in doc.variations
      BY <1>4, <2>2, JobShapes DEF OrderInv, DescribedInOrder
    <3> QED
      BY <1>4, <3>1 DEF Described
  <2> QED
    BY <1>4, <2>1, <2>2
<1> QED
  BY <1>1, <1>2, <1>3, <1>4, AnyDocStep DEF DocStep

LEMMA OrderInit == Init => OrderInv
  BY DEF Init, OrderInv, DescribedInOrder, NoJobsYet, RemovedForGood, OneWriter, Jobs, Creation, Ended

LEMMA OrderStep == TypeInv /\ OrderInv /\ [Next]_vars => OrderInv'
<1> SUFFICES ASSUME TypeInv, OrderInv, [Next]_vars PROVE OrderInv'
  OBVIOUS
<1>1. \A j \in Jobs : JobStep(j)
  BY AnyJobStep
<1>2. /\ doc.variations \subseteq doc'.variations
      /\ doc'.exists => doc.exists \/ upload = "stored"
  BY DocGrows
<1>3. DocStep /\ UploadOnward /\ DeleteOnward /\ (lock' => lock \/ del.pc \notin {"idle", "loaded"})
  BY AnyDocStep
<1>4. NoJobsYet'
  <2>1. \A j \in Jobs : pc[j] # "none" => upload \in {"placed", "returned"}
    BY DEF OrderInv, NoJobsYet
  <2>2. \A j \in Jobs : pc'[j] # "none" => upload \in {"placed", "returned"}
    <3> SUFFICES ASSUME NEW j \in Jobs, pc'[j] # "none"
                 PROVE  upload \in {"placed", "returned"}
      OBVIOUS
    <3>1. CASE pc[j] # "none"
      BY <2>1, <3>1
    <3>2. CASE pc[j] = "none"
      BY <1>1, <2>1, <3>2, JobShapes DEF JobStep, Steps
    <3> QED
      BY <3>1, <3>2
  <2>3. upload \in {"placed", "returned"} => upload' \in {"placed", "returned"}
    BY <1>3 DEF UploadOnward
  <2> QED
    BY <2>2, <2>3 DEF NoJobsYet
<1>5. ASSUME NEW v \in Variations, Source[v] \notin doc.variations \cup {Original}
      PROVE  pc'[Creation(v)] = "none"
  <2>1. pc[Creation(v)] = "none" /\ \A w \in Variations : pc[Creation(w)] = "continue" => w \in doc.variations
    BY <1>5 DEF OrderInv, DescribedInOrder
  <2>2. \A i \in doc.variations \cup {Original} : Creation(v) \notin Children(i)
    BY <1>5, JobShapes
  <2> QED
    BY <1>1, <2>1, <2>2, JobShapes DEF JobStep, Steps
<1>6. ASSUME NEW v \in Variations, v \notin doc'.variations
      PROVE  /\ pc'[Creation(v)] # "continue"
             /\ Optimization(v) \in Jobs => pc'[Optimization(v)] = "none"
             /\ pc'[Creation(v)] \in {"checkDeleted", "resolve", "move", "reload"} => ~doc'.exists
  <2>0. v \notin doc.variations
    BY <1>2, <1>6
  <2>1. /\ pc[Creation(v)] # "continue"
        /\ Optimization(v) \in Jobs => pc[Optimization(v)] = "none"
        /\ pc[Creation(v)] \in {"checkDeleted", "resolve", "move", "reload"} => ~doc.exists
    BY <2>0 DEF OrderInv, DescribedInOrder
  <2>2. pc'[Creation(v)] # "continue"
    BY <1>1, <2>1, JobShapes DEF JobStep
  <2>3. Optimization(v) \in Jobs => pc'[Optimization(v)] = "none"
    <3>1. \A i : Optimization(v) \in Children(i) => i = v
      BY JobShapes
    <3>2. Original # v
      BY ItemsAssumption
    <3> QED
      BY <1>1, <2>1, <3>1, <3>2, JobShapes DEF JobStep, Steps
  <2>4. ASSUME pc'[Creation(v)] \in {"checkDeleted", "resolve", "move", "reload"}
        PROVE  ~doc'.exists
    <3>1. upload # "stored"
      BY <1>4, <2>4, JobShapes, <1>1 DEF JobStep, OrderInv, NoJobsYet
    <3>2. CASE pc[Creation(v)] = "describe" /\ doc' = Described(v)
      BY <1>6, <3>2 DEF Described, TypeInv, TypeOK, DocStates
    <3>3. CASE pc[Creation(v)] \in {"checkDeleted", "resolve", "move", "reload"}
      BY <1>2, <2>1, <3>1, <3>3
    <3> QED
      BY <1>1, <2>4, <3>2, <3>3, JobShapes DEF JobStep
  <2> QED
    BY <2>2, <2>3, <2>4
<1>7. DescribedInOrder'
  <2>1. \A v \in Variations : pc'[Creation(v)] # "none" => Source[v] \in doc'.variations \cup {Original}
    BY <1>2, <1>5
  <2> QED
    BY <1>6, <2>1 DEF DescribedInOrder
<1>8. RemovedForGood'
  <2>1. /\ del.pc # "idle" => upload = "returned"
        /\ del.pc \notin {"idle", "loaded"} \/ lock => ~doc.exists /\ upload = "returned"
    BY DEF OrderInv, RemovedForGood
  <2>2. upload = "returned" => upload' = "returned"
    BY <1>3 DEF UploadOnward
  <2>3. del'.pc # "idle" => upload = "returned"
    BY <1>3, <2>1 DEF DeleteOnward
  <2>4. del'.pc \notin {"idle", "loaded"} => ~doc'.exists
    BY <1>2, <1>3, <2>1 DEF DeleteOnward, TypeInv, TypeOK, DocStates
  <2>5. lock' => ~doc'.exists /\ upload = "returned"
    BY <1>2, <1>3, <2>1
  <2> QED
    BY <2>2, <2>3, <2>4, <2>5 DEF RemovedForGood
<1>9. OneWriter'
  <2> SUFFICES ASSUME NEW v \in Variations, Optimization(v) \in Jobs, pc'[Optimization(v)] # "none"
               PROVE  pc'[Creation(v)] \in {"continue", "completed"}
    BY DEF OneWriter
  <2>1. pc[Creation(v)] \in {"continue", "completed"}
    <3>1. CASE pc[Optimization(v)] # "none"
      BY <3>1 DEF OrderInv, OneWriter
    <3>2. CASE pc[Optimization(v)] = "none"
      <4>1. \A i : Optimization(v) \in Children(i) => i = v
        BY JobShapes
      <4>2. v # Original
        BY ItemsAssumption
      <4> QED
        BY <1>1, <3>2, <4>1, <4>2, JobShapes DEF JobStep, Steps
    <3> QED
      BY <3>1, <3>2
  <2> QED
    BY <1>1, <2>1, JobShapes DEF JobStep, Steps
<1> QED
  BY <1>4, <1>7, <1>8, <1>9 DEF OrderInv

LEMMA PublicInit == Init => PublicInv
  BY DEF Init, PublicInv, KnownActive, PublicOnlyIfActivated

\* Nothing in the invariant can fail once the file is active, so what matters
\* is that no step gets ahead of the activation.
LEMMA PublicStep == TypeInv /\ OrderInv /\ PublicInv /\ [Next]_vars => PublicInv'
<1> SUFFICES ASSUME TypeInv, OrderInv, PublicInv, [Next]_vars, ~doc'.active
             PROVE  PublicInv'
  BY DEF PublicInv, KnownActive, PublicOnlyIfActivated
<1> DEFINE NoneSeen == \A j \in Jobs : ~seen[j]
           NoneDest == \A j \in Jobs : pc[j] # "none" => dest[j].dir # "public"
           NoneFlagged == renamed = {} /\ act.pc = "idle"
           NonePublic == \A p \in fs : p.dir # "public"
           Hidden == NoneSeen /\ NoneDest /\ NoneFlagged /\ NonePublic
<1>a. ~doc.active
  BY DocGrows
<1>b. Hidden
  BY <1>a DEF PublicInv, KnownActive, PublicOnlyIfActivated
<1> SUFFICES Hidden'
  BY DEF PublicInv, KnownActive, PublicOnlyIfActivated
<1>c. /\ seen \in [Jobs -> BOOLEAN] /\ pc \in [Jobs -> Steps \cup Ended \cup {"none", "waiting"}]
      /\ dest \in [Jobs -> Paths \cup {None}]
  BY DEF TypeInv, TypeOK
<1>e. ASSUME NEW i \in Items, NEW j \in NextPending(i), NEW from, Enqueue(j, from, FALSE)
      PROVE  NoneDest'
  <2>1. j \in Jobs
    BY PendingType
  <2>2. Path(j.item, FALSE, j.type).dir # "public"
    BY <2>1, JobType, PathType
  <2> QED
    BY <1>b, <1>c, <1>e, <2>1, <2>2 DEF Enqueue
<1>1. CASE UploadStep
  <2>0. Backup.dir # "public" /\ Final(Original, FALSE).dir # "public"
    BY KnownPaths DEF Items
  <2>1. CASE UploadQueue
    BY <1>b, <1>e, <2>1 DEF UploadQueue, redisVars, Items
  <2>2. CASE UploadPlace
    BY <1>b, <2>0, <2>2 DEF UploadPlace, jobVars, redisVars
  <2>3. CASE UploadStore \/ UploadReject \/ UploadSave
    BY <1>b, <2>0, <2>3 DEF UploadStore, UploadReject, UploadSave, jobVars, redisVars
  <2> QED
    BY <1>1, <2>1, <2>2, <2>3 DEF UploadStep
<1>2. ASSUME NEW k \in Jobs, Work(k) PROVE Hidden'
  <2>0. /\ k.item \in Items
        /\ k.type = "creation" => SourceCopy(k.item).dir # "public"
        /\ Final(k.item, seen[k]).dir # "public"
    BY <1>b, <1>c, JobType, KnownPaths
  <2>1. UNCHANGED <<renamed, act>>
    BY <1>2 DEF Work, Load, CreateCopy, CreateProcess, CreateDescribe, CreateCheckDeleted,
       Resolve, CreateMove, CreateReload, CreateContinue, CreateEnd, OptimizeProcess,
       OptimizeCheckDeleted, OptimizeMove, redisVars
  <2>2. pc[k] # "none" /\ dest[k].dir # "public"
    BY <1>2, <1>b DEF Work, Load, CreateCopy, CreateProcess, CreateDescribe, CreateCheckDeleted,
       Resolve, CreateMove, CreateReload, CreateContinue, CreateEnd, OptimizeProcess,
       OptimizeCheckDeleted, OptimizeMove
  <2>3. /\ \A step : Goto(k, step) => NoneSeen'
        /\ \A outcome : End(k, outcome) => NoneSeen'
    BY <1>b, <1>c DEF Goto, End
  <2>4. NoneSeen'
    <3>1. seen' = [seen EXCEPT ![k] = doc.active] => NoneSeen'
      BY <1>a, <1>b, <1>c
    <3>2. seen' = [seen EXCEPT ![k] = @ \/ k.item \in renamed] => NoneSeen'
      BY <1>b, <1>c
    <3> QED
      BY <1>2, <1>b, <2>3, <3>1, <3>2 DEF Work, Load, CreateCopy, CreateProcess, CreateDescribe,
         CreateCheckDeleted, Resolve, CreateMove, CreateReload, CreateContinue, CreateEnd,
         OptimizeProcess, OptimizeCheckDeleted, OptimizeMove
  <2>5. NoneDest'
    <3>1. CASE CreateContinue(k)
      <4>1. seen[k] = FALSE
        BY <1>b, <1>c
      <4>2. PICK j \in NextPending(k.item) : Enqueue(j, Final(k.item, seen[k]), FALSE)
        BY <3>1, <4>1 DEF CreateContinue
      <4> QED
        BY <1>e, <2>0, <4>2
    <3>2. CASE ~CreateContinue(k)
      <4>1. UNCHANGED dest
        BY <1>2, <3>2 DEF Work, Load, CreateCopy, CreateProcess, CreateDescribe,
           CreateCheckDeleted, Resolve, CreateMove, CreateReload, CreateEnd, OptimizeProcess,
           OptimizeCheckDeleted, OptimizeMove
      <4>2. \A j \in Jobs \ {k} : pc'[j] = pc[j]
        BY <1>2, <3>2, MoveTo DEF Work, Load, CreateCopy, CreateProcess, CreateDescribe, Goto,
           CreateCheckDeleted, Resolve, CreateMove, CreateReload, CreateEnd, OptimizeProcess,
           OptimizeCheckDeleted, OptimizeMove
      <4> QED
        BY <1>b, <2>2, <4>1, <4>2
    <3> QED
      BY <3>1, <3>2
  <2>6. NonePublic'
    <3>1. \/ fs' \subseteq fs \cup {dest[k], Final(k.item, seen[k])}
          \/ k.type = "creation" /\ fs' \subseteq fs \cup {SourceCopy(k.item)}
      BY <1>2 DEF Work, Load, CreateCopy, CreateProcess, CreateDescribe, CreateCheckDeleted,
         Resolve, CreateMove, CreateReload, CreateContinue, CreateEnd, OptimizeProcess,
         OptimizeCheckDeleted, OptimizeMove
    <3> QED
      BY <1>b, <2>0, <2>2, <3>1
  <2> QED
    BY <1>b, <2>1, <2>4, <2>5, <2>6
<1>3. ASSUME NEW j \in Jobs, NEW n \in Nodes, Take(n, j) PROVE Hidden'
  BY <1>3, <1>b, <1>c DEF Take, Waiting, redisVars
<1>4. CASE Activate
  <2>1. ~ActivateSave
    BY <1>a DEF ActivateSave, TypeInv, TypeOK, DocStates
  <2> QED
    BY <1>4, <1>b, <2>1 DEF Activate, ActivateScan, ActivateFlag, ActivateStat, ActivateRename
<1>5. ASSUME NEW n \in Nodes, NEW via \in Deletes, DeleteLoad(n, via) PROVE Hidden'
  BY <1>5, <1>b DEF DeleteLoad, jobVars, redisVars
<1>6. CASE DeleteStep
  <2>1. ASSUME NEW j \in Jobs, DeleteRemoveJob(j) PROVE Hidden'
    BY <1>b, <1>c, <2>1 DEF DeleteRemoveJob, Waiting, redisVars
  <2>2. CASE ~\E j \in Jobs : DeleteRemoveJob(j)
    <3>1. fs' \subseteq fs /\ UNCHANGED <<pc, dest, seen, renamed, act>>
      BY <1>6, <2>2 DEF DeleteStep, DeleteDocument, DeleteFile, DeleteLock, DeleteScanWaiting,
         DeleteScanActive, DeleteSubscribe, DeleteUnlock, jobVars, redisVars
    <3> QED
      BY <1>b, <3>1
  <2> QED
    BY <2>1, <2>2
<1>7. ASSUME NEW n \in Nodes, NEW i \in Requested, GetLoad(n, i) PROVE Hidden'
  BY <1>7, <1>b DEF GetLoad, jobVars, redisVars
<1>8. CASE GetStep
  <2>1. UNCHANGED <<jobVars, redisVars, act, fs>>
    BY <1>8 DEF GetStep, GetStat, GetCount, GetSubscribe, GetRestat, GetOpen, GetGoto
  <2> QED
    BY <1>b, <2>1 DEF jobVars, redisVars
<1>9. CASE UNCHANGED vars
  BY <1>9, <1>b DEF vars, jobVars, redisVars
<1> QED
  BY <1>1, <1>2, <1>3, <1>4, <1>5, <1>6, <1>7, <1>8, <1>9 DEF Next

-----------------------------------------------------------------------------
(* No created variation is lost.                                           *)

Kept(v) == Final(v, FALSE) \in fs \/ Final(v, TRUE) \in fs

LEMMA Suffixed ==
  /\ Backup.suffix = "original"
  /\ \A v : SourceCopy(v).suffix = "source"
  /\ \A i, a : Final(i, a).suffix = "final" /\ Final(i, a).item = i
  BY DEF Backup, SourceCopy, Final, Path

\* While the document exists, only an activation takes a file from its place.
LEMMA FilesStay ==
  ASSUME TypeInv, OrderInv, CreatedFirst, [Next]_vars, doc.exists, NEW v \in Variations
  PROVE  /\ Kept(v) => Kept(v)'
         /\ pc[Creation(v)] = "move" /\ pc'[Creation(v)] = "reload" => Kept(v)'
<1> DEFINE Goal == /\ Kept(v) => Kept(v)'
                   /\ pc[Creation(v)] = "move" /\ pc'[Creation(v)] = "reload" => Kept(v)'
           Still == pc[Creation(v)] = "move" => pc'[Creation(v)] = "move"
<1>a. ASSUME \A p \in fs \ fs' : p.suffix # "final", Still
      PROVE  Goal
  <2>1. \A a : Final(v, a) \in fs => Final(v, a) \in fs'
    BY <1>a, Suffixed
  <2>2. Kept(v) => Kept(v)'
    BY <2>1 DEF Kept, Final
  <2>3. ~(pc[Creation(v)] = "move" /\ pc'[Creation(v)] = "reload")
    BY <1>a
  <2> QED
    BY <2>2, <2>3
<1>b. Creation(v) \in Jobs /\ Creation(v).item = v /\ Creation(v).type = "creation"
  BY JobShapes
<1>c. pc \in [Jobs -> Steps \cup Ended \cup {"none", "waiting"}] /\ seen \in [Jobs -> BOOLEAN]
  BY DEF TypeInv, TypeOK
<1>1. CASE UploadStep
  <2>1. Still
    BY <1>1, <1>b, MoveTo, PendingType DEF UploadStep, UploadStore, UploadReject, UploadSave,
       UploadPlace, UploadQueue, jobVars, Items
  <2>2. \A p \in fs \ fs' : p = Backup
    BY <1>1 DEF UploadStep, UploadStore, UploadReject, UploadSave, UploadPlace, UploadQueue
  <2> QED
    BY <1>a, <2>1, <2>2, Suffixed
<1>2. ASSUME NEW k \in Jobs, Work(k) PROVE Goal
  <2>0. pc[k] # "none" => dest[k].suffix \in {"creation", "optimization"}
    BY JobType DEF TypeInv, Queued
  <2>1. CASE CreateMove(k)
    <3>1. \A p \in fs \ fs' : p.suffix # "final"
      BY <2>0, <2>1 DEF CreateMove
    <3>2. CASE k = Creation(v)
      <4>1. Kept(v)'
        BY <1>b, <1>c, <2>1, <3>2 DEF CreateMove, Kept
      <4> QED
        BY <4>1
    <3>3. CASE k # Creation(v)
      <4>1. Still
        BY <1>b, <2>1, <3>3, MoveTo DEF CreateMove, Goto
      <4> QED
        BY <1>a, <3>1, <4>1
    <3> QED
      BY <3>2, <3>3
  <2>2. CASE ~CreateMove(k)
    <3>1. \A p \in fs \ fs' : p = dest[k] \/ p = SourceCopy(k.item)
      BY <1>2, <2>2 DEF Work, Load, CreateCopy, CreateProcess, CreateDescribe, CreateCheckDeleted,
         Resolve, CreateReload, CreateContinue, CreateEnd, OptimizeProcess,
         OptimizeCheckDeleted, OptimizeMove
    <3>2. pc[k] # "none"
      BY <1>2 DEF Work, Load, CreateCopy, CreateProcess, CreateDescribe, CreateCheckDeleted,
         Resolve, CreateMove, CreateReload, CreateContinue, CreateEnd, OptimizeProcess,
         OptimizeCheckDeleted, OptimizeMove
    <3>3. Still
      <4>1. CASE CreateContinue(k)
        <5>1. k.item \in Items
          BY JobType
        <5> QED
          BY <1>b, <4>1, <5>1, MoveTo, PendingType DEF CreateContinue
      <4>2. CASE ~CreateContinue(k)
        BY <1>2, <1>b, <2>2, <4>2, MoveTo DEF Work, Load, CreateCopy, CreateProcess, Goto,
           CreateDescribe, CreateCheckDeleted, Resolve, CreateReload, CreateEnd, OptimizeProcess,
           OptimizeCheckDeleted, OptimizeMove
      <4> QED
        BY <4>1, <4>2
    <3> QED
      BY <1>a, <2>0, <3>1, <3>2, <3>3, Suffixed
  <2> QED
    BY <2>1, <2>2
<1>3. ASSUME NEW j \in Jobs, NEW n \in Nodes, Take(n, j) PROVE Goal
  BY <1>3, <1>a, <1>b, <1>c DEF Take, Waiting
<1>4. CASE Activate
  <2>1. UNCHANGED pc
    BY <1>4 DEF Activate, ActivateSave, ActivateScan, ActivateFlag, ActivateStat, ActivateRename,
       jobVars
  <2>2. CASE ActivateRename
    <3>1. fs' = fs \/ \E i \in act.current :
                        fs' = (fs \ {Final(i, FALSE)}) \cup {Final(i, TRUE)}
      BY <2>2 DEF ActivateRename
    <3>2. ASSUME NEW i, i # v
          PROVE  Final(i, FALSE) # Final(v, FALSE) /\ Final(i, FALSE) # Final(v, TRUE)
      BY <3>2 DEF Final, Path
    <3>3. ASSUME Kept(v), NEW i \in act.current,
                 fs' = (fs \ {Final(i, FALSE)}) \cup {Final(i, TRUE)}
          PROVE  Kept(v)'
      <4>1. CASE i = v
        BY <3>3, <4>1 DEF Kept
      <4>2. CASE i # v
        BY <3>2, <3>3, <4>2 DEF Kept
      <4> QED
        BY <4>1, <4>2
    <3>4. Kept(v) => Kept(v)'
      BY <3>1, <3>3 DEF Kept
    <3> QED
      BY <2>1, <3>4
  <2>3. CASE ~ActivateRename
    <3>1. UNCHANGED fs
      BY <1>4, <2>3 DEF Activate, ActivateSave, ActivateScan, ActivateFlag, ActivateStat
    <3> QED
      BY <1>a, <2>1, <3>1
  <2> QED
    BY <2>2, <2>3
<1>5. CASE DeleteStep
  <2>1. del.pc = "loaded"
    BY <1>5 DEF DeleteStep, DeleteDocument, DeleteFile, DeleteLock, DeleteScanWaiting,
       DeleteScanActive, DeleteSubscribe, DeleteRemoveJob, DeleteUnlock, OrderInv, RemovedForGood
  <2>2. UNCHANGED <<pc, fs>>
    BY <1>5, <2>1 DEF DeleteStep, DeleteDocument, DeleteFile, DeleteLock, DeleteScanWaiting,
       DeleteScanActive, DeleteSubscribe, DeleteRemoveJob, DeleteUnlock, jobVars
  <2> QED
    BY <1>a, <2>2
<1>6. CASE \/ \E n \in Nodes, via \in Deletes : DeleteLoad(n, via)
           \/ \E n \in Nodes, i \in Requested : GetLoad(n, i)
           \/ GetStep \/ UNCHANGED vars
  <2>1. UNCHANGED <<pc, fs>>
    BY <1>6 DEF DeleteLoad, GetLoad, GetStep, GetStat, GetCount, GetSubscribe, GetRestat, GetOpen,
       GetGoto, vars, jobVars
  <2> QED
    BY <1>a, <2>1
<1> QED
  BY <1>1, <1>2, <1>3, <1>4, <1>5, <1>6 DEF Next

LEMMA StoredInit == Init => StoredInv
  BY DEF Init, StoredInv, CreatedFirst, NothingLost

LEMMA StoredStep == TypeInv /\ OrderInv /\ StoredInv /\ [Next]_vars => StoredInv'
<1> SUFFICES ASSUME TypeInv, OrderInv, StoredInv, [Next]_vars PROVE StoredInv'
  OBVIOUS
<1>1. \A j \in Jobs : JobStep(j)
  BY AnyJobStep
<1>2. \A v \in doc.variations :
        pc[Creation(v)] \in {"checkDeleted", "resolve", "move", "reload", "continue", "completed"}
  BY DEF StoredInv, CreatedFirst
<1>3. /\ \A v \in doc'.variations \ doc.variations :
           v \in Variations /\ pc'[Creation(v)] = "checkDeleted"
      /\ doc'.exists => doc.exists \/ upload = "stored"
  BY DocGrows
<1>4. doc.variations \subseteq Variations
  BY DEF TypeInv, TypeOK, DocStates
<1>5. CreatedFirst'
  BY <1>1, <1>2, <1>3, <1>4, JobShapes DEF JobStep, Steps, CreatedFirst
<1>6. NothingLost'
  <2> SUFFICES ASSUME NEW v \in doc'.variations, doc'.exists,
                      pc'[Creation(v)] \in {"reload", "continue", "completed"}
               PROVE  Kept(v)'
    BY DEF NothingLost, Kept
  <2>1. v \in doc.variations /\ v \in Variations
    BY <1>3, <1>4
  <2>2. doc.exists /\ ~lock
    BY <1>2, <1>3, <2>1, JobShapes DEF OrderInv, NoJobsYet, RemovedForGood
  <2>3. pc[Creation(v)] \in {"move", "reload", "continue", "completed"}
    BY <1>1, <1>2, <2>1, <2>2, JobShapes DEF JobStep, Steps
  <2>4. pc[Creation(v)] # "move" => Kept(v)
    BY <2>1, <2>2, <2>3 DEF StoredInv, NothingLost, Kept
  <2>5. pc[Creation(v)] = "move" => pc'[Creation(v)] = "reload"
    BY <1>1, <2>1, JobShapes DEF JobStep, Steps
  <2> QED
    BY <2>1, <2>2, <2>3, <2>4, <2>5, FilesStay DEF StoredInv
<1> QED
  BY <1>5, <1>6 DEF StoredInv

-----------------------------------------------------------------------------
(* The theorems.                                                           *)

\* The inductive invariant of file processing.
IInv == TypeInv /\ OrderInv /\ PublicInv /\ StoredInv

LEMMA Invariants == Spec => []IInv
<1>1. Init => IInv
  BY TypeInit, OrderInit, PublicInit, StoredInit DEF IInv
<1>2. IInv /\ [Next]_vars => IInv'
  BY TypeStep, OrderStep, PublicStep, StoredStep DEF IInv
<1> QED
  BY <1>1, <1>2, PTL DEF Spec

\* The optimization of a variation and its creation are never at work together.
THEOREM OneWriterAlways == Spec => []OneWriter
<1>1. IInv => OneWriter
  BY DEF IInv, OrderInv
<1> QED
  BY <1>1, Invariants, PTL

\* No file is public before its activation.
THEOREM NothingPublicEarly == Spec => []PublicOnlyIfActivated
<1>1. IInv => PublicOnlyIfActivated
  BY DEF IInv, PublicInv
<1> QED
  BY <1>1, Invariants, PTL

\* A created variation is stored in one of its two places until the file is
\* deleted, across every race of workers with the activation.
THEOREM NothingEverLost == Spec => []NothingLost
<1>1. IInv => NothingLost
  BY DEF IInv, StoredInv
<1> QED
  BY <1>1, Invariants, PTL

-----------------------------------------------------------------------------
(* File processing implements module Derivation: for every file type, the  *)
(* document of a file grows from the original along the sources of its     *)
(* variations, and is never resurrected, published or extended once it is  *)
(* removed.                                                                *)

Fresh == {"idle", "stored", "rejected"}

\* The upload leaves the fresh states only by saving the document.
LEMMA FreshUntilSaved ==
  ASSUME TypeInv, [Next]_vars
  PROVE  (upload' \in Fresh) = (upload \in Fresh) \/ doc'.exists
<1>1. CASE UploadSave
  BY <1>1 DEF UploadSave, TypeInv, TypeOK, DocStates
<1>2. ASSUME UploadStore \/ UploadReject \/ UploadPlace \/ UploadQueue
      PROVE  (upload' \in Fresh) = (upload \in Fresh)
  <2>1. UploadStore => upload \in Fresh /\ upload' \in Fresh
    BY DEF UploadStore, Fresh
  <2>2. UploadReject => upload \in Fresh /\ upload' \in Fresh
    BY DEF UploadReject, Fresh
  <2>3. UploadPlace => upload \notin Fresh /\ upload' \notin Fresh
    BY DEF UploadPlace, Fresh
  <2>4. UploadQueue => upload \notin Fresh /\ upload' \notin Fresh
    BY DEF UploadQueue, Fresh
  <2> QED
    BY <1>2, <2>1, <2>2, <2>3, <2>4
<1>3. ASSUME NEW j \in Jobs, Work(j) PROVE upload' = upload
  BY <1>3 DEF Work, Load, CreateCopy, CreateProcess, CreateDescribe, CreateCheckDeleted,
     Resolve, CreateMove, CreateReload, CreateContinue, CreateEnd, OptimizeProcess,
     OptimizeCheckDeleted, OptimizeMove
<1>4. ASSUME NEW j \in Jobs, NEW n \in Nodes, Take(n, j) PROVE upload' = upload
  BY <1>4 DEF Take
<1>5. Activate => upload' = upload
  BY DEF Activate, ActivateSave, ActivateScan, ActivateFlag, ActivateStat, ActivateRename
<1>6. DeleteStep => upload' = upload
  BY DEF DeleteStep, DeleteDocument, DeleteFile, DeleteLock, DeleteScanWaiting,
     DeleteScanActive, DeleteSubscribe, DeleteRemoveJob, DeleteUnlock
<1>7. ASSUME \/ \E n \in Nodes, via \in Deletes : DeleteLoad(n, via)
             \/ \E n \in Nodes, i \in Requested : GetLoad(n, i)
             \/ GetStep \/ UNCHANGED vars
      PROVE  upload' = upload
  BY <1>7 DEF DeleteLoad, GetLoad, GetStep, GetStat, GetCount, GetSubscribe, GetRestat, GetOpen,
     GetGoto, vars
<1> QED
  BY <1>1, <1>2, <1>3, <1>4, <1>5, <1>6, <1>7 DEF Next, UploadStep

LEMMA RefineInit == Init => Abstract!Init
  BY DEF Init, Abstract!Init, Phase

LEMMA RefineStep ==
  IInv /\ [Next]_vars => [Abstract!Next]_<<Phase, doc.active, doc.variations>>
<1> SUFFICES ASSUME IInv, [Next]_vars
             PROVE  [Abstract!Next]_<<Phase, doc.active, doc.variations>>
  OBVIOUS
<1>0. TypeInv /\ OrderInv /\ doc \in DocStates
  BY DEF IInv, TypeInv, TypeOK
<1>1. (upload' \in Fresh) = (upload \in Fresh) \/ doc'.exists
  BY <1>0, FreshUntilSaved
<1>2. Phase = IF doc.exists THEN "stored" ELSE IF upload \in Fresh THEN "new" ELSE "removed"
  BY DEF Phase, Fresh
<1>3. Phase' = IF doc'.exists THEN "stored" ELSE IF upload' \in Fresh THEN "new" ELSE "removed"
  BY DEF Phase, Fresh
<1>4. CASE doc' = doc
  BY <1>1, <1>2, <1>3, <1>4
<1>5. CASE upload = "stored" /\ doc' = [doc EXCEPT !.exists = TRUE]
  <2>1. doc'.exists /\ doc'.active = doc.active /\ doc'.variations = doc.variations
    BY <1>0, <1>5 DEF DocStates
  <2>2. CASE doc.exists
    BY <1>2, <1>3, <2>1, <2>2
  <2>3. CASE ~doc.exists
    <3>1. Phase = "new" /\ Phase' = "stored"
      BY <1>2, <1>3, <1>5, <2>1, <2>3 DEF Fresh
    <3>2. Abstract!Store
      BY <2>1, <3>1 DEF Abstract!Store
    <3> QED
      BY <3>2 DEF Abstract!Next
  <2> QED
    BY <2>2, <2>3
<1>6. CASE upload = "returned" /\ doc.exists /\ doc' = [doc EXCEPT !.active = TRUE]
  <2>1. doc'.exists /\ doc'.active = TRUE /\ doc'.variations = doc.variations
    BY <1>0, <1>6 DEF DocStates
  <2>2. Phase = "stored" /\ Phase' = "stored"
    BY <1>2, <1>3, <1>6, <2>1
  <2>3. Abstract!Publish
    BY <2>1, <2>2 DEF Abstract!Publish
  <2> QED
    BY <2>3 DEF Abstract!Next
<1>7. CASE del.pc = "loaded" /\ doc' = [doc EXCEPT !.exists = FALSE]
  <2>1. ~doc'.exists /\ doc'.active = doc.active /\ doc'.variations = doc.variations
    BY <1>0, <1>7 DEF DocStates
  <2>2. upload \notin Fresh
    BY <1>0, <1>7 DEF OrderInv, RemovedForGood, Fresh
  <2>3. Phase' = "removed"
    BY <1>1, <1>3, <2>1, <2>2
  <2>4. CASE doc.exists
    <3>1. Abstract!Remove
      BY <1>2, <2>1, <2>3, <2>4 DEF Abstract!Remove
    <3> QED
      BY <3>1 DEF Abstract!Next
  <2>5. CASE ~doc.exists
    BY <1>2, <2>1, <2>2, <2>3, <2>5
  <2> QED
    BY <2>4, <2>5
<1>8. ASSUME NEW j \in Jobs,
             \/ j.type = "creation" /\ pc[j] = "describe" /\ pc'[j] = "checkDeleted"
             \/ j.type = "optimization" /\ pc[j] = "checkDeleted",
             doc' = Described(j.item)
      PROVE  [Abstract!Next]_<<Phase, doc.active, doc.variations>>
  <2>1. CASE doc.exists /\ j.item \in Variations /\ j.item \notin doc.variations
    <3>1. /\ doc'.exists = doc.exists /\ doc'.active = doc.active
          /\ doc'.variations = doc.variations \cup {j.item}
      BY <1>0, <1>8, <2>1 DEF Described, DocStates
    <3>2. j.type = "creation"
      BY <1>0, <1>8, <2>1, JobShapes DEF OrderInv, DescribedInOrder
    <3>3. Source[j.item] \in doc.variations \cup {Original}
      BY <1>0, <1>8, <3>2, JobShapes DEF OrderInv, DescribedInOrder
    <3>4. Phase = "stored" /\ Phase' = "stored"
      BY <1>2, <1>3, <2>1, <3>1
    <3>5. Abstract!Derive(j.item)
      BY <3>1, <3>3, <3>4 DEF Abstract!Derive
    <3> QED
      BY <2>1, <3>5 DEF Abstract!Next
  <2>2. CASE ~(doc.exists /\ j.item \in Variations /\ j.item \notin doc.variations)
    <3>1. doc' = doc
      BY <1>0, <1>8, <2>2 DEF Described, DocStates
    <3> QED
      BY <1>4, <3>1
  <2> QED
    BY <2>1, <2>2
<1> QED
  BY <1>0, <1>4, <1>5, <1>6, <1>7, <1>8, AnyDocStep DEF DocStep

\* Every behaviour of the queues, workers and handlers is one of Derivation.
THEOREM ImplementsDerivation == Spec => DerivationSpec
<1>1. Spec => Abstract!Init
  BY RefineInit, PTL DEF Spec
<1>2. Spec => [][Abstract!Next]_<<Phase, doc.active, doc.variations>>
  BY Invariants, RefineStep, PTL DEF Spec
<1> QED
  BY <1>1, <1>2, PTL DEF DerivationSpec, Abstract!Spec, Abstract!vars

-----------------------------------------------------------------------------
(***************************************************************************)
(* What is stored while nobody activates or deletes the file and no        *)
(* processor fails: what the upload and each job have on disk, and nothing *)
(* else.                                                                   *)
(***************************************************************************)

\* Nobody has begun to activate the file, or to remove its document.
Calm == act.pc = "idle" /\ del.pc \in {"idle", "loaded"}

\* Which item a job starts from, where that lies, and whether it is ready.
SourceOf(j) == IF j.type = "creation" THEN Source[j.item] ELSE j.item
From(i) == IF i = Original /\ ModifiesOriginal THEN Backup ELSE Final(i, FALSE)
Available(i) ==
  IF i = Original THEN upload \in {"placed", "returned"} ELSE pc[Creation(i)] \in {"continue", "completed"}

\* What the upload and the jobs have on disk.
Uploaded(up) ==
  CASE up \in {"stored", "saved"} -> {Backup}
    [] up \in {"placed", "returned"} -> {From(Original), Final(Original, FALSE)}
    [] OTHER -> {}
Made(j, step) ==
  CASE j.type = "creation" /\ step = "process" -> {SourceCopy(j.item)}
    [] j.type = "creation" /\ step \in {"reload", "continue", "completed"} -> {Final(j.item, FALSE)}
    [] (j.type = "creation" /\ step = "describe") \/ step \in {"checkDeleted", "resolve", "move"} ->
         {Path(j.item, FALSE, j.type)}
    [] OTHER -> {}
Tidy == \A p \in Paths : p \in fs <=> p \in Uploaded(upload) \/ \E j \in Jobs : p \in Made(j, pc[j])

CalmJob(j) ==
  /\ pc[j] \notin {"failed", "removed"}
  /\ pc[j] # "none" =>
       /\ dest[j] = Path(j.item, FALSE, j.type)
       /\ src[j] = From(SourceOf(j))
       /\ Available(SourceOf(j))
  /\ j.type = "creation" /\ pc[j] = "completed" => j.item \in doc.variations /\ Pending(j.item) = {}

CalmInv ==
  Calm =>
    /\ ~doc.active
    /\ doc.exists <=> upload \in {"saved", "placed", "returned"}
    /\ upload = "returned" => Pending(Original) = {}
    /\ \A j \in Jobs : CalmJob(j)
    /\ Tidy

\* A deletion that began when no job was outstanding, and no activation since.
QuietInv ==
  del.quiet /\ act.pc = "idle" /\ del.pc # "idle" =>
    /\ Quiet /\ upload = "returned"
    /\ CASE del.pc = "loaded" -> fs \subseteq FilesToDelete(del)
         [] del.pc = "files" -> fs \subseteq del.files
         [] OTHER -> fs = {}

\* A request for a file that nobody activates or removes.
GetInv ==
  get.pc # "idle" =>
    /\ upload = "returned" /\ ~get.active /\ get.pc # "error"
    /\ get.pc \in {"restat", "open"} => GetPath \in fs
    /\ get.pc = "count" => get.item # Original

LEMMA CalmInit == Init => CalmInv
<1> SUFFICES ASSUME Init PROVE CalmInv
  OBVIOUS
<1>1. Tidy
  BY DEF Init, Tidy, Uploaded, Made
<1> QED
  BY <1>1 DEF Init, CalmInv, CalmJob

\* Every job has paths of its own.
LEMMA MadeApart ==
  /\ \A j \in Jobs : \A step : Made(j, step) \subseteq Paths
  /\ \A j, k \in Jobs : \A s, t : j # k => Made(j, s) \cap Made(k, t) = {}
  /\ \A j \in Jobs : \A up, step : Made(j, step) \cap Uploaded(up) = {}
<1>1. ASSUME NEW j \in Jobs, NEW step, NEW p \in Made(j, step)
      PROVE  /\ p \in Paths /\ p.item = j.item
             /\ j.type = "creation" => p.suffix \in {"source", "creation", "final"} /\ p.item \in Variations
             /\ j.type = "optimization" => p.suffix = "optimization"
  BY <1>1, JobType DEF Made, SourceCopy, Final, Path, Paths, Suffixes
<1>2. ASSUME NEW up, NEW p \in Uploaded(up)
      PROVE  p.item = Original /\ p.suffix \in {"original", "final"}
  BY <1>2 DEF Uploaded, From, Backup, Final, Path
<1>3. \A j, k \in Jobs : j.item = k.item /\ j.type = k.type => j = k
  BY JobShapes, JobType
<1>4. ASSUME NEW j \in Jobs, NEW k \in Jobs, j # k, NEW s, NEW t
      PROVE  Made(j, s) \cap Made(k, t) = {}
  BY <1>1, <1>3, <1>4, JobType
<1>5. ASSUME NEW j \in Jobs, NEW up, NEW step
      PROVE  Made(j, step) \cap Uploaded(up) = {}
  BY <1>1, <1>2, JobType, ItemsAssumption
<1> QED
  BY <1>1, <1>4, <1>5

\* A job that replaces what it had by what it has keeps the directories tidy.
LEMMA Tidied ==
  ASSUME TypeInv, Tidy, NEW j \in Jobs, NEW step, pc' = [pc EXCEPT ![j] = step],
         Uploaded(upload') = Uploaded(upload),
         fs' = (fs \ Made(j, pc[j])) \cup Made(j, step)
  PROVE  Tidy'
<1>1. pc'[j] = step /\ \A k \in Jobs \ {j} : pc'[k] = pc[k]
  BY DEF TypeInv, TypeOK
<1>2. ASSUME NEW p \in Paths
      PROVE  p \in fs' <=> p \in Uploaded(upload') \/ \E k \in Jobs : p \in Made(k, pc'[k])
  <2>1. p \in fs <=> p \in Uploaded(upload) \/ \E k \in Jobs : p \in Made(k, pc[k])
    BY DEF Tidy
  <2>2. CASE p \in Made(j, pc[j]) \/ p \in Made(j, step)
    BY <1>1, <2>1, <2>2, MadeApart
  <2>3. CASE p \notin Made(j, pc[j]) /\ p \notin Made(j, step)
    BY <1>1, <2>1, <2>3
  <2> QED
    BY <2>2, <2>3
<1> QED
  BY <1>2 DEF Tidy

\* What is available is stored.
LEMMA AvailableStored ==
  ASSUME Tidy, NEW i \in Items, Available(i)
  PROVE  From(i) \in fs /\ Final(i, FALSE) \in fs
<1>1. From(i) \in Paths /\ Final(i, FALSE) \in Paths
  BY KnownPaths DEF From
<1>2. CASE i = Original
  BY <1>1, <1>2 DEF Available, Tidy, Uploaded
<1>3. CASE i # Original
  <2>1. i \in Variations /\ pc[Creation(i)] \in {"continue", "completed"}
    BY <1>3 DEF Available, Items
  <2>2. Creation(i) \in Jobs /\ Final(i, FALSE) \in Made(Creation(i), pc[Creation(i)])
    BY <2>1, JobShapes DEF Made
  <2> QED
    BY <1>1, <1>3, <2>2 DEF Tidy, From
<1> QED
  BY <1>2, <1>3

\* What a step of job j does in calm.
CalmMove(j, step) ==
  /\ pc' = [pc EXCEPT ![j] = step] /\ step \notin {"none", "failed", "removed"}
  /\ fs' = (fs \ Made(j, pc[j])) \cup Made(j, step)
  /\ j.type = "creation" /\ step = "completed" => pc[j] = "continue" /\ Pending(j.item) = {}
  /\ IF pc[j] = "none"
       THEN /\ step = "waiting" /\ Available(SourceOf(j))
            /\ src' = [src EXCEPT ![j] = From(SourceOf(j))]
            /\ dest' = [dest EXCEPT ![j] = Path(j.item, FALSE, j.type)]
       ELSE UNCHANGED <<src, dest>>

\* In calm the document is there and not locked, and nobody takes it for active.
LEMMA CalmDocument ==
  ASSUME TypeInv, OrderInv, PublicInv, CalmInv, Calm
  PROVE  /\ ~doc.active /\ ~lock /\ renamed = {}
         /\ \A j \in Jobs : ~seen[j] /\ (pc[j] # "none" => doc.exists)
<1>1. ~doc.active /\ (doc.exists <=> upload \in {"saved", "placed", "returned"})
  BY DEF CalmInv
<1>2. renamed = {} /\ \A j \in Jobs : ~seen[j]
  BY <1>1 DEF PublicInv, KnownActive
<1>3. ~lock
  BY <1>1 DEF OrderInv, RemovedForGood
<1>4. \A j \in Jobs : pc[j] # "none" => doc.exists
  BY <1>1 DEF OrderInv, NoJobsYet
<1> QED
  BY <1>1, <1>2, <1>3, <1>4

LEMMA QueueCalm ==
  ASSUME TypeInv, NEW i \in Items, NEW j \in NextPending(i), Available(i), fs' = fs,
         Enqueue(j, From(i), FALSE)
  PROVE  j \in Jobs /\ CalmMove(j, "waiting")
<1>1. j \in Jobs /\ pc[j] = "none" /\ j \in Children(i)
  BY PendingType DEF NextPending, Pending
<1>2. SourceOf(j) = i
  <2>1. CASE j = Optimization(i)
    BY <2>1, JobShapes DEF SourceOf
  <2>2. CASE j = Creation(j.item) /\ Source[j.item] = i
    <3>1. j.type = "creation"
      BY <2>2 DEF Creation
    <3> QED
      BY <2>2, <3>1 DEF SourceOf
  <2> QED
    BY <1>1, <2>1, <2>2, JobShapes
<1>3. Made(j, "none") = {} /\ Made(j, "waiting") = {}
  BY DEF Made
<1> QED
  BY <1>1, <1>2, <1>3 DEF CalmMove, Enqueue

LEMMA CreateCalm ==
  ASSUME TypeInv, OrderInv, PublicInv, CalmInv, Calm, ~MayFail,
         NEW j \in Jobs, j.type = "creation", Work(j)
  PROVE  (\E step : CalmMove(j, step)) \/ \E k \in Jobs : CalmMove(k, "waiting")
<1>1. /\ pc[j] # "none" => doc.exists
      /\ ~doc.active /\ ~lock /\ ~seen[j] /\ renamed = {}
  BY CalmDocument
<1>2. /\ pc[j] # "none" => /\ dest[j] = Path(j.item, FALSE, "creation")
                           /\ src[j] = From(Source[j.item]) /\ Available(Source[j.item])
      /\ Tidy
  BY DEF CalmInv, CalmJob, SourceOf
<1>3. j.item \in Variations /\ Source[j.item] \in Items /\ j = Creation(j.item) /\ j.item # Original
  BY JobShapes, ItemsAssumption
<1>4. /\ \A step : step \in {"none", "waiting", "load", "copy"} => Made(j, step) = {}
      /\ Made(j, "process") = {SourceCopy(j.item)}
      /\ \A step : step \in {"describe", "checkDeleted", "resolve", "move"} =>
           Made(j, step) = {Path(j.item, FALSE, "creation")}
      /\ \A step : step \in {"reload", "continue", "completed"} => Made(j, step) = {Final(j.item, FALSE)}
  BY DEF Made
<1>5. \A step : /\ Step(j, step) => pc' = [pc EXCEPT ![j] = step]
                /\ End(j, step) => pc' = [pc EXCEPT ![j] = step]
  BY DEF Step, End
<1>6. \A p : p \in Made(j, pc[j]) => p \in fs
  BY <1>2, MadeApart DEF Tidy
<1>7. CASE Load(j)
  <2>1. CalmMove(j, "copy")
    BY <1>1, <1>4, <1>5, <1>7 DEF Load, CalmMove
  <2> QED
    BY <2>1
<1>8. CASE CreateCopy(j)
  <2>1. src[j] \in fs
    BY <1>2, <1>3, <1>8, AvailableStored DEF CreateCopy
  <2>2. CalmMove(j, "process")
    BY <1>4, <1>5, <1>8, <2>1 DEF CreateCopy, Goto, CalmMove
  <2> QED
    BY <2>2
<1>9. CASE CreateProcess(j)
  <2>1. CalmMove(j, "describe")
    BY <1>2, <1>4, <1>5, <1>9 DEF CreateProcess, Goto, CalmMove
  <2> QED
    BY <2>1
<1>10. CASE CreateDescribe(j)
  <2>1. CalmMove(j, "checkDeleted")
    BY <1>4, <1>5, <1>6, <1>10 DEF CreateDescribe, Goto, CalmMove
  <2> QED
    BY <2>1
<1>11. CASE CreateCheckDeleted(j)
  <2>1. CalmMove(j, "resolve")
    BY <1>1, <1>4, <1>5, <1>6, <1>11 DEF CreateCheckDeleted, Goto, CalmMove
  <2> QED
    BY <2>1
<1>12. CASE Resolve(j)
  <2>1. CalmMove(j, "move")
    BY <1>4, <1>5, <1>6, <1>12 DEF Resolve, CalmMove
  <2> QED
    BY <2>1
<1>13. CASE CreateMove(j)
  <2>1. CalmMove(j, "reload")
    BY <1>1, <1>2, <1>4, <1>5, <1>13 DEF CreateMove, Goto, CalmMove, TypeInv, TypeOK
  <2> QED
    BY <2>1
<1>14. CASE CreateReload(j)
  <2>1. CalmMove(j, "continue")
    BY <1>1, <1>4, <1>5, <1>6, <1>14 DEF CreateReload, CalmMove
  <2> QED
    BY <2>1
<1>15. CASE CreateContinue(j)
  <2>1. PICK k \in NextPending(j.item) : Enqueue(k, Final(j.item, seen[j]), seen[j])
    BY <1>15 DEF CreateContinue
  <2>2. seen[j] = FALSE /\ From(j.item) = Final(j.item, FALSE) /\ Available(j.item) /\ j.item \in Items
    BY <1>1, <1>3, <1>15 DEF CreateContinue, From, Available, Items, TypeInv, TypeOK
  <2>3. k \in Jobs /\ CalmMove(k, "waiting")
    BY <1>15, <2>1, <2>2, QueueCalm DEF CreateContinue
  <2> QED
    BY <2>3
<1>16. CASE CreateEnd(j)
  <2>1. CalmMove(j, "completed")
    BY <1>4, <1>5, <1>6, <1>16 DEF CreateEnd, CalmMove
  <2> QED
    BY <2>1
<1> QED
  BY <1>7, <1>8, <1>9, <1>10, <1>11, <1>12, <1>13, <1>14, <1>15, <1>16
     DEF Work, OptimizeProcess, OptimizeCheckDeleted, OptimizeMove

LEMMA OptimizeCalm ==
  ASSUME TypeInv, OrderInv, PublicInv, CalmInv, Calm, ~MayFail,
         NEW j \in Jobs, j.type = "optimization", Work(j)
  PROVE  \E step : CalmMove(j, step)
<1>1. /\ pc[j] # "none" => doc.exists
      /\ ~doc.active /\ ~lock /\ ~seen[j] /\ renamed = {}
  BY CalmDocument
<1>2. /\ pc[j] # "none" => /\ dest[j] = Path(j.item, FALSE, "optimization")
                           /\ src[j] = From(j.item) /\ Available(j.item)
      /\ Tidy
  BY DEF CalmInv, CalmJob, SourceOf
<1>3. j.item \in Items
  BY JobType
<1>4. /\ \A step : step \in {"none", "waiting", "load", "process", "completed"} => Made(j, step) = {}
      /\ \A step : step \in {"checkDeleted", "resolve", "move"} =>
           Made(j, step) = {Path(j.item, FALSE, "optimization")}
  BY DEF Made
<1>5. \A step : /\ Step(j, step) => pc' = [pc EXCEPT ![j] = step]
                /\ End(j, step) => pc' = [pc EXCEPT ![j] = step]
  BY DEF Step, End
<1>6. \A p : p \in Made(j, pc[j]) => p \in fs
  BY <1>2, MadeApart DEF Tidy
<1>7. pc[j] # "none" => From(j.item) \in fs /\ Final(j.item, FALSE) \in fs
  BY <1>2, <1>3, AvailableStored
<1>8. CASE Load(j)
  <2>1. CalmMove(j, "process")
    BY <1>1, <1>4, <1>5, <1>8 DEF Load, CalmMove
  <2> QED
    BY <2>1
<1>9. CASE OptimizeProcess(j)
  <2>1. src[j] \in fs
    BY <1>2, <1>7, <1>9 DEF OptimizeProcess
  <2>2. CalmMove(j, "checkDeleted") \/ CalmMove(j, "completed")
    BY <1>2, <1>4, <1>5, <1>9, <2>1 DEF OptimizeProcess, Goto, CalmMove
  <2> QED
    BY <2>2
<1>10. CASE OptimizeCheckDeleted(j)
  <2>1. CalmMove(j, "resolve")
    BY <1>1, <1>4, <1>5, <1>6, <1>10 DEF OptimizeCheckDeleted, Goto, CalmMove
  <2> QED
    BY <2>1
<1>11. CASE Resolve(j)
  <2>1. CalmMove(j, "move")
    BY <1>4, <1>5, <1>6, <1>11 DEF Resolve, CalmMove
  <2> QED
    BY <2>1
<1>12. CASE OptimizeMove(j)
  <2>1. dest[j] # Final(j.item, FALSE)
    BY <1>2, <1>12 DEF OptimizeMove, Final, Path
  <2>2. fs' = fs \ {dest[j]}
    BY <1>1, <1>7, <1>12, <2>1 DEF OptimizeMove, TypeInv, TypeOK
  <2>3. CalmMove(j, "completed")
    BY <1>2, <1>4, <1>5, <1>12, <2>2 DEF OptimizeMove, CalmMove
  <2> QED
    BY <2>3
<1> QED
  BY <1>8, <1>9, <1>10, <1>11, <1>12
     DEF Work, CreateCopy, CreateProcess, CreateDescribe, CreateCheckDeleted, CreateMove,
         CreateReload, CreateContinue, CreateEnd

\* What is queued stays queued, what is available stays available.
LEMMA CalmGrows ==
  ASSUME TypeInv, OrderInv, [Next]_vars
  PROVE  /\ \A i : Pending(i)' \subseteq Pending(i)
         /\ \A i \in Items : Available(i) => Available(i)'
<1>1. \A j \in Jobs : JobStep(j)
  BY AnyJobStep
<1>2. \A j \in Jobs : pc'[j] = "none" => pc[j] = "none"
  BY <1>1 DEF JobStep, Steps, Ended
<1>3. ASSUME NEW i  PROVE Pending(i)' \subseteq Pending(i)
  <2>1. Children(i) \subseteq Jobs
    BY DEF Children, Creation, Optimization, Jobs
  <2> QED
    BY <1>2, <2>1 DEF Pending
<1>4. ASSUME NEW i \in Items, Available(i)  PROVE Available(i)'
  <2>1. CASE i = Original
    BY <1>4, <2>1, AnyDocStep DEF Available, UploadOnward
  <2>2. CASE i # Original
    <3>1. i \in Variations /\ pc[Creation(i)] \in {"continue", "completed"}
      BY <1>4, <2>2 DEF Available, Items
    <3>2. pc'[Creation(i)] \in {"continue", "completed"}
      BY <1>1, <3>1, JobShapes DEF JobStep
    <3> QED
      BY <2>2, <3>2 DEF Available
  <2> QED
    BY <2>1, <2>2
<1> QED
  BY <1>3, <1>4

LEMMA CalmMoved ==
  ASSUME TypeInv, OrderInv, PublicInv, CalmInv, Calm, [Next]_vars,
         NEW j \in Jobs, NEW step, CalmMove(j, step),
         Uploaded(upload') = Uploaded(upload),
         upload' = "returned" => Pending(Original)' = {}
  PROVE  (\A k \in Jobs : CalmJob(k))' /\ Tidy'
<1>1. pc'[j] = step /\ \A k \in Jobs \ {j} : pc'[k] = pc[k]
  BY DEF CalmMove, TypeInv, TypeOK
<1>2. \A k \in Jobs : CalmJob(k)
  BY DEF CalmInv
<1>3. Tidy'
  BY Tidied DEF CalmInv, CalmMove
<1>4. doc.variations \subseteq doc'.variations
  BY DocGrows
<1>5. ASSUME NEW k \in Jobs  PROVE SourceOf(k) \in Items /\ k.item \in Items
  BY JobType, ItemsAssumption DEF SourceOf
<1>6. ASSUME NEW k \in Jobs, pc'[k] # "none"
      PROVE  /\ dest'[k] = Path(k.item, FALSE, k.type) /\ src'[k] = From(SourceOf(k))
             /\ Available(SourceOf(k))
  <2>1. CASE k = j /\ pc[j] = "none"
    BY <2>1 DEF CalmMove, TypeInv, TypeOK
  <2>2. CASE k # j \/ pc[j] # "none"
    <3>1. pc[k] # "none"
      BY <1>1, <1>6, <2>2
    <3>2. dest[k] = Path(k.item, FALSE, k.type) /\ src[k] = From(SourceOf(k)) /\ Available(SourceOf(k))
      BY <1>2, <3>1 DEF CalmJob
    <3>3. dest'[k] = dest[k] /\ src'[k] = src[k]
      BY <2>2 DEF CalmMove, TypeInv, TypeOK
    <3> QED
      BY <3>2, <3>3
  <2> QED
    BY <2>1, <2>2
<1>7. ASSUME NEW k \in Jobs, k.type = "creation", pc'[k] = "completed"
      PROVE  k.item \in doc'.variations /\ Pending(k.item)' = {}
  <2>1. Pending(k.item) = {} /\ k.item \in doc.variations
    <3>1. CASE k = j
      <4>1. pc[j] = "continue" /\ Pending(j.item) = {}
        BY <1>1, <1>7, <3>1 DEF CalmMove
      <4>2. j.item \in doc.variations
        BY <1>7, <3>1, <4>1, JobShapes DEF OrderInv, DescribedInOrder
      <4> QED
        BY <3>1, <4>1, <4>2
    <3>2. CASE k # j
      BY <1>1, <1>2, <1>7, <3>2 DEF CalmJob
    <3> QED
      BY <3>1, <3>2
  <2> QED
    BY <1>4, <2>1, CalmGrows
<1>8. ASSUME NEW k \in Jobs  PROVE CalmJob(k)'
  <2>1. pc'[k] \notin {"failed", "removed"}
    BY <1>1, <1>2 DEF CalmJob, CalmMove
  <2>2. pc'[k] # "none" => Available(SourceOf(k))'
    BY <1>5, <1>6, CalmGrows
  <2> QED
    BY <1>6, <1>7, <2>1, <2>2 DEF CalmJob, SourceOf, From, Backup, Final, Path
<1> QED
  BY <1>3, <1>8

\* The steps of the upload; no job is queued before it is in place.
LEMMA CalmUpload ==
  ASSUME TypeInv, OrderInv, CalmInv, Calm,
         UploadStore \/ UploadReject \/ UploadSave \/ UploadPlace
  PROVE  /\ (\A k \in Jobs : CalmJob(k))' /\ Tidy' /\ doc'.active = doc.active
         /\ doc'.exists <=> upload' \in {"saved", "placed", "returned"}
         /\ upload' = "returned" => Pending(Original)' = {}
<1>1. upload \in {"idle", "stored", "saved"} /\ pc' = pc /\ \A j \in Jobs : pc[j] = "none"
  BY DEF UploadStore, UploadReject, UploadSave, UploadPlace, jobVars, OrderInv, NoJobsYet
<1>2. \A p \in Paths : p \in fs <=> p \in Uploaded(upload)
  <2>1. \A j \in Jobs : Made(j, pc[j]) = {}
    BY <1>1 DEF Made
  <2> QED
    BY <2>1 DEF CalmInv, Tidy
<1>3. \A p \in Paths : p \in fs' <=> p \in Uploaded(upload')
  <2>1. Backup \in Paths /\ Final(Original, FALSE) \in Paths /\ Backup # Final(Original, FALSE)
    BY KnownPaths DEF Items, Backup, Final, Path
  <2>2. CASE UploadStore
    BY <1>2, <2>1, <2>2 DEF UploadStore, Uploaded
  <2>3. CASE UploadReject
    BY <1>2, <2>1, <2>3 DEF UploadReject, Uploaded
  <2>4. CASE UploadSave
    BY <1>2, <2>4 DEF UploadSave, Uploaded
  <2>5. CASE UploadPlace
    BY <1>2, <2>1, <2>5 DEF UploadPlace, Uploaded, From
  <2> QED
    BY <2>2, <2>3, <2>4, <2>5
<1>4. Tidy'
  <2>1. \A j \in Jobs : Made(j, pc'[j]) = {}
    BY <1>1 DEF Made
  <2> QED
    BY <1>3, <2>1 DEF Tidy
<1>5. (\A k \in Jobs : CalmJob(k))'
  BY <1>1 DEF CalmJob
<1>6. doc.exists <=> upload \in {"saved", "placed", "returned"}
  BY DEF CalmInv
<1>7. doc'.active = doc.active /\ (doc'.exists <=> upload' \in {"saved", "placed", "returned"})
  BY <1>1, <1>6 DEF UploadStore, UploadReject, UploadSave, UploadPlace, TypeInv, TypeOK, DocStates
<1>8. upload' = "returned" => Pending(Original)' = {}
  BY <1>1 DEF UploadStore, UploadReject, UploadSave, UploadPlace, Pending
<1> QED
  BY <1>4, <1>5, <1>7, <1>8

\* Whoever activates the file has not been calm, or is not any more.
LEMMA NotActivated ==
  ASSUME TypeInv, [Next]_vars, act'.pc = "idle"
  PROVE  act.pc = "idle" /\ ~Activate
<1>1. ~Activate
  BY DEF Activate, ActivateSave, ActivateScan, ActivateFlag, ActivateStat, ActivateRename,
     ActivateGoto, TypeInv, TypeOK, ActStates
<1>2. CASE DeleteStep
  BY <1>1, <1>2 DEF DeleteStep, DeleteDocument, DeleteFile, DeleteLock, DeleteScanWaiting, DeleteScanActive,
     DeleteSubscribe, DeleteRemoveJob, DeleteUnlock
<1>3. CASE ~DeleteStep
  BY <1>1, <1>3 DEF Next, vars, UploadStep, UploadStore, UploadReject, UploadSave, UploadPlace, UploadQueue,
     Work, Load, CreateCopy, CreateProcess, CreateDescribe, CreateCheckDeleted, Resolve, CreateMove,
     CreateReload, CreateContinue, CreateEnd, OptimizeProcess, OptimizeCheckDeleted, OptimizeMove,
     Take, DeleteLoad, GetLoad, GetStep, GetStat, GetCount, GetSubscribe, GetRestat, GetOpen, GetGoto
<1> QED
  BY <1>1, <1>2, <1>3

LEMMA CalmBefore ==
  ASSUME TypeInv, [Next]_vars, Calm'
  PROVE  Calm /\ ~Activate /\ ~DeleteStep
<1>1. del.pc \in {"idle", "loaded"}
  BY AnyDocStep DEF DeleteOnward, Calm, TypeInv, TypeOK, DelStates
<1>2. ~DeleteStep
  BY <1>1 DEF Calm, DeleteStep, DeleteDocument, DeleteFile, DeleteLock, DeleteScanWaiting, DeleteScanActive,
     DeleteSubscribe, DeleteRemoveJob, DeleteUnlock, TypeInv, TypeOK, DelStates
<1> QED
  BY <1>1, <1>2, NotActivated DEF Calm

LEMMA WorkAside ==
  ASSUME TypeInv, NEW j \in Jobs, Work(j)
  PROVE  upload' = upload /\ doc'.exists = doc.exists /\ doc'.active = doc.active
<1>1. upload' = upload /\ (doc' = doc \/ doc' = Described(j.item))
  BY DEF Work, Load, CreateCopy, CreateProcess, CreateDescribe, CreateCheckDeleted, Resolve, CreateMove,
     CreateReload, CreateContinue, CreateEnd, OptimizeProcess, OptimizeCheckDeleted, OptimizeMove
<1> QED
  BY <1>1 DEF Described, TypeInv, TypeOK, DocStates

LEMMA CalmStep == ~MayFail /\ TypeInv /\ OrderInv /\ PublicInv /\ CalmInv /\ [Next]_vars => CalmInv'
<1> SUFFICES ASSUME ~MayFail, TypeInv, OrderInv, PublicInv, CalmInv, [Next]_vars, Calm'
             PROVE  /\ ~doc'.active /\ (doc'.exists <=> upload' \in {"saved", "placed", "returned"})
                    /\ upload' = "returned" => Pending(Original)' = {}
                    /\ (\A j \in Jobs : CalmJob(j))' /\ Tidy'
  BY DEF CalmInv
<1>1. Calm /\ ~Activate /\ ~DeleteStep
  BY CalmBefore
<1>2. /\ ~doc.active /\ (doc.exists <=> upload \in {"saved", "placed", "returned"})
      /\ upload = "returned" => Pending(Original) = {}
      /\ (\A j \in Jobs : CalmJob(j)) /\ Tidy
  BY <1>1 DEF CalmInv
<1>3. CASE UploadStore \/ UploadReject \/ UploadSave \/ UploadPlace
  BY <1>1, <1>2, <1>3, CalmUpload
<1>4. CASE UploadQueue
  <2>1. PICK j \in NextPending(Original) :
          /\ Enqueue(j, IF ModifiesOriginal THEN Backup ELSE Final(Original, FALSE), FALSE)
          /\ upload' = IF Pending(Original) = {j} THEN "returned" ELSE "placed"
    BY <1>4 DEF UploadQueue
  <2>2. Available(Original) /\ Enqueue(j, From(Original), FALSE) /\ fs' = fs /\ doc' = doc /\ upload = "placed"
    BY <1>4, <2>1 DEF UploadQueue, Available, From
  <2>3. j \in Jobs /\ CalmMove(j, "waiting")
    BY <2>2, QueueCalm DEF Items
  <2>4. Uploaded(upload') = Uploaded(upload)
    BY <2>1, <2>2 DEF Uploaded
  <2>5. upload' = "returned" => Pending(Original)' = {}
    <3>1. j \notin Pending(Original)'
      BY <2>3 DEF CalmMove, Pending, TypeInv, TypeOK
    <3>2. upload' = "returned" => Pending(Original) = {j}
      BY <2>1
    <3> QED
      BY <3>1, <3>2, CalmGrows
  <2> QED
    BY <1>1, <1>2, <2>1, <2>2, <2>3, <2>4, <2>5, CalmMoved
<1>5. ASSUME NEW j \in Jobs, NEW step, CalmMove(j, step), upload' = upload,
             doc'.exists = doc.exists, doc'.active = doc.active
      PROVE  /\ ~doc'.active /\ (doc'.exists <=> upload' \in {"saved", "placed", "returned"})
             /\ upload' = "returned" => Pending(Original)' = {}
             /\ (\A k \in Jobs : CalmJob(k))' /\ Tidy'
  <2>1. upload' = "returned" => Pending(Original)' = {}
    BY <1>2, <1>5, CalmGrows
  <2> QED
    BY <1>1, <1>2, <1>5, <2>1, CalmMoved
<1>6. CASE \E j \in Jobs : Work(j)
  <2>1. PICK j \in Jobs : Work(j)
    BY <1>6
  <2>2. \E k \in Jobs : \E step : CalmMove(k, step)
    BY <1>1, <2>1, CreateCalm, OptimizeCalm, JobType
  <2> QED
    BY <1>5, <2>1, <2>2, WorkAside
<1>7. CASE \E j \in Jobs, n \in Nodes : Take(n, j)
  <2>1. PICK j \in Jobs, n \in Nodes : Take(n, j)
    BY <1>7
  <2>2. Made(j, "waiting") = {} /\ Made(j, "load") = {}
    BY DEF Made
  <2>3. CalmMove(j, "load")
    BY <2>1, <2>2 DEF Take, Waiting, CalmMove
  <2> QED
    BY <1>5, <2>1, <2>3 DEF Take
<1>8. CASE UNCHANGED <<doc, fs, pc, src, dest, upload>>
  <2>1. (\A k \in Jobs : CalmJob(k))'
    BY <1>2, <1>8 DEF CalmJob, Available, SourceOf, From, Pending
  <2>2. Tidy' /\ (upload' = "returned" => Pending(Original)' = {})
    BY <1>2, <1>8 DEF Tidy, Pending
  <2> QED
    BY <1>2, <1>8, <2>1, <2>2
<1>9. CASE \/ \E n \in Nodes, via \in Deletes : DeleteLoad(n, via)
           \/ \E n \in Nodes, i \in Requested : GetLoad(n, i)
           \/ GetStep \/ UNCHANGED vars
  BY <1>8, <1>9 DEF DeleteLoad, GetLoad, GetStep, GetStat, GetCount, GetSubscribe, GetRestat, GetOpen,
     GetGoto, vars, jobVars
<1> QED
  BY <1>1, <1>3, <1>4, <1>6, <1>7, <1>9 DEF Next, UploadStep

LEMMA CalmAlways ==
  ASSUME ~MayFail
  PROVE  Spec => [](IInv /\ CalmInv)
<1>1. Init => IInv /\ CalmInv
  BY TypeInit, OrderInit, PublicInit, StoredInit, CalmInit DEF IInv
<1>2. IInv /\ CalmInv /\ [Next]_vars => (IInv /\ CalmInv)'
  BY TypeStep, OrderStep, PublicStep, StoredStep, CalmStep DEF IInv
<1> QED
  BY <1>1, <1>2, PTL DEF Spec

\* In calm, what is described is what has been created.
LEMMA TidyWhenQuiet ==
  ASSUME IInv, CalmInv, Calm, Quiet, upload = "returned"
  PROVE  fs = {Final(i, FALSE) : i \in {Original} \cup doc.variations}
                \cup (IF ModifiesOriginal THEN {Backup} ELSE {})
<1>1. \A j \in Jobs : pc[j] \in {"none", "completed"}
  BY DEF IInv, TypeInv, TypeOK, Quiet, Waiting, Active, Ended, CalmInv, CalmJob
<1>2. \A v \in Variations : v \in doc.variations <=> pc[Creation(v)] = "completed"
  BY <1>1, JobShapes DEF IInv, StoredInv, CreatedFirst, CalmInv, CalmJob
<1>3. doc.variations \subseteq Variations /\ fs \subseteq Paths
  BY DEF IInv, TypeInv, TypeOK, DocStates
<1>4. \A j \in Jobs : \A p \in Made(j, pc[j]) :
        j.type = "creation" /\ pc[j] = "completed" /\ p = Final(j.item, FALSE)
  BY <1>1 DEF Made
<1>5. ASSUME NEW p \in fs
      PROVE  p \in {Final(i, FALSE) : i \in {Original} \cup doc.variations}
                     \cup (IF ModifiesOriginal THEN {Backup} ELSE {})
  <2>1. CASE p \in Uploaded(upload)
    BY <2>1 DEF Uploaded, From
  <2>2. CASE p \notin Uploaded(upload)
    <3>1. PICK j \in Jobs : p \in Made(j, pc[j])
      BY <1>3, <1>5, <2>2 DEF CalmInv, Tidy
    <3>2. j.type = "creation" /\ pc[j] = "completed" /\ p = Final(j.item, FALSE)
      BY <1>4, <3>1
    <3>3. j.item \in doc.variations
      BY <1>2, <3>2, JobShapes
    <3> QED
      BY <3>2, <3>3
  <2> QED
    BY <2>1, <2>2
<1>6. ASSUME NEW i \in {Original} \cup doc.variations  PROVE Final(i, FALSE) \in fs
  <2>1. Available(i) /\ i \in Items
    BY <1>2, <1>3 DEF Available, Items
  <2> QED
    BY <2>1, AvailableStored DEF CalmInv
<1>7. ModifiesOriginal => Backup \in fs
  <2>1. From(Original) \in fs
    BY AvailableStored DEF CalmInv, Available, Items
  <2> QED
    BY <2>1 DEF From
<1> QED
  BY <1>5, <1>6, <1>7

-----------------------------------------------------------------------------
LEMMA DeletionBegins ==
  ASSUME IInv, CalmInv, act.pc = "idle", NEW n, NEW via, DeleteLoad(n, via), del'.quiet
  PROVE  /\ Quiet' /\ upload' = "returned" /\ del'.pc = "loaded" /\ fs' \subseteq FilesToDelete(del)'
<1>1. /\ Calm /\ Quiet /\ upload = "returned"
      /\ del'.pc = "loaded" /\ del'.active = doc.active /\ del'.variations = doc.variations
      /\ fs' = fs /\ pc' = pc /\ upload' = upload
  BY DEF DeleteLoad, Calm, jobVars, IInv, TypeInv, TypeOK, DelStates
<1>2. ~doc.active
  BY <1>1 DEF CalmInv
<1>3. fs = {Final(i, FALSE) : i \in {Original} \cup doc.variations}
             \cup (IF ModifiesOriginal THEN {Backup} ELSE {})
  BY <1>1, TidyWhenQuiet
<1>4. doc.active = FALSE
  BY <1>2 DEF IInv, TypeInv, TypeOK, DocStates
<1>5. FilesToDelete(del)' = {Backup} \cup {Final(i, FALSE) : i \in {Original} \cup doc.variations}
  BY <1>1, <1>4 DEF FilesToDelete, Backup, Final, Path
<1>6. fs \subseteq {Backup} \cup {Final(i, FALSE) : i \in {Original} \cup doc.variations}
  BY <1>3
<1> QED
  BY <1>1, <1>5, <1>6 DEF Quiet, Waiting, Active

\* While no job is queued or at work none comes, and only the deletion touches files.
LEMMA StaysQuiet ==
  ASSUME IInv, Quiet, upload = "returned", [Next]_vars, ~Activate
  PROVE  /\ Quiet' /\ upload' = "returned" /\ fs' \subseteq fs
         /\ \/ DeleteStep \/ (fs' = fs /\ del' = del)
            \/ \E n \in Nodes, via \in Deletes : DeleteLoad(n, via)
<1>1. ~UploadStep
  BY DEF UploadStep, UploadStore, UploadReject, UploadSave, UploadPlace, UploadQueue
<1>2. \A j \in Jobs : ~Work(j) /\ \A n \in Nodes : ~Take(n, j)
  <2>1. \A j \in Jobs : pc[j] # "waiting" /\ pc[j] \notin Steps
    BY DEF Quiet, Waiting, Active
  <2> QED
    BY <2>1 DEF Steps, Take, Waiting, Work, Load, CreateCopy, CreateProcess, CreateDescribe,
       CreateCheckDeleted, Resolve, CreateMove, CreateReload, CreateContinue, CreateEnd,
       OptimizeProcess, OptimizeCheckDeleted, OptimizeMove
<1>3. CASE DeleteStep
  <2>1. upload' = upload /\ fs' \subseteq fs
    BY <1>3 DEF DeleteStep, DeleteDocument, DeleteFile, DeleteLock, DeleteScanWaiting,
       DeleteScanActive, DeleteSubscribe, DeleteRemoveJob, DeleteUnlock
  <2>2. pc' = pc
    <3>1. CASE \E j \in Jobs : DeleteRemoveJob(j)
      BY <3>1 DEF DeleteRemoveJob, Quiet, IInv, TypeInv, TypeOK
    <3>2. CASE ~\E j \in Jobs : DeleteRemoveJob(j)
      BY <1>3, <3>2 DEF DeleteStep, DeleteDocument, DeleteFile, DeleteLock, DeleteScanWaiting,
         DeleteScanActive, DeleteSubscribe, DeleteUnlock, jobVars
    <3> QED
      BY <3>1, <3>2
  <2> QED
    BY <1>3, <2>1, <2>2 DEF Quiet, Waiting, Active
<1>4. CASE \E n \in Nodes, via \in Deletes : DeleteLoad(n, via)
  BY <1>4 DEF DeleteLoad, jobVars, Quiet, Waiting, Active
<1>5. CASE GetStep \/ (\E n \in Nodes, i \in Requested : GetLoad(n, i)) \/ UNCHANGED vars
  BY <1>5 DEF GetLoad, GetStep, GetStat, GetCount, GetSubscribe, GetRestat, GetOpen, GetGoto, vars,
     jobVars, Quiet, Waiting, Active
<1> QED
  BY <1>1, <1>2, <1>3, <1>4, <1>5 DEF Next

\* A deletion begins only once.
LEMMA DeletionGoesOn ==
  ASSUME TypeInv, [Next]_vars, ~\E n \in Nodes, via \in Deletes : DeleteLoad(n, via)
  PROVE  del'.quiet = del.quiet /\ (del.pc = "idle" => del'.pc = "idle")
<1>1. CASE DeleteStep
  BY <1>1 DEF DeleteStep, DeleteDocument, DeleteFile, DeleteLock, DeleteScanWaiting, DeleteScanActive,
     DeleteSubscribe, DeleteRemoveJob, DeleteUnlock, TypeInv, TypeOK, DelStates
<1>2. CASE \E j \in Jobs : Work(j)
  <2>1. \A j, step : Step(j, step) => del' = del
    BY DEF Step
  <2>2. \A j, outcome : End(j, outcome) => del'.quiet = del.quiet /\ del'.pc = del.pc
    BY DEF End, TypeInv, TypeOK, DelStates
  <2> QED
    BY <1>2, <2>1, <2>2 DEF Work, Load, CreateCopy, CreateProcess, CreateDescribe, CreateCheckDeleted, Resolve,
       CreateMove, CreateReload, CreateContinue, CreateEnd, OptimizeProcess, OptimizeCheckDeleted,
       OptimizeMove, Goto
<1>3. CASE UNCHANGED del
  BY <1>3
<1> QED
  BY <1>1, <1>2, <1>3 DEF Next, vars, UploadStep, UploadStore, UploadReject, UploadSave, UploadPlace,
     UploadQueue, Take, Activate, ActivateSave, ActivateScan, ActivateFlag, ActivateStat, ActivateRename,
     GetLoad, GetStep, GetStat, GetCount, GetSubscribe, GetRestat, GetOpen, GetGoto

LEMMA QuietStep ==
  ~MayFail /\ IInv /\ CalmInv /\ QuietInv /\ [Next]_vars => QuietInv'
<1> SUFFICES ASSUME ~MayFail, IInv, CalmInv, QuietInv, [Next]_vars,
                    del'.quiet, act'.pc = "idle", del'.pc # "idle"
             PROVE  /\ Quiet' /\ upload' = "returned"
                    /\ del'.pc = "loaded" => fs' \subseteq FilesToDelete(del)'
                    /\ del'.pc = "files" => fs' \subseteq del'.files
                    /\ del'.pc \notin {"loaded", "files"} => fs' = {}
  BY DEF QuietInv
<1>1. act.pc = "idle" /\ ~Activate
  BY NotActivated DEF IInv
<1>2. CASE \E n \in Nodes, via \in Deletes : DeleteLoad(n, via)
  BY <1>1, <1>2, DeletionBegins
<1>3. CASE ~\E n \in Nodes, via \in Deletes : DeleteLoad(n, via)
  <2>1. del.quiet /\ del.pc # "idle"
    BY <1>3, DeletionGoesOn DEF IInv
  <2>2. /\ Quiet /\ upload = "returned"
        /\ del.pc = "loaded" => fs \subseteq FilesToDelete(del)
        /\ del.pc = "files" => fs \subseteq del.files
        /\ del.pc \notin {"loaded", "files"} => fs = {}
    BY <1>1, <2>1 DEF QuietInv
  <2>3. Quiet' /\ upload' = "returned" /\ fs' \subseteq fs /\ (DeleteStep \/ (fs' = fs /\ del' = del))
    BY <1>1, <1>3, <2>2, StaysQuiet
  <2>4. CASE DeleteDocument
    BY <2>2, <2>3, <2>4 DEF DeleteDocument, IInv, TypeInv, TypeOK, DelStates
  <2>5. CASE DeleteFile
    BY <2>2, <2>3, <2>5 DEF DeleteFile, IInv, TypeInv, TypeOK, DelStates
  <2>6. CASE DeleteStep /\ del.pc \notin {"loaded", "files"}
    <3>1. ASSUME NEW j \in Jobs, DeleteRemoveJob(j)  PROVE del'.pc \notin {"loaded", "files"}
      BY <2>6, <3>1 DEF DeleteRemoveJob, IInv, TypeInv, TypeOK, DelStates
    <3>2. ASSUME DeleteLock \/ DeleteSubscribe \/ DeleteUnlock
          PROVE del'.pc \notin {"loaded", "files"}
      BY <3>2 DEF DeleteLock, DeleteSubscribe, DeleteUnlock, IInv, TypeInv, TypeOK, DelStates
    <3>3. ASSUME DeleteScanWaiting
          PROVE del'.pc \notin {"loaded", "files"}
      BY <3>3 DEF DeleteScanWaiting, IInv, TypeInv, TypeOK, DelStates
    <3>4. ASSUME DeleteScanActive
          PROVE del'.pc \notin {"loaded", "files"}
      BY <3>4 DEF DeleteScanActive, IInv, TypeInv, TypeOK, DelStates
    <3>5. ~DeleteDocument /\ ~DeleteFile
      BY <2>6 DEF DeleteDocument, DeleteFile
    <3>6. del'.pc \notin {"loaded", "files"}
      BY <2>6, <3>1, <3>2, <3>3, <3>4, <3>5 DEF DeleteStep
    <3> QED
      BY <2>2, <2>3, <2>6, <3>6
  <2>7. CASE fs' = fs /\ del' = del
    BY <2>2, <2>3, <2>7 DEF FilesToDelete, Backup, Final, Path
  <2> QED
    BY <2>3, <2>4, <2>5, <2>6, <2>7 DEF DeleteStep, DeleteLock, DeleteScanWaiting, DeleteScanActive,
       DeleteSubscribe, DeleteRemoveJob, DeleteUnlock
<1> QED
  BY <1>2, <1>3

\* A deletion of a file that is not being processed leaves nothing of it behind, whatever its
\* variations, if no processor has failed and nobody activates the file (file.api.ts:52-56).
THEOREM QuietDeletionsAreClean ==
  ASSUME ~MayFail
  PROVE  Spec => []QuietDeleteIsClean
<1>1. Init => QuietInv
  BY DEF Init, QuietInv
<1>2. QuietInv => QuietDeleteIsClean
  BY DEF QuietInv, QuietDeleteIsClean
<1>3. IInv /\ CalmInv /\ QuietInv /\ [Next]_vars => QuietInv'
  BY QuietStep
<1> QED
  BY <1>1, <1>2, <1>3, CalmAlways, PTL DEF Spec

-----------------------------------------------------------------------------
(* An upload nobody interferes with.                                       *)

\* Nobody activates or deletes the file.
Alone == act.pc = "idle" /\ del.pc = "idle"

LEMMA AloneAlways ==
  ASSUME ~Activates, Deletes = {}
  PROVE  Spec => []Alone
<1>1. Init => Alone
  BY DEF Init, Alone
<1>2. IInv /\ Alone /\ [Next]_vars => Alone'
  <2> SUFFICES ASSUME IInv, Alone, [Next]_vars PROVE Alone'
    OBVIOUS
  <2>1. del'.pc = "idle"
    BY DeletionGoesOn DEF Alone, IInv
  <2>2. ~Activate /\ ~DeleteStep
    BY DEF Alone, Activate, ActivateSave, ActivateScan, ActivateFlag, ActivateStat, ActivateRename,
       DeleteStep, DeleteDocument, DeleteFile, DeleteLock, DeleteScanWaiting, DeleteScanActive,
       DeleteSubscribe, DeleteRemoveJob, DeleteUnlock
  <2>3. act' = act
    BY <2>2 DEF Next, vars, UploadStep, UploadStore, UploadReject, UploadSave, UploadPlace, UploadQueue,
       Work, Load, CreateCopy, CreateProcess, CreateDescribe, CreateCheckDeleted, Resolve, CreateMove,
       CreateReload, CreateContinue, CreateEnd, OptimizeProcess, OptimizeCheckDeleted, OptimizeMove,
       Take, DeleteLoad, GetLoad, GetStep, GetStat, GetCount, GetSubscribe, GetRestat, GetOpen, GetGoto
  <2> QED
    BY <2>1, <2>3 DEF Alone
<1> QED
  BY <1>1, <1>2, Invariants, PTL DEF Spec

\* Once no job is left, every variation of a file has been created, with nothing of the work
\* left, whatever the tree of its sources: every set of variations has one whose source is not
\* among them, as in file.types.ts.
THEOREM UploadsAreProcessed ==
  ASSUME ~MayFail, ~Activates, Deletes = {},
         \A vs \in SUBSET Variations : vs # {} => \E v \in vs : Source[v] \notin vs
  PROVE  Spec => []ProcessedCompletely
<1>1. IInv /\ CalmInv /\ Alone => ProcessedCompletely
  <2> SUFFICES ASSUME IInv, CalmInv, Alone, upload = "returned", Quiet
               PROVE  /\ doc.variations = Variations
                      /\ fs = {Final(i, FALSE) : i \in Items} \cup (IF ModifiesOriginal THEN {Backup} ELSE {})
    BY DEF ProcessedCompletely
  <2>1. \A j \in Jobs : pc[j] # "none" => pc[j] = "completed"
    BY DEF IInv, TypeInv, TypeOK, Quiet, Waiting, Active, Ended, CalmInv, CalmJob, Calm, Alone
  <2>2. doc.variations \subseteq Variations
    BY DEF IInv, TypeInv, TypeOK, DocStates
  <2>3. ASSUME NEW v \in Variations, Source[v] \in {Original} \cup doc.variations
        PROVE  v \in doc.variations
    <3>1. Creation(v) \in Jobs /\ Creation(v).type = "creation" /\ Creation(v).item = v
      BY JobShapes
    <3>2. Creation(v) \in Children(Source[v])
      BY DEF Children
    <3>3. Pending(Source[v]) = {}
      <4>1. CASE Source[v] = Original
        BY <4>1 DEF CalmInv, Calm, Alone
      <4>2. CASE Source[v] \in doc.variations
        <5>1. pc[Creation(Source[v])] = "completed" /\ Source[v] \in Variations
          BY <2>1, <2>2, <4>2, JobShapes DEF IInv, StoredInv, CreatedFirst
        <5> QED
          BY <5>1, JobShapes DEF CalmInv, CalmJob, Calm, Alone
      <4> QED
        BY <2>3, <4>1, <4>2
    <3>4. pc[Creation(v)] = "completed"
      BY <2>1, <3>1, <3>2, <3>3 DEF Pending
    <3> QED
      BY <3>1, <3>4 DEF CalmInv, CalmJob, Calm, Alone
  <2>4. Variations \subseteq doc.variations
    <3> DEFINE rest == Variations \ doc.variations
    <3>1. ASSUME NEW v \in rest, Source[v] \notin rest  PROVE FALSE
      BY <2>3, <3>1, ItemsAssumption DEF Items
    <3> QED
      BY <3>1
  <2> QED
    BY <2>2, <2>4, TidyWhenQuiet DEF Calm, Alone, Items
<1> QED
  BY <1>1, CalmAlways, AloneAlways, PTL

\* In calm a variation that is in place stays there.
LEMMA FinalStays ==
  ASSUME IInv, CalmInv, CalmInv', Alone, Alone', [Next]_vars, NEW i \in Items, Final(i, FALSE) \in fs
  PROVE  Final(i, FALSE) \in fs'
<1>1. Tidy /\ Tidy' /\ \A j \in Jobs : JobStep(j) /\ CalmJob(j)'
  BY AnyJobStep DEF CalmInv, Calm, Alone, IInv
<1>2. Final(i, FALSE) \in Paths
  BY KnownPaths
<1>3. CASE Final(i, FALSE) \in Uploaded(upload)
  <2>1. UploadOnward
    BY AnyDocStep DEF IInv
  <2>2. upload \in {"placed", "returned"} /\ upload' \in {"placed", "returned"}
    BY <1>3, <2>1 DEF UploadOnward, Uploaded, Backup, Final, Path
  <2> QED
    BY <1>1, <1>2, <1>3, <2>2 DEF Tidy, Uploaded
<1>4. CASE Final(i, FALSE) \notin Uploaded(upload)
  <2>1. PICK j \in Jobs : Final(i, FALSE) \in Made(j, pc[j])
    BY <1>1, <1>2, <1>4 DEF Tidy
  <2>2. /\ j.type = "creation" /\ pc[j] \in {"reload", "continue", "completed"}
        /\ Final(i, FALSE) = Final(j.item, FALSE)
    BY <2>1, JobType DEF Made, SourceCopy, Final, Path
  <2>3. pc'[j] \in {"reload", "continue", "completed"}
    BY <1>1, <2>2 DEF JobStep, Steps
  <2>4. Final(i, FALSE) \in Made(j, pc'[j])
    BY <2>2, <2>3 DEF Made
  <2> QED
    BY <1>1, <1>2, <2>4 DEF Tidy
<1> QED
  BY <1>3, <1>4

\* What moves a request: its own steps, and the job it listens to.
LEMMA RequestMoves ==
  ASSUME TypeInv, [Next]_vars
  PROVE  \/ get' = get \/ GetStep \/ \E n \in Nodes, i \in Requested : GetLoad(n, i)
         \/ \E j \in Jobs : /\ get.pc = "listening" /\ j = Creation(get.item) /\ pc'[j] = "completed"
                            /\ get' = [get EXCEPT !.pc = "restat"]
<1>1. CASE \E j \in Jobs : Work(j)
  <2>1. PICK j \in Jobs : Work(j)
    BY <1>1
  <2>2. \A step : Step(j, step) => get' = get
    BY DEF Step
  <2>3. \A outcome : End(j, outcome) =>
          \/ get' = get
          \/ /\ get.pc = "listening" /\ j = Creation(get.item) /\ pc'[j] = "completed"
             /\ get' = [get EXCEPT !.pc = "restat"]
    BY DEF End, TypeInv, TypeOK
  <2> QED
    BY <2>1, <2>2, <2>3 DEF Work, Load, CreateCopy, CreateProcess, CreateDescribe, CreateCheckDeleted,
       Resolve, CreateMove, CreateReload, CreateContinue, CreateEnd, OptimizeProcess,
       OptimizeCheckDeleted, OptimizeMove, Goto
<1>2. CASE DeleteStep
  BY <1>2 DEF DeleteStep, DeleteDocument, DeleteFile, DeleteLock, DeleteScanWaiting, DeleteScanActive,
     DeleteSubscribe, DeleteRemoveJob, DeleteUnlock
<1>3. CASE Activate
  BY <1>3 DEF Activate, ActivateSave, ActivateScan, ActivateFlag, ActivateStat, ActivateRename
<1> QED
  BY <1>1, <1>2, <1>3 DEF Next, vars, UploadStep, UploadStore, UploadReject, UploadSave, UploadPlace,
     UploadQueue, Take, DeleteLoad

LEMMA GetStepInv ==
  ASSUME IInv, CalmInv, CalmInv', Alone, Alone', GetInv, [Next]_vars
  PROVE  GetInv'
<1> SUFFICES ASSUME get'.pc # "idle"
             PROVE  /\ upload' = "returned" /\ ~get'.active /\ get'.pc # "error"
                    /\ get'.pc \in {"restat", "open"} => Final(get'.item, get'.active) \in fs'
                    /\ get'.pc = "count" => get'.item # Original
  BY DEF GetInv, GetPath
<1>1. get \in GetStates /\ doc \in DocStates
  BY DEF IInv, TypeInv, TypeOK
<1>2. /\ Tidy /\ Tidy' /\ ~doc.active
  BY DEF CalmInv, Calm, Alone
<1>3. upload = "returned" => upload' = "returned"
  BY AnyDocStep DEF UploadOnward, IInv
<1>4. get.pc # "idle" => /\ upload = "returned" /\ get.active = FALSE /\ get.pc # "error"
                         /\ get.pc \in {"restat", "open"} => Final(get.item, FALSE) \in fs
                         /\ get.pc = "count" => get.item # Original
  BY <1>1 DEF GetInv, GetPath, GetStates
<1>5. Final(get.item, FALSE) \in fs => Final(get.item, FALSE) \in fs'
  BY <1>1, FinalStays DEF GetStates
<1>6. CASE get' = get
  BY <1>3, <1>4, <1>5, <1>6
<1>7. CASE GetStat
  <2>1. upload = "returned" => Final(Original, FALSE) \in fs
    BY <1>2, AvailableStored DEF Available, Items
  <2> QED
    BY <1>1, <1>3, <1>4, <1>5, <1>7, <2>1 DEF GetStat, GetGoto, GetPath, GetStates
<1>8. CASE GetCount
  BY <1>1, <1>3, <1>4, <1>8 DEF GetCount, GetGoto, GetStates
<1>9. CASE GetSubscribe
  BY <1>1, <1>3, <1>4, <1>9 DEF GetSubscribe, GetGoto, GetStates
<1>10. CASE GetRestat \/ GetOpen
  BY <1>1, <1>3, <1>4, <1>5, <1>10 DEF GetRestat, GetOpen, GetGoto, GetPath, GetStates
<1>11. CASE \E n \in Nodes, i \in Requested : GetLoad(n, i)
  BY <1>2, <1>3, <1>11 DEF GetLoad
<1>12. ASSUME NEW j \in Jobs, get.pc = "listening", j = Creation(get.item), pc'[j] = "completed",
              get' = [get EXCEPT !.pc = "restat"]
       PROVE  /\ upload' = "returned" /\ ~get'.active /\ get'.pc # "error"
              /\ get'.pc \in {"restat", "open"} => Final(get'.item, get'.active) \in fs'
              /\ get'.pc = "count" => get'.item # Original
  <2>1. j.type = "creation" /\ j.item = get.item
    BY <1>12 DEF Creation
  <2>2. Final(get.item, FALSE) \in Made(j, pc'[j]) /\ Final(get.item, FALSE) \in Paths
    BY <1>1, <1>12, <2>1, KnownPaths DEF Made, GetStates
  <2>3. Final(get.item, FALSE) \in fs'
    BY <1>2, <2>2 DEF Tidy
  <2> QED
    BY <1>1, <1>3, <1>4, <1>12, <2>3 DEF GetStates
<1> QED
  BY <1>6, <1>7, <1>8, <1>9, <1>10, <1>11, <1>12, RequestMoves DEF GetStep, IInv

\* A request that waited for a variation finds it when it is woken, and none is told of an
\* error, for every tree of variations and any number of nodes and jobs.
THEOREM RequestsFind ==
  ASSUME ~MayFail, ~Activates, Deletes = {}
  PROVE  Spec => []GetFinds
<1>1. Init => GetInv
  BY DEF Init, GetInv
<1>2. GetInv => GetFinds
  BY DEF GetInv, GetFinds
<1>3. IInv /\ CalmInv /\ CalmInv' /\ Alone /\ Alone' /\ GetInv /\ [Next]_vars => GetInv'
  BY GetStepInv
<1> QED
  BY <1>1, <1>2, <1>3, CalmAlways, AloneAlways, PTL DEF Spec

=============================================================================
