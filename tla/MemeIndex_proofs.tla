------------------------- MODULE MemeIndex_proofs -------------------------
(***************************************************************************)
(* The queue inside MemeIndex is JobQueue, for any memes, threads, jobs,   *)
(* attempts, crashes and texts: every step of the endpoints, the handlers, *)
(* the rebuild and the process is a step JobQueue takes by itself, or      *)
(* leaves the queue alone.  The steps that hand a meme to the queue take   *)
(* it from what a request remembers, so an invariant says that requests    *)
(* remember memes.                                                         *)
(*                                                                         *)
(* What JobQueue_proofs shows of the queue then holds here (JQ), and from  *)
(* it and from what the handlers do between queue steps follow the         *)
(* properties of the indexes.                                              *)
(***************************************************************************)
EXTENDS MemeIndex, SequenceTheorems, TLAPS

Requests == [op : {"enqueue", "unlink", "row"}, meme : Memes]

RequestsOK ==
    /\ uploading \in Memes \cup {None}
    /\ act \in [Threads -> Requests \cup {Idle}]

-----------------------------------------------------------------------------
LEMMA InitRequests == Init => RequestsOK
BY DEF Init, RequestsOK

\* The handlers, the worker and the rebuild do not touch requests.
LEMMA RequestsUntouched ==
  ASSUME RequestsOK, UNCHANGED <<act, uploading>>
  PROVE  RequestsOK'
BY DEF RequestsOK

\* A thread that has taken its step is idle, or has its next one to take.
LEMMA EditRequests ==
  ASSUME RequestsOK, NEW t \in Threads, NEW m \in Memes, NEW op \in {"enqueue", "unlink", "row"},
         act' = [act EXCEPT ![t] = [op |-> op, meme |-> m]], UNCHANGED uploading
  PROVE  RequestsOK'
<1>1. [op |-> op, meme |-> m] \in Requests  BY DEF Requests
<1>. QED  BY <1>1 DEF RequestsOK

LEMMA IdleRequests ==
  ASSUME RequestsOK, NEW t \in Threads,
         act' = [act EXCEPT ![t] = Idle], UNCHANGED uploading
  PROVE  RequestsOK'
BY DEF RequestsOK

LEMMA RequestMeme ==
  ASSUME RequestsOK, NEW t \in Threads, act[t].op \in {"enqueue", "unlink", "row"}
  PROVE  act[t] \in Requests /\ act[t].meme \in Memes
<1>1. Idle.op = "idle"  BY DEF Idle
<1>2. act[t] \in Requests  BY <1>1 DEF RequestsOK
<1>. QED  BY <1>2 DEF Requests

\* What the queue's part of a step is.
QueueStep == Queue!Next \/ UNCHANGED queueVars

Safe == RequestsOK' /\ QueueStep

-----------------------------------------------------------------------------
(* The steps of requests *)

LEMMA UploadFileStep ==
  ASSUME RequestsOK, NEW m \in Memes, UploadFile(m)
  PROVE  Safe
BY DEF UploadFile, RequestsOK, QueueStep, Safe

LEMMA UploadRowStep ==
  ASSUME RequestsOK, NEW withFace \in BOOLEAN, NEW text, UploadRow(withFace, text)
  PROVE  Safe
<1>1. /\ uploading # None /\ uploading' = None /\ act' = act
      /\ Queue!Upload(uploading, withFace)
  BY Zenon DEF UploadRow
<1>2. uploading \in Memes  BY <1>1 DEF RequestsOK
<1>3. QueueStep  BY <1>1, <1>2, Zenon DEF QueueStep, Queue!Next
<1>4. RequestsOK'  BY <1>1 DEF RequestsOK
<1>. QED  BY <1>3, <1>4 DEF Safe

LEMMA UploadPipelineStep ==
  ASSUME RequestsOK, UploadPipeline
  PROVE  Safe
<1>1. Queue!PipelineEnqueue \/ Queue!PipelineAborts  BY Zenon DEF UploadPipeline
<1>2. UNCHANGED <<act, uploading>>  BY Zenon DEF UploadPipeline, control
<1>. QED  BY <1>1, <1>2, RequestsUntouched, Zenon DEF Safe, QueueStep, Queue!Next

LEMMA EditStep ==
  ASSUME RequestsOK, NEW t \in Threads, NEW m \in Memes, NEW text, Edit(t, m, text)
  PROVE  Safe
<1>1. /\ act' = [act EXCEPT ![t] = [op |-> "enqueue", meme |-> m]]
      /\ UNCHANGED uploading /\ UNCHANGED queueVars
  BY Zenon DEF Edit
<1>. QED  BY <1>1, EditRequests DEF Safe, QueueStep

LEMMA EditEnqueueStep ==
  ASSUME RequestsOK, NEW t \in Threads, EditEnqueue(t)
  PROVE  Safe
<1>1. /\ act[t].op = "enqueue" /\ act' = [act EXCEPT ![t] = Idle] /\ UNCHANGED uploading
      /\ Queue!EnqueueCommit(t, act[t].meme) \/ UNCHANGED queueVars
  BY Zenon DEF EditEnqueue
<1>2. act[t].meme \in Memes  BY <1>1, RequestMeme
<1>3. QueueStep  BY <1>1, <1>2, Zenon DEF QueueStep, Queue!Next
<1>. QED  BY <1>1, <1>3, IdleRequests DEF Safe

LEMMA EnqueuePutStep ==
  ASSUME RequestsOK, NEW t \in Threads, EnqueuePut(t)
  PROVE  Safe
<1>1. Queue!EnqueuePut(t) /\ UNCHANGED <<act, uploading>>  BY Zenon DEF EnqueuePut, control
<1>. QED  BY <1>1, RequestsUntouched, Zenon DEF Safe, QueueStep, Queue!Next

LEMMA DeletePointStep ==
  ASSUME RequestsOK, NEW t \in Threads, NEW m \in Memes, DeletePoint(t, m)
  PROVE  Safe
<1>1. /\ act' = [act EXCEPT ![t] = [op |-> "unlink", meme |-> m]]
      /\ UNCHANGED uploading /\ UNCHANGED queueVars
  BY Zenon DEF DeletePoint
<1>. QED  BY <1>1, EditRequests DEF Safe, QueueStep

LEMMA DeleteFileStep ==
  ASSUME RequestsOK, NEW t \in Threads, DeleteFile(t)
  PROVE  Safe
<1>1. /\ act[t].op = "unlink" /\ act' = [act EXCEPT ![t].op = "row"]
      /\ UNCHANGED uploading /\ UNCHANGED queueVars
  BY Zenon DEF DeleteFile
<1>2. act[t] \in Requests  BY <1>1, RequestMeme
<1>3. [act[t] EXCEPT !.op = "row"] \in Requests  BY <1>2 DEF Requests
<1>4. RequestsOK'  BY <1>1, <1>3 DEF RequestsOK
<1>. QED  BY <1>1, <1>4 DEF Safe, QueueStep

LEMMA DeleteRowStep ==
  ASSUME RequestsOK, NEW t \in Threads, DeleteRow(t)
  PROVE  Safe
<1>1. /\ act[t].op = "row" /\ act' = [act EXCEPT ![t] = Idle] /\ UNCHANGED uploading
      /\ Queue!DeleteMeme(act[t].meme) \/ UNCHANGED queueVars
  BY Zenon DEF DeleteRow
<1>2. act[t].meme \in Memes  BY <1>1, RequestMeme
<1>3. QueueStep  BY <1>1, <1>2, Zenon DEF QueueStep, Queue!Next
<1>. QED  BY <1>1, <1>3, IdleRequests DEF Safe

-----------------------------------------------------------------------------
(* The steps of the event loop, the worker, its handlers and the process *)

LEMMA LoopStep ==
  ASSUME RequestsOK, Deliver \/ WorkerTake \/ WorkerStops
  PROVE  Safe
<1>1. Queue!Deliver \/ Queue!WorkerTake \/ Queue!WorkerStops
  BY Zenon DEF Deliver, WorkerTake, WorkerStops
<1>2. UNCHANGED <<act, uploading>>  BY Zenon DEF Deliver, WorkerTake, WorkerStops, control
<1>. QED  BY <1>1, <1>2, RequestsUntouched, Zenon DEF Safe, QueueStep, Queue!Next

LEMMA WorkerFinishStep ==
  ASSUME RequestsOK, WorkerFinish
  PROVE  Safe
<1>1. Queue!HandlerSucceeds \/ Queue!HandlerRetries \/ Queue!HandlerGivesUp
  BY Zenon DEF WorkerFinish
<1>2. UNCHANGED <<act, uploading>>  BY Zenon DEF WorkerFinish
<1>. QED  BY <1>1, <1>2, RequestsUntouched, Zenon DEF Safe, QueueStep, Queue!Next

LEMMA HandlerStep ==
  ASSUME RequestsOK, HandlerSteps
  PROVE  Safe
<1>1. UNCHANGED HandlerRest
  <2>1. CASE ReadImage  BY <2>1, Zenon DEF ReadImage
  <2>2. CASE WriteCaption  BY <2>2, Zenon DEF WriteCaption
  <2>3. CASE OcrRead  BY <2>3, Zenon DEF OcrRead
  <2>4. CASE Face  BY <2>4, Zenon DEF Face
  <2>5. CASE \E found \in BOOLEAN : OcrWrite(found)  BY <2>5, Zenon DEF OcrWrite
  <2>6. CASE EmbedRead  BY <2>6, Zenon DEF EmbedRead
  <2>7. CASE EmbedUpsert  BY <2>7, Zenon DEF EmbedUpsert
  <2>8. CASE EmbedLog  BY <2>8, Zenon DEF EmbedLog
  <2>9. CASE HandlerRaises  BY <2>9, Zenon DEF HandlerRaises
  <2>. QED
    BY <2>1, <2>2, <2>3, <2>4, <2>5, <2>6, <2>7, <2>8, <2>9, Zenon DEF HandlerSteps
<1>. QED  BY <1>1, RequestsUntouched DEF HandlerRest, Safe, QueueStep

LEMMA StartUpStep ==
  ASSUME RequestsOK, StartUp, UNCHANGED <<data, control>>
  PROVE  Safe
<1>1. Queue!Start \/ Queue!RequeueNext \/ Queue!Serve  BY Zenon DEF StartUp
<1>2. UNCHANGED <<act, uploading>>  BY Zenon DEF control
<1>. QED  BY <1>1, <1>2, RequestsUntouched, Zenon DEF Safe, QueueStep, Queue!Next

LEMMA BeginShutdownStep ==
  ASSUME RequestsOK, BeginShutdown
  PROVE  Safe
<1>1. Queue!BeginShutdown /\ UNCHANGED <<act, uploading>>  BY Zenon DEF BeginShutdown, control
<1>. QED  BY <1>1, RequestsUntouched, Zenon DEF Safe, QueueStep, Queue!Next

\* A crash forgets the requests.
LEMMA CrashStep ==
  ASSUME Crash
  PROVE  Safe
<1>1. /\ Queue!Crash /\ act' = [t \in Threads |-> Idle] /\ uploading' = None
  BY Zenon DEF Crash
<1>2. RequestsOK'  BY <1>1 DEF RequestsOK
<1>. QED  BY <1>1, <1>2, Zenon DEF Safe, QueueStep, Queue!Next

LEMMA ReindexStep ==
  ASSUME RequestsOK, ReindexDrop \/ ReindexMeme \/ ReindexEnds
  PROVE  Safe
<1>1. UNCHANGED <<act, uploading>> /\ UNCHANGED queueVars
  BY Zenon DEF ReindexDrop, ReindexMeme, ReindexEnds
<1>. QED  BY <1>1, RequestsUntouched DEF Safe, QueueStep

-----------------------------------------------------------------------------
LEMMA NextSafe == RequestsOK /\ [Next]_vars => Safe
<1> SUFFICES ASSUME RequestsOK, [Next]_vars PROVE Safe  OBVIOUS
<1>1. CASE RefreshFts
  BY <1>1, RequestsUntouched DEF RefreshFts, Safe, QueueStep
<1>2. CASE Crash  BY <1>2, CrashStep
<1>3. CASE \E m \in Memes : UploadFile(m)  BY <1>3, UploadFileStep
<1>4. CASE \E withFace \in BOOLEAN, text \in UserTexts \cup {NoText} : UploadRow(withFace, text)
  BY <1>4, UploadRowStep
<1>5. CASE UploadPipeline  BY <1>5, UploadPipelineStep
<1>6. CASE \E t \in Threads, m \in Memes, text \in UserTexts \cup {NoText} : Edit(t, m, text)
  BY <1>6, EditStep
<1>7. CASE \E t \in Threads : EditEnqueue(t) \/ EnqueuePut(t)
  BY <1>7, EditEnqueueStep, EnqueuePutStep
<1>8. CASE \E t \in Threads, m \in Memes : DeletePoint(t, m)  BY <1>8, DeletePointStep
<1>9. CASE \E t \in Threads : DeleteFile(t) \/ DeleteRow(t)
  BY <1>9, DeleteFileStep, DeleteRowStep
<1>10. CASE Deliver \/ WorkerTake \/ WorkerStops  BY <1>10, LoopStep
<1>11. CASE WorkerFinish  BY <1>11, WorkerFinishStep
<1>12. CASE HandlerSteps  BY <1>12, HandlerStep
<1>13. CASE StartUp /\ UNCHANGED <<data, control>>  BY <1>13, StartUpStep
<1>14. CASE BeginShutdown  BY <1>14, BeginShutdownStep
<1>15. CASE ReindexDrop \/ ReindexMeme \/ ReindexEnds  BY <1>15, ReindexStep
<1>16. CASE UNCHANGED vars
  BY <1>16, RequestsUntouched DEF vars, control, Safe, QueueStep
<1>. QED
  BY <1>1, <1>2, <1>3, <1>4, <1>5, <1>6, <1>7, <1>8, <1>9, <1>10, <1>11, <1>12, <1>13,
     <1>14, <1>15, <1>16, Zenon
  DEF Next

(* Whatever a request remembers of a meme, it remembers of one that is in   *)
(* the model: jobs and deletions are for memes.                             *)
THEOREM RequestsKeep == Spec => []RequestsOK
<1>1. RequestsOK /\ [Next]_vars => RequestsOK'  BY NextSafe DEF Safe
<1>. QED  BY InitRequests, <1>1, PTL DEF Spec

(* The queue with the data around it behaves as JobQueue specifies, so what *)
(* JobQueue_proofs shows of the queue holds beside uploads, edits,          *)
(* deletions, handlers and the rebuild (app.py 117-174, 231-320, 455-484;   *)
(* jobs.py; reindex.py).                                                    *)
THEOREM QueueIsRefined == Spec => QueueSpec
<1>1. Init => Queue!Init  BY Zenon DEF Init
<1>2. RequestsOK /\ [Next]_vars => [Queue!Next]_(Queue!vars)
  BY NextSafe DEF Safe, QueueStep, queueVars, Queue!vars
<1>. QED  BY <1>1, <1>2, RequestsKeep, PTL DEF Spec, QueueSpec, Queue!Spec

-----------------------------------------------------------------------------
(* What JobQueue_proofs shows of the queue *)

JQ == INSTANCE JobQueue_proofs

LEMMA QueueAssumptions ==
    /\ JQ!MaxJobsAssumption /\ JQ!NoRowAssumption
    /\ JQ!BoundsAssumption /\ JQ!NoneAssumption
BY MaxJobsAssumption, NoRowAssumption, FaultsAssumption, AttemptsAssumption, NoJobAssumption
   DEF JQ!MaxJobsAssumption, JQ!NoRowAssumption, JQ!BoundsAssumption, JQ!NoneAssumption,
       JQ!Job, JQ!JobIds, JQ!JobTypes, JQ!PipelineTypes, JQ!Row, JQ!Statuses,
       JobIds, JobTypes, PipelineTypes, Row, Statuses

\* The proofs instantiate the module the model instantiates.
LEMMA SameQueue ==
    /\ Queue!Init => JQ!Init
    /\ Queue!Next => JQ!Next
    /\ [Queue!Next]_(Queue!vars) => [JQ!Next]_(JQ!vars)
    /\ JQ!IInv => Queue!IInv
    /\ Queue!IInv => JQ!IInv
<1>1. Queue!Init => JQ!Init
  BY Zenon DEF Queue!Init, JQ!Init, Queue!JobIds, JQ!JobIds
<1>2. Queue!Next => JQ!Next
  BY Zenon DEF Queue!Next, JQ!Next, Queue!Start, JQ!Start, Queue!RequeueNext, JQ!RequeueNext,
     Queue!Serve, JQ!Serve, Queue!BeginShutdown, JQ!BeginShutdown, Queue!ShutdownFails,
     JQ!ShutdownFails, Queue!Crash, JQ!Crash, Queue!Upload, JQ!Upload, Queue!PipelineEnqueue,
     JQ!PipelineEnqueue, Queue!PipelineAborts, JQ!PipelineAborts, Queue!EnqueueCommit,
     JQ!EnqueueCommit, Queue!EnqueuePut, JQ!EnqueuePut, Queue!Deliver, JQ!Deliver,
     Queue!DeleteMeme, JQ!DeleteMeme, Queue!WorkerTake, JQ!WorkerTake, Queue!HandlerSucceeds,
     JQ!HandlerSucceeds, Queue!HandlerRetries, JQ!HandlerRetries, Queue!HandlerGivesUp,
     JQ!HandlerGivesUp, Queue!WorkerStops, JQ!WorkerStops, Queue!WorkerDies, JQ!WorkerDies,
     Queue!table, JQ!table, Queue!worker, JQ!worker, Queue!inbox, JQ!inbox, Queue!life, JQ!life,
     Queue!LoseMemory, JQ!LoseMemory, Queue!Room, JQ!Room, Queue!CreateJob, JQ!CreateJob,
     Queue!UpdateJob, JQ!UpdateJob, Queue!PipelineOf, JQ!PipelineOf, Queue!WorkerTurn,
     JQ!WorkerTurn, Queue!JobIds, JQ!JobIds, Queue!Unfinished, JQ!Unfinished,
     Queue!UnfinishedIn, JQ!UnfinishedIn, Queue!WithStatus, JQ!WithStatus
<1>3. [Queue!Next]_(Queue!vars) => [JQ!Next]_(JQ!vars)
  BY <1>2 DEF Queue!vars, JQ!vars
<1>4. (JQ!IInv => Queue!IInv) /\ (Queue!IInv => JQ!IInv)
  BY Zenon DEF JQ!IInv, Queue!IInv, JQ!MemoryInv, Queue!MemoryInv, JQ!TypeOK, Queue!TypeOK,
     JQ!PhaseInv, Queue!PhaseInv, JQ!RequeueInv, Queue!RequeueInv, JQ!FreshInv, Queue!FreshInv,
     JQ!RowIdentity, Queue!RowIdentity, JQ!HeldOnce, Queue!HeldOnce, JQ!HeldInv, Queue!HeldInv,
     JQ!NothingForgotten, Queue!NothingForgotten, JQ!OrderInv, Queue!OrderInv,
     JQ!CleanStopDrains, Queue!CleanStopDrains, JQ!RowsHaveMemes, Queue!RowsHaveMemes,
     JQ!LeftoverInv, Queue!LeftoverInv, JQ!PipelineInv, Queue!PipelineInv,
     JQ!Held, Queue!Held, JQ!InQueue, Queue!InQueue, JQ!InReady, Queue!InReady, JQ!InHands,
     Queue!InHands, JQ!InWorker, Queue!InWorker, JQ!HeldJobs, Queue!HeldJobs, JQ!Unfinished,
     Queue!Unfinished, JQ!Finished, Queue!Finished, JQ!UnfinishedIn, Queue!UnfinishedIn,
     JQ!FinishedIn, Queue!FinishedIn, JQ!Job, Queue!Job, JQ!Step, Queue!Step, JQ!Row, Queue!Row,
     JQ!JobIds, Queue!JobIds, JQ!JobTypes, Queue!JobTypes, JQ!PipelineTypes,
     Queue!PipelineTypes, JQ!Statuses, Queue!Statuses
<1>. QED  BY <1>1, <1>2, <1>3, <1>4

LEMMA QueueInvariant == Spec => []Queue!IInv
<1>1. JQ!Spec => []JQ!IInv  BY JQ!Inductive, QueueAssumptions
<1>2. Queue!Spec => JQ!Spec  BY SameQueue, PTL DEF Queue!Spec, JQ!Spec
<1>. QED  BY <1>1, <1>2, QueueIsRefined, SameQueue, PTL DEF QueueSpec

LEMMA NewJobsHaveRows ==
  ASSUME Queue!IInv, [Queue!Next]_(Queue!vars)
  PROVE  \A job \in Queue!HeldJobs' : job \in Queue!HeldJobs \/ jobs'[job.id] # None
<1>1. JQ!IInv /\ [JQ!Next]_(JQ!vars)  BY SameQueue
<1>2. \A job \in JQ!HeldJobs' : job \in JQ!HeldJobs \/ jobs'[job.id] # None
  BY <1>1, JQ!NewJobsHaveRows, QueueAssumptions
<1>. QED  BY <1>2 DEF JQ!HeldJobs, Queue!HeldJobs

-----------------------------------------------------------------------------
(* What a step does to rows, memes and the pipeline *)

RowAdded(m, type) ==
    /\ nextId \in JobIds /\ jobs[nextId] = None
    /\ jobs'[nextId] # None
    /\ jobs'[nextId].meme = m /\ jobs'[nextId].type = type /\ jobs'[nextId].status = "PENDING"
    /\ \A i \in JobIds : i # nextId => jobs'[i] = jobs[i]

RowUpdated(c, status) ==
    /\ c \in JobIds
    /\ \A i \in JobIds : i # c => jobs'[i] = jobs[i]
    /\ jobs'[c] = None <=> jobs[c] = None
    /\ jobs[c] # None => /\ jobs'[c].meme = jobs[c].meme /\ jobs'[c].type = jobs[c].type
                         /\ jobs'[c].status = status

SameTable == UNCHANGED <<memes, jobs, nextId>>

LEMMA SameIds == Queue!JobIds = JobIds
BY DEF Queue!JobIds, JobIds

LEMMA QueueTypes ==
  ASSUME Queue!IInv
  PROVE  /\ memes \subseteq Memes
         /\ \A i \in JobIds : jobs[i] # None =>
              /\ jobs[i].meme \in Memes /\ jobs[i].meme \in memes
              /\ jobs[i].status \in {"PENDING", "RUNNING", "DONE", "ERROR"}
         /\ nextId \in Nat /\ \A i \in JobIds : i >= nextId => jobs[i] = None
         /\ current # None => current.id \in JobIds /\ current.meme \in Memes
         /\ pipeline \in Seq([meme : Memes, type : {"CAPTION", "OCR", "FACE", "EMBED"}])
<1>1. Queue!TypeOK /\ Queue!FreshInv /\ Queue!RowsHaveMemes
  BY DEF Queue!IInv, Queue!MemoryInv
<1>2. memes \subseteq Memes  BY <1>1 DEF Queue!TypeOK
<1>3. \A i \in JobIds : jobs[i] # None =>
        /\ jobs[i].meme \in Memes /\ jobs[i].meme \in memes
        /\ jobs[i].status \in {"PENDING", "RUNNING", "DONE", "ERROR"}
  BY <1>1, SameIds DEF Queue!TypeOK, Queue!RowsHaveMemes, Queue!Row, Queue!Statuses
<1>4. nextId \in Nat /\ \A i \in JobIds : i >= nextId => jobs[i] = None
  BY <1>1, SameIds DEF Queue!TypeOK, Queue!FreshInv
<1>5. current # None => current.id \in JobIds /\ current.meme \in Memes
  BY <1>1, SameIds DEF Queue!TypeOK, Queue!Job
<1>6. pipeline \in Seq([meme : Memes, type : {"CAPTION", "OCR", "FACE", "EMBED"}])
  BY <1>1 DEF Queue!TypeOK, Queue!Step, Queue!PipelineTypes
<1>. QED  BY <1>2, <1>3, <1>4, <1>5, <1>6

\* The row of the running job is its own and is running.
LEMMA RunningRow ==
  ASSUME Queue!IInv, current # None, jobs[current.id] # None
  PROVE  /\ jobs[current.id].meme = current.meme /\ jobs[current.id].type = current.type
         /\ jobs[current.id].status = "RUNNING"
<1>1. current \in Queue!HeldJobs  BY DEF Queue!HeldJobs
<1>. QED  BY <1>1 DEF Queue!IInv, Queue!MemoryInv, Queue!RowIdentity, Queue!HeldInv

LEMMA CreateJobEffect ==
  ASSUME Queue!IInv, NEW m \in Memes, NEW type \in JobTypes, Queue!CreateJob(m, type)
  PROVE  RowAdded(m, type)
<1> DEFINE new == [meme |-> m, type |-> type, status |-> "PENDING", attempts |-> 0]
<1>1. nextId \in JobIds /\ jobs' = [jobs EXCEPT ![nextId] = new] /\ jobs[nextId] = None
  BY QueueTypes, SameIds DEF Queue!CreateJob
<1>2. DOMAIN jobs = JobIds
  BY SameIds DEF Queue!IInv, Queue!MemoryInv, Queue!TypeOK
<1>3. new \in Row  BY DEF Row, Statuses
<1>4. new # None  BY <1>3, NoRowAssumption
<1>. QED  BY <1>1, <1>2, <1>4 DEF RowAdded

-----------------------------------------------------------------------------
(* Jobs in memory *)

LEMMA HeldJobsTyped ==
  ASSUME Queue!IInv
  PROVE  \A job \in Queue!HeldJobs : job.id \in JobIds /\ job.meme \in Memes /\ job # None
<1>1. JQ!TypeOK  BY SameQueue DEF JQ!IInv, JQ!MemoryInv
<1>2. \A job \in JQ!HeldJobs : job \in JQ!Job /\ job.id \in JQ!JobIds
  BY <1>1, JQ!HeldJobsType, QueueAssumptions
<1>. QED  BY <1>2 DEF JQ!HeldJobs, Queue!HeldJobs, JQ!Job, JQ!JobIds, JobIds

\* Other threads put nothing but RE_EMBED: text jobs are queued or running.
LEMMA TextJobsQueued ==
  ASSUME Queue!IInv, NEW job \in Queue!HeldJobs, job.type \in TextTypes
  PROVE  job = current \/ \E k \in DOMAIN queue : queue[k] = job
<1>1. Queue!OrderInv  BY DEF Queue!IInv, Queue!MemoryInv
<1>2. job \notin {ready[k] : k \in DOMAIN ready}  BY <1>1 DEF Queue!OrderInv, TextTypes
<1>3. job \notin {hands[t] : t \in Threads}
  BY <1>1, HeldJobsTyped DEF Queue!OrderInv, TextTypes
<1>. QED  BY <1>2, <1>3 DEF Queue!HeldJobs

LEMMA QueuedBehindRunning ==
  ASSUME Queue!IInv, current # None, NEW job \in Queue!HeldJobs, job.type \in TextTypes,
         job # current
  PROVE  current.id < job.id
<1>1. PICK k \in DOMAIN queue : queue[k] = job  BY TextJobsQueued
<1>2. job # None  BY HeldJobsTyped
<1>. QED
  BY <1>1, <1>2 DEF Queue!IInv, Queue!MemoryInv, Queue!OrderInv, TextTypes, Queue!PipelineTypes

\* The text jobs of any meme are run in the order of their ids.
LEMMA TextJobsBehind ==
  ASSUME Queue!IInv, server \in {"serving", "stopping"}, workerUp, current # None,
         NEW m, NEW x \in TextJobs(m)
  PROVE  x = current.id \/ current.id < x
<1>1. CASE x \in {job.id : job \in LeftTextJobs(m)}
  BY <1>1, QueuedBehindRunning DEF LeftTextJobs
<1>2. CASE x \in RowsOf(m, TextTypes) /\ Queue!Unfinished(x)
  <2>1. x \in JobIds /\ jobs[x] # None /\ jobs[x].type \in TextTypes
    BY <1>2 DEF RowsOf
  <2>2. Queue!Held(x)
    BY <1>2, <2>1, SameIds DEF Queue!IInv, Queue!MemoryInv, Queue!NothingForgotten
  <2>3. PICK job \in Queue!HeldJobs : job.id = x
    <3>1. Queue!TypeOK  BY DEF Queue!IInv, Queue!MemoryInv
    <3>2. \A k \in DOMAIN ready : ready[k] \in Queue!Job
      BY <3>1 DEF Queue!TypeOK
    <3>3. \A k \in DOMAIN ready : ready[k] # None
      BY <3>2, NoJobAssumption, SameIds DEF Queue!Job, Queue!JobTypes, JobTypes,
         Queue!PipelineTypes, PipelineTypes
    <3>. QED
      BY <2>2, <3>3 DEF Queue!Held, Queue!InQueue, Queue!InReady, Queue!InHands, Queue!InWorker,
         Queue!HeldJobs
  <2>4. job.type \in TextTypes
    BY <2>1, <2>3 DEF Queue!IInv, Queue!MemoryInv, Queue!RowIdentity
  <2>. QED  BY <2>3, <2>4, QueuedBehindRunning
<1>. QED  BY <1>1, <1>2 DEF TextJobs

\* While a row of a meme runs, no text job is left of an earlier life of it.
LEMMA NoLeftWhenRunning ==
  ASSUME Queue!IInv, current # None, jobs[current.id] # None
  PROVE  LeftTextJobs(current.meme) = {}
<1> SUFFICES ASSUME NEW job \in LeftTextJobs(current.meme) PROVE FALSE  OBVIOUS
<1>1. /\ job \in Queue!HeldJobs /\ job.type \in TextTypes /\ jobs[job.id] = None
      /\ job.meme = current.meme
  BY DEF LeftTextJobs
<1>2. current.id < job.id  BY <1>1, QueuedBehindRunning
<1>3. current.id \in JobIds /\ job.id \in JobIds  BY <1>1, QueueTypes, HeldJobsTyped
<1>4. jobs[current.id].meme = job.meme  BY <1>1, RunningRow
<1>5. job.id < current.id
  BY <1>1, <1>3, <1>4, SameIds DEF Queue!IInv, Queue!LeftoverInv
<1>. QED  BY <1>2, <1>3, <1>5, MaxJobsAssumption DEF JobIds

\* A process that does not run holds nothing.
LEMMA NothingHeldDown ==
  ASSUME Queue!IInv, server \in {"down", "stopped"}
  PROVE  current = None /\ \A m : LeftTextJobs(m) = {}
<1>1. /\ current = None /\ queue = <<>> /\ ready = <<>>
      /\ \A t \in Threads : hands[t] = None
  BY DEF Queue!IInv, Queue!MemoryInv, Queue!PhaseInv
<1>2. Queue!HeldJobs = {}  BY <1>1 DEF Queue!HeldJobs
<1>. QED  BY <1>1, <1>2 DEF LeftTextJobs

\* No job is left of a meme but by deleting it.
LEMMA LeftStay ==
  ASSUME Queue!IInv, Queue!IInv', [Queue!Next]_(Queue!vars), NEW m \in memes',
         \A i \in JobIds : jobs[i] # None /\ jobs[i].meme \in memes' => jobs'[i] # None
  PROVE  LeftTextJobs(m)' \subseteq LeftTextJobs(m)
<1> SUFFICES ASSUME NEW job \in LeftTextJobs(m)' PROVE job \in LeftTextJobs(m)  OBVIOUS
<1>1. /\ job \in Queue!HeldJobs' /\ job.meme = m /\ job.type \in TextTypes
      /\ jobs'[job.id] = None
  BY DEF LeftTextJobs
<1>2. job \in Queue!HeldJobs  BY <1>1, NewJobsHaveRows
<1>3. job.id \in JobIds  BY <1>2, HeldJobsTyped
<1>4. jobs[job.id] # None => jobs[job.id].meme = m
  BY <1>1, <1>2 DEF Queue!IInv, Queue!MemoryInv, Queue!RowIdentity
<1>5. jobs[job.id] = None  BY <1>1, <1>3, <1>4
<1>. QED  BY <1>1, <1>2, <1>5 DEF LeftTextJobs


-----------------------------------------------------------------------------
(* Types of the data *)

Phases == {"idle", "begin", "image", "read", "log", "ok", "failed"}

DataTypes ==
    /\ meta \in [Memes -> Metadata \cup {None}]
    /\ fts \in [Memes -> Metadata \cup {None}]
    /\ files \subseteq Memes
    /\ point \in [Memes -> Metadata \cup {None}]
    /\ ftsDue \in Memes \cup {None}
    /\ work \in [phase : Phases, seen : Metadata \cup {None}]
    /\ excused \in [Memes -> SUBSET Places]

Rebuilding == rebuild # None => rebuild \subseteq memes /\ server \in {"down", "stopped"}

MetaRows == memes = {m \in Memes : meta[m] # None}

LEMMA TypeParts ==
    /\ TypeOK => RequestsOK /\ DataTypes /\ Rebuilding /\ MetaRows
    /\ Queue!IInv /\ RequestsOK /\ DataTypes /\ Rebuilding /\ MetaRows => TypeOK
BY Zenon DEF TypeOK, RequestsOK, Requests, DataTypes, Rebuilding, MetaRows, Phases,
   Queue!IInv, Queue!MemoryInv

LEMMA InitTypes == Init => DataTypes /\ Rebuilding /\ MetaRows
<1> SUFFICES ASSUME Init PROVE DataTypes /\ Rebuilding /\ MetaRows  OBVIOUS
<1>1. memes = {}  BY DEF Init, Queue!Init
<1>2. NoWork \in [phase : Phases, seen : Metadata \cup {None}]  BY DEF NoWork, Phases
<1>. QED  BY <1>1, <1>2 DEF Init, DataTypes, Rebuilding, MetaRows

\* What a step starts from, and what is known of its end already.
Stepping ==
    /\ Queue!IInv /\ Queue!IInv'
    /\ RequestsOK /\ DataTypes /\ Rebuilding /\ MetaRows
    /\ RequestsOK' /\ [Queue!Next]_(Queue!vars)

\* An update leaves every meme its row.
LEMMA UpdateTypes ==
  ASSUME DataTypes, NEW m \in Memes, NEW c, meta[m] # None => c \in Metadata,
         UpdateMetadata(m, c)
  PROVE  /\ meta' \in [Memes -> Metadata \cup {None}] /\ ftsDue' \in Memes \cup {None}
         /\ \A n \in Memes : meta'[n] = None <=> meta[n] = None
         /\ \A n \in Memes : n # m => meta'[n] = meta[n]
BY NoMetadataAssumption DEF DataTypes, UpdateMetadata

LEMMA GotoTypes ==
  ASSUME DataTypes, NEW phase \in Phases, Goto(phase)
  PROVE  /\ work' \in [phase : Phases, seen : Metadata \cup {None}]
         /\ work'.phase = phase /\ work'.seen = work.seen
BY DEF DataTypes, Goto

LEMMA ExcusedTypes ==
  ASSUME DataTypes
  PROVE  /\ \A ms, places : places \subseteq Places => Excuse(ms, places) \in [Memes -> SUBSET Places]
         /\ \A m, places : Redone(m, places) => excused' \in [Memes -> SUBSET Places]
<1>1. \A m \in Memes : excused[m] \subseteq Places  BY DEF DataTypes
<1>2. \A ms, places : places \subseteq Places => Excuse(ms, places) \in [Memes -> SUBSET Places]
  BY <1>1 DEF Excuse
<1>3. \A m, places : Redone(m, places) => excused' \in [Memes -> SUBSET Places]
  BY <1>1 DEF Redone, DataTypes
<1>. QED  BY <1>2, <1>3

Typed == DataTypes' /\ Rebuilding' /\ MetaRows'

\* Steps that neither add a meme nor remove one, nor start the server.
LEMMA SameMemes ==
  ASSUME Stepping, UNCHANGED <<memes, rebuild>>, server' = server,
         \A m \in Memes : meta'[m] = None <=> meta[m] = None
  PROVE  Rebuilding' /\ MetaRows'
BY DEF Stepping, Rebuilding, MetaRows

LEMMA QueueStepTypes ==
  ASSUME Stepping, UNCHANGED <<data, control>>,
         \/ UploadPipeline \/ Deliver \/ WorkerStops \/ StartUp \/ BeginShutdown
         \/ \E t \in Threads : EnqueuePut(t)
  PROVE  Typed
<1>1. memes' = memes
  BY DEF UploadPipeline, Deliver, WorkerStops, StartUp, BeginShutdown, EnqueuePut,
     Queue!PipelineEnqueue, Queue!PipelineAborts, Queue!Deliver, Queue!WorkerStops, Queue!Start,
     Queue!RequeueNext, Queue!Serve, Queue!BeginShutdown, Queue!EnqueuePut, Queue!table
<1>2. rebuild # None => server' \in {"down", "stopped"}
  BY DEF Stepping, Rebuilding, UploadPipeline, Deliver, WorkerStops, StartUp, BeginShutdown,
     EnqueuePut, Queue!PipelineEnqueue, Queue!PipelineAborts, Queue!Deliver, Queue!WorkerStops,
     Queue!BeginShutdown, Queue!EnqueuePut, Queue!WorkerTurn, Queue!life
<1>3. UNCHANGED <<meta, fts, files, point, ftsDue, work, rebuild, excused>>  BY DEF data, control
<1>. QED  BY <1>1, <1>2, <1>3 DEF Typed, Stepping, DataTypes, Rebuilding, MetaRows


LEMMA RequestTypes ==
  ASSUME Stepping,
         \/ RefreshFts
         \/ \E m \in Memes : UploadFile(m)
         \/ \E t \in Threads, m \in Memes, text \in UserTexts \cup {NoText} : Edit(t, m, text)
         \/ \E t \in Threads : EditEnqueue(t)
         \/ \E t \in Threads, m \in Memes : DeletePoint(t, m)
         \/ \E t \in Threads : DeleteFile(t)
  PROVE  Typed
<1>1. CASE RefreshFts
  <2>1. fts' \in [Memes -> Metadata \cup {None}]
    BY <1>1 DEF RefreshFts, Stepping, DataTypes
  <2>2. UNCHANGED <<memes, server>>  BY <1>1 DEF RefreshFts, queueVars
  <2>. QED  BY <1>1, <2>1, <2>2, SameMemes DEF RefreshFts, Stepping, DataTypes, Typed
<1>2. CASE \E m \in Memes : UploadFile(m)
  <2>1. UNCHANGED <<memes, server>>  BY <1>2 DEF UploadFile, queueVars
  <2>. QED  BY <1>2, <2>1, SameMemes DEF UploadFile, Stepping, DataTypes, Typed
<1>3. ASSUME NEW t \in Threads, NEW m \in Memes, NEW text \in UserTexts \cup {NoText},
             Edit(t, m, text)
      PROVE  Typed
  <2>1. meta[m] \in Metadata  BY <1>3 DEF Edit, Stepping, MetaRows, DataTypes
  <2>2. [meta[m] EXCEPT !.text = text] \in Metadata  BY <2>1 DEF Metadata, Texts
  <2>3. UNCHANGED <<memes, server, rebuild, fts, files, point, work>>
    BY <1>3 DEF Edit, queueVars
  <2>4. DataTypes /\ UpdateMetadata(m, [meta[m] EXCEPT !.text = text])
    BY <1>3 DEF Edit, Stepping
  <2>5. /\ meta' \in [Memes -> Metadata \cup {None}] /\ ftsDue' \in Memes \cup {None}
        /\ \A n \in Memes : meta'[n] = None <=> meta[n] = None
    BY <2>2, <2>4, UpdateTypes
  <2>6. excused' \in [Memes -> SUBSET Places]  BY <1>3, <2>4, ExcusedTypes DEF Edit
  <2>. QED  BY <2>3, <2>4, <2>5, <2>6, SameMemes DEF DataTypes, Typed
<1>4. CASE \E t \in Threads : EditEnqueue(t)
  <2>1. UNCHANGED <<memes, server>> /\ UNCHANGED <<data, ftsDue, work, rebuild, excused>>
    BY <1>4 DEF EditEnqueue, queueVars, Queue!EnqueueCommit, Queue!life
  <2>. QED  BY <2>1, SameMemes DEF data, Stepping, DataTypes, Typed
<1>5. CASE \E t \in Threads, m \in Memes : DeletePoint(t, m)
  <2>1. UNCHANGED <<memes, server, meta, fts, files, ftsDue, work, rebuild, excused>>
    BY <1>5 DEF DeletePoint, queueVars
  <2>2. point' \in [Memes -> Metadata \cup {None}]
    BY <1>5 DEF DeletePoint, Stepping, DataTypes
  <2>. QED  BY <2>1, <2>2, SameMemes DEF Stepping, DataTypes, Typed
<1>6. CASE \E t \in Threads : DeleteFile(t)
  <2>1. UNCHANGED <<memes, server, meta, fts, point, ftsDue, work, rebuild, excused>>
    BY <1>6 DEF DeleteFile, queueVars
  <2>2. files' \subseteq Memes  BY <1>6 DEF DeleteFile, Stepping, DataTypes
  <2>. QED  BY <2>1, <2>2, SameMemes DEF Stepping, DataTypes, Typed
<1>. QED  BY <1>1, <1>2, <1>3, <1>4, <1>5, <1>6

LEMMA UploadRowTypes ==
  ASSUME Stepping, NEW withFace \in BOOLEAN, NEW text \in UserTexts \cup {NoText},
         UploadRow(withFace, text)
  PROVE  Typed /\ meta'[uploading] # None /\ uploading \in Memes
<1> DEFINE old == meta[uploading]
           row == IF old = None THEN Empty ELSE old
           new == IF text = NoText THEN row ELSE [row EXCEPT !.text = text]
<1>1. /\ uploading \in Memes /\ DataTypes /\ Rebuilding /\ MetaRows
      /\ memes' = memes \cup {uploading} /\ server = "serving"
  BY DEF UploadRow, Queue!Upload, Stepping, RequestsOK
<1>2. row \in Metadata  BY <1>1 DEF DataTypes, Empty, Metadata, Texts
<1>3. new \in Metadata  BY <1>2 DEF Metadata, Texts
<1>4. meta' = [meta EXCEPT ![uploading] = new]  BY DEF UploadRow
<1>5. /\ meta' \in [Memes -> Metadata \cup {None}] /\ meta'[uploading] # None
      /\ \A m \in Memes : m # uploading => meta'[m] = meta[m]
  BY <1>1, <1>3, <1>4, NoMetadataAssumption DEF DataTypes
<1>6. MetaRows'  BY <1>1, <1>5 DEF MetaRows
<1>7. Rebuilding'  BY <1>1 DEF UploadRow, Rebuilding
<1>8. excused' \in [Memes -> SUBSET Places]  BY <1>1, ExcusedTypes DEF UploadRow
<1>9. DataTypes'  BY <1>1, <1>5, <1>8 DEF UploadRow, DataTypes
<1>. QED  BY <1>1, <1>5, <1>6, <1>7, <1>9 DEF Typed

LEMMA DeleteRowTypes ==
  ASSUME Stepping, NEW t \in Threads, DeleteRow(t)
  PROVE  /\ Typed
         /\ act[t].meme \in Memes /\ memes' = memes \ {act[t].meme}
         /\ meta'[act[t].meme] = None /\ fts'[act[t].meme] = None
<1> DEFINE m == act[t].meme
<1>1. /\ m \in Memes /\ DataTypes /\ Rebuilding /\ MetaRows
  BY RequestMeme DEF DeleteRow, Stepping
<1>2. memes' = memes \ {m} /\ (memes' = memes \/ server = "serving") /\ server' = server
  BY DEF DeleteRow, Queue!DeleteMeme, queueVars, Queue!life
<1>3. /\ meta' = [meta EXCEPT ![m] = None] /\ fts' = [fts EXCEPT ![m] = None]
      /\ UNCHANGED <<files, point, ftsDue, work, rebuild, excused>>
  BY DEF DeleteRow
<1>4. DataTypes' /\ meta'[m] = None /\ fts'[m] = None  BY <1>1, <1>3 DEF DataTypes
<1>5. MetaRows'  BY <1>1, <1>2, <1>3 DEF MetaRows, DataTypes
<1>6. Rebuilding'  BY <1>1, <1>2, <1>3 DEF Rebuilding
<1>. QED  BY <1>1, <1>2, <1>4, <1>5, <1>6 DEF Typed

LEMMA WorkerTypes ==
  ASSUME Stepping, WorkerTake \/ WorkerFinish
  PROVE  Typed
<1>1. UNCHANGED <<memes, server, rebuild, meta, fts, files, point, ftsDue, excused>>
  BY DEF WorkerTake, WorkerFinish, Queue!WorkerTake, Queue!HandlerSucceeds,
     Queue!HandlerRetries, Queue!HandlerGivesUp, Queue!life, data
<1>2. work' \in {NoWork, [phase |-> "begin", seen |-> None]}  BY DEF WorkerTake, WorkerFinish
<1>3. work' \in [phase : Phases, seen : Metadata \cup {None}]  BY <1>2 DEF NoWork, Phases
<1>. QED  BY <1>1, <1>3, SameMemes DEF Stepping, DataTypes, Typed

LEMMA CrashTypes ==
  ASSUME Stepping, Crash
  PROVE  Typed
<1>1. UNCHANGED <<memes, meta, fts, files, point, rebuild>> /\ rebuild = None
  BY DEF Crash, Queue!Crash, Queue!table, data, Stepping, Rebuilding
<1>2. work' \in [phase : Phases, seen : Metadata \cup {None}]  BY DEF Crash, NoWork, Phases
<1>3. excused' \in [Memes -> SUBSET Places]  BY ExcusedTypes DEF Crash, Stepping
<1>. QED
  BY <1>1, <1>2, <1>3 DEF Crash, Stepping, DataTypes, Rebuilding, MetaRows, Typed

LEMMA ReindexTypes ==
  ASSUME Stepping, ReindexDrop \/ ReindexMeme \/ ReindexEnds
  PROVE  Typed
<1>1. UNCHANGED <<memes, server, meta, fts, files, ftsDue, work>>
  BY DEF ReindexDrop, ReindexMeme, ReindexEnds, queueVars, data
<1>2. DataTypes /\ Rebuilding /\ MetaRows  BY DEF Stepping
<1>3. CASE ReindexDrop
  BY <1>1, <1>2, <1>3 DEF ReindexDrop, DataTypes, Rebuilding, MetaRows, Typed
<1>4. CASE ReindexMeme
  <2>1. PICK m \in rebuild :
          /\ point' = IF HasText(meta[m]) THEN [point EXCEPT ![m] = meta[m]] ELSE point
          /\ rebuild' = rebuild \ {m}
          /\ IF Captioned(m) THEN Redone(m, {"point"}) ELSE UNCHANGED excused
    BY <1>4 DEF ReindexMeme
  <2>2. m \in memes /\ m \in Memes /\ server \in {"down", "stopped"} /\ rebuild \subseteq memes
    BY <1>2, <1>4, <2>1 DEF ReindexMeme, Rebuilding, MetaRows
  <2>3. point' \in [Memes -> Metadata \cup {None}]  BY <1>2, <2>1, <2>2 DEF DataTypes
  <2>4. excused' \in [Memes -> SUBSET Places]
    BY <1>2, <2>1, ExcusedTypes DEF DataTypes
  <2>. QED
    BY <1>1, <1>2, <2>1, <2>2, <2>3, <2>4 DEF DataTypes, Rebuilding, MetaRows, Typed
<1>5. CASE ReindexEnds
  <2>1. excused' \in [Memes -> SUBSET Places]
    BY <1>2, <1>5, ExcusedTypes DEF ReindexEnds, Places
  <2>. QED
    BY <1>1, <1>2, <1>5, <2>1 DEF ReindexEnds, data, DataTypes, Rebuilding, MetaRows, Typed
<1>. QED  BY <1>3, <1>4, <1>5


\* The handlers leave the queue, the requests and the rows as they are.
LEMMA HandlerFrame ==
  ASSUME HandlerSteps
  PROVE  /\ UNCHANGED HandlerRest /\ current # None /\ UNCHANGED fts
         /\ (UNCHANGED <<meta, ftsDue>> \/ WriteCaption \/ \E found \in BOOLEAN : OcrWrite(found))
         /\ UNCHANGED files /\ (UNCHANGED point \/ EmbedUpsert)
<1>1. CASE ReadImage  BY <1>1 DEF ReadImage, Handling, data
<1>2. CASE WriteCaption  BY <1>2 DEF WriteCaption, Handling
<1>3. CASE OcrRead  BY <1>3 DEF OcrRead, Handling, data
<1>4. CASE Face  BY <1>4 DEF Face, Handling, data
<1>5. CASE \E found \in BOOLEAN : OcrWrite(found)  BY <1>5 DEF OcrWrite, Handling
<1>6. CASE EmbedRead  BY <1>6 DEF EmbedRead, Handling, data
<1>7. CASE EmbedUpsert  BY <1>7 DEF EmbedUpsert, Handling
<1>8. CASE EmbedLog  BY <1>8 DEF EmbedLog, Handling, data
<1>9. CASE HandlerRaises  BY <1>9 DEF HandlerRaises, data
<1>. QED  BY <1>1, <1>2, <1>3, <1>4, <1>5, <1>6, <1>7, <1>8, <1>9, Zenon DEF HandlerSteps

\* What the text handlers write leaves every meme its row.
LEMMA TextWritten ==
  ASSUME Stepping, WriteCaption \/ \E found \in BOOLEAN : OcrWrite(found)
  PROVE  /\ current.meme \in Memes /\ ftsDue' = current.meme
         /\ meta' \in [Memes -> Metadata \cup {None}]
         /\ \A n \in Memes : meta'[n] = None <=> meta[n] = None
         /\ \A n \in Memes : n # current.meme => meta'[n] = meta[n]
         /\ current # None /\ current.type \in TextTypes
         /\ work' \in [phase : Phases, seen : Metadata \cup {None}] /\ work'.phase = "ok"
<1>1. current # None /\ current.type \in TextTypes
  BY DEF WriteCaption, OcrWrite, Handling, TextTypes
<1>2. DataTypes /\ current.meme \in Memes  BY <1>1, QueueTypes DEF Stepping
<1>3. PICK c : UpdateMetadata(current.meme, c) /\ (meta[current.meme] # None => c \in Metadata)
  <2>1. CASE WriteCaption
    <3> DEFINE c == [caption |-> TRUE, text |->
                       IF meta[current.meme] = None THEN NoText ELSE meta[current.meme].text]
    <3>1. UpdateMetadata(current.meme, c)  BY <2>1 DEF WriteCaption
    <3>2. meta[current.meme] # None => c \in Metadata  BY <1>2 DEF DataTypes, Metadata
    <3>. QED  BY <3>1, <3>2
  <2>2. ASSUME NEW found \in BOOLEAN, OcrWrite(found)
        PROVE  \E c : UpdateMetadata(current.meme, c) /\ (meta[current.meme] # None => c \in Metadata)
    <3> DEFINE now == meta[current.meme]
               c == IF now # None /\ found /\ work.seen # None /\ work.seen.text = NoText
                    THEN [now EXCEPT !.text = OcrText] ELSE now
    <3>1. UpdateMetadata(current.meme, c)  BY <2>2 DEF OcrWrite
    <3>2. now # None => now \in Metadata  BY <1>2 DEF DataTypes
    <3>3. now # None => c \in Metadata  BY <3>2 DEF Metadata, Texts
    <3>. QED  BY <3>1, <3>3
  <2>. QED  BY <2>1, <2>2
<1>4. work' \in [phase : Phases, seen : Metadata \cup {None}] /\ work'.phase = "ok"
  <2>1. CASE WriteCaption
    <3>1. Goto("ok") /\ "ok" \in Phases  BY <2>1 DEF WriteCaption, Phases
    <3>. QED  BY <1>2, <3>1, GotoTypes
  <2>2. CASE \E found \in BOOLEAN : OcrWrite(found)  BY <2>2 DEF OcrWrite, Phases
  <2>. QED  BY <2>1, <2>2
<1>5. ftsDue' = current.meme  BY <1>3 DEF UpdateMetadata
<1>. QED  BY <1>1, <1>2, <1>3, <1>4, <1>5, UpdateTypes

LEMMA HandlerTypes ==
  ASSUME Stepping, HandlerSteps
  PROVE  Typed
<1>1. /\ UNCHANGED <<memes, server, rebuild, fts, files, excused>> /\ current # None
      /\ DataTypes /\ current.meme \in Memes
  BY HandlerFrame, QueueTypes DEF HandlerRest, queueVars, Stepping
<1>2. /\ meta' \in [Memes -> Metadata \cup {None}] /\ ftsDue' \in Memes \cup {None}
      /\ \A n \in Memes : meta'[n] = None <=> meta[n] = None
  BY <1>1, HandlerFrame, TextWritten DEF DataTypes
<1>3. work.seen \in Metadata \cup {None}  BY <1>1 DEF DataTypes
<1>4. point' \in [Memes -> Metadata \cup {None}]
  BY <1>1, <1>3, HandlerFrame DEF EmbedUpsert, DataTypes
<1>5. work' \in [phase : Phases, seen : Metadata \cup {None}]
  <2>1. CASE WriteCaption \/ \E found \in BOOLEAN : OcrWrite(found)  BY <2>1, TextWritten
  <2>2. CASE \E phase \in Phases : Goto(phase)  BY <1>1, <2>2, GotoTypes
  <2>3. CASE \E phase \in Phases, seen \in Metadata \cup {None} :
               work' = [phase |-> phase, seen |-> seen]
    BY <2>3
  <2>4. ReadImage \/ Face \/ EmbedUpsert \/ EmbedLog \/ HandlerRaises => \E phase \in Phases : Goto(phase)
    BY DEF ReadImage, Face, EmbedUpsert, EmbedLog, HandlerRaises, Phases
  <2>5. OcrRead \/ EmbedRead =>
          \/ \E phase \in Phases : Goto(phase)
          \/ \E phase \in Phases, seen \in Metadata \cup {None} :
               work' = [phase |-> phase, seen |-> seen]
    BY <1>1 DEF OcrRead, EmbedRead, Phases, DataTypes
  <2>. QED  BY <2>1, <2>2, <2>3, <2>4, <2>5, Zenon DEF HandlerSteps
<1>. QED  BY <1>1, <1>2, <1>4, <1>5, SameMemes DEF DataTypes, Typed

LEMMA Types_Next ==
  ASSUME Stepping, [Next]_vars
  PROVE  Typed
<1>1. CASE RefreshFts  BY <1>1, RequestTypes
<1>2. CASE Crash  BY <1>2, CrashTypes
<1>3. CASE \/ \E m \in Memes : UploadFile(m)
           \/ \E t \in Threads, m \in Memes, text \in UserTexts \cup {NoText} : Edit(t, m, text)
           \/ \E t \in Threads, m \in Memes : DeletePoint(t, m)
  BY <1>3, RequestTypes
<1>4. CASE \E withFace \in BOOLEAN, text \in UserTexts \cup {NoText} : UploadRow(withFace, text)
  BY <1>4, UploadRowTypes
<1>5. CASE \E t \in Threads : EditEnqueue(t) \/ EnqueuePut(t)
  BY <1>5, RequestTypes, QueueStepTypes DEF EnqueuePut
<1>6. CASE \E t \in Threads : DeleteFile(t) \/ DeleteRow(t)
  BY <1>6, RequestTypes, DeleteRowTypes
<1>7. CASE UploadPipeline \/ Deliver \/ WorkerStops \/ BeginShutdown
           \/ (StartUp /\ UNCHANGED <<data, control>>)
  <2>1. UNCHANGED <<data, control>>
    BY <1>7 DEF UploadPipeline, Deliver, WorkerStops, BeginShutdown
  <2>. QED  BY <1>7, <2>1, QueueStepTypes
<1>8. CASE WorkerTake \/ WorkerFinish  BY <1>8, WorkerTypes
<1>9. CASE HandlerSteps  BY <1>9, HandlerTypes
<1>10. CASE ReindexDrop \/ ReindexMeme \/ ReindexEnds  BY <1>10, ReindexTypes
<1>11. CASE UNCHANGED vars
  BY <1>11 DEF vars, queueVars, data, control, Stepping, DataTypes, Rebuilding, MetaRows, Typed
<1>. QED
  BY <1>1, <1>2, <1>3, <1>4, <1>5, <1>6, <1>7, <1>8, <1>9, <1>10, <1>11, Zenon DEF Next


-----------------------------------------------------------------------------
(* What the steps do to rows, the pipeline and the running job *)

LEMMA UploadEffect ==
  ASSUME Stepping, NEW withFace \in BOOLEAN, NEW text, UploadRow(withFace, text)
  PROVE  /\ UNCHANGED <<jobs, nextId, current, work, act, fts, files, point, rebuild>>
         /\ memes' = memes \cup {uploading} /\ pipeline = <<>> /\ ftsDue' = uploading
         /\ \E k \in DOMAIN pipeline' : pipeline'[k] = [meme |-> uploading, type |-> "CAPTION"]
         /\ \E k \in DOMAIN pipeline' : pipeline'[k] = [meme |-> uploading, type |-> "EMBED"]
<1>1. Queue!Upload(uploading, withFace) /\ UNCHANGED <<fts, files, point, act, work, rebuild>>
      /\ ftsDue' = uploading
  BY DEF UploadRow
<1>2. pipeline' = Queue!PipelineOf(uploading, withFace)  BY <1>1 DEF Queue!Upload
<1>3. CASE withFace
  <2>1. pipeline' = [k \in 1 .. 4 |->
                       [meme |-> uploading, type |-> <<"CAPTION", "OCR", "FACE", "EMBED">>[k]]]
    BY <1>2, <1>3 DEF Queue!PipelineOf
  <2>2. /\ 1 \in DOMAIN pipeline' /\ pipeline'[1] = [meme |-> uploading, type |-> "CAPTION"]
        /\ 4 \in DOMAIN pipeline' /\ pipeline'[4] = [meme |-> uploading, type |-> "EMBED"]
    BY <2>1
  <2>. QED  BY <1>1, <2>2 DEF Queue!Upload, Queue!worker
<1>4. CASE ~withFace
  <2>1. pipeline' = [k \in 1 .. 3 |->
                       [meme |-> uploading, type |-> <<"CAPTION", "OCR", "EMBED">>[k]]]
    BY <1>2, <1>4 DEF Queue!PipelineOf
  <2>2. /\ 1 \in DOMAIN pipeline' /\ pipeline'[1] = [meme |-> uploading, type |-> "CAPTION"]
        /\ 3 \in DOMAIN pipeline' /\ pipeline'[3] = [meme |-> uploading, type |-> "EMBED"]
    BY <2>1
  <2>. QED  BY <1>1, <2>2 DEF Queue!Upload, Queue!worker
<1>. QED  BY <1>3, <1>4

\* The steps of an upload become rows one by one, its embedding last; when
\* its meme goes they all go.
LEMMA PipelineEffect ==
  ASSUME Stepping, UploadPipeline
  PROVE  /\ UNCHANGED <<memes, current, work, act, meta, fts, files, point, ftsDue, excused>>
         /\ \/ /\ jobs' = jobs
               /\ \A k \in DOMAIN pipeline : pipeline[k].meme \notin memes
            \/ \E m \in Memes, type \in JobTypes :
                 /\ RowAdded(m, type)
                 /\ \A k \in DOMAIN pipeline :
                      \/ pipeline[k] = [meme |-> m, type |-> type]
                      \/ \E l \in DOMAIN pipeline' : pipeline'[l] = pipeline[k]
                 /\ \/ type = "EMBED"
                    \/ \E l \in DOMAIN pipeline' : pipeline'[l] = [meme |-> m, type |-> "EMBED"]
<1>1. UNCHANGED <<work, act, meta, fts, files, point, ftsDue, excused>>
  BY DEF UploadPipeline, data, control
<1>2. /\ pipeline \in Seq(Queue!Step)
      /\ \A k, l \in DOMAIN pipeline : pipeline[k].meme = pipeline[l].meme
      /\ pipeline # <<>> => pipeline[Len(pipeline)].type = "EMBED"
  BY DEF Stepping, Queue!IInv, Queue!MemoryInv, Queue!TypeOK, Queue!PipelineInv
<1>3. CASE Queue!PipelineAborts
  <2>1. /\ pipeline # <<>> /\ Head(pipeline).meme \notin memes
        /\ UNCHANGED <<memes, current, jobs>>
    BY <1>3 DEF Queue!PipelineAborts, Queue!table, Queue!worker
  <2>2. 1 \in DOMAIN pipeline /\ Head(pipeline) = pipeline[1]
    BY <1>2, <2>1, HeadTailProperties
  <2>. QED  BY <1>1, <1>2, <2>1, <2>2
<1>4. CASE Queue!PipelineEnqueue
  <2> DEFINE h == Head(pipeline)
  <2>1. /\ pipeline # <<>> /\ pipeline' = Tail(pipeline)
        /\ UNCHANGED <<memes, current>> /\ Queue!CreateJob(h.meme, h.type)
    BY <1>4 DEF Queue!PipelineEnqueue, Queue!worker
  <2>2. /\ h = pipeline[1] /\ h \in Queue!Step
        /\ Len(pipeline) \in Nat \ {0} /\ DOMAIN pipeline = 1 .. Len(pipeline)
        /\ DOMAIN pipeline' = 1 .. (Len(pipeline) - 1)
        /\ \A k \in DOMAIN pipeline' : pipeline'[k] = pipeline[k + 1]
    BY <1>2, <2>1, HeadTailProperties
  <2>3. /\ h = [meme |-> h.meme, type |-> h.type] /\ h.meme \in Memes /\ h.type \in JobTypes
    BY <2>2 DEF Queue!Step, Queue!PipelineTypes, JobTypes, PipelineTypes
  <2>4. RowAdded(h.meme, h.type)  BY <2>1, <2>3, CreateJobEffect DEF Stepping
  <2>5. \A k \in DOMAIN pipeline : k = 1 \/ (k - 1 \in DOMAIN pipeline' /\ pipeline'[k - 1] = pipeline[k])
    BY <2>2
  <2>6. \A k \in DOMAIN pipeline :
          \/ pipeline[k] = [meme |-> h.meme, type |-> h.type]
          \/ \E l \in DOMAIN pipeline' : pipeline'[l] = pipeline[k]
    BY <2>2, <2>3, <2>5
  <2>7. Len(pipeline) \in DOMAIN pipeline /\ 1 \in DOMAIN pipeline  BY <2>2
  <2>8. pipeline[Len(pipeline)] \in Queue!Step  BY <1>2, <2>7
  <2>9. pipeline[Len(pipeline)] = [meme |-> h.meme, type |-> "EMBED"]
    BY <1>2, <2>1, <2>2, <2>7, <2>8 DEF Queue!Step
  <2>10. \/ h.type = "EMBED"
         \/ \E l \in DOMAIN pipeline' : pipeline'[l] = [meme |-> h.meme, type |-> "EMBED"]
    BY <2>3, <2>6, <2>7, <2>9
  <2>. QED  BY <1>1, <2>1, <2>3, <2>4, <2>6, <2>10
<1>. QED  BY <1>3, <1>4 DEF UploadPipeline

LEMMA EditEnqueueEffect ==
  ASSUME Stepping, NEW t \in Threads, EditEnqueue(t)
  PROVE  /\ UNCHANGED <<memes, current, pipeline, work, meta, fts, files, point, ftsDue, excused>>
         /\ act[t].op = "enqueue" /\ act[t].meme \in Memes /\ act' = [act EXCEPT ![t] = Idle]
         /\ \/ jobs' = jobs /\ act[t].meme \notin memes
            \/ RowAdded(act[t].meme, "RE_EMBED")
<1>1. /\ UNCHANGED <<work, meta, fts, files, point, ftsDue, excused>>
      /\ act[t].op = "enqueue" /\ act' = [act EXCEPT ![t] = Idle]
  BY DEF EditEnqueue, data
<1>2. act[t].meme \in Memes  BY <1>1, RequestMeme DEF Stepping
<1>3. CASE Queue!EnqueueCommit(t, act[t].meme)
  <2>1. /\ Queue!CreateJob(act[t].meme, "RE_EMBED") /\ UNCHANGED <<memes, current, pipeline>>
    BY <1>3 DEF Queue!EnqueueCommit, Queue!worker
  <2>. QED  BY <1>1, <1>2, <2>1, CreateJobEffect DEF JobTypes, Stepping
<1>4. CASE act[t].meme \notin memes /\ UNCHANGED queueVars
  BY <1>1, <1>2, <1>4 DEF queueVars
<1>. QED  BY <1>3, <1>4 DEF EditEnqueue

LEMMA DeleteRowEffect ==
  ASSUME Stepping, NEW t \in Threads, DeleteRow(t)
  PROVE  /\ UNCHANGED <<current, pipeline, work, files, point, ftsDue, excused>>
         /\ act' = [act EXCEPT ![t] = Idle] /\ act[t].op = "row"
         /\ act[t].meme \in Memes /\ memes' = memes \ {act[t].meme}
         /\ meta' = [meta EXCEPT ![act[t].meme] = None]
         /\ fts' = [fts EXCEPT ![act[t].meme] = None]
         /\ \A i \in JobIds :
              jobs'[i] = IF jobs[i] # None /\ jobs[i].meme = act[t].meme THEN None ELSE jobs[i]
<1>1. UNCHANGED <<current, pipeline>>
  BY DEF DeleteRow, Queue!DeleteMeme, Queue!inbox, Queue!worker, queueVars
<1>2. CASE Queue!DeleteMeme(act[t].meme)
  BY <1>1, <1>2, DeleteRowTypes, SameIds DEF DeleteRow, Queue!DeleteMeme
<1>3. CASE act[t].meme \notin memes /\ UNCHANGED queueVars
  <2>1. \A i \in JobIds : jobs[i] # None => jobs[i].meme \in memes  BY QueueTypes DEF Stepping
  <2>. QED  BY <1>1, <1>3, <2>1, DeleteRowTypes DEF DeleteRow, queueVars
<1>. QED  BY <1>2, <1>3 DEF DeleteRow

LEMMA CrashEffect ==
  ASSUME Stepping, Crash
  PROVE  /\ UNCHANGED <<memes, jobs, meta, fts, files, point, rebuild>> /\ rebuild = None
         /\ current' = None /\ pipeline' = <<>> /\ work' = NoWork
         /\ uploading' = None /\ ftsDue' = None /\ act' = [t \in Threads |-> Idle]
         /\ \A m \in Memes : excused'[m] = IF InRequest(m) THEN excused[m] \cup Places ELSE excused[m]
         /\ \A m : LeftTextJobs(m)' = {}
<1>1. /\ UNCHANGED <<memes, jobs, meta, fts, files, point, rebuild>>
      /\ current' = None /\ pipeline' = <<>> /\ work' = NoWork
      /\ uploading' = None /\ ftsDue' = None /\ act' = [t \in Threads |-> Idle]
      /\ queue' = <<>> /\ ready' = <<>> /\ hands' = [t \in Threads |-> None]
      /\ server \in {"starting", "serving", "stopping"}
  BY DEF Crash, Queue!Crash, Queue!LoseMemory, Queue!table, data
<1>2. \A m \in Memes : excused'[m] = IF InRequest(m) THEN excused[m] \cup Places ELSE excused[m]
  BY DEF Crash, Excuse
<1>3. Queue!HeldJobs' = {}  BY <1>1 DEF Queue!HeldJobs
<1>4. \A m : LeftTextJobs(m)' = {}  BY <1>3 DEF LeftTextJobs
<1>5. rebuild = None  BY <1>1 DEF Stepping, Rebuilding
<1>. QED  BY <1>1, <1>2, <1>4, <1>5


LEMMA UpdateJobEffect ==
  ASSUME Stepping, NEW c \in JobIds, NEW status \in Statuses, NEW bump \in Nat,
         Queue!UpdateJob(c, status, bump)
  PROVE  RowUpdated(c, status)
<1>1. jobs \in [JobIds -> Row \cup {None}]
  BY SameIds DEF Stepping, Queue!IInv, Queue!MemoryInv, Queue!TypeOK, Queue!Row, Row,
     Queue!JobTypes, JobTypes, Queue!PipelineTypes, PipelineTypes, Queue!Statuses, Statuses
<1>2. CASE jobs[c] = None  BY <1>2 DEF Queue!UpdateJob, RowUpdated
<1>3. CASE jobs[c] # None
  <2> DEFINE new == [meme |-> jobs[c].meme, type |-> jobs[c].type,
                     status |-> status, attempts |-> jobs[c].attempts + bump]
  <2>1. jobs' = [jobs EXCEPT ![c] = new]  BY <1>3 DEF Queue!UpdateJob, Queue!WithStatus
  <2>2. new \in Row  BY <1>1, <1>3 DEF Row
  <2>3. new # None  BY <2>2, NoRowAssumption
  <2>. QED  BY <1>1, <1>3, <2>1, <2>3 DEF RowUpdated
<1>. QED  BY <1>2, <1>3

LEMMA WorkerTakeEffect ==
  ASSUME Stepping, WorkerTake
  PROVE  /\ UNCHANGED <<memes, pipeline, act, meta, fts, files, point, ftsDue, rebuild, excused>>
         /\ current = None /\ current' # None /\ pipeline = <<>> /\ current'.id \in JobIds
         /\ work' = [phase |-> "begin", seen |-> None]
         /\ RowUpdated(current'.id, "RUNNING")
         /\ jobs[current'.id] # None => Queue!Unfinished(current'.id)
<1>1. /\ UNCHANGED <<memes, pipeline, act, meta, fts, files, point, ftsDue, rebuild, excused>>
      /\ current = None /\ current' # None /\ pipeline = <<>>
      /\ work' = [phase |-> "begin", seen |-> None]
      /\ queue # <<>> /\ Head(queue) # None /\ current' = Head(queue)
      /\ Queue!UpdateJob(current'.id, "RUNNING", 1)
  BY DEF WorkerTake, Queue!WorkerTake, Queue!WorkerTurn, data
<1>2. queue \in Seq(Queue!Job \cup {None})  BY DEF Stepping, Queue!IInv, Queue!MemoryInv, Queue!TypeOK
<1>3. 1 \in DOMAIN queue /\ queue[1] = current' /\ current' \in Queue!Job
  BY <1>1, <1>2, HeadTailProperties
<1>4. current'.id \in JobIds  BY <1>3, SameIds DEF Queue!Job
<1>5. RowUpdated(current'.id, "RUNNING")  BY <1>1, <1>4, UpdateJobEffect DEF Statuses
<1>6. Queue!Held(current'.id)  BY <1>1, <1>3 DEF Queue!Held, Queue!InQueue
<1>7. ~Queue!Finished(current'.id)
  BY <1>4, <1>6, SameIds DEF Stepping, Queue!IInv, Queue!MemoryInv, Queue!HeldInv
<1>8. jobs[current'.id] # None => Queue!Unfinished(current'.id)
  BY <1>4, <1>7, QueueTypes DEF Stepping, Queue!Finished, Queue!FinishedIn, Queue!Unfinished,
     Queue!UnfinishedIn
<1>. QED  BY <1>1, <1>4, <1>5, <1>8

LEMMA WorkerFinishEffect ==
  ASSUME Stepping, WorkerFinish
  PROVE  /\ UNCHANGED <<memes, pipeline, act, meta, fts, files, point, ftsDue, rebuild, excused>>
         /\ current # None /\ current.id \in JobIds /\ server \in {"serving", "stopping"} /\ workerUp
         /\ \/ work.phase = "ok" /\ current' = None /\ RowUpdated(current.id, "DONE")
            \/ /\ work.phase = "failed" /\ current' = current /\ RowUpdated(current.id, "RUNNING")
               /\ work' = [phase |-> "begin", seen |-> None]
            \/ work.phase = "failed" /\ current' = None /\ RowUpdated(current.id, "ERROR")
<1>1. UNCHANGED <<memes, pipeline, act, meta, fts, files, point, ftsDue, rebuild, excused>>
  BY DEF WorkerFinish, Queue!HandlerSucceeds, Queue!HandlerRetries, Queue!HandlerGivesUp,
     Queue!inbox, data
<1>2. /\ current # None /\ server \in {"serving", "stopping"} /\ workerUp
      /\ \/ work.phase = "ok" /\ current' = None /\ Queue!UpdateJob(current.id, "DONE", 0)
         \/ /\ work.phase = "failed" /\ current' = current
            /\ Queue!UpdateJob(current.id, "RUNNING", 1)
            /\ work' = [phase |-> "begin", seen |-> None]
         \/ work.phase = "failed" /\ current' = None /\ Queue!UpdateJob(current.id, "ERROR", 0)
  BY DEF WorkerFinish, Queue!HandlerSucceeds, Queue!HandlerRetries, Queue!HandlerGivesUp,
     Queue!WorkerTurn
<1>3. current.id \in JobIds  BY <1>2, QueueTypes DEF Stepping
<1>. QED  BY <1>1, <1>2, <1>3, UpdateJobEffect DEF Statuses

\* Rows of memes that stay are touched by the worker only; rows are new by an
\* upload, or to embed again.
RowsStay ==
    \A i \in JobIds :
        /\ jobs[i] # None => jobs'[i] \in {jobs[i], None}
        /\ jobs[i] # None /\ jobs[i].meme \in memes' => jobs'[i] = jobs[i]
        /\ jobs[i] = None /\ jobs'[i] # None =>
             i = nextId /\ (UploadPipeline \/ jobs'[i].type = "RE_EMBED")

QuietQueue == Deliver \/ WorkerStops \/ StartUp \/ BeginShutdown \/ \E t \in Threads : EnqueuePut(t)

LEMMA QuietEffect ==
  ASSUME QuietQueue
  PROVE  UNCHANGED <<memes, jobs, current, pipeline>>
<1>1. CASE Deliver  BY <1>1 DEF Deliver, Queue!Deliver, Queue!table, Queue!worker
<1>2. CASE WorkerStops  BY <1>2 DEF WorkerStops, Queue!WorkerStops, Queue!table, Queue!WorkerTurn
<1>3. CASE StartUp
  BY <1>3 DEF StartUp, Queue!Start, Queue!RequeueNext, Queue!Serve, Queue!table, Queue!worker,
     Queue!inbox
<1>4. CASE BeginShutdown
  BY <1>4 DEF BeginShutdown, Queue!BeginShutdown, Queue!table, Queue!worker
<1>5. CASE \E t \in Threads : EnqueuePut(t)
  BY <1>5 DEF EnqueuePut, Queue!EnqueuePut, Queue!table, Queue!worker
<1>. QED  BY <1>1, <1>2, <1>3, <1>4, <1>5 DEF QuietQueue

\* Every step but the worker's, as the rows see it.
LEMMA OtherRows ==
  ASSUME Stepping, [Next]_vars, ~WorkerTake, ~WorkerFinish
  PROVE  RowsStay /\ (Crash \/ current' = current)
<1>1. CASE UNCHANGED queueVars  BY <1>1 DEF queueVars, RowsStay
<1>2. CASE Crash  BY <1>2, CrashEffect DEF RowsStay
<1>3. CASE \E withFace \in BOOLEAN, text \in UserTexts \cup {NoText} : UploadRow(withFace, text)
  BY <1>3, UploadEffect DEF RowsStay
<1>4. CASE UploadPipeline  BY <1>4, PipelineEffect DEF RowsStay, RowAdded
<1>5. CASE \E t \in Threads : EditEnqueue(t)  BY <1>5, EditEnqueueEffect DEF RowsStay, RowAdded
<1>6. CASE \E t \in Threads : DeleteRow(t)  BY <1>6, DeleteRowEffect DEF RowsStay
<1>7. CASE QuietQueue  BY <1>7, QuietEffect DEF RowsStay
<1>8. CASE \/ RefreshFts \/ \E m \in Memes : UploadFile(m)
           \/ \E t \in Threads, m \in Memes, text \in UserTexts \cup {NoText} : Edit(t, m, text)
           \/ \E t \in Threads, m \in Memes : DeletePoint(t, m)
           \/ \E t \in Threads : DeleteFile(t)
           \/ HandlerSteps \/ ReindexDrop \/ ReindexMeme \/ ReindexEnds
  <2>1. UNCHANGED queueVars
    BY <1>8, HandlerFrame DEF RefreshFts, UploadFile, Edit, DeletePoint, DeleteFile, HandlerRest,
       ReindexDrop, ReindexMeme, ReindexEnds
  <2>. QED  BY <1>1, <2>1
<1>9. CASE UNCHANGED vars  BY <1>1, <1>9 DEF vars
<1>. QED
  BY <1>2, <1>3, <1>4, <1>5, <1>6, <1>7, <1>8, <1>9, Zenon DEF Next, QuietQueue


-----------------------------------------------------------------------------
(* Embeddings asked for, and points accounted for *)

LEMMA NextMemes == ASSUME Stepping PROVE memes \subseteq Memes /\ memes' \subseteq Memes
BY DEF Stepping, Queue!IInv, Queue!MemoryInv, Queue!TypeOK

LEMMA Threading ==
  ASSUME Stepping
  PROVE  /\ act \in [Threads -> Requests \cup {Idle}]
         /\ \A t \in Threads : act[t] # Idle => act[t] \in Requests /\ act[t].meme \in Memes
         /\ Idle.op = "idle" /\ Idle.meme = None
BY DEF Stepping, RequestsOK, Idle, Requests

\* Row nextId is a new embedding of the meme.
NewEmbed(m) ==
    /\ nextId \in JobIds /\ jobs[nextId] = None /\ jobs'[nextId] # None
    /\ jobs'[nextId].meme = m /\ jobs'[nextId].type \in EmbedTypes
    /\ jobs'[nextId].status = "PENDING"

LEMMA FailuresStay ==
  ASSUME Stepping, [Next]_vars, NEW m \in memes', EmbedFailed(m)
  PROVE  EmbedFailed(m)'
<1>1. PICK i \in JobIds : /\ jobs[i] # None /\ jobs[i].meme = m /\ jobs[i].type \in EmbedTypes
                          /\ jobs[i].status = "ERROR"
  BY DEF EmbedFailed, RowsOf
<1>2. CASE WorkerTake
  <2>1. i # current'.id
    BY <1>1, <1>2, WorkerTakeEffect DEF Queue!Unfinished, Queue!UnfinishedIn
  <2>. QED  BY <1>1, <1>2, <2>1, WorkerTakeEffect DEF RowUpdated, EmbedFailed, RowsOf
<1>3. CASE WorkerFinish
  <2>1. i # current.id  BY <1>1, <1>3, WorkerFinishEffect, RunningRow DEF Stepping
  <2>. QED  BY <1>1, <1>3, <2>1, WorkerFinishEffect DEF RowUpdated, EmbedFailed, RowsOf
<1>4. CASE ~WorkerTake /\ ~WorkerFinish
  BY <1>1, <1>4, OtherRows DEF RowsStay, EmbedFailed, RowsOf
<1>. QED  BY <1>2, <1>3, <1>4

\* A request of another thread, or for another meme, is as it was.
LEMMA RequestAnswers ==
  ASSUME Stepping, NEW m \in memes', EmbedAsked(m) \/ Deleting(m) \/ "point" \in excused[m],
         \/ \E t \in Threads, n \in Memes, text \in UserTexts \cup {NoText} : Edit(t, n, text)
         \/ \E t \in Threads : EditEnqueue(t)
         \/ \E t \in Threads, n \in Memes : DeletePoint(t, n)
         \/ \E t \in Threads : DeleteFile(t)
         \/ \E t \in Threads : DeleteRow(t)
  PROVE  EmbedAsked(m)' \/ Deleting(m)' \/ ("point" \in excused[m])' \/ NewEmbed(m)
<1>1. /\ m \in Memes /\ act \in [Threads -> Requests \cup {Idle}] /\ Idle.op = "idle"
  BY Threading, NextMemes
<1>2. ASSUME NEW t \in Threads, NEW n \in Memes, NEW text \in UserTexts \cup {NoText},
             Edit(t, n, text)
      PROVE  EmbedAsked(m)' \/ Deleting(m)' \/ ("point" \in excused[m])'
  <2>1. /\ act[t] = Idle /\ act' = [act EXCEPT ![t] = [op |-> "enqueue", meme |-> n]]
        /\ excused' = [excused EXCEPT ![n] = @ \ {"keywords", "point"}] /\ pipeline' = pipeline
    BY <1>2 DEF Edit, ThreadFree, Redone, queueVars
  <2>2. CASE m = n  BY <1>1, <2>1, <2>2 DEF EmbedAsked
  <2>3. CASE m # n
    <3>1. excused'[m] = excused[m]  BY <1>1, <2>1, <2>3 DEF Stepping, DataTypes
    <3>. QED  BY <1>1, <2>1, <3>1 DEF EmbedAsked, Deleting
  <2>. QED  BY <2>2, <2>3
<1>3. ASSUME NEW t \in Threads, EditEnqueue(t)
      PROVE  EmbedAsked(m)' \/ Deleting(m)' \/ ("point" \in excused[m])' \/ NewEmbed(m)
  <2>1. /\ act' = [act EXCEPT ![t] = Idle] /\ act[t].op = "enqueue" /\ excused' = excused
        /\ pipeline' = pipeline /\ (act[t].meme = m => NewEmbed(m))
    BY <1>3, EditEnqueueEffect DEF RowAdded, NewEmbed, EmbedTypes
  <2>. QED  BY <1>1, <2>1 DEF EmbedAsked, Deleting
<1>4. ASSUME NEW t \in Threads, NEW n \in Memes, DeletePoint(t, n)
      PROVE  EmbedAsked(m)' \/ Deleting(m)' \/ ("point" \in excused[m])'
  <2>1. /\ act[t] = Idle /\ act' = [act EXCEPT ![t] = [op |-> "unlink", meme |-> n]]
        /\ excused' = excused /\ pipeline' = pipeline
    BY <1>4 DEF DeletePoint, ThreadFree, queueVars
  <2>. QED  BY <1>1, <2>1 DEF EmbedAsked, Deleting
<1>5. ASSUME NEW t \in Threads, DeleteFile(t)
      PROVE  EmbedAsked(m)' \/ Deleting(m)' \/ ("point" \in excused[m])'
  <2>1. /\ act[t].op = "unlink" /\ act' = [act EXCEPT ![t].op = "row"]
        /\ excused' = excused /\ pipeline' = pipeline
    BY <1>5 DEF DeleteFile, queueVars
  <2>2. act[t] \in Requests  BY <1>1, <2>1
  <2>3. act'[t].op = "row" /\ act'[t].meme = act[t].meme  BY <1>1, <2>1, <2>2 DEF Requests
  <2>4. \A u \in Threads : u # t => act'[u] = act[u]  BY <1>1, <2>1
  <2>. QED  BY <2>1, <2>3, <2>4 DEF EmbedAsked, Deleting
<1>6. ASSUME NEW t \in Threads, DeleteRow(t)
      PROVE  EmbedAsked(m)' \/ Deleting(m)' \/ ("point" \in excused[m])'
  <2>1. /\ act' = [act EXCEPT ![t] = Idle] /\ act[t].op = "row" /\ excused' = excused
        /\ pipeline' = pipeline /\ act[t].meme # m
    BY <1>6, DeleteRowEffect
  <2>. QED  BY <1>1, <2>1 DEF EmbedAsked, Deleting
<1>. QED  BY <1>2, <1>3, <1>4, <1>5, <1>6

LEMMA AnswersStay ==
  ASSUME Stepping, [Next]_vars, ~ReindexMeme, NEW m \in memes', EmbedAsked(m) \/ Accounted(m)
  PROVE  EmbedAsked(m)' \/ Accounted(m)' \/ NewEmbed(m)
<1>1. m \in Memes  BY NextMemes
<1>2. CASE EmbedFailed(m)  BY <1>2, FailuresStay DEF Accounted
<1> SUFFICES ASSUME EmbedAsked(m) \/ Deleting(m) \/ "point" \in excused[m]
             PROVE  EmbedAsked(m)' \/ Deleting(m)' \/ ("point" \in excused[m])' \/ NewEmbed(m)
  BY <1>2 DEF Accounted
<1>3. CASE UNCHANGED <<act, pipeline, excused>>  BY <1>3 DEF EmbedAsked, Deleting
<1>4. CASE Crash
  <2>1. EmbedAsked(m) \/ Deleting(m) => InRequest(m)  BY DEF EmbedAsked, Deleting, InRequest
  <2>. QED  BY <1>1, <1>4, <2>1, CrashEffect DEF Places
<1>5. CASE \E withFace \in BOOLEAN, text \in UserTexts \cup {NoText} : UploadRow(withFace, text)
  <2>1. /\ act' = act /\ pipeline = <<>>
        /\ \E k \in DOMAIN pipeline' : pipeline'[k] = [meme |-> uploading, type |-> "EMBED"]
        /\ excused' = [excused EXCEPT ![uploading] = @ \ Places]
    BY <1>5, UploadEffect DEF UploadRow, Redone
  <2>2. CASE m = uploading  BY <2>1, <2>2 DEF EmbedAsked
  <2>3. CASE m # uploading
    <3>1. excused'[m] = excused[m]  BY <1>1, <2>1, <2>3 DEF Stepping, DataTypes
    <3>. QED  BY <2>1, <3>1 DEF EmbedAsked, Deleting
  <2>. QED  BY <2>2, <2>3
<1>6. CASE UploadPipeline
  BY <1>6, PipelineEffect DEF EmbedAsked, Deleting, RowAdded, NewEmbed, EmbedTypes
<1>7. CASE \/ \E t \in Threads, n \in Memes, text \in UserTexts \cup {NoText} : Edit(t, n, text)
           \/ \E t \in Threads : EditEnqueue(t)
           \/ \E t \in Threads, n \in Memes : DeletePoint(t, n)
           \/ \E t \in Threads : DeleteFile(t)
           \/ \E t \in Threads : DeleteRow(t)
  BY <1>7, RequestAnswers
<1>8. CASE ReindexEnds
  <2>1. UNCHANGED <<act, pipeline>> /\ ("point" \in excused[m] => "point" \in excused'[m])
    BY <1>1, <1>8 DEF ReindexEnds, Excuse, queueVars
  <2>. QED  BY <2>1 DEF EmbedAsked, Deleting
<1>9. CASE RefreshFts \/ HandlerSteps \/ ReindexDrop \/ \E n \in Memes : UploadFile(n)
  <2>1. UNCHANGED <<act, pipeline, excused>>
    BY <1>9, HandlerFrame DEF RefreshFts, UploadFile, HandlerRest, ReindexDrop, queueVars
  <2>. QED  BY <1>3, <2>1
<1>10. CASE WorkerTake \/ WorkerFinish  BY <1>3, <1>10, WorkerTakeEffect, WorkerFinishEffect
<1>11. CASE Deliver \/ WorkerStops \/ BeginShutdown \/ (StartUp /\ UNCHANGED <<data, control>>)
            \/ \E t \in Threads : EnqueuePut(t)
  <2>1. UNCHANGED <<act, excused>>
    BY <1>11 DEF Deliver, WorkerStops, BeginShutdown, EnqueuePut, control
  <2>. QED  BY <1>3, <1>11, <2>1, QuietEffect DEF QuietQueue
<1>12. CASE UNCHANGED vars  BY <1>3, <1>12 DEF vars, queueVars, control
<1>13. CASE \E t \in Threads : EditEnqueue(t) \/ EnqueuePut(t)  BY <1>7, <1>11, <1>13
<1>14. CASE \E t \in Threads : DeleteFile(t) \/ DeleteRow(t)  BY <1>7, <1>14
<1>. QED
  BY <1>4, <1>5, <1>6, <1>7, <1>8, <1>9, <1>10, <1>11, <1>12, <1>13, <1>14, Zenon DEF Next


-----------------------------------------------------------------------------
(* What is written is embedded afterwards *)

LEMMA NewMemes ==
  ASSUME Stepping, [Next]_vars, NEW m \in memes', m \notin memes
  PROVE  \E withFace \in BOOLEAN, text \in UserTexts \cup {NoText} :
            UploadRow(withFace, text) /\ uploading = m
<1>1. CASE memes' = memes  BY <1>1
<1>2. CASE \E withFace \in BOOLEAN, text \in UserTexts \cup {NoText} : UploadRow(withFace, text)
  BY <1>2, UploadEffect
<1>3. CASE \/ RefreshFts \/ Crash \/ UploadPipeline
           \/ (StartUp /\ UNCHANGED <<data, control>>)
           \/ Deliver \/ WorkerStops \/ BeginShutdown \/ WorkerTake \/ WorkerFinish
           \/ HandlerSteps \/ ReindexDrop \/ ReindexMeme \/ ReindexEnds \/ UNCHANGED vars
  <2>1. memes' = memes
    BY <1>3, CrashEffect, PipelineEffect, QuietEffect, WorkerTakeEffect, WorkerFinishEffect,
       HandlerFrame
    DEF RefreshFts, QuietQueue, HandlerRest, ReindexDrop, ReindexMeme, ReindexEnds, vars,
        queueVars
  <2>. QED  BY <1>1, <2>1
<1>4. CASE \/ \E n \in Memes : UploadFile(n)
           \/ \E t \in Threads, n \in Memes, text \in UserTexts \cup {NoText} : Edit(t, n, text)
           \/ \E t \in Threads, n \in Memes : DeletePoint(t, n)
  BY <1>4 DEF UploadFile, Edit, DeletePoint, queueVars
<1>5. ASSUME NEW t \in Threads, EditEnqueue(t) \/ EnqueuePut(t) \/ DeleteFile(t) \/ DeleteRow(t)
      PROVE  FALSE
  <2>1. memes' = memes \/ memes' = memes \ {act[t].meme}
    BY <1>5, EditEnqueueEffect, DeleteRowEffect, QuietEffect DEF DeleteFile, queueVars, QuietQueue
  <2>. QED  BY <2>1
<1>. QED  BY <1>2, <1>3, <1>4, <1>5, Zenon DEF Next

LEMMA TextJobsAreOld ==
  ASSUME Queue!IInv, NEW m, NEW x \in TextJobs(m)
  PROVE  x \in JobIds /\ x < nextId
<1>1. JQ!MemoryInv  BY SameQueue DEF JQ!IInv
<1>2. \A job \in JQ!HeldJobs : job.id \in JQ!JobIds /\ job.id < nextId
  BY <1>1, JQ!HeldIds, QueueAssumptions
<1>3. CASE x \in {job.id : job \in LeftTextJobs(m)}
  <2>1. PICK job \in Queue!HeldJobs : x = job.id  BY <1>3 DEF LeftTextJobs
  <2>. QED  BY <1>2, <2>1 DEF JQ!HeldJobs, Queue!HeldJobs, JQ!JobIds, JobIds
<1>4. CASE x \in RowsOf(m, TextTypes)
  BY <1>4, QueueTypes DEF RowsOf, JobIds
<1>. QED  BY <1>3, <1>4 DEF TextJobs

\* Text jobs come with an upload, which has still to ask for the embedding.
LEMMA TextJobsStay ==
  ASSUME Stepping, [Next]_vars, NEW m \in memes', NEW x \in TextJobs(m)'
  PROVE  x \in TextJobs(m) \/ EmbedAsked(m)'
<1>1. CASE x \in {job.id : job \in LeftTextJobs(m)}'
  <2>1. \A i \in JobIds : jobs[i] # None /\ jobs[i].meme \in memes' => jobs'[i] # None
    BY OtherRows, WorkerTakeEffect, WorkerFinishEffect DEF RowsStay, RowUpdated
  <2>2. LeftTextJobs(m)' \subseteq LeftTextJobs(m)  BY <2>1, LeftStay DEF Stepping
  <2>. QED  BY <1>1, <2>2 DEF TextJobs
<1>2. CASE x \in RowsOf(m, TextTypes)' /\ Queue!Unfinished(x)'
  <2>1. /\ x \in JobIds /\ jobs'[x] # None /\ jobs'[x].meme = m /\ jobs'[x].type \in TextTypes
        /\ jobs'[x].status \in {"PENDING", "RUNNING"}
    BY <1>2 DEF RowsOf, Queue!Unfinished, Queue!UnfinishedIn
  <2>2. CASE WorkerTake
    BY <2>1, <2>2, WorkerTakeEffect DEF RowUpdated, TextJobs, RowsOf, Queue!Unfinished,
       Queue!UnfinishedIn
  <2>3. CASE WorkerFinish
    <3>1. jobs[x] # None /\ jobs[x].meme = m /\ jobs[x].type \in TextTypes
      BY <2>1, <2>3, WorkerFinishEffect DEF RowUpdated
    <3>2. jobs[x].status \in {"PENDING", "RUNNING"}
      BY <2>1, <2>3, <3>1, WorkerFinishEffect, RunningRow DEF RowUpdated, Stepping
    <3>. QED
      BY <2>1, <3>1, <3>2 DEF TextJobs, RowsOf, Queue!Unfinished, Queue!UnfinishedIn
  <2>4. CASE ~WorkerTake /\ ~WorkerFinish
    <3>1. CASE jobs[x] # None
      <4>1. jobs'[x] = jobs[x]  BY <2>1, <2>4, <3>1, OtherRows DEF RowsStay
      <4>. QED
        BY <2>1, <4>1 DEF TextJobs, RowsOf, Queue!Unfinished, Queue!UnfinishedIn
    <3>2. CASE jobs[x] = None
      <4>1. UploadPipeline
        BY <2>1, <2>4, <3>2, OtherRows DEF RowsStay, TextTypes
      <4>. QED
        BY <2>1, <3>2, <4>1, PipelineEffect DEF RowAdded, TextTypes, EmbedAsked
    <3>. QED  BY <3>1, <3>2
  <2>. QED  BY <2>2, <2>3, <2>4
<1>. QED  BY <1>1, <1>2 DEF TextJobs

\* The rebuild takes an answer back only when no text is to come.
LEMMA ReindexAnswers ==
  ASSUME Stepping, ReindexMeme, NEW m \in Memes, TextJobs(m) # {}, EmbedAsked(m) \/ Accounted(m)
  PROVE  EmbedAsked(m)' \/ Accounted(m)'
<1>1. PICK n \in rebuild : IF Captioned(n) THEN Redone(n, {"point"}) ELSE UNCHANGED excused
  BY DEF ReindexMeme
<1>2. UNCHANGED <<act, pipeline, jobs>> /\ server \in {"down", "stopped"}
  BY DEF ReindexMeme, queueVars, Stepping, Rebuilding
<1>3. ~Captioned(m)
  <2>1. LeftTextJobs(m) = {}  BY <1>2, NothingHeldDown DEF Stepping
  <2>2. PICK i \in RowsOf(m, TextTypes) : Queue!Unfinished(i)  BY <2>1 DEF TextJobs
  <2>. QED  BY <2>2, SameIds DEF Captioned, RowsOf, Queue!RowsOf, TextTypes
<1>4. excused'[m] = excused[m]
  BY <1>1, <1>3 DEF Redone, Stepping, DataTypes
<1>. QED  BY <1>2, <1>4 DEF EmbedAsked, Accounted, EmbedFailed, RowsOf, Deleting

LEMMA TextsAreEmbedded_Next ==
  ASSUME Stepping, TextsAreEmbedded, [Next]_vars
  PROVE  TextsAreEmbedded'
<1> SUFFICES ASSUME NEW m \in memes', NEW x \in TextJobs(m)', ~EmbedAsked(m)', ~Accounted(m)'
             PROVE  (\E e \in RowsOf(m, EmbedTypes) : Queue!Unfinished(e) /\ x < e)'
  BY DEF TextsAreEmbedded
<1>1. x \in TextJobs(m)  BY TextJobsStay
<1>2. m \in Memes  BY NextMemes
<1>3. m \in memes
  BY NewMemes, UploadEffect DEF EmbedAsked
<1>4. x \in JobIds /\ x < nextId  BY <1>1, TextJobsAreOld DEF Stepping
<1>5. CASE EmbedAsked(m) \/ Accounted(m)
  <2>1. ~ReindexMeme  BY <1>1, <1>2, <1>5, ReindexAnswers
  <2>2. NewEmbed(m)  BY <1>5, <2>1, AnswersStay
  <2>. QED  BY <1>4, <2>2 DEF NewEmbed, RowsOf, Queue!Unfinished, Queue!UnfinishedIn
<1>6. ASSUME NEW e \in RowsOf(m, EmbedTypes), Queue!Unfinished(e), x < e
      PROVE  (\E i \in RowsOf(m, EmbedTypes) : Queue!Unfinished(i) /\ x < i)'
  <2>1. /\ e \in JobIds /\ jobs[e] # None /\ jobs[e].meme = m /\ jobs[e].type \in EmbedTypes
        /\ jobs[e].status \in {"PENDING", "RUNNING"}
    BY <1>6 DEF RowsOf, Queue!Unfinished, Queue!UnfinishedIn
  <2>2. /\ jobs'[e] # None /\ jobs'[e].meme = m /\ jobs'[e].type \in EmbedTypes
        /\ jobs'[e].status \in {"PENDING", "RUNNING"}
    <3>1. CASE WorkerTake  BY <2>1, <3>1, WorkerTakeEffect DEF RowUpdated
    <3>2. CASE WorkerFinish /\ e # current.id
      BY <2>1, <3>2, WorkerFinishEffect DEF RowUpdated
    <3>3. CASE WorkerFinish /\ e = current.id
      <4>1. /\ jobs'[e] # None /\ jobs'[e].meme = m /\ jobs'[e].type \in EmbedTypes
            /\ jobs'[e].status \in {"DONE", "RUNNING", "ERROR"}
        BY <2>1, <3>3, WorkerFinishEffect DEF RowUpdated
      <4>2. jobs'[e].status # "ERROR"
        BY <2>1, <4>1 DEF Accounted, EmbedFailed, RowsOf
      <4>3. x = e \/ e < x
        BY <1>1, <3>3, WorkerFinishEffect, TextJobsBehind DEF Stepping
      <4>. QED  BY <1>4, <1>6, <2>1, <4>3, MaxJobsAssumption DEF JobIds
    <3>4. CASE ~WorkerTake /\ ~WorkerFinish  BY <2>1, <3>4, OtherRows DEF RowsStay
    <3>. QED  BY <3>1, <3>2, <3>3, <3>4
  <2>. QED  BY <1>6, <2>1, <2>2 DEF RowsOf, Queue!Unfinished, Queue!UnfinishedIn
<1>. QED  BY <1>1, <1>3, <1>5, <1>6 DEF TextsAreEmbedded


-----------------------------------------------------------------------------
(* Old reads are repeated, and the semantic index catches up *)

Rebuild == ReindexDrop \/ ReindexMeme \/ ReindexEnds

LEMMA OtherFrame ==
  ASSUME Stepping, [Next]_vars, ~WorkerTake, ~WorkerFinish, ~HandlerSteps, ~Crash
  PROVE  work' = work /\ (rebuild' = rebuild \/ Rebuild)
<1>1. CASE RefreshFts \/ UploadPipeline \/ (StartUp /\ UNCHANGED <<data, control>>)
           \/ Deliver \/ WorkerStops \/ BeginShutdown \/ Rebuild \/ UNCHANGED vars
  BY <1>1 DEF RefreshFts, UploadPipeline, Deliver, WorkerStops, BeginShutdown, Rebuild, ReindexDrop,
     ReindexMeme, ReindexEnds, control, vars
<1>2. CASE \E m \in Memes : UploadFile(m)  BY <1>2 DEF UploadFile
<1>3. CASE \E t \in Threads, m \in Memes, text \in UserTexts \cup {NoText} : Edit(t, m, text)
  BY <1>3 DEF Edit
<1>4. CASE \E t \in Threads, m \in Memes : DeletePoint(t, m)  BY <1>4 DEF DeletePoint
<1>5. CASE \E t \in Threads : EditEnqueue(t) \/ EnqueuePut(t)
  BY <1>5 DEF EditEnqueue, EnqueuePut, control
<1>6. CASE \E t \in Threads : DeleteFile(t) \/ DeleteRow(t)  BY <1>6 DEF DeleteFile, DeleteRow
<1>7. CASE \E withFace \in BOOLEAN, text \in UserTexts \cup {NoText} : UploadRow(withFace, text)
  BY <1>7 DEF UploadRow
<1>. QED
  BY <1>1, <1>2, <1>3, <1>4, <1>5, <1>6, <1>7, Zenon DEF Next, Rebuild

\* Every request that writes metadata is about to ask for an embedding.
LEMMA MetaChanges ==
  ASSUME Stepping, [Next]_vars, ~HandlerSteps, NEW m \in memes', meta'[m] # meta[m]
  PROVE  EmbedAsked(m)'
<1>1. m \in Memes /\ act \in [Threads -> Requests \cup {Idle}]  BY NextMemes, Threading
<1>2. CASE meta' = meta  BY <1>2
<1>3. CASE \E withFace \in BOOLEAN, text \in UserTexts \cup {NoText} : UploadRow(withFace, text)
  BY <1>1, <1>3, UploadEffect DEF UploadRow, EmbedAsked, Stepping, DataTypes
<1>4. ASSUME NEW t \in Threads, NEW n \in Memes, NEW text \in UserTexts \cup {NoText},
             Edit(t, n, text)
      PROVE  EmbedAsked(m)'
  <2>1. act' = [act EXCEPT ![t] = [op |-> "enqueue", meme |-> n]] /\ (m # n => meta'[m] = meta[m])
    BY <1>1, <1>4 DEF Edit, UpdateMetadata, Stepping, DataTypes
  <2>. QED  BY <1>1, <2>1 DEF EmbedAsked
<1>5. ASSUME NEW t \in Threads, DeleteRow(t)
      PROVE  FALSE
  BY <1>1, <1>5, DeleteRowEffect DEF Stepping, DataTypes
<1>6. CASE RefreshFts \/ Crash \/ UploadPipeline \/ (StartUp /\ UNCHANGED <<data, control>>)
           \/ Deliver \/ WorkerStops \/ BeginShutdown \/ WorkerTake \/ WorkerFinish
           \/ ReindexDrop \/ ReindexMeme \/ ReindexEnds \/ UNCHANGED vars
  BY <1>2, <1>6 DEF RefreshFts, Crash, UploadPipeline, Deliver, WorkerStops, BeginShutdown,
     WorkerTake, WorkerFinish, ReindexDrop, ReindexMeme, ReindexEnds, data, vars
<1>7. CASE \/ \E n \in Memes : UploadFile(n)
           \/ \E t \in Threads, n \in Memes : DeletePoint(t, n)
  BY <1>2, <1>7 DEF UploadFile, DeletePoint
<1>8. ASSUME NEW t \in Threads, EditEnqueue(t) \/ EnqueuePut(t) \/ DeleteFile(t)
      PROVE  FALSE
  BY <1>2, <1>8 DEF EditEnqueue, EnqueuePut, DeleteFile, data
<1>. QED  BY <1>3, <1>4, <1>5, <1>6, <1>7, <1>8, Zenon DEF Next

\* An unfinished row that is not the running job's stays, and is begun at most.
LEMMA DueStays ==
  ASSUME Stepping, [Next]_vars, NEW m \in memes', NEW e \in RowsOf(m, EmbedTypes),
         Queue!Unfinished(e), current # None => current.id # e
  PROVE  /\ e \in RowsOf(m, EmbedTypes)' /\ Queue!Unfinished(e)'
         /\ current' # None /\ current'.id = e => work'.phase = "begin"
<1>1. /\ e \in JobIds /\ jobs[e] # None /\ jobs[e].meme = m /\ jobs[e].type \in EmbedTypes
      /\ jobs[e].status \in {"PENDING", "RUNNING"}
  BY DEF RowsOf, Queue!Unfinished, Queue!UnfinishedIn
<1>2. /\ jobs'[e] # None /\ jobs'[e].meme = m /\ jobs'[e].type \in EmbedTypes
      /\ jobs'[e].status \in {"PENDING", "RUNNING"}
      /\ (current' # None /\ current'.id = e => work'.phase = "begin")
  <2>1. CASE WorkerTake  BY <1>1, <2>1, WorkerTakeEffect DEF RowUpdated
  <2>2. CASE WorkerFinish  BY <1>1, <2>2, WorkerFinishEffect DEF RowUpdated
  <2>3. CASE ~WorkerTake /\ ~WorkerFinish
    BY <1>1, <2>3, OtherRows, CrashEffect DEF RowsStay
  <2>. QED  BY <2>1, <2>2, <2>3
<1>. QED  BY <1>1, <1>2 DEF RowsOf, Queue!Unfinished, Queue!UnfinishedIn

LEMMA RunningIsOld ==
  ASSUME Queue!IInv, current # None
  PROVE  current.id \in JobIds /\ current.id < nextId
<1>1. JQ!MemoryInv  BY SameQueue DEF JQ!IInv
<1>2. \A job \in JQ!HeldJobs : job.id \in JQ!JobIds /\ job.id < nextId
  BY <1>1, JQ!HeldIds, QueueAssumptions
<1>. QED  BY <1>2 DEF JQ!HeldJobs, JQ!JobIds, JobIds

LEMMA EmbedReading ==
  ASSUME Stepping, HandlerSteps, Handling(EmbedTypes, "read")'
  PROVE  EmbedRead
<1>1. current' = current /\ current # None /\ current.type \in EmbedTypes /\ work'.phase = "read"
  BY HandlerFrame DEF Handling, HandlerRest, queueVars
<1>. USE <1>1 DEF EmbedTypes
<1>2. ~ReadImage /\ ~WriteCaption /\ ~OcrRead /\ ~Face /\ \A found \in BOOLEAN : ~OcrWrite(found)
  BY DEF ReadImage, WriteCaption, OcrRead, Face, OcrWrite, Handling
<1>3. ~EmbedUpsert /\ ~EmbedLog /\ ~HandlerRaises
  BY GotoTypes DEF EmbedUpsert, EmbedLog, HandlerRaises, Handling, Stepping, Phases
<1>. QED  BY <1>2, <1>3, Zenon DEF HandlerSteps

LEMMA OldReadsAreRepeated_Next ==
  ASSUME Stepping, OldReadsAreRepeated, [Next]_vars, Typed
  PROVE  OldReadsAreRepeated'
<1> SUFFICES ASSUME Handling(EmbedTypes, "read")', ~EmbedAsked(current.meme)',
                    ~Accounted(current.meme)', current' = current,
                    meta'[current.meme] \notin {None, work'.seen}
             PROVE  \E e \in JobIds : /\ e \in RowsOf(current.meme, EmbedTypes)'
                                      /\ Queue!Unfinished(e)' /\ e # current.id
  <2>1. Handling(EmbedTypes, "read")' => ~WorkerTake /\ ~WorkerFinish /\ ~Crash
    BY WorkerTakeEffect, CrashEffect DEF Handling, WorkerFinish, NoWork
  <2>2. Handling(EmbedTypes, "read")' => current' = current  BY <2>1, OtherRows
  <2>. QED  BY <2>2 DEF OldReadsAreRepeated, RowsOf
<1> DEFINE m == current.meme
<1>1. current # None /\ current.type \in EmbedTypes /\ work'.phase = "read"  BY DEF Handling
<1>2. m \in Memes /\ m \in memes'
  BY <1>1, QueueTypes DEF Stepping, Typed, MetaRows
<1>3. ~EmbedRead
  BY <1>1 DEF EmbedRead, data
<1>4. ~HandlerSteps  BY <1>3, EmbedReading
<1>5. ~WorkerTake /\ ~WorkerFinish /\ ~Crash
  BY <1>1, WorkerTakeEffect, CrashEffect DEF WorkerFinish, NoWork
<1>6. work' = work  BY <1>4, <1>5, OtherFrame
<1>7. meta'[m] = meta[m]  BY <1>2, <1>4, MetaChanges
<1>8. ~ReindexMeme  BY <1>1, NothingHeldDown DEF Stepping, Rebuilding, ReindexMeme
<1>9. CASE EmbedAsked(m) \/ Accounted(m)
  <2>1. NewEmbed(m)  BY <1>2, <1>8, <1>9, AnswersStay
  <2>2. nextId # current.id  BY <1>1, RunningIsOld, QueueTypes DEF Stepping, JobIds
  <2>. QED  BY <2>1, <2>2 DEF NewEmbed, RowsOf, Queue!Unfinished, Queue!UnfinishedIn
<1>10. ASSUME NEW e \in RowsOf(m, EmbedTypes), Queue!Unfinished(e), e # current.id
       PROVE  \E i \in JobIds : i \in RowsOf(m, EmbedTypes)' /\ Queue!Unfinished(i)' /\ i # current.id
  <2>1. e \in JobIds  BY DEF RowsOf
  <2>. QED  BY <1>2, <1>10, <2>1, DueStays
<1>11. Handling(EmbedTypes, "read")  BY <1>1, <1>6 DEF Handling
<1>. QED  BY <1>6, <1>7, <1>9, <1>10, <1>11 DEF OldReadsAreRepeated


\* What the handlers do to an embedding that is due.
LEMMA HandlerDue ==
  ASSUME Stepping, HandlerSteps, current.type \in EmbedTypes, ~EmbedUpsert,
         NEW m, current.meme = m, HasText(meta[m]), meta[m] # None,
         \/ work.phase \in {"begin", "failed"}
         \/ work.phase = "read" /\ work.seen = meta[m]
  PROVE  \/ work'.phase = "failed"
         \/ work'.phase = "read" /\ work'.seen = meta'[m]
<1>. USE DEF EmbedTypes
<1>1. ~ReadImage /\ ~WriteCaption /\ ~OcrRead /\ ~Face /\ \A found \in BOOLEAN : ~OcrWrite(found)
  BY DEF ReadImage, WriteCaption, OcrRead, Face, OcrWrite, Handling
<1>2. CASE EmbedRead  BY <1>2 DEF EmbedRead, data
<1>3. CASE EmbedLog  BY <1>3 DEF EmbedLog, Handling
<1>4. CASE HandlerRaises  BY <1>4, GotoTypes DEF HandlerRaises, Stepping, Phases
<1>. QED  BY <1>1, <1>2, <1>3, <1>4, Zenon DEF HandlerSteps

\* A point that a step makes stale is accounted for, or the rebuild's.
LEMMA PointChanges ==
  ASSUME Stepping, [Next]_vars, ~HandlerSteps, NEW m \in memes', Stale(m)', meta'[m] = meta[m],
         ~Stale(m)
  PROVE  Accounted(m)' \/ (rebuild' # None /\ m \in rebuild')
<1>1. /\ m \in Memes /\ act \in [Threads -> Requests \cup {Idle}] /\ point'[m] # point[m]
      /\ meta[m] # None /\ HasText(meta[m])
  BY NextMemes, Threading DEF Stale
<1>2. CASE RefreshFts \/ Crash \/ UploadPipeline \/ (StartUp /\ UNCHANGED <<data, control>>)
           \/ Deliver \/ WorkerStops \/ BeginShutdown \/ WorkerTake \/ WorkerFinish
           \/ ReindexEnds \/ UNCHANGED vars
  BY <1>1, <1>2 DEF RefreshFts, Crash, UploadPipeline, Deliver, WorkerStops, BeginShutdown,
     WorkerTake, WorkerFinish, ReindexEnds, data, vars
<1>3. CASE \/ \E n \in Memes : UploadFile(n)
           \/ \E withFace \in BOOLEAN, text \in UserTexts \cup {NoText} : UploadRow(withFace, text)
           \/ \E t \in Threads, n \in Memes, text \in UserTexts \cup {NoText} : Edit(t, n, text)
  BY <1>1, <1>3 DEF UploadFile, UploadRow, Edit
<1>4. ASSUME NEW t \in Threads, EditEnqueue(t) \/ EnqueuePut(t) \/ DeleteFile(t) \/ DeleteRow(t)
      PROVE  FALSE
  BY <1>1, <1>4 DEF EditEnqueue, EnqueuePut, DeleteFile, DeleteRow, data
<1>5. ASSUME NEW t \in Threads, NEW n \in Memes, DeletePoint(t, n)
      PROVE  Accounted(m)'
  <2>1. /\ act' = [act EXCEPT ![t] = [op |-> "unlink", meme |-> n]] /\ (m # n => point'[m] = point[m])
    BY <1>1, <1>5 DEF DeletePoint, Stepping, DataTypes
  <2>. QED  BY <1>1, <2>1 DEF Accounted, Deleting
<1>6. CASE ReindexDrop
  <2>1. rebuild' = memes /\ memes' = memes  BY <1>6 DEF ReindexDrop, queueVars
  <2>. QED  BY <2>1, NextMemes, NoMemeAssumption
<1>7. CASE ReindexMeme
  <2>1. PICK n \in rebuild :
          point' = IF HasText(meta[n]) THEN [point EXCEPT ![n] = meta[n]] ELSE point
    BY <1>7 DEF ReindexMeme
  <2>2. n = m /\ point'[m] = meta[m]  BY <1>1, <2>1 DEF Stepping, DataTypes
  <2>. QED  BY <2>2 DEF Stale
<1>. QED  BY <1>2, <1>3, <1>4, <1>5, <1>6, <1>7, Zenon DEF Next

\* A point that the rebuild leaves stale it still owes, or has given up.
LEMMA RebuildOwes ==
  ASSUME Stepping, [Next]_vars, NEW m \in memes', Stale(m)', rebuild # None, m \in rebuild
  PROVE  Accounted(m)' \/ (rebuild' # None /\ m \in rebuild')
<1>1. server \in {"down", "stopped"} /\ current = None /\ m \in Memes
  BY NothingHeldDown, NextMemes DEF Stepping, Rebuilding
<1>2. ~WorkerTake /\ ~WorkerFinish /\ ~HandlerSteps /\ ~Crash
  BY <1>1, HandlerFrame, WorkerFinishEffect
  DEF WorkerTake, Queue!WorkerTake, Queue!WorkerTurn, Crash, Queue!Crash
<1>3. CASE rebuild' = rebuild  BY <1>3
<1>4. CASE ReindexDrop  BY <1>4 DEF ReindexDrop
<1>5. CASE ReindexMeme
  <2>1. PICK n \in rebuild :
          /\ point' = IF HasText(meta[n]) THEN [point EXCEPT ![n] = meta[n]] ELSE point
          /\ rebuild' = rebuild \ {n} /\ meta' = meta
    BY <1>5 DEF ReindexMeme
  <2>2. n # m  BY <1>1, <2>1 DEF Stale, Stepping, DataTypes
  <2>3. rebuild' \in SUBSET Memes
    BY <2>1, NextMemes DEF Stepping, Rebuilding
  <2>. QED  BY <2>1, <2>2, <2>3, NoMemeAssumption
<1>6. CASE ReindexEnds
  <2>1. "point" \in excused'[m]  BY <1>1, <1>6 DEF ReindexEnds, Excuse
  <2>. QED  BY <2>1 DEF Accounted
<1>. QED  BY <1>2, <1>3, <1>4, <1>5, <1>6, OtherFrame DEF Rebuild

\* An answer that stands for a stale point stays, or becomes a row.
LEMMA StaleAnswers ==
  ASSUME Stepping, [Next]_vars, NEW m \in memes', Stale(m)', EmbedAsked(m) \/ Accounted(m)
  PROVE  EmbedAsked(m)' \/ Accounted(m)' \/ NewEmbed(m)
<1>1. CASE ~ReindexMeme  BY <1>1, AnswersStay
<1>2. CASE ReindexMeme
  <2>1. PICK n \in rebuild :
          /\ point' = IF HasText(meta[n]) THEN [point EXCEPT ![n] = meta[n]] ELSE point
          /\ IF Captioned(n) THEN Redone(n, {"point"}) ELSE UNCHANGED excused
    BY <1>2 DEF ReindexMeme
  <2>2. UNCHANGED <<meta, act, pipeline, jobs>> /\ m \in Memes
    BY <1>2, NextMemes DEF ReindexMeme, queueVars
  <2>3. n # m \/ excused'[m] = excused[m]  BY <2>1, <2>2 DEF Stale, Stepping, DataTypes
  <2>4. excused'[m] = excused[m]  BY <2>1, <2>2, <2>3 DEF Redone, Stepping, DataTypes
  <2>. QED  BY <2>2, <2>4 DEF EmbedAsked, Accounted, EmbedFailed, RowsOf, Deleting
<1>. QED  BY <1>1, <1>2

LEMMA IndexCatchesUp_Next ==
  ASSUME Stepping, [Next]_vars, Typed, IndexCatchesUp, TextsAreEmbedded, OldReadsAreRepeated
  PROVE  IndexCatchesUp'
<1> SUFFICES ASSUME NEW m \in Memes, Stale(m)', ~EmbedAsked(m)', ~Accounted(m)',
                    ~(rebuild' # None /\ m \in rebuild')
             PROVE  \E i \in JobIds :
                      /\ i \in RowsOf(m, EmbedTypes)' /\ Queue!Unfinished(i)'
                      /\ current' # None /\ current'.id = i =>
                           \/ work'.phase \in {"begin", "failed"}
                           \/ work'.phase = "read" /\ work'.seen = meta'[m]
  BY DEF IndexCatchesUp, EmbedDue, RowsOf
<1> DEFINE Goal == \E i \in JobIds :
                      /\ i \in RowsOf(m, EmbedTypes)' /\ Queue!Unfinished(i)'
                      /\ current' # None /\ current'.id = i =>
                           \/ work'.phase \in {"begin", "failed"}
                           \/ work'.phase = "read" /\ work'.seen = meta'[m]
<1>1. /\ m \in memes' /\ meta'[m] # None /\ HasText(meta'[m]) /\ point'[m] # meta'[m]
  BY DEF Stale, Typed, MetaRows
<1>2. ASSUME EmbedAsked(m) \/ Accounted(m)
      PROVE  Goal
  <2>1. NewEmbed(m)  BY <1>1, <1>2, StaleAnswers
  <2>2. PICK n \in JobIds : /\ n = nextId /\ jobs[n] = None
                           /\ jobs'[n] # None /\ jobs'[n].meme = m /\ jobs'[n].type \in EmbedTypes
                           /\ jobs'[n].status = "PENDING"
    BY <2>1 DEF NewEmbed
  <2>3. n \in RowsOf(m, EmbedTypes)' /\ Queue!Unfinished(n)'
    BY <2>2 DEF RowsOf, Queue!Unfinished, Queue!UnfinishedIn
  <2>4. current' # None /\ current'.id = n => FALSE
    <3>1. CASE WorkerTake  BY <2>2, <3>1, WorkerTakeEffect DEF RowUpdated
    <3>2. CASE WorkerFinish  BY <2>2, <3>2, WorkerFinishEffect DEF RowUpdated
    <3>3. CASE ~WorkerTake /\ ~WorkerFinish
      BY <2>2, <3>3, OtherRows, CrashEffect, RunningIsOld, QueueTypes DEF Stepping, JobIds
    <3>. QED  BY <3>1, <3>2, <3>3
  <2>. QED  BY <2>3, <2>4
<1>3. ASSUME NEW e \in RowsOf(m, EmbedTypes), Queue!Unfinished(e), current # None => current.id # e
      PROVE  Goal
  <2>1. e \in JobIds  BY DEF RowsOf
  <2>. QED  BY <1>1, <1>3, <2>1, DueStays
<1>4. CASE meta'[m] # meta[m]
  <2>1. HandlerSteps  BY <1>1, <1>4, MetaChanges
  <2>2. WriteCaption \/ \E found \in BOOLEAN : OcrWrite(found)  BY <1>4, <2>1, HandlerFrame
  <2>3. current # None /\ current.type \in TextTypes /\ current.meme = m /\ m \in memes
    BY <1>1, <1>4, <2>2, TextWritten DEF Stepping, MetaRows
  <2>4. current.id \in TextJobs(m)
    <3>1. CASE jobs[current.id] = None
      BY <2>3, <3>1 DEF TextJobs, LeftTextJobs, Queue!HeldJobs
    <3>2. CASE jobs[current.id] # None
      BY <2>3, <3>2, RunningRow, QueueTypes
      DEF Stepping, TextJobs, RowsOf, Queue!Unfinished, Queue!UnfinishedIn
    <3>. QED  BY <3>1, <3>2
  <2>5. current.id \in JobIds  BY <2>3, QueueTypes DEF Stepping
  <2>6. ASSUME NEW e \in RowsOf(m, EmbedTypes), Queue!Unfinished(e), current.id < e
        PROVE  Goal
    <3>1. current.id # e  BY <2>5, <2>6 DEF JobIds
    <3>. QED  BY <1>3, <2>6, <3>1
  <2>. QED  BY <1>2, <2>3, <2>4, <2>6 DEF TextsAreEmbedded
<1>5. CASE meta'[m] = meta[m] /\ ~Stale(m)
  <2>1. HandlerSteps  BY <1>1, <1>5, PointChanges
  <2>2. EmbedUpsert /\ point'[m] # point[m]
    BY <1>1, <1>5, <2>1, HandlerFrame DEF Stale
  <2>3. current.meme = m /\ point'[m] = work.seen /\ Handling(EmbedTypes, "read") /\ current # None
    BY <2>2 DEF EmbedUpsert, Handling, EmbedTypes, Stepping, DataTypes
  <2>4. meta[m] \notin {None, work.seen}  BY <1>1, <1>5, <2>3
  <2>. QED  BY <1>2, <1>3, <2>3, <2>4 DEF OldReadsAreRepeated
<1>6. CASE meta'[m] = meta[m] /\ Stale(m)
  <2>1. CASE EmbedAsked(m) \/ Accounted(m)  BY <1>2, <2>1
  <2>2. ~(rebuild # None /\ m \in rebuild)  BY <1>1, RebuildOwes
  <2>3. ASSUME NEW i \in RowsOf(m, EmbedTypes), Queue!Unfinished(i), current # None, current.id = i,
               \/ work.phase \in {"begin", "failed"}
               \/ work.phase = "read" /\ work.seen = meta[m]
        PROVE  Goal
    <3>1. /\ i \in JobIds /\ jobs[i] # None /\ jobs[i].meme = m /\ jobs[i].type \in EmbedTypes
          /\ jobs[i].status = "RUNNING" /\ current.meme = m /\ current.type \in EmbedTypes
      BY <2>3, RunningRow DEF RowsOf, Stepping
    <3>2. CASE WorkerTake  BY <2>3, <3>2, WorkerTakeEffect
    <3>3. CASE WorkerFinish
      <4>1. work.phase = "failed"  BY <2>3, <3>3, WorkerFinishEffect
      <4>2. /\ jobs'[i] # None /\ jobs'[i].meme = m /\ jobs'[i].type \in EmbedTypes
            /\ \/ jobs'[i].status = "ERROR"
               \/ jobs'[i].status = "RUNNING" /\ work'.phase = "begin"
        BY <2>3, <3>1, <3>3, <4>1, WorkerFinishEffect DEF RowUpdated
      <4>3. jobs'[i].status # "ERROR"  BY <3>1, <4>2 DEF Accounted, EmbedFailed, RowsOf
      <4>. QED  BY <3>1, <4>2, <4>3 DEF RowsOf, Queue!Unfinished, Queue!UnfinishedIn
    <3>4. CASE ~WorkerTake /\ ~WorkerFinish
      <4>1. jobs'[i] = jobs[i] /\ (Crash \/ current' = current)
        BY <1>1, <3>1, <3>4, OtherRows DEF RowsStay
      <4>2. i \in RowsOf(m, EmbedTypes)' /\ Queue!Unfinished(i)'
        BY <3>1, <4>1 DEF RowsOf, Queue!Unfinished, Queue!UnfinishedIn
      <4>3. CASE Crash  BY <3>1, <4>2, <4>3, CrashEffect
      <4>4. CASE HandlerSteps /\ EmbedUpsert
        <5>1. point'[m] = work.seen /\ work.phase = "read"
          BY <3>1, <4>4 DEF EmbedUpsert, Handling, Stepping, DataTypes
        <5>. QED  BY <1>1, <1>6, <2>3, <5>1
      <4>5. CASE HandlerSteps /\ ~EmbedUpsert
        BY <1>1, <1>6, <2>3, <3>1, <4>2, <4>5, HandlerDue
      <4>6. CASE ~HandlerSteps /\ ~Crash
        BY <1>6, <2>3, <3>1, <3>4, <4>2, <4>6, OtherFrame
      <4>. QED  BY <4>3, <4>4, <4>5, <4>6
    <3>. QED  BY <3>2, <3>3, <3>4
  <2>. QED  BY <1>3, <1>6, <2>1, <2>2, <2>3 DEF IndexCatchesUp, EmbedDue
<1>. QED  BY <1>4, <1>5, <1>6


-----------------------------------------------------------------------------
(* The keyword index *)

LEMMA KeywordFrame ==
  ASSUME Stepping, [Next]_vars, ~RefreshFts, ~Crash, ~HandlerSteps,
         \A withFace \in BOOLEAN, text \in UserTexts \cup {NoText} : ~UploadRow(withFace, text),
         \A t \in Threads, m \in Memes, text \in UserTexts \cup {NoText} : ~Edit(t, m, text),
         \A t \in Threads : ~DeleteRow(t)
  PROVE  /\ UNCHANGED <<meta, fts, ftsDue>> /\ (ftsDue = None \/ UNCHANGED vars)
         /\ \A m \in Memes : "keywords" \in excused[m] => "keywords" \in excused'[m]
<1>1. ftsDue = None \/ UNCHANGED vars  BY Zenon DEF Next
<1>2. CASE ReindexMeme
  <2>1. PICK n \in rebuild : IF Captioned(n) THEN Redone(n, {"point"}) ELSE UNCHANGED excused
    BY <1>2 DEF ReindexMeme
  <2>2. \A m \in Memes : "keywords" \in excused[m] => "keywords" \in excused'[m]
    BY <2>1 DEF Redone, Stepping, DataTypes
  <2>. QED  BY <1>1, <1>2, <2>2 DEF ReindexMeme
<1>3. CASE ReindexEnds
  <2>1. \A m \in Memes : "keywords" \in excused[m] => "keywords" \in excused'[m]
    BY <1>3 DEF ReindexEnds, Excuse
  <2>. QED  BY <1>1, <1>3, <2>1 DEF ReindexEnds, data
<1>4. CASE UploadPipeline \/ (StartUp /\ UNCHANGED <<data, control>>)
           \/ Deliver \/ WorkerStops \/ BeginShutdown \/ WorkerTake \/ WorkerFinish
           \/ ReindexDrop \/ UNCHANGED vars
  BY <1>1, <1>4 DEF UploadPipeline, Deliver, WorkerStops, BeginShutdown,
     WorkerTake, WorkerFinish, ReindexDrop, data, control, vars
<1>5. CASE \/ \E n \in Memes : UploadFile(n)
           \/ \E t \in Threads, n \in Memes : DeletePoint(t, n)
  BY <1>1, <1>5 DEF UploadFile, DeletePoint
<1>6. CASE \E t \in Threads : EditEnqueue(t) \/ EnqueuePut(t) \/ DeleteFile(t)
  BY <1>1, <1>6 DEF EditEnqueue, EnqueuePut, DeleteFile, data, control
<1>. QED  BY <1>2, <1>3, <1>4, <1>5, <1>6, Zenon DEF Next

LEMMA EditEffect ==
  ASSUME Stepping, NEW t \in Threads, NEW n \in Memes, NEW text \in UserTexts \cup {NoText},
         Edit(t, n, text)
  PROVE  /\ act[t] = Idle /\ act' = [act EXCEPT ![t] = [op |-> "enqueue", meme |-> n]]
         /\ n \in memes /\ ftsDue' = n /\ UNCHANGED queueVars /\ UNCHANGED <<fts, files, point, work, rebuild>>
         /\ \A m \in Memes : m # n => meta'[m] = meta[m] /\ excused'[m] = excused[m]
         /\ \A m \in Memes : "file" \in excused[m] => "file" \in excused'[m]
BY DEF Edit, ThreadFree, UpdateMetadata, Redone, Stepping, DataTypes

LEMMA UpdatesAreOwned_Next ==
  ASSUME Stepping, [Next]_vars, UpdatesAreOwned
  PROVE  UpdatesAreOwned'
<1> SUFFICES ASSUME ftsDue' # None
             PROVE  \/ InRequest(ftsDue)'
                    \/ current' # None /\ current'.meme = ftsDue' /\ current'.type \in TextTypes
  BY DEF UpdatesAreOwned
<1>1. ~RefreshFts /\ ~Crash  BY DEF RefreshFts, Crash
<1>2. CASE \E withFace \in BOOLEAN, text \in UserTexts \cup {NoText} : UploadRow(withFace, text)
  BY <1>2, UploadEffect DEF InRequest
<1>3. CASE \E t \in Threads, m \in Memes, text \in UserTexts \cup {NoText} : Edit(t, m, text)
  <2>1. \E t \in Threads : act'[t].meme = ftsDue'  BY <1>3, EditEffect, Threading
  <2>. QED  BY <2>1 DEF InRequest
<1>4. CASE HandlerSteps
  <2>1. ftsDue = None \/ UNCHANGED vars  BY <1>1, Zenon DEF Next
  <2>2. WriteCaption \/ (\E found \in BOOLEAN : OcrWrite(found)) \/ UNCHANGED vars
    BY <1>4, <2>1, HandlerFrame
  <2>3. CASE UNCHANGED vars
    BY <2>3 DEF vars, queueVars, control, UpdatesAreOwned, InRequest
  <2>. QED  BY <1>4, <2>2, <2>3, HandlerFrame, TextWritten DEF HandlerRest, queueVars
<1>5. CASE \E t \in Threads : DeleteRow(t)
  <2>1. ftsDue = None \/ UNCHANGED vars  BY <1>1, Zenon DEF Next
  <2>2. UNCHANGED vars  BY <1>5, <2>1 DEF DeleteRow
  <2>. QED  BY <2>2 DEF vars, queueVars, control, UpdatesAreOwned, InRequest
<1>6. CASE UNCHANGED vars
  BY <1>6 DEF vars, queueVars, control, UpdatesAreOwned, InRequest
<1>. QED  BY <1>1, <1>2, <1>3, <1>4, <1>5, <1>6, KeywordFrame

LEMMA TextFinishing ==
  ASSUME Stepping, HandlerSteps, Handling(TextTypes, "ok")', work' # work
  PROVE  WriteCaption \/ \E found \in BOOLEAN : OcrWrite(found)
<1>1. current' = current /\ current # None /\ current.type \in TextTypes /\ work'.phase = "ok"
  BY HandlerFrame DEF Handling, HandlerRest, queueVars
<1>. USE <1>1 DEF TextTypes
<1>2. ~Face /\ ~EmbedRead /\ ~EmbedUpsert /\ ~EmbedLog
  BY DEF Face, EmbedRead, EmbedUpsert, EmbedLog, Handling
<1>3. ~HandlerRaises /\ ~ReadImage
  BY GotoTypes DEF HandlerRaises, ReadImage, Stepping, Phases
<1>4. ~OcrRead  BY GotoTypes DEF OcrRead, Stepping, Phases
<1>. QED  BY <1>2, <1>3, <1>4, Zenon DEF HandlerSteps


LEMMA Undisturbed ==
  ASSUME [Next]_vars, ~RefreshFts, ~Crash
  PROVE  ftsDue = None \/ UNCHANGED vars
BY Zenon DEF Next

LEMMA WritesAreIndexed_Next ==
  ASSUME Stepping, [Next]_vars, WritesAreIndexed
  PROVE  WritesAreIndexed'
<1> SUFFICES ASSUME Handling(TextTypes, "ok")'
             PROVE  ftsDue' = current'.meme \/ fts'[current'.meme] = meta'[current'.meme]
  BY DEF WritesAreIndexed
<1> DEFINE m == current.meme
<1>1. ~WorkerTake /\ ~WorkerFinish /\ ~Crash
  BY WorkerTakeEffect, CrashEffect DEF Handling, WorkerFinish, NoWork
<1>2. current' = current /\ current # None /\ current.type \in TextTypes /\ work'.phase = "ok"
  BY <1>1, OtherRows DEF Handling
<1>3. m \in Memes /\ m # None  BY <1>2, QueueTypes, NoMemeAssumption DEF Stepping
<1>4. CASE HandlerSteps /\ work' # work
  BY <1>2, <1>4, TextFinishing, TextWritten
<1> SUFFICES ASSUME work' = work
             PROVE  ftsDue' = m \/ fts'[m] = meta'[m]
  BY <1>1, <1>2, <1>4, OtherFrame
<1>5. ftsDue = m \/ fts[m] = meta[m]  BY <1>2 DEF WritesAreIndexed, Handling
<1>6. CASE RefreshFts  BY <1>3, <1>5, <1>6 DEF RefreshFts, Stepping, DataTypes
<1>a. CASE UNCHANGED vars  BY <1>5, <1>a DEF vars, data, control
<1> SUFFICES ASSUME ftsDue = None PROVE ftsDue' = m \/ fts'[m] = meta'[m]
  BY <1>1, <1>6, <1>a, Undisturbed
<1>7. CASE \E withFace \in BOOLEAN, text \in UserTexts \cup {NoText} : UploadRow(withFace, text)
  <2>1. fts' = fts /\ ftsDue' = uploading /\ (m # uploading => meta'[m] = meta[m])
    BY <1>3, <1>7, UploadEffect DEF UploadRow, Stepping, DataTypes
  <2>. QED  BY <1>3, <1>5, <2>1
<1>8. CASE \E t \in Threads, n \in Memes, text \in UserTexts \cup {NoText} : Edit(t, n, text)
  <2>1. fts' = fts /\ (m = ftsDue' \/ meta'[m] = meta[m])  BY <1>3, <1>8, EditEffect
  <2>. QED  BY <1>3, <1>5, <2>1
<1>9. CASE \E t \in Threads : DeleteRow(t)
  <2>1. /\ ftsDue' = ftsDue
        /\ fts'[m] = meta'[m] \/ (fts'[m] = fts[m] /\ meta'[m] = meta[m])
    BY <1>3, <1>9, DeleteRowEffect DEF Stepping, DataTypes
  <2>. QED  BY <1>5, <2>1
<1>10. CASE HandlerSteps
  <2>1. CASE UNCHANGED <<meta, ftsDue>>  BY <1>5, <1>10, <2>1, HandlerFrame
  <2>2. CASE WriteCaption \/ \E found \in BOOLEAN : OcrWrite(found)  BY <2>2, TextWritten
  <2>. QED  BY <1>10, <2>1, <2>2, HandlerFrame
<1>. QED  BY <1>1, <1>5, <1>6, <1>7, <1>8, <1>9, <1>10, KeywordFrame

\* A text job that is not done stays so, unless it is the one that ends well.
LEMMA TextRowsStay ==
  ASSUME Stepping, [Next]_vars, NEW m \in memes', NEW i \in RowsOf(m, TextTypes),
         jobs[i].status # "DONE",
         ~(WorkerFinish /\ work.phase = "ok" /\ current.id = i)
  PROVE  i \in RowsOf(m, TextTypes)' /\ jobs'[i].status # "DONE"
<1>1. i \in JobIds /\ jobs[i] # None /\ jobs[i].meme = m /\ jobs[i].type \in TextTypes
  BY DEF RowsOf
<1>2. CASE WorkerTake  BY <1>1, <1>2, WorkerTakeEffect DEF RowUpdated, RowsOf
<1>3. CASE WorkerFinish  BY <1>1, <1>3, WorkerFinishEffect DEF RowUpdated, RowsOf
<1>4. CASE ~WorkerTake /\ ~WorkerFinish  BY <1>1, <1>4, OtherRows DEF RowsStay, RowsOf
<1>. QED  BY <1>2, <1>3, <1>4

LEMMA TextRowEnds ==
  ASSUME Stepping, NEW m, NEW i \in RowsOf(m, TextTypes),
         WorkerFinish, work.phase = "ok", current.id = i
  PROVE  /\ Handling(TextTypes, "ok") /\ current.meme = m /\ current # None /\ jobs[current.id] # None
         /\ current.type \in TextTypes
BY WorkerFinishEffect, RunningRow DEF RowsOf, Handling, Stepping

CaptionAsked(m) == \E k \in DOMAIN pipeline : pipeline[k] = [meme |-> m, type |-> "CAPTION"]

\* The caption an upload has still to ask for becomes a row.
LEMMA CaptionStays ==
  ASSUME Stepping, [Next]_vars, ~Crash, NEW m \in memes', CaptionAsked(m)
  PROVE  CaptionAsked(m)' \/ \E i \in RowsOf(m, TextTypes)' : jobs'[i].status # "DONE"
<1>1. CASE UploadPipeline
  <2>1. PICK k \in DOMAIN pipeline : pipeline[k] = [meme |-> m, type |-> "CAPTION"]
    BY DEF CaptionAsked
  <2>2. PICK n \in Memes, type \in JobTypes :
          /\ RowAdded(n, type)
          /\ \/ pipeline[k] = [meme |-> n, type |-> type]
             \/ \E l \in DOMAIN pipeline' : pipeline'[l] = pipeline[k]
    BY <1>1, <2>1, PipelineEffect
  <2>3. CASE \E l \in DOMAIN pipeline' : pipeline'[l] = pipeline[k]
    BY <2>1, <2>3 DEF CaptionAsked
  <2>4. CASE pipeline[k] = [meme |-> n, type |-> type]
    <3>1. n = m /\ type = "CAPTION"  BY <2>1, <2>4
    <3>2. PICK i \in JobIds : /\ i = nextId /\ jobs'[i] # None /\ jobs'[i].meme = m
                              /\ jobs'[i].type = "CAPTION" /\ jobs'[i].status = "PENDING"
      BY <2>2, <3>1 DEF RowAdded
    <3>. QED  BY <3>2 DEF RowsOf, TextTypes
  <2>. QED  BY <2>2, <2>3, <2>4
<1>2. CASE pipeline' = pipeline  BY <1>2 DEF CaptionAsked
<1>3. CASE \E withFace \in BOOLEAN, text \in UserTexts \cup {NoText} : UploadRow(withFace, text)
  <2>1. pipeline = <<>>  BY <1>3, UploadEffect
  <2>. QED  BY <2>1 DEF CaptionAsked
<1>4. CASE HandlerSteps \/ RefreshFts \/ (StartUp /\ UNCHANGED <<data, control>>)
           \/ Deliver \/ WorkerStops \/ BeginShutdown \/ WorkerTake \/ WorkerFinish
           \/ ReindexDrop \/ ReindexMeme \/ ReindexEnds \/ UNCHANGED vars
  BY <1>2, <1>4, HandlerFrame, QuietEffect, WorkerTakeEffect, WorkerFinishEffect
  DEF HandlerRest, RefreshFts, QuietQueue, ReindexDrop, ReindexMeme, ReindexEnds, vars, queueVars
<1>5. CASE \/ \E n \in Memes : UploadFile(n)
           \/ \E t \in Threads, n \in Memes, text \in UserTexts \cup {NoText} : Edit(t, n, text)
           \/ \E t \in Threads, n \in Memes : DeletePoint(t, n)
  BY <1>2, <1>5 DEF UploadFile, Edit, DeletePoint, queueVars
<1>6. CASE \E t \in Threads : EditEnqueue(t) \/ EnqueuePut(t) \/ DeleteFile(t) \/ DeleteRow(t)
  BY <1>2, <1>6, EditEnqueueEffect, DeleteRowEffect, QuietEffect
  DEF DeleteFile, queueVars, QuietQueue
<1>. QED  BY <1>1, <1>3, <1>4, <1>5, <1>6, Zenon DEF Next

LEMMA LeftTextsAreCovered_Next ==
  ASSUME Stepping, [Next]_vars, LeftTextsAreCovered
  PROVE  LeftTextsAreCovered'
<1> SUFFICES ASSUME NEW m \in memes', LeftTextJobs(m)' # {}
             PROVE  CaptionAsked(m)' \/ \E i \in RowsOf(m, TextTypes)' : jobs'[i].status # "DONE"
  BY DEF LeftTextsAreCovered, CaptionAsked
<1>1. ~Crash  BY CrashEffect
<1>2. CASE m \notin memes
  BY <1>2, NewMemes, UploadEffect DEF CaptionAsked
<1>3. CASE m \in memes
  <2>1. \A i \in JobIds : jobs[i] # None /\ jobs[i].meme \in memes' => jobs'[i] # None
    BY OtherRows, WorkerTakeEffect, WorkerFinishEffect DEF RowsStay, RowUpdated
  <2>2. LeftTextJobs(m) # {}  BY <2>1, LeftStay DEF Stepping
  <2>3. CASE CaptionAsked(m)  BY <1>1, <2>3, CaptionStays
  <2>4. ASSUME NEW i \in RowsOf(m, TextTypes), jobs[i].status # "DONE"
        PROVE  \E j \in RowsOf(m, TextTypes)' : jobs'[j].status # "DONE"
    <3>1. ~(WorkerFinish /\ work.phase = "ok" /\ current.id = i)
      BY <2>2, TextRowEnds, NoLeftWhenRunning DEF Stepping
    <3>. QED  BY <2>4, <3>1, TextRowsStay
  <2>. QED  BY <1>3, <2>2, <2>3, <2>4 DEF LeftTextsAreCovered, CaptionAsked
<1>. QED  BY <1>2, <1>3

LEMMA KeywordIndexCatchesUp_Next ==
  ASSUME Stepping, [Next]_vars, Typed, KeywordIndexCatchesUp, UpdatesAreOwned, WritesAreIndexed,
         LeftTextsAreCovered
  PROVE  KeywordIndexCatchesUp'
<1> DEFINE Owed(m) == \E i \in RowsOf(m, TextTypes) : jobs[i].status # "DONE"
<1>1. ASSUME NEW m \in memes', Owed(m), fts[m] # meta[m], ftsDue # m \/ ~WorkerFinish
      PROVE  Owed(m)'
  <2>1. PICK i \in RowsOf(m, TextTypes) : jobs[i].status # "DONE"  BY <1>1
  <2>2. ~(WorkerFinish /\ work.phase = "ok" /\ current.id = i)
    BY <1>1, TextRowEnds DEF WritesAreIndexed
  <2>. QED  BY <2>1, <2>2, TextRowsStay
<1> SUFFICES ASSUME NEW m \in Memes, fts'[m] # meta'[m]
             PROVE  /\ meta'[m] # None
                    /\ ftsDue' = m \/ "keywords" \in excused'[m] \/ Owed(m)'
  BY DEF KeywordIndexCatchesUp
<1>2. fts[m] # meta[m] => meta[m] # None /\ (ftsDue = m \/ "keywords" \in excused[m] \/ Owed(m))
  BY DEF KeywordIndexCatchesUp
<1>3. m # None  BY NoMemeAssumption
<1>4. ASSUME fts[m] # meta[m], meta'[m] # None, "keywords" \in excused[m] => "keywords" \in excused'[m],
             ftsDue = m => ftsDue' = m, ftsDue = None \/ ~WorkerFinish
      PROVE  /\ meta'[m] # None
             /\ ftsDue' = m \/ "keywords" \in excused'[m] \/ Owed(m)'
  <2>1. m \in memes'  BY <1>4 DEF Typed, MetaRows
  <2>. QED  BY <1>1, <1>2, <1>3, <1>4, <2>1
<1>5. CASE RefreshFts
  <2>1. fts'[m] = IF m = ftsDue THEN meta'[m] ELSE fts[m]
    BY <1>5 DEF RefreshFts, Stepping, DataTypes
  <2>2. /\ m # ftsDue /\ UNCHANGED <<jobs, excused, meta>> /\ fts'[m] = fts[m]
    BY <1>5, <2>1 DEF RefreshFts, queueVars
  <2>. QED  BY <1>2, <2>2 DEF RowsOf
<1>6. CASE Crash
  <2>1. /\ UNCHANGED <<jobs, meta, fts, memes>>
        /\ excused'[m] = IF InRequest(m) THEN excused[m] \cup Places ELSE excused[m]
    BY <1>6, CrashEffect
  <2>2. Owed(m) => Owed(m)'  BY <2>1 DEF RowsOf
  <2>3. CASE ftsDue = m /\ ~InRequest(m)
    <3>1. current # None /\ current.meme = m /\ current.type \in TextTypes
      BY <1>3, <2>3 DEF UpdatesAreOwned
    <3>2. CASE jobs[current.id] # None
      <4>1. current.id \in RowsOf(m, TextTypes) /\ jobs[current.id].status # "DONE"
        BY <3>1, <3>2, RunningRow, QueueTypes DEF Stepping, RowsOf
      <4>. QED  BY <1>2, <2>1, <2>2, <4>1
    <3>3. CASE jobs[current.id] = None
      <4>1. current \in LeftTextJobs(m)  BY <3>1, <3>3 DEF LeftTextJobs, Queue!HeldJobs
      <4>2. m \in memes  BY <1>2, <2>1 DEF Stepping, MetaRows
      <4>3. CaptionAsked(m) => InRequest(m)  BY DEF CaptionAsked, InRequest
      <4>4. Owed(m)  BY <2>3, <4>1, <4>2, <4>3 DEF LeftTextsAreCovered, CaptionAsked
      <4>. QED  BY <1>2, <2>1, <2>2, <4>4
    <3>. QED  BY <3>2, <3>3
  <2>. QED  BY <1>2, <2>1, <2>2, <2>3 DEF Places
<1>a. CASE UNCHANGED vars
  <2>1. UNCHANGED <<jobs, excused, meta, fts, ftsDue>>
    BY <1>a DEF vars, queueVars, data, control
  <2>. QED  BY <1>2, <2>1 DEF RowsOf
<1> SUFFICES ASSUME ftsDue = None
             PROVE  /\ meta'[m] # None
                    /\ ftsDue' = m \/ "keywords" \in excused'[m] \/ Owed(m)'
  BY <1>5, <1>6, <1>a, Undisturbed
<1>7. CASE \E withFace \in BOOLEAN, text \in UserTexts \cup {NoText} : UploadRow(withFace, text)
  <2>1. /\ fts' = fts /\ ftsDue' = uploading
        /\ m # uploading => meta'[m] = meta[m] /\ excused'[m] = excused[m]
        /\ m = uploading => meta'[m] # None
    BY <1>7, UploadEffect, UploadRowTypes DEF UploadRow, Redone, Stepping, DataTypes
  <2>2. CASE m = uploading  BY <2>1, <2>2
  <2>3. CASE m # uploading  BY <1>2, <1>3, <1>4, <2>1, <2>3
  <2>. QED  BY <2>2, <2>3
<1>8. CASE \E t \in Threads, n \in Memes, text \in UserTexts \cup {NoText} : Edit(t, n, text)
  <2>1. PICK n \in Memes :
          /\ n \in memes /\ memes' = memes /\ ftsDue' = n /\ fts' = fts /\ jobs' = jobs
          /\ m # n => meta'[m] = meta[m] /\ excused'[m] = excused[m]
    BY <1>8, EditEffect DEF queueVars
  <2>2. CASE m = n  BY <2>1, <2>2 DEF Typed, MetaRows
  <2>3. CASE m # n
    <3>1. Owed(m) => Owed(m)'  BY <2>1 DEF RowsOf
    <3>. QED  BY <1>2, <1>3, <2>1, <2>3, <3>1
  <2>. QED  BY <2>2, <2>3
<1>9. CASE \E t \in Threads : DeleteRow(t)
  <2>1. /\ ftsDue' = ftsDue /\ excused' = excused
        /\ fts'[m] = fts[m] /\ meta'[m] = meta[m]
    BY <1>9, DeleteRowEffect DEF Stepping, DataTypes
  <2>. QED  BY <1>2, <1>4, <2>1
<1>10. CASE HandlerSteps
  <2>1. /\ fts' = fts /\ UNCHANGED <<jobs, excused>>
        /\ \/ UNCHANGED <<meta, ftsDue>>
           \/ /\ ftsDue' = current.meme /\ (m # current.meme => meta'[m] = meta[m])
              /\ (meta'[m] = None <=> meta[m] = None)
    BY <1>10, HandlerFrame, TextWritten DEF HandlerRest, queueVars
  <2>2. Owed(m) => Owed(m)'  BY <2>1 DEF RowsOf
  <2>. QED  BY <1>2, <1>3, <2>1, <2>2
<1>11. CASE /\ UNCHANGED <<meta, fts, ftsDue>>
            /\ "keywords" \in excused[m] => "keywords" \in excused'[m]
  BY <1>2, <1>4, <1>11
<1>. QED  BY <1>5, <1>6, <1>7, <1>8, <1>9, <1>10, <1>11, KeywordFrame


-----------------------------------------------------------------------------
(* The image *)

LEMMA DeletingStays ==
  ASSUME Stepping, [Next]_vars, ~Crash, NEW m \in memes', Deleting(m)
  PROVE  Deleting(m)'
<1>1. PICK u \in Threads : act[u].meme = m /\ act[u].op \in {"unlink", "row"}
  BY DEF Deleting
<1>2. act \in [Threads -> Requests \cup {Idle}] /\ Idle.op = "idle" /\ act[u] \in Requests
  BY <1>1, Threading
<1>3. CASE act' = act  BY <1>1, <1>3 DEF Deleting
<1>4. ASSUME NEW t \in Threads, NEW n \in Memes, NEW text \in UserTexts \cup {NoText}, Edit(t, n, text)
      PROVE  Deleting(m)'
  BY <1>1, <1>2, <1>4, EditEffect DEF Deleting
<1>5. ASSUME NEW t \in Threads, NEW n \in Memes, DeletePoint(t, n)
      PROVE  Deleting(m)'
  <2>1. act[t] = Idle /\ act' = [act EXCEPT ![t] = [op |-> "unlink", meme |-> n]]
    BY <1>5 DEF DeletePoint, ThreadFree
  <2>. QED  BY <1>1, <1>2, <2>1 DEF Deleting
<1>6. ASSUME NEW t \in Threads, EditEnqueue(t) \/ EnqueuePut(t) \/ DeleteFile(t) \/ DeleteRow(t)
      PROVE  Deleting(m)'
  <2>1. CASE EditEnqueue(t)  BY <1>1, <1>2, <2>1, EditEnqueueEffect DEF Deleting
  <2>2. CASE EnqueuePut(t)  BY <1>3, <2>2 DEF EnqueuePut, control
  <2>3. CASE DeleteFile(t)
    <3>1. act' = [act EXCEPT ![t].op = "row"]  BY <2>3 DEF DeleteFile
    <3>2. CASE t = u
      <4>1. act'[u].op = "row" /\ act'[u].meme = m  BY <1>1, <1>2, <3>1, <3>2 DEF Requests
      <4>. QED  BY <4>1 DEF Deleting
    <3>3. CASE t # u
      <4>1. act'[u] = act[u]  BY <1>2, <3>1, <3>3
      <4>. QED  BY <1>1, <4>1 DEF Deleting
    <3>. QED  BY <3>2, <3>3
  <2>4. CASE DeleteRow(t)
    <3>1. act' = [act EXCEPT ![t] = Idle] /\ act[t].meme # m  BY <2>4, DeleteRowEffect
    <3>2. act'[u] = act[u]  BY <1>1, <1>2, <3>1
    <3>. QED  BY <1>1, <3>2 DEF Deleting
  <2>. QED  BY <1>6, <2>1, <2>2, <2>3, <2>4
<1>7. CASE HandlerSteps \/ RefreshFts \/ (StartUp /\ UNCHANGED <<data, control>>) \/ UploadPipeline
           \/ Deliver \/ WorkerStops \/ BeginShutdown \/ WorkerTake \/ WorkerFinish
           \/ ReindexDrop \/ ReindexMeme \/ ReindexEnds \/ UNCHANGED vars
  BY <1>3, <1>7, HandlerFrame
  DEF HandlerRest, RefreshFts, UploadPipeline, Deliver, WorkerStops, BeginShutdown, WorkerTake,
      WorkerFinish, ReindexDrop, ReindexMeme, ReindexEnds, vars, control
<1>8. CASE \/ \E n \in Memes : UploadFile(n)
           \/ \E withFace \in BOOLEAN, text \in UserTexts \cup {NoText} : UploadRow(withFace, text)
  BY <1>3, <1>8 DEF UploadFile, UploadRow
<1>. QED  BY <1>4, <1>5, <1>6, <1>7, <1>8, Zenon DEF Next

\* A file goes with a deletion that has its row still to remove.
LEMMA FilesStay ==
  ASSUME Stepping, [Next]_vars, NEW m \in files
  PROVE  m \in files' \/ Deleting(m)'
<1>1. CASE files' = files  BY <1>1
<1>2. CASE \E n \in Memes : UploadFile(n)  BY <1>2 DEF UploadFile
<1>3. ASSUME NEW t \in Threads, DeleteFile(t)
      PROVE  m \in files' \/ Deleting(m)'
  <2>1. /\ act[t].op = "unlink" /\ files' = files \ {act[t].meme} /\ act' = [act EXCEPT ![t].op = "row"]
    BY <1>3 DEF DeleteFile
  <2>2. act \in [Threads -> Requests \cup {Idle}] /\ act[t] \in Requests
    BY <2>1, Threading
  <2>3. act'[t].op = "row" /\ act'[t].meme = act[t].meme  BY <2>1, <2>2 DEF Requests
  <2>. QED  BY <2>1, <2>3 DEF Deleting
<1>4. CASE HandlerSteps \/ RefreshFts \/ Crash \/ (StartUp /\ UNCHANGED <<data, control>>)
           \/ UploadPipeline \/ Deliver \/ WorkerStops \/ BeginShutdown \/ WorkerTake
           \/ WorkerFinish \/ ReindexDrop \/ ReindexMeme \/ ReindexEnds \/ UNCHANGED vars
  BY <1>1, <1>4, HandlerFrame
  DEF RefreshFts, Crash, UploadPipeline, Deliver, WorkerStops, BeginShutdown, WorkerTake,
      WorkerFinish, ReindexDrop, ReindexMeme, ReindexEnds, vars, data
<1>5. CASE \/ \E withFace \in BOOLEAN, text \in UserTexts \cup {NoText} : UploadRow(withFace, text)
           \/ \E t \in Threads, n \in Memes, text \in UserTexts \cup {NoText} : Edit(t, n, text)
           \/ \E t \in Threads, n \in Memes : DeletePoint(t, n)
  BY <1>1, <1>5 DEF UploadRow, Edit, DeletePoint
<1>6. CASE \E t \in Threads : EditEnqueue(t) \/ EnqueuePut(t) \/ DeleteRow(t)
  BY <1>1, <1>6 DEF EditEnqueue, EnqueuePut, DeleteRow, data
<1>. QED  BY <1>2, <1>3, <1>4, <1>5, <1>6, Zenon DEF Next

\* Only an upload makes up for an image a crash has left missing.
LEMMA FileExcusesStay ==
  ASSUME Stepping, [Next]_vars, NEW m \in Memes, "file" \in excused[m]
  PROVE  "file" \in excused'[m] \/ CaptionAsked(m)'
<1>1. CASE excused' = excused  BY <1>1
<1>2. CASE Crash  BY <1>2, CrashEffect
<1>3. CASE \E withFace \in BOOLEAN, text \in UserTexts \cup {NoText} : UploadRow(withFace, text)
  <2>1. m # uploading => excused'[m] = excused[m]
    BY <1>3 DEF UploadRow, Redone, Stepping, DataTypes
  <2>. QED  BY <1>3, <2>1, UploadEffect DEF CaptionAsked
<1>4. CASE \E t \in Threads, n \in Memes, text \in UserTexts \cup {NoText} : Edit(t, n, text)
  BY <1>4, EditEffect
<1>5. CASE ReindexMeme
  <2>1. PICK n \in rebuild : IF Captioned(n) THEN Redone(n, {"point"}) ELSE UNCHANGED excused
    BY <1>5 DEF ReindexMeme
  <2>. QED  BY <2>1 DEF Redone, Stepping, DataTypes
<1>6. CASE ReindexEnds  BY <1>6 DEF ReindexEnds, Excuse
<1>7. CASE HandlerSteps \/ RefreshFts \/ (StartUp /\ UNCHANGED <<data, control>>)
           \/ UploadPipeline \/ Deliver \/ WorkerStops \/ BeginShutdown \/ WorkerTake
           \/ WorkerFinish \/ ReindexDrop \/ UNCHANGED vars
  BY <1>1, <1>7, HandlerFrame
  DEF HandlerRest, RefreshFts, UploadPipeline, Deliver, WorkerStops, BeginShutdown, WorkerTake,
      WorkerFinish, ReindexDrop, vars, control
<1>8. CASE \/ \E n \in Memes : UploadFile(n)
           \/ \E t \in Threads, n \in Memes : DeletePoint(t, n)
  BY <1>1, <1>8 DEF UploadFile, DeletePoint
<1>9. CASE \E t \in Threads : EditEnqueue(t) \/ EnqueuePut(t) \/ DeleteFile(t) \/ DeleteRow(t)
  BY <1>1, <1>9 DEF EditEnqueue, EnqueuePut, DeleteFile, DeleteRow, control
<1>. QED  BY <1>2, <1>3, <1>4, <1>5, <1>6, <1>7, <1>8, <1>9, Zenon DEF Next

LEMMA ImageReading ==
  ASSUME Stepping, HandlerSteps, current.type \in TextTypes, work'.phase \in {"image", "read", "ok"}
  PROVE  ReadImage \/ work.phase \in {"image", "read", "ok"}
<1>. USE DEF TextTypes
<1>1. ~Face /\ ~EmbedRead /\ ~EmbedUpsert /\ ~EmbedLog
  BY DEF Face, EmbedRead, EmbedUpsert, EmbedLog, Handling
<1>2. ~HandlerRaises  BY GotoTypes DEF HandlerRaises, Stepping, Phases
<1>3. WriteCaption \/ OcrRead \/ (\E found \in BOOLEAN : OcrWrite(found)) =>
        work.phase \in {"image", "read"}
  BY DEF WriteCaption, OcrRead, OcrWrite, Handling
<1>. QED  BY <1>1, <1>2, <1>3, Zenon DEF HandlerSteps

LEMMA ReadImagesAreKept_Next ==
  ASSUME Stepping, [Next]_vars, ReadImagesAreKept
  PROVE  ReadImagesAreKept'
<1>a. CASE ~(current' # None /\ current'.type \in TextTypes /\ jobs'[current'.id] # None
                 /\ work'.phase \in {"image", "read", "ok"})
  BY <1>a DEF ReadImagesAreKept
<1> SUFFICES ASSUME current' # None, current'.type \in TextTypes, jobs'[current'.id] # None,
                    work'.phase \in {"image", "read", "ok"},
                    NEW m \in {current'.meme}
             PROVE  m \in files' \/ Deleting(m)'
  BY <1>a DEF ReadImagesAreKept
<1>1. ~WorkerTake /\ ~WorkerFinish /\ ~Crash
  BY WorkerTakeEffect, CrashEffect DEF WorkerFinish, NoWork
<1>2. current' = current /\ current # None /\ m = current.meme  BY <1>1, OtherRows
<1>3. current.id \in JobIds /\ current.id # nextId
  BY <1>2, RunningIsOld, QueueTypes DEF Stepping, JobIds
<1>4. jobs[current.id] # None /\ jobs'[current.id] = jobs[current.id]
  BY <1>1, <1>2, <1>3, OtherRows DEF RowsStay
<1>5. m \in memes'
  <2>1. jobs'[current.id].meme = m  BY <1>2, <1>4, RunningRow DEF Stepping
  <2>2. Queue!RowsHaveMemes'  BY DEF Stepping, Queue!IInv
  <2>. QED  BY <1>2, <1>3, <2>1, <2>2, SameIds DEF Queue!RowsHaveMemes
<1>6. CASE ReadImage
  <2>1. work'.phase = IF m \in memes /\ m \in files THEN "image" ELSE "failed"
    BY <1>2, <1>6, GotoTypes DEF ReadImage, Stepping, Phases
  <2>. QED  BY <1>2, <1>6, <2>1 DEF ReadImage, data
<1>7. CASE work.phase \in {"image", "read", "ok"}
  <2>1. m \in files \/ Deleting(m)  BY <1>2, <1>4, <1>7 DEF ReadImagesAreKept
  <2>2. CASE m \in files  BY <2>2, FilesStay
  <2>3. CASE Deleting(m)  BY <1>1, <1>5, <2>3, DeletingStays
  <2>. QED  BY <2>1, <2>2, <2>3
<1>. QED  BY <1>1, <1>2, <1>6, <1>7, ImageReading, OtherFrame

LEMMA MissingImageShows_Next ==
  ASSUME Stepping, [Next]_vars, MissingImageShows, ReadImagesAreKept
  PROVE  MissingImageShows'
<1> SUFFICES ASSUME NEW m \in memes', m \notin files'
             PROVE  \/ \E i \in RowsOf(m, TextTypes)' : jobs'[i].status # "DONE"
                    \/ Deleting(m)' \/ "file" \in excused'[m] \/ CaptionAsked(m)'
  BY DEF MissingImageShows, CaptionAsked
<1>1. m \in Memes  BY NextMemes
<1>2. CASE m \notin memes  BY <1>2, NewMemes, UploadEffect DEF CaptionAsked
<1>3. CASE m \in files  BY <1>3, FilesStay
<1>4. CASE m \in memes /\ m \notin files
  <2>1. CASE Deleting(m)
    <3>1. Deleting(m) => InRequest(m)  BY DEF Deleting, InRequest
    <3>. QED  BY <1>1, <2>1, <3>1, DeletingStays, CrashEffect DEF Places
  <2>2. CASE "file" \in excused[m]  BY <1>1, <2>2, FileExcusesStay
  <2>3. CASE CaptionAsked(m)
    <3>1. CaptionAsked(m) => InRequest(m)  BY DEF CaptionAsked, InRequest
    <3>. QED  BY <1>1, <2>3, <3>1, CaptionStays, CrashEffect DEF Places
  <2>4. ASSUME NEW i \in RowsOf(m, TextTypes), jobs[i].status # "DONE"
        PROVE  Deleting(m) \/ \E j \in RowsOf(m, TextTypes)' : jobs'[j].status # "DONE"
    <3>1. CASE WorkerFinish /\ work.phase = "ok" /\ current.id = i
      BY <1>4, <3>1, TextRowEnds DEF ReadImagesAreKept
    <3>2. CASE ~(WorkerFinish /\ work.phase = "ok" /\ current.id = i)
      BY <2>4, <3>2, TextRowsStay
    <3>. QED  BY <3>1, <3>2
  <2>. QED  BY <1>4, <2>1, <2>2, <2>3, <2>4 DEF MissingImageShows, CaptionAsked
<1>. QED  BY <1>2, <1>3, <1>4

-----------------------------------------------------------------------------
(* The inductive invariant *)

LEMMA IInv_Init == ASSUME Init, Queue!IInv PROVE IInv
<1>1. /\ meta = [m \in Memes |-> None] /\ fts = [m \in Memes |-> None] /\ memes = {}
      /\ current = None /\ ftsDue = None
  BY DEF Init, Queue!Init
<1>2. TypeOK  BY InitRequests, InitTypes, TypeParts
<1>3. IndexCatchesUp /\ KeywordIndexCatchesUp  BY <1>1 DEF IndexCatchesUp, Stale, KeywordIndexCatchesUp
<1>4. TextsAreEmbedded /\ LeftTextsAreCovered /\ MissingImageShows
  BY <1>1 DEF TextsAreEmbedded, LeftTextsAreCovered, MissingImageShows
<1>5. OldReadsAreRepeated /\ UpdatesAreOwned /\ WritesAreIndexed /\ ReadImagesAreKept
  BY <1>1 DEF OldReadsAreRepeated, UpdatesAreOwned, WritesAreIndexed, ReadImagesAreKept, Handling
<1>. QED  BY <1>2, <1>3, <1>4, <1>5 DEF IInv

LEMMA EveryStep == ASSUME IInv, Queue!IInv, Queue!IInv', [Next]_vars PROVE Stepping
<1>1. RequestsOK /\ DataTypes /\ Rebuilding /\ MetaRows  BY TypeParts DEF IInv
<1>2. RequestsOK' /\ [Queue!Next]_(Queue!vars)
  BY <1>1, NextSafe DEF Safe, QueueStep, queueVars, Queue!vars
<1>. QED  BY <1>1, <1>2 DEF Stepping

LEMMA IInv_Next == ASSUME IInv, Queue!IInv, Queue!IInv', [Next]_vars PROVE IInv'
<1>1. Stepping  BY EveryStep
<1>2. Typed  BY <1>1, Types_Next
<1>3. TypeOK'
  BY <1>1, <1>2, Zenon DEF Stepping, Typed, TypeOK, RequestsOK, Requests, DataTypes, Rebuilding,
     MetaRows, Phases, Queue!IInv, Queue!MemoryInv
<1>4. IndexCatchesUp' /\ TextsAreEmbedded' /\ OldReadsAreRepeated'
  BY <1>1, <1>2, IndexCatchesUp_Next, TextsAreEmbedded_Next, OldReadsAreRepeated_Next DEF IInv
<1>5. KeywordIndexCatchesUp' /\ UpdatesAreOwned' /\ WritesAreIndexed' /\ LeftTextsAreCovered'
  BY <1>1, <1>2, KeywordIndexCatchesUp_Next, UpdatesAreOwned_Next, WritesAreIndexed_Next,
     LeftTextsAreCovered_Next DEF IInv
<1>6. MissingImageShows' /\ ReadImagesAreKept'
  BY <1>1, MissingImageShows_Next, ReadImagesAreKept_Next DEF IInv
<1>. QED  BY <1>3, <1>4, <1>5, <1>6 DEF IInv

(* At every step the texts still to be written are embedded afterwards, an  *)
(* embedding whose reading has gone old is repeated, and no text job ends   *)
(* before the keyword index has what it wrote or with its image gone for    *)
(* another reason than a deletion (_do_caption, _do_ocr and _do_embed in    *)
(* jobs.py; upload_meme, edit_meme and _delete_memes in app.py).            *)
THEOREM DataInductive == Spec => []IInv
<1>1. Init /\ Queue!IInv => IInv  BY IInv_Init
<1>2. IInv /\ Queue!IInv /\ Queue!IInv' /\ [Next]_vars => IInv'  BY IInv_Next
<1>. QED  BY <1>1, <1>2, QueueInvariant, PTL DEF Spec

(* Rows, requests, handlers and indexes always hold what the code can put   *)
(* there, a meme is exactly a row with metadata, and a rebuild finds the    *)
(* server down and only memes that exist (store.py, jobs.py, reindex.py).   *)
THEOREM TypeCorrect == Spec => []TypeOK
<1>1. IInv => TypeOK  BY DEF IInv
<1>. QED  BY <1>1, DataInductive, PTL

(* Whenever a point is not of the meme's present texts, some embedding is   *)
(* still to come that will read them, or the reason is known: the embedding *)
(* has failed for good, a deletion is under way, a crash fell between two   *)
(* writes, or the rebuild has the meme still before it (_do_embed in        *)
(* jobs.py; upload_meme and edit_meme in app.py; main in reindex.py).       *)
THEOREM IndexIsCaughtUp == Spec => []IndexCatchesUp
<1>1. IInv => IndexCatchesUp  BY DEF IInv
<1>. QED  BY <1>1, DataInductive, PTL

(* The keyword index is behind the metadata only while the one that updated *)
(* them has yet to refresh it, or while a text job that will do it again is *)
(* not done (update_metadata and refresh_fts in store.py; _do_caption and   *)
(* _do_ocr in jobs.py), or a crash has cut a request between the two.       *)
THEOREM KeywordsAreCaughtUp == Spec => []KeywordIndexCatchesUp
<1>1. IInv => KeywordIndexCatchesUp  BY DEF IInv
<1>. QED  BY <1>1, DataInductive, PTL

(* A meme without its image file shows it: one of its text jobs is not DONE,*)
(* unless it is being deleted, has its jobs still to be asked for, or a     *)
(* crash has cut its upload or its deletion short (upload_meme and          *)
(* _delete_memes in app.py; _image_path in jobs.py).                        *)
THEOREM ImagesAreMissed == Spec => []MissingImageShows
<1>1. IInv => MissingImageShows  BY DEF IInv
<1>. QED  BY <1>1, DataInductive, PTL

-----------------------------------------------------------------------------
(* Done means done *)

\* No job of a meme whose rows are all settled is running.
LEMMA DoneIsIdle ==
  ASSUME Queue!IInv, NEW m \in Memes, Queue!StatusOf(m) = "done", ~Leftover(m), current # None
  PROVE  current.meme # m
<1> SUFFICES ASSUME current.meme = m PROVE FALSE  OBVIOUS
<1>1. current \in Queue!HeldJobs  BY DEF Queue!HeldJobs
<1>2. jobs[current.id] # None  BY <1>1 DEF Leftover
<1>3. jobs[current.id].meme = m /\ jobs[current.id].status = "RUNNING"  BY <1>2, RunningRow
<1>4. current.id \in Queue!RowsOf(m) /\ ~Queue!Finished(current.id)
  BY <1>2, <1>3, QueueTypes, SameIds DEF Queue!RowsOf, Queue!Finished, Queue!FinishedIn
<1>5. {i \in Queue!RowsOf(m) : Queue!Finished(i)} # Queue!RowsOf(m)  BY <1>4
<1>. QED  BY <1>5 DEF Queue!StatusOf

\* What a handler writes is its job's meme's.
LEMMA HandlersKeepTheirMeme ==
  ASSUME Stepping, HandlerSteps, NEW m \in Memes, current.meme # m
  PROVE  point'[m] = point[m] /\ meta'[m] = meta[m]
<1>1. meta'[m] = meta[m]  BY HandlerFrame, TextWritten
<1>2. EmbedUpsert => point'[m] = point[m]  BY DEF EmbedUpsert, Stepping, DataTypes
<1>. QED  BY <1>1, <1>2, HandlerFrame

\* Requests and the rebuild write memes a request is for, or with the server down.
LEMMA RequestsKeepTheirMeme ==
  ASSUME Stepping, [Next]_vars, ~HandlerSteps, NEW m \in Memes, server = "serving",
         ~InRequest(m), ~InRequest(m)'
  PROVE  point'[m] = point[m] /\ meta'[m] = meta[m]
<1>1. act \in [Threads -> Requests \cup {Idle}] /\ rebuild = None /\ uploading # m
  BY Threading DEF Stepping, Rebuilding, InRequest
<1>2. CASE RefreshFts \/ Crash \/ UploadPipeline \/ (StartUp /\ UNCHANGED <<data, control>>)
           \/ Deliver \/ WorkerStops \/ BeginShutdown \/ WorkerTake \/ WorkerFinish
           \/ ReindexEnds \/ UNCHANGED vars
  BY <1>2 DEF RefreshFts, Crash, UploadPipeline, Deliver, WorkerStops, BeginShutdown,
     WorkerTake, WorkerFinish, ReindexEnds, data, vars
<1>3. CASE \E n \in Memes : UploadFile(n)  BY <1>3 DEF UploadFile
<1>4. CASE \E withFace \in BOOLEAN, text \in UserTexts \cup {NoText} : UploadRow(withFace, text)
  BY <1>1, <1>4 DEF UploadRow, Stepping, DataTypes
<1>5. ASSUME NEW t \in Threads, NEW n \in Memes, NEW text \in UserTexts \cup {NoText},
             Edit(t, n, text)
      PROVE  point' = point /\ meta'[m] = meta[m]
  <2>1. act' = [act EXCEPT ![t] = [op |-> "enqueue", meme |-> n]]  BY <1>5 DEF Edit
  <2>2. n # m  BY <1>1, <2>1 DEF InRequest
  <2>. QED  BY <1>5, <2>2 DEF Edit, UpdateMetadata, Stepping, DataTypes
<1>6. ASSUME NEW t \in Threads, NEW n \in Memes, DeletePoint(t, n)
      PROVE  point'[m] = point[m] /\ meta' = meta
  <2>1. act' = [act EXCEPT ![t] = [op |-> "unlink", meme |-> n]]  BY <1>6 DEF DeletePoint
  <2>2. n # m  BY <1>1, <2>1 DEF InRequest
  <2>. QED  BY <1>6, <2>2 DEF DeletePoint, Stepping, DataTypes
<1>7. ASSUME NEW t \in Threads, EditEnqueue(t) \/ EnqueuePut(t) \/ DeleteFile(t)
      PROVE  point' = point /\ meta' = meta
  BY <1>7 DEF EditEnqueue, EnqueuePut, DeleteFile, data
<1>8. ASSUME NEW t \in Threads, DeleteRow(t)
      PROVE  point' = point /\ meta'[m] = meta[m]
  <2>1. act[t].meme # m  BY DEF InRequest
  <2>. QED  BY <1>8, <2>1 DEF DeleteRow, Stepping, DataTypes
<1>9. CASE ReindexDrop \/ ReindexMeme
  BY <1>1, <1>9 DEF ReindexDrop, ReindexMeme
<1>. QED  BY <1>2, <1>3, <1>4, <1>5, <1>6, <1>7, <1>8, <1>9, Zenon DEF Next

(* Once the status of a meme is "done" nothing but a new request changes    *)
(* what a search finds of it, with the one exception that is named: a job   *)
(* left over from an earlier life of the meme (status_for_meme in jobs.py;  *)
(* the polling of the web page, which stops at "done").                     *)
THEOREM DoneIsDone == Spec => DoneMeansDone
<1>1. ASSUME IInv, Queue!IInv, Queue!IInv', [Next]_vars, NEW m \in Memes,
             server = "serving", Queue!StatusOf(m) = "done",
             ~InRequest(m), ~InRequest(m)', ~Leftover(m)
      PROVE  point'[m] = point[m] /\ meta'[m] = meta[m]
  <2>1. Stepping  BY <1>1, EveryStep
  <2>2. CASE HandlerSteps
    <3>1. current # None  BY <2>2, HandlerFrame
    <3>. QED  BY <1>1, <2>1, <2>2, <3>1, DoneIsIdle, HandlersKeepTheirMeme
  <2>3. CASE ~HandlerSteps  BY <1>1, <2>1, <2>3, RequestsKeepTheirMeme
  <2>. QED  BY <2>2, <2>3
<1>2. IInv /\ Queue!IInv /\ Queue!IInv' /\ [Next]_vars =>
        [\A m \in Memes :
           /\ server = "serving" /\ server' = "serving"
           /\ m \in memes /\ m \in memes'
           /\ Queue!StatusOf(m) = "done"
           /\ ~InRequest(m) /\ ~InRequest(m)' /\ ~Leftover(m)
           => point'[m] = point[m] /\ meta'[m] = meta[m]]_vars
  BY <1>1, Zenon
<1>. QED  BY <1>2, DataInductive, QueueInvariant, PTL DEF Spec, DoneMeansDone

=============================================================================
