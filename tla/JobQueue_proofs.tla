-------------------------- MODULE JobQueue_proofs --------------------------
(***************************************************************************)
(* Theorems about JobQueue, for any sets of memes and threads, any number  *)
(* of attempts and any bounds.                                             *)
(***************************************************************************)
EXTENDS JobQueue, SequenceTheorems, TLAPS

-----------------------------------------------------------------------------
(* Sequences, element by element *)

LEMMA AppendElements ==
    ASSUME NEW S, NEW s \in Seq(S), NEW e \in S
    PROVE  /\ Append(s, e) \in Seq(S)
           /\ Len(Append(s, e)) = Len(s) + 1
           /\ DOMAIN Append(s, e) = 1 .. (Len(s) + 1)
           /\ DOMAIN s = 1 .. Len(s)
           /\ \A k \in DOMAIN s : Append(s, e)[k] = s[k]
           /\ Append(s, e)[Len(s) + 1] = e
           /\ Append(s, e) # <<>>
BY AppendProperties

LEMMA TailElements ==
    ASSUME NEW S, NEW s \in Seq(S), s # <<>>
    PROVE  /\ Tail(s) \in Seq(S)
           /\ Head(s) \in S
           /\ Head(s) = s[1]
           /\ 1 \in DOMAIN s
           /\ Len(Tail(s)) = Len(s) - 1
           /\ DOMAIN s = 1 .. Len(s)
           /\ DOMAIN Tail(s) = 1 .. (Len(s) - 1)
           /\ \A k \in DOMAIN Tail(s) : Tail(s)[k] = s[k + 1] /\ k + 1 \in DOMAIN s
BY HeadTailProperties

-----------------------------------------------------------------------------
(* Type correctness *)

LEMMA RowTypes ==
    ASSUME TypeOK, NEW i \in JobIds, jobs[i] # None,
           NEW status \in Statuses, NEW bump \in Nat
    PROVE  WithStatus(jobs[i], status, bump) \in Row
<1>1. jobs[i] \in Row
  BY DEF TypeOK
<1> QED BY <1>1 DEF Row, WithStatus

LEMMA UpdateJobType ==
    ASSUME TypeOK, NEW i \in JobIds, NEW status \in Statuses, NEW bump \in Nat,
           UpdateJob(i, status, bump)
    PROVE  jobs' \in [JobIds -> Row \cup {None}]
<1>1. CASE jobs[i] = None
  BY <1>1 DEF TypeOK, UpdateJob
<1>2. CASE jobs[i] # None
  <2>1. jobs' = [jobs EXCEPT ![i] = WithStatus(jobs[i], status, bump)]
    BY <1>2 DEF UpdateJob
  <2> QED BY <1>2, <2>1, RowTypes DEF TypeOK
<1> QED BY <1>1, <1>2

LEMMA CreateJobType ==
    ASSUME TypeOK, NEW m \in Memes, NEW type \in JobTypes, CreateJob(m, type)
    PROVE  /\ jobs' \in [JobIds -> Row \cup {None}]
           /\ nextId' \in 1 .. (MaxJobs + 1)
<1>1. [meme |-> m, type |-> type, status |-> "PENDING", attempts |-> 0] \in Row
  BY DEF Row, Statuses
<1>2. jobs' \in [JobIds -> Row \cup {None}]
  BY <1>1 DEF TypeOK, CreateJob
<1>3. nextId' \in 1 .. (MaxJobs + 1)
  BY MaxJobsAssumption DEF TypeOK, CreateJob, JobIds
<1> QED BY <1>2, <1>3

LEMMA TypeOK_Init == Init => TypeOK
<1> SUFFICES ASSUME Init PROVE TypeOK
  OBVIOUS
<1>1. queue \in Seq(Job \cup {None}) /\ ready \in Seq(Job) /\ pipeline \in Seq(Step)
  BY DEF Init
<1>2. cursor \in 0 .. MaxJobs /\ nextId \in 1 .. (MaxJobs + 1)
  BY MaxJobsAssumption DEF Init
<1>3. attempt \in 0 .. MaxAttempts /\ crashes \in 0 .. MaxCrashes /\ faults \in 0 .. MaxFaults
  BY BoundsAssumption DEF Init
<1> QED BY <1>1, <1>2, <1>3 DEF Init, TypeOK

LEMMA LoseMemoryType ==
    ASSUME LoseMemory
    PROVE  /\ queue' \in Seq(Job \cup {None}) /\ ready' \in Seq(Job)
           /\ hands' \in [Threads -> Job \cup {None}] /\ pipeline' \in Seq(Step)
           /\ workerUp' \in BOOLEAN /\ current' \in Job \cup {None}
           /\ attempt' \in 0 .. MaxAttempts /\ cursor' \in 0 .. MaxJobs
<1>1. queue' \in Seq(Job \cup {None}) /\ ready' \in Seq(Job) /\ pipeline' \in Seq(Step)
  BY DEF LoseMemory
<1>2. attempt' \in 0 .. MaxAttempts /\ cursor' \in 0 .. MaxJobs
  BY MaxJobsAssumption, BoundsAssumption DEF LoseMemory
<1> QED BY <1>1, <1>2 DEF LoseMemory

LEMMA TypeOK_Life ==
    ASSUME TypeOK,
           Start \/ RequeueNext \/ Serve \/ BeginShutdown \/ ShutdownFails \/ Crash
    PROVE  TypeOK'
<1>1. CASE Start
  BY <1>1 DEF TypeOK, Start, table, inbox
<1>2. CASE RequeueNext
  <2>1. PICK i \in JobIds :
          /\ Unfinished(i) /\ cursor' = i
          /\ queue' = Append(queue, [id |-> i, meme |-> jobs[i].meme, type |-> jobs[i].type])
    BY <1>2 DEF RequeueNext
  <2>2. jobs[i] \in Row
    BY <2>1 DEF TypeOK, Unfinished, UnfinishedIn
  <2>3. [id |-> i, meme |-> jobs[i].meme, type |-> jobs[i].type] \in Job
    BY <2>2 DEF Row, Job
  <2>4. queue' \in Seq(Job \cup {None})
    BY <2>1, <2>3, AppendElements DEF TypeOK
  <2>5. cursor' \in 0 .. MaxJobs
    BY <2>1, MaxJobsAssumption DEF JobIds
  <2> QED BY <1>2, <2>4, <2>5 DEF TypeOK, RequeueNext, table, worker
<1>3. CASE Serve
  <2>1. cursor' \in 0 .. MaxJobs
    BY <1>3, MaxJobsAssumption DEF Serve
  <2> QED BY <1>3, <2>1 DEF TypeOK, Serve, table, inbox, worker
<1>4. CASE BeginShutdown
  <2>1. queue' \in Seq(Job \cup {None})
    BY <1>4, AppendElements DEF TypeOK, BeginShutdown
  <2> QED BY <1>4, <2>1 DEF TypeOK, BeginShutdown, table, worker
<1>5. CASE ShutdownFails
  BY <1>5, LoseMemoryType DEF TypeOK, ShutdownFails, table
<1>6. CASE Crash
  <2>1. crashes' \in 0 .. MaxCrashes
    BY <1>6, BoundsAssumption DEF TypeOK, Crash
  <2> QED BY <1>6, <2>1, LoseMemoryType DEF TypeOK, Crash, table
<1> QED BY <1>1, <1>2, <1>3, <1>4, <1>5, <1>6

LEMMA TypeOK_Requests ==
    ASSUME TypeOK,
           \/ \E m \in Memes, withFace \in BOOLEAN : Upload(m, withFace)
           \/ PipelineEnqueue \/ PipelineAborts
           \/ \E t \in Threads, m \in Memes : EnqueueCommit(t, m)
           \/ \E t \in Threads : EnqueuePut(t)
           \/ Deliver
           \/ \E m \in Memes : DeleteMeme(m)
    PROVE  TypeOK'
<1>1. ASSUME NEW m \in Memes, NEW withFace \in BOOLEAN, Upload(m, withFace)
      PROVE  TypeOK'
  <2>1. PipelineOf(m, withFace) \in Seq(Step)
    BY DEF PipelineOf, Step, PipelineTypes
  <2> QED BY <1>1, <2>1 DEF TypeOK, Upload, worker, life
<1>2. CASE PipelineEnqueue
  <2>1. /\ Head(pipeline) \in Step /\ Tail(pipeline) \in Seq(Step)
    BY <1>2, TailElements DEF TypeOK, PipelineEnqueue
  <2>2. /\ Head(pipeline).meme \in Memes
        /\ Head(pipeline).type \in JobTypes
        /\ CreateJob(Head(pipeline).meme, Head(pipeline).type)
    BY <1>2, <2>1 DEF PipelineEnqueue, Step, JobTypes
  <2>3. /\ jobs' \in [JobIds -> Row \cup {None}]
        /\ nextId' \in 1 .. (MaxJobs + 1)
    BY <2>2, CreateJobType
  <2>4. [id |-> nextId, meme |-> Head(pipeline).meme, type |-> Head(pipeline).type] \in Job
    BY <2>2 DEF CreateJob, Job
  <2>5. queue' \in Seq(Job \cup {None})
    BY <1>2, <2>4, AppendElements DEF TypeOK, PipelineEnqueue
  <2> QED BY <1>2, <2>1, <2>3, <2>5 DEF TypeOK, PipelineEnqueue, worker, life
<1>3. CASE PipelineAborts
  <2>1. pipeline' \in Seq(Step)
    BY <1>3 DEF PipelineAborts
  <2> QED BY <1>3, <2>1 DEF TypeOK, PipelineAborts, table, worker, life
<1>4. ASSUME NEW t \in Threads, NEW m \in Memes, EnqueueCommit(t, m)
      PROVE  TypeOK'
  <2>1. CreateJob(m, "RE_EMBED") /\ "RE_EMBED" \in JobTypes
    BY <1>4 DEF EnqueueCommit, JobTypes
  <2>2. /\ jobs' \in [JobIds -> Row \cup {None}]
        /\ nextId' \in 1 .. (MaxJobs + 1)
    BY <2>1, CreateJobType
  <2>3. [id |-> nextId, meme |-> m, type |-> "RE_EMBED"] \in Job
    BY <2>1 DEF CreateJob, Job
  <2>4. hands' \in [Threads -> Job \cup {None}]
    BY <1>4, <2>3 DEF TypeOK, EnqueueCommit
  <2> QED BY <1>4, <2>2, <2>4 DEF TypeOK, EnqueueCommit, worker, life
<1>5. ASSUME NEW t \in Threads, EnqueuePut(t)
      PROVE  TypeOK'
  <2>1. hands[t] \in Job
    BY <1>5 DEF TypeOK, EnqueuePut
  <2>2. ready' \in Seq(Job)
    BY <1>5, <2>1, AppendElements DEF TypeOK, EnqueuePut
  <2>3. hands' \in [Threads -> Job \cup {None}]
    BY <1>5 DEF TypeOK, EnqueuePut
  <2> QED BY <1>5, <2>2, <2>3 DEF TypeOK, EnqueuePut, table, worker, life
<1>6. CASE Deliver
  <2>1. Head(ready) \in Job \cup {None} /\ ready' \in Seq(Job)
    BY <1>6, TailElements DEF TypeOK, Deliver
  <2>2. queue' \in Seq(Job \cup {None})
    BY <1>6, <2>1, AppendElements DEF TypeOK, Deliver
  <2> QED BY <1>6, <2>1, <2>2 DEF TypeOK, Deliver, table, worker, life
<1>7. ASSUME NEW m \in Memes, DeleteMeme(m)
      PROVE  TypeOK'
  <2>1. jobs' \in [JobIds -> Row \cup {None}]
    BY <1>7 DEF TypeOK, DeleteMeme
  <2> QED BY <1>7, <2>1 DEF TypeOK, DeleteMeme, inbox, worker, life
<1> QED BY <1>1, <1>2, <1>3, <1>4, <1>5, <1>6, <1>7

LEMMA TypeOK_Worker ==
    ASSUME TypeOK,
           \/ WorkerTake \/ HandlerSucceeds \/ HandlerRetries \/ HandlerGivesUp
           \/ WorkerStops \/ WorkerDies
    PROVE  TypeOK'
<1> USE DEF TypeOK, table, worker, inbox, life
<1>0. 0 \in 0 .. MaxAttempts /\ 1 \in 0 .. MaxAttempts
  BY BoundsAssumption
<1>1. CASE WorkerTake
  <2>1. Head(queue) \in Job /\ queue' \in Seq(Job \cup {None})
    BY <1>1, TailElements DEF WorkerTake
  <2>2. Head(queue).id \in JobIds /\ UpdateJob(Head(queue).id, "RUNNING", 1)
    BY <1>1, <2>1 DEF WorkerTake, Job
  <2>3. jobs' \in [JobIds -> Row \cup {None}]
    BY <2>2, UpdateJobType DEF Statuses
  <2> QED BY <1>0, <1>1, <2>1, <2>3 DEF WorkerTake
<1>2. CASE HandlerSucceeds
  <2>1. current.id \in JobIds /\ UpdateJob(current.id, "DONE", 0)
    BY <1>2 DEF HandlerSucceeds, Job
  <2>2. jobs' \in [JobIds -> Row \cup {None}]
    BY <2>1, UpdateJobType DEF Statuses
  <2> QED BY <1>0, <1>2, <2>2 DEF HandlerSucceeds
<1>3. CASE HandlerRetries
  <2>1. current.id \in JobIds /\ UpdateJob(current.id, "RUNNING", 1)
    BY <1>3 DEF HandlerRetries, Job
  <2>2. jobs' \in [JobIds -> Row \cup {None}]
    BY <2>1, UpdateJobType DEF Statuses
  <2>3. attempt' \in 0 .. MaxAttempts
    BY <1>3, BoundsAssumption DEF HandlerRetries
  <2> QED BY <1>3, <2>2, <2>3 DEF HandlerRetries
<1>4. CASE HandlerGivesUp
  <2>1. current.id \in JobIds /\ UpdateJob(current.id, "ERROR", 0)
    BY <1>4 DEF HandlerGivesUp, Job
  <2>2. jobs' \in [JobIds -> Row \cup {None}]
    BY <2>1, UpdateJobType DEF Statuses
  <2> QED BY <1>0, <1>4, <2>2 DEF HandlerGivesUp
<1>5. CASE WorkerStops
  <2>1. queue' \in Seq(Job \cup {None})
    BY <1>5, TailElements DEF WorkerStops
  <2> QED BY <1>5, <2>1 DEF WorkerStops
<1>6. CASE WorkerDies
  <2>0. queue' = queue \/ (queue # <<>> /\ queue' = Tail(queue))
    BY <1>6 DEF WorkerDies
  <2>a. queue # <<>> => Tail(queue) \in Seq(Job \cup {None})
    BY TailElements
  <2>1. queue' \in Seq(Job \cup {None})
    BY <2>0, <2>a
  <2>2. faults' \in 0 .. MaxFaults
    BY <1>6, BoundsAssumption DEF WorkerDies
  <2> QED BY <1>0, <1>6, <2>1, <2>2 DEF WorkerDies
<1> QED BY <1>1, <1>2, <1>3, <1>4, <1>5, <1>6

LEMMA TypeOK_Next == TypeOK /\ [Next]_vars => TypeOK'
<1> SUFFICES ASSUME TypeOK, [Next]_vars PROVE TypeOK'
  OBVIOUS
<1>1. CASE UNCHANGED vars
  BY <1>1 DEF TypeOK, vars
<1>2. CASE Next
  BY <1>2, TypeOK_Life, TypeOK_Requests, TypeOK_Worker DEF Next
<1> QED BY <1>1, <1>2

(* Every variable keeps its type, whatever the interleaving, the crashes and *)
(* the database errors.                                                      *)
THEOREM TypeCorrect == Spec => []TypeOK
BY TypeOK_Init, TypeOK_Next, PTL DEF Spec

-----------------------------------------------------------------------------
(* The inductive invariant *)

LEMMA MemoryInv_Init == Init => MemoryInv
<1> SUFFICES ASSUME Init PROVE MemoryInv
  OBVIOUS
<1>1. TypeOK
  BY TypeOK_Init
<1>2. \A i \in JobIds : ~Held(i) /\ jobs[i] = None
  BY DEF Init, Held, InQueue, InReady, InHands, InWorker
<1>3. HeldJobs = {}
  BY DEF Init, HeldJobs
<1>4. PhaseInv /\ RequeueInv /\ OrderInv
  BY <1>2 DEF Init, PhaseInv, RequeueInv, OrderInv, Held
<1>5. HeldOnce
  BY DEF Init, HeldOnce, InQueue, InReady, InHands, InWorker
<1> QED BY <1>1, <1>2, <1>3, <1>4, <1>5
        DEF Init, MemoryInv, FreshInv, RowIdentity, HeldInv, NothingForgotten,
            CleanStopDrains, Unfinished, Finished, UnfinishedIn, FinishedIn

LEMMA Start_MemoryInv == ASSUME MemoryInv, Start PROVE MemoryInv'
<1>1. TypeOK'
  BY TypeOK_Life DEF MemoryInv
<1>2. UNCHANGED <<jobs, nextId, queue, ready, hands, pipeline, current>>
  BY DEF Start, table, inbox
<1>3. PhaseInv'
  BY <1>2 DEF MemoryInv, PhaseInv, Start
<1>4. RequeueInv'
  BY <1>2, <1>1 DEF MemoryInv, PhaseInv, RequeueInv, InQueue, Start, JobIds
<1>5. FreshInv' /\ RowIdentity' /\ HeldOnce' /\ HeldInv' /\ OrderInv'
  BY <1>2 DEF MemoryInv, FreshInv, RowIdentity, HeldJobs, HeldOnce, HeldInv, OrderInv,
     Held, InQueue, InReady, InHands, InWorker, Finished
<1> QED BY <1>1, <1>3, <1>4, <1>5 DEF MemoryInv, NothingForgotten, CleanStopDrains, Start

LEMMA LoseMemory_MemoryInv ==
    ASSUME MemoryInv, LoseMemory, server' = "down", UNCHANGED table, TypeOK'
    PROVE  MemoryInv'
<1>1. \A i \in JobIds : ~Held(i)'
  BY DEF LoseMemory, Held, InQueue, InReady, InHands, InWorker
<1>2. HeldJobs' = {}
  BY DEF LoseMemory, HeldJobs
<1>3. PhaseInv' /\ RequeueInv' /\ OrderInv'
  BY <1>1 DEF LoseMemory, PhaseInv, RequeueInv, OrderInv, Held
<1>4. HeldOnce'
  BY DEF LoseMemory, HeldOnce, InQueue, InReady, InHands, InWorker
<1>5. FreshInv' /\ HeldInv'
  BY <1>1 DEF MemoryInv, FreshInv, HeldInv, table, LoseMemory
<1> QED BY <1>1, <1>2, <1>3, <1>4, <1>5
        DEF MemoryInv, RowIdentity, NothingForgotten, CleanStopDrains

LEMMA Crash_MemoryInv == ASSUME MemoryInv, Crash PROVE MemoryInv'
BY TypeOK_Life, LoseMemory_MemoryInv DEF MemoryInv, Crash, table

LEMMA ShutdownFails_MemoryInv == ASSUME MemoryInv, ShutdownFails PROVE MemoryInv'
BY TypeOK_Life, LoseMemory_MemoryInv DEF MemoryInv, ShutdownFails, table

LEMMA Serve_MemoryInv == ASSUME MemoryInv, Serve PROVE MemoryInv'
<1>1. TypeOK'
  BY TypeOK_Life DEF MemoryInv
<1>2. UNCHANGED <<jobs, nextId, queue, ready, hands, pipeline, workerUp, current>>
  BY DEF Serve, table, inbox, worker
<1>3. PhaseInv' /\ RequeueInv'
  BY <1>2 DEF MemoryInv, PhaseInv, RequeueInv, Serve
<1>4. FreshInv' /\ RowIdentity' /\ HeldOnce' /\ HeldInv' /\ OrderInv'
  BY <1>2 DEF MemoryInv, FreshInv, RowIdentity, HeldJobs, HeldOnce, HeldInv, OrderInv,
     Held, InQueue, InReady, InHands, InWorker, Finished
<1>5. NothingForgotten'
  BY <1>2 DEF MemoryInv, RequeueInv, NothingForgotten, Serve, Held, InQueue, InReady,
     InHands, InWorker, Unfinished
<1> QED BY <1>1, <1>3, <1>4, <1>5 DEF MemoryInv, CleanStopDrains, Serve

\* What a put does to the queue, and what a get does.
LEMMA QueueAppend ==
    ASSUME TypeOK, NEW x \in Job \cup {None}, queue' = Append(queue, x)
    PROVE  /\ Len(queue) \in Nat
           /\ Len(queue') = Len(queue) + 1
           /\ DOMAIN queue = 1 .. Len(queue)
           /\ DOMAIN queue' = 1 .. (Len(queue) + 1)
           /\ \A k \in DOMAIN queue : queue'[k] = queue[k]
           /\ queue'[Len(queue) + 1] = x
           /\ queue' # <<>>
           /\ \A i : InQueue(i)' <=> InQueue(i) \/ (x # None /\ x.id = i)
           /\ \A k \in DOMAIN queue' : queue'[k] = x \/ \E l \in DOMAIN queue : queue[l] = queue'[k]
<1>1. queue \in Seq(Job \cup {None}) /\ Len(queue) \in Nat
  BY DEF TypeOK
<1>2. /\ Len(queue') = Len(queue) + 1
      /\ DOMAIN queue = 1 .. Len(queue)
      /\ DOMAIN queue' = 1 .. (Len(queue) + 1)
      /\ \A k \in DOMAIN queue : queue'[k] = queue[k]
      /\ queue'[Len(queue) + 1] = x
      /\ queue' # <<>>
  BY <1>1, AppendElements
<1>3. \A i : InQueue(i)' <=> InQueue(i) \/ (x # None /\ x.id = i)
  <2>1. DOMAIN queue' = DOMAIN queue \cup {Len(queue) + 1}
    BY <1>1, <1>2
  <2> QED BY <1>2, <2>1 DEF InQueue
<1>4. \A k \in DOMAIN queue' : queue'[k] = x \/ \E l \in DOMAIN queue : queue[l] = queue'[k]
  BY <1>1, <1>2
<1> QED BY <1>1, <1>2, <1>3, <1>4

LEMMA QueueTail ==
    ASSUME TypeOK, queue # <<>>, queue' = Tail(queue)
    PROVE  /\ Len(queue) \in Nat \ {0}
           /\ Len(queue') = Len(queue) - 1
           /\ DOMAIN queue = 1 .. Len(queue)
           /\ DOMAIN queue' = 1 .. (Len(queue) - 1)
           /\ Head(queue) = queue[1]
           /\ \A k \in DOMAIN queue' : queue'[k] = queue[k + 1] /\ k + 1 \in DOMAIN queue
           /\ \A i : InQueue(i) <=> InQueue(i)' \/ (Head(queue) # None /\ Head(queue).id = i)
<1>1. queue \in Seq(Job \cup {None}) /\ Len(queue) \in Nat \ {0}
  BY EmptySeq DEF TypeOK
<1>2. /\ Len(queue') = Len(queue) - 1
      /\ DOMAIN queue = 1 .. Len(queue)
      /\ DOMAIN queue' = 1 .. (Len(queue) - 1)
      /\ Head(queue) = queue[1]
      /\ \A k \in DOMAIN queue' : queue'[k] = queue[k + 1] /\ k + 1 \in DOMAIN queue
  BY <1>1, TailElements
<1>3. \A i : InQueue(i) <=> InQueue(i)' \/ (Head(queue) # None /\ Head(queue).id = i)
  <2>1. \A k \in DOMAIN queue : k = 1 \/ (k - 1 \in DOMAIN queue' /\ queue'[k - 1] = queue[k])
    BY <1>1, <1>2
  <2>2. 1 \in DOMAIN queue
    BY <1>1, <1>2
  <2> SUFFICES ASSUME NEW i
               PROVE  InQueue(i) <=> InQueue(i)' \/ (queue[1] # None /\ queue[1].id = i)
    BY <1>2
  <2>3. InQueue(i) => InQueue(i)' \/ (queue[1] # None /\ queue[1].id = i)
    BY <2>1 DEF InQueue
  <2>4. InQueue(i)' => InQueue(i)
    BY <1>2 DEF InQueue
  <2>5. queue[1] # None /\ queue[1].id = i => InQueue(i)
    BY <2>2 DEF InQueue
  <2> QED BY <2>3, <2>4, <2>5
<1> QED BY <1>1, <1>2, <1>3

\* The jobs in memory, place by place.
LEMMA HeldJobsPlaces ==
    \A job : job \in HeldJobs <=>
        /\ job # None
        /\ \/ \E k \in DOMAIN queue : queue[k] = job
           \/ \E k \in DOMAIN ready : ready[k] = job
           \/ \E t \in Threads : hands[t] = job
           \/ current = job
BY DEF HeldJobs

LEMMA HeldJobsType == ASSUME TypeOK PROVE \A job \in HeldJobs : job \in Job /\ job.id \in JobIds
<1>1. HeldJobs \subseteq Job
  BY HeldJobsPlaces DEF TypeOK
<1> QED BY <1>1 DEF Job

LEMMA RequeueNext_MemoryInv == ASSUME MemoryInv, RequeueNext PROVE MemoryInv'
<1>1. TypeOK /\ TypeOK'
  BY TypeOK_Life DEF MemoryInv
<1>2. PICK i \in JobIds :
        /\ i > cursor /\ Unfinished(i)
        /\ \A j \in JobIds : j > cursor /\ Unfinished(j) => i <= j
        /\ queue' = Append(queue, [id |-> i, meme |-> jobs[i].meme, type |-> jobs[i].type])
        /\ cursor' = i
  BY DEF RequeueNext
<1> DEFINE new == [id |-> i, meme |-> jobs[i].meme, type |-> jobs[i].type]
<1>3. UNCHANGED <<server, memes, jobs, nextId, ready, hands, pipeline, workerUp, current>>
      /\ server = "starting"
  BY DEF RequeueNext, table, worker
<1>4. new \in Job /\ new # None /\ new.id = i
  BY <1>1, <1>2, NoneAssumption DEF TypeOK, Unfinished, UnfinishedIn, Row, Job
<1>5. /\ Len(queue) \in Nat
      /\ DOMAIN queue = 1 .. Len(queue)
      /\ DOMAIN queue' = 1 .. (Len(queue) + 1)
      /\ \A k \in DOMAIN queue : queue'[k] = queue[k]
      /\ queue'[Len(queue) + 1] = new
      /\ \A j : InQueue(j)' <=> InQueue(j) \/ j = i
  BY <1>1, <1>2, <1>4, QueueAppend
<1>6. ready = <<>> /\ current = None /\ pipeline = <<>> /\ \A t \in Threads : hands[t] = None
  BY <1>3 DEF MemoryInv, PhaseInv
<1>7. \A j \in JobIds : InQueue(j) => j <= cursor
  BY <1>3 DEF MemoryInv, RequeueInv
<1>8. i \in Nat /\ cursor \in Nat
  BY <1>1 DEF TypeOK, JobIds
<1>9. PhaseInv'
  <2>1. \A k \in DOMAIN queue' : queue'[k] # None
    BY <1>3, <1>4, <1>5 DEF MemoryInv, PhaseInv
  <2> QED BY <1>3, <2>1 DEF MemoryInv, PhaseInv
<1>10. RequeueInv'
  BY <1>2, <1>3, <1>5, <1>7, <1>8 DEF MemoryInv, RequeueInv, Unfinished, JobIds
<1>11. \A j \in JobIds : Held(j)' <=> Held(j) \/ j = i
  BY <1>3, <1>5 DEF Held, InReady, InHands, InWorker
<1>12. FreshInv' /\ HeldInv'
  BY <1>2, <1>3, <1>6, <1>11 DEF MemoryInv, FreshInv, HeldInv, Unfinished, Finished,
     UnfinishedIn, FinishedIn
<1>13. RowIdentity'
  BY <1>2, <1>3, <1>4, <1>5, HeldJobsPlaces DEF MemoryInv, RowIdentity, HeldJobs
<1>14. \A k \in DOMAIN queue : queue[k] # None => queue[k].id \in JobIds /\ queue[k].id <= cursor
  BY <1>1, <1>7 DEF TypeOK, InQueue, Job
<1>15. HeldOnce'
  <2>1. \A j : ~InReady(j)' /\ ~InHands(j)' /\ ~InWorker(j)'
    BY <1>3, <1>6 DEF InReady, InHands, InWorker
  <2>2. \A k, l \in DOMAIN queue' :
          queue'[k] # None /\ queue'[l] # None /\ queue'[k].id = queue'[l].id => k = l
    BY <1>2, <1>4, <1>5, <1>8, <1>14 DEF MemoryInv, HeldOnce
  <2> QED BY <1>3, <1>6, <2>1, <2>2 DEF HeldOnce
<1>16. OrderInv'
  <2>1. ASSUME NEW k \in DOMAIN queue', NEW l \in DOMAIN queue',
               queue'[k] # None, queue'[l] # None, k < l,
               queue'[l].type \in PipelineTypes
        PROVE  queue'[k].id < queue'[l].id
    <3>1. k \in DOMAIN queue
      BY <1>5, <2>1
    <3>2. CASE l \in DOMAIN queue
      BY <1>5, <2>1, <3>1, <3>2 DEF MemoryInv, OrderInv
    <3>3. CASE l = Len(queue) + 1
      <4>1. queue[k].id \in Nat /\ queue[k].id <= cursor
        BY <1>5, <1>14, <2>1, <3>1 DEF JobIds
      <4> QED BY <1>2, <1>4, <1>5, <1>8, <3>1, <3>3, <4>1
    <3> QED BY <1>5, <3>2, <3>3
  <2> QED BY <1>3, <1>6, <2>1 DEF MemoryInv, OrderInv
<1> QED BY <1>1, <1>3, <1>9, <1>10, <1>12, <1>13, <1>15, <1>16
        DEF MemoryInv, NothingForgotten, CleanStopDrains

LEMMA BeginShutdown_MemoryInv == ASSUME MemoryInv, BeginShutdown PROVE MemoryInv'
<1>1. TypeOK /\ TypeOK'
  BY TypeOK_Life DEF MemoryInv
<1>2. /\ UNCHANGED <<jobs, nextId, cursor, ready, hands, pipeline, workerUp, current>>
      /\ queue' = Append(queue, None)
      /\ server = "serving" /\ server' = "stopping"
      /\ ready = <<>> /\ pipeline = <<>> /\ \A t \in Threads : hands[t] = None
  BY DEF BeginShutdown, table, worker
<1>3. /\ Len(queue) \in Nat
      /\ Len(queue') = Len(queue) + 1
      /\ DOMAIN queue = 1 .. Len(queue)
      /\ DOMAIN queue' = 1 .. (Len(queue) + 1)
      /\ \A k \in DOMAIN queue : queue'[k] = queue[k]
      /\ queue'[Len(queue) + 1] = None
      /\ queue' # <<>>
      /\ \A i : InQueue(i)' <=> InQueue(i)
  BY <1>1, <1>2, QueueAppend
<1>4. PhaseInv' /\ RequeueInv'
  BY <1>2, <1>3 DEF MemoryInv, PhaseInv, RequeueInv
<1>5. \A i : /\ Held(i)' <=> Held(i)
             /\ InReady(i)' <=> InReady(i)
             /\ InHands(i)' <=> InHands(i)
             /\ InWorker(i)' <=> InWorker(i)
  BY <1>2, <1>3 DEF Held, InReady, InHands, InWorker
<1>6. FreshInv' /\ HeldInv' /\ NothingForgotten'
  BY <1>2, <1>5 DEF MemoryInv, FreshInv, HeldInv, NothingForgotten, Unfinished, Finished
<1>7. RowIdentity'
  BY <1>2, <1>3, HeldJobsPlaces DEF MemoryInv, RowIdentity, HeldJobs
<1>8. HeldOnce'
  BY <1>2, <1>3, <1>5 DEF MemoryInv, HeldOnce
<1>9. OrderInv'
  BY <1>2, <1>3 DEF MemoryInv, OrderInv
<1> QED BY <1>1, <1>2, <1>4, <1>6, <1>7, <1>8, <1>9 DEF MemoryInv, CleanStopDrains

\* Steps that touch neither the rows nor the jobs in memory.
LEMMA PipelineOnly_MemoryInv ==
    ASSUME MemoryInv, TypeOK', server = "serving",
           UNCHANGED <<server, jobs, nextId, cursor, queue, ready, hands, workerUp, current>>
    PROVE  MemoryInv'
<1>1. PhaseInv' /\ RequeueInv'
  BY DEF MemoryInv, PhaseInv, RequeueInv
<1>2. FreshInv' /\ RowIdentity' /\ HeldOnce' /\ HeldInv' /\ OrderInv' /\ NothingForgotten'
  BY DEF MemoryInv, FreshInv, RowIdentity, HeldJobs, HeldOnce, HeldInv, OrderInv, NothingForgotten,
     Held, InQueue, InReady, InHands, InWorker, Finished, Unfinished
<1> QED BY <1>1, <1>2 DEF MemoryInv, CleanStopDrains

LEMMA Upload_MemoryInv ==
    ASSUME MemoryInv, NEW m \in Memes, NEW withFace \in BOOLEAN, Upload(m, withFace)
    PROVE  MemoryInv'
<1>1. TypeOK'
  BY TypeOK_Requests DEF MemoryInv
<1> QED BY <1>1, PipelineOnly_MemoryInv DEF Upload, worker, life

LEMMA PipelineAborts_MemoryInv == ASSUME MemoryInv, PipelineAborts PROVE MemoryInv'
<1>1. TypeOK'
  BY TypeOK_Requests DEF MemoryInv
<1>2. server = "serving"
  BY DEF MemoryInv, TypeOK, PhaseInv, PipelineAborts
<1> QED BY <1>1, <1>2, PipelineOnly_MemoryInv DEF PipelineAborts, table, worker, life

LEMMA DeleteMeme_MemoryInv ==
    ASSUME MemoryInv, NEW m \in Memes, DeleteMeme(m)
    PROVE  MemoryInv'
<1>1. TypeOK'
  BY TypeOK_Requests DEF MemoryInv
<1>2. /\ UNCHANGED <<nextId, queue, ready, hands, pipeline, workerUp, current,
                     server, cursor>>
      /\ server = "serving"
  BY DEF DeleteMeme, inbox, worker, life
<1>3. \A i \in JobIds : jobs'[i] \in {jobs[i], None}
  BY DEF DeleteMeme
<1>4. \A i : Held(i)' <=> Held(i)
  BY <1>2 DEF Held, InQueue, InReady, InHands, InWorker
<1>5. \A i \in JobIds : (Unfinished(i)' => Unfinished(i)) /\ (Finished(i)' => Finished(i))
  BY <1>3 DEF Unfinished, Finished, UnfinishedIn, FinishedIn
<1>6. PhaseInv' /\ RequeueInv' /\ OrderInv'
  BY <1>2 DEF MemoryInv, PhaseInv, RequeueInv, OrderInv
<1>7. FreshInv' /\ NothingForgotten'
  BY <1>2, <1>3, <1>4, <1>5 DEF MemoryInv, FreshInv, NothingForgotten
<1>8. HeldJobs' = HeldJobs /\ \A job \in HeldJobs : job.id \in JobIds
  <2>1. HeldJobs' = HeldJobs
    BY <1>2 DEF HeldJobs
  <2>2. HeldJobs \subseteq Job
    BY HeldJobsPlaces DEF MemoryInv, TypeOK
  <2> QED BY <2>1, <2>2 DEF Job
<1>9. RowIdentity'
  BY <1>3, <1>8 DEF MemoryInv, RowIdentity
<1>10. HeldInv'
  <2>1. current # None => current.id \in JobIds
    BY DEF MemoryInv, TypeOK, Job
  <2> QED BY <1>2, <1>3, <1>4, <1>5, <2>1 DEF MemoryInv, HeldInv
<1>11. HeldOnce'
  BY <1>2 DEF MemoryInv, HeldOnce, InQueue, InReady, InHands, InWorker
<1> QED BY <1>1, <1>2, <1>6, <1>7, <1>9, <1>10, <1>11 DEF MemoryInv, CleanStopDrains

\* What update_job leaves as it was, and what it writes.
LEMMA UpdateJobEffect ==
    ASSUME TypeOK, NEW c \in JobIds, NEW status \in Statuses, NEW bump \in Nat,
           UpdateJob(c, status, bump)
    PROVE  /\ \A i \in JobIds : i # c => jobs'[i] = jobs[i]
           /\ \A i \in JobIds :
                /\ jobs'[i] = None <=> jobs[i] = None
                /\ jobs[i] # None => /\ jobs'[i].meme = jobs[i].meme
                                     /\ jobs'[i].type = jobs[i].type
           /\ jobs[c] # None => /\ jobs'[c] = WithStatus(jobs[c], status, bump)
                                /\ jobs'[c].status = status
<1>1. CASE jobs[c] = None
  BY <1>1 DEF UpdateJob
<1>2. CASE jobs[c] # None
  <2>1. /\ jobs'[c] = WithStatus(jobs[c], status, bump)
        /\ \A i \in JobIds : i # c => jobs'[i] = jobs[i]
    BY <1>2 DEF TypeOK, UpdateJob
  <2>2. WithStatus(jobs[c], status, bump) \in Row
    BY <1>2, RowTypes
  <2>3. jobs'[c] # None
    BY <2>1, <2>2, NoRowAssumption
  <2>4. jobs'[c].meme = jobs[c].meme /\ jobs'[c].type = jobs[c].type /\ jobs'[c].status = status
    BY <2>1 DEF WithStatus
  <2> QED BY <1>2, <2>1, <2>3, <2>4
<1> QED BY <1>1, <1>2

LEMMA HandlerRetries_MemoryInv == ASSUME MemoryInv, HandlerRetries PROVE MemoryInv'
<1>1. TypeOK /\ TypeOK'
  BY TypeOK_Worker DEF MemoryInv
<1>2. /\ UNCHANGED <<nextId, queue, ready, hands, pipeline, workerUp, current, server, cursor>>
      /\ server \in {"serving", "stopping"}
      /\ current # None /\ UpdateJob(current.id, "RUNNING", 1)
  BY DEF HandlerRetries, inbox, life, WorkerTurn
<1>3. current \in Job /\ current.id \in JobIds
  BY <1>1, <1>2 DEF TypeOK, Job
<1>4. /\ \A i \in JobIds : i # current.id => jobs'[i] = jobs[i]
      /\ \A i \in JobIds :
           /\ jobs'[i] = None <=> jobs[i] = None
           /\ jobs[i] # None => jobs'[i].meme = jobs[i].meme /\ jobs'[i].type = jobs[i].type
      /\ jobs[current.id] # None => jobs'[current.id].status = "RUNNING"
  BY <1>1, <1>2, <1>3, UpdateJobEffect DEF Statuses
<1>5. \A i : Held(i)' <=> Held(i)
  BY <1>2 DEF Held, InQueue, InReady, InHands, InWorker
<1>6. InWorker(current.id)
  BY <1>2 DEF InWorker
<1>7. \A i \in JobIds : /\ Unfinished(i)' => Unfinished(i) \/ Held(i)
                        /\ Finished(i)' => Finished(i)
  BY <1>3, <1>4, <1>6 DEF Unfinished, Finished, UnfinishedIn, FinishedIn, Held
<1>8. PhaseInv' /\ RequeueInv' /\ OrderInv'
  BY <1>2 DEF MemoryInv, PhaseInv, RequeueInv, OrderInv
<1>9. FreshInv' /\ NothingForgotten'
  BY <1>2, <1>4, <1>5, <1>7 DEF MemoryInv, FreshInv, NothingForgotten
<1>10. HeldJobs' = HeldJobs
  BY <1>2 DEF HeldJobs
<1>11. \A job \in HeldJobs : job.id \in JobIds
  BY <1>1, HeldJobsType
<1>12. RowIdentity'
  BY <1>4, <1>10, <1>11 DEF MemoryInv, RowIdentity
<1>13. HeldInv'
  BY <1>2, <1>3, <1>4, <1>5, <1>7 DEF MemoryInv, HeldInv
<1>14. HeldOnce'
  BY <1>2 DEF MemoryInv, HeldOnce, InQueue, InReady, InHands, InWorker
<1> QED BY <1>1, <1>2, <1>8, <1>9, <1>12, <1>13, <1>14 DEF MemoryInv, CleanStopDrains

\* The worker puts its job down with the row settled.
LEMMA Settle_MemoryInv ==
    ASSUME MemoryInv, TypeOK', server \in {"serving", "stopping"},
           UNCHANGED <<nextId, queue, ready, hands, pipeline, workerUp, server, cursor>>,
           current # None, current' = None,
           NEW status \in {"DONE", "ERROR"}, UpdateJob(current.id, status, 0)
    PROVE  MemoryInv'
<1>1. TypeOK
  BY DEF MemoryInv
<1>3. current \in Job /\ current.id \in JobIds
  BY <1>1 DEF TypeOK, Job
<1>4. /\ \A i \in JobIds : i # current.id => jobs'[i] = jobs[i]
      /\ \A i \in JobIds :
           /\ jobs'[i] = None <=> jobs[i] = None
           /\ jobs[i] # None => jobs'[i].meme = jobs[i].meme /\ jobs'[i].type = jobs[i].type
      /\ jobs[current.id] # None => jobs'[current.id].status = status
  BY <1>1, <1>3, UpdateJobEffect DEF Statuses
<1>5. \A i : /\ InQueue(i)' <=> InQueue(i)
             /\ InReady(i)' <=> InReady(i)
             /\ InHands(i)' <=> InHands(i)
             /\ ~InWorker(i)'
  BY DEF InQueue, InReady, InHands, InWorker
<1>6. \A i : InWorker(i) <=> i = current.id
  BY DEF InWorker
<1>7. \A i \in JobIds : Held(i)' <=> Held(i) /\ i # current.id
  BY <1>3, <1>5, <1>6 DEF MemoryInv, HeldOnce, Held
<1>8. \A i \in JobIds : /\ Unfinished(i)' => Unfinished(i) /\ i # current.id
                        /\ i # current.id /\ Finished(i)' => Finished(i)
  BY <1>3, <1>4 DEF Unfinished, Finished, UnfinishedIn, FinishedIn
<1>9. PhaseInv' /\ RequeueInv' /\ OrderInv'
  BY DEF MemoryInv, PhaseInv, RequeueInv, OrderInv
<1>10. FreshInv' /\ NothingForgotten' /\ HeldInv'
  BY <1>4, <1>7, <1>8 DEF MemoryInv, FreshInv, NothingForgotten, HeldInv
<1>11. \A job \in HeldJobs' : job \in HeldJobs
  BY DEF HeldJobs
<1>12. \A job \in HeldJobs : job.id \in JobIds
  BY <1>1, HeldJobsType
<1>13. RowIdentity'
  BY <1>4, <1>11, <1>12 DEF MemoryInv, RowIdentity
<1>14. HeldOnce'
  BY <1>5 DEF MemoryInv, HeldOnce
<1> QED BY <1>9, <1>10, <1>13, <1>14 DEF MemoryInv, CleanStopDrains

LEMMA HandlerSucceeds_MemoryInv == ASSUME MemoryInv, HandlerSucceeds PROVE MemoryInv'
<1>1. TypeOK'
  BY TypeOK_Worker DEF MemoryInv
<1> QED BY <1>1, Settle_MemoryInv DEF HandlerSucceeds, WorkerTurn, inbox, life

LEMMA HandlerGivesUp_MemoryInv == ASSUME MemoryInv, HandlerGivesUp PROVE MemoryInv'
<1>1. TypeOK'
  BY TypeOK_Worker DEF MemoryInv
<1> QED BY <1>1, Settle_MemoryInv DEF HandlerGivesUp, WorkerTurn, inbox, life

LEMMA WorkerTake_MemoryInv == ASSUME MemoryInv, WorkerTake PROVE MemoryInv'
<1>1. TypeOK /\ TypeOK'
  BY TypeOK_Worker DEF MemoryInv
<1>2. /\ UNCHANGED <<nextId, ready, hands, pipeline, workerUp, server, cursor>>
      /\ server \in {"serving", "stopping"} /\ workerUp
      /\ current = None /\ queue # <<>> /\ queue' = Tail(queue)
      /\ Head(queue) # None /\ current' = Head(queue)
      /\ UpdateJob(Head(queue).id, "RUNNING", 1)
  BY DEF WorkerTake, life, WorkerTurn
<1>a. PICK job : job = Head(queue)
  OBVIOUS
<1>3. /\ Len(queue) \in Nat \ {0}
      /\ Len(queue') = Len(queue) - 1
      /\ DOMAIN queue = 1 .. Len(queue)
      /\ DOMAIN queue' = 1 .. (Len(queue) - 1)
      /\ job = queue[1]
      /\ \A k \in DOMAIN queue' : queue'[k] = queue[k + 1] /\ k + 1 \in DOMAIN queue
      /\ \A i : InQueue(i) <=> InQueue(i)' \/ job.id = i
  BY <1>1, <1>2, <1>a, QueueTail
<1>4. 1 \in DOMAIN queue
  BY <1>3
<1>5. job \in Job /\ job.id \in JobIds
  BY <1>1, <1>2, <1>a, <1>3, <1>4 DEF TypeOK, Job
<1>6. /\ \A i \in JobIds : i # job.id => jobs'[i] = jobs[i]
      /\ \A i \in JobIds :
           /\ jobs'[i] = None <=> jobs[i] = None
           /\ jobs[i] # None => jobs'[i].meme = jobs[i].meme /\ jobs'[i].type = jobs[i].type
      /\ jobs[job.id] # None => jobs'[job.id].status = "RUNNING"
  BY <1>1, <1>2, <1>a, <1>5, UpdateJobEffect DEF Statuses
<1>7. /\ InQueue(job.id)
      /\ ~InQueue(job.id)'
      /\ ~InReady(job.id) /\ ~InHands(job.id)
  <2>1. InQueue(job.id)
    BY <1>3
  <2>2. ASSUME NEW k \in DOMAIN queue', queue'[k] # None, queue'[k].id = job.id
        PROVE  FALSE
    <3>1. queue[k + 1] # None /\ queue[k + 1].id = queue[1].id /\ k + 1 \in DOMAIN queue
      BY <1>3, <2>2
    <3>2. k + 1 = 1
      BY <1>2, <1>a, <1>3, <1>4, <3>1 DEF MemoryInv, HeldOnce
    <3> QED BY <1>3, <3>2
  <2>3. ~InQueue(job.id)'
    BY <2>2 DEF InQueue
  <2> QED BY <1>5, <2>1, <2>3 DEF MemoryInv, HeldOnce
<1>8. \A i : /\ InReady(i)' <=> InReady(i)
             /\ InHands(i)' <=> InHands(i)
             /\ InWorker(i)' <=> i = job.id
             /\ ~InWorker(i)
  BY <1>2, <1>a DEF InReady, InHands, InWorker
<1>9. \A i : Held(i)' <=> Held(i)
  BY <1>3, <1>8 DEF Held
<1>10. \A i \in JobIds : /\ Unfinished(i)' => Unfinished(i) \/ Held(i)
                         /\ Finished(i)' => Finished(i)
  BY <1>5, <1>6, <1>7 DEF Unfinished, Finished, UnfinishedIn, FinishedIn, Held
<1>11. PhaseInv'
  <2>1. ASSUME NEW k \in DOMAIN queue', queue'[k] = None
        PROVE  server = "stopping" /\ k = Len(queue')
    <3>1. queue[k + 1] = None /\ k + 1 \in DOMAIN queue /\ k \in Nat
      BY <1>3, <2>1
    <3> QED BY <1>3, <3>1 DEF MemoryInv, PhaseInv
  <2>2. ASSUME server = "stopping"
        PROVE  queue' # <<>> /\ queue'[Len(queue')] = None
    <3>1. queue[Len(queue)] = None
      BY <1>2, <2>2 DEF MemoryInv, PhaseInv
    <3>2. Len(queue) # 1
      BY <1>2, <1>a, <1>3, <3>1
    <3>3. Len(queue') \in DOMAIN queue'
      BY <1>3, <3>2
    <3>4. queue'[Len(queue')] = queue[Len(queue)]
      BY <1>3, <3>3
    <3> QED BY <1>3, <3>1, <3>3, <3>4
  <2> QED BY <1>2, <2>1, <2>2 DEF MemoryInv, PhaseInv
<1>12. RequeueInv'
  BY <1>2 DEF RequeueInv
<1>13. FreshInv' /\ NothingForgotten'
  BY <1>2, <1>6, <1>9, <1>10 DEF MemoryInv, FreshInv, NothingForgotten
<1>14. HeldInv'
  BY <1>2, <1>a, <1>5, <1>6, <1>9, <1>10 DEF MemoryInv, HeldInv
<1>15. \A j \in HeldJobs' : j \in HeldJobs
  <2>1. \A k \in DOMAIN queue' : \E l \in DOMAIN queue : queue[l] = queue'[k]
    BY <1>3
  <2> QED BY <1>2, <1>a, <1>3, <1>4, <2>1 DEF HeldJobs
<1>16. \A j \in HeldJobs : j.id \in JobIds
  BY <1>1, HeldJobsType
<1>17. RowIdentity'
  BY <1>6, <1>15, <1>16 DEF MemoryInv, RowIdentity
<1>18. HeldOnce'
  <2>1. ASSUME NEW k \in DOMAIN queue', NEW l \in DOMAIN queue',
               queue'[k] # None, queue'[l] # None, queue'[k].id = queue'[l].id
        PROVE  k = l
    <3>1. k + 1 = l + 1
      BY <1>3, <2>1 DEF MemoryInv, HeldOnce
    <3> QED BY <1>3, <3>1
  <2>2. \A i \in JobIds : InQueue(i)' => InQueue(i) /\ i # job.id
    BY <1>3, <1>7
  <2> QED BY <1>2, <1>a, <1>7, <1>8, <2>1, <2>2 DEF MemoryInv, HeldOnce
<1>19. OrderInv'
  <2>1. ASSUME NEW k \in DOMAIN queue', NEW l \in DOMAIN queue',
               queue'[k] # None, queue'[l] # None, k < l,
               queue'[l].type \in PipelineTypes
        PROVE  queue'[k].id < queue'[l].id
    BY <1>3, <2>1 DEF MemoryInv, OrderInv
  <2>2. ASSUME NEW k \in DOMAIN queue', queue'[k] # None,
               queue'[k].type \in PipelineTypes, job.type \in PipelineTypes
        PROVE  job.id < queue'[k].id
    BY <1>2, <1>a, <1>3, <1>4, <2>2 DEF MemoryInv, OrderInv
  <2> QED BY <1>2, <1>a, <2>1, <2>2 DEF MemoryInv, OrderInv
<1> QED BY <1>1, <1>2, <1>11, <1>12, <1>13, <1>14, <1>17, <1>18, <1>19 DEF MemoryInv, CleanStopDrains

\* The id of a new row is free, and the row is pending.
LEMMA CreateJobEffect ==
    ASSUME MemoryInv, NEW m \in Memes, NEW type \in JobTypes, CreateJob(m, type)
    PROVE  /\ nextId \in JobIds /\ nextId' = nextId + 1
           /\ jobs[nextId] = None /\ ~Held(nextId)
           /\ jobs'[nextId] # None
           /\ jobs'[nextId].meme = m /\ jobs'[nextId].type = type
           /\ jobs'[nextId].status = "PENDING"
           /\ \A i \in JobIds : i # nextId => jobs'[i] = jobs[i]
<1>1. nextId \in JobIds /\ nextId' = nextId + 1
  BY DEF CreateJob
<1>2. jobs[nextId] = None /\ ~Held(nextId)
  BY <1>1 DEF MemoryInv, FreshInv, JobIds
<1> DEFINE new == [meme |-> m, type |-> type, status |-> "PENDING", attempts |-> 0]
<1>3. new \in Row
  BY DEF Row, Statuses
<1>4. /\ jobs'[nextId] = new
      /\ \A i \in JobIds : i # nextId => jobs'[i] = jobs[i]
  BY <1>1 DEF CreateJob, MemoryInv, TypeOK
<1> QED BY <1>1, <1>2, <1>3, <1>4, NoRowAssumption

LEMMA EnqueueCommit_MemoryInv ==
    ASSUME MemoryInv, NEW t \in Threads, NEW m \in Memes, EnqueueCommit(t, m)
    PROVE  MemoryInv'
<1>1. TypeOK /\ TypeOK'
  BY TypeOK_Requests DEF MemoryInv
<1>a. PICK n : n = nextId
  OBVIOUS
<1>b. PICK job : job = [id |-> n, meme |-> m, type |-> "RE_EMBED"]
  OBVIOUS
<1>2. /\ UNCHANGED <<queue, ready, pipeline, workerUp, current, server, cursor>>
      /\ server = "serving" /\ hands[t] = None
      /\ CreateJob(m, "RE_EMBED")
      /\ hands' = [hands EXCEPT ![t] = job]
  BY <1>a, <1>b DEF EnqueueCommit, worker, life
<1>3. /\ n \in JobIds /\ nextId' = n + 1
      /\ jobs[n] = None /\ ~Held(n)
      /\ jobs'[n] # None
      /\ jobs'[n].meme = m /\ jobs'[n].type = "RE_EMBED"
      /\ jobs'[n].status = "PENDING"
      /\ \A i \in JobIds : i # n => jobs'[i] = jobs[i]
  BY <1>2, <1>a, CreateJobEffect DEF JobTypes
<1>4. job \in Job /\ job # None /\ job.id = n
  BY <1>b, <1>3, NoneAssumption DEF Job, JobTypes
<1>5. /\ hands'[t] = job
      /\ \A u \in Threads : u # t => hands'[u] = hands[u]
  BY <1>1, <1>2 DEF TypeOK
<1>6. \A i : /\ InQueue(i)' <=> InQueue(i)
             /\ InReady(i)' <=> InReady(i)
             /\ InWorker(i)' <=> InWorker(i)
             /\ InHands(i)' <=> InHands(i) \/ i = n
  BY <1>2, <1>4, <1>5 DEF InQueue, InReady, InWorker, InHands
<1>7. \A i : Held(i)' <=> Held(i) \/ i = n
  BY <1>6 DEF Held
<1>8. \A i \in JobIds : i # n => (Unfinished(i)' <=> Unfinished(i)) /\ (Finished(i)' <=> Finished(i))
  BY <1>3 DEF Unfinished, Finished, UnfinishedIn, FinishedIn
<1>9. ~Finished(n)'
  BY <1>3 DEF Finished, FinishedIn
<1>10. PhaseInv' /\ RequeueInv'
  BY <1>2 DEF MemoryInv, PhaseInv, RequeueInv
<1>11. nextId \in Nat /\ n \in Nat
  BY <1>1, <1>a DEF TypeOK
<1>12. FreshInv'
  BY <1>3, <1>7, <1>11, <1>a DEF MemoryInv, FreshInv, JobIds
<1>13. NothingForgotten'
  BY <1>2, <1>7, <1>8 DEF MemoryInv, NothingForgotten
<1>14. HeldInv'
  <2>1. InWorker(current.id) \/ current = None
    BY DEF InWorker
  <2>2. current # None => current.id \in JobIds /\ current.id # n
    BY <1>1, <1>3, <2>1 DEF TypeOK, Job, Held
  <2> QED BY <1>2, <1>3, <1>7, <1>8, <1>9, <2>2 DEF MemoryInv, HeldInv
<1>15. \A j \in HeldJobs' : j = job \/ j \in HeldJobs
  BY <1>2, <1>5, HeldJobsPlaces DEF HeldJobs
<1>16. \A j \in HeldJobs : j.id \in JobIds
  BY <1>1, HeldJobsType
<1>17. RowIdentity'
  <2>1. \A j \in HeldJobs : j.id # n
    BY <1>3, HeldJobsPlaces DEF Held, InQueue, InReady, InHands, InWorker
  <2> QED BY <1>b, <1>3, <1>15, <1>16, <2>1 DEF MemoryInv, RowIdentity
<1>18. HeldOnce'
  <2>1. ASSUME NEW u \in Threads, NEW v \in Threads,
               hands'[u] # None, hands'[v] # None, hands'[u].id = hands'[v].id
        PROVE  u = v
    BY <1>3, <1>4, <1>5, <2>1 DEF MemoryInv, HeldOnce, Held, InHands
  <2> QED BY <1>2, <1>3, <1>6, <2>1 DEF MemoryInv, HeldOnce, Held
<1>19. OrderInv'
  BY <1>2, <1>b, <1>5 DEF MemoryInv, OrderInv
<1> QED BY <1>1, <1>2, <1>10, <1>12, <1>13, <1>14, <1>17, <1>18, <1>19 DEF MemoryInv, CleanStopDrains

LEMMA PipelineEnqueue_MemoryInv == ASSUME MemoryInv, PipelineEnqueue PROVE MemoryInv'
<1>1. TypeOK /\ TypeOK'
  BY TypeOK_Requests DEF MemoryInv
<1>a. PICK n : n = nextId
  OBVIOUS
<1>b. PICK step : step = Head(pipeline)
  OBVIOUS
<1>c. PICK job : job = [id |-> n, meme |-> step.meme, type |-> step.type]
  OBVIOUS
<1>2. /\ UNCHANGED <<ready, hands, workerUp, current, server, cursor>>
      /\ pipeline # <<>>
      /\ CreateJob(step.meme, step.type)
      /\ queue' = Append(queue, job)
      /\ pipeline' = Tail(pipeline)
  BY <1>a, <1>b, <1>c DEF PipelineEnqueue, worker, life
<1>d. step \in Step
  BY <1>1, <1>2, <1>b, TailElements DEF TypeOK
<1>e. step.meme \in Memes /\ step.type \in PipelineTypes /\ step.type \in JobTypes
  BY <1>d DEF Step, JobTypes
<1>f. server = "serving"
  BY <1>1, <1>2 DEF MemoryInv, TypeOK, PhaseInv
<1>3. /\ n \in JobIds /\ nextId' = n + 1
      /\ jobs[n] = None /\ ~Held(n)
      /\ jobs'[n] # None
      /\ jobs'[n].meme = step.meme /\ jobs'[n].type = step.type
      /\ jobs'[n].status = "PENDING"
      /\ \A i \in JobIds : i # n => jobs'[i] = jobs[i]
  BY <1>2, <1>a, <1>e, CreateJobEffect
<1>4. job \in Job /\ job # None /\ job.id = n
  BY <1>c, <1>e, <1>3, NoneAssumption DEF Job
<1>5. /\ Len(queue) \in Nat
      /\ DOMAIN queue = 1 .. Len(queue)
      /\ DOMAIN queue' = 1 .. (Len(queue) + 1)
      /\ \A k \in DOMAIN queue : queue'[k] = queue[k]
      /\ queue'[Len(queue) + 1] = job
      /\ \A i : InQueue(i)' <=> InQueue(i) \/ i = n
  BY <1>1, <1>2, <1>4, QueueAppend
<1>6. \A i : /\ InReady(i)' <=> InReady(i)
             /\ InWorker(i)' <=> InWorker(i)
             /\ InHands(i)' <=> InHands(i)
  BY <1>2 DEF InReady, InWorker, InHands
<1>7. \A i : Held(i)' <=> Held(i) \/ i = n
  BY <1>5, <1>6 DEF Held
<1>8. \A i \in JobIds : i # n => (Unfinished(i)' <=> Unfinished(i)) /\ (Finished(i)' <=> Finished(i))
  BY <1>3 DEF Unfinished, Finished, UnfinishedIn, FinishedIn
<1>9. ~Finished(n)'
  BY <1>3 DEF Finished, FinishedIn
<1>10. PhaseInv' /\ RequeueInv'
  BY <1>2, <1>4, <1>5, <1>f DEF MemoryInv, PhaseInv, RequeueInv
<1>11. nextId \in Nat /\ n \in Nat
  BY <1>1, <1>a DEF TypeOK
<1>12. FreshInv'
  BY <1>3, <1>7, <1>11, <1>a DEF MemoryInv, FreshInv, JobIds
<1>13. NothingForgotten'
  BY <1>2, <1>7, <1>8 DEF MemoryInv, NothingForgotten
<1>g. current # None => current.id \in JobIds /\ current.id < n
  <2>1. InWorker(current.id) \/ current = None
    BY DEF InWorker
  <2>2. current # None => current.id \in JobIds /\ Held(current.id)
    BY <1>1, <2>1 DEF TypeOK, Job, Held
  <2> QED BY <1>11, <1>a, <2>2 DEF MemoryInv, FreshInv, JobIds
<1>14. HeldInv'
  BY <1>2, <1>3, <1>7, <1>8, <1>9, <1>11, <1>g DEF MemoryInv, HeldInv, JobIds
<1>15. \A j \in HeldJobs' : j = job \/ j \in HeldJobs
  BY <1>2, <1>5, HeldJobsPlaces DEF HeldJobs
<1>16. \A j \in HeldJobs : j.id \in JobIds
  BY <1>1, HeldJobsType
<1>17. RowIdentity'
  <2>1. \A j \in HeldJobs : j.id # n
    BY <1>3, HeldJobsPlaces DEF Held, InQueue, InReady, InHands, InWorker
  <2> QED BY <1>c, <1>3, <1>15, <1>16, <2>1 DEF MemoryInv, RowIdentity
<1>h. \A k \in DOMAIN queue : queue[k] # None => queue[k].id \in Nat /\ queue[k].id < n
  <2>1. \A k \in DOMAIN queue : queue[k] # None => queue[k].id \in JobIds /\ Held(queue[k].id)
    BY <1>1 DEF TypeOK, Job, Held, InQueue
  <2> QED BY <1>11, <1>a, <2>1 DEF MemoryInv, FreshInv, JobIds
<1>18. HeldOnce'
  <2>1. ASSUME NEW k \in DOMAIN queue', NEW l \in DOMAIN queue',
               queue'[k] # None, queue'[l] # None, queue'[k].id = queue'[l].id
        PROVE  k = l
    <3>1. CASE k \in DOMAIN queue /\ l \in DOMAIN queue
      BY <1>5, <2>1, <3>1 DEF MemoryInv, HeldOnce
    <3>2. CASE k \notin DOMAIN queue \/ l \notin DOMAIN queue
      BY <1>4, <1>5, <1>11, <1>h, <2>1, <3>2
    <3> QED BY <3>1, <3>2
  <2>2. ~InReady(n) /\ ~InHands(n) /\ ~InWorker(n)
    BY <1>3 DEF Held
  <2> QED BY <1>2, <1>5, <1>6, <2>1, <2>2 DEF MemoryInv, HeldOnce
<1>19. OrderInv'
  <2>1. ASSUME NEW k \in DOMAIN queue', NEW l \in DOMAIN queue',
               queue'[k] # None, queue'[l] # None, k < l,
               queue'[l].type \in PipelineTypes
        PROVE  queue'[k].id < queue'[l].id
    <3>1. k \in DOMAIN queue
      BY <1>5, <2>1
    <3>2. CASE l \in DOMAIN queue
      BY <1>5, <2>1, <3>1, <3>2 DEF MemoryInv, OrderInv
    <3>3. CASE l = Len(queue) + 1
      BY <1>4, <1>5, <1>h, <2>1, <3>1, <3>3
    <3> QED BY <1>5, <3>2, <3>3
  <2>2. ASSUME NEW k \in DOMAIN queue', queue'[k] # None, queue'[k].type \in PipelineTypes,
               current # None
        PROVE  current.id < queue'[k].id
    <3>1. CASE k \in DOMAIN queue
      BY <1>5, <2>2, <3>1 DEF MemoryInv, OrderInv
    <3>2. CASE k = Len(queue) + 1
      BY <1>4, <1>5, <1>g, <2>2, <3>2
    <3> QED BY <1>5, <3>1, <3>2
  <2> QED BY <1>2, <2>1, <2>2 DEF MemoryInv, OrderInv
<1> QED BY <1>1, <1>2, <1>f, <1>10, <1>12, <1>13, <1>14, <1>17, <1>18, <1>19
        DEF MemoryInv, CleanStopDrains

LEMMA EnqueuePut_MemoryInv ==
    ASSUME MemoryInv, NEW t \in Threads, EnqueuePut(t)
    PROVE  MemoryInv'
<1>1. TypeOK /\ TypeOK'
  BY TypeOK_Requests DEF MemoryInv
<1>a. PICK job : job = hands[t]
  OBVIOUS
<1>2. /\ UNCHANGED <<jobs, nextId, queue, pipeline, workerUp, current, server, cursor>>
      /\ job # None
      /\ ready' = Append(ready, job)
      /\ hands' = [hands EXCEPT ![t] = None]
  BY <1>a DEF EnqueuePut, table, worker, life
<1>3. job \in Job /\ job.id \in JobIds
  BY <1>1, <1>2, <1>a DEF TypeOK, Job
<1>4. server = "serving"
  BY <1>1, <1>2, <1>a DEF MemoryInv, TypeOK, PhaseInv
<1>5. /\ Len(ready) \in Nat
      /\ DOMAIN ready = 1 .. Len(ready)
      /\ DOMAIN ready' = 1 .. (Len(ready) + 1)
      /\ \A k \in DOMAIN ready : ready'[k] = ready[k]
      /\ ready'[Len(ready) + 1] = job
  BY <1>1, <1>2, <1>3, AppendElements DEF TypeOK
<1>6. /\ hands'[t] = None
      /\ \A u \in Threads : u # t => hands'[u] = hands[u]
  BY <1>1, <1>2 DEF TypeOK
<1>7. InHands(job.id) /\ ~InReady(job.id) /\ ~InQueue(job.id) /\ ~InWorker(job.id)
  <2>1. InHands(job.id)
    BY <1>2, <1>a DEF InHands
  <2> QED BY <1>3, <2>1 DEF MemoryInv, HeldOnce
<1>8. \A i : /\ InQueue(i)' <=> InQueue(i)
             /\ InWorker(i)' <=> InWorker(i)
             /\ InReady(i)' <=> InReady(i) \/ i = job.id
             /\ InHands(i)' <=> InHands(i) /\ i # job.id
  <2>1. \A i : InReady(i)' <=> InReady(i) \/ i = job.id
    <3>1. DOMAIN ready' = DOMAIN ready \cup {Len(ready) + 1}
      BY <1>5
    <3> QED BY <1>5, <3>1 DEF InReady
  <2>2. \A i : InHands(i)' <=> InHands(i) /\ i # job.id
    <3>1. \A u \in Threads : u # t /\ hands[u] # None => hands[u].id # job.id
      BY <1>2, <1>a DEF MemoryInv, HeldOnce
    <3> QED BY <1>2, <1>a, <1>6, <3>1 DEF InHands
  <2> QED BY <1>2, <2>1, <2>2 DEF InQueue, InWorker
<1>9. \A i : Held(i)' <=> Held(i)
  BY <1>7, <1>8 DEF Held
<1>10. PhaseInv' /\ RequeueInv'
  BY <1>2, <1>4 DEF MemoryInv, PhaseInv, RequeueInv
<1>11. FreshInv' /\ NothingForgotten' /\ HeldInv'
  BY <1>2, <1>9 DEF MemoryInv, FreshInv, NothingForgotten, HeldInv, Unfinished, Finished
<1>12. RowIdentity'
  <2>1. \A j \in HeldJobs' : j \in HeldJobs
    BY <1>2, <1>a, <1>5, <1>6, HeldJobsPlaces DEF HeldJobs
  <2> QED BY <1>2, <2>1 DEF MemoryInv, RowIdentity
<1>13. HeldOnce'
  <2>1. ASSUME NEW k \in DOMAIN ready', NEW l \in DOMAIN ready', ready'[k].id = ready'[l].id
        PROVE  k = l
    <3>1. \A n \in DOMAIN ready : ready[n].id # job.id
      BY <1>7 DEF InReady
    <3> QED BY <1>5, <2>1, <3>1 DEF MemoryInv, HeldOnce
  <2>2. ASSUME NEW u \in Threads, NEW v \in Threads,
               hands'[u] # None, hands'[v] # None, hands'[u].id = hands'[v].id
        PROVE  u = v
    BY <1>6, <2>2 DEF MemoryInv, HeldOnce
  <2> QED BY <1>2, <1>7, <1>8, <2>1, <2>2 DEF MemoryInv, HeldOnce
<1>14. OrderInv'
  BY <1>2, <1>a, <1>5, <1>6 DEF MemoryInv, OrderInv
<1> QED BY <1>1, <1>2, <1>4, <1>10, <1>11, <1>12, <1>13, <1>14 DEF MemoryInv, CleanStopDrains

LEMMA Deliver_MemoryInv == ASSUME MemoryInv, Deliver PROVE MemoryInv'
<1>1. TypeOK /\ TypeOK'
  BY TypeOK_Requests DEF MemoryInv
<1>a. PICK job : job = Head(ready)
  OBVIOUS
<1>2. /\ UNCHANGED <<jobs, nextId, hands, pipeline, workerUp, current, server, cursor>>
      /\ ready # <<>>
      /\ queue' = Append(queue, job)
      /\ ready' = Tail(ready)
  BY <1>a DEF Deliver, table, worker, life
<1>3. /\ DOMAIN ready = 1 .. Len(ready)
      /\ Len(ready) \in Nat \ {0}
      /\ DOMAIN ready' = 1 .. (Len(ready) - 1)
      /\ job = ready[1] /\ 1 \in DOMAIN ready
      /\ job \in Job
      /\ \A k \in DOMAIN ready' : ready'[k] = ready[k + 1] /\ k + 1 \in DOMAIN ready
  BY <1>1, <1>2, <1>a, TailElements, EmptySeq DEF TypeOK
<1>4. job # None /\ job.id \in JobIds
  BY <1>3, NoneAssumption DEF Job
<1>5. server = "serving"
  BY <1>1, <1>2 DEF MemoryInv, TypeOK, PhaseInv
<1>6. /\ Len(queue) \in Nat
      /\ DOMAIN queue = 1 .. Len(queue)
      /\ DOMAIN queue' = 1 .. (Len(queue) + 1)
      /\ \A k \in DOMAIN queue : queue'[k] = queue[k]
      /\ queue'[Len(queue) + 1] = job
      /\ \A i : InQueue(i)' <=> InQueue(i) \/ i = job.id
  BY <1>1, <1>2, <1>3, <1>4, QueueAppend
<1>7. InReady(job.id) /\ ~InHands(job.id) /\ ~InQueue(job.id) /\ ~InWorker(job.id)
  <2>1. InReady(job.id)
    BY <1>3 DEF InReady
  <2> QED BY <1>4, <2>1 DEF MemoryInv, HeldOnce
<1>8. \A i : /\ InWorker(i)' <=> InWorker(i)
             /\ InHands(i)' <=> InHands(i)
             /\ InReady(i)' <=> InReady(i) /\ i # job.id
  <2>1. \A k \in DOMAIN ready : k = 1 \/ (k - 1 \in DOMAIN ready' /\ ready'[k - 1] = ready[k])
    BY <1>3
  <2>2. \A k \in DOMAIN ready' : ready'[k].id # job.id
    BY <1>3 DEF MemoryInv, HeldOnce
  <2>3. \A i : InReady(i)' => InReady(i) /\ i # job.id
    BY <1>3, <2>2 DEF InReady
  <2>4. \A i : InReady(i) /\ i # job.id => InReady(i)'
    BY <1>3, <2>1 DEF InReady
  <2> QED BY <1>2, <2>3, <2>4 DEF InWorker, InHands
<1>9. \A i : Held(i)' <=> Held(i)
  BY <1>6, <1>7, <1>8 DEF Held
<1>10. PhaseInv' /\ RequeueInv'
  BY <1>2, <1>4, <1>5, <1>6 DEF MemoryInv, PhaseInv, RequeueInv
<1>11. FreshInv' /\ NothingForgotten' /\ HeldInv'
  BY <1>2, <1>9 DEF MemoryInv, FreshInv, NothingForgotten, HeldInv, Unfinished, Finished
<1>12. RowIdentity'
  <2>1. \A j \in HeldJobs' : j \in HeldJobs
    BY <1>2, <1>3, <1>6, HeldJobsPlaces DEF HeldJobs
  <2> QED BY <1>2, <2>1 DEF MemoryInv, RowIdentity
<1>13. HeldOnce'
  <2>1. ASSUME NEW k \in DOMAIN queue', NEW l \in DOMAIN queue',
               queue'[k] # None, queue'[l] # None, queue'[k].id = queue'[l].id
        PROVE  k = l
    <3>1. \A n \in DOMAIN queue : queue[n] # None => queue[n].id # job.id
      BY <1>7 DEF InQueue
    <3> QED BY <1>6, <2>1, <3>1 DEF MemoryInv, HeldOnce
  <2>2. ASSUME NEW k \in DOMAIN ready', NEW l \in DOMAIN ready', ready'[k].id = ready'[l].id
        PROVE  k = l
    <3>1. k + 1 = l + 1
      BY <1>3, <2>2 DEF MemoryInv, HeldOnce
    <3> QED BY <1>3, <3>1
  <2> QED BY <1>2, <1>6, <1>7, <1>8, <2>1, <2>2 DEF MemoryInv, HeldOnce
<1>14. OrderInv'
  <2>1. job.type = "RE_EMBED" /\ "RE_EMBED" \notin PipelineTypes
    BY <1>3 DEF MemoryInv, OrderInv, PipelineTypes
  <2>2. \A k \in DOMAIN ready' : ready'[k].type = "RE_EMBED"
    BY <1>3 DEF MemoryInv, OrderInv
  <2>3. \A k \in DOMAIN queue' :
          queue'[k].type \in PipelineTypes => k \in DOMAIN queue /\ queue'[k] = queue[k]
    BY <1>6, <2>1
  <2> QED BY <1>2, <2>2, <2>3 DEF MemoryInv, OrderInv
<1> QED BY <1>1, <1>2, <1>5, <1>10, <1>11, <1>12, <1>13, <1>14 DEF MemoryInv, CleanStopDrains

LEMMA WorkerStops_MemoryInv == ASSUME MemoryInv, WorkerStops PROVE MemoryInv'
<1>1. TypeOK /\ TypeOK'
  BY TypeOK_Worker DEF MemoryInv
<1>2. /\ UNCHANGED <<jobs, nextId, ready, hands, pipeline, current, cursor>>
      /\ workerUp /\ ~workerUp' /\ server' = "stopped"
      /\ server \in {"serving", "stopping"}
      /\ current = None /\ queue # <<>> /\ Head(queue) = None
      /\ queue' = Tail(queue)
  BY DEF WorkerStops, WorkerTurn, table
<1>3. /\ Len(queue) \in Nat \ {0}
      /\ DOMAIN queue = 1 .. Len(queue)
      /\ DOMAIN queue' = 1 .. (Len(queue) - 1)
      /\ Len(queue') = Len(queue) - 1
      /\ Head(queue) = queue[1]
      /\ queue' \in Seq(Job \cup {None})
  BY <1>1, <1>2, QueueTail DEF TypeOK
<1>4. server = "stopping" /\ Len(queue) = 1
  BY <1>2, <1>3 DEF MemoryInv, PhaseInv
<1>5. queue' = <<>>
  BY <1>3, <1>4, EmptySeq
<1>6. ready = <<>> /\ pipeline = <<>> /\ \A t \in Threads : hands[t] = None
  BY <1>4 DEF MemoryInv, PhaseInv
<1>7. \A i : ~Held(i) /\ ~Held(i)'
  <2>1. \A k \in DOMAIN queue : queue[k] = None
    BY <1>2, <1>3, <1>4
  <2> QED BY <1>2, <1>5, <1>6, <2>1 DEF Held, InQueue, InReady, InHands, InWorker
<1>8. \A i \in JobIds : ~Unfinished(i)'
  BY <1>2, <1>4, <1>7 DEF MemoryInv, NothingForgotten, Unfinished
<1>9. PhaseInv' /\ RequeueInv'
  BY <1>2, <1>4, <1>5, <1>6 DEF MemoryInv, PhaseInv, RequeueInv
<1>10. FreshInv' /\ HeldInv' /\ NothingForgotten'
  BY <1>2, <1>7 DEF MemoryInv, FreshInv, HeldInv, NothingForgotten
<1>11. HeldOnce' /\ OrderInv'
  BY <1>2, <1>5, <1>6, <1>7 DEF MemoryInv, HeldOnce, OrderInv, Held
<1>12. HeldJobs' = {}
  BY <1>2, <1>5, <1>6 DEF HeldJobs
<1> QED BY <1>1, <1>8, <1>9, <1>10, <1>11, <1>12 DEF MemoryInv, RowIdentity, CleanStopDrains

\* A dead worker has dropped at most the job it was on.
LEMMA WorkerDies_MemoryInv == ASSUME MemoryInv, WorkerDies PROVE MemoryInv'
<1>1. TypeOK /\ TypeOK'
  BY TypeOK_Worker DEF MemoryInv
<1>2. /\ UNCHANGED <<jobs, nextId, ready, hands, pipeline, server, cursor>>
      /\ workerUp /\ ~workerUp' /\ current' = None
      /\ server \in {"serving", "stopping"}
      /\ \/ queue' = queue
         \/ queue # <<>> /\ Head(queue) # None /\ queue' = Tail(queue)
  BY DEF WorkerDies, WorkerTurn, table
<1>3. \E d \in {0, 1} : \A k \in DOMAIN queue' :
         k \in Nat /\ k + d \in DOMAIN queue /\ queue'[k] = queue[k + d]
  <2>1. CASE queue' = queue
    <3>1. \A k \in DOMAIN queue' :
             k \in Nat /\ k + 0 \in DOMAIN queue /\ queue'[k] = queue[k + 0]
      BY <1>1, <2>1 DEF TypeOK
    <3> QED BY <3>1
  <2>2. CASE queue # <<>> /\ queue' = Tail(queue)
    <3>1. \A k \in DOMAIN queue' : queue'[k] = queue[k + 1] /\ k + 1 \in DOMAIN queue
      BY <1>1, <2>2, QueueTail
    <3>2. \A k \in DOMAIN queue' : k \in Nat
      BY <1>1 DEF TypeOK
    <3> QED BY <3>1, <3>2
  <2> QED BY <1>2, <2>1, <2>2
<1>d. PICK d \in {0, 1} : \A k \in DOMAIN queue' :
         k \in Nat /\ k + d \in DOMAIN queue /\ queue'[k] = queue[k + d]
  BY <1>3
<1>s. \A k \in DOMAIN queue' : queue'[k] = None => k = Len(queue')
  <2>1. CASE queue' = queue
    BY <2>1 DEF MemoryInv, PhaseInv
  <2>2. CASE queue # <<>> /\ queue' = Tail(queue)
    <3>1. /\ Len(queue) \in Nat \ {0}
          /\ Len(queue') = Len(queue) - 1
          /\ DOMAIN queue' = 1 .. (Len(queue) - 1)
          /\ \A k \in DOMAIN queue' : queue'[k] = queue[k + 1] /\ k + 1 \in DOMAIN queue
      BY <1>1, <2>2, QueueTail
    <3>2. \A k \in DOMAIN queue' : queue'[k] = None => k = Len(queue')
      BY <3>1 DEF MemoryInv, PhaseInv
    <3> QED BY <3>1, <3>2
  <2> QED BY <1>2, <2>1, <2>2
<1>4. \A i : /\ InQueue(i)' => InQueue(i)
             /\ InReady(i)' <=> InReady(i)
             /\ InHands(i)' <=> InHands(i)
             /\ ~InWorker(i)'
  BY <1>2, <1>d DEF InQueue, InReady, InHands, InWorker
<1>5. \A i : Held(i)' => Held(i)
  BY <1>4 DEF Held
<1>6. PhaseInv'
  <2>1. \A k \in DOMAIN queue' : queue'[k] = None => server = "stopping"
    BY <1>d DEF MemoryInv, PhaseInv
  <2> QED BY <1>2, <1>s, <2>1 DEF MemoryInv, PhaseInv
<1>7. RequeueInv' /\ NothingForgotten'
  BY <1>2 DEF RequeueInv, NothingForgotten
<1>8. FreshInv' /\ HeldInv'
  BY <1>2, <1>5 DEF MemoryInv, FreshInv, HeldInv, Finished
<1>9. RowIdentity'
  <2>1. \A j \in HeldJobs' : j \in HeldJobs
    BY <1>2, <1>d, HeldJobsPlaces DEF HeldJobs
  <2> QED BY <1>2, <2>1 DEF MemoryInv, RowIdentity
<1>10. HeldOnce'
  <2>1. ASSUME NEW k \in DOMAIN queue', NEW l \in DOMAIN queue',
               queue'[k] # None, queue'[l] # None, queue'[k].id = queue'[l].id
        PROVE  k = l
    <3>1. /\ k \in Nat /\ k + d \in DOMAIN queue /\ queue'[k] = queue[k + d]
          /\ l \in Nat /\ l + d \in DOMAIN queue /\ queue'[l] = queue[l + d]
      BY <1>d
    <3>2. k + d = l + d
      BY <2>1, <3>1 DEF MemoryInv, HeldOnce
    <3> QED BY <3>1, <3>2
  <2> QED BY <1>2, <1>4, <2>1 DEF MemoryInv, HeldOnce
<1>11. OrderInv'
  <2>1. ASSUME NEW k \in DOMAIN queue', NEW l \in DOMAIN queue',
               queue'[k] # None, queue'[l] # None, k < l,
               queue'[l].type \in PipelineTypes
        PROVE  queue'[k].id < queue'[l].id
    <3>1. /\ k \in Nat /\ k + d \in DOMAIN queue /\ queue'[k] = queue[k + d]
          /\ l \in Nat /\ l + d \in DOMAIN queue /\ queue'[l] = queue[l + d]
      BY <1>d
    <3>2. k + d < l + d
      BY <2>1, <3>1
    <3> QED BY <2>1, <3>1, <3>2 DEF MemoryInv, OrderInv
  <2> QED BY <1>2, <2>1 DEF MemoryInv, OrderInv
<1> QED BY <1>1, <1>2, <1>6, <1>7, <1>8, <1>9, <1>10, <1>11 DEF MemoryInv, CleanStopDrains

LEMMA MemoryInv_Next == MemoryInv /\ [Next]_vars => MemoryInv'
<1> SUFFICES ASSUME MemoryInv, [Next]_vars PROVE MemoryInv'
  OBVIOUS
<1>1. CASE UNCHANGED vars
  BY <1>1 DEF vars, MemoryInv, TypeOK, PhaseInv, RequeueInv, FreshInv, RowIdentity, HeldJobs,
     HeldOnce, HeldInv, NothingForgotten, OrderInv, CleanStopDrains, Held, InQueue, InReady,
     InHands, InWorker, Unfinished, Finished
<1>2. CASE Next
  BY <1>2, Start_MemoryInv, RequeueNext_MemoryInv, Serve_MemoryInv, BeginShutdown_MemoryInv, ShutdownFails_MemoryInv,
     Crash_MemoryInv, Upload_MemoryInv, PipelineEnqueue_MemoryInv, PipelineAborts_MemoryInv, EnqueueCommit_MemoryInv,
     EnqueuePut_MemoryInv, Deliver_MemoryInv, DeleteMeme_MemoryInv, WorkerTake_MemoryInv, HandlerSucceeds_MemoryInv,
     HandlerRetries_MemoryInv, HandlerGivesUp_MemoryInv, WorkerStops_MemoryInv, WorkerDies_MemoryInv
     DEF Next
<1> QED BY <1>1, <1>2

LEMMA MemoryIsKept == Spec => []MemoryInv
BY MemoryInv_Init, MemoryInv_Next, PTL DEF Spec

-----------------------------------------------------------------------------
(* The properties *)

(* No unfinished row of a live server is out of memory: neither requests,   *)
(* restarts nor the shutdown lose a committed job.                          *)
THEOREM JobsAreNotForgotten == Spec => []NothingForgotten
<1>1. MemoryInv => NothingForgotten
  BY DEF MemoryInv
<1> QED BY <1>1, MemoryIsKept, PTL

(* No row is in memory twice, so none is run twice at once or after it was  *)
(* settled.                                                                 *)
THEOREM JobsAreHeldOnce == Spec => []HeldOnce
<1>1. MemoryInv => HeldOnce
  BY DEF MemoryInv
<1> QED BY <1>1, MemoryIsKept, PTL

(* A job never writes to a row other than its own.                          *)
THEOREM JobsOwnTheirRows == Spec => []RowIdentity
<1>1. MemoryInv => RowIdentity
  BY DEF MemoryInv
<1> QED BY <1>1, MemoryIsKept, PTL

(* A clean shutdown drains the table: no job is left PENDING for the next  *)
(* start, contrary to the docstring of shutdown in jobs.py.                 *)
THEOREM CleanStopsDrain == Spec => []CleanStopDrains
<1>1. MemoryInv => CleanStopDrains
  BY DEF MemoryInv
<1> QED BY <1>1, MemoryIsKept, PTL

LEMMA OrderFromInvariant == MemoryInv => PipelineOrder
<1> SUFFICES ASSUME MemoryInv, current # None, current.type \in PipelineTypes,
                    NEW i \in JobIds, i < current.id,
                    jobs[i] # None, jobs[i].type \in PipelineTypes
             PROVE  Finished(i)
  BY DEF PipelineOrder, EarlierStepsSettled, Finished
<1>1. TypeOK
  BY DEF MemoryInv
<1>2. SUFFICES ASSUME Unfinished(i) PROVE FALSE
  BY <1>1 DEF TypeOK, Row, Statuses, Unfinished, Finished, UnfinishedIn, FinishedIn
<1>3. server \in {"serving", "stopping"} /\ workerUp
  BY <1>1 DEF MemoryInv, PhaseInv, TypeOK
<1>4. Held(i)
  BY <1>2, <1>3 DEF MemoryInv, NothingForgotten
<1>5. "RE_EMBED" \notin PipelineTypes
  BY DEF PipelineTypes
<1>6. \A job \in HeldJobs : job.id = i => job.type \in PipelineTypes
  BY DEF MemoryInv, RowIdentity
<1>7. ~InReady(i) /\ ~InHands(i)
  <2>1. \A k \in DOMAIN ready : ready[k] \in HeldJobs
    BY <1>1, NoneAssumption, HeldJobsPlaces DEF TypeOK
  <2>2. \A t \in Threads : hands[t] # None => hands[t] \in HeldJobs
    BY HeldJobsPlaces
  <2> QED BY <1>5, <1>6, <2>1, <2>2 DEF MemoryInv, OrderInv, InReady, InHands
<1>8. current.id \in Nat /\ i \in Nat
  BY <1>1 DEF TypeOK, Job, JobIds
<1>9. ~InWorker(i)
  BY <1>8 DEF InWorker
<1>10. PICK k \in DOMAIN queue : queue[k] # None /\ queue[k].id = i
  BY <1>4, <1>7, <1>9 DEF Held, InQueue
<1>11. queue[k] \in HeldJobs
  BY <1>10, HeldJobsPlaces
<1>12. current.id < i
  BY <1>6, <1>10, <1>11 DEF MemoryInv, OrderInv
<1> QED BY <1>8, <1>12

(* Pipeline jobs run in the order they were committed: whenever one runs,   *)
(* every pipeline row before it is settled.                                 *)
THEOREM PipelineRunsInOrder == Spec => []PipelineOrder
BY OrderFromInvariant, MemoryIsKept, PTL

-----------------------------------------------------------------------------
(* The refinement: one lemma for the steps that write rows the worker owns, *)
(* the other steps map by their definitions.                                *)

\* The vocabulary of JobTypes is the same seen through the instance.
LEMMA SameVocabulary ==
    /\ Table!JobIds = JobIds /\ Table!PipelineTypes = PipelineTypes /\ Table!JobTypes = JobTypes
    /\ \A row, status, bump : Table!WithStatus(row, status, bump) = WithStatus(row, status, bump)
    /\ \A t, i : Table!UnfinishedIn(t, i) <=> UnfinishedIn(t, i)
    /\ \A t, i : Table!EarlierStepsSettled(t, i) <=> EarlierStepsSettled(t, i)
BY DEF Table!JobIds, JobIds, Table!PipelineTypes, PipelineTypes, Table!JobTypes, JobTypes,
       Table!WithStatus, WithStatus, Table!UnfinishedIn, UnfinishedIn,
       Table!EarlierStepsSettled, EarlierStepsSettled, Table!FinishedIn, FinishedIn

LEMMA UpdateMapsToWithStatus ==
    ASSUME TypeOK, NEW c \in JobIds, NEW status \in Statuses, NEW bump \in Nat,
           UpdateJob(c, status, bump)
    PROVE  \/ jobs[c] = None /\ jobs' = jobs
           \/ jobs[c] # None /\ jobs' = [jobs EXCEPT ![c] = WithStatus(jobs[c], status, bump)]
BY DEF UpdateJob

LEMMA HeldRowIsUnfinished ==
    ASSUME MemoryInv, NEW i \in JobIds, Held(i), jobs[i] # None
    PROVE  Unfinished(i)
BY DEF MemoryInv, TypeOK, HeldInv, Row, Statuses, Unfinished, Finished, UnfinishedIn, FinishedIn

LEMMA WorkerTakeMaps == ASSUME MemoryInv, WorkerTake PROVE [Table!Next]_(Table!tableVars)
<1>1. TypeOK /\ MemoryInv'
  BY WorkerTake_MemoryInv DEF MemoryInv
<1>a. PICK job : job = Head(queue)
  OBVIOUS
<1>2. /\ queue # <<>> /\ job # None /\ current' = job
      /\ UpdateJob(job.id, "RUNNING", 1)
      /\ memes' = memes /\ nextId' = nextId
  BY <1>a DEF WorkerTake
<1>3. job = queue[1] /\ 1 \in DOMAIN queue
  BY <1>1, <1>2, <1>a, TailElements DEF TypeOK
<1>4. job \in Job /\ job.id \in JobIds /\ Held(job.id)
  BY <1>1, <1>2, <1>3 DEF TypeOK, Job, Held, InQueue
<1>5. CASE jobs[job.id] = None
  BY <1>1, <1>2, <1>4, <1>5, UpdateMapsToWithStatus DEF Statuses, Table!tableVars
<1>6. CASE jobs[job.id] # None
  <2>1. jobs' = [jobs EXCEPT ![job.id] = WithStatus(jobs[job.id], "RUNNING", 1)]
    BY <1>1, <1>2, <1>4, <1>6, UpdateMapsToWithStatus DEF Statuses
  <2>2. UnfinishedIn(jobs, job.id)
    BY <1>4, <1>6, HeldRowIsUnfinished DEF Unfinished
  <2>3. job \in HeldJobs
    BY <1>2, <1>3, HeldJobsPlaces
  <2>4. ASSUME jobs[job.id].type \in PipelineTypes
        PROVE  EarlierStepsSettled(jobs, job.id)
    <3>1. job.type \in PipelineTypes
      BY <1>6, <2>3, <2>4 DEF MemoryInv, RowIdentity
    <3>2. PipelineOrder'
      BY <1>1, OrderFromInvariant, PTL
    <3>3. EarlierStepsSettled(jobs', job.id)
      BY <1>2, <3>1, <3>2 DEF PipelineOrder
    <3>4. \A j \in JobIds : j < job.id => jobs'[j] = jobs[j]
      BY <1>1, <1>4, <2>1 DEF TypeOK, JobIds
    <3> QED BY <3>3, <3>4 DEF EarlierStepsSettled, FinishedIn
  <2> QED BY <1>2, <1>4, <2>1, <2>2, <2>4, SameVocabulary DEF Table!Next, Table!Begin
<1> QED BY <1>5, <1>6

LEMMA RetryMaps == ASSUME MemoryInv, HandlerRetries PROVE [Table!Next]_(Table!tableVars)
<1>1. TypeOK /\ PipelineOrder
  BY OrderFromInvariant DEF MemoryInv
<1>2. /\ current # None /\ UpdateJob(current.id, "RUNNING", 1)
      /\ memes' = memes /\ nextId' = nextId
  BY DEF HandlerRetries
<1>3. current.id \in JobIds /\ Held(current.id) /\ current \in HeldJobs
  BY <1>1, <1>2, HeldJobsPlaces DEF TypeOK, Job, Held, InWorker
<1>4. CASE jobs[current.id] = None
  BY <1>1, <1>2, <1>3, <1>4, UpdateMapsToWithStatus DEF Statuses, Table!tableVars
<1>5. CASE jobs[current.id] # None
  <2>1. jobs' = [jobs EXCEPT ![current.id] = WithStatus(jobs[current.id], "RUNNING", 1)]
    BY <1>1, <1>2, <1>3, <1>5, UpdateMapsToWithStatus DEF Statuses
  <2>2. UnfinishedIn(jobs, current.id)
    BY <1>3, <1>5, HeldRowIsUnfinished DEF Unfinished
  <2>3. jobs[current.id].type \in PipelineTypes => EarlierStepsSettled(jobs, current.id)
    BY <1>1, <1>2, <1>3, <1>5 DEF MemoryInv, RowIdentity, PipelineOrder
  <2> QED BY <1>2, <1>3, <2>1, <2>2, <2>3, SameVocabulary DEF Table!Next, Table!Begin
<1> QED BY <1>4, <1>5

LEMMA SettleMaps ==
    ASSUME MemoryInv, HandlerSucceeds \/ HandlerGivesUp
    PROVE  [Table!Next]_(Table!tableVars)
<1>1. TypeOK
  BY DEF MemoryInv
<1>2. PICK outcome \in {"DONE", "ERROR"} :
        /\ current # None /\ UpdateJob(current.id, outcome, 0)
        /\ memes' = memes /\ nextId' = nextId
  BY DEF HandlerSucceeds, HandlerGivesUp
<1>3. current.id \in JobIds
  BY <1>1, <1>2 DEF TypeOK, Job
<1>4. CASE jobs[current.id] = None
  BY <1>1, <1>2, <1>3, <1>4, UpdateMapsToWithStatus DEF Statuses, Table!tableVars
<1>5. CASE jobs[current.id] # None
  <2>1. jobs' = [jobs EXCEPT ![current.id] = WithStatus(jobs[current.id], outcome, 0)]
    BY <1>1, <1>2, <1>3, <1>5, UpdateMapsToWithStatus DEF Statuses
  <2>2. jobs[current.id].status = "RUNNING"
    BY <1>2, <1>5 DEF MemoryInv, HeldInv
  <2> QED BY <1>2, <1>3, <1>5, <2>1, <2>2, SameVocabulary DEF Table!Next, Table!Settle
<1> QED BY <1>4, <1>5

LEMMA SubmitMaps ==
    ASSUME TypeOK, NEW m \in Memes, NEW type \in JobTypes, m \in memes,
           CreateJob(m, type), memes' = memes
    PROVE  [Table!Next]_(Table!tableVars)
BY SameVocabulary DEF CreateJob, Table!Next, Table!Submit

LEMMA StepMaps == MemoryInv /\ [Next]_vars => [Table!Next]_(Table!tableVars)
<1> SUFFICES ASSUME MemoryInv, [Next]_vars PROVE [Table!Next]_(Table!tableVars)
  OBVIOUS
<1>0. TypeOK
  BY DEF MemoryInv
<1>1. CASE UNCHANGED vars
  BY <1>1 DEF vars, Table!tableVars
<1>2. CASE \/ Start \/ RequeueNext \/ Serve \/ BeginShutdown \/ ShutdownFails \/ Crash
           \/ PipelineAborts \/ Deliver \/ WorkerStops \/ WorkerDies
           \/ \E t \in Threads : EnqueuePut(t)
  BY <1>2 DEF Start, RequeueNext, Serve, BeginShutdown, ShutdownFails, Crash, PipelineAborts,
     Deliver, WorkerStops, WorkerDies, EnqueuePut, table, Table!tableVars
<1>3. ASSUME NEW m \in Memes, NEW withFace \in BOOLEAN, Upload(m, withFace)
      PROVE  [Table!Next]_(Table!tableVars)
  BY <1>3, SameVocabulary DEF Upload, Table!Next, Table!AddMeme
<1>4. CASE PipelineEnqueue
  <2>1. Head(pipeline) \in Step
    BY <1>0, <1>4, TailElements DEF TypeOK, PipelineEnqueue
  <2>2. Head(pipeline).meme \in Memes /\ Head(pipeline).type \in JobTypes
    BY <2>1 DEF Step, JobTypes
  <2> QED BY <1>0, <1>4, <2>2, SubmitMaps DEF PipelineEnqueue
<1>5. ASSUME NEW t \in Threads, NEW m \in Memes, EnqueueCommit(t, m)
      PROVE  [Table!Next]_(Table!tableVars)
  BY <1>0, <1>5, SubmitMaps DEF EnqueueCommit, JobTypes
<1>6. ASSUME NEW m \in Memes, DeleteMeme(m)
      PROVE  [Table!Next]_(Table!tableVars)
  BY <1>6, SameVocabulary DEF DeleteMeme, Table!Next, Table!Remove
<1>7. CASE WorkerTake \/ HandlerRetries \/ HandlerSucceeds \/ HandlerGivesUp
  BY <1>7, WorkerTakeMaps, RetryMaps, SettleMaps
<1> QED BY <1>1, <1>2, <1>3, <1>4, <1>5, <1>6, <1>7 DEF Next

(* The queue, its threads and its restarts implement the table's promise.   *)
THEOREM TablePromiseIsKept == Spec => KeepsTablePromise
<1>1. Init => Table!Init
  BY SameVocabulary DEF Init, Table!Init
<1> QED BY <1>1, StepMaps, MemoryIsKept, PTL DEF Spec, KeepsTablePromise, Table!Spec

LEMMA SettledRowsStay ==
    ASSUME TypeOK, [Table!Next]_(Table!tableVars), NEW i \in JobIds, Finished(i), FreshInv
    PROVE  jobs'[i] \in {jobs[i], None}
<1>1. ASSUME NEW m \in Memes, NEW type \in JobTypes, Table!Submit(m, type)
      PROVE  jobs'[i] = jobs[i]
  <2>1. jobs[nextId] = None /\ nextId \in JobIds
    BY <1>1, SameVocabulary DEF TypeOK, FreshInv, Table!Submit, JobIds
  <2>2. i # nextId
    BY <2>1 DEF Finished, FinishedIn
  <2> QED BY <1>1, <2>2 DEF TypeOK, Table!Submit
<1>2. ASSUME NEW j \in JobIds, Table!Begin(j)
      PROVE  jobs'[i] = jobs[i]
  BY <1>2, SameVocabulary DEF TypeOK, Table!Begin, Finished, FinishedIn, UnfinishedIn
<1>3. ASSUME NEW j \in JobIds, NEW outcome \in {"DONE", "ERROR"}, Table!Settle(j, outcome)
      PROVE  jobs'[i] = jobs[i]
  BY <1>3, SameVocabulary DEF TypeOK, Table!Settle, Finished, FinishedIn
<1>4. ASSUME NEW m \in Memes, Table!AddMeme(m) \/ Table!Remove(m)
      PROVE  jobs'[i] \in {jobs[i], None}
  BY <1>4, SameVocabulary DEF Table!AddMeme, Table!Remove
<1> QED BY <1>1, <1>2, <1>3, <1>4, SameVocabulary DEF Table!Next, Table!tableVars

(* Nothing moves a settled row out of DONE or ERROR but its deletion.       *)
THEOREM SettledForever == Spec => FinishedForever
<1>1. MemoryInv /\ [Next]_vars =>
        [\A i \in JobIds : Finished(i) => jobs'[i] \in {jobs[i], None}]_vars
  BY StepMaps, SettledRowsStay DEF MemoryInv
<1> QED BY <1>1, MemoryIsKept, PTL DEF Spec, FinishedForever

-----------------------------------------------------------------------------
(* Rows, memes and what is left in memory of deleted rows *)

LEMMA RowsInv_Init == Init => RowsHaveMemes /\ LeftoverInv /\ PipelineInv
<1> SUFFICES ASSUME Init PROVE RowsHaveMemes /\ LeftoverInv /\ PipelineInv
  OBVIOUS
<1>1. HeldJobs = {}
  BY HeldJobsPlaces DEF Init
<1>2. PipelineInv
  BY DEF Init, PipelineInv
<1> QED BY <1>1, <1>2 DEF Init, RowsHaveMemes, LeftoverInv

\* Where no job comes into memory.
LEMMA QueuePutsNothing ==
    ASSUME MemoryInv, UNCHANGED <<ready, hands, current>>,
           \/ queue' = queue
           \/ queue' = Append(queue, None)
           \/ queue # <<>> /\ queue' = Tail(queue)
    PROVE  HeldJobs' \subseteq HeldJobs
<1>1. TypeOK
  BY DEF MemoryInv
<1>2. \A k \in DOMAIN queue' : queue'[k] # None => \E l \in DOMAIN queue : queue[l] = queue'[k]
  <2>1. CASE queue' = queue
    BY <2>1
  <2>2. CASE queue' = Append(queue, None)
    BY <1>1, <2>2, QueueAppend
  <2>3. CASE queue # <<>> /\ queue' = Tail(queue)
    BY <1>1, <2>3, QueueTail
  <2> QED BY <2>1, <2>2, <2>3
<1> QED BY <1>2, HeldJobsPlaces DEF HeldJobs

LEMMA MemoryLost == ASSUME LoseMemory PROVE HeldJobs' = {}
BY DEF LoseMemory, HeldJobs

LEMMA PutKeepsJobs ==
    ASSUME MemoryInv, NEW t \in Threads, EnqueuePut(t)
    PROVE  HeldJobs' \subseteq HeldJobs
<1>1. /\ UNCHANGED <<queue, current>>
      /\ ready \in Seq(Job) /\ hands[t] \in Job
      /\ ready' = Append(ready, hands[t])
      /\ hands \in [Threads -> Job \cup {None}]
      /\ hands' = [hands EXCEPT ![t] = None]
  BY DEF MemoryInv, TypeOK, EnqueuePut, worker
<1>2. \A k \in DOMAIN ready' : ready'[k] = hands[t] \/ \E l \in DOMAIN ready : ready[l] = ready'[k]
  <2>1. /\ DOMAIN ready' = 1 .. (Len(ready) + 1) /\ DOMAIN ready = 1 .. Len(ready)
        /\ \A k \in DOMAIN ready : ready'[k] = ready[k]
        /\ ready'[Len(ready) + 1] = hands[t] /\ Len(ready) \in Nat
    BY <1>1, AppendElements
  <2> QED BY <2>1
<1> QED BY <1>1, <1>2 DEF HeldJobs

LEMMA DeliverKeepsJobs ==
    ASSUME MemoryInv, Deliver
    PROVE  HeldJobs' \subseteq HeldJobs
<1>1. /\ UNCHANGED <<hands, current>>
      /\ ready \in Seq(Job) /\ ready # <<>> /\ queue \in Seq(Job \cup {None})
      /\ queue' = Append(queue, Head(ready)) /\ ready' = Tail(ready)
  BY DEF MemoryInv, TypeOK, Deliver, worker
<1>2. /\ Head(ready) = ready[1] /\ 1 \in DOMAIN ready /\ Head(ready) \in Job
      /\ \A k \in DOMAIN ready' : ready'[k] = ready[k + 1] /\ k + 1 \in DOMAIN ready
  BY <1>1, TailElements
<1>3. /\ DOMAIN queue' = 1 .. (Len(queue) + 1) /\ DOMAIN queue = 1 .. Len(queue)
      /\ \A k \in DOMAIN queue : queue'[k] = queue[k]
      /\ queue'[Len(queue) + 1] = Head(ready) /\ Len(queue) \in Nat
  BY <1>1, <1>2, AppendElements
<1>4. \A k \in DOMAIN queue' : queue'[k] = ready[1] \/ \E l \in DOMAIN queue : queue[l] = queue'[k]
  BY <1>2, <1>3
<1>5. \A job \in HeldJobs' : job \in HeldJobs
  BY <1>1, <1>2, <1>4 DEF HeldJobs
<1> QED BY <1>5

LEMMA WorkerKeepsJobs ==
    ASSUME MemoryInv, WorkerTake \/ HandlerSucceeds \/ HandlerRetries \/ HandlerGivesUp
    PROVE  HeldJobs' \subseteq HeldJobs
<1>1. CASE WorkerTake
  <2>1. /\ UNCHANGED <<ready, hands>> /\ queue # <<>> /\ current' = Head(queue)
        /\ queue' = Tail(queue)
    BY <1>1 DEF WorkerTake
  <2>2. /\ 1 \in DOMAIN queue /\ Head(queue) = queue[1]
        /\ \A k \in DOMAIN queue' : queue'[k] = queue[k + 1] /\ k + 1 \in DOMAIN queue
    BY <2>1, TailElements DEF MemoryInv, TypeOK
  <2> QED BY <2>1, <2>2 DEF HeldJobs
<1>2. CASE HandlerSucceeds \/ HandlerRetries \/ HandlerGivesUp
  <2>1. UNCHANGED <<queue, ready, hands>> /\ current' \in {current, None}
    BY <1>2 DEF HandlerSucceeds, HandlerRetries, HandlerGivesUp, inbox
  <2> QED BY <2>1 DEF HeldJobs
<1> QED BY <1>1, <1>2

\* What the worker writes of a row is its status.
LEMMA WorkerWrites ==
    ASSUME MemoryInv, WorkerTake \/ HandlerSucceeds \/ HandlerRetries \/ HandlerGivesUp
    PROVE  /\ UNCHANGED <<memes, nextId, pipeline>>
           /\ \A i \in JobIds :
                /\ jobs'[i] = None <=> jobs[i] = None
                /\ jobs[i] # None => jobs'[i].meme = jobs[i].meme /\ jobs'[i].type = jobs[i].type
<1>1. TypeOK
  BY DEF MemoryInv
<1>2. \E c \in JobIds, status \in Statuses, bump \in Nat : UpdateJob(c, status, bump)
  <2>1. CASE WorkerTake
    <3>1. Head(queue) \in Job \cup {None}
      BY <1>1, <2>1, TailElements DEF TypeOK, WorkerTake
    <3>2. Head(queue).id \in JobIds
      BY <2>1, <3>1 DEF WorkerTake, Job
    <3> QED BY <2>1, <3>2 DEF WorkerTake, Statuses
  <2>2. CASE HandlerSucceeds \/ HandlerRetries \/ HandlerGivesUp
    <3>1. current.id \in JobIds
      BY <1>1, <2>2 DEF TypeOK, Job, HandlerSucceeds, HandlerRetries, HandlerGivesUp
    <3> QED BY <2>2, <3>1 DEF HandlerSucceeds, HandlerRetries, HandlerGivesUp, Statuses
  <2> QED BY <2>1, <2>2
<1>3. UNCHANGED <<memes, nextId, pipeline>>
  BY DEF WorkerTake, HandlerSucceeds, HandlerRetries, HandlerGivesUp, inbox
<1> QED BY <1>1, <1>2, <1>3, UpdateJobEffect

\* What enqueue adds, on the loop or in a thread: a row, and its job in memory.
LEMMA Created ==
    ASSUME MemoryInv, RowsHaveMemes, PipelineInv,
           PipelineEnqueue \/ \E t \in Threads, m \in Memes : EnqueueCommit(t, m)
    PROVE  /\ UNCHANGED memes
           /\ nextId \in JobIds /\ jobs[nextId] = None /\ ~Held(nextId)
           /\ jobs'[nextId] # None /\ jobs'[nextId].meme \in memes
           /\ \A i \in JobIds : i # nextId => jobs'[i] = jobs[i]
           /\ \A job \in HeldJobs' : job \in HeldJobs \/ job.id = nextId
<1>1. CASE PipelineEnqueue
  <2>1. /\ Head(pipeline) \in Step
        /\ UNCHANGED <<memes, ready, hands, current>>
        /\ Head(pipeline).meme \in memes
        /\ CreateJob(Head(pipeline).meme, Head(pipeline).type)
        /\ queue' = Append(queue, [id |-> nextId, meme |-> Head(pipeline).meme,
                                   type |-> Head(pipeline).type])
    BY <1>1, TailElements DEF PipelineEnqueue, MemoryInv, TypeOK, worker
  <2>2. Head(pipeline).meme \in Memes /\ Head(pipeline).type \in JobTypes
    BY <2>1 DEF Step, JobTypes
  <2>3. /\ nextId \in JobIds /\ jobs[nextId] = None /\ ~Held(nextId)
        /\ jobs'[nextId] # None /\ jobs'[nextId].meme = Head(pipeline).meme
        /\ \A i \in JobIds : i # nextId => jobs'[i] = jobs[i]
    BY <2>1, <2>2, CreateJobEffect
  <2> DEFINE new == [id |-> nextId, meme |-> Head(pipeline).meme, type |-> Head(pipeline).type]
  <2>4. new \in Job
    BY <2>2, <2>3 DEF Job
  <2>5. \A k \in DOMAIN queue' : queue'[k] = new \/ \E l \in DOMAIN queue : queue[l] = queue'[k]
    BY <2>1, <2>4, QueueAppend DEF MemoryInv
  <2>6. \A job \in HeldJobs' : job \in HeldJobs \/ job.id = nextId
    BY <2>1, <2>5 DEF HeldJobs
  <2> QED BY <2>1, <2>3, <2>6
<1>2. ASSUME NEW t \in Threads, NEW m \in Memes, EnqueueCommit(t, m)
      PROVE  /\ UNCHANGED memes
             /\ nextId \in JobIds /\ jobs[nextId] = None /\ ~Held(nextId)
             /\ jobs'[nextId] # None /\ jobs'[nextId].meme \in memes
             /\ \A i \in JobIds : i # nextId => jobs'[i] = jobs[i]
             /\ \A job \in HeldJobs' : job \in HeldJobs \/ job.id = nextId
  <2>1. /\ UNCHANGED <<memes, queue, ready, current>> /\ m \in memes
        /\ CreateJob(m, "RE_EMBED")
        /\ hands' = [hands EXCEPT ![t] = [id |-> nextId, meme |-> m, type |-> "RE_EMBED"]]
        /\ hands \in [Threads -> Job \cup {None}]
    BY <1>2 DEF EnqueueCommit, worker, MemoryInv, TypeOK
  <2>2. /\ nextId \in JobIds /\ jobs[nextId] = None /\ ~Held(nextId)
        /\ jobs'[nextId] # None /\ jobs'[nextId].meme = m
        /\ \A i \in JobIds : i # nextId => jobs'[i] = jobs[i]
    BY <2>1, CreateJobEffect DEF JobTypes
  <2>3. \A job \in HeldJobs' : job \in HeldJobs \/ job.id = nextId
    BY <2>1 DEF HeldJobs
  <2> QED BY <2>1, <2>2, <2>3
<1> QED BY <1>1, <1>2

\* Ids in memory have been given out.
LEMMA HeldIds == ASSUME MemoryInv PROVE \A job \in HeldJobs : job.id \in JobIds /\ job.id < nextId
<1>1. \A job \in HeldJobs : job.id \in JobIds /\ Held(job.id)
  BY HeldJobsType, HeldJobsPlaces DEF MemoryInv, Held, InQueue, InReady, InHands, InWorker
<1>2. nextId \in Nat
  BY DEF MemoryInv, TypeOK
<1> QED BY <1>1, <1>2 DEF MemoryInv, FreshInv, JobIds

\* Rows as they were but for their status, and no job that comes into memory
\* without its row.
LEMMA SameRows ==
    ASSUME MemoryInv, RowsHaveMemes, LeftoverInv, memes \subseteq memes',
           \A i \in JobIds : /\ jobs'[i] = None <=> jobs[i] = None
                             /\ jobs[i] # None => jobs'[i].meme = jobs[i].meme,
           \A job \in HeldJobs' : job \in HeldJobs \/ jobs'[job.id] # None
    PROVE  RowsHaveMemes' /\ LeftoverInv'
<1>1. RowsHaveMemes'
  BY DEF RowsHaveMemes
<1>2. \A job \in HeldJobs : job.id \in JobIds
  BY HeldIds
<1>3. LeftoverInv'
  BY <1>2 DEF LeftoverInv
<1> QED BY <1>1, <1>3

LEMMA CreatedRow ==
    ASSUME MemoryInv, RowsHaveMemes, LeftoverInv, PipelineInv,
           PipelineEnqueue \/ \E t \in Threads, m \in Memes : EnqueueCommit(t, m)
    PROVE  RowsHaveMemes' /\ LeftoverInv'
<1>1. RowsHaveMemes'
  BY Created DEF RowsHaveMemes
<1>2. SUFFICES ASSUME NEW job \in HeldJobs', jobs'[job.id] = None, NEW i \in JobIds,
                      jobs'[i] # None, jobs'[i].meme = job.meme
               PROVE  job.id < i
  BY <1>1 DEF LeftoverInv
<1>3. job \in HeldJobs /\ job.id \in JobIds /\ job.id < nextId
  BY <1>2, Created, HeldIds
<1>4. CASE i = nextId
  BY <1>3, <1>4
<1>5. CASE i # nextId
  BY <1>2, <1>3, <1>5, Created DEF LeftoverInv
<1> QED BY <1>4, <1>5

LEMMA DeletedRows ==
    ASSUME MemoryInv, RowsHaveMemes, LeftoverInv, NEW m \in Memes, DeleteMeme(m)
    PROVE  RowsHaveMemes' /\ LeftoverInv'
<1>1. /\ memes' = memes \ {m} /\ HeldJobs' = HeldJobs
      /\ \A i \in JobIds : jobs'[i] = IF jobs[i] # None /\ jobs[i].meme = m THEN None ELSE jobs[i]
  BY DEF DeleteMeme, HeldJobs, inbox, worker
<1>2. RowsHaveMemes'
  BY <1>1 DEF RowsHaveMemes
<1>3. \A job \in HeldJobs : job.id \in JobIds
  BY HeldIds
<1>4. LeftoverInv'
  BY <1>1, <1>3 DEF LeftoverInv, MemoryInv, RowIdentity
<1> QED BY <1>2, <1>4

LEMMA PipelineKept ==
    ASSUME MemoryInv, PipelineInv, PipelineEnqueue
    PROVE  PipelineInv'
<1>1. pipeline \in Seq(Step) /\ pipeline # <<>> /\ pipeline' = Tail(pipeline)
  BY DEF MemoryInv, TypeOK, PipelineEnqueue
<1>2. /\ Len(pipeline') = Len(pipeline) - 1 /\ Len(pipeline) \in Nat
      /\ DOMAIN pipeline' = 1 .. (Len(pipeline) - 1)
      /\ \A k \in DOMAIN pipeline' : pipeline'[k] = pipeline[k + 1] /\ k + 1 \in DOMAIN pipeline
  BY <1>1, TailElements
<1>3. pipeline' # <<>> => Len(pipeline') \in DOMAIN pipeline'
  <2>1. pipeline' \in Seq(Step)
    BY <1>1, TailElements
  <2> QED BY <1>2, <2>1, EmptySeq
<1> QED BY <1>1, <1>2, <1>3 DEF PipelineInv

LEMMA PipelineBegun ==
    ASSUME NEW m \in Memes, NEW withFace \in BOOLEAN, Upload(m, withFace)
    PROVE  PipelineInv'
<1>1. pipeline' = PipelineOf(m, withFace)
  BY DEF Upload
<1>2. CASE withFace
  <2>1. pipeline' = [k \in 1 .. 4 |-> [meme |-> m, type |-> <<"CAPTION", "OCR", "FACE", "EMBED">>[k]]]
    BY <1>1, <1>2 DEF PipelineOf
  <2> QED BY <2>1 DEF PipelineInv
<1>3. CASE ~withFace
  <2>1. pipeline' = [k \in 1 .. 3 |-> [meme |-> m, type |-> <<"CAPTION", "OCR", "EMBED">>[k]]]
    BY <1>1, <1>3 DEF PipelineOf
  <2> QED BY <2>1 DEF PipelineInv
<1> QED BY <1>2, <1>3

LEMMA RequeuedRow ==
    ASSUME MemoryInv, RequeueNext
    PROVE  /\ UNCHANGED <<memes, jobs, pipeline>>
           /\ \A job \in HeldJobs' : job \in HeldJobs \/ jobs'[job.id] # None
<1>1. PICK i \in JobIds :
        /\ jobs[i] # None
        /\ queue' = Append(queue, [id |-> i, meme |-> jobs[i].meme, type |-> jobs[i].type])
  BY DEF RequeueNext, Unfinished, UnfinishedIn
<1>2. UNCHANGED <<memes, jobs, pipeline, ready, hands, current>>
  BY DEF RequeueNext, table, worker
<1> DEFINE new == [id |-> i, meme |-> jobs[i].meme, type |-> jobs[i].type]
<1>3. new \in Job
  BY <1>1 DEF Job, Row, MemoryInv, TypeOK
<1>4. \A k \in DOMAIN queue' : queue'[k] = new \/ \E l \in DOMAIN queue : queue[l] = queue'[k]
  BY <1>1, <1>3, QueueAppend DEF MemoryInv
<1>5. \A job \in HeldJobs' : job \in HeldJobs \/ job.id = i
  BY <1>2, <1>4 DEF HeldJobs
<1> QED BY <1>1, <1>2, <1>5

\* Steps after which memory holds no more jobs and the table is as it was.
LEMMA QuietSteps ==
    ASSUME MemoryInv,
           \/ Start \/ Serve \/ BeginShutdown \/ ShutdownFails \/ Crash \/ PipelineAborts
           \/ \E m \in Memes, withFace \in BOOLEAN : Upload(m, withFace)
           \/ \E t \in Threads : EnqueuePut(t)
           \/ Deliver \/ WorkerStops \/ WorkerDies \/ UNCHANGED vars
    PROVE  UNCHANGED jobs /\ memes \subseteq memes' /\ HeldJobs' \subseteq HeldJobs
<1>1. CASE \/ Start \/ Serve \/ BeginShutdown \/ PipelineAborts
           \/ \E m \in Memes, withFace \in BOOLEAN : Upload(m, withFace)
           \/ WorkerStops \/ UNCHANGED vars
  <2>1. /\ UNCHANGED <<ready, hands, current>>
        /\ \/ queue' = queue
           \/ queue' = Append(queue, None)
           \/ queue # <<>> /\ queue' = Tail(queue)
    BY <1>1 DEF Start, Serve, BeginShutdown, PipelineAborts, Upload, WorkerStops, vars, inbox, worker
  <2>2. UNCHANGED jobs /\ memes \subseteq memes'
    BY <1>1 DEF Start, Serve, BeginShutdown, PipelineAborts, Upload, WorkerStops, vars, table
  <2> QED BY <2>1, <2>2, QueuePutsNothing
<1>2. CASE ShutdownFails \/ Crash
  BY <1>2, MemoryLost DEF ShutdownFails, Crash, table
<1>3. CASE \E t \in Threads : EnqueuePut(t)
  BY <1>3, PutKeepsJobs DEF EnqueuePut, table
<1>4. CASE Deliver
  BY <1>4, DeliverKeepsJobs DEF Deliver, table
<1>5. CASE WorkerDies
  <2>1. /\ UNCHANGED <<ready, hands, memes, jobs>> /\ current' = None
        /\ \/ queue' = queue
           \/ queue # <<>> /\ queue' = Tail(queue)
    BY <1>5 DEF WorkerDies, table
  <2>2. \A k \in DOMAIN queue' : \E l \in DOMAIN queue : queue[l] = queue'[k]
    BY <2>1, QueueTail DEF MemoryInv
  <2> QED BY <2>1, <2>2 DEF HeldJobs
<1> QED BY <1>1, <1>2, <1>3, <1>4, <1>5

LEMMA Rows_Next == IInv /\ [Next]_vars => RowsHaveMemes' /\ LeftoverInv'
<1> SUFFICES ASSUME IInv, [Next]_vars PROVE RowsHaveMemes' /\ LeftoverInv'
  OBVIOUS
<1>1. CASE \/ Start \/ Serve \/ BeginShutdown \/ ShutdownFails \/ Crash \/ PipelineAborts
           \/ \E m \in Memes, withFace \in BOOLEAN : Upload(m, withFace)
           \/ \E t \in Threads : EnqueuePut(t)
           \/ Deliver \/ WorkerStops \/ WorkerDies \/ UNCHANGED vars
  BY <1>1, QuietSteps, SameRows DEF IInv
<1>2. CASE RequeueNext
  BY <1>2, RequeuedRow, SameRows DEF IInv
<1>3. CASE WorkerTake \/ HandlerSucceeds \/ HandlerRetries \/ HandlerGivesUp
  BY <1>3, WorkerKeepsJobs, WorkerWrites, SameRows DEF IInv
<1>4. CASE PipelineEnqueue \/ \E t \in Threads, m \in Memes : EnqueueCommit(t, m)
  BY <1>4, CreatedRow DEF IInv
<1>5. CASE \E m \in Memes : DeleteMeme(m)
  BY <1>5, DeletedRows DEF IInv
<1> QED BY <1>1, <1>2, <1>3, <1>4, <1>5 DEF Next

\* A job that comes into memory has its row.
LEMMA NewJobsHaveRows ==
    ASSUME IInv, [Next]_vars
    PROVE  \A job \in HeldJobs' : job \in HeldJobs \/ jobs'[job.id] # None
<1>1. CASE \/ Start \/ Serve \/ BeginShutdown \/ ShutdownFails \/ Crash \/ PipelineAborts
           \/ \E m \in Memes, withFace \in BOOLEAN : Upload(m, withFace)
           \/ \E t \in Threads : EnqueuePut(t)
           \/ Deliver \/ WorkerStops \/ WorkerDies \/ UNCHANGED vars
  BY <1>1, QuietSteps DEF IInv
<1>2. CASE RequeueNext
  BY <1>2, RequeuedRow DEF IInv
<1>3. CASE WorkerTake \/ HandlerSucceeds \/ HandlerRetries \/ HandlerGivesUp
  BY <1>3, WorkerKeepsJobs DEF IInv
<1>4. CASE PipelineEnqueue \/ \E t \in Threads, m \in Memes : EnqueueCommit(t, m)
  BY <1>4, Created DEF IInv
<1>5. CASE \E m \in Memes : DeleteMeme(m)
  BY <1>5 DEF DeleteMeme, HeldJobs, inbox, worker
<1> QED BY <1>1, <1>2, <1>3, <1>4, <1>5 DEF Next

LEMMA Pipeline_Next == IInv /\ [Next]_vars => PipelineInv'
<1> SUFFICES ASSUME IInv, [Next]_vars PROVE PipelineInv'
  OBVIOUS
<1>1. CASE pipeline' = pipeline
  BY <1>1 DEF IInv, PipelineInv
<1>2. CASE pipeline' = <<>>
  BY <1>2 DEF PipelineInv
<1>3. CASE PipelineEnqueue
  BY <1>3, PipelineKept DEF IInv
<1>4. CASE \E m \in Memes, withFace \in BOOLEAN : Upload(m, withFace)
  BY <1>4, PipelineBegun
<1>5. \/ pipeline' = pipeline \/ pipeline' = <<>> \/ PipelineEnqueue
      \/ \E m \in Memes, withFace \in BOOLEAN : Upload(m, withFace)
  BY DEF Next, vars, Start, RequeueNext, Serve, BeginShutdown, ShutdownFails, Crash, LoseMemory,
     PipelineAborts, EnqueueCommit, EnqueuePut, Deliver, DeleteMeme, WorkerTake,
     HandlerSucceeds, HandlerRetries, HandlerGivesUp, WorkerStops, WorkerDies, inbox
<1> QED BY <1>1, <1>2, <1>3, <1>4, <1>5

LEMMA IInv_Init == Init => IInv
BY MemoryInv_Init, RowsInv_Init DEF IInv

LEMMA IInv_Next == IInv /\ [Next]_vars => IInv'
BY MemoryInv_Next, Rows_Next, Pipeline_Next DEF IInv

(* The inductive invariant holds in every reachable state.                  *)
THEOREM Inductive == Spec => []IInv
BY IInv_Init, IInv_Next, PTL DEF Spec

=============================================================================
