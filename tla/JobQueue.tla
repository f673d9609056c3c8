------------------------------ MODULE JobQueue ------------------------------
(***************************************************************************)
(* The job queue of the server (server/jobs.py) with the table that makes  *)
(* it survive a restart (the `jobs` table, db/store.py) and the life cycle *)
(* of the process that owns it (the lifespan of server/app.py).            *)
(*                                                                         *)
(* Three kinds of actor run against it:                                    *)
(*   - the event-loop thread: the upload handler, the callbacks that       *)
(*     deliver jobs put by other threads, and the worker coroutine take    *)
(*     turns on it; a synchronous stretch of one excludes the others;      *)
(*   - the threadpool threads that run the synchronous endpoints: they     *)
(*     commit a row and only afterwards hand the job to the loop;          *)
(*   - the environment, which crashes, stops and starts the process.       *)
(* Every call of db/store.py runs under one lock, so a call is one step.   *)
(***************************************************************************)
EXTENDS JobTypes, Sequences, FiniteSetsExt

CONSTANTS
    Threads,      \* threadpool threads that run endpoints
    MaxAttempts,  \* 1 + config.JOB_MAX_RETRIES
    MaxCrashes,   \* bound: crashes of the process
    MaxFaults     \* bound: database errors met by the worker

\* The in-memory Job object, and a pipeline step not enqueued yet.
Job == [id : JobIds, meme : Memes, type : JobTypes]
Step == [meme : Memes, type : PipelineTypes]

ASSUME BoundsAssumption ==
    /\ MaxAttempts \in Nat \ {0}
    /\ MaxCrashes \in Nat
    /\ MaxFaults \in Nat

ASSUME NoneAssumption == None \notin Job

VARIABLES
    server,    \* life cycle of the process
    memes,     \* ids with a row in the memes table
    jobs,      \* the jobs table: id -> row, or None
    nextId,    \* AUTOINCREMENT counter of the table
    cursor,    \* startup: last row put back by requeue_unfinished
    queue,     \* asyncio.Queue[Job | None]
    ready,     \* put_nowait callbacks scheduled with call_soon_threadsafe
    hands,     \* thread -> the job it has committed and not yet put
    pipeline,  \* steps the upload on the event loop has still to enqueue
    workerUp,  \* the worker task is alive
    current,   \* job the worker is running, or None
    attempt,   \* its attempt number in this run of the process
    crashes,
    faults

table == <<memes, jobs, nextId>>
worker == <<workerUp, current, attempt>>
inbox == <<queue, ready, hands, pipeline>>
life == <<server, cursor, crashes, faults>>
vars == <<server, memes, jobs, nextId, cursor, queue, ready, hands, pipeline,
          workerUp, current, attempt, crashes, faults>>

Unfinished(i) == UnfinishedIn(jobs, i)
Finished(i) == FinishedIn(jobs, i)

Init ==
    /\ server = "down"
    /\ memes = {}
    /\ jobs = [i \in JobIds |-> None]
    /\ nextId = 1
    /\ cursor = 0
    /\ queue = <<>>
    /\ ready = <<>>
    /\ hands = [t \in Threads |-> None]
    /\ pipeline = <<>>
    /\ workerUp = FALSE
    /\ current = None
    /\ attempt = 0
    /\ crashes = 0
    /\ faults = 0

-----------------------------------------------------------------------------
(* The jobs table *)

\* n more rows fit under the bound, those of the upload in progress counted.
Room(n) == nextId + Len(pipeline) + n <= MaxJobs + 1

CreateJob(m, type) ==
    /\ nextId \in JobIds
    /\ jobs' = [jobs EXCEPT ![nextId] =
                    [meme |-> m, type |-> type, status |-> "PENDING", attempts |-> 0]]
    /\ nextId' = nextId + 1

\* UPDATE ... WHERE id = ?: a row that is gone is silently left alone.
UpdateJob(i, status, bump) ==
    jobs' = IF jobs[i] = None THEN jobs
            ELSE [jobs EXCEPT ![i] = WithStatus(jobs[i], status, bump)]

-----------------------------------------------------------------------------
(* Process life cycle *)

LoseMemory ==
    /\ queue' = <<>>
    /\ ready' = <<>>
    /\ hands' = [t \in Threads |-> None]
    /\ pipeline' = <<>>
    /\ workerUp' = FALSE
    /\ current' = None
    /\ attempt' = 0
    /\ cursor' = 0

\* Mutant: the rows left by the last run are not put back.
Start_WithoutRequeue ==
    /\ server \in {"down", "stopped"}
    /\ server' = "serving"
    /\ workerUp' = TRUE
    /\ UNCHANGED <<table, cursor, inbox, current, attempt, crashes, faults>>

\* lifespan: start() creates the worker task; no request is served and no
\* coroutine runs until the unfinished rows have been put back in the queue.
Start ==
    /\ server \in {"down", "stopped"}
    /\ server' = "starting"
    /\ workerUp' = TRUE
    /\ UNCHANGED <<table, cursor, inbox, current, attempt, crashes, faults>>

\* Mutant: rows are put back while requests are served.
RequeueNext_WhileServing ==
    /\ server \in {"starting", "serving"}
    /\ \E i \in JobIds :
         /\ i > cursor /\ Unfinished(i)
         /\ queue' = Append(queue, [id |-> i, meme |-> jobs[i].meme,
                                    type |-> jobs[i].type])
         /\ cursor' = i
    /\ UNCHANGED <<server, table, ready, hands, pipeline, worker, crashes, faults>>

\* Mutant: failed rows are put back as well.
RequeueNext_WithErrors ==
    /\ server = "starting"
    /\ \E i \in JobIds :
         /\ i > cursor /\ jobs[i] # None /\ jobs[i].status # "DONE"
         /\ queue' = Append(queue, [id |-> i, meme |-> jobs[i].meme,
                                    type |-> jobs[i].type])
         /\ cursor' = i
    /\ UNCHANGED <<server, table, ready, hands, pipeline, worker, crashes, faults>>

RequeueNext ==
    /\ server = "starting"
    /\ \E i \in JobIds :
         /\ i > cursor /\ Unfinished(i)
         /\ \A j \in JobIds : j > cursor /\ Unfinished(j) => i <= j
         /\ queue' = Append(queue, [id |-> i, meme |-> jobs[i].meme,
                                    type |-> jobs[i].type])
         /\ cursor' = i
    /\ UNCHANGED <<server, table, ready, hands, pipeline, worker, crashes, faults>>

\* Mutant: requests are served while rows are still being put back.
Serve_Early ==
    /\ server = "starting"
    /\ server' = "serving"
    /\ cursor' = 0
    /\ UNCHANGED <<table, inbox, worker, crashes, faults>>

Serve ==
    /\ server = "starting"
    /\ \A i \in JobIds : Unfinished(i) => i <= cursor
    /\ server' = "serving"
    /\ cursor' = 0
    /\ UNCHANGED <<table, inbox, worker, crashes, faults>>

\* Mutant: the sentinel overtakes the backlog.
BeginShutdown_SentinelFirst ==
    /\ server = "serving"
    /\ pipeline = <<>> /\ ready = <<>>
    /\ \A t \in Threads : hands[t] = None
    /\ server' = "stopping"
    /\ queue' = <<None>> \o queue
    /\ UNCHANGED <<table, cursor, ready, hands, pipeline, worker, crashes, faults>>

\* Mutant: the worker is awaited, the sentinel forgotten.
BeginShutdown_NoSentinel ==
    /\ server = "serving"
    /\ pipeline = <<>> /\ ready = <<>>
    /\ \A t \in Threads : hands[t] = None
    /\ server' = "stopping"
    /\ UNCHANGED <<table, cursor, inbox, worker, crashes, faults>>

\* The HTTP server lets the requests in flight finish before it runs the
\* shutdown half of lifespan, which puts None behind the whole backlog.
BeginShutdown ==
    /\ server = "serving"
    /\ pipeline = <<>> /\ ready = <<>>
    /\ \A t \in Threads : hands[t] = None
    /\ server' = "stopping"
    /\ queue' = Append(queue, None)
    /\ UNCHANGED <<table, cursor, ready, hands, pipeline, worker, crashes, faults>>

\* await self._worker_task raises: the process exits without a clean stop.
ShutdownFails ==
    /\ server = "stopping" /\ ~workerUp
    /\ server' = "down"
    /\ LoseMemory
    /\ UNCHANGED <<table, crashes, faults>>

Crash ==
    /\ server \in {"starting", "serving", "stopping"}
    /\ crashes < MaxCrashes
    /\ server' = "down"
    /\ crashes' = crashes + 1
    /\ LoseMemory
    /\ UNCHANGED <<table, faults>>

-----------------------------------------------------------------------------
(* Upload: a coroutine that never awaits once the file is read, so it owns *)
(* the event loop from create_meme to the last put of its pipeline; only   *)
(* the threadpool threads interleave with it.                              *)

PipelineOf(m, withFace) ==
    [k \in 1 .. (IF withFace THEN 4 ELSE 3) |->
        [meme |-> m,
         type |-> IF withFace THEN <<"CAPTION", "OCR", "FACE", "EMBED">>[k]
                              ELSE <<"CAPTION", "OCR", "EMBED">>[k]]]

Upload(m, withFace) ==
    /\ server = "serving" /\ pipeline = <<>>
    /\ Room(Len(PipelineOf(m, withFace)))
    /\ memes' = memes \cup {m}
    /\ pipeline' = PipelineOf(m, withFace)
    /\ UNCHANGED <<jobs, nextId, queue, ready, hands, worker, life>>

\* On the loop's own thread _put enqueues at once.
PipelineEnqueue ==
    /\ pipeline # <<>>
    /\ Head(pipeline).meme \in memes
    /\ CreateJob(Head(pipeline).meme, Head(pipeline).type)
    /\ queue' = Append(queue, [id |-> nextId, meme |-> Head(pipeline).meme,
                               type |-> Head(pipeline).type])
    /\ pipeline' = Tail(pipeline)
    /\ UNCHANGED <<memes, ready, hands, worker, life>>

\* The meme was deleted meanwhile: the foreign key refuses the row and the
\* request fails with its remaining steps.
PipelineAborts ==
    /\ pipeline # <<>>
    /\ Head(pipeline).meme \notin memes
    /\ pipeline' = <<>>
    /\ UNCHANGED <<table, queue, ready, hands, worker, life>>

-----------------------------------------------------------------------------
(* Synchronous endpoints *)

\* enqueue(meme_id, RE_EMBED), first half: the row is committed ...
EnqueueCommit(t, m) ==
    /\ server = "serving" /\ hands[t] = None
    /\ m \in memes /\ Room(1)
    /\ CreateJob(m, "RE_EMBED")
    /\ hands' = [hands EXCEPT ![t] = [id |-> nextId, meme |-> m, type |-> "RE_EMBED"]]
    /\ UNCHANGED <<memes, queue, ready, pipeline, worker, life>>

\* ... second half: the put is scheduled on the event loop ...
EnqueuePut(t) ==
    /\ hands[t] # None
    /\ ready' = Append(ready, hands[t])
    /\ hands' = [hands EXCEPT ![t] = None]
    /\ UNCHANGED <<table, queue, pipeline, worker, life>>

\* ... which runs its callbacks first in, first out.
Deliver ==
    /\ pipeline = <<>> /\ ready # <<>>
    /\ queue' = Append(queue, Head(ready))
    /\ ready' = Tail(ready)
    /\ UNCHANGED <<table, hands, pipeline, worker, life>>

\* Mutant: ids of deleted rows are given out again (no AUTOINCREMENT).
DeleteMeme_ReusesIds(m) ==
    /\ server = "serving" /\ m \in memes
    /\ memes' = memes \ {m}
    /\ jobs' = [i \in JobIds |->
                   IF jobs[i] # None /\ jobs[i].meme = m THEN None ELSE jobs[i]]
    /\ nextId' = 1 + Max({0} \cup {i \in JobIds : jobs'[i] # None})
    /\ UNCHANGED <<inbox, worker, life>>

\* DELETE FROM memes cascades to the jobs table, not to the queue.
DeleteMeme(m) ==
    /\ server = "serving" /\ m \in memes
    /\ memes' = memes \ {m}
    /\ jobs' = [i \in JobIds |->
                   IF jobs[i] # None /\ jobs[i].meme = m THEN None ELSE jobs[i]]
    /\ UNCHANGED <<nextId, inbox, worker, life>>

-----------------------------------------------------------------------------
(* The worker coroutine *)

WorkerTurn == workerUp /\ pipeline = <<>> /\ server \in {"serving", "stopping"}

\* Mutant: the newest job first.
WorkerTake_Newest ==
    /\ WorkerTurn /\ current = None
    /\ queue # <<>> /\ queue[Len(queue)] # None
    /\ queue' = SubSeq(queue, 1, Len(queue) - 1)
    /\ UpdateJob(queue[Len(queue)].id, "RUNNING", 1)
    /\ current' = queue[Len(queue)]
    /\ attempt' = 1
    /\ UNCHANGED <<memes, nextId, ready, hands, pipeline, workerUp, life>>

WorkerTake ==
    /\ WorkerTurn /\ current = None
    /\ queue # <<>> /\ Head(queue) # None
    /\ queue' = Tail(queue)
    /\ UpdateJob(Head(queue).id, "RUNNING", 1)
    /\ current' = Head(queue)
    /\ attempt' = 1
    /\ UNCHANGED <<memes, nextId, ready, hands, pipeline, workerUp, life>>

HandlerSucceeds ==
    /\ WorkerTurn /\ current # None
    /\ UpdateJob(current.id, "DONE", 0)
    /\ current' = None
    /\ attempt' = 0
    /\ UNCHANGED <<memes, nextId, inbox, workerUp, life>>

\* Mutant: one attempt more than configured.
HandlerRetries_OnceMore ==
    /\ WorkerTurn /\ current # None
    /\ attempt <= MaxAttempts
    /\ UpdateJob(current.id, "RUNNING", 1)
    /\ attempt' = attempt + 1
    /\ UNCHANGED <<memes, nextId, inbox, workerUp, current, life>>

\* Mutant: a failed job goes to the back of the queue.
HandlerRetries_AtTheBack ==
    /\ WorkerTurn /\ current # None
    /\ attempt < MaxAttempts
    /\ UpdateJob(current.id, "PENDING", 0)
    /\ queue' = Append(queue, current)
    /\ current' = None
    /\ attempt' = 0
    /\ UNCHANGED <<memes, nextId, ready, hands, pipeline, workerUp, life>>

\* The handler, or the write of DONE, raised and attempts are left.
HandlerRetries ==
    /\ WorkerTurn /\ current # None
    /\ attempt < MaxAttempts
    /\ UpdateJob(current.id, "RUNNING", 1)
    /\ attempt' = attempt + 1
    /\ UNCHANGED <<memes, nextId, inbox, workerUp, current, life>>

\* Mutant: the failure is logged and not recorded.
HandlerGivesUp_Silently ==
    /\ WorkerTurn /\ current # None
    /\ attempt = MaxAttempts
    /\ current' = None
    /\ attempt' = 0
    /\ UNCHANGED <<table, inbox, workerUp, life>>

HandlerGivesUp ==
    /\ WorkerTurn /\ current # None
    /\ attempt = MaxAttempts
    /\ UpdateJob(current.id, "ERROR", 0)
    /\ current' = None
    /\ attempt' = 0
    /\ UNCHANGED <<memes, nextId, inbox, workerUp, life>>

\* `if job is None: return`
WorkerStops ==
    /\ WorkerTurn /\ current = None
    /\ queue # <<>> /\ Head(queue) = None
    /\ queue' = Tail(queue)
    /\ workerUp' = FALSE
    /\ server' = "stopped"
    /\ UNCHANGED <<table, cursor, ready, hands, pipeline, current, attempt, crashes, faults>>

\* update_job(RUNNING) and update_job(ERROR) stand outside the try: a
\* database error there ends the worker task, and nothing restarts it.
WorkerDies ==
    /\ WorkerTurn /\ faults < MaxFaults
    /\ faults' = faults + 1
    /\ workerUp' = FALSE
    /\ \/ /\ current # None
          /\ UNCHANGED queue
       \/ /\ current = None /\ queue # <<>> /\ Head(queue) # None
          /\ queue' = Tail(queue)
    /\ current' = None
    /\ attempt' = 0
    /\ UNCHANGED <<server, table, cursor, ready, hands, pipeline, crashes>>

-----------------------------------------------------------------------------
WorkerRuns ==
    WorkerTake \/ HandlerSucceeds \/ HandlerRetries \/ HandlerGivesUp \/ WorkerStops

Next ==
    \/ Start \/ RequeueNext \/ Serve \/ BeginShutdown \/ ShutdownFails \/ Crash
    \/ \E m \in Memes, withFace \in BOOLEAN : Upload(m, withFace)
    \/ PipelineEnqueue \/ PipelineAborts
    \/ \E t \in Threads, m \in Memes : EnqueueCommit(t, m)
    \/ \E t \in Threads : EnqueuePut(t)
    \/ Deliver
    \/ \E m \in Memes : DeleteMeme(m)
    \/ WorkerTake \/ HandlerSucceeds \/ HandlerRetries \/ HandlerGivesUp
    \/ WorkerStops \/ WorkerDies

Spec == Init /\ [][Next]_vars

(* Fairness.  Synchronous code runs to its end; the service manager starts *)
(* a process that died; the loop runs its ready callbacks in order, so an  *)
(* endless series of uploads cannot keep a delivery or the worker from     *)
(* their turn: strong fairness.  A handler returns or raises (nothing in   *)
(* the code bounds how long a model call may take: this is assumed).       *)
Fairness ==
    /\ WF_vars(Start /\ server = "down")
    /\ WF_vars(RequeueNext \/ Serve)
    /\ WF_vars(ShutdownFails)
    /\ WF_vars(PipelineEnqueue \/ PipelineAborts)
    /\ \A t \in Threads : WF_vars(EnqueuePut(t))
    /\ SF_vars(Deliver)
    /\ SF_vars(WorkerRuns)

FairSpec == Spec /\ Fairness

-----------------------------------------------------------------------------
(* status_for_meme, as the web page polls it *)

RowsOf(m) == {i \in JobIds : jobs[i] # None /\ jobs[i].meme = m}

\* Mutant: a running job is not waited for.
StatusOf_IgnoresRunning(m) ==
    IF \E i \in RowsOf(m) : jobs[i].status = "PENDING" THEN "processing" ELSE "done"

StatusOf(m) ==
    LET settled == {i \in RowsOf(m) : Finished(i)}
    IN  IF settled = RowsOf(m) THEN "done"
        ELSE IF \E i \in RowsOf(m) : jobs[i].status = "RUNNING" THEN "processing"
        ELSE IF settled = {} THEN "pending" ELSE "processing"

-----------------------------------------------------------------------------
(* Where a job can be while the process lives *)

InQueue(i) == \E k \in DOMAIN queue : queue[k] # None /\ queue[k].id = i
InReady(i) == \E k \in DOMAIN ready : ready[k].id = i
InHands(i) == \E t \in Threads : hands[t] # None /\ hands[t].id = i
InWorker(i) == current # None /\ current.id = i
Held(i) == InQueue(i) \/ InReady(i) \/ InHands(i) \/ InWorker(i)

\* The in-memory jobs, wherever they are.
HeldJobs ==
    ({queue[k] : k \in DOMAIN queue} \cup {ready[k] : k \in DOMAIN ready}
        \cup {hands[t] : t \in Threads} \cup {current}) \ {None}

(* Types of all variables; the shapes the other invariants rely on. *)
TypeOK ==
    /\ server \in {"down", "starting", "serving", "stopping", "stopped"}
    /\ memes \subseteq Memes
    /\ jobs \in [JobIds -> Row \cup {None}]
    /\ nextId \in 1 .. (MaxJobs + 1)
    /\ cursor \in 0 .. MaxJobs
    /\ queue \in Seq(Job \cup {None})
    /\ ready \in Seq(Job)
    /\ hands \in [Threads -> Job \cup {None}]
    /\ pipeline \in Seq(Step)
    /\ workerUp \in BOOLEAN
    /\ current \in Job \cup {None}
    /\ attempt \in 0 .. MaxAttempts
    /\ crashes \in 0 .. MaxCrashes
    /\ faults \in 0 .. MaxFaults

(* While the worker of a serving process is alive, every unfinished row has *)
(* its job in memory, in the queue, on its way to it or with the worker:    *)
(* neither the put that follows the commit (enqueue), nor a restart         *)
(* (requeue_unfinished), nor the stop sentinel loses one.                   *)
NothingForgotten ==
    server \in {"serving", "stopping"} /\ workerUp =>
        \A i \in JobIds : Unfinished(i) => Held(i)

(* A row is in memory at most once: a restart that puts the unfinished rows *)
(* back and requests that enqueue new ones never make the worker run a row  *)
(* twice.                                                                   *)
HeldOnce ==
    /\ \A k, l \in DOMAIN queue :
         queue[k] # None /\ queue[l] # None /\ queue[k].id = queue[l].id => k = l
    /\ \A k, l \in DOMAIN ready : ready[k].id = ready[l].id => k = l
    /\ \A t, u \in Threads :
         hands[t] # None /\ hands[u] # None /\ hands[t].id = hands[u].id => t = u
    /\ \A i \in JobIds :
         /\ InQueue(i) => ~InReady(i) /\ ~InHands(i) /\ ~InWorker(i)
         /\ InReady(i) => ~InHands(i) /\ ~InWorker(i)
         /\ InHands(i) => ~InWorker(i)

(* A job in memory never touches a row that is not its own: deleting a meme *)
(* removes its rows while their jobs stay queued, so this rests on the ids  *)
(* of the jobs table not being reused (AUTOINCREMENT).                      *)
RowIdentity ==
    \A job \in HeldJobs :
        jobs[job.id] # None =>
            jobs[job.id].meme = job.meme /\ jobs[job.id].type = job.type

(* When the worker is on a pipeline job, every pipeline row committed       *)
(* before it is settled: EMBED sees the caption, the text and the faces of  *)
(* the earlier jobs, also when a restart rebuilt the queue in between.      *)
PipelineOrder ==
    current # None /\ current.type \in PipelineTypes =>
        EarlierStepsSettled(jobs, current.id)

(* A clean stop leaves no unfinished row: no request is in flight when the  *)
(* sentinel is put, and the worker drains what is ahead of it.  It is the   *)
(* opposite of what shutdown's docstring promises: "Finish the running job, *)
(* then stop (pending jobs stay PENDING in DB)".                            *)
CleanStopDrains == server = "stopped" => \A i \in JobIds : ~Unfinished(i)

(* A settled row stays as it is until its meme is deleted: no late handler, *)
(* retry or requeue moves it out of DONE or ERROR.                          *)
FinishedForever ==
    [][\A i \in JobIds : Finished(i) => jobs'[i] \in {jobs[i], None}]_vars

\* An error outside the handlers has ended the worker task, and nobody restarts it.
WorkerGone == server = "serving" /\ ~workerUp

(* Every accepted job is settled, unless its meme is deleted, whatever      *)
(* crashes and restarts come in between; or the worker task is gone under a *)
(* server that goes on accepting jobs.                                      *)
EveryJobSettles == \A i \in JobIds : Unfinished(i) ~> ~Unfinished(i) \/ WorkerGone

(* A shutdown comes to an end: the sentinel reaches the worker, or the      *)
(* process crashes or fails to stop.                                        *)
ShutdownEnds == server = "stopping" ~> server \in {"stopped", "down"}

(* The queue keeps the promise of the table: seen through its rows alone,   *)
(* every step of the server is a submission, a beginning in pipeline order, *)
(* a settling of a running row, an addition or a removal of a meme.         *)
Table == INSTANCE JobTable
KeepsTablePromise == Table!Spec

-----------------------------------------------------------------------------
(* What the proofs add to the properties above to make them inductive.     *)

\* The memory of the process in each phase of its life.
PhaseInv ==
    /\ server \in {"down", "starting", "stopping", "stopped"} =>
         ready = <<>> /\ pipeline = <<>> /\ \A t \in Threads : hands[t] = None
    /\ server \in {"down", "starting", "stopped"} => current = None
    /\ server \in {"down", "stopped"} => queue = <<>> /\ ~workerUp
    /\ server = "starting" => workerUp
    /\ server # "starting" => cursor = 0
    /\ current # None => workerUp
    \* The sentinel is put by the shutdown only, behind everything else.
    /\ \A k \in DOMAIN queue :
         queue[k] = None => server = "stopping" /\ k = Len(queue)
    /\ server = "stopping" /\ workerUp => queue # <<>> /\ queue[Len(queue)] = None

\* The cursor of requeue_unfinished separates what is queued from what is not.
RequeueInv ==
    server = "starting" =>
        \A i \in JobIds : /\ InQueue(i) => i <= cursor
                          /\ Unfinished(i) /\ i <= cursor => InQueue(i)

\* Ids not given out yet belong to no row and no job.
FreshInv == \A i \in JobIds : i >= nextId => jobs[i] = None /\ ~Held(i)

\* A job in memory is of a row that is gone or unsettled; the worker's runs.
HeldInv ==
    /\ \A i \in JobIds : Held(i) => ~Finished(i)
    /\ current # None /\ jobs[current.id] # None => jobs[current.id].status = "RUNNING"

\* A pipeline job is the newest of all when it is queued, and a restart queues
\* by id: what is ahead of it is older.  Other threads put nothing but RE_EMBED.
OrderInv ==
    /\ \A k \in DOMAIN ready : ready[k].type = "RE_EMBED"
    /\ \A t \in Threads : hands[t] # None => hands[t].type = "RE_EMBED"
    /\ \A k, l \in DOMAIN queue :
         /\ queue[k] # None
         /\ queue[l] # None /\ queue[l].type \in PipelineTypes
         /\ k < l
         => queue[k].id < queue[l].id
    /\ \A k \in DOMAIN queue :
         queue[k] # None /\ queue[k].type \in PipelineTypes /\ current # None
         => current.id < queue[k].id

\* Memory and table together: what the properties above rest on.
MemoryInv ==
    /\ TypeOK
    /\ PhaseInv
    /\ RequeueInv
    /\ FreshInv
    /\ RowIdentity
    /\ HeldOnce
    /\ HeldInv
    /\ NothingForgotten
    /\ OrderInv
    /\ CleanStopDrains

\* The foreign key: a row is of a meme that exists.
RowsHaveMemes == \A i \in JobIds : jobs[i] # None => jobs[i].meme \in memes

\* A job whose row is gone is older than every row its meme has now.
LeftoverInv ==
    \A job \in HeldJobs :
        jobs[job.id] = None =>
            \A i \in JobIds : jobs[i] # None /\ jobs[i].meme = job.meme => job.id < i

\* What is left of a pipeline is of one meme and ends with its embedding.
PipelineInv ==
    /\ \A k, l \in DOMAIN pipeline : pipeline[k].meme = pipeline[l].meme
    /\ pipeline # <<>> => pipeline[Len(pipeline)].type = "EMBED"

(* The inductive invariant: the properties and what ties them together, and *)
(* what the data around the queue (MemeIndex) needs to know of its rows.    *)
IInv ==
    /\ MemoryInv
    /\ RowsHaveMemes
    /\ LeftoverInv
    /\ PipelineInv

=============================================================================
