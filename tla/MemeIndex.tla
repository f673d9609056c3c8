----------------------------- MODULE MemeIndex -----------------------------
(***************************************************************************)
(* The four places a meme lives in, and everything that writes them:       *)
(*                                                                         *)
(*   memes + metadata rows   (SQLite, db/store.py)                         *)
(*   memes_fts               (SQLite, the keyword index)                   *)
(*   the image file          (data/images)                                 *)
(*   the Qdrant point        (server/qdrant_store.py, the semantic index)  *)
(*                                                                         *)
(* The upload, edit and delete endpoints of server/app.py and the job      *)
(* handlers of server/jobs.py write them one after the other, while the    *)
(* job queue, module JobQueue, decides when a handler runs: every action   *)
(* here is an action of JobQueue together with its effect on the data, or  *)
(* leaves the queue alone.                                                 *)
(*                                                                         *)
(* Metadata is abstracted to what the semantic index depends on: whether   *)
(* there is a caption (the model is deterministic, so writing it again     *)
(* changes nothing) and which text the user or OCR supplied.               *)
(***************************************************************************)
EXTENDS JobTypes, Sequences, FiniteSets

CONSTANTS
    Threads, MaxAttempts, MaxCrashes,
    MaxFaults,    \* no database error is modelled here: 0
    UserTexts,    \* texts a user can supply
    Failures      \* whether models, the image decoder and Qdrant may fail

ASSUME FaultsAssumption == MaxFaults = 0
ASSUME AttemptsAssumption == MaxAttempts \in Nat \ {0} /\ MaxCrashes \in Nat
ASSUME NoJobAssumption == None \notin [id : JobIds, meme : Memes, type : JobTypes]
ASSUME NoMemeAssumption == None \notin Memes /\ \A ms \in SUBSET Memes : ms # None

VARIABLES
    server, memes, jobs, nextId, cursor, queue, ready, hands, pipeline,
    workerUp, current, attempt, crashes, faults

queueVars == <<server, memes, jobs, nextId, cursor, queue, ready, hands, pipeline,
               workerUp, current, attempt, crashes, faults>>

Queue == INSTANCE JobQueue

VARIABLES
    meta,         \* meme -> its metadata row, or None
    fts,          \* meme -> the metadata its row of memes_fts was built from
    files,        \* memes with an image file
    point,        \* meme -> the metadata its Qdrant point was built from
    ftsDue,       \* update_metadata has committed and not yet refreshed this
    act,          \* thread -> the endpoint step it has to take next
    uploading,    \* upload whose file is written and whose row is not
    work,         \* where the job handler is, and the metadata it has read
    rebuild,      \* the memes scripts/reindex.py has still to embed; None: it does not run
    excused       \* history: what a crash in a request has left undone of a meme,
                  \* and the points a rebuild was cut short of

data == <<meta, fts, files, point>>
control == <<ftsDue, act, uploading, work, rebuild, excused>>
vars == <<queueVars, data, control>>

NoText == "none"
OcrText == "ocr"
Texts == UserTexts \cup {NoText, OcrText}
Metadata == [caption : BOOLEAN, text : Texts]
Empty == [caption |-> FALSE, text |-> NoText]
ASSUME NoMetadataAssumption == None \notin Metadata
HasText(c) == c.caption \/ c.text # NoText

Places == {"keywords", "point", "file"}
Excuse(ms, places) == [m \in Memes |-> IF m \in ms THEN excused[m] \cup places ELSE excused[m]]
Redone(m, places) == excused' = [excused EXCEPT ![m] = @ \ places]

Idle == [op |-> "idle", meme |-> None]
NoWork == [phase |-> "idle", seen |-> None]

Init ==
    /\ Queue!Init
    /\ meta = [m \in Memes |-> None]
    /\ fts = [m \in Memes |-> None]
    /\ files = {}
    /\ point = [m \in Memes |-> None]
    /\ ftsDue = None
    /\ act = [t \in Threads |-> Idle]
    /\ uploading = None
    /\ work = NoWork
    /\ rebuild = None
    /\ excused = [m \in Memes |-> {}]

-----------------------------------------------------------------------------
\* Mutant: the keyword entry is left to somebody else.
UpdateMetadata_Only(m, c) ==
    /\ meta' = IF meta[m] = None THEN meta ELSE [meta EXCEPT ![m] = c]
    /\ ftsDue' = None

(* update_metadata commits the row, then rebuilds the row's keyword entry   *)
(* and commits again, all under the store's lock: between the two commits   *)
(* nobody else runs, but the process may crash.  A row that is gone is not  *)
(* written.                                                                 *)

UpdateMetadata(m, c) ==
    /\ meta' = IF meta[m] = None THEN meta ELSE [meta EXCEPT ![m] = c]
    /\ ftsDue' = m

RefreshFts ==
    /\ ftsDue # None
    /\ fts' = [fts EXCEPT ![ftsDue] = meta[ftsDue]]
    /\ ftsDue' = None
    /\ UNCHANGED <<queueVars, meta, files, point, act, uploading, work, rebuild, excused>>

\* Ids the requests in flight will take (an upload at least three), so that
\* the bound stops no request half way.
EditsDue == Cardinality({t \in Threads : act[t].op = "enqueue"})
Reserved == EditsDue + (IF uploading = None THEN 0 ELSE 3)

-----------------------------------------------------------------------------
(* Upload, on the event loop *)

UploadFile(m) ==
    /\ server = "serving" /\ pipeline = <<>> /\ uploading = None
    /\ Queue!Room(Reserved + 3)
    /\ files' = files \cup {m}
    /\ uploading' = m
    /\ UNCHANGED <<queueVars, meta, fts, point, ftsDue, act, work, rebuild, excused>>

\* Mutant: a duplicate's fields are stored, its pipeline is not run again.
UploadRow_SkipsDuplicate(withFace, text) ==
    /\ uploading # None
    /\ IF uploading \in memes THEN UNCHANGED queueVars ELSE Queue!Upload(uploading, withFace)
    /\ meta' = [meta EXCEPT ![uploading] =
                    LET row == IF @ = None THEN Empty ELSE @
                    IN  IF text = NoText THEN row ELSE [row EXCEPT !.text = text]]
    /\ ftsDue' = uploading
    /\ uploading' = None
    /\ Redone(uploading, Places)
    /\ UNCHANGED <<fts, files, point, act, work, rebuild>>

\* create_meme (a no-op for a duplicate) and update_metadata with the form's
\* fields, the empty ones left out; then enqueue_pipeline begins.
UploadRow(withFace, text) ==
    /\ uploading # None
    /\ Queue!Room(EditsDue + Len(Queue!PipelineOf(uploading, withFace)))
    /\ Queue!Upload(uploading, withFace)
    /\ meta' = [meta EXCEPT ![uploading] =
                    LET row == IF @ = None THEN Empty ELSE @
                    IN  IF text = NoText THEN row ELSE [row EXCEPT !.text = text]]
    /\ ftsDue' = uploading
    /\ uploading' = None
    /\ Redone(uploading, Places)
    /\ UNCHANGED <<fts, files, point, act, work, rebuild>>

UploadPipeline ==
    /\ Queue!PipelineEnqueue \/ Queue!PipelineAborts
    /\ UNCHANGED <<data, control>>

-----------------------------------------------------------------------------
(* Edit, and every other endpoint that writes metadata and re-embeds *)

ThreadFree(t) == server = "serving" /\ act[t] = Idle /\ hands[t] = None

\* Mutant: no second embedding is enqueued while there is one to come.
Edit_TrustsQueue(t, m, text) ==
    /\ ThreadFree(t) /\ m \in memes
    /\ Queue!Room(Reserved + 1)
    /\ UpdateMetadata(m, [meta[m] EXCEPT !.text = text])
    /\ act' = IF \E i \in Queue!RowsOf(m) :
                    Queue!Unfinished(i) /\ jobs[i].type \in {"EMBED", "RE_EMBED"}
              THEN act ELSE [act EXCEPT ![t] = [op |-> "enqueue", meme |-> m]]
    /\ Redone(m, {"keywords", "point"})
    /\ UNCHANGED <<queueVars, fts, files, point, uploading, work, rebuild>>

Edit(t, m, text) ==
    /\ ThreadFree(t) /\ m \in memes
    /\ Queue!Room(Reserved + 1)
    /\ UpdateMetadata(m, [meta[m] EXCEPT !.text = text])
    /\ act' = [act EXCEPT ![t] = [op |-> "enqueue", meme |-> m]]
    /\ Redone(m, {"keywords", "point"})
    /\ UNCHANGED <<queueVars, fts, files, point, uploading, work, rebuild>>

EditEnqueue(t) ==
    /\ act[t].op = "enqueue"
    /\ \/ Queue!EnqueueCommit(t, act[t].meme)
       \/ act[t].meme \notin memes /\ UNCHANGED queueVars   \* the foreign key refuses
    /\ act' = [act EXCEPT ![t] = Idle]
    /\ UNCHANGED <<data, ftsDue, uploading, work, rebuild, excused>>

EnqueuePut(t) == Queue!EnqueuePut(t) /\ UNCHANGED <<data, control>>

-----------------------------------------------------------------------------
(* _delete_memes, for one meme: Qdrant point, image file, rows *)

\* A failing Qdrant is logged and the deletion goes on.
DeletePoint(t, m) ==
    /\ ThreadFree(t) /\ m \in memes
    /\ \/ point' = [point EXCEPT ![m] = None]
       \/ Failures /\ UNCHANGED point
    /\ act' = [act EXCEPT ![t] = [op |-> "unlink", meme |-> m]]
    /\ UNCHANGED <<queueVars, meta, fts, files, ftsDue, uploading, work, rebuild, excused>>

DeleteFile(t) ==
    /\ act[t].op = "unlink"
    /\ files' = files \ {act[t].meme}
    /\ act' = [act EXCEPT ![t].op = "row"]
    /\ UNCHANGED <<queueVars, meta, fts, point, ftsDue, uploading, work, rebuild, excused>>

\* Mutant: the deletion does not cascade to the jobs.
DeleteRow_KeepsJobs(t) ==
    /\ act[t].op = "row"
    /\ memes' = memes \ {act[t].meme}
    /\ meta' = [meta EXCEPT ![act[t].meme] = None]
    /\ fts' = [fts EXCEPT ![act[t].meme] = None]
    /\ act' = [act EXCEPT ![t] = Idle]
    /\ UNCHANGED <<server, jobs, nextId, cursor, queue, ready, hands, pipeline, workerUp,
                   current, attempt, crashes, faults>>
    /\ UNCHANGED <<files, point, ftsDue, uploading, work, rebuild, excused>>

\* Mutant: the deletion does not cascade to the metadata.
DeleteRow_KeepsMetadata(t) ==
    /\ act[t].op = "row"
    /\ \/ Queue!DeleteMeme(act[t].meme)
       \/ act[t].meme \notin memes /\ UNCHANGED queueVars
    /\ fts' = [fts EXCEPT ![act[t].meme] = None]
    /\ act' = [act EXCEPT ![t] = Idle]
    /\ UNCHANGED <<meta, files, point, ftsDue, uploading, work, rebuild, excused>>

DeleteRow(t) ==
    /\ act[t].op = "row"
    /\ \/ Queue!DeleteMeme(act[t].meme)
       \/ act[t].meme \notin memes /\ UNCHANGED queueVars   \* deleted twice
    /\ meta' = [meta EXCEPT ![act[t].meme] = None]
    /\ fts' = [fts EXCEPT ![act[t].meme] = None]
    /\ act' = [act EXCEPT ![t] = Idle]
    /\ UNCHANGED <<files, point, ftsDue, uploading, work, rebuild, excused>>

-----------------------------------------------------------------------------
(* The event loop, when no upload holds it *)

Deliver == uploading = None /\ Queue!Deliver /\ UNCHANGED <<data, control>>

WorkerTake ==
    /\ uploading = None /\ Queue!WorkerTake
    /\ work' = [phase |-> "begin", seen |-> None]
    /\ UNCHANGED <<data, ftsDue, act, uploading, rebuild, excused>>

WorkerFinish ==
    /\ uploading = None
    /\ \/ /\ work.phase = "ok" /\ Queue!HandlerSucceeds
          /\ work' = NoWork
       \/ /\ work.phase = "failed" /\ Queue!HandlerRetries
          /\ work' = [phase |-> "begin", seen |-> None]
       \/ /\ work.phase = "failed" /\ Queue!HandlerGivesUp
          /\ work' = NoWork
    /\ UNCHANGED <<data, ftsDue, act, uploading, rebuild, excused>>

WorkerStops == uploading = None /\ Queue!WorkerStops /\ UNCHANGED <<data, control>>

-----------------------------------------------------------------------------
(* The handlers, in a thread of their own, for the worker's current job *)

Handling(types, phase) ==
    current # None /\ current.type \in types /\ work.phase = phase

Goto(phase) == work' = [work EXCEPT !.phase = phase]

HandlerRest == <<queueVars, act, uploading, rebuild, excused>>

\* Mutant: a file that is gone has nothing to caption.
ReadImage_SkipsMissing ==
    /\ Handling({"CAPTION", "OCR"}, "begin")
    /\ Goto(IF current.meme \notin memes THEN "failed"
            ELSE IF current.meme \in files THEN "image" ELSE "ok")
    /\ UNCHANGED <<HandlerRest, data, ftsDue>>

\* _image_path and the decoder: the row and the file must be there.
ReadImage ==
    /\ Handling({"CAPTION", "OCR"}, "begin")
    /\ Goto(IF current.meme \in memes /\ current.meme \in files THEN "image" ELSE "failed")
    /\ UNCHANGED <<HandlerRest, data, ftsDue>>

WriteCaption ==
    /\ Handling({"CAPTION"}, "image")
    /\ UpdateMetadata(current.meme, [caption |-> TRUE, text |->
           IF meta[current.meme] = None THEN NoText ELSE meta[current.meme].text])
    /\ Goto("ok")
    /\ UNCHANGED <<HandlerRest, fts, files, point>>

\* A row that is gone is only missed when there is text to promote.
OcrRead ==
    /\ Handling({"OCR"}, "image")
    /\ \/ work' = [phase |-> "read", seen |-> meta[current.meme]]
       \/ current.meme \notin memes /\ Goto("failed")
    /\ UNCHANGED <<HandlerRest, data, ftsDue>>

\* Telugu text becomes the dialogue if there was none when the row was read.
OcrWrite(found) ==
    /\ Handling({"OCR"}, "read")
    /\ LET now == meta[current.meme]
       IN  UpdateMetadata(current.meme,
               IF now # None /\ found /\ work.seen # None /\ work.seen.text = NoText
               THEN [now EXCEPT !.text = OcrText] ELSE now)
    /\ work' = [phase |-> "ok", seen |-> None]
    /\ UNCHANGED <<HandlerRest, fts, files, point>>

\* FACE writes actors only, which are payload and not part of the vectors.
\* Without the face model or its references the job is done at once.
Face ==
    /\ Handling({"FACE"}, "begin")
    /\ \/ Goto("ok")
       \/ ~(current.meme \in memes /\ current.meme \in files) /\ Goto("failed")
    /\ UNCHANGED <<HandlerRest, data, ftsDue>>

\* No text, no upsert: the job is done without touching Qdrant.
EmbedRead ==
    /\ Handling({"EMBED", "RE_EMBED"}, "begin")
    /\ LET now == meta[current.meme]
       IN  work' = [phase |-> IF now = None THEN "failed"
                              ELSE IF HasText(now) THEN "read" ELSE "ok",
                    seen |-> IF now # None /\ HasText(now) THEN now ELSE None]
    /\ UNCHANGED <<HandlerRest, data, ftsDue>>

\* An upsert that raises may have been applied.
EmbedUpsert ==
    /\ Handling({"EMBED", "RE_EMBED"}, "read")
    /\ point' = [point EXCEPT ![current.meme] = work.seen]
    /\ \/ Goto("log")
       \/ Failures /\ Goto("failed")
    /\ UNCHANGED <<HandlerRest, meta, fts, files, ftsDue>>

\* log_embedding refers to the meme's row.
EmbedLog ==
    /\ Handling({"EMBED", "RE_EMBED"}, "log")
    /\ Goto(IF current.meme \in memes THEN "ok" ELSE "failed")
    /\ UNCHANGED <<HandlerRest, data, ftsDue>>

HandlerRaises ==
    /\ Failures /\ current # None
    /\ work.phase \in {"begin", "image", "read"}
    /\ Goto("failed")
    /\ UNCHANGED <<HandlerRest, data, ftsDue>>

HandlerSteps ==
    \/ ReadImage \/ WriteCaption \/ OcrRead \/ Face
    \/ \E found \in BOOLEAN : OcrWrite(found)
    \/ EmbedRead \/ EmbedUpsert \/ EmbedLog \/ HandlerRaises

-----------------------------------------------------------------------------
(* Process life cycle *)

\* Embedded Qdrant is locked by the one process that has opened it: the
\* server does not start beside a rebuild.
StartUp ==
    /\ Queue!Start \/ Queue!RequeueNext \/ Queue!Serve
    /\ rebuild = None

InRequest(m) ==
    \/ \E t \in Threads : act[t].meme = m
    \/ uploading = m
    \/ \E k \in DOMAIN pipeline : pipeline[k].meme = m

BeginShutdown ==
    /\ Queue!BeginShutdown
    /\ uploading = None /\ \A t \in Threads : act[t] = Idle
    /\ UNCHANGED <<data, control>>

Crash ==
    /\ Queue!Crash
    /\ excused' = Excuse({m \in Memes : InRequest(m)}, Places)
    /\ ftsDue' = None
    /\ act' = [t \in Threads |-> Idle]
    /\ uploading' = None
    /\ work' = NoWork
    /\ UNCHANGED <<data, rebuild>>

-----------------------------------------------------------------------------
(* scripts/reindex.py: drops the collection, then embeds meme by meme.  No  *)
(* other process writes texts while the server is down, so a meme is one    *)
(* step.                                                                    *)

\* No job is left that will still give the meme a text.
Captioned(m) == \A i \in Queue!RowsOf(m) : Queue!Unfinished(i) => jobs[i].type \in {"EMBED", "RE_EMBED"}

ReindexDrop ==
    /\ server \in {"down", "stopped"} /\ rebuild = None
    /\ point' = [m \in Memes |-> None]
    /\ rebuild' = memes
    /\ UNCHANGED <<queueVars, meta, fts, files, ftsDue, act, uploading, work, excused>>

\* Mutant: a meme with a caption only is passed over.
ReindexMeme_NeedsText ==
    /\ rebuild # None
    /\ \E m \in rebuild :
         /\ point' = IF meta[m].text # NoText THEN [point EXCEPT ![m] = meta[m]] ELSE point
         /\ rebuild' = rebuild \ {m}
         /\ IF Captioned(m) THEN Redone(m, {"point"}) ELSE UNCHANGED excused
    /\ UNCHANGED <<queueVars, meta, fts, files, ftsDue, act, uploading, work>>

ReindexMeme ==
    /\ rebuild # None
    /\ \E m \in rebuild :
         /\ point' = IF HasText(meta[m]) THEN [point EXCEPT ![m] = meta[m]] ELSE point
         /\ rebuild' = rebuild \ {m}
         /\ IF Captioned(m) THEN Redone(m, {"point"}) ELSE UNCHANGED excused
    /\ UNCHANGED <<queueVars, meta, fts, files, ftsDue, act, uploading, work>>

\* At its end, or killed or failing anywhere before: nothing is repeated.
ReindexEnds ==
    /\ rebuild # None
    /\ rebuild' = None
    /\ excused' = Excuse(rebuild, {"point"})
    /\ UNCHANGED <<queueVars, data, ftsDue, act, uploading, work>>

-----------------------------------------------------------------------------
\* What needs the store's lock waits for an update in progress; the other
\* steps commute with it.
Next ==
    \/ RefreshFts
    \/ Crash
    \/ /\ ftsDue = None
       /\ \/ \E m \in Memes : UploadFile(m)
          \/ \E withFace \in BOOLEAN, text \in UserTexts \cup {NoText} : UploadRow(withFace, text)
          \/ UploadPipeline
          \/ \E t \in Threads, m \in Memes, text \in UserTexts \cup {NoText} : Edit(t, m, text)
          \/ \E t \in Threads : EditEnqueue(t) \/ EnqueuePut(t)
          \/ \E t \in Threads, m \in Memes : DeletePoint(t, m)
          \/ \E t \in Threads : DeleteFile(t) \/ DeleteRow(t)
          \/ Deliver \/ WorkerTake \/ WorkerFinish \/ WorkerStops
          \/ HandlerSteps
          \/ StartUp /\ UNCHANGED <<data, control>>
          \/ BeginShutdown
          \/ ReindexDrop \/ ReindexMeme \/ ReindexEnds

Spec == Init /\ [][Next]_vars

\* As in JobQueue; a request runs to its end, a handler returns or raises.
Fairness ==
    /\ WF_vars(RefreshFts)
    /\ WF_vars(server \in {"down", "starting"} /\ StartUp /\ UNCHANGED <<data, control>>)
    /\ WF_vars(ftsDue = None /\ (UploadPipeline \/
                   \E withFace \in BOOLEAN, text \in UserTexts \cup {NoText} : UploadRow(withFace, text)))
    /\ \A t \in Threads :
         SF_vars(ftsDue = None /\ (EditEnqueue(t) \/ EnqueuePut(t) \/ DeleteFile(t) \/ DeleteRow(t)))
    /\ SF_vars(ftsDue = None /\ Deliver)
    /\ SF_vars(ftsDue = None /\ (WorkerTake \/ HandlerSteps \/ WorkerFinish \/ WorkerStops))

FairSpec == Spec /\ Fairness

-----------------------------------------------------------------------------
EmbedTypes == {"EMBED", "RE_EMBED"}
TextTypes == {"CAPTION", "OCR"}

RowsOf(m, types) ==
    {i \in JobIds : jobs[i] # None /\ jobs[i].meme = m /\ jobs[i].type \in types}

\* Semantic search does not see the metadata the row has now.
Stale(m) == meta[m] # None /\ HasText(meta[m]) /\ point[m] # meta[m]

\* A request is about to enqueue an embedding.
EmbedAsked(m) ==
    \/ \E t \in Threads : act[t] = [op |-> "enqueue", meme |-> m]
    \/ \E k \in DOMAIN pipeline : pipeline[k] = [meme |-> m, type |-> "EMBED"]

\* An embedding is still to come that will read the metadata as it is now.
EmbedDue(m) ==
    \/ EmbedAsked(m)
    \/ \E i \in RowsOf(m, EmbedTypes) :
         /\ Queue!Unfinished(i)
         /\ current # None /\ current.id = i =>
              \/ work.phase \in {"begin", "failed"}
              \/ work.phase = "read" /\ work.seen = meta[m]

\* An embedding failed for good, and the meme's status says so.
EmbedFailed(m) == \E i \in RowsOf(m, EmbedTypes) : jobs[i].status = "ERROR"

Deleting(m) == \E t \in Threads : act[t].meme = m /\ act[t].op \in {"unlink", "row"}

\* Why a point may stay stale.
Accounted(m) == EmbedFailed(m) \/ Deleting(m) \/ "point" \in excused[m]

(* Types of the data and control variables; the queue's have their own.     *)
TypeOK ==
    /\ Queue!TypeOK
    /\ meta \in [Memes -> Metadata \cup {None}]
    /\ fts \in [Memes -> Metadata \cup {None}]
    /\ files \subseteq Memes
    /\ point \in [Memes -> Metadata \cup {None}]
    /\ ftsDue \in Memes \cup {None}
    /\ act \in [Threads -> [op : {"enqueue", "unlink", "row"}, meme : Memes] \cup {Idle}]
    /\ uploading \in Memes \cup {None}
    /\ work \in [phase : {"idle", "begin", "image", "read", "log", "ok", "failed"},
                 seen : Metadata \cup {None}]
    /\ excused \in [Memes -> SUBSET Places]
    /\ rebuild # None => rebuild \subseteq memes /\ server \in {"down", "stopped"}
    /\ memes = {m \in Memes : meta[m] # None}

(* Semantic search catches up with every change of a text, whatever the     *)
(* interleaving of edits, uploads, deletions and handlers: a stale point    *)
(* has an embedding to come, or a failed one to show for it.  Jobs survive  *)
(* crashes, so a crash excuses only the memes it caught in a request, and a *)
(* rebuild only those it was cut short of.                                  *)
IndexCatchesUp ==
    \A m \in Memes :
        Stale(m) => EmbedDue(m) \/ Accounted(m) \/ (rebuild # None /\ m \in rebuild)

(* Keyword search has the current metadata: an entry left behind by a crash *)
(* between the two commits of update_metadata is rebuilt when the job that  *)
(* was running is run again, or that job's failure is on record; otherwise  *)
(* only an interrupted request leaves one stale.                            *)
(* A deleted meme has no entry, also when a late handler updates it.        *)
KeywordIndexCatchesUp ==
    \A m \in Memes :
        fts[m] # meta[m] =>
            /\ meta[m] # None
            /\ \/ ftsDue = m \/ "keywords" \in excused[m]
               \/ \E i \in RowsOf(m, TextTypes) : jobs[i].status # "DONE"

(* A meme never loses its image in silence: a row without its file, as when *)
(* a deletion unlinks what a concurrent upload of the same meme has just    *)
(* written, has a job that reads the image to come or a failed one to show  *)
(* for it, unless the deletion is still at work or a crash has cut a        *)
(* request short.                                                           *)
MissingImageShows ==
    \A m \in memes \ files :
        \/ \E i \in RowsOf(m, TextTypes) : jobs[i].status # "DONE"
        \/ Deleting(m) \/ "file" \in excused[m]
        \/ \E k \in DOMAIN pipeline : pipeline[k] = [meme |-> m, type |-> "CAPTION"]

(* The web page stops polling when a meme's status is "done": from then on  *)
(* nothing in memory but a new request changes what a search finds, except  *)
(* a job left over from an earlier life of the meme, whose row was deleted  *)
(* while the job stayed queued.                                             *)
Leftover(m) == \E job \in Queue!HeldJobs : job.meme = m /\ jobs[job.id] = None

DoneMeansDone ==
    [][\A m \in Memes :
         /\ server = "serving" /\ server' = "serving"
         /\ m \in memes /\ m \in memes'
         /\ Queue!StatusOf(m) = "done"
         /\ ~InRequest(m) /\ ~InRequest(m)' /\ ~Leftover(m)
         => point'[m] = point[m] /\ meta'[m] = meta[m]]_vars

(* Every step is one the queue takes by itself, or leaves it alone: what    *)
(* JobQueue's theorems say of the queue holds with the data around it.      *)
QueueSpec == Queue!Spec

(* A stale point does not stay stale: it is rebuilt, the failure is on      *)
(* record, the meme goes, or a crash has cut the request short.             *)
IndexConverges ==
    \A m \in Memes :
        Stale(m) ~> ~Stale(m) \/ Accounted(m) \/ server = "stopped"

-----------------------------------------------------------------------------
(* What the documentation says and the code does not do.                    *)

(* USAGE.md:95, "Deletion is permanent: image file, metadata, and search    *)
(* index entries are all removed": a meme without a row, and with no        *)
(* request or handler at work on it, has no Qdrant point.  An embedding in  *)
(* progress during the deletion puts the point back.                        *)
DeletionRemovesPoint ==
    \A m \in Memes :
        m \notin memes /\ ~InRequest(m) /\ (current # None => current.meme # m)
            => point[m] = None

(* server/jobs.py:146, "If OCR found Telugu text and no dialogue was        *)
(* provided, use it as the dialogue": a dialogue a user has provided is not *)
(* replaced by OCR's.                                                       *)
OcrKeepsUserText ==
    [][\A m \in Memes :
         meta[m] # None /\ meta'[m] # None /\ meta[m].text \in UserTexts
            => meta'[m].text # OcrText]_vars

-----------------------------------------------------------------------------
(* What the proofs add to the properties above to make them inductive.      *)

\* Jobs that can still write a text of a meme, those included that are left
\* of an earlier life of it.
LeftTextJobs(m) ==
    {job \in Queue!HeldJobs : job.meme = m /\ job.type \in TextTypes /\ jobs[job.id] = None}
TextJobs(m) ==
    {i \in RowsOf(m, TextTypes) : Queue!Unfinished(i)} \cup {job.id : job \in LeftTextJobs(m)}

\* What they write is embedded afterwards.
TextsAreEmbedded ==
    \A m \in memes : \A x \in TextJobs(m) :
        \/ EmbedAsked(m) \/ Accounted(m)
        \/ \E e \in RowsOf(m, EmbedTypes) : Queue!Unfinished(e) /\ x < e

\* So is what has changed since the running embedding has read it.
OldReadsAreRepeated ==
    Handling(EmbedTypes, "read") =>
        LET m == current.meme
        IN  \/ meta[m] \in {None, work.seen}
            \/ EmbedAsked(m) \/ Accounted(m)
            \/ \E e \in RowsOf(m, EmbedTypes) : Queue!Unfinished(e) /\ e # current.id

\* An update of the metadata has somebody who would do it again, or is missed.
UpdatesAreOwned ==
    ftsDue # None =>
        \/ InRequest(ftsDue)
        \/ current # None /\ current.meme = ftsDue /\ current.type \in TextTypes

\* A job is not done before the keyword index has what it has written.
WritesAreIndexed ==
    Handling(TextTypes, "ok") =>
        ftsDue = current.meme \/ fts[current.meme] = meta[current.meme]

\* A text job of an earlier life is run before those of the present one end.
LeftTextsAreCovered ==
    \A m \in memes :
        LeftTextJobs(m) # {} =>
            \/ \E k \in DOMAIN pipeline : pipeline[k] = [meme |-> m, type |-> "CAPTION"]
            \/ \E i \in RowsOf(m, TextTypes) : jobs[i].status # "DONE"

\* An image that has been read goes only by a deletion.
ReadImagesAreKept ==
    /\ current # None /\ current.type \in TextTypes /\ jobs[current.id] # None
    /\ work.phase \in {"image", "read", "ok"}
    => current.meme \in files \/ Deleting(current.meme)

(* The inductive invariant: the properties and what ties them together.     *)
IInv ==
    /\ TypeOK
    /\ IndexCatchesUp
    /\ TextsAreEmbedded
    /\ OldReadsAreRepeated
    /\ KeywordIndexCatchesUp
    /\ UpdatesAreOwned
    /\ WritesAreIndexed
    /\ LeftTextsAreCovered
    /\ MissingImageShows
    /\ ReadImagesAreKept

=============================================================================
