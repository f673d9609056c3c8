------------------------------ MODULE JobTable ------------------------------
(***************************************************************************)
(* What the job queue promises about its persistent rows, with no queue,   *)
(* no threads, no process: a row is submitted for an existing meme, begun  *)
(* (again and again, if attempts fail or the process dies), and settled    *)
(* once.  A pipeline row is only begun when the pipeline rows before it    *)
(* are settled.  Deleting the meme removes its rows at any time.  JobQueue *)
(* implements this specification.                                          *)
(***************************************************************************)
EXTENDS JobTypes

VARIABLES memes, jobs, nextId

tableVars == <<memes, jobs, nextId>>

Init ==
    /\ memes = {}
    /\ jobs = [i \in JobIds |-> None]
    /\ nextId = 1

AddMeme(m) ==
    /\ memes' = memes \cup {m}
    /\ UNCHANGED <<jobs, nextId>>

Submit(m, type) ==
    /\ m \in memes /\ nextId \in JobIds
    /\ jobs' = [jobs EXCEPT ![nextId] =
                    [meme |-> m, type |-> type, status |-> "PENDING", attempts |-> 0]]
    /\ nextId' = nextId + 1
    /\ UNCHANGED memes

Begin(i) ==
    /\ UnfinishedIn(jobs, i)
    /\ jobs[i].type \in PipelineTypes => EarlierStepsSettled(jobs, i)
    /\ jobs' = [jobs EXCEPT ![i] = WithStatus(jobs[i], "RUNNING", 1)]
    /\ UNCHANGED <<memes, nextId>>

Settle(i, outcome) ==
    /\ jobs[i] # None /\ jobs[i].status = "RUNNING"
    /\ jobs' = [jobs EXCEPT ![i] = WithStatus(jobs[i], outcome, 0)]
    /\ UNCHANGED <<memes, nextId>>

Remove(m) ==
    /\ memes' = memes \ {m}
    /\ jobs' = [i \in JobIds |->
                   IF jobs[i] # None /\ jobs[i].meme = m THEN None ELSE jobs[i]]
    /\ UNCHANGED nextId

Next ==
    \/ \E m \in Memes : AddMeme(m) \/ Remove(m)
    \/ \E m \in Memes, type \in JobTypes : Submit(m, type)
    \/ \E i \in JobIds : Begin(i)
    \/ \E i \in JobIds, outcome \in {"DONE", "ERROR"} : Settle(i, outcome)

Spec == Init /\ [][Next]_tableVars

=============================================================================
