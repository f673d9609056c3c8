------------------------------ MODULE JobTypes ------------------------------
(***************************************************************************)
(* The rows of the jobs table (db/schema.py, migration 1) and what can be  *)
(* said of a table of them; shared by the table's promise (JobTable) and   *)
(* the queue that keeps it (JobQueue).                                     *)
(***************************************************************************)
EXTENDS Naturals

CONSTANTS
    Memes,        \* the content-addressed ids memes can have
    None,         \* Python's None: no job, no row, the stop sentinel
    MaxJobs       \* bound: rows ever inserted in the jobs table

PipelineTypes == {"CAPTION", "OCR", "FACE", "EMBED"}
JobTypes == PipelineTypes \cup {"RE_EMBED"}
Statuses == {"PENDING", "RUNNING", "DONE", "ERROR"}
JobIds == 1 .. MaxJobs

Row == [meme : Memes, type : JobTypes, status : Statuses, attempts : Nat]

ASSUME MaxJobsAssumption == MaxJobs \in Nat
ASSUME NoRowAssumption == None \notin Row

\* The row after UPDATE jobs SET status = ..., attempts = attempts + bump.
WithStatus(row, status, bump) ==
    [meme |-> row.meme, type |-> row.type,
     status |-> status, attempts |-> row.attempts + bump]

UnfinishedIn(table, i) == table[i] # None /\ table[i].status \in {"PENDING", "RUNNING"}
FinishedIn(table, i) == table[i] # None /\ table[i].status \in {"DONE", "ERROR"}

\* The pipeline rows committed before row i are all settled.
EarlierStepsSettled(table, i) ==
    \A j \in JobIds :
        j < i /\ table[j] # None /\ table[j].type \in PipelineTypes
            => FinishedIn(table, j)

=============================================================================
