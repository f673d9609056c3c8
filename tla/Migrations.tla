----------------------------- MODULE Migrations -----------------------------
(***************************************************************************)
(* Bringing the database up to date when a process opens it: db/init.py    *)
(* and apply_migrations of db/schema.py, statement by statement, by the     *)
(* server and by scripts, each of which may crash anywhere.  The server is   *)
(* started again, a script is run once.                                     *)
(*                                                                         *)
(* executescript commits what is pending and then runs each statement in a *)
(* transaction of its own; the row of schema_version is inserted after the *)
(* script and committed by the next script or by the last commit.  Between  *)
(* the two SQLite lets no other process write.                              *)
(***************************************************************************)
EXTENDS Naturals, Sequences

CONSTANTS
    Server,
    Scripts,      \* runs of scripts
    MaxCrashes    \* bound: crashes of a process

ASSUME CrashesAssumption == MaxCrashes \in Nat

VARIABLES
    objects,    \* tables and added columns that exist
    fts,        \* memes_fts: its columns, and how often every meme is in it
    version,    \* MAX(version) committed in schema_version
    pending,    \* process -> version inserted and not committed, or 0
    script,     \* process -> the migration it runs
    statement,  \* process -> statements of it that are done
    phase,      \* process -> where it is in opening the database
    overlap,    \* history: memes_fts was rebuilt without its description by a
                \* process beside or after another that has come as far
    crashes

vars == <<objects, fts, version, pending, script, statement, phase, overlap, crashes>>

Processes == {Server} \cup Scripts

\* Statements that can be run again, and ALTER TABLE, which cannot.
Ensure(object) == [op |-> "ensure", what |-> object]
AddColumn(column) == [op |-> "add", what |-> column]
RebuildFts(columns) ==
    << [op |-> "drop", what |-> "memes_fts"],
       [op |-> "create", what |-> columns],
       [op |-> "fill", what |-> columns] >>

SchemaVersion == 5

Script ==
    << << Ensure("memes"), Ensure("metadata"), Ensure("embeddings_log"), Ensure("jobs"),
          Ensure("searches"), [op |-> "ensure_fts", what |-> "base"] >>,
       << AddColumn("animated") >>,
       << Ensure("faces") >>,
       << Ensure("face_clusters") >> \o RebuildFts("notes"),
       << AddColumn("description") >> \o RebuildFts("description") >>

\* The objects migration v adds.
ObjectsOf(v) ==
    {Script[v][k].what : k \in {j \in DOMAIN Script[v] : Script[v][j].op \in {"ensure", "add"}}}

FtsOf(v) ==
    IF v = 0 THEN "none" ELSE IF v < 4 THEN "base" ELSE IF v = 4 THEN "notes" ELSE "description"

\* A database some earlier release has left, or none.
Init ==
    /\ version \in 0 .. SchemaVersion
    /\ objects = UNION {ObjectsOf(v) : v \in 1 .. version}
    /\ fts = [columns |-> FtsOf(version), copies |-> IF version > 0 THEN 1 ELSE 0]
    /\ pending = [p \in Processes |-> 0]
    /\ script = [p \in Processes |-> 0] /\ statement = [p \in Processes |-> 0]
    /\ phase = [p \in Processes |-> "stopped"]
    /\ overlap = FALSE /\ crashes = 0

\* Mutant: the newest migration is run again.
Open_OffByOne(p) ==
    /\ phase[p] = "stopped"
    /\ phase' = [phase EXCEPT ![p] = "migrating"]
    /\ script' = [script EXCEPT ![p] = IF version = 0 THEN 1 ELSE version]
    /\ statement' = [statement EXCEPT ![p] = 0]
    /\ UNCHANGED <<objects, fts, version, pending, overlap, crashes>>

\* The version is read once, before the first script.
Open(p) ==
    /\ phase[p] = "stopped"
    /\ phase' = [phase EXCEPT ![p] = "migrating"]
    /\ script' = [script EXCEPT ![p] = version + 1]
    /\ statement' = [statement EXCEPT ![p] = 0]
    /\ UNCHANGED <<objects, fts, version, pending, overlap, crashes>>

\* The commit at the head of executescript, or the last one.
Commit(p) ==
    /\ phase[p] = "migrating" /\ pending[p] # 0
    /\ version' = IF pending[p] > version THEN pending[p] ELSE version
    /\ pending' = [pending EXCEPT ![p] = 0]
    /\ UNCHANGED <<objects, fts, script, statement, phase, overlap, crashes>>

Statement(p) == Script[script[p]][statement[p] + 1]

Unlocked == \A p \in Processes : pending[p] = 0

CanRun(p) ==
    /\ phase[p] = "migrating" /\ Unlocked
    /\ script[p] <= SchemaVersion /\ statement[p] < Len(Script[script[p]])

\* A column is added once, memes_fts created when there is none and filled
\* when it has the columns.
Succeeds(s) ==
    CASE s.op = "add"    -> s.what \notin objects
      [] s.op = "create" -> fts.columns = "none"
      [] s.op = "fill"   -> fts.columns \in {s.what, "description"}
      [] OTHER           -> TRUE

Behind(p) ==
    /\ script[p] = 4
    /\ \/ version >= 4
       \/ \E q \in Processes \ {p} : phase[q] = "migrating" /\ script[q] >= 4

Execute(p) ==
    LET s == Statement(p) IN
    /\ CanRun(p) /\ Succeeds(s)
    /\ objects' = IF s.op \in {"ensure", "add"} THEN objects \cup {s.what} ELSE objects
    /\ fts' = CASE s.op = "ensure_fts" ->
                     IF fts.columns = "none" THEN [columns |-> "base", copies |-> 1] ELSE fts
                [] s.op = "drop" -> [columns |-> "none", copies |-> 0]
                [] s.op = "create" -> [columns |-> s.what, copies |-> 0]
                [] s.op = "fill" -> [fts EXCEPT !.copies = @ + 1]
                [] OTHER -> fts
    /\ statement' = [statement EXCEPT ![p] = @ + 1]
    /\ overlap' = (overlap \/ Behind(p))
    /\ UNCHANGED <<version, pending, script, phase, crashes>>

Ended(p) == phase' = [phase EXCEPT ![p] = IF p = Server THEN "stopped" ELSE "gone"]

\* init_db raises and the process ends.
ExecuteFails(p) ==
    /\ CanRun(p) /\ ~Succeeds(Statement(p))
    /\ Ended(p)
    /\ UNCHANGED <<objects, fts, version, pending, script, statement, overlap, crashes>>

\* Mutant: a migration is recorded with the one before it.
Record_Early(p) ==
    /\ phase[p] = "migrating" /\ Unlocked
    /\ script[p] <= SchemaVersion /\ statement[p] = Len(Script[script[p]])
    /\ pending' = [pending EXCEPT ![p] = IF script[p] < SchemaVersion THEN script[p] + 1 ELSE script[p]]
    /\ script' = [script EXCEPT ![p] = @ + 1]
    /\ statement' = [statement EXCEPT ![p] = 0]
    /\ UNCHANGED <<objects, fts, version, phase, overlap, crashes>>

Record(p) ==
    /\ phase[p] = "migrating" /\ Unlocked
    /\ script[p] <= SchemaVersion /\ statement[p] = Len(Script[script[p]])
    /\ pending' = [pending EXCEPT ![p] = script[p]]
    /\ script' = [script EXCEPT ![p] = @ + 1]
    /\ statement' = [statement EXCEPT ![p] = 0]
    /\ UNCHANGED <<objects, fts, version, phase, overlap, crashes>>

Ready(p) ==
    /\ phase[p] = "migrating" /\ pending[p] = 0 /\ script[p] > SchemaVersion
    /\ phase' = [phase EXCEPT ![p] = "ready"]
    /\ UNCHANGED <<objects, fts, version, pending, script, statement, overlap, crashes>>

Crash(p) ==
    /\ phase[p] \in {"migrating", "ready"} /\ crashes < MaxCrashes
    /\ crashes' = crashes + 1
    /\ Ended(p)
    /\ pending' = [pending EXCEPT ![p] = 0]
    /\ UNCHANGED <<objects, fts, version, script, statement, overlap>>

Run(p) == Open(p) \/ Commit(p) \/ Execute(p) \/ ExecuteFails(p) \/ Record(p) \/ Ready(p)

Next == \E p \in Processes : Run(p) \/ Crash(p)

Spec == Init /\ [][Next]_vars

\* The service manager starts the server again, and a process that has been
\* started runs; SQLite gives everyone who waits the lock in the end.
FairSpec ==
    /\ Spec
    /\ SF_vars(Run(Server))
    /\ \A p \in Scripts : SF_vars(phase[p] = "migrating" /\ Run(p))

-----------------------------------------------------------------------------
(* What a recorded version says is there is there, wherever processes crash *)
(* and however many open the database together, and one that has opened it  *)
(* finds the newest schema, with every meme once in the keyword index: only *)
(* a process that runs migration 4 when version 4 is recorded, or when      *)
(* another has come as far as migration 4, can leave the index otherwise.   *)
VersionIsBacked ==
    /\ \A v \in 1 .. version : ObjectsOf(v) \subseteq objects
    /\ (\E p \in Processes : phase[p] = "ready") =>
          version = SchemaVersion /\ (overlap \/ fts = [columns |-> "description", copies |-> 1])

(* Whatever release left the database, wherever crashes cut a migration     *)
(* short and whoever migrates beside, the server gets it open in the        *)
(* end: only an ALTER TABLE that ran without its version being committed,   *)
(* by a process that is gone, can stand in the way.                         *)
HalfApplied ==
    /\ version < SchemaVersion
    /\ \E k \in DOMAIN Script[version + 1] :
         LET s == Script[version + 1][k] IN s.op = "add" /\ s.what \in objects
    /\ \A p \in Processes : pending[p] = 0
    /\ ~ \E p \in Processes :
            phase[p] = "migrating" /\ script[p] = version + 1 /\ statement[p] > 0

Upgrades == phase[Server] = "stopped" ~> phase[Server] = "ready" \/ HalfApplied


-----------------------------------------------------------------------------
(* What the proof adds to the property to make it inductive.                *)
Migrating(p) == phase[p] = "migrating"

TypeOK ==
    /\ version \in 0 .. SchemaVersion
    /\ fts \in [columns : {"none", "base", "notes", "description"}, copies : Nat]
    /\ pending \in [Processes -> 0 .. SchemaVersion]
    /\ script \in [Processes -> 0 .. SchemaVersion + 1]
    /\ statement \in [Processes -> Nat]
    /\ phase \in [Processes -> {"stopped", "migrating", "ready", "gone"}]
    /\ overlap \in BOOLEAN

\* A process is at a statement of its script, and has its last version
\* committed or is about to: nobody else is between the two.
Progress ==
    \A p \in Processes :
        /\ Migrating(p) =>
              /\ script[p] \in 1 .. SchemaVersion + 1
              /\ script[p] <= SchemaVersion => statement[p] <= Len(Script[script[p]])
              /\ script[p] <= version + 1 \/ pending[p] + 1 = script[p]
        /\ pending[p] # 0 =>
              /\ Migrating(p) /\ pending[p] + 1 = script[p] /\ statement[p] = 0
              /\ pending[p] <= version + 1
              /\ \A q \in Processes : pending[q] # 0 => q = p

\* What a script has done up to its present statement is there.
Backed ==
    /\ \A v \in 1 .. version : ObjectsOf(v) \subseteq objects
    /\ \A p \in Processes : Migrating(p) =>
         /\ pending[p] # 0 => ObjectsOf(pending[p]) \subseteq objects
         /\ script[p] <= SchemaVersion =>
              \A k \in 1 .. statement[p] :
                  LET s == Script[script[p]][k] IN s.op \in {"ensure", "add"} => s.what \in objects

\* Its first statement succeeds once: migration 5 is run beyond it by one
\* process, and by none when it has been run to its end.
InLast(p) == Migrating(p) /\ script[p] = SchemaVersion /\ statement[p] > 0
LastDone == version = SchemaVersion \/ \E p \in Processes : pending[p] = SchemaVersion

LastRunsOnce ==
    \A p \in Processes : InLast(p) => ~LastDone /\ \A q \in Processes : InLast(q) => q = p

\* memes_fts as the one that rebuilds it for migration 5 has left it.
Rebuilt ==
    /\ \A p \in Processes : InLast(p) =>
         /\ version = 4
         /\ statement[p] = 3 /\ ~overlap => fts = [columns |-> "description", copies |-> 0]
         /\ statement[p] = 4 /\ ~overlap => fts = [columns |-> "description", copies |-> 1]
    /\ LastDone /\ ~overlap => fts = [columns |-> "description", copies |-> 1]
    /\ (\E p \in Processes : phase[p] = "ready") => version = SchemaVersion

(* The inductive invariant.                                                 *)
IInv == TypeOK /\ Progress /\ Backed /\ LastRunsOnce /\ Rebuilt

=============================================================================
