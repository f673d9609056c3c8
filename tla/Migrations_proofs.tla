------------------------- MODULE Migrations_proofs -------------------------
(***************************************************************************)
(* The version is backed and the keyword index rebuilt once, for any number *)
(* of scripts beside the server and any number of crashes.                  *)
(***************************************************************************)
EXTENDS Migrations, SequenceTheorems, TLAPS

(* The scripts, as far as the proof looks at them.                          *)
WellFormed(v) ==
    /\ Len(Script[v]) \in Nat \ {0} /\ DOMAIN Script[v] = 1 .. Len(Script[v])
    /\ \A k \in 1 .. Len(Script[v]) :
         /\ Script[v][k].op \in {"ensure", "add", "ensure_fts", "drop", "create", "fill"}
         /\ Script[v][k].op = "create" => Script[v][k].what \in {"notes", "description"}
         /\ Script[v][k].op \in {"drop", "create", "fill"} => v \in {4, 5}

LEMMA TheScripts ==
    /\ \A v \in 1 .. SchemaVersion : WellFormed(v)
    /\ Len(Script[5]) = 4
    /\ Script[5][1] = [op |-> "add", what |-> "description"]
    /\ Script[5][2] = [op |-> "drop", what |-> "memes_fts"]
    /\ Script[5][3] = [op |-> "create", what |-> "description"]
    /\ Script[5][4] = [op |-> "fill", what |-> "description"]
<1> DEFINE E(o) == [op |-> "ensure", what |-> o]
           A(o) == [op |-> "add", what |-> o]
           R(c) == << [op |-> "drop", what |-> "memes_fts"], [op |-> "create", what |-> c],
                      [op |-> "fill", what |-> c] >>
<1>1. Script[1] = << E("memes"), E("metadata"), E("embeddings_log"), E("jobs"), E("searches"),
                     [op |-> "ensure_fts", what |-> "base"] >>
  BY DEF Script, Ensure
<1>2. Script[2] = << A("animated") >>
  BY DEF Script, AddColumn
<1>3. Script[3] = << E("faces") >>
  BY DEF Script, Ensure
<1>4. Script[4] = << E("face_clusters") >> \o R("notes")
  BY DEF Script, Ensure, RebuildFts
<1>5. Script[5] = << A("description") >> \o R("description")
  BY DEF Script, AddColumn, RebuildFts
<1>6. \A s, c : LET t == << s >> \o R(c) IN
         /\ Len(t) = 4 /\ DOMAIN t = 1 .. 4 /\ t[1] = s
         /\ t[2] = [op |-> "drop", what |-> "memes_fts"]
         /\ t[3] = [op |-> "create", what |-> c] /\ t[4] = [op |-> "fill", what |-> c]
  OBVIOUS
<1>8. WellFormed(1) /\ WellFormed(2) /\ WellFormed(3)
  BY <1>1, <1>2, <1>3 DEF WellFormed
<1>9. WellFormed(4) /\ WellFormed(5)
  BY <1>4, <1>5, <1>6 DEF WellFormed
<1>10. QED
  BY <1>5, <1>6, <1>8, <1>9 DEF SchemaVersion

LEMMA StatementIs ==
    ASSUME TypeOK, Progress, NEW p \in Processes, CanRun(p)
    PROVE  /\ script[p] \in 1 .. SchemaVersion /\ script[p] <= version + 1
           /\ statement[p] + 1 \in 1 .. Len(Script[script[p]])
           /\ Statement(p).op \in {"ensure", "add", "ensure_fts", "drop", "create", "fill"}
           /\ Statement(p).op = "create" => Statement(p).what \in {"notes", "description"}
           /\ Statement(p).op \in {"drop", "create", "fill"} => script[p] \in {4, 5}
<1>1. /\ script[p] \in 1 .. SchemaVersion /\ script[p] <= version + 1
      /\ statement[p] \in Nat /\ statement[p] < Len(Script[script[p]])
  BY DEF TypeOK, Progress, CanRun, Unlocked, Migrating, SchemaVersion
<1>2. WellFormed(script[p])
  BY <1>1, TheScripts
<1>3. QED
  BY <1>1, <1>2 DEF WellFormed, Statement

LEMMA Start == Init => IInv
<1> SUFFICES ASSUME Init PROVE IInv
  OBVIOUS
<1>1. TypeOK
  <2>1. FtsOf(version) \in {"none", "base", "notes", "description"}
    BY DEF FtsOf
  <2>2. (IF version > 0 THEN 1 ELSE 0) \in Nat
    OBVIOUS
  <2>3. fts \in [columns : {"none", "base", "notes", "description"}, copies : Nat]
    BY <2>1, <2>2 DEF Init
  <2>4. /\ version \in 0 .. SchemaVersion /\ overlap \in BOOLEAN
        /\ pending \in [Processes -> 0 .. SchemaVersion]
        /\ script \in [Processes -> 0 .. SchemaVersion + 1]
        /\ statement \in [Processes -> Nat]
        /\ phase \in [Processes -> {"stopped", "migrating", "ready", "gone"}]
    <3>1. 0 \in 0 .. SchemaVersion /\ 0 \in 0 .. SchemaVersion + 1 /\ 0 \in Nat
      BY DEF SchemaVersion
    <3>2. QED
      BY <3>1 DEF Init
  <2>5. QED
    BY <2>3, <2>4 DEF TypeOK
<1>2. Progress /\ LastRunsOnce
  BY DEF Init, Progress, LastRunsOnce, InLast, Migrating
<1>3. Backed
  BY DEF Init, Backed, Migrating
<1>4. Rebuilt
  BY DEF Init, Rebuilt, InLast, LastDone, Migrating, FtsOf, SchemaVersion
<1>5. QED
  BY <1>1, <1>2, <1>3, <1>4 DEF IInv

LEMMA OpenKeeps ==
    ASSUME IInv, NEW p \in Processes, Open(p)
    PROVE  IInv'
<1> USE DEF Open, Migrating
<1>1. pending[p] = 0 /\ version \in 0 .. SchemaVersion
  BY DEF IInv, Progress, TypeOK
<1>2. TypeOK'
  BY DEF IInv, TypeOK, SchemaVersion
<1>3. Progress'
  <2>1. /\ phase'[p] = "migrating" /\ script'[p] = version + 1 /\ statement'[p] = 0
        /\ \A q \in Processes \ {p} : phase'[q] = phase[q] /\ script'[q] = script[q]
                                      /\ statement'[q] = statement[q]
    BY DEF IInv, TypeOK
  <2>2. script'[p] <= SchemaVersion => 0 <= Len(Script[script'[p]])
    BY <1>1, <2>1, TheScripts DEF WellFormed, SchemaVersion
  <2>3. QED
    BY <1>1, <2>1, <2>2 DEF IInv, Progress, SchemaVersion
<1>4. Backed'
  BY <1>1 DEF IInv, TypeOK, Backed
<1>5. \A q \in Processes : InLast(q)' => InLast(q) /\ statement'[q] = statement[q]
  BY DEF IInv, TypeOK, InLast
<1>6. LastDone' = LastDone
  BY DEF LastDone
<1>7. LastRunsOnce'
  BY <1>5, <1>6 DEF IInv, LastRunsOnce
<1>8. Rebuilt'
  BY <1>5, <1>6 DEF IInv, TypeOK, Rebuilt
<1>9. QED
  BY <1>2, <1>3, <1>4, <1>7, <1>8 DEF IInv

LEMMA CommitKeeps ==
    ASSUME IInv, NEW p \in Processes, Commit(p)
    PROVE  IInv'
<1> USE DEF Commit, Migrating
<1>1. /\ version \in 0 .. SchemaVersion /\ pending[p] \in 1 .. SchemaVersion
      /\ pending[p] + 1 = script[p] /\ statement[p] = 0
      /\ \A q \in Processes : pending'[q] = 0 /\ (q # p => pending[q] = 0)
  BY DEF IInv, Progress, TypeOK, SchemaVersion
<1>2. version' \in 0 .. SchemaVersion /\ version' >= version /\ version' >= pending[p]
      /\ (version' = version \/ version' = pending[p])
  BY <1>1 DEF SchemaVersion
<1>3. TypeOK'
  <2>1. pending' \in [Processes -> 0 .. SchemaVersion]
    BY DEF IInv, TypeOK, SchemaVersion
  <2>2. QED
    BY <1>2, <2>1 DEF IInv, TypeOK
<1>4. Progress'
  BY <1>1, <1>2 DEF IInv, Progress, TypeOK
<1>5. Backed'
  <2>1. \A v \in 1 .. version' : ObjectsOf(v) \subseteq objects
    <3> SUFFICES ASSUME NEW v \in 1 .. version' PROVE ObjectsOf(v) \subseteq objects
      OBVIOUS
    <3>1. v \in 1 .. version \/ v = pending[p]
      BY <1>1, <1>2 DEF IInv, Progress
    <3>2. QED
      BY <1>1, <3>1 DEF IInv, Backed
  <2>2. QED
    BY <2>1, <1>1 DEF IInv, Backed
<1>6. LastDone' => LastDone
  BY <1>1, <1>2 DEF LastDone, SchemaVersion
<1>7. \A q \in Processes : InLast(q)' = InLast(q)
  BY DEF InLast
<1>8. LastRunsOnce'
  BY <1>6, <1>7 DEF IInv, LastRunsOnce
<1>9. Rebuilt'
  <2>1. \A q \in Processes : InLast(q) => version' = 4
    BY <1>1, <1>2 DEF IInv, Rebuilt, LastRunsOnce, LastDone, SchemaVersion
  <2>2. version = SchemaVersion => version' = SchemaVersion
    BY <1>1, <1>2 DEF SchemaVersion
  <2>3. QED
    BY <1>6, <1>7, <2>1, <2>2 DEF IInv, Rebuilt
<1>10. QED
  BY <1>3, <1>4, <1>5, <1>8, <1>9 DEF IInv

LEMMA ExecuteKeeps ==
    ASSUME IInv, NEW p \in Processes, Execute(p)
    PROVE  IInv'
<1> DEFINE s == Statement(p)
<1> USE DEF Migrating
<1>1. CanRun(p) /\ Succeeds(s)
  BY DEF Execute
<1>2. /\ script[p] \in 1 .. SchemaVersion /\ script[p] <= version + 1
      /\ statement[p] + 1 \in 1 .. Len(Script[script[p]])
      /\ s.op \in {"ensure", "add", "ensure_fts", "drop", "create", "fill"}
      /\ s.op = "create" => s.what \in {"notes", "description"}
      /\ s.op \in {"drop", "create", "fill"} => script[p] \in {4, 5}
  BY <1>1, StatementIs DEF IInv
<1>3. /\ phase[p] = "migrating" /\ statement[p] \in Nat /\ version \in 0 .. SchemaVersion
      /\ \A q \in Processes : pending[q] = 0
      /\ \A q \in Processes : statement'[q] = IF q = p THEN statement[p] + 1 ELSE statement[q]
      /\ UNCHANGED <<version, pending, script, phase>>
      /\ objects \subseteq objects' /\ (s.op \in {"ensure", "add"} => s.what \in objects')
      /\ overlap' = (overlap \/ Behind(p))
  BY <1>1 DEF Execute, CanRun, Unlocked, IInv, TypeOK
<1>4. TypeOK'
  <2>1. fts' \in [columns : {"none", "base", "notes", "description"}, copies : Nat]
    BY <1>2 DEF Execute, IInv, TypeOK
  <2>2. statement' \in [Processes -> Nat] /\ overlap' \in BOOLEAN
    BY DEF Execute, IInv, TypeOK, Behind
  <2>3. QED
    BY <2>1, <2>2, <1>3 DEF IInv, TypeOK
<1>5. Progress'
  BY <1>2, <1>3 DEF IInv, Progress
<1>6. Backed'
  <2>1. ASSUME NEW q \in Processes, Migrating(q), script[q] <= SchemaVersion,
               NEW k \in 1 .. statement'[q], Script[script[q]][k].op \in {"ensure", "add"}
        PROVE  Script[script[q]][k].what \in objects'
    <3>1. CASE k \in 1 .. statement[q]
      BY <1>3, <2>1, <3>1 DEF IInv, Backed
    <3>2. CASE q = p /\ k = statement[p] + 1
      BY <1>3, <2>1, <3>2 DEF Statement
    <3>3. QED
      BY <1>3, <3>1, <3>2
  <2>2. QED
    BY <1>3, <2>1 DEF IInv, Backed
<1>7. \A q \in Processes : q # p => InLast(q)' = InLast(q) /\ statement'[q] = statement[q]
  BY <1>3 DEF InLast
<1>8. LastDone' = LastDone /\ (LastDone => version = SchemaVersion)
  BY <1>3 DEF LastDone, SchemaVersion
<1>9. (version = SchemaVersion \/ \E q \in Processes : InLast(q)) => "description" \in objects
  <2>1. "description" \in ObjectsOf(5)
    BY TheScripts DEF ObjectsOf, WellFormed, SchemaVersion
  <2>2. ASSUME version = SchemaVersion PROVE "description" \in objects
    BY <2>1, <2>2 DEF IInv, Backed, SchemaVersion
  <2>3. ASSUME NEW q \in Processes, InLast(q) PROVE "description" \in objects
    <3>1. 1 \in 1 .. statement[q] /\ script[q] = 5
      BY <2>3 DEF IInv, TypeOK, InLast, SchemaVersion
    <3>2. QED
      BY <2>3, <3>1, TheScripts DEF IInv, Backed, InLast, SchemaVersion
  <2>4. QED
    BY <2>2, <2>3
<1>10. ASSUME script[p] = 5
       PROVE  /\ statement[p] \in 0 .. 3 /\ InLast(p)' /\ s = Script[5][statement[p] + 1]
              /\ statement[p] = 0 => version # SchemaVersion /\ \A q \in Processes : ~InLast(q)
              /\ statement[p] > 0 => InLast(p)
              /\ version # SchemaVersion => version = 4
              /\ \A q \in Processes : q # p => ~InLast(q)
  <2>1. /\ statement[p] \in 0 .. 3 /\ InLast(p)' /\ s = Script[5][statement[p] + 1]
        /\ statement[p] > 0 => InLast(p)
    BY <1>2, <1>3, <1>10, TheScripts DEF InLast, Statement, SchemaVersion
  <2>2. version # SchemaVersion => version = 4
    BY <1>2, <1>3, <1>10 DEF SchemaVersion
  <2>3. ASSUME statement[p] = 0 PROVE "description" \notin objects
    BY <1>1, <2>1, <2>3, TheScripts DEF Succeeds
  <2>4. statement[p] = 0 => version # SchemaVersion /\ \A q \in Processes : ~InLast(q)
    BY <1>9, <2>3
  <2>5. statement[p] > 0 => \A q \in Processes : q # p => ~InLast(q)
    BY <2>1 DEF IInv, LastRunsOnce
  <2>6. QED
    BY <2>1, <2>2, <2>4, <2>5
<1>11. script[p] # 5 => InLast(p)' = InLast(p) /\ ~InLast(p)
  BY <1>3 DEF InLast, SchemaVersion
<1>12. LastRunsOnce'
  <2>1. CASE script[p] = 5
    BY <1>7, <1>8, <1>10, <2>1 DEF IInv, LastRunsOnce
  <2>2. CASE script[p] # 5
    BY <1>7, <1>8, <1>11, <2>2 DEF IInv, LastRunsOnce
  <2>3. QED
    BY <2>1, <2>2
<1>13. ~overlap' => ~overlap /\ ~Behind(p)
  BY <1>3
<1>14. Rebuilt'
  <2> DEFINE Good(n) == [columns |-> "description", copies |-> n]
  <2>1. CASE script[p] = 5
    <3>1. version = 4
      BY <1>10, <2>1 DEF IInv, LastRunsOnce, LastDone, SchemaVersion
    <3>2. statement'[p] = 3 /\ ~overlap' => fts' = Good(0)
      BY <1>3, <1>10, <2>1, TheScripts DEF Execute
    <3>3. statement'[p] = 4 /\ ~overlap' => fts' = Good(1)
      <4> SUFFICES ASSUME statement'[p] = 4, ~overlap' PROVE fts' = Good(1)
        OBVIOUS
      <4>1. statement[p] = 3 /\ ~overlap /\ fts = Good(0)
        BY <1>3, <1>10, <1>13, <2>1 DEF IInv, Rebuilt
      <4>2. fts' = [fts EXCEPT !.copies = @ + 1]
        BY <4>1, <1>10, <2>1, TheScripts DEF Execute
      <4>3. QED
        BY <4>1, <4>2
    <3>4. QED
      BY <1>3, <1>7, <1>8, <1>10, <2>1, <3>1, <3>2, <3>3 DEF IInv, Rebuilt, SchemaVersion
  <2>2. CASE script[p] # 5
    <3>1. ASSUME ~overlap', fts # fts'
          PROVE  fts.columns = "none" \/ (version < 4 /\ \A q \in Processes : ~InLast(q))
      <4>1. CASE s.op = "ensure_fts"
        BY <3>1, <4>1 DEF Execute
      <4>2. CASE s.op \in {"drop", "create", "fill"}
        BY <4>2, <1>2, <1>3, <1>13, <3>1, <2>2 DEF Behind, InLast, SchemaVersion
      <4>3. QED
        BY <1>2, <3>1, <4>1, <4>2 DEF Execute
    <3>2. ASSUME NEW n, fts = Good(n) PROVE fts.columns # "none"
      BY <3>2
    <3>3. QED
      BY <1>3, <1>7, <1>8, <1>11, <1>13, <2>2, <3>1, <3>2 DEF IInv, Rebuilt, SchemaVersion
  <2>3. QED
    BY <2>1, <2>2
<1>15. QED
  BY <1>4, <1>5, <1>6, <1>12, <1>14 DEF IInv

LEMMA RecordKeeps ==
    ASSUME IInv, NEW p \in Processes, Record(p)
    PROVE  IInv'
<1> USE DEF Record, Migrating
<1>1. /\ phase[p] = "migrating" /\ script[p] \in 1 .. SchemaVersion /\ script[p] <= version + 1
      /\ statement[p] = Len(Script[script[p]]) /\ version \in 0 .. SchemaVersion
      /\ \A q \in Processes : pending[q] = 0
  BY DEF IInv, Progress, TypeOK, Unlocked, SchemaVersion
<1>2. /\ UNCHANGED <<objects, fts, version, phase, overlap>>
      /\ \A q \in Processes : /\ pending'[q] = IF q = p THEN script[p] ELSE 0
                              /\ script'[q] = IF q = p THEN script[p] + 1 ELSE script[q]
                              /\ statement'[q] = IF q = p THEN 0 ELSE statement[q]
  BY <1>1 DEF IInv, TypeOK
<1>3. TypeOK'
  BY <1>1 DEF IInv, TypeOK, SchemaVersion
<1>4. Progress'
  <2>1. script[p] + 1 <= SchemaVersion => 0 <= Len(Script[script[p] + 1])
    BY <1>1, TheScripts DEF WellFormed, SchemaVersion
  <2>2. QED
    BY <1>1, <1>2, <2>1 DEF IInv, Progress, SchemaVersion
<1>5. Backed'
  <2>1. ObjectsOf(script[p]) \subseteq objects
    BY <1>1, TheScripts DEF IInv, Backed, ObjectsOf, WellFormed
  <2>2. QED
    BY <1>1, <1>2, <2>1 DEF IInv, Backed
<1>6. \A q \in Processes : InLast(q)' => q # p /\ InLast(q) /\ statement'[q] = statement[q]
  BY <1>2 DEF InLast
<1>7. LastDone' => LastDone \/ (script[p] = SchemaVersion /\ InLast(p))
  BY <1>1, <1>2, TheScripts DEF LastDone, InLast, SchemaVersion
<1>8. LastRunsOnce'
  BY <1>6, <1>7 DEF IInv, LastRunsOnce
<1>9. Rebuilt'
  <2>1. InLast(p) => statement[p] = 4
    BY <1>1, TheScripts DEF InLast, SchemaVersion
  <2>2. LastDone' /\ ~overlap' => fts' = [columns |-> "description", copies |-> 1]
    <3>1. CASE LastDone
      BY <1>2, <3>1 DEF IInv, Rebuilt
    <3>2. CASE InLast(p)
      <4>1. ~overlap => fts = [columns |-> "description", copies |-> 1]
        BY <2>1, <3>2 DEF IInv, Rebuilt
      <4>2. QED
        BY <4>1
    <3>3. QED
      BY <1>7, <3>1, <3>2
  <2>3. QED
    BY <1>2, <1>6, <2>2 DEF IInv, Rebuilt
<1>10. QED
  BY <1>3, <1>4, <1>5, <1>8, <1>9 DEF IInv

(* A process that ends, or has opened the database, leaves all as it is.    *)
LEMMA PhaseKeeps ==
    ASSUME IInv, NEW p \in Processes, NEW next \in {"stopped", "ready", "gone"},
           phase' = [phase EXCEPT ![p] = next],
           next = "ready" => version = SchemaVersion,
           pending' = [pending EXCEPT ![p] = 0],
           UNCHANGED <<objects, fts, version, script, statement, overlap>>
    PROVE  IInv'
<1> USE DEF Migrating
<1>1. \A q \in Processes : /\ phase'[q] = IF q = p THEN next ELSE phase[q]
                           /\ pending'[q] = IF q = p THEN 0 ELSE pending[q]
  BY DEF IInv, TypeOK
<1>2. TypeOK'
  BY DEF IInv, TypeOK, SchemaVersion
<1>3. Progress'
  BY <1>1 DEF IInv, Progress
<1>4. Backed'
  BY <1>1 DEF IInv, Backed
<1>5. \A q \in Processes : InLast(q)' => InLast(q)
  BY <1>1 DEF InLast
<1>6. LastDone' => LastDone
  BY <1>1 DEF LastDone, SchemaVersion
<1>7. LastRunsOnce'
  BY <1>5, <1>6 DEF IInv, LastRunsOnce
<1>8. Rebuilt'
  BY <1>1, <1>5, <1>6 DEF IInv, Rebuilt
<1>9. QED
  BY <1>2, <1>3, <1>4, <1>7, <1>8 DEF IInv

LEMMA EndKeeps ==
    ASSUME IInv, NEW p \in Processes, ExecuteFails(p) \/ Ready(p) \/ Crash(p)
    PROVE  IInv'
<1> USE DEF Migrating
<1>1. CASE ExecuteFails(p)
  <2>1. pending[p] = 0 /\ phase[p] = "migrating"
    BY <1>1 DEF ExecuteFails, CanRun, Unlocked
  <2>2. pending' = [pending EXCEPT ![p] = 0]
    BY <1>1, <2>1 DEF ExecuteFails, IInv, TypeOK
  <2>3. QED
    BY <1>1, <2>1, <2>2, PhaseKeeps DEF ExecuteFails, Ended
<1>2. CASE Ready(p)
  <2>1. version = SchemaVersion
    BY <1>2 DEF Ready, IInv, Progress, TypeOK, SchemaVersion
  <2>2. pending' = [pending EXCEPT ![p] = 0]
    BY <1>2 DEF Ready, IInv, TypeOK
  <2>3. QED
    BY <1>2, <2>1, <2>2, PhaseKeeps DEF Ready
<1>3. CASE Crash(p)
  BY <1>3, PhaseKeeps DEF Crash, Ended
<1>4. QED
  BY <1>1, <1>2, <1>3

LEMMA Step == IInv /\ [Next]_vars => IInv'
<1> SUFFICES ASSUME IInv, [Next]_vars PROVE IInv'
  OBVIOUS
<1>1. ASSUME NEW p \in Processes, Run(p) \/ Crash(p) PROVE IInv'
  BY <1>1, OpenKeeps, CommitKeeps, ExecuteKeeps, RecordKeeps, EndKeeps DEF Run
<1>2. CASE UNCHANGED vars
  BY <1>2 DEF vars, IInv, TypeOK, Progress, Backed, LastRunsOnce, Rebuilt, InLast, LastDone, Migrating
<1>3. QED
  BY <1>1, <1>2 DEF Next

(* The inductive invariant holds in every behaviour: whoever opens the      *)
(* database, wherever crashes cut the scripts of db/schema.py, a script has *)
(* done what comes before its present statement, and migration 5 goes       *)
(* beyond its ALTER TABLE once.                                             *)
THEOREM Invariance == Spec => []IInv
BY Start, Step, PTL DEF Spec

(* A version that schema_version records is there with all its tables and   *)
(* columns, and a process that has opened the database finds the newest,    *)
(* with every meme once in the keyword index unless migration 4 was run     *)
(* beside or after a process further on.                                    *)
THEOREM RecordedIsThere == Spec => []VersionIsBacked
<1>1. IInv => VersionIsBacked
  BY DEF IInv, Backed, Rebuilt, LastDone, VersionIsBacked
<1>2. QED
  BY Invariance, <1>1, PTL

=============================================================================
