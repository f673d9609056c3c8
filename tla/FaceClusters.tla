---------------------------- MODULE FaceClusters ----------------------------
(***************************************************************************)
(* Face clusters: the script scripts/face_cluster.py stores the faces of   *)
(* the memes and numbers the groups it finds; the endpoints of             *)
(* server/app.py name, describe and delete a group, and write actors and   *)
(* description lines of its memes one after the other; face_refs.json      *)
(* teaches the FACE job and the sweep scripts/face_tag.py what has been    *)
(* named.  All of them read, merge and write in separate transactions.     *)
(*                                                                         *)
(* What a face shows is known to the model only (PersonOf): clustering and *)
(* recognition put no two people together, and users name what their page  *)
(* of clusters shows them.  The page may be an old one, and a clustering   *)
(* may renumber everything under a request.  So a wrong tag can only come  *)
(* from how the pieces are put together.  The script is run once at a time.*)
(***************************************************************************)
EXTENDS Integers, Sequences, FiniteSets

CONSTANTS
    Memes, Faces, People, Threads,
    Worker,      \* the job worker
    Builder,     \* the script build_face_refs.py
    None,
    Empty,       \* face_refs.json opened for writing, nothing written yet
    Torn,        \* face_refs.json that is no JSON
    MemeOf, PersonOf,
    MaxRefs,     \* reference faces kept for a name (16)
    Taught,      \* faces of a cluster that are added to them (5)
    MaxDomain,   \* faces of tagged memes the script adds to a portrait (8)
    Budget,      \* bound: requests, jobs, clusterings and crashes, and
    BuildCost    \* how many of them the script counts for

ASSUME FacesAssumption == MemeOf \in [Faces -> Memes] /\ PersonOf \in [Faces -> People]
ASSUME FiniteAssumption == IsFiniteSet(Faces) /\ IsFiniteSet(People)
ASSUME NumbersAssumption == {MaxRefs, Taught, MaxDomain, Budget, BuildCost} \subseteq Nat /\ MaxDomain < MaxRefs

VARIABLES
    memes,       \* memes that exist
    rows,        \* faces with a row
    reading,     \* the faces a clustering has read, or None
    grouped,     \* the faces the last clustering has numbered
    cluster,     \* face -> number of its cluster, or None
    label,       \* face -> name given to it, or None
    record,      \* number -> [label, about] of face_clusters, or None
    actors,      \* meme -> names
    lines,       \* meme -> lines [cluster, name, about] of its description
    refs,        \* face_refs.json: name -> faces (None: not there), or Empty or Torn;
                 \* the portrait of a person is written as the person
    req,         \* what each thread, the worker and the script is doing
    stale,       \* memes changed since a RE_EMBED was last enqueued for them
    cut,         \* memes a crash left without the RE_EMBED of a change
    budget,
    shown,       \* history: number -> everybody it has ever stood for
    mixed        \* history: <<p, q>> when a request has given q's faces the name p

clustering == <<reading, grouped, cluster, shown>>
table == <<memes, rows, clustering, label, record>>
search == <<actors, lines, stale, cut>>
vars == <<table, search, refs, req, budget, mixed>>

Processes == Threads \cup {Worker, Builder}
Numbers == 1 .. Cardinality(People)
ASSUME DistinctAssumption == Faces \cap People = {} /\ None \notin Numbers
ASSUME ProcessesAssumption == Worker \notin Threads /\ Builder \notin Threads \cup {Worker}

NoRefs == [p \in People |-> None]
Idle == [op |-> "none", at |-> "idle", cluster |-> None, names |-> {}, line |-> None,
         todo |-> {}, meme |-> None, seen |-> {}, known |-> NoRefs]

FacesIn(c) == {f \in rows : cluster[f] = c}
Members(c) == {MemeOf[f] : f \in FacesIn(c)}
ShownBy(face) == IF face \in Faces THEN PersonOf[face] ELSE face
PeopleOf(m) == {PersonOf[f] : f \in {g \in Faces : MemeOf[g] = m}}

Init ==
    /\ memes = Memes /\ rows = {} /\ reading = None /\ grouped = {}
    /\ shown = [c \in Numbers |-> {}] /\ mixed = {}
    /\ cluster = [f \in Faces |-> None] /\ label = [f \in Faces |-> None]
    /\ record = [c \in Numbers |-> None]
    /\ actors = [m \in Memes |-> {}] /\ lines = [m \in Memes |-> {}]
    /\ refs = NoRefs
    /\ req = [t \in Processes |-> Idle]
    /\ stale = {} /\ cut = {} /\ budget = Budget

-----------------------------------------------------------------------------
(* scripts/face_cluster.py, a process of its own *)

ScanFace(f) ==
    /\ reading = None /\ f \notin rows /\ MemeOf[f] \in memes
    /\ rows' = rows \cup {f}
    /\ UNCHANGED <<memes, clustering, label, record, search, refs, req, budget, mixed>>

\* The same rows would give the same numbers again.
ReadFaces ==
    /\ reading = None /\ budget > 0 /\ Cardinality(rows) >= 2 /\ rows # grouped
    /\ reading' = rows
    /\ budget' = budget - 1
    /\ UNCHANGED <<memes, rows, grouped, cluster, shown, label, record, search, refs, req, mixed>>

\* The faces read are numbered by how many memes they are in, whatever requests
\* are under way; a face on its own is in no cluster.  Labels, records and
\* description lines keep the old numbers.  Ties fall as the rows lie.
WriteClusters ==
    /\ reading # None
    /\ LET found == {PersonOf[f] : f \in reading}
           Group(p) == {f \in reading : PersonOf[f] = p}
           Count(p) == Cardinality({MemeOf[f] : f \in Group(p)})
       IN  \E rank \in [found -> 1 .. Cardinality(found)] :
             /\ \A p, q \in found :
                  p # q => rank[p] # rank[q] /\ (Count(p) > Count(q) => rank[p] < rank[q])
             /\ cluster' = [f \in Faces |->
                    IF f \in rows /\ Cardinality(Group(PersonOf[f])) > 1
                    THEN rank[PersonOf[f]] ELSE None]
    /\ shown' = [c \in Numbers |->
                    shown[c] \cup {PersonOf[f] : f \in {g \in Faces : cluster'[g] = c}}]
    /\ grouped' = reading /\ reading' = None
    /\ UNCHANGED <<memes, rows, label, record, search, refs, req, budget, mixed>>

ClusteringKilled ==
    /\ reading # None /\ budget > 0
    /\ reading' = None
    /\ budget' = budget - 1
    /\ UNCHANGED <<memes, rows, grouped, cluster, shown, label, record, search, refs, req, mixed>>

-----------------------------------------------------------------------------
(* Requests *)

Begin(t, r) ==
    /\ req[t] = Idle /\ budget > 0
    /\ req' = [req EXCEPT ![t] = r]
    /\ budget' = budget - 1

Continue(t, r) == req' = [req EXCEPT ![t] = r] /\ UNCHANGED budget

Goto(t, place) == Continue(t, IF place = "idle" THEN Idle ELSE [req[t] EXCEPT !.at = place])

\* The faces of a number that a name is given to, and show somebody else.
MixUps(p, c) == {p} \X ({PersonOf[f] : f \in FacesIn(c)} \ {p})

\* label, describe and delete start from the memes the number has now; the user
\* names whom a page, of whatever age, has shown under the number.
ClusterRequest(t, op, c) ==
    /\ FacesIn(c) # {}
    /\ \/ /\ op = "delete" /\ UNCHANGED mixed
          /\ Begin(t, [Idle EXCEPT !.op = op, !.at = "memes", !.cluster = c, !.todo = Members(c)])
       \/ /\ op # "delete"
          /\ \E p \in shown[c] :
               /\ Begin(t, [Idle EXCEPT !.op = op, !.at = "record", !.cluster = c, !.names = {p},
                                       !.todo = Members(c)])
               /\ mixed' = mixed \cup MixUps(p, c)
    /\ UNCHANGED <<table, search, refs>>

\* Mutant: the meme gets the names its faces' clusters go by.
Matches_ClusterNames(m) ==
    SUBSET {record[cluster[f]].label : f \in {g \in rows :
                MemeOf[g] = m /\ cluster[g] # None /\ record[cluster[g]] # None
                /\ record[cluster[g]].label # None}}

\* Names the reference faces can give to the faces of a meme.
Matches(m) ==
    SUBSET {p \in People : refs[p] # None /\ \E k \in DOMAIN refs[p] :
                ShownBy(refs[p][k]) \in PeopleOf(m)}

\* A name without a face makes an array that cannot be normalized.
Loadable == refs \notin {Empty, Torn} /\ \A p \in People : refs[p] # <<>>

\* The FACE job and, through auto_tag, the sweep: both match the faces first.
\* References that cannot be loaded fail the job and end the sweep.
Recognize(t, m) ==
    /\ m \in memes /\ Loadable
    /\ \E names \in Matches(m) \ {{}} :
         Begin(t, [Idle EXCEPT !.op = IF t = Worker THEN "face" ELSE "auto_tag", !.at = "memes",
                               !.names = names, !.todo = {m}])
    /\ UNCHANGED <<table, search, refs, mixed>>

\* A user rewrites a meme's tags and description.
Edit(t, m) ==
    /\ m \in memes
    /\ Begin(t, [Idle EXCEPT !.op = "edit", !.at = "enqueue", !.meme = m])
    /\ \E names \in SUBSET PeopleOf(m) : actors' = [actors EXCEPT ![m] = names]
    /\ \E kept \in SUBSET lines[m] : lines' = [lines EXCEPT ![m] = kept]
    /\ stale' = stale \cup {m}
    /\ UNCHANGED <<table, refs, cut, mixed>>

LabelOf(c) == IF record[c] = None THEN None ELSE record[c].label
AboutOf(c) == IF record[c] = None THEN None ELSE record[c].about

NameCluster(t) ==
    LET r == req[t] IN
    /\ r.op = "label" /\ r.at = "record"
    /\ \E p \in r.names :
         /\ label' = [f \in Faces |-> IF f \in FacesIn(r.cluster) THEN p ELSE label[f]]
         /\ record' = [record EXCEPT ![r.cluster] = [label |-> p, about |-> AboutOf(r.cluster)]]
    /\ Goto(t, "memes")
    /\ UNCHANGED <<memes, rows, clustering, search, refs, mixed>>

DescribeCluster(t) ==
    LET r == req[t] IN
    /\ r.op = "describe" /\ r.at = "record"
    /\ \E p \in r.names :
         record' = [record EXCEPT ![r.cluster] = [label |-> LabelOf(r.cluster), about |-> p]]
    /\ Goto(t, "line")
    /\ UNCHANGED <<memes, rows, clustering, label, search, refs, mixed>>

\* The line is headed by the name the number has in face_clusters.
ComposeLine(t) ==
    LET r == req[t] IN
    /\ r.at = "line"
    /\ \E p \in r.names :
         Continue(t, [r EXCEPT !.at = "memes",
             !.line = [cluster |-> r.cluster, name |-> LabelOf(r.cluster), about |-> p]])
    /\ UNCHANGED <<table, search, refs, mixed>>

\* Memes that are gone, and tags that are there, need no write.  The FACE job
\* writes in any case.
ReadMeme(t, m) ==
    LET r == [req[t] EXCEPT !.todo = @ \ {m}] IN
    /\ r.at = "memes" /\ r.op # "delete" /\ m \in req[t].todo
    /\ Continue(t, IF m \notin memes \/ (r.op \in {"label", "auto_tag"} /\ r.names \subseteq actors[m])
                   THEN r
                   ELSE [r EXCEPT !.at = "write", !.meme = m,
                                  !.seen = IF r.op = "describe" THEN lines[m] ELSE actors[m]])
    /\ UNCHANGED <<table, search, refs, mixed>>

\* EMBED follows FACE in the pipeline; a request enqueues a RE_EMBED itself.
WriteTags(t) ==
    LET r == req[t] IN
    /\ r.at = "write" /\ r.op # "describe"
    /\ actors' = [m \in Memes |-> IF m = r.meme /\ m \in memes THEN r.seen \cup r.names ELSE actors[m]]
    /\ stale' = IF r.op = "face" THEN stale ELSE stale \cup ({r.meme} \cap memes)
    /\ Goto(t, IF r.op = "face" THEN "idle" ELSE "enqueue")
    /\ UNCHANGED <<table, lines, cut, refs, mixed>>

\* Mutant: the line is added without removing the cluster's old one.
WriteLine_KeepsOld(t) ==
    LET r == req[t] IN
    /\ r.at = "write" /\ r.op = "describe"
    /\ lines' = [m \in Memes |-> IF m = r.meme /\ m \in memes THEN r.seen \cup {r.line} ELSE lines[m]]
    /\ stale' = stale \cup ({r.meme} \cap memes)
    /\ Goto(t, "enqueue")
    /\ UNCHANGED <<table, actors, cut, refs, mixed>>

\* Mutant: the marker of any cluster matches.
WriteLine_DropsOthers(t) ==
    LET r == req[t] IN
    /\ r.at = "write" /\ r.op = "describe"
    /\ lines' = [m \in Memes |-> IF m = r.meme /\ m \in memes THEN {r.line} ELSE lines[m]]
    /\ stale' = stale \cup ({r.meme} \cap memes)
    /\ Goto(t, "enqueue")
    /\ UNCHANGED <<table, actors, cut, refs, mixed>>

WriteLine(t) ==
    LET r == req[t] IN
    /\ r.at = "write" /\ r.op = "describe"
    /\ lines' = [m \in Memes |-> IF m = r.meme /\ m \in memes
                     THEN {l \in r.seen : l.cluster # r.cluster} \cup {r.line} ELSE lines[m]]
    /\ stale' = stale \cup ({r.meme} \cap memes)
    /\ Goto(t, "enqueue")
    /\ UNCHANGED <<table, actors, cut, refs, mixed>>

\* Mutant: one RE_EMBED for the whole request, at its end.
Reembed_LastOnly(t) ==
    LET r == req[t] IN
    /\ r.at = "enqueue"
    /\ IF r.meme \in memes /\ r.todo = {}
       THEN stale' = stale \ {r.meme} /\ cut' = cut \ {r.meme}
       ELSE UNCHANGED <<stale, cut>>
    /\ Goto(t, "memes")
    /\ UNCHANGED <<table, actors, lines, refs, mixed>>

\* The job of a meme that is gone is refused, which ends the request.
Reembed(t) ==
    LET r == req[t] IN
    /\ r.at = "enqueue"
    /\ stale' = stale \ {r.meme} /\ cut' = cut \ {r.meme}
    /\ Goto(t, IF r.meme \in memes THEN "memes" ELSE "idle")
    /\ UNCHANGED <<table, actors, lines, refs, mixed>>

\* Mutant: the rows of the faces stay.
DeleteMeme_KeepsFaces(t, m) ==
    /\ req[t].op = "delete" /\ m \in req[t].todo
    /\ memes' = memes \ {m}
    /\ actors' = [actors EXCEPT ![m] = {}] /\ lines' = [lines EXCEPT ![m] = {}]
    /\ stale' = stale \ {m} /\ cut' = cut \ {m}
    /\ Continue(t, [req[t] EXCEPT !.todo = @ \ {m}])
    /\ UNCHANGED <<rows, clustering, label, record, refs, mixed>>

\* faces and metadata go with the row of the meme.
DeleteMeme(t, m) ==
    /\ req[t].op = "delete" /\ m \in req[t].todo
    /\ LET gone == {f \in Faces : MemeOf[f] = m}
           Without(g) == [f \in Faces |-> IF f \in gone THEN None ELSE g[f]]
       IN  /\ rows' = rows \ gone
           /\ cluster' = Without(cluster) /\ label' = Without(label)
    /\ memes' = memes \ {m}
    /\ actors' = [actors EXCEPT ![m] = {}] /\ lines' = [lines EXCEPT ![m] = {}]
    /\ stale' = stale \ {m} /\ cut' = cut \ {m}
    /\ Continue(t, [req[t] EXCEPT !.todo = @ \ {m}])
    /\ UNCHANGED <<reading, grouped, shown, record, refs, mixed>>

EndLoop(t) ==
    LET r == req[t] IN
    /\ r.at = "memes" /\ r.todo = {}
    /\ record' = IF r.op = "delete" THEN [record EXCEPT ![r.cluster] = None] ELSE record
    /\ Goto(t, IF r.op = "label" THEN "refs" ELSE "idle")
    /\ UNCHANGED <<memes, rows, clustering, label, search, refs, mixed>>

-----------------------------------------------------------------------------
(* label teaches the recognizer: face_refs.json is read, opened and written *)

\* The query names no order; the same rows come in the same one.
Listing(faces) ==
    CHOOSE s \in [1 .. Cardinality(faces) -> faces] : \A f \in faces : \E k \in DOMAIN s : s[k] = f

FirstOf(s, n) == SubSeq(s, 1, IF Len(s) < n THEN Len(s) ELSE n)
Known(p) == IF refs[p] = None THEN <<>> ELSE refs[p]
Shown(c) == FirstOf(Listing(FacesIn(c)), Taught)

\* Mutant: the references of a name are not cut to MaxRefs.
ReadRefs_Unbounded(t) ==
    LET r == req[t] IN
    /\ r.at = "refs" /\ refs \notin {Empty, Torn}
    /\ \E p \in r.names :
         /\ Continue(t, [r EXCEPT !.at = "open",
             !.known = [refs EXCEPT ![p] = Known(p) \o Shown(r.cluster)]])
         /\ mixed' = mixed \cup MixUps(p, r.cluster)
    /\ UNCHANGED <<table, search, refs>>

ReadRefs(t) ==
    LET r == req[t] IN
    /\ r.at = "refs" /\ refs \notin {Empty, Torn}
    /\ \E p \in r.names :
         /\ Continue(t, [r EXCEPT !.at = "open",
             !.known = [refs EXCEPT ![p] = FirstOf(Known(p) \o Shown(r.cluster), MaxRefs)]])
         /\ mixed' = mixed \cup MixUps(p, r.cluster)
    /\ UNCHANGED <<table, search, refs>>

\* The error is logged and the request is answered.
RefsUnreadable(t) ==
    /\ req[t].at = "refs" /\ refs \in {Empty, Torn}
    /\ Goto(t, "idle")
    /\ UNCHANGED <<table, search, refs, mixed>>

OpenRefs(t) ==
    /\ req[t].at = "open"
    /\ refs' = Empty
    /\ Goto(t, "save")
    /\ UNCHANGED <<table, search, mixed>>

\* Written over what another request has written since, a shorter text leaves
\* the end of the longer one.
SaveRefs(t) ==
    /\ req[t].at = "save"
    /\ \/ refs' = req[t].known
       \/ refs \notin {Empty, req[t].known} /\ refs' = Torn
    /\ Goto(t, "idle")
    /\ UNCHANGED <<table, search, mixed>>

-----------------------------------------------------------------------------
(* scripts/build_face_refs.py, a process of its own: for every name it has  *)
(* a portrait and adopts faces like it from the memes tagged with the name; *)
(* with --only-missing it keeps the names the file has when it starts.      *)

BuildRefs(onlyMissing) ==
    /\ onlyMissing => refs \notin {Empty, Torn}
    /\ req[Builder] = Idle /\ budget >= BuildCost /\ budget' = budget - BuildCost
    /\ req' = [req EXCEPT ![Builder] = [Idle EXCEPT !.op = "build", !.at = "look",
           !.names = IF onlyMissing THEN {p \in People : refs[p] = None} ELSE People,
           !.known = IF onlyMissing THEN refs ELSE NoRefs]]
    /\ UNCHANGED <<table, search, refs, mixed>>

\* Mutant: the memes tagged with the name are taken without comparing faces.
LookUp_TrustsTags(p) ==
    LET r == req[Builder] IN
    /\ r.at = "look" /\ p \in r.names
    /\ \E like \in SUBSET {f \in Faces : MemeOf[f] \in memes /\ p \in actors[MemeOf[f]]} :
         /\ Cardinality(like) <= MaxDomain
         /\ Continue(Builder, [r EXCEPT !.names = @ \ {p}, !.known[p] = <<p>> \o Listing(like)])
    /\ UNCHANGED <<table, search, refs, mixed>>

\* Without a portrait, or a face in it, the name is left out.
LookUp(p) ==
    LET r == req[Builder]
        Alike == {f \in Faces : PersonOf[f] = p /\ MemeOf[f] \in memes /\ p \in actors[MemeOf[f]]}
    IN
    /\ r.at = "look" /\ p \in r.names
    /\ \/ Continue(Builder, [r EXCEPT !.names = @ \ {p}])
       \/ \E like \in SUBSET Alike :
            /\ Cardinality(like) <= MaxDomain
            /\ Continue(Builder, [r EXCEPT !.names = @ \ {p}, !.known[p] = <<p>> \o Listing(like)])
    /\ UNCHANGED <<table, search, refs, mixed>>

EndLookUps ==
    /\ req[Builder].at = "look" /\ req[Builder].names = {}
    /\ Goto(Builder, "open")
    /\ UNCHANGED <<table, search, refs, mixed>>

-----------------------------------------------------------------------------
Crash ==
    /\ budget > 0
    /\ budget' = budget - 1
    /\ req' = [t \in Processes |-> IF t = Builder THEN req[t] ELSE Idle]
    /\ cut' = cut \cup (stale \cap {req[t].meme : t \in {u \in Processes : req[u].at = "enqueue"}})
    /\ UNCHANGED <<table, actors, lines, stale, refs, mixed>>

BuildKilled ==
    /\ budget > 0 /\ req[Builder] # Idle
    /\ budget' = budget - 1
    /\ req' = [req EXCEPT ![Builder] = Idle]
    /\ UNCHANGED <<table, search, refs, mixed>>

Next ==
    \/ \E f \in Faces : ScanFace(f)
    \/ ReadFaces \/ WriteClusters \/ ClusteringKilled
    \/ \E t \in Threads, c \in Numbers, op \in {"label", "describe", "delete"} :
         ClusterRequest(t, op, c)
    \/ \E t \in Threads \cup {Worker}, m \in Memes : Recognize(t, m)
    \/ \E t \in Threads, m \in Memes : Edit(t, m)
    \/ \E t \in Processes :
         \/ NameCluster(t) \/ DescribeCluster(t) \/ ComposeLine(t)
         \/ \E m \in Memes : ReadMeme(t, m) \/ DeleteMeme(t, m)
         \/ WriteTags(t) \/ WriteLine(t) \/ Reembed(t) \/ EndLoop(t)
         \/ ReadRefs(t) \/ RefsUnreadable(t) \/ OpenRefs(t) \/ SaveRefs(t)
    \/ \E onlyMissing \in BOOLEAN : BuildRefs(onlyMissing)
    \/ (\E p \in People : LookUp(p)) \/ EndLookUps \/ BuildKilled
    \/ Crash

Spec == Init /\ [][Next]_vars

-----------------------------------------------------------------------------
Line == [cluster : Numbers, name : People \cup {None}, about : People]
References == [People -> Seq(Faces \cup People) \cup {None}]
Request ==
    [op : {"none", "label", "describe", "delete", "face", "auto_tag", "edit", "build"},
     at : {"idle", "record", "line", "memes", "write", "enqueue", "refs", "open", "save", "look"},
     cluster : Numbers \cup {None}, names : SUBSET People, line : Line \cup {None},
     todo : SUBSET Memes, meme : Memes \cup {None},
     seen : SUBSET (People \cup Line), known : References]

(* Types; a meme that is gone has nothing left.                             *)
TypeOK ==
    /\ memes \subseteq Memes
    /\ rows \subseteq {f \in Faces : MemeOf[f] \in memes} /\ grouped \subseteq Faces
    /\ reading # None => rows \subseteq reading /\ reading \subseteq Faces
    /\ shown \in [Numbers -> SUBSET People] /\ mixed \subseteq People \X People
    /\ cluster \in [Faces -> Numbers \cup {None}] /\ label \in [Faces -> People \cup {None}]
    /\ record \in [Numbers -> [label : People \cup {None}, about : People \cup {None}] \cup {None}]
    /\ actors \in [Memes -> SUBSET People] /\ lines \in [Memes -> SUBSET Line]
    /\ refs \in {Empty, Torn} \/ refs \in References
    /\ req \in [Processes -> Request]
    /\ stale \subseteq memes /\ cut \subseteq stale
    /\ \A m \in Memes \ memes : actors[m] = {} /\ lines[m] = {}

\* A name stands for its person, and for whom it has been given to by mistake.
StandsFor(p, q) == p = q \/ <<p, q>> \in mixed

NamesFor(m) == {p \in People : \E q \in PeopleOf(m) : StandsFor(p, q)}

MixUpsAreOfNumbers ==
    \A mistake \in mixed : \E c \in Numbers :
        mistake[1] # mistake[2] /\ {mistake[1], mistake[2]} \subseteq shown[c]

(* A meme is tagged with nobody who is not in it, however labels, jobs,     *)
(* sweeps, edits, deletions and clusterings come together, but for one      *)
(* mistake: a request gives the faces of a number a name while a clustering *)
(* has turned the number from the person so named to another, after the     *)
(* user's page was loaded or even after the request began                   *)
(* (label_face_cluster takes a bare number and reads it twice).  The name   *)
(* then goes with that other person's face, and with no third one's.        *)
TagsAreTrue ==
    MixUpsAreOfNumbers /\ \A m \in Memes : actors[m] \subseteq NamesFor(m)

TrueRefs(known) ==
    \A p \in People : known[p] # None =>
        /\ Len(known[p]) <= MaxRefs
        /\ \A k \in DOMAIN known[p] : StandsFor(p, ShownBy(known[p][k]))

(* face_refs.json, when it can be read, has under a name no one else's      *)
(* faces but those that were given it by that mistake, and no more than the *)
(* matching is meant to compare with.                                       *)
RefsAreTrue == refs \notin {Empty, Torn} => TrueRefs(refs)

OneTrueLine(m, ls) ==
    \A l \in ls :
        /\ l.about \in NamesFor(m)
        /\ l.name \in {None, l.about} \/ {l.name, l.about} \subseteq shown[l.cluster]
        /\ \A k \in ls : k.cluster = l.cluster => k = l

(* Describing is idempotent whatever it races with: a description has one   *)
(* line for a number at most, about people in the meme or mistaken for      *)
(* them.  It is headed by their name, unless a clustering has turned the    *)
(* number from one person to another: the name in face_clusters stays.      *)
OneTrueLineEach == \A m \in Memes : OneTrueLine(m, lines[m])

EditOf(m) == \E t \in Threads : req[t] = Idle /\ req'[t].op = "edit" /\ req'[t].meme = m

DescriptionOf(m, t) == req[t].at = "write" /\ req[t].op = "describe" /\ req[t].meme = m

(* "Re-describing replaces this cluster's line, leaving other clusters'     *)
(* lines intact": a line of a meme that stays is lost to an edit, or to a   *)
(* description of its own number, or else the description was composed from *)
(* a text read before the line was there (describe_face_cluster reads the   *)
(* text and writes it back in two transactions).                            *)
LinesStay ==
    [][\A m \in memes : \A l \in lines[m] \ lines'[m] :
          \/ m \notin memes' \/ EditOf(m)
          \/ \E t \in Threads : DescriptionOf(m, t)
                 /\ (l.cluster = req[t].cluster \/ l \notin req[t].seen)]_vars

(* USAGE.md says that a description is "tagged `[face #N] Name: text`": a   *)
(* text about somebody in the meme is headed by a name in the meme.  But a  *)
(* clustering may give the number to another person, and the name of the    *)
(* first stays in face_clusters.                                            *)
HeadingsAreTrue ==
    \A m \in Memes : \A l \in lines[m] :
        l.about \in PeopleOf(m) => l.name \in {None} \cup PeopleOf(m)

(* Semantic search hears of every change: a changed meme has a RE_EMBED to  *)
(* come from a request that is still running, or a crash has cut it short.  *)
ReembedFollows ==
    \A m \in stale : m \in cut \/ \E t \in Threads : req[t].at = "enqueue" /\ req[t].meme = m

-----------------------------------------------------------------------------
(* What the proofs add to the properties above to make them inductive.      *)

\* A number stands for people it has been known to stand for, its record names
\* such people, and faces without a row have no number.
NumbersFit ==
    /\ \A f \in Faces : cluster[f] # None => f \in rows /\ PersonOf[f] \in shown[cluster[f]]
    /\ \A c \in Numbers : record[c] # None =>
           {record[c].label, record[c].about} \subseteq {None} \cup shown[c]

OpsOf(t) ==
    IF t = Worker THEN {"none", "face"} ELSE IF t = Builder THEN {"none", "build"}
    ELSE {"none", "label", "describe", "delete", "auto_tag", "edit"}

PlacesOf(op) ==
    CASE op = "none"     -> {"idle"}
      [] op = "label"    -> {"record", "memes", "write", "enqueue", "refs", "open", "save"}
      [] op = "describe" -> {"record", "line", "memes", "write", "enqueue"}
      [] op = "delete"   -> {"memes"}
      [] op = "face"     -> {"memes", "write"}
      [] op = "auto_tag" -> {"memes", "write", "enqueue"}
      [] op = "edit"     -> {"memes", "enqueue"}
      [] op = "build"    -> {"look", "open", "save"}

\* What a request carries fits the memes it is still to write.
NamesFit(r) ==
    /\ r.op = "edit" => r.todo = {}
    /\ r.op \in {"label", "describe", "face", "auto_tag"} =>
           /\ \A m \in r.todo : r.names \subseteq NamesFor(m)
           /\ r.at = "write" => r.meme \in Memes /\ r.names \subseteq NamesFor(r.meme)

TagsFit(r) == r.at = "write" /\ r.op # "describe" => r.seen \subseteq NamesFor(r.meme)

LinesFit(r) ==
    /\ r.op = "describe" /\ r.at \in {"memes", "write", "enqueue"} =>
           r.line \in [cluster : {r.cluster}, name : {None} \cup shown[r.cluster], about : r.names]
    /\ r.op = "describe" /\ r.at = "write" =>
           r.seen \subseteq Line /\ OneTrueLine(r.meme, r.seen)

\* The number a request is about has shown whom the user has named.
ClusterFits(r) ==
    r.op \in {"label", "describe"} => r.cluster \in Numbers /\ r.names \subseteq shown[r.cluster]

RefsFit(r) == r.at \in {"look", "open", "save"} => TrueRefs(r.known)

Fits(t, r) ==
    /\ r.op \in OpsOf(t) /\ r.at \in PlacesOf(r.op)
    /\ NamesFit(r) /\ TagsFit(r) /\ LinesFit(r) /\ ClusterFits(r) /\ RefsFit(r)

(* The inductive invariant: the properties and what ties them together.     *)
IInv ==
    /\ TypeOK /\ TagsAreTrue /\ RefsAreTrue /\ OneTrueLineEach /\ ReembedFollows
    /\ NumbersFit
    /\ \A t \in Processes : Fits(t, req[t])

=============================================================================
