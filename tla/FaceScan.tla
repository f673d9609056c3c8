------------------------------ MODULE FaceScan ------------------------------
(***************************************************************************)
(* Extraction, the first step of scripts/face_cluster.py: a process that   *)
(* inserts the faces of every meme it has not scanned before and saves a   *)
(* crop of each, while the server uploads memes and deletes them in        *)
(* batches (_delete_memes in server/app.py).  What has been scanned is     *)
(* written to face_scan.json every 100 memes and at the end, over the old  *)
(* text; the process may be killed anywhere and run again, and a deletion  *)
(* may be cut short by an exception or a crash of the server.              *)
(***************************************************************************)
EXTENDS Integers, FiniteSets

CONSTANTS
    Memes, Faces, None,
    FacesOf,    \* the faces an image shows
    Batch,      \* memes between two writes of the state (100)
    Budget      \* bound: crashes, failures, uploads and deletions

ASSUME MemesAssumption == IsFiniteSet(Memes) /\ None \notin Memes
ASSUME FacesOfAssumption == FacesOf \in [Memes -> SUBSET Faces]
ASSUME BatchAssumption == Batch \in Nat \ {0} /\ Budget \in Nat

VARIABLES
    memes,      \* memes with a row
    images,     \* memes with an image file
    rows,       \* the table faces: [id, meme, face]
    nextId,     \* AUTOINCREMENT: ids are not used again
    crops,      \* ids with a crop
    saved,      \* face_scan.json: not whole between its opening and its writing
    scan,       \* the process
    deletion,   \* the request that deletes memes; one at a time is modelled
    crashes,
    missed,     \* history: memes with an image that could not be read, with a face
                \* that could not be stored, or that were deleted
    late,       \* history: faces inserted after a deletion listed those of the meme,
                \* and crops saved after their face was deleted
    abandoned,  \* history: crops whose deletion was cut short after their face was gone
    budget

vars == <<memes, images, rows, nextId, crops, saved, scan, deletion, crashes, missed, late,
          abandoned, budget>>
server == <<memes, images, deletion, abandoned>>
history == <<crashes, missed, late>>

NoScan == [at |-> "idle", todo |-> {}, scanned |-> {}, unsaved |-> 0,
           meme |-> None, left |-> {}, id |-> 0]
Holding(ms) == [whole |-> TRUE, memes |-> ms]
Torn == [whole |-> FALSE, memes |-> {}]

NoDeletion == [at |-> "idle", todo |-> {}, meme |-> None, crops |-> {}]

Init ==
    /\ memes \in SUBSET Memes /\ images = memes
    /\ rows = {} /\ nextId = 1 /\ crops = {}
    /\ saved = Holding({}) /\ scan = NoScan /\ deletion = NoDeletion
    /\ crashes = 0 /\ missed = {} /\ late = {} /\ abandoned = {}
    /\ budget = Budget

Spend == budget > 0 /\ budget' = budget - 1

\* What fails by itself spends the budget; what must fail does not.
FailsUnless(works) == IF works THEN Spend ELSE UNCHANGED budget

-----------------------------------------------------------------------------
(* extract *)

\* Memes on the list of a deletion whose row is still there.
ToDelete == deletion.todo \cup {deletion.meme}

\* A file that is no JSON ends the run before it starts.
StartScan ==
    /\ scan.at = "idle" /\ saved.whole
    /\ scan' = [NoScan EXCEPT !.at = "next", !.scanned = saved.memes,
                            !.todo = memes \ saved.memes]
    /\ UNCHANGED <<server, rows, nextId, crops, saved, history, budget>>

\* An image that is gone or cannot be read has no faces, and is done.
Detect(m) ==
    /\ scan.at = "next" /\ m \in scan.todo
    /\ \/ /\ m \in images
          /\ scan' = [scan EXCEPT !.at = "faces", !.todo = @ \ {m}, !.meme = m, !.left = FacesOf[m]]
          /\ UNCHANGED <<missed, budget>>
       \/ /\ FailsUnless(m \in images)
          /\ scan' = [scan EXCEPT !.at = "mark", !.todo = @ \ {m}, !.meme = m]
          /\ missed' = missed \cup {m}
    /\ UNCHANGED <<server, rows, nextId, crops, saved, crashes, late>>

InsertFace(f) ==
    /\ scan.at = "faces" /\ f \in scan.left /\ scan.meme \in memes
    /\ rows' = rows \cup {[id |-> nextId, meme |-> scan.meme, face |-> f]}
    /\ nextId' = nextId + 1
    /\ scan' = [scan EXCEPT !.at = "crop", !.left = @ \ {f}, !.id = nextId]
    /\ late' = IF scan.meme \in ToDelete THEN late \cup {nextId} ELSE late
    /\ UNCHANGED <<server, crops, saved, crashes, missed, budget>>

\* The foreign key refuses a face of a meme that is gone, and a database
\* that stays locked any face: the rest of the meme is left out.
InsertFails ==
    /\ scan.at = "faces" /\ scan.left # {} /\ FailsUnless(scan.meme \in memes)
    /\ missed' = missed \cup {scan.meme}
    /\ scan' = [scan EXCEPT !.at = "mark", !.left = {}]
    /\ UNCHANGED <<server, rows, nextId, crops, saved, crashes, late>>

\* An OSError is passed over: the face has no crop.
OpenImage ==
    /\ scan.at = "crop"
    /\ \/ /\ scan.meme \in images
          /\ scan' = [scan EXCEPT !.at = "save"]
          /\ UNCHANGED budget
       \/ /\ FailsUnless(scan.meme \in images)
          /\ scan' = [scan EXCEPT !.at = "faces", !.id = 0]
    /\ UNCHANGED <<server, rows, nextId, crops, saved, history>>

SaveCrop ==
    /\ scan.at = "save"
    /\ \/ /\ crops' = crops \cup {scan.id}
          /\ late' = IF \E r \in rows : r.id = scan.id THEN late ELSE late \cup {scan.id}
          /\ UNCHANGED budget
       \/ Spend /\ UNCHANGED <<crops, late>>
    /\ scan' = [scan EXCEPT !.at = "faces", !.id = 0]
    /\ UNCHANGED <<server, rows, nextId, saved, crashes, missed>>

\* Mutant: the state is not written between the first meme and the last.
Mark_WritesAtEnd ==
    /\ \/ scan.at = "mark"
       \/ scan.at = "faces" /\ scan.left = {}
    /\ scan' = [scan EXCEPT !.at = IF scan.todo = {} THEN "open" ELSE "next",
                            !.scanned = @ \cup {scan.meme}, !.unsaved = 0, !.meme = None]
    /\ UNCHANGED <<server, rows, nextId, crops, saved, history, budget>>

Mark ==
    /\ \/ scan.at = "mark"
       \/ scan.at = "faces" /\ scan.left = {}
    /\ LET full == scan.unsaved + 1 = Batch
       IN  scan' = [scan EXCEPT !.at = IF full THEN "open" ELSE "next",
                                !.scanned = @ \cup {scan.meme}, !.meme = None,
                                !.unsaved = IF full THEN 0 ELSE @ + 1]
    /\ UNCHANGED <<server, rows, nextId, crops, saved, history, budget>>

\* The last write, whatever has been written before.
Finish ==
    /\ scan.at = "next" /\ scan.todo = {}
    /\ scan' = [scan EXCEPT !.at = "last"]
    /\ UNCHANGED <<server, rows, nextId, crops, saved, history, budget>>

OpenState ==
    /\ scan.at \in {"open", "last"}
    /\ saved' = Torn
    /\ scan' = [scan EXCEPT !.at = IF @ = "open" THEN "write" ELSE "write last"]
    /\ UNCHANGED <<server, rows, nextId, crops, history, budget>>

\* Mutant: the memes taken up are written, not those done.
WriteState_TakenUp ==
    /\ scan.at \in {"write", "write last"}
    /\ saved' = Holding(scan.scanned \cup scan.todo)
    /\ scan' = IF scan.at = "write" THEN [scan EXCEPT !.at = "next"] ELSE NoScan
    /\ UNCHANGED <<server, rows, nextId, crops, history, budget>>

WriteState ==
    /\ scan.at \in {"write", "write last"}
    /\ saved' = Holding(scan.scanned)
    /\ scan' = IF scan.at = "write" THEN [scan EXCEPT !.at = "next"] ELSE NoScan
    /\ UNCHANGED <<server, rows, nextId, crops, history, budget>>

Killed ==
    /\ scan.at # "idle" /\ Spend
    /\ scan' = NoScan
    /\ crashes' = crashes + 1
    /\ UNCHANGED <<server, rows, nextId, crops, saved, missed, late>>

-----------------------------------------------------------------------------
(* The server meanwhile *)

\* A deleted meme that is uploaded again has its old id.
Upload(m) ==
    /\ m \notin memes /\ Spend
    /\ memes' = memes \cup {m} /\ images' = images \cup {m}
    /\ UNCHANGED <<rows, nextId, crops, saved, scan, deletion, abandoned, history>>

CropsOf(ms) == {r.id : r \in {q \in rows : q.meme \in ms}}

\* Mutant: the crops are listed after the rows are gone, and none is found.
ListCrops_Late(ms) ==
    /\ deletion.at = "idle" /\ ms \subseteq memes /\ ms # {} /\ Spend
    /\ deletion' = [at |-> "memes", todo |-> ms, meme |-> None, crops |-> {}]
    /\ UNCHANGED <<memes, images, rows, nextId, crops, saved, scan, abandoned, history>>

\* One query for the memes of the whole request; ids that are not there drop out.
ListCrops(ms) ==
    /\ deletion.at = "idle" /\ ms \subseteq memes /\ ms # {} /\ Spend
    /\ deletion' = [at |-> "memes", todo |-> ms, meme |-> None, crops |-> CropsOf(ms)]
    /\ UNCHANGED <<memes, images, rows, nextId, crops, saved, scan, abandoned, history>>

DeleteImage(m) ==
    /\ deletion.at = "memes" /\ m \in deletion.todo
    /\ images' = images \ {m}
    /\ deletion' = [deletion EXCEPT !.at = "row", !.todo = @ \ {m}, !.meme = m]
    /\ UNCHANGED <<memes, rows, nextId, crops, saved, scan, abandoned, history, budget>>

\* The faces go with the row.
DeleteRow ==
    /\ deletion.at = "row"
    /\ memes' = memes \ {deletion.meme}
    /\ rows' = {r \in rows : r.meme # deletion.meme}
    /\ missed' = missed \cup {deletion.meme}
    /\ deletion' = [deletion EXCEPT !.at = "memes", !.meme = None]
    /\ UNCHANGED <<images, nextId, crops, saved, scan, crashes, late, abandoned, budget>>

\* Once, after the loop over the memes.
DeleteCrops ==
    /\ deletion.at = "memes" /\ deletion.todo = {}
    /\ crops' = crops \ deletion.crops
    /\ deletion' = NoDeletion
    /\ UNCHANGED <<memes, images, rows, nextId, saved, scan, abandoned, history, budget>>

\* A crash of the server, a file that cannot be unlinked or a database that
\* stays locked: what is done stays done, and nothing takes up the rest.
DeletionFails ==
    /\ deletion.at # "idle" /\ Spend
    /\ \E done \in SUBSET (IF deletion.at = "memes" /\ deletion.todo = {}
                            THEN deletion.crops ELSE {}) :
         /\ crops' = crops \ done
         /\ abandoned' = abandoned \cup
                {c \in deletion.crops \cap crops' : \A r \in rows : r.id # c}
    /\ deletion' = NoDeletion
    /\ UNCHANGED <<memes, images, rows, nextId, saved, scan, history>>

-----------------------------------------------------------------------------
Next ==
    \/ StartScan \/ Finish \/ OpenState \/ WriteState \/ Killed
    \/ \E m \in Memes : Detect(m) \/ Upload(m) \/ DeleteImage(m)
    \/ \E f \in Faces : InsertFace(f)
    \/ InsertFails \/ OpenImage \/ SaveCrop \/ Mark
    \/ \E ms \in SUBSET Memes : ListCrops(ms)
    \/ DeleteRow \/ DeleteCrops \/ DeletionFails

Spec == Init /\ [][Next]_vars

-----------------------------------------------------------------------------
ScanSteps == {"idle", "next", "faces", "crop", "save", "mark", "open", "write", "last", "write last"}
AtMeme == {"faces", "crop", "save", "mark"}
Scans ==
    [at : ScanSteps, todo : SUBSET Memes, scanned : SUBSET Memes, unsaved : 0 .. (Batch - 1),
     meme : Memes \cup {None}, left : SUBSET Faces, id : Nat]
Deletions ==
    [at : {"idle", "memes", "row"}, todo : SUBSET Memes, meme : Memes \cup {None},
     crops : SUBSET Nat]

(* Types; a face row has its meme, no id is used twice, and the process     *)
(* between two memes has none in hand.                                      *)
TypeOK ==
    /\ memes \subseteq Memes /\ images \subseteq Memes /\ missed \subseteq Memes
    /\ nextId \in Nat \ {0} /\ crashes \in Nat
    /\ \A r \in rows : r.id \in Nat /\ r.id < nextId /\ r.meme \in memes /\ r.face \in Faces
    /\ \A r, q \in rows : r.id = q.id => r = q
    /\ \A c \in crops : c \in Nat /\ c < nextId
    /\ saved \in [whole : BOOLEAN, memes : SUBSET Memes]
    /\ scan \in Scans /\ scan.id < nextId
    /\ scan.at \in AtMeme => scan.meme \in Memes
    /\ deletion \in Deletions
    /\ deletion.at = "idle" => deletion = NoDeletion
    /\ deletion.at = "row" => deletion.meme \in Memes

Found(m, f) == \E r \in rows : r.meme = m /\ r.face = f

(* Resuming skips nothing that still has to be done: a meme face_scan.json  *)
(* lists has all its faces in the table, however often the scan was killed, *)
(* unless its image could not be read, a face of it could not be stored or  *)
(* it has been deleted meanwhile.                                           *)
SavedIsScanned ==
    \A m \in saved.memes \ missed : \A f \in FacesOf[m] : Found(m, f)

Twice(m) == \E r, q \in rows : r # q /\ r.meme = m /\ q.meme = m /\ r.face = q.face

(* A kill costs at most one batch: only memes scanned after the last write  *)
(* of the state have a face twice in the table.                             *)
KillsCostOneBatch == Cardinality({m \in Memes : Twice(m)}) <= Batch * crashes

(* A crop outlives its face in three windows only, and in no other way      *)
(* however scans, kills, uploads and deletions meet: its face was inserted  *)
(* after a deletion had listed the crops of the meme, it was saved after    *)
(* its face had been deleted, or the deletion that had it on its list was   *)
(* cut short between the row and the unlinking at the end of the batch      *)
(* (_delete_memes lists the crops of the whole batch first and unlinks them *)
(* last).  Nothing looks for such a crop again, where the docstring of      *)
(* bulk_delete says that crop files are deleted.                            *)
CropsAreReclaimed ==
    \A c \in crops : \/ \E r \in rows : r.id = c
                     \/ c \in deletion.crops
                     \/ c \in late
                     \/ c \in abandoned

=============================================================================
