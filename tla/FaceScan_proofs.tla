--------------------------- MODULE FaceScan_proofs ---------------------------
(***************************************************************************)
(* Proofs about FaceScan, for any memes, faces, batch, kills, failures,    *)
(* uploads and deletions.                                                  *)
(*                                                                         *)
(* The inductive invariant follows the meme in hand from its detection to  *)
(* its mark, and the faces of the memes being deleted from the list of     *)
(* their crops to the unlinking, or to where the deletion is cut short.    *)
(* A second one counts: memes detected twice, and those a kill now would   *)
(* have detected again, are at most a batch for each kill.                 *)
(***************************************************************************)
EXTENDS FaceScan, FiniteSetTheorems, TLAPS

AllFound(m, fs) == \A f \in fs : Found(m, f)

\* What the process, or the file, counts as scanned has all its faces.
ScannedAreFound ==
    \A m \in (saved.memes \cup scan.scanned) \ missed : AllFound(m, FacesOf[m])

\* So has the meme in hand, but for the faces still to be inserted.
InHand ==
    /\ scan.at \in {"faces", "crop", "save"} /\ scan.meme \notin missed =>
         AllFound(scan.meme, FacesOf[scan.meme] \ scan.left)
    /\ scan.at = "mark" /\ scan.meme \notin missed =>
         AllFound(scan.meme, FacesOf[scan.meme])

\* The list of a deletion misses only faces inserted after it was made.
ListedOrLate ==
    \A r \in rows : r.meme \in ToDelete => r.id \in deletion.crops \cup late

IInv == TypeOK /\ ScannedAreFound /\ InHand /\ ListedOrLate /\ CropsAreReclaimed

USE DEF server, history, ScanSteps, AtMeme, AllFound, Found, ToDelete

-----------------------------------------------------------------------------
LEMMA Numbers ==
  ASSUME TypeOK
  PROVE  scan.id \in Nat /\ nextId \in Nat /\ 0 < nextId
<1>1. scan.id \in Nat  BY DEF TypeOK, Scans
<1>2. nextId \in Nat /\ nextId # 0  BY DEF TypeOK
<1>. QED  BY <1>1, <1>2

\* A new state of the process is one of its type.
LEMMA StartScanType ==
  ASSUME TypeOK, StartScan
  PROVE  scan' \in Scans /\ scan'.id = 0 /\ scan'.at = "next"
<1>1. saved.memes \in SUBSET Memes /\ memes \ saved.memes \in SUBSET Memes  BY DEF TypeOK
<1>2. 0 \in 0 .. (Batch - 1)  BY BatchAssumption
<1>. QED  BY <1>1, <1>2 DEF StartScan, NoScan, Scans

LEMMA NoScanType == NoScan \in Scans
<1>1. 0 \in 0 .. (Batch - 1)  BY BatchAssumption
<1>. QED  BY <1>1 DEF NoScan, Scans

\* Detection takes the meme in hand with the faces of its image, or as one
\* that is missed.
LEMMA DetectType ==
  ASSUME TypeOK, NEW m \in Memes, Detect(m)
  PROVE  /\ scan' \in Scans /\ scan'.meme = m
         /\ scan'.id = scan.id /\ scan'.scanned = scan.scanned
         /\ \/ scan'.at = "faces" /\ scan'.left = FacesOf[m] /\ missed' = missed
            \/ scan'.at = "mark" /\ missed' = missed \cup {m}
<1>1. FacesOf[m] \in SUBSET Faces  BY FacesOfAssumption
<1>2. scan \in Scans  BY DEF TypeOK
<1>3. ASSUME scan' = [scan EXCEPT !.at = "faces", !.todo = @ \ {m}, !.meme = m, !.left = FacesOf[m]]
      PROVE  /\ scan' \in Scans /\ scan'.meme = m /\ scan'.id = scan.id
             /\ scan'.scanned = scan.scanned /\ scan'.at = "faces" /\ scan'.left = FacesOf[m]
  <2>1. PICK l \in SUBSET Faces :
          l = FacesOf[m] /\ scan' = [scan EXCEPT !.at = "faces", !.todo = @ \ {m}, !.meme = m, !.left = l]
    BY <1>1, <1>3
  <2>. QED  BY <1>2, <2>1 DEF Scans
<1>4. ASSUME scan' = [scan EXCEPT !.at = "mark", !.todo = @ \ {m}, !.meme = m]
      PROVE  /\ scan' \in Scans /\ scan'.meme = m /\ scan'.id = scan.id
             /\ scan'.scanned = scan.scanned /\ scan'.at = "mark"
  BY <1>2, <1>4 DEF Scans
<1>. QED  BY <1>3, <1>4 DEF Detect
LEMMA MarkType ==
  ASSUME TypeOK, Mark
  PROVE  /\ scan' \in Scans /\ scan'.id = scan.id
         /\ scan'.at \in {"open", "next"}
         /\ scan'.scanned = scan.scanned \cup {scan.meme}
<1>1. scan \in Scans  BY DEF TypeOK
<1>2. PICK at \in {"open", "next"}, n \in 0 .. (Batch - 1) :
        scan' = [scan EXCEPT !.at = at, !.scanned = @ \cup {scan.meme}, !.meme = None, !.unsaved = n]
  <2>1. CASE scan.unsaved + 1 = Batch
    <3>1. 0 \in 0 .. (Batch - 1)  BY BatchAssumption
    <3>. QED  BY <2>1, <3>1 DEF Mark
  <2>2. CASE scan.unsaved + 1 # Batch
    <3>1. scan.unsaved \in 0 .. (Batch - 1)  BY <1>1 DEF Scans
    <3>2. scan.unsaved + 1 \in 0 .. (Batch - 1)  BY <2>2, <3>1, BatchAssumption
    <3>3. scan' = [scan EXCEPT !.at = "next", !.scanned = @ \cup {scan.meme}, !.meme = None,
                               !.unsaved = @ + 1]
      BY <2>2 DEF Mark
    <3>4. scan' = [scan EXCEPT !.at = "next", !.scanned = @ \cup {scan.meme}, !.meme = None,
                               !.unsaved = scan.unsaved + 1]
      BY <3>3, <1>1 DEF Scans
    <3>. QED  BY <3>2, <3>4
  <2>. QED  BY <2>1, <2>2
<1>3. scan.meme \in Memes
  BY DEF Mark, TypeOK
<1>. QED  BY <1>1, <1>2, <1>3 DEF Scans

-----------------------------------------------------------------------------
LEMMA InitIInv == Init => IInv
<1> SUFFICES ASSUME Init PROVE IInv  OBVIOUS
<1>1. TypeOK  BY NoScanType DEF Init, TypeOK, Holding, NoScan, NoDeletion, Deletions
<1>2. ScannedAreFound /\ InHand  BY DEF Init, ScannedAreFound, InHand, Holding, NoScan
<1>3. ListedOrLate /\ CropsAreReclaimed
  BY DEF Init, ListedOrLate, CropsAreReclaimed, NoDeletion
<1>. QED  BY <1>1, <1>2, <1>3 DEF IInv

LEMMA StartScanStep ==
  ASSUME IInv, StartScan
  PROVE  IInv'
<1> USE DEF IInv
<1>0. /\ UNCHANGED <<memes, images, deletion, abandoned, rows, nextId, crops, saved, crashes, missed, late>>
      /\ scan' \in Scans /\ scan'.id = 0 /\ scan'.at = "next"
  BY StartScanType DEF StartScan
<1>1. TypeOK'  BY <1>0, Numbers DEF TypeOK
<1>2. scan'.scanned = saved.memes /\ scan'.at = "next"  BY DEF StartScan, NoScan
<1>3. ScannedAreFound'  BY <1>2 DEF StartScan, ScannedAreFound
<1>4. InHand'  BY <1>2 DEF InHand
<1>5. ListedOrLate' /\ CropsAreReclaimed'  BY DEF StartScan, ListedOrLate, CropsAreReclaimed
<1>. QED  BY <1>1, <1>3, <1>4, <1>5

LEMMA DetectStep ==
  ASSUME IInv, NEW m \in Memes, Detect(m)
  PROVE  IInv'
<1> USE DEF IInv
<1>0. UNCHANGED <<memes, images, deletion, abandoned, rows, nextId, crops, saved, crashes, late>>
  BY DEF Detect
<1>1. TypeOK'  BY <1>0, DetectType DEF TypeOK
<1>2. ScannedAreFound'  BY <1>0, DetectType DEF ScannedAreFound
<1>3. InHand'  BY <1>0, DetectType DEF InHand
<1>4. ListedOrLate' /\ CropsAreReclaimed'  BY <1>0 DEF ListedOrLate, CropsAreReclaimed
<1>. QED  BY <1>1, <1>2, <1>3, <1>4

\* A face inserted after the list of a deletion was made is late.
LEMMA InsertFaceStep ==
  ASSUME IInv, NEW f \in Faces, InsertFace(f)
  PROVE  IInv'
<1> USE DEF IInv
<1> DEFINE new == [id |-> nextId, meme |-> scan.meme, face |-> f]
<1>0. /\ rows' = rows \cup {new} /\ nextId' = nextId + 1
      /\ UNCHANGED <<memes, images, deletion, abandoned, crops, saved, crashes, missed>>
      /\ scan.meme \in memes /\ scan.at = "faces"
      /\ late \subseteq late' /\ (scan.meme \in ToDelete => nextId \in late')
  BY DEF InsertFace
<1>1. /\ scan' \in Scans /\ scan'.at = "crop" /\ scan'.left = scan.left \ {f}
      /\ scan'.meme = scan.meme /\ scan'.scanned = scan.scanned /\ scan'.id = nextId
  BY DEF InsertFace, TypeOK, Scans
<1>2. TypeOK'
  <2>1. \A r \in rows' : r.id \in Nat /\ r.id < nextId' /\ r.meme \in memes' /\ r.face \in Faces
    BY <1>0 DEF TypeOK
  <2>2. \A r, q \in rows' : r.id = q.id => r = q  BY <1>0 DEF TypeOK
  <2>3. nextId' \in Nat /\ \A c \in crops' : c \in Nat /\ c < nextId'  BY <1>0 DEF TypeOK
  <2>4. scan' \in Scans /\ scan'.id < nextId' /\ scan'.meme \in Memes  BY <1>0, <1>1 DEF TypeOK
  <2>. QED  BY <1>0, <2>1, <2>2, <2>3, <2>4 DEF TypeOK
<1>3. \A m, g : Found(m, g) => Found(m, g)'  BY <1>0
<1>4. Found(scan.meme, f)'
  <2>1. new \in rows' /\ new.meme = scan.meme /\ new.face = f  BY <1>0
  <2>. QED  BY <1>1, <2>1
<1>5. ScannedAreFound'  BY <1>0, <1>1, <1>3 DEF ScannedAreFound
<1>6. InHand'  BY <1>0, <1>1, <1>3, <1>4 DEF InHand
<1>7. ListedOrLate'  BY <1>0 DEF ListedOrLate
<1>8. CropsAreReclaimed'  BY <1>0 DEF CropsAreReclaimed
<1>. QED  BY <1>2, <1>5, <1>6, <1>7, <1>8

LEMMA InsertFailsStep ==
  ASSUME IInv, InsertFails
  PROVE  IInv'
<1> USE DEF IInv
<1>0. /\ UNCHANGED <<memes, images, deletion, abandoned, rows, nextId, crops, saved, crashes, late>>
      /\ missed' = missed \cup {scan.meme} /\ scan.at = "faces"
  BY DEF InsertFails
<1>1. /\ scan' \in Scans /\ scan'.at = "mark" /\ scan'.meme = scan.meme
      /\ scan'.scanned = scan.scanned /\ scan'.id = scan.id
  BY DEF InsertFails, TypeOK, Scans
<1>2. TypeOK'  BY <1>0, <1>1 DEF TypeOK
<1>3. ScannedAreFound' /\ InHand'  BY <1>0, <1>1 DEF ScannedAreFound, InHand
<1>4. ListedOrLate' /\ CropsAreReclaimed'  BY <1>0 DEF ListedOrLate, CropsAreReclaimed
<1>. QED  BY <1>2, <1>3, <1>4

LEMMA OpenImageStep ==
  ASSUME IInv, OpenImage
  PROVE  IInv'
<1> USE DEF IInv
<1>0. /\ UNCHANGED <<memes, images, deletion, abandoned, rows, nextId, crops, saved, crashes, missed, late>>
      /\ scan.at = "crop"
  BY DEF OpenImage
<1>1. /\ scan' \in Scans /\ scan'.at \in {"save", "faces"} /\ scan'.meme = scan.meme
      /\ scan'.left = scan.left /\ scan'.scanned = scan.scanned /\ scan'.id \in {scan.id, 0}
  <2>1. scan \in Scans  BY DEF TypeOK
  <2>2. CASE scan' = [scan EXCEPT !.at = "save"]  BY <2>1, <2>2 DEF Scans
  <2>3. CASE scan' = [scan EXCEPT !.at = "faces", !.id = 0]  BY <2>1, <2>3 DEF Scans
  <2>. QED  BY <2>2, <2>3 DEF OpenImage
<1>2. TypeOK'
  <2>1. scan'.id < nextId  BY <1>1, Numbers DEF TypeOK
  <2>. QED  BY <1>0, <1>1, <2>1 DEF TypeOK
<1>3. ScannedAreFound' /\ InHand'  BY <1>0, <1>1 DEF ScannedAreFound, InHand
<1>4. ListedOrLate' /\ CropsAreReclaimed'  BY <1>0 DEF ListedOrLate, CropsAreReclaimed
<1>. QED  BY <1>2, <1>3, <1>4

\* A crop whose face was deleted meanwhile is late.
LEMMA SaveCropStep ==
  ASSUME IInv, SaveCrop
  PROVE  IInv'
<1> USE DEF IInv
<1>0. /\ UNCHANGED <<memes, images, deletion, abandoned, rows, nextId, saved, crashes, missed>>
      /\ scan.at = "save" /\ late \subseteq late'
      /\ crops' \subseteq crops \cup {scan.id}
      /\ \A c \in crops' \ crops : c \in late' \/ \E r \in rows : r.id = c
  BY DEF SaveCrop
<1>1. /\ scan' \in Scans /\ scan'.at = "faces" /\ scan'.meme = scan.meme
      /\ scan'.left = scan.left /\ scan'.scanned = scan.scanned /\ scan'.id = 0
  BY DEF SaveCrop, TypeOK, Scans
<1>2. scan.id \in Nat /\ scan.id < nextId /\ 0 < nextId  BY Numbers DEF TypeOK
<1>3. TypeOK'
  <2>1. \A c \in crops' : c \in Nat /\ c < nextId'  BY <1>0, <1>2 DEF TypeOK
  <2>. QED  BY <1>0, <1>1, <1>2, <2>1 DEF TypeOK
<1>4. ScannedAreFound' /\ InHand'  BY <1>0, <1>1 DEF ScannedAreFound, InHand
<1>5. ListedOrLate'  BY <1>0 DEF ListedOrLate
<1>6. CropsAreReclaimed'  BY <1>0 DEF CropsAreReclaimed
<1>. QED  BY <1>3, <1>4, <1>5, <1>6

LEMMA MarkStep ==
  ASSUME IInv, Mark
  PROVE  IInv'
<1> USE DEF IInv
<1>0. UNCHANGED <<memes, images, deletion, abandoned, rows, nextId, crops, saved, crashes, missed, late>>
  BY DEF Mark
<1>1. TypeOK'  BY <1>0, MarkType DEF TypeOK
<1>2. scan.meme \notin missed => AllFound(scan.meme, FacesOf[scan.meme])
  BY DEF Mark, InHand
<1>3. ScannedAreFound'  BY <1>0, <1>2, MarkType DEF ScannedAreFound
<1>4. InHand'  BY MarkType DEF InHand
<1>5. ListedOrLate' /\ CropsAreReclaimed'  BY <1>0 DEF ListedOrLate, CropsAreReclaimed
<1>. QED  BY <1>1, <1>3, <1>4, <1>5

\* What a step of the state file keeps: a state of the process between two
\* memes, and files that list less than what has been scanned.
LEMMA StateFileStep ==
  ASSUME IInv, scan' \in Scans, saved' \in [whole : BOOLEAN, memes : SUBSET Memes],
         scan'.id < nextId, scan'.at \notin AtMeme,
         saved'.memes \cup scan'.scanned \subseteq saved.memes \cup scan.scanned,
         UNCHANGED <<memes, images, deletion, abandoned, rows, nextId, crops, missed, late>>,
         crashes' \in Nat
  PROVE  IInv'
<1> USE DEF IInv
<1>1. TypeOK'  BY DEF TypeOK
<1>2. ScannedAreFound' /\ InHand'  BY DEF ScannedAreFound, InHand
<1>3. ListedOrLate' /\ CropsAreReclaimed'  BY DEF ListedOrLate, CropsAreReclaimed
<1>. QED  BY <1>1, <1>2, <1>3

LEMMA FinishStep ==
  ASSUME IInv, Finish
  PROVE  IInv'
<1>1. TypeOK  BY DEF IInv
<1>2. scan' \in Scans /\ scan'.at = "last" /\ scan'.scanned = scan.scanned /\ scan'.id = scan.id
  BY <1>1 DEF Finish, TypeOK, Scans
<1>. QED  BY <1>1, <1>2, StateFileStep DEF Finish, TypeOK

LEMMA OpenStateStep ==
  ASSUME IInv, OpenState
  PROVE  IInv'
<1>1. TypeOK  BY DEF IInv
<1>2. /\ scan' \in Scans /\ scan'.at \in {"write", "write last"}
      /\ scan'.scanned = scan.scanned /\ scan'.id = scan.id
  BY <1>1 DEF OpenState, TypeOK, Scans
<1>3. saved' \in [whole : BOOLEAN, memes : SUBSET Memes] /\ saved'.memes = {}
  BY DEF OpenState, Torn
<1>. QED  BY <1>1, <1>2, <1>3, StateFileStep DEF OpenState, TypeOK

LEMMA WriteStateStep ==
  ASSUME IInv, WriteState
  PROVE  IInv'
<1>1. TypeOK  BY DEF IInv
<1>2. scan.scanned \subseteq Memes  BY <1>1 DEF TypeOK, Scans
<1>3. saved' \in [whole : BOOLEAN, memes : SUBSET Memes] /\ saved'.memes = scan.scanned
  BY <1>2 DEF WriteState, Holding
<1>4. /\ scan' \in Scans /\ scan'.at \in {"next", "idle"}
      /\ scan'.scanned \subseteq scan.scanned /\ scan'.id < nextId
  <2>1. CASE scan.at = "write"  BY <1>1, <2>1 DEF WriteState, TypeOK, Scans
  <2>2. CASE scan.at # "write"
    <3>1. scan' = NoScan  BY <2>2 DEF WriteState
    <3>2. 0 < nextId  BY <1>1, Numbers
    <3>. QED  BY <3>1, <3>2, NoScanType DEF NoScan
  <2>. QED  BY <2>1, <2>2
<1>. QED  BY <1>1, <1>3, <1>4, StateFileStep DEF WriteState, TypeOK

LEMMA KilledStep ==
  ASSUME IInv, Killed
  PROVE  IInv'
<1>1. TypeOK  BY DEF IInv
<1>2. 0 < nextId /\ crashes' \in Nat  BY <1>1, Numbers DEF Killed, TypeOK
<1>3. scan' \in Scans /\ scan'.at = "idle" /\ scan'.scanned = {} /\ scan'.id = 0
  BY NoScanType DEF Killed, NoScan
<1>. QED  BY <1>1, <1>2, <1>3, StateFileStep DEF Killed, TypeOK

LEMMA UploadStep ==
  ASSUME IInv, NEW m \in Memes, Upload(m)
  PROVE  IInv'
<1> USE DEF IInv, Upload
<1>1. TypeOK'  BY DEF TypeOK
<1>2. ScannedAreFound' /\ InHand'  BY DEF ScannedAreFound, InHand
<1>3. ListedOrLate' /\ CropsAreReclaimed'  BY DEF ListedOrLate, CropsAreReclaimed
<1>. QED  BY <1>1, <1>2, <1>3

LEMMA ListCropsStep ==
  ASSUME IInv, NEW ms \in SUBSET Memes, ListCrops(ms)
  PROVE  IInv'
<1> USE DEF IInv
<1>0. /\ UNCHANGED <<memes, images, rows, nextId, crops, saved, scan, crashes, missed, late, abandoned>>
      /\ deletion = NoDeletion
      /\ deletion' = [at |-> "memes", todo |-> ms, meme |-> None, crops |-> CropsOf(ms)]
  BY DEF ListCrops, TypeOK
<1>1. TypeOK'
  <2>1. CropsOf(ms) \in SUBSET Nat  BY DEF CropsOf, TypeOK
  <2>2. deletion' \in Deletions  BY <1>0, <2>1 DEF Deletions
  <2>. QED  BY <1>0, <2>2 DEF TypeOK
<1>2. ScannedAreFound' /\ InHand'  BY <1>0 DEF ScannedAreFound, InHand
<1>3. ListedOrLate'
  <2>1. \A r \in rows : r.meme \in Memes  BY DEF TypeOK
  <2>. QED  BY <1>0, <2>1, MemesAssumption DEF ListedOrLate, CropsOf
<1>4. CropsAreReclaimed'  BY <1>0 DEF CropsAreReclaimed, NoDeletion
<1>. QED  BY <1>1, <1>2, <1>3, <1>4

LEMMA DeleteImageStep ==
  ASSUME IInv, NEW m \in Memes, DeleteImage(m)
  PROVE  IInv'
<1> USE DEF IInv
<1>0. /\ UNCHANGED <<memes, rows, nextId, crops, saved, scan, crashes, missed, late, abandoned>>
      /\ deletion.at = "memes" /\ m \in deletion.todo /\ images' \subseteq images
      /\ deletion' = [deletion EXCEPT !.at = "row", !.todo = @ \ {m}, !.meme = m]
  BY DEF DeleteImage
<1>1. /\ deletion' \in Deletions /\ deletion'.at = "row" /\ deletion'.meme = m
      /\ deletion'.todo = deletion.todo \ {m} /\ deletion'.crops = deletion.crops
  BY <1>0 DEF TypeOK, Deletions
<1>2. TypeOK'  BY <1>0, <1>1 DEF TypeOK
<1>3. ScannedAreFound' /\ InHand'  BY <1>0 DEF ScannedAreFound, InHand
<1>4. ListedOrLate' /\ CropsAreReclaimed'  BY <1>0, <1>1 DEF ListedOrLate, CropsAreReclaimed
<1>. QED  BY <1>2, <1>3, <1>4

\* The crops of the faces that go are listed, or late.
LEMMA DeleteRowStep ==
  ASSUME IInv, DeleteRow
  PROVE  IInv'
<1> USE DEF IInv
<1>0. /\ UNCHANGED <<images, nextId, crops, saved, scan, crashes, late, abandoned>>
      /\ memes' = memes \ {deletion.meme} /\ missed' = missed \cup {deletion.meme}
      /\ rows' = {r \in rows : r.meme # deletion.meme}
      /\ deletion.at = "row" /\ deletion' = [deletion EXCEPT !.at = "memes", !.meme = None]
  BY DEF DeleteRow
<1>1. /\ deletion' \in Deletions /\ deletion'.at = "memes" /\ deletion'.meme = None
      /\ deletion'.todo = deletion.todo /\ deletion'.crops = deletion.crops
      /\ deletion.meme \in Memes
  BY <1>0 DEF TypeOK, Deletions
<1>2. TypeOK'  BY <1>0, <1>1 DEF TypeOK
<1>3. \A m, f : Found(m, f) /\ m # deletion.meme => Found(m, f)'  BY <1>0
<1>4. ScannedAreFound' /\ InHand'  BY <1>0, <1>3 DEF ScannedAreFound, InHand
<1>5. ListedOrLate'
  <2>1. \A r \in rows : r.meme \in Memes  BY DEF TypeOK
  <2>. QED  BY <1>0, <1>1, <2>1, MemesAssumption DEF ListedOrLate
<1>6. CropsAreReclaimed'  BY <1>0, <1>1 DEF CropsAreReclaimed, ListedOrLate
<1>. QED  BY <1>2, <1>4, <1>5, <1>6

\* No row is of a meme on an empty list.
LEMMA NothingToDelete ==
  ASSUME IInv, UNCHANGED <<rows, late>>, deletion' = NoDeletion
  PROVE  ListedOrLate' /\ deletion' \in Deletions
<1>1. \A r \in rows : r.meme \in Memes  BY DEF IInv, TypeOK
<1>. QED  BY <1>1, MemesAssumption DEF ListedOrLate, NoDeletion, Deletions

LEMMA DeleteCropsStep ==
  ASSUME IInv, DeleteCrops
  PROVE  IInv'
<1> USE DEF IInv
<1>0. /\ UNCHANGED <<memes, images, rows, nextId, saved, scan, crashes, missed, late, abandoned>>
      /\ crops' = crops \ deletion.crops /\ deletion' = NoDeletion
  BY DEF DeleteCrops
<1>1. ListedOrLate' /\ deletion' \in Deletions  BY <1>0, NothingToDelete
<1>2. TypeOK'  BY <1>0, <1>1 DEF TypeOK, NoDeletion
<1>3. ScannedAreFound' /\ InHand'  BY <1>0 DEF ScannedAreFound, InHand
<1>4. CropsAreReclaimed'  BY <1>0 DEF CropsAreReclaimed
<1>. QED  BY <1>1, <1>2, <1>3, <1>4

\* A listed crop whose face is gone is abandoned; the others have their face.
LEMMA DeletionFailsStep ==
  ASSUME IInv, DeletionFails
  PROVE  IInv'
<1> USE DEF IInv
<1>0. /\ UNCHANGED <<memes, images, rows, nextId, saved, scan, crashes, missed, late>>
      /\ crops' \subseteq crops /\ deletion' = NoDeletion
      /\ abandoned' = abandoned \cup {c \in deletion.crops \cap crops' : \A r \in rows : r.id # c}
  BY DEF DeletionFails
<1>1. ListedOrLate' /\ deletion' \in Deletions  BY <1>0, NothingToDelete
<1>2. TypeOK'  BY <1>0, <1>1 DEF TypeOK, NoDeletion
<1>3. ScannedAreFound' /\ InHand'  BY <1>0 DEF ScannedAreFound, InHand
<1>4. CropsAreReclaimed'  BY <1>0 DEF CropsAreReclaimed
<1>. QED  BY <1>1, <1>2, <1>3, <1>4

LEMMA StutterStep == IInv /\ UNCHANGED vars => IInv'
BY DEF vars, IInv, TypeOK, ScannedAreFound, InHand, ListedOrLate, CropsAreReclaimed

LEMMA NextIInv == IInv /\ [Next]_vars => IInv'
<1> SUFFICES ASSUME IInv, [Next]_vars PROVE IInv'  OBVIOUS
<1>1. CASE StartScan  BY <1>1, StartScanStep
<1>2. CASE \E m \in Memes : Detect(m)  BY <1>2, DetectStep
<1>3. CASE \E f \in Faces : InsertFace(f)  BY <1>3, InsertFaceStep
<1>4. CASE InsertFails  BY <1>4, InsertFailsStep
<1>5. CASE OpenImage  BY <1>5, OpenImageStep
<1>6. CASE SaveCrop  BY <1>6, SaveCropStep
<1>7. CASE Mark  BY <1>7, MarkStep
<1>8. CASE Finish  BY <1>8, FinishStep
<1>9. CASE OpenState  BY <1>9, OpenStateStep
<1>10. CASE WriteState  BY <1>10, WriteStateStep
<1>11. CASE Killed  BY <1>11, KilledStep
<1>12. CASE \E m \in Memes : Upload(m)  BY <1>12, UploadStep
<1>13. CASE \E ms \in SUBSET Memes : ListCrops(ms)  BY <1>13, ListCropsStep
<1>14. CASE \E m \in Memes : DeleteImage(m)  BY <1>14, DeleteImageStep
<1>15. CASE DeleteRow  BY <1>15, DeleteRowStep
<1>16. CASE DeleteCrops  BY <1>16, DeleteCropsStep
<1>17. CASE DeletionFails  BY <1>17, DeletionFailsStep
<1>18. CASE UNCHANGED vars  BY <1>18, StutterStep
<1>. QED
  BY <1>1, <1>2, <1>3, <1>4, <1>5, <1>6, <1>7, <1>8, <1>9, <1>10, <1>11, <1>12, <1>13,
     <1>14, <1>15, <1>16, <1>17, <1>18
  DEF Next

-----------------------------------------------------------------------------
(* The inductive invariant holds over every run of the scan and beside the  *)
(* server (face_cluster.py 50-74, app.py 456-474).                          *)
THEOREM Invariance == Spec => []IInv
BY InitIInv, NextIInv, PTL DEF Spec

(* Every variable keeps its type, every face has its meme and an id of its  *)
(* own (face_cluster.py 50-74, store.py, the table faces).                  *)
THEOREM TypeCorrect == Spec => []TypeOK
<1>1. IInv => TypeOK  BY DEF IInv
<1>. QED  BY <1>1, Invariance, PTL

(* A meme that face_scan.json lists has all its faces in the table, unless  *)
(* it was missed: a scan that is killed and run again skips nothing         *)
(* (face_cluster.py 50-74).                                                 *)
THEOREM ResumeSkipsNothing == Spec => []SavedIsScanned
<1>1. IInv => SavedIsScanned  BY DEF IInv, ScannedAreFound, SavedIsScanned
<1>. QED  BY <1>1, Invariance, PTL

(* A crop has its face, is on the list of the deletion under way, or comes  *)
(* from one of the three windows named: for any memes, faces and batches of *)
(* deletions, cut short anywhere (save_crop and extract in face_cluster.py  *)
(* 37-74, _delete_memes in app.py 456-474).                                 *)
THEOREM CropsAreAccountedFor == Spec => []CropsAreReclaimed
<1>1. IInv => CropsAreReclaimed  BY DEF IInv
<1>. QED  BY <1>1, Invariance, PTL

-----------------------------------------------------------------------------
(* What a kill costs: the memes with a face twice in the table, and those   *)
(* that may yet get one, are counted against the kills.                     *)

HasRow(m) == \E r \in rows : r.meme = m
Hand == IF scan.at \in AtMeme THEN {scan.meme} ELSE {}

\* Memes a scan still takes up, this one or, when none runs, the next.
ToScan ==
    IF scan.at # "idle" THEN scan.todo ELSE IF saved.whole THEN Memes \ saved.memes ELSE {}

\* Those of them that have been scanned before, and the one in hand while
\* such a face of it is to come.
Again ==
    {m \in Memes : \/ m \in ToScan /\ HasRow(m)
                   \/ /\ scan.at \in {"faces", "crop", "save"} /\ m = scan.meme
                      /\ \E f \in scan.left : Found(m, f)}

Doubled == {m \in Memes : Twice(m)}

\* Memes a kill would have scanned again.
Unsaved == scan.scanned \ saved.memes
Writing == {"write", "write last"}

Cost == Cardinality(Doubled \cup Again) <= Batch * crashes

Window ==
    /\ scan.at \notin {"idle"} \cup Writing =>
        /\ saved.whole
        /\ Cardinality(Unsaved) <= IF scan.at = "open" THEN Batch ELSE scan.unsaved
    /\ scan.at \in Writing => ~saved.whole

RowsAreKnown == scan.at # "idle" => \A r \in rows : r.meme \in scan.todo \cup scan.scanned \cup Hand

TakenUpOnce ==
    /\ Hand \cap scan.todo = {}
    /\ scan.at \in {"last", "write last"} => scan.todo = {}

CountInv == Cost /\ Window /\ RowsAreKnown /\ TakenUpOnce

\* Fewer memes do not count for more.
LEMMA CostKept ==
  ASSUME TypeOK, Cost, Doubled' \cup Again' \subseteq Doubled \cup Again, crashes' = crashes
  PROVE  Cost'
<1>1. IsFiniteSet(Doubled \cup Again) /\ Doubled \cup Again \subseteq Memes
  BY MemesAssumption, FS_Subset DEF Doubled, Again
<1>2. Cardinality(Doubled' \cup Again') <= Cardinality(Doubled \cup Again)
  BY <1>1, FS_Subset
<1>3. /\ Cardinality(Doubled' \cup Again') \in Nat /\ Cardinality(Doubled \cup Again) \in Nat
  BY <1>1, FS_Subset, FS_CardinalityType
<1>4. Batch * crashes \in Nat  BY BatchAssumption DEF TypeOK
<1>. QED  BY <1>2, <1>3, <1>4 DEF Cost

\* Steps that take rows away at most, and leave the process at the meme it
\* has in hand, or wherever it is.
LEMMA QuietStep ==
  ASSUME TypeOK, CountInv, UNCHANGED <<saved, crashes>>, rows' \subseteq rows,
         scan'.todo = scan.todo, scan'.scanned = scan.scanned, scan'.unsaved = scan.unsaved,
         scan'.meme = scan.meme, scan'.left \subseteq scan.left,
         scan' = scan \/ (/\ scan.at \in {"faces", "crop", "save"} /\ scan'.at \in AtMeme)
  PROVE  CountInv'
<1> USE DEF CountInv
<1>1. Hand' = Hand /\ ToScan' = ToScan  BY DEF Hand, ToScan
<1>2. Doubled' \subseteq Doubled  BY DEF Doubled, Twice
<1>3. Again' \subseteq Again  BY <1>1 DEF Again, HasRow
<1>4. Cost'  BY <1>2, <1>3, CostKept
<1>5. Window'  BY DEF Window, Unsaved, Writing
<1>6. RowsAreKnown' /\ TakenUpOnce'  BY <1>1 DEF RowsAreKnown, TakenUpOnce
<1>. QED  BY <1>4, <1>5, <1>6

LEMMA CountInit == Init => CountInv
<1> SUFFICES ASSUME Init PROVE CountInv  OBVIOUS
<1>1. Doubled \cup Again = {}  BY DEF Init, Doubled, Twice, Again, HasRow
<1>2. Cardinality(Doubled \cup Again) = 0  BY <1>1, FS_EmptySet
<1>3. Cost  BY <1>2, BatchAssumption DEF Init, Cost
<1>4. Window /\ RowsAreKnown /\ TakenUpOnce
  BY DEF Init, NoScan, Window, Writing, RowsAreKnown, TakenUpOnce, Hand
<1>. QED  BY <1>3, <1>4 DEF CountInv

LEMMA StartScanCount ==
  ASSUME TypeOK, CountInv, StartScan
  PROVE  CountInv'
<1> USE DEF CountInv
<1>1. /\ UNCHANGED <<rows, saved, crashes>> /\ scan.at = "idle" /\ saved.whole
      /\ scan'.at = "next" /\ scan'.todo = memes \ saved.memes /\ scan'.scanned = saved.memes
      /\ scan'.unsaved = 0
  BY DEF StartScan, NoScan
<1>2. Doubled' = Doubled /\ Again' \subseteq Again
  BY <1>1 DEF Doubled, Twice, Again, HasRow, ToScan, TypeOK
<1>3. Cost'  BY <1>1, <1>2, CostKept
<1>4. Unsaved' = {} /\ Cardinality(Unsaved') = 0  BY <1>1, FS_EmptySet DEF Unsaved
<1>5. Window'  BY <1>1, <1>4 DEF Window, Writing
<1>6. RowsAreKnown' /\ TakenUpOnce'  BY <1>1 DEF RowsAreKnown, TakenUpOnce, Hand, TypeOK
<1>. QED  BY <1>3, <1>5, <1>6

\* The meme taken in hand has its old faces still to come, if it had any.
LEMMA DetectCount ==
  ASSUME TypeOK, CountInv, NEW m \in Memes, Detect(m)
  PROVE  CountInv'
<1> USE DEF CountInv
<1>1. /\ UNCHANGED <<rows, saved, crashes>> /\ scan.at = "next" /\ m \in scan.todo
      /\ scan'.at \in {"faces", "mark"} /\ scan'.todo = scan.todo \ {m}
      /\ scan'.scanned = scan.scanned /\ scan'.unsaved = scan.unsaved /\ scan'.meme = m
  <2>1. scan \in Scans  BY DEF TypeOK
  <2>2. \/ scan' = [scan EXCEPT !.at = "faces", !.todo = @ \ {m}, !.meme = m, !.left = FacesOf[m]]
        \/ scan' = [scan EXCEPT !.at = "mark", !.todo = @ \ {m}, !.meme = m]
    BY DEF Detect
  <2>. QED  BY <2>1, <2>2 DEF Detect, Scans
<1>2. Doubled' = Doubled /\ Again' \subseteq Again
  BY <1>1 DEF Doubled, Twice, Again, HasRow, ToScan
<1>3. Cost'  BY <1>1, <1>2, CostKept
<1>4. Window'  BY <1>1 DEF Window, Unsaved, Writing
<1>5. RowsAreKnown' /\ TakenUpOnce'  BY <1>1 DEF RowsAreKnown, TakenUpOnce, Hand
<1>. QED  BY <1>3, <1>4, <1>5

\* A second row of a face is one of a meme that was to be scanned again.
LEMMA InsertFaceCount ==
  ASSUME TypeOK, CountInv, NEW f \in Faces, InsertFace(f)
  PROVE  CountInv'
<1> USE DEF CountInv
<1> DEFINE new == [id |-> nextId, meme |-> scan.meme, face |-> f]
<1>1. /\ UNCHANGED <<saved, crashes>> /\ scan.at = "faces" /\ f \in scan.left
      /\ scan'.at = "crop" /\ scan'.todo = scan.todo /\ scan'.left = scan.left \ {f}
      /\ scan'.scanned = scan.scanned /\ scan'.unsaved = scan.unsaved /\ scan'.meme = scan.meme
      /\ rows' = rows \cup {new}
  BY DEF InsertFace, TypeOK, Scans
<1>2. scan.meme \in Memes /\ scan.meme \notin scan.todo
  BY <1>1 DEF TypeOK, TakenUpOnce, Hand
<1>3. Doubled' \subseteq Doubled \cup Again
  <2> SUFFICES ASSUME NEW m \in Memes, Twice(m)', ~Twice(m) PROVE m \in Again
    BY DEF Doubled
  <2>1. PICK r \in rows', q \in rows' : r # q /\ r.meme = m /\ q.meme = m /\ r.face = q.face
    BY DEF Twice
  <2>2. m = scan.meme /\ \E r1 \in rows : r1.meme = m /\ r1.face = f
    BY <1>1, <2>1 DEF Twice
  <2>. QED  BY <1>1, <2>2 DEF Again
<1>4. Again' \subseteq Again
  <2> SUFFICES ASSUME NEW m \in Again' PROVE m \in Again  OBVIOUS
  <2>1. CASE m \in ToScan' /\ HasRow(m)'
    BY <1>1, <1>2, <2>1 DEF Again, HasRow, ToScan
  <2>2. CASE m = scan'.meme /\ \E g \in scan'.left : Found(m, g)'
    <3>1. PICK g \in scan.left \ {f} : Found(m, g)'  BY <1>1, <2>2
    <3>2. Found(m, g)  BY <1>1, <3>1
    <3>. QED  BY <1>1, <1>2, <2>2, <3>2 DEF Again
  <2>. QED  BY <2>1, <2>2 DEF Again
<1>5. Cost'  BY <1>1, <1>3, <1>4, CostKept
<1>6. Window'  BY <1>1 DEF Window, Unsaved, Writing
<1>7. RowsAreKnown' /\ TakenUpOnce'  BY <1>1 DEF RowsAreKnown, TakenUpOnce, Hand
<1>. QED  BY <1>5, <1>6, <1>7

\* The meme marked is one more that a kill would have scanned again.
LEMMA MarkCount ==
  ASSUME TypeOK, CountInv, Mark
  PROVE  CountInv'
<1> USE DEF CountInv
<1>1. /\ UNCHANGED <<rows, saved, crashes>> /\ scan.at \in {"mark", "faces"}
      /\ scan.meme \in Memes
      /\ scan'.todo = scan.todo /\ scan'.scanned = scan.scanned \cup {scan.meme}
      /\ scan.unsaved \in 0 .. (Batch - 1) /\ scan'.at \in {"open", "next"}
      /\ scan'.at = "open" => scan.unsaved + 1 = Batch
      /\ scan'.at = "next" => scan'.unsaved = scan.unsaved + 1
  <2>1. scan \in Scans /\ scan.meme \in Memes  BY DEF TypeOK, Mark
  <2>2. CASE scan.unsaved + 1 = Batch
    <3>1. scan' = [scan EXCEPT !.at = "open", !.scanned = @ \cup {scan.meme}, !.meme = None,
                               !.unsaved = 0]
      BY <2>2 DEF Mark
    <3>. QED  BY <2>1, <2>2, <3>1 DEF Mark, Scans
  <2>3. CASE scan.unsaved + 1 # Batch
    <3>1. scan' = [scan EXCEPT !.at = "next", !.scanned = @ \cup {scan.meme}, !.meme = None,
                               !.unsaved = @ + 1]
      BY <2>3 DEF Mark
    <3>. QED  BY <2>1, <3>1 DEF Mark, Scans
  <2>. QED  BY <2>2, <2>3
<1>2. Doubled' = Doubled /\ Again' \subseteq Again
  BY <1>1 DEF Doubled, Twice, Again, HasRow, ToScan
<1>3. Cost'  BY <1>1, <1>2, CostKept
<1>4. Window'
  <2>1. saved.whole /\ Cardinality(Unsaved) <= scan.unsaved  BY <1>1 DEF Window, Writing
  <2>2. Unsaved \subseteq Memes /\ Unsaved' \subseteq Unsaved \cup {scan.meme}
    BY <1>1 DEF Unsaved, TypeOK, Scans
  <2>3. IsFiniteSet(Unsaved)  BY <2>2, MemesAssumption, FS_Subset
  <2>4. /\ Cardinality(Unsaved) \in Nat
        /\ Cardinality(Unsaved \cup {scan.meme}) <= Cardinality(Unsaved) + 1
        /\ IsFiniteSet(Unsaved \cup {scan.meme})
    BY <2>3, FS_AddElement, FS_CardinalityType
  <2>5. Cardinality(Unsaved') <= Cardinality(Unsaved \cup {scan.meme})
    BY <2>2, <2>4, FS_Subset
  <2>6. Cardinality(Unsaved') \in Nat /\ Cardinality(Unsaved \cup {scan.meme}) \in Nat
    BY <2>2, <2>4, FS_Subset, FS_CardinalityType
  <2>7. Cardinality(Unsaved') <= scan.unsaved + 1  BY <2>1, <2>4, <2>5, <2>6, <1>1
  <2>. QED  BY <1>1, <2>1, <2>7 DEF Window, Writing
<1>5. RowsAreKnown' /\ TakenUpOnce'  BY <1>1 DEF RowsAreKnown, TakenUpOnce, Hand
<1>. QED  BY <1>3, <1>4, <1>5

LEMMA FinishCount ==
  ASSUME TypeOK, CountInv, Finish
  PROVE  CountInv'
<1> USE DEF CountInv
<1>1. /\ UNCHANGED <<rows, saved, crashes>> /\ scan.at = "next" /\ scan.todo = {}
      /\ scan'.at = "last" /\ scan'.todo = {} /\ scan'.scanned = scan.scanned
      /\ scan'.unsaved = scan.unsaved
  BY DEF Finish, TypeOK, Scans
<1>2. Doubled' = Doubled /\ Again' \subseteq Again
  BY <1>1 DEF Doubled, Twice, Again, HasRow, ToScan
<1>3. Cost'  BY <1>1, <1>2, CostKept
<1>4. Window'  BY <1>1 DEF Window, Unsaved, Writing
<1>5. RowsAreKnown' /\ TakenUpOnce'  BY <1>1 DEF RowsAreKnown, TakenUpOnce, Hand
<1>. QED  BY <1>3, <1>4, <1>5

LEMMA OpenStateCount ==
  ASSUME TypeOK, CountInv, OpenState
  PROVE  CountInv'
<1> USE DEF CountInv
<1>1. /\ UNCHANGED <<rows, crashes>> /\ scan.at \in {"open", "last"} /\ ~saved'.whole
      /\ scan'.at = (IF scan.at = "open" THEN "write" ELSE "write last")
      /\ scan'.todo = scan.todo /\ scan'.scanned = scan.scanned
  BY DEF OpenState, Torn, TypeOK, Scans
<1>2. Doubled' = Doubled /\ Again' \subseteq Again
  BY <1>1 DEF Doubled, Twice, Again, HasRow, ToScan
<1>3. Cost'  BY <1>1, <1>2, CostKept
<1>4. Window'  BY <1>1 DEF Window, Writing
<1>5. RowsAreKnown' /\ TakenUpOnce'  BY <1>1 DEF RowsAreKnown, TakenUpOnce, Hand
<1>. QED  BY <1>3, <1>4, <1>5

\* Once the state is written a kill has nothing scanned again.
LEMMA WriteStateCount ==
  ASSUME TypeOK, CountInv, WriteState
  PROVE  CountInv'
<1> USE DEF CountInv
<1>1. UNCHANGED <<rows, crashes>> /\ scan.at \in Writing /\ saved' = Holding(scan.scanned)
  BY DEF WriteState, Writing
<1>2. CASE scan.at = "write"
  <2>1. /\ scan'.at = "next" /\ scan'.todo = scan.todo /\ scan'.scanned = scan.scanned
        /\ scan'.unsaved \in Nat
    <3>1. scan \in Scans /\ scan' = [scan EXCEPT !.at = "next"]  BY <1>2 DEF WriteState, TypeOK
    <3>2. scan.unsaved \in 0 .. (Batch - 1)  BY <3>1 DEF Scans
    <3>3. scan.unsaved \in Nat  BY <3>2
    <3>. QED  BY <3>1, <3>3 DEF Scans
  <2>2. Doubled' = Doubled /\ Again' \subseteq Again
    BY <1>1, <1>2, <2>1 DEF Doubled, Twice, Again, HasRow, ToScan
  <2>3. Cost'  BY <1>1, <2>2, CostKept
  <2>4. Unsaved' = {} /\ Cardinality(Unsaved') = 0
    BY <1>1, <2>1, FS_EmptySet DEF Unsaved, Holding
  <2>5. saved'.whole  BY <1>1 DEF Holding
  <2>6. Window'
    <3>1. Cardinality(Unsaved') <= scan'.unsaved  BY <2>1, <2>4
    <3>. QED  BY <2>1, <2>5, <3>1 DEF Window, Writing
  <2>7. RowsAreKnown' /\ TakenUpOnce'
    BY <1>1, <1>2, <2>1 DEF RowsAreKnown, TakenUpOnce, Hand
  <2>. QED  BY <2>3, <2>6, <2>7
<1>3. CASE scan.at = "write last"
  <2>1. scan' = NoScan  BY <1>3 DEF WriteState
  <2>2. \A r \in rows : r.meme \in scan.scanned  BY <1>3 DEF RowsAreKnown, TakenUpOnce, Hand
  <2>3. Doubled' = Doubled /\ Again' = {}
    BY <1>1, <2>1, <2>2 DEF Doubled, Twice, Again, HasRow, ToScan, NoScan, Holding
  <2>4. Cost'  BY <1>1, <2>3, CostKept
  <2>5. Window' /\ RowsAreKnown' /\ TakenUpOnce'
    BY <2>1 DEF NoScan, Window, Writing, RowsAreKnown, TakenUpOnce, Hand
  <2>. QED  BY <2>4, <2>5
<1>. QED  BY <1>1, <1>2, <1>3 DEF Writing

\* A kill adds what has been scanned since the last write: a batch at most.
LEMMA KilledCount ==
  ASSUME TypeOK, CountInv, Killed
  PROVE  CountInv'
<1> USE DEF CountInv
<1> DEFINE Old == Doubled \cup Again
           More == Unsaved \cup Hand
<1>1. /\ UNCHANGED <<rows, saved>> /\ crashes' = crashes + 1 /\ scan' = NoScan
      /\ scan.at # "idle" /\ crashes \in Nat
  BY DEF Killed, TypeOK
<1>2. Doubled' = Doubled  BY <1>1 DEF Doubled, Twice
<1>3. IsFiniteSet(Old) /\ Cardinality(Old) \in Nat
  BY MemesAssumption, FS_Subset, FS_CardinalityType DEF Doubled, Again
<1>4. Cardinality(Old) <= Batch * crashes  BY DEF Cost
<1>5. ASSUME NEW n \in 0 .. Batch, NEW new \in SUBSET Memes, Again' \subseteq Old \cup new,
             Cardinality(new) = n
      PROVE  Cost'
  <2>1. IsFiniteSet(new)  BY MemesAssumption, FS_Subset
  <2>2. IsFiniteSet(Old \cup new) /\ Cardinality(Old \cup new) <= Cardinality(Old) + n
    <3>1. Cardinality(Old \cap new) \in Nat  BY <1>3, FS_Intersection, FS_CardinalityType
    <3>. QED  BY <1>3, <1>5, <2>1, <3>1, FS_Union
  <2>3. Cardinality(Doubled' \cup Again') <= Cardinality(Old \cup new)
    BY <1>2, <1>5, <2>2, FS_Subset
  <2>4. Cardinality(Doubled' \cup Again') \in Nat /\ Cardinality(Old \cup new) \in Nat
    BY <1>2, <1>5, <2>2, FS_Subset, FS_CardinalityType
  <2>5. Batch * crashes' = Batch * crashes + Batch /\ Batch * crashes \in Nat
    BY <1>1, BatchAssumption
  <2>6. Cardinality(Doubled' \cup Again') <= Batch * crashes + n
    BY <1>3, <1>4, <2>2, <2>3, <2>4, <2>5
  <2>. QED  BY <2>4, <2>5, <2>6, BatchAssumption DEF Cost
<1>6. Cost'
  <2>1. CASE ~saved.whole
    <3>1. Again' = {}  BY <1>1, <2>1 DEF Again, ToScan, NoScan
    <3>2. {} \in SUBSET Memes /\ Cardinality({}) = 0 /\ 0 \in 0 .. Batch
      BY FS_EmptySet, BatchAssumption
    <3>. QED  BY <3>1, <3>2, <1>5
  <2>2. CASE saved.whole
    <3>1. scan.at \notin {"idle"} \cup Writing  BY <1>1, <2>2 DEF Window
    <3>2. Again' \subseteq Old \cup More
      BY <1>1, <2>2 DEF RowsAreKnown, Again, HasRow, ToScan, NoScan, Unsaved
    <3>3. Unsaved \subseteq Memes /\ Hand \subseteq Memes
      BY DEF TypeOK, Scans, Unsaved, Hand
    <3>4. IsFiniteSet(Unsaved) /\ IsFiniteSet(More)
      BY <3>3, MemesAssumption, FS_Subset
    <3>5. scan.unsaved \in 0 .. (Batch - 1)  BY DEF TypeOK, Scans
    <3>6. Cardinality(More) <= Batch
      <4>1. CASE scan.at \in AtMeme
        <5>1. More = Unsaved \cup {scan.meme} /\ scan.at # "open"  BY <4>1 DEF Hand
        <5>2. Cardinality(More) = IF scan.meme \in Unsaved THEN Cardinality(Unsaved)
                                  ELSE Cardinality(Unsaved) + 1
          BY <3>4, <5>1, FS_AddElement
        <5>3. Cardinality(Unsaved) <= scan.unsaved  BY <3>1, <5>1 DEF Window
        <5>4. Cardinality(Unsaved) \in Nat  BY <3>4, FS_CardinalityType
        <5>. QED  BY <3>5, <5>2, <5>3, <5>4, BatchAssumption
      <4>2. CASE scan.at \notin AtMeme
        <5>1. More = Unsaved  BY <4>2 DEF Hand
        <5>2. Cardinality(Unsaved) <= IF scan.at = "open" THEN Batch ELSE scan.unsaved
          BY <3>1 DEF Window
        <5>3. Cardinality(Unsaved) \in Nat  BY <3>4, FS_CardinalityType
        <5>4. Cardinality(Unsaved) <= Batch
          <6>1. CASE scan.at = "open"  BY <5>2, <6>1
          <6>2. CASE scan.at # "open"  BY <3>5, <5>2, <5>3, <6>2, BatchAssumption
          <6>. QED  BY <6>1, <6>2
        <5>. QED  BY <5>1, <5>4
      <4>. QED  BY <4>1, <4>2
    <3>7. Cardinality(More) \in 0 .. Batch  BY <3>4, <3>6, FS_CardinalityType, BatchAssumption
    <3>. QED  BY <3>2, <3>3, <3>7, <1>5
  <2>. QED  BY <2>1, <2>2
<1>7. Window' /\ RowsAreKnown' /\ TakenUpOnce'
  BY <1>1 DEF NoScan, Window, Writing, RowsAreKnown, TakenUpOnce, Hand
<1>. QED  BY <1>6, <1>7

LEMMA CountNext == TypeOK /\ CountInv /\ [Next]_vars => CountInv'
<1> SUFFICES ASSUME TypeOK, CountInv, [Next]_vars PROVE CountInv'  OBVIOUS
<1>1. CASE StartScan  BY <1>1, StartScanCount
<1>2. CASE \E m \in Memes : Detect(m)  BY <1>2, DetectCount
<1>3. CASE \E f \in Faces : InsertFace(f)  BY <1>3, InsertFaceCount
<1>4. CASE InsertFails \/ OpenImage \/ SaveCrop
  <2>1. UNCHANGED <<saved, crashes, rows>>  BY <1>4 DEF InsertFails, OpenImage, SaveCrop
  <2>2. /\ scan'.todo = scan.todo /\ scan'.scanned = scan.scanned /\ scan'.unsaved = scan.unsaved
        /\ scan'.meme = scan.meme /\ scan'.left \subseteq scan.left
        /\ scan.at \in {"faces", "crop", "save"} /\ scan'.at \in AtMeme
    BY <1>4 DEF InsertFails, OpenImage, SaveCrop, TypeOK, Scans
  <2>. QED  BY <2>1, <2>2, QuietStep
<1>5. CASE Mark  BY <1>5, MarkCount
<1>6. CASE Finish  BY <1>6, FinishCount
<1>7. CASE OpenState  BY <1>7, OpenStateCount
<1>8. CASE WriteState  BY <1>8, WriteStateCount
<1>9. CASE Killed  BY <1>9, KilledCount
<1>10. CASE \/ \E m \in Memes : Upload(m) \/ DeleteImage(m)
            \/ \E ms \in SUBSET Memes : ListCrops(ms)
            \/ DeleteRow \/ DeleteCrops \/ DeletionFails \/ UNCHANGED vars
  <2>1. UNCHANGED <<saved, crashes, scan>> /\ rows' \subseteq rows
    BY <1>10 DEF Upload, ListCrops, DeleteImage, DeleteRow, DeleteCrops, DeletionFails, vars
  <2>. QED  BY <2>1, QuietStep
<1>. QED
  BY <1>1, <1>2, <1>3, <1>4, <1>5, <1>6, <1>7, <1>8, <1>9, <1>10 DEF Next

(* The count behind the cost of a kill holds in every behaviour: the memes  *)
(* with a face twice, with those that may yet get one, are no more than a   *)
(* batch for each kill, and what a run has scanned beyond the file is no    *)
(* more than a batch (extract in face_cluster.py).                          *)
THEOREM CountIsKept == Spec => []CountInv
BY CountInit, CountNext, TypeCorrect, PTL DEF Spec

(* A kill costs at most one batch, for any batch, memes and faces, and      *)
(* however uploads and deletions fall in between (face_cluster.py 69-74).   *)
THEOREM KillsAreCheap == Spec => []KillsCostOneBatch
<1>1. TypeOK /\ CountInv => KillsCostOneBatch
  <2> SUFFICES ASSUME TypeOK, CountInv PROVE Cardinality(Doubled) <= Batch * crashes
    BY DEF KillsCostOneBatch, Doubled
  <2>1. IsFiniteSet(Doubled \cup Again)  BY MemesAssumption, FS_Subset DEF Doubled, Again
  <2>2. Cardinality(Doubled) <= Cardinality(Doubled \cup Again)  BY <2>1, FS_Subset
  <2>3. Cardinality(Doubled) \in Nat /\ Cardinality(Doubled \cup Again) \in Nat
    BY <2>1, FS_Subset, FS_CardinalityType
  <2>4. Batch * crashes \in Nat  BY BatchAssumption DEF TypeOK
  <2>. QED  BY <2>2, <2>3, <2>4 DEF CountInv, Cost
<1>. QED  BY <1>1, CountIsKept, TypeCorrect, PTL

=============================================================================
