----------------------- MODULE FetchStickers_proofs -----------------------
(***************************************************************************)
(* Proofs about FetchStickers, for any packs, stickers, limits, failures   *)
(* and kills.                                                              *)
(*                                                                         *)
(* The inductive invariant says where the pack being fetched stands, what  *)
(* the file holds between two packs, and that a post beyond those a kill   *)
(* or a lost answer accounts for is one whose hash is known.               *)
(***************************************************************************)
EXTENDS FetchStickers, TLAPS

\* A pack is open between NextPack and EndPack, within the limits.
PackOpen ==
    /\ run.at \in {"files", "post"} => run.pack \in Packs /\ run.taken < MaxPacks
    /\ run.at = "post" =>
         /\ run.sticker \in Stickers \ run.hashes
         /\ run.uploaded < MaxStickers

\* Between packs the file holds what the run knows.
FileKeepsUp ==
    run.at \in {"keyword", "page", "packs"} => saved.hashes = run.hashes

\* Each sticker of the open pack is dealt with or still to come.
PackProgress ==
    run.at \in {"files", "post"} =>
        \A s \in StickersOf[run.pack] :
            \/ s \in stored \/ <<run.pack, s>> \in lost \/ s \in run.left
            \/ run.at = "post" /\ s = run.sticker

\* What is known of a sticker: the run's memory, or the file's between runs.
KnownHashes == IF run.at = "idle" THEN saved.hashes ELSE run.hashes

Accounted ==
    \A s \in Stickers :
        /\ posts[s] <= 1 + crashes + unanswered[s]
        /\ s \notin KnownHashes => posts[s] <= crashes + unanswered[s]

IInv ==
    /\ Types /\ Limits /\ PackOpen /\ FileKeepsUp
    /\ HashesAreStored /\ PackProgress /\ SeenPacksAreFetched
    /\ Accounted

USE DEF Places, outside, history

-----------------------------------------------------------------------------
\* What the type of a run says of its fields, and of their next values.
LEMMA RunFields ==
  ASSUME Types
  PROVE  /\ run.packs \subseteq Packs /\ run.listed \subseteq Packs
         /\ run.hashes \subseteq Stickers /\ run.left \subseteq Stickers
         /\ {run.uploaded, run.keyword, run.page, run.taken} \subseteq Nat
         /\ {run.uploaded + 1, run.keyword + 1, run.page + 1, run.taken + 1} \subseteq Nat
BY DEF Types, Runs

LEMMA NoRunType == NoRun \in Runs
BY DEF NoRun, Runs

LEMMA NextKeywordType ==
  ASSUME Types, NextKeyword
  PROVE  run' \in Runs
<1>1. PICK k \in Nat :
         \/ run' = NoRun
         \/ run' = [run EXCEPT !.at = "page", !.keyword = k, !.page = 0, !.taken = 0]
  BY RunFields DEF NextKeyword
<1>2. ASSUME run' = [run EXCEPT !.at = "page", !.keyword = k, !.page = 0, !.taken = 0]
      PROVE  run' \in Runs
  BY <1>2 DEF Types, Runs
<1>. QED  BY <1>1, <1>2, NoRunType

LEMMA SearchType ==
  ASSUME Types, Search
  PROVE  run' \in Runs
<1>1. PICK k \in Nat, found \in SUBSET Packs :
         \/ run' = [run EXCEPT !.at = "packs", !.page = k, !.listed = found]
         \/ run' = [run EXCEPT !.at = "keyword"]
  BY RunFields DEF Search
<1>. QED  BY <1>1 DEF Types, Runs

\* The two outcomes of NextPack.
LEMMA NextPackCases ==
  ASSUME Types, NextPack
  PROVE  \/ run' = [run EXCEPT !.at = "page", !.listed = {}]
         \/ /\ run.taken < MaxPacks
            /\ \E p \in run.listed \ run.packs :
                 run' = [run EXCEPT !.at = "files", !.listed = @ \ {p},
                                    !.pack = p, !.left = StickersOf[p]]
<1>1. ~(run.taken >= MaxPacks) => run.taken < MaxPacks  BY LimitsAssumption DEF Types, Runs
<1>. QED  BY <1>1, Zenon DEF NextPack

LEMMA NextPackType ==
  ASSUME Types, NextPack
  PROVE  run' \in Runs
<1>1. ASSUME run' = [run EXCEPT !.at = "page", !.listed = {}] PROVE run' \in Runs
  BY <1>1 DEF Types, Runs
<1>2. ASSUME NEW p \in run.listed \ run.packs,
             run' = [run EXCEPT !.at = "files", !.listed = @ \ {p},
                                !.pack = p, !.left = StickersOf[p]]
      PROVE  run' \in Runs
  <2>1. PICK l \in SUBSET Stickers :
          run' = [run EXCEPT !.at = "files", !.listed = @ \ {p}, !.pack = p, !.left = l]
    BY <1>2, RunFields, StickersOfAssumption
  <2>2. p \in Packs  BY RunFields
  <2>. QED  BY <2>1, <2>2 DEF Types, Runs
<1>. QED  BY <1>1, <1>2, NextPackCases

LEMMA DownloadType ==
  ASSUME Types, NEW s \in Stickers, Download(s)
  PROVE  run' \in Runs
<1>1. PICK l \in SUBSET Stickers :
         \/ run' = [run EXCEPT !.left = l, !.at = "files", !.sticker = None]
         \/ run' = [run EXCEPT !.left = l, !.at = "post", !.sticker = s]
         \/ run' = [run EXCEPT !.left = l]
  BY RunFields DEF Download
<1>2. run \in Runs  BY DEF Types
<1>3. CASE run' = [run EXCEPT !.left = l, !.at = "files", !.sticker = None]  BY <1>2, <1>3 DEF Runs
<1>4. CASE run' = [run EXCEPT !.left = l, !.at = "post", !.sticker = s]  BY <1>2, <1>4 DEF Runs
<1>5. CASE run' = [run EXCEPT !.left = l]  BY <1>2, <1>5 DEF Runs
<1>. QED  BY <1>1, <1>3, <1>4, <1>5

LEMMA UploadedType ==
  ASSUME Types, PackOpen, Uploaded
  PROVE  run' \in Runs
<1>1. PICK n \in Nat, h \in SUBSET Stickers :
         run' = [run EXCEPT !.at = "files", !.sticker = None, !.hashes = h, !.uploaded = n]
  <2>1. run.uploaded + 1 \in Nat /\ run.hashes \cup {run.sticker} \in SUBSET Stickers
    BY RunFields DEF PackOpen, Uploaded
  <2>. QED  BY <2>1 DEF Uploaded
<1>. QED  BY <1>1 DEF Types, Runs

LEMMA UploadFailsType ==
  ASSUME Types, UploadFails
  PROVE  run' \in Runs
BY DEF UploadFails, Types, Runs

LEMMA EndPackType ==
  ASSUME Types, PackOpen, EndPack
  PROVE  run' \in Runs
<1>1. PICK n \in Nat, seen \in SUBSET Packs :
         run' = [run EXCEPT !.at = "open", !.packs = seen, !.taken = n, !.pack = None, !.left = {}]
  <2>1. run.taken + 1 \in Nat /\ run.packs \cup {run.pack} \in SUBSET Packs
    BY RunFields DEF PackOpen, EndPack
  <2>. QED  BY <2>1 DEF EndPack
<1>. QED  BY <1>1 DEF Types, Runs

-----------------------------------------------------------------------------
LEMMA InitIInv == Init => IInv
<1> SUFFICES ASSUME Init PROVE IInv  OBVIOUS
<1> USE LimitsAssumption, NoneAssumption
<1>1. Types  BY NoRunType DEF Init, Types, Files
<1>2. Limits /\ PackOpen /\ FileKeepsUp /\ PackProgress
  BY DEF Init, NoRun, Limits, PackOpen, FileKeepsUp, PackProgress
<1>3. HashesAreStored /\ SeenPacksAreFetched
  BY DEF Init, NoRun, HashesAreStored, SeenPacksAreFetched
<1>4. Accounted  BY DEF Init, NoRun, Accounted, KnownHashes
<1>. QED  BY <1>1, <1>2, <1>3, <1>4 DEF IInv

LEMMA StartRunStep ==
  ASSUME IInv, StartRun
  PROVE  IInv'
<1> USE LimitsAssumption, NoneAssumption, StickersOfAssumption
<1>0. Types /\ Limits /\ PackOpen  BY DEF IInv
<1>1. Types'  BY <1>0 DEF Types, Runs, Files, StartRun, NoRun
<1>2. Limits' /\ PackOpen'
  BY <1>0 DEF Types, Runs, Limits, PackOpen, StartRun, NoRun
<1>3. FileKeepsUp' /\ HashesAreStored'
  BY <1>0 DEF IInv, FileKeepsUp, HashesAreStored, Types, Runs, PackOpen, StartRun, NoRun
<1>4. PackProgress'
  BY <1>0 DEF IInv, PackProgress, HashesAreStored, Types, Runs, PackOpen, StartRun, NoRun
<1>5. SeenPacksAreFetched'
  BY <1>0 DEF IInv, SeenPacksAreFetched, PackProgress, Types, Runs, Limits, PackOpen, StartRun, NoRun
<1>6. Accounted'
  BY <1>0 DEF IInv, Accounted, KnownHashes, FileKeepsUp, Types, Runs, Limits, PackOpen, StartRun, NoRun
<1>. QED  BY <1>1, <1>2, <1>3, <1>4, <1>5, <1>6 DEF IInv

LEMMA NextKeywordStep ==
  ASSUME IInv, NextKeyword
  PROVE  IInv'
<1> USE LimitsAssumption, NoneAssumption, StickersOfAssumption
<1>0. Types /\ Limits /\ PackOpen  BY DEF IInv
<1>1. Types'  BY <1>0, NextKeywordType DEF Types, PackOpen, NextKeyword
<1>2. Limits' /\ PackOpen'
  BY <1>0 DEF Types, Runs, Limits, PackOpen, NextKeyword, Full, NoRun
<1>3. FileKeepsUp' /\ HashesAreStored'
  BY <1>0 DEF IInv, FileKeepsUp, HashesAreStored, Types, Runs, PackOpen, NextKeyword, Full, NoRun
<1>4. PackProgress'
  BY <1>0 DEF IInv, PackProgress, HashesAreStored, Types, Runs, PackOpen, NextKeyword, Full, NoRun
<1>5. SeenPacksAreFetched'
  BY <1>0 DEF IInv, SeenPacksAreFetched, PackProgress, Types, Runs, Limits, PackOpen, NextKeyword, Full, NoRun
<1>6. Accounted'
  BY <1>0 DEF IInv, Accounted, KnownHashes, FileKeepsUp, Types, Runs, Limits, PackOpen, NextKeyword, Full, NoRun
<1>. QED  BY <1>1, <1>2, <1>3, <1>4, <1>5, <1>6 DEF IInv

LEMMA SearchStep ==
  ASSUME IInv, Search
  PROVE  IInv'
<1> USE LimitsAssumption, NoneAssumption, StickersOfAssumption
<1>0. Types /\ Limits /\ PackOpen  BY DEF IInv
<1>1. Types'
  <2>0. budget' = budget \/ Spend  BY Zenon DEF Search
  <2>1. budget' \in Nat  BY <1>0, <2>0 DEF Types, Spend
  <2>. QED  BY <1>0, <2>1, SearchType DEF Types, Search
<1>2. Limits' /\ PackOpen'
  <2>1. /\ run'.at \in {"packs", "keyword"} /\ run.at = "page"
        /\ run'.packs = run.packs /\ run'.hashes = run.hashes
        /\ run'.uploaded = run.uploaded /\ run'.taken = run.taken
    <3>1. run \in Runs  BY <1>0 DEF Types
    <3>2. CASE \E found \in SUBSET Packs :
                 run' = [run EXCEPT !.at = "packs", !.page = @ + 1, !.listed = found]
      BY <3>1, <3>2 DEF Runs, Search
    <3>3. CASE run' = [run EXCEPT !.at = "keyword"]  BY <3>1, <3>3 DEF Runs, Search
    <3>. QED  BY <3>2, <3>3 DEF Search
  <2>2. saved' = saved  BY DEF Search
  <2>. QED  BY <1>0, <2>1, <2>2 DEF Limits, PackOpen
<1>3. FileKeepsUp' /\ HashesAreStored'
  BY <1>0 DEF IInv, FileKeepsUp, HashesAreStored, Types, Runs, PackOpen, Search
<1>4. PackProgress'
  BY <1>0 DEF IInv, PackProgress, HashesAreStored, Types, Runs, PackOpen, Search
<1>5. SeenPacksAreFetched'
  BY <1>0 DEF IInv, SeenPacksAreFetched, PackProgress, Types, Runs, Limits, PackOpen, Search
<1>6. Accounted'
  BY <1>0 DEF IInv, Accounted, KnownHashes, FileKeepsUp, Types, Runs, Limits, PackOpen, Search
<1>. QED  BY <1>1, <1>2, <1>3, <1>4, <1>5, <1>6 DEF IInv

LEMMA NextPackStep ==
  ASSUME IInv, NextPack
  PROVE  IInv'
<1> USE LimitsAssumption, NoneAssumption, StickersOfAssumption
<1>0. Types /\ Limits /\ PackOpen  BY DEF IInv
<1>1. Types'  BY <1>0, NextPackType DEF Types, PackOpen, NextPack
<1>2. ASSUME run' = [run EXCEPT !.at = "page", !.listed = {}] PROVE IInv'
  BY <1>0, <1>1, <1>2 DEF IInv, Runs, Types, Limits, PackOpen, FileKeepsUp, HashesAreStored,
       PackProgress, SeenPacksAreFetched, Accounted, KnownHashes, NextPack
<1>3. ASSUME run.taken < MaxPacks, NEW p \in run.listed \ run.packs,
             run' = [run EXCEPT !.at = "files", !.listed = @ \ {p},
                                !.pack = p, !.left = StickersOf[p]]
      PROVE  IInv'
  <2>1. p \in Packs  BY <1>0, RunFields
  <2>2. Limits' /\ PackOpen'  BY <1>0, <1>3, <2>1 DEF Types, Runs, Limits, PackOpen, NextPack
  <2>3. FileKeepsUp' /\ HashesAreStored' /\ PackProgress'
    BY <1>0, <1>3 DEF IInv, Types, Runs, FileKeepsUp, HashesAreStored, PackProgress, NextPack
  <2>4. SeenPacksAreFetched' /\ Accounted'
    BY <1>0, <1>3 DEF IInv, Types, Runs, SeenPacksAreFetched, Accounted, KnownHashes, NextPack
  <2>. QED  BY <1>1, <2>2, <2>3, <2>4 DEF IInv
<1>. QED  BY <1>0, <1>2, <1>3, NextPackCases

LEMMA DownloadStep ==
  ASSUME IInv, NEW s \in Stickers, Download(s)
  PROVE  IInv'
<1> USE LimitsAssumption, NoneAssumption, StickersOfAssumption
<1>0. Types /\ Limits /\ PackOpen  BY DEF IInv
<1>1. Types'
  <2>1. budget' \in Nat  BY <1>0 DEF Types, Download, Spend
  <2>2. lost' \subseteq Packs \X Stickers  BY <1>0 DEF Types, PackOpen, Download
  <2>. QED  BY <1>0, <2>1, <2>2, DownloadType DEF Types, Download
<1>2. CASE s \in run.hashes /\ run' = [run EXCEPT !.left = @ \ {s}, !.at = "files", !.sticker = None]
  BY <1>0, <1>1, <1>2 DEF IInv, Runs, Types, Limits, PackOpen, FileKeepsUp, HashesAreStored,
       PackProgress, SeenPacksAreFetched, Accounted, KnownHashes, Download, Spend
<1>3. CASE s \notin run.hashes /\ run' = [run EXCEPT !.left = @ \ {s}, !.at = "post", !.sticker = s]
  BY <1>0, <1>1, <1>3 DEF IInv, Runs, Types, Limits, PackOpen, FileKeepsUp, HashesAreStored,
       PackProgress, SeenPacksAreFetched, Accounted, KnownHashes, Download, Full, Spend
<1>4. CASE run' = [run EXCEPT !.left = @ \ {s}] /\ lost' = lost \cup {<<run.pack, s>>}
  BY <1>0, <1>1, <1>4 DEF IInv, Runs, Types, Limits, PackOpen, FileKeepsUp, HashesAreStored,
       PackProgress, SeenPacksAreFetched, Accounted, KnownHashes, Download
<1>. QED  BY <1>2, <1>3, <1>4 DEF Download

LEMMA UploadedStep ==
  ASSUME IInv, Uploaded
  PROVE  IInv'
<1> USE LimitsAssumption, NoneAssumption, StickersOfAssumption
<1>0. Types /\ Limits /\ PackOpen  BY DEF IInv
<1>1. Types'  BY <1>0, UploadedType DEF Types, PackOpen, Uploaded
<1>2. Limits' /\ PackOpen'
  BY <1>0 DEF Types, Runs, Limits, PackOpen, Uploaded
<1>3. FileKeepsUp' /\ HashesAreStored'
  BY <1>0 DEF IInv, FileKeepsUp, HashesAreStored, Types, Runs, PackOpen, Uploaded
<1>4. PackProgress'
  BY <1>0 DEF IInv, PackProgress, HashesAreStored, Types, Runs, PackOpen, Uploaded
<1>5. SeenPacksAreFetched'
  BY <1>0 DEF IInv, SeenPacksAreFetched, PackProgress, Types, Runs, Limits, PackOpen, Uploaded
<1>6. Accounted'
  BY <1>0 DEF IInv, Accounted, KnownHashes, FileKeepsUp, Types, Runs, Limits, PackOpen, Uploaded
<1>. QED  BY <1>1, <1>2, <1>3, <1>4, <1>5, <1>6 DEF IInv

LEMMA UploadFailsStep ==
  ASSUME IInv, UploadFails
  PROVE  IInv'
<1> USE LimitsAssumption, NoneAssumption, StickersOfAssumption
<1>0. Types /\ Limits /\ PackOpen  BY DEF IInv
<1>1. Types'  BY <1>0, UploadFailsType DEF Types, PackOpen, UploadFails, Spend
<1>2. Limits' /\ PackOpen'
  BY <1>0 DEF Types, Runs, Limits, PackOpen, UploadFails
<1>3. FileKeepsUp' /\ HashesAreStored'
  BY <1>0 DEF IInv, FileKeepsUp, HashesAreStored, Types, Runs, PackOpen, UploadFails
<1>4. PackProgress'
  BY <1>0 DEF IInv, PackProgress, HashesAreStored, Types, Runs, PackOpen, UploadFails
<1>5. SeenPacksAreFetched'
  BY <1>0 DEF IInv, SeenPacksAreFetched, PackProgress, Types, Runs, Limits, PackOpen, UploadFails
<1>6. Accounted'
  BY <1>0 DEF IInv, Accounted, KnownHashes, FileKeepsUp, Types, Runs, Limits, PackOpen, UploadFails
<1>. QED  BY <1>1, <1>2, <1>3, <1>4, <1>5, <1>6 DEF IInv

LEMMA EndPackStep ==
  ASSUME IInv, EndPack
  PROVE  IInv'
<1> USE LimitsAssumption, NoneAssumption, StickersOfAssumption
<1>0. Types /\ Limits /\ PackOpen  BY DEF IInv
<1>1. Types'
  <2>1. {run.pack} \X run.left \subseteq Packs \X Stickers  BY <1>0, RunFields DEF PackOpen, EndPack
  <2>2. lost' \subseteq Packs \X Stickers  BY <1>0, <2>1, Zenon DEF Types, EndPack
  <2>. QED  BY <1>0, <2>2, EndPackType DEF Types, EndPack
<1>2. Limits' /\ PackOpen'
  BY <1>0 DEF Types, Runs, Limits, PackOpen, EndPack, Full
<1>3. FileKeepsUp' /\ HashesAreStored'
  BY <1>0 DEF IInv, FileKeepsUp, HashesAreStored, Types, Runs, PackOpen, EndPack, Full
<1>4. PackProgress'
  BY <1>0 DEF IInv, PackProgress, HashesAreStored, Types, Runs, PackOpen, EndPack, Full
<1>5. SeenPacksAreFetched'
  BY <1>0 DEF IInv, SeenPacksAreFetched, PackProgress, Types, Runs, Limits, PackOpen, EndPack, Full
<1>6. Accounted'
  BY <1>0 DEF IInv, Accounted, KnownHashes, FileKeepsUp, Types, Runs, Limits, PackOpen, EndPack, Full
<1>. QED  BY <1>1, <1>2, <1>3, <1>4, <1>5, <1>6 DEF IInv

LEMMA OpenStateStep ==
  ASSUME IInv, OpenState
  PROVE  IInv'
<1> USE LimitsAssumption, NoneAssumption, StickersOfAssumption
<1>0. Types /\ Limits /\ PackOpen  BY DEF IInv
<1>1. Types'
  <2>1. saved' \in Files  BY DEF Files, OpenState
  <2>2. run' \in Runs  BY <1>0 DEF Types, Runs, OpenState
  <2>. QED  BY <1>0, <2>1, <2>2 DEF Types, OpenState
<1>2. Limits' /\ PackOpen'
  BY <1>0 DEF Types, Runs, Limits, PackOpen, OpenState
<1>3. FileKeepsUp' /\ HashesAreStored'
  BY <1>0 DEF IInv, FileKeepsUp, HashesAreStored, Types, Runs, PackOpen, OpenState
<1>4. PackProgress'
  BY <1>0 DEF IInv, PackProgress, HashesAreStored, Types, Runs, PackOpen, OpenState
<1>5. SeenPacksAreFetched'
  BY <1>0 DEF IInv, SeenPacksAreFetched, PackProgress, Types, Runs, Limits, PackOpen, OpenState
<1>6. Accounted'
  BY <1>0 DEF IInv, Accounted, KnownHashes, FileKeepsUp, Types, Runs, Limits, PackOpen, OpenState
<1>. QED  BY <1>1, <1>2, <1>3, <1>4, <1>5, <1>6 DEF IInv

LEMMA WriteStateStep ==
  ASSUME IInv, WriteState
  PROVE  IInv'
<1> USE LimitsAssumption, NoneAssumption, StickersOfAssumption
<1>0. Types /\ Limits /\ PackOpen  BY DEF IInv
<1>1. Types'
  <2>1. saved' \in Files  BY <1>0, RunFields DEF Files, WriteState
  <2>2. run' \in Runs  BY <1>0 DEF Types, Runs, WriteState
  <2>. QED  BY <1>0, <2>1, <2>2 DEF Types, WriteState
<1>2. Limits' /\ PackOpen'
  BY <1>0 DEF Types, Runs, Limits, PackOpen, WriteState
<1>3. FileKeepsUp' /\ HashesAreStored'
  BY <1>0 DEF IInv, FileKeepsUp, HashesAreStored, Types, Runs, PackOpen, WriteState
<1>4. PackProgress'
  BY <1>0 DEF IInv, PackProgress, HashesAreStored, Types, Runs, PackOpen, WriteState
<1>5. SeenPacksAreFetched'
  BY <1>0 DEF IInv, SeenPacksAreFetched, PackProgress, Types, Runs, Limits, PackOpen, WriteState
<1>6. Accounted'
  BY <1>0 DEF IInv, Accounted, KnownHashes, FileKeepsUp, Types, Runs, Limits, PackOpen, WriteState
<1>. QED  BY <1>1, <1>2, <1>3, <1>4, <1>5, <1>6 DEF IInv

LEMMA KilledStep ==
  ASSUME IInv, Killed
  PROVE  IInv'
<1> USE LimitsAssumption, NoneAssumption, StickersOfAssumption
<1>0. Types /\ Limits /\ PackOpen  BY DEF IInv
<1>1. Types'  BY <1>0, NoRunType DEF Types, Killed, Spend
<1>2. Limits' /\ PackOpen'
  BY <1>0 DEF Types, Runs, Limits, PackOpen, Killed, NoRun
<1>3. FileKeepsUp' /\ HashesAreStored'
  BY <1>0 DEF IInv, FileKeepsUp, HashesAreStored, Types, Runs, PackOpen, Killed, NoRun
<1>4. PackProgress'
  BY <1>0 DEF IInv, PackProgress, HashesAreStored, Types, Runs, PackOpen, Killed, NoRun
<1>5. SeenPacksAreFetched'
  BY <1>0 DEF IInv, SeenPacksAreFetched, PackProgress, Types, Runs, Limits, PackOpen, Killed, NoRun
<1>6. Accounted'
  BY <1>0 DEF IInv, Accounted, KnownHashes, FileKeepsUp, Types, Runs, Limits, PackOpen, Killed, NoRun
<1>. QED  BY <1>1, <1>2, <1>3, <1>4, <1>5, <1>6 DEF IInv

LEMMA UserDeletesStep ==
  ASSUME IInv, NEW s \in Stickers, UserDeletes(s)
  PROVE  IInv'
<1> USE LimitsAssumption, NoneAssumption, StickersOfAssumption
<1>0. Types /\ Limits /\ PackOpen  BY DEF IInv
<1>1. Types'  BY <1>0 DEF Types, UserDeletes, Spend
<1>2. Limits' /\ PackOpen'
  BY <1>0 DEF Types, Runs, Limits, PackOpen, UserDeletes
<1>3. FileKeepsUp' /\ HashesAreStored'
  BY <1>0 DEF IInv, FileKeepsUp, HashesAreStored, Types, Runs, PackOpen, UserDeletes
<1>4. PackProgress'
  BY <1>0 DEF IInv, PackProgress, HashesAreStored, Types, Runs, PackOpen, UserDeletes
<1>5. SeenPacksAreFetched'
  BY <1>0 DEF IInv, SeenPacksAreFetched, PackProgress, Types, Runs, Limits, PackOpen, UserDeletes
<1>6. Accounted'
  BY <1>0 DEF IInv, Accounted, KnownHashes, FileKeepsUp, Types, Runs, Limits, PackOpen, UserDeletes
<1>. QED  BY <1>1, <1>2, <1>3, <1>4, <1>5, <1>6 DEF IInv

LEMMA StutterStep == IInv /\ UNCHANGED vars => IInv'
BY DEF IInv, Types, Limits, PackOpen, FileKeepsUp, HashesAreStored, PackProgress,
       SeenPacksAreFetched, Accounted, KnownHashes, Full, vars

LEMMA NextIInv == IInv /\ [Next]_vars => IInv'
<1> SUFFICES ASSUME IInv, [Next]_vars PROVE IInv'  OBVIOUS
<1>1. CASE StartRun  BY <1>1, StartRunStep
<1>2. CASE NextKeyword  BY <1>2, NextKeywordStep
<1>3. CASE Search  BY <1>3, SearchStep
<1>4. CASE NextPack  BY <1>4, NextPackStep
<1>5. CASE \E s \in Stickers : Download(s)  BY <1>5, DownloadStep
<1>6. CASE Uploaded  BY <1>6, UploadedStep
<1>7. CASE UploadFails  BY <1>7, UploadFailsStep
<1>8. CASE EndPack  BY <1>8, EndPackStep
<1>9. CASE OpenState  BY <1>9, OpenStateStep
<1>10. CASE WriteState  BY <1>10, WriteStateStep
<1>11. CASE Killed  BY <1>11, KilledStep
<1>12. CASE \E s \in Stickers : UserDeletes(s)  BY <1>12, UserDeletesStep
<1>13. CASE UNCHANGED vars  BY <1>13, StutterStep
<1>. QED
  BY <1>1, <1>2, <1>3, <1>4, <1>5, <1>6, <1>7, <1>8, <1>9, <1>10, <1>11, <1>12, <1>13
  DEF Next

-----------------------------------------------------------------------------
(* The inductive invariant holds in every reachable state of a run and of   *)
(* the runs after it.                                                       *)
THEOREM Invariance == Spec => []IInv
BY InitIInv, NextIInv, PTL DEF Spec

(* Every variable keeps its type, a run keeps to the limits on packs and    *)
(* uploads, and knows at least what the file knows (fetch_stickers.py       *)
(* 124-151).                                                                *)
THEOREM TypeCorrect == Spec => []TypeOK
<1>1. IInv => TypeOK  BY DEF IInv, TypeOK
<1>. QED  BY <1>1, Invariance, PTL

(* A hash in memory or in the file is that of a sticker the server has got  *)
(* (fetch_stickers.py 174-181).                                             *)
THEOREM KnownIsStored == Spec => []HashesAreStored
<1>1. IInv => HashesAreStored  BY DEF IInv
<1>. QED  BY <1>1, Invariance, PTL

(* A sticker of a pack that counts as seen has reached the server, has      *)
(* failed itself or was left at the limit (fetch_stickers.py 159-184).      *)
THEOREM SeenIsFetched == Spec => []SeenPacksAreFetched
<1>1. IInv => SeenPacksAreFetched  BY DEF IInv
<1>. QED  BY <1>1, Invariance, PTL

(* Each post of a sticker beyond the first is accounted for by a kill or by *)
(* a post without a good answer (fetch_stickers.py 169-188).                *)
THEOREM NewIsPostedOnce == Spec => []PostedOnce
<1>1. IInv => PostedOnce  BY DEF IInv, Accounted, PostedOnce
<1>. QED  BY <1>1, Invariance, PTL

=============================================================================
