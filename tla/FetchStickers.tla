--------------------------- MODULE FetchStickers ---------------------------
(***************************************************************************)
(* scripts/fetch_stickers.py: a run searches the site keyword by keyword   *)
(* and page by page, downloads the stickers of every pack it does not know *)
(* and posts those it does not know to the server.  What it knows, packs   *)
(* and hashes, is in fetch_state.json, written over the old text after     *)
(* every pack.  Searches, downloads and uploads may fail, the answer to an *)
(* upload may be lost, and the process may be killed anywhere and run      *)
(* again.  A sticker is named by its content, as its hash names it.        *)
(***************************************************************************)
EXTENDS Integers, FiniteSets

CONSTANTS
    Packs, Stickers, None,
    StickersOf,     \* the stickers of a pack
    Keywords,       \* number of keywords
    Pages,          \* --pages-per-keyword
    MaxPacks,       \* --max-packs-per-keyword
    MaxStickers,    \* --max-stickers
    Budget          \* bound: failures, crashes and deletions

ASSUME StickersOfAssumption == StickersOf \in [Packs -> SUBSET Stickers]
ASSUME LimitsAssumption == {Keywords, Pages, MaxPacks, MaxStickers, Budget} \subseteq Nat
ASSUME NoneAssumption == None \notin Packs \cup Stickers

VARIABLES
    saved,      \* fetch_state.json: not whole between its opening and its writing
    run,        \* the process
    server,     \* stickers the server has
    stored,     \* history: stickers the server has had
    posts,      \* history: how often a sticker was posted
    unanswered, \* history: posts of a sticker the script was told nothing good of
    lost,       \* history: stickers of a pack that failed or were left at the limit
    crashes,
    budget

vars == <<saved, run, server, stored, posts, unanswered, lost, crashes, budget>>
outside == <<server, stored, posts, unanswered>>
history == <<lost, crashes>>

NoRun == [at |-> "idle", packs |-> {}, hashes |-> {}, uploaded |-> 0, keyword |-> 0, page |-> 0,
          taken |-> 0, listed |-> {}, pack |-> None, left |-> {}, sticker |-> None]

Init ==
    /\ saved = [whole |-> TRUE, packs |-> {}, hashes |-> {}]
    /\ run = NoRun
    /\ server = {} /\ stored = {}
    /\ posts = [s \in Stickers |-> 0] /\ unanswered = [s \in Stickers |-> 0]
    /\ lost = {} /\ crashes = 0 /\ budget = Budget

Spend == budget > 0 /\ budget' = budget - 1
Full == run.uploaded >= MaxStickers

-----------------------------------------------------------------------------
\* Mutant: the packs are read, the hashes are not.
StartRun_PacksOnly ==
    /\ run.at = "idle" /\ saved.whole
    /\ run' = [NoRun EXCEPT !.at = "keyword", !.packs = saved.packs]
    /\ UNCHANGED <<saved, outside, history, budget>>

\* A file that is no JSON ends the run before it starts.
StartRun ==
    /\ run.at = "idle" /\ saved.whole
    /\ run' = [NoRun EXCEPT !.at = "keyword", !.packs = saved.packs, !.hashes = saved.hashes]
    /\ UNCHANGED <<saved, outside, history, budget>>

NextKeyword ==
    /\ run.at = "keyword"
    /\ run' = IF Full \/ run.keyword = Keywords
              THEN NoRun
              ELSE [run EXCEPT !.at = "page", !.keyword = @ + 1, !.page = 0, !.taken = 0]
    /\ UNCHANGED <<saved, outside, history, budget>>

\* Any packs may be found, in any order; a search that fails ends the keyword.
Search ==
    /\ run.at = "page"
    /\ \/ /\ run.page < Pages /\ run.taken < MaxPacks
          /\ \E found \in SUBSET Packs :
                run' = [run EXCEPT !.at = "packs", !.page = @ + 1, !.listed = found]
          /\ UNCHANGED budget
       \/ /\ run.page < Pages /\ run.taken < MaxPacks /\ Spend
          /\ run' = [run EXCEPT !.at = "keyword"]
       \/ /\ run.page >= Pages \/ run.taken >= MaxPacks
          /\ run' = [run EXCEPT !.at = "keyword"]
          /\ UNCHANGED budget
    /\ UNCHANGED <<saved, outside, history>>

NextPack ==
    /\ run.at = "packs"
    /\ LET new == run.listed \ run.packs
       IN  IF Full \/ run.taken >= MaxPacks \/ new = {}
           THEN run' = [run EXCEPT !.at = "page", !.listed = {}]
           ELSE \E p \in new :
                  run' = [run EXCEPT !.at = "files", !.listed = @ \ {p},
                                     !.pack = p, !.left = StickersOf[p]]
    /\ UNCHANGED <<saved, outside, history, budget>>

\* Mutant: a download that fails ends the pack.
Download_EndsPack(s) ==
    /\ run.at = "files" /\ ~Full /\ s \in run.left
    /\ \/ /\ run' = [run EXCEPT !.left = @ \ {s},
                                !.at = IF s \in run.hashes THEN "files" ELSE "post",
                                !.sticker = IF s \in run.hashes THEN None ELSE s]
          /\ UNCHANGED <<lost, budget>>
       \/ /\ Spend
          /\ run' = [run EXCEPT !.left = {}]
          /\ lost' = lost \cup {<<run.pack, s>>}
    /\ UNCHANGED <<saved, outside, crashes>>

Download(s) ==
    /\ run.at = "files" /\ ~Full /\ s \in run.left
    /\ \/ /\ run' = [run EXCEPT !.left = @ \ {s},
                                !.at = IF s \in run.hashes THEN "files" ELSE "post",
                                !.sticker = IF s \in run.hashes THEN None ELSE s]
          /\ UNCHANGED <<lost, budget>>
       \/ /\ Spend
          /\ run' = [run EXCEPT !.left = @ \ {s}]
          /\ lost' = lost \cup {<<run.pack, s>>}
    /\ UNCHANGED <<saved, outside, crashes>>

\* The server has it at most once, however often it is posted.  A refusal
\* and an answer that does not come are the same to the script.
Uploaded ==
    /\ run.at = "post"
    /\ posts' = [posts EXCEPT ![run.sticker] = @ + 1]
    /\ server' = server \cup {run.sticker} /\ stored' = stored \cup {run.sticker}
    /\ run' = [run EXCEPT !.at = "files", !.sticker = None,
                          !.hashes = @ \cup {run.sticker}, !.uploaded = @ + 1]
    /\ UNCHANGED <<saved, unanswered, history, budget>>

\* Mutant: the hash is remembered before the answer is looked at.
UploadFails_Remembers ==
    /\ run.at = "post" /\ Spend
    /\ posts' = [posts EXCEPT ![run.sticker] = @ + 1]
    /\ unanswered' = [unanswered EXCEPT ![run.sticker] = @ + 1]
    /\ lost' = lost \cup {<<run.pack, run.sticker>>}
    /\ run' = [run EXCEPT !.at = "files", !.sticker = None, !.hashes = @ \cup {run.sticker}]
    /\ UNCHANGED <<saved, server, stored, crashes>>

UploadFails ==
    /\ run.at = "post" /\ Spend
    /\ posts' = [posts EXCEPT ![run.sticker] = @ + 1]
    /\ unanswered' = [unanswered EXCEPT ![run.sticker] = @ + 1]
    /\ \/ server' = server \cup {run.sticker} /\ stored' = stored \cup {run.sticker}
       \/ UNCHANGED <<server, stored>>
    /\ lost' = lost \cup {<<run.pack, run.sticker>>}
    /\ run' = [run EXCEPT !.at = "files", !.sticker = None]
    /\ UNCHANGED <<saved, crashes>>

\* A pack counts as seen whatever became of its stickers.
EndPack ==
    /\ run.at = "files" /\ (Full \/ run.left = {})
    /\ lost' = lost \cup ({run.pack} \X run.left)
    /\ run' = [run EXCEPT !.at = "open", !.packs = @ \cup {run.pack}, !.taken = @ + 1,
                          !.pack = None, !.left = {}]
    /\ UNCHANGED <<saved, outside, crashes, budget>>

OpenState ==
    /\ run.at = "open"
    /\ saved' = [whole |-> FALSE, packs |-> {}, hashes |-> {}]
    /\ run' = [run EXCEPT !.at = "write"]
    /\ UNCHANGED <<outside, history, budget>>

\* Mutant: the hashes are not brought up to date.
WriteState_PacksOnly ==
    /\ run.at = "write"
    /\ saved' = [whole |-> TRUE, packs |-> run.packs, hashes |-> {}]
    /\ run' = [run EXCEPT !.at = "packs"]
    /\ UNCHANGED <<outside, history, budget>>

WriteState ==
    /\ run.at = "write"
    /\ saved' = [whole |-> TRUE, packs |-> run.packs, hashes |-> run.hashes]
    /\ run' = [run EXCEPT !.at = "packs"]
    /\ UNCHANGED <<outside, history, budget>>

Killed ==
    /\ run.at # "idle" /\ Spend
    /\ run' = NoRun /\ crashes' = crashes + 1
    /\ UNCHANGED <<saved, outside, lost>>

UserDeletes(s) ==
    /\ s \in server /\ Spend
    /\ server' = server \ {s}
    /\ UNCHANGED <<saved, run, stored, posts, unanswered, history>>

-----------------------------------------------------------------------------
Next ==
    \/ StartRun \/ NextKeyword \/ Search \/ NextPack \/ EndPack
    \/ \E s \in Stickers : Download(s) \/ UserDeletes(s)
    \/ Uploaded \/ UploadFails
    \/ OpenState \/ WriteState \/ Killed

Spec == Init /\ [][Next]_vars

-----------------------------------------------------------------------------
Places == {"idle", "keyword", "page", "packs", "files", "post", "open", "write"}
Files == [whole : BOOLEAN, packs : SUBSET Packs, hashes : SUBSET Stickers]
Runs == [at : Places, packs : SUBSET Packs, hashes : SUBSET Stickers, uploaded : Nat,
         keyword : Nat, page : Nat, taken : Nat, listed : SUBSET Packs,
         pack : Packs \cup {None}, left : SUBSET Stickers, sticker : Stickers \cup {None}]

Types ==
    /\ saved \in Files /\ run \in Runs
    /\ server \subseteq stored /\ stored \subseteq Stickers
    /\ posts \in [Stickers -> Nat] /\ unanswered \in [Stickers -> Nat]
    /\ lost \subseteq Packs \X Stickers
    /\ crashes \in Nat /\ budget \in Nat

\* A run keeps to its limits and knows all that the file knows.
Limits ==
    /\ run.uploaded <= MaxStickers /\ run.taken <= MaxPacks
    /\ run.at # "idle" => saved.packs \subseteq run.packs /\ saved.hashes \subseteq run.hashes

(* Types; a run keeps to its limits, and what an earlier run has saved is   *)
(* never forgotten by a later one.                                          *)
TypeOK == Types /\ Limits

(* A remembered hash is never asked for again, so it must be that of a      *)
(* sticker the server has got, over lost answers, kills and later runs.     *)
HashesAreStored == saved.hashes \cup run.hashes \subseteq stored

(* A pack that counts as seen is never opened again: each of its stickers   *)
(* has reached the server, or failed itself, or was left when the limit of  *)
(* a run was reached.  One failure costs one sticker.                       *)
SeenPacksAreFetched ==
    \A p \in saved.packs \cup run.packs : \A s \in StickersOf[p] :
        s \in stored \/ <<p, s>> \in lost

(* A run fetches only what is new: a sticker is posted again only after a   *)
(* kill or after a post of it that was not answered, however many packs     *)
(* and keywords it is found under.                                          *)
PostedOnce == \A s \in Stickers : posts[s] <= 1 + crashes + unanswered[s]

=============================================================================
