------------------------------ MODULE LazyModel ------------------------------
(***************************************************************************)
(* The lazily loaded models: get_model of collectors/captions.py and of    *)
(* collectors/embeddings.py, get_app of collectors/faces.py.  Requests and *)
(* job handlers call them from several threads; each checks a module       *)
(* global, takes a lock, checks again and loads.  The caption model has a  *)
(* second global, the processor, which is assigned first, and is loaded    *)
(* with the import scanner of transformers patched.  Any load may raise.   *)
(***************************************************************************)
EXTENDS Naturals

CONSTANTS
    Threads, None,
    MaxCalls    \* bound: calls

ASSUME ThreadsAssumption == None \notin Threads /\ None \notin Nat
ASSUME CallsAssumption == MaxCalls \in Nat

VARIABLES
    loader,     \* which of the three this is
    model,      \* the global that is checked: the call that loaded it, or None
    processor,  \* the caption model's other global
    scanner,    \* whose patch of the import scanner is in place, or None
    lock,       \* thread that holds the lock, or None
    pc,
    ticket,     \* thread -> number of its call
    kept,       \* thread -> the scanner its patch will put back
    got,        \* thread -> the globals it has read to return them
    calls

vars == <<loader, model, processor, scanner, lock, pc, ticket, kept, got, calls>>
globals == <<loader, model, processor, scanner, lock>>
locals == <<ticket, kept, got, calls>>

Nothing == [model |-> None, processor |-> None]

Init ==
    /\ loader \in {"captions", "embeddings", "faces"}
    /\ model = None /\ processor = None /\ scanner = None /\ lock = None
    /\ pc = [t \in Threads |-> "idle"]
    /\ ticket = [t \in Threads |-> 0] /\ kept = [t \in Threads |-> None]
    /\ got = [t \in Threads |-> Nothing]
    /\ calls = 0

Goto(t, place) == pc' = [pc EXCEPT ![t] = place]

-----------------------------------------------------------------------------
Call(t) ==
    /\ pc[t] = "idle" /\ calls < MaxCalls
    /\ Goto(t, "check")
    /\ calls' = calls + 1
    /\ ticket' = [ticket EXCEPT ![t] = calls + 1]
    /\ got' = [got EXCEPT ![t] = Nothing]
    /\ UNCHANGED <<globals, kept>>

Check(t) ==
    /\ pc[t] = "check"
    /\ Goto(t, IF model = None THEN "acquire" ELSE "return")
    /\ UNCHANGED <<globals, locals>>

\* Mutant: no lock is taken.
Acquire_NoLock(t) ==
    /\ pc[t] = "acquire"
    /\ Goto(t, "recheck")
    /\ UNCHANGED <<globals, locals>>

Acquire(t) ==
    /\ pc[t] = "acquire" /\ lock = None
    /\ lock' = t
    /\ Goto(t, "recheck")
    /\ UNCHANGED <<loader, model, processor, scanner, locals>>

\* Mutant: the global is not checked again under the lock.
Recheck_Skipped(t) ==
    /\ pc[t] = "recheck"
    /\ Goto(t, "begin")
    /\ UNCHANGED <<globals, locals>>

\* Mutant: the lock is not released when another thread has loaded the model.
Recheck_KeepsLock(t) ==
    /\ pc[t] = "recheck"
    /\ Goto(t, IF model = None THEN "begin" ELSE "return")
    /\ UNCHANGED <<globals, locals>>

\* Another thread may have loaded the model while this one waited.
Recheck(t) ==
    /\ pc[t] = "recheck"
    /\ IF model = None
       THEN Goto(t, "begin") /\ UNCHANGED lock
       ELSE Goto(t, "return") /\ lock' = None
    /\ UNCHANGED <<loader, model, processor, scanner, locals>>

\* The block ends, with or without a model: the lock is released.
Leave(t, place) == lock' = None /\ Goto(t, place)

-----------------------------------------------------------------------------
(* captions.get_model *)

PatchScanner(t) ==
    /\ loader = "captions" /\ pc[t] = "begin"
    /\ kept' = [kept EXCEPT ![t] = scanner]
    /\ scanner' = t
    /\ Goto(t, "processor")
    /\ UNCHANGED <<loader, model, processor, lock, ticket, got, calls>>

\* Mutant: the model is assigned before the processor.
LoadProcessor_Last(t) ==
    /\ pc[t] = "processor"
    /\ model' = ticket[t]
    /\ Goto(t, "model")
    /\ UNCHANGED <<loader, processor, scanner, lock, locals>>

LoadProcessor(t) ==
    /\ pc[t] = "processor"
    /\ processor' = ticket[t]
    /\ Goto(t, "model")
    /\ UNCHANGED <<loader, model, scanner, lock, locals>>

\* The weights are in a local variable, and the patch is undone.
LoadWeights(t) ==
    /\ pc[t] = "model"
    /\ scanner' = kept[t]
    /\ Goto(t, "publish")
    /\ UNCHANGED <<loader, model, processor, lock, locals>>

(* embeddings.get_model, and the first half of faces.get_app *)

LoadEmbedder(t) ==
    /\ loader = "embeddings" /\ pc[t] = "begin"
    /\ Goto(t, "publish")
    /\ UNCHANGED <<globals, locals>>

CreateApp(t) ==
    /\ loader = "faces" /\ pc[t] = "begin"
    /\ Goto(t, "prepare")
    /\ UNCHANGED <<globals, locals>>

PrepareApp(t) ==
    /\ pc[t] = "prepare"
    /\ Goto(t, "publish")
    /\ UNCHANGED <<globals, locals>>

Publish(t) ==
    /\ pc[t] = "publish"
    /\ model' = ticket[t]
    /\ Leave(t, "return")
    /\ UNCHANGED <<loader, processor, scanner, locals>>

\* Mutant: the patch is only undone when the load succeeds.
Raises_KeepsPatch(t) ==
    /\ pc[t] \in {"begin", "processor", "model", "prepare", "publish"}
    /\ Leave(t, "idle")
    /\ UNCHANGED <<loader, model, processor, scanner, locals>>

\* An import, a download, the weights or the move to the device.
Raises(t) ==
    /\ pc[t] \in {"begin", "processor", "model", "prepare", "publish"}
    /\ scanner' = IF pc[t] \in {"processor", "model"} THEN kept[t] ELSE scanner
    /\ Leave(t, "idle")
    /\ UNCHANGED <<loader, model, processor, locals>>

ReturnModel(t) ==
    /\ pc[t] = "return"
    /\ got' = [got EXCEPT ![t].model = model]
    /\ Goto(t, "return processor")
    /\ UNCHANGED <<globals, ticket, kept, calls>>

\* The other two have nothing else to return.
ReturnProcessor(t) ==
    /\ pc[t] = "return processor"
    /\ got' = [got EXCEPT ![t].processor = IF loader = "captions" THEN processor ELSE @]
    /\ Goto(t, "idle")
    /\ UNCHANGED <<globals, ticket, kept, calls>>

-----------------------------------------------------------------------------
Work(t) ==
    \/ Check(t) \/ Acquire(t) \/ Recheck(t)
    \/ PatchScanner(t) \/ LoadProcessor(t) \/ LoadWeights(t)
    \/ LoadEmbedder(t) \/ CreateApp(t) \/ PrepareApp(t)
    \/ Publish(t) \/ Raises(t) \/ ReturnModel(t) \/ ReturnProcessor(t)

Next == \E t \in Threads : Call(t) \/ Work(t)

Spec == Init /\ [][Next]_vars

\* Threads run; a download ends, or raises.
FairSpec == Spec /\ \A t \in Threads : WF_vars(Work(t))

-----------------------------------------------------------------------------
Guarded == {"recheck", "begin", "processor", "model", "prepare", "publish"}
Patched == {"processor", "model"}
Places == Guarded \cup {"idle", "check", "acquire", "return", "return processor"}

Types ==
    /\ loader \in {"captions", "embeddings", "faces"}
    /\ model \in Nat \cup {None} /\ processor \in Nat \cup {None}
    /\ scanner \in Threads \cup {None} /\ lock \in Threads \cup {None}
    /\ pc \in [Threads -> Places]
    /\ ticket \in [Threads -> Nat] /\ kept \in [Threads -> Threads \cup {None}]
    /\ got \in [Threads -> [model : Nat \cup {None}, processor : Nat \cup {None}]]
    /\ calls \in Nat

Exclusive ==
    /\ \A t \in Threads : pc[t] \in Guarded => lock = t
    /\ lock # None => pc[lock] \in Guarded

(* Types; the lock is held by the one thread that is past the first check,  *)
(* and by no thread that has left.                                          *)
TypeOK == Types /\ Exclusive

(* The import scanner of transformers, which every thread of the process    *)
(* uses, is the original one again whenever no caption model is being       *)
(* loaded: patches do not pile up and a failed load does not leave its own. *)
ScannerRestored == scanner # None => lock = scanner /\ pc[scanner] \in Patched

(* A caller that is handed a model is handed the processor of the same load *)
(* with it, however many loads failed half way before.                      *)
WholeModel ==
    \A t \in Threads :
        pc[t] = "idle" /\ got[t].model # None =>
            got[t].processor = IF loader = "captions" THEN got[t].model ELSE None

\* The copy a call has returned; a pair from two loads is no copy.
Returned(t) ==
    IF got[t].model = None THEN None
    ELSE IF loader = "captions" /\ got[t].processor # got[t].model THEN MaxCalls + 1
    ELSE got[t].model

Cache == INSTANCE ModelCache WITH
    Copies <- 1 .. MaxCalls,
    cached <- model,
    calling <- {t \in Threads : pc[t] # "idle"},
    result <- [t \in Threads |-> IF pc[t] = "idle" THEN Returned(t) ELSE None]

(* All of it together behaves as a cache that is filled in one step: one    *)
(* copy is ever published, a call that ends well returns that one, and no   *)
(* call raises once there is a model.                                       *)
LoadsOnce == Cache!Spec

(* No call hangs: the lock is released on every path.                       *)
CallsEnd == \A t \in Threads : pc[t] = "check" ~> pc[t] = "idle"

=============================================================================
