-------------------------- MODULE LazyModel_proofs --------------------------
(***************************************************************************)
(* Proofs about LazyModel, for any number of threads and calls.            *)
(*                                                                         *)
(* The inductive invariant says who may be between the two checks (the     *)
(* holder of the lock), what the globals hold there, and what a thread     *)
(* carries with it on its way out.                                         *)
(***************************************************************************)
EXTENDS LazyModel, TLAPS

\* The patch in place is that of the thread inside, over the original.
OnePatch ==
    /\ ScannerRestored
    /\ \A t \in Threads :
         pc[t] \in Patched => loader = "captions" /\ scanner = t /\ kept[t] = None

\* Nobody loads a model that is there; the processor comes first.
LoadsInOrder(t) ==
    /\ pc[t] \in Guarded \ {"recheck"} => model = None
    /\ loader = "captions" /\ pc[t] \in {"model", "publish"} => processor = ticket[t]
    /\ pc[t] = "prepare" => loader = "faces"
    /\ pc[t] # "idle" => ticket[t] \in 1 .. MaxCalls

LoadingOrder ==
    /\ \A t \in Threads : LoadsInOrder(t)
    /\ model # None =>
         /\ model \in 1 .. MaxCalls
         /\ loader = "captions" => processor = model
    /\ calls <= MaxCalls

\* What a thread has read on its way out is the model that is there.
OutOf(t) ==
    /\ pc[t] \in {"return", "return processor"} => model # None
    /\ pc[t] \notin {"idle", "return processor"} => got[t] = Nothing
    /\ pc[t] = "return processor" => got[t].model = model /\ got[t].processor = None
    /\ pc[t] = "idle" /\ got[t].model # None =>
         /\ got[t].model = model
         /\ got[t].processor = IF loader = "captions" THEN model ELSE None

WayOut == \A t \in Threads : OutOf(t)

IInv == Types /\ Exclusive /\ OnePatch /\ LoadingOrder /\ WayOut

-----------------------------------------------------------------------------
LEMMA NothingIsEmpty ==
    /\ Nothing \in [model : Nat \cup {None}, processor : Nat \cup {None}]
    /\ Nothing.model = None /\ Nothing.processor = None
BY DEF Nothing

LEMMA InitIInv == Init => IInv
BY ThreadsAssumption, CallsAssumption
   DEF Init, IInv, Types, Exclusive, OnePatch, ScannerRestored, LoadingOrder, LoadsInOrder,
       WayOut, OutOf,
       Nothing, Guarded, Patched, Places

LEMMA CallIInv ==
    ASSUME IInv, NEW t \in Threads, Call(t)
    PROVE  IInv'
<1> USE DEF IInv
<1>1. /\ calls' = calls + 1 /\ calls < MaxCalls
      /\ pc[t] = "idle" /\ pc' = [pc EXCEPT ![t] = "check"]
      /\ ticket' = [ticket EXCEPT ![t] = calls + 1]
      /\ got' = [got EXCEPT ![t] = Nothing]
      /\ UNCHANGED <<loader, model, processor, scanner, lock, kept>>
  BY DEF Call, Goto, globals
<1>2. /\ calls \in Nat /\ ticket \in [Threads -> Nat] /\ pc \in [Threads -> Places]
      /\ got \in [Threads -> [model : Nat \cup {None}, processor : Nat \cup {None}]]
  BY DEF Types
<1>3. calls + 1 \in Nat /\ calls + 1 \in 1 .. MaxCalls
  BY <1>1, <1>2, CallsAssumption
<1>4. Types'
  <2>1. ticket' \in [Threads -> Nat] /\ calls' \in Nat
    BY <1>1, <1>2, <1>3
  <2>2. pc' \in [Threads -> Places]
    BY <1>1, <1>2 DEF Places
  <2>3. got' \in [Threads -> [model : Nat \cup {None}, processor : Nat \cup {None}]]
    BY <1>1, <1>2, NothingIsEmpty
  <2> QED BY <1>1, <2>1, <2>2, <2>3 DEF Types
<1>5. Exclusive'
  BY <1>1, <1>2, ThreadsAssumption DEF Exclusive, Guarded, Types
<1>6. OnePatch'
  BY <1>1, <1>2 DEF OnePatch, ScannerRestored, Patched, Types
<1>7. LoadingOrder'
  <2>1. calls' <= MaxCalls
    BY <1>1, <1>3
  <2>2. ASSUME NEW u \in Threads PROVE LoadsInOrder(u)'
    <3>1. CASE u = t
      BY <1>1, <1>2, <1>3, <3>1 DEF LoadsInOrder, Guarded
    <3>2. CASE u # t
      BY <1>1, <1>2, <3>2 DEF LoadingOrder, LoadsInOrder
    <3> QED BY <3>1, <3>2
  <2> QED BY <1>1, <2>1, <2>2 DEF LoadingOrder
<1>8. WayOut'
  <2> SUFFICES ASSUME NEW u \in Threads PROVE OutOf(u)'
    BY DEF WayOut
  <2>1. CASE u = t
    BY <1>1, <1>2, <2>1 DEF OutOf
  <2>2. CASE u # t
    BY <1>1, <1>2, <2>2 DEF WayOut, OutOf
  <2> QED BY <2>1, <2>2
<1> QED BY <1>4, <1>5, <1>6, <1>7, <1>8

LEMMA CheckIInv ==
    ASSUME IInv, NEW t \in Threads, Check(t)
    PROVE  IInv'
<1> USE ThreadsAssumption, CallsAssumption, NothingIsEmpty
    DEF IInv, Check, Goto, globals, locals, Guarded, Patched, Places
<1>1. Types'
  BY DEF Types
<1>2. Exclusive'
  BY DEF Types, Exclusive
<1>3. OnePatch'
  BY DEF Types, Exclusive, OnePatch, ScannerRestored
<1>4. LoadingOrder'
  BY DEF Types, Exclusive, LoadingOrder, LoadsInOrder
<1>5. WayOut'
  BY DEF Types, Exclusive, LoadingOrder, LoadsInOrder, WayOut, OutOf
<1> QED BY <1>1, <1>2, <1>3, <1>4, <1>5

LEMMA AcquireIInv ==
    ASSUME IInv, NEW t \in Threads, Acquire(t)
    PROVE  IInv'
<1> USE ThreadsAssumption, CallsAssumption, NothingIsEmpty
    DEF IInv, Acquire, Goto, globals, locals, Guarded, Patched, Places
<1>1. Types'
  BY DEF Types
<1>2. Exclusive'
  BY DEF Types, Exclusive
<1>3. OnePatch'
  BY DEF Types, Exclusive, OnePatch, ScannerRestored
<1>4. LoadingOrder'
  BY DEF Types, Exclusive, LoadingOrder, LoadsInOrder
<1>5. WayOut'
  BY DEF Types, Exclusive, LoadingOrder, LoadsInOrder, WayOut, OutOf
<1> QED BY <1>1, <1>2, <1>3, <1>4, <1>5

LEMMA RecheckIInv ==
    ASSUME IInv, NEW t \in Threads, Recheck(t)
    PROVE  IInv'
<1> USE ThreadsAssumption, CallsAssumption, NothingIsEmpty
    DEF IInv, Recheck, Goto, globals, locals, Guarded, Patched, Places
<1>1. Types'
  BY DEF Types
<1>2. Exclusive'
  <2>1. CASE model = None
    BY <2>1 DEF Types, Exclusive
  <2>2. CASE model # None
    BY <2>2 DEF Types, Exclusive
  <2> QED BY <2>1, <2>2
<1>3. OnePatch'
  BY DEF Types, Exclusive, OnePatch, ScannerRestored
<1>4. LoadingOrder'
  BY DEF Types, Exclusive, LoadingOrder, LoadsInOrder
<1>5. WayOut'
  <2> SUFFICES ASSUME NEW u \in Threads PROVE OutOf(u)'
    BY DEF WayOut
  <2>1. CASE u = t
    BY <2>1 DEF Types, Exclusive, LoadingOrder, LoadsInOrder, WayOut, OutOf
  <2>2. CASE u # t
    BY <2>2 DEF Types, Exclusive, LoadingOrder, LoadsInOrder, WayOut, OutOf
  <2> QED BY <2>1, <2>2
<1> QED BY <1>1, <1>2, <1>3, <1>4, <1>5

LEMMA PatchScannerIInv ==
    ASSUME IInv, NEW t \in Threads, PatchScanner(t)
    PROVE  IInv'
<1> USE ThreadsAssumption, CallsAssumption, NothingIsEmpty
    DEF IInv, PatchScanner, Goto, globals, locals, Guarded, Patched, Places
<1>1. Types'
  BY DEF Types
<1>2. Exclusive'
  BY DEF Types, Exclusive
<1>3. OnePatch'
  BY DEF Types, Exclusive, OnePatch, ScannerRestored
<1>4. LoadingOrder'
  BY DEF Types, Exclusive, LoadingOrder, LoadsInOrder
<1>5. WayOut'
  BY DEF Types, Exclusive, LoadingOrder, LoadsInOrder, WayOut, OutOf
<1> QED BY <1>1, <1>2, <1>3, <1>4, <1>5

LEMMA LoadProcessorIInv ==
    ASSUME IInv, NEW t \in Threads, LoadProcessor(t)
    PROVE  IInv'
<1> USE ThreadsAssumption, CallsAssumption, NothingIsEmpty
    DEF IInv, LoadProcessor, Goto, globals, locals, Guarded, Patched, Places
<1>1. Types'
  BY DEF Types
<1>2. Exclusive'
  BY DEF Types, Exclusive
<1>3. OnePatch'
  BY DEF Types, Exclusive, OnePatch, ScannerRestored
<1>4. LoadingOrder'
  BY DEF Types, Exclusive, LoadingOrder, LoadsInOrder
<1>5. WayOut'
  BY DEF Types, Exclusive, LoadingOrder, LoadsInOrder, WayOut, OutOf
<1> QED BY <1>1, <1>2, <1>3, <1>4, <1>5

LEMMA LoadWeightsIInv ==
    ASSUME IInv, NEW t \in Threads, LoadWeights(t)
    PROVE  IInv'
<1> USE ThreadsAssumption, CallsAssumption, NothingIsEmpty
    DEF IInv, LoadWeights, Goto, globals, locals, Guarded, Patched, Places
<1>1. Types'
  BY DEF Types
<1>2. Exclusive'
  BY DEF Types, Exclusive
<1>3. OnePatch'
  BY DEF Types, Exclusive, OnePatch, ScannerRestored
<1>4. LoadingOrder'
  BY DEF Types, Exclusive, LoadingOrder, LoadsInOrder
<1>5. WayOut'
  BY DEF Types, Exclusive, LoadingOrder, LoadsInOrder, WayOut, OutOf
<1> QED BY <1>1, <1>2, <1>3, <1>4, <1>5

LEMMA LoadEmbedderIInv ==
    ASSUME IInv, NEW t \in Threads, LoadEmbedder(t)
    PROVE  IInv'
<1> USE ThreadsAssumption, CallsAssumption, NothingIsEmpty
    DEF IInv, LoadEmbedder, Goto, globals, locals, Guarded, Patched, Places
<1>1. Types'
  BY DEF Types
<1>2. Exclusive'
  BY DEF Types, Exclusive
<1>3. OnePatch'
  BY DEF Types, Exclusive, OnePatch, ScannerRestored
<1>4. LoadingOrder'
  BY DEF Types, Exclusive, LoadingOrder, LoadsInOrder
<1>5. WayOut'
  BY DEF Types, Exclusive, LoadingOrder, LoadsInOrder, WayOut, OutOf
<1> QED BY <1>1, <1>2, <1>3, <1>4, <1>5

LEMMA CreateAppIInv ==
    ASSUME IInv, NEW t \in Threads, CreateApp(t)
    PROVE  IInv'
<1> USE ThreadsAssumption, CallsAssumption, NothingIsEmpty
    DEF IInv, CreateApp, Goto, globals, locals, Guarded, Patched, Places
<1>1. Types'
  BY DEF Types
<1>2. Exclusive'
  BY DEF Types, Exclusive
<1>3. OnePatch'
  BY DEF Types, Exclusive, OnePatch, ScannerRestored
<1>4. LoadingOrder'
  BY DEF Types, Exclusive, LoadingOrder, LoadsInOrder
<1>5. WayOut'
  BY DEF Types, Exclusive, LoadingOrder, LoadsInOrder, WayOut, OutOf
<1> QED BY <1>1, <1>2, <1>3, <1>4, <1>5

LEMMA PrepareAppIInv ==
    ASSUME IInv, NEW t \in Threads, PrepareApp(t)
    PROVE  IInv'
<1> USE ThreadsAssumption, CallsAssumption, NothingIsEmpty
    DEF IInv, PrepareApp, Goto, globals, locals, Guarded, Patched, Places
<1>1. Types'
  BY DEF Types
<1>2. Exclusive'
  BY DEF Types, Exclusive
<1>3. OnePatch'
  BY DEF Types, Exclusive, OnePatch, ScannerRestored
<1>4. LoadingOrder'
  BY DEF Types, Exclusive, LoadingOrder, LoadsInOrder
<1>5. WayOut'
  BY DEF Types, Exclusive, LoadingOrder, LoadsInOrder, WayOut, OutOf
<1> QED BY <1>1, <1>2, <1>3, <1>4, <1>5

LEMMA PublishIInv ==
    ASSUME IInv, NEW t \in Threads, Publish(t)
    PROVE  IInv'
<1> USE ThreadsAssumption, CallsAssumption, NothingIsEmpty
    DEF IInv, Publish, Goto, Leave, globals, locals, Guarded, Patched, Places
<1>1. Types'
  BY DEF Types
<1>2. Exclusive'
  BY DEF Types, Exclusive
<1>3. OnePatch'
  BY DEF Types, Exclusive, OnePatch, ScannerRestored
<1>4. LoadingOrder'
  BY DEF Types, Exclusive, LoadingOrder, LoadsInOrder
<1>5. WayOut'
  <2> SUFFICES ASSUME NEW u \in Threads PROVE OutOf(u)'
    BY DEF WayOut
  <2>1. CASE u = t
    <3>1. ticket[t] \in Nat /\ model' = ticket[t] /\ got'[t] = got[t] /\ pc'[t] = "return"
      BY DEF Types
    <3>2. got[t] = Nothing
      BY DEF WayOut, OutOf
    <3> QED BY <2>1, <3>1, <3>2 DEF OutOf
  <2>2. CASE u # t
    BY <2>2 DEF Types, Exclusive, LoadingOrder, LoadsInOrder, WayOut, OutOf
  <2> QED BY <2>1, <2>2
<1> QED BY <1>1, <1>2, <1>3, <1>4, <1>5

LEMMA RaisesIInv ==
    ASSUME IInv, NEW t \in Threads, Raises(t)
    PROVE  IInv'
<1> USE ThreadsAssumption, CallsAssumption, NothingIsEmpty
    DEF IInv, Raises, Goto, Leave, globals, locals, Guarded, Patched, Places
<1>1. Types'
  BY DEF Types
<1>2. Exclusive'
  BY DEF Types, Exclusive
<1>3. OnePatch'
  BY DEF Types, Exclusive, OnePatch, ScannerRestored
<1>4. LoadingOrder'
  BY DEF Types, Exclusive, LoadingOrder, LoadsInOrder
<1>5. WayOut'
  <2> SUFFICES ASSUME NEW u \in Threads PROVE OutOf(u)'
    BY DEF WayOut
  <2>1. CASE u = t
    BY <2>1 DEF Types, Exclusive, LoadingOrder, LoadsInOrder, WayOut, OutOf
  <2>2. CASE u # t
    BY <2>2 DEF Types, Exclusive, LoadingOrder, LoadsInOrder, WayOut, OutOf
  <2> QED BY <2>1, <2>2
<1> QED BY <1>1, <1>2, <1>3, <1>4, <1>5

LEMMA ReturnModelIInv ==
    ASSUME IInv, NEW t \in Threads, ReturnModel(t)
    PROVE  IInv'
<1> USE ThreadsAssumption, CallsAssumption, NothingIsEmpty
    DEF IInv, ReturnModel, Goto, globals, locals, Guarded, Patched, Places
<1>1. Types'
  BY DEF Types
<1>2. Exclusive'
  BY DEF Types, Exclusive
<1>3. OnePatch'
  BY DEF Types, Exclusive, OnePatch, ScannerRestored
<1>4. LoadingOrder'
  BY DEF Types, Exclusive, LoadingOrder, LoadsInOrder
<1>5. WayOut'
  <2> SUFFICES ASSUME NEW u \in Threads PROVE OutOf(u)'
    BY DEF WayOut
  <2>1. CASE u = t
    BY <2>1 DEF Types, Exclusive, LoadingOrder, LoadsInOrder, WayOut, OutOf
  <2>2. CASE u # t
    BY <2>2 DEF Types, Exclusive, LoadingOrder, LoadsInOrder, WayOut, OutOf
  <2> QED BY <2>1, <2>2
<1> QED BY <1>1, <1>2, <1>3, <1>4, <1>5

LEMMA ReturnProcessorIInv ==
    ASSUME IInv, NEW t \in Threads, ReturnProcessor(t)
    PROVE  IInv'
<1> USE ThreadsAssumption, CallsAssumption, NothingIsEmpty
    DEF IInv, ReturnProcessor, Goto, globals, locals, Guarded, Patched, Places
<1>1. Types'
  BY DEF Types
<1>2. Exclusive'
  BY DEF Types, Exclusive
<1>3. OnePatch'
  BY DEF Types, Exclusive, OnePatch, ScannerRestored
<1>4. LoadingOrder'
  BY DEF Types, Exclusive, LoadingOrder, LoadsInOrder
<1>5. WayOut'
  <2> SUFFICES ASSUME NEW u \in Threads PROVE OutOf(u)'
    BY DEF WayOut
  <2>1. CASE u = t
    BY <2>1 DEF Types, Exclusive, LoadingOrder, LoadsInOrder, WayOut, OutOf
  <2>2. CASE u # t
    BY <2>2 DEF Types, Exclusive, LoadingOrder, LoadsInOrder, WayOut, OutOf
  <2> QED BY <2>1, <2>2
<1> QED BY <1>1, <1>2, <1>3, <1>4, <1>5

LEMMA StepIInv == IInv /\ [Next]_vars => IInv'
<1> SUFFICES ASSUME IInv, [Next]_vars PROVE IInv'
  OBVIOUS
<1>1. CASE UNCHANGED vars
  BY <1>1 DEF vars, IInv, Types, Exclusive, OnePatch, ScannerRestored, LoadingOrder, LoadsInOrder,
       WayOut, OutOf,
              Nothing, Guarded, Patched, Places
<1>2. ASSUME NEW t \in Threads, Call(t) \/ Work(t)
      PROVE  IInv'
  BY <1>2, CallIInv, CheckIInv, AcquireIInv, RecheckIInv, PatchScannerIInv, LoadProcessorIInv,
     LoadWeightsIInv, LoadEmbedderIInv, CreateAppIInv, PrepareAppIInv, PublishIInv, RaisesIInv,
     ReturnModelIInv, ReturnProcessorIInv DEF Work
<1> QED BY <1>1, <1>2 DEF Next

(* The inductive invariant holds of every state a run can be in.            *)
THEOREM Invariance == Spec => []IInv
<1> QED BY InitIInv, StepIInv, PTL DEF Spec

(* Types, and one thread at most in the guarded block, for any number of threads. *)
THEOREM TypeCorrect == Spec => []TypeOK
<1>1. IInv => TypeOK
  BY DEF IInv, TypeOK
<1> QED BY <1>1, Invariance, PTL

(* The import scanner is the original one whenever no caption model is      *)
(* being loaded.                                                            *)
THEOREM ScannerIsRestored == Spec => []ScannerRestored
<1>1. IInv => ScannerRestored
  BY DEF IInv, OnePatch
<1> QED BY <1>1, Invariance, PTL

(* A caller that gets a model gets the processor of the same load.          *)
THEOREM ModelsAreWhole == Spec => []WholeModel
<1>1. IInv => WholeModel
  BY DEF IInv, WayOut, OutOf, WholeModel
<1> QED BY <1>1, Invariance, PTL

-----------------------------------------------------------------------------
(* The refinement: what a step does to what callers can see *)

Calling == {t \in Threads : pc[t] # "idle"}
Visible(t) == IF pc[t] = "idle" THEN Returned(t) ELSE None
Results == [t \in Threads |-> Visible(t)]

\* A step inside a call that does not publish is none a caller can see.
LEMMA HiddenStep ==
    ASSUME IInv, NEW t \in Threads, NEW place \in Places,
           pc[t] # "idle", place # "idle", Goto(t, place),
           UNCHANGED <<loader, model>>, \A u \in Threads : u # t => got'[u] = got[u]
    PROVE  UNCHANGED <<model, Calling, Results>>
<1>1. pc \in [Threads -> Places]
  BY DEF IInv, Types
<1>2. \A u \in Threads : u # t => pc'[u] = pc[u]
  BY <1>1 DEF Goto
<1>3. pc'[t] = place
  BY <1>1 DEF Goto
<1>4. Calling' = Calling
  BY <1>2, <1>3 DEF Calling
<1>5. ASSUME NEW u \in Threads PROVE Visible(u)' = Visible(u)
  <2>1. CASE u = t
    BY <1>3, <2>1 DEF Visible
  <2>2. CASE u # t
    BY <1>2, <2>2 DEF Visible, Returned
  <2> QED BY <2>1, <2>2
<1> QED BY <1>4, <1>5 DEF Results

LEMMA CallVisible ==
    ASSUME IInv, NEW t \in Threads, Call(t)
    PROVE  Cache!Call(t)
<1>1. pc \in [Threads -> Places] /\ got \in [Threads -> [model : Nat \cup {None}, processor : Nat \cup {None}]]
  BY DEF IInv, Types
<1>2. pc[t] = "idle" /\ pc'[t] = "check" /\ \A u \in Threads : u # t => pc'[u] = pc[u] /\ got'[u] = got[u]
  BY <1>1 DEF Call, Goto
<1>3. UNCHANGED <<loader, model>>
  BY DEF Call, globals
<1>4. Calling' = Calling \cup {t}
  BY <1>2 DEF Calling
<1>5. ASSUME NEW u \in Threads PROVE Visible(u)' = IF u = t THEN None ELSE Visible(u)
  BY <1>2, <1>3 DEF Visible, Returned
<1>6. Results' = [Results EXCEPT ![t] = None]
  BY <1>5 DEF Results
<1> QED BY <1>2, <1>3, <1>4, <1>6 DEF Cache!Call, Calling, Results, Visible

LEMMA PublishVisible ==
    ASSUME IInv, NEW t \in Threads, Publish(t)
    PROVE  Cache!Load
<1>1. pc \in [Threads -> Places]
  BY DEF IInv, Types
<1>2. pc[t] = "publish" /\ pc'[t] = "return" /\ \A u \in Threads : u # t => pc'[u] = pc[u]
  BY <1>1 DEF Publish, Leave, Goto
<1>3. model = None /\ model' \in 1 .. MaxCalls
  BY <1>2 DEF IInv, LoadingOrder, LoadsInOrder, Publish, Guarded
<1>4. Calling' = Calling /\ t \in Calling
  BY <1>2 DEF Calling
<1>5. ASSUME NEW u \in Threads PROVE Visible(u)' = Visible(u)
  BY <1>2 DEF Visible, Returned, Publish, locals
<1>6. Results' = Results
  BY <1>5 DEF Results
<1> QED BY <1>3, <1>4, <1>6 DEF Cache!Load, Calling, Results, Visible

LEMMA RaisesVisible ==
    ASSUME IInv, NEW t \in Threads, Raises(t)
    PROVE  Cache!Raise(t)
<1>1. pc \in [Threads -> Places] /\ got \in [Threads -> [model : Nat \cup {None}, processor : Nat \cup {None}]]
  BY DEF IInv, Types
<1>2. pc[t] \in Guarded \ {"recheck"} /\ pc[t] # "idle" /\ pc'[t] = "idle"
      /\ \A u \in Threads : u # t => pc'[u] = pc[u]
  BY <1>1 DEF Raises, Leave, Goto, Guarded
<1>3. model = None /\ UNCHANGED <<loader, model, got>>
  BY <1>2 DEF IInv, LoadingOrder, LoadsInOrder, Raises, locals
<1>4. Calling' = Calling \ {t} /\ t \in Calling
  BY <1>2 DEF Calling
<1>5. got[t].model = None
  BY <1>2, NothingIsEmpty DEF IInv, WayOut, OutOf, Guarded
<1>6. ASSUME NEW u \in Threads PROVE Visible(u)' = Visible(u)
  BY <1>2, <1>3, <1>5 DEF Visible, Returned
<1>7. Results' = Results
  BY <1>6 DEF Results
<1> QED BY <1>3, <1>4, <1>7 DEF Cache!Raise, Calling, Results, Visible

LEMMA ReturnVisible ==
    ASSUME IInv, IInv', NEW t \in Threads, ReturnProcessor(t)
    PROVE  Cache!Return(t)
<1>1. pc \in [Threads -> Places] /\ got \in [Threads -> [model : Nat \cup {None}, processor : Nat \cup {None}]]
  BY DEF IInv, Types
<1>2. pc[t] = "return processor" /\ pc'[t] = "idle"
      /\ \A u \in Threads : u # t => pc'[u] = pc[u] /\ got'[u] = got[u]
  BY <1>1 DEF ReturnProcessor, Goto
<1>3. UNCHANGED <<loader, model>>
  BY DEF ReturnProcessor, globals
<1>4. got[t].model = model /\ model # None
  BY <1>2 DEF IInv, WayOut, OutOf
<1>5. got'[t].model = got[t].model
  BY <1>1 DEF ReturnProcessor
<1>6. got'[t].processor = IF loader = "captions" THEN model ELSE None
  BY <1>2, <1>3, <1>4, <1>5 DEF IInv, WayOut, OutOf
<1>7. Visible(t)' = model
  BY <1>2, <1>3, <1>4, <1>5, <1>6 DEF Visible, Returned
<1>8. Calling' = Calling \ {t} /\ t \in Calling
  BY <1>2 DEF Calling
<1>9. ASSUME NEW u \in Threads PROVE Visible(u)' = IF u = t THEN model ELSE Visible(u)
  BY <1>2, <1>3, <1>7 DEF Visible, Returned
<1>10. Results' = [Results EXCEPT ![t] = model]
  BY <1>9 DEF Results
<1> QED BY <1>3, <1>4, <1>8, <1>10 DEF Cache!Return, Calling, Results, Visible

LEMMA StepRefines ==
    ASSUME IInv, IInv', [Next]_vars
    PROVE  [Cache!Next]_(Cache!vars)
<1>1. CASE UNCHANGED vars
  BY <1>1 DEF vars, Cache!vars, Returned
<1>2. ASSUME NEW t \in Threads, UNCHANGED <<model, Calling, Results>>
      PROVE  UNCHANGED Cache!vars
  BY <1>2 DEF Cache!vars, Calling, Results, Visible
<1>3. ASSUME NEW t \in Threads, Call(t) \/ Work(t)
      PROVE  [Cache!Next]_(Cache!vars)
  <2>1. pc \in [Threads -> Places] /\ got \in [Threads -> [model : Nat \cup {None}, processor : Nat \cup {None}]]
    BY DEF IInv, Types
  <2>2. CASE Call(t)
    BY <2>2, CallVisible DEF Cache!Next
  <2>3. CASE Publish(t)
    BY <2>3, PublishVisible DEF Cache!Next
  <2>4. CASE Raises(t)
    BY <2>4, RaisesVisible DEF Cache!Next
  <2>5. CASE ReturnProcessor(t)
    BY <2>5, ReturnVisible DEF Cache!Next
  <2>6. CASE Check(t)
    BY <1>2, <2>6, HiddenStep DEF Check, globals, locals, Places
  <2>7. CASE Acquire(t)
    BY <1>2, <2>7, HiddenStep DEF Acquire, locals, Places, Guarded
  <2>8. CASE Recheck(t)
    BY <1>2, <2>8, HiddenStep DEF Recheck, locals, Places, Guarded
  <2>9. CASE PatchScanner(t)
    BY <1>2, <2>9, HiddenStep DEF PatchScanner, Places, Guarded
  <2>10. CASE LoadProcessor(t)
    BY <1>2, <2>10, HiddenStep DEF LoadProcessor, locals, Places, Guarded
  <2>11. CASE LoadWeights(t)
    BY <1>2, <2>11, HiddenStep DEF LoadWeights, locals, Places, Guarded
  <2>12. CASE LoadEmbedder(t)
    BY <1>2, <2>12, HiddenStep DEF LoadEmbedder, globals, locals, Places, Guarded
  <2>13. CASE CreateApp(t)
    BY <1>2, <2>13, HiddenStep DEF CreateApp, globals, locals, Places, Guarded
  <2>14. CASE PrepareApp(t)
    BY <1>2, <2>14, HiddenStep DEF PrepareApp, globals, locals, Places, Guarded
  <2>15. CASE ReturnModel(t)
    BY <1>2, <2>1, <2>15, HiddenStep DEF ReturnModel, globals, Places
  <2> QED BY <1>3, <2>2, <2>3, <2>4, <2>5, <2>6, <2>7, <2>8, <2>9, <2>10, <2>11, <2>12, <2>13,
             <2>14, <2>15 DEF Work
<1> QED BY <1>1, <1>3 DEF Next

LEMMA InitRefines == Init => Cache!Init
BY DEF Init, Cache!Init, Returned, Nothing

(* The loaders behave as a cache filled in one step: one copy is published, *)
(* a call that ends well returns it, and none raises once it is there.      *)
THEOREM ImplementsCache == Spec => LoadsOnce
<1> QED BY InitRefines, StepRefines, Invariance, PTL DEF Spec, LoadsOnce, Cache!Spec

=============================================================================
