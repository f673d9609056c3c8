----------------------------- MODULE ModelCache -----------------------------
(***************************************************************************)
(* What the loaders of the three models promise their callers: one copy of *)
(* the model is loaded, every call from then on returns that copy whole,   *)
(* and a call only raises while there is none.                             *)
(***************************************************************************)
CONSTANTS Threads, None, Copies

VARIABLES
    cached,   \* the copy in memory, or None
    calling,  \* threads inside a call
    result    \* thread -> what its last call returned, or None

vars == <<cached, calling, result>>

Init == cached = None /\ calling = {} /\ result = [t \in Threads |-> None]

Call(t) ==
    /\ t \notin calling
    /\ calling' = calling \cup {t}
    /\ result' = [result EXCEPT ![t] = None]
    /\ UNCHANGED cached

Load ==
    /\ cached = None /\ calling # {}
    /\ cached' \in Copies
    /\ UNCHANGED <<calling, result>>

Return(t) ==
    /\ t \in calling /\ cached # None
    /\ calling' = calling \ {t}
    /\ result' = [result EXCEPT ![t] = cached]
    /\ UNCHANGED cached

Raise(t) ==
    /\ t \in calling /\ cached = None
    /\ calling' = calling \ {t}
    /\ UNCHANGED <<cached, result>>

Next == Load \/ \E t \in Threads : Call(t) \/ Return(t) \/ Raise(t)

Spec == Init /\ [][Next]_vars

=============================================================================
