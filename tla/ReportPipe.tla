----------------------------- MODULE ReportPipe -----------------------------
(***************************************************************************)
(* What the vmulti driver promises the clients of its report collections:  *)
(* a rendezvous.  A write and a waiting read meet in one atomic step, in   *)
(* which the report changes hands; a write that meets nobody is refused    *)
(* and leaves nothing behind.  No report is duplicated, kept for later, or *)
(* given to a read that has already been answered or dropped.              *)
(***************************************************************************)
CONSTANTS Requests, None

VARIABLES role,   \* reader, writer or neither; a request never changes it
          phase,  \* new, waiting (readers only), answered, dropped
          answer  \* the write whose report a read was answered with

vars == <<role, phase, answer>>

Init ==
    /\ role \in [Requests -> {"reader", "writer", "neither"}]
    /\ phase = [r \in Requests |-> "new"]
    /\ answer = [r \in Requests |-> None]

Defer(r) ==
    /\ role[r] = "reader" /\ phase[r] = "new"
    /\ phase' = [phase EXCEPT ![r] = "waiting"]
    /\ UNCHANGED <<role, answer>>

Meet(w, r) ==
    /\ role[w] = "writer" /\ phase[w] = "new"
    /\ role[r] = "reader" /\ phase[r] = "waiting"
    /\ phase' = [phase EXCEPT ![w] = "answered", ![r] = "answered"]
    /\ answer' = [answer EXCEPT ![r] = w]
    /\ UNCHANGED role

Refuse(r) ==
    /\ role[r] # "neither" /\ phase[r] = "new"
    /\ phase' = [phase EXCEPT ![r] = "dropped"]
    /\ UNCHANGED <<role, answer>>

\* Waiting reads are cancelled one at a time, or all at once on removal.
Drop(S) ==
    /\ \A r \in S : phase[r] = "waiting"
    /\ phase' = [r \in Requests |-> IF r \in S THEN "dropped" ELSE phase[r]]
    /\ UNCHANGED <<role, answer>>

Next ==
    \/ \E r \in Requests : Defer(r) \/ Refuse(r)
    \/ \E w, r \in Requests : Meet(w, r)
    \/ \E S \in SUBSET Requests : Drop(S)

Spec == Init /\ [][Next]_vars
=============================================================================
