--------------------------- MODULE CommandPromise ---------------------------
(***************************************************************************)
(* What the gateway promises to the entity that calls async_send_action:   *)
(* a call gets at most one answer, the answer never changes, and the       *)
(* answer is "true" only if the wallpad reported the state asked for after *)
(* the call had been accepted.                                             *)
(***************************************************************************)
CONSTANT Calls

VARIABLES
    outcome,   \* what the caller knows of each call
    echoed     \* the calls whose state was reported after they were accepted

vars == <<outcome, echoed>>

Init == outcome = [c \in Calls |-> "none"] /\ echoed = {}

Accept(c) ==
    /\ outcome[c] = "none"
    /\ outcome' = [outcome EXCEPT ![c] = "pending"]
    /\ UNCHANGED echoed

\* The caller gave up waiting.
Cancel(c) ==
    /\ outcome[c] = "pending"
    /\ outcome' = [outcome EXCEPT ![c] = "cancelled"]
    /\ UNCHANGED echoed

\* A command is still transmitted after its caller gave up.
Echo(c) ==
    /\ outcome[c] \in {"pending", "cancelled"}
    /\ echoed' = echoed \cup {c}
    /\ UNCHANGED outcome

Confirm(c) ==
    /\ outcome[c] = "pending" /\ c \in echoed
    /\ outcome' = [outcome EXCEPT ![c] = "true"]
    /\ UNCHANGED echoed

\* Several calls can fail at once, when the gateway stops.
Fail(S) ==
    /\ outcome' = [c \in Calls |->
         IF c \in S /\ outcome[c] = "pending" THEN "false" ELSE outcome[c]]
    /\ UNCHANGED echoed

Next ==
    \/ \E c \in Calls : Accept(c) \/ Cancel(c) \/ Echo(c) \/ Confirm(c)
    \/ \E S \in SUBSET Calls : Fail(S)

Spec == Init /\ [][Next]_vars
=============================================================================
