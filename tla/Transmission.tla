---------------------------- MODULE Transmission ----------------------------
(***************************************************************************)
(* What the sender promises of a command it has taken up: one command at a *)
(* time, transmitted at most RetryMax times, every time with a waiter of   *)
(* its own.  A report settles the waiter of the transmission it follows    *)
(* and never one of another attempt or of another command.                 *)
(***************************************************************************)
EXTENDS Integers

CONSTANTS Calls, RetryMax, None

VARIABLES
    item,      \* the command in hand, or None
    attempt,   \* which of its transmissions is due or was made
    waiter     \* "none" until it was made, then "open", or "hit" by a report

vars == <<item, attempt, waiter>>

Init == item = None /\ attempt = 0 /\ waiter = "none"

Begin(c) ==
    /\ item = None
    /\ item' = c /\ attempt' = 1 /\ waiter' = "none"

Send ==
    /\ item # None /\ waiter = "none"
    /\ waiter' = "open"
    /\ UNCHANGED <<item, attempt>>

Hit ==
    /\ waiter = "open"
    /\ waiter' = "hit"
    /\ UNCHANGED <<item, attempt>>

\* The attempt was lost, in time or not: its waiter is forgotten with it.
Repeat ==
    /\ item # None /\ attempt < RetryMax
    /\ attempt' = attempt + 1 /\ waiter' = "none"
    /\ UNCHANGED item

\* Confirmed, given up or cancelled.
Leave ==
    /\ item # None
    /\ item' = None /\ attempt' = 0 /\ waiter' = "none"

Next == (\E c \in Calls : Begin(c)) \/ Send \/ Hit \/ Repeat \/ Leave

Spec == Init /\ [][Next]_vars
=============================================================================
