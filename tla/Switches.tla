------------------------------ MODULE Switches ------------------------------
(***************************************************************************)
(* The lights (or outlets) of one room: up to eight relays that share every *)
(* frame.  A report shows them all; a command for one carries the others   *)
(* as the registry shows them when the packet is built, and the packet is  *)
(* transmitted up to RetryMax times.  Modelled are _handle_switch and      *)
(* _handle_cutoff_switch, the insertion rule of on_device_state and        *)
(* upsert, _generate_switch, and as much of the sender (module Gateway) as *)
(* decides when a packet is built and transmitted.                         *)
(*                                                                         *)
(* The relays and the frames on the bus are the outside world: a relay is  *)
(* switched at the wall, the wallpad polls or commands the room, and a     *)
(* command that arrives sets all the relays.                               *)
(***************************************************************************)
EXTENDS Naturals

CONSTANTS
    Relays,     \* of the room, one key each
    Zero,       \* the relay that has the key (LIGHT, 0, 0), or None
    RetryMax,   \* SEND_RETRY_MAX
    MaxMoves,   \* bound on what the household does
    MaxCalls,   \* bound on the service calls
    None

ASSUME SwitchesAssumption ==
    /\ RetryMax \in Nat \ {0} /\ MaxMoves \in Nat /\ MaxCalls \in Nat
    /\ None \notin Relays /\ None \notin [Relays -> BOOLEAN]
    /\ None \notin [relay : Relays, want : BOOLEAN]
    /\ Zero \in Relays \cup {None}

Bits == [Relays -> BOOLEAN]

VARIABLES
    relay,      \* the relays themselves
    frame,      \* the frame of the room on the bus, or None
    registry,   \* the registered state of every relay; "none": not registered
    up,         \* _connected
    live,       \* the relays in _live_device_keys
    item,       \* _active_item or the one to become it: relay and wanted state
    packet,     \* its packet, once it is built
    attempt,    \* its transmission attempt
    waiter,     \* "none", "open" or "hit"
    moves, calls,
    \* History, read by the properties only:
    reported,   \* the last frame of the room that was received
    base        \* the last one received before the packet was built

senderVars == <<item, packet, attempt, waiter, base>>
vars == <<relay, frame, registry, up, live, senderVars, moves, calls, reported>>

----------------------------------------------------------------------------
(* The outside world.                                                      *)

WallSwitch(i) ==
    /\ moves < MaxMoves /\ moves' = moves + 1
    /\ relay' = [relay EXCEPT ![i] = ~@]
    /\ UNCHANGED <<frame, registry, up, live, senderVars, calls, reported>>

\* The wallpad commands the room.  PacketFrame.peer resolves a frame in
\* either direction to the room, so its command is read like a report.
Panel(bits) ==
    /\ moves < MaxMoves /\ moves' = moves + 1
    /\ frame = None /\ frame' = bits
    /\ relay' = bits
    /\ UNCHANGED <<registry, up, live, senderVars, calls, reported>>

\* The wallpad polls the room; a frame may be lost.
Poll ==
    /\ frame = None /\ frame' = relay
    /\ UNCHANGED <<relay, registry, up, live, senderVars, moves, calls, reported>>

Drop ==
    /\ frame # None /\ frame' = None
    /\ UNCHANGED <<relay, registry, up, live, senderVars, moves, calls, reported>>

----------------------------------------------------------------------------
(* The reader.                                                             *)

\* on_device_state and upsert: a relay is registered when it is first seen
\* on; once registered, its state follows the reports.
\* mutant: the rule for new relays is applied to registered ones
Upsert_SeenOn(i, on) == IF on THEN "on" ELSE registry[i]

Upsert(i, on) ==
    IF on THEN "on" ELSE IF registry[i] = "none" THEN "none" ELSE "off"

\* The waiter of the command is hit by a live state of its relay that is the
\* one wanted.  shown: the relays of the frame and their states.
Notify(shown) ==
    waiter' = IF /\ up /\ waiter = "open"
                 /\ item.relay \in DOMAIN shown /\ shown[item.relay] = item.want
              THEN "hit" ELSE waiter

Receive ==
    /\ frame # None /\ frame' = None
    /\ registry' = [i \in Relays |-> Upsert(i, frame[i])]
    /\ live' = IF up THEN Relays ELSE live
    /\ Notify(frame)
    /\ reported' = frame
    /\ UNCHANGED <<relay, up, item, packet, attempt, base, moves, calls>>

\* _handle_cutoff_switch: the frame for all lights of the home has the key of
\* the first light of room 0, and no _is_register: it is always inserted.
Cutoff(on) ==
    /\ Zero # None
    /\ moves < MaxMoves /\ moves' = moves + 1
    /\ registry' = [registry EXCEPT ![Zero] = IF on THEN "on" ELSE "off"]
    /\ live' = IF up THEN live \cup {Zero} ELSE live
    /\ Notify([i \in {Zero} |-> on])
    /\ UNCHANGED <<relay, frame, up, item, packet, attempt, base, calls, reported>>

Lose ==
    /\ up /\ up' = FALSE
    /\ live' = {}
    /\ UNCHANGED <<relay, frame, registry, senderVars, moves, calls, reported>>

Reopen ==
    /\ ~up /\ up' = TRUE
    /\ UNCHANGED <<relay, frame, registry, live, senderVars, moves, calls, reported>>

----------------------------------------------------------------------------
(* Service calls and the sender.                                           *)

\* An entity exists for every registered relay.
Call(i, want) ==
    /\ item = None /\ calls < MaxCalls /\ calls' = calls + 1
    /\ up /\ i \in live /\ registry[i] # "none"
    /\ item' = [relay |-> i, want |-> want]
    /\ UNCHANGED <<relay, frame, registry, up, live, packet, attempt, waiter, base,
                   moves, reported>>

\* _generate_switch.
\* mutant: a registered sibling is transmitted as on
Generate_Registered(cmd) ==
    [i \in Relays |-> IF i = cmd.relay THEN cmd.want ELSE registry[i] # "none"]

Generate(cmd) ==
    [i \in Relays |-> IF i = cmd.relay THEN cmd.want ELSE registry[i] = "on"]

Take ==
    /\ item # None /\ packet = None
    /\ packet' = Generate(item)
    /\ base' = reported
    /\ attempt' = 1
    /\ UNCHANGED <<relay, frame, registry, up, live, item, waiter, moves, calls, reported>>

Done ==
    item' = None /\ packet' = None /\ attempt' = 0 /\ waiter' = "none" /\ base' = None

\* The packet arrives and sets the relays, or it is lost.  A send that fails is
\* a packet lost and its waiter timed out.
Transmit ==
    /\ packet # None /\ waiter = "none" /\ up
    /\ waiter' = "open"
    /\ relay' \in {relay, packet}
    /\ UNCHANGED <<frame, registry, up, live, item, packet, attempt, base, moves,
                   calls, reported>>

NotReady ==
    /\ packet # None /\ waiter = "none" /\ ~up
    /\ Done
    /\ UNCHANGED <<relay, frame, registry, up, live, moves, calls, reported>>

Confirmed ==
    /\ waiter = "hit"
    /\ Done
    /\ UNCHANGED <<relay, frame, registry, up, live, moves, calls, reported>>

\* The time is up.  A report that has hit the waiter before the sender resumes
\* is lost with it.
\* mutant: one attempt too many
TimedOut_OneTooMany ==
    /\ waiter # "none"
    /\ IF attempt <= RetryMax
       THEN attempt' = attempt + 1 /\ waiter' = "none" /\ UNCHANGED <<item, packet, base>>
       ELSE Done
    /\ UNCHANGED <<relay, frame, registry, up, live, moves, calls, reported>>

\* mutant: the next attempt waits on the waiter of the one before
TimedOut_SameWaiter ==
    /\ waiter # "none"
    /\ IF attempt < RetryMax
       THEN attempt' = attempt + 1 /\ UNCHANGED <<item, packet, waiter, base>>
       ELSE Done
    /\ UNCHANGED <<relay, frame, registry, up, live, moves, calls, reported>>

TimedOut ==
    /\ waiter # "none"
    /\ IF attempt < RetryMax
       THEN attempt' = attempt + 1 /\ waiter' = "none" /\ UNCHANGED <<item, packet, base>>
       ELSE Done
    /\ UNCHANGED <<relay, frame, registry, up, live, moves, calls, reported>>

----------------------------------------------------------------------------
\* The registry may have been restored from packets of any age.
Init ==
    /\ relay \in Bits /\ frame = None
    /\ registry \in [Relays -> {"none", "on", "off"}]
    /\ up \in BOOLEAN /\ live = {}
    /\ item = None /\ packet = None /\ attempt = 0 /\ waiter = "none"
    /\ moves = 0 /\ calls = 0
    /\ reported = None /\ base = None

Next ==
    \/ \E i \in Relays : WallSwitch(i) \/ \E want \in BOOLEAN : Call(i, want)
    \/ \E bits \in Bits : Panel(bits)
    \/ \E on \in BOOLEAN : Cutoff(on)
    \/ Poll \/ Drop \/ Receive \/ Lose \/ Reopen
    \/ Take \/ Transmit \/ NotReady \/ Confirmed \/ TimedOut

Spec == Init /\ [][Next]_vars

----------------------------------------------------------------------------
(* Properties.                                                             *)

\* Every variable has its type; no packet is transmitted more than RetryMax
\* times.
TypeOK ==
    /\ relay \in Bits /\ frame \in Bits \cup {None}
    /\ registry \in [Relays -> {"none", "on", "off"}]
    /\ up \in BOOLEAN /\ live \subseteq Relays
    /\ item \in [relay : Relays, want : BOOLEAN] \cup {None}
    /\ packet \in Bits \cup {None}
    /\ attempt \in 0 .. RetryMax /\ waiter \in {"none", "open", "hit"}
    /\ moves \in Nat /\ calls \in Nat
    /\ reported \in Bits \cup {None} /\ base \in Bits \cup {None}

\* The registry shows every relay as the last frame of its room did, and has
\* left out none that was on.
Shown(i) == reported # None => (registry[i] = "on") = reported[i]
ShownAsReported == \A i \in Relays \ {Zero} : Shown(i)

\* A transmission sets the relays it does not address to what the last report
\* before the packet was built showed of them, however often it is repeated
\* and whatever was registered or restored before: nothing is overturned that
\* was not switched since that report.  Only the all-lights cutoff can make a
\* light available, and a command possible, before there is any report.
OthersAsReported ==
    [][waiter = "none" /\ waiter' = "open" =>
         IF base = None
         THEN item.relay = Zero
         ELSE \A i \in Relays \ {item.relay, Zero} : relay'[i] \in {relay[i], base[i]}]_vars

\* The sender of this module, from the packet on, is the one Transmission
\* describes and module Gateway implements.
Line == INSTANCE Transmission WITH
    Calls <- [relay : Relays, want : BOOLEAN],
    item <- IF packet = None THEN None ELSE item
Transmits == Line!Spec

\* The all-lights cutoff is a device of its own (README.md:42, and the name of
\* its own in translations/ko.json:33): false of the code, where its frame
\* registers the state of the first light of room 0.
CutoffIsNoLight == \A i \in Relays : Shown(i)
=============================================================================
