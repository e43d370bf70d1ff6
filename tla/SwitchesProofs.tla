--------------------------- MODULE SwitchesProofs ---------------------------
(***************************************************************************)
(* For every number of relays, retransmissions and calls: the registry     *)
(* shows what the last report showed, and a command transmits the relays   *)
(* it does not address as the last report before it was built.             *)
(*                                                                         *)
(* OthersAsReported is about the step that transmits; what carries it      *)
(* there is PacketInv: a packet, from the moment it is built to its last   *)
(* retransmission, agrees with the report it was built from.               *)
(***************************************************************************)
EXTENDS Switches, TLAPS

\* Before the first report only the all-lights cutoff makes a relay live, and
\* only a live relay is commanded.
LiveInv ==
    /\ reported = None => live \subseteq {Zero}
    /\ item # None /\ reported = None => item.relay = Zero
    /\ item # None => item.relay \in Relays

PacketInv ==
    /\ packet # None => item # None
    /\ packet # None /\ base = None => item.relay = Zero
    /\ packet # None /\ base # None =>
         \A i \in Relays \ {item.relay, Zero} : packet[i] = base[i]
    /\ waiter # "none" => packet # None

SwitchesInv == TypeOK /\ ShownAsReported /\ LiveInv /\ PacketInv

AsTransmitted ==
    waiter = "none" /\ waiter' = "open" =>
         IF base = None
         THEN item.relay = Zero
         ELSE \A i \in Relays \ {item.relay, Zero} : relay'[i] \in {relay[i], base[i]}

LEMMA InitSwitches == Init => SwitchesInv
  BY SwitchesAssumption DEF Init, SwitchesInv, TypeOK, ShownAsReported, Shown, LiveInv, PacketInv, Bits

\* A call, a report and the cutoff are the steps that change what a command
\* may be built from.
LEMMA NextTyped == TypeOK /\ PacketInv /\ LiveInv /\ [Next]_vars => TypeOK'
<1> SUFFICES ASSUME TypeOK, PacketInv, LiveInv, [Next]_vars PROVE TypeOK'
  OBVIOUS
<1> USE SwitchesAssumption DEF TypeOK, Bits
<1>1. ASSUME NEW i \in Relays, WallSwitch(i) PROVE TypeOK'
  BY <1>1 DEF WallSwitch, senderVars
<1>2. ASSUME NEW i \in Relays, NEW want \in BOOLEAN, Call(i, want) PROVE TypeOK'
  BY <1>2 DEF Call
<1>3. ASSUME NEW bits \in Bits, Panel(bits) PROVE TypeOK'
  BY <1>3 DEF Panel, senderVars
<1>4. ASSUME NEW on \in BOOLEAN, Cutoff(on) PROVE TypeOK'
  BY <1>4 DEF Cutoff, Notify
<1>5. CASE Poll
  BY <1>5 DEF Poll, senderVars
<1>6. CASE Drop
  BY <1>6 DEF Drop, senderVars
<1>7. CASE Receive
  BY <1>7 DEF Receive, Notify, Upsert
<1>8. CASE Lose
  BY <1>8 DEF Lose, senderVars
<1>9. CASE Reopen
  BY <1>9 DEF Reopen, senderVars
<1>10. CASE Take
  <2>1. item \in [relay : Relays, want : BOOLEAN]
    BY <1>10 DEF Take
  <2>2. Generate(item) \in Bits
    BY <2>1 DEF Generate
  <2> QED
    BY <1>10, <2>2 DEF Take
<1>11. CASE Transmit
  BY <1>11 DEF Transmit
<1>12. CASE NotReady
  BY <1>12 DEF NotReady, Done
<1>13. CASE Confirmed
  BY <1>13 DEF Confirmed, Done
<1>14. CASE TimedOut
  BY <1>14 DEF TimedOut, Done
<1>15. CASE UNCHANGED vars
  BY <1>15 DEF vars, senderVars
<1> QED
  BY <1>1, <1>2, <1>3, <1>4, <1>5, <1>6, <1>7, <1>8, <1>9, <1>10, <1>11, <1>12,
     <1>13, <1>14, <1>15 DEF Next

\* Only a report writes the registry of a relay other than Zero, and it writes
\* all of them.
LEMMA NextShown == TypeOK /\ ShownAsReported /\ [Next]_vars => ShownAsReported'
<1> SUFFICES ASSUME TypeOK, ShownAsReported, [Next]_vars,
                    NEW i \in Relays \ {Zero}
             PROVE  Shown(i)'
  BY DEF ShownAsReported
<1>0. Shown(i)
  BY DEF ShownAsReported
<1>1. CASE UNCHANGED <<registry, reported>>
  BY <1>0, <1>1 DEF Shown
<1>2. CASE Receive
  <2>1. frame \in Bits
    BY <1>2 DEF Receive, TypeOK
  <2>2. registry'[i] = Upsert(i, frame[i]) /\ reported' = frame
    BY <1>2 DEF Receive
  <2> QED
    BY <2>1, <2>2 DEF Shown, Upsert, Bits
<1>3. ASSUME NEW on \in BOOLEAN, Cutoff(on) PROVE Shown(i)'
  BY <1>0, <1>3 DEF Cutoff, Shown, TypeOK
<1> QED
  BY <1>1, <1>2, <1>3 DEF Next, WallSwitch, Call, Panel, Poll, Drop, Lose, Reopen, Take,
     Transmit, NotReady, Confirmed, TimedOut, vars

LEMMA NextLive == TypeOK /\ LiveInv /\ [Next]_vars => LiveInv'
<1> SUFFICES ASSUME TypeOK, LiveInv, [Next]_vars PROVE LiveInv'
  OBVIOUS
<1> USE SwitchesAssumption DEF TypeOK, LiveInv, Bits
<1>1. CASE UNCHANGED <<live, item, reported>>
  BY <1>1
<1>2. ASSUME NEW i \in Relays, NEW want \in BOOLEAN, Call(i, want) PROVE LiveInv'
  BY <1>2 DEF Call
<1>3. ASSUME NEW on \in BOOLEAN, Cutoff(on) PROVE LiveInv'
  BY <1>3 DEF Cutoff
<1>4. CASE Receive
  BY <1>4 DEF Receive
<1>5. CASE Lose
  BY <1>5 DEF Lose, senderVars
<1>6. CASE NotReady \/ Confirmed \/ TimedOut
  BY <1>6 DEF NotReady, Confirmed, TimedOut, Done
<1> QED
  BY <1>1, <1>2, <1>3, <1>4, <1>5, <1>6 DEF Next, WallSwitch, Panel, Poll, Drop, Reopen,
     Take, Transmit, vars, senderVars

\* The packet is built from the registry, which shows the report it is built
\* after (ShownAsReported), and is not changed until the command is done.
LEMMA NextPacket ==
  TypeOK /\ ShownAsReported /\ LiveInv /\ PacketInv /\ [Next]_vars => PacketInv'
<1> SUFFICES ASSUME TypeOK, ShownAsReported, LiveInv, PacketInv, [Next]_vars
             PROVE  PacketInv'
  OBVIOUS
<1> USE SwitchesAssumption DEF PacketInv
<1>1. CASE UNCHANGED <<item, packet, base, waiter>>
  BY <1>1
<1>2. ASSUME NEW i \in Relays, NEW want \in BOOLEAN, Call(i, want) PROVE PacketInv'
  BY <1>2 DEF Call
<1>3. ASSUME NEW on \in BOOLEAN, Cutoff(on) PROVE PacketInv'
  BY <1>3 DEF Cutoff, Notify
<1>4. CASE Receive
  BY <1>4 DEF Receive, Notify
<1>5. CASE Take
  <2>1. /\ item # None /\ packet = None /\ item' = item /\ waiter' = waiter
        /\ packet' = Generate(item) /\ base' = reported
    BY <1>5 DEF Take
  <2>2. base' = None => item.relay = Zero
    BY <2>1 DEF LiveInv
  <2>3. ASSUME base' # None, NEW i \in Relays \ {item.relay, Zero}
        PROVE  packet'[i] = base'[i]
    <3>1. packet'[i] = (registry[i] = "on")
      BY <2>1, <2>3 DEF Generate
    <3>2. reported \in Bits /\ (registry[i] = "on") = reported[i]
      BY <2>1, <2>3 DEF ShownAsReported, Shown, TypeOK
    <3> QED
      BY <2>1, <3>1, <3>2
  <2>4. waiter' = "none"
    BY <2>1
  <2> QED
    BY <2>1, <2>2, <2>3, <2>4
<1>6. CASE Transmit
  BY <1>6 DEF Transmit
<1>7. CASE NotReady \/ Confirmed
  BY <1>7 DEF NotReady, Confirmed, Done
<1>8. CASE TimedOut
  BY <1>8 DEF TimedOut, Done
<1> QED
  BY <1>1, <1>2, <1>3, <1>4, <1>5, <1>6, <1>7, <1>8 DEF Next, WallSwitch, Panel, Poll, Drop,
     Lose, Reopen, vars, senderVars

THEOREM SwitchesInvariant == Spec => []SwitchesInv
<1>1. SwitchesInv /\ [Next]_vars => SwitchesInv'
  BY NextTyped, NextShown, NextLive, NextPacket DEF SwitchesInv
<1> QED
  BY <1>1, InitSwitches, PTL DEF Spec

\* Every variable has its type, and no packet is transmitted more than
\* RetryMax times.
THEOREM SwitchesTypeCorrect == Spec => []TypeOK
  BY SwitchesInvariant, PTL DEF SwitchesInv

\* The registry shows what the last report of the room showed (upsert and the
\* insertion rule of on_device_state).
THEOREM RegistryShowsReport == Spec => []ShownAsReported
  BY SwitchesInvariant, PTL DEF SwitchesInv

\* A command sets the relays it does not address to what the last report
\* before it was built showed (_generate_switch and the retransmissions).
THEOREM CommandsKeepOthers == Spec => OthersAsReported
<1>1. SwitchesInv /\ [Next]_vars => AsTransmitted
  <2> SUFFICES ASSUME SwitchesInv, [Next]_vars, waiter = "none", waiter' = "open"
               PROVE  IF base = None THEN item.relay = Zero
                      ELSE \A i \in Relays \ {item.relay, Zero} : relay'[i] \in {relay[i], base[i]}
    BY DEF AsTransmitted
  <2>1. Transmit
    BY DEF Next, WallSwitch, Call, Panel, Cutoff, Notify, Poll, Drop, Receive, Lose, Reopen,
       Take, NotReady, Confirmed, TimedOut, Done, vars, senderVars
  <2> QED
    BY <2>1 DEF Transmit, SwitchesInv, PacketInv
<1> QED
  BY <1>1, SwitchesInvariant, PTL DEF Spec, OthersAsReported, AsTransmitted

\* From the packet on, the sender of a room's commands is the one Transmission
\* describes, which the gateway's sender implements too.
THEOREM SwitchesTransmit == Spec => Transmits
<1>1. Init => Line!Init
  BY DEF Init, Line!Init
<1>2. SwitchesInv /\ [Next]_vars => [Line!Next]_(Line!vars)
  <2> SUFFICES ASSUME SwitchesInv, [Next]_vars PROVE [Line!Next]_(Line!vars)
    OBVIOUS
  <2> USE SwitchesAssumption DEF SwitchesInv
  <2>1. packet = None => waiter = "none"
    BY DEF PacketInv
  <2>2. packet # None => item # None /\ item \in [relay : Relays, want : BOOLEAN]
    BY DEF PacketInv, TypeOK
  <2>3. CASE UNCHANGED <<item, packet, attempt, waiter>>
    BY <2>3 DEF Line!vars
  <2>4. ASSUME NEW i \in Relays, NEW want \in BOOLEAN, Call(i, want) PROVE UNCHANGED Line!vars
    <3>1. packet = None /\ UNCHANGED <<packet, attempt, waiter>>
      BY <2>2, <2>4 DEF Call
    <3> QED
      BY <3>1 DEF Line!vars
  <2>5. ASSUME UNCHANGED <<item, packet, attempt>>, waiter = "open", waiter' = "hit"
        PROVE  Line!Hit
    BY <2>5 DEF Line!Hit
  <2>6. ASSUME NEW on \in BOOLEAN, Cutoff(on) PROVE [Line!Next]_(Line!vars)
    BY <2>3, <2>5, <2>6 DEF Cutoff, Notify, Line!Next
  <2>7. CASE Receive
    BY <2>3, <2>5, <2>7 DEF Receive, Notify, Line!Next
  <2>8. CASE Take
    <3>1. item \in [relay : Relays, want : BOOLEAN] /\ packet = None /\ waiter = "none"
      BY <2>1, <2>8 DEF Take, TypeOK
    <3>2. Generate(item) \in Bits
      BY <3>1 DEF Generate, Bits
    <3>3. packet' # None /\ item' = item /\ attempt' = 1 /\ waiter' = "none"
      BY <2>8, <3>1, <3>2 DEF Take, Bits
    <3>4. Line!Begin(item)
      BY <3>1, <3>3 DEF Line!Begin
    <3> QED
      BY <3>1, <3>4 DEF Line!Next
  <2>9. CASE Transmit
    <3>1. Line!Send
      BY <2>2, <2>9 DEF Transmit, Line!Send
    <3> QED
      BY <3>1 DEF Line!Next
  <2>10. ASSUME Done, packet # None PROVE Line!Leave
    BY <2>2, <2>10 DEF Done, Line!Leave
  <2>11. CASE NotReady \/ Confirmed
    <3>1. Done /\ packet # None
      BY <2>11 DEF NotReady, Confirmed, PacketInv
    <3> QED
      BY <2>10, <3>1 DEF Line!Next
  <2>12. CASE TimedOut
    <3>1. packet # None
      BY <2>12 DEF TimedOut, PacketInv
    <3>2. CASE Done
      BY <2>10, <3>1, <3>2 DEF Line!Next
    <3>3. CASE /\ attempt < RetryMax /\ attempt' = attempt + 1 /\ waiter' = "none"
               /\ UNCHANGED <<item, packet>>
      BY <2>2, <3>1, <3>3 DEF Line!Repeat, Line!Next
    <3> QED
      BY <2>12, <3>2, <3>3 DEF TimedOut
  <2> QED
    BY <2>3, <2>4, <2>6, <2>7, <2>8, <2>9, <2>11, <2>12
       DEF Next, WallSwitch, Panel, Poll, Drop, Lose, Reopen, vars, senderVars
<1> QED
  BY <1>1, <1>2, SwitchesInvariant, PTL DEF Spec, Transmits, Line!Spec
=============================================================================
