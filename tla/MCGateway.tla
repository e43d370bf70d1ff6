----------------------------- MODULE MCGateway -----------------------------
(* Small instances of Gateway.                                             *)
EXTENDS Gateway, TLC

CONSTANTS c1, c2, light

\* One thermostat and one light, a command for each.
TwoKeys == c1 :> 1 @@ c2 :> light
TwoWants == c1 :> "on" @@ c2 :> "on"

\* A single command, for a thermostat.
RoomKey == c1 :> 1
RoomWant == c1 :> "on"
=============================================================================
