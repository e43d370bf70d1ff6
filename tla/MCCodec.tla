------------------------------ MODULE MCCodec ------------------------------
(* Small instances of Codec: the statuses and calls of each kind of device. *)
EXTENDS Codec

\* The reports with these bytes, as in the fixtures of the tests.
Reports(cmds, b0, b1, b2, b3, b4, b5, b6) ==
    {[cmd |-> cmd,
      payload |-> [i \in 0 .. 7 |-> CASE i = 0 -> p0 [] i = 1 -> p1 [] i = 2 -> p2
                                      [] i = 3 -> p3 [] i = 4 -> p4 [] i = 5 -> p5
                                      [] i = 6 -> p6 [] OTHER -> 0]] :
        cmd \in cmds, p0 \in b0, p1 \in b1, p2 \in b2, p3 \in b3, p4 \in b4,
        p5 \in b5, p6 \in b6}

MCStatuses ==
    [k \in Kinds |->
       CASE k = "thermostat" ->
                Reports({0}, {0, 17}, {0, 1}, {20, 21}, {0}, {24}, {0}, {0})
                    \cup Reports({0}, {16}, {0}, {20}, {0, 30}, {24}, {0}, {0, 2})
         [] k = "airconditioner" ->
                Reports({0}, {16}, {0, 2}, {1, 4}, {0}, {26}, {20, 21}, {0})
                    \cup Reports({0}, {0}, {0}, {1}, {0}, {27}, {20, 21}, {0})
         [] k = "ventilation" ->
                Reports({0}, {0, 17}, {1, 5}, {64, 192}, {0}, {7}, {35}, {0})
                    \cup Reports({0}, {0}, {1}, {0}, {0}, {0}, {0}, {2})
         [] k = "gasvalve" -> Reports({1, 2}, {0}, {0}, {0}, {0}, {0}, {0}, {0})
         [] k = "elevator" -> Reports({0}, 0 .. 3, {0, 130}, {0}, {0}, {0}, {0}, {0})
         [] k = "motion" -> Reports({0, 4}, {0}, {0}, {0}, {0}, {0}, {0}, {0})
         [] k = "airquality" -> Reports({0, 58}, {0, 35}, {17}, {1}, {44}, {0}, {0}, {25})]

Settings(action, values) == [action : {action}, value : values]

\* Temperatures in tenths: two the device can take, a fraction of one, one
\* that is out of the protocol's range.
Temperatures == Settings("set_temperature", {200, 210, 205, 2560})

MCCalls ==
    [k \in Kinds |->
       CASE k = "thermostat" ->
                Settings("set_hvac", {"heat", "off"}) \cup
                Settings("set_preset", {"away", "none"}) \cup Temperatures
         [] k = "airconditioner" ->
                Settings("set_hvac", {"cool", "dry", "off"}) \cup
                Settings("set_fan", {"low", "auto"}) \cup Temperatures
         [] k = "ventilation" ->
                Settings("turn_on", {0}) \cup Settings("turn_off", {0}) \cup
                Settings("set_preset", {"ventilation", "sleep"}) \cup
                Settings("set_percentage", {0, 64, 192})
         [] k = "gasvalve" -> Settings("turn_on", {0}) \cup Settings("turn_off", {0})
         [] k = "elevator" -> Settings("turn_on", {0})
         [] OTHER -> {}]
=============================================================================
