------------------------------- MODULE Codec -------------------------------
(***************************************************************************)
(* What the frames of one device mean: the packet generate_command builds  *)
(* for a service call, the states the handlers of KocomController read     *)
(* from a frame, and the predicate by which a state confirms the call, for *)
(* every kind of device but the lights and outlets (module Switches).      *)
(*                                                                         *)
(* The device and the wallpad are the outside world.  Their dialogue is    *)
(* the one of the frames observed in tests/test_control_path_safety.py: a  *)
(* command (type B) is acknowledged with its own payload (type D), the     *)
(* device reports its status (type B), and the wallpad acknowledges the    *)
(* status with its payload (type D).  The gateway hears every frame but    *)
(* its own, unless the frame is lost.                                      *)
(***************************************************************************)
EXTENDS Integers

CONSTANTS
    Kinds,      \* the kinds of device to look at, one in every behaviour
    Statuses,   \* [Kinds -> the (cmd, payload) a device of the kind reports]
    Calls,      \* [Kinds -> the service calls on it]
    MaxCalls,   \* bound on the service calls
    MaxMoves,   \* bound on the frames and moves of the outside world
    None

Byte == 0 .. 255
Blank == [i \in 0 .. 7 |-> 0]
Content == [cmd : Byte, payload : [0 .. 7 -> Byte]]
\* The entities of a device: the device itself and its sensors.
Subs == {"main", "hot", "heat", "problem", "co2", "direction", "floor",
         "pm10", "pm25", "voc", "temp", "humidity"}

AllKinds == {"thermostat", "airconditioner", "ventilation", "gasvalve", "elevator",
             "motion", "airquality"}

\* The reports of a device, as the fixtures of the tests show them.
Reported(k, s) ==
    /\ s \in Content
    /\ k \in {"thermostat", "airconditioner", "ventilation", "elevator"} => s.cmd = 0
    /\ k = "thermostat" => s.payload[0] \div 16 \in {0, 1} /\ s.payload[1] \in {0, 1}
    /\ k = "airconditioner" => s.payload[0] \in {0, 16}
    /\ k = "elevator" => s.payload[0] \in 0 .. 3

\* The service calls the entities of a device offer.
OnOff == [action : {"turn_on", "turn_off"}, value : {0}]
Temperature == [action : {"set_temperature"}, value : Nat]
Offered(k) ==
    CASE k = "thermostat" ->
             [action : {"set_hvac"}, value : {"heat", "off"}] \cup
             [action : {"set_preset"}, value : {"away", "none"}] \cup Temperature
      [] k = "airconditioner" ->
             [action : {"set_hvac"}, value : {"cool", "fan_only", "dry", "auto", "off"}] \cup
             [action : {"set_fan"}, value : {"low", "medium", "high", "auto"}] \cup Temperature
      [] k = "ventilation" ->
             OnOff \cup [action : {"set_percentage"}, value : {0, 64, 128, 192}] \cup
             [action : {"set_preset"},
              value : {"ventilation", "auto", "bypass", "sleep", "air purification"}]
      [] k = "gasvalve" -> OnOff
      [] k = "elevator" -> [action : {"turn_on"}, value : {0}]
      [] OTHER -> {}

Reading == 1 .. 65535
Tenths == 0 .. 2550     \* of a degree

\* The states a device shows that is more than on or off.
ThermostatShows ==
    [hvac_mode : {"heat", "off"}, preset_mode : {"away", "none"},
     target_temp : Tenths, current_temp : Tenths]
AirconditionerShows ==
    [hvac_mode : {"cool", "fan_only", "dry", "auto", "off"},
     fan_mode : {"low", "medium", "high", "auto"},
     target_temp : Tenths, current_temp : Tenths]
VentilationShows ==
    [state : BOOLEAN, speed : Byte,
     preset_mode : {"ventilation", "auto", "bypass", "sleep", "air purification", "unknown"}]

DirectionShows == {"called", "idle", "downward", "upward", "arrival", "unknown"}

ASSUME CodecAssumption ==
    /\ MaxCalls \in Nat /\ MaxMoves \in Nat
    /\ Kinds \subseteq AllKinds
    /\ \A k \in Kinds :
          /\ \A s \in Statuses[k] : Reported(k, s)
          /\ \A c \in Calls[k] : c \in Offered(k)
    \* None is a value of its own.
    /\ \A k \in Kinds : None \notin Calls[k] /\ None \notin Statuses[k]
    /\ None \notin Nat /\ None \notin BOOLEAN
    /\ None \notin ThermostatShows /\ None \notin AirconditionerShows
    /\ None \notin VentilationShows /\ None \notin DirectionShows

VARIABLES
    kind,       \* of the device
    dev,        \* what the device reports when it reports
    stage,      \* of the dialogue on the bus: what was sent last
    told,       \* the call behind the last command on the bus, or None
    shown,      \* the registered state of every entity, or None
    floors,     \* _device_storage["available_floor"]
    live,       \* the device's key is in _live_device_keys
    call,       \* the service call in the hands of the sender, or None
    waiter,     \* of its confirmation: "none", "open", "hit"
    calls, moves,
    \* History, read by the properties only:
    reported,   \* the last status of the device that was received, or None
    heard,      \* the device was heard since the connection was opened
    done        \* it was heard to do what was asked since the transmission

busVars == <<kind, dev, stage, told, moves>>
rxVars == <<shown, floors, live, waiter, reported, heard, done>>
callVars == <<call, calls>>
vars == <<busVars, rxVars, callVars>>

----------------------------------------------------------------------------
(* models.py: the names of bytes, with what stands for a byte without one. *)

AcMode == [b \in Byte |->
    IF b \in 0 .. 3 THEN <<"cool", "fan_only", "dry", "auto">>[b + 1] ELSE "off"]
AcFan == [b \in Byte |->
    IF b \in 1 .. 4 THEN <<"low", "medium", "high", "auto">>[b] ELSE "low"]
Preset == [b \in Byte |->
    CASE b = 1 -> "ventilation" [] b = 2 -> "auto" [] b = 3 -> "bypass"
      [] b = 5 -> "sleep" [] b = 8 -> "air purification" [] OTHER -> "unknown"]
Direction == [b \in Byte |->
    IF b \in 0 .. 3 THEN <<"idle", "downward", "upward", "arrival">>[b + 1] ELSE "unknown"]

\* A REV_ map: the byte of a table, one of its bytes, that has the name.
Rev(table, bytes, name) == CHOOSE b \in bytes : table[b] = name

----------------------------------------------------------------------------
(* generate_command: the packet of a call c, or None if it raises.         *)

\* mutant: a fraction of a degree is cut off
WholeTemperature_Truncated(t) == IF t \in 0 .. 2559 THEN t \div 10 ELSE None

\* _encode_whole_temperature, of a temperature in tenths of a degree.
WholeTemperature(t) == IF t % 10 = 0 /\ t \div 10 \in Byte THEN t \div 10 ELSE None

ThermostatData(c) ==
    CASE c.action = "set_hvac" -> [Blank EXCEPT ![0] = IF c.value = "heat" THEN 17 ELSE 0]
      [] c.action = "set_preset" ->
             [Blank EXCEPT ![0] = 17, ![1] = IF c.value = "away" THEN 1 ELSE 0]
      [] c.action = "set_temperature" ->
             [Blank EXCEPT ![0] = 17, ![2] = WholeTemperature(c.value)]

AirconditionerData(c) ==
    CASE c.action = "set_hvac" ->
             IF c.value = "off" THEN Blank
             ELSE [Blank EXCEPT ![0] = 16, ![1] = Rev(AcMode, 0 .. 3, c.value)]
      [] c.action = "set_fan" ->
             [Blank EXCEPT ![0] = 16, ![2] = Rev(AcFan, 1 .. 4, c.value)]
      [] c.action = "set_temperature" ->
             [Blank EXCEPT ![0] = 16, ![5] = WholeTemperature(c.value)]

VentilationData(c) ==
    CASE c.action = "set_preset" ->
             [Blank EXCEPT ![0] = 17, ![1] = Rev(Preset, {0, 1, 2, 3, 5, 8}, c.value)]
      [] c.action = "set_percentage" ->
             [Blank EXCEPT ![0] = IF c.value = 0 THEN 0 ELSE 17, ![2] = c.value]
      [] OTHER -> [Blank EXCEPT ![0] = IF c.action = "turn_on" THEN 17 ELSE 0]

Packet(c) ==
    IF \/ c.action = "set_temperature" /\ WholeTemperature(c.value) = None
       \/ kind = "gasvalve" /\ c.action # "turn_off"
    THEN None
    ELSE CASE kind = "thermostat" -> [cmd |-> 0, payload |-> ThermostatData(c)]
           [] kind = "airconditioner" -> [cmd |-> 0, payload |-> AirconditionerData(c)]
           [] kind = "ventilation" -> [cmd |-> 0, payload |-> VentilationData(c)]
           [] kind = "gasvalve" -> [cmd |-> 2, payload |-> Blank]
           [] kind = "elevator" -> [cmd |-> 1, payload |-> Blank]

----------------------------------------------------------------------------
(* The handlers: the states read from a frame f, None for an entity it     *)
(* says nothing of.                                                        *)

Silence == [s \in Subs |-> None]

\* mutant: a reading of zero is shown
Positive_Zero(n) == n

Positive(n) == IF n > 0 THEN n ELSE None

ThermostatStates(f) ==
    [Silence EXCEPT
       !["main"] = [hvac_mode |-> IF f.payload[0] \div 16 = 1 THEN "heat" ELSE "off",
                    preset_mode |-> IF f.payload[1] % 16 = 1 THEN "away" ELSE "none",
                    target_temp |-> 10 * f.payload[2],
                    current_temp |-> 10 * f.payload[4]],
       !["hot"] = Positive(f.payload[3]),
       !["heat"] = Positive(f.payload[5]),
       !["problem"] = f.payload[6] # 0]

\* mutant: an acknowledgement by the room is taken for its report
HandleThermostat_Acks(f, restoring) ==
    IF f.cmd = 0 /\ f.from = "device" THEN ThermostatStates(f) ELSE Silence

\* mutant: the wallpad's command is taken for the room's report
HandleThermostat_Commands(f, restoring) ==
    IF f.cmd = 0 /\ f.type = 11 THEN ThermostatStates(f) ELSE Silence

HandleThermostat(f, restoring) ==
    IF /\ f.cmd = 0
       /\ \/ f.type = 11 /\ f.from = "device"
          \/ f.type = 13 /\ f.from = "wallpad" /\ restoring
    THEN ThermostatStates(f) ELSE Silence

HandleAirconditioner(f) ==
    IF f.cmd = 0
    THEN [Silence EXCEPT
            !["main"] = [hvac_mode |-> IF f.payload[0] = 16 THEN AcMode[f.payload[1]] ELSE "off",
                         fan_mode |-> AcFan[f.payload[2]],
                         current_temp |-> 10 * f.payload[4],
                         target_temp |-> 10 * f.payload[5]]]
    ELSE Silence

HandleVentilation(f) ==
    IF f.cmd = 0
    THEN [Silence EXCEPT
            !["main"] = [state |-> f.payload[0] \div 16 = 1,
                         preset_mode |-> Preset[f.payload[1]],
                         speed |-> f.payload[2]],
            !["co2"] = Positive(100 * f.payload[4] + f.payload[5]),
            !["problem"] = f.payload[6] # 0]
    ELSE Silence

HandleGasvalve(f) ==
    IF f.cmd \in {1, 2} THEN [Silence EXCEPT !["main"] = f.cmd = 1] ELSE Silence

\* mutant: the acknowledgement of an arrival is taken for that of a call
ElevatorOn_AckFirst(f) == f.type = 13 \/ f.payload[0] \in {1, 2}

ElevatorOn(f) == f.payload[0] # 3 /\ (f.payload[0] \in {1, 2} \/ f.type = 13)

\* A floor is its two bytes, or 0 for "unknown", which is shown only once a
\* floor was known.
HandleElevator(f, hasFloor) ==
    [Silence EXCEPT
       !["main"] = ElevatorOn(f),
       !["direction"] = IF f.payload[0] = 0 /\ f.type = 13 THEN "called"
                        ELSE Direction[f.payload[0]],
       !["floor"] = IF ~hasFloor THEN None
                    ELSE IF f.payload[1] = 0 THEN 0 ELSE 256 * f.payload[1] + f.payload[2]]

HandleMotion(f) ==
    IF f.cmd \in {0, 4} THEN [Silence EXCEPT !["main"] = f.cmd = 4] ELSE Silence

HandleAirquality(f) ==
    IF f.cmd \in {0, 58}
    THEN [Silence EXCEPT
            !["pm10"] = Positive(f.payload[0]), !["pm25"] = Positive(f.payload[1]),
            !["co2"] = Positive(256 * f.payload[2] + f.payload[3]),
            !["voc"] = Positive(256 * f.payload[4] + f.payload[5]),
            !["temp"] = Positive(f.payload[6]), !["humidity"] = Positive(f.payload[7])]
    ELSE Silence

NamesFloor(f) == kind = "elevator" /\ f.payload[1] # 0

Handle(f, hasFloor, restoring) ==
    CASE kind = "thermostat" -> HandleThermostat(f, restoring)
      [] kind = "airconditioner" -> HandleAirconditioner(f)
      [] kind = "ventilation" -> HandleVentilation(f)
      [] kind = "gasvalve" -> HandleGasvalve(f)
      [] kind = "elevator" -> HandleElevator(f, hasFloor \/ NamesFloor(f))
      [] kind = "motion" -> HandleMotion(f)
      [] kind = "airquality" -> HandleAirquality(f)

----------------------------------------------------------------------------
(* build_expectation: the state st of the device confirms the call c.      *)

Confirms(c, st) ==
    LET on == IF kind = "ventilation" THEN st.state ELSE st
    IN  CASE c.action = "set_hvac" -> st.hvac_mode = c.value
          [] c.action = "set_preset" -> st.preset_mode = c.value
          [] c.action = "set_fan" -> st.fan_mode = c.value
          [] c.action = "set_temperature" -> st.target_temp = c.value
          [] c.action = "set_percentage" -> st.speed = c.value
          [] c.action = "turn_on" -> on
          [] c.action = "turn_off" -> ~on

----------------------------------------------------------------------------
(* The device does what a packet says: its next report carries the bytes   *)
(* the action is about.                                                    *)

About(c) ==
    CASE c.action = "set_hvac" ->
             IF kind = "airconditioner" /\ c.value # "off" THEN {0, 1} ELSE {0}
      [] c.action = "set_preset" -> {1}
      [] c.action \in {"set_fan", "set_percentage"} -> {2}
      [] c.action = "set_temperature" -> IF kind = "thermostat" THEN {2} ELSE {5}
      [] OTHER -> {0}

Does(c, s) ==
    CASE kind = "gasvalve" -> s.cmd = Packet(c).cmd
      [] kind = "elevator" -> s.payload[0] \in {1, 2}
      [] OTHER -> \A i \in About(c) :
             \* The low half of byte 0 varies between devices.
             IF i = 0 THEN s.payload[0] \div 16 = Packet(c).payload[0] \div 16
             ELSE s.payload[i] = Packet(c).payload[i]

AsFrame(type, from, s) == [type |-> type, from |-> from, cmd |-> s.cmd, payload |-> s.payload]
IsStatus(f) == f.type = 11 /\ f.from = "device" /\ (kind = "elevator" => f.cmd = 0)

\* An elevator is called by a panel that speaks to the wallpad.
Caller == IF kind = "elevator" THEN "device" ELSE "wallpad"
Callee == IF kind = "elevator" THEN "wallpad" ELSE "device"

----------------------------------------------------------------------------
(* A frame arrives: _dispatch_packet, upsert and _notify_pendings.         *)
Receive(f) ==
    LET states == Handle(f, floors, FALSE)
    IN  /\ shown' = [s \in Subs |-> IF states[s] = None THEN shown[s] ELSE states[s]]
        /\ floors' = (floors \/ NamesFloor(f))
        /\ live' = (live \/ states # Silence)
        /\ waiter' = IF /\ waiter = "open" /\ states["main"] # None
                        /\ Confirms(call, states["main"])
                     THEN "hit" ELSE waiter
        /\ reported' = IF IsStatus(f) THEN [cmd |-> f.cmd, payload |-> f.payload] ELSE reported
        /\ heard' = (heard \/ f.from = "device")
        /\ done' = (done \/ /\ waiter = "open"
                            /\ \/ IsStatus(f) /\ Does(call, f)
                               \/ kind = "elevator" /\ f.type = 13 /\ f.cmd = 1)

\* The frame is received, or damaged on the way.
OnBus(f) == Receive(f) \/ UNCHANGED rxVars

Moves(to) == moves < MaxMoves /\ moves' = moves + 1 /\ stage' = to

WallpadCommands(c) ==
    /\ stage = "quiet" /\ Packet(c) # None /\ Moves("told")
    /\ told' = c
    /\ OnBus(AsFrame(11, Caller, Packet(c)))
    /\ UNCHANGED <<kind, dev, callVars>>

Obeyed(s) ==
    /\ stage = "told" /\ Does(told, s) /\ Moves("obeyed")
    /\ dev' = s
    /\ OnBus(AsFrame(13, Callee, Packet(told)))
    /\ UNCHANGED <<kind, told, callVars>>

CommandLost ==
    /\ stage = "told" /\ Moves("quiet")
    /\ UNCHANGED <<kind, dev, told, rxVars, callVars>>

ReportStatus ==
    /\ stage \in {"quiet", "obeyed"} /\ Moves("reported")
    /\ OnBus(AsFrame(11, "device", dev))
    /\ UNCHANGED <<kind, dev, told, callVars>>

WallpadAcks ==
    /\ stage = "reported" /\ Moves("quiet")
    /\ OnBus(AsFrame(13, "wallpad", dev))
    /\ UNCHANGED <<kind, dev, told, callVars>>

Handled(s) ==
    /\ stage = "quiet" /\ s # dev /\ Moves("quiet")
    /\ dev' = s
    /\ UNCHANGED <<kind, told, rxVars, callVars>>

Reconnect ==
    /\ live \/ heard
    /\ live' = FALSE /\ heard' = FALSE
    /\ UNCHANGED <<busVars, shown, floors, waiter, reported, done, callVars>>

----------------------------------------------------------------------------
(* The sender (module Gateway), as far as it matters here.                 *)

Call(c) ==
    /\ call = None /\ calls < MaxCalls
    /\ calls' = calls + 1
    /\ call' = IF Packet(c) = None THEN None ELSE c
    /\ UNCHANGED <<busVars, rxVars>>

Transmit ==
    /\ stage = "quiet" /\ call # None /\ waiter = "none" /\ Moves("told")
    /\ told' = call
    /\ waiter' = "open" /\ done' = FALSE
    /\ UNCHANGED <<kind, dev, shown, floors, live, reported, heard, callVars>>

\* The time is up: another transmission, or the call has failed.  A report that
\* has hit the waiter before the sender resumes is lost with it.
TimedOut ==
    /\ waiter # "none"
    /\ waiter' = "none" /\ done' = FALSE
    /\ call' \in {call, None}
    /\ UNCHANGED <<busVars, shown, floors, live, reported, heard, calls>>

Confirmed ==
    /\ waiter = "hit"
    /\ call' = None /\ waiter' = "none" /\ done' = FALSE
    /\ UNCHANGED <<busVars, shown, floors, live, reported, heard, calls>>

----------------------------------------------------------------------------
(* The registry is empty, or restored from the packet that was stored:     *)
(* a status, or the wallpad's acknowledgement of one.                      *)
Init ==
    /\ kind \in Kinds /\ dev \in Statuses[kind]
    /\ \E s \in Statuses[kind], type \in {11, 13} :
          LET f == AsFrame(type, IF type = 11 THEN "device" ELSE "wallpad", s)
          IN  \/ shown = Silence /\ floors = FALSE
              \/ shown = Handle(f, FALSE, TRUE) /\ floors = NamesFloor(f)
    /\ stage = "quiet" /\ told = None /\ moves = 0
    /\ live = FALSE /\ waiter = "none" /\ reported = None /\ heard = FALSE /\ done = FALSE
    /\ call = None /\ calls = 0

Next ==
    \/ \E c \in Calls[kind] : WallpadCommands(c) \/ Call(c)
    \/ \E s \in Statuses[kind] : Obeyed(s) \/ Handled(s)
    \/ CommandLost \/ ReportStatus \/ WallpadAcks \/ Reconnect
    \/ Transmit \/ TimedOut \/ Confirmed

Spec == Init /\ [][Next]_vars

----------------------------------------------------------------------------
(* Every entity has a state of its type; a reading of zero is never shown  *)
(* (the handlers' "> 0").                                                  *)
MainStates ==
    CASE kind = "thermostat" -> ThermostatShows
      [] kind = "airconditioner" -> AirconditionerShows
      [] kind = "ventilation" -> VentilationShows
      [] OTHER -> BOOLEAN

Sensors == Subs \ {"main", "direction", "floor", "problem"}

TypeOK ==
    /\ kind \in Kinds /\ dev \in Statuses[kind]
    /\ stage \in {"quiet", "told", "obeyed", "reported"}
    /\ told \in Calls[kind] \cup {None} /\ call \in Calls[kind] \cup {None}
    /\ shown["main"] = None \/ shown["main"] \in MainStates
    /\ \A s \in Sensors : shown[s] = None \/ shown[s] \in Reading
    /\ shown["problem"] = None \/ shown["problem"] \in BOOLEAN
    /\ waiter \in {"none", "open", "hit"} /\ (waiter # "none" => call # None)
    /\ reported = None \/ reported \in Statuses[kind]
    /\ floors \in BOOLEAN /\ live \in BOOLEAN /\ heard \in BOOLEAN /\ done \in BOOLEAN

(* A device that did what it was told and reports it confirms the call:    *)
(* what generate_command writes, the handlers read and build_expectation   *)
(* compares is one and the same, for every action.                         *)
ObeyedIsConfirmed == done => waiter # "open"

(* A thermostat call is confirmed by a status in which the room itself     *)
(* shows what was asked, sent after the transmission: not by the room's    *)
(* acknowledgement, nor by a command of the wallpad (_handle_thermostat).  *)
ConfirmedIsDone == kind = "thermostat" /\ waiter = "hit" => done

(* What is shown of a thermostat and its sensors is what its last report   *)
(* said, whatever acknowledgements and commands were heard on the bus.     *)
ShownIsReported ==
    kind = "thermostat" /\ reported # None =>
        LET said == Handle(AsFrame(11, "device", reported), floors, FALSE)
        IN  \A s \in Subs : said[s] # None => shown[s] = said[s]

(* The elevator's switch and its direction sensor never contradict each    *)
(* other: on while it is called or moving, off when it is idle or arrived. *)
DirectionAgrees ==
    kind = "elevator" /\ shown["main"] # None =>
        (shown["main"] <=> shown["direction"] \in {"called", "downward", "upward"})

(* is_device_state_confirmed returns "whether this device reported state   *)
(* in the current connection".  Violated: the command of the wallpad to an *)
(* air conditioner, a fan or a gas valve is read like a report of it.      *)
ConfirmedByReport == live => heard
=============================================================================
