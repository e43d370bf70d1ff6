---------------------------- MODULE CodecProofs ----------------------------
(***************************************************************************)
(* Theorems about Codec, for every set of reports like those observed,     *)
(* every call the entities offer, and any number of frames.  Packets,      *)
(* handlers and predicates fit together kind by kind; the dialogue on the  *)
(* bus then never reads one thing and means another.                       *)
(***************************************************************************)
EXTENDS Codec, TLAPS

Frame == [type : {11, 13}, from : {"device", "wallpad"}, cmd : Byte,
          payload : [0 .. 7 -> Byte]]
ContentOf(f) == [cmd |-> f.cmd, payload |-> f.payload]

\* What the gateway hears: a status is a report of the device, and the frames
\* of an elevator carry one of its directions, or a call without one.
Heard(f) ==
    /\ f \in Frame
    /\ IsStatus(f) => ContentOf(f) \in Statuses[kind]
    /\ kind = "elevator" => /\ f.payload[0] \in 0 .. 3
                            /\ f.type = 13 /\ f.cmd = 1 => f.payload[0] = 0

BusInv ==
    /\ kind \in Kinds /\ dev \in Statuses[kind]
    /\ stage \in {"quiet", "told", "obeyed", "reported"}
    /\ told \in Calls[kind] \cup {None} /\ call \in Calls[kind] \cup {None}
    /\ stage = "told" => told # None
    /\ told # None => Packet(told) # None
    /\ call # None => Packet(call) # None

\* The states of an entity, its own or its sensors'.
StateOK(s, st) ==
    /\ s = "main" => st \in MainStates
    /\ s \in Sensors => st \in Reading
    /\ s = "problem" => st \in BOOLEAN

ShownInv == \A s \in Subs : shown[s] = None \/ StateOK(s, shown[s])

RxType ==
    /\ waiter \in {"none", "open", "hit"} /\ (waiter # "none" => call # None)
    /\ reported = None \/ reported \in Statuses[kind]
    /\ floors \in BOOLEAN /\ live \in BOOLEAN /\ heard \in BOOLEAN /\ done \in BOOLEAN

\* The waiter is settled by the report that shows the call done.
WaiterInv ==
    /\ done => waiter = "hit"
    /\ ConfirmedIsDone

RxInv ==
    /\ RxType /\ ShownInv /\ WaiterInv
    /\ ShownIsReported
    /\ DirectionAgrees

CodecInv == BusInv /\ RxInv

----------------------------------------------------------------------------
(* The tables of models.py and their REV_ maps.                            *)

LEMMA Names ==
    /\ AcMode[0] = "cool" /\ AcMode[1] = "fan_only" /\ AcMode[2] = "dry" /\ AcMode[3] = "auto"
    /\ AcFan[1] = "low" /\ AcFan[2] = "medium" /\ AcFan[3] = "high" /\ AcFan[4] = "auto"
    /\ Preset[1] = "ventilation" /\ Preset[2] = "auto" /\ Preset[3] = "bypass"
    /\ Preset[5] = "sleep" /\ Preset[8] = "air purification"
<1>1. \A n \in {0, 1, 2, 3, 4, 5, 8} : n \in Byte
  BY DEF Byte
<1>. QED
  BY <1>1 DEF AcMode, AcFan, Preset

LEMMA NameTypes ==
    ASSUME NEW b \in Byte
    PROVE  /\ AcMode[b] \in {"cool", "fan_only", "dry", "auto", "off"}
           /\ AcFan[b] \in {"low", "medium", "high", "auto"}
           /\ Preset[b] \in {"ventilation", "auto", "bypass", "sleep",
                             "air purification", "unknown"}
<1>1. AcMode[b] \in {"cool", "fan_only", "dry", "auto", "off"}
  <2>1. CASE b \in 0 .. 3
    <3>1. b = 0 \/ b = 1 \/ b = 2 \/ b = 3
      BY <2>1
    <3>. QED
      BY <3>1, Names
  <2>2. CASE b \notin 0 .. 3
    BY <2>2 DEF AcMode
  <2>. QED
    BY <2>1, <2>2
<1>2. AcFan[b] \in {"low", "medium", "high", "auto"}
  <2>1. CASE b \in 1 .. 4
    <3>1. b = 1 \/ b = 2 \/ b = 3 \/ b = 4
      BY <2>1
    <3>. QED
      BY <3>1, Names
  <2>2. CASE b \notin 1 .. 4
    BY <2>2 DEF AcFan
  <2>. QED
    BY <2>1, <2>2
<1>3. Preset[b] \in {"ventilation", "auto", "bypass", "sleep",
                     "air purification", "unknown"}
  BY DEF Preset
<1>. QED
  BY <1>1, <1>2, <1>3

LEMMA RevOf ==
    ASSUME NEW table, NEW bytes, NEW name, \E b \in bytes : table[b] = name
    PROVE  Rev(table, bytes, name) \in bytes /\ table[Rev(table, bytes, name)] = name
BY DEF Rev

LEMMA RevMode ==
    ASSUME NEW name \in {"cool", "fan_only", "dry", "auto"}
    PROVE  Rev(AcMode, 0 .. 3, name) \in 0 .. 3 /\ AcMode[Rev(AcMode, 0 .. 3, name)] = name
<1>1. \E b \in 0 .. 3 : AcMode[b] = name
  <2>1. 0 \in 0 .. 3 /\ 1 \in 0 .. 3 /\ 2 \in 0 .. 3 /\ 3 \in 0 .. 3
    OBVIOUS
  <2>. QED
    BY <2>1, Names
<1>. QED
  BY <1>1, RevOf

LEMMA RevFan ==
    ASSUME NEW name \in {"low", "medium", "high", "auto"}
    PROVE  Rev(AcFan, 1 .. 4, name) \in 1 .. 4 /\ AcFan[Rev(AcFan, 1 .. 4, name)] = name
<1>1. \E b \in 1 .. 4 : AcFan[b] = name
  <2>1. 4 \in 1 .. 4 /\ 1 \in 1 .. 4 /\ 2 \in 1 .. 4 /\ 3 \in 1 .. 4
    OBVIOUS
  <2>. QED
    BY <2>1, Names
<1>. QED
  BY <1>1, RevOf

LEMMA RevPreset ==
    ASSUME NEW name \in {"ventilation", "auto", "bypass", "sleep", "air purification"}
    PROVE  /\ Rev(Preset, {0, 1, 2, 3, 5, 8}, name) \in {0, 1, 2, 3, 5, 8}
           /\ Preset[Rev(Preset, {0, 1, 2, 3, 5, 8}, name)] = name
<1>. DEFINE bytes == {0, 1, 2, 3, 5, 8}
<1>1. \E b \in bytes : Preset[b] = name
  BY Names
<1>. HIDE DEF bytes
<1>2. Rev(Preset, bytes, name) \in bytes /\ Preset[Rev(Preset, bytes, name)] = name
  BY <1>1, RevOf
<1>. QED
  BY <1>2 DEF bytes

\* The byte of a whole temperature stands for it (_encode_whole_temperature).
LEMMA WholeTemperatureOf ==
    ASSUME NEW t \in Nat, WholeTemperature(t) # None
    PROVE  WholeTemperature(t) \in Byte /\ 10 * WholeTemperature(t) = t
BY DEF WholeTemperature, Byte

----------------------------------------------------------------------------
(* What each device is told, and how its report confirms it.               *)

LEMMA BlankType == Blank \in [0 .. 7 -> Byte] /\ \A i \in 0 .. 7 : Blank[i] = 0
BY DEF Blank, Byte

\* A report of a thermostat confirms a call if, and only if, the room did
\* what it was told.
LEMMA ThermostatConfirms ==
    ASSUME kind = "thermostat", NEW c \in Offered("thermostat"), Packet(c) # None,
           NEW f \in Frame, f.payload[0] \div 16 \in {0, 1}, f.payload[1] \in {0, 1}
    PROVE  /\ Packet(c) \in Content
           /\ Confirms(c, ThermostatStates(f)["main"]) <=> Does(c, f)
<1>. DEFINE st == ThermostatStates(f)["main"]
            p == ThermostatData(c)
<1>1. /\ st.hvac_mode = IF f.payload[0] \div 16 = 1 THEN "heat" ELSE "off"
      /\ st.preset_mode = IF f.payload[1] % 16 = 1 THEN "away" ELSE "none"
      /\ st.target_temp = 10 * f.payload[2]
  BY DEF ThermostatStates, Silence, Subs
<1>2. /\ Packet(c) = [cmd |-> 0, payload |-> p]
      /\ c.action = "set_temperature" => WholeTemperature(c.value) # None
  BY DEF Packet
<1>3. Packet(c).cmd = 0 /\ Packet(c).payload = p
  BY <1>2
<1>4. \A i \in 0 .. 7 : f.payload[i] \in Byte
  BY DEF Frame
<1>. HIDE DEF st
<1>5. CASE c.action = "set_hvac"
  <2>1. c.value \in {"heat", "off"}
    BY <1>5 DEF Offered, Temperature
  <2>2. p = [Blank EXCEPT ![0] = IF c.value = "heat" THEN 17 ELSE 0]
    BY <1>5 DEF ThermostatData
  <2>3. p \in [0 .. 7 -> Byte] /\ p[0] = IF c.value = "heat" THEN 17 ELSE 0
    BY <2>2, BlankType DEF Byte
  <2>4. Does(c, f) <=> f.payload[0] \div 16 = p[0] \div 16
    BY <1>3, <1>5 DEF Does, About
  <2>5. Confirms(c, st) <=> st.hvac_mode = c.value
    BY <1>5 DEF Confirms
  <2>6. 17 \div 16 = 1 /\ 0 \div 16 = 0
    OBVIOUS
  <2>. HIDE DEF p
  <2>7. Packet(c) \in Content
    BY <1>2, <2>3 DEF Content, Byte
  <2>8. Confirms(c, st) <=> Does(c, f)
    BY <1>1, <2>1, <2>3, <2>4, <2>5, <2>6
  <2>. QED
    BY <2>7, <2>8 DEF st
<1>6. CASE c.action = "set_preset"
  <2>1. c.value \in {"away", "none"}
    BY <1>6 DEF Offered, Temperature
  <2>2. p = [Blank EXCEPT ![0] = 17, ![1] = IF c.value = "away" THEN 1 ELSE 0]
    BY <1>6 DEF ThermostatData
  <2>3. p \in [0 .. 7 -> Byte] /\ p[1] = IF c.value = "away" THEN 1 ELSE 0
    BY <2>2, BlankType DEF Byte
  <2>4. Does(c, f) <=> f.payload[1] = p[1]
    BY <1>3, <1>6 DEF Does, About
  <2>5. Confirms(c, st) <=> st.preset_mode = c.value
    BY <1>6 DEF Confirms
  <2>6. 1 % 16 = 1 /\ 0 % 16 = 0
    OBVIOUS
  <2>. HIDE DEF p
  <2>7. Packet(c) \in Content
    BY <1>2, <2>3 DEF Content, Byte
  <2>8. Confirms(c, st) <=> Does(c, f)
    BY <1>1, <2>1, <2>3, <2>4, <2>5, <2>6
  <2>. QED
    BY <2>7, <2>8 DEF st
<1>7. CASE c.action = "set_temperature"
  <2>1. c.value \in Nat /\ WholeTemperature(c.value) # None
    BY <1>2, <1>7 DEF Offered, Temperature
  <2>2. p = [Blank EXCEPT ![0] = 17, ![2] = WholeTemperature(c.value)]
    BY <1>7 DEF ThermostatData
  <2>3. p \in [0 .. 7 -> Byte] /\ p[2] = WholeTemperature(c.value)
    BY <2>1, <2>2, BlankType, WholeTemperatureOf DEF Byte
  <2>4. Does(c, f) <=> f.payload[2] = p[2]
    BY <1>3, <1>7 DEF Does, About
  <2>5. Confirms(c, st) <=> st.target_temp = c.value
    BY <1>7 DEF Confirms
  <2>6. p[2] \in Int /\ 10 * p[2] = c.value
    BY <2>1, <2>3, WholeTemperatureOf DEF Byte
  <2>7. f.payload[2] \in Int
    BY <1>4 DEF Byte
  <2>. HIDE DEF p
  <2>8. Packet(c) \in Content
    BY <1>2, <2>3 DEF Content, Byte
  <2>9. Confirms(c, st) <=> Does(c, f)
    BY <1>1, <2>4, <2>5, <2>6, <2>7
  <2>. QED
    BY <2>8, <2>9 DEF st
<1>. QED
  BY <1>5, <1>6, <1>7 DEF Offered, Temperature

LEMMA AirconditionerConfirms ==
    ASSUME kind = "airconditioner", NEW c \in Offered("airconditioner"), Packet(c) # None,
           NEW f \in Frame, f.payload[0] \in {0, 16}
    PROVE  /\ Packet(c) \in Content
           /\ f.cmd = 0 /\ Does(c, f) => Confirms(c, HandleAirconditioner(f)["main"])
<1>. DEFINE st == HandleAirconditioner(f)["main"]
            p == AirconditionerData(c)
<1>1. f.cmd = 0 =>
        /\ st.hvac_mode = IF f.payload[0] = 16 THEN AcMode[f.payload[1]] ELSE "off"
        /\ st.fan_mode = AcFan[f.payload[2]]
        /\ st.target_temp = 10 * f.payload[5]
  BY DEF HandleAirconditioner, Silence, Subs
<1>2. /\ Packet(c) = [cmd |-> 0, payload |-> p]
      /\ c.action = "set_temperature" => WholeTemperature(c.value) # None
  BY DEF Packet
<1>3. Packet(c).cmd = 0 /\ Packet(c).payload = p
  BY <1>2
<1>. HIDE DEF st
<1>5. CASE c.action = "set_hvac" /\ c.value = "off"
  <2>2. p = Blank
    BY <1>5 DEF AirconditionerData
  <2>3. p \in [0 .. 7 -> Byte] /\ p[0] = 0
    BY <2>2, BlankType
  <2>4. Does(c, f) => f.payload[0] \div 16 = p[0] \div 16
    BY <1>3, <1>5 DEF Does, About
  <2>5. Confirms(c, st) <=> st.hvac_mode = c.value
    BY <1>5 DEF Confirms
  <2>6. 16 \div 16 = 1 /\ 0 \div 16 = 0
    OBVIOUS
  <2>. HIDE DEF p
  <2>7. Packet(c) \in Content
    BY <1>2, <2>3 DEF Content, Byte
  <2>8. f.cmd = 0 /\ Does(c, f) => Confirms(c, st)
    BY <1>1, <1>5, <2>3, <2>4, <2>5, <2>6
  <2>. QED
    BY <2>7, <2>8 DEF st
<1>6. CASE c.action = "set_hvac" /\ c.value # "off"
  <2>1. c.value \in {"cool", "fan_only", "dry", "auto"}
    BY <1>6 DEF Offered, Temperature
  <2>2. p = [Blank EXCEPT ![0] = 16, ![1] = Rev(AcMode, 0 .. 3, c.value)]
    BY <1>6 DEF AirconditionerData
  <2>. DEFINE b == Rev(AcMode, 0 .. 3, c.value)
  <2>3. b \in Byte /\ AcMode[b] = c.value
    BY <2>1, RevMode DEF Byte
  <2>. HIDE DEF b
  <2>4. p \in [0 .. 7 -> Byte] /\ p[0] = 16 /\ p[1] = b
    BY <2>2, <2>3, BlankType DEF Byte, b
  <2>5. Does(c, f) => f.payload[0] \div 16 = p[0] \div 16 /\ f.payload[1] = p[1]
    BY <1>3, <1>6 DEF Does, About
  <2>6. Confirms(c, st) <=> st.hvac_mode = c.value
    BY <1>6 DEF Confirms
  <2>7. 16 \div 16 = 1 /\ 0 \div 16 = 0
    OBVIOUS
  <2>. HIDE DEF p
  <2>8. Packet(c) \in Content
    BY <1>2, <2>4 DEF Content, Byte
  <2>9. f.cmd = 0 /\ Does(c, f) => Confirms(c, st)
    BY <1>1, <2>3, <2>4, <2>5, <2>6, <2>7
  <2>. QED
    BY <2>8, <2>9 DEF st
<1>7. CASE c.action = "set_fan"
  <2>1. c.value \in {"low", "medium", "high", "auto"}
    BY <1>7 DEF Offered, Temperature
  <2>2. p = [Blank EXCEPT ![0] = 16, ![2] = Rev(AcFan, 1 .. 4, c.value)]
    BY <1>7 DEF AirconditionerData
  <2>. DEFINE b == Rev(AcFan, 1 .. 4, c.value)
  <2>3. b \in Byte /\ AcFan[b] = c.value
    BY <2>1, RevFan DEF Byte
  <2>. HIDE DEF b
  <2>4. p \in [0 .. 7 -> Byte] /\ p[2] = b
    BY <2>2, <2>3, BlankType DEF Byte, b
  <2>5. Does(c, f) => f.payload[2] = p[2]
    BY <1>3, <1>7 DEF Does, About
  <2>6. Confirms(c, st) <=> st.fan_mode = c.value
    BY <1>7 DEF Confirms
  <2>. HIDE DEF p
  <2>7. Packet(c) \in Content
    BY <1>2, <2>4 DEF Content, Byte
  <2>8. f.cmd = 0 /\ Does(c, f) => Confirms(c, st)
    BY <1>1, <2>3, <2>4, <2>5, <2>6
  <2>. QED
    BY <2>7, <2>8 DEF st
<1>8. CASE c.action = "set_temperature"
  <2>1. c.value \in Nat /\ WholeTemperature(c.value) # None
    BY <1>2, <1>8 DEF Offered, Temperature
  <2>2. p = [Blank EXCEPT ![0] = 16, ![5] = WholeTemperature(c.value)]
    BY <1>8 DEF AirconditionerData
  <2>3. p \in [0 .. 7 -> Byte] /\ p[5] = WholeTemperature(c.value)
    BY <2>1, <2>2, BlankType, WholeTemperatureOf DEF Byte
  <2>4. Does(c, f) => f.payload[5] = p[5]
    BY <1>3, <1>8 DEF Does, About
  <2>5. Confirms(c, st) <=> st.target_temp = c.value
    BY <1>8 DEF Confirms
  <2>6. 10 * p[5] = c.value
    BY <2>1, <2>3, WholeTemperatureOf
  <2>. HIDE DEF p
  <2>7. Packet(c) \in Content
    BY <1>2, <2>3 DEF Content, Byte
  <2>8. f.cmd = 0 /\ Does(c, f) => Confirms(c, st)
    BY <1>1, <2>4, <2>5, <2>6
  <2>. QED
    BY <2>7, <2>8 DEF st
<1>. QED
  BY <1>5, <1>6, <1>7, <1>8 DEF Offered, Temperature

LEMMA VentilationConfirms ==
    ASSUME kind = "ventilation", NEW c \in Offered("ventilation"), NEW f \in Frame
    PROVE  /\ Packet(c) \in Content
           /\ f.cmd = 0 /\ Does(c, f) => Confirms(c, HandleVentilation(f)["main"])
<1>. DEFINE st == HandleVentilation(f)["main"]
            p == VentilationData(c)
<1>1. f.cmd = 0 =>
        /\ st.state <=> f.payload[0] \div 16 = 1
        /\ st.preset_mode = Preset[f.payload[1]]
        /\ st.speed = f.payload[2]
  BY DEF HandleVentilation, Silence, Subs
<1>2. c.action # "set_temperature"
  BY DEF Offered, OnOff
<1>3. Packet(c) = [cmd |-> 0, payload |-> p]
  BY <1>2 DEF Packet
<1>4. Packet(c).payload = p
  BY <1>3
<1>. HIDE DEF st
<1>5. CASE c.action = "set_preset"
  <2>1. c.value \in {"ventilation", "auto", "bypass", "sleep", "air purification"}
    BY <1>5 DEF Offered, OnOff
  <2>2. p = [Blank EXCEPT ![0] = 17, ![1] = Rev(Preset, {0, 1, 2, 3, 5, 8}, c.value)]
    BY <1>5 DEF VentilationData
  <2>. DEFINE b == Rev(Preset, {0, 1, 2, 3, 5, 8}, c.value)
  <2>3. b \in {0, 1, 2, 3, 5, 8} /\ Preset[b] = c.value
    BY <2>1, RevPreset
  <2>. HIDE DEF b
  <2>4. b \in Byte
    BY <2>3 DEF Byte
  <2>5. p \in [0 .. 7 -> Byte] /\ p[1] = b
    BY <2>2, <2>4, BlankType DEF Byte, b
  <2>6. Does(c, f) => f.payload[1] = p[1]
    BY <1>4, <1>5 DEF Does, About
  <2>7. Confirms(c, st) <=> st.preset_mode = c.value
    BY <1>5 DEF Confirms
  <2>. HIDE DEF p
  <2>8. Packet(c) \in Content
    BY <1>3, <2>5 DEF Content, Byte
  <2>9. f.cmd = 0 /\ Does(c, f) => Confirms(c, st)
    BY <1>1, <2>3, <2>5, <2>6, <2>7
  <2>. QED
    BY <2>8, <2>9 DEF st
<1>6. CASE c.action = "set_percentage"
  <2>0. c.value \in {0, 64, 128, 192}
    BY <1>6 DEF Offered, OnOff
  <2>1. c.value \in Byte
    BY <2>0 DEF Byte
  <2>2. p = [Blank EXCEPT ![0] = IF c.value = 0 THEN 0 ELSE 17, ![2] = c.value]
    BY <1>6 DEF VentilationData
  <2>3. p \in [0 .. 7 -> Byte] /\ p[2] = c.value
    <3>. DEFINE b == IF c.value = 0 THEN 0 ELSE 17
    <3>1. b \in Byte
      BY DEF Byte
    <3>2. p = [Blank EXCEPT ![0] = b, ![2] = c.value]
      BY <2>2
    <3>. HIDE DEF b, p
    <3>. QED
      BY <2>1, <3>1, <3>2, BlankType
  <2>4. Does(c, f) => f.payload[2] = p[2]
    BY <1>4, <1>6 DEF Does, About
  <2>5. Confirms(c, st) <=> st.speed = c.value
    BY <1>6 DEF Confirms
  <2>. HIDE DEF p
  <2>6. Packet(c) \in Content
    BY <1>3, <2>3 DEF Content, Byte
  <2>7. f.cmd = 0 /\ Does(c, f) => Confirms(c, st)
    BY <1>1, <2>3, <2>4, <2>5
  <2>. QED
    BY <2>6, <2>7 DEF st
<1>7. CASE c.action \in {"turn_on", "turn_off"}
  <2>1. p = [Blank EXCEPT ![0] = IF c.action = "turn_on" THEN 17 ELSE 0]
    BY <1>7 DEF VentilationData
  <2>2. p \in [0 .. 7 -> Byte] /\ p[0] = IF c.action = "turn_on" THEN 17 ELSE 0
    BY <2>1, BlankType DEF Byte
  <2>3. Does(c, f) => f.payload[0] \div 16 = p[0] \div 16
    BY <1>4, <1>7 DEF Does, About
  <2>4. /\ c.action = "turn_on" => (Confirms(c, st) <=> st.state)
        /\ c.action = "turn_off" => (Confirms(c, st) <=> ~st.state)
    BY <1>7 DEF Confirms
  <2>5. 17 \div 16 = 1 /\ 0 \div 16 = 0
    OBVIOUS
  <2>. HIDE DEF p
  <2>6. Packet(c) \in Content
    BY <1>3, <2>2 DEF Content, Byte
  <2>7. f.cmd = 0 /\ Does(c, f) => Confirms(c, st)
    BY <1>1, <1>7, <2>2, <2>3, <2>4, <2>5
  <2>. QED
    BY <2>6, <2>7 DEF st
<1>. QED
  BY <1>5, <1>6, <1>7 DEF Offered, OnOff

LEMMA GasvalveConfirms ==
    ASSUME kind = "gasvalve", NEW c \in Offered("gasvalve"), Packet(c) # None,
           NEW f \in Frame
    PROVE  /\ Packet(c) \in Content
           /\ Does(c, f) => /\ HandleGasvalve(f)["main"] = FALSE
                            /\ Confirms(c, HandleGasvalve(f)["main"])
<1>1. c.action = "turn_off" /\ Packet(c) = [cmd |-> 2, payload |-> Blank]
  BY DEF Packet
<1>2. Packet(c) \in Content
  BY <1>1, BlankType DEF Content, Byte
<1>3. Does(c, f) => f.cmd = 2
  BY <1>1 DEF Does
<1>4. ASSUME f.cmd = 2
      PROVE  HandleGasvalve(f)["main"] = FALSE
  <2>1. HandleGasvalve(f)["main"] = (f.cmd = 1)
    BY <1>4 DEF HandleGasvalve, Silence, Subs
  <2>2. (f.cmd = 1) = FALSE
    <3>1. f.cmd # 1
      BY <1>4
    <3>. QED
      BY <3>1, Zenon
  <2>. QED
    BY <2>1, <2>2, Zenon
<1>5. \A st : Confirms(c, st) <=> ~st
  BY <1>1 DEF Confirms
<1>. QED
  BY <1>2, <1>3, <1>4, <1>5

LEMMA ElevatorConfirms ==
    ASSUME kind = "elevator", NEW c \in Offered("elevator"), NEW f \in Frame, NEW h,
           \/ IsStatus(f) /\ Does(c, f)
           \/ f.type = 13 /\ f.payload[0] = 0
    PROVE  /\ Packet(c) \in Content
           /\ HandleElevator(f, h)["main"] = TRUE
           /\ Confirms(c, HandleElevator(f, h)["main"])
<1>1. c.action = "turn_on" /\ Packet(c) = [cmd |-> 1, payload |-> Blank]
  BY DEF Packet, Offered
<1>2. Packet(c) \in Content
  BY <1>1, BlankType DEF Content, Byte
<1>3. ElevatorOn(f)
  BY DEF Does, ElevatorOn
<1>4. HandleElevator(f, h)["main"] = ElevatorOn(f)
  BY DEF HandleElevator, Silence, Subs
<1>5. \A st : Confirms(c, st) <=> st
  BY <1>1 DEF Confirms
<1>6. ElevatorOn(f) = TRUE
  BY <1>3 DEF ElevatorOn
<1>. QED
  BY <1>2, <1>4, <1>5, <1>6

----------------------------------------------------------------------------
(* What the handlers read has its type.                                    *)

LEMMA Payload ==
    ASSUME NEW f \in Frame
    PROVE  /\ f.payload[0] \in Byte /\ f.payload[1] \in Byte /\ f.payload[2] \in Byte
           /\ f.payload[3] \in Byte /\ f.payload[4] \in Byte /\ f.payload[5] \in Byte
           /\ f.payload[6] \in Byte /\ f.payload[7] \in Byte
<1>1. f.payload \in [0 .. 7 -> Byte]
  BY DEF Frame
<1>. DEFINE p == f.payload
<1>. HIDE DEF p
<1>2. p \in [0 .. 7 -> Byte]
  BY <1>1 DEF p
<1>3. /\ p[0] \in Byte /\ p[1] \in Byte /\ p[2] \in Byte /\ p[3] \in Byte
      /\ p[4] \in Byte /\ p[5] \in Byte /\ p[6] \in Byte /\ p[7] \in Byte
  BY <1>2
<1>. QED
  BY <1>3 DEF p

Word == 0 .. 65535

LEMMA PositiveUpTo ==
    ASSUME NEW M \in Nat, NEW n \in 0 .. M
    PROVE  Positive(n) = None \/ Positive(n) \in 1 .. M
<1>1. CASE n > 0
  BY <1>1 DEF Positive
<1>2. CASE ~(n > 0)
  BY <1>2 DEF Positive
<1>. QED
  BY <1>1, <1>2

LEMMA PositiveReading ==
    ASSUME NEW n \in Word
    PROVE  Positive(n) = None \/ Positive(n) \in Reading
<1>. DEFINE M == 65535
<1>1. M \in Nat
  BY SMT
<1>2. Word = 0 .. M
  BY SMT DEF Word
<1>3. Reading = 1 .. M
  BY SMT DEF Reading
<1>. HIDE DEF M
<1>4. n \in 0 .. M
  BY <1>2
<1>. QED
  BY <1>1, <1>3, <1>4, PositiveUpTo

\* A reading of one byte, of hundreds and units, or of two bytes.
LEMMA Readings ==
    ASSUME NEW a \in Byte, NEW b \in Byte
    PROVE  /\ Positive(a) = None \/ Positive(a) \in Reading
           /\ Positive(100 * a + b) = None \/ Positive(100 * a + b) \in Reading
           /\ Positive(256 * a + b) = None \/ Positive(256 * a + b) \in Reading
<1>. DEFINE M == 65535
<1>1. a \in 0 .. 255 /\ b \in 0 .. 255
  BY DEF Byte
<1>2. Word = 0 .. M
  BY SMT DEF Word
<1>3. /\ a \in Word /\ 100 * a + b \in Word /\ 256 * a + b \in Word
  <2>1. 256 * 255 + 255 <= M /\ M \in Nat
    BY SMT
  <2>. HIDE DEF M
  <2>. QED
    BY SMT, <1>1, <1>2, <2>1
<1>4. Positive(a) = None \/ Positive(a) \in Reading
  BY <1>3, PositiveReading
<1>5. Positive(100 * a + b) = None \/ Positive(100 * a + b) \in Reading
  BY <1>3, PositiveReading
<1>6. Positive(256 * a + b) = None \/ Positive(256 * a + b) \in Reading
  BY <1>3, PositiveReading
<1>. QED
  BY <1>4, <1>5, <1>6

LEMMA TenthsOf == ASSUME NEW a \in Byte PROVE 10 * a \in Tenths
BY SMT DEF Byte, Tenths

LEMMA EntityNames ==
    /\ "main" \notin Sensors /\ "problem" \notin Sensors
    /\ "direction" \notin Sensors /\ "floor" \notin Sensors
BY DEF Sensors

\* An entity is the device, its error sensor, a number, or without a type.
LEMMA StateOKOf ==
    ASSUME NEW s, NEW st,
           s = "main" => st = None \/ st \in MainStates,
           s = "problem" => st = None \/ st \in BOOLEAN,
           s \notin {"main", "problem", "direction", "floor"} => st = None \/ st \in Reading
    PROVE  st = None \/ StateOK(s, st)
<1>. SUFFICES ASSUME st # None PROVE StateOK(s, st)
  OBVIOUS
<1>1. s = "main" => st \in MainStates
  OBVIOUS
<1>2. s = "problem" => st \in BOOLEAN
  OBVIOUS
<1>3. ASSUME s \in Sensors
      PROVE  st \in Reading
  <2>1. s \notin {"main", "problem", "direction", "floor"}
    BY <1>3, EntityNames
  <2>. QED
    BY <2>1
<1>. QED
  BY <1>1, <1>2, <1>3 DEF StateOK

LEMMA ThermostatShown ==
    ASSUME NEW a \in {"heat", "off"}, NEW b \in {"away", "none"},
           NEW t \in Tenths, NEW u \in Tenths
    PROVE  [hvac_mode |-> a, preset_mode |-> b, target_temp |-> t, current_temp |-> u]
             \in ThermostatShows
BY DEF ThermostatShows

LEMMA AirconditionerShown ==
    ASSUME NEW a \in {"cool", "fan_only", "dry", "auto", "off"},
           NEW b \in {"low", "medium", "high", "auto"},
           NEW t \in Tenths, NEW u \in Tenths
    PROVE  [hvac_mode |-> a, fan_mode |-> b, current_temp |-> u, target_temp |-> t]
             \in AirconditionerShows
BY DEF AirconditionerShows

LEMMA VentilationShown ==
    ASSUME NEW a \in BOOLEAN, NEW v \in Byte,
           NEW b \in {"ventilation", "auto", "bypass", "sleep", "air purification", "unknown"}
    PROVE  [state |-> a, preset_mode |-> b, speed |-> v] \in VentilationShows
BY DEF VentilationShows

LEMMA ThermostatType ==
    ASSUME kind = "thermostat", NEW f \in Frame, NEW s \in Subs
    PROVE  /\ ThermostatStates(f)["main"] \in ThermostatShows
           /\ ThermostatStates(f)[s] = None \/ StateOK(s, ThermostatStates(f)[s])
<1>. DEFINE st == ThermostatStates(f)
            a == IF f.payload[0] \div 16 = 1 THEN "heat" ELSE "off"
            b == IF f.payload[1] % 16 = 1 THEN "away" ELSE "none"
<1>1. st["main"] = [hvac_mode |-> a, preset_mode |-> b,
                    target_temp |-> 10 * f.payload[2], current_temp |-> 10 * f.payload[4]]
  BY DEF ThermostatStates, Silence, Subs
<1>2. a \in {"heat", "off"} /\ b \in {"away", "none"}
  OBVIOUS
<1>3. 10 * f.payload[2] \in Tenths /\ 10 * f.payload[4] \in Tenths
  BY Payload, TenthsOf
<1>. HIDE DEF a, b
<1>4. st["main"] \in ThermostatShows
  BY <1>1, <1>2, <1>3, ThermostatShown
<1>5. /\ st["hot"] = Positive(f.payload[3]) /\ st["heat"] = Positive(f.payload[5])
      /\ s \notin {"main", "hot", "heat", "problem"} => st[s] = None
  BY DEF ThermostatStates, Silence, Subs
<1>6. st["problem"] \in BOOLEAN
  <2>1. st["problem"] = (f.payload[6] # 0)
    BY DEF ThermostatStates, Silence, Subs
  <2>. QED
    BY <2>1, Zenon
<1>7. MainStates = ThermostatShows
  BY DEF MainStates
<1>. HIDE DEF st
<1>8. s \notin {"main", "problem"} => st[s] = None \/ st[s] \in Reading
  BY <1>5, Payload, Readings
<1>9. st[s] = None \/ StateOK(s, st[s])
  BY <1>4, <1>6, <1>7, <1>8, StateOKOf
<1>. QED
  BY <1>4, <1>9 DEF st

LEMMA AirconditionerType ==
    ASSUME kind = "airconditioner", NEW f \in Frame, NEW s \in Subs
    PROVE  /\ f.cmd = 0 => HandleAirconditioner(f)["main"] \in AirconditionerShows
           /\ HandleAirconditioner(f)[s] = None \/ StateOK(s, HandleAirconditioner(f)[s])
<1>. DEFINE st == HandleAirconditioner(f)
<1>1. CASE f.cmd = 0
  <2>. DEFINE a == IF f.payload[0] = 16 THEN AcMode[f.payload[1]] ELSE "off"
              b == AcFan[f.payload[2]]
  <2>1. st["main"] = [hvac_mode |-> a, fan_mode |-> b,
                      current_temp |-> 10 * f.payload[4], target_temp |-> 10 * f.payload[5]]
    BY <1>1 DEF HandleAirconditioner, Silence, Subs
  <2>2. 10 * f.payload[4] \in Tenths /\ 10 * f.payload[5] \in Tenths
    BY Payload, TenthsOf
  <2>3. /\ a \in {"cool", "fan_only", "dry", "auto", "off"}
        /\ b \in {"low", "medium", "high", "auto"}
    BY Payload, NameTypes
  <2>. HIDE DEF a, b
  <2>4. st["main"] \in AirconditionerShows
    BY <2>1, <2>2, <2>3, AirconditionerShown
  <2>5. s # "main" => st[s] = None
    BY <1>1 DEF HandleAirconditioner, Silence, Subs
  <2>6. MainStates = AirconditionerShows
    BY DEF MainStates
  <2>. HIDE DEF st
  <2>7. st[s] = None \/ StateOK(s, st[s])
    BY <2>4, <2>5, <2>6, StateOKOf
  <2>. QED
    BY <2>4, <2>7 DEF st
<1>2. CASE f.cmd # 0
  BY <1>2 DEF HandleAirconditioner, Silence
<1>. QED
  BY <1>1, <1>2

LEMMA VentilationType ==
    ASSUME kind = "ventilation", NEW f \in Frame, NEW s \in Subs
    PROVE  /\ f.cmd = 0 => HandleVentilation(f)["main"] \in VentilationShows
           /\ HandleVentilation(f)[s] = None \/ StateOK(s, HandleVentilation(f)[s])
<1>. DEFINE st == HandleVentilation(f)
<1>1. CASE f.cmd = 0
  <2>. DEFINE a == f.payload[0] \div 16 = 1
              b == Preset[f.payload[1]]
  <2>1. st["main"] = [state |-> a, preset_mode |-> b, speed |-> f.payload[2]]
    BY <1>1 DEF HandleVentilation, Silence, Subs
  <2>2. /\ b \in {"ventilation", "auto", "bypass", "sleep", "air purification", "unknown"}
        /\ f.payload[2] \in Byte
    BY Payload, NameTypes
  <2>3. a \in BOOLEAN
    BY Zenon
  <2>. HIDE DEF a, b
  <2>4. st["main"] \in VentilationShows
    BY <2>1, <2>2, <2>3, VentilationShown
  <2>5. /\ st["co2"] = Positive(100 * f.payload[4] + f.payload[5])
        /\ s \notin {"main", "co2", "problem"} => st[s] = None
    BY <1>1 DEF HandleVentilation, Silence, Subs
  <2>6. st["problem"] \in BOOLEAN
    <3>1. st["problem"] = (f.payload[6] # 0)
      BY <1>1 DEF HandleVentilation, Silence, Subs
    <3>. QED
      BY <3>1, Zenon
  <2>7. MainStates = VentilationShows
    BY DEF MainStates
  <2>. HIDE DEF st
  <2>8. s \notin {"main", "problem"} => st[s] = None \/ st[s] \in Reading
    BY <2>5, Payload, Readings
  <2>9. st[s] = None \/ StateOK(s, st[s])
    BY <2>4, <2>6, <2>7, <2>8, StateOKOf
  <2>. QED
    BY <2>4, <2>9 DEF st
<1>2. CASE f.cmd # 0
  BY <1>2 DEF HandleVentilation, Silence
<1>. QED
  BY <1>1, <1>2

LEMMA BooleanMain ==
    ASSUME kind \in {"gasvalve", "elevator", "motion", "airquality"}
    PROVE  MainStates = BOOLEAN
BY DEF MainStates

LEMMA GasvalveType ==
    ASSUME kind = "gasvalve", NEW f \in Frame, NEW s \in Subs
    PROVE  /\ HandleGasvalve(f)["main"] = None \/ HandleGasvalve(f)["main"] \in BOOLEAN
           /\ HandleGasvalve(f)[s] = None \/ StateOK(s, HandleGasvalve(f)[s])
<1>1. s # "main" => HandleGasvalve(f)[s] = None
  BY DEF HandleGasvalve, Silence
<1>2. HandleGasvalve(f)["main"] = None \/ HandleGasvalve(f)["main"] = (f.cmd = 1)
  BY DEF HandleGasvalve, Silence, Subs
<1>3. HandleGasvalve(f)["main"] = None \/ HandleGasvalve(f)["main"] \in BOOLEAN
  BY <1>2, Zenon
<1>4. MainStates = BOOLEAN
  BY BooleanMain
<1>. QED
  BY <1>1, <1>3, <1>4, StateOKOf

LEMMA MotionType ==
    ASSUME kind = "motion", NEW f \in Frame, NEW s \in Subs
    PROVE  HandleMotion(f)[s] = None \/ StateOK(s, HandleMotion(f)[s])
<1>1. s # "main" => HandleMotion(f)[s] = None
  BY DEF HandleMotion, Silence
<1>2. HandleMotion(f)["main"] = None \/ HandleMotion(f)["main"] = (f.cmd = 4)
  BY DEF HandleMotion, Silence, Subs
<1>3. HandleMotion(f)["main"] = None \/ HandleMotion(f)["main"] \in BOOLEAN
  BY <1>2, Zenon
<1>4. MainStates = BOOLEAN
  BY BooleanMain
<1>. QED
  BY <1>1, <1>3, <1>4, StateOKOf

LEMMA ElevatorType ==
    ASSUME kind = "elevator", NEW f \in Frame, NEW h, NEW s \in Subs
    PROVE  HandleElevator(f, h)[s] = None \/ StateOK(s, HandleElevator(f, h)[s])
<1>1. s \notin {"main", "direction", "floor"} => HandleElevator(f, h)[s] = None
  BY DEF HandleElevator, Silence
<1>2. HandleElevator(f, h)["main"] = ElevatorOn(f)
  BY DEF HandleElevator, Silence, Subs
<1>3. HandleElevator(f, h)["main"] \in BOOLEAN
  BY <1>2, Zenon DEF ElevatorOn
<1>4. MainStates = BOOLEAN
  BY BooleanMain
<1>. QED
  BY <1>1, <1>3, <1>4, StateOKOf

LEMMA AirqualityType ==
    ASSUME NEW f \in Frame, NEW s \in Subs
    PROVE  HandleAirquality(f)[s] = None \/ StateOK(s, HandleAirquality(f)[s])
<1>. DEFINE st == HandleAirquality(f)
<1>1. CASE f.cmd \in {0, 58}
  <2>1. /\ st["pm10"] = Positive(f.payload[0]) /\ st["pm25"] = Positive(f.payload[1])
        /\ st["co2"] = Positive(256 * f.payload[2] + f.payload[3])
        /\ st["voc"] = Positive(256 * f.payload[4] + f.payload[5])
        /\ st["temp"] = Positive(f.payload[6]) /\ st["humidity"] = Positive(f.payload[7])
        /\ s \notin {"pm10", "pm25", "co2", "voc", "temp", "humidity"} => st[s] = None
    BY <1>1 DEF HandleAirquality, Silence, Subs
  <2>. HIDE DEF st
  <2>2. st[s] = None \/ st[s] \in Reading
    BY <2>1, Payload, Readings
  <2>3. s \in {"main", "problem"} => st[s] = None
    BY <2>1
  <2>4. st[s] = None \/ StateOK(s, st[s])
    BY <2>2, <2>3, StateOKOf
  <2>. QED
    BY <2>4 DEF st
<1>2. CASE f.cmd \notin {0, 58}
  BY <1>2 DEF HandleAirquality, Silence
<1>. QED
  BY <1>1, <1>2

----------------------------------------------------------------------------
(* Every kind of device.                                                   *)

LEMMA HandleOf ==
    ASSUME NEW f, NEW h, NEW r
    PROVE  /\ kind = "thermostat" => Handle(f, h, r) = HandleThermostat(f, r)
           /\ kind = "airconditioner" => Handle(f, h, r) = HandleAirconditioner(f)
           /\ kind = "ventilation" => Handle(f, h, r) = HandleVentilation(f)
           /\ kind = "gasvalve" => Handle(f, h, r) = HandleGasvalve(f)
           /\ kind = "elevator" =>
                Handle(f, h, r) = HandleElevator(f, h \/ NamesFloor(f))
           /\ kind = "motion" => Handle(f, h, r) = HandleMotion(f)
           /\ kind = "airquality" => Handle(f, h, r) = HandleAirquality(f)
BY DEF Handle

\* A state a handler reads has the type of its entity.
LEMMA StatesTyped ==
    ASSUME kind \in AllKinds, NEW f \in Frame, NEW h, NEW r, NEW s \in Subs
    PROVE  Handle(f, h, r)[s] = None \/ StateOK(s, Handle(f, h, r)[s])
<1>1. CASE kind = "thermostat"
  <2>1. HandleThermostat(f, r) = ThermostatStates(f) \/ HandleThermostat(f, r)[s] = None
    BY DEF HandleThermostat, Silence
  <2>. QED
    BY <1>1, <2>1, HandleOf, ThermostatType
<1>2. CASE kind = "airconditioner"
  BY <1>2, HandleOf, AirconditionerType
<1>3. CASE kind = "ventilation"
  BY <1>3, HandleOf, VentilationType
<1>4. CASE kind = "gasvalve"
  BY <1>4, HandleOf, GasvalveType
<1>5. CASE kind = "elevator"
  BY <1>5, HandleOf, ElevatorType
<1>6. CASE kind = "motion"
  BY <1>6, HandleOf, MotionType
<1>7. CASE kind = "airquality"
  BY <1>7, HandleOf, AirqualityType
<1>. QED
  BY <1>1, <1>2, <1>3, <1>4, <1>5, <1>6, <1>7 DEF AllKinds

LEMMA KindAndCalls ==
    ASSUME BusInv
    PROVE  /\ kind \in AllKinds
           /\ \A s \in Statuses[kind] : Reported(kind, s)
           /\ \A c \in Calls[kind] : c \in Offered(kind)
           /\ kind \in {"motion", "airquality"} => Calls[kind] = {}
<1>1. /\ kind \in AllKinds
      /\ \A s \in Statuses[kind] : Reported(kind, s)
      /\ \A c \in Calls[kind] : c \in Offered(kind)
  BY CodecAssumption DEF BusInv
<1>2. kind \in {"motion", "airquality"} => Offered(kind) = {}
  BY DEF Offered
<1>. QED
  BY <1>1, <1>2

\* What a status of the device is like.
LEMMA StatusIsReported ==
    ASSUME BusInv, NEW f, Heard(f), IsStatus(f)
    PROVE  /\ f.type = 11 /\ f.from = "device"
           /\ kind \in {"thermostat", "airconditioner", "ventilation", "elevator"} => f.cmd = 0
           /\ kind = "thermostat" =>
                f.payload[0] \div 16 \in {0, 1} /\ f.payload[1] \in {0, 1}
           /\ kind = "airconditioner" => f.payload[0] \in {0, 16}
<1>1. Reported(kind, ContentOf(f))
  BY KindAndCalls DEF Heard
<1>2. ContentOf(f).cmd = f.cmd /\ ContentOf(f).payload = f.payload
  BY DEF ContentOf
<1>3. f.type = 11 /\ f.from = "device"
  BY DEF IsStatus
<1>. QED
  BY <1>1, <1>2, <1>3 DEF Reported

\* A device that did what it was told, and says so, confirms the call.
LEMMA DoneConfirms ==
    ASSUME BusInv, call # None, NEW f, Heard(f), NEW h,
           \/ IsStatus(f) /\ Does(call, f)
           \/ kind = "elevator" /\ f.type = 13 /\ f.cmd = 1
    PROVE  /\ Handle(f, h, FALSE)["main"] # None
           /\ Confirms(call, Handle(f, h, FALSE)["main"])
<1>0. /\ f \in Frame /\ call \in Calls[kind] /\ call \in Offered(kind)
      /\ Packet(call) # None /\ "main" \in Subs
      /\ kind \in AllKinds /\ kind \notin {"motion", "airquality"}
  BY KindAndCalls DEF BusInv, Heard, Subs
<1>1. CASE kind = "thermostat"
  <2>1. IsStatus(f) /\ Does(call, f)
    BY <1>1
  <2>2. HandleThermostat(f, FALSE) = ThermostatStates(f)
    BY <1>1, <2>1, StatusIsReported DEF HandleThermostat
  <2>3. ThermostatStates(f)["main"] # None
    BY <1>0, <1>1, ThermostatType, CodecAssumption
  <2>4. Confirms(call, ThermostatStates(f)["main"])
    BY <1>0, <1>1, <2>1, StatusIsReported, ThermostatConfirms
  <2>. QED
    BY <1>1, <2>2, <2>3, <2>4, HandleOf
<1>2. CASE kind = "airconditioner"
  <2>1. IsStatus(f) /\ Does(call, f) /\ f.cmd = 0
    BY <1>2, StatusIsReported
  <2>2. HandleAirconditioner(f)["main"] # None
    BY <1>0, <1>2, <2>1, AirconditionerType, CodecAssumption
  <2>3. Confirms(call, HandleAirconditioner(f)["main"])
    BY <1>0, <1>2, <2>1, StatusIsReported, AirconditionerConfirms
  <2>. QED
    BY <1>2, <2>2, <2>3, HandleOf
<1>3. CASE kind = "ventilation"
  <2>1. IsStatus(f) /\ Does(call, f) /\ f.cmd = 0
    BY <1>3, StatusIsReported
  <2>2. HandleVentilation(f)["main"] # None
    BY <1>0, <1>3, <2>1, VentilationType, CodecAssumption
  <2>3. Confirms(call, HandleVentilation(f)["main"])
    BY <1>0, <1>3, <2>1, VentilationConfirms
  <2>. QED
    BY <1>3, <2>2, <2>3, HandleOf
<1>4. CASE kind = "gasvalve"
  <2>1. Does(call, f)
    BY <1>4
  <2>2. /\ HandleGasvalve(f)["main"] = FALSE
        /\ Confirms(call, HandleGasvalve(f)["main"])
    BY <1>0, <1>4, <2>1, GasvalveConfirms
  <2>3. FALSE # None
    BY CodecAssumption
  <2>. QED
    BY <1>4, <2>2, <2>3, HandleOf
<1>5. CASE kind = "elevator"
  <2>1. \/ IsStatus(f) /\ Does(call, f)
        \/ f.type = 13 /\ f.payload[0] = 0
    <3>1. f.type = 13 /\ f.cmd = 1 => f.payload[0] = 0
      BY <1>5 DEF Heard
    <3>. QED
      BY <3>1, Zenon
  <2>. DEFINE g == h \/ NamesFloor(f)
  <2>2. /\ HandleElevator(f, g)["main"] = TRUE
        /\ Confirms(call, HandleElevator(f, g)["main"])
    BY <1>0, <1>5, <2>1, ElevatorConfirms
  <2>3. TRUE # None
    BY CodecAssumption
  <2>. QED
    BY <1>5, <2>2, <2>3, HandleOf
<1>. QED
  BY <1>0, <1>1, <1>2, <1>3, <1>4, <1>5 DEF AllKinds

\* A room confirms a call by a status that shows it done, and by no other frame.
LEMMA ThermostatIsDone ==
    ASSUME BusInv, kind = "thermostat", call # None, NEW f, Heard(f), NEW h,
           Handle(f, h, FALSE)["main"] # None,
           Confirms(call, Handle(f, h, FALSE)["main"])
    PROVE  IsStatus(f) /\ Does(call, f)
<1>0. f \in Frame /\ call \in Offered(kind) /\ Packet(call) # None
  BY KindAndCalls DEF BusInv, Heard
<1>1. Handle(f, h, FALSE) = HandleThermostat(f, FALSE)
  BY HandleOf
<1>2. f.cmd = 0 /\ f.type = 11 /\ f.from = "device"
  <2>1. Silence["main"] = None
    BY DEF Silence, Subs
  <2>. QED
    BY <1>1, <2>1 DEF HandleThermostat
<1>3. HandleThermostat(f, FALSE) = ThermostatStates(f)
  BY <1>2 DEF HandleThermostat
<1>4. IsStatus(f)
  BY <1>2 DEF IsStatus
<1>5. Does(call, f)
  BY <1>0, <1>1, <1>3, <1>4, StatusIsReported, ThermostatConfirms
<1>. QED
  BY <1>4, <1>5

----------------------------------------------------------------------------
(* A frame is received, or not.                                            *)

LEMMA DirectionType ==
    ASSUME NEW f \in Frame, f.payload[0] \in 0 .. 3, NEW h
    PROVE  LET st == HandleElevator(f, h)
           IN  /\ st["main"] \in BOOLEAN /\ st["direction"] \in DirectionShows
               /\ st["main"] <=> st["direction"] \in {"called", "downward", "upward"}
<1>. DEFINE st == HandleElevator(f, h)
            d == IF f.payload[0] = 0 /\ f.type = 13 THEN "called" ELSE Direction[f.payload[0]]
<1>1. st["main"] = ElevatorOn(f) /\ st["direction"] = d
  BY DEF HandleElevator, Silence, Subs
<1>2. ElevatorOn(f) \in BOOLEAN
  BY Zenon DEF ElevatorOn
<1>3. /\ Direction[0] = "idle" /\ Direction[1] = "downward"
      /\ Direction[2] = "upward" /\ Direction[3] = "arrival"
  <2>1. 0 \in Byte /\ 1 \in Byte /\ 2 \in Byte /\ 3 \in Byte
    BY DEF Byte
  <2>. QED
    BY <2>1 DEF Direction
<1>4. f.payload[0] = 0 \/ f.payload[0] = 1 \/ f.payload[0] = 2 \/ f.payload[0] = 3
  OBVIOUS
<1>5. f.type = 11 \/ f.type = 13
  BY DEF Frame
<1>6. d \in DirectionShows /\ (ElevatorOn(f) <=> d \in {"called", "downward", "upward"})
  <2>1. CASE f.payload[0] = 0
    BY <1>3, <1>5, <2>1 DEF DirectionShows, ElevatorOn
  <2>2. CASE f.payload[0] = 1
    BY <1>3, <2>2 DEF DirectionShows, ElevatorOn
  <2>3. CASE f.payload[0] = 2
    BY <1>3, <2>3 DEF DirectionShows, ElevatorOn
  <2>4. CASE f.payload[0] = 3
    BY <1>3, <2>4 DEF DirectionShows, ElevatorOn
  <2>. QED
    BY <1>4, <2>1, <2>2, <2>3, <2>4
<1>. HIDE DEF d
<1>7. st["main"] \in BOOLEAN /\ st["direction"] \in DirectionShows
  BY <1>1, <1>2, <1>6
<1>8. st["main"] <=> st["direction"] \in {"called", "downward", "upward"}
  BY <1>1, <1>6
<1>. QED
  BY <1>7, <1>8

LEMMA ReceiveShown ==
    ASSUME BusInv, ShownInv, NEW f, Heard(f), Receive(f), kind' = kind
    PROVE  ShownInv'
<1>1. SUFFICES ASSUME NEW s \in Subs
               PROVE  shown'[s] = None \/ StateOK(s, shown'[s])
  BY <1>1 DEF ShownInv, StateOK, MainStates
<1>. DEFINE st == Handle(f, floors, FALSE)
<1>2. shown' = [e \in Subs |-> IF st[e] = None THEN shown[e] ELSE st[e]]
  BY DEF Receive
<1>3. shown'[s] = shown[s] \/ shown'[s] = st[s]
  BY <1>2
<1>4. st[s] = None \/ StateOK(s, st[s])
  BY StatesTyped, KindAndCalls DEF Heard
<1>5. shown[s] = None \/ StateOK(s, shown[s])
  BY DEF ShownInv
<1>. QED
  BY <1>3, <1>4, <1>5

LEMMA ReceiveKeeps ==
    ASSUME BusInv, RxInv, NEW f, Heard(f), Receive(f), UNCHANGED <<kind, call>>
    PROVE  RxInv'
<1>. DEFINE st == Handle(f, floors, FALSE)
            obeyed == \/ IsStatus(f) /\ Does(call, f)
                      \/ kind = "elevator" /\ f.type = 13 /\ f.cmd = 1
<1>1. /\ shown' = [e \in Subs |-> IF st[e] = None THEN shown[e] ELSE st[e]]
      /\ floors' = (floors \/ NamesFloor(f)) /\ live' = (live \/ st # Silence)
      /\ waiter' = IF waiter = "open" /\ st["main"] # None /\ Confirms(call, st["main"])
                   THEN "hit" ELSE waiter
      /\ reported' = IF IsStatus(f) THEN ContentOf(f) ELSE reported
      /\ heard' = (heard \/ f.from = "device")
      /\ done' = (done \/ (waiter = "open" /\ obeyed))
  BY DEF Receive, ContentOf
<1>. HIDE DEF st, obeyed
<1>2. RxType'
  <2>1. waiter' \in {"none", "open", "hit"} /\ (waiter' # "none" => call' # None)
    <3>1. waiter \in {"none", "open", "hit"} /\ (waiter # "none" => call # None)
      BY DEF RxInv, RxType
    <3>2. waiter' = waiter \/ (waiter = "open" /\ waiter' = "hit")
      BY <1>1
    <3>. QED
      BY <3>1, <3>2
  <2>2. reported' = None \/ reported' \in Statuses[kind']
    BY <1>1 DEF RxInv, RxType, Heard
  <2>3. floors' \in BOOLEAN /\ live' \in BOOLEAN /\ heard' \in BOOLEAN /\ done' \in BOOLEAN
    BY <1>1, Zenon
  <2>. QED
    BY <2>1, <2>2, <2>3 DEF RxType
<1>3. ShownInv'
  BY ReceiveShown DEF RxInv
<1>4. WaiterInv'
  <2>1. done' => waiter' = "hit"
    <3>1. CASE done
      BY <1>1, <3>1 DEF RxInv, WaiterInv
    <3>2. CASE waiter = "open" /\ obeyed
      <4>1. call # None
        BY <3>2 DEF RxInv, RxType
      <4>2. st["main"] # None /\ Confirms(call, st["main"])
        BY <3>2, <4>1, DoneConfirms DEF st, obeyed
      <4>. QED
        BY <1>1, <3>2, <4>2
    <3>. QED
      BY <1>1, <3>1, <3>2
  <2>2. ASSUME kind = "thermostat", waiter' = "hit"
        PROVE  done'
    <3>1. CASE waiter = "hit"
      BY <1>1, <2>2, <3>1 DEF RxInv, WaiterInv, ConfirmedIsDone
    <3>2. CASE waiter # "hit"
      <4>1. waiter = "open" /\ st["main"] # None /\ Confirms(call, st["main"])
        BY <1>1, <2>2, <3>2
      <4>2. call # None
        BY <4>1 DEF RxInv, RxType
      <4>3. obeyed
        BY <2>2, <4>1, <4>2, ThermostatIsDone DEF st, obeyed
      <4>. QED
        BY <1>1, <4>1, <4>3
    <3>. QED
      BY <3>1, <3>2
  <2>. QED
    BY <2>1, <2>2 DEF WaiterInv, ConfirmedIsDone
<1>5. ASSUME kind = "thermostat"
      PROVE  ShownIsReported'
  <2>1. \A g, h : Handle(g, h, FALSE) = HandleThermostat(g, FALSE)
    BY <1>5, HandleOf
  <2>2. SUFFICES ASSUME reported' # None, NEW s \in Subs,
                        HandleThermostat(AsFrame(11, "device", reported'), FALSE)[s] # None
                 PROVE  shown'[s] = HandleThermostat(AsFrame(11, "device", reported'), FALSE)[s]
    BY <1>5, <2>1, HandleOf DEF ShownIsReported, Handle
  <2>3. CASE IsStatus(f)
    <3>1. reported' = ContentOf(f) /\ f.type = 11 /\ f.from = "device"
      BY <1>1, <2>3, StatusIsReported
    <3>. DEFINE g == AsFrame(11, "device", ContentOf(f))
    <3>2. g.type = f.type /\ g.from = f.from /\ g.cmd = f.cmd /\ g.payload = f.payload
      BY <3>1 DEF AsFrame, ContentOf
    <3>. HIDE DEF g
    <3>3. HandleThermostat(g, FALSE) = HandleThermostat(f, FALSE)
      BY <3>2 DEF HandleThermostat, ThermostatStates
    <3>. QED
      BY <1>1, <2>1, <2>2, <3>1, <3>3 DEF g, st
  <2>4. CASE ~IsStatus(f)
    <3>1. st = Silence
      BY <1>5, <2>1, <2>4 DEF st, HandleThermostat, IsStatus
    <3>2. shown'[s] = shown[s] /\ reported' = reported
      BY <1>1, <2>4, <3>1 DEF Silence
    <3>3. HandleThermostat(AsFrame(11, "device", reported), FALSE)[s] # None =>
            shown[s] = HandleThermostat(AsFrame(11, "device", reported), FALSE)[s]
      BY <1>5, <2>1, <2>2, <3>2 DEF RxInv, ShownIsReported
    <3>. QED
      BY <2>2, <3>2, <3>3
  <2>. QED
    BY <2>3, <2>4
<1>6. DirectionAgrees'
  <2>1. SUFFICES ASSUME kind = "elevator", shown'["main"] # None
                 PROVE  shown'["main"] <=>
                          shown'["direction"] \in {"called", "downward", "upward"}
    BY DEF DirectionAgrees
  <2>2. st = HandleElevator(f, floors \/ NamesFloor(f))
    BY <2>1, HandleOf DEF st
  <2>3. /\ st["main"] \in BOOLEAN /\ st["direction"] \in DirectionShows
        /\ st["main"] <=> st["direction"] \in {"called", "downward", "upward"}
    BY <2>1, <2>2, DirectionType DEF Heard
  <2>4. st["main"] # None /\ st["direction"] # None
    BY <2>3, CodecAssumption
  <2>5. shown'["main"] = st["main"] /\ shown'["direction"] = st["direction"]
    BY <1>1, <2>4 DEF Subs
  <2>. QED
    BY <2>3, <2>5
<1>7. ShownIsReported'
  BY <1>1, <1>5 DEF ShownIsReported
<1>. QED
  BY <1>2, <1>3, <1>4, <1>6, <1>7 DEF RxInv

\* What the receiver knows stays true while it receives nothing.
LEMMA SilentKeeps ==
    ASSUME RxInv, UNCHANGED <<kind, call, shown, floors, waiter, reported, done>>,
           live' \in BOOLEAN, heard' \in BOOLEAN
    PROVE  RxInv'
<1>1. RxType'
  BY DEF RxInv, RxType
<1>2. ShownInv'
  BY DEF RxInv, ShownInv, StateOK, MainStates
<1>3. WaiterInv' /\ DirectionAgrees'
  BY DEF RxInv, WaiterInv, ConfirmedIsDone, DirectionAgrees
<1>4. ASSUME kind' = "thermostat"
      PROVE  ShownIsReported'
  <2>1. kind = "thermostat" /\ ShownIsReported
    BY <1>4 DEF RxInv
  <2>2. \A g : Handle(g, floors, FALSE) = HandleThermostat(g, FALSE)
    BY <2>1, HandleOf
  <2>3. Handle(AsFrame(11, "device", reported), floors, FALSE)' =
        Handle(AsFrame(11, "device", reported), floors, FALSE)
    BY <1>4, <2>1, <2>2 DEF Handle
  <2>. QED
    BY <2>1, <2>3 DEF ShownIsReported
<1>5. ShownIsReported'
  BY <1>4 DEF ShownIsReported
<1>. QED
  BY <1>1, <1>2, <1>3, <1>5 DEF RxInv

LEMMA OnBusKeeps ==
    ASSUME BusInv, RxInv, NEW f, Heard(f), OnBus(f), UNCHANGED <<kind, call>>
    PROVE  RxInv'
<1>1. CASE Receive(f)
  BY <1>1, ReceiveKeeps
<1>2. CASE UNCHANGED rxVars
  BY <1>2, SilentKeeps DEF rxVars, RxInv, RxType
<1>. QED
  BY <1>1, <1>2 DEF OnBus

----------------------------------------------------------------------------
(* The frames on the bus.                                                  *)

\* Every call that has a packet has one of the protocol's form.
LEMMA PacketType ==
    ASSUME BusInv, NEW c \in Calls[kind], Packet(c) # None
    PROVE  /\ Packet(c) \in Content
           /\ kind = "elevator" => Packet(c) = [cmd |-> 1, payload |-> Blank]
<1>0. c \in Offered(kind) /\ kind \in AllKinds /\ kind \notin {"motion", "airquality"}
  BY KindAndCalls
<1>. DEFINE f == [type |-> 13, from |-> "device", cmd |-> 0, payload |-> Blank]
<1>1. f \in Frame /\ f.payload[0] = 0 /\ f.payload[1] = 0 /\ f.type = 13
  BY BlankType DEF Frame, Byte
<1>2. f.payload[0] \div 16 \in {0, 1}
  <2>1. 0 \div 16 = 0
    OBVIOUS
  <2>. QED
    BY <1>1, <2>1
<1>. HIDE DEF f
<1>3. CASE kind = "thermostat"
  BY <1>0, <1>1, <1>2, <1>3, ThermostatConfirms
<1>4. CASE kind = "airconditioner"
  BY <1>0, <1>1, <1>4, AirconditionerConfirms
<1>5. CASE kind = "ventilation"
  BY <1>0, <1>1, <1>5, VentilationConfirms
<1>6. CASE kind = "gasvalve"
  BY <1>0, <1>1, <1>6, GasvalveConfirms
<1>7. CASE kind = "elevator"
  <2>1. Packet(c) \in Content
    BY <1>0, <1>1, <1>7, ElevatorConfirms
  <2>2. Packet(c) = [cmd |-> 1, payload |-> Blank]
    <3>1. c.action = "turn_on"
      BY <1>0, <1>7 DEF Offered
    <3>. QED
      BY <1>7, <3>1 DEF Packet
  <2>. QED
    BY <2>1, <2>2
<1>. QED
  BY <1>0, <1>3, <1>4, <1>5, <1>6, <1>7 DEF AllKinds

LEMMA PacketFrame ==
    ASSUME BusInv, NEW c \in Calls[kind], Packet(c) # None
    PROVE  /\ Heard(AsFrame(11, Caller, Packet(c)))
           /\ Heard(AsFrame(13, Callee, Packet(c)))
<1>. DEFINE p == Packet(c)
            f == AsFrame(11, Caller, p)
            g == AsFrame(13, Callee, p)
<1>1. p.cmd \in Byte /\ p.payload \in [0 .. 7 -> Byte]
  BY PacketType DEF Content
<1>2. /\ f = [type |-> 11, from |-> Caller, cmd |-> p.cmd, payload |-> p.payload]
      /\ g = [type |-> 13, from |-> Callee, cmd |-> p.cmd, payload |-> p.payload]
  BY DEF AsFrame
<1>3. /\ f.type = 11 /\ f.from = Caller /\ f.cmd = p.cmd /\ f.payload = p.payload
      /\ g.type = 13 /\ g.cmd = p.cmd /\ g.payload = p.payload
  BY <1>2
<1>4. Caller \in {"device", "wallpad"} /\ Callee \in {"device", "wallpad"}
  BY DEF Caller, Callee
<1>5. f \in Frame /\ g \in Frame
  BY <1>1, <1>2, <1>4 DEF Frame
<1>6. kind = "elevator" => p.cmd = 1 /\ p.payload[0] = 0
  BY PacketType, BlankType
<1>. HIDE DEF f, g, p
<1>7. ~IsStatus(f) /\ ~IsStatus(g)
  BY <1>3, <1>6 DEF IsStatus, Caller
<1>8. 0 \in 0 .. 3
  OBVIOUS
<1>9. Heard(f) /\ Heard(g)
  BY <1>3, <1>5, <1>6, <1>7, <1>8 DEF Heard
<1>. QED
  BY <1>9 DEF f, g, p

LEMMA StatusFrame ==
    ASSUME BusInv
    PROVE  Heard(AsFrame(11, "device", dev)) /\ Heard(AsFrame(13, "wallpad", dev))
<1>. DEFINE f == AsFrame(11, "device", dev)
            g == AsFrame(13, "wallpad", dev)
<1>1. Reported(kind, dev) /\ dev \in Statuses[kind] /\ dev \in Content
  BY KindAndCalls DEF BusInv, Reported
<1>2. /\ f = [type |-> 11, from |-> "device", cmd |-> dev.cmd, payload |-> dev.payload]
      /\ g = [type |-> 13, from |-> "wallpad", cmd |-> dev.cmd, payload |-> dev.payload]
  BY DEF AsFrame
<1>3. f \in Frame /\ g \in Frame
  BY <1>1, <1>2 DEF Frame, Content
<1>4. ContentOf(f) = dev
  BY <1>1, <1>2 DEF ContentOf, Content
<1>5. /\ f.type = 11 /\ f.cmd = dev.cmd /\ f.payload = dev.payload
      /\ g.type = 13 /\ g.cmd = dev.cmd /\ g.payload = dev.payload
  BY <1>2
<1>6. kind = "elevator" => dev.cmd = 0 /\ dev.payload[0] \in 0 .. 3
  BY <1>1 DEF Reported
<1>. HIDE DEF f, g
<1>7. ~IsStatus(g)
  BY <1>5 DEF IsStatus
<1>8. Heard(f) /\ Heard(g)
  BY <1>1, <1>3, <1>4, <1>5, <1>6, <1>7 DEF Heard
<1>. QED
  BY <1>8 DEF f, g

LEMMA NextCodecInv == CodecInv /\ [Next]_vars => CodecInv'
<1>. SUFFICES ASSUME CodecInv, [Next]_vars PROVE CodecInv'
  OBVIOUS
<1>. USE DEF CodecInv
<1>1. ASSUME UNCHANGED <<kind, dev, told, call>>, stage' \in {"quiet", "obeyed", "reported", stage}
      PROVE  BusInv'
  BY <1>1 DEF BusInv, Packet, ThermostatData, AirconditionerData, VentilationData
<1>2. ASSUME NEW c \in Calls[kind], WallpadCommands(c)
      PROVE  CodecInv'
  <2>1. /\ Packet(c) # None /\ stage' = "told" /\ told' = c /\ UNCHANGED <<kind, dev, call>>
        /\ OnBus(AsFrame(11, Caller, Packet(c)))
    BY <1>2 DEF WallpadCommands, Moves, callVars
  <2>2. RxInv'
    BY <2>1, PacketFrame, OnBusKeeps
  <2>3. BusInv'
    <3>1. Packet(told)' # None
      BY <2>1 DEF Packet, ThermostatData, AirconditionerData, VentilationData
    <3>2. call # None => Packet(call)' # None
      BY <2>1 DEF BusInv, Packet, ThermostatData, AirconditionerData, VentilationData
    <3>3. /\ kind' = kind /\ dev' = dev /\ stage' = "told" /\ told' = c /\ call' = call
      BY <2>1
    <3>4. kind \in Kinds /\ dev \in Statuses[kind] /\ call \in Calls[kind] \cup {None}
      BY DEF BusInv
    <3>5. c # None
      BY <3>4, CodecAssumption
    <3>. QED
      BY <3>1, <3>2, <3>3, <3>4, <3>5 DEF BusInv
  <2>. QED
    BY <2>2, <2>3
<1>3. ASSUME NEW c \in Calls[kind], Call(c)
      PROVE  CodecInv'
  <2>1. call' = (IF Packet(c) = None THEN None ELSE c) /\ call = None
        /\ UNCHANGED <<kind, dev, stage, told>> /\ UNCHANGED rxVars
    BY <1>3 DEF Call, busVars
  <2>2. BusInv'
    <3>1. CASE Packet(c) = None
      BY <2>1, <3>1 DEF BusInv, Packet, ThermostatData, AirconditionerData, VentilationData
    <3>2. CASE Packet(c) # None
      <4>1. call' = c /\ UNCHANGED <<kind, dev, stage, told>>
        BY <2>1, <3>2
      <4>2. Packet(call)' # None
        BY <3>2, <4>1 DEF Packet, ThermostatData, AirconditionerData, VentilationData
      <4>3. told # None => Packet(told)' # None
        BY <4>1 DEF BusInv, Packet, ThermostatData, AirconditionerData, VentilationData
      <4>. QED
        BY <4>1, <4>2, <4>3 DEF BusInv
    <3>. QED
      BY <3>1, <3>2
  <2>3. waiter = "none"
    BY <2>1 DEF RxInv, RxType
  <2>4. RxInv'
    BY <2>1, <2>3 DEF rxVars, RxInv, RxType, ShownInv, StateOK, MainStates, WaiterInv,
                      ConfirmedIsDone, ShownIsReported, Handle, NamesFloor, DirectionAgrees
  <2>. QED
    BY <2>2, <2>4
<1>4. ASSUME NEW s \in Statuses[kind], Obeyed(s)
      PROVE  CodecInv'
  <2>1. /\ stage = "told" /\ stage' = "obeyed" /\ dev' = s /\ UNCHANGED <<kind, told, call>>
        /\ OnBus(AsFrame(13, Callee, Packet(told)))
    BY <1>4 DEF Obeyed, Moves, callVars
  <2>2. told \in Calls[kind] /\ Packet(told) # None
    BY <2>1 DEF BusInv
  <2>3. RxInv'
    BY <2>1, <2>2, PacketFrame, OnBusKeeps
  <2>4. BusInv'
    BY <2>1 DEF BusInv, Packet, ThermostatData, AirconditionerData, VentilationData
  <2>. QED
    BY <2>3, <2>4
<1>5. ASSUME NEW s \in Statuses[kind], Handled(s)
      PROVE  CodecInv'
  <2>1. /\ stage' = "quiet" /\ dev' = s /\ UNCHANGED <<kind, told, call>> /\ UNCHANGED rxVars
    BY <1>5 DEF Handled, Moves, callVars
  <2>2. RxInv'
    BY <2>1, SilentKeeps DEF rxVars, RxInv, RxType
  <2>3. BusInv'
    BY <2>1 DEF BusInv, Packet, ThermostatData, AirconditionerData, VentilationData
  <2>. QED
    BY <2>2, <2>3
<1>6. CASE CommandLost
  <2>1. UNCHANGED <<kind, dev, told, call>> /\ stage' = "quiet" /\ UNCHANGED rxVars
    BY <1>6 DEF CommandLost, Moves, callVars
  <2>. QED
    BY <1>1, <2>1, SilentKeeps DEF rxVars, RxInv, RxType
<1>7. CASE ReportStatus
  <2>1. UNCHANGED <<kind, dev, told, call>> /\ stage' = "reported"
        /\ OnBus(AsFrame(11, "device", dev))
    BY <1>7 DEF ReportStatus, Moves, callVars
  <2>. QED
    BY <1>1, <2>1, StatusFrame, OnBusKeeps
<1>8. CASE WallpadAcks
  <2>1. UNCHANGED <<kind, dev, told, call>> /\ stage' = "quiet"
        /\ OnBus(AsFrame(13, "wallpad", dev))
    BY <1>8 DEF WallpadAcks, Moves, callVars
  <2>. QED
    BY <1>1, <2>1, StatusFrame, OnBusKeeps
<1>9. CASE Reconnect
  <2>1. /\ UNCHANGED <<kind, dev, told, call, stage, shown, floors, waiter, reported, done>>
        /\ live' \in BOOLEAN /\ heard' \in BOOLEAN
    BY <1>9, Zenon DEF Reconnect, busVars, callVars
  <2>. QED
    BY <1>1, <2>1, SilentKeeps
<1>10. CASE Transmit
  <2>1. /\ call # None /\ told' = call /\ stage' = "told" /\ waiter = "none"
        /\ waiter' = "open" /\ done' = FALSE
        /\ UNCHANGED <<kind, dev, call, shown, floors, live, reported, heard>>
    BY <1>10 DEF Transmit, Moves, callVars
  <2>2. BusInv'
    BY <2>1 DEF BusInv, Packet, ThermostatData, AirconditionerData, VentilationData
  <2>3. RxInv'
    BY <2>1 DEF RxInv, RxType, ShownInv, StateOK, MainStates, WaiterInv,
                ConfirmedIsDone, ShownIsReported, Handle, NamesFloor, DirectionAgrees
  <2>. QED
    BY <2>2, <2>3
<1>11. CASE TimedOut \/ Confirmed
  <2>1. /\ call' \in {call, None} /\ waiter' = "none" /\ done' = FALSE
        /\ UNCHANGED <<kind, dev, stage, told, shown, floors, live, reported, heard>>
    BY <1>11 DEF TimedOut, Confirmed, busVars
  <2>2. BusInv'
    BY <2>1 DEF BusInv, Packet, ThermostatData, AirconditionerData, VentilationData
  <2>3. RxInv'
    BY <2>1 DEF RxInv, RxType, ShownInv, StateOK, MainStates, WaiterInv,
                ConfirmedIsDone, ShownIsReported, Handle, NamesFloor, DirectionAgrees
  <2>. QED
    BY <2>2, <2>3
<1>12. CASE UNCHANGED vars
  <2>1. UNCHANGED <<kind, dev, told, call, stage>> /\ UNCHANGED rxVars
    BY <1>12 DEF vars, busVars, callVars
  <2>. QED
    BY <1>1, <2>1, SilentKeeps DEF rxVars, RxInv, RxType
<1>. QED
  BY <1>2, <1>3, <1>4, <1>5, <1>6, <1>7, <1>8, <1>9, <1>10, <1>11, <1>12 DEF Next

\* The registry that is restored holds what the handlers read from a report.
LEMMA InitCodecInv == Init => CodecInv
<1>. SUFFICES ASSUME Init PROVE CodecInv
  OBVIOUS
<1>1. BusInv
  BY DEF Init, BusInv
<1>2. RxType
  <2>1. floors \in BOOLEAN
    BY Zenon DEF Init, NamesFloor
  <2>. QED
    BY <2>1 DEF Init, RxType
<1>3. PICK s \in Statuses[kind], type \in {11, 13} :
        LET f == AsFrame(type, IF type = 11 THEN "device" ELSE "wallpad", s)
        IN  shown = Silence \/ shown = Handle(f, FALSE, TRUE)
  BY DEF Init
<1>. DEFINE f == AsFrame(type, IF type = 11 THEN "device" ELSE "wallpad", s)
<1>4. f \in Frame /\ f.payload = s.payload
  <2>1. s \in Content
    BY <1>1, KindAndCalls DEF Reported
  <2>. QED
    BY <2>1 DEF AsFrame, Frame, Content
<1>5. kind = "elevator" => f.payload[0] \in 0 .. 3
  BY <1>1, <1>4, KindAndCalls DEF Reported
<1>. HIDE DEF f
<1>6. shown = Silence \/ shown = Handle(f, FALSE, TRUE)
  BY <1>3 DEF f
<1>7. ShownInv
  <2>1. ASSUME NEW e \in Subs
        PROVE  shown[e] = None \/ StateOK(e, shown[e])
    <3>1. CASE shown = Silence
      BY <3>1 DEF Silence
    <3>2. CASE shown = Handle(f, FALSE, TRUE)
      BY <1>1, <1>4, <3>2, KindAndCalls, StatesTyped
    <3>. QED
      BY <1>6, <3>1, <3>2
  <2>. QED
    BY <2>1 DEF ShownInv
<1>8. DirectionAgrees
  <2>1. SUFFICES ASSUME kind = "elevator", shown["main"] # None
                 PROVE  shown["main"] <=> shown["direction"] \in {"called", "downward", "upward"}
    BY DEF DirectionAgrees
  <2>2. shown = Handle(f, FALSE, TRUE)
    BY <1>6, <2>1 DEF Silence, Subs
  <2>. DEFINE h == FALSE \/ NamesFloor(f)
  <2>3. shown = HandleElevator(f, h)
    BY <2>1, <2>2, HandleOf
  <2>. HIDE DEF h
  <2>. QED
    BY <1>4, <1>5, <2>1, <2>3, DirectionType
<1>9. WaiterInv /\ ShownIsReported
  BY DEF Init, WaiterInv, ConfirmedIsDone, ShownIsReported
<1>. QED
  BY <1>1, <1>2, <1>7, <1>8, <1>9 DEF CodecInv, RxInv

\* The inductive invariant of the dialogue.
THEOREM CodecInvariant == Spec => []CodecInv
BY InitCodecInv, NextCodecInv, PTL DEF Spec

\* Every entity shows a state of its type, a sensor never zero, and a waiter
\* belongs to a call (the handlers of controller.py).
THEOREM CodecTypeCorrect == Spec => []TypeOK
<1>1. ASSUME CodecInv
      PROVE  TypeOK
  <2>1. ShownInv /\ RxType /\ BusInv
    BY <1>1 DEF CodecInv, RxInv
  <2>2. "main" \in Subs /\ "problem" \in Subs /\ Sensors \subseteq Subs
    BY DEF Subs, Sensors
  <2>3. shown["main"] = None \/ shown["main"] \in MainStates
    BY <2>1, <2>2 DEF ShownInv, StateOK
  <2>4. shown["problem"] = None \/ shown["problem"] \in BOOLEAN
    BY <2>1, <2>2 DEF ShownInv, StateOK
  <2>5. \A s \in Sensors : shown[s] = None \/ shown[s] \in Reading
    BY <2>1, <2>2 DEF ShownInv, StateOK
  <2>. QED
    BY <2>1, <2>3, <2>4, <2>5 DEF TypeOK, BusInv, RxType
<1>. QED
  BY <1>1, CodecInvariant, PTL

\* A device of any kind that did what it was told, and reports it, confirms
\* the call (generate_command, the handlers, build_expectation).
THEOREM DoneIsConfirmed == Spec => []ObeyedIsConfirmed
<1>1. CodecInv => ObeyedIsConfirmed
  BY DEF CodecInv, RxInv, WaiterInv, ObeyedIsConfirmed
<1>. QED
  BY <1>1, CodecInvariant, PTL

\* A thermostat call is confirmed only by a status in which the room shows
\* what was asked (_handle_thermostat).
THEOREM OnlyDoneIsConfirmed == Spec => []ConfirmedIsDone
<1>1. CodecInv => ConfirmedIsDone
  BY DEF CodecInv, RxInv, WaiterInv
<1>. QED
  BY <1>1, CodecInvariant, PTL

\* A thermostat and its sensors show what its last report said, whatever was
\* commanded or acknowledged on the bus (_handle_thermostat, upsert).
THEOREM OnlyReportsAreShown == Spec => []ShownIsReported
<1>1. CodecInv => ShownIsReported
  BY DEF CodecInv, RxInv
<1>. QED
  BY <1>1, CodecInvariant, PTL

\* The elevator's switch and its direction sensor agree in every state, also
\* in one that was restored (_handle_elevator).
THEOREM SwitchAndDirectionAgree == Spec => []DirectionAgrees
<1>1. CodecInv => DirectionAgrees
  BY DEF CodecInv, RxInv
<1>. QED
  BY <1>1, CodecInvariant, PTL
=============================================================================
