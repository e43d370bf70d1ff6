------------------------------ MODULE Entities ------------------------------
(***************************************************************************)
(* The entities Home Assistant shows, from the first report of a device    *)
(* through restarts: the registry of the gateway and its two signals, the  *)
(* set-up of the platforms, what an entity writes and when, the packets it *)
(* leaves to be restored, and their replay before the gateway starts.      *)
(*                                                                         *)
(* A frame shows several entities at once: the lights of a room, or the    *)
(* fan and its sensors.  States are BOOLEAN; that of the fan is whether it *)
(* runs a preset other than "ventilation".  External: Home Assistant keeps *)
(* the names of the entities and what they leave, adds an entity in the    *)
(* turn it is handed over, and adds none to a platform it has unloaded.    *)
(***************************************************************************)
EXTENDS Naturals

CONSTANTS
    Lights,     \* of one room; registered when first seen on
    Fan,        \* the ventilation, or None
    Support,    \* its sensors
    Rooms,      \* thermostats
    MaxFrames,  \* bound on the frames received
    MaxStarts,  \* bound on the set-ups of the config entry
    None

Vent == IF Fan = None THEN {} ELSE {Fan} \cup Support
Keys == Lights \cup Vent \cup Rooms
Groups == ({Lights, Vent} \cup {{r} : r \in Rooms}) \ {{}}
Frames == UNION {[group -> BOOLEAN] : group \in Groups}
Entry == [state : BOOLEAN, presets : BOOLEAN, packet : Frames]

ASSUME EntitiesAssumption ==
    /\ MaxFrames \in Nat /\ MaxStarts \in Nat
    /\ None \notin Keys /\ None \notin BOOLEAN /\ None \notin Entry
    /\ None \notin [packet : Frames, storage : BOOLEAN]
    /\ None \notin [dev : Entry, feature : BOOLEAN, available : BOOLEAN, state : BOOLEAN \cup {None}]
    \* A frame of the fan always has an error sensor beside the fan.
    /\ Fan # None => Support # {}
    /\ Fan \notin Support \cup Lights \cup Rooms
    /\ Lights \cap (Support \cup Rooms) = {} /\ Support \cap Rooms = {}

PlatformOf(k) ==
    IF k \in Lights THEN "light" ELSE IF k \in Rooms THEN "climate"
    ELSE IF k = Fan THEN "fan" ELSE "sensor"
Platforms == {"light", "climate", "fan", "sensor"}

VARIABLES
    phase,      \* of the config entry
    todo,       \* the entities whose packets are still to be replayed
    up,         \* _connected
    available,  \* _connection_available
    live,       \* _live_device_keys
    registry,   \* the registered state of every key, or None
    storage,    \* _device_storage["ventil_feature"]
    boot,       \* _bootstrap_registry_keys
    asked,      \* the thermostats the bootstrap task of the session asks
    ready,      \* the platforms that are set up
    entity,     \* the entity of every key, or None: its _device, and what it wrote
    named,      \* the entity registry of Home Assistant
    stored,     \* what every entity left to be restored, or None
    frames, starts,
    \* History, read by the properties only:
    last,       \* the state last reported over the connection, or None
    knew        \* the replayed entities all knew of the fan's presets

sessionVars == <<up, available, live, asked>>
gatewayVars == <<registry, storage, boot>>
haVars == <<ready, entity, named>>
vars == <<phase, todo, sessionVars, gatewayVars, haVars, stored, frames, starts, last, knew>>

Nothing == [k \in Keys |-> None]

----------------------------------------------------------------------------
(* What the entity of k writes: available and the state properties, with   *)
(* the connection c and the live keys lv.  A thermostat is available with  *)
(* the connection and shows no state before it has reported.               *)
Written(k, dev, feature, c, lv) ==
    [dev |-> dev, feature |-> feature,
     available |-> c /\ (k \in Rooms \/ k \in lv),
     state |-> IF k \in Rooms /\ k \notin lv THEN None ELSE dev.state]

\* A new entity: KocomFan fixes its features here.
Created(k, dev, c, lv) == Written(k, dev, dev.presets, c, lv)

\* mutant: a light seen off is not registered even if its packet is replayed
Registers_Unforced(k, f, forced) == registry[k] # None \/ k \notin Lights \/ f[k]

\* allow_insert
Registers(k, f, forced) == registry[k] # None \/ k \notin Lights \/ f[k] \/ k = forced

\* The DeviceState of k in the frame f.
Read(k, f) == [state |-> f[k], presets |-> k = Fan /\ storage, packet |-> f]

IsNew(k, f, forced) == registry[k] = None /\ Registers(k, f, forced)
Changed(k, f) ==
    registry[k] # None /\ \/ registry[k].state # f[k]
                          \/ registry[k].presets # Read(k, f).presets

\* EntityRegistry.upsert for every state of the frame.
Upserted(f, forced) ==
    [k \in Keys |-> IF k \in DOMAIN f /\ (IsNew(k, f, forced) \/ Changed(k, f))
                    THEN Read(k, f) ELSE registry[k]]

\* _handle_ventilation notes a preset after it has built the attributes.
Noted(f) == storage \/ (Fan \in DOMAIN f /\ f[Fan])

\* mutant: a state that is reported again is not dispatched
Dispatched_ChangesOnly(k, f) == Changed(k, f)

\* The update signal of on_device_state, for a live report.
Dispatched(k, f) == Changed(k, f) \/ k \notin live \/ k \in Rooms

(* on_device_state for every state of a live frame.                        *)
Report(f) ==
    /\ phase \in {"started", "unloading"} /\ up /\ available /\ frames < MaxFrames
    /\ frames' = frames + 1
    /\ live' = live \cup DOMAIN f
    /\ registry' = Upserted(f, None)
    /\ storage' = Noted(f)
    /\ entity' = [k \in Keys |->
         IF k \notin DOMAIN f \/ PlatformOf(k) \notin ready THEN entity[k]
         ELSE IF IsNew(k, f, None) THEN Created(k, Read(k, f), TRUE, live')
         ELSE IF entity[k] # None /\ Dispatched(k, f)
              THEN Written(k, Read(k, f), entity[k].feature, TRUE, live')
         ELSE entity[k]]
    /\ named' = named \cup {k \in Keys : entity'[k] # None}
    /\ last' = [k \in Keys |-> IF k \in DOMAIN f THEN f[k] ELSE last[k]]
    /\ UNCHANGED <<phase, todo, up, available, asked, boot, ready, stored, starts, knew>>

----------------------------------------------------------------------------
(* The connection.                                                         *)

Lose ==
    /\ phase \in {"started", "unloading"} /\ up
    /\ up' = FALSE
    /\ UNCHANGED <<phase, todo, available, live, asked, gatewayVars, haVars, stored,
                   frames, starts, last, knew>>

\* mutant: the keys of the lost session stay live
SyncDown_KeepsLive(reg) ==
    /\ available' = FALSE /\ live' = live
    /\ entity' = [k \in Keys |-> IF entity[k] = None THEN None
                                 ELSE Written(k, reg[k], entity[k].feature, FALSE, live)]

\* _sync_connection_availability: every registered entity writes again.
SyncDown(reg) ==
    /\ available' = FALSE /\ live' = {}
    /\ entity' = [k \in Keys |-> IF entity[k] = None THEN None
                                 ELSE Written(k, reg[k], entity[k].feature, FALSE, {})]

(* The reader notices the loss, perhaps after a last frame it had received *)
(* and that is then not live.                                              *)
Notice ==
    /\ phase \in {"started", "unloading"} /\ available /\ ~up
    /\ SyncDown(registry)
    /\ UNCHANGED <<phase, todo, up, asked, gatewayVars, ready, named, stored, frames,
                   starts, last, knew>>

NoticeAfter(f) ==
    /\ phase \in {"started", "unloading"} /\ available /\ ~up /\ frames < MaxFrames
    /\ frames' = frames + 1
    /\ registry' = Upserted(f, None)
    /\ storage' = Noted(f)
    /\ available' = FALSE /\ live' = {}
    /\ entity' = [k \in Keys |->
         IF registry'[k] = None \/ PlatformOf(k) \notin ready THEN entity[k]
         ELSE IF entity[k] = None THEN Created(k, registry'[k], FALSE, {})
         ELSE Written(k, registry'[k], entity[k].feature, FALSE, {})]
    /\ named' = named \cup {k \in Keys : entity'[k] # None}
    /\ UNCHANGED <<phase, todo, up, asked, boot, ready, stored, starts, last, knew>>

\* mutant: only rooms with a restored state are asked
Known_Registered == {r \in Rooms : registry[r] # None}

\* The thermostats _schedule_bootstrap_queries asks.
Known == boot \cup {r \in Rooms : registry[r] # None}

Connect ==
    /\ up' = TRUE /\ available' = TRUE
    /\ asked' = Known
    /\ last' = Nothing
    /\ entity' = [k \in Keys |-> IF entity[k] = None THEN None
                                 ELSE Written(k, registry[k], entity[k].feature, TRUE, live)]

Open ==
    /\ phase \in {"started", "unloading"} /\ ~up /\ ~available
    /\ Connect
    /\ UNCHANGED <<phase, todo, live, gatewayVars, ready, named, stored, frames, starts, knew>>

----------------------------------------------------------------------------
(* Start-up.                                                               *)

(* async_setup_entry: async_get_entity_registry begins its loop.           *)
Begin ==
    /\ phase = "off" /\ starts < MaxStarts
    /\ starts' = starts + 1
    /\ phase' = "restoring"
    /\ todo' = named
    /\ knew' = /\ Fan # None /\ \A k \in Vent : stored[k] # None
             /\ \A k \in Keys : stored[k] # None => stored[k].storage
    /\ UNCHANGED <<sessionVars, gatewayVars, haVars, stored, frames, last>>

\* mutant: the storage of the entity is not taken over
RestoredStorage_Kept(k) == storage

\* The storage replaces the controller's, after the packet is dispatched.
RestoredStorage(k) == stored[k].storage

\* One turn of the loop, in the order of the entity registry.  Nobody
\* listens to the signals yet, and nothing becomes live.
RestoreNext(k) ==
    /\ phase = "restoring" /\ k \in todo
    /\ todo' = todo \ {k}
    /\ boot' = IF k \in Rooms THEN boot \cup {k} ELSE boot
    /\ IF stored[k] = None THEN UNCHANGED <<registry, storage>>
       ELSE registry' = Upserted(stored[k].packet, k) /\ storage' = RestoredStorage(k)
    /\ UNCHANGED <<phase, sessionVars, haVars, stored, frames, starts, last, knew>>

(* async_start: the connection is opened, or not yet.                      *)
Start ==
    /\ phase = "restoring" /\ todo = {}
    /\ phase' = "started"
    /\ Connect \/ UNCHANGED <<up, available, asked, last, entity>>
    /\ UNCHANGED <<todo, live, gatewayVars, ready, named, stored, frames, starts, knew>>

(* async_setup_entry of a platform: it listens for new devices and adds    *)
(* an entity for every registered one, without an await between.           *)
SetUp(p) ==
    /\ phase = "started" /\ p \in Platforms \ ready
    /\ ready' = ready \cup {p}
    /\ entity' = [k \in Keys |-> IF PlatformOf(k) = p /\ registry[k] # None
                                 THEN Created(k, registry[k], up, live) ELSE entity[k]]
    /\ named' = named \cup {k \in Keys : entity'[k] # None}
    /\ UNCHANGED <<phase, todo, sessionVars, gatewayVars, stored, frames, starts, last, knew>>

----------------------------------------------------------------------------
(* What an entity leaves, and the ends of the gateway.                     *)

\* extra_restore_state_data, with the storage as it is at that moment.
Left(k) == [packet |-> entity[k].dev.packet, storage |-> storage]

\* External: Home Assistant writes the states down, now and then and last.
Dump ==
    /\ phase \in {"started", "stopped"}
    /\ stored' = [k \in Keys |-> IF entity[k] # None THEN Left(k) ELSE stored[k]]
    /\ UNCHANGED <<phase, todo, sessionVars, gatewayVars, haVars, frames, starts, last, knew>>

\* Home Assistant stops: async_stop, with the entities still there.
Stop ==
    /\ phase = "started"
    /\ phase' = "stopped" /\ up' = FALSE
    /\ UNCHANGED <<todo, available, live, asked, gatewayVars, haVars, stored, frames,
                   starts, last, knew>>

LeftBy(p) == [k \in Keys |-> IF PlatformOf(k) = p /\ entity[k] # None THEN Left(k) ELSE stored[k]]

\* mutant: the entities stay behind
Removed_None(p) == entity

Removed(p) == [k \in Keys |-> IF PlatformOf(k) = p THEN None ELSE entity[k]]

(* async_unload_entry: the platforms go first, then the gateway.           *)
Unload(p) ==
    /\ p \in ready
    /\ phase = "unloading" \/ (phase = "started" /\ ready = Platforms)
    /\ phase' = "unloading" /\ ready' = ready \ {p}
    /\ stored' = LeftBy(p) /\ entity' = Removed(p)
    /\ UNCHANGED <<todo, sessionVars, gatewayVars, named, frames, starts, last, knew>>

GatewayIsGone ==
    /\ phase' = "off" /\ todo' = {}
    /\ up' = FALSE /\ available' = FALSE /\ live' = {} /\ asked' = {}
    /\ registry' = Nothing /\ storage' = FALSE /\ boot' = {}
    /\ ready' = {} /\ entity' = Nothing
    /\ last' = Nothing /\ knew' = FALSE
    /\ UNCHANGED <<named, stored, frames, starts>>

Unloaded == phase = "unloading" /\ ready = {} /\ GatewayIsGone

\* Home Assistant ends, or dies at any moment.
Crash == phase # "off" /\ GatewayIsGone

----------------------------------------------------------------------------
Init ==
    /\ phase = "off" /\ todo = {}
    /\ up = FALSE /\ available = FALSE /\ live = {} /\ asked = {}
    /\ registry = Nothing /\ storage = FALSE /\ boot = {}
    /\ ready = {} /\ entity = Nothing /\ named = {}
    /\ stored = Nothing
    /\ frames = 0 /\ starts = 0
    /\ last = Nothing /\ knew = FALSE

Next ==
    \/ \E f \in Frames : Report(f) \/ NoticeAfter(f)
    \/ Lose \/ Notice \/ Open \/ Begin
    \/ \E k \in Keys : RestoreNext(k)
    \/ Start
    \/ \E p \in Platforms : SetUp(p) \/ Unload(p)
    \/ Dump \/ Stop \/ Unloaded \/ Crash

Spec == Init /\ [][Next]_vars

----------------------------------------------------------------------------
Entity == [dev : Entry, feature : BOOLEAN, available : BOOLEAN, state : BOOLEAN \cup {None}]

RegistryOK(k) ==
    registry[k] # None => registry[k] \in Entry /\ k \in DOMAIN registry[k].packet
EntityOK(k) ==
    entity[k] # None =>
        /\ entity[k] \in Entity /\ k \in DOMAIN entity[k].dev.packet
        /\ k \in named /\ PlatformOf(k) \in ready /\ registry[k] # None
StoredOK(k) ==
    stored[k] # None =>
        /\ stored[k] \in [packet : Frames, storage : BOOLEAN]
        /\ k \in named /\ k \in DOMAIN stored[k].packet

(* The types; an entity is named by Home Assistant, of a platform that is  *)
(* set up, and of a device the gateway has registered.                     *)
TypeOK ==
    /\ phase \in {"off", "restoring", "started", "unloading", "stopped"}
    /\ todo \subseteq named /\ named \subseteq Keys /\ ready \subseteq Platforms
    /\ up \in BOOLEAN /\ available \in BOOLEAN /\ live \subseteq Keys
    /\ boot \subseteq Rooms /\ asked \subseteq Rooms
    /\ storage \in BOOLEAN /\ knew \in BOOLEAN
    /\ DOMAIN registry = Keys /\ DOMAIN entity = Keys /\ DOMAIN stored = Keys
    /\ last \in [Keys -> BOOLEAN \cup {None}]
    /\ \A k \in Keys : RegistryOK(k) /\ EntityOK(k) /\ StoredOK(k)

Settled == phase = "started" /\ available = up

(* Once a loss is noticed, every entity shows what the gateway has         *)
(* registered and whether it may be used, and every registered device of a *)
(* platform has an entity: no signal is missing, whenever a device is      *)
(* first seen, set up, restored, lost or heard again.                      *)
ShownAgrees ==
    Settled => \A k \in Keys :
        PlatformOf(k) \in ready /\ registry[k] # None =>
            /\ entity[k] # None
            /\ entity[k].available = (up /\ (k \in Rooms \/ k \in live))
            /\ entity[k].state = IF k \in Rooms /\ k \notin live THEN None
                                 ELSE registry[k].state

(* What an entity shows as the present state of its device was reported    *)
(* over the connection that is open: never a restored state, nor one of an *)
(* earlier connection.                                                     *)
AvailableIsReported ==
    Settled => \A k \in Keys :
        entity[k] # None /\ entity[k].available /\ entity[k].state # None =>
            entity[k].state = last[k]

(* An entity that left a packet comes back with its platform, even a light *)
(* that was off (_force_register_uid).                                     *)
KnownComeBack ==
    phase = "started" => \A k \in Keys :
        stored[k] # None /\ PlatformOf(k) \in ready => entity[k] # None

(* Every thermostat Home Assistant has a name for is asked for its state,  *)
(* or has reported it, even if it left no packet.                          *)
NamedAreAsked ==
    Settled /\ up => \A r \in named \cap Rooms : r \in asked \cup live

(* The fan offers its presets again after a restart if its entities knew   *)
(* them, in whatever order they are replayed.                              *)
PresetsComeBack ==
    phase = "started" /\ knew /\ entity[Fan] # None => entity[Fan].feature
=============================================================================
