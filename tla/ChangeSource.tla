---------------------------- MODULE ChangeSource ----------------------------
(***************************************************************************)
(* Who changed a thermostat's settings: the change record that             *)
(* KocomController keeps of the current connection (note_transmitted,      *)
(* _note_request, _change_label, clear_change_record), the way a labelled  *)
(* state reaches the climate entity (on_device_state, EntityRegistry,      *)
(* _sync_connection_availability), and the event the entity fires for it.  *)
(*                                                                         *)
(* Time is what has passed since a frame, counted in ticks up to Window    *)
(* (CHANGE_SOURCE_WINDOW_SEC) and one more, which stands for longer.       *)
(***************************************************************************)
EXTENDS Integers, Sequences

CONSTANTS
    Rooms,      \* primary thermostats
    Settings,   \* mode, preset and target temperature
    Temps,      \* current temperatures: part of the state, not of the settings
    Contexts,   \* the contexts of service calls
    Window,     \* CHANGE_SOURCE_WINDOW_SEC
    MaxLabels,  \* bound on the number of labelled changes
    MaxFrames,  \* bound on the frames of one connection
    None

Old == Window + 1
Age == 0 .. Old
Numbers == 0 .. MaxLabels     \* of labels; 0 is no label

\* The record attached to a state, and a DeviceState of a thermostat.
NoLabel == [number |-> 0, source |-> None, context |-> None, old |-> None, new |-> None]
Label == [number : 1 .. MaxLabels,
          source : {"integration", "wallpad", "device", "unknown"},
          context : Contexts \cup {None}, old : Settings, new : Settings]
State == [set : Settings, temp : Temps, label : Label \cup {NoLabel}]

ASSUME ChangeAssumption ==
    /\ Window \in Nat /\ MaxLabels \in Nat /\ MaxFrames \in Nat
    /\ None \notin Settings /\ None \notin Contexts /\ None \notin State

VARIABLES
    conn,       \* "open", "lost" (closed, reader has not noticed), "down"
    settings,   \* _thermo_settings
    commands,   \* _thermo_commands: age, whether we sent it, its context
    queries,    \* _thermo_queries: ages
    sequence,   \* _change_sequence of the controller: the number of the last label
    registry,   \* the DeviceState of every room, with the label attached to it
    ready,      \* the climate platform has been set up
    entities,   \* the rooms that have a climate entity
    recorded,   \* _change_sequence of each entity
    \* History, read by the properties only:
    log,        \* the frames that passed over this socket
    reported,   \* the settings each room reported over this socket
    fired,      \* how many events were fired for each label
    unheard     \* the labels made when the room had no entity

recordVars == <<settings, commands, queries>>
entityVars == <<registry, ready, entities, recorded, fired>>
vars == <<conn, recordVars, sequence, entityVars, log, reported, unheard>>

----------------------------------------------------------------------------
NoCommand == [age |-> Old, ours |-> FALSE, context |-> None]

(* clear_change_record.                                                    *)
\* mutant: the commands of the last connection are remembered
Clear_KeepsCommands ==
    /\ settings' = [r \in Rooms |-> None]
    /\ queries' = [r \in Rooms |-> Old]
    /\ UNCHANGED commands

\* mutant: the settings of the last connection are remembered
Clear_KeepsSettings ==
    /\ commands' = [r \in Rooms |-> NoCommand]
    /\ queries' = [r \in Rooms |-> Old]
    /\ UNCHANGED settings

Clear ==
    /\ settings' = [r \in Rooms |-> None]
    /\ commands' = [r \in Rooms |-> NoCommand]
    /\ queries' = [r \in Rooms |-> Old]

(* update_from_state: an entity that is given a state with a label records *)
(* the change once.                                                        *)
\* mutant: the label is not compared with the one recorded
IsNews_Always(r, label) == r \in entities /\ label.number # 0

IsNews(r, label) == r \in entities /\ label.number > recorded[r]

\* The states D of the rooms S are dispatched to their entities.
Dispatch(S, D) ==
    LET news == {r \in S : D[r] # None /\ IsNews(r, D[r].label)}
    IN  /\ recorded' = [r \in Rooms |-> IF r \in news THEN D[r].label.number ELSE recorded[r]]
        /\ fired' = [n \in 1 .. MaxLabels |->
             IF \E r \in news : D[r].label.number = n THEN fired[n] + 1 ELSE fired[n]]

----------------------------------------------------------------------------
(* Frames.  The sender notes what it is about to transmit; the reader, the *)
(* commands and queries of the wallpad that pass on the bus.               *)

Logged(r, kind, ctx) ==
    /\ Len(log) < MaxFrames
    /\ log' = Append(log, [room |-> r, kind |-> kind, context |-> ctx, age |-> 0])

CommandSent(r, ctx) ==
    /\ conn = "open"
    /\ commands' = [commands EXCEPT ![r] = [age |-> 0, ours |-> TRUE, context |-> ctx]]
    /\ Logged(r, "integration", ctx)
    /\ UNCHANGED <<conn, settings, queries, sequence, entityVars, reported, unheard>>

CommandHeard(r) ==
    /\ conn # "down"
    /\ commands' = [commands EXCEPT ![r] = [age |-> 0, ours |-> FALSE, context |-> None]]
    /\ Logged(r, "wallpad", None)
    /\ UNCHANGED <<conn, settings, queries, sequence, entityVars, reported, unheard>>

\* A status query, ours or the wallpad's.
Query(r) ==
    /\ conn # "down"
    /\ queries' = [queries EXCEPT ![r] = 0]
    /\ Logged(r, "query", None)
    /\ UNCHANGED <<conn, settings, commands, sequence, entityVars, reported, unheard>>

----------------------------------------------------------------------------
(* _change_label: what the frames of the window say of a change in r.      *)
\* mutant: a status query hides the command that preceded it
Source_QueryFirst(r) ==
    IF queries[r] <= Window THEN "unknown"
    ELSE IF commands[r].age <= Window
         THEN IF commands[r].ours THEN "integration" ELSE "wallpad"
         ELSE "device"

Source(r) ==
    IF commands[r].age <= Window
    THEN IF commands[r].ours THEN "integration" ELSE "wallpad"
    ELSE IF queries[r] <= Window THEN "unknown" ELSE "device"

\* mutant: the first report of a connection is a change
Changes_First(r, s) == settings[r] # s

\* The settings differ from the last report over this connection.
Changes(r, s) == settings[r] \notin {None, s}

ChangeLabel(r, s) ==
    [number |-> sequence + 1, source |-> Source(r), old |-> settings[r], new |-> s,
     context |-> IF Source(r) = "integration" THEN commands[r].context ELSE None]

(* A status report of r arrives: _handle_thermostat labels the change and  *)
(* on_device_state registers and dispatches the state.  A room reported    *)
(* for the first time gets an entity, if the platform is there to add it.  *)
\* mutant: a state is dispatched only while the connection is open
Publish_LiveOnly(r, dev, changed) ==
    IF conn = "open" THEN Dispatch({r}, [registry EXCEPT ![r] = dev])
                     ELSE UNCHANGED <<recorded, fired>>

Publish(r, dev, changed) ==
    IF changed \/ conn = "open"
    THEN Dispatch({r}, [registry EXCEPT ![r] = dev])
    ELSE UNCHANGED <<recorded, fired>>

Report(r, s, t) ==
    LET changes == Changes(r, s)
        dev == [set |-> s, temp |-> t,
                label |-> IF changes THEN ChangeLabel(r, s) ELSE NoLabel]
        new == registry[r] = None
        changed == new \/ registry[r].set # s \/ registry[r].temp # t
    IN  /\ conn # "down"
        /\ changes => sequence < MaxLabels
        /\ settings' = [settings EXCEPT ![r] = s]
        /\ sequence' = IF changes THEN sequence + 1 ELSE sequence
        /\ registry' = IF changed THEN [registry EXCEPT ![r] = dev] ELSE registry
        /\ IF new
           THEN /\ entities' = IF ready THEN entities \cup {r} ELSE entities
                /\ UNCHANGED <<recorded, fired>>
           ELSE Publish(r, dev, changed) /\ UNCHANGED entities
        /\ reported' = [reported EXCEPT ![r] = s]
        /\ unheard' = IF changes /\ r \notin entities
                      THEN unheard \cup {sequence + 1} ELSE unheard
        /\ UNCHANGED <<conn, commands, queries, ready, log>>

----------------------------------------------------------------------------
(* The connection.                                                         *)

\* The sender or the reader closes the connection.
Lose ==
    /\ conn = "open"
    /\ conn' = "lost"
    /\ UNCHANGED <<recordVars, sequence, entityVars, log, reported, unheard>>

\* _sync_connection_availability: forget, and refresh every entity.
SyncDown ==
    /\ conn = "lost"
    /\ conn' = "down"
    /\ Clear
    /\ Dispatch(Rooms, registry)
    /\ UNCHANGED <<sequence, registry, ready, entities, log, reported, unheard>>

\* open succeeds; the reader synchronises before it awaits anything.
Open ==
    /\ conn = "down"
    /\ conn' = "open"
    /\ Clear
    /\ Dispatch(Rooms, registry)
    /\ log' = <<>> /\ reported' = [r \in Rooms |-> None]
    /\ UNCHANGED <<sequence, registry, ready, entities, unheard>>

\* async_setup_entry of climate.py, some time after async_start: the rooms
\* registered so far get their entities.
SetUp ==
    /\ ~ready
    /\ ready' = TRUE
    /\ entities' = {r \in Rooms : registry[r] # None}
    /\ UNCHANGED <<conn, recordVars, sequence, registry, recorded, fired, log,
                   reported, unheard>>

Tick ==
    LET older(a) == IF a = Old THEN Old ELSE a + 1
    IN  /\ commands' = [r \in Rooms |-> [commands[r] EXCEPT !.age = older(@)]]
        /\ queries' = [r \in Rooms |-> older(queries[r])]
        /\ log' = [i \in DOMAIN log |-> [log[i] EXCEPT !.age = older(@)]]
        /\ UNCHANGED <<conn, settings, sequence, entityVars, reported, unheard>>

----------------------------------------------------------------------------
(* async_get_entity_registry may have restored the state of a room; such a *)
(* state has no label.                                                     *)
Restored == [set : Settings, temp : Temps, label : {NoLabel}]

Init ==
    /\ conn \in {"open", "down"}
    /\ settings = [r \in Rooms |-> None]
    /\ commands = [r \in Rooms |-> NoCommand]
    /\ queries = [r \in Rooms |-> Old]
    /\ sequence = 0
    /\ registry \in [Rooms -> Restored \cup {None}]
    /\ ready = FALSE /\ entities = {}
    /\ recorded = [r \in Rooms |-> 0]
    /\ log = <<>> /\ reported = [r \in Rooms |-> None]
    /\ fired = [n \in 1 .. MaxLabels |-> 0] /\ unheard = {}

Next ==
    \/ \E r \in Rooms : \/ \E ctx \in Contexts \cup {None} : CommandSent(r, ctx)
                        \/ CommandHeard(r) \/ Query(r)
                        \/ \E s \in Settings, t \in Temps : Report(r, s, t)
    \/ Lose \/ SyncDown \/ Open \/ SetUp \/ Tick

Spec == Init /\ [][Next]_vars

----------------------------------------------------------------------------
(* Properties.                                                             *)

Frame == [room : Rooms, kind : {"integration", "wallpad", "query"},
          context : Contexts \cup {None}, age : Age]

\* Every variable has its type.
TypeOK ==
    /\ conn \in {"open", "lost", "down"}
    /\ settings \in [Rooms -> Settings \cup {None}]
    /\ commands \in [Rooms -> [age : Age, ours : BOOLEAN, context : Contexts \cup {None}]]
    /\ queries \in [Rooms -> Age]
    /\ sequence \in Numbers
    /\ registry \in [Rooms -> State \cup {None}]
    /\ ready \in BOOLEAN /\ entities \subseteq Rooms
    /\ recorded \in [Rooms -> Numbers]
    /\ log \in Seq(Frame)
    /\ reported \in [Rooms -> Settings \cup {None}]
    /\ fired \in [1 .. MaxLabels -> Nat] /\ unheard \subseteq Numbers

\* The frames of the last Window ticks that concern r.
Recent(r, kinds) ==
    {i \in DOMAIN log : log[i].room = r /\ log[i].kind \in kinds /\ log[i].age <= Window}

\* The source the README promises, said of the frames that were on the bus:
\* the last command of the window decides; without a command, a query makes
\* the source unknown; without either, it was the device itself.
IsSourceOf(label, r) ==
    LET cmds == Recent(r, {"integration", "wallpad"})
        decides(kind, ctx) == label.source = kind /\ label.context = ctx
    IN  IF cmds # {}
        THEN \E i \in cmds : /\ \A j \in cmds : j <= i
                             /\ decides(log[i].kind, log[i].context)
        ELSE decides(IF Recent(r, {"query"}) # {} THEN "unknown" ELSE "device", None)

\* The report of this step showed a change of r, which it labelled.
Labelled(r) == sequence' # sequence /\ registry'[r] # registry[r]

\* A change is attributed by the frames of its own room, of the last two
\* seconds and of the connection that is open; only the service call that was
\* transmitted last lends it a context (README.md:55).
SourceIsTrue ==
    [][\A r \in Rooms : Labelled(r) => IsSourceOf(registry'[r].label, r)]_vars

\* A change is what a room did between two reports over one connection: what
\* happened while the connection was down is never labelled (README.md:55).
ComparedInSession ==
    [][\A r \in Rooms : Labelled(r) =>
         LET label == registry'[r].label
         IN  label.old = reported[r] /\ label.new # label.old]_vars

\* No change is recorded twice, however often its state is dispatched again
\* (test_connection_change_repeats_no_label).
RecordedOnce == \A n \in 1 .. MaxLabels : fired[n] <= 1

\* A change of a room that has an entity is recorded by the report that
\* showed it, even if the connection had been closed meanwhile.
RecordedAtOnce ==
    \A n \in 1 .. sequence : n \notin unheard => fired[n] >= 1

\* Every change of a climate entity leaves one record (README.md:55): false of
\* the code, where a change reported before the climate platform is set up is
\* labelled, and then recorded when the connection is lost, or never.
EveryChangeRecorded == ready => \A n \in 1 .. sequence : fired[n] = 1
=============================================================================
