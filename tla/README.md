# Verification of the Kocom wallpad integration

`custom_components/kocom_wallpad` connects Home Assistant to a Kocom home-network
wallpad over an RS-485 line, through a serial port or a TCP-to-RS-485 converter.  It
reads every frame on the bus, keeps a registry of device states, and transmits
commands and status queries.  This directory holds TLA+ models of it, the
configurations TLC checks them with, and proofs for TLAPS.  File names below are
relative to `src/custom_components/kocom_wallpad/`.

## 1. Inventory

### Components

| Part | Code | State it keeps | Operations |
|---|---|---|---|
| Transport | `transport.py` | `_reader`, `_writer`, `_connected`, last activity | `open`, `close`, `send`, `recv` |
| Sessions | `gateway.py` `_read_loop`, `_sync_connection_availability`, `on_device_state` | `_connection_available`, `_connection_generation`, `_live_device_keys` | open, notice a loss, confirm a device |
| Command path | `gateway.py` `_async_queue_item`, `_sender_loop`, waiters; `entity_base.py` `_async_send_or_raise` | `_tx_queue`, `_active_item`, `_pendings`, futures | accept, transmit, confirm, retry, cancel |
| Bootstrap queries | `gateway.py` `_schedule_bootstrap_queries` ... `_async_query_until_answered` | one task per session | rounds of status queries, requeries |
| Shutdown | `gateway.py` `async_stop`, `__init__.py` | - | cancel reader, bootstrap and sender; fail what waits; close |
| Framing | `controller.py` `feed`, `_split_buf`, `_checksum` | `_rx_buf` | find frames, drop noise |
| Change record | `controller.py` `note_transmitted`, `_note_request`, `_change_label`; `climate.py` `update_from_state` | `_thermo_settings`, `_thermo_commands`, `_thermo_queries`, `_change_sequence` | note a frame, label a change, record it once |
| Registry | `gateway.py` `EntityRegistry`, signals | states by key and by platform | insert, update, announce |
| Switch rooms | `controller.py` `_handle_switch`, `_handle_cutoff_switch`, `_generate_switch` | the registered bits | decode a room, build a packet for one relay |
| Other devices | `controller.py` `_handle_*`, `_expect_for_*`, `_generate_*`; `models.py` | `_device_storage` (`available_floor`, the fan's presets) | decode, encode, predicate |
| Restoration | `gateway.py` `async_get_entity_registry` | `_device_storage`, `_restore_mode`, `_force_register_uid` | replay the stored packets |
| Platforms | `climate.py`, `light.py`, `switch.py`, `fan.py`, `sensor.py`, `binary_sensor.py` | one `DeviceState` per entity | set up, update, call a service |
| Set-up and unloading | `__init__.py` | - | restore, start, set the platforms up; unload them, stop |
| Config flow, logbook, constants | `config_flow.py`, `logbook.py`, `const.py` | - | - |

### How they interact

Everything runs on one asyncio loop.  The **reader** task owns the connection: it opens
it, receives chunks and feeds them to the controller, which calls `on_device_state`
synchronously for each state of each frame; that writes the registry, signals the
entities, and completes the waiter of a command it satisfies.  The **sender** task takes
items from one FIFO queue filled by **service calls** and by the **bootstrap** task of
the session, builds the packet from the registry, transmits, and waits for the report.
Reader and sender share the connection: each may close it when its own I/O fails, the
other finds out at its next step, and the reader alone notices the change of session
(`_sync_connection_availability`), clears what belonged to the old one and starts or
cancels the bootstrap task.  `async_stop` cancels the three in turn; entities may still
make calls meanwhile when it runs from `EVENT_HOMEASSISTANT_STOP`.

### What is hard, and what correct means

- Sessions: a loss found by either task, between any two awaits.  *A device is
  available only on a report over the socket that is open.*
- Command path: confirmation, timeout, retransmission, caller's cancellation, loss and
  stop in any order.  *Every call is answered once, with success only after the state
  asked for was reported, and always eventually.*
- Bootstrap: a task that outlives its session, rooms that answer at any moment.
  *Every silent room is asked as long as the session lasts; no command waits behind
  more than one query; a room that reported is not asked.*
- Shutdown: what is queued or waited for.  *Nobody waits forever.*
- Framing: chunks and noise cut anywhere.  *Exactly the frames of the stream are found,
  and memory is bounded.*
- Change record: the order of commands, queries and reports; states dispatched again;
  platforms set up late.  *Each change has the source that the frames on the bus give,
  and one record.*
- Switch rooms: eight relays share a frame, and a command for one rewrites the rest.
  *A command overturns nothing that had been reported.*
- Codec: four frames with the same payload for each command.  *A report of what a command
  asked for confirms it, and nothing else does; a temperature that does not fit a byte is
  refused.*
- Restoration and platforms: packets replayed in any order, platforms set up between two
  reports, crashes before anything is stored, signals that reach nobody.  *Entities show
  what is registered; none shows a restored state as present; what was known comes back.*

The hazards are listed line by line in `PROJECT.json`, each with the properties that
would catch it.

## 2. Modules

| Module | Models | Status |
|---|---|---|
| `Gateway` | sessions, command path, bootstrap, shutdown | modelled, proved |
| `CommandPromise` | abstract: what a service call may observe | `Gateway` refines it, proved |
| `Transmission` | abstract: what the sender makes of a command in hand | `Gateway` and `Switches` refine it, proved |
| `Framing` | receive buffer | modelled, proved |
| `FrameScan` | abstract: one scan of everything received | `Framing` refines it, proved |
| `ChangeSource` | change record, its way through registry and climate entity | modelled, proved |
| `Switches` | one room of lights or outlets, the cutoff, their registration | modelled, proved |
| `Codec` | encoders, decoders and predicates of every device but lights and outlets, over the dialogue on the bus | modelled, proved |
| `Entities` | registry, signals, platforms, restoration, set-up and unloading | modelled, proved |

`MCx` gives module `x` its small instance, `xProofs` holds its theorems; those about the
sender and the queue of `Gateway` are in `SenderProofs`.  The order was
by what a user would notice first: commands that are answered wrongly, then frames that
are lost, then changes that are misattributed, then relays switched by mistake, then
commands that are encoded or confirmed wrongly, then what is shown around a restart.

### Gateway

One action is the code a task runs between two awaits; `reader`, `sender` and
`task[g].pc` name the await a task is suspended in.

| Model | Code |
|---|---|
| `conn` | `_connected` with what is left of the socket: `"closing"` while `wait_closed()` runs; `"broken"` after a cancelled `close()`, which has dropped `_writer` and left `_connected` set |
| `fut[i]`, `queue` | the future of item `i`, `_tx_queue`; the status query of session `g` is item `g` |
| `waiter` | the future of the one entry of `_pendings` the sender owns |
| `task[g]` | the bootstrap task of session `g` |
| `heard`, `echoed`, `late`, `asked` | history, read only by properties |
| `Report`, `RecvFails`, `RecvOnClosed`, `ReaderCloses`, `OpenSucceeds`, `OpenFails`, `RetryOpen` | `_read_loop` with `recv`, `open`, `close` and `on_device_state` |
| `Call`, `CancelCall` | `_async_send_or_raise`, `_async_queue_item` |
| `Take` ... `NextAttempt`, `SenderIsCancelled` | `_sender_loop` |
| `StartRound`, `QuerySettled`, `WaitEnds` | `_async_bootstrap_queries`, `_async_bootstrap_round`, `_async_query_until_answered` |
| `Stop`, `StopBootstrap`, `StopSender`, `StopFlush`, `StopCloses` | `async_stop`, between its awaits |

Decisions that shorten the model:

- Time is not modelled: a sleep or a timeout may end at any moment, so every property
  holds whatever the durations are.
- A timeout has two steps, as in asyncio: it fires (`ConfirmTimeout`) and the task
  resumes (`NotConfirmed`); a report between them is lost with the cancelled waiter.
- The waiter of a bootstrap query is not kept: its wait may end at any moment, whether by
  the report or the timeout, and what follows reads only `_live_device_keys`.
- Cancelling a bootstrap task and its ending are one step; it awaits nothing on its way
  out, and the future it awaits is cancelled with it.
- The test on `_bootstrap_scheduled_generation` never decides, since the generation is
  new whenever a task is scheduled; it is left out.
- A new socket is opened only when the sender is no longer suspended in `drain` or
  `close` of the old one: asyncio wakes both when a socket is lost, and `open` takes
  several turns at least.
- The registry and the signals are in the two modules that are about states.

`CommandPromise` is the abstract specification: a call is pending, and then cancelled by
its caller, confirmed after its state was reported, or failed.  `Gateway` implements it
with `outcome` mapped to the futures of the commands and `echoed` to itself.

`Transmission` is the other side: the sender has one command at a time, makes at most
`RetryMax` attempts, and gives each a waiter of its own, which a report settles or which
is forgotten with the attempt.  In the mapping an attempt counts as lost from the moment
its time is up (`TimeIsUp`), before the sender has resumed and counted it, since a report
that comes between the two reaches nobody; queries have no waiter and are no item of it.

Four more properties are about the work in progress.  `HeldOnce`: what waits is in the
queue or in the sender's hand, and nothing is there twice, although a session's query is
queued again and again under one name.  `SenderAdvances`: no step of the sender leaves an
item where it was, which is the safety half of `EveryCallAnswered`.  `NoneForgotten`: a
silent thermostat stays on the list of its task, the safety half of `AskedUntilHeard`.

### Framing

`Feed` appends a chunk; `NoPrefix`, `Incomplete`, `Slide` and `Accept` are the turns
of the loop in `_split_buf`.  `feed` awaits nothing, so no chunk arrives between turns.
`stream`, `taken` and `frames` are history: what was received, how much has left the
buffer, and where the frames found began, of which `delivered` passed the checksum.
`Selected(s)` is the reference: the frames of `s` for one who has all of it and takes each
that begins outside of those taken.  `FramesOfStream` says that the loop finds these, so
that the chunks do not matter, and `FrameScan` is the same as a machine: no byte is
received while a complete frame is not yet found, and frames are found from the left.
Bytes are numbers because prefix, suffix and checksum are about values; the payload is
not interpreted.

### ChangeSource

`settings`, `commands` and `queries` are the three dictionaries of the controller.
Ages count ticks up to `Window` and saturate one above it.  `Report` is the whole path
of a thermostat's status: `_change_label`, `upsert`, new device or update signal, and the
entity's `update_from_state`.  The connection has a state `"lost"`, closed and not yet
noticed by the reader, in which frames already received are still handled.
`async_add_entities` is one step with the signal that caused it.  Frames that we
transmit are not echoed by the adapter, as README.md:55 of the repository assumes.

### Switches

One room; `Zero` is the relay whose key is that of the cutoff (light 0 of room 0), or
none.  A wallpad command is read like a report, since `PacketFrame.peer` resolves both
directions to the room and both have command 0x00.  The relays and the frames are the
outside world; one frame is on the bus at a time.  `_live_device_keys` is cleared with
the connection here; `Gateway` has the steps in between and `LiveIsFresh` for them.  The
registry starts with anything, since what is restored may be of any age.  The sender is
reduced to what decides when a packet is built and transmitted; service calls come one
at a time, as the sender takes them.  That it is a reduction of the one in `Gateway` is
checked and proved as far as both implement `Transmission`.  As there, a report may settle
the waiter after the timeout has fired and before the sender resumes; it is then lost with
the waiter (`TimedOut`).

### Codec

One device of one kind per behaviour, and the bus it is on.  A frame is its type (0x0B
or 0x0D), who sent it, its command byte and its payload; how prefix, addresses and
checksum stand in the packet is `Framing`'s and `_dispatch_packet`'s.

| Model | Code |
|---|---|
| `Packet` with `ThermostatData`, `AirconditionerData`, `VentilationData`, `WholeTemperature`, `Rev` | `generate_command`, `_generate_*`, the `REV_` maps; `None` where the code raises |
| `Handle`, `HandleThermostat` ... `HandleAirquality` | `_dispatch_packet`, `_handle_*` |
| `Confirms` | `build_expectation`, `_expect_for_*` |
| `Receive` | `_dispatch_packet`, `on_device_state`, `upsert`, `_notify_pendings` |
| `shown`, `floors`, `live`, `waiter` | the registered states, `available_floor`, `_live_device_keys`, the waiter of the call |
| `WallpadCommands`, `Obeyed`, `CommandLost`, `ReportStatus`, `WallpadAcks`, `Handled` | external: the dialogue on the bus |

- The dialogue is that of the frames in `tests/test_control_path_safety.py`: command,
  acknowledgement with the same payload, status, acknowledgement of the status.  So are
  the bytes a device may report (`Reported`).
- `Offered` is what the entities offer: an elevator's `turn_off`, whose packet is the one
  of `turn_on`, is left out, since nothing says what an elevator makes of it (listed as a
  hazard).
- The handlers of the air conditioner, the fan and the gas valve do not look at who sent
  a frame, and those of the thermostat do; the model keeps the difference.
- A reading of zero says nothing (`> 0` in the handlers).  The texts of floors and error
  codes are left out: a floor is its two bytes.
- A waiter that was hit may still be lost with a timeout that had fired before the sender
  resumed, as in `Gateway` (`TimedOut`).
- A temperature is in tenths of a degree, so that a fraction of a degree can be asked for.

### Entities

The registry, its two signals and the entities that listen, over several lives of the
config entry.

| Model | Code |
|---|---|
| `Upserted`, `Registers`, `IsNew`, `Changed` | `EntityRegistry.upsert`; `allow_insert` and `_force_register_uid` of `on_device_state` |
| `Report`, `Dispatched` | `on_device_state` for every state of a live frame |
| `Lose`, `Notice`, `NoticeAfter`, `Open` | a loss, the reader that notices it, perhaps after a last frame, the next connection |
| `Begin`, `RestoreNext`, `Start` | `async_get_entity_registry`, one turn per entity, `async_start` |
| `SetUp`, `Unload`, `Unloaded` | `async_setup_entry` of a platform; `async_unload_entry` |
| `entity[k]` | the entity's `_device`, its supported features, and what it last wrote |
| `Left`, `Dump`, `Stop`, `Crash` | `extra_restore_state_data`; external: Home Assistant writes states down, stops, or dies at any moment |
| `storage`, `Noted`, `RestoredStorage` | `_device_storage["ventil_feature"]`, noted by a frame and replaced by a restored one |

What is assumed of Home Assistant: it adds an entity in the turn in which the platform
hands it over, and none to a platform it has unloaded; it keeps the names of entities
over a crash, and what they left as of its last `Dump`.  The code hands over the storage
itself, not a copy; the model writes down what it holds when the entity leaves.  Lights
stand for every platform whose entities read `is_device_available` and whose keys are
subject to the insertion rule, sensors for those that are not.  A fan's features are
fixed when its entity is created: presets first heard later are offered after the next
reload only, and `PresetsComeBack` says that they then are.

## 3. Runs

All runs pass `CHECK_DEADLOCK FALSE`: the gateway stops for good after `async_stop`,
and the other modules stop when their inputs are used up.

| Run | Instance | Distinct states | Properties |
|---|---|---|---|
| `gateway_commands` | 1 thermostat, 1 light, 2 commands, 2 attempts, 2 sessions | 2.7 M | `TypeOK` `LiveIsFresh` `OneQueryAhead` `NoneLeftBehind` `NoQueryAfterReport` `HeldOnce` `SenderAdvances` `KeepsPromise` `Transmits` |
| `gateway_liveness` | 2 thermostats, 1 command, 1 session and its end | 146 k | `FirstBeforeRetry` `NoneForgotten` `EveryCallAnswered` `StopEnds` `AskedUntilHeard` |
| `gateway_stop_window` | as `gateway_commands` | violation | `StopSettlesAll` |
| `framing_split` | frames of 6 bytes, 3 byte values, streams of up to 10 | 2.3 M | `TypeOK` `BufferIsTail` `FramesOfStream` `FrameEndsFresh` `ScansStream` `FeedReturns` |
| `framing_reconnect` | the same | violation | `FrameIsFresh` |
| `change_sources` | 2 rooms, 2 settings, 2 temperatures, 2 frames per connection, 2 labels, window of 1 tick | 4.8 M | `TypeOK` `RecordedOnce` `RecordedAtOnce` `SourceIsTrue` `ComparedInSession` |
| `change_record_late` | 2 rooms, 3 labels, no frames | violation | `EveryChangeRecorded` |
| `switches_room` | 3 relays, one of them `Zero`, 2 commands of 2 attempts, 2 moves of the household | 1.2 M | `TypeOK` `ShownAsReported` `OthersAsReported` `Transmits` |
| `switches_cutoff` | 2 relays | violation | `CutoffIsNoLight` |
| `codec_devices` | 7 kinds, up to 12 statuses and 9 calls each, 1 call, 5 moves on the bus | 1.4 M | `TypeOK` `ObeyedIsConfirmed` `ConfirmedIsDone` `ShownIsReported` `DirectionAgrees` |
| `codec_commands` | 3 kinds, 4 moves | violation | `ConfirmedByReport` |
| `entities` | 2 lights, a fan and its sensor, 1 thermostat, 3 frames, 2 set-ups | 3.6 M | `TypeOK` `ShownAgrees` `AvailableIsReported` `KnownComeBack` `NamedAreAsked` `PresetsComeBack` |

Why the bounds are enough.  `RetryMax = 2` has an attempt that is repeated and one that
is the last (the code's 3 repeats once more).  `MaxGen = 4` bounds the connection
generation, which each opening and each loss raises: whether the first `open` succeeds or
not, there are two sessions and the loss of both; stale state needs one session after
another.  `MaxGen = 3` in the liveness run lets one session
end.  Two thermostats are what an order of queries needs, within one session; two commands
what a queue and a stale waiter need.  A frame of 6 bytes has prefix, suffix, one covered byte and its
checksum; a stream of 10 holds every overlap of two frames, noise before and after, and
any cut.  Two frames are a command and a query in either order, or a command that replaces another,
in or out of the window.  Two labels are two changes of one room, or one of each.  The
dialogue of a command and its report is four moves, after or before which the device is
operated by hand or the wallpad speaks; the statuses and calls have each branch of the
handlers and encoders, a temperature with a fraction and one out of range.  Three frames
are a light seen on and then off, before and after a reconnection, or the two that make a
fan know a preset and show it; two set-ups are a life and the one that restores it.  A
call that `generate_command` rejects is in `codec_devices`; that the sender answers it is
proved of `Gateway` for any `WantOf`.  The restored states, the relays and the registry of
`Init` range over all values.  Rooms, settings, temperatures, lights and the relays other
than `Zero` are interchangeable, hence the symmetry, which no liveness run uses.

Each property has a mutant of the mapped code (`PROJECT.json`, definitions marked
`mutant:`) that TLC finds to violate it.

### Fairness

`FairSpec` of `Gateway` has weak fairness of the reader's, the sender's, the bootstrap
tasks' and `async_stop`'s own steps: asyncio runs every ready task and fires every
timer, and `open` has a timeout of its own.  It also assumes that `drain()` and
`wait_closed()` end; the code puts no timeout on either (listed as a hazard).  Nothing is
assumed of reports, failures, calls, cancellations or a stop.  `FairSpec` of `Framing` is
weak fairness of the turns of the loop, which run without an await.

### What the violations show

- `gateway_stop_window`: `async_stop` fails what is queued and then awaits
  `conn.close()`, during which `_is_connected()` is still true.  A call made then is
  accepted, and no task is left to answer it.  `NoneLeftBehind` states what does hold:
  only such calls are left.
- `framing_reconnect`: `_rx_buf` is not cleared when the connection is lost, so a frame may be
  put together from two connections, and then confirms its device in the new one, against
  the comment at `gateway.py:292`.  `FrameEndsFresh` states what does hold: the last byte of
  a frame came over the connection that is open, so that at most one frame, cut by the
  reconnection, is of both.
- `change_record_late`: a change reported between `async_start` and the set-up of the
  climate platform is labelled, and recorded late or not at all, against README.md:55.
- `switches_cutoff`: the frame for all lights has the key of light 0 of room 0
  and overwrites it, although README.md:42 and the translations name the cutoff as a
  device of its own.  It needs an installation that has a room 0, of which the code says
  nothing.

- `codec_commands`: the wallpad's command to an air conditioner, a fan or a gas valve is
  decoded as its status, so that a device counts as confirmed in the connection although
  only the wallpad was heard, against the comment at `gateway.py:281`.

## 4. Proofs

The theorems hold for every value of the constants under the named assumptions of the
modules (`RoomsAssumption`, `CommandsAssumption`, `BoundsAssumption`, `FramingAssumption`,
`ChangeAssumption`, `SwitchesAssumption`, `CodecAssumption`, `EntitiesAssumption`), which
say that bounds are natural numbers and that `None` and the kinds of items are distinct;
those of `Codec` also that the statuses and calls are ones the devices report (`Reported`)
and the entities offer (`Offered`), those of `Entities` that a frame of the fan always
has its error sensor, as `_handle_ventilation` makes it.

| Theorem | States |
|---|---|
| `GatewayProofs` `TypeCorrect` | `TypeOK` |
| `ConfirmedIsFresh` | `LiveIsFresh` |
| `AtMostOneQueryAhead` | `OneQueryAhead` |
| `StopLeavesNoneBehind` | `NoneLeftBehind` |
| `GatewayKeepsPromise` | `KeepsPromise`: the refinement of `CommandPromise` |
| `HeardRoomsAreNotAsked` | `NoQueryAfterReport` |
| `RoomsTakeTurns` | `FirstBeforeRetry` |
| `SilentRoomsStayAsked` | `NoneForgotten` |
| `SenderProofs` `ItemsAreHeldOnce` | `HeldOnce` |
| `WorkGoesOn` | `SenderAdvances` |
| `SenderTransmits` | `Transmits`: the refinement of `Transmission` |
| `FramingProofs` `FramingTypeCorrect` | `TypeOK` |
| `BufferHoldsTail` | `BufferIsTail` |
| `FoundFramesAreReal`, `NoFrameIsLost` | `FramesAreReal`, `NothingLost`: what `FramesOfStream` means for one frame |
| `ChunksDoNotMatter`, `FramesEndFresh` | `FramesOfStream`, `FrameEndsFresh` |
| `FramingScansStream` | `ScansStream`: the refinement of `FrameScan` |
| `LoopEnds` | a turn of the loop applies whenever `feed` has not returned, and deletes something or is the last |
| `ChangeSourceProofs` `ChangeTypeCorrect`, `NoRecordTwice`, `NoRecordLate` | `TypeOK`, `RecordedOnce`, `RecordedAtOnce` |
| `SourcesAreTrue`, `ChangesAreOfTheSession` | `SourceIsTrue`, `ComparedInSession` |
| `SwitchesProofs` `SwitchesTypeCorrect`, `RegistryShowsReport`, `CommandsKeepOthers` | `TypeOK`, `ShownAsReported`, `OthersAsReported` |
| `SwitchesTransmit` | `Transmits`: the refinement of `Transmission` |
| `CodecProofs` `CodecTypeCorrect`, `DoneIsConfirmed` | `TypeOK`, `ObeyedIsConfirmed` |
| `OnlyDoneIsConfirmed`, `OnlyReportsAreShown`, `SwitchAndDirectionAgree` | `ConfirmedIsDone`, `ShownIsReported`, `DirectionAgrees` |
| `EntitiesProofs` `EntitiesTypeCorrect`, `EntitiesAgree`, `ShownIsPresent` | `TypeOK`, `ShownAgrees`, `AvailableIsReported` |
| `StoredComeBack`, `NamedRoomsAreAsked`, `PresetsSurvive` | `KnownComeBack`, `NamedAreAsked`, `PresetsComeBack` |

Along which argument:

- *Gateway.*  `TypeOK` is not inductive: the generation grows with every session.
  `SessionInv` ties `available`, `conn` and the reader's place to it, so that a session is
  opened only if its loss can be counted.  `FreshInv` adds to `LiveIsFresh` that nothing is
  live while the gateway knows it is unconnected, which is when `heard` is reset.
  `QueryInv` says that a pending query belongs to a task at its query step, and that only
  the task of the current session is on.  `SenderInv` says what the active item, the waiter
  and `echoed` have to do with each other: a waiter that was hit has an echoed command,
  and no waiter was refused.  That last part is why the order of `async_stop` matters:
  `_resolve_pending(False)` completes a waiter, which the sender would take for a
  confirmation were it not cancelled before.  `FlushInv` follows what is pending through
  the stages of the stop.  `HeardInv`, the converse of `LiveIsFresh` while connected, gives
  the action property about queries.  `TaskInv` and `RoundInv` follow the first round of a
  session: what it has still to ask was not asked, and what it has passed was asked or has
  reported, whence `FirstBeforeRetry`.  `ForgetInv` follows every round: `ToAsk` is what
  holds between two awaits of the task, when no room is being waited for, namely that each
  silent room is in the rest of the round or has made the round `pending`; it needs that
  the rooms of `Restored` are `known` at every start of a session.
- *The sender* (`SenderProofs`).  `HeldInv` says why a query is not queued twice: while the
  queue or the sender has it, its task waits for its future at the query step, or has ended
  for good with its session, so that no later round can queue it.  `ExpiredInv` ties a
  timeout that has fired to the place where the sender waits; with it `SenderAdvances` is a
  fact of each step, and `Transmission` follows step by step: `ConfirmTimeout` is its
  `Repeat` or `Leave`, and `NotConfirmed` a stutter.
- *Framing.*  `TailInv` says that buffer and taken part make up the stream.  `FramesInv`
  keeps the frames found in the taken part and apart.  `TakenInv` is the reason nothing is
  lost: each byte taken is covered by a frame found, or `Refuted`, a fact about the stream
  that no later byte can undo.  `Selected` is a recursive function; that the frames found
  are those it names is proved through the least position at which the two differ
  (`WFMin`), below which the frames that could overlap are the same.  The checksum of a
  frame is shown to be a matter of its own bytes, and kept opaque otherwise.  `BaseInv`
  bounds what a connection can have begun with: less than a frame more than is taken,
  whence `FrameEndsFresh`.
- *ChangeSource.*  `SessionInv` (another one) says that the remembered settings are those
  reported over this connection.  `RecordInv` counts: a label belongs to one room, and one
  that its entity may still record was not recorded before.  `FramesInv` says that the
  remembered command and query are the last of their room in the log, and that ages do
  not increase along the log, so that the last command is in the window if any is.
- *Switches.*  `LiveInv` says that before the first report only the cutoff makes a relay
  live; `PacketInv` that a packet agrees with the report it was built after, up to its
  last retransmission, and that while there is a packet there is a command in hand,
  which is what the steps of `Transmission` need.

- *Codec.*  `BusInv` says that what was told and called has a packet.  `Heard` says which
  frames the dialogue can put on the bus; for each kind of device a lemma
  (`ThermostatConfirms`, ...) says that a status that does what a packet says is read as a
  state that satisfies the predicate, for every action and every byte the packet can
  carry.  `WaiterInv` then has the waiter hit by the report that shows the call done, and
  for a thermostat by nothing else.
- *Entities.*  `SessionInv` ties the connection to what the gateway knows of it and to the
  start; `ExistInv` says that no registered device of a platform that is set up lacks an
  entity, `LastInv` that what is registered of a live device is its last report.  With
  `ShownAgrees` they are inductive.  `HomeInv` follows the replay: what was stored is
  registered, what is named is noted, by the time its turn is over, and nothing is lost
  from the registry while the gateway lives.  `FanInv` says why the order of the replay
  does not matter to the presets: the first entity of the fan brings the storage back, and
  the packet of the second shows the fan with it.

Only model-checked: the five violations, which are counterexamples, and the liveness
properties `EveryCallAnswered`, `StopEnds`, `AskedUntilHeard` and `FeedReturns`, since
fairness and `ENABLED` are out of the prover's reach.  What is proved of them is that no
step undoes progress: `SenderAdvances` and `HeldOnce` for the calls, `NoneForgotten` for
the thermostats, `LoopEnds` for the loop.  Induction over data is not available to this
prover either; where a recursive function had to be reasoned about (`Selected`), a least
counterexample took its place, and where it did not, the proofs hold for any function
(`Checksum`).

## 5. Not modelled, and why

- Packets that fail to decode when they are replayed: they raise out of
  `async_get_entity_registry` and end the set-up, which is Home Assistant's to clean up.
- A set-up that fails or is cancelled half-way: the remedy belongs to Home Assistant's
  protocol (listed as a hazard).
- `percentage` of a running fan whose speed is not in its list: it raises and the state is
  not written; the repository does not say which speeds a fan reports (listed as a hazard).
- Texts: floors, error codes, logbook wording, translations, and what the properties of the
  climate entity derive from its state (`hvac_action`).
- Config flow: one form with two field checks and no state that outlives a call.
- `promote` and `_shadow` of the registry: never filled by this code.
- The line-idle test before a transmission: only delays; in `Gateway` the wait may end at
  any moment.
- A serial line that returns `b""` at its end: what the serial library returns for a lost
  device is not in the repository.
- Overlapping `async_stop` calls.
- Developer tools: not part of the running integration.

## 6. What could follow

1. An abstract session (connected, noticed, live), refined by `Gateway`, `ChangeSource`,
   `Entities` and `Switches`, as `Transmission` is by two of them now.
2. `Transmission` for `Codec`, whose sender has a single attempt's worth of it, and for the
   transmitted commands of `ChangeSource`.
3. `Framing` and `Codec` composed: from bytes to states in one module.
4. What the code promises of frames heard across a reconnection, once `feed` clears its
   buffer: `FrameIsFresh` as a property that passes.
