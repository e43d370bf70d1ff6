------------------------------ MODULE Gateway ------------------------------
(***************************************************************************)
(* The hub of the integration: KocomGateway (gateway.py) over one          *)
(* AsyncConnection (transport.py), as the asyncio tasks that share it.     *)
(*                                                                         *)
(*   - the reader task owns the connection: it opens it, feeds what it     *)
(*     receives to the entities, and notices that it was lost;             *)
(*   - the sender task takes commands and status queries from one FIFO     *)
(*     queue, transmits each, and waits for the wallpad to report the      *)
(*     state a command asked for, retransmitting up to RetryMax times;     *)
(*   - one bootstrap task per socket session asks every known thermostat   *)
(*     for its state until the room has reported;                          *)
(*   - entity service calls queue commands, and may be cancelled;          *)
(*   - async_stop cancels the tasks one after the other.                   *)
(*                                                                         *)
(* One action is the code a task runs between two awaits.  Time is not     *)
(* modelled: a sleep or a timeout may end at any moment.                   *)
(***************************************************************************)
EXTENDS Integers, Sequences, FiniteSets

CONSTANTS
    Rooms,      \* thermostats, in the order of their keys
    Others,     \* the other devices
    Restored,   \* the thermostats the entity registry names at start-up
    Commands,   \* one for every service call that can be made
    KeyOf,      \* the device a command addresses
    WantOf,     \* the state its confirmation predicate expects
    Values,     \* the states a device can report
    RetryMax,   \* SEND_RETRY_MAX
    MaxGen,     \* bound on the connection generation
    None

Devices == Rooms \cup Others
Gens == 1 .. MaxGen
Items == Commands \cup Gens   \* a status query is named after its session

ASSUME RoomsAssumption == Rooms \subseteq Nat /\ Restored \subseteq Rooms
ASSUME CommandsAssumption ==
    /\ Commands \cap Gens = {} /\ None \notin Items /\ None \notin Rooms
    /\ KeyOf \in [Commands -> Devices]
    \* WantOf[c] = None: generate_command has no packet for the call.
    /\ WantOf \in [Commands -> Values \cup {None}]
ASSUME BoundsAssumption == RetryMax \in Nat \ {0} /\ MaxGen \in Nat \ {0, 1}

VARIABLES
    conn,        \* the transport: "down", "open", "closing", "broken"
    available,   \* _connection_available
    generation,  \* _connection_generation
    live,        \* _live_device_keys
    known,       \* thermostats in the registry or in _bootstrap_registry_keys
    reader,      \* what the reader task awaits
    queue,       \* _tx_queue
    fut,         \* the future of every item
    sender,      \* what the sender task awaits
    active,      \* _active_item
    attempt,     \* its transmission attempt, 1 .. RetryMax
    waiter,      \* the future of the sender's entry in _pendings
    task,        \* the bootstrap task of every session
    stop,        \* how far async_stop has come
    \* History, read by the properties only:
    heard,       \* the devices that reported since the socket was opened
    echoed,      \* the commands whose state was reported after a transmission
    late,        \* the commands accepted after the queue was flushed for good
    asked        \* queries queued for each room in this session: 0, 1, 2 (or more)

connVars == <<conn, available, generation, live, known, reader>>
queueVars == <<queue, fut>>
senderVars == <<sender, active, attempt, waiter>>
history == <<heard, echoed, late, asked>>
vars == <<connVars, queueVars, senderVars, task, stop, history>>

----------------------------------------------------------------------------
Connected == conn # "down"                       \* _connected
Running == stop = "running"
IsSession(g) == Connected /\ g = generation      \* _is_bootstrap_session
Queued == {queue[n] : n \in DOMAIN queue}

\* _schedule_bootstrap_queries: no task if there is nothing to ask.
NewTask(rooms) ==
    [pc |-> IF rooms = {} THEN "off" ELSE "start", keys |-> rooms, todo |-> {},
     round |-> 0, pending |-> FALSE, room |-> None]
Off == NewTask({})

\* is_device_available, and climate.py's override for thermostats.
Callable(k) == Connected /\ k \in live \cup known

\* Future.set_result under "if not done()": the first result stays.
Settle(S, res) ==
    [i \in Items |-> IF i \in S /\ fut[i] = "pending" THEN res ELSE fut[i]]

\* mutant: the sender does not look at what the room reported meanwhile
IsCurrentQuery_AskAnyway(g) == fut[g] = "pending" /\ IsSession(g)

IsCurrentQuery(g) ==
    fut[g] = "pending" /\ IsSession(g) /\ task[g].room \notin live

\* The next step of the sender is the one its cancellation causes.
SenderCancelled == stop = "sender"

----------------------------------------------------------------------------
(* _cancel_bootstrap_queries_soon.  The cancellation of a task cancels the *)
(* future it awaits at once.                                               *)
\* mutant: the task of the old session goes on
CancelBootstrap_Survives(g) == UNCHANGED <<task, fut>>

CancelBootstrap(g) ==
    /\ task' = [task EXCEPT ![g] = Off]
    /\ fut' = Settle({g}, "cancelled")

(* _sync_connection_availability, run with the connection state c.         *)
Sync(c) ==
    IF c <=> available
    THEN UNCHANGED <<available, generation, live, fut, task, asked>>
    ELSE /\ available' = c
         /\ generation' = generation + 1
         /\ IF c
            THEN /\ task' = [task EXCEPT ![generation + 1] = NewTask(known)]
                 /\ asked' = [r \in Rooms |-> 0]
                 /\ UNCHANGED <<live, fut>>
            ELSE /\ live' = {}
                 /\ CancelBootstrap(generation)
                 /\ UNCHANGED asked

(* The head of _read_loop: receive while connected, reopen otherwise.      *)
LoopTop(c) ==
    /\ reader' = IF c THEN "recv" ELSE "opening"
    /\ Sync(c)

(* _notify_pendings: a report settles the open waiter it satisfies.        *)
Notify(k, v) ==
    waiter' = IF /\ waiter = "open"
                 /\ active \in Commands /\ KeyOf[active] = k /\ WantOf[active] = v
              THEN "hit" ELSE waiter

----------------------------------------------------------------------------
(* The reader task.                                                        *)

(* recv returns a frame and on_device_state handles the state v of k.  The *)
(* sender may have closed the connection meanwhile: the report is then not *)
(* live.                                                                   *)
Report(k, v) ==
    /\ reader = "recv" /\ Running
    /\ known' = IF k \in Rooms THEN known \cup {k} ELSE known
    /\ heard' = heard \cup {k}
    /\ IF Connected
       THEN /\ live' = live \cup {k}
            /\ Notify(k, v)
            /\ echoed' = echoed \cup
                 {c \in Commands : /\ c = active /\ sender \in {"send", "confirm"}
                                   /\ KeyOf[c] = k /\ WantOf[c] = v}
            /\ UNCHANGED <<reader, available, generation, fut, task, asked>>
       ELSE LoopTop(FALSE) /\ UNCHANGED <<waiter, echoed>>
    /\ UNCHANGED <<conn, queue, sender, active, attempt, stop, late>>

(* recv meets the end of the stream or an error and starts close().        *)
RecvFails ==
    /\ reader = "recv" /\ Running /\ Connected
    /\ reader' = "closing"
    /\ conn' = "closing"
    /\ UNCHANGED <<available, generation, live, known, queueVars, senderVars,
                   task, stop, history>>

(* recv returns b"" on a connection that the sender closed.                *)
\* mutant: only the reader's own close is noticed
RecvOnClosed_Unnoticed ==
    /\ reader = "recv" /\ Running /\ ~Connected
    /\ reader' = "opening"
    /\ UNCHANGED <<conn, available, generation, live, known, queueVars,
                   senderVars, task, stop, history>>

RecvOnClosed ==
    /\ reader = "recv" /\ Running /\ ~Connected
    /\ LoopTop(FALSE)
    /\ UNCHANGED <<conn, known, queue, senderVars, stop, heard, echoed, late>>

ReaderCloses ==
    /\ reader = "closing" /\ Running
    /\ conn' = "down"
    /\ LoopTop(FALSE)
    /\ UNCHANGED <<known, queue, senderVars, stop, heard, echoed, late>>

(* open succeeds.  A sender suspended in drain or in close on the old      *)
(* socket was woken when that socket was lost, turns before a new one.     *)
OpenSucceeds ==
    /\ reader = "opening" /\ Running /\ sender \notin {"send", "close"}
    /\ generation + 1 < MaxGen
    /\ conn' = "open"
    /\ heard' = {}
    /\ LoopTop(TRUE)
    /\ UNCHANGED <<known, queue, senderVars, stop, echoed, late>>

OpenFails ==
    /\ reader = "opening" /\ Running
    /\ reader' = "retry"
    /\ UNCHANGED <<conn, available, generation, live, known, queueVars,
                   senderVars, task, stop, history>>

RetryOpen ==
    /\ reader = "retry" /\ Running
    /\ reader' = "opening"
    /\ UNCHANGED <<conn, available, generation, live, known, queueVars,
                   senderVars, task, stop, history>>

(* The cancellation arrives.  It leaves a close() half done: no writer, and *)
(* _connected still set.                                                   *)
\* mutant: close() swallows the cancellation
ReaderIsCancelled_Swallowed ==
    /\ stop = "reader" /\ reader \notin {"closing", "done"}
    /\ reader' = "done"
    /\ UNCHANGED <<conn, available, generation, live, known, queueVars,
                   senderVars, task, stop, history>>

ReaderIsCancelled ==
    /\ stop = "reader" /\ reader # "done"
    /\ conn' = IF reader = "closing" /\ Connected THEN "broken" ELSE conn
    /\ reader' = "done"
    /\ UNCHANGED <<available, generation, live, known, queueVars, senderVars,
                   task, stop, history>>

----------------------------------------------------------------------------
(* Service calls (async_send_action, _async_queue_item).                   *)

Call(c) ==
    /\ fut[c] = "none" /\ Callable(KeyOf[c])
    /\ fut' = [fut EXCEPT ![c] = "pending"]
    /\ queue' = Append(queue, c)
    /\ late' = IF stop = "closing" THEN late \cup {c} ELSE late
    /\ UNCHANGED <<connVars, senderVars, task, stop, heard, echoed, asked>>

CancelCall(c) ==
    /\ fut[c] = "pending"
    /\ fut' = [fut EXCEPT ![c] = "cancelled"]
    /\ UNCHANGED <<connVars, queue, senderVars, task, stop, history>>

----------------------------------------------------------------------------
(* The sender task.                                                        *)

Rest == sender' = "get" /\ active' = None /\ attempt' = 0 /\ waiter' = "none"

(* The item leaves the sender with the result res.                         *)
Finish(res) == Rest /\ fut' = Settle({active}, res)

(* An attempt was lost: sleep SEND_RETRY_GAP and try again, or give up.    *)
\* mutant: the loop makes one attempt too many
AttemptLost_OneTooMany ==
    \/ /\ active \in Commands /\ attempt <= RetryMax
       /\ sender' = "gap" /\ waiter' = "none"
       /\ UNCHANGED <<active, attempt, fut>>
    \/ ~(active \in Commands /\ attempt <= RetryMax) /\ Finish("false")

\* mutant: a command that was never confirmed is dropped without an answer
AttemptLost_Silent ==
    \/ /\ active \in Commands /\ attempt < RetryMax
       /\ sender' = "gap" /\ waiter' = "none"
       /\ UNCHANGED <<active, attempt, fut>>
    \/ ~(active \in Commands /\ attempt < RetryMax) /\ Rest /\ UNCHANGED fut

\* mutant: the waiter of a send that failed is not removed
AttemptLost_KeepsWaiter ==
    \/ /\ active \in Commands /\ attempt < RetryMax
       /\ sender' = "gap"
       /\ UNCHANGED <<active, attempt, waiter, fut>>
    \/ ~(active \in Commands /\ attempt < RetryMax) /\ Finish("false")

AttemptLost ==
    \/ /\ active \in Commands /\ attempt < RetryMax
       /\ sender' = "gap" /\ waiter' = "none"
       /\ UNCHANGED <<active, attempt, fut>>
    \/ ~(active \in Commands /\ attempt < RetryMax) /\ Finish("false")

Take ==
    /\ sender = "get" /\ ~SenderCancelled /\ queue # <<>>
    /\ queue' = Tail(queue)
    /\ LET i == Head(queue)
           refused == IF i \in Commands THEN WantOf[i] = None ELSE ~IsCurrentQuery(i)
       IN  IF fut[i] # "pending" \/ refused
           THEN fut' = Settle({i}, "false") /\ UNCHANGED senderVars
           ELSE /\ sender' = "idle" /\ active' = i /\ attempt' = 1
                /\ UNCHANGED <<waiter, fut>>
    /\ UNCHANGED <<connVars, task, stop, history>>

(* The line is idle, or the wait for it ran out.                           *)
Transmit ==
    /\ sender = "idle" /\ ~SenderCancelled
    /\ IF ~(IF active \in Commands THEN Connected ELSE IsCurrentQuery(active))
       THEN Finish("false")
       ELSE IF conn = "broken" THEN AttemptLost
       ELSE /\ sender' = "send"
            /\ waiter' = IF active \in Commands THEN "open" ELSE "none"
            /\ UNCHANGED <<active, attempt, fut>>
    /\ UNCHANGED <<connVars, queue, task, stop, history>>

SendSucceeds ==
    /\ sender = "send" /\ ~SenderCancelled
    /\ IF active \in Commands
       THEN sender' = "confirm" /\ UNCHANGED <<active, attempt, waiter, fut>>
       ELSE Finish("true")
    /\ UNCHANGED <<connVars, queue, task, stop, history>>

SendFails ==
    /\ sender = "send" /\ ~SenderCancelled
    /\ sender' = "close"
    /\ conn' = IF conn = "open" THEN "closing" ELSE conn
    /\ UNCHANGED <<available, generation, live, known, reader, queueVars,
                   active, attempt, waiter, task, stop, history>>

SenderCloses ==
    /\ sender = "close" /\ ~SenderCancelled
    /\ conn' = "down"
    /\ AttemptLost
    /\ UNCHANGED <<available, generation, live, known, reader, queue, task,
                   stop, history>>

(* The timeout cancels the waiter's future; a report that settled it       *)
(* before the sender resumed is lost with it.                              *)
ConfirmTimeout ==
    /\ sender = "confirm" /\ waiter \in {"open", "hit"}
    /\ waiter' = "expired"
    /\ UNCHANGED <<connVars, queueVars, sender, active, attempt, task, stop, history>>

(* The sender resumes: whatever the waiter's result, it counts as success. *)
Confirmed ==
    /\ sender = "confirm" /\ ~SenderCancelled /\ waiter \in {"hit", "refused"}
    /\ Finish("true")
    /\ UNCHANGED <<connVars, queue, task, stop, history>>

NotConfirmed ==
    /\ sender = "confirm" /\ ~SenderCancelled /\ waiter = "expired"
    /\ AttemptLost
    /\ UNCHANGED <<connVars, queue, task, stop, history>>

\* mutant: the attempt is made again without being counted
NextAttempt_Uncounted ==
    /\ sender = "gap" /\ ~SenderCancelled
    /\ sender' = "idle"
    /\ UNCHANGED <<connVars, queueVars, active, attempt, waiter, task, stop, history>>

NextAttempt ==
    /\ sender = "gap" /\ ~SenderCancelled
    /\ sender' = "idle" /\ attempt' = attempt + 1
    /\ UNCHANGED <<connVars, queueVars, active, waiter, task, stop, history>>

(* The cancellation arrives: the item in hand and the queue fail.  Only    *)
(* the wait for a confirmation removes its waiter.                         *)
\* mutant: only what is still queued is answered
SenderIsCancelled_QueueOnly ==
    /\ SenderCancelled /\ sender # "done"
    /\ sender' = "done" /\ active' = None /\ attempt' = 0
    /\ waiter' = IF sender = "confirm" THEN "none" ELSE waiter
    /\ conn' = IF sender = "close" /\ Connected THEN "broken" ELSE conn
    /\ fut' = Settle(Queued, "false")
    /\ queue' = <<>>
    /\ UNCHANGED <<available, generation, live, known, reader, task, stop, history>>

SenderIsCancelled ==
    /\ SenderCancelled /\ sender # "done"
    /\ sender' = "done" /\ active' = None /\ attempt' = 0
    /\ waiter' = IF sender = "confirm" THEN "none" ELSE waiter
    /\ conn' = IF sender = "close" /\ Connected THEN "broken" ELSE conn
    /\ fut' = Settle(Queued \cup {active}, "false")
    /\ queue' = <<>>
    /\ UNCHANGED <<available, generation, live, known, reader, task, stop, history>>

----------------------------------------------------------------------------
(* The bootstrap task of session g.                                        *)

(* The rooms left in a round, in the order of their keys, once r is asked. *)
\* mutant: an unanswered room is retried before the next one
RoomsAfter_Again(r, rooms) == {q \in rooms : q >= r}

RoomsAfter(r, rooms) == {q \in rooms : q > r}

(* _async_bootstrap_round from where t stands: skip the rooms that have    *)
(* reported, then ask the next one; or sleep; or end.                      *)
Proceed(g, t) ==
    LET open == t.todo \ live
    IN  \/ \E r \in open :
             /\ IsSession(g) /\ \A q \in open : r <= q
             /\ task' = [task EXCEPT ![g] =
                  [t EXCEPT !.pc = "query", !.room = r, !.todo = RoomsAfter(r, open)]]
             /\ fut' = [fut EXCEPT ![g] = "pending"]
             /\ queue' = Append(queue, g)
             /\ asked' = [asked EXCEPT ![r] = IF @ = 0 THEN 1 ELSE 2]
        \/ /\ IsSession(g) /\ open = {} /\ t.pending
           /\ task' = [task EXCEPT ![g] =
                [t EXCEPT !.pc = "sleep", !.room = None, !.todo = {}, !.pending = FALSE]]
           /\ UNCHANGED <<fut, queue, asked>>
        \/ /\ ~IsSession(g) \/ (open = {} /\ ~t.pending)
           /\ task' = [task EXCEPT ![g] = Off]
           /\ UNCHANGED <<fut, queue, asked>>

(* A round starts: at once, after SEND_RETRY_GAP, or, after RetryMax       *)
(* rounds, after BOOTSTRAP_REQUERY_INTERVAL for as long as it takes.       *)
\* mutant: the task ends after RetryMax rounds
StartRound_GivesUp(g) ==
    /\ task[g].pc \in {"start", "sleep"} /\ task[g].round < RetryMax
    /\ Proceed(g, [task[g] EXCEPT !.todo = task[g].keys, !.round = @ + 1])
    /\ UNCHANGED <<connVars, senderVars, stop, heard, echoed, late>>

StartRound(g) ==
    /\ task[g].pc \in {"start", "sleep"}
    /\ Proceed(g, [task[g] EXCEPT !.todo = task[g].keys,
                     !.round = IF @ > RetryMax THEN @ ELSE @ + 1])
    /\ UNCHANGED <<connVars, senderVars, stop, heard, echoed, late>>

(* The sender settled the query: wait for the room if it was transmitted.  *)
QuerySettled(g) ==
    /\ task[g].pc = "query" /\ fut[g] \in {"true", "false"}
    /\ IF fut[g] = "true"
       THEN /\ task' = [task EXCEPT ![g].pc = "wait"]
            /\ UNCHANGED <<fut, queue, asked>>
       ELSE Proceed(g, [task[g] EXCEPT !.pending = @ \/ task[g].room \notin live])
    /\ UNCHANGED <<connVars, senderVars, stop, heard, echoed, late>>

(* The room reported, or CMD_CONFIRM_TIMEOUT passed.                       *)
\* mutant: a room that did not answer is not asked again
WaitEnds_Forgets(g) ==
    /\ task[g].pc = "wait"
    /\ Proceed(g, task[g])
    /\ UNCHANGED <<connVars, senderVars, stop, heard, echoed, late>>

WaitEnds(g) ==
    /\ task[g].pc = "wait"
    /\ Proceed(g, [task[g] EXCEPT !.pending = @ \/ task[g].room \notin live])
    /\ UNCHANGED <<connVars, senderVars, stop, heard, echoed, late>>

----------------------------------------------------------------------------
(* async_stop.                                                             *)

\* mutant: async_stop resolves the waiters before it cancels the tasks
Stop_ResolvesFirst ==
    /\ Running
    /\ stop' = "reader"
    /\ waiter' = IF waiter = "open" THEN "refused" ELSE waiter
    /\ UNCHANGED <<connVars, queueVars, sender, active, attempt, task, history>>

Stop ==
    /\ Running
    /\ stop' = "reader"
    /\ UNCHANGED <<connVars, queueVars, senderVars, task, history>>

StopBootstrap ==
    /\ stop = "reader" /\ reader = "done"
    /\ stop' = "bootstrap"
    /\ task' = [g \in Gens |-> Off]
    /\ fut' = Settle({g \in Gens : task[g].pc = "query"}, "cancelled")
    /\ UNCHANGED <<connVars, queue, senderVars, history>>

StopSender ==
    /\ stop = "bootstrap"
    /\ stop' = "sender"
    /\ UNCHANGED <<connVars, queueVars, senderVars, task, history>>

(* _resolve_pending, _resolve_queued, and close() up to its await.         *)
\* mutant: only the sender's own handler flushes the queue
StopFlush_Once ==
    /\ stop = "sender" /\ sender = "done"
    /\ waiter' = "none"
    /\ IF conn = "open"
       THEN stop' = "closing" /\ conn' = "closing"
       ELSE stop' = "stopped" /\ conn' = "down"
    /\ UNCHANGED <<available, generation, live, known, reader, queueVars,
                   sender, active, attempt, task, history>>

StopFlush ==
    /\ stop = "sender" /\ sender = "done"
    /\ waiter' = "none"
    /\ fut' = Settle(Queued, "false")
    /\ queue' = <<>>
    /\ IF conn = "open"
       THEN stop' = "closing" /\ conn' = "closing"
       ELSE stop' = "stopped" /\ conn' = "down"
    /\ UNCHANGED <<available, generation, live, known, reader, sender, active,
                   attempt, task, history>>

StopCloses ==
    /\ stop = "closing"
    /\ stop' = "stopped" /\ conn' = "down"
    /\ UNCHANGED <<available, generation, live, known, reader, queueVars,
                   senderVars, task, history>>

----------------------------------------------------------------------------
(* async_start has run: the first open succeeded or it did not.            *)
Init ==
    /\ conn \in {"open", "down"}
    /\ available = (conn = "open")
    /\ generation = IF available THEN 1 ELSE 0
    /\ live = {} /\ known = Restored
    /\ reader = IF available THEN "recv" ELSE "opening"
    /\ queue = <<>> /\ fut = [i \in Items |-> "none"]
    /\ sender = "get" /\ active = None /\ attempt = 0 /\ waiter = "none"
    /\ task = [g \in Gens |-> IF g = generation THEN NewTask(known) ELSE Off]
    /\ stop = "running"
    /\ heard = {} /\ echoed = {} /\ late = {} /\ asked = [r \in Rooms |-> 0]

ReaderStep == \/ RecvOnClosed \/ ReaderCloses \/ OpenSucceeds \/ OpenFails
              \/ RetryOpen \/ ReaderIsCancelled
SenderStep == \/ Take \/ Transmit \/ SendSucceeds \/ SendFails \/ SenderCloses
              \/ ConfirmTimeout \/ Confirmed \/ NotConfirmed \/ NextAttempt
              \/ SenderIsCancelled
BootstrapStep(g) == StartRound(g) \/ QuerySettled(g) \/ WaitEnds(g)
StopStep == StopBootstrap \/ StopSender \/ StopFlush \/ StopCloses

Next ==
    \/ \E k \in Devices, v \in Values : Report(k, v)
    \/ RecvFails \/ ReaderStep
    \/ \E c \in Commands : Call(c) \/ CancelCall(c)
    \/ SenderStep
    \/ \E g \in Gens : BootstrapStep(g)
    \/ Stop \/ StopStep

Spec == Init /\ [][Next]_vars

(* asyncio runs every ready task and fires every timer; nothing makes the  *)
(* wallpad report, a connection fail, a call arrive or the gateway stop.   *)
Fairness == /\ WF_vars(ReaderStep) /\ WF_vars(SenderStep) /\ WF_vars(StopStep)
            /\ \A g \in Gens : WF_vars(BootstrapStep(g))
FairSpec == Spec /\ Fairness

----------------------------------------------------------------------------
(* Properties.                                                             *)

TaskType == [pc : {"off", "start", "query", "wait", "sleep"},
             keys : SUBSET Rooms, todo : SUBSET Rooms, round : 0 .. RetryMax + 1,
             pending : BOOLEAN, room : Rooms \cup {None}]

\* Every variable has its type: in particular no command is transmitted more
\* than SEND_RETRY_MAX times, and the queue holds only items.
TypeOK ==
    /\ conn \in {"down", "open", "closing", "broken"}
    /\ available \in BOOLEAN /\ generation \in 0 .. MaxGen
    /\ live \subseteq Devices /\ known \subseteq Rooms
    /\ reader \in {"recv", "closing", "opening", "retry", "done"}
    /\ queue \in Seq(Items)
    /\ fut \in [Items -> {"none", "pending", "true", "false", "cancelled"}]
    /\ sender \in {"get", "idle", "send", "close", "confirm", "gap", "done"}
    /\ active \in Items \cup {None} /\ attempt \in 0 .. RetryMax
    /\ waiter \in {"none", "open", "hit", "expired", "refused"}
    /\ task \in [Gens -> TaskType]
    /\ stop \in {"running", "reader", "bootstrap", "sender", "closing", "stopped"}
    /\ heard \subseteq Devices /\ echoed \subseteq Commands /\ late \subseteq Commands
    /\ asked \in [Rooms -> 0 .. 2]

\* A device counts as confirmed only if it reported over the socket that is
\* open now: nothing a previous session reported survives a reconnection,
\* whichever of reader and sender noticed that the connection was lost.
LiveIsFresh == live \subseteq heard

\* At most one status query waits to be transmitted at any time, over all
\* sessions: a command is preceded by at most one.
OneQueryAhead == \A g, h \in Gens : fut[g] = "pending" /\ fut[h] = "pending" => g = h

\* No room is asked a second time in a session before every room the session
\* set out to ask has been asked once or has reported (_async_bootstrap_queries).
FirstBeforeRetry ==
    \A g \in Gens : \A r, s \in task[g].keys :
        asked[r] = 2 /\ s \notin live => asked[s] > 0

\* No query is transmitted to a room that has reported over this socket.
NoQueryAfterReport ==
    [][sender # "send" /\ sender' = "send" /\ active \in Gens
         => task[active].room \notin heard /\ Connected]_vars

\* Once the queue has been flushed for good, the calls that still wait are
\* those that were made after it.
NoneLeftBehind ==
    stop \in {"closing", "stopped"} =>
        \A i \in Items : fut[i] = "pending" => i \in late

\* Once the gateway has stopped, every call has its answer
\* (test_stop_resolves_pending_and_queued_futures): false of the code, which
\* accepts calls while close() waits for the socket.
StopSettlesAll == stop = "stopped" => \A i \in Items : fut[i] # "pending"

\* A call or query that waits is in the queue or in the sender's hand, and
\* nothing is there twice: no command is lost on its way through the sender
\* and none is taken up again, nor is a query queued in a later round before
\* the sender has let go of it (_async_queue_item, _resolve_queued).
HeldOnce ==
    /\ \A i \in Items : fut[i] = "pending" => i \in Queued \cup {active}
    /\ \A m, n \in DOMAIN queue : queue[m] = queue[n] => m = n
    /\ active \notin Queued

\* While a session lasts, a thermostat known at start-up that has not reported
\* is on the list of its bootstrap task: it is being asked, has its turn in
\* this round, or makes the task sleep for another one.
NoneForgotten ==
    Running /\ Connected =>
        \A r \in Restored \ live :
            LET t == task[generation]
            IN  /\ t.pc # "off" /\ r \in t.keys
                /\ t.pc \in {"query", "wait"} => r = t.room \/ r \in t.todo \/ t.pending

\* The sender never goes back in its work on an item: whatever happens
\* around it, each of its own steps leads to a later place of the attempt, to
\* the next attempt, or to the end of the item.
Place == CASE sender = "idle" -> 1
           [] sender = "send" -> 2
           [] sender = "close" -> 3
           [] sender = "confirm" -> IF waiter = "expired" THEN 5 ELSE 4
           [] sender = "gap" -> 6
           [] OTHER -> 0
SenderAdvances ==
    [][active # None /\ active' = active =>
         \/ attempt' = attempt + 1
         \/ attempt' = attempt /\ Place' > Place
         \/ attempt' = attempt /\ Place' = Place /\ ~SenderStep]_vars

\* The sender transmits a command as Transmission says.  An attempt whose
\* time is up counts as lost at once, before the sender resumes.
TimeIsUp == sender = "confirm" /\ waiter = "expired"
InHand == active \in Commands /\ ~(TimeIsUp /\ attempt = RetryMax)
LineItem == IF InHand THEN active ELSE None
LineAttempt == IF ~InHand THEN 0
               ELSE IF TimeIsUp \/ sender = "gap" THEN attempt + 1 ELSE attempt
LineWaiter == IF InHand /\ ~TimeIsUp THEN waiter ELSE "none"
Line == INSTANCE Transmission WITH Calls <- Commands,
    item <- LineItem, attempt <- LineAttempt, waiter <- LineWaiter
Transmits == Line!Spec

\* The calls see no more than CommandPromise allows.
Promise == INSTANCE CommandPromise WITH
    Calls <- Commands, outcome <- [c \in Commands |-> fut[c]]
KeepsPromise == Promise!Spec

\* Every accepted call is answered, whether the wallpad answers or not,
\* connections fail or the gateway stops.
EveryCallAnswered ==
    \A c \in Commands :
        (fut[c] = "pending" /\ c \notin late) ~> (fut[c] # "pending")

\* async_stop returns.
StopEnds == (stop = "reader") ~> (stop = "stopped")

\* A thermostat known at start-up that stays silent is asked again and again
\* for as long as a session lasts.
AskedUntilHeard ==
    \A r \in Restored :
        []<>(\/ ~Connected \/ ~Running \/ r \in live
             \/ \E g \in Gens : /\ sender = "send" /\ active = g
                                /\ task[g].room = r)
=============================================================================
