--------------------------- MODULE GatewayProofs ---------------------------
(***************************************************************************)
(* Theorems about Gateway, for every set of devices and commands, every    *)
(* number of attempts and every bound on the generation.                   *)
(***************************************************************************)
EXTENDS Gateway, TLAPS

USE RoomsAssumption, CommandsAssumption, BoundsAssumption
    DEF Devices, Gens, Items

----------------------------------------------------------------------------
(* The generation stays within its bound: a session is opened only if the  *)
(* loss of it can be counted too.                                          *)
SessionInv ==
    /\ available => generation \in Gens /\ generation < MaxGen
    /\ conn # "down" => available
    /\ reader \in {"recv", "closing"} => available
    /\ reader \in {"opening", "retry"} => ~available

TypeInv == TypeOK /\ SessionInv /\ (sender = "gap" => attempt < RetryMax)

LEMMA SettleType ==
    ASSUME TypeOK, NEW S, NEW res \in {"true", "false", "cancelled"}
    PROVE  Settle(S, res) \in [Items -> {"none", "pending", "true", "false", "cancelled"}]
BY DEF Settle, TypeOK

LEMMA NewTaskType == ASSUME NEW rooms \in SUBSET Rooms PROVE NewTask(rooms) \in TaskType
BY DEF NewTask, TaskType

LEMMA OffType == Off \in TaskType
BY NewTaskType DEF Off

LEMMA InitTypeInv == Init => TypeInv
<1> SUFFICES ASSUME Init PROVE TypeInv
  OBVIOUS
<1>1. task \in [Gens -> TaskType]
  BY OffType, NewTaskType DEF Init
<1>2. generation \in 0 .. MaxGen /\ (available => generation \in Gens /\ generation < MaxGen)
  BY DEF Init
<1>3. fut \in [Items -> {"none"}] /\ asked \in [Rooms -> {0}]
  BY DEF Init
<1>4. queue \in Seq(Items)
  BY DEF Init
<1>5. TypeOK
  BY <1>1, <1>2, <1>3, <1>4 DEF Init, TypeOK
<1>6. SessionInv
  BY <1>2 DEF Init, SessionInv
<1>7. sender # "gap"
  BY DEF Init
<1>8. QED
  BY <1>5, <1>6, <1>7 DEF TypeInv

(* What both outcomes of _sync_connection_availability preserve.           *)
SyncTypes ==
    /\ generation' \in 0 .. MaxGen
    /\ live' \subseteq live
    /\ fut' \in [Items -> {"none", "pending", "true", "false", "cancelled"}]
    /\ task' \in [Gens -> TaskType]
    /\ asked' \in [Rooms -> 0 .. 2]

LEMMA SyncUpType ==
    ASSUME TypeOK, Sync(TRUE), ~available, generation + 1 < MaxGen
    PROVE  SyncTypes /\ available' = TRUE /\ generation' \in Gens /\ generation' < MaxGen
<1>1. generation + 1 \in Gens
  BY DEF TypeOK
<1>2. /\ task' = [task EXCEPT ![generation + 1] = NewTask(known)]
      /\ generation' = generation + 1 /\ available' = TRUE
      /\ asked' = [r \in Rooms |-> 0] /\ fut' = fut /\ live' = live
  BY DEF Sync
<1>3. task' \in [Gens -> TaskType]
  BY <1>1, <1>2, NewTaskType DEF TypeOK
<1>4. QED
  BY <1>1, <1>2, <1>3 DEF SyncTypes, TypeOK

LEMMA SyncDownType ==
    ASSUME TypeOK, Sync(FALSE), available, generation \in Gens, generation < MaxGen
    PROVE  SyncTypes /\ available' = FALSE
<1>1. /\ task' = [task EXCEPT ![generation] = Off]
      /\ generation' = generation + 1 /\ available' = FALSE
      /\ fut' = Settle({generation}, "cancelled")
      /\ live' = {} /\ asked' = asked
  BY DEF Sync, CancelBootstrap
<1>2. task' \in [Gens -> TaskType]
  BY <1>1, OffType DEF TypeOK
<1>3. QED
  BY <1>1, <1>2, SettleType DEF SyncTypes, TypeOK

LEMMA ProceedType ==
    ASSUME TypeOK, NEW g \in Gens, NEW t \in TaskType, Proceed(g, t)
    PROVE  /\ task' \in [Gens -> TaskType] /\ queue' \in Seq(Items)
           /\ fut' \in [Items -> {"none", "pending", "true", "false", "cancelled"}]
           /\ asked' \in [Rooms -> 0 .. 2]
<1> DEFINE open == t.todo \ live
<1>1. CASE \E r \in open :
             /\ task' = [task EXCEPT ![g] =
                  [t EXCEPT !.pc = "query", !.room = r, !.todo = RoomsAfter(r, open)]]
             /\ fut' = [fut EXCEPT ![g] = "pending"]
             /\ queue' = Append(queue, g)
             /\ asked' = [asked EXCEPT ![r] = IF @ = 0 THEN 1 ELSE 2]
  <2> PICK r \in open :
             /\ task' = [task EXCEPT ![g] =
                  [t EXCEPT !.pc = "query", !.room = r, !.todo = RoomsAfter(r, open)]]
             /\ fut' = [fut EXCEPT ![g] = "pending"]
             /\ queue' = Append(queue, g)
             /\ asked' = [asked EXCEPT ![r] = IF @ = 0 THEN 1 ELSE 2]
    BY <1>1
  <2>1. r \in Rooms /\ RoomsAfter(r, open) \in SUBSET Rooms
    BY DEF TaskType, RoomsAfter
  <2> DEFINE n == [t EXCEPT !.pc = "query", !.room = r, !.todo = RoomsAfter(r, open)]
  <2>2. n \in TaskType
    BY <2>1 DEF TaskType
  <2> HIDE DEF n
  <2>3. task' \in [Gens -> TaskType]
    BY <2>2 DEF TypeOK, n
  <2>4. asked' \in [Rooms -> 0 .. 2]
    BY <2>1 DEF TypeOK
  <2>5. queue' \in Seq(Items)
    BY DEF TypeOK
  <2>6. fut' \in [Items -> {"none", "pending", "true", "false", "cancelled"}]
    BY DEF TypeOK
  <2>7. QED
    BY <2>3, <2>4, <2>5, <2>6
<1>2. CASE /\ task' = [task EXCEPT ![g] =
                [t EXCEPT !.pc = "sleep", !.room = None, !.todo = {}, !.pending = FALSE]]
           /\ UNCHANGED <<fut, queue, asked>>
  <2> DEFINE n == [t EXCEPT !.pc = "sleep", !.room = None, !.todo = {}, !.pending = FALSE]
  <2>1. n \in TaskType
    BY DEF TaskType
  <2> HIDE DEF n
  <2>2. QED
    BY <1>2, <2>1 DEF TypeOK, n
<1>3. CASE task' = [task EXCEPT ![g] = Off] /\ UNCHANGED <<fut, queue, asked>>
  BY <1>3, OffType DEF TypeOK
<1>4. QED
  BY <1>1, <1>2, <1>3 DEF Proceed

LEMMA FinishType ==
    ASSUME TypeOK, NEW res \in {"true", "false"}, Finish(res)
    PROVE  /\ sender' = "get" /\ active' = None /\ attempt' = 0 /\ waiter' = "none"
           /\ fut' \in [Items -> {"none", "pending", "true", "false", "cancelled"}]
BY SettleType DEF Finish, Rest

LEMMA AttemptLostType ==
    ASSUME TypeOK, AttemptLost
    PROVE  /\ sender' \in {"get", "gap"} /\ active' \in Items \cup {None}
           /\ attempt' \in 0 .. RetryMax /\ waiter' = "none"
           /\ fut' \in [Items -> {"none", "pending", "true", "false", "cancelled"}]
           /\ sender' = "gap" => attempt' < RetryMax
<1>1. CASE /\ attempt < RetryMax /\ sender' = "gap" /\ waiter' = "none"
           /\ UNCHANGED <<active, attempt, fut>>
  BY <1>1 DEF TypeOK
<1>2. CASE Finish("false")
  BY <1>2, FinishType
<1>3. QED
  BY <1>1, <1>2 DEF AttemptLost

LEMMA ReaderTypeInv ==
    ASSUME TypeInv, ReaderStep \/ RecvFails \/ \E k \in Devices, v \in Values : Report(k, v)
    PROVE  TypeInv'
<1> USE DEF TypeInv
<1>1. CASE RecvOnClosed
  <2>1. Sync(FALSE) /\ available
    BY <1>1 DEF RecvOnClosed, LoopTop, SessionInv
  <2>2. SyncTypes /\ available' = FALSE
    BY <2>1, SyncDownType DEF SessionInv
  <2>3. QED
    BY <1>1, <2>2 DEF RecvOnClosed, LoopTop, SyncTypes, TypeOK, SessionInv, Connected, senderVars
<1>2. CASE ReaderCloses
  <2>1. Sync(FALSE) /\ available
    BY <1>2 DEF ReaderCloses, LoopTop, SessionInv
  <2>2. SyncTypes /\ available' = FALSE
    BY <2>1, SyncDownType DEF SessionInv
  <2>3. QED
    BY <1>2, <2>2 DEF ReaderCloses, LoopTop, SyncTypes, TypeOK, SessionInv, Connected, senderVars
<1>3. CASE OpenSucceeds
  <2>1. Sync(TRUE) /\ ~available
    BY <1>3 DEF OpenSucceeds, LoopTop, SessionInv
  <2>2. SyncTypes /\ available' = TRUE /\ generation' \in Gens /\ generation' < MaxGen
    BY <1>3, <2>1, SyncUpType DEF OpenSucceeds
  <2>3. QED
    BY <1>3, <2>2 DEF OpenSucceeds, LoopTop, SyncTypes, TypeOK, SessionInv, senderVars
<1>4. CASE OpenFails
  BY <1>4 DEF OpenFails, TypeOK, SessionInv, queueVars, senderVars, history
<1>5. CASE RetryOpen
  BY <1>5 DEF RetryOpen, TypeOK, SessionInv, queueVars, senderVars, history
<1>6. CASE ReaderIsCancelled
  BY <1>6 DEF ReaderIsCancelled, TypeOK, SessionInv, Connected, queueVars, senderVars, history
<1>7. CASE RecvFails
  BY <1>7 DEF RecvFails, TypeOK, SessionInv, Connected, queueVars, senderVars, history
<1>8. CASE \E k \in Devices, v \in Values : Report(k, v)
  <2> PICK k \in Devices, v \in Values : Report(k, v)
    BY <1>8
  <2>1. CASE Connected
    <3>1. waiter' \in {"none", "open", "hit", "expired", "refused"}
      BY <2>1 DEF Report, Notify, TypeOK
    <3>2. echoed' \subseteq Commands /\ live' \subseteq Devices
      BY <2>1 DEF Report, TypeOK
    <3>3. UNCHANGED <<conn, reader, available, generation, sender, attempt>>
      BY <2>1 DEF Report
    <3>4. SessionInv' /\ (sender' = "gap" => attempt' < RetryMax)
      BY <3>3 DEF SessionInv
    <3>5. TypeOK'
      BY <2>1, <3>1, <3>2 DEF Report, TypeOK
    <3>6. QED
      BY <3>4, <3>5
  <2>2. CASE ~Connected
    <3>1. Sync(FALSE) /\ available
      BY <2>2 DEF Report, LoopTop, SessionInv
    <3>2. SyncTypes /\ available' = FALSE
      BY <3>1, SyncDownType DEF SessionInv
    <3>3. /\ reader' \in {"opening"} /\ conn' = conn /\ conn = "down"
          /\ UNCHANGED <<queue, sender, active, attempt, waiter, echoed, stop, late>>
          /\ known' \subseteq Rooms /\ heard' = heard \cup {k}
      BY <2>2 DEF Report, LoopTop, Connected, TypeOK
    <3>4. SessionInv' /\ (sender' = "gap" => attempt' < RetryMax)
      BY <3>2, <3>3 DEF SessionInv
    <3>5. TypeOK'
      BY <3>2, <3>3 DEF TypeOK, SyncTypes
    <3>6. QED
      BY <3>4, <3>5
  <2>3. QED
    BY <2>1, <2>2
<1>9. QED
  BY <1>1, <1>2, <1>3, <1>4, <1>5, <1>6, <1>7, <1>8 DEF ReaderStep

LEMMA SenderTypeInv == ASSUME TypeInv, SenderStep PROVE TypeInv'
<1> USE DEF TypeInv
<1>1. CASE Take
  <2>1. Head(queue) \in Items /\ Tail(queue) \in Seq(Items)
    BY <1>1 DEF Take, TypeOK
  <2>2. \/ fut' = Settle({Head(queue)}, "false") /\ UNCHANGED senderVars
        \/ sender' = "idle" /\ active' = Head(queue) /\ attempt' = 1
           /\ UNCHANGED <<waiter, fut>>
    BY <1>1 DEF Take
  <2>3. fut' \in [Items -> {"none", "pending", "true", "false", "cancelled"}]
    BY <2>2, SettleType DEF TypeOK
  <2>4. QED
    BY <1>1, <2>1, <2>2, <2>3 DEF Take, TypeOK, SessionInv, connVars, senderVars, history
<1>2. CASE Transmit
  <2>1. CASE Finish("false")
    BY <1>2, <2>1, FinishType DEF Transmit, TypeOK, SessionInv, connVars, history
  <2>2. CASE AttemptLost
    BY <1>2, <2>2, AttemptLostType DEF Transmit, TypeOK, SessionInv, connVars, history
  <2>3. CASE /\ sender' = "send" /\ waiter' \in {"open", "none"}
             /\ UNCHANGED <<active, attempt, fut>>
    BY <1>2, <2>3 DEF Transmit, TypeOK, SessionInv, connVars, history
  <2>4. QED
    BY <1>2, <2>1, <2>2, <2>3 DEF Transmit
<1>3. CASE SendSucceeds
  <2>1. CASE Finish("true")
    BY <1>3, <2>1, FinishType DEF SendSucceeds, TypeOK, SessionInv, connVars, history
  <2>2. CASE sender' = "confirm" /\ UNCHANGED <<active, attempt, waiter, fut>>
    BY <1>3, <2>2 DEF SendSucceeds, TypeOK, SessionInv, connVars, history
  <2>3. QED
    BY <1>3, <2>1, <2>2 DEF SendSucceeds
<1>4. CASE SendFails
  BY <1>4 DEF SendFails, TypeOK, SessionInv, queueVars, history
<1>5. CASE SenderCloses
  BY <1>5, AttemptLostType DEF SenderCloses, TypeOK, SessionInv, history
<1>6. CASE ConfirmTimeout
  BY <1>6 DEF ConfirmTimeout, TypeOK, SessionInv, connVars, queueVars, history
<1>7. CASE Confirmed
  BY <1>7, FinishType DEF Confirmed, TypeOK, SessionInv, connVars, history
<1>8. CASE NotConfirmed
  BY <1>8, AttemptLostType DEF NotConfirmed, TypeOK, SessionInv, connVars, history
<1>9. CASE NextAttempt
  BY <1>9 DEF NextAttempt, TypeOK, SessionInv, connVars, queueVars, history
<1>10. CASE SenderIsCancelled
  BY <1>10, SettleType DEF SenderIsCancelled, TypeOK, SessionInv, Connected, history
<1>11. QED
  BY <1>1, <1>2, <1>3, <1>4, <1>5, <1>6, <1>7, <1>8, <1>9, <1>10 DEF SenderStep

LEMMA StartRoundType ==
    ASSUME NEW r \in TaskType
    PROVE  [r EXCEPT !.todo = r.keys, !.round = IF @ > RetryMax THEN @ ELSE @ + 1] \in TaskType
<1> DEFINE n == IF r.round > RetryMax THEN r.round ELSE r.round + 1
<1>1. r.round \in 0 .. RetryMax + 1
  BY DEF TaskType
<1>2. n \in 0 .. RetryMax + 1
  BY <1>1
<1>3. [r EXCEPT !.todo = r.keys, !.round = IF @ > RetryMax THEN @ ELSE @ + 1]
        = [r EXCEPT !.todo = r.keys, !.round = n]
  BY DEF TaskType
<1> HIDE DEF n
<1>4. [r EXCEPT !.todo = r.keys, !.round = n] \in TaskType
  BY <1>2 DEF TaskType
<1>5. QED
  BY <1>3, <1>4

LEMMA OtherTypeInv ==
    ASSUME TypeInv,
           \/ \E c \in Commands : Call(c) \/ CancelCall(c)
           \/ \E g \in Gens : BootstrapStep(g)
           \/ Stop \/ StopStep
    PROVE  TypeInv'
<1> USE DEF TypeInv
<1>1. CASE \E c \in Commands : Call(c)
  BY <1>1 DEF Call, TypeOK, SessionInv, connVars, senderVars
<1>2. CASE \E c \in Commands : CancelCall(c)
  BY <1>2 DEF CancelCall, TypeOK, SessionInv, connVars, senderVars, history
<1>3. CASE \E g \in Gens : BootstrapStep(g)
  <2> PICK g \in Gens : BootstrapStep(g)
    BY <1>3
  <2>1. task[g] \in TaskType
    BY DEF TypeOK
  <2>2. CASE StartRound(g)
    <3> DEFINE t == [task[g] EXCEPT !.todo = task[g].keys,
                       !.round = IF @ > RetryMax THEN @ ELSE @ + 1]
    <3>3. t \in TaskType
      BY <2>1, StartRoundType
    <3>4. /\ Proceed(g, t)
          /\ UNCHANGED <<connVars, senderVars, stop, heard, echoed, late>>
      BY <2>2 DEF StartRound
    <3> HIDE DEF t
    <3>5. /\ task' \in [Gens -> TaskType] /\ queue' \in Seq(Items)
          /\ fut' \in [Items -> {"none", "pending", "true", "false", "cancelled"}]
          /\ asked' \in [Rooms -> 0 .. 2]
      BY <3>3, <3>4, ProceedType
    <3>6. QED
      BY <3>4, <3>5 DEF TypeOK, SessionInv, connVars, senderVars
  <2>3. CASE QuerySettled(g) \/ WaitEnds(g)
    <3> DEFINE t == [task[g] EXCEPT !.pending = @ \/ task[g].room \notin live]
               w == [task[g] EXCEPT !.pc = "wait"]
    <3>1. t \in TaskType /\ w \in TaskType
      BY <2>1 DEF TaskType
    <3>2. CASE Proceed(g, t)
      <4> HIDE DEF t
      <4> QED
        BY <2>3, <3>1, <3>2, ProceedType
           DEF QuerySettled, WaitEnds, TypeOK, SessionInv, connVars, senderVars
    <3>3. CASE task' = [task EXCEPT ![g] = w] /\ UNCHANGED <<fut, queue, asked>>
      <4> HIDE DEF w
      <4> QED
        BY <2>3, <3>1, <3>3 DEF QuerySettled, WaitEnds, TypeOK, SessionInv, connVars, senderVars
    <3>4. QED
      BY <2>3, <3>2, <3>3 DEF QuerySettled, WaitEnds
  <2>4. QED
    BY <2>2, <2>3 DEF BootstrapStep
<1>4. CASE Stop
  BY <1>4 DEF Stop, TypeOK, SessionInv, connVars, queueVars, senderVars, history
<1>5. CASE StopBootstrap
  BY <1>5, OffType, SettleType DEF StopBootstrap, TypeOK, SessionInv, connVars, senderVars, history
<1>6. CASE StopSender
  BY <1>6 DEF StopSender, TypeOK, SessionInv, connVars, queueVars, senderVars, history
<1>7. CASE StopFlush
  BY <1>7, SettleType DEF StopFlush, TypeOK, SessionInv, history
<1>8. CASE StopCloses
  BY <1>8 DEF StopCloses, TypeOK, SessionInv, queueVars, senderVars, history
<1>9. QED
  BY <1>1, <1>2, <1>3, <1>4, <1>5, <1>6, <1>7, <1>8 DEF StopStep

LEMMA NextTypeInv == TypeInv /\ [Next]_vars => TypeInv'
<1> SUFFICES ASSUME TypeInv, [Next]_vars PROVE TypeInv'
  OBVIOUS
<1>1. CASE Next
  BY <1>1, ReaderTypeInv, SenderTypeInv, OtherTypeInv DEF Next
<1>2. CASE UNCHANGED vars
  BY <1>2 DEF TypeInv, TypeOK, SessionInv, vars, connVars, queueVars, senderVars, history
<1>3. QED
  BY <1>1, <1>2

\* Every variable keeps its type: no command is transmitted more than RetryMax
\* times and the generation never leaves its bound.
THEOREM TypeCorrect == Spec => []TypeOK
<1>1. Spec => []TypeInv
  BY InitTypeInv, NextTypeInv, PTL DEF Spec
<1>2. TypeInv => TypeOK
  BY DEF TypeInv
<1>3. QED
  BY <1>1, <1>2, PTL

----------------------------------------------------------------------------
(* Confirmed devices.  LiveIsFresh is not inductive: a new socket forgets  *)
(* what was heard, so nothing may be live when it is opened.               *)
FreshInv == LiveIsFresh /\ (~available => live = {})

LEMMA NextFreshInv == TypeInv /\ FreshInv /\ [Next]_vars => FreshInv'
<1> SUFFICES ASSUME TypeInv, FreshInv, [Next]_vars PROVE FreshInv'
  OBVIOUS
<1> USE DEF FreshInv, LiveIsFresh
<1>1. ASSUME Sync(FALSE), available PROVE live' = {} /\ available' = FALSE
  BY <1>1 DEF Sync
<1>2. CASE RecvOnClosed \/ ReaderCloses
  <2>1. available /\ Sync(FALSE)
    BY <1>2 DEF TypeInv, SessionInv, RecvOnClosed, ReaderCloses, LoopTop
  <2>2. QED
    BY <1>1, <2>1
<1>3. CASE OpenSucceeds
  <2>1. ~available /\ Sync(TRUE)
    BY <1>3 DEF TypeInv, SessionInv, OpenSucceeds, LoopTop
  <2>2. live' = live
    BY <2>1 DEF Sync
  <2>3. QED
    BY <2>1, <2>2 DEF Sync
<1>4. CASE \E k \in Devices, v \in Values : Report(k, v)
  <2> PICK k \in Devices, v \in Values : Report(k, v)
    BY <1>4
  <2>1. CASE Connected
    BY <2>1 DEF Report, Connected, TypeInv, SessionInv
  <2>2. CASE ~Connected
    BY <2>2, <1>1 DEF Report, LoopTop, TypeInv, SessionInv
  <2>3. QED
    BY <2>1, <2>2
<1>5. CASE UNCHANGED <<available, live, heard>>
  BY <1>5
<1>6. ASSUME \/ OpenFails \/ RetryOpen \/ ReaderIsCancelled \/ RecvFails
             \/ \E c \in Commands : Call(c) \/ CancelCall(c)
      PROVE  UNCHANGED <<available, live, heard>>
  BY <1>6 DEF OpenFails, RetryOpen, ReaderIsCancelled, RecvFails, Call, CancelCall,
              connVars, history
<1>7. ASSUME SenderStep PROVE UNCHANGED <<available, live, heard>>
  BY <1>7 DEF SenderStep, Take, Transmit, SendSucceeds, SendFails, SenderCloses,
              ConfirmTimeout, Confirmed, NotConfirmed, NextAttempt, SenderIsCancelled,
              connVars, history
<1>8. ASSUME \/ \E g \in Gens : BootstrapStep(g)
             \/ Stop \/ StopStep
             \/ UNCHANGED vars
      PROVE  UNCHANGED <<available, live, heard>>
  BY <1>8 DEF BootstrapStep, StartRound, QuerySettled, WaitEnds, Stop, StopStep,
              StopBootstrap, StopSender, StopFlush, StopCloses, connVars, history, vars
<1>9. QED
  BY <1>2, <1>3, <1>4, <1>5, <1>6, <1>7, <1>8 DEF Next, ReaderStep

\* A device counts as confirmed only if it reported over the socket that is open
\* now, however often and by whichever task the connection is lost.
THEOREM ConfirmedIsFresh == Spec => []LiveIsFresh
<1>1. Init => TypeInv /\ FreshInv
  BY InitTypeInv DEF Init, FreshInv, LiveIsFresh
<1>2. TypeInv /\ FreshInv /\ [Next]_vars => (TypeInv /\ FreshInv)'
  BY NextTypeInv, NextFreshInv
<1>3. TypeInv /\ FreshInv => LiveIsFresh
  BY DEF FreshInv
<1>4. QED
  BY <1>1, <1>2, <1>3, PTL DEF Spec

----------------------------------------------------------------------------
(* Status queries.  A query waits only while its task does, only the       *)
(* current session has a task, and none has once async_stop is past them.  *)
QueryInv ==
    /\ stop \notin {"running", "reader"} =>
           reader = "done" /\ \A g \in Gens : task[g].pc = "off"
    /\ \A g \in Gens : fut[g] = "pending" => task[g].pc = "query"
    /\ \A g \in Gens : task[g].pc # "off" => g = generation /\ available

NoNewQuery == \A g \in Gens : fut'[g] = "pending" => fut[g] = "pending"

LEMMA OffPc == Off.pc = "off" /\ \A rooms : NewTask(rooms).pc \in {"off", "start"}
BY DEF Off, NewTask

LEMMA SettleShrinks ==
    ASSUME TypeOK, NEW S, NEW res \in {"true", "false", "cancelled"}, fut' = Settle(S, res)
    PROVE  /\ \A i \in Items : fut'[i] = "pending" <=> fut[i] = "pending" /\ i \notin S
           /\ \A i \in Items : i \notin S => fut'[i] = fut[i]
BY DEF Settle, TypeOK

LEMMA SyncQueryInv ==
    ASSUME TypeInv, QueryInv, Running, NEW c \in BOOLEAN, Sync(c), available <=> ~c,
           c => generation + 1 < MaxGen, stop' = stop
    PROVE  QueryInv'
<1>1. CASE c
  <2>1. /\ task' = [task EXCEPT ![generation + 1] = NewTask(known)]
        /\ generation' = generation + 1 /\ available' = TRUE /\ fut' = fut
    BY <1>1 DEF Sync
  <2>2. generation + 1 \in Gens /\ ~available
    <3>1. generation \in 0 .. MaxGen /\ generation + 1 < MaxGen
      BY <1>1 DEF TypeInv, TypeOK
    <3>2. ~available
      BY <1>1
    <3>3. QED
      BY <3>1, <3>2
  <2>3. \A g \in Gens : task[g].pc = "off"
    BY <2>2 DEF QueryInv
  <2>4. \A g \in Gens : fut'[g] # "pending"
    BY <2>1, <2>3 DEF QueryInv
  <2>5. \A g \in Gens : g # generation + 1 => task'[g].pc = "off"
    BY <2>1, <2>3 DEF TypeInv, TypeOK
  <2>6. QED
    BY <2>1, <2>2, <2>4, <2>5 DEF QueryInv, Running
<1>2. CASE ~c
  <2>1. /\ task' = [task EXCEPT ![generation] = Off]
        /\ available' = FALSE /\ fut' = Settle({generation}, "cancelled")
    BY <1>2 DEF Sync, CancelBootstrap
  <2>2. generation \in Gens /\ available
    BY <1>2 DEF TypeInv, SessionInv
  <2>3. \A g \in Gens : task'[g].pc = "off"
    BY <2>1, <2>2, OffPc DEF QueryInv, TypeInv, TypeOK
  <2>4. \A g \in Gens : fut'[g] # "pending"
    <3> SUFFICES ASSUME NEW g \in Gens, fut'[g] = "pending" PROVE FALSE
      OBVIOUS
    <3>1. fut[g] = "pending" /\ g # generation
      BY <2>1, SettleShrinks DEF TypeInv
    <3>2. QED
      BY <3>1 DEF QueryInv
  <2>5. QED
    BY <2>3, <2>4 DEF QueryInv, Running
<1>3. QED
  BY <1>1, <1>2

LEMMA ProceedQueryInv ==
    ASSUME TypeInv, QueryInv, NEW g \in Gens, NEW t \in TaskType, Proceed(g, t),
           task[g].pc # "off", fut[g] = "pending" => task'[g].pc = "query",
           UNCHANGED <<connVars, stop>>
    PROVE  QueryInv'
<1>1. g = generation /\ available /\ stop \in {"running", "reader"}
  BY DEF QueryInv, TypeInv, TypeOK
<1>2. \A h \in Gens : h # g => task'[h] = task[h]
  BY DEF Proceed, TypeInv, TypeOK
<1>3. \A h \in Gens : h # g => fut'[h] = fut[h]
  BY DEF Proceed, TypeInv, TypeOK
<1>4. fut'[g] = "pending" => task'[g].pc = "query"
  <2>1. CASE \E r : task' = [task EXCEPT ![g] =
                  [t EXCEPT !.pc = "query", !.room = r, !.todo = RoomsAfter(r, t.todo \ live)]]
    <3> PICK r : task' = [task EXCEPT ![g] =
                  [t EXCEPT !.pc = "query", !.room = r, !.todo = RoomsAfter(r, t.todo \ live)]]
      BY <2>1
    <3>1. task'[g] = [t EXCEPT !.pc = "query", !.room = r, !.todo = RoomsAfter(r, t.todo \ live)]
      BY DEF TypeInv, TypeOK
    <3>2. QED
      BY <3>1 DEF TaskType
  <2>2. CASE UNCHANGED fut
    BY <2>2
  <2>3. QED
    BY <2>1, <2>2 DEF Proceed
<1>5. QED
  BY <1>1, <1>2, <1>3, <1>4 DEF QueryInv, connVars

LEMMA SenderNoNewQuery == ASSUME TypeInv, SenderStep PROVE NoNewQuery
<1> USE DEF NoNewQuery
<1>1. ASSUME NEW S, NEW res \in {"true", "false"}, fut' = Settle(S, res)
      PROVE  NoNewQuery
  BY <1>1, SettleShrinks DEF TypeInv
<1>2. CASE UNCHANGED fut
  BY <1>2
<1>3. ASSUME Finish("false") \/ Finish("true") \/ AttemptLost
      PROVE  NoNewQuery
  BY <1>1, <1>3 DEF Finish, AttemptLost
<1>4. QED
  BY <1>1, <1>2, <1>3
     DEF SenderStep, Take, Transmit, SendSucceeds, SendFails, SenderCloses, ConfirmTimeout,
         Confirmed, NotConfirmed, NextAttempt, SenderIsCancelled, queueVars

LEMMA NextQueryInv == TypeInv /\ QueryInv /\ [Next]_vars => QueryInv'
<1> SUFFICES ASSUME TypeInv, QueryInv, [Next]_vars PROVE QueryInv'
  OBVIOUS
<1>1. ASSUME NoNewQuery, UNCHANGED <<generation, available, task, stop>>,
             reader = "done" => reader' = "done"
      PROVE  QueryInv'
  BY <1>1 DEF NoNewQuery, QueryInv
<1>2. CASE RecvOnClosed \/ ReaderCloses
  BY <1>2, SyncQueryInv DEF TypeInv, SessionInv, RecvOnClosed, ReaderCloses, LoopTop
<1>3. CASE OpenSucceeds
  <2>1. /\ Sync(TRUE) /\ Running /\ ~available
        /\ generation + 1 < MaxGen /\ stop' = stop
    BY <1>3 DEF TypeInv, SessionInv, OpenSucceeds, LoopTop
  <2>2. QED
    BY <2>1, SyncQueryInv
<1>4. CASE OpenFails \/ RetryOpen \/ ReaderIsCancelled \/ RecvFails
  BY <1>4, <1>1 DEF NoNewQuery, OpenFails, RetryOpen, ReaderIsCancelled, RecvFails, queueVars
<1>5. CASE \E k \in Devices, v \in Values : Report(k, v)
  <2> PICK k \in Devices, v \in Values : Report(k, v)
    BY <1>5
  <2>1. CASE Connected
    BY <2>1, <1>1 DEF NoNewQuery, Report
  <2>2. CASE ~Connected
    BY <2>2, SyncQueryInv DEF Report, LoopTop, TypeInv, SessionInv
  <2>3. QED
    BY <2>1, <2>2
<1>6. CASE SenderStep
  <2>1. UNCHANGED <<generation, available, task, stop, reader>>
    BY <1>6 DEF SenderStep, Take, Transmit, SendSucceeds, SendFails, SenderCloses,
                ConfirmTimeout, Confirmed, NotConfirmed, NextAttempt, SenderIsCancelled, connVars
  <2>2. QED
    BY <1>6, <2>1, <1>1, SenderNoNewQuery
<1>7. CASE \E c \in Commands : Call(c) \/ CancelCall(c)
  <2> PICK c \in Commands : Call(c) \/ CancelCall(c)
    BY <1>7
  <2>1. \A g \in Gens : fut'[g] = fut[g]
    BY DEF Call, CancelCall, TypeInv, TypeOK
  <2>2. QED
    BY <2>1, <1>1 DEF NoNewQuery, Call, CancelCall, connVars
<1>8. CASE \E g \in Gens : BootstrapStep(g)
  <2> PICK g \in Gens : BootstrapStep(g)
    BY <1>8
  <2>0. task[g] \in TaskType
    BY DEF TypeInv, TypeOK
  <2>1. CASE StartRound(g)
    <3> DEFINE t == [task[g] EXCEPT !.todo = task[g].keys,
                       !.round = IF @ > RetryMax THEN @ ELSE @ + 1]
    <3>1. Proceed(g, t) /\ UNCHANGED <<connVars, stop>> /\ task[g].pc \in {"start", "sleep"}
      BY <2>1 DEF StartRound
    <3>2. t \in TaskType
      BY <2>0, StartRoundType
    <3> HIDE DEF t
    <3>3. QED
      BY <3>1, <3>2, ProceedQueryInv DEF QueryInv
  <2>2. CASE /\ QuerySettled(g) /\ fut[g] = "true"
    <3> DEFINE w == [task[g] EXCEPT !.pc = "wait"]
    <3>1. /\ task' = [task EXCEPT ![g] = w]
          /\ UNCHANGED <<fut, stop, reader, generation, available>>
          /\ task[g].pc = "query"
      BY <2>2 DEF QuerySettled, connVars
    <3>2. w.pc = "wait"
      BY <2>0 DEF TaskType
    <3> HIDE DEF w
    <3>3. QED
      BY <2>2, <3>1, <3>2 DEF QueryInv, TypeInv, TypeOK
  <2>3. CASE WaitEnds(g) \/ (QuerySettled(g) /\ fut[g] # "true")
    <3> DEFINE t == [task[g] EXCEPT !.pending = @ \/ task[g].room \notin live]
    <3>1. /\ Proceed(g, t) /\ UNCHANGED <<connVars, stop>>
          /\ task[g].pc # "off" /\ fut[g] # "pending"
      BY <2>3 DEF WaitEnds, QuerySettled, QueryInv
    <3>2. t \in TaskType
      BY <2>0 DEF TaskType
    <3> HIDE DEF t
    <3>3. QED
      BY <3>1, <3>2, ProceedQueryInv
  <2>4. QED
    BY <2>1, <2>2, <2>3 DEF BootstrapStep
<1>9. CASE Stop
  BY <1>9 DEF Stop, QueryInv, Running, connVars, queueVars
<1>10. CASE StopBootstrap
  <2>1. /\ task' = [g \in Gens |-> Off] /\ reader' = "done"
        /\ fut' = Settle({g \in Gens : task[g].pc = "query"}, "cancelled")
    BY <1>10 DEF StopBootstrap, connVars
  <2>2. \A g \in Gens : fut'[g] # "pending"
    <3> SUFFICES ASSUME NEW g \in Gens, fut'[g] = "pending" PROVE FALSE
      OBVIOUS
    <3>1. fut[g] = "pending" /\ task[g].pc # "query"
      BY <2>1, SettleShrinks DEF TypeInv
    <3>2. QED
      BY <3>1 DEF QueryInv
  <2>3. QED
    BY <2>1, <2>2, OffPc DEF QueryInv
<1>11. CASE StopSender \/ StopCloses
  BY <1>11 DEF StopSender, StopCloses, QueryInv, connVars, queueVars
<1>12. CASE StopFlush
  <2>1. NoNewQuery
    BY <1>12, SettleShrinks DEF StopFlush, NoNewQuery, TypeInv
  <2>2. QED
    BY <1>12, <2>1 DEF StopFlush, NoNewQuery, QueryInv
<1>13. CASE UNCHANGED vars
  BY <1>13, <1>1 DEF NoNewQuery, vars, connVars, queueVars
<1>14. QED
  BY <1>2, <1>3, <1>4, <1>5, <1>6, <1>7, <1>8, <1>9, <1>10, <1>11, <1>12, <1>13
     DEF Next, ReaderStep, StopStep

LEMMA InitQueryInv == Init => QueryInv
<1> SUFFICES ASSUME Init PROVE QueryInv
  OBVIOUS
<1>1. \A g \in Gens : task[g].pc # "off" => g = generation
  BY OffPc DEF Init
<1>2. generation \in Gens => available
  BY DEF Init
<1>3. \A g \in Gens : fut[g] = "none"
  BY DEF Init
<1>4. stop = "running"
  BY DEF Init
<1>5. QED
  BY <1>1, <1>2, <1>3, <1>4 DEF QueryInv

\* At most one status query waits, over all the sessions there have been: a
\* command never queues behind more than one.
THEOREM AtMostOneQueryAhead == Spec => []OneQueryAhead
<1>1. Init => TypeInv /\ QueryInv
  BY InitTypeInv, InitQueryInv
<1>2. TypeInv /\ QueryInv /\ [Next]_vars => (TypeInv /\ QueryInv)'
  BY NextTypeInv, NextQueryInv
<1>3. TypeInv /\ QueryInv => OneQueryAhead
  BY DEF QueryInv, OneQueryAhead
<1>4. QED
  BY <1>1, <1>2, <1>3, PTL DEF Spec

----------------------------------------------------------------------------
(* Commands.  What the sender holds: a waiter only for a command that was  *)
(* transmitted, settled only by a report of the state it asked for.        *)
SenderInv ==
    /\ active = None <=> sender \in {"get", "done"}
    /\ active \in Commands => fut[active] \in {"pending", "cancelled"}
    /\ sender = "confirm" => active \in Commands
    /\ sender \in {"get", "idle", "gap"} => waiter = "none"
    /\ waiter # "none" /\ sender # "done" => active \in Commands
    /\ waiter = "hit" /\ sender \in {"send", "confirm"} => active \in echoed
    /\ waiter # "refused"

LEMMA NoneIsNoItem == None \notin Items /\ None \notin Commands /\ None \notin Gens
OBVIOUS

LEMMA FinishSender ==
    ASSUME Rest PROVE SenderInv'
BY NoneIsNoItem DEF Rest, SenderInv

LEMMA AttemptLostSender ==
    ASSUME TypeInv, SenderInv, AttemptLost, active \in Items PROVE SenderInv'
<1>1. CASE Finish("false")
  BY <1>1, FinishSender DEF Finish
<1>2. CASE /\ active \in Commands /\ sender' = "gap" /\ waiter' = "none"
           /\ UNCHANGED <<active, attempt, fut>>
  BY <1>2, NoneIsNoItem DEF SenderInv
<1>3. QED
  BY <1>1, <1>2 DEF AttemptLost

LEMMA SenderSenderInv == ASSUME TypeInv, SenderInv, SenderStep PROVE SenderInv'
<1>0. sender \notin {"get", "done"} => active \in Items
  BY DEF SenderInv, TypeInv, TypeOK
<1>1. CASE Take
  <2>1. Head(queue) \in Items
    BY <1>1 DEF Take, TypeInv, TypeOK
  <2>2. CASE UNCHANGED senderVars
    BY <1>1, <2>2, NoneIsNoItem DEF Take, SenderInv, senderVars, history
  <2>3. CASE /\ sender' = "idle" /\ active' = Head(queue) /\ fut[Head(queue)] = "pending"
             /\ UNCHANGED <<waiter, fut>>
    BY <1>1, <2>1, <2>3, NoneIsNoItem DEF Take, SenderInv
  <2>4. QED
    BY <1>1, <2>2, <2>3 DEF Take
<1>2. CASE Transmit
  <2>1. CASE Finish("false")
    BY <2>1, FinishSender DEF Finish
  <2>2. CASE AttemptLost
    BY <1>0, <1>2, <2>2, AttemptLostSender DEF Transmit
  <2>3. CASE /\ sender' = "send"
             /\ waiter' = IF active \in Commands THEN "open" ELSE "none"
             /\ UNCHANGED <<active, attempt, fut>>
    BY <1>2, <2>3, NoneIsNoItem DEF Transmit, SenderInv
  <2>4. QED
    BY <1>2, <2>1, <2>2, <2>3 DEF Transmit
<1>3. CASE SendSucceeds
  <2>1. CASE Finish("true")
    BY <2>1, FinishSender DEF Finish
  <2>2. CASE active \in Commands
    BY <1>3, <2>2, NoneIsNoItem DEF SendSucceeds, SenderInv, history
  <2>3. QED
    BY <1>3, <2>1, <2>2 DEF SendSucceeds
<1>4. CASE SendFails
  BY <1>4 DEF SendFails, SenderInv, queueVars, history
<1>5. CASE SenderCloses
  BY <1>0, <1>5, AttemptLostSender DEF SenderCloses
<1>6. CASE ConfirmTimeout
  BY <1>6 DEF ConfirmTimeout, SenderInv, queueVars, history
<1>7. CASE Confirmed
  BY <1>7, FinishSender DEF Confirmed, Finish
<1>8. CASE NotConfirmed
  BY <1>0, <1>8, AttemptLostSender DEF NotConfirmed
<1>9. CASE NextAttempt
  BY <1>9 DEF NextAttempt, SenderInv, queueVars, history
<1>10. CASE SenderIsCancelled
  BY <1>10, NoneIsNoItem DEF SenderIsCancelled, SenderInv
<1>11. QED
  BY <1>1, <1>2, <1>3, <1>4, <1>5, <1>6, <1>7, <1>8, <1>9, <1>10 DEF SenderStep

LEMMA SyncCommands ==
    ASSUME TypeInv, NEW c \in BOOLEAN, Sync(c), ~c => generation \in Gens
    PROVE  \A d \in Commands : fut'[d] = fut[d]
<1>1. CASE UNCHANGED fut
  BY <1>1
<1>2. CASE ~c /\ fut' = Settle({generation}, "cancelled")
  BY <1>2, SettleShrinks DEF TypeInv
<1>3. QED
  BY <1>1, <1>2 DEF Sync, CancelBootstrap

LEMMA BootstrapCommands ==
    ASSUME TypeInv, NEW g \in Gens, BootstrapStep(g)
    PROVE  \A d \in Commands : fut'[d] = fut[d]
<1>1. ASSUME NEW t, Proceed(g, t) PROVE \A d \in Commands : fut'[d] = fut[d]
  <2>1. UNCHANGED fut \/ fut' = [fut EXCEPT ![g] = "pending"]
    BY <1>1 DEF Proceed
  <2>2. QED
    BY <2>1 DEF TypeInv, TypeOK
<1>2. QED
  BY <1>1 DEF BootstrapStep, StartRound, QuerySettled, WaitEnds

LEMMA NextSenderInv == TypeInv /\ QueryInv /\ SenderInv /\ [Next]_vars => SenderInv'
<1> SUFFICES ASSUME TypeInv, QueryInv, SenderInv, [Next]_vars PROVE SenderInv'
  OBVIOUS
<1>1. ASSUME \A d \in Commands : fut'[d] = fut[d], UNCHANGED <<senderVars, echoed>>
      PROVE  SenderInv'
  BY <1>1 DEF SenderInv, senderVars
<1>2. CASE RecvOnClosed \/ ReaderCloses
  <2>1. Sync(FALSE) /\ generation \in Gens /\ UNCHANGED <<senderVars, echoed>>
    BY <1>2 DEF RecvOnClosed, ReaderCloses, LoopTop, TypeInv, SessionInv
  <2>2. QED
    BY <1>1, <2>1, SyncCommands
<1>3. CASE OpenSucceeds
  <2>1. Sync(TRUE) /\ UNCHANGED <<senderVars, echoed>>
    BY <1>3 DEF OpenSucceeds, LoopTop
  <2>2. QED
    BY <1>1, <2>1, SyncCommands
<1>4. CASE OpenFails \/ RetryOpen \/ ReaderIsCancelled \/ RecvFails
  BY <1>4, <1>1 DEF OpenFails, RetryOpen, ReaderIsCancelled, RecvFails, queueVars, history
<1>5. CASE \E k \in Devices, v \in Values : Report(k, v)
  <2> PICK k \in Devices, v \in Values : Report(k, v)
    BY <1>5
  <2>1. CASE Connected
    <3>1. echoed \subseteq echoed' /\ UNCHANGED <<sender, active, fut>>
      BY <2>1 DEF Report
    <3>2. CASE UNCHANGED waiter
      BY <3>1, <3>2 DEF SenderInv
    <3>3. CASE /\ waiter = "open" /\ waiter' = "hit"
               /\ active \in Commands /\ KeyOf[active] = k /\ WantOf[active] = v
      <4>1. sender \in {"send", "confirm"} => active \in echoed'
        BY <2>1, <3>3 DEF Report
      <4>2. QED
        BY <3>1, <3>3, <4>1 DEF SenderInv
    <3>4. QED
      BY <2>1, <3>2, <3>3 DEF Report, Notify
  <2>2. CASE ~Connected
    <3>1. Sync(FALSE) /\ generation \in Gens /\ UNCHANGED <<senderVars, echoed>>
      BY <2>2 DEF Report, LoopTop, TypeInv, SessionInv, senderVars
    <3>2. QED
      BY <1>1, <3>1, SyncCommands
  <2>3. QED
    BY <2>1, <2>2
<1>6. CASE SenderStep
  BY <1>6, SenderSenderInv
<1>7. CASE \E c \in Commands : Call(c) \/ CancelCall(c)
  <2> PICK c \in Commands : Call(c) \/ CancelCall(c)
    BY <1>7
  <2>1. UNCHANGED <<senderVars, echoed>>
    BY DEF Call, CancelCall, history
  <2>2. CASE Call(c)
    BY <2>1, <2>2 DEF Call, SenderInv, senderVars, TypeInv, TypeOK
  <2>3. CASE CancelCall(c)
    BY <2>1, <2>3 DEF CancelCall, SenderInv, senderVars, TypeInv, TypeOK
  <2>4. QED
    BY <2>2, <2>3
<1>8. CASE \E g \in Gens : BootstrapStep(g)
  <2> PICK g \in Gens : BootstrapStep(g)
    BY <1>8
  <2>1. UNCHANGED <<senderVars, echoed>>
    BY DEF BootstrapStep, StartRound, QuerySettled, WaitEnds
  <2>2. QED
    BY <1>1, <2>1, BootstrapCommands
<1>9. CASE Stop \/ StopSender \/ StopCloses
  BY <1>9, <1>1 DEF Stop, StopSender, StopCloses, queueVars, history
<1>10. CASE StopBootstrap
  <2>1. \A d \in Commands : fut'[d] = fut[d]
    BY <1>10, SettleShrinks DEF StopBootstrap, TypeInv
  <2>2. QED
    BY <1>1, <1>10, <2>1 DEF StopBootstrap, history
<1>11. CASE StopFlush
  BY <1>11, NoneIsNoItem DEF StopFlush, SenderInv, history
<1>12. CASE UNCHANGED vars
  BY <1>12, <1>1 DEF vars, queueVars, history
<1>13. QED
  BY <1>2, <1>3, <1>4, <1>5, <1>6, <1>7, <1>8, <1>9, <1>10, <1>11, <1>12
     DEF Next, ReaderStep, StopStep

LEMMA InitSenderInv == Init => SenderInv
BY NoneIsNoItem DEF Init, SenderInv

----------------------------------------------------------------------------
(* Shutdown.  Every call that waits is in the queue or in the sender's     *)
(* hand, so flushing the queue after the sender has ended leaves none.     *)
FlushInv ==
    /\ \A i \in Items : fut[i] = "pending" => i \in Queued \cup {active}
    /\ stop \in {"closing", "stopped"} => sender = "done"
    /\ stop = "stopped" => conn = "down"
    /\ NoneLeftBehind

LEMMA AppendQueued ==
    ASSUME queue \in Seq(Items), NEW i \in Items, queue' = Append(queue, i)
    PROVE  Queued' = Queued \cup {i}
<1>1. /\ Len(queue') = Len(queue) + 1 /\ queue'[Len(queue) + 1] = i
      /\ \A n \in 1 .. Len(queue) : queue'[n] = queue[n]
  OBVIOUS
<1>2. /\ DOMAIN queue = 1 .. Len(queue) /\ DOMAIN queue' = 1 .. (Len(queue) + 1)
      /\ Len(queue) \in Nat
  BY <1>1
<1>3. QED
  BY <1>1, <1>2 DEF Queued

LEMMA TailQueued ==
    ASSUME queue \in Seq(Items), queue # <<>>, queue' = Tail(queue)
    PROVE  Queued \subseteq Queued' \cup {Head(queue)}
<1>1. /\ Len(queue) \in Nat \ {0} /\ Len(queue') = Len(queue) - 1
      /\ \A n \in 1 .. (Len(queue) - 1) : queue'[n] = queue[n + 1]
      /\ DOMAIN queue = 1 .. Len(queue) /\ DOMAIN queue' = 1 .. (Len(queue) - 1)
  OBVIOUS
<1> SUFFICES ASSUME NEW n \in 1 .. Len(queue), n # 1 PROVE queue[n] \in Queued'
  BY <1>1 DEF Queued
<1>2. n - 1 \in 1 .. (Len(queue) - 1) /\ queue'[n - 1] = queue[n]
  BY <1>1
<1>3. QED
  BY <1>1, <1>2 DEF Queued

\* No call starts to wait, and the ones that wait stay where they are.
LEMMA FlushUnchanged ==
    ASSUME TypeInv, FlushInv, stop' = stop, late' = late,
           stop = "stopped" => conn' = conn, sender = "done" => sender' = "done",
           \A i \in Items : fut'[i] = "pending" =>
               fut[i] = "pending" /\ i \in (Queued \cup {active})'
    PROVE  FlushInv'
BY DEF FlushInv, NoneLeftBehind

LEMMA SenderFlushInv == ASSUME TypeInv, SenderInv, FlushInv, SenderStep PROVE FlushInv'
<1>1. sender # "done" /\ stop \notin {"closing", "stopped"} /\ UNCHANGED <<stop, late>>
  BY DEF SenderStep, Take, Transmit, SendSucceeds, SendFails, SenderCloses, ConfirmTimeout,
         Confirmed, NotConfirmed, NextAttempt, SenderIsCancelled, FlushInv, history
<1>2. SUFFICES \A i \in Items : fut'[i] = "pending" => i \in (Queued \cup {active})'
  BY <1>1 DEF FlushInv, NoneLeftBehind
<1>3. SUFFICES ASSUME NEW i \in Items, fut'[i] = "pending" PROVE i \in (Queued \cup {active})'
  OBVIOUS
<1>4. CASE Take
  <2>1. Queued \subseteq Queued' \cup {Head(queue)}
    BY <1>4, TailQueued DEF Take, TypeInv, TypeOK
  <2>3. CASE fut' = Settle({Head(queue)}, "false") /\ UNCHANGED senderVars
    <3>1. fut[i] = "pending" /\ i # Head(queue)
      BY <1>3, <2>3, SettleShrinks DEF TypeInv
    <3>2. QED
      BY <2>1, <2>3, <3>1 DEF FlushInv, senderVars
  <2>4. CASE active' = Head(queue) /\ UNCHANGED fut /\ active = None
    BY <1>3, <2>1, <2>4, NoneIsNoItem DEF FlushInv
  <2>5. active = None
    BY <1>4 DEF Take, SenderInv
  <2>6. QED
    BY <1>4, <2>3, <2>4, <2>5 DEF Take
<1>5. CASE Transmit \/ SendSucceeds \/ SenderCloses \/ Confirmed \/ NotConfirmed
  <2>1. Queued' = Queued
    BY <1>5 DEF Transmit, SendSucceeds, SenderCloses, Confirmed, NotConfirmed, Queued
  <2>2. CASE UNCHANGED <<active, fut>>
    BY <1>3, <2>1, <2>2 DEF FlushInv
  <2>3. CASE Finish("false") \/ Finish("true")
    <3>1. fut[i] = "pending" /\ i # active
      BY <1>3, <2>3, SettleShrinks DEF TypeInv, Finish
    <3>2. QED
      BY <2>1, <3>1 DEF FlushInv
  <2>4. QED
    BY <1>5, <2>2, <2>3
       DEF Transmit, SendSucceeds, SenderCloses, Confirmed, NotConfirmed, AttemptLost
<1>6. CASE SendFails \/ ConfirmTimeout \/ NextAttempt
  BY <1>3, <1>6 DEF SendFails, ConfirmTimeout, NextAttempt, FlushInv, Queued, queueVars
<1>7. CASE SenderIsCancelled
  <2>1. fut[i] = "pending" /\ i \notin Queued \cup {active}
    BY <1>3, <1>7, SettleShrinks DEF SenderIsCancelled, TypeInv
  <2>2. QED
    BY <2>1 DEF FlushInv
<1>8. QED
  BY <1>4, <1>5, <1>6, <1>7 DEF SenderStep

LEMMA NextFlushInv ==
    TypeInv /\ QueryInv /\ SenderInv /\ FlushInv /\ [Next]_vars => FlushInv'
<1> SUFFICES ASSUME TypeInv, QueryInv, SenderInv, FlushInv, [Next]_vars PROVE FlushInv'
  OBVIOUS
<1>1. ASSUME \A i \in Items : fut'[i] = "pending" => fut[i] = "pending",
             UNCHANGED <<queue, sender, active, stop, late>>,
             stop = "stopped" => conn' = conn
      PROVE  FlushInv'
  BY <1>1, FlushUnchanged DEF FlushInv, Queued
<1>2. ASSUME NEW c \in BOOLEAN, Sync(c), ~c => generation \in Gens
      PROVE  \A i \in Items : fut'[i] = "pending" => fut[i] = "pending"
  <2>1. CASE UNCHANGED fut
    BY <2>1
  <2>2. CASE fut' = Settle({generation}, "cancelled")
    BY <2>2, SettleShrinks DEF TypeInv
  <2>3. QED
    BY <1>2, <2>1, <2>2 DEF Sync, CancelBootstrap
<1>3. CASE RecvOnClosed \/ ReaderCloses
  <2>1. /\ Sync(FALSE) /\ generation \in Gens /\ stop = "running"
        /\ UNCHANGED <<queue, sender, active, stop, late>>
    BY <1>3 DEF RecvOnClosed, ReaderCloses, LoopTop, TypeInv, SessionInv, Running, senderVars
  <2>2. QED
    BY <1>1, <1>2, <2>1
<1>4. CASE OpenSucceeds
  <2>1. /\ Sync(TRUE) /\ stop = "running"
        /\ UNCHANGED <<queue, sender, active, stop, late>>
    BY <1>4 DEF OpenSucceeds, LoopTop, Running, senderVars
  <2>2. QED
    BY <1>1, <1>2, <2>1
<1>5. CASE OpenFails \/ RetryOpen \/ RecvFails \/ ReaderIsCancelled
  BY <1>5, <1>1 DEF OpenFails, RetryOpen, RecvFails, ReaderIsCancelled, Running,
                    queueVars, senderVars, history
<1>6. CASE \E k \in Devices, v \in Values : Report(k, v)
  <2> PICK k \in Devices, v \in Values : Report(k, v)
    BY <1>6
  <2>1. UNCHANGED <<conn, queue, sender, active, stop, late>>
    BY DEF Report
  <2>2. CASE Connected
    BY <1>1, <2>1, <2>2 DEF Report
  <2>3. CASE ~Connected
    <3>1. Sync(FALSE) /\ generation \in Gens
      BY <2>3 DEF Report, LoopTop, TypeInv, SessionInv
    <3>2. QED
      BY <1>1, <1>2, <2>1, <3>1
  <2>4. QED
    BY <2>2, <2>3
<1>7. CASE SenderStep
  BY <1>7, SenderFlushInv
<1>8. CASE \E c \in Commands : Call(c)
  <2> PICK c \in Commands : Call(c)
    BY <1>8
  <2>1. Queued' = Queued \cup {c}
    BY AppendQueued DEF Call, TypeInv, TypeOK
  <2>2. \A i \in Items : i # c => fut'[i] = fut[i]
    BY DEF Call, TypeInv, TypeOK
  <2>3. stop # "stopped"
    BY DEF Call, Callable, Connected, FlushInv
  <2>4. /\ UNCHANGED <<conn, sender, active, stop>>
        /\ late' = IF stop = "closing" THEN late \cup {c} ELSE late
    BY DEF Call, connVars, senderVars
  <2>5. QED
    BY <2>1, <2>2, <2>3, <2>4 DEF FlushInv, NoneLeftBehind
<1>9. CASE \E c \in Commands : CancelCall(c)
  <2> PICK c \in Commands : CancelCall(c)
    BY <1>9
  <2>1. \A i \in Items : fut'[i] = "pending" => fut[i] = "pending"
    BY DEF CancelCall, TypeInv, TypeOK
  <2>2. QED
    BY <1>1, <2>1 DEF CancelCall, connVars, senderVars, history
<1>10. CASE \E g \in Gens : BootstrapStep(g)
  <2> PICK g \in Gens : BootstrapStep(g)
    BY <1>10
  <2>1. /\ stop \in {"running", "reader"}
        /\ UNCHANGED <<conn, sender, active, stop, late>>
    BY DEF BootstrapStep, StartRound, QuerySettled, WaitEnds, QueryInv, TypeInv, TypeOK,
           connVars, senderVars
  <2>2. UNCHANGED <<fut, queue>> \/ (fut' = [fut EXCEPT ![g] = "pending"] /\ queue' = Append(queue, g))
    BY DEF BootstrapStep, StartRound, QuerySettled, WaitEnds, Proceed
  <2>3. CASE UNCHANGED <<fut, queue>>
    BY <1>1, <2>1, <2>3
  <2>4. CASE fut' = [fut EXCEPT ![g] = "pending"] /\ queue' = Append(queue, g)
    <3>1. Queued' = Queued \cup {g}
      BY <2>4, AppendQueued DEF TypeInv, TypeOK
    <3>2. \A i \in Items : i # g => fut'[i] = fut[i]
      BY <2>4 DEF TypeInv, TypeOK
    <3>3. QED
      BY <2>1, <3>1, <3>2 DEF FlushInv, NoneLeftBehind
  <2>5. QED
    BY <2>2, <2>3, <2>4
<1>11. CASE Stop \/ StopSender
  BY <1>11 DEF Stop, StopSender, FlushInv, NoneLeftBehind, Running, Queued,
               connVars, queueVars, senderVars
<1>12. CASE StopBootstrap
  <2>1. \A i \in Items : fut'[i] = "pending" => fut[i] = "pending"
    BY <1>12, SettleShrinks DEF StopBootstrap, TypeInv
  <2>2. QED
    BY <1>12, <2>1 DEF StopBootstrap, FlushInv, NoneLeftBehind, Queued, connVars, senderVars
<1>13. CASE StopFlush
  <2>1. \A i \in Items : fut'[i] = "pending" => fut[i] = "pending" /\ i \notin Queued
    BY <1>13, SettleShrinks DEF StopFlush, TypeInv
  <2>2. active = None
    BY <1>13 DEF StopFlush, SenderInv
  <2>3. \A i \in Items : fut'[i] # "pending"
    BY <2>1, <2>2, NoneIsNoItem DEF FlushInv
  <2>4. QED
    BY <1>13, <2>3 DEF StopFlush, FlushInv, NoneLeftBehind
<1>14. CASE StopCloses
  BY <1>14 DEF StopCloses, FlushInv, NoneLeftBehind, Queued, queueVars, senderVars, history
<1>15. CASE UNCHANGED vars
  BY <1>15, <1>1 DEF vars, connVars, queueVars, senderVars, history
<1>16. QED
  BY <1>3, <1>4, <1>5, <1>6, <1>7, <1>8, <1>9, <1>10, <1>11, <1>12, <1>13, <1>14, <1>15
     DEF Next, ReaderStep, StopStep

IInv == TypeInv /\ QueryInv /\ SenderInv /\ FlushInv

LEMMA InitIInv == Init => IInv
<1> SUFFICES ASSUME Init PROVE IInv
  OBVIOUS
<1>1. FlushInv
  BY DEF Init, FlushInv, NoneLeftBehind
<1>2. QED
  BY <1>1, InitTypeInv, InitQueryInv, InitSenderInv DEF IInv

LEMMA NextIInv == IInv /\ [Next]_vars => IInv'
BY NextTypeInv, NextQueryInv, NextSenderInv, NextFlushInv DEF IInv

\* async_stop leaves no call waiting but those made after it flushed the queue.
THEOREM StopLeavesNoneBehind == Spec => []NoneLeftBehind
<1>1. IInv => NoneLeftBehind
  BY DEF IInv, FlushInv
<1>2. QED
  BY InitIInv, NextIInv, <1>1, PTL DEF Spec

----------------------------------------------------------------------------
(* The gateway implements CommandPromise.                                  *)

(* A step that gives S its "false", or leaves the calls alone.             *)
LEMMA FailStep ==
    ASSUME TypeInv, NEW S, fut' = Settle(S, "false"), UNCHANGED echoed
    PROVE  Promise!Next
<1>1. Promise!Fail(S \cap Commands)
  BY DEF Promise!Fail, Settle, Items
<1>2. S \cap Commands \in SUBSET Commands
  OBVIOUS
<1>3. QED
  BY <1>1, <1>2 DEF Promise!Next

LEMMA QuietStep ==
    ASSUME \A d \in Commands : fut'[d] = fut[d], UNCHANGED echoed
    PROVE  UNCHANGED Promise!vars
BY DEF Promise!vars

LEMMA FinishStep ==
    ASSUME TypeInv, SenderInv, Finish("true"), UNCHANGED echoed,
           active \in Commands => active \in echoed
    PROVE  [Promise!Next]_(Promise!vars)
<1>1. CASE active \in Commands /\ fut[active] = "pending"
  <2> PICK c \in Commands : c = active
    BY <1>1
  <2>1. [d \in Commands |-> fut[d]]' = [[d \in Commands |-> fut[d]] EXCEPT ![c] = "true"]
    BY <1>1 DEF Finish, Settle
  <2>2. Promise!Confirm(c)
    BY <1>1, <2>1 DEF Promise!Confirm
  <2>3. QED
    BY <2>2 DEF Promise!Next
<1>2. CASE ~(active \in Commands /\ fut[active] = "pending")
  <2>1. \A d \in Commands : fut'[d] = fut[d]
    BY <1>2 DEF Finish, Settle
  <2>2. QED
    BY <2>1, QuietStep
<1>3. QED
  BY <1>1, <1>2

LEMMA SenderPromise ==
    ASSUME TypeInv, SenderInv, SenderStep PROVE [Promise!Next]_(Promise!vars)
<1>1. UNCHANGED echoed
  BY DEF SenderStep, Take, Transmit, SendSucceeds, SendFails, SenderCloses, ConfirmTimeout,
         Confirmed, NotConfirmed, NextAttempt, SenderIsCancelled, history
<1>2. CASE UNCHANGED fut
  BY <1>1, <1>2, QuietStep
<1>3. ASSUME NEW S, fut' = Settle(S, "false") PROVE Promise!Next
  BY <1>1, <1>3, FailStep
<1>4. CASE Finish("false") \/ AttemptLost
  BY <1>2, <1>3, <1>4 DEF Finish, AttemptLost
<1>5. CASE SendSucceeds /\ Finish("true")
  <2>1. active \notin Commands
    BY <1>5 DEF SendSucceeds, Finish, Rest
  <2>2. QED
    BY <1>1, <1>5, <2>1, FinishStep
<1>6. CASE Confirmed
  <2>1. active \in Commands /\ active \in echoed
    BY <1>6 DEF Confirmed, SenderInv
  <2>2. QED
    BY <1>1, <1>6, <2>1, FinishStep DEF Confirmed
<1>7. QED
  BY <1>2, <1>3, <1>4, <1>5, <1>6
     DEF SenderStep, Take, Transmit, SendSucceeds, SendFails, SenderCloses, ConfirmTimeout,
         NotConfirmed, NextAttempt, SenderIsCancelled, queueVars

LEMMA NextPromise == IInv /\ [Next]_vars => [Promise!Next]_(Promise!vars)
<1> SUFFICES ASSUME IInv, [Next]_vars PROVE [Promise!Next]_(Promise!vars)
  OBVIOUS
<1> USE DEF IInv
<1>1. CASE RecvOnClosed \/ ReaderCloses
  <2>1. Sync(FALSE) /\ generation \in Gens /\ UNCHANGED echoed
    BY <1>1 DEF RecvOnClosed, ReaderCloses, LoopTop, TypeInv, SessionInv
  <2>2. QED
    BY <2>1, SyncCommands, QuietStep
<1>2. CASE OpenSucceeds
  <2>1. Sync(TRUE) /\ UNCHANGED echoed
    BY <1>2 DEF OpenSucceeds, LoopTop
  <2>2. QED
    BY <2>1, SyncCommands, QuietStep
<1>3. CASE OpenFails \/ RetryOpen \/ RecvFails \/ ReaderIsCancelled
  BY <1>3, QuietStep DEF OpenFails, RetryOpen, RecvFails, ReaderIsCancelled, queueVars, history
<1>4. CASE \E k \in Devices, v \in Values : Report(k, v)
  <2> PICK k \in Devices, v \in Values : Report(k, v)
    BY <1>4
  <2>1. CASE ~Connected
    <3>1. Sync(FALSE) /\ generation \in Gens /\ UNCHANGED echoed
      BY <2>1 DEF Report, LoopTop, TypeInv, SessionInv
    <3>2. QED
      BY <3>1, SyncCommands, QuietStep
  <2>2. CASE Connected /\ active \in Commands /\ echoed' = echoed \cup {active}
    <3>1. fut[active] \in {"pending", "cancelled"} /\ UNCHANGED fut
      BY <2>2 DEF SenderInv, Report
    <3>2. Promise!Echo(active)
      BY <2>2, <3>1 DEF Promise!Echo
    <3>3. QED
      BY <2>2, <3>2 DEF Promise!Next
  <2>3. CASE Connected /\ UNCHANGED echoed
    BY <2>3, QuietStep DEF Report
  <2>4. Connected => \/ UNCHANGED echoed
                     \/ active \in Commands /\ echoed' = echoed \cup {active}
    <3> DEFINE hit == {c \in Commands : /\ c = active /\ sender \in {"send", "confirm"}
                                        /\ KeyOf[c] = k /\ WantOf[c] = v}
    <3>1. hit = {} \/ (active \in Commands /\ hit = {active})
      OBVIOUS
    <3>2. Connected => echoed' = echoed \cup hit
      BY DEF Report
    <3> HIDE DEF hit
    <3>3. QED
      BY <3>1, <3>2
  <2>5. QED
    BY <2>1, <2>2, <2>3, <2>4
<1>5. CASE SenderStep
  BY <1>5, SenderPromise
<1>6. CASE \E c \in Commands : Call(c)
  <2> PICK c \in Commands : Call(c)
    BY <1>6
  <2>1. [d \in Commands |-> fut[d]]' = [[d \in Commands |-> fut[d]] EXCEPT ![c] = "pending"]
    BY DEF Call, TypeInv, TypeOK
  <2>2. Promise!Accept(c)
    BY <2>1 DEF Promise!Accept, Call
  <2>3. QED
    BY <2>2 DEF Promise!Next
<1>7. CASE \E c \in Commands : CancelCall(c)
  <2> PICK c \in Commands : CancelCall(c)
    BY <1>7
  <2>1. [d \in Commands |-> fut[d]]' = [[d \in Commands |-> fut[d]] EXCEPT ![c] = "cancelled"]
    BY DEF CancelCall, TypeInv, TypeOK
  <2>2. Promise!Cancel(c)
    BY <2>1 DEF Promise!Cancel, CancelCall, history
  <2>3. QED
    BY <2>2 DEF Promise!Next
<1>8. CASE \E g \in Gens : BootstrapStep(g)
  <2> PICK g \in Gens : BootstrapStep(g)
    BY <1>8
  <2>1. UNCHANGED echoed
    BY DEF BootstrapStep, StartRound, QuerySettled, WaitEnds
  <2>2. QED
    BY <2>1, BootstrapCommands, QuietStep
<1>9. CASE Stop \/ StopSender \/ StopCloses
  BY <1>9, QuietStep DEF Stop, StopSender, StopCloses, queueVars, history
<1>10. CASE StopBootstrap
  <2>1. \A d \in Commands : fut'[d] = fut[d]
    BY <1>10, SettleShrinks DEF StopBootstrap, TypeInv
  <2>2. QED
    BY <1>10, <2>1, QuietStep DEF StopBootstrap, history
<1>11. CASE StopFlush
  BY <1>11, FailStep DEF StopFlush, history
<1>12. CASE UNCHANGED vars
  BY <1>12, QuietStep DEF vars, queueVars, history
<1>13. QED
  BY <1>1, <1>2, <1>3, <1>4, <1>5, <1>6, <1>7, <1>8, <1>9, <1>10, <1>11, <1>12
     DEF Next, ReaderStep, StopStep

\* A service call gets at most one answer, it never changes, and it is "true"
\* only if the state asked for was reported live after the transmission.
THEOREM GatewayKeepsPromise == Spec => KeepsPromise
<1>1. Init => Promise!Init
  BY DEF Init, Promise!Init
<1>2. QED
  BY InitIInv, NextIInv, <1>1, NextPromise, PTL DEF Spec, KeepsPromise, Promise!Spec

----------------------------------------------------------------------------
(* While connected, what was heard is what is live: the converse of        *)
(* LiveIsFresh.                                                            *)
HeardInv == Connected => heard \subseteq live

LEMMA NextHeardInv == TypeInv /\ FreshInv /\ HeardInv /\ [Next]_vars => HeardInv'
<1> SUFFICES ASSUME TypeInv, FreshInv, HeardInv, [Next]_vars PROVE HeardInv'
  OBVIOUS
<1> USE DEF HeardInv, Connected
<1>1. CASE RecvOnClosed \/ ReaderCloses
  BY <1>1 DEF RecvOnClosed, ReaderCloses
<1>2. CASE OpenSucceeds
  BY <1>2 DEF OpenSucceeds
<1>3. CASE \E k \in Devices, v \in Values : Report(k, v)
  BY <1>3 DEF Report
<1>4. CASE UNCHANGED <<live, heard>> /\ (conn = "down" => conn' = "down")
  BY <1>4
<1>5. ASSUME SenderStep PROVE UNCHANGED <<live, heard>> /\ (conn = "down" => conn' = "down")
  BY <1>5 DEF SenderStep, Take, Transmit, SendSucceeds, SendFails, SenderCloses,
              ConfirmTimeout, Confirmed, NotConfirmed, NextAttempt, SenderIsCancelled,
              connVars, history
<1>6. ASSUME \/ OpenFails \/ RetryOpen \/ ReaderIsCancelled \/ RecvFails
             \/ \E c \in Commands : Call(c) \/ CancelCall(c)
      PROVE  UNCHANGED <<live, heard>> /\ (conn = "down" => conn' = "down")
  BY <1>6 DEF OpenFails, RetryOpen, ReaderIsCancelled, RecvFails, Call, CancelCall,
              connVars, history
<1>7. ASSUME \/ \E g \in Gens : BootstrapStep(g)
             \/ Stop \/ StopStep
             \/ UNCHANGED vars
      PROVE  UNCHANGED <<live, heard>> /\ (conn = "down" => conn' = "down")
  BY <1>7 DEF BootstrapStep, StartRound, QuerySettled, WaitEnds, Stop, StopStep,
              StopBootstrap, StopSender, StopFlush, StopCloses, connVars, history, vars
<1>8. QED
  BY <1>1, <1>2, <1>3, <1>4, <1>5, <1>6, <1>7 DEF Next, ReaderStep

\* No status query is transmitted to a room that has reported over this socket.
THEOREM HeardRoomsAreNotAsked == Spec => NoQueryAfterReport
<1> DEFINE A == sender # "send" /\ sender' = "send" /\ active \in Gens
                  => task[active].room \notin heard /\ Connected
<1>1. Init => TypeInv /\ FreshInv /\ HeardInv
  BY InitTypeInv DEF Init, FreshInv, LiveIsFresh, HeardInv
<1>2. TypeInv /\ FreshInv /\ HeardInv /\ [Next]_vars => (TypeInv /\ FreshInv /\ HeardInv)'
  BY NextTypeInv, NextFreshInv, NextHeardInv
<1>3. HeardInv /\ [Next]_vars => [A]_vars
  <2> SUFFICES ASSUME HeardInv, Next, sender # "send", sender' = "send", active \in Gens
               PROVE  task[active].room \notin heard /\ Connected
    OBVIOUS
  <2>1. Transmit
    BY DEF Next, ReaderStep, SenderStep, BootstrapStep, StopStep, Report, LoopTop, RecvFails,
           RecvOnClosed, ReaderCloses, OpenSucceeds, OpenFails, RetryOpen, ReaderIsCancelled,
           Call, CancelCall, Take, SendSucceeds, SendFails, SenderCloses, ConfirmTimeout,
           Confirmed, NotConfirmed, NextAttempt, SenderIsCancelled, AttemptLost, Finish, Rest,
           StartRound, QuerySettled, WaitEnds, Stop, StopBootstrap, StopSender, StopFlush,
           StopCloses, senderVars
  <2>2. IsCurrentQuery(active)
    BY <2>1 DEF Transmit, Finish, Rest
  <2>3. QED
    BY <2>2 DEF IsCurrentQuery, IsSession, HeardInv
<1>4. QED
  BY <1>1, <1>2, <1>3, PTL DEF Spec, NoQueryAfterReport

----------------------------------------------------------------------------
(* The rounds of the bootstrap task.  In its first round a room is asked   *)
(* once, unless it has reported; what the round has still to ask was not   *)
(* asked yet.  From then on every room was asked or has reported.          *)
AllAsked(t) == \A s \in t.keys : asked[s] > 0 \/ s \in live

RoundInv(t) ==
    /\ t.round > 0
    /\ t.round = 1 => /\ \A r \in Rooms : asked[r] \in {0, 1}
                      /\ \A r \in t.todo : asked[r] = 0
                      /\ \A s \in t.keys : asked[s] > 0 \/ s \in t.todo \/ s \in live
    /\ t.round # 1 => AllAsked(t)

TaskInv(t) ==
    /\ t.pc = "off" => t.keys = {}
    /\ t.pc = "start" => t.round = 0 /\ \A r \in Rooms : asked[r] = 0
    /\ t.pc \in {"query", "wait"} => RoundInv(t)
    /\ t.pc = "sleep" => t.round > 0 /\ AllAsked(t)

FirstInv == \A g \in Gens : TaskInv(task[g])

LEMMA OffTask == Off.pc = "off" /\ Off.keys = {}
BY DEF Off, NewTask

\* A change of the live keys that removes none, and a loss of the session,
\* keep what the tasks rest on.
LEMMA TasksKept ==
    ASSUME FirstInv, UNCHANGED <<task, asked>>, live \subseteq live'
    PROVE  FirstInv'
BY DEF FirstInv, TaskInv, RoundInv, AllAsked

LEMMA SyncDownFirst ==
    ASSUME TypeInv, QueryInv, FirstInv, available, Sync(FALSE)
    PROVE  FirstInv'
<1>1. task' = [task EXCEPT ![generation] = Off] /\ generation \in Gens
  BY DEF Sync, CancelBootstrap, TypeInv, SessionInv
<1>2. \A g \in Gens : task'[g].pc = "off" /\ task'[g].keys = {}
  BY <1>1, OffTask DEF QueryInv, FirstInv, TaskInv, TypeInv, TypeOK
<1>. QED
  BY <1>2 DEF FirstInv, TaskInv

LEMMA SyncUpFirst ==
    ASSUME TypeInv, QueryInv, FirstInv, ~available, Sync(TRUE), generation + 1 < MaxGen
    PROVE  FirstInv'
<1>1. /\ task' = [task EXCEPT ![generation + 1] = NewTask(known)]
      /\ asked' = [r \in Rooms |-> 0] /\ generation + 1 \in Gens
  BY DEF Sync, TypeInv, TypeOK
<1>2. \A g \in Gens : g # generation + 1 => task'[g].pc = "off" /\ task'[g].keys = {}
  BY <1>1 DEF QueryInv, FirstInv, TaskInv, TypeInv, TypeOK
<1>3. LET n == NewTask(known)
      IN  n.pc \in {"off", "start"} /\ n.round = 0 /\ (n.pc = "off" => n.keys = {})
  BY DEF NewTask
<1>4. task'[generation + 1] = NewTask(known)
  BY <1>1 DEF TypeInv, TypeOK
<1>5. ASSUME NEW g \in Gens
      PROVE  TaskInv(task[g])'
  <2>1. CASE g = generation + 1
    <3>1. task'[g].pc \in {"off", "start"} /\ task'[g].round = 0
      BY <1>3, <1>4, <2>1
    <3>2. task'[g].pc = "off" => task'[g].keys = {}
      BY <1>3, <1>4, <2>1
    <3>3. \A r \in Rooms : asked'[r] = 0
      BY <1>1
    <3>. QED
      BY <3>1, <3>2, <3>3 DEF TaskInv
  <2>2. CASE g # generation + 1
    BY <1>2, <2>2 DEF TaskInv
  <2>. QED
    BY <2>1, <2>2
<1>. QED
  BY <1>5 DEF FirstInv

\* One turn of _async_bootstrap_round.
LEMMA ProceedFirst ==
    ASSUME TypeInv, QueryInv, FirstInv, NEW g \in Gens, NEW t \in TaskType, Proceed(g, t),
           task[g].pc # "off", RoundInv(t), UNCHANGED connVars
    PROVE  FirstInv'
<1>. DEFINE open == t.todo \ live
<1>1. live' = live
  BY DEF connVars
<1>2. \A h \in Gens : h # g => task'[h].pc = "off" /\ task'[h].keys = {}
  BY DEF Proceed, QueryInv, FirstInv, TaskInv, TypeInv, TypeOK
<1>3. asked \in [Rooms -> 0 .. 2] /\ t.todo \subseteq Rooms /\ t.keys \subseteq Rooms
      /\ t.round \in Nat
  BY DEF TypeInv, TypeOK, TaskType
<1>4. TaskInv(task[g])'
  <2>1. ASSUME NEW r \in open, \A q \in open : r <= q,
               task' = [task EXCEPT ![g] =
                 [t EXCEPT !.pc = "query", !.room = r, !.todo = RoomsAfter(r, open)]],
               asked' = [asked EXCEPT ![r] = IF @ = 0 THEN 1 ELSE 2]
        PROVE  TaskInv(task[g])'
    <3>. DEFINE n == [t EXCEPT !.pc = "query", !.room = r, !.todo = RoomsAfter(r, open)]
    <3>1. /\ n.pc = "query" /\ n.keys = t.keys /\ n.round = t.round
          /\ n.todo = {q \in open : q > r}
      BY DEF TaskType, RoomsAfter
    <3>. HIDE DEF n
    <3>2. task'[g] = n
      BY <2>1 DEF TypeInv, TypeOK, n
    <3>3. r \in Rooms /\ r \in t.todo /\ asked'[r] \in {1, 2}
          /\ \A q \in Rooms : q # r => asked'[q] = asked[q]
      BY <1>3, <2>1
    <3>4. ASSUME NEW s \in t.keys, asked[s] > 0
          PROVE  asked'[s] > 0
      <4>1. CASE s = r
        BY <3>3, <4>1
      <4>2. CASE s # r
        BY <1>3, <3>3, <3>4, <4>2
      <4>. QED
        BY <4>1, <4>2
    <3>5. ASSUME n.round = 1
          PROVE  /\ \A q \in Rooms : asked'[q] \in {0, 1}
                 /\ \A q \in n.todo : asked'[q] = 0
                 /\ \A s \in n.keys : asked'[s] > 0 \/ s \in n.todo \/ s \in live'
      <4>1. /\ \A q \in Rooms : asked[q] \in {0, 1}
            /\ \A q \in t.todo : asked[q] = 0
            /\ \A s \in t.keys : asked[s] > 0 \/ s \in t.todo \/ s \in live
        BY <3>1, <3>5 DEF RoundInv
      <4>2. asked'[r] = 1
        BY <1>3, <2>1, <3>3, <4>1
      <4>3. ASSUME NEW q \in n.todo
            PROVE  q # r /\ q \in t.todo /\ q \in Rooms
        <5>1. q \in open /\ q > r
          BY <3>1
        <5>2. q \in t.todo /\ q \in Nat /\ r \in Nat
          BY <1>3, <3>3, <5>1
        <5>. QED
          BY <1>3, <5>1, <5>2
      <4>4. ASSUME NEW s \in t.keys
            PROVE  asked'[s] > 0 \/ s \in n.todo \/ s \in live
        <5>1. CASE s \in open /\ s # r
          <6>1. s \in Nat /\ r \in Nat /\ r <= s
            BY <1>3, <2>1, <3>3, <5>1
          <6>. QED
            BY <3>1, <5>1, <6>1
        <5>2. CASE s = r
          BY <4>2, <5>2
        <5>3. CASE s \notin open
          BY <3>4, <4>1, <5>3
        <5>. QED
          BY <5>1, <5>2, <5>3
      <4>. QED
        BY <1>1, <1>3, <3>1, <3>3, <4>1, <4>2, <4>3, <4>4
    <3>6. ASSUME n.round # 1
          PROVE  \A s \in n.keys : asked'[s] > 0 \/ s \in live'
      BY <1>1, <3>1, <3>4, <3>6 DEF RoundInv, AllAsked
    <3>7. n.round > 0
      BY <3>1 DEF RoundInv
    <3>. QED
      BY <3>1, <3>2, <3>5, <3>6, <3>7 DEF TaskInv, RoundInv, AllAsked
  <2>2. ASSUME open = {},
               task' = [task EXCEPT ![g] =
                 [t EXCEPT !.pc = "sleep", !.room = None, !.todo = {}, !.pending = FALSE]],
               asked' = asked
        PROVE  TaskInv(task[g])'
    <3>. DEFINE n == [t EXCEPT !.pc = "sleep", !.room = None, !.todo = {}, !.pending = FALSE]
    <3>1. n.pc = "sleep" /\ n.keys = t.keys /\ n.round = t.round
      BY DEF TaskType
    <3>. HIDE DEF n
    <3>2. task'[g] = n
      BY <2>2 DEF TypeInv, TypeOK, n
    <3>3. t.round > 0 /\ AllAsked(t)
      BY <2>2 DEF RoundInv, AllAsked
    <3>. QED
      BY <1>1, <2>2, <3>1, <3>2, <3>3 DEF TaskInv, AllAsked
  <2>3. ASSUME task' = [task EXCEPT ![g] = Off]
        PROVE  TaskInv(task[g])'
    <3>1. task'[g] = Off
      BY <2>3 DEF TypeInv, TypeOK
    <3>. QED
      BY <3>1, OffTask DEF TaskInv
  <2>. QED
    BY <2>1, <2>2, <2>3 DEF Proceed
<1>5. ASSUME NEW h \in Gens
      PROVE  TaskInv(task[h])'
  <2>1. CASE h # g
    BY <1>2, <2>1 DEF TaskInv
  <2>. QED
    BY <1>4, <2>1
<1>. QED
  BY <1>5 DEF FirstInv

LEMMA BootstrapFirst ==
    ASSUME TypeInv, QueryInv, FirstInv, NEW g \in Gens, BootstrapStep(g)
    PROVE  FirstInv'
<1>0. task[g] \in TaskType /\ TaskInv(task[g])
  BY DEF TypeInv, TypeOK, FirstInv
<1>1. CASE StartRound(g)
  <2>. DEFINE t == [task[g] EXCEPT !.todo = task[g].keys,
                     !.round = IF @ > RetryMax THEN @ ELSE @ + 1]
  <2>1. Proceed(g, t) /\ UNCHANGED connVars /\ task[g].pc \in {"start", "sleep"}
    BY <1>1 DEF StartRound
  <2>2. t \in TaskType
    BY <1>0, StartRoundType
  <2>3. /\ t.todo = task[g].keys /\ t.keys = task[g].keys
        /\ t.round = IF task[g].round > RetryMax THEN task[g].round ELSE task[g].round + 1
    BY <1>0 DEF TaskType
  <2>. HIDE DEF t
  <2>4. task[g].round \in Nat /\ task[g].keys \subseteq Rooms
    BY <1>0 DEF TaskType
  <2>5. CASE task[g].pc = "start"
    <3>1. task[g].round = 0 /\ \A r \in Rooms : asked[r] = 0
      BY <1>0, <2>5 DEF TaskInv
    <3>2. t.round = 1
      BY <2>3, <3>1
    <3>3. /\ \A r \in Rooms : asked[r] \in {0, 1}
          /\ \A r \in t.todo : asked[r] = 0
          /\ \A s \in t.keys : s \in t.todo
      BY <2>3, <2>4, <3>1
    <3>4. RoundInv(t)
      BY <3>2, <3>3 DEF RoundInv
    <3>. QED
      BY <2>1, <2>2, <3>4, ProceedFirst
  <2>6. CASE task[g].pc = "sleep"
    <3>1. task[g].round > 0 /\ AllAsked(task[g])
      BY <1>0, <2>6 DEF TaskInv
    <3>3. AllAsked(t)
      BY <2>3, <3>1 DEF AllAsked
    <3>4. t.round > 0 /\ t.round # 1
      BY <2>3, <2>4, <3>1
    <3>5. RoundInv(t)
      BY <3>3, <3>4 DEF RoundInv
    <3>. QED
      BY <2>1, <2>2, <3>5, ProceedFirst
  <2>. QED
    BY <2>1, <2>5, <2>6
<1>2. CASE QuerySettled(g) /\ fut[g] = "true"
  <2>. DEFINE w == [task[g] EXCEPT !.pc = "wait"]
  <2>1. task' = [task EXCEPT ![g] = w] /\ UNCHANGED <<asked, live>> /\ task[g].pc = "query"
    BY <1>2 DEF QuerySettled, connVars
  <2>2. /\ w.pc = "wait" /\ w.keys = task[g].keys /\ w.round = task[g].round
        /\ w.todo = task[g].todo
    BY <1>0 DEF TaskType
  <2>. HIDE DEF w
  <2>3. task'[g] = w /\ \A h \in Gens : h # g => task'[h] = task[h]
    BY <2>1 DEF TypeInv, TypeOK
  <2>4. TaskInv(task[g])'
    BY <1>0, <2>1, <2>2, <2>3 DEF TaskInv, RoundInv, AllAsked
  <2>5. ASSUME NEW h \in Gens, h # g
        PROVE  TaskInv(task[h])'
    <3>1. TaskInv(task[h]) /\ task'[h] = task[h]
      BY <2>3, <2>5 DEF FirstInv
    <3>. QED
      BY <2>1, <3>1 DEF TaskInv, RoundInv, AllAsked
  <2>. QED
    BY <2>4, <2>5 DEF FirstInv
<1>3. CASE WaitEnds(g) \/ (QuerySettled(g) /\ fut[g] # "true")
  <2>. DEFINE t == [task[g] EXCEPT !.pending = @ \/ task[g].room \notin live]
  <2>1. Proceed(g, t) /\ UNCHANGED connVars /\ task[g].pc \in {"query", "wait"}
    BY <1>3 DEF WaitEnds, QuerySettled
  <2>2. t \in TaskType
    BY <1>0 DEF TaskType
  <2>3. t.todo = task[g].todo /\ t.keys = task[g].keys /\ t.round = task[g].round
    BY <1>0 DEF TaskType
  <2>. HIDE DEF t
  <2>4. RoundInv(t)
    BY <1>0, <2>1, <2>3 DEF TaskInv, RoundInv, AllAsked
  <2>. QED
    BY <2>1, <2>2, <2>4, ProceedFirst
<1>. QED
  BY <1>1, <1>2, <1>3 DEF BootstrapStep

LEMMA NextFirstInv == TypeInv /\ QueryInv /\ FirstInv /\ [Next]_vars => FirstInv'
<1>. SUFFICES ASSUME TypeInv, QueryInv, FirstInv, [Next]_vars PROVE FirstInv'
  OBVIOUS
<1>1. CASE RecvOnClosed \/ ReaderCloses
  <2>1. available /\ Sync(FALSE)
    BY <1>1 DEF TypeInv, SessionInv, RecvOnClosed, ReaderCloses, LoopTop
  <2>. QED
    BY <2>1, SyncDownFirst
<1>2. CASE OpenSucceeds
  <2>1. ~available /\ Sync(TRUE) /\ generation + 1 < MaxGen
    BY <1>2 DEF TypeInv, SessionInv, OpenSucceeds, LoopTop
  <2>. QED
    BY <2>1, SyncUpFirst
<1>3. ASSUME NEW k \in Devices, NEW v \in Values, Report(k, v)
      PROVE  FirstInv'
  <2>1. CASE Connected
    <3>1. live \subseteq live' /\ UNCHANGED <<task, asked>>
      BY <1>3, <2>1 DEF Report
    <3>. QED
      BY <3>1, TasksKept
  <2>2. CASE ~Connected
    <3>1. available /\ Sync(FALSE)
      BY <1>3, <2>2 DEF Report, LoopTop, TypeInv, SessionInv
    <3>. QED
      BY <3>1, SyncDownFirst
  <2>. QED
    BY <2>1, <2>2
<1>4. ASSUME \/ OpenFails \/ RetryOpen \/ ReaderIsCancelled \/ RecvFails
             \/ \E c \in Commands : Call(c) \/ CancelCall(c)
             \/ Stop \/ StopSender \/ StopFlush \/ StopCloses
             \/ UNCHANGED vars
      PROVE  UNCHANGED <<task, asked, live>>
  BY <1>4 DEF OpenFails, RetryOpen, ReaderIsCancelled, RecvFails, Call, CancelCall,
              Stop, StopSender, StopFlush, StopCloses, connVars, history, vars
<1>5. ASSUME SenderStep
      PROVE  UNCHANGED <<task, asked, live>>
  BY <1>5 DEF SenderStep, Take, Transmit, SendSucceeds, SendFails, SenderCloses,
              ConfirmTimeout, Confirmed, NotConfirmed, NextAttempt, SenderIsCancelled,
              connVars, history
<1>6. CASE StopBootstrap
  <2>1. task' = [g \in Gens |-> Off]
    BY <1>6 DEF StopBootstrap
  <2>. QED
    BY <2>1, OffTask DEF FirstInv, TaskInv
<1>7. ASSUME NEW g \in Gens, BootstrapStep(g)
      PROVE  FirstInv'
  BY <1>7, BootstrapFirst
<1>8. CASE UNCHANGED <<task, asked, live>>
  BY <1>8, TasksKept
<1>. QED
  BY <1>1, <1>2, <1>3, <1>4, <1>5, <1>6, <1>7, <1>8 DEF Next, ReaderStep, StopStep

\* No room is asked twice in a session before every other was asked once or
\* has reported, for any number of thermostats (_async_bootstrap_queries).
THEOREM RoomsTakeTurns == Spec => []FirstBeforeRetry
<1>1. Init => FirstInv
  <2>. SUFFICES ASSUME Init, NEW g \in Gens PROVE TaskInv(task[g])
    BY DEF FirstInv
  <2>1. task[g] = IF g = generation THEN NewTask(known) ELSE Off
    BY DEF Init
  <2>2. task[g] = NewTask(known) \/ task[g] = NewTask({})
    BY <2>1 DEF Off
  <2>3. /\ task[g].pc \in {"off", "start"} /\ task[g].round = 0
        /\ task[g].pc = "off" => task[g].keys = {}
    BY <2>2 DEF NewTask
  <2>4. \A r \in Rooms : asked[r] = 0
    BY DEF Init
  <2>. QED
    BY <2>3, <2>4 DEF TaskInv
<1>2. Init => TypeInv /\ QueryInv
  BY InitTypeInv, InitQueryInv
<1>3. TypeInv /\ QueryInv /\ FirstInv /\ [Next]_vars => (TypeInv /\ QueryInv /\ FirstInv)'
  BY NextTypeInv, NextQueryInv, NextFirstInv
<1>4. ASSUME TypeInv, FirstInv
      PROVE  FirstBeforeRetry
  <2>1. ASSUME NEW g \in Gens, NEW r \in task[g].keys, NEW s \in task[g].keys,
               asked[r] = 2, s \notin live
        PROVE  asked[s] > 0
    <3>1. TaskInv(task[g]) /\ task[g] \in TaskType /\ r \in Rooms /\ s \in Rooms
      BY <1>4 DEF FirstInv, TypeInv, TypeOK, TaskType
    <3>2. task[g].pc \in {"off", "start", "query", "wait", "sleep"}
      BY <3>1 DEF TaskType
    <3>3. task[g].pc # "off"
      <4>1. task[g].pc = "off" => task[g].keys = {}
        BY <3>1 DEF TaskInv
      <4>. QED
        BY <4>1
    <3>4. task[g].pc # "start"
      <4>1. task[g].pc = "start" => asked[r] = 0
        BY <3>1 DEF TaskInv
      <4>. QED
        BY <2>1, <4>1
    <3>. QED
      BY <2>1, <3>1, <3>2, <3>3, <3>4 DEF TaskInv, RoundInv, AllAsked
  <2>. QED
    BY <2>1 DEF FirstBeforeRetry
<1>. QED
  BY <1>1, <1>2, <1>3, <1>4, PTL DEF Spec

----------------------------------------------------------------------------
(* The rounds leave no room out.  ToAsk is what is left of NoneForgotten   *)
(* between two awaits of the task, when it waits for no room.              *)
ForgetInv == NoneForgotten /\ Restored \subseteq known

ToAsk(t) == \A r \in Restored \ live : r \in t.keys /\ (r \in t.todo \/ t.pending)

LEMMA ProceedForget ==
    ASSUME TypeInv, ForgetInv, Running, Connected, NEW t \in TaskType,
           generation \in Gens, Proceed(generation, t), ToAsk(t), UNCHANGED <<connVars, stop>>
    PROVE  ForgetInv'
<1>. DEFINE open == t.todo \ live
            now == task'[generation]
<1>1. /\ UNCHANGED <<live, known, generation>> /\ IsSession(generation)
      /\ t.todo \subseteq Nat
  BY DEF connVars, IsSession, TaskType
<1>. SUFFICES ASSUME NEW r \in Restored \ live
             PROVE  /\ now.pc # "off" /\ r \in now.keys
                    /\ now.pc \in {"query", "wait"} =>
                         r = now.room \/ r \in now.todo \/ now.pending
  BY <1>1 DEF ForgetInv, NoneForgotten
<1>2. r \in t.keys /\ (r \in open \/ t.pending)
  BY DEF ToAsk
<1>3. ASSUME NEW q \in open, \A s \in open : q <= s,
             task' = [task EXCEPT ![generation] =
               [t EXCEPT !.pc = "query", !.room = q, !.todo = RoomsAfter(q, open)]]
      PROVE  /\ now.pc = "query" /\ r \in now.keys
             /\ r = now.room \/ r \in now.todo \/ now.pending
  <2>. DEFINE n == [t EXCEPT !.pc = "query", !.room = q, !.todo = RoomsAfter(q, open)]
  <2>1. /\ n.pc = "query" /\ n.keys = t.keys /\ n.room = q /\ n.pending = t.pending
        /\ n.todo = {s \in open : s > q}
    BY DEF TaskType, RoomsAfter
  <2>. HIDE DEF n
  <2>2. now = n
    BY <1>3 DEF TypeInv, TypeOK, n
  <2>3. ASSUME r \in open, r # q PROVE r \in n.todo
    <3>1. r \in Nat /\ q \in Nat /\ q <= r
      BY <1>1, <1>3, <2>3
    <3>. QED
      BY <2>1, <2>3, <3>1
  <2>. QED
    BY <1>2, <2>1, <2>2, <2>3
<1>4. ASSUME task' = [task EXCEPT ![generation] =
               [t EXCEPT !.pc = "sleep", !.room = None, !.todo = {}, !.pending = FALSE]]
      PROVE  now.pc = "sleep" /\ r \in now.keys
  <2>. DEFINE n == [t EXCEPT !.pc = "sleep", !.room = None, !.todo = {}, !.pending = FALSE]
  <2>1. n.pc = "sleep" /\ n.keys = t.keys
    BY DEF TaskType
  <2>. HIDE DEF n
  <2>2. now = n
    BY <1>4 DEF TypeInv, TypeOK, n
  <2>. QED
    BY <1>2, <2>1, <2>2
<1>5. ~(open = {} /\ ~t.pending)
  BY <1>2
<1>. QED
  BY <1>1, <1>3, <1>4, <1>5 DEF Proceed

LEMMA BootstrapForget ==
    ASSUME TypeInv, QueryInv, ForgetInv, NEW g \in Gens, BootstrapStep(g)
    PROVE  ForgetInv'
<1>0. /\ task[g] \in TaskType /\ g = generation /\ UNCHANGED <<connVars, stop>>
  BY DEF TypeInv, TypeOK, QueryInv, BootstrapStep, StartRound, QuerySettled, WaitEnds
<1>1. CASE ~(Running /\ Connected)
  BY <1>0, <1>1 DEF ForgetInv, NoneForgotten, Running, Connected, connVars
<1>2. CASE Running /\ Connected
  <2>1. \A r \in Restored \ live :
          /\ task[g].pc # "off" /\ r \in task[g].keys
          /\ task[g].pc \in {"query", "wait"} =>
               r = task[g].room \/ r \in task[g].todo \/ task[g].pending
    BY <1>0, <1>2 DEF ForgetInv, NoneForgotten
  <2>2. CASE StartRound(g)
    <3>. DEFINE t == [task[g] EXCEPT !.todo = task[g].keys,
                       !.round = IF @ > RetryMax THEN @ ELSE @ + 1]
    <3>1. Proceed(g, t)
      BY <2>2 DEF StartRound
    <3>2. t \in TaskType
      BY <1>0, StartRoundType
    <3>3. t.keys = task[g].keys /\ t.todo = task[g].keys
      BY <1>0 DEF TaskType
    <3>. HIDE DEF t
    <3>4. ToAsk(t)
      BY <2>1, <3>3 DEF ToAsk
    <3>. QED
      BY <1>0, <1>2, <3>1, <3>2, <3>4, ProceedForget
  <2>3. CASE QuerySettled(g) /\ fut[g] = "true"
    <3>. DEFINE w == [task[g] EXCEPT !.pc = "wait"]
    <3>1. /\ task' = [task EXCEPT ![g] = w] /\ task[g].pc = "query"
      BY <2>3 DEF QuerySettled
    <3>2. /\ w.pc = "wait" /\ w.keys = task[g].keys /\ w.room = task[g].room
          /\ w.todo = task[g].todo /\ w.pending = task[g].pending
      BY <1>0 DEF TaskType
    <3>. HIDE DEF w
    <3>3. task'[g] = w
      BY <3>1 DEF TypeInv, TypeOK
    <3>. QED
      BY <1>0, <1>2, <2>1, <3>1, <3>2, <3>3 DEF ForgetInv, NoneForgotten, connVars
  <2>4. CASE WaitEnds(g) \/ (QuerySettled(g) /\ fut[g] # "true")
    <3>. DEFINE t == [task[g] EXCEPT !.pending = @ \/ task[g].room \notin live]
    <3>1. Proceed(g, t) /\ task[g].pc \in {"query", "wait"}
      BY <2>4 DEF WaitEnds, QuerySettled
    <3>2. t \in TaskType
      BY <1>0 DEF TaskType
    <3>3. /\ t.keys = task[g].keys /\ t.todo = task[g].todo
          /\ t.pending = (task[g].pending \/ task[g].room \notin live)
      BY <1>0 DEF TaskType
    <3>. HIDE DEF t
    <3>4. ToAsk(t)
      BY <2>1, <3>1, <3>3 DEF ToAsk
    <3>. QED
      BY <1>0, <1>2, <3>1, <3>2, <3>4, ProceedForget
  <2>. QED
    BY <2>2, <2>3, <2>4 DEF BootstrapStep
<1>. QED
  BY <1>1, <1>2

LEMMA NextForgetInv == TypeInv /\ QueryInv /\ ForgetInv /\ [Next]_vars => ForgetInv'
<1>. SUFFICES ASSUME TypeInv, QueryInv, ForgetInv, [Next]_vars PROVE ForgetInv'
  OBVIOUS
<1>1. ASSUME ~(Running' /\ Connected') , UNCHANGED known
      PROVE  ForgetInv'
  BY <1>1 DEF ForgetInv, NoneForgotten
<1>2. ASSUME UNCHANGED <<task, generation>>, live \subseteq live', known \subseteq known',
             Running' /\ Connected' => Running /\ Connected
      PROVE  ForgetInv'
  BY <1>2 DEF ForgetInv, NoneForgotten
<1>3. CASE RecvOnClosed \/ ReaderCloses
  BY <1>1, <1>3 DEF RecvOnClosed, ReaderCloses, Connected
<1>4. CASE OpenSucceeds
  <2>1. ~available /\ Sync(TRUE) /\ generation + 1 < MaxGen /\ known' = known
    BY <1>4 DEF TypeInv, SessionInv, OpenSucceeds, LoopTop
  <2>2. /\ task' = [task EXCEPT ![generation + 1] = NewTask(known)]
        /\ generation' = generation + 1 /\ generation + 1 \in Gens /\ live' = live
    BY <2>1 DEF Sync, TypeInv, TypeOK
  <2>3. task'[generation'] = NewTask(known)
    BY <2>2 DEF TypeInv, TypeOK
  <2>4. ASSUME NEW r \in Restored
        PROVE  NewTask(known).pc = "start" /\ r \in NewTask(known).keys
    BY DEF NewTask, ForgetInv
  <2>. QED
    BY <2>1, <2>3, <2>4 DEF ForgetInv, NoneForgotten
<1>5. ASSUME NEW k \in Devices, NEW v \in Values, Report(k, v)
      PROVE  ForgetInv'
  <2>1. known \subseteq known' /\ UNCHANGED <<conn, stop>>
    BY <1>5 DEF Report
  <2>2. CASE Connected
    BY <1>2, <1>5, <2>1, <2>2 DEF Report, Running
  <2>3. CASE ~Connected
    BY <2>1, <2>3 DEF ForgetInv, NoneForgotten, Connected
  <2>. QED
    BY <2>2, <2>3
<1>6. ASSUME SenderStep
      PROVE  UNCHANGED <<task, generation, live, known, stop>> /\ (Connected' => Connected)
  BY <1>6 DEF SenderStep, Take, Transmit, SendSucceeds, SendFails, SenderCloses,
              ConfirmTimeout, Confirmed, NotConfirmed, NextAttempt, SenderIsCancelled,
              connVars, history, Connected
<1>7. ASSUME \/ OpenFails \/ RetryOpen \/ RecvFails \/ ReaderIsCancelled
             \/ \E c \in Commands : Call(c) \/ CancelCall(c)
             \/ UNCHANGED vars
      PROVE  UNCHANGED <<task, generation, live, known, stop>> /\ (Connected' => Connected)
  BY <1>7 DEF OpenFails, RetryOpen, RecvFails, ReaderIsCancelled, Call, CancelCall,
              connVars, history, vars, Connected
<1>8. ASSUME Stop \/ StopStep
      PROVE  ~Running' /\ UNCHANGED known
  BY <1>8 DEF Stop, StopStep, StopBootstrap, StopSender, StopFlush, StopCloses, Running, connVars
<1>9. ASSUME NEW g \in Gens, BootstrapStep(g)
      PROVE  ForgetInv'
  BY <1>9, BootstrapForget
<1>. QED
  BY <1>1, <1>2, <1>3, <1>4, <1>5, <1>6, <1>7, <1>8, <1>9 DEF Next, ReaderStep, Running

\* A silent thermostat known at start-up is never dropped from the list of the
\* rooms to ask, for any number of thermostats, sessions and rounds
\* (_async_bootstrap_round, the pending flag).
THEOREM SilentRoomsStayAsked == Spec => []NoneForgotten
<1>1. Init => ForgetInv
  <2>. SUFFICES ASSUME Init PROVE ForgetInv
    OBVIOUS
  <2>1. known = Restored
    BY DEF Init
  <2>2. ASSUME Connected PROVE generation = 1
    BY <2>2 DEF Init, Connected
  <2>3. ASSUME Connected, NEW r \in Restored
        PROVE  task[generation].pc = "start" /\ r \in task[generation].keys
    <3>1. task[generation] = NewTask(known)
      BY <2>2, <2>3 DEF Init
    <3>. QED
      BY <2>1, <3>1 DEF NewTask
  <2>. QED
    BY <2>1, <2>3 DEF ForgetInv, NoneForgotten
<1>2. TypeInv /\ QueryInv /\ ForgetInv /\ [Next]_vars => (TypeInv /\ QueryInv /\ ForgetInv)'
  BY NextTypeInv, NextQueryInv, NextForgetInv
<1>3. TypeInv /\ QueryInv /\ ForgetInv => NoneForgotten
  BY DEF ForgetInv
<1>. QED
  BY InitTypeInv, InitQueryInv, <1>1, <1>2, <1>3, PTL DEF Spec
=============================================================================
