---------------------------- MODULE SenderProofs ----------------------------
(***************************************************************************)
(* The sender and its queue, for every number of commands, sessions and    *)
(* attempts: an item that waits is held in one place (HeldOnce), the       *)
(* sender never goes back in its work on an item (SenderAdvances), and it  *)
(* transmits commands as Transmission says (Transmits).                    *)
(***************************************************************************)
EXTENDS GatewayProofs

USE RoomsAssumption, CommandsAssumption, BoundsAssumption
    DEF Devices, Gens, Items

----------------------------------------------------------------------------
(* Nothing is queued twice.  A command is queued by the step that gives it *)
(* its future.  A query is queued again and again, under one name: what    *)
(* keeps it from being there twice is that its task waits for the sender   *)
(* as long as it is there, and ends if it no longer waits.                 *)
NoRepeat == \A m, n \in DOMAIN queue : queue[m] = queue[n] => m = n
Held == Queued \cup {active}
QueryHeld(g) ==
    /\ g <= generation
    /\ task[g].pc = "off" \/ (task[g].pc = "query" /\ fut[g] = "pending")

HeldInv ==
    /\ NoRepeat /\ active \notin Queued
    /\ \A c \in Commands : c \in Held => fut[c] # "none"
    /\ \A g \in Gens : g \in Held => QueryHeld(g)

LEMMA AppendNoRepeat ==
    ASSUME queue \in Seq(Items), NoRepeat, NEW i \in Items, i \notin Queued,
           queue' = Append(queue, i)
    PROVE  NoRepeat'
<1>1. /\ Len(queue) \in Nat /\ DOMAIN queue = 1 .. Len(queue)
      /\ DOMAIN queue' = 1 .. (Len(queue) + 1)
      /\ queue'[Len(queue) + 1] = i
      /\ \A n \in 1 .. Len(queue) : queue'[n] = queue[n]
  OBVIOUS
<1>2. \A n \in 1 .. Len(queue) : queue[n] # i
  BY <1>1 DEF Queued
<1> SUFFICES ASSUME NEW m \in 1 .. (Len(queue) + 1), NEW n \in 1 .. (Len(queue) + 1),
                    queue'[m] = queue'[n]
             PROVE  m = n
  BY <1>1 DEF NoRepeat
<1>3. CASE m \in 1 .. Len(queue) /\ n \in 1 .. Len(queue)
  BY <1>1, <1>3 DEF NoRepeat
<1>4. CASE m = Len(queue) + 1 \/ n = Len(queue) + 1
  BY <1>1, <1>2, <1>4
<1> QED
  BY <1>1, <1>3, <1>4

LEMMA TailNoRepeat ==
    ASSUME queue \in Seq(Items), NoRepeat, queue # <<>>, queue' = Tail(queue)
    PROVE  NoRepeat' /\ Queued' \subseteq Queued /\ Head(queue) \notin Queued'
<1>1. /\ Len(queue) \in Nat \ {0} /\ DOMAIN queue = 1 .. Len(queue)
      /\ DOMAIN queue' = 1 .. (Len(queue) - 1)
      /\ Head(queue) = queue[1]
      /\ \A n \in 1 .. (Len(queue) - 1) : queue'[n] = queue[n + 1]
  OBVIOUS
<1>2. ASSUME NEW n \in 1 .. (Len(queue) - 1)
      PROVE  n + 1 \in 1 .. Len(queue) /\ n + 1 # 1 /\ 1 \in 1 .. Len(queue)
  BY <1>1, <1>2
<1>3. NoRepeat'
  <2> SUFFICES ASSUME NEW m \in 1 .. (Len(queue) - 1), NEW n \in 1 .. (Len(queue) - 1),
                      queue'[m] = queue'[n]
               PROVE  m = n
    BY <1>1 DEF NoRepeat
  <2>1. queue[m + 1] = queue[n + 1]
    BY <1>1
  <2>2. m + 1 = n + 1
    BY <1>1, <1>2, <2>1 DEF NoRepeat
  <2> QED
    BY <2>2
<1>4. Queued' \subseteq Queued
  BY <1>1, <1>2 DEF Queued
<1>5. Head(queue) \notin Queued'
  <2> SUFFICES ASSUME NEW n \in 1 .. (Len(queue) - 1), queue'[n] = queue[1] PROVE FALSE
    BY <1>1 DEF Queued
  <2>1. queue[n + 1] = queue[1]
    BY <1>1
  <2> QED
    BY <1>1, <1>2, <2>1 DEF NoRepeat
<1> QED
  BY <1>3, <1>4, <1>5

\* What is held shrinks or stays, and what remains keeps what HeldInv says.
LEMMA HeldKept ==
    ASSUME HeldInv, NoRepeat', active' \notin Queued', Held' \subseteq Held \cup {None},
           \A c \in Commands : c \in Held' => fut'[c] = fut[c] \/ fut'[c] # "none",
           \A g \in Gens : g \in Held' /\ QueryHeld(g) => QueryHeld(g)'
    PROVE  HeldInv'
<1>1. \A i \in Items : i \in Held' => i \in Held
  BY NoneIsNoItem
<1>2. ASSUME NEW c \in Commands, c \in Held' PROVE fut'[c] # "none"
  BY <1>1, <1>2 DEF HeldInv
<1>3. ASSUME NEW g \in Gens, g \in Held' PROVE QueryHeld(g)'
  BY <1>1, <1>3 DEF HeldInv
<1> QED
  BY <1>2, <1>3 DEF HeldInv

LEMMA QueueKept ==
    ASSUME HeldInv, UNCHANGED <<queue, active>>
    PROVE  NoRepeat' /\ active' \notin Queued' /\ Queued' = Queued /\ Held' = Held
BY DEF HeldInv, NoRepeat, Queued, Held

LEMMA SenderHeldInv == ASSUME TypeInv, SenderInv, HeldInv, SenderStep PROVE HeldInv'
<1> USE DEF TypeInv
<1>1. UNCHANGED <<generation, task>>
  BY DEF SenderStep, Take, Transmit, SendSucceeds, SendFails, SenderCloses, ConfirmTimeout,
         Confirmed, NotConfirmed, NextAttempt, SenderIsCancelled, connVars
<1>2. ASSUME NEW S, NEW res \in {"true", "false"}, fut' = Settle(S, res)
      PROVE  \A i \in Items : /\ fut[i] # "none" => fut'[i] # "none"
                              /\ i \notin S => fut'[i] = fut[i]
  BY <1>2 DEF Settle
<1>3. ASSUME NEW S, NEW res \in {"true", "false"}, fut' = Settle(S, res),
             NoRepeat', active' \notin Queued', Held' \subseteq (Held \ S) \cup {None}
      PROVE  HeldInv'
  <2>1. \A i \in Items : i \in Held' => fut'[i] = fut[i]
    BY <1>2, <1>3, NoneIsNoItem
  <2>2. \A g \in Gens : g \in Held' /\ QueryHeld(g) => QueryHeld(g)'
    BY <1>1, <2>1 DEF QueryHeld
  <2> QED
    BY <1>3, <2>1, <2>2, HeldKept
<1>4. ASSUME UNCHANGED fut, NoRepeat', active' \notin Queued', Held' \subseteq Held \cup {None}
      PROVE  HeldInv'
  <2>1. \A g \in Gens : g \in Held' /\ QueryHeld(g) => QueryHeld(g)'
    BY <1>1, <1>4 DEF QueryHeld
  <2> QED
    BY <1>4, <2>1, HeldKept
<1>5. CASE Take
  <2>1. queue \in Seq(Items) /\ queue # <<>> /\ queue' = Tail(queue)
    BY <1>5 DEF Take, TypeOK
  <2>2. NoRepeat' /\ Queued' \subseteq Queued /\ Head(queue) \notin Queued'
    BY <2>1, TailNoRepeat DEF HeldInv
  <2>3. active = None /\ Head(queue) \in Queued
    BY <1>5, <2>1 DEF Take, SenderInv, Queued
  <2>4. CASE fut' = Settle({Head(queue)}, "false") /\ UNCHANGED senderVars
    <3>1. active' = None /\ None \notin Queued'
      BY <2>2, <2>3, <2>4 DEF senderVars, HeldInv
    <3>2. Held' \subseteq (Held \ {Head(queue)}) \cup {None}
      BY <2>2, <3>1 DEF Held
    <3> QED
      BY <1>3, <2>2, <2>4, <3>1, <3>2
  <2>5. CASE active' = Head(queue) /\ UNCHANGED fut
    <3>1. Held' \subseteq Held \cup {None}
      BY <2>2, <2>3, <2>5 DEF Held
    <3> QED
      BY <1>4, <2>2, <2>5, <3>1
  <2> QED
    BY <1>5, <2>4, <2>5 DEF Take
<1>6. CASE Transmit \/ SendSucceeds \/ SenderCloses \/ Confirmed \/ NotConfirmed
  <2>1. queue' = queue
    BY <1>6 DEF Transmit, SendSucceeds, SenderCloses, Confirmed, NotConfirmed
  <2>2. NoRepeat' /\ Queued' = Queued /\ None \notin Queued
    BY <2>1, NoneIsNoItem DEF HeldInv, NoRepeat, Queued, TypeOK
  <2>3. CASE UNCHANGED <<active, fut>>
    BY <1>4, <2>1, <2>3, QueueKept
  <2>4. CASE Finish("false") \/ Finish("true")
    <3>1. active' = None /\ (fut' = Settle({active}, "false") \/ fut' = Settle({active}, "true"))
      BY <2>4 DEF Finish, Rest
    <3>2. active' \notin Queued' /\ Held' \subseteq (Held \ {active}) \cup {None}
      BY <2>2, <3>1 DEF Held, HeldInv
    <3> QED
      BY <1>3, <2>2, <3>1, <3>2
  <2> QED
    BY <1>6, <2>3, <2>4
       DEF Transmit, SendSucceeds, SenderCloses, Confirmed, NotConfirmed, AttemptLost
<1>7. CASE SendFails \/ ConfirmTimeout \/ NextAttempt
  <2>1. UNCHANGED <<fut, queue, active>>
    BY <1>7 DEF SendFails, ConfirmTimeout, NextAttempt, queueVars
  <2> QED
    BY <1>4, <2>1, QueueKept
<1>8. CASE SenderIsCancelled
  <2>1. queue' = <<>> /\ active' = None
    BY <1>8 DEF SenderIsCancelled
  <2>2. Queued' = {} /\ Held' = {None} /\ NoRepeat'
    BY <2>1 DEF Queued, Held, NoRepeat
  <2> QED
    BY <2>1, <2>2, NoneIsNoItem DEF HeldInv
<1> QED
  BY <1>5, <1>6, <1>7, <1>8 DEF SenderStep

LEMMA SyncHeld ==
    ASSUME TypeInv, QueryInv, HeldInv, NEW c \in BOOLEAN, Sync(c), available <=> ~c,
           c => generation + 1 < MaxGen, UNCHANGED <<queue, active>>
    PROVE  HeldInv'
<1>1. \A d \in Commands : fut'[d] = fut[d]
  BY SyncCommands DEF TypeInv, SessionInv
<1>2. ASSUME NEW g \in Gens, QueryHeld(g) PROVE QueryHeld(g)'
  <2>1. generation \in Nat /\ generation' = generation + 1 /\ g \in Nat
    BY DEF Sync, TypeInv, TypeOK
  <2>2. g <= generation /\ g <= generation' /\ g # generation + 1
    BY <1>2, <2>1 DEF QueryHeld
  <2>3. CASE c
    <3>1. fut' = fut /\ task' = [task EXCEPT ![generation + 1] = NewTask(known)]
      BY <2>3 DEF Sync
    <3>2. task'[g] = task[g]
      BY <2>2, <3>1 DEF TypeInv, TypeOK
    <3> QED
      BY <1>2, <2>2, <3>1, <3>2 DEF QueryHeld
  <2>4. CASE ~c
    <3>1. task' = [task EXCEPT ![generation] = Off]
      BY <2>4 DEF Sync, CancelBootstrap
    <3>2. task'[g].pc = "off"
      BY <3>1, OffPc DEF QueryInv, TypeInv, TypeOK
    <3> QED
      BY <2>2, <3>2 DEF QueryHeld
  <2> QED
    BY <2>3, <2>4
<1> QED
  BY <1>1, <1>2, HeldKept, QueueKept

\* A task that starts a round, or goes on with one, has no query anywhere: the
\* one it queues is the only one of its name.
LEMMA ProceedHeld ==
    ASSUME TypeInv, QueryInv, HeldInv, NEW g \in Gens, NEW t \in TaskType, Proceed(g, t),
           task[g].pc # "off", ~(task[g].pc = "query" /\ fut[g] = "pending"),
           UNCHANGED <<generation, active>>
    PROVE  HeldInv'
<1>1. g \notin Held /\ g = generation
  BY DEF HeldInv, QueryHeld, QueryInv
<1>2. \A i \in Items : i # g => fut'[i] = fut[i]
  BY DEF Proceed, TypeInv, TypeOK
<1>3. \A h \in Gens : h # g => task'[h] = task[h]
  BY DEF Proceed, TypeInv, TypeOK
<1>4. \A h \in Gens : h # g /\ QueryHeld(h) => QueryHeld(h)'
  BY <1>2, <1>3 DEF QueryHeld
<1>5. CASE UNCHANGED <<fut, queue>>
  <2>1. Held' = Held
    BY <1>5, QueueKept
  <2> QED
    BY <1>1, <1>4, <1>5, <2>1, HeldKept, QueueKept
<1>6. CASE \E r : /\ task' = [task EXCEPT ![g] =
                       [t EXCEPT !.pc = "query", !.room = r, !.todo = RoomsAfter(r, t.todo \ live)]]
                  /\ fut' = [fut EXCEPT ![g] = "pending"]
                  /\ queue' = Append(queue, g)
  <2> PICK r : /\ task' = [task EXCEPT ![g] =
                    [t EXCEPT !.pc = "query", !.room = r, !.todo = RoomsAfter(r, t.todo \ live)]]
               /\ fut' = [fut EXCEPT ![g] = "pending"]
               /\ queue' = Append(queue, g)
    BY <1>6
  <2> DEFINE n == [t EXCEPT !.pc = "query", !.room = r, !.todo = RoomsAfter(r, t.todo \ live)]
  <2>1. n.pc = "query"
    BY DEF TaskType
  <2> HIDE DEF n
  <2>2. task'[g] = n /\ fut'[g] = "pending"
    BY DEF TypeInv, TypeOK, n
  <2>3. QueryHeld(g)'
    BY <1>1, <2>1, <2>2 DEF QueryHeld
  <2>4. queue \in Seq(Items) /\ g \in Items /\ g \notin Queued /\ g # active
    BY <1>1 DEF TypeInv, TypeOK, Held
  <2>5. Queued' = Queued \cup {g}
    BY <2>4, AppendQueued
  <2>6. NoRepeat'
    BY <2>4, AppendNoRepeat DEF HeldInv
  <2>7. active' \notin Queued' /\ Held' = Held \cup {g}
    BY <2>4, <2>5 DEF HeldInv, Held
  <2>8. \A c \in Commands : c \in Held' => fut'[c] # "none"
    BY <1>2, <2>7 DEF HeldInv
  <2>9. \A h \in Gens : h \in Held' => QueryHeld(h)'
    BY <1>4, <2>3, <2>7 DEF HeldInv
  <2> QED
    BY <2>6, <2>7, <2>8, <2>9 DEF HeldInv
<1> QED
  BY <1>5, <1>6 DEF Proceed

LEMMA BootstrapHeld ==
    ASSUME TypeInv, QueryInv, HeldInv, NEW g \in Gens, BootstrapStep(g)
    PROVE  HeldInv'
<1>0. task[g] \in TaskType /\ UNCHANGED <<generation, active>>
  BY DEF TypeInv, TypeOK, BootstrapStep, StartRound, QuerySettled, WaitEnds, connVars, senderVars
<1>1. CASE StartRound(g)
  <2> DEFINE t == [task[g] EXCEPT !.todo = task[g].keys,
                     !.round = IF @ > RetryMax THEN @ ELSE @ + 1]
  <2>1. Proceed(g, t) /\ task[g].pc \in {"start", "sleep"}
    BY <1>1 DEF StartRound
  <2>2. t \in TaskType
    BY <1>0, StartRoundType
  <2> HIDE DEF t
  <2> QED
    BY <1>0, <2>1, <2>2, ProceedHeld
<1>2. CASE QuerySettled(g) /\ fut[g] = "true"
  <2>1. task' = [task EXCEPT ![g].pc = "wait"] /\ task[g].pc = "query" /\ UNCHANGED <<fut, queue>>
    BY <1>2 DEF QuerySettled
  <2>2. g \notin Held
    BY <1>2, <2>1 DEF HeldInv, QueryHeld
  <2>3. \A h \in Gens : h # g => task'[h] = task[h]
    BY <2>1 DEF TypeInv, TypeOK
  <2>4. \A h \in Gens : h # g /\ QueryHeld(h) => QueryHeld(h)'
    BY <1>0, <2>1, <2>3 DEF QueryHeld
  <2> QED
    BY <1>0, <2>1, <2>2, <2>4, HeldKept, QueueKept
<1>3. CASE WaitEnds(g) \/ (QuerySettled(g) /\ fut[g] # "true")
  <2> DEFINE t == [task[g] EXCEPT !.pending = @ \/ task[g].room \notin live]
  <2>1. /\ Proceed(g, t) /\ task[g].pc # "off"
        /\ ~(task[g].pc = "query" /\ fut[g] = "pending")
    BY <1>3 DEF WaitEnds, QuerySettled
  <2>2. t \in TaskType
    BY <1>0 DEF TaskType
  <2> HIDE DEF t
  <2> QED
    BY <1>0, <2>1, <2>2, ProceedHeld
<1> QED
  BY <1>1, <1>2, <1>3 DEF BootstrapStep

LEMMA NextHeldInv ==
    TypeInv /\ QueryInv /\ SenderInv /\ HeldInv /\ [Next]_vars => HeldInv'
<1> SUFFICES ASSUME TypeInv, QueryInv, SenderInv, HeldInv, [Next]_vars PROVE HeldInv'
  OBVIOUS
<1>1. ASSUME UNCHANGED <<queue, active, fut, generation, task>> PROVE HeldInv'
  BY <1>1, HeldKept, QueueKept DEF QueryHeld
<1>2. CASE RecvOnClosed \/ ReaderCloses
  BY <1>2, SyncHeld DEF TypeInv, SessionInv, RecvOnClosed, ReaderCloses, LoopTop, senderVars
<1>3. CASE OpenSucceeds
  <2>1. Sync(TRUE) /\ ~available /\ generation + 1 < MaxGen /\ UNCHANGED <<queue, active>>
    BY <1>3 DEF TypeInv, SessionInv, OpenSucceeds, LoopTop, senderVars
  <2> QED
    BY <2>1, SyncHeld
<1>4. ASSUME \/ OpenFails \/ RetryOpen \/ ReaderIsCancelled \/ RecvFails
             \/ Stop \/ StopSender \/ StopCloses \/ UNCHANGED vars
      PROVE  UNCHANGED <<queue, active, fut, generation, task>>
  BY <1>4 DEF OpenFails, RetryOpen, ReaderIsCancelled, RecvFails, Stop, StopSender, StopCloses,
              connVars, queueVars, senderVars, vars
<1>5. ASSUME NEW k \in Devices, NEW v \in Values, Report(k, v) PROVE HeldInv'
  <2>1. CASE Connected
    BY <1>1, <1>5, <2>1 DEF Report
  <2>2. CASE ~Connected
    <3>1. Sync(FALSE) /\ available /\ UNCHANGED <<queue, active>>
      BY <1>5, <2>2 DEF Report, LoopTop, TypeInv, SessionInv
    <3> QED
      BY <3>1, SyncHeld
  <2> QED
    BY <2>1, <2>2
<1>6. CASE SenderStep
  BY <1>6, SenderHeldInv
<1>7. ASSUME NEW c \in Commands, Call(c) PROVE HeldInv'
  <2>1. queue \in Seq(Items) /\ c \notin Queued /\ c # active /\ c \notin Gens
    BY <1>7 DEF Call, HeldInv, Held, TypeInv, TypeOK
  <2>2. Queued' = Queued \cup {c}
    BY <1>7, <2>1, AppendQueued DEF Call
  <2>3. NoRepeat'
    BY <1>7, <2>1, AppendNoRepeat DEF Call, HeldInv
  <2>4. UNCHANGED <<active, generation, task>> /\ fut' = [fut EXCEPT ![c] = "pending"]
    BY <1>7 DEF Call, connVars, senderVars
  <2>5. active' \notin Queued' /\ Held' = Held \cup {c}
    BY <2>1, <2>2, <2>4 DEF HeldInv, Held
  <2>6. \A d \in Commands : d \in Held' => fut'[d] # "none"
    BY <2>4, <2>5 DEF HeldInv, TypeInv, TypeOK
  <2>7. \A g \in Gens : g \in Held' => QueryHeld(g)'
    BY <2>1, <2>4, <2>5 DEF HeldInv, QueryHeld, TypeInv, TypeOK
  <2> QED
    BY <2>3, <2>5, <2>6, <2>7 DEF HeldInv
<1>8. ASSUME NEW c \in Commands, CancelCall(c) PROVE HeldInv'
  <2>1. UNCHANGED <<queue, active, generation, task>> /\ fut' = [fut EXCEPT ![c] = "cancelled"]
    BY <1>8 DEF CancelCall, connVars, senderVars
  <2>2. \A d \in Commands : fut'[d] = fut[d] \/ fut'[d] # "none"
    BY <2>1 DEF TypeInv, TypeOK
  <2>3. \A g \in Gens : QueryHeld(g) => QueryHeld(g)'
    BY <2>1 DEF QueryHeld, TypeInv, TypeOK
  <2> QED
    BY <2>1, <2>2, <2>3, HeldKept, QueueKept
<1>9. ASSUME NEW g \in Gens, BootstrapStep(g) PROVE HeldInv'
  BY <1>9, BootstrapHeld
<1>10. CASE StopBootstrap
  <2>1. /\ task' = [g \in Gens |-> Off] /\ UNCHANGED <<queue, active, generation>>
        /\ fut' = Settle({g \in Gens : task[g].pc = "query"}, "cancelled")
    BY <1>10 DEF StopBootstrap, connVars, senderVars
  <2>2. \A d \in Commands : fut'[d] = fut[d]
    BY <2>1, SettleShrinks DEF TypeInv
  <2>3. \A g \in Gens : QueryHeld(g) => QueryHeld(g)'
    BY <2>1, OffPc DEF QueryHeld
  <2> QED
    BY <2>1, <2>2, <2>3, HeldKept, QueueKept
<1>11. CASE StopFlush
  <2>1. queue' = <<>> /\ active = None /\ active' = None
    BY <1>11 DEF StopFlush, SenderInv
  <2>2. Queued' = {} /\ Held' = {None} /\ NoRepeat'
    BY <2>1 DEF Queued, Held, NoRepeat
  <2> QED
    BY <2>1, <2>2, NoneIsNoItem DEF HeldInv
<1> QED
  BY <1>1, <1>2, <1>3, <1>4, <1>5, <1>6, <1>7, <1>8, <1>9, <1>10, <1>11
     DEF Next, ReaderStep, StopStep

\* A call or query that waits is held in one place, for any number of
\* commands and sessions: nothing is lost in the queue and nothing is taken up
\* twice.
THEOREM ItemsAreHeldOnce == Spec => []HeldOnce
<1>1. Init => HeldInv
  <2> SUFFICES ASSUME Init PROVE HeldInv
    OBVIOUS
  <2>1. queue = <<>> /\ active = None
    BY DEF Init
  <2>2. Queued = {} /\ Held = {None} /\ NoRepeat
    BY <2>1 DEF Queued, Held, NoRepeat
  <2> QED
    BY <2>1, <2>2, NoneIsNoItem DEF HeldInv
<1>2. IInv /\ HeldInv /\ [Next]_vars => HeldInv'
  BY NextHeldInv DEF IInv
<1>3. IInv /\ HeldInv => HeldOnce
  BY DEF IInv, FlushInv, HeldInv, HeldOnce, NoRepeat
<1> QED
  BY InitIInv, NextIInv, <1>1, <1>2, <1>3, PTL DEF Spec

----------------------------------------------------------------------------
(* The sender's work on one item.                                          *)

\* A waiter whose time is up is the one the sender awaits.
ExpiredInv == waiter = "expired" => sender = "confirm"

WorkInv == TypeInv /\ SenderInv /\ ExpiredInv

\* What the other tasks do to the sender: a report hits its waiter, and the
\* last steps of async_stop drop the waiters of a sender that has ended.
LEMMA OtherSteps ==
    ASSUME SenderInv, [Next]_vars, ~SenderStep
    PROVE  /\ UNCHANGED <<sender, active, attempt>>
           /\ \/ waiter' = waiter
              \/ waiter = "open" /\ waiter' = "hit" /\ active \in Commands
              \/ waiter' = "none" /\ active = None
<1>1. ASSUME NEW k \in Devices, NEW v \in Values, Report(k, v)
      PROVE  /\ UNCHANGED <<sender, active, attempt>>
             /\ \/ waiter' = waiter
                \/ waiter = "open" /\ waiter' = "hit" /\ active \in Commands
  BY <1>1 DEF Report, Notify
<1>2. ASSUME StopFlush
      PROVE  UNCHANGED <<sender, active, attempt>> /\ waiter' = "none" /\ active = None
  BY <1>2 DEF StopFlush, SenderInv
<1>3. ASSUME \/ RecvFails \/ ReaderStep
             \/ \E c \in Commands : Call(c) \/ CancelCall(c)
             \/ \E g \in Gens : BootstrapStep(g)
             \/ Stop \/ StopBootstrap \/ StopSender \/ StopCloses
             \/ UNCHANGED vars
      PROVE  UNCHANGED senderVars
  BY <1>3 DEF RecvFails, ReaderStep, RecvOnClosed, ReaderCloses, OpenSucceeds, OpenFails,
              RetryOpen, ReaderIsCancelled, Call, CancelCall, BootstrapStep, StartRound,
              QuerySettled, WaitEnds, Stop, StopBootstrap, StopSender, StopCloses, vars
<1> QED
  BY <1>1, <1>2, <1>3 DEF Next, StopStep, senderVars

LEMMA NextWorkInv == WorkInv /\ QueryInv /\ [Next]_vars => WorkInv'
<1> SUFFICES ASSUME WorkInv, QueryInv, [Next]_vars PROVE WorkInv'
  OBVIOUS
<1>1. TypeInv' /\ SenderInv'
  BY NextTypeInv, NextSenderInv DEF WorkInv
<1>2. CASE ~SenderStep
  BY <1>1, <1>2, OtherSteps DEF WorkInv, ExpiredInv
<1>3. CASE SenderStep
  <2>1. ASSUME Finish("false") \/ Finish("true") \/ AttemptLost PROVE waiter' = "none"
    BY <2>1 DEF Finish, Rest, AttemptLost
  <2>2. ExpiredInv'
    BY <1>3, <2>1 DEF WorkInv, ExpiredInv, SenderInv, SenderStep, Take, Transmit, SendSucceeds,
       SendFails, SenderCloses, ConfirmTimeout, Confirmed, NotConfirmed, NextAttempt,
       SenderIsCancelled, senderVars
  <2> QED
    BY <1>1, <2>2 DEF WorkInv
<1> QED
  BY <1>2, <1>3

LEMMA WorkInvariant == Spec => []WorkInv
<1>1. Init => WorkInv
  BY InitTypeInv, InitSenderInv DEF Init, WorkInv, ExpiredInv
<1>2. IInv /\ WorkInv /\ [Next]_vars => WorkInv'
  BY NextWorkInv DEF IInv
<1> QED
  BY InitIInv, NextIInv, <1>1, <1>2, PTL DEF Spec

\* The sender never goes back in its work on an item: there are at most
\* RetryMax attempts (TypeCorrect), of six places each, to go through
\* (_sender_loop).
THEOREM WorkGoesOn == Spec => SenderAdvances
<1> DEFINE Advance ==
      active # None /\ active' = active =>
         \/ attempt' = attempt + 1
         \/ attempt' = attempt /\ Place' > Place
         \/ attempt' = attempt /\ Place' = Place /\ ~SenderStep
<1>1. ASSUME WorkInv, [Next]_vars, active # None, active' = active
      PROVE  \/ attempt' = attempt + 1
             \/ attempt' = attempt /\ Place' > Place
             \/ attempt' = attempt /\ Place' = Place /\ ~SenderStep
  <2> USE <1>1 DEF WorkInv
  <2>1. CASE ~SenderStep
    BY <2>1, OtherSteps DEF Place
  <2>2. ASSUME AttemptLost PROVE sender' = "gap" /\ attempt' = attempt
    BY <2>2 DEF AttemptLost, Finish, Rest
  <2>3. ~Finish("false") /\ ~Finish("true")
    BY DEF Finish, Rest
  <2>4. CASE Take \/ SenderIsCancelled
    BY <2>4 DEF Take, SenderIsCancelled, SenderInv
  <2>5. CASE Transmit
    BY <2>2, <2>3, <2>5 DEF Transmit, Place
  <2>6. CASE SendSucceeds
    BY <2>3, <2>6 DEF SendSucceeds, Place
  <2>7. CASE SendFails
    BY <2>7 DEF SendFails, Place
  <2>8. CASE SenderCloses
    BY <2>2, <2>8 DEF SenderCloses, Place
  <2>9. CASE ConfirmTimeout
    BY <2>9 DEF ConfirmTimeout, Place
  <2>10. CASE Confirmed
    BY <2>3, <2>10 DEF Confirmed
  <2>11. CASE NotConfirmed
    BY <2>2, <2>11 DEF NotConfirmed, Place
  <2>12. CASE NextAttempt
    BY <2>12 DEF NextAttempt
  <2> QED
    BY <2>1, <2>4, <2>5, <2>6, <2>7, <2>8, <2>9, <2>10, <2>11, <2>12 DEF SenderStep
<1>2. WorkInv /\ [Next]_vars => [Advance]_vars
  BY <1>1
<1> QED
  BY <1>2, WorkInvariant, PTL DEF Spec, SenderAdvances

----------------------------------------------------------------------------
(* The sender as Transmission has it.                                      *)
\* The item leaves the sender, with whatever result.
LEMMA RestLine ==
    ASSUME WorkInv, active' = None
    PROVE  Line!Leave \/ UNCHANGED Line!vars
<1>1. /\ LineItem' = None /\ LineAttempt' = 0 /\ LineWaiter' = "none"
  BY NoneIsNoItem DEF LineItem, LineAttempt, LineWaiter, InHand
<1>2. CASE LineItem = None
  <2>1. LineAttempt = 0 /\ LineWaiter = "none"
    BY <1>2, NoneIsNoItem DEF LineItem, LineAttempt, LineWaiter, InHand
  <2> QED
    BY <1>1, <1>2, <2>1 DEF Line!vars
<1>3. CASE LineItem # None
  BY <1>1, <1>3 DEF Line!Leave
<1> QED
  BY <1>2, <1>3

\* The sender gives the attempt up.
LEMMA AttemptLostLine ==
    ASSUME WorkInv, AttemptLost, sender # "gap", sender' # "confirm"
    PROVE  Line!Leave \/ Line!Repeat \/ UNCHANGED Line!vars
<1>1. CASE Finish("false")
  BY <1>1, RestLine DEF Finish, Rest
<1>2. CASE /\ active \in Commands /\ attempt < RetryMax
           /\ sender' = "gap" /\ waiter' = "none" /\ UNCHANGED <<active, attempt>>
  <2>1. attempt \in Nat /\ attempt # RetryMax
    BY <1>2 DEF WorkInv, TypeInv, TypeOK
  <2>2. /\ LineItem = active /\ LineItem' = active
        /\ LineAttempt' = attempt + 1 /\ LineWaiter' = "none"
    BY <1>2, <2>1 DEF LineItem, LineAttempt, LineWaiter, InHand, TimeIsUp
  <2>3. CASE TimeIsUp
    <3>1. LineAttempt = attempt + 1 /\ LineWaiter = "none"
      BY <1>2, <2>1, <2>3 DEF LineAttempt, LineWaiter, InHand
    <3> QED
      BY <2>2, <3>1 DEF Line!vars
  <2>4. CASE ~TimeIsUp
    <3>1. LineAttempt = attempt /\ active # None
      BY <1>2, <2>1, <2>4, NoneIsNoItem DEF LineAttempt, InHand
    <3> QED
      BY <1>2, <2>2, <3>1 DEF Line!Repeat
  <2> QED
    BY <2>3, <2>4
<1> QED
  BY <1>1, <1>2 DEF AttemptLost

LEMMA NextLine == WorkInv /\ [Next]_vars => [Line!Next]_(Line!vars)
<1> SUFFICES ASSUME WorkInv, [Next]_vars PROVE [Line!Next]_(Line!vars)
  OBVIOUS
<1> USE DEF WorkInv
<1>0. attempt \in 0 .. RetryMax
  BY DEF TypeInv, TypeOK
<1>1. ASSUME active' = None PROVE [Line!Next]_(Line!vars)
  BY <1>1, RestLine DEF Line!Next
<1>2. ASSUME active \notin Commands, active' \notin Commands PROVE UNCHANGED Line!vars
  BY <1>2 DEF Line!vars, LineItem, LineAttempt, LineWaiter, InHand
<1>3. ASSUME UNCHANGED <<sender, active, attempt, waiter>> PROVE UNCHANGED Line!vars
  BY <1>3 DEF Line!vars, LineItem, LineAttempt, LineWaiter, InHand, TimeIsUp
<1>4. CASE ~SenderStep
  <2>1. UNCHANGED <<sender, active, attempt>>
    BY <1>4, OtherSteps
  <2>2. CASE waiter' = waiter
    BY <1>3, <2>1, <2>2
  <2>3. CASE waiter = "open" /\ waiter' = "hit" /\ active \in Commands
    <3>1. sender # "gap" /\ ~TimeIsUp /\ ~TimeIsUp'
      BY <2>1, <2>3 DEF SenderInv, TimeIsUp
    <3>2. /\ LineItem' = LineItem /\ LineAttempt' = LineAttempt
          /\ LineWaiter = "open" /\ LineWaiter' = "hit"
      BY <2>1, <2>3, <3>1 DEF LineItem, LineAttempt, LineWaiter, InHand
    <3> QED
      BY <3>2 DEF Line!Next, Line!Hit
  <2>4. CASE waiter' = "none" /\ active = None
    BY <1>2, <2>1, <2>4, NoneIsNoItem
  <2> QED
    BY <1>4, <2>2, <2>3, <2>4, OtherSteps
<1>5. CASE Take
  <2>1. active = None /\ sender = "get" /\ waiter = "none"
    BY <1>5 DEF Take, SenderInv
  <2>2. CASE UNCHANGED senderVars
    BY <1>3, <2>2 DEF senderVars
  <2>3. CASE sender' = "idle" /\ attempt' = 1 /\ waiter' = waiter /\ active' \in Commands
    <3>1. LineItem = None /\ LineItem' = active' /\ LineAttempt' = 1 /\ LineWaiter' = "none"
      BY <2>1, <2>3, NoneIsNoItem DEF LineItem, LineAttempt, LineWaiter, InHand, TimeIsUp
    <3>2. Line!Begin(active')
      BY <3>1 DEF Line!Begin
    <3> QED
      BY <2>3, <3>2 DEF Line!Next
  <2>4. CASE active' \notin Commands
    BY <1>2, <2>1, <2>4, NoneIsNoItem
  <2> QED
    BY <1>5, <2>2, <2>3, <2>4 DEF Take
<1>6. CASE Transmit
  <2>1. sender = "idle" /\ waiter = "none" /\ active # None
    BY <1>6 DEF Transmit, SenderInv
  <2>2. CASE Finish("false")
    BY <1>1, <2>2 DEF Finish, Rest
  <2>3. CASE AttemptLost
    <3>1. sender' # "confirm"
      BY <2>3 DEF AttemptLost, Finish, Rest
    <3> QED
      BY <2>1, <2>3, <3>1, AttemptLostLine DEF Line!Next
  <2>4. CASE /\ sender' = "send" /\ waiter' = "open" /\ active \in Commands
             /\ UNCHANGED <<active, attempt>>
    <3>1. /\ LineItem = active /\ LineItem' = active /\ LineAttempt' = LineAttempt
          /\ LineWaiter = "none" /\ LineWaiter' = "open"
      BY <2>1, <2>4 DEF LineItem, LineAttempt, LineWaiter, InHand, TimeIsUp
    <3> QED
      BY <2>1, <3>1 DEF Line!Next, Line!Send
  <2>5. CASE active \notin Commands /\ active' = active
    BY <1>2, <2>5
  <2> QED
    BY <1>6, <2>2, <2>3, <2>4, <2>5 DEF Transmit
<1>7. CASE SendSucceeds
  <2>1. CASE Finish("true")
    BY <1>1, <2>1 DEF Finish, Rest
  <2>2. CASE sender' = "confirm" /\ UNCHANGED <<active, attempt, waiter>>
    <3>1. ~TimeIsUp /\ ~TimeIsUp' /\ sender # "gap" /\ sender' # "gap"
      BY <1>7, <2>2 DEF SendSucceeds, ExpiredInv, TimeIsUp
    <3> QED
      BY <2>2, <3>1 DEF Line!vars, LineItem, LineAttempt, LineWaiter, InHand
  <2> QED
    BY <1>7, <2>1, <2>2 DEF SendSucceeds
<1>8. CASE SendFails
  <2>1. /\ sender = "send" /\ sender' = "close" /\ UNCHANGED <<active, attempt, waiter>>
    BY <1>8 DEF SendFails
  <2> QED
    BY <2>1 DEF Line!vars, LineItem, LineAttempt, LineWaiter, InHand, TimeIsUp
<1>9. CASE SenderCloses \/ NotConfirmed
  <2>1. AttemptLost /\ sender # "gap"
    BY <1>9 DEF SenderCloses, NotConfirmed
  <2>2. sender' # "confirm"
    BY <2>1 DEF AttemptLost, Finish, Rest
  <2> QED
    BY <2>1, <2>2, AttemptLostLine DEF Line!Next
<1>10. CASE ConfirmTimeout
  <2>1. /\ sender = "confirm" /\ waiter # "expired" /\ waiter' = "expired"
        /\ UNCHANGED <<sender, active, attempt>> /\ active \in Commands /\ active # None
    BY <1>10, NoneIsNoItem DEF ConfirmTimeout, SenderInv
  <2>2. LineItem = active /\ LineAttempt = attempt
    BY <2>1 DEF LineItem, LineAttempt, InHand, TimeIsUp
  <2>3. CASE attempt = RetryMax
    <3>1. LineItem' = None /\ LineAttempt' = 0 /\ LineWaiter' = "none"
      BY <2>1, <2>3 DEF LineItem, LineAttempt, LineWaiter, InHand, TimeIsUp
    <3> QED
      BY <2>1, <2>2, <3>1 DEF Line!Next, Line!Leave
  <2>4. CASE attempt # RetryMax
    <3>1. LineItem' = active /\ LineAttempt' = attempt + 1 /\ LineWaiter' = "none"
      BY <2>1, <2>4 DEF LineItem, LineAttempt, LineWaiter, InHand, TimeIsUp
    <3>2. attempt < RetryMax
      BY <1>0, <2>4
    <3> QED
      BY <2>1, <2>2, <3>1, <3>2 DEF Line!Next, Line!Repeat
  <2> QED
    BY <2>3, <2>4
<1>11. CASE Confirmed \/ SenderIsCancelled
  BY <1>1, <1>11 DEF Confirmed, SenderIsCancelled, Finish, Rest
<1>12. CASE NextAttempt
  <2>1. /\ sender = "gap" /\ sender' = "idle" /\ attempt' = attempt + 1
        /\ UNCHANGED <<active, waiter>> /\ waiter = "none"
    BY <1>12 DEF NextAttempt, SenderInv
  <2> QED
    BY <2>1 DEF Line!vars, LineItem, LineAttempt, LineWaiter, InHand, TimeIsUp
<1> QED
  BY <1>4, <1>5, <1>6, <1>7, <1>8, <1>9, <1>10, <1>11, <1>12 DEF SenderStep

\* The gateway's sender implements Transmission, with any number of commands,
\* attempts, sessions and failures: at most RetryMax transmissions of a
\* command, each settled by the reports that follow it and by no others.
THEOREM SenderTransmits == Spec => Transmits
<1>1. Init => Line!Init
  BY NoneIsNoItem DEF Init, Line!Init, LineItem, LineAttempt, LineWaiter, InHand
<1> QED
  BY <1>1, NextLine, WorkInvariant, PTL DEF Spec, Transmits, Line!Spec
=============================================================================
