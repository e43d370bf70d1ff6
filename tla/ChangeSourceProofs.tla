------------------------ MODULE ChangeSourceProofs ------------------------
(***************************************************************************)
(* The change record for any number of rooms, settings, contexts, frames   *)
(* and labels: a change is compared and attributed within one connection,  *)
(* and recorded exactly once, by the report that showed it, if its room    *)
(* has an entity.                                                          *)
(***************************************************************************)
EXTENDS ChangeSource, SequenceTheorems, TLAPS

USE ChangeAssumption DEF ChangeAssumption

\* What the controller remembers is what was reported over this connection.
SessionInv ==
    /\ conn # "down" => settings = reported
    /\ entities \subseteq {r \in Rooms : registry[r] # None}
    /\ \A r \in Rooms : settings[r] # None =>
         registry[r] # None /\ registry[r].set = settings[r]

\* The number of the label a room's state carries; 0 if there is none.
NumberOf(r) == IF registry[r] = None THEN 0 ELSE registry[r].label.number

\* A label belongs to one room; one that its entity may still record was
\* never recorded; one made for an entity was recorded at once.
RecordInv ==
    /\ \A r \in Rooms : recorded[r] <= sequence /\ NumberOf(r) <= sequence
    /\ \A r, q \in Rooms : NumberOf(r) # 0 /\ NumberOf(r) = NumberOf(q) => r = q
    /\ \A r \in Rooms : recorded[r] < NumberOf(r) => fired[NumberOf(r)] = 0
    /\ \A n \in 1 .. MaxLabels : sequence < n => fired[n] = 0
    /\ RecordedOnce
    /\ RecordedAtOnce

\* The frames of r that are of these kinds.
Seen(r, kinds) == {i \in DOMAIN log : log[i].room = r /\ log[i].kind \in kinds}

IsLast(i, S) == i \in S /\ \A j \in S : j <= i

CommandInv(r) ==
    LET seen == Seen(r, {"integration", "wallpad"})
    IN  /\ commands[r].ours \/ commands[r].context = None
        /\ seen = {} => commands[r].age = Old
        /\ seen # {} => \E i \in seen :
             /\ IsLast(i, seen)
             /\ log[i].age = commands[r].age
             /\ log[i].kind = IF commands[r].ours THEN "integration" ELSE "wallpad"
             /\ log[i].context = commands[r].context

QueryInv(r) ==
    LET seen == Seen(r, {"query"})
    IN  /\ seen = {} => queries[r] = Old
        /\ seen # {} => \E i \in seen : IsLast(i, seen) /\ log[i].age = queries[r]

\* The command and the query that are remembered of a room are the last of
\* its frames, and no later frame is older.
FramesInv ==
    /\ \A i, j \in DOMAIN log : i <= j => log[j].age <= log[i].age
    /\ conn # "down" => \A r \in Rooms : CommandInv(r) /\ QueryInv(r)

ChangeInv == TypeOK /\ SessionInv /\ RecordInv /\ FramesInv

----------------------------------------------------------------------------
(* Typing.                                                                 *)

LEMMA DispatchTyping ==
    ASSUME TypeOK, NEW S \in SUBSET Rooms, NEW D \in [Rooms -> State \cup {None}],
           Dispatch(S, D)
    PROVE  /\ recorded' \in [Rooms -> Numbers]
           /\ fired' \in [1 .. MaxLabels -> Nat]
<1>1. \A r \in Rooms : D[r] # None => D[r].label.number \in Numbers
  BY DEF State, Label, NoLabel, Numbers
<1>2. recorded' \in [Rooms -> Numbers]
  BY <1>1 DEF TypeOK, Dispatch
<1>3. fired' \in [1 .. MaxLabels -> Nat]
  BY DEF TypeOK, Dispatch
<1>. QED
  BY <1>2, <1>3

LEMMA LoggedTyping ==
    ASSUME TypeOK, NEW r \in Rooms, NEW kind \in {"integration", "wallpad", "query"},
           NEW ctx \in Contexts \cup {None}, Logged(r, kind, ctx)
    PROVE  /\ log' \in Seq(Frame) /\ Len(log') = Len(log) + 1
           /\ \A i \in 1 .. Len(log) : log'[i] = log[i]
           /\ log'[Len(log')] = [room |-> r, kind |-> kind, context |-> ctx, age |-> 0]
<1>. DEFINE f == [room |-> r, kind |-> kind, context |-> ctx, age |-> 0]
<1>1. log \in Seq(Frame) /\ f \in Frame /\ log' = Append(log, f)
  BY DEF TypeOK, Logged, Frame, Age, Old
<1>. HIDE DEF f
<1>2. /\ log' \in Seq(Frame) /\ Len(log') = Len(log) + 1
      /\ \A i \in 1 .. Len(log) : log'[i] = log[i]
      /\ log'[Len(log) + 1] = f
  BY <1>1, AppendProperties
<1>. QED
  BY <1>2 DEF f

LEMMA ClearTyping ==
    ASSUME Clear
    PROVE  /\ settings' \in [Rooms -> Settings \cup {None}]
           /\ commands' \in [Rooms -> [age : Age, ours : BOOLEAN, context : Contexts \cup {None}]]
           /\ queries' \in [Rooms -> Age]
  BY DEF Clear, NoCommand, Age, Old

LEMMA ChangeLabelTyping ==
    ASSUME TypeOK, NEW r \in Rooms, NEW s \in Settings, Changes(r, s),
           sequence < MaxLabels
    PROVE  ChangeLabel(r, s) \in Label
<1>1. settings[r] \in Settings /\ commands[r].context \in Contexts \cup {None}
  BY DEF TypeOK, Changes
<1>2. Source(r) \in {"integration", "wallpad", "device", "unknown"}
  BY DEF Source
<1>3. sequence + 1 \in 1 .. MaxLabels
  BY DEF TypeOK, Numbers
<1>. QED
  BY <1>1, <1>2, <1>3 DEF ChangeLabel, Label

LEMMA TickTyping ==
    ASSUME TypeOK, Tick
    PROVE  /\ commands' \in [Rooms -> [age : Age, ours : BOOLEAN, context : Contexts \cup {None}]]
           /\ queries' \in [Rooms -> Age]
           /\ log' \in Seq(Frame) /\ DOMAIN log' = DOMAIN log
           /\ \A i \in DOMAIN log :
                log'[i] = [log[i] EXCEPT !.age = IF @ = Old THEN Old ELSE @ + 1]
<1>. DEFINE older(a) == IF a = Old THEN Old ELSE a + 1
<1>1. \A a \in Age : older(a) \in Age
  BY DEF Age, Old
<1>2. /\ commands' = [r \in Rooms |-> [commands[r] EXCEPT !.age = older(@)]]
      /\ queries' = [r \in Rooms |-> older(queries[r])]
      /\ log' = [i \in DOMAIN log |-> [log[i] EXCEPT !.age = older(@)]]
  BY DEF Tick
<1>. HIDE DEF older
<1>3. queries' \in [Rooms -> Age]
  BY <1>1, <1>2 DEF TypeOK
<1>4. commands' \in [Rooms -> [age : Age, ours : BOOLEAN, context : Contexts \cup {None}]]
  <2>. SUFFICES ASSUME NEW r \in Rooms
                PROVE  [commands[r] EXCEPT !.age = older(@)]
                         \in [age : Age, ours : BOOLEAN, context : Contexts \cup {None}]
    BY <1>2
  <2>. QED
    BY <1>1 DEF TypeOK
<1>5. /\ log \in Seq(Frame) /\ Len(log) \in Nat /\ DOMAIN log = 1 .. Len(log)
      /\ \A i \in 1 .. Len(log) : log[i] \in Frame
  BY DEF TypeOK
<1>6. \A i \in 1 .. Len(log) : log'[i] \in Frame
  <2>. SUFFICES ASSUME NEW i \in 1 .. Len(log)
                PROVE  [log[i] EXCEPT !.age = older(@)] \in Frame
    BY <1>2, <1>5
  <2>. QED
    BY <1>1, <1>5 DEF Frame
<1>7. log' \in Seq(Frame) /\ DOMAIN log' = DOMAIN log
  BY <1>2, <1>5, <1>6
<1>. QED
  BY <1>2, <1>3, <1>4, <1>7 DEF older

\* What a report leaves behind.
LEMMA ReportTyping ==
    ASSUME TypeOK, NEW r \in Rooms, NEW s \in Settings, NEW t \in Temps,
           Report(r, s, t)
    PROVE  TypeOK'
<1>. DEFINE dev == [set |-> s, temp |-> t,
                    label |-> IF Changes(r, s) THEN ChangeLabel(r, s) ELSE NoLabel]
<1>1. dev \in State
  BY ChangeLabelTyping DEF Report, State
<1>. DEFINE D == [registry EXCEPT ![r] = dev]
<1>2. D \in [Rooms -> State \cup {None}]
  BY <1>1 DEF TypeOK
<1>3. registry' \in [Rooms -> State \cup {None}]
  BY <1>2 DEF TypeOK, Report
<1>4. recorded' \in [Rooms -> Numbers] /\ fired' \in [1 .. MaxLabels -> Nat]
  <2>1. Dispatch({r}, D) \/ UNCHANGED <<recorded, fired>>
    BY DEF Report, Publish
  <2>. HIDE DEF D
  <2>. QED
    BY <2>1, <1>2, DispatchTyping DEF TypeOK
<1>5. sequence' \in Numbers /\ unheard' \subseteq Numbers
  BY DEF TypeOK, Report, Numbers
<1>6. settings' \in [Rooms -> Settings \cup {None}] /\ reported' \in [Rooms -> Settings \cup {None}]
  BY DEF TypeOK, Report
<1>7. entities' \subseteq Rooms /\ UNCHANGED <<conn, commands, queries, ready, log>>
  BY DEF TypeOK, Report
<1>. QED
  BY <1>3, <1>4, <1>5, <1>6, <1>7 DEF TypeOK

LEMMA Typing == TypeOK /\ [Next]_vars => TypeOK'
<1>. SUFFICES ASSUME TypeOK, [Next]_vars PROVE TypeOK'
  OBVIOUS
<1>1. ASSUME NEW r \in Rooms, NEW ctx \in Contexts \cup {None}, CommandSent(r, ctx)
      PROVE  TypeOK'
  <2>1. log' \in Seq(Frame)
    <3>1. Logged(r, "integration", ctx)
      BY <1>1 DEF CommandSent
    <3>. QED
      BY <3>1, LoggedTyping
  <2>2. commands' \in [Rooms -> [age : Age, ours : BOOLEAN, context : Contexts \cup {None}]]
    BY <1>1 DEF TypeOK, CommandSent, Age, Old
  <2>. QED
    BY <1>1, <2>1, <2>2 DEF TypeOK, CommandSent, entityVars
<1>2. ASSUME NEW r \in Rooms, CommandHeard(r) PROVE TypeOK'
  <2>1. log' \in Seq(Frame)
    <3>1. Logged(r, "wallpad", None)
      BY <1>2 DEF CommandHeard
    <3>. QED
      BY <3>1, LoggedTyping
  <2>2. commands' \in [Rooms -> [age : Age, ours : BOOLEAN, context : Contexts \cup {None}]]
    BY <1>2 DEF TypeOK, CommandHeard, Age, Old
  <2>. QED
    BY <1>2, <2>1, <2>2 DEF TypeOK, CommandHeard, entityVars
<1>3. ASSUME NEW r \in Rooms, Query(r) PROVE TypeOK'
  <2>1. log' \in Seq(Frame)
    <3>1. Logged(r, "query", None)
      BY <1>3 DEF Query
    <3>. QED
      BY <3>1, LoggedTyping
  <2>2. queries' \in [Rooms -> Age]
    BY <1>3 DEF TypeOK, Query, Age, Old
  <2>. QED
    BY <1>3, <2>1, <2>2 DEF TypeOK, Query, entityVars
<1>4. ASSUME NEW r \in Rooms, NEW s \in Settings, NEW t \in Temps, Report(r, s, t)
      PROVE  TypeOK'
  BY <1>4, ReportTyping
<1>5. CASE Lose
  BY <1>5 DEF TypeOK, Lose, recordVars, entityVars
<1>6. CASE SyncDown
  <2>1. Dispatch(Rooms, registry) /\ registry \in [Rooms -> State \cup {None}] /\ Clear
    BY <1>6 DEF SyncDown, TypeOK
  <2>2. recorded' \in [Rooms -> Numbers] /\ fired' \in [1 .. MaxLabels -> Nat]
    BY <2>1, DispatchTyping
  <2>. QED
    BY <1>6, <2>1, <2>2, ClearTyping DEF TypeOK, SyncDown
<1>7. CASE Open
  <2>1. Dispatch(Rooms, registry) /\ registry \in [Rooms -> State \cup {None}] /\ Clear
    BY <1>7 DEF Open, TypeOK
  <2>2. recorded' \in [Rooms -> Numbers] /\ fired' \in [1 .. MaxLabels -> Nat]
    BY <2>1, DispatchTyping
  <2>3. log' \in Seq(Frame) /\ reported' \in [Rooms -> Settings \cup {None}]
    BY <1>7 DEF Open
  <2>. QED
    BY <1>7, <2>1, <2>2, <2>3, ClearTyping DEF TypeOK, Open
<1>8. CASE SetUp
  BY <1>8 DEF TypeOK, SetUp, recordVars
<1>9. CASE Tick
  BY <1>9, TickTyping DEF TypeOK, Tick, entityVars
<1>10. CASE UNCHANGED vars
  BY <1>10 DEF TypeOK, vars, recordVars, entityVars
<1>. QED
  BY <1>1, <1>2, <1>3, <1>4, <1>5, <1>6, <1>7, <1>8, <1>9, <1>10 DEF Next

----------------------------------------------------------------------------
(* What is remembered belongs to the connection.                           *)

LEMMA Session == TypeOK /\ SessionInv /\ [Next]_vars => SessionInv'
<1>. SUFFICES ASSUME TypeOK, SessionInv, [Next]_vars PROVE SessionInv'
  OBVIOUS
<1>1. ASSUME NEW r \in Rooms, NEW s \in Settings, NEW t \in Temps, Report(r, s, t)
      PROVE  SessionInv'
  <2>. DEFINE dev == [set |-> s, temp |-> t,
                      label |-> IF Changes(r, s) THEN ChangeLabel(r, s) ELSE NoLabel]
              changed == registry[r] = None \/ registry[r].set # s \/ registry[r].temp # t
  <2>1. dev # None /\ dev.set = s
    <3>1. dev \in State
      BY <1>1, ChangeLabelTyping DEF Report, State
    <3>. QED
      BY <3>1
  <2>2. registry' = IF changed THEN [registry EXCEPT ![r] = dev] ELSE registry
    BY <1>1 DEF Report
  <2>3. registry'[r] # None /\ registry'[r].set = s
    BY <2>1, <2>2 DEF TypeOK
  <2>4. \A q \in Rooms \ {r} : registry'[q] = registry[q] /\ settings'[q] = settings[q]
    BY <1>1, <2>2 DEF TypeOK, Report
  <2>5. settings'[r] = s
    BY <1>1 DEF TypeOK, Report
  <2>6. entities' \subseteq entities \cup {r}
    BY <1>1 DEF Report
  <2>7. conn # "down" /\ conn' = conn /\ settings' = reported'
    BY <1>1 DEF Report, SessionInv
  <2>. QED
    BY <2>3, <2>4, <2>5, <2>6, <2>7 DEF SessionInv
<1>2. ASSUME NEW r \in Rooms, NEW ctx \in Contexts \cup {None},
             CommandSent(r, ctx) \/ CommandHeard(r) \/ Query(r)
      PROVE  SessionInv'
  BY <1>2 DEF SessionInv, CommandSent, CommandHeard, Query, entityVars
<1>3. CASE Lose \/ Tick \/ UNCHANGED vars
  BY <1>3 DEF SessionInv, Lose, Tick, vars, recordVars, entityVars
<1>4. CASE SyncDown
  BY <1>4 DEF SessionInv, SyncDown, Clear
<1>5. CASE Open
  BY <1>5 DEF SessionInv, Open, Clear
<1>6. CASE SetUp
  BY <1>6 DEF SessionInv, SetUp, recordVars
<1>. QED
  BY <1>1, <1>2, <1>3, <1>4, <1>5, <1>6 DEF Next

----------------------------------------------------------------------------
(* Every change is recorded once.                                          *)

\* RecordInv, said of states D and a last number top.
NumberIn(D, r) == IF D[r] = None THEN 0 ELSE D[r].label.number

Fresh(D, top) ==
    /\ \A r \in Rooms : recorded[r] <= top /\ NumberIn(D, r) <= top
    /\ \A r, q \in Rooms : NumberIn(D, r) # 0 /\ NumberIn(D, r) = NumberIn(D, q) => r = q
    /\ \A r \in Rooms : recorded[r] < NumberIn(D, r) => fired[NumberIn(D, r)] = 0
    /\ \A n \in 1 .. MaxLabels : top < n => fired[n] = 0
    /\ RecordedOnce

\* A dispatch records what is new in the states of the rooms that have an
\* entity, and nothing twice.
LEMMA DispatchRecords ==
    ASSUME TypeOK, NEW S \in SUBSET Rooms, NEW D \in [Rooms -> State \cup {None}],
           NEW top \in Numbers, Fresh(D, top), Dispatch(S, D)
    PROVE  /\ \A r \in Rooms : recorded'[r] <= top
           /\ \A r \in Rooms : recorded'[r] < NumberIn(D, r) => fired'[NumberIn(D, r)] = 0
           /\ \A n \in 1 .. MaxLabels : top < n => fired'[n] = 0
           /\ \A n \in 1 .. MaxLabels : fired'[n] <= 1
           /\ \A n \in 1 .. MaxLabels : fired[n] <= fired'[n]
           /\ \A r \in S : r \in entities /\ recorded[r] < NumberIn(D, r)
                => fired'[NumberIn(D, r)] = 1
<1>. DEFINE N(r) == NumberIn(D, r)
            news == {r \in S : r \in entities /\ recorded[r] < N(r)}
<1>1. \A r \in Rooms : N(r) \in Numbers /\ recorded[r] \in Numbers
  BY DEF State, Label, NoLabel, Numbers, NumberIn, TypeOK
<1>2. news = {r \in S : D[r] # None /\ IsNews(r, D[r].label)}
  BY <1>1 DEF IsNews, NumberIn, TypeOK, Numbers
<1>3. \A r \in news : N(r) = D[r].label.number /\ N(r) \in 1 .. MaxLabels /\ fired[N(r)] = 0
  <2>. SUFFICES ASSUME NEW r \in news
                PROVE  N(r) = D[r].label.number /\ N(r) \in 1 .. MaxLabels /\ fired[N(r)] = 0
    OBVIOUS
  <2>1. r \in Rooms /\ recorded[r] < N(r)
    OBVIOUS
  <2>2. N(r) \in 1 .. MaxLabels
    BY <2>1, <1>1 DEF Numbers
  <2>3. fired[N(r)] = 0
    BY <2>1 DEF Fresh
  <2>4. N(r) = D[r].label.number
    BY <2>2 DEF NumberIn
  <2>. QED
    BY <2>2, <2>3, <2>4
<1>4. recorded' = [r \in Rooms |-> IF r \in news THEN N(r) ELSE recorded[r]]
  BY <1>2, <1>3 DEF Dispatch
<1>5. fired' = [n \in 1 .. MaxLabels |->
                  IF \E r \in news : N(r) = n THEN fired[n] + 1 ELSE fired[n]]
  <2>. HIDE DEF N
  <2>. QED
    BY <1>2, <1>3 DEF Dispatch
<1>6. /\ \A r \in Rooms : recorded[r] <= top /\ N(r) <= top
      /\ \A r, q \in Rooms : N(r) # 0 /\ N(r) = N(q) => r = q
      /\ \A r \in Rooms : recorded[r] < N(r) => fired[N(r)] = 0
      /\ \A n \in 1 .. MaxLabels : top < n => fired[n] = 0
      /\ \A n \in 1 .. MaxLabels : fired[n] <= 1 /\ fired[n] \in Nat
  BY DEF Fresh, RecordedOnce, TypeOK
<1>7. news \subseteq Rooms /\ \A r \in S : r \in news <=> r \in entities /\ recorded[r] < N(r)
  OBVIOUS
<1>. HIDE DEF N, news
<1>8. \A r \in Rooms : recorded'[r] <= top
  BY <1>4, <1>6
<1>9. ASSUME NEW r \in Rooms, recorded'[r] < N(r)
      PROVE  fired'[N(r)] = 0
  <2>1. r \notin news /\ recorded[r] < N(r)
    BY <1>1, <1>4, <1>9 DEF Numbers
  <2>2. N(r) \in 1 .. MaxLabels /\ fired[N(r)] = 0
    BY <2>1, <1>1, <1>6 DEF Numbers
  <2>3. ~ \E q \in news : N(q) = N(r)
    BY <2>1, <2>2, <1>6, <1>7
  <2>. QED
    BY <2>2, <2>3, <1>5
<1>10. \A n \in 1 .. MaxLabels : top < n => fired'[n] = 0
  <2>. SUFFICES ASSUME NEW n \in 1 .. MaxLabels, top < n PROVE fired'[n] = 0
    OBVIOUS
  <2>1. ~ \E q \in news : N(q) = n
    BY <1>1, <1>6, <1>7 DEF Numbers
  <2>. QED
    BY <2>1, <1>5, <1>6
<1>11. \A n \in 1 .. MaxLabels : fired'[n] <= 1 /\ fired[n] <= fired'[n]
  BY <1>3, <1>5, <1>6
<1>12. \A r \in news : fired'[N(r)] = 1
  BY <1>3, <1>5
<1>. QED
  BY <1>7, <1>8, <1>9, <1>10, <1>11, <1>12 DEF N

LEMMA Recorded == TypeOK /\ SessionInv /\ RecordInv /\ [Next]_vars => RecordInv'
<1>. SUFFICES ASSUME TypeOK, SessionInv, RecordInv, [Next]_vars PROVE RecordInv'
  OBVIOUS
<1>1. Fresh(registry, sequence)
  BY DEF Fresh, RecordInv, NumberOf, NumberIn
<1>2. ASSUME NEW r \in Rooms, NEW s \in Settings, NEW t \in Temps, Report(r, s, t)
      PROVE  RecordInv'
  <2>. DEFINE dev == [set |-> s, temp |-> t,
                      label |-> IF Changes(r, s) THEN ChangeLabel(r, s) ELSE NoLabel]
              changed == registry[r] = None \/ registry[r].set # s \/ registry[r].temp # t
              D == [registry EXCEPT ![r] = dev]
              n == sequence + 1
  <2>1. dev \in State /\ dev # None
    BY <1>2, ChangeLabelTyping DEF Report, State
  <2>2. dev.label.number = IF Changes(r, s) THEN n ELSE 0
    BY DEF ChangeLabel, NoLabel
  <2>3. D \in [Rooms -> State \cup {None}] /\ D[r] = dev
        /\ \A q \in Rooms \ {r} : D[q] = registry[q]
    BY <2>1 DEF TypeOK
  <2>4. Changes(r, s) => registry[r] # None /\ registry[r].set # s
    BY DEF Changes, SessionInv
  <2>5. registry' = IF changed THEN D ELSE registry
    BY <1>2 DEF Report
  <2>6. registry[r] # None => UNCHANGED entities /\ Publish(r, dev, changed)
    BY <1>2 DEF Report
  <2>7. registry[r] = None => r \notin entities /\ UNCHANGED <<recorded, fired>>
    BY <1>2 DEF Report, SessionInv
  <2>8. /\ sequence' = IF Changes(r, s) THEN n ELSE sequence
        /\ Changes(r, s) => n \in 1 .. MaxLabels
        /\ unheard' = IF Changes(r, s) /\ r \notin entities THEN unheard \cup {n} ELSE unheard
    BY <1>2 DEF Report, TypeOK, Numbers
  <2>9. registry[r] # None => Dispatch({r}, D) \/ (~changed /\ UNCHANGED <<recorded, fired>>)
    BY <2>6 DEF Publish
  <2>10. sequence \in Nat /\ sequence <= sequence' /\ sequence' \in Numbers
    BY <2>8 DEF TypeOK, Numbers
  <2>11. \A q \in Rooms : NumberIn(D, q) =
             IF q = r THEN IF Changes(r, s) THEN n ELSE 0 ELSE NumberIn(registry, q)
    BY <2>1, <2>2, <2>3 DEF NumberIn
  <2>. HIDE DEF dev, D, changed
  <2>12. Fresh(D, sequence')
    <3>1. \A q \in Rooms : /\ NumberIn(registry, q) \in Nat /\ recorded[q] \in Nat
                          /\ recorded[q] <= sequence /\ NumberIn(registry, q) <= sequence
      BY <1>1 DEF Fresh, NumberIn, TypeOK, State, Label, NoLabel, Numbers
    <3>2. \A q \in Rooms : recorded[q] <= sequence' /\ NumberIn(D, q) <= sequence'
      BY <2>8, <2>10, <2>11, <3>1
    <3>3. \A p, q \in Rooms : NumberIn(D, q) # 0 /\ NumberIn(D, q) = NumberIn(D, p) => q = p
      BY <1>1, <2>10, <2>11, <3>1 DEF Fresh
    <3>4. \A q \in Rooms : recorded[q] < NumberIn(D, q) => fired[NumberIn(D, q)] = 0
      BY <1>1, <2>8, <2>10, <2>11, <3>1 DEF Fresh
    <3>5. \A m \in 1 .. MaxLabels : sequence' < m => fired[m] = 0
      BY <1>1, <2>10 DEF Fresh, Numbers
    <3>. QED
      BY <1>1, <3>2, <3>3, <3>4, <3>5 DEF Fresh
  <2>13. \A m \in 1 .. MaxLabels : m \notin unheard /\ m <= sequence => fired[m] >= 1
    BY <2>10 DEF RecordInv, RecordedAtOnce
  <2>14. CASE registry[r] = None
    <3>1. ~Changes(r, s) /\ registry' = D
      BY <2>4, <2>5, <2>14 DEF changed
    <3>. QED
      BY <2>7, <2>8, <2>12, <2>13, <2>14, <3>1
         DEF Fresh, RecordInv, NumberOf, NumberIn, RecordedOnce, RecordedAtOnce
  <2>15. CASE registry[r] # None /\ ~changed /\ UNCHANGED <<recorded, fired>>
    <3>1. ~Changes(r, s)
      BY <2>4, <2>15 DEF changed
    <3>. QED
      BY <1>1, <2>5, <2>8, <2>13, <2>15, <3>1
         DEF Fresh, RecordInv, NumberOf, NumberIn, RecordedOnce, RecordedAtOnce
  <2>16. CASE Dispatch({r}, D)
    <3>1. /\ \A q \in Rooms : recorded'[q] <= sequence'
          /\ \A q \in Rooms : recorded'[q] < NumberIn(D, q) => fired'[NumberIn(D, q)] = 0
          /\ \A m \in 1 .. MaxLabels : sequence' < m => fired'[m] = 0
          /\ \A m \in 1 .. MaxLabels : fired'[m] <= 1
          /\ \A m \in 1 .. MaxLabels : fired[m] <= fired'[m]
          /\ r \in entities /\ recorded[r] < NumberIn(D, r) => fired'[NumberIn(D, r)] = 1
      <4>1. {r} \in SUBSET Rooms
        OBVIOUS
      <4>. QED
        BY <4>1, <2>3, <2>10, <2>12, <2>16, DispatchRecords
    <3>2. \A m \in 1 .. sequence' : m \notin unheard' => fired'[m] >= 1
      <4>. SUFFICES ASSUME NEW m \in 1 .. sequence', m \notin unheard' PROVE fired'[m] >= 1
        OBVIOUS
      <4>1. m \in 1 .. MaxLabels /\ fired[m] \in Nat /\ fired'[m] \in Nat
        <5>1. {r} \in SUBSET Rooms
          OBVIOUS
        <5>2. fired' \in [1 .. MaxLabels -> Nat]
          BY <5>1, <2>3, <2>16, DispatchTyping
        <5>. QED
          BY <5>2, <2>10 DEF Numbers, TypeOK
      <4>2. CASE m <= sequence
        BY <4>1, <4>2, <2>8, <2>13, <3>1
      <4>3. CASE m > sequence
        <5>1. Changes(r, s) /\ m = n /\ r \in entities
          BY <4>3, <2>8, <2>10
        <5>2. NumberIn(D, r) = n /\ recorded[r] <= sequence
          BY <5>1, <2>11, <1>1 DEF Fresh
        <5>. QED
          BY <5>1, <5>2, <3>1, <2>10 DEF TypeOK, Numbers
      <4>. QED
        BY <4>2, <4>3, <2>10
    <3>3. CASE changed
      BY <2>5, <2>12, <3>1, <3>2, <3>3
         DEF Fresh, RecordInv, NumberOf, NumberIn, RecordedOnce, RecordedAtOnce
    <3>4. CASE ~changed
      <4>1. registry' = registry /\ ~Changes(r, s) /\ sequence' = sequence
        BY <2>4, <2>5, <2>8, <3>4 DEF changed
      <4>2. \A q \in {r} : ~ (D[q] # None /\ IsNews(q, D[q].label))
        BY <2>1, <2>2, <2>3, <4>1 DEF IsNews, TypeOK, Numbers
      <4>3. recorded' = recorded /\ fired' = fired
        BY <2>16, <4>2 DEF Dispatch, TypeOK
      <4>. QED
        BY <1>1, <4>1, <4>3, <3>1, <3>2
           DEF Fresh, RecordInv, NumberOf, NumberIn, RecordedOnce, RecordedAtOnce
    <3>. QED
      BY <3>3, <3>4
  <2>. QED
    BY <2>9, <2>14, <2>15, <2>16
<1>3. ASSUME Dispatch(Rooms, registry), UNCHANGED <<sequence, registry, unheard>>
      PROVE  RecordInv'
  <2>1. /\ \A r \in Rooms : recorded'[r] <= sequence
        /\ \A r \in Rooms : recorded'[r] < NumberIn(registry, r)
             => fired'[NumberIn(registry, r)] = 0
        /\ \A n \in 1 .. MaxLabels : sequence < n => fired'[n] = 0
        /\ \A n \in 1 .. MaxLabels : fired'[n] <= 1
        /\ \A n \in 1 .. MaxLabels : fired[n] <= fired'[n]
    <3>1. Rooms \in SUBSET Rooms /\ registry \in [Rooms -> State \cup {None}]
          /\ sequence \in Numbers
      BY DEF TypeOK
    <3>. QED
      BY <1>1, <1>3, <3>1, DispatchRecords
  <2>2. fired' \in [1 .. MaxLabels -> Nat]
    BY <1>3, DispatchTyping DEF TypeOK
  <2>3. \A n \in 1 .. sequence : n \notin unheard => fired'[n] >= 1
    BY <2>1, <2>2 DEF RecordInv, RecordedAtOnce, TypeOK, Numbers
  <2>. QED
    BY <1>1, <1>3, <2>1, <2>3
       DEF Fresh, RecordInv, NumberOf, NumberIn, RecordedOnce, RecordedAtOnce
<1>4. CASE SyncDown \/ Open
  BY <1>3, <1>4 DEF SyncDown, Open
<1>5. CASE UNCHANGED <<sequence, registry, recorded, fired, unheard>>
  BY <1>5 DEF RecordInv, NumberOf, RecordedOnce, RecordedAtOnce
<1>6. ASSUME NEW r \in Rooms, NEW ctx \in Contexts \cup {None},
             CommandSent(r, ctx) \/ CommandHeard(r) \/ Query(r)
      PROVE  RecordInv'
  BY <1>5, <1>6 DEF CommandSent, CommandHeard, Query, entityVars
<1>7. CASE Lose \/ Tick \/ SetUp \/ UNCHANGED vars
  BY <1>5, <1>7 DEF Lose, Tick, SetUp, vars, entityVars
<1>. QED
  BY <1>2, <1>4, <1>6, <1>7 DEF Next

----------------------------------------------------------------------------
(* What is remembered of a room is its last frame.                         *)

\* A frame is appended: it is the last of its room and its kinds.
LEMMA LoggedLast ==
    ASSUME TypeOK, NEW r \in Rooms, NEW kind \in {"integration", "wallpad", "query"},
           NEW ctx \in Contexts \cup {None}, Logged(r, kind, ctx)
    PROVE  /\ (\A i, j \in DOMAIN log : i <= j => log[j].age <= log[i].age)
                => \A i, j \in DOMAIN log' : i <= j => log'[j].age <= log'[i].age
           /\ \A kinds : kind \in kinds =>
                IsLast(Len(log'), Seen(r, kinds)')
           /\ \A kinds, q : kind \notin kinds \/ q # r => Seen(q, kinds)' = Seen(q, kinds)
           /\ \A i \in DOMAIN log : log'[i] = log[i]
           /\ log'[Len(log')] = [room |-> r, kind |-> kind, context |-> ctx, age |-> 0]
<1>. DEFINE f == [room |-> r, kind |-> kind, context |-> ctx, age |-> 0]
            L == Len(log)
<1>1. /\ log' \in Seq(Frame) /\ Len(log') = L + 1
      /\ \A i \in 1 .. L : log'[i] = log[i]
      /\ log'[L + 1] = f
  BY LoggedTyping
<1>2. log \in Seq(Frame) /\ L \in Nat /\ DOMAIN log = 1 .. L /\ DOMAIN log' = 1 .. L + 1
  BY <1>1 DEF TypeOK
<1>3. \A i \in 1 .. L : log[i].age \in Nat
  <2>1. \A i \in 1 .. L : log[i] \in Frame
    BY <1>2
  <2>. QED
    BY <2>1 DEF Frame, Age, Old
<1>. HIDE DEF L
<1>4. (\A i, j \in 1 .. L : i <= j => log[j].age <= log[i].age)
        => \A i, j \in 1 .. L + 1 : i <= j => log'[j].age <= log'[i].age
  BY <1>1, <1>2, <1>3
<1>5. f.room = r /\ f.kind = kind
  OBVIOUS
<1>. HIDE DEF f
<1>6. ASSUME NEW kinds, kind \in kinds PROVE IsLast(L + 1, Seen(r, kinds)')
  BY <1>1, <1>2, <1>5, <1>6 DEF IsLast, Seen
<1>7. ASSUME NEW kinds, NEW q, kind \notin kinds \/ q # r
      PROVE  Seen(q, kinds)' = Seen(q, kinds)
  BY <1>1, <1>2, <1>5, <1>7 DEF Seen
<1>. QED
  BY <1>1, <1>2, <1>4, <1>6, <1>7 DEF f

\* A frame of other rooms or kinds does not disturb what is remembered.
LEMMA CommandKept ==
    ASSUME NEW r \in Rooms, CommandInv(r), commands'[r] = commands[r],
           Seen(r, {"integration", "wallpad"})' = Seen(r, {"integration", "wallpad"}),
           \A i \in DOMAIN log : log'[i] = log[i]
    PROVE  CommandInv(r)'
<1>1. \A i \in Seen(r, {"integration", "wallpad"}) : log'[i] = log[i]
  BY DEF Seen
<1>. QED
  BY <1>1 DEF CommandInv, IsLast

LEMMA QueryKept ==
    ASSUME NEW r \in Rooms, QueryInv(r), queries'[r] = queries[r],
           Seen(r, {"query"})' = Seen(r, {"query"}),
           \A i \in DOMAIN log : log'[i] = log[i]
    PROVE  QueryInv(r)'
<1>1. \A i \in Seen(r, {"query"}) : log'[i] = log[i]
  BY DEF Seen
<1>. QED
  BY <1>1 DEF QueryInv, IsLast

\* The command of r that was noted is its last command.
LEMMA CommandNoted ==
    ASSUME TypeOK, FramesInv, conn # "down", conn' = conn,
           NEW r \in Rooms, NEW ours \in BOOLEAN, NEW ctx \in Contexts \cup {None},
           ours \/ ctx = None,
           Logged(r, IF ours THEN "integration" ELSE "wallpad", ctx),
           commands' = [commands EXCEPT ![r] = [age |-> 0, ours |-> ours, context |-> ctx]],
           queries' = queries
    PROVE  FramesInv'
<1>. DEFINE kind == IF ours THEN "integration" ELSE "wallpad"
            kinds == {"integration", "wallpad"}
<1>1. kind \in {"integration", "wallpad", "query"} /\ kind \in kinds /\ kind \notin {"query"}
  OBVIOUS
<1>. HIDE DEF kinds
<1>2. /\ \A i, j \in DOMAIN log' : i <= j => log'[j].age <= log'[i].age
      /\ IsLast(Len(log'), Seen(r, kinds)')
      /\ \A q : q # r => Seen(q, kinds)' = Seen(q, kinds)
      /\ \A q : Seen(q, {"query"})' = Seen(q, {"query"})
      /\ \A i \in DOMAIN log : log'[i] = log[i]
      /\ log'[Len(log')] = [room |-> r, kind |-> kind, context |-> ctx, age |-> 0]
  <2>. HIDE DEF kind
  <2>1. Logged(r, kind, ctx)
    BY DEF kind
  <2>. QED
    BY <1>1, <2>1, LoggedLast DEF FramesInv
<1>3. ASSUME NEW q \in Rooms PROVE QueryInv(q)'
  BY <1>2, QueryKept DEF FramesInv
<1>4. ASSUME NEW q \in Rooms \ {r} PROVE CommandInv(q)'
  <2>1. commands'[q] = commands[q] /\ CommandInv(q)
    BY DEF TypeOK, FramesInv
  <2>. QED
    BY <1>2, <2>1, CommandKept DEF kinds
<1>5. CommandInv(r)'
  <2>1. commands'[r] = [age |-> 0, ours |-> ours, context |-> ctx]
    BY DEF TypeOK
  <2>2. Len(log') \in Seen(r, kinds)'
    BY <1>2 DEF IsLast
  <2>. QED
    BY <1>2, <2>1, <2>2 DEF CommandInv, kinds
<1>. QED
  BY <1>2, <1>3, <1>4, <1>5 DEF FramesInv

LEMMA Remembered == TypeOK /\ FramesInv /\ [Next]_vars => FramesInv'
<1>. SUFFICES ASSUME TypeOK, FramesInv, [Next]_vars PROVE FramesInv'
  OBVIOUS
<1>1. ASSUME NEW r \in Rooms, NEW ctx \in Contexts \cup {None}, CommandSent(r, ctx)
      PROVE  FramesInv'
  <2>1. /\ conn # "down" /\ conn' = conn /\ queries' = queries
        /\ Logged(r, IF TRUE THEN "integration" ELSE "wallpad", ctx)
        /\ commands' = [commands EXCEPT ![r] = [age |-> 0, ours |-> TRUE, context |-> ctx]]
    BY <1>1 DEF CommandSent
  <2>. QED
    BY <2>1, CommandNoted
<1>2. ASSUME NEW r \in Rooms, CommandHeard(r) PROVE FramesInv'
  <2>1. /\ conn # "down" /\ conn' = conn /\ queries' = queries
        /\ Logged(r, IF FALSE THEN "integration" ELSE "wallpad", None)
        /\ commands' = [commands EXCEPT ![r] = [age |-> 0, ours |-> FALSE, context |-> None]]
    BY <1>2 DEF CommandHeard
  <2>. QED
    BY <2>1, CommandNoted
<1>3. ASSUME NEW r \in Rooms, Query(r) PROVE FramesInv'
  <2>1. conn # "down" /\ conn' = conn /\ commands' = commands
        /\ queries' = [queries EXCEPT ![r] = 0] /\ Logged(r, "query", None)
    BY <1>3 DEF Query
  <2>2. /\ \A i, j \in DOMAIN log' : i <= j => log'[j].age <= log'[i].age
        /\ IsLast(Len(log'), Seen(r, {"query"})')
        /\ \A q : q # r => Seen(q, {"query"})' = Seen(q, {"query"})
        /\ \A q : Seen(q, {"integration", "wallpad"})' = Seen(q, {"integration", "wallpad"})
        /\ \A i \in DOMAIN log : log'[i] = log[i]
        /\ log'[Len(log')] = [room |-> r, kind |-> "query", context |-> None, age |-> 0]
    <3>1. "query" \in {"query"} /\ "query" \notin {"integration", "wallpad"}
      OBVIOUS
    <3>. QED
      BY <2>1, <3>1, LoggedLast DEF FramesInv
  <2>3. ASSUME NEW q \in Rooms PROVE CommandInv(q)'
    BY <2>1, <2>2, CommandKept DEF FramesInv
  <2>4. ASSUME NEW q \in Rooms \ {r} PROVE QueryInv(q)'
    <3>1. queries'[q] = queries[q] /\ QueryInv(q)
      BY <2>1 DEF TypeOK, FramesInv
    <3>. QED
      BY <2>2, <3>1, QueryKept
  <2>5. QueryInv(r)'
    <3>1. queries'[r] = 0 /\ Len(log') \in Seen(r, {"query"})'
      BY <2>1, <2>2 DEF TypeOK, IsLast
    <3>. QED
      BY <2>2, <3>1 DEF QueryInv
  <2>. QED
    BY <2>2, <2>3, <2>4, <2>5 DEF FramesInv
<1>4. CASE Tick
  <2>. DEFINE older(a) == IF a = Old THEN Old ELSE a + 1
  <2>1. /\ log' \in Seq(Frame) /\ DOMAIN log' = DOMAIN log
        /\ \A i \in DOMAIN log : log'[i] = [log[i] EXCEPT !.age = older(@)]
    BY <1>4, TickTyping
  <2>2. /\ \A r \in Rooms : commands'[r] = [commands[r] EXCEPT !.age = older(@)]
        /\ \A r \in Rooms : queries'[r] = older(queries[r])
        /\ conn' = conn
    BY <1>4 DEF Tick
  <2>3. \A i \in DOMAIN log : log[i] \in Frame
    BY DEF TypeOK
  <2>4. \A a, b \in Age : a <= b => older(a) <= older(b)
    BY DEF Age, Old
  <2>5. older(Old) = Old
    OBVIOUS
  <2>. HIDE DEF older
  <2>6. \A i \in DOMAIN log : /\ log'[i].room = log[i].room /\ log'[i].kind = log[i].kind
                              /\ log'[i].context = log[i].context
                              /\ log'[i].age = older(log[i].age) /\ log[i].age \in Age
    BY <2>1, <2>3 DEF Frame
  <2>7. \A r \in Rooms : /\ commands'[r].age = older(commands[r].age)
                         /\ commands'[r].ours = commands[r].ours
                         /\ commands'[r].context = commands[r].context
    <3>. SUFFICES ASSUME NEW r \in Rooms
                  PROVE  /\ commands'[r].age = older(commands[r].age)
                         /\ commands'[r].ours = commands[r].ours
                         /\ commands'[r].context = commands[r].context
      OBVIOUS
    <3>1. commands[r] \in [age : Age, ours : BOOLEAN, context : Contexts \cup {None}]
      BY DEF TypeOK
    <3>. QED
      BY <2>2, <3>1
  <2>8. \A i, j \in DOMAIN log' : i <= j => log'[j].age <= log'[i].age
    BY <2>1, <2>4, <2>6 DEF FramesInv
  <2>9. \A r, kinds : Seen(r, kinds)' = Seen(r, kinds)
    BY <2>1, <2>6 DEF Seen
  <2>10. \A r, kinds : Seen(r, kinds) \subseteq DOMAIN log
    BY DEF Seen
  <2>11. ASSUME NEW r \in Rooms, CommandInv(r) PROVE CommandInv(r)'
    BY <2>5, <2>6, <2>7, <2>9, <2>10, <2>11 DEF CommandInv, IsLast
  <2>12. ASSUME NEW r \in Rooms, QueryInv(r) PROVE QueryInv(r)'
    BY <2>2, <2>5, <2>6, <2>9, <2>10, <2>12 DEF QueryInv, IsLast
  <2>. QED
    BY <2>2, <2>8, <2>11, <2>12 DEF FramesInv
<1>5. CASE Open
  <2>1. log' = <<>> /\ commands' = [r \in Rooms |-> NoCommand] /\ queries' = [r \in Rooms |-> Old]
    BY <1>5 DEF Open, Clear
  <2>2. DOMAIN log' = {}
    BY <2>1
  <2>3. \A r, kinds : Seen(r, kinds)' = {}
    BY <2>2 DEF Seen
  <2>4. \A r \in Rooms : /\ commands'[r].age = Old /\ commands'[r].context = None
                         /\ queries'[r] = Old
    BY <2>1 DEF NoCommand
  <2>. QED
    BY <2>2, <2>3, <2>4 DEF FramesInv, CommandInv, QueryInv
<1>6. CASE SyncDown
  BY <1>6 DEF SyncDown, FramesInv
<1>7. ASSUME UNCHANGED <<commands, queries, log>>, conn' # "down" => conn # "down"
      PROVE  FramesInv'
  <2>1. \A r, kinds : Seen(r, kinds)' = Seen(r, kinds)
    BY <1>7 DEF Seen
  <2>. QED
    BY <1>7, <2>1 DEF FramesInv, CommandInv, QueryInv, IsLast
<1>8. ASSUME NEW r \in Rooms, NEW s \in Settings, NEW t \in Temps, Report(r, s, t)
      PROVE  FramesInv'
  BY <1>7, <1>8 DEF Report
<1>9. CASE Lose \/ SetUp \/ UNCHANGED vars
  BY <1>7, <1>9 DEF Lose, SetUp, vars, recordVars
<1>. QED
  BY <1>1, <1>2, <1>3, <1>4, <1>5, <1>6, <1>8, <1>9 DEF Next

\* What is remembered of a room decides as its recent frames do.
LEMMA SourceOfFrames ==
    ASSUME TypeOK, FramesInv, conn # "down", NEW r \in Rooms, NEW s
    PROVE  IsSourceOf(ChangeLabel(r, s), r)
<1>. DEFINE kinds == {"integration", "wallpad"}
            label == ChangeLabel(r, s)
<1>1. /\ label.source = Source(r)
      /\ label.context = IF Source(r) = "integration" THEN commands[r].context ELSE None
  BY DEF ChangeLabel
<1>2. \A k : Recent(r, k) = {i \in Seen(r, k) : log[i].age <= Window}
  BY DEF Recent, Seen
<1>3. CommandInv(r) /\ QueryInv(r)
  BY DEF FramesInv
<1>4. commands[r].age \in Age /\ queries[r] \in Age /\ commands[r].ours \in BOOLEAN
  BY DEF TypeOK
<1>5. \A i \in DOMAIN log : log[i].age \in Age
  <2>1. \A i \in DOMAIN log : log[i] \in Frame
    BY DEF TypeOK
  <2>. QED
    BY <2>1 DEF Frame
<1>6. \A k : Seen(r, k) \subseteq DOMAIN log
  BY DEF Seen
<1>7. Window + 1 = Old /\ Old \in Nat /\ Age = 0 .. Old
  BY DEF Old, Age
<1>8. \A i, j \in DOMAIN log : i <= j => log[j].age <= log[i].age
  BY DEF FramesInv
<1>. HIDE DEF label
<1>9. CASE commands[r].age <= Window
  <2>1. Seen(r, kinds) # {}
    BY <1>3, <1>7, <1>9 DEF CommandInv
  <2>2. PICK i \in Seen(r, kinds) :
          /\ IsLast(i, Seen(r, kinds))
          /\ log[i].age = commands[r].age
          /\ log[i].kind = IF commands[r].ours THEN "integration" ELSE "wallpad"
          /\ log[i].context = commands[r].context
    BY <1>3, <2>1 DEF CommandInv
  <2>3. i \in Recent(r, kinds) /\ \A j \in Recent(r, kinds) : j <= i
    BY <1>2, <1>9, <2>2 DEF IsLast
  <2>4. label.source = log[i].kind
    BY <1>1, <1>9, <2>2 DEF Source
  <2>5. label.context = log[i].context
    BY <1>1, <1>3, <1>9, <2>2 DEF Source, CommandInv
  <2>. QED
    BY <2>3, <2>4, <2>5 DEF IsSourceOf, label
<1>10. CASE ~(commands[r].age <= Window)
  <2>1. Recent(r, kinds) = {}
    <3>1. \A i \in Seen(r, kinds) : log[i].age >= Old
      BY <1>3, <1>4, <1>5, <1>6, <1>7, <1>8, <1>10 DEF CommandInv, IsLast
    <3>. QED
      BY <1>2, <1>5, <1>6, <1>7, <3>1
  <2>2. Recent(r, {"query"}) # {} <=> queries[r] <= Window
    <3>1. CASE Seen(r, {"query"}) = {}
      BY <1>2, <1>3, <1>7, <3>1 DEF QueryInv
    <3>2. CASE Seen(r, {"query"}) # {}
      <4>1. PICK i \in Seen(r, {"query"}) :
              IsLast(i, Seen(r, {"query"})) /\ log[i].age = queries[r]
        BY <1>3, <3>2 DEF QueryInv
      <4>2. \A j \in Seen(r, {"query"}) : log[i].age <= log[j].age
        BY <1>6, <1>8, <4>1 DEF IsLast
      <4>3. \A j \in Seen(r, {"query"}) : log[j].age <= Window => log[i].age <= Window
        BY <1>4, <1>5, <1>6, <1>7, <4>1, <4>2
      <4>. QED
        BY <1>2, <4>1, <4>3
    <3>. QED
      BY <3>1, <3>2
  <2>3. Source(r) = IF queries[r] <= Window THEN "unknown" ELSE "device"
    BY <1>10 DEF Source
  <2>4. Source(r) # "integration" /\ label.context = None
    BY <1>1, <2>3
  <2>. QED
    BY <1>1, <2>1, <2>2, <2>3, <2>4 DEF IsSourceOf, label
<1>. QED
  BY <1>9, <1>10

----------------------------------------------------------------------------
(* Theorems.                                                               *)

LEMMA ChangeInitially == Init => ChangeInv
<1>. SUFFICES ASSUME Init PROVE ChangeInv
  OBVIOUS
<1>1. TypeOK
  <2>1. Restored \cup {None} \subseteq State \cup {None}
    BY DEF Restored, State
  <2>2. registry \in [Rooms -> State \cup {None}]
    BY <2>1 DEF Init
  <2>3. commands \in [Rooms -> [age : Age, ours : BOOLEAN, context : Contexts \cup {None}]]
    BY DEF Init, NoCommand, Age, Old
  <2>4. log \in Seq(Frame)
    BY DEF Init
  <2>5. fired \in [1 .. MaxLabels -> Nat]
    BY DEF Init
  <2>. QED
    <3>1. settings \in [Rooms -> Settings \cup {None}] /\ reported \in [Rooms -> Settings \cup {None}]
      BY DEF Init
    <3>2. queries \in [Rooms -> Age] /\ recorded \in [Rooms -> Numbers] /\ sequence \in Numbers
      BY DEF Init, Age, Old, Numbers
    <3>. QED
      BY <2>2, <2>3, <2>4, <2>5, <3>1, <3>2 DEF Init, TypeOK
<1>2. SessionInv
  BY DEF Init, SessionInv
<1>3. RecordInv
  <2>1. \A r \in Rooms : NumberOf(r) = 0
    <3>1. \A d \in Restored : d.label.number = 0
      BY DEF Restored, NoLabel
    <3>. QED
      BY <3>1 DEF Init, NumberOf
  <2>. QED
    BY <2>1 DEF Init, RecordInv, RecordedOnce, RecordedAtOnce
<1>4. FramesInv
  <2>1. DOMAIN log = {} /\ \A r, kinds : Seen(r, kinds) = {}
    BY DEF Init, Seen
  <2>. QED
    BY <2>1 DEF Init, FramesInv, CommandInv, QueryInv, NoCommand
<1>. QED
  BY <1>1, <1>2, <1>3, <1>4 DEF ChangeInv

\* The invariant is inductive.
THEOREM ChangeInvariant == Spec => []ChangeInv
<1>1. ChangeInv /\ [Next]_vars => ChangeInv'
  BY Typing, Session, Recorded, Remembered DEF ChangeInv
<1>. QED
  BY <1>1, ChangeInitially, PTL DEF Spec

\* Every variable keeps its type.
THEOREM ChangeTypeCorrect == Spec => []TypeOK
<1>1. ChangeInv => TypeOK
  BY DEF ChangeInv
<1>. QED
  BY <1>1, ChangeInvariant, PTL

\* No change is recorded twice, however often its state is dispatched.
THEOREM NoRecordTwice == Spec => []RecordedOnce
<1>1. ChangeInv => RecordedOnce
  BY DEF ChangeInv, RecordInv
<1>. QED
  BY <1>1, ChangeInvariant, PTL

\* A change of a room that has an entity is recorded by the report showing it.
THEOREM NoRecordLate == Spec => []RecordedAtOnce
<1>1. ChangeInv => RecordedAtOnce
  BY DEF ChangeInv, RecordInv
<1>. QED
  BY <1>1, ChangeInvariant, PTL

\* Only a report makes a label, and it attaches it to the state of its room.
LEMMA LabelledByReport ==
    ASSUME ChangeInv, [Next]_vars, NEW r \in Rooms, Labelled(r)
    PROVE  /\ conn # "down" /\ settings[r] # None
           /\ \E s \in Settings : Changes(r, s) /\ registry'[r].label = ChangeLabel(r, s)
<1>1. sequence' # sequence
  BY DEF Labelled
<1>2. PICK q \in Rooms, s \in Settings, t \in Temps : Report(q, s, t)
  BY <1>1 DEF Next, CommandSent, CommandHeard, Query, Lose, SyncDown, Open, SetUp, Tick, vars
<1>3. Changes(q, s) /\ conn # "down"
  BY <1>1, <1>2 DEF Report
<1>4. \A p \in Rooms \ {q} : registry'[p] = registry[p]
  BY <1>2 DEF Report, ChangeInv, TypeOK
<1>5. q = r
  BY <1>4 DEF Labelled
<1>6. registry[q] # None /\ registry[q].set # s
  BY <1>3 DEF Changes, ChangeInv, SessionInv
<1>7. registry'[q] = [set |-> s, temp |-> t, label |-> ChangeLabel(q, s)]
  BY <1>2, <1>3, <1>6 DEF Report, ChangeInv, TypeOK
<1>. QED
  BY <1>3, <1>5, <1>7 DEF Changes

\* A label tells the source that the frames of its connection and its window
\* tell.
THEOREM SourcesAreTrue == Spec => SourceIsTrue
<1>1. ASSUME ChangeInv, [Next]_vars, NEW r \in Rooms, Labelled(r)
      PROVE  IsSourceOf(registry'[r].label, r)
  <2>1. PICK s \in Settings : registry'[r].label = ChangeLabel(r, s)
    BY <1>1, LabelledByReport
  <2>2. conn # "down"
    BY <1>1, LabelledByReport
  <2>. QED
    BY <1>1, <2>1, <2>2, SourceOfFrames DEF ChangeInv
<1>2. ChangeInv /\ [Next]_vars =>
        [\A r \in Rooms : Labelled(r) => IsSourceOf(registry'[r].label, r)]_vars
  BY <1>1
<1>. QED
  BY <1>2, ChangeInvariant, PTL DEF Spec, SourceIsTrue

\* A label compares two reports of one connection.
THEOREM ChangesAreOfTheSession == Spec => ComparedInSession
<1>1. ASSUME ChangeInv, [Next]_vars, NEW r \in Rooms, Labelled(r)
      PROVE  LET label == registry'[r].label
             IN  label.old = reported[r] /\ label.new # label.old
  <2>1. PICK s \in Settings : Changes(r, s) /\ registry'[r].label = ChangeLabel(r, s)
    BY <1>1, LabelledByReport
  <2>2. conn # "down" /\ settings = reported
    BY <1>1, LabelledByReport DEF ChangeInv, SessionInv
  <2>. QED
    BY <2>1, <2>2 DEF ChangeLabel, Changes
<1>2. ChangeInv /\ [Next]_vars =>
        [\A r \in Rooms : Labelled(r) =>
           LET label == registry'[r].label
           IN  label.old = reported[r] /\ label.new # label.old]_vars
  BY <1>1
<1>. QED
  BY <1>2, ChangeInvariant, PTL DEF Spec, ComparedInSession
=============================================================================
