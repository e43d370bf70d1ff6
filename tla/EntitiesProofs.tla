--------------------------- MODULE EntitiesProofs ---------------------------
(***************************************************************************)
(* For any number of lights, thermostats, sensors, frames and restarts:    *)
(* the entities show what the gateway has registered and what was reported *)
(* over the open connection, and what was known before a restart comes     *)
(* back with it.                                                           *)
(***************************************************************************)
EXTENDS Entities, TLAPS

----------------------------------------------------------------------------
(* What the operators return.                                              *)

LEMMA FrameFacts ==
  ASSUME NEW f \in Frames
  PROVE  DOMAIN f \subseteq Keys /\ \A k \in DOMAIN f : f[k] \in BOOLEAN
<1>1. PICK group \in Groups : f \in [group -> BOOLEAN]
  BY DEF Frames
<1>2. group \subseteq Keys
  BY DEF Groups, Keys
<1> QED
  BY <1>1, <1>2

LEMMA ReadType ==
  ASSUME TypeOK, NEW f \in Frames, NEW k \in DOMAIN f
  PROVE  /\ Read(k, f) \in Entry /\ Read(k, f) # None /\ k \in DOMAIN Read(k, f).packet
         /\ Read(k, f).state = f[k] /\ Read(k, f).packet = f
         /\ Read(k, f).presets = (k = Fan /\ storage)
<1>1. f[k] \in BOOLEAN /\ storage \in BOOLEAN
  BY FrameFacts DEF TypeOK
<1>2. (k = Fan /\ storage) \in BOOLEAN
  OBVIOUS
<1>3. Read(k, f) \in Entry
  BY <1>1, <1>2 DEF Read, Entry
<1> QED
  BY <1>3, EntitiesAssumption DEF Read

LEMMA UpsertedFacts ==
  ASSUME TypeOK, NEW f \in Frames, NEW forced, NEW k \in Keys
  PROVE  /\ DOMAIN Upserted(f, forced) = Keys
         /\ registry[k] # None => Upserted(f, forced)[k] # None
         /\ Upserted(f, forced)[k] # None =>
              /\ Upserted(f, forced)[k] \in Entry
              /\ k \in DOMAIN Upserted(f, forced)[k].packet
         /\ k \notin DOMAIN f => Upserted(f, forced)[k] = registry[k]
         /\ k \in DOMAIN f /\ Upserted(f, forced)[k] # None =>
              /\ Upserted(f, forced)[k].state = f[k]
              /\ Upserted(f, forced)[k].presets = (k = Fan /\ storage)
<1>1. DOMAIN Upserted(f, forced) = Keys
  BY DEF Upserted
<1>2. Upserted(f, forced)[k] = IF k \in DOMAIN f /\ (IsNew(k, f, forced) \/ Changed(k, f))
                               THEN Read(k, f) ELSE registry[k]
  BY DEF Upserted
<1>3. RegistryOK(k)
  BY DEF TypeOK
<1>4. CASE k \in DOMAIN f
  <2>1. Read(k, f) \in Entry /\ Read(k, f) # None /\ k \in DOMAIN Read(k, f).packet
        /\ Read(k, f).state = f[k] /\ Read(k, f).presets = (k = Fan /\ storage)
    BY <1>4, ReadType
  <2>2. CASE IsNew(k, f, forced) \/ Changed(k, f)
    BY <1>1, <1>2, <1>4, <2>1, <2>2
  <2>3. CASE ~IsNew(k, f, forced) /\ ~Changed(k, f)
    BY <1>1, <1>2, <1>3, <1>4, <2>1, <2>3 DEF Changed, RegistryOK
  <2> QED
    BY <2>2, <2>3
<1>5. CASE k \notin DOMAIN f
  BY <1>1, <1>2, <1>3, <1>5 DEF RegistryOK
<1> QED
  BY <1>4, <1>5

LEMMA EntityIsSome == None \notin Entity
  BY EntitiesAssumption DEF Entity

LEMMA WrittenFacts ==
  ASSUME NEW k \in Keys, NEW dev \in Entry, NEW feature \in BOOLEAN,
         NEW c \in BOOLEAN, NEW lv
  PROVE  Written(k, dev, feature, c, lv) \in Entity
<1>1. dev.state \in BOOLEAN
  BY DEF Entry
<1> QED
  BY <1>1 DEF Written, Entity

LEMMA CreatedFacts ==
  ASSUME NEW k \in Keys, NEW dev \in Entry, NEW c \in BOOLEAN, NEW lv
  PROVE  Created(k, dev, c, lv) \in Entity
<1>1. dev.presets \in BOOLEAN
  BY DEF Entry
<1> QED
  BY <1>1, WrittenFacts DEF Created

LEMMA LeftFacts ==
  ASSUME TypeOK, NEW k \in Keys, entity[k] # None
  PROVE  /\ Left(k) \in [packet : Frames, storage : BOOLEAN] /\ Left(k) # None
         /\ k \in DOMAIN Left(k).packet /\ Left(k).storage = storage
<1>1. EntityOK(k) /\ storage \in BOOLEAN
  BY DEF TypeOK
<1>2. entity[k].dev \in Entry /\ k \in DOMAIN entity[k].dev.packet
  BY <1>1 DEF EntityOK, Entity
<1>3. entity[k].dev.packet \in Frames
  BY <1>2 DEF Entry
<1> QED
  BY <1>1, <1>2, <1>3, EntitiesAssumption DEF Left

----------------------------------------------------------------------------
(* The types.                                                              *)

LEMMA InitTyped == Init => TypeOK
  BY EntitiesAssumption DEF Init, TypeOK, Nothing, RegistryOK, EntityOK, StoredOK

\* A report, live or noticed with the loss, is handled by the operators above.
LEMMA ReportTyped == ASSUME TypeOK, NEW f \in Frames, Report(f) PROVE TypeOK'
<1> DEFINE R == Upserted(f, None)
<1>1. /\ registry' = R /\ storage' = Noted(f) /\ live' = live \cup DOMAIN f
      /\ named' = named \cup {k \in Keys : entity'[k] # None}
      /\ last' = [k \in Keys |-> IF k \in DOMAIN f THEN f[k] ELSE last[k]]
      /\ UNCHANGED <<phase, todo, up, available, asked, boot, ready, stored, starts, knew>>
  BY DEF Report
<1>2. DOMAIN f \subseteq Keys /\ \A k \in DOMAIN f : f[k] \in BOOLEAN
  BY FrameFacts
<1>3. DOMAIN registry' = Keys /\ DOMAIN entity' = Keys
  BY <1>1 DEF Report, Upserted
<1>4. storage' \in BOOLEAN
  BY <1>1 DEF Noted, TypeOK
<1>5. last' \in [Keys -> BOOLEAN \cup {None}]
  BY <1>1, <1>2 DEF TypeOK
<1>6. ASSUME NEW k \in Keys PROVE RegistryOK(k)'
  BY <1>1, UpsertedFacts DEF RegistryOK
<1>7. ASSUME NEW k \in Keys PROVE EntityOK(k)'
  <2>1. /\ EntityOK(k) /\ storage \in BOOLEAN
        /\ registry[k] # None => registry'[k] # None
    BY <1>1, UpsertedFacts DEF TypeOK
  <2>2. entity'[k] =
         IF k \notin DOMAIN f \/ PlatformOf(k) \notin ready THEN entity[k]
         ELSE IF IsNew(k, f, None) THEN Created(k, Read(k, f), TRUE, live')
         ELSE IF entity[k] # None /\ Dispatched(k, f)
              THEN Written(k, Read(k, f), entity[k].feature, TRUE, live')
         ELSE entity[k]
    BY DEF Report
  <2>3. entity'[k] # None => k \in named'
    BY <1>1
  <2>4. CASE k \in DOMAIN f /\ PlatformOf(k) \in ready /\ IsNew(k, f, None)
    <3>1. Read(k, f) \in Entry /\ Read(k, f) # None /\ k \in DOMAIN Read(k, f).packet
      BY <2>4, ReadType
    <3> DEFINE e == Created(k, Read(k, f), TRUE, live')
    <3>2. e \in Entity /\ e.dev = Read(k, f)
      <4>1. e \in Entity
        BY <3>1, CreatedFacts
      <4> QED
        BY <4>1 DEF Created, Written
    <3> HIDE DEF e
    <3>4. entity'[k] = e
      BY <2>2, <2>4 DEF e
    <3>3. registry'[k] = Read(k, f)
      BY <1>1, <2>4 DEF Upserted
    <3> QED
      BY <1>1, <2>3, <2>4, <3>1, <3>2, <3>3, <3>4 DEF EntityOK
  <2>5. CASE k \in DOMAIN f /\ PlatformOf(k) \in ready /\ ~IsNew(k, f, None)
             /\ entity[k] # None /\ Dispatched(k, f)
    <3>1. Read(k, f) \in Entry /\ k \in DOMAIN Read(k, f).packet
      BY <2>5, ReadType
    <3>2. entity[k].feature \in BOOLEAN
      BY <2>1, <2>5 DEF EntityOK, Entity
    <3> DEFINE e == Written(k, Read(k, f), entity[k].feature, TRUE, live')
    <3>3. e \in Entity /\ e.dev = Read(k, f)
      <4>1. e \in Entity
        BY <3>1, <3>2, WrittenFacts
      <4> QED
        BY <4>1 DEF Written
    <3> HIDE DEF e
    <3>4. entity'[k] = e
      BY <2>2, <2>5 DEF e
    <3> QED
      BY <1>1, <2>1, <2>3, <2>5, <3>1, <3>3, <3>4 DEF EntityOK
  <2>6. CASE entity'[k] = entity[k]
    BY <1>1, <2>1, <2>3, <2>6 DEF EntityOK
  <2> QED
    BY <2>2, <2>4, <2>5, <2>6
<1>8. ASSUME NEW k \in Keys PROVE StoredOK(k)'
  BY <1>1 DEF TypeOK, StoredOK
<1>9. live' \subseteq Keys /\ named' \subseteq Keys /\ todo' \subseteq named'
  BY <1>1, <1>2 DEF TypeOK
<1> QED
  BY <1>1, <1>3, <1>4, <1>5, <1>6, <1>7, <1>8, <1>9 DEF TypeOK

LEMMA NoticeAfterTyped == ASSUME TypeOK, NEW f \in Frames, NoticeAfter(f) PROVE TypeOK'
<1> DEFINE R == Upserted(f, None)
<1>1. /\ registry' = R /\ storage' = Noted(f) /\ live' = {} /\ available' = FALSE
      /\ named' = named \cup {k \in Keys : entity'[k] # None}
      /\ UNCHANGED <<phase, todo, up, asked, boot, ready, stored, starts, last, knew>>
  BY DEF NoticeAfter
<1>2. DOMAIN registry' = Keys /\ DOMAIN entity' = Keys
  BY <1>1 DEF NoticeAfter, Upserted
<1>3. storage' \in BOOLEAN
  BY <1>1 DEF Noted, TypeOK
<1>4. ASSUME NEW k \in Keys PROVE RegistryOK(k)'
  BY <1>1, UpsertedFacts DEF RegistryOK
<1>5. ASSUME NEW k \in Keys PROVE EntityOK(k)'
  <2>1. EntityOK(k) /\ (registry[k] # None => registry'[k] # None)
    BY <1>1, UpsertedFacts DEF TypeOK
  <2>2. entity'[k] =
         IF registry'[k] = None \/ PlatformOf(k) \notin ready THEN entity[k]
         ELSE IF entity[k] = None THEN Created(k, registry'[k], FALSE, {})
         ELSE Written(k, registry'[k], entity[k].feature, FALSE, {})
    BY DEF NoticeAfter
  <2>3. entity'[k] # None => k \in named'
    BY <1>1
  <2>4. CASE entity'[k] = entity[k]
    BY <1>1, <2>1, <2>3, <2>4 DEF EntityOK
  <2>5. CASE registry'[k] # None /\ PlatformOf(k) \in ready
    <3>1. registry'[k] \in Entry /\ k \in DOMAIN registry'[k].packet
      BY <1>4, <2>5 DEF RegistryOK
    <3>2. entity[k] # None => entity[k].feature \in BOOLEAN
      BY <2>1 DEF EntityOK, Entity
    <3> DEFINE new == Created(k, registry'[k], FALSE, {})
               old == Written(k, registry'[k], entity[k].feature, FALSE, {})
    <3>4. new \in Entity /\ new.dev = registry'[k]
      <4>1. new \in Entity
        BY <3>1, CreatedFacts
      <4> QED
        BY <4>1 DEF Created, Written
    <3>5. entity[k] # None => old \in Entity /\ old.dev = registry'[k]
      <4>1. entity[k] # None => old \in Entity
        BY <3>1, <3>2, WrittenFacts
      <4> QED
        BY <4>1 DEF Written
    <3> HIDE DEF new, old
    <3>6. entity'[k] = IF entity[k] = None THEN new ELSE old
      BY <2>2, <2>5 DEF new, old
    <3>3. entity'[k] \in Entity /\ entity'[k].dev = registry'[k]
      BY <3>4, <3>5, <3>6
    <3> QED
      BY <1>1, <2>3, <2>5, <3>1, <3>3 DEF EntityOK
  <2> QED
    BY <2>2, <2>4, <2>5
<1>6. ASSUME NEW k \in Keys PROVE StoredOK(k)'
  BY <1>1 DEF TypeOK, StoredOK
<1>7. named' \subseteq Keys /\ todo' \subseteq named'
  BY <1>1 DEF TypeOK
<1> QED
  BY <1>1, <1>2, <1>3, <1>4, <1>5, <1>6, <1>7 DEF TypeOK

\* Every entity writes what is registered: a loss noticed, an opening.
LEMMA RewrittenTyped ==
  ASSUME TypeOK, NEW c \in BOOLEAN, NEW lv,
         entity' = [k \in Keys |-> IF entity[k] = None THEN None
                                   ELSE Written(k, registry[k], entity[k].feature, c, lv)],
         UNCHANGED <<registry, named, ready>>
  PROVE  DOMAIN entity' = Keys /\ \A k \in Keys : EntityOK(k)'
<1> SUFFICES ASSUME NEW k \in Keys PROVE EntityOK(k)'
  OBVIOUS
<1>1. EntityOK(k) /\ RegistryOK(k)
  BY DEF TypeOK
<1>2. CASE entity[k] = None
  BY <1>2 DEF EntityOK
<1>3. CASE entity[k] # None
  <2>1. registry[k] \in Entry /\ k \in DOMAIN registry[k].packet /\ entity[k].feature \in BOOLEAN
    BY <1>1, <1>3 DEF EntityOK, RegistryOK, Entity
  <2>2. entity'[k] = Written(k, registry[k], entity[k].feature, c, lv)
    BY <1>3
  <2>3. entity'[k] \in Entity /\ entity'[k].dev = registry[k]
    <3>1. entity'[k] \in Entity
      BY <2>1, <2>2, WrittenFacts
    <3> QED
      BY <2>2, <3>1 DEF Written
  <2> QED
    BY <1>1, <1>3, <2>1, <2>3 DEF EntityOK
<1> QED
  BY <1>2, <1>3
LEMMA ConnectTyped ==
  ASSUME TypeOK, Connect, UNCHANGED <<registry, named, ready, live>>
  PROVE  /\ DOMAIN entity' = Keys /\ \A k \in Keys : EntityOK(k)'
         /\ up' \in BOOLEAN /\ available' \in BOOLEAN /\ asked' \subseteq Rooms
         /\ last' \in [Keys -> BOOLEAN \cup {None}]
<1>1. asked' \subseteq Rooms
  BY DEF Connect, Known, TypeOK
<1>2. last' \in [Keys -> BOOLEAN \cup {None}]
  BY DEF Connect, Nothing
<1>3. DOMAIN entity' = Keys /\ \A k \in Keys : EntityOK(k)'
  BY RewrittenTyped DEF Connect
<1> QED
  BY <1>1, <1>2, <1>3 DEF Connect

LEMMA RestoreTyped == ASSUME TypeOK, NEW k \in Keys, RestoreNext(k) PROVE TypeOK'
<1>1. /\ todo' = todo \ {k} /\ boot' \subseteq Rooms
      /\ UNCHANGED <<phase, up, available, live, asked, ready, entity, named, stored, frames,
                     starts, last, knew>>
  BY DEF RestoreNext, sessionVars, haVars, TypeOK
<1>2. DOMAIN registry' = Keys /\ storage' \in BOOLEAN
      /\ \A j \in Keys : RegistryOK(j)' /\ (registry[j] # None => registry'[j] # None)
  <2>1. CASE stored[k] = None
    BY <2>1 DEF RestoreNext, TypeOK, RegistryOK
  <2>2. CASE stored[k] # None
    <3>1. stored[k].packet \in Frames /\ stored[k].storage \in BOOLEAN
      BY <2>2 DEF TypeOK, StoredOK
    <3>2. registry' = Upserted(stored[k].packet, k) /\ storage' = stored[k].storage
      BY <2>2 DEF RestoreNext, RestoredStorage
    <3>3. DOMAIN registry' = Keys
      BY <3>2 DEF Upserted
    <3>4. ASSUME NEW j \in Keys PROVE RegistryOK(j)' /\ (registry[j] # None => registry'[j] # None)
      BY <3>1, <3>2, UpsertedFacts DEF RegistryOK
    <3> QED
      BY <3>1, <3>2, <3>3, <3>4
  <2> QED
    BY <2>1, <2>2
<1>3. ASSUME NEW j \in Keys PROVE EntityOK(j)' /\ StoredOK(j)'
  BY <1>1, <1>2 DEF TypeOK, EntityOK, StoredOK
<1> QED
  BY <1>1, <1>2, <1>3 DEF TypeOK

LEMMA SetUpTyped == ASSUME TypeOK, NEW p \in Platforms, SetUp(p) PROVE TypeOK'
<1>1. /\ ready' = ready \cup {p} /\ named' = named \cup {k \in Keys : entity'[k] # None}
      /\ UNCHANGED <<phase, todo, up, available, live, asked, registry, storage, boot, stored,
                     starts, last, knew>>
  BY DEF SetUp, sessionVars, gatewayVars
<1>2. DOMAIN entity' = Keys
  BY DEF SetUp
<1>3. ASSUME NEW k \in Keys PROVE EntityOK(k)'
  <2>1. EntityOK(k) /\ RegistryOK(k) /\ up \in BOOLEAN
    BY DEF TypeOK
  <2>2. CASE PlatformOf(k) = p /\ registry[k] # None
    <3> DEFINE e == Created(k, registry[k], up, live)
    <3>1. registry[k] \in Entry /\ k \in DOMAIN registry[k].packet
      BY <2>1, <2>2 DEF RegistryOK
    <3>2. e \in Entity
      BY <2>1, <3>1, CreatedFacts
    <3>3. e.dev = registry[k]
      BY DEF Created, Written
    <3>4. entity'[k] = e
      BY <2>2 DEF SetUp
    <3> HIDE DEF e
    <3> QED
      BY <1>1, <2>2, <3>1, <3>2, <3>3, <3>4 DEF EntityOK
  <2>3. CASE ~(PlatformOf(k) = p /\ registry[k] # None)
    <3>1. entity'[k] = entity[k]
      BY <2>3 DEF SetUp
    <3> QED
      BY <1>1, <2>1, <3>1 DEF EntityOK
  <2> QED
    BY <2>2, <2>3
<1>4. ASSUME NEW k \in Keys PROVE RegistryOK(k)' /\ StoredOK(k)'
  BY <1>1 DEF TypeOK, RegistryOK, StoredOK
<1>5. ready' \subseteq Platforms /\ named' \subseteq Keys /\ todo' \subseteq named'
  BY <1>1 DEF TypeOK
<1> QED
  BY <1>1, <1>2, <1>3, <1>4, <1>5 DEF TypeOK

LEMMA UnloadTyped == ASSUME TypeOK, NEW p \in Platforms, Unload(p) PROVE TypeOK'
<1>1. /\ ready' = ready \ {p} /\ stored' = LeftBy(p) /\ entity' = Removed(p)
      /\ phase' = "unloading"
      /\ UNCHANGED <<todo, up, available, live, asked, registry, storage, boot, named,
                     starts, last, knew>>
  BY DEF Unload, sessionVars, gatewayVars
<1>2. DOMAIN entity' = Keys /\ DOMAIN stored' = Keys
  BY <1>1 DEF Removed, LeftBy
<1>3. ASSUME NEW k \in Keys PROVE EntityOK(k)' /\ StoredOK(k)' /\ RegistryOK(k)'
  <2>1. EntityOK(k) /\ StoredOK(k) /\ RegistryOK(k)
    BY DEF TypeOK
  <2>2. entity'[k] = IF PlatformOf(k) = p THEN None ELSE entity[k]
    BY <1>1 DEF Removed
  <2>3. stored'[k] = IF PlatformOf(k) = p /\ entity[k] # None THEN Left(k) ELSE stored[k]
    BY <1>1 DEF LeftBy
  <2>4. EntityOK(k)'
    BY <1>1, <2>1, <2>2 DEF EntityOK
  <2>5. StoredOK(k)'
    BY <1>1, <2>1, <2>3, LeftFacts DEF StoredOK, EntityOK
  <2> QED
    BY <1>1, <2>1, <2>4, <2>5 DEF RegistryOK
<1> QED
  BY <1>1, <1>2, <1>3 DEF TypeOK

LEMMA DumpTyped == ASSUME TypeOK, Dump PROVE TypeOK'
<1>1. /\ stored' = [k \in Keys |-> IF entity[k] # None THEN Left(k) ELSE stored[k]]
      /\ UNCHANGED <<phase, todo, up, available, live, asked, registry, storage, boot, ready,
                     entity, named, starts, last, knew>>
  BY DEF Dump, sessionVars, gatewayVars, haVars
<1>2. ASSUME NEW k \in Keys PROVE EntityOK(k)' /\ StoredOK(k)' /\ RegistryOK(k)'
  <2>1. EntityOK(k) /\ StoredOK(k) /\ RegistryOK(k)
    BY DEF TypeOK
  <2>2. StoredOK(k)'
    BY <1>1, <2>1, LeftFacts DEF StoredOK, EntityOK
  <2> QED
    BY <1>1, <2>1, <2>2 DEF EntityOK, RegistryOK
<1> QED
  BY <1>1, <1>2 DEF TypeOK

LEMMA GoneTyped == ASSUME TypeOK, GatewayIsGone PROVE TypeOK'
<1>1. ASSUME NEW k \in Keys PROVE EntityOK(k)' /\ StoredOK(k)' /\ RegistryOK(k)'
  BY DEF GatewayIsGone, Nothing, TypeOK, EntityOK, StoredOK, RegistryOK
<1> QED
  BY <1>1 DEF GatewayIsGone, Nothing, TypeOK

LEMMA NextTyped == TypeOK /\ [Next]_vars => TypeOK'
<1> SUFFICES ASSUME TypeOK, [Next]_vars PROVE TypeOK'
  OBVIOUS
<1>1. ASSUME NEW f \in Frames, Report(f) \/ NoticeAfter(f) PROVE TypeOK'
  BY <1>1, ReportTyped, NoticeAfterTyped
<1>2. CASE Lose
  BY <1>2 DEF Lose, gatewayVars, haVars, TypeOK, RegistryOK, EntityOK, StoredOK
<1>3. CASE Notice
  <2>1. DOMAIN entity' = Keys /\ \A k \in Keys : EntityOK(k)'
    BY <1>3, RewrittenTyped DEF Notice, SyncDown, gatewayVars
  <2>2. \A k \in Keys : RegistryOK(k)' /\ StoredOK(k)'
    BY <1>3 DEF Notice, SyncDown, gatewayVars, TypeOK, RegistryOK, StoredOK
  <2> QED
    BY <1>3, <2>1, <2>2 DEF Notice, SyncDown, gatewayVars, TypeOK
<1>4. CASE Open
  <2>1. /\ DOMAIN entity' = Keys /\ \A k \in Keys : EntityOK(k)'
        /\ up' \in BOOLEAN /\ available' \in BOOLEAN /\ asked' \subseteq Rooms
        /\ last' \in [Keys -> BOOLEAN \cup {None}]
    BY <1>4, ConnectTyped DEF Open, gatewayVars
  <2>2. \A k \in Keys : RegistryOK(k)' /\ StoredOK(k)'
    BY <1>4 DEF Open, gatewayVars, TypeOK, RegistryOK, StoredOK
  <2> QED
    BY <1>4, <2>1, <2>2 DEF Open, gatewayVars, TypeOK
<1>5. CASE Begin
  BY <1>5 DEF Begin, sessionVars, gatewayVars, haVars, TypeOK, RegistryOK, EntityOK, StoredOK
<1>6. ASSUME NEW k \in Keys, RestoreNext(k) PROVE TypeOK'
  BY <1>6, RestoreTyped
<1>7. CASE Start
  <2>1. /\ DOMAIN entity' = Keys /\ \A k \in Keys : EntityOK(k)'
        /\ up' \in BOOLEAN /\ available' \in BOOLEAN /\ asked' \subseteq Rooms
        /\ last' \in [Keys -> BOOLEAN \cup {None}]
    BY <1>7, ConnectTyped DEF Start, gatewayVars, TypeOK, EntityOK
  <2>2. \A k \in Keys : RegistryOK(k)' /\ StoredOK(k)'
    BY <1>7 DEF Start, gatewayVars, TypeOK, RegistryOK, StoredOK
  <2> QED
    BY <1>7, <2>1, <2>2 DEF Start, gatewayVars, TypeOK
<1>8. ASSUME NEW p \in Platforms, SetUp(p) \/ Unload(p) PROVE TypeOK'
  BY <1>8, SetUpTyped, UnloadTyped
<1>9. CASE Dump
  BY <1>9, DumpTyped
<1>10. CASE Stop
  BY <1>10 DEF Stop, gatewayVars, haVars, TypeOK, RegistryOK, EntityOK, StoredOK
<1>11. CASE Unloaded \/ Crash
  BY <1>11, GoneTyped DEF Unloaded, Crash
<1>12. CASE UNCHANGED vars
  BY <1>12 DEF vars, sessionVars, gatewayVars, haVars, TypeOK, RegistryOK, EntityOK, StoredOK
<1> QED
  BY <1>1, <1>2, <1>3, <1>4, <1>5, <1>6, <1>7, <1>8, <1>9, <1>10, <1>11, <1>12 DEF Next

\* Every variable has its type, and an entity its name, platform and device.
THEOREM EntitiesTypeCorrect == Spec => []TypeOK
  BY InitTyped, NextTyped, PTL DEF Spec

----------------------------------------------------------------------------
(* What the entities show.                                                 *)

\* Nothing is live without a connection the gateway knows of, and nothing is
\* set up before the gateway has started.
SessionInv ==
    /\ up => available
    /\ ~available => live = {}
    /\ phase \in {"off", "restoring"} => ready = {} /\ ~available

\* No device of a platform that is set up lacks an entity.
ExistInv ==
    phase = "started" => \A k \in Keys :
        PlatformOf(k) \in ready /\ registry[k] # None => entity[k] # None

\* What is registered of a live device is what it reported last.
LastInv == \A k \in live : registry[k] # None => registry[k].state = last[k]

ShownInv == TypeOK /\ SessionInv /\ ExistInv /\ LastInv /\ ShownAgrees

LEMMA SessionStep == TypeOK /\ SessionInv /\ [Next]_vars => SessionInv'
<1> SUFFICES ASSUME TypeOK, SessionInv, [Next]_vars PROVE SessionInv'
  OBVIOUS
<1> USE DEF SessionInv
<1>0. up \in BOOLEAN /\ available \in BOOLEAN
  BY DEF TypeOK
<1>1. ASSUME NEW f \in Frames, Report(f) PROVE SessionInv'
  <2>1. phase \notin {"off", "restoring"} /\ available /\ UNCHANGED <<phase, up, available>>
    BY <1>1 DEF Report
  <2> QED
    BY <2>1
<1>2. ASSUME NEW f \in Frames, NoticeAfter(f) PROVE SessionInv'
  <2>1. phase \notin {"off", "restoring"} /\ ~up /\ live' = {} /\ UNCHANGED <<phase, up>>
    BY <1>2 DEF NoticeAfter
  <2> QED
    BY <2>1
<1>3. CASE Lose \/ Notice \/ Open
  <2>1. phase \notin {"off", "restoring"} /\ phase' = phase
    BY <1>3 DEF Lose, Notice, Open
  <2>2. \/ up' = FALSE /\ UNCHANGED <<available, live>>
        \/ ~up /\ up' = up /\ live' = {}
        \/ available' = TRUE
    BY <1>3 DEF Lose, Notice, Open, SyncDown, Connect
  <2> QED
    BY <1>0, <2>1, <2>2
<1>4. CASE Begin \/ Dump \/ Stop \/ Start
  <2>1. \/ phase = "off" /\ UNCHANGED <<up, available, live, ready>>
        \/ phase' = phase /\ UNCHANGED <<up, available, live, ready>>
        \/ phase' = "stopped" /\ up' = FALSE /\ UNCHANGED <<available, live>>
        \/ phase' = "started" /\ (available' = TRUE \/ UNCHANGED <<up, available>>)
           /\ live' = live
    BY <1>4 DEF Begin, Dump, Stop, Start, Connect, sessionVars, gatewayVars, haVars
  <2> QED
    BY <1>0, <2>1
<1>5. ASSUME NEW k \in Keys, RestoreNext(k) PROVE SessionInv'
  BY <1>5 DEF RestoreNext, sessionVars, haVars
<1>6. ASSUME NEW p \in Platforms, SetUp(p) \/ Unload(p) PROVE SessionInv'
  BY <1>6 DEF SetUp, Unload, sessionVars, gatewayVars
<1>7. CASE Unloaded \/ Crash
  BY <1>7 DEF Unloaded, Crash, GatewayIsGone
<1>8. CASE UNCHANGED vars
  BY <1>8 DEF vars, sessionVars, gatewayVars, haVars
<1> QED
  BY <1>1, <1>2, <1>3, <1>4, <1>5, <1>6, <1>7, <1>8 DEF Next

\* What an entity that agrees with the registry shows.
Agrees(k) ==
    /\ entity[k].available = (up /\ (k \in Rooms \/ k \in live))
    /\ entity[k].state = IF k \in Rooms /\ k \notin live THEN None ELSE registry[k].state

LEMMA ReportShown ==
  ASSUME ShownInv, NEW f \in Frames, Report(f)
  PROVE  ExistInv' /\ LastInv' /\ ShownAgrees'
<1>1. /\ registry' = Upserted(f, None) /\ live' = live \cup DOMAIN f
      /\ last' = [k \in Keys |-> IF k \in DOMAIN f THEN f[k] ELSE last[k]]
      /\ up /\ available /\ UNCHANGED <<phase, up, available, ready>>
  BY DEF Report
<1>2. DOMAIN f \subseteq Keys /\ live \subseteq Keys
  BY FrameFacts DEF ShownInv, TypeOK
<1>3. LastInv'
  <2> SUFFICES ASSUME NEW k \in live', registry'[k] # None PROVE registry'[k].state = last'[k]
    BY DEF LastInv
  <2>1. k \in Keys
    BY <1>1, <1>2
  <2>2. CASE k \in DOMAIN f
    BY <1>1, <2>1, <2>2, UpsertedFacts DEF ShownInv
  <2>3. CASE k \notin DOMAIN f
    BY <1>1, <2>1, <2>3, UpsertedFacts DEF ShownInv, LastInv
  <2> QED
    BY <2>2, <2>3
<1>4. ASSUME phase = "started", NEW k \in Keys, PlatformOf(k) \in ready, registry'[k] # None
      PROVE  entity'[k] # None /\ Agrees(k)'
  <2>1. registry[k] # None => entity[k] # None /\ Agrees(k)
    BY <1>1, <1>4 DEF ShownInv, ExistInv, ShownAgrees, Settled, Agrees
  <2>2. entity'[k] =
         IF k \notin DOMAIN f THEN entity[k]
         ELSE IF IsNew(k, f, None) THEN Created(k, Read(k, f), TRUE, live')
         ELSE IF entity[k] # None /\ Dispatched(k, f)
              THEN Written(k, Read(k, f), entity[k].feature, TRUE, live')
         ELSE entity[k]
    BY <1>4 DEF Report
  <2>3. CASE k \notin DOMAIN f
    <3>1. registry'[k] = registry[k] /\ entity'[k] = entity[k] /\ (k \in live' <=> k \in live)
      BY <1>1, <2>2, <2>3, UpsertedFacts DEF ShownInv
    <3> QED
      BY <1>1, <1>4, <2>1, <3>1 DEF Agrees
  <2>4. CASE k \in DOMAIN f
    <3>1. /\ Read(k, f) \in Entry /\ Read(k, f) # None /\ Read(k, f).state = f[k]
          /\ k \in live' /\ registry'[k].state = f[k]
      BY <1>1, <1>4, <2>4, ReadType, UpsertedFacts DEF ShownInv
    <3>2. CASE IsNew(k, f, None)
      <4> DEFINE e == Created(k, Read(k, f), TRUE, live')
      <4>1. e \in Entity
        BY <3>1, CreatedFacts
      <4>2. e.available = TRUE /\ e.state = f[k]
        BY <3>1 DEF Created, Written
      <4>3. entity'[k] = e
        BY <2>2, <2>4, <3>2
      <4> HIDE DEF e
      <4> QED
        BY <1>1, <3>1, <4>1, <4>2, <4>3, EntityIsSome DEF Agrees
    <3>3. CASE ~IsNew(k, f, None) /\ entity[k] # None /\ Dispatched(k, f)
      <4> DEFINE e == Written(k, Read(k, f), entity[k].feature, TRUE, live')
      <4>1. entity[k].feature \in BOOLEAN
        BY <3>3 DEF ShownInv, TypeOK, EntityOK, Entity
      <4>2. e \in Entity
        BY <3>1, <4>1, WrittenFacts
      <4>3. e.available = TRUE /\ e.state = f[k]
        BY <3>1 DEF Written
      <4>4. entity'[k] = e
        BY <2>2, <2>4, <3>3
      <4> HIDE DEF e
      <4> QED
        BY <1>1, <3>1, <4>2, <4>3, <4>4, EntityIsSome DEF Agrees
    <3>4. CASE ~IsNew(k, f, None) /\ ~(entity[k] # None /\ Dispatched(k, f))
      <4>1. registry[k] # None
        BY <1>1, <1>4, <3>4 DEF Upserted, Changed
      <4>2. entity[k] # None /\ Agrees(k) /\ ~Changed(k, f) /\ k \in live
        BY <2>1, <3>4, <4>1 DEF Dispatched
      <4>3. registry'[k] = registry[k] /\ entity'[k] = entity[k]
        BY <1>1, <2>2, <2>4, <3>4, <4>2 DEF Upserted
      <4> QED
        BY <1>1, <3>1, <4>2, <4>3 DEF Agrees
    <3> QED
      BY <3>2, <3>3, <3>4
  <2> QED
    BY <2>3, <2>4
<1>5. ExistInv' /\ ShownAgrees'
  BY <1>1, <1>4 DEF ExistInv, ShownAgrees, Settled, Agrees
<1> QED
  BY <1>3, <1>5

LEMMA NoticeAfterShown ==
  ASSUME ShownInv, NEW f \in Frames, NoticeAfter(f)
  PROVE  ExistInv' /\ LastInv' /\ ShownAgrees'
<1>1. /\ registry' = Upserted(f, None) /\ live' = {} /\ available' = FALSE
      /\ ~up /\ UNCHANGED <<phase, up, ready>>
  BY DEF NoticeAfter
<1>2. ASSUME NEW k \in Keys, PlatformOf(k) \in ready, registry'[k] # None
      PROVE  entity'[k] # None /\ Agrees(k)'
  <2>1. entity'[k] = IF entity[k] = None THEN Created(k, registry'[k], FALSE, {})
                     ELSE Written(k, registry'[k], entity[k].feature, FALSE, {})
    BY <1>2 DEF NoticeAfter
  <2>2. registry'[k] \in Entry
    BY <1>1, <1>2, UpsertedFacts DEF ShownInv
  <2> DEFINE new == Created(k, registry'[k], FALSE, {})
             old == Written(k, registry'[k], entity[k].feature, FALSE, {})
  <2>3. /\ new.available = FALSE /\ old.available = FALSE
        /\ new.state = (IF k \in Rooms THEN None ELSE registry'[k].state)
        /\ old.state = (IF k \in Rooms THEN None ELSE registry'[k].state)
    BY DEF Created, Written
  <2>4. new \in Entity
    BY <2>2, CreatedFacts
  <2>5. entity[k] # None => old \in Entity
    <3>1. entity[k] # None => entity[k].feature \in BOOLEAN
      BY DEF ShownInv, TypeOK, EntityOK, Entity
    <3> QED
      BY <2>2, <3>1, WrittenFacts
  <2>6. entity'[k] = IF entity[k] = None THEN new ELSE old
    BY <2>1
  <2> HIDE DEF new, old
  <2> QED
    BY <1>1, <2>3, <2>4, <2>5, <2>6, EntityIsSome DEF Agrees
<1> QED
  BY <1>1, <1>2 DEF ExistInv, LastInv, ShownAgrees, Settled, Agrees

\* Every entity writes what is registered: then it agrees.
LEMMA RewrittenShown ==
  ASSUME TypeOK, NEW c \in BOOLEAN, NEW k \in Keys, entity[k] # None,
         entity'[k] = Written(k, registry[k], entity[k].feature, c, live'),
         registry' = registry, up' = c
  PROVE  entity'[k] # None /\ Agrees(k)'
<1>1. registry[k] \in Entry /\ entity[k].feature \in BOOLEAN
  BY DEF TypeOK, EntityOK, RegistryOK, Entity
<1> DEFINE e == Written(k, registry[k], entity[k].feature, c, live')
<1>2. e \in Entity
  BY <1>1, WrittenFacts
<1>3. /\ e.available = (c /\ (k \in Rooms \/ k \in live'))
      /\ e.state = IF k \in Rooms /\ k \notin live' THEN None ELSE registry[k].state
  BY DEF Written
<1> QED
  BY <1>2, <1>3, EntityIsSome DEF Agrees

LEMMA NoticeShown == ASSUME ShownInv, Notice PROVE ExistInv' /\ LastInv' /\ ShownAgrees'
<1>1. /\ live' = {} /\ available' = FALSE /\ ~up /\ UNCHANGED <<phase, up, ready, registry>>
      /\ entity' = [k \in Keys |-> IF entity[k] = None THEN None
                                   ELSE Written(k, registry[k], entity[k].feature, FALSE, {})]
  BY DEF Notice, SyncDown, gatewayVars
<1>2. up' = FALSE
  BY <1>1 DEF ShownInv, TypeOK
<1>3. ASSUME NEW k \in Keys, entity[k] # None PROVE entity'[k] # None /\ Agrees(k)'
  BY <1>1, <1>2, <1>3, RewrittenShown DEF ShownInv
<1> QED
  BY <1>1, <1>3 DEF ShownInv, ExistInv, LastInv, ShownAgrees, Settled, Agrees

LEMMA ConnectShown ==
  ASSUME ShownInv, Connect, ~available, UNCHANGED <<live, registry, ready>>,
         phase' = "started" => phase = "started" \/ ready = {}
  PROVE  ExistInv' /\ LastInv' /\ ShownAgrees'
<1>1. live' = {} /\ up' = TRUE
  BY DEF ShownInv, SessionInv, Connect
<1>2. ASSUME NEW k \in Keys, entity[k] # None PROVE entity'[k] # None /\ Agrees(k)'
  <2>1. entity'[k] = Written(k, registry[k], entity[k].feature, TRUE, live')
    BY <1>2 DEF Connect
  <2> QED
    BY <1>1, <1>2, <2>1, RewrittenShown DEF ShownInv
<1>3. ASSUME NEW k \in Keys, phase' = "started", PlatformOf(k) \in ready, registry[k] # None
      PROVE  entity[k] # None
  BY <1>3 DEF ShownInv, ExistInv
<1> QED
  BY <1>1, <1>2, <1>3 DEF ExistInv, LastInv, ShownAgrees, Settled, Agrees

LEMMA SetUpShown ==
  ASSUME ShownInv, NEW p \in Platforms, SetUp(p)
  PROVE  ExistInv' /\ LastInv' /\ ShownAgrees'
<1>1. /\ phase = "started" /\ ready' = ready \cup {p}
      /\ UNCHANGED <<phase, up, available, live, registry, last>>
  BY DEF SetUp, sessionVars, gatewayVars
<1>2. ASSUME NEW k \in Keys, PlatformOf(k) = p, registry[k] # None
      PROVE  entity'[k] # None /\ Agrees(k)'
  <2> DEFINE e == Created(k, registry[k], up, live)
  <2>1. registry[k] \in Entry /\ up \in BOOLEAN
    BY <1>2 DEF ShownInv, TypeOK, RegistryOK
  <2>2. e \in Entity
    BY <2>1, CreatedFacts
  <2>3. /\ e.available = (up /\ (k \in Rooms \/ k \in live))
        /\ e.state = IF k \in Rooms /\ k \notin live THEN None ELSE registry[k].state
    BY DEF Created, Written
  <2>4. entity'[k] = e
    BY <1>2 DEF SetUp
  <2> HIDE DEF e
  <2> QED
    BY <1>1, <2>2, <2>3, <2>4, EntityIsSome DEF Agrees
<1>3. ASSUME NEW k \in Keys, PlatformOf(k) # p PROVE entity'[k] = entity[k]
  BY <1>3 DEF SetUp
<1> QED
  BY <1>1, <1>2, <1>3 DEF ShownInv, ExistInv, LastInv, ShownAgrees, Settled, Agrees

LEMMA NextShown == ShownInv /\ [Next]_vars => ShownInv'
<1> SUFFICES ASSUME ShownInv, [Next]_vars PROVE ExistInv' /\ LastInv' /\ ShownAgrees'
  BY NextTyped, SessionStep DEF ShownInv
<1>1. ASSUME NEW f \in Frames, Report(f) \/ NoticeAfter(f)
      PROVE  ExistInv' /\ LastInv' /\ ShownAgrees'
  BY <1>1, ReportShown, NoticeAfterShown
<1>2. CASE Lose
  BY <1>2 DEF Lose, gatewayVars, haVars, ShownInv, SessionInv, ExistInv, LastInv, ShownAgrees,
              Settled
<1>3. CASE Notice
  BY <1>3, NoticeShown
<1>4. CASE Open
  BY <1>4, ConnectShown DEF Open, gatewayVars
<1>5. CASE Begin
  BY <1>5 DEF Begin, sessionVars, gatewayVars, haVars, ShownInv, ExistInv, LastInv, ShownAgrees,
              Settled
<1>6. ASSUME NEW k \in Keys, RestoreNext(k) PROVE ExistInv' /\ LastInv' /\ ShownAgrees'
  <2>1. phase' = "restoring" /\ live' = {}
    BY <1>6 DEF RestoreNext, sessionVars, ShownInv, SessionInv
  <2> QED
    BY <2>1 DEF ExistInv, LastInv, ShownAgrees, Settled
<1>7. CASE Start
  <2>1. /\ phase' = "started" /\ ready' = {} /\ live' = {} /\ ready = {} /\ ~available
        /\ UNCHANGED <<live, registry, ready>>
    BY <1>7 DEF Start, gatewayVars, ShownInv, SessionInv
  <2> QED
    BY <2>1 DEF ExistInv, LastInv, ShownAgrees, Settled
<1>8. ASSUME NEW p \in Platforms, SetUp(p) \/ Unload(p)
      PROVE  ExistInv' /\ LastInv' /\ ShownAgrees'
  <2>1. CASE SetUp(p)
    BY <2>1, SetUpShown
  <2>2. CASE Unload(p)
    <3>1. phase' = "unloading" /\ UNCHANGED <<live, registry, last>>
      BY <2>2 DEF Unload, sessionVars, gatewayVars
    <3> QED
      BY <3>1 DEF ShownInv, ExistInv, LastInv, ShownAgrees, Settled
  <2> QED
    BY <1>8, <2>1, <2>2
<1>9. CASE Dump
  BY <1>9 DEF Dump, sessionVars, gatewayVars, haVars, ShownInv, ExistInv, LastInv, ShownAgrees,
              Settled
<1>10. CASE Stop
  BY <1>10 DEF Stop, gatewayVars, haVars, ShownInv, ExistInv, LastInv, ShownAgrees, Settled
<1>11. CASE Unloaded \/ Crash
  BY <1>11 DEF Unloaded, Crash, GatewayIsGone, ExistInv, LastInv, ShownAgrees, Settled
<1>12. CASE UNCHANGED vars
  BY <1>12 DEF vars, sessionVars, gatewayVars, haVars, ShownInv, ExistInv, LastInv, ShownAgrees,
               Settled
<1> QED
  BY <1>1, <1>2, <1>3, <1>4, <1>5, <1>6, <1>7, <1>8, <1>9, <1>10, <1>11, <1>12 DEF Next

LEMMA InitShown == Init => ShownInv
  BY InitTyped DEF Init, ShownInv, SessionInv, ExistInv, LastInv, ShownAgrees, Settled

\* Once a loss is noticed the entities show the registry, for any number of
\* devices, platforms and reconnections.
THEOREM EntitiesAgree == Spec => []ShownAgrees
<1>1. ShownInv => ShownAgrees
  BY DEF ShownInv
<1> QED
  BY <1>1, InitShown, NextShown, PTL DEF Spec

\* What is shown as the present state was reported over this connection.
THEOREM ShownIsPresent == Spec => []AvailableIsReported
<1>1. ShownInv => AvailableIsReported
  <2> SUFFICES ASSUME ShownInv, Settled, NEW k \in Keys, entity[k] # None,
                      entity[k].available, entity[k].state # None
               PROVE  entity[k].state = last[k]
    BY DEF AvailableIsReported
  <2>1. PlatformOf(k) \in ready /\ registry[k] # None
    BY DEF ShownInv, TypeOK, EntityOK
  <2>2. k \in live /\ entity[k].state = registry[k].state
    BY <2>1 DEF ShownInv, ShownAgrees
  <2> QED
    BY <2>1, <2>2 DEF ShownInv, LastInv
<1> QED
  BY <1>1, InitShown, NextShown, PTL DEF Spec

----------------------------------------------------------------------------
(* What comes back after a restart.                                        *)

\* What was stored or named is registered or noted by the time its turn has
\* come, and all of it when the gateway starts.
HomeInv ==
    /\ phase = "restoring" =>
         \A k \in Keys \ todo :
             /\ stored[k] # None => registry[k] # None
             /\ k \in named \cap Rooms => k \in boot
    /\ phase = "started" =>
         /\ \A k \in Keys : stored[k] # None => registry[k] # None
         /\ named \cap Rooms \subseteq Known
         /\ up => Known \subseteq asked \cup live

BackInv == ShownInv /\ HomeInv

LEMMA ReportHome == ASSUME BackInv, NEW f \in Frames, Report(f) PROVE HomeInv'
<1>1. /\ registry' = Upserted(f, None) /\ live' = live \cup DOMAIN f
      /\ named' = named \cup {k \in Keys : entity'[k] # None}
      /\ phase # "restoring" /\ up /\ UNCHANGED <<phase, up, boot, asked, stored>>
  BY DEF Report
<1>2. ASSUME NEW k \in Keys PROVE registry[k] # None => registry'[k] # None
  BY <1>1, UpsertedFacts DEF BackInv, ShownInv
<1>3. ASSUME NEW k \in Keys, registry'[k] # None, k \notin DOMAIN f PROVE registry[k] # None
  BY <1>1, <1>3, UpsertedFacts DEF BackInv, ShownInv
<1>4. TypeOK'
  BY ReportTyped DEF BackInv, ShownInv
<1>5. \A k \in Keys : entity'[k] # None => registry'[k] # None
  BY <1>4 DEF TypeOK, EntityOK
<1>6. Rooms \subseteq Keys
  BY DEF Keys
<1>7. named \cap Rooms \subseteq Known => (named \cap Rooms \subseteq Known)'
  BY <1>1, <1>2, <1>5, <1>6 DEF Known
<1>8. Known \subseteq asked \cup live => (Known \subseteq asked \cup live)'
  BY <1>1, <1>3, <1>6 DEF Known
<1> QED
  BY <1>1, <1>2, <1>7, <1>8 DEF BackInv, HomeInv

LEMMA NoticeAfterHome == ASSUME BackInv, NEW f \in Frames, NoticeAfter(f) PROVE HomeInv'
<1>1. /\ registry' = Upserted(f, None)
      /\ named' = named \cup {k \in Keys : entity'[k] # None}
      /\ phase # "restoring" /\ ~up /\ UNCHANGED <<phase, up, boot, asked, stored>>
  BY DEF NoticeAfter
<1>2. ASSUME NEW k \in Keys PROVE registry[k] # None => registry'[k] # None
  BY <1>1, UpsertedFacts DEF BackInv, ShownInv
<1>3. TypeOK'
  BY NoticeAfterTyped DEF BackInv, ShownInv
<1>4. \A k \in Keys : entity'[k] # None => registry'[k] # None
  BY <1>3 DEF TypeOK, EntityOK
<1>5. Rooms \subseteq Keys
  BY DEF Keys
<1>6. named \cap Rooms \subseteq Known => (named \cap Rooms \subseteq Known)'
  BY <1>1, <1>2, <1>4, <1>5 DEF Known
<1> QED
  BY <1>1, <1>2, <1>6 DEF BackInv, HomeInv

\* The turn of k: it is registered if anything was stored for it.
LEMMA RestoreHome == ASSUME BackInv, NEW k \in Keys, RestoreNext(k) PROVE HomeInv'
<1>1. /\ phase = "restoring" /\ todo' = todo \ {k}
      /\ boot' = (IF k \in Rooms THEN boot \cup {k} ELSE boot)
      /\ UNCHANGED <<phase, named, stored>>
  BY DEF RestoreNext, haVars
<1>2. ASSUME NEW j \in Keys PROVE registry[j] # None => registry'[j] # None
  <2>1. CASE stored[k] = None
    BY <2>1 DEF RestoreNext
  <2>2. CASE stored[k] # None
    <3>1. stored[k].packet \in Frames
      BY <2>2 DEF BackInv, ShownInv, TypeOK, StoredOK
    <3> QED
      BY <2>2, <3>1, UpsertedFacts DEF RestoreNext, BackInv, ShownInv
  <2> QED
    BY <2>1, <2>2
<1>3. stored[k] # None => registry'[k] # None
  <2> SUFFICES ASSUME stored[k] # None, registry[k] = None PROVE registry'[k] # None
    BY <1>2
  <2>1. stored[k].packet \in Frames /\ k \in DOMAIN stored[k].packet
    BY DEF BackInv, ShownInv, TypeOK, StoredOK
  <2>2. IsNew(k, stored[k].packet, k)
    BY DEF IsNew, Registers
  <2>3. registry'[k] = Read(k, stored[k].packet)
    BY <2>1, <2>2 DEF RestoreNext, Upserted
  <2> QED
    BY <2>1, <2>3, ReadType DEF BackInv, ShownInv
<1> QED
  BY <1>1, <1>2, <1>3 DEF BackInv, HomeInv

LEMMA NextBack == BackInv /\ [Next]_vars => BackInv'
<1> SUFFICES ASSUME BackInv, [Next]_vars PROVE HomeInv'
  BY NextShown DEF BackInv
<1>0. Rooms \subseteq Keys /\ TypeOK
  BY DEF Keys, BackInv, ShownInv
<1>1. ASSUME NEW f \in Frames, Report(f) \/ NoticeAfter(f) PROVE HomeInv'
  BY <1>1, ReportHome, NoticeAfterHome
<1>2. CASE Lose \/ Notice
  <2>1. /\ ~up' /\ phase # "restoring"
        /\ UNCHANGED <<phase, registry, boot, named, stored>>
    BY <1>2 DEF Lose, Notice, gatewayVars, haVars
  <2> QED
    BY <2>1 DEF BackInv, HomeInv, Known
<1>3. CASE Open
  <2>1. /\ phase # "restoring" /\ asked' = Known
        /\ UNCHANGED <<phase, registry, boot, named, stored>>
    BY <1>3 DEF Open, Connect, gatewayVars
  <2> QED
    BY <2>1 DEF BackInv, HomeInv, Known
<1>4. CASE Begin
  <2>1. phase' = "restoring" /\ todo' = named /\ UNCHANGED <<registry, boot, named, stored>>
    BY <1>4 DEF Begin, gatewayVars, haVars
  <2>2. \A k \in Keys : stored[k] # None => k \in named
    BY <1>0 DEF TypeOK, StoredOK
  <2> QED
    BY <2>1, <2>2 DEF HomeInv
<1>5. ASSUME NEW k \in Keys, RestoreNext(k) PROVE HomeInv'
  BY <1>5, RestoreHome
<1>6. CASE Start
  <2>1. /\ phase = "restoring" /\ todo = {} /\ phase' = "started"
        /\ UNCHANGED <<registry, boot, named, stored, live>>
        /\ asked' = Known \/ UNCHANGED up
    BY <1>6 DEF Start, Connect, gatewayVars
  <2>2. ~up
    BY <2>1 DEF BackInv, ShownInv, SessionInv
  <2> QED
    BY <1>0, <2>1, <2>2 DEF BackInv, HomeInv, Known
<1>7. ASSUME NEW p \in Platforms, SetUp(p) PROVE HomeInv'
  <2>1. /\ phase = "started" /\ named' = named \cup {k \in Keys : entity'[k] # None}
        /\ UNCHANGED <<phase, up, registry, boot, asked, live, stored>>
    BY <1>7 DEF SetUp, sessionVars, gatewayVars
  <2>2. \A k \in Keys : entity'[k] # None => registry'[k] # None
    BY <1>0, <1>7, SetUpTyped DEF TypeOK, EntityOK
  <2> QED
    BY <1>0, <2>1, <2>2 DEF BackInv, HomeInv, Known
<1>8. ASSUME NEW p \in Platforms, Unload(p) PROVE HomeInv'
  BY <1>8 DEF Unload, HomeInv
<1>9. CASE Dump
  <2>1. /\ stored' = [k \in Keys |-> IF entity[k] # None THEN Left(k) ELSE stored[k]]
        /\ phase # "restoring"
        /\ UNCHANGED <<phase, up, registry, boot, asked, live, named>>
    BY <1>9 DEF Dump, sessionVars, gatewayVars, haVars
  <2>2. \A k \in Keys : entity[k] # None => registry[k] # None
    BY <1>0 DEF TypeOK, EntityOK
  <2> QED
    BY <2>1, <2>2 DEF BackInv, HomeInv, Known
<1>10. CASE Stop \/ Unloaded \/ Crash
  BY <1>10 DEF Stop, Unloaded, Crash, GatewayIsGone, HomeInv
<1>11. CASE UNCHANGED vars
  BY <1>11 DEF vars, sessionVars, gatewayVars, haVars, BackInv, HomeInv, Known
<1> QED
  BY <1>1, <1>2, <1>3, <1>4, <1>5, <1>6, <1>7, <1>8, <1>9, <1>10, <1>11 DEF Next

LEMMA InitBack == Init => BackInv
  BY InitShown DEF Init, BackInv, HomeInv

\* An entity that left a packet comes back with its platform.
THEOREM StoredComeBack == Spec => []KnownComeBack
<1>1. BackInv => KnownComeBack
  BY DEF BackInv, HomeInv, ShownInv, ExistInv, KnownComeBack
<1> QED
  BY <1>1, InitBack, NextBack, PTL DEF Spec

\* Every thermostat that has a name is asked, or has reported.
THEOREM NamedRoomsAreAsked == Spec => []NamedAreAsked
<1>1. BackInv => NamedAreAsked
  BY DEF BackInv, HomeInv, NamedAreAsked, Settled
<1> QED
  BY <1>1, InitBack, NextBack, PTL DEF Spec

----------------------------------------------------------------------------
(* The presets of the fan.                                                 *)

\* The first entity of the fan that is replayed brings the storage back, the
\* second one the fan's features, whatever lies between.
FanInv ==
    /\ knew /\ phase = "restoring" =>
         /\ Fan # None /\ \A k \in Vent : stored[k] # None
         /\ \A k \in Keys : stored[k] # None => stored[k].storage
         /\ (\E k \in Vent : k \notin todo) => storage
         /\ \A j, k \in Vent : j # k /\ j \notin todo /\ k \notin todo =>
              registry[Fan] # None /\ registry[Fan].presets
    /\ knew /\ phase = "started" =>
         Fan # None /\ storage /\ registry[Fan] # None /\ registry[Fan].presets
    /\ PresetsComeBack

PresetInv == TypeOK /\ FanInv

\* The packet of one of the fan's entities shows them all.
LEMMA VentFrames ==
  ASSUME NEW f \in Frames, NEW k \in Vent, k \in DOMAIN f, Fan # None PROVE Fan \in DOMAIN f
<1>1. PICK group \in Groups : f \in [group -> BOOLEAN]
  BY DEF Frames
<1>2. k \in group /\ k \notin Lights /\ k \notin Rooms
  BY <1>1, EntitiesAssumption DEF Vent
<1>3. group = Vent
  BY <1>2 DEF Groups
<1> QED
  BY <1>1, <1>3 DEF Vent

\* With the storage known, the fan is registered with its presets for good.
LEMMA FanRegistered ==
  ASSUME TypeOK, Fan # None, NEW f \in Frames, NEW forced, storage,
         registry' = Upserted(f, forced)
  PROVE  /\ registry[Fan] # None /\ registry[Fan].presets =>
              registry'[Fan] # None /\ registry'[Fan].presets
         /\ Fan \in DOMAIN f => registry'[Fan] # None /\ registry'[Fan].presets
<1>1. Fan \in Keys /\ Fan \notin Lights
  BY EntitiesAssumption DEF Keys, Vent
<1>2. Fan \in DOMAIN f => registry'[Fan] # None
  <2> SUFFICES ASSUME Fan \in DOMAIN f, registry'[Fan] = None PROVE FALSE
    OBVIOUS
  <2>1. registry[Fan] = None
    BY <1>1, UpsertedFacts
  <2>2. IsNew(Fan, f, forced)
    BY <1>1, <2>1 DEF IsNew, Registers
  <2>3. registry'[Fan] = Read(Fan, f)
    BY <1>1, <2>2 DEF Upserted
  <2> QED
    BY <2>3, ReadType
<1>3. Fan \in DOMAIN f => registry'[Fan].presets
  BY <1>1, <1>2, UpsertedFacts
<1>4. registry[Fan] # None => registry'[Fan] # None
  BY <1>1, UpsertedFacts
<1>5. Fan \notin DOMAIN f => registry'[Fan] = registry[Fan]
  BY <1>1, UpsertedFacts
<1> QED
  BY <1>2, <1>3, <1>4, <1>5

LEMMA ReportPresets == ASSUME PresetInv, NEW f \in Frames, Report(f) PROVE FanInv'
<1>1. /\ registry' = Upserted(f, None) /\ storage' = Noted(f) /\ phase # "restoring"
      /\ UNCHANGED <<phase, knew, ready>>
  BY DEF Report
<1> SUFFICES ASSUME knew, phase = "started"
             PROVE  /\ storage' /\ registry'[Fan] # None /\ registry'[Fan].presets
                    /\ entity'[Fan] # None => entity'[Fan].feature
  BY <1>1 DEF PresetInv, FanInv, PresetsComeBack
<1>2. Fan # None /\ storage /\ registry[Fan] # None /\ registry[Fan].presets
      /\ (entity[Fan] # None => entity[Fan].feature)
  BY DEF PresetInv, FanInv, PresetsComeBack
<1>3. registry'[Fan] # None /\ registry'[Fan].presets
  BY <1>1, <1>2, FanRegistered DEF PresetInv
<1>4. storage'
  BY <1>1, <1>2 DEF Noted
<1>5. Fan \in Keys
  BY <1>2 DEF Keys, Vent
<1>6. entity'[Fan] =
         IF Fan \in DOMAIN f /\ PlatformOf(Fan) \in ready /\ entity[Fan] # None /\ Dispatched(Fan, f)
         THEN Written(Fan, Read(Fan, f), entity[Fan].feature, TRUE, live') ELSE entity[Fan]
  BY <1>2, <1>5 DEF Report, IsNew
<1>7. Written(Fan, Read(Fan, f), entity[Fan].feature, TRUE, live').feature = entity[Fan].feature
  BY DEF Written
<1> QED
  BY <1>2, <1>3, <1>4, <1>6, <1>7

LEMMA NoticeAfterPresets == ASSUME PresetInv, NEW f \in Frames, NoticeAfter(f) PROVE FanInv'
<1>1. /\ registry' = Upserted(f, None) /\ storage' = Noted(f) /\ phase # "restoring"
      /\ UNCHANGED <<phase, knew, ready>>
  BY DEF NoticeAfter
<1> SUFFICES ASSUME knew, phase = "started"
             PROVE  /\ storage' /\ registry'[Fan] # None /\ registry'[Fan].presets
                    /\ entity'[Fan] # None => entity'[Fan].feature
  BY <1>1 DEF PresetInv, FanInv, PresetsComeBack
<1>2. Fan # None /\ storage /\ registry[Fan] # None /\ registry[Fan].presets
      /\ (entity[Fan] # None => entity[Fan].feature)
  BY DEF PresetInv, FanInv, PresetsComeBack
<1>3. registry'[Fan] # None /\ registry'[Fan].presets
  BY <1>1, <1>2, FanRegistered DEF PresetInv
<1>4. storage'
  BY <1>1, <1>2 DEF Noted
<1>5. Fan \in Keys
  BY <1>2 DEF Keys, Vent
<1> DEFINE new == Created(Fan, registry'[Fan], FALSE, {})
           old == Written(Fan, registry'[Fan], entity[Fan].feature, FALSE, {})
<1>6. new.feature = registry'[Fan].presets /\ old.feature = entity[Fan].feature
  BY DEF Created, Written
<1>7. \/ entity'[Fan] = entity[Fan]
      \/ entity[Fan] = None /\ entity'[Fan] = new
      \/ entity[Fan] # None /\ entity'[Fan] = old
  BY <1>5 DEF NoticeAfter
<1> HIDE DEF new, old
<1> QED
  BY <1>2, <1>3, <1>4, <1>6, <1>7

LEMMA RestorePresets == ASSUME PresetInv, NEW k \in Keys, RestoreNext(k) PROVE FanInv'
<1>1. /\ phase = "restoring" /\ phase' = phase /\ todo' = todo \ {k}
      /\ UNCHANGED <<stored, knew>>
  BY DEF RestoreNext
<1> SUFFICES ASSUME knew
             PROVE  /\ (\E j \in Vent : j \notin todo') => storage'
                    /\ \A i, j \in Vent : i # j /\ i \notin todo' /\ j \notin todo' =>
                         registry'[Fan] # None /\ registry'[Fan].presets
  BY <1>1 DEF PresetInv, FanInv, PresetsComeBack
<1>2. /\ Fan # None /\ \A j \in Vent : stored[j] # None
      /\ \A j \in Keys : stored[j] # None => stored[j].storage
      /\ (\E j \in Vent : j \notin todo) => storage
      /\ \A i, j \in Vent : i # j /\ i \notin todo /\ j \notin todo =>
           registry[Fan] # None /\ registry[Fan].presets
  BY <1>1 DEF PresetInv, FanInv
<1>3. CASE stored[k] = None
  <2>1. UNCHANGED <<registry, storage>> /\ k \notin Vent
    BY <1>2, <1>3 DEF RestoreNext
  <2> QED
    BY <1>1, <1>2, <2>1
<1>4. CASE stored[k] # None
  <2>1. /\ registry' = Upserted(stored[k].packet, k) /\ storage' = stored[k].storage
        /\ stored[k].packet \in Frames /\ k \in DOMAIN stored[k].packet
    BY <1>4 DEF RestoreNext, RestoredStorage, PresetInv, TypeOK, StoredOK
  <2>2. storage'
    BY <1>2, <1>4, <2>1
  <2>3. ASSUME NEW i \in Vent, NEW j \in Vent, i # j, i \notin todo', j \notin todo'
        PROVE  registry'[Fan] # None /\ registry'[Fan].presets
    <3>1. storage
      BY <1>1, <1>2, <2>3
    <3>2. CASE k \in Vent
      <4>1. Fan \in DOMAIN stored[k].packet
        BY <1>2, <2>1, <3>2, VentFrames
      <4> QED
        BY <1>2, <2>1, <3>1, <4>1, FanRegistered DEF PresetInv
    <3>3. CASE k \notin Vent
      <4>1. registry[Fan] # None /\ registry[Fan].presets
        BY <1>1, <1>2, <2>3, <3>3
      <4> QED
        BY <1>2, <2>1, <3>1, <4>1, FanRegistered DEF PresetInv
    <3> QED
      BY <3>2, <3>3
  <2> QED
    BY <2>2, <2>3
<1> QED
  BY <1>3, <1>4

LEMMA NextPresets == PresetInv /\ SessionInv /\ [Next]_vars => PresetInv'
<1> SUFFICES ASSUME PresetInv, SessionInv, [Next]_vars PROVE FanInv'
  BY NextTyped DEF PresetInv
<1>1. ASSUME NEW f \in Frames, Report(f) \/ NoticeAfter(f) PROVE FanInv'
  BY <1>1, ReportPresets, NoticeAfterPresets
<1>2. CASE Lose \/ Dump
  BY <1>2 DEF Lose, Dump, sessionVars, gatewayVars, haVars, PresetInv, FanInv, PresetsComeBack
<1>3. CASE Notice \/ Open
  <2>1. phase # "restoring" /\ UNCHANGED <<phase, knew, registry, storage>>
    BY <1>3 DEF Notice, Open, gatewayVars
  <2>2. PICK c, lv :
          entity' = [k \in Keys |-> IF entity[k] = None THEN None
                                    ELSE Written(k, registry[k], entity[k].feature, c, lv)]
    BY <1>3 DEF Notice, Open, SyncDown, Connect
  <2>3. ASSUME Fan \in Keys, entity'[Fan] # None
        PROVE  entity[Fan] # None /\ entity'[Fan].feature = entity[Fan].feature
    BY <2>2, <2>3 DEF Written
  <2>4. knew /\ phase = "started" => Fan \in Keys
    BY DEF PresetInv, FanInv, Keys, Vent
  <2> QED
    BY <2>1, <2>3, <2>4 DEF PresetInv, FanInv, PresetsComeBack
<1>4. CASE Begin
  <2>1. /\ phase' = "restoring" /\ todo' = named /\ stored' = stored
        /\ knew' = /\ Fan # None /\ \A k \in Vent : stored[k] # None
                   /\ \A k \in Keys : stored[k] # None => stored[k].storage
    BY <1>4 DEF Begin
  <2>2. Vent \subseteq Keys /\ \A k \in Keys : stored[k] # None => k \in named
    BY DEF PresetInv, TypeOK, StoredOK, Keys
  <2> QED
    BY <2>1, <2>2 DEF FanInv, PresetsComeBack
<1>5. ASSUME NEW k \in Keys, RestoreNext(k) PROVE FanInv'
  BY <1>5, RestorePresets
<1>6. CASE Start
  <2>1. /\ phase = "restoring" /\ todo = {} /\ phase' = "started"
        /\ ready' = {} /\ UNCHANGED <<registry, storage, knew>>
    BY <1>6 DEF Start, gatewayVars, SessionInv
  <2>2. TypeOK'
    BY <1>6, NextTyped DEF Next, PresetInv
  <2>3. Fan \in Keys => entity'[Fan] = None
    BY <2>1, <2>2 DEF TypeOK, EntityOK
  <2>4. knew => Fan \in Vent /\ Fan \in Keys /\ \E k \in Vent : k # Fan
    BY <2>1, EntitiesAssumption DEF PresetInv, FanInv, Vent, Keys
  <2> QED
    BY <2>1, <2>3, <2>4 DEF PresetInv, FanInv, PresetsComeBack
<1>7. ASSUME NEW p \in Platforms, SetUp(p) PROVE FanInv'
  <2>1. phase = "started" /\ UNCHANGED <<phase, knew, registry, storage>>
    BY <1>7 DEF SetUp, gatewayVars
  <2> SUFFICES ASSUME knew, entity'[Fan] # None PROVE entity'[Fan].feature
    BY <2>1 DEF PresetInv, FanInv, PresetsComeBack
  <2>2. /\ Fan \in Keys /\ registry[Fan] # None /\ registry[Fan].presets
        /\ (entity[Fan] # None => entity[Fan].feature)
    BY <2>1 DEF PresetInv, FanInv, PresetsComeBack, Keys, Vent
  <2>3. Created(Fan, registry[Fan], up, live).feature = registry[Fan].presets
    BY DEF Created, Written
  <2>4. entity'[Fan] \in {Created(Fan, registry[Fan], up, live), entity[Fan]}
    BY <1>7, <2>2 DEF SetUp
  <2> QED
    BY <2>2, <2>3, <2>4
<1>8. ASSUME NEW p \in Platforms, Unload(p) PROVE FanInv'
  BY <1>8 DEF Unload, FanInv, PresetsComeBack
<1>9. CASE Stop \/ Unloaded \/ Crash
  BY <1>9 DEF Stop, Unloaded, Crash, GatewayIsGone, FanInv, PresetsComeBack
<1>10. CASE UNCHANGED vars
  BY <1>10 DEF vars, sessionVars, gatewayVars, haVars, PresetInv, FanInv, PresetsComeBack
<1> QED
  BY <1>1, <1>2, <1>3, <1>4, <1>5, <1>6, <1>7, <1>8, <1>9, <1>10 DEF Next

\* The fan offers the presets it knew, for any number of sensors and other
\* entities and any order of their replay.
THEOREM PresetsSurvive == Spec => []PresetsComeBack
<1>1. Init => PresetInv
  BY InitTyped DEF Init, PresetInv, FanInv, PresetsComeBack
<1>2. ShownInv => SessionInv
  BY DEF ShownInv
<1>3. PresetInv => PresetsComeBack
  BY DEF PresetInv, FanInv
<1> QED
  BY <1>1, <1>2, <1>3, InitShown, NextShown, NextPresets, PTL DEF Spec

=============================================================================
