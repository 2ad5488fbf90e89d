------------------------ MODULE RemoteDispatchProofs ------------------------
(***************************************************************************)
(* The watchdogs of RemoteDispatch, for every set of replicas and every    *)
(* number of dispatches: the maps hold exactly what can still fire, and a  *)
(* parked wait loses its deadline in the five named ways only.             *)
(***************************************************************************)
EXTENDS RemoteDispatch, TLAPS

TypeOK ==
    /\ watchdog \in [Replicas -> Gens \cup {0}]
    /\ timer \in [Gens -> {"none", "sleeping", "fired", "deregistered", "done"}]
    /\ home \in [Gens -> Replicas \cup {0}]
    /\ net \in SUBSET Responses
    /\ turn \in [Replicas -> {"idle", "running", "armed", "sent"}]
    /\ base \in [Replicas -> Gens \cup {0}] /\ mine \in [Replicas -> Gens \cup {0}]
    /\ parked \in Gens \cup {0}
    /\ \A r \in Replicas : turn[r] \in {"armed", "sent"} <=> mine[r] # 0

\* A task exists only for a dispatch that was made.
TimersHaveHomes == \A g \in Gens : timer[g] # "none" => home[g] # 0

MapInv == TypeOK /\ TimersHaveHomes /\ WatchdogsExact

-----------------------------------------------------------------------------

(* Zero names no dispatch.                                                 *)
LEMMA ZeroIsNoGen == 0 \notin Gens
  BY DispatchAssumption DEF Gens

(* JoinHandle::abort touches the one task, and ends it if it slept.        *)
LEMMA AbortedTimers ==
    ASSUME TypeOK, NEW w \in Gens \cup {0}, NEW t \in Aborted(w)
    PROVE  /\ t \in [Gens -> {"none", "sleeping", "fired", "deregistered", "done"}]
           /\ \A g \in Gens : g # w => t[g] = timer[g]
           /\ w # 0 => t[w] # "sleeping"
           /\ \A g \in Gens : t[g] = "none" <=> timer[g] = "none"
           /\ \A g \in Gens : t[g] # timer[g] => t[g] = "done"
  <1>1. CASE w = 0
    BY <1>1, ZeroIsNoGen DEF Aborted, TypeOK
  <1>2. CASE w # 0
    <2>1. w \in Gens
      BY <1>2
    <2>2. t = timer \/ t = Set(timer, w, "done")
      BY <1>2 DEF Aborted, TypeOK
    <2>3. timer[w] = "sleeping" => t = Set(timer, w, "done")
      BY <1>2 DEF Aborted, TypeOK
    <2>4. timer[w] = "none" => t = timer
      BY <1>2 DEF Aborted, TypeOK
    <2> QED
      BY <1>2, <2>1, <2>2, <2>3, <2>4 DEF TypeOK, Set
  <1> QED
    BY <1>1, <1>2

(* cancel_watchdog: taking the entry of the id out of a map and aborting   *)
(* its task leaves every map exact (an admitted response, a notice).       *)
LEMMA RetireKeepsMaps ==
    ASSUME MapInv, NEW r \in Replicas,
           watchdog' = Set(watchdog, r, 0),
           \E t \in Aborted(watchdog[r]) : timer' = t,
           home' = home
    PROVE  /\ watchdog' \in [Replicas -> Gens \cup {0}]
           /\ timer' \in [Gens -> {"none", "sleeping", "fired", "deregistered", "done"}]
           /\ TimersHaveHomes' /\ WatchdogsExact'
  <1>1. watchdog[r] \in Gens \cup {0}
    BY DEF MapInv, TypeOK
  <1>2. /\ timer' \in [Gens -> {"none", "sleeping", "fired", "deregistered", "done"}]
        /\ \A g \in Gens : g # watchdog[r] => timer'[g] = timer[g]
        /\ watchdog[r] # 0 => timer'[watchdog[r]] # "sleeping"
        /\ \A g \in Gens : timer'[g] = "none" <=> timer[g] = "none"
    BY <1>1, AbortedTimers DEF MapInv
  <1>3. /\ watchdog' \in [Replicas -> Gens \cup {0}] /\ watchdog'[r] = 0
        /\ \A o \in Replicas : o # r => watchdog'[o] = watchdog[o]
    BY DEF MapInv, TypeOK, Set
  <1>4. TimersHaveHomes'
    BY <1>2 DEF MapInv, TimersHaveHomes
  <1>5. ASSUME NEW o \in Replicas, watchdog'[o] # 0
        PROVE  home[watchdog'[o]] = o /\ timer'[watchdog'[o]] \in {"sleeping", "fired"}
    <2>1. o # r /\ watchdog'[o] = watchdog[o] /\ watchdog[o] \in Gens
      BY <1>3, <1>5 DEF MapInv, TypeOK
    <2>2. home[watchdog[o]] = o /\ timer[watchdog[o]] \in {"sleeping", "fired"}
      BY <1>5, <2>1 DEF MapInv, WatchdogsExact
    <2>3. watchdog[o] # watchdog[r]
      BY <1>1, <2>1, <2>2, ZeroIsNoGen DEF MapInv, WatchdogsExact
    <2> QED
      BY <1>2, <2>1, <2>2, <2>3
  <1>6. ASSUME NEW g \in Gens, timer'[g] = "sleeping"
        PROVE  watchdog'[home[g]] = g
    <2>1. g # watchdog[r] /\ timer[g] = "sleeping"
      BY <1>2, <1>6, ZeroIsNoGen
    <2>2. watchdog[home[g]] = g /\ home[g] \in Replicas
      BY <2>1 DEF MapInv, WatchdogsExact, TimersHaveHomes, TypeOK
    <2> QED
      BY <1>3, <2>1, <2>2
  <1> QED
    BY <1>2, <1>3, <1>4, <1>5, <1>6 DEF WatchdogsExact

(* arm_watchdog: the new task takes the place of the one under the same id,*)
(* which is aborted under the same lock.                                   *)
LEMMA ArmKeepsMaps ==
    ASSUME MapInv, NEW r \in Replicas, Arm(r)
    PROVE  MapInv'
  <1> PICK g \in Gens :
         /\ home[g] = 0 /\ home' = Set(home, g, r) /\ mine' = Set(mine, r, g)
         /\ \/ UNCHANGED <<timer, watchdog>>
            \/ /\ \E t \in Aborted(watchdog[r]) : timer' = Set(t, g, "sleeping")
               /\ watchdog' = Set(watchdog, r, g)
    BY DEF Arm
  <1>1. /\ home' \in [Gens -> Replicas \cup {0}] /\ home'[g] = r /\ r # 0
        /\ \A h \in Gens : h # g => home'[h] = home[h]
        /\ mine' \in [Replicas -> Gens \cup {0}]
    BY DispatchAssumption DEF MapInv, TypeOK, Set
  <1>2. /\ turn' \in [Replicas -> {"idle", "running", "armed", "sent"}]
        /\ net' = net /\ base' = base /\ parked' = parked
    BY DEF Arm, MapInv, TypeOK, Set
  <1>3. \A o \in Replicas : turn'[o] \in {"armed", "sent"} <=> mine'[o] # 0
    BY ZeroIsNoGen DEF Arm, MapInv, TypeOK, Set
  <1>4. timer[g] = "none" /\ \A o \in Replicas : watchdog[o] # g
    <2>1. timer[g] = "none"
      BY DEF MapInv, TimersHaveHomes
    <2> QED
      BY <2>1, ZeroIsNoGen DEF MapInv, WatchdogsExact
  <1>5. CASE UNCHANGED <<timer, watchdog>>
    <2>1. TypeOK' /\ TimersHaveHomes'
      BY <1>1, <1>2, <1>5, <1>3 DEF MapInv, TypeOK, TimersHaveHomes
    <2>2. WatchdogsExact'
      BY <1>1, <1>4, <1>5 DEF MapInv, TypeOK, WatchdogsExact
    <2> QED
      BY <2>1, <2>2 DEF MapInv
  <1>6. CASE /\ \E t \in Aborted(watchdog[r]) : timer' = Set(t, g, "sleeping")
             /\ watchdog' = Set(watchdog, r, g)
    <2> PICK t \in Aborted(watchdog[r]) : timer' = Set(t, g, "sleeping")
      BY <1>6
    <2>1. /\ t \in [Gens -> {"none", "sleeping", "fired", "deregistered", "done"}]
          /\ \A h \in Gens : h # watchdog[r] => t[h] = timer[h]
          /\ watchdog[r] # 0 => t[watchdog[r]] # "sleeping"
          /\ \A h \in Gens : t[h] = "none" <=> timer[h] = "none"
      <3>1. watchdog[r] \in Gens \cup {0}
        BY DEF MapInv, TypeOK
      <3> QED
        BY <3>1, AbortedTimers DEF MapInv
    <2>2. /\ timer' \in [Gens -> {"none", "sleeping", "fired", "deregistered", "done"}]
          /\ timer'[g] = "sleeping" /\ \A h \in Gens : h # g => timer'[h] = t[h]
      BY <2>1 DEF Set
    <2>3. /\ watchdog' \in [Replicas -> Gens \cup {0}] /\ watchdog'[r] = g
          /\ \A o \in Replicas : o # r => watchdog'[o] = watchdog[o]
      BY <1>6 DEF MapInv, TypeOK, Set
    <2>4. TypeOK' /\ TimersHaveHomes'
      BY <1>1, <1>2, <1>3, <2>1, <2>2, <2>3 DEF MapInv, TypeOK, TimersHaveHomes
    <2>5. ASSUME NEW o \in Replicas, watchdog'[o] # 0
          PROVE  home'[watchdog'[o]] = o /\ timer'[watchdog'[o]] \in {"sleeping", "fired"}
      <3>1. CASE o = r
        <4>1. watchdog'[o] = g
          BY <2>3, <3>1
        <4>2. home'[g] = o /\ timer'[g] \in {"sleeping", "fired"}
          BY <1>1, <2>2, <3>1
        <4> QED
          BY <4>1, <4>2
      <3>2. CASE o # r
        <4>1. watchdog'[o] = watchdog[o] /\ watchdog[o] \in Gens /\ watchdog[o] # g
          BY <1>4, <2>3, <2>5, <3>2 DEF MapInv, TypeOK
        <4>2. home[watchdog[o]] = o /\ timer[watchdog[o]] \in {"sleeping", "fired"}
          BY <2>5, <4>1 DEF MapInv, WatchdogsExact
        <4>3. watchdog[o] # watchdog[r]
          BY <3>2, <4>1, <4>2, ZeroIsNoGen DEF MapInv, WatchdogsExact
        <4>4. home'[watchdog[o]] = o /\ timer'[watchdog[o]] = timer[watchdog[o]]
          BY <1>1, <2>1, <2>2, <4>1, <4>2, <4>3, ZenonT(30)
        <4> QED
          BY <4>1, <4>2, <4>4
      <3> QED
        BY <3>1, <3>2
    <2>6. ASSUME NEW h \in Gens, timer'[h] = "sleeping"
          PROVE  watchdog'[home'[h]] = h
      <3>1. CASE h = g
        BY <1>1, <2>3, <3>1
      <3>2. CASE h # g
        <4>1. h # watchdog[r] /\ timer[h] = "sleeping"
          BY <2>1, <2>2, <2>6, <3>2, ZeroIsNoGen
        <4>2. watchdog[home[h]] = h /\ home[h] \in Replicas
          BY <4>1 DEF MapInv, WatchdogsExact, TimersHaveHomes, TypeOK
        <4> QED
          BY <1>1, <2>3, <3>2, <4>1, <4>2
      <3> QED
        BY <3>1, <3>2
    <2> QED
      BY <2>4, <2>5, <2>6 DEF MapInv, WatchdogsExact
  <1> QED
    BY <1>5, <1>6

(* The end of a turn: what a replica's turn variables may become.          *)
LEMMA EndTurnTypes ==
    ASSUME TypeOK, NEW r \in Replicas, EndTurn(r)
    PROVE  /\ turn' \in [Replicas -> {"idle", "running", "armed", "sent"}]
           /\ base' \in [Replicas -> Gens \cup {0}] /\ mine' \in [Replicas -> Gens \cup {0}]
           /\ turn'[r] = "idle" /\ base'[r] = 0 /\ mine'[r] = 0
           /\ \A o \in Replicas : o # r =>
                 turn'[o] = turn[o] /\ base'[o] = base[o] /\ mine'[o] = mine[o]
  BY DEF TypeOK, EndTurn, Set

(* A step that leaves the maps, the timers and the homes alone keeps the   *)
(* maps exact.                                                             *)
LEMMA MapsUntouched ==
    ASSUME MapInv, UNCHANGED <<watchdog, timer, home>>
    PROVE  TimersHaveHomes' /\ WatchdogsExact'
  BY DEF MapInv, TimersHaveHomes, WatchdogsExact

(* A process that ends takes its map and every task of its dispatches.     *)
LEMMA RestartKeepsMaps ==
    ASSUME MapInv, NEW r \in Replicas, Restart(r)
    PROVE  MapInv'
  <1>1. EndTurn(r) /\ UNCHANGED <<home, net, parked>> /\ watchdog' = Set(watchdog, r, 0)
    BY DEF Restart
  <1>2. /\ timer' \in [Gens -> {"none", "sleeping", "fired", "deregistered", "done"}]
        /\ \A g \in Gens : home[g] # r => timer'[g] = timer[g]
        /\ \A g \in Gens : home[g] = r => timer'[g] # "sleeping"
        /\ \A g \in Gens : timer'[g] \in {timer[g], "done"} /\ (timer[g] = "none" => timer'[g] = "none")
    BY DEF Restart, MapInv, TypeOK
  <1>3. /\ watchdog' \in [Replicas -> Gens \cup {0}] /\ watchdog'[r] = 0
        /\ \A o \in Replicas : o # r => watchdog'[o] = watchdog[o]
    BY <1>1 DEF MapInv, TypeOK, Set
  <1>4. TypeOK'
    BY <1>1, <1>2, <1>3, EndTurnTypes DEF MapInv, TypeOK
  <1>5. TimersHaveHomes'
    BY <1>1, <1>2 DEF MapInv, TimersHaveHomes
  <1>6. ASSUME NEW o \in Replicas, watchdog'[o] # 0
        PROVE  home[watchdog'[o]] = o /\ timer'[watchdog'[o]] \in {"sleeping", "fired"}
    <2>1. o # r /\ watchdog'[o] = watchdog[o] /\ watchdog[o] \in Gens
      BY <1>3, <1>6 DEF MapInv, TypeOK
    <2>2. home[watchdog[o]] = o /\ timer[watchdog[o]] \in {"sleeping", "fired"}
      BY <1>6, <2>1 DEF MapInv, WatchdogsExact
    <2> QED
      BY <1>2, <2>1, <2>2
  <1>7. ASSUME NEW g \in Gens, timer'[g] = "sleeping" PROVE watchdog'[home[g]] = g
    <2>1. home[g] # r /\ timer[g] = "sleeping"
      BY <1>2, <1>7
    <2>2. watchdog[home[g]] = g /\ home[g] \in Replicas
      BY <2>1 DEF MapInv, WatchdogsExact, TimersHaveHomes, TypeOK
    <2> QED
      BY <1>3, <2>1, <2>2
  <1> QED
    BY <1>1, <1>4, <1>5, <1>6, <1>7 DEF MapInv, WatchdogsExact

(* Every step of a turn, a timer, a response or a notice keeps the maps.   *)
LEMMA MapStep == MapInv /\ [Next]_vars => MapInv'
  <1> SUFFICES ASSUME MapInv, [Next]_vars PROVE MapInv'
    OBVIOUS
  <1>1. ASSUME NEW r \in Replicas, UserTurn(r) PROVE MapInv'
    <2>1. TypeOK'
      BY <1>1 DEF MapInv, TypeOK, UserTurn, Set
    <2> QED
      BY <1>1, <2>1, MapsUntouched DEF MapInv, UserTurn
  <1>2. ASSUME NEW r \in Replicas, Publish(r) PROVE MapInv'
    <2>1. net' \in SUBSET Responses
      <3>1. ASSUME net' = net \cup {[kind |-> "reply", gen |-> mine[r]]} PROVE net' \in SUBSET Responses
        BY <1>2, <3>1 DEF MapInv, TypeOK, Responses, Publish
      <3> QED
        BY <1>2, <3>1 DEF Publish, MapInv, TypeOK
    <2>2. TypeOK'
      BY <1>2, <2>1 DEF MapInv, TypeOK, Publish, Set
    <2> QED
      BY <1>2, <2>2, MapsUntouched DEF MapInv, Publish
  <1>3. ASSUME NEW r \in Replicas, PublishFails(r) PROVE MapInv'
    <2>1. TypeOK' \/ watchdog[r] = mine[r]
      BY <1>3, EndTurnTypes DEF MapInv, TypeOK, PublishFails
    <2>2. CASE watchdog[r] # mine[r]
      BY <1>3, <2>1, <2>2, MapsUntouched DEF MapInv, PublishFails
    <2>3. CASE watchdog[r] = mine[r]
      <3>1. watchdog' = Set(watchdog, r, 0) /\ (\E t \in Aborted(watchdog[r]) : timer' = t) /\ home' = home
        BY <1>3, <2>3 DEF PublishFails
      <3>2. TypeOK'
        BY <1>3, <3>1, RetireKeepsMaps, EndTurnTypes DEF MapInv, TypeOK, PublishFails
      <3> QED
        BY <3>1, <3>2, RetireKeepsMaps DEF MapInv
    <2> QED
      BY <2>2, <2>3
  <1>4. ASSUME NEW r \in Replicas, Park(r) \/ Complete(r) \/ Fail(r) PROVE MapInv'
    <2>1. EndTurn(r) /\ UNCHANGED <<watchdog, timer, home, net>> /\ parked' \in {parked, mine[r], 0}
      BY <1>4 DEF Park, Complete, Fail
    <2>2. TypeOK'
      BY <2>1, EndTurnTypes DEF MapInv, TypeOK
    <2> QED
      BY <2>1, <2>2, MapsUntouched DEF MapInv
  <1>5. ASSUME NEW r \in Replicas, NEW m \in net, ResumeChecked(r, m) PROVE MapInv'
    <2>1. /\ watchdog' = Set(watchdog, r, 0) /\ (\E t \in Aborted(watchdog[r]) : timer' = t)
          /\ home' = home /\ mine' = mine /\ parked' = parked /\ net' \in SUBSET Responses
          /\ turn' \in [Replicas -> {"idle", "running", "armed", "sent"}]
          /\ base' \in [Replicas -> Gens \cup {0}]
      BY <1>5 DEF ResumeChecked, MapInv, TypeOK, Set
    <2>2. \A o \in Replicas : turn'[o] \in {"armed", "sent"} <=> mine'[o] # 0
      BY <1>5 DEF ResumeChecked, MapInv, TypeOK, Set
    <2> QED
      BY <2>1, <2>2, RetireKeepsMaps DEF MapInv, TypeOK
  <1>6. ASSUME NEW r \in Replicas, CancelNotice(r) PROVE MapInv'
    <2>1. /\ watchdog' = Set(watchdog, r, 0) /\ (\E t \in Aborted(watchdog[r]) : timer' = t)
          /\ UNCHANGED <<home, net, turn, base, mine, parked>>
      BY <1>6 DEF CancelNotice
    <2> QED
      BY <2>1, RetireKeepsMaps DEF MapInv, TypeOK
  <1>7. ASSUME NEW g \in Gens, Fire(g) \/ PublishTimeout(g) PROVE MapInv'
    <2>1. /\ UNCHANGED <<watchdog, home, turn, base, mine, parked>>
          /\ timer' \in [Gens -> {"none", "sleeping", "fired", "deregistered", "done"}]
          /\ \A h \in Gens : h # g => timer'[h] = timer[h]
          /\ timer[g] # "none"
          /\ \/ timer[g] = "sleeping" /\ timer'[g] = "fired"
             \/ timer[g] = "deregistered" /\ timer'[g] = "done"
      BY <1>7 DEF Fire, PublishTimeout, MapInv, TypeOK, Set
    <2>2. net' \in SUBSET Responses
      BY <1>7 DEF Fire, PublishTimeout, MapInv, TypeOK, Responses
    <2>3. WatchdogsExact'
      BY <2>1 DEF MapInv, TypeOK, WatchdogsExact
    <2> QED
      BY <2>1, <2>2, <2>3 DEF MapInv, TypeOK, TimersHaveHomes
  <1>8. ASSUME NEW g \in Gens, Deregister(g) PROVE MapInv'
    <2>1. /\ UNCHANGED <<home, net, turn, base, mine, parked>>
          /\ timer' \in [Gens -> {"none", "sleeping", "fired", "deregistered", "done"}]
          /\ \A h \in Gens : h # g => timer'[h] = timer[h]
          /\ timer[g] = "fired" /\ timer'[g] = "deregistered"
      BY <1>8 DEF Deregister, MapInv, TypeOK, Set
    <2>2. home[g] \in Replicas
      BY <2>1 DEF MapInv, TypeOK, TimersHaveHomes
    <2>3. /\ watchdog' \in [Replicas -> Gens \cup {0}]
          /\ \A o \in Replicas : watchdog'[o] # watchdog[o] => watchdog[o] = g /\ watchdog'[o] = 0
          /\ watchdog'[home[g]] # g
      BY <1>8, <2>2, ZeroIsNoGen DEF Deregister, MapInv, TypeOK, Set
    <2>4. \A o \in Replicas : watchdog'[o] # g
      BY <2>2, <2>3, ZeroIsNoGen DEF MapInv, WatchdogsExact
    <2>5. ASSUME NEW o \in Replicas, watchdog'[o] # 0
          PROVE  home[watchdog'[o]] = o /\ timer'[watchdog'[o]] \in {"sleeping", "fired"}
      <3>1. watchdog'[o] = watchdog[o] /\ watchdog[o] \in Gens /\ watchdog[o] # g
        BY <2>3, <2>4, <2>5 DEF MapInv, TypeOK
      <3>2. home[watchdog[o]] = o /\ timer'[watchdog[o]] = timer[watchdog[o]]
        BY <2>1, <2>5, <3>1 DEF MapInv, WatchdogsExact
      <3>3. timer[watchdog[o]] \in {"sleeping", "fired"}
        BY <2>5, <3>1 DEF MapInv, WatchdogsExact
      <3> QED
        BY <3>1, <3>2, <3>3
    <2>6. ASSUME NEW h \in Gens, timer'[h] = "sleeping" PROVE watchdog'[home[h]] = h
      <3>1. h # g /\ timer[h] = "sleeping"
        BY <2>1, <2>6
      <3>2. watchdog[home[h]] = h /\ home[h] \in Replicas
        BY <3>1 DEF MapInv, TypeOK, TimersHaveHomes, WatchdogsExact
      <3> QED
        BY <2>3, <3>1, <3>2
    <2> QED
      BY <2>1, <2>3, <2>5, <2>6 DEF MapInv, TypeOK, TimersHaveHomes, WatchdogsExact
  <1>9. ASSUME NEW m \in net, LoseResponse(m) PROVE MapInv'
    <2>1. UNCHANGED <<watchdog, timer, home, turn, base, mine, parked>> /\ net' \in SUBSET Responses
      BY <1>9 DEF LoseResponse, MapInv, TypeOK
    <2> QED
      BY <2>1, MapsUntouched DEF MapInv, TypeOK
  <1>10. ASSUME NEW r \in Replicas, Restart(r) PROVE MapInv'
    BY <1>10, RestartKeepsMaps
  <1>11. CASE UNCHANGED vars
    BY <1>11 DEF MapInv, TypeOK, TimersHaveHomes, WatchdogsExact, vars
  <1> QED
    BY <1>1, <1>2, <1>3, <1>4, <1>5, <1>6, <1>7, <1>8, <1>9, <1>10, <1>11, ArmKeepsMaps
    DEF Next, TurnStep, TimerStep

(* For any number of replicas and dispatches, each replica's map holds     *)
(* exactly the watchdogs that can still fire: no finished entry stays in   *)
(* WATCHDOGS, and no sleeping deadline is out of a response's reach        *)
(* (arm_watchdog, deregister_watchdog, disarm_watchdog, cancel_watchdog).  *)
THEOREM MapsExact == Spec => []WatchdogsExact
  <1>1. Init => MapInv
    BY DEF Init, MapInv, TypeOK, TimersHaveHomes, WatchdogsExact, Responses
  <1>2. MapInv => WatchdogsExact
    BY DEF MapInv
  <1> QED
    BY <1>1, <1>2, MapStep, PTL DEF Spec

-----------------------------------------------------------------------------

\* A wait or an open dispatch was made by a replica, and no dispatch is both.
WaitsMade ==
    /\ parked # 0 => home[parked] # 0
    /\ \A r \in Replicas : mine[r] # 0 => home[mine[r]] = r /\ mine[r] # parked

\* A turn that runs where the parked wait was dispatched is resuming it.
ResumesOwnWait ==
    \A r \in Replicas : turn[r] # "idle" /\ parked # 0 /\ home[parked] = r => base[r] = parked

\* g had no deadline, or still has it, or lost it in a named way.
Watched(g) ==
    \/ timer[g] \in {"none", "sleeping", "fired", "deregistered"}
    \/ [kind |-> "timeout", gen |-> g] \in net
    \/ g \in unwatched

Resuming(g) == \E r \in Replicas : turn[r] # "idle" /\ base[r] = g

DeadlinesKept ==
    /\ \A r \in Replicas : mine[r] # 0 => Watched(mine[r])
    /\ parked # 0 => Watched(parked) \/ Resuming(parked)

DInv == MapInv /\ WaitsMade /\ ResumesOwnWait /\ DeadlinesKept

(* Where the task of a dispatch is untouched or moves on without being     *)
(* aborted, and nothing is taken off the wire or out of the history, the   *)
(* dispatch stays watched.                                                 *)
LEMMA StaysWatched ==
    ASSUME NEW g \in Gens, Watched(g),
           timer'[g] = timer[g] \/ timer'[g] \in {"sleeping", "fired", "deregistered"},
           [kind |-> "timeout", gen |-> g] \in net => [kind |-> "timeout", gen |-> g] \in net',
           g \in unwatched => g \in unwatched'
    PROVE  Watched(g)'
  BY DEF Watched

(* Aborting the task under the id on r (cancel_watchdog, arm_watchdog)     *)
(* touches neither a dispatch made elsewhere nor any other.                *)
LEMMA AbortIsLocal ==
    ASSUME MapInv, NEW r \in Replicas, NEW t \in Aborted(watchdog[r]), NEW g \in Gens,
           home[g] # r \/ g # watchdog[r]
    PROVE  t[g] = timer[g]
  <1>1. watchdog[r] \in Gens \cup {0}
    BY DEF MapInv, TypeOK
  <1>2. g # watchdog[r]
    BY ZeroIsNoGen DEF MapInv, WatchdogsExact
  <1> QED
    BY <1>1, <1>2, AbortedTimers DEF MapInv

(* A turn that is cut off (a refused publish, a failure, the end of its    *)
(* process) keeps every other dispatch watched, or recorded as lost with   *)
(* the task that watched it, and the wait it was resuming is recorded.     *)
LEMMA CutOffKeepsDeadlines ==
    ASSUME DInv, NEW r \in Replicas, EndTurn(r),
           UNCHANGED <<home, net, parked>>,
           \A g \in Gens : g # mine[r] /\ g \in unwatched => g \in unwatched',
           parked # 0 /\ base[r] = parked => parked \in unwatched',
           \A g \in Gens : g # mine[r] /\ (g = parked \/ home[g] # r) =>
               timer'[g] = timer[g] \/ g \in unwatched'
    PROVE  WaitsMade' /\ ResumesOwnWait' /\ DeadlinesKept'
  <1>1. /\ turn'[r] = "idle" /\ base'[r] = 0 /\ mine'[r] = 0
        /\ \A o \in Replicas : o # r =>
              turn'[o] = turn[o] /\ base'[o] = base[o] /\ mine'[o] = mine[o]
    BY EndTurnTypes DEF DInv, MapInv
  <1>2. WaitsMade' /\ ResumesOwnWait'
    BY <1>1 DEF DInv, WaitsMade, ResumesOwnWait
  <1>3. ASSUME NEW g \in Gens, g # mine[r], g = parked \/ home[g] # r, Watched(g)
        PROVE  Watched(g)'
    <2>1. CASE g \in unwatched'
      BY <2>1 DEF Watched
    <2>2. CASE timer'[g] = timer[g]
      BY <1>3, <2>2, StaysWatched, Zenon
    <2> QED
      BY <1>3, <2>1, <2>2
  <1>4. ASSUME NEW o \in Replicas, mine'[o] # 0 PROVE Watched(mine[o])'
    <2>1. /\ o # r /\ mine'[o] = mine[o] /\ mine[o] \in Gens /\ mine[o] # mine[r]
          /\ home[mine[o]] # r
      BY <1>1, <1>4 DEF DInv, MapInv, TypeOK, WaitsMade
    <2>2. Watched(mine[o])
      BY <1>4, <2>1 DEF DInv, DeadlinesKept
    <2>3. PICK g \in Gens : g = mine[o]
      BY <2>1
    <2>4. Watched(g)'
      BY <1>3, <2>1, <2>2, <2>3
    <2> QED
      BY <2>1, <2>3, <2>4 DEF Watched
  <1>5. ASSUME parked # 0 PROVE Watched(parked)' \/ Resuming(parked)'
    <2>1. parked \in Gens /\ parked # mine[r]
      BY <1>5 DEF DInv, MapInv, TypeOK, WaitsMade
    <2>2. CASE Watched(parked)
      <3>1. PICK g \in Gens : g = parked
        BY <2>1
      <3>2. Watched(g)'
        BY <1>3, <2>1, <2>2, <3>1
      <3> QED
        BY <3>1, <3>2 DEF Watched
    <2>3. CASE Resuming(parked)
      <3> PICK o \in Replicas : turn[o] # "idle" /\ base[o] = parked
        BY <2>3 DEF Resuming
      <3>1. CASE o = r
        BY <1>5, <3>1 DEF Watched
      <3>2. CASE o # r
        BY <1>1, <3>2 DEF Resuming
      <3> QED
        BY <3>1, <3>2
    <2> QED
      BY <1>5, <2>2, <2>3 DEF DInv, DeadlinesKept
  <1> QED
    BY <1>2, <1>4, <1>5 DEF DeadlinesKept

(* Arming aborts the task under the same id, which is the resumed wait's   *)
(* own or nobody's.                                                        *)
LEMMA ArmKeepsDeadlines ==
    ASSUME DInv, NEW r \in Replicas, Arm(r)
    PROVE  WaitsMade' /\ ResumesOwnWait' /\ DeadlinesKept'
  <1> PICK g \in Gens :
         /\ home[g] = 0 /\ home' = Set(home, g, r) /\ mine' = Set(mine, r, g)
         /\ \/ UNCHANGED <<timer, watchdog>>
            \/ /\ \E t \in Aborted(watchdog[r]) : timer' = Set(t, g, "sleeping")
               /\ watchdog' = Set(watchdog, r, g)
    BY DEF Arm
  <1>1. /\ home'[g] = r /\ r # 0 /\ \A h \in Gens : h # g => home'[h] = home[h]
        /\ mine'[r] = g /\ \A o \in Replicas : o # r => mine'[o] = mine[o]
    BY DispatchAssumption DEF DInv, MapInv, TypeOK, Set
  <1>2. /\ turn[r] = "running" /\ turn'[r] = "armed" /\ UNCHANGED <<net, base, parked, unwatched>>
        /\ \A o \in Replicas : o # r => turn'[o] = turn[o]
    BY DEF Arm, DInv, MapInv, TypeOK, Set
  <1>3. g # parked /\ \A o \in Replicas : mine[o] # g
    BY DispatchAssumption, ZeroIsNoGen DEF DInv, WaitsMade
  <1>4. parked # 0 => parked \in Gens /\ home'[parked] = home[parked]
    BY <1>1, <1>3 DEF DInv, MapInv, TypeOK
  <1>5. WaitsMade'
    <2>1. parked' # 0 => home'[parked'] # 0
      BY <1>2, <1>4 DEF DInv, WaitsMade
    <2>2. ASSUME NEW o \in Replicas, mine'[o] # 0 PROVE home'[mine'[o]] = o /\ mine'[o] # parked'
      <3>1. CASE o = r
        BY <1>1, <1>2, <1>3, <3>1
      <3>2. CASE o # r
        <4>1. mine'[o] = mine[o] /\ mine[o] \in Gens /\ mine[o] # g
          BY <1>1, <1>3, <2>2, <3>2 DEF DInv, MapInv, TypeOK
        <4>2. home[mine[o]] = o /\ mine[o] # parked
          BY <2>2, <4>1 DEF DInv, WaitsMade
        <4>3. home'[mine[o]] = home[mine[o]]
          BY <1>1, <4>1
        <4> QED
          BY <1>2, <4>1, <4>2, <4>3
      <3> QED
        BY <3>1, <3>2
    <2> QED
      BY <2>1, <2>2 DEF WaitsMade
  <1>6. ResumesOwnWait'
    <2>1. ASSUME NEW o \in Replicas, turn'[o] # "idle", parked # 0, home'[parked] = o
          PROVE  base[o] = parked
      <3>1. turn[o] # "idle"
        BY <1>2, <2>1
      <3> QED
        BY <1>4, <2>1, <3>1 DEF DInv, ResumesOwnWait
    <2> QED
      BY <1>2, <2>1 DEF ResumesOwnWait
  <1>7. ASSUME NEW h \in Gens, h # g, home[h] # r \/ h # watchdog[r] PROVE timer'[h] = timer[h]
    <2>1. CASE UNCHANGED <<timer, watchdog>>
      BY <2>1
    <2>2. CASE \E t \in Aborted(watchdog[r]) : timer' = Set(t, g, "sleeping")
      <3> PICK t \in Aborted(watchdog[r]) : timer' = Set(t, g, "sleeping")
        BY <2>2
      <3>1. t[h] = timer[h]
        BY <1>7, AbortIsLocal DEF DInv
      <3>2. DOMAIN t = Gens
        <4>1. watchdog[r] \in Gens \cup {0}
          BY DEF DInv, MapInv, TypeOK
        <4> QED
          BY <4>1, AbortedTimers DEF DInv, MapInv
      <3> QED
        BY <1>7, <3>1, <3>2 DEF Set
    <2> QED
      BY <2>1, <2>2
  <1>8. timer'[g] \in {"none", "sleeping"}
    <2>1. timer[g] = "none"
      BY DEF DInv, MapInv, TimersHaveHomes
    <2>2. CASE UNCHANGED <<timer, watchdog>>
      BY <2>1, <2>2
    <2>3. CASE \E t \in Aborted(watchdog[r]) : timer' = Set(t, g, "sleeping")
      <3> PICK t \in Aborted(watchdog[r]) : timer' = Set(t, g, "sleeping")
        BY <2>3
      <3>1. watchdog[r] \in Gens \cup {0}
        BY DEF DInv, MapInv, TypeOK
      <3>2. DOMAIN t = Gens
        BY <3>1, AbortedTimers DEF DInv, MapInv
      <3> QED
        BY <3>2 DEF Set
    <2> QED
      BY <2>2, <2>3
  <1>9. ASSUME NEW o \in Replicas, mine'[o] # 0 PROVE Watched(mine[o])'
    <2>1. CASE o = r
      BY <1>1, <1>8, <2>1 DEF Watched
    <2>2. CASE o # r
      <3> PICK h \in Gens : h = mine[o]
        BY <1>1, <1>9, <2>2 DEF DInv, MapInv, TypeOK
      <3>1. h # 0 /\ h # g /\ home[h] = o /\ Watched(h) /\ h = mine'[o]
        BY <1>1, <1>3, <1>9, <2>2 DEF DInv, WaitsMade, DeadlinesKept
      <3>2. timer'[h] = timer[h]
        BY <1>7, <2>2, <3>1
      <3>3. Watched(h)'
        BY <1>2, <3>1, <3>2, StaysWatched, Zenon
      <3> QED
        BY <3>1, <3>3 DEF Watched
    <2> QED
      BY <2>1, <2>2
  <1>10. ASSUME parked # 0 PROVE Watched(parked)' \/ Resuming(parked)'
    <2>1. CASE home[parked] = r
      BY <1>2, <1>10, <2>1 DEF DInv, ResumesOwnWait, Resuming
    <2>2. CASE home[parked] # r /\ Watched(parked)
      <3> PICK h \in Gens : h = parked
        BY <1>4, <1>10
      <3>1. timer'[h] = timer[h]
        BY <1>3, <1>7, <2>2
      <3>2. Watched(h)'
        BY <1>2, <2>2, <3>1, StaysWatched, Zenon
      <3> QED
        BY <1>2, <3>2 DEF Watched
    <2>3. CASE Resuming(parked)
      BY <1>2, <2>3 DEF Resuming
    <2> QED
      BY <1>10, <2>1, <2>2, <2>3 DEF DInv, DeadlinesKept
  <1> QED
    BY <1>2, <1>5, <1>6, <1>9, <1>10 DEF DeadlinesKept

\* A step that dispatches nothing and ends no turn.
TurnsGoOn ==
    /\ home' = home /\ mine' = mine /\ parked' = parked
    /\ \A r \in Replicas :
          IF turn[r] # "idle" THEN turn'[r] # "idle" /\ base'[r] = base[r]
          ELSE turn'[r] = "idle" \/ base'[r] = parked

OpenStayWatched ==
    \A r \in Replicas, g \in Gens : g = mine[r] /\ Watched(g) => Watched(g)'

WaitStaysWatched ==
    Resuming(parked)' \/ \A g \in Gens : g = parked /\ Watched(g) => Watched(g)'

(* The other steps: what must be shown of each is that an open dispatch or *)
(* the wait it does not resume stays watched.                              *)
LEMMA QuietStep ==
    ASSUME DInv, TurnsGoOn, OpenStayWatched, WaitStaysWatched
    PROVE  WaitsMade' /\ ResumesOwnWait' /\ DeadlinesKept'
  <1>1. WaitsMade' /\ ResumesOwnWait'
    BY DEF DInv, WaitsMade, ResumesOwnWait, TurnsGoOn
  <1>2. ASSUME NEW o \in Replicas, mine'[o] # 0 PROVE Watched(mine[o])'
    <2> PICK h \in Gens : h = mine[o] /\ h = mine'[o]
      BY <1>2 DEF DInv, MapInv, TypeOK, TurnsGoOn
    <2>1. Watched(h)
      BY ZeroIsNoGen, Zenon DEF DInv, DeadlinesKept
    <2>2. Watched(h)'
      BY <2>1, Zenon DEF OpenStayWatched
    <2> QED
      BY <2>2 DEF Watched
  <1>3. ASSUME parked' # 0 PROVE Watched(parked)' \/ Resuming(parked)'
    <2> PICK h \in Gens : h = parked /\ h = parked'
      BY <1>3 DEF DInv, MapInv, TypeOK, TurnsGoOn
    <2>1. CASE Resuming(parked)
      BY <2>1 DEF Resuming, TurnsGoOn
    <2>2. CASE Watched(parked)
      <3>1. Watched(h)' \/ Resuming(parked)'
        BY <2>2 DEF WaitStaysWatched
      <3> QED
        BY <3>1 DEF Watched
    <2> QED
      BY <2>1, <2>2, ZeroIsNoGen DEF DInv, DeadlinesKept
  <1> QED
    BY <1>1, <1>2, <1>3 DEF DeadlinesKept

(* A turn that parks hands the wait its own watched dispatch; one that     *)
(* completes leaves none.                                                  *)
LEMMA EndKeepsDeadlines ==
    ASSUME DInv, NEW r \in Replicas, Park(r) \/ Complete(r)
    PROVE  WaitsMade' /\ ResumesOwnWait' /\ DeadlinesKept'
  <1>1. /\ turn'[r] = "idle" /\ mine'[r] = 0 /\ UNCHANGED <<timer, home, net>> /\ unwatched' = unwatched \ {parked}
        /\ \A o \in Replicas : o # r =>
              turn'[o] = turn[o] /\ base'[o] = base[o] /\ mine'[o] = mine[o]
        /\ parked' = 0 \/ (parked' = mine[r] /\ mine[r] # 0)
    <2>1. EndTurn(r) /\ UNCHANGED <<timer, home, net>> /\ unwatched' = unwatched \ {parked}
      BY DEF Park, Complete
    <2>2. parked' = 0 \/ (parked' = mine[r] /\ mine[r] # 0)
      <3>1. turn[r] = "sent" => mine[r] # 0
        BY DEF DInv, MapInv, TypeOK
      <3> QED
        BY <3>1 DEF Park, Complete
    <2> QED
      BY <2>1, <2>2, EndTurnTypes DEF DInv, MapInv
  <1>2. WaitsMade'
    BY <1>1, DispatchAssumption DEF DInv, WaitsMade
  <1>3. ResumesOwnWait'
    BY <1>1, DispatchAssumption DEF DInv, WaitsMade, ResumesOwnWait
  <1>4. ASSUME NEW o \in Replicas, NEW h \in Gens, h = mine[o] PROVE Watched(h)'
    <2>1. h # parked /\ Watched(h)
      BY <1>4, ZeroIsNoGen DEF DInv, WaitsMade, DeadlinesKept
    <2>2. h \in unwatched => h \in unwatched'
      BY <1>1, <2>1
    <2> QED
      BY <1>1, <2>1, <2>2, StaysWatched, Zenon
  <1>5. ASSUME NEW o \in Replicas, mine'[o] # 0 PROVE Watched(mine[o])'
    <2> PICK h \in Gens : h = mine[o] /\ h = mine'[o]
      BY <1>1, <1>5 DEF DInv, MapInv, TypeOK
    <2>1. Watched(h)'
      BY <1>4, Zenon
    <2> QED
      BY <2>1 DEF Watched
  <1>6. ASSUME parked' # 0 PROVE Watched(parked)'
    <2> PICK h \in Gens : h = mine[r] /\ h = parked'
      BY <1>1, <1>6 DEF DInv, MapInv, TypeOK
    <2>1. Watched(h)'
      BY <1>4, Zenon
    <2> QED
      BY <2>1 DEF Watched
  <1> QED
    BY <1>2, <1>3, <1>5, <1>6 DEF DeadlinesKept

(* Every step keeps the deadlines.                                         *)
LEMMA DeadlineStep == DInv /\ [Next]_vars => DInv'
  <1> SUFFICES ASSUME DInv, [Next]_vars PROVE WaitsMade' /\ ResumesOwnWait' /\ DeadlinesKept'
    BY MapStep DEF DInv
  <1>1. ASSUME NEW r \in Replicas, UserTurn(r) PROVE WaitsMade' /\ ResumesOwnWait' /\ DeadlinesKept'
    <2>1. /\ UNCHANGED <<home, mine, parked, timer, net, unwatched>>
          /\ turn[r] = "idle" /\ base'[r] = parked
          /\ \A o \in Replicas : o # r => turn'[o] = turn[o] /\ base'[o] = base[o]
      BY <1>1 DEF UserTurn, DInv, MapInv, TypeOK, Set
    <2>2. TurnsGoOn
      BY <2>1 DEF TurnsGoOn
    <2>3. \A g \in Gens : Watched(g) => Watched(g)'
      BY <2>1, StaysWatched, Zenon
    <2>4. OpenStayWatched /\ WaitStaysWatched
      BY <2>3 DEF OpenStayWatched, WaitStaysWatched
    <2> QED
      BY <2>2, <2>4, QuietStep
  <1>2. ASSUME NEW r \in Replicas, Publish(r) PROVE WaitsMade' /\ ResumesOwnWait' /\ DeadlinesKept'
    <2>1. /\ UNCHANGED <<home, mine, parked, timer, base, unwatched>> /\ net \subseteq net'
          /\ \A o \in Replicas : turn'[o] # "idle" <=> turn[o] # "idle"
      BY <1>2 DEF Publish, DInv, MapInv, TypeOK, Set
    <2>2. TurnsGoOn
      BY <2>1 DEF TurnsGoOn
    <2>3. \A g \in Gens : Watched(g) => Watched(g)'
      BY <2>1, StaysWatched, Zenon
    <2>4. OpenStayWatched /\ WaitStaysWatched
      BY <2>3 DEF OpenStayWatched, WaitStaysWatched
    <2> QED
      BY <2>2, <2>4, QuietStep
  <1>3. ASSUME NEW r \in Replicas, PublishFails(r)
        PROVE  WaitsMade' /\ ResumesOwnWait' /\ DeadlinesKept'
    <2>1. \A g \in Gens : g # mine[r] => timer'[g] = timer[g]
      <3>1. mine[r] \in Gens \cup {0}
        BY DEF DInv, MapInv, TypeOK
      <3>2. timer' = timer \/ \E t \in Aborted(mine[r]) : timer' = t
        BY <1>3, SMTT(30) DEF PublishFails
      <3> QED
        BY <3>1, <3>2, AbortedTimers DEF DInv, MapInv
    <2> QED
      BY <1>3, <2>1, ZeroIsNoGen, CutOffKeepsDeadlines DEF PublishFails, Abandons, DInv, WaitsMade
  <1>4. ASSUME NEW r \in Replicas, Fail(r) PROVE WaitsMade' /\ ResumesOwnWait' /\ DeadlinesKept'
    BY <1>4, ZeroIsNoGen, CutOffKeepsDeadlines DEF Fail, Abandons, DInv, WaitsMade
  <1>5. ASSUME NEW r \in Replicas, NEW m \in net, ResumeChecked(r, m)
        PROVE  WaitsMade' /\ ResumesOwnWait' /\ DeadlinesKept'
    <2>1. /\ UNCHANGED <<home, mine, parked>> /\ unwatched \subseteq unwatched'
          /\ turn[r] = "idle" /\ turn'[r] # "idle" /\ base'[r] = parked
          /\ \A o \in Replicas : o # r => turn'[o] = turn[o] /\ base'[o] = base[o]
      BY <1>5 DEF ResumeChecked, DInv, MapInv, TypeOK, Set
    <2>2. Resuming(parked)'
      BY <2>1 DEF Resuming
    <2>3. ASSUME NEW o \in Replicas, NEW g \in Gens, g = mine[o], Watched(g) PROVE Watched(g)'
      <3>1. o # r /\ home[g] = o
        BY <2>1, <2>3, ZeroIsNoGen, SMTT(30) DEF DInv, MapInv, TypeOK, WaitsMade
      <3>2. timer'[g] = timer[g]
        BY <1>5, <3>1, AbortIsLocal, Zenon DEF ResumeChecked, DInv
      <3>3. CASE m = [kind |-> "timeout", gen |-> g]
        <4>1. g \in unwatched'
          BY <1>5, <2>3, <3>3, ZenonT(30) DEF ResumeChecked
        <4> QED
          BY <4>1, SMTT(30) DEF Watched
      <3>4. CASE m # [kind |-> "timeout", gen |-> g]
        <4>1. [kind |-> "timeout", gen |-> g] \in net => [kind |-> "timeout", gen |-> g] \in net'
          BY <1>5, <3>4 DEF ResumeChecked
        <4>2. g \in unwatched => g \in unwatched'
          BY <2>1
        <4> QED
          BY <2>3, <3>2, <4>1, <4>2, StaysWatched
      <3> QED
        BY <3>3, <3>4
    <2>4. TurnsGoOn
      BY <2>1 DEF TurnsGoOn
    <2>5. OpenStayWatched /\ WaitStaysWatched
      BY <2>2, <2>3 DEF OpenStayWatched, WaitStaysWatched
    <2> QED
      BY <2>4, <2>5, QuietStep
  <1>6. ASSUME NEW r \in Replicas, CancelNotice(r)
        PROVE  WaitsMade' /\ ResumesOwnWait' /\ DeadlinesKept'
    <2>1. /\ UNCHANGED <<home, net, turn, base, mine, parked>>
          /\ unwatched \subseteq unwatched'
          /\ watchdog[r] \in Awaited => watchdog[r] \in unwatched'
      BY <1>6 DEF CancelNotice
    <2>2. ASSUME NEW g \in Gens, g = parked \/ \E o \in Replicas : g = mine[o], Watched(g)
          PROVE  Watched(g)'
      <3>1. CASE g = watchdog[r]
        BY <2>1, <2>2, <3>1, ZeroIsNoGen DEF Watched, Awaited
      <3>2. CASE g # watchdog[r]
        <4>1. timer'[g] = timer[g]
          BY <1>6, <3>2, AbortIsLocal DEF CancelNotice, DInv
        <4> QED
          BY <2>1, <2>2, <4>1, StaysWatched, Zenon
      <3> QED
        BY <3>1, <3>2
    <2>3. TurnsGoOn
      BY <2>1 DEF TurnsGoOn
    <2>4. OpenStayWatched /\ WaitStaysWatched
      BY <2>2 DEF OpenStayWatched, WaitStaysWatched
    <2> QED
      BY <2>3, <2>4, QuietStep
  <1>7. ASSUME NEW g \in Gens, TimerStep(g) PROVE WaitsMade' /\ ResumesOwnWait' /\ DeadlinesKept'
    <2>1. /\ UNCHANGED <<home, turn, base, mine, parked>> /\ net \subseteq net'
          /\ unwatched \subseteq unwatched'
          /\ \A h \in Gens : h # g => timer'[h] = timer[h]
          /\ \/ timer'[g] \in {"fired", "deregistered"}
             \/ [kind |-> "timeout", gen |-> g] \in net'
             \/ g \in Awaited => g \in unwatched'
      BY <1>7 DEF TimerStep, Fire, Deregister, PublishTimeout, DInv, MapInv, TypeOK, Set
    <2>2. ASSUME NEW h \in Gens, h = parked \/ \E o \in Replicas : h = mine[o], Watched(h)
          PROVE  Watched(h)'
      <3>1. h \in Awaited
        BY <2>2, ZeroIsNoGen DEF Awaited
      <3> QED
        BY <2>1, <2>2, <3>1 DEF Watched
    <2>3. TurnsGoOn
      BY <2>1 DEF TurnsGoOn
    <2>4. OpenStayWatched /\ WaitStaysWatched
      BY <2>2 DEF OpenStayWatched, WaitStaysWatched
    <2> QED
      BY <2>3, <2>4, QuietStep
  <1>8. ASSUME NEW m \in net, LoseResponse(m) PROVE WaitsMade' /\ ResumesOwnWait' /\ DeadlinesKept'
    <2>1. /\ UNCHANGED <<home, turn, base, mine, parked, timer>> /\ net' = net \ {m}
          /\ unwatched \subseteq unwatched'
          /\ m.kind = "timeout" /\ m.gen \in Awaited => m.gen \in unwatched'
      BY <1>8 DEF LoseResponse
    <2>2. ASSUME NEW h \in Gens, h = parked \/ \E o \in Replicas : h = mine[o], Watched(h)
          PROVE  Watched(h)'
      <3>1. h \in Awaited
        BY <2>2, ZeroIsNoGen DEF Awaited
      <3>2. CASE m = [kind |-> "timeout", gen |-> h]
        BY <2>1, <3>1, <3>2 DEF Watched
      <3>3. CASE m # [kind |-> "timeout", gen |-> h]
        BY <2>1, <2>2, <3>3 DEF Watched
      <3> QED
        BY <3>2, <3>3
    <2>3. TurnsGoOn
      BY <2>1 DEF TurnsGoOn
    <2>4. OpenStayWatched /\ WaitStaysWatched
      BY <2>2 DEF OpenStayWatched, WaitStaysWatched
    <2> QED
      BY <2>3, <2>4, QuietStep
  <1>9. ASSUME NEW r \in Replicas, Restart(r) PROVE WaitsMade' /\ ResumesOwnWait' /\ DeadlinesKept'
    <2>1. EndTurn(r) /\ UNCHANGED <<home, net, parked>>
      BY <1>9 DEF Restart
    <2>2. parked # 0 => parked \in Gens /\ parked # mine[r]
      BY DEF DInv, MapInv, TypeOK, WaitsMade
    <2>3. /\ \A g \in Gens : g # mine[r] /\ g \in unwatched => g \in unwatched'
          /\ parked # 0 /\ base[r] = parked => parked \in unwatched'
      BY <1>9, <2>2, ZeroIsNoGen DEF Restart
    <2>4. ASSUME NEW g \in Gens, g # mine[r], g = parked \/ home[g] # r
          PROVE  timer'[g] = timer[g] \/ g \in unwatched'
      BY <1>9, <2>4, ZeroIsNoGen DEF Restart
    <2> QED
      BY <2>1, <2>3, <2>4, CutOffKeepsDeadlines
  <1>10. CASE UNCHANGED vars
    BY <1>10 DEF DInv, WaitsMade, ResumesOwnWait, DeadlinesKept, Watched, Resuming, vars
  <1> QED
    BY <1>1, <1>2, <1>3, <1>4, <1>5, <1>6, <1>7, <1>8, <1>9, <1>10, ArmKeepsDeadlines, EndKeepsDeadlines
    DEF Next, TurnStep

(* For any number of replicas and dispatches, a parked wait that was given *)
(* a deadline has a task or a message that will time it out, or a turn     *)
(* that is resuming it, or lost it in one of the five ways that            *)
(* DeadlineKeptAcross names (resume_checked, the cancel listener, a        *)
(* timeout that is not published or delivered, a process that ends).       *)
THEOREM DeadlineHolds == Spec => []DeadlineKeptAcross
  <1>1. Init => DInv
    BY DEF Init, DInv, MapInv, TypeOK, TimersHaveHomes, WatchdogsExact, Responses,
           WaitsMade, ResumesOwnWait, DeadlinesKept
  <1>2. DInv => DeadlineKeptAcross
    BY DEF DInv, DeadlinesKept, DeadlineKeptAcross, Watched, Resuming, Guarded, HadDeadline,
           MapInv, TypeOK
  <1> QED
    BY <1>1, <1>2, DeadlineStep, PTL DEF Spec
=============================================================================
