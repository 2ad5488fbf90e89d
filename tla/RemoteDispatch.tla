--------------------------- MODULE RemoteDispatch ---------------------------
(***************************************************************************)
(* Awaited dispatches to another runtime over NATS, of one conversation:   *)
(* greentic-runner-host src/runner/{remote_dispatch, dispatch_listener,    *)
(* runtime_session_resumer}.rs.  Every dispatch of the conversation goes   *)
(* out under the same deterministic correlation id; each arms a deadline   *)
(* watchdog in its process's map; an admitted response retires the         *)
(* watchdog under that id and tells the other replicas, then resumes the   *)
(* parked wait.  Replicas share the broker and the session store; the turn *)
(* lock and the watchdog map are per process.                              *)
(***************************************************************************)
EXTENDS Naturals, FiniteSets

CONSTANTS Replicas, MaxDispatches   \* bound: dispatches of the conversation

ASSUME DispatchAssumption == MaxDispatches \in Nat /\ 0 \notin Replicas

VARIABLES watchdog,   \* WATCHDOGS[id] per replica: the generation, or 0
          timer,      \* per generation: its watchdog task
          home,       \* per generation: the replica that dispatched it, or 0 for none
          net,        \* responses on the wire: [kind, gen]
          notices,    \* watchdog-cancel notices on their way to each replica
          turn, base, mine,   \* per replica: its turn, the wait it resumes, its dispatch
          parked,     \* the generation the conversation waits for, or 0
          unwatched   \* history: what is waited for although its deadline was lost

vars == <<watchdog, timer, home, net, notices, turn, base, mine, parked, unwatched>>

Gens == 1..MaxDispatches
Responses == [kind : {"reply", "timeout"}, gen : Gens]

Init ==
    /\ watchdog = [r \in Replicas |-> 0] /\ timer = [g \in Gens |-> "none"]
    /\ home = [g \in Gens |-> 0]
    /\ net = {} /\ notices = [r \in Replicas |-> 0]
    /\ turn = [r \in Replicas |-> "idle"]
    /\ base = [r \in Replicas |-> 0] /\ mine = [r \in Replicas |-> 0]
    /\ parked = 0 /\ unwatched = {}

Set(f, r, v) == [f EXCEPT ![r] = v]

\* JoinHandle::abort: a sleeping task dies; one that has just woken may still
\* run to its publish, since abort takes effect at its next await.
Aborted(g) ==
    IF g # 0 /\ timer[g] = "sleeping" THEN {Set(timer, g, "done")}
    ELSE {timer} \cup (IF g # 0 /\ timer[g] = "fired" THEN {Set(timer, g, "done")} ELSE {})

\* A user's message reaches the conversation on some replica.
UserTurn(r) ==
    /\ turn[r] = "idle"
    /\ turn' = Set(turn, r, "running") /\ base' = Set(base, r, parked)
    /\ UNCHANGED <<watchdog, timer, home, net, notices, mine, parked, unwatched>>

\* NatsDispatcher::dispatch arms BEFORE it publishes, if the node set a
\* deadline; arm_watchdog aborts what was registered under the same id.
Arm(r) ==
    /\ turn[r] = "running"
    /\ \E g \in Gens : home[g] = 0 /\ (\A h \in 1..(g - 1) : home[h] # 0)
         /\ home' = Set(home, g, r) /\ mine' = Set(mine, r, g)
         /\ \/ UNCHANGED <<timer, watchdog>>
            \/ /\ \E t \in Aborted(watchdog[r]) : timer' = Set(t, g, "sleeping")
               /\ watchdog' = Set(watchdog, r, g)
    /\ turn' = Set(turn, r, "armed")
    /\ UNCHANGED <<net, notices, base, parked, unwatched>>

\* The request is on the wire and the runtime answers, or never does.
Publish(r) ==
    /\ turn[r] = "armed"
    /\ turn' = Set(turn, r, "sent")
    /\ net' = net \cup {[kind |-> "reply", gen |-> mine[r]]} \/ UNCHANGED net
    /\ UNCHANGED <<watchdog, timer, home, notices, base, mine, parked, unwatched>>

EndTurn(r) ==
    turn' = Set(turn, r, "idle") /\ base' = Set(base, r, 0) /\ mine' = Set(mine, r, 0)

\* The wait the turn was resuming stays in the store without a deadline, and
\* its own dispatch is waited for by nobody.
Abandons(r) == unwatched' = (unwatched \cup ({base[r]} \cap {parked})) \ {0, mine[r]}

\* Refused publish: disarm_watchdog for its own generation, and fail.
PublishFails(r) ==
    /\ turn[r] = "armed"
    /\ IF watchdog[r] = mine[r]
       THEN /\ watchdog' = Set(watchdog, r, 0)
            /\ \E t \in Aborted(mine[r]) : timer' = t
       ELSE UNCHANGED <<watchdog, timer>>
    /\ EndTurn(r) /\ Abandons(r)
    /\ UNCHANGED <<home, net, notices, parked>>

\* Mutated: the watchdog under the id is retired after the flow has run.
ParkThenRetire(r) ==
    /\ turn[r] = "sent"
    /\ parked' = mine[r]
    /\ watchdog' = Set(watchdog, r, 0)
    /\ \E t \in Aborted(watchdog[r]) : timer' = t
    /\ EndTurn(r) /\ unwatched' = unwatched \ {parked}
    /\ UNCHANGED <<home, net, notices>>

\* The awaiting turn saves its wait and ends.
Park(r) ==
    /\ turn[r] = "sent"
    /\ parked' = mine[r]
    /\ EndTurn(r) /\ unwatched' = unwatched \ {parked}
    /\ UNCHANGED <<watchdog, timer, home, net, notices>>

\* The flow completes and clears the wait.
Complete(r) ==
    /\ turn[r] = "running"
    /\ parked' = 0
    /\ EndTurn(r) /\ unwatched' = unwatched \ {parked}
    /\ UNCHANGED <<watchdog, timer, home, net, notices>>

\* It fails, before or after its dispatch.
Fail(r) ==
    /\ turn[r] \in {"running", "sent"}
    /\ EndTurn(r) /\ Abandons(r)
    /\ UNCHANGED <<watchdog, timer, home, net, notices, parked>>

\* The notice goes to every replica; its origin ignores it.
Notify(r) == notices' = [o \in Replicas |-> IF o = r THEN notices[o] ELSE notices[o] + 1]

\* What is waited for, now or as soon as a turn has saved it.
Awaited == ({parked} \cup {mine[r] : r \in Replicas}) \ {0}

\* Mutated: a response that finds no watchdog under its id counts as a
\* duplicate and is dropped.
ResumeIfArmed(r, m) ==
    /\ turn[r] = "idle" /\ m \in net
    /\ net' = net \ {m}
    /\ watchdog' = Set(watchdog, r, 0)
    /\ \E t \in Aborted(watchdog[r]) : timer' = t
    /\ Notify(r)
    /\ IF watchdog[r] # 0
       THEN turn' = Set(turn, r, "running") /\ base' = Set(base, r, parked)
       ELSE UNCHANGED <<turn, base>>
    /\ UNCHANGED <<home, mine, parked, unwatched>>

\* One replica of the queue group gets the response.  resume_checked, under
\* the turn lock: a response without a nonce is admitted; the watchdog under
\* its id is retired, whatever its generation, and the others are told; then
\* the wait that is parked NOW is resumed.
ResumeChecked(r, m) ==
    /\ turn[r] = "idle" /\ m \in net
    /\ net' = net \ {m}
    /\ watchdog' = Set(watchdog, r, 0)
    /\ \E t \in Aborted(watchdog[r]) : timer' = t
    /\ unwatched' = IF m.kind = "timeout" /\ (\E o \in Replicas : mine[o] = m.gen)
                    THEN unwatched \cup {m.gen} ELSE unwatched
    /\ Notify(r)
    /\ turn' = Set(turn, r, "running") /\ base' = Set(base, r, parked)
    /\ UNCHANGED <<home, mine, parked>>

\* run_watchdog_cancel_listener: another replica's notice.
CancelNotice(r) ==
    /\ notices[r] > 0
    /\ notices' = Set(notices, r, notices[r] - 1)
    /\ watchdog' = Set(watchdog, r, 0)
    /\ \E t \in Aborted(watchdog[r]) : timer' = t
    /\ unwatched' = unwatched \cup ({watchdog[r]} \cap Awaited)
    /\ UNCHANGED <<home, net, turn, base, mine, parked>>

\* The deadline elapses ...
Fire(g) ==
    /\ timer[g] = "sleeping"
    /\ timer' = Set(timer, g, "fired")
    /\ UNCHANGED <<watchdog, home, net, notices, turn, base, mine, parked, unwatched>>

\* Mutated: the entry is removed whatever its generation.
DeregisterAny(g) ==
    /\ timer[g] = "fired"
    /\ timer' = Set(timer, g, "deregistered")
    /\ watchdog' = Set(watchdog, home[g], 0)
    /\ UNCHANGED <<home, net, notices, turn, base, mine, parked, unwatched>>

\* ... the task removes its OWN entry ...
Deregister(g) ==
    /\ timer[g] = "fired"
    /\ timer' = Set(timer, g, "deregistered")
    /\ watchdog' = IF watchdog[home[g]] = g THEN Set(watchdog, home[g], 0) ELSE watchdog
    /\ UNCHANGED <<home, net, notices, turn, base, mine, parked, unwatched>>

\* ... and publishes the timeout; a publish that fails is only logged.
PublishTimeout(g) ==
    /\ timer[g] = "deregistered"
    /\ timer' = Set(timer, g, "done")
    /\ \/ net' = net \cup {[kind |-> "timeout", gen |-> g]} /\ UNCHANGED unwatched
       \/ unwatched' = unwatched \cup ({g} \cap Awaited) /\ UNCHANGED net
    /\ UNCHANGED <<watchdog, home, notices, turn, base, mine, parked>>

\* The broker delivers at most once: a response may reach nobody.
LoseResponse(m) ==
    /\ m \in net
    /\ net' = net \ {m}
    /\ unwatched' = IF m.kind = "timeout" THEN unwatched \cup ({m.gen} \cap Awaited) ELSE unwatched
    /\ UNCHANGED <<watchdog, timer, home, notices, turn, base, mine, parked>>

\* The process ends and a new one takes its place: WATCHDOGS, its tasks, its
\* turn and its subscriptions are gone; the parked wait is in the store.
Restart(r) ==
    LET died == {g \in Gens : home[g] = r /\ timer[g] \in {"sleeping", "fired", "deregistered"}}
    IN  /\ timer' = [g \in Gens |-> IF g \in died THEN "done" ELSE timer[g]]
        /\ watchdog' = Set(watchdog, r, 0) /\ notices' = Set(notices, r, 0)
        /\ EndTurn(r)
        /\ unwatched' = (unwatched \cup ({parked} \cap (died \cup {base[r]}))) \ {0, mine[r]}
        /\ UNCHANGED <<home, net, parked>>

TurnStep(r) == Arm(r) \/ Publish(r) \/ PublishFails(r) \/ Park(r) \/ Complete(r) \/ Fail(r)

TimerStep(g) == Fire(g) \/ Deregister(g) \/ PublishTimeout(g)

Next ==
    \/ \E r \in Replicas : UserTurn(r) \/ TurnStep(r) \/ CancelNotice(r) \/ Restart(r)
    \/ \E m \in net : LoseResponse(m) \/ \E r \in Replicas : ResumeChecked(r, m)
    \/ \E g \in Gens : TimerStep(g)

(* Turns end, timers run, and a timeout the broker does not lose is taken  *)
(* up: the turn lock is first come, first served.  Nothing is assumed of   *)
(* replies.                                                                *)
Fairness ==
    /\ \A r \in Replicas : WF_vars(TurnStep(r))
    /\ \A g \in Gens : WF_vars(TimerStep(g))
    /\ \A g \in Gens : SF_vars(\E r \in Replicas : ResumeChecked(r, [kind |-> "timeout", gen |-> g]))

Spec == Init /\ [][Next]_vars /\ Fairness

-----------------------------------------------------------------------------
HadDeadline(g) == timer[g] # "none"

\* Somebody will still time the wait out, or a turn is resuming it.
Guarded(g) ==
    \/ timer[g] \in {"sleeping", "fired", "deregistered"}
    \/ [kind |-> "timeout", gen |-> g] \in net
    \/ \E r \in Replicas : turn[r] # "idle" /\ base[r] = g

(* A parked wait that was given a deadline keeps it, through re-arming     *)
(* under the same id, late and duplicate responses and disarming, and      *)
(* loses it in five ways only: a turn that resumed it failed (the          *)
(* limitation that dispatch_listener.rs logs); a late notice of another    *)
(* replica retired a watchdog armed since; another replica took up the     *)
(* timeout before the wait was saved, since the turn lock that orders the  *)
(* two is per process; the timeout's publish failed, which is only logged, *)
(* or the broker dropped it; the process that watched or resumed the wait  *)
(* ended.                                                                  *)
DeadlineKeptAcross ==
    (parked # 0 /\ HadDeadline(parked))
        => Guarded(parked) \/ parked \in unwatched

(* "no stale finished entry in WATCHDOGS": an entry is a task that can     *)
(* still fire, armed in this process.  Conversely a sleeping deadline is   *)
(* the one registered under the id, so the response that is admitted can   *)
(* retire it: a task that woke late never removes its successor's entry    *)
(* (the generation check).                                                 *)
WatchdogsExact ==
    /\ \A r \in Replicas : watchdog[r] # 0 =>
         home[watchdog[r]] = r /\ timer[watchdog[r]] \in {"sleeping", "fired"}
    /\ \A g \in Gens : timer[g] = "sleeping" => watchdog[home[g]] = g

(* As a promise: a wait with a deadline ends, unless its deadline was lost *)
(* in one of those ways.                                                   *)
WaitEnds ==
    \A g \in Gens : (parked = g /\ HadDeadline(g))
                      ~> (parked # g \/ g \in unwatched)

=============================================================================
