----------------------------- MODULE ParkedTurn -----------------------------
(***************************************************************************)
(* The turns of one session: greentic-runner-host src/engine/              *)
(* {state_machine, runtime, policy}.rs, the retry and failure rules of     *)
(* src/runner/engine.rs, and the run audit of src/run_outcome/turn.rs.     *)
(* A turn takes the session's lock, fetches the parked wait, drives the    *)
(* flow, persists what it did, releases the lock and reports its outcome.  *)
(* Failed attempts are retried under the same lock.  TurnLock models the   *)
(* lock itself; here it is `holder`.  A turn whose future is dropped frees *)
(* the lock at once, but a store write it had handed to the blocking pool  *)
(* lands later.                                                            *)
(***************************************************************************)
EXTENDS Naturals, FiniteSets

CONSTANTS Turns, Legacy, None,
          MaxAttempts,   \* RetryPolicy.max_attempts of the whole-turn retry (5)
          MaxTries,      \* FlowRetryConfig.max_attempts of the engine's own retry
          MaxMishaps,    \* bound: store calls that fail for good, crashes and dropped turns
          MaxCrashes     \* bound: the crashes and dropped turns among them

ASSUME TurnAssumption ==
    /\ MaxAttempts \in Nat \ {0} /\ MaxTries \in Nat \ {0}
    /\ MaxMishaps \in Nat /\ MaxCrashes \in Nat
    /\ Legacy \notin Turns /\ None \notin Turns /\ Legacy # None

VARIABLES wait,      \* the parked wait of the session (FlowResumeRecord: the turn that
                     \* parked it, the run's marker), or None
          strays,    \* store writes of dropped turns that are still under way
          holder,    \* the turn that holds the session's turn lock, or None
          pc, snap, marker, effected, tries, attempt, pending, failure, outcome,
          events,    \* run-outcome events the sink was handed
          ticket, clock,                 \* history: the order in which turns ran
          ran, spent, repeated,          \* history: drives with an effect, per turn and wait
          unsettled, unstamped, silent,  \* history: what a failed or late write or a crash lost
          disturbed,                     \* history: turns under which a late write landed
          faults, crashes

store == <<wait, strays, holder>>
turnVars == <<pc, snap, marker, effected, tries, attempt, pending, failure, outcome>>
history == <<ticket, clock, ran, spent, repeated, unsettled, unstamped, silent, disturbed>>
vars == <<store, turnVars, events, history, faults, crashes>>

Live == {"fetch", "run", "restamp", "clear", "save", "record", "release"}

\* Nothing parked, or a wait parked by a host without a run-outcome sink.
Init ==
    /\ wait \in {None, [id |-> Legacy, run |-> None, seq |-> 0]} /\ holder = None /\ strays = {}
    /\ pc = [t \in Turns |-> "new"] /\ snap = [t \in Turns |-> None]
    /\ marker = [t \in Turns |-> None] /\ effected = [t \in Turns |-> FALSE]
    /\ tries = [t \in Turns |-> 0] /\ attempt = [t \in Turns |-> 1]
    /\ pending = [t \in Turns |-> None] /\ failure = [t \in Turns |-> "none"]
    /\ outcome = [t \in Turns |-> "none"]
    /\ events = {} /\ ticket = [t \in Turns |-> 0] /\ clock = 0
    /\ ran = [t \in Turns |-> 0] /\ spent = {} /\ repeated = {}
    /\ unsettled = {} /\ unstamped = {} /\ silent = {}
    /\ disturbed = {} /\ faults = 0 /\ crashes = 0

Goto(t, l) == pc' = [pc EXCEPT ![t] = l]

\* The adapter calls of these turns are over: their locals are gone.
Forget(T) ==
    /\ snap' = [t \in Turns |-> IF t \in T THEN None ELSE snap[t]]
    /\ effected' = [t \in Turns |-> t \notin T /\ effected[t]]
    /\ tries' = [t \in Turns |-> IF t \in T THEN 0 ELSE tries[t]]
    /\ attempt' = [t \in Turns |-> IF t \in T THEN 1 ELSE attempt[t]]
    /\ failure' = [t \in Turns |-> IF t \in T THEN "none" ELSE failure[t]]

\* The scopes of these turns are over.
Leave(T) ==
    /\ pending' = [t \in Turns |-> IF t \in T THEN None ELSE pending[t]]
    /\ outcome' = [t \in Turns |-> IF t \in T THEN "none" ELSE outcome[t]]

Fault == faults + crashes < MaxMishaps /\ faults' = faults + 1

\* The event of this turn, and the marker stored once it is emitted
\* (TurnContext::seq, marker_after).
Event(t, s) == [run |-> marker[t].run, seq |-> marker[t].seq + 1, turn |-> t, status |-> s]

\* Mutated: the stored marker keeps the seq the turn began with.
MarkedBefore(t, id) == [id |-> id, run |-> marker[t].run, seq |-> marker[t].seq]

Marked(t, id) == [id |-> id, run |-> marker[t].run, seq |-> marker[t].seq + 1]

\* The message's turn gets the session's lock, for ALL its attempts.
Acquire(t) ==
    /\ pc[t] = "new" /\ holder = None
    /\ holder' = t /\ Goto(t, "fetch")
    /\ clock' = clock + 1 /\ ticket' = [ticket EXCEPT ![t] = clock + 1]
    /\ UNCHANGED <<strays, disturbed, wait, snap, marker, effected, tries, attempt, pending, failure, outcome,
                   events, ran, spent, repeated, unsettled, unstamped, silent, faults, crashes>>

\* Mutated: the lock covers one attempt only.
EndAttemptUnlocked(t, kind) ==
    IF kind = "retryable" /\ attempt[t] < MaxAttempts
    THEN /\ \E next \in {u \in Turns : u = t \/ pc[u] = "new"} :
              /\ holder' = next
              /\ pc' = IF next = t THEN [pc EXCEPT ![t] = "fetch"]
                       ELSE [pc EXCEPT ![t] = "new", ![next] = "fetch"]
         /\ attempt' = [attempt EXCEPT ![t] = @ + 1]
         /\ UNCHANGED outcome
    ELSE /\ Goto(t, "release") /\ outcome' = [outcome EXCEPT ![t] = "error"]
         /\ UNCHANGED <<attempt, holder>>

\* retry_with_jitter: a terminal error, or the last attempt, is the turn's
\* result; otherwise the whole adapter call runs again under the same lock.
EndAttempt(t, kind) ==
    IF kind = "retryable" /\ attempt[t] < MaxAttempts
    THEN /\ Goto(t, "fetch") /\ attempt' = [attempt EXCEPT ![t] = @ + 1]
         /\ UNCHANGED <<outcome, holder>>
    ELSE /\ Goto(t, "release") /\ outcome' = [outcome EXCEPT ![t] = "error"]
         /\ UNCHANGED <<attempt, holder>>

\* retried_marker().or(resume_run), else RunMarker::mint.
FirstMarker(t) ==
    CASE marker[t] # None -> marker[t]
      [] marker[t] = None /\ wait # None /\ wait.run # None -> [run |-> wait.run, seq |-> wait.seq]
      [] OTHER -> [run |-> t, seq |-> 0]

\* fetch_with_run, and TurnContext::begin.
Fetch(t) ==
    /\ pc[t] = "fetch"
    /\ snap' = [snap EXCEPT ![t] = wait]
    /\ marker' = [marker EXCEPT ![t] = FirstMarker(t)]
    /\ effected' = [effected EXCEPT ![t] = FALSE] /\ tries' = [tries EXCEPT ![t] = 1]
    /\ Goto(t, "run")
    /\ UNCHANGED <<store, attempt, pending, failure, outcome, events, history, faults, crashes>>

\* The store cannot be read, or the record is refused.
FetchFails(t) ==
    /\ pc[t] = "fetch" /\ Fault
    /\ EndAttempt(t, "retryable")
    /\ UNCHANGED <<strays, wait, snap, marker, effected, tries, pending, failure, events, history, crashes>>

\* Nothing parked and the flow is not registered: no run is begun.
Refuse(t) ==
    /\ pc[t] = "fetch" /\ wait = None
    /\ EndAttempt(t, "retryable")
    /\ UNCHANGED <<strays, wait, snap, marker, effected, tries, pending, failure, events, history,
                   faults, crashes>>

\* A node performs an external effect (effects_performed).
Effect(t) ==
    /\ pc[t] = "run" /\ ~effected[t]
    /\ effected' = [effected EXCEPT ![t] = TRUE]
    /\ ran' = [ran EXCEPT ![t] = @ + 1]
    /\ LET id == IF snap[t] = None THEN {} ELSE {snap[t].id}
       IN spent' = spent \cup id /\ repeated' = repeated \cup (id \cap spent)
    /\ UNCHANGED <<disturbed, store, pc, snap, marker, tries, attempt, pending, failure, outcome, events,
                   ticket, clock, unsettled, unstamped, silent, faults, crashes>>

\* A fresh run's transient failure is retried inside the engine.
EngineRetry(t) ==
    /\ pc[t] = "run" /\ snap[t] = None /\ ~effected[t] /\ tries[t] < MaxTries
    /\ tries' = [tries EXCEPT ![t] = @ + 1]
    /\ UNCHANGED <<store, pc, snap, marker, effected, attempt, pending, failure, outcome, events,
                   history, faults, crashes>>

\* Mutated: a failure after an effect is an error like any other.
FailsForGoodRetried(t, kind) ==
    /\ pc[t] = "run" /\ snap[t] # None
    /\ pending' = [pending EXCEPT ![t] = Event(t, "failed")]
    /\ failure' = [failure EXCEPT ![t] = kind]
    /\ Goto(t, "restamp")
    /\ UNCHANGED <<store, snap, marker, effected, tries, attempt, outcome, events, history,
                   faults, crashes>>

\* Mutated: after an effect it is terminal, but still an error.
FailsForGoodKeepsPark(t, kind) ==
    /\ pc[t] = "run" /\ snap[t] # None /\ (effected[t] => kind = "terminal")
    /\ pending' = [pending EXCEPT ![t] = Event(t, "failed")]
    /\ failure' = [failure EXCEPT ![t] = kind]
    /\ Goto(t, "restamp")
    /\ UNCHANGED <<store, snap, marker, effected, tries, attempt, outcome, events, history,
                   faults, crashes>>

\* A resumed run fails before any effect (resume_with_options, record_failure):
\* the wait stays, its marker is about to move past the event just held.
FailsForGood(t, kind) ==
    /\ pc[t] = "run" /\ snap[t] # None /\ ~effected[t]
    /\ pending' = [pending EXCEPT ![t] = Event(t, "failed")] /\ failure' = [failure EXCEPT ![t] = kind]
    /\ Goto(t, "restamp")
    /\ UNCHANGED <<store, snap, marker, effected, tries, attempt, outcome, events, history,
                   faults, crashes>>

\* The effects of the wait are lost track of.
Unsettle(t) == unsettled' = unsettled \cup (IF snap[t] = None THEN {} ELSE {snap[t].id})

\* A flow.call of a resumed run called a flow that performed effects and then
\* paused: terminal, but not marked as following an effect, so the wait stays
\* (FlowEngine, EffectsNeverRepeated).
CallPauses(t) ==
    /\ pc[t] = "run" /\ snap[t] # None /\ effected[t]
    /\ pending' = [pending EXCEPT ![t] = Event(t, "failed")]
    /\ failure' = [failure EXCEPT ![t] = "terminal"]
    /\ Unsettle(t)
    /\ Goto(t, "restamp")
    /\ UNCHANGED <<disturbed, store, snap, marker, effected, tries, attempt, outcome, events, ticket, clock,
                   ran, spent, repeated, unstamped, silent, faults, crashes>>

\* The caller's entry node cannot be loaded, or is no node of the flow.
EntryInvalid(t, kind) ==
    /\ pc[t] = "run" /\ snap[t] = None /\ ~effected[t] /\ tries[t] = 1
    /\ pending' = [pending EXCEPT ![t] = Event(t, "failed")]
    /\ EndAttempt(t, kind)
    /\ UNCHANGED <<strays, wait, snap, marker, effected, tries, failure, events, history, faults, crashes>>

\* restamp_run: rewrite the marker of the CURRENT wait.
Restamp(t) ==
    /\ pc[t] = "restamp"
    /\ wait' = IF wait = None THEN None ELSE Marked(t, wait.id)
    /\ EndAttempt(t, failure[t])
    /\ UNCHANGED <<strays, snap, marker, effected, tries, pending, failure, events, history,
                   faults, crashes>>

\* It fails and is only logged; a write that failed may have been applied.
RestampFails(t) ==
    /\ pc[t] = "restamp" /\ Fault
    /\ \/ UNCHANGED wait /\ unstamped' = unstamped \cup {marker[t].run}
       \/ /\ wait' = IF wait = None THEN None ELSE Marked(t, wait.id)
          /\ UNCHANGED unstamped
    /\ EndAttempt(t, failure[t])
    /\ UNCHANGED <<strays, disturbed, snap, marker, effected, tries, pending, failure, events, ticket, clock, ran,
                   spent, repeated, unsettled, silent, crashes>>

\* Mutated: a failure held from an earlier attempt is kept.
RecordKeepsFailure(t, s) == events' = events \cup {Event(t, s)} /\ UNCHANGED pending

\* RunOutcomeReporter::record: hand the event over, drop a held failure.
Record(t, s) ==
    /\ events' = events \cup {Event(t, s)}
    /\ pending' = [pending EXCEPT ![t] = None]

\* The flow completes; so does any failure of a fresh run, and one of a
\* resumed run that followed an effect.  Recorded BEFORE the park is cleared.
Complete(t) ==
    /\ pc[t] = "run"
    /\ Record(t, "ended") /\ Goto(t, "clear")
    /\ UNCHANGED <<store, snap, marker, effected, tries, attempt, failure, outcome, history,
                   faults, crashes>>

Settle(t, o) == Goto(t, "release") /\ outcome' = [outcome EXCEPT ![t] = o]

\* FlowResumeStore::clear.
Clear(t) ==
    /\ pc[t] = "clear"
    /\ wait' = None
    /\ Settle(t, "done")
    /\ UNCHANGED <<strays, holder, snap, marker, effected, tries, attempt, pending, failure, events,
                   history, faults, crashes>>

\* Every retry of the clear failed: PostEffectPersistence, which is terminal.
ClearFails(t) ==
    /\ pc[t] = "clear" /\ Fault
    /\ \/ /\ UNCHANGED wait /\ Unsettle(t)
          /\ unstamped' = unstamped \cup {marker[t].run}
       \/ wait' = None /\ UNCHANGED <<unsettled, unstamped>>
    /\ EndAttempt(t, "terminal")
    /\ UNCHANGED <<strays, disturbed, snap, marker, effected, tries, pending, failure, events,
                   ticket, clock, ran, spent, repeated, silent, crashes>>

\* The flow waits: the snapshot is saved BEFORE the event is recorded.
Park(t) ==
    /\ pc[t] = "run"
    /\ Goto(t, "save")
    /\ UNCHANGED <<store, snap, marker, effected, tries, attempt, pending, failure, outcome,
                   events, history, faults, crashes>>

\* FlowResumeStore::save_with_run.
Save(t) ==
    /\ pc[t] = "save"
    /\ wait' = Marked(t, t)
    /\ Goto(t, "record")
    /\ UNCHANGED <<strays, holder, snap, marker, effected, tries, attempt, pending, failure, outcome,
                   events, history, faults, crashes>>

SaveFails(t) ==
    /\ pc[t] = "save" /\ Fault
    /\ \/ UNCHANGED wait /\ Unsettle(t)
       \/ wait' = Marked(t, t) /\ UNCHANGED unsettled
    /\ silent' = silent \cup {t}
    /\ EndAttempt(t, "terminal")
    /\ UNCHANGED <<strays, disturbed, snap, marker, effected, tries, pending, failure, events,
                   ticket, clock, ran, spent, repeated, unstamped, crashes>>

RecordWait(t) ==
    /\ pc[t] = "record"
    /\ Record(t, "in_progress") /\ Settle(t, "pending")
    /\ UNCHANGED <<store, snap, marker, effected, tries, attempt, failure, history,
                   faults, crashes>>

\* TurnLocks::run ends, and the next message of the session may start ...
Release(t) ==
    /\ pc[t] = "release"
    /\ holder' = None /\ Goto(t, "report") /\ Forget({t})
    /\ UNCHANGED <<strays, wait, marker, pending, outcome, events, history, faults, crashes>>

\* ... before RunOutcomeReporter::scoped reports a failure it still holds.
Report(t) ==
    /\ pc[t] = "report"
    /\ events' = IF outcome[t] = "error" /\ pending[t] # None THEN events \cup {pending[t]}
                 ELSE events
    /\ Goto(t, "done") /\ Leave({t})
    /\ UNCHANGED <<store, snap, marker, effected, tries, attempt, failure,
                   history, faults, crashes>>

\* These turns are gone with their locals: what they did since the last write
\* is not in the store, and a failure they held is not reported.
Die(T) ==
    LET lost == {t \in T : snap[t] # None /\ effected[t] /\ pc[t] \in {"run", "clear", "save"}}
        between == {t \in T : pc[t] = "clear"}
    IN  /\ crashes < MaxCrashes /\ faults + crashes < MaxMishaps /\ crashes' = crashes + 1
        /\ Forget(T) /\ Leave(T) /\ holder' = None
        /\ pc' = [t \in Turns |-> IF t \in T THEN "dead" ELSE pc[t]]
        /\ unsettled' = unsettled \cup {snap[t].id : t \in lost}
        /\ unstamped' = unstamped \cup {marker[t].run : t \in between}
        /\ UNCHANGED <<wait, marker, events, ticket, clock, ran, spent, repeated, silent,
                       disturbed, faults>>

\* The process dies, and the store writes under way with it.
Crash ==
    /\ \E t \in Turns : pc[t] \in Live \cup {"report"}
    /\ Die({t \in Turns : pc[t] \in Live \cup {"report"}})
    /\ strays' = {}

\* The store write the turn had handed to the blocking pool, if any.
UnderWay(t) ==
    IF pc[t] = "restamp" /\ wait # None THEN {Marked(t, wait.id)}
    ELSE IF pc[t] = "clear" THEN {None}
    ELSE IF pc[t] = "save" THEN {Marked(t, t)}
    ELSE {}

\* The turn's future is dropped at an await: the lock is free, but the store
\* write that runs on the blocking pool goes on (offload).
Drop(t) ==
    /\ pc[t] \in {"fetch", "run", "restamp", "clear", "save"}
    /\ Die({t})
    /\ strays' = strays \cup UnderWay(t)

\* ... and lands whenever it does, under whatever turn has the lock by then.
Land(w) ==
    /\ w \in strays /\ strays' = strays \ {w} /\ wait' = w
    /\ disturbed' = disturbed \cup ({holder} \cap Turns)
    /\ unsettled' = unsettled \cup {id \in spent : w # None /\ id = w.id}
    /\ unstamped' = unstamped \cup (IF w = None THEN {} ELSE {w.run})
    /\ UNCHANGED <<holder, turnVars, events, ticket, clock, ran, spent, repeated, silent,
                   faults, crashes>>

AllDone == (\A t \in Turns : pc[t] \in {"done", "dead"}) /\ UNCHANGED vars

Next ==
    \/ \E t \in Turns :
         \/ Acquire(t) \/ Fetch(t) \/ FetchFails(t) \/ Refuse(t)
         \/ Effect(t) \/ EngineRetry(t) \/ Complete(t) \/ Park(t) \/ CallPauses(t)
         \/ \E kind \in {"retryable", "terminal"} : FailsForGood(t, kind) \/ EntryInvalid(t, kind)
         \/ Restamp(t) \/ RestampFails(t) \/ Clear(t) \/ ClearFails(t)
         \/ Save(t) \/ SaveFails(t) \/ RecordWait(t) \/ Release(t) \/ Report(t)
         \/ Drop(t)
    \/ \E w \in strays : Land(w)
    \/ Crash
    \/ AllDone

Spec == Init /\ [][Next]_vars

-----------------------------------------------------------------------------
(* "No re-run after a persistence failure", "No whole-turn retry after an  *)
(* effect": of all the attempts of a turn at most one performs an effect,  *)
(* whatever fails.                                                         *)
TurnEffectsOnce == \A t \in Turns : ran[t] <= 1

(* Across turns: what follows a parked wait performs its effects in one    *)
(* turn only, except when the write that would have moved the wait on was  *)
(* lost, to the store (after its retries), a crash or a dropped future,    *)
(* when the late write of a dropped turn put the wait back, or when a      *)
(* nested flow paused.                                                     *)
RepeatsOnlyIfUnsettled == repeated \subseteq unsettled

(* Whatever order the events of a run are emitted in (a failure is         *)
(* reported after the lock is released), their seq orders them as the      *)
(* turns ran, so the admin keeps the latest; unless a marker was not       *)
(* written (a restamp or a clear that failed, a crash before the clear) or *)
(* written late by a dropped turn.                                         *)
SeqFollowsTurns ==
    \A e, f \in events :
        e.run = f.run /\ e.run \notin unstamped /\ ticket[e.turn] < ticket[f.turn] => e.seq < f.seq

(* One event per turn, for all its attempts: none twice, and none missing  *)
(* once a run was begun, except of a turn whose wait could not be saved.   *)
OneEventPerTurn ==
    \A t \in Turns :
        LET n == Cardinality({e \in events : e.turn = t})
        IN n <= 1 /\ (pc[t] = "done" /\ marker[t] # None => n = 1 \/ t \in silent)

(* A retry resumes the run its turn began with: no other message consumes  *)
(* the wait between two attempts, and only the late write of a dropped     *)
(* turn can replace it.                                                    *)
RunFollowsWait ==
    \A t \in Turns :
        pc[t] = "run" /\ snap[t] # None /\ snap[t].run # None /\ t \notin disturbed
            => marker[t].run = snap[t].run

(* "Every event carries `seq`: 1 on a run's first event, +1 on each later  *)
(* one": no two events of a run carry the same.                            *)
SeqNeverRepeats == \A e, f \in events : e.run = f.run /\ e.seq = f.seq => e = f
=============================================================================
