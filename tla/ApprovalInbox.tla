--------------------------- MODULE ApprovalInbox ----------------------------
(***************************************************************************)
(* The HTTP approval rail: greentic-runner-host                            *)
(* src/runner/approval_http/{mod,poller}.rs.  A flow turn that needs a     *)
(* human files a request at the admin, registers it and parks; one poller  *)
(* task fetches decisions and enforces deadlines; each outcome is          *)
(* delivered by a task of its own, through the strict resumer, which takes *)
(* the conversation's turn lock and drops a decision whose gate is not     *)
(* parked under exactly its id.  Dropping the TenantRuntime shuts it down  *)
(* while turns, the poller and resume tasks may be anywhere.               *)
(* Clock values are abstracted: a deadline passes at some point, and any   *)
(* set of waiting ids may be due for a poll.                               *)
(***************************************************************************)
EXTENDS Naturals, FiniteSets

CONSTANTS Ids,         \* nonced correlation ids: one per dispatch
          Convs,       \* conversations
          None,
          MaxRetries,  \* send_retry_delays.len()
          MaxPanics    \* bound: how often the poller task panics

ASSUME InboxAssumption == None \notin Ids /\ MaxRetries \in Nat

VARIABLES pending, resumer, cancelled, started,        \* Inner
          released,                                    \* shutdown has returned
          poller, expired, due, current,               \* the polling task
          turn, cur, attempt,                          \* per conversation: its turn
          held,                                        \* conversations whose turn holds the TenantRuntime
          parked,                                      \* per conversation: the parked gate
          task, spawned,                               \* per id: its resume task
          admin, late, gaveUp, panics                  \* environment and history

inner == <<pending, resumer, cancelled, started, released>>
polling == <<poller, expired, due, current>>
turns == <<turn, cur, attempt, held>>
tasks == <<task, spawned>>
world == <<late, gaveUp, panics>>
vars == <<inner, polling, turns, parked, tasks, admin, world>>

\* with_timing, and attach_resumer before the runtime serves its first turn.
Init ==
    /\ pending = {} /\ resumer = TRUE /\ cancelled = FALSE /\ started = FALSE /\ released = FALSE
    /\ poller = "off" /\ expired = {} /\ due = {} /\ current = None
    /\ turn = [c \in Convs |-> "idle"] /\ cur = [c \in Convs |-> None]
    /\ attempt = [c \in Convs |-> 0] /\ held = {} /\ parked = [c \in Convs |-> None]
    /\ task = [i \in Ids |-> "none"] /\ spawned = [i \in Ids |-> 0]
    /\ admin = [i \in Ids |-> "none"] /\ late = {} /\ gaveUp = {} /\ panics = 0

Unused == {i \in Ids : admin[i] = "none" /\ \A c \in Convs : cur[c] # i /\ parked[c] # i}

SetTurn(c, state, id, n) ==
    /\ turn' = [turn EXCEPT ![c] = state]
    /\ cur' = [cur EXCEPT ![c] = id]
    /\ attempt' = [attempt EXCEPT ![c] = n]
    /\ held' = IF state = "idle" THEN held \ {c} ELSE held

EndTurn(c) == SetTurn(c, "idle", None, 0)

-----------------------------------------------------------------------------
\* A message starts a turn of a conversation that waits for nothing; the host
\* keeps the TenantRuntime alive until it ends, and finds no dropped one.
BeginTurn(c) ==
    /\ turn[c] = "idle" /\ parked[c] = None /\ ~cancelled
    /\ turn' = [turn EXCEPT ![c] = "running"]
    /\ held' = held \cup {c}
    /\ UNCHANGED <<cur, attempt>>
    /\ UNCHANGED <<inner, polling, parked, tasks, admin, world>>

\* The turn ends, well or badly, without reaching an approval.
FinishTurn(c) ==
    /\ turn[c] = "running"
    /\ EndTurn(c)
    /\ UNCHANGED <<inner, polling, parked, tasks, admin, world>>

\* dispatch, up to its first await: a shut-down inbox fails the node.
Dispatch(c, i) ==
    /\ turn[c] = "running" /\ i \in Unused
    /\ IF cancelled THEN EndTurn(c) ELSE SetTurn(c, "sending", i, 0)
    /\ UNCHANGED <<inner, polling, parked, tasks, admin, world>>

\* One attempt of send: recorded; or a transport error, 429 or 5xx, after which
\* the admin may have recorded it all the same; or refused for good.
Send(c) ==
    /\ turn[c] = "sending"
    /\ \/ /\ admin' = [admin EXCEPT ![cur[c]] = IF @ = "none" THEN "pending" ELSE @]
          /\ SetTurn(c, "recorded", cur[c], 0)
       \/ /\ \/ admin' = [admin EXCEPT ![cur[c]] = IF @ = "none" THEN "pending" ELSE @]
             \/ UNCHANGED admin
          /\ IF attempt[c] < MaxRetries
             THEN SetTurn(c, "sending", cur[c], attempt[c] + 1)
             ELSE EndTurn(c)
       \/ EndTurn(c) /\ UNCHANGED admin
    /\ UNCHANGED <<inner, polling, parked, tasks, world>>

\* FireAndForget: the turn goes on.
Dispatched(c) ==
    /\ turn[c] = "recorded"
    /\ SetTurn(c, "running", None, 0)
    /\ UNCHANGED <<inner, polling, parked, tasks, admin, world>>

\* Await: register inserts the entry ...
Register(c) ==
    /\ turn[c] = "recorded"
    /\ pending' = pending \cup {cur[c]}
    /\ SetTurn(c, "inserted", cur[c], 0)
    /\ UNCHANGED <<resumer, cancelled, started, released, polling, parked, tasks, admin, world>>

\* Mutated: the poller that was started once is taken to run.
EnsurePollerNever(c) ==
    /\ turn[c] = "inserted"
    /\ SetTurn(c, "registered", cur[c], 0)
    /\ UNCHANGED <<inner, polling, parked, tasks, admin, world>>

\* ... and ensure_poller starts the one task, unless it runs or must not.
EnsurePoller(c) ==
    /\ turn[c] = "inserted"
    /\ SetTurn(c, "registered", cur[c], 0)
    /\ IF started \/ cancelled
       THEN UNCHANGED <<started, poller>>
       ELSE started' = TRUE /\ poller' = "top"
    /\ UNCHANGED <<pending, resumer, cancelled, released, expired, due, current, parked, tasks, admin, world>>

\* The engine saves the wait and the turn ends, releasing the turn lock; or
\* the save fails and nothing is parked.
Park(c) ==
    /\ turn[c] = "registered"
    /\ parked' = [parked EXCEPT ![c] = cur[c]] \/ UNCHANGED parked
    /\ EndTurn(c)
    /\ UNCHANGED <<inner, polling, tasks, admin, world>>

\* The session store expires the wait.
ParkExpires(c) ==
    /\ turn[c] = "idle" /\ parked[c] # None
    /\ parked' = [parked EXCEPT ![c] = None]
    /\ UNCHANGED <<inner, polling, turns, tasks, admin, world>>

-----------------------------------------------------------------------------
SpawnResume(i) ==
    /\ task' = [task EXCEPT ![i] = "spawned"]
    /\ spawned' = [spawned EXCEPT ![i] = @ + 1]

\* Mutated: ids past their deadline stay in the pending set.
CollectDueKeepsExpired ==
    /\ poller = "top" /\ ~cancelled
    /\ expired' = pending \cap late
    /\ \E d \in SUBSET (pending \ late) : due' = d
    /\ poller' = "expiring"
    /\ UNCHANGED <<inner, current, turns, parked, tasks, admin, world>>

\* run's loop head and collect_due: ids past their deadline are REMOVED.
CollectDue ==
    /\ poller = "top" /\ ~cancelled
    /\ expired' = pending \cap late
    /\ pending' = pending \ late
    /\ \E d \in SUBSET (pending \ late) : due' = d
    /\ poller' = "expiring"
    /\ UNCHANGED <<resumer, cancelled, started, released, current, turns, parked, tasks, admin, world>>

\* The next expired id, or on to the due ones; cancellation breaks the loop.
ExpireNext ==
    /\ poller = "expiring"
    /\ IF cancelled \/ expired = {}
       THEN poller' = "polling" /\ expired' = {} /\ UNCHANGED current
       ELSE \E i \in expired : poller' = "withdrawing" /\ expired' = expired \ {i} /\ current' = i
    /\ UNCHANGED <<inner, due, turns, parked, tasks, admin, world>>

\* Mutated: the timeout waits for a withdrawal the admin has taken, and is tried again.
ExpireOnceWithdrawn ==
    /\ poller = "withdrawing"
    /\ \/ /\ admin' = [admin EXCEPT ![current] = IF @ = "pending" THEN "withdrawn" ELSE @]
          /\ SpawnResume(current)
          /\ UNCHANGED pending
       \/ pending' = pending \cup {current} /\ UNCHANGED <<admin, tasks>>
    /\ poller' = "expiring" /\ current' = None
    /\ UNCHANGED <<resumer, cancelled, started, released, expired, due, turns, parked, world>>

\* expire: the withdrawal reaches the admin or not; the timeout applies anyway.
Expire ==
    /\ poller = "withdrawing"
    /\ \/ admin' = [admin EXCEPT ![current] = IF @ = "pending" THEN "withdrawn" ELSE @]
       \/ UNCHANGED admin
    /\ SpawnResume(current)
    /\ poller' = "expiring" /\ current' = None
    /\ UNCHANGED <<inner, expired, due, turns, parked, world>>

PollNext ==
    /\ poller = "polling"
    /\ IF cancelled \/ due = {}
       THEN poller' = "sleep" /\ due' = {} /\ UNCHANGED current
       ELSE \E i \in due : poller' = "fetching" /\ due' = due \ {i} /\ current' = i
    /\ UNCHANGED <<inner, expired, turns, parked, tasks, admin, world>>

PollDone == poller' = "polling" /\ current' = None

\* 204, or a transient failure: reschedule.
PollPending ==
    /\ poller = "fetching"
    /\ PollDone
    /\ UNCHANGED <<inner, expired, due, turns, parked, tasks, admin, world>>

\* A status that ends the wait, or a decision that cannot be read.
PollGone ==
    /\ poller = "fetching"
    /\ pending' = pending \ {current}
    /\ gaveUp' = gaveUp \cup {current}
    /\ PollDone
    /\ UNCHANGED <<resumer, cancelled, started, released, expired, due, turns, parked, tasks, admin, late, panics>>

\* The first 200 takes the entry out before it resumes.
PollDecided ==
    /\ poller = "fetching" /\ admin[current] = "decided"
    /\ pending' = pending \ {current}
    /\ IF current \in pending THEN SpawnResume(current) ELSE UNCHANGED tasks
    /\ PollDone
    /\ UNCHANGED <<resumer, cancelled, started, released, expired, due, turns, parked, admin, world>>

\* A notification, or the next due time.
Wake ==
    /\ poller = "sleep" /\ ~cancelled
    /\ poller' = "top"
    /\ UNCHANGED <<inner, expired, due, current, turns, parked, tasks, admin, world>>

\* Cancellation ends the loop, which releases everything; PollerGuard drops.
PollerExit ==
    /\ poller \in {"top", "sleep"} /\ cancelled
    /\ pending' = {} /\ resumer' = FALSE /\ started' = FALSE
    /\ poller' = "off"
    /\ UNCHANGED <<cancelled, released, expired, due, current, turns, parked, tasks, admin, world>>

\* A panic unwinds out of the loop with what it had collected.
PollerPanic ==
    /\ poller \in {"withdrawing", "fetching"} /\ panics < MaxPanics
    /\ panics' = panics + 1
    /\ started' = FALSE
    /\ poller' = "off" /\ expired' = {} /\ due' = {} /\ current' = None
    /\ UNCHANGED <<pending, resumer, cancelled, released, turns, parked, tasks, admin, late, gaveUp>>

-----------------------------------------------------------------------------
\* resume: a cancelled inbox, or one without its resumer, drops the outcome.
ResumeAdmit(i) ==
    /\ task[i] = "spawned"
    /\ task' = [task EXCEPT ![i] = IF cancelled \/ ~resumer THEN "done" ELSE "admitted"]
    /\ UNCHANGED <<inner, polling, turns, parked, spawned, admin, world>>

\* The strict resumer, under the turn lock: the gate parked under this id runs
\* on, or its turn fails and the gate stays parked.
Resume(i) ==
    /\ task[i] = "admitted"
    /\ \E c \in Convs :
          /\ parked[c] = i /\ turn[c] = "idle"
          /\ \/ /\ parked' = [parked EXCEPT ![c] = None]
                /\ SetTurn(c, "running", None, 0)
                /\ UNCHANGED gaveUp
             \/ gaveUp' = gaveUp \cup {i} /\ UNCHANGED <<parked, turns>>
    /\ task' = [task EXCEPT ![i] = "done"]
    /\ UNCHANGED <<inner, polling, spawned, admin, late, panics>>

\* No gate is parked under this id, nor about to be: the outcome is dropped.
ResumeDropped(i) ==
    /\ task[i] = "admitted"
    /\ \A c \in Convs : parked[c] # i /\ cur[c] # i
    /\ task' = [task EXCEPT ![i] = "done"]
    /\ UNCHANGED <<inner, polling, turns, parked, spawned, admin, world>>

\* TenantRuntime::drop, once no turn of the host holds it; turns that a resume
\* task drives hold only the state machine.  shutdown: cancel, then forget the
\* tokens and drop the resumer.
ShutdownCancel ==
    /\ ~cancelled /\ held = {}
    /\ cancelled' = TRUE
    /\ UNCHANGED <<pending, resumer, started, released, polling, turns, parked, tasks, admin, world>>

ShutdownRelease ==
    /\ cancelled /\ ~released
    /\ pending' = {} /\ resumer' = FALSE /\ released' = TRUE
    /\ UNCHANGED <<cancelled, started, polling, turns, parked, tasks, admin, world>>

\* A person decides; a deadline passes.
Decide(i) ==
    /\ admin[i] = "pending"
    /\ admin' = [admin EXCEPT ![i] = "decided"]
    /\ UNCHANGED <<inner, polling, turns, parked, tasks, world>>

DeadlinePasses(i) ==
    /\ i \in pending \ late
    /\ late' = late \cup {i}
    /\ UNCHANGED <<inner, polling, turns, parked, tasks, admin, gaveUp, panics>>

TurnStep(c) == Send(c) \/ Dispatched(c) \/ Register(c) \/ EnsurePoller(c) \/ Park(c)

PollerStep ==
    \/ CollectDue \/ ExpireNext \/ Expire \/ PollNext
    \/ PollPending \/ PollGone \/ PollDecided \/ Wake \/ PollerExit

TaskStep(i) == ResumeAdmit(i) \/ Resume(i) \/ ResumeDropped(i)

Next ==
    \/ \E c \in Convs : BeginTurn(c) \/ FinishTurn(c) \/ TurnStep(c) \/ ParkExpires(c)
    \/ \E c \in Convs, i \in Ids : Dispatch(c, i)
    \/ PollerStep \/ PollerPanic
    \/ \E i \in Ids : TaskStep(i) \/ Decide(i) \/ DeadlinePasses(i)
    \/ ShutdownCancel \/ ShutdownRelease

(* Tasks are scheduled, HTTP calls return (the client has a timeout) and   *)
(* deadlines pass.  No fairness on people, messages or shutdown; a turn    *)
(* that runs ends.                                                         *)
Fairness ==
    /\ WF_vars(PollerStep)
    /\ \A c \in Convs : WF_vars(TurnStep(c)) /\ WF_vars(FinishTurn(c))
    /\ \A i \in Ids : SF_vars(TaskStep(i)) /\ WF_vars(DeadlinePasses(i))

Spec == Init /\ [][Next]_vars /\ Fairness

-----------------------------------------------------------------------------
(* "Resumes exactly once": a decision and the local deadline racing each   *)
(* other, a poll in flight and a replaced poller never lead to two resume  *)
(* attempts for one approval.                                              *)
OneResumeAttempt == \A i \in Ids : spawned[i] <= 1

Watched(i) ==
    \/ i \in pending /\ poller # "off"
    \/ i \in expired \/ (poller = "withdrawing" /\ current = i)
    \/ task[i] \in {"spawned", "admitted"}

(* "rather than parking a gate nobody will ever see": until shutdown, and  *)
(* while the poller has not panicked, every parked gate is in the hands of *)
(* a running poller or of its resume task, unless the admin ended the wait *)
(* or the one resume failed.                                               *)
ParkedIsWatched ==
    \A c \in Convs : (parked[c] # None /\ ~cancelled /\ panics = 0)
                         => Watched(parked[c]) \/ parked[c] \in gaveUp

(* "Watches the deadline": no gate stays parked forever on a live          *)
(* revision whose poller never panicked, whatever the admin answers or     *)
(* fails to answer.                                                        *)
ParkEnds ==
    \A c \in Convs, i \in Ids :
        parked[c] = i ~> (parked[c] # i \/ cancelled \/ i \in gaveUp \/ panics > 0)

=============================================================================
