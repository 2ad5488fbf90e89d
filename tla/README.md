# A TLA+ development for greentic-runner

This directory holds TLA+ modules of the concurrent and failure-prone parts of
greentic-runner, TLC configurations that check them on small instances, and
TLAPS proofs of what matters most for every instance. Each definition carries
the name the source uses where it can; `PROJECT.json` maps definitions to lines.

## The system

greentic-runner executes *flows* (graphs of WASM components, agents, remote
calls) for tenants. A message of a user's *session* starts a *turn*: the runner
fetches what the session is waiting for, drives the flow until it completes,
waits or fails, and persists the result. A node of a flow may be an *agent*, which
talks to a model and calls tools, or a *graph* of agents and tools with its own
checkpoints.

| Part | State | Operations | What is hard about it |
|---|---|---|---|
| Turn lock (`engine/turn_lock.rs`) | map session → mutex, Arc counts, the task-local set of held keys | `run`, guard drop | cancellation at every await, nested runs, an entry swept while another task clones it |
| Flow engine (`runner/engine.rs`) | the walk's position, its state (entry, marks, counters, egress), the snapshot of a parked run, nested walks | run a node, route, park, resume, jump, call, retry, surface a failure | effects may not be repeated by any retry or resume; a message must not be used twice or by the wrong node; cycles |
| Turns (`engine/{state_machine,runtime,policy}.rs`, `run_outcome/turn.rs`, retry rules of `runner/engine.rs`) | parked wait with its run marker, one turn's attempts, emitted events | fetch, drive, save, clear, restamp, retry, report | effects are not repeatable; a store write can fail for good after them, or land after its turn was dropped; a crash anywhere; events emitted after the lock is gone |
| Remote dispatch (`runner/{remote_dispatch,dispatch_listener,runtime_session_resumer}.rs`) | watchdogs by correlation id per process, parked wait, messages | arm, publish, disarm, fire, admit a response, cancel notice | ids are deterministic and reused; reply races deadline; several replicas, any of which may end; a timeout that is not sent |
| HTTP approvals (`runner/approval_http/`) | pending approvals, the poller task, resume tasks | dispatch, register, poll, expire, resume, shutdown | decision races deadline, poller dies, shutdown in the middle of anything |
| Component cache (`cache/`) | LRU with a byte budget, two files per artifact, one flight per key | get_component over both tiers; insert/evict; read/write/delete/sweep; acquire/drop | callers cancelled at every await, multi-file entries without locks, several processes, crashes between renames |
| Graphs (`aw-runtime/graph/`, `runner/graph_node.rs`) | the run's record (cursor, visits, messages, branch slots), the ledger of visits, the session lock | validate, start, resume, visit, fan out, save a slot, merge, cap | branches write one record side by side; a crash between an effect and its record; a lock that lapses under a long drive |
| Agent loop (`aw-runtime/{loop,flow_suspend,state*,lock_keepalive}.rs`) | the conversation with its parked call, session lock, tool ledger | load, model call, tool batch, park, side turn, resume, cancel, truncate, save | the history must stay one a provider accepts; a lock that lapses; the store fails between steps |
| Event bridges | JetStream consumers | pull, run, ack, dead-letter | redelivery |

`PROJECT.json` lists every part, with what is not modelled and why.

## Modules

| Module | Models | Correspondence |
|---|---|---|
| `TurnLock` | `engine/turn_lock.rs` | a task is a future of `TurnLocks::run`; `CloneSlot` … `Sweep` are the stretches between two points where another task can run; `Release`, `DropArc`, `Sweep` are the three effects of `Guard::drop` |
| `KeyedLock` | what the turn lock promises | an abstract lock per session, first come first served, with nested entry and giving up; `TurnLock` implements it under the mapping `ImplementsKeyedLock` |
| `Singleflight` | `cache/singleflight.rs` | as `TurnLock`; the guard's own `_lock` field is an Arc that dies after `drop` (`DropGuard`) |
| `MemoryCache` | `cache/memory.rs` | one mutex, so `Get` and `Insert` are atomic; both eviction passes run inside `Insert` |
| `ComponentCache` | `cache/mod.rs` | composes the two above: `get_component` looks in both tiers, takes the flight, looks again, compiles and stores; a caller may be dropped at each await |
| `DiskCache` | `cache/disk.rs` | every file-system call is a step; one entry (artifact + metadata), any number of processes |
| `ApprovalInbox` | `runner/approval_http/{mod,poller}.rs` | per conversation its turn; the poller's loop; a resume task per approval; admin decisions, lost calls, panics, shutdown |
| `RemoteDispatch` | `runner/remote_dispatch.rs` and its listener and resumer | one conversation's reused correlation id; generations are the dispatches; replicas share broker and store; `Restart` is a process that ends and is replaced, `LoseResponse` the broker's at-most-once delivery |
| `FlowRouting` | routing of `runner/engine.rs` | a node is a record of its kind and its routing; the decision taken on an output, with default events and error routes |
| `FlowEngine` | the walk of `runner/engine.rs` | a frame of `stack` is one `drive_flow_tracked`; `RunNode` is one turn of its loop, `RunCall`/`CallReturns` the two halves of a `flow.call`, `CannotRun` its early errors; `Receive` and `Deliver` start a turn, fresh or from the park |
| `ParkedTurn` | the turn as a whole | the turn lock is the variable `holder` (TurnLock is what justifies that); the flow's node walk is abstracted to *effect, transient failure, failure, wait, completion*, and a nested flow that pauses; `Drop` and `Land` are a dropped future and its write on the blocking pool |
| `GraphModel` | `graph/{model,router}.rs` | the checks of `Graph::validate` as predicates on a graph, and the edge a router takes |
| `GraphExecutor` | `graph/{executor,checkpoint}.rs` | a call's cursor walks the trunk; `bpc` holds the branches of a parallel region; load, save, ledger and decision calls are steps of their own |
| `GraphNode` | `runner/graph_node.rs` | composes the executor with the session lock, the choice of a run id and the outcome |
| `Conversation` | histories of `loop.rs`, `flow_suspend.rs` | pairing of calls and results, truncation, patching of a result, as operators on sequences |
| `AgentLoop` | `loop.rs` and its lock, ledger and suspension | one `turn` record per agent turn; each await is a step; `store` is the saved conversation |
| `…Proofs`, `TurnLockRefinement` | – | theorems, see below |
| `MC…` | – | symmetry sets, packs, graphs and modes for TLC |

A definition whose comment begins with *Mutated* or *Mutant* is a deliberately wrong
variant of the definition after it. No specification uses it; putting it in the place of
the right one makes the property named in `PROJECT.json` fail, which shows that
the property depends on that code.

## Runs

| Run | Instance | Shows |
|---|---|---|
| `turn_lock` | 3 tasks, 2 sessions | no two turns of one session at once, no entry leaks, every waiter is served or cancelled, and the whole implements `KeyedLock`; cancellation at any await, nested runs |
| `component_cache` | 2 callers, 2 components, 3 tier sets, 2 mishaps | one holder of a key's flight at a time, no compile repeated while a tier still has the result, exact books and budget of the memory tier, hot entries outlive cold ones |
| `component_cache_leak` | the same, 1 mishap | **violation**: two guards that drop together leave an entry behind |
| `disk_cache` | 2 threads or processes, 2 contents, a crash or a damaged file | reads return only stored bytes; an inconsistent or half-missing entry does not stay so |
| `approval_inbox` | 2 approvals of one conversation, 1 panic | one resume per approval; a parked gate is watched by someone; a park ends |
| `remote_dispatch` | 2 replicas, 2 dispatches | a deadline is lost in five named ways only and otherwise the wait ends; each map holds exactly what can fire; publishes fail, the broker loses messages and a process ends at any moment |
| `parked_turn` | 3 turns, 2 attempts, 2 engine tries, 2 mishaps of which 1 crash or dropped turn | effects once per turn and, unless a write was lost or late, once per wait; events numbered, ordered, one per turn |
| `parked_turn_seq` | the same, 1 lost call | **violation**: a completed turn whose clear is lost repeats a `seq` |
| `flow_engine` | 5 packs, 6 turns, 2 attempts | no failure repeats an effect; one route per submit; answers, decisions and replies belong to their message; marks do not outlive requests; every turn ends |
| `flow_engine_pause` | the same | **violation**: a resumed run whose called flow writes and pauses keeps its park, and the next message writes again |
| `graph_node` | 2 calls, 6 graphs, 1 mishap (failure, crash or lapsed lock) | saved logs match the ledger; calls that drove one run agree; effects once; a validated graph meets no defensive error but that of an unsupported approval; one open run; no branch's progress and no terminal record is taken back; every call ends |
| `agent_loop` | up to 3 turns, 2 tool batches, a parking flow tool, a failing store, crash or lapsed lock | the model is sent only well-paired histories; a parked call stays answerable; results belong to their calls unless a side turn reused the parked id; the user is asked iff the conversation waits; no turn overwrites another's |

### Violations

Each is a statement of a comment or test that the code does not keep in a corner;
`findings` in `PROJECT.json` quotes the line and gives the steps. The leaked
single-flight entry costs a map slot, the repeated `seq` loses one audit event. The
paused call repeats the nested flow's effects, which `terminal_after_effects` is there
to prevent: `execute_flow_call` returns a plain terminal error where one marked *after
effects* would let `resume_with_options` clear the park.

### Known corners

The models have these behaviours and no property forbids them.

* `DiskCache`: the sweep looks at a lone file's age and then unlinks it by name; a
  writer that renames between the two loses a young artifact, and the next read recompiles.
* `ComponentCache`: a late failed load deletes an artifact that another caller has just
  written; a cancelled compile still writes its result; `warmup` takes no flight.
* `ApprovalInbox`: an approval registered during shutdown is held, against the comment at
  `mod.rs:37`; a resume task admitted before shutdown may run after it. A poll pass that
  panics leaves its approvals unwatched until the next registration starts a poller, and
  those it had taken out of the map for good; `ParkedIsWatched` and `ParkEnds` leave panics
  out.
* `RemoteDispatch`: a watchdog that has started to fire is not stopped by a reply
  admitted meanwhile, and its timeout finds a conversation that has moved on. A parked wait
  loses its deadline in five ways, which `unwatched` records: the turn that resumed it
  failed; a late notice of another replica retired a watchdog armed since; another replica
  took up the timeout before the wait was saved; the timeout was not published, which is
  only logged, or the broker dropped it; the process that watched or resumed it ended, and
  `WATCHDOGS` with it. With one process the first and the last two remain. Nothing re-arms
  such a wait: it ends by a message or a late reply.
* `ParkedTurn`: the late write of a dropped turn puts a consumed wait back, or clears or
  replaces a newer one; `unsettled`, `unstamped` and `disturbed` record where.
* `FlowEngine`: a jump spends neither the submitted action nor `resumed_at`, so a card of
  the target flow may route on them at once. A response that comes late resumes whatever is
  parked then, and at a card it takes the `on_message` route. A response whose turn fails
  before the awaiting node reads it is lost, and the park stays (`lostAnswers`). An emitted
  array, or an emitted card with answers merged in, is shown twice in one reply, because the
  final output is compared with the last emitted payload only.
* `GraphNode`: the node never refreshes its 90 s session lock, though the trait's comment
  (`state.rs:421`) tells callers to, so a long drive may be joined by a second call; the
  slower of the two may then write `running` over a terminal record. An approval inside a
  parallel branch, or one without an edge for the decision it gets, passes validation, and
  the drive that meets it ends in `GraphError::Invalid`; `ValidatedGraphRuns` says that no
  other defensive error is reached. A resume drops the new
  message's text. The trunk's visit cap counts per drive, the region's from the run's total.
* `AgentLoop`: the save of the opening message does not look at the lock. A guardrail that
  denies the reply ends the turn unsaved though its tools ran. A save that fails at the end
  of a resumed turn leaves the old park, and the flow is resumed again. A provider that
  reuses the parked call's id in a side turn makes `patch_tool_result` fill the newer call's
  result and leave the parked one its placeholder; `aliased` records that it did, and
  `ResultsBelong` leaves that history out. One that repeats a request under its old id is
  given the old result, which is what the ledger is for. After an opening line the history
  starts with an assistant message, though `state.rs:83` has it start with a user's;
  `HistoryValid` is about pairing only.

### Bounds

Three tasks are the fewest in which one holds, one waits and one comes late. Two callers and
two components of the cache meet each other's flights, and the budget of 4 holds two compiled
components (2 bytes each) but none beside a loaded one (3), so inserts evict; two mishaps let
a cancelled compile meet a lost artifact. Two dispatches under one id are the fewest that let
a stale watchdog meet its successor. Three turns let one park, one fail after it and one
resume; two mishaps let a lost restamp meet a lost clear, or a dropped turn's write.
`MaxAttempts` is 5 in the code and 2 in the runs: attempts beyond the second repeat the same
steps, and the theorems on effects cover every value. Hit counts saturate at `HitCap`, at the
protection threshold.

`FlowEngine`'s limits (10000 steps, depth 16, 3 redirects, 100 park turns, 20 files) are
constants; the run takes 6, 2, 2, 3 and 1, and the packs reach each of them. Its packs stand
for the flows in which the parts meet: two cards in a row with a jump between them, a call of
a flow that writes and pauses or calls itself, a conversational agent before a gate that is
asked again, an agent whose flow tool parks with a wait behind it, cycles by route, goto and
call, and defective nodes. Six turns let an agent be asked, its reply come late, and a gate be
asked, decided and asked again.

The graphs of `GraphNode` are five that validate (a trunk loop that meets the visit cap of 5
through a supervisor and an approval, a plain parallel region, one in a loop, one with a loop
in a branch, one whose trunk comes back to the join) and one that must be rejected; two
calls are the fewest that drive one run side by side. `AgentLoop` keeps 4 messages, fewer
than a parked batch and a side turn make, so that truncation meets the parked call; three
turns are the park, the side turn and the answer; one of its modes combines side turns with
a provider that numbers its calls anew.

### Fairness

Weak fairness on the steps of a task that can run: tokio polls a woken task, and the awaits of
`FlowEngine`'s and `GraphNode`'s `Step` return because their calls have timeouts. In
`ApprovalInbox` the poller's HTTP calls return because the client has a timeout, and strong
fairness on a resume task stands for the FIFO of the turn lock. In `RemoteDispatch` turns end
and timers run; strong fairness on taking up a timeout says that one the broker does not lose
gets its turn, the turn lock being FIFO. The broker may lose any message, a publish may fail,
a process may end, and nothing is assumed of replies. In `DiskCache` an entry heals *if it is
read again and again*, which is a hypothesis of the property, not an assumption on callers.
`ParkedTurn`, `ComponentCache` and `AgentLoop` are checked for safety only.

## Proofs

Eight modules hold theorems; each is stated for every value of the constants. The
invariants below were checked with TLC before they were proved.

`TurnLockProofs`: `TypeOK`, `TurnExclusion` and `NoLeak`. None is inductive alone.
The inductive invariant `IInv` adds that the Arc a task has is the one the map holds
for its session (`ArcIsCurrent`), that no slot is in the map under two sessions
(`SlotsDistinct`) and that a task that runs a turn owns its slot's mutex
(`RunnerOwns`). Two tasks that run turns of one session then own one mutex, so they
are one task. The step that could break this is `Sweep`, which takes an entry out of
the map; the lemma `SweepSeesNoArc` shows that it does so only when the strong count
leaves no task with that Arc. Every other action moves one task.

`TurnLockRefinement`: `TurnLock` implements `KeyedLock`. The line of a session is the owner
of its slot's mutex followed by the mutex's queue, or empty when the map has no slot for
it. On top of `IInv` the step simulation needs `QInv`: the owner waits or runs with an Arc
to the slot, a free mutex has no queue, who queues waits there and once, and who waits is in
line. So a slot that no task has an Arc to has an empty line, and neither sweeping nor
reusing it changes the line of a session.

`SingleflightProofs` and `ComponentCacheProofs`: no two tasks hold the flight of one key. The
single-flight map may keep an entry nobody counts (the leak) and may forget one that only a
finished guard still counts; `FInv` says that it never forgets one that a task waits for or
holds (`SlotIsCurrent`), because that task's two Arcs and the map's own make three. The
cache manager is then shown to take, with each of its own steps, a step of the lock or none.
`FlightExclusion` holds in the composition for all sizes, budgets and mishaps. It is about the
flight, not the compile: the blocking compile of a caller dropped in it runs on while the next
caller holds the flight.

`ParkedTurnProofs`: `TurnEffectsOnce` and `RepeatsOnlyIfUnsettled`, for any number of turns,
attempts, lost store calls, crashes and dropped turns. For the first, `EffectsAccounted` says
that a turn about to start an attempt, or whose attempt failed in a way that may be retried,
has performed no effect, and that one in an attempt has performed at most the effect its own
flag (`effected`) records. Keeping it needs the flag to be read on every way out of the
attempt, which is what `terminal_after_effects` and `PostEffectPersistence` are for. For the
second, a wait is *settled* when its effects were performed and nothing was lost on the way.
`MovingOn` says that a settled wait still in the store belongs to the turn that holds the
lock and is on its way to clear or replace it, so nobody else fetches it; `NamesArePast`,
that a wait is named after a turn that has already parked, so no save brings a settled name
back. The writes that could (a late one, a failed one, a paused call) put the wait among
the unsettled.

`RemoteDispatchProofs`: `WatchdogsExact`, for any replicas, dispatches, lost messages and
restarts, with the types and that a timer runs only for a dispatch that was made; and
`DeadlineKeptAcross`. The key of the second is `ResumesOwnWait`: a turn on the replica that
armed the parked wait resumes that very wait, so the watchdog it disarms is that of the wait
it consumes, or nobody's. `DeadlinesKept` then follows the wait's deadline from the map to the
message it sends and to the turn that takes the message up, or into one of the five named
losses.

`DiskCacheProofs`: `ReadsOnlyWritten`, for any threads, contents, crashes and damage. No
relation between the two files is needed, which is the point of the format: each file holds
stored bytes or damage (`Sound`), the metadata a reader keeps is that of stored bytes, and the
hash compares the bytes read with it.

`ApprovalInboxProofs`: `OneResumeAttempt` and `ParkedIsWatched`, for any approvals and
conversations. `OnePlace` says that an approval not yet resumed is in the pending map, in the
expired batch or in the poller's hand, and in one of them only; `TurnIds` and `AdminFirst`,
that an id a turn has not registered yet is its own and known to nobody else, so that a
registration never brings a resumed id back. `Watching` adds who has the approval at each
stage, and that the poller runs once a turn has registered.

Assumptions on constants are the named `ASSUME`s of the modules: bounds are natural numbers,
`None` and the like are no members of the sets, replicas are not the number 0 (which stands
for *no dispatch*), the tasks of `TurnLock` and `Singleflight` are finite.

Only model-checked: everything under fairness (`WaiterServed`, `EntryHeals`, `ParkEnds`,
`WaitEnds`, `TurnEnds`, `CallEnds`), which is out of the prover's reach; the accounting and
eviction order of `MemoryCache`, whose eviction is a recursive function over the list;
`SeqFollowsTurns`, `OneEventPerTurn` and `RunFollowsWait`; `RecompiledOnlyIfLost`;
`FlowEngine`, `GraphNode` and `AgentLoop`, whose properties are about recursive walks and
histories.

## Abstractions and assumptions

* `ParkedTurn`: one process (the lock is per process); a run-outcome sink is
  installed; the two scopes under which a wait is looked up are one; a
  store call's in-place retries are one call that either works or fails for good,
  and a call that failed may have been applied; `ended` stands for `completed` and for
  a surfaced `technical_error`.
* `FlowEngine`: turns of one conversation one at a time, entered at the flow's start (an
  envelope's `entry_node` is not modelled); payloads, templates and conditions are reduced to
  what routing reads; what a node shows is a number unique in the conversation; a WASM
  component has no effect of its own that the engine could know of; the failure text lifted
  into a reply, observers and node outputs kept for them are left out. `effects` is the code's
  flag and `did` what really happened; the properties are about `did`.
* `RemoteDispatch`: responses without a nonce (the admission of a gate's nonced response is
  `Admitted` in `FlowEngine`); the store keeps one wait per conversation; the listener's
  queue per key is left out: it orders the responses of one conversation, which the turn
  lock orders anyway.
* `ApprovalInbox`: clocks are abstracted, a deadline passes at some moment after
  registration; the strict resumer and the turn lock are one step each.
* `DiskCache`: `remove_file` works when the file exists; a file becomes old at some
  moment, but not the artifact of a writer that has only its second rename to make
  (the grace period is a minute).
* `ComponentCache`: of the disk tier only whether a key's artifact is absent, loads or is
  stale, which is what `DiskCache` shows a read can find; statistics are left out.
* `TurnLock`, `Singleflight`: a `DashMap` shard lock makes `entry` and `remove_if` atomic;
  tokio's mutex is FIFO and hands over the permit on release or cancellation.
* `GraphExecutor`, `GraphNode`: a message is the node, the attempt and the recorded value; the
  scratchpad, the trail and prompts are left out; decisions of an approval come from outside,
  as in the code, whose own approval function never decides; the limit of 128 nodes on the
  validation's walk and the exhaustion of run ids are not reached.
* `AgentLoop`: a message is its role, its call ids and its results. Left out: attachments,
  memory and knowledge content, the host's memory tools, token and credit gates, streaming,
  retries of a model call, A2A continuations, system messages. Expiry and age are choices.
  The load and the save of an opening turn, two store calls in a row, are one step.

## Not modelled

`PROJECT.json` gives the reason for each part. Three kinds: parts without state of their own
(flow adapter, guardrails, HTTP surfaces, operator, model clients, telemetry, command line);
parts whose state nothing modelled depends on, because they fail open or are
only observers (run-outcome sink, per-user ledger, trace recorder); and parts whose behaviour is
that of something outside the repository (JetStream's redelivery under the event bridges and
their dispatch ledger, wasmtime under the pack runtime, remote tool servers), which the models
take as an answer that may be lost, late or repeated, or as a failure. The pack watcher swaps
immutable snapshots from one task; a turn keeps the one it began with.
