------------------------------ MODULE AgentLoop ------------------------------
(***************************************************************************)
(* One agent session: greentic-aw-runtime src/loop.rs (run_step) with       *)
(* flow_suspend.rs, the tool ledger of tools.rs, lock_keepalive.rs and the  *)
(* store's session lock (state_redis.rs).  A turn takes the lock, loads the *)
(* conversation, deals with a flow tool parked by an earlier turn, and      *)
(* plans, acts and observes until it may reply; then it saves.  The lock    *)
(* is a key with a TTL: it can lapse during every long await, and a second  *)
(* turn then runs beside the first.                                         *)
(***************************************************************************)
EXTENDS Conversation, TLC

CONSTANTS Turns,         \* the turns of the session, numbered as they got the lock
          Batches,       \* the tool calls a model may answer with: sequences of tools
          Flows,         \* the tools that are flows and may park on the user
          Denied,        \* the tools that are not in the agent's allow-list
          Modes,         \* [policy, reuse, turns, mishaps]: on_text_while_parked, whether
                         \* the provider numbers the calls of every response anew, and
                         \* bounds: turns; crashes, failed stores and lapses
          MaxIter,       \* limits.max_iter
          MaxHistory,    \* limits.max_history_turns
          MaxSideTurns,  \* MAX_SIDE_TURNS (20)
          MaxToolTurns   \* bound: responses with tool calls

ASSUME LoopAssumption == MaxIter \in Nat \ {0} /\ MaxHistory \in Nat /\ Turns \subseteq Nat

VARIABLES mode,    \* the agent's configuration and its provider
          store,   \* the saved conversation; base + 1 and writer are history
          ledger,  \* the recorded results of tools, by <<call id, request>>
          lock,    \* the turn whose token the lock key holds, or None
          turn,    \* the locals of every turn
          asked,   \* responses with tool calls so far
          faults, lapses, blip, \* history: crashes and failed stores, locks lost, and
                                \* whether a refresh of a lost lock failed otherwise
          aliased  \* history: whether a call was made under the id of the parked one

vars == <<mode, store, ledger, lock, turn, asked, faults, lapses, blip, aliased>>

Idle == [pc |-> "idle", answer |-> FALSE, msgs |-> <<>>, pending |-> None, base |-> 0,
         side |-> FALSE, iter |-> 0, end |-> 0, batch |-> <<>>, susp |-> FALSE,
         timedOut |-> FALSE, failed |-> FALSE, why |-> None, out |-> None]

Live(t) == turn[t].pc \notin {"idle", "done", "dead"}
LongAwaits == {"inbound", "resume", "llm", "tool", "finish"}
Mishap == faults + lapses < mode.mishaps

Set(t, l) == turn' = [turn EXCEPT ![t] = l]
Returned(l, out) == [Idle EXCEPT !.pc = "done", !.out = out]
PendingId(l) == IF l.pending = None THEN None ELSE l.pending.id
Cut(l) == [l EXCEPT !.msgs = Truncate(@, PendingId(l), MaxHistory)]

\* Dropping the guard releases the lock if its token is still there.
Released(t) == lock' = IF lock = t /\ turn'[t].pc = "done" THEN None ELSE lock

\* The turn's one write of the whole conversation; a write that fails is logged
\* and the turn returns as if it had been made.
SaveState(t, l) ==
    \/ /\ store' = [msgs |-> l.msgs, pending |-> l.pending, ver |-> l.base + 1, by |-> t]
       /\ UNCHANGED faults
    \/ Mishap /\ faults' = faults + 1 /\ UNCHANGED store

-----------------------------------------------------------------------------
(* The start of a turn.                                                     *)

\* A turn that cannot get the lock within its wait ends without a trace.
Acquire(t, answer) ==
    /\ turn[t].pc = "idle" /\ lock = None
    /\ t <= mode.turns /\ \A u \in Turns : u < t => turn[u].pc # "idle"
    /\ lock' = t
    /\ Set(t, [Idle EXCEPT !.pc = "load", !.answer = answer])
    /\ UNCHANGED <<mode, store, ledger, asked, faults, lapses, blip, aliased>>

\* take_pending: a typed message may leave the park in place; otherwise it
\* is taken, to be resumed with the user's answer or cancelled.
SideTurnAllowed(p, expired, aged) == ~expired /\ ~aged /\ p.sideTurns < MaxSideTurns
TakePending(l, expired, aged) ==
    LET p == l.pending IN
    CASE p = None -> [l EXCEPT !.answer = FALSE]
      [] /\ p # None /\ mode.policy = "side" /\ ~l.answer
         /\ SideTurnAllowed(p, expired, aged) /\ CanHoldPlaceholder(l.msgs, p.id) ->
            [l EXCEPT !.msgs = EnsurePlaceholder(@, p.id), !.side = TRUE,
                      !.pending.sideTurns = @ + 1]
      [] OTHER ->
            IF l.answer /\ ~expired THEN l
            ELSE [l EXCEPT !.msgs = PatchToolResult(@, p.id, "cancelled"), !.pending = None,
                           !.answer = FALSE]

\* A load that fails ends the turn: starting empty would overwrite the rest.
Load(t) ==
    LET l == [turn[t] EXCEPT !.msgs = store.msgs, !.pending = store.pending,
                             !.base = store.ver, !.pc = "inbound"]
    IN  /\ turn[t].pc = "load"
        /\ \/ /\ \E expired, aged \in BOOLEAN : Set(t, TakePending(l, expired, aged))
              /\ UNCHANGED faults
           \/ Mishap /\ faults' = faults + 1 /\ Set(t, Returned(l, "error"))
        /\ UNCHANGED <<store, ledger, asked>>

\* The first turn, without a text, of an agent with an opening line.
Opening(t) ==
    LET l == [turn[t] EXCEPT !.msgs = <<Assistant(<<>>)>>] IN
    /\ turn[t].pc = "load" /\ store.msgs = <<>>
    /\ SaveState(t, l)
    /\ Set(t, Returned(l, "final"))
    /\ UNCHANGED <<ledger, asked>>

\* Guardrails, memory, knowledge and catalogues.  A denial ends the turn
\* unsaved; an answer to a parked flow is no message for the model.
Inbound(t) ==
    LET l == turn[t] IN
    /\ l.pc = "inbound"
    /\ \/ l.answer /\ Set(t, [l EXCEPT !.pc = "resume"])
       \/ /\ ~l.answer
          /\ Set(t, [l EXCEPT !.pc = "iterate", !.end = MaxIter, !.msgs = Append(@, User)])
       \/ Set(t, Returned(l, "denied"))
    /\ UNCHANGED <<store, ledger, asked>>

\* resume_pending: the flow completes and its output answers the call, or it
\* asks again.  The output is recorded under the bare call id, unless the
\* ledger fails.  The turn goes on with the parked turn's budget and has at
\* least one iteration.
Resume(t) ==
    LET l == turn[t]
        p == l.pending
        done(val) == [l EXCEPT !.pc = "iterate", !.pending = None, !.iter = p.used,
                               !.end = IF p.used + 1 > MaxIter THEN p.used + 1 ELSE MaxIter,
                               !.msgs = PatchToolResult(@, p.id, val)]
    IN  /\ l.pc = "resume"
        /\ \/ \E val \in {p.tool, "error"} :
                 /\ Set(t, done(val))
                 /\ ledger' \in {(<<p.id, None>> :> val) @@ ledger, ledger}
           \/ /\ Set(t, [l EXCEPT !.pc = "finish", !.why = "awaiting", !.pending.sideTurns = 0])
              /\ ledger' = ledger
        /\ UNCHANGED <<store, asked>>

-----------------------------------------------------------------------------
(* Plan, act, observe.                                                      *)

\* Mutant: a lock key that is gone counts as held.
HeldIfFree(t) == lock \in {t, None}

\* ensure_lock_held: the key still holds this turn's token.
Held(t) == lock = t

\* A refresh that fails for another reason says nothing: the turn goes on.
Blip(t) == ~Held(t) /\ blip' = TRUE
Checked(t) == (Held(t) /\ UNCHANGED blip) \/ Blip(t)

LockLost(t) ==
    /\ turn[t].pc \in {"iterate", "save"} /\ ~Held(t)
    /\ turn[t].pc = "iterate" => turn[t].iter < turn[t].end
    /\ Set(t, Returned(turn[t], "locklost"))
    /\ UNCHANGED <<store, ledger, asked, blip>>

\* The top of the loop: lock, clock, history.
Iterate(t) ==
    LET l == turn[t] IN
    /\ l.pc = "iterate"
    /\ \/ /\ l.iter < l.end /\ Checked(t)
          /\ \/ Set(t, Cut([l EXCEPT !.pc = "llm", !.iter = @ + 1]))
             \/ Set(t, [l EXCEPT !.pc = "finish", !.iter = @ + 1, !.why = "timeout"])
       \/ /\ l.iter = l.end
          /\ Set(t, [l EXCEPT !.pc = "finish", !.why = "maxiter"])
          /\ UNCHANGED blip
    /\ UNCHANGED <<store, ledger, asked>>

\* The calls of a response, after ensure_unique_call_ids.
Calls(tools) ==
    [i \in DOMAIN tools |->
        [id |-> IF mode.reuse THEN <<0, i>> ELSE <<asked, i>>, tool |-> tools[i]]]

\* The model replies, ends the conversation, calls tools or runs out of time.
Respond(t) ==
    LET l == turn[t] IN
    /\ l.pc = "llm"
    /\ \/ /\ \/ Set(t, [l EXCEPT !.pc = "finish", !.why = "final"])
             \/ Set(t, [l EXCEPT !.pc = "finish",
                                 !.why = IF l.failed THEN "final" ELSE "ended"])
             \/ Set(t, [l EXCEPT !.pc = "finish", !.why = "timeout"])
          /\ UNCHANGED <<asked, aliased>>
       \/ \E tools \in Batches :
             /\ asked < MaxToolTurns /\ asked' = asked + 1
             /\ aliased' = (aliased \/ \E c \in ToSet(Calls(tools)) : c.id = PendingId(l))
             /\ Set(t, [l EXCEPT !.pc = "call", !.batch = Calls(tools),
                                 !.msgs = Append(@, Assistant(Calls(tools)))])
    /\ UNCHANGED <<store, ledger>>

\* The model call fails: what the turn has is saved if the lock is held.
LlmError(t) ==
    LET l == Cut(turn[t]) IN
    /\ turn[t].pc = "llm"
    /\ \/ Checked(t) /\ SaveState(t, l)
       \/ ~Held(t) /\ UNCHANGED <<store, faults, blip>>
    /\ Set(t, Returned(l, "llmerror"))
    /\ UNCHANGED <<ledger, asked>>

\* Mutant: the batch stops at the call that parked.
BatchDoneAtPark(l) ==
    CASE l.susp -> [l EXCEPT !.pc = "finish", !.batch = <<>>, !.why = "awaiting"]
      [] ~l.susp /\ l.batch # <<>> -> [l EXCEPT !.pc = "call"]
      [] ~l.susp /\ l.batch = <<>> /\ l.timedOut -> [l EXCEPT !.pc = "finish", !.why = "timeout"]
      [] OTHER -> [l EXCEPT !.pc = "iterate"]

\* The head of the batch is answered; after the last one the turn ends if it
\* ran out of time or waits for the user, and plans again otherwise.
BatchDone(l) ==
    CASE l.batch # <<>> -> [l EXCEPT !.pc = "call"]
      [] l.batch = <<>> /\ l.timedOut -> [l EXCEPT !.pc = "finish", !.why = "timeout"]
      [] l.batch = <<>> /\ ~l.timedOut /\ l.susp -> [l EXCEPT !.pc = "finish", !.why = "awaiting"]
      [] OTHER -> [l EXCEPT !.pc = "iterate"]
Answered(l, val) ==
    BatchDone([l EXCEPT !.msgs = Append(@, Tool(Head(l.batch).id, val)), !.batch = Tail(@)])

\* Mutant: the ledger is keyed by the provider's call id alone.
LedgerCallIdOnly(call) == <<call.id, None>>

\* ledger_call_id: the call id with a digest of what was asked.
LedgerCallId(call) == <<call.id, call.tool>>

\* refuse_behind_suspension: the user must answer first, and a side turn
\* starts no second flow.
Refused(l, call) == l.susp \/ (l.side /\ call.tool \in Flows)

\* Each call in turn: answered without running it (out of time, malformed,
\* behind a parked one, not allowed), from the ledger, or run: where nothing
\* worth a replay is recorded, or the ledger cannot be read.
NextCall(t) ==
    LET l == turn[t]
        call == Head(l.batch)
        key == LedgerCallId(call)
        failed == Answered([l EXCEPT !.failed = TRUE], "error")
    IN  /\ l.pc = "call"
        /\ \/ l.timedOut /\ Set(t, Answered(l, "error"))
           \/ ~l.timedOut /\ Set(t, failed)
           \/ ~l.timedOut /\ Refused(l, call) /\ Set(t, Answered(l, "error"))
           \/ /\ ~l.timedOut /\ ~Refused(l, call)
              /\ IF call.tool \in Denied THEN Set(t, failed)
                 ELSE \/ /\ key \in DOMAIN ledger /\ ledger[key] # "error"
                         /\ Set(t, Answered(l, ledger[key]))
                      \/ Set(t, [l EXCEPT !.pc = "tool"])
        /\ UNCHANGED <<store, ledger, asked>>

\* A flow parks on the user; under the side-turn policy its call is answered
\* by a placeholder at once.
Parked(l, call) ==
    [l EXCEPT !.batch = Tail(@), !.susp = TRUE,
              !.pending = [id |-> call.id, tool |-> call.tool, used |-> l.iter, sideTurns |-> 0],
              !.msgs = IF mode.policy = "side" THEN Append(@, Tool(call.id, "wait")) ELSE @]

\* The tool returns a result, which is recorded unless the ledger fails, an
\* error value or an error, runs out of time, or parks.
ToolReturns(t) ==
    LET l == turn[t]
        call == Head(l.batch)
    IN  /\ l.pc = "tool"
        /\ \/ /\ Set(t, Answered(l, call.tool))
              /\ ledger' \in {(LedgerCallId(call) :> call.tool) @@ ledger, ledger}
           \/ /\ \E failed \in BOOLEAN :
                    /\ failed => call.tool \notin Flows
                    /\ Set(t, Answered([l EXCEPT !.failed = @ \/ failed], "error"))
              /\ ledger' = ledger
           \/ /\ call.tool \notin Flows
              /\ Set(t, Answered([l EXCEPT !.failed = TRUE, !.timedOut = TRUE], "error"))
              /\ ledger' = ledger
           \/ /\ call.tool \in Flows
              /\ Set(t, BatchDone(Parked(l, call)))
              /\ ledger' = ledger
        /\ UNCHANGED <<store, asked>>

-----------------------------------------------------------------------------
(* The end of a turn.                                                       *)

\* Mutant: a conversation that ends leaves its park behind.
FinishSideTurnKeeps(l) == IF l.side /\ l.why # "ended" THEN [l EXCEPT !.why = "awaiting"] ELSE l

\* finish_side_turn: the card is offered again, unless the model ended the
\* conversation, which cancels the park.
FinishSideTurn(l) ==
    CASE l.side /\ l.why = "ended" ->
            [l EXCEPT !.msgs = PatchToolResult(@, l.pending.id, "cancelled"), !.pending = None]
      [] l.side /\ l.why # "ended" -> [l EXCEPT !.why = "awaiting"]
      [] OTHER -> l

\* A reply passes the outbound guardrails, or the turn ends unsaved.
Finish(t) ==
    LET l == turn[t]
        replied == l.why \in {"final", "ended"}
        f == FinishSideTurn(l)
    IN  /\ l.pc = "finish"
        /\ \/ Set(t, Cut([f EXCEPT !.pc = "save",
                                   !.msgs = IF replied THEN Append(@, Assistant(<<>>)) ELSE @]))
           \/ replied /\ Set(t, Returned(l, "denied"))
        /\ UNCHANGED <<store, ledger, asked>>

Save(t) ==
    LET l == turn[t] IN
    /\ l.pc = "save" /\ Checked(t)
    /\ SaveState(t, l)
    /\ Set(t, Returned(l, l.why))
    /\ UNCHANGED <<ledger, asked>>

Step(t) ==
    /\ \/ (Inbound(t) \/ Resume(t) \/ NextCall(t) \/ ToolReturns(t) \/ Finish(t))
             /\ UNCHANGED <<faults, blip, aliased>>
       \/ Respond(t) /\ UNCHANGED <<faults, blip>>
       \/ (Load(t) \/ Opening(t)) /\ UNCHANGED <<blip, aliased>>
       \/ (Iterate(t) \/ LockLost(t)) /\ UNCHANGED <<faults, aliased>>
       \/ (LlmError(t) \/ Save(t)) /\ UNCHANGED aliased
    /\ Released(t)
    /\ UNCHANGED <<mode, lapses>>

-----------------------------------------------------------------------------
(* What goes wrong around it.                                               *)

\* The process dies; the lock stays until its TTL.
Crash(t) ==
    /\ Live(t) /\ Mishap /\ faults' = faults + 1
    /\ Set(t, [Idle EXCEPT !.pc = "dead"])
    /\ UNCHANGED <<mode, store, ledger, lock, asked, lapses, blip, aliased>>

\* The TTL runs out: of a dead turn's lock, or during a long await whose
\* refreshes failed or that is not kept alive.
Lapse ==
    /\ lock # None
    /\ \/ turn[lock].pc = "dead" /\ UNCHANGED lapses
       \/ turn[lock].pc \in LongAwaits /\ Mishap /\ lapses' = lapses + 1
    /\ lock' = None
    /\ UNCHANGED <<mode, store, ledger, turn, asked, faults, blip, aliased>>

Init ==
    /\ mode \in Modes
    /\ store = [msgs |-> <<>>, pending |-> None, ver |-> 0, by |-> None]
    /\ ledger = <<>> /\ lock = None /\ asked = 0
    /\ turn = [t \in Turns |-> Idle]
    /\ faults = 0 /\ lapses = 0 /\ blip = FALSE /\ aliased = FALSE

\* Nothing is left to do; in every other state some turn can go on.
Quiet == (\A t \in Turns : ~Live(t)) /\ UNCHANGED vars

Next ==
    \/ Lapse \/ Quiet
    \/ \E t \in Turns :
          \/ \E answer \in BOOLEAN : Acquire(t, answer)
          \/ Step(t) \/ Crash(t)

Spec == Init /\ [][Next]_vars

-----------------------------------------------------------------------------

\* In every history the model is sent, calls and results are paired as a
\* provider demands: each call of an assistant turn is answered, once, right
\* behind it, whatever was parked, resumed, cancelled, refused, timed out or
\* truncated before (flow_suspend: "always gets a tool result before anything
\* else reaches the LLM").
HistoryValid == \A t \in Turns : turn[t].pc = "llm" => Paired(turn[t].msgs, None)

\* A saved conversation can be continued: only the parked call may lack its
\* result, and the turn that made it is still there to take it, however long
\* the side turns went on (truncate_history).
ParkAnswerable ==
    LET p == store.pending IN
    /\ Paired(store.msgs, IF p = None THEN None ELSE p.id)
    /\ p # None => LatestAssistantWith(store.msgs, p.id) # 0

\* A call's result in the history is that of the tool it named, and none
\* waits for an answer once no call is parked, also with a provider that
\* numbers its calls anew in every response (patch_tool_result,
\* ledger_call_id).  Left out: the history after a side turn in which such a
\* provider made a call under the id of the parked one.  patch_tool_result
\* then takes the newer call for the parked one, which keeps its placeholder.
ResultsBelong == ~aliased =>
    /\ Matching(store.msgs) /\ (store.pending = None => ~Waits(store.msgs))
    /\ \A t \in Turns : turn[t].pc = "llm" =>
          Matching(turn[t].msgs) /\ (turn[t].pending = None => ~Waits(turn[t].msgs))

\* The turn that wrote the conversation told the user to answer a card if
\* and only if the conversation waits for one (AwaitingToolInput).
AwaitIffParked ==
    \A t \in Turns :
        store.by = t /\ turn[t].out \in {"final", "ended", "timeout", "maxiter", "awaiting"}
            => (turn[t].out = "awaiting" <=> store.pending # None)

\* As long as the store answers the refreshes, no turn writes over what
\* another wrote since it loaded, even if its lock lapsed (ensure_lock_held).
NoLostUpdate == [][~blip' /\ store' # store => store'.ver = store.ver + 1]_vars
=============================================================================
