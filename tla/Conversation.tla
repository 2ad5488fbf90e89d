---------------------------- MODULE Conversation ----------------------------
(***************************************************************************)
(* The history of an agent conversation: greentic-aw-runtime src/state.rs  *)
(* (ConversationState) and src/flow_suspend.rs.  A user message, an         *)
(* assistant turn with the tool calls it makes, or the result of a call.    *)
(* A result is "wait" (the placeholder of a parked call), "cancelled",      *)
(* "error", or the name of the tool whose output it is.                     *)
(***************************************************************************)
EXTENDS Naturals, Sequences, FiniteSetsExt, SequencesExt

CONSTANT None

User == [role |-> "user"]
Assistant(calls) == [role |-> "assistant", calls |-> calls]
Tool(id, val) == [role |-> "tool", id |-> id, val |-> val]

IsUser(m) == m.role = "user"
IsTool(m) == m.role = "tool"
Makes(m, id) == m.role = "assistant" /\ \E c \in ToSet(m.calls) : c.id = id

\* The latest assistant turn that made the call, or 0.
LatestAssistantWith(msgs, id) == SelectLastInSeq(msgs, LAMBDA m : Makes(m, id))

\* The index after the results that answer the assistant turn at `at`.
ToolRunEnd(msgs, at) ==
    Min({e \in at + 1..Len(msgs) + 1 : e = Len(msgs) + 1 \/ ~IsTool(msgs[e])})

\* The result of call `id` among those of the turn at `at`, or 0.
ResultAt(msgs, at, id) ==
    LET hits == {i \in at + 1..ToolRunEnd(msgs, at) - 1 : msgs[i].id = id}
    IN  IF hits = {} THEN 0 ELSE Min(hits)

\* Replace the placeholder in place, or add the result after the others.
PatchToolResult(msgs, id, val) ==
    LET at == LatestAssistantWith(msgs, id)
        old == IF at = 0 THEN 0 ELSE ResultAt(msgs, at, id)
    IN  CASE at = 0 -> msgs
          [] old # 0 -> ReplaceAt(msgs, old, Tool(id, val))
          [] OTHER -> InsertAt(msgs, ToolRunEnd(msgs, at), Tool(id, val))

\* The parked call has a result, or gets the placeholder; its turn must be
\* in the history (ensure_placeholder).
CanHoldPlaceholder(msgs, id) == LatestAssistantWith(msgs, id) # 0
EnsurePlaceholder(msgs, id) ==
    LET at == LatestAssistantWith(msgs, id)
    IN  IF ResultAt(msgs, at, id) # 0 THEN msgs ELSE InsertAt(msgs, at + 1, Tool(id, "wait"))

-----------------------------------------------------------------------------
(* truncate_history: whole turns go, oldest first.                          *)

TurnEnd(msgs, i) ==
    Min({e \in i + 1..Len(msgs) + 1 : e = Len(msgs) + 1 \/ IsUser(msgs[e])})

\* Mutant: the turn of a parked call goes like any other.
RemovableUnprotected(msgs, id) ==
    {i \in DOMAIN msgs : (i = 1 \/ IsUser(msgs[i])) /\ TurnEnd(msgs, i) <= Len(msgs)}

\* The starts of the turns that may go: not the newest, nor the one that
\* holds the parked call.
Removable(msgs, id) ==
    {i \in DOMAIN msgs :
        /\ i = 1 \/ IsUser(msgs[i])
        /\ TurnEnd(msgs, i) <= Len(msgs)
        /\ \A j \in i..TurnEnd(msgs, i) - 1 :
              ~Makes(msgs[j], id) /\ ~(IsTool(msgs[j]) /\ msgs[j].id = id)}

\* A removable turn goes if the history is still too long without the
\* removable turns before it.
Truncate(msgs, id, max) ==
    LET size(i) == TurnEnd(msgs, i) - i
        left(i) == Len(msgs) - MapThenSumSet(size, {j \in Removable(msgs, id) : j < i})
        gone == UNION {i..TurnEnd(msgs, i) - 1 : i \in {j \in Removable(msgs, id) : left(j) > max}}
    IN  FoldLeftDomain(LAMBDA kept, k : IF k \in gone THEN kept ELSE Append(kept, msgs[k]),
                       <<>>, msgs)

-----------------------------------------------------------------------------

\* What a provider accepts: the results that follow an assistant turn answer
\* exactly its calls, one each, but for call `id`; no result stands elsewhere.
Paired(msgs, id) ==
    /\ \A i \in DOMAIN msgs : msgs[i].role = "assistant" =>
          LET calls == {c.id : c \in ToSet(msgs[i].calls)}
              run == i + 1..ToolRunEnd(msgs, i) - 1
          IN  /\ calls \ {id} \subseteq {msgs[j].id : j \in run}
              /\ {msgs[j].id : j \in run} \subseteq calls
              /\ \A j, k \in run : msgs[j].id = msgs[k].id => j = k
    /\ \A i \in DOMAIN msgs : IsTool(msgs[i]) => i > 1 /\ ~IsUser(msgs[i - 1])

\* Every result is the output of the tool its own call named, or says that
\* the call failed, was cancelled or still waits.
Matching(msgs) ==
    \A i \in DOMAIN msgs : msgs[i].role = "assistant" =>
        \A j \in i + 1..ToolRunEnd(msgs, i) - 1 :
            msgs[j].val \in {"wait", "cancelled", "error"}
                \cup {c.tool : c \in {d \in ToSet(msgs[i].calls) : d.id = msgs[j].id}}

Waits(msgs) == \E m \in ToSet(msgs) : IsTool(m) /\ m.val = "wait"
=============================================================================
