-------------------------- MODULE ParkedTurnProofs --------------------------
(***************************************************************************)
(* Of all the attempts of a turn at most one performs an external effect,  *)
(* for every number of turns, attempts, engine retries, store failures,    *)
(* crashes and dropped turns.  The argument: an attempt that performed an  *)
(* effect leaves the run towards the clear or the save, or with a terminal *)
(* failure, and what fails there is terminal; the two ways back to another *)
(* attempt start with no effect.                                           *)
(***************************************************************************)
EXTENDS ParkedTurn, TLAPS

\* The types the argument needs.
PartType ==
    /\ pc \in [Turns -> Live \cup {"new", "report", "done", "dead"}]
    /\ effected \in [Turns -> BOOLEAN]
    /\ failure \in [Turns -> {"none", "retryable", "terminal"}]
    /\ ran \in [Turns -> Nat]

\* Before an attempt, and in one that failed and may be retried, the turn has
\* performed nothing; while the flow runs, what the flag says.
EffectsAccounted ==
    \A t \in Turns :
        /\ pc[t] \in {"new", "fetch"} => ran[t] = 0
        /\ pc[t] = "restamp" /\ failure[t] # "terminal" => ran[t] = 0
        /\ pc[t] = "run" => ran[t] = IF effected[t] THEN 1 ELSE 0
        /\ ran[t] <= 1

EffectInv == PartType /\ EffectsAccounted

(* No turn has run yet.                                                    *)
LEMMA InitEffectInv == Init => EffectInv
  BY DEF Init, EffectInv, PartType, EffectsAccounted

(* Ending an attempt moves only this turn, to its next attempt or out.     *)
LEMMA EndAttemptMoves ==
    ASSUME PartType, NEW t \in Turns, NEW kind, EndAttempt(t, kind)
    PROVE  \/ pc' = [pc EXCEPT ![t] = "fetch"] /\ kind = "retryable"
           \/ pc' = [pc EXCEPT ![t] = "release"]
  BY DEF EndAttempt, Goto

(* Steps that perform no effect, and keep the flag or leave the flow.      *)
LEMMA QuietMove ==
    ASSUME EffectInv, NEW t \in Turns, NEW l \in Live \cup {"new", "report", "done", "dead"},
           pc' = [pc EXCEPT ![t] = l], ran' = ran,
           effected' \in [Turns -> BOOLEAN],
           failure' \in [Turns -> {"none", "retryable", "terminal"}],
           \A u \in Turns : u # t => effected'[u] = effected[u] /\ failure'[u] = failure[u],
           l \in {"new", "fetch"} => ran[t] = 0,
           l = "restamp" /\ failure'[t] # "terminal" => ran[t] = 0,
           l = "run" => ran[t] = IF effected'[t] THEN 1 ELSE 0
    PROVE  EffectInv'
  BY ZenonT(40) DEF EffectInv, PartType, EffectsAccounted, Live

(* Turns that die, with the process or alone, perform nothing any more.    *)
LEMMA DeadDoNothing ==
    ASSUME EffectInv, NEW A \in SUBSET Turns, Die(A)
    PROVE  EffectInv'
  <1> USE DEF EffectInv
  <1>1. /\ ran' = ran
        /\ pc' = [t \in Turns |-> IF t \in A THEN "dead" ELSE pc[t]]
        /\ effected' = [t \in Turns |-> t \notin A /\ effected[t]]
        /\ failure' = [t \in Turns |-> IF t \in A THEN "none" ELSE failure[t]]
    BY DEF Die, Forget
  <1>2. /\ effected' \in [Turns -> BOOLEAN]
        /\ failure' \in [Turns -> {"none", "retryable", "terminal"}]
        /\ \A t \in Turns \ A : effected'[t] = effected[t] /\ failure'[t] = failure[t]
    BY <1>1 DEF PartType
  <1> QED
    BY <1>1, <1>2 DEF PartType, EffectsAccounted, Live

(* Every step keeps the invariant.                                         *)
LEMMA NextEffectInv == EffectInv /\ [Next]_vars => EffectInv'
  <1> SUFFICES ASSUME EffectInv, [Next]_vars PROVE EffectInv'
    OBVIOUS
  <1> USE DEF EffectInv
  <1>1. ASSUME NEW t \in Turns, Acquire(t) PROVE EffectInv'
    BY <1>1, QuietMove, Zenon DEF Acquire, Goto, PartType, EffectsAccounted, Live
  <1>2. ASSUME NEW t \in Turns, Fetch(t) PROVE EffectInv'
    <2>1. ran[t] = 0 /\ ran' = ran /\ failure' = failure /\ pc' = [pc EXCEPT ![t] = "run"]
      BY <1>2 DEF Fetch, Goto, history, PartType, EffectsAccounted
    <2>2. effected' = [effected EXCEPT ![t] = FALSE]
      BY <1>2 DEF Fetch
    <2> QED
      BY <2>1, <2>2, QuietMove, Zenon DEF PartType, Live
  <1>3. ASSUME NEW t \in Turns, FetchFails(t) PROVE EffectInv'
    <2>1. ran' = ran /\ effected' = effected /\ failure' = failure /\ pc[t] = "fetch"
      BY <1>3 DEF FetchFails, history
    <2>2. \/ pc' = [pc EXCEPT ![t] = "fetch"] \/ pc' = [pc EXCEPT ![t] = "release"]
      BY <1>3, EndAttemptMoves DEF FetchFails
    <2> QED
      BY <2>1, <2>2, QuietMove DEF PartType, EffectsAccounted, Live
  <1>4. ASSUME NEW t \in Turns, Refuse(t) PROVE EffectInv'
    <2>1. ran' = ran /\ effected' = effected /\ failure' = failure /\ pc[t] = "fetch"
      BY <1>4 DEF Refuse, history
    <2>2. \/ pc' = [pc EXCEPT ![t] = "fetch"] \/ pc' = [pc EXCEPT ![t] = "release"]
      BY <1>4, EndAttemptMoves DEF Refuse
    <2> QED
      BY <2>1, <2>2, QuietMove DEF PartType, EffectsAccounted, Live
  <1>5. ASSUME NEW t \in Turns, Effect(t) PROVE EffectInv'
    <2>1. pc[t] = "run" /\ ran[t] = 0 /\ pc' = pc
      BY <1>5 DEF Effect, PartType, EffectsAccounted
    <2>2. /\ effected' = [effected EXCEPT ![t] = TRUE] /\ failure' = failure
          /\ ran' = [ran EXCEPT ![t] = ran[t] + 1]
      BY <1>5 DEF Effect
    <2> QED
      BY <2>1, <2>2 DEF PartType, EffectsAccounted
  <1>6. ASSUME NEW t \in Turns, EngineRetry(t) PROVE EffectInv'
    BY <1>6 DEF EngineRetry, history, PartType, EffectsAccounted
  <1>7. ASSUME NEW t \in Turns, Complete(t) PROVE EffectInv'
    BY <1>7, QuietMove, ZenonT(40) DEF Complete, Goto, history, PartType, Live
  <1>8. ASSUME NEW t \in Turns, Park(t) PROVE EffectInv'
    BY <1>8, QuietMove, ZenonT(40) DEF Park, Goto, history, PartType, Live
  <1>9. ASSUME NEW t \in Turns, NEW kind \in {"retryable", "terminal"}, FailsForGood(t, kind)
        PROVE  EffectInv'
    <2>1. ran[t] = 0 /\ ran' = ran /\ effected' = effected /\ pc' = [pc EXCEPT ![t] = "restamp"]
      BY <1>9 DEF FailsForGood, Goto, history, PartType, EffectsAccounted
    <2>2. failure' = [failure EXCEPT ![t] = kind]
      BY <1>9 DEF FailsForGood
    <2> QED
      BY <2>1, <2>2, QuietMove, Zenon DEF PartType, Live
  <1>10. ASSUME NEW t \in Turns, NEW kind, EntryInvalid(t, kind) PROVE EffectInv'
    <2>1. ran[t] = 0 /\ ran' = ran /\ effected' = effected /\ failure' = failure
      BY <1>10 DEF EntryInvalid, history, PartType, EffectsAccounted
    <2>2. \/ pc' = [pc EXCEPT ![t] = "fetch"] \/ pc' = [pc EXCEPT ![t] = "release"]
      BY <1>10, EndAttemptMoves DEF EntryInvalid
    <2> QED
      BY <2>1, <2>2, QuietMove DEF PartType, Live
  <1>11. ASSUME NEW t \in Turns, Restamp(t) \/ RestampFails(t) PROVE EffectInv'
    <2>1. pc[t] = "restamp" /\ ran' = ran /\ effected' = effected /\ failure' = failure
      BY <1>11 DEF Restamp, RestampFails, history
    <2>2. \/ pc' = [pc EXCEPT ![t] = "fetch"] /\ failure[t] = "retryable"
          \/ pc' = [pc EXCEPT ![t] = "release"]
      BY <1>11, EndAttemptMoves DEF Restamp, RestampFails
    <2>3. failure[t] = "retryable" => ran[t] = 0
      BY <2>1 DEF EffectsAccounted
    <2> QED
      BY <2>1, <2>2, <2>3, QuietMove DEF PartType, Live
  <1>12. ASSUME NEW t \in Turns, Clear(t) PROVE EffectInv'
    BY <1>12, QuietMove, ZenonT(40) DEF Clear, Settle, Goto, history, PartType, Live
  <1>13. ASSUME NEW t \in Turns, ClearFails(t) \/ SaveFails(t) PROVE EffectInv'
    <2>1. ran' = ran /\ effected' = effected /\ failure' = failure
      BY <1>13 DEF ClearFails, SaveFails
    <2>2. pc' = [pc EXCEPT ![t] = "release"]
      BY <1>13, EndAttemptMoves DEF ClearFails, SaveFails
    <2> QED
      BY <2>1, <2>2, QuietMove, Zenon DEF PartType, Live
  <1>14. ASSUME NEW t \in Turns, Save(t) PROVE EffectInv'
    BY <1>14, QuietMove, ZenonT(40) DEF Save, Goto, history, PartType, Live
  <1>15. ASSUME NEW t \in Turns, RecordWait(t) PROVE EffectInv'
    BY <1>15, QuietMove, ZenonT(40) DEF RecordWait, Settle, Goto, history, PartType, Live
  <1>16. ASSUME NEW t \in Turns, Release(t) PROVE EffectInv'
    <2>1. ran' = ran /\ pc' = [pc EXCEPT ![t] = "report"]
      BY <1>16 DEF Release, Goto, history
    <2>2. /\ effected' = [u \in Turns |-> u \notin {t} /\ effected[u]]
          /\ failure' = [u \in Turns |-> IF u \in {t} THEN "none" ELSE failure[u]]
      BY <1>16 DEF Release, Forget
    <2>3. /\ effected' \in [Turns -> BOOLEAN]
          /\ failure' \in [Turns -> {"none", "retryable", "terminal"}]
          /\ \A u \in Turns : u # t => effected'[u] = effected[u] /\ failure'[u] = failure[u]
      BY <2>2 DEF PartType
    <2> QED
      BY <2>1, <2>3, QuietMove, Zenon DEF PartType, Live
  <1>17. ASSUME NEW t \in Turns, Report(t) PROVE EffectInv'
    BY <1>17, QuietMove, Zenon DEF Report, Goto, history, PartType, Live
  <1>18. ASSUME Crash PROVE EffectInv'
    BY <1>18, DeadDoNothing DEF Crash
  <1>21. ASSUME NEW t \in Turns, Drop(t) PROVE EffectInv'
    BY <1>21, DeadDoNothing DEF Drop
  <1>22. ASSUME NEW w, Land(w) PROVE EffectInv'
    BY <1>22 DEF Land, turnVars, PartType, EffectsAccounted
  <1>19. ASSUME NEW t \in Turns, CallPauses(t) PROVE EffectInv'
    <2>1. /\ ran' = ran /\ effected' = effected /\ pc' = [pc EXCEPT ![t] = "restamp"]
          /\ failure' = [failure EXCEPT ![t] = "terminal"]
      BY <1>19 DEF CallPauses, Goto
    <2> QED
      BY <2>1, QuietMove, Zenon DEF PartType, Live
  <1>20. ASSUME UNCHANGED vars PROVE EffectInv'
    BY <1>20 DEF vars, turnVars, history, PartType, EffectsAccounted
  <1> QED
    BY <1>1, <1>2, <1>3, <1>4, <1>5, <1>6, <1>7, <1>8, <1>9, <1>10, <1>11, <1>12, <1>13,
       <1>14, <1>15, <1>16, <1>17, <1>18, <1>19, <1>20, <1>21, <1>22 DEF Next, AllDone

(* At most one attempt of a turn performs an effect: whatever the store    *)
(* refuses and whenever the process dies, neither retry layer repeats what *)
(* the turn has already done (TerminalFlowError, PostEffectPersistence).   *)
THEOREM EffectsOnceHolds == Spec => []TurnEffectsOnce
  <1>1. EffectInv => TurnEffectsOnce
    BY DEF EffectInv, EffectsAccounted, TurnEffectsOnce
  <1> QED
    BY <1>1, InitEffectInv, NextEffectInv, PTL DEF Spec

-----------------------------------------------------------------------------
(***************************************************************************)
(* Across turns.  A wait is settled when its effects were performed and    *)
(* nothing was lost on the way.  The argument: while a settled wait is     *)
(* still in the store, the turn that performed its effects holds the lock  *)
(* and is on its way to clear or replace it, so no other turn fetches it;  *)
(* and no turn puts it back, because a wait is named after the turn that   *)
(* parked it, which parks once.                                            *)
(***************************************************************************)
Settled == spent \ unsettled

\* The turn that is being worked on holds the lock.
LockHeld ==
    /\ DOMAIN snap = Turns
    /\ \A t \in Turns : pc[t] \in Live <=> holder = t

\* A settled wait still in the store is about to be cleared or replaced.
MovingOn ==
    wait # None /\ wait.id \in Settled =>
        /\ holder \in Turns
        /\ pc[holder] \in {"run", "clear", "save"}
        /\ effected[holder] = TRUE
        /\ snap[holder] # None /\ snap[holder].id = wait.id

\* What a turn fetched, and has not acted on yet, is not settled.
NotYetSettled ==
    \A t \in Turns :
        pc[t] = "run" /\ snap[t] # None /\ effected[t] # TRUE => snap[t].id \notin Settled

\* A name of a wait that is a turn's: that turn has parked, and is past it.
Past == {"record", "release", "report", "done", "dead"}
HasParked(id) == id \in Turns => pc[id] \in Past
NamesArePast ==
    /\ \A id \in spent : HasParked(id)
    /\ wait # None => HasParked(wait.id)
    /\ \A t \in Turns : snap[t] # None => HasParked(snap[t].id)
    /\ \A w \in strays : w # None => HasParked(w.id)

SettleInv ==
    LockHeld /\ MovingOn /\ NotYetSettled /\ NamesArePast /\ RepeatsOnlyIfUnsettled

(* Nothing is settled yet, and the only name is Legacy.                    *)
LEMMA InitSettleInv == Init => SettleInv
  BY TurnAssumption DEF Init, SettleInv, Settled, LockHeld, MovingOn, NotYetSettled, NamesArePast,
     HasParked, RepeatsOnlyIfUnsettled, Live

(* A step of the turn that holds the lock, which keeps it, performs no     *)
(* effect and leaves the store alone; it may fetch, and lose track of      *)
(* waits, and if it leaves the way to the clear or the save, the wait it   *)
(* performed the effects of is lost track of.                              *)
LEMMA HolderSteps ==
    ASSUME EffectInv, SettleInv, NEW t \in Turns, pc[t] \in Live, NEW l \in Live,
           pc' = [pc EXCEPT ![t] = l], pc[t] \in Past => l \in Past,
           holder' = holder, wait' = wait, strays' = strays,
           spent' = spent, repeated' = repeated, unsettled \subseteq unsettled',
           snap' = snap, effected' = effected,
           l = "run" => pc[t] = "run",
           l \in {"run", "clear", "save"} \/ pc[t] \notin {"run", "clear", "save"}
             \/ effected[t] # TRUE \/ snap[t] = None \/ snap[t].id \in unsettled'
    PROVE  SettleInv'
  <1> USE DEF SettleInv, EffectInv
  <1>1. LockHeld'
    BY DEF LockHeld, PartType
  <1>2. holder = t
    BY DEF LockHeld
  <1>3. MovingOn'
    BY <1>2, TurnAssumption, Zenon DEF MovingOn, Settled, PartType
  <1>4. NotYetSettled'
    BY <1>2, Zenon DEF NotYetSettled, Settled, PartType
  <1>5. NamesArePast'
    BY DEF NamesArePast, HasParked, PartType
  <1>6. RepeatsOnlyIfUnsettled'
    BY DEF RepeatsOnlyIfUnsettled
  <1> QED
    BY <1>1, <1>3, <1>4, <1>5, <1>6

(* A step of that turn that writes the store: the wait is gone, or keeps   *)
(* its name, or has the turn's own.                                        *)
LEMMA HolderWrites ==
    ASSUME EffectInv, SettleInv, NEW t \in Turns, pc[t] \in {"restamp", "clear", "save"},
           NEW l \in Live \ {"run"},
           pc' = [pc EXCEPT ![t] = l],
           \/ wait' = None
           \/ wait' # None /\ wait # None /\ wait'.id = wait.id /\ pc[t] = "restamp"
           \/ wait'.id = t /\ pc[t] = "save" /\ l \in Past,
           holder' = holder, strays' = strays,
           spent' = spent, repeated' = repeated, unsettled' = unsettled,
           snap' = snap, effected' = effected
    PROVE  SettleInv'
  <1> USE DEF SettleInv, EffectInv
  <1>1. LockHeld'
    BY DEF LockHeld, PartType, Live
  <1>2. holder = t
    BY DEF LockHeld, Live
  <1>3. t \in spent => pc[t] \in Past
    BY DEF NamesArePast, HasParked
  <1>4. MovingOn'
    BY <1>2, <1>3 DEF MovingOn, Settled, Past
  <1>5. NotYetSettled'
    BY <1>2, Zenon DEF NotYetSettled, Settled, PartType
  <1>6. \A u \in Turns : pc[u] \in Past => pc'[u] \in Past
    BY DEF PartType, Past
  <1>7. NamesArePast'
    BY <1>6 DEF NamesArePast, HasParked, PartType
  <1>8. RepeatsOnlyIfUnsettled'
    BY DEF RepeatsOnlyIfUnsettled
  <1> QED
    BY <1>1, <1>4, <1>5, <1>7, <1>8

(* Turns that die with the lock leave the wait they had performed the      *)
(* effects of, if it was settled, as one that was lost track of.           *)
LEMMA DeadSettleNothing ==
    ASSUME EffectInv, SettleInv, NEW A \in SUBSET Turns, Die(A),
           \A t \in Turns : pc[t] \in Live => t \in A,
           \A w \in strays' : w \in strays \/ w = None \/ w.id \in A
                                 \/ (wait # None /\ w.id = wait.id)
    PROVE  SettleInv'
  <1> USE DEF SettleInv, EffectInv
  <1> DEFINE lost == {t \in A : snap[t] # None /\ effected[t] /\ pc[t] \in {"run", "clear", "save"}}
  <1>1. /\ pc' = [t \in Turns |-> IF t \in A THEN "dead" ELSE pc[t]]
        /\ snap' = [t \in Turns |-> IF t \in A THEN None ELSE snap[t]]
        /\ holder' = None /\ wait' = wait /\ spent' = spent /\ repeated' = repeated
        /\ unsettled' = unsettled \cup {snap[t].id : t \in lost}
    BY DEF Die, Forget
  <1>2. LockHeld'
    BY <1>1, TurnAssumption DEF LockHeld, Live
  <1>3. wait # None => wait.id \notin Settled'
    <2> SUFFICES ASSUME wait # None, wait.id \in Settled PROVE wait.id \in unsettled'
      BY <1>1 DEF Settled
    <2>1. /\ holder \in Turns /\ pc[holder] \in {"run", "clear", "save"} /\ effected[holder] = TRUE
          /\ snap[holder] # None /\ snap[holder].id = wait.id
      BY DEF MovingOn
    <2>2. holder \in lost
      BY <2>1 DEF Live
    <2> QED
      BY <1>1, <2>1, <2>2
  <1>4. MovingOn'
    BY <1>1, <1>3 DEF MovingOn
  <1>5. NotYetSettled'
    BY <1>1 DEF NotYetSettled, Live
  <1>6. \A u \in Turns : pc[u] \in Past \/ u \in A => pc'[u] \in Past
    BY <1>1 DEF Past
  <1>7. NamesArePast'
    BY <1>1, <1>6 DEF NamesArePast, HasParked
  <1>8. RepeatsOnlyIfUnsettled'
    BY <1>1, SMTT(30) DEF RepeatsOnlyIfUnsettled
  <1> QED
    BY <1>2, <1>4, <1>5, <1>7, <1>8

(* Every step keeps the invariant.                                         *)
LEMMA NextSettleInv == EffectInv /\ SettleInv /\ [Next]_vars => SettleInv'
  <1> SUFFICES ASSUME EffectInv, SettleInv, [Next]_vars PROVE SettleInv'
    OBVIOUS
  <1> USE DEF EffectInv, SettleInv
  <1>1. ASSUME NEW t \in Turns, Acquire(t) PROVE SettleInv'
    <2>1. /\ pc[t] = "new" /\ holder = None /\ holder' = t /\ pc' = [pc EXCEPT ![t] = "fetch"]
          /\ wait' = wait /\ strays' = strays /\ snap' = snap /\ effected' = effected
          /\ spent' = spent /\ repeated' = repeated /\ unsettled' = unsettled
      BY <1>1 DEF Acquire, Goto
    <2>2. LockHeld'
      BY <2>1, TurnAssumption DEF LockHeld, PartType, Live
    <2>3. MovingOn'
      BY <2>1, TurnAssumption DEF MovingOn, Settled
    <2>4. NotYetSettled'
      BY <2>1, Zenon DEF NotYetSettled, Settled, PartType
    <2>5. NamesArePast'
      BY <2>1 DEF NamesArePast, HasParked, PartType, Past
    <2> QED
      BY <2>1, <2>2, <2>3, <2>4, <2>5 DEF RepeatsOnlyIfUnsettled
  <1>2. ASSUME NEW t \in Turns, Fetch(t) PROVE SettleInv'
    <2>1. /\ pc[t] = "fetch" /\ pc' = [pc EXCEPT ![t] = "run"] /\ holder' = holder
          /\ wait' = wait /\ strays' = strays /\ snap' = [snap EXCEPT ![t] = wait]
          /\ effected' = [effected EXCEPT ![t] = FALSE]
          /\ spent' = spent /\ repeated' = repeated /\ unsettled' = unsettled
      BY <1>2 DEF Fetch, Goto, store, history
    <2>2. holder = t
      BY <2>1 DEF LockHeld, Live
    <2>3. wait # None => wait.id \notin Settled
      BY <2>1, <2>2 DEF MovingOn
    <2>4. LockHeld'
      BY <2>1 DEF LockHeld, PartType, Live
    <2>5. MovingOn'
      BY <2>1, <2>3 DEF MovingOn, Settled
    <2>6. NotYetSettled'
      BY <2>1, <2>3 DEF NotYetSettled, Settled, PartType, LockHeld
    <2>7. NamesArePast'
      BY <2>1 DEF NamesArePast, HasParked, PartType, Past, LockHeld
    <2> QED
      BY <2>1, <2>4, <2>5, <2>6, <2>7 DEF RepeatsOnlyIfUnsettled
  <1>3. ASSUME NEW t \in Turns, FetchFails(t) \/ Refuse(t) PROVE SettleInv'
    <2>1. /\ pc[t] = "fetch" /\ holder' = holder
          /\ wait' = wait /\ strays' = strays /\ snap' = snap /\ effected' = effected
          /\ spent' = spent /\ repeated' = repeated /\ unsettled' = unsettled
      BY <1>3 DEF FetchFails, Refuse, EndAttempt, history
    <2>2. \/ pc' = [pc EXCEPT ![t] = "fetch"] \/ pc' = [pc EXCEPT ![t] = "release"]
      BY <1>3, EndAttemptMoves DEF FetchFails, Refuse
    <2> QED
      BY <2>1, <2>2, HolderSteps, Zenon DEF Live, Past
  <1>4. ASSUME NEW t \in Turns, Effect(t) PROVE SettleInv'
    <2>1. /\ pc[t] = "run" /\ pc' = pc /\ effected[t] # TRUE /\ holder' = holder
          /\ wait' = wait /\ strays' = strays /\ snap' = snap
          /\ effected' = [effected EXCEPT ![t] = TRUE] /\ unsettled' = unsettled
      BY <1>4, Zenon DEF Effect, store
    <2>2. /\ spent' = spent \cup (IF snap[t] = None THEN {} ELSE {snap[t].id})
          /\ repeated' = repeated \cup ((IF snap[t] = None THEN {} ELSE {snap[t].id}) \cap spent)
      BY <1>4 DEF Effect
    <2>3. holder = t
      BY <2>1 DEF LockHeld, Live
    <2>4. snap[t] # None => snap[t].id \notin Settled
      BY <2>1, Zenon DEF NotYetSettled
    <2>5. LockHeld'
      BY <2>1 DEF LockHeld
    <2>6. wait # None => wait.id \notin Settled
      BY <2>1, <2>3, Zenon DEF MovingOn
    <2>7. MovingOn'
      BY <2>1, <2>2, <2>3, <2>6 DEF MovingOn, Settled, PartType
    <2>8. \A u \in Turns : u # t => pc[u] # "run"
      BY <2>3 DEF LockHeld, Live
    <2>9. NotYetSettled'
      BY <2>1, <2>8, Zenon DEF NotYetSettled, PartType
    <2>10. NamesArePast'
      BY <2>1, <2>2 DEF NamesArePast, HasParked
    <2>11. RepeatsOnlyIfUnsettled'
      BY <2>1, <2>2, <2>4 DEF RepeatsOnlyIfUnsettled, Settled
    <2> QED
      BY <2>5, <2>7, <2>9, <2>10, <2>11
  <1>5. ASSUME NEW t \in Turns, EngineRetry(t) PROVE SettleInv'
    <2>1. /\ pc' = pc /\ holder' = holder
          /\ wait' = wait /\ strays' = strays /\ snap' = snap /\ effected' = effected
          /\ spent' = spent /\ repeated' = repeated /\ unsettled' = unsettled
      BY <1>5 DEF EngineRetry, store, history
    <2> QED
      BY <2>1, Zenon DEF LockHeld, MovingOn, NotYetSettled, Settled, NamesArePast, HasParked,
         RepeatsOnlyIfUnsettled
  <1>6. ASSUME NEW t \in Turns, Complete(t) PROVE SettleInv'
    <2>1. /\ pc[t] = "run" /\ pc' = [pc EXCEPT ![t] = "clear"] /\ holder' = holder
          /\ wait' = wait /\ strays' = strays /\ snap' = snap /\ effected' = effected
          /\ spent' = spent /\ repeated' = repeated /\ unsettled' = unsettled
      BY <1>6 DEF Complete, Goto, store, history
    <2> QED
      BY <2>1, HolderSteps, Zenon DEF Live, Past
  <1>7. ASSUME NEW t \in Turns, Park(t) PROVE SettleInv'
    <2>1. /\ pc[t] = "run" /\ pc' = [pc EXCEPT ![t] = "save"] /\ holder' = holder
          /\ wait' = wait /\ strays' = strays /\ snap' = snap /\ effected' = effected
          /\ spent' = spent /\ repeated' = repeated /\ unsettled' = unsettled
      BY <1>7 DEF Park, Goto, store, history
    <2> QED
      BY <2>1, HolderSteps, Zenon DEF Live, Past
  <1>8. ASSUME NEW t \in Turns, NEW kind, FailsForGood(t, kind) PROVE SettleInv'
    <2>1. /\ pc[t] = "run" /\ effected[t] # TRUE /\ pc' = [pc EXCEPT ![t] = "restamp"]
          /\ holder' = holder
          /\ wait' = wait /\ strays' = strays /\ snap' = snap /\ effected' = effected
          /\ spent' = spent /\ repeated' = repeated /\ unsettled' = unsettled
      BY <1>8, Zenon DEF FailsForGood, Goto, store, history
    <2> QED
      BY <2>1, HolderSteps, Zenon DEF Live, Past
  <1>9. ASSUME NEW t \in Turns, CallPauses(t) PROVE SettleInv'
    <2>1. /\ pc[t] = "run" /\ pc' = [pc EXCEPT ![t] = "restamp"] /\ holder' = holder
          /\ wait' = wait /\ strays' = strays /\ snap' = snap /\ effected' = effected
          /\ spent' = spent /\ repeated' = repeated
          /\ snap[t] # None /\ unsettled' = unsettled \cup {snap[t].id}
      BY <1>9 DEF CallPauses, Goto, store, Unsettle
    <2> QED
      BY <2>1, HolderSteps, Zenon DEF Live, Past
  <1>10. ASSUME NEW t \in Turns, NEW kind, EntryInvalid(t, kind) PROVE SettleInv'
    <2>1. /\ pc[t] = "run" /\ snap[t] = None /\ holder' = holder
          /\ wait' = wait /\ strays' = strays /\ snap' = snap /\ effected' = effected
          /\ spent' = spent /\ repeated' = repeated /\ unsettled' = unsettled
      BY <1>10 DEF EntryInvalid, EndAttempt, history
    <2>2. \/ pc' = [pc EXCEPT ![t] = "fetch"] \/ pc' = [pc EXCEPT ![t] = "release"]
      BY <1>10, EndAttemptMoves DEF EntryInvalid
    <2> QED
      BY <2>1, <2>2, HolderSteps, ZenonT(40) DEF Live, Past
  <1>11. ASSUME NEW t \in Turns, Restamp(t) \/ RestampFails(t) PROVE SettleInv'
    <2>1. /\ pc[t] = "restamp" /\ holder' = holder
          /\ strays' = strays /\ snap' = snap /\ effected' = effected
          /\ spent' = spent /\ repeated' = repeated /\ unsettled' = unsettled
      BY <1>11, SMTT(30) DEF Restamp, RestampFails, EndAttempt, history
    <2>2. \/ pc' = [pc EXCEPT ![t] = "fetch"] \/ pc' = [pc EXCEPT ![t] = "release"]
      BY <1>11, EndAttemptMoves DEF Restamp, RestampFails
    <2>3. wait' = wait \/ wait' = None \/ (wait # None /\ wait' # None /\ wait'.id = wait.id)
      BY <1>11 DEF Restamp, RestampFails, Marked
    <2>4. CASE wait' = wait
      BY <2>1, <2>2, <2>4, HolderSteps, Zenon DEF Live, Past
    <2>5. CASE wait' # wait
      BY <2>1, <2>2, <2>3, <2>5, HolderWrites DEF Live
    <2> QED
      BY <2>4, <2>5
  <1>12. ASSUME NEW t \in Turns, Clear(t) PROVE SettleInv'
    <2>1. /\ pc[t] = "clear" /\ holder' = holder /\ wait' = None
          /\ pc' = [pc EXCEPT ![t] = "release"]
          /\ strays' = strays /\ snap' = snap /\ effected' = effected
          /\ spent' = spent /\ repeated' = repeated /\ unsettled' = unsettled
      BY <1>12 DEF Clear, Settle, Goto, history
    <2> QED
      BY <2>1, HolderWrites, Zenon DEF Live
  <1>13. ASSUME NEW t \in Turns, ClearFails(t) PROVE SettleInv'
    <2>1. /\ pc[t] = "clear" /\ holder' = holder
          /\ strays' = strays /\ snap' = snap /\ effected' = effected
          /\ spent' = spent /\ repeated' = repeated
      BY <1>13 DEF ClearFails, EndAttempt
    <2>2. pc' = [pc EXCEPT ![t] = "release"]
      BY <1>13, EndAttemptMoves DEF ClearFails
    <2>3. CASE wait' = wait /\ Unsettle(t)
      BY <2>1, <2>2, <2>3, HolderSteps, Zenon DEF Live, Past, Unsettle
    <2>4. CASE wait' = None /\ unsettled' = unsettled
      BY <2>1, <2>2, <2>4, HolderWrites, Zenon DEF Live
    <2> QED
      BY <1>13, <2>3, <2>4, SMTT(30) DEF ClearFails
  <1>14. ASSUME NEW t \in Turns, Save(t) PROVE SettleInv'
    <2>1. /\ pc[t] = "save" /\ holder' = holder /\ wait'.id = t
          /\ pc' = [pc EXCEPT ![t] = "record"]
          /\ strays' = strays /\ snap' = snap /\ effected' = effected
          /\ spent' = spent /\ repeated' = repeated /\ unsettled' = unsettled
      BY <1>14 DEF Save, Marked, Goto, history
    <2> QED
      BY <2>1, HolderWrites, Zenon DEF Live, Past
  <1>15. ASSUME NEW t \in Turns, SaveFails(t) PROVE SettleInv'
    <2>1. /\ pc[t] = "save" /\ holder' = holder
          /\ strays' = strays /\ snap' = snap /\ effected' = effected
          /\ spent' = spent /\ repeated' = repeated
      BY <1>15 DEF SaveFails, EndAttempt
    <2>2. pc' = [pc EXCEPT ![t] = "release"]
      BY <1>15, EndAttemptMoves DEF SaveFails
    <2>3. CASE wait' = wait /\ Unsettle(t)
      BY <2>1, <2>2, <2>3, HolderSteps, ZenonT(40) DEF Live, Past, Unsettle
    <2>4. CASE wait' = Marked(t, t) /\ unsettled' = unsettled
      <3>1. wait'.id = t
        BY <2>4 DEF Marked
      <3> QED
        BY <2>1, <2>2, <2>4, <3>1, HolderWrites, ZenonT(40) DEF Live, Past
    <2> QED
      BY <1>15, <2>3, <2>4 DEF SaveFails
  <1>16. ASSUME NEW t \in Turns, RecordWait(t) PROVE SettleInv'
    <2>1. /\ pc[t] = "record" /\ pc' = [pc EXCEPT ![t] = "release"] /\ holder' = holder
          /\ wait' = wait /\ strays' = strays /\ snap' = snap /\ effected' = effected
          /\ spent' = spent /\ repeated' = repeated /\ unsettled' = unsettled
      BY <1>16 DEF RecordWait, Settle, Goto, store, history
    <2> QED
      BY <2>1, HolderSteps, Zenon DEF Live, Past
  <1>17. ASSUME NEW t \in Turns, Release(t) PROVE SettleInv'
    <2>1. /\ pc[t] = "release" /\ pc' = [pc EXCEPT ![t] = "report"] /\ holder' = None
          /\ wait' = wait /\ strays' = strays
          /\ spent' = spent /\ repeated' = repeated /\ unsettled' = unsettled
      BY <1>17 DEF Release, Goto, history
    <2>2. /\ snap' = [u \in Turns |-> IF u \in {t} THEN None ELSE snap[u]]
          /\ effected' = [u \in Turns |-> u \notin {t} /\ effected[u]]
      BY <1>17 DEF Release, Forget
    <2>3. holder = t
      BY <2>1 DEF LockHeld, Live
    <2>4. LockHeld'
      BY <2>1, <2>2, <2>3, TurnAssumption DEF LockHeld, PartType, Live
    <2>5. MovingOn'
      BY <2>1, <2>3 DEF MovingOn, Settled
    <2>6. \A u \in Turns : pc'[u] # "run"
      BY <2>1, <2>3 DEF LockHeld, PartType, Live
    <2>7. NotYetSettled'
      BY <2>6 DEF NotYetSettled
    <2>8. NamesArePast'
      BY <2>1, <2>2 DEF NamesArePast, HasParked, PartType, Past
    <2> QED
      BY <2>1, <2>4, <2>5, <2>7, <2>8 DEF RepeatsOnlyIfUnsettled
  <1>18. ASSUME NEW t \in Turns, Report(t) PROVE SettleInv'
    <2>1. /\ pc[t] = "report" /\ pc' = [pc EXCEPT ![t] = "done"] /\ holder' = holder
          /\ wait' = wait /\ strays' = strays /\ snap' = snap /\ effected' = effected
          /\ spent' = spent /\ repeated' = repeated /\ unsettled' = unsettled
      BY <1>18, Zenon DEF Report, Goto, store, history
    <2>2. LockHeld'
      BY <2>1 DEF LockHeld, PartType, Live
    <2>3. MovingOn'
      BY <2>1 DEF MovingOn, Settled, PartType
    <2>4. NotYetSettled'
      BY <2>1, Zenon DEF NotYetSettled, Settled, PartType
    <2>5. NamesArePast'
      BY <2>1 DEF NamesArePast, HasParked, PartType, Past
    <2> QED
      BY <2>1, <2>2, <2>3, <2>4, <2>5 DEF RepeatsOnlyIfUnsettled
  <1>19. ASSUME Crash PROVE SettleInv'
    BY <1>19, DeadSettleNothing DEF Crash
  <1>20. ASSUME NEW t \in Turns, Drop(t) PROVE SettleInv'
    <2>1. Die({t}) /\ strays' = strays \cup UnderWay(t) /\ pc[t] \in Live
      BY <1>20 DEF Drop, Live
    <2>2. \A u \in Turns : pc[u] \in Live => u \in {t}
      BY <2>1 DEF LockHeld
    <2>3. \A w \in UnderWay(t) : w = None \/ w.id = t \/ (wait # None /\ w.id = wait.id)
      BY SMTT(30) DEF UnderWay, Marked
    <2> QED
      BY <2>1, <2>2, <2>3, DeadSettleNothing
  <1>21. ASSUME NEW w \in strays, Land(w) PROVE SettleInv'
    <2>1. /\ pc' = pc /\ holder' = holder /\ wait' = w /\ strays' = strays \ {w}
          /\ snap' = snap /\ effected' = effected /\ spent' = spent /\ repeated' = repeated
          /\ unsettled' = unsettled \cup {id \in spent : w # None /\ id = w.id}
      BY <1>21 DEF Land, turnVars
    <2>2. w # None => w.id \notin Settled'
      BY <2>1 DEF Settled
    <2>3. MovingOn'
      BY <2>1, <2>2 DEF MovingOn
    <2>4. NotYetSettled'
      BY <2>1, Zenon DEF NotYetSettled, Settled
    <2> QED
      BY <2>1, <2>3, <2>4 DEF LockHeld, NamesArePast, HasParked, RepeatsOnlyIfUnsettled
  <1>22. ASSUME UNCHANGED vars PROVE SettleInv'
    BY <1>22, Zenon DEF vars, store, turnVars, history, LockHeld, MovingOn, NotYetSettled, Settled,
       NamesArePast, HasParked, RepeatsOnlyIfUnsettled
  <1> QED
    BY <1>1, <1>2, <1>3, <1>4, <1>5, <1>6, <1>7, <1>8, <1>9, <1>10, <1>11, <1>12, <1>13,
       <1>14, <1>15, <1>16, <1>17, <1>18, <1>19, <1>20, <1>21, <1>22 DEF Next, AllDone

(* What follows a parked wait performs its effects in one turn only, for   *)
(* every number of turns, attempts and mishaps, except of a wait whose     *)
(* clear or save was lost or came late, or whose nested flow paused.       *)
THEOREM RepeatsHold == Spec => []RepeatsOnlyIfUnsettled
  <1>1. SettleInv => RepeatsOnlyIfUnsettled
    BY DEF SettleInv
  <1> QED
    BY <1>1, InitEffectInv, NextEffectInv, InitSettleInv, NextSettleInv, PTL DEF Spec
=============================================================================
