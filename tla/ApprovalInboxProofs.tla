------------------------- MODULE ApprovalInboxProofs -------------------------
(***************************************************************************)
(* The approval rail for any number of approvals and conversations: one    *)
(* resume attempt for each approval, and no parked gate without a watcher  *)
(* (ApprovalInbox).                                                        *)
(***************************************************************************)
EXTENDS ApprovalInbox, TLAPS

TypeOK ==
    /\ pending \in SUBSET Ids /\ expired \in SUBSET Ids /\ due \in SUBSET Ids
    /\ current \in Ids \cup {None}
    /\ poller \in {"off", "top", "expiring", "withdrawing", "polling", "fetching", "sleep"}
    /\ turn \in [Convs -> {"idle", "running", "sending", "recorded", "inserted", "registered"}]
    /\ cur \in [Convs -> Ids \cup {None}] /\ parked \in [Convs -> Ids \cup {None}]
    /\ task \in [Ids -> {"none", "spawned", "admitted", "done"}]
    /\ spawned \in [Ids -> {0, 1}] /\ panics \in Nat
    /\ admin \in [Ids -> {"none", "pending", "decided", "withdrawn"}]

\* The poller has the id in its hand to expire it.
Withdrawing(i) == poller = "withdrawing" /\ current = i

\* The inbox, the poller or a resume task has had the id.
Known(i) == i \in pending \/ i \in expired \/ Withdrawing(i) \/ task[i] # "none" \/ spawned[i] # 0

\* There is one poller; it works on one id, and expired ids exist only while
\* it expires them.
PollerHolds ==
    /\ poller # "off" => started = TRUE
    /\ poller \in {"withdrawing", "fetching"} => current \in Ids
    /\ poller \notin {"expiring", "withdrawing"} => expired = {}

\* An id is in one place at a time, and not in any before its resume.
OnePlace ==
    /\ \A i \in pending : spawned[i] = 0 /\ i \notin expired /\ ~Withdrawing(i)
    /\ \A i \in expired : spawned[i] = 0 /\ ~Withdrawing(i)
    /\ \A i \in Ids : Withdrawing(i) => spawned[i] = 0

\* A turn has an id from its dispatch to its end, and no two share one.
TurnIds ==
    /\ \A c \in Convs :
          cur[c] # None <=> turn[c] \in {"sending", "recorded", "inserted", "registered"}
    /\ \A c \in Convs : turn[c] # "idle" => parked[c] = None
    /\ \A c, d \in Convs : c # d =>
          (cur[c] # None => cur[c] # cur[d]) /\ (parked[c] # None => parked[c] # parked[d])
    /\ \A c, d \in Convs : cur[c] # None => cur[c] # parked[d]

\* The admin hears of an id before the inbox does; a turn that still sends it,
\* or has not registered it, is alone with it.
AdminFirst ==
    /\ \A i \in Ids : Known(i) => admin[i] # "none"
    /\ \A c \in Convs : turn[c] \in {"recorded", "inserted", "registered"} => admin[cur[c]] # "none"
    /\ \A c \in Convs : parked[c] # None => admin[parked[c]] # "none"
    /\ \A c \in Convs : turn[c] \in {"sending", "recorded"} => ~Known(cur[c])

IInv == TypeOK /\ PollerHolds /\ OnePlace /\ TurnIds /\ AdminFirst

\* Somebody has the approval, whether or not the poller runs yet.
Tracked(i) ==
    i \in pending \/ i \in expired \/ Withdrawing(i) \/ task[i] \in {"spawned", "admitted"} \/ i \in gaveUp

\* Until shutdown, while the poller has not panicked.
Watching ==
    ~cancelled /\ panics = 0 =>
        /\ resumer = TRUE /\ (started = TRUE => poller # "off")
        /\ \A c \in Convs : turn[c] \in {"inserted", "registered"} => Tracked(cur[c])
        /\ \A c \in Convs : parked[c] # None => Tracked(parked[c])
        /\ \A c \in Convs : turn[c] = "registered" \/ parked[c] # None => poller # "off"

-----------------------------------------------------------------------------

(* Every step of a turn, the poller, a resume task, the admin or shutdown  *)
(* keeps the ids in one place.                                             *)
LEMMA NextIInv == IInv /\ [Next]_vars => IInv'
  <1> SUFFICES ASSUME IInv, [Next]_vars PROVE IInv'
    OBVIOUS
  <1> USE InboxAssumption DEF IInv, TypeOK, PollerHolds, OnePlace, TurnIds, AdminFirst, Known, Withdrawing,
                              inner, polling, turns, tasks, world
  <1>1. ASSUME NEW c \in Convs, BeginTurn(c) PROVE IInv'
    BY <1>1 DEF BeginTurn
  <1>2. ASSUME NEW c \in Convs, FinishTurn(c) PROVE IInv'
    BY <1>2 DEF FinishTurn, SetTurn, EndTurn
  <1>3. ASSUME NEW c \in Convs, NEW i \in Ids, Dispatch(c, i) PROVE IInv'
    BY <1>3 DEF Dispatch, SetTurn, EndTurn, Unused
  <1>4. ASSUME NEW c \in Convs, Send(c) PROVE IInv'
    BY <1>4 DEF Send, SetTurn, EndTurn
  <1>5. ASSUME NEW c \in Convs, Dispatched(c) PROVE IInv'
    BY <1>5 DEF Dispatched, SetTurn
  <1>6. ASSUME NEW c \in Convs, Register(c) PROVE IInv'
    BY <1>6 DEF Register, SetTurn
  <1>7. ASSUME NEW c \in Convs, EnsurePoller(c) PROVE IInv'
    BY <1>7 DEF EnsurePoller, SetTurn
  <1>8. ASSUME NEW c \in Convs, Park(c) PROVE IInv'
    BY <1>8 DEF Park, SetTurn, EndTurn
  <1>9. ASSUME NEW c \in Convs, ParkExpires(c) PROVE IInv'
    BY <1>9 DEF ParkExpires
  <1>10. ASSUME CollectDue PROVE IInv'
    BY <1>10 DEF CollectDue
  <1>11. ASSUME ExpireNext PROVE IInv'
    BY <1>11 DEF ExpireNext
  <1>12. ASSUME Expire PROVE IInv'
    BY <1>12 DEF Expire, SpawnResume
  <1>13. ASSUME PollNext PROVE IInv'
    BY <1>13 DEF PollNext
  <1>14. ASSUME PollPending PROVE IInv'
    BY <1>14 DEF PollPending, PollDone
  <1>15. ASSUME PollGone PROVE IInv'
    BY <1>15 DEF PollGone, PollDone
  <1>16. ASSUME PollDecided PROVE IInv'
    BY <1>16 DEF PollDecided, SpawnResume, PollDone
  <1>17. ASSUME Wake PROVE IInv'
    BY <1>17 DEF Wake
  <1>18. ASSUME PollerExit PROVE IInv'
    BY <1>18 DEF PollerExit
  <1>19. ASSUME PollerPanic PROVE IInv'
    BY <1>19 DEF PollerPanic
  <1>20. ASSUME NEW i \in Ids, ResumeAdmit(i) PROVE IInv'
    BY <1>20 DEF ResumeAdmit
  <1>21. ASSUME NEW i \in Ids, Resume(i) PROVE IInv'
    BY <1>21 DEF Resume, SetTurn
  <1>22. ASSUME NEW i \in Ids, ResumeDropped(i) PROVE IInv'
    BY <1>22 DEF ResumeDropped
  <1>23. ASSUME NEW i \in Ids, Decide(i) PROVE IInv'
    BY <1>23 DEF Decide
  <1>24. ASSUME NEW i \in Ids, DeadlinePasses(i) PROVE IInv'
    BY <1>24 DEF DeadlinePasses
  <1>25. ASSUME ShutdownCancel PROVE IInv'
    BY <1>25 DEF ShutdownCancel
  <1>26. ASSUME ShutdownRelease PROVE IInv'
    BY <1>26 DEF ShutdownRelease
  <1>27. CASE UNCHANGED vars
    BY <1>27 DEF vars
  <1> QED
    BY ZenonT(30), <1>1, <1>2, <1>3, <1>4, <1>5, <1>6, <1>7, <1>8, <1>9, <1>10, <1>11, <1>12, <1>13, <1>14,
       <1>15, <1>16, <1>17, <1>18, <1>19, <1>20, <1>21, <1>22, <1>23, <1>24, <1>25, <1>26, <1>27
    DEF Next, TurnStep, PollerStep, TaskStep

(* "Resumes exactly once", for any number of approvals and conversations:  *)
(* the poller never spawns a second resume task for an approval, however a *)
(* decision, its deadline, a panic and a shutdown race (poller.rs, expire, *)
(* poll_one).                                                              *)
THEOREM OneResumeHolds == Spec => []OneResumeAttempt
  <1>1. Init => IInv
    BY InboxAssumption
    DEF Init, IInv, TypeOK, PollerHolds, OnePlace, TurnIds, AdminFirst, Known, Withdrawing
  <1>2. IInv => OneResumeAttempt
    BY DEF IInv, TypeOK, OneResumeAttempt
  <1> QED
    BY <1>1, <1>2, NextIInv, PTL DEF Spec

-----------------------------------------------------------------------------

(* Every step before shutdown and panic keeps the watch.                   *)
LEMMA NextWatching == IInv /\ Watching /\ [Next]_vars => Watching'
  <1> SUFFICES ASSUME IInv, Watching, [Next]_vars PROVE Watching'
    OBVIOUS
  <1> USE InboxAssumption DEF IInv, TypeOK, PollerHolds, TurnIds, AdminFirst, Watching, Tracked, Known, Withdrawing,
                              inner, polling, turns, tasks, world
  <1>1. ASSUME NEW c \in Convs, BeginTurn(c) PROVE Watching'
    BY <1>1 DEF BeginTurn
  <1>2. ASSUME NEW c \in Convs, FinishTurn(c) PROVE Watching'
    BY <1>2 DEF FinishTurn, SetTurn, EndTurn
  <1>3. ASSUME NEW c \in Convs, NEW i \in Ids, Dispatch(c, i) PROVE Watching'
    BY <1>3 DEF Dispatch, SetTurn, EndTurn, Unused
  <1>4. ASSUME NEW c \in Convs, Send(c) PROVE Watching'
    BY <1>4 DEF Send, SetTurn, EndTurn
  <1>5. ASSUME NEW c \in Convs, Dispatched(c) PROVE Watching'
    BY <1>5 DEF Dispatched, SetTurn
  <1>6. ASSUME NEW c \in Convs, Register(c) PROVE Watching'
    BY <1>6 DEF Register, SetTurn
  <1>7. ASSUME NEW c \in Convs, EnsurePoller(c) PROVE Watching'
    BY <1>7 DEF EnsurePoller, SetTurn
  <1>8. ASSUME NEW c \in Convs, Park(c) PROVE Watching'
    BY <1>8 DEF Park, SetTurn, EndTurn
  <1>9. ASSUME NEW c \in Convs, ParkExpires(c) PROVE Watching'
    BY <1>9 DEF ParkExpires
  <1>10. ASSUME CollectDue PROVE Watching'
    BY <1>10 DEF CollectDue
  <1>11. ASSUME ExpireNext PROVE Watching'
    BY <1>11 DEF ExpireNext
  <1>12. ASSUME Expire PROVE Watching'
    BY <1>12 DEF Expire, SpawnResume
  <1>13. ASSUME PollNext PROVE Watching'
    BY <1>13 DEF PollNext
  <1>14. ASSUME PollPending PROVE Watching'
    BY <1>14 DEF PollPending, PollDone
  <1>15. ASSUME PollGone PROVE Watching'
    BY <1>15 DEF PollGone, PollDone
  <1>16. ASSUME PollDecided PROVE Watching'
    BY <1>16 DEF PollDecided, SpawnResume, PollDone
  <1>17. ASSUME Wake PROVE Watching'
    BY <1>17 DEF Wake
  <1>18. ASSUME PollerExit PROVE Watching'
    BY <1>18 DEF PollerExit
  <1>19. ASSUME PollerPanic PROVE Watching'
    BY <1>19 DEF PollerPanic
  <1>20. ASSUME NEW i \in Ids, ResumeAdmit(i) PROVE Watching'
    BY <1>20 DEF ResumeAdmit
  <1>21. ASSUME NEW i \in Ids, Resume(i) PROVE Watching'
    BY <1>21 DEF Resume, SetTurn
  <1>22. ASSUME NEW i \in Ids, ResumeDropped(i) PROVE Watching'
    BY <1>22 DEF ResumeDropped
  <1>23. ASSUME NEW i \in Ids, Decide(i) PROVE Watching'
    BY <1>23 DEF Decide
  <1>24. ASSUME NEW i \in Ids, DeadlinePasses(i) PROVE Watching'
    BY <1>24 DEF DeadlinePasses
  <1>25. ASSUME ShutdownCancel PROVE Watching'
    BY <1>25 DEF ShutdownCancel
  <1>26. ASSUME ShutdownRelease PROVE Watching'
    BY <1>26 DEF ShutdownRelease
  <1>27. CASE UNCHANGED vars
    BY <1>27 DEF vars
  <1> QED
    BY Zenon, <1>1, <1>2, <1>3, <1>4, <1>5, <1>6, <1>7, <1>8, <1>9, <1>10, <1>11, <1>12, <1>13, <1>14,
       <1>15, <1>16, <1>17, <1>18, <1>19, <1>20, <1>21, <1>22, <1>23, <1>24, <1>25, <1>26, <1>27
    DEF Next, TurnStep, PollerStep, TaskStep

(* "Rather than parking a gate nobody will ever see", for any number of    *)
(* approvals and conversations: until shutdown or a panic of the poller,   *)
(* every parked gate is pending in a running poller, in its hands, or in   *)
(* those of its resume task, unless the wait was given up (register,       *)
(* ensure_poller, collect_due, resume).                                    *)
THEOREM WatchHolds == Spec => []ParkedIsWatched
  <1>1. Init => IInv /\ Watching
    BY InboxAssumption
    DEF Init, IInv, TypeOK, PollerHolds, OnePlace, TurnIds, AdminFirst, Known, Withdrawing, Watching
  <1>2. Watching => ParkedIsWatched
    BY DEF Watching, Tracked, Withdrawing, ParkedIsWatched, Watched
  <1> QED
    BY <1>1, <1>2, NextIInv, NextWatching, PTL DEF Spec
=============================================================================
