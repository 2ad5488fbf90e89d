------------------------ MODULE ComponentCacheProofs ------------------------
(***************************************************************************)
(* The cache manager uses the single-flight lock as it is meant to be      *)
(* used: whatever get_component, warmup, a cancellation or the disk does,  *)
(* the lock sees one of its own steps or none.  So the exclusion of        *)
(* SingleflightProofs holds in the composed system.                        *)
(***************************************************************************)
EXTENDS ComponentCache, SingleflightProofs

Places == {"idle", "read", "load", "fly", "queue", "recheck", "bytes", "compile", "store", "leave"}

\* A call that is under way has the key it asked for.
WantsKey ==
    /\ at \in [Tasks -> Places] /\ want \in [Tasks -> Keys \cup {None}]
    /\ \A t \in Tasks : at[t] # "idle" => want[t] \in Keys

(* A step of a call keeps its key and moves it to one of the places.       *)
LEMMA StepMoves ==
    ASSUME NEW t \in Tasks, TaskStep(t)
    PROVE  /\ want' = want /\ at[t] # "idle"
           /\ at' = at \/ \E p \in Places : at' = [at EXCEPT ![t] = p]
  <1>1. CASE TryRead(t) \/ ReadFails(t) \/ Load(t) \/ LoadFails(t)
    BY <1>1 DEF TryRead, ReadFails, Load, LoadFails, Return, Goto, Onward, Places
  <1>2. CASE Fly(t) \/ Recheck(t) \/ StartCompile(t) \/ Compiled(t)
    BY <1>2, SMTT(30) DEF Fly, Recheck, StartCompile, Compiled, Return, Goto, Places, callVars
  <1>3. CASE WriteFails(t) \/ CompileFails(t) \/ Store(t) \/ Leave(t) \/ Cancel(t)
    BY <1>3 DEF WriteFails, CompileFails, Store, Leave, Cancel, Return, Goto, Places, callVars
  <1> QED
    BY <1>1, <1>2, <1>3, SMTT(30) DEF TaskStep

(* The keys of the calls under way, in every state the cache reaches.      *)
LEMMA WantsKeyAlways == Spec => []WantsKey
  <1>1. Init => WantsKey
    BY DEF Init, WantsKey, Places
  <1>2. WantsKey /\ [Next]_vars => WantsKey'
    <2> SUFFICES ASSUME WantsKey, [Next]_vars PROVE WantsKey'
      OBVIOUS
    <2>1. ASSUME NEW t \in Tasks, TaskStep(t) PROVE WantsKey'
      BY <2>1, StepMoves, SMTT(30) DEF WantsKey
    <2>2. ASSUME NEW t \in Tasks, NEW k \in Keys, GetComponent(t, k) PROVE WantsKey'
      BY <2>2 DEF GetComponent, WantsKey, Places, callVars
    <2>3. ASSUME NEW k \in Keys, StrayWrites(k) \/ Warmup(k) \/ DiskLoses(k) PROVE WantsKey'
      BY <2>3 DEF StrayWrites, Warmup, DiskLoses, Write, WantsKey, callVars
    <2>4. CASE UNCHANGED vars
      BY <2>4 DEF vars, callVars, WantsKey
    <2> QED
      BY <2>1, <2>2, <2>3, <2>4, SMTT(30) DEF Next
  <1> QED
    BY <1>1, <1>2, PTL DEF Spec

(* Every step of the cache is a step of the single-flight lock, or none.   *)
LEMMA CacheStepIsFlightStep == WantsKey /\ [Next]_vars => [FlightNext]_flightVars
  <1> SUFFICES ASSUME WantsKey, [Next]_vars PROVE [FlightNext]_flightVars
    OBVIOUS
  <1>1. ASSUME NEW t \in Tasks, NEW k \in Keys, GetComponent(t, k) PROVE UNCHANGED flightVars
    BY <1>1, SMTT(30) DEF GetComponent
  <1>2. ASSUME NEW t \in Tasks, TaskStep(t) PROVE [FlightNext]_flightVars
    <2>1. CASE TryRead(t) \/ ReadFails(t) \/ Load(t) \/ LoadFails(t)
      BY <2>1 DEF TryRead, ReadFails, Load, LoadFails
    <2>2. CASE Recheck(t) \/ StartCompile(t) \/ Compiled(t)
      BY <2>2, SMTT(30) DEF Recheck, StartCompile, Compiled
    <2>3. CASE WriteFails(t) \/ CompileFails(t) \/ Store(t)
      BY <2>3 DEF WriteFails, CompileFails, Store
    <2>4. CASE Fly(t)
      BY <2>4, <1>2, SMTT(30) DEF Fly, FlightNext, WantsKey
    <2>5. CASE Leave(t)
      BY <2>5, <1>2, SMTT(30) DEF Leave, FlightNext
    <2>6. CASE Cancel(t)
      BY <2>6, <1>2, SMTT(30) DEF Cancel, FlightNext
    <2> QED
      BY <1>2, <2>1, <2>2, <2>3, <2>4, <2>5, <2>6, SMTT(30) DEF TaskStep
  <1>3. ASSUME NEW k \in Keys, StrayWrites(k) \/ Warmup(k) \/ DiskLoses(k) PROVE UNCHANGED flightVars
    BY <1>3 DEF StrayWrites, Warmup, DiskLoses
  <1>4. CASE UNCHANGED vars
    BY <1>4 DEF vars
  <1> QED
    BY <1>1, <1>2, <1>3, <1>4, SMTT(30) DEF Next

(* In the composed cache no two calls compile, or look again, for one key  *)
(* at the same time: CacheManager::get_component under Singleflight.       *)
THEOREM OneFlightPerKey == Spec => []FlightExclusion
  <1>1. Init => FlightInit
    BY DEF Init
  <1>2. Spec => FlightSpec
    BY <1>1, WantsKeyAlways, CacheStepIsFlightStep, PTL DEF Spec, FlightSpec
  <1> QED
    BY <1>2, FlightExclusionHolds, PTL
=============================================================================
