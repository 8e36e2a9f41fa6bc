-------------------------- MODULE SensorsSubHalProofs --------------------------
(***************************************************************************)
(* Proofs about SensorsSubHal, for any number of sensors and of calls: the *)
(* inductive invariant, one lemma per part of it, and what follows.        *)
(***************************************************************************)
EXTENDS SensorsSubHal, TLAPS

USE SubHalAssumption DEF Modes, Posting

LEMMA NatFunctions ==
  /\ [s \in Sensors |-> 0] \in [Sensors -> Nat]
  /\ \A f \in [Sensors -> Nat] : \A s \in Sensors, n \in Nat :
       [f EXCEPT ![s] = n] \in [Sensors -> Nat]
OBVIOUS

LEMMA SubHalInit == Init => SubHalInv
<1>1. Init => TypeOK
  <2> SUFFICES ASSUME Init PROVE TypeOK
    OBVIOUS
  <2>1. pipe \in [Sensors -> Nat] /\ wakelock \in [Sensors -> Nat]
        /\ late \in [Sensors -> Nat]
    BY NatFunctions DEF Init
  <2>2. QED
    BY <2>1 DEF Init, TypeOK
<1>2. Init => WalkInv /\ BarrierInv /\ LateInv /\ PipeInv
  BY DEF Init, WalkInv, BarrierInv, LateInv, PipeInv, Due
<1>3. QED
  BY <1>1, <1>2 DEF SubHalInv

-------------------------------------------------------------------------------
(* Types *)

LEMMA TypeNext == ASSUME TypeOK, WalkInv, [Next]_vars PROVE TypeOK'
<1> USE DEF TypeOK, walkVars, sensorVars, pipeVars, postVars, RunnerGoto
<1>1. CASE Initialize
  <2>1. late' \in [Sensors -> Nat]
    BY <1>1, NatFunctions DEF Initialize, StartWalk
  <2>2. calls' \in 0 .. MaxCalls
    BY <1>1 DEF Initialize, BeginCall
  <2>3. QED
    BY <1>1, <2>1, <2>2 DEF Initialize, StartWalk
<1>2. ASSUME NEW mode \in Modes, SetOperationMode(mode) PROVE TypeOK'
  <2>1. late' \in [Sensors -> Nat]
    BY <1>2, NatFunctions DEF SetOperationMode, StartWalk
  <2>2. calls' \in 0 .. MaxCalls
    BY <1>2 DEF SetOperationMode, BeginCall
  <2>3. QED
    BY <1>2, <2>1, <2>2 DEF SetOperationMode, StartWalk
<1>3. CASE SetNext \/ InterruptNext
  <2>1. CASE SetNext
    <3>1. mMode' \in [Sensors -> Modes]
      BY <2>1 DEF SetNext
    <3>2. QED
      BY <2>1, <3>1 DEF SetNext
  <2>2. CASE InterruptNext
    <3>1. reached + 1 \in Sensors
      BY <2>2 DEF InterruptNext, WalkInv, Sensors
    <3>2. pipe' \in [Sensors -> Nat]
      <4>1. pipe[reached + 1] + 1 \in Nat
        BY <3>1
      <4>2. pipe' = [pipe EXCEPT ![reached + 1] = pipe[reached + 1] + 1]
        BY <2>2 DEF InterruptNext
      <4>3. QED
        BY <3>1, <4>1, <4>2, NatFunctions
    <3>3. reached' \in 0 .. NumSensors /\ step' \in {"mode", "byte"}
      BY <2>2, <3>1 DEF InterruptNext, Sensors
    <3>4. UNCHANGED <<mCallback, mCurrentOperationMode, walk, target, mMode, mIsEnabled,
                      writer, postVars, proxy, calls>>
      BY <2>2 DEF InterruptNext
    <3>5. QED
      BY <3>2, <3>3, <3>4
  <2>3. QED
    BY <1>3, <2>1, <2>2
<1>4. CASE Finish
  BY <1>4 DEF Finish
<1>5. ASSUME NEW s \in Sensors, NEW enabled \in BOOLEAN, Activate(s, enabled)
      PROVE  TypeOK'
  <2>1. /\ mIsEnabled' \in [Sensors -> BOOLEAN]
        /\ writer' \in [Sensors -> BOOLEAN]
        /\ calls' \in 0 .. MaxCalls
    BY <1>5 DEF Activate, BeginCall
  <2>2. QED
    BY <1>5, <2>1 DEF Activate
<1>w. ASSUME NEW s \in Sensors, ActivateWrite(s) PROVE TypeOK'
  <2>1. pipe' \in [Sensors -> Nat] /\ writer' \in [Sensors -> BOOLEAN]
    BY <1>w DEF ActivateWrite
  <2>2. QED
    BY <1>w, <2>1 DEF ActivateWrite
<1>6. ASSUME NEW s \in Sensors, Run(s) PROVE TypeOK'
  <2>1. CASE Poll(s)
    BY <2>1 DEF Poll
  <2>2. CASE Wake(s)
    <3>1. pipe' \in [Sensors -> Nat]
      BY <2>2 DEF Wake
    <3>2. QED
      BY <2>2, <3>1 DEF Wake
  <2>3. CASE Tap(s)
    BY <2>3 DEF Tap
  <2>4. CASE TakeWakelock(s)
    BY <2>4 DEF TakeWakelock
  <2>5. CASE PostEvents(s)
    <3>1. late' = [late EXCEPT ![s] = @ + 1] \/ late' = late
      BY <2>5 DEF PostEvents
    <3>2. late' \in [Sensors -> Nat]
      <4>1. late[s] + 1 \in Nat /\ late \in [Sensors -> Nat]
        OBVIOUS
      <4>2. QED
        BY <3>1, <4>1
    <3>3. QED
      BY <2>5, <3>2 DEF PostEvents
  <2>6. QED
    BY <1>6, <2>1, <2>2, <2>3, <2>4, <2>5 DEF Run
<1>7. CASE UNCHANGED vars
  BY <1>7 DEF vars
<1>8. QED
  BY <1>1, <1>2, <1>3, <1>4, <1>5, <1>w, <1>6, <1>7 DEF Next, Walk

-------------------------------------------------------------------------------
(* The walk *)

\* WalkInv reads nothing of what runners and activate() write.
LEMMA WalkUntouched ==
  ASSUME WalkInv,
         UNCHANGED <<mCallback, mCurrentOperationMode, walkVars, mMode, proxy>>
  PROVE  WalkInv'
BY DEF WalkInv, Set, walkVars

LEMMA WalkNext == ASSUME TypeOK, WalkInv, [Next]_vars PROVE WalkInv'
<1> USE DEF TypeOK, WalkInv, Set
<1>1. CASE Initialize
  BY <1>1 DEF Initialize, BeginCall, StartWalk, sensorVars
<1>2. ASSUME NEW mode \in Modes, SetOperationMode(mode) PROVE WalkInv'
  BY <1>2 DEF SetOperationMode, BeginCall, StartWalk, sensorVars
<1>3. CASE SetNext \/ InterruptNext
  <2>1. CASE SetNext
    BY <2>1 DEF SetNext
  <2>2. CASE InterruptNext
    <3>1. walk # "none" /\ Set' = Set /\ step' = "mode"
      BY <2>2 DEF InterruptNext
    <3>2. QED
      BY <2>2, <3>1 DEF InterruptNext
  <2>3. QED
    BY <1>3, <2>1, <2>2
<1>4. CASE Finish
  BY <1>4 DEF Finish, Sensors, sensorVars, walkVars
<1>5. ASSUME NEW s \in Sensors, NEW enabled \in BOOLEAN, Activate(s, enabled)
      PROVE  WalkInv'
  BY <1>5, WalkUntouched DEF Activate
<1>w. ASSUME NEW s \in Sensors, ActivateWrite(s) PROVE WalkInv'
  BY <1>w, WalkUntouched DEF ActivateWrite
<1>6. ASSUME NEW s \in Sensors, Run(s) PROVE WalkInv'
  BY <1>6, WalkUntouched
     DEF Run, Poll, Wake, Tap, TakeWakelock, PostEvents, sensorVars
<1>7. CASE UNCHANGED vars
  BY <1>7, WalkUntouched DEF vars, sensorVars
<1>8. QED
  BY <1>1, <1>2, <1>3, <1>4, <1>5, <1>w, <1>6, <1>7 DEF Next, Walk

-------------------------------------------------------------------------------
(* The barrier *)

LEMMA BarrierNext ==
  ASSUME TypeOK, WalkInv, BarrierInv, [Next]_vars PROVE BarrierInv'
<1> USE DEF TypeOK, BarrierInv, Set, walkVars, sensorVars, pipeVars, postVars, RunnerGoto
<1>1. CASE Initialize
  BY <1>1 DEF Initialize, BeginCall, StartWalk
<1>2. ASSUME NEW mode \in Modes, SetOperationMode(mode) PROVE BarrierInv'
  BY <1>2 DEF SetOperationMode, BeginCall, StartWalk
<1>3. CASE SetNext \/ InterruptNext
  <2>1. CASE SetNext
    BY <2>1 DEF SetNext, MutexFree
  <2>2. CASE InterruptNext
    BY <2>2 DEF InterruptNext
  <2>3. QED
    BY <1>3, <2>1, <2>2
<1>4. CASE Finish
  BY <1>4 DEF Finish, Sensors
<1>5. ASSUME NEW s \in Sensors, NEW enabled \in BOOLEAN, Activate(s, enabled)
      PROVE  BarrierInv'
  BY <1>5 DEF Activate
<1>w. ASSUME NEW s \in Sensors, ActivateWrite(s) PROVE BarrierInv'
  BY <1>w DEF ActivateWrite
<1>6. ASSUME NEW s \in Sensors, Run(s) PROVE BarrierInv'
  <2>1. CASE Poll(s)
    BY <2>1 DEF Poll
  <2>2. CASE Wake(s)
    BY <2>2 DEF Wake
  <2>3. CASE Tap(s)
    BY <2>3 DEF Tap
  <2>4. CASE TakeWakelock(s)
    BY <2>4 DEF TakeWakelock
  <2>5. CASE PostEvents(s)
    BY <2>5 DEF PostEvents
  <2>6. QED
    BY <1>6, <2>1, <2>2, <2>3, <2>4, <2>5 DEF Run
<1>7. CASE UNCHANGED vars
  BY <1>7 DEF vars
<1>8. QED
  BY <1>1, <1>2, <1>3, <1>4, <1>5, <1>w, <1>6, <1>7 DEF Next, Walk

-------------------------------------------------------------------------------
(* Late events *)

LEMMA LateNext == ASSUME TypeOK, WalkInv, LateInv, [Next]_vars PROVE LateInv'
<1> USE DEF TypeOK, LateInv, walkVars, sensorVars, pipeVars, postVars, RunnerGoto
<1>1. CASE Initialize
  BY <1>1 DEF Initialize, BeginCall, StartWalk
<1>2. ASSUME NEW mode \in Modes, SetOperationMode(mode) PROVE LateInv'
  BY <1>2 DEF SetOperationMode, BeginCall, StartWalk
<1>3. CASE SetNext \/ InterruptNext
  BY <1>3 DEF SetNext, InterruptNext
<1>4. CASE Finish
  BY <1>4 DEF Finish
<1>5. ASSUME NEW s \in Sensors, NEW enabled \in BOOLEAN, Activate(s, enabled)
      PROVE  LateInv'
  BY <1>5 DEF Activate
<1>w. ASSUME NEW s \in Sensors, ActivateWrite(s) PROVE LateInv'
  BY <1>w DEF ActivateWrite
<1>6. ASSUME NEW s \in Sensors, Run(s) PROVE LateInv'
  <2>1. CASE Poll(s)
    <3>1. late[s] # 1
      BY <2>1 DEF Poll, WalkInv
    <3>2. QED
      BY <2>1, <3>1 DEF Poll
  <2>2. CASE Wake(s)
    BY <2>2 DEF Wake
  <2>3. CASE Tap(s)
    BY <2>3 DEF Tap
  <2>4. CASE TakeWakelock(s)
    BY <2>4 DEF TakeWakelock
  <2>5. CASE PostEvents(s)
    <3>1. late[s] = 0
      BY <2>5 DEF PostEvents
    <3>2. \/ Injecting /\ late' = [late EXCEPT ![s] = @ + 1]
          \/ late' = late
      BY <2>5 DEF PostEvents
    <3>3. QED
      BY <2>5, <3>1, <3>2 DEF PostEvents, Injecting
  <2>6. QED
    BY <1>6, <2>1, <2>2, <2>3, <2>4, <2>5 DEF Run
<1>7. CASE UNCHANGED vars
  BY <1>7 DEF vars
<1>8. QED
  BY <1>1, <1>2, <1>3, <1>4, <1>5, <1>w, <1>6, <1>7 DEF Next, Walk

-------------------------------------------------------------------------------
(* Pipes and mutexes *)

LEMMA PipeNext == ASSUME TypeOK, WalkInv, PipeInv, [Next]_vars PROVE PipeInv'
<1> USE DEF TypeOK, PipeInv, Due, walkVars, sensorVars, pipeVars, postVars, RunnerGoto
<1>1. CASE Initialize \/ \E mode \in Modes : SetOperationMode(mode)
  BY <1>1 DEF Initialize, SetOperationMode, BeginCall, StartWalk
<1>2. CASE SetNext \/ Finish
  BY <1>2 DEF SetNext, Finish
<1>3. CASE InterruptNext
  <2>1. walk # "none" /\ reached + 1 \in Sensors /\ \A r \in Sensors : r \in Nat
    BY <1>3 DEF InterruptNext, WalkInv, Sensors
  <2>2. QED
    BY <1>3, <2>1 DEF InterruptNext, HasRoom
<1>4. ASSUME NEW s \in Sensors, NEW enabled \in BOOLEAN, Activate(s, enabled)
      PROVE  PipeInv'
  BY <1>4 DEF Activate, BeginCall, MutexFree
<1>5. ASSUME NEW s \in Sensors, ActivateWrite(s) PROVE PipeInv'
  BY <1>5 DEF ActivateWrite, HasRoom
<1>6. ASSUME NEW s \in Sensors, Run(s) PROVE PipeInv'
  <2>1. CASE Poll(s)
    BY <2>1 DEF Poll
  <2>2. CASE Wake(s)
    BY <2>2 DEF Wake
  <2>3. CASE Tap(s)
    BY <2>3 DEF Tap, MutexFree
  <2>4. CASE TakeWakelock(s)
    BY <2>4 DEF TakeWakelock
  <2>5. CASE PostEvents(s)
    BY <2>5 DEF PostEvents
  <2>6. QED
    BY <1>6, <2>1, <2>2, <2>3, <2>4, <2>5 DEF Run
<1>7. CASE UNCHANGED vars
  BY <1>7 DEF vars
<1>8. QED
  BY <1>1, <1>2, <1>3, <1>4, <1>5, <1>6, <1>7 DEF Next, Walk

-------------------------------------------------------------------------------
(* Each sensor a SensorThread *)

\* A step that leaves the flags and the runner of a sensor, or moves its runner
\* from one statement of postEvents to the next, is a stutter of its thread.
LEMMA OtherSensor ==
  ASSUME NEW s \in Sensors,
         UNCHANGED <<mMode[s], mIsEnabled[s]>>,
         runner'[s] = runner[s] \/ (runner[s] \in Posting /\ runner'[s] \in Posting)
  PROVE  ThreadSteps(s)
BY DEF ThreadSteps, RunnerAt, Thread!threadVars

LEMMA SensorSteps ==
  ASSUME TypeOK, NEW s \in Sensors, [Next]_vars PROVE ThreadSteps(s)
<1> USE DEF TypeOK, walkVars, sensorVars, pipeVars, postVars, RunnerGoto
<1>1. CASE Initialize
  BY <1>1, OtherSensor DEF Initialize
<1>2. ASSUME NEW mode \in Modes, SetOperationMode(mode) PROVE ThreadSteps(s)
  BY <1>2, OtherSensor DEF SetOperationMode
<1>3. CASE SetNext
  <2>1. CASE s = reached + 1
    <3>1. Thread(s)!SetMode
      BY <1>3, <2>1 DEF SetNext, MutexFree, RunnerAt, Thread!SetMode
    <3>2. QED
      BY <3>1 DEF ThreadSteps, Thread!Next
  <2>2. CASE s # reached + 1
    BY <1>3, <2>2, OtherSensor DEF SetNext
  <2>3. QED
    BY <2>1, <2>2
<1>i. CASE InterruptNext
  BY <1>i, OtherSensor DEF InterruptNext
<1>4. CASE Finish
  BY <1>4, OtherSensor DEF Finish
<1>5. ASSUME NEW r \in Sensors, NEW enabled \in BOOLEAN, Activate(r, enabled)
      PROVE  ThreadSteps(s)
  <2>1. CASE s = r
    <3>1. Thread(s)!Activate
      BY <1>5, <2>1 DEF Activate, MutexFree, RunnerAt, Thread!Activate
    <3>2. QED
      BY <3>1 DEF ThreadSteps, Thread!Next
  <2>2. CASE s # r
    BY <1>5, <2>2, OtherSensor DEF Activate
  <2>3. QED
    BY <2>1, <2>2
<1>w. ASSUME NEW r \in Sensors, ActivateWrite(r) PROVE ThreadSteps(s)
  BY <1>w, OtherSensor DEF ActivateWrite
<1>6. ASSUME NEW r \in Sensors, Run(r) PROVE ThreadSteps(s)
  <2>1. CASE s # r
    BY <1>6, <2>1, OtherSensor
       DEF Run, Poll, Wake, Tap, TakeWakelock, PostEvents
  <2>2. CASE s = r
    <3>1. CASE Poll(s)
      <4>1. Thread(s)!Poll
        BY <3>1 DEF Poll, RunnerAt, Thread!Poll
      <4>2. QED
        BY <4>1 DEF ThreadSteps, Thread!Next
    <3>2. CASE Wake(s)
      <4>1. Thread(s)!Wake
        BY <3>2 DEF Wake, RunnerAt, Thread!Wake
      <4>2. QED
        BY <4>1 DEF ThreadSteps, Thread!Next
    <3>3. CASE Tap(s)
      <4>1. Thread(s)!Tap
        BY <3>3 DEF Tap, RunnerAt, Thread!Tap
      <4>2. QED
        BY <4>1 DEF ThreadSteps, Thread!Next
    <3>4. CASE TakeWakelock(s)
      BY <3>4, OtherSensor DEF TakeWakelock
    <3>5. CASE PostEvents(s)
      <4>1. Thread(s)!Posted
        BY <3>5 DEF PostEvents, RunnerAt, Thread!Posted
      <4>2. QED
        BY <4>1 DEF ThreadSteps, Thread!Next
    <3>6. QED
      BY <1>6, <2>2, <3>1, <3>2, <3>3, <3>4, <3>5 DEF Run
  <2>3. QED
    BY <2>1, <2>2
<1>7. CASE UNCHANGED vars
  BY <1>7, OtherSensor DEF vars
<1>8. QED
  BY <1>1, <1>2, <1>3, <1>i, <1>4, <1>5, <1>w, <1>6, <1>7 DEF Next, Walk

-------------------------------------------------------------------------------
(* The theorems *)

\* The walk, the barrier and the late events are what SubHalInv says in every
\* state.
THEOREM SubHalInductive == Spec => []SubHalInv
<1>1. SubHalInv /\ [Next]_vars => SubHalInv'
  <2> SUFFICES ASSUME SubHalInv, [Next]_vars PROVE SubHalInv'
    OBVIOUS
  <2>1. TypeOK'
    BY TypeNext DEF SubHalInv
  <2>2. QED
    BY <2>1, WalkNext, BarrierNext, LateNext, PipeNext DEF SubHalInv
<1>2. QED
  BY <1>1, SubHalInit, PTL DEF Spec

\* Between the calls that set it, the sensors agree on their mode.
THEOREM ModesAlwaysAgree == Spec => []ModesAgree
<1>1. SubHalInv => ModesAgree
  BY DEF SubHalInv, WalkInv, ModesAgree
<1>2. QED
  BY <1>1, SubHalInductive, PTL

\* A post finds a callback, and when initialize() has returned none goes on with the
\* last callback's wakelock.
THEOREM InitializeWaitsForPosts == Spec => []PostsUseCallback
<1>1. SubHalInv => PostsUseCallback
  BY DEF SubHalInv, BarrierInv, WalkInv, PostsUseCallback
<1>2. QED
  BY <1>1, SubHalInductive, PTL

\* At most one tap is reported after DATA_INJECTION is set.
THEOREM InjectionIsSilent == Spec => []InjectionSilences
<1>1. SubHalInv => InjectionSilences
  BY DEF SubHalInv, LateInv, InjectionSilences
<1>2. QED
  BY <1>1, SubHalInductive, PTL

\* What each sensor does in the sub-HAL is what a SensorThread may do.
THEOREM SensorsBehave == Spec => SensorsAreThreads
<1>1. Init => \A s \in Sensors : Thread(s)!Init
  BY DEF Init, RunnerAt, Thread!Init
<1>2. SubHalInv /\ [Next]_vars => [\A s \in Sensors : ThreadSteps(s)]_vars
  BY SensorSteps DEF SubHalInv
<1>3. QED
  BY <1>1, <1>2, SubHalInductive, PTL DEF Spec, SensorsAreThreads

-------------------------------------------------------------------------------
(* A blocked activate() *)

LEMMA BlockedStep ==
  ASSUME SubHalInv, [Next]_vars, NEW s \in Sensors, Blocked(s)
  PROVE  /\ Blocked(s)'
         /\ walk # "none" /\ reached < s => walk' = walk /\ reached' < s
<1> USE DEF SubHalInv, TypeOK, Blocked, HasRoom, walkVars, sensorVars, pipeVars
<1>1. CASE Initialize \/ \E mode \in Modes : SetOperationMode(mode)
  BY <1>1 DEF Initialize, SetOperationMode, StartWalk
<1>2. CASE SetNext
  BY <1>2 DEF SetNext
<1>3. CASE InterruptNext
  <2>1. reached + 1 # s
    BY <1>3 DEF InterruptNext
  <2>2. /\ UNCHANGED <<walk, writer>> /\ pipe'[s] = pipe[s]
        /\ reached' = reached + 1 /\ s \in Nat /\ reached \in Nat
    BY <1>3, <2>1 DEF InterruptNext, Sensors
  <2>3. reached < s => reached' < s
    BY <2>1, <2>2
  <2>4. Blocked(s)'
    BY <2>2
  <2>5. walk # "none" /\ reached < s => walk' = walk /\ reached' < s
    BY <2>2, <2>3
  <2>6. QED
    BY <2>4, <2>5
<1>4. CASE Finish
  BY <1>4 DEF Finish, Sensors
<1>5. ASSUME NEW r \in Sensors, NEW enabled \in BOOLEAN, Activate(r, enabled)
      PROVE  r # s /\ UNCHANGED <<walkVars, pipe>> /\ writer'[s]
  BY <1>5 DEF Activate, MutexFree
<1>6. ASSUME NEW r \in Sensors, ActivateWrite(r)
      PROVE  r # s /\ UNCHANGED walkVars /\ pipe'[s] = pipe[s] /\ writer'[s]
  BY <1>6 DEF ActivateWrite
<1>7. ASSUME NEW r \in Sensors, Run(r)
      PROVE  UNCHANGED <<walkVars, writer>> /\ pipe'[s] = pipe[s]
  <2>1. CASE Wake(r)
    BY <2>1 DEF Wake, MutexFree
  <2>2. CASE Poll(r) \/ Tap(r) \/ TakeWakelock(r) \/ PostEvents(r)
    BY <2>2 DEF Poll, Tap, TakeWakelock, PostEvents
  <2>3. QED
    BY <1>7, <2>1, <2>2 DEF Run
<1>8. CASE UNCHANGED vars
  BY <1>8 DEF vars
<1>9. QED
  BY <1>1, <1>2, <1>3, <1>4, <1>5, <1>6, <1>7, <1>8 DEF Next, Walk

\* An activate() blocked by a full pipe stays so, and no walk gets past its sensor:
\* for any number of sensors, calls and bytes.
THEOREM BlockedSensorStopsSubHal == Spec => BlockedStopsWalk
<1>1. SubHalInv /\ [Next]_vars =>
        [\A s \in Sensors :
           Blocked(s) =>
             /\ Blocked(s)'
             /\ walk # "none" /\ reached < s => walk' = walk /\ reached' < s]_vars
  BY BlockedStep
<1>2. QED
  BY <1>1, SubHalInductive, PTL DEF Spec, BlockedStopsWalk

\* While no more calls were made than a pipe has room for bytes, no write blocks.
THEOREM WritesHaveRoom ==
  Spec => [](calls <= PipeCap =>
               /\ \A s \in Sensors : writer[s] => HasRoom(s)
               /\ step = "byte" => HasRoom(reached + 1))
<1>1. SubHalInv => (calls <= PipeCap =>
                      /\ \A s \in Sensors : writer[s] => HasRoom(s)
                      /\ step = "byte" => HasRoom(reached + 1))
  <2> SUFFICES ASSUME SubHalInv, calls <= PipeCap
               PROVE  /\ \A s \in Sensors : writer[s] => HasRoom(s)
                      /\ step = "byte" => HasRoom(reached + 1)
    OBVIOUS
  <2> USE DEF SubHalInv, TypeOK, PipeInv, Due, HasRoom
  <2>1. ASSUME NEW s \in Sensors, writer[s] PROVE HasRoom(s)
    BY <2>1
  <2>2. ASSUME step = "byte" PROVE HasRoom(reached + 1)
    <3>1. reached + 1 \in Sensors /\ reached + 1 > reached /\ walk # "none"
      BY <2>2 DEF WalkInv, Sensors
    <3>2. QED
      BY <3>1
  <2>3. QED
    BY <2>1, <2>2
<1>2. QED
  BY <1>1, SubHalInductive, PTL
===============================================================================
