-------------------------- MODULE UEventSensorProofs --------------------------
(***************************************************************************)
(* Proofs about UEventSensor, for every set of callers, every capacity of  *)
(* the pipe and of the socket, every number of calls, and whether or not   *)
(* the runner can start before the derived class is there.                 *)
(***************************************************************************)
EXTENDS UEventSensor, FiniteSetTheorems, TLAPS

USE DEF Lives, DerivedLives, RunnerPcs, CallerPcs, Modes, UEvents, Fds

LEMMA InitInd == Init => IndInv
<1> SUFFICES ASSUME Init PROVE IndInv
  OBVIOUS
<1>1. TypeOK
  <2>1. socket \in Seq(UEvents) /\ Len(socket) <= SockCap
    BY BoundsAssumption DEF Init
  <2>2. callerPc \in [Callers -> CallerPcs]
    BY DEF Init
  <2>3. mStopThread \in BOOLEAN /\ mIsEnabled \in BOOLEAN /\ mWaitPipeFd \in BOOLEAN
    BY Zenon DEF Init
  <2>4. QED
    BY <2>1, <2>2, <2>3, BoundsAssumption DEF Init, TypeOK
<1>2. MutexInv
  BY CallersAssumption DEF Init, MutexInv
<1>3. LifeInv /\ RunnerInv /\ CreditInv
  BY DEF Init, LifeInv, RunnerInv, CreditInv
<1>4. NoLostWakeup /\ NoLostNotify
  BY DEF Init, NoLostWakeup, NoLostNotify
<1>5. QED
  BY <1>1, <1>2, <1>3, <1>4 DEF IndInv

LEMMA NextInd == IndInv /\ [Next]_vars => IndInv'
<1> SUFFICES ASSUME IndInv, [Next]_vars PROVE IndInv'
  OBVIOUS
<1> USE CallersAssumption, BoundsAssumption
<1> USE DEF IndInv, TypeOK, MutexInv, LifeInv, RunnerInv, CreditInv,
            NoLostWakeup, NoLostNotify, Sampling, objectVars, flagVars, callVars
<1>1. CASE EnterDerived
  BY <1>1 DEF EnterDerived
<1>2. CASE FinishConstruction
  <2>1. PICK pipeOk \in BOOLEAN, socketOk \in BOOLEAN :
          /\ mWaitPipeFd' = pipeOk
          /\ mStopThread' = (mStopThread \/ ~pipeOk \/ ~socketOk)
    BY <1>2 DEF FinishConstruction
  <2>2. TypeOK'
    BY <1>2, <2>1 DEF FinishConstruction
  <2>3. (MutexInv /\ LifeInv /\ RunnerInv /\ CreditInv)'
    BY <1>2, <2>1 DEF FinishConstruction
  <2>4. (NoLostWakeup /\ NoLostNotify)'
    BY <1>2 DEF FinishConstruction
  <2>5. QED
    BY <2>2, <2>3, <2>4
<1>3. CASE RunnerStart
  BY <1>3 DEF RunnerStart
<1>4. CASE RunnerRelock
  BY <1>4 DEF RunnerRelock
<1>5. CASE RunExit
  BY <1>5 DEF RunExit, LoopHead
<1>6. CASE RunWait
  BY <1>6 DEF RunWait, LoopHead
<1>7. CASE RunPoll
  BY <1>7 DEF RunPoll, LoopHead
<1>8. CASE RunSample
  BY <1>8 DEF RunSample, LoopHead, Post
<1>9. CASE SpuriousWake
  BY <1>9 DEF SpuriousWake
<1>10. CASE TimedWake
  BY <1>10 DEF TimedWake
<1>11. CASE PollReturns
  <2>1. TypeOK'
    BY <1>11 DEF PollReturns, Readable
  <2>2. RunnerInv'
    BY <1>11 DEF PollReturns, Readable
  <2>3. (MutexInv /\ LifeInv /\ CreditInv /\ NoLostWakeup /\ NoLostNotify)'
    BY <1>11 DEF PollReturns
  <2>4. QED
    BY <2>1, <2>2, <2>3
<1>12. CASE PollFails
  BY <1>12 DEF PollFails
<1>13. CASE HandlePollError
  BY <1>13 DEF HandlePollError, AfterPoll
<1>14. CASE HandleUEvent
  <2>1. socket # <<>> /\ socket' \in Seq(UEvents) /\ Len(socket') <= SockCap
    BY <1>14 DEF HandleUEvent
  <2>2. TypeOK'
    BY <1>14, <2>1 DEF HandleUEvent, AfterPoll
  <2>3. (MutexInv /\ LifeInv /\ RunnerInv /\ CreditInv)'
    BY <1>14 DEF HandleUEvent, AfterPoll
  <2>4. (NoLostWakeup /\ NoLostNotify)'
    BY <1>14 DEF HandleUEvent, AfterPoll
  <2>5. QED
    BY <2>2, <2>3, <2>4
<1>p. CASE PostEvents
  <2>1. credit' \in -1 .. 1 /\ (credit = 1 => credit' = 0)
    BY <1>p DEF PostEvents, Post
  <2>2. (TypeOK /\ MutexInv /\ LifeInv /\ RunnerInv)'
    BY <1>p, <2>1 DEF PostEvents
  <2>3. (CreditInv /\ NoLostWakeup /\ NoLostNotify)'
    BY <1>p, <2>1 DEF PostEvents
  <2>4. QED
    BY <2>2, <2>3
<1>15. CASE HandleWakeup
  BY <1>15 DEF HandleWakeup, AfterPoll
<1>16. ASSUME NEW c \in Callers, ActivateUnchanged(c) PROVE IndInv'
  BY <1>16 DEF ActivateUnchanged, BeginCall
<1>17. ASSUME NEW c \in Callers, Activate(c) PROVE IndInv'
  BY <1>17 DEF Activate, BeginCall
<1>18. ASSUME NEW c \in Callers, ActivateNotify(c) PROVE IndInv'
  BY <1>18 DEF ActivateNotify, InterruptPoll, NotifyAll
<1>19. ASSUME NEW c \in Callers, NEW mode \in Modes, SetOperationMode(c, mode)
       PROVE IndInv'
  BY <1>19 DEF SetOperationMode, BeginCall, NotifyAll
<1>20. ASSUME NEW c \in Callers, ModeInterrupt(c) PROVE IndInv'
  BY <1>20 DEF ModeInterrupt, InterruptPoll
<1>21. ASSUME NEW e \in UEvents, UEventArrives(e) PROVE IndInv'
  BY <1>21 DEF UEventArrives
<1>22. CASE BeginDestroy
  BY <1>22 DEF BeginDestroy
<1>23. CASE DestroyUEvent
  BY <1>23 DEF DestroyUEvent, InterruptPoll
<1>24. CASE DestroySensor
  BY <1>24 DEF DestroySensor, NotifyAll
<1>25. CASE Join
  BY <1>25 DEF Join
<1>26. CASE UNCHANGED vars
  BY <1>26 DEF vars
<1>27. QED
  BY <1>1, <1>2, <1>3, <1>4, <1>5, <1>6, <1>7, <1>8, <1>9, <1>10, <1>11,
     <1>12, <1>13, <1>14, <1>p, <1>15, <1>16, <1>17, <1>18, <1>19, <1>20, <1>21,
     <1>22, <1>23, <1>24, <1>25, <1>26
     DEF Next, Runner, Loop, Handle, Caller, FinishCall, Destroy

\* The mutex, the stages of the object's life, the runner and the credit are what
\* IndInv says in every state, for any number of callers.
THEOREM Inductive == Spec => []IndInv
<1>1. Init => IndInv
  BY InitInd
<1>2. IndInv /\ [Next]_vars => IndInv'
  BY NextInd
<1>3. QED
  BY <1>1, <1>2, PTL DEF Spec

-------------------------------------------------------------------------------
\* Every variable stays in its type; in particular neither the pipe nor the
\* socket ever holds more than it can.
THEOREM TypeCorrect == Spec => []TypeOK
<1>1. IndInv => TypeOK
  BY DEF IndInv
<1>2. QED
  BY <1>1, Inductive, PTL

\* The derived run() never posts twice for one activate(true), for any number
\* of callers: the credit is 1 whenever the sensor is enabled or being polled,
\* and the step that spends it disables the sensor and leaves poll().
THEOREM PostsOncePerActivation == Spec => []OneShot
<1>1. IndInv => OneShot
  BY DEF IndInv, TypeOK, CreditInv, OneShot
<1>2. QED
  BY <1>1, Inductive, PTL

\* No wake-up of the poll is lost, for any number of callers.
THEOREM PollIsWoken == Spec => []NoLostWakeup
<1>1. IndInv => NoLostWakeup
  BY DEF IndInv
<1>2. QED
  BY <1>1, Inductive, PTL

\* No notification of mWaitCV is lost, for any number of callers.
THEOREM WaitIsNotified == Spec => []NoLostNotify
<1>1. IndInv => NoLostNotify
  BY DEF IndInv
<1>2. QED
  BY <1>1, Inductive, PTL

\* A caller blocked on a full pipe stays blocked, for any number of callers:
\* it holds mRunMutex, and only a runner that takes mRunMutex empties the pipe.
\* The flags and the events wait for mRunMutex too.
THEOREM WedgeIsPermanent == Spec => WedgedForever
<1>1. ASSUME IndInv, [Next]_vars, Wedged
      PROVE  Wedged' /\ UNCHANGED <<mIsEnabled, mMode, credit>>
  <2>1. PICK w \in Callers : callerPc[w] = "activateWrite"
    BY <1>1 DEF Wedged
  <2>2. pipe = PipeCap /\ mWaitPipeFd /\ life = "built"
    BY <1>1, <2>1 DEF Wedged, IndInv, LifeInv
  <2>3. mRunMutex = w /\ mRunMutex \notin {"free", "runner"} /\ pc \notin {"check", "posting"}
    BY <1>1, <2>1, CallersAssumption DEF IndInv, MutexInv
  <2>4. callerPc \in [Callers -> CallerPcs] /\ PipeCap \in Nat
    BY <1>1, BoundsAssumption DEF IndInv, TypeOK
  <2>5. CASE UNCHANGED <<mWaitPipeFd, pipe, callerPc, mIsEnabled, mMode, credit>>
    BY <1>1, <2>5 DEF Wedged
  <2>6. CASE EnterDerived \/ FinishConstruction \/ BeginDestroy \/ Destroy
    BY <2>1, <2>2, <2>3, <2>6
       DEF EnterDerived, FinishConstruction, BeginDestroy, Destroy,
           DestroyUEvent, DestroySensor, Join
  <2>7. CASE RunnerRelock \/ Loop \/ Handle
    BY <2>3, <2>7
       DEF RunnerRelock, Loop, RunExit, RunWait, RunPoll, RunSample, LoopHead, Handle,
           HandlePollError, HandleUEvent, PostEvents, HandleWakeup, AfterPoll
  <2>8. CASE RunnerStart \/ TimedWake \/ PollReturns \/ SpuriousWake \/ PollFails
    BY <2>5, <2>8
       DEF RunnerStart, TimedWake, PollReturns, SpuriousWake, PollFails,
           objectVars, callVars, flagVars
  <2>9. ASSUME NEW c \in Callers, Caller(c) PROVE FALSE
    BY <2>1, <2>2, <2>3, <2>4, <2>9, <1>1
       DEF Caller, ActivateUnchanged, Activate, SetOperationMode, BeginCall,
           FinishCall, ActivateNotify, ModeInterrupt, InterruptPoll
  <2>10. CASE UNCHANGED vars \/ \E e \in UEvents : UEventArrives(e)
    BY <2>5, <2>10 DEF UEventArrives, vars, objectVars, callVars, flagVars
  <2>11. QED
    BY <1>1, <2>6, <2>7, <2>8, <2>9, <2>10 DEF Next, Runner
<1>2. IndInv /\ [Next]_vars =>
        [Wedged => Wedged' /\ UNCHANGED <<mIsEnabled, mMode, credit>>]_vars
  BY <1>1
<1>3. QED
  BY <1>2, Inductive, PTL DEF Spec, WedgedForever

-------------------------------------------------------------------------------
(* The bytes in the pipe *)

\* The destructor's byte.
DestructorByte == IF life \in {"unwound", "joining", "gone"} THEN 1 ELSE 0

\* A caller that goes out to write adds one to the writers at most; one that has
\* written is one less.
LEMMA WritersCounted ==
  ASSUME IsFiniteSet(Callers), IndInv, NEW c \in Callers, NEW at \in CallerPcs,
         callerPc' = [callerPc EXCEPT ![c] = at]
  PROVE  /\ Cardinality(Writers) \in Nat /\ Cardinality(Writers') \in Nat
         /\ at # "idle" => Cardinality(Writers') <= Cardinality(Writers) + 1
         /\ at = "idle" /\ callerPc[c] # "idle" =>
              Cardinality(Writers') = Cardinality(Writers) - 1
<1>1. callerPc \in [Callers -> CallerPcs]
  BY DEF IndInv, TypeOK
<1>2. IsFiniteSet(Writers)
  BY FS_Subset DEF Writers
<1>3. CASE at # "idle"
  <2>1. Writers' = Writers \cup {c}
    BY <1>1, <1>3 DEF Writers
  <2>2. /\ Cardinality(Writers) \in Nat
        /\ Cardinality(Writers \cup {c}) =
             IF c \in Writers THEN Cardinality(Writers) ELSE Cardinality(Writers) + 1
    BY <1>2, FS_AddElement, FS_CardinalityType
  <2>3. Cardinality(Writers') = Cardinality(Writers \cup {c})
    BY <2>1
  <2>4. QED
    BY <1>3, <2>2, <2>3
<1>4. CASE at = "idle"
  <2>1. Writers' = Writers \ {c} /\ (c \in Writers <=> callerPc[c] # "idle")
    BY <1>1, <1>4 DEF Writers
  <2>2. /\ Cardinality(Writers) \in Nat /\ Cardinality(Writers \ {c}) \in Nat
        /\ Cardinality(Writers \ {c}) =
             IF c \in Writers THEN Cardinality(Writers) - 1 ELSE Cardinality(Writers)
    BY <1>2, FS_RemoveElement, FS_CardinalityType
  <2>3. Cardinality(Writers') = Cardinality(Writers \ {c})
    BY <2>1
  <2>4. QED
    BY <1>4, <2>1, <2>2, <2>3
<1>5. QED
  BY <1>3, <1>4

LEMMA BytesNext ==
  ASSUME IsFiniteSet(Callers), IndInv, PipeBytesAccounted, [Next]_vars
  PROVE  PipeBytesAccounted'
<1>1. /\ pipe \in Nat /\ pipe' \in Nat /\ calls \in Nat
      /\ DestructorByte \in {0, 1}
  BY NextInd, BoundsAssumption DEF IndInv, TypeOK, DestructorByte
<1>2. /\ IsFiniteSet(Writers) /\ Cardinality(Writers) \in Nat
      /\ pipe + Cardinality(Writers) <= calls + DestructorByte
  BY FS_Subset, FS_CardinalityType DEF Writers, PipeBytesAccounted, DestructorByte
<1>s. SUFFICES pipe' + Cardinality(Writers') <= calls' + DestructorByte'
  BY DEF PipeBytesAccounted, DestructorByte
<1> USE DEF objectVars, callVars, flagVars
<1>3. ASSUME NEW c \in Callers, Activate(c) \/ \E m \in Modes : SetOperationMode(c, m)
      PROVE  pipe' + Cardinality(Writers') <= calls' + DestructorByte'
  <2>1. calls' = calls + 1 /\ pipe' = pipe /\ DestructorByte' = DestructorByte
    BY <1>3 DEF Activate, SetOperationMode, BeginCall, DestructorByte
  <2>2. PICK at \in CallerPcs \ {"idle"} : callerPc' = [callerPc EXCEPT ![c] = at]
    BY <1>3 DEF Activate, SetOperationMode
  <2>3. /\ Cardinality(Writers') \in Nat
        /\ Cardinality(Writers') <= Cardinality(Writers) + 1
    BY <2>2, WritersCounted
  <2>4. QED
    BY <1>1, <1>2, <2>1, <2>3
<1>4. ASSUME NEW c \in Callers, FinishCall(c)
      PROVE  pipe' + Cardinality(Writers') <= calls' + DestructorByte'
  <2>1. /\ calls' = calls /\ DestructorByte' = DestructorByte
        /\ callerPc[c] # "idle" /\ callerPc' = [callerPc EXCEPT ![c] = "idle"]
    BY <1>4 DEF FinishCall, ActivateNotify, ModeInterrupt, DestructorByte
  <2>2. pipe' <= pipe + 1
    BY <1>1, <1>4 DEF FinishCall, ActivateNotify, ModeInterrupt, InterruptPoll
  <2>3. Cardinality(Writers') = Cardinality(Writers) - 1
    BY <2>1, WritersCounted
  <2>4. QED
    BY <1>1, <1>2, <2>1, <2>2, <2>3
<1>5. CASE DestroyUEvent
  <2>1. pipe' <= pipe + 1
    BY <1>1, <1>5 DEF DestroyUEvent, InterruptPoll
  <2>2. /\ DestructorByte = 0 /\ DestructorByte' = 1
        /\ UNCHANGED <<calls, callerPc>>
    BY <1>5 DEF DestroyUEvent, DestructorByte
  <2>3. Writers' = Writers
    BY <2>2 DEF Writers
  <2>4. QED
    BY <1>1, <1>2, <2>1, <2>2, <2>3
<1>6. CASE /\ callerPc' = callerPc
           /\ pipe' <= pipe /\ calls <= calls' /\ DestructorByte <= DestructorByte'
           /\ calls' \in Nat /\ DestructorByte' \in {0, 1}
  <2>1. Writers' = Writers
    BY <1>6 DEF Writers
  <2>2. QED
    BY <1>1, <1>2, <1>6, <2>1
<1>7. CASE HandleWakeup
  <2>1. pipe' <= pipe
    BY <1>1, <1>7 DEF HandleWakeup
  <2>2. UNCHANGED <<life, calls, callerPc>>
    BY <1>7 DEF HandleWakeup, AfterPoll
  <2>3. QED
    BY <1>1, <1>6, <2>1, <2>2 DEF DestructorByte
<1>8. ASSUME NEW c \in Callers, ActivateUnchanged(c)
      PROVE  pipe' + Cardinality(Writers') <= calls' + DestructorByte'
  <2>1. calls' = calls + 1 /\ UNCHANGED <<pipe, callerPc, life>>
    BY <1>8 DEF ActivateUnchanged, BeginCall
  <2>2. QED
    BY <1>1, <1>6, <2>1 DEF DestructorByte
<1>9. CASE EnterDerived \/ FinishConstruction \/ BeginDestroy \/ DestroySensor \/ Join
  <2>1. UNCHANGED <<pipe, calls, callerPc>>
    BY <1>9 DEF EnterDerived, FinishConstruction, BeginDestroy, DestroySensor, Join
  <2>2. DestructorByte <= DestructorByte' /\ DestructorByte' \in {0, 1}
    BY <1>9 DEF EnterDerived, FinishConstruction, BeginDestroy, DestroySensor, Join,
                DestructorByte
  <2>3. QED
    BY <1>1, <1>6, <2>1, <2>2
<1>10. CASE UNCHANGED <<life, pipe, calls, callerPc>>
  BY <1>1, <1>6, <1>10 DEF DestructorByte
<1>11. CASE (Runner /\ ~HandleWakeup) \/ SpuriousWake \/ PollFails
  <2>1. UNCHANGED <<life, pipe, calls, callerPc>>
    BY <1>11 DEF Runner, RunnerStart, RunnerRelock, Loop, RunExit, RunWait, RunPoll,
         RunSample, LoopHead, TimedWake, PollReturns, Handle, HandlePollError,
         HandleUEvent, PostEvents, AfterPoll, SpuriousWake, PollFails
  <2>2. QED
    BY <1>10, <2>1
<1>12. CASE UNCHANGED vars \/ \E e \in UEvents : UEventArrives(e)
  <2>1. UNCHANGED <<life, pipe, calls, callerPc>>
    BY <1>12 DEF vars, UEventArrives
  <2>2. QED
    BY <1>10, <2>1
<1>13. QED
  BY <1>3, <1>4, <1>5, <1>7, <1>8, <1>9, <1>11, <1>12 DEF Next, Caller, Destroy

\* The pipe never holds more bytes than there were calls and the destructor, for
\* any finite set of callers: no call leaves a byte behind that nobody accounts for.
THEOREM BytesAccounted ==
  ASSUME IsFiniteSet(Callers) PROVE Spec => []PipeBytesAccounted
<1>1. Init => PipeBytesAccounted
  <2>1. Init => Writers = {}
    BY DEF Init, Writers
  <2>2. Init => Cardinality(Writers) = 0
    BY <2>1, FS_EmptySet
  <2>3. QED
    BY <2>2 DEF Init, PipeBytesAccounted
<1>2. IndInv /\ PipeBytesAccounted /\ [Next]_vars => PipeBytesAccounted'
  BY BytesNext
<1>3. QED
  BY <1>1, <1>2, Inductive, PTL DEF Spec

\* Within the capacity of the pipe no activate() blocks in write(): a blocked one
\* is a writer that the bytes in the full pipe come on top of.
THEOREM WedgeNeedsFullPipe ==
  ASSUME IsFiniteSet(Callers) PROVE Spec => []WedgeTakesCalls
<1>1. ASSUME IndInv, PipeBytesAccounted, Wedged PROVE calls > PipeCap
  <2>1. PICK w \in Callers : callerPc[w] = "activateWrite"
    BY <1>1 DEF Wedged
  <2>2. life = "built" /\ pipe = PipeCap /\ calls \in Nat /\ PipeCap \in Nat
    BY <1>1, <2>1, BoundsAssumption DEF Wedged, IndInv, LifeInv, TypeOK
  <2>3. IsFiniteSet(Writers) /\ Cardinality(Writers) \in Nat
    BY FS_Subset, FS_CardinalityType DEF Writers
  <2>4. Cardinality(Writers) # 0
    BY <2>1, <2>3, FS_EmptySet DEF Writers
  <2>5. QED
    BY <1>1, <2>2, <2>3, <2>4 DEF PipeBytesAccounted
<1>2. IndInv /\ PipeBytesAccounted => WedgeTakesCalls
  BY <1>1 DEF WedgeTakesCalls
<1>3. QED
  BY <1>2, Inductive, BytesAccounted, PTL

-------------------------------------------------------------------------------
\* Without the vtable race the runner never executes the base class's run().
DerivedRun == runBody # "Sensor"

LEMMA RunsDerived == ASSUME ~VtableRace PROVE Spec => []DerivedRun
<1>1. Init => DerivedRun
  BY DEF Init, DerivedRun
<1>2. DerivedRun /\ [Next]_vars => DerivedRun'
  <2> SUFFICES ASSUME DerivedRun, [Next]_vars PROVE runBody' # "Sensor"
    BY DEF DerivedRun
  <2>1. CASE RunnerStart
    BY <2>1 DEF RunnerStart
  <2>2. CASE ~RunnerStart
    <3>1. runBody' = runBody
      BY <2>2 DEF Next, vars, objectVars, Runner, EnterDerived, FinishConstruction,
         RunnerRelock, Loop, RunExit, RunWait, RunPoll, RunSample, LoopHead,
         TimedWake, PollReturns, SpuriousWake, PollFails, Handle,
         HandlePollError, HandleUEvent, PostEvents, HandleWakeup, AfterPoll, Caller,
         ActivateUnchanged, Activate, SetOperationMode, FinishCall,
         ActivateNotify, ModeInterrupt, UEventArrives, BeginDestroy, Destroy,
         DestroyUEvent, DestroySensor, Join
    <3>2. QED
      BY <3>1 DEF DerivedRun
  <2>3. QED
    BY <2>1, <2>2
<1>3. QED
  BY <1>1, <1>2, PTL DEF Spec

\* Every step is one of the contract's, or changes neither the arming nor the
\* credit. Only four actions touch them.
LEMMA StepImplements ==
  ASSUME IndInv, DerivedRun, [Next]_vars
  PROVE  [Contract!Next]_(Contract!contractVars)
<1> USE DEF Contract!Next, Contract!contractVars
<1>1. ASSUME NEW c \in Callers, Activate(c)
      PROVE  Contract!Arm \/ Contract!Disarm
  BY <1>1 DEF Activate, IndInv, TypeOK, Contract!Arm, Contract!Disarm
<1>2. CASE HandleUEvent
  BY <1>2 DEF HandleUEvent, IndInv, TypeOK, Contract!Disarm
<1>p. CASE PostEvents
  <2>1. credit = 1 /\ mIsEnabled = FALSE
    BY <1>p DEF PostEvents, IndInv, TypeOK, RunnerInv, CreditInv
  <2>2. QED
    BY <1>p, <2>1 DEF PostEvents, Post, Contract!Fire
<1>3. CASE DestroySensor
  BY <1>3 DEF DestroySensor, IndInv, TypeOK, Contract!Disarm
<1>4. CASE RunSample
  BY <1>4 DEF RunSample, DerivedRun
<1>5. ASSUME NEW c \in Callers, Caller(c), ~Activate(c)
      PROVE  UNCHANGED <<mIsEnabled, credit>>
  BY <1>5 DEF Caller, ActivateUnchanged, SetOperationMode, FinishCall,
              ActivateNotify, ModeInterrupt, flagVars
<1>6. CASE Runner /\ ~HandleUEvent /\ ~PostEvents /\ ~RunSample
  BY <1>6 DEF Runner, RunnerStart, RunnerRelock, Loop, RunExit, RunWait, RunPoll,
              LoopHead, TimedWake, PollReturns, Handle, HandlePollError,
              HandleWakeup, flagVars
<1>7. CASE \/ EnterDerived \/ FinishConstruction \/ SpuriousWake \/ PollFails
           \/ BeginDestroy \/ DestroyUEvent \/ Join
           \/ \E e \in UEvents : UEventArrives(e)
  BY <1>7 DEF EnterDerived, FinishConstruction, SpuriousWake, PollFails,
              BeginDestroy, DestroyUEvent, Join, UEventArrives, flagVars
<1>8. CASE UNCHANGED vars
  BY <1>8 DEF vars
<1>9. QED
  BY <1>1, <1>2, <1>p, <1>3, <1>4, <1>5, <1>6, <1>7, <1>8 DEF Next, Destroy

\* The sensor implements the one-shot contract whenever its runner is dispatched
\* to the derived run(): one event per activation, and the event disarms.
THEOREM SensorImplementsContract ==
  ASSUME ~VtableRace PROVE Spec => ImplementsOneShot
<1>1. Init => Contract!Init
  BY DEF Init, Contract!Init
<1>2. IndInv /\ DerivedRun /\ [Next]_vars => [Contract!Next]_(Contract!contractVars)
  BY StepImplements
<1>3. Spec => []DerivedRun
  BY RunsDerived
<1>4. QED
  BY <1>1, <1>2, <1>3, Inductive, PTL DEF Spec, ImplementsOneShot, Contract!Spec
-------------------------------------------------------------------------------
(* The sensor as SensorsSubHal sees it *)

\* Every step is one of SensorThread's, or changes neither a flag nor whether the
\* runner polls or posts. Calls wait for a post because it keeps mRunMutex.
LEMMA StepImplementsThread ==
  ASSUME IndInv, [Next]_vars
  PROVE  [Thread!Next]_(Thread!threadVars)
<1> USE DEF Thread!Next, Thread!threadVars, RunnerAt
<1>1. ASSUME NEW c \in Callers, Caller(c) PROVE [Thread!Next]_(Thread!threadVars)
  <2>1. CASE Activate(c)
    BY <2>1 DEF Activate, BeginCall, IndInv, TypeOK, MutexInv, Thread!Activate
  <2>2. ASSUME NEW m \in Modes, SetOperationMode(c, m) PROVE Thread!SetMode
    <3>1. RunnerAt' = RunnerAt
      BY <2>2 DEF SetOperationMode, NotifyAll
    <3>2. RunnerAt # "tapped"
      BY <2>2 DEF SetOperationMode, BeginCall, IndInv, MutexInv
    <3>3. QED
      BY <2>2, <3>1, <3>2 DEF SetOperationMode, Thread!SetMode
  <2>3. CASE ActivateUnchanged(c) \/ ActivateNotify(c) \/ ModeInterrupt(c)
    BY <2>3 DEF ActivateUnchanged, ActivateNotify, ModeInterrupt, NotifyAll, flagVars
  <2>4. QED
    BY <1>1, <2>1, <2>2, <2>3 DEF Caller, FinishCall
<1>2. CASE HandleUEvent
  BY <1>2 DEF HandleUEvent, AfterPoll, Thread!Tap
<1>3. CASE PostEvents
  BY <1>3 DEF PostEvents, Thread!Posted
<1>4. CASE HandlePollError \/ HandleWakeup
  BY <1>4 DEF HandlePollError, HandleWakeup, AfterPoll, Thread!Wake
<1>5. CASE RunPoll
  BY <1>5 DEF RunPoll, LoopHead, Sampling, Thread!Poll
<1>6. CASE RunnerStart \/ RunnerRelock \/ RunExit \/ RunWait \/ RunSample
  BY <1>6 DEF RunnerStart, RunnerRelock, RunExit, RunWait, RunSample, LoopHead, flagVars
<1>7. CASE TimedWake \/ PollReturns \/ SpuriousWake \/ PollFails
  BY <1>7 DEF TimedWake, PollReturns, SpuriousWake, PollFails, flagVars
<1>8. CASE DestroySensor
  <2>1. RunnerAt' = RunnerAt /\ RunnerAt # "tapped"
    BY <1>8 DEF DestroySensor, NotifyAll, IndInv, MutexInv
  <2>2. QED
    BY <1>8, <2>1 DEF DestroySensor, Thread!Activate
<1>9. CASE \/ EnterDerived \/ FinishConstruction \/ BeginDestroy \/ DestroyUEvent
           \/ Join \/ (\E e \in UEvents : UEventArrives(e)) \/ UNCHANGED vars
  BY <1>9 DEF EnterDerived, FinishConstruction, BeginDestroy, DestroyUEvent, Join,
              UEventArrives, vars, flagVars
<1>10. QED
  BY <1>1, <1>2, <1>3, <1>4, <1>5, <1>6, <1>7, <1>8, <1>9
     DEF Next, Runner, Loop, Handle, Destroy

\* What SensorsSubHal assumes of each sensor holds of this one, for any number of
\* callers and whatever the vtable the runner finds.
THEOREM SensorIsThread == Spec => ImplementsSensorThread
<1>1. Init => Thread!Init
  BY DEF Init, RunnerAt, Thread!Init
<1>2. IndInv /\ [Next]_vars => [Thread!Next]_(Thread!threadVars)
  BY StepImplementsThread
<1>3. QED
  BY <1>1, <1>2, Inductive, PTL DEF Spec, ImplementsSensorThread, Thread!Spec
===============================================================================
