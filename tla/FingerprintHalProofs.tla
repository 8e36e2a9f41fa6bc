------------------------- MODULE FingerprintHalProofs -------------------------
(***************************************************************************)
(* Proofs about FingerprintHal, for any number of sessions, any set of     *)
(* users and any number of templates, however and whenever the client dies.*)
(***************************************************************************)
EXTENDS FingerprintHal, TLAPS

USE HalAssumption DEF Sessions, Creating

-------------------------------------------------------------------------------
(* The invariant of sessions, links and the engine's weak pointer *)

LEMMA HalInit == Init => HalInv
BY DEF Init, HalInv, TypeOK, SessionTypeOK, NotifyTypeOK, LinkInv, ServedInv, AskInv

LEMMA NotifyTypeNext == ASSUME NotifyTypeOK, [Next]_vars PROVE NotifyTypeOK'
<1> USE DEF NotifyTypeOK, notifyVars, askVars
<1>1. CASE UNCHANGED <<notifyVars, callbackThread>>
  BY <1>1
<1>2. CASE FinishClose \/ Answer \/ StartOperation
  BY <1>2 DEF FinishClose, Answer, StartOperation, CallBack
<1>3. CASE EnumerateEnrollments \/ Cancel
  BY <1>3 DEF EnumerateEnrollments, Cancel, CallBack
<1>4. ASSUME NEW m \in 0 .. Templates, NotifyLock(m) \/ NotifyDropped(m)
      PROVE  NotifyTypeOK'
  BY <1>4 DEF NotifyLock, NotifyDropped, NextMessage
<1>5. CASE NotifyResult
  BY <1>5 DEF NotifyResult, NotifyUnlock
<1>6. CASE NotifyEnumerating
  <2>1. <<>> \in Seq(1 .. Templates) /\ Append(enrollments, msg) \in Seq(1 .. Templates)
    BY <1>6 DEF NotifyEnumerating
  <2>2. enrollments' \in Seq(1 .. Templates) /\ report' \in Seq(1 .. Templates)
    <3>1. \/ report' = Append(enrollments, msg) /\ enrollments' = <<>>
          \/ report' = report /\ enrollments' = Append(enrollments, msg)
      BY <1>6 DEF NotifyEnumerating
    <3>2. QED
      BY <2>1, <3>1
  <2>3. callbackThread' \in {"none", "binder", "vendor"}
    BY <1>6 DEF NotifyEnumerating
  <2>4. QED
    BY <1>6, <2>2, <2>3 DEF NotifyEnumerating, NotifyUnlock
<1>7. QED
  BY <1>1, <1>2, <1>3, <1>4, <1>5, <1>6
     DEF Next, Binder, Notify, CreateSession, SetSession, SetActiveGroup,
         LinkToDeath, OnClientDeath, Close, ClientDies, ClientRestarts, Release, vars

LEMMA SessionTypeNext ==
  ASSUME SessionTypeOK, ServedInv, [Next]_vars PROVE SessionTypeOK'
<1> USE DEF SessionTypeOK, engineVars, deathVars, clientVars, notifyVars, askVars
<1>1. ASSUME NEW u \in Users, CreateSession(u) PROVE SessionTypeOK'
  BY <1>1 DEF CreateSession
<1>2. CASE SetSession
  BY <1>2 DEF SetSession
<1>3. CASE SetActiveGroup
  BY <1>3 DEF SetActiveGroup, ServedInv
<1>4. CASE LinkToDeath
  <2>1. mSession \in 1 .. mSession
    BY <1>4 DEF LinkToDeath, ServedInv
  <2>2. /\ linked' = linked \cup {mSession}
        /\ clientSession' \in {clientSession, mSession}
        /\ held' \in {held, held \cup {mSession}}
        /\ notices' \in {notices, notices \cup {mSession}}
    BY <1>4 DEF LinkToDeath
  <2>3. UNCHANGED <<mSession, weak, mUserId, userOf, mClosed, client, notifying, askVars>>
    BY <1>4 DEF LinkToDeath
  <2>4. pc' = "idle"
    BY <1>4 DEF LinkToDeath
  <2>5. /\ linked' \in SUBSET (1 .. mSession) /\ held' \in SUBSET (1 .. mSession)
        /\ clientSession' \in 0 .. mSession
        /\ notices' \in SUBSET linked'
    BY <2>1, <2>2
  <2>6. QED
    BY <2>3, <2>4, <2>5
<1>5. CASE Close
  BY <1>5 DEF Close
<1>6. CASE FinishClose
  BY <1>6 DEF FinishClose
<1>7. ASSUME NEW s \in Sessions, OnClientDeath(s) PROVE SessionTypeOK'
  <2>1. /\ mClosed' \in SUBSET (1 .. mSession)
        /\ pc' \in {"idle", "closing"}
        /\ notices' \in SUBSET linked
    BY <1>7 DEF OnClientDeath
  <2>2. UNCHANGED <<mSession, weak, mUserId, userOf, linked, client, clientSession,
                    held, notifying, askVars>>
    BY <1>7 DEF OnClientDeath
  <2>3. QED
    BY <2>1, <2>2
<1>8. CASE Answer \/ Cancel \/ StartOperation \/ EnumerateEnrollments
  <2>1. CASE Answer \/ Cancel
    BY <2>1 DEF Answer, Cancel
  <2>2. CASE StartOperation \/ EnumerateEnrollments
    <3>1. askers' = askers \cup {clientSession} /\ clientSession \in 1 .. mSession
      BY <2>2 DEF StartOperation, EnumerateEnrollments, Request
    <3>2. QED
      BY <2>2, <3>1 DEF StartOperation, EnumerateEnrollments
  <2>3. QED
    BY <1>8, <2>1, <2>2
<1>9. ASSUME NEW m \in 0 .. Templates, NotifyLock(m) \/ NotifyDropped(m)
      PROVE  SessionTypeOK'
  <2>1. notifying' \in {notifying, weak} /\ asker' \in askers \cup {0, asker}
    <3>1. CASE NotifyLock(m)
      BY <3>1 DEF NotifyLock
    <3>2. CASE NotifyDropped(m)
      BY <3>2 DEF NotifyDropped
    <3>3. QED
      BY <1>9, <3>1, <3>2
  <2>2. UNCHANGED <<mSession, engineVars, mClosed, deathVars, pc, clientVars, askers>>
    BY <1>9 DEF NotifyLock, NotifyDropped
  <2>3. QED
    BY <2>1, <2>2
<1>10. CASE NotifyResult \/ NotifyEnumerating
  <2>1. NotifyUnlock
    BY <1>10 DEF NotifyResult, NotifyEnumerating
  <2>2. QED
    BY <2>1 DEF NotifyUnlock
<1>11. CASE ClientDies
  BY <1>11 DEF ClientDies
<1>12. CASE ClientRestarts
  BY <1>12 DEF ClientRestarts
<1>13. ASSUME NEW s \in Sessions, Release(s) PROVE SessionTypeOK'
  BY <1>13 DEF Release
<1>14. CASE UNCHANGED vars
  BY <1>14 DEF vars
<1>15. QED
  BY <1>1, <1>2, <1>3, <1>4, <1>5, <1>6, <1>7, <1>8, <1>9, <1>10, <1>11, <1>12,
     <1>13, <1>14 DEF Next, Binder, Notify

LEMMA AskNext == ASSUME HalInv, [Next]_vars, TypeOK' PROVE AskInv'
<1> USE DEF HalInv, AskInv, TypeOK, SessionTypeOK, engineVars, notifyVars, askVars
<1>1. CASE UNCHANGED <<weak, askVars, notifying>>
  BY <1>1
<1>2. CASE SetSession
  BY <1>2 DEF SetSession
<1>3. CASE StartOperation \/ EnumerateEnrollments
  <2>1. askers' = askers \cup {clientSession} /\ clientSession <= weak
    BY <1>3 DEF StartOperation, EnumerateEnrollments, Request, Call, ServedInv
  <2>2. UNCHANGED <<weak, asker, notifying>>
    BY <1>3 DEF StartOperation, EnumerateEnrollments
  <2>3. QED
    BY <2>1, <2>2
<1>4. ASSUME NEW m \in 0 .. Templates, NotifyLock(m) PROVE AskInv'
  BY <1>4 DEF NotifyLock
<1>5. CASE NotifyResult \/ NotifyEnumerating
  BY <1>5 DEF NotifyResult, NotifyEnumerating, NotifyUnlock
<1>6. QED
  <2>1. \/ UNCHANGED <<weak, askVars, notifying>> \/ SetSession \/ StartOperation
        \/ EnumerateEnrollments \/ NotifyResult \/ NotifyEnumerating
        \/ \E m \in 0 .. Templates : NotifyLock(m)
    BY DEF Next, Binder, Notify, CreateSession, SetActiveGroup, LinkToDeath,
           FinishClose, OnClientDeath, Close, Answer, Cancel, NotifyDropped, ClientDies,
           ClientRestarts, Release, vars
  <2>2. QED
    BY <2>1, <1>1, <1>2, <1>3, <1>4, <1>5

LEMMA HalNext == HalInv /\ [Next]_vars => HalInv'
<1> SUFFICES ASSUME HalInv, [Next]_vars PROVE HalInv'
  OBVIOUS
<1>t. TypeOK' /\ AskInv'
  <2>1. TypeOK'
    BY NotifyTypeNext, SessionTypeNext DEF HalInv, TypeOK
  <2>2. QED
    BY <2>1, AskNext
<1>s. SUFFICES LinkInv' /\ ServedInv'
  BY <1>t DEF HalInv
<1> USE DEF LinkInv, ServedInv, engineVars, deathVars, clientVars
<1>h. TypeOK /\ SessionTypeOK /\ LinkInv /\ ServedInv
  BY DEF HalInv, TypeOK
<1> USE DEF SessionTypeOK
<1>1. ASSUME NEW u \in Users, CreateSession(u) PROVE LinkInv' /\ ServedInv'
  <2>1. CASE mSession \in mClosed \cup {0}
    <3>1. linked = {} /\ mSession' = mSession + 1 /\ mSession' \notin mClosed
      BY <1>h, <1>1, <2>1 DEF CreateSession, Call
    <3>2. LinkInv'
      BY <1>h, <1>1, <2>1, <3>1 DEF CreateSession, Call
    <3>3. ServedInv'
      BY <1>h, <1>1, <2>1, <3>1 DEF CreateSession, Call
    <3>4. QED
      BY <3>2, <3>3
  <2>2. CASE mSession \notin mClosed \cup {0}
    BY <1>h, <1>1, <2>2 DEF CreateSession, Call
  <2>3. QED
    BY <2>1, <2>2
<1>2. CASE SetSession \/ SetActiveGroup
  BY <1>h, <1>2 DEF SetSession, SetActiveGroup
<1>3. CASE LinkToDeath
  <2>1. LinkInv'
    BY <1>h, <1>3 DEF LinkToDeath
  <2>2. ServedInv'
    BY <1>h, <1>3 DEF LinkToDeath
  <2>3. QED
    BY <2>1, <2>2
<1>4. CASE Close
  BY <1>h, <1>4 DEF Close, Call
<1>5. CASE FinishClose
  BY <1>h, <1>5 DEF FinishClose
<1>6. ASSUME NEW s \in Sessions, OnClientDeath(s) PROVE LinkInv' /\ ServedInv'
  <2>1. s = mSession /\ clientSession = 0
    BY <1>h, <1>6 DEF OnClientDeath
  <2>2. QED
    BY <1>h, <1>6, <2>1 DEF OnClientDeath
<1>7. CASE ClientDies \/ ClientRestarts
  BY <1>h, <1>7 DEF ClientDies, ClientRestarts
<1>8. CASE UNCHANGED <<mSession, engineVars, mClosed, deathVars, pc, client, clientSession>>
  BY <1>h, <1>8
<1>9. ASSUME NEW m \in 0 .. Templates, NotifyLock(m) \/ NotifyDropped(m)
      PROVE  LinkInv' /\ ServedInv'
  BY <1>8, <1>9 DEF NotifyLock, NotifyDropped
<1>10. CASE \/ Answer \/ StartOperation \/ EnumerateEnrollments \/ Cancel \/ NotifyResult
            \/ NotifyEnumerating \/ (\E s \in Sessions : Release(s)) \/ UNCHANGED vars
  BY <1>8, <1>10
     DEF Answer, StartOperation, EnumerateEnrollments, Cancel, NotifyResult,
         NotifyEnumerating, NotifyUnlock, Release, vars
<1>11. QED
  BY <1>1, <1>2, <1>3, <1>4, <1>5, <1>6, <1>7, <1>9, <1>10 DEF Next, Binder, Notify

\* Types, links and the weak pointer are what HalInv says in every state.
THEOREM HalInductive == Spec => []HalInv
BY HalInit, HalNext, PTL DEF Spec

\* A linked death recipient points to a session that exists.
THEOREM CookiesLive == Spec => []CookieLives
<1>1. HalInv => CookieLives
  BY DEF HalInv, TypeOK, SessionTypeOK, LinkInv, CookieLives, Alive
<1>2. QED
  BY <1>1, HalInductive, PTL

\* The open session is found by notify() and its user's group is active.
THEOREM OpenSessionIsServed == Spec => []OpenIsServed
<1>1. HalInv => OpenIsServed
  <2> SUFFICES ASSUME HalInv, clientSession # 0 PROVE OpenIsServed
    BY DEF OpenIsServed
  <2>1. clientSession = mSession /\ pc \notin Creating
    BY DEF HalInv, TypeOK, SessionTypeOK, ServedInv
  <2>2. QED
    BY <2>1 DEF HalInv, ServedInv, OpenIsServed, Alive
<1>2. QED
  BY <1>1, HalInductive, PTL

\* notify() gives no result to a session other than the one it is for while that
\* one is open: whoever has asked before is closed when the engine moves on.
THEOREM ResultsMeetSessions == Spec => []ResultsMeetTheirSession
<1>1. HalInv => ResultsMeetTheirSession
  <2> SUFFICES ASSUME HalInv, notifying # 0, asker \notin {0, notifying}
               PROVE  asker < notifying /\ asker \in mClosed
    BY DEF ResultsMeetTheirSession
  <2>1. asker < notifying /\ asker \in 1 .. mSession /\ asker # mSession
    BY DEF HalInv, TypeOK, SessionTypeOK, AskInv
  <2>2. QED
    BY <2>1 DEF HalInv, LinkInv
<1>2. QED
  BY <1>1, HalInductive, PTL

-------------------------------------------------------------------------------
(* Enumerations *)

\* The messages of an enumeration that notify() is done with.
Handled ==
  IF msg # 0 THEN msg - 1 ELSE IF left = 0 THEN 0 ELSE Templates - left

UpTo(n) == [k \in 1 .. n |-> k]

\* As long as no message was lost the vector holds the handled ones in order.
EnumInv ==
  /\ notifying = 0 => msg = 0
  /\ enumeration = "whole" =>
       /\ report \in {<<>>, UpTo(Templates)}
       /\ msg # 0 => left = Templates - msg
       /\ enrollments = UpTo(Handled)

LEMMA UpToSeq ==
  ASSUME NEW n \in Nat
  PROVE  UpTo(0) = <<>> /\ Len(UpTo(n)) = n /\ Append(UpTo(n), n + 1) = UpTo(n + 1)
<1>1. UpTo(n) \in Seq(Nat) /\ UpTo(n + 1) \in Seq(Nat)
  BY DEF UpTo
<1>2. Len(UpTo(n)) = n /\ Len(UpTo(n + 1)) = n + 1
  BY DEF UpTo
<1>3. Append(UpTo(n), n + 1) \in Seq(Nat) /\ Len(Append(UpTo(n), n + 1)) = n + 1
  BY <1>1, <1>2
<1>4. ASSUME NEW k \in 1 .. n + 1 PROVE Append(UpTo(n), n + 1)[k] = UpTo(n + 1)[k]
  BY <1>1, <1>2 DEF UpTo
<1>5. Append(UpTo(n), n + 1) = UpTo(n + 1)
  BY <1>1, <1>2, <1>3, <1>4
<1>6. UpTo(0) = <<>>
  BY DEF UpTo
<1>7. QED
  BY <1>2, <1>5, <1>6

LEMMA EnumNext == ASSUME NotifyTypeOK, EnumInv, [Next]_vars PROVE EnumInv'
<1> USE DEF EnumInv, Handled, NotifyTypeOK
<1>1. CASE UNCHANGED <<notifying, msg, left, enrollments, report, enumeration>>
  BY <1>1
<1>2. CASE EnumerateEnrollments
  BY <1>2 DEF EnumerateEnrollments
<1>3. CASE Cancel
  <2>1. UNCHANGED <<notifying, msg, enrollments, report>>
    BY <1>3 DEF Cancel
  <2>2. UNCHANGED <<left, enumeration>> \/ enumeration' = "cut"
    BY <1>3 DEF Cancel
  <2>3. QED
    BY <2>1, <2>2
<1>4. ASSUME NEW m \in 0 .. Templates, NotifyLock(m) PROVE EnumInv'
  <2>1. /\ msg = 0 /\ msg' = m /\ notifying' # 0
        /\ UNCHANGED <<enrollments, report, enumeration>>
    BY <1>4 DEF NotifyLock, Alive
  <2>2. CASE m = 0
    BY <1>4, <2>1, <2>2 DEF NotifyLock, NextMessage
  <2>3. CASE m # 0
    <3>1. left > 0 /\ m = Templates - left + 1 /\ left' = left - 1
      BY <1>4, <2>3 DEF NotifyLock, NextMessage
    <3>2. Handled' = Handled /\ left' = Templates - m
      BY <1>4, <2>1, <2>3, <3>1
    <3>3. QED
      BY <2>1, <3>2
  <2>4. QED
    BY <2>2, <2>3
<1>5. ASSUME NEW m \in 0 .. Templates, NotifyDropped(m) PROVE EnumInv'
  BY <1>5 DEF NotifyDropped
<1>6. CASE NotifyResult
  BY <1>6 DEF NotifyResult, NotifyUnlock
<1>7. CASE NotifyEnumerating
  <2> SUFFICES ASSUME enumeration = "whole"
               PROVE  report' \in {<<>>, UpTo(Templates)} /\ enrollments' = UpTo(Handled')
    BY <1>7 DEF NotifyEnumerating, NotifyUnlock
  <2>1. /\ msg \in 1 .. Templates /\ left = Templates - msg /\ msg' = 0 /\ left' = left
        /\ enrollments = UpTo(msg - 1)
    BY <1>7 DEF NotifyEnumerating, NotifyUnlock
  <2>2. Append(enrollments, msg) = UpTo(msg)
    <3>1. msg - 1 \in Nat /\ (msg - 1) + 1 = msg
      BY <2>1
    <3>2. Append(UpTo(msg - 1), (msg - 1) + 1) = UpTo((msg - 1) + 1)
      BY <3>1, UpToSeq
    <3>3. QED
      BY <2>1, <3>1, <3>2
  <2>3. CASE msg = Templates
    <3>1. report' = Append(enrollments, msg) /\ enrollments' = <<>>
      BY <1>7, <2>3 DEF NotifyEnumerating
    <3>2. Handled' = 0
      BY <2>1, <2>3
    <3>3. UpTo(0) = <<>>
      BY UpToSeq
    <3>4. QED
      BY <2>2, <2>3, <3>1, <3>2, <3>3
  <2>4. CASE msg < Templates
    <3>1. report' = report /\ enrollments' = Append(enrollments, msg)
      BY <1>7, <2>1, <2>4 DEF NotifyEnumerating
    <3>2. Handled' = msg
      BY <2>1, <2>4
    <3>3. QED
      BY <2>2, <3>1, <3>2
  <2>5. QED
    BY <2>1, <2>3, <2>4
<1>8. QED
  <2>1. \/ UNCHANGED <<notifying, msg, left, enrollments, report, enumeration>>
        \/ EnumerateEnrollments \/ Cancel \/ NotifyResult \/ NotifyEnumerating
        \/ \E m \in 0 .. Templates : NotifyLock(m) \/ NotifyDropped(m)
    BY DEF Next, Binder, Notify, CreateSession, SetSession, SetActiveGroup,
           LinkToDeath, FinishClose, OnClientDeath, Close, Answer, StartOperation,
           ClientDies, ClientRestarts, Release, notifyVars, vars
  <2>2. QED
    BY <2>1, <1>1, <1>2, <1>3, <1>4, <1>5, <1>6, <1>7

\* An enumeration that lost no message is reported as the vendor library gave it,
\* for any number of templates and whatever happens to the sessions meanwhile.
THEOREM EnumerationsAreExact == Spec => []ReportsExact
<1>1. Init => EnumInv
  BY UpToSeq DEF Init, EnumInv, Handled
<1>2. HalInv /\ EnumInv /\ [Next]_vars => EnumInv'
  BY EnumNext DEF HalInv, TypeOK
<1>3. EnumInv => ReportsExact
  BY DEF EnumInv, ReportsExact, UpTo
<1>4. QED
  BY <1>1, <1>2, <1>3, HalInductive, PTL DEF Spec

-------------------------------------------------------------------------------
(* The life of a session, as the framework sees it *)

LEMMA LifeInit == Init => Life!Init
BY DEF Init, Life!Init, Phase

LEMMA LifeNext == HalInv /\ [Next]_vars => [Life!Next]_(Life!vars)
<1> SUFFICES ASSUME HalInv, [Next]_vars PROVE [Life!Next]_(Life!vars)
  OBVIOUS
<1>h. SessionTypeOK /\ LinkInv /\ ServedInv
  BY DEF HalInv, TypeOK
<1> USE DEF SessionTypeOK, LinkInv, ServedInv, Phase
<1>1. ASSUME NEW u \in Users, CreateSession(u), mSession \in mClosed \cup {0}
      PROVE  Life!Create
  <2>1. Phase \in {"none", "closed"}
    BY <1>1 DEF CreateSession, Call
  <2>2. mSession' = mSession + 1 /\ mSession' # 0 /\ mSession' \notin mClosed'
    BY <1>h, <1>1 DEF CreateSession
  <2>3. Phase' = "open"
    BY <2>2
  <2>4. QED
    BY <2>1, <2>2, <2>3 DEF Life!Create
<1>2. CASE Close
  <2>1. mSession # 0 /\ clientSession = mSession /\ mSession \notin mClosed
    BY <1>h, <1>2 DEF Close, Call
  <2>2. Phase = "open" /\ Phase' = "closing" /\ mSession' = mSession
    BY <1>h, <1>2, <2>1 DEF Close
  <2>3. QED
    BY <2>2 DEF Life!Next, Life!StartClose
<1>3. CASE FinishClose
  <2>1. mSession # 0 /\ mSession \in mClosed
    BY <1>h, <1>3 DEF FinishClose
  <2>2. Phase = "closing" /\ Phase' = "closed" /\ mSession' = mSession
    BY <1>3, <2>1 DEF FinishClose
  <2>3. QED
    BY <2>2 DEF Life!Next, Life!EndClose
<1>4. ASSUME NEW s \in Sessions, OnClientDeath(s) PROVE [Life!Next]_(Life!vars)
  <2>1. s = mSession /\ s # 0 /\ s \notin mClosed
    BY <1>h, <1>4 DEF OnClientDeath
  <2>2. mClosed' = mClosed \cup {s} /\ pc' = "closing" /\ mSession' = mSession
    BY <1>4, <2>1 DEF OnClientDeath
  <2>3. Phase = "open" /\ Phase' = "closing"
    BY <2>1, <2>2
  <2>4. QED
    BY <2>2, <2>3 DEF Life!Next, Life!StartClose
<1>5. CASE \/ SetSession \/ SetActiveGroup \/ LinkToDeath
           \/ mSession \notin mClosed \cup {0} /\ \E u \in Users : CreateSession(u)
  <2>1. UNCHANGED <<mSession, mClosed>> /\ pc # "closing" /\ pc' # "closing"
    BY <1>5 DEF CreateSession, SetSession, SetActiveGroup, LinkToDeath, Call
  <2>2. QED
    BY <2>1 DEF Life!vars
<1>6. CASE UNCHANGED <<mSession, mClosed, pc>>
  BY <1>6 DEF Life!vars
<1>7. QED
  <2>1. \/ UNCHANGED <<mSession, mClosed, pc>> \/ Close \/ FinishClose
        \/ SetSession \/ SetActiveGroup \/ LinkToDeath
        \/ (\E u \in Users : CreateSession(u)) \/ \E s \in Sessions : OnClientDeath(s)
    BY DEF Next, Binder, Notify, Answer, StartOperation, EnumerateEnrollments, Cancel,
           NotifyLock, NotifyDropped, NotifyResult, NotifyEnumerating, NotifyUnlock,
           ClientDies, ClientRestarts, Release, vars
  <2>2. QED
    BY <2>1, <1>1, <1>2, <1>3, <1>4, <1>5, <1>6 DEF Life!Next

\* Whatever the client, the notify thread and the death notices do, sessions
\* follow one another: the next is created when the last is closed to the end.
THEOREM OneSessionAtATime == Spec => ImplementsSessionLife
BY LifeInit, LifeNext, HalInductive, PTL DEF Spec, Life!Spec, ImplementsSessionLife

-------------------------------------------------------------------------------
(* The CHECK of createSession *)

LEMMA CheckInit == Init => CheckInv
BY DEF Init, CheckInv

LEMMA CheckNext == HalInv /\ CheckInv /\ [Next]_vars => CheckInv'
<1> SUFFICES ASSUME HalInv, CheckInv, [Next]_vars PROVE CheckInv'
  OBVIOUS
<1> USE DEF CheckInv, HalInv, LinkInv, ServedInv, TypeOK, SessionTypeOK, engineVars,
            deathVars, clientVars
<1>1. ASSUME NEW u \in Users, CreateSession(u) PROVE CheckInv'
  BY <1>1 DEF CreateSession, Call
<1>2. CASE SetSession \/ SetActiveGroup
  BY <1>2 DEF SetSession, SetActiveGroup
<1>3. CASE LinkToDeath
  BY <1>3 DEF LinkToDeath
<1>4. CASE Close \/ FinishClose
  BY <1>4 DEF Close, FinishClose, Call
<1>5. ASSUME NEW s \in Sessions, OnClientDeath(s) PROVE CheckInv'
  BY <1>5 DEF OnClientDeath
<1>6. CASE \/ Answer \/ StartOperation \/ EnumerateEnrollments \/ Cancel
           \/ NotifyResult \/ NotifyEnumerating
  BY <1>6 DEF Answer, StartOperation, EnumerateEnrollments, Cancel, NotifyResult,
              NotifyEnumerating, NotifyUnlock
<1>7. ASSUME NEW m \in 0 .. Templates, NotifyLock(m) \/ NotifyDropped(m) PROVE CheckInv'
  BY <1>7 DEF NotifyLock, NotifyDropped
<1>8. CASE ClientDies \/ ClientRestarts
  BY <1>8 DEF ClientDies, ClientRestarts
<1>9. ASSUME NEW s \in Sessions, Release(s) PROVE CheckInv'
  BY <1>9 DEF Release
<1>10. CASE UNCHANGED vars
  BY <1>10 DEF vars
<1>11. QED
  BY <1>1, <1>2, <1>3, <1>4, <1>5, <1>6, <1>7, <1>8, <1>9, <1>10
     DEF Next, Binder, Notify

\* A session that is open has a client that knows of it or a notice on its way.
THEOREM CheckInductive == Spec => []CheckInv
<1>1. QED
  BY CheckInit, CheckNext, HalInductive, PTL DEF Spec

\* createSession never aborts the process: its CHECK passes whenever the client
\* died, be it in the middle of an earlier createSession.
THEOREM CheckNeverFails == Spec => []CheckPasses
<1>1. CheckInv => CheckPasses
  BY DEF CheckInv, CheckPasses
<1>2. QED
  BY <1>1, CheckInductive, PTL

\* A dead client's session is closed, or its notice will close it.
THEOREM DeathsAreNoticed == Spec => []DeathNoticed
<1>1. HalInv /\ CheckInv => DeathNoticed
  BY DEF HalInv, ServedInv, CheckInv, DeathNoticed
<1>2. QED
  BY <1>1, HalInductive, CheckInductive, PTL
===============================================================================
