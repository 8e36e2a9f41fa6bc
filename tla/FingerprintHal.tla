---------------------------- MODULE FingerprintHal ----------------------------
(***************************************************************************)
(* Fingerprint, Session and HwFingerprintEngine: how sessions are created, *)
(* found by the vendor library's notify thread, closed, lost to the death  *)
(* of their client and destroyed. The binder thread serves one call at a   *)
(* time; notify() and the client's death come at any point of it. Sessions *)
(* are numbered as they are created. What a session does about lockouts is *)
(* SessionLockout.                                                         *)
(***************************************************************************)
EXTENDS Naturals, Sequences

CONSTANTS
  MaxSessions,   \* bound: sessions created
  Users,
  Templates,     \* how many templates the vendor library enumerates
  MaxLeftovers   \* bound: templates of enumerations cut short, when the next begins

ASSUME HalAssumption ==
  /\ MaxSessions \in Nat
  /\ Users # {}
  /\ Templates \in Nat \ {0}
  /\ MaxLeftovers \in Nat

VARIABLES
  mSession,       \* Fingerprint::mSession, the last session created; 0 is nullptr
  weak,           \* HwFingerprintEngine::mSession
  mUserId,        \* the active group of the engine
  userOf,         \* the user a session was created for
  mClosed,        \* sessions whose flag is set
  linked,         \* sessions whose death recipient is linked and not deleted
  notices,        \* death notices queued for the binder thread
  pc,             \* where the binder thread is
  client,         \* is the framework's process up?
  clientSession,  \* the session it has open; 0 is none
  held,           \* sessions it holds a reference to
  notifying,      \* the session notify() has locked; 0 is none
  msg,            \* its message: a template that is enumerated, 0 for any other
  askers,         \* history: the sessions that have started an operation
  asker,          \* history: the one whose operation the message is about; 0 is none
  left,           \* templates the vendor library has still to enumerate
  enrollments,    \* the static vector in notify()
  report,         \* history: the last onEnrollmentsEnumerated
  enumeration,    \* history: "cut" once a message of one was dropped or cancelled
  callbackThread  \* history: the thread of the last callback

engineVars == <<weak, mUserId, userOf>>
deathVars  == <<linked, notices>>
clientVars == <<client, clientSession, held>>
askVars    == <<askers, asker>>
notifyVars == <<notifying, msg, askVars, left, enrollments, report, enumeration>>
vars == <<mSession, engineVars, mClosed, deathVars, pc, clientVars, notifyVars,
          callbackThread>>

Sessions == 1 .. MaxSessions
Creating == {"publish", "group", "link"}

SessionTypeOK ==
  /\ mSession \in 0 .. MaxSessions
  /\ weak \in 0 .. mSession
  /\ mUserId \in Users
  /\ userOf \in [Sessions -> Users]
  /\ mClosed \in SUBSET (1 .. mSession)
  /\ linked \in SUBSET (1 .. mSession)
  /\ notices \in SUBSET linked
  /\ pc \in Creating \cup {"idle", "closing", "aborted"}
  /\ client \in {"up", "dead"}
  /\ clientSession \in 0 .. mSession
  /\ held \in SUBSET (1 .. mSession)
  /\ notifying \in 0 .. mSession
  /\ askers \in SUBSET (1 .. mSession)
  /\ asker \in 0 .. mSession

NotifyTypeOK ==
  /\ msg \in 0 .. Templates
  /\ left \in 0 .. Templates
  /\ enrollments \in Seq(1 .. Templates)
  /\ report \in Seq(1 .. Templates)
  /\ enumeration \in {"whole", "cut"}
  /\ callbackThread \in {"none", "binder", "vendor"}

TypeOK == SessionTypeOK /\ NotifyTypeOK

\* mUserId has no initialiser; no request is made before a session sets it.
Init ==
  /\ mSession = 0
  /\ weak = 0
  /\ mUserId \in Users
  /\ userOf \in [Sessions -> {mUserId}]
  /\ mClosed = {}
  /\ linked = {}
  /\ notices = {}
  /\ pc = "idle"
  /\ client = "up"
  /\ clientSession = 0
  /\ held = {}
  /\ notifying = 0
  /\ msg = 0
  /\ askers = {}
  /\ asker = 0
  /\ left = 0
  /\ enrollments = <<>>
  /\ report = <<>>
  /\ enumeration = "whole"
  /\ callbackThread = "none"

\* The shared_ptrs to a session: Fingerprint's, the framework's proxy, the one
\* notify() has locked.
Alive(s) == s # 0 /\ (s = mSession \/ s \in held \/ s = notifying)

\* A callback through the engine's weak_ptr: made, or logged and left.
CallBack(thread) ==
  callbackThread' = IF Alive(weak) THEN thread ELSE callbackThread

-------------------------------------------------------------------------------
(* Fingerprint::createSession, on the binder thread *)

\* The framework's next call. Its process is the one client there has been
\* since the last death notice: the driver queues the notices of the old one
\* before the new one can call.
Call == pc = "idle" /\ client = "up" /\ notices = {}

\* Up to the assignment of mSession, which lets go of the last one. The framework
\* has no session open that it knows of; is the last one closed? The CHECK aborts
\* the process otherwise.
CreateSession(u) ==
  /\ Call
  /\ clientSession = 0
  /\ mSession < MaxSessions
  /\ IF mSession \in mClosed \cup {0}
       THEN /\ mSession' = mSession + 1
            /\ userOf' = [userOf EXCEPT ![mSession + 1] = u]
            /\ pc' = "publish"
       ELSE pc' = "aborted" /\ UNCHANGED <<mSession, userOf>>
  /\ UNCHANGED <<weak, mUserId, mClosed, deathVars, clientVars, notifyVars,
                 callbackThread>>

\* Mutant: an engine that has a session keeps it.
SetSessionOnce ==
  /\ pc = "publish"
  /\ weak' = IF weak = 0 THEN mSession ELSE weak
  /\ pc' = "group"
  /\ UNCHANGED <<mSession, mUserId, userOf, mClosed, deathVars, clientVars,
                 notifyVars, callbackThread>>

\* The weak_ptr has no lock: notify() finds the old session or the new one.
SetSession ==
  /\ pc = "publish"
  /\ weak' = mSession
  /\ pc' = "group"
  /\ UNCHANGED <<mSession, mUserId, userOf, mClosed, deathVars, clientVars,
                 notifyVars, callbackThread>>

SetActiveGroup ==
  /\ pc = "group"
  /\ mUserId' = userOf[mSession]
  /\ pc' = "link"
  /\ UNCHANGED <<mSession, weak, userOf, mClosed, deathVars, clientVars,
                 notifyVars, callbackThread>>

\* Mutant: a client that is dead by then is neither linked nor noticed.
LinkToLivingOnly ==
  /\ pc = "link"
  /\ pc' = "idle"
  /\ \/ /\ client = "up"
        /\ linked' = linked \cup {mSession}
        /\ clientSession' = mSession
        /\ held' = held \cup {mSession}
     \/ client = "dead" /\ UNCHANGED <<linked, clientSession, held>>
  /\ UNCHANGED <<mSession, engineVars, mClosed, notices, client, notifyVars,
                 callbackThread>>

\* linkToDeath and the reply. On a client that is dead by now the driver links as
\* well and queues the notice at once, and the reply reaches nobody.
LinkToDeath ==
  /\ pc = "link"
  /\ pc' = "idle"
  /\ linked' = linked \cup {mSession}
  /\ \/ /\ client = "up"
        /\ clientSession' = mSession
        /\ held' = held \cup {mSession}
        /\ UNCHANGED notices
     \/ /\ client = "dead"
        /\ notices' = notices \cup {mSession}
        /\ UNCHANGED <<clientSession, held>>
  /\ UNCHANGED <<mSession, engineVars, mClosed, client, notifyVars, callbackThread>>

-------------------------------------------------------------------------------
(* Session::close and onClientDeath, on the binder thread *)

Close ==
  /\ Call
  /\ clientSession # 0
  /\ mClosed' = mClosed \cup {clientSession}
  /\ pc' = "closing"
  /\ UNCHANGED <<mSession, engineVars, deathVars, clientVars, notifyVars,
                 callbackThread>>

\* Mutant: the recipient is not deleted.
FinishCloseStillLinked ==
  /\ pc = "closing"
  /\ callbackThread' = "binder"
  /\ clientSession' = 0
  /\ pc' = "idle"
  /\ UNCHANGED <<mSession, engineVars, mClosed, deathVars, client, held,
                 notifyVars>>

\* onSessionClosed and the end of the recipient, whose notices go with it.
FinishClose ==
  /\ pc = "closing"
  /\ callbackThread' = "binder"
  /\ linked' = linked \ {mSession}
  /\ notices' = notices \ {mSession}
  /\ clientSession' = 0
  /\ pc' = "idle"
  /\ UNCHANGED <<mSession, engineVars, mClosed, client, held, notifyVars>>

\* Mutant: the death is noticed, the session stays open.
OnClientDeathIgnored(s) ==
  /\ pc = "idle"
  /\ s \in notices
  /\ notices' = notices \ {s}
  /\ UNCHANGED <<mSession, engineVars, mClosed, linked, pc, clientVars,
                 notifyVars, callbackThread>>

\* Mutant: the session is only marked closed.
OnClientDeathFlagOnly(s) ==
  /\ pc = "idle"
  /\ s \in notices
  /\ notices' = notices \ {s}
  /\ mClosed' = mClosed \cup {s}
  /\ UNCHANGED <<mSession, engineVars, linked, pc, clientVars, notifyVars,
                 callbackThread>>

\* isClosed() is false of every session whose recipient has not been deleted.
OnClientDeath(s) ==
  /\ pc = "idle"
  /\ s \in notices
  /\ notices' = notices \ {s}
  /\ \/ s \in mClosed /\ UNCHANGED <<mClosed, pc>>
     \/ s \notin mClosed /\ mClosed' = mClosed \cup {s} /\ pc' = "closing"
  /\ UNCHANGED <<mSession, engineVars, linked, clientVars, notifyVars,
                 callbackThread>>

-------------------------------------------------------------------------------
(* Requests of the framework on its open session, on the binder thread *)

\* Every method of Session but close passes its call on to the engine; what
\* resetLockout and onPointerDown do besides is in SessionLockout, the contexts of
\* a call are ignored, and the last methods only answer ok.
Request == Call /\ clientSession # 0

\* A request the engine answers itself: challenges, authenticator ids,
\* detectInteraction, and an enroll or authenticate the vendor library refuses.
Answer ==
  /\ Request
  /\ CallBack("binder")
  /\ UNCHANGED <<mSession, engineVars, mClosed, deathVars, pc, clientVars,
                 notifyVars>>

\* enroll, authenticate or remove, accepted. What it starts is seen in notify()
\* only; a removal that is refused does nothing at all.
StartOperation ==
  /\ Request
  /\ askers' = askers \cup {clientSession}
  /\ UNCHANGED <<mSession, engineVars, mClosed, deathVars, pc, clientVars,
                 notifying, msg, asker, left, enrollments, report, enumeration,
                 callbackThread>>

\* enumerate, accepted; it is the same when it is refused.
EnumerateEnrollments ==
  /\ Request
  /\ left = 0 /\ msg = 0
  /\ Len(enrollments) <= MaxLeftovers
  /\ left' = Templates
  /\ askers' = askers \cup {clientSession}
  /\ UNCHANGED <<mSession, engineVars, mClosed, deathVars, pc, clientVars,
                 notifying, msg, asker, enrollments, report, enumeration,
                 callbackThread>>

\* CancellationSignal::cancel; an enumeration under way may be given up. Refused,
\* it only returns an error.
Cancel ==
  /\ Request
  /\ CallBack("binder")
  /\ \/ UNCHANGED <<left, enumeration>>
     \/ left > 0 /\ left' = 0 /\ enumeration' = "cut"
  /\ UNCHANGED <<mSession, engineVars, mClosed, deathVars, pc, clientVars,
                 notifying, msg, askVars, enrollments, report>>

-------------------------------------------------------------------------------
(* HwFingerprintEngine::notify, on the vendor library's thread *)

\* The vendor library comes up with a message of an enumeration or another.
NextMessage(m) ==
  IF m = 0
    THEN UNCHANGED left
    ELSE left > 0 /\ m = Templates - left + 1 /\ left' = left - 1

\* mSession.lock() finds a session. A message does not say whose operation it is
\* about; it may be one that was started long ago.
NotifyLock(m) ==
  /\ notifying = 0
  /\ Alive(weak)
  /\ NextMessage(m)
  /\ notifying' = weak
  /\ msg' = m
  /\ asker' \in askers \cup {0}
  /\ UNCHANGED <<mSession, engineVars, mClosed, deathVars, pc, clientVars,
                 askers, enrollments, report, enumeration, callbackThread>>

\* "Receiving callbacks before a session is opened"
NotifyDropped(m) ==
  /\ notifying = 0
  /\ ~Alive(weak)
  /\ m # 0
  /\ NextMessage(m)
  /\ enumeration' = "cut"
  /\ UNCHANGED <<mSession, engineVars, mClosed, deathVars, pc, clientVars,
                 notifying, msg, askVars, enrollments, report, callbackThread>>

NotifyUnlock ==
  /\ notifying' = 0
  /\ msg' = 0
  /\ asker' = 0
  /\ UNCHANGED <<mSession, engineVars, mClosed, deathVars, pc, clientVars, askers,
                 left, enumeration>>

\* A vendor-specific acquired message is passed on to nobody.
NotifyResult ==
  /\ notifying # 0
  /\ msg = 0
  /\ callbackThread' \in {callbackThread, "vendor"}
  /\ NotifyUnlock
  /\ UNCHANGED <<enrollments, report>>

\* Mutant: the vector is not cleared after the report.
NotifyEnumeratingUncleared ==
  /\ notifying # 0
  /\ msg # 0
  /\ enrollments' = Append(enrollments, msg)
  /\ report' = IF msg = Templates THEN enrollments' ELSE report
  /\ callbackThread' = IF msg = Templates THEN "vendor" ELSE callbackThread
  /\ NotifyUnlock

NotifyEnumerating ==
  /\ notifying # 0
  /\ msg # 0
  /\ \/ /\ msg = Templates
        /\ report' = Append(enrollments, msg)
        /\ enrollments' = <<>>
        /\ callbackThread' = "vendor"
     \/ /\ msg < Templates
        /\ enrollments' = Append(enrollments, msg)
        /\ UNCHANGED <<report, callbackThread>>
  /\ NotifyUnlock

Notify == NotifyResult \/ NotifyEnumerating

-------------------------------------------------------------------------------
(* The framework's process *)

\* It dies: with a notice for every session that is linked to it.
ClientDies ==
  /\ client = "up"
  /\ client' = "dead"
  /\ notices' = linked
  /\ clientSession' = 0
  /\ UNCHANGED <<mSession, engineVars, mClosed, linked, pc, held, notifyVars,
                 callbackThread>>

\* It comes up again, which takes longer than any call.
ClientRestarts ==
  /\ client = "dead"
  /\ pc \notin Creating
  /\ client' = "up"
  /\ UNCHANGED <<mSession, engineVars, mClosed, deathVars, pc, clientSession, held,
                 notifyVars, callbackThread>>

\* Its proxies go when it has closed the session, or some time after its death.
Release(s) ==
  /\ s \in held
  /\ s # clientSession
  /\ held' = held \ {s}
  /\ UNCHANGED <<mSession, engineVars, mClosed, deathVars, pc, client,
                 clientSession, notifyVars, callbackThread>>

-------------------------------------------------------------------------------
Binder ==
  \/ SetSession \/ SetActiveGroup \/ LinkToDeath
  \/ FinishClose \/ \E s \in Sessions : OnClientDeath(s)

Next ==
  \/ \E u \in Users : CreateSession(u)
  \/ Binder
  \/ Close \/ Answer \/ StartOperation \/ EnumerateEnrollments \/ Cancel
  \/ \E m \in 0 .. Templates : NotifyLock(m) \/ NotifyDropped(m)
  \/ Notify
  \/ ClientDies \/ ClientRestarts
  \/ \E s \in Sessions : Release(s)

Spec == Init /\ [][Next]_vars

\* The binder thread goes on with a call and takes the notices it has; nothing
\* else has to happen.
FairSpec == Spec /\ WF_vars(Binder)

-------------------------------------------------------------------------------
(* Properties *)

\* The cookie of a death recipient is a raw Session*: while a recipient is
\* linked its session exists, whoever has let go of it. (linkToDeath, close,
\* createSession)
CookieLives == \A s \in linked : Alive(s)

\* The session the framework has open is the one that notify() and the engine's
\* callbacks find, with its user's group active.
OpenIsServed ==
  clientSession # 0 =>
    /\ weak = clientSession
    /\ Alive(weak)
    /\ mUserId = userOf[clientSession]

\* A result goes to the session that started the operation or, when that is
\* closed, to a later one: notify() never gives it to one session while the one
\* it is for is open. (notify, createSession, setSession)
ResultsMeetTheirSession ==
  notifying # 0 /\ asker \notin {0, notifying} => asker < notifying /\ asker \in mClosed

\* "Open session already exists!": createSession finds the last session closed,
\* by its client or by the notice of its client's death.
CheckPasses == pc # "aborted"

\* An enumeration that lost no message is reported exactly, whatever sessions
\* were closed and created meanwhile.
ReportsExact ==
  enumeration = "whole" => report \in {<<>>, [k \in 1 .. Templates |-> k]}

\* While the client is dead the last session is closed or its notice is queued,
\* unless createSession is still to link it; also when the client died in the middle
\* of createSession or close(), or before an earlier notice was taken. (onClientDeath)
DeathNoticed ==
  client = "dead" /\ pc \notin Creating => mSession \in mClosed \cup notices \cup {0}

\* A client that dies leaves no session open.
DeathCloses == client = "dead" ~> mSession \in mClosed \cup {0}

\* Seen from the framework there is one session at a time: createSession is the
\* abstract Create, isClosed() turning true its StartClose, the end of close() its
\* EndClose, and everything else leaves the life of the session alone.
Phase ==
  IF mSession = 0 THEN "none"
  ELSE IF mSession \notin mClosed THEN "open"
  ELSE IF pc = "closing" THEN "closing" ELSE "closed"

Life == INSTANCE SessionLife WITH sessions <- mSession, phase <- Phase

ImplementsSessionLife == Life!Spec

\* "This callback must only be called from non-binder threads". (Violated.)
CallbacksOffBinder == callbackThread # "binder"

-------------------------------------------------------------------------------
(* The inductive invariants *)

\* All but the last session are closed, and only the last one can be linked: one
\* that is closed is not, except in the middle of close().
LinkInv ==
  /\ \A s \in 1 .. mSession : s # mSession => s \in mClosed
  /\ linked \subseteq {mSession}
  /\ linked \cap mClosed # {} => pc = "closing"
  /\ pc \in Creating => linked = {} /\ mSession \notin mClosed
  /\ pc = "closing" => mSession \in mClosed

\* How far createSession has got.
ServedInv ==
  /\ pc \in Creating => mSession # 0 /\ clientSession = 0
  /\ mSession # 0 /\ pc # "publish" => weak = mSession
  /\ mSession # 0 /\ pc \notin {"publish", "group"} => mUserId = userOf[mSession]
  /\ clientSession \in {0, mSession}
  /\ clientSession # 0 => client = "up" /\ notices = {} /\ clientSession \in linked

\* Only a session the engine has had can have asked, none later than the one
\* that notify() has found.
AskInv == (\A s \in askers : s <= weak) /\ asker <= notifying

HalInv == TypeOK /\ LinkInv /\ ServedInv /\ AskInv

\* An open session has a client that knows of it, or a notice on its way.
CheckInv ==
  /\ pc # "aborted"
  /\ mSession # 0 /\ pc \notin Creating /\ mSession \notin mClosed =>
       clientSession = mSession \/ mSession \in notices
===============================================================================
