# TLA+ models of the Nubia hardware HALs

The repository holds two programs. `src/sensors` is a sensors sub-HAL with up
to three one-shot sensors (UDFPS touch, double tap, single tap) that turn kernel
uevents into sensor events. `src/aidl/biometrics/fingerprint` is a fingerprint
HAL that puts an AIDL service in front of a vendor library with the old
C interface. `src/interfaces` only declares vendor interfaces.

This directory models the concurrent core of both: TLA+ modules, TLC
configurations that check them on small instances, and TLAPS proofs of the main
properties for every instance.

## 1. Inventory

### Sensors

| Part | State | Operations | Talks to |
|---|---|---|---|
| `Sensor`, `UEventPollingOneShotSensor` | `mIsEnabled`, `mMode`, `mStopThread`, `mRunMutex`, `mWaitCV`, wake-up pipe, uevent socket, one thread | `activate`, `setOperationMode`, `run`, constructor, destructor (`batch` does nothing, `flush` refuses, `injectEvent` refuses or ignores) | the kernel (uevents), `ISensorsEventCallback::postEvents` |
| `SensorsSubHal` | `mSensors` (fixed after construction), `mCallback`, `mCurrentOperationMode` | `initialize`, `setOperationMode` (fan-out), `activate`, `batch`, `flush`, `injectSensorData`, `postEvents`; direct channels are refused | the multi-HAL proxy, every sensor |
| `UEvent` | none | parse a NUL-separated buffer, `contains`, `get` | used by `readUEvent` |

Hard behaviour: a mutex that may not be held while polling, so flags change
under a runner in `poll()`; two ways to wake the runner (condition variable and
pipe) that must fit where it sleeps; a pipe with a capacity; a thread started in
a base-class constructor and joined in a base-class destructor.

Correct means: one event per activation; no wake-up or notify lost; a queued tap
reported; a disabled sensor at rest; calls that return; a destructor that ends. For
the sub-HAL: no post without a callback or with the wakelock of a callback that was
replaced, all sensors in one mode between calls. For the parser: it stays in its
buffer and reports a datagram exactly if it says what the sensor asks for.

### Fingerprint

| Part | State | Operations | Talks to |
|---|---|---|---|
| `Fingerprint` | `mSession`, `mEngine`, `mLockoutTracker` (only ever copied) | `createSession`, `getSensorProps` | framework, engine |
| `Session` | `mClosed`, two timer flags, death recipient, its `LockoutTracker` | the requests, `resetLockout`, `onPointerDown`, `close`, client death, lockout timers | engine, `ISessionCallback`, detached timer threads |
| `LockoutTracker` | `mFailedCount`, `mLockoutTimedStart`, `mCurrentMode` | `reset`, `addFailedAttempt`, `getMode`, `getLockoutTimeLeft` | called by Session and by the engine |
| `HwFingerprintEngine` | weak `mSession`, `mDevice`, `mUserId`, `mAuthId`, a static enumeration buffer | one method per request, `notify` (the vendor's thread), two code filters | vendor library, session callback |
| `CancellationSignal` | raw `Session*` | `cancel` | Session |
| `service.cpp`, `UdfpsExtension.cpp` | none | start-up with one binder thread; two pure functions | |

Hard behaviour: three kinds of threads (one binder thread, the vendor's notify
thread, detached timers) work on a session without any lock; timers outlive the
lockout they were started for, and hold a raw pointer to the session; the client
may die at any time.

Correct means: a lockout is neither lifted too soon nor kept from the framework;
a permanent one is permanent; at most one timer; at most one open session; no
callback on a session that is gone.

## 2. Modules

| Module | What it is |
|---|---|
| `OneShotContract` | Abstract: arming buys one event, the event disarms. |
| `UEventSensor` | `Sensor` and `UEventPollingOneShotSensor`: callers, runner, kernel, constructor, destructor. |
| `SensorThread` | Abstract: a sensor as the sub-HAL knows it, two flags and a thread that polls and posts. |
| `UEventSensorProofs` | The invariants of `UEventSensor` and its refinement of both, proved. |
| `SensorsSubHal` | The sub-HAL over several sensors: the walk of `initialize` and `setOperationMode`, `activate`, `postEvents`. |
| `SensorsSubHalProofs` | Its invariants, and that each of its sensors is a `SensorThread`, proved. |
| `UEventParser` | `readUEvent` and `UEvent` on one datagram, string by string. |
| `UEventParserProofs` | Its invariants, proved. |
| `LockoutTracker` | The tracker's variables; its methods, cut where another thread can come between. |
| `SessionLockout` | Extends it with everything that works on it: notify, resetLockout, onPointerDown, the timers. |
| `LockoutPolicy` | Abstract: failures lock, a success or `resetLockout` clears, time ends a timed lockout, the framework hears what is so; until two threads come in each other's way. |
| `SessionLockoutProofs` | Its invariants and its refinement of `LockoutPolicy`, proved. |
| `SessionLife` | Abstract: one session after another, each closed once and to the end. |
| `FingerprintHal` | `Fingerprint`, `Session` and `HwFingerprintEngine`: the life of sessions, requests, notify, the client's death. |
| `FingerprintHalProofs` | Its invariants and its refinement of `SessionLife`, proved. |
| `MCUEventSensor`, `MCSensorsSubHal`, `MCUEventParser`, `MCSessionLockout`, `MCFingerprintHal` | TLC instances; each `.cfg` is one run. |

Operators marked *mutant* in a comment are plausible bugs in the definition that
follows them. No specification uses them; substituted for that definition they
show which property notices.

### UEventSensor

A step is what a thread does between two points where another can interfere:
taking `mRunMutex`, waiting on `mWaitCV`, `poll()`, `write()` to the pipe.

* `life` follows construction and destruction: `base` (the thread exists, the
  vtable is a base class's), `derived` (in the derived constructor), `built`,
  `unwinding` and `unwound` (before and after the derived destructor), `joining`,
  `gone`.
* `pc` is where the runner is in `run()`; `check` is the loop head, reached with
  the mutex held. `RunExit`, `RunWait`, `RunPoll`, `RunSample` are its ways on.
  `HandleUEvent` and `HandleWakeup` are the body after `poll()`: re-lock,
  `readUEvent` and disarm, or take one byte from the pipe. `PostEvents` is the call of
  `postEvents` that follows the first, with the mutex still held (`posting`).
* `activate` is `Activate` (lock, change the flag) and `ActivateNotify`
  (`interruptPoll`, notify, unlock), because `interruptPoll` may block with the
  lock held. `setOperationMode` is `SetOperationMode` (the locked part) and
  `ModeInterrupt` (the byte, without the lock).
* `runBody` is where the virtual call to `run()` landed. With `VtableRace` TRUE it
  may land in `Sensor::run` while the derived object does not exist.
* `mStopThread` starts as either value: no constructor assigns it.
* A uevent is `match`, `overflow` (fills the buffer) or `other` (including a
  receive error). After the derived destructor `mInfo` is gone and the lookup may
  answer anything.
* `credit` is history: the events the latest activation still pays for.
* `Thread` maps it to `SensorThread`: a runner in `poll()` or back from it polls, one at
  `posting` is tapped, and every other rests.

Left out: what an event contains, logging, sampling periods (a one-shot sensor's
period is always 0, so `Sensor::run` samples on every turn unless the wall clock
goes back), the wake lock of `postEvents`.

### SensorsSubHal

A sensor is reduced to what the sub-HAL meets of it: `mMode`, `mIsEnabled`, the bytes in
its pipe (`pipe`), whether an `activate()` holds its mutex for the write (`writer`), and
whether its thread rests, polls or is in `postEvents`. `UEventSensor` has the rest.

* A call that walks over the sensors is `StartWalk`, for each sensor `SetNext` and
  `InterruptNext`, and `Finish`. The virtual call lands in
  `UEventPollingOneShotSensor::setOperationMode`: `SetNext` is the call of
  `Sensor::setOperationMode` in it and needs `mRunMutex` (`MutexFree`), which a
  runner keeps from its return from `poll()` to the end of `postEvents` (`Posting`) and an
  `activate()` until it has written its byte; `InterruptNext` is the byte, written
  without the mutex, at every call. `step` says which of them is next.
  `Initialize` first assigns `mCallback`.
* `Activate` takes the mutex and changes the flag, `ActivateWrite` writes the byte and
  lets go. A write waits while the pipe is full (`HasRoom`); only `Wake` drains it, and
  needs the mutex for it.
* `postEvents` reads `mCallback` twice: `TakeWakelock` and `PostEvents`. `wakelock`
  remembers which callback the first of them found.
* `mCallback` is the number of the `initialize()` whose callback it holds. The code assigns
  an `sp<>` that runners use meanwhile, which is a data race: the old object may be
  destroyed under a runner that has read the pointer. The model takes the assignment as
  atomic, a post finds the old callback or the new one; what it says of `mCallback` is
  which callback a post ends up with, not that the assignment is safe.
* `late` is history: what a sensor posted since `DATA_INJECTION` was set.
* `Thread(s)` maps sensor `s` to `SensorThread`, the module that `UEventSensor`
  implements: what is left of a sensor here does nothing that the whole one does not
  promise to be able to, and the sub-HAL does nothing to it behind its mutex. `Posting`
  is tapped.

What is assumed of the multi-HAL proxy: it makes `initialize` and `setOperationMode`
one at a time and nothing before the first `initialize` has returned; it may
initialize again; it may call `activate` on any thread at any time later. `batch`,
`flush`, injection and direct channels change nothing for these sensors.

### UEventParser

`Receive` is any datagram that fits, with the two NULs of `readUEvent` behind it;
`ReceiveNoUEvent` the early returns. Each iteration of the constructor of `UEvent` is
a step (`ParsePlain`, `ParsePair`, `ParseEnd`), `Match` the look-ups. A character is
NUL, `=` or a letter, a string a sequence of them, `msg` a function. What the
properties compare with (`Lines`, `Says`) is said of the datagram, without a walk.
`MatchAssumption` is about the sensors of the repository: no match ends in `=`.

### LockoutTracker and SessionLockout

The binder thread, the vendor library's notify thread and the detached timers share the
tracker and the two flags without a lock. A step is one access to what they share:

* `AuthFailed` reads in `mFailedCount++`, `CountFailure` writes; `ReadStampClock` and
  `StampStart` are the stamp of a timed lockout (`LockoutTracker.cpp:32`).
* `getMode` is `ReadMode`, `ReadStart`, `TestElapsed` (the clock), `ExpireMode` and
  `ReturnMode`, which reads the mode once more (line 44). `getLockoutTimeLeft` is
  `TestStart`, `ReadClock` and `ComputeLeft`, which reads the start a second time
  (line 52).
* `checkSensorLockout` and `startLockoutTimer` go on with `TellPermanent`, `AbortTimer` or
  `Report`, `DecideTimer`, `SpawnTimer`, `SetStarted`; `resetLockout` is `ResetLockout`,
  `TellCleared`, `AbortTimer`. `timer[i]` walks `lockoutTimerExpired`.
* Left coarser than the code: the stores of one `reset`, those of `getMode`'s expiry, and in
  `addFailedAttempt` the count, its comparisons and the mode are each one step, though a
  thread may see the first of them without the rest.
* `pc[t]` is where a thread is, `reg[t]` the value it goes on with, `began[t]` when its
  handler began. Between any two steps of a thread every other may run, and `Tick` may
  pass: what is assumed of time is only that a call or a message takes no more than
  `HandlerTime` ticks. A timer may run late, never early.
* `told`, `failures`, `lastFailure` are history: what the framework was last told,
  the failed authentications and the time of the last. So is `course`: it is `serial` until
  a thread or a timer writes something shared while another's handler is under way, and
  `disturbed` from then on. It restricts no step. Handlers may overlap in a serial course as
  long as they only read; a sleeping timer is not a handler, so that timers expire between
  any two handlers and outlive the lockout they were started for.
* `InitModes` and `InitStarts` are what the uninitialised `mCurrentMode` and
  `mLockoutTimedStart` may hold.
* Bounds: `MaxFailures`, `MaxTime`, and `Timers`; a handler that may start a timer begins
  only when a thread is left for it (`TimerLeft`), so that no handler waits for one.
* `Policy` maps it to `LockoutPolicy`: the counter, the mode, `told` and `course` are what
  they are called there. `CountFailure` is its `Fail`, `AuthSucceeded` and `ResetLockout` its
  `Clear`, `ExpireMode` and `TimerClears` its `Expire`, the calls of the framework its
  `Tell`, and a step that disturbs the course its `Disturb`, after which nothing is
  promised.

What a disturbance breaks is not hidden in the model, only in the properties that speak of
`course`: without that condition TLC finds each of them violated. Two timers start when
both threads see the flag down (`Session.cpp:183`); a timer that finishes inside
`startLockoutTimer` leaves the flag up for good (203); a failure between a timer's test and
its `reset` has its lockout lifted, a permanent one too, and the framework told that
it is clear (207); the same failure in the middle of `getMode` is lost (39); a `reset`
between lines 50 and 52 of the tracker makes the time left 30 s minus the uptime. Nothing in
the code rules these out and no text of the repository claims that they cannot happen;
they are listed under `hazards`.

### FingerprintHal

A step of the binder thread is what `createSession` or `close` does up to the next
point where `notify()` or the death of the client makes a difference.

* Sessions are numbered as they are created; `mSession` is the last, `weak` the
  engine's weak pointer, and `Alive` says who holds a `shared_ptr`: `Fingerprint`,
  the framework's proxy (`held`), or `notify()` in the middle of a message
  (`notifying`).
* `pc` is the binder thread: `publish` (after the assignment of `mSession`),
  `group` (after `setSession`), `link` (after `setActiveGroup`), `closing` (after
  `mClosed = true`), `aborted` (the `CHECK` failed), `idle` between calls. The
  service has one binder thread (`service.cpp:17`), which also delivers death
  notices, so notices wait for `idle`.
* `NotifyLock` and `Notify` are the two halves of `notify()` on the vendor library's
  thread: `mSession.lock()`, then the switch on the message. Sessions may be closed
  and replaced between them. Of the messages, those of an enumeration are told
  apart (`msg` from 1 to `Templates`, the last one reports), the others are 0;
  `enrollments` is the static vector.
* `ClientDies` queues a notice for every linked recipient. `LinkToDeath` on a client that
  is dead by then links all the same, and the driver, which finds no process behind the
  proxy, queues the notice at once. `OnClientDeath` takes one and closes the session if it
  is not closed.
* `SetSession` is one step. The code assigns a `std::weak_ptr` (`HwFingerprintEngine.cpp:100`)
  that the vendor thread may be in `lock()` on (271), without synchronisation: a data race,
  which the model takes as atomic.
* `askers` are the sessions that started an operation; a message is about one of them
  (`asker`) or about none. The code does not know which: `asker` is history.
* `report`, `enumeration`, `callbackThread` are history too: the last report, whether a
  message was lost on the way to it, the thread of the last callback.
* `Life` maps it to `SessionLife`: the last session is open, closing (its flag is up,
  `close` is not at its end) or closed; every other step is a stutter.

What is assumed of the world outside: the framework is one process that calls only
on the session it has open, closes it once, and asks for no second session while
it has one; the driver delivers the notices of a dead process before the calls of
its successor; the restart of the framework takes longer than a call.

Left out: `mAuthId` and challenges, start-up, a second enumeration while one is
running, a second `close`, the lockout (`SessionLockout`), timers and cancellation
signals kept beyond their session.

## 3. Runs

| Run | Checks | Instance |
|---|---|---|
| `sensor_safety` | `IndInv`, `OneShot`, `NoLostWakeup`, `NoLostNotify`, `WedgeTakesCalls`, `WedgedForever` | 2 callers, pipe of 2, socket of 2, 5 calls, vtable race |
| `sensor_liveness` | `TapReported`, `QuietWhenDisabled`, `ActivateReturns`, `ImplementsOneShot`, `ImplementsSensorThread` | 2 callers, pipe of 4, 3 calls, no vtable race |
| `sensor_overflow` | `OverflowDiscarded`, violated | 1 caller |
| `sensor_join` | `JoinReturns`, violated | 1 caller |
| `subhal` | `SubHalInv`, `ModesAgree`, `PostsUseCallback`, `InjectionSilences`, `CallsReturn`, `BlockedStopsWalk`, `SensorsAreThreads` | 3 sensors, pipes of 3, 5 calls |
| `uevent_parse` | `ParserInv`, `InBounds`, `ParsedExact`, `DecisionExact` | 4 characters, datagrams of 1 to 7 bytes, 3 kinds of match |
| `lockout_handlers` | `SerialInv`, `OneTimer`, `FrameworkKnows`, `PermanentSticky`, `ImplementsLockoutPolicy` | thresholds 2 and 3, duration 2, 5 failures, 3 timers, any initial mode, start -9, 0 or 99 |
| `lockout_overlap` | `LockoutIsEarned`, `ReportsAreCurrent`, `SleepsAreBounded` | thresholds 2 and 3, duration 2, 4 failures, 3 timers, zeroed memory |
| `lockout_timers` | `TimerDelivers` | thresholds 1 and 2, duration 2, 2 failures, 2 timers, zeroed memory |
| `hal_safety` | `HalInv`, `CookieLives`, `OpenIsServed`, `ReportsExact`, `ResultsMeetTheirSession`, `ImplementsSessionLife` | 3 sessions, 2 users, 2 templates, 2 left-over templates |
| `hal_check` | `CheckPasses`, `DeathNoticed`, `DeathCloses` | 3 sessions, 1 template |
| `hal_callback_thread` | `CallbacksOffBinder`, violated | 1 session |

`IndInv`, `SerialInv`, `HalInv`, `SubHalInv` and `ParserInv` are inductive invariants and
contain the type invariants of their modules; `TimerEndsLockout` is part of `SerialInv`.

Bounds. Two callers are as many as it takes to have one in `setOperationMode`
while another is in `activate`; five calls are more than twice what fills a pipe
of two bytes, so blocked writers and the wedge occur. A socket of two has a
uevent waiting behind the one that is read. The liveness run keeps the calls
below the pipe's capacity because beyond it the code does deadlock (the wedge).
In the lockout runs the thresholds 2 and 3 have a failure that does not lock, one that
locks for a time and one that locks for good; five failures allow a second lockout after a
permanent one was reset, and the times let a timer outlive the lockout it was started for.
One tick of `HandlerTime` lets the clock move inside any handler. Three timers are two that a
race can start and one that is left over. `lockout_handlers` follows a behaviour up to
the step that disturbs its course (`CONSTRAINT Undisturbed`), because its properties say
nothing beyond; the other two runs go on. Timers are interchangeable, so
`SlotSymmetry` is sound for safety; `lockout_timers`, which checks liveness, does without, and
with thresholds 1 and 2 has its timed and its permanent lockout in two failures.
In the fingerprint runs three sessions let one be held by `notify()`, one be closed
and a third be created over both; two users make a wrong active group visible; two
templates are an enumeration with a message that is not the last. `MaxLeftovers`
bounds how many templates of enumerations cut short pile up in the vector.
Three sensors let the walk have passed one, wait for one and have one before it; five
calls are two `initialize`, a `setOperationMode` there and back and an `activate`, and two
more than it takes to fill a pipe of three bytes.
Seven bytes are two pairs `x=y` with a NUL between them: a key that is there twice, an
empty value, a value with `=` in it, strings with no `=`, and an empty string in the
middle, before which the walk must stop.

Deadlock is not checked: a destroyed sensor, a full pipe and the end of the
bounded calls are states in which the system may stop.

Fairness. The runner, a call that has begun, the constructor and the destructor
are threads that run, `postEvents` included: weak fairness each. Nobody is bound to call, to destroy or
to send a uevent; spurious wake-ups and failing `poll()`s may or may not happen.
Weak fairness suffices for the mutex since the calls are finitely many. In
`SessionLockout` each thread goes on with its handler, each timer with its own once its
sleep is over, and time passes: weak fairness each. In `FingerprintHal`
only the binder thread is fair: it ends its call and takes the notices it has. In
`SensorsSubHal` the walk, the write of an `activate()` and the two steps of a post are weakly
fair: a walk that waits for a mutex gets it, since a sensor posts once for each of finitely
many activations. Nothing is assumed of a write that has no room. `UEventParser` and the
other safety runs assume no fairness.

What the runs show:

* However calls, uevents and the runner interleave, the derived `run()` posts at
  most one event per activation, though it never looks at `mIsEnabled` again
  after `poll()`; a deactivation may come too late, and that is all.
* The two wake-ups cover both places where the runner sleeps. One byte per call
  and one byte drained per `poll()` leave stale bytes behind, which cost a turn of
  the loop and nothing else, until the pipe is full.
* A full pipe is fatal: `activate` writes under the lock that the reader needs.
  `setOperationMode` writes a byte even to a sleeping runner, so 65536 calls on a
  disabled sensor are enough. It takes more calls than the pipe has bytes, and then
  neither flag changes again and no event is posted.
* The sensor and each of the sub-HAL's sensors implement the same `SensorThread`, so
  the sub-HAL is checked against what the sensor really is.
* The overflow of the receive buffer is reported to the framework as a tap
  (finding 1), and destroying an enabled sensor may hang (finding 2).
* Which callback a post goes to needs no lock around `mCallback`: the walk of
  `initialize` takes the mutex of every sensor, so that a post which took its wakelock
  from the last callback is over when it returns. The assignment itself is a data race
  all the same (see section 2). A sensor in a post stops the walk, never the other way
  round, so calls return as long as no more were made than a pipe has room for bytes.
* After that a full pipe may stop them: an `activate()` blocked in its write keeps the mutex,
  and no `initialize` or `setOperationMode` gets past that sensor again.
* `setOperationMode` leaves no sensor in the wrong mode, and in `DATA_INJECTION` a
  sensor posts the one tap it was already polling for, and no other.
* The two NULs that `readUEvent` adds are needed, both, and are enough: the walk stays
  in the datagram for every datagram. `msg` has the first value of each key, and what
  is reported is what the datagram says.
* However the handlers interleave: lockouts are earned; a timed lockout is reported
  within its duration after a failure, and with no more than that left, give or take the
  time of the handlers; no timer sleeps past the lockout of the last failure by more; a
  timer that nobody aborts ends the timed lockout the framework knows of.
* Until a thread writes in the middle of another's handler the session is `LockoutPolicy`,
  whatever its uninitialised members hold: none of its steps that write the tracker or
  call the framework acts on a mode that changed since it was read. The two timer flags are
  right, the framework knows of every lockout from the first failure on, a permanent one
  ends only with the counter at zero, the time left is not negative by more than the
  length of a handler, and a timer is not over before it has told the framework,
  unless it was aborted. So the logic of flags and leftover timers is right, and what
  goes wrong takes a data race.
* A recipient's raw cookie is never dangling: a session is linked only while it is
  the last one, which `Fingerprint` itself holds. `notify()` finds the open session
  with its user's group whenever the framework has one, and an enumeration that
  lost no message is reported exactly though its vector belongs to no session.
* A result may come to a later session than the one that asked, but never while the
  one that asked is open.
* The framework sees one session after another, each closed once and to its end, by
  the client or by the notice of its death.
* The `CHECK` in `createSession` never fails, whenever the client dies: `linkToDeath` is the
  last step of `createSession`, but a client that died before it is noticed all the same.

## 4. Findings

1. `UEventSensors.cpp:168`: `readUEvent` returns true for a discarded uevent in
   order to "keep processing" (comment at 166-167); `run()` takes it for a match,
   disarms the sensor and posts an event. Run `sensor_overflow`.
2. `UEventSensors.cpp:92`: the destructor wakes the poll before `mStopThread` is
   set. The runner may take the byte, poll again and never hear of the stop; the
   lock is free, as the comment at `Sensor.cpp:81-82` asks, and the join still
   hangs. Run `sensor_join`.
3. `include/Session.h:75-77` says that `mCb` must only be called from non-binder
   threads. There is no worker thread: `HwFingerprintEngine.cpp:118` and the other
   requests the engine answers itself, `cancelImpl` and `Session::close` call it on
   the binder thread. Run `hal_callback_thread`.

Behaviour of the code that no text of the repository contradicts is listed under
`hazards` in `PROJECT.json`: the race for the vtable, the uninitialised
`mStopThread`, a runner that ends at the first failing `poll()`, a lockout timer
aborted by `resetLockout` that takes the next lockout's notification with it.

## 5. Proofs

`UEventSensorProofs`, for all sets of callers and all capacities, from
`CallersAssumption` and `BoundsAssumption`:

* `Inductive`: `IndInv` is an invariant. It consists of the types, of `MutexInv`
  (who holds the mutex is what the two program counters say), `LifeInv` (nobody
  calls a sensor that is not built; a missing pipe means stopped), `RunnerInv` (a
  runner that polls runs the derived body and has a pipe; what `poll()` reported
  is still there) and `CreditInv` (an enabled sensor and a polling runner have
  credit 1). `OneShot` alone is not inductive: that the runner still has a credit
  when it comes back from `poll()`, whatever the callers did, is `CreditInv`.
* `TypeCorrect`, `PostsOncePerActivation`, `PollIsWoken`, `WaitIsNotified` follow.
* `BytesAccounted`, for finite sets of callers: a call adds a writer, a write turns a
  writer into a byte, and nothing else adds either but the destructor.
* `WedgeIsPermanent`: from `MutexInv`, the blocked caller holds the mutex, and whatever
  changes a flag or posts needs it. `WedgeNeedsFullPipe`: from `BytesAccounted`, the full
  pipe and the writer that waits at it are different calls.
* `SensorImplementsContract`: without the vtable race every step is a step of
  `OneShotContract` or a stutter; only `Activate`, `HandleUEvent`, `PostEvents` and
  `DestroySensor` are not stutters.
* `SensorIsThread`: every step is a step of `SensorThread` or a stutter, with the race
  too. Whoever changes a flag holds the mutex, which by `MutexInv` the runner has while
  it posts; the destructor has it for its own changes.

`SensorsSubHalProofs`, for any number of sensors, from `SubHalAssumption`:

* `SubHalInductive`: `SubHalInv` is an invariant. `WalkInv` splits the sensors in
  those whose mode the walk has set (`Set`) and those that have the old one. `BarrierInv`
  says that a sensor which posts behind the walk of `initialize` has its wakelock from
  the new callback; the walk passes a sensor only when it does not post. `LateInv`
  says that a sensor posts late once, and rests from then on.
* `ModesAlwaysAgree`, `InitializeWaitsForPosts`, `InjectionIsSilent` follow.
* `PipeInv` counts: a call owes a sensor at most one byte (`writer`, `Due`), so that a pipe never
  has more bytes than calls were made. `WritesHaveRoom` follows.
* `BlockedSensorStopsSubHal`: a blocked `activate()` has the mutex; `Wake`, which would drain
  the pipe, and `SetNext`, which would pass the sensor, need it. A walk that has set the
  sensor's mode already stops at its own byte.
* `SensorsBehave`: for each sensor every step is a step of `SensorThread` or a stutter.
  `SetNext` and `Activate` are stutters of all sensors but one, and find that one not
  posting.

`UEventParserProofs`, for all alphabets, buffer sizes, sets of infos and datagrams, from
`ParserAssumption`, `DecisionIsExact` also from `MatchAssumption`:

* `ParserInductive`: `ParserInv` is an invariant. `BufferInv` says that `data` stands
  behind a NUL and that no empty string comes before it, hence that it is at the last
  byte at most; `MsgInv` that `msg` has the keys of the lines passed, with the values of
  the first of each.
* `WalkStaysInBounds` follows from `BufferInv`. `MsgIsExact`: at the end the lines passed
  are all lines, and a line `key=value` splits in one way (`Split`, `SplitUnique`).
* `DecisionIsExact`: a value found in `msg` is one the datagram says, and the defaults of
  `get` are distinct from what is asked for.

`SessionLockoutProofs`, for all thresholds and durations and any set of timers,
from `TrackerAssumption` and `SessionAssumption`:

* `SessionTypeCorrect`, and for every interleaving:
  `LockoutsAreEarned`, if `mCurrentMode` starts as `NONE`: `EarnedInv` adds that the counter, and
  the vendor thread's read of it, never run ahead of the failures.
  `TimedReportsAreCurrent` and `TimerSleepsAreBounded`, if the uninitialised
  `mLockoutTimedStart` is no time on the clock (`NoTime`). The argument bounds when things
  were read: a handler is no older than `HandlerTime` (`BeganInv`), so a stamp is no later
  than its failure by more (`StampInv`), `getMode` goes on with `TIMED` only in a handler that
  began within the duration of a failure (`RecentInv`), and the time left that it computes
  ends by then, whatever the second read of the start finds (`LeftInv`: a start of 0 gives a
  negative time). `FreshInv` adds that undisturbed the second read finds what the first did.
  `OverlapInductive` is all of it.
* `SerialInductive`, and from it `AtMostOneTimer`, `PermanentIsPermanent`, `FrameworkIsTold`,
  `TimersTellBeforeTheyEnd`, from no assumption on memory. They are about every behaviour, up to
  the step that disturbs its course. `WroteAlone` is the key: a write that leaves the course
  serial finds no other handler under way, so what a handler has read still holds when it
  acts on it. `TimerInv` relates the started flag to the timers also in the middle of
  `startLockoutTimer`, `ModeInv` says what each handler knows of the mode and that a
  timer left pending by a permanent lockout is aborted, `CountInv` that no increment is
  lost, `ToldInv` what the framework knows outside of a handler.
* `SessionIsPolicy`: every step is a step of `LockoutPolicy` or a stutter. `CountInv` makes
  `CountFailure` a `Fail`; `ModeInv` makes `ExpireMode` and `TimerClears` steps that end no
  permanent lockout, and every call of the framework one that says what is so.

`FingerprintHalProofs`, for any number of sessions, users and templates, from
`HalAssumption`:

* `HalInductive`: `HalInv` is an invariant: the types, `LinkInv` (all sessions but
  the last are closed, only the last can be linked, and a linked one is closed only
  in the middle of `close`), `ServedInv` (how far `createSession` has got, and
  that a client with an open session is linked and up) and `AskInv` (who has asked is
  no later than the engine's session, and what `notify()` holds is no later than the
  session it has locked). `CookieLives` is not
  inductive: that `createSession` never lets go of a linked session rests on the
  closed ones being unlinked, which rests on `close` running to its end.
* `CookiesLive`, `OpenSessionIsServed` and `ResultsMeetSessions` follow; the last
  because a session before the last is closed.
* `OneSessionAtATime`: every step is a step of `SessionLife` or a stutter.
  `createSession` is a step of it because only in `closing` is a closed session's
  phase not `closed`, and a call begins when the binder thread is idle.
* `EnumerationsAreExact`: while nothing was lost, the vector is what `notify()` is
  done with of the current enumeration, in order (`EnumInv`).
* `CheckInductive`, `CheckNeverFails`: by `CheckInv` (an open session has a client that knows of
  it, or a notice on its way), whenever clients die. `DeathsAreNoticed` follows from it and from
  `ServedInv`, a dead client having no session open.

Only model-checked: the liveness properties (`TapReported`, `QuietWhenDisabled`,
`ActivateReturns`, `CallsReturn`, `TimerDelivers`, `DeathCloses`), which under
fairness are out of the prover's reach. The safety that each rests on is proved:
`PollIsWoken` and `WaitIsNotified` for the first two, `WedgeNeedsFullPipe` for the third
(its premise that the calls fit in the pipe), `WritesHaveRoom` and `SensorsBehave` for the
fourth (a write does not block; a sensor that stops the walk is in a post, which ends),
`TimersTellBeforeTheyEnd` and `DeathsAreNoticed` for the others.
Every other property of a passing run has a theorem. `PipeBytesAccounted`, `OverlapInv`
and `CheckInv` are invariants that only serve the proofs; no run checks them.

## 6. Plan

1. Composition of `FingerprintHal` and `SessionLockout`: timers and cancellation
   signals that outlive their session, the lockout that a new session forgets. The code
   keeps raw pointers to the session in both and does let them outlive it; there is no
   promise in the repository to check this against, so a model would only restate it.
2. Start-up of the engine: the choice among modules, and a device that never reports.
3. `mAuthId`, which one session fetches and another invalidates.

## 7. Not modelled

`src/interfaces` (declarations without an implementation), `UdfpsExtension.cpp`
(two functions on layer numbers), the code filters and the token translation of the
engine (tables without state over constants of a header that is not in the
repository), `service.cpp` beyond its one binder thread, build files, logging,
`SensorsSubHal::debug`, the contents of events and tokens. Of the fingerprint HAL:
`mAuthId` (one value for all users, never compared with anything), the constructor of
`HwFingerprintEngine`, a second `close` (which deletes the recipient twice) and the
lifetime of timers and signals, for the reasons above; see `hazards` in `PROJECT.json`.
