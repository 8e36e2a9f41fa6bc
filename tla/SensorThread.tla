----------------------------- MODULE SensorThread -----------------------------
(***************************************************************************)
(* A sensor as the sub-HAL knows it: two flags and a thread that polls and *)
(* posts. The thread is in a post with mRunMutex held, so that until it is *)
(* over every call on the sensor waits.                                    *)
(***************************************************************************)

VARIABLES
  mode,     \* Sensor::mMode
  enabled,  \* Sensor::mIsEnabled
  runner    \* "rest", "poll" or, with an event to post, "tapped"

threadVars == <<mode, enabled, runner>>

Init == mode = "NORMAL" /\ enabled = FALSE /\ runner = "rest"

SetMode ==
  /\ runner # "tapped"
  /\ mode' \in {"NORMAL", "DATA_INJECTION"}
  /\ UNCHANGED <<enabled, runner>>

Activate ==
  /\ runner # "tapped"
  /\ enabled' \in BOOLEAN
  /\ UNCHANGED <<mode, runner>>

Poll ==
  /\ runner = "rest"
  /\ enabled /\ mode = "NORMAL"
  /\ runner' = "poll"
  /\ UNCHANGED <<mode, enabled>>

\* Woken for something other than its event.
Wake ==
  /\ runner = "poll"
  /\ runner' = "rest"
  /\ UNCHANGED <<mode, enabled>>

\* Its event, whatever the flags are by now.
Tap ==
  /\ runner = "poll"
  /\ runner' = "tapped"
  /\ enabled' = FALSE
  /\ UNCHANGED mode

Posted ==
  /\ runner = "tapped"
  /\ runner' = "rest"
  /\ UNCHANGED <<mode, enabled>>

Next == SetMode \/ Activate \/ Poll \/ Wake \/ Tap \/ Posted

Spec == Init /\ [][Next]_threadVars
===============================================================================
