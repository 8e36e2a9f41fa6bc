---- MODULE MCSensorsSubHal ----
(* TLC instance of SensorsSubHal. *)
EXTENDS SensorsSubHal
====
