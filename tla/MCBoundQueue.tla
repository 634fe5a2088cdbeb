---------------------------- MODULE MCBoundQueue ----------------------------
(* Four threads that may all push, pop and abort, on a queue of capacity 2:*)
(* two threads can be parked on one condition variable while two others    *)
(* race for the mutex, and pushers can meet poppers that arrive just then. *)
EXTENDS BoundQueue
=============================================================================
