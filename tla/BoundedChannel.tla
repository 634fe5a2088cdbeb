--------------------------- MODULE BoundedChannel ---------------------------
(***************************************************************************)
(* What bound_queue<T, N> (imfenc/src/bound_queue.hpp) promises its        *)
(* callers, with no mutex, no condition variable and no waiting set: a     *)
(* FIFO channel of capacity N shared by threads.  A call of push or pop is *)
(* outstanding from the moment it is made until it takes effect, in one    *)
(* atomic step, or fails because the channel was closed (abort).  Under    *)
(* fairness, a channel with room takes an outstanding push, and a channel  *)
(* with something in it answers an outstanding pop.                        *)
(*                                                                         *)
(* BoundQueue implements this module.                                      *)
(***************************************************************************)
EXTENDS Naturals, Sequences

CONSTANTS Threads,  \* the threads that share the channel
          Values,   \* what is sent through it
          None,     \* not a value: the argument of a thread with no push outstanding
          N         \* the capacity

VARIABLES buf,      \* the values sent and not yet received, oldest first
          closed,   \* the channel was closed
          call,     \* per thread, the outstanding call: "none", "push" or "pop"
          arg       \* per thread, the value its outstanding push sends

vars == <<buf, closed, call, arg>>

Init ==
    /\ buf = <<>>
    /\ closed = FALSE
    /\ call = [t \in Threads |-> "none"]
    /\ arg = [t \in Threads |-> None]

(* Thread t calls push(v). *)
BeginPush(t, v) ==
    /\ call[t] = "none"
    /\ call' = [call EXCEPT ![t] = "push"]
    /\ arg' = [arg EXCEPT ![t] = v]
    /\ UNCHANGED <<buf, closed>>

(* Thread t calls pop(). *)
BeginPop(t) ==
    /\ call[t] = "none"
    /\ call' = [call EXCEPT ![t] = "pop"]
    /\ UNCHANGED <<buf, closed, arg>>

(* The outstanding push of t takes effect and returns. *)
Send(t) ==
    /\ call[t] = "push"
    /\ ~closed
    /\ Len(buf) < N
    /\ buf' = Append(buf, arg[t])
    /\ call' = [call EXCEPT ![t] = "none"]
    /\ arg' = [arg EXCEPT ![t] = None]
    /\ UNCHANGED closed

(* The outstanding pop of t takes effect and returns the oldest value. *)
Receive(t) ==
    /\ call[t] = "pop"
    /\ ~closed
    /\ buf # <<>>
    /\ buf' = Tail(buf)
    /\ call' = [call EXCEPT ![t] = "none"]
    /\ UNCHANGED <<closed, arg>>

(* The outstanding call of t fails: the channel is closed. *)
Fail(t) ==
    /\ call[t] # "none"
    /\ closed
    /\ call' = [call EXCEPT ![t] = "none"]
    /\ arg' = [arg EXCEPT ![t] = None]
    /\ UNCHANGED <<buf, closed>>

(* Thread t closes the channel. *)
Close(t) ==
    /\ call[t] = "none"
    /\ closed' = TRUE
    /\ UNCHANGED <<buf, call, arg>>

Next == \E t \in Threads :
    \/ \E v \in Values : BeginPush(t, v)
    \/ BeginPop(t)
    \/ Send(t)
    \/ Receive(t)
    \/ Fail(t)
    \/ Close(t)

(* The safety part of the promise. *)
SafeSpec == Init /\ [][Next]_vars

(* The liveness part: while there is room some outstanding push is taken,  *)
(* while there is a value some outstanding pop is answered, and every call *)
(* on a closed channel fails.  It says nothing about which of two threads  *)
(* that wait for the same thing is served.                                 *)
Progress ==
    /\ WF_vars(\E t \in Threads : Send(t))
    /\ WF_vars(\E t \in Threads : Receive(t))
    /\ \A t \in Threads : WF_vars(Fail(t))

Spec == SafeSpec /\ Progress

=============================================================================
