----------------------------- MODULE BoundQueue -----------------------------
(***************************************************************************)
(* The bounded blocking queue of imfenc (imfenc/src/bound_queue.hpp): one  *)
(* mutex, two condition variables and a circular buffer.                   *)
(*                                                                         *)
(* Every member function runs under the mutex, so the unit of interleaving *)
(* is a critical section: from taking the mutex (on entry, or on waking in *)
(* condition_variable::wait) to giving it up (on return, on a throw, or by *)
(* waiting).  at[t] says where thread t is between two critical sections:  *)
(*                                                                         *)
(*   "idle"         outside the queue                                      *)
(*   "push", "pop"  inside the call, about to take the mutex and to test   *)
(*                  the predicate of wait                                  *)
(*   "parkedPush"   inside cv_pop_.wait  (push waits for room)             *)
(*   "parkedPop"    inside cv_push_.wait (pop waits for a value)           *)
(*                                                                         *)
(* A notified or spuriously woken thread goes back to "push" / "pop": it   *)
(* competes for the mutex with every thread that enters, and tests the     *)
(* predicate again.                                                        *)
(***************************************************************************)
EXTENDS Naturals, Sequences, FiniteSets

CONSTANTS Threads,  \* the threads that use the queue
          Values,   \* the elements (value_type)
          None,     \* not an element: the argument of a thread that pushes nothing
          N         \* the capacity, template parameter N

ASSUME ThreadsAssumption == IsFiniteSet(Threads)
ASSUME NoneAssumption == None \notin Values
ASSUME CapacityAssumption == N \in Nat \ {0}

VARIABLES q,        \* q_: the circular buffer, oldest element first
          aborted,  \* aborted_
          at,       \* per thread, where it is in the queue's code
          item      \* per thread, the argument of its push

vars == <<q, aborted, at, item>>

Places == {"idle", "push", "pop", "parkedPush", "parkedPop"}

(* Every thread is somewhere in the queue's code, and the buffer never     *)
(* outgrows its capacity: a circular_buffer that is pushed while full      *)
(* overwrites its oldest element, a frame lost without any error.  A       *)
(* thread carries an element exactly while it is in push.                  *)
TypeOK ==
    /\ q \in Seq(Values)
    /\ Len(q) <= N
    /\ aborted \in BOOLEAN
    /\ at \in [Threads -> Places]
    /\ item \in [Threads -> Values \cup {None}]
    /\ \A t \in Threads : item[t] # None <=> at[t] \in {"push", "parkedPush"}

-----------------------------------------------------------------------------

(* Mutated: the wait predicate of push lets one push too many through. *)
FullOffByOne == Len(q) > N

Full == Len(q) = N
Empty == q = <<>>
At(place) == {t \in Threads : at[t] = place}

Init ==
    /\ q = <<>>
    /\ aborted = FALSE
    /\ at = [t \in Threads |-> "idle"]
    /\ item = [t \in Threads |-> None]

(* Mutated: without notify_one. *)
LeaveSilently(t, parked, ready) == at' = [at EXCEPT ![t] = "idle"]

(* Thread t leaves the queue and, still under the mutex, notifies one      *)
(* thread parked on a condition variable: it goes from parked to ready.    *)
LeaveNotifyingOne(t, parked, ready) ==
    \/ /\ At(parked) = {}
       /\ at' = [at EXCEPT ![t] = "idle"]
    \/ \E u \in At(parked) : at' = [at EXCEPT ![t] = "idle", ![u] = ready]

(* A call of push(v) or pop() that has not taken the mutex yet. *)
CallPush(t, v) ==
    /\ at[t] = "idle"
    /\ at' = [at EXCEPT ![t] = "push"]
    /\ item' = [item EXCEPT ![t] = v]
    /\ UNCHANGED <<q, aborted>>

CallPop(t) ==
    /\ at[t] = "idle"
    /\ at' = [at EXCEPT ![t] = "pop"]
    /\ UNCHANGED <<q, aborted, item>>

(* cv.wait(lk, predicate) with the predicate false. *)
ParkPush(t) ==
    /\ at[t] = "push"
    /\ Full /\ ~aborted
    /\ at' = [at EXCEPT ![t] = "parkedPush"]
    /\ UNCHANGED <<q, aborted, item>>

ParkPop(t) ==
    /\ at[t] = "pop"
    /\ Empty /\ ~aborted
    /\ at' = [at EXCEPT ![t] = "parkedPop"]
    /\ UNCHANGED <<q, aborted, item>>

(* if (aborted_) throw operation_aborted(), in push and in pop. *)
ThrowAborted(t) ==
    /\ at[t] \in {"push", "pop"}
    /\ aborted
    /\ at' = [at EXCEPT ![t] = "idle"]
    /\ item' = [item EXCEPT ![t] = None]
    /\ UNCHANGED <<q, aborted>>

(* Mutated: push notifies the condition variable it waits on itself. *)
PushNotifiesPushers(t) ==
    /\ at[t] = "push"
    /\ ~Full /\ ~aborted
    /\ q' = Append(q, item[t])
    /\ item' = [item EXCEPT ![t] = None]
    /\ LeaveNotifyingOne(t, "parkedPush", "push")
    /\ UNCHANGED aborted

(* push past its wait: append and cv_push_.notify_one(). *)
Push(t) ==
    /\ at[t] = "push"
    /\ ~Full /\ ~aborted
    /\ q' = Append(q, item[t])
    /\ item' = [item EXCEPT ![t] = None]
    /\ LeaveNotifyingOne(t, "parkedPop", "pop")
    /\ UNCHANGED aborted

(* Mutated: pop takes the newest element. *)
PopBack(t) ==
    /\ at[t] = "pop"
    /\ ~Empty /\ ~aborted
    /\ q' = SubSeq(q, 1, Len(q) - 1)
    /\ LeaveNotifyingOne(t, "parkedPush", "push")
    /\ UNCHANGED <<aborted, item>>

(* pop past its wait: take the front and cv_pop_.notify_one().  The result *)
(* of the call is Head(q).                                                 *)
Pop(t) ==
    /\ at[t] = "pop"
    /\ ~Empty /\ ~aborted
    /\ q' = Tail(q)
    /\ LeaveNotifyingOne(t, "parkedPush", "push")
    /\ UNCHANGED <<aborted, item>>

(* Mutated: abort notifies only one of the condition variables. *)
AbortWakesPushersOnly(t) ==
    /\ at[t] = "idle"
    /\ aborted' = TRUE
    /\ at' = [u \in Threads |-> IF at[u] = "parkedPush" THEN "push" ELSE at[u]]
    /\ UNCHANGED <<q, item>>

(* abort(): notify_all on both condition variables. *)
Abort(t) ==
    /\ at[t] = "idle"
    /\ aborted' = TRUE
    /\ at' = [u \in Threads |-> CASE at[u] = "parkedPush" -> "push"
                                  [] at[u] = "parkedPop" -> "pop"
                                  [] OTHER -> at[u]]
    /\ UNCHANGED <<q, item>>

(* A condition variable may wake a thread without a notification. *)
SpuriousWake(t) ==
    /\ at[t] \in {"parkedPush", "parkedPop"}
    /\ at' = [at EXCEPT ![t] = IF @ = "parkedPush" THEN "push" ELSE "pop"]
    /\ UNCHANGED <<q, aborted, item>>

(* What a thread inside push or pop does once it has the mutex. *)
Step(t) == ParkPush(t) \/ ParkPop(t) \/ ThrowAborted(t) \/ Push(t) \/ Pop(t)

Next == \E t \in Threads :
    \/ \E v \in Values : CallPush(t, v)
    \/ CallPop(t)
    \/ ParkPush(t)
    \/ ParkPop(t)
    \/ ThrowAborted(t)
    \/ Push(t)
    \/ Pop(t)
    \/ Abort(t)
    \/ SpuriousWake(t)

SafeSpec == Init /\ [][Next]_vars

(* A thread that competes for the mutex gets it: nobody holds it while     *)
(* waiting.  Nothing obliges a thread to call, to abort or to wake         *)
(* spuriously.                                                             *)
Fairness == \A t \in Threads : WF_vars(Step(t))

Spec == SafeSpec /\ Fairness

-----------------------------------------------------------------------------
(* The safety of the queue. *)

(* No lost wakeup: while threads stay parked in pop, every buffered        *)
(* element has a ready popper of its own to take it; while threads stay    *)
(* parked in push, every free slot has a ready pusher of its own to fill   *)
(* it.  push and pop notify one thread each, on the other's condition      *)
(* variable, and only because of this can they afford not to notify all.   *)
NoLostWakeup ==
    /\ At("parkedPop") # {} => Len(q) <= Cardinality(At("pop"))
    /\ At("parkedPush") # {} => N - Len(q) <= Cardinality(At("push"))

(* abort() leaves nobody behind: after it no thread is parked, and none    *)
(* parks again (both waits test aborted_).                                 *)
AbortReleases == aborted => At("parkedPush") \cup At("parkedPop") = {}

(* The queue alone never blocks everyone: pushers and poppers are never    *)
(* parked at the same time unless a ready thread is on its way to serve    *)
(* them.                                                                   *)
NotBothSidesStuck ==
    At("parkedPush") # {} /\ At("parkedPop") # {} => At("push") \cup At("pop") # {}

(* What the queue implements: a thread parked, or about to take the mutex, *)
(* has an outstanding call.                                                *)
Outstanding(place) ==
    CASE place \in {"push", "parkedPush"} -> "push"
      [] place \in {"pop", "parkedPop"} -> "pop"
      [] OTHER -> "none"

outstanding == [t \in Threads |-> Outstanding(at[t])]

Channel == INSTANCE BoundedChannel
           WITH buf <- q, closed <- aborted, call <- outstanding, arg <- item

(* The queue is a FIFO channel of capacity N: no element is lost,          *)
(* duplicated or reordered, a full queue takes nothing and an aborted one  *)
(* serves nobody.                                                          *)
IsChannel == Channel!SafeSpec

(* ... and it serves: no outstanding push is left waiting while there is   *)
(* room, no outstanding pop while there is an element, no call after abort.*)
Serves == Channel!Progress

=============================================================================
