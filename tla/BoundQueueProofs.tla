-------------------------- MODULE BoundQueueProofs --------------------------
(***************************************************************************)
(* What BoundQueue guarantees for every finite set of threads, every set   *)
(* of elements and every capacity.  The argument for NoLostWakeup is a     *)
(* count: IInv says that a thread parked in pop means at least as many     *)
(* ready poppers as elements, and every critical section moves at most one *)
(* element and at most two threads.  TypeOK and AbortReleases are needed   *)
(* with it: a throw takes a ready thread away without taking an element,   *)
(* which is harmless only because after abort nobody is parked.            *)
(***************************************************************************)
EXTENDS BoundQueue, TLAPS, FiniteSetTheorems

IInv == TypeOK /\ AbortReleases /\ NoLostWakeup

(* Where the threads are when their places are f. *)
AtOf(f, place) == {t \in Threads : f[t] = place}

-----------------------------------------------------------------------------
(* Counting threads *)

(* The threads at a place are finitely many. *)
LEMMA AtOfFinite ==
    ASSUME NEW f, NEW place
    PROVE  /\ IsFiniteSet(AtOf(f, place))
           /\ Cardinality(AtOf(f, place)) \in Nat
<1>1. AtOf(f, place) \subseteq Threads
  BY DEF AtOf
<1>2. IsFiniteSet(AtOf(f, place))
  BY <1>1, ThreadsAssumption, FS_Subset
<1>. QED
  BY <1>2, FS_CardinalityType

(* From f to g thread t goes to another place, and nobody else moves. *)
Moves(f, g, t, to) ==
    /\ f \in [Threads -> Places] /\ g \in [Threads -> Places]
    /\ t \in Threads
    /\ f[t] # to /\ g[t] = to
    /\ \A s \in Threads : s # t => g[s] = f[s]

(* Moving one thread changes the count of the place it leaves and of the   *)
(* place it goes to by one, and leaves every other place alone.            *)
LEMMA MoveOne ==
    ASSUME NEW f, NEW g, NEW t, NEW to, Moves(f, g, t, to)
    PROVE  /\ Cardinality(AtOf(g, to)) = Cardinality(AtOf(f, to)) + 1
           /\ Cardinality(AtOf(g, f[t])) = Cardinality(AtOf(f, f[t])) - 1
           /\ \A place \in Places : place \notin {to, f[t]} => AtOf(g, place) = AtOf(f, place)
<1>1. AtOf(g, to) = AtOf(f, to) \cup {t} /\ t \notin AtOf(f, to)
  BY DEF AtOf, Moves
<1>2. AtOf(g, f[t]) = AtOf(f, f[t]) \ {t} /\ t \in AtOf(f, f[t])
  BY DEF AtOf, Moves
<1>3. \A place \in Places : place \notin {to, f[t]} => AtOf(g, place) = AtOf(f, place)
  BY DEF AtOf, Moves
<1>4. Cardinality(AtOf(g, to)) = Cardinality(AtOf(f, to)) + 1
  BY <1>1, AtOfFinite, FS_AddElement
<1>5. Cardinality(AtOf(g, f[t])) = Cardinality(AtOf(f, f[t])) - 1
  BY <1>2, AtOfFinite, FS_RemoveElement
<1>. QED
  BY <1>3, <1>4, <1>5

-----------------------------------------------------------------------------
(* Types *)

LEMMA TypeInit == Init => TypeOK
<1> SUFFICES ASSUME Init
             PROVE  TypeOK
  OBVIOUS
<1>1. q \in Seq(Values) /\ Len(q) <= N
  BY CapacityAssumption DEF Init
<1>2. at \in [Threads -> Places] /\ item \in [Threads -> Values \cup {None}]
  BY DEF Init, Places
<1>. QED
  BY <1>1, <1>2 DEF Init, TypeOK

LEMMA TypeStep == TypeOK /\ [Next]_vars => TypeOK'
<1> SUFFICES ASSUME TypeOK, [Next]_vars
             PROVE  TypeOK'
  OBVIOUS
<1>1. ASSUME NEW t \in Threads, NEW v \in Values, CallPush(t, v)
      PROVE  TypeOK'
  BY <1>1, NoneAssumption DEF TypeOK, CallPush, Places
<1>2. ASSUME NEW t \in Threads, CallPop(t)
      PROVE  TypeOK'
  BY <1>2 DEF TypeOK, CallPop, Places
<1>3. ASSUME NEW t \in Threads, ParkPush(t)
      PROVE  TypeOK'
  BY <1>3 DEF TypeOK, ParkPush, Places
<1>4. ASSUME NEW t \in Threads, ParkPop(t)
      PROVE  TypeOK'
  BY <1>4 DEF TypeOK, ParkPop, Places
<1>5. ASSUME NEW t \in Threads, ThrowAborted(t)
      PROVE  TypeOK'
  BY <1>5 DEF TypeOK, ThrowAborted, Places
<1>6. ASSUME NEW t \in Threads, Push(t)
      PROVE  TypeOK'
  <2>1. /\ at' \in [Threads -> Places]
        /\ at'[t] = "idle"
        /\ \A u \in Threads : u # t =>
              (at'[u] \in {"push", "parkedPush"} <=> at[u] \in {"push", "parkedPush"})
    BY <1>6 DEF Push, LeaveNotifyingOne, At, TypeOK, Places
  <2>2. q' \in Seq(Values) /\ Len(q') <= N
    BY <1>6, CapacityAssumption DEF Push, Full, TypeOK
  <2>. QED
    BY <1>6, <2>1, <2>2 DEF Push, TypeOK
<1>7. ASSUME NEW t \in Threads, Pop(t)
      PROVE  TypeOK'
  <2>1. /\ at' \in [Threads -> Places]
        /\ \A u \in Threads :
              (at'[u] \in {"push", "parkedPush"} <=> at[u] \in {"push", "parkedPush"})
    BY <1>7 DEF Pop, LeaveNotifyingOne, At, TypeOK, Places
  <2>2. q' \in Seq(Values) /\ Len(q') <= N
    BY <1>7, CapacityAssumption DEF Pop, Empty, TypeOK
  <2>. QED
    BY <1>7, <2>1, <2>2 DEF Pop, TypeOK
<1>8. ASSUME NEW t \in Threads, Abort(t)
      PROVE  TypeOK'
  BY <1>8 DEF TypeOK, Abort, Places
<1>9. ASSUME NEW t \in Threads, SpuriousWake(t)
      PROVE  TypeOK'
  BY <1>9 DEF TypeOK, SpuriousWake, Places
<1>10. CASE UNCHANGED vars
  BY <1>10 DEF TypeOK, vars
<1>. QED
  BY <1>1, <1>2, <1>3, <1>4, <1>5, <1>6, <1>7, <1>8, <1>9, <1>10 DEF Next
(* TypeOK: every thread is somewhere in the queue's code, carries an       *)
(* element exactly while it pushes, and the buffer stays within capacity.  *)
THEOREM TypeCorrect == SafeSpec => []TypeOK
<1>1. Init => TypeOK
  BY TypeInit
<1>2. TypeOK /\ [Next]_vars => TypeOK'
  BY TypeStep
<1>. QED
  BY <1>1, <1>2, PTL DEF SafeSpec

-----------------------------------------------------------------------------
(* Abort and lost wakeups *)

LEMMA InvInit == Init => AbortReleases /\ NoLostWakeup
<1> SUFFICES ASSUME Init
             PROVE  AbortReleases /\ NoLostWakeup
  OBVIOUS
<1>1. At("parkedPop") = {} /\ At("parkedPush") = {}
  BY DEF Init, At
<1>. QED
  BY <1>1 DEF Init, AbortReleases, NoLostWakeup

LEMMA AbortStep == TypeOK /\ AbortReleases /\ [Next]_vars => AbortReleases'
<1> SUFFICES ASSUME TypeOK, AbortReleases, [Next]_vars
             PROVE  AbortReleases'
  OBVIOUS
<1> USE DEF TypeOK, AbortReleases, At, Places
<1>1. ASSUME NEW t \in Threads, NEW v \in Values, CallPush(t, v)
      PROVE  AbortReleases'
  BY <1>1 DEF CallPush
<1>2. ASSUME NEW t \in Threads, CallPop(t)
      PROVE  AbortReleases'
  BY <1>2 DEF CallPop
<1>3. ASSUME NEW t \in Threads, ParkPush(t)
      PROVE  AbortReleases'
  BY <1>3 DEF ParkPush
<1>4. ASSUME NEW t \in Threads, ParkPop(t)
      PROVE  AbortReleases'
  BY <1>4 DEF ParkPop
<1>5. ASSUME NEW t \in Threads, ThrowAborted(t)
      PROVE  AbortReleases'
  BY <1>5 DEF ThrowAborted
<1>6. ASSUME NEW t \in Threads, Push(t)
      PROVE  AbortReleases'
  BY <1>6 DEF Push
<1>7. ASSUME NEW t \in Threads, Pop(t)
      PROVE  AbortReleases'
  BY <1>7 DEF Pop
<1>8. ASSUME NEW t \in Threads, Abort(t)
      PROVE  AbortReleases'
  BY <1>8 DEF Abort
<1>9. ASSUME NEW t \in Threads, SpuriousWake(t)
      PROVE  AbortReleases'
  BY <1>9 DEF SpuriousWake
<1>10. CASE UNCHANGED vars
  BY <1>10 DEF vars
<1>. QED
  BY <1>1, <1>2, <1>3, <1>4, <1>5, <1>6, <1>7, <1>8, <1>9, <1>10 DEF Next

(* The counts behind NoLostWakeup, as functions of the places and of the   *)
(* buffer's length.                                                        *)
Counted(f, len) ==
    /\ AtOf(f, "parkedPop") # {} => len <= Cardinality(AtOf(f, "pop"))
    /\ AtOf(f, "parkedPush") # {} => N - len <= Cardinality(AtOf(f, "push"))

(* The counts of a function of places are numbers. *)
LEMMA CountNat == \A f, place : Cardinality(AtOf(f, place)) \in Nat
BY AtOfFinite

LEMMA WakeupStep ==
    TypeOK /\ AbortReleases /\ NoLostWakeup /\ [Next]_vars => NoLostWakeup'
<1> SUFFICES ASSUME TypeOK, AbortReleases, NoLostWakeup, [Next]_vars
             PROVE  NoLostWakeup'
  OBVIOUS
<1>1. Counted(at, Len(q)) /\ Len(q) \in Nat /\ N \in Nat
  BY CapacityAssumption DEF NoLostWakeup, Counted, At, AtOf, TypeOK
<1>2. SUFFICES Counted(at', Len(q'))
  BY DEF NoLostWakeup, Counted, At, AtOf
<1>3. \A t \in Threads : at[t] \in Places
  BY DEF TypeOK
<1>4. at \in [Threads -> Places] /\ at' \in [Threads -> Places]
  BY TypeStep DEF TypeOK
<1>5. ASSUME NEW t \in Threads, NEW v \in Values, CallPush(t, v)
      PROVE  Counted(at', Len(q'))
  <2>1. Moves(at, at', t, "push") /\ at[t] = "idle" /\ q' = q
    BY <1>4, <1>5 DEF CallPush, Moves
  <2>2. /\ Cardinality(AtOf(at', "push")) = Cardinality(AtOf(at, "push")) + 1
        /\ AtOf(at', "pop") = AtOf(at, "pop")
        /\ AtOf(at', "parkedPush") = AtOf(at, "parkedPush")
        /\ AtOf(at', "parkedPop") = AtOf(at, "parkedPop")
    BY <2>1, MoveOne DEF Places
  <2>. QED
    BY <2>1, <2>2, <1>1, CountNat DEF Counted
<1>6. ASSUME NEW t \in Threads, CallPop(t)
      PROVE  Counted(at', Len(q'))
  <2>1. Moves(at, at', t, "pop") /\ at[t] = "idle" /\ q' = q
    BY <1>4, <1>6 DEF CallPop, Moves
  <2>2. /\ Cardinality(AtOf(at', "pop")) = Cardinality(AtOf(at, "pop")) + 1
        /\ AtOf(at', "push") = AtOf(at, "push")
        /\ AtOf(at', "parkedPush") = AtOf(at, "parkedPush")
        /\ AtOf(at', "parkedPop") = AtOf(at, "parkedPop")
    BY <2>1, MoveOne DEF Places
  <2>. QED
    BY <2>1, <2>2, <1>1, CountNat DEF Counted
<1>7. ASSUME NEW t \in Threads, ParkPush(t)
      PROVE  Counted(at', Len(q'))
  <2>1. Moves(at, at', t, "parkedPush") /\ at[t] = "push" /\ q' = q /\ Len(q) = N
    BY <1>4, <1>7 DEF ParkPush, Moves, Full
  <2>2. /\ AtOf(at', "pop") = AtOf(at, "pop")
        /\ AtOf(at', "parkedPop") = AtOf(at, "parkedPop")
    BY <2>1, MoveOne DEF Places
  <2>. QED
    BY <2>1, <2>2, <1>1, CountNat DEF Counted
<1>8. ASSUME NEW t \in Threads, ParkPop(t)
      PROVE  Counted(at', Len(q'))
  <2>1. Moves(at, at', t, "parkedPop") /\ at[t] = "pop" /\ q' = q /\ Len(q) = 0
    BY <1>4, <1>8 DEF ParkPop, Moves, Empty
  <2>2. /\ AtOf(at', "push") = AtOf(at, "push")
        /\ AtOf(at', "parkedPush") = AtOf(at, "parkedPush")
    BY <2>1, MoveOne DEF Places
  <2>. QED
    BY <2>1, <2>2, <1>1, CountNat DEF Counted
<1>9. ASSUME NEW t \in Threads, ThrowAborted(t)
      PROVE  Counted(at', Len(q'))
  <2>1. Moves(at, at', t, "idle") /\ at[t] \in {"push", "pop"}
    BY <1>4, <1>9 DEF ThrowAborted, Moves
  <2>2. AtOf(at, "parkedPush") = {} /\ AtOf(at, "parkedPop") = {}
    BY <1>9 DEF ThrowAborted, AbortReleases, At, AtOf
  <2>3. AtOf(at', "parkedPush") = {} /\ AtOf(at', "parkedPop") = {}
    BY <2>1, <2>2, MoveOne DEF Places
  <2>. QED
    BY <2>3 DEF Counted
<1>10. ASSUME NEW t \in Threads, Push(t)
       PROVE  Counted(at', Len(q'))
  <2>1. at[t] = "push" /\ Len(q') = Len(q) + 1
    BY <1>10 DEF Push, TypeOK
  <2>2. CASE AtOf(at, "parkedPop") = {} /\ at' = [at EXCEPT ![t] = "idle"]
    <3>1. Moves(at, at', t, "idle")
      BY <1>4, <2>1, <2>2 DEF Moves
    <3>2. /\ Cardinality(AtOf(at', "push")) = Cardinality(AtOf(at, "push")) - 1
          /\ AtOf(at', "parkedPush") = AtOf(at, "parkedPush")
          /\ AtOf(at', "parkedPop") = AtOf(at, "parkedPop")
      BY <3>1, <2>1, MoveOne DEF Places
    <3>3. AtOf(at, "parkedPop") = {}
      BY <2>2
    <3>. QED
      BY <3>2, <3>3, <2>1, <1>1, CountNat DEF Counted
  <2>3. ASSUME NEW u \in AtOf(at, "parkedPop"),
               at' = [at EXCEPT ![t] = "idle", ![u] = "pop"]
        PROVE  Counted(at', Len(q'))
    <3> DEFINE h == [at EXCEPT ![t] = "idle"]
    <3>1. Moves(at, h, t, "idle")
      BY <1>4, <2>1 DEF Moves, Places
    <3>2. Moves(h, at', u, "pop") /\ h[u] = "parkedPop" /\ AtOf(at, "parkedPop") # {}
      BY <1>4, <2>1, <2>3 DEF Moves, Places, AtOf
    <3> HIDE DEF h
    <3>3. /\ Cardinality(AtOf(h, "push")) = Cardinality(AtOf(at, "push")) - 1
          /\ AtOf(h, "pop") = AtOf(at, "pop")
          /\ AtOf(h, "parkedPush") = AtOf(at, "parkedPush")
      BY <3>1, <2>1, MoveOne DEF Places
    <3>4. /\ Cardinality(AtOf(at', "pop")) = Cardinality(AtOf(h, "pop")) + 1
          /\ AtOf(at', "push") = AtOf(h, "push")
          /\ AtOf(at', "parkedPush") = AtOf(h, "parkedPush")
      BY <3>2, MoveOne DEF Places
    <3>. QED
      BY <3>2, <3>3, <3>4, <2>1, <1>1, CountNat DEF Counted
  <2>. QED
    BY <1>10, <2>2, <2>3 DEF Push, LeaveNotifyingOne, At, AtOf
<1>11. ASSUME NEW t \in Threads, Pop(t)
       PROVE  Counted(at', Len(q'))
  <2>1. at[t] = "pop" /\ Len(q') = Len(q) - 1
    BY <1>11 DEF Pop, Empty, TypeOK
  <2>2. CASE AtOf(at, "parkedPush") = {} /\ at' = [at EXCEPT ![t] = "idle"]
    <3>1. Moves(at, at', t, "idle")
      BY <1>4, <2>1, <2>2 DEF Moves
    <3>2. /\ Cardinality(AtOf(at', "pop")) = Cardinality(AtOf(at, "pop")) - 1
          /\ AtOf(at', "parkedPush") = AtOf(at, "parkedPush")
          /\ AtOf(at', "parkedPop") = AtOf(at, "parkedPop")
      BY <3>1, <2>1, MoveOne DEF Places
    <3>3. AtOf(at, "parkedPush") = {}
      BY <2>2
    <3>. QED
      BY <3>2, <3>3, <2>1, <1>1, CountNat DEF Counted
  <2>3. ASSUME NEW u \in AtOf(at, "parkedPush"),
               at' = [at EXCEPT ![t] = "idle", ![u] = "push"]
        PROVE  Counted(at', Len(q'))
    <3> DEFINE h == [at EXCEPT ![t] = "idle"]
    <3>1. Moves(at, h, t, "idle")
      BY <1>4, <2>1 DEF Moves, Places
    <3>2. Moves(h, at', u, "push") /\ h[u] = "parkedPush" /\ AtOf(at, "parkedPush") # {}
      BY <1>4, <2>1, <2>3 DEF Moves, Places, AtOf
    <3> HIDE DEF h
    <3>3. /\ Cardinality(AtOf(h, "pop")) = Cardinality(AtOf(at, "pop")) - 1
          /\ AtOf(h, "push") = AtOf(at, "push")
          /\ AtOf(h, "parkedPop") = AtOf(at, "parkedPop")
      BY <3>1, <2>1, MoveOne DEF Places
    <3>4. /\ Cardinality(AtOf(at', "push")) = Cardinality(AtOf(h, "push")) + 1
          /\ AtOf(at', "pop") = AtOf(h, "pop")
          /\ AtOf(at', "parkedPop") = AtOf(h, "parkedPop")
      BY <3>2, MoveOne DEF Places
    <3>. QED
      BY <3>2, <3>3, <3>4, <2>1, <1>1, CountNat DEF Counted
  <2>. QED
    BY <1>11, <2>2, <2>3 DEF Pop, LeaveNotifyingOne, At, AtOf
<1>12. ASSUME NEW t \in Threads, Abort(t)
       PROVE  Counted(at', Len(q'))
  <2>1. AtOf(at', "parkedPush") = {} /\ AtOf(at', "parkedPop") = {}
    BY <1>12 DEF Abort, AtOf
  <2>. QED
    BY <2>1 DEF Counted
<1>13. ASSUME NEW t \in Threads, SpuriousWake(t)
       PROVE  Counted(at', Len(q'))
  <2>1. \/ at[t] = "parkedPush" /\ Moves(at, at', t, "push")
        \/ at[t] = "parkedPop" /\ Moves(at, at', t, "pop")
    BY <1>4, <1>13 DEF SpuriousWake, Moves
  <2>2. q' = q /\ t \in AtOf(at, at[t])
    BY <1>13 DEF SpuriousWake, AtOf
  <2>3. CASE at[t] = "parkedPush" /\ Moves(at, at', t, "push")
    BY <2>2, <2>3, <1>1, MoveOne, CountNat DEF Counted, Places
  <2>4. CASE at[t] = "parkedPop" /\ Moves(at, at', t, "pop")
    BY <2>2, <2>4, <1>1, MoveOne, CountNat DEF Counted, Places
  <2>. QED
    BY <2>1, <2>3, <2>4
<1>14. CASE UNCHANGED vars
  BY <1>14, <1>1 DEF vars
<1>. QED
  BY <1>5, <1>6, <1>7, <1>8, <1>9, <1>10, <1>11, <1>12, <1>13, <1>14 DEF Next

(* NoLostWakeup and AbortReleases, the queue's synchronisation: while a    *)
(* thread is parked, each element (each free slot) has a ready thread to   *)
(* take (fill) it, and abort leaves nobody parked.                         *)
THEOREM WakeupsCorrect == SafeSpec => [](AbortReleases /\ NoLostWakeup)
<1>1. Init => IInv
  BY TypeInit, InvInit DEF IInv
<1>2. IInv /\ [Next]_vars => IInv'
  BY TypeStep, AbortStep, WakeupStep DEF IInv
<1>3. IInv => AbortReleases /\ NoLostWakeup
  BY DEF IInv
<1>. QED
  BY <1>1, <1>2, <1>3, PTL DEF SafeSpec

(* AbortReleases: abort() reaches the threads on both condition variables, *)
(* and none parks after it.                                                *)
THEOREM AbortReleasesWaiters == SafeSpec => []AbortReleases
BY WakeupsCorrect, PTL

(* NoLostWakeup: notify_one on the other condition variable is enough,     *)
(* whatever the interleaving of pushes, pops and spurious wakeups.         *)
THEOREM NotifyOneSuffices == SafeSpec => []NoLostWakeup
BY WakeupsCorrect, PTL

(* NotBothSidesStuck: pushers and poppers are never parked together with   *)
(* no ready thread to release them.  With nobody ready, NoLostWakeup would *)
(* make the buffer empty and full at once.                                 *)
THEOREM NeverBothSidesStuck == SafeSpec => []NotBothSidesStuck
<1>1. TypeOK /\ NoLostWakeup => NotBothSidesStuck
  <2> SUFFICES ASSUME TypeOK, NoLostWakeup,
                      At("parkedPush") # {}, At("parkedPop") # {},
                      At("push") = {}, At("pop") = {}
               PROVE  FALSE
    BY DEF NotBothSidesStuck
  <2>1. Len(q) <= 0 /\ N - Len(q) <= 0
    BY FS_EmptySet DEF NoLostWakeup
  <2>. QED
    BY <2>1, CapacityAssumption DEF TypeOK
<1>. QED
  BY <1>1, TypeCorrect, WakeupsCorrect, PTL

-----------------------------------------------------------------------------
(* The queue implements the channel *)

(* outstanding is a function on threads, in this state and in the next. *)
LEMMA OutstandingFun ==
    /\ outstanding = [t \in Threads |-> Outstanding(at[t])]
    /\ outstanding' = [t \in Threads |-> Outstanding(at'[t])]
BY DEF outstanding

LEMMA ChannelInit == Init => Channel!Init
BY DEF Init, Channel!Init, outstanding, Outstanding

LEMMA ChannelStep == TypeOK /\ [Next]_vars => [Channel!Next]_Channel!vars
<1> SUFFICES ASSUME TypeOK, [Next]_vars
             PROVE  Channel!Next \/ UNCHANGED Channel!vars
  OBVIOUS
<1> USE DEF Outstanding
<1>1. ASSUME NEW t \in Threads, NEW v \in Values, CallPush(t, v)
      PROVE  Channel!BeginPush(t, v)
  <2>1. outstanding[t] = "none" /\ outstanding' = [outstanding EXCEPT ![t] = "push"]
    BY <1>1, OutstandingFun DEF CallPush, TypeOK
  <2>. QED
    BY <1>1, <2>1 DEF CallPush, Channel!BeginPush
<1>2. ASSUME NEW t \in Threads, CallPop(t)
      PROVE  Channel!BeginPop(t)
  <2>1. outstanding[t] = "none" /\ outstanding' = [outstanding EXCEPT ![t] = "pop"]
    BY <1>2, OutstandingFun DEF CallPop, TypeOK
  <2>. QED
    BY <1>2, <2>1 DEF CallPop, Channel!BeginPop
<1>3. ASSUME NEW t \in Threads, ParkPush(t) \/ ParkPop(t) \/ SpuriousWake(t)
      PROVE  UNCHANGED Channel!vars
  <2>1. outstanding' = outstanding
    BY <1>3, OutstandingFun DEF ParkPush, ParkPop, SpuriousWake, TypeOK
  <2>. QED
    BY <1>3, <2>1 DEF ParkPush, ParkPop, SpuriousWake, Channel!vars
<1>4. ASSUME NEW t \in Threads, ThrowAborted(t)
      PROVE  Channel!Fail(t)
  <2>1. outstanding[t] # "none" /\ outstanding' = [outstanding EXCEPT ![t] = "none"]
    BY <1>4, OutstandingFun DEF ThrowAborted, TypeOK
  <2>. QED
    BY <1>4, <2>1 DEF ThrowAborted, Channel!Fail
<1>5. ASSUME NEW t \in Threads, Push(t)
      PROVE  Channel!Send(t)
  <2>1. /\ at'[t] = "idle"
        /\ \A u \in Threads : u # t => Outstanding(at'[u]) = Outstanding(at[u])
    BY <1>5 DEF Push, LeaveNotifyingOne, At, TypeOK
  <2>2. outstanding[t] = "push" /\ outstanding' = [outstanding EXCEPT ![t] = "none"]
    BY <1>5, <2>1, OutstandingFun DEF Push
  <2>3. Len(q) < N
    BY <1>5, CapacityAssumption DEF Push, Full, TypeOK
  <2>. QED
    BY <1>5, <2>2, <2>3 DEF Push, Channel!Send
<1>6. ASSUME NEW t \in Threads, Pop(t)
      PROVE  Channel!Receive(t)
  <2>1. /\ at'[t] = "idle"
        /\ \A u \in Threads : u # t => Outstanding(at'[u]) = Outstanding(at[u])
    BY <1>6 DEF Pop, LeaveNotifyingOne, At, TypeOK
  <2>2. outstanding[t] = "pop" /\ outstanding' = [outstanding EXCEPT ![t] = "none"]
    BY <1>6, <2>1, OutstandingFun DEF Pop
  <2>. QED
    BY <1>6, <2>2 DEF Pop, Empty, Channel!Receive
<1>7. ASSUME NEW t \in Threads, Abort(t)
      PROVE  Channel!Close(t)
  <2>1. outstanding[t] = "none" /\ outstanding' = outstanding
    BY <1>7, OutstandingFun DEF Abort, TypeOK
  <2>. QED
    BY <1>7, <2>1 DEF Abort, Channel!Close
<1>8. CASE UNCHANGED vars
  BY <1>8 DEF vars, Channel!vars, outstanding
<1>. QED
  BY <1>1, <1>2, <1>3, <1>4, <1>5, <1>6, <1>7, <1>8 DEF Next, Channel!Next

(* IsChannel: the queue is a FIFO channel of capacity N.  A step of push   *)
(* or pop past its wait is the step in which the call takes effect;        *)
(* parking and waking are invisible to the callers.                        *)
THEOREM ImplementsChannel == SafeSpec => IsChannel
<1>1. Init => Channel!Init
  BY ChannelInit
<1>2. TypeOK /\ [Next]_vars => [Channel!Next]_Channel!vars
  BY ChannelStep
<1>. QED
  BY <1>1, <1>2, TypeCorrect, PTL DEF SafeSpec, IsChannel, Channel!SafeSpec

=============================================================================
