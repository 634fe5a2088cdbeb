---------------------- MODULE EncodePipelineDataProofs ----------------------
(***************************************************************************)
(* Where the frames of EncodePipeline are, for every number of workers,    *)
(* every queue capacity and every length of the stream, with every fault:  *)
(* in memory (who owns a RawVideoFrame, how many there are), in the MXF    *)
(* (in which order, and which are missing) and on disk (what is left at    *)
(* the end).                                                               *)
(*                                                                         *)
(* EncodePipelineProofs gives the invariant IInv: the queue holds Popped+1,*)
(* Popped+2, ... and the frames 1..Popped are with the workers or listed.  *)
(* On top of it four invariants are proved here: FrameOwnership,           *)
(* PictureOrder, MxfExplained and DiskContents.  The last part takes over  *)
(* the queue's NoLostWakeup and shows from it where the threads can hang.  *)
(***************************************************************************)
EXTENDS EncodePipelineProofs

(* What IInv and the types say of the numbers involved. *)
LEMMA PipelineTypes ==
    IInv => /\ q \in Seq(Frames) /\ Len(q) \in Nat /\ DOMAIN q = 1..Len(q)
            /\ j2kFiles \in Seq(Frames) /\ Len(j2kFiles) \in Nat
            /\ DOMAIN j2kFiles = 1..Len(j2kFiles)
            /\ held \in [Workers -> Frames \cup {NoFrame}]
            /\ wpc \in [Workers -> WorkerPlaces]
            /\ item \in [Threads -> Frames \cup {NoFrame}]
            /\ decoded \in Nat /\ Popped \in Nat
            /\ Main \in Threads /\ NoFrame \notin Frames /\ Frames \subseteq Nat
            /\ Control
<1> SUFFICES ASSUME IInv
             PROVE  /\ q \in Seq(Frames) /\ Len(q) \in Nat /\ DOMAIN q = 1..Len(q)
                    /\ j2kFiles \in Seq(Frames) /\ Len(j2kFiles) \in Nat
                    /\ DOMAIN j2kFiles = 1..Len(j2kFiles)
                    /\ held \in [Workers -> Frames \cup {NoFrame}]
                    /\ wpc \in [Workers -> WorkerPlaces]
                    /\ item \in [Threads -> Frames \cup {NoFrame}]
                    /\ decoded \in Nat /\ Popped \in Nat
                    /\ Main \in Threads /\ NoFrame \notin Frames /\ Frames \subseteq Nat
                    /\ Control
  OBVIOUS
<1>1. /\ q \in Seq(Frames) /\ j2kFiles \in Seq(Frames)
      /\ held \in [Workers -> Frames \cup {NoFrame}]
      /\ wpc \in [Workers -> WorkerPlaces]
      /\ item \in [Threads -> Frames \cup {NoFrame}]
      /\ decoded \in 0..MaxFrames
  BY DEF IInv, TypeOK, Queue!TypeOK
<1>2. /\ Len(q) \in Nat /\ DOMAIN q = 1..Len(q)
      /\ Len(j2kFiles) \in Nat /\ DOMAIN j2kFiles = 1..Len(j2kFiles)
  BY <1>1, LenProperties
<1>3. decoded \in Nat /\ Popped \in Nat
  BY <1>1, <1>2, FramesAssumption DEF IInv, QueueContiguous, Popped
<1>4. Main \in Threads /\ NoFrame \notin Frames /\ Frames \subseteq Nat /\ Control
  BY QueueAssumptions DEF Threads, Frames, IInv, Control
<1>. QED
  BY <1>1, <1>2, <1>3, <1>4

-----------------------------------------------------------------------------
(* Frames in memory *)

(* The numbers of the queued frames, and of the one that is being pushed.  *)
LEMMA QueuedInterval == IInv => Queued = (Popped + 1)..(Popped + Len(q))
<1> SUFFICES ASSUME IInv
             PROVE  Queued = (Popped + 1)..(Popped + Len(q))
  OBVIOUS
<1>1. /\ Len(q) \in Nat /\ Popped \in Nat /\ DOMAIN q = 1..Len(q)
      /\ \A i \in 1..Len(q) : q[i] = Popped + i
  BY PipelineTypes DEF IInv, QueueContiguous
<1>2. Queued = {Popped + i : i \in 1..Len(q)}
  BY <1>1 DEF Queued, ToSet
<1>3. \A f \in (Popped + 1)..(Popped + Len(q)) :
         f - Popped \in 1..Len(q) /\ f = Popped + (f - Popped)
  BY <1>1
<1>4. \A i \in 1..Len(q) : Popped + i \in (Popped + 1)..(Popped + Len(q))
  BY <1>1
<1>. QED
  BY <1>2, <1>3, <1>4

LEMMA PushedFrame ==
    IInv => Pushing = IF mpc = "push" THEN {Popped + Len(q) + 1} ELSE {}
<1> SUFFICES ASSUME IInv
             PROVE  Pushing = IF mpc = "push" THEN {Popped + Len(q) + 1} ELSE {}
  OBVIOUS
<1>1. CASE mpc = "push"
  <2>1. item[Main] = decoded /\ item[Main] # NoFrame
    BY <1>1, PipelineTypes DEF IInv, QueueControl, TypeOK, Queue!TypeOK
  <2>2. decoded = Popped + Len(q) + 1
    BY <1>1, PipelineTypes DEF Popped
  <2>. QED
    BY <1>1, <2>1, <2>2 DEF Pushing
<1>2. CASE mpc # "push"
  <2>1. item[Main] = NoFrame
    BY <1>2, PipelineTypes DEF IInv, QueueControl, TypeOK, Queue!TypeOK
  <2>. QED
    BY <1>2, <2>1 DEF Pushing
<1>. QED
  BY <1>1, <1>2

(* Who owns the allocated frames: what a worker holds it has popped, and   *)
(* nobody else holds it.                                                   *)
FrameOwnership ==
    /\ live = Pushing \cup Queued \cup Held
    /\ \A w \in Workers : held[w] # NoFrame => held[w] \in 1..Popped
    /\ \A v, w \in Workers : held[v] = held[w] /\ held[v] # NoFrame => v = w

LEMMA OwnershipInit == Init => FrameOwnership
<1> SUFFICES ASSUME Init
             PROVE  FrameOwnership
  OBVIOUS
<1>1. q = <<>> /\ item[Main] = NoFrame /\ live = {} /\ \A w \in Workers : held[w] = NoFrame
  BY DEF Init, Queue!Init, Threads
<1>2. Queued = {} /\ Pushing = {} /\ Held = {}
  BY <1>1 DEF Queued, Pushing, Held, ToSet
<1>. QED
  BY <1>1, <1>2 DEF FrameOwnership

(* Taking the front of the queue takes its name from the queued ones.      *)
LEMMA FrontNames ==
    ASSUME NEW S, NEW s \in Seq(S), s # <<>>
    PROVE  ToSet(s) = {Head(s)} \cup ToSet(Tail(s))
<1>1. /\ Tail(s) \in Seq(S) /\ Len(Tail(s)) = Len(s) - 1 /\ Head(s) = s[1]
      /\ \A i \in 1..Len(Tail(s)) : Tail(s)[i] = s[i + 1]
      /\ Len(s) \in Nat /\ Len(s) > 0
  BY HeadTailProperties, EmptySeq, LenProperties
<1>2. DOMAIN s = 1..Len(s) /\ DOMAIN Tail(s) = 1..(Len(s) - 1)
  BY <1>1, LenProperties
<1> DEFINE t == Tail(s)
<1>3. \A i \in 1..Len(s) : i = 1 \/ ((i - 1) \in 1..(Len(s) - 1) /\ s[i] = t[i - 1])
  BY <1>1
<1>4. \A i \in 1..(Len(s) - 1) : i + 1 \in 1..Len(s) /\ t[i] = s[i + 1]
  BY <1>1
<1>5. 1 \in 1..Len(s)
  BY <1>1
<1>6. DOMAIN t = 1..(Len(s) - 1)
  BY <1>2
<1> HIDE DEF t
<1>7. ASSUME NEW x \in ToSet(s)
      PROVE  x \in {s[1]} \cup ToSet(t)
  <2>1. PICK i \in 1..Len(s) : x = s[i]
    BY <1>2 DEF ToSet
  <2>. QED
    BY <1>3, <1>6, <2>1 DEF ToSet
<1>8. ASSUME NEW x \in {s[1]} \cup ToSet(t)
      PROVE  x \in ToSet(s)
  BY <1>2, <1>4, <1>5, <1>6 DEF ToSet
<1>. QED
  BY <1>1, <1>7, <1>8 DEF t

(* The frames in memory change hands in four steps only.                   *)
LEMMA MemoryKept ==
    /\ Control /\ [Next]_vars
    /\ ~DecodeFrame /\ ~PushFrame
    /\ ~(\E w \in Workers : PopFrame(w) \/ FreeFrame(w))
    => UNCHANGED <<q, item, held, live>>
<1> SUFFICES ASSUME [Next]_vars, ~DecodeFrame, ~PushFrame,
                    ~(\E w \in Workers : PopFrame(w) \/ FreeFrame(w))
             PROVE  UNCHANGED <<q, item, held, live>>
  OBVIOUS
<1>1. ASSUME NEW w \in Workers, WorkerStep(w)
      PROVE  UNCHANGED <<q, item, held, live>>
  <2>1. CASE TestSize(w) \/ TestDone(w)
    BY <2>1 DEF TestSize, TestDone, Queue!CallPop, queueVars
  <2>2. CASE PopWaits(w)
    BY <2>2 DEF PopWaits, Queue!ParkPop, workerVars
  <2>3. CASE EncodeAndWrite(w) \/ EncodeThrows(w) \/ RecordFile(w)
    BY <2>3 DEF EncodeAndWrite, EncodeThrows, RecordFile, queueVars, workerVars
  <2>. QED
    BY <1>1, <2>1, <2>2, <2>3 DEF WorkerStep
<1>2. CASE MainStep
  BY <1>2 DEF MainStep, PushWaits, DecodeDone, AudioThrows, JoinAndSort, SkipMux, MuxVideo,
     MuxThrows, MainCleansFile, CleanFile, MainReturns, Queue!ParkPush, queueVars, workerVars
<1>3. CASE HandlerStep \/ \E t \in Threads : SignalArrives(t) \/ SpuriousWake(t)
  BY <1>3 DEF HandlerStep, HandlerCleansFile, CleanFile, HandlerExits, SignalArrives,
     SpuriousWake, Queue!SpuriousWake, queueVars, workerVars
<1>. QED
  BY <1>1, <1>2, <1>3 DEF Next, vars, queueVars, workerVars

LEMMA MainPopsNothing ==
    Control /\ (DecodeFrame \/ PushFrame) => ~(\E w \in Workers : PopFrame(w))
<1>1. ASSUME Control, DecodeFrame \/ PushFrame, NEW w \in Workers, PopFrame(w)
      PROVE  FALSE
  <2>1. wpc \in [Workers -> WorkerPlaces] /\ wpc' = wpc
    BY <1>1 DEF Control, TypeOK, DecodeFrame, PushFrame, workerVars
  <2>2. wpc[w] = "pop" /\ wpc' = [wpc EXCEPT ![w] = "encode"]
    BY <1>1 DEF PopFrame
  <2>. QED
    BY <2>1, <2>2
<1>. QED
  BY <1>1

LEMMA OwnershipStep == IInv /\ FrameOwnership /\ [Next]_vars => FrameOwnership'
<1> SUFFICES ASSUME IInv, FrameOwnership, [Next]_vars
             PROVE  FrameOwnership'
  OBVIOUS
<1>a. /\ q \in Seq(Frames) /\ Len(q) \in Nat
      /\ held \in [Workers -> Frames \cup {NoFrame}]
      /\ item \in [Threads -> Frames \cup {NoFrame}]
      /\ decoded \in Nat /\ Popped \in Nat
      /\ Main \in Threads /\ NoFrame \notin Frames
      /\ Control
  BY PipelineTypes
<1>b. /\ live = Pushing \cup Queued \cup Held
      /\ \A w \in Workers : held[w] # NoFrame => held[w] \in 1..Popped
      /\ \A v, w \in Workers : held[v] = held[w] /\ held[v] # NoFrame => v = w
  BY DEF FrameOwnership
<1>c. Queued = (Popped + 1)..(Popped + Len(q))
  BY QueuedInterval
<1>1. ASSUME NEW w \in Workers, PopFrame(w)
      PROVE  FrameOwnership'
  <2>1. /\ Head(q) = Popped + 1 /\ Popped' = Popped + 1
        /\ held' = [held EXCEPT ![w] = Popped + 1]
    BY <1>1, PoppedNext DEF PopFrame, IInv, Control
  <2>2. /\ q # <<>> /\ q' = Tail(q) /\ item' = item /\ live' = live /\ held[w] = NoFrame
    BY <1>1, <1>a DEF PopFrame, Queue!Pop, Queue!Empty, Control, HeldWhileWorking
  <2>3. Popped + 1 # NoFrame
    BY <1>a, <2>1, <2>2
  <2>4. Queued = {Popped + 1} \cup Queued'
    BY <1>a, <2>1, <2>2, FrontNames DEF Queued
  <2>5. Held' = Held \cup {Popped + 1}
    BY <1>a, <2>1, <2>2, <2>3 DEF Held
  <2>6. live' = (Pushing \cup Queued \cup Held)'
    BY <1>b, <2>2, <2>4, <2>5 DEF Pushing
  <2>7. (\A v \in Workers : held[v] # NoFrame => held[v] \in 1..Popped)'
    BY <1>a, <1>b, <2>1
  <2>8. (\A u, v \in Workers : held[u] = held[v] /\ held[u] # NoFrame => u = v)'
    <3>1. \A v \in Workers : held[v] # Popped + 1
      BY <1>a, <1>b, <2>3
    <3>. QED
      BY <1>a, <1>b, <2>1, <3>1
  <2>. QED
    BY <2>6, <2>7, <2>8 DEF FrameOwnership
<1>2. CASE PushFrame
  <2>1. /\ q' = Append(q, item[Main]) /\ held' = held /\ live' = live
        /\ item' = [item EXCEPT ![Main] = NoFrame]
        /\ item[Main] \in Frames
    BY <1>2, <1>a DEF PushFrame, Queue!Push, workerVars, Control, TypeOK, Queue!TypeOK
  <2>2. Queued' = Queued \cup {item[Main]}
    BY <1>a, <2>1, AppendedNames DEF Queued
  <2>3. Pushing = {item[Main]} /\ Pushing' = {}
    BY <1>a, <2>1 DEF Pushing
  <2>4. Held' = Held
    BY <2>1 DEF Held
  <2>5. Popped' = Popped
    BY <1>2, <1>a, MainPopsNothing, PoppedKept
  <2>. QED
    BY <1>b, <2>1, <2>2, <2>3, <2>4, <2>5 DEF FrameOwnership
<1>3. CASE DecodeFrame
  <2>1. /\ q' = q /\ held' = held /\ live' = live \cup {decoded + 1}
        /\ item' = [item EXCEPT ![Main] = decoded + 1]
        /\ mpc = "decode"
    BY <1>3 DEF DecodeFrame, Queue!CallPush, workerVars
  <2>2. Pushing = {}
    BY <2>1, PushedFrame
  <2>3. Pushing' = {decoded + 1}
    <3>1. decoded + 1 \in Frames
      BY <1>3, <1>a, FramesAssumption DEF DecodeFrame, Frames
    <3>. QED
      BY <1>a, <2>1, <3>1 DEF Pushing
  <2>4. Queued' = Queued /\ Held' = Held
    BY <2>1 DEF Queued, Held
  <2>5. Popped' = Popped
    BY <1>3, <1>a, MainPopsNothing, PoppedKept
  <2>. QED
    BY <1>b, <2>1, <2>2, <2>3, <2>4, <2>5 DEF FrameOwnership
<1>4. ASSUME NEW w \in Workers, FreeFrame(w)
      PROVE  FrameOwnership'
  <2>1. /\ q' = q /\ item' = item /\ live' = live \ {held[w]}
        /\ held' = [held EXCEPT ![w] = NoFrame]
        /\ held[w] # NoFrame
    BY <1>4, <1>a DEF FreeFrame, queueVars, Control, HeldWhileWorking
  <2>2. held[w] \in 1..Popped
    BY <1>b, <2>1
  <2>3. held[w] \notin Queued
    BY <1>a, <1>c, <2>2
  <2>4. held[w] \notin Pushing
    BY <1>a, <2>2, PushedFrame
  <2>5. Held' = Held \ {held[w]}
    BY <1>a, <1>b, <2>1 DEF Held
  <2>6. Queued' = Queued /\ Pushing' = Pushing
    BY <2>1 DEF Queued, Pushing
  <2>7. Popped' = Popped
    BY <1>4, KeptSamePopped DEF FreeFrame, QueueKept, queueVars, mainVars
  <2>8. live' = (Pushing \cup Queued \cup Held)'
    BY <1>b, <2>1, <2>3, <2>4, <2>5, <2>6
  <2>9. (\A v \in Workers : held[v] # NoFrame => held[v] \in 1..Popped)'
    BY <1>a, <1>b, <2>1, <2>7
  <2>10. (\A u, v \in Workers : held[u] = held[v] /\ held[u] # NoFrame => u = v)'
    BY <1>a, <1>b, <2>1
  <2>. QED
    BY <2>8, <2>9, <2>10 DEF FrameOwnership
<1>5. ASSUME ~DecodeFrame, ~PushFrame,
             ~(\E w \in Workers : PopFrame(w) \/ FreeFrame(w))
      PROVE  FrameOwnership'
  <2>1. UNCHANGED <<q, item, held, live>>
    BY <1>5, <1>a, MemoryKept
  <2>2. Popped' = Popped
    BY <1>5, <1>a, PoppedKept
  <2>. QED
    BY <1>b, <2>1, <2>2 DEF FrameOwnership, Pushing, Queued, Held
<1>. QED
  BY <1>1, <1>2, <1>3, <1>4, <1>5

(* The ownership invariant: in the hands of the workers are only frames    *)
(* they popped, each in the hands of one.                                  *)
THEOREM FramesOwned == SafeSpec => [](IInv /\ FrameOwnership)
<1>1. Init => IInv /\ FrameOwnership
  BY InvInit, OwnershipInit
<1>2. IInv /\ FrameOwnership /\ [Next]_vars => (IInv /\ FrameOwnership)'
  BY InvStep, OwnershipStep
<1>. QED
  BY <1>1, <1>2, PTL DEF SafeSpec

Holders == {w \in Workers : held[w] # NoFrame}

(* As many frames are held as there are workers that hold one.             *)
LEMMA HeldSize ==
    ASSUME FrameOwnership
    PROVE  /\ IsFiniteSet(Held)
           /\ Cardinality(Held) = Cardinality(Holders)
           /\ Cardinality(Holders) <= Cardinality(Workers)
           /\ Cardinality(Holders) \in Nat /\ Cardinality(Workers) \in Nat
<1> DEFINE f == [w \in Holders |-> held[w]]
<1>1. /\ IsFiniteSet(Holders)
      /\ Cardinality(Holders) <= Cardinality(Workers)
  <2>1. Holders \in SUBSET Workers
    BY DEF Holders
  <2>. QED
    BY <2>1, WorkersAssumption, FS_Subset
<1>2. f \in Bijection(Holders, Held)
  <2>1. f \in [Holders -> Held]
    BY DEF Holders, Held
  <2>2. \A v, w \in Holders : f[v] = f[w] => v = w
    BY DEF Holders, FrameOwnership
  <2>3. \A h \in Held : \E w \in Holders : f[w] = h
    BY DEF Holders, Held
  <2>. QED
    BY <2>1, <2>2, <2>3 DEF Bijection, Injection, Surjection, IsInjective
<1>3. ExistsBijection(Holders, Held)
  BY <1>2 DEF ExistsBijection
<1>. QED
  BY <1>1, <1>3, WorkersAssumption, FS_Bijection, FS_CardinalityType

(* The three kinds of owners share nothing, so their numbers add up.       *)
LEMMA MemorySize ==
    ASSUME IInv, FrameOwnership
    PROVE  /\ Cardinality(live) = Cardinality(Pushing) + Len(q) + Cardinality(Holders)
           /\ Cardinality(Pushing) \in Nat /\ Cardinality(Pushing) <= 1
<1>a. Popped \in Nat /\ Len(q) \in Nat
  BY PipelineTypes
<1>1. /\ IsFiniteSet(Pushing) /\ Cardinality(Pushing) \in Nat /\ Cardinality(Pushing) <= 1
  <2>1. CASE Pushing = {}
    BY <2>1, FS_EmptySet
  <2>2. CASE Pushing = {Popped + Len(q) + 1}
    <3>1. IsFiniteSet(Pushing) /\ Cardinality(Pushing) = 1
      BY <2>2, FS_Singleton, Zenon
    <3>. QED
      BY <3>1
  <2>. QED
    BY <2>1, <2>2, PushedFrame
<1>2. IsFiniteSet(Queued) /\ Cardinality(Queued) = Len(q)
  <2>1. /\ IsFiniteSet((Popped + 1)..(Popped + Len(q)))
        /\ Cardinality((Popped + 1)..(Popped + Len(q))) =
             IF Popped + 1 > Popped + Len(q) THEN 0
                                             ELSE (Popped + Len(q)) - (Popped + 1) + 1
    <3>1. Popped + 1 \in Int /\ Popped + Len(q) \in Int
      BY <1>a
    <3>. QED
      BY <3>1, FS_Interval, Zenon
  <2>. QED
    BY <1>a, <2>1, QueuedInterval
<1>3. IsFiniteSet(Held) /\ Cardinality(Held) = Cardinality(Holders)
  BY HeldSize
<1>4. Pushing \cap Queued = {}
  BY <1>a, PushedFrame, QueuedInterval
<1>5. (Pushing \cup Queued) \cap Held = {}
  <2>1. Held \subseteq 1..Popped
    BY DEF FrameOwnership, Held
  <2>. QED
    BY <1>a, <2>1, PushedFrame, QueuedInterval
<1>6. /\ IsFiniteSet(Pushing \cup Queued)
      /\ Cardinality(Pushing \cup Queued) = Cardinality(Pushing) + Len(q)
  <2>1. /\ IsFiniteSet(Pushing \cup Queued)
        /\ Cardinality(Pushing \cup Queued) =
             Cardinality(Pushing) + Cardinality(Queued) - Cardinality(Pushing \cap Queued)
    BY <1>1, <1>2, FS_Union, Zenon
  <2>2. Cardinality(Pushing \cap Queued) = 0
    BY <1>4, FS_EmptySet, Zenon
  <2>. QED
    BY <1>a, <1>1, <1>2, <2>1, <2>2
<1>7. Cardinality((Pushing \cup Queued) \cup Held)
        = Cardinality(Pushing) + Len(q) + Cardinality(Holders)
  <2>1. Cardinality((Pushing \cup Queued) \cup Held) =
          Cardinality(Pushing \cup Queued) + Cardinality(Held)
            - Cardinality((Pushing \cup Queued) \cap Held)
    BY <1>3, <1>6, FS_Union, Zenon
  <2>2. Cardinality((Pushing \cup Queued) \cap Held) = 0
    BY <1>5, FS_EmptySet, Zenon
  <2>3. Cardinality(Holders) \in Nat
    BY HeldSize
  <2>. QED
    BY <1>a, <1>1, <1>3, <1>6, <2>1, <2>2, <2>3
<1>. QED
  BY <1>1, <1>7 DEF FrameOwnership

(* OneOwnerPerFrame: no interleaving of main, the workers and the signal   *)
(* handler leaks a RawVideoFrame, frees one twice or gives it two owners.  *)
THEOREM NoLeakNoSharing == SafeSpec => []OneOwnerPerFrame
<1>1. IInv /\ FrameOwnership => OneOwnerPerFrame
  BY MemorySize DEF OneOwnerPerFrame, FrameOwnership, Holders
<1>. QED
  BY <1>1, FramesOwned, PTL

(* MemoryBounded: the capacity of the queue and the number of workers      *)
(* bound the frames in memory, however long the stream is.                 *)
THEOREM BackpressureHolds == SafeSpec => []MemoryBounded
<1>1. IInv /\ FrameOwnership => MemoryBounded
  <2> SUFFICES ASSUME IInv, FrameOwnership
               PROVE  MemoryBounded
    OBVIOUS
  <2>1. Len(q) <= QueueSize /\ Len(q) \in Nat
    BY PipelineTypes DEF IInv, TypeOK, Queue!TypeOK
  <2>. QED
    BY <2>1, MemorySize, HeldSize, QueueSizeAssumption DEF MemoryBounded
<1>. QED
  BY <1>1, FramesOwned, PTL

-----------------------------------------------------------------------------
(* Frames in the MXF *)

(* A sorted list of distinct numbers that are exactly 1..n counts upwards: *)
(* entry i and its predecessors are i numbers, and they fill 1..t[i].      *)
LEMMA SortedCounts ==
    ASSUME NEW n \in Nat, NEW t \in Seq(Nat), ToSet(t) = 1..n, IsInjective(t),
           \A i, j \in DOMAIN t : i < j => t[i] <= t[j],
           NEW i \in DOMAIN t
    PROVE  t[i] = i
<1>1. DOMAIN t = 1..Len(t) /\ Len(t) \in Nat
  BY LenProperties
<1>2. \A k \in DOMAIN t : t[k] \in 1..n
  BY DEF ToSet
<1>3. \A m \in 1..n : \E k \in DOMAIN t : t[k] = m
  <2>1. \A m \in ToSet(t) : \E k \in DOMAIN t : t[k] = m
    BY DEF ToSet
  <2>. QED
    BY <2>1
<1>4. \A k, l \in DOMAIN t : t[k] = t[l] => k = l
  BY DEF IsInjective
<1> DEFINE f == [k \in 1..i |-> t[k]]
<1>5. i \in Nat /\ i >= 1 /\ 1..i \subseteq DOMAIN t /\ t[i] \in 1..n
  BY <1>1, <1>2
<1>6. \A k \in 1..i : t[k] \in 1..t[i]
  BY <1>1, <1>2, <1>5
<1>7. \A m \in 1..t[i] : \E k \in 1..i : t[k] = m
  <2> SUFFICES ASSUME NEW m \in 1..t[i]
               PROVE  \E k \in 1..i : t[k] = m
    OBVIOUS
  <2>1. m \in 1..n
    BY <1>5
  <2>2. PICK k \in DOMAIN t : t[k] = m
    BY <1>3, <2>1
  <2>3. k \in 1..i
    <3>1. CASE k > i
      <4>1. t[i] <= t[k]
        BY <1>1, <1>5, <3>1
      <4>2. t[i] = t[k]
        BY <1>5, <2>2, <4>1
      <4>. QED
        BY <1>1, <1>4, <3>1, <4>2
    <3>2. CASE k <= i
      BY <1>1, <1>5, <3>2
    <3>. QED
      BY <1>1, <1>5, <3>1, <3>2
  <2>. QED
    BY <2>2, <2>3
<1>8. f \in Bijection(1..i, 1..t[i])
  <2>1. f \in [1..i -> 1..t[i]]
    BY <1>6
  <2>2. \A k, l \in 1..i : f[k] = f[l] => k = l
    BY <1>4, <1>5
  <2>3. \A m \in 1..t[i] : \E k \in 1..i : f[k] = m
    BY <1>7
  <2>. QED
    BY <2>1, <2>2, <2>3 DEF Bijection, Injection, Surjection, IsInjective
<1>9. ExistsBijection(1..i, 1..t[i])
  BY <1>8, Zenon DEF ExistsBijection
<1>10. /\ IsFiniteSet(1..i)
       /\ Cardinality(1..i) = IF 1 > i THEN 0 ELSE i - 1 + 1
       /\ Cardinality(1..t[i]) = IF 1 > t[i] THEN 0 ELSE t[i] - 1 + 1
  <2>1. 1 \in Int /\ i \in Int /\ t[i] \in Int
    BY <1>5
  <2>. QED
    BY <2>1, FS_Interval, Zenon
<1>11. Cardinality(1..t[i]) = Cardinality(1..i)
  BY <1>9, <1>10, FS_Bijection, Zenon
<1>. QED
  BY <1>5, <1>10, <1>11

(* The sorted list counts from its first entry on, and so does the MXF.    *)
PictureOrder ==
    /\ mpc \in {"mux", "clean"} => \A i \in DOMAIN j2kFiles : j2kFiles[i] = i
    /\ MxfInPictureOrder

LEMMA PictureOrderInit == Init => PictureOrder
BY DEF Init, PictureOrder, MxfInPictureOrder

LEMMA JoinPutsInOrder ==
    ASSUME IInv, JoinAndSort
    PROVE  \A i \in DOMAIN j2kFiles' : j2kFiles'[i] = i
<1> DEFINE t == j2kFiles'
<1>1. Recorded = 1..Popped /\ IsInjective(j2kFiles) /\ Popped \in Nat
  <2>1. Working = {}
    BY DEF JoinAndSort, Working
  <2>. QED
    BY <2>1, PipelineTypes DEF IInv, PoppedAccounted, RecordedOnce
<1>2. j2kFiles \in Seq(Frames) /\ t \in Sortings(j2kFiles) /\ Frames \subseteq Nat
  BY PipelineTypes DEF JoinAndSort
<1>3. t \in Seq(Frames) /\ Len(t) = Len(j2kFiles) /\ ToSet(t) = 1..Popped /\ IsInjective(t)
  BY <1>1, <1>2, SortedNames DEF Recorded
<1>4. t \in Seq(Nat)
  <2>1. t \in [1..Len(t) -> Frames] /\ Len(t) \in Nat
    BY <1>3, LenProperties
  <2>2. t \in [1..Len(t) -> Nat]
    BY <1>2, <2>1
  <2>. QED
    BY <2>1, <2>2, SeqDef, Zenon
<1>5. DOMAIN t = DOMAIN j2kFiles
  BY <1>2, <1>3, LenProperties
<1>6. \A i, j \in DOMAIN t : i < j => t[i] <= t[j]
  BY <1>2, <1>5 DEF Sortings
<1> HIDE DEF t
<1>7. \A i \in DOMAIN t : t[i] = i
  BY <1>1, <1>3, <1>4, <1>6, SortedCounts
<1>. QED
  BY <1>7 DEF t

(* What main's steps and the others do to the list, the MXF and mpc.       *)
LEMMA OrderKept ==
    /\ IInv /\ [Next]_vars /\ ~JoinAndSort /\ ~MuxVideo
    => /\ mxf' = mxf
       /\ mpc' \in {"mux", "clean"} => mpc \in {"mux", "clean"} /\ j2kFiles' = j2kFiles
<1> SUFFICES ASSUME IInv, [Next]_vars, ~JoinAndSort, ~MuxVideo
             PROVE  /\ mxf' = mxf
                    /\ mpc' \in {"mux", "clean"} =>
                          mpc \in {"mux", "clean"} /\ j2kFiles' = j2kFiles
  OBVIOUS
<1>1. ASSUME NEW w \in Workers, WorkerStep(w)
      PROVE  mxf' = mxf /\ mpc' = mpc /\ mpc \notin {"mux", "clean"}
  <2>1. wpc[w] # "exited" /\ mxf' = mxf /\ mpc' = mpc
    BY <1>1 DEF WorkerStep, TestSize, TestDone, PopWaits, PopFrame, EncodeAndWrite,
       EncodeThrows, RecordFile, FreeFrame, mainVars
  <2>. QED
    BY <2>1 DEF IInv, JoinedMeansExited
<1>2. CASE MainStep
  BY <1>2 DEF MainStep, DecodeFrame, PushWaits, PushFrame, DecodeDone, AudioThrows, SkipMux,
     MuxThrows, MainCleansFile, CleanFile, MainReturns, mainVars, fileVars
<1>3. CASE HandlerStep \/ \E t \in Threads : SignalArrives(t) \/ SpuriousWake(t)
  BY <1>3 DEF HandlerStep, HandlerCleansFile, CleanFile, HandlerExits, SignalArrives,
     SpuriousWake, mainVars, fileVars
<1>. QED
  BY <1>1, <1>2, <1>3 DEF Next, vars, mainVars, fileVars

LEMMA PictureOrderStep == IInv /\ PictureOrder /\ [Next]_vars => PictureOrder'
<1> SUFFICES ASSUME IInv, PictureOrder, [Next]_vars
             PROVE  PictureOrder'
  OBVIOUS
<1>1. CASE JoinAndSort
  <2>1. \A i \in DOMAIN j2kFiles' : j2kFiles'[i] = i
    BY <1>1, JoinPutsInOrder
  <2>2. mxf' = mxf
    BY <1>1 DEF JoinAndSort
  <2>. QED
    BY <2>1, <2>2 DEF PictureOrder, MxfInPictureOrder
<1>2. CASE MuxVideo
  <2>1. /\ mpc = "mux" /\ j2kFiles' = j2kFiles
        /\ \A i \in DOMAIN j2kFiles : j2kFiles[i] = i
    BY <1>2 DEF MuxVideo, fileVars, PictureOrder
  <2>2. PICK k \in 0..Len(j2kFiles), finalized \in BOOLEAN :
             mxf' = [frames |-> SubSeq(j2kFiles, 1, k), finalized |-> finalized]
    BY <1>2 DEF MuxVideo
  <2>3. j2kFiles \in Seq(Frames) /\ Len(j2kFiles) \in Nat /\ DOMAIN j2kFiles = 1..Len(j2kFiles)
    BY PipelineTypes
  <2>4. \A i \in 1..k : i \in DOMAIN j2kFiles /\ j2kFiles[i] \in Frames
    BY <2>3
  <2>5. /\ SubSeq(j2kFiles, 1, k) \in Seq(Frames) /\ Len(SubSeq(j2kFiles, 1, k)) = k
        /\ \A i \in 1..k : SubSeq(j2kFiles, 1, k)[i] = j2kFiles[i]
    BY <2>3, <2>4
  <2>6. /\ DOMAIN SubSeq(j2kFiles, 1, k) = 1..k
        /\ \A i \in 1..k : SubSeq(j2kFiles, 1, k)[i] = i
    BY <2>1, <2>4, <2>5
  <2>. QED
    BY <2>1, <2>2, <2>6 DEF PictureOrder, MxfInPictureOrder
<1>3. CASE ~JoinAndSort /\ ~MuxVideo
  BY <1>3, OrderKept DEF PictureOrder, MxfInPictureOrder
<1>. QED
  BY <1>1, <1>2, <1>3

(* MxfInPictureOrder: in whatever order the workers finish, and wherever   *)
(* the mux is cut short, the MXF holds frames 1, 2, ..., k.                *)
THEOREM EssenceInPictureOrder == SafeSpec => []MxfInPictureOrder
<1>1. Init => IInv /\ PictureOrder
  BY InvInit, PictureOrderInit
<1>2. IInv /\ PictureOrder /\ [Next]_vars => (IInv /\ PictureOrder)'
  BY InvStep, PictureOrderStep
<1>3. IInv /\ PictureOrder => MxfInPictureOrder
  BY DEF PictureOrder
<1>. QED
  BY <1>1, <1>2, <1>3, PTL DEF SafeSpec

(* Only the mux finalizes, and nothing it was measured by changes later.   *)
MxfExplained == (mxf.finalized => mpc = "clean") /\ FinalizedExplained

LEMMA MuxExplained == IInv /\ PictureOrder /\ MuxVideo => MxfExplained'
<1> SUFFICES ASSUME IInv, PictureOrder, MuxVideo
             PROVE  MxfExplained'
  OBVIOUS
<1>a. /\ mpc = "mux" /\ mpc' = "clean"
      /\ j2kFiles' = j2kFiles /\ q' = q /\ decoded' = decoded /\ empty' = empty
  BY DEF MuxVideo, queueVars, fileVars
<1>b. /\ j2kFiles \in Seq(Frames) /\ Len(j2kFiles) \in Nat
      /\ DOMAIN j2kFiles = 1..Len(j2kFiles) /\ Popped \in Nat
  BY PipelineTypes
<1>c. \A i \in 1..Len(j2kFiles) : j2kFiles[i] = i
  BY <1>a, <1>b DEF PictureOrder
<1>1. PICK k \in 0..Len(j2kFiles), finalized \in BOOLEAN :
           /\ finalized => EndOfFileAfter(k)
           /\ mxf' = [frames |-> SubSeq(j2kFiles, 1, k), finalized |-> finalized]
  BY DEF MuxVideo
<1>2. Len(mxf'.frames) = k
  <2>1. \A i \in 1..k : j2kFiles[i] \in Frames
    BY <1>b
  <2>2. Len(SubSeq(j2kFiles, 1, k)) = k
    BY <1>b, <2>1
  <2>. QED
    BY <1>1, <2>2
<1>3. CASE k = Len(j2kFiles)
  <2>1. Recorded = 1..Popped
    BY <1>a DEF IInv, JoinedMeansExited, PoppedAccounted, Working
  <2>2. Recorded = 1..Len(j2kFiles)
    BY <1>b, <1>c DEF Recorded, ToSet
  <2>3. Len(j2kFiles) = Popped
    <3>1. \A m, n \in Nat : (m = 0 \/ m \in 1..n) /\ (n = 0 \/ n \in 1..m) => m = n
      OBVIOUS
    <3>2. \A n \in Nat : n = 0 \/ n \in 1..n
      OBVIOUS
    <3>3. 1..Popped = 1..Len(j2kFiles)
      BY <2>1, <2>2
    <3>. QED
      BY <1>b, <3>1, <3>2, <3>3
  <2>4. k = decoded - Len(q)
    BY <1>a, <1>3, <2>3, PipelineTypes DEF Popped
  <2>. QED
    BY <1>a, <1>2, <2>4 DEF MxfExplained, FinalizedExplained
<1>4. CASE k < Len(j2kFiles)
  <2>1. k + 1 \in 1..Len(j2kFiles) /\ j2kFiles[k + 1] = k + 1
    BY <1>b, <1>c, <1>4
  <2>2. finalized => k + 1 \in empty
    BY <1>1, <1>4, <2>1 DEF EndOfFileAfter
  <2>. QED
    BY <1>1, <1>a, <1>2, <2>2 DEF MxfExplained, FinalizedExplained
<1>5. k = Len(j2kFiles) \/ k < Len(j2kFiles)
  <2>1. \A n \in Nat : \A i \in 0..n : i = n \/ i < n
    OBVIOUS
  <2>. QED
    BY <1>b, <1>1, <2>1
<1>. QED
  BY <1>3, <1>4, <1>5

(* After the mux no worker is left to change what the MXF is measured by.  *)
LEMMA CleanKept ==
    IInv /\ mpc = "clean" /\ [Next]_vars => UNCHANGED <<mxf, mpc, q, decoded, empty>>
<1> SUFFICES ASSUME IInv, mpc = "clean", [Next]_vars
             PROVE  UNCHANGED <<mxf, mpc, q, decoded, empty>>
  OBVIOUS
<1>1. ASSUME NEW w \in Workers, WorkerStep(w)
      PROVE  FALSE
  BY <1>1 DEF WorkerStep, TestSize, TestDone, PopWaits, PopFrame, EncodeAndWrite,
     EncodeThrows, RecordFile, FreeFrame, IInv, JoinedMeansExited
<1>2. CASE MainStep
  BY <1>2 DEF MainStep, DecodeFrame, PushWaits, PushFrame, DecodeDone, AudioThrows,
     JoinAndSort, SkipMux, MuxVideo, MuxThrows, MainCleansFile, CleanFile, MainReturns,
     mainVars, fileVars, queueVars
<1>3. CASE HandlerStep \/ \E t \in Threads : SignalArrives(t) \/ SpuriousWake(t)
  BY <1>3 DEF HandlerStep, HandlerCleansFile, CleanFile, HandlerExits, SignalArrives,
     SpuriousWake, Queue!SpuriousWake, mainVars, fileVars, queueVars
<1>. QED
  BY <1>1, <1>2, <1>3 DEF Next, vars, mainVars, fileVars, queueVars

LEMMA ExplainedStep ==
    IInv /\ PictureOrder /\ MxfExplained /\ [Next]_vars => MxfExplained'
<1> SUFFICES ASSUME IInv, PictureOrder, MxfExplained, [Next]_vars
             PROVE  MxfExplained'
  OBVIOUS
<1>1. CASE MuxVideo
  BY <1>1, MuxExplained
<1>2. CASE mpc = "clean"
  BY <1>2, CleanKept DEF MxfExplained, FinalizedExplained
<1>3. CASE mpc # "clean" /\ ~MuxVideo
  <2>1. mxf' = mxf
    BY <1>3, OrderKept DEF JoinAndSort
  <2>. QED
    BY <1>3, <2>1 DEF MxfExplained, FinalizedExplained
<1>. QED
  BY <1>1, <1>2, <1>3

(* FinalizedExplained: an MXF that looks complete lacks frames for two     *)
(* reasons only, whatever goes wrong: they were still queued when the      *)
(* workers left, or an empty j2k file passed for the end of the stream.    *)
THEOREM ShortMxfExplained == SafeSpec => []FinalizedExplained
<1>1. Init => IInv /\ PictureOrder /\ MxfExplained
  BY InvInit, PictureOrderInit DEF Init, MxfExplained, FinalizedExplained
<1>2. IInv /\ PictureOrder /\ MxfExplained /\ [Next]_vars
        => (IInv /\ PictureOrder /\ MxfExplained)'
  BY InvStep, PictureOrderStep, ExplainedStep
<1>3. IInv /\ PictureOrder /\ MxfExplained => FinalizedExplained
  BY DEF MxfExplained
<1>. QED
  BY <1>1, <1>2, <1>3, PTL DEF SafeSpec

-----------------------------------------------------------------------------
(* Frames on disk *)

(* The listed files that main's CleanFiles has still before it.            *)
Remaining == {j2kFiles[k] : k \in cursor["main"]..Len(j2kFiles)}

(* What is in the temp directory as long as no signal has hit: until main  *)
(* cleans, the listed files and those about to be listed; then what main's *)
(* loop has not reached yet.  return 0 is reached at the end of that loop. *)
DiskContents ==
    /\ sig = NoFrame /\ mpc \notin {"clean", "abandon"} =>
          tempDir = Recorded \cup Recording /\ cursor["main"] = 1
    /\ sig = NoFrame /\ mpc = "clean" =>
          tempDir = IF noMux THEN Recorded
                    ELSE IF cursor["main"] = Cleaned THEN {} ELSE Remaining
    /\ outcome = "finished" =>
          /\ sig = NoFrame /\ mpc = "clean"
          /\ noMux \/ cursor["main"] = Cleaned

LEMMA DiskInit == Init => DiskContents
<1> SUFFICES ASSUME Init
             PROVE  DiskContents
  OBVIOUS
<1>1. tempDir = {} /\ cursor["main"] = 1 /\ mpc = "decode" /\ outcome = "running"
  BY DEF Init, Cleaners
<1>2. Recorded = {} /\ Recording = {}
  BY DEF Init, Recorded, ToSet, Recording
<1>. QED
  BY <1>1, <1>2 DEF DiskContents

(* A process that has ended does nothing more.                             *)
LEMMA EndedStops == outcome # "running" /\ [Next]_vars => UNCHANGED vars
<1> SUFFICES ASSUME outcome # "running", Next
             PROVE  FALSE
  OBVIOUS
<1>1. ~(\E w \in Workers : WorkerStep(w))
  BY DEF WorkerStep, TestSize, TestDone, PopWaits, PopFrame, EncodeAndWrite, EncodeThrows,
     RecordFile, FreeFrame, Runs
<1>2. ~MainStep
  BY DEF MainStep, DecodeFrame, PushWaits, PushFrame, DecodeDone, AudioThrows, JoinAndSort,
     SkipMux, MuxVideo, MuxThrows, MainCleansFile, MainReturns, Runs
<1>3. ~HandlerStep /\ ~(\E t \in Threads : SignalArrives(t) \/ SpuriousWake(t))
  BY DEF HandlerStep, HandlerCleansFile, HandlerExits, SignalArrives, SpuriousWake, Runs
<1>. QED
  BY <1>1, <1>2, <1>3 DEF Next

(* Before main cleans, a file is written when its worker starts to record  *)
(* it, and stays a file when it is listed.                                 *)
LEMMA WorkerFiles ==
    ASSUME IInv, NEW w \in Workers, WorkerStep(w), tempDir = Recorded \cup Recording
    PROVE  tempDir' = (Recorded \cup Recording)'
<1>a. /\ wpc \in [Workers -> WorkerPlaces]
      /\ held \in [Workers -> Frames \cup {NoFrame}]
      /\ j2kFiles \in Seq(Frames) /\ NoFrame \notin Frames
  BY PipelineTypes
<1>1. CASE TestSize(w) \/ TestDone(w) \/ PopWaits(w) \/ PopFrame(w) \/ EncodeThrows(w)
           \/ FreeFrame(w)
  <2>1. Recording' = Recording
    BY <1>a, <1>1 DEF TestSize, TestDone, PopWaits, PopFrame, EncodeThrows, FreeFrame,
       workerVars, Recording
  <2>2. Recorded' = Recorded /\ tempDir' = tempDir
    BY <1>1 DEF TestSize, TestDone, PopWaits, PopFrame, EncodeThrows, FreeFrame, fileVars,
       Recorded
  <2>. QED
    BY <2>1, <2>2
<1>2. CASE EncodeAndWrite(w)
  <2>1. Recording' = Recording \cup {held[w]} /\ tempDir' = tempDir \cup {held[w]}
    BY <1>a, <1>2 DEF EncodeAndWrite, Recording
  <2>2. Recorded' = Recorded
    BY <1>2 DEF EncodeAndWrite, Recorded
  <2>. QED
    BY <2>1, <2>2
<1>3. CASE RecordFile(w)
  <2>1. Recording = Recording' \cup {held[w]} /\ tempDir' = tempDir
    BY <1>a, <1>3 DEF RecordFile, Recording
  <2>2. held[w] \in Frames
    BY <1>a, <1>3 DEF RecordFile, IInv, HeldWhileWorking
  <2>3. Recorded' = Recorded \cup {held[w]}
    BY <1>a, <1>3, <2>2, AppendedNames DEF RecordFile, Recorded
  <2>. QED
    BY <2>1, <2>3
<1>. QED
  BY <1>1, <1>2, <1>3 DEF WorkerStep

(* Once main has joined, nothing is about to be listed, and main's loop    *)
(* has the whole list before it.                                           *)
LEMMA FilesWhenJoined ==
    ASSUME IInv, mpc \in {"mux", "clean"}
    PROVE  /\ Recording = {}
           /\ cursor["main"] = 1 => Remaining = Recorded
<1>1. Recording = {}
  BY DEF IInv, JoinedMeansExited, Recording
<1>2. cursor["main"] = 1 => Remaining = Recorded
  BY PipelineTypes DEF Remaining, Recorded, ToSet
<1>. QED
  BY <1>1, <1>2

(* One turn of main's loop: the file under the iterator goes, and it was   *)
(* there once only.                                                        *)
LEMMA MainCleans ==
    ASSUME IInv, CleanFile("main"), mpc = "clean", tempDir = Remaining
    PROVE  tempDir' = IF cursor'["main"] = Cleaned THEN {} ELSE Remaining'
<1>a. /\ cursor \in [Cleaners -> Nat] /\ "main" \in Cleaners /\ cursor["main"] \in Nat \ {0}
      /\ Len(j2kFiles) \in Nat /\ DOMAIN j2kFiles = 1..Len(j2kFiles)
      /\ \A k, l \in 1..Len(j2kFiles) : j2kFiles[k] = j2kFiles[l] => k = l
      /\ j2kFiles' = j2kFiles
  BY PipelineTypes DEF CleanFile, Cleaned, Cleaners, IInv, TypeOK, PoppedAccounted,
     RecordedOnce, IsInjective
<1> DEFINE c == cursor["main"]
<1>1. CASE c <= Len(j2kFiles)
  <2>1. tempDir' = tempDir \ {j2kFiles[c]} /\ cursor'["main"] = c + 1
    BY <1>a, <1>1 DEF CleanFile
  <2>2. Remaining' = {j2kFiles[k] : k \in (c + 1)..Len(j2kFiles)}
    BY <1>a, <2>1 DEF Remaining
  <2>3. c + 1 # Cleaned
    BY <1>a DEF Cleaned
  <2>4. c..Len(j2kFiles) = {c} \cup ((c + 1)..Len(j2kFiles)) /\ c \notin (c + 1)..Len(j2kFiles)
    BY <1>a, <1>1
  <2>5. \A k \in (c + 1)..Len(j2kFiles) : j2kFiles[k] # j2kFiles[c]
    BY <1>a, <1>1
  <2>6. Remaining = {j2kFiles[k] : k \in c..Len(j2kFiles)}
    BY DEF Remaining
  <2> HIDE DEF c
  <2>7. {j2kFiles[k] : k \in c..Len(j2kFiles)} \ {j2kFiles[c]}
          = {j2kFiles[k] : k \in (c + 1)..Len(j2kFiles)}
    BY <2>4, <2>5
  <2>. QED
    BY <2>1, <2>2, <2>3, <2>6, <2>7
<1>2. CASE c > Len(j2kFiles)
  <2>1. tempDir' = tempDir /\ cursor'["main"] = Cleaned
    BY <1>a, <1>2 DEF CleanFile
  <2>2. Remaining = {}
    BY <1>a, <1>2 DEF Remaining
  <2>. QED
    BY <2>1, <2>2
<1>. QED
  BY <1>a, <1>1, <1>2

LEMMA DiskMainStep == IInv /\ DiskContents /\ MainStep => DiskContents'
<1> SUFFICES ASSUME IInv, DiskContents, MainStep
             PROVE  DiskContents'
  OBVIOUS
<1>a. outcome = "running"
  BY DEF MainStep, DecodeFrame, PushWaits, PushFrame, DecodeDone, AudioThrows, JoinAndSort,
     SkipMux, MuxVideo, MuxThrows, MainCleansFile, MainReturns, Runs
<1>b. sig' = sig /\ Recording' = Recording /\ noMux' = noMux
  BY DEF MainStep, DecodeFrame, PushWaits, PushFrame, DecodeDone, AudioThrows,
     JoinAndSort, SkipMux, MuxVideo, MuxThrows, MainCleansFile, CleanFile, MainReturns,
     workerVars, mainVars, endVars, Recording
<1>1. CASE DecodeFrame \/ PushWaits \/ PushFrame \/ DecodeDone
  <2>1. /\ tempDir' = tempDir /\ Recorded' = Recorded /\ cursor' = cursor
        /\ outcome' = outcome
        /\ mpc \notin {"clean", "abandon"} /\ mpc' \notin {"clean", "abandon"}
    BY <1>1 DEF DecodeFrame, PushWaits, PushFrame, DecodeDone, fileVars, mainVars, endVars,
       Recorded
  <2>. QED
    BY <1>a, <1>b, <2>1 DEF DiskContents
<1>2. CASE AudioThrows \/ MuxThrows
  <2>1. mpc' = "abandon" /\ outcome' = outcome
    BY <1>2 DEF AudioThrows, MuxThrows, endVars
  <2>. QED
    BY <1>a, <2>1 DEF DiskContents
<1>3. CASE JoinAndSort
  <2>1. /\ tempDir' = tempDir /\ cursor' = cursor /\ outcome' = outcome
        /\ mpc \notin {"clean", "abandon"} /\ mpc' \notin {"clean", "abandon"}
    BY <1>3 DEF JoinAndSort, endVars
  <2>2. Recorded' = Recorded
    BY <1>3, PipelineTypes, SortedNames DEF JoinAndSort, Recorded
  <2>. QED
    BY <1>a, <1>b, <2>1, <2>2 DEF DiskContents
<1>4. CASE SkipMux \/ MuxVideo
  <2>1. /\ tempDir' = tempDir /\ j2kFiles' = j2kFiles /\ cursor' = cursor
        /\ outcome' = outcome /\ mpc = "mux" /\ mpc' = "clean"
    BY <1>4 DEF SkipMux, MuxVideo, fileVars, endVars
  <2>2. Recorded' = Recorded /\ Remaining' = Remaining
    BY <2>1 DEF Recorded, Remaining
  <2>3. Recording = {} /\ (cursor["main"] = 1 => Remaining = Recorded)
    BY <2>1, FilesWhenJoined
  <2>. QED
    BY <1>a, <1>b, <2>1, <2>2, <2>3 DEF DiskContents, Cleaned
<1>5. CASE MainCleansFile
  <2>1. /\ CleanFile("main") /\ mpc \in {"clean", "abandon"} /\ (mpc = "clean" => ~noMux)
        /\ mpc' = mpc /\ outcome' = outcome
    BY <1>5 DEF MainCleansFile, CleanFile, mainVars
  <2>2. CASE mpc = "clean" /\ sig = NoFrame
    <3>1. tempDir = Remaining
      BY <2>1, <2>2 DEF DiskContents, CleanFile
    <3>2. tempDir' = IF cursor'["main"] = Cleaned THEN {} ELSE Remaining'
      BY <2>1, <2>2, <3>1, MainCleans
    <3>. QED
      BY <1>a, <1>b, <2>1, <2>2, <3>2 DEF DiskContents
  <2>3. CASE mpc = "abandon" \/ sig # NoFrame
    BY <1>a, <1>b, <2>1, <2>3 DEF DiskContents
  <2>. QED
    BY <2>1, <2>2, <2>3
<1>6. CASE MainReturns
  <2>1. /\ tempDir' = tempDir /\ j2kFiles' = j2kFiles /\ cursor' = cursor /\ mpc' = mpc
        /\ mpc \in {"clean", "abandon"}
        /\ outcome' = "finished" => mpc = "clean" /\ (noMux \/ cursor["main"] = Cleaned)
    BY <1>6 DEF MainReturns, fileVars, mainVars
  <2>2. Recorded' = Recorded /\ Remaining' = Remaining
    BY <2>1 DEF Recorded, Remaining
  <2>3. mpc = "clean" => sig = NoFrame
    BY <1>6 DEF MainReturns, Runs, IInv, TypeOK, Threads, JoinedMeansExited, FilesKept
  <2>. QED
    BY <1>b, <2>1, <2>2, <2>3 DEF DiskContents
<1>. QED
  BY <1>1, <1>2, <1>3, <1>4, <1>5, <1>6 DEF MainStep

LEMMA DiskStep == IInv /\ DiskContents /\ [Next]_vars => DiskContents'
<1> SUFFICES ASSUME IInv, DiskContents, [Next]_vars
             PROVE  DiskContents'
  OBVIOUS
<1>1. CASE outcome # "running" \/ UNCHANGED vars
  <2>1. UNCHANGED vars
    BY <1>1, EndedStops
  <2>. QED
    BY <2>1 DEF vars, fileVars, workerVars, mainVars, endVars, DiskContents, Recorded,
       Recording, Remaining
<1>2. ASSUME outcome = "running", NEW w \in Workers, WorkerStep(w)
      PROVE  DiskContents'
  <2>1. /\ sig' = sig /\ cursor' = cursor /\ mpc' = mpc
        /\ outcome' # "finished" /\ wpc[w] # "exited"
    BY <1>2 DEF WorkerStep, TestSize, TestDone, PopWaits, PopFrame, EncodeAndWrite,
       EncodeThrows, RecordFile, FreeFrame, mainVars, endVars
  <2>2. mpc \notin {"mux", "clean"}
    BY <2>1 DEF IInv, JoinedMeansExited
  <2>. QED
    BY <1>2, <2>1, <2>2, WorkerFiles DEF DiskContents
<1>3. ASSUME outcome = "running", MainStep
      PROVE  DiskContents'
  BY <1>3, DiskMainStep
<1>4. ASSUME outcome = "running", HandlerStep
      PROVE  DiskContents'
  <2>1. sig' # NoFrame /\ outcome' # "finished"
    BY <1>4 DEF HandlerStep, HandlerCleansFile, CleanFile, HandlerExits
  <2>. QED
    BY <2>1 DEF DiskContents
<1>5. ASSUME outcome = "running", NEW t \in Threads, SignalArrives(t)
      PROVE  DiskContents'
  <2>1. sig' # NoFrame /\ outcome' # "finished"
    BY <1>5, NoFrameAssumption DEF SignalArrives, Threads
  <2>. QED
    BY <2>1 DEF DiskContents
<1>6. ASSUME outcome = "running", NEW t \in Threads, SpuriousWake(t)
      PROVE  DiskContents'
  <2>1. UNCHANGED <<tempDir, j2kFiles, wpc, held, mpc, noMux, cursor, sig, outcome>>
    BY <1>6 DEF SpuriousWake, workerVars, fileVars, mainVars, endVars
  <2>. QED
    BY <2>1 DEF DiskContents, Recorded, Recording, Remaining
<1>. QED
  BY <1>1, <1>2, <1>3, <1>4, <1>5, <1>6 DEF Next

(* FinishedLeavesNoTemp: whatever the workers and the signal handler did,  *)
(* a run that returns 0 has deleted every file it wrote, or with --nomux   *)
(* left exactly the listed ones.                                           *)
THEOREM NothingLeftBehind == SafeSpec => []FinishedLeavesNoTemp
<1>1. Init => IInv /\ DiskContents
  BY InvInit, DiskInit
<1>2. IInv /\ DiskContents /\ [Next]_vars => (IInv /\ DiskContents)'
  BY InvStep, DiskStep
<1>3. IInv /\ DiskContents => FinishedLeavesNoTemp
  BY DEF DiskContents, FinishedLeavesNoTemp
<1>. QED
  BY <1>1, <1>2, <1>3, PTL DEF SafeSpec

-----------------------------------------------------------------------------
(* The queue inside the pipeline *)

(* A frame is never left in the queue while every worker that could take   *)
(* it stays parked, and main never stays parked while there is room for    *)
(* its frame: BoundQueue's NoLostWakeup, with main and the workers as its  *)
(* threads.                                                                *)
THEOREM PipelineLosesNoWakeup == SafeSpec => []Queue!NoLostWakeup
<1>1. Queue!SafeSpec => QProofs!SafeSpec
  <2>1. Queue!Init => QProofs!Init
    BY SameQueue
  <2>2. [Queue!Next]_Queue!vars => [QProofs!Next]_QProofs!vars
    BY SameQueue
  <2>. QED
    BY <2>1, <2>2, PTL DEF Queue!SafeSpec, QProofs!SafeSpec
<1>2. QProofs!SafeSpec => [](QProofs!AbortReleases /\ QProofs!NoLostWakeup)
  BY QueueAssumptions, QProofs!WakeupsCorrect
<1>3. QProofs!NoLostWakeup => Queue!NoLostWakeup
  <2>1. \A S : Queue!Cardinality(S) = QProofs!Cardinality(S)
    BY Zenon DEF Queue!Cardinality, QProofs!Cardinality
  <2>2. \A p : Queue!At(p) = QProofs!At(p)
    BY DEF Queue!At, QProofs!At
  <2>. QED
    BY <2>1, <2>2, Zenon DEF Queue!NoLostWakeup, QProofs!NoLostWakeup
<1>. QED
  BY <1>1, <1>2, <1>3, PipelineUsesBoundQueue, PTL

(* A worker leaves its loop only after Decode has finished.                *)
ExitedAfterDone ==
    /\ \A w \in Workers : wpc[w] = "exited" => g_done
    /\ g_done => mpc \notin {"decode", "push"}

LEMMA ExitedStep == Control /\ ExitedAfterDone /\ [Next]_vars => ExitedAfterDone'
<1> SUFFICES ASSUME Control, ExitedAfterDone, [Next]_vars
             PROVE  ExitedAfterDone'
  OBVIOUS
<1>a. wpc \in [Workers -> WorkerPlaces]
  BY DEF Control, TypeOK
<1>1. ASSUME NEW w \in Workers, WorkerStep(w)
      PROVE  ExitedAfterDone'
  BY <1>a, <1>1 DEF WorkerStep, TestSize, TestDone, PopWaits, PopFrame, EncodeAndWrite,
     EncodeThrows, RecordFile, FreeFrame, ExitedAfterDone, workerVars, mainVars
<1>2. CASE MainStep
  BY <1>2 DEF MainStep, DecodeFrame, PushWaits, PushFrame, DecodeDone, AudioThrows,
     JoinAndSort, SkipMux, MuxVideo, MuxThrows, MainCleansFile, CleanFile, MainReturns,
     ExitedAfterDone, workerVars, mainVars
<1>3. CASE HandlerStep \/ \E t \in Threads : SignalArrives(t) \/ SpuriousWake(t)
  BY <1>3 DEF HandlerStep, HandlerCleansFile, CleanFile, HandlerExits, SignalArrives,
     SpuriousWake, ExitedAfterDone, workerVars, mainVars
<1>. QED
  BY <1>1, <1>2, <1>3 DEF Next, vars, workerVars, mainVars, ExitedAfterDone

(* HangsOnlyDrained: with a full queue the workers have something to pop,  *)
(* with an empty one main has room, so the parked threads cannot wait for  *)
(* each other; what is left is a worker in pop after Decode has finished.  *)
THEOREM NoOtherHang == SafeSpec => []HangsOnlyDrained
<1>1. Init => Control /\ ExitedAfterDone
  BY ControlInit DEF Init, ExitedAfterDone
<1>2. IInv => Control
  BY DEF IInv, Control
<1>3. IInv /\ ExitedAfterDone /\ Queue!NoLostWakeup => HangsOnlyDrained
  <2> SUFFICES ASSUME IInv, ExitedAfterDone, Queue!NoLostWakeup, Hung
               PROVE  \/ mpc = "join" /\ q = <<>> /\ Recorded = 1..decoded
                      \/ mpc = "push" /\ Workers = {}
    BY DEF HangsOnlyDrained
  <2>a. /\ at[Main] \in IF mpc = "push" THEN {"push", "parkedPush"} ELSE {"idle"}
        /\ \A w \in Workers :
              at[w] \in IF wpc[w] = "pop" THEN {"pop", "parkedPop"} ELSE {"idle"}
        /\ \A w \in Workers : wpc[w] = "exited" \/ at[w] = "parkedPop"
    BY DEF IInv, QueueControl, Hung
  <2>b. q \in Seq(Frames) /\ Len(q) \in Nat /\ decoded \in Nat /\ Threads = Workers \cup {Main}
    BY PipelineTypes DEF Threads
  <2>1. Queue!Cardinality({}) = 0
    <3>1. \A S : Queue!Cardinality(S) = Cardinality(S)
      BY Zenon DEF Queue!Cardinality, Cardinality
    <3>. QED
      BY <3>1, FS_EmptySet, Zenon
  <2>2. Queue!At("pop") = {}
    BY <2>a, <2>b DEF Queue!At
  <2>3. ASSUME NEW w \in Workers, wpc[w] # "exited"
        PROVE  q = <<>>
    <3>1. w \in Queue!At("parkedPop")
      BY <2>a, <2>b, <2>3 DEF Queue!At
    <3>2. Len(q) <= Queue!Cardinality(Queue!At("pop"))
      BY <3>1 DEF Queue!NoLostWakeup
    <3>3. Len(q) <= 0
      BY <2>1, <2>2, <3>2, Zenon
    <3>. QED
      BY <2>b, <3>3
  <2>4. CASE at[Main] = "parkedPush"
    <3>1. mpc = "push" /\ \A w \in Workers : wpc[w] # "exited"
      BY <2>a, <2>4 DEF ExitedAfterDone
    <3>2. Queue!At("push") = {}
      BY <2>a, <2>b, <2>4 DEF Queue!At
    <3>3. Main \in Queue!At("parkedPush")
      BY <2>b, <2>4 DEF Queue!At
    <3>4. QueueSize - Len(q) <= Queue!Cardinality(Queue!At("push"))
      BY <3>3 DEF Queue!NoLostWakeup
    <3>5. QueueSize - Len(q) <= 0
      BY <2>1, <3>2, <3>4, Zenon
    <3>6. q # <<>>
      BY <2>b, <3>5, QueueSizeAssumption
    <3>. QED
      BY <2>3, <3>1, <3>6
  <2>5. CASE mpc = "join" /\ \E w \in Workers : wpc[w] # "exited"
    <3>1. q = <<>> /\ Popped = decoded
      <4>1. q = <<>>
        BY <2>3, <2>5
      <4>2. Len(q) = 0
        BY <4>1
      <4>. QED
        BY <2>b, <2>5, <4>1, <4>2 DEF Popped
    <3>2. Working = {}
      BY <2>a DEF Working
    <3>3. Recorded = 1..decoded
      BY <3>1, <3>2 DEF IInv, PoppedAccounted
    <3>. QED
      BY <2>5, <3>1, <3>3
  <2>. QED
    BY <2>4, <2>5 DEF Hung
<1>. QED
  BY <1>1, <1>2, <1>3, ExitedStep, PipelineInvariant, PipelineLosesNoWakeup, PTL DEF SafeSpec

=============================================================================
