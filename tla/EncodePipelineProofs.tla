------------------------ MODULE EncodePipelineProofs ------------------------
(***************************************************************************)
(* What EncodePipeline guarantees for every finite set of workers, every   *)
(* queue capacity and every length of the stream, with every fault.        *)
(*                                                                         *)
(* The queue part is not proved again: each step of the pipeline is a step *)
(* of BoundQueue (QueueStep), so the theorems of BoundQueueProofs apply.   *)
(* The rest is one inductive invariant, IInv: the queue always holds the   *)
(* consecutive frames Popped + 1, Popped + 2, ..., and each of the frames  *)
(* 1..Popped is either listed in j2kFiles, once, or in the hands of exactly*)
(* one worker.  When all workers have exited nothing is in anybody's hands,*)
(* which leaves j2kFiles and the queue.                                    *)
(***************************************************************************)
EXTENDS EncodePipeline, TLAPS, FiniteSetTheorems, SequenceTheorems

QProofs == INSTANCE BoundQueueProofs
           WITH Values <- Frames, None <- NoFrame, N <- QueueSize

-----------------------------------------------------------------------------
(* The queue *)

LEMMA ThreadsFinite == IsFiniteSet(Threads)
<1>1. IsFiniteSet(Workers \cup {Main})
  BY WorkersAssumption, FS_AddElement
<1>2. Threads = Workers \cup {Main}
  BY DEF Threads
<1>. QED
  BY <1>1, <1>2

(* The assumptions of BoundQueue hold here. *)
LEMMA QueueAssumptions ==
    /\ QProofs!IsFiniteSet(Threads)
    /\ NoFrame \notin Frames
    /\ QueueSize \in Nat \ {0}
<1>1. \A S : IsFiniteSet(S) <=> QProofs!IsFiniteSet(S)
  BY Zenon DEF IsFiniteSet, QProofs!IsFiniteSet
<1>2. NoFrame \notin Frames
  BY NoFrameAssumption, FramesAssumption DEF Frames
<1>. QED
  BY <1>1, <1>2, ThreadsFinite, QueueSizeAssumption

(* The two instances of BoundQueue say the same. *)
LEMMA SameQueue ==
    /\ Queue!Init <=> QProofs!Init
    /\ Queue!TypeOK <=> QProofs!TypeOK
    /\ [Queue!Next]_Queue!vars <=> [QProofs!Next]_QProofs!vars
<1>1. Queue!Init <=> QProofs!Init
  BY DEF Queue!Init, QProofs!Init
<1>2. Queue!TypeOK <=> QProofs!TypeOK
  BY DEF Queue!TypeOK, QProofs!TypeOK, Queue!Places, QProofs!Places
<1>3. [Queue!Next]_Queue!vars <=> [QProofs!Next]_QProofs!vars
  BY Zenon DEF
     Queue!Next, Queue!vars, Queue!CallPush, Queue!CallPop, Queue!ParkPush, Queue!ParkPop,
     Queue!ThrowAborted, Queue!Push, Queue!Pop, Queue!Abort, Queue!SpuriousWake,
     Queue!LeaveNotifyingOne, Queue!At, Queue!Full, Queue!Empty,
     QProofs!Next, QProofs!vars, QProofs!CallPush, QProofs!CallPop, QProofs!ParkPush,
     QProofs!ParkPop, QProofs!ThrowAborted, QProofs!Push, QProofs!Pop, QProofs!Abort,
     QProofs!SpuriousWake, QProofs!LeaveNotifyingOne, QProofs!At, QProofs!Full,
     QProofs!Empty
<1>. QED
  BY <1>1, <1>2, <1>3

LEMMA QueueTypeInit == Queue!Init => Queue!TypeOK
BY QueueAssumptions, SameQueue, QProofs!TypeInit

LEMMA QueueTypeStep == Queue!TypeOK /\ [Queue!Next]_Queue!vars => Queue!TypeOK'
<1>1. (Queue!TypeOK <=> QProofs!TypeOK)'
  BY DEF Queue!TypeOK, QProofs!TypeOK, Queue!Places, QProofs!Places
<1>. QED
  BY <1>1, QueueAssumptions, SameQueue, QProofs!TypeStep

(* Every step of the pipeline is a step of the queue or leaves it alone. *)
LEMMA QueueStep == decoded \in Nat /\ [Next]_vars => [Queue!Next]_Queue!vars
<1> SUFFICES ASSUME decoded \in Nat, [Next]_vars
             PROVE  Queue!Next \/ UNCHANGED Queue!vars
  OBVIOUS
<1>1. ASSUME NEW w \in Workers, WorkerStep(w)
      PROVE  Queue!Next \/ UNCHANGED Queue!vars
  <2>1. w \in Threads
    BY DEF Threads
  <2>2. CASE TestSize(w)
    BY <2>1, <2>2 DEF TestSize, queueVars, Queue!Next, Queue!vars
  <2>3. CASE TestDone(w)
    BY <2>1, <2>3 DEF TestDone, queueVars, Queue!Next, Queue!vars
  <2>4. CASE PopWaits(w)
    BY <2>1, <2>4 DEF PopWaits, Queue!Next
  <2>5. CASE PopFrame(w)
    BY <2>1, <2>5 DEF PopFrame, Queue!Next
  <2>6. CASE EncodeAndWrite(w) \/ EncodeThrows(w) \/ RecordFile(w) \/ FreeFrame(w)
    BY <2>6 DEF EncodeAndWrite, EncodeThrows, RecordFile, FreeFrame, queueVars, Queue!vars
  <2>. QED
    BY <1>1, <2>2, <2>3, <2>4, <2>5, <2>6 DEF WorkerStep
<1>2. ASSUME MainStep
      PROVE  Queue!Next \/ UNCHANGED Queue!vars
  <2>1. Main \in Threads
    BY DEF Threads
  <2>2. CASE DecodeFrame
    <3>1. decoded + 1 \in Frames
      BY <2>2, FramesAssumption DEF DecodeFrame, Frames
    <3>. QED
      BY <2>1, <2>2, <3>1 DEF DecodeFrame, Queue!Next
  <2>3. CASE PushWaits
    BY <2>1, <2>3 DEF PushWaits, Queue!Next
  <2>4. CASE PushFrame
    BY <2>1, <2>4 DEF PushFrame, Queue!Next
  <2>5. CASE DecodeDone \/ AudioThrows \/ JoinAndSort \/ SkipMux \/ MuxVideo \/ MuxThrows
    BY <2>5 DEF DecodeDone, AudioThrows, JoinAndSort, SkipMux, MuxVideo, MuxThrows,
                queueVars, Queue!vars
  <2>6. CASE MainCleansFile \/ MainReturns
    BY <2>6 DEF MainCleansFile, CleanFile, MainReturns, queueVars, Queue!vars
  <2>. QED
    BY <1>2, <2>2, <2>3, <2>4, <2>5, <2>6 DEF MainStep
<1>3. ASSUME NEW t \in Threads, SpuriousWake(t)
      PROVE  Queue!Next \/ UNCHANGED Queue!vars
  BY <1>3 DEF SpuriousWake, Queue!Next
<1>4. ASSUME HandlerStep \/ \E t \in Threads : SignalArrives(t)
      PROVE  Queue!Next \/ UNCHANGED Queue!vars
  BY <1>4 DEF HandlerStep, HandlerCleansFile, HandlerExits, CleanFile, SignalArrives,
              queueVars, Queue!vars
<1>5. CASE UNCHANGED vars
  BY <1>5 DEF vars, queueVars, Queue!vars
<1>. QED
  BY <1>1, <1>2, <1>3, <1>4, <1>5 DEF Next

-----------------------------------------------------------------------------
(* Type correctness, with the two facts about control it rests on *)

Control == TypeOK /\ QueueControl /\ HeldWhileWorking

LEMMA ControlInit == Init => Control
<1> SUFFICES ASSUME Init
             PROVE  Control
  OBVIOUS
<1>1. TypeOK
  <2>1. Queue!TypeOK
    BY QueueTypeInit DEF Init
  <2>2. decoded \in 0..MaxFrames /\ mpc \in MainPlaces
    BY FramesAssumption DEF Init, MainPlaces
  <2>3. wpc \in [Workers -> WorkerPlaces] /\ held \in [Workers -> Frames \cup {NoFrame}]
    BY DEF Init, WorkerPlaces
  <2>4. live \subseteq Frames /\ tempDir \subseteq Frames /\ j2kFiles \in Seq(Frames)
    BY DEF Init
  <2>5. mxf \in [frames : Seq(Frames), finalized : BOOLEAN] /\ cursor \in [Cleaners -> Nat]
    BY DEF Init, Cleaners
  <2>. QED
    BY <2>1, <2>2, <2>3, <2>4, <2>5 DEF Init, TypeOK, Outcomes
<1>2. QueueControl
  BY DEF Init, QueueControl, Queue!Init, Threads
<1>3. HeldWhileWorking
  BY DEF Init, HeldWhileWorking
<1>. QED
  BY <1>1, <1>2, <1>3 DEF Control

(* Sorting keeps the length and the names. *)
LEMMA SortedNames ==
    ASSUME NEW S, NEW s \in Seq(S), NEW t \in Sortings(s)
    PROVE  /\ t \in Seq(S)
           /\ Len(t) = Len(s)
           /\ ToSet(t) = ToSet(s)
           /\ IsInjective(s) => IsInjective(t)
<1>1. PICK p \in Bijection(DOMAIN s, DOMAIN s) : t = [i \in DOMAIN s |-> s[p[i]]]
  BY DEF Sortings
<1>2. /\ p \in [DOMAIN s -> DOMAIN s]
      /\ \A i, j \in DOMAIN s : p[i] = p[j] => i = j
      /\ \A j \in DOMAIN s : \E i \in DOMAIN s : p[i] = j
  BY DEF Bijection, Injection, Surjection, IsInjective
<1>3. t \in Seq(S) /\ Len(t) = Len(s) /\ DOMAIN t = DOMAIN s
  <2>1. DOMAIN s = 1..Len(s) /\ s \in [1..Len(s) -> S] /\ Len(s) \in Nat
    BY LenProperties
  <2>2. t \in [1..Len(s) -> S]
    BY <1>1, <1>2, <2>1
  <2>3. t \in Seq(S)
    BY <2>1, <2>2, SeqDef
  <2>4. Len(t) = Len(s)
    BY <2>1, <2>2, <2>3, LenProperties
  <2>. QED
    BY <1>1, <2>3, <2>4
<1>4. ToSet(t) = ToSet(s)
  BY <1>1, <1>2, <1>3 DEF ToSet
<1>5. ASSUME IsInjective(s)
      PROVE  IsInjective(t)
  BY <1>1, <1>2, <1>3, <1>5 DEF IsInjective
<1>. QED
  BY <1>3, <1>4, <1>5

(* Appending a name adds it to the names. *)
LEMMA AppendedNames ==
    ASSUME NEW S, NEW s \in Seq(S), NEW e \in S
    PROVE  /\ Append(s, e) \in Seq(S)
           /\ ToSet(Append(s, e)) = ToSet(s) \cup {e}
           /\ IsInjective(s) /\ e \notin ToSet(s) => IsInjective(Append(s, e))
<1> DEFINE a == Append(s, e)
<1>1. /\ a \in Seq(S)
      /\ Len(a) = Len(s) + 1 /\ Len(s) \in Nat
      /\ \A i \in 1..Len(s) : a[i] = s[i]
      /\ a[Len(s) + 1] = e
  BY AppendProperties, LenProperties
<1>2. DOMAIN a = DOMAIN s \cup {Len(s) + 1} /\ DOMAIN s = 1..Len(s)
  BY <1>1, LenProperties
<1> HIDE DEF a
<1>3. ToSet(a) = ToSet(s) \cup {e}
  BY <1>1, <1>2 DEF ToSet
<1>4. IsInjective(s) /\ e \notin ToSet(s) => IsInjective(a)
  BY <1>1, <1>2 DEF ToSet, IsInjective
<1>. QED
  BY <1>1, <1>3, <1>4 DEF a

LEMMA ControlStep == Control /\ [Next]_vars => QueueControl' /\ HeldWhileWorking'
<1> SUFFICES ASSUME Control, [Next]_vars
             PROVE  QueueControl' /\ HeldWhileWorking'
  OBVIOUS
<1>a. /\ TypeOK /\ QueueControl /\ HeldWhileWorking
      /\ at \in [Threads -> Queue!Places]
      /\ item \in [Threads -> Frames \cup {NoFrame}]
      /\ q \in Seq(Frames)
      /\ wpc \in [Workers -> WorkerPlaces]
      /\ held \in [Workers -> Frames \cup {NoFrame}]
  BY DEF Control, TypeOK, Queue!TypeOK
<1>b. Main \in Threads /\ Main \notin Workers /\ Workers \subseteq Threads
  BY WorkersAssumption DEF Threads
<1>1. ASSUME NEW w \in Workers, WorkerStep(w)
      PROVE  QueueControl' /\ HeldWhileWorking'
  <2>1. CASE TestSize(w)
    BY <1>a, <1>b, <2>1 DEF TestSize, QueueControl, HeldWhileWorking, Queue!CallPop,
       queueVars, mainVars
  <2>2. CASE TestDone(w)
    BY <1>a, <1>b, <2>2 DEF TestDone, QueueControl, HeldWhileWorking, Queue!CallPop,
       queueVars, mainVars
  <2>3. CASE PopWaits(w)
    BY <1>a, <1>b, <2>3 DEF PopWaits, QueueControl, HeldWhileWorking, Queue!ParkPop,
       workerVars, mainVars
  <2>4. CASE PopFrame(w)
    <3>1. Head(q) \in Frames /\ Head(q) # NoFrame
      BY <1>a, <2>4, QueueAssumptions DEF PopFrame, Queue!Pop, Queue!Empty
    <3>2. QueueControl'
      BY <1>a, <1>b, <2>4 DEF PopFrame, QueueControl, Queue!Pop, Queue!LeaveNotifyingOne,
         Queue!At, mainVars
    <3>3. HeldWhileWorking'
      BY <1>a, <1>b, <2>4, <3>1 DEF PopFrame, HeldWhileWorking
    <3>. QED
      BY <3>2, <3>3
  <2>5. CASE EncodeAndWrite(w)
    BY <1>a, <1>b, <2>5 DEF EncodeAndWrite, QueueControl, HeldWhileWorking, queueVars, mainVars
  <2>6. CASE EncodeThrows(w)
    BY <1>a, <2>6 DEF EncodeThrows, QueueControl, HeldWhileWorking, queueVars, workerVars,
       mainVars
  <2>7. CASE RecordFile(w)
    BY <1>a, <1>b, <2>7 DEF RecordFile, QueueControl, HeldWhileWorking, queueVars, mainVars
  <2>8. CASE FreeFrame(w)
    BY <1>a, <1>b, <2>8 DEF FreeFrame, QueueControl, HeldWhileWorking, queueVars, mainVars
  <2>. QED
    BY <1>1, <2>1, <2>2, <2>3, <2>4, <2>5, <2>6, <2>7, <2>8 DEF WorkerStep
<1>2. ASSUME MainStep
      PROVE  QueueControl' /\ HeldWhileWorking'
  <2>1. CASE DecodeFrame
    BY <1>a, <1>b, <2>1 DEF DecodeFrame, QueueControl, HeldWhileWorking, Queue!CallPush,
       workerVars
  <2>2. CASE PushWaits
    BY <1>a, <1>b, <2>2 DEF PushWaits, QueueControl, HeldWhileWorking, Queue!ParkPush,
       workerVars, mainVars
  <2>3. CASE PushFrame
    BY <1>a, <1>b, <2>3 DEF PushFrame, QueueControl, HeldWhileWorking, Queue!Push,
       Queue!LeaveNotifyingOne, Queue!At, workerVars
  <2>4. CASE DecodeDone \/ AudioThrows \/ JoinAndSort \/ SkipMux \/ MuxVideo \/ MuxThrows
    BY <1>a, <2>4 DEF DecodeDone, AudioThrows, JoinAndSort, SkipMux, MuxVideo, MuxThrows,
       QueueControl, HeldWhileWorking, queueVars, workerVars
  <2>5. CASE MainCleansFile \/ MainReturns
    BY <1>a, <2>5 DEF MainCleansFile, CleanFile, MainReturns, QueueControl, HeldWhileWorking,
       queueVars, workerVars, mainVars
  <2>. QED
    BY <1>2, <2>1, <2>2, <2>3, <2>4, <2>5 DEF MainStep
<1>3. ASSUME NEW t \in Threads, SpuriousWake(t)
      PROVE  QueueControl' /\ HeldWhileWorking'
  BY <1>a, <1>b, <1>3 DEF SpuriousWake, QueueControl, HeldWhileWorking, Queue!SpuriousWake,
     workerVars, mainVars
<1>4. ASSUME HandlerStep \/ \E t \in Threads : SignalArrives(t)
      PROVE  QueueControl' /\ HeldWhileWorking'
  BY <1>a, <1>4 DEF HandlerStep, HandlerCleansFile, HandlerExits, CleanFile, SignalArrives,
     QueueControl, HeldWhileWorking, queueVars, workerVars, mainVars
<1>5. CASE UNCHANGED vars
  BY <1>a, <1>5 DEF vars, QueueControl, HeldWhileWorking, queueVars, workerVars, mainVars
<1>. QED
  BY <1>1, <1>2, <1>3, <1>4, <1>5 DEF Next

LEMMA PipelineTypeStep == Control /\ [Next]_vars => TypeOK'
<1> SUFFICES ASSUME Control, [Next]_vars
             PROVE  TypeOK'
  OBVIOUS
<1>a. /\ TypeOK /\ QueueControl /\ HeldWhileWorking
      /\ q \in Seq(Frames)
  BY DEF Control, TypeOK, Queue!TypeOK
<1>b. Main \in Threads /\ Workers \subseteq Threads
  BY DEF Threads
<1>q. Queue!TypeOK'
  BY <1>a, QueueStep, QueueTypeStep, FramesAssumption DEF TypeOK
<1>1. ASSUME NEW w \in Workers, WorkerStep(w)
      PROVE  TypeOK'
  <2>0. wpc[w] \in {"encode", "record"} => held[w] \in Frames
    BY <1>a DEF TypeOK, HeldWhileWorking
  <2>1. CASE TestSize(w) \/ TestDone(w) \/ PopWaits(w)
    BY <1>a, <1>q, <2>1 DEF TestSize, TestDone, PopWaits, TypeOK, WorkerPlaces, workerVars,
       fileVars, mainVars, endVars
  <2>2. CASE PopFrame(w)
    <3>1. Head(q) \in Frames
      BY <1>a, <2>2 DEF PopFrame, Queue!Pop, Queue!Empty
    <3>. QED
      BY <1>a, <1>q, <2>2, <3>1 DEF PopFrame, TypeOK, WorkerPlaces, fileVars, mainVars, endVars
  <2>3. CASE EncodeAndWrite(w)
    BY <1>a, <1>q, <2>0, <2>3 DEF EncodeAndWrite, TypeOK, WorkerPlaces, mainVars, endVars
  <2>4. CASE EncodeThrows(w)
    BY <1>a, <1>q, <2>4 DEF EncodeThrows, TypeOK, Outcomes, workerVars, fileVars, mainVars
  <2>5. CASE RecordFile(w)
    <3>1. j2kFiles' \in Seq(Frames)
      BY <1>a, <2>0, <2>5, AppendedNames DEF RecordFile, TypeOK
    <3>. QED
      BY <1>a, <1>q, <2>5, <3>1 DEF RecordFile, TypeOK, WorkerPlaces, mainVars, endVars
  <2>6. CASE FreeFrame(w)
    BY <1>a, <1>q, <2>6 DEF FreeFrame, TypeOK, WorkerPlaces, fileVars, mainVars, endVars
  <2>. QED
    BY <1>1, <2>1, <2>2, <2>3, <2>4, <2>5, <2>6 DEF WorkerStep
<1>2. ASSUME MainStep
      PROVE  TypeOK'
  <2>1. CASE DecodeFrame
    <3>1. decoded + 1 \in Frames /\ decoded + 1 \in 0..MaxFrames
      BY <1>a, <2>1, FramesAssumption DEF DecodeFrame, TypeOK, Frames
    <3>. QED
      BY <1>a, <1>q, <2>1, <3>1 DEF DecodeFrame, TypeOK, MainPlaces, workerVars, fileVars, endVars
  <2>2. CASE PushWaits \/ PushFrame \/ DecodeDone \/ AudioThrows
    BY <1>a, <1>q, <2>2 DEF PushWaits, PushFrame, DecodeDone, AudioThrows, TypeOK, MainPlaces,
       workerVars, fileVars, mainVars, endVars
  <2>3. CASE JoinAndSort
    <3>1. j2kFiles' \in Seq(Frames)
      BY <1>a, <2>3, SortedNames DEF JoinAndSort, TypeOK
    <3>. QED
      BY <1>a, <1>q, <2>3, <3>1 DEF JoinAndSort, TypeOK, MainPlaces, workerVars, endVars
  <2>4. CASE MuxVideo
    <3>1. PICK k \in 0..Len(j2kFiles), finalized \in BOOLEAN :
               mxf' = [frames |-> SubSeq(j2kFiles, 1, k), finalized |-> finalized]
      BY <2>4 DEF MuxVideo
    <3>2. \A i \in 1..k : j2kFiles[i] \in Frames
      BY <1>a, LenProperties DEF TypeOK
    <3>3. SubSeq(j2kFiles, 1, k) \in Seq(Frames)
      BY <3>2, SubSeqProperties
    <3>4. mxf' \in [frames : Seq(Frames), finalized : BOOLEAN]
      BY <3>1, <3>3
    <3>. QED
      BY <1>a, <1>q, <2>4, <3>4 DEF MuxVideo, TypeOK, MainPlaces, workerVars, fileVars, endVars
  <2>5. CASE SkipMux \/ MuxThrows \/ MainReturns
    BY <1>a, <1>q, <2>5 DEF SkipMux, MuxThrows, MainReturns, TypeOK, MainPlaces, Outcomes,
       workerVars, fileVars, mainVars, endVars
  <2>6. CASE MainCleansFile
    <3>1. CleanFile("main")
      BY <2>6 DEF MainCleansFile
    <3>2. cursor' \in [Cleaners -> Nat] /\ tempDir' \subseteq Frames
      BY <1>a, <3>1 DEF CleanFile, Cleaned, Cleaners, TypeOK
    <3>. QED
      BY <1>a, <1>q, <3>1, <3>2 DEF CleanFile, TypeOK, workerVars, mainVars
  <2>. QED
    BY <1>2, <2>1, <2>2, <2>3, <2>4, <2>5, <2>6 DEF MainStep
<1>3. ASSUME NEW t \in Threads, SpuriousWake(t)
      PROVE  TypeOK'
  BY <1>a, <1>q, <1>3 DEF SpuriousWake, TypeOK, workerVars, fileVars, mainVars, endVars
<1>4. ASSUME HandlerStep
      PROVE  TypeOK'
  BY <1>a, <1>q, <1>4 DEF HandlerStep, HandlerCleansFile, HandlerExits, CleanFile, Cleaned,
     Cleaners, TypeOK, Outcomes, workerVars, fileVars, mainVars
<1>5. ASSUME NEW t \in Threads, SignalArrives(t)
      PROVE  TypeOK'
  BY <1>a, <1>q, <1>5 DEF SignalArrives, TypeOK, workerVars, fileVars, mainVars
<1>6. CASE UNCHANGED vars
  BY <1>a, <1>q, <1>6 DEF vars, TypeOK, workerVars, fileVars, mainVars, endVars
<1>. QED
  BY <1>1, <1>2, <1>3, <1>4, <1>5, <1>6 DEF Next

(* Every variable keeps its type. *)
THEOREM TypeCorrect == SafeSpec => []TypeOK
<1>1. Init => Control
  BY ControlInit
<1>2. Control /\ [Next]_vars => Control'
  BY ControlStep, PipelineTypeStep DEF Control
<1>3. Control => TypeOK
  BY DEF Control
<1>. QED
  BY <1>1, <1>2, <1>3, PTL DEF SafeSpec

(* Behaviours of the pipeline are behaviours of the queue, by the way its  *)
(* actions are written: this carries the queue's theorems over.            *)
LEMMA PipelineUsesBoundQueue == SafeSpec => Queue!SafeSpec
<1>1. Init => Queue!Init
  BY DEF Init
<1>2. TypeOK /\ [Next]_vars => [Queue!Next]_Queue!vars
  BY QueueStep, FramesAssumption DEF TypeOK
<1>. QED
  BY <1>1, <1>2, TypeCorrect, PTL DEF SafeSpec, Queue!SafeSpec

-----------------------------------------------------------------------------
(* The frames: what is popped, what is listed *)

(* What a step leaves alone when it does not concern the queue's content.  *)
QueueKept == q' = q /\ decoded' = decoded /\ (mpc' = "push" <=> mpc = "push")

LEMMA KeptSamePopped == QueueKept => Popped' = Popped
BY DEF QueueKept, Popped

(* A step of the pipeline takes the front of the queue, fills it, starts a *)
(* push, or leaves its content alone.                                      *)
LEMMA StepKinds ==
    Control /\ [Next]_vars =>
        \/ \E w \in Workers : PopFrame(w)
        \/ PushFrame
        \/ DecodeFrame
        \/ QueueKept
<1> SUFFICES ASSUME Control, [Next]_vars,
                    ~(\E w \in Workers : PopFrame(w)), ~PushFrame, ~DecodeFrame
             PROVE  QueueKept
  OBVIOUS
<1>1. ASSUME NEW w \in Workers, WorkerStep(w)
      PROVE  QueueKept
  <2>1. CASE TestSize(w) \/ TestDone(w)
    BY <2>1 DEF TestSize, TestDone, QueueKept, Queue!CallPop, queueVars, mainVars
  <2>2. CASE PopWaits(w)
    BY <2>2 DEF PopWaits, QueueKept, Queue!ParkPop, mainVars
  <2>3. CASE EncodeAndWrite(w) \/ EncodeThrows(w) \/ RecordFile(w) \/ FreeFrame(w)
    BY <2>3 DEF EncodeAndWrite, EncodeThrows, RecordFile, FreeFrame, QueueKept, queueVars,
       mainVars
  <2>. QED
    BY <1>1, <2>1, <2>2, <2>3 DEF WorkerStep
<1>2. ASSUME MainStep
      PROVE  QueueKept
  <2>1. CASE PushWaits
    BY <2>1 DEF PushWaits, QueueKept, Queue!ParkPush, mainVars
  <2>2. CASE DecodeDone \/ AudioThrows \/ JoinAndSort \/ SkipMux \/ MuxVideo \/ MuxThrows
    BY <2>2 DEF DecodeDone, AudioThrows, JoinAndSort, SkipMux, MuxVideo, MuxThrows, QueueKept,
       queueVars
  <2>3. CASE MainCleansFile \/ MainReturns
    BY <2>3 DEF MainCleansFile, CleanFile, MainReturns, QueueKept, queueVars, mainVars
  <2>. QED
    BY <1>2, <2>1, <2>2, <2>3 DEF MainStep
<1>3. ASSUME NEW t \in Threads, SpuriousWake(t) \/ SignalArrives(t)
      PROVE  QueueKept
  BY <1>3 DEF SpuriousWake, SignalArrives, QueueKept, Queue!SpuriousWake, queueVars, mainVars
<1>4. ASSUME HandlerStep
      PROVE  QueueKept
  BY <1>4 DEF HandlerStep, HandlerCleansFile, HandlerExits, CleanFile, QueueKept, queueVars,
     mainVars
<1>5. CASE UNCHANGED vars
  BY <1>5 DEF vars, QueueKept, queueVars, mainVars
<1>. QED
  BY <1>1, <1>2, <1>3, <1>4, <1>5 DEF Next

LEMMA ContiguousStep == Control /\ QueueContiguous /\ [Next]_vars => QueueContiguous'
<1> SUFFICES ASSUME Control, QueueContiguous, [Next]_vars
             PROVE  QueueContiguous'
  OBVIOUS
<1>a. /\ q \in Seq(Frames) /\ Len(q) \in Nat
      /\ decoded \in Nat
      /\ Popped \in Int /\ Popped >= 0
      /\ \A i \in 1..Len(q) : q[i] = Popped + i
  BY LenProperties, FramesAssumption
     DEF Control, TypeOK, Queue!TypeOK, QueueContiguous, Popped
<1>1. ASSUME NEW w \in Workers, PopFrame(w)
      PROVE  QueueContiguous'
  <2>1. q # <<>> /\ q' = Tail(q) /\ decoded' = decoded /\ mpc' = mpc
    BY <1>1 DEF PopFrame, Queue!Pop, Queue!Empty, mainVars
  <2>2. /\ Len(q') = Len(q) - 1
        /\ \A i \in 1..Len(q') : q'[i] = q[i + 1]
    BY <1>a, <2>1, HeadTailProperties
  <2>3. Popped' = Popped + 1
    BY <1>a, <2>1, <2>2 DEF Popped
  <2>. QED
    BY <1>a, <2>2, <2>3 DEF QueueContiguous
<1>2. CASE PushFrame
  <2>1. /\ mpc = "push" /\ mpc' = "decode" /\ decoded' = decoded
        /\ q' = Append(q, decoded)
    BY <1>2 DEF PushFrame, Queue!Push, Control, QueueControl
  <2>2. decoded \in Frames
    BY <1>2 DEF PushFrame, Queue!Push, Control, QueueControl, TypeOK, Queue!TypeOK, Threads, Frames
  <2>3. /\ Len(q') = Len(q) + 1
        /\ \A i \in 1..Len(q) : q'[i] = q[i]
        /\ q'[Len(q) + 1] = decoded
    BY <1>a, <2>1, <2>2, AppendProperties
  <2>4. Popped' = Popped /\ decoded = Popped + Len(q) + 1
    BY <1>a, <2>1, <2>3 DEF Popped
  <2>. QED
    BY <1>a, <2>3, <2>4 DEF QueueContiguous
<1>3. CASE DecodeFrame
  <2>1. q' = q /\ decoded' = decoded + 1 /\ mpc = "decode" /\ mpc' = "push"
    BY <1>3 DEF DecodeFrame, Queue!CallPush
  <2>2. Popped' = Popped
    BY <1>a, <2>1 DEF Popped
  <2>. QED
    BY <1>a, <2>1, <2>2 DEF QueueContiguous
<1>4. CASE QueueKept
  BY <1>4, <1>a, KeptSamePopped DEF QueueKept, QueueContiguous
<1>. QED
  BY <1>1, <1>2, <1>3, <1>4, StepKinds

(* A frame number comes from the queue: the next worker gets Popped + 1.   *)
LEMMA PoppedNext ==
    ASSUME Control, QueueContiguous, NEW w \in Workers, PopFrame(w)
    PROVE  Popped \in Nat /\ Head(q) = Popped + 1 /\ Popped' = Popped + 1
<1>1. /\ q \in Seq(Frames) /\ q # <<>> /\ decoded \in Nat
      /\ q' = Tail(q) /\ decoded' = decoded /\ mpc' = mpc
  BY FramesAssumption
     DEF PopFrame, Queue!Pop, Queue!Empty, mainVars, Control, TypeOK, Queue!TypeOK
<1>2. /\ Head(q) = q[1] /\ Len(q) \in Nat /\ 1 \in 1..Len(q)
      /\ Len(Tail(q)) = Len(q) - 1
  BY <1>1, HeadTailProperties, LenProperties
<1>. QED
  BY <1>1, <1>2 DEF QueueContiguous, Popped

LEMMA PoppedKept ==
    Control /\ [Next]_vars /\ ~(\E w \in Workers : PopFrame(w)) => Popped' = Popped
<1> SUFFICES ASSUME Control, [Next]_vars, ~(\E w \in Workers : PopFrame(w))
             PROVE  Popped' = Popped
  OBVIOUS
<1>a. decoded \in Nat /\ q \in Seq(Frames) /\ Len(q) \in Nat
  BY LenProperties, FramesAssumption DEF Control, TypeOK, Queue!TypeOK
<1>1. CASE PushFrame
  <2>1. /\ mpc = "push" /\ mpc' = "decode" /\ decoded' = decoded
        /\ q' = Append(q, decoded)
    BY <1>1 DEF PushFrame, Queue!Push, Control, QueueControl
  <2>2. Len(q') = Len(q) + 1
    BY <1>a, <2>1
  <2>. QED
    BY <1>a, <2>1, <2>2 DEF Popped
<1>2. CASE DecodeFrame
  BY <1>a, <1>2 DEF DecodeFrame, Queue!CallPush, Popped
<1>3. CASE QueueKept
  BY <1>3, KeptSamePopped
<1>. QED
  BY <1>1, <1>2, <1>3, StepKinds

(* The list changes when a worker records a file and when main sorts.      *)
LEMMA ListKept ==
    [Next]_vars /\ ~(\E w \in Workers : RecordFile(w)) /\ ~JoinAndSort
        => j2kFiles' = j2kFiles
<1> SUFFICES ASSUME [Next]_vars, ~(\E w \in Workers : RecordFile(w)), ~JoinAndSort
             PROVE  j2kFiles' = j2kFiles
  OBVIOUS
<1>1. ASSUME NEW w \in Workers, WorkerStep(w)
      PROVE  j2kFiles' = j2kFiles
  BY <1>1 DEF WorkerStep, TestSize, TestDone, PopWaits, PopFrame, EncodeAndWrite, EncodeThrows,
     FreeFrame, fileVars
<1>2. CASE MainStep
  BY <1>2 DEF MainStep, DecodeFrame, PushWaits, PushFrame, DecodeDone, AudioThrows, SkipMux,
     MuxVideo, MuxThrows, MainCleansFile, CleanFile, MainReturns, fileVars
<1>3. CASE HandlerStep \/ \E t \in Threads : SignalArrives(t) \/ SpuriousWake(t)
  BY <1>3 DEF HandlerStep, HandlerCleansFile, CleanFile, HandlerExits, SignalArrives,
     SpuriousWake, fileVars
<1>. QED
  BY <1>1, <1>2, <1>3 DEF Next, vars, fileVars

(* A worker starts to work when it pops and is done when it records.       *)
LEMMA WorkingKept ==
    Control /\ [Next]_vars /\ ~(\E w \in Workers : PopFrame(w) \/ RecordFile(w))
        => Working' = Working /\ \A v \in Working : held'[v] = held[v]
<1> SUFFICES ASSUME Control, [Next]_vars,
                    ~(\E w \in Workers : PopFrame(w) \/ RecordFile(w))
             PROVE  Working' = Working /\ \A v \in Working : held'[v] = held[v]
  OBVIOUS
<1>a. /\ wpc \in [Workers -> WorkerPlaces]
      /\ held \in [Workers -> Frames \cup {NoFrame}]
  BY DEF Control, TypeOK
<1>1. ASSUME NEW w \in Workers, WorkerStep(w)
      PROVE  Working' = Working /\ \A v \in Working : held'[v] = held[v]
  BY <1>1, <1>a DEF WorkerStep, TestSize, TestDone, PopWaits, EncodeAndWrite, EncodeThrows,
     FreeFrame, Working, workerVars
<1>2. ASSUME MainStep
      PROVE  wpc' = wpc /\ held' = held
  BY <1>2 DEF MainStep, DecodeFrame, PushWaits, PushFrame, DecodeDone, AudioThrows,
     JoinAndSort, SkipMux, MuxVideo, MuxThrows, MainCleansFile, CleanFile, MainReturns,
     workerVars
<1>3. ASSUME HandlerStep \/ \E t \in Threads : SignalArrives(t) \/ SpuriousWake(t)
      PROVE  wpc' = wpc /\ held' = held
  BY <1>3 DEF HandlerStep, HandlerCleansFile, CleanFile, HandlerExits, SignalArrives,
     SpuriousWake, workerVars
<1>. QED
  BY <1>1, <1>2, <1>3 DEF Next, vars, workerVars, Working

LEMMA AccountedStep ==
    Control /\ QueueContiguous /\ PoppedAccounted /\ [Next]_vars => PoppedAccounted'
<1> SUFFICES ASSUME Control, QueueContiguous, PoppedAccounted, [Next]_vars
             PROVE  PoppedAccounted'
  OBVIOUS
<1>a. /\ wpc \in [Workers -> WorkerPlaces]
      /\ held \in [Workers -> Frames \cup {NoFrame}]
      /\ j2kFiles \in Seq(Frames)
  BY DEF Control, TypeOK
<1>b. /\ Recorded \cup {held[v] : v \in Working} = 1..Popped
      /\ \A v \in Working : held[v] \notin Recorded
      /\ \A u, v \in Working : held[u] = held[v] => u = v
      /\ IsInjective(j2kFiles)
  BY DEF PoppedAccounted, RecordedOnce
<1>1. ASSUME NEW w \in Workers, PopFrame(w)
      PROVE  PoppedAccounted'
  <2>1. /\ Popped \in Nat /\ Popped' = Popped + 1
        /\ held' = [held EXCEPT ![w] = Popped + 1]
    BY <1>1, PoppedNext DEF PopFrame
  <2>2. /\ w \notin Working /\ Working' = Working \cup {w}
        /\ j2kFiles' = j2kFiles
    BY <1>1, <1>a DEF PopFrame, Working, fileVars
  <2>3. held'[w] = Popped + 1 /\ \A v \in Working : held'[v] = held[v]
    BY <1>a, <2>1, <2>2 DEF Working
  <2>4. Recorded' = Recorded
    BY <2>2 DEF Recorded
  <2>5. {held'[v] : v \in Working'} = {held[v] : v \in Working} \cup {Popped + 1}
    BY <2>2, <2>3
  <2>6. 1..Popped' = (1..Popped) \cup {Popped + 1} /\ Popped + 1 \notin 1..Popped
    BY <2>1
  <2>7. (Recorded \cup {held[v] : v \in Working} = 1..Popped)'
    BY <1>b, <2>4, <2>5, <2>6
  <2>8. (\A v \in Working : held[v] \notin Recorded)'
    BY <1>b, <2>2, <2>3, <2>4, <2>6
  <2>9. (\A u, v \in Working : held[u] = held[v] => u = v)'
    BY <1>b, <2>2, <2>3, <2>6
  <2>. QED
    BY <1>b, <2>2, <2>7, <2>8, <2>9 DEF PoppedAccounted, RecordedOnce
<1>2. ASSUME NEW w \in Workers, RecordFile(w)
      PROVE  PoppedAccounted'
  <2>1. /\ w \in Working /\ Working' = Working \ {w}
        /\ j2kFiles' = Append(j2kFiles, held[w]) /\ held' = held
    BY <1>2, <1>a DEF RecordFile, Working
  <2>2. held[w] \in Frames
    BY <2>1, <1>a DEF Working, Control, HeldWhileWorking
  <2>3. Recorded' = Recorded \cup {held[w]} /\ IsInjective(j2kFiles')
    BY <1>a, <1>b, <2>1, <2>2, AppendedNames DEF Recorded
  <2>4. Popped' = Popped
    BY <1>2 DEF RecordFile, Popped, queueVars, mainVars
  <2>5. {held'[v] : v \in Working'} \cup {held[w]} = {held[v] : v \in Working}
    BY <2>1
  <2>6. (Recorded \cup {held[v] : v \in Working} = 1..Popped)'
    BY <1>b, <2>3, <2>4, <2>5
  <2>7. (\A v \in Working : held[v] \notin Recorded)'
    BY <1>b, <2>1, <2>3
  <2>8. (\A u, v \in Working : held[u] = held[v] => u = v)'
    BY <1>b, <2>1
  <2>. QED
    BY <2>3, <2>6, <2>7, <2>8 DEF PoppedAccounted, RecordedOnce
<1>3. ASSUME ~(\E w \in Workers : PopFrame(w) \/ RecordFile(w))
      PROVE  PoppedAccounted'
  <2>1. Popped' = Popped
    BY <1>3, PoppedKept
  <2>2. Recorded' = Recorded /\ IsInjective(j2kFiles')
    <3>1. CASE JoinAndSort
      BY <1>a, <1>b, <3>1, SortedNames DEF JoinAndSort, Recorded
    <3>2. CASE j2kFiles' = j2kFiles
      BY <1>b, <3>2 DEF Recorded
    <3>. QED
      BY <1>3, <3>1, <3>2, ListKept
  <2>3. Working' = Working /\ \A v \in Working : held'[v] = held[v]
    BY <1>3, WorkingKept
  <2>. QED
    BY <1>b, <2>1, <2>2, <2>3 DEF PoppedAccounted, RecordedOnce
<1>. QED
  BY <1>1, <1>2, <1>3

-----------------------------------------------------------------------------
(* Joining, and the files on disk *)

LEMMA JoinedStep == Control /\ JoinedMeansExited /\ [Next]_vars => JoinedMeansExited'
<1> SUFFICES ASSUME Control, JoinedMeansExited, [Next]_vars
             PROVE  JoinedMeansExited'
  OBVIOUS
<1>1. ASSUME NEW w \in Workers, WorkerStep(w)
      PROVE  JoinedMeansExited'
  <2>1. wpc[w] # "exited" /\ mpc' = mpc
    BY <1>1 DEF WorkerStep, TestSize, TestDone, PopWaits, PopFrame, EncodeAndWrite,
       EncodeThrows, RecordFile, FreeFrame, mainVars
  <2>. QED
    BY <2>1 DEF JoinedMeansExited
<1>2. CASE MainStep
  <2>1. CASE DecodeFrame \/ PushWaits \/ PushFrame \/ DecodeDone \/ AudioThrows \/ MuxThrows
    BY <2>1 DEF DecodeFrame, PushWaits, PushFrame, DecodeDone, AudioThrows, MuxThrows,
       JoinedMeansExited, mainVars
  <2>2. CASE JoinAndSort \/ SkipMux \/ MuxVideo
    BY <2>2 DEF JoinAndSort, SkipMux, MuxVideo, JoinedMeansExited, workerVars
  <2>3. CASE MainCleansFile \/ MainReturns
    BY <2>3 DEF MainCleansFile, CleanFile, MainReturns, JoinedMeansExited, workerVars, mainVars
  <2>. QED
    BY <1>2, <2>1, <2>2, <2>3 DEF MainStep
<1>3. CASE HandlerStep \/ \E t \in Threads : SignalArrives(t) \/ SpuriousWake(t)
  BY <1>3 DEF HandlerStep, HandlerCleansFile, CleanFile, HandlerExits, SignalArrives,
     SpuriousWake, JoinedMeansExited, workerVars, mainVars
<1>4. CASE UNCHANGED vars
  BY <1>4 DEF vars, JoinedMeansExited, workerVars, mainVars
<1>. QED
  BY <1>1, <1>2, <1>3, <1>4 DEF Next

Recording == {held[w] : w \in {v \in Workers : wpc[v] = "record"}}

LEMMA FilesStep == Control /\ FilesKept /\ [Next]_vars => FilesKept'
<1> SUFFICES ASSUME Control, FilesKept, [Next]_vars
             PROVE  FilesKept'
  OBVIOUS
<1>a. /\ wpc \in [Workers -> WorkerPlaces]
      /\ held \in [Workers -> Frames \cup {NoFrame}]
      /\ j2kFiles \in Seq(Frames)
  BY DEF Control, TypeOK
<1>b. /\ sig = NoFrame /\ mpc \notin {"clean", "abandon"} =>
             Recorded \cup Recording \subseteq tempDir
      /\ sig \in Workers => wpc[sig] # "exited"
  BY DEF FilesKept, Recording
<1> SUFFICES /\ sig' = NoFrame /\ mpc' \notin {"clean", "abandon"} =>
                   Recorded' \cup Recording' \subseteq tempDir'
             /\ sig' \in Workers => wpc'[sig'] # "exited"
  BY DEF FilesKept, Recording
<1>1. ASSUME NEW w \in Workers, WorkerStep(w)
      PROVE  /\ sig' = NoFrame /\ mpc' \notin {"clean", "abandon"} =>
                   Recorded' \cup Recording' \subseteq tempDir'
             /\ sig' \in Workers => wpc'[sig'] # "exited"
  <2>0. sig' = sig /\ mpc' = mpc /\ sig # w
    BY <1>1 DEF WorkerStep, TestSize, TestDone, PopWaits, PopFrame, EncodeAndWrite,
       EncodeThrows, RecordFile, FreeFrame, Runs, mainVars, endVars
  <2>1. \A v \in Workers \ {w} : wpc'[v] = wpc[v]
    BY <1>1, <1>a DEF WorkerStep, TestSize, TestDone, PopWaits, PopFrame, EncodeAndWrite,
       EncodeThrows, RecordFile, FreeFrame, workerVars
  <2>2. sig' \in Workers => wpc'[sig'] # "exited"
    BY <1>b, <2>0, <2>1
  <2>3. CASE TestSize(w) \/ TestDone(w) \/ PopWaits(w) \/ PopFrame(w) \/ EncodeThrows(w)
             \/ FreeFrame(w)
    <3>1. Recording' = Recording
      BY <1>a, <2>3 DEF TestSize, TestDone, PopWaits, PopFrame, EncodeThrows, FreeFrame,
         workerVars, Recording
    <3>2. Recorded' = Recorded /\ tempDir' = tempDir
      BY <2>3 DEF TestSize, TestDone, PopWaits, PopFrame, EncodeThrows, FreeFrame, fileVars,
         Recorded
    <3>. QED
      BY <1>b, <2>0, <2>2, <3>1, <3>2
  <2>4. CASE EncodeAndWrite(w)
    <3>1. Recording' = Recording \cup {held[w]} /\ tempDir' = tempDir \cup {held[w]}
      BY <1>a, <2>4 DEF EncodeAndWrite, Recording
    <3>2. Recorded' = Recorded
      BY <2>4 DEF EncodeAndWrite, Recorded
    <3>. QED
      BY <1>b, <2>0, <2>2, <3>1, <3>2
  <2>5. CASE RecordFile(w)
    <3>1. held[w] \in Recording /\ Recording' \subseteq Recording /\ tempDir' = tempDir
      BY <1>a, <2>5 DEF RecordFile, Recording
    <3>2. held[w] \in Frames
      BY <1>a, <2>5 DEF RecordFile, Control, HeldWhileWorking
    <3>3. Recorded' = Recorded \cup {held[w]}
      BY <1>a, <2>5, <3>2, AppendedNames DEF RecordFile, Recorded
    <3>. QED
      BY <1>b, <2>0, <2>2, <3>1, <3>3
  <2>. QED
    BY <1>1, <2>3, <2>4, <2>5 DEF WorkerStep
<1>2. ASSUME MainStep
      PROVE  /\ sig' = NoFrame /\ mpc' \notin {"clean", "abandon"} =>
                   Recorded' \cup Recording' \subseteq tempDir'
             /\ sig' \in Workers => wpc'[sig'] # "exited"
  <2>0. sig' = sig /\ Recording' = Recording /\ wpc' = wpc
    BY <1>2 DEF MainStep, DecodeFrame, PushWaits, PushFrame, DecodeDone, AudioThrows,
       JoinAndSort, SkipMux, MuxVideo, MuxThrows, MainCleansFile, CleanFile, MainReturns,
       workerVars, endVars, Recording
  <2>1. CASE DecodeFrame \/ PushWaits \/ PushFrame \/ DecodeDone
    <3>1. Recorded' = Recorded /\ tempDir' = tempDir /\ mpc \notin {"clean", "abandon"}
      BY <2>1 DEF DecodeFrame, PushWaits, PushFrame, DecodeDone, fileVars, Recorded
    <3>. QED
      BY <1>b, <2>0, <3>1
  <2>2. CASE JoinAndSort
    <3>1. Recorded' = Recorded /\ tempDir' = tempDir /\ mpc \notin {"clean", "abandon"}
      BY <1>a, <2>2, SortedNames DEF JoinAndSort, Recorded
    <3>. QED
      BY <1>b, <2>0, <3>1
  <2>3. CASE AudioThrows \/ SkipMux \/ MuxVideo \/ MuxThrows \/ MainCleansFile
    BY <1>b, <2>0, <2>3 DEF AudioThrows, SkipMux, MuxVideo, MuxThrows, MainCleansFile,
       CleanFile, mainVars
  <2>4. CASE MainReturns
    BY <1>b, <2>0, <2>4 DEF MainReturns, mainVars, fileVars, Recorded
  <2>. QED
    BY <1>2, <2>1, <2>2, <2>3, <2>4 DEF MainStep
<1>3. ASSUME HandlerStep
      PROVE  sig' # NoFrame /\ sig' = sig /\ wpc' = wpc
  BY <1>3 DEF HandlerStep, HandlerCleansFile, HandlerExits, CleanFile, workerVars
<1>4. ASSUME NEW t \in Threads, SignalArrives(t)
      PROVE  sig' # NoFrame /\ wpc' = wpc /\ (t \in Workers => wpc[t] # "exited") /\ sig' = t
  BY <1>4, NoFrameAssumption DEF SignalArrives, Threads, workerVars
<1>5. ASSUME (\E t \in Threads : SpuriousWake(t)) \/ UNCHANGED vars
      PROVE  sig' = sig /\ mpc' = mpc /\ wpc' = wpc /\ Recorded' = Recorded
             /\ Recording' = Recording /\ tempDir' = tempDir
  BY <1>5 DEF SpuriousWake, vars, workerVars, fileVars, mainVars, endVars, Recorded, Recording
<1>. QED
  BY <1>b, <1>1, <1>2, <1>3, <1>4, <1>5 DEF Next

-----------------------------------------------------------------------------
(* The theorems *)

LEMMA InvInit == Init => IInv
<1> SUFFICES ASSUME Init
             PROVE  IInv
  OBVIOUS
<1>1. Control
  BY ControlInit
<1>2. q = <<>> /\ Popped = 0 /\ Working = {} /\ Recorded = {}
  <2>0. q = <<>> /\ decoded = 0 /\ mpc = "decode"
    BY DEF Init, Queue!Init
  <2>1. Popped = 0
    <3>1. Len(q) = 0
      BY <2>0
    <3>2. decoded \in Int /\ mpc # "push"
      BY <2>0
    <3>3. Popped = decoded - Len(q)
      BY <3>1, <3>2 DEF Popped
    <3>. QED
      BY <2>0, <3>1, <3>3
  <2>2. Working = {}
    BY DEF Init, Working
  <2>3. Recorded = {}
    BY DEF Init, Recorded, ToSet
  <2>. QED
    BY <2>0, <2>1, <2>2, <2>3
<1>3. QueueContiguous
  BY <1>2 DEF QueueContiguous
<1>4. PoppedAccounted
  <2>1. RecordedOnce
    BY DEF Init, RecordedOnce, IsInjective
  <2>2. Recorded \cup {held[w] : w \in Working} = 1..Popped
    BY <1>2
  <2>. QED
    BY <1>2, <2>1, <2>2 DEF PoppedAccounted
<1>5. JoinedMeansExited
  BY DEF Init, JoinedMeansExited
<1>6. FilesKept
  BY <1>2, NoFrameAssumption DEF Init, FilesKept
<1>. QED
  BY <1>1, <1>3, <1>4, <1>5, <1>6 DEF IInv, Control

LEMMA InvStep == IInv /\ [Next]_vars => IInv'
BY ControlStep, PipelineTypeStep, ContiguousStep, AccountedStep, JoinedStep, FilesStep
   DEF IInv, Control

(* The inductive invariant: which thread has which frame, at every moment. *)
THEOREM PipelineInvariant == SafeSpec => []IInv
BY InvInit, InvStep, PTL DEF SafeSpec

(* No interleaving of the workers encodes or lists a frame twice.          *)
THEOREM FramesRecordedOnce == SafeSpec => []RecordedOnce
<1>1. IInv => RecordedOnce
  BY DEF IInv, PoppedAccounted
<1>. QED
  BY <1>1, PipelineInvariant, PTL

(* When main muxes, the list misses at most the frames that no worker took *)
(* out of the queue, and these are the last ones.                          *)
THEOREM NoPoppedFrameLost == SafeSpec => []OnlyQueueTailLost
<1>1. IInv => OnlyQueueTailLost
  <2> SUFFICES ASSUME IInv, mpc \in {"mux", "clean"}
               PROVE  Recorded = (1..decoded) \ Queued
    BY DEF OnlyQueueTailLost
  <2>1. Working = {}
    BY DEF IInv, JoinedMeansExited, Working
  <2>2. Recorded = 1..Popped
    BY <2>1 DEF IInv, PoppedAccounted
  <2>3. /\ decoded \in Nat /\ q \in Seq(Frames) /\ Len(q) \in Nat
        /\ DOMAIN q = 1..Len(q)
    BY LenProperties, FramesAssumption DEF IInv, TypeOK, Queue!TypeOK
  <2>4. Popped = decoded - Len(q) /\ Popped \in Nat
    BY <2>3 DEF IInv, QueueContiguous, Popped
  <2>5. Queued = {Popped + i : i \in 1..Len(q)}
    BY <2>3 DEF IInv, QueueContiguous, Queued, ToSet
  <2>6. Queued = (Popped + 1)..decoded
    <3>1. \A f \in (Popped + 1)..decoded : f - Popped \in 1..Len(q) /\ f = Popped + (f - Popped)
      BY <2>3, <2>4
    <3>2. \A i \in 1..Len(q) : Popped + i \in (Popped + 1)..decoded
      BY <2>3, <2>4
    <3>. QED
      BY <2>5, <3>1, <3>2
  <2>. QED
    BY <2>2, <2>3, <2>4, <2>6
<1>. QED
  BY <1>1, PipelineInvariant, PTL

(* What main muxes is on disk: no signal handler and no catch block has    *)
(* deleted a listed file by then.                                          *)
THEOREM MuxReadsExistingFiles == SafeSpec => []MuxInputsOnDisk
<1>1. IInv => MuxInputsOnDisk
  <2> SUFFICES ASSUME IInv, mpc = "mux", Runs(Main)
               PROVE  Recorded \subseteq tempDir
    BY DEF MuxInputsOnDisk
  <2>1. sig \notin Workers
    BY DEF IInv, JoinedMeansExited, FilesKept
  <2>2. sig = NoFrame
    BY <2>1 DEF IInv, TypeOK, Threads, Runs
  <2>. QED
    BY <2>2 DEF IInv, FilesKept
<1>. QED
  BY <1>1, PipelineInvariant, PTL
=============================================================================
