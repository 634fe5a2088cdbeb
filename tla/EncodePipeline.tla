--------------------------- MODULE EncodePipeline ---------------------------
(***************************************************************************)
(* Multi-threaded encoding in imfenc (imfenc/src/cli.cpp, --threads other  *)
(* than 1): main decodes frames and pushes them into encodingQueue; worker *)
(* threads pop a frame, encode it, write NNNNNNN.j2k to the temp directory *)
(* and record the name in the global list j2kFiles; main then joins the    *)
(* workers, sorts the list, muxes the files into an MXF and deletes them.  *)
(* A SIGINT/SIGTERM/SIGQUIT handler deletes the recorded files and exits,  *)
(* on whichever thread the signal hits, at any moment and under no lock.   *)
(*                                                                         *)
(* The queue is BoundQueue, with main as the only pusher and the workers   *)
(* as poppers.  A frame is its frameNumber, and so is the file named after *)
(* it.  Audio is left out but for one effect it has on this pipeline: its  *)
(* encoder may throw out of Decode.                                        *)
(***************************************************************************)
EXTENDS Integers, Sequences, FiniteSets, SequencesExt

CONSTANTS Main,       \* the main thread
          Workers,    \* the encoder threads (--threads)
          NoFrame,    \* no frame
          MaxFrames,  \* bound: the longest stream that is decoded
          QueueSize,  \* capacity of encodingQueue (8 in the code)
          Faults      \* "signal", "audio", "encode", "disk", "mux": what may happen

ASSUME WorkersAssumption == IsFiniteSet(Workers) /\ Main \notin Workers
ASSUME NoFrameAssumption == NoFrame \notin Nat \cup Workers \cup {Main}
ASSUME FramesAssumption == MaxFrames \in Nat
ASSUME QueueSizeAssumption == QueueSize \in Nat \ {0}

Threads == {Main} \cup Workers
Frames == 1..MaxFrames

VARIABLES q, aborted, at, item,  \* encodingQueue
          g_done,    \* Decode has finished
          decoded,   \* number of video frames decoded so far (currentFrame)
          mpc,       \* where main is
          wpc,       \* where each worker is in EncodeVideoFromQueue
          held,      \* the frame each worker has popped
          live,      \* the RawVideoFrames that are allocated
          tempDir,   \* the j2k files on disk
          empty,     \* those that were written without content
          j2kFiles,  \* the global list of file names
          mxf,       \* the video MXF: its frames, and whether it was finalized
          noMux,     \* --nomux
          cursor,    \* how far main's and the handler's CleanFiles(j2kFiles) are
          sig,       \* the thread that runs the signal handler, if any
          outcome    \* how the process ended

queueVars == <<q, aborted, at, item>>
workerVars == <<wpc, held>>
fileVars == <<tempDir, empty, j2kFiles>>
mainVars == <<g_done, decoded, mpc, mxf, noMux>>
endVars == <<cursor, sig, outcome>>
vars == <<queueVars, workerVars, live, fileVars, mainVars, endVars>>

Queue == INSTANCE BoundQueue
         WITH Values <- Frames, None <- NoFrame, N <- QueueSize

MainPlaces == {"decode", "push", "join", "mux", "clean", "abandon"}
WorkerPlaces == {"testSize", "testDone", "pop", "encode", "record", "free", "exited"}
Outcomes == {"running", "finished", "failed", "killed", "terminated"}
Cleaners == {"main", "handler"}

(* Past the end of j2kFiles: CleanFiles(j2kFiles) has returned. *)
Cleaned == 0

TypeOK ==
    /\ Queue!TypeOK
    /\ g_done \in BOOLEAN
    /\ decoded \in 0..MaxFrames
    /\ mpc \in MainPlaces
    /\ wpc \in [Workers -> WorkerPlaces]
    /\ held \in [Workers -> Frames \cup {NoFrame}]
    /\ live \subseteq Frames
    /\ tempDir \subseteq Frames
    /\ empty \subseteq Frames
    /\ j2kFiles \in Seq(Frames)
    /\ mxf \in [frames : Seq(Frames), finalized : BOOLEAN]
    /\ noMux \in BOOLEAN
    /\ cursor \in [Cleaners -> Nat]
    /\ sig \in Threads \cup {NoFrame}
    /\ outcome \in Outcomes

Init ==
    /\ Queue!Init
    /\ g_done = FALSE
    /\ decoded = 0
    /\ mpc = "decode"
    /\ wpc = [w \in Workers |-> "testSize"]
    /\ held = [w \in Workers |-> NoFrame]
    /\ live = {}
    /\ tempDir = {}
    /\ empty = {}
    /\ j2kFiles = <<>>
    /\ mxf = [frames |-> <<>>, finalized |-> FALSE]
    /\ noMux \in BOOLEAN
    /\ cursor = [c \in Cleaners |-> 1]
    /\ sig = NoFrame
    /\ outcome = "running"

(* The process is alive and thread t is not inside the signal handler. *)
Runs(t) == outcome = "running" /\ sig # t

-----------------------------------------------------------------------------
(* The workers: EncodeVideoFromQueue *)

(* Mutated: while (size() > 0 && !done), a worker leaves at the first      *)
(* empty queue it sees.                                                    *)
TestSizeOnly(w) ==
    /\ Runs(w)
    /\ wpc[w] = "testSize"
    /\ \/ /\ q # <<>>
          /\ wpc' = [wpc EXCEPT ![w] = "pop"]
          /\ Queue!CallPop(w)
       \/ /\ q = <<>>
          /\ wpc' = [wpc EXCEPT ![w] = "exited"]
          /\ UNCHANGED queueVars
    /\ UNCHANGED <<held, live, fileVars, mainVars, endVars>>

(* while (encodingQueue.size() > 0 || ...): a non-empty queue decides at   *)
(* once; the answer may be stale when the worker acts on it.               *)
TestSize(w) ==
    /\ Runs(w)
    /\ wpc[w] = "testSize"
    /\ \/ /\ q # <<>>
          /\ wpc' = [wpc EXCEPT ![w] = "pop"]
          /\ Queue!CallPop(w)
       \/ /\ q = <<>>
          /\ wpc' = [wpc EXCEPT ![w] = "testDone"]
          /\ UNCHANGED queueVars
    /\ UNCHANGED <<held, live, fileVars, mainVars, endVars>>

(* ... || g_done == false: read after size(), in a step of its own. *)
TestDone(w) ==
    /\ Runs(w)
    /\ wpc[w] = "testDone"
    /\ \/ /\ ~g_done
          /\ wpc' = [wpc EXCEPT ![w] = "pop"]
          /\ Queue!CallPop(w)
       \/ /\ g_done
          /\ wpc' = [wpc EXCEPT ![w] = "exited"]
          /\ UNCHANGED queueVars
    /\ UNCHANGED <<held, live, fileVars, mainVars, endVars>>

(* pop() finds the queue empty and waits. *)
PopWaits(w) ==
    /\ Runs(w)
    /\ wpc[w] = "pop"
    /\ Queue!ParkPop(w)
    /\ UNCHANGED <<workerVars, live, fileVars, mainVars, endVars>>

(* Mutated: the worker takes the front and leaves it in the queue. *)
PopPeeks(w) ==
    /\ Runs(w)
    /\ wpc[w] = "pop"
    /\ q # <<>>
    /\ at' = [at EXCEPT ![w] = "idle"]
    /\ held' = [held EXCEPT ![w] = Head(q)]
    /\ wpc' = [wpc EXCEPT ![w] = "encode"]
    /\ UNCHANGED <<q, aborted, item, live, fileVars, mainVars, endVars>>

(* Mutated: the worker takes the front and notifies nobody. *)
PopSilently(w) ==
    /\ Runs(w)
    /\ wpc[w] = "pop"
    /\ at[w] = "pop"
    /\ q # <<>>
    /\ q' = Tail(q)
    /\ at' = [at EXCEPT ![w] = "idle"]
    /\ held' = [held EXCEPT ![w] = Head(q)]
    /\ wpc' = [wpc EXCEPT ![w] = "encode"]
    /\ UNCHANGED <<aborted, item, live, fileVars, mainVars, endVars>>

(* pop() returns the oldest frame. *)
PopFrame(w) ==
    /\ Runs(w)
    /\ wpc[w] = "pop"
    /\ Queue!Pop(w)
    /\ held' = [held EXCEPT ![w] = Head(q)]
    /\ wpc' = [wpc EXCEPT ![w] = "encode"]
    /\ UNCHANGED <<live, fileVars, mainVars, endVars>>

(* EncodeRawFrame and WriteToFile: the file is on disk, and not yet in the *)
(* list.  WriteToFile looks at no stream error: when the disk is full the  *)
(* file may stay empty, and is listed all the same.                        *)
EncodeAndWrite(w) ==
    /\ Runs(w)
    /\ wpc[w] = "encode"
    /\ tempDir' = tempDir \cup {held[w]}
    /\ \/ UNCHANGED empty
       \/ "disk" \in Faults /\ empty' = empty \cup {held[w]}
    /\ wpc' = [wpc EXCEPT ![w] = "record"]
    /\ UNCHANGED <<queueVars, held, live, j2kFiles, mainVars, endVars>>

(* EncodeRawFrame throws: nothing in the thread catches the runtime_error, *)
(* so std::terminate ends the process.  The same may happen when main has  *)
(* left its try block, which destroyed the J2KEncoder the worker uses.     *)
EncodeThrows(w) ==
    /\ "encode" \in Faults \/ mpc = "abandon"
    /\ Runs(w)
    /\ wpc[w] = "encode"
    /\ outcome' = "terminated"
    /\ UNCHANGED <<queueVars, workerVars, live, fileVars, mainVars, cursor, sig>>

(* Mutated: push_back without the lock, another worker's push_back may     *)
(* overwrite this one.                                                     *)
RecordFileUnlocked(w) ==
    /\ Runs(w)
    /\ wpc[w] = "record"
    /\ j2kFiles' \in {j2kFiles, Append(j2kFiles, held[w])}
    /\ wpc' = [wpc EXCEPT ![w] = "free"]
    /\ UNCHANGED <<queueVars, held, live, tempDir, empty, mainVars, endVars>>

(* outFiles->push_back under outFilesMutex. *)
RecordFile(w) ==
    /\ Runs(w)
    /\ wpc[w] = "record"
    /\ j2kFiles' = Append(j2kFiles, held[w])
    /\ wpc' = [wpc EXCEPT ![w] = "free"]
    /\ UNCHANGED <<queueVars, held, live, tempDir, empty, mainVars, endVars>>

(* Mutated: no delete. *)
FreeFrameLeaks(w) ==
    /\ Runs(w)
    /\ wpc[w] = "free"
    /\ held' = [held EXCEPT ![w] = NoFrame]
    /\ wpc' = [wpc EXCEPT ![w] = "testSize"]
    /\ UNCHANGED <<queueVars, live, fileVars, mainVars, endVars>>

(* delete threadContext.videoFrame, and back to the loop condition. *)
FreeFrame(w) ==
    /\ Runs(w)
    /\ wpc[w] = "free"
    /\ live' = live \ {held[w]}
    /\ held' = [held EXCEPT ![w] = NoFrame]
    /\ wpc' = [wpc EXCEPT ![w] = "testSize"]
    /\ UNCHANGED <<queueVars, fileVars, mainVars, endVars>>

-----------------------------------------------------------------------------
(* The main thread *)

(* Decode hands over its next video frame: HandleVideoFrame allocates and  *)
(* numbers it, HandleVideoFrame_MT calls push.                             *)
DecodeFrame ==
    /\ Runs(Main)
    /\ mpc = "decode"
    /\ decoded < MaxFrames
    /\ decoded' = decoded + 1
    /\ live' = live \cup {decoded + 1}
    /\ Queue!CallPush(Main, decoded + 1)
    /\ mpc' = "push"
    /\ UNCHANGED <<workerVars, fileVars, g_done, mxf, noMux, endVars>>

(* push() finds the queue full and waits. *)
PushWaits ==
    /\ Runs(Main)
    /\ mpc = "push"
    /\ Queue!ParkPush(Main)
    /\ UNCHANGED <<workerVars, live, fileVars, mainVars, endVars>>

(* Mutated: push does not wait for room. *)
PushUnbounded ==
    /\ Runs(Main)
    /\ mpc = "push"
    /\ at[Main] = "push"
    /\ q' = Append(q, item[Main])
    /\ item' = [item EXCEPT ![Main] = NoFrame]
    /\ Queue!LeaveNotifyingOne(Main, "parkedPop", "pop")
    /\ mpc' = "decode"
    /\ UNCHANGED <<aborted, workerVars, live, fileVars, g_done, decoded, mxf, noMux, endVars>>

(* push() returns. *)
PushFrame ==
    /\ Runs(Main)
    /\ mpc = "push"
    /\ Queue!Push(Main)
    /\ mpc' = "decode"
    /\ UNCHANGED <<workerVars, live, fileVars, g_done, decoded, mxf, noMux, endVars>>

(* The stream is over: the done callback sets g_done and Decode returns. *)
DecodeDone ==
    /\ Runs(Main)
    /\ mpc = "decode"
    /\ g_done' = TRUE
    /\ mpc' = "join"
    /\ UNCHANGED <<queueVars, workerVars, live, fileVars, decoded, mxf, noMux, endVars>>

(* The audio callback throws out of Decode: ~thread_group detaches the     *)
(* workers, which go on, and main's catch starts to clean.                 *)
AudioThrows ==
    /\ "audio" \in Faults
    /\ Runs(Main)
    /\ mpc = "decode"
    /\ mpc' = "abandon"
    /\ UNCHANGED <<queueVars, workerVars, live, fileVars, g_done, decoded, mxf, noMux, endVars>>

(* What list::sort may leave: the same names, rearranged in order.  Names  *)
(* are compared as strings, seven zero-padded digits, which is the order   *)
(* of the frame numbers up to 9999999.                                     *)
Sortings(s) ==
    {t \in {[i \in DOMAIN s |-> s[p[i]]] : p \in Bijection(DOMAIN s, DOMAIN s)} :
        \A i, j \in DOMAIN s : i < j => t[i] <= t[j]}

(* Mutated: join_all waits for one worker only. *)
JoinAny ==
    /\ Runs(Main)
    /\ mpc = "join"
    /\ \E w \in Workers : wpc[w] = "exited"
    /\ j2kFiles' \in Sortings(j2kFiles)
    /\ mpc' = "mux"
    /\ UNCHANGED <<queueVars, workerVars, live, tempDir, empty, g_done, decoded, mxf, noMux, endVars>>

(* Mutated: the list is muxed in the order the workers finished in. *)
JoinUnsorted ==
    /\ Runs(Main)
    /\ mpc = "join"
    /\ \A w \in Workers : wpc[w] = "exited"
    /\ mpc' = "mux"
    /\ UNCHANGED <<queueVars, workerVars, live, fileVars, g_done, decoded, mxf, noMux, endVars>>

(* join_all() returns and j2kFiles.sort() follows. *)
JoinAndSort ==
    /\ Runs(Main)
    /\ mpc = "join"
    /\ \A w \in Workers : wpc[w] = "exited"
    /\ j2kFiles' \in Sortings(j2kFiles)
    /\ mpc' = "mux"
    /\ UNCHANGED <<queueVars, workerVars, live, tempDir, empty, g_done, decoded, mxf, noMux, endVars>>

(* --nomux, or nothing was encoded: no MXF, and no call of MuxVideoFiles. *)
SkipMux ==
    /\ Runs(Main)
    /\ mpc = "mux"
    /\ noMux \/ j2kFiles = <<>>
    /\ mpc' = "clean"
    /\ UNCHANGED <<queueVars, workerVars, live, fileVars, g_done, decoded, mxf, noMux, endVars>>

(* The first k listed files are in the MXF, and reading one more gives     *)
(* RESULT_ENDOFFILE: at the end of the list, and for an empty file too.    *)
EndOfFileAfter(k) == k < Len(j2kFiles) => j2kFiles[k + 1] \in empty

(* Mutated: Finalize whatever ended the loop.                              *)
MuxFinalizesAlways ==
    /\ Runs(Main)
    /\ mpc = "mux"
    /\ ~noMux /\ j2kFiles # <<>> /\ j2kFiles[1] \notin empty
    /\ \E k \in 0..Len(j2kFiles) :
          /\ \A i \in 1..k : j2kFiles[i] \notin empty
          /\ EndOfFileAfter(k) \/ "mux" \in Faults
          /\ mxf' = [frames |-> SubSeq(j2kFiles, 1, k), finalized |-> TRUE]
    /\ mpc' = "clean"
    /\ UNCHANGED <<queueVars, workerVars, live, fileVars, g_done, decoded, noMux, endVars>>

(* MuxVideoFiles copies the listed files in order until ReadFrame returns  *)
(* RESULT_ENDOFFILE, and finalizes the MXF.  When ReadFrame or WriteFrame  *)
(* returns another error it leaves the loop as well and returns without    *)
(* Finalize and without an error.                                          *)
MuxVideo ==
    /\ Runs(Main)
    /\ mpc = "mux"
    /\ ~noMux /\ j2kFiles # <<>> /\ j2kFiles[1] \notin empty
    /\ \E k \in 0..Len(j2kFiles), finalized \in BOOLEAN :
          /\ \A i \in 1..k : j2kFiles[i] \notin empty
          /\ IF finalized THEN EndOfFileAfter(k) ELSE "mux" \in Faults /\ k < Len(j2kFiles)
          /\ mxf' = [frames |-> SubSeq(j2kFiles, 1, k), finalized |-> finalized]
    /\ mpc' = "clean"
    /\ UNCHANGED <<queueVars, workerVars, live, fileVars, g_done, decoded, noMux, endVars>>

(* MuxVideoFiles throws, as it does when the first file is empty (OpenRead *)
(* looks at its size): main's catch.                                       *)
MuxThrows ==
    /\ Runs(Main)
    /\ mpc = "mux"
    /\ ~noMux /\ j2kFiles # <<>>
    /\ "mux" \in Faults \/ j2kFiles[1] \in empty
    /\ mpc' = "abandon"
    /\ UNCHANGED <<queueVars, workerVars, live, fileVars, g_done, decoded, mxf, noMux, endVars>>

-----------------------------------------------------------------------------
(* Cleaning: CleanFiles(j2kFiles) by main and by the signal handler *)

(* One turn of the loop: remove the file under the iterator (a file that   *)
(* is gone already is no error), or leave the loop at the end of the list  *)
(* as it is at this moment.                                                *)
CleanFile(c) ==
    /\ cursor[c] # Cleaned
    /\ \/ /\ cursor[c] <= Len(j2kFiles)
          /\ tempDir' = tempDir \ {j2kFiles[cursor[c]]}
          /\ cursor' = [cursor EXCEPT ![c] = @ + 1]
       \/ /\ cursor[c] > Len(j2kFiles)
          /\ cursor' = [cursor EXCEPT ![c] = Cleaned]
          /\ UNCHANGED tempDir
    /\ UNCHANGED <<queueVars, workerVars, live, empty, j2kFiles, mainVars, sig, outcome>>

(* After a mux main cleans, and so does its catch block, even with --nomux. *)
MainCleansFile ==
    /\ Runs(Main)
    /\ mpc = "abandon" \/ (mpc = "clean" /\ ~noMux)
    /\ CleanFile("main")

(* return 0, or return 1 from the catch block: the process ends, with all  *)
(* its threads.                                                            *)
MainReturns ==
    /\ Runs(Main)
    /\ \/ /\ mpc = "clean"
          /\ noMux \/ cursor["main"] = Cleaned
          /\ outcome' = "finished"
       \/ /\ mpc = "abandon"
          /\ cursor["main"] = Cleaned
          /\ outcome' = "failed"
    /\ UNCHANGED <<queueVars, workerVars, live, fileVars, mainVars, cursor, sig>>

(* A signal hits thread t, which runs SignalHandler from here on. *)
SignalArrives(t) ==
    /\ "signal" \in Faults
    /\ outcome = "running"
    /\ sig = NoFrame
    /\ t \in Workers => wpc[t] # "exited"
    /\ sig' = t
    /\ UNCHANGED <<queueVars, workerVars, live, fileVars, mainVars, cursor, outcome>>

HandlerCleansFile ==
    /\ outcome = "running"
    /\ sig # NoFrame
    /\ CleanFile("handler")

(* exit(1) *)
HandlerExits ==
    /\ outcome = "running"
    /\ sig # NoFrame
    /\ cursor["handler"] = Cleaned
    /\ outcome' = "killed"
    /\ UNCHANGED <<queueVars, workerVars, live, fileVars, mainVars, cursor, sig>>

(* Any thread parked in the queue may wake without a notification. *)
SpuriousWake(t) ==
    /\ Runs(t)
    /\ Queue!SpuriousWake(t)
    /\ UNCHANGED <<workerVars, live, fileVars, mainVars, endVars>>

-----------------------------------------------------------------------------

MainStep ==
    \/ DecodeFrame \/ PushWaits \/ PushFrame \/ DecodeDone \/ AudioThrows
    \/ JoinAndSort \/ SkipMux \/ MuxVideo \/ MuxThrows
    \/ MainCleansFile \/ MainReturns

WorkerStep(w) ==
    \/ TestSize(w) \/ TestDone(w) \/ PopWaits(w) \/ PopFrame(w)
    \/ EncodeAndWrite(w) \/ EncodeThrows(w) \/ RecordFile(w) \/ FreeFrame(w)

HandlerStep == HandlerCleansFile \/ HandlerExits

Next ==
    \/ MainStep
    \/ \E w \in Workers : WorkerStep(w)
    \/ HandlerStep
    \/ \E t \in Threads : SignalArrives(t) \/ SpuriousWake(t)

SafeSpec == Init /\ [][Next]_vars

(* Threads are scheduled and get the queue's mutex in turn, streams end    *)
(* (decoded is bounded), the handler runs to its end.  Signals and         *)
(* spurious wakeups are nobody's duty.                                     *)
Fairness ==
    /\ WF_vars(MainStep)
    /\ \A w \in Workers : WF_vars(WorkerStep(w))
    /\ WF_vars(HandlerStep)

Spec == SafeSpec /\ Fairness

-----------------------------------------------------------------------------
(* Safety *)

Recorded == ToSet(j2kFiles)
Queued == ToSet(q)
Pushing == {item[Main]} \ {NoFrame}
Held == {held[w] : w \in Workers} \ {NoFrame}

(* Every allocated frame has exactly one owner: main's push, one slot of   *)
(* the queue, or one worker.  Raw pointers pass through the queue and each *)
(* is deleted by hand, so a second owner is a use after free or a double   *)
(* delete, and no owner is a leak.                                         *)
OneOwnerPerFrame ==
    /\ live = Pushing \cup Queued \cup Held
    /\ Cardinality(live) = Cardinality(Pushing) + Len(q)
                             + Cardinality({w \in Workers : held[w] # NoFrame})

(* Backpressure: however slow the workers are, no more than the queue, one *)
(* frame per worker and the one being pushed are in memory (uncompressed   *)
(* 4K frames, the reason for a bounded queue).                             *)
MemoryBounded == Cardinality(live) <= QueueSize + Cardinality(Workers) + 1

(* A frame is encoded and listed once. *)
RecordedOnce == IsInjective(j2kFiles)

(* The essence keeps picture order without a gap: whatever order the       *)
(* workers finish in, the MXF holds frames 1, 2, ..., k.  Frames may be    *)
(* missing at the end only (see NoFrameLost).                              *)
MxfInPictureOrder == \A i \in DOMAIN mxf.frames : mxf.frames[i] = i

(* What a finalized MXF lacks: nothing but the frames from the first empty *)
(* j2k file on, and those that were still in the queue when the workers    *)
(* left.  No name that a worker had yet to list, and no frame after an     *)
(* error that ended the loop otherwise, is missing in an MXF that looks    *)
(* complete.                                                               *)
FinalizedExplained ==
    mxf.finalized => LET k == Len(mxf.frames)
                     IN  k = decoded - Len(q) \/ k + 1 \in empty

(* What the workers leave behind when they have all exited is at most the  *)
(* tail of the stream, and it is still in the queue: no popped frame is    *)
(* lost.                                                                   *)
OnlyQueueTailLost ==
    mpc \in {"mux", "clean"} => Recorded = (1..decoded) \ Queued

(* Main muxes only files that are on disk: neither the handler nor a       *)
(* catch block deletes a file that is still to be read.                    *)
MuxInputsOnDisk == mpc = "mux" /\ Runs(Main) => Recorded \subseteq tempDir

(* return 0 leaves no temporary file behind, or with --nomux exactly the   *)
(* recorded ones.                                                          *)
FinishedLeavesNoTemp ==
    outcome = "finished" => tempDir = IF noMux THEN Recorded ELSE {}

(* Nobody can go on: every worker has exited or is parked in pop, and main *)
(* is parked in push or waits in join_all for a worker.                    *)
Hung ==
    /\ \A w \in Workers : wpc[w] = "exited" \/ at[w] = "parkedPop"
    /\ \/ at[Main] = "parkedPush"
       \/ mpc = "join" /\ \E w \in Workers : wpc[w] # "exited"

(* The pipeline hangs in one way only: main is in join_all, all decoded    *)
(* frames are listed, and a worker that saw g_done too early waits for one *)
(* more.  Push and pop never block each other for good, unless there are   *)
(* no workers at all (--threads 0).                                        *)
HangsOnlyDrained ==
    Hung => \/ mpc = "join" /\ q = <<>> /\ Recorded = 1..decoded
            \/ mpc = "push" /\ Workers = {}

-----------------------------------------------------------------------------
(* The inductive invariant behind the safety properties (proved in         *)
(* EncodePipelineProofs).                                                  *)

(* Workers whose frame is popped and not yet recorded. *)
Working == {w \in Workers : wpc[w] \in {"encode", "record"}}

(* How many frames the workers have popped. *)
Popped == decoded - Len(q) - (IF mpc = "push" THEN 1 ELSE 0)

(* Each thread is in the queue's code exactly when its own code says so.   *)
QueueControl ==
    /\ ~aborted
    /\ at[Main] \in IF mpc = "push" THEN {"push", "parkedPush"} ELSE {"idle"}
    /\ mpc = "push" => item[Main] = decoded
    /\ \A w \in Workers :
          at[w] \in IF wpc[w] = "pop" THEN {"pop", "parkedPop"} ELSE {"idle"}

(* A worker holds a frame from its pop to its delete. *)
HeldWhileWorking ==
    \A w \in Workers : held[w] # NoFrame <=> wpc[w] \in {"encode", "record", "free"}

(* The queue holds the frames after the popped ones, in order. *)
QueueContiguous ==
    /\ Popped >= 0
    /\ \A i \in 1..Len(q) : q[i] = Popped + i

(* Every popped frame is listed, once, or in the hands of one worker.      *)
PoppedAccounted ==
    /\ Recorded \cup {held[w] : w \in Working} = 1..Popped
    /\ \A w \in Working : held[w] \notin Recorded
    /\ \A v, w \in Working : held[v] = held[w] => v = w
    /\ RecordedOnce

(* After join_all every worker has exited. *)
JoinedMeansExited ==
    mpc \in {"mux", "clean"} => \A w \in Workers : wpc[w] = "exited"

(* Until somebody cleans, every file written is on disk; the handler runs  *)
(* on a thread that has not exited.                                        *)
FilesKept ==
    /\ sig = NoFrame /\ mpc \notin {"clean", "abandon"} =>
          Recorded \cup {held[w] : w \in {v \in Workers : wpc[v] = "record"}} \subseteq tempDir
    /\ sig \in Workers => wpc[sig] # "exited"

IInv ==
    /\ TypeOK
    /\ QueueControl
    /\ HeldWhileWorking
    /\ QueueContiguous
    /\ PoppedAccounted
    /\ JoinedMeansExited
    /\ FilesKept

-----------------------------------------------------------------------------
(* Liveness *)

(* Decoding is never blocked for good: as long as Decode has frames to     *)
(* push some worker is left to make room.                                  *)
DecodingCompletes == <>(mpc # "decode" /\ mpc # "push")

(* A frame a worker has taken from the queue gets its file listed. *)
PoppedIsRecorded ==
    \A f \in Frames : f \in Held ~> f \in Recorded

(* The process ends, or it hangs in join_all with an empty queue, all      *)
(* decoded frames listed and a worker waiting in pop: no other hang exists.*)
EndsOrHangsDrained ==
    <>[]( \/ outcome # "running"
          \/ /\ mpc = "join"
             /\ q = <<>>
             /\ \E w \in Workers : wpc[w] = "pop"
             /\ Recorded = 1..decoded )

-----------------------------------------------------------------------------
(* Expectations the code does not meet *)

(* Encoding a finite video ends. *)
EncodingEnds == <>(outcome # "running")

(* The list that is muxed names every frame that was decoded. *)
NoFrameLost == mpc = "mux" => Len(j2kFiles) = decoded

(* A process that was interrupted leaves no j2k files behind. *)
KilledLeavesNoTemp == outcome = "killed" => tempDir = {}

=============================================================================
