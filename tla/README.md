# A TLA+ verification of imflib

imflib is two programs: `imfenc`, which turns a video into an IMF MXF file, and
`imfgui`, which edits IMF packages. This directory models them in TLA+, checks
small instances with TLC and proves the main safety results with TLAPS for
every value of the constants. `PROJECT.json` lists the components, the runs,
the code lines behind every definition, the hazards and the theorems.

Paths below are relative to the repository root (`src/`).

## Inventory

### imfenc (`imfenc/src`)

| part | state | operations | hard because | must hold |
|---|---|---|---|---|
| `bound_queue.hpp` | circular buffer, abort flag, two wait sets | push, pop, abort, size | threads, notify_one, spurious wakeups | FIFO, bounded, no lost wakeup, no mutual block |
| encode pipeline (`cli.cpp`) | queue, `g_done`, `j2kFiles`, temp files, MXF | main: decode, join, sort, mux, clean; workers: pop, encode, write, list, free | workers race main at the end of the stream; a signal handler uses the same lists under no lock; exceptions on any thread | each frame encoded once, in order, none lost; bounded memory; it ends; no temp files left |
| decoder (`inputstreamdecoder.cpp`) | stream position, frame counter, codec delay | packet loop, flush, callbacks | several streams, delayed frames, errors in the middle | every frame delivered, in order, once; done last |
| J2K encoder (`j2kencoder.cpp`) | encoding parameters shared by all workers | InitEncoder, EncodeRawFrame | shared mutable parameters, integer widths | the rate limits of the broadcast profile |
| PCM encoder, WAV muxer | sample vectors | encode, write header | 32 bit sizes | header agrees with data |
| MXF writer (`mxfwriter.cpp`) | output file | mux video, mux audio | I/O errors that are not reported | finalized or reported |

### imfgui (`imfgui/src`)

| part | state | operations | hard because | must hold |
|---|---|---|---|---|
| playlist model (`model/cpl*`, `model/imfcompositionplaylist.cpp`) | segments, sequences, resources, virtual tracks | insert, delete, durations, write, load | the same sequences are reached through segments and through virtual tracks | the two views agree; load after write gives the same timeline |
| timeline editor (`views/cplsequenceview.cpp`) | scene, cached track indexes | drag and drop, delete | long sequences of edits, cached indexes | no edit breaks the playlist's structure |
| package (`model/imfpackage*.cpp`) | tracks, playlists, packing list, location | load, save, add | a save is many file operations, any of which can fail | a saved package loads; a failed save loses nothing |
| main window (`views/imfpackageview.cpp`) | working package, table model | new, open, save, add, new CPL | dialogs that are cancelled, failures half way | table and package agree |
| descriptors, MXF reader, settings, painting | fields | conversions | formats | round trips |

Parts meet like this: the decoder calls back into `cli.cpp` for every frame;
the callback pushes into the queue; workers pop and call the J2K encoder; main
reads what the workers listed. In imfgui everything runs on the GUI thread: the
window owns the package, the editor edits one playlist of it, and a change is
announced by a Qt signal that rebuilds the scene.

## Plan

Most important first; all of it is done.

1. `BoundedChannel`, `BoundQueue`, `BoundQueueProofs`: the queue, its promise
   and the proof that it keeps it.
2. `EncodePipeline`, which composes the queue with main, workers and handler.
3. `EncodePipelineProofs`: type correctness, the inductive invariant and the
   safety results that follow from it.
4. `FrameSource`, `DecodeLoop`, `DecodeLoopProofs`: packet loop, delayed
   frames, flush, errors, done; what the pipeline relies on when it is called
   back; order and completeness of the frames.
5. `Timeline`, `CplEditor`, `CplEditorProofs`, `CplTimelineProofs`: the playlist with its two views, the editor's
   actions and cached indexes; abstract specification: a timeline (a sequence
   of segments, each a function from tracks to resources).
6. `PackageStore`, `PackageStoreProofs`: load and save on a disk whose
   operations fail, in a process that dies between any two of them.
7. `EncodePipelineDataProofs`: ownership of frames, order and completeness of
   the MXF, clean-up, and the queue's no-lost-wakeup inherited by the pipeline, with what it says
   about hangs.

Every invariant, action property and refinement that a passing run checks is
also proved. What is left to the runs is liveness.

## Modules

| module | what it is |
|---|---|
| `BoundedChannel` | what the queue promises: an atomic FIFO channel that can be closed |
| `BoundQueue` | `bound_queue<T,N>` as a monitor |
| `MCBoundQueue` | instance for TLC |
| `BoundQueueProofs` | theorems about `BoundQueue` |
| `EncodePipeline` | the multi-threaded branch of `main`, with workers and signal handler |
| `MCEncodePipeline` | instances for TLC: sets of faults, and fair without faults |
| `EncodePipelineProofs` | theorems about `EncodePipeline`: types, listing |
| `EncodePipelineDataProofs` | more of them: memory, the MXF, clean-up, hangs |
| `Timeline` | what the editor promises: segments that hold resources by track, save and open |
| `CplEditor` | the composition playlist, the editor's actions, the CPL file |
| `CplEditorProofs` | theorems about `CplEditor` |
| `CplTimelineProofs` | that `CplEditor` implements `Timeline` |
| `MCCplEditor` | instance for TLC |
| `FrameSource` | what `Decode` promises about the video: numbered frames, then done or an exception |
| `DecodeLoop` | `InputStreamDecoder`: `OpenFile`, `Decode` and the functions it calls |
| `MCDecodeLoop` | instance for TLC |
| `DecodeLoopProofs` | theorems about `DecodeLoop` |
| `PackageStore` | `IMFPackage` with the main window, the table and the files on disk |
| `MCPackageStore` | instance for TLC |
| `PackageStoreProofs` | theorems about `PackageStore` |

### BoundQueue

One action per critical section, because every member function runs under
`mtx_`. `q` is `q_`, `aborted` is `aborted_`; the two condition variables are
the threads whose `at` is `parkedPush` (in `cv_pop_.wait`) and `parkedPop` (in
`cv_push_.wait`). A woken thread returns to `push` or `pop`, where it competes
for the mutex with newcomers and tests the predicate again, as
`condition_variable::wait` with a predicate does. `notify_one` picks any parked
thread. `item` is the argument of a push. In imfenc nobody calls `abort()`; it
is modelled because the class offers it.

`BoundedChannel` has no mutex and no waiting set: a call is outstanding until
it takes effect in one step or fails because the channel is closed. The
refinement mapping keeps `q`, `aborted` and `item` and forgets whether a caller
is parked.

### EncodePipeline

`mpc` is main's place in `main()`: `decode` (inside `Decode`, between frames),
`push` (in `HandleVideoFrame_MT`), `join`, `mux`, `clean` (after the mux),
`abandon` (the catch block). `wpc` is a worker's place in
`EncodeVideoFromQueue`: the two reads of the loop condition are two places
(`testSize`, `testDone`), and writing the file, listing it and deleting the
frame are three. Queue operations are the actions of `BoundQueue`
(`Queue!CallPop(w)`, `Queue!Pop(w)`, ...) conjoined with the caller's own state.
A frame and the file named after it are the frame number; `tempDir` are the files
on disk, `empty` those without content, `mxf` the frames in the MXF and whether it
was finalized.

Faults are chosen by a constant: `signal` (a SIGINT, SIGTERM or SIGQUIT hits
any living thread at any moment, once), `audio` (the PCM encoder throws out of
`Decode`), `encode` (`EncodeRawFrame` throws in a worker), `disk` (the disk is full
and a j2k file stays empty), `mux` (`MuxVideoFiles` throws, or an error of
`ReadFrame` or `WriteFrame` ends it early and silently).

asdcplib is external. Two things it does with an empty file matter here:
`OpenRead` rejects it when it is the first (`src/asdcplib/src/JP2K_Sequence_Parser.cpp`),
so that `MuxVideoFiles` throws, and reading a later one gives `RESULT_ENDOFFILE`
(`src/asdcplib/src/KM_fileio.cpp:1061`), the same answer as the end of the list. So
`MuxVideo` may finalize at the end of the list or at an empty file
(`EndOfFileAfter`), and after another error it leaves the MXF as it is.

Abstractions:

- Frame contents, file contents and names are left out, but for whether a file is
  empty. A file that a full disk cuts in its middle counts as written: nothing in
  imfenc tells, and whether asdcplib rejects it depends on the codestream (then it
  is the fault `mux`). A file that could not even be created is in the list and
  makes `ReadFrame` or `OpenRead` fail, which is the fault `mux` as well.
- `j2kFiles.sort()` is one step. A signal that hits main inside the sort would
  find the list half spliced and leave files behind, an outcome that other
  interleavings of `KilledLeavesNoTemp` reach as well.
- `g_done` is a plain `bool` that workers read without a lock. `size()` takes
  and releases the mutex before each read, so the compiler cannot keep the
  value in a register across iterations; a late view of the store is the same
  as a read that came earlier, which the interleavings contain.
- The handler walks a list that other threads append to. Each turn of its loop
  sees the list as it is at that moment. A second, nested signal and static
  destruction in `exit(1)` are left out.
- Between the catch of an exception and the end of the process the detached
  workers go on, with a destroyed J2K encoder: they encode or end the process.

### CplEditor

`segments` and `virtualTracks` are the two lists of `IMFCompositionPlaylist`;
`sequencesOf`, `trackItems` and `resources` are the `_items` of its segments,
virtual tracks and sequences. Objects are their UUIDs. `dropEvent` is `Drop`,
with one action for each of the four actions it can end in;
`DeleteResourceAction` is `DeleteResource`; both end in `Repaint`
(`CompositionPlaylistChanged`), which fills `_virtualTrackMap` (`trackMap`) and
the row each sequence rectangle remembers (`trackIndex`). `Write` and `Load` are
the CPL file, `file`, which names the track of every sequence and has no list of
tracks.

`Timeline` knows neither sequences nor virtual tracks as objects. The refinement
mapping reads, for every segment and track, the resources of the one sequence
that the segment has in that track.

Abstractions:

- Coordinates, zoom, highlighting and drag state are left out: a drop may hit any
  rectangle, either side of it, and any row, which includes the code's mixture
  of view and scene coordinates.
- The order inside a virtual track is left out, because nothing reads it:
  sequences are found there and deleted by UUID.
- A resource is its UUID and its kind; durations, entry points and edit rates
  are copied through.
- One playlist is edited. Opening before the first save stands for a new
  playlist. A failing disk belongs to `PackageStore`. Files with resource types
  that `Load` skips are left out, since the editor never writes one.

### DecodeLoop

`pc` is the place in `Decode`: `read` (the loop condition and `av_read_frame`),
`packet` (the call of `DecodePacket` in the inner loop), `handle`
(`HandleFrame`), `free`, then `flush`, `handleFlushed` and `drain`
(`HandleDelayedAudioFrames`, stream `track`). `stream` and `left` are
`packet.stream_index` and the part of the packet its `data` and `size` still
cover; `gotFrame`, `noError` and `frame` are the variables of that name. What a
stream holds is numbered in units, one for each frame, so that `out`, the units
the callbacks got, can be compared with `fed`, the units read.

libavcodec and libswresample are external and modelled by what `Decode` relies
on. A decoder is a queue that returns a frame once more than `delay` units are in
it; it may also fail (a negative result) or consume nothing. `avcodec_decode_*`
returns held frames one by one for an empty packet. The resampler is a queue that
may keep the end of a frame. `av_read_frame` starts with `av_init_packet`
(`libavformat/utils.c:1453`, `libavcodec/avpacket.c`), which sets `stream_index`
to 0 when the read then fails: that is the packet the flush uses.

`FrameSource` is what the pipeline is told: frames numbered 1, 2, ..., then `done`
once, or an exception. `EncodePipeline!DecodeFrame`, `DecodeDone` and
`AudioThrows` are its three steps, so `IsFrameSource` is what allows the pipeline
to be modelled without streams and packets.

### PackageStore

| state | code |
|---|---|
| `disk` | the track file at each path (a directory and a base name) |
| `mapFile`, `pklFile`, `cplFile` | ASSETMAP.xml, PKL_*.xml and CPL_*.xml of each package directory, by what `Load` reads from them; `Broken` is a file that `read_xml` rejects |
| `open`, `dir`, `tracks`, `cpls` | `_workingPackage`, its `_location` and `_name`, its tracks and playlists |
| `rows` | how often `IMFPackageModel` shows a UUID |
| `pc`, `k` | the loop of `SaveFile` that is running, and its position |
| `alive` | the process |

Each command of the main window is one action, but for Save, which is a
sequence of steps: one for each track that `CopyTrackFiles` looks at, one for each
file that `Write` writes. Every step may fail in the way the code sees failures
(`RenameFails`, `WriteCplRefused`, `WriteFails`), and `Killed` may come between
any two. `Dies` is also where an exception that nobody catches ends: a failed
`rename` of a video file and a failed `write_xml` leave the event loop by
`filesystem_error` and `xml_parser_error`, which are no `IMFPackageException`;
and Save before New dereferences a null package (`SaveWithoutPackage`).

Abstractions:

- A track file is its essence, and the essence is the UUID that `MXFReader`
  finds in it; each is produced once. Other programs neither move nor delete
  files.
- `tracks` holds video and audio in one sequence, in the order of arrival; the
  code has a vector for each kind, and the two loops of `CopyTrackFiles` pick one
  kind each. ASSETMAP lists video first, which no property looks at.
- A playlist is the set of tracks its resources refer to; `CplEditor` has its
  inside. Editing may add or remove any track the table shows.
- `mkdir` of an existing directory and cancelled dialogs change nothing and are
  no action. The UUID of the package and the name of its packing list are fixed
  with the directory. A package made by another program, whose packing list has
  another name, is left out.
- Output profiles are never created and are left out.

## Runs

| run | instance | shows |
|---|---|---|
| `queue` | 4 threads, 2 values, capacity 2; fair | types, no lost wakeup, abort, no mutual block, FIFO channel, service |
| `pipeline` | 2 workers, at most 4 frames, queue of 2, all faults; workers symmetric | ownership, listing, order, tail loss only, what a finalized MXF may lack, files on disk, where it can hang |
| `pipeline_live` | 2 workers, at most 5 frames, queue of 1, no faults; fair | memory bound, decoding completes, popped frames get listed, the only hang |
| `editor` | 2 segments, 3 sequences, 3 virtual tracks, 4 resources, one of them audio; all symmetric | both views agree, nothing empty stays, cached rows, one sequence per track, timeline |
| `saved_tracks_of_one_kind` | the same | violated: a virtual track with audio and video can be saved |
| `encoding_ends` | as `pipeline_live`, at most 2 frames and a queue of 2 | violated: imfenc may hang in `join_all` |
| `no_frame_lost` | as above | violated: the end of the video may be dropped |
| `killed_leaves_no_temp` | with signals | violated: an interrupted imfenc may leave j2k files |
| `decode` | 2 streams of any kinds with up to 3 frames each, packets of 1 or 2 frames, decoders that hold back up to 2, all faults; fair | order, completeness, packets freed, no frame of unknown type, frame source, ends unless a decoder stalls |
| `all_decoders_flushed` | the same | violated: the last frames of a stream other than 0 are lost |
| `package` | 1 video and 1 audio track file, 2 base names, 1 source and 2 package directories, 1 playlist; base names and package directories symmetric | no file lost, paths, table, order of writing, save then load, interrupted saves |
| `all_files_copied` | with 2 source directories | violated: a file whose name is taken is not moved |

**Bounds.** Four threads and capacity 2 let two threads be parked on one
condition variable while a third overtakes a notified one, which is where
lost wakeups show; with two values a swap in the queue is visible. In the
pipeline two workers suffice for finishing out of order and for one of them
being overtaken; four frames fill the queue of two, occupy both workers and
leave main blocked in push; a queue of one and five frames make it fill and
drain several times. `MaxFrames` is the length of the longest stream: shorter
ones are covered because decoding may end after every frame.

In the editor, two segments give an insertion on either side of another, three
tracks let a row shift while a former track is still in the map, and three
sequences give a segment with two tracks beside another; four resources
make a sequence with a middle.

In the decoder, two streams give a flush of the wrong one; packets of two frames
and delays of two give a packet whose frames come out while later ones are read;
three frames a stream let a decoder be full, fail and be filled again.

In the package, two package directories are needed to take a file out of one
package into another and to have a second place where the old one still loads;
two tracks, one of each kind, put both loops of `CopyTrackFiles` to work and
leave one moved and one not when a save dies between them; two names let them
clash or not. A playlist that refers to either, both or none gives each outcome
of `Load` and `Write`. `all_files_copied` adds a second source directory, where
a clash of names begins.

Symmetry (permutations of workers, of ids, of names and directories) is used in
runs without liveness only; their two action properties compare a state with its
successor and name no element.
Deadlock is checked nowhere in the pipeline because the process ends (`outcome`)
and, as `encoding_ends` shows, may block for good. It is checked in the queue,
whose threads may always call, in the editor, where one can always open, and in
the package, which can always be restarted; the decoder stops when it is done.

**Fairness.** The queue: a thread that competes for the mutex gets it, because
critical sections are short and waiting releases the mutex (weak fairness of
`Step(t)` per thread; a spurious wakeup, a call or an abort is nobody's duty).
The pipeline: weak fairness of main, of every worker and of the handler, which
is what a preemptive scheduler gives. Nothing obliges a signal to come. The decoder:
weak fairness of its one thread's own steps, so that no callback is obliged to
throw; the file is finite (`MaxUnits`). A decoder that
consumes nothing leaves the loop where it is for ever, which is the place
`stalled` and no violation of fairness. The package: none, users may stop at any
moment.

**What the violated runs say.** `EncodingEnds`: a worker reads `size() == 0`
and `g_done == false`, the decoder finishes, and the worker waits in `pop` for
a frame that never comes, while main waits in `join_all`. `EndsOrHangsDrained`
bounds the damage: whenever this happens all decoded frames have been encoded
and listed. `HangsOnlyDrained` says the same of the states in which every thread
is stuck, and that there is no other kind of them as long as there is a worker;
it needs no fairness, which is why it could be proved. `NoFrameLost`: each worker reads `size() == 0`, then the last frames
are pushed and `g_done` is set, then each reads `g_done == true` and leaves.
`OnlyQueueTailLost` bounds the damage: what is missing is exactly what is still
in the queue, the end of the stream. `KilledLeavesNoTemp`: a file that is
written and not yet listed is not deleted by the handler.
`SavedTracksOfOneKind`: an audio track dropped with Ctrl beside a video segment,
in the row of the video, joins the video's virtual track; `CPLSequence::Write`
looks at one sequence at a time and lets both through. `AllDecodersFlushed`: the
flush feeds the decoder of stream 0 only, so the frames that the decoder of
another stream holds back are lost; `DeliveredOrExplained` bounds the damage to
these frames. It speaks of what was read: when a conversion fails, the loop ends
and the rest of the file is never read, and no property bounds this rest, whose
length neither the model nor the code knows. `AllFilesCopied`: of two files with one base name the second is not
moved and is listed under the name of the first. `EssencesKept` bounds the
damage: the file still exists.

More observations have no run of their own.

- An error of `ReadFrame` or `WriteFrame` ends the mux without `Finalize` and without
  an exception (`mxfwriter.cpp:387`); main deletes the j2k files and returns 0, with an
  MXF that is cut off. In the model this is `MuxVideo` with `finalized` false.
- A j2k file that stayed empty on a full disk (`cli.cpp:255` looks at no stream
  error) ends the mux as the end of the list does: the MXF is finalized without the
  frames from there on, and imfenc returns 0. `FinalizedExplained` bounds the damage of
  both: a finalized MXF lacks nothing but what follows an empty file and what was
  still in the queue, so the first kind of MXF never looks complete.
- After an exception out of `Decode` the detached workers use a J2K encoder that main
  has destroyed. The model lets such a worker encode or end the process, and no
  property says more.
- Save before New ends the process, although `imfpackageview.h:20` says the menus
  follow the state of the program.
- Saving a package with a track from another package's directory moves the file out
  of that package, which then does not load.

## Proofs

The theorems about the queue and the pipeline hold for every finite set of
threads or workers, every positive capacity and every stream length. Assumptions
are the named `ASSUME`s of the modules: the set of threads is finite, main is no
worker, `NoFrame` is no frame and no thread, the capacity is a positive number.

`BoundQueueProofs`

- `TypeCorrect`: includes `Len(q) <= N`.
- `WakeupsCorrect`: the inductive invariant is `TypeOK /\ AbortReleases /\
  NoLostWakeup`. `NoLostWakeup` is stated as an inequality (buffered elements
  never outnumber ready poppers while a popper is parked, and dually for free
  slots), since "some popper is ready" alone is not inductive: the ready one may
  take an element and leave the next element without anybody. The proof moves
  one thread at a time between places and counts (`MoveOne`).
- `AbortReleasesWaiters` and `NotifyOneSuffices` are its two halves.
- `NeverBothSidesStuck` follows: both sides parked and nobody ready would need
  an empty and a full buffer.
- `ImplementsChannel`: each step maps to a channel step or a stutter.

`EncodePipelineProofs`

- The lemmas `QueueStep` and `PipelineUsesBoundQueue` say that each step is a step of
  `BoundQueue` or leaves its variables alone. That is how the actions are written
  and no result about imfenc; it is what lets the queue's theorems be cited
  instead of repeated.
- `PipelineInvariant`: `IInv` (in `EncodePipeline`). Its core are
  `QueueContiguous` (the queue holds `Popped + 1, Popped + 2, ...`) and
  `PoppedAccounted` (each of `1..Popped` is listed once or held by one working
  worker). They need each other: a popped frame is new because the queue is
  contiguous, and listed once because only one worker holds it. `FilesKept`
  carries the files on disk until somebody cleans and that the handler runs on
  a thread that has not exited; without the second half a handler on an exited
  worker could delete files while main muxes.
- `FramesRecordedOnce`, `NoPoppedFrameLost`, `MuxReadsExistingFiles` are
  corollaries.

`EncodePipelineDataProofs`, on top of `IInv`

- `FramesOwned`: the invariant `FrameOwnership`. A frame in memory is in the push,
  in the queue, or in the hands of one worker that popped it. With `IInv` these are
  disjoint: the queue begins after `Popped` (`QueuedInterval`) and the push is
  beyond the queue (`PushedFrame`).
- `NoLeakNoSharing` and `BackpressureHolds` count: the queue holds as many
  frames as its length, the workers at most one each (`MemorySize`).
- `EssenceInPictureOrder`: that a strictly increasing list of numbers holds
  1, ..., k in this order would be an induction over the list. `SortedCounts` avoids
  it by counting: the elements up to place i are i different numbers, and those
  are exactly the numbers up to the element at i. When main muxes, the list
  has no gap, by `OnlyQueueTailLost`.
- `ShortMxfExplained`: the invariant `MxfExplained`, that only the mux finalizes. At
  the mux the list is 1, 2, ..., `Popped` (`PictureOrder`, `PoppedAccounted` with no
  worker left), so an MXF with all listed files lacks just the queue, and one that
  was finalized at file k + 1 found it empty. Afterwards nobody is left to change
  the queue or the files' contents (`CleanKept`).
- `NothingLeftBehind`: the invariant `DiskContents`, what is on disk beyond the list
  is what a worker has written and not listed yet; after `join_all` there is no
  such worker, and a handler that interrupts the run keeps it from returning 0.
- `PipelineLosesNoWakeup`: since each step is one of the queue, `WakeupsCorrect` is
  carried over instead of proved again.
- `NoOtherHang`: when nobody can go on, the queue is not full, because a parked worker
  has no ready rival and so finds nothing to pop, and is empty; hence main is not
  parked in push, and waits for a worker in `join_all`. Without workers
  (`--threads 0`) main does park for good; the property says so.

`PackageStoreProofs`, for all finite or infinite sets of files, names, directories
and playlists; the assumptions separate source and package directories, files
and playlists, and `Absent` and `Broken` from each other and from all contents.

- `StoreCorrect`: the inductive invariant is `TypeOK /\ OneCopy /\ PathsCurrent
  /\ SharedPathsInside`. `PathsCurrent` alone is not inductive: when a file is
  moved, another track with the same path would be left behind. That never
  happens, because `AddTrackFile` refuses a path that is in the package, so that
  two tracks share a path only when an ASSETMAP listed a name twice, and these lie
  in the package's own directory, out of which nothing is moved
  (`SharedPathsInside`). `OneCopy` says that no two paths hold the same file.
- `EssencesNeverLost` and `PathsAlwaysCurrent` are corollaries: a rename has a
  target that does not exist.
- `TableAlwaysRight`: by cases over the steps, with the fact that tracks and
  playlists never share a UUID.
- `NeverListsAhead`: `WrittenSoFar` says what each loop of `Write` has put on disk
  when the next begins, and XML files never vanish (`NoXmlFileVanishes`).
- `CopyingIsSafe`: an action property. Files that an earlier save listed exist
  in the directory; a move takes a file from another directory to a name that is
  free.
- `SavedPackageLoads`: an action property of the last step of a save, on three more
  invariants. `PlaylistsDistinct`: a playlist is in the package once, so that
  writing one does not overwrite another. `RefsKnown`: a playlist refers
  to tracks of the package only, which `Load` demands.
  `ContentWritten`: the playlists and the packing list on disk are the ones in
  memory as far as the loops of `Write` have come, and nothing in memory changes
  meanwhile. `Load` then finds every track by the path and the UUID it was saved
  with (`PathsCurrent`).

`CplEditorProofs`, for all sets of UUIDs, finite or not; no proof needs an
assumption on them.

- `EditorCorrect`: the inductive invariant `EditorInv`. `Sound` speaks of the four
  maps that the memory and the file have in common, and holds of both, so that
  `Write` and `Load` carry it from one to the other: a segment has sequences
  exactly if it is in the playlist, no two segments share one, and a sequence
  that plays has resources, a virtual track, and no rival of that track in its
  segment. `Views` says that a virtual track lists exactly the sequences that name
  it. `Painted` says that the rows of the scene are those of the tracks; it is
  what makes `DeleteResource`, which finds the track by the row, take the
  sequence out of the track it names. For `Load`, `MentionedTracks` shows that
  the tracks made from the file are those of the sequences that play in it.
- One lemma per kind of change (`SoundAddSegment` to `SoundDeleteSequence`,
  `ViewsAddSequence`, `ViewsDeleteSequence`) serves all the actions that make it;
  `RepaintPaints` holds for all of them. `InsertList` and `DeleteList` say what
  `InsertItemAfter`, `InsertItemBefore` and `DeleteItem` do to a list.
- `TypeCorrect`, `ViewsStayInStep`, `NothingStaysEmpty`, `RowsCurrent` and
  `NoOverlap` are corollaries.

`CplTimelineProofs`, for the same

- `PlaylistIsTimeline`: the editor is a `Timeline` under the refinement mapping,
  with `EditorInv` as the invariant that the mapping needs. `Played` is what one
  segment plays in every track; it is a function because two sequences of a
  segment never share a track. A change of the playlist changes what one segment
  plays (`ContentsResources`, `ContentsNewSequence`, `ContentsDeleteSequence`), or
  puts in or takes out a whole segment (`ContentsNewSegment`,
  `ContentsDeleteSegment`); every other segment plays what it played, because no
  sequence is in two. A lemma for each action (`InsertSegmentRefines` and so on)
  picks the change and the step of `Timeline`. In `DeleteResource` the three
  cases, with the sequence and the segment kept, the segment kept, and none kept,
  are one step `Take`. `Write` and `Load` carry the whole mapping between
  memory and file, where a file without tracks still says what each segment plays.

`DecodeLoopProofs`, for every number of streams, file length, packet size and
delay, and every set of faults; the theorems are about `SafeSpec`, which `Spec`
implies.

- `LoopCorrect`: the inductive invariant `LoopInv`. `PacketCovered` says that
  there is a unit of the packet left whenever it is decoded; `OnePacket` that a
  packet is held from the read to the free and at no other time. `FrameTypeKnown`
  needs `DecoderKnown`: a gotFrame that survived from the loop would send a
  stream without a decoder through `HandleFrame` in the flush, and only because
  the flush starts with its own `gotFrame = false` can the throw not be reached.
- `TypeCorrect`, `EveryPacketFreed`, `NoInvalidFrameType` are corollaries.
- `ImplementsFrameSource`: at most one video stream is registered
  (`OneVideoStream`), so each step delivers at most one frame of it.
- `CallbacksInOrder`: order at the callback is not inductive; it comes from the
  whole way. `OrderInv` says that the units of a stream form a chain: handed on,
  then resampler, then the one in hand, then decoder, each part increasing and
  before the next, and none beyond `Reached`, the last unit the decoder was
  given. A step adds at the end, moves one from part to part, or loses some; the
  lemmas `ChainTakes` to `ChainReleases` say so for any five parts.
- `EveryFrameArrives`: `AccountInv` says that the units in the chain and the
  dropped ones are exactly `1..Reached`, with none in both; the chain gives that
  what an error takes is nowhere else. `EmptiedInv` says what flush and drain
  have emptied when `done` is called.

Only model-checked is liveness: `Serves` of the queue, `DecodingCompletes`,
`PoppedIsRecorded` and `EndsOrHangsDrained` of the pipeline, `EndsOrDecoderStalls`
of the decoder. They rest on weak fairness, and fairness and ENABLED are out of
the proof system's reach. The safety half of the first and the fourth,
`NotifyOneSuffices` and `NoOtherHang`, is proved.

## Not modelled

- FFmpeg, OpenJPEG, asdcplib, OpenSSL, the schemas and the build files are
  third-party code or build input, and nearly all of the lines in this
  repository. What the programs rely on of them is stated with the module that
  uses it.
- Painting, layout and hit testing change nothing but pixels and the rectangle a
  drop is given to, which may be any in `CplEditor`.
- Command line options are a pure function of argv. The single-threaded branch of
  imfenc decodes as `DecodeLoop` does and encodes each frame inside the callback:
  it adds no interleaving, and its lists and clean-up are those of
  `EncodePipeline`.
- The rates of the J2K encoder, the sizes in the WAV header, durations and edit
  rates are arithmetic on one input. Their integer widths are hazards of
  `PROJECT.json`, at values that no bounded run reaches.
- Essence descriptors and the MXF reader copy fields one to one; settings are
  defaults of dialogs.

The hazards that no property covers are in `PROJECT.json`, each with a note.
