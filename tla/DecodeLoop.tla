----------------------------- MODULE DecodeLoop -----------------------------
(***************************************************************************)
(* InputStreamDecoder of imfenc: OpenFile registers the streams of a file, *)
(* Decode reads packets, feeds them to the decoder of their stream, hands  *)
(* the frames to the callbacks, flushes at the end and calls back "done".  *)
(*                                                                         *)
(* A stream is its index in the file.  Its content is numbered in units,   *)
(* 1, 2, ...: one unit is the data of one frame.  A packet holds one or    *)
(* more units of one stream.  libavcodec's decoders, which may hold frames *)
(* back (delay), and libswresample's buffer are queues of units.           *)
(***************************************************************************)
EXTENDS Integers, Sequences, SequencesExt

CONSTANTS Streams,     \* number of streams of the file
          MaxUnits,    \* bound: the units of one stream
          PacketUnits, \* bound: the units of one packet
          MaxDelay,    \* bound: the frames a decoder holds back
          Faults       \* what may fail: "open", "decode", "stall", "convert", "callback"

ASSUME StreamsAssumption == Streams \in Nat \ {0}
ASSUME BoundsAssumption == MaxUnits \in Nat /\ PacketUnits \in Nat /\ MaxDelay \in Nat

VARIABLES kinds,        \* what OpenFile finds each stream to be
          delay,        \* how many frames the decoder of each stream holds back
          extractAudio, \* _extractAudio
          pc,           \* where Decode is
          noError,      \* the loop's flag
          stream,       \* packet.stream_index
          left,         \* the units packet.data and packet.size still cover
          gotFrame,     \* gotFrame of the loop, then of the flush
          frame,        \* the unit in *decodedFrame
          fed,          \* units read from each stream
          decoder,      \* the units inside each stream's decoder
          swr,          \* the units inside each audio stream's resampler
          out,          \* the units handed to the callbacks
          dropped,      \* the units an error message stands for
          unfreed,      \* packets read and not freed
          track         \* the stream whose resampler is drained at the end

fileVars == <<kinds, delay, extractAudio>>
packetVars == <<stream, left, unfreed>>
frameVars == <<gotFrame, frame>>
unitVars == <<fed, decoder, swr, out, dropped>>
vars == <<fileVars, pc, noError, packetVars, frameVars, unitVars, track>>

Indices == 0..Streams - 1
Kinds == {"video", "audio", "other"}
Ended == {"done", "thrown", "terminated"}
Places == {"open", "read", "packet", "handle", "free",
           "flush", "handleFlushed", "drain", "stalled"} \cup Ended
Units == 1..MaxUnits
NoUnit == 0


(* OpenFile registers the first video stream and every audio stream.  What *)
(* has no decoder, and subtitle, data and further video streams, it skips. *)
VideoStreams == {i \in Indices : kinds[i] = "video" /\ \A j \in Indices : kinds[j] = "video" => i <= j}
AudioStreams == {i \in Indices : kinds[i] = "audio"}

FrameType(i) ==
    IF i \in VideoStreams THEN "video" ELSE IF i \in AudioStreams THEN "audio" ELSE "unknown"

(* The streams whose content the caller asked for. *)
Wanted == VideoStreams \cup (IF extractAudio THEN AudioStreams ELSE {})

TypeOK ==
    /\ kinds \in [Indices -> Kinds]
    /\ delay \in [Indices -> 0..MaxDelay]
    /\ extractAudio \in BOOLEAN
    /\ pc \in Places
    /\ noError \in BOOLEAN
    /\ stream \in Indices
    /\ left \in 0..PacketUnits
    /\ gotFrame \in BOOLEAN
    /\ frame \in Units \cup {NoUnit}
    /\ fed \in [Indices -> 0..MaxUnits]
    /\ decoder \in [Indices -> Seq(Units)]
    /\ swr \in [Indices -> Seq(Units)]
    /\ out \in [Indices -> Seq(Units)]
    /\ dropped \in [Indices -> SUBSET Units]
    /\ unfreed \in 0..1
    /\ track \in Nat

Nothing == [i \in Indices |-> <<>>]

Init ==
    /\ kinds \in [Indices -> Kinds]
    /\ delay \in [Indices -> 0..MaxDelay]
    /\ extractAudio \in BOOLEAN
    /\ pc = "open"
    /\ noError = TRUE
    /\ stream = 0
    /\ left = 0
    /\ gotFrame = FALSE
    /\ frame = NoUnit
    /\ fed = [i \in Indices |-> 0]
    /\ decoder = Nothing
    /\ swr = Nothing
    /\ out = Nothing
    /\ dropped = [i \in Indices |-> {}]
    /\ unfreed = 0
    /\ track = 0

-----------------------------------------------------------------------------
(* OpenFile *)

OpenFile ==
    /\ pc = "open"
    /\ VideoStreams \cup AudioStreams # {}
    /\ pc' = "read"
    /\ UNCHANGED <<fileVars, noError, packetVars, frameVars, unitVars, track>>

(* The file, its stream info or a codec cannot be opened, a scaler or      *)
(* resampler cannot be made, or there is no stream to decode.              *)
OpenFails ==
    /\ pc = "open"
    /\ "open" \in Faults \/ VideoStreams \cup AudioStreams = {}
    /\ pc' = "thrown"
    /\ UNCHANGED <<fileVars, noError, packetVars, frameVars, unitVars, track>>

-----------------------------------------------------------------------------
(* The decoding loop *)

(* av_read_frame returns a packet of any stream, registered or not. *)
ReadPacket ==
    /\ pc = "read"
    /\ noError
    /\ \E i \in Indices, n \in 1..PacketUnits :
          /\ fed[i] + n <= MaxUnits
          /\ fed' = [fed EXCEPT ![i] = @ + n]
          /\ stream' = i
          /\ left' = n
    /\ unfreed' = unfreed + 1
    /\ pc' = "packet"
    /\ UNCHANGED <<fileVars, noError, frameVars, decoder, swr, out, dropped, track>>

(* Mutated: the flush goes on with the loop's gotFrame. *)
LeaveLoopKeepingGotFrame ==
    /\ pc = "read"
    /\ stream' = IF noError THEN 0 ELSE stream
    /\ left' = 0
    /\ pc' = "flush"
    /\ UNCHANGED <<fileVars, noError, unfreed, frameVars, unitVars, track>>

(* The loop ends: after an error, or because av_read_frame returned an     *)
(* error or the end of the file, which cannot be told apart here.  The     *)
(* failed read has reset stream_index to 0 (av_init_packet); the flush     *)
(* that follows uses that packet, emptied, and a gotFrame of its own.      *)
LeaveLoop ==
    /\ pc = "read"
    /\ stream' = IF noError THEN 0 ELSE stream
    /\ left' = 0
    /\ gotFrame' = FALSE
    /\ pc' = "flush"
    /\ UNCHANGED <<fileVars, noError, unfreed, frame, unitVars, track>>

NextUnit == fed[stream] - left + 1

(* Mutated: data and size are taken past the packet. *)
AdvanceTooFar ==
    /\ left' = left - 2
    /\ pc' = IF left' > 0 THEN "packet" ELSE "free"

(* Mutated: neither data nor size moves. *)
AdvanceNot == pc' = "packet" /\ UNCHANGED left

(* packet.data and packet.size move past the unit; the inner loop goes on  *)
(* while data is left.                                                     *)
Advance ==
    /\ left' = left - 1
    /\ pc' = IF left' > 0 THEN "packet" ELSE "free"

(* DecodePacket, the decoder takes one unit and returns no frame yet. *)
DecoderHoldsBack ==
    /\ pc = "packet"
    /\ FrameType(stream) # "unknown"
    /\ Len(decoder[stream]) < delay[stream]
    /\ decoder' = [decoder EXCEPT ![stream] = Append(@, NextUnit)]
    /\ gotFrame' = FALSE
    /\ Advance
    /\ UNCHANGED <<fileVars, noError, stream, unfreed, frame, fed, swr, out, dropped, track>>

(* DecodePacket, the decoder takes one unit and returns its oldest frame. *)
DecoderReturnsFrame ==
    /\ pc = "packet"
    /\ FrameType(stream) # "unknown"
    /\ Len(decoder[stream]) >= delay[stream]
    /\ LET inside == Append(decoder[stream], NextUnit)
       IN  /\ frame' = Head(inside)
           /\ decoder' = [decoder EXCEPT ![stream] = Tail(inside)]
    /\ gotFrame' = TRUE
    /\ pc' = "handle"
    /\ UNCHANGED <<fileVars, noError, packetVars, fed, swr, out, dropped, track>>

(* DecodePacket returns a negative number: the rest of the packet is left, *)
(* and decoding goes on with the next one.                                 *)
DecoderFails ==
    /\ pc = "packet"
    /\ "decode" \in Faults
    /\ FrameType(stream) # "unknown"
    /\ dropped' = [dropped EXCEPT ![stream] = @ \cup NextUnit..fed[stream]]
    /\ gotFrame' = FALSE
    /\ pc' = "free"
    /\ UNCHANGED <<fileVars, noError, packetVars, frame, fed, decoder, swr, out, track>>

(* DecodePacket finds no decoder for the stream and returns -1. *)
UnknownStream ==
    /\ pc = "packet"
    /\ FrameType(stream) = "unknown"
    /\ gotFrame' = FALSE
    /\ pc' = "free"
    /\ UNCHANGED <<fileVars, noError, packetVars, frame, unitVars, track>>

(* The decoder consumes no byte, and nothing has changed when it is called *)
(* again: the inner loop never ends.                                       *)
DecoderStalls ==
    /\ pc = "packet"
    /\ "stall" \in Faults
    /\ FrameType(stream) # "unknown"
    /\ pc' = "stalled"
    /\ UNCHANGED <<fileVars, noError, packetVars, frameVars, unitVars, track>>

-----------------------------------------------------------------------------
(* HandleFrame *)

(* Mutated: the callback is called again for the frame. *)
HandleVideoFrameTwice ==
    /\ FrameType(stream) = "video"
    /\ out' = [out EXCEPT ![stream] = @ \o <<frame, frame>>]
    /\ UNCHANGED swr

(* HandleVideoFrame: the frame is numbered and given to the callback. *)
HandleVideoFrame ==
    /\ FrameType(stream) = "video"
    /\ out' = [out EXCEPT ![stream] = Append(@, frame)]
    /\ UNCHANGED swr

(* HandleAudioFrame: what the resampler lets go of is given to the         *)
(* callback; it may keep the end of it.                                    *)
HandleAudioFrame ==
    /\ FrameType(stream) = "audio"
    /\ extractAudio
    /\ LET all == Append(swr[stream], frame)
       IN  \E n \in {Len(all) - 1, Len(all)} :
              /\ out' = [out EXCEPT ![stream] = @ \o SubSeq(all, 1, n)]
              /\ swr' = [swr EXCEPT ![stream] = SubSeq(all, n + 1, Len(all))]

IgnoreAudioFrame ==
    /\ FrameType(stream) = "audio"
    /\ ~extractAudio
    /\ UNCHANGED <<swr, out>>

(* A frame of no known type: HandleFrame throws a pointer, which no        *)
(* handler of imfenc catches.                                              *)
InvalidFrameType == pc' = "terminated" /\ UNCHANGED <<swr, out>>

HandleFrame == HandleVideoFrame \/ HandleAudioFrame \/ IgnoreAudioFrame

(* HandleFrame returns true in the loop. *)
HandleLoopFrame ==
    /\ pc = "handle"
    /\ IF FrameType(stream) = "unknown"
       THEN InvalidFrameType /\ UNCHANGED left
       ELSE HandleFrame /\ Advance
    /\ UNCHANGED <<fileVars, noError, stream, unfreed, frameVars, fed, decoder, dropped, track>>

(* swr_convert fails: HandleFrame returns false, which ends both loops. *)
ConversionFails ==
    /\ pc = "handle"
    /\ "convert" \in Faults
    /\ FrameType(stream) = "audio" /\ extractAudio
    /\ dropped' = [dropped EXCEPT ![stream] = @ \cup {frame} \cup NextUnit + 1..fed[stream]]
    /\ noError' = FALSE
    /\ pc' = "free"
    /\ UNCHANGED <<fileVars, packetVars, frameVars, fed, decoder, swr, out, track>>

(* HandleFrame in the flush: what it returns is ignored. *)
HandleFlushedFrame ==
    /\ pc = "handleFlushed"
    /\ IF FrameType(stream) = "unknown"
       THEN InvalidFrameType /\ UNCHANGED dropped
       ELSE /\ pc' = "flush"
            /\ \/ /\ HandleFrame
                  /\ UNCHANGED dropped
               \/ /\ "convert" \in Faults
                  /\ FrameType(stream) = "audio" /\ extractAudio
                  /\ dropped' = [dropped EXCEPT ![stream] = @ \cup {frame}]
                  /\ UNCHANGED <<swr, out>>
    /\ UNCHANGED <<fileVars, noError, packetVars, frameVars, fed, decoder, track>>

(* A callback throws, and so does Decode: the packet is not freed. *)
CallbackThrows ==
    /\ "callback" \in Faults
    /\ pc \in {"handle", "handleFlushed", "drain"}
    /\ pc = "drain" => extractAudio /\ track \in AudioStreams
    /\ pc # "drain" => FrameType(stream) = "video" \/ extractAudio
    /\ pc' = "thrown"
    /\ UNCHANGED <<fileVars, noError, packetVars, frameVars, unitVars, track>>

(* Mutated: an error leaves the loop before av_free_packet. *)
FreePacketUnlessError ==
    /\ pc = "free"
    /\ unfreed' = IF noError THEN unfreed - 1 ELSE unfreed
    /\ pc' = "read"
    /\ UNCHANGED <<fileVars, noError, stream, left, frameVars, unitVars, track>>

(* av_free_packet(&origPacket) *)
FreePacket ==
    /\ pc = "free"
    /\ unfreed' = unfreed - 1
    /\ pc' = "read"
    /\ UNCHANGED <<fileVars, noError, stream, left, frameVars, unitVars, track>>

-----------------------------------------------------------------------------
(* The flush and the delayed audio *)

(* Mutated: one frame is flushed, where the loop takes them all. *)
FlushOnce ==
    /\ pc = "flush"
    /\ gotFrame' = (FrameType(stream) # "unknown" /\ decoder[stream] # <<>> /\ ~gotFrame)
    /\ IF gotFrame'
       THEN /\ frame' = Head(decoder[stream])
            /\ decoder' = [decoder EXCEPT ![stream] = Tail(@)]
            /\ pc' = "handleFlushed"
       ELSE UNCHANGED <<frame, decoder>> /\ pc' = "drain"
    /\ UNCHANGED <<fileVars, noError, packetVars, fed, swr, out, dropped, track>>

(* DecodePacket with an empty packet: the decoder returns the frames it    *)
(* holds, one per call, or fails; with no decoder gotFrame stays as it is. *)
Flush ==
    /\ pc = "flush"
    /\ \/ /\ FrameType(stream) # "unknown" /\ decoder[stream] # <<>>
          /\ gotFrame' = TRUE
          /\ frame' = Head(decoder[stream])
          /\ decoder' = [decoder EXCEPT ![stream] = Tail(@)]
          /\ UNCHANGED dropped
       \/ /\ FrameType(stream) # "unknown" /\ decoder[stream] = <<>>
          /\ gotFrame' = FALSE
          /\ UNCHANGED <<frame, decoder, dropped>>
       \/ /\ FrameType(stream) # "unknown" /\ "decode" \in Faults
          /\ gotFrame' = FALSE
          /\ dropped' = [dropped EXCEPT ![stream] = @ \cup ToSet(decoder[stream])]
          /\ decoder' = [decoder EXCEPT ![stream] = <<>>]
          /\ UNCHANGED frame
       \/ /\ FrameType(stream) = "unknown"
          /\ UNCHANGED <<gotFrame, frame, decoder, dropped>>
    /\ pc' = IF gotFrame' THEN "handleFlushed" ELSE "drain"
    /\ UNCHANGED <<fileVars, noError, packetVars, fed, swr, out, track>>

(* HandleDelayedAudioFrames for one audio stream after the other. *)
Draining == pc = "drain" /\ extractAudio /\ track \in Indices

(* swr_convert returns samples: they are handed on and the loop goes on. *)
DrainSamples ==
    /\ Draining
    /\ track \in AudioStreams /\ swr[track] # <<>>
    /\ \E n \in 1..Len(swr[track]) :
          /\ out' = [out EXCEPT ![track] = @ \o SubSeq(swr[track], 1, n)]
          /\ swr' = [swr EXCEPT ![track] = SubSeq(@, n + 1, Len(@))]
    /\ UNCHANGED <<fileVars, pc, noError, packetVars, frameVars, fed, decoder, dropped, track>>

(* Mutated: while (newSamples >= 0), which an empty resampler never ends. *)
DrainNextOnErrorOnly ==
    /\ Draining
    /\ \/ track \notin AudioStreams /\ UNCHANGED <<swr, dropped>>
       \/ /\ track \in AudioStreams /\ swr[track] # <<>> /\ "convert" \in Faults
          /\ dropped' = [dropped EXCEPT ![track] = @ \cup ToSet(swr[track])]
          /\ swr' = [swr EXCEPT ![track] = <<>>]
    /\ track' = track + 1
    /\ UNCHANGED <<fileVars, pc, noError, packetVars, frameVars, fed, decoder, out>>

(* The resampler is empty (the callback gets no samples), or it fails,     *)
(* which is ignored; a stream that is not audio has no resampler.          *)
DrainNext ==
    /\ Draining
    /\ \/ swr[track] = <<>> /\ UNCHANGED <<swr, dropped>>
       \/ /\ track \in AudioStreams /\ "convert" \in Faults
          /\ dropped' = [dropped EXCEPT ![track] = @ \cup ToSet(swr[track])]
          /\ swr' = [swr EXCEPT ![track] = <<>>]
    /\ track' = track + 1
    /\ UNCHANGED <<fileVars, pc, noError, packetVars, frameVars, fed, decoder, out>>

(* _doneCallback() and the end of Decode. *)
Done ==
    /\ pc = "drain"
    /\ ~Draining
    /\ pc' = "done"
    /\ UNCHANGED <<fileVars, noError, packetVars, frameVars, unitVars, track>>

-----------------------------------------------------------------------------

DecodeStep ==
    \/ OpenFile \/ OpenFails
    \/ ReadPacket \/ LeaveLoop
    \/ DecoderHoldsBack \/ DecoderReturnsFrame \/ DecoderFails \/ DecoderStalls \/ UnknownStream
    \/ HandleLoopFrame \/ ConversionFails \/ FreePacket
    \/ Flush \/ HandleFlushedFrame \/ DrainSamples \/ DrainNext \/ Done

Next == DecodeStep \/ CallbackThrows

SafeSpec == Init /\ [][Next]_vars

(* One thread that is not stopped; files are finite (fed is bounded).  No  *)
(* callback has to throw.                                                  *)
Spec == SafeSpec /\ WF_vars(DecodeStep)

-----------------------------------------------------------------------------
(* Safety *)

Increasing(s) == \A i, j \in DOMAIN s : i < j => s[i] < s[j]

(* What the callbacks get is in the order of the stream and never twice,   *)
(* across packets that hold several frames, errors that skip the rest of a *)
(* packet, decoders that hold frames back and the final flush.             *)
InStreamOrder == \A i \in Wanted : Increasing(out[i])

(* When the done callback has come, every frame of every wanted stream has *)
(* reached its callback, unless an error of a decoder or a resampler took  *)
(* it, or it is still inside the decoder of a stream that was not flushed. *)
DeliveredOrExplained ==
    pc = "done" =>
        /\ \A i \in Wanted : ToSet(out[i]) = (1..fed[i]) \ (dropped[i] \cup ToSet(decoder[i]))
        /\ decoder[stream] = <<>>

(* av_free_packet is called for every packet, on every way through the     *)
(* loop that does not throw (the NOTE at the top of the loop).             *)
PacketsFreed == pc \in {"read", "flush", "handleFlushed", "drain", "done"} => unfreed = 0

(* The throw of a pointer in HandleFrame cannot be reached: a packet of a  *)
(* stream without a decoder never comes with gotFrame set.                 *)
FrameTypeKnown == pc # "terminated"

(* Decode keeps the promise its caller relies on: frames numbered one by   *)
(* one, then done once, or an exception.                                   *)
VideoFrames == IF VideoStreams = {} THEN <<>> ELSE out[CHOOSE i \in VideoStreams : TRUE]
Source == INSTANCE FrameSource
          WITH delivered <- Len(VideoFrames),
               over <- IF pc \in {"done", "thrown"} THEN pc ELSE "no"
IsFrameSource == Source!Spec

(* Decoding a finite file ends, or it hangs in the inner loop with a       *)
(* decoder that consumes nothing: there is no other hang.                  *)
EndsOrDecoderStalls == <>[](pc \in Ended \cup {"stalled"})

-----------------------------------------------------------------------------
(* An expectation the code does not meet *)

(* The flush takes the remaining data from the decoders: at the end of a   *)
(* file without errors no frame is left inside one.                        *)
AllDecodersFlushed ==
    pc = "done" /\ noError => \A i \in Wanted : decoder[i] = <<>>

=============================================================================
