-------------------------- MODULE DecodeLoopProofs --------------------------
(***************************************************************************)
(* Proofs about DecodeLoop, for every number of streams, length of the     *)
(* file, size of packets and delay of decoders.                            *)
(***************************************************************************)
EXTENDS DecodeLoop, SequenceTheorems, TLAPS

USE DEF Indices, Units, NoUnit, Ended

(* While a packet is decoded there is a unit of it left, which was read,   *)
(* and a frame that is handled is one.                                     *)
PacketCovered ==
    /\ pc \in {"packet", "handle"} => left \in 1..fed[stream]
    /\ pc \in {"handle", "handleFlushed"} => frame \in Units

(* A packet is held from av_read_frame to av_free_packet and at no other   *)
(* time, unless Decode is left by an exception or hangs.                   *)
OnePacket ==
    /\ PacketsFreed
    /\ pc = "open" => unfreed = 0
    /\ pc \in {"packet", "handle", "free"} => unfreed = 1

(* gotFrame is set only by a decoder that exists. *)
DecoderKnown ==
    /\ FrameTypeKnown
    /\ pc \in {"handle", "handleFlushed"} => FrameType(stream) # "unknown"
    /\ pc = "flush" /\ gotFrame => FrameType(stream) # "unknown"

LoopInv == TypeOK /\ PacketCovered /\ OnePacket /\ DecoderKnown

-----------------------------------------------------------------------------
(* Types, packets and frame types. *)

LEMMA QueueTypes ==
    ASSUME NEW S, NEW s \in Seq(S)
    PROVE  /\ \A x \in S : Append(s, x) \in Seq(S) /\ Append(s, x) # <<>> /\ Len(Append(s, x)) = Len(s) + 1
           /\ s # <<>> => Head(s) \in S /\ Tail(s) \in Seq(S)
           /\ \A t \in Seq(S) : s \o t \in Seq(S)
<1>1. \A x \in S : Append(s, x) \in Seq(S) /\ Append(s, x) # <<>> /\ Len(Append(s, x)) = Len(s) + 1
  <2> SUFFICES ASSUME NEW x \in S
               PROVE  Append(s, x) \in Seq(S) /\ Append(s, x) # <<>> /\ Len(Append(s, x)) = Len(s) + 1
    OBVIOUS
  <2>1. Append(s, x) \in Seq(S) /\ Len(Append(s, x)) = Len(s) + 1
    OBVIOUS
  <2>2. Len(s) \in Nat /\ Len(<<>>) = 0
    BY LenProperties
  <2> QED BY <2>1, <2>2
<1>2. s # <<>> => Head(s) \in S /\ Tail(s) \in Seq(S)
  BY HeadTailProperties
<1>4. \A t \in Seq(S) : s \o t \in Seq(S)
  BY ConcatProperties
<1> QED BY <1>1, <1>2, <1>4

LEMMA SubSeqType ==
    ASSUME NEW S, NEW s \in Seq(S), NEW m \in Int, NEW n \in Int, m >= 1, n <= Len(s)
    PROVE  SubSeq(s, m, n) \in Seq(S)
<1>1. \A i \in m..n : s[i] \in S
  BY LenProperties
<1> QED BY <1>1, SubSeqProperties

LEMMA LoopInit == Init => LoopInv
<1> SUFFICES ASSUME Init PROVE LoopInv
  OBVIOUS
<1>1. Nothing \in [Indices -> Seq(Units)]
  BY DEF Nothing
<1>2. gotFrame \in BOOLEAN /\ noError \in BOOLEAN /\ extractAudio \in BOOLEAN
  BY Zenon DEF Init
<1>3. 0 \in Indices
  BY StreamsAssumption
<1>4. [i \in Indices |-> 0] \in [Indices -> 0..MaxUnits] /\ [i \in Indices |-> {}] \in [Indices -> SUBSET Units]
  BY BoundsAssumption
<1>5. TypeOK
  BY <1>1, <1>2, <1>3, <1>4, BoundsAssumption DEF Init, TypeOK, Places
<1> QED BY <1>5 DEF Init, LoopInv, PacketCovered, OnePacket, PacketsFreed, DecoderKnown, FrameTypeKnown

(* The parts of TypeOK that a step gives new values. *)
LEMMA OpenKeepsLoop ==
    ASSUME LoopInv, OpenFile \/ OpenFails
    PROVE  LoopInv'
<1> USE DEF OpenFile, OpenFails, fileVars, packetVars, frameVars, unitVars
<1>1. TypeOK'
  BY DEF LoopInv, TypeOK, Places
<1> QED BY <1>1 DEF LoopInv, PacketCovered, OnePacket, PacketsFreed, DecoderKnown, FrameTypeKnown, TypeOK

LEMMA ReadKeepsLoop ==
    ASSUME LoopInv, ReadPacket \/ LeaveLoop \/ FreePacket
    PROVE  LoopInv'
<1> USE DEF fileVars, packetVars, frameVars, unitVars
<1>1. CASE ReadPacket
  <2>1. PICK i \in Indices, n \in 1..PacketUnits :
           /\ fed[i] + n <= MaxUnits
           /\ fed' = [fed EXCEPT ![i] = @ + n]
           /\ stream' = i /\ left' = n
    BY <1>1 DEF ReadPacket
  <2>2. pc = "read" /\ pc' = "packet" /\ unfreed' = unfreed + 1 /\ unfreed = 0
    BY <1>1 DEF ReadPacket, LoopInv, OnePacket, PacketsFreed
  <2>3. fed' \in [Indices -> 0..MaxUnits] /\ left' \in 0..PacketUnits /\ left' \in 1..fed'[stream']
    BY <2>1, BoundsAssumption DEF LoopInv, TypeOK
  <2>4. UNCHANGED <<fileVars, noError, frameVars, decoder, swr, out, dropped, track>>
    BY <1>1 DEF ReadPacket
  <2>5. TypeOK'
    BY <2>1, <2>2, <2>3, <2>4 DEF LoopInv, TypeOK, Places
  <2> QED BY <2>2, <2>3, <2>5 DEF LoopInv, PacketCovered, OnePacket, PacketsFreed, DecoderKnown, FrameTypeKnown
<1>2. CASE LeaveLoop
  <2>1. stream' \in Indices /\ left' \in 0..PacketUnits
    BY <1>2, StreamsAssumption, BoundsAssumption DEF LeaveLoop, LoopInv, TypeOK
  <2>2. pc = "read" /\ pc' = "flush" /\ gotFrame' = FALSE
        /\ UNCHANGED <<fileVars, noError, unfreed, frame, unitVars, track>>
    BY <1>2 DEF LeaveLoop
  <2>3. gotFrame' \in BOOLEAN
    BY <2>2, Zenon
  <2>4. TypeOK'
    BY <2>1, <2>2, <2>3 DEF LoopInv, TypeOK, Places
  <2> QED BY <2>2, <2>4 DEF LoopInv, PacketCovered, OnePacket, PacketsFreed, DecoderKnown, FrameTypeKnown
<1>3. CASE FreePacket
  <2>1. pc = "free" /\ pc' = "read" /\ unfreed = 1 /\ unfreed' = 0
        /\ UNCHANGED <<fileVars, noError, stream, left, frameVars, unitVars, track>>
    BY <1>3 DEF FreePacket, LoopInv, OnePacket
  <2>2. TypeOK'
    BY <2>1 DEF LoopInv, TypeOK, Places
  <2> QED BY <2>1, <2>2 DEF LoopInv, PacketCovered, OnePacket, PacketsFreed, DecoderKnown, FrameTypeKnown
<1> QED BY <1>1, <1>2, <1>3

(* Moving past a unit. *)
LEMMA AdvanceTypes ==
    ASSUME TypeOK, left \in 1..fed[stream], Advance
    PROVE  /\ left' \in 0..PacketUnits /\ pc' \in {"packet", "free"}
           /\ pc' = "packet" => left' \in 1..fed[stream]
<1>1. fed[stream] \in Nat /\ left \in 0..PacketUnits /\ PacketUnits \in Nat
  BY BoundsAssumption DEF TypeOK
<1>2. left' = left - 1 /\ pc' = IF left' > 0 THEN "packet" ELSE "free"
  BY DEF Advance
<1>3. left' \in 0..PacketUnits /\ left' \in 0..fed[stream]
  BY <1>1, <1>2
<1> QED BY <1>1, <1>2, <1>3

LEMMA UnitTypes ==
    ASSUME TypeOK, left \in 1..fed[stream]
    PROVE  NextUnit \in Units /\ NextUnit..fed[stream] \subseteq Units
BY BoundsAssumption DEF TypeOK, NextUnit

LEMMA DecodeKeepsLoop ==
    ASSUME LoopInv,
           \/ DecoderHoldsBack \/ DecoderReturnsFrame \/ DecoderFails
           \/ DecoderStalls \/ UnknownStream
    PROVE  LoopInv'
<1> USE DEF fileVars, packetVars, frameVars, unitVars
<1>1. pc = "packet" /\ left \in 1..fed[stream] /\ unfreed = 1 /\ stream \in Indices
  BY DEF LoopInv, PacketCovered, OnePacket, TypeOK,
         DecoderHoldsBack, DecoderReturnsFrame, DecoderFails, DecoderStalls, UnknownStream
<1>2. NextUnit \in Units /\ NextUnit..fed[stream] \subseteq Units
  BY <1>1, UnitTypes DEF LoopInv
<1>3. decoder[stream] \in Seq(Units)
  BY <1>1 DEF LoopInv, TypeOK
<1>4. /\ Append(decoder[stream], NextUnit) \in Seq(Units)
      /\ Head(Append(decoder[stream], NextUnit)) \in Units
      /\ Tail(Append(decoder[stream], NextUnit)) \in Seq(Units)
  <2>1. Append(decoder[stream], NextUnit) \in Seq(Units) /\ Append(decoder[stream], NextUnit) # <<>>
    BY <1>2, <1>3, QueueTypes
  <2> QED BY <2>1, QueueTypes
<1>5. CASE DecoderHoldsBack
  <2>1. /\ decoder' \in [Indices -> Seq(Units)]
        /\ UNCHANGED <<fileVars, noError, stream, unfreed, frame, fed, swr, out, dropped, track>>
        /\ gotFrame' = FALSE /\ Advance
    BY <1>4, <1>5 DEF DecoderHoldsBack, LoopInv, TypeOK
  <2>2. gotFrame' \in BOOLEAN
    BY <2>1, Zenon
  <2>3. /\ left' \in 0..PacketUnits /\ pc' \in {"packet", "free"}
        /\ pc' = "packet" => left' \in 1..fed[stream]
    BY <1>1, <2>1, AdvanceTypes DEF LoopInv
  <2>4. TypeOK'
    BY <2>1, <2>2, <2>3 DEF LoopInv, TypeOK, Places
  <2> QED BY <1>1, <2>1, <2>3, <2>4
          DEF LoopInv, PacketCovered, OnePacket, PacketsFreed, DecoderKnown, FrameTypeKnown
<1>6. CASE DecoderReturnsFrame
  <2>1. /\ frame' \in Units /\ decoder' \in [Indices -> Seq(Units)]
        /\ UNCHANGED <<fileVars, noError, packetVars, fed, swr, out, dropped, track>>
        /\ gotFrame' = TRUE /\ pc' = "handle" /\ FrameType(stream) # "unknown"
    BY <1>4, <1>6 DEF DecoderReturnsFrame, LoopInv, TypeOK
  <2>2. gotFrame' \in BOOLEAN
    BY <2>1, Zenon
  <2>3. TypeOK'
    BY <2>1, <2>2 DEF LoopInv, TypeOK, Places
  <2>4. FrameType(stream)' = FrameType(stream)
    BY <2>1 DEF FrameType, VideoStreams, AudioStreams
  <2> QED BY <1>1, <2>1, <2>3, <2>4
          DEF LoopInv, PacketCovered, OnePacket, PacketsFreed, DecoderKnown, FrameTypeKnown
<1>7. CASE DecoderFails \/ UnknownStream
  <2>1. /\ UNCHANGED <<fileVars, noError, packetVars, frame, fed, decoder, swr, out, track>>
        /\ gotFrame' = FALSE /\ pc' = "free"
    BY <1>7 DEF DecoderFails, UnknownStream
  <2>2. dropped' \in [Indices -> SUBSET Units]
    BY <1>2, <1>7 DEF DecoderFails, UnknownStream, LoopInv, TypeOK
  <2>3. gotFrame' \in BOOLEAN
    BY <2>1, Zenon
  <2>4. TypeOK'
    BY <2>1, <2>2, <2>3 DEF LoopInv, TypeOK, Places
  <2> QED BY <1>1, <2>1, <2>4
          DEF LoopInv, PacketCovered, OnePacket, PacketsFreed, DecoderKnown, FrameTypeKnown
<1>8. CASE DecoderStalls
  <2>1. UNCHANGED <<fileVars, noError, packetVars, frameVars, unitVars, track>> /\ pc' = "stalled"
    BY <1>8 DEF DecoderStalls
  <2>2. TypeOK'
    BY <2>1 DEF LoopInv, TypeOK, Places
  <2> QED BY <2>1, <2>2
          DEF LoopInv, PacketCovered, OnePacket, PacketsFreed, DecoderKnown, FrameTypeKnown
<1> QED BY <1>5, <1>6, <1>7, <1>8

(* What HandleFrame may do to the queues; it does it for one stream. *)
LEMMA HandleTypes ==
    ASSUME TypeOK, frame \in Units, HandleFrame
    PROVE  out' \in [Indices -> Seq(Units)] /\ swr' \in [Indices -> Seq(Units)]
<1>1. stream \in Indices /\ out[stream] \in Seq(Units) /\ swr[stream] \in Seq(Units)
  BY DEF TypeOK
<1>2. CASE HandleVideoFrame
  BY <1>1, <1>2, QueueTypes DEF HandleVideoFrame, TypeOK
<1>3. CASE IgnoreAudioFrame
  BY <1>3 DEF IgnoreAudioFrame, TypeOK
<1>4. CASE HandleAudioFrame
  <2> DEFINE all == Append(swr[stream], frame)
  <2>1. PICK n \in {Len(all) - 1, Len(all)} :
           /\ out' = [out EXCEPT ![stream] = @ \o SubSeq(all, 1, n)]
           /\ swr' = [swr EXCEPT ![stream] = SubSeq(all, n + 1, Len(all))]
    BY <1>4 DEF HandleAudioFrame
  <2>2. all \in Seq(Units) /\ Len(all) \in Nat /\ Len(all) >= 1
    <3>1. Len(swr[stream]) \in Nat
      BY <1>1, LenProperties
    <3>2. all \in Seq(Units) /\ Len(all) = Len(swr[stream]) + 1
      BY <1>1, QueueTypes
    <3> QED BY <3>1, <3>2
  <2> HIDE DEF all
  <2>3. 1 \in Int /\ 1 >= 1 /\ Len(all) <= Len(all) /\ n \in Int /\ n + 1 \in Int /\ n <= Len(all) /\ n + 1 >= 1 /\ Len(all) \in Int
    BY <2>2
  <2>4. SubSeq(all, 1, n) \in Seq(Units) /\ SubSeq(all, n + 1, Len(all)) \in Seq(Units)
    <3>1. SubSeq(all, 1, n) \in Seq(Units)
      BY <2>2, <2>3, SubSeqType, Zenon
    <3>2. SubSeq(all, n + 1, Len(all)) \in Seq(Units)
      BY <2>2, <2>3, SubSeqType, Zenon
    <3> QED BY <3>1, <3>2
  <2>5. out[stream] \o SubSeq(all, 1, n) \in Seq(Units)
    BY <1>1, <2>4, QueueTypes
  <2> QED BY <1>1, <2>1, <2>4, <2>5 DEF TypeOK
<1> QED BY <1>2, <1>3, <1>4 DEF HandleFrame

LEMMA HandleKeepsLoop ==
    ASSUME LoopInv,
           \/ HandleLoopFrame \/ ConversionFails \/ HandleFlushedFrame \/ CallbackThrows
    PROVE  LoopInv'
<1> USE DEF fileVars, packetVars, frameVars, unitVars
<1>1. CASE HandleLoopFrame
  <2>1. /\ FrameType(stream) # "unknown" /\ left \in 1..fed[stream] /\ unfreed = 1 /\ frame \in Units
    BY <1>1 DEF HandleLoopFrame, LoopInv, DecoderKnown, PacketCovered, OnePacket
  <2>2. /\ HandleFrame /\ Advance
        /\ UNCHANGED <<fileVars, noError, stream, unfreed, frameVars, fed, decoder, dropped, track>>
    BY <1>1, <2>1 DEF HandleLoopFrame
  <2>3. out' \in [Indices -> Seq(Units)] /\ swr' \in [Indices -> Seq(Units)]
    BY <2>1, <2>2, HandleTypes DEF LoopInv
  <2>4. /\ left' \in 0..PacketUnits /\ pc' \in {"packet", "free"}
        /\ pc' = "packet" => left' \in 1..fed[stream]
    BY <2>1, <2>2, AdvanceTypes DEF LoopInv
  <2>5. TypeOK'
    BY <2>2, <2>3, <2>4 DEF LoopInv, TypeOK, Places
  <2> QED BY <2>1, <2>2, <2>4, <2>5
          DEF LoopInv, PacketCovered, OnePacket, PacketsFreed, DecoderKnown, FrameTypeKnown
<1>2. CASE ConversionFails
  <2>1. /\ left \in 1..fed[stream] /\ unfreed = 1 /\ frame \in Units /\ stream \in Indices
    BY <1>2 DEF ConversionFails, LoopInv, TypeOK, PacketCovered, OnePacket
  <2>2. /\ noError' = FALSE /\ pc' = "free"
        /\ dropped' = [dropped EXCEPT ![stream] = @ \cup {frame} \cup NextUnit + 1..fed[stream]]
        /\ UNCHANGED <<fileVars, packetVars, frameVars, fed, decoder, swr, out, track>>
    BY <1>2 DEF ConversionFails
  <2>3. NextUnit + 1..fed[stream] \subseteq Units
    BY <2>1, BoundsAssumption DEF NextUnit, LoopInv, TypeOK
  <2>4. dropped' \in [Indices -> SUBSET Units]
    BY <2>1, <2>2, <2>3 DEF LoopInv, TypeOK
  <2>5. noError' \in BOOLEAN
    BY <2>2, Zenon
  <2>6. TypeOK'
    BY <2>2, <2>4, <2>5 DEF LoopInv, TypeOK, Places
  <2> QED BY <2>1, <2>2, <2>6
          DEF LoopInv, PacketCovered, OnePacket, PacketsFreed, DecoderKnown, FrameTypeKnown
<1>3. CASE HandleFlushedFrame
  <2>1. FrameType(stream) # "unknown" /\ unfreed = 0 /\ frame \in Units /\ stream \in Indices
    BY <1>3 DEF HandleFlushedFrame, LoopInv, TypeOK, DecoderKnown, PacketCovered, OnePacket, PacketsFreed
  <2>2. /\ pc' = "flush"
        /\ \/ HandleFrame /\ UNCHANGED dropped
           \/ dropped' = [dropped EXCEPT ![stream] = @ \cup {frame}] /\ UNCHANGED <<swr, out>>
        /\ UNCHANGED <<fileVars, noError, packetVars, frameVars, fed, decoder, track>>
    BY <1>3, <2>1 DEF HandleFlushedFrame
  <2>3. /\ out' \in [Indices -> Seq(Units)] /\ swr' \in [Indices -> Seq(Units)]
        /\ dropped' \in [Indices -> SUBSET Units]
    <3>1. CASE HandleFrame /\ UNCHANGED dropped
      BY <2>1, <3>1, HandleTypes DEF LoopInv, TypeOK
    <3>2. CASE dropped' = [dropped EXCEPT ![stream] = @ \cup {frame}] /\ UNCHANGED <<swr, out>>
      BY <2>1, <3>2 DEF LoopInv, TypeOK
    <3> QED BY <2>2, <3>1, <3>2
  <2>4. TypeOK'
    BY <2>2, <2>3 DEF LoopInv, TypeOK, Places
  <2>5. FrameType(stream)' = FrameType(stream)
    BY <2>2 DEF FrameType, VideoStreams, AudioStreams
  <2> QED BY <2>1, <2>2, <2>4, <2>5
          DEF LoopInv, PacketCovered, OnePacket, PacketsFreed, DecoderKnown, FrameTypeKnown
<1>4. CASE CallbackThrows
  <2>1. pc' = "thrown" /\ UNCHANGED <<fileVars, noError, packetVars, frameVars, unitVars, track>>
    BY <1>4 DEF CallbackThrows
  <2>2. TypeOK'
    BY <2>1 DEF LoopInv, TypeOK, Places
  <2> QED BY <2>1, <2>2
          DEF LoopInv, PacketCovered, OnePacket, PacketsFreed, DecoderKnown, FrameTypeKnown
<1> QED BY <1>1, <1>2, <1>3, <1>4

LEMMA UnitsOf ==
    ASSUME NEW S, NEW s \in Seq(S)
    PROVE  ToSet(s) \subseteq S
BY ElementOfSeq, LenProperties DEF ToSet

LEMMA FlushKeepsLoop ==
    ASSUME LoopInv, Flush
    PROVE  LoopInv'
<1> USE DEF fileVars, packetVars, frameVars, unitVars
<1>1. /\ pc = "flush" /\ stream \in Indices /\ unfreed = 0 /\ decoder[stream] \in Seq(Units)
      /\ gotFrame => FrameType(stream) # "unknown"
  BY DEF Flush, LoopInv, TypeOK, OnePacket, PacketsFreed, DecoderKnown
<1>2. /\ pc' = IF gotFrame' THEN "handleFlushed" ELSE "drain"
      /\ UNCHANGED <<fileVars, noError, packetVars, fed, swr, out, track>>
  BY DEF Flush
<1>3. /\ gotFrame' \in BOOLEAN /\ frame' \in Units \cup {NoUnit}
      /\ decoder' \in [Indices -> Seq(Units)] /\ dropped' \in [Indices -> SUBSET Units]
      /\ gotFrame' => FrameType(stream) # "unknown" /\ frame' \in Units
  <2>1. CASE /\ FrameType(stream) # "unknown" /\ decoder[stream] # <<>>
             /\ gotFrame' = TRUE
             /\ frame' = Head(decoder[stream])
             /\ decoder' = [decoder EXCEPT ![stream] = Tail(@)]
             /\ UNCHANGED dropped
    <3>1. Head(decoder[stream]) \in Units /\ Tail(decoder[stream]) \in Seq(Units)
      BY <1>1, <2>1, QueueTypes
    <3>2. gotFrame' \in BOOLEAN
      BY <2>1, Zenon
    <3> QED BY <1>1, <2>1, <3>1, <3>2 DEF LoopInv, TypeOK
  <2>2. CASE /\ FrameType(stream) # "unknown" /\ decoder[stream] = <<>>
             /\ gotFrame' = FALSE
             /\ UNCHANGED <<frame, decoder, dropped>>
    <3>2. gotFrame' \in BOOLEAN
      BY <2>2, Zenon
    <3> QED BY <2>2, <3>2 DEF LoopInv, TypeOK
  <2>3. CASE /\ FrameType(stream) # "unknown" /\ "decode" \in Faults
             /\ gotFrame' = FALSE
             /\ dropped' = [dropped EXCEPT ![stream] = @ \cup ToSet(decoder[stream])]
             /\ decoder' = [decoder EXCEPT ![stream] = <<>>]
             /\ UNCHANGED frame
    <3>1. ToSet(decoder[stream]) \subseteq Units
      BY <1>1, UnitsOf, Zenon
    <3>3. <<>> \in Seq(Units)
      BY EmptySeq
    <3>2. gotFrame' \in BOOLEAN
      BY <2>3, Zenon
    <3> QED BY <1>1, <2>3, <3>1, <3>2, <3>3 DEF LoopInv, TypeOK
  <2>4. CASE FrameType(stream) = "unknown" /\ UNCHANGED <<gotFrame, frame, decoder, dropped>>
    BY <1>1, <2>4 DEF LoopInv, TypeOK
  <2> QED BY <2>1, <2>2, <2>3, <2>4 DEF Flush
<1>4. TypeOK'
  BY <1>2, <1>3 DEF LoopInv, TypeOK, Places
<1>5. FrameType(stream)' = FrameType(stream)
  BY <1>2 DEF FrameType, VideoStreams, AudioStreams
<1> QED BY <1>1, <1>2, <1>3, <1>4, <1>5
        DEF LoopInv, PacketCovered, OnePacket, PacketsFreed, DecoderKnown, FrameTypeKnown

LEMMA DrainKeepsLoop ==
    ASSUME LoopInv, DrainSamples \/ DrainNext \/ Done
    PROVE  LoopInv'
<1> USE DEF fileVars, packetVars, frameVars, unitVars
<1>1. CASE DrainSamples
  <2>1. /\ pc = "drain" /\ track \in Indices /\ swr[track] \in Seq(Units) /\ out[track] \in Seq(Units)
        /\ UNCHANGED <<fileVars, pc, noError, packetVars, frameVars, fed, decoder, dropped, track>>
    BY <1>1 DEF DrainSamples, Draining, LoopInv, TypeOK
  <2>2. PICK n \in 1..Len(swr[track]) :
           /\ out' = [out EXCEPT ![track] = @ \o SubSeq(swr[track], 1, n)]
           /\ swr' = [swr EXCEPT ![track] = SubSeq(@, n + 1, Len(@))]
    BY <1>1 DEF DrainSamples
  <2>3. Len(swr[track]) \in Nat
    BY <2>1, LenProperties
  <2>4. SubSeq(swr[track], 1, n) \in Seq(Units) /\ SubSeq(swr[track], n + 1, Len(swr[track])) \in Seq(Units)
    <3>1. /\ 1 \in Int /\ 1 >= 1 /\ Len(swr[track]) <= Len(swr[track])
          /\ n \in Int /\ n + 1 \in Int /\ n <= Len(swr[track]) /\ n + 1 >= 1 /\ Len(swr[track]) \in Int
      BY <2>3
    <3>2. SubSeq(swr[track], 1, n) \in Seq(Units)
      BY <2>1, <3>1, SubSeqType, Zenon
    <3>3. SubSeq(swr[track], n + 1, Len(swr[track])) \in Seq(Units)
      BY <2>1, <3>1, SubSeqType, Zenon
    <3> QED BY <3>2, <3>3
  <2>5. out[track] \o SubSeq(swr[track], 1, n) \in Seq(Units)
    BY <2>1, <2>4, QueueTypes
  <2>6. out' \in [Indices -> Seq(Units)] /\ swr' \in [Indices -> Seq(Units)]
    BY <2>1, <2>2, <2>4, <2>5 DEF LoopInv, TypeOK
  <2>7. TypeOK'
    BY <2>1, <2>6 DEF LoopInv, TypeOK
  <2> QED BY <2>1, <2>7
          DEF LoopInv, PacketCovered, OnePacket, PacketsFreed, DecoderKnown, FrameTypeKnown
<1>2. CASE DrainNext
  <2>1. /\ pc = "drain" /\ track \in Indices /\ swr[track] \in Seq(Units)
        /\ track' = track + 1
        /\ UNCHANGED <<fileVars, pc, noError, packetVars, frameVars, fed, decoder, out>>
    BY <1>2 DEF DrainNext, Draining, LoopInv, TypeOK
  <2>2. ToSet(swr[track]) \subseteq Units
    BY <2>1, UnitsOf, Zenon
  <2>6. <<>> \in Seq(Units)
    BY EmptySeq
  <2>3. swr' \in [Indices -> Seq(Units)] /\ dropped' \in [Indices -> SUBSET Units]
    BY <1>2, <2>1, <2>2, <2>6 DEF DrainNext, LoopInv, TypeOK
  <2>4. track' \in Nat
    BY <2>1 DEF LoopInv, TypeOK
  <2>5. TypeOK'
    BY <2>1, <2>3, <2>4 DEF LoopInv, TypeOK
  <2> QED BY <2>1, <2>5
          DEF LoopInv, PacketCovered, OnePacket, PacketsFreed, DecoderKnown, FrameTypeKnown
<1>3. CASE Done
  <2>1. pc = "drain" /\ pc' = "done"
        /\ UNCHANGED <<fileVars, noError, packetVars, frameVars, unitVars, track>>
    BY <1>3 DEF Done
  <2>2. TypeOK'
    BY <2>1 DEF LoopInv, TypeOK, Places
  <2> QED BY <2>1, <2>2
          DEF LoopInv, PacketCovered, OnePacket, PacketsFreed, DecoderKnown, FrameTypeKnown
<1> QED BY <1>1, <1>2, <1>3

LEMMA LoopNext == LoopInv /\ [Next]_vars => LoopInv'
<1> SUFFICES ASSUME LoopInv, [Next]_vars PROVE LoopInv'
  OBVIOUS
<1>1. CASE UNCHANGED vars
  <2> USE <1>1 DEF vars, fileVars, packetVars, frameVars, unitVars
  <2>1. TypeOK'
    BY DEF LoopInv, TypeOK
  <2>2. FrameType(stream)' = FrameType(stream)
    BY DEF FrameType, VideoStreams, AudioStreams
  <2> QED BY <2>1, <2>2
          DEF LoopInv, PacketCovered, OnePacket, PacketsFreed, DecoderKnown, FrameTypeKnown
<1> QED BY <1>1, OpenKeepsLoop, ReadKeepsLoop, DecodeKeepsLoop, HandleKeepsLoop, FlushKeepsLoop,
           DrainKeepsLoop DEF Next, DecodeStep

(* The inductive invariant of the loop. *)
THEOREM LoopCorrect == SafeSpec => []LoopInv
BY LoopInit, LoopNext, PTL DEF SafeSpec

(* Every variable keeps its type. *)
THEOREM TypeCorrect == SafeSpec => []TypeOK
<1>1. LoopInv => TypeOK
  BY DEF LoopInv
<1> QED BY <1>1, LoopCorrect, PTL

(* Every packet is freed, on every way through the loop that does not throw. *)
THEOREM EveryPacketFreed == SafeSpec => []PacketsFreed
<1>1. LoopInv => PacketsFreed
  BY DEF LoopInv, OnePacket
<1> QED BY <1>1, LoopCorrect, PTL

(* HandleFrame never throws its pointer. *)
THEOREM NoInvalidFrameType == SafeSpec => []FrameTypeKnown
<1>1. LoopInv => FrameTypeKnown
  BY DEF LoopInv, DecoderKnown
<1> QED BY <1>1, LoopCorrect, PTL

-----------------------------------------------------------------------------
(* The frame source. *)

LEMMA OneVideoStream ==
    ASSUME NEW i \in VideoStreams, NEW j \in VideoStreams
    PROVE  i = j
BY DEF VideoStreams

LEMMA SameStreams ==
    ASSUME UNCHANGED fileVars
    PROVE  VideoStreams' = VideoStreams /\ AudioStreams' = AudioStreams /\ Wanted' = Wanted
BY DEF fileVars, VideoStreams, AudioStreams, Wanted

LEMMA StreamsDiffer == VideoStreams \cap AudioStreams = {} /\ VideoStreams \subseteq Indices
BY DEF VideoStreams, AudioStreams

(* The frames of the picture are those of its stream, and of no other. *)
LEMMA SameVideoFrames ==
    ASSUME UNCHANGED fileVars, \A i \in VideoStreams : out'[i] = out[i]
    PROVE  VideoFrames' = VideoFrames
BY SameStreams DEF VideoFrames

LEMMA OneMoreVideoFrame ==
    ASSUME TypeOK, UNCHANGED fileVars, NEW i \in VideoStreams, NEW f \in Units,
           out' = [out EXCEPT ![i] = Append(@, f)]
    PROVE  Len(VideoFrames') = Len(VideoFrames) + 1
<1>1. VideoFrames = out[i]
  BY OneVideoStream DEF VideoFrames
<1>2. VideoFrames' = out'[i]
  BY OneVideoStream, SameStreams DEF VideoFrames
<1>3. out[i] \in Seq(Units) /\ out'[i] = Append(out[i], f)
  BY StreamsDiffer DEF TypeOK
<1> QED BY <1>1, <1>2, <1>3, QueueTypes

LEMMA SourceStep ==
    ASSUME LoopInv, [Next]_vars
    PROVE  [Source!Next]_(Source!vars)
<1> USE DEF fileVars, Source!vars
<1>1. CASE \/ UNCHANGED vars \/ OpenFile \/ ReadPacket \/ LeaveLoop \/ FreePacket
           \/ DecoderHoldsBack \/ DecoderReturnsFrame \/ DecoderFails \/ DecoderStalls \/ UnknownStream
           \/ ConversionFails \/ Flush \/ DrainNext
  <2>1. UNCHANGED <<fileVars, out>>
    BY <1>1 DEF vars, unitVars, OpenFile, ReadPacket, LeaveLoop, FreePacket, DecoderHoldsBack,
                DecoderReturnsFrame, DecoderFails, DecoderStalls, UnknownStream, ConversionFails, Flush, DrainNext
  <2>2. pc' = pc \/ (pc \notin {"done", "thrown"} /\ pc' \notin {"done", "thrown"})
    BY <1>1 DEF vars, OpenFile, ReadPacket, LeaveLoop, FreePacket, DecoderHoldsBack,
                DecoderReturnsFrame, DecoderFails, DecoderStalls, UnknownStream, ConversionFails, Flush, DrainNext,
                Advance
  <2>3. VideoFrames' = VideoFrames
    BY <2>1, SameVideoFrames
  <2> QED BY <2>2, <2>3
<1>2. CASE OpenFails \/ CallbackThrows
  <2>1. UNCHANGED <<fileVars, out>> /\ pc' = "thrown" /\ pc \notin {"done", "thrown"}
    BY <1>2 DEF OpenFails, CallbackThrows, unitVars
  <2>2. VideoFrames' = VideoFrames
    BY <2>1, SameVideoFrames
  <2> QED BY <2>1, <2>2 DEF Source!Next, Source!Throw
<1>3. CASE Done
  <2>1. UNCHANGED <<fileVars, out>> /\ pc' = "done" /\ pc \notin {"done", "thrown"}
    BY <1>3 DEF Done, unitVars
  <2>2. VideoFrames' = VideoFrames
    BY <2>1, SameVideoFrames
  <2> QED BY <2>1, <2>2 DEF Source!Next, Source!Finish
<1>4. CASE DrainSamples
  <2>1. UNCHANGED <<fileVars, pc>> /\ track \in AudioStreams
    BY <1>4 DEF DrainSamples
  <2>2. \A i \in VideoStreams : out'[i] = out[i]
    BY <1>4, <2>1, StreamsDiffer DEF DrainSamples, LoopInv, TypeOK
  <2> QED BY <2>1, <2>2, SameVideoFrames
<1>5. CASE HandleLoopFrame \/ HandleFlushedFrame
  <2>1. /\ UNCHANGED fileVars /\ pc \in {"handle", "handleFlushed"}
        /\ frame \in Units /\ FrameType(stream) # "unknown"
    BY <1>5 DEF HandleLoopFrame, HandleFlushedFrame, LoopInv, DecoderKnown, PacketCovered
  <2>2. pc' \in {"packet", "free", "flush"} /\ (HandleFrame \/ UNCHANGED out)
    BY <1>5, <2>1 DEF HandleLoopFrame, HandleFlushedFrame, Advance
  <2>3. CASE HandleVideoFrame
    <3>1. stream \in VideoStreams
      BY <2>3 DEF HandleVideoFrame, FrameType
    <3>2. Len(VideoFrames') = Len(VideoFrames) + 1
      BY <2>1, <2>3, <3>1, OneMoreVideoFrame DEF HandleVideoFrame, LoopInv
    <3> QED BY <2>1, <2>2, <3>2 DEF Source!Next, Source!Deliver
  <2>4. CASE HandleAudioFrame \/ IgnoreAudioFrame \/ UNCHANGED out
    <3>1. \A i \in VideoStreams : out'[i] = out[i]
      BY <2>4, StreamsDiffer DEF HandleAudioFrame, IgnoreAudioFrame, FrameType, LoopInv, TypeOK
    <3>2. VideoFrames' = VideoFrames
      BY <2>1, <3>1, SameVideoFrames
    <3> QED BY <2>1, <2>2, <3>2
  <2> QED BY <2>2, <2>3, <2>4 DEF HandleFrame
<1> QED BY <1>1, <1>2, <1>3, <1>4, <1>5 DEF Next, DecodeStep

(* Decode implements FrameSource: frames come one by one, and then it is   *)
(* done once or left by an exception.                                      *)
THEOREM ImplementsFrameSource == SafeSpec => IsFrameSource
<1>1. Init => Source!Init
  <2> SUFFICES ASSUME Init PROVE Source!Init
    OBVIOUS
  <2>1. VideoFrames = <<>>
    BY OneVideoStream, StreamsDiffer DEF Init, Nothing, VideoFrames
  <2> QED BY <2>1, EmptySeq DEF Init, Source!Init
<1> QED BY <1>1, SourceStep, LoopCorrect, PTL DEF SafeSpec, IsFrameSource, Source!Spec

-----------------------------------------------------------------------------
(* The order of the units.  Those of a stream stand in one chain: handed   *)
(* on (o), in the resampler (w), in hand (h), in the decoder (d), each     *)
(* part increasing and before the next, and none beyond what was read (r). *)

Before(S, T) == \A x \in S, y \in T : x < y

Chain(o, w, h, d, r) ==
    /\ Increasing(o) /\ Increasing(w) /\ Increasing(d)
    /\ Before(ToSet(o), ToSet(w)) /\ Before(ToSet(o), h) /\ Before(ToSet(o), ToSet(d))
    /\ Before(ToSet(w), h) /\ Before(ToSet(w), ToSet(d)) /\ Before(h, ToSet(d))
    /\ \A x \in ToSet(o) \cup ToSet(w) \cup h \cup ToSet(d) : x <= r

LEMMA Elements ==
    ASSUME NEW s \in Seq(Nat)
    PROVE  /\ Len(s) \in Nat /\ DOMAIN s = 1..Len(s)
           /\ \A k \in 1..Len(s) : s[k] \in Nat /\ s[k] \in ToSet(s)
           /\ ToSet(s) \subseteq Nat
           /\ \A x \in ToSet(s) : \E k \in 1..Len(s) : x = s[k]
BY LenProperties DEF ToSet

LEMMA EmptyElements == Increasing(<<>>) /\ ToSet(<<>>) = {} /\ <<>> \in Seq(Nat)
<1>1. DOMAIN <<>> = {}
  BY EmptySeq, LenProperties
<1> QED BY <1>1, EmptySeq DEF Increasing, ToSet

LEMMA AppendElements ==
    ASSUME NEW s \in Seq(Nat), NEW x \in Nat, Increasing(s), Before(ToSet(s), {x})
    PROVE  /\ Append(s, x) \in Seq(Nat) /\ Increasing(Append(s, x))
           /\ ToSet(Append(s, x)) = ToSet(s) \cup {x}
<1>1. /\ Append(s, x) \in Seq(Nat) /\ Len(Append(s, x)) = Len(s) + 1
      /\ \A k \in 1..Len(s) : Append(s, x)[k] = s[k]
      /\ Append(s, x)[Len(s) + 1] = x
  BY AppendProperties
<1> DEFINE t == Append(s, x)
<1>2. /\ Len(s) \in Nat /\ DOMAIN s = 1..Len(s) /\ DOMAIN t = 1..Len(s) + 1
      /\ \A k \in 1..Len(s) : s[k] \in Nat /\ s[k] < x
  BY <1>1, Elements DEF Before
<1> HIDE DEF t
<1>3. Increasing(t)
  BY <1>1, <1>2 DEF t, Increasing
<1>4. ToSet(t) = ToSet(s) \cup {x}
  BY <1>1, <1>2 DEF t, ToSet
<1> QED BY <1>1, <1>3, <1>4 DEF t

LEMMA SliceElements ==
    ASSUME NEW s \in Seq(Nat), NEW m \in Int, NEW n \in Int, m >= 1, n <= Len(s), Increasing(s)
    PROVE  /\ SubSeq(s, m, n) \in Seq(Nat) /\ Increasing(SubSeq(s, m, n))
           /\ \A x \in ToSet(SubSeq(s, m, n)) : \E k \in m..n : x = s[k]
           /\ \A k \in m..n : s[k] \in ToSet(SubSeq(s, m, n))
<1> DEFINE t == SubSeq(s, m, n)
<1>1. /\ t \in Seq(Nat) /\ Len(t) = (IF m <= n THEN n - m + 1 ELSE 0)
      /\ \A k \in 1..(n - m + 1) : t[k] = s[m + k - 1]
  BY Elements, SubSeqProperties
<1>2. Len(s) \in Nat /\ DOMAIN s = 1..Len(s) /\ DOMAIN t = 1..Len(t)
  BY <1>1, Elements
<1> HIDE DEF t
<1>3. Increasing(t)
  <2> SUFFICES ASSUME NEW k \in 1..Len(t), NEW l \in 1..Len(t), k < l PROVE t[k] < t[l]
    BY <1>2 DEF Increasing
  <2>1. Len(t) = n - m + 1
    BY <1>1
  <2>2. /\ m + k - 1 \in 1..Len(s) /\ m + l - 1 \in 1..Len(s) /\ m + k - 1 < m + l - 1
        /\ k \in 1..(n - m + 1) /\ l \in 1..(n - m + 1)
    BY <1>2, <2>1
  <2>3. t[k] = s[m + k - 1] /\ t[l] = s[m + l - 1]
    BY <1>1, <2>2
  <2> QED BY <1>2, <2>2, <2>3 DEF Increasing
<1>4. \A x \in ToSet(t) : \E k \in m..n : x = s[k]
  <2> SUFFICES ASSUME NEW k \in 1..Len(t) PROVE \E l \in m..n : t[k] = s[l]
    BY <1>2 DEF ToSet
  <2>1. m + k - 1 \in m..n /\ t[k] = s[m + k - 1]
    BY <1>1
  <2> QED BY <2>1
<1>5. ASSUME NEW k \in m..n PROVE s[k] \in ToSet(t)
  <2>1. k - m + 1 \in 1..(n - m + 1) /\ m + (k - m + 1) - 1 = k /\ Len(t) = n - m + 1
    BY <1>1
  <2>2. k - m + 1 \in DOMAIN t /\ t[k - m + 1] = s[k]
    BY <1>1, <1>2, <2>1
  <2> QED BY <2>2 DEF ToSet
<1> QED BY <1>1, <1>3, <1>4, <1>5 DEF t

LEMMA HeadTailElements ==
    ASSUME NEW d \in Seq(Nat), Increasing(d), d # <<>>
    PROVE  /\ Increasing(Tail(d)) /\ ToSet(d) = {Head(d)} \cup ToSet(Tail(d))
           /\ Before({Head(d)}, ToSet(Tail(d)))
<1>1. /\ Len(d) \in Nat /\ Len(d) >= 1 /\ Head(d) = d[1] /\ DOMAIN d = 1..Len(d)
      /\ Tail(d) = SubSeq(d, 2, Len(d))
  <2>1. Len(d) \in Nat /\ Len(d) # 0 /\ DOMAIN d = 1..Len(d) /\ Head(d) = d[1]
    BY EmptySeq, LenProperties
  <2>2. Tail(d) = SubSeq(d, 2, Len(d))
    BY TailIsSubSeq
  <2> QED BY <2>1, <2>2
<1>2. /\ Increasing(Tail(d))
      /\ \A x \in ToSet(Tail(d)) : \E k \in 2..Len(d) : x = d[k]
      /\ \A k \in 2..Len(d) : d[k] \in ToSet(Tail(d))
  <2>1. 2 \in Int /\ Len(d) \in Int /\ 2 >= 1 /\ Len(d) <= Len(d)
    BY <1>1
  <2>2. /\ Increasing(SubSeq(d, 2, Len(d)))
        /\ \A x \in ToSet(SubSeq(d, 2, Len(d))) : \E k \in 2..Len(d) : x = d[k]
        /\ \A k \in 2..Len(d) : d[k] \in ToSet(SubSeq(d, 2, Len(d)))
    BY <2>1, SliceElements, Zenon
  <2> QED BY <1>1, <2>2, Zenon
<1>3. Head(d) \in ToSet(d) /\ ToSet(Tail(d)) \subseteq ToSet(d)
  BY <1>1, <1>2, Elements
<1>4. Before({Head(d)}, ToSet(Tail(d)))
  <2> SUFFICES ASSUME NEW y \in ToSet(Tail(d)) PROVE d[1] < y
    BY <1>1 DEF Before
  <2>1. PICK k \in 2..Len(d) : y = d[k]
    BY <1>2
  <2>2. 1 \in 1..Len(d) /\ k \in 1..Len(d) /\ 1 < k
    BY <1>1
  <2> QED BY <1>1, <2>1, <2>2 DEF Increasing
<1>5. ToSet(d) \subseteq {Head(d)} \cup ToSet(Tail(d))
  <2> SUFFICES ASSUME NEW k \in 1..Len(d) PROVE d[k] \in {Head(d)} \cup ToSet(Tail(d))
    BY <1>1 DEF ToSet
  <2>1. k = 1 \/ k \in 2..Len(d)
    BY <1>1
  <2> QED BY <1>1, <1>2, <2>1
<1> QED BY <1>2, <1>3, <1>4, <1>5

(* A sequence is cut in two: both halves are increasing, one before the other. *)
LEMMA CutElements ==
    ASSUME NEW s \in Seq(Nat), NEW n \in 0..Len(s), Increasing(s)
    PROVE  LET a == SubSeq(s, 1, n)
               b == SubSeq(s, n + 1, Len(s))
           IN  /\ a \in Seq(Nat) /\ b \in Seq(Nat) /\ Increasing(a) /\ Increasing(b)
               /\ ToSet(a) \cup ToSet(b) = ToSet(s)
               /\ Before(ToSet(a), ToSet(b))
<1> DEFINE a == SubSeq(s, 1, n)
           b == SubSeq(s, n + 1, Len(s))
<1>1. /\ Len(s) \in Nat /\ DOMAIN s = 1..Len(s)
      /\ \A k \in 1..Len(s) : s[k] \in Nat /\ s[k] \in ToSet(s)
  BY Elements
<1>2. /\ a \in Seq(Nat) /\ Increasing(a)
      /\ \A x \in ToSet(a) : \E k \in 1..n : x = s[k]
      /\ \A k \in 1..n : s[k] \in ToSet(a)
  <2>1. 1 \in Int /\ n \in Int /\ 1 >= 1 /\ n <= Len(s)
    BY <1>1
  <2> QED BY <2>1, SliceElements, Zenon
<1>3. /\ b \in Seq(Nat) /\ Increasing(b)
      /\ \A x \in ToSet(b) : \E k \in n + 1..Len(s) : x = s[k]
      /\ \A k \in n + 1..Len(s) : s[k] \in ToSet(b)
  <2>1. n + 1 \in Int /\ Len(s) \in Int /\ n + 1 >= 1 /\ Len(s) <= Len(s)
    BY <1>1
  <2> QED BY <2>1, SliceElements, Zenon
<1> HIDE DEF a, b
<1>4. ToSet(a) \subseteq ToSet(s) /\ ToSet(b) \subseteq ToSet(s)
  <2>1. \A k \in 1..n : s[k] \in ToSet(s)
    BY <1>1
  <2>2. \A k \in n + 1..Len(s) : s[k] \in ToSet(s)
    BY <1>1
  <2> QED BY <1>2, <1>3, <2>1, <2>2, Zenon
<1>5. Before(ToSet(a), ToSet(b))
  <2> SUFFICES ASSUME NEW x \in ToSet(a), NEW y \in ToSet(b) PROVE x < y
    BY DEF Before
  <2>1. PICK k \in 1..n : x = s[k]
    BY <1>2
  <2>2. PICK l \in n + 1..Len(s) : y = s[l]
    BY <1>3
  <2> QED BY <1>1, <2>1, <2>2 DEF Increasing
<1>6. ToSet(s) \subseteq ToSet(a) \cup ToSet(b)
  <2> SUFFICES ASSUME NEW k \in 1..Len(s) PROVE s[k] \in ToSet(a) \cup ToSet(b)
    BY <1>1 DEF ToSet
  <2>1. k \in 1..n \/ k \in n + 1..Len(s)
    BY <1>1
  <2> QED BY <1>2, <1>3, <2>1
<1>7. ToSet(a) \cup ToSet(b) = ToSet(s)
  BY <1>4, <1>6
<1> QED BY <1>2, <1>3, <1>5, <1>7 DEF a, b

LEMMA ConcatElements ==
    ASSUME NEW s \in Seq(Nat), NEW t \in Seq(Nat), Increasing(s), Increasing(t), Before(ToSet(s), ToSet(t))
    PROVE  /\ s \o t \in Seq(Nat) /\ Increasing(s \o t)
           /\ ToSet(s \o t) = ToSet(s) \cup ToSet(t)
<1> DEFINE u == s \o t
<1>1. /\ u \in Seq(Nat) /\ Len(u) = Len(s) + Len(t)
      /\ \A k \in 1..Len(s) + Len(t) : u[k] = IF k <= Len(s) THEN s[k] ELSE t[k - Len(s)]
  BY ConcatProperties
<1>2. /\ Len(s) \in Nat /\ Len(t) \in Nat
      /\ DOMAIN s = 1..Len(s) /\ DOMAIN t = 1..Len(t) /\ DOMAIN u = 1..Len(s) + Len(t)
      /\ \A k \in 1..Len(s) : s[k] \in Nat /\ s[k] \in ToSet(s)
      /\ \A k \in 1..Len(t) : t[k] \in Nat /\ t[k] \in ToSet(t)
  BY <1>1, Elements
<1> HIDE DEF u
<1>3. Increasing(u)
  <2> SUFFICES ASSUME NEW k \in 1..Len(s) + Len(t), NEW l \in 1..Len(s) + Len(t), k < l PROVE u[k] < u[l]
    BY <1>2 DEF Increasing
  <2>1. CASE l <= Len(s)
    <3>1. k \in 1..Len(s) /\ l \in 1..Len(s)
      BY <1>2, <2>1
    <3>2. u[k] = s[k] /\ u[l] = s[l]
      BY <1>1, <3>1
    <3> QED BY <1>2, <3>1, <3>2 DEF Increasing
  <2>2. CASE k > Len(s)
    <3>1. k - Len(s) \in 1..Len(t) /\ l - Len(s) \in 1..Len(t) /\ k - Len(s) < l - Len(s)
      BY <1>2, <2>2
    <3>2. u[k] = t[k - Len(s)] /\ u[l] = t[l - Len(s)]
      BY <1>1, <1>2, <2>2
    <3> QED BY <1>2, <3>1, <3>2 DEF Increasing
  <2>3. CASE k <= Len(s) /\ l > Len(s)
    <3>1. l - Len(s) \in 1..Len(t)
      BY <1>2, <2>3
    <3>2. u[k] = s[k] /\ u[l] = t[l - Len(s)]
      BY <1>1, <1>2, <2>3
    <3> QED BY <1>2, <2>3, <3>1, <3>2 DEF Before
  <2> QED BY <1>2, <2>1, <2>2, <2>3
<1>4. ToSet(u) \subseteq ToSet(s) \cup ToSet(t)
  <2> SUFFICES ASSUME NEW k \in 1..Len(s) + Len(t) PROVE u[k] \in ToSet(s) \cup ToSet(t)
    BY <1>2 DEF ToSet
  <2>1. k > Len(s) => k - Len(s) \in 1..Len(t)
    BY <1>2
  <2> QED BY <1>1, <1>2, <2>1
<1>5. ToSet(s) \cup ToSet(t) \subseteq ToSet(u)
  <2>1. ASSUME NEW k \in 1..Len(s) PROVE s[k] \in ToSet(u)
    <3>1. k \in 1..Len(u) /\ u[k] = s[k]
      BY <1>1, <1>2
    <3> QED BY <1>1, <3>1, Elements
  <2>2. ASSUME NEW k \in 1..Len(t) PROVE t[k] \in ToSet(u)
    <3>1. /\ k + Len(s) \in 1..Len(s) + Len(t) /\ ~(k + Len(s) <= Len(s))
          /\ k + Len(s) - Len(s) = k
      BY <1>2
    <3>2. k + Len(s) \in 1..Len(u) /\ u[k + Len(s)] = t[k]
      BY <1>1, <3>1
    <3> QED BY <1>1, <3>2, Elements
  <2> QED BY <1>2, <2>1, <2>2 DEF ToSet
<1> QED BY <1>1, <1>3, <1>4, <1>5 DEF u

(* What a step does to a chain. *)

LEMMA ChainTakes ==
    ASSUME NEW o \in Seq(Nat), NEW w \in Seq(Nat), NEW d \in Seq(Nat), NEW u \in Nat,
           Chain(o, w, {}, d, u - 1)
    PROVE  Chain(o, w, {}, Append(d, u), u)
<1>1. \A x \in ToSet(o) \cup ToSet(w) \cup ToSet(d) : x \in Nat /\ x < u
  BY Elements DEF Chain
<1>2. Increasing(Append(d, u)) /\ ToSet(Append(d, u)) = ToSet(d) \cup {u}
  <2>1. Before(ToSet(d), {u}) /\ Increasing(d)
    BY <1>1 DEF Before, Chain
  <2> QED BY <2>1, AppendElements
<1> QED BY <1>1, <1>2 DEF Chain, Before

LEMMA ChainReturns ==
    ASSUME NEW o \in Seq(Nat), NEW w \in Seq(Nat), NEW d \in Seq(Nat), NEW r \in Nat,
           Chain(o, w, {}, d, r), d # <<>>
    PROVE  Chain(o, w, {Head(d)}, Tail(d), r)
<1>1. /\ Increasing(Tail(d)) /\ ToSet(d) = {Head(d)} \cup ToSet(Tail(d))
      /\ Before({Head(d)}, ToSet(Tail(d)))
  BY HeadTailElements DEF Chain
<1> QED BY <1>1 DEF Chain, Before

(* Units are lost, and more may be read. *)
LEMMA ChainLoses ==
    ASSUME NEW o \in Seq(Nat), NEW w \in Seq(Nat), NEW d \in Seq(Nat), NEW r \in Nat,
           NEW h \in SUBSET Nat, Chain(o, w, h, d, r), NEW q \in Nat, r <= q
    PROVE  /\ Chain(o, w, h, d, q) /\ Chain(o, w, {}, d, q)
           /\ Chain(o, <<>>, {}, d, q) /\ Chain(o, w, {}, <<>>, q)
<1>1. \A x \in ToSet(o) \cup ToSet(w) \cup h \cup ToSet(d) : x \in Nat /\ x <= q
  <2> SUFFICES ASSUME NEW x \in ToSet(o) \cup ToSet(w) \cup h \cup ToSet(d)
               PROVE  x \in Nat /\ x <= q
    OBVIOUS
  <2>1. x \in Nat
    BY Elements, Zenon
  <2>2. x <= r
    BY DEF Chain
  <2> QED BY <2>1, <2>2
<1> QED BY <1>1, EmptyElements DEF Chain, Before

LEMMA ChainHandsOn ==
    ASSUME NEW o \in Seq(Nat), NEW d \in Seq(Nat), NEW r \in Nat, NEW f \in Nat,
           Chain(o, <<>>, {f}, d, r)
    PROVE  Chain(Append(o, f), <<>>, {}, d, r)
<1>1. Increasing(Append(o, f)) /\ ToSet(Append(o, f)) = ToSet(o) \cup {f}
  BY AppendElements DEF Chain
<1> QED BY <1>1, EmptyElements DEF Chain, Before

LEMMA ChainResamples ==
    ASSUME NEW o \in Seq(Nat), NEW w \in Seq(Nat), NEW d \in Seq(Nat), NEW r \in Nat, NEW f \in Nat,
           Chain(o, w, {f}, d, r)
    PROVE  Chain(o, Append(w, f), {}, d, r)
<1>1. Increasing(Append(w, f)) /\ ToSet(Append(w, f)) = ToSet(w) \cup {f}
  BY AppendElements DEF Chain
<1> QED BY <1>1, EmptyElements DEF Chain, Before

LEMMA ChainReleases ==
    ASSUME NEW o \in Seq(Nat), NEW w \in Seq(Nat), NEW d \in Seq(Nat), NEW r \in Nat,
           Chain(o, w, {}, d, r), NEW n \in 0..Len(w)
    PROVE  Chain(o \o SubSeq(w, 1, n), SubSeq(w, n + 1, Len(w)), {}, d, r)
<1> DEFINE a == SubSeq(w, 1, n)
           b == SubSeq(w, n + 1, Len(w))
<1>1. /\ a \in Seq(Nat) /\ b \in Seq(Nat) /\ Increasing(a) /\ Increasing(b)
      /\ ToSet(a) \cup ToSet(b) = ToSet(w)
      /\ Before(ToSet(a), ToSet(b))
  BY CutElements DEF Chain
<1> HIDE DEF a, b
<1>2. Before(ToSet(o), ToSet(a)) /\ Increasing(o)
  BY <1>1 DEF Chain, Before
<1>3. Increasing(o \o a) /\ ToSet(o \o a) = ToSet(o) \cup ToSet(a)
  BY <1>1, <1>2, ConcatElements
<1>4. Chain(o \o a, b, {}, d, r)
  BY <1>1, <1>3 DEF Chain, Before
<1> QED BY <1>4 DEF a, b

-----------------------------------------------------------------------------
(* The units of every stream form a chain. *)

Hand(i) == IF i = stream /\ pc \in {"handle", "handleFlushed"} THEN {frame} ELSE {}

(* The last unit of the stream that its decoder was given. *)
Reached(i) ==
    IF i # stream THEN fed[i]
    ELSE IF pc = "packet" THEN fed[i] - left
    ELSE IF pc = "handle" THEN NextUnit
    ELSE fed[i]

ChainOf(i) == Chain(out[i], swr[i], Hand(i), decoder[i], Reached(i))

OrderInv ==
    /\ \A i \in Indices : ChainOf(i)
    /\ \A i \in Indices \ AudioStreams : swr[i] = <<>>

LEMMA UnitsAreNumbers ==
    ASSUME NEW s \in Seq(Units)
    PROVE  s \in Seq(Nat)
BY SeqMonotonic, BoundsAssumption

LEMMA ChainTypes ==
    ASSUME LoopInv, NEW i \in Indices
    PROVE  /\ out[i] \in Seq(Nat) /\ swr[i] \in Seq(Nat) /\ decoder[i] \in Seq(Nat)
           /\ Hand(i) \in SUBSET Nat /\ Reached(i) \in Nat /\ Reached(i) <= fed[i] /\ fed[i] \in Nat
<1>1. out[i] \in Seq(Units) /\ swr[i] \in Seq(Units) /\ decoder[i] \in Seq(Units)
  BY DEF LoopInv, TypeOK
<1>2. out[i] \in Seq(Nat) /\ swr[i] \in Seq(Nat) /\ decoder[i] \in Seq(Nat)
  BY <1>1, UnitsAreNumbers
<1>3. Hand(i) \in SUBSET Nat
  BY DEF Hand, LoopInv, PacketCovered
<1>4. Reached(i) \in Nat /\ Reached(i) <= fed[i] /\ fed[i] \in Nat
  BY BoundsAssumption DEF Reached, NextUnit, LoopInv, TypeOK, PacketCovered
<1> QED BY <1>2, <1>3, <1>4

(* A chain whose queues a step leaves alone stays one, whether its unit in *)
(* hand is kept or lost and however much more is read.                     *)
LEMMA ChainKept ==
    ASSUME LoopInv, LoopInv', NEW i \in Indices, ChainOf(i),
           out'[i] = out[i], swr'[i] = swr[i], decoder'[i] = decoder[i],
           Hand(i)' = Hand(i) \/ Hand(i)' = {}, Reached(i) <= Reached(i)'
    PROVE  ChainOf(i)'
<1>1. /\ out[i] \in Seq(Nat) /\ swr[i] \in Seq(Nat) /\ decoder[i] \in Seq(Nat)
      /\ Hand(i) \in SUBSET Nat /\ Reached(i) \in Nat
  BY ChainTypes
<1>2. Reached(i)' \in Nat
  <2>1. fed'[i] \in Nat /\ fed'[stream'] \in Nat
    <3>1. fed' \in [Indices -> 0..MaxUnits] /\ stream' \in Indices
      BY Zenon DEF LoopInv, TypeOK
    <3> QED BY <3>1, BoundsAssumption
  <2>2. pc' \in {"packet", "handle"} => left' \in 1..fed'[stream']
    BY DEF LoopInv, PacketCovered
  <2> QED BY <2>1, <2>2 DEF Reached, NextUnit
<1>3. /\ Chain(out[i], swr[i], Hand(i), decoder[i], Reached(i)')
      /\ Chain(out[i], swr[i], {}, decoder[i], Reached(i)')
  BY <1>1, <1>2, ChainLoses, Zenon DEF ChainOf
<1> QED BY <1>3, Zenon DEF ChainOf

LEMMA OrderInit == Init => OrderInv
<1> SUFFICES ASSUME Init, NEW i \in Indices
             PROVE  ChainOf(i) /\ swr[i] = <<>>
  BY DEF OrderInv
<1>1. out[i] = <<>> /\ swr[i] = <<>> /\ decoder[i] = <<>> /\ Hand(i) = {} /\ Reached(i) = 0
  BY DEF Init, Nothing, Hand, Reached
<1>2. Chain(<<>>, <<>>, {}, <<>>, 0)
  BY EmptyElements DEF Chain, Before
<1> QED BY <1>1, <1>2 DEF ChainOf

LEMMA QueuesKeptOrder ==
    ASSUME LoopInv, LoopInv', OrderInv,
           \/ OpenFile \/ OpenFails \/ ReadPacket \/ LeaveLoop \/ FreePacket \/ DecoderFails
           \/ UnknownStream \/ DecoderStalls \/ ConversionFails \/ CallbackThrows \/ Done \/ UNCHANGED vars
    PROVE  OrderInv'
<1> USE DEF fileVars, packetVars, frameVars, unitVars, vars
<1>1. UNCHANGED <<kinds, out, swr, decoder>>
  BY DEF OpenFile, OpenFails, ReadPacket, LeaveLoop, FreePacket, DecoderFails,
         UnknownStream, DecoderStalls, ConversionFails, CallbackThrows, Done
<1>2. ASSUME NEW i \in Indices
      PROVE  (Hand(i)' = Hand(i) \/ Hand(i)' = {}) /\ Reached(i) <= Reached(i)'
  <2>1. Reached(i) \in Nat /\ Reached(i) <= fed[i] /\ fed[i] \in Nat
    BY ChainTypes
  <2>2. CASE UNCHANGED vars
    BY <2>1, <2>2 DEF Hand, Reached, NextUnit
  <2>3. CASE ReadPacket
    <3>1. PICK j \in Indices, n \in 1..PacketUnits :
             /\ fed' = [fed EXCEPT ![j] = @ + n]
             /\ stream' = j /\ left' = n
      BY <2>3 DEF ReadPacket
    <3>2. pc = "read" /\ pc' = "packet"
      BY <2>3 DEF ReadPacket
    <3> QED BY <2>1, <3>1, <3>2 DEF Hand, Reached, LoopInv, TypeOK
  <2>4. CASE \/ OpenFile \/ OpenFails \/ LeaveLoop \/ FreePacket \/ DecoderFails
             \/ UnknownStream \/ DecoderStalls \/ ConversionFails \/ CallbackThrows \/ Done
    <3>1. fed' = fed /\ pc' \notin {"packet", "handle", "handleFlushed"}
      BY <2>4 DEF OpenFile, OpenFails, LeaveLoop, FreePacket, DecoderFails,
                  UnknownStream, DecoderStalls, ConversionFails, CallbackThrows, Done
    <3> QED BY <2>1, <3>1 DEF Hand, Reached
  <2> QED BY <2>2, <2>3, <2>4
<1>3. \A i \in Indices : ChainOf(i)'
  <2> SUFFICES ASSUME NEW i \in Indices PROVE ChainOf(i)'
    OBVIOUS
  <2>1. ChainOf(i) /\ out'[i] = out[i] /\ swr'[i] = swr[i] /\ decoder'[i] = decoder[i]
    BY <1>1 DEF OrderInv
  <2> QED BY <1>2, <2>1, ChainKept
<1> QED BY <1>1, <1>3 DEF OrderInv, AudioStreams

(* The streams that a step of the decoder or a handler is not about. *)
LEMMA OtherChains ==
    ASSUME LoopInv, LoopInv', OrderInv, NEW i \in Indices, i # stream,
           UNCHANGED <<stream, fed>>,
           out'[i] = out[i], swr'[i] = swr[i], decoder'[i] = decoder[i]
    PROVE  ChainOf(i)'
<1>1. Hand(i)' = {} /\ Reached(i)' = Reached(i) /\ Reached(i) \in Nat /\ ChainOf(i)
  BY ChainTypes DEF Hand, Reached, OrderInv
<1>2. Reached(i) <= Reached(i)'
  BY <1>1
<1> QED BY <1>1, <1>2, ChainKept

LEMMA DecoderKeepsOrder ==
    ASSUME LoopInv, LoopInv', OrderInv, DecoderHoldsBack \/ DecoderReturnsFrame
    PROVE  OrderInv'
<1> USE DEF fileVars, packetVars, frameVars, unitVars
<1> DEFINE u == NextUnit
           inside == Append(decoder[stream], u)
<1>1. /\ pc = "packet" /\ stream \in Indices /\ decoder \in [Indices -> Seq(Units)]
      /\ UNCHANGED <<kinds, stream, fed, swr, out>>
  BY DEF DecoderHoldsBack, DecoderReturnsFrame, LoopInv, TypeOK
<1>2. /\ left \in 1..fed[stream] /\ fed[stream] \in Nat /\ u \in Nat /\ Reached(stream) = u - 1
      /\ u <= fed[stream]
  BY <1>1, ChainTypes DEF LoopInv, PacketCovered, Reached, NextUnit
<1>3. /\ out[stream] \in Seq(Nat) /\ swr[stream] \in Seq(Nat) /\ decoder[stream] \in Seq(Nat)
      /\ Chain(out[stream], swr[stream], {}, decoder[stream], Reached(stream))
  <2>1. Hand(stream) = {} /\ ChainOf(stream)
    BY <1>1 DEF Hand, OrderInv
  <2> QED BY <1>1, <2>1, ChainTypes, Zenon DEF ChainOf
<1>4. /\ inside \in Seq(Nat) /\ inside # <<>>
      /\ Chain(out[stream], swr[stream], {}, inside, u)
  <2>1. Chain(out[stream], swr[stream], {}, decoder[stream], u - 1)
    BY <1>2, <1>3, Zenon
  <2>2. Chain(out[stream], swr[stream], {}, inside, u)
    BY <1>2, <1>3, <2>1, ChainTakes, Zenon
  <2>3. inside \in Seq(Nat) /\ inside # <<>>
    BY <1>2, <1>3, QueueTypes, Zenon
  <2> QED BY <2>2, <2>3
<1> HIDE DEF u, inside
<1>5. ChainOf(stream)'
  <2>1. CASE DecoderHoldsBack
    <3>1. decoder'[stream] = inside
      BY <1>1, <2>1 DEF DecoderHoldsBack, inside, u
    <3>2. Hand(stream)' = {} /\ Reached(stream)' = u
      <4>1. left' = left - 1 /\ pc' = (IF left' > 0 THEN "packet" ELSE "free")
        BY <2>1 DEF DecoderHoldsBack, Advance
      <4>2. u = fed[stream] - left + 1
        BY DEF u, NextUnit
      <4> QED BY <1>1, <1>2, <4>1, <4>2 DEF Hand, Reached
    <3> QED BY <1>1, <1>4, <3>1, <3>2 DEF ChainOf
  <2>2. CASE DecoderReturnsFrame
    <3>1. frame' = Head(inside) /\ decoder'[stream] = Tail(inside) /\ pc' = "handle" /\ left' = left
      BY <1>1, <2>2 DEF DecoderReturnsFrame, inside, u
    <3>2. Hand(stream)' = {Head(inside)} /\ Reached(stream)' = u
      BY <1>1, <3>1 DEF Hand, Reached, u, NextUnit
    <3>3. Chain(out[stream], swr[stream], {Head(inside)}, Tail(inside), u)
      BY <1>2, <1>3, <1>4, ChainReturns
    <3> QED BY <1>1, <3>1, <3>2, <3>3 DEF ChainOf
  <2> QED BY <2>1, <2>2
<1>6. ASSUME NEW i \in Indices, i # stream PROVE ChainOf(i)'
  <2>1. out'[i] = out[i] /\ swr'[i] = swr[i] /\ decoder'[i] = decoder[i]
    BY <1>1, <1>6 DEF DecoderHoldsBack, DecoderReturnsFrame
  <2> QED BY <1>1, <1>6, <2>1, OtherChains
<1> QED BY <1>1, <1>5, <1>6 DEF OrderInv, AudioStreams

LEMMA HandledChain ==
    ASSUME LoopInv, OrderInv, pc \in {"handle", "handleFlushed"}, HandleFrame \/ UNCHANGED <<swr, out>>
    PROVE  /\ Chain(out'[stream], swr'[stream], {}, decoder[stream], Reached(stream))
           /\ \A i \in Indices : i # stream => out'[i] = out[i] /\ swr'[i] = swr[i]
           /\ stream \notin AudioStreams => swr'[stream] = <<>>
<1> DEFINE o == out[stream]
           w == swr[stream]
           d == decoder[stream]
           r == Reached(stream)
<1>1. /\ stream \in Indices /\ out \in [Indices -> Seq(Units)] /\ swr \in [Indices -> Seq(Units)]
      /\ frame \in Nat
  BY BoundsAssumption DEF LoopInv, TypeOK, PacketCovered
<1>2. /\ o \in Seq(Nat) /\ w \in Seq(Nat) /\ d \in Seq(Nat) /\ r \in Nat
  BY <1>1, ChainTypes
<1>3. Chain(o, w, {frame}, d, r) /\ (stream \notin AudioStreams => w = <<>>)
  <2>1. Hand(stream) = {frame} /\ ChainOf(stream) /\ (stream \notin AudioStreams => w = <<>>)
    BY <1>1 DEF Hand, OrderInv
  <2> QED BY <2>1, Zenon DEF ChainOf
<1> HIDE DEF r, d
<1>4. CASE HandleVideoFrame
  <2>1. out' = [out EXCEPT ![stream] = Append(@, frame)] /\ swr' = swr
    BY <1>4 DEF HandleVideoFrame
  <2>2. stream \notin AudioStreams
    BY <1>4, StreamsDiffer DEF HandleVideoFrame, FrameType
  <2>3. Chain(Append(o, frame), <<>>, {}, d, r)
    <3>1. Chain(o, <<>>, {frame}, d, r)
      BY <1>3, <2>2, Zenon
    <3> QED BY <1>1, <1>2, <3>1, ChainHandsOn, Zenon
  <2>4. out'[stream] = Append(o, frame) /\ swr'[stream] = <<>>
    BY <1>1, <1>3, <2>1, <2>2
  <2>5. \A i \in Indices : i # stream => out'[i] = out[i] /\ swr'[i] = swr[i]
    BY <1>1, <2>1
  <2> QED BY <2>3, <2>4, <2>5, Zenon DEF d, r
<1>5. CASE HandleAudioFrame
  <2> DEFINE all == Append(w, frame)
  <2>1. PICK n \in {Len(all) - 1, Len(all)} :
           /\ out' = [out EXCEPT ![stream] = @ \o SubSeq(all, 1, n)]
           /\ swr' = [swr EXCEPT ![stream] = SubSeq(all, n + 1, Len(all))]
    BY <1>5 DEF HandleAudioFrame
  <2>2. stream \in AudioStreams
    BY <1>5 DEF HandleAudioFrame, FrameType
  <2>3. all \in Seq(Nat) /\ Chain(o, all, {}, d, r)
    <3>1. all \in Seq(Nat)
      BY <1>1, <1>2, QueueTypes, Zenon
    <3>2. Chain(o, all, {}, d, r)
      BY <1>1, <1>2, <1>3, ChainResamples, Zenon
    <3> QED BY <3>1, <3>2
  <2>4. n \in 0..Len(all)
    <3>1. Len(w) \in Nat /\ Len(all) = Len(w) + 1
      BY <1>1, <1>2, AppendProperties
    <3> QED BY <2>1, <3>1
  <2>5. /\ out'[stream] = o \o SubSeq(all, 1, n) /\ swr'[stream] = SubSeq(all, n + 1, Len(all))
        /\ \A i \in Indices : i # stream => out'[i] = out[i] /\ swr'[i] = swr[i]
    BY <1>1, <2>1
  <2> HIDE DEF all
  <2>6. Chain(o \o SubSeq(all, 1, n), SubSeq(all, n + 1, Len(all)), {}, d, r)
    BY <1>2, <2>3, <2>4, ChainReleases, Zenon
  <2> QED BY <2>2, <2>5, <2>6, Zenon DEF d, r
<1>6. CASE IgnoreAudioFrame \/ UNCHANGED <<swr, out>>
  <2>1. out' = out /\ swr' = swr
    BY <1>6 DEF IgnoreAudioFrame
  <2>2. Chain(o, w, {}, d, r)
    <3>1. {frame} \in SUBSET Nat /\ r <= r
      BY <1>1, <1>2
    <3> QED BY <1>2, <1>3, <3>1, ChainLoses, Zenon
  <2> QED BY <1>3, <2>1, <2>2, Zenon DEF d, r
<1> QED BY <1>4, <1>5, <1>6 DEF HandleFrame

LEMMA HandlingKeepsOrder ==
    ASSUME LoopInv, LoopInv', OrderInv, HandleLoopFrame \/ HandleFlushedFrame
    PROVE  OrderInv'
<1> USE DEF fileVars, packetVars, frameVars
<1>1. /\ stream \in Indices /\ FrameType(stream) # "unknown" /\ pc \in {"handle", "handleFlushed"}
      /\ UNCHANGED <<kinds, stream, fed, decoder>>
      /\ HandleFrame \/ UNCHANGED <<swr, out>>
  BY DEF HandleLoopFrame, HandleFlushedFrame, LoopInv, TypeOK, DecoderKnown
<1>2. /\ Chain(out'[stream], swr'[stream], {}, decoder[stream], Reached(stream))
      /\ \A i \in Indices : i # stream => out'[i] = out[i] /\ swr'[i] = swr[i]
      /\ stream \notin AudioStreams => swr'[stream] = <<>>
  BY <1>1, HandledChain
<1>3. /\ Reached(stream) \in Nat /\ Reached(stream) <= fed[stream] /\ fed[stream] \in Nat
      /\ decoder[stream] \in Seq(Nat)
  BY <1>1, ChainTypes
<1>4. Hand(stream)' = {} /\ Reached(stream)' \in Nat /\ Reached(stream) <= Reached(stream)'
  <2>1. CASE HandleLoopFrame
    <3>1. /\ pc = "handle" /\ left \in 1..fed[stream]
          /\ left' = left - 1 /\ pc' = IF left' > 0 THEN "packet" ELSE "free"
      BY <1>1, <2>1 DEF HandleLoopFrame, Advance, LoopInv, PacketCovered
    <3> QED BY <1>1, <1>3, <3>1 DEF Hand, Reached, NextUnit
  <2>2. CASE HandleFlushedFrame
    <3>1. pc' = "flush"
      BY <1>1, <2>2 DEF HandleFlushedFrame
    <3> QED BY <1>1, <1>3, <3>1 DEF Hand, Reached
  <2> QED BY <2>1, <2>2
<1>5. ChainOf(stream)'
  <2>1. out'[stream] \in Seq(Nat) /\ swr'[stream] \in Seq(Nat)
    <3>1. out'[stream] \in Seq(Units) /\ swr'[stream] \in Seq(Units)
      <4>1. out' \in [Indices -> Seq(Units)] /\ swr' \in [Indices -> Seq(Units)]
        BY Zenon DEF LoopInv, TypeOK
      <4> QED BY <1>1, <4>1
    <3> QED BY <3>1, UnitsAreNumbers, Zenon
  <2>2. {} \in SUBSET Nat
    OBVIOUS
  <2>3. Chain(out'[stream], swr'[stream], {}, decoder[stream], Reached(stream)')
    BY <1>2, <1>3, <1>4, <2>1, <2>2, ChainLoses, Zenon
  <2> QED BY <1>1, <1>4, <2>3 DEF ChainOf
<1>6. ASSUME NEW i \in Indices, i # stream PROVE ChainOf(i)'
  BY <1>1, <1>2, <1>6, OtherChains
<1> QED BY <1>1, <1>2, <1>5, <1>6 DEF OrderInv, AudioStreams

LEMMA FlushKeepsOrder ==
    ASSUME LoopInv, LoopInv', OrderInv, Flush
    PROVE  OrderInv'
<1> USE DEF fileVars, packetVars
<1>1. /\ pc = "flush" /\ stream \in Indices /\ pc' \in {"handleFlushed", "drain"}
      /\ decoder \in [Indices -> Seq(Units)]
      /\ UNCHANGED <<kinds, stream, fed, swr, out>>
  BY DEF Flush, LoopInv, TypeOK
<1>2. /\ out[stream] \in Seq(Nat) /\ swr[stream] \in Seq(Nat) /\ decoder[stream] \in Seq(Nat)
      /\ fed[stream] \in Nat /\ {} \in SUBSET Nat /\ fed[stream] <= fed[stream]
      /\ Chain(out[stream], swr[stream], {}, decoder[stream], fed[stream])
  <2>1. Hand(stream) = {} /\ Reached(stream) = fed[stream] /\ ChainOf(stream)
    BY <1>1 DEF Hand, Reached, OrderInv
  <2>2. fed[stream] \in Nat => fed[stream] <= fed[stream]
    OBVIOUS
  <2>3. Chain(out[stream], swr[stream], {}, decoder[stream], fed[stream])
    BY <2>1, Zenon DEF ChainOf
  <2> QED BY <1>1, <2>2, <2>3, ChainTypes
<1>3. Reached(stream)' = fed[stream]
  BY <1>1 DEF Reached
<1>4. ChainOf(stream)'
  <2>1. CASE pc' = "handleFlushed"
    <3>1. /\ decoder[stream] # <<>> /\ frame' = Head(decoder[stream])
          /\ decoder' = [decoder EXCEPT ![stream] = Tail(@)]
      <4>1. gotFrame' /\ (gotFrame => FrameType(stream) # "unknown")
        BY <1>1, <2>1 DEF Flush, LoopInv, DecoderKnown
      <4> QED BY <4>1 DEF Flush
    <3>2. Hand(stream)' = {Head(decoder[stream])} /\ decoder'[stream] = Tail(decoder[stream])
      BY <1>1, <2>1, <3>1 DEF Hand
    <3>3. Chain(out[stream], swr[stream], {Head(decoder[stream])}, Tail(decoder[stream]), fed[stream])
      BY <1>2, <3>1, ChainReturns
    <3> QED BY <1>1, <1>3, <3>2, <3>3 DEF ChainOf
  <2>2. CASE pc' = "drain"
    <3>1. decoder'[stream] = decoder[stream] \/ decoder'[stream] = <<>>
      <4>1. ~gotFrame'
        BY <2>2 DEF Flush
      <4> QED BY <1>1, <4>1 DEF Flush
    <3>2. Hand(stream)' = {}
      BY <2>2 DEF Hand
    <3>3. Chain(out[stream], swr[stream], {}, <<>>, fed[stream])
      BY <1>2, ChainLoses, Zenon
    <3> QED BY <1>1, <1>2, <1>3, <3>1, <3>2, <3>3 DEF ChainOf
  <2> QED BY <1>1, <2>1, <2>2
<1>5. ASSUME NEW i \in Indices, i # stream PROVE ChainOf(i)'
  <2>1. decoder'[i] = decoder[i]
    BY <1>1, <1>5 DEF Flush
  <2> QED BY <1>1, <1>5, <2>1, OtherChains
<1> QED BY <1>1, <1>4, <1>5 DEF OrderInv, AudioStreams

LEMMA DrainKeepsOrder ==
    ASSUME LoopInv, LoopInv', OrderInv, DrainSamples \/ DrainNext
    PROVE  OrderInv'
<1> USE DEF fileVars, packetVars, frameVars
<1>1. /\ pc = "drain" /\ track \in Indices
      /\ out \in [Indices -> Seq(Units)] /\ swr \in [Indices -> Seq(Units)]
      /\ UNCHANGED <<kinds, pc, stream, left, fed, decoder>>
  BY DEF DrainSamples, DrainNext, Draining, LoopInv, TypeOK
<1>2. ASSUME NEW i \in Indices
      PROVE  /\ Hand(i)' = {} /\ Hand(i) = {} /\ Reached(i)' = Reached(i) /\ Reached(i) <= Reached(i)
             /\ out[i] \in Seq(Nat) /\ swr[i] \in Seq(Nat) /\ decoder[i] \in Seq(Nat)
             /\ Reached(i) \in Nat /\ {} \in SUBSET Nat
             /\ Chain(out[i], swr[i], {}, decoder[i], Reached(i))
  <2>1. Hand(i)' = {} /\ Hand(i) = {} /\ Reached(i)' = Reached(i) /\ ChainOf(i)
    BY <1>1 DEF Hand, Reached, OrderInv
  <2>2. Reached(i) \in Nat => Reached(i) <= Reached(i)
    OBVIOUS
  <2>3. Chain(out[i], swr[i], {}, decoder[i], Reached(i))
    BY <2>1, Zenon DEF ChainOf
  <2> QED BY <2>1, <2>2, <2>3, ChainTypes
<1>3. /\ Chain(out'[track], swr'[track], {}, decoder[track], Reached(track))
      /\ \A i \in Indices : i # track => out'[i] = out[i] /\ swr'[i] = swr[i]
      /\ track \notin AudioStreams => swr'[track] = <<>>
  <2>1. CASE DrainSamples
    <3>1. PICK n \in 1..Len(swr[track]) :
             /\ out' = [out EXCEPT ![track] = @ \o SubSeq(swr[track], 1, n)]
             /\ swr' = [swr EXCEPT ![track] = SubSeq(@, n + 1, Len(@))]
      BY <2>1 DEF DrainSamples
    <3>2. track \in AudioStreams
      BY <2>1 DEF DrainSamples
    <3>3. n \in 0..Len(swr[track])
      OBVIOUS
    <3>4. Chain(out[track] \o SubSeq(swr[track], 1, n), SubSeq(swr[track], n + 1, Len(swr[track])),
                {}, decoder[track], Reached(track))
      BY <1>1, <1>2, <3>3, ChainReleases, Zenon
    <3>5. /\ out'[track] = out[track] \o SubSeq(swr[track], 1, n)
          /\ swr'[track] = SubSeq(swr[track], n + 1, Len(swr[track]))
          /\ \A i \in Indices : i # track => out'[i] = out[i] /\ swr'[i] = swr[i]
      BY <1>1, <3>1
    <3> QED BY <3>2, <3>4, <3>5, Zenon
  <2>2. CASE DrainNext
    <3>1. out' = out /\ (swr' = swr \/ (track \in AudioStreams /\ swr' = [swr EXCEPT ![track] = <<>>]))
      BY <2>2, Zenon DEF DrainNext
    <3>2. Chain(out[track], <<>>, {}, decoder[track], Reached(track))
      BY <1>1, <1>2, ChainLoses, Zenon
    <3>3. track \notin AudioStreams => swr[track] = <<>>
      BY <1>1 DEF OrderInv
    <3> QED BY <1>1, <1>2, <3>1, <3>2, <3>3
  <2> QED BY <2>1, <2>2
<1>4. ASSUME NEW i \in Indices PROVE ChainOf(i)'
  <2>1. CASE i = track
    BY <1>1, <1>2, <1>3, <2>1 DEF ChainOf
  <2>2. CASE i # track
    BY <1>1, <1>2, <1>3, <2>2 DEF ChainOf
  <2> QED BY <2>1, <2>2
<1> QED BY <1>1, <1>3, <1>4 DEF OrderInv, AudioStreams

(* Units stay in the order of their stream on the whole way from the file  *)
(* to the callbacks.                                                       *)
THEOREM OrderCorrect == SafeSpec => []OrderInv
<1>1. LoopInv /\ LoopInv' /\ OrderInv /\ [Next]_vars => OrderInv'
  BY QueuesKeptOrder, DecoderKeepsOrder, HandlingKeepsOrder, FlushKeepsOrder, DrainKeepsOrder
     DEF Next, DecodeStep
<1> QED BY <1>1, OrderInit, LoopCorrect, PTL DEF SafeSpec

(* What the callbacks get is in the order of the stream and never twice.   *)
THEOREM CallbacksInOrder == SafeSpec => []InStreamOrder
<1>1. OrderInv => InStreamOrder
  BY StreamsDiffer DEF OrderInv, ChainOf, Chain, InStreamOrder, Wanted, AudioStreams
<1> QED BY <1>1, OrderCorrect, PTL

-----------------------------------------------------------------------------
(* Where the units are.  Of every wanted stream, what was read is inside   *)
(* the program, handed on, or explained by an error.                       *)

Account(S, lost, r) == S \cup lost = 1..r /\ S \cap lost = {}

Inside(i) == ToSet(out[i]) \cup ToSet(swr[i]) \cup Hand(i) \cup ToSet(decoder[i])

Aborted == {"thrown", "terminated", "stalled"}

AccountOf(i) == Account(Inside(i), dropped[i], Reached(i))

AccountInv == pc \notin Aborted => \A i \in Wanted : AccountOf(i)

(* What the flush and the draining of the resamplers have emptied.         *)
EmptiedInv ==
    /\ \A i \in Indices : FrameType(i) = "unknown" => decoder[i] = <<>>
    /\ pc \in {"drain", "done"} => decoder[stream] = <<>>
    /\ pc \notin {"drain", "done", "thrown"} => track = 0
    /\ pc \in {"drain", "done"} /\ extractAudio => \A j \in Indices : j < track => swr[j] = <<>>
    /\ pc = "done" /\ extractAudio => track \notin Indices

LEMMA AccountTakes ==
    ASSUME NEW S, NEW lost, NEW u \in Nat \ {0}, Account(S, lost, u - 1)
    PROVE  Account(S \cup {u}, lost, u)
<1>1. 1..u = (1..u - 1) \cup {u} /\ u \notin 1..u - 1
  OBVIOUS
<1> QED BY <1>1 DEF Account

LEMMA AccountSkips ==
    ASSUME NEW S, NEW lost, NEW u \in Nat \ {0}, NEW r \in Nat, u <= r + 1, Account(S, lost, u - 1)
    PROVE  Account(S, lost \cup u..r, r)
<1>1. 1..r = (1..u - 1) \cup u..r /\ (1..u - 1) \cap u..r = {}
  OBVIOUS
<1> QED BY <1>1 DEF Account

LEMMA AccountLoses ==
    ASSUME NEW S, NEW lost, NEW r, Account(S, lost, r), NEW L \in SUBSET S
    PROVE  Account(S \ L, lost \cup L, r)
BY DEF Account

LEMMA WantedStreams == Wanted \subseteq Indices /\ \A i \in Wanted : FrameType(i) # "unknown"
BY DEF Wanted, FrameType, VideoStreams, AudioStreams

LEMMA OtherAccounts ==
    ASSUME AccountInv, pc \notin Aborted, NEW i \in Wanted, i # stream, UNCHANGED <<stream, fed>>,
           out'[i] = out[i], swr'[i] = swr[i], decoder'[i] = decoder[i], dropped'[i] = dropped[i]
    PROVE  AccountOf(i)'
<1>1. AccountOf(i)
  BY DEF AccountInv
<1>2. Inside(i)' = Inside(i) /\ Reached(i)' = Reached(i)
  BY DEF Inside, Hand, Reached
<1> QED BY <1>1, <1>2, Zenon DEF AccountOf

LEMMA AccountInit == Init => AccountInv /\ EmptiedInv
<1> SUFFICES ASSUME Init PROVE AccountInv /\ EmptiedInv
  OBVIOUS
<1>1. \A i \in Indices : /\ out[i] = <<>> /\ swr[i] = <<>> /\ decoder[i] = <<>> /\ dropped[i] = {}
                         /\ Hand(i) = {} /\ Reached(i) = 0
  BY DEF Init, Nothing, Hand, Reached
<1>2. \A i \in Indices : Inside(i) = {}
  BY <1>1, EmptyElements DEF Inside
<1>3. AccountInv
  BY <1>1, <1>2, WantedStreams DEF AccountInv, AccountOf, Account
<1>4. EmptiedInv
  BY <1>1 DEF EmptiedInv, Init
<1> QED BY <1>3, <1>4

LEMMA QuietAccounts ==
    ASSUME LoopInv, AccountInv,
           \/ OpenFile \/ OpenFails \/ ReadPacket \/ LeaveLoop \/ FreePacket
           \/ UnknownStream \/ DecoderStalls \/ CallbackThrows \/ Done \/ UNCHANGED vars
    PROVE  AccountInv'
<1> USE DEF fileVars, packetVars, frameVars, unitVars, vars, Aborted
<1> SUFFICES ASSUME pc' \notin Aborted, NEW i \in Wanted PROVE AccountOf(i)'
  <2>1. UNCHANGED fileVars
    BY DEF OpenFile, OpenFails, ReadPacket, LeaveLoop, FreePacket,
           UnknownStream, DecoderStalls, CallbackThrows, Done
  <2> QED BY <2>1, SameStreams DEF AccountInv
<1>1. UNCHANGED <<out, swr, decoder, dropped>>
  BY DEF OpenFile, OpenFails, ReadPacket, LeaveLoop, FreePacket,
         UnknownStream, DecoderStalls, CallbackThrows, Done
<1>2. pc \notin Aborted
  BY DEF OpenFile, OpenFails, ReadPacket, LeaveLoop, FreePacket,
         UnknownStream, DecoderStalls, CallbackThrows, Done
<1>3. i \in Indices /\ FrameType(i) # "unknown" /\ fed[i] \in Nat
  BY WantedStreams, ChainTypes
<1>4. Hand(i)' = Hand(i) /\ Reached(i)' = Reached(i)
  <2>1. CASE UNCHANGED vars
    BY <2>1 DEF Hand, Reached, NextUnit
  <2>2. CASE ReadPacket
    <3>1. PICK j \in Indices, n \in 1..PacketUnits :
             /\ fed' = [fed EXCEPT ![j] = @ + n]
             /\ stream' = j /\ left' = n
      BY <2>2 DEF ReadPacket
    <3>2. pc = "read" /\ pc' = "packet"
      BY <2>2 DEF ReadPacket
    <3> QED BY <1>3, <3>1, <3>2 DEF Hand, Reached, LoopInv, TypeOK
  <2>3. CASE UnknownStream
    BY <1>3, <2>3 DEF UnknownStream, Hand, Reached
  <2>4. CASE OpenFile \/ LeaveLoop \/ FreePacket \/ Done
    <3>1. fed' = fed /\ pc \notin {"packet", "handle", "handleFlushed"} /\ pc' \notin {"packet", "handle", "handleFlushed"}
      BY <2>4 DEF OpenFile, LeaveLoop, FreePacket, Done
    <3> QED BY <3>1 DEF Hand, Reached
  <2> QED BY <2>1, <2>2, <2>3, <2>4 DEF OpenFails, DecoderStalls, CallbackThrows
<1>5. Inside(i)' = Inside(i) /\ AccountOf(i)
  BY <1>1, <1>2, <1>4 DEF Inside, AccountInv
<1> QED BY <1>1, <1>4, <1>5, Zenon DEF AccountOf

(* An error takes what is left of the packet, and with ConversionFails the *)
(* frame in hand.                                                          *)
LEMMA ErrorAccounts ==
    ASSUME LoopInv, OrderInv, AccountInv, DecoderFails \/ ConversionFails
    PROVE  AccountInv'
<1> USE DEF fileVars, packetVars, frameVars
<1>1. /\ pc \in {"packet", "handle"} /\ pc' = "free" /\ pc \notin Aborted /\ stream \in Indices
      /\ UNCHANGED <<fileVars, stream, fed, decoder, swr, out>>
      /\ pc = "handle" => frame \in Nat
      /\ dropped \in [Indices -> SUBSET Units]
  BY ChainTypes, BoundsAssumption
     DEF DecoderFails, ConversionFails, LoopInv, TypeOK, PacketCovered, Aborted
<1>2. left \in 1..fed[stream] /\ fed[stream] \in Nat
  BY <1>1, ChainTypes DEF LoopInv, PacketCovered
<1> SUFFICES ASSUME NEW i \in Wanted PROVE AccountOf(i)'
  BY <1>1, SameStreams DEF AccountInv
<1>3. CASE i # stream
  <2>1. i \in Indices /\ dropped'[i] = dropped[i]
    BY <1>1, <1>3, WantedStreams DEF DecoderFails, ConversionFails
  <2> QED BY <1>1, <1>3, <2>1, OtherAccounts
<1>4. CASE i = stream
  <2> DEFINE u == NextUnit
  <2>1. AccountOf(stream) /\ Reached(stream)' = fed[stream] /\ Hand(stream)' = {}
    BY <1>1, <1>4 DEF AccountInv, Reached, Hand
  <2>2. CASE DecoderFails
    <3>1. /\ u \in Nat \ {0} /\ u <= fed[stream] + 1 /\ Reached(stream) = u - 1 /\ Hand(stream) = {}
          /\ dropped'[stream] = dropped[stream] \cup u..fed[stream]
      BY <1>1, <1>2, <2>2 DEF DecoderFails, Reached, Hand, NextUnit
    <3>2. Inside(stream)' = Inside(stream)
      BY <1>1, <2>1, <3>1 DEF Inside
    <3>3. Account(Inside(stream), dropped[stream] \cup u..fed[stream], fed[stream])
      <4>1. Account(Inside(stream), dropped[stream], u - 1)
        BY <2>1, <3>1, Zenon DEF AccountOf
      <4> QED BY <1>2, <3>1, <4>1, AccountSkips, Zenon
    <3> QED BY <1>1, <1>4, <2>1, <3>1, <3>2, <3>3 DEF AccountOf
  <2>3. CASE ConversionFails
    <3>1. /\ u + 1 \in Nat \ {0} /\ u + 1 <= fed[stream] + 1 /\ Reached(stream) = (u + 1) - 1
          /\ Hand(stream) = {frame} /\ frame \in Nat
          /\ dropped'[stream] = (dropped[stream] \cup {frame}) \cup u + 1..fed[stream]
      BY <1>1, <1>2, <2>3 DEF ConversionFails, Reached, Hand, NextUnit
    <3>2. Inside(stream)' = Inside(stream) \ {frame} /\ frame \in Inside(stream)
      <4>1. ChainOf(stream)
        BY <1>1 DEF OrderInv
      <4>2. frame \notin ToSet(out[stream]) \cup ToSet(swr[stream]) \cup ToSet(decoder[stream])
        BY <3>1, <4>1 DEF ChainOf, Chain, Before
      <4> QED BY <1>1, <2>1, <3>1, <4>2 DEF Inside
    <3>3. Account(Inside(stream) \ {frame}, dropped[stream] \cup {frame}, (u + 1) - 1)
      <4>1. Account(Inside(stream), dropped[stream], (u + 1) - 1)
        BY <2>1, <3>1, Zenon DEF AccountOf
      <4>2. {frame} \in SUBSET Inside(stream)
        BY <3>2
      <4> QED BY <4>1, <4>2, AccountLoses, Zenon
    <3>4. Account(Inside(stream) \ {frame}, (dropped[stream] \cup {frame}) \cup u + 1..fed[stream], fed[stream])
      <4> DEFINE S == Inside(stream) \ {frame}
                 lost == dropped[stream] \cup {frame}
                 v == u + 1
      <4>1. v \in Nat \ {0} /\ v <= fed[stream] + 1 /\ Account(S, lost, v - 1)
        <5>1. v \in Nat \ {0} /\ v <= fed[stream] + 1
          BY <3>1
        <5>2. Account(S, lost, v - 1)
          BY <3>3, Zenon
        <5> QED BY <5>1, <5>2
      <4> HIDE DEF S, lost, v
      <4>2. Account(S, lost \cup v..fed[stream], fed[stream])
        BY <1>2, <4>1, AccountSkips, Zenon
      <4> QED BY <4>2 DEF S, lost, v
    <3> QED BY <1>1, <1>4, <2>1, <3>1, <3>2, <3>4 DEF AccountOf
  <2> QED BY <2>2, <2>3
<1> QED BY <1>3, <1>4

LEMMA DecoderAccounts ==
    ASSUME LoopInv, OrderInv, AccountInv, DecoderHoldsBack \/ DecoderReturnsFrame
    PROVE  AccountInv'
<1> USE DEF fileVars, packetVars, frameVars
<1> DEFINE u == NextUnit
           inside == Append(decoder[stream], u)
<1>1. /\ pc = "packet" /\ pc \notin Aborted /\ stream \in Indices /\ decoder \in [Indices -> Seq(Units)]
      /\ UNCHANGED <<fileVars, stream, fed, swr, out, dropped>>
  BY DEF DecoderHoldsBack, DecoderReturnsFrame, LoopInv, TypeOK, Aborted
<1>2. /\ left \in 1..fed[stream] /\ fed[stream] \in Nat /\ u \in Nat /\ u \in Nat \ {0}
      /\ Reached(stream) = u - 1 /\ Hand(stream) = {}
  BY <1>1, ChainTypes DEF LoopInv, PacketCovered, Reached, NextUnit, Hand
<1>3. decoder[stream] \in Seq(Nat) /\ Increasing(decoder[stream]) /\ Before(ToSet(decoder[stream]), {u})
  <2>1. ChainOf(stream) /\ decoder[stream] \in Seq(Nat)
    BY <1>1, ChainTypes DEF OrderInv
  <2>2. \A x \in ToSet(decoder[stream]) : x \in Nat /\ x <= u - 1
    BY <1>2, <2>1, Elements DEF ChainOf, Chain
  <2>3. Before(ToSet(decoder[stream]), {u})
    BY <1>2, <2>2 DEF Before
  <2> QED BY <2>1, <2>3 DEF ChainOf, Chain
<1>4. /\ inside \in Seq(Nat) /\ Increasing(inside) /\ ToSet(inside) = ToSet(decoder[stream]) \cup {u}
      /\ inside # <<>>
  BY <1>2, <1>3, AppendElements, QueueTypes, Zenon
<1> HIDE DEF u, inside
<1> SUFFICES ASSUME NEW i \in Wanted PROVE AccountOf(i)'
  BY <1>1, SameStreams DEF AccountInv
<1>5. CASE i # stream
  <2>1. i \in Indices
    BY WantedStreams
  <2>2. decoder'[i] = decoder[i]
    BY <1>1, <1>5, <2>1 DEF DecoderHoldsBack, DecoderReturnsFrame
  <2> QED BY <1>1, <1>5, <2>2, OtherAccounts
<1>6. CASE i = stream
  <2>1. Inside(stream)' = Inside(stream) \cup {u} /\ Reached(stream)' = u
    <3>1. CASE DecoderHoldsBack
      <4>1. decoder'[stream] = inside
        BY <1>1, <3>1 DEF DecoderHoldsBack, inside, u
      <4>2. left' = left - 1 /\ pc' = (IF left' > 0 THEN "packet" ELSE "free")
        BY <3>1 DEF DecoderHoldsBack, Advance
      <4>3. u = fed[stream] - left + 1
        BY DEF u, NextUnit
      <4>4. Hand(stream)' = {} /\ Reached(stream)' = u
        BY <1>1, <1>2, <4>2, <4>3 DEF Hand, Reached
      <4> QED BY <1>1, <1>2, <1>4, <4>1, <4>4 DEF Inside
    <3>2. CASE DecoderReturnsFrame
      <4>1. frame' = Head(inside) /\ decoder'[stream] = Tail(inside) /\ pc' = "handle" /\ left' = left
        BY <1>1, <3>2 DEF DecoderReturnsFrame, inside, u
      <4>2. Hand(stream)' = {Head(inside)} /\ Reached(stream)' = u
        BY <1>1, <4>1 DEF Hand, Reached, u, NextUnit
      <4>3. ToSet(inside) = {Head(inside)} \cup ToSet(Tail(inside))
        BY <1>4, HeadTailElements
      <4> QED BY <1>1, <1>2, <1>4, <4>1, <4>2, <4>3 DEF Inside
    <3> QED BY <3>1, <3>2
  <2>2. Account(Inside(stream), dropped[stream], u - 1)
    BY <1>1, <1>2, <1>6 DEF AccountInv, AccountOf
  <2>3. Account(Inside(stream) \cup {u}, dropped[stream], u)
    BY <1>2, <2>2, AccountTakes, Zenon
  <2> QED BY <1>1, <1>6, <2>1, <2>3 DEF AccountOf
<1> QED BY <1>5, <1>6


(* HandleFrame moves the frame on, from hand to the callback or the        *)
(* resampler; only audio that nobody wants is ignored.                     *)
LEMMA HandledUnits ==
    ASSUME LoopInv, OrderInv, pc \in {"handle", "handleFlushed"}, HandleVideoFrame \/ HandleAudioFrame
    PROVE  ToSet(out'[stream]) \cup ToSet(swr'[stream]) = ToSet(out[stream]) \cup ToSet(swr[stream]) \cup {frame}
<1> DEFINE o == out[stream]
           w == swr[stream]
<1>1. /\ stream \in Indices /\ out \in [Indices -> Seq(Units)] /\ swr \in [Indices -> Seq(Units)]
      /\ frame \in Nat
  BY BoundsAssumption DEF LoopInv, TypeOK, PacketCovered
<1>2. o \in Seq(Nat) /\ w \in Seq(Nat)
  BY <1>1, ChainTypes
<1>3. /\ Increasing(o) /\ Increasing(w) /\ Before(ToSet(o), {frame}) /\ Before(ToSet(w), {frame})
      /\ Before(ToSet(o), ToSet(w))
  BY <1>1 DEF Hand, OrderInv, ChainOf, Chain
<1>4. CASE HandleVideoFrame
  <2>1. out'[stream] = Append(o, frame) /\ swr' = swr
    BY <1>1, <1>4 DEF HandleVideoFrame
  <2>2. ToSet(Append(o, frame)) = ToSet(o) \cup {frame}
    BY <1>1, <1>2, <1>3, AppendElements, Zenon
  <2> QED BY <2>1, <2>2
<1>5. CASE HandleAudioFrame
  <2> DEFINE all == Append(w, frame)
  <2>1. PICK n \in {Len(all) - 1, Len(all)} :
           /\ out' = [out EXCEPT ![stream] = @ \o SubSeq(all, 1, n)]
           /\ swr' = [swr EXCEPT ![stream] = SubSeq(all, n + 1, Len(all))]
    BY <1>5 DEF HandleAudioFrame
  <2>2. n \in 0..Len(all)
    <3>1. Len(w) \in Nat /\ Len(all) = Len(w) + 1
      BY <1>1, <1>2, AppendProperties
    <3> QED BY <2>1, <3>1
  <2>3. all \in Seq(Nat) /\ Increasing(all) /\ ToSet(all) = ToSet(w) \cup {frame}
    BY <1>1, <1>2, <1>3, AppendElements, Zenon
  <2>4. out'[stream] = o \o SubSeq(all, 1, n) /\ swr'[stream] = SubSeq(all, n + 1, Len(all))
    BY <1>1, <2>1
  <2> HIDE DEF all
  <2>5. /\ SubSeq(all, 1, n) \in Seq(Nat) /\ Increasing(SubSeq(all, 1, n))
        /\ ToSet(SubSeq(all, 1, n)) \cup ToSet(SubSeq(all, n + 1, Len(all))) = ToSet(all)
    BY <2>2, <2>3, CutElements
  <2>6. Before(ToSet(o), ToSet(SubSeq(all, 1, n)))
    BY <1>3, <2>3, <2>5 DEF Before
  <2>7. ToSet(o \o SubSeq(all, 1, n)) = ToSet(o) \cup ToSet(SubSeq(all, 1, n))
    BY <1>2, <1>3, <2>5, <2>6, ConcatElements, Zenon
  <2> QED BY <2>3, <2>4, <2>5, <2>7
<1> QED BY <1>4, <1>5

LEMMA HandlingAccounts ==
    ASSUME LoopInv, OrderInv, AccountInv, HandleLoopFrame \/ HandleFlushedFrame
    PROVE  AccountInv'
<1> USE DEF fileVars, packetVars, frameVars
<1>1. /\ stream \in Indices /\ FrameType(stream) # "unknown" /\ pc \in {"handle", "handleFlushed"}
      /\ UNCHANGED <<fileVars, stream, fed, decoder>> /\ dropped \in [Indices -> SUBSET Units]
  BY DEF HandleLoopFrame, HandleFlushedFrame, LoopInv, TypeOK, DecoderKnown
<1>2. /\ HandleFrame \/ UNCHANGED <<swr, out>>
      /\ pc \notin Aborted
      /\ \A i \in Indices : i # stream => dropped'[i] = dropped[i]
  BY <1>1 DEF HandleLoopFrame, HandleFlushedFrame, Aborted
<1>3. /\ fed[stream] \in Nat /\ Hand(stream) = {frame}
      /\ Hand(stream)' = {} /\ Reached(stream)' = Reached(stream)
  <2>1. CASE HandleLoopFrame
    <3>1. /\ pc = "handle" /\ left \in 1..fed[stream] /\ fed[stream] \in Nat
          /\ left' = left - 1 /\ pc' = IF left' > 0 THEN "packet" ELSE "free"
      BY <1>1, <2>1, ChainTypes DEF HandleLoopFrame, Advance, LoopInv, PacketCovered
    <3> QED BY <1>1, <3>1 DEF Hand, Reached, NextUnit
  <2>2. CASE HandleFlushedFrame
    <3>1. pc = "handleFlushed" /\ pc' = "flush"
      BY <1>1, <2>2 DEF HandleFlushedFrame
    <3> QED BY <1>1, <3>1, ChainTypes DEF Hand, Reached
  <2> QED BY <2>1, <2>2
<1> SUFFICES ASSUME NEW i \in Wanted PROVE AccountOf(i)'
  BY <1>1, <1>2, SameStreams DEF AccountInv
<1>4. CASE i # stream
  <2>1. i \in Indices
    BY WantedStreams
  <2>2. out'[i] = out[i] /\ swr'[i] = swr[i]
    BY <1>1, <1>2, <1>4, <2>1, HandledChain
  <2> QED BY <1>1, <1>2, <1>4, <2>1, <2>2, OtherAccounts
<1>5. CASE i = stream
  <2>1. Account(Inside(stream), dropped[stream], Reached(stream))
    BY <1>2, <1>5 DEF AccountInv, AccountOf
  <2>2. ~IgnoreAudioFrame
    BY <1>5, StreamsDiffer DEF IgnoreAudioFrame, FrameType, Wanted
  <2>3. CASE HandleFrame /\ UNCHANGED dropped
    <3>1. ToSet(out'[stream]) \cup ToSet(swr'[stream]) = ToSet(out[stream]) \cup ToSet(swr[stream]) \cup {frame}
      BY <1>1, <2>2, <2>3, HandledUnits DEF HandleFrame
    <3>2. Inside(stream)' = Inside(stream)
      BY <1>1, <1>3, <3>1 DEF Inside
    <3> QED BY <1>1, <1>3, <1>5, <2>1, <2>3, <3>2 DEF AccountOf
  <2>4. CASE dropped' = [dropped EXCEPT ![stream] = @ \cup {frame}] /\ UNCHANGED <<swr, out>>
    <3>1. dropped'[stream] = dropped[stream] \cup {frame}
      BY <1>1, <2>4
    <3>2. frame \in Nat
      BY <1>1, BoundsAssumption DEF LoopInv, PacketCovered
    <3>3. frame \notin ToSet(out[stream]) \cup ToSet(swr[stream]) \cup ToSet(decoder[stream])
      <4>1. ChainOf(stream)
        BY <1>1 DEF OrderInv
      <4> QED BY <1>3, <3>2, <4>1 DEF ChainOf, Chain, Before
    <3>4. Inside(stream)' = Inside(stream) \ {frame} /\ {frame} \in SUBSET Inside(stream)
      BY <1>1, <1>3, <2>4, <3>3 DEF Inside
    <3>5. Account(Inside(stream) \ {frame}, dropped[stream] \cup {frame}, Reached(stream))
      BY <2>1, <3>4, AccountLoses, Zenon
    <3> QED BY <1>1, <1>3, <1>5, <3>1, <3>4, <3>5 DEF AccountOf
  <2>5. \/ HandleFrame /\ UNCHANGED dropped
        \/ dropped' = [dropped EXCEPT ![stream] = @ \cup {frame}] /\ UNCHANGED <<swr, out>>
    BY <1>1 DEF HandleLoopFrame, HandleFlushedFrame
  <2> QED BY <2>3, <2>4, <2>5
<1> QED BY <1>4, <1>5

LEMMA FlushAccounts ==
    ASSUME LoopInv, OrderInv, AccountInv, EmptiedInv, Flush
    PROVE  AccountInv'
<1> USE DEF fileVars, packetVars
<1>1. /\ pc = "flush" /\ pc \notin Aborted /\ stream \in Indices /\ pc' \in {"handleFlushed", "drain"}
      /\ decoder \in [Indices -> Seq(Units)] /\ dropped \in [Indices -> SUBSET Units]
      /\ UNCHANGED <<fileVars, stream, fed, swr, out>>
  BY DEF Flush, LoopInv, TypeOK, Aborted
<1>2. /\ Hand(stream) = {} /\ Reached(stream) = fed[stream] /\ Reached(stream)' = fed[stream]
      /\ decoder[stream] \in Seq(Nat) /\ ChainOf(stream)
  BY <1>1, ChainTypes DEF Hand, Reached, OrderInv
<1> SUFFICES ASSUME NEW i \in Wanted PROVE AccountOf(i)'
  BY <1>1, SameStreams DEF AccountInv
<1>3. CASE i # stream
  <2>1. i \in Indices /\ decoder'[i] = decoder[i] /\ dropped'[i] = dropped[i]
    BY <1>1, <1>3, WantedStreams DEF Flush
  <2> QED BY <1>1, <1>3, <2>1, OtherAccounts
<1>4. CASE i = stream
  <2>1. Account(Inside(stream), dropped[stream], fed[stream]) /\ FrameType(stream) # "unknown"
    BY <1>1, <1>2, <1>4, WantedStreams DEF AccountInv, AccountOf
  <2>2. CASE pc' = "handleFlushed"
    <3>1. /\ decoder[stream] # <<>> /\ frame' = Head(decoder[stream])
          /\ decoder' = [decoder EXCEPT ![stream] = Tail(@)] /\ dropped' = dropped
      <4>1. gotFrame'
        BY <1>1, <2>2 DEF Flush
      <4> QED BY <2>1, <4>1 DEF Flush
    <3>2. Hand(stream)' = {Head(decoder[stream])} /\ decoder'[stream] = Tail(decoder[stream])
      BY <1>1, <2>2, <3>1 DEF Hand
    <3>3. ToSet(decoder[stream]) = {Head(decoder[stream])} \cup ToSet(Tail(decoder[stream]))
      BY <1>2, <3>1, HeadTailElements DEF ChainOf, Chain
    <3>4. Inside(stream)' = Inside(stream)
      BY <1>1, <1>2, <3>2, <3>3 DEF Inside
    <3> QED BY <1>1, <1>2, <1>4, <2>1, <3>1, <3>4 DEF AccountOf
  <2>3. CASE pc' = "drain"
    <3>1. Hand(stream)' = {} /\ ~gotFrame'
      BY <2>3 DEF Hand, Flush
    <3>2. CASE UNCHANGED <<decoder, dropped>>
      <4>1. Inside(stream)' = Inside(stream)
        BY <1>1, <1>2, <3>1, <3>2 DEF Inside
      <4> QED BY <1>1, <1>2, <1>4, <2>1, <3>2, <4>1 DEF AccountOf
    <3>3. CASE /\ dropped' = [dropped EXCEPT ![stream] = @ \cup ToSet(decoder[stream])]
               /\ decoder' = [decoder EXCEPT ![stream] = <<>>]
      <4>1. decoder'[stream] = <<>> /\ dropped'[stream] = dropped[stream] \cup ToSet(decoder[stream])
        BY <1>1, <3>3
      <4>2. (ToSet(out[stream]) \cup ToSet(swr[stream])) \cap ToSet(decoder[stream]) = {}
        <5>1. \A x \in ToSet(decoder[stream]) : x \in Nat
          BY <1>2, Elements
        <5> QED BY <1>2, <5>1 DEF ChainOf, Chain, Before
      <4>3. /\ Inside(stream)' = Inside(stream) \ ToSet(decoder[stream])
            /\ ToSet(decoder[stream]) \in SUBSET Inside(stream)
        BY <1>1, <1>2, <3>1, <4>1, <4>2, EmptyElements DEF Inside
      <4>4. Account(Inside(stream) \ ToSet(decoder[stream]), dropped[stream] \cup ToSet(decoder[stream]), fed[stream])
        BY <2>1, <4>3, AccountLoses, Zenon
      <4> QED BY <1>1, <1>2, <1>4, <4>1, <4>3, <4>4 DEF AccountOf
    <3> QED BY <2>1, <3>1, <3>2, <3>3 DEF Flush
  <2> QED BY <1>1, <2>2, <2>3
<1> QED BY <1>3, <1>4

LEMMA DrainAccounts ==
    ASSUME LoopInv, OrderInv, AccountInv, DrainSamples \/ DrainNext
    PROVE  AccountInv'
<1> USE DEF fileVars, packetVars, frameVars
<1>1. /\ pc = "drain" /\ pc \notin Aborted /\ track \in Indices
      /\ out \in [Indices -> Seq(Units)] /\ swr \in [Indices -> Seq(Units)] /\ dropped \in [Indices -> SUBSET Units]
      /\ UNCHANGED <<fileVars, pc, stream, left, fed, decoder>>
  BY DEF DrainSamples, DrainNext, Draining, LoopInv, TypeOK, Aborted
<1> SUFFICES ASSUME NEW i \in Wanted PROVE AccountOf(i)'
  BY <1>1, SameStreams DEF AccountInv
<1>2. /\ Hand(i) = {} /\ Hand(i)' = {} /\ Reached(i)' = Reached(i) /\ i \in Indices
      /\ out[i] \in Seq(Nat) /\ swr[i] \in Seq(Nat) /\ decoder[i] \in Seq(Nat)
      /\ ChainOf(i) /\ Account(Inside(i), dropped[i], Reached(i))
  <2>1. i \in Indices
    BY WantedStreams
  <2>2. Hand(i) = {} /\ Hand(i)' = {} /\ Reached(i)' = Reached(i) /\ ChainOf(i)
    BY <1>1, <2>1 DEF Hand, Reached, OrderInv
  <2>3. Account(Inside(i), dropped[i], Reached(i))
    BY <1>1, Zenon DEF AccountInv, AccountOf
  <2> QED BY <2>1, <2>2, <2>3, ChainTypes
<1>3. CASE DrainSamples
  <2>1. PICK n \in 1..Len(swr[track]) :
           /\ out' = [out EXCEPT ![track] = @ \o SubSeq(swr[track], 1, n)]
           /\ swr' = [swr EXCEPT ![track] = SubSeq(@, n + 1, Len(@))]
    BY <1>3 DEF DrainSamples
  <2>2. dropped' = dropped
    BY <1>3 DEF DrainSamples
  <2>3. ToSet(out'[i]) \cup ToSet(swr'[i]) = ToSet(out[i]) \cup ToSet(swr[i])
    <3>1. CASE i # track
      BY <1>1, <1>2, <2>1, <3>1
    <3>2. CASE i = track
      <4> DEFINE a == SubSeq(swr[i], 1, n)
                 b == SubSeq(swr[i], n + 1, Len(swr[i]))
      <4>1. out'[i] = out[i] \o a /\ swr'[i] = b
        BY <1>1, <1>2, <2>1, <3>2
      <4>2. n \in 0..Len(swr[i])
        BY <3>2
      <4>3. a \in Seq(Nat) /\ Increasing(a) /\ ToSet(a) \cup ToSet(b) = ToSet(swr[i])
        BY <1>2, <4>2, CutElements DEF ChainOf, Chain
      <4> HIDE DEF a, b
      <4>4. Increasing(out[i]) /\ Before(ToSet(out[i]), ToSet(a))
        BY <1>2, <4>3 DEF ChainOf, Chain, Before
      <4>5. ToSet(out[i] \o a) = ToSet(out[i]) \cup ToSet(a)
        BY <1>2, <4>3, <4>4, ConcatElements, Zenon
      <4> QED BY <4>1, <4>3, <4>5
    <3> QED BY <3>1, <3>2
  <2>4. Inside(i)' = Inside(i)
    BY <1>1, <1>2, <2>3 DEF Inside
  <2> QED BY <1>2, <2>2, <2>4, Zenon DEF AccountOf
<1>4. CASE DrainNext
  <2>1. CASE UNCHANGED <<swr, dropped>>
    <3>1. Inside(i)' = Inside(i)
      BY <1>1, <1>2, <1>4, <2>1 DEF Inside, DrainNext
    <3> QED BY <1>2, <2>1, <3>1, Zenon DEF AccountOf
  <2>2. CASE /\ dropped' = [dropped EXCEPT ![track] = @ \cup ToSet(swr[track])]
             /\ swr' = [swr EXCEPT ![track] = <<>>]
    <3>1. out' = out
      BY <1>4 DEF DrainNext
    <3>2. CASE i # track
      <4>1. swr'[i] = swr[i] /\ dropped'[i] = dropped[i]
        BY <1>1, <1>2, <2>2, <3>2
      <4>2. Inside(i)' = Inside(i)
        BY <1>1, <1>2, <3>1, <4>1 DEF Inside
      <4> QED BY <1>2, <4>1, <4>2, Zenon DEF AccountOf
    <3>3. CASE i = track
      <4>1. swr'[i] = <<>> /\ dropped'[i] = dropped[i] \cup ToSet(swr[i])
        BY <1>1, <1>2, <2>2, <3>3
      <4>2. (ToSet(out[i]) \cup ToSet(decoder[i])) \cap ToSet(swr[i]) = {}
        <5>1. \A x \in ToSet(swr[i]) : x \in Nat
          BY <1>2, Elements
        <5> QED BY <1>2, <5>1 DEF ChainOf, Chain, Before
      <4>3. /\ Inside(i)' = Inside(i) \ ToSet(swr[i])
            /\ ToSet(swr[i]) \in SUBSET Inside(i)
        BY <1>1, <1>2, <3>1, <4>1, <4>2, EmptyElements DEF Inside
      <4>4. Account(Inside(i) \ ToSet(swr[i]), dropped[i] \cup ToSet(swr[i]), Reached(i))
        BY <1>2, <4>3, AccountLoses, Zenon
      <4> QED BY <1>2, <4>1, <4>3, <4>4, Zenon DEF AccountOf
    <3> QED BY <3>2, <3>3
  <2> QED BY <1>4, <2>1, <2>2 DEF DrainNext
<1> QED BY <1>3, <1>4


LEMMA EmptiedStep ==
    ASSUME LoopInv, EmptiedInv, [Next]_vars
    PROVE  EmptiedInv'
<1> USE DEF fileVars, packetVars, frameVars, unitVars, vars
<1>1. /\ stream \in Indices /\ decoder \in [Indices -> Seq(Units)] /\ swr \in [Indices -> Seq(Units)]
      /\ track \in Nat /\ UNCHANGED fileVars
  BY DEF LoopInv, TypeOK, Next, DecodeStep, OpenFile, OpenFails, ReadPacket, LeaveLoop, DecoderHoldsBack,
         DecoderReturnsFrame, DecoderFails, DecoderStalls, UnknownStream, HandleLoopFrame, ConversionFails,
         FreePacket, Flush, HandleFlushedFrame, DrainSamples, DrainNext, Done, CallbackThrows
<1>2. \A i \in Indices : FrameType(i)' = FrameType(i)
  BY <1>1 DEF FrameType, VideoStreams, AudioStreams
<1>3. CASE \/ OpenFile \/ OpenFails \/ ReadPacket \/ LeaveLoop \/ DecoderHoldsBack \/ DecoderReturnsFrame
           \/ DecoderFails \/ DecoderStalls \/ UnknownStream \/ HandleLoopFrame \/ ConversionFails
           \/ FreePacket \/ HandleFlushedFrame \/ CallbackThrows
  <2>1. pc' \notin {"drain", "done"} /\ track' = track /\ (pc' = "thrown" \/ track = 0)
    BY <1>3 DEF EmptiedInv, OpenFile, OpenFails, ReadPacket, LeaveLoop, DecoderHoldsBack,
                DecoderReturnsFrame, DecoderFails, DecoderStalls, UnknownStream, HandleLoopFrame,
                ConversionFails, FreePacket, HandleFlushedFrame, CallbackThrows, Advance, InvalidFrameType
  <2>2. \A i \in Indices : FrameType(i) = "unknown" => decoder'[i] = decoder[i]
    BY <1>1, <1>3 DEF OpenFile, OpenFails, ReadPacket, LeaveLoop, DecoderHoldsBack,
                DecoderReturnsFrame, DecoderFails, DecoderStalls, UnknownStream, HandleLoopFrame,
                ConversionFails, FreePacket, HandleFlushedFrame, CallbackThrows
  <2> QED BY <1>2, <2>1, <2>2 DEF EmptiedInv
<1>4. CASE Flush
  <2>1. /\ pc = "flush" /\ pc' \in {"handleFlushed", "drain"} /\ track' = 0 /\ stream' = stream
        /\ \A i \in Indices : FrameType(i) = "unknown" => decoder[i] = <<>>
    BY <1>4 DEF Flush, EmptiedInv
  <2>2. \A i \in Indices : FrameType(i) = "unknown" => decoder'[i] = <<>>
    BY <1>1, <1>4, <2>1 DEF Flush
  <2>3. pc' = "drain" => decoder'[stream] = <<>>
    <3> SUFFICES ASSUME pc' = "drain" PROVE decoder'[stream] = <<>>
      OBVIOUS
    <3>1. ~gotFrame'
      BY <1>4 DEF Flush
    <3> QED BY <1>1, <1>4, <2>1, <3>1 DEF Flush
  <2> QED BY <1>1, <1>2, <2>1, <2>2, <2>3 DEF EmptiedInv
<1>5. CASE DrainSamples \/ DrainNext
  <2>1. /\ pc = "drain" /\ track \in Indices /\ UNCHANGED <<pc, stream, decoder, extractAudio>>
        /\ \A j \in Indices : j # track => swr'[j] = swr[j]
    BY <1>1, <1>5 DEF DrainSamples, DrainNext, Draining
  <2>2. track' = track \/ (track' = track + 1 /\ swr'[track] = <<>>)
    BY <1>1, <1>5, <2>1 DEF DrainSamples, DrainNext
  <2>3. extractAudio => \A j \in Indices : j < track' => swr'[j] = <<>>
    <3> SUFFICES ASSUME extractAudio, NEW j \in Indices, j < track' PROVE swr'[j] = <<>>
      OBVIOUS
    <3>1. j < track => swr[j] = <<>>
      BY <2>1 DEF EmptiedInv
    <3> QED BY <1>1, <2>1, <2>2, <3>1
  <2> QED BY <1>2, <2>1, <2>3 DEF EmptiedInv
<1>6. CASE Done
  <2>1. /\ pc = "drain" /\ pc' = "done" /\ UNCHANGED <<stream, decoder, swr, track, extractAudio>>
        /\ extractAudio => track \notin Indices
    BY <1>6 DEF Done, Draining
  <2> QED BY <1>2, <2>1 DEF EmptiedInv
<1>7. CASE UNCHANGED vars
  BY <1>2, <1>7 DEF EmptiedInv
<1> QED BY <1>3, <1>4, <1>5, <1>6, <1>7 DEF Next, DecodeStep

(* Every unit read is inside the program, handed on or explained, and what *)
(* the end of Decode has to empty is empty.                                *)
THEOREM AccountsCorrect == SafeSpec => [](AccountInv /\ EmptiedInv)
<1>1. LoopInv /\ OrderInv /\ AccountInv /\ EmptiedInv /\ [Next]_vars => AccountInv'
  BY QuietAccounts, ErrorAccounts, DecoderAccounts, HandlingAccounts, FlushAccounts, DrainAccounts
     DEF Next, DecodeStep
<1>2. LoopInv /\ EmptiedInv /\ [Next]_vars => EmptiedInv'
  BY EmptiedStep
<1> QED BY <1>1, <1>2, AccountInit, LoopCorrect, OrderCorrect, PTL DEF SafeSpec

(* When Decode is done, every frame of every wanted stream has reached its *)
(* callback, was taken by an error, or is inside a decoder that was not    *)
(* flushed.                                                                *)
THEOREM EveryFrameArrives == SafeSpec => []DeliveredOrExplained
<1>1. LoopInv /\ OrderInv /\ AccountInv /\ EmptiedInv => DeliveredOrExplained
  <2> SUFFICES ASSUME LoopInv, OrderInv, AccountInv, EmptiedInv, pc = "done"
               PROVE  /\ \A i \in Wanted : ToSet(out[i]) = (1..fed[i]) \ (dropped[i] \cup ToSet(decoder[i]))
                      /\ decoder[stream] = <<>>
    BY DEF DeliveredOrExplained
  <2>1. decoder[stream] = <<>>
    BY DEF EmptiedInv
  <2>2. ASSUME NEW i \in Wanted
        PROVE  ToSet(out[i]) = (1..fed[i]) \ (dropped[i] \cup ToSet(decoder[i]))
    <3>1. i \in Indices /\ Hand(i) = {} /\ Reached(i) = fed[i] /\ AccountOf(i) /\ ChainOf(i)
      BY WantedStreams DEF Hand, Reached, AccountInv, OrderInv, Aborted
    <3>2. swr[i] = <<>>
      <4>1. CASE i \in AudioStreams
        <5>1. extractAudio /\ track \in Nat
          BY <4>1, StreamsDiffer DEF Wanted, LoopInv, TypeOK
        <5>2. i < track
          BY <3>1, <5>1, StreamsAssumption DEF EmptiedInv
        <5> QED BY <3>1, <5>1, <5>2 DEF EmptiedInv
      <4>2. CASE i \notin AudioStreams
        BY <3>1, <4>2 DEF OrderInv
      <4> QED BY <4>1, <4>2
    <3>3. ToSet(out[i]) \cap ToSet(decoder[i]) = {}
      <4>1. decoder[i] \in Seq(Nat)
        BY <3>1, ChainTypes
      <4>2. \A x \in ToSet(decoder[i]) : x \in Nat
        BY <4>1, Elements
      <4> QED BY <3>1, <4>2 DEF ChainOf, Chain, Before
    <3>4. Inside(i) = ToSet(out[i]) \cup ToSet(decoder[i])
      BY <3>1, <3>2, EmptyElements DEF Inside
    <3> QED BY <3>1, <3>3, <3>4 DEF AccountOf, Account
  <2> QED BY <2>1, <2>2
<1> QED BY <1>1, LoopCorrect, OrderCorrect, AccountsCorrect, PTL

=============================================================================
