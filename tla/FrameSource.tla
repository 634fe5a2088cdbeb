---------------------------- MODULE FrameSource ----------------------------
(***************************************************************************)
(* What InputStreamDecoder::Decode promises its caller about the video:    *)
(* frames come one at a time, numbered 1, 2, ... by currentFrame, and then *)
(* either the done callback comes once, after the last frame, or Decode is *)
(* left by an exception.  DecodeLoop implements this; the decoding actions *)
(* of EncodePipeline (DecodeFrame, DecodeDone, AudioThrows) are its steps. *)
(***************************************************************************)
EXTENDS Naturals

VARIABLES delivered,  \* number of the last frame handed to the video callback
          over        \* "no", or how Decode ended: "done", "thrown"

vars == <<delivered, over>>

Init == delivered = 0 /\ over = "no"

Deliver == over = "no" /\ delivered' = delivered + 1 /\ UNCHANGED over
Finish == over = "no" /\ over' = "done" /\ UNCHANGED delivered
Throw == over = "no" /\ over' = "thrown" /\ UNCHANGED delivered

Next == Deliver \/ Finish \/ Throw

Spec == Init /\ [][Next]_vars
=============================================================================
