---------------------------- MODULE MCDecodeLoop ----------------------------
(* Two streams of up to three frames each, of every combination of kinds;  *)
(* packets of one or two frames; decoders that hold back up to two frames. *)
EXTENDS DecodeLoop

AllFaults == {"open", "decode", "stall", "convert", "callback"}
NoFaults == {}
=============================================================================
