-------------------------- MODULE MCEncodePipeline --------------------------
(* Two workers, a queue of two and streams of up to four frames: the queue *)
(* fills up, main parks in push, and both workers can park in pop.         *)
EXTENDS EncodePipeline, TLC

CONSTANTS w1, w2

MCWorkers == {w1, w2}
Symmetric == Permutations(MCWorkers)

AllFaults == {"signal", "audio", "encode", "disk", "mux"}
SignalFault == {"signal"}
NoFaults == {}
=============================================================================
