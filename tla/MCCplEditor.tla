---------------------------- MODULE MCCplEditor ----------------------------
(* Two segments, so that a new one lands before or after another; three    *)
(* virtual tracks, so that rows shift when one goes and the map keeps the  *)
(* row of a former one; four resources, one of them audio.                 *)
EXTENDS CplEditor, TLC

CONSTANTS g1, g2, s1, s2, s3, v1, v2, v3, r1, r2, r3, a1

MCSegments == {g1, g2}
MCSequences == {s1, s2, s3}
MCTracks == {v1, v2, v3}
MCResources == {r1, r2, r3, a1}
MCAudio == {a1}

Symmetric == Permutations(MCSegments) \cup Permutations(MCSequences)
             \cup Permutations(MCTracks) \cup Permutations(MCResources \ MCAudio)
=============================================================================
