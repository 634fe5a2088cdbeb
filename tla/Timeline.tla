------------------------------ MODULE Timeline ------------------------------
(***************************************************************************)
(* What the timeline editor of imfgui promises its user: a composition is  *)
(* a list of segments that play one after the other, and a segment holds,  *)
(* for every virtual track, a list of resources.  An edit puts one         *)
(* resource in, or takes one out, and changes nothing else; saving keeps a *)
(* copy that opening brings back.  There are no sequence objects, no       *)
(* second view by virtual track and no cached indexes.                     *)
(***************************************************************************)
EXTENDS Integers, Sequences, SequencesExt

CONSTANTS TrackIds,     \* virtual tracks
          ResourceIds   \* resources

VARIABLES timeline,  \* the segments, each a function from tracks to resource lists
          saved      \* the timeline as it was saved last

vars == <<timeline, saved>>

EmptySegment == [v \in TrackIds |-> <<>>]

Init == timeline = <<>> /\ saved = <<>>

\* The resource becomes the only one of a new segment at place i.
NewSegment(i, v, r) ==
    /\ timeline' = InsertAt(timeline, i, [EmptySegment EXCEPT ![v] = <<r>>])
    /\ UNCHANGED saved

\* The resource is put at place p of a track in an existing segment.
Place(i, v, p, r) ==
    /\ timeline' = [timeline EXCEPT ![i][v] = InsertAt(@, p, r)]
    /\ UNCHANGED saved

\* A resource is taken out; a segment that has none left goes with it.
Take(i, v, p) ==
    /\ LET rest == [timeline[i] EXCEPT ![v] = RemoveAt(@, p)]
       IN  timeline' = IF rest = EmptySegment
                       THEN RemoveAt(timeline, i)
                       ELSE [timeline EXCEPT ![i] = rest]
    /\ UNCHANGED saved

Save == saved' = timeline /\ UNCHANGED timeline
Reopen == timeline' = saved /\ UNCHANGED saved

Next ==
    \/ \E i \in 1..(Len(timeline) + 1), v \in TrackIds, r \in ResourceIds :
          NewSegment(i, v, r)
    \/ \E i \in 1..Len(timeline), v \in TrackIds :
          \/ \E p \in 1..(Len(timeline[i][v]) + 1), r \in ResourceIds : Place(i, v, p, r)
          \/ \E p \in 1..Len(timeline[i][v]) : Take(i, v, p)
    \/ Save
    \/ Reopen

Spec == Init /\ [][Next]_vars
=============================================================================
