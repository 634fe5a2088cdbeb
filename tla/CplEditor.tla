------------------------------ MODULE CplEditor ------------------------------
(***************************************************************************)
(* The composition playlist of imfgui (imfgui/src/model) and the actions   *)
(* of its timeline editor (imfgui/src/views/cplsequenceview.cpp).          *)
(*                                                                         *)
(* A CPLSequence is reached in two ways: through the CPLSegment in which   *)
(* it plays, and through the CPLVirtualTrack it belongs to.  Every edit    *)
(* has to keep the two views in step.  The scene is repainted from the     *)
(* segments after each edit; a sequence's rectangle remembers the row of   *)
(* its virtual track, and deleting finds the track again by that row.      *)
(*                                                                         *)
(* Objects are their UUIDs.  An id is free again once neither the playlist *)
(* nor the saved file mentions it; UUIDGenerator never repeats one, so     *)
(* this only adds behaviours.  Everything happens on the GUI thread.       *)
(***************************************************************************)
EXTENDS Integers, Sequences, SequencesExt

CONSTANTS SegmentIds, SequenceIds, TrackIds, ResourceIds,  \* the UUIDs there are
          AudioResources,  \* the resources of audio tracks; the others are video
          NoTrack,         \* the track id of a sequence that is not in use
          NoRow            \* a sequence without a rectangle

ASSUME AudioAssumption == AudioResources \subseteq ResourceIds
ASSUME NoTrackAssumption == NoTrack \notin TrackIds
ASSUME NoRowAssumption == NoRow \notin Nat

VARIABLES segments,        \* IMFCompositionPlaylist::_segments
          virtualTracks,   \* IMFCompositionPlaylist::_virtualTracks
          sequencesOf,     \* CPLSegment::_items
          trackItems,      \* CPLVirtualTrack::_items; nothing reads their order
          resources,       \* CPLSequence::_items
          virtualTrackId,  \* CPLSequence::_virtualTrackId
          trackMap,        \* CPLSequenceView::_virtualTrackMap
          trackIndex,      \* CPLSequenceRect::_trackIndex of the rectangles in the scene
          file             \* the CPL on disk, an empty one before the first save

playlistVars == <<segments, virtualTracks, sequencesOf, trackItems, resources, virtualTrackId>>
sceneVars == <<trackMap, trackIndex>>
vars == <<playlistVars, sceneVars, file>>

-----------------------------------------------------------------------------
(* Lists of shared pointers, searched by UUID (cplitemlist.h). *)

\* find_if.
PositionOf(list, x) == CHOOSE i \in 1..Len(list) : list[i] = x

\* InsertItemAfter and InsertItemBefore; the editor only names items it has painted.
InsertBeside(list, other, append, x) ==
    InsertAt(list, PositionOf(list, other) + (IF append THEN 1 ELSE 0), x)

\* DeleteItem; the ids of a list differ (TypeOK), so there is one match at most.
DeleteItem(list, x) ==
    IF x \in Range(list) THEN RemoveAt(list, PositionOf(list, x)) ELSE list

\* Some list without repetition whose elements are those of S.
Orderings(S) ==
    {f \in UNION {[1..n -> S] : n \in 0..Cardinality(S)} : Range(f) = S /\ IsInjective(f)}

\* The sequences that play in the segments, which are the ones that are painted.
InSegments == {s \in SequenceIds : \E g \in Range(segments) : s \in Range(sequencesOf[g])}

\* UUIDGenerator::MakeUUID: ids that nothing mentions, here or in the file.
FreshSegments == SegmentIds \ (Range(segments) \cup Range(file.segmentList))
FreshSequences == {s \in SequenceIds \ InSegments : file.trackId[s] = NoTrack}
FreshTracks == TrackIds \ (Range(virtualTracks) \cup Range(file.trackId))
\* Mutant: the dragged resource itself is put into the playlist, again and again.
AnyResource == ResourceIds
FreshResources == {r \in ResourceIds : \A s \in SequenceIds :
                                          r \notin Range(resources[s]) \cup Range(file.resourceList[s])}

-----------------------------------------------------------------------------
(* A playlist just made by NewCompositionPlaylist, painted. *)

EmptyFile == [segmentList  |-> <<>>,
              sequenceList |-> [g \in SegmentIds |-> <<>>],
              trackId      |-> [s \in SequenceIds |-> NoTrack],
              resourceList |-> [s \in SequenceIds |-> <<>>]]

Init ==
    /\ segments = <<>>
    /\ virtualTracks = <<>>
    /\ sequencesOf = [g \in SegmentIds |-> <<>>]
    /\ trackItems = [v \in TrackIds |-> {}]
    /\ resources = [s \in SequenceIds |-> <<>>]
    /\ virtualTrackId = [s \in SequenceIds |-> NoTrack]
    /\ trackMap = [v \in TrackIds |-> 0]
    /\ trackIndex = [s \in SequenceIds |-> NoRow]
    /\ file = EmptyFile

\* Mutant: the map only gets the rows of tracks that were not there before.
RepaintNewTracksOnly ==
    /\ trackMap' = [v \in TrackIds |-> IF v \in Range(virtualTracks') \ Range(virtualTracks)
                                       THEN PositionOf(virtualTracks', v) - 1
                                       ELSE trackMap[v]]
    /\ trackIndex' = [s \in SequenceIds |-> IF s \in InSegments'
                                            THEN trackMap'[virtualTrackId'[s]]
                                            ELSE NoRow]

\* CompositionPlaylistChanged, with AppendSegment and AddSequence.  The map
\* gets the rows of the current tracks and keeps those of former ones.
Repaint ==
    /\ trackMap' = [v \in TrackIds |-> IF v \in Range(virtualTracks')
                                       THEN PositionOf(virtualTracks', v) - 1
                                       ELSE trackMap[v]]
    /\ trackIndex' = [s \in SequenceIds |-> IF s \in InSegments'
                                            THEN trackMap'[virtualTrackId'[s]]
                                            ELSE NoRow]

\* GetVirtualTrackFromY and, below the last row, a new virtual track.
TrackAtRow(row, v) ==
    IF row < Len(virtualTracks)
    THEN v = virtualTracks[row + 1] /\ UNCHANGED virtualTracks
    ELSE v \in FreshTracks /\ virtualTracks' = Append(virtualTracks, v)

\* Mutant: the virtual track is not told of its new sequence.
NewSequenceUnlisted(s, v, r) ==
    /\ UNCHANGED trackItems
    /\ virtualTrackId' = [virtualTrackId EXCEPT ![s] = v]
    /\ resources' = [resources EXCEPT ![s] = <<r>>]

\* A new sequence of track v that holds one new resource.
NewSequence(s, v, r) ==
    /\ trackItems' = [trackItems EXCEPT ![v] = @ \cup {s}]
    /\ virtualTrackId' = [virtualTrackId EXCEPT ![s] = v]
    /\ resources' = [resources EXCEPT ![s] = <<r>>]

-----------------------------------------------------------------------------
(* dropEvent.  Which rectangle is under the pointer, and which of its      *)
(* attachment areas is lit, is any; `row' is where the pointer is.         *)

\* CreateFirstSegmentAction.
CreateFirstSegment(r) ==
    /\ segments = <<>>
    /\ \E g \in FreshSegments, s \in FreshSequences, v \in FreshTracks :
          /\ segments' = Append(segments, g)
          /\ virtualTracks' = Append(virtualTracks, v)
          /\ sequencesOf' = [sequencesOf EXCEPT ![g] = <<s>>]
          /\ NewSequence(s, v, r)
    /\ Repaint
    /\ UNCHANGED file

\* InsertSegmentAction: with Ctrl, beside a segment.
InsertSegment(other, append, row, r) ==
    /\ \E g \in FreshSegments, s \in FreshSequences, v \in TrackIds :
          /\ TrackAtRow(row, v)
          /\ segments' = InsertBeside(segments, other, append, g)
          /\ sequencesOf' = [sequencesOf EXCEPT ![g] = <<s>>]
          /\ NewSequence(s, v, r)
    /\ Repaint
    /\ UNCHANGED file

\* InsertResourceAction: beside a resource of sequence s.
InsertResource(s, other, append, r) ==
    /\ resources' = [resources EXCEPT ![s] = InsertBeside(@, other, append, r)]
    /\ UNCHANGED <<segments, virtualTracks, sequencesOf, trackItems, virtualTrackId, file>>
    /\ Repaint

\* Mutant: no search for a sequence to continue.
NoneInTrack(g, v) == {}

\* The sequences of segment g that track v lists; there is one at most
\* (OneSequencePerTrack).  A track that was just made lists none.
SequencesInTrack(g, v) ==
    IF v \in Range(virtualTracks) THEN Range(sequencesOf[g]) \cap trackItems[v] ELSE {}

\* AddResourceAction: somewhere in a segment.  A sequence that the segment
\* already has in that track is continued; else it gets a new one.
AddResource(g, row, r) ==
    /\ \E v \in TrackIds :
          /\ TrackAtRow(row, v)
          /\ \/ /\ \E s \in SequencesInTrack(g, v) :
                      resources' = [resources EXCEPT ![s] = Append(@, r)]
                /\ UNCHANGED <<sequencesOf, trackItems, virtualTrackId>>
             \/ /\ SequencesInTrack(g, v) = {}
                /\ \E s \in FreshSequences :
                      /\ sequencesOf' = [sequencesOf EXCEPT ![g] = Append(@, s)]
                      /\ NewSequence(s, v, r)
    /\ UNCHANGED <<segments, file>>
    /\ Repaint

Drop(r) ==
    \/ CreateFirstSegment(r)
    \/ \E g \in Range(segments), row \in 0..Len(virtualTracks) :
          \/ \E append \in BOOLEAN : InsertSegment(g, append, row, r)
          \/ AddResource(g, row, r)
    \/ \E s \in InSegments : \E other \in Range(resources[s]), append \in BOOLEAN :
          InsertResource(s, other, append, r)

-----------------------------------------------------------------------------
\* Mutant: emptied segments and tracks stay.
KeepEmpty(list, x, empty) == list

\* DeleteSegment and DeleteVirtualTrack, for a parent that has become empty.
DeleteEmpty(list, x, empty) == IF empty THEN DeleteItem(list, x) ELSE list

\* DeleteResourceAction, answered with Yes: the resource, its sequence if that
\* is empty now, and then its segment and its track if they are.
DeleteResource(g, s, r) ==
    LET rest == DeleteItem(resources[s], r)
        v == virtualTracks[trackIndex[s] + 1]
        restOfSegment == DeleteItem(sequencesOf[g], s)
        restOfTrack == trackItems[v] \ {s}
    IN  /\ resources' = [resources EXCEPT ![s] = rest]
        /\ IF rest # <<>>
           THEN UNCHANGED <<segments, virtualTracks, sequencesOf, trackItems, virtualTrackId>>
           ELSE /\ sequencesOf' = [sequencesOf EXCEPT ![g] = restOfSegment]
                /\ trackItems' = [trackItems EXCEPT ![v] = restOfTrack]
                /\ segments' = DeleteEmpty(segments, g, restOfSegment = <<>>)
                /\ virtualTracks' = DeleteEmpty(virtualTracks, v, restOfTrack = {})
                /\ virtualTrackId' = [virtualTrackId EXCEPT ![s] = NoTrack]
        /\ Repaint
        /\ UNCHANGED file

-----------------------------------------------------------------------------
(* The CPL file.  Elements are found by their Id, so the document is kept  *)
(* as its lists; it has no list of virtual tracks, only the TrackId of     *)
(* every sequence.                                                         *)

\* CPLSequence::Write throws for a sequence with both kinds of resources,
\* before write_xml has touched the file.
OneKind(list) == Range(list) \subseteq AudioResources \/ Range(list) \cap AudioResources = {}

\* Mutant: only one sequence of a segment is written.
FirstSequenceOnly(g) == IF sequencesOf[g] = <<>> THEN <<>> ELSE <<Head(sequencesOf[g])>>

\* CPLSegment::Write: a sequence without resources is left out.
WrittenSequences(g) ==
    IF \A s \in Range(sequencesOf[g]) : resources[s] # <<>>
    THEN sequencesOf[g]
    ELSE SelectSeq(sequencesOf[g], LAMBDA s : resources[s] # <<>>)

\* IMFCompositionPlaylist::Write.
Write ==
    /\ \A s \in InSegments : OneKind(resources[s])
    /\ file' = [segmentList  |-> segments,
                sequenceList |-> [g \in SegmentIds |-> WrittenSequences(g)],
                trackId      |-> virtualTrackId,
                resourceList |-> resources]
    /\ UNCHANGED <<playlistVars, sceneVars>>

\* The sequences in the file, their places <<segment, place in it>>, and the
\* order of these.
InFile(s) == \E g \in Range(file.segmentList) : s \in Range(file.sequenceList[g])
Written(i) == file.sequenceList[file.segmentList[i]]
Mentions(v) == UNION {{<<i, j>> : j \in {k \in DOMAIN Written(i) : file.trackId[Written(i)[k]] = v}} :
                      i \in DOMAIN file.segmentList}
Precedes(m, n) == m[1] < n[1] \/ (m[1] = n[1] /\ m[2] < n[2])
MentionedBefore(v, w) == \E m \in Mentions(v) : \A n \in Mentions(w) : Precedes(m, n)

\* IMFCompositionPlaylist::Load, opened again by the main window: a virtual
\* track is made when a sequence first mentions it.
Load ==
    /\ segments' = file.segmentList
    /\ sequencesOf' = file.sequenceList
    /\ resources' = file.resourceList
    /\ virtualTrackId' = file.trackId
    /\ trackItems' = [v \in TrackIds |-> {s \in SequenceIds : InFile(s) /\ file.trackId[s] = v}]
    /\ \E order \in Orderings({v \in TrackIds : Mentions(v) # {}}) :
          /\ \A i, j \in DOMAIN order : i < j => MentionedBefore(order[i], order[j])
          /\ virtualTracks' = order
    /\ Repaint
    /\ UNCHANGED file

-----------------------------------------------------------------------------
Edit ==
    \/ \E r \in FreshResources : Drop(r)
    \/ \E g \in Range(segments) : \E s \in Range(sequencesOf[g]) : \E r \in Range(resources[s]) :
          DeleteResource(g, s, r)

Next == Edit \/ Write \/ Load

Spec == Init /\ [][Next]_vars
-----------------------------------------------------------------------------
(* Properties. *)

IdLists(S) == {list \in Seq(S) : IsInjective(list)}

\* Every variable has its type, and no list names an object twice.
TypeOK ==
    /\ segments \in IdLists(SegmentIds)
    /\ virtualTracks \in IdLists(TrackIds)
    /\ \A g \in SegmentIds : sequencesOf[g] \in IdLists(SequenceIds)
    /\ trackItems \in [TrackIds -> SUBSET SequenceIds]
    /\ \A s \in SequenceIds : resources[s] \in IdLists(ResourceIds)
    /\ virtualTrackId \in [SequenceIds -> TrackIds \cup {NoTrack}]
    /\ trackMap \in [TrackIds -> Nat]
    /\ trackIndex \in [SequenceIds -> Nat \cup {NoRow}]

\* The two ways to a sequence agree: a sequence plays in a segment exactly if
\* the virtual track it names lists it, no other track of the playlist does,
\* and it plays in one segment only.
ViewsAgree ==
    /\ \A s \in SequenceIds, v \in TrackIds :
          s \in trackItems[v] <=> s \in InSegments /\ virtualTrackId[s] = v
    /\ \A s \in InSegments : virtualTrackId[s] \in Range(virtualTracks)
    /\ \A g, h \in Range(segments) :
          g # h => Range(sequencesOf[g]) \cap Range(sequencesOf[h]) = {}

\* "deletes a resource. and if parents are empty also parents": no segment,
\* sequence or virtual track of the playlist is ever left empty.
NothingEmpty ==
    /\ \A g \in Range(segments) : sequencesOf[g] # <<>>
    /\ \A s \in InSegments : resources[s] # <<>>
    /\ \A v \in Range(virtualTracks) : trackItems[v] # {}

\* The row a painted sequence remembers is the row of its own virtual track, so
\* a later delete takes the sequence out of the right track and never indexes
\* past the end of the list.
TrackIndexCurrent ==
    \A s \in InSegments :
        /\ trackIndex[s] < Len(virtualTracks)
        /\ virtualTracks[trackIndex[s] + 1] = virtualTrackId[s]

\* A segment has at most one sequence of each virtual track: two of them would
\* be painted over each other and play at the same time.
OneSequencePerTrack ==
    \A g \in Range(segments) : \A s, t \in Range(sequencesOf[g]) :
        virtualTrackId[s] = virtualTrackId[t] => s = t

\* For every segment, the resources that play in each virtual track.
Contents(list, items, trackOf, held) ==
    [i \in 1..Len(list) |-> [v \in TrackIds |->
        LET here == {s \in Range(items[list[i]]) : trackOf[s] = v}
        IN  IF here = {} THEN <<>> ELSE held[CHOOSE s \in here : TRUE]]]

\* The playlist, through all its objects, is a timeline: each drop and each
\* delete changes one place of one segment and track, or adds or removes one
\* segment, and opening brings back exactly what was saved, although the file
\* holds neither the virtual tracks nor their order.
TL == INSTANCE Timeline WITH
        timeline <- Contents(segments, sequencesOf, virtualTrackId, resources),
        saved <- Contents(file.segmentList, file.sequenceList, file.trackId, file.resourceList)
EditsTimeline == TL!Spec

\* What CPLSequence::Write says it insists on: "Each Resource in Sequence
\* (Virtual Track) must be of same type".  In a file that was written, the
\* resources of a virtual track are all audio or all video.
SavedTracksOfOneKind ==
    \A s, t \in SequenceIds :
        InFile(s) /\ InFile(t) /\ file.trackId[s] = file.trackId[t]
            => OneKind(file.resourceList[s] \o file.resourceList[t])
=============================================================================
