SPECIFICATION Spec
CONSTANTS
    g1 = g1
    g2 = g2
    s1 = s1
    s2 = s2
    s3 = s3
    v1 = v1
    v2 = v2
    v3 = v3
    r1 = r1
    r2 = r2
    r3 = r3
    a1 = a1
    SegmentIds <- MCSegments
    SequenceIds <- MCSequences
    TrackIds <- MCTracks
    ResourceIds <- MCResources
    AudioResources <- MCAudio
    NoTrack = NoTrack
    NoRow = NoRow
SYMMETRY Symmetric
INVARIANTS
    TypeOK
    ViewsAgree
    NothingEmpty
    TrackIndexCurrent
    OneSequencePerTrack
PROPERTIES
    EditsTimeline
