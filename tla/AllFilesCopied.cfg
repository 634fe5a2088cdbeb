SPECIFICATION Spec
CONSTANTS
    v1 = v1
    a1 = a1
    n1 = n1
    n2 = n2
    p1 = p1
    p2 = p2
    Essences <- MCEssences
    VideoEssences <- MCVideo
    Names <- MCNames
    OutputDirs = {o1, o2}
    PackageDirs <- MCPackageDirs
    CplIds = {c1}
    MaxTracks = 2
    NoDir = NoDir
    Absent = Absent
    Broken = Broken
INVARIANTS
    AllFilesCopied
