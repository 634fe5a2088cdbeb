------------------------- MODULE PackageStoreProofs -------------------------
(***************************************************************************)
(* Proofs about PackageStore, for every set of track files, names,         *)
(* directories and playlists.                                              *)
(***************************************************************************)
EXTENDS PackageStore, SequenceTheorems, TLAPS

USE DEF Dirs

(* A track file lies at one path, and only what was written lies there. *)
OneCopy ==
    /\ \A p, r \in Paths : disk[p] = disk[r] /\ disk[p] # Absent => p = r
    /\ \A p \in Paths : disk[p] # Absent => disk[p] \in produced
    /\ \A e \in produced : \E p \in Paths : disk[p] = e

(* Two tracks share a file only in the package's own directory, which no   *)
(* move leaves: a package that lists a file twice was loaded from there.   *)
SharedPathsInside ==
    \A i, j \in 1..Len(tracks) :
        i # j /\ tracks[i].path = tracks[j].path => tracks[i].path[1] = dir

StoreInv == TypeOK /\ OneCopy /\ PathsCurrent /\ SharedPathsInside

-----------------------------------------------------------------------------
(* The constructors of the model. *)

LEMMA PathsArePairs ==
    /\ \A p \in Paths : p[1] \in Dirs /\ p[2] \in Names /\ p = <<p[1], p[2]>>
    /\ \A d \in Dirs, n \in Names : <<d, n>> \in Paths
BY DEF Paths

LEMMA FunctionIsSequence ==
    ASSUME NEW S, NEW n \in Nat, NEW f \in [1..n -> S]
    PROVE  f \in Seq(S) /\ Len(f) = n
BY SeqDef, LenProperties

(* What Load makes of an asset map. *)
LEMMA LoadedTypes ==
    ASSUME TypeOK, NEW d \in PackageDirs, Loads(d)
    PROVE  /\ LoadedTracks(d) \in Seq(Tracks)
           /\ \A i \in 1..Len(LoadedTracks(d)) :
                 LET t == LoadedTracks(d)[i] IN t.path[1] = d /\ disk[t.path] = t.id
           /\ LoadedCpls(d) \in Seq(Playlists)
<1> DEFINE m == mapFile[d]
<1>1. m \in AssetMaps
  BY DEF TypeOK, Loads
<1>2. m.tracks \in Seq([id : Essences, name : Names]) /\ Len(m.tracks) \in Nat
  BY <1>1 DEF AssetMaps
<1>3. m.cpls \in Seq(CplIds) /\ Len(m.cpls) \in Nat
  BY <1>1 DEF AssetMaps
<1>4. \A i \in 1..Len(m.tracks) : <<d, m.tracks[i].name>> \in Paths
  <2> SUFFICES ASSUME NEW i \in 1..Len(m.tracks) PROVE <<d, m.tracks[i].name>> \in Paths
    OBVIOUS
  <2>1. m.tracks[i] \in [id : Essences, name : Names]
    BY <1>2, ElementOfSeq
  <2> QED BY <2>1, PathsArePairs
<1>5. \A i \in 1..Len(m.tracks) : LoadedTracks(d)[i] \in Elements(LoadedTracks(d))
  <2>1. Len(LoadedTracks(d)) = Len(m.tracks)
    BY <1>2, LenProperties DEF LoadedTracks
  <2> QED BY <2>1 DEF Elements
<1>6. \A i \in 1..Len(m.tracks) : LoadedTracks(d)[i] \in Tracks
  <2> SUFFICES ASSUME NEW i \in 1..Len(m.tracks) PROVE LoadedTracks(d)[i] \in Tracks
    OBVIOUS
  <2>1. LoadedTracks(d)[i].id # Absent
    BY <1>5 DEF Loads
  <2>2. LoadedTracks(d)[i] = [id |-> disk[<<d, m.tracks[i].name>>], path |-> <<d, m.tracks[i].name>>]
    BY DEF LoadedTracks
  <2> QED BY <1>4, <2>1, <2>2 DEF TypeOK, Tracks
<1>7. LoadedTracks(d) \in Seq(Tracks) /\ Len(LoadedTracks(d)) = Len(m.tracks)
  <2>1. LoadedTracks(d) \in [1..Len(m.tracks) -> Tracks]
    BY <1>6 DEF LoadedTracks
  <2> QED BY <1>2, <2>1, FunctionIsSequence
<1>8. \A i \in 1..Len(LoadedTracks(d)) :
         LET t == LoadedTracks(d)[i] IN t.path[1] = d /\ disk[t.path] = t.id
  BY <1>4, <1>7 DEF LoadedTracks
<1>9. LoadedCpls(d) \in Seq(Playlists)
  <2>1. Len(LoadedCpls(d)) = Len(m.cpls)
    BY <1>3, LenProperties DEF LoadedCpls
  <2>2. ASSUME NEW i \in 1..Len(m.cpls) PROVE LoadedCpls(d)[i] \in Playlists
    <3>1. LoadedCpls(d)[i].refs \notin {Absent, Broken}
      BY <2>1 DEF Loads, Elements
    <3>2. LoadedCpls(d)[i] = [id |-> m.cpls[i], refs |-> cplFile[<<d, m.cpls[i]>>]]
      BY DEF LoadedCpls
    <3>3. <<d, m.cpls[i]>> \in PackageDirs \X CplIds /\ m.cpls[i] \in CplIds
      BY <1>3, ElementOfSeq
    <3>4. cplFile[<<d, m.cpls[i]>>] \in SUBSET Essences
      BY <3>1, <3>2, <3>3 DEF TypeOK
    <3> QED BY <3>2, <3>3, <3>4 DEF Playlists
  <2>3. LoadedCpls(d) \in [1..Len(m.cpls) -> Playlists]
    BY <2>2 DEF LoadedCpls
  <2> QED BY <1>3, <2>3, FunctionIsSequence
<1> QED BY <1>7, <1>8, <1>9

(* What is in the package. *)
LEMMA ItemTypes ==
    ASSUME TypeOK
    PROVE  /\ \A i \in 1..Len(tracks) :
                 tracks[i] \in Tracks /\ tracks[i].id \in Essences /\ tracks[i].path \in Paths
           /\ \A i \in 1..Len(cpls) :
                 cpls[i] \in Playlists /\ cpls[i].id \in CplIds /\ cpls[i].refs \subseteq Essences
<1>1. ASSUME NEW i \in 1..Len(tracks)
      PROVE  tracks[i] \in Tracks /\ tracks[i].id \in Essences /\ tracks[i].path \in Paths
  <2>1. tracks[i] \in Tracks
    BY ElementOfSeq DEF TypeOK
  <2> QED BY <2>1 DEF Tracks
<1>2. ASSUME NEW i \in 1..Len(cpls)
      PROVE  cpls[i] \in Playlists /\ cpls[i].id \in CplIds /\ cpls[i].refs \subseteq Essences
  <2>1. cpls[i] \in Playlists
    BY ElementOfSeq DEF TypeOK
  <2> QED BY <2>1 DEF Playlists
<1> QED BY <1>1, <1>2

LEMMA PackageIds ==
    ASSUME TypeOK
    PROVE  TrackIds \subseteq Essences /\ CplIdsInPackage \subseteq CplIds
BY ItemTypes DEF TrackIds, CplIdsInPackage, Elements

LEMMA AssetListType ==
    ASSUME TypeOK
    PROVE  AssetList \in AssetMaps
<1>1. \A i \in 1..Len(tracks) : tracks[i].id \in Essences /\ tracks[i].path[2] \in Names
  BY ItemTypes, PathsArePairs
<1>2. \A i \in 1..Len(cpls) : cpls[i].id \in CplIds
  BY ItemTypes
<1>3. Len(tracks) \in Nat /\ Len(cpls) \in Nat
  BY DEF TypeOK
<1>4. [i \in 1..Len(tracks) |-> [id |-> tracks[i].id, name |-> tracks[i].path[2]]]
         \in Seq([id : Essences, name : Names])
  BY <1>1, <1>3, FunctionIsSequence
<1>5. [i \in 1..Len(cpls) |-> cpls[i].id] \in Seq(CplIds)
  BY <1>2, <1>3, FunctionIsSequence
<1> QED BY <1>4, <1>5 DEF AssetList, AssetMaps

-----------------------------------------------------------------------------
(* Types, paths and the disk. *)

LEMMA StoreInit == Init => StoreInv
<1> SUFFICES ASSUME Init PROVE StoreInv
  OBVIOUS
<1>1. tracks = <<>> /\ Len(tracks) = 0 /\ 1..0 = {}
  BY DEF Init
<1>2. TypeOK
  <2>1. tracks \in Seq(Tracks) /\ cpls \in Seq(Playlists)
    BY DEF Init
  <2>2. alive \in BOOLEAN /\ open \in BOOLEAN
    BY DEF Init
  <2>3. /\ disk \in [Paths -> Essences \cup {Absent}]
        /\ mapFile \in [PackageDirs -> AssetMaps \cup {Absent, Broken}]
        /\ pklFile \in [PackageDirs -> (SUBSET Ids) \cup {Absent, Broken}]
        /\ cplFile \in [PackageDirs \X CplIds -> (SUBSET Essences) \cup {Absent, Broken}]
    BY Zenon DEF Init
  <2>4. rows \in [Ids -> Nat] /\ pc = "idle" /\ pc \in Phases /\ k \in Nat \ {0}
    BY DEF Init, Phases
  <2> QED BY <2>1, <2>2, <2>3, <2>4 DEF Init, TypeOK
<1>3. OneCopy
  BY DEF Init, OneCopy
<1>4. PathsCurrent /\ SharedPathsInside
  BY <1>1 DEF PathsCurrent, SharedPathsInside, Elements
<1> QED BY <1>2, <1>3, <1>4 DEF StoreInv

(* A step that leaves the track files and the tracks alone. *)
LEMMA CoreUnchanged ==
    ASSUME StoreInv, UNCHANGED <<disk, produced, dir, tracks>>
    PROVE  OneCopy' /\ PathsCurrent' /\ SharedPathsInside'
BY DEF StoreInv, OneCopy, PathsCurrent, SharedPathsInside, Elements

(* A step that closes the package. *)
LEMMA ClosingKeepsStore ==
    ASSUME StoreInv, UNCHANGED <<disk, produced>>, NEW b \in BOOLEAN, EmptyPackage(b)
    PROVE  /\ OneCopy' /\ PathsCurrent' /\ SharedPathsInside'
           /\ open' = b /\ dir' = NoDir /\ tracks' = <<>> /\ tracks' \in Seq(Tracks)
           /\ cpls' = <<>> /\ cpls' \in Seq(Playlists) /\ rows' \in [Ids -> Nat]
<1>1. open' = b /\ dir' = NoDir /\ tracks' = <<>> /\ cpls' = <<>> /\ rows' \in [Ids -> Nat]
  BY DEF EmptyPackage
<1>2. tracks' \in Seq(Tracks) /\ cpls' \in Seq(Playlists) /\ Len(tracks') = 0
  BY <1>1
<1>3. PathsCurrent' /\ SharedPathsInside'
  BY <1>2 DEF PathsCurrent, SharedPathsInside, Elements
<1>4. OneCopy'
  BY DEF StoreInv, OneCopy
<1> QED BY <1>1, <1>2, <1>3, <1>4

LEMMA EncodeKeepsStore ==
    ASSUME StoreInv, NEW e \in Essences, NEW p \in OutputDirs \X Names, Encode(e, p)
    PROVE  StoreInv'
<1> USE DEF Encode, StoreInv
<1>1. p \in Paths /\ disk \in [Paths -> Essences \cup {Absent}]
  BY DEF Paths, TypeOK
<1>2. TypeOK'
  BY <1>1 DEF TypeOK, packageVars, saveVars, Phases
<1>3. disk'[p] = e /\ \A r \in Paths : r # p => disk'[r] = disk[r]
  BY <1>1
<1>4. e # Absent
  BY FilesAssumption
<1>5. OneCopy'
  <2>1. \A q, r \in Paths : disk'[q] = disk'[r] /\ disk'[q] # Absent => q = r
    BY <1>1, <1>3, <1>4 DEF OneCopy
  <2>2. \A q \in Paths : disk'[q] # Absent => disk'[q] \in produced'
    BY <1>1, <1>3 DEF OneCopy
  <2>3. ASSUME NEW f \in produced' PROVE \E q \in Paths : disk'[q] = f
    <3>1. CASE f = e
      BY <1>1, <1>3, <3>1
    <3>2. CASE f \in produced
      <4>1. PICK q \in Paths : disk[q] = f
        BY <3>2 DEF OneCopy
      <4>2. q # p
        BY <3>2, <4>1, FilesAssumption DEF TypeOK
      <4> QED BY <1>3, <4>1, <4>2
    <3> QED BY <3>1, <3>2
  <2> QED BY <2>1, <2>2, <2>3 DEF OneCopy
<1>6. PathsCurrent'
  <2>1. \A t \in Elements(tracks) : t \in Tracks
    BY ElementOfSeq DEF Elements, TypeOK
  <2>2. \A t \in Elements(tracks) : disk[t.path] # Absent /\ t.path \in Paths
    BY <2>1, FilesAssumption DEF PathsCurrent, Tracks
  <2> QED BY <1>1, <1>3, <2>2 DEF PathsCurrent, packageVars, Elements
<1>7. SharedPathsInside'
  BY DEF SharedPathsInside, packageVars
<1> QED BY <1>2, <1>5, <1>6, <1>7

LEMMA OpenKeepsStore ==
    ASSUME StoreInv, NEW d \in PackageDirs, OpenFile(d)
    PROVE  StoreInv'
<1> USE DEF OpenFile, StoreInv
<1>1. /\ tracks' \in Seq(Tracks) /\ cpls' \in Seq(Playlists)
      /\ \A i \in 1..Len(tracks') : tracks'[i].path[1] = d /\ disk[tracks'[i].path] = tracks'[i].id
  BY LoadedTypes
<1>2. rows' \in [Ids -> Nat]
  BY DEF AppendMissing
<1>3. TypeOK'
  BY <1>1, <1>2 DEF TypeOK, diskVars, saveVars, Idle
<1>4. OneCopy'
  BY DEF OneCopy, diskVars
<1>5. PathsCurrent' /\ SharedPathsInside'
  BY <1>1 DEF PathsCurrent, SharedPathsInside, Elements, diskVars
<1> QED BY <1>3, <1>4, <1>5

LEMMA AddKeepsStore ==
    ASSUME StoreInv, NEW p \in Paths, AddTrackFile(p)
    PROVE  StoreInv'
<1> USE DEF AddTrackFile, StoreInv
<1> DEFINE t == [id |-> disk[p], path |-> p]
<1>1. t \in Tracks /\ tracks \in Seq(Tracks)
  BY DEF TypeOK, Tracks
<1>2. /\ tracks' \in Seq(Tracks) /\ Len(tracks') = Len(tracks) + 1 /\ Len(tracks) \in Nat
      /\ tracks'[Len(tracks) + 1] = t
      /\ \A i \in 1..Len(tracks) : tracks'[i] = tracks[i]
  BY <1>1
<1>3. \A i \in 1..Len(tracks) : tracks[i].path # p
  BY DEF HasTrackFile, Elements
<1>4. rows' \in [Ids -> Nat]
  BY DEF AppendMissing, TypeOK
<1>5. TypeOK'
  BY <1>2, <1>4 DEF TypeOK, diskVars, saveVars, Idle
<1>6. OneCopy'
  BY DEF OneCopy, diskVars
<1>7. PathsCurrent'
  <2> SUFFICES ASSUME NEW i \in 1..Len(tracks') PROVE disk[tracks'[i].path] = tracks'[i].id
    BY DEF PathsCurrent, Elements, diskVars
  <2>1. CASE i = Len(tracks) + 1
    BY <2>1, <1>2
  <2>2. CASE i \in 1..Len(tracks)
    BY <2>2, <1>2 DEF PathsCurrent, Elements
  <2> QED BY <1>2, <2>1, <2>2
<1>8. SharedPathsInside'
  <2> SUFFICES ASSUME NEW i \in 1..Len(tracks'), NEW j \in 1..Len(tracks'),
                      i # j, tracks'[i].path = tracks'[j].path
               PROVE  tracks'[i].path[1] = dir'
    BY DEF SharedPathsInside
  <2>1. i \in 1..Len(tracks) /\ j \in 1..Len(tracks)
    BY <1>2, <1>3
  <2> QED BY <1>2, <2>1 DEF SharedPathsInside
<1> QED BY <1>5, <1>6, <1>7, <1>8

(* A save step that renames: what was at the source is at the target, and  *)
(* no other track of the package was at the source.                        *)
LEMMA MoveKeepsStore ==
    ASSUME StoreInv, MoveTrack
    PROVE  /\ StoreInv'
           /\ tracks[k].path \in Paths /\ Target(tracks[k]) \in Paths
           /\ tracks[k].path[1] # dir
           /\ disk[Target(tracks[k])] = Absent
           /\ \A r \in Paths : r # tracks[k].path /\ r # Target(tracks[k]) => disk'[r] = disk[r]
           /\ Len(tracks') = Len(tracks) /\ \A i \in 1..Len(tracks) : tracks'[i].id = tracks[i].id
<1> DEFINE from == tracks[k].path
           to == Target(tracks[k])
<1>1. k \in 1..Len(tracks) /\ tracks \in Seq(Tracks) /\ tracks[k] \in Tracks
  BY ElementOfSeq DEF StoreInv, TypeOK, MoveTrack, MustMove, Copying
<1>2. pc \in {"video", "audio"} /\ dir \in PackageDirs /\ disk[to] = Absent
  BY DEF StoreInv, TypeOK, MoveTrack, MustMove, Copying
<1>3. from \in Paths /\ to \in Paths /\ to = <<dir, from[2]>>
  BY <1>1, <1>2, PathsArePairs DEF Target, Tracks
<1>4. disk[from] = tracks[k].id /\ disk[from] \in Essences /\ disk[from] # Absent
  BY <1>1, FilesAssumption DEF StoreInv, PathsCurrent, Elements, Tracks
<1>5. from # to
  BY <1>2, <1>4
<1>6. from[1] # dir
  BY <1>3, <1>5, PathsArePairs
<1>7. disk \in [Paths -> Essences \cup {Absent}]
  BY DEF StoreInv, TypeOK
<1>8. /\ disk' \in [Paths -> Essences \cup {Absent}]
      /\ disk'[from] = Absent /\ disk'[to] = disk[from]
      /\ \A r \in Paths : r # from /\ r # to => disk'[r] = disk[r]
  BY <1>3, <1>4, <1>5, <1>7 DEF MoveTrack, Rename
<1>9. /\ tracks' \in Seq(Tracks) /\ Len(tracks') = Len(tracks)
      /\ tracks'[k] = [tracks[k] EXCEPT !.path = to]
      /\ \A i \in 1..Len(tracks) : i # k => tracks'[i] = tracks[i]
  <2>1. tracks' = [tracks EXCEPT ![k] = [tracks[k] EXCEPT !.path = to]]
    BY DEF MoveTrack, SetPath
  <2>2. [tracks[k] EXCEPT !.path = to] \in Tracks
    BY <1>1, <1>3 DEF Tracks
  <2> QED BY <1>1, <2>1, <2>2
<1>10. tracks'[k].id = tracks[k].id /\ tracks'[k].path = to
  BY <1>1, <1>9 DEF Tracks
<1>11. ASSUME NEW i \in 1..Len(tracks), i # k
       PROVE  tracks[i].path \in Paths /\ tracks[i].path # from /\ tracks[i].path # to
  <2>1. tracks[i] \in Tracks
    BY <1>1, ElementOfSeq
  <2>2. tracks[i].path # from
    BY <1>1, <1>6, <1>11 DEF StoreInv, SharedPathsInside
  <2>3. disk[tracks[i].path] # Absent
    BY <2>1, FilesAssumption DEF StoreInv, PathsCurrent, Elements, Tracks
  <2> QED BY <1>2, <2>1, <2>2, <2>3 DEF Tracks
<1>12. TypeOK'
  BY <1>8, <1>9, <1>2, <1>1 DEF StoreInv, TypeOK, MoveTrack
<1>13. OneCopy'
  <2>1. \A q, r \in Paths : disk'[q] = disk'[r] /\ disk'[q] # Absent => q = r
    BY <1>3, <1>4, <1>8 DEF StoreInv, OneCopy
  <2>2. \A q \in Paths : disk'[q] # Absent => disk'[q] \in produced'
    BY <1>3, <1>4, <1>8 DEF StoreInv, OneCopy, MoveTrack
  <2>3. ASSUME NEW f \in produced' PROVE \E q \in Paths : disk'[q] = f
    <3>1. PICK q \in Paths : disk[q] = f
      BY DEF StoreInv, OneCopy, MoveTrack
    <3>2. f # Absent
      BY FilesAssumption DEF StoreInv, TypeOK, MoveTrack
    <3>3. q # to
      BY <1>2, <3>1, <3>2
    <3> QED BY <1>3, <1>8, <3>1, <3>3
  <2> QED BY <2>1, <2>2, <2>3 DEF OneCopy
<1>14. PathsCurrent'
  <2> SUFFICES ASSUME NEW i \in 1..Len(tracks') PROVE disk'[tracks'[i].path] = tracks'[i].id
    BY DEF PathsCurrent, Elements
  <2>1. CASE i = k
    BY <1>4, <1>8, <1>10, <2>1
  <2>2. CASE i # k
    <3>1. tracks'[i] = tracks[i] /\ disk[tracks[i].path] = tracks[i].id
      BY <1>9, <2>2 DEF StoreInv, PathsCurrent, Elements
    <3> QED BY <1>8, <1>9, <1>11, <2>2, <3>1
  <2> QED BY <2>1, <2>2
<1>15. SharedPathsInside'
  <2> SUFFICES ASSUME NEW i \in 1..Len(tracks'), NEW j \in 1..Len(tracks'),
                      i # j, tracks'[i].path = tracks'[j].path
               PROVE  tracks'[i].path[1] = dir'
    BY DEF SharedPathsInside
  <2>1. dir' = dir
    BY DEF MoveTrack
  <2>2. CASE i = k \/ j = k
    BY <1>3, <1>10, <2>1, <2>2
  <2>3. CASE i # k /\ j # k
    BY <1>9, <2>1, <2>3 DEF StoreInv, SharedPathsInside
  <2> QED BY <2>2, <2>3
<1>16. \A i \in 1..Len(tracks) : tracks'[i].id = tracks[i].id
  BY <1>9, <1>10
<1> QED BY <1>2, <1>3, <1>6, <1>8, <1>9, <1>12, <1>13, <1>14, <1>15, <1>16 DEF StoreInv

LEMMA AfterIsPhase == \A phase \in Phases : After(phase) \in Phases
BY DEF After, Phases

(* The steps of the main window that touch neither tracks nor files. *)
LEMMA EditsKeepStore ==
    ASSUME StoreInv,
           \/ \E c \in CplIds : NewCompositionPlaylist(c)
           \/ \E j \in 1..Len(cpls), e \in Essences : EditPlaylist(j, e)
           \/ SaveFile
    PROVE  StoreInv'
<1>1. CASE \E c \in CplIds : NewCompositionPlaylist(c)
  <2> PICK c \in CplIds : NewCompositionPlaylist(c)
    BY <1>1
  <2> USE DEF NewCompositionPlaylist
  <2>1. cpls' \in Seq(Playlists)
    BY DEF StoreInv, TypeOK, Playlists
  <2>2. rows' \in [Ids -> Nat]
    BY DEF StoreInv, TypeOK, Ids
  <2>3. TypeOK'
    BY <2>1, <2>2 DEF StoreInv, TypeOK, diskVars, saveVars
  <2> QED BY <2>3, CoreUnchanged DEF StoreInv, diskVars
<1>2. CASE \E j \in 1..Len(cpls), e \in Essences : EditPlaylist(j, e)
  <2> PICK j \in 1..Len(cpls), e \in Essences : EditPlaylist(j, e)
    BY <1>2
  <2> USE DEF EditPlaylist
  <2>1. cpls[j] \in Playlists /\ cpls \in Seq(Playlists)
    BY ElementOfSeq DEF StoreInv, TypeOK
  <2> DEFINE refs == IF e \in cpls[j].refs THEN cpls[j].refs \ {e} ELSE cpls[j].refs \cup {e}
  <2>2. [cpls[j] EXCEPT !.refs = refs] \in Playlists
    BY <2>1 DEF Playlists
  <2>3. cpls' = [cpls EXCEPT ![j] = [cpls[j] EXCEPT !.refs = refs]]
    OBVIOUS
  <2>4. cpls' \in Seq(Playlists)
    BY <2>1, <2>2, <2>3
  <2>5. TypeOK'
    BY <2>4 DEF StoreInv, TypeOK, diskVars, saveVars
  <2> QED BY <2>5, CoreUnchanged DEF StoreInv, diskVars
<1>3. CASE SaveFile
  <2> USE <1>3 DEF SaveFile
  <2>1. dir' \in dirs' /\ dirs' \subseteq PackageDirs /\ dir' # NoDir
    BY DirsAssumption DEF StoreInv, TypeOK
  <2>2. pc' \in Phases /\ k' \in Nat \ {0}
    BY DEF Phases
  <2>3. TypeOK'
    BY <2>1, <2>2 DEF StoreInv, TypeOK, Idle
  <2>4. OneCopy' /\ PathsCurrent'
    BY DEF StoreInv, OneCopy, PathsCurrent, Elements
  <2>5. SharedPathsInside'
    <3> SUFFICES ASSUME NEW i \in 1..Len(tracks), NEW j \in 1..Len(tracks),
                        i # j, tracks[i].path = tracks[j].path
                 PROVE  tracks[i].path[1] = dir'
      BY DEF SharedPathsInside
    <3>1. tracks[i].path[1] = dir
      BY DEF StoreInv, SharedPathsInside
    <3>2. tracks[i] \in Tracks
      BY ElementOfSeq DEF StoreInv, TypeOK
    <3>3. dir # NoDir
      BY <3>1, <3>2, PathsArePairs, DirsAssumption DEF Tracks
    <3> QED BY <3>1, <3>3
  <2> QED BY <2>3, <2>4, <2>5 DEF StoreInv
<1> QED BY <1>1, <1>2, <1>3

FileTypes ==
    /\ mapFile \in [PackageDirs -> AssetMaps \cup {Absent, Broken}]
    /\ pklFile \in [PackageDirs -> (SUBSET Ids) \cup {Absent, Broken}]
    /\ cplFile \in [PackageDirs \X CplIds -> (SUBSET Essences) \cup {Absent, Broken}]

LEMMA ClosedKeepsStore ==
    ASSUME StoreInv, FileTypes', NEW b \in BOOLEAN, EmptyPackage(b),
           alive' \in BOOLEAN, pc' = "idle", k' \in Nat \ {0}, UNCHANGED <<disk, dirs, produced>>
    PROVE  StoreInv'
<1>1. /\ OneCopy' /\ PathsCurrent' /\ SharedPathsInside'
      /\ open' = b /\ dir' = NoDir /\ tracks' = <<>> /\ tracks' \in Seq(Tracks)
      /\ cpls' = <<>> /\ cpls' \in Seq(Playlists) /\ rows' \in [Ids -> Nat]
  BY ClosingKeepsStore
<1>2. open' \in BOOLEAN
  BY <1>1
<1>3. disk' \in [Paths -> Essences \cup {Absent}] /\ dirs' \subseteq PackageDirs /\ produced' \subseteq Essences
  BY DEF StoreInv, TypeOK
<1>4. pc' \in Phases
  BY DEF Phases
<1>5. TypeOK'
  BY <1>1, <1>2, <1>3, <1>4 DEF TypeOK, FileTypes
<1> QED BY <1>1, <1>5 DEF StoreInv

LEMMA ClosingStepsKeepStore ==
    ASSUME StoreInv,
           \/ NewFile \/ \E d \in PackageDirs : OpenFileFails(d)
           \/ SaveWithoutPackage \/ Killed
    PROVE  StoreInv'
<1>1. PICK b \in BOOLEAN : EmptyPackage(b)
  BY DEF NewFile, OpenFileFails, SaveWithoutPackage, Killed, Dies
<1>2. UNCHANGED diskVars
  BY DEF NewFile, OpenFileFails, SaveWithoutPackage, Killed
<1>3. alive' \in BOOLEAN
  BY Zenon DEF NewFile, OpenFileFails, SaveWithoutPackage, Killed, Dies, StoreInv, TypeOK
<1>5. pc' = "idle" /\ k' \in Nat \ {0}
  <2>1. CASE NewFile \/ \E d \in PackageDirs : OpenFileFails(d)
    <3>1. pc = "idle" /\ pc' = pc /\ k' = k
      BY <2>1 DEF NewFile, OpenFileFails, Idle, saveVars
    <3>2. k \in Nat \ {0}
      BY DEF StoreInv, TypeOK
    <3> QED BY <3>1, <3>2
  <2>2. CASE SaveWithoutPackage \/ Killed
    <3>1. pc' = "idle" /\ k' = 1
      BY <2>2 DEF SaveWithoutPackage, Killed, Dies
    <3>2. 1 \in Nat \ {0}
      OBVIOUS
    <3> QED BY <3>1, <3>2
  <2> QED BY <2>1, <2>2
<1>4. FileTypes'
  BY <1>2 DEF StoreInv, TypeOK, FileTypes, diskVars
<1> QED BY <1>1, <1>2, <1>3, <1>4, <1>5, ClosedKeepsStore DEF diskVars

LEMMA SaveStepsKeepStore ==
    ASSUME StoreInv, SaveStep
    PROVE  StoreInv'
<1> USE DEF StoreInv
<1>1. CASE NextPhase \/ KeepTrack
  <2>1. TypeOK'
    BY <1>1, AfterIsPhase DEF NextPhase, KeepTrack, Copying, TypeOK, diskVars, packageVars
  <2> QED BY <1>1, <2>1, CoreUnchanged DEF NextPhase, KeepTrack, diskVars, packageVars
<1>2. CASE MoveTrack
  BY <1>2, MoveKeepsStore
<1>3. CASE RenameFails
  <2>1. CASE Dies
    <3>1. alive' = FALSE /\ pc' = "idle" /\ k' = 1 /\ UNCHANGED diskVars /\ EmptyPackage(FALSE)
      BY <1>3, <2>1 DEF RenameFails, Dies
    <3>2. FileTypes'
      BY <3>1 DEF TypeOK, FileTypes, diskVars
    <3>3. alive' \in BOOLEAN /\ FALSE \in BOOLEAN
      BY <3>1, Zenon
    <3>4. k' \in Nat \ {0}
      BY <3>1
    <3> QED BY <3>1, <3>2, <3>3, <3>4, ClosedKeepsStore DEF diskVars
  <2>2. CASE pc' = "idle" /\ k' = 1 /\ UNCHANGED <<alive, packageVars>>
    <3>1. UNCHANGED diskVars
      BY <1>3 DEF RenameFails
    <3>2. TypeOK'
      BY <2>2, <3>1 DEF TypeOK, diskVars, packageVars, Phases
    <3> QED BY <2>2, <3>1, <3>2, CoreUnchanged DEF diskVars, packageVars
  <2> QED BY <1>3, <2>1, <2>2 DEF RenameFails
<1>4. CASE WriteCpl \/ WriteCplRefused
  <2>1. WritingCpl => /\ cpls[k] \in Playlists /\ dir \in PackageDirs
                      /\ <<dir, cpls[k].id>> \in PackageDirs \X CplIds
    <3> SUFFICES ASSUME WritingCpl
                 PROVE  /\ cpls[k] \in Playlists /\ dir \in PackageDirs
                        /\ <<dir, cpls[k].id>> \in PackageDirs \X CplIds
      OBVIOUS
    <3>1. k \in 1..Len(cpls) /\ cpls \in Seq(Playlists)
      BY DEF WritingCpl, TypeOK
    <3>2. cpls[k] \in Playlists
      BY <3>1, ElementOfSeq
    <3>3. dir \in PackageDirs
      BY DEF WritingCpl, TypeOK
    <3> QED BY <3>2, <3>3 DEF Playlists
  <2>2. cplFile' \in [PackageDirs \X CplIds -> (SUBSET Essences) \cup {Absent, Broken}]
    <3>1. CASE WriteCpl
      <4>1. cpls[k].refs \in SUBSET Essences
        BY <3>1, <2>1 DEF WriteCpl, Playlists
      <4> QED BY <3>1, <4>1 DEF WriteCpl, TypeOK
    <3>2. CASE WriteCplRefused
      BY <3>2 DEF WriteCplRefused, TypeOK, diskVars
    <3> QED BY <1>4, <3>1, <3>2
  <2>3. UNCHANGED <<disk, mapFile, pklFile, dirs, produced, alive, packageVars>>
    BY <1>4 DEF WriteCpl, WriteCplRefused, diskVars
  <2>4. pc' \in {pc, "idle"} /\ k' \in Nat \ {0}
    BY <1>4 DEF WriteCpl, WriteCplRefused, TypeOK
  <2>5. TypeOK'
    BY <2>2, <2>3, <2>4 DEF TypeOK, packageVars, Phases
  <2> QED BY <2>3, <2>5, CoreUnchanged DEF packageVars
<1>5. CASE WritePackageList \/ WriteAssetMap
  <2>1. dir \in PackageDirs /\ pc \in {"pkl", "map"}
    BY <1>5 DEF WritePackageList, WriteAssetMap, TypeOK
  <2>2. TrackIds \cup CplIdsInPackage \in SUBSET Ids
    BY PackageIds DEF Ids
  <2>3. AssetList \in AssetMaps
    BY AssetListType
  <2>4. /\ pklFile' \in [PackageDirs -> (SUBSET Ids) \cup {Absent, Broken}]
        /\ mapFile' \in [PackageDirs -> AssetMaps \cup {Absent, Broken}]
    BY <1>5, <2>1, <2>2, <2>3 DEF WritePackageList, WriteAssetMap, TypeOK
  <2>5. UNCHANGED <<disk, cplFile, dirs, produced, alive, packageVars, k>> /\ pc' \in Phases
    BY <1>5, AfterIsPhase DEF WritePackageList, WriteAssetMap, TypeOK
  <2>6. TypeOK'
    BY <2>1, <2>4, <2>5 DEF TypeOK, packageVars
  <2> QED BY <2>5, <2>6, CoreUnchanged DEF packageVars
<1>6. CASE WriteFails
  <2>1. alive' = FALSE /\ pc' = "idle" /\ k' = 1 /\ EmptyPackage(FALSE) /\ UNCHANGED <<disk, dirs, produced>>
    BY <1>6 DEF WriteFails, Dies
  <2>2. FileTypes'
    <3>1. FileTypes
      BY DEF TypeOK, FileTypes
    <3>2. CASE cplFile' = [cplFile EXCEPT ![<<dir, cpls[k].id>>] = Broken] /\ UNCHANGED <<pklFile, mapFile>>
      BY <3>1, <3>2 DEF FileTypes
    <3>3. CASE pklFile' = [pklFile EXCEPT ![dir] = Broken] /\ UNCHANGED <<cplFile, mapFile>>
      BY <3>1, <3>3 DEF FileTypes
    <3>4. CASE mapFile' = [mapFile EXCEPT ![dir] = Broken] /\ UNCHANGED <<cplFile, pklFile>>
      BY <3>1, <3>4 DEF FileTypes
    <3> QED BY <1>6, <3>2, <3>3, <3>4 DEF WriteFails
  <2>3. alive' \in BOOLEAN /\ FALSE \in BOOLEAN
    BY <2>1, Zenon
  <2>4. k' \in Nat \ {0}
    BY <2>1
  <2> QED BY <2>1, <2>2, <2>3, <2>4, ClosedKeepsStore
<1> QED BY <1>1, <1>2, <1>3, <1>4, <1>5, <1>6 DEF SaveStep

LEMMA StoreNext == StoreInv /\ [Next]_vars => StoreInv'
<1> SUFFICES ASSUME StoreInv, [Next]_vars PROVE StoreInv'
  OBVIOUS
<1>1. CASE UNCHANGED vars
  BY <1>1, CoreUnchanged DEF StoreInv, TypeOK, vars, diskVars, packageVars, saveVars
<1>2. CASE Restart
  <2>1. TypeOK'
    BY <1>2 DEF StoreInv, TypeOK, Restart, diskVars, packageVars, saveVars
  <2> QED BY <1>2, <2>1, CoreUnchanged DEF StoreInv, Restart, diskVars, packageVars
<1> QED
  BY <1>1, <1>2, EncodeKeepsStore, OpenKeepsStore, AddKeepsStore, EditsKeepStore,
     ClosingStepsKeepStore, SaveStepsKeepStore DEF Next

(* The inductive invariant of the store. *)
THEOREM StoreCorrect == Spec => []StoreInv
BY StoreInit, StoreNext, PTL DEF Spec

(* Every variable keeps its type; in particular a save is under way only   *)
(* in a running application with a package that has a directory.           *)
THEOREM TypeCorrect == Spec => []TypeOK
<1>1. StoreInv => TypeOK
  BY DEF StoreInv
<1> QED BY <1>1, StoreCorrect, PTL

(* No save, failed save or crash loses or duplicates a track file. *)
THEOREM EssencesNeverLost == Spec => []EssencesKept
<1>1. StoreInv => EssencesKept
  BY FilesAssumption DEF StoreInv, OneCopy, EssencesKept, TypeOK
<1> QED BY <1>1, StoreCorrect, PTL

(* The tracks in memory know where their files are, in every state. *)
THEOREM PathsAlwaysCurrent == Spec => []PathsCurrent
<1>1. StoreInv => PathsCurrent
  BY DEF StoreInv
<1> QED BY <1>1, StoreCorrect, PTL

-----------------------------------------------------------------------------
(* The table. *)

(* A step that keeps the UUIDs of the package and the rows of the table. *)
LEMMA TableUnchanged ==
    ASSUME TableShowsPackage, UNCHANGED rows,
           TrackIds' = TrackIds, CplIdsInPackage' = CplIdsInPackage
    PROVE  TableShowsPackage'
BY DEF TableShowsPackage

LEMMA SameItemsSameIds ==
    ASSUME UNCHANGED <<tracks, cpls>>
    PROVE  TrackIds' = TrackIds /\ CplIdsInPackage' = CplIdsInPackage
BY DEF TrackIds, CplIdsInPackage, Elements

LEMMA ClosingKeepsTable ==
    ASSUME NEW b, EmptyPackage(b)
    PROVE  TableShowsPackage'
<1>1. tracks' = <<>> /\ cpls' = <<>> /\ rows' = [i \in Ids |-> 0]
  BY DEF EmptyPackage
<1>2. TrackIds' = {} /\ CplIdsInPackage' = {}
  BY <1>1 DEF TrackIds, CplIdsInPackage, Elements
<1> QED BY <1>1, <1>2 DEF TableShowsPackage

LEMMA TableNext == StoreInv /\ TableShowsPackage /\ [Next]_vars => TableShowsPackage'
<1> SUFFICES ASSUME StoreInv, TableShowsPackage, [Next]_vars PROVE TableShowsPackage'
  OBVIOUS
<1>1. TrackIds \subseteq Essences /\ CplIdsInPackage \subseteq CplIds
  BY PackageIds DEF StoreInv
<1>2. CASE \/ UNCHANGED vars \/ Restart \/ SaveFile
           \/ \E e \in Essences, p \in OutputDirs \X Names : Encode(e, p)
           \/ NextPhase \/ KeepTrack \/ WriteCpl \/ WriteCplRefused
           \/ WritePackageList \/ WriteAssetMap
  <2>1. UNCHANGED <<tracks, cpls, rows>>
    BY <1>2 DEF vars, Restart, SaveFile, Encode, NextPhase, KeepTrack, WriteCpl, WriteCplRefused,
                WritePackageList, WriteAssetMap, packageVars
  <2> QED BY <2>1, SameItemsSameIds, TableUnchanged
<1>3. CASE \/ NewFile \/ \E d \in PackageDirs : OpenFileFails(d)
           \/ SaveWithoutPackage \/ Killed \/ WriteFails
  BY <1>3, ClosingKeepsTable DEF NewFile, OpenFileFails, SaveWithoutPackage, Killed, WriteFails, Dies
<1>4. CASE RenameFails
  <2>1. CASE Dies
    BY <2>1, ClosingKeepsTable DEF Dies
  <2>2. CASE UNCHANGED packageVars
    BY <2>2, SameItemsSameIds, TableUnchanged DEF packageVars
  <2> QED BY <1>4, <2>1, <2>2 DEF RenameFails
<1>5. CASE \E d \in PackageDirs : OpenFile(d)
  BY <1>5 DEF OpenFile, AppendMissing, TableShowsPackage
<1>6. CASE \E p \in Paths : AddTrackFile(p)
  <2> PICK p \in Paths : AddTrackFile(p)
    BY <1>6
  <2>1. CplIdsInPackage' = CplIdsInPackage
    BY DEF AddTrackFile, CplIdsInPackage, Elements
  <2>2. TrackIds \subseteq TrackIds'
    <3>1. tracks \in Seq(Tracks) /\ tracks' = Append(tracks, [id |-> disk[p], path |-> p])
      BY DEF StoreInv, TypeOK, AddTrackFile
    <3>2. Len(tracks') = Len(tracks) + 1 /\ Len(tracks) \in Nat
      BY <3>1
    <3>3. \A i \in 1..Len(tracks) : i \in 1..Len(tracks') /\ tracks'[i] = tracks[i]
      BY <3>1, <3>2
    <3> QED BY <3>3 DEF TrackIds, Elements
  <2>3. \A i \in Ids : rows'[i] = IF i \in TrackIds' /\ rows[i] = 0 THEN 1 ELSE rows[i]
    BY DEF AddTrackFile, AppendMissing
  <2> QED BY <2>1, <2>2, <2>3 DEF TableShowsPackage
<1>7. CASE \E c \in CplIds : NewCompositionPlaylist(c)
  <2> PICK c \in CplIds : NewCompositionPlaylist(c)
    BY <1>7
  <2>1. TrackIds' = TrackIds
    BY DEF NewCompositionPlaylist, TrackIds, Elements
  <2>2. CplIdsInPackage' = CplIdsInPackage \cup {c}
    <3>1. cpls \in Seq(Playlists) /\ cpls' = Append(cpls, [id |-> c, refs |-> {}])
      BY DEF StoreInv, TypeOK, NewCompositionPlaylist
    <3>2. Len(cpls') = Len(cpls) + 1 /\ Len(cpls) \in Nat
      BY <3>1
    <3>3. 1..Len(cpls') = 1..Len(cpls) \cup {Len(cpls')}
      BY <3>2
    <3>4. /\ cpls'[Len(cpls')] = [id |-> c, refs |-> {}]
          /\ \A i \in 1..Len(cpls) : cpls'[i] = cpls[i]
      BY <3>1, <3>2
    <3> QED BY <3>3, <3>4 DEF CplIdsInPackage, Elements
  <2>3. rows \in [Ids -> Nat] /\ c \in Ids /\ c \notin TrackIds /\ c \notin CplIdsInPackage
    BY <1>1, IdsAssumption DEF StoreInv, TypeOK, Ids, NewCompositionPlaylist
  <2>4. rows'[c] = 1 /\ \A i \in Ids : i # c => rows'[i] = rows[i]
    BY <2>3 DEF NewCompositionPlaylist, TableShowsPackage
  <2> QED BY <2>1, <2>2, <2>4 DEF TableShowsPackage
<1>8. CASE \E j \in 1..Len(cpls), e \in Essences : EditPlaylist(j, e)
  <2> PICK j \in 1..Len(cpls), e \in Essences : EditPlaylist(j, e)
    BY <1>8
  <2>1. UNCHANGED rows /\ TrackIds' = TrackIds
    BY DEF EditPlaylist, TrackIds, Elements
  <2>2. CplIdsInPackage' = CplIdsInPackage
    <3>1. cpls \in Seq(Playlists) /\ cpls[j] \in Playlists
      BY ElementOfSeq DEF StoreInv, TypeOK
    <3>2. /\ Len(cpls') = Len(cpls) /\ \A i \in 1..Len(cpls) : i # j => cpls'[i] = cpls[i]
      BY <3>1 DEF EditPlaylist
    <3>3. cpls'[j].id = cpls[j].id
      BY <3>1 DEF EditPlaylist, Playlists
    <3> QED BY <3>2, <3>3 DEF CplIdsInPackage, Elements
  <2> QED BY <2>1, <2>2, TableUnchanged
<1>9. CASE MoveTrack
  <2>1. Len(tracks') = Len(tracks) /\ \A i \in 1..Len(tracks) : tracks'[i].id = tracks[i].id
    BY <1>9, MoveKeepsStore
  <2>2. TrackIds' = TrackIds
    BY <2>1 DEF TrackIds, Elements
  <2>3. UNCHANGED rows /\ CplIdsInPackage' = CplIdsInPackage
    BY <1>9 DEF MoveTrack, CplIdsInPackage, Elements
  <2> QED BY <2>2, <2>3, TableUnchanged
<1> QED BY <1>2, <1>3, <1>4, <1>5, <1>6, <1>7, <1>8, <1>9 DEF Next, SaveStep

(* The table shows what is in the package, whatever was opened or added. *)
THEOREM TableAlwaysRight == Spec => []TableShowsPackage
<1>1. Init => TableShowsPackage
  <2> SUFFICES ASSUME Init PROVE TableShowsPackage
    OBVIOUS
  <2>1. TrackIds = {} /\ CplIdsInPackage = {}
    BY DEF Init, TrackIds, CplIdsInPackage, Elements
  <2> QED BY <2>1 DEF Init, TableShowsPackage
<1> QED BY <1>1, StoreCorrect, TableNext, PTL DEF Spec

-----------------------------------------------------------------------------
(* What an interrupted save leaves. *)

(* A step that keeps the XML files and the track files of a directory. *)
LEMMA DirectoryUnchanged ==
    ASSUME TypeOK, NEW d \in PackageDirs, Loads(d),
           UNCHANGED <<mapFile, pklFile, cplFile>>,
           \A r \in Paths : r[1] = d /\ disk[r] # Absent => disk'[r] = disk[r]
    PROVE  Loads(d)' /\ LoadedTracks(d)' = LoadedTracks(d) /\ LoadedCpls(d)' = LoadedCpls(d)
<1> DEFINE ts == mapFile[d].tracks
<1>1. ts \in Seq([id : Essences, name : Names])
  BY DEF TypeOK, Loads, AssetMaps
<1>2. ASSUME NEW i \in 1..Len(ts)
      PROVE  disk'[<<d, ts[i].name>>] = disk[<<d, ts[i].name>>]
  <2>1. ts[i] \in [id : Essences, name : Names]
    BY <1>1, ElementOfSeq
  <2>2. <<d, ts[i].name>> \in Paths
    BY <2>1, PathsArePairs
  <2>3. disk[<<d, ts[i].name>>] # Absent
    <3>1. Len(LoadedTracks(d)) = Len(ts)
      BY <1>1, LenProperties DEF LoadedTracks
    <3>2. LoadedTracks(d)[i] \in Elements(LoadedTracks(d))
      BY <3>1 DEF Elements
    <3>3. LoadedTracks(d)[i] = [id |-> disk[<<d, ts[i].name>>], path |-> <<d, ts[i].name>>]
      BY DEF LoadedTracks
    <3> QED BY <3>2, <3>3 DEF Loads
  <2> QED BY <2>2, <2>3
<1>3. LoadedTracks(d)' = LoadedTracks(d)
  BY <1>2 DEF LoadedTracks
<1>4. LoadedCpls(d)' = LoadedCpls(d)
  BY DEF LoadedCpls
<1>5. Loads(d)'
  BY <1>3, <1>4 DEF Loads, Elements
<1> QED BY <1>3, <1>4, <1>5

LEMMA CopyingNext ==
    ASSUME StoreInv, [Next]_vars, pc \in {"video", "audio"}, dir \in PackageDirs, Loads(dir)
    PROVE  /\ UNCHANGED <<mapFile, pklFile, cplFile>>
           /\ \A r \in Paths : r[1] = dir /\ disk[r] # Absent => disk'[r] = disk[r]
<1>1. CASE MoveTrack
  <2>1. UNCHANGED <<mapFile, pklFile, cplFile>>
    BY <1>1 DEF MoveTrack
  <2>2. /\ tracks[k].path[1] # dir /\ disk[Target(tracks[k])] = Absent
        /\ \A r \in Paths : r # tracks[k].path /\ r # Target(tracks[k]) => disk'[r] = disk[r]
    BY <1>1, MoveKeepsStore
  <2> QED BY <2>1, <2>2
<1>2. CASE \E e \in Essences, p \in OutputDirs \X Names : Encode(e, p)
  <2> PICK e \in Essences, p \in OutputDirs \X Names : Encode(e, p)
    BY <1>2
  <2>1. disk' = [disk EXCEPT ![p] = e] /\ disk[p] = Absent /\ UNCHANGED <<mapFile, pklFile, cplFile>>
    BY DEF Encode
  <2> QED BY <2>1 DEF StoreInv, TypeOK
<1>3. CASE NextPhase \/ KeepTrack \/ RenameFails \/ Killed \/ Restart \/ UNCHANGED vars
  BY <1>3 DEF NextPhase, KeepTrack, RenameFails, Killed, Restart, vars, diskVars
<1>4. ~ \/ NewFile \/ SaveFile \/ SaveWithoutPackage
        \/ \E d \in PackageDirs : OpenFile(d) \/ OpenFileFails(d)
        \/ \E p \in Paths : AddTrackFile(p)
        \/ \E c \in CplIds : NewCompositionPlaylist(c)
        \/ \E j \in 1..Len(cpls), e \in Essences : EditPlaylist(j, e)
  BY DEF Idle, NewFile, SaveFile, SaveWithoutPackage, OpenFile, OpenFileFails, AddTrackFile,
         NewCompositionPlaylist, EditPlaylist
<1>5. ~ \/ WriteCpl \/ WriteCplRefused \/ WritePackageList \/ WriteAssetMap \/ WriteFails
  BY DEF WriteCpl, WriteCplRefused, WritePackageList, WriteAssetMap, WriteFails, WritingCpl
<1> QED BY <1>1, <1>2, <1>3, <1>4, <1>5 DEF Next, SaveStep

(* A save that is interrupted while it moves track files, by a failure or  *)
(* a crash, leaves an earlier package of the directory as it was.          *)
THEOREM CopyingIsSafe == Spec => CopyingKeepsOldPackage
<1> DEFINE Kept == \A d \in PackageDirs :
              (pc \in {"video", "audio"} /\ dir = d /\ Loads(d))
                 => /\ Loads(d)'
                    /\ LoadedTracks(d)' = LoadedTracks(d) /\ LoadedCpls(d)' = LoadedCpls(d)
<1>1. StoreInv /\ [Next]_vars => [Kept]_vars
  <2> SUFFICES ASSUME StoreInv, [Next]_vars, NEW d \in PackageDirs,
                      pc \in {"video", "audio"}, dir = d, Loads(d)
               PROVE  /\ Loads(d)'
                      /\ LoadedTracks(d)' = LoadedTracks(d) /\ LoadedCpls(d)' = LoadedCpls(d)
    OBVIOUS
  <2>1. /\ UNCHANGED <<mapFile, pklFile, cplFile>>
        /\ \A r \in Paths : r[1] = d /\ disk[r] # Absent => disk'[r] = disk[r]
    BY CopyingNext
  <2> QED BY <2>1, DirectoryUnchanged DEF StoreInv
<1> QED BY <1>1, StoreCorrect, PTL DEF Spec, CopyingKeepsOldPackage

-----------------------------------------------------------------------------
(* The order in which Write writes. *)

(* What the loop over the playlists, and then the packing list, have put   *)
(* on disk before ASSETMAP.xml is written.                                 *)
WrittenSoFar ==
    /\ pc = "cpl" => \A i \in 1..Len(cpls) : i < k => cplFile[<<dir, cpls[i].id>>] # Absent
    /\ pc \in {"pkl", "map"} => \A i \in 1..Len(cpls) : cplFile[<<dir, cpls[i].id>>] # Absent
    /\ pc = "map" => pklFile[dir] # Absent

(* XML files are replaced or broken, never removed. *)
XmlFilesStay ==
    /\ \A d \in PackageDirs : pklFile[d] # Absent => pklFile'[d] # Absent
    /\ \A d \in PackageDirs, c \in CplIds : cplFile[<<d, c>>] # Absent => cplFile'[<<d, c>>] # Absent

LEMMA UnchangedXmlStays ==
    ASSUME UNCHANGED <<pklFile, cplFile>>
    PROVE  XmlFilesStay
BY DEF XmlFilesStay

LEMMA NoXmlFileVanishes ==
    ASSUME TypeOK, [Next]_vars
    PROVE  XmlFilesStay
<1>1. CASE UNCHANGED vars \/ SaveFile \/ SaveWithoutPackage \/ Killed \/ Restart
           \/ NewFile \/ \E d \in PackageDirs : OpenFile(d) \/ OpenFileFails(d)
  BY <1>1, UnchangedXmlStays
     DEF vars, SaveFile, SaveWithoutPackage, Killed, Restart, NewFile, OpenFile, OpenFileFails, diskVars
<1>2. CASE \/ \E e \in Essences, p \in OutputDirs \X Names : Encode(e, p)
           \/ \E p \in Paths : AddTrackFile(p)
           \/ \E c \in CplIds : NewCompositionPlaylist(c)
           \/ \E j \in 1..Len(cpls), e \in Essences : EditPlaylist(j, e)
  BY <1>2, UnchangedXmlStays DEF Encode, AddTrackFile, NewCompositionPlaylist, EditPlaylist, diskVars
<1>3. CASE NextPhase \/ MoveTrack \/ KeepTrack \/ RenameFails \/ WriteCplRefused \/ WriteAssetMap
  BY <1>3, UnchangedXmlStays
     DEF NextPhase, MoveTrack, KeepTrack, RenameFails, WriteCplRefused, WriteAssetMap, diskVars
<1>4. CASE WriteCpl
  <2>1. cpls[k].refs \in SUBSET Ids
    <3>1. k \in 1..Len(cpls)
      BY <1>4 DEF WriteCpl, WritingCpl, TypeOK
    <3> QED BY <3>1, ItemTypes DEF Ids
  <2>2. cpls[k].refs # Absent
    BY <2>1, FilesAssumption
  <2> QED BY <1>4, <2>2 DEF WriteCpl, XmlFilesStay, TypeOK
<1>5. CASE WritePackageList
  <2>1. TrackIds \cup CplIdsInPackage \in SUBSET Ids
    BY PackageIds DEF Ids
  <2>2. TrackIds \cup CplIdsInPackage # Absent
    BY <2>1, FilesAssumption
  <2> QED BY <1>5, <2>2 DEF WritePackageList, XmlFilesStay, TypeOK
<1>6. CASE WriteFails
  BY <1>6, FilesAssumption DEF WriteFails, XmlFilesStay, TypeOK
<1> QED BY <1>1, <1>2, <1>3, <1>4, <1>5, <1>6 DEF Next, SaveStep

(* Only a save moves the package or its playlists while pc is not idle. *)
LEMMA WrittenNext == TypeOK /\ WrittenSoFar /\ [Next]_vars => WrittenSoFar'
<1> SUFFICES ASSUME TypeOK, WrittenSoFar, [Next]_vars PROVE WrittenSoFar'
  OBVIOUS
<1>1. XmlFilesStay
  BY NoXmlFileVanishes
<1>2. \A i \in 1..Len(cpls) : cpls[i].id \in CplIds
  BY ItemTypes
<1>3. CASE pc' \in {"idle", "video", "audio"}
  BY <1>3 DEF WrittenSoFar
<1>4. CASE /\ UNCHANGED <<pc, k, dir, cpls>>
           /\ pc # "idle"
  <2>1. dir \in PackageDirs
    BY <1>4 DEF TypeOK
  <2> QED BY <1>1, <1>2, <1>4, <2>1 DEF WrittenSoFar, XmlFilesStay
<1>5. CASE NextPhase
  <2>1. dir \in PackageDirs /\ UNCHANGED <<dir, cpls, pklFile, cplFile>> /\ k' = 1
    BY <1>5 DEF NextPhase, TypeOK, packageVars, diskVars
  <2>2. CASE pc = "audio"
    <3>1. pc' = "cpl"
      BY <1>5, <2>2 DEF NextPhase, After
    <3> QED BY <2>1, <3>1 DEF WrittenSoFar
  <2>3. CASE pc = "cpl"
    <3>1. pc' = "pkl" /\ ~(k <= Len(cpls)) /\ k \in Nat /\ Len(cpls) \in Nat
      BY <1>5, <2>3 DEF NextPhase, After, WritingCpl, TypeOK
    <3>2. \A i \in 1..Len(cpls) : cplFile[<<dir, cpls[i].id>>] # Absent
      BY <2>3, <3>1 DEF WrittenSoFar
    <3> QED BY <2>1, <3>1, <3>2 DEF WrittenSoFar
  <2>4. CASE pc = "video"
    BY <1>3, <1>5, <2>4 DEF NextPhase, After
  <2> QED BY <1>5, <2>2, <2>3, <2>4 DEF NextPhase
<1>6. CASE WriteCpl
  <2>1. /\ pc = "cpl" /\ pc' = "cpl" /\ k' = k + 1 /\ UNCHANGED <<dir, cpls>>
        /\ k \in 1..Len(cpls) /\ dir \in PackageDirs
    BY <1>6 DEF WriteCpl, WritingCpl, TypeOK, packageVars
  <2>2. cpls[k].refs # Absent
    BY <2>1, ItemTypes, FilesAssumption DEF Ids
  <2>3. cplFile'[<<dir, cpls[k].id>>] # Absent
    BY <1>2, <1>6, <2>1, <2>2 DEF WriteCpl, TypeOK
  <2>4. \A i \in 1..Len(cpls) : i < k => cplFile'[<<dir, cpls[i].id>>] # Absent
    BY <1>1, <1>2, <2>1 DEF WrittenSoFar, XmlFilesStay
  <2>5. \A i \in 1..Len(cpls) : i < k + 1 => cplFile'[<<dir, cpls[i].id>>] # Absent
    BY <2>1, <2>3, <2>4
  <2> QED BY <2>1, <2>5 DEF WrittenSoFar
<1>7. CASE WritePackageList
  <2>1. pc = "pkl" /\ pc' = "map" /\ UNCHANGED <<dir, cpls>> /\ dir \in PackageDirs
    BY <1>7 DEF WritePackageList, After, TypeOK, packageVars
  <2>2. TrackIds \cup CplIdsInPackage \in SUBSET Ids
    BY PackageIds DEF Ids
  <2>3. pklFile'[dir] # Absent
    BY <1>7, <2>1, <2>2, FilesAssumption DEF WritePackageList, TypeOK
  <2>4. \A i \in 1..Len(cpls) : cplFile'[<<dir, cpls[i].id>>] # Absent
    BY <1>1, <1>2, <2>1 DEF WrittenSoFar, XmlFilesStay
  <2> QED BY <2>1, <2>3, <2>4 DEF WrittenSoFar
<1>8. CASE MoveTrack \/ KeepTrack
  <2>1. pc' \in {"video", "audio"}
    BY <1>8 DEF MoveTrack, KeepTrack, MustMove, Copying
  <2> QED BY <1>3, <2>1
<1>9. CASE RenameFails \/ WriteCplRefused \/ WriteAssetMap \/ WriteFails \/ Killed \/ SaveWithoutPackage
  <2>1. pc' = "idle"
    BY <1>9 DEF RenameFails, WriteCplRefused, WriteAssetMap, WriteFails, Killed, SaveWithoutPackage,
                Dies, After
  <2> QED BY <1>3, <2>1
<1>10. CASE SaveFile
  BY <1>3, <1>10 DEF SaveFile
<1>11. CASE \/ NewFile \/ \E d \in PackageDirs : OpenFile(d) \/ OpenFileFails(d)
            \/ \E p \in Paths : AddTrackFile(p)
            \/ \E c \in CplIds : NewCompositionPlaylist(c)
            \/ \E j \in 1..Len(cpls), e \in Essences : EditPlaylist(j, e)
  <2>1. pc' = "idle"
    BY <1>11 DEF NewFile, OpenFile, OpenFileFails, AddTrackFile, NewCompositionPlaylist, EditPlaylist,
                 Idle, saveVars
  <2> QED BY <1>3, <2>1
<1>12. CASE \/ UNCHANGED vars \/ Restart
            \/ \E e \in Essences, p \in OutputDirs \X Names : Encode(e, p)
  <2>1. UNCHANGED <<pc, k, dir, cpls>>
    BY <1>12 DEF vars, Restart, Encode, packageVars, saveVars
  <2> QED BY <1>3, <1>4, <2>1
<1> QED BY <1>5, <1>6, <1>7, <1>8, <1>9, <1>10, <1>11, <1>12 DEF Next, SaveStep

LEMMA ListedNext ==
    TypeOK /\ WrittenSoFar /\ NothingListedAhead /\ [Next]_vars => NothingListedAhead'
<1> SUFFICES ASSUME TypeOK, WrittenSoFar, NothingListedAhead, [Next]_vars,
                    NEW d \in PackageDirs, mapFile'[d] \notin {Absent, Broken}
             PROVE  /\ pklFile'[d] # Absent
                    /\ \A c \in Elements(mapFile'[d].cpls) : cplFile'[<<d, c>>] # Absent
  BY DEF NothingListedAhead
<1>1. XmlFilesStay
  BY NoXmlFileVanishes
<1>2. CASE mapFile'[d] = mapFile[d]
  <2>1. mapFile[d] \in AssetMaps
    BY <1>2 DEF TypeOK
  <2>2. mapFile[d].cpls \in Seq(CplIds)
    BY <2>1 DEF AssetMaps
  <2>3. \A c \in Elements(mapFile[d].cpls) : c \in CplIds
    BY <2>2, ElementOfSeq DEF Elements
  <2> QED BY <1>1, <1>2, <2>3 DEF NothingListedAhead, XmlFilesStay
<1>3. CASE WriteAssetMap /\ d = dir
  <2>1. pc = "map" /\ mapFile'[d] = AssetList /\ UNCHANGED <<pklFile, cplFile>>
    BY <1>3 DEF WriteAssetMap, TypeOK
  <2>2. Len(cpls) \in Nat
    BY DEF TypeOK
  <2>3. mapFile'[d].cpls = [i \in 1..Len(cpls) |-> cpls[i].id]
    BY <2>1 DEF AssetList
  <2>4. \A c \in Elements(mapFile'[d].cpls) : \E i \in 1..Len(cpls) : c = cpls[i].id
    BY <2>2, <2>3, LenProperties DEF Elements
  <2> QED BY <1>3, <2>1, <2>4 DEF WrittenSoFar
<1>4. CASE WriteAssetMap /\ d # dir
  BY <1>2, <1>4 DEF WriteAssetMap, TypeOK
<1>5. CASE WriteFails
  BY <1>2, <1>5 DEF WriteFails, TypeOK
<1>6. CASE UNCHANGED mapFile
  BY <1>2, <1>6
<1>7. CASE UNCHANGED vars \/ SaveFile \/ SaveWithoutPackage \/ Killed \/ Restart
           \/ NewFile \/ \E f \in PackageDirs : OpenFile(f) \/ OpenFileFails(f)
  BY <1>6, <1>7
     DEF vars, SaveFile, SaveWithoutPackage, Killed, Restart, NewFile, OpenFile, OpenFileFails, diskVars
<1>8. CASE \/ \E e \in Essences, p \in OutputDirs \X Names : Encode(e, p)
           \/ \E p \in Paths : AddTrackFile(p)
           \/ \E c \in CplIds : NewCompositionPlaylist(c)
           \/ \E j \in 1..Len(cpls), e \in Essences : EditPlaylist(j, e)
  BY <1>6, <1>8 DEF Encode, AddTrackFile, NewCompositionPlaylist, EditPlaylist, diskVars
<1>9. CASE NextPhase \/ MoveTrack \/ KeepTrack \/ RenameFails \/ WriteCpl \/ WriteCplRefused
           \/ WritePackageList
  BY <1>6, <1>9 DEF NextPhase, MoveTrack, KeepTrack, RenameFails, WriteCpl, WriteCplRefused,
                    WritePackageList, diskVars
<1> QED BY <1>3, <1>4, <1>5, <1>7, <1>8, <1>9 DEF Next, SaveStep

(* ASSETMAP.xml comes last: no crash leaves one that lists what was never  *)
(* written.                                                                *)
THEOREM NeverListsAhead == Spec => []NothingListedAhead
<1>1. Init => WrittenSoFar /\ NothingListedAhead
  BY DEF Init, WrittenSoFar, NothingListedAhead
<1> QED BY <1>1, TypeCorrect, WrittenNext, ListedNext, PTL DEF Spec

-----------------------------------------------------------------------------
(* What a complete save stores. *)

(* The playlists of the package differ in their UUIDs, and so do those that*)
(* an asset map lists: no CPL file of a package is written twice.          *)
PlaylistsDistinct ==
    /\ \A i, j \in 1..Len(cpls) : cpls[i].id = cpls[j].id => i = j
    /\ \A d \in PackageDirs : mapFile[d] \notin {Absent, Broken} =>
          \A i, j \in 1..Len(mapFile[d].cpls) :
              mapFile[d].cpls[i] = mapFile[d].cpls[j] => i = j

(* Playlists refer to tracks of the package only. *)
RefsKnown == \A i \in 1..Len(cpls) : cpls[i].refs \subseteq TrackIds

PackageInv == StoreInv /\ TableShowsPackage /\ PlaylistsDistinct /\ RefsKnown

LEMMA PackageInit == Init => PlaylistsDistinct /\ RefsKnown
BY DEF Init, PlaylistsDistinct, RefsKnown

(* A step that leaves the playlists and the UUIDs of the tracks alone, and *)
(* at most breaks an asset map.                                            *)
LEMMA PlaylistsKept ==
    ASSUME PlaylistsDistinct, RefsKnown, UNCHANGED cpls, TrackIds \subseteq TrackIds',
           \A d \in PackageDirs : mapFile'[d] = mapFile[d] \/ mapFile'[d] = Broken
    PROVE  PlaylistsDistinct' /\ RefsKnown'
BY DEF PlaylistsDistinct, RefsKnown

(* The same for a step that closes the package. *)
LEMMA PlaylistsClosed ==
    ASSUME PlaylistsDistinct, NEW b, EmptyPackage(b),
           \A d \in PackageDirs : mapFile'[d] = mapFile[d] \/ mapFile'[d] = Broken
    PROVE  PlaylistsDistinct' /\ RefsKnown'
<1>1. cpls' = <<>> /\ Len(cpls') = 0 /\ 1..0 = {}
  BY DEF EmptyPackage
<1> QED BY <1>1 DEF PlaylistsDistinct, RefsKnown

LEMMA OpenKeepsPlaylists ==
    ASSUME PackageInv, NEW d \in PackageDirs, OpenFile(d)
    PROVE  PlaylistsDistinct' /\ RefsKnown'
<1> DEFINE m == mapFile[d]
<1>1. m \in AssetMaps /\ m \notin {Absent, Broken}
  BY DEF OpenFile, Loads, PackageInv, StoreInv, TypeOK
<1>2. m.cpls \in Seq(CplIds) /\ Len(m.cpls) \in Nat
  BY <1>1 DEF AssetMaps
<1>3. cpls' = LoadedCpls(d) /\ tracks' = LoadedTracks(d) /\ UNCHANGED mapFile
  BY DEF OpenFile, diskVars
<1>4. /\ Len(cpls') = Len(m.cpls)
      /\ \A i \in 1..Len(m.cpls) : cpls'[i].id = m.cpls[i]
  <2>1. Len(LoadedCpls(d)) = Len(m.cpls)
    BY <1>2, LenProperties DEF LoadedCpls
  <2>2. \A i \in 1..Len(m.cpls) : LoadedCpls(d)[i].id = m.cpls[i]
    BY DEF LoadedCpls
  <2> QED BY <1>3, <2>1, <2>2
<1>5. \A i, j \in 1..Len(m.cpls) : m.cpls[i] = m.cpls[j] => i = j
  BY <1>1 DEF PackageInv, PlaylistsDistinct
<1>6. PlaylistsDistinct'
  <2>1. \A i, j \in 1..Len(cpls') : cpls'[i].id = cpls'[j].id => i = j
    BY <1>4, <1>5
  <2> QED BY <1>3, <2>1 DEF PackageInv, PlaylistsDistinct
<1>7. RefsKnown'
  <2>1. \A c \in Elements(LoadedCpls(d)) :
           c.refs \subseteq {t.id : t \in Elements(LoadedTracks(d))}
    BY DEF OpenFile, Loads
  <2> QED BY <1>3, <2>1 DEF RefsKnown, TrackIds, Elements
<1> QED BY <1>6, <1>7

(* A dropped resource refers to a row of the table, so to a track or to a  *)
(* playlist; no playlist has the UUID of an essence.                       *)
LEMMA EditKeepsPlaylists ==
    ASSUME PackageInv, NEW j \in 1..Len(cpls), NEW e \in Essences, EditPlaylist(j, e)
    PROVE  PlaylistsDistinct' /\ RefsKnown'
<1>1. e \in TrackIds
  <2>1. e \in TrackIds \cup CplIdsInPackage
    BY DEF EditPlaylist, PackageInv, TableShowsPackage, Ids
  <2>2. CplIdsInPackage \subseteq CplIds
    BY PackageIds DEF PackageInv, StoreInv
  <2> QED BY <2>1, <2>2, IdsAssumption
<1>2. cpls \in Seq(Playlists) /\ cpls[j] \in Playlists
  BY ElementOfSeq DEF PackageInv, StoreInv, TypeOK
<1>3. /\ Len(cpls') = Len(cpls) /\ \A i \in 1..Len(cpls) : i # j => cpls'[i] = cpls[i]
      /\ cpls'[j].id = cpls[j].id /\ cpls'[j].refs \subseteq cpls[j].refs \cup {e}
  BY <1>2 DEF EditPlaylist, Playlists
<1>4. TrackIds' = TrackIds /\ UNCHANGED mapFile
  BY DEF EditPlaylist, TrackIds, Elements, diskVars
<1>5. RefsKnown'
  BY <1>1, <1>3, <1>4 DEF PackageInv, RefsKnown
<1>6. PlaylistsDistinct'
  <2>1. \A i \in 1..Len(cpls) : cpls'[i].id = cpls[i].id
    BY <1>3
  <2>2. \A i, l \in 1..Len(cpls') : cpls'[i].id = cpls'[l].id => i = l
    BY <1>3, <2>1 DEF PackageInv, PlaylistsDistinct
  <2> QED BY <1>4, <2>2 DEF PackageInv, PlaylistsDistinct
<1> QED BY <1>5, <1>6

LEMMA NewKeepsPlaylists ==
    ASSUME PackageInv, NEW c \in CplIds, NewCompositionPlaylist(c)
    PROVE  PlaylistsDistinct' /\ RefsKnown'
<1>1. /\ cpls \in Seq(Playlists) /\ Len(cpls) \in Nat
      /\ cpls' = Append(cpls, [id |-> c, refs |-> {}])
      /\ \A i \in 1..Len(cpls) : cpls[i].id # c
  BY DEF NewCompositionPlaylist, CplIdsInPackage, Elements, PackageInv, StoreInv, TypeOK
<1>2. /\ Len(cpls') = Len(cpls) + 1
      /\ cpls'[Len(cpls) + 1] = [id |-> c, refs |-> {}]
      /\ \A i \in 1..Len(cpls) : cpls'[i] = cpls[i]
  BY <1>1
<1>3. \A i \in 1..Len(cpls') : i \in 1..Len(cpls) \/ i = Len(cpls) + 1
  BY <1>1, <1>2
<1>4. TrackIds' = TrackIds /\ UNCHANGED mapFile
  BY DEF NewCompositionPlaylist, TrackIds, Elements, diskVars
<1>5. RefsKnown'
  <2> SUFFICES ASSUME NEW i \in 1..Len(cpls')
               PROVE  cpls'[i].refs \subseteq TrackIds'
    BY DEF RefsKnown
  <2>1. CASE i \in 1..Len(cpls)
    BY <1>2, <1>4, <2>1 DEF PackageInv, RefsKnown
  <2>2. CASE i = Len(cpls) + 1
    BY <1>2, <2>2
  <2> QED BY <1>3, <2>1, <2>2
<1>6. PlaylistsDistinct'
  <2>1. \A i, l \in 1..Len(cpls') : cpls'[i].id = cpls'[l].id => i = l
    BY <1>1, <1>2, <1>3 DEF PackageInv, PlaylistsDistinct
  <2> QED BY <1>4, <2>1 DEF PackageInv, PlaylistsDistinct
<1> QED BY <1>5, <1>6

LEMMA AddKeepsPlaylists ==
    ASSUME PackageInv, NEW p \in Paths, AddTrackFile(p)
    PROVE  PlaylistsDistinct' /\ RefsKnown'
<1>1. tracks \in Seq(Tracks) /\ tracks' = Append(tracks, [id |-> disk[p], path |-> p])
  BY DEF AddTrackFile, PackageInv, StoreInv, TypeOK
<1>2. Len(tracks') = Len(tracks) + 1 /\ Len(tracks) \in Nat
  BY <1>1
<1>3. \A i \in 1..Len(tracks) : i \in 1..Len(tracks') /\ tracks'[i] = tracks[i]
  BY <1>1, <1>2
<1>4. TrackIds \subseteq TrackIds'
  BY <1>3 DEF TrackIds, Elements
<1> QED BY <1>4, PlaylistsKept DEF AddTrackFile, diskVars, PackageInv

(* The asset map lists the playlists of the package, each once. *)
LEMMA MapKeepsPlaylists ==
    ASSUME PackageInv, WriteAssetMap
    PROVE  PlaylistsDistinct' /\ RefsKnown'
<1>1. /\ UNCHANGED <<tracks, cpls>> /\ mapFile' = [mapFile EXCEPT ![dir] = AssetList]
      /\ mapFile \in [PackageDirs -> AssetMaps \cup {Absent, Broken}]
      /\ Len(cpls) \in Nat
  BY DEF WriteAssetMap, packageVars, PackageInv, StoreInv, TypeOK
<1>2. AssetList.cpls = [i \in 1..Len(cpls) |-> cpls[i].id]
  BY DEF AssetList
<1>3. /\ Len(AssetList.cpls) = Len(cpls)
      /\ \A i \in 1..Len(cpls) : AssetList.cpls[i] = cpls[i].id
  BY <1>1, <1>2, LenProperties
<1>4. \A i, j \in 1..Len(AssetList.cpls) : AssetList.cpls[i] = AssetList.cpls[j] => i = j
  BY <1>3 DEF PackageInv, PlaylistsDistinct
<1>5. \A d \in PackageDirs : mapFile'[d] = mapFile[d] \/ mapFile'[d] = AssetList
  BY <1>1
<1>6. PlaylistsDistinct'
  BY <1>1, <1>4, <1>5 DEF PackageInv, PlaylistsDistinct
<1>7. RefsKnown'
  BY <1>1 DEF PackageInv, RefsKnown, TrackIds, Elements
<1> QED BY <1>6, <1>7

LEMMA PlaylistsNext == PackageInv /\ [Next]_vars => PlaylistsDistinct' /\ RefsKnown'
<1> SUFFICES ASSUME PackageInv, [Next]_vars PROVE PlaylistsDistinct' /\ RefsKnown'
  OBVIOUS
<1>1. PlaylistsDistinct /\ RefsKnown /\ TypeOK
  BY DEF PackageInv, StoreInv
<1>2. CASE \/ UNCHANGED vars \/ Restart \/ SaveFile
           \/ \E e \in Essences, p \in OutputDirs \X Names : Encode(e, p)
           \/ NextPhase \/ KeepTrack \/ WriteCpl \/ WriteCplRefused \/ WritePackageList
  <2>1. UNCHANGED <<tracks, cpls, mapFile>>
    BY <1>2 DEF vars, Restart, SaveFile, Encode, NextPhase, KeepTrack, WriteCpl, WriteCplRefused,
                WritePackageList, packageVars, diskVars
  <2> QED BY <1>1, <2>1, SameItemsSameIds, PlaylistsKept
<1>3. CASE \/ NewFile \/ \E d \in PackageDirs : OpenFileFails(d)
           \/ SaveWithoutPackage \/ Killed
  <2>1. UNCHANGED mapFile
    BY <1>3 DEF NewFile, OpenFileFails, SaveWithoutPackage, Killed, diskVars
  <2>2. \E b \in BOOLEAN : EmptyPackage(b)
    BY <1>3 DEF NewFile, OpenFileFails, SaveWithoutPackage, Killed, Dies
  <2> QED BY <1>1, <2>1, <2>2, PlaylistsClosed
<1>4. CASE WriteFails
  <2>1. \A d \in PackageDirs : mapFile'[d] = mapFile[d] \/ mapFile'[d] = Broken
    BY <1>1, <1>4 DEF WriteFails, TypeOK
  <2>2. EmptyPackage(FALSE)
    BY <1>4 DEF WriteFails, Dies
  <2> QED BY <1>1, <2>1, <2>2, PlaylistsClosed
<1>5. CASE RenameFails
  <2>1. UNCHANGED mapFile
    BY <1>5 DEF RenameFails, diskVars
  <2>2. CASE Dies
    BY <1>1, <2>1, <2>2, PlaylistsClosed DEF Dies
  <2>3. CASE UNCHANGED packageVars
    BY <1>1, <2>1, <2>3, SameItemsSameIds, PlaylistsKept DEF packageVars
  <2> QED BY <1>5, <2>2, <2>3 DEF RenameFails
<1>6. CASE MoveTrack
  <2>1. Len(tracks') = Len(tracks) /\ \A i \in 1..Len(tracks) : tracks'[i].id = tracks[i].id
    BY <1>6, MoveKeepsStore DEF PackageInv
  <2>2. TrackIds' = TrackIds
    BY <2>1 DEF TrackIds, Elements
  <2>3. UNCHANGED <<cpls, mapFile>>
    BY <1>6 DEF MoveTrack
  <2> QED BY <1>1, <2>2, <2>3, PlaylistsKept
<1> QED
  BY <1>2, <1>3, <1>4, <1>5, <1>6, OpenKeepsPlaylists, AddKeepsPlaylists, NewKeepsPlaylists,
     EditKeepsPlaylists, MapKeepsPlaylists DEF Next, SaveStep

(* What is in memory is on disk already, as far as Write has come.         *)
ContentWritten ==
    /\ pc = "cpl" => \A i \in 1..Len(cpls) : i < k => cplFile[<<dir, cpls[i].id>>] = cpls[i].refs
    /\ pc \in {"pkl", "map"} => \A i \in 1..Len(cpls) : cplFile[<<dir, cpls[i].id>>] = cpls[i].refs
    /\ pc = "map" => pklFile[dir] = TrackIds \cup CplIdsInPackage

LEMMA ContentNext == PackageInv /\ ContentWritten /\ [Next]_vars => ContentWritten'
<1> SUFFICES ASSUME PackageInv, ContentWritten, [Next]_vars PROVE ContentWritten'
  OBVIOUS
<1>1. TypeOK /\ \A i \in 1..Len(cpls) : cpls[i].id \in CplIds
  BY ItemTypes DEF PackageInv, StoreInv
<1>2. CASE pc' \in {"idle", "video", "audio"}
  BY <1>2 DEF ContentWritten
<1>3. CASE \/ UNCHANGED vars \/ Restart
           \/ \E e \in Essences, p \in OutputDirs \X Names : Encode(e, p)
  <2>1. UNCHANGED <<pc, k, dir, tracks, cpls, cplFile, pklFile>>
    BY <1>3 DEF vars, Restart, Encode, diskVars, packageVars, saveVars
  <2>2. TrackIds' = TrackIds /\ CplIdsInPackage' = CplIdsInPackage
    BY <2>1, SameItemsSameIds
  <2> QED BY <2>1, <2>2 DEF ContentWritten
<1>4. CASE NextPhase
  <2>1. UNCHANGED <<dir, cpls, cplFile>> /\ k' = 1
    BY <1>4 DEF NextPhase, packageVars, diskVars
  <2>2. CASE pc = "audio"
    <3>1. pc' = "cpl"
      BY <1>4, <2>2 DEF NextPhase, After
    <3> QED BY <2>1, <3>1 DEF ContentWritten
  <2>3. CASE pc = "cpl"
    <3>1. pc' = "pkl" /\ ~(k <= Len(cpls)) /\ k \in Nat /\ Len(cpls) \in Nat
      BY <1>1, <1>4, <2>3 DEF NextPhase, After, WritingCpl, TypeOK
    <3>2. \A i \in 1..Len(cpls) : cplFile[<<dir, cpls[i].id>>] = cpls[i].refs
      BY <2>3, <3>1 DEF ContentWritten
    <3> QED BY <2>1, <3>1, <3>2 DEF ContentWritten
  <2>4. CASE pc = "video"
    BY <1>2, <1>4, <2>4 DEF NextPhase, After
  <2> QED BY <1>4, <2>2, <2>3, <2>4 DEF NextPhase
<1>5. CASE WriteCpl
  <2>1. /\ pc = "cpl" /\ pc' = "cpl" /\ k' = k + 1 /\ UNCHANGED <<dir, cpls>>
        /\ k \in 1..Len(cpls) /\ dir \in PackageDirs
        /\ cplFile' = [cplFile EXCEPT ![<<dir, cpls[k].id>>] = cpls[k].refs]
    BY <1>1, <1>5 DEF WriteCpl, WritingCpl, TypeOK, packageVars
  <2>2. cplFile'[<<dir, cpls[k].id>>] = cpls[k].refs
    BY <1>1, <2>1 DEF TypeOK
  <2>3. ASSUME NEW i \in 1..Len(cpls), i < k
        PROVE  cplFile'[<<dir, cpls[i].id>>] = cpls[i].refs
    <3>1. cpls[i].id # cpls[k].id
      BY <2>1, <2>3 DEF PackageInv, PlaylistsDistinct
    <3>2. cplFile'[<<dir, cpls[i].id>>] = cplFile[<<dir, cpls[i].id>>]
      BY <1>1, <2>1, <3>1 DEF TypeOK
    <3> QED BY <2>1, <2>3, <3>2 DEF ContentWritten
  <2>4. \A i \in 1..Len(cpls) : i < k + 1 => cplFile'[<<dir, cpls[i].id>>] = cpls[i].refs
    BY <2>1, <2>2, <2>3
  <2> QED BY <2>1, <2>4 DEF ContentWritten
<1>6. CASE WritePackageList
  <2>1. /\ pc = "pkl" /\ pc' = "map" /\ UNCHANGED <<dir, tracks, cpls, cplFile>>
        /\ dir \in PackageDirs
    BY <1>1, <1>6 DEF WritePackageList, After, TypeOK, packageVars
  <2>2. pklFile'[dir] = TrackIds \cup CplIdsInPackage
    BY <1>1, <1>6, <2>1 DEF WritePackageList, TypeOK
  <2>3. TrackIds' = TrackIds /\ CplIdsInPackage' = CplIdsInPackage
    BY <2>1, SameItemsSameIds
  <2> QED BY <2>1, <2>2, <2>3 DEF ContentWritten
<1>7. CASE MoveTrack \/ KeepTrack \/ SaveFile
  <2>1. pc' \in {"video", "audio"}
    BY <1>7 DEF MoveTrack, KeepTrack, MustMove, Copying, SaveFile
  <2> QED BY <1>2, <2>1
<1>8. CASE RenameFails \/ WriteCplRefused \/ WriteAssetMap \/ WriteFails \/ Killed \/ SaveWithoutPackage
  <2>1. pc' = "idle"
    BY <1>8 DEF RenameFails, WriteCplRefused, WriteAssetMap, WriteFails, Killed, SaveWithoutPackage,
                Dies, After
  <2> QED BY <1>2, <2>1
<1>9. CASE \/ NewFile \/ \E d \in PackageDirs : OpenFile(d) \/ OpenFileFails(d)
           \/ \E p \in Paths : AddTrackFile(p)
           \/ \E c \in CplIds : NewCompositionPlaylist(c)
           \/ \E j \in 1..Len(cpls), e \in Essences : EditPlaylist(j, e)
  <2>1. pc' = "idle"
    BY <1>9 DEF NewFile, OpenFile, OpenFileFails, AddTrackFile, NewCompositionPlaylist, EditPlaylist,
                Idle, saveVars
  <2> QED BY <1>2, <2>1
<1> QED BY <1>3, <1>4, <1>5, <1>6, <1>7, <1>8, <1>9 DEF Next, SaveStep

(* The last step of Write stores the package as it is in memory: the track *)
(* files lie where the asset map points, the playlists and the packing list*)
(* have been written before.                                               *)
LEMMA MapCompletesSave ==
    ASSUME PackageInv, ContentWritten, NEW d \in PackageDirs, WriteAssetMap, dir = d,
           \A t \in Elements(tracks) : t.path[1] = d
    PROVE  /\ Loads(d)'
           /\ LoadedTracks(d)' = tracks /\ LoadedCpls(d)' = cpls
           /\ pklFile'[d] = TrackIds \cup CplIdsInPackage
<1>1. /\ UNCHANGED <<disk, pklFile, cplFile, tracks, cpls>> /\ pc = "map"
      /\ TypeOK /\ mapFile'[d] = AssetList
  BY DEF WriteAssetMap, packageVars, PackageInv, StoreInv, TypeOK
<1>2. /\ tracks \in Seq(Tracks) /\ Len(tracks) \in Nat
      /\ cpls \in Seq(Playlists) /\ Len(cpls) \in Nat
  BY <1>1 DEF TypeOK
<1>3. LoadedTracks(d)' = tracks
  <2> DEFINE a == AssetList.tracks
  <2>1. a = [i \in 1..Len(tracks) |-> [id |-> tracks[i].id, name |-> tracks[i].path[2]]]
    BY DEF AssetList
  <2>2. Len(a) = Len(tracks) /\ \A i \in 1..Len(tracks) : a[i].name = tracks[i].path[2]
    BY <1>2, <2>1, LenProperties
  <2>3. LoadedTracks(d)' = [i \in 1..Len(a) |-> [id |-> disk[<<d, a[i].name>>], path |-> <<d, a[i].name>>]]
    BY <1>1 DEF LoadedTracks
  <2> HIDE DEF a
  <2>4. ASSUME NEW i \in 1..Len(tracks)
        PROVE  [id |-> disk[<<d, a[i].name>>], path |-> <<d, a[i].name>>] = tracks[i]
    <3>1. tracks[i] \in Tracks /\ tracks[i].path \in Paths
      BY <1>1, ItemTypes
    <3>2. tracks[i].path[1] = d /\ disk[tracks[i].path] = tracks[i].id
      BY DEF Elements, PackageInv, StoreInv, PathsCurrent
    <3>3. tracks[i].path = <<d, a[i].name>>
      BY <2>2, <3>1, <3>2, PathsArePairs
    <3>4. tracks[i] = [id |-> tracks[i].id, path |-> tracks[i].path]
      BY <3>1 DEF Tracks
    <3> QED BY <3>2, <3>3, <3>4
  <2>5. LoadedTracks(d)' = [i \in 1..Len(tracks) |-> tracks[i]]
    BY <2>2, <2>3, <2>4
  <2>6. tracks = [i \in 1..Len(tracks) |-> tracks[i]]
    BY <1>2, LenProperties
  <2> QED BY <2>5, <2>6
<1>4. LoadedCpls(d)' = cpls
  <2> DEFINE a == AssetList.cpls
  <2>1. a = [i \in 1..Len(cpls) |-> cpls[i].id]
    BY DEF AssetList
  <2>2. Len(a) = Len(cpls) /\ \A i \in 1..Len(cpls) : a[i] = cpls[i].id
    BY <1>2, <2>1, LenProperties
  <2>3. LoadedCpls(d)' = [i \in 1..Len(a) |-> [id |-> a[i], refs |-> cplFile[<<d, a[i]>>]]]
    BY <1>1 DEF LoadedCpls
  <2> HIDE DEF a
  <2>4. ASSUME NEW i \in 1..Len(cpls)
        PROVE  [id |-> a[i], refs |-> cplFile[<<d, a[i]>>]] = cpls[i]
    <3>1. cpls[i] \in Playlists
      BY <1>1, ItemTypes
    <3>2. cplFile[<<d, cpls[i].id>>] = cpls[i].refs
      BY <1>1 DEF ContentWritten
    <3>3. cpls[i] = [id |-> cpls[i].id, refs |-> cpls[i].refs]
      BY <3>1 DEF Playlists
    <3> QED BY <2>2, <3>2, <3>3
  <2>5. LoadedCpls(d)' = [i \in 1..Len(cpls) |-> cpls[i]]
    BY <2>2, <2>3, <2>4
  <2>6. cpls = [i \in 1..Len(cpls) |-> cpls[i]]
    BY <1>2, LenProperties
  <2> QED BY <2>5, <2>6
<1>5. pklFile'[d] = TrackIds \cup CplIdsInPackage
  BY <1>1 DEF ContentWritten
<1>6. Loads(d)'
  <2>1. mapFile'[d] \notin {Absent, Broken}
    <3>1. AssetList \in AssetMaps
      BY <1>1, AssetListType
    <3> QED BY <1>1, <3>1, FilesAssumption
  <2>2. \A t \in Elements(tracks) : t.id # Absent
    BY <1>1, ItemTypes, FilesAssumption DEF Elements
  <2>3. pklFile'[d] \notin {Absent, Broken}
    <3>1. TrackIds \cup CplIdsInPackage \in SUBSET Ids
      BY <1>1, PackageIds DEF Ids
    <3> QED BY <1>5, <3>1, FilesAssumption
  <2>4. \A c \in Elements(cpls) : c.refs \notin {Absent, Broken} /\ c.refs \subseteq TrackIds
    <3> SUFFICES ASSUME NEW i \in 1..Len(cpls)
                 PROVE  cpls[i].refs \notin {Absent, Broken} /\ cpls[i].refs \subseteq TrackIds
      BY DEF Elements
    <3>1. cpls[i].refs \in SUBSET Ids
      BY <1>1, ItemTypes DEF Ids
    <3> QED BY <3>1, FilesAssumption DEF PackageInv, RefsKnown
  <2> QED BY <1>3, <1>4, <2>1, <2>2, <2>3, <2>4 DEF Loads, TrackIds
<1> QED BY <1>3, <1>4, <1>5, <1>6

(* SaveThenLoad: whatever was added, edited, opened and saved before, and  *)
(* however often a save failed, the save that gets to its end with every   *)
(* track in the directory stores what Load gives back.                     *)
THEOREM SavedPackageLoads == Spec => SaveThenLoad
<1> DEFINE Stored == \A d \in PackageDirs :
          (pc = "map" /\ pc' = "idle" /\ alive' /\ dir = d /\ \A t \in Elements(tracks) : t.path[1] = d)
             => /\ Loads(d)'
                /\ LoadedTracks(d)' = tracks /\ LoadedCpls(d)' = cpls
                /\ pklFile'[d] = TrackIds \cup CplIdsInPackage
<1>1. Init => PackageInv /\ ContentWritten
  <2>1. Init => TableShowsPackage
    BY DEF Init, TableShowsPackage, TrackIds, CplIdsInPackage, Elements
  <2>2. Init => ContentWritten
    BY DEF Init, ContentWritten
  <2> QED BY <2>1, <2>2, StoreInit, PackageInit DEF PackageInv
<1>2. PackageInv /\ ContentWritten /\ [Next]_vars => (PackageInv /\ ContentWritten)'
  BY StoreNext, TableNext, PlaylistsNext, ContentNext DEF PackageInv
<1>3. PackageInv /\ ContentWritten /\ [Next]_vars => [Stored]_vars
  <2> SUFFICES ASSUME PackageInv, ContentWritten, [Next]_vars, NEW d \in PackageDirs,
                      pc = "map", pc' = "idle", alive', dir = d,
                      \A t \in Elements(tracks) : t.path[1] = d
               PROVE  /\ Loads(d)'
                      /\ LoadedTracks(d)' = tracks /\ LoadedCpls(d)' = cpls
                      /\ pklFile'[d] = TrackIds \cup CplIdsInPackage
    OBVIOUS
  <2>1. WriteAssetMap
    <3>1. ~ \/ UNCHANGED vars \/ \E e \in Essences, p \in OutputDirs \X Names : Encode(e, p)
            \/ WriteFails \/ Killed \/ Restart
      BY DEF vars, saveVars, Encode, WriteFails, Killed, Restart, Dies
    <3>2. ~ \/ NewFile \/ SaveFile \/ SaveWithoutPackage
            \/ \E f \in PackageDirs : OpenFile(f) \/ OpenFileFails(f)
            \/ \E p \in Paths : AddTrackFile(p)
            \/ \E c \in CplIds : NewCompositionPlaylist(c)
            \/ \E j \in 1..Len(cpls), e \in Essences : EditPlaylist(j, e)
      BY DEF Idle, NewFile, SaveFile, SaveWithoutPackage, OpenFile, OpenFileFails, AddTrackFile,
             NewCompositionPlaylist, EditPlaylist
    <3>3. ~ \/ NextPhase \/ MoveTrack \/ KeepTrack \/ RenameFails \/ WriteCpl \/ WriteCplRefused
            \/ WritePackageList
      BY DEF NextPhase, MoveTrack, KeepTrack, RenameFails, MustMove, Copying, WriteCpl,
             WriteCplRefused, WritingCpl, WritePackageList
    <3> QED BY <3>1, <3>2, <3>3 DEF Next, SaveStep
  <2> QED BY <2>1, MapCompletesSave
<1> QED BY <1>1, <1>2, <1>3, PTL DEF Spec, SaveThenLoad

=============================================================================
