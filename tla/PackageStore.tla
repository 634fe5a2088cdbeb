---------------------------- MODULE PackageStore ----------------------------
(***************************************************************************)
(* The package of imfgui and the files it is made of: IMFPackage with its  *)
(* packing list, the main window's New, Open, Save, Add File and New       *)
(* Composition Playlist, the table model, and the disk under them.         *)
(*                                                                         *)
(* A track file is the essence in it; the essence is also the UUID that    *)
(* MXFReader finds in the file.  A path is a directory and a base name.    *)
(* The XML files hold what Load reads from them.  Save is a sequence of    *)
(* steps: any of them may fail, and the process may be killed between two. *)
(***************************************************************************)
EXTENDS Integers, Sequences

CONSTANTS Essences,       \* the track files imfenc produces, known by their UUIDs
          VideoEssences,  \* those of type VIDEO; the others are AUDIO
          Names,          \* base names of track files
          OutputDirs,     \* directories imfenc writes to
          PackageDirs,    \* directories a user names when saving a new package
          CplIds,         \* UUIDs of composition playlists
          MaxTracks,      \* bound: the tracks of a package
          NoDir,          \* _location and _name are empty
          Absent, Broken  \* no such file; a file that read_xml rejects

ASSUME KindsAssumption == VideoEssences \subseteq Essences
ASSUME DirsAssumption == NoDir \notin OutputDirs \cup PackageDirs /\ OutputDirs \cap PackageDirs = {}
ASSUME IdsAssumption == Essences \cap CplIds = {}
ASSUME BoundAssumption == MaxTracks \in Nat

VARIABLES disk,     \* the essence in the file at each path
          mapFile,  \* ASSETMAP.xml of each package directory
          pklFile,  \* PKL_<uuid>.xml of each package directory
          cplFile,  \* CPL_<uuid>.xml: the essences its resources refer to
          dirs,     \* the package directories that exist
          produced, \* the essences that imfenc has written
          alive,    \* the application runs
          open,     \* _workingPackage is not null
          dir,      \* _location and _name
          tracks,   \* _videoTracks and _audioTracks, in the order of arrival
          cpls,     \* _compositionPlaylists
          rows,     \* how often IMFPackageModel shows an item, by UUID
          pc, k     \* SaveFile: the loop it is in, and the position there

diskVars == <<disk, mapFile, pklFile, cplFile, dirs, produced>>
packageVars == <<open, dir, tracks, cpls, rows>>
saveVars == <<pc, k>>
vars == <<diskVars, alive, packageVars, saveVars>>

Dirs == OutputDirs \cup PackageDirs
Paths == Dirs \X Names
Ids == Essences \cup CplIds
Tracks == [id : Essences, path : Paths]
Playlists == [id : CplIds, refs : SUBSET Essences]
AssetMaps == [tracks : Seq([id : Essences, name : Names]), cpls : Seq(CplIds)]

(* No file, and a broken file, differ from every content. *)
ASSUME FilesAssumption ==
    /\ Absent # Broken
    /\ \A x \in {Absent, Broken} :
          x \notin Essences /\ x \notin AssetMaps /\ \A s \in SUBSET Ids : x # s

KindOf(e) == IF e \in VideoEssences THEN "video" ELSE "audio"
Elements(s) == {s[i] : i \in 1..Len(s)}

TrackIds == {t.id : t \in Elements(tracks)}
CplIdsInPackage == {c.id : c \in Elements(cpls)}

Init ==
    /\ disk = [p \in Paths |-> Absent]
    /\ mapFile = [d \in PackageDirs |-> Absent]
    /\ pklFile = [d \in PackageDirs |-> Absent]
    /\ cplFile = [f \in PackageDirs \X CplIds |-> Absent]
    /\ dirs = {} /\ produced = {}
    /\ alive = TRUE /\ open = FALSE
    /\ dir = NoDir /\ tracks = <<>> /\ cpls = <<>>
    /\ rows = [i \in Ids |-> 0]
    /\ pc = "idle" /\ k = 1

Idle == alive /\ pc = "idle"

(* imfenc, or another tool, writes a new track file. *)
Encode(e, p) ==
    /\ e \notin produced /\ disk[p] = Absent
    /\ disk' = [disk EXCEPT ![p] = e]
    /\ produced' = produced \cup {e}
    /\ UNCHANGED <<mapFile, pklFile, cplFile, dirs, alive, packageVars, saveVars>>

(***************************************************************************)
(* The main window.                                                        *)
(***************************************************************************)

(* Mutated: the new package takes over the location of the old one. *)
EmptyPackageInPlace(isOpen) ==
    /\ open' = isOpen
    /\ tracks' = <<>> /\ cpls' = <<>> /\ UNCHANGED dir
    /\ rows' = [i \in Ids |-> 0]

(* SetWorkingPackage(new IMFPackage()) and _packageModel.Clear(). *)
EmptyPackage(isOpen) ==
    /\ open' = isOpen
    /\ dir' = NoDir /\ tracks' = <<>> /\ cpls' = <<>>
    /\ rows' = [i \in Ids |-> 0]

NewFile == Idle /\ EmptyPackage(TRUE) /\ UNCHANGED <<diskVars, alive, saveVars>>

(* Mutated: AppendItem without asking HasItem. *)
AppendEvery(shown, ids) == [i \in Ids |-> IF i \in ids THEN shown[i] + 1 ELSE shown[i]]

(* AppendItem for every item of ids for which HasItem answers false. *)
AppendMissing(shown, ids) ==
    [i \in Ids |-> IF i \in ids /\ shown[i] = 0 THEN 1 ELSE shown[i]]

(***************************************************************************)
(* IMFPackage::Load.  Every .mxf that ASSETMAP.xml lists is opened, by its *)
(* path: its UUID comes from the file and not from the list.  Then every   *)
(* .xml is parsed, the packing list too, although only playlists are used. *)
(***************************************************************************)
LoadedTracks(d) ==
    [i \in 1..Len(mapFile[d].tracks) |->
        LET p == <<d, mapFile[d].tracks[i].name>> IN [id |-> disk[p], path |-> p]]

LoadedCpls(d) ==
    [i \in 1..Len(mapFile[d].cpls) |->
        [id |-> mapFile[d].cpls[i], refs |-> cplFile[<<d, mapFile[d].cpls[i]>>]]]

Loads(d) ==
    /\ mapFile[d] \notin {Absent, Broken}
    /\ \A t \in Elements(LoadedTracks(d)) : t.id # Absent
    /\ pklFile[d] \notin {Absent, Broken}
    /\ \A c \in Elements(LoadedCpls(d)) :
          /\ c.refs \notin {Absent, Broken}
          /\ c.refs \subseteq {t.id : t \in Elements(LoadedTracks(d))}

OpenFile(d) ==
    /\ Idle /\ d \in dirs /\ Loads(d)
    /\ open' = TRUE /\ dir' = d
    /\ tracks' = LoadedTracks(d) /\ cpls' = LoadedCpls(d)
    /\ rows' = AppendMissing([i \in Ids |-> 0], TrackIds' \cup CplIdsInPackage')
    /\ UNCHANGED <<diskVars, alive, saveVars>>

(* An exception of Load: a message, and NewFile() in place of what was open. *)
OpenFileFails(d) ==
    /\ Idle /\ d \in dirs /\ ~Loads(d)
    /\ EmptyPackage(TRUE)
    /\ UNCHANGED <<diskVars, alive, saveVars>>

HasTrackFile(p) == \E t \in Elements(tracks) : t.path = p

AddTrackFile(p) ==
    /\ Idle /\ open /\ disk[p] # Absent
    /\ ~HasTrackFile(p)
    /\ Len(tracks) < MaxTracks
    /\ tracks' = Append(tracks, [id |-> disk[p], path |-> p])
    /\ rows' = AppendMissing(rows, TrackIds')
    /\ UNCHANGED <<diskVars, alive, open, dir, cpls, saveVars>>

(* The UUID of a new playlist is fresh: no file and no other playlist has it. *)
NewCompositionPlaylist(c) ==
    /\ Idle /\ open /\ dir # NoDir
    /\ c \notin CplIdsInPackage /\ \A d \in PackageDirs : cplFile[<<d, c>>] = Absent
    /\ cpls' = Append(cpls, [id |-> c, refs |-> {}])
    /\ rows' = [rows EXCEPT ![c] = @ + 1]
    /\ UNCHANGED <<diskVars, alive, open, dir, tracks, saveVars>>

(* The timeline editor, which CplEditor models: resources that refer to a *)
(* track of the table are dropped into a playlist, or deleted from it.    *)
EditPlaylist(j, e) ==
    /\ Idle /\ open /\ rows[e] > 0
    /\ cpls' = [cpls EXCEPT ![j].refs = IF e \in @ THEN @ \ {e} ELSE @ \cup {e}]
    /\ UNCHANGED <<diskVars, alive, open, dir, tracks, rows, saveVars>>

(* The process is killed, or left by an exception that nobody catches. *)
Dies == alive' = FALSE /\ EmptyPackage(FALSE) /\ pc' = "idle" /\ k' = 1

Killed == alive /\ (open \/ pc # "idle") /\ Dies /\ UNCHANGED diskVars
Restart == ~alive /\ alive' = TRUE /\ UNCHANGED <<diskVars, packageVars, saveVars>>

(***************************************************************************)
(* SaveFile: the dialog of a first save, CopyTrackFiles, Write.            *)
(***************************************************************************)
SaveFile ==
    /\ Idle /\ open
    /\ \/ dir # NoDir /\ UNCHANGED <<dir, dirs>>
       \/ dir = NoDir /\ \E d \in PackageDirs \ dirs : dir' = d /\ dirs' = dirs \cup {d}
    /\ pc' = "video" /\ k' = 1
    /\ UNCHANGED <<disk, mapFile, pklFile, cplFile, produced, alive, open, tracks, cpls, rows>>

(* Save is enabled before there is a package: workingPackage is null. *)
SaveWithoutPackage == Idle /\ ~open /\ Dies /\ UNCHANGED diskVars

Phases == {"idle", "video", "audio", "cpl", "pkl", "map"}

(* Mutated: the list of all assets is written first. *)
AfterMapFirst(phase) ==
    CASE phase = "video" -> "audio"
      [] phase = "audio" -> "map"
      [] phase = "map"   -> "cpl"
      [] phase = "cpl"   -> "pkl"
      [] OTHER           -> "idle"

After(phase) ==
    CASE phase = "video" -> "audio"
      [] phase = "audio" -> "cpl"
      [] phase = "cpl"   -> "pkl"
      [] phase = "pkl"   -> "map"
      [] OTHER           -> "idle"

Copying == pc \in {"video", "audio"} /\ k <= Len(tracks)
WritingCpl == pc = "cpl" /\ k <= Len(cpls)

NextPhase ==
    /\ pc \in {"video", "audio", "cpl"} /\ ~Copying /\ ~WritingCpl
    /\ pc' = After(pc) /\ k' = 1
    /\ UNCHANGED <<diskVars, alive, packageVars>>

Target(t) == <<dir, t.path[2]>>

(* Mutated: the target is replaced if it exists. *)
MustMoveAlways == Copying /\ KindOf(tracks[k].id) = pc /\ tracks[k].path # Target(tracks[k])

(* The loop over the tracks of one kind moves a file unless its target exists. *)
MustMove == Copying /\ KindOf(tracks[k].id) = pc /\ disk[Target(tracks[k])] = Absent

Rename(from, to) == disk' = [disk EXCEPT ![to] = disk[from], ![from] = Absent]
(* Mutated: the track keeps the path it came from. *)
SetPathNot(to) == tracks' = tracks

SetPath(to) == tracks' = [tracks EXCEPT ![k].path = to]

MoveTrack ==
    /\ MustMove
    /\ Rename(tracks[k].path, Target(tracks[k]))
    /\ SetPath(Target(tracks[k]))
    /\ k' = k + 1
    /\ UNCHANGED <<mapFile, pklFile, cplFile, dirs, produced, alive, open, dir, cpls, rows, pc>>

KeepTrack == Copying /\ ~MustMove /\ k' = k + 1 /\ UNCHANGED <<diskVars, alive, packageVars, pc>>

(* rename throws filesystem_error: caught for audio only. *)
RenameFails ==
    /\ MustMove
    /\ \/ pc = "video" /\ Dies
       \/ pc = "audio" /\ pc' = "idle" /\ k' = 1 /\ UNCHANGED <<alive, packageVars>>
    /\ UNCHANGED diskVars

WriteCpl ==
    /\ WritingCpl
    /\ cplFile' = [cplFile EXCEPT ![<<dir, cpls[k].id>>] = cpls[k].refs]
    /\ k' = k + 1
    /\ UNCHANGED <<disk, mapFile, pklFile, dirs, produced, alive, packageVars, pc>>

(* A sequence with resources of both kinds is refused before the file is opened. *)
WriteCplRefused ==
    /\ WritingCpl
    /\ cpls[k].refs \cap VideoEssences # {} /\ cpls[k].refs \ VideoEssences # {}
    /\ pc' = "idle" /\ k' = 1
    /\ UNCHANGED <<diskVars, alive, packageVars>>

WritePackageList ==
    /\ pc = "pkl"
    /\ pklFile' = [pklFile EXCEPT ![dir] = TrackIds \cup CplIdsInPackage]
    /\ pc' = After(pc)
    /\ UNCHANGED <<disk, mapFile, cplFile, dirs, produced, alive, packageVars, k>>

(* Mutated: the last playlist is left out. *)
AssetListShort == [tracks |-> [i \in 1..Len(tracks) |-> [id |-> tracks[i].id, name |-> tracks[i].path[2]]],
                   cpls |-> [i \in 1..Len(cpls) - 1 |-> cpls[i].id]]

AssetList == [tracks |-> [i \in 1..Len(tracks) |-> [id |-> tracks[i].id, name |-> tracks[i].path[2]]],
              cpls |-> [i \in 1..Len(cpls) |-> cpls[i].id]]

WriteAssetMap ==
    /\ pc = "map"
    /\ mapFile' = [mapFile EXCEPT ![dir] = AssetList]
    /\ pc' = After(pc)
    /\ UNCHANGED <<disk, pklFile, cplFile, dirs, produced, alive, packageVars, k>>

(* write_xml cannot open the file, or stops in the middle of it, by an    *)
(* exception that SaveFile does not catch or because the process is killed. *)
WriteFails ==
    /\ \/ WritingCpl /\ cplFile' = [cplFile EXCEPT ![<<dir, cpls[k].id>>] = Broken]
                     /\ UNCHANGED <<pklFile, mapFile>>
       \/ pc = "pkl" /\ pklFile' = [pklFile EXCEPT ![dir] = Broken] /\ UNCHANGED <<cplFile, mapFile>>
       \/ pc = "map" /\ mapFile' = [mapFile EXCEPT ![dir] = Broken] /\ UNCHANGED <<cplFile, pklFile>>
    /\ Dies
    /\ UNCHANGED <<disk, dirs, produced>>

SaveStep ==
    \/ NextPhase \/ MoveTrack \/ KeepTrack \/ RenameFails
    \/ WriteCpl \/ WriteCplRefused \/ WritePackageList \/ WriteAssetMap \/ WriteFails

Next ==
    \/ \E e \in Essences, p \in OutputDirs \X Names : Encode(e, p)
    \/ NewFile
    \/ \E d \in PackageDirs : OpenFile(d) \/ OpenFileFails(d)
    \/ \E p \in Paths : AddTrackFile(p)
    \/ \E c \in CplIds : NewCompositionPlaylist(c)
    \/ \E j \in 1..Len(cpls), e \in Essences : EditPlaylist(j, e)
    \/ SaveFile \/ SaveWithoutPackage \/ SaveStep
    \/ Killed \/ Restart

Spec == Init /\ [][Next]_vars

-----------------------------------------------------------------------------
(* TypeOK: the types of the variables.  With the package saved nowhere,   *)
(* no step of a save is under way; a package that is not there is empty.  *)
TypeOK ==
    /\ disk \in [Paths -> Essences \cup {Absent}]
    /\ mapFile \in [PackageDirs -> AssetMaps \cup {Absent, Broken}]
    /\ pklFile \in [PackageDirs -> (SUBSET Ids) \cup {Absent, Broken}]
    /\ cplFile \in [PackageDirs \X CplIds -> (SUBSET Essences) \cup {Absent, Broken}]
    /\ dirs \subseteq PackageDirs /\ produced \subseteq Essences
    /\ alive \in BOOLEAN /\ open \in BOOLEAN
    /\ dir \in dirs \cup {NoDir}
    /\ tracks \in Seq(Tracks) /\ cpls \in Seq(Playlists)
    /\ rows \in [Ids -> Nat]
    /\ pc \in Phases /\ k \in Nat \ {0}
    /\ pc # "idle" => alive /\ open /\ dir # NoDir
    /\ ~open => tracks = <<>> /\ cpls = <<>> /\ dir = NoDir

(* EssencesKept: CopyTrackFiles moves files, failures and crashes included, *)
(* so that every track file ever written exists, under exactly one path:   *)
(* no rename replaces a file that holds another track.                     *)
EssencesKept ==
    \A e \in produced : \E p \in Paths : disk[p] = e /\ \A r \in Paths : disk[r] = e => r = p

(* PathsCurrent: the path of a track in memory leads to the file that holds *)
(* the track, in the middle of a save too.  file_size, which throws through *)
(* SaveFile when there is no such file, never meets a missing track.        *)
PathsCurrent == \A t \in Elements(tracks) : disk[t.path] = t.id

(* TableShowsPackage: whatever was added, opened and failed to open, the   *)
(* table has one row for each UUID in the package, and no other row.       *)
TableShowsPackage ==
    \A i \in Ids : rows[i] = IF i \in TrackIds \cup CplIdsInPackage THEN 1 ELSE 0

(* NothingListedAhead: ASSETMAP.xml is written last, so that whenever the  *)
(* process dies a readable one lists only playlists and a packing list     *)
(* that have been written (if not always to their end).                    *)
NothingListedAhead ==
    \A d \in PackageDirs : mapFile[d] \notin {Absent, Broken} =>
        /\ pklFile[d] # Absent
        /\ \A c \in Elements(mapFile[d].cpls) : cplFile[<<d, c>>] # Absent

(* SaveThenLoad: when a save has run to its end and every track found its  *)
(* place, opening the directory gives the package back as it is in memory, *)
(* and the packing list names its parts.                                   *)
SaveThenLoad ==
    [][\A d \in PackageDirs :
          (pc = "map" /\ pc' = "idle" /\ alive' /\ dir = d /\ \A t \in Elements(tracks) : t.path[1] = d)
             => /\ Loads(d)'
                /\ LoadedTracks(d)' = tracks /\ LoadedCpls(d)' = cpls
                /\ pklFile'[d] = TrackIds \cup CplIdsInPackage]_vars

(* CopyingKeepsOldPackage: until Write begins, a save that is interrupted  *)
(* leaves what an earlier save stored in the directory as it was: it loads *)
(* if it loaded before, with the same tracks and playlists.                *)
CopyingKeepsOldPackage ==
    [][\A d \in PackageDirs :
          (pc \in {"video", "audio"} /\ dir = d /\ Loads(d))
             => /\ Loads(d)'
                /\ LoadedTracks(d)' = LoadedTracks(d) /\ LoadedCpls(d)' = LoadedCpls(d)]_vars

(* AllFilesCopied, as IMFPackage's header says of CopyTrackFiles ("copies  *)
(* all files into package directory"): when it has returned, every track   *)
(* of the package is in the directory.  Violated: a file whose name is     *)
(* taken there stays where it was.                                         *)
AllFilesCopied == pc = "cpl" => \A t \in Elements(tracks) : t.path[1] = dir
=============================================================================
