--------------------------- MODULE MCPackageStore ---------------------------
(* A picture and a sound track file, two file names, two packages, one      *)
(* playlist.  Names and package directories are interchangeable.            *)
EXTENDS PackageStore, TLC

CONSTANTS v1, a1, n1, n2, p1, p2

MCEssences == {v1, a1}
MCVideo == {v1}
MCNames == {n1, n2}
MCPackageDirs == {p1, p2}

Symmetry == {f @@ g : f \in Permutations(MCNames), g \in Permutations(MCPackageDirs)}
=============================================================================
