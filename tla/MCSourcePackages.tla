------------------------- MODULE MCSourcePackages -------------------------
(***************************************************************************)
(* Two packages; a builder, two shells, the script and the build master.   *)
(***************************************************************************)
EXTENDS SourcePackages, TLC

CONSTANTS b, s1, s2, u, m

\* The second package has one version only.
MCVers == {<<1, 1>>, <<1, 2>>, <<2, 1>>}

\* The shells are alike.
ShellSymmetry == Permutations(Shells)
=============================================================================
