--------------------------- MODULE MCBuildMaster ---------------------------
(***************************************************************************)
(* Instances of BuildMaster for TLC.                                       *)
(***************************************************************************)
EXTENDS BuildMasterOrder, TLC

CONSTANTS a, b, c

\* Two packages that a third needs, and a circular pair with a dependant.
Join == a :> {} @@ b :> {} @@ c :> {a, b}
Pair == a :> {b} @@ b :> {a} @@ c :> {b}
PairAndJoin == {Pair, Join}
=============================================================================
