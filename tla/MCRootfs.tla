------------------------------ MODULE MCRootfs ------------------------------
(* Rootfs with an empty image that has one clone, and two versions of one package. *)
EXTENDS Rootfs, TLC

CONSTANTS p1, p2

Twice == {p1, p2}

Old == <<"tool", 1>>
New == <<"tool", 2>>
EmptyAndClone == <<[list |-> {}, parent |-> 0], [list |-> {Old}, parent |-> 1]>>
OldOrNew == {{Old}, {New}, {}}
ToolAvoided == ({Old} :> {} @@ {New} :> {} @@ {} :> {"tool"})
Something == {<<"half", 0>>}

=============================================================================
