-------------------------- MODULE MCScratchSpaces --------------------------
(***************************************************************************)
(* A builder on one host and two shells on another.                        *)
(***************************************************************************)
EXTENDS ScratchSpaces, TLC

CONSTANTS b, s1, s2, h1, h2

MCHostOf == (b :> h1) @@ (s1 :> h2) @@ (s2 :> h2)
=============================================================================
