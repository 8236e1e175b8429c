----------------------------- MODULE MCClientView -----------------------------
EXTENDS ClientView, TLC
CONSTANT a
Alone == {a :> {}}
=============================================================================
