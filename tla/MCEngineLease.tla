--------------------------- MODULE MCEngineLease ---------------------------
(* Two instances on one machine, as on the desktop after a restart.  The    *)
(* first acquires on the event loop of the engine and renews; the second on *)
(* another one, which may end.                                              *)
EXTENDS EngineLease, TLC

CONSTANTS i1, i2, h1, a1

EinRechner == i1 :> h1 @@ i2 :> h1
NurErsteInstanz == {<<i1, a1>>}
=============================================================================
