----------------------------- MODULE MCEventBus -----------------------------
(***************************************************************************)
(* An instance of EventBus for TLC.                                        *)
(***************************************************************************)
EXTENDS EventBus, TLC

CONSTANTS p1, p2, x1

OneMixed == [p \in Publishers |-> IF p = p1 THEN {x1} ELSE {x1, BadType}]
=============================================================================
