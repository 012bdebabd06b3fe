---------------------------- MODULE MCLevelGate ----------------------------
(* Instances of LevelGate for TLC. *)
EXTENDS LevelGate

DebugError == {-4, 8}

=============================================================================
