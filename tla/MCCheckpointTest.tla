-------------------------- MODULE MCCheckpointTest --------------------------
(* Bounds for CheckpointTest: the guest exits at any tick, up to well after *)
(* the last checkpoint, or never.                                          *)
EXTENDS CheckpointTest

MCMaxCheckpoints == 3
MCEndOfTime      == (MCMaxCheckpoints + 1) * (3 + MaxDrain)
=============================================================================
