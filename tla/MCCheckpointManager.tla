-------------------------- MODULE MCCheckpointManager --------------------------
(***************************************************************************)
(* Two shares, scanned in up to two passes: one with two files (batches of *)
(* one and of two), one with a single file whose callbacks overlap the     *)
(* other's walk.                                                           *)
(***************************************************************************)
EXTENDS CheckpointManager, TLC

CONSTANTS s1, s2, f1, f2, g1

MCShares == {s1, s2}

MCFiles == {f1, f2, g1}

MCshareOf == (f1 :> s1) @@ (f2 :> s1) @@ (g1 :> s2)
===============================================================================
