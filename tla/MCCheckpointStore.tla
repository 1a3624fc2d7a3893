--------------------------- MODULE MCCheckpointStore ---------------------------
(***************************************************************************)
(* Small instances of CheckpointStore: one host, a share and a file that   *)
(* are each spelled in two ways or left blank, one size and one known      *)
(* modification time (so a file has two states besides legacy and none).   *)
(***************************************************************************)
EXTENDS CheckpointStore

MCHosts == {"a"}

MCNames == {"A", "a", "blank"}

MCnormalizeKey == [n \in MCNames |-> IF n = "blank" THEN NoKey ELSE "a"]
===============================================================================
