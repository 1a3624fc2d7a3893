------------------------------ MODULE MCScanHost ------------------------------
(***************************************************************************)
(* A small instance of ScanHost: one share with two files, which fill a    *)
(* batch, and one with a single file, which does not.  An earlier run has  *)
(* completed nothing, one file of the first share and the second, or all.  *)
(***************************************************************************)
EXTENDS ScanHost

CONSTANTS w1, f1, f2, g1, s1, s2

MCShares == {s1, s2}
MCFiles == {f1, f2, g1}
MCshareOf == [f \in MCFiles |-> IF f = g1 THEN s2 ELSE s1]
MCRecovered == {{}, {f2, g1}, MCFiles}
MCOneWorker == {w1}
MCContent == {f1}
===============================================================================
