------------------------------- MODULE MCScanRun -------------------------------
(***************************************************************************)
(* Small instances of ScanRun: two hosts and two runs, the second of which *)
(* may resume the first, with changes of the hosts' files in between.      *)
(***************************************************************************)
EXTENDS ScanRun

CONSTANTS h1, h2

MCHosts == {h1, h2}
MCOneHost == {h1}
===============================================================================
