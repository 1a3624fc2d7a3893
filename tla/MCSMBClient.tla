------------------------------ MODULE MCSMBClient ------------------------------
(***************************************************************************)
(* A small instance of SMBClient: scanHost and one worker, so that up to   *)
(* two operations share the connection.                                    *)
(***************************************************************************)
EXTENDS SMBClient

CONSTANT w1

MCOneWorker == {w1}
===============================================================================
