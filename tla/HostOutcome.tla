------------------------------ MODULE HostOutcome ------------------------------
(***************************************************************************)
(* What RunScan may learn from scanHost: nil, an SMB timeout               *)
(* (errHostSMBTimeout), a context's error, or another error.  ScanHost is  *)
(* checked to return nothing else, ScanRun assumes no more.                *)
(***************************************************************************)
Outcome == {"nil", "timeout", "deadline", "canceled", "error"}

\* A context's error is returned only if the run's context ended that way; nil
\* and a timeout are possible whatever has become of the context.
OutcomesUnder(ctx) == {"nil", "timeout", "error"}
                        \cup ({ctx} \cap {"deadline", "canceled"})
===============================================================================
