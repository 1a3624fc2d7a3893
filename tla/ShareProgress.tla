----------------------------- MODULE ShareProgress -----------------------------
(***************************************************************************)
(* struct shareProgress of internal/state/checkpoint.go and what the       *)
(* Manager's methods do to one entry of its pending map.  NoEntry is a     *)
(* share the map does not hold.                                            *)
(***************************************************************************)
EXTENDS Integers

CONSTANT NoEntry

Entry == [failed : BOOLEAN, remaining : Int, finished : BOOLEAN]

NewEntry == [failed |-> FALSE, remaining |-> 0, finished |-> FALSE]

ASSUME EntryAssumption == NoEntry \notin Entry

Present(e) == IF e = NoEntry THEN NewEntry ELSE e

\* AddPendingFiles: a batch without files does not even make an entry.
Added(e, n) == IF n = 0 THEN e ELSE [Present(e) EXCEPT !.remaining = @ + n]

\* FinishShareEnumeration; without an entry the share had nothing pending.
Ended(e) == [Present(e) EXCEPT !.finished = TRUE]

\* RecordFileResult, for an entry the map holds.
Counted(e, success) == [e EXCEPT !.remaining = @ - 1,
                                 !.failed = @ \/ ~success]

SettledByCount(e) == e.remaining <= 0   \* mutant: finished is not asked for

\* An entry with nothing left to wait for is deleted; without a failure its
\* share is then marked complete.
Settled(e) == e.finished /\ e.remaining <= 0

CompletesAnyway(e) == Settled(e)   \* mutant: failed is not asked for

Completes(e) == Settled(e) /\ ~e.failed

Kept(e) == IF Settled(e) THEN NoEntry ELSE e
===============================================================================
