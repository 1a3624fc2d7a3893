------------------------------- MODULE ScanHost -------------------------------
(***************************************************************************)
(* scanHost of internal/app/scan.go, from the moment its pool is started:  *)
(* one goroutine walks the shares of a host one after the other, hands the *)
(* files to the pool of WorkerPool in batches and keeps the checkpoint's   *)
(* manager informed; the workers' callbacks inform it too.  It ends with   *)
(* an error, or RunScan marks the host complete.                           *)
(*                                                                         *)
(* A job is a file the walk of its share would yield.  What can stop it:   *)
(* the scan's context (a time limit, or the user), an SMB operation that   *)
(* times out, any other failure of a walk, and a sink that fails.          *)
(***************************************************************************)
EXTENDS WorkerPool, ShareProgress, HostOutcome

CONSTANTS Shares,
          shareOf,       \* the share of each file
          NoShare,
          BatchSize,     \* sharePlanningBatchSize
          Recovered      \* bound: what earlier runs may have completed, sets of files

ASSUME HostAssumption == /\ shareOf \in [Jobs -> Shares]
                         /\ NoShare \notin Shares
                         /\ BatchSize \in Nat \ {0}
                         /\ Recovered \subseteq SUBSET Jobs

FilesOf(s) == {f \in Jobs : shareOf[f] = s}

VARIABLES
    pending, sharesDone, filesDone,   \* the manager and its store
    walk,         \* how far the walk of each share is
    walker,       \* the goroutine of scanHost: where it is, and its share
    listed,       \* fileInputs: the files of the batch not yet planned and sent
    yielded,      \* the files the walk has yielded
    known,        \* the files ShouldSkipFile was true of
    batch,        \* queuedThisBatch
    verdict,      \* what RecordFileResult was called with, per file
    walkErrs, hostTimedOut,
    clientClosed,
    scanCtx,      \* the context of the run
    hostErr,      \* what scanHost returned, "none" before
    hostDone      \* the host is marked complete

managerVars == <<pending, sharesDone, filesDone>>
walkVars == <<walk, walker, listed, yielded, known, batch>>
errVars == <<walkErrs, hostTimedOut, clientClosed>>
endVars == <<hostErr, hostDone>>
hostVars == <<managerVars, walkVars, verdict, errVars, scanCtx, endVars>>
hvars == <<vars, hostVars>>

WalkerPhase == {"loop", "walking", "flushing", "lastFlush", "finishing",
                "timedOut", "closing", "waiting", "returned"}

HostTypeOK ==
    /\ TypeOK
    /\ pending \in [Shares -> Entry \cup {NoEntry}]
    /\ sharesDone \subseteq Shares
    /\ filesDone \subseteq Jobs
    /\ walk \in [Shares -> {"todo", "walking", "finished", "aborted", "skipped"}]
    /\ walker \in [at : WalkerPhase, share : Shares \cup {NoShare}]
    /\ listed \subseteq Jobs /\ yielded \subseteq Jobs /\ known \subseteq Jobs
    /\ batch \in Nat
    /\ verdict \in [Jobs -> {"none", "succeeded", "failed"}]
    /\ walkErrs \subseteq {"walk", "canceled", "deadline"}
    /\ hostTimedOut \in BOOLEAN
    /\ clientClosed \in BOOLEAN
    /\ scanCtx \in Reason \cup {"live"}
    /\ hostErr \in {"none", "nil", "timeout", "sink", "deadline", "walk"}
    /\ hostDone \in BOOLEAN

\* A resumed run knows shares and files an earlier run completed.
HostInit ==
    /\ Init
    /\ pending = [s \in Shares |-> NoEntry]
    /\ filesDone \in Recovered
    /\ sharesDone \in SUBSET {s \in Shares : FilesOf(s) \subseteq filesDone}
    /\ walk = [s \in Shares |-> "todo"]
    /\ walker = [at |-> "loop", share |-> NoShare]
    /\ listed = {} /\ yielded = {} /\ known = {} /\ batch = 0
    /\ verdict = [f \in Jobs |-> "none"]
    /\ walkErrs = {} /\ hostTimedOut = FALSE /\ clientClosed = FALSE
    /\ scanCtx = "live"
    /\ hostErr = "none" /\ hostDone = FALSE

Here == walker.share
-------------------------------------------------------------------------------
(***************************************************************************)
(* The loop over the planned shares.                                       *)
(***************************************************************************)
\* ShouldSkipShare
SkipShare(s) == /\ walker.at = "loop"
                /\ walk[s] = "todo"
                /\ s \in sharesDone
                /\ walk' = [walk EXCEPT ![s] = "skipped"]
                /\ UNCHANGED <<vars, managerVars, walker, listed, yielded, known,
                               batch, verdict, errVars, scanCtx, endVars>>

StartShare(s) == /\ walker.at = "loop"
                 /\ walk[s] = "todo"
                 /\ s \notin sharesDone
                 /\ walk' = [walk EXCEPT ![s] = "walking"]
                 /\ walker' = [at |-> "walking", share |-> s]
                 /\ pending' = [pending EXCEPT ![s] = Present(@)]
                 /\ listed' = {}
                 /\ UNCHANGED <<vars, sharesDone, filesDone, yielded, known, batch,
                                verdict, errVars, scanCtx, endVars>>

\* The walk's callback; a full batch is flushed from inside it.
YieldFile(f) == /\ walker.at = "walking"
                /\ shareOf[f] = Here
                /\ f \notin yielded
                /\ yielded' = yielded \cup {f}
                /\ listed' = listed \cup {f}
                /\ walker' = IF Cardinality(listed') >= BatchSize
                             THEN [walker EXCEPT !.at = "flushing"] ELSE walker
                /\ UNCHANGED <<vars, managerVars, walk, known, batch, verdict,
                               errVars, scanCtx, endVars>>

\* The walk returned nil: what is left is flushed by the loop itself.
EndWalk == /\ walker.at = "walking"
           /\ FilesOf(Here) \subseteq yielded
           /\ walker' = [walker EXCEPT !.at = IF listed = {} THEN "finishing"
                                              ELSE "lastFlush"]
           /\ UNCHANGED <<vars, managerVars, walk, listed, yielded, known, batch,
                          verdict, errVars, scanCtx, endVars>>
-------------------------------------------------------------------------------
(***************************************************************************)
(* flushBatch.                                                             *)
(***************************************************************************)
Flushing == walker.at \in {"flushing", "lastFlush"}

\* ShouldSkipFile
SkipFile(f) == /\ Flushing
               /\ f \in listed \cap filesDone
               /\ listed' = listed \ {f}
               /\ known' = known \cup {f}
               /\ UNCHANGED <<vars, managerVars, walk, walker, yielded, batch,
                              verdict, errVars, scanCtx, endVars>>

\* The send waits for room in the channel.  With the context done and room in
\* the channel the select may take either case.
Enqueue(f) == /\ Flushing
              /\ f \in listed \ filesDone
              /\ SendJob(f)
              /\ listed' = listed \ {f}
              /\ batch' = batch + 1
              /\ UNCHANGED <<managerVars, walk, walker, yielded, known, verdict,
                             errVars, scanCtx, endVars>>

UncountedFlush ==   \* mutant: the batch is not added to the pending files
    /\ Flushing
    /\ listed = {}
    /\ batch' = 0
    /\ walker' = [walker EXCEPT !.at = IF @ = "lastFlush" THEN "finishing"
                                       ELSE "walking"]
    /\ UNCHANGED <<vars, managerVars, walk, listed, yielded, known, verdict,
                   errVars, scanCtx, endVars>>

\* AddPendingFiles, after the batch is sent.
EndFlush == /\ Flushing
            /\ listed = {}
            /\ pending' = [pending EXCEPT ![Here] = Added(@, batch)]
            /\ batch' = 0
            /\ walker' = [walker EXCEPT !.at = IF @ = "lastFlush" THEN "finishing"
                                               ELSE "walking"]
            /\ UNCHANGED <<vars, sharesDone, filesDone, walk, listed, yielded,
                           known, verdict, errVars, scanCtx, endVars>>

FinishShareEnumeration ==
    /\ walker.at = "finishing"
    /\ walk' = [walk EXCEPT ![Here] = "finished"]
    /\ pending' = [pending EXCEPT ![Here] = Kept(Ended(@))]
    /\ sharesDone' = IF Completes(Ended(pending[Here])) THEN sharesDone \cup {Here}
                     ELSE sharesDone
    /\ walker' = [at |-> "loop", share |-> NoShare]
    /\ UNCHANGED <<vars, filesDone, listed, yielded, known, batch, verdict, errVars,
                   scanCtx, endVars>>
-------------------------------------------------------------------------------
(***************************************************************************)
(* Errors of a walk, of the flushes inside it and of the last flush.       *)
(***************************************************************************)
AbortShare == /\ walk' = [walk EXCEPT ![Here] = "aborted"]
              /\ pending' = [pending EXCEPT ![Here] = NoEntry]
              /\ listed' = {}
              /\ batch' = 0
              /\ UNCHANGED <<vars, sharesDone, filesDone, yielded, known, verdict,
                             clientClosed, scanCtx, endVars>>

\* The share is given up, the loop goes on with the next one.
ContinueAfter(err) == /\ AbortShare
                      /\ walkErrs' = walkErrs \cup {err}
                      /\ walker' = [at |-> "loop", share |-> NoShare]
                      /\ UNCHANGED hostTimedOut

\* The host is given up.
GiveUpHost == /\ AbortShare
              /\ hostTimedOut' = TRUE
              /\ walker' = [walker EXCEPT !.at = "timedOut"]
              /\ UNCHANGED walkErrs

FailWalk == walker.at = "walking" /\ (ContinueAfter("walk") \/ GiveUpHost)

\* A flush has a job to send when the context is done.  IsTimeoutError takes
\* the context's deadline, returned through the walk, for a timeout of SMB.
StopFlush == /\ Flushing
             /\ listed \ filesDone # {}
             /\ poolCtx # "live"
             /\ IF walker.at = "flushing" /\ poolCtx = "deadline"
                THEN GiveUpHost
                ELSE ContinueAfter(poolCtx)

\* cancel() and client.Close(): jobs in the channel may never be taken, and
\* reads under way fail.
CancelPool == /\ walker.at = "timedOut"
              /\ poolCtx' = Cancelled(poolCtx, "canceled")
              /\ runCtx' = Cancelled(runCtx, "canceled")
              /\ clientClosed' = TRUE
              /\ walker' = [walker EXCEPT !.at = "closing"]
              /\ UNCHANGED <<envVars, queue, worker, jobVars, results, sinkVars,
                             scanVars, managerVars, walk, listed, yielded, known,
                             batch, verdict, walkErrs, hostTimedOut, scanCtx,
                             endVars>>
-------------------------------------------------------------------------------
(***************************************************************************)
(* The end of scanHost.                                                    *)
(***************************************************************************)
EndLoop == /\ walker.at = "loop"
           /\ \A s \in Shares : walk[s] # "todo"
           /\ walker' = [walker EXCEPT !.at = "closing"]
           /\ UNCHANGED <<vars, managerVars, walk, listed, yielded, known, batch,
                          verdict, errVars, scanCtx, endVars>>

CloseWithoutErrors ==   \* mutant: after a walk error the channel stays open
    /\ walker.at = "closing"
    /\ IF walkErrs = {} THEN CloseJobs ELSE UNCHANGED vars
    /\ walker' = [walker EXCEPT !.at = "waiting"]
    /\ UNCHANGED <<managerVars, walk, listed, yielded, known, batch, verdict,
                   errVars, scanCtx, endVars>>

CloseQueue == /\ walker.at = "closing"
              /\ CloseJobs
              /\ walker' = [walker EXCEPT !.at = "waiting"]
              /\ UNCHANGED <<managerVars, walk, listed, yielded, known, batch,
                             verdict, errVars, scanCtx, endVars>>

WalkError == IF hostTimedOut THEN "timeout"   \* mutant: poolErr is not looked at
             ELSE IF walkErrs # {} THEN "walk" ELSE "nil"

RawError == IF hostTimedOut   \* mutant: the walk's own error, not errHostSMBTimeout
            THEN IF poolCtx = "deadline" THEN "deadline" ELSE "canceled"
            ELSE IF scanErr # "nil" THEN scanErr
            ELSE IF walkErrs # {} THEN "walk" ELSE "nil"

HostError == IF hostTimedOut THEN "timeout"
             ELSE IF scanErr # "nil" THEN scanErr
             ELSE IF walkErrs # {} THEN "walk" ELSE "nil"

\* scanHost waited for the pool; without an error RunScan marks the host.
ReturnHost == /\ walker.at = "waiting"
              /\ scan = "returned"
              /\ hostErr' = HostError
              /\ hostDone' = (HostError = "nil")
              /\ walker' = [walker EXCEPT !.at = "returned"]
              /\ UNCHANGED <<vars, managerVars, walk, listed, yielded, known, batch,
                             verdict, errVars, scanCtx>>
-------------------------------------------------------------------------------
(***************************************************************************)
(* The pool.  OnComplete is RecordFileResult, in its two critical sections;*)
(* the worker that calls it is between its load and the result.            *)
(***************************************************************************)
LoadFile(w) == LET f == worker[w].job
               IN  /\ Load(w)
                   /\ verdict[f] = "none"
                   /\ (clientClosed /\ f \in ContentJobs) => f \in failed'
                   /\ UNCHANGED hostVars

\* The store's lock: a file that succeeded is complete.  A worker that has not
\* loaded the file is panicking.
RecordFile(w) ==
    LET f == worker[w].job
    IN  /\ worker[w].at \in {"took", "loaded"}
        /\ verdict[f] = "none"
        /\ \/ /\ worker[w].at = "loaded" /\ f \notin failed
              /\ verdict' = [verdict EXCEPT ![f] = "succeeded"]
              /\ filesDone' = filesDone \cup {f}
           \/ /\ verdict' = [verdict EXCEPT ![f] = "failed"]
              /\ UNCHANGED filesDone
        /\ UNCHANGED <<vars, pending, sharesDone, walkVars, errVars, scanCtx,
                       endVars>>

\* The manager's lock, and the callback returns.
RecordShare(w) ==
    LET f == worker[w].job
        s == shareOf[f]
        e == Counted(pending[s], verdict[f] = "succeeded")
    IN  /\ worker[w].at \in {"took", "loaded"}
        /\ \/ Evaluate(w) /\ (verdict[f] = "succeeded" <=> f \notin failed)
           \/ Panic(w)
        /\ verdict[f] = "failed" <=> f \in failed'
        /\ verdict[f] # "none"
        /\ IF pending[s] = NoEntry
           THEN UNCHANGED <<pending, sharesDone>>
           ELSE /\ pending' = [pending EXCEPT ![s] = Kept(e)]
                /\ sharesDone' = IF Completes(e) THEN sharesDone \cup {s}
                                 ELSE sharesDone
        /\ UNCHANGED <<filesDone, walkVars, verdict, errVars, scanCtx, endVars>>

WorkerStep(w) == \/ LoadFile(w) \/ RecordFile(w) \/ RecordShare(w)
                 \/ /\ \/ \E f \in Jobs : Take(w, f)
                       \/ Leave(w) \/ SendResult(w) \/ DropResult(w)
                    /\ UNCHANGED hostVars

PoolStep == (Collector \/ CloseResults \/ Return) /\ UNCHANGED hostVars

\* The time limit, or the user's Ctrl-C.
StopScan(reason) == /\ scanCtx = "live"
                    /\ scanCtx' = reason
                    /\ poolCtx' = Cancelled(poolCtx, reason)
                    /\ runCtx' = Cancelled(runCtx, reason)
                    /\ UNCHANGED <<envVars, queue, worker, jobVars, results,
                                   sinkVars, scanVars, managerVars, walkVars,
                                   verdict, errVars, endVars>>
-------------------------------------------------------------------------------
Walker == \/ \E s \in Shares : SkipShare(s) \/ StartShare(s)
          \/ \E f \in Jobs : YieldFile(f) \/ SkipFile(f) \/ Enqueue(f)
          \/ EndWalk \/ EndFlush \/ FinishShareEnumeration
          \/ FailWalk \/ StopFlush \/ CancelPool
          \/ EndLoop \/ CloseQueue \/ ReturnHost

HostNext == \/ Walker
            \/ \E w \in Workers : WorkerStep(w)
            \/ PoolStep
            \/ \E reason \in Reason : StopScan(reason)

HostSpec == HostInit /\ [][HostNext]_hvars

\* A read that is under way when the client is closed on a healthy connection,
\* as at the time limit, may never return (SMBClient).
Stuck(w) == /\ clientClosed /\ scanCtx = "deadline"
            /\ worker[w].at = "took" /\ worker[w].job \in ContentJobs

\* Some goroutine that can run does, and every other SMB operation returns (it has a
\* timeout); nothing has to stop the scan.
HostFairness ==
    WF_hvars(\/ Walker
             \/ \E w \in Workers : WorkerStep(w) /\ ~Stuck(w)
             \/ (Collector \/ CloseResults \/ Return) /\ UNCHANGED hostVars)

HostFairSpec == HostSpec /\ HostFairness
-------------------------------------------------------------------------------
(***************************************************************************)
(* Properties.                                                             *)
(***************************************************************************)
Recorded(f) == f \in filesDone \/ calls[f] = 1

\* A host is marked complete only if all its shares were walked to the end and
\* each of their files was sent or known, whatever failed or stopped on the way
\* (a later run will not look at the host again); and if the scan was not stopped
\* either, each of its files has been looked at and all that was found is in the
\* sink.
CompletedHostIsReported ==
    hostDone => /\ \A s \in Shares : walk[s] \in {"finished", "skipped"}
                /\ \A f \in Jobs : walk[shareOf[f]] = "finished"
                                      => f \in sent \cup known
                /\ scanCtx = "live" =>
                      \A f \in Jobs : Recorded(f) /\ written[f] = found[f]

\* What RunScan can tell of the error (errors.Is), and does next, agrees with what
\* became of the run's context: an SMB timeout, a cancelled pool or a failed walk
\* is never taken for the time limit or for the user's Ctrl-C, which end the run.
SeenAs == CASE hostErr = "sink" -> "error"
            [] hostErr = "walk" -> IF "canceled" \in walkErrs THEN "canceled"
                                   ELSE IF "deadline" \in walkErrs THEN "deadline"
                                   ELSE "error"
            [] OTHER -> hostErr

OutcomeFitsContext == walker.at = "returned" => SeenAs \in OutcomesUnder(scanCtx)

\* scanHost returns, unless the sink has failed (then the workers are gone and
\* the walker may wait for ever to send to them: their context is not poolCtx) or
\* a read is stuck.
HostReturns == \/ <>(walker.at = "returned" \/ collectErr = "sink")
               \/ <>[](\E w \in Workers : Stuck(w))

\* troubleshooting.md: at the time limit partial results are still written and
\* the checkpoint remains usable.  Checked by itself: a file can be recorded as
\* complete while its findings are dropped, and a resumed run skips it.
RecordedFilesAreReported ==
    (walker.at = "returned" /\ scanCtx = "deadline" /\ collectErr # "sink") =>
        \A f \in sent \cap filesDone : written[f] = found[f]
-------------------------------------------------------------------------------
(***************************************************************************)
(* The host's scan implements CheckpointManager in its one pass: the real  *)
(* walk, flushes, channel, workers and contexts use the manager as that    *)
(* module assumes, so what it shows of shares holds here.                  *)
(***************************************************************************)
JobOf(f) == IF calls[f] > 0 THEN "recorded"
            ELSE IF verdict[f] # "none" THEN verdict[f]
            ELSE IF f \in sent THEN "queued"
            ELSE IF f \in known THEN "known" ELSE "unseen"

Manager == INSTANCE CheckpointManager
           WITH Files <- Jobs, MaxPasses <- 1, pass <- 1,
                job <- [f \in Jobs |-> JobOf(f)],
                cancelled <- (poolCtx # "live")

\* Every step of the host's scan is a step of CheckpointManager or changes
\* nothing that module speaks of.
ImplementsCheckpointManager == Manager!Spec
-------------------------------------------------------------------------------
(***************************************************************************)
(* The inductive invariant: the walker's place, the files of a batch, what *)
(* became of the files of a share, and why a context is done.              *)
(***************************************************************************)
\* In a share, between StartShare and the end of its walk.
InShare == walker.at \in {"walking", "flushing", "lastFlush", "finishing"}

\* After the loop over the shares.
AfterLoop == walker.at \in {"closing", "waiting", "returned"}

WalkerInv ==
    /\ InShare => Here \in Shares
    /\ \A s \in Shares : walk[s] = "walking" <=> (InShare /\ s = Here)
    /\ hostTimedOut => walker.at = "timedOut" \/ AfterLoop
    /\ walker.at = "timedOut" => hostTimedOut
    /\ (AfterLoop /\ ~hostTimedOut) => \A s \in Shares : walk[s] # "todo"

BatchInv ==
    /\ \A f \in listed : InShare /\ shareOf[f] = Here
    /\ ~Flushing => batch = 0
    /\ walker.at = "finishing" => listed = {}
    /\ walker.at \in {"lastFlush", "finishing"} => FilesOf(Here) \subseteq yielded

PlaceInv ==
    /\ known \subseteq filesDone
    /\ sent \cup known \cup listed \subseteq yielded
    /\ listed \cap (sent \cup known) = {} /\ sent \cap known = {}
    /\ \A f \in Jobs :
          /\ walk[shareOf[f]] \in {"todo", "skipped"} => f \notin yielded
          /\ walk[shareOf[f]] = "finished" => f \in yielded
          /\ (walk[shareOf[f]] \in {"walking", "finished"} /\ f \in yielded)
                => f \in listed \cup sent \cup known

ShareInv ==
    \A s \in Shares :
        /\ walk[s] \in {"todo", "skipped"} =>
              /\ pending[s] = NoEntry
              /\ s \in sharesDone => FilesOf(s) \subseteq filesDone
        /\ walk[s] = "skipped" => s \in sharesDone
        /\ walk[s] = "aborted" => hostTimedOut \/ walkErrs # {}

ContextInv ==
    /\ poolCtx # "live" => runCtx # "live" /\ (hostTimedOut \/ poolCtx = scanCtx)
    /\ scanCtx # "live" => poolCtx # "live"
    /\ "deadline" \in {poolCtx, runCtx, collectErr, scanErr} => scanCtx = "deadline"
    /\ \A reason \in Reason : reason \in walkErrs => scanCtx = reason

VerdictInv == \A f \in Jobs : /\ verdict[f] # "none" => f \in sent \ queue
                              /\ calls[f] > 0 => verdict[f] # "none"

ReturnInv == IF walker.at = "returned"
             THEN /\ scan = "returned"
                  /\ hostErr = HostError
                  /\ hostDone = (HostError = "nil")
             ELSE hostErr = "none" /\ ~hostDone

HostInv == /\ HostTypeOK /\ PoolInv
           /\ WalkerInv /\ BatchInv /\ PlaceInv /\ ShareInv
           /\ ContextInv /\ VerdictInv /\ ReturnInv
===============================================================================
