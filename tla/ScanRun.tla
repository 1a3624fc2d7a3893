-------------------------------- MODULE ScanRun --------------------------------
(***************************************************************************)
(* RunScan of internal/app/scan.go: one run of the program, from its       *)
(* configuration to its last deferred call, and the runs that resume it.   *)
(* Its main goroutine opens the checkpoint, resolves the targets, opens    *)
(* the writers and scans host after host (scanHost is ScanHost; here it    *)
(* has one of the outcomes of HostOutcome).  Beside it run the saving      *)
(* goroutine of the checkpoint, the terminal interface and its user, the   *)
(* progress reporter and the time limit.  Go's deferred calls are a stack. *)
(*                                                                         *)
(* Without the terminal interface Ctrl-C ends the process: a crash here.   *)
(***************************************************************************)
EXTENDS Naturals, Sequences, HostOutcome

CONSTANTS Hosts,
          NoHost,
          MaxRuns        \* bound on the runs of the program

ASSUME RunAssumption == /\ NoHost \notin Hosts
                        /\ MaxRuns \in Nat

VARIABLES
    pc, deferred, result,   \* the main goroutine, its deferred calls, RunScan's err
    options,                \* what the configuration asks for
    ctx,                    \* scanCtx: live, why it is done, or released
    targets, todo, host,    \* plannedHosts, those not looked at, the current one
    hostErrs, timedOut,     \* errs, by what they wrap
    outcome,                \* what scanHost returned for each host of this run
    disk, store,            \* the checkpoint file; its Manager and Store
    out,                    \* the writers and what they were told
    report,                 \* the JSON report
    ui,                     \* TUIWriter and its program
    progress,               \* ProgressReporter
    runs,
    ended                   \* hosts for which scanHost once returned nil

mainVars == <<pc, deferred, result, options>>
loopVars == <<targets, todo, host, hostErrs, timedOut, outcome>>
saveVars == <<disk, store>>
outVars == <<out, report>>
worldVars == <<runs, ended>>
vars == <<mainVars, ctx, loopVars, saveVars, outVars, ui, progress, worldVars>>

Option == [resume : BOOLEAN, show : {"tui", "progress", "plain"},
           manifest : {"readable", "broken"}]
Phase == {"idle", "prepare", "resolve", "writer", "files", "abandon", "wire",
          "setup", "loop", "host", "after", "return", "closing"}
Call == {"contexts", "metrics", "checkpoints", "sink", "progress"}
StoreState == [marks : SUBSET Hosts, dirty : BOOLEAN,
               saver : {"off", "on", "stopping", "stopped"},
               closed : {"no", "nil", "error"}]
OutState == [sink : {"none", "open", "closed"}, metrics : BOOLEAN]
ReportState == [written : BOOLEAN, metrics : BOOLEAN]
UIState == [at : {"off", "live", "told", "completed", "quit"},
            cancelFunc : BOOLEAN, userCanceled : BOOLEAN]
ProgressState == [at : {"off", "running", "stopping", "done"},
                  status : {"", "time limit reached"},
                  line : {"none", "", "time limit reached"}]

NewStore == [marks |-> {}, dirty |-> FALSE, saver |-> "off", closed |-> "no"]
NewOut == [sink |-> "none", metrics |-> FALSE]
NewUI == [at |-> "off", cancelFunc |-> FALSE, userCanceled |-> FALSE]
NewProgress == [at |-> "off", status |-> "", line |-> "none"]
NoReport == [written |-> FALSE, metrics |-> FALSE]

TypeOK ==
    /\ pc \in Phase
    /\ deferred \in Seq(Call)
    /\ result \in {"none", "nil", "error", "killed"}
    /\ options \in Option
    /\ ctx \in {"live", "deadline", "canceled", "released"}
    /\ targets \subseteq Hosts /\ todo \subseteq targets
    /\ host \in Hosts \cup {NoHost}
    /\ hostErrs \subseteq {"error", "canceled"}
    /\ timedOut \in BOOLEAN
    /\ outcome \in [Hosts -> Outcome \cup {"none"}]
    /\ disk \subseteq Hosts
    /\ store \in StoreState
    /\ out \in OutState
    /\ report \in ReportState
    /\ ui \in UIState
    /\ progress \in ProgressState
    /\ runs \in 0 .. MaxRuns
    /\ ended \subseteq Hosts

Init == /\ pc = "idle" /\ deferred = <<>> /\ result = "none"
        /\ options = [resume |-> FALSE, show |-> "plain", manifest |-> "readable"]
        /\ ctx = "released"
        /\ targets = {} /\ todo = {} /\ host = NoHost
        /\ hostErrs = {} /\ timedOut = FALSE
        /\ outcome = [h \in Hosts |-> "none"]
        /\ disk = {} /\ store = NewStore
        /\ out = NewOut /\ report = NoReport
        /\ ui = NewUI /\ progress = NewProgress
        /\ runs = 0 /\ ended = {}

Goto(next) == pc' = next /\ UNCHANGED <<deferred, result, options>>

\* defer f()
Defer(f, next) == /\ deferred' = Append(deferred, f)
                  /\ pc' = next
                  /\ UNCHANGED <<result, options>>

\* return err: the deferred calls run, the last one first.
Return(err) == pc' = "return" /\ result' = err /\ UNCHANGED <<deferred, options>>
-------------------------------------------------------------------------------
(***************************************************************************)
(* Up to the loop over the hosts.                                          *)
(***************************************************************************)
StartRun ==
    /\ pc = "idle" /\ runs < MaxRuns
    /\ runs' = runs + 1
    /\ pc' = "prepare" /\ deferred' = <<"contexts">> /\ result' = "none"
    /\ options' \in Option
    /\ ctx' = "live"
    /\ targets' = {} /\ todo' = {} /\ host' = NoHost
    /\ hostErrs' = {} /\ timedOut' = FALSE
    /\ outcome' = [h \in Hosts |-> "none"]
    /\ store' = NewStore
    /\ out' = NewOut /\ report' = NoReport
    /\ ui' = NewUI /\ progress' = NewProgress
    /\ UNCHANGED <<disk, ended>>

\* Rules or a checkpoint that do not load, no reachable target, a baseline that
\* does not load.  A time limit reached while targets are resolved is no error.
Fail == /\ \/ pc \in {"prepare", "resolve", "setup"} /\ Return("error")
           \/ pc = "resolve" /\ ctx = "deadline" /\ Return("nil")
        /\ UNCHANGED <<ctx, loopVars, saveVars, outVars, ui, progress, worldVars>>

\* NewManager and Start.  The engine is built next, with a sink that is still nil.
OpenCheckpoint ==
    /\ pc = "prepare"
    /\ pc' = "resolve"
    /\ deferred' = deferred \o <<"metrics", "checkpoints">>
    /\ store' = [NewStore EXCEPT !.marks = IF options.resume THEN disk ELSE {},
                                 !.saver = "on"]
    /\ UNCHANGED <<result, options, ctx, loopVars, disk, outVars, ui, progress,
                   worldVars>>

\* Resolve, PlanHosts and writeScannedTargets.
ResolveTargets ==
    /\ pc = "resolve"
    /\ \E reachable \in SUBSET Hosts \ {{}} : targets' = reachable /\ todo' = reachable
    /\ Goto("writer")
    /\ UNCHANGED <<ctx, host, hostErrs, timedOut, outcome, saveVars, outVars, ui,
                   progress, worldVars>>

\* NewTUIWriter starts the interface before it is known how to stop the scan.
StartUI == /\ pc = "writer"
           /\ Goto("files")
           /\ ui' = [ui EXCEPT !.at = IF options.show = "tui" THEN "live" ELSE "off"]
           /\ UNCHANGED <<ctx, loopVars, saveVars, outVars, progress, worldVars>>

\* TUIWriter.Close sends the finalize event, and then waits for the interface.
Told == [ui EXCEPT !.at = IF @ = "live" THEN "told" ELSE @]
UIGone == ui.at \in {"off", "quit"}

\* An output file cannot be created: closeSinks.  sink stays nil.
FailFiles == /\ pc = "files"
             /\ Goto("abandon")
             /\ ui' = Told
             /\ UNCHANGED <<ctx, loopVars, saveVars, outVars, progress, worldVars>>

Abandon == /\ pc = "abandon"
           /\ UIGone
           /\ Return("error")
           /\ UNCHANGED <<ctx, loopVars, saveVars, outVars, ui, progress, worldVars>>

OpenFiles == /\ pc = "files"
             /\ Goto("wire")
             /\ out' = [out EXCEPT !.sink = "open"]
             /\ UNCHANGED <<ctx, loopVars, saveVars, report, ui, progress, worldVars>>

SetCancelFunc == /\ pc = "wire"
                 /\ Defer("sink", "setup")
                 /\ ui' = [ui EXCEPT !.cancelFunc = TRUE]
                 /\ UNCHANGED <<ctx, loopVars, saveVars, outVars, progress, worldVars>>

StartProgress == /\ pc = "setup"
                 /\ IF options.show = "progress"
                    THEN /\ Defer("progress", "loop")
                         /\ progress' = [progress EXCEPT !.at = "running"]
                    ELSE Goto("loop") /\ UNCHANGED progress
                 /\ UNCHANGED <<ctx, loopVars, saveVars, outVars, ui, worldVars>>
-------------------------------------------------------------------------------
(***************************************************************************)
(* The loop over the hosts.  (PlanHosts' order is left open.)              *)
(***************************************************************************)
\* The context is looked at before each host.
StopLoop == /\ pc = "loop" /\ todo # {}
            /\ \/ /\ ctx = "canceled"
                  /\ Return(IF ui.userCanceled THEN "nil" ELSE "error")
                  /\ UNCHANGED timedOut
               \/ /\ ctx = "deadline"
                  /\ Goto("after")
                  /\ timedOut' = TRUE
            /\ UNCHANGED <<ctx, targets, todo, host, hostErrs, outcome, saveVars,
                           outVars, ui, progress, worldVars>>

SkipHost(h) == /\ pc = "loop" /\ ctx = "live"
               /\ h \in todo \cap store.marks
               /\ todo' = todo \ {h}
               /\ UNCHANGED <<mainVars, ctx, targets, host, hostErrs, timedOut, outcome,
                              saveVars, outVars, ui, progress, worldVars>>

BeginHost(h) == /\ pc = "loop" /\ ctx = "live"
                /\ h \in todo \ store.marks
                /\ todo' = todo \ {h}
                /\ host' = h
                /\ Goto("host")
                /\ UNCHANGED <<ctx, targets, hostErrs, timedOut, outcome, saveVars,
                               outVars, ui, progress, worldVars>>

\* A file is complete: there is something to save.
CompleteFile == /\ pc = "host"
                /\ ~store.dirty
                /\ store' = [store EXCEPT !.dirty = TRUE]
                /\ UNCHANGED <<mainVars, ctx, loopVars, disk, outVars, ui, progress,
                               worldVars>>

MarkAnyway(err) ==   \* mutant: a host that timed out is marked too
    IF err \in {"nil", "timeout"}
    THEN [store EXCEPT !.marks = @ \cup {host}, !.dirty = TRUE] ELSE store

MarkHost(err) == IF err = "nil"
                 THEN [store EXCEPT !.marks = @ \cup {host}, !.dirty = TRUE]
                 ELSE store

ForgetError(err) == UNCHANGED hostErrs   \* mutant: it is logged and forgotten

KeepError(err) == hostErrs' = hostErrs \cup {err}

\* The branches after scanHost, in their order.
AfterHost(err) ==
    CASE err = "canceled" /\ ui.userCanceled ->
            Return("nil") /\ UNCHANGED <<hostErrs, timedOut, progress>>
      [] err = "deadline" ->
            /\ Goto("after") /\ timedOut' = TRUE
            /\ progress' = [progress EXCEPT !.status = "time limit reached"]
            /\ UNCHANGED hostErrs
      [] err \in {"nil", "timeout"} ->
            Goto("loop") /\ UNCHANGED <<hostErrs, timedOut, progress>>
      [] OTHER ->
            Goto("loop") /\ KeepError(err) /\ UNCHANGED <<timedOut, progress>>

\* scanHost returns.  With the context done, nil does not mean that every file
\* was looked at.
EndHost(err) ==
    /\ pc = "host"
    /\ err \in OutcomesUnder(ctx)
    /\ AfterHost(err)
    /\ store' = MarkHost(err)
    /\ host' = NoHost
    /\ outcome' = [outcome EXCEPT ![host] = err]
    /\ ended' = IF err = "nil" THEN ended \cup {host} ELSE ended
    /\ UNCHANGED <<ctx, targets, todo, disk, outVars, ui, runs>>

EndLoop == /\ pc = "loop" /\ todo = {}
           /\ Goto("after")
           /\ UNCHANGED <<ctx, loopVars, saveVars, outVars, ui, progress, worldVars>>

\* What becomes of errs.
LoopResult == IF timedOut \/ hostErrs = {} THEN "nil"
              ELSE IF "canceled" \in hostErrs /\ ui.userCanceled THEN "nil" ELSE "error"

AfterLoop == /\ pc = "after"
             /\ Return(LoopResult)
             /\ progress' = IF timedOut
                            THEN [progress EXCEPT !.status = "time limit reached"]
                            ELSE progress
             /\ UNCHANGED <<ctx, loopVars, saveVars, outVars, ui, worldVars>>
-------------------------------------------------------------------------------
(***************************************************************************)
(* The deferred calls.                                                     *)
(***************************************************************************)
Deferred(f) == /\ pc = "return"
               /\ deferred # <<>>
               /\ f = deferred[Len(deferred)]

Done == /\ deferred' = SubSeq(deferred, 1, Len(deferred) - 1)
        /\ pc' = IF Len(deferred) = 1 THEN "idle" ELSE "return"
        /\ UNCHANGED <<result, options>>

StopProgress ==   \* mutant: Close does not wait for the reporter
    /\ Deferred("progress")
    /\ Done
    /\ progress' = [progress EXCEPT !.at = IF @ = "running" THEN "stopping" ELSE @]
    /\ UNCHANGED <<ctx, loopVars, saveVars, outVars, ui, worldVars>>

\* ProgressReporter.Close waits for the reporter's last line.
CloseProgress == /\ Deferred("progress")
                 /\ \/ /\ progress.at = "running"
                       /\ progress' = [progress EXCEPT !.at = "stopping"]
                       /\ UNCHANGED mainVars
                    \/ progress.at = "done" /\ Done /\ UNCHANGED progress
                 /\ UNCHANGED <<ctx, loopVars, saveVars, outVars, ui, worldVars>>

CloseUntold ==   \* mutant: the finalize event is not sent
    /\ Deferred("sink")
    /\ pc' = "closing"
    /\ out' = [out EXCEPT !.sink = "closed"]
    /\ report' = [written |-> TRUE, metrics |-> out.metrics]
    /\ UNCHANGED <<result, deferred, options, ctx, loopVars, saveVars, ui, progress,
                   worldVars>>

\* closeSinks: the report is written first, the interface is told last.  A broken
\* manifest makes both give up: no report, and the interface is not told.
CloseSink ==
    /\ Deferred("sink")
    /\ pc' = "closing"
    /\ out' = [out EXCEPT !.sink = "closed"]
    /\ IF options.manifest = "broken"
       THEN /\ result' = IF result = "nil" THEN "error" ELSE result
            /\ UNCHANGED <<report, ui>>
       ELSE /\ report' = [written |-> TRUE, metrics |-> out.metrics]
            /\ ui' = Told
            /\ UNCHANGED result
    /\ UNCHANGED <<deferred, options, ctx, loopVars, saveVars, progress, worldVars>>

SinkClosed == /\ pc = "closing"
              /\ UIGone \/ options.manifest = "broken"
              /\ Done
              /\ UNCHANGED <<ctx, loopVars, saveVars, outVars, ui, progress, worldVars>>

ForgetfulSaves ==   \* mutant: a save clears dirty before it writes the file
    IF ~store.dirty
    THEN {[disk |-> disk, dirty |-> FALSE, err |-> "nil"]}
    ELSE {[disk |-> store.marks, dirty |-> FALSE, err |-> "nil"],
          [disk |-> disk, dirty |-> FALSE, err |-> "error"]}

\* What Store.Save may come to.  A save that fails, at the directory, the temporary
\* file or the rename, leaves the file as it was and the store dirty.  (A clean
\* store without a file writes one that lists no host.)
Saves ==
    IF ~store.dirty
    THEN {[disk |-> disk, dirty |-> FALSE, err |-> "nil"]}
    ELSE {[disk |-> store.marks, dirty |-> FALSE, err |-> "nil"],
          [disk |-> disk, dirty |-> TRUE, err |-> "error"]}

\* Manager.Close ends the saving goroutine, waits for it, and saves what is left.
\* Nobody looks at the error it returns: RunScan only defers it.
CloseCheckpoint ==
    /\ Deferred("checkpoints")
    /\ \/ /\ store.saver = "on"
          /\ store' = [store EXCEPT !.saver = "stopping"]
          /\ UNCHANGED <<mainVars, disk>>
       \/ /\ store.saver = "stopped"
          /\ Done
          /\ \E save \in Saves :
                /\ disk' = save.disk
                /\ store' = [store EXCEPT !.dirty = save.dirty, !.closed = save.err]
    /\ UNCHANGED <<ctx, loopVars, outVars, ui, progress, worldVars>>

SetMetricsSnapshot ==
    /\ Deferred("metrics")
    /\ Done
    /\ out' = [out EXCEPT !.metrics = (out.sink # "none")]
    /\ UNCHANGED <<ctx, loopVars, saveVars, report, ui, progress, worldVars>>

\* scanCancel and timeoutCancel
ReleaseContexts ==
    /\ Deferred("contexts")
    /\ Done
    /\ ctx' = IF ctx = "live" THEN "released" ELSE ctx
    /\ UNCHANGED <<loopVars, saveVars, outVars, ui, progress, worldVars>>
-------------------------------------------------------------------------------
(***************************************************************************)
(* The other goroutines, the user and the world.                           *)
(***************************************************************************)
\* The saving goroutine: at its ticks, and a last time when the context ends or Close
\* asks for it.  A save that fails is not reported, and after the last one the
\* goroutine is gone all the same.
SaveCheckpoint(last) ==
    /\ store.saver \in {"on", "stopping"}
    /\ last => store.saver = "stopping" \/ ctx # "live"
    /\ \E save \in Saves :
          /\ disk' = save.disk
          /\ store' = [store EXCEPT !.dirty = save.dirty,
                                    !.saver = IF last THEN "stopped" ELSE @]
    /\ UNCHANGED <<mainVars, ctx, loopVars, outVars, ui, progress, worldVars>>

\* The reporter's goroutine prints its last line when the context ends, or when
\* it is closed.
PrintLastLine ==
    /\ \/ progress.at = "running" /\ ctx # "live"
       \/ progress.at = "stopping"
    /\ progress' = [progress EXCEPT !.at = "done", !.line = progress.status]
    /\ UNCHANGED <<mainVars, ctx, loopVars, saveVars, outVars, ui, worldVars>>

\* The interface handles the finalize event.
CompleteUI ==
    /\ ui.at = "told"
    /\ ui' = [ui EXCEPT !.at = "completed"]
    /\ UNCHANGED <<mainVars, ctx, loopVars, saveVars, outVars, progress, worldVars>>

Showing == ui.at \in {"live", "told", "completed"}

\* Ctrl-C quits the interface; before it is complete, CancelScan.  Before
\* SetCancelFunc that stops nothing, and the run goes on without an interface.
PressCtrlC ==
    LET stops == ui.at # "completed" /\ ui.cancelFunc
    IN  /\ Showing
        /\ ui' = [ui EXCEPT !.at = "quit", !.userCanceled = @ \/ stops]
        /\ ctx' = IF ctx = "live" /\ stops THEN "canceled" ELSE ctx
        /\ UNCHANGED <<mainVars, loopVars, saveVars, outVars, progress, worldVars>>

\* The interface's program ends by itself (its terminal is gone).
LoseTerminal ==
    /\ Showing
    /\ ui' = [ui EXCEPT !.at = "quit"]
    /\ UNCHANGED <<mainVars, ctx, loopVars, saveVars, outVars, progress, worldVars>>

\* max_scan_time
ReachTimeLimit ==
    /\ pc # "idle" /\ ctx = "live"
    /\ ctx' = "deadline"
    /\ UNCHANGED <<mainVars, loopVars, saveVars, outVars, ui, progress, worldVars>>

\* The process is killed.
Crash == /\ pc # "idle"
         /\ pc' = "idle" /\ deferred' = <<>> /\ result' = "killed"
         /\ store' = NewStore /\ ui' = NewUI /\ progress' = NewProgress
         /\ UNCHANGED <<options, ctx, loopVars, disk, outVars, worldVars>>
-------------------------------------------------------------------------------
Startup == \/ Fail \/ OpenCheckpoint \/ ResolveTargets
           \/ StartUI \/ FailFiles \/ Abandon \/ OpenFiles
           \/ SetCancelFunc \/ StartProgress

HostLoop == \/ StopLoop \/ EndLoop \/ AfterLoop
            \/ \E h \in Hosts : SkipHost(h) \/ BeginHost(h)

Shutdown == \/ CloseProgress \/ CloseSink \/ SinkClosed \/ CloseCheckpoint
            \/ SetMetricsSnapshot \/ ReleaseContexts

MainGoroutine == Startup \/ HostLoop \/ Shutdown

Next == \/ StartRun \/ MainGoroutine
        \/ \E err \in Outcome : EndHost(err)
        \/ \E last \in BOOLEAN : SaveCheckpoint(last)
        \/ CompleteFile \/ PrintLastLine
        \/ CompleteUI \/ PressCtrlC \/ LoseTerminal
        \/ ReachTimeLimit \/ Crash

Spec == Init /\ [][Next]_vars

\* Goroutines are scheduled; the select of the saving goroutine does not choose
\* ticks for ever; a user closes the interface of a scan that has ended.  Nothing
\* makes scanHost return: with a failed sink, or with a read that is stuck when the
\* time limit closes its client, it may not (ScanHost).
Fairness == /\ WF_vars(MainGoroutine)
            /\ WF_vars(SaveCheckpoint(TRUE))
            /\ WF_vars(PrintLastLine)
            /\ WF_vars(CompleteUI)
            /\ WF_vars(ui.at = "completed" /\ PressCtrlC)

FairSpec == Spec /\ Fairness
-------------------------------------------------------------------------------
(***************************************************************************)
(* Properties.                                                             *)
(***************************************************************************)
Returned == pc = "idle" /\ result \in {"nil", "error"}

\* Whatever path RunScan returns on, nothing of the run is left behind: its
\* contexts are released, the saving goroutine and the reporter have ended, the
\* writers are closed and the interface has quit.  (A manifest that cannot be
\* read makes TUIWriter.Close return with the interface still on the terminal.)
EveryReturnCleansUp ==
    Returned => /\ ctx # "live"
                /\ store.saver \notin {"on", "stopping"}
                /\ progress.at \in {"off", "done"}
                /\ out.sink # "open"
                /\ UIGone \/ options.manifest = "broken"

\* Once RunScan has returned, every host it marked complete is on disk, unless the
\* save of Close itself failed: RunScan discards that error and may return nil with
\* marks that are lost.  Any save that failed before, at a tick or as the last one of
\* the saving goroutine, is made good by Close, and so are the marks set after that
\* goroutine had ended with the context.
ReturnedRunIsSaved ==
    (Returned /\ store.closed # "error") => store.marks \subseteq disk

\* A host is in the checkpoint, in memory or on disk, only if scanHost returned
\* nil for it once, over all runs, crashes and resumptions: a host that timed
\* out, failed or was cut short is scanned again.
MarkedHostsWereScanned == disk \cup store.marks \subseteq ended

\* When a run that nothing stopped returns nil, each of its hosts is complete,
\* from before or from this run, or was given up after an SMB timeout.
NilAccountsForEveryHost ==
    (Returned /\ result = "nil" /\ ctx = "released") =>
        \A h \in targets : h \in store.marks \/ outcome[h] = "timeout"

\* If every host scan returns, a run ends, whatever fails in it: its user needs only
\* close the interface.
HostScansReturn == []<>(pc # "host")
RunEnds == HostScansReturn => ((pc # "idle") ~> (pc = "idle"))

\* reporting.md: the JSON report includes phase metrics and timing data.  Checked
\* by itself: they are handed to the writers after these are closed.
ReportHasMetrics ==
    (Returned /\ result = "nil" /\ report.written) => report.metrics
===============================================================================
