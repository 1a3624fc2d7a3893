------------------------------ MODULE WorkerPool ------------------------------
(***************************************************************************)
(* WorkerPool.Scan of internal/scanner/workers.go: a number of workers take*)
(* jobs from a channel, load and evaluate each, call its OnComplete back   *)
(* and send the result to one collector, which writes the findings to the  *)
(* sink.  Two contexts stop it: the one it is given and runCtx, which Scan *)
(* derives from that and cancels when the sink fails.                      *)
(*                                                                         *)
(* The goroutine that sends the jobs and closes the channel is the         *)
(* environment here; ScanHost puts the real one in its place.  A channel is*)
(* the set of what is in it: the workers race for the jobs, and nothing    *)
(* below depends on their order.                                           *)
(***************************************************************************)
EXTENDS Integers, FiniteSets

CONSTANTS Workers, Jobs, NoJob,
          ContentJobs,   \* the jobs NeedsContent is true of
          QueueSize,     \* capacity of the channel of jobs
          MaxFindings    \* bound on the findings of one file

ASSUME PoolAssumption == /\ IsFiniteSet(Workers) /\ Workers # {}
                         /\ IsFiniteSet(Jobs)
                         /\ NoJob \notin Jobs
                         /\ ContentJobs \subseteq Jobs
                         /\ QueueSize \in Nat \ {0}
                         /\ MaxFindings \in Nat

VARIABLES
    sent, queue, closed,   \* jobs ever sent, those in the channel, close(jobs)
    poolCtx, runCtx,       \* the contexts: "live" or why they are done
    worker,                \* what each worker is at, and its job
    failed, found,         \* the jobs whose Err is set; the findings of each
    calls,                 \* how often OnComplete of each job was called
    results,               \* the channel of results
    collector, collectErr, \* the collector and the error it ended with
    written, handled,      \* findings in the sink; jobs it is through with
    scan, scanErr          \* the goroutine in Scan and what it returned

envVars == <<sent, closed>>
ctxVars == <<poolCtx, runCtx>>
jobVars == <<failed, found, calls>>
sinkVars == <<collector, collectErr, written, handled>>
scanVars == <<scan, scanErr>>
vars == <<envVars, queue, ctxVars, worker, jobVars, results, sinkVars, scanVars>>

Reason == {"canceled", "deadline"}

\* "took": in processJob; "loaded": before Evaluate; "evaluated": called back,
\* the result not yet sent.
WorkerPhase == {"select", "took", "loaded", "evaluated", "left"}

TypeOK == /\ sent \subseteq Jobs
          /\ queue \subseteq sent
          /\ closed \in BOOLEAN
          /\ poolCtx \in Reason \cup {"live"}
          /\ runCtx \in Reason \cup {"live"}
          /\ worker \in [Workers -> [at : WorkerPhase, job : Jobs \cup {NoJob}]]
          /\ failed \subseteq Jobs
          /\ found \in [Jobs -> 0 .. MaxFindings]
          /\ calls \in [Jobs -> Nat]
          /\ results \subseteq Jobs
          /\ collector \in [at : {"select", "writing", "failing", "done"},
                            job : Jobs \cup {NoJob}]
          /\ collectErr \in {"nil", "sink", "deadline"}
          /\ written \in [Jobs -> Nat]
          /\ handled \subseteq Jobs
          /\ scan \in {"workers", "collector", "returned"}
          /\ scanErr \in {"nil", "sink", "deadline"}

Idle == [at |-> "select", job |-> NoJob]
Gone == [at |-> "left", job |-> NoJob]
Done == [at |-> "done", job |-> NoJob]

PoolInit == /\ queue = {}
            /\ poolCtx = "live" /\ runCtx = "live"
            /\ worker = [w \in Workers |-> Idle]
            /\ failed = {}
            /\ found = [j \in Jobs |-> 0]
            /\ calls = [j \in Jobs |-> 0]
            /\ results = {}
            /\ collector = Idle
            /\ collectErr = "nil"
            /\ written = [j \in Jobs |-> 0]
            /\ handled = {}
            /\ scan = "workers" /\ scanErr = "nil"

Init == PoolInit /\ sent = {} /\ closed = FALSE
-------------------------------------------------------------------------------
(***************************************************************************)
(* The environment: whoever sends the jobs, and the owner of the context.  *)
(***************************************************************************)
SendJob(j) == /\ ~closed
              /\ j \notin sent
              /\ Cardinality(queue) < QueueSize
              /\ sent' = sent \cup {j}
              /\ queue' = queue \cup {j}
              /\ UNCHANGED <<closed, ctxVars, worker, jobVars, results, sinkVars,
                             scanVars>>

CloseJobs == /\ ~closed
             /\ closed' = TRUE
             /\ UNCHANGED <<sent, queue, ctxVars, worker, jobVars, results,
                            sinkVars, scanVars>>

\* A context that is done stays done, for the same reason, and takes the
\* contexts derived from it with it.
Cancelled(ctx, reason) == IF ctx = "live" THEN reason ELSE ctx

StopPool(reason) == /\ poolCtx = "live"
                    /\ poolCtx' = reason
                    /\ runCtx' = Cancelled(runCtx, reason)
                    /\ UNCHANGED <<envVars, queue, worker, jobVars, results,
                                   sinkVars, scanVars>>
-------------------------------------------------------------------------------
(***************************************************************************)
(* runWorker and processJob.  A select with several ready cases takes any. *)
(***************************************************************************)
Take(w, j) == /\ worker[w].at = "select"
              /\ j \in queue
              /\ queue' = queue \ {j}
              /\ worker' = [worker EXCEPT ![w] = [at |-> "took", job |-> j]]
              /\ UNCHANGED <<envVars, ctxVars, jobVars, results, sinkVars,
                             scanVars>>

Leave(w) == /\ worker[w].at = "select"
            /\ runCtx # "live" \/ (closed /\ queue = {})
            /\ worker' = [worker EXCEPT ![w] = Gone]
            /\ UNCHANGED <<envVars, queue, ctxVars, jobVars, results, sinkVars,
                           scanVars>>

\* LoadContent fails at once when runCtx is done, and a read may fail.
Load(w) == LET j == worker[w].job
           IN  /\ worker[w].at = "took"
               /\ worker' = [worker EXCEPT ![w].at = "loaded"]
               /\ \/ /\ j \in ContentJobs => runCtx = "live"
                     /\ UNCHANGED failed
                  \/ /\ j \in ContentJobs
                     /\ failed' = failed \cup {j}
               /\ UNCHANGED <<envVars, queue, ctxVars, found, calls, results,
                              sinkVars, scanVars>>

\* Evaluate goes on without content (a file name can be a finding), then the
\* callback learns whether the load failed.
Evaluate(w) ==
    LET j == worker[w].job
    IN  /\ worker[w].at = "loaded"
        /\ \E n \in 0 .. MaxFindings : found' = [found EXCEPT ![j] = n]
        /\ calls' = [calls EXCEPT ![j] = @ + 1]
        /\ worker' = [worker EXCEPT ![w].at = "evaluated"]
        /\ UNCHANGED <<envVars, queue, ctxVars, failed, results, sinkVars,
                       scanVars>>

\* A panic anywhere before the callback: it is recovered, the result has an
\* error and no findings, and the callback is called from there.
Panic(w) == LET j == worker[w].job
            IN  /\ worker[w].at \in {"took", "loaded"}
                /\ failed' = failed \cup {j}
                /\ calls' = [calls EXCEPT ![j] = @ + 1]
                /\ worker' = [worker EXCEPT ![w].at = "evaluated"]
                /\ UNCHANGED <<envVars, queue, ctxVars, found, results, sinkVars,
                               scanVars>>

SendResult(w) == /\ worker[w].at = "evaluated"
                 /\ Cardinality(results) < Cardinality(Workers)
                 /\ results' = results \cup {worker[w].job}
                 /\ worker' = [worker EXCEPT ![w] = Idle]
                 /\ UNCHANGED <<envVars, queue, ctxVars, jobVars, sinkVars,
                                scanVars>>

\* The other case of that select: the result is given up.
DropResult(w) == /\ worker[w].at = "evaluated"
                 /\ runCtx # "live"
                 /\ worker' = [worker EXCEPT ![w] = Gone]
                 /\ UNCHANGED <<envVars, queue, ctxVars, jobVars, results,
                                sinkVars, scanVars>>

Worker(w) == \/ \E j \in Jobs : Take(w, j)
             \/ Leave(w) \/ Load(w) \/ Evaluate(w) \/ Panic(w)
             \/ SendResult(w) \/ DropResult(w)
-------------------------------------------------------------------------------
(***************************************************************************)
(* collectResults, in the goroutine that cancels runCtx if it fails.       *)
(***************************************************************************)
Receive(j) == /\ collector.at = "select"
              /\ j \in results
              /\ results' = results \ {j}
              /\ collector' = [at |-> "writing", job |-> j]
              /\ UNCHANGED <<envVars, queue, ctxVars, worker, jobVars,
                             collectErr, written, handled, scanVars>>

WriteFinding == LET j == collector.job
                IN  /\ collector.at = "writing"
                    /\ written[j] < found[j]
                    /\ written' = [written EXCEPT ![j] = @ + 1]
                    /\ UNCHANGED <<envVars, queue, ctxVars, worker, jobVars,
                                   results, collector, collectErr, handled,
                                   scanVars>>

HandleResult == LET j == collector.job
                IN  /\ collector.at = "writing"
                    /\ written[j] = found[j]
                    /\ handled' = handled \cup {j}
                    /\ collector' = Idle
                    /\ UNCHANGED <<envVars, queue, ctxVars, worker, jobVars,
                                   results, collectErr, written, scanVars>>

WriteFails == /\ collector.at = "writing"
              /\ written[collector.job] < found[collector.job]
              /\ collectErr' = "sink"
              /\ collector' = [collector EXCEPT !.at = "failing"]
              /\ UNCHANGED <<envVars, queue, ctxVars, worker, jobVars, results,
                             written, handled, scanVars>>

GiveUpQuietly ==   \* mutant: the collector ends without cancelling runCtx
    /\ collector.at = "failing"
    /\ collector' = Done
    /\ UNCHANGED <<envVars, queue, ctxVars, worker, jobVars, results, collectErr,
                   written, handled, scanVars>>

\* cancel(), in the collector's goroutine.
GiveUp == /\ collector.at = "failing"
          /\ runCtx' = Cancelled(runCtx, "canceled")
          /\ collector' = Done
          /\ UNCHANGED <<envVars, queue, poolCtx, worker, jobVars, results,
                         collectErr, written, handled, scanVars>>

\* runCtx.Done(): a deadline is an error to return, a cancellation is not.
StopCollecting == /\ collector.at = "select"
                  /\ runCtx # "live"
                  /\ collector' = Done
                  /\ collectErr' = IF runCtx = "deadline" THEN "deadline" ELSE "nil"
                  /\ UNCHANGED <<envVars, queue, ctxVars, worker, jobVars, results,
                                 written, handled, scanVars>>

EndWithoutDraining ==   \* mutant: results still in the channel are left there
    /\ collector.at = "select"
    /\ scan # "workers"
    /\ collector' = Done
    /\ UNCHANGED <<envVars, queue, ctxVars, worker, jobVars, results, collectErr,
                   written, handled, scanVars>>

\* The channel of results is closed and empty.
EndCollecting == /\ collector.at = "select"
                 /\ scan # "workers"
                 /\ results = {}
                 /\ collector' = Done
                 /\ UNCHANGED <<envVars, queue, ctxVars, worker, jobVars, results,
                                collectErr, written, handled, scanVars>>

Collector == \/ \E j \in Jobs : Receive(j)
             \/ WriteFinding \/ HandleResult \/ WriteFails \/ GiveUp
             \/ StopCollecting \/ EndCollecting
-------------------------------------------------------------------------------
(***************************************************************************)
(* Scan itself: wait for the workers, close the results, wait for the      *)
(* collector.                                                              *)
(***************************************************************************)
CloseResults == /\ scan = "workers"
                /\ \A w \in Workers : worker[w].at = "left"
                /\ scan' = "collector"
                /\ UNCHANGED <<envVars, queue, ctxVars, worker, jobVars, results,
                               sinkVars, scanErr>>

ReturnContextError ==   \* mutant: the collector's error is not looked at
    /\ scan = "collector"
    /\ collector.at = "done"
    /\ scan' = "returned"
    /\ scanErr' = IF poolCtx = "deadline" THEN "deadline" ELSE "nil"
    /\ runCtx' = Cancelled(runCtx, "canceled")
    /\ UNCHANGED <<envVars, queue, poolCtx, worker, jobVars, results, sinkVars>>

\* The collector's error goes before the context's; a cancellation is no error.
Return == /\ scan = "collector"
          /\ collector.at = "done"
          /\ scan' = "returned"
          /\ scanErr' = IF collectErr # "nil" THEN collectErr
                        ELSE IF poolCtx = "deadline" THEN "deadline" ELSE "nil"
          /\ runCtx' = Cancelled(runCtx, "canceled")
          /\ UNCHANGED <<envVars, queue, poolCtx, worker, jobVars, results,
                         sinkVars>>
-------------------------------------------------------------------------------
Pool == (\E w \in Workers : Worker(w)) \/ Collector \/ CloseResults \/ Return

Environment == \/ \E j \in Jobs : SendJob(j)
               \/ CloseJobs
               \/ \E reason \in Reason : StopPool(reason)

Next == Pool \/ Environment

Spec == Init /\ [][Next]_vars

\* Every goroutine of the pool is scheduled, and LoadContent, Evaluate and
\* WriteFinding return.  The environment owes the pool nothing.
Fairness == /\ \A w \in Workers : WF_vars(Worker(w))
            /\ WF_vars(Collector)
            /\ WF_vars(CloseResults \/ Return)

FairSpec == Spec /\ Fairness
-------------------------------------------------------------------------------
(***************************************************************************)
(* Properties.                                                             *)
(***************************************************************************)
\* OnComplete is called once for every job a worker took, whether the load, the
\* evaluation or the observers failed or panicked: the manager counts on it.
CalledBackOnce ==
    /\ \A j \in Jobs : calls[j] <= 1
    /\ \A j \in sent \ queue :
         calls[j] = 0 => \E w \in Workers : /\ worker[w].job = j
                                           /\ worker[w].at \in {"took", "loaded"}

\* A Scan that returned nil with its context alive has dealt with every job it
\* was sent and written every finding once, and the sink refused none.
NilMeansDelivered ==
    (scan = "returned" /\ scanErr = "nil" /\ poolCtx = "live")
        => /\ closed /\ handled = sent
           /\ \A j \in Jobs : written[j] = found[j]

\* Once Scan has returned, no callback is called and nothing is written: its
\* caller may close the sink and the checkpoint.
QuietAfterReturn ==
    [][scan = "returned" => UNCHANGED <<jobVars, written, handled>>]_vars

\* Scan returns once the jobs are closed, the context is done or the sink has
\* failed; in the last two cases nobody has to close the channel.
ScanReturns ==
    (closed \/ poolCtx # "live" \/ collectErr = "sink") ~> (scan = "returned")

\* Without workers, channels and contexts: every step of the pool is a step of
\* JobDelivery or changes nothing that module speaks of.
StageOf(j) == IF j \in handled THEN "delivered"
              ELSE IF calls[j] > 0 THEN "called"
              ELSE IF j \in sent THEN "sent" ELSE "unsent"

Delivery == INSTANCE JobDelivery
            WITH stage <- [j \in Jobs |-> StageOf(j)],
                 stopped <- (poolCtx # "live" \/ collectErr = "sink"),
                 ended <- (scan = "returned")

ImplementsJobDelivery == Delivery!JSpec
-------------------------------------------------------------------------------
(***************************************************************************)
(* The inductive invariant: where each job is.                             *)
(***************************************************************************)
Held(w) == worker[w].job

Busy(w) == worker[w].at \in {"took", "loaded", "evaluated"}

\* A worker without a job has none, and no two have the same.
HeldInv == /\ \A w \in Workers : IF Busy(w) THEN Held(w) \in sent \ queue
                                 ELSE Held(w) = NoJob
           /\ \A v, w \in Workers : (Held(v) = Held(w) /\ Busy(v)) => v = w

\* What the collector has or had is called back and in no worker's hands.
Collected(j) == \/ j \in results \/ j \in handled
                \/ collector.at \in {"writing", "failing"} /\ collector.job = j

CollectedInv ==
    /\ \A j \in Jobs : Collected(j) =>
          /\ j \in sent \ queue /\ calls[j] = 1
          /\ \A w \in Workers : Held(w) # j
    /\ collector.at \in {"writing", "failing"} =>
          /\ collector.job \in Jobs
          /\ collector.job \notin results \cup handled
    /\ collector.at \in {"select", "done"} => collector.job = NoJob
    /\ results \cap handled = {}

CallsInv ==
    \A j \in Jobs :
        /\ j \notin sent \ queue => calls[j] = 0
        /\ calls[j] \in {0, 1}
        /\ \A w \in Workers : Held(w) = j =>
              calls[j] = IF worker[w].at = "evaluated" THEN 1 ELSE 0

WrittenInv ==
    \A j \in Jobs :
        /\ j \in handled => written[j] = found[j]
        /\ calls[j] = 0 => found[j] = 0
        /\ calls[j] = 0 \/ j \in results => written[j] = 0
        /\ \A w \in Workers : Held(w) = j => written[j] = 0
        /\ written[j] <= found[j]

\* While nothing has stopped the pool, no job is lost.
LiveInv ==
    /\ collector.at = "failing" => collectErr = "sink"
    /\ collectErr # "nil" => collector.at \in {"failing", "done"}
    /\ scan # "workers" => \A w \in Workers : worker[w].at = "left"
    /\ scan = "returned" => collector.at = "done"
    /\ (scan = "returned" /\ scanErr = "nil") => collectErr = "nil"
    /\ (poolCtx = "live" /\ collectErr # "sink") =>
          /\ scan # "returned" => runCtx = "live"
          /\ collectErr = "nil"
          /\ \A j \in sent \ queue : \/ Collected(j)
                                     \/ \E w \in Workers : Held(w) = j
          /\ (\E w \in Workers : worker[w].at = "left") => closed /\ queue = {}
          /\ collector.at = "done" => scan # "workers" /\ results = {}

PoolInv == /\ TypeOK /\ CalledBackOnce
           /\ HeldInv /\ CollectedInv /\ CallsInv /\ WrittenInv /\ LiveInv
===============================================================================
