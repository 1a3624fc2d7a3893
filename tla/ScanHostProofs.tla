----------------------------- MODULE ScanHostProofs -----------------------------
(***************************************************************************)
(* A pool of workers, and the scan of a host that feeds one.               *)
(*                                                                         *)
(* The pool, for any workers, jobs, channel capacity and findings: types,  *)
(* one callback for each job, nothing lost by a Scan that was not stopped, *)
(* silence after it returns, and the refinement of JobDelivery.  PoolInv   *)
(* is proved conjunct by conjunct, each with one step per action.  What    *)
(* carries it is HeldInv and CollectedInv, which say between them that a   *)
(* job is in one place at a time: in the channel, with one worker, among   *)
(* the results, with the collector, or handled.                            *)
(*                                                                         *)
(* The host, for any shares and batch size as well: types, a host marked   *)
(* complete has been scanned, the error of scanHost agrees with the        *)
(* contexts, and the refinement of CheckpointManager.  Every step of the   *)
(* host is a step of WorkerPool or leaves the pool alone, so PoolInv holds *)
(* here too.  The host's own conjuncts are proved one by one, each with    *)
(* one step per action; the pool's moves that the walker does not see are  *)
(* one of them.                                                            *)
(***************************************************************************)
EXTENDS ScanHost, TLAPS

-------------------------------------------------------------------------------
(* The pool.                                                               *)
\* Types; that a busy worker's job is a job needs HeldInv.
LEMMA TypesKept ==
    ASSUME PoolInv, [Next]_vars
    PROVE  TypeOK'
<1> USE PoolAssumption DEF PoolInv, TypeOK, HeldInv, CollectedInv, Held, Busy, WorkerPhase, Reason,
           envVars, ctxVars, jobVars, sinkVars, scanVars
<1>1. ASSUME NEW j \in Jobs, SendJob(j) PROVE TypeOK'
  BY <1>1 DEF SendJob
<1>2. CASE CloseJobs
  BY <1>2 DEF CloseJobs
<1>3. ASSUME NEW r \in Reason, StopPool(r) PROVE TypeOK'
  BY <1>3 DEF StopPool, Cancelled
<1>4. ASSUME NEW w \in Workers, NEW j \in Jobs, Take(w, j) PROVE TypeOK'
  BY <1>4 DEF Take
<1>5. ASSUME NEW w \in Workers, Leave(w) PROVE TypeOK'
  BY <1>5 DEF Leave, Gone
<1>6. ASSUME NEW w \in Workers, Load(w) PROVE TypeOK'
  BY <1>6 DEF Load
<1>7. ASSUME NEW w \in Workers, Evaluate(w) PROVE TypeOK'
  BY <1>7 DEF Evaluate
<1>8. ASSUME NEW w \in Workers, Panic(w) PROVE TypeOK'
  BY <1>8 DEF Panic
<1>9. ASSUME NEW w \in Workers, SendResult(w) PROVE TypeOK'
  BY <1>9 DEF SendResult, Idle
<1>10. ASSUME NEW w \in Workers, DropResult(w) PROVE TypeOK'
  BY <1>10 DEF DropResult, Gone
<1>11. ASSUME NEW j \in Jobs, Receive(j) PROVE TypeOK'
  BY <1>11 DEF Receive
<1>12. CASE WriteFinding
  BY <1>12 DEF WriteFinding
<1>13. CASE HandleResult
  BY <1>13 DEF HandleResult, Idle
<1>14. CASE WriteFails
  BY <1>14 DEF WriteFails
<1>15. CASE GiveUp
  BY <1>15 DEF GiveUp, Cancelled, Done
<1>16. CASE StopCollecting
  BY <1>16 DEF StopCollecting, Done
<1>17. CASE EndCollecting
  BY <1>17 DEF EndCollecting, Done
<1>18. CASE CloseResults
  BY <1>18 DEF CloseResults
<1>19. CASE Return
  BY <1>19 DEF Return, Cancelled
<1>20. CASE UNCHANGED vars
  BY <1>20 DEF vars
<1> QED
  BY <1>1, <1>2, <1>3, <1>4, <1>5, <1>6, <1>7, <1>8, <1>9, <1>10, <1>11, <1>12, <1>13, <1>14, <1>15, <1>16, <1>17, <1>18, <1>19, <1>20
  DEF Next, Pool, Environment, Worker, Collector

\* A job leaves the hands of processJob with exactly one callback.
LEMMA CalledBackKept ==
    ASSUME PoolInv, [Next]_vars
    PROVE  CalledBackOnce'
<1> USE PoolAssumption DEF PoolInv, TypeOK, CalledBackOnce, HeldInv, CallsInv, Held, Busy,
           WorkerPhase, Reason,
           envVars, ctxVars, jobVars, sinkVars, scanVars
<1>1. ASSUME NEW j \in Jobs, SendJob(j) PROVE CalledBackOnce'
  BY <1>1 DEF SendJob
<1>2. CASE CloseJobs
  BY <1>2 DEF CloseJobs
<1>3. ASSUME NEW r \in Reason, StopPool(r) PROVE CalledBackOnce'
  BY <1>3 DEF StopPool, Cancelled
<1>4. ASSUME NEW w \in Workers, NEW j \in Jobs, Take(w, j) PROVE CalledBackOnce'
  BY <1>4 DEF Take
<1>5. ASSUME NEW w \in Workers, Leave(w) PROVE CalledBackOnce'
  BY <1>5 DEF Leave, Gone
<1>6. ASSUME NEW w \in Workers, Load(w) PROVE CalledBackOnce'
  BY <1>6 DEF Load
<1>7. ASSUME NEW w \in Workers, Evaluate(w) PROVE CalledBackOnce'
  BY <1>7 DEF Evaluate
<1>8. ASSUME NEW w \in Workers, Panic(w) PROVE CalledBackOnce'
  BY <1>8 DEF Panic
<1>9. ASSUME NEW w \in Workers, SendResult(w) PROVE CalledBackOnce'
  BY <1>9 DEF SendResult, Idle
<1>10. ASSUME NEW w \in Workers, DropResult(w) PROVE CalledBackOnce'
  BY <1>10 DEF DropResult, Gone
<1>11. ASSUME NEW j \in Jobs, Receive(j) PROVE CalledBackOnce'
  BY <1>11 DEF Receive
<1>12. CASE WriteFinding
  BY <1>12 DEF WriteFinding
<1>13. CASE HandleResult
  BY <1>13 DEF HandleResult, Idle
<1>14. CASE WriteFails
  BY <1>14 DEF WriteFails
<1>15. CASE GiveUp
  BY <1>15 DEF GiveUp, Cancelled, Done
<1>16. CASE StopCollecting
  BY <1>16 DEF StopCollecting, Done
<1>17. CASE EndCollecting
  BY <1>17 DEF EndCollecting, Done
<1>18. CASE CloseResults
  BY <1>18 DEF CloseResults
<1>19. CASE Return
  BY <1>19 DEF Return, Cancelled
<1>20. CASE UNCHANGED vars
  BY <1>20 DEF vars
<1> QED
  BY <1>1, <1>2, <1>3, <1>4, <1>5, <1>6, <1>7, <1>8, <1>9, <1>10, <1>11, <1>12, <1>13, <1>14, <1>15, <1>16, <1>17, <1>18, <1>19, <1>20
  DEF Next, Pool, Environment, Worker, Collector

\* A job is received by one worker only (a channel hands a value out once).
LEMMA HeldKept ==
    ASSUME PoolInv, [Next]_vars
    PROVE  HeldInv'
<1> USE PoolAssumption DEF PoolInv, TypeOK, HeldInv, Held, Busy, WorkerPhase, Reason,
           envVars, ctxVars, jobVars, sinkVars, scanVars
<1>1. ASSUME NEW j \in Jobs, SendJob(j) PROVE HeldInv'
  BY <1>1 DEF SendJob
<1>2. CASE CloseJobs
  BY <1>2 DEF CloseJobs
<1>3. ASSUME NEW r \in Reason, StopPool(r) PROVE HeldInv'
  BY <1>3 DEF StopPool, Cancelled
<1>4. ASSUME NEW w \in Workers, NEW j \in Jobs, Take(w, j) PROVE HeldInv'
  BY <1>4 DEF Take
<1>5. ASSUME NEW w \in Workers, Leave(w) PROVE HeldInv'
  BY <1>5 DEF Leave, Gone
<1>6. ASSUME NEW w \in Workers, Load(w) PROVE HeldInv'
  BY <1>6 DEF Load
<1>7. ASSUME NEW w \in Workers, Evaluate(w) PROVE HeldInv'
  BY <1>7 DEF Evaluate
<1>8. ASSUME NEW w \in Workers, Panic(w) PROVE HeldInv'
  BY <1>8 DEF Panic
<1>9. ASSUME NEW w \in Workers, SendResult(w) PROVE HeldInv'
  BY <1>9 DEF SendResult, Idle
<1>10. ASSUME NEW w \in Workers, DropResult(w) PROVE HeldInv'
  BY <1>10 DEF DropResult, Gone
<1>11. ASSUME NEW j \in Jobs, Receive(j) PROVE HeldInv'
  BY <1>11 DEF Receive
<1>12. CASE WriteFinding
  BY <1>12 DEF WriteFinding
<1>13. CASE HandleResult
  BY <1>13 DEF HandleResult, Idle
<1>14. CASE WriteFails
  BY <1>14 DEF WriteFails
<1>15. CASE GiveUp
  BY <1>15 DEF GiveUp, Cancelled, Done
<1>16. CASE StopCollecting
  BY <1>16 DEF StopCollecting, Done
<1>17. CASE EndCollecting
  BY <1>17 DEF EndCollecting, Done
<1>18. CASE CloseResults
  BY <1>18 DEF CloseResults
<1>19. CASE Return
  BY <1>19 DEF Return, Cancelled
<1>20. CASE UNCHANGED vars
  BY <1>20 DEF vars
<1> QED
  BY <1>1, <1>2, <1>3, <1>4, <1>5, <1>6, <1>7, <1>8, <1>9, <1>10, <1>11, <1>12, <1>13, <1>14, <1>15, <1>16, <1>17, <1>18, <1>19, <1>20
  DEF Next, Pool, Environment, Worker, Collector

\* A result belongs to the channel or to the collector, and to no worker.
LEMMA CollectedKept ==
    ASSUME PoolInv, [Next]_vars
    PROVE  CollectedInv'
<1> USE PoolAssumption DEF PoolInv, TypeOK, HeldInv, CollectedInv, CallsInv, Held, Busy, Collected,
           WorkerPhase, Reason,
           envVars, ctxVars, jobVars, sinkVars, scanVars
<1>1. ASSUME NEW j \in Jobs, SendJob(j) PROVE CollectedInv'
  BY <1>1 DEF SendJob
<1>2. CASE CloseJobs
  BY <1>2 DEF CloseJobs
<1>3. ASSUME NEW r \in Reason, StopPool(r) PROVE CollectedInv'
  BY <1>3 DEF StopPool, Cancelled
<1>4. ASSUME NEW w \in Workers, NEW j \in Jobs, Take(w, j) PROVE CollectedInv'
  BY <1>4 DEF Take
<1>5. ASSUME NEW w \in Workers, Leave(w) PROVE CollectedInv'
  BY <1>5 DEF Leave, Gone
<1>6. ASSUME NEW w \in Workers, Load(w) PROVE CollectedInv'
  BY <1>6 DEF Load
<1>7. ASSUME NEW w \in Workers, Evaluate(w) PROVE CollectedInv'
  BY <1>7 DEF Evaluate
<1>8. ASSUME NEW w \in Workers, Panic(w) PROVE CollectedInv'
  BY <1>8 DEF Panic
<1>9. ASSUME NEW w \in Workers, SendResult(w) PROVE CollectedInv'
  BY <1>9 DEF SendResult, Idle
<1>10. ASSUME NEW w \in Workers, DropResult(w) PROVE CollectedInv'
  BY <1>10 DEF DropResult, Gone
<1>11. ASSUME NEW j \in Jobs, Receive(j) PROVE CollectedInv'
  BY <1>11 DEF Receive
<1>12. CASE WriteFinding
  BY <1>12 DEF WriteFinding
<1>13. CASE HandleResult
  BY <1>13 DEF HandleResult, Idle
<1>14. CASE WriteFails
  BY <1>14 DEF WriteFails
<1>15. CASE GiveUp
  BY <1>15 DEF GiveUp, Cancelled, Done
<1>16. CASE StopCollecting
  BY <1>16 DEF StopCollecting, Done
<1>17. CASE EndCollecting
  BY <1>17 DEF EndCollecting, Done
<1>18. CASE CloseResults
  BY <1>18 DEF CloseResults
<1>19. CASE Return
  BY <1>19 DEF Return, Cancelled
<1>20. CASE UNCHANGED vars
  BY <1>20 DEF vars
<1> QED
  BY <1>1, <1>2, <1>3, <1>4, <1>5, <1>6, <1>7, <1>8, <1>9, <1>10, <1>11, <1>12, <1>13, <1>14, <1>15, <1>16, <1>17, <1>18, <1>19, <1>20
  DEF Next, Pool, Environment, Worker, Collector

\* The count of callbacks follows from where the job is.
LEMMA CallsKept ==
    ASSUME PoolInv, [Next]_vars
    PROVE  CallsInv'
<1> USE PoolAssumption DEF PoolInv, TypeOK, HeldInv, CallsInv, Held, Busy, WorkerPhase, Reason,
           envVars, ctxVars, jobVars, sinkVars, scanVars
<1>1. ASSUME NEW j \in Jobs, SendJob(j) PROVE CallsInv'
  BY <1>1 DEF SendJob
<1>2. CASE CloseJobs
  BY <1>2 DEF CloseJobs
<1>3. ASSUME NEW r \in Reason, StopPool(r) PROVE CallsInv'
  BY <1>3 DEF StopPool, Cancelled
<1>4. ASSUME NEW w \in Workers, NEW j \in Jobs, Take(w, j) PROVE CallsInv'
  BY <1>4 DEF Take
<1>5. ASSUME NEW w \in Workers, Leave(w) PROVE CallsInv'
  BY <1>5 DEF Leave, Gone
<1>6. ASSUME NEW w \in Workers, Load(w) PROVE CallsInv'
  BY <1>6 DEF Load
<1>7. ASSUME NEW w \in Workers, Evaluate(w) PROVE CallsInv'
  BY <1>7 DEF Evaluate
<1>8. ASSUME NEW w \in Workers, Panic(w) PROVE CallsInv'
  BY <1>8 DEF Panic
<1>9. ASSUME NEW w \in Workers, SendResult(w) PROVE CallsInv'
  BY <1>9 DEF SendResult, Idle
<1>10. ASSUME NEW w \in Workers, DropResult(w) PROVE CallsInv'
  BY <1>10 DEF DropResult, Gone
<1>11. ASSUME NEW j \in Jobs, Receive(j) PROVE CallsInv'
  BY <1>11 DEF Receive
<1>12. CASE WriteFinding
  BY <1>12 DEF WriteFinding
<1>13. CASE HandleResult
  BY <1>13 DEF HandleResult, Idle
<1>14. CASE WriteFails
  BY <1>14 DEF WriteFails
<1>15. CASE GiveUp
  BY <1>15 DEF GiveUp, Cancelled, Done
<1>16. CASE StopCollecting
  BY <1>16 DEF StopCollecting, Done
<1>17. CASE EndCollecting
  BY <1>17 DEF EndCollecting, Done
<1>18. CASE CloseResults
  BY <1>18 DEF CloseResults
<1>19. CASE Return
  BY <1>19 DEF Return, Cancelled
<1>20. CASE UNCHANGED vars
  BY <1>20 DEF vars
<1> QED
  BY <1>1, <1>2, <1>3, <1>4, <1>5, <1>6, <1>7, <1>8, <1>9, <1>10, <1>11, <1>12, <1>13, <1>14, <1>15, <1>16, <1>17, <1>18, <1>19, <1>20
  DEF Next, Pool, Environment, Worker, Collector

\* Findings are written by the collector alone, up to those of the evaluation.
LEMMA WrittenKept ==
    ASSUME PoolInv, [Next]_vars
    PROVE  WrittenInv'
<1> USE PoolAssumption DEF PoolInv, TypeOK, HeldInv, CollectedInv, CallsInv, WrittenInv, Held, Busy,
           Collected, WorkerPhase, Reason,
           envVars, ctxVars, jobVars, sinkVars, scanVars
<1>1. ASSUME NEW j \in Jobs, SendJob(j) PROVE WrittenInv'
  BY <1>1 DEF SendJob
<1>2. CASE CloseJobs
  BY <1>2 DEF CloseJobs
<1>3. ASSUME NEW r \in Reason, StopPool(r) PROVE WrittenInv'
  BY <1>3 DEF StopPool, Cancelled
<1>4. ASSUME NEW w \in Workers, NEW j \in Jobs, Take(w, j) PROVE WrittenInv'
  BY <1>4 DEF Take
<1>5. ASSUME NEW w \in Workers, Leave(w) PROVE WrittenInv'
  BY <1>5 DEF Leave, Gone
<1>6. ASSUME NEW w \in Workers, Load(w) PROVE WrittenInv'
  BY <1>6 DEF Load
<1>7. ASSUME NEW w \in Workers, Evaluate(w) PROVE WrittenInv'
  BY <1>7 DEF Evaluate
<1>8. ASSUME NEW w \in Workers, Panic(w) PROVE WrittenInv'
  BY <1>8 DEF Panic
<1>9. ASSUME NEW w \in Workers, SendResult(w) PROVE WrittenInv'
  BY <1>9 DEF SendResult, Idle
<1>10. ASSUME NEW w \in Workers, DropResult(w) PROVE WrittenInv'
  BY <1>10 DEF DropResult, Gone
<1>11. ASSUME NEW j \in Jobs, Receive(j) PROVE WrittenInv'
  BY <1>11 DEF Receive
<1>12. CASE WriteFinding
  BY <1>12 DEF WriteFinding
<1>13. CASE HandleResult
  BY <1>13 DEF HandleResult, Idle
<1>14. CASE WriteFails
  BY <1>14 DEF WriteFails
<1>15. CASE GiveUp
  BY <1>15 DEF GiveUp, Cancelled, Done
<1>16. CASE StopCollecting
  BY <1>16 DEF StopCollecting, Done
<1>17. CASE EndCollecting
  BY <1>17 DEF EndCollecting, Done
<1>18. CASE CloseResults
  BY <1>18 DEF CloseResults
<1>19. CASE Return
  BY <1>19 DEF Return, Cancelled
<1>20. CASE UNCHANGED vars
  BY <1>20 DEF vars
<1> QED
  BY <1>1, <1>2, <1>3, <1>4, <1>5, <1>6, <1>7, <1>8, <1>9, <1>10, <1>11, <1>12, <1>13, <1>14, <1>15, <1>16, <1>17, <1>18, <1>19, <1>20
  DEF Next, Pool, Environment, Worker, Collector

\* Until a context or the sink stops it, the pool has every job in some place.
LEMMA LiveKept ==
    ASSUME PoolInv, [Next]_vars
    PROVE  LiveInv'
<1> USE PoolAssumption DEF PoolInv, TypeOK, HeldInv, CollectedInv, LiveInv, Held, Busy, Collected,
           WorkerPhase, Reason,
           envVars, ctxVars, jobVars, sinkVars, scanVars
<1>1. ASSUME NEW j \in Jobs, SendJob(j) PROVE LiveInv'
  BY <1>1 DEF SendJob
<1>2. CASE CloseJobs
  BY <1>2 DEF CloseJobs
<1>3. ASSUME NEW r \in Reason, StopPool(r) PROVE LiveInv'
  BY <1>3 DEF StopPool, Cancelled
<1>4. ASSUME NEW w \in Workers, NEW j \in Jobs, Take(w, j) PROVE LiveInv'
  BY <1>4 DEF Take
<1>5. ASSUME NEW w \in Workers, Leave(w) PROVE LiveInv'
  BY <1>5 DEF Leave, Gone
<1>6. ASSUME NEW w \in Workers, Load(w) PROVE LiveInv'
  BY <1>6 DEF Load
<1>7. ASSUME NEW w \in Workers, Evaluate(w) PROVE LiveInv'
  BY <1>7 DEF Evaluate
<1>8. ASSUME NEW w \in Workers, Panic(w) PROVE LiveInv'
  BY <1>8 DEF Panic
<1>9. ASSUME NEW w \in Workers, SendResult(w) PROVE LiveInv'
  BY <1>9 DEF SendResult, Idle
<1>10. ASSUME NEW w \in Workers, DropResult(w) PROVE LiveInv'
  BY <1>10 DEF DropResult, Gone
<1>11. ASSUME NEW j \in Jobs, Receive(j) PROVE LiveInv'
  BY <1>11 DEF Receive
<1>12. CASE WriteFinding
  BY <1>12 DEF WriteFinding
<1>13. CASE HandleResult
  BY <1>13 DEF HandleResult, Idle
<1>14. CASE WriteFails
  BY <1>14 DEF WriteFails
<1>15. CASE GiveUp
  BY <1>15 DEF GiveUp, Cancelled, Done
<1>16. CASE StopCollecting
  BY <1>16 DEF StopCollecting, Done
<1>17. CASE EndCollecting
  BY <1>17 DEF EndCollecting, Done
<1>18. CASE CloseResults
  BY <1>18 DEF CloseResults
<1>19. CASE Return
  BY <1>19 DEF Return, Cancelled
<1>20. CASE UNCHANGED vars
  BY <1>20 DEF vars
<1> QED
  BY <1>1, <1>2, <1>3, <1>4, <1>5, <1>6, <1>7, <1>8, <1>9, <1>10, <1>11, <1>12, <1>13, <1>14, <1>15, <1>16, <1>17, <1>18, <1>19, <1>20
  DEF Next, Pool, Environment, Worker, Collector

-------------------------------------------------------------------------------
LEMMA PoolInvInit == Init => PoolInv
<1> SUFFICES ASSUME Init PROVE PoolInv
  OBVIOUS
<1> USE PoolAssumption DEF Init, PoolInit, Idle
<1>1. TypeOK
  <2>1. found \in [Jobs -> 0 .. MaxFindings]
    OBVIOUS
  <2> QED
    BY <2>1 DEF TypeOK, WorkerPhase, Reason
<1>2. HeldInv
  BY DEF HeldInv, Held, Busy
<1>3. CollectedInv
  BY DEF CollectedInv, Collected
<1>4. CallsInv /\ CalledBackOnce
  BY DEF CallsInv, CalledBackOnce, Held
<1>5. WrittenInv
  BY DEF WrittenInv, Held, Collected
<1>6. LiveInv
  BY DEF LiveInv
<1> QED
  BY <1>1, <1>2, <1>3, <1>4, <1>5, <1>6 DEF PoolInv

LEMMA PoolInvKept == PoolInv /\ [Next]_vars => PoolInv'
BY TypesKept, CalledBackKept, HeldKept, CollectedKept, CallsKept, WrittenKept,
   LiveKept DEF PoolInv

\* The invariant of the pool, whoever sends jobs, closes the channel or cancels.
THEOREM PoolInvariant == Spec => []PoolInv
BY PoolInvInit, PoolInvKept, PTL DEF Spec

\* Types of the pool's channels, workers and counters.
THEOREM PoolTypes == Spec => []TypeOK
<1>1. PoolInv => TypeOK
  BY DEF PoolInv
<1> QED
  BY <1>1, PoolInvariant, PTL

\* OnComplete is called exactly once for every job taken: processJob, with its
\* recovered panics, for any number of workers.
THEOREM PoolCallsBackOnce == Spec => []CalledBackOnce
<1>1. PoolInv => CalledBackOnce
  BY DEF PoolInv
<1> QED
  BY <1>1, PoolInvariant, PTL

LEMMA DeliveredWhenUnstopped ==
    ASSUME PoolInv, scan = "returned", poolCtx = "live", collectErr # "sink"
    PROVE  /\ closed /\ handled = sent
           /\ \A j \in Jobs : written[j] = found[j]
<1>1. \A w \in Workers : worker[w].at = "left"
  BY DEF PoolInv, LiveInv
<1>2. closed /\ queue = {} /\ results = {} /\ collector.at = "done"
  BY <1>1, PoolAssumption DEF PoolInv, LiveInv
<1>3. \A w \in Workers : Held(w) = NoJob
  BY <1>1 DEF PoolInv, HeldInv, Busy
<1>4. \A j \in sent : j \in handled
  BY <1>2, <1>3, PoolAssumption DEF PoolInv, TypeOK, LiveInv, Collected
<1>5. handled \subseteq sent
  BY DEF PoolInv, TypeOK, CollectedInv, Collected
<1>6. ASSUME NEW j \in Jobs PROVE written[j] = found[j]
  <2>1. CASE j \in handled
    BY <2>1 DEF PoolInv, WrittenInv
  <2>2. CASE j \notin handled
    BY <2>2, <1>4 DEF PoolInv, CallsInv, WrittenInv
  <2> QED
    BY <2>1, <2>2
<1> QED
  BY <1>2, <1>4, <1>5, <1>6

\* A Scan that returned nil with its context alive has called back every job and
\* written every finding (collectResults drains what the workers sent).
THEOREM PoolDelivers == Spec => []NilMeansDelivered
<1>1. PoolInv => NilMeansDelivered
  <2> SUFFICES ASSUME PoolInv, scan = "returned", scanErr = "nil", poolCtx = "live"
               PROVE  /\ closed /\ handled = sent
                      /\ \A j \in Jobs : written[j] = found[j]
    BY DEF NilMeansDelivered
  <2>1. collectErr # "sink"
    BY DEF PoolInv, LiveInv
  <2> QED
    BY <2>1, DeliveredWhenUnstopped
<1> QED
  BY <1>1, PoolInvariant, PTL

\* When Scan has returned, its workers and its collector have too: the sink and
\* the checkpoint may be closed (the WaitGroup and the done channel).
THEOREM PoolQuietAfterReturn == Spec => QuietAfterReturn
<1>1. ASSUME PoolInv, [Next]_vars, scan = "returned"
      PROVE  UNCHANGED <<jobVars, written, handled>>
  <2>1. /\ \A w \in Workers : worker[w].at = "left"
        /\ collector.at = "done"
    BY <1>1 DEF PoolInv, LiveInv
  <2>2. ~Pool
    BY <1>1, <2>1 DEF Pool, Worker, Take, Leave, Load, Evaluate, Panic, SendResult,
       DropResult, Collector, Receive, WriteFinding, HandleResult, WriteFails,
       GiveUp, StopCollecting, EndCollecting, CloseResults, Return
  <2>3. CASE Environment
    BY <2>3 DEF Environment, SendJob, CloseJobs, StopPool, sinkVars
  <2>4. CASE UNCHANGED vars
    BY <2>4 DEF vars, sinkVars
  <2> QED
    BY <1>1, <2>2, <2>3, <2>4 DEF Next
<1> QED
  BY <1>1, PoolInvariant, PTL DEF Spec, QuietAfterReturn
-------------------------------------------------------------------------------
(***************************************************************************)
(* The refinement of JobDelivery.                                          *)
(***************************************************************************)
\* Steps that only move jobs about, or move a goroutine.
Silent == \/ CloseJobs \/ CloseResults
          \/ \E w \in Workers, j \in Jobs : Take(w, j)
          \/ \E w \in Workers : Leave(w) \/ Load(w) \/ SendResult(w) \/ DropResult(w)
          \/ \E j \in Jobs : Receive(j)
          \/ WriteFinding \/ GiveUp \/ StopCollecting \/ EndCollecting
          \/ UNCHANGED vars

LEMMA SilentSteps ==
    ASSUME PoolInv, Silent
    PROVE  UNCHANGED Delivery!jvars
<1>1. UNCHANGED <<handled, calls>> /\ sent' = sent
  BY DEF Silent, CloseJobs, CloseResults, Take, Leave, Load, SendResult,
     DropResult, Receive, WriteFinding, GiveUp, StopCollecting, EndCollecting,
     vars, envVars, jobVars, sinkVars
<1>2. \A j \in Jobs : StageOf(j)' = StageOf(j)
  BY <1>1 DEF StageOf
<1>3. (scan = "returned")' <=> (scan = "returned")
  BY DEF Silent, CloseJobs, CloseResults, Take, Leave, Load, SendResult,
     DropResult, Receive, WriteFinding, GiveUp, StopCollecting, EndCollecting,
     vars, scanVars
<1>4. (poolCtx # "live" \/ collectErr = "sink")'
         <=> (poolCtx # "live" \/ collectErr = "sink")
  <2>1. CASE StopCollecting
    BY <2>1 DEF StopCollecting, ctxVars, PoolInv, LiveInv
  <2>2. CASE ~StopCollecting
    BY <2>2 DEF Silent, CloseJobs, CloseResults, Take, Leave, Load, SendResult,
       DropResult, Receive, WriteFinding, GiveUp, EndCollecting, vars, ctxVars,
       sinkVars
  <2> QED
    BY <2>1, <2>2
<1> QED
  BY <1>2, <1>3, <1>4 DEF Delivery!jvars

\* What the pool did to one job, as JobDelivery sees it.
LEMMA StageMoves ==
    ASSUME TypeOK, NEW j \in Jobs, NEW stage, StageOf(j)' = stage,
           \A i \in Jobs \ {j} : StageOf(i)' = StageOf(i)
    PROVE  [i \in Jobs |-> StageOf(i)]'
             = [[i \in Jobs |-> StageOf(i)] EXCEPT ![j] = stage]
OBVIOUS

LEMMA SendRefines ==
    ASSUME PoolInv, NEW j \in Jobs, SendJob(j)
    PROVE  Delivery!Send(j)
<1> USE DEF PoolInv, TypeOK, CallsInv, CollectedInv, Collected, SendJob, jobVars,
            sinkVars, ctxVars, scanVars
<1>1. StageOf(j) = "unsent" /\ StageOf(j)' = "sent"
  BY DEF StageOf
<1>2. \A i \in Jobs \ {j} : StageOf(i)' = StageOf(i)
  BY DEF StageOf
<1> QED
  BY <1>1, <1>2, StageMoves DEF Delivery!Send

LEMMA CallBackRefines ==
    ASSUME PoolInv, NEW w \in Workers, Evaluate(w) \/ Panic(w)
    PROVE  \E j \in Jobs : Delivery!CallBack(j)
<1>0. worker[w].job \in sent \ queue /\ calls[worker[w].job] = 0
  BY DEF PoolInv, TypeOK, HeldInv, Held, Busy, CallsInv, Evaluate, Panic
<1>1. PICK j \in Jobs : j = worker[w].job /\ j \in sent \ queue /\ calls[j] = 0
  BY <1>0 DEF PoolInv, TypeOK
<1>2. scan # "returned"
  BY DEF PoolInv, TypeOK, LiveInv, Evaluate, Panic
<1>3. calls' = [calls EXCEPT ![j] = 1] /\ UNCHANGED <<sent, handled>>
  BY <1>1 DEF Evaluate, Panic, envVars, sinkVars
<1>4. j \notin handled
  BY <1>1 DEF PoolInv, CollectedInv, Collected, CallsInv
<1>5. StageOf(j) = "sent" /\ StageOf(j)' = "called"
  BY <1>1, <1>3, <1>4 DEF StageOf, PoolInv, TypeOK
<1>6. \A i \in Jobs \ {j} : StageOf(i)' = StageOf(i)
  BY <1>3 DEF StageOf, PoolInv, TypeOK
<1>7. UNCHANGED <<poolCtx, collectErr, scan>>
  BY DEF Evaluate, Panic, ctxVars, sinkVars, scanVars
<1>8. Delivery!CallBack(j)
  BY <1>1, <1>2, <1>5, <1>6, <1>7, StageMoves DEF PoolInv, Delivery!CallBack
<1> QED
  BY <1>1, <1>8

LEMMA DeliverRefines ==
    ASSUME PoolInv, HandleResult
    PROVE  \E j \in Jobs : Delivery!Deliver(j)
<1>0. /\ collector.job \in Jobs \ handled
      /\ calls[collector.job] = 1
  BY DEF PoolInv, CollectedInv, Collected, HandleResult
<1>1. PICK j \in Jobs : j = collector.job /\ calls[j] = 1 /\ j \notin handled
  BY <1>0
<1>2. scan # "returned"
  BY DEF PoolInv, LiveInv, HandleResult
<1>3. handled' = handled \cup {j} /\ UNCHANGED <<sent, calls>>
  BY <1>1 DEF HandleResult, envVars, jobVars
<1>4. StageOf(j) = "called" /\ StageOf(j)' = "delivered"
  BY <1>1, <1>3 DEF StageOf
<1>5. \A i \in Jobs \ {j} : StageOf(i)' = StageOf(i)
  BY <1>3 DEF StageOf
<1>6. UNCHANGED <<poolCtx, collectErr, scan>>
  BY DEF HandleResult, ctxVars, scanVars
<1>7. Delivery!Deliver(j)
  BY <1>1, <1>2, <1>4, <1>5, <1>6, StageMoves DEF PoolInv, Delivery!Deliver
<1> QED
  BY <1>1, <1>7

LEMMA StopRefines ==
    ASSUME PoolInv, WriteFails \/ \E reason \in Reason : StopPool(reason)
    PROVE  Delivery!Stop
<1>1. UNCHANGED <<handled, calls>> /\ sent' = sent /\ scan' = scan
  BY DEF WriteFails, StopPool, envVars, jobVars, sinkVars, scanVars
<1>2. [j \in Jobs |-> StageOf(j)]' = [j \in Jobs |-> StageOf(j)]
  BY <1>1 DEF StageOf
<1>3. poolCtx' # "live" \/ collectErr' = "sink"
  BY DEF WriteFails, StopPool, Reason
<1> QED
  BY <1>1, <1>2, <1>3 DEF Delivery!Stop

LEMMA EndRefines ==
    ASSUME PoolInv, Return
    PROVE  Delivery!End
<1>1. UNCHANGED <<handled, calls, poolCtx, collectErr>> /\ sent' = sent
  BY DEF Return, envVars, jobVars, sinkVars
<1>2. [j \in Jobs |-> StageOf(j)]' = [j \in Jobs |-> StageOf(j)]
  BY <1>1 DEF StageOf
<1>3. ASSUME poolCtx = "live", collectErr # "sink", NEW j \in Jobs
      PROVE  StageOf(j) \in {"unsent", "delivered"}
  <2>1. \A w \in Workers : worker[w].at = "left"
    BY DEF Return, PoolInv, LiveInv
  <2>2. queue = {} /\ results = {} /\ collector.at = "done"
    BY <1>3, <2>1, PoolAssumption DEF Return, PoolInv, LiveInv
  <2>3. \A w \in Workers : Held(w) = NoJob
    BY <2>1 DEF PoolInv, HeldInv, Busy
  <2>4. j \in sent => j \in handled
    BY <1>3, <2>2, <2>3, PoolAssumption DEF PoolInv, TypeOK, LiveInv, Collected
  <2>5. j \notin sent => calls[j] = 0
    BY DEF PoolInv, CallsInv
  <2> QED
    BY <2>4, <2>5 DEF StageOf
<1>4. scan' = "returned"
  BY DEF Return
<1> QED
  BY <1>1, <1>2, <1>3, <1>4 DEF Delivery!End

\* The pool with its goroutines, channels and contexts keeps what JobDelivery
\* promises: callback before findings, nothing undelivered unless it was stopped.
THEOREM PoolImplementsJobDelivery == Spec => ImplementsJobDelivery
<1>1. Init => Delivery!JInit
  BY DEF Init, PoolInit, StageOf, Delivery!JInit
<1>2. ASSUME PoolInv, [Next]_vars
      PROVE  [Delivery!JNext]_(Delivery!jvars)
  <2>1. CASE Silent
    BY <1>2, <2>1, SilentSteps
  <2>2. ASSUME NEW j \in Jobs, SendJob(j)
        PROVE  Delivery!JNext
    BY <1>2, <2>2, SendRefines DEF Delivery!JNext
  <2>3. ASSUME NEW w \in Workers, Evaluate(w) \/ Panic(w)
        PROVE  Delivery!JNext
    BY <1>2, <2>3, CallBackRefines DEF Delivery!JNext
  <2>4. CASE HandleResult
    BY <1>2, <2>4, DeliverRefines DEF Delivery!JNext
  <2>5. CASE WriteFails \/ \E reason \in Reason : StopPool(reason)
    BY <1>2, <2>5, StopRefines DEF Delivery!JNext
  <2>6. CASE Return
    BY <1>2, <2>6, EndRefines DEF Delivery!JNext
  <2>7. CASE Environment
    BY <2>1, <2>2, <2>5, <2>7 DEF Environment, Silent
  <2>8. CASE Pool
    BY <2>1, <2>3, <2>4, <2>5, <2>6, <2>8 DEF Pool, Worker, Collector, Silent
  <2> QED
    BY <1>2, <2>1, <2>7, <2>8 DEF Next, Silent
<1> QED
  BY <1>1, <1>2, PoolInvariant, PTL DEF Spec, ImplementsJobDelivery, Delivery!JSpec

-------------------------------------------------------------------------------
(* The scan of a host.                                                     *)
\* The moves of the pool that RecordFileResult has no part in.
Quiet == \/ \E w \in Workers : \/ \E f \in Jobs : Take(w, f)
                               \/ Load(w) \/ Leave(w)
                               \/ SendResult(w) \/ DropResult(w)
         \/ Collector \/ CloseResults \/ Return

\* In a share, and no error of its walk is known yet.
Yielding == walker.at \in {"walking", "flushing", "lastFlush"}

\* What a share may be given up for with the host going on.
WalkFailure == {"walk"} \cup ({poolCtx} \ {"live"})

LEMMA StopsOfAWalk ==
    ASSUME FailWalk \/ StopFlush
    PROVE  Yielding /\ (GiveUpHost \/ \E err \in WalkFailure : ContinueAfter(err))
BY DEF FailWalk, StopFlush, Flushing, Yielding, WalkFailure

\* The steps of the host, one action each.
LEMMA HostSteps ==
    ASSUME [HostNext]_hvars
    PROVE  \/ \E s \in Shares : SkipShare(s) \/ StartShare(s)
           \/ \E f \in Jobs : YieldFile(f) \/ SkipFile(f) \/ Enqueue(f)
           \/ EndWalk \/ EndFlush \/ FinishShareEnumeration
           \/ Yielding /\ \E err \in WalkFailure : ContinueAfter(err)
           \/ GiveUpHost /\ Yielding
           \/ CancelPool \/ EndLoop \/ CloseQueue \/ ReturnHost
           \/ Quiet /\ UNCHANGED hostVars
           \/ \E w \in Workers : RecordFile(w) \/ RecordShare(w)
           \/ \E r \in Reason : StopScan(r)
           \/ UNCHANGED hvars
<1>1. CASE \E w \in Workers : WorkerStep(w)
  BY <1>1 DEF WorkerStep, LoadFile, Quiet
<1>2. CASE FailWalk \/ StopFlush
  BY <1>2, StopsOfAWalk
<1> QED
  BY <1>1, <1>2 DEF HostNext, Walker, PoolStep, Quiet

\* What the walker and RunScan can see of a step of the pool.
SeenOfPool ==
    /\ sent' = sent /\ queue' \subseteq queue /\ poolCtx' = poolCtx
    /\ runCtx # "live" => runCtx' = runCtx
    /\ runCtx' # runCtx => runCtx' = "canceled"
    /\ collectErr' = "deadline" => "deadline" \in {collectErr, runCtx}
    /\ scanErr' = "deadline" => "deadline" \in {scanErr, collectErr, poolCtx}
    /\ scan = "returned" => scan' = "returned" /\ scanErr' = scanErr

LEMMA PoolMoves ==
    ASSUME PoolInv, Pool
    PROVE  SeenOfPool
<1> USE DEF PoolInv, TypeOK, SeenOfPool, Reason, envVars, ctxVars, jobVars,
           sinkVars, scanVars
<1>1. ASSUME NEW w \in Workers, Worker(w) PROVE SeenOfPool
  BY <1>1 DEF Worker, Take, Leave, Load, Evaluate, Panic, SendResult, DropResult
<1>2. CASE Collector
  BY <1>2 DEF Collector, Receive, WriteFinding, HandleResult, WriteFails, GiveUp,
              StopCollecting, EndCollecting, Cancelled
<1>3. CASE CloseResults \/ Return
  BY <1>3 DEF CloseResults, Return, Cancelled
<1> QED
  BY <1>1, <1>2, <1>3 DEF Pool

LEMMA QuietMoves ==
    ASSUME HostInv, Quiet
    PROVE  SeenOfPool /\ calls' = calls
<1>1. Pool
  BY DEF Quiet, Pool, Worker
<1>2. calls' = calls
  BY DEF Quiet, Take, Load, Leave, SendResult, DropResult, Collector, Receive,
         WriteFinding, HandleResult, WriteFails, GiveUp, StopCollecting,
         EndCollecting, CloseResults, Return, jobVars
<1> QED
  BY <1>1, <1>2, PoolMoves DEF HostInv

\* A worker that calls OnComplete has a job that was sent and not called back.
LEMMA CallersJob ==
    ASSUME PoolInv, NEW w \in Workers, worker[w].at \in {"took", "loaded"}
    PROVE  worker[w].job \in sent \ queue /\ calls[worker[w].job] = 0
BY DEF PoolInv, TypeOK, HeldInv, CallsInv, Held, Busy

\* The second critical section of RecordFileResult, and what it leaves alone.
LEMMA RecordShareMoves ==
    ASSUME HostInv, NEW w \in Workers, RecordShare(w)
    PROVE  /\ SeenOfPool
           /\ UNCHANGED <<filesDone, walkVars, verdict, errVars, scanCtx, endVars>>
           /\ \E f \in Jobs :
                 LET s == shareOf[f]
                     e == Counted(pending[s], verdict[f] = "succeeded")
                 IN  /\ verdict[f] # "none"
                     /\ f \in sent \ queue /\ calls[f] = 0
                     /\ calls' = [calls EXCEPT ![f] = @ + 1]
                     /\ verdict[f] = "failed" <=> f \in failed'
                     /\ IF pending[s] = NoEntry
                        THEN UNCHANGED <<pending, sharesDone>>
                        ELSE /\ pending' = [pending EXCEPT ![s] = Kept(e)]
                             /\ sharesDone' = IF Completes(e)
                                              THEN sharesDone \cup {s}
                                              ELSE sharesDone
<1>1. Pool
  BY DEF RecordShare, Pool, Worker
<1>2. /\ worker[w].job \in sent \ queue /\ calls[worker[w].job] = 0
      /\ worker[w].job \in Jobs
  BY CallersJob DEF RecordShare, HostInv, PoolInv, TypeOK
<1>3. calls' = [calls EXCEPT ![worker[w].job] = @ + 1]
  BY DEF RecordShare, Evaluate, Panic
<1> QED
  BY <1>1, <1>2, <1>3, PoolMoves DEF HostInv, RecordShare

\* A step of the host is one of the pool or does not touch it.
LEMMA HostMovesPool ==
    ASSUME HostInv, [HostNext]_hvars
    PROVE  [Next]_vars
<1> USE DEF HostInv, PoolInv, TypeOK, ContextInv, vars, envVars, ctxVars, jobVars,
           sinkVars, scanVars
<1>1. CASE \E f \in Jobs : Enqueue(f)
  BY <1>1 DEF Enqueue, Next, Environment
<1>2. CASE CloseQueue
  BY <1>2 DEF CloseQueue, Next, Environment
<1>3. CASE CancelPool
  <2>1. CASE poolCtx = "live"
    <3>1. StopPool("canceled")
      BY <1>3, <2>1 DEF CancelPool, StopPool, Cancelled
    <3> QED
      BY <3>1 DEF Next, Environment, Reason
  <2>2. CASE poolCtx # "live"
    BY <1>3, <2>2 DEF CancelPool, Cancelled
  <2> QED
    BY <2>1, <2>2
<1>4. CASE \E r \in Reason : StopScan(r)
  <2> PICK r \in Reason : StopScan(r)
    BY <1>4
  <2>1. CASE poolCtx = "live"
    <3>1. StopPool(r)
      BY <2>1 DEF StopScan, StopPool, Cancelled
    <3> QED
      BY <3>1 DEF Next, Environment
  <2>2. CASE poolCtx # "live"
    BY <2>2 DEF StopScan, Cancelled
  <2> QED
    BY <2>1, <2>2
<1>5. CASE Quiet
  BY <1>5 DEF Quiet, Next, Pool, Worker
<1>6. CASE \E w \in Workers : RecordShare(w)
  BY <1>6 DEF RecordShare, Next, Pool, Worker
<1>7. CASE \/ \E s \in Shares : SkipShare(s) \/ StartShare(s)
           \/ \E f \in Jobs : YieldFile(f) \/ SkipFile(f)
           \/ EndWalk \/ EndFlush \/ FinishShareEnumeration
           \/ EndLoop \/ ReturnHost
           \/ \E w \in Workers : RecordFile(w)
           \/ UNCHANGED hvars
  <2>1. UNCHANGED vars
    BY <1>7 DEF SkipShare, StartShare, YieldFile, SkipFile, EndWalk, EndFlush,
                FinishShareEnumeration, EndLoop, ReturnHost, RecordFile, hvars
  <2> QED
    BY <2>1
<1>8. CASE GiveUpHost \/ \E err \in WalkFailure : ContinueAfter(err)
  BY <1>8 DEF GiveUpHost, ContinueAfter, AbortShare
<1> QED
  BY HostSteps, <1>1, <1>2, <1>3, <1>4, <1>5, <1>6, <1>7, <1>8

\* The pool's invariant in the host's scan.
LEMMA HostKeepsPool ==
    ASSUME HostInv, [HostNext]_hvars
    PROVE  PoolInv'
BY HostMovesPool, PoolInvKept DEF HostInv

\* What the manager's methods do to an entry, or to its absence.
LEMMA EntryTypes ==
    ASSUME NEW e \in Entry \cup {NoEntry}
    PROVE  /\ Present(e) \in Entry
           /\ \A n \in Nat : Added(e, n) \in Entry \cup {NoEntry}
           /\ Kept(Ended(e)) \in Entry \cup {NoEntry}
           /\ e # NoEntry => \A ok \in BOOLEAN :
                                Kept(Counted(e, ok)) \in Entry \cup {NoEntry}
<1>1. Present(e) \in Entry
  BY DEF Present, NewEntry, Entry
<1>2. ASSUME NEW n \in Nat PROVE Added(e, n) \in Entry \cup {NoEntry}
  BY <1>1 DEF Added, Entry
<1>3. Ended(e) \in Entry
  BY <1>1 DEF Ended, Entry
<1>4. ASSUME e # NoEntry, NEW ok \in BOOLEAN PROVE Counted(e, ok) \in Entry
  <2> DEFINE bad == e.failed \/ ~ok
             r   == e.remaining - 1
  <2>1. bad \in BOOLEAN /\ r \in Int
    BY <1>4 DEF Entry
  <2>2. Counted(e, ok) = [e EXCEPT !.remaining = r, !.failed = bad]
    BY DEF Counted
  <2> HIDE DEF bad, r
  <2> QED
    BY <1>4, <2>1, <2>2 DEF Entry
<1> QED
  BY <1>1, <1>2, <1>3, <1>4 DEF Kept

\* Types of the host's own variables; those of the pool are in PoolInv.
LEMMA HostTypesKept ==
    ASSUME HostInv, [HostNext]_hvars
    PROVE  HostTypeOK'
<1>0. TypeOK'
  BY HostKeepsPool DEF PoolInv
<1> USE <1>0, HostAssumption DEF HostInv, HostTypeOK, SeenOfPool, WalkerInv,
           InShare, Here, WalkerPhase, vars, envVars, ctxVars, jobVars, sinkVars,
           scanVars, hostVars, managerVars, walkVars, errVars, endVars
<1>1. ASSUME NEW s \in Shares, SkipShare(s) PROVE HostTypeOK'
  BY <1>1 DEF SkipShare
<1>2. ASSUME NEW s \in Shares, StartShare(s) PROVE HostTypeOK'
  <2>1. pending[s] \in Entry \cup {NoEntry} /\ Present(pending[s]) \in Entry
    BY EntryTypes
  <2> QED
    BY <1>2, <2>1 DEF StartShare
<1>3. ASSUME NEW f \in Jobs, YieldFile(f) PROVE HostTypeOK'
  BY <1>3 DEF YieldFile
<1>4. ASSUME NEW f \in Jobs, SkipFile(f) PROVE HostTypeOK'
  BY <1>4 DEF SkipFile
<1>5. ASSUME NEW f \in Jobs, Enqueue(f) PROVE HostTypeOK'
  BY <1>5 DEF Enqueue, SendJob
<1>6. CASE EndWalk
  BY <1>6 DEF EndWalk
<1>7. CASE EndFlush
  <2>1. Here \in Shares
    BY <1>7 DEF EndFlush, Flushing
  <2>2. Added(pending[Here], batch) \in Entry \cup {NoEntry}
    BY <2>1, EntryTypes
  <2>3. pending' \in [Shares -> Entry \cup {NoEntry}]
    BY <1>7, <2>1, <2>2 DEF EndFlush
  <2> QED
    BY <1>7, <2>3 DEF EndFlush
<1>8. CASE FinishShareEnumeration
  <2>1. Here \in Shares
    BY <1>8 DEF FinishShareEnumeration
  <2>2. Kept(Ended(pending[Here])) \in Entry \cup {NoEntry}
    BY <2>1, EntryTypes
  <2>3. pending' \in [Shares -> Entry \cup {NoEntry}]
    BY <1>8, <2>1, <2>2 DEF FinishShareEnumeration
  <2> QED
    BY <1>8, <2>1, <2>3 DEF FinishShareEnumeration
<1>9. ASSUME NEW err \in WalkFailure, ContinueAfter(err), Yielding PROVE HostTypeOK'
  BY <1>9 DEF ContinueAfter, AbortShare, WalkFailure, Yielding, PoolInv, TypeOK,
     Reason
<1>10. CASE GiveUpHost /\ Yielding
  BY <1>10 DEF GiveUpHost, AbortShare, Yielding
<1>11. CASE CancelPool
  BY <1>11 DEF CancelPool, Cancelled
<1>12. CASE EndLoop
  BY <1>12 DEF EndLoop
<1>13. CASE CloseQueue
  BY <1>13 DEF CloseQueue, CloseJobs
<1>14. CASE ReturnHost
  BY <1>14 DEF ReturnHost, HostError, PoolInv, TypeOK
<1>15. CASE Quiet /\ UNCHANGED hostVars
  BY <1>15, QuietMoves
<1>16. ASSUME NEW w \in Workers, RecordFile(w) PROVE HostTypeOK'
  BY <1>16, CallersJob DEF RecordFile, PoolInv, TypeOK
<1>17. ASSUME NEW w \in Workers, RecordShare(w) PROVE HostTypeOK'
  <2>1. PICK f \in Jobs :
                 LET s == shareOf[f]
                     e == Counted(pending[s], verdict[f] = "succeeded")
                 IN  IF pending[s] = NoEntry
                     THEN UNCHANGED <<pending, sharesDone>>
                     ELSE /\ pending' = [pending EXCEPT ![s] = Kept(e)]
                          /\ sharesDone' = IF Completes(e)
                                            THEN sharesDone \cup {s}
                                            ELSE sharesDone
    BY <1>17, RecordShareMoves
  <2>2. /\ pending' \in [Shares -> Entry \cup {NoEntry}]
        /\ sharesDone' \subseteq Shares
    <3> DEFINE s  == shareOf[f]
               ok == verdict[f] = "succeeded"
    <3>1. s \in Shares /\ pending[s] \in Entry \cup {NoEntry}
      OBVIOUS
    <3>2. ok \in BOOLEAN
      OBVIOUS
    <3>3. pending[s] # NoEntry =>
             Kept(Counted(pending[s], ok)) \in Entry \cup {NoEntry}
      <4> HIDE DEF ok, s
      <4> QED
        BY <3>1, <3>2, EntryTypes
    <3> QED
      BY <2>1, <3>1, <3>3
  <2> QED
    BY <1>17, <2>2, RecordShareMoves
<1>18. ASSUME NEW r \in Reason, StopScan(r) PROVE HostTypeOK'
  BY <1>18 DEF StopScan, Cancelled
<1>19. CASE UNCHANGED hvars
  BY <1>19 DEF hvars
<1> QED
  BY HostSteps, <1>1, <1>2, <1>3, <1>4, <1>5, <1>6, <1>7, <1>8, <1>9, <1>10,
     <1>11, <1>12, <1>13, <1>14, <1>15, <1>16, <1>17, <1>18, <1>19

\* One share is walked at a time, and a host is given up or walked to the end.
LEMMA WalkerKept ==
    ASSUME HostInv, [HostNext]_hvars
    PROVE  WalkerInv'
<1> USE HostAssumption DEF HostInv, HostTypeOK, SeenOfPool, WalkerInv, InShare,
           AfterLoop, Here, WalkerPhase, Flushing, vars, envVars, ctxVars, jobVars,
           sinkVars, scanVars, hostVars, managerVars, walkVars, errVars, endVars
<1>1. ASSUME NEW s \in Shares, SkipShare(s) PROVE WalkerInv'
  BY <1>1 DEF SkipShare
<1>2. ASSUME NEW s \in Shares, StartShare(s) PROVE WalkerInv'
  BY <1>2 DEF StartShare
<1>3. ASSUME NEW f \in Jobs, YieldFile(f) PROVE WalkerInv'
  BY <1>3 DEF YieldFile
<1>4. ASSUME NEW f \in Jobs, SkipFile(f) PROVE WalkerInv'
  BY <1>4 DEF SkipFile
<1>5. ASSUME NEW f \in Jobs, Enqueue(f) PROVE WalkerInv'
  BY <1>5 DEF Enqueue, SendJob
<1>6. CASE EndWalk
  BY <1>6 DEF EndWalk
<1>7. CASE EndFlush
  BY <1>7 DEF EndFlush
<1>8. CASE FinishShareEnumeration
  BY <1>8 DEF FinishShareEnumeration
<1>9. ASSUME NEW err \in WalkFailure, ContinueAfter(err), Yielding PROVE WalkerInv'
  BY <1>9 DEF ContinueAfter, AbortShare, WalkFailure, Yielding
<1>10. CASE GiveUpHost /\ Yielding
  BY <1>10 DEF GiveUpHost, AbortShare, Yielding
<1>11. CASE CancelPool
  BY <1>11 DEF CancelPool, Cancelled
<1>12. CASE EndLoop
  BY <1>12 DEF EndLoop
<1>13. CASE CloseQueue
  BY <1>13 DEF CloseQueue, CloseJobs
<1>14. CASE ReturnHost
  BY <1>14 DEF ReturnHost
<1>15. CASE Quiet /\ UNCHANGED hostVars
  BY <1>15, QuietMoves
<1>16. ASSUME NEW w \in Workers, RecordFile(w) PROVE WalkerInv'
  BY <1>16 DEF RecordFile
<1>17. ASSUME NEW w \in Workers, RecordShare(w) PROVE WalkerInv'
  BY <1>17, RecordShareMoves
<1>18. ASSUME NEW r \in Reason, StopScan(r) PROVE WalkerInv'
  BY <1>18 DEF StopScan, Cancelled
<1>19. CASE UNCHANGED hvars
  BY <1>19 DEF hvars
<1> QED
  BY HostSteps, <1>1, <1>2, <1>3, <1>4, <1>5, <1>6, <1>7, <1>8, <1>9, <1>10,
     <1>11, <1>12, <1>13, <1>14, <1>15, <1>16, <1>17, <1>18, <1>19

\* Only a batch in the making lists files, all of the share that is walked.
LEMMA BatchKept ==
    ASSUME HostInv, [HostNext]_hvars
    PROVE  BatchInv'
<1> USE HostAssumption DEF HostInv, HostTypeOK, SeenOfPool, WalkerInv, BatchInv,
           InShare, Here, FilesOf, Flushing, vars, envVars, ctxVars, jobVars,
           sinkVars, scanVars, hostVars, managerVars, walkVars, errVars, endVars
<1>1. ASSUME NEW s \in Shares, SkipShare(s) PROVE BatchInv'
  BY <1>1 DEF SkipShare
<1>2. ASSUME NEW s \in Shares, StartShare(s) PROVE BatchInv'
  BY <1>2 DEF StartShare
<1>3. ASSUME NEW f \in Jobs, YieldFile(f) PROVE BatchInv'
  BY <1>3 DEF YieldFile
<1>4. ASSUME NEW f \in Jobs, SkipFile(f) PROVE BatchInv'
  BY <1>4 DEF SkipFile
<1>5. ASSUME NEW f \in Jobs, Enqueue(f) PROVE BatchInv'
  BY <1>5 DEF Enqueue, SendJob
<1>6. CASE EndWalk
  BY <1>6 DEF EndWalk
<1>7. CASE EndFlush
  BY <1>7 DEF EndFlush
<1>8. CASE FinishShareEnumeration
  BY <1>8 DEF FinishShareEnumeration
<1>9. ASSUME NEW err \in WalkFailure, ContinueAfter(err), Yielding PROVE BatchInv'
  BY <1>9 DEF ContinueAfter, AbortShare, WalkFailure, Yielding
<1>10. CASE GiveUpHost /\ Yielding
  BY <1>10 DEF GiveUpHost, AbortShare, Yielding
<1>11. CASE CancelPool
  BY <1>11 DEF CancelPool, Cancelled
<1>12. CASE EndLoop
  BY <1>12 DEF EndLoop
<1>13. CASE CloseQueue
  BY <1>13 DEF CloseQueue, CloseJobs
<1>14. CASE ReturnHost
  BY <1>14 DEF ReturnHost
<1>15. CASE Quiet /\ UNCHANGED hostVars
  BY <1>15, QuietMoves
<1>16. ASSUME NEW w \in Workers, RecordFile(w) PROVE BatchInv'
  BY <1>16 DEF RecordFile
<1>17. ASSUME NEW w \in Workers, RecordShare(w) PROVE BatchInv'
  BY <1>17, RecordShareMoves
<1>18. ASSUME NEW r \in Reason, StopScan(r) PROVE BatchInv'
  BY <1>18 DEF StopScan, Cancelled
<1>19. CASE UNCHANGED hvars
  BY <1>19 DEF hvars
<1> QED
  BY HostSteps, <1>1, <1>2, <1>3, <1>4, <1>5, <1>6, <1>7, <1>8, <1>9, <1>10,
     <1>11, <1>12, <1>13, <1>14, <1>15, <1>16, <1>17, <1>18, <1>19

\* A file the walk yielded is listed, sent or known, until its share is aborted.
LEMMA PlaceKept ==
    ASSUME HostInv, [HostNext]_hvars
    PROVE  PlaceInv'
<1> USE HostAssumption DEF HostInv, HostTypeOK, SeenOfPool, WalkerInv, BatchInv,
           PlaceInv, InShare, Here, FilesOf, Flushing, vars, envVars, ctxVars,
           jobVars, sinkVars, scanVars, hostVars, managerVars, walkVars, errVars,
           endVars
<1>1. ASSUME NEW s \in Shares, SkipShare(s) PROVE PlaceInv'
  BY <1>1 DEF SkipShare
<1>2. ASSUME NEW s \in Shares, StartShare(s) PROVE PlaceInv'
  BY <1>2 DEF StartShare
<1>3. ASSUME NEW f \in Jobs, YieldFile(f) PROVE PlaceInv'
  BY <1>3 DEF YieldFile
<1>4. ASSUME NEW f \in Jobs, SkipFile(f) PROVE PlaceInv'
  BY <1>4 DEF SkipFile
<1>5. ASSUME NEW f \in Jobs, Enqueue(f) PROVE PlaceInv'
  BY <1>5 DEF Enqueue, SendJob
<1>6. CASE EndWalk
  BY <1>6 DEF EndWalk
<1>7. CASE EndFlush
  BY <1>7 DEF EndFlush
<1>8. CASE FinishShareEnumeration
  BY <1>8 DEF FinishShareEnumeration
<1>9. ASSUME NEW err \in WalkFailure, ContinueAfter(err), Yielding PROVE PlaceInv'
  BY <1>9 DEF ContinueAfter, AbortShare, WalkFailure, Yielding
<1>10. CASE GiveUpHost /\ Yielding
  BY <1>10 DEF GiveUpHost, AbortShare, Yielding
<1>11. CASE CancelPool
  BY <1>11 DEF CancelPool, Cancelled
<1>12. CASE EndLoop
  BY <1>12 DEF EndLoop
<1>13. CASE CloseQueue
  BY <1>13 DEF CloseQueue, CloseJobs
<1>14. CASE ReturnHost
  BY <1>14 DEF ReturnHost
<1>15. CASE Quiet /\ UNCHANGED hostVars
  BY <1>15, QuietMoves
<1>16. ASSUME NEW w \in Workers, RecordFile(w) PROVE PlaceInv'
  BY <1>16 DEF RecordFile
<1>17. ASSUME NEW w \in Workers, RecordShare(w) PROVE PlaceInv'
  BY <1>17, RecordShareMoves
<1>18. ASSUME NEW r \in Reason, StopScan(r) PROVE PlaceInv'
  BY <1>18 DEF StopScan, Cancelled
<1>19. CASE UNCHANGED hvars
  BY <1>19 DEF hvars
<1> QED
  BY HostSteps, <1>1, <1>2, <1>3, <1>4, <1>5, <1>6, <1>7, <1>8, <1>9, <1>10,
     <1>11, <1>12, <1>13, <1>14, <1>15, <1>16, <1>17, <1>18, <1>19

\* A share that has not been started has no entry, and one that is skipped was
\* complete before.
LEMMA ShareKept ==
    ASSUME HostInv, [HostNext]_hvars
    PROVE  ShareInv'
<1> USE HostAssumption DEF HostInv, HostTypeOK, SeenOfPool, WalkerInv, ShareInv,
           PlaceInv, VerdictInv, InShare, Here, FilesOf, Flushing, vars, envVars,
           ctxVars, jobVars, sinkVars, scanVars, hostVars, managerVars, walkVars,
           errVars, endVars
<1>1. ASSUME NEW s \in Shares, SkipShare(s) PROVE ShareInv'
  BY <1>1 DEF SkipShare
<1>2. ASSUME NEW s \in Shares, StartShare(s) PROVE ShareInv'
  BY <1>2 DEF StartShare
<1>3. ASSUME NEW f \in Jobs, YieldFile(f) PROVE ShareInv'
  BY <1>3 DEF YieldFile
<1>4. ASSUME NEW f \in Jobs, SkipFile(f) PROVE ShareInv'
  BY <1>4 DEF SkipFile
<1>5. ASSUME NEW f \in Jobs, Enqueue(f) PROVE ShareInv'
  BY <1>5 DEF Enqueue, SendJob
<1>6. CASE EndWalk
  BY <1>6 DEF EndWalk
<1>7. CASE EndFlush
  BY <1>7 DEF EndFlush
<1>8. CASE FinishShareEnumeration
  BY <1>8 DEF FinishShareEnumeration
<1>9. ASSUME NEW err \in WalkFailure, ContinueAfter(err), Yielding PROVE ShareInv'
  BY <1>9 DEF ContinueAfter, AbortShare, WalkFailure, Yielding
<1>10. CASE GiveUpHost /\ Yielding
  BY <1>10 DEF GiveUpHost, AbortShare, Yielding
<1>11. CASE CancelPool
  BY <1>11 DEF CancelPool, Cancelled
<1>12. CASE EndLoop
  BY <1>12 DEF EndLoop
<1>13. CASE CloseQueue
  BY <1>13 DEF CloseQueue, CloseJobs
<1>14. CASE ReturnHost
  BY <1>14 DEF ReturnHost
<1>15. CASE Quiet /\ UNCHANGED hostVars
  BY <1>15, QuietMoves
<1>16. ASSUME NEW w \in Workers, RecordFile(w) PROVE ShareInv'
  BY <1>16 DEF RecordFile
<1>17. ASSUME NEW w \in Workers, RecordShare(w) PROVE ShareInv'
  BY <1>17, RecordShareMoves
<1>18. ASSUME NEW r \in Reason, StopScan(r) PROVE ShareInv'
  BY <1>18 DEF StopScan, Cancelled
<1>19. CASE UNCHANGED hvars
  BY <1>19 DEF hvars
<1> QED
  BY HostSteps, <1>1, <1>2, <1>3, <1>4, <1>5, <1>6, <1>7, <1>8, <1>9, <1>10,
     <1>11, <1>12, <1>13, <1>14, <1>15, <1>16, <1>17, <1>18, <1>19

\* A context of the pool is done because the run's is, or the host was given up.
LEMMA ContextKept ==
    ASSUME HostInv, [HostNext]_hvars
    PROVE  ContextInv'
<1> USE HostAssumption DEF HostInv, HostTypeOK, SeenOfPool, WalkerInv, ContextInv,
           InShare, AfterLoop, Reason, Flushing, vars, envVars, ctxVars, jobVars,
           sinkVars, scanVars, hostVars, managerVars, walkVars, errVars, endVars
<1>1. ASSUME NEW s \in Shares, SkipShare(s) PROVE ContextInv'
  BY <1>1 DEF SkipShare
<1>2. ASSUME NEW s \in Shares, StartShare(s) PROVE ContextInv'
  BY <1>2 DEF StartShare
<1>3. ASSUME NEW f \in Jobs, YieldFile(f) PROVE ContextInv'
  BY <1>3 DEF YieldFile
<1>4. ASSUME NEW f \in Jobs, SkipFile(f) PROVE ContextInv'
  BY <1>4 DEF SkipFile
<1>5. ASSUME NEW f \in Jobs, Enqueue(f) PROVE ContextInv'
  BY <1>5 DEF Enqueue, SendJob
<1>6. CASE EndWalk
  BY <1>6 DEF EndWalk
<1>7. CASE EndFlush
  BY <1>7 DEF EndFlush
<1>8. CASE FinishShareEnumeration
  BY <1>8 DEF FinishShareEnumeration
<1>9. ASSUME NEW err \in WalkFailure, ContinueAfter(err), Yielding PROVE ContextInv'
  BY <1>9 DEF ContinueAfter, AbortShare, WalkFailure, Yielding
<1>10. CASE GiveUpHost /\ Yielding
  BY <1>10 DEF GiveUpHost, AbortShare, Yielding
<1>11. CASE CancelPool
  BY <1>11 DEF CancelPool, Cancelled
<1>12. CASE EndLoop
  BY <1>12 DEF EndLoop
<1>13. CASE CloseQueue
  BY <1>13 DEF CloseQueue, CloseJobs
<1>14. CASE ReturnHost
  BY <1>14 DEF ReturnHost
<1>15. CASE Quiet /\ UNCHANGED hostVars
  BY <1>15, QuietMoves
<1>16. ASSUME NEW w \in Workers, RecordFile(w) PROVE ContextInv'
  BY <1>16 DEF RecordFile
<1>17. ASSUME NEW w \in Workers, RecordShare(w) PROVE ContextInv'
  BY <1>17, RecordShareMoves
<1>18. ASSUME NEW r \in Reason, StopScan(r) PROVE ContextInv'
  BY <1>18 DEF StopScan, Cancelled
<1>19. CASE UNCHANGED hvars
  BY <1>19 DEF hvars
<1> QED
  BY HostSteps, <1>1, <1>2, <1>3, <1>4, <1>5, <1>6, <1>7, <1>8, <1>9, <1>10,
     <1>11, <1>12, <1>13, <1>14, <1>15, <1>16, <1>17, <1>18, <1>19

\* The manager is told of a file by the worker that has it, before its callback
\* is through.
LEMMA VerdictKept ==
    ASSUME HostInv, [HostNext]_hvars
    PROVE  VerdictInv'
<1> USE HostAssumption DEF HostInv, HostTypeOK, SeenOfPool, VerdictInv, vars,
           envVars, ctxVars, jobVars, sinkVars, scanVars, hostVars, managerVars,
           walkVars, errVars, endVars
<1>1. ASSUME NEW s \in Shares, SkipShare(s) PROVE VerdictInv'
  BY <1>1 DEF SkipShare
<1>2. ASSUME NEW s \in Shares, StartShare(s) PROVE VerdictInv'
  BY <1>2 DEF StartShare
<1>3. ASSUME NEW f \in Jobs, YieldFile(f) PROVE VerdictInv'
  BY <1>3 DEF YieldFile
<1>4. ASSUME NEW f \in Jobs, SkipFile(f) PROVE VerdictInv'
  BY <1>4 DEF SkipFile
<1>5. ASSUME NEW f \in Jobs, Enqueue(f) PROVE VerdictInv'
  BY <1>5 DEF Enqueue, SendJob, PoolInv, TypeOK, CallsInv
<1>6. CASE EndWalk
  BY <1>6 DEF EndWalk
<1>7. CASE EndFlush
  BY <1>7 DEF EndFlush
<1>8. CASE FinishShareEnumeration
  BY <1>8 DEF FinishShareEnumeration
<1>9. ASSUME NEW err \in WalkFailure, ContinueAfter(err), Yielding PROVE VerdictInv'
  BY <1>9 DEF ContinueAfter, AbortShare, WalkFailure, Yielding
<1>10. CASE GiveUpHost /\ Yielding
  BY <1>10 DEF GiveUpHost, AbortShare, Yielding
<1>11. CASE CancelPool
  BY <1>11 DEF CancelPool, Cancelled
<1>12. CASE EndLoop
  BY <1>12 DEF EndLoop
<1>13. CASE CloseQueue
  BY <1>13 DEF CloseQueue, CloseJobs
<1>14. CASE ReturnHost
  BY <1>14 DEF ReturnHost
<1>15. CASE Quiet /\ UNCHANGED hostVars
  BY <1>15, QuietMoves
<1>16. ASSUME NEW w \in Workers, RecordFile(w) PROVE VerdictInv'
  BY <1>16, CallersJob DEF RecordFile, PoolInv, TypeOK
<1>17. ASSUME NEW w \in Workers, RecordShare(w) PROVE VerdictInv'
  BY <1>17, RecordShareMoves DEF PoolInv, TypeOK
<1>18. ASSUME NEW r \in Reason, StopScan(r) PROVE VerdictInv'
  BY <1>18 DEF StopScan, Cancelled
<1>19. CASE UNCHANGED hvars
  BY <1>19 DEF hvars
<1> QED
  BY HostSteps, <1>1, <1>2, <1>3, <1>4, <1>5, <1>6, <1>7, <1>8, <1>9, <1>10,
     <1>11, <1>12, <1>13, <1>14, <1>15, <1>16, <1>17, <1>18, <1>19

\* What scanHost returned stays what its errors say.
LEMMA ReturnKept ==
    ASSUME HostInv, [HostNext]_hvars
    PROVE  ReturnInv'
<1> USE HostAssumption DEF HostInv, HostTypeOK, SeenOfPool, WalkerInv, ReturnInv,
           InShare, AfterLoop, HostError, Flushing, vars, envVars, ctxVars, jobVars,
           sinkVars, scanVars, hostVars, managerVars, walkVars, errVars, endVars
<1>1. ASSUME NEW s \in Shares, SkipShare(s) PROVE ReturnInv'
  BY <1>1 DEF SkipShare
<1>2. ASSUME NEW s \in Shares, StartShare(s) PROVE ReturnInv'
  BY <1>2 DEF StartShare
<1>3. ASSUME NEW f \in Jobs, YieldFile(f) PROVE ReturnInv'
  BY <1>3 DEF YieldFile
<1>4. ASSUME NEW f \in Jobs, SkipFile(f) PROVE ReturnInv'
  BY <1>4 DEF SkipFile
<1>5. ASSUME NEW f \in Jobs, Enqueue(f) PROVE ReturnInv'
  BY <1>5 DEF Enqueue, SendJob
<1>6. CASE EndWalk
  BY <1>6 DEF EndWalk
<1>7. CASE EndFlush
  BY <1>7 DEF EndFlush
<1>8. CASE FinishShareEnumeration
  BY <1>8 DEF FinishShareEnumeration
<1>9. ASSUME NEW err \in WalkFailure, ContinueAfter(err), Yielding PROVE ReturnInv'
  BY <1>9 DEF ContinueAfter, AbortShare, WalkFailure, Yielding
<1>10. CASE GiveUpHost /\ Yielding
  BY <1>10 DEF GiveUpHost, AbortShare, Yielding
<1>11. CASE CancelPool
  BY <1>11 DEF CancelPool, Cancelled
<1>12. CASE EndLoop
  BY <1>12 DEF EndLoop
<1>13. CASE CloseQueue
  BY <1>13 DEF CloseQueue, CloseJobs
<1>14. CASE ReturnHost
  BY <1>14 DEF ReturnHost
<1>15. CASE Quiet /\ UNCHANGED hostVars
  BY <1>15, QuietMoves
<1>16. ASSUME NEW w \in Workers, RecordFile(w) PROVE ReturnInv'
  BY <1>16 DEF RecordFile
<1>17. ASSUME NEW w \in Workers, RecordShare(w) PROVE ReturnInv'
  BY <1>17, RecordShareMoves
<1>18. ASSUME NEW r \in Reason, StopScan(r) PROVE ReturnInv'
  BY <1>18 DEF StopScan, Cancelled
<1>19. CASE UNCHANGED hvars
  BY <1>19 DEF hvars
<1> QED
  BY HostSteps, <1>1, <1>2, <1>3, <1>4, <1>5, <1>6, <1>7, <1>8, <1>9, <1>10,
     <1>11, <1>12, <1>13, <1>14, <1>15, <1>16, <1>17, <1>18, <1>19


LEMMA HostInvInit == HostInit => HostInv
<1> SUFFICES ASSUME HostInit PROVE HostInv
  OBVIOUS
<1> USE HostAssumption DEF HostInit
<1>1. PoolInv
  BY PoolInvInit
<1>2. HostTypeOK
  <2>1. filesDone \subseteq Jobs
    OBVIOUS
  <2> QED
    BY <1>1, <2>1 DEF HostTypeOK, WalkerPhase, PoolInv, Reason
<1>3. poolCtx = "live" /\ runCtx = "live" /\ collectErr = "nil" /\ scanErr = "nil"
      /\ sent = {} /\ \A f \in Jobs : calls[f] = 0
  BY DEF Init, PoolInit
<1>4. WalkerInv /\ BatchInv /\ PlaceInv
  BY <1>3 DEF WalkerInv, BatchInv, PlaceInv, InShare, AfterLoop, Flushing
<1>5. ShareInv
  BY DEF ShareInv
<1>6. ContextInv /\ VerdictInv /\ ReturnInv
  BY <1>3 DEF ContextInv, VerdictInv, ReturnInv, Reason
<1> QED
  BY <1>1, <1>2, <1>4, <1>5, <1>6 DEF HostInv

LEMMA HostInvKept == HostInv /\ [HostNext]_hvars => HostInv'
BY HostKeepsPool, HostTypesKept, WalkerKept, BatchKept, PlaceKept, ShareKept,
   ContextKept, VerdictKept, ReturnKept DEF HostInv

\* The invariant of scanHost with its pool, whatever stops or fails.
THEOREM HostInvariant == HostSpec => []HostInv
BY HostInvInit, HostInvKept, PTL DEF HostSpec

\* Types of the walker, the manager's entries and the errors of scanHost.
THEOREM HostTypes == HostSpec => []HostTypeOK
<1>1. HostInv => HostTypeOK
  BY DEF HostInv
<1> QED
  BY <1>1, HostInvariant, PTL

\* scanHost returned nil: no share was given up, the pool's error is nil.
LEMMA DoneHost ==
    ASSUME HostInv, hostDone
    PROVE  /\ walker.at = "returned" /\ scan = "returned" /\ scanErr = "nil"
           /\ ~hostTimedOut /\ walkErrs = {}
<1>1. walker.at = "returned" /\ scan = "returned" /\ HostError = "nil"
  BY DEF HostInv, ReturnInv
<1> QED
  BY <1>1 DEF HostError

\* Every share of a complete host was walked to its end or complete before.
LEMMA DoneHostWalked ==
    ASSUME HostInv, hostDone, NEW s \in Shares
    PROVE  walk[s] \in {"finished", "skipped"}
<1>1. walk[s] # "todo"
  BY DoneHost DEF HostInv, WalkerInv, AfterLoop
<1>2. walk[s] # "walking"
  BY DoneHost DEF HostInv, WalkerInv, InShare
<1>3. walk[s] # "aborted"
  BY DoneHost DEF HostInv, ShareInv
<1> QED
  BY <1>1, <1>2, <1>3 DEF HostInv, HostTypeOK

\* A host RunScan marks complete was walked to the end, and with no stop of the
\* scan each of its files has been looked at and what was found is in the sink.
THEOREM CompletedHostIsReportedAlways == HostSpec => []CompletedHostIsReported
<1>1. ASSUME HostInv, hostDone PROVE \A s \in Shares : walk[s] \in {"finished", "skipped"}
  BY <1>1, DoneHostWalked
<1>2. ASSUME HostInv, hostDone, NEW f \in Jobs, walk[shareOf[f]] = "finished"
      PROVE  f \in sent \cup known
  <2>1. listed = {}
    BY <1>2, DoneHost DEF HostInv, BatchInv, InShare
  <2> QED
    BY <1>2, <2>1 DEF HostInv, PlaceInv
<1>3. ASSUME HostInv, hostDone, scanCtx = "live", NEW f \in Jobs
      PROVE  Recorded(f) /\ written[f] = found[f]
  <2>1. poolCtx = "live"
    BY <1>3, DoneHost DEF HostInv, ContextInv
  <2>2. collectErr # "sink"
    BY <1>3, DoneHost DEF HostInv, PoolInv, LiveInv
  <2>3. handled = sent /\ \A j \in Jobs : written[j] = found[j]
    BY <1>3, <2>1, <2>2, DoneHost, DeliveredWhenUnstopped DEF HostInv
  <2>4. shareOf[f] \in Shares
    BY HostAssumption
  <2>5. CASE walk[shareOf[f]] = "finished"
    <3>1. f \in handled \/ f \in filesDone
      BY <1>2, <1>3, <2>3, <2>5 DEF HostInv, PlaceInv
    <3> QED
      BY <2>3, <3>1, <1>3 DEF HostInv, PoolInv, CollectedInv, Collected, Recorded
  <2>6. CASE walk[shareOf[f]] = "skipped"
    BY <1>3, <2>3, <2>4, <2>6 DEF HostInv, ShareInv, FilesOf, Recorded
  <2> QED
    BY <1>1, <1>3, <2>4, <2>5, <2>6
<1>4. HostInv => CompletedHostIsReported
  BY <1>1, <1>2, <1>3 DEF CompletedHostIsReported
<1> QED
  BY <1>4, HostInvariant, PTL

\* scanHost's error is a context's only if the run's context ended that way: an
\* SMB timeout or the cancelled pool is never taken for the time limit or Ctrl-C.
THEOREM OutcomeFitsContextAlways == HostSpec => []OutcomeFitsContext
<1>1. ASSUME HostInv, walker.at = "returned" PROVE SeenAs \in OutcomesUnder(scanCtx)
  <2> USE DEF HostInv, ReturnInv, ContextInv, SeenAs, OutcomesUnder
  <2>1. hostErr = HostError
    BY <1>1
  <2>2. CASE hostTimedOut
    BY <2>1, <2>2 DEF HostError
  <2>3. CASE ~hostTimedOut /\ scanErr # "nil"
    <3>1. hostErr = scanErr /\ scanErr \in {"sink", "deadline"}
      BY <1>1, <2>1, <2>3 DEF HostError, PoolInv, TypeOK
    <3> QED
      BY <1>1, <3>1
  <2>4. CASE ~hostTimedOut /\ scanErr = "nil" /\ walkErrs # {}
    <3>1. hostErr = "walk"
      BY <2>1, <2>4 DEF HostError
    <3> QED
      BY <1>1, <3>1 DEF Reason
  <2>5. CASE ~hostTimedOut /\ scanErr = "nil" /\ walkErrs = {}
    BY <2>1, <2>5 DEF HostError
  <2> QED
    BY <2>2, <2>3, <2>4, <2>5
<1>2. HostInv => OutcomeFitsContext
  BY <1>1 DEF OutcomeFitsContext
<1> QED
  BY <1>2, HostInvariant, PTL
-------------------------------------------------------------------------------
(***************************************************************************)
(* The refinement of CheckpointManager.  JobOf reads how far a file is from*)
(* the channel, the callbacks and the verdicts.                            *)
(***************************************************************************)
JobsNow == [f \in Jobs |-> JobOf(f)]

LEMMA JobsStay ==
    ASSUME UNCHANGED <<calls, verdict, sent, known>>
    PROVE  JobsNow' = JobsNow
BY DEF JobsNow, JobOf

LEMMA JobMoves ==
    ASSUME NEW f \in Jobs, NEW phase, JobOf(f)' = phase,
           \A g \in Jobs \ {f} : JobOf(g)' = JobOf(g)
    PROVE  JobsNow' = [JobsNow EXCEPT ![f] = phase]
BY DEF JobsNow

\* The manager's entries are the same operators on both sides.
LEMMA SameEntryOperations ==
    /\ \A e : Manager!Present(e) = Present(e)
    /\ \A e, n : Manager!Added(e, n) = Added(e, n)
    /\ \A e : Manager!Ended(e) = Ended(e)
    /\ \A e, ok : Manager!Counted(e, ok) = Counted(e, ok)
    /\ \A e : Manager!Completes(e) <=> Completes(e)
    /\ \A e : Manager!Kept(e) = Kept(e)
    /\ \A s : Manager!FilesOf(s) = FilesOf(s)
<1>1. \A e : Manager!Present(e) = Present(e)
  BY DEF Manager!Present, Present, Manager!NewEntry, NewEntry
<1>2. \A e : Manager!Settled(e) <=> Settled(e)
  BY DEF Manager!Settled, Settled
<1> QED
  BY <1>1, <1>2 DEF Manager!Added, Added, Manager!Ended, Ended, Manager!Counted,
     Counted, Manager!Completes, Completes, Manager!Kept, Kept, Manager!FilesOf,
     FilesOf

LEMMA WalkerIdle ==
    ASSUME HostInv, walker.at = "loop"
    PROVE  Manager!Idle
BY DEF HostInv, WalkerInv, InShare, Manager!Idle

LEMMA WalkerAtShare ==
    ASSUME HostInv, InShare
    PROVE  Here \in Shares /\ walk[Here] = "walking"
BY DEF HostInv, WalkerInv

LEMMA SkipShareRefines ==
    ASSUME HostInv, NEW s \in Shares, SkipShare(s)
    PROVE  Manager!SkipShare(s)
<1> USE DEF SkipShare, vars, ctxVars, jobVars, envVars, managerVars
<1>1. JobsNow' = JobsNow /\ poolCtx' = poolCtx
  BY JobsStay
<1> QED
  BY <1>1, WalkerIdle DEF Manager!SkipShare, JobsNow

LEMMA StartShareRefines ==
    ASSUME HostInv, NEW s \in Shares, StartShare(s)
    PROVE  Manager!StartShare(s)
<1> USE DEF StartShare, vars, ctxVars, jobVars, envVars
<1>1. JobsNow' = JobsNow /\ poolCtx' = poolCtx
  BY JobsStay
<1> QED
  BY <1>1, WalkerIdle, SameEntryOperations DEF Manager!StartShare, JobsNow

\* A file in a batch has not been sent, called back or found complete before.
LEMMA ListedIsUnseen ==
    ASSUME HostInv, NEW f \in listed
    PROVE  /\ f \in Jobs /\ walk[shareOf[f]] = "walking"
           /\ f \notin sent \cup known /\ calls[f] = 0 /\ verdict[f] = "none"
           /\ JobsNow[f] = "unseen"
<1>1. f \in Jobs /\ f \notin sent \cup known
  BY DEF HostInv, HostTypeOK, PlaceInv
<1>2. calls[f] = 0 /\ verdict[f] = "none"
  <2>1. f \notin sent \ queue
    BY <1>1
  <2>2. calls[f] = 0
    BY <1>1, <2>1 DEF HostInv, PoolInv, CallsInv
  <2>3. verdict[f] = "none"
    BY <1>1, <2>1 DEF HostInv, VerdictInv
  <2> QED
    BY <2>2, <2>3
<1>3. walk[shareOf[f]] = "walking"
  BY WalkerAtShare DEF HostInv, BatchInv
<1> QED
  BY <1>1, <1>2, <1>3 DEF JobsNow, JobOf

LEMMA SkipFileRefines ==
    ASSUME HostInv, NEW f \in Jobs, SkipFile(f)
    PROVE  Manager!SkipFile(f)
<1> USE DEF SkipFile, vars, ctxVars, jobVars, envVars, managerVars
<1>1. /\ walk[shareOf[f]] = "walking" /\ f \notin sent \cup known
      /\ calls[f] = 0 /\ verdict[f] = "none" /\ JobsNow[f] = "unseen"
  BY ListedIsUnseen
<1>2. JobOf(f)' = "known" /\ \A g \in Jobs \ {f} : JobOf(g)' = JobOf(g)
  BY <1>1 DEF JobOf
<1>3. JobsNow' = [JobsNow EXCEPT ![f] = "known"]
  BY <1>2, JobMoves
<1> QED
  BY <1>1, <1>3 DEF Manager!SkipFile, JobsNow

LEMMA EnqueueRefines ==
    ASSUME HostInv, NEW f \in Jobs, Enqueue(f)
    PROVE  Manager!Enqueue(f)
<1> USE DEF Enqueue, SendJob, ctxVars, jobVars, managerVars
<1>1. /\ walk[shareOf[f]] = "walking" /\ f \notin sent \cup known
      /\ calls[f] = 0 /\ verdict[f] = "none" /\ JobsNow[f] = "unseen"
  BY ListedIsUnseen
<1>2. JobOf(f)' = "queued" /\ \A g \in Jobs \ {f} : JobOf(g)' = JobOf(g)
  BY <1>1 DEF JobOf
<1>3. JobsNow' = [JobsNow EXCEPT ![f] = "queued"]
  BY <1>2, JobMoves
<1> QED
  BY <1>1, <1>3 DEF Manager!Enqueue, JobsNow

LEMMA EndFlushRefines ==
    ASSUME HostInv, EndFlush
    PROVE  Here \in Shares /\ Manager!AddPendingFiles(Here)
<1> USE DEF EndFlush, vars, ctxVars, jobVars, envVars
<1>1. JobsNow' = JobsNow /\ poolCtx' = poolCtx
  BY JobsStay
<1>2. Here \in Shares /\ walk[Here] = "walking"
  BY WalkerAtShare DEF InShare, Flushing
<1> QED
  BY <1>1, <1>2, SameEntryOperations DEF Manager!AddPendingFiles, JobsNow

LEMMA FinishRefines ==
    ASSUME HostInv, FinishShareEnumeration
    PROVE  Here \in Shares /\ Manager!FinishShareEnumeration(Here)
<1> USE DEF FinishShareEnumeration, vars, ctxVars, jobVars, envVars
<1>1. JobsNow' = JobsNow /\ poolCtx' = poolCtx
  BY JobsStay
<1>2. Here \in Shares /\ walk[Here] = "walking"
  BY WalkerAtShare DEF InShare
<1>3. batch = 0 /\ listed = {} /\ FilesOf(Here) \subseteq yielded
  BY DEF HostInv, BatchInv, Flushing
<1>4. ASSUME NEW f \in FilesOf(Here) PROVE JobsNow[f] # "unseen"
  <2>1. f \in sent \cup known
    BY <1>2, <1>3 DEF HostInv, PlaceInv, FilesOf
  <2> QED
    BY <2>1 DEF JobsNow, JobOf, FilesOf, HostInv, HostTypeOK
<1> QED
  BY <1>1, <1>2, <1>3, <1>4, SameEntryOperations DEF Manager!FinishShareEnumeration,
     JobsNow

LEMMA AbortRefines ==
    ASSUME HostInv, Yielding, AbortShare
    PROVE  Here \in Shares /\ Manager!AbortShare(Here)
<1> USE DEF AbortShare, vars, ctxVars, jobVars, envVars
<1>1. JobsNow' = JobsNow /\ poolCtx' = poolCtx
  BY JobsStay
<1>2. Here \in Shares /\ walk[Here] = "walking"
  BY WalkerAtShare DEF InShare, Yielding
<1> QED
  BY <1>1, <1>2 DEF Manager!AbortShare, JobsNow

\* A file is with one worker, which has not called back and is the only one to tell
\* the manager of it.
LEMMA RecordFileRefines ==
    ASSUME HostInv, NEW w \in Workers, RecordFile(w)
    PROVE  \E f \in Jobs : Manager!RecordFile(f)
<1> USE DEF RecordFile, vars, ctxVars, jobVars, envVars, walkVars
<1>1. PICK f \in Jobs : f = worker[w].job /\ f \in sent /\ calls[f] = 0
  BY CallersJob DEF HostInv, PoolInv, TypeOK
<1>2. f \notin known /\ JobsNow[f] = "queued"
  BY <1>1 DEF HostInv, PlaceInv, JobsNow, JobOf
<1>3. \A g \in Jobs \ {f} : JobOf(g)' = JobOf(g)
  BY <1>1 DEF JobOf, HostInv, HostTypeOK
<1>4. JobOf(f)' = verdict'[f] /\ verdict'[f] \in {"succeeded", "failed"}
  BY <1>1 DEF JobOf, HostInv, HostTypeOK
<1>5. JobsNow' = [JobsNow EXCEPT ![f] = verdict'[f]]
  BY <1>3, <1>4, JobMoves
<1>6. \/ verdict'[f] = "succeeded" /\ filesDone' = filesDone \cup {f}
      \/ verdict'[f] = "failed" /\ UNCHANGED filesDone
  BY <1>1 DEF HostInv, HostTypeOK
<1> QED
  BY <1>1, <1>2, <1>5, <1>6 DEF Manager!RecordFile, JobsNow

LEMMA RecordShareRefines ==
    ASSUME HostInv, NEW w \in Workers, RecordShare(w)
    PROVE  \E f \in Jobs : Manager!RecordShare(f)
<1>1. PICK f \in Jobs :
         LET s == shareOf[f]
             e == Counted(pending[s], verdict[f] = "succeeded")
         IN  /\ verdict[f] # "none"
             /\ f \in sent \ queue /\ calls[f] = 0
             /\ calls' = [calls EXCEPT ![f] = @ + 1]
             /\ verdict[f] = "failed" <=> f \in failed'
             /\ IF pending[s] = NoEntry
                THEN UNCHANGED <<pending, sharesDone>>
                ELSE /\ pending' = [pending EXCEPT ![s] = Kept(e)]
                     /\ sharesDone' = IF Completes(e) THEN sharesDone \cup {s}
                                      ELSE sharesDone
  BY RecordShareMoves
<1>2. /\ sent' = sent /\ poolCtx' = poolCtx
      /\ UNCHANGED <<filesDone, walk, known, batch, verdict>>
  BY RecordShareMoves DEF SeenOfPool, walkVars
<1>3. JobsNow[f] = verdict[f] /\ verdict[f] \in {"succeeded", "failed"}
  BY <1>1 DEF JobsNow, JobOf, HostInv, HostTypeOK
<1>4. JobOf(f)' = "recorded" /\ \A g \in Jobs \ {f} : JobOf(g)' = JobOf(g)
  BY <1>1, <1>2 DEF JobOf, HostInv, PoolInv, TypeOK
<1>5. JobsNow' = [JobsNow EXCEPT ![f] = "recorded"]
  BY <1>4, JobMoves
<1> QED
  BY <1>1, <1>2, <1>3, <1>5, SameEntryOperations DEF Manager!RecordShare, JobsNow

\* The pool's context is cancelled once, for the manager; later it is a stutter.
LEMMA CancelRefines ==
    ASSUME HostInv, CancelPool \/ \E r \in Reason : StopScan(r)
    PROVE  Manager!Cancel \/ UNCHANGED Manager!vars
<1> USE DEF CancelPool, StopScan, envVars, jobVars, managerVars, walkVars, Cancelled
<1>1. JobsNow' = JobsNow
  BY JobsStay
<1>2. UNCHANGED <<pending, sharesDone, filesDone, walk, batch>>
  OBVIOUS
<1>3. poolCtx' # "live" /\ (poolCtx # "live" => poolCtx' = poolCtx)
  BY DEF Reason
<1>4. CASE poolCtx = "live"
  BY <1>1, <1>2, <1>3, <1>4 DEF Manager!Cancel, JobsNow
<1>5. CASE poolCtx # "live"
  BY <1>1, <1>2, <1>3, <1>5 DEF Manager!vars, JobsNow
<1> QED
  BY <1>4, <1>5

\* What the manager is not told of.
LEMMA SilentRefines ==
    ASSUME HostInv,
           \/ \E f \in Jobs : YieldFile(f)
           \/ EndWalk \/ EndLoop \/ CloseQueue \/ ReturnHost
           \/ Quiet /\ UNCHANGED hostVars
           \/ UNCHANGED hvars
    PROVE  UNCHANGED Manager!vars
<1>1. UNCHANGED <<calls, verdict, sent, known, poolCtx, pending, sharesDone, filesDone,
                  walk, batch>>
  <2>1. CASE Quiet /\ UNCHANGED hostVars
    BY <2>1, QuietMoves DEF SeenOfPool, hostVars, managerVars, walkVars
  <2>2. CASE UNCHANGED hvars
    BY <2>2 DEF hvars, hostVars, managerVars, walkVars, vars, envVars, ctxVars,
       jobVars
  <2> QED
    BY <2>1, <2>2 DEF YieldFile, EndWalk, EndLoop, CloseQueue, CloseJobs,
       ReturnHost, vars, envVars, ctxVars, jobVars, managerVars
<1>2. JobsNow' = JobsNow
  BY <1>1, JobsStay
<1> QED
  BY <1>1, <1>2 DEF Manager!vars, JobsNow

\* scanHost with its pool and contexts implements the one pass of
\* CheckpointManager: what is shown there of complete shares holds of it.
THEOREM HostImplementsCheckpointManager == HostSpec => ImplementsCheckpointManager
<1>1. HostInit => Manager!Init
  <2> SUFFICES ASSUME HostInit PROVE Manager!Init
    OBVIOUS
  <2>1. poolCtx = "live" /\ sent = {} /\ calls = [f \in Jobs |-> 0]
    BY DEF HostInit, Init, PoolInit
  <2>2. JobsNow = [f \in Jobs |-> "unseen"]
    BY <2>1 DEF HostInit, JobsNow, JobOf
  <2>3. filesDone \in SUBSET Jobs
    BY HostAssumption DEF HostInit
  <2> QED
    BY <2>1, <2>2, <2>3, SameEntryOperations DEF HostInit, Manager!Init,
       Manager!NewPass, JobsNow
<1>2. ASSUME HostInv, [HostNext]_hvars
      PROVE  [Manager!Next]_(Manager!vars)
  <2> USE <1>2 DEF Manager!Next, Manager!Walk, Manager!Queue, Manager!Callbacks
  <2>1. ASSUME NEW s \in Shares, SkipShare(s) \/ StartShare(s) PROVE Manager!Next
    BY <2>1, SkipShareRefines, StartShareRefines
  <2>2. ASSUME NEW f \in Jobs, SkipFile(f) \/ Enqueue(f) PROVE Manager!Next
    BY <2>2, SkipFileRefines, EnqueueRefines
  <2>3. CASE EndFlush
    BY <2>3, EndFlushRefines
  <2>4. CASE FinishShareEnumeration
    BY <2>4, FinishRefines
  <2>5. CASE Yielding /\ (GiveUpHost \/ \E err \in WalkFailure : ContinueAfter(err))
    BY <2>5, AbortRefines DEF GiveUpHost, ContinueAfter
  <2>6. ASSUME NEW w \in Workers, RecordFile(w) \/ RecordShare(w) PROVE Manager!Next
    BY <2>6, RecordFileRefines, RecordShareRefines
  <2>7. CASE CancelPool \/ \E r \in Reason : StopScan(r)
    BY <2>7, CancelRefines
  <2>8. CASE \/ \E f \in Jobs : YieldFile(f)
             \/ EndWalk \/ EndLoop \/ CloseQueue \/ ReturnHost
             \/ Quiet /\ UNCHANGED hostVars
             \/ UNCHANGED hvars
    BY <2>8, SilentRefines
  <2> QED
    BY HostSteps, <2>1, <2>2, <2>3, <2>4, <2>5, <2>6, <2>7, <2>8
<1> QED
  BY <1>1, <1>2, HostInvariant, PTL DEF HostSpec, ImplementsCheckpointManager,
     Manager!Spec
===============================================================================
