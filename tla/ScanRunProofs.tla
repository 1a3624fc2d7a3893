----------------------------- MODULE ScanRunProofs -----------------------------
(***************************************************************************)
(* Proofs about ScanRun, for any hosts and any number of runs.             *)
(*                                                                         *)
(* What RunScan promises when it returns rests on where it is when it      *)
(* opens something and when it defers the call that closes it.  The stack  *)
(* of deferred calls is always a prefix of Order whose length follows from *)
(* pc (DepthFitsPc), and what is open needs its entry on the stack         *)
(* (OpenIsDeferred).                                                       *)
(***************************************************************************)
EXTENDS ScanRun, SequenceTheorems, TLAPS

Order == <<"contexts", "metrics", "checkpoints", "sink", "progress">>

Depth == Len(deferred)

StackIsPrefix == /\ deferred \in Seq(Call)
                 /\ Depth <= 5
                 /\ \A i \in 1 .. Depth : deferred[i] = Order[i]

\* How many calls are deferred at each point of RunScan.
DepthFitsPc ==
    /\ Depth \in 0 .. 5
    /\ pc = "idle" => Depth = 0
    /\ pc = "prepare" => Depth = 1
    /\ pc \in {"resolve", "writer", "files", "abandon", "wire"} => Depth = 3
    /\ pc \in {"setup", "closing"} => Depth = 4
    /\ pc \in {"loop", "host", "after"} => Depth >= 4
    /\ pc = "return" => Depth >= 1

\* What is open will be closed by a call that is on the stack, or soon will be.
OpenIsDeferred ==
    /\ result = "killed" => pc = "idle"
    /\ (ctx = "live" /\ result # "killed") => Depth >= 1
    /\ store.saver \in {"on", "stopping"} => Depth >= 3
    /\ (store.dirty /\ store.closed # "error") => Depth >= 3
    /\ (out.sink = "open" /\ result # "killed") => (Depth >= 4 \/ pc = "wire")
    /\ pc = "closing" => out.sink = "closed"
    /\ ~UIGone => \/ Depth >= 4
                  \/ pc \in {"files", "abandon", "wire"}
                  \/ options.manifest = "broken"
    /\ progress.at \in {"running", "stopping"} => Depth = 5

\* What the file lacks, the store knows to be unsaved.
CleanIsSaved == ~store.dirty => store.marks \subseteq disk

\* The host being scanned is one of the plan's.
HostFitsPc == pc = "host" => host \in targets

RunInv == /\ TypeOK /\ StackIsPrefix /\ DepthFitsPc /\ HostFitsPc
          /\ OpenIsDeferred /\ CleanIsSaved

\* What a run starts with has its type.
LEMMA NewStates == /\ NewStore \in StoreState /\ NewOut \in OutState
                   /\ NoReport \in ReportState
                   /\ NewUI \in UIState /\ NewProgress \in ProgressState
                   /\ <<>> \in Seq(Call) /\ <<"contexts">> \in Seq(Call)
                   /\ [h \in Hosts |-> "none"] \in [Hosts -> Outcome \cup {"none"}]
                   /\ 0 \in 0 .. MaxRuns
  <1>1. NewStore \in StoreState /\ NewOut \in OutState /\ NoReport \in ReportState
      BY DEF NewStore, NewOut, NoReport, StoreState, OutState, ReportState
  <1>2. NewUI \in UIState /\ NewProgress \in ProgressState
      BY DEF NewUI, NewProgress, UIState, ProgressState
  <1>3. <<>> \in Seq(Call) /\ <<"contexts">> \in Seq(Call)
      BY DEF Call
  <1>4. [h \in Hosts |-> "none"] \in [Hosts -> Outcome \cup {"none"}]
      OBVIOUS
  <1>5. 0 \in 0 .. MaxRuns
      BY RunAssumption
  <1> QED
      BY <1>1, <1>2, <1>3, <1>4, <1>5

\* The type invariant holds at first.
LEMMA InitTypes == Init => TypeOK
  <1> SUFFICES ASSUME Init PROVE TypeOK
      OBVIOUS
  <1>1. options \in Option /\ pc \in Phase
      BY DEF Init, Option, Phase
  <1> QED
      BY <1>1, NewStates DEF Init, TypeOK

\* The depth of the stack is a natural number.
LEMMA DepthNat == deferred \in Seq(Call) => Depth \in Nat
  BY LenProperties DEF Depth

\* The depth changes with the stack only.
LEMMA DepthStays == UNCHANGED deferred => Depth' = Depth
  BY DEF Depth

\* A call pushed on the stack is its last entry.
LEMMA Pushed == ASSUME NEW f \in Call, deferred \in Seq(Call),
                       deferred' = Append(deferred, f)
                PROVE  /\ deferred' \in Seq(Call)
                       /\ Depth' = Depth + 1
                       /\ deferred'[Depth + 1] = f
                       /\ \A i \in 1 .. Depth : deferred'[i] = deferred[i]
  BY AppendProperties DEF Depth

\* Two calls pushed, as by OpenCheckpoint.
LEMMA PushedTwo == ASSUME deferred \in Seq(Call),
                          deferred' = deferred \o <<"metrics", "checkpoints">>
                   PROVE  /\ deferred' \in Seq(Call)
                          /\ Depth' = Depth + 2
                          /\ deferred'[Depth + 1] = "metrics"
                          /\ deferred'[Depth + 2] = "checkpoints"
                          /\ \A i \in 1 .. Depth : deferred'[i] = deferred[i]
  BY DEF Call, Depth

\* A deferred call that has ended leaves the ones below it.
LEMMA Popped == ASSUME deferred \in Seq(Call), deferred # <<>>, Done
                PROVE  /\ deferred' \in Seq(Call)
                       /\ Depth' = Depth - 1
                       /\ \A i \in 1 .. Depth' : deferred'[i] = deferred[i]
  <1>1. Depth \in Nat /\ Depth # 0
      BY EmptySeq DEF Depth
  <1> DEFINE n == Depth - 1
  <1>2. \A i \in 1 .. n : deferred[i] \in Call
      BY <1>1, LenProperties DEF Depth
  <1>3. 1 \in Int /\ n \in Int /\ n >= 0
      BY <1>1
  <1>4. deferred' = SubSeq(deferred, 1, n)
      BY DEF Done, Depth
  <1> HIDE DEF n
  <1>5. /\ SubSeq(deferred, 1, n) \in Seq(Call)
        /\ Len(SubSeq(deferred, 1, n)) = IF 1 <= n THEN n - 1 + 1 ELSE 0
        /\ \A i \in 1 .. n - 1 + 1 : SubSeq(deferred, 1, n)[i] = deferred[1 + i - 1]
      BY <1>2, <1>3, SubSeqProperties
  <1>6. /\ Len(SubSeq(deferred, 1, n)) = n
        /\ \A i \in 1 .. n : SubSeq(deferred, 1, n)[i] = deferred[i]
      BY <1>3, <1>5
  <1>7. Depth' = n
      BY <1>4, <1>6 DEF Depth
  <1> QED
      BY <1>4, <1>5, <1>6, <1>7 DEF n

\* Which call is on top follows from the depth.
LEMMA TopOfStack == ASSUME deferred \in Seq(Call), StackIsPrefix, NEW f, Deferred(f)
                    PROVE  /\ deferred # <<>>
                           /\ f = "contexts" => Depth = 1
                           /\ f = "metrics" => Depth = 2
                           /\ f = "checkpoints" => Depth = 3
                           /\ f = "sink" => Depth = 4
                           /\ f = "progress" => Depth = 5
  <1>0. deferred # <<>> /\ Depth \in Nat \ {0}
      BY EmptySeq DEF Deferred, Depth
  <1>1. deferred # <<>> /\ Depth \in 1 .. 5
      BY <1>0 DEF StackIsPrefix
  <1>2. f = Order[Depth]
      BY <1>1 DEF Deferred, StackIsPrefix, Depth
  <1> QED
      BY <1>1, <1>2 DEF Order

\* What Done does, in terms of the depth.
LEMMA DoneAt == ASSUME RunInv, Depth # 0, Done
                PROVE  /\ StackIsPrefix'
                       /\ Depth' = Depth - 1
                       /\ pc' = IF Depth = 1 THEN "idle" ELSE "return"
                       /\ UNCHANGED <<result, options>>
  <1>1. deferred \in Seq(Call) /\ Depth \in Nat /\ Depth <= 5
      BY DepthNat DEF RunInv, TypeOK, StackIsPrefix
  <1>2. deferred # <<>>
      BY EmptySeq DEF Depth
  <1>3. /\ deferred' \in Seq(Call) /\ Depth' = Depth - 1
        /\ \A i \in 1 .. Depth' : deferred'[i] = deferred[i]
      BY <1>1, <1>2, Popped
  <1>4. StackIsPrefix'
      BY <1>1, <1>3 DEF RunInv, StackIsPrefix, Order
  <1> QED
      BY <1>3, <1>4 DEF Done, Depth

\* What each deferred call does to the stack.
LEMMA DeferredCalls ==
    ASSUME RunInv
    PROVE  /\ CloseProgress =>
                 /\ pc = "return" /\ Depth = 5 /\ StackIsPrefix'
                 /\ UNCHANGED <<result, options>>
                 /\ \/ progress.at = "running" /\ Depth' = 5 /\ UNCHANGED pc
                    \/ progress.at = "done" /\ Depth' = 4 /\ pc' = "return"
           /\ CloseSink => pc = "return" /\ Depth = 4
           /\ SinkClosed => /\ Depth = 4 /\ Depth' = 3 /\ StackIsPrefix' /\ pc' = "return"
                            /\ UNCHANGED <<result, options>>
           /\ CloseCheckpoint =>
                 /\ pc = "return" /\ Depth = 3 /\ StackIsPrefix'
                 /\ pc' = "return" /\ UNCHANGED <<result, options>>
                 /\ \/ store.saver = "on" /\ Depth' = 3
                    \/ store.saver = "stopped" /\ Depth' = 2
           /\ SetMetricsSnapshot => /\ pc = "return" /\ Depth = 2
                                    /\ Depth' = 1 /\ StackIsPrefix'
                                    /\ pc' = "return" /\ UNCHANGED <<result, options>>
           /\ ReleaseContexts => /\ pc = "return" /\ Depth = 1
                                 /\ Depth' = 0 /\ StackIsPrefix'
                                 /\ pc' = "idle" /\ UNCHANGED <<result, options>>
  <1>1. deferred \in Seq(Call) /\ StackIsPrefix
      BY DEF RunInv, TypeOK
  <1>2. ASSUME CloseProgress
        PROVE  /\ pc = "return" /\ Depth = 5 /\ StackIsPrefix' /\ UNCHANGED <<result, options>>
               /\ \/ progress.at = "running" /\ Depth' = 5 /\ UNCHANGED pc
                  \/ progress.at = "done" /\ Depth' = 4 /\ pc' = "return"
    <2>1. pc = "return" /\ Depth = 5
        BY <1>1, <1>2, TopOfStack DEF CloseProgress, Deferred
    <2>2. CASE Done /\ progress.at = "done"
        BY <2>1, <2>2, DoneAt
    <2>3. CASE UNCHANGED mainVars /\ progress.at = "running"
        BY <1>1, <2>1, <2>3 DEF mainVars, StackIsPrefix, Depth
    <2> QED
        BY <1>2, <2>1, <2>2, <2>3 DEF CloseProgress
  <1>3. CloseSink => pc = "return" /\ Depth = 4
      BY <1>1, TopOfStack DEF CloseSink, Deferred
  <1>4. ASSUME SinkClosed
        PROVE  /\ Depth = 4 /\ Depth' = 3 /\ StackIsPrefix' /\ pc' = "return"
               /\ UNCHANGED <<result, options>>
    <2>1. Depth = 4 /\ Done
        BY <1>4 DEF SinkClosed, RunInv, DepthFitsPc
    <2> QED
        BY <2>1, DoneAt
  <1>5. ASSUME CloseCheckpoint
        PROVE  /\ pc = "return" /\ Depth = 3 /\ StackIsPrefix' /\ pc' = "return"
               /\ UNCHANGED <<result, options>>
               /\ \/ store.saver = "on" /\ Depth' = 3
                  \/ store.saver = "stopped" /\ Depth' = 2
    <2>1. pc = "return" /\ Depth = 3
        BY <1>1, <1>5, TopOfStack DEF CloseCheckpoint, Deferred
    <2>2. CASE Done /\ store.saver = "stopped"
        BY <2>1, <2>2, DoneAt
    <2>3. CASE UNCHANGED mainVars /\ store.saver = "on"
        BY <1>1, <2>1, <2>3 DEF mainVars, StackIsPrefix, Depth
    <2> QED
        BY <1>5, <2>1, <2>2, <2>3 DEF CloseCheckpoint
  <1>6. ASSUME SetMetricsSnapshot
        PROVE  /\ pc = "return" /\ Depth = 2 /\ Depth' = 1 /\ StackIsPrefix' /\ pc' = "return"
               /\ UNCHANGED <<result, options>>
    <2>1. pc = "return" /\ Depth = 2 /\ Done
        BY <1>1, <1>6, TopOfStack DEF SetMetricsSnapshot, Deferred
    <2> QED
        BY <2>1, DoneAt
  <1>7. ASSUME ReleaseContexts
        PROVE  /\ pc = "return" /\ Depth = 1 /\ Depth' = 0 /\ StackIsPrefix' /\ pc' = "idle"
               /\ UNCHANGED <<result, options>>
    <2>1. pc = "return" /\ Depth = 1 /\ Done
        BY <1>1, <1>7, TopOfStack DEF ReleaseContexts, Deferred
    <2> QED
        BY <2>1, DoneAt
  <1> QED
      BY <1>2, <1>3, <1>4, <1>5, <1>6, <1>7

\* What a save may come to, whether it fails or not.
LEMMA SaveOutcomes ==
    ASSUME RunInv, NEW save \in Saves
    PROVE  /\ save.disk \in {disk, store.marks}
           /\ save.dirty \in BOOLEAN
           /\ save.err \in {"nil", "error"}
           /\ save.dirty => save.err = "error"
           /\ ~save.dirty => store.marks \subseteq save.disk
  <1>1. CASE ~store.dirty
    <2>1. save = [disk |-> disk, dirty |-> FALSE, err |-> "nil"]
        BY <1>1 DEF Saves
    <2> QED
        BY <1>1, <2>1 DEF RunInv, CleanIsSaved
  <1>2. CASE store.dirty
    <2>1. \/ save = [disk |-> store.marks, dirty |-> FALSE, err |-> "nil"]
          \/ save = [disk |-> disk, dirty |-> TRUE, err |-> "error"]
        BY <1>2 DEF Saves
    <2>2. CASE save = [disk |-> store.marks, dirty |-> FALSE, err |-> "nil"]
        BY <2>2
    <2>3. CASE save = [disk |-> disk, dirty |-> TRUE, err |-> "error"]
        BY <2>3
    <2> QED
        BY <2>1, <2>2, <2>3
  <1> QED
      BY <1>1, <1>2

\* What every step that saves keeps, whatever becomes of the save.
SaveKeeps == /\ store' \in StoreState /\ store'.marks = store.marks
             /\ disk' \in {disk, store.marks} /\ disk' \in SUBSET Hosts
             /\ ~store'.dirty => store.marks \subseteq disk'

\* The saving goroutine keeps it.
LEMMA SaverKeeps == ASSUME RunInv, NEW last \in BOOLEAN, SaveCheckpoint(last)
                    PROVE  SaveKeeps
  <1>1. PICK save \in Saves :
            /\ disk' = save.disk
            /\ store' = [store EXCEPT !.dirty = save.dirty,
                                      !.saver = IF last THEN "stopped" ELSE @]
      BY DEF SaveCheckpoint
  <1>2. store \in StoreState /\ disk \in SUBSET Hosts /\ store.marks \in SUBSET Hosts
      BY DEF RunInv, TypeOK, StoreState
  <1>3. /\ store'.marks = store.marks /\ store'.dirty = save.dirty
        /\ save.dirty \in BOOLEAN
      BY <1>1, <1>2, SaveOutcomes DEF StoreState
  <1>4. store' \in StoreState
      BY <1>1, <1>2, <1>3 DEF StoreState
  <1>5. /\ disk' \in {disk, store.marks}
        /\ ~store'.dirty => store.marks \subseteq disk'
      BY <1>1, <1>3, SaveOutcomes
  <1> QED
      BY <1>2, <1>3, <1>4, <1>5 DEF SaveKeeps

\* So does Close, which waits or saves.
LEMMA CloseKeeps == ASSUME RunInv, CloseCheckpoint
                    PROVE  SaveKeeps
  <1>0. store \in StoreState /\ disk \in SUBSET Hosts /\ store.marks \in SUBSET Hosts
      BY DEF RunInv, TypeOK, StoreState
  <1>1. CASE disk' = disk /\ store' = [store EXCEPT !.saver = "stopping"]
      BY <1>0, <1>1 DEF SaveKeeps, StoreState, RunInv, CleanIsSaved
  <1>2. ASSUME NEW save \in Saves, disk' = save.disk,
               store' = [store EXCEPT !.dirty = save.dirty, !.closed = save.err]
        PROVE  SaveKeeps
    <2>1. /\ store'.marks = store.marks /\ store'.dirty = save.dirty
          /\ save.dirty \in BOOLEAN /\ save.err \in {"nil", "error"}
        BY <1>0, <1>2, SaveOutcomes DEF StoreState
    <2>2. store' \in StoreState
        BY <1>0, <1>2, <2>1 DEF StoreState
    <2>3. /\ disk' \in {disk, store.marks}
          /\ ~store'.dirty => store.marks \subseteq disk'
        BY <1>2, <2>1, SaveOutcomes
    <2> QED
        BY <1>0, <2>1, <2>2, <2>3 DEF SaveKeeps
  <1> QED
      BY <1>1, <1>2 DEF CloseCheckpoint

\* Close leaves a dirty store only if its save failed.
LEMMA CloseEnds ==
    ASSUME RunInv, CloseCheckpoint
    PROVE  \/ /\ store.saver = "on"
              /\ UNCHANGED <<store.dirty, store.closed>>
           \/ /\ store'.saver = "stopped"
              /\ store'.dirty => store'.closed = "error"
  <1> USE DEF RunInv, TypeOK, StoreState
  <1>1. CASE store.saver = "on" /\ store' = [store EXCEPT !.saver = "stopping"]
      BY <1>1
  <1>2. ASSUME store.saver = "stopped", NEW save \in Saves,
               store' = [store EXCEPT !.dirty = save.dirty, !.closed = save.err]
        PROVE  store'.saver = "stopped" /\ (store'.dirty => store'.closed = "error")
      BY <1>2, SaveOutcomes
  <1> QED
      BY <1>1, <1>2 DEF CloseCheckpoint

\* What the calls that defer something, and the ends of a run, do to the stack.
LEMMA DeferringSteps ==
    ASSUME RunInv
    PROVE  /\ StartRun => Depth' = 1 /\ StackIsPrefix'
           /\ OpenCheckpoint => Depth' = 3 /\ StackIsPrefix'
           /\ SetCancelFunc => Depth' = 4 /\ StackIsPrefix'
           /\ (StartProgress /\ options.show = "progress") => Depth' = 5 /\ StackIsPrefix'
           /\ Crash => Depth' = 0 /\ StackIsPrefix'
  <1> USE DEF RunInv, TypeOK, StackIsPrefix, DepthFitsPc, Order
  <1>1. StartRun => Depth' = 1 /\ StackIsPrefix'
      BY NewStates DEF StartRun, Depth
  <1>2. OpenCheckpoint => Depth' = 3 /\ StackIsPrefix'
      BY PushedTwo DEF OpenCheckpoint
  <1>3. SetCancelFunc => Depth' = 4 /\ StackIsPrefix'
      BY Pushed DEF SetCancelFunc, Defer, Call
  <1>4. (StartProgress /\ options.show = "progress") => Depth' = 5 /\ StackIsPrefix'
      BY Pushed DEF StartProgress, Defer, Call
  <1>5. Crash => Depth' = 0 /\ StackIsPrefix'
      BY NewStates DEF Crash, Depth
  <1> QED
      BY <1>1, <1>2, <1>3, <1>4, <1>5

\* What the branches after scanHost leave alone.
LEMMA AfterHostLeaves == ASSUME TypeOK, NEW err, EndHost(err)
                         PROVE  /\ UNCHANGED <<deferred, options, ctx, out, ui, disk>>
                                /\ pc = "host" /\ pc' \in {"loop", "after", "return"}
                                /\ result' \in {result, "nil"}
                                /\ progress'.at = progress.at
  BY DEF TypeOK, ProgressState, EndHost, AfterHost, Return, Goto, outVars

\* Every step keeps the types.
LEMMA StepTypes == RunInv /\ [Next]_vars => TypeOK'
  <1> SUFFICES ASSUME RunInv, [Next]_vars PROVE TypeOK'
      OBVIOUS
  <1> USE DEF RunInv, TypeOK, vars, mainVars, loopVars, saveVars, outVars, worldVars
  <1>1. CASE StartRun
    <2>1. runs' \in 0 .. MaxRuns
        BY <1>1, RunAssumption DEF StartRun
    <2>2. pc' \in Phase
        BY <1>1 DEF StartRun, Phase
    <2> QED
        BY <1>1, <2>1, <2>2, NewStates, DeferringSteps DEF StartRun, StackIsPrefix
  <1>2. CASE Fail
      BY <1>2 DEF Fail, Return, Phase
  <1>3. CASE OpenCheckpoint
      BY <1>3, DeferringSteps
         DEF OpenCheckpoint, NewStore, StoreState, Phase, StackIsPrefix
  <1>4. CASE ResolveTargets
      BY <1>4 DEF ResolveTargets, Goto, Phase
  <1>5. CASE StartUI
      BY <1>5 DEF StartUI, Goto, UIState, Phase
  <1>6. CASE FailFiles
      BY <1>6 DEF FailFiles, Goto, Told, UIState, Phase
  <1>7. CASE Abandon
      BY <1>7 DEF Abandon, Return, Phase
  <1>8. CASE OpenFiles
      BY <1>8 DEF OpenFiles, Goto, OutState, Phase
  <1>9. CASE SetCancelFunc
      BY <1>9, DeferringSteps
         DEF SetCancelFunc, Defer, UIState, Phase, StackIsPrefix
  <1>10. CASE StartProgress
      BY <1>10, DeferringSteps, DepthStays
         DEF StartProgress, Defer, Goto, ProgressState, Phase, StackIsPrefix
  <1>11. CASE StopLoop
      BY <1>11 DEF StopLoop, Return, Goto, Phase
  <1>12. CASE EndLoop
      BY <1>12 DEF EndLoop, Goto, Phase
  <1>13. CASE AfterLoop
      BY <1>13 DEF AfterLoop, Return, LoopResult, ProgressState, Phase
  <1>14. ASSUME NEW h \in Hosts, SkipHost(h) PROVE TypeOK'
      BY <1>14 DEF SkipHost
  <1>15. ASSUME NEW h \in Hosts, BeginHost(h) PROVE TypeOK'
      BY <1>15 DEF BeginHost, Goto, Phase
  <1>16. ASSUME NEW err \in Outcome, EndHost(err) PROVE TypeOK'
    <2>1. host \in Hosts /\ host \in targets
        BY <1>16 DEF EndHost, HostFitsPc, RunInv
    <2>2. store' \in StoreState
        BY <1>16, <2>1 DEF EndHost, MarkHost, StoreState
    <2>3. /\ progress' \in ProgressState
          /\ hostErrs' \subseteq {"error", "canceled"} /\ timedOut' \in BOOLEAN
          /\ pc' \in Phase /\ result' \in {"none", "nil", "error", "killed"}
          /\ UNCHANGED <<deferred, options>>
        BY <1>16 DEF EndHost, AfterHost, Return, Goto, KeepError, ProgressState, Phase, Outcome
    <2>4. outcome' \in [Hosts -> Outcome \cup {"none"}]
        BY <1>16, <2>1 DEF EndHost
    <2>5. ended' \subseteq Hosts
        BY <1>16, <2>1 DEF EndHost
    <2> QED
        BY <1>16, <2>2, <2>3, <2>4, <2>5 DEF EndHost
  <1>17. CASE CloseProgress
    <2>1. progress' \in ProgressState
        BY <1>17 DEF CloseProgress, ProgressState
    <2> QED
        BY <1>17, <2>1, DeferredCalls DEF CloseProgress, Phase, StackIsPrefix
  <1>18. CASE CloseSink
    <2>1. out' \in OutState
        BY <1>18 DEF CloseSink, OutState
    <2>2. out.metrics \in BOOLEAN
        BY DEF OutState
    <2>3. [written |-> TRUE, metrics |-> out.metrics] \in ReportState
        BY <2>2 DEF ReportState
    <2>4. report' \in ReportState
        BY <1>18, <2>3 DEF CloseSink
    <2>5. ui' \in UIState
        BY <1>18 DEF CloseSink, Told, UIState
    <2> QED
        BY <1>18, <2>1, <2>4, <2>5 DEF CloseSink, Phase
  <1>19. CASE SinkClosed
      BY <1>19, DeferredCalls DEF SinkClosed, Phase, StackIsPrefix
  <1>20. CASE CloseCheckpoint
      BY <1>20, DeferredCalls, CloseKeeps
         DEF CloseCheckpoint, SaveKeeps, Phase, StackIsPrefix
  <1>21. CASE SetMetricsSnapshot
      BY <1>21, DeferredCalls
         DEF SetMetricsSnapshot, OutState, Phase, StackIsPrefix
  <1>22. CASE ReleaseContexts
      BY <1>22, DeferredCalls DEF ReleaseContexts, Phase, StackIsPrefix
  <1>23. CASE CompleteFile
      BY <1>23 DEF CompleteFile, StoreState
  <1>24. ASSUME NEW last \in BOOLEAN, SaveCheckpoint(last) PROVE TypeOK'
      BY <1>24, SaverKeeps DEF SaveCheckpoint, SaveKeeps
  <1>25. CASE PrintLastLine
      BY <1>25 DEF PrintLastLine, ProgressState
  <1>26. CASE CompleteUI
      BY <1>26 DEF CompleteUI, UIState
  <1>27. CASE PressCtrlC
      BY <1>27 DEF PressCtrlC, Showing, UIState
  <1>28. CASE LoseTerminal
      BY <1>28 DEF LoseTerminal, Showing, UIState
  <1>29. CASE ReachTimeLimit
      BY <1>29 DEF ReachTimeLimit
  <1>30. CASE Crash
      BY <1>30, DeferringSteps, NewStates DEF Crash, Phase, StackIsPrefix
  <1>31. CASE UNCHANGED vars
      BY <1>31 DEF Phase
  <1> QED
      BY <1>1, <1>2, <1>3, <1>4, <1>5, <1>6, <1>7, <1>8, <1>9, <1>10, <1>11, <1>12,
         <1>13, <1>14, <1>15, <1>16, <1>17, <1>18, <1>19, <1>20, <1>21, <1>22,
         <1>23, <1>24, <1>25, <1>26, <1>27, <1>28, <1>29, <1>30, <1>31
         DEF Next, MainGoroutine, Startup, HostLoop, Shutdown

\* The stack of deferred calls stays a prefix of Order, of the length pc asks for.
LEMMA StepStack == RunInv /\ [Next]_vars => (StackIsPrefix /\ DepthFitsPc)'
  <1> SUFFICES ASSUME RunInv, [Next]_vars PROVE (StackIsPrefix /\ DepthFitsPc)'
      OBVIOUS
  <1> USE DEF DepthFitsPc, vars, mainVars, loopVars, saveVars, outVars, worldVars
  <1>1. CASE StartRun
    <2>1. Depth' = 1 /\ StackIsPrefix' /\ pc' = "prepare"
        BY <1>1, DeferringSteps DEF StartRun
    <2> QED
        BY <2>1
  <1>2. CASE Fail
      BY <1>2, DepthStays DEF Fail, Return, RunInv, StackIsPrefix
  <1>3. CASE OpenCheckpoint
      BY <1>3, DeferringSteps DEF OpenCheckpoint, NewStore, RunInv
  <1>4. CASE ResolveTargets
      BY <1>4, DepthStays DEF ResolveTargets, Goto, RunInv, StackIsPrefix
  <1>5. CASE StartUI
      BY <1>5, DepthStays DEF StartUI, Goto, RunInv, StackIsPrefix
  <1>6. CASE FailFiles
      BY <1>6, DepthStays DEF FailFiles, Goto, Told, RunInv, StackIsPrefix
  <1>7. CASE Abandon
      BY <1>7, DepthStays DEF Abandon, Return, RunInv, StackIsPrefix
  <1>8. CASE OpenFiles
      BY <1>8, DepthStays DEF OpenFiles, Goto, RunInv, StackIsPrefix
  <1>9. CASE SetCancelFunc
      BY <1>9, DeferringSteps DEF SetCancelFunc, Defer, RunInv
  <1>10. CASE StartProgress
      BY <1>10, DeferringSteps, DepthStays
         DEF StartProgress, Defer, Goto, RunInv, StackIsPrefix
  <1>11. CASE StopLoop
      BY <1>11, DepthStays DEF StopLoop, Return, Goto, RunInv, StackIsPrefix
  <1>12. CASE EndLoop
      BY <1>12, DepthStays DEF EndLoop, Goto, RunInv, StackIsPrefix
  <1>13. CASE AfterLoop
    <2>1. UNCHANGED deferred /\ pc = "after" /\ pc' = "return"
        BY <1>13 DEF AfterLoop, Return
    <2> QED
        BY <2>1, DepthStays DEF RunInv, StackIsPrefix
  <1>14. ASSUME NEW h \in Hosts, SkipHost(h) PROVE (StackIsPrefix /\ DepthFitsPc)'
      BY <1>14, DepthStays DEF SkipHost, RunInv, StackIsPrefix
  <1>15. ASSUME NEW h \in Hosts, BeginHost(h) PROVE (StackIsPrefix /\ DepthFitsPc)'
      BY <1>15, DepthStays DEF BeginHost, Goto, RunInv, StackIsPrefix
  <1>16. ASSUME NEW err \in Outcome, EndHost(err) PROVE (StackIsPrefix /\ DepthFitsPc)'
    <2>1. /\ pc = "host" /\ pc' \in {"loop", "after", "return"}
          /\ UNCHANGED <<deferred, options, ctx, out, ui, disk>>
          /\ result' \in {result, "nil"} /\ progress'.at = progress.at
        BY <1>16, AfterHostLeaves DEF RunInv
    <2>2. Depth' = Depth
        BY <2>1, DepthStays
    <2> QED
        BY <2>1, <2>2 DEF RunInv, StackIsPrefix
  <1>17. CASE CloseProgress
      BY <1>17, DeferredCalls DEF CloseProgress, RunInv
  <1>18. CASE CloseSink
      BY <1>18, DeferredCalls, DepthStays
         DEF CloseSink, Told, RunInv, StackIsPrefix
  <1>19. CASE SinkClosed
      BY <1>19, DeferredCalls DEF SinkClosed, RunInv
  <1>20. CASE CloseCheckpoint
      BY <1>20, DeferredCalls DEF RunInv
  <1>21. CASE SetMetricsSnapshot
      BY <1>21, DeferredCalls DEF SetMetricsSnapshot, RunInv
  <1>22. CASE ReleaseContexts
      BY <1>22, DeferredCalls DEF ReleaseContexts, RunInv
  <1>23. CASE CompleteFile
      BY <1>23, DepthStays DEF CompleteFile, RunInv, StackIsPrefix
  <1>24. ASSUME NEW last \in BOOLEAN, SaveCheckpoint(last) PROVE (StackIsPrefix /\ DepthFitsPc)'
      BY <1>24, DepthStays DEF SaveCheckpoint, RunInv, StackIsPrefix
  <1>25. CASE PrintLastLine
      BY <1>25, DepthStays DEF PrintLastLine, RunInv, StackIsPrefix
  <1>26. CASE CompleteUI
      BY <1>26, DepthStays DEF CompleteUI, RunInv, StackIsPrefix
  <1>27. CASE PressCtrlC
      BY <1>27, DepthStays DEF PressCtrlC, Showing, RunInv, StackIsPrefix
  <1>28. CASE LoseTerminal
      BY <1>28, DepthStays DEF LoseTerminal, Showing, RunInv, StackIsPrefix
  <1>29. CASE ReachTimeLimit
      BY <1>29, DepthStays DEF ReachTimeLimit, RunInv, StackIsPrefix
  <1>30. CASE Crash
      BY <1>30, DeferringSteps DEF Crash, RunInv
  <1>31. CASE UNCHANGED vars
      BY <1>31, DepthStays DEF RunInv, StackIsPrefix
  <1> QED
      BY <1>1, <1>2, <1>3, <1>4, <1>5, <1>6, <1>7, <1>8, <1>9, <1>10, <1>11, <1>12,
         <1>13, <1>14, <1>15, <1>16, <1>17, <1>18, <1>19, <1>20, <1>21, <1>22,
         <1>23, <1>24, <1>25, <1>26, <1>27, <1>28, <1>29, <1>30, <1>31
         DEF Next, MainGoroutine, Startup, HostLoop, Shutdown

\* A host is scanned only if it is one of the plan's.
LEMMA StepHost == RunInv /\ [Next]_vars => HostFitsPc'
  <1> SUFFICES ASSUME RunInv, [Next]_vars PROVE HostFitsPc'
      OBVIOUS
  <1> USE DEF RunInv, TypeOK, HostFitsPc, vars, mainVars, loopVars, saveVars,
              outVars, worldVars
  <1>1. CASE StartRun
      BY <1>1 DEF StartRun
  <1>2. CASE Fail
      BY <1>2 DEF Fail, Return
  <1>3. CASE OpenCheckpoint
      BY <1>3 DEF OpenCheckpoint, NewStore
  <1>4. CASE ResolveTargets
      BY <1>4 DEF ResolveTargets, Goto
  <1>5. CASE StartUI
      BY <1>5 DEF StartUI, Goto
  <1>6. CASE FailFiles
      BY <1>6 DEF FailFiles, Goto, Told
  <1>7. CASE Abandon
      BY <1>7 DEF Abandon, Return
  <1>8. CASE OpenFiles
      BY <1>8 DEF OpenFiles, Goto
  <1>9. CASE SetCancelFunc
      BY <1>9 DEF SetCancelFunc, Defer
  <1>10. CASE StartProgress
      BY <1>10 DEF StartProgress, Defer, Goto
  <1>11. CASE StopLoop
      BY <1>11 DEF StopLoop, Return, Goto
  <1>12. CASE EndLoop
      BY <1>12 DEF EndLoop, Goto
  <1>13. CASE AfterLoop
      BY <1>13 DEF AfterLoop, Return, LoopResult
  <1>14. ASSUME NEW h \in Hosts, SkipHost(h) PROVE HostFitsPc'
      BY <1>14 DEF SkipHost
  <1>15. ASSUME NEW h \in Hosts, BeginHost(h) PROVE HostFitsPc'
      BY <1>15 DEF BeginHost, Goto
  <1>16. ASSUME NEW err \in Outcome, EndHost(err) PROVE HostFitsPc'
      BY <1>16 DEF EndHost, AfterHost, Return, Goto, KeepError, MarkHost
  <1>17. CASE CloseProgress
      BY <1>17, DeferredCalls DEF CloseProgress
  <1>18. CASE CloseSink
      BY <1>18 DEF CloseSink, Told
  <1>19. CASE SinkClosed
      BY <1>19, DeferredCalls DEF SinkClosed
  <1>20. CASE CloseCheckpoint
      BY <1>20, DeferredCalls DEF CloseCheckpoint
  <1>21. CASE SetMetricsSnapshot
      BY <1>21, DeferredCalls DEF SetMetricsSnapshot
  <1>22. CASE ReleaseContexts
      BY <1>22, DeferredCalls DEF ReleaseContexts
  <1>23. CASE CompleteFile
      BY <1>23 DEF CompleteFile
  <1>24. ASSUME NEW last \in BOOLEAN, SaveCheckpoint(last) PROVE HostFitsPc'
      BY <1>24 DEF SaveCheckpoint
  <1>25. CASE PrintLastLine
      BY <1>25 DEF PrintLastLine
  <1>26. CASE CompleteUI
      BY <1>26 DEF CompleteUI
  <1>27. CASE PressCtrlC
      BY <1>27 DEF PressCtrlC, Showing
  <1>28. CASE LoseTerminal
      BY <1>28 DEF LoseTerminal, Showing
  <1>29. CASE ReachTimeLimit
      BY <1>29 DEF ReachTimeLimit
  <1>30. CASE Crash
      BY <1>30 DEF Crash
  <1>31. CASE UNCHANGED vars
      BY <1>31
  <1> QED
      BY <1>1, <1>2, <1>3, <1>4, <1>5, <1>6, <1>7, <1>8, <1>9, <1>10, <1>11, <1>12,
         <1>13, <1>14, <1>15, <1>16, <1>17, <1>18, <1>19, <1>20, <1>21, <1>22,
         <1>23, <1>24, <1>25, <1>26, <1>27, <1>28, <1>29, <1>30, <1>31
         DEF Next, MainGoroutine, Startup, HostLoop, Shutdown

\* What is open keeps its deferred call.
LEMMA StepOpen == RunInv /\ [Next]_vars => OpenIsDeferred'
  <1> SUFFICES ASSUME RunInv, [Next]_vars PROVE OpenIsDeferred'
      OBVIOUS
  <1> USE DEF OpenIsDeferred, UIGone, vars, mainVars, loopVars, saveVars, outVars,
              worldVars
  <1>1. CASE StartRun
    <2>1. Depth' = 1 /\ pc' = "prepare" /\ result' = "none"
        BY <1>1, DeferringSteps DEF StartRun
    <2>2. /\ ~store'.dirty /\ store'.saver = "off"
          /\ out'.sink = "none"
          /\ ui'.at = "off" /\ progress'.at = "off"
        BY <1>1 DEF StartRun, NewStore, NewOut, NewUI, NewProgress
    <2> QED
        BY <2>1, <2>2
  <1>2. CASE Fail
      BY <1>2, DepthStays DEF Fail, Return, RunInv, TypeOK, DepthFitsPc
  <1>3. CASE OpenCheckpoint
      BY <1>3, DeferringSteps
         DEF OpenCheckpoint, NewStore, RunInv, TypeOK, DepthFitsPc, StoreState
  <1>4. CASE ResolveTargets
      BY <1>4, DepthStays DEF ResolveTargets, Goto, RunInv, TypeOK, DepthFitsPc
  <1>5. CASE StartUI
      BY <1>5, DepthStays
         DEF StartUI, Goto, RunInv, TypeOK, DepthFitsPc, UIState
  <1>6. CASE FailFiles
      BY <1>6, DepthStays
         DEF FailFiles, Goto, Told, RunInv, TypeOK, DepthFitsPc, UIState
  <1>7. CASE Abandon
      BY <1>7, DepthStays DEF Abandon, Return, RunInv, TypeOK, DepthFitsPc
  <1>8. CASE OpenFiles
      BY <1>8, DepthStays
         DEF OpenFiles, Goto, RunInv, TypeOK, DepthFitsPc, OutState
  <1>9. CASE SetCancelFunc
      BY <1>9, DeferringSteps
         DEF SetCancelFunc, Defer, RunInv, TypeOK, DepthFitsPc, UIState
  <1>10. CASE StartProgress
    <2>1. pc = "setup" /\ Depth = 4 /\ Depth' \in {4, 5} /\ pc' = "loop"
        BY <1>10, DeferringSteps, DepthStays DEF StartProgress, Defer, Goto, RunInv, DepthFitsPc
    <2>2. progress'.at \in {"running", "stopping"} => Depth' = 5
        BY <1>10, <2>1, DeferringSteps
           DEF StartProgress, RunInv, TypeOK, ProgressState, DepthFitsPc
    <2>3. UNCHANGED <<ctx, store, out, ui, options, result>>
        BY <1>10 DEF StartProgress, Defer, Goto
    <2> QED
        BY <2>1, <2>2, <2>3 DEF RunInv
  <1>11. CASE StopLoop
      BY <1>11, DepthStays
         DEF StopLoop, Return, Goto, RunInv, TypeOK, DepthFitsPc
  <1>12. CASE EndLoop
      BY <1>12, DepthStays DEF EndLoop, Goto, RunInv, TypeOK, DepthFitsPc
  <1>13. CASE AfterLoop
      BY <1>13, DepthStays
         DEF AfterLoop, Return, LoopResult, RunInv, TypeOK, DepthFitsPc,
             ProgressState
  <1>14. ASSUME NEW h \in Hosts, SkipHost(h) PROVE OpenIsDeferred'
      BY <1>14, DepthStays DEF SkipHost, RunInv, TypeOK, DepthFitsPc
  <1>15. ASSUME NEW h \in Hosts, BeginHost(h) PROVE OpenIsDeferred'
      BY <1>15, DepthStays DEF BeginHost, Goto, RunInv, TypeOK, DepthFitsPc
  <1>16. ASSUME NEW err \in Outcome, EndHost(err) PROVE OpenIsDeferred'
    <2>1. /\ pc = "host" /\ pc' \in {"loop", "after", "return"}
          /\ UNCHANGED <<deferred, options, ctx, out, ui, disk>>
          /\ result' \in {result, "nil"} /\ progress'.at = progress.at
        BY <1>16, AfterHostLeaves DEF RunInv
    <2>2. Depth' = Depth
        BY <2>1, DepthStays
    <2>3. Depth >= 4 /\ Depth \in 0 .. 5
        BY <2>1 DEF RunInv, DepthFitsPc
    <2> QED
        BY <2>1, <2>2, <2>3 DEF RunInv
  <1>17. CASE CloseProgress
    <2>1. UNCHANGED <<ctx, store, out, ui>>
        BY <1>17 DEF CloseProgress
    <2>2. progress'.at \in {"running", "stopping"} => Depth' = 5
        BY <1>17, DeferredCalls DEF CloseProgress
    <2> QED
        BY <1>17, <2>1, <2>2, DeferredCalls DEF RunInv
  <1>18. CASE CloseSink
      BY <1>18, DeferredCalls, DepthStays
         DEF CloseSink, Told, RunInv, TypeOK, DepthFitsPc, OutState, ReportState,
             UIState
  <1>19. CASE SinkClosed
      BY <1>19, DeferredCalls DEF SinkClosed, RunInv, TypeOK, DepthFitsPc
  <1>20. CASE CloseCheckpoint
    <2>1. UNCHANGED <<ctx, out, ui, progress>>
        BY <1>20 DEF CloseCheckpoint
    <2> QED
        BY <1>20, <2>1, CloseEnds, DeferredCalls DEF RunInv
  <1>21. CASE SetMetricsSnapshot
      BY <1>21, DeferredCalls
         DEF SetMetricsSnapshot, RunInv, TypeOK, DepthFitsPc, OutState
  <1>22. CASE ReleaseContexts
      BY <1>22, DeferredCalls DEF ReleaseContexts, RunInv, TypeOK, DepthFitsPc
  <1>23. CASE CompleteFile
      BY <1>23, DepthStays
         DEF CompleteFile, RunInv, TypeOK, DepthFitsPc, StoreState
  <1>24. ASSUME NEW last \in BOOLEAN, SaveCheckpoint(last) PROVE OpenIsDeferred'
      BY <1>24, DepthStays
         DEF SaveCheckpoint, Saves, RunInv, TypeOK, DepthFitsPc, StoreState
  <1>25. CASE PrintLastLine
      BY <1>25, DepthStays
         DEF PrintLastLine, RunInv, TypeOK, DepthFitsPc, ProgressState
  <1>26. CASE CompleteUI
      BY <1>26, DepthStays DEF CompleteUI, RunInv, TypeOK, DepthFitsPc, UIState
  <1>27. CASE PressCtrlC
      BY <1>27, DepthStays
         DEF PressCtrlC, Showing, RunInv, TypeOK, DepthFitsPc, UIState
  <1>28. CASE LoseTerminal
      BY <1>28, DepthStays
         DEF LoseTerminal, Showing, RunInv, TypeOK, DepthFitsPc, UIState
  <1>29. CASE ReachTimeLimit
      BY <1>29, DepthStays DEF ReachTimeLimit, RunInv, TypeOK, DepthFitsPc
  <1>30. CASE Crash
      BY <1>30, DeferringSteps
         DEF Crash, RunInv, TypeOK, DepthFitsPc, NewStore, NewUI, NewProgress
  <1>31. CASE UNCHANGED vars
      BY <1>31, DepthStays DEF RunInv, TypeOK, DepthFitsPc
  <1> QED
      BY <1>1, <1>2, <1>3, <1>4, <1>5, <1>6, <1>7, <1>8, <1>9, <1>10, <1>11, <1>12,
         <1>13, <1>14, <1>15, <1>16, <1>17, <1>18, <1>19, <1>20, <1>21, <1>22,
         <1>23, <1>24, <1>25, <1>26, <1>27, <1>28, <1>29, <1>30, <1>31
         DEF Next, MainGoroutine, Startup, HostLoop, Shutdown

\* A mark or a file makes the store dirty, only a save that succeeds makes it clean.
LEMMA StepClean == RunInv /\ [Next]_vars => CleanIsSaved'
  <1> SUFFICES ASSUME RunInv, [Next]_vars PROVE CleanIsSaved'
      OBVIOUS
  <1> USE DEF RunInv, TypeOK, CleanIsSaved, StoreState, vars, mainVars, loopVars,
              saveVars, outVars, worldVars
  <1>1. CASE StartRun
      BY <1>1 DEF StartRun, NewStore
  <1>2. CASE Fail
      BY <1>2 DEF Fail, Return
  <1>3. CASE OpenCheckpoint
      BY <1>3 DEF OpenCheckpoint, NewStore
  <1>4. CASE ResolveTargets
      BY <1>4 DEF ResolveTargets, Goto
  <1>5. CASE StartUI
      BY <1>5 DEF StartUI, Goto
  <1>6. CASE FailFiles
      BY <1>6 DEF FailFiles, Goto, Told
  <1>7. CASE Abandon
      BY <1>7 DEF Abandon, Return
  <1>8. CASE OpenFiles
      BY <1>8 DEF OpenFiles, Goto
  <1>9. CASE SetCancelFunc
      BY <1>9 DEF SetCancelFunc, Defer
  <1>10. CASE StartProgress
      BY <1>10 DEF StartProgress, Defer, Goto
  <1>11. CASE StopLoop
      BY <1>11 DEF StopLoop, Return, Goto
  <1>12. CASE EndLoop
      BY <1>12 DEF EndLoop, Goto
  <1>13. CASE AfterLoop
      BY <1>13 DEF AfterLoop, Return, LoopResult
  <1>14. ASSUME NEW h \in Hosts, SkipHost(h) PROVE CleanIsSaved'
      BY <1>14 DEF SkipHost
  <1>15. ASSUME NEW h \in Hosts, BeginHost(h) PROVE CleanIsSaved'
      BY <1>15 DEF BeginHost, Goto
  <1>16. ASSUME NEW err \in Outcome, EndHost(err) PROVE CleanIsSaved'
      BY <1>16 DEF EndHost, AfterHost, Return, Goto, KeepError, MarkHost
  <1>17. CASE CloseProgress
      BY <1>17 DEF CloseProgress
  <1>18. CASE CloseSink
      BY <1>18 DEF CloseSink, Told
  <1>19. CASE SinkClosed
      BY <1>19 DEF SinkClosed
  <1>20. CASE CloseCheckpoint
      BY <1>20, CloseKeeps DEF CloseCheckpoint, SaveKeeps
  <1>21. CASE SetMetricsSnapshot
      BY <1>21 DEF SetMetricsSnapshot
  <1>22. CASE ReleaseContexts
      BY <1>22 DEF ReleaseContexts
  <1>23. CASE CompleteFile
      BY <1>23 DEF CompleteFile
  <1>24. ASSUME NEW last \in BOOLEAN, SaveCheckpoint(last) PROVE CleanIsSaved'
      BY <1>24, SaverKeeps DEF SaveCheckpoint, SaveKeeps
  <1>25. CASE PrintLastLine
      BY <1>25 DEF PrintLastLine
  <1>26. CASE CompleteUI
      BY <1>26 DEF CompleteUI
  <1>27. CASE PressCtrlC
      BY <1>27 DEF PressCtrlC, Showing
  <1>28. CASE LoseTerminal
      BY <1>28 DEF LoseTerminal, Showing
  <1>29. CASE ReachTimeLimit
      BY <1>29 DEF ReachTimeLimit
  <1>30. CASE Crash
      BY <1>30 DEF Crash, NewStore
  <1>31. CASE UNCHANGED vars
      BY <1>31
  <1> QED
      BY <1>1, <1>2, <1>3, <1>4, <1>5, <1>6, <1>7, <1>8, <1>9, <1>10, <1>11, <1>12,
         <1>13, <1>14, <1>15, <1>16, <1>17, <1>18, <1>19, <1>20, <1>21, <1>22,
         <1>23, <1>24, <1>25, <1>26, <1>27, <1>28, <1>29, <1>30, <1>31
         DEF Next, MainGoroutine, Startup, HostLoop, Shutdown

\* The invariant holds at first, and every step keeps it.
THEOREM RunInvariant == Spec => []RunInv
  <1>1. Init => RunInv
    <2> SUFFICES ASSUME Init PROVE RunInv
        OBVIOUS
    <2>1. TypeOK
        BY InitTypes
    <2>2. Depth = 0 /\ deferred \in Seq(Call)
        BY NewStates DEF Init, Depth
    <2>3. StackIsPrefix /\ DepthFitsPc
        BY <2>2 DEF Init, StackIsPrefix, DepthFitsPc
    <2>4. HostFitsPc /\ OpenIsDeferred /\ CleanIsSaved
        BY <2>2 DEF Init, HostFitsPc, OpenIsDeferred, CleanIsSaved, UIGone,
                    NewStore, NewOut, NewUI, NewProgress
    <2> QED
        BY <2>1, <2>3, <2>4 DEF RunInv
  <1>2. RunInv /\ [Next]_vars => RunInv'
      BY StepTypes, StepStack, StepHost, StepOpen, StepClean DEF RunInv
  <1> QED
      BY <1>1, <1>2, PTL DEF Spec

\* The main goroutine's state, the plan, the checkpoint, the writers, the
\* interface and the reporter keep their types.
THEOREM RunTypes == Spec => []TypeOK
  <1>1. RunInv => TypeOK
      BY DEF RunInv
  <1> QED
      BY <1>1, RunInvariant, PTL

\* On every path RunScan returns on, its deferred calls have released the contexts,
\* ended the saving goroutine and the reporter, and closed the writers and the
\* interface, for any hosts and any number of runs and crashes.
THEOREM RunCleansUp == Spec => []EveryReturnCleansUp
  <1>1. RunInv => EveryReturnCleansUp
    <2> SUFFICES ASSUME RunInv, Returned PROVE EveryReturnCleansUp
        BY DEF EveryReturnCleansUp
    <2>1. Depth = 0 /\ pc = "idle" /\ result # "killed"
        BY DEF RunInv, DepthFitsPc, Returned
    <2>2. progress.at \in {"off", "running", "stopping", "done"}
        BY DEF RunInv, TypeOK, ProgressState
    <2> QED
        BY <2>1, <2>2 DEF RunInv, OpenIsDeferred, EveryReturnCleansUp
  <1> QED
      BY <1>1, RunInvariant, PTL

\* Once RunScan has returned, the checkpoint file has every host the run marked,
\* unless the save of Close failed, whose error RunScan discards: saves that failed
\* before that one, and marks set after the saving goroutine ended, are made good.
THEOREM RunIsSaved == Spec => []ReturnedRunIsSaved
  <1>1. RunInv => ReturnedRunIsSaved
    <2> SUFFICES ASSUME RunInv, Returned, store.closed # "error"
                 PROVE  store.marks \subseteq disk
        BY DEF ReturnedRunIsSaved
    <2>1. Depth = 0
        BY DEF RunInv, DepthFitsPc, Returned
    <2>2. ~store.dirty
        BY <2>1 DEF RunInv, TypeOK, StoreState, OpenIsDeferred
    <2> QED
        BY <2>2 DEF RunInv, CleanIsSaved
  <1> QED
      BY <1>1, RunInvariant, PTL

\* A mark needs a scanHost that returned nil, and ended never shrinks.
LEMMA StepMarked == (RunInv /\ MarkedHostsWereScanned) /\ [Next]_vars => MarkedHostsWereScanned'
  <1> SUFFICES ASSUME (RunInv /\ MarkedHostsWereScanned), [Next]_vars PROVE MarkedHostsWereScanned'
      OBVIOUS
  <1> USE DEF RunInv, TypeOK, StoreState, MarkedHostsWereScanned, vars, mainVars,
              loopVars, saveVars, outVars, worldVars
  <1>1. CASE StartRun
      BY <1>1 DEF StartRun, NewStore
  <1>2. CASE Fail
      BY <1>2 DEF Fail
  <1>3. CASE OpenCheckpoint
      BY <1>3 DEF OpenCheckpoint, NewStore
  <1>4. CASE ResolveTargets
      BY <1>4 DEF ResolveTargets
  <1>5. CASE StartUI
      BY <1>5 DEF StartUI
  <1>6. CASE FailFiles
      BY <1>6 DEF FailFiles, Told
  <1>7. CASE Abandon
      BY <1>7 DEF Abandon
  <1>8. CASE OpenFiles
      BY <1>8 DEF OpenFiles
  <1>9. CASE SetCancelFunc
      BY <1>9 DEF SetCancelFunc
  <1>10. CASE StartProgress
      BY <1>10 DEF StartProgress
  <1>11. CASE StopLoop
      BY <1>11 DEF StopLoop
  <1>12. CASE EndLoop
      BY <1>12 DEF EndLoop
  <1>13. CASE AfterLoop
      BY <1>13 DEF AfterLoop, LoopResult
  <1>14. ASSUME NEW h \in Hosts, SkipHost(h) PROVE MarkedHostsWereScanned'
      BY <1>14 DEF SkipHost
  <1>15. ASSUME NEW h \in Hosts, BeginHost(h) PROVE MarkedHostsWereScanned'
      BY <1>15 DEF BeginHost
  <1>16. ASSUME NEW err \in Outcome, EndHost(err) PROVE MarkedHostsWereScanned'
      BY <1>16 DEF EndHost, MarkHost
  <1>17. CASE CloseProgress
      BY <1>17 DEF CloseProgress
  <1>18. CASE CloseSink
      BY <1>18 DEF CloseSink, Told
  <1>19. CASE SinkClosed
      BY <1>19 DEF SinkClosed
  <1>20. CASE CloseCheckpoint
      BY <1>20, CloseKeeps DEF CloseCheckpoint, SaveKeeps
  <1>21. CASE SetMetricsSnapshot
      BY <1>21 DEF SetMetricsSnapshot
  <1>22. CASE ReleaseContexts
      BY <1>22 DEF ReleaseContexts
  <1>23. CASE CompleteFile
      BY <1>23 DEF CompleteFile
  <1>24. ASSUME NEW last \in BOOLEAN, SaveCheckpoint(last) PROVE MarkedHostsWereScanned'
      BY <1>24, SaverKeeps DEF SaveCheckpoint, SaveKeeps
  <1>25. CASE PrintLastLine
      BY <1>25 DEF PrintLastLine
  <1>26. CASE CompleteUI
      BY <1>26 DEF CompleteUI
  <1>27. CASE PressCtrlC
      BY <1>27 DEF PressCtrlC, Showing
  <1>28. CASE LoseTerminal
      BY <1>28 DEF LoseTerminal, Showing
  <1>29. CASE ReachTimeLimit
      BY <1>29 DEF ReachTimeLimit
  <1>30. CASE Crash
      BY <1>30 DEF Crash, NewStore
  <1>31. CASE UNCHANGED vars
      BY <1>31
  <1> QED
      BY <1>1, <1>2, <1>3, <1>4, <1>5, <1>6, <1>7, <1>8, <1>9, <1>10, <1>11, <1>12,
         <1>13, <1>14, <1>15, <1>16, <1>17, <1>18, <1>19, <1>20, <1>21, <1>22,
         <1>23, <1>24, <1>25, <1>26, <1>27, <1>28, <1>29, <1>30, <1>31
         DEF Next, MainGoroutine, Startup, HostLoop, Shutdown

\* A host is in the checkpoint, in memory or on disk, only if scanHost returned nil
\* for it in this run or an earlier one, over all crashes and resumptions.
THEOREM MarkedHostsWereScannedAlways == Spec => []MarkedHostsWereScanned
  <1>1. Init => MarkedHostsWereScanned
      BY DEF Init, NewStore, MarkedHostsWereScanned
  <1> QED
      BY <1>1, RunInvariant, StepMarked, PTL DEF Spec

\* What stands behind a nil result: while nothing has stopped the scan, an error
\* kept in hostErrs or a host still to do is seen before the loop ends.
NilIsEarned ==
    /\ pc \in {"prepare", "resolve"} => targets = {}
    /\ pc \notin {"idle", "return", "closing"} => result = "none"
    /\ timedOut => ctx = "deadline"
    /\ pc # "idle" => ctx # "released"
    /\ (ui.userCanceled /\ pc # "idle") => ctx \in {"deadline", "canceled"}
    /\ (pc = "after" /\ ~timedOut) => todo = {}
    /\ (result = "nil" /\ ctx \in {"live", "released"}) => todo = {} /\ hostErrs = {}

\* While nothing has stopped the scan or failed, each host of the plan is to do, in
\* hand, marked, or given up after a timeout.
HostsAccounted ==
    (ctx \in {"live", "released"} /\ result # "killed" /\ hostErrs = {}) =>
        \A h \in targets : \/ h \in todo
                           \/ pc = "host" /\ h = host
                           \/ h \in store.marks
                           \/ outcome[h] = "timeout"

AccountInv == RunInv /\ NilIsEarned /\ HostsAccounted

\* What the branches after scanHost do, by what it returned.
LEMMA AfterHostBranches ==
    ASSUME TypeOK, NEW err, EndHost(err)
    PROVE  /\ err \in {"canceled", "deadline"} => ctx = err
           /\ err \in {"nil", "timeout", "error"} =>
                pc' = "loop" /\ UNCHANGED <<result, timedOut>>
           /\ err \in {"nil", "timeout"} => UNCHANGED hostErrs
           /\ err = "error" => hostErrs' # {}
           /\ timedOut' => timedOut \/ ctx = "deadline"
           /\ pc' = "after" => timedOut'
           /\ pc' # "return" => UNCHANGED result
           /\ err \in {"nil", "timeout", "error", "canceled", "deadline"}
           /\ UNCHANGED <<targets, todo>>
  BY DEF TypeOK, EndHost, AfterHost, Return, Goto, KeepError, OutcomesUnder

\* A nil result is earned at every step.
LEMMA StepNil == AccountInv /\ [Next]_vars => NilIsEarned'
  <1> SUFFICES ASSUME AccountInv, [Next]_vars PROVE NilIsEarned'
      OBVIOUS
  <1> USE DEF AccountInv, NilIsEarned, vars, mainVars, loopVars, saveVars, outVars,
              worldVars
  <1>1. CASE StartRun
      BY <1>1 DEF StartRun, NewUI, RunInv
  <1>2. CASE Fail
      BY <1>2 DEF Fail, Return
  <1>3. CASE OpenCheckpoint
      BY <1>3 DEF OpenCheckpoint, NewStore
  <1>4. CASE ResolveTargets
      BY <1>4 DEF ResolveTargets, Goto
  <1>5. CASE StartUI
      BY <1>5 DEF StartUI, Goto, TypeOK, UIState, RunInv
  <1>6. CASE FailFiles
      BY <1>6 DEF FailFiles, Goto, Told, TypeOK, UIState, RunInv
  <1>7. CASE Abandon
      BY <1>7 DEF Abandon, Return
  <1>8. CASE OpenFiles
      BY <1>8 DEF OpenFiles, Goto
  <1>9. CASE SetCancelFunc
      BY <1>9 DEF SetCancelFunc, Defer, TypeOK, UIState, RunInv
  <1>10. CASE StartProgress
      BY <1>10 DEF StartProgress, Defer, Goto
  <1>11. CASE StopLoop
      BY <1>11 DEF StopLoop, Return, Goto
  <1>12. CASE EndLoop
      BY <1>12 DEF EndLoop, Goto
  <1>13. CASE AfterLoop
      BY <1>13 DEF AfterLoop, Return, LoopResult, RunInv
  <1>14. ASSUME NEW h \in Hosts, SkipHost(h) PROVE NilIsEarned'
      BY <1>14 DEF SkipHost, RunInv
  <1>15. ASSUME NEW h \in Hosts, BeginHost(h) PROVE NilIsEarned'
      BY <1>15 DEF BeginHost, Goto
  <1>16. ASSUME NEW err \in Outcome, EndHost(err) PROVE NilIsEarned'
    <2>1. /\ pc = "host" /\ pc' \in {"loop", "after", "return"}
          /\ UNCHANGED <<ctx, ui>>
        BY <1>16, AfterHostLeaves DEF RunInv
    <2>2. result = "none"
        BY <2>1
    <2>3. (result' = "nil" /\ ctx \in {"live", "released"}) => FALSE
        BY <1>16, <2>2, AfterHostBranches DEF RunInv
    <2>4. /\ timedOut' => timedOut \/ ctx = "deadline"
          /\ pc' = "after" => timedOut'
          /\ pc' # "return" => UNCHANGED result
        BY <1>16, AfterHostBranches DEF RunInv
    <2> QED
        BY <2>1, <2>2, <2>3, <2>4
  <1>17. CASE CloseProgress
      BY <1>17, DeferredCalls DEF CloseProgress
  <1>18. CASE CloseSink
      BY <1>18, DeferredCalls DEF CloseSink, Told, TypeOK, UIState, RunInv
  <1>19. CASE SinkClosed
      BY <1>19, DeferredCalls DEF SinkClosed
  <1>20. CASE CloseCheckpoint
      BY <1>20, DeferredCalls DEF CloseCheckpoint
  <1>21. CASE SetMetricsSnapshot
      BY <1>21, DeferredCalls DEF SetMetricsSnapshot
  <1>22. CASE ReleaseContexts
      BY <1>22, DeferredCalls DEF ReleaseContexts
  <1>23. CASE CompleteFile
      BY <1>23 DEF CompleteFile
  <1>24. ASSUME NEW last \in BOOLEAN, SaveCheckpoint(last) PROVE NilIsEarned'
      BY <1>24 DEF SaveCheckpoint
  <1>25. CASE PrintLastLine
      BY <1>25 DEF PrintLastLine
  <1>26. CASE CompleteUI
      BY <1>26 DEF CompleteUI, TypeOK, UIState, RunInv
  <1>27. CASE PressCtrlC
      BY <1>27 DEF PressCtrlC, Showing, TypeOK, UIState, RunInv
  <1>28. CASE LoseTerminal
      BY <1>28 DEF LoseTerminal, Showing, TypeOK, UIState, RunInv
  <1>29. CASE ReachTimeLimit
      BY <1>29 DEF ReachTimeLimit
  <1>30. CASE Crash
      BY <1>30 DEF Crash, NewUI, RunInv
  <1>31. CASE UNCHANGED vars
      BY <1>31
  <1> QED
      BY <1>1, <1>2, <1>3, <1>4, <1>5, <1>6, <1>7, <1>8, <1>9, <1>10, <1>11, <1>12,
         <1>13, <1>14, <1>15, <1>16, <1>17, <1>18, <1>19, <1>20, <1>21, <1>22,
         <1>23, <1>24, <1>25, <1>26, <1>27, <1>28, <1>29, <1>30, <1>31
         DEF Next, MainGoroutine, Startup, HostLoop, Shutdown

\* No host of the plan gets lost.
LEMMA StepAccounted == AccountInv /\ [Next]_vars => HostsAccounted'
  <1> SUFFICES ASSUME AccountInv, [Next]_vars PROVE HostsAccounted'
      OBVIOUS
  <1> USE DEF AccountInv, HostsAccounted, vars, mainVars, loopVars, saveVars,
              outVars, worldVars
  <1>1. CASE StartRun
      BY <1>1 DEF StartRun
  <1>2. CASE Fail
      BY <1>2 DEF Fail, Return, NilIsEarned
  <1>3. CASE OpenCheckpoint
      BY <1>3 DEF OpenCheckpoint, NewStore, NilIsEarned
  <1>4. CASE ResolveTargets
      BY <1>4 DEF ResolveTargets, Goto
  <1>5. CASE StartUI
      BY <1>5 DEF StartUI, Goto
  <1>6. CASE FailFiles
      BY <1>6 DEF FailFiles, Goto, Told
  <1>7. CASE Abandon
      BY <1>7 DEF Abandon, Return, NilIsEarned
  <1>8. CASE OpenFiles
      BY <1>8 DEF OpenFiles, Goto
  <1>9. CASE SetCancelFunc
      BY <1>9 DEF SetCancelFunc, Defer
  <1>10. CASE StartProgress
      BY <1>10 DEF StartProgress, Defer, Goto
  <1>11. CASE StopLoop
      BY <1>11 DEF StopLoop, Return, Goto
  <1>12. CASE EndLoop
      BY <1>12 DEF EndLoop, Goto
  <1>13. CASE AfterLoop
      BY <1>13 DEF AfterLoop, Return, LoopResult, NilIsEarned
  <1>14. ASSUME NEW h \in Hosts, SkipHost(h) PROVE HostsAccounted'
      BY <1>14 DEF SkipHost
  <1>15. ASSUME NEW h \in Hosts, BeginHost(h) PROVE HostsAccounted'
      BY <1>15 DEF BeginHost, Goto
  <1>16. ASSUME NEW err \in Outcome, EndHost(err) PROVE HostsAccounted'
    <2> SUFFICES ASSUME ctx \in {"live", "released"}, hostErrs' = {},
                        NEW h \in targets
                 PROVE  \/ h \in todo \/ h \in store'.marks
                        \/ outcome'[h] = "timeout"
        BY <1>16, AfterHostLeaves, AfterHostBranches DEF RunInv
    <2>1. /\ err \in {"nil", "timeout"} /\ UNCHANGED hostErrs
          /\ pc = "host" /\ result # "killed" /\ host \in Hosts
        BY <1>16, AfterHostLeaves, AfterHostBranches
           DEF RunInv, TypeOK, NilIsEarned, HostFitsPc
    <2>2. h \in todo \/ h = host \/ h \in store.marks \/ outcome[h] = "timeout"
        BY <2>1
    <2>3. h \in store.marks => h \in store'.marks
        BY <1>16, <2>1 DEF EndHost, MarkHost, RunInv, TypeOK, StoreState
    <2>4. h = host => h \in store'.marks \/ outcome'[h] = "timeout"
        BY <1>16, <2>1 DEF EndHost, MarkHost, RunInv, TypeOK, StoreState
    <2>5. h # host => outcome'[h] = outcome[h]
        BY <1>16 DEF EndHost, RunInv, TypeOK
    <2> QED
        BY <2>2, <2>3, <2>4, <2>5
  <1>17. CASE CloseProgress
      BY <1>17, DeferredCalls DEF CloseProgress
  <1>18. CASE CloseSink
      BY <1>18, DeferredCalls DEF CloseSink, Told
  <1>19. CASE SinkClosed
      BY <1>19, DeferredCalls DEF SinkClosed
  <1>20. CASE CloseCheckpoint
      BY <1>20, DeferredCalls, CloseKeeps DEF CloseCheckpoint, SaveKeeps
  <1>21. CASE SetMetricsSnapshot
      BY <1>21, DeferredCalls DEF SetMetricsSnapshot
  <1>22. CASE ReleaseContexts
      BY <1>22, DeferredCalls DEF ReleaseContexts
  <1>23. CASE CompleteFile
      BY <1>23 DEF CompleteFile, RunInv, TypeOK, StoreState
  <1>24. ASSUME NEW last \in BOOLEAN, SaveCheckpoint(last) PROVE HostsAccounted'
      BY <1>24, SaverKeeps DEF SaveCheckpoint, SaveKeeps
  <1>25. CASE PrintLastLine
      BY <1>25 DEF PrintLastLine
  <1>26. CASE CompleteUI
      BY <1>26 DEF CompleteUI
  <1>27. CASE PressCtrlC
      BY <1>27 DEF PressCtrlC, Showing
  <1>28. CASE LoseTerminal
      BY <1>28 DEF LoseTerminal, Showing
  <1>29. CASE ReachTimeLimit
      BY <1>29 DEF ReachTimeLimit
  <1>30. CASE Crash
      BY <1>30 DEF Crash
  <1>31. CASE UNCHANGED vars
      BY <1>31
  <1> QED
      BY <1>1, <1>2, <1>3, <1>4, <1>5, <1>6, <1>7, <1>8, <1>9, <1>10, <1>11, <1>12,
         <1>13, <1>14, <1>15, <1>16, <1>17, <1>18, <1>19, <1>20, <1>21, <1>22,
         <1>23, <1>24, <1>25, <1>26, <1>27, <1>28, <1>29, <1>30, <1>31
         DEF Next, MainGoroutine, Startup, HostLoop, Shutdown

\* When a run that nothing stopped returns nil, each of its hosts is complete or was
\* given up after an SMB timeout: no error and no host gets lost on the way.
THEOREM NilAccountsForEveryHostAlways == Spec => []NilAccountsForEveryHost
  <1>1. Init => NilIsEarned /\ HostsAccounted
      BY DEF Init, NewUI, NilIsEarned, HostsAccounted
  <1>2. AccountInv /\ [Next]_vars => NilIsEarned' /\ HostsAccounted'
      BY StepNil, StepAccounted
  <1>3. AccountInv => NilAccountsForEveryHost
      BY DEF AccountInv, NilIsEarned, HostsAccounted, NilAccountsForEveryHost, Returned
  <1>4. AccountInv <=> RunInv /\ NilIsEarned /\ HostsAccounted
      BY DEF AccountInv
  <1> QED
      BY <1>1, <1>2, <1>3, <1>4, RunInvariant, PTL DEF Spec
===============================================================================
