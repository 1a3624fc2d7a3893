--------------------------- MODULE CheckpointManager ---------------------------
(***************************************************************************)
(* When does a share count as scanned?  The Manager of                     *)
(* internal/state/checkpoint.go keeps one entry per share that is being    *)
(* scanned, fed from two sides: the goroutine that walks the shares one    *)
(* after the other (StartShare, AddPendingFiles after each batch it has    *)
(* queued, FinishShareEnumeration or AbortShare), and the worker pool,     *)
(* whose callbacks (RecordFileResult) come in any order, from the moment a *)
(* file is queued, also before its batch was added and after the walk has  *)
(* moved on to another share.                                              *)
(*                                                                         *)
(* The callers follow scanHost of internal/app/scan.go: a file that is     *)
(* already complete is not queued, a failing walk aborts its share and     *)
(* goes on with the next, and a cancelled host drops jobs that were queued.*)
(* A host that appears twice among the targets is scanned in two passes.   *)
(***************************************************************************)
EXTENDS ShareProgress, FiniteSets

CONSTANTS Shares, Files,
          shareOf,    \* the share of each file
          MaxPasses   \* bound on the scans of the host by one Manager

ASSUME ManagerAssumption ==
    /\ IsFiniteSet(Files)
    /\ shareOf \in [Files -> Shares]
    /\ MaxPasses \in Nat \ {0}

FilesOf(s) == {f \in Files : shareOf[f] = s}

VARIABLES
    pending,      \* Manager.pending
    sharesDone,   \* Store.shares
    filesDone,    \* Store.files, for the files as they are now
    walk,         \* how far the walk of each share is, in this pass
    batch,        \* files queued since the last AddPendingFiles
    job,          \* how far each file is, in this pass
    cancelled,    \* the pool's context is done
    pass

vars == <<pending, sharesDone, filesDone, walk, batch, job, cancelled, pass>>

WalkPhase == {"todo", "walking", "finished", "aborted", "skipped"}

\* A file is unseen until the walk yields it; then it is queued unless it is
\* already complete.  A callback has stored the file when it is between its two
\* critical sections: "succeeded" or "failed"; "recorded" is after the second.
JobPhase == {"unseen", "known", "queued", "succeeded", "failed", "recorded",
             "dropped"}

TypeOK == /\ pending \in [Shares -> Entry \cup {NoEntry}]
          /\ sharesDone \subseteq Shares
          /\ filesDone \subseteq Files
          /\ walk \in [Shares -> WalkPhase]
          /\ batch \in Nat
          /\ job \in [Files -> JobPhase]
          /\ cancelled \in BOOLEAN
          /\ pass \in 1 .. MaxPasses

NewPass == /\ walk = [s \in Shares |-> "todo"]
           /\ batch = 0
           /\ job = [f \in Files |-> "unseen"]
           /\ cancelled = FALSE

\* A resumed run knows shares and files an earlier run completed.
Init == /\ pending = [s \in Shares |-> NoEntry]
        /\ filesDone \in SUBSET Files
        /\ sharesDone \in SUBSET {s \in Shares : FilesOf(s) \subseteq filesDone}
        /\ NewPass
        /\ pass = 1

Idle == \A s \in Shares : walk[s] # "walking"

Outstanding(s) ==
    {f \in FilesOf(s) : job[f] \in {"queued", "succeeded", "failed"}}
-------------------------------------------------------------------------------
(***************************************************************************)
(* The walk.                                                               *)
(***************************************************************************)
\* ShouldSkipShare
SkipShare(s) == /\ Idle
                /\ walk[s] = "todo"
                /\ s \in sharesDone
                /\ walk' = [walk EXCEPT ![s] = "skipped"]
                /\ UNCHANGED <<pending, sharesDone, filesDone, batch, job,
                               cancelled, pass>>

\* An entry that an earlier pass left behind is kept as it is.
StartShare(s) == /\ Idle
                 /\ walk[s] = "todo"
                 /\ s \notin sharesDone
                 /\ pending' = [pending EXCEPT ![s] = Present(@)]
                 /\ walk' = [walk EXCEPT ![s] = "walking"]
                 /\ UNCHANGED <<sharesDone, filesDone, batch, job, cancelled,
                                pass>>

\* ShouldSkipFile
SkipFile(f) == /\ walk[shareOf[f]] = "walking"
               /\ job[f] = "unseen"
               /\ f \in filesDone
               /\ job' = [job EXCEPT ![f] = "known"]
               /\ UNCHANGED <<pending, sharesDone, filesDone, walk, batch,
                              cancelled, pass>>

\* The job is sent; its callback may come before the batch is added.
Enqueue(f) == /\ walk[shareOf[f]] = "walking"
              /\ job[f] = "unseen"
              /\ f \notin filesDone
              /\ job' = [job EXCEPT ![f] = "queued"]
              /\ batch' = batch + 1
              /\ UNCHANGED <<pending, sharesDone, filesDone, walk, cancelled,
                             pass>>

AddPendingFiles(s) == /\ walk[s] = "walking"
                      /\ pending' = [pending EXCEPT ![s] = Added(@, batch)]
                      /\ batch' = 0
                      /\ UNCHANGED <<sharesDone, filesDone, walk, job,
                                     cancelled, pass>>

FinishWithoutSettling(s) ==   \* mutant: settling is left to the callbacks
    /\ walk[s] = "walking"
    /\ batch = 0
    /\ \A f \in FilesOf(s) : job[f] # "unseen"
    /\ walk' = [walk EXCEPT ![s] = "finished"]
    /\ pending' = [pending EXCEPT ![s] = Ended(@)]
    /\ UNCHANGED <<sharesDone, filesDone, batch, job, cancelled, pass>>

FinishShareEnumeration(s) ==
    /\ walk[s] = "walking"
    /\ batch = 0
    /\ \A f \in FilesOf(s) : job[f] # "unseen"
    /\ walk' = [walk EXCEPT ![s] = "finished"]
    /\ pending' = [pending EXCEPT ![s] = Kept(Ended(@))]
    /\ sharesDone' = IF Completes(Ended(pending[s]))
                     THEN sharesDone \cup {s}
                     ELSE sharesDone
    /\ UNCHANGED <<filesDone, batch, job, cancelled, pass>>

\* The walk fails, between batches or (the context being done) inside one.
AbortShare(s) == /\ walk[s] = "walking"
                 /\ walk' = [walk EXCEPT ![s] = "aborted"]
                 /\ pending' = [pending EXCEPT ![s] = NoEntry]
                 /\ batch' = 0
                 /\ UNCHANGED <<sharesDone, filesDone, job, cancelled, pass>>
-------------------------------------------------------------------------------
(***************************************************************************)
(* RecordFileResult, called by the workers: first the file, under the      *)
(* store's lock, then the share, under the manager's.                      *)
(***************************************************************************)
RecordFile(f) == /\ job[f] = "queued"
                 /\ \/ /\ job' = [job EXCEPT ![f] = "succeeded"]
                       /\ filesDone' = filesDone \cup {f}
                    \/ /\ job' = [job EXCEPT ![f] = "failed"]
                       /\ UNCHANGED filesDone
                 /\ UNCHANGED <<pending, sharesDone, walk, batch, cancelled,
                                pass>>

RecordShare(f) ==
    LET s == shareOf[f]
        e == Counted(pending[s], job[f] = "succeeded")
    IN  /\ job[f] \in {"succeeded", "failed"}
        /\ job' = [job EXCEPT ![f] = "recorded"]
        /\ IF pending[s] = NoEntry
           THEN UNCHANGED <<pending, sharesDone>>
           ELSE /\ pending' = [pending EXCEPT ![s] = Kept(e)]
                /\ sharesDone' = IF Completes(e) THEN sharesDone \cup {s}
                                 ELSE sharesDone
        /\ UNCHANGED <<filesDone, walk, batch, cancelled, pass>>

\* The host is given up (a share timed out, or the scan is stopped): workers
\* leave, and jobs still in the queue never have their callback called.
Cancel == /\ ~cancelled
          /\ cancelled' = TRUE
          /\ UNCHANGED <<pending, sharesDone, filesDone, walk, batch, job, pass>>

Drop(f) == /\ cancelled
           /\ job[f] = "queued"
           /\ job' = [job EXCEPT ![f] = "dropped"]
           /\ UNCHANGED <<pending, sharesDone, filesDone, walk, batch,
                          cancelled, pass>>

\* scanHost returned (it waits for the pool), and the host comes up again.
NextPass == /\ Idle
            /\ \A s \in Shares : Outstanding(s) = {}
            /\ pass < MaxPasses
            /\ pass' = pass + 1
            /\ walk' = [s \in Shares |-> "todo"]
            /\ batch' = 0
            /\ job' = [f \in Files |-> "unseen"]
            /\ cancelled' = FALSE
            /\ UNCHANGED <<pending, sharesDone, filesDone>>
-------------------------------------------------------------------------------
Walk == \E s \in Shares : \/ SkipShare(s) \/ StartShare(s)
                          \/ AddPendingFiles(s)
                          \/ FinishShareEnumeration(s) \/ AbortShare(s)

Queue == \E f \in Files : SkipFile(f) \/ Enqueue(f)

Callbacks == \E f \in Files : RecordFile(f) \/ RecordShare(f) \/ Drop(f)

Next == Walk \/ Queue \/ Callbacks \/ Cancel \/ NextPass

Spec == Init /\ [][Next]_vars

\* The walk goes on and the workers run; nothing has to fail or be cancelled.
Fairness == /\ WF_vars(Walk \/ Queue)
            /\ \A f \in Files : /\ WF_vars(RecordFile(f))
                                /\ WF_vars(RecordShare(f))

FairSpec == Spec /\ Fairness
-------------------------------------------------------------------------------
(***************************************************************************)
(* Properties.                                                             *)
(***************************************************************************)
\* A share is complete only when every file of it is, whatever the order of
\* callbacks, batches, aborts and passes: a resumed run will skip it whole.
\* (TestManagerMarksShareCompleteOnlyWhenAllFilesSucceed)
CompleteSharesAreScanned ==
    \A s \in sharesDone : FilesOf(s) \subseteq filesDone

\* A walk that ends with nothing dropped gets its share decided, even if no
\* callback is left to do it.
WalksAreDecided ==
    \A s \in Shares :
        (walk[s] = "walking" /\ pass = 1) ~>
            \/ walk[s] = "aborted" \/ cancelled
            \/ pending[s] = NoEntry
-------------------------------------------------------------------------------
(***************************************************************************)
(* The inductive invariant, for a host scanned at most twice.  It compares *)
(* the count of an entry with two sets of files: those queued in this pass *)
(* and not recorded, and those whose success is not recorded at all.       *)
(***************************************************************************)
Live(s) == {f \in FilesOf(s) : job[f] \in {"queued", "succeeded", "failed", "dropped"}}

Uncounted(s) == {f \in FilesOf(s) : f \notin filesDone \/ job[f] = "succeeded"}

\* How many files are counted, beyond those still live.
Count(s) == IF pending[s] = NoEntry THEN 0 ELSE pending[s].remaining

Overcounts(s, n) == Count(s) + n > Cardinality(Live(s))

\* The entry cannot reach zero before every file is done.
Sound(s) == ~pending[s].failed => Count(s) >= Cardinality(Uncounted(s))

FailuresNoted(s) ==
    ~pending[s].failed =>
        \A f \in FilesOf(s) : job[f] = "recorded" => f \in filesDone

\* No walk yet: nothing, or what a cancelled first pass left.
WaitingInv(s) == /\ \A f \in FilesOf(s) : job[f] = "unseen"
                 /\ pending[s] # NoEntry => /\ pass = 2
                                           /\ pending[s].finished
                                           /\ Count(s) > 0
                                           /\ Sound(s)

\* A walk begun on an old entry overcounts for good, with that entry or, when
\* its count has run out, with a new one.
WalkingInv(s) ==
    /\ Count(s) + batch >= Cardinality(Live(s))
    /\ \/ pass = 2 /\ Overcounts(s, batch)
       \/ pending[s] # NoEntry /\ ~pending[s].finished /\ FailuresNoted(s)
    /\ (pending[s] # NoEntry /\ pending[s].finished) => Sound(s)

FinishedInv(s) ==
    pending[s] # NoEntry => /\ pending[s].finished
                            /\ Count(s) > 0
                            /\ Sound(s) \/ (pass = 2 /\ Overcounts(s, 0))

ShareInv(s) == /\ walk[s] \in {"todo", "skipped"} => WaitingInv(s)
               /\ walk[s] = "walking" => WalkingInv(s)
               /\ walk[s] = "finished" => FinishedInv(s)
               /\ walk[s] = "aborted" => pending[s] = NoEntry

WalkInv == /\ \A s, t \in Shares : walk[s] = "walking" /\ walk[t] = "walking" => s = t
           /\ Idle => batch = 0

JobInv == \A f \in Files : /\ job[f] \in {"known", "succeeded"} => f \in filesDone
                           /\ job[f] \in {"queued", "failed"} => f \notin filesDone

ManagerInv == /\ TypeOK
              /\ WalkInv
              /\ JobInv
              /\ \A s \in Shares : ShareInv(s)
              /\ CompleteSharesAreScanned
===============================================================================
