# A verification project for Snablr

Snablr looks through SMB file shares for material that should not be there. One
run resolves hosts, connects to them one after the other, walks their shares,
hands the files to a pool of workers, writes what the rule engine finds to a
set of writers, and keeps a checkpoint so that a later run can resume. These
modules model the parts of it where goroutines, cancellation, failing calls and
restarts meet, and the computations that decide what is scanned and what a report
says, and state what must hold there.

Paths below are relative to `src/`. `PROJECT.json` maps each definition to the
lines it stands for.

## 1. The system

### Parts

| part | state it keeps | operations | talks to |
|---|---|---|---|
| checkpoint store (`internal/state/store.go`) | completed hosts, shares and files, the dirty flag; the file and its temporary file | `Open`, `Mark*`, `Is*Complete`, `Save` | manager, file system |
| checkpoint manager (`internal/state/checkpoint.go`) | one pending entry per share (files not yet called back, finished, failed); the saving goroutine | `Start`, `Close`, `Save`, `StartShare`, `AddPendingFiles`, `FinishShareEnumeration`, `AbortShare`, `RecordFileResult`, `MarkHostComplete`, `ShouldSkip*` | `scanHost` on one side, callbacks of the workers on the other |
| worker pool (`internal/scanner/workers.go`) | workers, channels of jobs and results, two contexts | `Scan`, `runWorker`, `processJob`, `collectResults` | engine, sink, each job's callback |
| host scan (`internal/app/scan.go`, `scanHost`) | the batch, the queue, walk errors, the timeout flag, one SMB client | walk, flush a batch, close the queue, wait for the pool | SMB, planner, pool, manager |
| run (`internal/app/scan.go`, `RunScan`) | context with time limit, deferred calls, plan, host errors | open, resolve, scan each host, return | everything |
| SMB client (`internal/smb`) | one connection and session shared by all workers, a guard per operation | `Connect`, `ListShares`, `WalkShare`, `ReadFile`, `Close` | the vendored protocol stack |
| walker and planner (`internal/smb/walker.go`, `internal/planner`) | none | `WalkShareWithOptions`, `PlanHosts`, `PlanShares`, `PlanFiles` | run, host scan |
| discovery (`internal/discovery`) | an LDAP session; a pool for reachability | `Resolve`, `ValidateLDAPCredentials`, `FilterReachable`, LDAP and DFS queries | run, preflight |
| rules (`internal/rules`) | loaded rules | load, validate, match, test | engine, `snablr rules` |
| engine (`internal/scanner`, the `*inspect` packages, `internal/textdecode`) | compiled rules, an observer | `NeedsContent`, `Evaluate`, correlation of the findings of a file | pool |
| output (`internal/output`, `internal/suppression`) | findings, counters, files, the terminal | `WriteFinding`, `Record*`, `Close` | pool, run, user |
| progress and metrics (`internal/ui`, `internal/metrics`) | counters, the reporter's goroutine | `Start`, `SetStatus`, `Close` | run |
| configuration, commands (`internal/config`, `cmd`) | none | defaults, profiles, overlay, flags, checks, paths | run |
| offline tools (`internal/diff`, `eval`, `benchmark`, `seed`) | none | compare, generate, verify | reports |

### How they interact

`RunScan` starts the saving goroutine of the checkpoint, the terminal interface
and the progress reporter, and calls `scanHost` host by host. `scanHost` starts
the pool and feeds it from the walk of each share. A file's callback
(`RecordFileResult`) runs in a worker, so the manager sees the walker's calls
and the callbacks interleaved. The sink is called by one collector per host. A
context with the time limit reaches all of them; the interface's Ctrl-C cancels
it. The only thing that survives a process is the checkpoint file.

### What is hard

* Callbacks come before, during and after the batch they belong to is counted.
* A select with a result to send and a context that is done may take either.
* Three things end a host early (SMB timeout, time limit, user), each with a
  different meaning for the checkpoint, and errors are told apart by wrapping.
* All operations of a host share one connection and its deadline; a guard that
  expires, or `Close`, ends the operations of all others.
* The saving goroutine ends with the context, but marks go on after it.
* `RunScan` returns from a dozen places with up to five deferred calls.
* A crash can come between any two file operations of a save, and a resumed run
  believes all it reads.
* A bind that fails may be retried with another name, another method and another
  connection; what follows must run on the one that is bound.
* One of seven outputs may fail at any time, and what is suppressed is seen nowhere
  else.
* The same question is answered in several places: which path is in scope (walker,
  planner, lookup), how large a file may be (client, engine, inspectors), what a rule
  matches (manager, scanners), which findings are one (HTML, `creds.txt`, diff).
* Report builders keep findings in Go maps and so meet them in any order.

### What makes each part correct

* store: the file is always whole, never loses what it had, and has everything
  once `Close` returned nil;
* manager: a share is complete only if each of its files is, and each walk that
  ends is decided;
* pool: each job taken is called back once, nothing is lost unless something
  stopped the pool, nothing happens after `Scan` returned, and it returns;
* host scan: a host is complete only if it was walked whole, and its error says
  what really happened to the run's context;
* run: whatever path it returns on, everything is closed, and saved if the last save
  succeeds; no host and no error of a host is lost, and it ends if its host scans do;
* discovery: it ends, with no connection left; credentials go only where the user
  said; no target is lost while the context lives;
* outputs: a run without an error has written everything everywhere, and what is
  suppressed is accounted for;
* computations: each comes to what a definition made in another way says, for every
  order and combination of its inputs.

## 2. The modules

| module | what it is |
|---|---|
| `CheckpointData` | keys, progress, the document on disk and both conversions |
| `DurableProgress` | abstract: one durable value, replaced atomically, complete after a clean end |
| `CheckpointStore` | `Store` and the two goroutines that save it, over several runs; implements `DurableProgress` |
| `ShareProgress` | the pending entry of a share and what each call does to it |
| `CheckpointManager` | the manager between a walker and callbacks, for one or two scans of a host |
| `JobDelivery` | abstract: the stages of a job in a pool |
| `WorkerPool` | `WorkerPool.Scan`; implements `JobDelivery` |
| `HostOutcome` | what `RunScan` may learn from `scanHost` under each state of the context |
| `ScanHost` | `scanHost`: extends `WorkerPool` and uses `ShareProgress`; implements `CheckpointManager` |
| `SMBClient` | one connection, its operations, their guards and timers, and `Close` under them |
| `ScanRun` | `RunScan` with its deferred calls, the interface, reporter and saver, and resumed runs |
| `DomainContext` | what is worked out before a controller is asked: domain, controller, endpoint, bind names |
| `LDAPSession` | one session: dials, binds and their retries, RootDSE, search, close |
| `Reachability` | `FilterReachable`: feeder, workers and collector under a context |
| `Discovery` | extends both: the preflight, then `Resolve` |
| `FindingFlow` | a finding from the engine through suppression into up to seven outputs, and their close |
| `ScanSettings` | defaults, profiles, file, flags, checks, read limit, and where files are looked for |
| `Lists` | the elements of a list that belong to a set, in its order: what the loops of the next modules keep |
| `ScanScope` | filters of shares and paths, the walk, the planner and the lookup of planned files |
| `RuleEngine` | loading, validating and matching of rules, and `snablr rules` |
| `FileEvaluation` | `NeedsContent` and `Evaluate`: skips, limits, archives, images, databases; extends `ScanSettings` and `RuleEngine` |
| `FindingScore` | quality, triage and score of the findings of one file |
| `ReportFindings` | merging, correlation, access paths, the entries of the HTML report and of `creds.txt` |
| `ReportDiff` | what a report keeps of a finding, and the comparison of two scans |
| `SeedVerification` | what the seeder plants, and the findings held against it |
| `Analysis` | extends these: one computation, on one input, with what it should come to |
| `*Proofs` | the theorems about the module of that name; `ScanHostProofs` also those about `WorkerPool`, `DiscoveryProofs` about `Reachability`, `DomainContext` and `LDAPSession`, `AnalysisProofs` about the operators that `Analysis` composes |
| `MC*` | model values and small sets for TLC |

They form a chain. `CheckpointStore` shows what marks are worth. `CheckpointManager`
shows what the order of calls may do to a share, for a walker that behaves like
`scanHost`; `ScanHost` is shown to be such a walker (`ImplementsCheckpointManager`).
`ScanRun` takes from `scanHost` only an outcome in `OutcomesUnder(ctx)`; `ScanHost`
is proved to return nothing else (`OutcomeFitsContext`). `ScanHost` takes SMB
operations to return; `SMBClient` shows that they do, and the one case in which a
read may not (`Stuck` in `ScanHost`), so `ScanRun` lets a host scan stay for ever.
There a save is one step that succeeds or fails; how it tears is the matter of
`CheckpointStore`.
`Discovery` is the part of `RunScan` that `ScanRun` takes as three outcomes, and
`FindingFlow` the outputs that `ScanRun` only opens and closes and `WorkerPool` only
sees fail. The other new modules have operators and no state: `FileEvaluation` says
what a job of the pool comes to, `ScanScope` which jobs there are. `Analysis` gives
them the state that TLC needs.

### State and code

* **CheckpointStore.** `mem`, `dirty` are the fields of `Store`; `disk`, `tmp` the
  two files; `ticker` the goroutine of `Start`, `closer` the one that scans and
  calls `Close`; `saving` how far each is in `Save`, with the lock held from the
  test of `dirty` to the rename. A mark is one step under the lock. Writing the
  temporary file is two steps (truncated, written), and each file operation may
  fail (`MaxIOErrors` bounds how often). `ProcessEnd` may come anywhere. `based`
  is history: whether the file descends from this run.
* **CheckpointManager.** `pending` is `Manager.pending`; `walk` says where the
  walk of a share is; `batch` is `queuedThisBatch`; `job` where a file is. A
  callback is two steps because `RecordFileResult` takes the store's lock and then
  the manager's. `pass` counts scans of the same host in one run, which
  deduplication by address or by name allows.
* **WorkerPool.** Channels are sets: workers race for jobs and nothing stated
  depends on their order. A worker is in `select`, `took`, `loaded`, `evaluated`
  or `left`; a load may fail, an evaluation may panic before its callback; the
  recovered panic calls back with an error.
* **ScanHost.** `walker.at` is the place in `scanHost`; `listed` is `fileInputs`,
  `batch` `queuedThisBatch`, `walkErrs` and `hostTimedOut` the variables of those
  names. A full batch is flushed inside the walk's callback, the rest by the loop,
  and the two treat a deadline differently, as in the code (`StopFlush`).
* **SMBClient.** `op` is where each process is in an operation: `beginOperation`
  and `newOperationGuard` (`begun`, `dated`, `sending`), the call (`calling`),
  `finish` (`back`, `halted`). `attached` is `c.conn` and `c.session`, `locked` the
  mutex while `Connect` or `Close` holds it. `timer` and `left` are a guard's timer,
  whose function sets the flag and closes the connection in two steps. `conn` joins
  the socket and the receiver of `third_party/go-smb2`: `broken` is a receiver that
  met the deadline, `ended` one that a successful `Logoff` ended without an error.
  The order of calls inside `ReadFile` and `WalkShare` is left open between mount
  and unmount.
* **ScanRun.** `deferred` is Go's stack of deferred calls, pushed where the code
  says `defer`; `hostErrs` the errors by what they wrap; `ui` the interface's
  program and its cancel function; `progress` the reporter. `store.saver` is the
  saving goroutine, `store.closed` (history, as `RunScan` discards it) what
  `Manager.Close` returned; `ended` is history too.
* **Discovery.** `at` is where a session is between `detectDomainContext` and the
  deferred `Close`, `conns` the connections it has dialled, each open or closed,
  bound or not, `attempts` the bind names left, `sent` (history) the credentials that
  went out. `feeder`, `checker`, `results` and `all` are the goroutines and channels
  of `FilterReachable`: the unbuffered one is the hand-over in `Feed`, the buffered
  one a set. `phase` is the place in the preflight and in `Resolve`. Answers of LDAP,
  DNS and dials are any answer.
* **FindingFlow.** `held` is what each writer was given, `report` what its `Close`
  wrote, `file` its file; `sinks` the outputs that are open and `Rank` the order in
  which `NewWriter` lines them up; `broken` the outputs that fail from now on; `suppressed`
  and `audit` the list of the wrapper and the summary each writer was told;
  `collecting` whether `collectResults` of this host still writes; `observer` what
  `NewEngine` was given. A finding has aspects (`Has`) that rules ask for.
* **Pure parts.** A path is a sequence of names, with `Fold` and `Bare` for case and
  blanks; a pattern a name; sizes are numbers. Where Go's map order decides, an
  operator takes a sequence and `Analysis` takes all of its orders.

## 3. What is checked

### Passing runs

| run | instance | shows |
|---|---|---|
| `checkpoint_store` | one host key with names that collide or have no key, one failing operation, from no file, a foreign file or a version 1 document | the file is never torn (`NeverTorn`), `DurableProgress` is implemented, `Close` returns, and marks reach the disk |
| `checkpoint_manager` | two shares, three files, up to two scans | a complete share has only complete files, in any order of callbacks, batches, aborts and scans; a walk that ends is decided |
| `worker_pool` | two workers, three jobs, queue of two | nil means delivered, `JobDelivery` is implemented (one callback per job, silence after the return), `Scan` returns |
| `scan_host` | two shares, three files, one worker, batch of two, after an earlier run that completed nothing, two of the files, or all | a host marked complete was walked whole, and is reported if nothing stopped the scan; errors fit the context; `CheckpointManager` is implemented; `scanHost` returns unless the sink has failed or a read is stuck |
| `scan_run` | two hosts, two runs, saves that may fail | every return cleans up, and has saved its marks unless the save of `Close` failed; marks were earned; nil accounts for every host; a run whose host scans return ends |
| `smb_client` | `scanHost` and one worker, timeout of two ticks | no timer outlives its operation, an idle connection has no deadline, none is left open; every operation returns though the server may be silent, unless a logoff ends the session under it |
| `discovery` | two hosts and an address, two workers, a dozen sets of options, three machines | searches run on the bound connection and none is left open; the user's word on domain, controller and transport is kept; no target is lost; `Resolve` ends |
| `findings` | three findings, two hosts, up to three outputs, with and without rules and a manifest | nothing is lost without an error, outputs are nested, suppressed findings are counted, no file is left open |
| `analysis` | some 35000 inputs of eight computations | scope, reading, testing, rule paths, score, correlation, the two reports, the comparison and the verification come to what `Analysis` says of each |

The definitions in `Analysis` are made in another way than the code: a file is in
scope by itself and not by the walk to it; a correlation exists where its artifacts are
together, however they are sorted into buckets; two reports agree though they are
built from different orders of the findings.

### Runs that show a disagreement

| run | what the code does |
|---|---|
| `scan_host_lost` | at the time limit a file is recorded complete and its findings are dropped, though "partial results are still written" |
| `scan_run_metrics` | metrics are handed to the writers after they are closed, though the JSON report includes them |
| `smb_client_close` | at the time limit `scanHost` closes the client under its workers and waits for them; a `Logoff` that succeeds leaves the protocol stack without sender and without error, and a worker's next call never returns, though "the scan stops gracefully" |

### Disagreements without a run

The models have the following behaviour too; the runs above except it by name where it
matters.

* A user who stops the scan after the last file was queued, and before the workers took
  it, gets a host marked complete, though resumed runs "should continue from the
  remaining work" (`docs/troubleshooting.md:297`, `internal/app/scan.go:301`).
  `CompletedHostIsReported` speaks of scans that nothing stopped.
* A completed host is skipped before any file is compared, though "resumed scans
  reprocess files whose size or modified timestamp changed"
  (`docs/configuration.md:222`, `internal/app/scan.go:260`).
* The engine is built before the sink and keeps no observer, so the counts of
  validation mode stay zero (`docs/reporting.md:486`, `internal/app/scan.go:139`;
  `NewEngine` in `FindingFlow`).
* The JSON report has no priority of a finding, and the loader of reports does not read
  back that of the share, so that with a baseline each finding that has one is "changed"
  (`internal/diff/loader.go:90`); `SavedReportsCompareAlike` names the fields.
* A run that could not save its checkpoint does not say so: `RunScan` and the saving
  goroutine discard the error of `Save` (`internal/app/scan.go:96`,
  `internal/state/checkpoint.go:75`), so that it may return nil with hosts that the next
  run scans again. `ReturnedRunIsSaved` excepts just that: a last save that failed.
* "Find a domain controller through DNS SRV lookups" (`README.md:446`) works for a
  domain that is known. The fallback that is to find the domain itself by SRV records
  (`internal/discovery/domain.go:34`) finds none: each of its candidates is one that
  an earlier detection would have taken (`SrvIsNeverAsked`, proved).
* A DFS link's server, share and path are put together without a separator
  (`internal/discovery/dfs.go:208`; `CollectDFSUNCs`).
* A path that starts with a blank is never scanned, of two that differ in case in one
  batch only the last is (`Alone` in `ScopeIsExactlyScanned`).
* A marker such as `WindowsImageBackup` at the root of a share is not recognised
  (`internal/backupinspect/inspect.go:105`; `At` in `ReportFindings`), and a backup in
  "System Volume Information" counts as one with a SYSTEM hive (`BackupRank`).
* A database larger than `max_file_size` is read and then passed over
  (`WantedFilesAreReadAndEvaluated`).

### Bounds and why they suffice

* Queue of 1 in `scan_host`, of 2 in `worker_pool` (the code: twice the workers) and
  batches of 2 (the code: 2048): the interesting cases are a full queue, a full batch
  inside the walk and a rest after it; with three files on two shares all of them happen.
* `Recovered`, what an earlier run may have completed when `scan_host` begins: nothing,
  one file of each share (the second share marked or not), or everything. So a share is
  skipped, a file is skipped, and a share has files of both kinds.
* One worker in `scan_host`, two in `worker_pool`: two callbacks at once matter to
  the manager and are covered by `CheckpointManager`, in which every file has its
  own callback and which `ScanHost` implements.
* `MaxFindings` 1: a file with and without findings. `MaxIOErrors` 1: a save that
  fails and the next that succeeds. `MaxPasses` 2: the second scan is what can
  meet leftovers; the proof needs the same bound. `MaxRuns` 2: a run and one that
  resumes it; the theorems about `ScanRun` hold for any number.
* `smb_client` has two processes, as many as it takes for one to clear the
  deadline of the other or to close the connection under it; two ticks let
  operations overlap with timers half run down. The safety theorems hold for any
  workers and timeout.
* `discovery`: two workers and three targets let one worker hold a target while the
  other ends; the options name each authentication method, each transport, and a
  controller with a port, a scheme, both and neither.
* `findings`: `HostLimit` 2, so that a sink can fail at one host and be met again at
  the next; outputs of each kind (printing at once or at the end, with and without a
  summary, the one that leaves its file open) in sets of up to three.
* `analysis`: directories three deep, batches of two files, sizes on both sides of
  each limit, up to three findings of one file or one report, two shares and
  directories for what must not be paired. Every combination is an input of its own.
* No symmetry is used: most runs check liveness or refinement.

### Fairness

* Goroutines that can run do run: weak fairness of each worker, the collector,
  `Scan`, the saver, the main goroutine and the reporter. For `ScanHost` and
  `Discovery` less is enough: some goroutine that can run does.
* Strong fairness of the saver's stop: its select has a ticker and a stop that
  are both ready again and again, and Go picks at random.
* SMB operations return, because each has a timeout (`OperationsReturn`, which
  assumes only that processes and timers run and time passes, never that the server
  answers); reads the client was closed under at the time limit are excepted. A
  walk may fail or be stopped at any time, but nothing forces it to.
* LDAP and DNS requests and dials return, as each has a timeout; the context of
  discovery may live for ever.
* `ScanRun` assumes that a user closes an interface that says the scan is complete,
  not that anyone presses Ctrl-C before. It does not assume that `scanHost` returns:
  with a failed sink or a stuck read it may not (`HostReturns` excepts both). That
  every host scan returns is a condition of `RunEnds` itself (`HostScansReturn`).
  Saves may fail for ever.

## 4. What is proved

TLAPS proves the following for every value of the constants.

* **CheckpointStoreProofs**: types, `NeverTorn`, `CleanMeansSaved`,
  `ClosedIsDurable`, `KeepsProgress`, and that the store implements
  `DurableProgress`. `StoreInv` adds to the properties that nothing of a run
  outlives it but files (`DownInv`), that the two savers take turns (`TurnsInv`),
  that the temporary file about to be renamed is the snapshot of the memory
  (`RenameInv`), and that the memory covers the file (`FileInv`). Without
  `RenameInv` the rename could install anything; without `TurnsInv` the closer
  could return on another goroutine's save.
* **CheckpointManagerProofs**: `CompleteSharesAreScanned` for any shares and
  finite files, and at most two scans. `ManagerInv` compares the count of an entry
  with the files still live (`WalkingInv`, `FinishedInv`): the count may be too
  high, which leaks an entry, but never too low. A third scan is outside the
  proof: there an entry left twice would need a finer count.
* **ScanRunProofs**: types, `EveryReturnCleansUp`, `ReturnedRunIsSaved`,
  `MarkedHostsWereScanned` and `NilAccountsForEveryHost`, for any hosts and number
  of runs. `RunInv` says that the deferred calls are a prefix of one order whose
  length follows from the place in `RunScan` (`StackIsPrefix`, `DepthFitsPc`), that
  what is open has its call on the stack, and a store that no failed `Close` left dirty
  too (`OpenIsDeferred`), and that what the file lacks makes the store dirty, whatever
  save failed (`CleanIsSaved`). `NilIsEarned` and `HostsAccounted`
  follow errors and hosts through the loop.
* **SMBClientProofs**: `TimersEndWithOperations`, `ClosedIsReported`,
  `IdleHasNoDeadline` and `NoConnectionIsLeft`. `Inv` says which operations have a
  timer (`TimerPlace`), that a fired one has closed the connection (`FiredCloses`),
  that a deadline on an open connection belongs to an operation under way, though
  perhaps not to the one that set it (`DeadlineOwned`), and that whoever closed the
  connection has reported it or is still to return (`ClosedAccounted`).
* **ScanHostProofs**, of the pool: types, `CalledBackOnce`, `NilMeansDelivered`,
  `QuietAfterReturn` and `ImplementsJobDelivery`. `PoolInv` says where each job is
  (queue, one worker's hands, results, collector, handled) and that none is
  nowhere while nothing has stopped the pool (`LiveInv`).
  Of the host scan: types, `CompletedHostIsReported`, `OutcomeFitsContext` and
  `ImplementsCheckpointManager`, for any shares, files, workers, batch size and
  checkpoint to resume from. `HostInv` contains `PoolInv` of the pool, which each step of
  the walker keeps because it is a step of the pool or leaves it alone
  (`HostKeepsPool`). To that it adds where the walker is (`WalkerInv`), that the batch
  holds only files of the share at hand (`BatchInv`), that each file the walk has yielded
  is in exactly one of the batch, the pool and the checkpoint (`PlaceInv`), that a share
  is skipped only if the checkpoint has all of it and given up only for a timeout or an
  error (`ShareInv`), which end of which context explains each error (`ContextInv`),
  and that a verdict belongs to a file that was sent (`VerdictInv`). Without
  `PlaceInv` the end of a walk would not mean that its files were seen; without
  `ContextInv` an SMB timeout, which cancels the pool, could pass for the time limit. In
  the refinement each action has a lemma naming the operation of the manager it is
  (`SkipShareRefines` to `CancelRefines`) or that it is none (`SilentRefines`).
* **DiscoveryProofs**: `SearchesAreBound`, `UsersWordIsKept` and `NilMeansChecked` of the
  composition, `FilterIsComplete` and `FilterInventsNothing` of the reachability filter,
  for any options, machines, targets, workers and answers. `ReachInv`, stated for
  any set of targets so that `Resolve` can use it for those it found, says that until
  the filter returns each target is with the feeder, in a worker's hands, in the channel
  or collected, and that no result on its way says what is not so. `SessionInv` says that
  no connection is open before a dial and exactly one, the last, after it
  (`ConnectionInv`); that the endpoint is one the user allows of the controller the
  session has (`EndpointInv`, `ContextInv`); and that no credentials went over a
  transport or by a method that was not asked for (`SentInv`). Without
  `ConnectionInv` a bind that succeeds after a retry could be that of a connection
  already closed. `ResolveInv` joins the two: no filter starts before
  `Resolve` has its targets, and it works on the ones that `Resolve` made unique. What the domain
  detection takes is stated by lemmas (`FirstNamedIsNamed`, `GivenIsTaken`,
  `EndpointIsAsAsked`). "The first that has a name" needs no induction over the list: it
  is the smallest index of a set, which exists because the numbers are well-founded.
* **FindingFlowProofs**: `NothingIsLostSilently`, `OutputsAreNested`,
  `SuppressionIsAudited` and `NoFileIsLeftOpen`, for any findings, aspects, rule lists,
  sets of outputs and number of hosts. `FlowInv` says what is open at each place of
  `RunScan` (`OpenInv`), that no output holds anything but what was offered and not
  suppressed, in that order, nor more than the one before it (`HeldInv`), and that what
  has been written agrees with what is held and counted (`ClosedInv`). Its heart is
  `LossInv`: either each finding is where it belongs (`Lossless`), or the output that
  refused it is open still and will fail again when it is closed, or the run has its
  error. Without it an output that failed in the middle could be followed by a
  successful `Close`.
* **AnalysisProofs**: `SavedReportsCompareAlike`, `RulesStayWithTheConfiguration`,
  `WantedFilesAreReadAndEvaluated`, `TesterShowsWhatTheScanFinds`,
  `MoreEvidenceRaisesTheScore`, `CorrelationIsExact`, `ActionableLocationsAreShown`,
  `ExportedSecretsAreShown`, `VerificationAddsUp` and `ScopeIsExactlyScanned`, for any
  reports, installations, settings, files, rules, findings, seedings, servers, shares and
  filters: every invariant of the run `analysis`. A behaviour is one computation, so the invariant needs no
  strengthening but what the result is of which input; the work is in lemmas about the
  operators.
  A finding that was written and read has its identity and each field it is
  compared by, except the planner's (`RereadKeeps`), and two reports read agree in
  what was added, removed and changed (`ComparesAlike`). The nearest directory above the
  configuration that looks like a checkout is the one taken (`NearestIsRoot`). Each limit
  is a positive number, whatever the profile, the file and the flags say
  (`ProfileLimitsApply`, `DefaultsFill`, `LoadedLimits`, `ConfiguredLimits`), so the read limit covers each inspector that is on
  (`ReadLimitCovers`), and what a worker reads is what the evaluation looks into
  (`NeededIsReadable`, `NeededIsSeen`). The two matchers of metadata differ only in blank
  fragments and directories (`MetadataAgrees`), the two skips in rules for content
  (`SkippedAlike`), and so the tester shows what the scanners find of a plain file
  (`FoundIsShown`). Another finding lowers neither a weight nor a bonus
  (`MoreWeighsMore`, `MoreBonus`, `MoreTags`): what one could suspect, that it takes the
  context's weights away, does not happen (`MoreHasMore`).

  The reports and the seeder work by loops over lists, which the modules write as folds.
  What a fold comes to is an induction over the list; it is done without a theorem about
  all predicates, by the least counterexample of one set (`Counting`, from the
  well-founded order of the numbers): a fold is a function that exists (`FoldExists`) and
  a way from the first element to the last (`FoldRuns`). So a loop that keeps what
  belongs to a set has exactly that (`ThoseHas`), and one that holds each element against
  the best so far ends with one of them, and with a preferred one if the preference is a
  matter of one attribute and any has it (`WinnerIs`, `ActionableIsPreferred`): that an
  actionable finding always stands for its entry (`CanonicalIsActionable`) is why no place
  of one is hidden. Merging keeps one finding of each key (`DedupeKeepsOneEach`), also
  after the correlated ones are added, whose rules no finding has (`AugmentHas`,
  `RulesTellApart`). A correlated finding is made from the artifacts of one bucket
  (`MadeIsComplete`), and where artifacts are together they are in one bucket, because each
  has at most one context of a kind (`OneContext`, `TogetherIsSameBucket`,
  `CompleteIsMade`). What is exported is actionable, is no correlated finding and so is
  among the merged ones of either writer (`ExportedAreShown`). A seeded name that is taken
  gets a number that is free, by the pigeonhole principle (`NumberedIsFree`); so no file is
  planted twice (`PlantedOnce`) and keys and entries are counted alike (`KeysAsEntries`,
  `CountsAgree`).

  The scope of a scan is where most is to be shown, as four parts of the code must agree.
  Of the shares, each name is planned once in whatever case the server, the command line
  and the links of a DFS give it (`KeysOnce`, `PlansAreInScope`); sorting moves the items and
  keeps them (`ByPriorityPermutes`). The walk has an invariant (`Walked`): what is on the
  stack or was visited is not met again and lies under directories that opened, and what a
  visited directory leads to is on the stack, visited or among the files.
  Each turn that finds the stack not empty visits a directory more (`WalkSteps`), and there
  are not more directories than entries, so after as many turns as entries the stack is
  empty or the walk has failed, and each file whose directories may be descended to is met
  (`WalkEnds`, by the deepest of them that was visited). The walker judges directories
  before it sees what is in them, the planner judges the files again: a file that the
  filters let through passes both (`IncludeIs`), and each directory on the way to it may be
  descended to (`DescendsTo`). The batches hold each file once (`BatchesHave`), and the
  lookup of a planned file, which compares lower case without blanks, finds the file itself
  if no other looks like it (`AloneInLower`, `QueuedHas`).

They rest on the named assumptions of the modules: special values differ from
ordinary ones, sets of workers, jobs and files are finite, the queue has room for
one job, a batch for one file, there is a worker to check targets, the resolver's list is
a list (`LDAPAssumption`), and at most one of the two live outputs is asked for
(`FlowAssumption`). `AnalysisAssumption` says what inputs are: sizes are numbers, those of
files not negative; places of an installation are absolute paths; reports and the
findings of a file are lists; a rule has one of the three types and an id that is not the
name of what an inspector finds; a file has the fields that rules and inspectors look
at; the findings that the reports start from are a list, have the fields that a
correlation sets, and have none of the rules `correlation.*`, which only the reports
use; a seeding has a list of categories and a number of files for each.
`ScopeAssumption` says what servers list and filters are: a batch has room for a file; lower
case and blanks are functions of names, of which the second changes nothing when applied
again, and names alike in lower case are alike without the blanks too; a server lists no
share twice; a listing of a share has each path once, has the root, and with each entry the
directories it lies in; paths and filters are sequences of names. TLC evaluates them in every run. The inductive invariants
`HostInv`, `SessionInv` and `FlowInv` were checked by TLC on the instances of the runs
before they were proved.

`CompleteSharesAreScanned` is a theorem about `CheckpointManager`, and
`HostImplementsCheckpointManager` one about `ScanHost`: together they say that the host
scan marks no share whose files did not all succeed. The last step of that argument is
not a theorem of its own, as the prover cannot cite a temporal theorem of a
module under the substitution of a refinement.

Some of what is proved is stated by theorems only and has no run of its own:
`CleanMeansSaved`, `ClosedIsDurable` and `KeepsProgress` of the store,
`CalledBackOnce` and `QuietAfterReturn` of the pool, `ClosedIsReported` of the client,
`FilterIsComplete` and `FilterInventsNothing` of the reachability checks (`discovery`
checks `NilMeansChecked`, which says the first of the composition).
`KeepsProgress` is what `ImplementsDurableProgress` rests on, and `JobDelivery` says of
a job what the two about the pool say.

Only model-checked is all liveness (`CloseReturns`, `MarksBecomeDurable`,
`WalksAreDecided`, `ScanReturns`, `HostReturns`, `OperationsReturn`, `RunEnds`,
`ResolveEnds`), which is beyond this prover.

## 5. What is not modelled

* `BeginShare`: only tests call it. Orders chosen by the planner among files that
  matter alike are left open. Times are values that are equal or not.
* The checkpoint is not synced to the device: a crash is one of the process, not
  of the machine.
* A host has one name. A target given with a port, whose files the walker records
  without it (`internal/smb/walker.go:68`) while `RunScan` uses it with the port, would
  need two names for one host in all modules.
* What regular expressions, decoders and parsers of file formats do with bytes
  (`internal/textdecode`, the patterns of the `*inspect` packages, archives, images and
  SQLite files): a file has attributes that say what is found in it.
* The Kerberos handshake, `auth_gssapi_windows.go`, and the protocols themselves; of the
  vendored SMB stack only what a logoff or a dead receiver does to calls.
* Rendering: the lists and panes of the terminal interface, report layout, texts of
  reasons, log lines, counters of metrics, the artifact inventory and the performance
  section. The seeder's templates and its writes.
* `internal/eval` and `internal/benchmark` count findings against labels in one pass,
  which `SeedVerification` stands for; `pkg/logx` and `internal/version` have no state
  anything depends on.

The full list of parts, with what is left of each, is in `PROJECT.json`.

## 6. Plan

Left of the models: hosts with two names, the order of calls inside `ReadFile` and a
composition of `SMBClient` with `ScanHost`, the counters of validation mode. Each safety
property that a run checks is proved; what is left to TLC is liveness.

Questions that belong to one module share a run; the runs take two or three instances of
two to three actors each.
