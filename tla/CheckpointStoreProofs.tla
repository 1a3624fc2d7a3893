------------------------- MODULE CheckpointStoreProofs -------------------------
(***************************************************************************)
(* For any names, keys, sizes, times and number of failing operations:     *)
(* types, the file is never torn, the dirty flag tells the truth, Close is *)
(* durable, progress is kept, and the store implements DurableProgress.    *)
(***************************************************************************)
EXTENDS CheckpointStore, TLAPS

(***************************************************************************)
(* Lemmas about the data.                                                  *)
(***************************************************************************)
\* Writing a document and loading it gives the same progress back: legacy files
\* stay legacy and every other file keeps its size and time (sortedKeys,
\* legacyFileKeys, sortedFileStates against the loops of Open).
LEMMA RoundTrip ==
    ASSUME NEW p \in Progress
    PROVE  /\ Snapshot(p) \in Document
           /\ Load(Snapshot(p)) = p
<1> DEFINE d == Snapshot(p)
<1>1. \A k \in FileKeys : p.files[k] \in FileState
  BY DEF Progress
<1>2. d.FileStates \in [FileKeys -> Stamp \cup {NoState}]
  BY <1>1 DEF Snapshot, FileState
<1>3. d \in Document
  BY <1>2 DEF Snapshot, Document, Progress
<1>4. \A k \in FileKeys : Load(d).files[k] = p.files[k]
  <2> TAKE k \in FileKeys
  <2>1. CASE p.files[k] = LegacyState
    BY <2>1, DataAssumption DEF Load, Snapshot
  <2>2. CASE p.files[k] # LegacyState
    BY <2>2, DataAssumption DEF Load, Snapshot
  <2> QED
    BY <2>1, <2>2
<1>5. Load(d).files = p.files
  BY <1>4 DEF Load, Progress
<1>6. Load(d).hosts = p.hosts /\ Load(d).shares = p.shares
  BY DEF Load, Snapshot
<1> QED
  BY <1>3, <1>5, <1>6 DEF Load, Progress

\* What Open loads from a document is a progress.
LEMMA LoadType ==
    ASSUME NEW d \in Document
    PROVE  Load(d) \in Progress
<1>1. \A k \in FileKeys : d.FileStates[k] \in Stamp \cup {NoState}
  BY DEF Document
<1> QED
  BY <1>1 DEF Load, Document, Progress, FileState

LEMMA NoProgressType == NoProgress \in Progress
BY DEF NoProgress, Progress, FileState

\* A mark adds at most its own key and takes none away.
LEMMA MarkHostProgress ==
    ASSUME NEW p \in Progress, NEW h \in HostNames
    PROVE  MarkHost(p, h) \in Progress /\ Covers(MarkHost(p, h), p)
<1>1. HostKey(h) \in HostKeys \cup {NoKey}
  BY DEF HostKey, HostKeys
<1> QED
  BY <1>1 DEF MarkHost, Progress, Covers

LEMMA MarkShareProgress ==
    ASSUME NEW p \in Progress, NEW h \in HostNames, NEW s \in ShareNames
    PROVE  MarkShare(p, h, s) \in Progress /\ Covers(MarkShare(p, h, s), p)
<1>1. ShareKey(h, s) \in ShareKeys \cup {NoKey}
  BY DEF ShareKey, ShareKeys, HostKey, HostKeys
<1> QED
  BY <1>1 DEF MarkShare, Progress, Covers

LEMMA MarkFileProgress ==
    ASSUME NEW p \in Progress, NEW h \in HostNames, NEW s \in ShareNames,
           NEW f \in PathNames, NEW t \in Stamp
    PROVE  MarkFile(p, h, s, f, t) \in Progress /\ Covers(MarkFile(p, h, s, f, t), p)
<1>1. ShareKey(h, s) \in ShareKeys \cup {NoKey}
  BY DEF ShareKey, ShareKeys, HostKey, HostKeys
<1>2. FileKey(h, s, f) \in FileKeys \cup {NoKey}
  BY <1>1 DEF FileKey, FileKeys
<1>3. CASE FileKey(h, s, f) = NoKey
  BY <1>3 DEF MarkFile, Covers
<1>4. CASE FileKey(h, s, f) # NoKey
  <2> DEFINE k == FileKey(h, s, f)
             q == MarkFile(p, h, s, f, t)
  <2>1. k \in FileKeys
    BY <1>2, <1>4
  <2>2. q = [p EXCEPT !.files[k] = t]
    BY <1>4 DEF MarkFile
  <2> HIDE DEF k, q
  <2>3. q.files = [p.files EXCEPT ![k] = t] /\ q.hosts = p.hosts /\ q.shares = p.shares
    BY <2>2 DEF Progress
  <2>4. t \in FileState /\ t # NoState
    BY DataAssumption DEF FileState
  <2>5. q \in Progress
    BY <2>1, <2>2, <2>4 DEF Progress
  <2>6. Covers(q, p)
    BY <2>1, <2>3, <2>4 DEF Covers, Progress
  <2> QED
    BY <2>5, <2>6 DEF q
<1> QED
  BY <1>3, <1>4

LEMMA CoversReflexive == ASSUME NEW p PROVE Covers(p, p)
BY DEF Covers

LEMMA CoversTransitive ==
    ASSUME NEW p, NEW q, NEW r, Covers(q, p), Covers(r, q)
    PROVE  Covers(r, p)
BY DEF Covers
-------------------------------------------------------------------------------
(***************************************************************************)
(* The invariant holds at first and is kept by every step.                 *)
(***************************************************************************)
LEMMA LegacyDocumentType == LegacyDocument \in Document
<1>1. Snapshot(NoProgress) \in Document
  BY NoProgressType, RoundTrip
<1> QED
  BY <1>1 DEF LegacyDocument, Document

LEMMA InitStoreInv == Init => StoreInv
<1> SUFFICES ASSUME Init PROVE StoreInv
  OBVIOUS
<1> USE DEF Init, NewRun
<1>1. TypeOK
  <2>1. disk \in Document \cup {Absent, Foreign, Torn}
    BY LegacyDocumentType
  <2>2. saving \in [Savers -> SavePhase]
    BY DEF SavePhase
  <2>3. errs \in 0 .. MaxIOErrors
    BY StoreAssumption
  <2> QED
    BY <2>1, <2>2, <2>3, NoProgressType DEF TypeOK
<1>2. DownInv /\ TurnsInv /\ RenameInv /\ CloseInv
  BY DEF DownInv, TurnsInv, RenameInv, CloseInv, Returned, Savers
<1>3. FileInv
  BY LegacyDocumentType, StoreAssumption DEF FileInv, NeverTorn, CleanMeansSaved
<1> QED
  BY <1>1, <1>2, <1>3 DEF StoreInv

\* A mark under the lock keeps the invariant, whatever progress it leads to.
LEMMA MarkKeepsStoreInv ==
    ASSUME StoreInv, NEW p \in Progress, Covers(p, mem), Mark(p)
    PROVE  StoreInv'
<1> USE DEF StoreInv, TypeOK, Mark
<1>1. TypeOK'
  OBVIOUS
<1>2. DownInv' /\ TurnsInv'
  BY DEF DownInv, TurnsInv, NewRun, Returned
<1>3. RenameInv'
  BY DEF RenameInv, Locked
<1>4. FileInv'
  BY CoversTransitive DEF FileInv, NeverTorn, CleanMeansSaved
<1>5. CloseInv'
  BY DEF CloseInv
<1> QED
  BY <1>1, <1>2, <1>3, <1>4, <1>5

LEMMA MarksKeepStoreInv == StoreInv /\ Marks => StoreInv'
<1> SUFFICES ASSUME StoreInv, Marks PROVE StoreInv'
  OBVIOUS
<1>1. mem \in Progress
  BY DEF StoreInv, TypeOK
<1>2. CASE \E h \in HostNames : MarkHostComplete(h)
  BY <1>1, <1>2, MarkHostProgress, MarkKeepsStoreInv DEF MarkHostComplete
<1>3. CASE \E h \in HostNames, s \in ShareNames : MarkShareComplete(h, s)
  BY <1>1, <1>3, MarkShareProgress, MarkKeepsStoreInv DEF MarkShareComplete
<1>4. CASE \E h \in HostNames, s \in ShareNames, f \in PathNames, t \in Stamp :
              MarkFileComplete(h, s, f, t)
  BY <1>1, <1>4, MarkFileProgress, MarkKeepsStoreInv DEF MarkFileComplete
<1> QED
  BY <1>2, <1>3, <1>4 DEF Marks

\* The start and the end of a run.
LEMMA RunKeepsStoreInv ==
    StoreInv /\ (OpenFresh \/ OpenResume \/ Start \/ ProcessEnd \/ CancelContext)
        => StoreInv'
<1> SUFFICES ASSUME StoreInv,
                    OpenFresh \/ OpenResume \/ Start \/ ProcessEnd \/ CancelContext
             PROVE  StoreInv'
  OBVIOUS
<1> USE DEF StoreInv, TypeOK, DownInv, TurnsInv, NewRun, RenameInv, CloseInv,
            Returned, Savers, SavePhase
<1>1. CASE OpenFresh
  BY <1>1, NoProgressType DEF OpenFresh, FileInv, NeverTorn, CleanMeansSaved
<1>2. CASE OpenResume
  BY <1>2, LoadType, CoversReflexive DEF OpenResume, FileInv, NeverTorn, CleanMeansSaved
<1>3. CASE Start
  BY <1>3 DEF Start, FileInv, NeverTorn, CleanMeansSaved
<1>4. CASE ProcessEnd
  BY <1>4, NoProgressType DEF ProcessEnd, FileInv, NeverTorn, CleanMeansSaved
<1>5. CASE CancelContext
  BY <1>5 DEF CancelContext, FileInv, NeverTorn, CleanMeansSaved
<1> QED
  BY <1>1, <1>2, <1>3, <1>4, <1>5

\* The loop of the ticker and the steps of Close.
LEMMA LoopKeepsStoreInv ==
    StoreInv /\ (Tick \/ TickerStop \/ TickerExit \/ CloseStop \/ CloseSave \/ CloseReturn)
        => StoreInv'
<1> SUFFICES ASSUME StoreInv,
                    Tick \/ TickerStop \/ TickerExit \/ CloseStop \/ CloseSave \/ CloseReturn
             PROVE  StoreInv'
  OBVIOUS
<1> USE DEF StoreInv, TypeOK, DownInv, TurnsInv, NewRun, RenameInv, CloseInv,
            Returned, Savers, SavePhase, FileInv, NeverTorn, CleanMeansSaved
<1>1. CASE Tick
  BY <1>1 DEF Tick
<1>2. CASE TickerStop
  BY <1>2 DEF TickerStop
<1>3. CASE TickerExit
  BY <1>3 DEF TickerExit
<1>4. CASE CloseStop
  BY <1>4 DEF CloseStop
<1>5. CASE CloseSave
  BY <1>5 DEF CloseSave
<1>6. CASE CloseReturn
  BY <1>6 DEF CloseReturn
<1> QED
  BY <1>1, <1>2, <1>3, <1>4, <1>5, <1>6

\* Store.Save: the only steps that touch the files.
LEMMA SaveKeepsStoreInv ==
    ASSUME StoreInv, NEW x \in Savers, Save(x)
    PROVE  StoreInv'
<1> USE DEF StoreInv, TypeOK, DownInv, TurnsInv, NewRun, CloseInv, Returned,
            Savers, SavePhase, FileInv, NeverTorn, CleanMeansSaved
<1>1. up /\ (x = "closer" => closer = "last") /\ (x = "ticker" => ticker # "done")
  BY DEF Save, SaveSkip, SaveOpen, SaveWrite, SaveRename, SaveOpenFails, SaveFails
<1>2. CASE SaveSkip(x)
  BY <1>1, <1>2 DEF SaveSkip, RenameInv
<1>3. CASE SaveOpen(x)
  BY <1>1, <1>3 DEF SaveOpen, RenameInv, Locked
<1>4. CASE SaveWrite(x)
  <2>1. Snapshot(mem) \in Document
    BY RoundTrip
  <2> QED
    BY <1>1, <1>4, <2>1 DEF SaveWrite, RenameInv
<1>5. CASE SaveRename(x)
  <2>1. tmp = Snapshot(mem) /\ tmp \in Document /\ Load(tmp) = mem
    BY <1>5, RoundTrip DEF SaveRename, RenameInv
  <2>2. tmp # Torn
    BY <2>1, StoreAssumption
  <2>3. TypeOK' /\ DownInv' /\ TurnsInv' /\ CloseInv'
    BY <1>1, <1>5, <2>1 DEF SaveRename
  <2>4. FileInv'
    BY <1>1, <1>5, <2>1, <2>2, CoversReflexive DEF SaveRename
  <2>5. RenameInv'
    BY <1>1, <1>5 DEF SaveRename, RenameInv
  <2> QED
    BY <2>3, <2>4, <2>5
<1>6. CASE SaveOpenFails(x)
  BY <1>1, <1>6, StoreAssumption DEF SaveOpenFails, RenameInv
<1>7. CASE SaveFails(x)
  BY <1>1, <1>7, StoreAssumption DEF SaveFails, RenameInv
<1> QED
  BY <1>2, <1>3, <1>4, <1>5, <1>6, <1>7 DEF Save

LEMMA StutterKeepsStoreInv == StoreInv /\ UNCHANGED vars => StoreInv'
BY DEF vars, StoreInv, TypeOK, DownInv, TurnsInv, NewRun, RenameInv, CloseInv,
       Returned, FileInv, NeverTorn, CleanMeansSaved

LEMMA StepKeepsStoreInv == StoreInv /\ [Next]_vars => StoreInv'
<1> SUFFICES ASSUME StoreInv, [Next]_vars PROVE StoreInv'
  OBVIOUS
<1>1. CASE Ticker
  BY <1>1, LoopKeepsStoreInv, SaveKeepsStoreInv DEF Ticker, Savers
<1>2. CASE Closer
  BY <1>2, LoopKeepsStoreInv, SaveKeepsStoreInv DEF Closer, Savers
<1> QED
  BY <1>1, <1>2, RunKeepsStoreInv, MarksKeepStoreInv, StutterKeepsStoreInv DEF Next

THEOREM StoreInvariant == Spec => []StoreInv
BY InitStoreInv, StepKeepsStoreInv, PTL DEF Spec
-------------------------------------------------------------------------------
(***************************************************************************)
(* The properties.                                                         *)
(***************************************************************************)
\* The state of the store keeps its types: no key is ever empty.
THEOREM StoreTypes == Spec => []TypeOK
<1>1. StoreInv => TypeOK
  BY DEF StoreInv
<1> QED
  BY <1>1, StoreInvariant, PTL

\* No end of the process, and no failing operation, leaves a torn checkpoint.
THEOREM StoreNeverTorn == Spec => []NeverTorn
<1>1. StoreInv => NeverTorn
  BY DEF StoreInv, FileInv
<1> QED
  BY <1>1, StoreInvariant, PTL

\* A clean store has nothing the file does not have.
THEOREM StoreCleanMeansSaved == Spec => []CleanMeansSaved
<1>1. StoreInv => CleanMeansSaved
  BY DEF StoreInv, FileInv
<1> QED
  BY <1>1, StoreInvariant, PTL

\* When Close returns nil, all the run completed is on disk.
THEOREM StoreClosedIsDurable == Spec => []ClosedIsDurable
<1>1. StoreInv => ClosedIsDurable
  BY DEF StoreInv, CloseInv, ClosedIsDurable
<1> QED
  BY <1>1, StoreInvariant, PTL

\* No step of a run loses what the file has.
THEOREM StoreKeepsProgress == Spec => KeepsProgress
<1>1. StoreInv /\ [Next]_vars =>
         [(up /\ based) => /\ disk' \in Document
                          /\ Covers(Load(disk'), Load(disk))]_vars
  <2> SUFFICES ASSUME StoreInv, Next, up, based
               PROVE  disk' \in Document /\ Covers(Load(disk'), Load(disk))
    BY DEF vars
  <2>1. disk \in Document /\ Covers(mem, Load(disk)) /\ mem \in Progress
    BY DEF StoreInv, FileInv, TypeOK
  <2>2. ASSUME NEW x \in Savers, Save(x), disk' # disk
        PROVE  disk' = Snapshot(mem)
    BY <2>2 DEF Save, SaveSkip, SaveOpen, SaveWrite, SaveRename, SaveOpenFails,
                SaveFails, StoreInv, RenameInv
  <2>3. disk' = disk \/ disk' = Snapshot(mem)
    BY <2>2 DEF Next, OpenFresh, OpenResume, Start, ProcessEnd, Marks, Mark,
           MarkHostComplete, MarkShareComplete, MarkFileComplete, CancelContext,
           Ticker, Closer, Tick, TickerStop, TickerExit, CloseStop, CloseSave,
           CloseReturn, Savers
  <2> QED
    BY <2>1, <2>3, RoundTrip, CoversReflexive
<1> QED
  BY <1>1, StoreInvariant, PTL DEF Spec, KeepsProgress
-------------------------------------------------------------------------------
(***************************************************************************)
(* The refinement.                                                         *)
(***************************************************************************)
\* The rename makes the run's progress durable; every other step of Save is
\* invisible.
LEMMA SaveRefines ==
    ASSUME StoreInv, NEW x \in Savers, Save(x)
    PROVE  [Abstract!ANext]_(Abstract!avars)
<1> USE DEF Abstract!avars
<1>1. up /\ up' = up /\ closer # "closed" /\ closer' = closer /\ mem' = mem
  BY DEF Save, SaveSkip, SaveOpen, SaveWrite, SaveRename, SaveOpenFails, SaveFails,
         StoreInv, DownInv, TurnsInv, NewRun, Returned, Savers
<1>2. Phase = "up" /\ Phase' = "up"
  BY <1>1 DEF Phase
<1>3. CASE SaveRename(x)
  <2>1. tmp = Snapshot(mem) /\ mem \in Progress
    BY <1>3 DEF SaveRename, StoreInv, RenameInv, TypeOK
  <2>2. disk' \in Document /\ Load(disk') = mem
    BY <1>3, <2>1, RoundTrip DEF SaveRename
  <2>3. Content' = mem
    BY <2>2 DEF Content
  <2>4. Abstract!Persist
    BY <1>1, <1>2, <2>3 DEF Abstract!Persist
  <2> QED
    BY <2>4 DEF Abstract!ANext
<1>4. CASE ~SaveRename(x)
  <2>1. disk' = disk
    BY <1>4 DEF Save, SaveSkip, SaveOpen, SaveWrite, SaveOpenFails, SaveFails
  <2>2. Content' = Content
    BY <2>1 DEF Content
  <2> QED
    BY <1>1, <1>2, <2>2
<1> QED
  BY <1>3, <1>4

LEMMA MarksRefine == StoreInv /\ Marks => Abstract!ANext
<1> SUFFICES ASSUME StoreInv, Marks PROVE Abstract!ANext
  OBVIOUS
<1>1. up /\ up' = up /\ closer = "scanning" /\ closer' = closer /\ disk' = disk
  BY DEF Marks, Mark, MarkHostComplete, MarkShareComplete, MarkFileComplete
<1>2. Phase = "up" /\ Phase' = "up" /\ Content' = Content
  BY <1>1 DEF Phase, Content
<1>3. \/ \E h \in HostNames : mem' = MarkHost(mem, h)
      \/ \E h \in HostNames, s \in ShareNames : mem' = MarkShare(mem, h, s)
      \/ \E h \in HostNames, s \in ShareNames, f \in PathNames, t \in Stamp :
            mem' = MarkFile(mem, h, s, f, t)
  BY DEF Marks, Mark, MarkHostComplete, MarkShareComplete, MarkFileComplete
<1>4. Abstract!Complete
  BY <1>2, <1>3 DEF Abstract!Complete, Abstract!MarkHost, Abstract!MarkShare,
     Abstract!MarkFile, Abstract!HostKey, Abstract!ShareKey, Abstract!FileKey,
     Abstract!Stamp, MarkHost, MarkShare, MarkFile, HostKey, ShareKey, FileKey, Stamp
<1> QED
  BY <1>4 DEF Abstract!ANext

LEMMA RunRefines ==
    StoreInv /\ (OpenFresh \/ OpenResume \/ Start \/ ProcessEnd \/ CancelContext)
        => [Abstract!ANext]_(Abstract!avars)
<1> SUFFICES ASSUME StoreInv,
                    OpenFresh \/ OpenResume \/ Start \/ ProcessEnd \/ CancelContext
             PROVE  [Abstract!ANext]_(Abstract!avars)
  OBVIOUS
<1> USE DEF Abstract!avars, Abstract!ANext
<1>1. Abstract!NoProgress = NoProgress /\ Abstract!Progress = Progress
  BY DEF Abstract!NoProgress, NoProgress, Abstract!Progress, Progress,
     Abstract!HostKeys, HostKeys, Abstract!ShareKeys, ShareKeys, Abstract!FileKeys,
     FileKeys, Abstract!FileState, FileState, Abstract!Stamp, Stamp
<1>2. disk' = disk
  BY DEF OpenFresh, OpenResume, Start, ProcessEnd, CancelContext
<1>3. Content' = Content
  BY <1>2 DEF Content
<1>4. CASE OpenFresh \/ OpenResume
  <2>1. Phase = "down" /\ Phase' = "up"
    BY <1>4 DEF OpenFresh, OpenResume, Phase, StoreInv, DownInv, NewRun
  <2>2. mem' \in {NoProgress, Content} \cap Progress
    BY <1>4, NoProgressType, LoadType DEF OpenFresh, OpenResume, Content
  <2>3. Abstract!Begin
    BY <1>1, <1>3, <2>1, <2>2 DEF Abstract!Begin
  <2> QED
    BY <2>3
<1>5. CASE Start \/ CancelContext
  <2>1. mem' = mem /\ Phase' = Phase
    BY <1>5 DEF Start, CancelContext, Phase
  <2> QED
    BY <1>3, <2>1
<1>6. CASE ProcessEnd
  <2>1. Phase # "down" /\ Phase' = "down" /\ mem' = NoProgress
    BY <1>6 DEF ProcessEnd, Phase
  <2>2. Abstract!End
    BY <1>1, <1>3, <2>1 DEF Abstract!End
  <2> QED
    BY <2>2
<1> QED
  BY <1>4, <1>5, <1>6

LEMMA LoopRefines ==
    StoreInv /\ (Tick \/ TickerStop \/ TickerExit \/ CloseStop \/ CloseSave \/ CloseReturn)
        => [Abstract!ANext]_(Abstract!avars)
<1> SUFFICES ASSUME StoreInv,
                    Tick \/ TickerStop \/ TickerExit \/ CloseStop \/ CloseSave \/ CloseReturn
             PROVE  [Abstract!ANext]_(Abstract!avars)
  OBVIOUS
<1> USE DEF Abstract!avars, Abstract!ANext
<1>1. disk' = disk /\ mem' = mem /\ up /\ up'
  BY DEF Tick, TickerStop, TickerExit, CloseStop, CloseSave, CloseReturn
<1>2. Content' = Content
  BY <1>1 DEF Content
<1>3. CASE CloseReturn /\ saving["closer"] = "none"
  <2>1. Phase = "up" /\ Phase' = "clean"
    BY <1>3 DEF CloseReturn, Phase
  <2>2. mem \in {Content, NoProgress}
    BY <1>3 DEF CloseReturn, StoreInv, CloseInv, Content
  <2>3. Abstract!NoProgress = NoProgress
    BY DEF Abstract!NoProgress, NoProgress, Abstract!HostKeys, HostKeys,
       Abstract!ShareKeys, ShareKeys, Abstract!FileKeys, FileKeys
  <2>4. Abstract!CloseClean
    BY <1>1, <1>2, <2>1, <2>2, <2>3 DEF Abstract!CloseClean
  <2> QED
    BY <2>4
<1>4. CASE ~(CloseReturn /\ saving["closer"] = "none")
  <2>1. Phase' = Phase
    BY <1>4 DEF Tick, TickerStop, TickerExit, CloseStop, CloseSave, CloseReturn,
       Phase, StoreInv, TypeOK, TurnsInv, Savers, Returned
  <2> QED
    BY <1>1, <1>2, <2>1
<1> QED
  BY <1>3, <1>4

\* What the scan may rely on: however the goroutines, the lock and the failures
\* interleave, the checkpoint behaves as one durable value that is replaced
\* atomically by the run's progress.
THEOREM StoreImplementsDurableProgress == Spec => ImplementsDurableProgress
<1>1. Init => Abstract!AInit
  BY DEF Init, Phase, Abstract!AInit, Abstract!NoProgress, NoProgress,
     Abstract!HostKeys, HostKeys, Abstract!ShareKeys, ShareKeys,
     Abstract!FileKeys, FileKeys
<1>2. StoreInv /\ [Next]_vars => [Abstract!ANext]_(Abstract!avars)
  <2> SUFFICES ASSUME StoreInv, [Next]_vars PROVE [Abstract!ANext]_(Abstract!avars)
    OBVIOUS
  <2>1. CASE UNCHANGED vars
    BY <2>1 DEF vars, Abstract!avars, Content, Phase
  <2>2. CASE Ticker
    BY <2>2, LoopRefines, SaveRefines DEF Ticker, Savers
  <2>3. CASE Closer
    BY <2>3, LoopRefines, SaveRefines DEF Closer, Savers
  <2> QED
    BY <2>1, <2>2, <2>3, RunRefines, MarksRefine DEF Next
<1> QED
  BY <1>1, <1>2, StoreInvariant, PTL DEF Spec, ImplementsDurableProgress, Abstract!ASpec
===============================================================================
