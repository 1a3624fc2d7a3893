------------------------ MODULE CheckpointManagerProofs ------------------------
(***************************************************************************)
(* For any shares and files, and a host scanned once or twice: the types,  *)
(* and a complete share has no file that is not.                           *)
(*                                                                         *)
(* The counts of the entries are compared with sets of files, so every     *)
(* step that moves a file needs the cardinality of a set with one element  *)
(* more or less.                                                           *)
(***************************************************************************)
EXTENDS CheckpointManager, FiniteSetTheorems, TLAPS

LEMMA FileSets ==
    ASSUME NEW s \in Shares
    PROVE  /\ IsFiniteSet(Live(s)) /\ Cardinality(Live(s)) \in Nat
           /\ IsFiniteSet(Uncounted(s)) /\ Cardinality(Uncounted(s)) \in Nat
<1>1. Live(s) \subseteq Files /\ Uncounted(s) \subseteq Files
  BY DEF Live, Uncounted, FilesOf
<1>2. IsFiniteSet(Live(s)) /\ IsFiniteSet(Uncounted(s))
  BY <1>1, FS_Subset, ManagerAssumption
<1> QED
  BY <1>2, FS_CardinalityType

LEMMA NextFileSets ==
    ASSUME NEW s \in Shares
    PROVE  /\ IsFiniteSet(Live(s)') /\ Cardinality(Live(s)') \in Nat
           /\ IsFiniteSet(Uncounted(s)') /\ Cardinality(Uncounted(s)') \in Nat
<1>1. Live(s)' \subseteq Files /\ Uncounted(s)' \subseteq Files
  BY DEF Live, Uncounted, FilesOf
<1>2. IsFiniteSet(Live(s)') /\ IsFiniteSet(Uncounted(s)')
  BY <1>1, FS_Subset, ManagerAssumption
<1> QED
  BY <1>2, FS_CardinalityType

\* The entries after each of the manager's methods.
LEMMA EntryOperations ==
    ASSUME NEW e \in Entry
    PROVE  /\ NewEntry \in Entry
           /\ \A n \in Nat : Added(e, n) \in Entry
                             /\ Added(e, n).remaining = e.remaining + n
                             /\ Added(e, n).failed = e.failed
                             /\ Added(e, n).finished = e.finished
           /\ Ended(e) \in Entry
           /\ Ended(e).remaining = e.remaining /\ Ended(e).failed = e.failed
           /\ Ended(e).finished
           /\ \A ok \in BOOLEAN : Counted(e, ok) \in Entry
                                  /\ Counted(e, ok).remaining = e.remaining - 1
                                  /\ Counted(e, ok).finished = e.finished
                                  /\ (Counted(e, ok).failed <=> e.failed \/ ~ok)
<1>1. Present(e) = e
  BY EntryAssumption DEF Present
<1>2. NewEntry \in Entry
  BY DEF NewEntry, Entry
<1>3. \A n \in Nat : Added(e, n) \in Entry
                             /\ Added(e, n).remaining = e.remaining + n
                             /\ Added(e, n).failed = e.failed
                             /\ Added(e, n).finished = e.finished
  BY <1>1 DEF Added, Entry
<1>4. /\ Ended(e) \in Entry
      /\ Ended(e).remaining = e.remaining /\ Ended(e).failed = e.failed
      /\ Ended(e).finished
  BY <1>1 DEF Ended, Entry
<1>5. ASSUME NEW ok \in BOOLEAN
      PROVE  Counted(e, ok) \in Entry
             /\ Counted(e, ok).remaining = e.remaining - 1
             /\ Counted(e, ok).finished = e.finished
             /\ (Counted(e, ok).failed <=> e.failed \/ ~ok)
  <2> DEFINE bad == e.failed \/ ~ok
             r   == e.remaining - 1
  <2>1. bad \in BOOLEAN /\ r \in Int
    BY DEF Entry
  <2>2. Counted(e, ok) = [e EXCEPT !.remaining = r, !.failed = bad]
    BY DEF Counted
  <2> HIDE DEF bad, r
  <2>3. Counted(e, ok) \in Entry /\ Counted(e, ok).remaining = r
        /\ Counted(e, ok).finished = e.finished /\ Counted(e, ok).failed = bad
    BY <2>1, <2>2 DEF Entry
  <2> QED
    BY <2>3 DEF bad, r
<1> QED
  BY <1>2, <1>3, <1>4, <1>5

\* A share none of whose files or flags move keeps its part of the invariant.
LEMMA Untouched ==
    ASSUME ManagerInv, NEW t \in Shares, pass' = pass,
           pending'[t] = pending[t], walk'[t] = walk[t],
           walk[t] = "walking" => batch' = batch,
           \A f \in FilesOf(t) : job'[f] = job[f] /\ (f \in filesDone' <=> f \in filesDone)
    PROVE  ShareInv(t)'
<1>1. Live(t)' = Live(t)
  BY DEF Live, FilesOf
<1>2. Uncounted(t)' = Uncounted(t)
  BY DEF Uncounted, FilesOf
<1>3. Count(t)' = Count(t)
  BY DEF Count
<1>4. FilesOf(t)' = FilesOf(t)
  BY DEF FilesOf
<1>5. ShareInv(t)
  BY DEF ManagerInv
<1>6. Sound(t)' <=> Sound(t)
  BY <1>2, <1>3 DEF Sound
<1>7. Overcounts(t, 0)' <=> Overcounts(t, 0)
  BY <1>1, <1>3 DEF Overcounts
<1>8. CASE walk[t] \in {"todo", "skipped"}
  BY <1>3, <1>4, <1>5, <1>6, <1>8 DEF ShareInv, WaitingInv
<1>9. CASE walk[t] = "walking"
  <2>1. Overcounts(t, batch)' <=> Overcounts(t, batch)
    BY <1>1, <1>3, <1>9 DEF Overcounts
  <2>2. FailuresNoted(t)' <=> FailuresNoted(t)
    BY <1>4 DEF FailuresNoted, FilesOf
  <2> QED
    BY <1>1, <1>3, <1>5, <1>6, <1>9, <2>1, <2>2 DEF ShareInv, WalkingInv
<1>10. CASE walk[t] = "finished"
  BY <1>3, <1>5, <1>6, <1>7, <1>10 DEF ShareInv, FinishedInv
<1>11. CASE walk[t] = "aborted"
  BY <1>5, <1>11 DEF ShareInv
<1> QED
  BY <1>8, <1>9, <1>10, <1>11 DEF ManagerInv, TypeOK, WalkPhase, ShareInv

LEMMA InitManagerInv == Init => ManagerInv
<1> SUFFICES ASSUME Init PROVE ManagerInv
  OBVIOUS
<1> USE DEF Init, NewPass
<1>1. TypeOK
  <2>1. pass \in 1 .. MaxPasses /\ batch \in Nat
    BY ManagerAssumption
  <2>2. pending \in [Shares -> Entry \cup {NoEntry}]
    OBVIOUS
  <2>3. walk \in [Shares -> WalkPhase] /\ job \in [Files -> JobPhase]
    BY DEF WalkPhase, JobPhase
  <2>4. sharesDone \subseteq Shares /\ filesDone \subseteq Files /\ cancelled \in BOOLEAN
    OBVIOUS
  <2> QED
    BY <2>1, <2>2, <2>3, <2>4 DEF TypeOK
<1>2. WalkInv /\ JobInv
  BY DEF WalkInv, JobInv
<1>3. \A s \in Shares : ShareInv(s)
  BY DEF ShareInv, WaitingInv, FilesOf
<1>4. CompleteSharesAreScanned
  BY DEF CompleteSharesAreScanned
<1> QED
  BY <1>1, <1>2, <1>3, <1>4 DEF ManagerInv
-------------------------------------------------------------------------------
(***************************************************************************)
(* The walk.                                                               *)
(***************************************************************************)
LEMMA SkipShareStep ==
    ASSUME ManagerInv, NEW s \in Shares, SkipShare(s)
    PROVE  ManagerInv'
<1> USE DEF SkipShare
<1>1. TypeOK'
  BY DEF ManagerInv, TypeOK, WalkPhase
<1>2. WalkInv' /\ JobInv'
  BY DEF ManagerInv, WalkInv, JobInv, Idle, TypeOK
<1>3. ASSUME NEW t \in Shares, t # s PROVE ShareInv(t)'
  BY <1>3, Untouched DEF ManagerInv, TypeOK
<1>4. ShareInv(s)'
  BY DEF ManagerInv, TypeOK, ShareInv, WaitingInv, Count, Sound, Uncounted, FilesOf
<1>5. CompleteSharesAreScanned'
  BY DEF ManagerInv, CompleteSharesAreScanned, FilesOf
<1> QED
  BY <1>1, <1>2, <1>3, <1>4, <1>5 DEF ManagerInv

LEMMA StartShareStep ==
    ASSUME ManagerInv, NEW s \in Shares, StartShare(s)
    PROVE  ManagerInv'
<1> USE DEF StartShare
<1> DEFINE e == pending[s]
<1>1. /\ TypeOK /\ e \in Entry \cup {NoEntry}
      /\ batch = 0 /\ WaitingInv(s)
  BY DEF ManagerInv, TypeOK, WalkInv, ShareInv
<1>2. Present(e) \in Entry /\ (e # NoEntry => Present(e) = e)
      /\ (e = NoEntry => Present(e) = NewEntry)
  BY <1>1, EntryOperations DEF Present, NewEntry, Entry
<1>3. TypeOK'
  BY <1>1, <1>2 DEF TypeOK, WalkPhase
<1>4. WalkInv' /\ JobInv'
  BY <1>1 DEF ManagerInv, WalkInv, JobInv, Idle, TypeOK
<1>5. ASSUME NEW t \in Shares, t # s PROVE ShareInv(t)'
  BY <1>1, <1>5, Untouched DEF TypeOK
<1>6. ShareInv(s)'
  <2>1. Live(s)' = {}
    BY <1>1 DEF WaitingInv, Live, FilesOf
  <2>2. Cardinality(Live(s)') = 0
    BY <2>1, FS_EmptySet
  <2>3. walk'[s] = "walking" /\ pending'[s] = Present(e) /\ batch' = 0
    BY <1>1 DEF TypeOK
  <2>4. CASE e = NoEntry
    <3>1. Count(s)' = 0 /\ pending'[s] # NoEntry /\ ~pending'[s].finished
      BY <1>2, <2>3, <2>4, EntryAssumption DEF Count, NewEntry
    <3>2. FailuresNoted(s)'
      BY <1>1 DEF WaitingInv, FailuresNoted, FilesOf
    <3> QED
      BY <2>2, <2>3, <3>1, <3>2 DEF ShareInv, WalkingInv
  <2>5. CASE e # NoEntry
    <3>1. pending'[s] = e /\ Count(s)' = Count(s) /\ Count(s) \in Int /\ Count(s) > 0
          /\ pass' = 2
      BY <1>1, <1>2, <2>3, <2>5 DEF WaitingInv, Count, Entry
    <3>2. Overcounts(s, batch)'
      BY <2>2, <2>3, <3>1 DEF Overcounts
    <3>3. Sound(s)'
      BY <1>1, <2>5, <3>1 DEF WaitingInv, Sound, Uncounted, FilesOf
    <3> QED
      BY <2>2, <2>3, <3>1, <3>2, <3>3 DEF ShareInv, WalkingInv
  <2> QED
    BY <2>4, <2>5
<1>7. CompleteSharesAreScanned'
  BY DEF ManagerInv, CompleteSharesAreScanned, FilesOf
<1> QED
  BY <1>3, <1>4, <1>5, <1>6, <1>7 DEF ManagerInv

LEMMA SkipFileStep ==
    ASSUME ManagerInv, NEW f \in Files, SkipFile(f)
    PROVE  ManagerInv'
<1> USE DEF SkipFile
<1> DEFINE s == shareOf[f]
<1>1. TypeOK /\ s \in Shares /\ f \in FilesOf(s)
  BY ManagerAssumption DEF ManagerInv, FilesOf
<1>2. TypeOK'
  BY <1>1 DEF TypeOK, JobPhase
<1>3. WalkInv' /\ JobInv'
  BY <1>1 DEF ManagerInv, WalkInv, JobInv, Idle, TypeOK
<1>4. ASSUME NEW t \in Shares, t # s PROVE ShareInv(t)'
  BY <1>1, <1>4, Untouched DEF TypeOK, FilesOf
<1>5. ShareInv(s)'
  <2>1. Live(s)' = Live(s)
    BY <1>1 DEF Live, FilesOf, TypeOK
  <2>2. Uncounted(s)' = Uncounted(s)
    BY <1>1 DEF Uncounted, FilesOf, TypeOK
  <2>3. Count(s)' = Count(s)
    BY DEF Count
  <2>4. FailuresNoted(s) => FailuresNoted(s)'
    BY <1>1 DEF FailuresNoted, FilesOf, TypeOK
  <2>5. WalkingInv(s)
    BY <1>1 DEF ManagerInv, ShareInv
  <2>6. WalkingInv(s)'
    BY <2>1, <2>2, <2>3, <2>4, <2>5 DEF WalkingInv, Overcounts, Sound
  <2> QED
    BY <2>6 DEF ShareInv
<1>6. CompleteSharesAreScanned'
  BY DEF ManagerInv, CompleteSharesAreScanned, FilesOf
<1> QED
  BY <1>2, <1>3, <1>4, <1>5, <1>6 DEF ManagerInv

LEMMA EnqueueStep ==
    ASSUME ManagerInv, NEW f \in Files, Enqueue(f)
    PROVE  ManagerInv'
<1> USE DEF Enqueue
<1> DEFINE s == shareOf[f]
<1>1. TypeOK /\ s \in Shares /\ f \in FilesOf(s)
  BY ManagerAssumption DEF ManagerInv, FilesOf
<1>2. TypeOK'
  BY <1>1 DEF TypeOK, JobPhase
<1>3. WalkInv' /\ JobInv'
  BY <1>1 DEF ManagerInv, WalkInv, JobInv, Idle, TypeOK
<1>4. ASSUME NEW t \in Shares, t # s PROVE ShareInv(t)'
  <2>1. walk[t] # "walking"
    BY <1>1, <1>4 DEF ManagerInv, WalkInv
  <2> QED
    BY <1>1, <1>4, <2>1, Untouched DEF TypeOK, FilesOf
<1>5. ShareInv(s)'
  <2>1. Live(s)' = Live(s) \cup {f} /\ f \notin Live(s)
    BY <1>1 DEF Live, FilesOf, TypeOK
  <2>2. Cardinality(Live(s)') = Cardinality(Live(s)) + 1
    BY <1>1, <2>1, FileSets, FS_AddElement
  <2>3. Uncounted(s)' = Uncounted(s)
    BY <1>1 DEF Uncounted, FilesOf, TypeOK
  <2>4. Count(s)' = Count(s) /\ Count(s) \in Int /\ batch \in Nat
    BY <1>1 DEF Count, TypeOK, Entry
  <2>5. FailuresNoted(s) => FailuresNoted(s)'
    BY <1>1 DEF FailuresNoted, FilesOf, TypeOK
  <2>6. WalkingInv(s) /\ Cardinality(Live(s)) \in Nat
    BY <1>1, FileSets DEF ManagerInv, ShareInv
  <2>7. Overcounts(s, batch) => Overcounts(s, batch)'
    BY <2>2, <2>4, <2>6 DEF Overcounts
  <2>8. Sound(s) => Sound(s)'
    BY <2>3, <2>4 DEF Sound
  <2>9. Count(s)' + batch' >= Cardinality(Live(s)')
    BY <2>2, <2>4, <2>6 DEF WalkingInv
  <2>10. WalkingInv(s)'
    BY <2>5, <2>6, <2>7, <2>8, <2>9 DEF WalkingInv
  <2> QED
    BY <2>10 DEF ShareInv
<1>6. CompleteSharesAreScanned'
  BY DEF ManagerInv, CompleteSharesAreScanned, FilesOf
<1> QED
  BY <1>2, <1>3, <1>4, <1>5, <1>6 DEF ManagerInv

LEMMA AddPendingFilesStep ==
    ASSUME ManagerInv, NEW s \in Shares, AddPendingFiles(s)
    PROVE  ManagerInv'
<1> USE DEF AddPendingFiles
<1> DEFINE e == pending[s]
           n == pending'[s]
<1>1. TypeOK /\ e \in Entry \cup {NoEntry} /\ batch \in Nat /\ WalkingInv(s)
      /\ n = Added(e, batch)
  BY DEF ManagerInv, TypeOK, ShareInv
<1>2. CASE e = NoEntry /\ batch = 0
  <2>1. pending' = pending /\ batch' = batch
    BY <1>1, <1>2 DEF Added, TypeOK
  <2>2. TypeOK' /\ WalkInv' /\ JobInv' /\ CompleteSharesAreScanned'
    BY <2>1 DEF ManagerInv, TypeOK, WalkInv, JobInv, Idle, CompleteSharesAreScanned, FilesOf
  <2> QED
    BY <2>1, <2>2, Untouched DEF ManagerInv
<1>3. CASE ~(e = NoEntry /\ batch = 0)
  <2>1. n \in Entry /\ n # NoEntry
    <3>1. CASE e = NoEntry
      <4>1. n = [failed |-> FALSE, remaining |-> batch, finished |-> FALSE]
        <5>1. n = [NewEntry EXCEPT !.remaining = 0 + batch]
          BY <1>1, <1>3, <3>1 DEF Added, Present, NewEntry
        <5>2. 0 + batch = batch
          BY <1>1
        <5> QED
          BY <5>1, <5>2 DEF NewEntry
      <4>2. [failed |-> FALSE, remaining |-> batch, finished |-> FALSE] \in Entry
        BY <1>1 DEF Entry
      <4>3. n \in Entry
        BY <4>1, <4>2
      <4> QED
        BY <4>3, EntryAssumption
    <3>2. CASE e # NoEntry
      BY <1>1, <3>2, EntryOperations, EntryAssumption
    <3> QED
      BY <3>1, <3>2
  <2>2. Count(s)' = Count(s) + batch /\ Count(s) \in Int
    <3>1. CASE e = NoEntry
      BY <1>1, <1>3, <2>1, <3>1 DEF Added, Present, NewEntry, Count
    <3>2. CASE e # NoEntry
      BY <1>1, <2>1, <3>2, EntryOperations DEF Count, Entry
    <3> QED
      BY <3>1, <3>2
  <2>3. Live(s)' = Live(s) /\ Uncounted(s)' = Uncounted(s)
    BY DEF Live, Uncounted, FilesOf
  <2>4. Cardinality(Live(s)) \in Nat /\ Cardinality(Uncounted(s)) \in Nat
    BY FileSets
  <2>5. TypeOK'
    BY <1>1, <2>1 DEF TypeOK
  <2>6. WalkInv' /\ JobInv' /\ CompleteSharesAreScanned'
    BY DEF ManagerInv, WalkInv, JobInv, Idle, CompleteSharesAreScanned, FilesOf
  <2>7. ASSUME NEW t \in Shares, t # s PROVE ShareInv(t)'
    <3>1. walk[t] # "walking"
      BY <2>7 DEF ManagerInv, WalkInv
    <3> QED
      BY <1>1, <2>7, <3>1, Untouched DEF TypeOK
  <2>8. ShareInv(s)'
    <3>1. Count(s)' + batch' >= Cardinality(Live(s)')
      BY <1>1, <2>2, <2>3, <2>4 DEF WalkingInv
    <3>2. Overcounts(s, batch) => Overcounts(s, batch)'
      BY <1>1, <2>2, <2>3, <2>4 DEF Overcounts
    <3>3. CASE e = NoEntry
      <4>1. ~n.finished
        BY <1>1, <1>3, <3>3 DEF Added, Present, NewEntry
      <4> QED
        BY <1>1, <2>1, <3>1, <3>2, <3>3, <4>1 DEF ShareInv, WalkingInv
    <3>4. CASE e # NoEntry
      <4>1. n.failed = e.failed /\ n.finished = e.finished
        BY <1>1, <3>4, EntryOperations
      <4>2. FailuresNoted(s) => FailuresNoted(s)'
        BY <4>1 DEF FailuresNoted, FilesOf
      <4>3. Sound(s) => Sound(s)'
        BY <1>1, <2>2, <2>3, <2>4, <4>1 DEF Sound
      <4> QED
        BY <1>1, <2>1, <3>1, <3>2, <3>4, <4>1, <4>2, <4>3 DEF ShareInv, WalkingInv
    <3> QED
      BY <3>3, <3>4
  <2> QED
    BY <2>5, <2>6, <2>7, <2>8 DEF ManagerInv
<1> QED
  BY <1>2, <1>3

\* The end of a walk: all its files are known, so what is uncounted is live.
LEMMA FinishStep ==
    ASSUME ManagerInv, NEW s \in Shares, FinishShareEnumeration(s)
    PROVE  ManagerInv'
<1> USE DEF FinishShareEnumeration
<1> DEFINE e == pending[s]
           n == Ended(e)
<1>1. TypeOK /\ e \in Entry \cup {NoEntry} /\ batch = 0 /\ WalkingInv(s)
      /\ pending'[s] = Kept(n)
  BY DEF ManagerInv, TypeOK, ShareInv
<1>2. Cardinality(Live(s)) \in Nat /\ Cardinality(Uncounted(s)) \in Nat
      /\ IsFiniteSet(Live(s)) /\ IsFiniteSet(Uncounted(s))
  BY FileSets
<1>3. Count(s) \in Int
  BY <1>1 DEF Count, Entry
<1>4. e # NoEntry
  BY <1>1, <1>2 DEF WalkingInv, Overcounts, Count
<1>5. n \in Entry /\ n.remaining = Count(s) /\ n.failed = e.failed /\ n.finished /\ n # NoEntry
  BY <1>1, <1>4, EntryOperations, EntryAssumption DEF Count
<1>6. \/ ~e.failed => Count(s) >= Cardinality(Uncounted(s))
      \/ pass = 2 /\ Overcounts(s, 0)
  <2>1. CASE e.finished
    BY <1>1, <1>4, <2>1 DEF WalkingInv, Sound
  <2>2. CASE ~e.finished /\ FailuresNoted(s) /\ ~e.failed
    <3>1. Uncounted(s) \subseteq Live(s)
      BY <1>1, <2>2 DEF Uncounted, Live, FilesOf, FailuresNoted, ManagerInv, JobInv,
         TypeOK, JobPhase
    <3>2. Cardinality(Uncounted(s)) <= Cardinality(Live(s))
      BY <1>2, <3>1, FS_Subset
    <3> QED
      BY <1>1, <1>2, <1>3, <3>2 DEF WalkingInv
  <2> QED
    BY <1>1, <2>1, <2>2 DEF WalkingInv
<1>7. Completes(n) => FilesOf(s) \subseteq filesDone
  <2> SUFFICES ASSUME Completes(n) PROVE Uncounted(s) = {}
    BY DEF Uncounted
  <2>1. Count(s) <= 0 /\ ~e.failed
    BY <1>5 DEF Completes, Settled
  <2>2. ~Overcounts(s, 0)
    BY <1>2, <1>3, <2>1 DEF Overcounts
  <2>3. Cardinality(Uncounted(s)) = 0
    BY <1>2, <1>3, <1>6, <2>1, <2>2
  <2> QED
    BY <1>2, <2>3, FS_EmptySet
<1>8. TypeOK'
  <2>1. Kept(n) \in Entry \cup {NoEntry}
    BY <1>5 DEF Kept
  <2> QED
    BY <1>1, <2>1 DEF TypeOK, WalkPhase
<1>9. WalkInv' /\ JobInv'
  BY <1>1 DEF ManagerInv, WalkInv, JobInv, Idle, TypeOK
<1>10. ASSUME NEW t \in Shares, t # s PROVE ShareInv(t)'
  BY <1>1, <1>10, Untouched DEF TypeOK
<1>11. ShareInv(s)'
  <2>1. walk'[s] = "finished"
    BY <1>1 DEF TypeOK
  <2>2. CASE Settled(n)
    BY <1>1, <2>1, <2>2 DEF Kept, ShareInv, FinishedInv
  <2>3. CASE ~Settled(n)
    <3>1. pending'[s] = n /\ Count(s)' = Count(s) /\ Count(s) > 0
      BY <1>1, <1>3, <1>5, <2>3 DEF Kept, Settled, Count
    <3>2. Live(s)' = Live(s) /\ Uncounted(s)' = Uncounted(s)
      BY DEF Live, Uncounted, FilesOf
    <3>3. Sound(s)' \/ (pass' = 2 /\ Overcounts(s, 0)')
      BY <1>5, <1>6, <3>1, <3>2 DEF Sound, Overcounts
    <3> QED
      BY <1>5, <2>1, <3>1, <3>3 DEF ShareInv, FinishedInv
  <2> QED
    BY <2>2, <2>3
<1>12. CompleteSharesAreScanned'
  BY <1>7 DEF ManagerInv, CompleteSharesAreScanned, FilesOf
<1> QED
  BY <1>8, <1>9, <1>10, <1>11, <1>12 DEF ManagerInv

LEMMA AbortShareStep ==
    ASSUME ManagerInv, NEW s \in Shares, AbortShare(s)
    PROVE  ManagerInv'
<1> USE DEF AbortShare
<1>1. TypeOK
  BY DEF ManagerInv
<1>2. TypeOK'
  BY <1>1 DEF TypeOK, WalkPhase
<1>3. WalkInv' /\ JobInv'
  BY <1>1 DEF ManagerInv, WalkInv, JobInv, Idle, TypeOK
<1>4. ASSUME NEW t \in Shares, t # s PROVE ShareInv(t)'
  <2>1. walk[t] # "walking"
    BY <1>4 DEF ManagerInv, WalkInv
  <2> QED
    BY <1>1, <1>4, <2>1, Untouched DEF TypeOK
<1>5. ShareInv(s)'
  BY <1>1 DEF ShareInv, TypeOK
<1>6. CompleteSharesAreScanned'
  BY DEF ManagerInv, CompleteSharesAreScanned, FilesOf
<1> QED
  BY <1>2, <1>3, <1>4, <1>5, <1>6 DEF ManagerInv
-------------------------------------------------------------------------------
(***************************************************************************)
(* The callbacks.                                                          *)
(***************************************************************************)
\* Marking a file or dropping a job moves it, but neither set it is in.
LEMMA MovedJob ==
    ASSUME ManagerInv, NEW f \in Files, NEW p \in {"succeeded", "failed", "dropped"},
           job[f] = "queued", job' = [job EXCEPT ![f] = p],
           filesDone' = IF p = "succeeded" THEN filesDone \cup {f} ELSE filesDone,
           UNCHANGED <<pending, sharesDone, walk, batch, pass>>,
           cancelled' \in BOOLEAN
    PROVE  ManagerInv'
<1> DEFINE s == shareOf[f]
<1>1. TypeOK /\ s \in Shares /\ f \in FilesOf(s) /\ f \notin filesDone
  BY ManagerAssumption DEF ManagerInv, FilesOf, JobInv
<1>2. TypeOK'
  BY <1>1 DEF TypeOK, JobPhase
<1>3. WalkInv' /\ JobInv'
  BY <1>1 DEF ManagerInv, WalkInv, JobInv, Idle, TypeOK
<1>4. ASSUME NEW t \in Shares, t # s PROVE ShareInv(t)'
  BY <1>1, <1>4, Untouched DEF TypeOK, FilesOf
<1>5. ShareInv(s)'
  <2>1. Live(s)' = Live(s)
    BY <1>1 DEF Live, FilesOf, TypeOK
  <2>2. Uncounted(s)' = Uncounted(s)
    BY <1>1 DEF Uncounted, FilesOf, TypeOK
  <2>3. Count(s)' = Count(s)
    BY DEF Count
  <2>4. FailuresNoted(s) => FailuresNoted(s)'
    BY <1>1 DEF FailuresNoted, FilesOf, TypeOK
  <2>5. (Sound(s) => Sound(s)') /\ (Overcounts(s, 0) => Overcounts(s, 0)')
        /\ (Overcounts(s, batch) => Overcounts(s, batch)')
    BY <2>1, <2>2, <2>3 DEF Sound, Overcounts
  <2>6. ShareInv(s) /\ walk[s] \notin {"todo", "skipped"}
    BY <1>1 DEF ManagerInv, ShareInv, WaitingInv
  <2>7. WalkingInv(s) => WalkingInv(s)'
    BY <2>1, <2>3, <2>4, <2>5 DEF WalkingInv
  <2>8. FinishedInv(s) => FinishedInv(s)'
    BY <2>3, <2>5 DEF FinishedInv
  <2> QED
    BY <2>6, <2>7, <2>8 DEF ShareInv
<1>6. CompleteSharesAreScanned'
  BY DEF ManagerInv, CompleteSharesAreScanned, FilesOf
<1> QED
  BY <1>2, <1>3, <1>4, <1>5, <1>6 DEF ManagerInv

\* Recording a result takes the file off both sets, and one off the count.
LEMMA RecordShareStep ==
    ASSUME ManagerInv, NEW f \in Files, RecordShare(f)
    PROVE  ManagerInv'
<1> DEFINE s  == shareOf[f]
           e  == pending[s]
           ok == job[f] = "succeeded"
           n  == Counted(e, ok)
<1>1. TypeOK /\ s \in Shares /\ f \in FilesOf(s) /\ e \in Entry \cup {NoEntry}
      /\ ShareInv(s)
  BY ManagerAssumption DEF ManagerInv, FilesOf, TypeOK
<1>2. /\ job[f] \in {"succeeded", "failed"}
      /\ job' = [job EXCEPT ![f] = "recorded"]
      /\ filesDone' = filesDone /\ walk' = walk /\ batch' = batch
      /\ cancelled' = cancelled /\ pass' = pass
  BY DEF RecordShare
<1>3. e = NoEntry => pending' = pending /\ sharesDone' = sharesDone
  BY DEF RecordShare
<1>4. e # NoEntry => /\ pending' = [pending EXCEPT ![s] = Kept(n)]
                     /\ sharesDone' = IF Completes(n) THEN sharesDone \cup {s}
                                      ELSE sharesDone
  BY DEF RecordShare
<1> HIDE DEF s
<1>5. Live(s)' = Live(s) \ {f} /\ f \in Live(s)
  BY <1>1, <1>2 DEF Live, FilesOf, TypeOK
<1>6. /\ Cardinality(Live(s)) \in Nat /\ Cardinality(Live(s)) > 0
      /\ Cardinality(Live(s)') = Cardinality(Live(s)) - 1
  <2>1. Cardinality(Live(s)') = Cardinality(Live(s)) - 1
    BY <1>1, <1>5, FileSets, FS_RemoveElement
  <2> QED
    BY <1>1, <2>1, FileSets, NextFileSets
<1>7. f \in filesDone <=> ok
  BY <1>2 DEF ManagerInv, JobInv
<1>8. ok => /\ Uncounted(s)' = Uncounted(s) \ {f}
            /\ Cardinality(Uncounted(s)') = Cardinality(Uncounted(s)) - 1
  <2> SUFFICES ASSUME ok PROVE /\ Uncounted(s)' = Uncounted(s) \ {f}
                               /\ f \in Uncounted(s)
    BY <1>1, FileSets, FS_RemoveElement
  <2> QED
    BY <1>1, <1>2, <1>7 DEF Uncounted, FilesOf, TypeOK
<1>9. walk[s] \in {"walking", "finished", "aborted"}
  BY <1>1, <1>2 DEF ShareInv, WaitingInv, TypeOK, WalkPhase
<1>10. e # NoEntry => /\ n \in Entry /\ n # NoEntry /\ n.remaining = e.remaining - 1
                      /\ n.finished = e.finished /\ (n.failed <=> e.failed \/ ~ok)
                      /\ e.remaining = Count(s) /\ Count(s) \in Int
  <2> SUFFICES ASSUME e # NoEntry
               PROVE  /\ n \in Entry /\ n # NoEntry /\ n.remaining = e.remaining - 1
                      /\ n.finished = e.finished /\ (n.failed <=> e.failed \/ ~ok)
                      /\ e.remaining = Count(s) /\ Count(s) \in Int
    OBVIOUS
  <2>1. e \in Entry /\ ok \in BOOLEAN
    BY <1>1
  <2>2. /\ n \in Entry /\ n.remaining = e.remaining - 1
        /\ n.finished = e.finished /\ (n.failed <=> e.failed \/ ~ok)
    <3> HIDE DEF e, ok
    <3> QED
      BY <2>1, EntryOperations
  <2>3. e.remaining = Count(s) /\ Count(s) \in Int
    BY <2>1 DEF Count, Entry
  <2> QED
    BY <2>2, <2>3, EntryAssumption
<1>11. (e # NoEntry /\ e.finished) => (Sound(s) \/ Count(s) > Cardinality(Live(s)))
  <2> SUFFICES ASSUME e # NoEntry, e.finished
               PROVE  Sound(s) \/ Count(s) > Cardinality(Live(s))
    OBVIOUS
  <2>0. Overcounts(s, 0) => Count(s) > Cardinality(Live(s))
    BY <1>10 DEF Overcounts
  <2>1. CASE walk[s] = "walking"
    BY <1>1, <2>1 DEF ShareInv, WalkingInv
  <2>2. CASE walk[s] = "finished"
    BY <1>1, <2>0, <2>2 DEF ShareInv, FinishedInv
  <2>3. CASE walk[s] = "aborted"
    BY <1>1, <2>3 DEF ShareInv
  <2> QED
    BY <1>9, <2>1, <2>2, <2>3
<1>12. (e # NoEntry /\ Completes(n)) => FilesOf(s) \subseteq filesDone
  <2> SUFFICES ASSUME e # NoEntry, Completes(n) PROVE Uncounted(s)' = {}
    BY <1>2 DEF Uncounted, FilesOf
  <2>1. e.finished /\ ~e.failed /\ ok /\ Count(s) <= 1
    BY <1>10 DEF Completes, Settled
  <2>2. Sound(s)
    BY <1>6, <1>10, <1>11, <2>1
  <2>3. Cardinality(Uncounted(s)) <= 1
    BY <1>1, <1>10, <2>1, <2>2, FileSets DEF Sound
  <2>4. Cardinality(Uncounted(s)') = 0
    BY <1>1, <1>8, <2>1, <2>3, FileSets, NextFileSets
  <2> QED
    BY <1>1, <2>4, NextFileSets, FS_EmptySet
<1>13. TypeOK'
  <2>1. pending' \in [Shares -> Entry \cup {NoEntry}] /\ sharesDone' \subseteq Shares
    BY <1>1, <1>3, <1>4, <1>10 DEF TypeOK, Kept
  <2>2. job' \in [Files -> JobPhase]
    BY <1>1, <1>2 DEF TypeOK, JobPhase
  <2> QED
    BY <1>1, <1>2, <2>1, <2>2 DEF TypeOK
<1>14. WalkInv' /\ JobInv'
  BY <1>1, <1>2 DEF ManagerInv, WalkInv, JobInv, Idle, TypeOK
<1>15. ASSUME NEW t \in Shares, t # s PROVE ShareInv(t)'
  <2>1. pending'[t] = pending[t]
    BY <1>1, <1>3, <1>4, <1>15 DEF TypeOK
  <2>2. \A g \in FilesOf(t) : g # f
    BY <1>1, <1>15 DEF FilesOf
  <2> QED
    BY <1>1, <1>2, <2>1, <2>2, Untouched DEF TypeOK, FilesOf
<1>16. CompleteSharesAreScanned'
  BY <1>2, <1>3, <1>4, <1>12 DEF ManagerInv, CompleteSharesAreScanned, FilesOf
<1>17. ShareInv(s)'
  <2>1. CASE e = NoEntry
    <3>1. pending'[s] = NoEntry /\ Count(s)' = 0 /\ Count(s) = 0
      BY <1>3, <2>1 DEF Count
    <3>2. CASE walk[s] = "walking"
      <4>1. pass = 2 /\ batch > Cardinality(Live(s))
        BY <1>1, <2>1, <3>1, <3>2 DEF ShareInv, WalkingInv, Overcounts, TypeOK
      <4>2. pass' = 2 /\ Overcounts(s, batch)'
            /\ Count(s)' + batch' >= Cardinality(Live(s)')
        BY <1>1, <1>2, <1>6, <3>1, <4>1 DEF Overcounts, TypeOK
      <4> QED
        BY <1>2, <3>1, <3>2, <4>2 DEF ShareInv, WalkingInv
    <3> QED
      BY <1>2, <1>9, <3>1, <3>2 DEF ShareInv, FinishedInv
  <2>2. CASE e # NoEntry
    <3>1. pending'[s] = Kept(n)
      BY <1>1, <1>4, <2>2 DEF TypeOK
    <3>2. CASE Settled(n)
      <4>1. pending'[s] = NoEntry /\ Count(s)' = 0 /\ Count(s) <= 1 /\ e.finished
        BY <1>10, <2>2, <3>1, <3>2 DEF Kept, Settled, Count
      <4>2. CASE walk[s] = "walking"
        <5>1. pass = 2 /\ Count(s) + batch > Cardinality(Live(s))
          BY <1>1, <4>1, <4>2 DEF ShareInv, WalkingInv, Overcounts
        <5>2. Count(s)' + batch' > Cardinality(Live(s)')
          BY <1>1, <1>2, <1>6, <1>10, <2>2, <4>1, <5>1 DEF TypeOK
        <5> QED
          BY <1>1, <1>2, <1>6, <4>1, <4>2, <5>1, <5>2 DEF ShareInv, WalkingInv, Overcounts, TypeOK
      <4> QED
        BY <1>2, <1>9, <4>1, <4>2 DEF ShareInv, FinishedInv
    <3>3. CASE ~Settled(n)
      <4>1. pending'[s] = n /\ Count(s)' = Count(s) - 1 /\ n # NoEntry
        BY <1>10, <2>2, <3>1, <3>3 DEF Kept, Count
      <4>2. Sound(s) => Sound(s)'
        <5> SUFFICES ASSUME Sound(s), ~n.failed
                     PROVE  Count(s)' >= Cardinality(Uncounted(s)')
          BY <4>1 DEF Sound
        <5>1. Count(s) >= Cardinality(Uncounted(s)) /\ ok
          BY <1>10, <2>2 DEF Sound
        <5> QED
          BY <1>1, <1>8, <1>10, <2>2, <4>1, <5>1, FileSets
      <4>3. CASE walk[s] = "walking"
        <5>1. WalkingInv(s)
          BY <1>1, <4>3 DEF ShareInv
        <5>2. Count(s)' + batch' >= Cardinality(Live(s)')
          BY <1>1, <1>2, <1>6, <1>10, <2>2, <4>1, <5>1 DEF WalkingInv, TypeOK
        <5>3. Overcounts(s, batch) => Overcounts(s, batch)'
          BY <1>1, <1>2, <1>6, <1>10, <2>2, <4>1 DEF Overcounts, TypeOK
        <5>4. FailuresNoted(s) => FailuresNoted(s)'
          <6> SUFFICES ASSUME FailuresNoted(s), ~n.failed, NEW g \in FilesOf(s),
                              job'[g] = "recorded"
                       PROVE  g \in filesDone
            BY <1>2, <4>1 DEF FailuresNoted, FilesOf
          <6>1. ok /\ ~e.failed
            BY <1>10, <2>2
          <6>2. g = f \/ job[g] = "recorded"
            BY <1>1, <1>2 DEF TypeOK, FilesOf
          <6> QED
            BY <1>7, <6>1, <6>2 DEF FailuresNoted
        <5>5. n.finished = e.finished
          BY <1>10, <2>2
        <5> QED
          BY <1>2, <2>2, <4>1, <4>2, <4>3, <5>1, <5>2, <5>3, <5>4, <5>5
          DEF ShareInv, WalkingInv
      <4>4. CASE walk[s] = "finished"
        <5>1. FinishedInv(s)
          BY <1>1, <4>4 DEF ShareInv
        <5>2. n.finished /\ Count(s)' > 0
          BY <1>10, <2>2, <3>3, <4>1, <5>1 DEF FinishedInv, Settled
        <5>3. Overcounts(s, 0) => Overcounts(s, 0)'
          BY <1>6, <1>10, <2>2, <4>1 DEF Overcounts
        <5> QED
          BY <1>2, <2>2, <4>1, <4>2, <4>4, <5>1, <5>2, <5>3 DEF ShareInv, FinishedInv
      <4>5. walk[s] # "aborted"
        BY <1>1, <2>2 DEF ShareInv
      <4> QED
        BY <1>9, <4>3, <4>4, <4>5
    <3> QED
      BY <3>2, <3>3
  <2> QED
    BY <2>1, <2>2
<1> QED
  BY <1>13, <1>14, <1>15, <1>16, <1>17 DEF ManagerInv

\* What a pass leaves to the next: entries of walks that ended, never empty.
LEMMA NextPassStep ==
    ASSUME MaxPasses <= 2, ManagerInv, NextPass
    PROVE  ManagerInv'
<1> USE DEF NextPass
<1>1. TypeOK /\ pass = 1 /\ pass' = 2
  BY ManagerAssumption DEF ManagerInv, TypeOK
<1>2. TypeOK'
  <2>1. pass' \in 1 .. MaxPasses
    BY <1>1, ManagerAssumption
  <2>2. walk' \in [Shares -> WalkPhase] /\ job' \in [Files -> JobPhase]
    BY DEF WalkPhase, JobPhase
  <2>3. /\ pending' = pending /\ sharesDone' = sharesDone /\ filesDone' = filesDone
        /\ batch' = 0 /\ cancelled' = FALSE
    OBVIOUS
  <2> HIDE DEF NextPass
  <2> QED
    BY <1>1, <2>1, <2>2, <2>3 DEF TypeOK
<1>3. WalkInv' /\ JobInv'
  BY DEF WalkInv, JobInv
<1>4. ASSUME NEW s \in Shares PROVE ShareInv(s)'
  <2>1. walk'[s] = "todo" /\ pending'[s] = pending[s] /\ walk[s] # "walking"
    BY DEF Idle
  <2>2. \A f \in FilesOf(s) : job'[f] = "unseen"
    BY DEF FilesOf
  <2>3. Outstanding(s) = {}
    OBVIOUS
  <2>4. Uncounted(s)' = Uncounted(s)
    BY <2>3 DEF Uncounted, FilesOf, Outstanding
  <2>5. Count(s)' = Count(s)
    BY DEF Count
  <2>6. Sound(s) => Sound(s)'
    BY <2>4, <2>5 DEF Sound
  <2>7. ASSUME pending[s] # NoEntry
        PROVE  pending[s].finished /\ Count(s) > 0 /\ Sound(s)
    <3>1. walk[s] = "finished" /\ ShareInv(s)
      BY <1>1, <2>1, <2>7 DEF ManagerInv, TypeOK, WalkPhase, ShareInv, WaitingInv
    <3> QED
      BY <1>1, <2>7, <3>1 DEF ShareInv, FinishedInv
  <2> QED
    BY <1>1, <2>1, <2>2, <2>5, <2>6, <2>7 DEF ShareInv, WaitingInv, FilesOf
<1>5. CompleteSharesAreScanned'
  BY DEF ManagerInv, CompleteSharesAreScanned, FilesOf
<1> QED
  BY <1>2, <1>3, <1>4, <1>5 DEF ManagerInv

LEMMA CancelStep ==
    ASSUME ManagerInv, Cancel \/ UNCHANGED vars
    PROVE  ManagerInv'
<1>1. UNCHANGED <<pending, sharesDone, filesDone, walk, batch, job, pass>>
      /\ cancelled' \in BOOLEAN
  BY DEF Cancel, vars, ManagerInv, TypeOK
<1>2. TypeOK' /\ WalkInv' /\ JobInv' /\ CompleteSharesAreScanned'
  BY <1>1 DEF ManagerInv, TypeOK, WalkInv, JobInv, Idle, CompleteSharesAreScanned, FilesOf
<1> QED
  BY <1>1, <1>2, Untouched DEF ManagerInv

LEMMA ManagerStep ==
    ASSUME MaxPasses <= 2, ManagerInv, [Next]_vars
    PROVE  ManagerInv'
<1>1. CASE Walk
  BY <1>1, SkipShareStep, StartShareStep, AddPendingFilesStep, FinishStep,
     AbortShareStep DEF Walk
<1>2. CASE Queue
  BY <1>2, SkipFileStep, EnqueueStep DEF Queue
<1>3. ASSUME NEW f \in Files, RecordFile(f) PROVE ManagerInv'
  <2>1. cancelled' \in BOOLEAN
    BY <1>3 DEF RecordFile, ManagerInv, TypeOK
  <2>2. CASE job' = [job EXCEPT ![f] = "succeeded"] /\ filesDone' = filesDone \cup {f}
    BY <1>3, <2>1, <2>2, MovedJob DEF RecordFile
  <2>3. CASE job' = [job EXCEPT ![f] = "failed"] /\ filesDone' = filesDone
    BY <1>3, <2>1, <2>3, MovedJob DEF RecordFile
  <2> QED
    BY <1>3, <2>2, <2>3 DEF RecordFile
<1>4. ASSUME NEW f \in Files, Drop(f) PROVE ManagerInv'
  <2>1. cancelled' \in BOOLEAN
    BY <1>4 DEF Drop, ManagerInv, TypeOK
  <2>2. /\ job[f] = "queued" /\ job' = [job EXCEPT ![f] = "dropped"]
        /\ filesDone' = filesDone
        /\ UNCHANGED <<pending, sharesDone, walk, batch, pass>>
    BY <1>4 DEF Drop
  <2> QED
    BY <2>1, <2>2, MovedJob
<1>5. CASE Callbacks
  BY <1>3, <1>4, <1>5, RecordShareStep DEF Callbacks
<1> QED
  BY <1>1, <1>2, <1>5, NextPassStep, CancelStep DEF Next

\* For a host planned at most twice (its name can be among the targets once with
\* an address and once without), whatever the interleaving.
THEOREM ManagerInvariant ==
    ASSUME MaxPasses <= 2
    PROVE  Spec => []ManagerInv
BY InitManagerInv, ManagerStep, PTL DEF Spec

THEOREM ManagerTypes ==
    ASSUME MaxPasses <= 2
    PROVE  Spec => []TypeOK
<1>1. ManagerInv => TypeOK
  BY DEF ManagerInv
<1> QED
  BY <1>1, ManagerInvariant, PTL

\* A share the manager calls complete has no file that did not succeed.
THEOREM CompleteSharesAreScannedAlways ==
    ASSUME MaxPasses <= 2
    PROVE  Spec => []CompleteSharesAreScanned
<1>1. ManagerInv => CompleteSharesAreScanned
  BY DEF ManagerInv
<1> QED
  BY <1>1, ManagerInvariant, PTL
===============================================================================
