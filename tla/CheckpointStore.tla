---------------------------- MODULE CheckpointStore ----------------------------
(***************************************************************************)
(* The life of the checkpoint file: the store of internal/state with the   *)
(* two goroutines that save it, over several runs of the program.          *)
(*                                                                         *)
(* A run opens the store (from the file when it resumes), starts the       *)
(* saving goroutine (the "ticker"), marks hosts, shares and files while it *)
(* scans, and ends with Close (the "closer"), which waits for the ticker   *)
(* and saves once more.  Save holds the store's lock from its first test   *)
(* to the rename, writes a temporary file and renames it over the          *)
(* checkpoint; each of those steps may fail, and the process may end       *)
(* between any two of them.                                                *)
(***************************************************************************)
EXTENDS CheckpointData, Naturals

CONSTANTS Absent,       \* no such file
          Torn,         \* a file whose content was only partly written
          Foreign,      \* not a checkpoint: unparsable or of another version
          MaxIOErrors   \* bound on failing file operations

ASSUME StoreAssumption ==
    /\ MaxIOErrors \in Nat
    /\ {Absent, Torn, Foreign} \cap Document = {}
    /\ Absent # Torn /\ Absent # Foreign /\ Torn # Foreign

VARIABLES
    mem,      \* the maps of the Store
    dirty,    \* Store.dirty
    disk,     \* content of the checkpoint file
    tmp,      \* content of the file <checkpoint>.tmp
    up,       \* the process runs and has opened the store
    ticker,   \* the goroutine of Manager.Start
    closer,   \* the goroutine that runs the scan and calls Manager.Close
    saving,   \* how far each goroutine is in Store.Save
    ctxDone,  \* the scan context is done
    errs,     \* failing file operations so far
    based     \* history: the file descends from this run's progress

vars == <<mem, dirty, disk, tmp, up, ticker, closer, saving, ctxDone, errs,
          based>>

Savers == {"ticker", "closer"}

\* "failed" is Save returning an error, "none" is Save returning nil (or not
\* having been called).  In "write" and "rename" the store's lock is held.
SavePhase == {"none", "begin", "write", "rename", "failed"}

TypeOK ==
    /\ mem \in Progress
    /\ dirty \in BOOLEAN
    /\ disk \in Document \cup {Absent, Foreign, Torn}
    /\ tmp \in Document \cup {Absent, Torn}
    /\ up \in BOOLEAN
    /\ ticker \in {"off", "loop", "last", "done"}
    /\ closer \in {"scanning", "waiting", "last", "closed"}
    /\ saving \in [Savers -> SavePhase]
    /\ ctxDone \in BOOLEAN
    /\ errs \in 0 .. MaxIOErrors
    /\ based \in BOOLEAN

Locked == \E x \in Savers : saving[x] \in {"write", "rename"}

Returned(x) == saving[x] \in {"none", "failed"}

NewRun == /\ ticker = "off"
          /\ closer = "scanning"
          /\ saving = [x \in Savers |-> "none"]
          /\ ctxDone = FALSE

\* What an earlier program may have left: nothing, something else, or a
\* version 1 document that lists files without their states.
LegacyDocument ==
    [Snapshot(NoProgress) EXCEPT !.CompletedFiles = FileKeys]

Init == /\ mem = NoProgress
        /\ dirty = FALSE
        /\ disk \in {Absent, Foreign, LegacyDocument}
        /\ tmp = Absent
        /\ up = FALSE
        /\ NewRun
        /\ errs = 0
        /\ based = FALSE
-------------------------------------------------------------------------------
(***************************************************************************)
(* A run begins.  Without resume the file is not even read; with resume    *)
(* anything but a document of a known version is an error and the program  *)
(* ends before it has changed anything.                                    *)
(***************************************************************************)
OpenFresh == /\ ~up
             /\ up' = TRUE
             /\ mem' = NoProgress
             /\ dirty' = FALSE
             /\ based' = FALSE
             /\ UNCHANGED <<disk, tmp, ticker, closer, saving, ctxDone, errs>>

OpenResume == /\ ~up
              /\ disk \in Document
              /\ up' = TRUE
              /\ mem' = Load(disk)
              /\ dirty' = FALSE
              /\ based' = TRUE
              /\ UNCHANGED <<disk, tmp, ticker, closer, saving, ctxDone, errs>>

Start == /\ up
         /\ ticker = "off"
         /\ ticker' = "loop"
         /\ UNCHANGED <<mem, dirty, disk, tmp, up, closer, saving, ctxDone,
                        errs, based>>

\* The process ends, by itself after Close or at any earlier moment.
ProcessEnd == /\ up
              /\ up' = FALSE
              /\ mem' = NoProgress
              /\ dirty' = FALSE
              /\ ticker' = "off"
              /\ closer' = "scanning"
              /\ saving' = [x \in Savers |-> "none"]
              /\ ctxDone' = FALSE
              /\ UNCHANGED <<disk, tmp, errs, based>>
-------------------------------------------------------------------------------
(***************************************************************************)
(* The scan marks what it has completed.  Every mark takes the lock, so    *)
(* none falls inside a Save; the store becomes dirty only when the mark    *)
(* was new.                                                                *)
(***************************************************************************)
Mark(p) == /\ up
           /\ ticker # "off"
           /\ closer = "scanning"
           /\ ~Locked
           /\ mem' = p
           /\ dirty' = (dirty \/ p # mem)
           /\ UNCHANGED <<disk, tmp, up, ticker, closer, saving, ctxDone, errs,
                          based>>

MarkHostComplete(h) == Mark(MarkHost(mem, h))

MarkShareComplete(h, s) == Mark(MarkShare(mem, h, s))

MarkFileComplete(h, s, f, stamp) == Mark(MarkFile(mem, h, s, f, stamp))

CancelContext == /\ up
                 /\ ticker # "off"
                 /\ ~ctxDone
                 /\ ctxDone' = TRUE
                 /\ UNCHANGED <<mem, dirty, disk, tmp, up, ticker, closer,
                                saving, errs, based>>
-------------------------------------------------------------------------------
(***************************************************************************)
(* The saving goroutine.  A tick saves and goes on; the end of the context *)
(* or the stop channel saves and ends it, after which nothing saves until  *)
(* Close does.                                                             *)
(***************************************************************************)
TickUntilFailure ==   \* mutant: the loop gives up after a failing save
    /\ up
    /\ ticker = "loop"
    /\ saving["ticker"] = "none"
    /\ saving' = [saving EXCEPT !["ticker"] = "begin"]
    /\ UNCHANGED <<mem, dirty, disk, tmp, up, ticker, closer, ctxDone, errs, based>>

Tick == /\ up
        /\ ticker = "loop"
        /\ Returned("ticker")
        /\ saving' = [saving EXCEPT !["ticker"] = "begin"]
        /\ UNCHANGED <<mem, dirty, disk, tmp, up, ticker, closer, ctxDone, errs,
                       based>>

TickerStopOnContext ==   \* mutant: the loop does not watch the stop channel
    /\ up
    /\ ticker = "loop"
    /\ Returned("ticker")
    /\ ctxDone
    /\ ticker' = "last"
    /\ saving' = [saving EXCEPT !["ticker"] = "begin"]
    /\ UNCHANGED <<mem, dirty, disk, tmp, up, closer, ctxDone, errs, based>>

TickerStop == /\ up
              /\ ticker = "loop"
              /\ Returned("ticker")
              /\ ctxDone \/ closer = "waiting"
              /\ ticker' = "last"
              /\ saving' = [saving EXCEPT !["ticker"] = "begin"]
              /\ UNCHANGED <<mem, dirty, disk, tmp, up, closer, ctxDone, errs,
                             based>>

TickerExit == /\ up
              /\ ticker = "last"
              /\ Returned("ticker")
              /\ ticker' = "done"
              /\ UNCHANGED <<mem, dirty, disk, tmp, up, closer, saving, ctxDone,
                             errs, based>>

\* Close: stop the ticker, wait for it, save, return.
CloseStop == /\ up
             /\ ticker # "off"
             /\ closer = "scanning"
             /\ closer' = "waiting"
             /\ UNCHANGED <<mem, dirty, disk, tmp, up, ticker, saving, ctxDone,
                            errs, based>>

CloseTrustsTicker ==   \* mutant: Close leaves the last save to the ticker
    /\ up
    /\ closer = "waiting"
    /\ ticker = "done"
    /\ closer' = "last"
    /\ UNCHANGED <<mem, dirty, disk, tmp, up, ticker, saving, ctxDone, errs, based>>

CloseSave == /\ up
             /\ closer = "waiting"
             /\ ticker = "done"
             /\ closer' = "last"
             /\ saving' = [saving EXCEPT !["closer"] = "begin"]
             /\ UNCHANGED <<mem, dirty, disk, tmp, up, ticker, ctxDone, errs,
                            based>>

CloseReturn == /\ up
               /\ closer = "last"
               /\ Returned("closer")
               /\ closer' = "closed"
               /\ UNCHANGED <<mem, dirty, disk, tmp, up, ticker, saving,
                              ctxDone, errs, based>>
-------------------------------------------------------------------------------
(***************************************************************************)
(* Store.Save, run by x.                                                   *)
(***************************************************************************)
\* A clean store whose file exists needs no save, whatever the file holds.
SaveSkip(x) == /\ saving[x] = "begin"
               /\ ~Locked
               /\ ~dirty /\ disk # Absent
               /\ saving' = [saving EXCEPT ![x] = "none"]
               /\ UNCHANGED <<mem, dirty, disk, tmp, up, ticker, closer,
                              ctxDone, errs, based>>

SaveOpenInPlace(x) ==   \* mutant: the checkpoint itself is opened for writing
    /\ saving[x] = "begin"
    /\ ~Locked
    /\ dirty \/ disk = Absent
    /\ tmp' = Torn
    /\ disk' = Torn
    /\ saving' = [saving EXCEPT ![x] = "write"]
    /\ UNCHANGED <<mem, dirty, up, ticker, closer, ctxDone, errs, based>>

\* Opening the temporary file for writing truncates it.
SaveOpen(x) == /\ saving[x] = "begin"
               /\ ~Locked
               /\ dirty \/ disk = Absent
               /\ tmp' = Torn
               /\ saving' = [saving EXCEPT ![x] = "write"]
               /\ UNCHANGED <<mem, dirty, disk, up, ticker, closer, ctxDone,
                              errs, based>>

SaveWrite(x) == /\ saving[x] = "write"
                /\ tmp' = Snapshot(mem)
                /\ saving' = [saving EXCEPT ![x] = "rename"]
                /\ UNCHANGED <<mem, dirty, disk, up, ticker, closer, ctxDone,
                               errs, based>>

SaveRename(x) == /\ saving[x] = "rename"
                 /\ disk' = tmp
                 /\ tmp' = Absent
                 /\ dirty' = FALSE
                 /\ based' = TRUE
                 /\ saving' = [saving EXCEPT ![x] = "none"]
                 /\ UNCHANGED <<mem, up, ticker, closer, ctxDone, errs>>

\* The directory or the temporary file cannot be made.
SaveOpenFails(x) == /\ saving[x] = "begin"
                    /\ ~Locked
                    /\ dirty \/ disk = Absent
                    /\ errs < MaxIOErrors
                    /\ errs' = errs + 1
                    /\ saving' = [saving EXCEPT ![x] = "failed"]
                    /\ UNCHANGED <<mem, dirty, disk, tmp, up, ticker, closer,
                                   ctxDone, based>>

\* A failing write leaves the torn file; a failing rename removes it, if it can.
SaveFails(x) == /\ saving[x] \in {"write", "rename"}
                /\ errs < MaxIOErrors
                /\ errs' = errs + 1
                /\ tmp' \in IF saving[x] = "write" THEN {tmp} ELSE {tmp, Absent}
                /\ saving' = [saving EXCEPT ![x] = "failed"]
                /\ UNCHANGED <<mem, dirty, disk, up, ticker, closer, ctxDone,
                               based>>

Save(x) == \/ SaveSkip(x)
           \/ SaveOpen(x)
           \/ SaveWrite(x)
           \/ SaveRename(x)
           \/ SaveOpenFails(x)
           \/ SaveFails(x)
-------------------------------------------------------------------------------
Ticker == Tick \/ TickerStop \/ TickerExit \/ Save("ticker")

Closer == CloseStop \/ CloseSave \/ CloseReturn \/ Save("closer")

Marks == \/ \E h \in HostNames : MarkHostComplete(h)
         \/ \E h \in HostNames, s \in ShareNames : MarkShareComplete(h, s)
         \/ \E h \in HostNames, s \in ShareNames, f \in PathNames, t \in Stamp :
                MarkFileComplete(h, s, f, t)

Next == \/ OpenFresh \/ OpenResume \/ Start \/ ProcessEnd
        \/ Marks \/ CancelContext
        \/ Ticker \/ Closer

Spec == Init /\ [][Next]_vars

(***************************************************************************)
(* The runtime schedules both goroutines and the timer keeps firing.  A    *)
(* select that finds a tick and the end of the run ready at once picks at  *)
(* random, so it cannot pick the tick for ever: strong fairness.  Nothing  *)
(* makes the scan mark, cancel, or reach its Close.                        *)
(***************************************************************************)
Fairness == /\ WF_vars(Tick)
            /\ SF_vars(TickerStop)
            /\ WF_vars(TickerExit)
            /\ WF_vars(Save("ticker"))
            /\ WF_vars(CloseSave \/ CloseReturn)
            /\ WF_vars(Save("closer"))

FairSpec == Spec /\ Fairness
-------------------------------------------------------------------------------
(***************************************************************************)
(* Properties.                                                             *)
(***************************************************************************)
\* The checkpoint file is never a partly written one, however the process ends:
\* what a run leaves can be resumed from.  (Write to a temporary file, then
\* rename, in Store.Save.)
NeverTorn == disk # Torn

\* The dirty flag and the file agree: a clean store whose file descends from
\* this run is exactly what a resumed run would load.  It is what lets Save
\* return early.
CleanMeansSaved == (up /\ based /\ ~dirty) => /\ disk \in Document
                                              /\ Load(disk) = mem

\* A Close that returned nil has saved every mark of the run, though the ticker
\* may have stopped long before (context done) and the last marks came after.
\* A run that marked nothing may leave an older file in place.
ClosedIsDurable ==
    (closer = "closed" /\ saving["closer"] = "none")
        => \/ disk \in Document /\ Load(disk) = mem
           \/ mem = NoProgress /\ ~based

\* While a run builds on the file, no step takes a completed host, share or
\* file off it: a crash loses at most the marks since the last save.
KeepsProgress ==
    [][(up /\ based) => /\ disk' \in Document
                        /\ Covers(Load(disk'), Load(disk))]_vars

\* Close cannot hang: the ticker it waits for never waits for it.
CloseReturns == (closer = "waiting") ~> (closer \in {"closed", "scanning"})

\* As long as the run scans with its context alive, what is marked reaches the
\* file even if some saves fail.
MarksBecomeDurable == (dirty /\ ~ctxDone) ~> (~dirty \/ ctxDone \/ closer # "scanning")
-------------------------------------------------------------------------------
(***************************************************************************)
(* The store implements DurableProgress: the durable progress is what the  *)
(* file would be loaded as, and the one step that changes it is the rename.*)
(***************************************************************************)
Content == IF disk \in Document THEN Load(disk) ELSE disk

Phase == IF ~up THEN "down"
         ELSE IF closer = "closed" /\ saving["closer"] = "none" THEN "clean"
         ELSE "up"

Abstract == INSTANCE DurableProgress
            WITH progress <- mem, durable <- Content, phase <- Phase

\* Every step of the store, its lock, its goroutines and its failures included,
\* is a step of the promise or changes nothing the promise speaks of.
ImplementsDurableProgress == Abstract!ASpec
-------------------------------------------------------------------------------
(***************************************************************************)
(* The inductive invariant behind the safety properties.                   *)
(***************************************************************************)
\* Nothing of a run survives it but the files.
DownInv == ~up => /\ NewRun
                  /\ mem = NoProgress
                  /\ ~dirty

\* The two goroutines take turns: the closer saves after the ticker is done.
TurnsInv == /\ ticker = "off" => Returned("ticker") /\ closer = "scanning"
            /\ ticker = "done" => Returned("ticker")
            /\ closer \in {"last", "closed"} => ticker = "done"
            /\ closer \in {"scanning", "waiting"} => saving["closer"] = "none"
            /\ closer = "closed" => Returned("closer")

\* The temporary file is the snapshot the rename is about to install.
RenameInv == \A x \in Savers : saving[x] = "rename" => tmp = Snapshot(mem)

\* The file against the memory.
FileInv == /\ NeverTorn
           /\ based => disk \in Document
           /\ up /\ based => Covers(mem, Load(disk))
           /\ up /\ ~based /\ ~dirty => mem = NoProgress
           /\ CleanMeansSaved

\* As ClosedIsDurable, from the moment the closer's save has returned nil.
CloseInv == (closer \in {"last", "closed"} /\ saving["closer"] = "none")
                => \/ disk \in Document /\ Load(disk) = mem
                   \/ mem = NoProgress /\ ~based

StoreInv == TypeOK /\ DownInv /\ TurnsInv /\ RenameInv /\ FileInv /\ CloseInv
===============================================================================
