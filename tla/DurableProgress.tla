---------------------------- MODULE DurableProgress ----------------------------
(***************************************************************************)
(* What a checkpoint promises the scan, without locks, dirty flags,        *)
(* temporary files or saving goroutines: the durable progress is replaced  *)
(* as a whole, and only by the progress the run has at that moment.  A run *)
(* starts from nothing or from the durable progress, and a clean end       *)
(* leaves all it has done durable, unless it had nothing to add.           *)
(***************************************************************************)
EXTENDS CheckpointData

VARIABLES
    progress,   \* what the run has completed
    durable,    \* what the next resumed run would start from
    phase       \* "down", "up", or "clean" after a close without error

avars == <<progress, durable, phase>>

Begin == /\ phase = "down"
         /\ phase' = "up"
         /\ progress' \in {NoProgress, durable} \cap Progress
         /\ UNCHANGED durable

Complete == /\ phase = "up"
            /\ \/ \E h \in HostNames : progress' = MarkHost(progress, h)
               \/ \E h \in HostNames, s \in ShareNames :
                    progress' = MarkShare(progress, h, s)
               \/ \E h \in HostNames, s \in ShareNames, f \in PathNames,
                     t \in Stamp : progress' = MarkFile(progress, h, s, f, t)
            /\ UNCHANGED <<durable, phase>>

Persist == /\ phase = "up"
           /\ durable' = progress
           /\ UNCHANGED <<progress, phase>>

CloseClean == /\ phase = "up"
              /\ progress \in {durable, NoProgress}
              /\ phase' = "clean"
              /\ UNCHANGED <<progress, durable>>

End == /\ phase # "down"
       /\ phase' = "down"
       /\ progress' = NoProgress
       /\ UNCHANGED durable

ANext == Begin \/ Complete \/ Persist \/ CloseClean \/ End

\* The durable progress may at first be a value no run can start from.
AInit == progress = NoProgress /\ phase = "down"

ASpec == AInit /\ [][ANext]_avars
===============================================================================
