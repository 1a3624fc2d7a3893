------------------------------ MODULE JobDelivery ------------------------------
(***************************************************************************)
(* What the worker pool promises the goroutine that feeds it: a job is     *)
(* called back once it is worked on, its findings are delivered after      *)
(* that, and unless the pool was stopped it ends only when every job sent  *)
(* has been delivered.  There are no workers, channels or contexts here.   *)
(***************************************************************************)
CONSTANT Jobs

VARIABLES
    stage,     \* how far each job is
    stopped,   \* the context is done, or the sink has failed
    ended      \* the pool has returned

jvars == <<stage, stopped, ended>>

Stage == {"unsent", "sent", "called", "delivered"}

Send(j) == /\ stage[j] = "unsent"
           /\ stage' = [stage EXCEPT ![j] = "sent"]
           /\ UNCHANGED <<stopped, ended>>

CallBack(j) == /\ ~ended
               /\ stage[j] = "sent"
               /\ stage' = [stage EXCEPT ![j] = "called"]
               /\ UNCHANGED <<stopped, ended>>

Deliver(j) == /\ ~ended
              /\ stage[j] = "called"
              /\ stage' = [stage EXCEPT ![j] = "delivered"]
              /\ UNCHANGED <<stopped, ended>>

Stop == /\ stopped' = TRUE
        /\ UNCHANGED <<stage, ended>>

End == /\ \/ stopped
          \/ \A j \in Jobs : stage[j] \in {"unsent", "delivered"}
       /\ ended' = TRUE
       /\ UNCHANGED <<stage, stopped>>

JInit == /\ stage = [j \in Jobs |-> "unsent"]
         /\ stopped = FALSE
         /\ ended = FALSE

JNext == \/ \E j \in Jobs : Send(j) \/ CallBack(j) \/ Deliver(j)
         \/ Stop \/ End

JSpec == JInit /\ [][JNext]_jvars
===============================================================================
