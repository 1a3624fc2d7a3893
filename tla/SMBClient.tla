------------------------------- MODULE SMBClient -------------------------------
(***************************************************************************)
(* One smb.Client of internal/smb: scanHost connects it, its walk and all  *)
(* workers use it at the same time, and scanHost closes it, after an SMB   *)
(* timeout or at the time limit while workers are still reading.  Each     *)
(* operation runs under an operationGuard, which sets the deadline all     *)
(* operations share and starts a timer of its own; when the timer fires it *)
(* closes the connection under everybody.  The server may answer, refuse   *)
(* or stay silent.                                                         *)
(*                                                                         *)
(* Time is what is left of each timer and of the deadline.  A timer that   *)
(* is due fires at some later moment.  The receiver of the protocol stack  *)
(* reads all the time: when it fails, every call fails; when it ends       *)
(* because of a logoff, it leaves no error and nobody to send.             *)
(***************************************************************************)
EXTENDS Naturals

CONSTANTS Main,          \* scanHost: connects, lists, walks, closes
          Workers,       \* the pool's workers: read files
          Timeout        \* opTimeout, in ticks

ASSUME ClientAssumption == Main \notin Workers /\ Timeout \in Nat \ {0}

Procs == Workers \cup {Main}

VARIABLES
    conn,       \* the TCP connection and its receiver
    deadline,   \* what is left of it, NoDeadline if none is set
    attached,   \* c.conn and c.session are set
    locked,     \* Main holds c.mu, in Connect or in Close
    main,       \* where scanHost is with the client
    op,         \* the operation of each process
    mounted,    \* who holds a mounted share (ReadFile, WalkShare)
    timer,      \* the timer of each process's guard
    left,       \* what is left of it
    timedOut    \* history: some operation has returned a timeout

clientVars == <<attached, locked, main, mounted>>
timeVars == <<deadline, timer, left>>
vars == <<conn, timeVars, clientVars, op, timedOut>>

NoDeadline == Timeout + 1

\* "begun": the guard has c.conn; "dated": it has set the deadline; "sending":
\* its timer runs; "cut": the logoff came while the call was out; "back": the
\* call has returned; "halted": finish is done with the timer.
OpPhase == {"idle", "begun", "dated", "sending", "calling", "cut", "back", "halted"}
Kind == {"connect", "mount", "call", "umount", "logoff"}
CallError == {"none", "refused", "timeout", "lost"}
OpState == [at : OpPhase, kind : Kind, guarded : BOOLEAN, err : CallError]

\* "broken": the receiver has met the deadline; "ended": the logoff succeeded.
ConnState == {"none", "open", "broken", "closed", "ended"}

\* "started": the timer's function runs; "expired": it has set the flag;
\* "fired": it has closed the connection.
TimerPhase == {"off", "running", "started", "expired", "fired"}

TypeOK == /\ conn \in ConnState
          /\ deadline \in 0 .. NoDeadline
          /\ attached \in BOOLEAN
          /\ locked \in BOOLEAN
          /\ main \in {"new", "connecting", "up", "failed", "down"}
          /\ op \in [Procs -> OpState]
          /\ mounted \subseteq Procs
          /\ timer \in [Procs -> TimerPhase]
          /\ left \in [Procs -> 0 .. Timeout]
          /\ timedOut \in BOOLEAN

Idle == [at |-> "idle", kind |-> "call", guarded |-> FALSE, err |-> "none"]

Init == /\ conn = "none" /\ deadline = NoDeadline
        /\ attached = FALSE /\ locked = FALSE /\ main = "new"
        /\ op = [p \in Procs |-> Idle]
        /\ mounted = {}
        /\ timer = [p \in Procs |-> "off"]
        /\ left = [p \in Procs |-> 0]
        /\ timedOut = FALSE
-------------------------------------------------------------------------------
(***************************************************************************)
(* An operation begins.                                                    *)
(***************************************************************************)
Enter(p, kind, guarded) ==
    /\ op[p].at = "idle"
    /\ op' = [op EXCEPT ![p] = [at |-> IF guarded THEN "begun" ELSE "sending",
                                kind |-> kind, guarded |-> guarded, err |-> "none"]]
    /\ UNCHANGED <<timeVars, timedOut>>

\* Connect: the lock is held until the session is set up.
Dial == /\ main = "new"
        /\ conn' = "open" /\ locked' = TRUE /\ main' = "connecting"
        /\ Enter(Main, "connect", TRUE)
        /\ UNCHANGED <<attached, mounted>>

DialFails == /\ main = "new"
             /\ main' = "failed"
             /\ UNCHANGED <<conn, timeVars, attached, locked, mounted, op, timedOut>>

\* What a process may do next: the walk and ReadFile mount, call and unmount;
\* ListShares also calls without a share of its own.
Kinds(p) == IF p \in mounted THEN {"call", "umount"}
            ELSE IF p = Main THEN {"mount", "call"} ELSE {"mount"}

\* beginOperation: without a connection the guard does nothing.
beginOperation(p, kind) ==
    /\ IF p = Main THEN main = "up" ELSE main \in {"up", "down"}
    /\ kind \in Kinds(p)
    /\ ~locked
    /\ Enter(p, kind, attached)
    /\ UNCHANGED <<conn, clientVars>>

\* closeLocked up to the call of Logoff; scanHost is not in a walk.
Close == /\ main = "up"
         /\ Main \notin mounted
         /\ locked' = TRUE
         /\ Enter(Main, "logoff", TRUE)
         /\ UNCHANGED <<conn, attached, main, mounted>>

SetDeadline(p) == /\ op[p].at = "begun"
                  /\ op' = [op EXCEPT ![p].at = "dated"]
                  /\ deadline' = IF conn = "open" THEN Timeout ELSE deadline
                  /\ UNCHANGED <<conn, timer, left, clientVars, timedOut>>

StartNoTimer(p) ==   \* mutant: the guard relies on the connection's deadline
    /\ op[p].at = "dated"
    /\ op' = [op EXCEPT ![p].at = "sending"]
    /\ UNCHANGED <<conn, timeVars, clientVars, timedOut>>

StartTimer(p) == /\ op[p].at = "dated"
                 /\ op' = [op EXCEPT ![p].at = "sending"]
                 /\ timer' = [timer EXCEPT ![p] = "running"]
                 /\ left' = [left EXCEPT ![p] = Timeout]
                 /\ UNCHANGED <<conn, deadline, clientVars, timedOut>>

Back(p, err) == op' = [op EXCEPT ![p].at = "back", ![p].err = err]

\* A mount takes the session under the lock first (connectedSession).
Send(p) == /\ op[p].at = "sending"
           /\ op[p].kind = "mount" => ~locked
           /\ IF op[p].kind = "mount" /\ ~attached THEN Back(p, "lost")
              ELSE op' = [op EXCEPT ![p].at = "calling"]
           /\ UNCHANGED <<conn, timeVars, clientVars, timedOut>>
-------------------------------------------------------------------------------
(***************************************************************************)
(* The call returns.                                                       *)
(***************************************************************************)
Answer(p, err) == /\ op[p].at = "calling"
                  /\ conn = "open"
                  /\ ~(op[p].kind = "logoff" /\ err = "none")
                  /\ Back(p, err)
                  /\ UNCHANGED <<conn, timeVars, clientVars, timedOut>>

\* logoff ends the receiver and closes the transport; calls that are out get
\* neither an answer nor an error.
LogoffAnswer == /\ op[Main].at = "calling" /\ op[Main].kind = "logoff"
                /\ conn = "open"
                /\ conn' = "ended"
                /\ op' = [p \in Procs |->
                            IF p = Main THEN [op[p] EXCEPT !.at = "back"]
                            ELSE IF op[p].at = "calling" THEN [op[p] EXCEPT !.at = "cut"]
                            ELSE op[p]]
                /\ UNCHANGED <<timeVars, clientVars, timedOut>>

\* The receiver's error, or that of the write.
CallFails(p) == /\ op[p].at = "calling"
                /\ conn \in {"broken", "closed"}
                /\ Back(p, IF conn = "broken" THEN "timeout" ELSE "lost")
                /\ UNCHANGED <<conn, timeVars, clientVars, timedOut>>

\* After the logoff a write fails as long as the sender is there; then the call
\* waits for it for ever.
WriteFails(p) == /\ op[p].at = "calling"
                 /\ conn = "ended"
                 /\ Back(p, "lost")
                 /\ UNCHANGED <<conn, timeVars, clientVars, timedOut>>

\* The stack decodes an empty packet: ReadFile panics past finish, so that the
\* timer is not stopped, and unmounts; the worker recovers.
Panic(p) == /\ op[p].at = "cut"
            /\ op' = [op EXCEPT ![p] = Idle]
            /\ mounted' = IF op[p].kind = "umount" THEN mounted \ {p} ELSE mounted
            /\ UNCHANGED <<conn, timeVars, attached, locked, main, timedOut>>
-------------------------------------------------------------------------------
(***************************************************************************)
(* finish, and what the caller does with its error.                        *)
(***************************************************************************)
StopNoWait(p) ==   \* mutant: finish does not wait for the timer's function
    /\ op[p].at = "back"
    /\ timer' = [timer EXCEPT ![p] = IF @ = "running" THEN "off" ELSE @]
    /\ op' = [op EXCEPT ![p].at = "halted"]
    /\ UNCHANGED <<conn, deadline, left, clientVars, timedOut>>

\* timer.Stop(), and if it is too late <-done
StopTimer(p) == /\ op[p].at = "back"
                /\ op[p].guarded => timer[p] \notin {"started", "expired"}
                /\ timer' = [timer EXCEPT ![p] = IF op[p].guarded /\ @ = "running"
                                                 THEN "off" ELSE @]
                /\ op' = [op EXCEPT ![p].at = "halted"]
                /\ UNCHANGED <<conn, deadline, left, clientVars, timedOut>>

Expired(p) == op[p].guarded /\ timer[p] = "fired"

ClearOnSuccess(p) ==   \* mutant: after an error the deadline is left
    IF Expired(p) \/ conn # "open" \/ op[p].err # "none" THEN deadline
    ELSE NoDeadline

DeadlineAfter(p) == IF Expired(p) \/ conn # "open" \/ ~op[p].guarded THEN deadline
                    ELSE NoDeadline

FinishError(p) == IF Expired(p) THEN "timeout" ELSE op[p].err

Finish(p, kind) == /\ op[p].at = "halted" /\ op[p].kind = kind
                   /\ deadline' = DeadlineAfter(p)
                   /\ timer' = [timer EXCEPT ![p] = IF Expired(p) THEN "off" ELSE @]
                   /\ timedOut' = (timedOut \/ FinishError(p) = "timeout")
                   /\ op' = [op EXCEPT ![p] = Idle]
                   /\ UNCHANGED left

\* Connect closes a connection whose session could not be set up.
EndConnect == LET ok == FinishError(Main) = "none"
              IN  /\ Finish(Main, "connect")
                  /\ attached' = ok /\ locked' = FALSE
                  /\ main' = IF ok THEN "up" ELSE "failed"
                  /\ conn' = IF ok THEN conn ELSE "closed"
                  /\ UNCHANGED mounted

EndMount(p) == /\ Finish(p, "mount")
               /\ mounted' = IF FinishError(p) = "none" THEN mounted \cup {p}
                             ELSE mounted
               /\ UNCHANGED <<conn, attached, locked, main>>

EndCall(p) == /\ Finish(p, "call")
              /\ UNCHANGED <<conn, clientVars>>

EndUmount(p) == /\ Finish(p, "umount")
                /\ mounted' = mounted \ {p}
                /\ UNCHANGED <<conn, attached, locked, main>>

CloseAfterLogoff ==   \* mutant: when Logoff fails, Close forgets the connection
    /\ Finish(Main, "logoff")
    /\ attached' = FALSE /\ locked' = FALSE /\ main' = "down"
    /\ UNCHANGED <<conn, mounted>>

\* The rest of closeLocked, whatever Logoff returned.
EndClose == /\ Finish(Main, "logoff")
            /\ attached' = FALSE /\ locked' = FALSE /\ main' = "down"
            /\ conn' = IF conn = "ended" THEN conn ELSE "closed"
            /\ UNCHANGED mounted
-------------------------------------------------------------------------------
(***************************************************************************)
(* Time.                                                                   *)
(***************************************************************************)
Fire(p) == /\ timer[p] = "running" /\ left[p] = 0
           /\ timer' = [timer EXCEPT ![p] = "started"]
           /\ UNCHANGED <<conn, deadline, left, clientVars, op, timedOut>>

Expire(p) == /\ timer[p] = "started"
             /\ timer' = [timer EXCEPT ![p] = "expired"]
             /\ UNCHANGED <<conn, deadline, left, clientVars, op, timedOut>>

CloseConn(p) == /\ timer[p] = "expired"
                /\ timer' = [timer EXCEPT ![p] = "fired"]
                /\ conn' = IF conn = "ended" THEN conn ELSE "closed"
                /\ UNCHANGED <<deadline, left, clientVars, op, timedOut>>

DeadlineHit == /\ conn = "open" /\ deadline = 0
               /\ conn' = "broken"
               /\ UNCHANGED <<timeVars, clientVars, op, timedOut>>

Less(n) == IF n > 0 THEN n - 1 ELSE n

Tick == /\ deadline' = IF deadline = NoDeadline THEN deadline ELSE Less(deadline)
        /\ left' = [p \in Procs |-> IF timer[p] = "running" THEN Less(left[p])
                                    ELSE left[p]]
        /\ <<deadline', left'>> # <<deadline, left>>
        /\ UNCHANGED <<conn, timer, clientVars, op, timedOut>>
-------------------------------------------------------------------------------
Guard(p) == SetDeadline(p) \/ StartTimer(p) \/ Send(p) \/ CallFails(p) \/ Panic(p)
            \/ StopTimer(p) \/ EndMount(p) \/ EndCall(p) \/ EndUmount(p)

MainEnd == EndConnect \/ EndClose

Timer(p) == Fire(p) \/ Expire(p) \/ CloseConn(p)

Next == \/ Dial \/ DialFails \/ Close
        \/ \E p \in Procs, kind \in Kind : beginOperation(p, kind)
        \/ \E p \in Procs : Guard(p) \/ Timer(p) \/ WriteFails(p)
        \/ \E p \in Procs, err \in {"none", "refused"} : Answer(p, err)
        \/ MainEnd \/ LogoffAnswer \/ DeadlineHit \/ Tick

Spec == Init /\ [][Next]_vars

\* Processes and timers run and time passes.  Nothing makes the server answer,
\* and nothing makes anybody begin an operation or close the client.
Fairness == /\ \A p \in Procs : WF_vars(Guard(p)) /\ WF_vars(Timer(p))
            /\ WF_vars(MainEnd) /\ WF_vars(DeadlineHit) /\ WF_vars(Tick)

FairSpec == Spec /\ Fairness
-------------------------------------------------------------------------------
(***************************************************************************)
(* Properties.                                                             *)
(***************************************************************************)
AllIdle == \A p \in Procs : op[p].at = "idle"

\* No timer outlives its operation: finish stops it or waits for it, so that no
\* connection is closed on account of an operation that has returned.  (Calls cut
\* off by a logoff leave one; the connection is gone then.)
TimersEndWithOperations ==
    conn # "ended" => \A p \in Procs : op[p].at = "idle" => timer[p] = "off"

\* A connection that a guard closed under the client is accounted for: once the
\* operations that were under way have returned, one of them has said that it
\* timed out, which is what makes scanHost give up the host.
ClosedIsReported == (attached /\ conn = "closed" /\ AllIdle) => timedOut

\* The deadline is shared, set and cleared by operations in any order; one that is
\* left behind would break an idle connection between two operations.
IdleHasNoDeadline == (conn = "open" /\ AllIdle) => deadline = NoDeadline

\* Whatever happened to the session, a client that is not connected has no open
\* connection: Connect closes the one it could not use and Close the one it had.
NoConnectionIsLeft == (~locked /\ ~attached) => conn \in {"none", "closed", "ended"}

\* Every operation returns though the server may be silent for ever and others
\* clear the deadline it set, unless a logoff ends the session under it.
OperationsReturn == \A p \in Procs :
                        op[p].at # "idle" ~> (op[p].at = "idle" \/ conn = "ended")

\* troubleshooting.md: at the time limit the scan stops gracefully.  scanHost then
\* closes the client while workers read, and waits for them.  Checked by itself:
\* a logoff that succeeds leaves no sender, and a worker's next call never returns.
ReadsEndAfterClose == (main = "down") ~> AllIdle
===============================================================================
