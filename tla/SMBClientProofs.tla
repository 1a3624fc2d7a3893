---------------------------- MODULE SMBClientProofs ----------------------------
(***************************************************************************)
(* What holds of SMBClient for any workers and any timeout.                *)
(***************************************************************************)
EXTENDS SMBClient, TLAPS

-------------------------------------------------------------------------------
(***************************************************************************)
(* The inductive invariant.                                                *)
(***************************************************************************)
\* While the session has not ended, only the guard of an operation that is out or
\* about to return has a timer, and finish has settled it before it goes on.
TimerPlace ==
    conn # "ended" =>
        \A p \in Procs :
            /\ timer[p] # "off" =>
                   /\ op[p].guarded
                   /\ op[p].at \in {"sending", "calling", "back", "halted"}
            /\ op[p].at = "halted" => timer[p] \in {"off", "fired"}
            /\ op[p].at # "cut"

FiredCloses == \A p \in Procs : timer[p] = "fired" => conn \in {"closed", "ended"}

BegunIsGuarded == \A p \in Procs : op[p].at \in {"begun", "dated"} => op[p].guarded

\* A deadline belongs to an operation that is under way, not always the one that
\* set it last.
DeadlineOwned ==
    (conn = "open" /\ deadline # NoDeadline) =>
        \E p \in Procs : op[p].guarded /\ op[p].at \notin {"idle", "begun"}

\* Who closed the connection has said so, or has still to return.
ClosedAccounted ==
    (conn = "closed" /\ (attached \/ main = "connecting")) =>
        timedOut \/ \E p \in Procs : op[p].guarded /\ timer[p] = "fired"

NewIsBlank == main = "new" => /\ conn = "none" /\ deadline = NoDeadline
                              /\ \A p \in Procs : op[p].at = "idle" /\ timer[p] = "off"

ConnectFirst == op[Main].kind = "connect" => conn # "ended" /\ main = "connecting"

Inv == /\ TypeOK
       /\ NewIsBlank
       /\ ConnectFirst
       /\ TimerPlace
       /\ FiredCloses
       /\ BegunIsGuarded
       /\ DeadlineOwned
       /\ ClosedAccounted
       /\ NoConnectionIsLeft
-------------------------------------------------------------------------------
(***************************************************************************)
(* Each part of the invariant, step by step.                               *)
(***************************************************************************)
\* What finish leaves behind has its types.
LEMMA FinishTypes ==
    ASSUME TypeOK, NEW p \in Procs, NEW kind, Finish(p, kind)
    PROVE  /\ deadline' \in 0 .. NoDeadline /\ left' \in [Procs -> 0 .. Timeout]
           /\ timer' \in [Procs -> TimerPhase] /\ timedOut' \in BOOLEAN
           /\ op' \in [Procs -> OpState]
<1>1. deadline' \in 0 .. NoDeadline /\ left' \in [Procs -> 0 .. Timeout]
  BY ClientAssumption DEF TypeOK, Finish, DeadlineAfter, NoDeadline
<1>2. timer' \in [Procs -> TimerPhase] /\ timedOut' \in BOOLEAN
  BY DEF TypeOK, Finish, TimerPhase
<1>3. op' \in [Procs -> OpState]
  BY DEF TypeOK, Finish, Idle, OpState, OpPhase, Kind, CallError
<1> QED
  BY <1>1, <1>2, <1>3

\* Every step keeps the types; Finish resets an operation, time only runs down.
LEMMA TypesKept == TypeOK /\ [Next]_vars => TypeOK'
<1> SUFFICES ASSUME TypeOK, [Next]_vars
             PROVE  TypeOK'
  OBVIOUS
<1>1. CASE Dial
  BY <1>1, ClientAssumption DEF Dial, Enter, timeVars, clientVars, TypeOK,
     Procs, OpState, OpPhase, Kind, CallError, ConnState, TimerPhase,
     NoDeadline, Idle
<1>2. CASE DialFails
  BY <1>2, ClientAssumption DEF DialFails, timeVars, clientVars, TypeOK, Procs,
     OpState, OpPhase, Kind, CallError, ConnState, TimerPhase, NoDeadline, Idle
<1>3. CASE Close
  BY <1>3, ClientAssumption DEF Close, Enter, timeVars, clientVars, TypeOK,
     Procs, OpState, OpPhase, Kind, CallError, ConnState, TimerPhase,
     NoDeadline, Idle
<1>4. ASSUME NEW p \in Procs, NEW kind \in Kind, beginOperation(p, kind)
      PROVE  TypeOK'
  BY <1>4, ClientAssumption DEF beginOperation, Kinds, Enter, timeVars,
     clientVars, TypeOK, Procs, OpState, OpPhase, Kind, CallError, ConnState,
     TimerPhase, NoDeadline, Idle
<1>5. ASSUME NEW p \in Procs, SetDeadline(p)
      PROVE  TypeOK'
  BY <1>5, ClientAssumption DEF SetDeadline, timeVars, clientVars, TypeOK,
     Procs, OpState, OpPhase, Kind, CallError, ConnState, TimerPhase,
     NoDeadline, Idle
<1>6. ASSUME NEW p \in Procs, StartTimer(p)
      PROVE  TypeOK'
  BY <1>6, ClientAssumption DEF StartTimer, timeVars, clientVars, TypeOK,
     Procs, OpState, OpPhase, Kind, CallError, ConnState, TimerPhase,
     NoDeadline, Idle
<1>7. ASSUME NEW p \in Procs, Send(p)
      PROVE  TypeOK'
  BY <1>7, ClientAssumption DEF Send, Back, timeVars, clientVars, TypeOK,
     Procs, OpState, OpPhase, Kind, CallError, ConnState, TimerPhase,
     NoDeadline, Idle
<1>8. ASSUME NEW p \in Procs, CallFails(p)
      PROVE  TypeOK'
  BY <1>8, ClientAssumption DEF CallFails, Back, timeVars, clientVars, TypeOK,
     Procs, OpState, OpPhase, Kind, CallError, ConnState, TimerPhase,
     NoDeadline, Idle
<1>9. ASSUME NEW p \in Procs, Panic(p)
      PROVE  TypeOK'
  BY <1>9, ClientAssumption DEF Panic, timeVars, clientVars, TypeOK, Procs,
     OpState, OpPhase, Kind, CallError, ConnState, TimerPhase, NoDeadline, Idle
<1>10. ASSUME NEW p \in Procs, StopTimer(p)
      PROVE  TypeOK'
  BY <1>10, ClientAssumption DEF StopTimer, TimerPhase, timeVars, clientVars,
     TypeOK, Procs, OpState, OpPhase, Kind, CallError, ConnState, TimerPhase,
     NoDeadline, Idle
<1>11. ASSUME NEW p \in Procs, EndMount(p)
      PROVE  TypeOK'
  BY <1>11, ClientAssumption DEF EndMount, Finish, DeadlineAfter, FinishError,
     Expired, timeVars, clientVars, TypeOK, Procs, OpState, OpPhase, Kind,
     CallError, ConnState, TimerPhase, NoDeadline, Idle
<1>12. ASSUME NEW p \in Procs, EndCall(p)
      PROVE  TypeOK'
  BY <1>12, ClientAssumption DEF EndCall, Finish, DeadlineAfter, FinishError,
     Expired, timeVars, clientVars, TypeOK, Procs, OpState, OpPhase, Kind,
     CallError, ConnState, TimerPhase, NoDeadline, Idle
<1>13. ASSUME NEW p \in Procs, EndUmount(p)
      PROVE  TypeOK'
  BY <1>13, ClientAssumption DEF EndUmount, Finish, DeadlineAfter, FinishError,
     Expired, timeVars, clientVars, TypeOK, Procs, OpState, OpPhase, Kind,
     CallError, ConnState, TimerPhase, NoDeadline, Idle
<1>14. ASSUME NEW p \in Procs, Fire(p)
      PROVE  TypeOK'
  BY <1>14, ClientAssumption DEF Fire, timeVars, clientVars, TypeOK, Procs,
     OpState, OpPhase, Kind, CallError, ConnState, TimerPhase, NoDeadline, Idle
<1>15. ASSUME NEW p \in Procs, Expire(p)
      PROVE  TypeOK'
  BY <1>15, ClientAssumption DEF Expire, timeVars, clientVars, TypeOK, Procs,
     OpState, OpPhase, Kind, CallError, ConnState, TimerPhase, NoDeadline, Idle
<1>16. ASSUME NEW p \in Procs, CloseConn(p)
      PROVE  TypeOK'
  BY <1>16, ClientAssumption DEF CloseConn, timeVars, clientVars, TypeOK,
     Procs, OpState, OpPhase, Kind, CallError, ConnState, TimerPhase,
     NoDeadline, Idle
<1>17. ASSUME NEW p \in Procs, WriteFails(p)
      PROVE  TypeOK'
  BY <1>17, ClientAssumption DEF WriteFails, Back, timeVars, clientVars,
     TypeOK, Procs, OpState, OpPhase, Kind, CallError, ConnState, TimerPhase,
     NoDeadline, Idle
<1>18. ASSUME NEW p \in Procs, NEW err \in {"none", "refused"}, Answer(p, err)
      PROVE  TypeOK'
  BY <1>18, ClientAssumption DEF Answer, Back, timeVars, clientVars, TypeOK,
     Procs, OpState, OpPhase, Kind, CallError, ConnState, TimerPhase,
     NoDeadline, Idle
<1>19. CASE EndConnect
  <2>1. Main \in Procs
    BY DEF Procs
  <2>2. /\ deadline' \in 0 .. NoDeadline /\ left' \in [Procs -> 0 .. Timeout]
        /\ timer' \in [Procs -> TimerPhase] /\ timedOut' \in BOOLEAN
        /\ op' \in [Procs -> OpState]
    BY <1>19, <2>1, FinishTypes DEF EndConnect
  <2>3. attached' \in BOOLEAN /\ locked' \in BOOLEAN /\ mounted' \subseteq Procs
    BY <1>19 DEF EndConnect, TypeOK
  <2>4. main' \in {"new", "connecting", "up", "failed", "down"} /\ conn' \in ConnState
    BY <1>19 DEF EndConnect, TypeOK, ConnState
  <2> QED
    BY <2>2, <2>3, <2>4 DEF TypeOK
<1>20. CASE EndClose
  <2>1. Main \in Procs
    BY DEF Procs
  <2>2. /\ deadline' \in 0 .. NoDeadline /\ left' \in [Procs -> 0 .. Timeout]
        /\ timer' \in [Procs -> TimerPhase] /\ timedOut' \in BOOLEAN
        /\ op' \in [Procs -> OpState]
    BY <1>20, <2>1, FinishTypes DEF EndClose
  <2>3. attached' \in BOOLEAN /\ locked' \in BOOLEAN /\ mounted' \subseteq Procs
    BY <1>20 DEF EndClose, TypeOK
  <2>4. main' \in {"new", "connecting", "up", "failed", "down"} /\ conn' \in ConnState
    BY <1>20 DEF EndClose, TypeOK, ConnState
  <2> QED
    BY <2>2, <2>3, <2>4 DEF TypeOK
<1>21. CASE LogoffAnswer
  BY <1>21, ClientAssumption DEF LogoffAnswer, timeVars, clientVars, TypeOK,
     Procs, OpState, OpPhase, Kind, CallError, ConnState, TimerPhase,
     NoDeadline, Idle
<1>22. CASE DeadlineHit
  BY <1>22, ClientAssumption DEF DeadlineHit, timeVars, clientVars, TypeOK,
     Procs, OpState, OpPhase, Kind, CallError, ConnState, TimerPhase,
     NoDeadline, Idle
<1>23. CASE Tick
  BY <1>23, ClientAssumption DEF Tick, Less, timeVars, clientVars, TypeOK,
     Procs, OpState, OpPhase, Kind, CallError, ConnState, TimerPhase,
     NoDeadline, Idle
<1>24. CASE UNCHANGED vars
  BY <1>24 DEF vars, timeVars, clientVars, TypeOK
<1> QED
  BY <1>1, <1>2, <1>3, <1>4, <1>5, <1>6, <1>7, <1>8, <1>9, <1>10, <1>11, <1>12,
     <1>13, <1>14, <1>15, <1>16, <1>17, <1>18, <1>19, <1>20, <1>21, <1>22,
     <1>23, <1>24 DEF Next, Guard, MainEnd, Timer

\* Nothing is connected or under way before Connect.
LEMMA BlankKept ==
    /\ TypeOK
    /\ NewIsBlank
    /\ ConnectFirst
    /\ [Next]_vars
    => NewIsBlank' /\ ConnectFirst'
<1> SUFFICES ASSUME TypeOK, NewIsBlank, ConnectFirst, [Next]_vars
             PROVE  NewIsBlank' /\ ConnectFirst'
  OBVIOUS
<1> USE ClientAssumption DEF TypeOK, OpState, Idle, Procs, NewIsBlank,
   ConnectFirst
<1>1. CASE Dial
  BY <1>1 DEF Dial, Enter, timeVars, clientVars
<1>2. CASE DialFails
  BY <1>2 DEF DialFails, timeVars, clientVars
<1>3. CASE Close
  BY <1>3 DEF Close, Enter, timeVars, clientVars
<1>4. ASSUME NEW p \in Procs, NEW kind \in Kind, beginOperation(p, kind)
      PROVE  NewIsBlank' /\ ConnectFirst'
  BY <1>4 DEF beginOperation, Kinds, Enter, timeVars, clientVars
<1>5. ASSUME NEW p \in Procs, SetDeadline(p)
      PROVE  NewIsBlank' /\ ConnectFirst'
  BY <1>5 DEF SetDeadline, timeVars, clientVars
<1>6. ASSUME NEW p \in Procs, StartTimer(p)
      PROVE  NewIsBlank' /\ ConnectFirst'
  BY <1>6 DEF StartTimer, timeVars, clientVars
<1>7. ASSUME NEW p \in Procs, Send(p)
      PROVE  NewIsBlank' /\ ConnectFirst'
  BY <1>7 DEF Send, Back, timeVars, clientVars
<1>8. ASSUME NEW p \in Procs, CallFails(p)
      PROVE  NewIsBlank' /\ ConnectFirst'
  BY <1>8 DEF CallFails, Back, timeVars, clientVars
<1>9. ASSUME NEW p \in Procs, Panic(p)
      PROVE  NewIsBlank' /\ ConnectFirst'
  BY <1>9 DEF Panic, timeVars, clientVars
<1>10. ASSUME NEW p \in Procs, StopTimer(p)
      PROVE  NewIsBlank' /\ ConnectFirst'
  BY <1>10 DEF StopTimer, TimerPhase, timeVars, clientVars
<1>11. ASSUME NEW p \in Procs, EndMount(p)
      PROVE  NewIsBlank' /\ ConnectFirst'
  BY <1>11 DEF EndMount, Finish, DeadlineAfter, FinishError, Expired, timeVars,
     clientVars
<1>12. ASSUME NEW p \in Procs, EndCall(p)
      PROVE  NewIsBlank' /\ ConnectFirst'
  BY <1>12 DEF EndCall, Finish, DeadlineAfter, FinishError, Expired, timeVars,
     clientVars
<1>13. ASSUME NEW p \in Procs, EndUmount(p)
      PROVE  NewIsBlank' /\ ConnectFirst'
  BY <1>13 DEF EndUmount, Finish, DeadlineAfter, FinishError, Expired,
     timeVars, clientVars
<1>14. ASSUME NEW p \in Procs, Fire(p)
      PROVE  NewIsBlank' /\ ConnectFirst'
  BY <1>14 DEF Fire, timeVars, clientVars
<1>15. ASSUME NEW p \in Procs, Expire(p)
      PROVE  NewIsBlank' /\ ConnectFirst'
  BY <1>15 DEF Expire, timeVars, clientVars
<1>16. ASSUME NEW p \in Procs, CloseConn(p)
      PROVE  NewIsBlank' /\ ConnectFirst'
  BY <1>16 DEF CloseConn, timeVars, clientVars
<1>17. ASSUME NEW p \in Procs, WriteFails(p)
      PROVE  NewIsBlank' /\ ConnectFirst'
  BY <1>17 DEF WriteFails, Back, timeVars, clientVars
<1>18. ASSUME NEW p \in Procs, NEW err \in {"none", "refused"}, Answer(p, err)
      PROVE  NewIsBlank' /\ ConnectFirst'
  BY <1>18 DEF Answer, Back, timeVars, clientVars
<1>19. CASE EndConnect
  BY <1>19 DEF EndConnect, Finish, DeadlineAfter, FinishError, Expired,
     timeVars, clientVars
<1>20. CASE EndClose
  BY <1>20 DEF EndClose, Finish, DeadlineAfter, FinishError, Expired, timeVars,
     clientVars
<1>21. CASE LogoffAnswer
  BY <1>21 DEF LogoffAnswer, timeVars, clientVars
<1>22. CASE DeadlineHit
  BY <1>22 DEF DeadlineHit, timeVars, clientVars
<1>23. CASE Tick
  BY <1>23 DEF Tick, Less, timeVars, clientVars
<1>24. CASE UNCHANGED vars
  BY <1>24 DEF vars, timeVars, clientVars
<1> QED
  BY <1>1, <1>2, <1>3, <1>4, <1>5, <1>6, <1>7, <1>8, <1>9, <1>10, <1>11, <1>12,
     <1>13, <1>14, <1>15, <1>16, <1>17, <1>18, <1>19, <1>20, <1>21, <1>22,
     <1>23, <1>24 DEF Next, Guard, MainEnd, Timer

\* Timers are where they belong after every step: finish has waited for the one it
\* could not stop.
LEMMA TimersKept ==
    /\ TypeOK
    /\ NewIsBlank
    /\ ConnectFirst
    /\ TimerPlace
    /\ FiredCloses
    /\ BegunIsGuarded
    /\ [Next]_vars
    => TimerPlace' /\ FiredCloses' /\ BegunIsGuarded'
<1> SUFFICES ASSUME TypeOK, NewIsBlank, ConnectFirst, TimerPlace, FiredCloses,
                    BegunIsGuarded, [Next]_vars
             PROVE  TimerPlace' /\ FiredCloses' /\ BegunIsGuarded'
  OBVIOUS
<1> USE ClientAssumption DEF NewIsBlank, ConnectFirst, TypeOK, OpState, Idle,
   Procs, TimerPlace, FiredCloses, BegunIsGuarded
<1>1. CASE Dial
  BY <1>1 DEF Dial, Enter, timeVars, clientVars
<1>2. CASE DialFails
  BY <1>2 DEF DialFails, timeVars, clientVars
<1>3. CASE Close
  BY <1>3 DEF Close, Enter, timeVars, clientVars
<1>4. ASSUME NEW p \in Procs, NEW kind \in Kind, beginOperation(p, kind)
      PROVE  TimerPlace' /\ FiredCloses' /\ BegunIsGuarded'
  BY <1>4 DEF beginOperation, Kinds, Enter, timeVars, clientVars
<1>5. ASSUME NEW p \in Procs, SetDeadline(p)
      PROVE  TimerPlace' /\ FiredCloses' /\ BegunIsGuarded'
  BY <1>5 DEF SetDeadline, timeVars, clientVars
<1>6. ASSUME NEW p \in Procs, StartTimer(p)
      PROVE  TimerPlace' /\ FiredCloses' /\ BegunIsGuarded'
  BY <1>6 DEF StartTimer, timeVars, clientVars
<1>7. ASSUME NEW p \in Procs, Send(p)
      PROVE  TimerPlace' /\ FiredCloses' /\ BegunIsGuarded'
  BY <1>7 DEF Send, Back, timeVars, clientVars
<1>8. ASSUME NEW p \in Procs, CallFails(p)
      PROVE  TimerPlace' /\ FiredCloses' /\ BegunIsGuarded'
  BY <1>8 DEF CallFails, Back, timeVars, clientVars
<1>9. ASSUME NEW p \in Procs, Panic(p)
      PROVE  TimerPlace' /\ FiredCloses' /\ BegunIsGuarded'
  BY <1>9 DEF Panic, timeVars, clientVars
<1>10. ASSUME NEW p \in Procs, StopTimer(p)
      PROVE  TimerPlace' /\ FiredCloses' /\ BegunIsGuarded'
  BY <1>10 DEF StopTimer, TimerPhase, timeVars, clientVars
<1>11. ASSUME NEW p \in Procs, EndMount(p)
      PROVE  TimerPlace' /\ FiredCloses' /\ BegunIsGuarded'
  BY <1>11 DEF EndMount, Finish, DeadlineAfter, FinishError, Expired, timeVars,
     clientVars
<1>12. ASSUME NEW p \in Procs, EndCall(p)
      PROVE  TimerPlace' /\ FiredCloses' /\ BegunIsGuarded'
  BY <1>12 DEF EndCall, Finish, DeadlineAfter, FinishError, Expired, timeVars,
     clientVars
<1>13. ASSUME NEW p \in Procs, EndUmount(p)
      PROVE  TimerPlace' /\ FiredCloses' /\ BegunIsGuarded'
  BY <1>13 DEF EndUmount, Finish, DeadlineAfter, FinishError, Expired,
     timeVars, clientVars
<1>14. ASSUME NEW p \in Procs, Fire(p)
      PROVE  TimerPlace' /\ FiredCloses' /\ BegunIsGuarded'
  BY <1>14 DEF Fire, timeVars, clientVars
<1>15. ASSUME NEW p \in Procs, Expire(p)
      PROVE  TimerPlace' /\ FiredCloses' /\ BegunIsGuarded'
  BY <1>15 DEF Expire, timeVars, clientVars
<1>16. ASSUME NEW p \in Procs, CloseConn(p)
      PROVE  TimerPlace' /\ FiredCloses' /\ BegunIsGuarded'
  BY <1>16 DEF CloseConn, timeVars, clientVars
<1>17. ASSUME NEW p \in Procs, WriteFails(p)
      PROVE  TimerPlace' /\ FiredCloses' /\ BegunIsGuarded'
  BY <1>17 DEF WriteFails, Back, timeVars, clientVars
<1>18. ASSUME NEW p \in Procs, NEW err \in {"none", "refused"}, Answer(p, err)
      PROVE  TimerPlace' /\ FiredCloses' /\ BegunIsGuarded'
  BY <1>18 DEF Answer, Back, timeVars, clientVars
<1>19. CASE EndConnect
  BY <1>19 DEF EndConnect, Finish, DeadlineAfter, FinishError, Expired,
     timeVars, clientVars
<1>20. CASE EndClose
  BY <1>20 DEF EndClose, Finish, DeadlineAfter, FinishError, Expired, timeVars,
     clientVars
<1>21. CASE LogoffAnswer
  BY <1>21 DEF LogoffAnswer, timeVars, clientVars
<1>22. CASE DeadlineHit
  BY <1>22 DEF DeadlineHit, timeVars, clientVars
<1>23. CASE Tick
  BY <1>23 DEF Tick, Less, timeVars, clientVars
<1>24. CASE UNCHANGED vars
  BY <1>24 DEF vars, timeVars, clientVars
<1> QED
  BY <1>1, <1>2, <1>3, <1>4, <1>5, <1>6, <1>7, <1>8, <1>9, <1>10, <1>11, <1>12,
     <1>13, <1>14, <1>15, <1>16, <1>17, <1>18, <1>19, <1>20, <1>21, <1>22,
     <1>23, <1>24 DEF Next, Guard, MainEnd, Timer

\* A deadline stays owned: whoever leaves last clears it.
LEMMA DeadlineKept ==
    /\ TypeOK
    /\ NewIsBlank
    /\ ConnectFirst
    /\ TimerPlace
    /\ FiredCloses
    /\ BegunIsGuarded
    /\ DeadlineOwned
    /\ [Next]_vars
    => DeadlineOwned'
<1> SUFFICES ASSUME TypeOK, NewIsBlank, ConnectFirst, TimerPlace, FiredCloses,
                    BegunIsGuarded, DeadlineOwned, [Next]_vars
             PROVE  DeadlineOwned'
  OBVIOUS
<1> USE ClientAssumption DEF NewIsBlank, ConnectFirst, TypeOK, OpState, Idle,
   Procs, DeadlineOwned, TimerPlace, FiredCloses, BegunIsGuarded
<1>1. CASE Dial
  BY <1>1 DEF Dial, Enter, timeVars, clientVars
<1>2. CASE DialFails
  BY <1>2 DEF DialFails, timeVars, clientVars
<1>3. CASE Close
  BY <1>3 DEF Close, Enter, timeVars, clientVars
<1>4. ASSUME NEW p \in Procs, NEW kind \in Kind, beginOperation(p, kind)
      PROVE  DeadlineOwned'
  BY <1>4 DEF beginOperation, Kinds, Enter, timeVars, clientVars
<1>5. ASSUME NEW p \in Procs, SetDeadline(p)
      PROVE  DeadlineOwned'
  BY <1>5 DEF SetDeadline, timeVars, clientVars
<1>6. ASSUME NEW p \in Procs, StartTimer(p)
      PROVE  DeadlineOwned'
  BY <1>6 DEF StartTimer, timeVars, clientVars
<1>7. ASSUME NEW p \in Procs, Send(p)
      PROVE  DeadlineOwned'
  BY <1>7 DEF Send, Back, timeVars, clientVars
<1>8. ASSUME NEW p \in Procs, CallFails(p)
      PROVE  DeadlineOwned'
  BY <1>8 DEF CallFails, Back, timeVars, clientVars
<1>9. ASSUME NEW p \in Procs, Panic(p)
      PROVE  DeadlineOwned'
  BY <1>9 DEF Panic, timeVars, clientVars
<1>10. ASSUME NEW p \in Procs, StopTimer(p)
      PROVE  DeadlineOwned'
  BY <1>10 DEF StopTimer, TimerPhase, timeVars, clientVars
<1>11. ASSUME NEW p \in Procs, EndMount(p)
      PROVE  DeadlineOwned'
  BY <1>11 DEF EndMount, Finish, DeadlineAfter, FinishError, Expired, timeVars,
     clientVars
<1>12. ASSUME NEW p \in Procs, EndCall(p)
      PROVE  DeadlineOwned'
  BY <1>12 DEF EndCall, Finish, DeadlineAfter, FinishError, Expired, timeVars,
     clientVars
<1>13. ASSUME NEW p \in Procs, EndUmount(p)
      PROVE  DeadlineOwned'
  BY <1>13 DEF EndUmount, Finish, DeadlineAfter, FinishError, Expired,
     timeVars, clientVars
<1>14. ASSUME NEW p \in Procs, Fire(p)
      PROVE  DeadlineOwned'
  BY <1>14 DEF Fire, timeVars, clientVars
<1>15. ASSUME NEW p \in Procs, Expire(p)
      PROVE  DeadlineOwned'
  BY <1>15 DEF Expire, timeVars, clientVars
<1>16. ASSUME NEW p \in Procs, CloseConn(p)
      PROVE  DeadlineOwned'
  BY <1>16 DEF CloseConn, timeVars, clientVars
<1>17. ASSUME NEW p \in Procs, WriteFails(p)
      PROVE  DeadlineOwned'
  BY <1>17 DEF WriteFails, Back, timeVars, clientVars
<1>18. ASSUME NEW p \in Procs, NEW err \in {"none", "refused"}, Answer(p, err)
      PROVE  DeadlineOwned'
  BY <1>18 DEF Answer, Back, timeVars, clientVars
<1>19. CASE EndConnect
  BY <1>19 DEF EndConnect, Finish, DeadlineAfter, FinishError, Expired,
     timeVars, clientVars
<1>20. CASE EndClose
  BY <1>20 DEF EndClose, Finish, DeadlineAfter, FinishError, Expired, timeVars,
     clientVars
<1>21. CASE LogoffAnswer
  BY <1>21 DEF LogoffAnswer, timeVars, clientVars
<1>22. CASE DeadlineHit
  BY <1>22 DEF DeadlineHit, timeVars, clientVars
<1>23. CASE Tick
  BY <1>23 DEF Tick, Less, timeVars, clientVars
<1>24. CASE UNCHANGED vars
  BY <1>24 DEF vars, timeVars, clientVars
<1> QED
  BY <1>1, <1>2, <1>3, <1>4, <1>5, <1>6, <1>7, <1>8, <1>9, <1>10, <1>11, <1>12,
     <1>13, <1>14, <1>15, <1>16, <1>17, <1>18, <1>19, <1>20, <1>21, <1>22,
     <1>23, <1>24 DEF Next, Guard, MainEnd, Timer

\* A closed connection stays accounted for.
LEMMA ClosedKept ==
    /\ TypeOK
    /\ ConnectFirst
    /\ TimerPlace
    /\ FiredCloses
    /\ ClosedAccounted
    /\ [Next]_vars
    => ClosedAccounted'
<1> SUFFICES ASSUME TypeOK, ConnectFirst, TimerPlace, FiredCloses,
                    ClosedAccounted, [Next]_vars
             PROVE  ClosedAccounted'
  OBVIOUS
<1> USE ClientAssumption DEF NewIsBlank, ConnectFirst, TypeOK, OpState, Idle,
   Procs, TimerPlace, ClosedAccounted, FiredCloses
<1>1. CASE Dial
  BY <1>1 DEF Dial, Enter, timeVars, clientVars
<1>2. CASE DialFails
  BY <1>2 DEF DialFails, timeVars, clientVars
<1>3. CASE Close
  BY <1>3 DEF Close, Enter, timeVars, clientVars
<1>4. ASSUME NEW p \in Procs, NEW kind \in Kind, beginOperation(p, kind)
      PROVE  ClosedAccounted'
  BY <1>4 DEF beginOperation, Kinds, Enter, timeVars, clientVars
<1>5. ASSUME NEW p \in Procs, SetDeadline(p)
      PROVE  ClosedAccounted'
  BY <1>5 DEF SetDeadline, timeVars, clientVars
<1>6. ASSUME NEW p \in Procs, StartTimer(p)
      PROVE  ClosedAccounted'
  BY <1>6 DEF StartTimer, timeVars, clientVars
<1>7. ASSUME NEW p \in Procs, Send(p)
      PROVE  ClosedAccounted'
  BY <1>7 DEF Send, Back, timeVars, clientVars
<1>8. ASSUME NEW p \in Procs, CallFails(p)
      PROVE  ClosedAccounted'
  BY <1>8 DEF CallFails, Back, timeVars, clientVars
<1>9. ASSUME NEW p \in Procs, Panic(p)
      PROVE  ClosedAccounted'
  BY <1>9 DEF Panic, timeVars, clientVars
<1>10. ASSUME NEW p \in Procs, StopTimer(p)
      PROVE  ClosedAccounted'
  BY <1>10 DEF StopTimer, TimerPhase, timeVars, clientVars
<1>11. ASSUME NEW p \in Procs, EndMount(p)
      PROVE  ClosedAccounted'
  BY <1>11 DEF EndMount, Finish, DeadlineAfter, FinishError, Expired, timeVars,
     clientVars
<1>12. ASSUME NEW p \in Procs, EndCall(p)
      PROVE  ClosedAccounted'
  BY <1>12 DEF EndCall, Finish, DeadlineAfter, FinishError, Expired, timeVars,
     clientVars
<1>13. ASSUME NEW p \in Procs, EndUmount(p)
      PROVE  ClosedAccounted'
  BY <1>13 DEF EndUmount, Finish, DeadlineAfter, FinishError, Expired,
     timeVars, clientVars
<1>14. ASSUME NEW p \in Procs, Fire(p)
      PROVE  ClosedAccounted'
  BY <1>14 DEF Fire, timeVars, clientVars
<1>15. ASSUME NEW p \in Procs, Expire(p)
      PROVE  ClosedAccounted'
  BY <1>15 DEF Expire, timeVars, clientVars
<1>16. ASSUME NEW p \in Procs, CloseConn(p)
      PROVE  ClosedAccounted'
  BY <1>16 DEF CloseConn, timeVars, clientVars
<1>17. ASSUME NEW p \in Procs, WriteFails(p)
      PROVE  ClosedAccounted'
  BY <1>17 DEF WriteFails, Back, timeVars, clientVars
<1>18. ASSUME NEW p \in Procs, NEW err \in {"none", "refused"}, Answer(p, err)
      PROVE  ClosedAccounted'
  BY <1>18 DEF Answer, Back, timeVars, clientVars
<1>19. CASE EndConnect
  BY <1>19 DEF EndConnect, Finish, DeadlineAfter, FinishError, Expired,
     timeVars, clientVars
<1>20. CASE EndClose
  BY <1>20 DEF EndClose, Finish, DeadlineAfter, FinishError, Expired, timeVars,
     clientVars
<1>21. CASE LogoffAnswer
  BY <1>21 DEF LogoffAnswer, timeVars, clientVars
<1>22. CASE DeadlineHit
  BY <1>22 DEF DeadlineHit, timeVars, clientVars
<1>23. CASE Tick
  BY <1>23 DEF Tick, Less, timeVars, clientVars
<1>24. CASE UNCHANGED vars
  BY <1>24 DEF vars, timeVars, clientVars
<1> QED
  BY <1>1, <1>2, <1>3, <1>4, <1>5, <1>6, <1>7, <1>8, <1>9, <1>10, <1>11, <1>12,
     <1>13, <1>14, <1>15, <1>16, <1>17, <1>18, <1>19, <1>20, <1>21, <1>22,
     <1>23, <1>24 DEF Next, Guard, MainEnd, Timer

\* No step leaves a connection open that nobody will close.
LEMMA NoneIsLeftKept ==
    /\ TypeOK
    /\ NoConnectionIsLeft
    /\ [Next]_vars
    => NoConnectionIsLeft'
<1> SUFFICES ASSUME TypeOK, NoConnectionIsLeft, [Next]_vars
             PROVE  NoConnectionIsLeft'
  OBVIOUS
<1> USE ClientAssumption DEF TypeOK, NoConnectionIsLeft
<1>1. CASE Dial
  BY <1>1 DEF Dial, Enter, timeVars, clientVars
<1>2. CASE DialFails
  BY <1>2 DEF DialFails, timeVars, clientVars
<1>3. CASE Close
  BY <1>3 DEF Close, Enter, timeVars, clientVars
<1>4. ASSUME NEW p \in Procs, NEW kind \in Kind, beginOperation(p, kind)
      PROVE  NoConnectionIsLeft'
  BY <1>4 DEF beginOperation, Kinds, Enter, timeVars, clientVars
<1>5. ASSUME NEW p \in Procs, SetDeadline(p)
      PROVE  NoConnectionIsLeft'
  BY <1>5 DEF SetDeadline, timeVars, clientVars
<1>6. ASSUME NEW p \in Procs, StartTimer(p)
      PROVE  NoConnectionIsLeft'
  BY <1>6 DEF StartTimer, timeVars, clientVars
<1>7. ASSUME NEW p \in Procs, Send(p)
      PROVE  NoConnectionIsLeft'
  BY <1>7 DEF Send, Back, timeVars, clientVars
<1>8. ASSUME NEW p \in Procs, CallFails(p)
      PROVE  NoConnectionIsLeft'
  BY <1>8 DEF CallFails, Back, timeVars, clientVars
<1>9. ASSUME NEW p \in Procs, Panic(p)
      PROVE  NoConnectionIsLeft'
  BY <1>9 DEF Panic, timeVars, clientVars
<1>10. ASSUME NEW p \in Procs, StopTimer(p)
      PROVE  NoConnectionIsLeft'
  BY <1>10 DEF StopTimer, TimerPhase, timeVars, clientVars
<1>11. ASSUME NEW p \in Procs, EndMount(p)
      PROVE  NoConnectionIsLeft'
  BY <1>11 DEF EndMount, Finish, DeadlineAfter, FinishError, Expired, timeVars,
     clientVars
<1>12. ASSUME NEW p \in Procs, EndCall(p)
      PROVE  NoConnectionIsLeft'
  BY <1>12 DEF EndCall, Finish, DeadlineAfter, FinishError, Expired, timeVars,
     clientVars
<1>13. ASSUME NEW p \in Procs, EndUmount(p)
      PROVE  NoConnectionIsLeft'
  BY <1>13 DEF EndUmount, Finish, DeadlineAfter, FinishError, Expired,
     timeVars, clientVars
<1>14. ASSUME NEW p \in Procs, Fire(p)
      PROVE  NoConnectionIsLeft'
  BY <1>14 DEF Fire, timeVars, clientVars
<1>15. ASSUME NEW p \in Procs, Expire(p)
      PROVE  NoConnectionIsLeft'
  BY <1>15 DEF Expire, timeVars, clientVars
<1>16. ASSUME NEW p \in Procs, CloseConn(p)
      PROVE  NoConnectionIsLeft'
  BY <1>16 DEF CloseConn, timeVars, clientVars
<1>17. ASSUME NEW p \in Procs, WriteFails(p)
      PROVE  NoConnectionIsLeft'
  BY <1>17 DEF WriteFails, Back, timeVars, clientVars
<1>18. ASSUME NEW p \in Procs, NEW err \in {"none", "refused"}, Answer(p, err)
      PROVE  NoConnectionIsLeft'
  BY <1>18 DEF Answer, Back, timeVars, clientVars
<1>19. CASE EndConnect
  BY <1>19 DEF EndConnect, Finish, DeadlineAfter, FinishError, Expired,
     timeVars, clientVars
<1>20. CASE EndClose
  BY <1>20 DEF EndClose, Finish, DeadlineAfter, FinishError, Expired, timeVars,
     clientVars
<1>21. CASE LogoffAnswer
  BY <1>21 DEF LogoffAnswer, timeVars, clientVars
<1>22. CASE DeadlineHit
  BY <1>22 DEF DeadlineHit, timeVars, clientVars
<1>23. CASE Tick
  BY <1>23 DEF Tick, Less, timeVars, clientVars
<1>24. CASE UNCHANGED vars
  BY <1>24 DEF vars, timeVars, clientVars
<1> QED
  BY <1>1, <1>2, <1>3, <1>4, <1>5, <1>6, <1>7, <1>8, <1>9, <1>10, <1>11, <1>12,
     <1>13, <1>14, <1>15, <1>16, <1>17, <1>18, <1>19, <1>20, <1>21, <1>22,
     <1>23, <1>24 DEF Next, Guard, MainEnd, Timer

-------------------------------------------------------------------------------
(***************************************************************************)
(* The theorems.                                                           *)
(***************************************************************************)
\* Inv holds of a new client, and every step of Connect, Close, of an operation, its
\* guard, its timer and the server keeps it.
THEOREM ClientInvariant == Spec => []Inv
<1>1. Init => Inv
  <2> SUFFICES ASSUME Init
               PROVE  Inv
    OBVIOUS
  <2>1. deadline \in 0 .. NoDeadline /\ left \in [Procs -> 0 .. Timeout]
    BY ClientAssumption DEF Init, NoDeadline
  <2>2. op \in [Procs -> OpState] /\ timer \in [Procs -> TimerPhase]
    BY DEF Init, Idle, OpState, OpPhase, Kind, CallError, TimerPhase
  <2>3. TypeOK
    BY <2>1, <2>2 DEF Init, TypeOK, ConnState
  <2>4. NewIsBlank /\ ConnectFirst /\ TimerPlace /\ FiredCloses /\ BegunIsGuarded
    BY DEF Init, Idle, Procs, NewIsBlank, ConnectFirst, TimerPlace, FiredCloses,
       BegunIsGuarded
  <2> QED
    BY <2>3, <2>4 DEF Init, Inv, DeadlineOwned, ClosedAccounted, NoConnectionIsLeft
<1>2. Inv /\ [Next]_vars => Inv'
  BY TypesKept, BlankKept, TimersKept, DeadlineKept, ClosedKept, NoneIsLeftKept DEF Inv
<1> QED
  BY <1>1, <1>2, PTL DEF Spec

\* A timer never closes the connection for an operation that has returned
\* (operationGuard.finish).
THEOREM TimersEndWithOperationsAlways == Spec => []TimersEndWithOperations
<1>1. Inv => TimersEndWithOperations
  BY DEF Inv, TimerPlace, TimersEndWithOperations
<1> QED
  BY <1>1, ClientInvariant, PTL

\* A connection closed under the client is reported as a timeout by some operation.
THEOREM ClosedIsReportedAlways == Spec => []ClosedIsReported
<1>1. Inv => ClosedIsReported
  BY DEF Inv, ClosedAccounted, TimerPlace, ClosedIsReported, AllIdle
<1> QED
  BY <1>1, ClientInvariant, PTL

\* No deadline is left on an idle connection, in whatever order operations set and
\* clear it.
THEOREM IdleHasNoDeadlineAlways == Spec => []IdleHasNoDeadline
<1>1. Inv => IdleHasNoDeadline
  BY DEF Inv, DeadlineOwned, IdleHasNoDeadline, AllIdle
<1> QED
  BY <1>1, ClientInvariant, PTL

\* Connect and Close leave no open connection behind.
THEOREM NoConnectionIsLeftAlways == Spec => []NoConnectionIsLeft
<1>1. Inv => NoConnectionIsLeft
  BY DEF Inv
<1> QED
  BY <1>1, ClientInvariant, PTL
===============================================================================
