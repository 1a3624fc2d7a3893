----------------------------- MODULE Reachability -----------------------------
(***************************************************************************)
(* FilterReachable of internal/discovery: a feeder hands the targets to a  *)
(* pool of workers over an unbuffered channel; a worker resolves a target, *)
(* dials port 445 and puts the result into a channel that has room for     *)
(* all; a collector takes them until the last worker has ended.  The       *)
(* context may be cancelled or run out of time at any moment.              *)
(***************************************************************************)
EXTENDS Naturals, FiniteSets

CONSTANTS Targets,      \* the unique targets of a run
          Checkers      \* the goroutines that check them

ASSUME ReachabilityAssumption == Checkers # {} /\ IsFiniteSet(Targets)

VARIABLES
    filter,     \* "none", "running", "ok" or "error": FilterReachable
    ctx,        \* "live", "canceled" or "deadline"
    unsent,     \* the targets the feeder has still to hand out
    feeder,     \* "feeding", "sent" (errCh holds fed) or "none"
    fed,        \* what errCh holds: "nil", "canceled" or "deadline"
    checker,    \* each worker: "idle", "ended", or what it has: [target, up]
    results,    \* the results in the channel
    all,        \* the results collected
    up          \* the targets that answer on port 445

reachVars == <<filter, ctx, unsent, feeder, fed, checker, results, all, up>>

Idle == [at |-> "idle"]
Ended == [at |-> "ended"]
Checking(t) == [at |-> "checking", target |-> t]
Checked(t, ok) == [at |-> "checked", target |-> t, up |-> ok]

Outcome == [target : Targets, up : BOOLEAN]
CheckerState == {Idle, Ended} \cup {Checking(t) : t \in Targets}
                  \cup {Checked(t, ok) : t \in Targets, ok \in BOOLEAN}

ReachTypeOK == /\ filter \in {"none", "running", "ok", "error"}
               /\ ctx \in {"live", "canceled", "deadline"}
               /\ unsent \subseteq Targets
               /\ feeder \in {"none", "feeding", "sent"}
               /\ fed \in {"nil", "canceled", "deadline"}
               /\ checker \in [Checkers -> CheckerState]
               /\ results \subseteq Outcome
               /\ all \subseteq Outcome
               /\ up \subseteq Targets

ReachInit == /\ filter = "none" /\ ctx = "live" /\ up = {}
             /\ unsent = {} /\ feeder = "none" /\ fed = "nil"
             /\ checker = [w \in Checkers |-> Ended]
             /\ results = {} /\ all = {}

\* Ctrl-C, or the time limit of the run.
ContextEnds == /\ ctx = "live" /\ ctx' \in {"canceled", "deadline"}
               /\ UNCHANGED <<filter, unsent, feeder, fed, checker, results, all, up>>

StartFilter(targets) ==
    /\ filter = "none" /\ filter' = "running"
    /\ unsent' = targets /\ feeder' = "feeding"
    /\ checker' = [w \in Checkers |-> Idle]
    /\ up' \in SUBSET targets
    /\ UNCHANGED <<ctx, fed, results, all>>

\* --skip-reachability-check: every target counts as reachable.
SkipCheck(targets) ==
    /\ filter = "none" /\ filter' = "ok"
    /\ all' = {[target |-> t, up |-> TRUE] : t \in targets}
    /\ UNCHANGED <<ctx, unsent, feeder, fed, checker, results, up>>

\* jobs <- target: the channel is unbuffered, the worker has it at once.
Feed(w) == /\ feeder = "feeding" /\ checker[w] = Idle
           /\ \E t \in unsent : /\ unsent' = unsent \ {t}
                                /\ checker' = [checker EXCEPT ![w] = Checking(t)]
           /\ UNCHANGED <<filter, ctx, feeder, fed, results, all, up>>

\* Mutant: the feeder hands out its targets whatever the context says.
FeederEndsLast == /\ feeder = "feeding" /\ unsent = {}
                  /\ feeder' = "sent" /\ fed' = "nil"
                  /\ UNCHANGED <<filter, ctx, unsent, checker, results, all, up>>

\* The feeder ends, at its last target or, if select takes it, at the context.
FeederEnds == /\ feeder = "feeding" /\ feeder' = "sent"
              /\ \/ ctx # "live" /\ unsent # {} /\ fed' = ctx
                 \/ unsent = {} /\ fed' = "nil"
              /\ UNCHANGED <<filter, ctx, unsent, checker, results, all, up>>

\* enrichTarget and testTCP445: nothing is reached once the context is done.
Check(w) ==
    /\ checker[w].at = "checking"
    /\ checker' = [checker EXCEPT ![w] =
                      Checked(checker[w].target, ctx = "live" /\ checker[w].target \in up)]
    /\ UNCHANGED <<filter, ctx, unsent, feeder, fed, results, all, up>>

Deliver(w) ==
    /\ checker[w].at = "checked"
    /\ results' = results \cup {[target |-> checker[w].target, up |-> checker[w].up]}
    /\ checker' = [checker EXCEPT ![w] = Idle]
    /\ UNCHANGED <<filter, ctx, unsent, feeder, fed, all, up>>

\* Mutant: a worker that has a result ends as soon as jobs is closed.
CheckerEndsEarly(w) == /\ checker[w].at \in {"idle", "checked"}
                       /\ feeder = "sent" \/ ctx # "live"
                       /\ checker' = [checker EXCEPT ![w] = Ended]
                       /\ UNCHANGED <<filter, ctx, unsent, feeder, fed, results, all, up>>

\* A worker ends when jobs is closed, or when select takes the context, with
\* the result it has if it has one.
CheckerEnds(w) == /\ \/ checker[w] = Idle /\ (feeder = "sent" \/ ctx # "live")
                     \/ checker[w].at = "checked" /\ ctx # "live"
                  /\ checker' = [checker EXCEPT ![w] = Ended]
                  /\ UNCHANGED <<filter, ctx, unsent, feeder, fed, results, all, up>>

Collect == /\ filter = "running"
           /\ \E r \in results : all' = all \cup {r} /\ results' = results \ {r}
           /\ UNCHANGED <<filter, ctx, unsent, feeder, fed, checker, up>>

\* results is closed and empty, and errCh has what the feeder says.
FilterReturns ==
    /\ filter = "running" /\ results = {}
    /\ \A w \in Checkers : checker[w] = Ended
    /\ feeder = "sent" /\ feeder' = "none"
    /\ filter' = IF "deadline" \in {fed, ctx} THEN "error" ELSE "ok"
    /\ UNCHANGED <<ctx, unsent, fed, checker, results, all, up>>

ReachNext == \/ \E w \in Checkers : Feed(w) \/ Check(w) \/ Deliver(w) \/ CheckerEnds(w)
             \/ FeederEnds \/ Collect \/ FilterReturns

\* FilterReachable over all targets, by itself.
ReachSpec == ReachInit /\ [][StartFilter(Targets) \/ ContextEnds \/ ReachNext]_reachVars
-------------------------------------------------------------------------------
\* What FilterReachable returns without an error while its context lives is the
\* truth about every target: none is lost between the channels and the workers,
\* none is up that does not answer or down that does.
FilterIsComplete ==
    (filter = "ok" /\ ctx = "live") =>
        all = {[target |-> t, up |-> t \in up] : t \in Targets}

\* A check that the context cuts short may lose targets, and take one for down
\* that is up; it never takes one for up that is down.
FilterInventsNothing == \A r \in results \cup all : r.up => r.target \in up
===============================================================================
