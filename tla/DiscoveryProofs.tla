----------------------------- MODULE DiscoveryProofs -----------------------------
(***************************************************************************)
(* Discovery for every option, machine, directory and set of checkers:     *)
(* FilterReachable tells the truth about every target it is given, and so  *)
(* does Resolve; an LDAP session searches on the connection it bound and   *)
(* leaves none open; and the user is taken at his word.                    *)
(*                                                                         *)
(* First the reachability check over a set S of targets, then the domain   *)
(* context, then the LDAP session, then Resolve, which puts them together. *)
(***************************************************************************)
EXTENDS Discovery, SequenceTheorems, WellFoundedInduction, TLAPS

\* The types of the filter, of whatever set of targets it was given.
OutcomeOf(S) == [target : S, up : BOOLEAN]
CheckerStateOf(S) == {Idle, Ended} \cup {Checking(t) : t \in S}
                       \cup {Checked(t, ok) : t \in S, ok \in BOOLEAN}
TypeOf(S) == /\ filter \in {"none", "running", "ok", "error"}
             /\ ctx \in {"live", "canceled", "deadline"}
             /\ unsent \subseteq S
             /\ feeder \in {"none", "feeding", "sent"}
             /\ fed \in {"nil", "canceled", "deadline"}
             /\ checker \in [Checkers -> CheckerStateOf(S)]
             /\ results \subseteq OutcomeOf(S)
             /\ all \subseteq OutcomeOf(S)
             /\ up \subseteq S

\* A target that a worker has in its hands.
InHand(t) == \E w \in Checkers : /\ checker[w].at \in {"checking", "checked"}
                                 /\ checker[w].target = t

\* The worker has found nothing out that is not so; while the context lives it
\* has not taken a target for down that answers either.
Honest(t, ok) == /\ ok => t \in up
                 /\ ctx = "live" => (ok <=> t \in up)
HonestResults == /\ \A r \in results \cup all : Honest(r.target, r.up)
                 /\ \A w \in Checkers : checker[w].at = "checked" =>
                                            Honest(checker[w].target, checker[w].up)

\* Nothing has been started: there is nothing to lose.
NotStarted == filter = "none" =>
                 /\ feeder = "none" /\ unsent = {} /\ results = {} /\ all = {}
                 /\ \A w \in Checkers : checker[w] = Ended

\* A target is with the feeder, in the hands of a worker, in the channel or
\* collected; the feeder ends early only when the context does.
NoneIsLost(S) ==
    (filter = "running" /\ ctx = "live") =>
        /\ \A t \in S : \/ t \in unsent \/ InHand(t)
                        \/ \E r \in results \cup all : r.target = t
        /\ feeder = "sent" => unsent = {}

\* FilterIsComplete, of the targets it was given.
Complete(S) == (filter = "ok" /\ ctx = "live") =>
                   all = {[target |-> t, up |-> t \in up] : t \in S}

ReachInv(S) == TypeOf(S) /\ HonestResults /\ NotStarted /\ NoneIsLost(S) /\ Complete(S)
-------------------------------------------------------------------------------
\* One step of FilterReachable over a set of targets.
Step(S) == StartFilter(S) \/ ContextEnds \/ ReachNext

\* Nothing runs at first, and nothing has been found.
LEMMA InitInv ==
    ASSUME NEW S, ReachInit
    PROVE  ReachInv(S)
<1>1. TypeOf(S)
  BY DEF ReachInit, TypeOf, CheckerStateOf
<1>2. HonestResults
  BY DEF ReachInit, HonestResults, Ended
<1>3. NotStarted /\ NoneIsLost(S) /\ Complete(S)
  BY DEF ReachInit, NotStarted, NoneIsLost, Complete
<1> QED
  BY <1>1, <1>2, <1>3 DEF ReachInv

\* Every step keeps the types; a worker is only ever given one of its four states.
LEMMA StepType ==
    ASSUME NEW S, TypeOf(S), Step(S)
    PROVE  TypeOf(S)'
<1> USE DEF TypeOf
<1>0. \A w \in Checkers : checker[w] \in CheckerStateOf(S)
  OBVIOUS
<1>1. ASSUME StartFilter(S) PROVE TypeOf(S)'
  BY <1>1 DEF StartFilter, CheckerStateOf
<1>2. ASSUME ContextEnds PROVE TypeOf(S)'
  BY <1>2 DEF ContextEnds
<1>3. ASSUME NEW w \in Checkers, Feed(w) PROVE TypeOf(S)'
  <2>1. PICK t \in unsent : /\ unsent' = unsent \ {t}
                            /\ checker' = [checker EXCEPT ![w] = Checking(t)]
    BY <1>3 DEF Feed
  <2>2. Checking(t) \in CheckerStateOf(S)
    BY DEF CheckerStateOf
  <2>3. checker' \in [Checkers -> CheckerStateOf(S)]
    BY <2>1, <2>2
  <2> QED
    BY <1>3, <2>1, <2>3 DEF Feed
<1>4. ASSUME NEW w \in Checkers, Check(w) PROVE TypeOf(S)'
  <2>1. checker[w].target \in S
    BY <1>0, <1>4 DEF Check, CheckerStateOf, Idle, Ended, Checking, Checked
  <2> DEFINE ok == ctx = "live" /\ checker[w].target \in up
  <2>2. ok \in BOOLEAN
    OBVIOUS
  <2>3. \A t \in S, b \in BOOLEAN : Checked(t, b) \in CheckerStateOf(S)
    BY DEF CheckerStateOf
  <2>4. Checked(checker[w].target, ok) \in CheckerStateOf(S)
    <3> HIDE DEF ok
    <3> QED
      BY <2>1, <2>2, <2>3
  <2>5. checker' \in [Checkers -> CheckerStateOf(S)]
    BY <1>4, <2>4 DEF Check
  <2> QED
    BY <1>4, <2>5 DEF Check
<1>5. ASSUME NEW w \in Checkers, Deliver(w) PROVE TypeOf(S)'
  <2>1. [target |-> checker[w].target, up |-> checker[w].up] \in OutcomeOf(S)
    BY <1>0, <1>5 DEF Deliver, CheckerStateOf, Idle, Ended, Checking, Checked, OutcomeOf
  <2> QED
    BY <1>5, <2>1 DEF Deliver, CheckerStateOf
<1>6. ASSUME NEW w \in Checkers, CheckerEnds(w) PROVE TypeOf(S)'
  BY <1>6 DEF CheckerEnds, CheckerStateOf
<1>7. ASSUME FeederEnds PROVE TypeOf(S)'
  BY <1>7 DEF FeederEnds
<1>8. ASSUME Collect PROVE TypeOf(S)'
  BY <1>8 DEF Collect
<1>9. ASSUME FilterReturns PROVE TypeOf(S)'
  BY <1>9 DEF FilterReturns
<1> QED
  BY <1>1, <1>2, <1>3, <1>4, <1>5, <1>6, <1>7, <1>8, <1>9 DEF Step, ReachNext

\* What answers does not change while the filter runs, and the context only ends:
\* what was honest before a step is honest after it.
LEMMA StepHonest ==
    ASSUME NEW S, ReachInv(S), Step(S)
    PROVE  HonestResults'
<1> USE DEF HonestResults, Honest
<1>0. TypeOf(S) /\ HonestResults
  BY DEF ReachInv
<1>1. ASSUME StartFilter(S) PROVE HonestResults'
  BY <1>1, <1>0 DEF StartFilter, ReachInv, NotStarted, Idle
<1>2. ASSUME ContextEnds PROVE HonestResults'
  BY <1>0, <1>2 DEF ContextEnds
<1>3. ASSUME NEW w \in Checkers, Feed(w) PROVE HonestResults'
  BY <1>0, <1>3 DEF Feed, Checking, TypeOf
<1>4. ASSUME NEW w \in Checkers, Check(w) PROVE HonestResults'
  <2> DEFINE ok == ctx = "live" /\ checker[w].target \in up
  <2>1. checker'[w] = Checked(checker[w].target, ok)
    BY <1>0, <1>4 DEF Check, TypeOf
  <2>2. checker'[w].target = checker[w].target /\ checker'[w].up = ok
    BY <2>1 DEF Checked
  <2>3. \A v \in Checkers \ {w} : checker'[v] = checker[v]
    BY <1>0, <1>4 DEF Check, TypeOf
  <2>4. Honest(checker[w].target, checker[w].up)'
    <3>1. up' = up /\ ctx' = ctx
      BY <1>4 DEF Check
    <3>2. checker'[w].up => ok
      BY <2>2, Zenon
    <3>3. ok => checker'[w].up
      BY <2>2, Zenon
    <3>4. checker'[w].up => checker'[w].target \in up'
      BY <2>2, <3>1, <3>2
    <3>5. ctx' = "live" => (checker'[w].up <=> checker'[w].target \in up')
      BY <2>2, <3>1, <3>3, <3>4
    <3> QED
      BY <3>4, <3>5, Zenon
  <2>5. \A v \in Checkers \ {w} :
            checker[v].at = "checked" => Honest(checker[v].target, checker[v].up)'
    BY <1>0, <1>4, <2>3 DEF Check
  <2>6. \A r \in results' \cup all' : Honest(r.target, r.up)'
    BY <1>0, <1>4 DEF Check
  <2> QED
    BY <2>3, <2>4, <2>5, <2>6
<1>5. ASSUME NEW w \in Checkers, Deliver(w) PROVE HonestResults'
  BY <1>0, <1>5 DEF Deliver, Idle, TypeOf
<1>6. ASSUME NEW w \in Checkers, CheckerEnds(w) PROVE HonestResults'
  BY <1>0, <1>6 DEF CheckerEnds, Ended, TypeOf
<1>7. ASSUME FeederEnds PROVE HonestResults'
  BY <1>0, <1>7 DEF FeederEnds
<1>8. ASSUME Collect PROVE HonestResults'
  BY <1>0, <1>8 DEF Collect
<1>9. ASSUME FilterReturns PROVE HonestResults'
  BY <1>0, <1>9 DEF FilterReturns
<1> QED
  BY <1>1, <1>2, <1>3, <1>4, <1>5, <1>6, <1>7, <1>8, <1>9 DEF Step, ReachNext

\* Nothing but StartFilter happens before it.
LEMMA StepNotStarted ==
    ASSUME NEW S, ReachInv(S), Step(S)
    PROVE  NotStarted'
<1> SUFFICES ASSUME filter' = "none" PROVE NotStarted'
  BY DEF NotStarted
<1>1. filter = "none" /\ ~StartFilter(S) /\ ~FilterReturns /\ ~Collect
  BY DEF Step, StartFilter, ReachNext, ContextEnds, Feed, Check, Deliver, CheckerEnds,
         FeederEnds, Collect, FilterReturns
<1>2. NotStarted
  BY DEF ReachInv
<1>3. \A w \in Checkers : checker[w] = Ended
  BY <1>1, <1>2 DEF NotStarted
<1>4. \A w \in Checkers : checker[w].at = "ended" /\ checker[w] # Idle
  BY <1>3 DEF Ended, Idle
<1>5. \A w \in Checkers : ~Feed(w) /\ ~Check(w) /\ ~Deliver(w) /\ ~CheckerEnds(w)
  BY <1>4 DEF Feed, Check, Deliver, CheckerEnds
<1>6. ~FeederEnds
  BY <1>1, <1>2 DEF NotStarted, FeederEnds
<1>7. ContextEnds
  BY <1>1, <1>5, <1>6 DEF Step, ReachNext
<1> QED
  BY <1>1, <1>2, <1>7 DEF NotStarted, ContextEnds

\* A target leaves the feeder for a worker, a worker for the channel, and the
\* channel for the collector.
LEMMA StepNoneIsLost ==
    ASSUME NEW S, ReachInv(S), Step(S)
    PROVE  NoneIsLost(S)'
<1> SUFFICES ASSUME filter' = "running", ctx' = "live" PROVE NoneIsLost(S)'
  BY DEF NoneIsLost
<1>0. TypeOf(S) /\ NoneIsLost(S)
  BY DEF ReachInv
<1>a. ctx = "live"
  BY DEF Step, StartFilter, ReachNext, ContextEnds, Feed, Check, Deliver, CheckerEnds,
         FeederEnds, Collect, FilterReturns
<1>1. ASSUME StartFilter(S) PROVE NoneIsLost(S)'
  BY <1>1 DEF StartFilter, NoneIsLost
<1>2. ~ContextEnds /\ ~FilterReturns
  BY DEF ContextEnds, FilterReturns
<1>b. ASSUME ReachNext PROVE filter = "running"
  BY <1>b, <1>2 DEF ReachNext, Feed, Check, Deliver, CheckerEnds, FeederEnds, Collect
<1>c. ASSUME filter = "running", NEW t \in S
      PROVE t \in unsent \/ InHand(t) \/ \E r \in results \cup all : r.target = t
  BY <1>0, <1>a, <1>c DEF NoneIsLost
<1>3. ASSUME filter = "running", NEW w \in Checkers, Feed(w) PROVE NoneIsLost(S)'
  <2>1. PICK u \in unsent : /\ unsent' = unsent \ {u}
                            /\ checker' = [checker EXCEPT ![w] = Checking(u)]
    BY <1>3 DEF Feed
  <2>2. checker'[w].at = "checking" /\ checker'[w].target = u
    BY <1>0, <2>1 DEF Checking, TypeOf
  <2>3. \A v \in Checkers : v = w \/ checker'[v] = checker[v]
    BY <1>0, <2>1 DEF TypeOf
  <2>4. checker[w].at = "idle"
    BY <1>3 DEF Feed, Idle
  <2>5. InHand(u)'
    BY <2>2 DEF InHand
  <2>6. \A t : InHand(t) => InHand(t)'
    BY <2>3, <2>4 DEF InHand
  <2>7. \A t \in S : t \in unsent' \/ InHand(t)' \/ \E r \in results' \cup all' : r.target = t
    BY <1>3, <1>c, <2>1, <2>5, <2>6 DEF Feed
  <2> QED
    BY <1>3, <2>7 DEF NoneIsLost, Feed
<1>4. ASSUME filter = "running", NEW w \in Checkers, Check(w) PROVE NoneIsLost(S)'
  <2>1. checker'[w].at = "checked" /\ checker'[w].target = checker[w].target
    BY <1>0, <1>4 DEF Check, Checked, TypeOf
  <2>2. \A v \in Checkers : v = w \/ checker'[v] = checker[v]
    BY <1>0, <1>4 DEF Check, TypeOf
  <2>3. \A t : InHand(t) => InHand(t)'
    BY <2>1, <2>2 DEF InHand
  <2>4. \A t \in S : t \in unsent' \/ InHand(t)' \/ \E r \in results' \cup all' : r.target = t
    BY <1>4, <1>c, <2>3 DEF Check
  <2> QED
    BY <1>0, <1>a, <1>4, <2>4 DEF NoneIsLost, Check
<1>5. ASSUME filter = "running", NEW w \in Checkers, Deliver(w) PROVE NoneIsLost(S)'
  <2>1. \A v \in Checkers : v = w \/ checker'[v] = checker[v]
    BY <1>0, <1>5 DEF Deliver, TypeOf
  <2>2. \E r \in results' : r.target = checker[w].target
    <3> DEFINE result == [target |-> checker[w].target, up |-> checker[w].up]
    <3>1. result \in results' /\ result.target = checker[w].target
      BY <1>5 DEF Deliver
    <3> QED
      BY <3>1
  <2>3. \A t : InHand(t) => InHand(t)' \/ t = checker[w].target
    BY <2>1 DEF InHand
  <2>4. results \subseteq results' /\ all' = all /\ unsent' = unsent
    BY <1>5 DEF Deliver
  <2>5. \A t \in S : t \in unsent' \/ InHand(t)' \/ \E r \in results' \cup all' : r.target = t
    BY <1>5, <1>c, <2>2, <2>3, <2>4
  <2> QED
    BY <1>0, <1>a, <1>5, <2>5 DEF NoneIsLost, Deliver
<1>6. ASSUME filter = "running", NEW w \in Checkers, CheckerEnds(w) PROVE NoneIsLost(S)'
  <2>1. checker[w].at = "idle"
    BY <1>a, <1>6 DEF CheckerEnds, Idle
  <2>2. \A v \in Checkers : v = w \/ checker'[v] = checker[v]
    BY <1>0, <1>6 DEF CheckerEnds, TypeOf
  <2>3. \A t : InHand(t) => InHand(t)'
    BY <2>1, <2>2 DEF InHand
  <2>4. \A t \in S : t \in unsent' \/ InHand(t)' \/ \E r \in results' \cup all' : r.target = t
    BY <1>6, <1>c, <2>3 DEF CheckerEnds
  <2> QED
    BY <1>0, <1>a, <1>6, <2>4 DEF NoneIsLost, CheckerEnds
<1>7. ASSUME filter = "running", FeederEnds PROVE NoneIsLost(S)'
  BY <1>0, <1>a, <1>7 DEF NoneIsLost, FeederEnds, InHand
<1>8. ASSUME filter = "running", Collect PROVE NoneIsLost(S)'
  <2>1. results' \cup all' = results \cup all
    BY <1>8 DEF Collect
  <2>2. \A t : InHand(t) => InHand(t)'
    BY <1>8 DEF Collect, InHand
  <2>3. \A t \in S : t \in unsent' \/ InHand(t)' \/ \E r \in results' \cup all' : r.target = t
    BY <1>8, <1>c, <2>1, <2>2 DEF Collect
  <2> QED
    BY <1>0, <1>a, <1>8, <2>3 DEF NoneIsLost, Collect
<1> QED
  BY <1>1, <1>2, <1>b, <1>3, <1>4, <1>5, <1>6, <1>7, <1>8 DEF Step, ReachNext

\* FilterReturns finds nothing on the way any more: every target is collected.
LEMMA StepComplete ==
    ASSUME NEW S, ReachInv(S), Step(S)
    PROVE  Complete(S)'
<1> SUFFICES ASSUME filter' = "ok", ctx' = "live" PROVE Complete(S)'
  BY DEF Complete
<1>0. TypeOf(S) /\ HonestResults /\ NoneIsLost(S) /\ Complete(S)
  BY DEF ReachInv
<1>1. CASE FilterReturns
  <2>1. /\ filter = "running" /\ ctx = "live" /\ results = {} /\ unsent = {}
        /\ all' = all /\ up' = up
    BY <1>0, <1>1 DEF FilterReturns, NoneIsLost
  <2>2. \A w \in Checkers : checker[w].at = "ended"
    BY <1>1 DEF FilterReturns, Ended
  <2>3. \A t \in S : \E r \in all : r.target = t
    BY <1>0, <2>1, <2>2 DEF NoneIsLost, InHand
  <2>4. \A r \in all : /\ r \in OutcomeOf(S) /\ (r.up <=> r.target \in up)
    BY <1>0, <2>1 DEF TypeOf, HonestResults, Honest
  <2>5. \A r \in all : /\ r.target \in S
                       /\ r = [target |-> r.target, up |-> r.target \in up]
    BY <2>4 DEF OutcomeOf
  <2>6. all = {[target |-> t, up |-> t \in up] : t \in S}
    BY <2>3, <2>5
  <2> QED
    BY <2>1, <2>6 DEF Complete
<1>2. CASE ~FilterReturns
  <2>1. ~StartFilter(S) /\ ~ContextEnds /\ ~Collect
    BY DEF StartFilter, ContextEnds, Collect
  <2>2. filter = "ok" /\ ctx = "live" /\ all' = all /\ up' = up
    BY <1>2, <2>1 DEF Step, ReachNext, Feed, Check, Deliver, CheckerEnds, FeederEnds
  <2> QED
    BY <1>0, <2>2 DEF Complete
<1> QED
  BY <1>1, <1>2

\* The invariant that the theorems rest on is inductive.
LEMMA ReachInductive ==
    ASSUME NEW S, ReachInv(S), [Step(S)]_reachVars
    PROVE  ReachInv(S)'
<1>1. CASE Step(S)
  BY <1>1, StepType, StepHonest, StepNotStarted, StepNoneIsLost, StepComplete DEF ReachInv
<1>2. CASE UNCHANGED reachVars
  BY <1>2 DEF reachVars, ReachInv, TypeOf, HonestResults, Honest, NotStarted,
              NoneIsLost, InHand, Complete
<1> QED
  BY <1>1, <1>2

LEMMA ReachAlways == ReachSpec => []ReachInv(Targets)
<1>1. ReachInit => ReachInv(Targets)
  BY InitInv
<1>2. ReachInv(Targets) /\ [Step(Targets)]_reachVars => ReachInv(Targets)'
  BY ReachInductive
<1>3. ReachSpec => ReachInit /\ [][Step(Targets)]_reachVars
  BY DEF ReachSpec, Step
<1> QED
  BY <1>1, <1>2, <1>3, PTL

\* FilterReachable: the feeder, the workers and the collector stay in their states.
THEOREM ReachTypeCorrect == ReachSpec => []ReachTypeOK
<1>1. ReachInv(Targets) => ReachTypeOK
  BY DEF ReachInv, TypeOf, ReachTypeOK, CheckerStateOf, CheckerState, OutcomeOf, Outcome
<1> QED
  BY <1>1, ReachAlways, PTL

\* FilterReachable: an answer without an error, with the context alive, is the
\* truth about every target, whatever the number of targets and of workers.
THEOREM FilterCompleteness == ReachSpec => []FilterIsComplete
<1>1. ReachInv(Targets) => FilterIsComplete
  BY DEF ReachInv, Complete, FilterIsComplete
<1> QED
  BY <1>1, ReachAlways, PTL

\* testTCP445: a target is taken for reachable only when it answers.
THEOREM FilterHonesty == ReachSpec => []FilterInventsNothing
<1>1. ReachInv(Targets) => FilterInventsNothing
  BY DEF ReachInv, HonestResults, Honest, FilterInventsNothing
<1> QED
  BY <1>1, ReachAlways, PTL
-------------------------------------------------------------------------------
(***************************************************************************)
(* The domain context.  The fallback of detectDomainBySRV is never reached *)
(* with a name: it asks for names that the machine's other sources have,   *)
(* and they come first.                                                    *)
(***************************************************************************)
LEMMA SmallestOf ==
    ASSUME NEW T \in SUBSET Nat, T # {}
    PROVE  Min(T) \in T
<1> DEFINE R == OpToRel(<, Nat)
<1>1. IsWellFoundedOn(R, Nat)
  BY NatLessThanWellFounded
<1>2. \A x, y \in Nat : x < y => <<x, y>> \in R
  BY DEF OpToRel
<1> HIDE DEF R
<1>3. PICK x \in T : \A y \in T : ~ (<<y, x>> \in R)
  BY <1>1, WFMin
<1>4. ASSUME NEW y \in T PROVE x =< y
  <2>1. x \in Nat /\ y \in Nat /\ ~ (<<y, x>> \in R)
    BY <1>3
  <2>2. ~ (y < x)
    BY <2>1, <1>2, Zenon
  <2> QED
    BY <2>1, <2>2
<1>5. \E z \in T : \A y \in T : z =< y
  BY <1>4
<1> QED
  BY <1>5 DEF Min

\* The first name is None only when every name is, and else one of them.
LEMMA FirstNamedIsNamed ==
    ASSUME NEW values, DOMAIN values \subseteq Nat
    PROVE  /\ FirstNamed(values) # None =>
                  \E i \in DOMAIN values : FirstNamed(values) = values[i]
           /\ FirstNamed(values) = None => \A i \in DOMAIN values : values[i] = None
<1> DEFINE named == {i \in DOMAIN values : values[i] # None}
<1>1. named # {} => Min(named) \in named
  BY SmallestOf
<1>2. FirstNamed(values) = IF named = {} THEN None ELSE values[Min(named)]
  BY DEF FirstNamed
<1>3. CASE named = {}
  BY <1>2, <1>3
<1>4. CASE named # {}
  <2>1. PICK i \in named : FirstNamed(values) = values[i]
    BY <1>1, <1>2, <1>4
  <2> QED
    BY <2>1
<1> QED
  BY <1>3, <1>4

\* A domain that SRV records confirm is one that was detected without them.
LEMMA SrvIsNeverAsked ==
    ASSUME NEW m \in Machines, DetectDomainBySRV(m) # None
    PROVE  FirstNamed(<<DetectDomainFromEnvironment(m), DetectDomainFromHostname(m),
                        DetectDomainFromResolvConf(m)>>) # None
<1>1. m.resolvConf \in Seq(Domains \cup {None})
  BY LDAPAssumption
<1> DEFINE candidates == SrvDiscoveryCandidates(m)
           confirmed == [i \in DOMAIN candidates |->
               LET d == candidates[i]
               IN IF d # None /\ LocateDomainController(m, d) # None THEN d ELSE None]
           env == <<m.userDNSDomain, m.userDomainFQDN, m.dnsDomain, m.userDomain>>
           hostname == <<m.hostnameD, m.hostnameF, m.hostname, m.hostSuffix>>
           sources == <<DetectDomainFromEnvironment(m), DetectDomainFromHostname(m),
                        DetectDomainFromResolvConf(m)>>
<1>2. /\ DOMAIN candidates = 1 .. 3 + Len(m.resolvConf)
      /\ candidates[1] = m.userDNSDomain /\ candidates[2] = m.userDomain
      /\ candidates[3] = m.hostSuffix
      /\ \A i \in 4 .. 3 + Len(m.resolvConf) : candidates[i] = m.resolvConf[i - 3]
  <2> DEFINE own == <<m.userDNSDomain, m.userDomain, m.hostSuffix>>
             Names == {m.userDNSDomain, m.userDomain, m.hostSuffix} \cup Domains \cup {None}
  <2>1. own \in Seq(Names) /\ m.resolvConf \in Seq(Names) /\ Len(own) = 3
    BY <1>1
  <2>2. own[1] = m.userDNSDomain /\ own[2] = m.userDomain /\ own[3] = m.hostSuffix
    OBVIOUS
  <2>3. candidates = own \o m.resolvConf
    BY DEF SrvDiscoveryCandidates
  <2> HIDE DEF own, Names, candidates
  <2>4. ASSUME NEW s \in Seq(Names), NEW t \in Seq(Names), Len(s) = 3
        PROVE  /\ DOMAIN (s \o t) = 1 .. 3 + Len(t)
               /\ \A i \in 1 .. 3 : (s \o t)[i] = s[i]
               /\ \A i \in 4 .. 3 + Len(t) : (s \o t)[i] = t[i - 3]
    <3>1. /\ Len(t) \in Nat /\ s \o t \in Seq(Names) /\ Len(s \o t) = 3 + Len(t)
          /\ \A i \in 1 .. 3 + Len(t) :
                 (s \o t)[i] = IF i <= 3 THEN s[i] ELSE t[i - 3]
      <4>1. Len(t) \in Nat
        OBVIOUS
      <4>2. /\ s \o t \in Seq(Names) /\ Len(s \o t) = Len(s) + Len(t)
            /\ \A i \in 1 .. Len(s) + Len(t) :
                   (s \o t)[i] = IF i <= Len(s) THEN s[i] ELSE t[i - Len(s)]
        BY ConcatProperties
      <4> QED
        BY <2>4, <4>1, <4>2
    <3>2. DOMAIN (s \o t) = 1 .. 3 + Len(t)
      BY <3>1
    <3>3. ASSUME NEW i \in 1 .. 3 PROVE (s \o t)[i] = s[i]
      BY <3>1
    <3>4. ASSUME NEW i \in 4 .. 3 + Len(t) PROVE (s \o t)[i] = t[i - 3]
      BY <3>1
    <3> QED
      BY <3>2, <3>3, <3>4
  <2>5. /\ DOMAIN candidates = 1 .. 3 + Len(m.resolvConf)
        /\ \A i \in 1 .. 3 : candidates[i] = own[i]
        /\ \A i \in 4 .. 3 + Len(m.resolvConf) : candidates[i] = m.resolvConf[i - 3]
    BY <2>1, <2>3, <2>4
  <2>6. 1 \in 1 .. 3 /\ 2 \in 1 .. 3 /\ 3 \in 1 .. 3
    OBVIOUS
  <2> QED
    BY <2>2, <2>5, <2>6
<1>3. Len(m.resolvConf) \in Nat /\ DOMAIN m.resolvConf = 1 .. Len(m.resolvConf)
  BY <1>1
<1> HIDE DEF candidates
<1>4. \E i \in DOMAIN confirmed : confirmed[i] # None
  <2>1. DOMAIN confirmed \subseteq Nat
    BY <1>2, <1>3
  <2>2. DetectDomainBySRV(m) = FirstNamed(confirmed)
    BY DEF DetectDomainBySRV, candidates
  <2> HIDE DEF confirmed
  <2> QED
    BY <2>1, <2>2, FirstNamedIsNamed
<1>5. PICK i \in DOMAIN candidates : candidates[i] # None
  BY <1>4
<1>6. /\ DOMAIN env \subseteq Nat /\ DOMAIN hostname \subseteq Nat
      /\ DOMAIN sources \subseteq Nat /\ DOMAIN m.resolvConf \subseteq Nat
  BY <1>3
<1>7. \/ DetectDomainFromEnvironment(m) # None \/ DetectDomainFromHostname(m) # None
      \/ DetectDomainFromResolvConf(m) # None
  <2>1. CASE i = 1 \/ i = 2
    <3>1. \E j \in DOMAIN env : env[j] # None
      <4>1. 1 \in DOMAIN env /\ 4 \in DOMAIN env /\ env[1] = m.userDNSDomain
            /\ env[4] = m.userDomain
        OBVIOUS
      <4> QED
        BY <1>2, <1>5, <2>1, <4>1
    <3>2. DetectDomainFromEnvironment(m) = FirstNamed(env)
      BY DEF DetectDomainFromEnvironment
    <3> HIDE DEF env
    <3> QED
      BY <1>6, <3>1, <3>2, FirstNamedIsNamed
  <2>2. CASE i = 3
    <3>1. \E j \in DOMAIN hostname : hostname[j] # None
      <4>1. 4 \in DOMAIN hostname /\ hostname[4] = m.hostSuffix
        OBVIOUS
      <4> QED
        BY <1>2, <1>5, <2>2, <4>1
    <3>2. DetectDomainFromHostname(m) = FirstNamed(hostname)
      BY DEF DetectDomainFromHostname
    <3> HIDE DEF hostname
    <3> QED
      BY <1>6, <3>1, <3>2, FirstNamedIsNamed
  <2>3. CASE i \in 4 .. 3 + Len(m.resolvConf)
    <3>1. i - 3 \in DOMAIN m.resolvConf /\ m.resolvConf[i - 3] # None
      BY <1>2, <1>3, <1>5, <2>3
    <3> QED
      BY <1>6, <3>1, FirstNamedIsNamed DEF DetectDomainFromResolvConf
  <2> QED
    BY <1>2, <1>3, <2>1, <2>2, <2>3
<1>8. \E j \in DOMAIN sources : sources[j] # None
  <2>1. /\ 1 \in DOMAIN sources /\ 2 \in DOMAIN sources /\ 3 \in DOMAIN sources
        /\ sources[1] = DetectDomainFromEnvironment(m)
        /\ sources[2] = DetectDomainFromHostname(m)
        /\ sources[3] = DetectDomainFromResolvConf(m)
    OBVIOUS
  <2> QED
    BY <1>7, <2>1
<1> HIDE DEF sources
<1>9. FirstNamed(sources) # None
  BY <1>6, <1>8, FirstNamedIsNamed
<1> QED
  BY <1>9 DEF sources

\* A controller or a domain that is given is the one the context has.
LEMMA GivenIsTaken ==
    ASSUME NEW o, NEW m \in Machines, NEW c, c = DetectDomainContext(o, m)
    PROVE  /\ DOMAIN c = {"domain", "how", "dc"}
           /\ o.dc # None => c.dc = o.dc
           /\ o.domain # None => c.domain = o.domain /\ c.how = "cli"
<1> DEFINE detected == FirstNamed(<<DetectDomainFromEnvironment(m),
                                    DetectDomainFromHostname(m),
                                    DetectDomainFromResolvConf(m)>>)
           srv == DetectDomainBySRV(m)
           named == CASE o.domain # None -> [domain |-> o.domain, how |-> "cli", dc |-> o.dc]
                      [] o.domain = None /\ detected # None
                           -> [domain |-> detected, how |-> "local", dc |-> o.dc]
                      [] o.domain = None /\ detected = None /\ srv # None
                           -> [domain |-> srv, how |-> "srv",
                               dc |-> LocateDomainController(m, srv)]
                      [] OTHER -> [domain |-> None, how |-> "none", dc |-> o.dc]
<1>1. srv # None => detected # None
  BY SrvIsNeverAsked
<1>2. c = IF named.dc = None /\ named.domain # None
          THEN [named EXCEPT !.dc = LocateDomainController(m, named.domain)]
          ELSE named
  BY DEF DetectDomainContext
<1> HIDE DEF detected, srv
<1>3. /\ DOMAIN named = {"domain", "how", "dc"} /\ named.dc = o.dc
      /\ o.domain # None => named.domain = o.domain /\ named.how = "cli"
  BY <1>1
<1> HIDE DEF named
<1> QED
  BY <1>2, <1>3

\* The endpoint has the transport that was asked for, and that of a URL.
LEMMA EndpointIsAsAsked ==
    ASSUME NEW dc, NEW requested, NEW e,
           e = LDAPEndpointForController(dc, requested), e # NoEndpoint
    PROVE  /\ NormalizeLDAPTransport(requested) \in {"auto", e.transport}
           /\ e.transport \in {"ldap", "ldaps", NormalizeLDAPTransport(requested)}
           /\ e.explicit => e.transport = dc.scheme
<1> DEFINE wanted == NormalizeLDAPTransport(requested)
           chosen == CASE wanted # "auto" -> wanted
                       [] wanted = "auto" /\ dc.port = 636 -> "ldaps"
                       [] OTHER -> "ldap"
           plain == [transport |-> chosen, port |-> LDAPAddress(dc, chosen),
                     explicit |-> FALSE]
           url == [transport |-> dc.scheme, port |-> LDAPAddress(dc, dc.scheme),
                   explicit |-> TRUE]
<1>1. \/ e = plain
      \/ /\ dc.scheme \in {"ldap", "ldaps"} /\ wanted \in {"auto", dc.scheme}
         /\ e = url
  BY DEF LDAPEndpointForController
<1>2. chosen \in {"ldap", "ldaps", wanted} /\ wanted \in {"auto", chosen}
  OBVIOUS
<1> HIDE DEF chosen, wanted
<1>3. plain.transport = chosen /\ plain.explicit = FALSE /\ url.transport = dc.scheme
  OBVIOUS
<1> HIDE DEF plain, url
<1> QED
  BY <1>1, <1>2, <1>3 DEF wanted

-------------------------------------------------------------------------------
(***************************************************************************)
(* The LDAP session.                                                       *)
(***************************************************************************)
\* A function on 1 .. n is a sequence of length n.
LEMMA SequenceOf ==
    ASSUME NEW S, NEW n \in Nat, NEW f \in [1 .. n -> S]
    PROVE  f \in Seq(S) /\ Len(f) = n /\ DOMAIN f = 1 .. n
<1>1. f \in Seq(S)
  BY SeqDef
<1>2. DOMAIN f = 1 .. n /\ DOMAIN f = 1 .. Len(f) /\ Len(f) \in Nat
  BY <1>1, LenProperties
<1> QED
  BY <1>1, <1>2

\* A dial that succeeds leaves one connection open, the last one.
LEMMA DialOpensOne ==
    ASSUME NEW tr \in Transports, conns \in Seq(Connection), Open = {},
           conns' = Dialled(tr)
    PROVE  /\ conns' \in Seq(Connection)
           /\ Open' = {Current'} /\ conns'[Current'].transport = tr
<1> DEFINE c == [transport |-> tr, open |-> TRUE, bound |-> FALSE]
<1>1. c \in Connection /\ c.open /\ c.transport = tr
  BY DEF Connection
<1>2. conns' = Append(conns, c)
  BY DEF Dialled
<1> HIDE DEF c
<1>3. /\ conns' \in Seq(Connection) /\ Len(conns) \in Nat
      /\ Current' = Len(conns) + 1 /\ DOMAIN conns' = 1 .. Len(conns) + 1
      /\ conns'[Len(conns) + 1] = c
      /\ \A i \in 1 .. Len(conns) : conns'[i] = conns[i]
  BY <1>1, <1>2 DEF Current
<1>4. \A i \in 1 .. Len(conns) : ~conns[i].open
  BY DEF Open
<1>5. \A i \in DOMAIN conns' : conns'[i].open <=> i = Len(conns) + 1
  BY <1>1, <1>3, <1>4
<1>6. Open' = {Len(conns) + 1}
  BY <1>3, <1>5 DEF Open
<1> QED
  BY <1>1, <1>3, <1>6

\* Closing the one that is open leaves none.
LEMMA CloseLeavesNone ==
    ASSUME conns \in Seq(Connection), Open = {Current}, conns' = Closed({Current})
    PROVE  conns' \in Seq(Connection) /\ Open' = {}
<1>1. conns' = [i \in 1 .. Len(conns) |->
                   IF i = Current THEN [conns[i] EXCEPT !.open = FALSE] ELSE conns[i]]
  BY DEF Closed
<1>2. \A i \in 1 .. Len(conns) : conns[i] \in Connection
  OBVIOUS
<1>3. \A i \in 1 .. Len(conns) : conns'[i] \in Connection
  <2> TAKE i \in 1 .. Len(conns)
  <2>1. [conns[i] EXCEPT !.open = FALSE] \in Connection
    BY <1>2 DEF Connection
  <2> QED
    BY <1>1, <1>2, <2>1
<1>4. /\ Len(conns) \in Nat /\ DOMAIN conns' = 1 .. Len(conns)
      /\ DOMAIN conns = 1 .. Len(conns)
  BY <1>1, LenProperties
<1>5. conns' \in Seq(Connection)
  <2>1. conns' \in [1 .. Len(conns) -> Connection]
    BY <1>1, <1>3
  <2> QED
    BY <1>4, <2>1, SequenceOf
<1>6. ASSUME NEW i \in 1 .. Len(conns) PROVE ~conns'[i].open
  <2>1. CASE i = Current
    <3>1. conns'[i] = [conns[i] EXCEPT !.open = FALSE] /\ conns[i] \in Connection
      BY <1>1, <1>2, <2>1
    <3> QED
      BY <3>1 DEF Connection
  <2>2. CASE i # Current
    <3>1. i \notin Open /\ conns'[i] = conns[i]
      BY <1>1, <2>2
    <3> QED
      BY <1>4, <3>1 DEF Open
  <2> QED
    BY <2>1, <2>2
<1> QED
  BY <1>4, <1>5, <1>6 DEF Open

\* A bind that succeeds marks the one that is open.
LEMMA BindMarksCurrent ==
    ASSUME conns \in Seq(Connection), Open = {Current}, conns' = Bound(TRUE)
    PROVE  /\ conns' \in Seq(Connection) /\ Open' = {Current'}
           /\ conns'[Current'].transport = conns[Current].transport
           /\ conns'[Current'].bound
<1>1. conns' = [i \in 1 .. Len(conns) |->
                   IF i = Current THEN [conns[i] EXCEPT !.bound = TRUE] ELSE conns[i]]
  BY DEF Bound
<1>2. \A i \in 1 .. Len(conns) : conns[i] \in Connection
  OBVIOUS
<1>3. /\ Len(conns) \in Nat /\ DOMAIN conns' = 1 .. Len(conns)
      /\ DOMAIN conns = 1 .. Len(conns)
  BY <1>1, LenProperties
<1>4. Current \in 1 .. Len(conns) /\ Current = Len(conns)
  BY <1>3 DEF Open, Current
<1>5. ASSUME NEW i \in 1 .. Len(conns)
      PROVE  /\ conns'[i] \in Connection
             /\ conns'[i].transport = conns[i].transport
             /\ conns'[i].open = conns[i].open
             /\ i = Current => conns'[i].bound
  <2>1. CASE i = Current
    <3>1. conns'[i] = [conns[i] EXCEPT !.bound = TRUE] /\ conns[i] \in Connection
      BY <1>1, <1>2, <2>1
    <3> QED
      BY <3>1 DEF Connection
  <2>2. CASE i # Current
    BY <1>1, <1>2, <2>2
  <2> QED
    BY <2>1, <2>2
<1>6. conns' \in Seq(Connection) /\ Len(conns') = Len(conns)
  <2>1. conns' \in [1 .. Len(conns) -> Connection]
    BY <1>1, <1>5
  <2> QED
    BY <1>3, <2>1, SequenceOf
<1>7. Current' = Current
  BY <1>6 DEF Current
<1>8. Open' = Open
  BY <1>3, <1>5 DEF Open
<1> QED
  BY <1>4, <1>5, <1>6, <1>7, <1>8

\* Nothing is connected at first.
LEMMA SessionInitInv == SessionInit => SessionInv
<1> SUFFICES ASSUME SessionInit PROVE SessionInv
  OBVIOUS
<1>1. opts \in Options /\ machine \in Machines /\ at = "idle"
  BY DEF SessionInit
<1>2. ConnectionInv
  <2>1. conns = <<>> /\ DOMAIN conns = {}
    BY DEF SessionInit
  <2>2. conns \in Seq(Connection)
    BY <2>1
  <2>3. Open = {}
    BY <2>1 DEF Open
  <2> QED
    BY <1>1, <2>2, <2>3 DEF ConnectionInv, Connected
<1>3. EndpointInv /\ SentInv
  BY <1>1 DEF SessionInit, EndpointInv, SentInv, Before
<1>4. ContextInv
  BY <1>1 DEF SessionInit, ContextInv, NoContext, Before
<1> QED
  BY <1>1, <1>2, <1>3, <1>4 DEF SessionInv, Before

\* A session starts and ends without a connection.
LEMMA SessionBegins == ASSUME SessionInv, NEW p, Start(p) PROVE SessionInv'
<1> USE DEF SessionInv, Start, Before, Dialling, Connected
<1>1. ConnectionInv'
  BY DEF ConnectionInv, Open, Current, Anonymously, Auth
<1>2. EndpointInv' /\ ContextInv' /\ SentInv'
  BY DEF EndpointInv, ContextInv, SentInv, Asked
<1> QED
  BY <1>1, <1>2

LEMMA SessionEnds == ASSUME SessionInv, SessionGone PROVE SessionInv'
<1> USE DEF SessionInv, SessionGone, Before, Dialling, Connected
<1>1. ConnectionInv'
  <2>1. conns' = <<>> /\ DOMAIN conns' = {}
    OBVIOUS
  <2>2. conns' \in Seq(Connection)
    BY <2>1
  <2>3. Open' = {}
    BY <2>1 DEF Open
  <2> QED
    BY <2>2, <2>3 DEF ConnectionInv
<1>2. EndpointInv' /\ ContextInv' /\ SentInv'
  BY DEF EndpointInv, ContextInv, SentInv, Asked, NoContext
<1> QED
  BY <1>1, <1>2

LEMMA SessionStays == ASSUME SessionInv, UNCHANGED sessionVars PROVE SessionInv'
BY DEF sessionVars, SessionInv, Before, Dialling, Connected, ConnectionInv, EndpointInv,
       ContextInv, SentInv, Asked, Anonymously, Auth, Open, Current

\* The retry over LDAPS asks for nothing that "auto" does not allow.
LEMMA RetryIsAllowed ==
    ASSUME opts \in Options, NEW e, e = LDAPEndpointForController(context.dc, "ldaps"),
           e # NoEndpoint, NormalizeLDAPTransport(opts.transport) = "auto"
    PROVE  /\ e.transport \in Transports /\ Asked(e.transport)
           /\ e.explicit => e.transport = context.dc.scheme
<1>1. NormalizeLDAPTransport("ldaps") = "ldaps"
  BY DEF NormalizeLDAPTransport
<1> QED
  BY <1>1, EndpointIsAsAsked DEF Transports, Asked

\* A bind that failed closes its connection, whatever is tried next.
LEMMA FailedBindCloses ==
    ASSUME SessionInv, at \in {"bind", "bindTLS"}, NEW signing, BindFailed(signing),
           opts' = opts, machine' = machine, context' = context, SentInv'
    PROVE  SessionInv'
<1> USE DEF Before, Dialling, Connected
<1>1. conns \in Seq(Connection) /\ Open = {Current} /\ conns' = Closed({Current})
  BY DEF SessionInv, ConnectionInv, BindFailed
<1>2. conns' \in Seq(Connection) /\ Open' = {}
  BY <1>1, CloseLeavesNone
<1> DEFINE again == LDAPEndpointForController(context.dc, "ldaps")
<1>3. \/ /\ NormalizeLDAPTransport(opts.transport) = "auto" /\ again # NoEndpoint
         /\ endpoint' = again /\ at' = "dialTLS"
      \/ at' = "idle" /\ endpoint' = endpoint
  BY DEF BindFailed, Return
<1> HIDE DEF again
<1>4. ConnectionInv'
  BY <1>2, <1>3 DEF ConnectionInv
<1>5. EndpointInv'
  BY <1>3, RetryIsAllowed DEF again, SessionInv, EndpointInv, Asked
<1>6. ContextInv'
  BY <1>3 DEF SessionInv, ContextInv
<1> QED
  BY <1>3, <1>4, <1>5, <1>6 DEF SessionInv

\* Every step of the session keeps the invariant.
LEMMA SessionInductive == ASSUME SessionInv, SessionNext PROVE SessionInv'
<1> USE DEF Before, Dialling, Connected
<1>0. /\ opts' = opts /\ machine' = machine /\ opts \in Options /\ machine \in Machines
      /\ Auth' = Auth /\ (Anonymously <=> Anonymously')
  BY DEF SessionInv, SessionNext, Detect, DialLDAPEndpoint, PreBindRootDSE, BindUnsent,
         Anonymous, BindLDAP, DialTLS, BaseDN, Search, Close, Auth, Anonymously
<1>a. ASSUME sent' = sent PROVE SentInv'
  BY <1>0, <1>a DEF SessionInv, SentInv, Asked
<1>1. CASE Detect
  <2>1. /\ at = "detect" /\ conns' = conns /\ sent' = sent
        /\ context' = DetectDomainContext(opts, machine)
    BY <1>1 DEF Detect
  <2>2. \/ at' = "idle"
        \/ /\ at' = "dial" /\ endpoint' # NoEndpoint
           /\ endpoint' = LDAPEndpointForController(context'.dc, opts.transport)
    BY <1>1 DEF Detect, Return
  <2>3. ConnectionInv'
    BY <2>1, <2>2 DEF SessionInv, ConnectionInv, Open
  <2>4. ContextInv'
    BY <1>0, <2>1, <2>2, GivenIsTaken DEF ContextInv
  <2>5. EndpointInv'
    BY <1>0, <2>2, EndpointIsAsAsked DEF EndpointInv, Asked, Transports
  <2> QED
    BY <1>0, <1>a, <2>1, <2>2, <2>3, <2>4, <2>5 DEF SessionInv
<1>2. CASE DialLDAPEndpoint
  <2>1. /\ at \in {"dial", "redial"} /\ context' = context /\ sent' = sent
        /\ conns \in Seq(Connection) /\ Open = {} /\ endpoint.transport \in Transports
    BY <1>2 DEF DialLDAPEndpoint, SessionInv, ConnectionInv, EndpointInv
  <2> DEFINE again == LDAPEndpointForController(context.dc, "ldaps")
  <2>2. \/ /\ conns' = Dialled(endpoint.transport) /\ at' = "prebind"
           /\ endpoint' = endpoint
        \/ /\ conns' = conns /\ at' = "redial" /\ endpoint' = again /\ again # NoEndpoint
           /\ NormalizeLDAPTransport(opts.transport) = "auto"
        \/ conns' = conns /\ at' = "idle" /\ endpoint' = endpoint
    BY <1>2 DEF DialLDAPEndpoint, Return
  <2> HIDE DEF again
  <2>3. ConnectionInv'
    <3>1. CASE conns' = Dialled(endpoint.transport) /\ at' = "prebind" /\ endpoint' = endpoint
      BY <2>1, <3>1, DialOpensOne DEF ConnectionInv
    <3>2. CASE conns' = conns /\ at' \in {"idle", "redial"}
      BY <2>1, <3>2 DEF ConnectionInv, Open
    <3> QED
      BY <2>2, <3>1, <3>2
  <2>4. ContextInv'
    BY <1>0, <2>1, <2>2 DEF SessionInv, ContextInv
  <2>5. EndpointInv'
    BY <1>0, <2>1, <2>2, RetryIsAllowed DEF again, SessionInv, EndpointInv, Asked
  <2> QED
    BY <1>0, <1>a, <2>1, <2>2, <2>3, <2>4, <2>5 DEF SessionInv
<1>3. CASE PreBindRootDSE
  <2>1. /\ at = "prebind" /\ at' = "bind" /\ conns' = conns /\ sent' = sent
        /\ endpoint' = endpoint
    BY <1>3 DEF PreBindRootDSE
  <2>2. PICK named : context' = IF \/ named = None
                                   \/ context.domain # None /\ context.how = "cli"
                                THEN context
                                ELSE [context EXCEPT !.domain = named]
    BY <1>3 DEF PreBindRootDSE
  <2>3. /\ DOMAIN context' = {"domain", "how", "dc"} /\ context'.dc = context.dc
        /\ (context.domain # None /\ context.how = "cli") => context' = context
    BY <2>2 DEF SessionInv, ContextInv
  <2>4. ConnectionInv'
    BY <2>1 DEF SessionInv, ConnectionInv, Open, Current
  <2>5. ContextInv'
    BY <1>0, <2>1, <2>3 DEF SessionInv, ContextInv
  <2>6. EndpointInv'
    BY <1>0, <2>1, <2>3 DEF SessionInv, EndpointInv, Asked
  <2> QED
    BY <1>0, <1>a, <2>1, <2>4, <2>5, <2>6 DEF SessionInv
<1>4. CASE BindUnsent
  <2>1. at \in {"bind", "bindTLS"} /\ BindFailed(FALSE) /\ context' = context /\ sent' = sent
    BY <1>4 DEF BindUnsent
  <2> QED
    BY <1>0, <1>a, <2>1, FailedBindCloses
<1>5. CASE Anonymous
  <2>1. /\ at \in {"bind", "bindTLS"} /\ at' \in {"close", "base"} /\ conns' = conns
        /\ sent' = sent /\ endpoint' = endpoint /\ context' = context /\ Anonymously
    BY <1>5 DEF Anonymous, AfterBind, Anonymously
  <2>2. ConnectionInv'
    BY <1>0, <2>1 DEF SessionInv, ConnectionInv, Open, Current
  <2>3. ContextInv' /\ EndpointInv'
    BY <1>0, <2>1 DEF SessionInv, ContextInv, EndpointInv, Asked
  <2> QED
    BY <1>0, <1>a, <2>1, <2>2, <2>3 DEF SessionInv
<1>6. CASE BindLDAP
  <2>1. /\ at \in {"bind", "bindTLS"} /\ CanBind /\ context' = context
        /\ sent' = sent \cup {[transport |-> conns[Current].transport, method |-> Auth]}
    BY <1>6 DEF BindLDAP
  <2>2. /\ conns \in Seq(Connection) /\ Open = {Current}
        /\ conns[Current].transport = endpoint.transport /\ Asked(endpoint.transport)
    BY <2>1 DEF SessionInv, ConnectionInv, EndpointInv
  <2>3. SentInv'
    <3>1. Auth = "gssapi" => endpoint.transport = "ldaps"
      BY <2>1 DEF CanBind
    <3> QED
      BY <1>0, <2>1, <2>2, <3>1 DEF SessionInv, SentInv, Asked
  <2>4. CASE /\ at' = AfterBind /\ conns' = Bound(TRUE) /\ endpoint' = endpoint
    <3>1. at' \in {"close", "base"}
      BY <2>4 DEF AfterBind
    <3>2. /\ conns' \in Seq(Connection) /\ Open' = {Current'}
          /\ conns'[Current'].transport = conns[Current].transport
          /\ conns'[Current'].bound
      BY <2>2, <2>4, BindMarksCurrent
    <3>3. ConnectionInv'
      BY <2>2, <2>4, <3>1, <3>2 DEF ConnectionInv
    <3>4. ContextInv' /\ EndpointInv'
      BY <1>0, <2>1, <2>4, <3>1 DEF SessionInv, ContextInv, EndpointInv, Asked
    <3> QED
      BY <1>0, <2>3, <3>1, <3>3, <3>4 DEF SessionInv
  <2>5. CASE UNCHANGED <<at, conns, endpoint, answer>>
    <3>1. ConnectionInv'
      BY <1>0, <2>1, <2>5 DEF SessionInv, ConnectionInv, Open, Current
    <3>2. ContextInv' /\ EndpointInv'
      BY <1>0, <2>1, <2>5 DEF SessionInv, ContextInv, EndpointInv, Asked
    <3> QED
      BY <1>0, <2>1, <2>3, <2>5, <3>1, <3>2 DEF SessionInv
  <2>6. CASE \E signing \in BOOLEAN : BindFailed(signing)
    BY <1>0, <2>1, <2>3, <2>6, FailedBindCloses
  <2> QED
    BY <1>6, <2>4, <2>5, <2>6 DEF BindLDAP
<1>7. CASE DialTLS
  <2>1. /\ at = "dialTLS" /\ context' = context /\ sent' = sent /\ endpoint' = endpoint
        /\ conns \in Seq(Connection) /\ Open = {} /\ endpoint.transport \in Transports
    BY <1>7 DEF DialTLS, SessionInv, ConnectionInv, EndpointInv
  <2>2. \/ conns' = Dialled(endpoint.transport) /\ at' = "bindTLS"
        \/ conns' = conns /\ at' = "idle"
    BY <1>7 DEF DialTLS, Return
  <2>3. ConnectionInv'
    <3>1. CASE conns' = Dialled(endpoint.transport) /\ at' = "bindTLS"
      BY <2>1, <3>1, DialOpensOne DEF ConnectionInv
    <3>2. CASE conns' = conns /\ at' = "idle"
      BY <2>1, <3>2 DEF ConnectionInv, Open
    <3> QED
      BY <2>2, <3>1, <3>2
  <2>4. ContextInv' /\ EndpointInv'
    BY <1>0, <2>1, <2>2 DEF SessionInv, ContextInv, EndpointInv, Asked
  <2> QED
    BY <1>0, <1>a, <2>1, <2>2, <2>3, <2>4 DEF SessionInv
<1>8. CASE BaseDN \/ Search
  <2>1. /\ \/ at = "base" /\ at' \in {"search", "close"}
           \/ at = "search" /\ at' = "close"
        /\ conns' = conns /\ sent' = sent /\ endpoint' = endpoint /\ context' = context
    BY <1>8 DEF BaseDN, Search
  <2>2. ConnectionInv'
    BY <1>0, <2>1 DEF SessionInv, ConnectionInv, Open, Current
  <2>3. ContextInv' /\ EndpointInv'
    BY <1>0, <2>1 DEF SessionInv, ContextInv, EndpointInv, Asked
  <2> QED
    BY <1>0, <1>a, <2>1, <2>2, <2>3 DEF SessionInv
<1>9. CASE Close
  <2>1. /\ at = "close" /\ at' = "idle" /\ conns' = Closed({Current}) /\ sent' = sent
        /\ context' = context /\ conns \in Seq(Connection) /\ Open = {Current}
    BY <1>9 DEF Close, SessionInv, ConnectionInv
  <2>2. ConnectionInv'
    BY <2>1, CloseLeavesNone DEF ConnectionInv
  <2>3. ContextInv' /\ EndpointInv'
    BY <2>1 DEF SessionInv, ContextInv, EndpointInv
  <2> QED
    BY <1>0, <1>a, <2>1, <2>2, <2>3 DEF SessionInv
<1> QED
  BY <1>1, <1>2, <1>3, <1>4, <1>5, <1>6, <1>7, <1>8, <1>9 DEF SessionNext

-------------------------------------------------------------------------------
(***************************************************************************)
(* Resolve: the filter starts once, over the targets that are left, after  *)
(* every session has ended.                                                *)
(***************************************************************************)
Unasked == {"preflight", "validating", "collect", "ldap", "links", "dfs", "unique"}

\* FilterReachable was not asked: every target counts as reachable.
Skipped(S) == /\ filter = "ok" /\ feeder = "none" /\ results = {}
              /\ \A w \in Checkers : checker[w] = Ended
              /\ all = {[target |-> t, up |-> TRUE] : t \in S}

\* A filter that has started works on the unique targets.
FilterInv == filter # "none" =>
                 \E S \in {ToSet(unique)} : IF cfg.skip THEN Skipped(S) ELSE ReachInv(S)

ResolveInv == /\ phase \in Unasked \cup {"filter", "resolved", "failed"}
              /\ phase \in Unasked => filter = "none"
              /\ phase = "filter" => filter # "none"
              /\ phase = "resolved" => filter = "ok"
              /\ filter = "none" => ReachInit
              /\ FilterInv

DiscoveryInv == SessionInv /\ ResolveInv

\* Without a feeder and without a worker the filter does nothing.
LEMMA NothingRuns ==
    ASSUME filter # "running", feeder = "none", \A w \in Checkers : checker[w] = Ended
    PROVE  ~ReachNext
<1>1. \A w \in Checkers : checker[w].at = "ended" /\ checker[w] # Idle
  BY DEF Ended, Idle
<1>2. \A w \in Checkers : ~Feed(w) /\ ~Check(w) /\ ~Deliver(w) /\ ~CheckerEnds(w)
  BY <1>1 DEF Feed, Check, Deliver, CheckerEnds
<1> QED
  BY <1>2 DEF ReachNext, FeederEnds, Collect, FilterReturns

\* A step that leaves the filter and its targets alone.
LEMMA FilterStays ==
    ASSUME ResolveInv, UNCHANGED <<reachVars, cfg, unique>>
    PROVE  FilterInv' /\ (filter' = "none" => ReachInit')
<1> USE DEF reachVars
<1>1. filter' = "none" => ReachInit'
  BY DEF ResolveInv, ReachInit
<1>2. ASSUME filter' # "none" PROVE FilterInv'
  <2>1. PICK S \in {ToSet(unique)} : IF cfg.skip THEN Skipped(S) ELSE ReachInv(S)
    BY <1>2 DEF ResolveInv, FilterInv
  <2>2. S \in {ToSet(unique)'}
    BY <2>1 DEF ToSet
  <2>3. cfg.skip => Skipped(S)'
    BY <2>1 DEF Skipped
  <2>4. ~cfg.skip => ReachInv(S)'
    BY <2>1, ReachInductive
  <2>5. IF cfg'.skip THEN Skipped(S)' ELSE ReachInv(S)'
    BY <2>3, <2>4
  <2> QED
    BY <2>2, <2>5 DEF FilterInv
<1> QED
  BY <1>1, <1>2 DEF FilterInv

\* The filter makes a step, or its context ends.
LEMMA FilterMoves ==
    ASSUME ResolveInv, ReachNext \/ (ContextEnds /\ phase = "filter"),
           UNCHANGED <<cfg, unique, phase>>
    PROVE  ResolveInv'
<1>1. filter # "none"
  <2>1. ASSUME filter = "none" PROVE ~ReachNext /\ phase # "filter"
    BY <2>1, NothingRuns DEF ResolveInv, ReachInit
  <2> QED
    BY <2>1
<1>2. PICK S \in {ToSet(unique)} : IF cfg.skip THEN Skipped(S) ELSE ReachInv(S)
  BY <1>1 DEF ResolveInv, FilterInv
<1>3. S \in {ToSet(unique)'}
  BY <1>2 DEF ToSet
<1>4. CASE cfg.skip
  <2>1. Skipped(S) /\ ~ReachNext
    BY <1>2, <1>4, NothingRuns DEF Skipped
  <2>2. Skipped(S)' /\ filter' = filter
    BY <2>1 DEF ContextEnds, Skipped
  <2> QED
    BY <1>1, <1>3, <1>4, <2>1, <2>2 DEF ResolveInv, FilterInv, Skipped
<1>5. CASE ~cfg.skip
  <2>1. ReachInv(S)'
    BY <1>2, <1>5, ReachInductive DEF Step
  <2>2. filter' # "none" /\ (filter = "ok" => filter' = "ok")
    BY <1>1 DEF ReachNext, ContextEnds, Feed, Check, Deliver, CheckerEnds, FeederEnds,
                Collect, FilterReturns
  <2> QED
    BY <1>1, <1>3, <1>5, <2>1, <2>2 DEF ResolveInv, FilterInv
<1> QED
  BY <1>4, <1>5

\* Resolve hands the unique targets to the filter, or takes them as they are.
LEMMA FilterStarts == ASSUME ResolveInv, Resolve PROVE ResolveInv'
<1>1. /\ phase' = "filter" /\ cfg' = cfg /\ ReachInit
  BY DEF Resolve, ResolveInv, configVars, Unasked
<1>2. PICK S : S = ToSet(unique')
  OBVIOUS
<1>3. S \in {ToSet(unique)'}
  BY <1>2 DEF ToSet
<1>4. CASE cfg.skip
  <2>1. Skipped(S)'
    BY <1>1, <1>2, <1>4 DEF Resolve, SkipCheck, Skipped, ReachInit
  <2> QED
    BY <1>1, <1>3, <1>4, <2>1 DEF ResolveInv, FilterInv, Skipped, Unasked
<1>5. CASE ~cfg.skip
  <2>1. StartFilter(S)
    BY <1>2, <1>5 DEF Resolve
  <2>2. ReachInv(S)
    BY <1>1, InitInv
  <2>3. ReachInv(S)' /\ filter' = "running"
    BY <2>1, <2>2, ReachInductive DEF Step, StartFilter
  <2> QED
    BY <1>1, <1>3, <1>5, <2>3 DEF ResolveInv, FilterInv, Unasked
<1> QED
  BY <1>4, <1>5

LEMMA ResolveInductive ==
    ASSUME ResolveInv, [DiscoveryNext]_discoveryVars
    PROVE  ResolveInv'
<1> USE DEF Unasked
<1>0. ASSUME UNCHANGED <<reachVars, cfg, unique>>,
             phase' \in Unasked \cup {"filter", "resolved", "failed"},
             phase' \in Unasked => phase \in Unasked,
             phase' = "filter" => phase = "filter",
             phase' = "resolved" => phase = "resolved" \/ filter = "ok"
      PROVE  ResolveInv'
  <2>1. filter' = filter
    BY <1>0 DEF reachVars
  <2>2. FilterInv' /\ (filter' = "none" => ReachInit')
    BY <1>0, FilterStays
  <2> QED
    BY <1>0, <2>1, <2>2 DEF ResolveInv
<1>1. CASE Preflight \/ PreflightEnds \/ CollectGiven \/ CollectLDAP
  BY <1>0, <1>1 DEF Preflight, PreflightEnds, CollectGiven, CollectLDAP, configVars, reachVars
<1>2. CASE StartDFS \/ CollectDFS \/ ResolveReturns
  BY <1>0, <1>2 DEF StartDFS, CollectDFS, ResolveReturns, configVars, reachVars
<1>3. CASE Session
  BY <1>0, <1>3 DEF Session, configVars, reachVars, ResolveInv
<1>4. CASE UNCHANGED discoveryVars
  BY <1>0, <1>4 DEF discoveryVars, ResolveInv
<1>5. CASE Resolve
  BY <1>5, FilterStarts
<1>6. CASE Filter \/ Cancel
  <2>1. ReachNext \/ (ContextEnds /\ phase = "filter")
    BY <1>6 DEF Filter, Cancel
  <2>2. UNCHANGED <<cfg, unique, phase>>
    BY <1>6 DEF Filter, Cancel, configVars
  <2> QED
    BY <2>1, <2>2, FilterMoves
<1> QED
  BY <1>1, <1>2, <1>3, <1>4, <1>5, <1>6 DEF DiscoveryNext, Progress

LEMMA SessionsInductive ==
    ASSUME SessionInv, [DiscoveryNext]_discoveryVars
    PROVE  SessionInv'
<1>1. CASE Preflight
  BY <1>1, SessionBegins, SessionStays DEF Preflight
<1>2. CASE PreflightEnds \/ CollectLDAP \/ CollectDFS
  BY <1>2, SessionEnds DEF PreflightEnds, CollectLDAP, CollectDFS
<1>3. CASE CollectGiven
  BY <1>3, SessionBegins, SessionStays DEF CollectGiven
<1>4. CASE StartDFS
  BY <1>4, SessionBegins, SessionStays DEF StartDFS
<1>5. CASE Resolve \/ ResolveReturns \/ Filter \/ Cancel
  BY <1>5, SessionStays DEF Resolve, ResolveReturns, Filter, Cancel
<1>6. CASE Session
  BY <1>6, SessionInductive DEF Session
<1>7. CASE UNCHANGED discoveryVars
  BY <1>7, SessionStays DEF discoveryVars
<1> QED
  BY <1>1, <1>2, <1>3, <1>4, <1>5, <1>6, <1>7 DEF DiscoveryNext, Progress

\* A run's sessions and its filter keep their invariants, however the server,
\* the network and the context behave.
THEOREM DiscoveryInvariant == DiscoverySpec => []DiscoveryInv
<1>1. DiscoveryInit => DiscoveryInv
  <2> SUFFICES ASSUME DiscoveryInit PROVE DiscoveryInv
    OBVIOUS
  <2>1. SessionInv
    BY SessionInitInv DEF DiscoveryInit
  <2>2. ResolveInv
    BY DEF DiscoveryInit, ResolveInv, FilterInv, ReachInit, Unasked
  <2> QED
    BY <2>1, <2>2 DEF DiscoveryInv
<1>2. DiscoveryInv /\ [DiscoveryNext]_discoveryVars => DiscoveryInv'
  BY ResolveInductive, SessionsInductive DEF DiscoveryInv
<1> QED
  BY <1>1, <1>2, PTL DEF DiscoverySpec

\* connectLDAPSession and authenticateLDAP: a search runs on the session's only
\* connection, which the last bind succeeded on unless the session is anonymous,
\* and a session that has returned has left no connection open.
THEOREM SearchesAreBoundAlways == DiscoverySpec => []SearchesAreBound
<1>1. SessionInv => SearchesAreBound
  BY DEF SessionInv, ConnectionInv, SearchesAreBound, Before, Connected, Anonymously
<1>2. DiscoveryInv => SearchesAreBound
  BY <1>1 DEF DiscoveryInv
<1> QED
  BY <1>2, DiscoveryInvariant, PTL

\* ldapEndpointForController and DetectDomainContext: credentials go only over the
\* transport that the user chose, and to the controller and for the domain he gave.
THEOREM UsersWordIsKeptAlways == DiscoverySpec => []UsersWordIsKept
<1>1. ASSUME SessionInv PROVE UsersWordIsKept
  <2>1. \A s \in sent : /\ NormalizeLDAPTransport(opts.transport) \in {"auto", s.transport}
                        /\ s.method = "gssapi" => s.transport = "ldaps"
    BY <1>1 DEF SessionInv, SentInv, Asked
  <2>2. ASSUME at \notin {"idle", "detect"}, endpoint.explicit, NEW i \in Open
        PROVE  conns[i].transport = context.dc.scheme
    <3>1. at \in Connected /\ i = Current
      BY <1>1, <2>2 DEF SessionInv, ConnectionInv, Before
    <3> QED
      BY <1>1, <2>2, <3>1 DEF SessionInv, ConnectionInv, EndpointInv, Before
  <2>3. at \notin {"idle", "detect"} => /\ opts.dc # None => context.dc = opts.dc
                                        /\ opts.domain # None => context.domain = opts.domain
    BY <1>1 DEF SessionInv, ContextInv, Before
  <2> QED
    BY <2>1, <2>2, <2>3 DEF UsersWordIsKept
<1>2. DiscoveryInv => UsersWordIsKept
  BY <1>1 DEF DiscoveryInv
<1> QED
  BY <1>2, DiscoveryInvariant, PTL

\* Resolve: what it returns while its context lives is the truth about every
\* unique target, wherever the targets came from.
THEOREM NilMeansCheckedAlways == DiscoverySpec => []NilMeansChecked
<1>1. ASSUME ResolveInv PROVE NilMeansChecked
  <2> SUFFICES ASSUME phase = "resolved", ctx = "live"
               PROVE  all = {[target |-> t, up |-> cfg.skip \/ t \in up] : t \in ToSet(unique)}
    BY DEF NilMeansChecked
  <2>1. filter = "ok"
    BY <1>1 DEF ResolveInv
  <2>2. PICK S \in {ToSet(unique)} : IF cfg.skip THEN Skipped(S) ELSE ReachInv(S)
    BY <1>1, <2>1 DEF ResolveInv, FilterInv
  <2>3. CASE cfg.skip
    BY <2>2, <2>3 DEF Skipped
  <2>4. CASE ~cfg.skip
    BY <2>1, <2>2, <2>4 DEF ReachInv, Complete
  <2> QED
    BY <2>3, <2>4
<1>2. DiscoveryInv => NilMeansChecked
  BY <1>1 DEF DiscoveryInv
<1> QED
  BY <1>2, DiscoveryInvariant, PTL
=================================================================================
