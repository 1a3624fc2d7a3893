---------------------------- MODULE FindingFlow ----------------------------
(***************************************************************************)
(* From a finding of the engine to the reports of a run: the observer the  *)
(* engine is built with, NewWriter creating the outputs one by one, the    *)
(* suppression wrapper, MultiWriter handing a finding to one output after  *)
(* the other, and closeSinks, which writes the reports.  An output may     *)
(* start to fail at any time (disk full, standard output closed) and then  *)
(* fails for good.  A finding is an element of Finding; what a suppression *)
(* rule can ask of it is Has, whose values are trimmed and in lower case.  *)
(***************************************************************************)
EXTENDS Naturals, FiniteSets, SequencesExt

CONSTANTS Finding, Aspect, Has, Blank,
          RuleLists,     \* the suppression rules a configuration may hold
          OutputSets,    \* the outputs a configuration may ask for
          HostLimit      \* bound: hosts scanned

Live == {"tui", "console"}
File == {"json", "html", "csv", "md", "creds"}
Output == Live \union File

ASSUME FlowAssumption ==
    /\ Has \in [Finding -> [Aspect -> SUBSET STRING]]
    /\ OutputSets \subseteq SUBSET Output
    /\ \A o \in OutputSets : Cardinality(o \intersect Live) <= 1

VARIABLES config,      \* outputs, suppression rules, seed manifest, validation mode
          pc, sinks,   \* where RunScan is, and the outputs that it has open
          observer,    \* the ValidationObserver the engine keeps
          tally,       \* validationModeCollector: visible and suppressed findings
          broken,      \* the outputs that fail
          file, held, report, audit,
          suppressed,  \* suppressionWriter.suppressed
          offered,     \* history: the findings of the jobs that were done in time
          host, collecting, errs, runErr
vars == <<config, pc, sinks, observer, tally, broken, file, held, report, audit,
          suppressed, offered, host, collecting, errs, runErr>>
sinkVars == <<file, held, report, audit>>

\* The order NewWriter appends the outputs in.
Rank == [tui |-> 1, console |-> 2, json |-> 3, html |-> 4, csv |-> 5, md |-> 6, creds |-> 7]
Foremost(outputs) == {k \in outputs : \A j \in outputs : Rank[k] <= Rank[j]}
Hindmost(outputs) == {k \in outputs : \A j \in outputs : Rank[j] <= Rank[k]}

\* What WriteFinding of an output may fail on: TUI, JSON, HTML, Markdown and
\* credentials only remember the finding, the other two print it at once.
Prints == {"console", "csv"}
\* The writers that implement SuppressionSummaryAware, and those that ask the seed
\* manifest when they close.
Audits == {"tui", "console", "json", "html"}
AsksManifest == Audits
-----------------------------------------------------------------------------
\* normalizeValues and normalizePaths: blank criteria are dropped.
Normal(values) == values \ {Blank}

\* matchAny, matchSlice, matchPrefix and matchContains: an empty criterion holds.
Matches(rule, f) == \A a \in Aspect : \/ Normal(rule.want[a]) = {}
                                      \/ Normal(rule.want[a]) \intersect Has[f][a] # {}

\* New and Match: the enabled rules that hold; the first of them is blamed.
Matching(f) == {i \in DOMAIN config.rules : /\ config.rules[i].enabled
                                            /\ Matches(config.rules[i], f)}
IsSuppressed(f) == Matching(f) # {}
RuleOf(f) == config.rules[Min(Matching(f))].id

SummaryOfRules(items) ==   \* mutant: the total counts the rules that matched
    [total |-> Cardinality({items[i].id : i \in DOMAIN items}),
     of    |-> [id \in {items[i].id : i \in DOMAIN items} |->
                   Cardinality({i \in DOMAIN items : items[i].id = id})]]

\* buildSuppressionSummary: how often each rule matched, and how many findings in all.
Summary(items) == [total |-> Len(items),
                   of    |-> [id \in {items[i].id : i \in DOMAIN items} |->
                                 Cardinality({i \in DOMAIN items : items[i].id = id})]]
-----------------------------------------------------------------------------
Init ==
    /\ config \in [outputs : OutputSets, rules : RuleLists,
                   manifest : {"none", "good", "bad"}, validate : BOOLEAN]
    /\ pc = "engine" /\ sinks = {}
    /\ observer = "unset" /\ tally = [visible |-> 0, suppressed |-> 0]
    /\ broken = {} /\ suppressed = <<>> /\ offered = <<>>
    /\ file = [k \in File |-> "none"]
    /\ held = [k \in Output |-> <<>>]
    /\ report = [k \in Output |-> "none"]
    /\ audit = [k \in Output |-> Summary(<<>>)]
    /\ host = 1 /\ collecting = TRUE /\ errs = FALSE /\ runErr = FALSE

\* NewEngine: validationObserverForSink of a sink that does not exist yet.
ObserverFor(sink) == IF sink = "nil" THEN "nil" ELSE sink
NewEngine ==
    /\ pc = "engine"
    /\ observer' = ObserverFor("nil")
    /\ pc' = "create"
    /\ UNCHANGED <<config, sinks, tally, broken, sinkVars, suppressed, offered, host,
                   collecting, errs, runErr>>

\* NewWriter: the next output is created.
CreateSink ==
    /\ pc = "create"
    /\ \E k \in Foremost(config.outputs \ sinks) :
          /\ file' = IF k \in File THEN [file EXCEPT ![k] = "open"] ELSE file
          /\ sinks' = sinks \union {k}
    /\ UNCHANGED <<config, pc, observer, tally, broken, held, report, audit, suppressed,
                   offered, host, collecting, errs, runErr>>

\* The file cannot be created: closeSinks of those before it, then the error.
CreateFails ==
    /\ pc = "create" /\ Foremost(config.outputs \ sinks) \intersect File # {}
    /\ pc' = "abandon" /\ runErr' = TRUE
    /\ UNCHANGED <<config, sinks, observer, tally, broken, sinkVars, suppressed, offered,
                   host, collecting, errs>>

\* WrapWithSuppression, SetValidationManifest, SetValidationMode.
Ready ==
    /\ pc = "create" /\ sinks = config.outputs
    /\ pc' = "scan"
    /\ UNCHANGED <<config, sinks, observer, tally, broken, sinkVars, suppressed,
                   offered, host, collecting, errs, runErr>>

Break(k) ==
    /\ pc \notin {"engine", "done"} /\ k \in config.outputs \ (broken \union {"tui"})
    /\ broken' = broken \union {k}
    /\ UNCHANGED <<config, pc, sinks, observer, tally, sinkVars, suppressed, offered,
                   host, collecting, errs, runErr>>

\* MultiWriter.WriteFinding: the outputs before the first that fails take the finding.
\* ConsoleWriter keeps it and then fails to print it.
Failing == config.outputs \intersect broken \intersect Prints
WriteFails == Failing # {}

TakesUnlessBroken(k) ==   \* mutant: the loop goes on after an error
    k \in config.outputs /\ (k \notin Failing \/ k = "console")

Takes(k) == /\ k \in config.outputs
            /\ \A j \in Failing : Rank[k] < Rank[j] \/ (k = j /\ k = "console")

\* recordValidationFindings, which sees the finding before the wrapper does, unless
\* the wrapper is the observer and suppresses it.
Seen(f) == IF observer # "nil" /\ config.validate /\ ~IsSuppressed(f)
           THEN [tally EXCEPT !.visible = @ + 1] ELSE tally

\* The engine returns a finding; collectResults hands it to the sink.  After a write
\* error collectResults has returned, and what the host still yields is not written.
Offer(f) ==
    /\ pc = "scan" /\ host <= HostLimit /\ f \notin Range(offered)
    /\ offered' = Append(offered, f)
    /\ tally' = Seen(f)
    /\ IF ~collecting
         THEN UNCHANGED <<suppressed, held, collecting>>
         ELSE IF IsSuppressed(f)
         THEN /\ suppressed' = Append(suppressed, [of |-> f, id |-> RuleOf(f)])
              /\ UNCHANGED <<held, collecting>>
         ELSE /\ held' = [k \in Output |-> IF Takes(k) THEN Append(held[k], f) ELSE held[k]]
              /\ collecting' = ~WriteFails
              /\ UNCHANGED suppressed
    /\ UNCHANGED <<config, pc, sinks, observer, broken, file, report, audit, host, errs,
                   runErr>>

\* scanHost returns.  A host whose walk timed out is skipped with a warning, and the
\* error of the sink with it: the timeout is looked at first.
EndHost(how) ==
    /\ pc = "scan" /\ host <= HostLimit
    /\ host' = host + 1 /\ collecting' = TRUE
    /\ errs' = (errs \/ (~collecting /\ how = "ok"))
    /\ UNCHANGED <<config, pc, sinks, observer, tally, broken, sinkVars, suppressed,
                   offered, runErr>>

\* The loop over the hosts ends: after the last one with the errors of all, or earlier
\* with none, at the time limit or when the user stops the scan.
\* suppressionWriter.Close then tells the writers what it suppressed.
Finish(how) ==
    /\ pc = "scan" /\ (how = "all" => host > HostLimit)
    /\ runErr' = (errs /\ how = "all")
    /\ pc' = "close"
    /\ audit' = [k \in Output |-> IF k \in config.outputs \intersect Audits
                                  THEN Summary(suppressed) ELSE audit[k]]
    /\ UNCHANGED <<config, sinks, observer, tally, broken, file, held, report, suppressed,
                   offered, host, collecting, errs>>

CloseFailsOnManifest(k) ==   \* mutant: the error of a write is dropped
    pc = "close" /\ config.manifest = "bad" /\ k \in AsksManifest

\* Close of one output: a manifest that cannot be read stops it before it writes.
\* Whether SeedManifest is set while the writers are abandoned: it is not, yet.
CloseFails(k) == \/ k \in broken
                 \/ pc = "close" /\ config.manifest = "bad" /\ k \in AsksManifest

LeaksOnManifest(k) ==   \* mutant: JSONWriter returns before it closes its file
    \/ k = "md" /\ k \in broken
    \/ pc = "close" /\ config.manifest = "bad" /\ k = "json"

\* Every writer closes its file on the way out of an error, but MarkdownWriter.
Leaks(k) == k = "md" /\ k \in broken

\* closeSinks: from the last output to the first; the errors are joined.
CloseSink ==
    /\ pc \in {"close", "abandon"}
    /\ \E k \in Hindmost(sinks) :
          /\ report' = [report EXCEPT ![k] = IF CloseFails(k) THEN "broken" ELSE "whole"]
          /\ file' = IF k \in File /\ ~Leaks(k) THEN [file EXCEPT ![k] = "closed"] ELSE file
          /\ runErr' = (runErr \/ CloseFails(k))
          /\ sinks' = sinks \ {k}
    /\ UNCHANGED <<config, pc, observer, tally, broken, held, audit, suppressed, offered,
                   host, collecting, errs>>

Return ==
    /\ pc \in {"close", "abandon"} /\ sinks = {}
    /\ pc' = "done"
    /\ UNCHANGED <<config, sinks, observer, tally, broken, sinkVars, suppressed, offered,
                   host, collecting, errs, runErr>>

Next == \/ NewEngine \/ CreateSink \/ CreateFails \/ Ready
        \/ \E k \in Output : Break(k)
        \/ \E f \in Finding : Offer(f)
        \/ \E how \in {"ok", "timeout"} : EndHost(how)
        \/ \E how \in {"all", "stopped"} : Finish(how)
        \/ CloseSink \/ Return

Spec == Init /\ [][Next]_vars
-----------------------------------------------------------------------------
Hidden == {f \in Range(offered) : IsSuppressed(f)}
Wanted == Range(offered) \ Hidden

\* The findings of an output stand in the order they were offered in, none twice.
InOrder(found) ==
    \A i, j \in DOMAIN found : i < j =>
        \E p, q \in DOMAIN offered : p < q /\ offered[p] = found[i] /\ offered[q] = found[j]

\* A run that returns no error has written every report it was asked for, and each
\* output was given every finding no rule suppresses, in the order they were found:
\* whichever output failed, and whenever, RunScan says so (writer.go:247, 494).
NothingIsLostSilently ==
    (pc = "done" /\ ~runErr) => \A k \in config.outputs :
        /\ report[k] = "whole"
        /\ Range(held[k]) = Wanted /\ InOrder(held[k])

\* The outputs of one run are nested: one later in the order of NewWriter never holds
\* a finding that an earlier one lacks, and what both hold they hold in one order
\* (writer.go:247 stops at the first that fails).
OutputsAreNested ==
    \A j, k \in config.outputs : Rank[j] < Rank[k] =>
        /\ Range(held[k]) \subseteq Range(held[j])
        /\ InOrder(held[j]) /\ InOrder(held[k])

\* What the wrapper hides stays auditable: no output holds a suppressed finding, and
\* the summary in a report counts, rule by rule, every suppressed finding that was
\* offered while the sink worked (suppression.go:69, 227; docs/reporting.md:337).
SuppressionIsAudited ==
    /\ \A k \in Output : \A f \in Range(held[k]) : ~IsSuppressed(f)
    /\ (pc = "done" /\ ~runErr) => \A k \in config.outputs \intersect Audits :
          /\ audit[k].total = Cardinality(Hidden)
          /\ DOMAIN audit[k].of = {RuleOf(f) : f \in Hidden}
          /\ \A id \in DOMAIN audit[k].of :
                audit[k].of[id] = Cardinality({f \in Hidden : RuleOf(f) = id})

\* Once RunScan has returned no output file is open, whether the outputs were all
\* created or not; only MarkdownWriter leaves its file open, when writing it failed
\* (writer.go:180, 487; markdown.go:66).
NoFileIsLeftOpen ==
    pc = "done" => \A k \in File : file[k] = "open" => (k = "md" /\ k \in broken)

-----------------------------------------------------------------------------
(***************************************************************************)
(* The inductive invariant behind them.                                    *)
(***************************************************************************)
RuleIds == {RuleOf(f) : f \in {g \in Finding : IsSuppressed(g)}}

FlowTypeInv ==
    /\ config.outputs \subseteq Output /\ sinks \subseteq config.outputs
    /\ broken \subseteq config.outputs
    /\ pc \in {"engine", "create", "scan", "close", "abandon", "done"}
    /\ file \in [File -> {"none", "open", "closed"}]
    /\ held \in [Output -> Seq(Finding)]
    /\ report \in [Output -> {"none", "whole", "broken"}]
    /\ DOMAIN audit = Output
    /\ suppressed \in Seq([of : Finding, id : RuleIds])
    /\ offered \in Seq(Finding) /\ IsFiniteSet(Range(offered))
    /\ {collecting, errs, runErr} \subseteq BOOLEAN

\* Where RunScan is, and what it has open: a file that is open is one of those, or
\* the one that Markdown leaks.
OpenInv ==
    /\ pc = "engine" \/ pc = "done" => sinks = {}
    /\ pc = "scan" => sinks = config.outputs
    /\ pc \in {"engine", "create", "scan"} => ~runErr
    /\ pc = "abandon" => runErr
    /\ \A k \in File : file[k] = "open" => k \in sinks \/ (k = "md" /\ k \in broken)

\* No output holds what it was not offered, or what it was to be spared, nor in
\* another order; and none holds more than an earlier one.
HeldInv ==
    /\ \A k \in Output : Range(held[k]) \subseteq Wanted /\ InOrder(held[k])
    /\ \A j, k \in config.outputs :
          Rank[j] < Rank[k] => Range(held[k]) \subseteq Range(held[j])

\* Every finding that was offered is where it belongs.
Lossless ==
    /\ collecting
    /\ \A k \in config.outputs : Range(held[k]) = Wanted
    /\ Len(suppressed) = Cardinality(Hidden)
    /\ {suppressed[i].id : i \in DOMAIN suppressed} = {RuleOf(f) : f \in Hidden}
    /\ \A id \in RuleIds : Cardinality({i \in DOMAIN suppressed : suppressed[i].id = id})
                             = Cardinality({f \in Hidden : RuleOf(f) = id})

\* If it is not, an output that failed will have its Close fail, or has.
LossInv == \/ Lossless
           \/ pc = "scan" /\ Failing # {}
           \/ pc = "close" /\ sinks \intersect broken # {}
           \/ pc \in {"close", "done"} /\ runErr

ClosedInv ==
    (pc \in {"close", "done"} /\ ~runErr) =>
        /\ \A k \in config.outputs \ sinks : report[k] = "whole"
        /\ \A k \in config.outputs \intersect Audits : audit[k] = Summary(suppressed)

FlowInv == FlowTypeInv /\ OpenInv /\ HeldInv /\ LossInv /\ ClosedInv

=============================================================================
