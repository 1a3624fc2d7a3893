---------------------------- MODULE FindingScore ----------------------------
(***************************************************************************)
(* What a finding of a file is worth: its value quality, its triage, and   *)
(* the findings of one file and category made into one with a score.       *)
(*                                                                         *)
(* A finding has rule, severity (0..4), confidence (0..3), signal,         *)
(* category, tags, values (the qualities of the secrets in its evidence),  *)
(* connection (whether that looks like a connection string), and, once it  *)
(* is made into one with others, signals and rules (sets), base, score.    *)
(* The metadata of the file has the keywords of its path, ad, priority and *)
(* share_priority.                                                         *)
(***************************************************************************)
EXTENDS Integers, FiniteSets, SequencesExt

CONSTANT RuleRank   \* the order of the ids of the rules

Lesser(a, b) == IF a < b THEN a ELSE b
Greater(a, b) == IF a > b THEN a ELSE b

Weight == [validated |-> 40, content |-> 32, filename |-> 18, extension |-> 10]
Cap == [content |-> 40, validated |-> 42, filename |-> 24, extension |-> 14, path |-> 12,
        share_priority |-> 12, planner_priority |-> 14]
-----------------------------------------------------------------------------
(* The quality of the values: the points a value is given, and weak.       *)
Points == [empty |-> 0, placeholder |-> 1, short |-> 2, uniform |-> 2, plain |-> 3,
           moderate |-> 8, plausible |-> 12, strong |-> 18]
WeakValues == {"empty", "placeholder", "short", "uniform", "plain"}
Quality(score, weak) == [score |-> score, weak |-> weak]

\* assessExtractedValuesQuality: the best value; weak when all of them are.
ExtractedQuality(values) ==
    IF values = {} THEN Quality(0, FALSE)
    ELSE LET best == Max({Points[v] : v \in values})
         IN IF values \subseteq WeakValues THEN Quality(IF best = 0 THEN 2 ELSE best, TRUE)
            ELSE Quality(best, FALSE)

\* assessConnectionStringQuality, of evidence that looks like a connection string.
ConnectionQuality(values) ==
    LET q == ExtractedQuality(values)
    IN IF values = {} THEN Quality(4, TRUE)
       ELSE IF q.weak THEN Quality(Lesser(q.score, 4), TRUE)
       ELSE IF q.score = 18 THEN Quality(18, FALSE)
       ELSE Quality(Greater(q.score, 10), FALSE)

\* weakContentSuppression: a match of content that is dropped at once.
Suppressed(f) ==
    IF f.rule = "content.database_connection_string_indicators"
    THEN f.connection /\ ConnectionQuality(f.values).weak
    ELSE f.category \in {"credentials", "infrastructure"} /\ ExtractedQuality(f.values).weak

\* assessFindingValueQuality.
HasSignal(f, s) == s \in f.signals \union {f.signal}
FindingQuality(f) ==
    IF HasSignal(f, "validated")
    THEN IF f.connection /\ ConnectionQuality(f.values).score >= 14
         THEN ConnectionQuality(f.values)
         ELSE IF f.category \in {"database-access", "credentials", "crypto", "deployment"}
              THEN Quality(18, FALSE) ELSE Quality(14, FALSE)
    ELSE IF HasSignal(f, "content")
    THEN IF f.connection THEN ConnectionQuality(f.values)
         ELSE IF ExtractedQuality(f.values).score > 0 THEN ExtractedQuality(f.values)
         ELSE Quality(8, FALSE)
    ELSE Quality(0, FALSE)
-----------------------------------------------------------------------------
(* Triage.                                                                 *)
ExploitRules == {"filename.private_key_artifacts", "filename.secret_store_artifacts",
                 "filename.windows_hive_artifacts", "filename.ad_database_backup_artifacts",
                 "filename.windows_hive_backup_artifacts"}
\* isValidatedArtifactIdentityOnly: the families of rules that tell only what a file is.
IdentityRules == {"backupinspect.path", "browsercredinspect", "dbinspect.artifact",
                  "dbinspect.infrastructure", "wincredinspect.path",
                  "awsinspect.path.credentials", "awsinspect.path.config"}
AWSPathRules == {"awsinspect.path.credentials", "awsinspect.path.config"}

UsableEvidence(f) ==
    /\ ~FindingQuality(f).weak
    /\ \/ f.signal = "content"
       \/ f.signal = "validated" /\ f.rule \notin IdentityRules
StrongEvidence(f) == UsableEvidence(f) \/ f.rule \in ExploitRules
TriageClass(f) == IF StrongEvidence(f) THEN "actionable"
                  ELSE IF f.category = "configuration" THEN "config-only" ELSE "weak-review"

Level(score) == IF score >= 70 THEN 3 ELSE IF score >= 35 THEN 2 ELSE 1

\* applyTriageMetadata, and the cap the artifacts of AWS and of browsers get again.
WeakReview(f) ==
    [f EXCEPT !.triage = "weak-review", !.actionable = FALSE,
              !.severity = Lesser(@, 2), !.score = Lesser(@, 34),
              !.confidence = IF @ = 0 THEN 2 ELSE Lesser(@, 2)]
ConfigOnly(f) ==
    [f EXCEPT !.triage = "config-only", !.actionable = FALSE,
              !.severity = Lesser(@, 1), !.score = Lesser(@, 24), !.confidence = 1]
ApplyTriage(f) ==
    LET g == [f EXCEPT !.correlated = Cardinality(f.signals) > 1 \/ Cardinality(f.rules) > 1]
    IN CASE TriageClass(g) = "config-only" -> ConfigOnly(g)
         [] TriageClass(g) = "weak-review" -> WeakReview(g)
         [] OTHER -> [g EXCEPT !.triage = "actionable", !.actionable = TRUE,
                               !.confidence = IF @ = 0 /\ g.score > 0 THEN Level(g.score) ELSE @]

\* newFinding, of a rule that matched.
NewFinding(match) ==
    ApplyTriage(match @@ [signals |-> {match.signal}, rules |-> {match.rule}, score |-> 0,
                          base |-> 0, triage |-> "", actionable |-> FALSE, correlated |-> FALSE])
-----------------------------------------------------------------------------
(* The findings of one file and one category, in the order they were found.*)
\* selectPrimaryFinding: not an order, the id of the rule outdoes the signal.
Priority(signal) == CASE signal = "validated" -> 4 [] signal = "content" -> 3
                      [] signal = "filename" -> 2 [] signal = "extension" -> 1 [] OTHER -> 0
Primary(group) ==
    FoldLeft(LAMBDA best, f :
                IF \/ f.severity > best.severity
                   \/ /\ f.severity = best.severity
                      /\ \/ Priority(f.signal) > Priority(best.signal)
                         \/ RuleRank[f.rule] < RuleRank[best.rule]
                THEN f ELSE best,
             group[1], Tail(group))

\* pathContextSignal, sharePrioritySignal, plannerPrioritySignal.
PathWeight(meta) == IF meta.keywords THEN 12 ELSE 0
ShareWeight(meta) == IF meta.ad = "sysvol" THEN 12
                     ELSE IF meta.ad = "netlogon" \/ meta.share_priority >= 90 THEN 10
                     ELSE IF meta.share_priority >= 50 THEN 6 ELSE 0
PlannerWeight(meta) == IF meta.priority >= 120 THEN 14 ELSE IF meta.priority >= 80 THEN 12
                       ELSE IF meta.priority >= 40 THEN 6 ELSE 0
ContextWeights(meta) == [path |-> PathWeight(meta), share_priority |-> ShareWeight(meta),
                         planner_priority |-> PlannerWeight(meta)]

\* allowsContextBoosts.
HasTag(group, tag) == \E f \in Range(group) : tag \in f.tags
HasStrongSignal(group) == \E f \in Range(group) : f.signal \in {"content", "validated"}
AllowsBoostsOfMetadata(group) ==   \* mutant: evidence in the content takes the context away
    ~HasStrongSignal(group)
    /\ group[1].category \notin {"configuration", "infrastructure", "scripts",
                                 "database-artifacts"}
AllowsContextBoosts(group) ==
    IF HasStrongSignal(group)
    THEN group[1].category = "database-artifacts" => HasTag(group, "db:type:dump-export")
    ELSE group[1].category \notin {"configuration", "infrastructure", "scripts",
                                   "database-artifacts"}

\* correlateGroup: the capped weights by signal, a bonus for several, and those of tags.
Of(group, signal) == {i \in DOMAIN group : group[i].signal = signal}
Weights(group, meta) ==
    [s \in DOMAIN Cap |->
        IF s \in DOMAIN Weight THEN Weight[s] * Cardinality(Of(group, s))
        ELSE IF AllowsContextBoosts(group) THEN ContextWeights(meta)[s] ELSE 0]
Signals(weights) == {s \in DOMAIN weights : weights[s] > 0}
Bonus(n) == IF n >= 4 THEN 18 ELSE IF n >= 3 THEN 14 ELSE IF n >= 2 THEN 8 ELSE 0
TagBonus(group) ==
    (IF HasTag(group, "artifact:private-key") /\ HasTag(group, "validated:private-key-header")
     THEN 8 ELSE 0)
    + (IF HasTag(group, "credstore:path-exact") THEN 10 ELSE 0)
    + (IF /\ HasTag(group, "artifact:aws-credentials")
          /\ HasTag(group, "aws:type:bundle") \/ HasTag(group, "aws:type:session-bundle")
       THEN 10 ELSE 0)
    + (IF HasTag(group, "artifact:backup-family") THEN 10 ELSE 0)
BaseScore(group, meta) ==
    LET w == Weights(group, meta)
        Capped(s) == Lesser(w[s], Cap[s])
    IN Lesser(100, Capped("validated") + Capped("content") + Capped("filename")
                   + Capped("extension") + Capped("path") + Capped("share_priority")
                   + Capped("planner_priority")
                   + Bonus(Cardinality(Signals(w))) + TagBonus(group))

CorrelateGroup(group, meta) ==
    LET base == BaseScore(group, meta)
    IN ApplyTriage([Primary(group) EXCEPT
           !.severity = Max({f.severity : f \in Range(group)}),
           !.base = base, !.score = base, !.confidence = Level(base),
           !.tags = UNION {f.tags : f \in Range(group)},
           !.signals = Signals(Weights(group, meta)),
           !.rules = {f.rule : f \in Range(group)}])

\* adjustAWSArtifactVisibility, adjustBrowserArtifactVisibility: by the rule alone.
AdjustVisibility(f) ==
    IF f.rule \in AWSPathRules \union {"browsercredinspect"}
    THEN WeakReview([f EXCEPT !.correlated = FALSE]) ELSE f

\* correlateFindings, of the findings of one file or member.
CorrelateFindings(findings, meta) ==
    {AdjustVisibility(CorrelateGroup(SelectSeq(findings, LAMBDA f : f.category = c), meta)) :
        c \in {f.category : f \in Range(findings)}}
=============================================================================
