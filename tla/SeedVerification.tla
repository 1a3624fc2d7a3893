-------------------------- MODULE SeedVerification --------------------------
(***************************************************************************)
(* snablr-seed: which files it plants and how the findings of a scan are   *)
(* held against the manifest of what was planted, by `snablr-seed verify`  *)
(* and by the reports of a scan with a validation manifest.                *)
(*                                                                         *)
(* key is <<host, share, path>> as both sides normalise it, or <<>> when   *)
(* one of the three is empty.  Confidences and severities are ranks; here, *)
(* unlike in the reports, a critical severity has the rank of none.        *)
(***************************************************************************)
EXTENDS Integers, FiniteSets, SequencesExt

Count(S) == Cardinality(S)
TriageWeight == [actionable |-> 80, weak_review |-> 40, config_only |-> 10, other |-> 0]

\* observedFindingScore, summarizeObservedFindings: the first of the best.
Score(f) == (IF f.correlated THEN 200 ELSE 0) + (IF f.actionable THEN 100 ELSE 0)
            + TriageWeight[f.triage] + 10 * f.confidence + f.severity + f.rules
Observed(matches) ==
    matches[CHOOSE i \in DOMAIN matches :
               /\ \A j \in DOMAIN matches : Score(matches[i]) >= Score(matches[j])
               /\ \A j \in 1..(i - 1) : Score(matches[j]) < Score(matches[i])]

\* isLowValueObserved, matchesExpectedPromotion.
IsLowValue(o) == \/ o.triage \in {"config_only", "weak_review"}
                 \/ ~o.actionable /\ ~o.correlated /\ o.confidence <= 2
Promoted(o, entry, needsCorrelation) ==
    /\ o.actionable \/ o.triage = "actionable"
    /\ o.confidence >= (IF entry.confidence = 0 THEN 2 ELSE entry.confidence)
    /\ (needsCorrelation \/ entry.correlated) => o.correlated

\* evaluateExpectedClass.
Classes == {"config-only", "weak-review", "actionable", "correlated-high-confidence"}
ClassStatus(entry, matches) ==
    CASE matches = <<>> -> IF entry.class = "config-only" THEN "suppressed" ELSE "mismatched"
      [] matches # <<>> /\ entry.class \in {"config-only", "weak-review"} ->
            IF IsLowValue(Observed(matches)) THEN "downgraded" ELSE "mismatched"
      [] matches # <<>> /\ entry.class \in {"actionable", "correlated-high-confidence"} ->
            IF Promoted(Observed(matches), entry, entry.class # "actionable") THEN "promoted"
            ELSE "mismatched"
      [] OTHER -> "mismatched"

\* verifyFindings.  Of the entries with one key the last one counts.
IsExpected(entry) == entry.intended # "filler/noise"
Matches(findings, key) == SelectSeq(findings, LAMBDA f : f.key = key)
ByKey(manifest) ==
    LET keys == {manifest[i].key : i \in DOMAIN manifest} \ {<<>>}
    IN [k \in keys |-> manifest[Max({i \in DOMAIN manifest : manifest[i].key = k})]]

UnexpectedOfExpected(findings, byKey) ==   \* mutant: a finding on a filler counts as well
    {i \in DOMAIN findings : /\ findings[i].key # <<>>
                             /\ ~\E k \in DOMAIN byKey : k = findings[i].key /\ IsExpected(byKey[k])}
UnexpectedFindings(findings, byKey) ==
    {i \in DOMAIN findings : findings[i].key \notin DOMAIN byKey \union {<<>>}}

Verify(manifest, findings) ==
    LET byKey == ByKey(manifest)
        expected == {k \in DOMAIN byKey : IsExpected(byKey[k])}
        fillers == DOMAIN byKey \ expected
        found == {k \in expected : Matches(findings, k) # <<>>}
        classed(c) == {k \in expected : byKey[k].class = c}
        status(k) == ClassStatus(byKey[k], Matches(findings, k))
    IN [found |-> found, missed |-> expected \ found,
        fillerMatched |-> {k \in fillers : Matches(findings, k) # <<>>},
        unexpected |-> UnexpectedFindings(findings, byKey),
        \* what is planted is counted entry by entry, the rest key by key
        coverage |-> [c \in {byKey[k].category : k \in expected} |->
            [expected |-> Count({i \in DOMAIN manifest : /\ manifest[i].key # <<>>
                                                         /\ IsExpected(manifest[i])
                                                         /\ manifest[i].category = c}),
             found |-> Count({k \in found : byKey[k].category = c}),
             missed |-> Count({k \in expected \ found : byKey[k].category = c})]],
        classes |-> [c \in {byKey[k].class : k \in expected} \ {""} |->
            [planted |-> Count({i \in DOMAIN manifest : /\ manifest[i].key # <<>>
                                                        /\ IsExpected(manifest[i])
                                                        /\ manifest[i].class = c}),
             detected |-> Count(classed(c) \intersect found),
             missed |-> Count(classed(c) \ found),
             matched |-> Count({k \in classed(c) : status(k) # "mismatched"}),
             mismatched |-> Count({k \in classed(c) : status(k) = "mismatched"})]],
        signals |-> [s \in UNION {byKey[k].signals : k \in expected} |->
            LET seen(k) == UNION {f.signals : f \in Range(Matches(findings, k))}
                want == {k \in expected : s \in byKey[k].signals}
            IN [found |-> Count({k \in want : s \in seen(k)}),
                missed |-> Count({k \in want : s \notin seen(k)})]]]

\* buildValidationSummary: what was promoted more than it should be.
OverPromoted(entry, matches) ==
    /\ entry.class \in {"config-only", "weak-review"} /\ matches # <<>>
    /\ ClassStatus(entry, matches) = "mismatched"
    /\ LET o == Observed(matches)
       IN o.triage # "other" /\ (o.triage = "actionable" \/ o.confidence = 3 \/ o.correlated)
-----------------------------------------------------------------------------
(* Generate: the files of a category one after the other, until there are  *)
(* MaxFiles.  The first ones take the variants in order, later ones one    *)
(* that fits the ratios (pick).  A name that is taken gets a number.       *)
Numbered(name, taken, dir) ==
    IF <<dir, name, 1>> \notin taken THEN 1
    ELSE CHOOSE n \in 2..(Count(taken) + 2) : /\ <<dir, name, n>> \notin taken
                                              /\ \A m \in 2..(n - 1) : <<dir, name, m>> \in taken
\* spec: [dirs, variants], both sequences; pick(i) is the variant of a later file.
Generate(specs, perCategory, maxFiles, pick) ==
    LET n == Len(specs) * perCategory
        spec(i) == specs[1 + ((i - 1) \div perCategory)]
        index(i) == (i - 1) % perCategory
        dir(i) == spec(i).dirs[1 + (index(i) % Len(spec(i).dirs))]
        variant(i) == IF index(i) < Len(spec(i).variants) THEN spec(i).variants[index(i) + 1]
                      ELSE spec(i).variants[1 + (pick % Len(spec(i).variants))]
        add(files, i) ==
            IF Len(files) >= maxFiles \/ spec(i).variants = <<>> THEN files
            ELSE Append(files, <<dir(i), variant(i),
                                 Numbered(variant(i), Range(files), dir(i))>>)
    IN FoldLeft(add, <<>>, [i \in 1..n |-> i])
=============================================================================
