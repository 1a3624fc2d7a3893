----------------------------- MODULE RuleEngine -----------------------------
(***************************************************************************)
(* The rules: how rule files are loaded and validated, which rules are in  *)
(* force, what they match, and what `snablr rules` makes of them.          *)
(*                                                                         *)
(* A pattern, a path fragment and an extension are names.  A file has      *)
(* [path: the fragments it contains, name, content, extension: the         *)
(* patterns that match each, ext, size, dir].  Every caller loads rules    *)
(* with empty manager options, so only `enabled` filters them.             *)
(***************************************************************************)
EXTENDS Integers, FiniteSets, SequencesExt

RuleTypes == {"content", "filename", "extension"}
Severities == 1..4
Actions == {"report", "skip", "prioritize"}

\* loadRuleFile: nothing of a file that cannot be read, parsed or decoded; else the rules that
\* could be decoded, and an issue for each that could not and for each field unknown.
Readable(file) == file.yaml = "ok"
Decoded(file) == [file EXCEPT !.rules = SelectSeq(file.rules, LAMBDA r : r.decodes)]
FileIssues(file) ==
    IF ~Readable(file) THEN 1
    ELSE file.unknownKeys
         + FoldLeft(LAMBDA n, r : n + r.unknown + (IF r.decodes THEN 0 ELSE 1), 0, file.rules)

\* LoadRuleFiles: a root that is blank or missing is passed over, one that is no directory
\* is an error.  The files of all roots are sorted by their path.
RuleFilesOf(roots) ==
    LET walked == SelectSeq(roots, LAMBDA r : r.kind = "directory")
        all == FlattenSeq([i \in DOMAIN walked |-> walked[i].files])
    IN SelectSeq(all, LAMBDA f : f.ext \in {".yml", ".yaml"})
LoadRuleFiles(roots) ==
    LET found == RuleFilesOf(roots)
        loaded == SelectSeq(found, Readable)
    IN IF \E i \in DOMAIN roots : roots[i].kind \in {"file", "error"}
       THEN [ok |-> FALSE, files |-> <<>>, issues |-> 0]
       ELSE [ok |-> TRUE,
             files |-> SortSeq([i \in DOMAIN loaded |-> Decoded(loaded[i])],
                               LAMBDA f, g : f.path < g.path),
             issues |-> FoldLeft(LAMBDA n, f : n + FileIssues(f), 0, found)]

\* validateRule; complete stands for the texts that must not be blank.
ValidRule(rule) ==
    /\ rule.id # "" /\ rule.complete /\ rule.unknown = 0
    /\ rule.type \in RuleTypes /\ rule.severity \in Severities /\ rule.action \in Actions
    /\ rule.confidence \in {"", "low", "medium", "high"}
    /\ rule.max_file_size >= 0
    /\ "" \notin rule.file_extensions
    /\ rule.compiles

\* ValidateRuleFiles: of the rules with one id the first valid one is kept.
ValidateRuleFiles(files) ==
    LET current == SelectSeq(files, LAMBDA f : f.version \in {0, 1})
        rules == FlattenSeq([i \in DOMAIN current |-> current[i].rules])
        valid == SelectSeq(rules, ValidRule)
        kept == {i \in DOMAIN valid : \A j \in 1..(i - 1) : valid[j].id # valid[i].id}
        add(seq, i) == IF i \in kept THEN Append(seq, valid[i]) ELSE seq
    IN [rules |-> FoldLeft(add, <<>>, [i \in DOMAIN valid |-> i]),
        issues |-> Len(files) - Len(current) + Len(rules) - Cardinality(kept)]

\* Reload, LoadManager, newTestManager: the rules in force, and the issues.  A scan does
\* not start when there is one.
EnabledRules(rules) == SelectSeq(rules, LAMBDA r : r.enabled)
LoadManager(roots, failOnInvalid) ==
    LET loaded == LoadRuleFiles(roots)
        checked == ValidateRuleFiles(loaded.files)
        issues == loaded.issues + checked.issues
    IN [ok |-> loaded.ok /\ (failOnInvalid => issues = 0), issues |-> issues,
        all |-> checked.rules, rules |-> EnabledRules(checked.rules)]
ScanStarts(manager) == manager.ok /\ manager.issues = 0

RulesByType(rules, type) == {r \in Range(rules) : r.type = type}
SkipRules(rules) == {r \in Range(rules) : r.action = "skip"}
Reporting(some) == {r \in some : r.action # "skip"}
-----------------------------------------------------------------------------
(* What a rule matches.                                                    *)
\* containsAny: an empty fragment is in every path.
ContainsAny(path, fragments) == \E f \in fragments : f = "" \/ f \in path
EligibleBelow(rule, file) ==   \* mutant: a file of exactly the largest size is not eligible
    /\ rule.max_file_size > 0 => file.size < rule.max_file_size
    /\ rule.file_extensions # {} => file.ext \in rule.file_extensions
    /\ rule.include_paths # {} => ContainsAny(file.path, rule.include_paths)
    /\ rule.exclude_paths # {} => ~ContainsAny(file.path, rule.exclude_paths)
    /\ rule.type = "content" => ~file.dir
RuleEligible(rule, file) ==
    /\ rule.max_file_size > 0 => file.size <= rule.max_file_size
    /\ rule.file_extensions # {} => file.ext \in rule.file_extensions
    /\ rule.include_paths # {} => ContainsAny(file.path, rule.include_paths)
    /\ rule.exclude_paths # {} => ~ContainsAny(file.path, rule.exclude_paths)
    /\ rule.type = "content" => ~file.dir

CandidateValue(type, file) == CASE type = "content" -> file.content
                                [] type = "filename" -> file.name
                                [] type = "extension" -> file.extension
MatchRule(rule, file) == rule.pattern \in CandidateValue(rule.type, file)

\* ShouldExclude, collectMatches.
ShouldExclude(rules, file) ==
    \E r \in SkipRules(rules) : RuleEligible(r, file) /\ MatchRule(r, file)
CollectMatches(some, file) ==
    {r \in Reporting(some) : RuleEligible(r, file) /\ MatchRule(r, file)}
MatchFilename(rules, file) == CollectMatches(RulesByType(rules, "filename"), file)
                              \union CollectMatches(RulesByType(rules, "extension"), file)
MatchContent(rules, file) == CollectMatches(RulesByType(rules, "content"), file)
-----------------------------------------------------------------------------
(* `snablr rules validate`, `show`, `test` and `test-dir`.                 *)
\* testInputFile: the whole content is looked at, whatever the rules are.
TestInputFile(rules, file) ==
    IF ShouldExclude(rules, file) THEN [skipped |-> TRUE, matches |-> {}]
    ELSE [skipped |-> FALSE,
          matches |-> MatchFilename(rules, file) \union MatchContent(rules, file)]

\* TestRuleFile, TestRuleDirectory: nothing is tested when a rule is not valid; a summary
\* counts files and matches.  inputs are the files below the fixtures.
TestRules(loaded, inputs) ==
    LET checked == ValidateRuleFiles(loaded.files)
        rules == EnabledRules(checked.rules)
        result(f) == TestInputFile(rules, f)
    IN IF checked.issues > 0
       THEN [issues |-> loaded.issues + checked.issues, scanned |-> 0, skipped |-> 0,
             matched |-> 0, matches |-> {}]
       ELSE [issues |-> loaded.issues,
             scanned |-> Cardinality(inputs),
             skipped |-> Cardinality({f \in inputs : result(f).skipped}),
             matched |-> Cardinality({f \in inputs : result(f).matches # {}}),
             matches |-> UNION {{<<f, r.id>> : r \in result(f).matches} : f \in inputs}]
TestRuleFile(file, input) ==
    TestRules([files |-> <<Decoded(file)>>, issues |-> FileIssues(file)], {input})
TestRuleDirectory(roots, inputs) == TestRules(LoadRuleFiles(roots), inputs)

\* The exit codes of main, RunRulesTest and RunRulesTestDir, RunRulesValidate, RunRulesShow.
ExitCode(error, code) == IF ~error THEN 0 ELSE IF code = 0 THEN 1 ELSE code
RunRulesTest(summary) ==
    CASE summary.issues > 0 -> ExitCode(TRUE, 1)
      [] summary.issues = 0 /\ summary.matches # {} -> ExitCode(TRUE, 2)
      [] OTHER -> ExitCode(FALSE, 0)
RunRulesValidate(manager) == ExitCode(~ScanStarts(manager), 0)
RunRulesShow(manager, id) ==
    ExitCode(~manager.ok \/ id \notin {manager.all[i].id : i \in DOMAIN manager.all}, 0)
=============================================================================
