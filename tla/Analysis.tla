------------------------------- MODULE Analysis -------------------------------
(***************************************************************************)
(* What Snablr computes without waiting for anyone: the scope of a scan,   *)
(* the decisions about a file, the score of a finding, what the reports    *)
(* make of the findings, the comparison of two reports, and the count of a *)
(* seeded scan.  A behaviour is one such computation on one input; the     *)
(* modules below are the code of it, the definitions here say what it      *)
(* should come to, each in another way than the code does.                 *)
(***************************************************************************)
EXTENDS ScanScope, FileEvaluation, FindingScore, ReportFindings, ReportDiff, SeedVerification

CONSTANTS Hosts, Shares, ScopeConfigs,          \* inputs: what is scanned, and with which filters
          ConfigFiles, FlagSets, Launches,      \* the settings, and from where they are read
          RuleLists, Files,                     \* rules and the files they meet
          FileFindings, FileMetas,              \* the findings of one file, and what it is
          Findings,                             \* the findings of a scan
          Reports,                              \* pairs of an earlier and a later scan
          Plantings, SeedFindings, SeedEntry    \* what is seeded, and found

\* The settings that are sizes, what the rules see of a file, a list, an absolute path.
Sizes == {"max_file", "auto_zip", "max_zip", "auto_tar", "max_tar", "auto_wim", "max_wim",
          "auto_db", "max_db"}
FileFields == {"path", "name", "content", "extension", "ext", "size", "dir"}
IsList(s) == s \in Seq(Range(s))
IsPlace(path) == path \in Seq(STRING) /\ IsAbs(path)

IdentityFields == {"host", "share", "path", "rule", "correlated", "rank"}

\* Sizes are numbers, places are absolute, a scan is a list, a rule is of one of the types
\* and does not go by the name of an inspector, and of the findings that the reports start
\* from none is a correlated one yet.
ASSUME AnalysisAssumption ==
    /\ \A c \in ConfigFiles \union FlagSets : \A s \in DOMAIN c \intersect Sizes : c[s] \in Int
    /\ \A f \in Files : f.size \in Nat /\ FileFields \subseteq DOMAIN f
    /\ \A l \in Launches : \A path \in l.exists \union {l.cwd, l.exe} : IsPlace(path)
    /\ \A rules \in RuleLists, f \in Files : \A r \in Range(rules) :
          r.type \in RuleTypes /\ <<r.id>> \notin f.marks \union f.held
    /\ \A group \in FileFindings : IsList(group)
    /\ \A scans \in Reports : IsList(scans[1]) /\ IsList(scans[2])
    /\ \A findings \in Findings : IsList(findings) /\ \A f \in Range(findings) :
          IdentityFields \subseteq DOMAIN f /\ f.rule \notin Range(CorrelationRule)
    /\ \A p \in Plantings : p.per \in Nat /\ IsList(p.specs)

\* Names are compared in lower case and without the blanks in front, and names that differ
\* in case only differ so without the blanks too.  A server lists no share twice, and a file
\* or directory of a share once, each with the directories it lies in.
Names == DOMAIN Fold
ASSUME ScopeAssumption ==
    /\ BatchSize \in Nat \ {0} /\ ClientDepth \in Int
    /\ Bare \in [Names -> Names] /\ \A n \in Names : Bare[Bare[n]] = Bare[n]
    /\ \A a, b \in Names : Fold[a] = Fold[b] => Key(a) = Key(b)
    /\ \A host \in Hosts :
          /\ host.shares \in Seq(Names) /\ host.dfs \in Seq(Names)
          /\ \A i, j \in DOMAIN host.shares :
                Key(host.shares[i]) = Key(host.shares[j]) => i = j
    /\ \A cfg \in ScopeConfigs :
          /\ cfg.shares \in Seq(Names) /\ cfg.max_depth \in Int
          /\ cfg.paths \union cfg.exclude_paths \subseteq Seq(Names)
    /\ \A share \in Shares :
          /\ IsList(share) /\ \A i, j \in DOMAIN share : share[i].path = share[j].path => i = j
          /\ \E d \in Range(share) : d.dir /\ d.path = <<>>
          /\ \A e \in Range(share) :
                /\ e.path \in Seq(Names) /\ e.opens \in {"yes", "denied", "fails"}
                /\ \A n \in 0..Len(e.path) - 1 :
                      \E d \in Range(share) : d.dir /\ d.path = SubSeq(e.path, 1, n)

VARIABLES task,    \* what is computed, or "none"
          input,   \* from what
          result   \* and what it comes to
vars == <<task, input, result>>

Init == task = "none" /\ input = <<>> /\ result = <<>>
Idle == task = "none"
Compute(name, in, out) == task' = name /\ input' = in /\ result' = out

PlanHost == Idle /\ \E host \in Hosts, cfg \in ScopeConfigs :
    Compute("plan", [host |-> host, cfg |-> cfg], PlanShares(host, cfg))

ScopeShare == Idle /\ \E share \in Shares, cfg \in ScopeConfigs :
    Compute("share", [share |-> share, cfg |-> cfg],
            ScanShare(share, "data", "ldap", cfg))

\* The configuration of a scan: the file, the command line over it, and the checks.
Configured(file, flags) == ApplyScanOverrides(Load(file, <<>>), flags)
EvaluateFile ==
    Idle /\ \E file \in ConfigFiles, flags \in FlagSets, rules \in RuleLists, f \in Files :
        LET cfg == Configured(file, flags) IN
        /\ Loads(file) /\ ValidateScanConfig(cfg)
        /\ Compute("evaluate", [cfg |-> cfg, rules |-> rules, file |-> f],
                   [need |-> NeedsContent(cfg, rules, f),
                    limit |-> ScanReadLimit(cfg),
                    seen |-> Evaluate(cfg, rules, f, TRUE),
                    tested |-> TestInputFile(rules, f)])

\* Load of a configuration that is there, and where it has the rules.
FindRules == Idle /\ \E l \in Launches :
    LET config == ResolveConfigPath(l.config, l.cwd, l.exe, l.exists) IN
    /\ config \in l.exists
    /\ Compute("rules", [found |-> config, launch |-> l],
               RulePaths(<<>>, Dir(config), l.cwd, l.exe, l.exists))

ScoreFindings == Idle /\ \E group \in FileFindings, meta \in FileMetas :
    Compute("score", [group |-> group, meta |-> meta],
            [i \in DOMAIN group |-> BaseScore(SubSeq(group, 1, i), meta)])

\* Close of the HTML writer and of that of creds.txt: each meets the merged findings in an
\* order of its own.
WriteReport == Idle /\ \E findings \in Findings :
    \E html, creds \in SetToSeqs(Dedupe(findings)) :
        LET all == Augment(html) IN
        Compute("report", findings,
                [all |-> all, paths |-> AccessPaths(all),
                 primary |-> PrimaryEntries(SetToSeq(all)),
                 credentials |-> CredentialEntries(Augment(creds))])

CompareScans == Idle /\ \E scans \in Reports :
    LET old == Saved(scans[1])
    IN Compute("diff", scans, [offline |-> DiffOfReports(old, Saved(scans[2])),
                               online |-> DiffInScan(old, scans[2])])

\* The manifest of what Generate plants, held against what a scan finds.
Planted(content, key) ==
    [field \in DOMAIN content \union {"key"} |-> IF field = "key" THEN key ELSE content[field]]
VerifySeed == Idle /\ \E p \in Plantings, findings \in SeedFindings :
    LET planted == Generate(p.specs, p.per, p.max, p.pick)
        manifest == [i \in DOMAIN planted |-> Planted(SeedEntry[planted[i][2]], planted[i])]
    IN Compute("verify", [manifest |-> manifest, findings |-> findings],
               Verify(manifest, findings))

Next == PlanHost \/ ScopeShare \/ FindRules \/ ScoreFindings \/ VerifySeed \/ CompareScans
        \/ WriteReport \/ EvaluateFile
Spec == Init /\ [][Next]_vars
-----------------------------------------------------------------------------
(* The scope of a scan.                                                    *)
\* A file is in scope by itself, whatever way leads to it.
InScope(share, cfg) ==
    {e.path : e \in {f \in Range(share) :
        LET path == f.path
            Above == {SubSeq(path, 1, n) : n \in 1..Len(path)} IN
        /\ ~f.dir
        /\ Len(path) <= 1 + (IF cfg.max_depth > 0 THEN cfg.max_depth ELSE ClientDepth)
        /\ cfg.paths = {} \/ cfg.paths \intersect Above # {}
        /\ cfg.exclude_paths \intersect Above = {}
        /\ \A i \in DOMAIN path, p \in cfg.exclude_paths :
              Len(p) = 1 => Fold[p[1]] # Fold[path[i]]
        /\ \A d \in Range(share) : d.dir /\ d.path \in Above \union {<<>>} => d.opens = "yes"}}
\* Of two files whose paths differ in case or in a blank only one may stay.
Alone(path, share) ==
    /\ Bare[path[1]] = path[1]
    /\ \A e \in Range(share) :
          (e.path # <<>> /\ Lower(Trimmed(e.path)) = Lower(path)) => e.path = path
SharesInScope(host, cfg) ==
    LET served == {s \in Range(host.shares) : Fold[s] \notin {"", "ipc$", "print$"}}
        named == IF cfg.shares = <<>> THEN served \intersect host.opens ELSE Range(cfg.shares)
        all == {Fold[Bare[s]] : s \in named \union Range(host.dfs)} \ {""}
    IN {s \in all : /\ s \notin {Fold[Bare[x]] : x \in cfg.exclude_shares}
                    /\ cfg.shares # <<>> => s \in {Fold[Bare[x]] : x \in Range(cfg.shares)}
                    /\ cfg.only_ad => s \in {"sysvol", "netlogon"}}

\* scanHost and WalkShareWithOptions: the shares a host is scanned for are those the filters
\* let through, each once; and of a share whose walk ends well exactly the files in scope
\* are queued, each once, though directories are judged long before their files and files
\* again in batches.  The exception are files that are told apart only by case or a blank.
ScopeIsExactlyScanned ==
    /\ task = "plan" =>
          /\ {Fold[result[i].share] : i \in DOMAIN result} = SharesInScope(input.host, input.cfg)
          /\ Len(result) = Cardinality(SharesInScope(input.host, input.cfg))
    /\ task = "share" =>
          LET scope == InScope(input.share, input.cfg) IN
          /\ Range(result.queue) \subseteq scope
          /\ \A path \in scope :
                LET times == Cardinality({i \in DOMAIN result.queue : result.queue[i] = path})
                IN Alone(path, input.share) => IF result.ok THEN times = 1 ELSE times <= 1
-----------------------------------------------------------------------------
(* A file and its rules.                                                   *)
\* NeedsContent, Evaluate and scanReadLimit, of a configuration that passed the checks: the
\* worker reads exactly the files whose evaluation looks at the content, and the client does
\* not refuse one of them for its size.  The exception is a database over max_file, which is
\* read and then passed over.
WantedFilesAreReadAndEvaluated ==
    task = "evaluate" =>
        LET inVain == IsSQLite(input.file) /\ input.file.size > input.cfg.max_file IN
        /\ result.need => input.file.size <= result.limit
        /\ ~inVain => result.need = result.seen.need

\* TestInputFile and Evaluate: what a scan reports of a plain file by its rules, `snablr rules
\* test` shows as well, though the one asks the scanners and the other the manager.  Beside
\* skip rules for content, which a scan never applies, and path fragments that are blank.
TesterShowsWhatTheScanFinds ==
    (task = "evaluate" /\ ~IsArchive(input.file) /\ ~IsWIM(input.file)) =>
        LET rules == Range(input.rules)
            plain == \A r \in rules : /\ "" \notin r.include_paths \union r.exclude_paths
                                     /\ ~(r.action = "skip" /\ r.type = "content")
            own == {<<r.id>> : r \in {x \in rules : x.id \notin input.file.assigned}}
        IN plain => result.seen.finds \intersect own \subseteq {<<r.id>> : r \in result.tested.matches}

\* RulePaths, detectRuntimeRoot, resolveConfigPath: a configuration in a checkout brings the
\* rules of the nearest checkout it is in, from wherever the program is started, unless the
\* working directory has rules itself.  (A directory that is missing is passed over: a scan
\* with other paths would run without rules and say nothing.)
RulesStayWithTheConfiguration ==
    task = "rules" =>
        LET rules == <<"configs", "rules", "default">>
            exists == input.launch.exists
            above == {n \in 0..Len(input.found) - 1 :
                        LET dir == SubSeq(input.found, 1, n) IN
                        /\ dir \o rules \in exists
                        /\ \/ dir \o <<"configs", "config.yaml">> \in exists
                           \/ dir \o <<"go.mod">> \in exists}
        IN (above # {} /\ input.launch.cwd \o rules \notin exists) =>
               \E n \in above : /\ \A m \in above : m <= n
                                /\ result[1] = SubSeq(input.found, 1, n) \o rules

\* correlateGroup: one finding more in a file never lowers the score of its group, though it
\* may add a signal, reach a cap or change whether the context of the file counts.
MoreEvidenceRaisesTheScore ==
    task = "score" => \A i \in DOMAIN result : i > 1 => result[i] >= result[i - 1]
-----------------------------------------------------------------------------
(* The reports.                                                            *)
\* What belongs together: on one share of one host, and in one directory, profile or backup.
Together(kind, f, g) ==
    /\ f.host = g.host /\ f.share = g.share
    /\ Contexts(kind, f) \intersect Contexts(kind, g) # {}
\* Whether a line of the kind is complete around f, by f itself and others.
Completes(kind, f, line, found) ==
    /\ line.primary \in Roles(kind, f)
    /\ \A r \in Range(line.support) :
          \E g \in found : Together(kind, f, g) /\ r \in Roles(kind, g)
PairedKinds == DOMAIN Pairings

\* augmentFindingsForReporting and the builders: a correlated finding is made exactly where
\* all the artifacts of a pair are together, of one of them, in whatever order they are met;
\* a pair of two hosts, shares or directories is none.
CorrelationIsExact ==
    task = "report" =>
        LET found == Dedupe(input)
            of(kind) == {c \in result.all : c.rule = CorrelationRule[kind]} IN
        \A kind \in PairedKinds :
            /\ \A c \in of(kind) : \E f \in found :
                  /\ f.host = c.host /\ f.share = c.share /\ f.path = c.path
                  /\ \E line \in Range(Pairings[kind]) : Completes(kind, f, line, found)
            /\ \A f \in found :
                  (\E line \in Range(Pairings[kind]) : Completes(kind, f, line, found)) =>
                      /\ \E c \in of(kind), g \in found :
                            Together(kind, f, g) /\ c.host = g.host /\ c.share = g.share /\ c.path = g.path
                      /\ result.paths \intersect of(kind) # {}

\* groupDuplicateReportFindings, splitGroupedFindingsByActionable: wherever an actionable
\* finding is, an entry of the report's main part names the place, also when the finding that
\* stands for the entry is another one.
ActionableLocationsAreShown ==
    task = "report" =>
        \A f \in {g \in result.all : g.actionable} :
            \E e \in result.primary : Location(f) \in e.places

\* buildCredentialEntries and the HTML report: each file creds.txt names a secret of is in
\* the main part of the report too, though the two are written apart and meet the findings
\* in different orders.
ExportedSecretsAreShown ==
    task = "report" =>
        \A entry \in result.credentials : \A path \in entry.paths :
            \E e \in result.primary : \E l \in e.places : SubSeq(l, 1, 3) = path

\* RunDiff and a scan with a baseline: both see the same findings as new and as gone, and
\* the same fields of the others as changed but for the priorities: that of the finding is
\* not written to a report, and that of the share is not read back.
Planned == {"priority", "priority_reason", "share_priority", "share_priority_reason"}
SavedReportsCompareAlike ==
    task = "diff" =>
        LET fields(diff, fp) == UNION {c.fields : c \in {d \in diff.changed : d.fp = fp}} IN
        /\ result.offline.new = result.online.new
        /\ result.offline.removed = result.online.removed
        /\ \A fp \in result.online.unchanged \union {c.fp : c \in result.online.changed} :
              fields(result.offline, fp) = fields(result.online, fp) \ Planned

-----------------------------------------------------------------------------
(* The seeded scan.                                                        *)
\* Generate and verifyFindings: of what is planted each file is found or missed, once, and
\* each finding is on a file that was expected, on a filler or unexpected; the counts by
\* category and by class agree, though some count entries of the manifest and some keys.
VerificationAddsUp ==
    task = "verify" =>
        LET entries(P(_)) == Cardinality({i \in DOMAIN input.manifest : P(input.manifest[i])})
            expected(m) == m.intended # "filler/noise"
            filler(m) == m.intended = "filler/noise"
            on(P(_)) == {i \in DOMAIN input.findings : \E j \in DOMAIN input.manifest :
                            P(input.manifest[j]) /\ input.findings[i].key = input.manifest[j].key}
            keyed == {i \in DOMAIN input.findings : input.findings[i].key # <<>>}
        IN /\ Cardinality(result.found) + Cardinality(result.missed) = entries(expected)
           /\ \A c \in Range(result.coverage) : c.expected = c.found + c.missed
           /\ \A c \in Range(result.classes) : /\ c.planted = c.detected + c.missed
                                              /\ c.planted = c.matched + c.mismatched
           /\ result.unexpected = keyed \ (on(expected) \union on(filler))
           /\ on(expected) \intersect on(filler) = {}
=============================================================================
