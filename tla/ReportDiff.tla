----------------------------- MODULE ReportDiff -----------------------------
(***************************************************************************)
(* The comparison of two scans.  `snablr diff` compares two JSON reports;  *)
(* a scan with a baseline compares one JSON report with the findings it    *)
(* holds in memory.  A finding is a partial function from the names of its *)
(* fields to values; a name that is missing is a field with Go's zero      *)
(* value, and a value stands for all its spellings.                        *)
(***************************************************************************)
EXTENDS Integers, FiniteSets, SequencesExt

Identity == {"rule_id", "host", "share", "file_path", "match"}
\* compareFields.
Compared == {"rule_name", "severity", "confidence", "rule_confidence", "confidence_score",
             "category", "priority", "priority_reason", "share_priority",
             "share_priority_reason", "share_description", "share_type", "source",
             "dfs_namespace_path", "dfs_link_path", "match_snippet", "match_reason",
             "rule_explanation", "rule_remediation", "from_sysvol", "from_netlogon", "tags",
             "matched_rule_ids", "matched_signal_types", "confidence_reasons",
             "supporting_signals"}
\* The rest of scanner.Finding.
Kept == {"archive_path", "archive_member_path", "archive_local_inspect", "database_file_path",
         "database_table", "database_column", "database_row_context", "triage_class",
         "actionable", "correlated", "confidence_breakdown", "signal_type", "matched_text",
         "matched_text_redacted", "context", "context_redacted", "potential_account",
         "line_number"}
Fields == Identity \union Compared \union Kept

Field(f, name) == IF name \in DOMAIN f THEN f[name] ELSE ""
Only(f, names) == [n \in DOMAIN f \intersect names |-> f[n]]

\* toJSONFinding and LoadJSON: the planner's priority is not written, and that of the
\* share is not read.
WrittenWithoutTags == Fields \ {"priority", "priority_reason", "tags"}   \* mutant: a field is left out
Written == Fields \ {"priority", "priority_reason"}
Loaded == Written \ {"share_priority", "share_priority_reason"}
Saved(findings) == [i \in DOMAIN findings |-> Only(findings[i], Written)]
LoadJSON(report) == [i \in DOMAIN report |-> Only(report[i], Loaded)]

\* Fingerprint: with the rules that matched, if there are any.
Fingerprint(f) ==
    [rule |-> IF Field(f, "matched_rule_ids") # "" THEN f.matched_rule_ids ELSE Field(f, "rule_id"),
     place |-> [n \in Identity \ {"rule_id"} |-> Field(f, n)]]

\* Compare: of the findings with one fingerprint only the last counts.
Fingerprints(findings) == {Fingerprint(findings[i]) : i \in DOMAIN findings}
Latest(findings, fp) ==
    findings[Max({i \in DOMAIN findings : Fingerprint(findings[i]) = fp})]
CompareFields(prev, curr) == {n \in Compared : Field(prev, n) # Field(curr, n)}
Compare(previous, current) ==
    LET before == Fingerprints(previous)
        now == Fingerprints(current)
        fields(fp) == CompareFields(Latest(previous, fp), Latest(current, fp))
    IN [new |-> now \ before, removed |-> before \ now,
        changed |-> {[fp |-> fp, fields |-> fields(fp)] :
                        fp \in {x \in now \intersect before : fields(x) # {}}},
        unchanged |-> {fp \in now \intersect before : fields(fp) = {}}]

\* CurrentStatuses: the status a report gives a finding.
StatusOf(result, f) ==
    LET fp == Fingerprint(f)
    IN CASE fp \in result.new -> "new"
         [] fp \in {c.fp : c \in result.changed} -> "changed"
         [] fp \in result.unchanged -> "unchanged"
         [] OTHER -> ""

\* RunDiff; and Close of the JSON and the HTML writer, for which an empty baseline is none.
DiffOfReports(old, new) == Compare(LoadJSON(old), LoadJSON(new))
HasBaseline(baseline) == baseline # <<>>
DiffInScan(baseline, findings) == Compare(LoadJSON(baseline), findings)
=============================================================================
