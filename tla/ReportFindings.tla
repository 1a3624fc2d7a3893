--------------------------- MODULE ReportFindings ---------------------------
(***************************************************************************)
(* What the report writers make of the findings when they are closed:      *)
(* equal ones are merged, artifacts that belong together become one        *)
(* correlated finding more, and the HTML report and the export of          *)
(* credentials put one secret at several places into one entry.            *)
(*                                                                         *)
(* A finding is a record; a name stands for all its spellings, a path is   *)
(* the sequence of its parts from the root of the share on, and text is    *)
(* the evidence.  The writers keep findings in Go maps, so the builders    *)
(* meet them in any order: an operator on a sequence is about that order.  *)
(***************************************************************************)
EXTENDS Lists

CONSTANTS Ext,        \* the extension of a base name that has one
          PathRank    \* the order of the paths as texts

ExtOf(base) == IF base \in DOMAIN Ext THEN Ext[base] ELSE ""
Flag(b) == IF b THEN 1 ELSE 0
First(a, b) == IF a # <<>> THEN a ELSE b

\* The one that is left when each of them is held against the best before it.
Winner(seq, beats) ==
    FoldLeft(LAMBDA best, f : IF <<f, best>> \in beats THEN f ELSE best, seq[1], Tail(seq))
Pairs(seq) == Range(seq) \X Range(seq)

\* dedupeReportFindings: of those with one key the better one.
DedupKey(f) == <<f.rule, f.category, f.host, f.share, f.path, f.archive, f.member,
                 f.table, f.line, f.text>>
Better(right, left) ==
    \/ right.actionable /\ ~left.actionable
    \/ right.correlated /\ ~left.correlated
    \/ right.score > left.score
    \/ right.severity > left.severity
    \/ right.context > left.context
Best(same) == Winner(same, {p \in Pairs(same) : Better(p[1], p[2])})
Same(findings, f) == Those(findings, {g \in Range(findings) : DedupKey(g) = DedupKey(f)})
Dedupe(findings) == {Best(Same(findings, f)) : f \in Range(findings)}
-----------------------------------------------------------------------------
(* The artifacts: what a finding is to a correlation, and what it belongs  *)
(* to there, a directory, a profile or a backup.                           *)
Hives == [ntds     |-> {"ntds.dit", "ntds.dit.bak", "ntds.dit.old"},
          system   |-> {"system", "system.bak", "system.old"},
          sam      |-> {"sam", "sam.bak", "sam.old"},
          security |-> {"security", "security.bak", "security.old"}]
HivesNamed(base) == {h \in DOMAIN Hives : base \in Hives[h]}

PasswordRules == {"content.password_assignment_indicators",
                  "content.password_note_value_indicators",
                  "content.note_style_credential_pair_indicators"}
BackupPathRules == {"backupinspect.path.windowsimagebackup", "backupinspect.path.regback",
                    "backupinspect.path.system_volume_information",
                    "backupinspect.path.windows_repair"}
\* The roles a finding has by its rule alone.
AWSRoles == [credentials |-> {"awsinspect.path.credentials",
                              "awsinspect.content.credentials_bundle"},
             config      |-> {"awsinspect.path.config"}]
KeyRuleRoles == [private |-> {"keyinspect.content.private_key_header",
                              "filename.private_key_artifacts"},
                 ssh     |-> {"filename.ssh_supporting_artifacts"},
                 client  |-> {"extension.client_auth_artifacts"}]
BrowserRoles == [logins     |-> {"browsercredinspect.firefox.logins"},
                 key4       |-> {"browsercredinspect.firefox.key4"},
                 login_data |-> {"browsercredinspect.chromium.login_data"},
                 cookies    |-> {"browsercredinspect.chromium.cookies"}]
WinCredRoles == [credentials |-> {"wincredinspect.path.credentials"},
                 vault       |-> {"wincredinspect.path.vault"},
                 protect     |-> {"wincredinspect.path.protect"}]
ByRule(roles, f) == {r \in DOMAIN roles : f.rule \in roles[r]}

KeyRoles(f) ==
    LET base == Last(f.path)
    IN CASE base \in {"id_rsa", "id_ed25519", "id_ecdsa", "id_dsa", "identity"} -> {"private"}
         [] base \in {"authorized_keys", "known_hosts"} -> {"ssh"}
         [] ExtOf(base) \in {".ovpn", ".ppk"} -> {"client"}
         [] OTHER -> ByRule(KeyRuleRoles, f)
CertificateRoles(f) ==
    IF /\ ExtOf(Last(f.path)) \in {".pfx", ".p12"}
       /\ f.rule = "extension.key_and_certificate_extensions" THEN {"certificate"}
    ELSE IF f.rule \in PasswordRules THEN {"password"} ELSE {}
SQLiteRoles(f) ==
    IF f.dbfile # <<>> /\ f.table # "" THEN {"sqlite"}
    ELSE IF \/ Last(f.path) \in {".env", "web.config", "appsettings.json", "database.yml",
                                 "application.properties", "config.php", "docker-compose.yml"}
            \/ ExtOf(Last(f.path)) \in {".dsn", ".udl", ".bak", ".dump", ".dmp"}
            \/ f.category \in {"database-access", "database-infrastructure"}
         THEN {"support"} ELSE {}
BackupRoles(f) == IF f.rule \in BackupPathRules THEN {} ELSE HivesNamed(Last(f.path))

Roles(kind, f) == CASE kind = "ad" -> HivesNamed(Last(f.path)) \intersect {"ntds", "system"}
                    [] kind = "key" -> KeyRoles(f)
                    [] kind = "certificate" -> CertificateRoles(f)
                    [] kind = "sqlite" -> SQLiteRoles(f)
                    [] kind = "backup" -> BackupRoles(f)
                    [] kind = "aws" -> ByRule(AWSRoles, f)
                    [] kind = "browser" -> ByRule(BrowserRoles, f)
                    [] OTHER -> ByRule(WinCredRoles, f)

\* A marker is looked for with a slash on both sides: not at the root of the share.
At(path, marker) == {i \in 2..(Len(path) - Len(marker)) :
                        SubSeq(path, i, i + Len(marker) - 1) = marker}
Found(path, markers, more) ==
    SelectSeq(markers, LAMBDA m : \E i \in At(path, m) : i + Len(m) + more <= Len(path))
FirstOf(seq) == {seq[i] : i \in DOMAIN seq \intersect {1}}
Before(path, markers) ==
    {SubSeq(path, 1, Min(At(path, m)) - 1) : m \in FirstOf(Found(path, markers, 0))}
UpTo(path, markers, more) ==
    {SubSeq(path, 1, Min(At(path, m)) + Len(m) - 1 + more) :
        m \in FirstOf(Found(path, markers, more))}

\* ProfileContext of the inspectors, BackupContext: by the first marker that is there.
AWSProfile(path) == Before(path, <<<<".aws">>>>)
WinProfile(path) == Before(path, <<<<"appdata", "roaming">>, <<"appdata", "local">>>>)
BrowserProfile(path) ==
    UpTo(path, <<<<"mozilla", "firefox", "profiles">>, <<"google", "chrome", "user data">>,
                 <<"microsoft", "edge", "user data">>,
                 <<"bravesoftware", "brave-browser", "user data">>>>, 1)
BackupContext(path) ==
    UpTo(path, <<<<"windowsimagebackup">>, <<"system volume information">>,
                 <<"windows", "system32", "config", "regback">>, <<"regback">>,
                 <<"windows", "repair">>>>, 0)

\* remoteAccessDirectoryContext: a directory "tier-1", ... counts as the one above it.
Tiers == {"tier-1", "tier-2"}
Collapse(dir) == IF Len(dir) > 1 /\ Last(dir) \in Tiers THEN Front(dir) ELSE dir
AccessContext(f) ==
    IF f.archive = <<>> THEN Collapse(Front(f.path))
    ELSE IF Len(f.member) > 1 THEN f.archive \o <<"!">> \o Collapse(Front(f.member))
    ELSE f.archive
BasePath(f) == First(f.dbfile, f.path)

\* What the findings of a pair have in common besides host and share, which only some
\* of the pairs insist on.
Located(f, contexts) == IF f.host = "" \/ f.share = "" THEN {} ELSE contexts
ADContexts(f) == Located(f, {IF f.archive # <<>> THEN f.archive ELSE Front(f.path)})
AccessContexts(f) == Located(f, {AccessContext(f)})
SQLiteContexts(f) == Located(f, {Front(BasePath(f))})
AWSContexts(f) == AWSProfile(f.path)
BrowserContexts(f) == BrowserProfile(f.path)
WinCredContexts(f) == WinProfile(f.path)
BackupContexts(f) == BackupContext(f.path)
Contexts(kind, f) ==
    CASE kind = "ad" -> ADContexts(f)
      [] kind \in {"key", "certificate"} -> AccessContexts(f)
      [] kind = "sqlite" -> SQLiteContexts(f)
      [] kind = "aws" -> AWSContexts(f)
      [] kind = "browser" -> BrowserContexts(f)
      [] kind = "wincred" -> WinCredContexts(f)
      [] kind = "backup" -> BackupContexts(f)
BucketsByHost(kind, f) ==   \* mutant: the share is left out of the key
    {<<f.host, "", c>> : c \in Contexts(kind, f)}
Buckets(kind, f) == {<<f.host, f.share, c>> : c \in Contexts(kind, f)}
-----------------------------------------------------------------------------
(* The pairs: in a bucket the first line whose roles are all there counts. *)
(* score is the finding's confidence, rank its place among access paths.   *)
Line(primary, support, category, severity, score, rank) ==
    [primary |-> primary, support |-> support, category |-> category,
     severity |-> severity, score |-> score, rank |-> rank]
ADPairs == <<Line("ntds", <<"system">>, "active-directory", 4, 82, 99)>>
AWSPairs == <<Line("credentials", <<"config">>, "cloud", 3, 78, 90)>>
KeyPairs == <<Line("private", <<"client">>, "remote-access", 4, 84, 90),
              Line("private", <<"ssh">>, "remote-access", 3, 76, 80)>>
CertificatePairs == <<Line("certificate", <<"password">>, "remote-access", 4, 82, 90)>>
BrowserPairs == <<Line("logins", <<"key4">>, "browser-credentials", 4, 84, 78),
                  Line("login_data", <<"cookies">>, "browser-credentials", 3, 78, 74)>>
WinCredPairs == <<Line("protect", <<"credentials", "vault">>, "windows-credentials", 4, 88, 92),
                  Line("protect", <<"credentials">>, "windows-credentials", 4, 84, 86),
                  Line("protect", <<"vault">>, "windows-credentials", 4, 84, 86)>>
SQLitePairs == <<Line("sqlite", <<"support">>, "database-access", 3, 80, 80)>>
Pairings == [ad |-> ADPairs, aws |-> AWSPairs, key |-> KeyPairs, certificate |-> CertificatePairs,
             browser |-> BrowserPairs, wincred |-> WinCredPairs, sqlite |-> SQLitePairs]
Kinds == DOMAIN Pairings \union {"backup"}

\* selectBestCorrelationAnchor.
AnchorsBetter(f, best) == \/ f.score > best.score \/ f.severity > best.severity
                          \/ PathRank[f.path] < PathRank[best.path]
Anchor(findings) == Winner(findings, {p \in Pairs(findings) : AnchorsBetter(p[1], p[2])})
InRoles(kind, roles, bucket) ==
    Those(bucket, {f \in Range(bucket) : Roles(kind, f) \intersect roles # {}})

CorrelationRule ==
    [ad |-> "correlation.ad.ntds_system", aws |-> "correlation.cloud.aws_profile_bundle",
     key |-> "correlation.remote_access.private_key_bundle",
     certificate |-> "correlation.remote_access.certificate_bundle",
     browser |-> "correlation.browser.profile_credential_store",
     wincred |-> "correlation.windows.dpapi_credential_store",
     sqlite |-> "correlation.database.sqlite_exposure",
     backup |-> "correlation.backup.system_state_exposure"]
ApplicationConfig == {".env", "appsettings.json", "web.config", "docker-compose.yml"}

\* new...CorrelatedFinding.  That of an AD pair names no archive.
Correlation(kind, line, p, s) ==
    [p EXCEPT !.rule = CorrelationRule[kind], !.category = line.category,
              !.severity = line.severity,
              !.score = IF p.rule = "awsinspect.content.credentials_bundle" THEN 84 ELSE line.score,
              !.actionable = TRUE, !.correlated = TRUE, !.triage = "actionable",
              !.archive = IF kind = "ad" THEN <<>> ELSE First(p.archive, s.archive),
              !.member = IF kind = "ad" THEN <<>> ELSE First(p.member, s.member),
              !.dbfile = IF kind = "sqlite" THEN p.dbfile ELSE <<>>,
              !.table = IF kind = "sqlite" THEN p.table ELSE "",
              !.line = 0, !.secret = <<>>, !.context = 2,
              !.text = (IF kind = "sqlite" THEN BasePath(p) ELSE p.path) \o s.path,
              !.rank = IF kind = "sqlite" /\ Last(s.path) \in ApplicationConfig THEN 82
                       ELSE line.rank]

Pair(kind, bucket) ==
    LET in(role) == InRoles(kind, {role}, bucket)
        complete(l) == \A r \in {l.primary} \union Range(l.support) : in(r) # <<>>
        lines == Those(Pairings[kind], {l \in Range(Pairings[kind]) : complete(l)})
    IN IF lines = <<>> THEN {}
       ELSE LET line == lines[1] IN
            {Correlation(kind, line, Anchor(in(line.primary)),
                         Anchor(FlattenSeq([i \in DOMAIN line.support |-> in(line.support[i])])))}

\* Two hives of a backup or more: the rank of a pair that is complete, or of three hives.
\* A backup in "System Volume Information" counts as one that has the SYSTEM hive.
BackupRank(hives, pathRules) ==
    LET named == hives \union (IF /\ "backupinspect.path.system_volume_information" \in pathRules
                                  /\ "backupinspect.path.windowsimagebackup" \notin pathRules
                               THEN {"system"} ELSE {})
    IN IF {"ntds", "system"} \subseteq named THEN 96 ELSE IF Cardinality(named) >= 3 THEN 96 ELSE 90
BackupPair(bucket) ==
    LET held == UNION {Roles("backup", bucket[i]) : i \in DOMAIN bucket}
        order == Those(<<"ntds", "system", "sam", "security">>, held)
        best == [i \in DOMAIN order |-> Anchor(InRoles("backup", {order[i]}, bucket))]
        p == Anchor(best)
        s == Anchor(Those(InRoles("backup", held, bucket),
                          {f \in Range(bucket) : f.path # p.path \/ f.rule # p.rule}))
        paths == {bucket[i].rule : i \in DOMAIN bucket} \intersect BackupPathRules
    IN IF Cardinality(held) < 2 THEN {}
       ELSE {Correlation("backup", Line("", <<>>, "backup-exposure", 4,
                                        IF paths = {} THEN 82 ELSE 86, BackupRank(held, paths)), p, s)}

Correlate(kind, findings) ==
    LET keys == UNION {Buckets(kind, findings[i]) : i \in DOMAIN findings}
        bucket(key) == Those(findings, {f \in Range(findings) : key \in Buckets(kind, f)})
    IN UNION {IF kind = "backup" THEN BackupPair(bucket(key)) ELSE Pair(kind, bucket(key)) :
                 key \in keys}

\* augmentFindingsForReporting, of merged findings met in this order: a correlated finding
\* that one of the findings is already is not added.
CorrelationKey(f) == <<f.host, f.share, f.path, f.rule>>
Augment(merged) ==
    LET known == {CorrelationKey(merged[i]) : i \in DOMAIN merged}
        found == UNION {Correlate(kind, merged) : kind \in Kinds}
    IN Dedupe(merged \o SetToSeq({f \in found : CorrelationKey(f) \notin known}))

\* buildAccessPathSummaries: the correlated findings of a known kind.  Their scores, and
\* the order in which the report lists them, are left out.
AccessPaths(findings) == {f \in findings : f.correlated /\ f.rank > 0}
-----------------------------------------------------------------------------
(* The HTML report: one entry for one secret, with all its places.         *)
IsCorrelation(f) == f.rule \in Range(CorrelationRule)
Material(f) == First(f.secret, f.text)
SameEntry(f, g) ==
    /\ f.rule = g.rule /\ f.category = g.category
    /\ IF IsCorrelation(f) \/ Material(f) = <<>> \/ Material(g) = <<>> THEN DedupKey(f) = DedupKey(g)
       ELSE Material(f) = Material(g)

\* reportFindingPreferred: what tells two findings apart first decides.
MeritByScore(f) ==   \* mutant: the score before all else
    <<f.score, Flag(f.actionable), Flag(f.correlated), f.severity, f.context,
      2 * Flag(f.archive = <<>>) + Flag(f.dbfile = <<>>), -Len(f.path)>>
Merit(f) ==
    <<Flag(f.actionable), Flag(f.correlated), f.score, f.severity, f.context,
      2 * Flag(f.archive = <<>>) + Flag(f.dbfile = <<>>), -Len(f.path)>>
Preferred(f, g) == \E i \in 1..7 : /\ Merit(f)[i] > Merit(g)[i]
                                   /\ \A j \in 1..(i - 1) : Merit(f)[j] = Merit(g)[j]
Canonical(group) == Winner(group, {p \in Pairs(group) : Preferred(p[1], p[2])})

\* groupDuplicateReportFindings, collectDuplicateLocations: where else the secret is.
Location(f) == <<f.host, f.share, f.path, f.archive, f.member, f.dbfile, f.table>>
Entries(findings) ==
    {[canonical |-> Canonical(group),
      places |-> {Location(group[i]) : i \in DOMAIN group}] :
        group \in {Those(findings, {g \in Range(findings) : SameEntry(f, g)}) :
                      f \in Range(findings)}}

\* splitGroupedFindingsByActionable, buildCategorySummaries.
PrimaryEntries(findings) == {e \in Entries(findings) : e.canonical.actionable}
CategorySummaries(entries) ==
    [c \in {e.canonical.category : e \in entries} |->
        LET of == {e \in entries : e.canonical.category = c}
        IN [findings |-> Cardinality(of),
            highest |-> Max({e.canonical.severity : e \in of})]]
-----------------------------------------------------------------------------
(* creds.txt: the secrets of actionable findings of some rules.            *)
ExportRules == PasswordRules \union
    {"awsinspect.content.credentials_bundle", "dbinspect.access.connection_string",
     "dbinspect.access.dsn", "keyinspect.content.private_key_header",
     "content.secret_assignment_indicators", "content.unattended_deployment_password_fields"}
SupportingOnly == {"filename.ssh_supporting_artifacts", "extension.database_and_backup_extensions"}
IsPrimaryLive(f) == f.actionable /\ f.rule \notin SupportingOnly
Confident(f) == f.confidence = "high" \/ f.score >= 60
ExportableAlsoSupporting(f) ==   \* mutant: what is not actionable is exported too
    f.rule \in ExportRules /\ Confident(f)
Exportable(f) == /\ IsPrimaryLive(f) /\ f.triage \notin {"weak-review", "config-only"}
                 /\ Confident(f) /\ f.rule \in ExportRules

\* buildCredentialEntries: one entry for one secret; one that is a placeholder or that
\* cannot be read from the evidence is none.
ExportsSecret(f) == Exportable(f) /\ f.secret # <<>> /\ f.secret # <<"placeholder">>
CredentialEntries(findings) ==
    LET exported == {f \in findings : ExportsSecret(f)}
    IN {[secret |-> f.secret,
         paths |-> {<<g.host, g.share, g.path>> : g \in {h \in exported : h.secret = f.secret}}] :
           f \in exported}
=============================================================================
