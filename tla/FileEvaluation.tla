--------------------------- MODULE FileEvaluation ---------------------------
(***************************************************************************)
(* What the scanner does with one file: whether it is passed over, whether *)
(* its content is read, and what is found in it, in the members of an      *)
(* archive or a WIM image and in the tables of a database.                 *)
(*                                                                         *)
(* A file is one of RuleEngine with                                        *)
(*   tail      ".tar.gz" or ".tgz" when its name ends so, or ""            *)
(*   marks     what the inspectors find by its path and name               *)
(*   wanted    whether an inspector but that of databases asks for content *)
(*   held      what the inspectors find in its content                     *)
(*   assigned  the rules for which an XML assignment stands in for a match *)
(*   weak      the rules whose match in it is a weak one                   *)
(*   members   of an archive or image; tables, of a database               *)
(* cfg is a configuration of ScanSettings; a find is <<rule>>, one in the   *)
(* cells of a database <<table, column, kind>>; in a member with its path  *)
(* first.                                                                  *)
(***************************************************************************)
EXTENDS ScanSettings, RuleEngine

ArchiveExt(file) == IF file.tail # "" THEN file.tail ELSE file.ext
Office == {".docx", ".xlsx", ".pptx"}
IsZIP(file) == ArchiveExt(file) \in Office \union {".zip"}
IsTAR(file) == ArchiveExt(file) \in {".tar", ".tar.gz", ".tgz"}
IsArchive(file) == IsZIP(file) \/ IsTAR(file)
IsWIM(file) == file.ext = ".wim"
IsSQLite(file) == file.ext \in {".sqlite", ".sqlite3", ".db", ".db3"}

\* ShouldInspect, of a kind with a switch, an automatic limit and one for large files.
Within(size, on, automatic, large, limit) ==
    /\ on
    /\ \/ automatic > 0 /\ size <= automatic
       \/ large /\ (limit > 0 => size <= limit)
ArchiveDecision(cfg, file) ==
    IF IsZIP(file) THEN Within(file.size, cfg.archives, cfg.auto_zip, cfg.large_zip, cfg.max_zip)
    ELSE Within(file.size, cfg.archives, cfg.auto_tar, cfg.large_tar, cfg.max_tar)
WIMDecision(cfg, file) == Within(file.size, cfg.wim, cfg.auto_wim, cfg.large_wim, cfg.max_wim)
SQLiteDecision(cfg, file) == Within(file.size, cfg.sqlite, cfg.auto_db, cfg.large_db, cfg.max_db)

\* shouldSkipByPath: the skip rules see no content.
ShouldSkipByPath(rules, file) ==
    ShouldExclude(rules, [file EXCEPT !.ext = IF IsArchive(file) THEN ArchiveExt(file) ELSE @,
                                      !.content = {}])

\* ruleMatchesMetadata: unlike in the rule engine an empty fragment is in no path.
ContainsPath(path, fragments) == (fragments \ {""}) \intersect path # {}
RuleMatchesMetadata(rule, file) ==
    /\ rule.max_file_size > 0 => file.size <= rule.max_file_size
    /\ rule.file_extensions # {} => file.ext \in rule.file_extensions
    /\ rule.include_paths # {} => ContainsPath(file.path, rule.include_paths)
    /\ rule.exclude_paths # {} => ~ContainsPath(file.path, rule.exclude_paths)

\* The hints and shouldReadContent, ContentScanner.NeedsContent.
ContentRules(rules) == Reporting(RulesByType(rules, "content"))
ContentHints(rules) == UNION {r.file_extensions : r \in ContentRules(rules)}
HasGenericText(rules) == \E r \in ContentRules(rules) : r.file_extensions = {}
ShouldReadContent(cfg, rules, file) ==
    /\ file.size <= ScanReadLimit(cfg)
    /\ HasGenericText(rules) \/ file.ext \in ContentHints(rules)
    /\ \E r \in ContentRules(rules) : RuleMatchesMetadata(r, file)
AsksForContent(cfg, rules, file) ==
    \/ ShouldReadContent(cfg, rules, file)
    \/ file.wanted
    \/ IsSQLite(file) /\ SQLiteDecision(cfg, file)

\* NeedsContent: what the worker reads the file for.
NeedsContent(cfg, rules, file) ==
    /\ ~file.dir /\ ~ShouldSkipByPath(rules, file)
    /\ IF IsArchive(file) THEN ArchiveDecision(cfg, file)
       ELSE IF IsWIM(file) THEN WIMDecision(cfg, file)
       ELSE IF IsSQLite(file) THEN SQLiteDecision(cfg, file)
       ELSE file.size <= cfg.max_file /\ AsksForContent(cfg, rules, file)
-----------------------------------------------------------------------------
(* The tables of a database: those and the columns with a telling name,    *)
(* rows and bytes up to their limits.  A cell is [bytes, quality].         *)
\* assessSensitiveValueQuality, also of the scanner; entropy in tenths of a bit.
Varied(value) == value.entropy >= 18 /\ (value.entropy >= 24 \/ value.classes >= 2)
ValueQuality(value) ==
    IF value.placeholder \/ value.length < 8 \/ value.distinct <= 2 \/ ~Varied(value) THEN "weak"
    ELSE IF /\ value.length >= 14 /\ value.distinct >= 6
            /\ value.classes >= 3 \/ value.entropy >= 32
         THEN "strong" ELSE "plausible"

\* normalizeCellValue, matchForCell: a value of a column of connections counts when it is one.
CellBytes(cfg, cell) == Min({cell.bytes, cfg.cell_bytes})
CellFinds(table, cell) ==
    IF cell.connection
    THEN IF cell.parses THEN {<<table.name, cell.column, "connection_string">>} ELSE {}
    ELSE IF cell.quality = "weak" THEN {} ELSE {<<table.name, cell.column, "sensitive_value">>}

\* inspectTable: the cell that passes the budget ends it, and the budget is the table's own.
InspectTable(cfg, table) ==
    LET rows == SubSeq(table.rows, 1, Min({cfg.rows, Len(table.rows)}))
        cells == SelectSeq(FlattenSeq(rows), LAMBDA c : c.bytes > 0)
        step(s, c) == IF s.over THEN s
                      ELSE LET bytes == s.bytes + CellBytes(cfg, c)
                           IN [over |-> bytes > cfg.db_bytes, bytes |-> bytes,
                               finds |-> IF bytes > cfg.db_bytes THEN s.finds
                                         ELSE s.finds \union CellFinds(table, c)]
    IN FoldLeft(step, [over |-> FALSE, bytes |-> 0, finds |-> {}], cells)
\* InspectContent, interestingTables, splitInterestingColumns: priority orders the tables.
InspectDatabase(cfg, file) ==
    LET telling == SortSeq(SelectSeq(file.tables, LAMBDA t : t.priority > 0),
                           LAMBDA t, u : t.priority > u.priority)
        tables == SubSeq(telling, 1, Min({cfg.tables, Len(telling)}))
        step(s, t) == IF s.bytes >= cfg.db_bytes THEN s
                      ELSE LET r == InspectTable(cfg, t)
                           IN [bytes |-> s.bytes + r.bytes, finds |-> s.finds \union r.finds]
    IN IF ~IsSQLite(file) \/ ~SQLiteDecision(cfg, file) THEN {}
       ELSE FoldLeft(step, [bytes |-> 0, finds |-> {}], tables).finds
-----------------------------------------------------------------------------
(* The members of an archive.  A member is a file with member, a record of *)
(* what the reader of the archive sees of it.                              *)
MemberExtensions ==
    {".txt", ".ini", ".conf", ".config", ".xml", ".json", ".yaml", ".yml", ".csv", ".log",
     ".ps1", ".bat", ".cmd", ".vbs", ".sh", ".bash", ".zsh", ".py", ".rb", ".php", ".pl",
     ".js", ".ts", ".cs", ".vb", ".java", ".go", ".sql", ".reg", ".env", ".md", ".dsn",
     ".udl", ".ora", ".properties", ".toml", ".ovpn", ".ppk"}
\* shouldInspectMember; official says that the path is one an office document has text at.
ShouldInspectMember(cfg, rules, file, m) ==
    IF ArchiveExt(file) \in Office THEN m.ext = ".xml" /\ m.member.official
    ELSE \/ m.ext \in MemberExtensions \union ContentHints(rules) /\ m.ext # ""
         \/ m.ext = "" /\ cfg.plain_members

\* InspectZIP, InspectTAR: passed over, too large, or the one that ends the inspection.
PassedOver(cfg, m) == \/ m.dir \/ m.member.special \/ m.member.suspicious \/ m.member.nested
                      \/ m.size > cfg.member_size
InspectMembers(cfg, rules, file) ==
    LET step(s, m) ==
            IF s.over \/ Len(s.members) >= cfg.members THEN [s EXCEPT !.over = TRUE]
            ELSE IF PassedOver(cfg, m) THEN s
            ELSE IF s.bytes + m.size > cfg.total_size THEN [s EXCEPT !.over = TRUE]
            ELSE IF /\ ShouldInspectMember(cfg, rules, file, m)
                    /\ m.member.readable /\ m.member.text
            THEN [s EXCEPT !.bytes = @ + m.size, !.members = Append(@, m)]
            ELSE s
    IN FoldLeft(step, [over |-> FALSE, bytes |-> 0, members |-> <<>>], file.members).members

\* A TAR whose entries cannot be read to the end is not inspected at all.
ArchiveParses(file) == file.parses

\* Inspect of wiminspect: targeted paths, some of them only by name.
InspectWIM(cfg, file) ==
    LET step(s, m) ==
            IF s.over \/ ~m.member.targeted THEN s
            ELSE IF Len(s.members) >= cfg.wim_members THEN [s EXCEPT !.over = TRUE]
            ELSE IF ~m.member.extracted THEN [s EXCEPT !.members = Append(@, m)]
            ELSE IF ~m.member.readable \/ m.size > cfg.wim_member_size THEN s
            ELSE IF s.bytes + m.size > cfg.wim_total_size THEN [s EXCEPT !.over = TRUE]
            ELSE [s EXCEPT !.bytes = @ + m.size, !.members = Append(@, m)]
    IN FoldLeft(step, [over |-> FALSE, bytes |-> 0, members |-> <<>>], file.members).members
-----------------------------------------------------------------------------
(* Evaluate: read says that the content could be read and is not empty.    *)
\* FilenameScanner, ExtensionScanner, ContentScanner, weakContentSuppression.
Scanned(rules, type, file) ==
    {r \in Reporting(RulesByType(rules, type)) :
        RuleMatchesMetadata(r, file) /\ MatchRule(r, file)}
ScannedByName(rules, file) ==
    {<<r.id>> : r \in Scanned(rules, "filename", file) \union Scanned(rules, "extension", file)}
ScannedByContent(rules, file) ==
    LET standIn == {r \in ContentRules(rules) : /\ RuleMatchesMetadata(r, file)
                                                /\ r.id \in file.assigned}
    IN {<<r.id>> : r \in {x \in Scanned(rules, "content", file) \union standIn :
                            x.id \notin file.weak}}

EvaluateStandard(cfg, rules, file, read, forced) ==
    LET need == forced \/ AsksForContent(cfg, rules, file)
        named == ScannedByName(rules, file) \union file.marks
        looks == need /\ read
    IN [skipped |-> FALSE, read |-> looks, need |-> need,
        finds |-> named \union (IF looks THEN ScannedByContent(rules, file) \union file.held
                                ELSE {}),
        cells |-> IF looks THEN InspectDatabase(cfg, file) ELSE {}]
Skipped == [skipped |-> TRUE, read |-> FALSE, need |-> FALSE, finds |-> {}, cells |-> {}]

\* evaluateArchive, evaluateWIM: the skip rules are not asked about members.
\* The content of the forced ones is looked into, of the others only the name.
OfMembers(cfg, rules, members, forced) ==
    LET seen(m) == EvaluateStandard(cfg, rules, m, m \in forced, m \in forced)
        within(found) == UNION {{<<m.path>> \o find : find \in found[m]} : m \in Range(members)}
    IN [skipped |-> FALSE, read |-> TRUE, need |-> TRUE,
        finds |-> within([m \in Range(members) |-> seen(m).finds]),
        cells |-> within([m \in Range(members) |-> seen(m).cells])]
EvaluateArchive(cfg, rules, file, read) ==
    IF ~read \/ ~ArchiveParses(file) THEN [Skipped EXCEPT !.need = TRUE, !.read = read]
    ELSE LET members == InspectMembers(cfg, rules, file)
         IN OfMembers(cfg, rules, members, Range(members))
EvaluateWIM(cfg, rules, file, read) ==
    IF ~read \/ ~file.parses THEN [Skipped EXCEPT !.need = TRUE, !.read = read]
    ELSE LET members == InspectWIM(cfg, file)
         IN OfMembers(cfg, rules, members, {m \in Range(members) : m.member.extracted})

Evaluate(cfg, rules, file, read) ==
    IF file.dir \/ ShouldSkipByPath(rules, file) THEN Skipped
    ELSE IF IsArchive(file)
    THEN IF ArchiveDecision(cfg, file) THEN EvaluateArchive(cfg, rules, file, read) ELSE Skipped
    ELSE IF IsWIM(file)
    THEN IF WIMDecision(cfg, file) THEN EvaluateWIM(cfg, rules, file, read) ELSE Skipped
    ELSE IF (IsSQLite(file) /\ ~SQLiteDecision(cfg, file)) \/ file.size > cfg.max_file
    THEN Skipped ELSE EvaluateStandard(cfg, rules, file, read, FALSE)
=============================================================================
