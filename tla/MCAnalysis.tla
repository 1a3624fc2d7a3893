------------------------------ MODULE MCAnalysis ------------------------------
(***************************************************************************)
(* The inputs of Analysis: for each computation a few that meet its        *)
(* boundaries, in every combination and order.                             *)
(***************************************************************************)
EXTENDS Analysis

\* Names: in lower case, and without a blank in front.
AllNames == {"", "a", "A", "b", "x", " x", "logs", "Logs", "sysvol", "SYSVOL", "payroll",
             "PAYROLL", " payroll", "scripts", "IPC$", "ipc$", "data"}
MCFold == [n \in AllNames |-> CASE n \in {"a", "A"} -> "a" [] n \in {"logs", "Logs"} -> "logs"
                                [] n \in {"sysvol", "SYSVOL"} -> "sysvol"
                                [] n \in {"payroll", "PAYROLL"} -> "payroll"
                                [] n \in {"ipc$", "IPC$"} -> "ipc$" [] OTHER -> n]
MCBare == [n \in AllNames |-> CASE n = " x" -> "x" [] n = " payroll" -> "payroll" [] OTHER -> n]
MCClientDepth == 3

\* One host, whose server lists a share that does not open; links of a DFS lead to others.
MCHosts ==
    {[shares |-> shares, opens |-> Range(shares) \ {"scripts"}, dfs |-> dfs, source |-> "ldap"] :
        shares \in {<<"SYSVOL", "IPC$", "payroll">>, <<"scripts", "a">>, <<>>},
        dfs \in {<<>>, <<"PAYROLL", " payroll", "scripts">>, <<"", "a", "A">>}}

Cfg(shares, not, ad) ==
    [shares |-> shares, exclude_shares |-> not, only_ad |-> ad, prioritize_ad |-> TRUE,
     paths |-> {}, exclude_paths |-> {}, max_depth |-> 0]
MCScopeConfigs ==
    {Cfg(s, n, ad) : s \in {<<>>, <<"PAYROLL", " payroll", "IPC$">>, <<"">>}, n \in {{}, {"PAYROLL"}},
                     ad \in BOOLEAN}
    \union {[Cfg(<<>>, {}, FALSE) EXCEPT !.paths = p, !.exclude_paths = e, !.max_depth = d] :
              p \in {{}, {<<"a", "b">>}, {<<"a">>, <<"Logs", "x">>}},
              e \in {{}, {<<"logs">>}, {<<"a", "b">>}, {<<"A">>, <<"x">>}}, d \in {0, 1, 2}}

\* A share with directories three deep; a batch holds two files.
Entry(path, dir, opens) == [path |-> path, dir |-> dir, opens |-> opens, hints |-> {}, ext |-> ""]
DirAt(path, opens) == Entry(path, TRUE, opens)
File(path) == Entry(path, FALSE, "yes")
MCShares ==
    {<<DirAt(<<>>, "yes"), DirAt(<<"a">>, "yes"), File(<<"x">>), File(top), DirAt(<<"Logs">>, logs),
       DirAt(<<"a", "b">>, deep), File(<<"a", "x">>), File(<<"a", "A">>), File(<<"a", "a">>),
       [File(<<"a", "b", "scripts">>) EXCEPT !.hints = {"secret"}, !.ext = "key"],
       DirAt(<<"a", "b", "logs">>, "yes"), File(<<"a", "b", "logs", "x">>),
       DirAt(<<"a", "b", "logs", "data">>, "yes"), File(<<"a", "b", "logs", "data", "b">>),
       File(<<"Logs", "x">>), File(<<"Logs", "sysvol">>)>> :
        top \in {<<"logs">>, <<"b">>, <<" x">>}, logs \in {"yes", "denied", "fails"},
        deep \in {"yes", "denied", "fails"}}
MCBatchSize == 2

\* Configurations: of the file and of the command line.
MCConfigFiles ==
    {[archives |-> TRUE], [profile |-> "validation"], [profile |-> "aggressive"],
     [profile |-> "fast"], [archives |-> FALSE, max_file |-> 2 * MB],
     [max_file |-> 5 * MB, auto_zip |-> 30 * MB, max_zip |-> 0],
     [sqlite |-> TRUE, large_db |-> TRUE, max_db |-> 40 * MB, max_file |-> 5 * MB],
     [large_tar |-> TRUE, max_tar |-> 200 * MB, auto_tar |-> -1, wim |-> FALSE],
     [wim |-> TRUE, large_wim |-> TRUE, max_wim |-> 64 * MB]}
Credentials == [username |-> "u", password |-> "p"]
MCFlagSets == {Credentials, Credentials @@ [profile |-> "aggressive"],
               Credentials @@ [max_file |-> 2 * MB], Credentials @@ [wim |-> FALSE],
               Credentials @@ [auto_wim |-> 200 * MB, max_wim |-> 200 * MB], [smb_auth |-> "krb5"]}

\* Rules and files.
Rule(id, type, action) ==
    [id |-> id, complete |-> TRUE, unknown |-> 0, decodes |-> TRUE, type |-> type, severity |-> 2,
     action |-> action, confidence |-> "", max_file_size |-> 0, file_extensions |-> {},
     include_paths |-> {}, exclude_paths |-> {}, compiles |-> TRUE, pattern |-> "p",
     enabled |-> TRUE]
Secret == Rule("secret", "content", "report")
ByName == [Rule("named", "filename", "prioritize") EXCEPT !.exclude_paths = {"backup"}]
OfConfig == [Rule("config", "content", "report") EXCEPT !.file_extensions = {".ini"},
                                                        !.max_file_size = MB]
Inside == [Rule("inside", "extension", "report") EXCEPT !.include_paths = {"finance", ""}]
NoTemp == [Rule("temp", "filename", "skip") EXCEPT !.include_paths = {"temp"}, !.pattern = "q"]
NoNoise == Rule("noise", "content", "skip")
MCRuleLists == {<<ByName>>, <<OfConfig, ByName>>, <<NoTemp, OfConfig>>, <<Secret, NoTemp, Inside>>,
                <<NoNoise, Secret, OfConfig>>}

Member(path, ext, size) ==
    [path |-> path, name |-> {"p"}, content |-> {"p"}, extension |-> {}, ext |-> ext, size |-> size,
     dir |-> FALSE, tail |-> "", marks |-> {}, wanted |-> FALSE, held |-> {}, assigned |-> {},
     weak |-> {}, members |-> <<>>, tables |-> <<>>, parses |-> TRUE,
     member |-> [special |-> FALSE, suspicious |-> FALSE, nested |-> FALSE, readable |-> TRUE,
                 text |-> TRUE, official |-> TRUE, targeted |-> TRUE, extracted |-> TRUE]]
Members == <<Member({"m1"}, ".ini", 1), Member({"m2"}, ".xml", 600), Member({"m3"}, "", 200)>>
Tables == <<[name |-> "users", priority |-> 2, rows |-> <<<<[bytes |-> 20, column |-> "password", quality |-> "strong",
                                         connection |-> FALSE, parses |-> FALSE]>>>>]>>
MCFiles ==
    {[Member({path}, ext, size) EXCEPT !.name = name, !.wanted = wanted, !.members = Members,
                                       !.tail = IF ext = ".gz" THEN ".tar.gz" ELSE ""] :
        path \in {"temp", "finance"}, ext \in {".ini", ".txt", ".zip", ".gz", ".wim"},
        size \in {1, MB, 8 * MB, 10 * MB + 1, 20 * MB, 30 * MB, 150 * MB}, name \in {{"p", "q"}},
        wanted \in BOOLEAN}
    \union {[Member({"finance"}, ".db", size) EXCEPT !.tables = Tables, !.marks = {<<"artifact">>}] :
              size \in {1, 4 * MB, 8 * MB, 15 * MB, 50 * MB}}

\* Findings of one file, and where it is.
Match(rule, signal, tags) ==
    [rule |-> rule, signal |-> signal, severity |-> 3, confidence |-> 2, category |-> "credentials",
     tags |-> tags, values |-> {"strong"}, connection |-> FALSE]
FileMatches ==
    {Match("r1", "content", {}), Match("r2", "filename", {"artifact:private-key"}),
     Match("r3", "extension", {"artifact:aws-credentials"}),
     Match("r4", "validated", {"validated:private-key-header", "aws:type:bundle"}),
     Match("r5", "content", {"db:type:dump-export"}),
     Match("r6", "filename", {"credstore:path-exact"})}
MCFileFindings ==
    {[i \in DOMAIN s |-> [NewFinding(s[i]) EXCEPT !.category = c]] :
        s \in UNION {[1..n -> FileMatches] : n \in 1..3},
        c \in {"credentials", "scripts", "database-artifacts"}}
MCRuleRank == [r \in {"r1", "r2", "r3", "r4", "r5", "r6"} |-> 0]
MCFileMetas ==
    {[keywords |-> k, ad |-> ad, priority |-> p, share_priority |-> 50] :
        k \in BOOLEAN, ad \in {"", "sysvol"}, p \in {10, 80}}

\* Findings of a scan: artifacts that are pairs, on two shares and in two directories.
Artifact(rule, share, path) ==
    [rule |-> rule, category |-> "c", host |-> "h", share |-> share, path |-> path,
     archive |-> <<>>, member |-> <<>>, dbfile |-> <<>>, table |-> "", line |-> 0,
     text |-> <<>>, secret |-> <<>>, score |-> 60, severity |-> 3, actionable |-> TRUE,
     correlated |-> FALSE, context |-> 0, triage |-> "actionable", confidence |-> "high",
     rank |-> 0]
Weak(f) == [f EXCEPT !.actionable = FALSE, !.triage = "weak-review", !.score = 90]
Note(share, path, secret) ==
    [Artifact("content.password_assignment_indicators", share, path)
        EXCEPT !.secret = secret, !.text = <<"line">>]
MCExt == [b \in {"vpn.ovpn", "host.pfx"} |-> IF b = "vpn.ovpn" THEN ".ovpn" ELSE ".pfx"]
Logins(share, profile, file, rule) ==
    Artifact(rule, share, <<"u", "mozilla", "firefox", "profiles", profile, file>>)
Vault(share, dir, kind) ==
    Artifact("wincredinspect.path." \o kind, share, <<"u", "appdata", dir, "k", kind>>)
Pool ==
    [ad      |-> {Artifact("r", s, <<d, f>>) : s \in {"s1", "s2"}, d \in {"d"}, f \in {"ntds.dit", "system"}}
                 \union {Artifact("r", "s1", <<"e", "system">>)},
     key     |-> {Artifact("r", s, <<"u", f>>) : s \in {"s1", "s2"}, f \in {"id_rsa", "known_hosts"}}
                 \union {Artifact("r", "s1", <<"u", "tier-1", "vpn.ovpn">>)},
     notes   |-> {Note("s1", <<"u", "n">>, <<"p1">>), Note("s2", <<"v">>, <<"p1">>),
                  Weak(Note("s2", <<"v", "n">>, <<"p1">>)), Note("s1", <<"v">>, <<"p2">>),
                  Weak(Note("s1", <<"u", "n">>, <<"p1">>)),
                  [Artifact("extension.key_and_certificate_extensions", "s1", <<"u", "host.pfx">>)
                      EXCEPT !.score = 20]},
     browser |-> {Logins("s1", "p", "l", "browsercredinspect.firefox.logins"),
                  Logins("s1", "p", "k", "browsercredinspect.firefox.key4"),
                  Logins("s1", "q", "k", "browsercredinspect.firefox.key4"),
                  Logins("s2", "p", "k", "browsercredinspect.firefox.key4")},
     vault   |-> {Vault("s1", "roaming", "protect"), Vault("s1", "local", "credentials"),
                  Vault("s1", "roaming", "vault"), Vault("s2", "roaming", "vault")},
     backup  |-> {Artifact("r", "s1", <<"b", "regback", f>>) : f \in {"system", "sam", "ntds.dit"}}]
\* Up to three of a pool.  Only for findings with one key does it matter which comes first.
InOrder(q, order) ==
    \A i, j \in DOMAIN q : i < j =>
        \/ q[i] < q[j]
        \/ q[i] # q[j] /\ DedupKey(order[q[i]]) = DedupKey(order[q[j]])
MCFindings ==
    UNION {LET order == SetToSeq(Pool[k]) IN
           {[i \in 1..n |-> order[q[i]]] : q \in {p \in [1..n -> DOMAIN order] : InOrder(p, order)}} :
               n \in 1..3, k \in DOMAIN Pool}
MCPathRank == [p \in {f.path : f \in UNION {Pool[k] : k \in DOMAIN Pool}} |-> Len(p)]

\* Two scans of up to two findings each.
Row(rule, path, priority, snippet) ==
    [rule_id |-> rule, host |-> "h", share |-> "s", file_path |-> path, severity |-> "high",
     priority |-> priority, share_priority |-> "10", tags |-> snippet, match_snippet |-> snippet]
Rows == {Row("r1", "f", "10", "x"), Row("r1", "f", "80", ""), Row("r1", "g", "10", "x"),
         Row("r2", "f", "10", "y") @@ [matched_rule_ids |-> "r1,r2"],
         Row("r1", "f", "10", "y") @@ [matched_rule_ids |-> "r1,r2"]}
Scans == UNION {[1..n -> Rows] : n \in 1..2}
MCReports == Scans \X Scans

\* Two categories of planted files, the second of noise, and what a scan finds.
MCPlantings ==
    {[specs |-> <<[dirs |-> dirs, variants |-> <<"creds", "web">>],
                  [dirs |-> <<"d1">>, variants |-> <<"readme">>]>>,
      per |-> per, max |-> max, pick |-> 0] :
        dirs \in {<<"d1">>, <<"d1", "d2">>}, per \in {2, 3}, max \in {3, 6}}
MCSeedEntry ==
    [creds  |-> [intended |-> "true_positive", class |-> "actionable", category |-> "cred",
                 signals |-> {"content"}, confidence |-> 2, correlated |-> FALSE],
     web    |-> [intended |-> "true_positive", class |-> "config-only", category |-> "cred",
                 signals |-> {"filename"}, confidence |-> 0, correlated |-> FALSE],
     readme |-> [intended |-> "filler/noise", class |-> "", category |-> "noise",
                 signals |-> {}, confidence |-> 0, correlated |-> FALSE]]
Hit(key, triage, confidence) ==
    [key |-> key, triage |-> triage, confidence |-> confidence, severity |-> 1,
     correlated |-> FALSE, actionable |-> triage = "actionable", rules |-> 1,
     signals |-> {"content"}]
Hits == {Hit(<<"d1", "creds", 1>>, "actionable", 3), Hit(<<"d1", "creds", 2>>, "config_only", 1),
         Hit(<<"d1", "web", 1>>, "weak_review", 2), Hit(<<"d2", "web", 1>>, "actionable", 2),
         Hit(<<"d1", "readme", 1>>, "other", 1), Hit(<<"d3", "web", 1>>, "actionable", 3),
         Hit(<<>>, "actionable", 3)}
MCSeedFindings == UNION {[1..n -> Hits] : n \in 0..2}

\* Where the program is started: checkouts at /repo and /opt, the configuration in the first.
Checkout(dir) == {dir \o <<"configs">>, dir \o <<"configs", "rules", "default">>,
                  dir \o <<"go.mod">>}
Configs == {<<"/", "repo", "configs", "config.yaml">>, <<"/", "repo", "local", "lab", "my.yaml">>}
MCLaunches ==
    {[config |-> c, cwd |-> cwd, exe |-> exe,
      exists |-> UNION {Checkout(d) : d \in dirs} \union Configs \union {<<"/", "home", "lab", "my.yaml">>}] :
        c \in Configs \union {<<"lab", "my.yaml">>, <<"configs", "config.yaml">>},
        cwd \in {<<"/", "home">>, <<"/", "repo", "local">>, <<"/", "opt">>, <<"/">>},
        exe \in {<<"/", "opt", "bin">>, <<"/", "usr">>},
        dirs \in SUBSET {<<"/", "repo">>, <<"/", "opt">>, <<"/", "repo", "local">>}}
=============================================================================
