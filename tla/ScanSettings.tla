---------------------------- MODULE ScanSettings ----------------------------
(***************************************************************************)
(* The settings of a scan: the defaults, the profiles, the YAML file, the  *)
(* command line and the checks, and what the readers make of them.  A      *)
(* configuration is a function from the settings to values; the file and   *)
(* the command line are partial ones.  Sizes are in KiB, cell sizes and    *)
(* the byte budget of a database in bytes.                                 *)
(***************************************************************************)
EXTENDS Integers, SequencesExt

MB == 1024
\* One of two configurations over the other.
Over(first, second) == [s \in DOMAIN first \union DOMAIN second |->
                           IF s \in DOMAIN first THEN first[s] ELSE second[s]]
Profiles == {"default", "validation", "aggressive"}

\* What a profile sets.
ProfileLimits == [
    default |-> [
        validation_mode |-> FALSE, archives |-> TRUE, wim |-> TRUE, sqlite |-> TRUE,
        auto_zip |-> 10 * MB, large_zip |-> FALSE, max_zip |-> 10 * MB,
        auto_tar |-> 10 * MB, large_tar |-> FALSE, max_tar |-> 10 * MB,
        members |-> 64, member_size |-> 512, total_size |-> 4 * MB, plain_members |-> TRUE,
        auto_wim |-> 128 * MB, large_wim |-> FALSE, max_wim |-> 128 * MB,
        wim_members |-> 8, wim_member_size |-> MB, wim_total_size |-> 4 * MB,
        auto_db |-> 5 * MB, large_db |-> FALSE, max_db |-> 5 * MB,
        tables |-> 8, rows |-> 5, cell_bytes |-> 256, db_bytes |-> 16384, columns |-> 4],
    validation |-> [
        validation_mode |-> TRUE, archives |-> TRUE, wim |-> TRUE, sqlite |-> TRUE,
        auto_zip |-> 5 * MB, large_zip |-> FALSE, max_zip |-> 5 * MB,
        auto_tar |-> 5 * MB, large_tar |-> FALSE, max_tar |-> 5 * MB,
        members |-> 32, member_size |-> 256, total_size |-> 2 * MB, plain_members |-> FALSE,
        auto_wim |-> 64 * MB, large_wim |-> FALSE, max_wim |-> 64 * MB,
        wim_members |-> 6, wim_member_size |-> 512, wim_total_size |-> 2 * MB,
        auto_db |-> 2 * MB, large_db |-> FALSE, max_db |-> 2 * MB,
        tables |-> 4, rows |-> 3, cell_bytes |-> 192, db_bytes |-> 8192, columns |-> 3],
    aggressive |-> [
        validation_mode |-> TRUE, archives |-> TRUE, wim |-> TRUE, sqlite |-> TRUE,
        auto_zip |-> 10 * MB, large_zip |-> TRUE, max_zip |-> 25 * MB,
        auto_tar |-> 10 * MB, large_tar |-> FALSE, max_tar |-> 10 * MB,
        members |-> 96, member_size |-> MB, total_size |-> 8 * MB, plain_members |-> TRUE,
        auto_wim |-> 128 * MB, large_wim |-> TRUE, max_wim |-> 256 * MB,
        wim_members |-> 12, wim_member_size |-> 2 * MB, wim_total_size |-> 8 * MB,
        auto_db |-> 5 * MB, large_db |-> TRUE, max_db |-> 15 * MB,
        tables |-> 12, rows |-> 10, cell_bytes |-> 512, db_bytes |-> 65536, columns |-> 6]]

\* Default(): the rest of the configuration, as far as the checks read it.
Default == Over(ProfileLimits.default,
    [profile |-> "default", max_file |-> 10 * MB, max_depth |-> 0, smb_auth |-> "ntlm",
     username |-> "", password |-> "", max_scan_time |-> "", checkpoint_file |-> "",
     resume |-> FALSE, sample_limit |-> 10, rules |-> <<>>, no_ldap |-> FALSE,
     ldap_auth |-> "auto", targets |-> FALSE, discover_dfs |-> FALSE,
     formats |-> {"console"}, json_out |-> "results.json", html_out |-> "report.html"])

\* applyDefaults: a size that is not positive gets its default, a ceiling the automatic
\* limit of its kind.
Ceiling == [max_zip |-> "auto_zip", max_tar |-> "auto_tar", max_wim |-> "auto_wim",
            max_db |-> "auto_db"]
Floored == {"max_file", "auto_zip", "auto_tar", "members", "member_size", "total_size",
            "auto_wim", "wim_members", "wim_member_size", "wim_total_size", "auto_db",
            "tables", "rows", "cell_bytes", "db_bytes", "columns", "sample_limit"}
Texts == {"smb_auth", "json_out", "html_out"}
ApplyDefaults(cfg) ==
    LET filled == [s \in DOMAIN cfg |->
                     IF \/ s \in Floored /\ cfg[s] <= 0
                        \/ s \in Texts /\ cfg[s] = ""
                     THEN Default[s] ELSE cfg[s]]
    IN [s \in DOMAIN cfg |->
           IF s \in DOMAIN Ceiling /\ filled[s] <= 0 THEN filled[Ceiling[s]] ELSE filled[s]]

\* ApplyScanProfile: FALSE for a profile there is none of.
Known(profile) == profile \in Profiles \union {""}
ApplyScanProfile(cfg, profile) ==
    IF ~Known(profile) THEN cfg
    ELSE LET name == IF profile = "" THEN "default" ELSE profile
         IN Over([profile |-> name], Over(ProfileLimits[name], cfg))

\* Load: the profile the file names, then the file over it.  The overlay of
\* suppression rules adds to those of the file.
Get(partial, s, otherwise) == IF s \in DOMAIN partial THEN partial[s] ELSE otherwise
Overlay(cfg, overlay) ==
    [cfg EXCEPT !.sample_limit = IF Get(overlay, "sample_limit", 0) > 0
                                 THEN overlay.sample_limit ELSE @,
                !.rules = @ \o Get(overlay, "rules", <<>>)]
Loads(file) == Known(Get(file, "profile", ""))
Load(file, overlay) ==
    LET hinted == IF Get(file, "profile", "") = "" THEN Default
                  ELSE ApplyScanProfile(Default, file.profile)
    IN Overlay(ApplyDefaults(Over(file, hinted)), overlay)

\* The flags of `snablr scan`: a WIM flag counts once it is given, another number when
\* it is positive, a switch when it is on, a text when it is not empty.
WIMFlags == {"wim", "auto_wim", "large_wim", "max_wim", "wim_members", "wim_member_size",
             "wim_total_size"}
Numbers == {"max_file", "max_depth"}
Switches == {"no_ldap", "discover_dfs", "validation_mode", "resume"}
TextFlags == {"smb_auth", "username", "password", "max_scan_time", "checkpoint_file",
              "json_out", "html_out", "ldap_auth"}
Given(flags) ==
    {s \in DOMAIN flags : \/ s \in WIMFlags \union {"targets", "formats"}
                          \/ s \in Numbers /\ flags[s] > 0
                          \/ s \in Switches /\ flags[s]
                          \/ s \in TextFlags /\ flags[s] # ""}

\* applyScanOverrides: the profile of the command line first, so that it outdoes what
\* the file sets; one there is none of changes only the profile's name.
ApplyScanOverrides(cfg, flags) ==
    LET name == Get(flags, "profile", "")
        base == IF name = "" THEN cfg
                ELSE [ApplyScanProfile(cfg, name) EXCEPT !.profile = name]
    IN [s \in DOMAIN base |-> IF s \in Given(flags) THEN flags[s] ELSE base[s]]

\* normalizeAuthMethod, MaxScanDuration.
AuthMethod(value) == CASE value \in {"", "ntlm"} -> "ntlm"
                       [] value \in {"kerberos", "krb5", "gssapi"} -> "kerberos"
                       [] OTHER -> ""
DurationOK(value) == value \notin {"bad", "0s", "-1m"}

\* validateScanConfig of the suppression rules: those that are enabled have an id of
\* their own, a reason and a criterion, be it blank.
RulesOK(rules) ==
    LET on == SelectSeq(rules, LAMBDA r : r.enabled) IN
    /\ \A i \in DOMAIN on : on[i].id # "" /\ on[i].reason # "" /\ on[i].criteria # <<>>
    /\ \A i, j \in DOMAIN on : i # j => on[i].id # on[j].id

NotNegative == {"auto_zip", "max_zip", "auto_tar", "max_tar", "members", "member_size",
                "total_size", "auto_wim", "max_wim", "wim_members", "wim_member_size",
                "wim_total_size", "max_depth", "sample_limit"}
ValidateScanConfig(cfg) ==
    /\ AuthMethod(cfg.smb_auth) # ""
    /\ AuthMethod(cfg.smb_auth) = "ntlm" => (cfg.username # "" /\ cfg.password # "")
    /\ DurationOK(cfg.max_scan_time)
    /\ cfg.resume => cfg.checkpoint_file # ""
    /\ \A s \in NotNegative : cfg[s] >= 0
    /\ (cfg.large_zip /\ cfg.max_zip > 0) => cfg.max_zip >= cfg.auto_zip
    /\ (cfg.large_tar /\ cfg.max_tar > 0) => cfg.max_tar >= cfg.auto_tar
    /\ cfg.wim => \A s \in WIMFlags \ {"wim", "large_wim"} : cfg[s] # 0
    /\ cfg.max_wim >= cfg.auto_wim
    /\ cfg.wim_total_size >= cfg.wim_member_size
    /\ RulesOK(cfg.rules)
    /\ cfg.formats # {} /\ cfg.formats \subseteq {"console", "json", "html", "all"}
    /\ cfg.formats \intersect {"json", "all"} # {} => cfg.json_out # ""
    /\ cfg.formats \intersect {"html", "all"} # {} => cfg.html_out # ""

\* validateDiscoverConfig.
CurrentCredentials(auth) == auth \in {"gssapi", "kerberos", "negotiate", "sspi"}
NeedsLDAP(cfg) == (~cfg.no_ldap /\ ~cfg.targets) \/ cfg.discover_dfs
ValidateDiscoverConfig(cfg) ==
    /\ cfg.targets \/ ~cfg.no_ldap
    /\ (NeedsLDAP(cfg) /\ ~CurrentCredentials(cfg.ldap_auth)) =>
           (cfg.username # "" /\ cfg.password # "")

\* scanReadLimit: no reader of the scan may take more than this from a share.
ReadLimitOfMaxima(cfg) ==   \* mutant: only the ceilings count
    Max({cfg.max_file} \union (IF cfg.archives /\ cfg.large_zip THEN {cfg.max_zip} ELSE {})
                       \union (IF cfg.archives /\ cfg.large_tar THEN {cfg.max_tar} ELSE {})
                       \union (IF cfg.wim /\ cfg.large_wim THEN {cfg.max_wim} ELSE {})
                       \union (IF cfg.sqlite /\ cfg.large_db THEN {cfg.max_db} ELSE {}))

ScanReadLimit(cfg) ==
    Max({cfg.max_file}
        \union (IF ~cfg.archives THEN {} ELSE
                  {cfg.auto_zip, cfg.auto_tar}
                  \union (IF cfg.large_zip THEN {cfg.max_zip} ELSE {})
                  \union (IF cfg.large_tar THEN {cfg.max_tar} ELSE {}))
        \union (IF ~cfg.wim THEN {} ELSE
                  {cfg.auto_wim} \union (IF cfg.large_wim THEN {cfg.max_wim} ELSE {}))
        \union (IF ~cfg.sqlite THEN {} ELSE
                  {cfg.auto_db} \union (IF cfg.large_db THEN {cfg.max_db} ELSE {})))
-----------------------------------------------------------------------------
(* Where the file and the rules are looked for.  A path is the sequence of  *)
(* its parts, an absolute one starts with Root; exists is what is on disk.  *)
Root == "/"
IsAbs(path) == path # <<>> /\ path[1] = Root
Dir(path) == SubSeq(path, 1, Len(path) - 1)

\* ancestorDirs: the directory and those above it, from the nearest to the root.
AncestorDirs(dir) == [i \in 1..Len(dir) |-> SubSeq(dir, 1, Len(dir) + 1 - i)]
SearchBaseDirs(cwd, exe) == AncestorDirs(cwd) \o AncestorDirs(exe)

\* The first candidate that is there, or the default.
FirstThere(candidates, exists, otherwise) ==
    LET there == {i \in DOMAIN candidates : candidates[i] \in exists}
    IN IF there = {} THEN otherwise ELSE candidates[Min(there)]

\* resolveConfigPath: as it is given (from the working directory), then below each base.
ResolveConfigPath(path, cwd, exe, exists) ==
    IF IsAbs(path) THEN path
    ELSE LET bases == SearchBaseDirs(cwd, exe)
         IN FirstThere(<<cwd \o path>> \o [i \in DOMAIN bases |-> bases[i] \o path],
                       exists, cwd \o path)

\* resolvePath, with the bases that are not empty.
ResolvePath(path, bases, cwd, exists) ==
    LET named == {i \in DOMAIN bases : bases[i] # <<>>}
        there == {i \in named : bases[i] \o path \in exists}
    IN CASE IsAbs(path) -> path
         [] ~IsAbs(path) /\ (cwd \o path \in exists \/ named = {}) -> cwd \o path
         [] OTHER -> bases[Min(IF there # {} THEN there ELSE named)] \o path

RuleDir == <<"configs", "rules", "default">>
LooksLikeRoot(dir, exists) == /\ dir \o RuleDir \in exists
                              /\ \/ dir \o <<"configs", "config.yaml">> \in exists
                                 \/ dir \o <<"go.mod">> \in exists

\* looksLikeRuntimeRoot of one directory after the other.
FirstRoot(dirs, exists, otherwise) ==
    LET roots == {i \in DOMAIN dirs : LooksLikeRoot(dirs[i], exists)}
    IN IF roots = {} THEN otherwise ELSE dirs[Min(roots)]

\* detectRuntimeRoot: above the configuration, else above the working directory or the
\* program, else the directory of the configuration.
DetectRootFromProgram(configDir, cwd, exe, exists) ==   \* mutant: the configuration last
    FirstRoot(SearchBaseDirs(cwd, exe) \o AncestorDirs(configDir), exists, configDir)
DetectRuntimeRoot(configDir, cwd, exe, exists) ==
    FirstRoot(AncestorDirs(configDir) \o SearchBaseDirs(cwd, exe), exists, configDir)

\* RulePaths: the directory that is set, else the rules that come with the program.
RulePaths(directory, configDir, cwd, exe, exists) ==
    LET root == DetectRuntimeRoot(configDir, cwd, exe, exists)
    IN IF directory # <<>> THEN <<ResolvePath(directory, <<configDir, root>>, cwd, exists)>>
       ELSE [i \in 1..2 |-> ResolvePath(<<"configs", "rules", <<"default", "custom">>[i]>>,
                                        <<root>>, cwd, exists)]
=============================================================================
