------------------------------- MODULE Discovery -------------------------------
(***************************************************************************)
(* How a run comes by its hosts: the credential preflight of internal/app, *)
(* then Resolve of internal/discovery, which takes the targets of the      *)
(* command line and of the target file, else those of an LDAP session, and *)
(* adds the servers of a DFS session; removes duplicates; and keeps what   *)
(* FilterReachable reaches.                                                *)
(*                                                                         *)
(* A name a target is given by is [kind, id, form]: a "host" or an "ip",   *)
(* written in one of several forms (case, port), or "blank".               *)
(***************************************************************************)
EXTENDS LDAPSession, Reachability

CONSTANTS Configs,      \* ScanConfig: [cli, file, noLDAP, dfs, skip]
          Directories   \* what a domain lists: [computers, links]

VARIABLES
    cfg,        \* the configuration
    directory,  \* the computers and the DFS links of the domain
    phase,      \* where the run is
    loaded,     \* the targets collected, in order
    unique      \* those that are left

discoveryVars == <<sessionVars, reachVars, cfg, directory, phase, loaded, unique>>
-------------------------------------------------------------------------------
NoTarget == [ip |-> None, host |-> None]

\* normalizeEndpoint drops the port; an address is both.
NewTarget(name) == CASE name.kind = "blank" -> NoTarget
                     [] name.kind = "ip" -> [ip |-> name.id, host |-> name.id]
                     [] OTHER -> [ip |-> None, host |-> name.id]

\* The DNS name before the short one, the address that was looked up with it.
NewLDAPTarget(entry) ==
    LET target == NewTarget(IF entry.dns.kind # "blank" THEN entry.dns ELSE entry.name)
    IN IF entry.ip # None THEN [target EXCEPT !.ip = entry.ip] ELSE target

\* The key ignores case, and says what it is a key of.
TargetKey(target) == CASE target.ip # None -> <<"ip", target.ip>>
                       [] target.ip = None /\ target.host # None -> <<"host", target.host>>
                       [] OTHER -> None

\* The first of each key stays.
DeduplicateTargets(targets) == Distinct([i \in DOMAIN targets |-> TargetKey(targets[i])])

\* discoveryKey: entries of one name are one host.
DiscoveryKey(entry) == IF entry.dns.kind # "blank" THEN entry.dns.id
                       ELSE IF entry.name.kind # "blank" THEN entry.name.id ELSE None

DeduplicateHosts(entries) ==
    LET named == SelectSeq(entries, LAMBDA e : DiscoveryKey(e) # None)
        first(k) == CHOOSE i \in DOMAIN named :
                       /\ DiscoveryKey(named[i]) = k
                       /\ \A j \in 1 .. i - 1 : DiscoveryKey(named[j]) # k
        keys == Distinct([i \in DOMAIN named |-> DiscoveryKey(named[i])])
    IN [i \in DOMAIN keys |-> named[first(keys[i])]]

QueryComputerObjects == DeduplicateHosts(directory.computers)

\* A DFS entry lists UNC names: [server, share, path], path None for the share
\* itself.  parseUNC refuses one without a server or a share.
ParseUNC(unc) == unc.server.kind # "blank" /\ unc.share # None

\* The name is put together again without a separator before the path, and so
\* the share that is parsed from it is the share and the path glued together.
CollectDFSUNCs(entry) ==
    LET uncs == Distinct(SelectSeq(entry, ParseUNC))
    IN [i \in DOMAIN uncs |->
           IF uncs[i].path = None THEN uncs[i]
           ELSE [server |-> uncs[i].server, path |-> None,
                 share |-> uncs[i].share \o uncs[i].path]]

DfsTargetsFromEntry(entry) ==
    LET uncs == SelectSeq(CollectDFSUNCs(entry), ParseUNC)
    IN [i \in DOMAIN uncs |-> [server |-> uncs[i].server, share |-> uncs[i].share]]

\* A target that several entries list is one target.
DeduplicateDFSTargets(targets) == Distinct(targets)

QueryDFSTargets ==
    DeduplicateDFSTargets(FlattenSeq([i \in DOMAIN directory.links |->
                                         DfsTargetsFromEntry(directory.links[i])]))

Given(names) == SelectSeq([i \in DOMAIN names |-> NewTarget(names[i])],
                          LAMBDA t : t # NoTarget)
Mapped(Op(_), s) == SelectSeq([i \in DOMAIN s |-> Op(s[i])], LAMBDA t : t # NoTarget)
-------------------------------------------------------------------------------
DiscoveryInit == /\ SessionInit /\ ReachInit
                 /\ cfg \in Configs /\ directory \in Directories
                 /\ phase = "preflight" /\ loaded = <<>> /\ unique = <<>>

configVars == <<cfg, directory>>

RequiresLDAPPreflight == \/ ~cfg.noLDAP /\ cfg.cli = <<>> /\ cfg.file = <<>>
                         \/ cfg.dfs

\* runScanPreflight: one session to see that the credentials are good.
Preflight ==
    /\ phase = "preflight"
    /\ IF RequiresLDAPPreflight
       THEN Start("validate") /\ phase' = "validating"
       ELSE phase' = "collect" /\ UNCHANGED sessionVars
    /\ UNCHANGED <<reachVars, configVars, loaded, unique>>

PreflightEnds ==
    /\ phase = "validating" /\ at = "idle"
    /\ phase' = IF answer = "found" THEN "collect" ELSE "failed"
    /\ SessionGone
    /\ UNCHANGED <<reachVars, configVars, loaded, unique>>

AsksDirectory(targets) == targets = <<>> /\ ~cfg.noLDAP

\* collectTargets: the command line, then the file; LDAP only if they name
\* nothing.  A file that cannot be read ends the run.
CollectGiven ==
    /\ phase = "collect"
    /\ IF \E name \in ToSet(cfg.file) : name.kind = "unreadable"
       THEN phase' = "failed" /\ UNCHANGED <<loaded, sessionVars>>
       ELSE /\ loaded' = Given(cfg.cli) \o Given(cfg.file)
            /\ IF AsksDirectory(loaded')
               THEN Start("hosts") /\ phase' = "ldap"
               ELSE phase' = "links" /\ UNCHANGED sessionVars
    /\ UNCHANGED <<reachVars, configVars, unique>>

CollectLDAP ==
    /\ phase = "ldap" /\ at = "idle"
    /\ IF answer = "found"
       THEN /\ loaded' = Mapped(NewLDAPTarget, QueryComputerObjects)
            /\ phase' = "links"
       ELSE phase' = "failed" /\ UNCHANGED loaded
    /\ SessionGone
    /\ UNCHANGED <<reachVars, configVars, unique>>

StartDFS == /\ phase = "links"
            /\ IF cfg.dfs
               THEN Start("dfs") /\ phase' = "dfs"
               ELSE phase' = "unique" /\ UNCHANGED sessionVars
            /\ UNCHANGED <<reachVars, configVars, loaded, unique>>

\* A DFS session that fails is only a warning.
CollectDFS ==
    /\ phase = "dfs" /\ at = "idle" /\ phase' = "unique"
    /\ loaded' = IF answer = "found"
                 THEN loaded \o Mapped(LAMBDA d : NewTarget(d.server), QueryDFSTargets)
                 ELSE loaded
    /\ SessionGone
    /\ UNCHANGED <<reachVars, configVars, unique>>

Resolve ==
    /\ phase = "unique" /\ phase' = "filter"
    /\ unique' = DeduplicateTargets(loaded)
    /\ IF cfg.skip THEN SkipCheck(ToSet(unique')) ELSE StartFilter(ToSet(unique'))
    /\ UNCHANGED <<sessionVars, configVars, loaded>>

ResolveReturns ==
    /\ phase = "filter" /\ filter \in {"ok", "error"}
    /\ phase' = IF filter = "ok" THEN "resolved" ELSE "failed"
    /\ UNCHANGED <<sessionVars, reachVars, configVars, loaded, unique>>

Session == /\ SessionNext
           /\ UNCHANGED <<reachVars, configVars, phase, loaded, unique>>
Filter == /\ ReachNext
          /\ UNCHANGED <<sessionVars, configVars, phase, loaded, unique>>
Cancel == /\ ContextEnds /\ phase = "filter"
          /\ UNCHANGED <<sessionVars, configVars, phase, loaded, unique>>

Progress == \/ Preflight \/ PreflightEnds \/ CollectGiven \/ CollectLDAP
            \/ StartDFS \/ CollectDFS \/ Resolve \/ ResolveReturns
            \/ Session \/ Filter

DiscoveryNext == Progress \/ Cancel

\* The run goes on with the hosts, or ends with the error, at "resolved" or
\* "failed".  Every request has a time limit and the scheduler runs some goroutine that can
\* run; only the context may live for ever.
DiscoverySpec == DiscoveryInit /\ [][DiscoveryNext]_discoveryVars
                 /\ WF_discoveryVars(Progress)
-------------------------------------------------------------------------------
\* What Resolve returns while its context lives is the truth about every unique
\* target, whichever worker checked it: none is lost between the channels, none
\* is taken for up or down by mistake.
NilMeansChecked ==
    (phase = "resolved" /\ ctx = "live") =>
        all = {[target |-> t, up |-> cfg.skip \/ t \in up] : t \in ToSet(unique)}

\* Target discovery ends, however the server, the network and the context behave.
ResolveEnds == <>(phase \in {"resolved", "failed"})

===============================================================================
