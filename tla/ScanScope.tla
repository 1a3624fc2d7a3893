------------------------------ MODULE ScanScope ------------------------------
(***************************************************************************)
(* Which shares of a host and which of their files a scan takes in, and in *)
(* which order: the filters of the command line, the walk of a share and   *)
(* the planner.                                                            *)
(*                                                                         *)
(* A path is the sequence of its names from the root of the share on.  A   *)
(* share is a sequence of entries, as the server lists them, of            *)
(*   path, dir   where it is, and whether it is a directory                *)
(*   opens       "yes", "denied" or "fails": how reading the directory ends*)
(*   hints, ext  what the words of its path and its extension suggest      *)
(* cfg has shares (sequence) and exclude_shares, paths and exclude_paths,  *)
(* max_depth, only_ad and prioritize_ad.                                   *)
(***************************************************************************)
EXTENDS Lists

CONSTANTS Fold,         \* a name in lower case
          Bare,         \* a name without the blanks in front of it
          ClientDepth,  \* the depth of a walk that none is set for
          BatchSize     \* how many files are planned at a time

Key(name) == Fold[Bare[name]]
Keys(names) == {Key(n) : n \in names}
Worth(condition, points) == IF condition THEN points ELSE 0
\* The points of the first of the groups of words that is there.
Suggested(groups, hints) ==
    LET there == Those(groups, {g \in Range(groups) : g[1] \in hints})
    IN IF there = <<>> THEN 0 ELSE there[1][2]

\* sortPlanned: what matters most first (those that matter alike, by their names and paths:
\* left out).
ByPriority(items) ==
    LET Before(j, i) == \/ items[j].priority > items[i].priority
                        \/ items[j].priority = items[i].priority /\ j < i
        place == [i \in DOMAIN items |-> 1 + Cardinality({j \in DOMAIN items : Before(j, i)})]
    IN [k \in DOMAIN items |-> items[CHOOSE i \in DOMAIN items : place[i] = k]]
-----------------------------------------------------------------------------
(* Shares.                                                                 *)
Shareable(name, cfg) ==   \* scanShareAllowed
    /\ Key(name) # ""
    /\ cfg.shares # <<>> => Key(name) \in Keys(Range(cfg.shares))
    /\ Key(name) \notin Keys(cfg.exclude_shares)
ADShares == {"sysvol", "netlogon"}

\* The first of the names that are the same but for their case and blanks.
Distinct(names) ==
    LET new == {i \in DOMAIN names : /\ Key(names[i]) # ""
                                     /\ \A j \in 1..(i - 1) : Key(names[j]) # Key(names[i])}
        kept == Those([i \in DOMAIN names |-> i], new)
    IN [k \in DOMAIN kept |-> names[kept[k]]]
Named(names) == [i \in DOMAIN names |-> Bare[names[i]]]
ExplicitScanShares(cfg) == Named(Distinct(cfg.shares))

\* ListShares: not those of printers and pipes, nor one that does not open.
ListShares(host) ==
    Those(host.shares, {s \in host.opens : Fold[s] \notin {"", "ipc$", "print$"}})
\* dfsHintsForHost: of the targets on this server the first one of a share.
DFSHints(host) == Distinct(host.dfs)

ScoreShare(share, source, cfg) ==
    10 + Worth(cfg.prioritize_ad, Suggested(<<<<"sysvol", 100>>, <<"netlogon", 95>>>>, {Key(share)}))
       + Suggested(<<<<"payroll", 45>>, <<"scripts", 30>>>>, {Key(share)})
       + Worth(source = "dfs", 35)

\* scanHost up to PlanShares: the shares to walk, the ones that matter most first.
PlanShares(host, cfg) ==
    LET listed == IF ExplicitScanShares(cfg) # <<>> THEN ExplicitScanShares(cfg)
                  ELSE ListShares(host)
        hinted == Those(DFSHints(host), {s \in Range(host.dfs) :
                            Key(s) \notin Keys(Range(listed)) /\ Shareable(s, cfg)})
        all == listed \o hinted
        inScope == Those(all, {s \in Range(all) :
                                  Shareable(s, cfg) /\ (cfg.only_ad => Key(s) \in ADShares)})
    IN ByPriority([i \in DOMAIN inScope |->
           LET dfs == Key(inScope[i]) \in Keys(Range(DFSHints(host)))
               source == IF dfs THEN "dfs" ELSE host.source
           IN [share |-> Bare[inScope[i]], source |-> source,
               priority |-> ScoreShare(inScope[i], source, cfg)]])

ScoreHost(host) ==
    10 + Suggested(<<<<"cli", 25>>, <<"file", 15>>, <<"ldap", 10>>>>, {host.source})
       + Worth(host.source = "dfs", 35)
       + Suggested(<<<<"storage", 20>>, <<"directory", 10>>>>, host.hints)
PlanHosts(hosts) ==
    ByPriority([i \in DOMAIN hosts |-> [host |-> hosts[i], priority |-> ScoreHost(hosts[i])]])
-----------------------------------------------------------------------------
(* The walk of a share.                                                    *)
HasPrefix(path, prefix) == path # <<>> /\ prefix # <<>> /\ IsPrefix(prefix, path)
Overlaps(path, prefix) == HasPrefix(path, prefix) \/ HasPrefix(prefix, path)
\* remotePathExcluded: a single name stands for itself anywhere, in any case.
Excluded(path, pattern) ==
    /\ path # <<>> /\ pattern # <<>>
    /\ \/ HasPrefix(path, pattern)
       \/ Len(pattern) = 1 /\ \E i \in DOMAIN path : Fold[path[i]] = Fold[pattern[1]]

MaxDepth(cfg) == IF cfg.max_depth <= 0 THEN ClientDepth ELSE cfg.max_depth
Admits(path, depth, cfg) ==
    /\ depth <= MaxDepth(cfg)
    /\ ~\E blocked \in cfg.exclude_paths : Excluded(path, blocked)
DescendsOnlyBelow(path, cfg) ==   \* mutant: a directory above a path asked for is left out
    /\ Admits(path, Len(path), cfg)
    /\ cfg.paths # {} => \E allowed \in cfg.paths : HasPrefix(path, allowed)
ShouldDescend(path, cfg) ==
    /\ Admits(path, Len(path), cfg)
    /\ cfg.paths # {} => \E allowed \in cfg.paths : Overlaps(path, allowed)
ShouldInclude(path, cfg) ==
    /\ Admits(path, Len(path) - 1, cfg)
    /\ cfg.paths # {} => \E allowed \in cfg.paths : HasPrefix(path, allowed)

\* WalkShareWithOptions: the next directory of the stack; one that is denied is passed over,
\* one that fails ends the walk.
Visit(share, cfg, w) ==
    IF w.stack = <<>> \/ ~w.ok THEN w
    ELSE LET dir == Last(w.stack)
             here == {e \in Range(share) : e.path # <<>> /\ Front(e.path) = dir.path}
             below == Those(share, {e \in here : e.dir /\ ShouldDescend(e.path, cfg)})
             files == Those(share, {e \in here : ~e.dir /\ ShouldInclude(e.path, cfg)})
         IN IF dir.opens = "denied" THEN [w EXCEPT !.stack = Front(@)]
            ELSE IF dir.opens = "fails" THEN [w EXCEPT !.ok = FALSE]
            ELSE [w EXCEPT !.stack = Front(@) \o below, !.files = @ \o files]
\* There are not more directories than entries.
WalkShare(share, cfg) ==
    LET root == share[CHOOSE i \in DOMAIN share : share[i].path = <<>>]
    IN FoldLeft(LAMBDA w, e : Visit(share, cfg, w),
                [stack |-> <<root>>, files |-> <<>>, ok |-> TRUE], share)
-----------------------------------------------------------------------------
(* The planning of the files.                                              *)
ScoreFile(file, share, source, cfg) ==
    10 + Worth(cfg.prioritize_ad, Suggested(<<<<"sysvol", 35>>, <<"netlogon", 30>>>>, {Key(share)})
               + Suggested(<<<<"policies", 30>>, <<"preferences", 28>>, <<"scripts", 24>>>>, file.hints))
       + Suggested(<<<<"secret", 55>>, <<"config", 40>>, <<"backup", 28>>, <<"finance", 35>>,
                     <<"admin", 22>>>>, file.hints)
       + Suggested(<<<<"key", 55>>, <<"settings", 35>>, <<"script", 24>>, <<"data", 18>>>>, {file.ext})
       + Worth(source = "dfs", 10)
PriorityBand(priority) == IF priority >= 120 THEN "critical" ELSE IF priority >= 80 THEN "high"
                          ELSE IF priority >= 40 THEN "medium" ELSE "low"

\* pathAllowed: once more, and only by prefixes.
PathAllowed(path, cfg) ==
    /\ cfg.max_depth > 0 => Len(path) - 1 <= cfg.max_depth
    /\ ~\E blocked \in cfg.exclude_paths : HasPrefix(path, blocked)
    /\ cfg.paths # {} => \E allowed \in cfg.paths : HasPrefix(path, allowed)

\* PlanFiles: a plan has the path without blanks around it.
Trimmed(path) == [path EXCEPT ![1] = Bare[@]]
PlanFiles(batch, share, source, cfg) ==
    LET kept == Those(batch, {f \in Range(batch) : PathAllowed(Trimmed(f.path), cfg)})
    IN ByPriority([i \in DOMAIN kept |->
           [path |-> Trimmed(kept[i].path), priority |-> ScoreFile(kept[i], share, source, cfg)]])

\* flushBatch: the file is looked up by the path of its plan in lower case, where the
\* last of those with one path stands.
Lower(path) == [i \in DOMAIN path |-> Fold[path[i]]]
Queued(batch, share, source, cfg) ==
    LET at(plan) == {i \in DOMAIN batch : Lower(batch[i].path) = Lower(plan.path)}
        plans == PlanFiles(batch, share, source, cfg)
        there == Those(plans, {p \in Range(plans) : at(p) # {}})
    IN [i \in DOMAIN there |-> batch[Max(at(there[i]))].path]

\* The walk of a share in batches; what a walk that failed has of the last one is dropped.
Batches(files, ok) ==
    LET whole == Len(files) \div BatchSize
        n == IF ok /\ Len(files) % BatchSize > 0 THEN whole + 1 ELSE whole
    IN [i \in 1..n |-> SubSeq(files, (i - 1) * BatchSize + 1, Min({i * BatchSize, Len(files)}))]
ScanShare(share, name, source, cfg) ==
    LET walked == WalkShare(share, cfg)
        batches == Batches(walked.files, walked.ok)
    IN [ok |-> walked.ok,
        queue |-> FlattenSeq([i \in DOMAIN batches |-> Queued(batches[i], name, source, cfg)])]
=============================================================================
