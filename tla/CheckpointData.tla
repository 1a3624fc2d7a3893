---------------------------- MODULE CheckpointData ----------------------------
(***************************************************************************)
(* The data of a scan checkpoint (src/internal/state): how names become    *)
(* keys, what the in-memory progress of a run is, how a file is compared   *)
(* with its recorded state, and the two conversions between the progress   *)
(* and the document that is written to disk.                               *)
(*                                                                         *)
(* Names are what callers pass (a share listed as "Data", "DATA" or        *)
(* " data "); keys are what the store compares.  normalizeKey is the map   *)
(* between them; a name that trims to the empty string has no key.         *)
(***************************************************************************)
CONSTANTS HostNames, ShareNames, PathNames,
          normalizeKey,   \* lower-cased and trimmed form of each name
          NoKey,          \* the empty key
          Sizes,          \* file sizes
          Times,          \* modification times other than the zero time
          NoTime,         \* the zero time.Time
          LegacyState,    \* a file recorded without size and time (version 1)
          NoState         \* a file the store has no record of

HostKeys  == {normalizeKey[n] : n \in HostNames} \ {NoKey}

ShareKeys == HostKeys \X ({normalizeKey[n] : n \in ShareNames} \ {NoKey})

FileKeys  == ShareKeys \X ({normalizeKey[n] : n \in PathNames} \ {NoKey})

HostKey(h) == normalizeKey[h]

ShareKey(h, s) ==
    IF NoKey \in {HostKey(h), normalizeKey[s]}
    THEN NoKey
    ELSE <<HostKey(h), normalizeKey[s]>>

FileKey(h, s, f) ==
    IF NoKey \in {ShareKey(h, s), normalizeKey[f]}
    THEN NoKey
    ELSE <<ShareKey(h, s), normalizeKey[f]>>

Stamp == [Size : Sizes, ModifiedAt : Times \cup {NoTime}]

FileState == Stamp \cup {LegacyState, NoState}

\* What the store remembers: the three maps of struct Store.
Progress == [hosts  : SUBSET HostKeys,
             shares : SUBSET ShareKeys,
             files  : [FileKeys -> FileState]]

NoProgress == [hosts  |-> {},
               shares |-> {},
               files  |-> [k \in FileKeys |-> NoState]]

ASSUME DataAssumption ==
    /\ NoKey \notin HostKeys \cup ShareKeys \cup FileKeys
    /\ NoTime \notin Times
    /\ LegacyState \notin Stamp
    /\ NoState \notin Stamp
    /\ LegacyState # NoState
-------------------------------------------------------------------------------
(***************************************************************************)
(* The marks.  A name without a key leaves the progress as it is, and so   *)
(* does a mark that is already there.                                      *)
(***************************************************************************)
MarkHost(p, h) ==
    IF HostKey(h) = NoKey THEN p
    ELSE [p EXCEPT !.hosts = @ \cup {HostKey(h)}]

MarkShare(p, h, s) ==
    IF ShareKey(h, s) = NoKey THEN p
    ELSE [p EXCEPT !.shares = @ \cup {ShareKey(h, s)}]

MarkFile(p, h, s, f, stamp) ==
    IF FileKey(h, s, f) = NoKey THEN p
    ELSE [p EXCEPT !.files[FileKey(h, s, f)] = stamp]

IsHostComplete(p, h) == HostKey(h) \in p.hosts

IsShareComplete(p, h, s) == ShareKey(h, s) \in p.shares

\* A size change always reopens a file; a time change only when both times are
\* known; a legacy record matches whatever the file looks like now.
Matches(recorded, stamp) ==
    \/ recorded = LegacyState
    \/ /\ recorded \in Stamp
       /\ recorded.Size = stamp.Size
       /\ NoTime \notin {recorded.ModifiedAt, stamp.ModifiedAt}
            => recorded.ModifiedAt = stamp.ModifiedAt

IsFileComplete(p, h, s, f, stamp) ==
    /\ FileKey(h, s, f) # NoKey
    /\ Matches(p.files[FileKey(h, s, f)], stamp)
-------------------------------------------------------------------------------
(***************************************************************************)
(* The document: hosts and shares, the files without a state, and the      *)
(* files with one.                                                         *)
(***************************************************************************)
Document == [CompletedHosts  : SUBSET HostKeys,
             CompletedShares : SUBSET ShareKeys,
             CompletedFiles  : SUBSET FileKeys,
             FileStates      : [FileKeys -> Stamp \cup {NoState}]]

SnapshotWithoutLegacy(p) ==   \* mutant: legacy files are not written back
    [CompletedHosts  |-> p.hosts,
     CompletedShares |-> p.shares,
     CompletedFiles  |-> {},
     FileStates      |-> [k \in FileKeys |->
                            IF p.files[k] = LegacyState THEN NoState
                            ELSE p.files[k]]]

Snapshot(p) ==
    [CompletedHosts  |-> p.hosts,
     CompletedShares |-> p.shares,
     CompletedFiles  |-> {k \in FileKeys : p.files[k] = LegacyState},
     FileStates      |-> [k \in FileKeys |->
                            IF p.files[k] = LegacyState THEN NoState
                            ELSE p.files[k]]]

\* A file in both lists keeps its state: FileStates is read last.
Load(d) ==
    [hosts  |-> d.CompletedHosts,
     shares |-> d.CompletedShares,
     files  |-> [k \in FileKeys |->
                    IF d.FileStates[k] # NoState THEN d.FileStates[k]
                    ELSE IF k \in d.CompletedFiles THEN LegacyState
                    ELSE NoState]]

\* q has everything p has, though perhaps with newer file states.
Covers(q, p) ==
    /\ p.hosts \subseteq q.hosts
    /\ p.shares \subseteq q.shares
    /\ \A k \in FileKeys : p.files[k] # NoState => q.files[k] # NoState
===============================================================================
