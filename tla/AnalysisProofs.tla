--------------------------- MODULE AnalysisProofs ---------------------------
(***************************************************************************)
(* What the computations come to, for every input.                         *)
(***************************************************************************)
EXTENDS Analysis, SequenceTheorems, FiniteSetTheorems, WellFoundedInduction, TLAPS

-------------------------------------------------------------------------------
(***************************************************************************)
(* The comparison of two scans.                                            *)
(***************************************************************************)
LEMMA GreatestOf ==
    ASSUME NEW n \in Nat, NEW S, S \subseteq 1..n, S # {}
    PROVE  Max(S) \in S /\ \A y \in S : y <= Max(S)
<1> DEFINE R == OpToRel(<, Nat)
           T == {n - x : x \in S}
<1>1. IsWellFoundedOn(R, Nat)
  BY NatLessThanWellFounded
<1>2. \A x, y \in Nat : x < y => <<x, y>> \in R
  BY DEF OpToRel
<1>3. T \subseteq Nat /\ T # {}
  OBVIOUS
<1> HIDE DEF R, T
<1>4. PICK t \in T : \A y \in T : ~ (<<y, t>> \in R)
  BY <1>1, <1>3, WFMin
<1>5. PICK x \in S : t = n - x
  BY DEF T
<1>6. ASSUME NEW y \in S PROVE x >= y
  <2>1. n - y \in T /\ t \in Nat /\ n - y \in Nat
    BY <1>3 DEF T
  <2>2. ~ (n - y < t)
    BY <2>1, <1>2, <1>4, Zenon
  <2>3. x \in Int /\ y \in Int
    OBVIOUS
  <2> QED
    BY <2>1, <2>2, <2>3, <1>5
<1>7. \E z \in S : \A y \in S : z >= y
  BY <1>6
<1>8. Max(S) \in S /\ \A y \in S : Max(S) >= y
  BY <1>7 DEF Max
<1>9. \A y \in S : y \in Int
  OBVIOUS
<1> QED
  BY <1>8, <1>9

\* What a report that was written and read again has of a finding.
Reread(f) == Only(Only(f, Written), Loaded)

\* It has each field that it is compared by, but for those of the planner.
LEMMA RereadKeeps ==
    ASSUME NEW f
    PROVE  /\ \A n \in Loaded : Field(Reread(f), n) = Field(f, n)
           /\ \A n : n \notin Loaded => Field(Reread(f), n) = ""
<1>1. Loaded \subseteq Written
  BY DEF Loaded
<1>2. DOMAIN Reread(f) = DOMAIN f \intersect Loaded
  BY <1>1 DEF Reread, Only
<1>3. \A n \in DOMAIN Reread(f) : Reread(f)[n] = f[n]
  BY <1>1 DEF Reread, Only
<1> QED
  BY <1>2, <1>3 DEF Field

LEMMA ComparedFields ==
    /\ Identity \subseteq Loaded
    /\ "matched_rule_ids" \in Loaded
    /\ \A n \in Compared : n \in Loaded <=> n \notin Planned
BY DEF Identity, Compared, Kept, Fields, Written, Loaded, Planned

LEMMA RereadIsTheSame ==
    ASSUME NEW f
    PROVE  Fingerprint(Reread(f)) = Fingerprint(f)
<1> DEFINE g == Reread(f)
<1>1. Field(g, "matched_rule_ids") = Field(f, "matched_rule_ids")
  BY RereadKeeps, ComparedFields
<1>2. \A n \in Identity : Field(g, n) = Field(f, n)
  BY RereadKeeps, ComparedFields
<1>3. Field(f, "matched_rule_ids") # "" => /\ f.matched_rule_ids = Field(f, "matched_rule_ids")
                                              /\ g.matched_rule_ids = Field(g, "matched_rule_ids")
  BY <1>1 DEF Field
<1>4. "rule_id" \in Identity
  BY DEF Identity
<1> HIDE DEF g
<1>5. [n \in Identity \ {"rule_id"} |-> Field(g, n)]
      = [n \in Identity \ {"rule_id"} |-> Field(f, n)]
  BY <1>2
<1>6. Fingerprint(g) = Fingerprint(f)
  BY <1>1, <1>2, <1>3, <1>4, <1>5 DEF Fingerprint
<1> QED
  BY <1>6 DEF g

\* A report read again has the same findings, and of one fingerprint the same one counts.
LEMMA RereadReport ==
    ASSUME NEW s, IsList(s)
    PROVE  LET r == LoadJSON(Saved(s)) IN
           /\ Fingerprints(r) = Fingerprints(s)
           /\ \A fp \in Fingerprints(s) :
                 Latest(r, fp) = Reread(Latest(s, fp))
<1> DEFINE r == LoadJSON(Saved(s))
           at(fp) == {i \in DOMAIN s : Fingerprint(s[i]) = fp}
<1>1. DOMAIN r = DOMAIN s /\ \A i \in DOMAIN s : r[i] = Reread(s[i])
  BY DEF LoadJSON, Saved, Reread
<1> HIDE DEF r
<1>2. \A i \in DOMAIN s : Fingerprint(r[i]) = Fingerprint(s[i])
  BY <1>1, RereadIsTheSame
<1>3. Fingerprints(r) = Fingerprints(s)
  BY <1>1, <1>2 DEF Fingerprints
<1>4. ASSUME NEW fp \in Fingerprints(s)
      PROVE  Latest(r, fp) = Reread(Latest(s, fp))
  <2>1. {i \in DOMAIN r : Fingerprint(r[i]) = fp} = at(fp)
    BY <1>1, <1>2
  <2>2. at(fp) # {} /\ at(fp) \subseteq 1..Len(s) /\ Len(s) \in Nat
    BY DEF Fingerprints, IsList
  <2>3. Max(at(fp)) \in at(fp)
    BY <2>2, GreatestOf
  <2>4. Latest(r, fp) = r[Max(at(fp))] /\ Latest(s, fp) = s[Max(at(fp))]
    BY <2>1 DEF Latest
  <2> QED
    BY <2>3, <2>4, <1>1
<1> QED
  BY <1>3, <1>4 DEF r

\* Compare of findings that were read from a report: beside the fields of the planner it
\* does not matter whether the others were read as well.
LEMMA ComparesAlike ==
    ASSUME NEW a, NEW b, IsList(a), IsList(b)
    PROVE  LET old == Saved(a)
               offline == DiffOfReports(old, Saved(b))
               online == DiffInScan(old, b)
               fields(diff, fp) == UNION {c.fields : c \in {d \in diff.changed : d.fp = fp}}
           IN /\ offline.new = online.new
              /\ offline.removed = online.removed
              /\ \A fp \in online.unchanged \union {c.fp : c \in online.changed} :
                    fields(offline, fp) = fields(online, fp) \ Planned
<1> DEFINE old == LoadJSON(Saved(a))
           new == LoadJSON(Saved(b))
           both == Fingerprints(b) \intersect Fingerprints(old)
           off(fp) == CompareFields(Latest(old, fp), Latest(new, fp))
           on(fp) == CompareFields(Latest(old, fp), Latest(b, fp))
           offline == Compare(old, new)
           online == Compare(old, b)
           fields(diff, fp) == UNION {c.fields : c \in {d \in diff.changed : d.fp = fp}}
<1>1. Fingerprints(new) = Fingerprints(b)
  BY RereadReport
<1>2. ASSUME NEW fp \in both PROVE off(fp) = on(fp) \ Planned
  <2>1. /\ Latest(new, fp) = Reread(Latest(b, fp))
        /\ Latest(old, fp) = Reread(Latest(a, fp))
    BY RereadReport
  <2> DEFINE x == Latest(old, fp)
             y == Latest(new, fp)
             z == Latest(b, fp)
  <2>2. \A n \in Compared \ Planned : Field(y, n) = Field(z, n)
    BY <2>1, RereadKeeps, ComparedFields
  <2>3. \A n \in Compared \intersect Planned :
           Field(y, n) = "" /\ Field(x, n) = ""
    BY <2>1, RereadKeeps, ComparedFields
  <2> HIDE DEF x, y, z
  <2>4. CompareFields(x, y) = CompareFields(x, z) \ Planned
    BY <2>2, <2>3 DEF CompareFields
  <2> QED
    BY <2>4 DEF x, y, z
<1> HIDE DEF old, new
<1>3. /\ offline.new = Fingerprints(b) \ Fingerprints(old)
      /\ offline.removed = Fingerprints(old) \ Fingerprints(b)
      /\ offline.changed = {[fp |-> fp, fields |-> off(fp)] : fp \in {x \in both : off(x) # {}}}
  BY <1>1 DEF Compare
<1>4. /\ online.new = Fingerprints(b) \ Fingerprints(old)
      /\ online.removed = Fingerprints(old) \ Fingerprints(b)
      /\ online.changed = {[fp |-> fp, fields |-> on(fp)] : fp \in {x \in both : on(x) # {}}}
      /\ online.unchanged = {fp \in both : on(fp) = {}}
  BY DEF Compare
<1> HIDE DEF off, on, offline, online, both
<1>5. ASSUME NEW fp \in both PROVE fields(offline, fp) = off(fp) /\ fields(online, fp) = on(fp)
  <2>1. {d \in offline.changed : d.fp = fp}
        = IF off(fp) = {} THEN {} ELSE {[fp |-> fp, fields |-> off(fp)]}
    BY <1>3
  <2>2. {d \in online.changed : d.fp = fp}
        = IF on(fp) = {} THEN {} ELSE {[fp |-> fp, fields |-> on(fp)]}
    BY <1>4
  <2>3. ASSUME NEW S, NEW X, S = IF X = {} THEN {} ELSE {[fp |-> fp, fields |-> X]}
        PROVE  UNION {c.fields : c \in S} = X
    <3>1. CASE X = {}
      BY <2>3, <3>1
    <3>2. CASE X # {}
      <4>1. S = {[fp |-> fp, fields |-> X]}
        BY <2>3, <3>2
      <4>2. {c.fields : c \in S} = {X}
        BY <4>1
      <4> QED
        BY <4>2
    <3> QED
      BY <3>1, <3>2
  <2>4. UNION {c.fields : c \in {d \in offline.changed : d.fp = fp}} = off(fp)
    BY <2>1, <2>3
  <2>5. UNION {c.fields : c \in {d \in online.changed : d.fp = fp}} = on(fp)
    BY <2>2, <2>3
  <2> QED
    BY <2>4, <2>5
<1>6. online.unchanged \union {c.fp : c \in online.changed} \subseteq both
  BY <1>4
<1>7. \A fp \in online.unchanged \union {c.fp : c \in online.changed} :
         fields(offline, fp) = fields(online, fp) \ Planned
  BY <1>2, <1>5, <1>6 DEF off, on, both
<1>8. offline.new = online.new /\ offline.removed = online.removed
  BY <1>3, <1>4
<1> HIDE DEF fields
<1> QED
  BY <1>7, <1>8 DEF fields, offline, online, old, new, DiffOfReports, DiffInScan

-------------------------------------------------------------------------------
(***************************************************************************)
(* Where the rules are looked for.                                         *)
(***************************************************************************)
\* ancestorDirs: the i-th directory is the path without its last i - 1 names.
LEMMA AncestorsOf ==
    ASSUME NEW dir \in Seq(STRING)
    PROVE  /\ AncestorDirs(dir) \in Seq(Seq(STRING))
           /\ Len(AncestorDirs(dir)) = Len(dir)
           /\ \A i \in 1..Len(dir) :
                 AncestorDirs(dir)[i] = SubSeq(dir, 1, Len(dir) + 1 - i)
<1>1. Len(dir) \in Nat
  OBVIOUS
<1>2. ASSUME NEW i \in 1..Len(dir) PROVE SubSeq(dir, 1, Len(dir) + 1 - i) \in Seq(STRING)
  <2>1. \A k \in 1..(Len(dir) + 1 - i) : dir[k] \in STRING
    BY <1>1
  <2> QED
    BY <2>1, <1>1, SubSeqProperties
<1>3. AncestorDirs(dir) \in [1..Len(dir) -> Seq(STRING)]
  BY <1>2 DEF AncestorDirs
<1> QED
  BY <1>1, <1>3 DEF AncestorDirs

\* detectRuntimeRoot: the nearest directory above the configuration that looks like the
\* root of a checkout is taken, if there is one.
LEMMA NearestIsRoot ==
    ASSUME NEW found \in Seq(STRING), NEW cwd \in Seq(STRING), NEW exe \in Seq(STRING), NEW exists,
           NEW n \in 1..(Len(found) - 1),
           LooksLikeRoot(SubSeq(found, 1, n), exists),
           \A m \in 1..(Len(found) - 1) :
              LooksLikeRoot(SubSeq(found, 1, m), exists) => m <= n
    PROVE  DetectRuntimeRoot(Dir(found), cwd, exe, exists) = SubSeq(found, 1, n)
<1> DEFINE dir == Dir(found)
           near == AncestorDirs(dir)
           far == SearchBaseDirs(cwd, exe)
           dirs == near \o far
           roots == {i \in DOMAIN dirs : LooksLikeRoot(dirs[i], exists)}
           at == Len(found) - n
<1>1. Len(found) \in Nat /\ n \in Nat /\ at \in 1..(Len(found) - 1)
  OBVIOUS
<1>2. dir \in Seq(STRING) /\ Len(dir) = Len(found) - 1
  <2>1. \A k \in 1..(Len(found) - 1) : found[k] \in STRING
    BY <1>1
  <2> QED
    BY <2>1, <1>1, SubSeqProperties DEF Dir
<1>3. far \in Seq(Seq(STRING))
  BY AncestorsOf, ConcatProperties DEF SearchBaseDirs
<1>4. /\ near \in Seq(Seq(STRING)) /\ Len(near) = Len(found) - 1
      /\ \A i \in 1..(Len(found) - 1) : near[i] = SubSeq(dir, 1, Len(found) - i)
  <2> HIDE DEF dir
  <2>1. /\ near \in Seq(Seq(STRING)) /\ Len(near) = Len(dir)
        /\ \A i \in 1..Len(dir) : near[i] = SubSeq(dir, 1, Len(dir) + 1 - i)
    BY <1>2, AncestorsOf
  <2>2. \A i \in 1..(Len(found) - 1) : Len(dir) + 1 - i = Len(found) - i
    BY <1>1, <1>2
  <2> QED
    BY <2>1, <2>2, <1>2
<1>5. ASSUME NEW i \in 1..(Len(found) - 1)
      PROVE  SubSeq(dir, 1, Len(found) - i) = SubSeq(found, 1, Len(found) - i)
  <2>1. SubSeq(SubSeq(found, 1, Len(found) - 1), 1, Len(found) - i)
        = SubSeq(found, 1 + 1 - 1, 1 + (Len(found) - i) - 1)
    <3>1. /\ 1 \in 1..Len(found) /\ Len(found) - 1 \in 1..Len(found)
          /\ 1 \in 1..((Len(found) - 1) - 1 + 1)
          /\ Len(found) - i \in 1..((Len(found) - 1) - 1 + 1)
      BY <1>1
    <3> QED
      BY <3>1, SubSeqOfSubSeq
  <2>2. 1 + 1 - 1 = 1 /\ 1 + (Len(found) - i) - 1 = Len(found) - i
    BY <1>1
  <2> QED
    BY <2>1, <2>2 DEF Dir
<1> HIDE DEF dir, near, far
<1>6. /\ dirs \in Seq(Seq(STRING)) /\ Len(dirs) = Len(near) + Len(far)
      /\ \A i \in 1..(Len(found) - 1) : dirs[i] = SubSeq(found, 1, Len(found) - i)
  <2>1. /\ dirs \in Seq(Seq(STRING)) /\ Len(dirs) = Len(near) + Len(far)
        /\ \A i \in 1..(Len(near) + Len(far)) :
              dirs[i] = IF i <= Len(near) THEN near[i] ELSE far[i - Len(near)]
    BY <1>3, <1>4, ConcatProperties
  <2>2. ASSUME NEW i \in 1..(Len(found) - 1) PROVE dirs[i] = near[i]
    BY <2>1, <1>1, <1>3, <1>4
  <2> QED
    BY <2>1, <2>2, <1>4, <1>5
<1>7. Len(far) \in Nat /\ Len(near) \in Nat
  BY <1>3, <1>4
<1> HIDE DEF dirs
<1>8. at \in roots
  <2>1. at \in DOMAIN dirs
    BY <1>1, <1>4, <1>6, <1>7
  <2>2. dirs[at] = SubSeq(found, 1, n)
    <3>1. Len(found) - at = n
      BY <1>1
    <3> QED
      BY <3>1, <1>1, <1>6
  <2> QED
    BY <2>1, <2>2
<1>9. ASSUME NEW i \in roots PROVE i \in Nat /\ at <= i
  <2>1. i \in Nat \ {0}
    BY <1>6, <1>7
  <2>2. ASSUME i < at PROVE FALSE
    <3>1. i \in 1..(Len(found) - 1) /\ Len(found) - i \in 1..(Len(found) - 1)
      BY <2>1, <2>2, <1>1
    <3>2. dirs[i] = SubSeq(found, 1, Len(found) - i)
      BY <3>1, <1>6
    <3>3. Len(found) - i <= n
      BY <3>1, <3>2
    <3> QED
      BY <3>3, <2>1, <2>2, <1>1
  <2> QED
    BY <2>1, <2>2, <1>1
<1>10. Min(roots) = at
  <2> HIDE DEF roots, at
  <2>1. Min(roots) \in roots /\ \A y \in roots : Min(roots) <= y
    BY <1>8, <1>9 DEF Min
  <2>2. Min(roots) <= at /\ at <= Min(roots)
    BY <2>1, <1>8, <1>9
  <2> QED
    BY <2>1, <2>2, <1>8, <1>9
<1>11. DetectRuntimeRoot(dir, cwd, exe, exists) = dirs[at]
  BY <1>8, <1>10 DEF DetectRuntimeRoot, FirstRoot, near, far, dirs
<1>12. dirs[at] = SubSeq(found, 1, n)
  <2>1. Len(found) - at = n
    BY <1>1
  <2> QED
    BY <2>1, <1>1, <1>6
<1> QED
  BY <1>11, <1>12 DEF dir

\* RulePaths: and its rules are the ones of the scan, unless the working directory has some.
LEMMA NearestRulesAreFound ==
    ASSUME NEW l \in Launches, NEW found \in l.exists
    PROVE  LET rules == <<"configs", "rules", "default">>
               above == {n \in 0..Len(found) - 1 :
                           LET dir == SubSeq(found, 1, n) IN
                           /\ dir \o rules \in l.exists
                           /\ \/ dir \o <<"configs", "config.yaml">> \in l.exists
                              \/ dir \o <<"go.mod">> \in l.exists}
               paths == RulePaths(<<>>, Dir(found), l.cwd, l.exe, l.exists)
           IN (above # {} /\ l.cwd \o rules \notin l.exists) =>
                  \E n \in above : /\ \A m \in above : m <= n
                                   /\ paths[1] = SubSeq(found, 1, n) \o rules
<1> DEFINE rules == <<"configs", "rules", "default">>
           IsRoot(dir) == LooksLikeRoot(dir, l.exists)
           above == {n \in 0..Len(found) - 1 : IsRoot(SubSeq(found, 1, n))}
           root == DetectRuntimeRoot(Dir(found), l.cwd, l.exe, l.exists)
           paths == RulePaths(<<>>, Dir(found), l.cwd, l.exe, l.exists)
<1> SUFFICES ASSUME above # {}, l.cwd \o rules \notin l.exists
             PROVE  \E n \in above : /\ \A m \in above : m <= n
                                     /\ paths[1] = SubSeq(found, 1, n) \o rules
  BY DEF LooksLikeRoot, RuleDir
<1>1. found \in Seq(STRING) /\ l.cwd \in Seq(STRING) /\ l.exe \in Seq(STRING)
  BY AnalysisAssumption DEF IsPlace
<1>2. Len(found) \in Nat
  BY <1>1
\* What is there is absolute, so that the empty path is no root.
<1>3. ~ IsRoot(<<>>)
  <2>1. <<>> \o rules = rules
    OBVIOUS
  <2>2. ~ IsAbs(rules)
    BY DEF IsAbs, Root
  <2>3. rules \notin l.exists
    BY <2>2, AnalysisAssumption DEF IsPlace
  <2> QED
    BY <2>1, <2>3 DEF LooksLikeRoot, RuleDir
<1>4. above \subseteq 1..(Len(found) - 1)
  <2>1. SubSeq(found, 1, 0) = <<>>
    BY SubSeqEmpty
  <2>2. 0 \notin above
    BY <2>1, <1>3
  <2> HIDE DEF IsRoot
  <2> QED
    BY <2>2, <1>2
<1>5. PICK n \in above : \A m \in above : m <= n
  <2>1. Len(found) - 1 \in Nat
    BY <1>2, <1>4
  <2> HIDE DEF above
  <2>2. Max(above) \in above /\ \A y \in above : y <= Max(above)
    BY <2>1, <1>4, GreatestOf
  <2> QED
    BY <2>2
<1>6. n \in 1..(Len(found) - 1) /\ IsRoot(SubSeq(found, 1, n))
  BY <1>4
<1>7. \A m \in 1..(Len(found) - 1) : IsRoot(SubSeq(found, 1, m)) => m <= n
  BY <1>2, <1>5
<1>8. root = SubSeq(found, 1, n)
  <2>1. LooksLikeRoot(SubSeq(found, 1, n), l.exists)
    BY <1>6
  <2>2. \A m \in 1..(Len(found) - 1) : LooksLikeRoot(SubSeq(found, 1, m), l.exists) => m <= n
    BY <1>7
  <2>3. n \in 1..(Len(found) - 1)
    BY <1>6
  <2> HIDE DEF IsRoot, above, paths, rules
  <2>4. DetectRuntimeRoot(Dir(found), l.cwd, l.exe, l.exists) = SubSeq(found, 1, n)
    BY <1>1, <2>1, <2>2, <2>3, NearestIsRoot
  <2> QED
    BY <2>4
<1>9. SubSeq(found, 1, n) # <<>>
  <2>1. \A k \in 1..n : found[k] \in STRING
    BY <1>1, <1>2, <1>6
  <2>2. n \in Int /\ 1 <= n /\ n - 1 + 1 = n
    BY <1>2, <1>6
  <2>3. Len(SubSeq(found, 1, n)) = n
    BY <2>1, <2>2, SubSeqProperties
  <2>4. Len(<<>>) = 0
    OBVIOUS
  <2> QED
    BY <2>2, <2>3, <2>4
<1> HIDE DEF root
<1>10. paths[1] = ResolvePath(rules, <<root>>, l.cwd, l.exists)
  BY DEF RulePaths, root
<1>11. ~ IsAbs(rules)
  BY DEF IsAbs, Root
<1>12. ResolvePath(rules, <<root>>, l.cwd, l.exists) = root \o rules
  <2> DEFINE bases == <<root>>
             named == {i \in DOMAIN bases : bases[i] # <<>>}
             there == {i \in named : bases[i] \o rules \in l.exists}
  <2>1. named = {1}
    BY <1>8, <1>9
  <2>2. root \o rules \in l.exists
    BY <1>6, <1>8 DEF LooksLikeRoot, RuleDir
  <2>3. there = {1}
    BY <2>1, <2>2
  <2>4. Min({1}) = 1
    BY DEF Min
  <2> HIDE DEF rules, named, there
  <2>5. ResolvePath(rules, bases, l.cwd, l.exists) = bases[1] \o rules
    BY <1>11, <2>1, <2>3, <2>4 DEF ResolvePath, named, there
  <2> QED
    BY <2>5
<1> QED
  BY <1>5, <1>8, <1>10, <1>12

-------------------------------------------------------------------------------
(***************************************************************************)
(* The sizes a scan goes by.                                               *)
(***************************************************************************)
Limits == Sizes \ {"max_file"}
\* The limits that every profile sets are positive.
LEMMA ProfilesAreWhole ==
    ASSUME NEW name \in Profiles, NEW s \in Limits
    PROVE  /\ s \in DOMAIN ProfileLimits[name]
           /\ ProfileLimits[name][s] \in Nat \ {0}
<1> DEFINE limits == ProfileLimits[name]
<1>1. CASE name = "default"
  BY <1>1 DEF Limits, Sizes, ProfileLimits, MB
<1>2. CASE name = "validation"
  BY <1>2 DEF Limits, Sizes, ProfileLimits, MB
<1>3. CASE name = "aggressive"
  BY <1>3 DEF Limits, Sizes, ProfileLimits, MB
<1> QED
  BY <1>1, <1>2, <1>3 DEF Profiles

LEMMA DefaultIsWhole ==
    ASSUME NEW s \in Sizes
    PROVE  s \in DOMAIN Default /\ Default[s] \in Nat \ {0}
<1>1. CASE s \in Limits
  <2>1. /\ s \in DOMAIN ProfileLimits.default
        /\ ProfileLimits.default[s] \in Nat \ {0}
    BY <1>1, ProfilesAreWhole DEF Profiles
  <2> QED
    BY <2>1 DEF Default, Over
<1>2. CASE s = "max_file"
  <2>1. "max_file" \notin DOMAIN ProfileLimits.default
    BY DEF ProfileLimits
  <2>2. "max_file" \in DOMAIN Default /\ Default["max_file"] = 10 * MB
    BY <2>1 DEF Default, Over
  <2> QED
    BY <1>2, <2>2 DEF MB
<1> QED
  BY <1>1, <1>2 DEF Limits

\* ApplyScanProfile: a profile there is none of leaves the limits alone.
LEMMA ProfileLimitsApply ==
    ASSUME NEW cfg, NEW name, \A s \in Sizes : s \in DOMAIN cfg /\ cfg[s] \in Nat \ {0}
    PROVE  \A s \in Sizes : /\ s \in DOMAIN ApplyScanProfile(cfg, name)
                            /\ ApplyScanProfile(cfg, name)[s] \in Nat \ {0}
<1> SUFFICES ASSUME NEW s \in Sizes
             PROVE  /\ s \in DOMAIN ApplyScanProfile(cfg, name)
                    /\ ApplyScanProfile(cfg, name)[s] \in Nat \ {0}
  OBVIOUS
<1>1. CASE ~Known(name)
  BY <1>1 DEF ApplyScanProfile
<1>2. CASE Known(name)
  <2> DEFINE known == IF name = "" THEN "default" ELSE name
             limits == ProfileLimits[known]
  <2>1. known \in Profiles
    BY <1>2 DEF Known, Profiles
  <2> HIDE DEF known
  <2>2. s \in Limits => s \in DOMAIN limits /\ limits[s] \in Nat \ {0}
    BY <2>1, ProfilesAreWhole
  <2>3. s = "max_file" => s \notin DOMAIN limits
    BY <2>1 DEF Profiles, ProfileLimits
  <2>4. s # "profile" /\ (s \in Limits \/ s = "max_file")
    BY DEF Sizes, Limits
  <2> HIDE DEF limits
  <2>5. ApplyScanProfile(cfg, name)
        = Over([profile |-> known], Over(limits, cfg))
    BY <1>2 DEF ApplyScanProfile, known, limits
  <2> QED
    BY <2>2, <2>3, <2>4, <2>5 DEF Over
<1> QED
  BY <1>1, <1>2

\* ApplyDefaults: every limit becomes positive, the ceilings by the automatic ones.
LEMMA DefaultsFill ==
    ASSUME NEW cfg, \A s \in Sizes : s \in DOMAIN cfg /\ cfg[s] \in Int
    PROVE  \A s \in Sizes : /\ s \in DOMAIN ApplyDefaults(cfg)
                            /\ ApplyDefaults(cfg)[s] \in Nat \ {0}
<1> DEFINE filled == [s \in DOMAIN cfg |->
                        IF \/ s \in Floored /\ cfg[s] <= 0
                           \/ s \in Texts /\ cfg[s] = ""
                        THEN Default[s] ELSE cfg[s]]
           full == ApplyDefaults(cfg)
<1>1. \A s \in Sizes : s \notin Texts
  BY DEF Sizes, Texts
<1>2. ASSUME NEW s \in Sizes
      PROVE  /\ filled[s] \in Int
             /\ s \in Floored => filled[s] \in Nat \ {0}
  <2>1. filled[s] = IF s \in Floored /\ cfg[s] <= 0 THEN Default[s] ELSE cfg[s]
    BY <1>1, Zenon
  <2>2. cfg[s] \in Int /\ Default[s] \in Nat \ {0}
    BY DefaultIsWhole
  <2> HIDE DEF filled
  <2> QED
    BY <2>1, <2>2
<1>4. \A s \in DOMAIN cfg : full[s] = IF s \in DOMAIN Ceiling /\ filled[s] <= 0
                                      THEN filled[Ceiling[s]] ELSE filled[s]
  BY DEF ApplyDefaults
<1>5. DOMAIN full = DOMAIN cfg
  BY DEF ApplyDefaults
<1> HIDE DEF filled, full
<1>6. \A s \in Sizes : \/ s \in Floored /\ s \notin DOMAIN Ceiling
                       \/ s \in DOMAIN Ceiling
  BY DEF Sizes, Floored, Ceiling
<1>7. \A s \in DOMAIN Ceiling : Ceiling[s] \in Sizes \intersect Floored
  BY DEF Sizes, Floored, Ceiling
<1> QED
  BY <1>2, <1>4, <1>5, <1>6, <1>7 DEF full

\* Load: what a file sets is a number or is made one.
LEMMA LoadedLimits ==
    ASSUME NEW file \in ConfigFiles, NEW s \in Sizes
    PROVE  s \in DOMAIN Load(file, <<>>) /\ Load(file, <<>>)[s] \in Nat \ {0}
<1> DEFINE hinted == IF Get(file, "profile", "") = "" THEN Default
                     ELSE ApplyScanProfile(Default, file.profile)
           over == Over(file, hinted)
           full == ApplyDefaults(over)
<1>1. \A t \in Sizes : t \in DOMAIN hinted /\ hinted[t] \in Nat \ {0}
  BY ProfileLimitsApply, DefaultIsWhole
<1>2. \A t \in Sizes : t \in DOMAIN over /\ over[t] \in Int
  <2> HIDE DEF hinted
  <2> QED
    BY <1>1, AnalysisAssumption DEF Over
<1>3. s \in DOMAIN full /\ full[s] \in Nat \ {0}
  BY <1>2, DefaultsFill
<1> HIDE DEF full
<1>4. s \notin {"sample_limit", "rules"}
  BY DEF Sizes
<1>5. DOMAIN Overlay(full, <<>>) = DOMAIN full /\ Overlay(full, <<>>)[s] = full[s]
  BY <1>3, <1>4 DEF Overlay
<1> QED
  BY <1>3, <1>5 DEF Load, full

\* applyScanOverrides: only the limits of images come from flags.
LEMMA ConfiguredLimits ==
    ASSUME NEW file \in ConfigFiles, NEW flags \in FlagSets, NEW s \in Sizes
    PROVE  /\ Configured(file, flags)[s] \in Int
           /\ s \notin {"auto_wim", "max_wim"} => Configured(file, flags)[s] > 0
<1> DEFINE cfg == Load(file, <<>>)
           name == Get(flags, "profile", "")
           base == IF name = "" THEN cfg
                   ELSE [ApplyScanProfile(cfg, name) EXCEPT !.profile = name]
<1>1. \A t \in Sizes : t \in DOMAIN cfg /\ cfg[t] \in Nat \ {0}
  BY LoadedLimits
<1> HIDE DEF cfg
<1>2. s \in DOMAIN base /\ base[s] \in Nat \ {0}
  <2>1. s # "profile"
    BY DEF Sizes
  <2>2. /\ s \in DOMAIN ApplyScanProfile(cfg, name)
        /\ ApplyScanProfile(cfg, name)[s] \in Nat \ {0}
    BY <1>1, ProfileLimitsApply
  <2> QED
    BY <1>1, <2>1, <2>2
<1> HIDE DEF name, base
<1>3. Configured(file, flags)[s] = IF s \in Given(flags) THEN flags[s] ELSE base[s]
  BY <1>2 DEF Configured, ApplyScanOverrides, cfg, name, base
<1>4. s \in Given(flags) =>
         /\ s \in DOMAIN flags
         /\ s \in {"auto_wim", "max_wim"} \/ (s = "max_file" /\ flags[s] > 0)
  BY DEF Given, Sizes, WIMFlags, Numbers, Switches,
         TextFlags
<1>5. s \in DOMAIN flags => flags[s] \in Int
  BY AnalysisAssumption
<1> QED
  BY <1>2, <1>3, <1>4, <1>5

\* A set of numbers that has a greatest one, if it has any.
Topped(S) == S \subseteq Int /\ (S = {} \/ \E top \in S : \A y \in S : y <= top)

LEMMA ToppedUnion == ASSUME NEW S, NEW T, Topped(S), Topped(T) PROVE Topped(S \union T)
<1>1. CASE S = {} \/ T = {}
  <2>1. S \union T \in {S, T}
    BY <1>1
  <2> QED
    BY <2>1
<1>2. CASE S # {} /\ T # {}
  <2>1. PICK s \in S : \A y \in S : y <= s
    BY <1>2 DEF Topped
  <2>2. PICK t \in T : \A y \in T : y <= t
    BY <1>2 DEF Topped
  <2>3. S \subseteq Int /\ T \subseteq Int
    BY DEF Topped
  <2>4. CASE s <= t
    <3>1. \A y \in S \union T : y <= t
      BY <2>1, <2>2, <2>3, <2>4
    <3> QED
      BY <2>3, <3>1 DEF Topped
  <2>5. CASE t <= s
    <3>1. \A y \in S \union T : y <= s
      BY <2>1, <2>2, <2>3, <2>5
    <3> QED
      BY <2>3, <3>1 DEF Topped
  <2> QED
    BY <2>3, <2>4, <2>5
<1> QED
  BY <1>1, <1>2

\* scanReadLimit: it covers max_file_size, and of each kind that is inspected the limits
\* that hold for it.
LEMMA ReadLimitCovers ==
    ASSUME NEW cfg, \A s \in Sizes : cfg[s] \in Int
    PROVE  LET limit == ScanReadLimit(cfg) IN
           /\ limit \in Int /\ cfg.max_file <= limit
           /\ cfg.archives => /\ cfg.auto_zip <= limit /\ cfg.auto_tar <= limit
                              /\ cfg.large_zip => cfg.max_zip <= limit
                              /\ cfg.large_tar => cfg.max_tar <= limit
           /\ cfg.wim => cfg.auto_wim <= limit /\ (cfg.large_wim => cfg.max_wim <= limit)
           /\ cfg.sqlite => cfg.auto_db <= limit /\ (cfg.large_db => cfg.max_db <= limit)
<1> DEFINE If(c, x) == IF c THEN {x} ELSE {}
           archives == IF ~cfg.archives THEN {} ELSE
                         {cfg.auto_zip, cfg.auto_tar}
                         \union If(cfg.large_zip, cfg.max_zip)
                         \union If(cfg.large_tar, cfg.max_tar)
           images == IF ~cfg.wim THEN {} ELSE {cfg.auto_wim} \union If(cfg.large_wim, cfg.max_wim)
           databases == IF ~cfg.sqlite THEN {} ELSE {cfg.auto_db} \union If(cfg.large_db, cfg.max_db)
           all == {cfg.max_file} \union archives \union images \union databases
           limit == ScanReadLimit(cfg)
<1>1. /\ cfg.max_file \in Int /\ cfg.auto_zip \in Int /\ cfg.auto_tar \in Int
      /\ cfg.max_zip \in Int /\ cfg.max_tar \in Int /\ cfg.auto_wim \in Int
      /\ cfg.max_wim \in Int /\ cfg.auto_db \in Int /\ cfg.max_db \in Int
  BY DEF Sizes
<1>2. limit = Max(all)
  BY DEF ScanReadLimit
<1>3. \A x \in Int : Topped({x}) /\ Topped({})
  BY DEF Topped
<1>4. ASSUME NEW c, NEW x \in Int PROVE Topped(If(c, x))
  BY <1>3
<1>5. Topped({cfg.auto_zip, cfg.auto_tar})
  <2>1. {cfg.auto_zip, cfg.auto_tar} = {cfg.auto_zip} \union {cfg.auto_tar}
    OBVIOUS
  <2>2. Topped({cfg.auto_zip} \union {cfg.auto_tar})
    BY <1>1, <1>3, ToppedUnion
  <2> QED
    BY <2>1, <2>2, Zenon
<1> HIDE DEF If
<1>6. Topped(archives) /\ Topped(images) /\ Topped(databases)
  BY <1>1, <1>3, <1>4, <1>5, ToppedUnion
<1> HIDE DEF archives, images, databases
<1>7. Topped(all)
  BY <1>1, <1>3, <1>6, ToppedUnion
<1>8. \A x \in all : x \in Int /\ x <= limit /\ limit \in Int
  <2>1. PICK top \in all : \A y \in all : y <= top
    BY <1>7 DEF Topped
  <2>2. all \subseteq Int
    BY <1>7 DEF Topped
  <2> HIDE DEF all, limit
  <2>3. \A y \in all : top >= y
    BY <2>1, <2>2
  <2>4. limit \in all /\ \A y \in all : limit >= y
    BY <1>2, <2>3 DEF Max
  <2> QED
    BY <2>2, <2>4
<1>9. cfg.max_file \in all /\ archives \subseteq all /\ images \subseteq all /\ databases \subseteq all
  OBVIOUS
<1>10. cfg.archives => /\ cfg.auto_zip \in archives /\ cfg.auto_tar \in archives
                       /\ cfg.large_zip => cfg.max_zip \in archives
                       /\ cfg.large_tar => cfg.max_tar \in archives
  BY DEF archives, If
<1>11. /\ cfg.wim => cfg.auto_wim \in images /\ (cfg.large_wim => cfg.max_wim \in images)
       /\ cfg.sqlite => cfg.auto_db \in databases /\ (cfg.large_db => cfg.max_db \in databases)
  BY DEF images, databases, If
<1> HIDE DEF all, limit
<1>12. \A x \in archives \union images \union databases \union {cfg.max_file} :
           limit \in Int /\ x <= limit
  BY <1>8, <1>9
<1>13. cfg.archives => /\ cfg.auto_zip <= limit /\ cfg.auto_tar <= limit
                       /\ cfg.large_zip => cfg.max_zip <= limit
                       /\ cfg.large_tar => cfg.max_tar <= limit
  BY <1>10, <1>12
<1>14. /\ cfg.wim => cfg.auto_wim <= limit /\ (cfg.large_wim => cfg.max_wim <= limit)
       /\ cfg.sqlite => cfg.auto_db <= limit /\ (cfg.large_db => cfg.max_db <= limit)
  BY <1>11, <1>12
<1>15. limit \in Int /\ cfg.max_file <= limit
  BY <1>12
<1> QED
  BY <1>13, <1>14, <1>15 DEF limit

\* NeedsContent: what a worker reads is no larger than the limit.
LEMMA NeededIsReadable ==
    ASSUME NEW file \in ConfigFiles, NEW flags \in FlagSets, NEW rules, NEW f \in Files,
           NEW cfg, cfg = Configured(file, flags), ValidateScanConfig(cfg),
           NeedsContent(cfg, rules, f)
    PROVE  f.size <= ScanReadLimit(cfg)
<1> DEFINE limit == ScanReadLimit(cfg)
<1>1. /\ \A s \in Sizes : cfg[s] \in Int
      /\ cfg.max_zip > 0 /\ cfg.max_tar > 0 /\ cfg.max_db > 0
  BY ConfiguredLimits DEF Sizes
<1>2. cfg.wim => cfg.max_wim > 0
  <2>1. cfg.wim => cfg.max_wim # 0
    BY DEF ValidateScanConfig, WIMFlags
  <2>2. cfg.max_wim >= 0
    BY DEF ValidateScanConfig, NotNegative
  <2>3. cfg.max_wim \in Int
    BY <1>1 DEF Sizes
  <2> QED
    BY <2>1, <2>2, <2>3
<1>3. f.size \in Nat
  BY AnalysisAssumption
<1>4. /\ limit \in Int /\ cfg.max_file <= limit
      /\ cfg.archives => /\ cfg.auto_zip <= limit /\ cfg.auto_tar <= limit
                         /\ cfg.large_zip => cfg.max_zip <= limit
                         /\ cfg.large_tar => cfg.max_tar <= limit
      /\ cfg.wim => cfg.auto_wim <= limit /\ (cfg.large_wim => cfg.max_wim <= limit)
      /\ cfg.sqlite => cfg.auto_db <= limit /\ (cfg.large_db => cfg.max_db <= limit)
  BY <1>1, ReadLimitCovers
<1> HIDE DEF limit
<1>5. ASSUME NEW on, NEW automatic \in Int, NEW large, NEW most \in Int, most > 0,
             on => automatic <= limit /\ (large => most <= limit),
             Within(f.size, on, automatic, large, most)
      PROVE  f.size <= limit
  BY <1>3, <1>4, <1>5 DEF Within
<1>6. /\ cfg.max_file \in Int /\ cfg.auto_zip \in Int /\ cfg.auto_tar \in Int
      /\ cfg.max_zip \in Int /\ cfg.max_tar \in Int /\ cfg.auto_wim \in Int
      /\ cfg.max_wim \in Int /\ cfg.auto_db \in Int /\ cfg.max_db \in Int
  BY <1>1 DEF Sizes
<1>7. CASE ArchiveDecision(cfg, f)
  <2>1. \/ Within(f.size, cfg.archives, cfg.auto_zip, cfg.large_zip, cfg.max_zip)
        \/ Within(f.size, cfg.archives, cfg.auto_tar, cfg.large_tar, cfg.max_tar)
    BY <1>7 DEF ArchiveDecision
  <2>2. f.size <= limit
    BY <2>1, <1>1, <1>4, <1>5, <1>6
  <2> QED
    BY <2>2 DEF limit
<1>8. CASE WIMDecision(cfg, f)
  <2>1. cfg.wim /\ Within(f.size, cfg.wim, cfg.auto_wim, cfg.large_wim, cfg.max_wim)
    BY <1>8 DEF WIMDecision, Within
  <2>2. f.size <= limit
    BY <2>1, <1>2, <1>4, <1>5, <1>6
  <2> QED
    BY <2>2 DEF limit
<1>9. CASE SQLiteDecision(cfg, f)
  <2>1. Within(f.size, cfg.sqlite, cfg.auto_db, cfg.large_db, cfg.max_db)
    BY <1>9 DEF SQLiteDecision
  <2>2. f.size <= limit
    BY <2>1, <1>1, <1>4, <1>5, <1>6
  <2> QED
    BY <2>2 DEF limit
<1>10. CASE f.size <= cfg.max_file
  <2>1. f.size <= limit
    BY <1>3, <1>4, <1>6, <1>10
  <2> QED
    BY <2>1 DEF limit
<1>11. \/ ArchiveDecision(cfg, f) \/ WIMDecision(cfg, f)
       \/ SQLiteDecision(cfg, f) \/ f.size <= cfg.max_file
  BY DEF NeedsContent
<1> QED
  BY <1>7, <1>8, <1>9, <1>10, <1>11 DEF limit

-------------------------------------------------------------------------------
(***************************************************************************)
(* What is read of a file, and what `snablr rules test` shows of it.       *)
(***************************************************************************)
\* NeedsContent and Evaluate: the worker reads what the evaluation looks into.
LEMMA NeededIsSeen ==
    ASSUME NEW cfg, cfg.max_file \in Int, NEW rules, NEW f, f.size \in Nat,
           ~ (IsSQLite(f) /\ f.size > cfg.max_file)
    PROVE  NeedsContent(cfg, rules, f) = Evaluate(cfg, rules, f, TRUE).need
<1> DEFINE seen == Evaluate(cfg, rules, f, TRUE)
           needs == NeedsContent(cfg, rules, f)
<1>1. needs \in BOOLEAN
  BY DEF NeedsContent
<1>2. Skipped.need = FALSE
  BY DEF Skipped
<1>3. CASE f.dir \/ ShouldSkipByPath(rules, f)
  <2>1. ~ needs
    BY <1>3 DEF NeedsContent
  <2>2. seen = Skipped
    BY <1>3 DEF Evaluate
  <2> QED
    BY <1>1, <1>2, <2>1, <2>2
<1>4. CASE ~ (f.dir \/ ShouldSkipByPath(rules, f)) /\ IsArchive(f)
  <2>1. needs <=> ArchiveDecision(cfg, f)
    BY <1>4 DEF NeedsContent
  <2>2. ArchiveDecision(cfg, f) => seen.need = TRUE
    BY <1>4 DEF Evaluate, EvaluateArchive, OfMembers, Skipped
  <2>3. ~ ArchiveDecision(cfg, f) => seen = Skipped
    BY <1>4 DEF Evaluate
  <2> QED
    BY <1>1, <1>2, <2>1, <2>2, <2>3
<1>5. CASE ~ (f.dir \/ ShouldSkipByPath(rules, f)) /\ ~IsArchive(f) /\ IsWIM(f)
  <2>1. needs <=> WIMDecision(cfg, f)
    BY <1>5 DEF NeedsContent
  <2>2. WIMDecision(cfg, f) => seen.need = TRUE
    BY <1>5 DEF Evaluate, EvaluateWIM, OfMembers, Skipped
  <2>3. ~ WIMDecision(cfg, f) => seen = Skipped
    BY <1>5 DEF Evaluate
  <2> QED
    BY <1>1, <1>2, <2>1, <2>2, <2>3
<1>6. CASE ~ (f.dir \/ ShouldSkipByPath(rules, f)) /\ ~IsArchive(f) /\ ~IsWIM(f)
  <2> DEFINE asks == AsksForContent(cfg, rules, f)
             decides == SQLiteDecision(cfg, f)
  <2>1. needs <=> IF IsSQLite(f) THEN decides ELSE f.size <= cfg.max_file /\ asks
    BY <1>6 DEF NeedsContent
  <2>2. asks \in BOOLEAN /\ (IsSQLite(f) /\ decides => asks)
    BY DEF AsksForContent
  <2>3. (IsSQLite(f) /\ ~decides) \/ f.size > cfg.max_file => seen = Skipped
    BY <1>6 DEF Evaluate
  <2>4. ~ ((IsSQLite(f) /\ ~decides) \/ f.size > cfg.max_file) => seen.need = asks
    <3>1. EvaluateStandard(cfg, rules, f, TRUE, FALSE).need = (FALSE \/ asks)
      BY DEF EvaluateStandard
    <3> HIDE DEF asks
    <3>2. (FALSE \/ asks) = asks
      BY <2>2
    <3>3. ~ ((IsSQLite(f) /\ ~decides) \/ f.size > cfg.max_file) =>
             seen = EvaluateStandard(cfg, rules, f, TRUE, FALSE)
      BY <1>6 DEF Evaluate
    <3> QED
      BY <3>1, <3>2, <3>3
  <2>5. f.size > cfg.max_file <=> ~ (f.size <= cfg.max_file)
    OBVIOUS
  <2> HIDE DEF asks, decides, needs, seen
  <2>6. needs = seen.need
    BY <1>1, <1>2, <2>1, <2>2, <2>3, <2>4, <2>5
  <2> QED
    BY <2>6 DEF needs, seen
<1> QED
  BY <1>3, <1>4, <1>5, <1>6

\* ruleMatchesMetadata and ruleEligible differ only in blank fragments and directories.
LEMMA MetadataAgrees ==
    ASSUME NEW r, NEW f, ~ f.dir, "" \notin r.include_paths \union r.exclude_paths
    PROVE  RuleEligible(r, f) <=> RuleMatchesMetadata(r, f)
BY DEF RuleEligible, RuleMatchesMetadata, ContainsAny, ContainsPath

\* shouldSkipByPath and ShouldExclude differ only in skip rules for content, where the
\* file is not an archive.
LEMMA SkippedAlike ==
    ASSUME NEW rules, \A r \in Range(rules) : r.type \in RuleTypes,
           \A r \in Range(rules) : ~ (r.action = "skip" /\ r.type = "content"),
           NEW f, FileFields \subseteq DOMAIN f, ~ IsArchive(f),
           ShouldExclude(rules, f)
    PROVE  ShouldSkipByPath(rules, f)
<1> DEFINE bare == [f EXCEPT !.ext = IF IsArchive(f) THEN ArchiveExt(f) ELSE @,
                             !.content = {}]
<1>1. PICK r \in SkipRules(rules) : RuleEligible(r, f) /\ MatchRule(r, f)
  BY DEF ShouldExclude
<1>2. r.type \in {"filename", "extension"}
  BY DEF SkipRules, RuleTypes, Range
<1>3. /\ bare.path = f.path /\ bare.name = f.name /\ bare.extension = f.extension
      /\ bare.ext = f.ext /\ bare.size = f.size
  BY DEF FileFields
<1> HIDE DEF bare
<1>4. RuleEligible(r, bare)
  BY <1>1, <1>2, <1>3 DEF RuleEligible
<1>5. MatchRule(r, bare)
  BY <1>1, <1>2, <1>3 DEF MatchRule, CandidateValue
<1> QED
  BY <1>4, <1>5 DEF ShouldSkipByPath, ShouldExclude, bare

\* evaluateStandardFile: what it finds is found by the name, the mark or the content.
LEMMA StandardFinds ==
    ASSUME NEW cfg, NEW rules, NEW f
    PROVE  EvaluateStandard(cfg, rules, f, TRUE, FALSE).finds
           \subseteq ScannedByName(rules, f) \union f.marks
                     \union (ScannedByContent(rules, f) \union f.held)
<1> DEFINE finds == EvaluateStandard(cfg, rules, f, TRUE, FALSE).finds
           asks == AsksForContent(cfg, rules, f)
           named == ScannedByName(rules, f) \union f.marks
           held == ScannedByContent(rules, f) \union f.held
<1>1. asks => finds = named \union held
  BY DEF EvaluateStandard
<1>2. ~ asks => finds = named \union {}
  BY DEF EvaluateStandard
<1> HIDE DEF finds, asks, named, held
<1>3. finds \subseteq named \union held
  BY <1>1, <1>2
<1> QED
  BY <1>3 DEF finds, named, held

\* TestInputFile: it shows what the scanners find of a plain file by rules that are told apart
\* from what the inspectors find.
LEMMA FoundIsShown ==
    ASSUME NEW rules, NEW f, NEW cfg,
           \A r \in Range(rules) : /\ r.type \in RuleTypes
                                   /\ <<r.id>> \notin f.marks \union f.held
                                   /\ "" \notin r.include_paths \union r.exclude_paths
                                   /\ ~ (r.action = "skip" /\ r.type = "content"),
           FileFields \subseteq DOMAIN f, ~ IsArchive(f), ~ IsWIM(f)
    PROVE  LET own == {<<r.id>> : r \in {x \in Range(rules) : x.id \notin f.assigned}}
           IN Evaluate(cfg, rules, f, TRUE).finds \intersect own
              \subseteq {<<r.id>> : r \in TestInputFile(rules, f).matches}
<1> DEFINE seen == Evaluate(cfg, rules, f, TRUE)
           own == {<<r.id>> : r \in {x \in Range(rules) : x.id \notin f.assigned}}
           matches == MatchFilename(rules, f) \union MatchContent(rules, f)
<1> SUFFICES ASSUME NEW x \in seen.finds, x \in own
             PROVE  x \in {<<r.id>> : r \in TestInputFile(rules, f).matches}
  OBVIOUS
<1>1. PICK q \in Range(rules) : x = <<q.id>> /\ q.id \notin f.assigned
  OBVIOUS
<1>2. /\ ~ f.dir /\ ~ ShouldSkipByPath(rules, f)
      /\ seen = EvaluateStandard(cfg, rules, f, TRUE, FALSE)
  BY DEF Evaluate, Skipped
<1>3. ~ ShouldExclude(rules, f)
  BY <1>2, SkippedAlike
<1>4. TestInputFile(rules, f).matches = matches
  BY <1>3 DEF TestInputFile
<1>5. x \in ScannedByName(rules, f) \union ScannedByContent(rules, f)
  <2>1. seen.finds \subseteq ScannedByName(rules, f) \union f.marks
                             \union (ScannedByContent(rules, f) \union f.held)
    BY <1>2, StandardFinds
  <2> QED
    BY <1>1, <2>1
<1>6. ASSUME NEW type, NEW r \in Scanned(rules, type, f)
      PROVE  r \in CollectMatches(RulesByType(rules, type), f)
  <2>1. r \in Reporting(RulesByType(rules, type))
        /\ RuleMatchesMetadata(r, f) /\ MatchRule(r, f)
    BY DEF Scanned
  <2>2. r \in Range(rules)
    BY <2>1 DEF Reporting, RulesByType
  <2>3. RuleEligible(r, f)
    BY <2>1, <2>2, <1>2, MetadataAgrees
  <2> QED
    BY <2>1, <2>3 DEF CollectMatches
<1>7. \E r \in matches : x = <<r.id>>
  <2>1. CASE x \in ScannedByName(rules, f)
    <3>1. PICK r \in Scanned(rules, "filename", f)
                     \union Scanned(rules, "extension", f) : x = <<r.id>>
      BY <2>1 DEF ScannedByName
    <3>2. r \in MatchFilename(rules, f)
      BY <3>1, <1>6 DEF MatchFilename
    <3> QED
      BY <3>1, <3>2
  <2>2. CASE x \in ScannedByContent(rules, f)
    <3>1. \E r : /\ x = <<r.id>>
                 /\ r \in Scanned(rules, "content", f) \/ r.id \in f.assigned
      BY <2>2 DEF ScannedByContent
    <3>2. PICK r : /\ x = <<r.id>>
                   /\ r \in Scanned(rules, "content", f) \/ r.id \in f.assigned
      BY <3>1
    <3>3. r.id = q.id
      <4>1. <<r.id>>[1] = r.id /\ <<q.id>>[1] = q.id
        OBVIOUS
      <4>2. <<r.id>> = <<q.id>>
        BY <3>2, <1>1
      <4> QED
        BY <4>1, <4>2, Zenon
    <3>4. r \in Scanned(rules, "content", f)
      BY <3>2, <3>3, <1>1
    <3>5. r \in MatchContent(rules, f)
      BY <3>4, <1>6 DEF MatchContent
    <3> QED
      BY <3>2, <3>5
  <2> QED
    BY <1>5, <2>1, <2>2
<1> QED
  BY <1>4, <1>7

-------------------------------------------------------------------------------
(***************************************************************************)
(* What a finding more is worth.                                           *)
(***************************************************************************)
\* h is g with more findings behind.
Extends(g, h) == /\ 1 \in DOMAIN g /\ DOMAIN g \subseteq DOMAIN h
                 /\ \A i \in DOMAIN g : h[i] = g[i]

LEMMA CountsAreNumbers ==
    ASSUME NEW S, NEW T, IsFiniteSet(T), S \subseteq T
    PROVE  /\ Cardinality(S) \in Nat /\ Cardinality(T) \in Nat
           /\ Cardinality(S) <= Cardinality(T)
<1>1. IsFiniteSet(S) /\ Cardinality(S) <= Cardinality(T)
  BY FS_Subset
<1>2. Cardinality(S) \in Nat /\ Cardinality(T) \in Nat
  BY <1>1, FS_CardinalityType
<1> QED
  BY <1>1, <1>2

\* groupHasTag, groupHasStrongEvidence, allowsContextBoosts: what the group has, it keeps.
LEMMA MoreHasMore ==
    ASSUME NEW g, NEW h, Extends(g, h)
    PROVE  /\ \A tag : HasTag(g, tag) => HasTag(h, tag)
           /\ AllowsContextBoosts(g) => AllowsContextBoosts(h)
<1>1. Range(g) \subseteq Range(h)
  BY DEF Range, Extends
<1>2. \A tag : HasTag(g, tag) => HasTag(h, tag)
  BY <1>1 DEF HasTag
<1>3. HasStrongSignal(g) => HasStrongSignal(h)
  BY <1>1 DEF HasStrongSignal
<1>4. g[1].category = h[1].category
  BY DEF Extends
<1> QED
  BY <1>2, <1>3, <1>4 DEF AllowsContextBoosts

LEMMA ContextWeightsAreNumbers ==
    ASSUME NEW meta, NEW s \in {"path", "share_priority", "planner_priority"}
    PROVE  ContextWeights(meta)[s] \in Nat
<1>1. PathWeight(meta) \in Nat
  BY DEF PathWeight
<1>2. ShareWeight(meta) \in Nat
  BY DEF ShareWeight
<1>3. PlannerWeight(meta) \in Nat
  BY DEF PlannerWeight
<1> QED
  BY <1>1, <1>2, <1>3 DEF ContextWeights

\* No weight is less.
LEMMA MoreWeighsMore ==
    ASSUME NEW g, NEW h, Extends(g, h), IsFiniteSet(DOMAIN h), NEW meta, NEW s \in DOMAIN Cap
    PROVE  /\ Weights(g, meta)[s] \in Nat /\ Weights(h, meta)[s] \in Nat
           /\ Weights(g, meta)[s] <= Weights(h, meta)[s]
<1> DEFINE few == Cardinality(Of(g, s))
           many == Cardinality(Of(h, s))
<1>1. few \in Nat /\ many \in Nat /\ few <= many
  <2>1. Of(g, s) \subseteq Of(h, s) /\ Of(h, s) \subseteq DOMAIN h
    BY DEF Of, Extends
  <2>2. IsFiniteSet(Of(h, s))
    BY <2>1, FS_Subset
  <2> QED
    BY <2>1, <2>2, CountsAreNumbers
<1>2. CASE s \in DOMAIN Weight
  <2>1. Weight[s] \in {40, 32, 18, 10}
    BY <1>2 DEF Weight
  <2>2. /\ Weights(g, meta)[s] = Weight[s] * few
        /\ Weights(h, meta)[s] = Weight[s] * many
    BY <1>2 DEF Weights
  <2> HIDE DEF few, many
  <2>3. \A w \in {40, 32, 18, 10} : w * few \in Nat /\ w * many \in Nat /\ w * few <= w * many
    BY <1>1
  <2> QED
    BY <2>1, <2>2, <2>3
<1>3. CASE s \notin DOMAIN Weight
  <2> DEFINE weight == ContextWeights(meta)[s]
  <2>1. s \in {"path", "share_priority", "planner_priority"}
    BY <1>3 DEF Weight, Cap
  <2>2. weight \in Nat
    BY <2>1, ContextWeightsAreNumbers
  <2>3. /\ Weights(g, meta)[s] = IF AllowsContextBoosts(g) THEN weight ELSE 0
        /\ Weights(h, meta)[s] = IF AllowsContextBoosts(h) THEN weight ELSE 0
    BY <1>3 DEF Weights
  <2> HIDE DEF weight
  <2> QED
    BY <2>2, <2>3, MoreHasMore
<1> QED
  BY <1>2, <1>3

\* The bonus for several signals, and those for tags.
LEMMA MoreBonus ==
    ASSUME NEW g, NEW h, Extends(g, h), IsFiniteSet(DOMAIN h), NEW meta
    PROVE  LET few == Bonus(Cardinality(Signals(Weights(g, meta))))
               many == Bonus(Cardinality(Signals(Weights(h, meta))))
           IN few \in Nat /\ many \in Nat /\ few <= many
<1> DEFINE few == Signals(Weights(g, meta))
           many == Signals(Weights(h, meta))
<1>1. DOMAIN Weights(g, meta) = DOMAIN Cap /\ DOMAIN Weights(h, meta) = DOMAIN Cap
  BY DEF Weights
<1>2. few \subseteq many /\ many \subseteq DOMAIN Cap
  <2>1. \A s \in DOMAIN Cap :
           Weights(g, meta)[s] > 0 => Weights(h, meta)[s] > 0
    <3> SUFFICES ASSUME NEW s \in DOMAIN Cap, Weights(g, meta)[s] > 0
                 PROVE  Weights(h, meta)[s] > 0
      OBVIOUS
    <3> QED
      BY MoreWeighsMore
  <2> QED
    BY <1>1, <2>1 DEF Signals
<1>3. IsFiniteSet(DOMAIN Cap)
  <2> DEFINE names == <<"content", "validated", "filename", "extension", "path", "share_priority",
                        "planner_priority">>
  <2>1. \A s \in DOMAIN Cap : \E i \in 1..7 : names[i] = s
    BY DEF Cap
  <2>2. \A i \in 1..7 : names[i] \in DOMAIN Cap
    BY DEF Cap
  <2> HIDE DEF names
  <2> DEFINE list == [i \in 1..7 |-> names[i]]
             all == DOMAIN Cap
             places == 1..7
  <2>3. list \in Surjection(places, all)
    BY <2>1, <2>2 DEF Surjection
  <2>4. 1 \in Int /\ 7 \in Int
    OBVIOUS
  <2>5. IsFiniteSet(places)
    BY <2>4, FS_Interval, Zenon
  <2> HIDE DEF list, all, places
  <2>6. IsFiniteSet(all)
    BY <2>3, <2>5, FS_Surjection
  <2> QED
    BY <2>6 DEF all
<1>4. IsFiniteSet(many)
  BY <1>2, <1>3, FS_Subset
<1> HIDE DEF few, many
<1>5. /\ Cardinality(few) \in Nat /\ Cardinality(many) \in Nat
      /\ Cardinality(few) <= Cardinality(many)
  BY <1>2, <1>4, CountsAreNumbers
<1>6. /\ Bonus(Cardinality(few)) \in Nat /\ Bonus(Cardinality(many)) \in Nat
      /\ Bonus(Cardinality(few)) <= Bonus(Cardinality(many))
  BY <1>5 DEF Bonus
<1> QED
  BY <1>6 DEF few, many

LEMMA MoreTags ==
    ASSUME NEW g, NEW h, Extends(g, h)
    PROVE  /\ TagBonus(g) \in Nat /\ TagBonus(h) \in Nat
           /\ TagBonus(g) <= TagBonus(h)
<1> DEFINE Has(tag) == HasTag(g, tag)
           Gets(tag) == HasTag(h, tag)
<1>1. \A tag : Has(tag) => Gets(tag)
  BY MoreHasMore
<1>2. TagBonus(g) =
        (IF Has("artifact:private-key") /\ Has("validated:private-key-header") THEN 8 ELSE 0)
        + (IF Has("credstore:path-exact") THEN 10 ELSE 0)
        + (IF /\ Has("artifact:aws-credentials")
              /\ Has("aws:type:bundle") \/ Has("aws:type:session-bundle") THEN 10 ELSE 0)
        + (IF Has("artifact:backup-family") THEN 10 ELSE 0)
  BY DEF TagBonus
<1>3. TagBonus(h) =
        (IF Gets("artifact:private-key") /\ Gets("validated:private-key-header") THEN 8 ELSE 0)
        + (IF Gets("credstore:path-exact") THEN 10 ELSE 0)
        + (IF /\ Gets("artifact:aws-credentials")
              /\ Gets("aws:type:bundle") \/ Gets("aws:type:session-bundle") THEN 10 ELSE 0)
        + (IF Gets("artifact:backup-family") THEN 10 ELSE 0)
  BY DEF TagBonus
<1> HIDE DEF Has, Gets
<1> QED
  BY <1>1, <1>2, <1>3

\* correlateGroup: the score of a group is no more than that of one that extends it.
LEMMA MoreScoresMore ==
    ASSUME NEW g, NEW h, Extends(g, h), IsFiniteSet(DOMAIN h), NEW meta
    PROVE  /\ BaseScore(g, meta) \in Nat /\ BaseScore(h, meta) \in Nat
           /\ BaseScore(g, meta) <= BaseScore(h, meta)
<1> DEFINE few(s) == Lesser(Weights(g, meta)[s], Cap[s])
           many(s) == Lesser(Weights(h, meta)[s], Cap[s])
           bonus(group) == Bonus(Cardinality(Signals(Weights(group, meta))))
           total(f(_), group) == f("validated") + f("content") + f("filename") + f("extension")
                                 + f("path") + f("share_priority") + f("planner_priority")
                                 + bonus(group) + TagBonus(group)
<1>1. ASSUME NEW s \in DOMAIN Cap
      PROVE  few(s) \in Nat /\ many(s) \in Nat /\ few(s) <= many(s)
  <2>1. Cap[s] \in Nat
    BY DEF Cap
  <2> QED
    BY <2>1, MoreWeighsMore DEF Lesser
<1>2. {"validated", "content", "filename", "extension", "path", "share_priority",
       "planner_priority"} \subseteq DOMAIN Cap
  BY DEF Cap
<1>3. bonus(g) \in Nat /\ bonus(h) \in Nat /\ bonus(g) <= bonus(h)
  BY MoreBonus
<1>4. /\ TagBonus(g) \in Nat /\ TagBonus(h) \in Nat
      /\ TagBonus(g) <= TagBonus(h)
  BY MoreTags
<1>5. BaseScore(g, meta) = Lesser(100, total(few, g))
  BY DEF BaseScore
<1>6. BaseScore(h, meta) = Lesser(100, total(many, h))
  BY DEF BaseScore
<1> HIDE DEF few, many, bonus
<1>7. total(few, g) \in Nat /\ total(many, h) \in Nat /\ total(few, g) <= total(many, h)
  BY <1>1, <1>2, <1>3, <1>4
<1> HIDE DEF total
<1> QED
  BY <1>5, <1>6, <1>7 DEF Lesser

-------------------------------------------------------------------------------
(***************************************************************************)
(* Folds over a sequence, and what they come to.                           *)
(***************************************************************************)
LEMMA Counting ==
    ASSUME NEW n \in Nat, NEW P, 0 \in P,
           \A i \in 1..n : i - 1 \in P => i \in P
    PROVE  0..n \subseteq P
<1> DEFINE R == OpToRel(<, Nat)
           Left == {i \in 0..n : i \notin P}
<1>1. IsWellFoundedOn(R, Nat)
  BY NatLessThanWellFounded
<1>2. \A x, y \in Nat : x < y => <<x, y>> \in R
  BY DEF OpToRel
<1>3. Left \subseteq Nat
  OBVIOUS
<1> HIDE DEF R
<1> SUFFICES ASSUME Left # {} PROVE FALSE
  OBVIOUS
<1>4. PICK i \in Left : \A y \in Left : ~ (<<y, i>> \in R)
  <2> HIDE DEF Left
  <2> QED
    BY <1>1, <1>3, WFMin
<1>5. i \in 1..n /\ i - 1 \in 0..n /\ i \notin P
  OBVIOUS
<1>6. i - 1 \in Left
  BY <1>5
<1>7. <<i - 1, i>> \in R
  BY <1>2, <1>5
<1> QED
  BY <1>4, <1>6, <1>7

\* max[s] is the last index of s, g the fold of op over the indices, w its way through them.
IsLast(max, n) ==
    \A s \in SUBSET (1..n) : s # {} => max[s] \in s /\ \A y \in s : y <= max[s]
IsFold(g, base, op, max, n) ==
    \A s \in SUBSET (1..n) :
        g[s] = IF s = {} THEN base ELSE op[<<g[s \ {max[s]}], max[s]>>]
IsFoldWithin(g, S, base, op, max, n) ==
    /\ g[{}] = base
    /\ \A s \in SUBSET (1..n) :
          s # {} /\ g[s \ {max[s]}] \in S => g[s] = op[<<g[s \ {max[s]}], max[s]>>]
IsRun(w, base, op, n, last) ==
    w[0] = base /\ w[n] = last /\ \A i \in 1..n : w[i] = op[<<w[i - 1], i>>]

\* A fold over 1..n is defined by recursion on the sets of indices that are left.
LEMMA FoldExists ==
    ASSUME NEW n \in Nat, NEW S, NEW base \in S, NEW op \in [S \X (1..n) -> S],
           NEW max, IsLast(max, n)
    PROVE  \E g \in [SUBSET (1..n) -> S] : IsFold(g, base, op, max, n)
<1> USE DEF IsLast, IsFold
<1> DEFINE Folds(g, k) == IsFold(g, base, op, max, k)
           P == {k \in 0..n : \E g \in [SUBSET (1..k) -> S] : Folds(g, k)}
<1>1. 0 \in P
  <2> DEFINE g == [s \in SUBSET (1..0) |-> base]
  <2>1. g \in [SUBSET (1..0) -> S] /\ Folds(g, 0)
    OBVIOUS
  <2>2. \E f \in [SUBSET (1..0) -> S] : Folds(f, 0)
    BY <2>1
  <2>3. 0 \in 0..n
    OBVIOUS
  <2> HIDE DEF Folds
  <2> QED
    BY <2>2, <2>3, Zenon
<1>2. ASSUME NEW k \in 1..n, k - 1 \in P PROVE k \in P
  <2>1. PICK g \in [SUBSET (1..(k - 1)) -> S] : Folds(g, k - 1)
    BY <1>2
  <2> DEFINE h == [s \in SUBSET (1..k) |-> IF k \in s THEN op[<<g[s \ {k}], k>>] ELSE g[s]]
  <2>2. \A s \in SUBSET (1..k) : k \notin s => s \in SUBSET (1..(k - 1))
    OBVIOUS
  <2>3. \A s \in SUBSET (1..k) : s \ {k} \in SUBSET (1..(k - 1))
    OBVIOUS
  <2>4. h \in [SUBSET (1..k) -> S]
    <3>1. ASSUME NEW s \in SUBSET (1..k), k \in s PROVE op[<<g[s \ {k}], k>>] \in S
      BY <2>3
    <3>2. ASSUME NEW s \in SUBSET (1..k), k \notin s PROVE g[s] \in S
      BY <2>2, <3>2
    <3> QED
      BY <3>1, <3>2
  <2>5. ASSUME NEW s \in SUBSET (1..k)
        PROVE  h[s] = IF s = {} THEN base ELSE op[<<h[s \ {max[s]}], max[s]>>]
    <3>1. s \in SUBSET (1..n) /\ s \ {max[s]} \in SUBSET (1..k)
      <4>1. 1..k \subseteq 1..n
        OBVIOUS
      <4> QED
        BY <4>1, Zenon
    <3>2. CASE k \in s
      <4>1. max[s] = k
        <5>1. max[s] \in s /\ k <= max[s]
          BY <3>1, <3>2
        <5>2. max[s] \in 1..k
          BY <5>1
        <5> HIDE DEF IsLast, IsFold
        <5> QED
          BY <5>1, <5>2
      <4>2. h[s] = op[<<g[s \ {k}], k>>]
        BY <3>2
      <4>3. h[s \ {k}] = g[s \ {k}]
        BY <3>1, <4>1
      <4> QED
        BY <3>2, <4>1, <4>2, <4>3
    <3>3. CASE k \notin s
      <4>1. s \in SUBSET (1..(k - 1))
        BY <2>2, <3>3
      <4>2. g[s] = IF s = {} THEN base ELSE op[<<g[s \ {max[s]}], max[s]>>]
        BY <2>1, <4>1
      <4>3. h[s] = g[s] /\ h[s \ {max[s]}] = g[s \ {max[s]}]
        BY <3>1, <3>3
      <4> QED
        BY <4>2, <4>3
    <3> QED
      BY <3>2, <3>3
  <2>6. Folds(h, k)
    BY <2>5
  <2>7. \E f \in [SUBSET (1..k) -> S] : Folds(f, k)
    BY <2>4, <2>6, Zenon
  <2>8. k \in 0..n
    OBVIOUS
  <2> HIDE DEF Folds
  <2> QED
    BY <2>7, <2>8, Zenon
<1> HIDE DEF P
<1>3. 0..n \subseteq P
  BY <1>1, <1>2, Counting
<1>4. n \in P
  BY <1>3
<1> QED
  BY <1>4 DEF P

\* And it runs through them one after the other.
LEMMA FoldRuns ==
    ASSUME NEW n \in Nat, NEW S, NEW base \in S, NEW op \in [S \X (1..n) -> S], NEW max,
           IsLast(max, n), NEW iter, IsFoldWithin(iter, S, base, op, max, n)
    PROVE  \E w \in [0..n -> S] : IsRun(w, base, op, n, iter[1..n])
<1> USE DEF IsLast, IsFoldWithin, IsRun
<1> DEFINE P == {i \in 0..n : iter[1..i] \in S}
           w == [i \in 0..n |-> iter[1..i]]
<1>1. iter[1..0] = base
  <2>1. 1..0 = {}
    OBVIOUS
  <2> QED
    BY <2>1
<1>2. ASSUME NEW i \in 1..n, iter[1..(i - 1)] \in S
      PROVE  iter[1..i] = op[<<iter[1..(i - 1)], i>>] /\ iter[1..i] \in S
  <2>1. 1..i \in SUBSET (1..n) /\ i \in 1..i
    OBVIOUS
  <2>2. max[1..i] \in 1..i /\ i <= max[1..i]
    BY <2>1
  <2>3. max[1..i] = i
    BY <2>2
  <2>4. (1..i) \ {i} = 1..(i - 1)
    OBVIOUS
  <2> QED
    BY <1>2, <2>1, <2>3, <2>4
<1>3. 0 \in P
  BY <1>1
<1>4. \A i \in 1..n : i - 1 \in P => i \in P
  <2> SUFFICES ASSUME NEW i \in 1..n, i - 1 \in P PROVE i \in P
    OBVIOUS
  <2>1. i \in 0..n
    OBVIOUS
  <2> QED
    BY <1>2, <2>1, Zenon
<1> HIDE DEF P
<1>5. 0..n \subseteq P
  BY <1>3, <1>4, Counting
<1>6. w \in [0..n -> S]
  BY <1>5 DEF P
<1>7. \A i \in 1..n : w[i] = op[<<w[i - 1], i>>]
  BY <1>2, <1>6
<1>8. w[0] = base /\ w[n] = iter[1..n]
  BY <1>1
<1> HIDE DEF w
<1> QED
  BY <1>6, <1>7, <1>8

\* The states Those and Winner run through.
RunsThose(w, seq, S) ==
    /\ w[0] = <<>>
    /\ \A i \in 1..Len(seq) :
          w[i] = IF seq[i] \in S THEN Append(w[i - 1], seq[i]) ELSE w[i - 1]
    /\ w[Len(seq)] = Those(seq, S)
RunsWinner(w, seq, R) ==
    /\ w[0] = seq[1]
    /\ \A i \in 1..(Len(seq) - 1) :
          w[i] = IF <<seq[i + 1], w[i - 1]>> \in R THEN seq[i + 1] ELSE w[i - 1]
    /\ w[Len(seq) - 1] = Winner(seq, R)

LEMMA ThoseRuns ==
    ASSUME NEW T, NEW seq \in Seq(T), NEW S
    PROVE  \E w \in [0..Len(seq) -> Seq(T)] : RunsThose(w, seq, S)
<1> DEFINE n == Len(seq)
           max == [s \in SUBSET (1..n) |-> Max(s)]
           Step(x, i) == IF seq[i] \in S THEN Append(x, seq[i]) ELSE x
           op == [p \in Seq(T) \X (1..n) |-> Step(p[1], p[2])]
           Runs(f) == f = [s \in SUBSET (1..n) |->
                               IF s = {} THEN <<>>
                               ELSE Step(f[s \ {Max(s)}], Max(s))]
           iter == CHOOSE f : Runs(f)
<1>1. n \in Nat /\ DOMAIN seq = 1..n /\ \A i \in 1..n : seq[i] \in T
  OBVIOUS
<1>2. Those(seq, S) = iter[1..n]
  BY <1>1 DEF Those, FoldLeft, MapThenFoldSet
<1>3. IsLast(max, n)
  BY GreatestOf, <1>1 DEF IsLast
<1>4. op \in [Seq(T) \X (1..n) -> Seq(T)]
  BY <1>1
<1>5. \A x \in Seq(T), i \in 1..n : op[<<x, i>>] = Step(x, i)
  OBVIOUS
<1>6. <<>> \in Seq(T)
  OBVIOUS
<1> HIDE DEF n, op
<1>7. PICK g \in [SUBSET (1..n) -> Seq(T)] : IsFold(g, <<>>, op, max, n)
  <2> HIDE DEF max
  <2> QED
    BY <1>1, <1>3, <1>4, <1>6, FoldExists
<1>8. \E f : Runs(f)
  <2>1. ASSUME NEW s \in SUBSET (1..n)
        PROVE  g[s] = IF s = {} THEN <<>> ELSE Step(g[s \ {Max(s)}], Max(s))
    <3>1. CASE s = {}
      BY <3>1, <1>7 DEF IsFold
    <3>2. CASE s # {}
      <4>1. max[s] = Max(s) /\ max[s] \in 1..n
        BY <1>3, <3>2 DEF IsLast
      <4>2. s \ {max[s]} \in SUBSET (1..n)
        OBVIOUS
      <4>3. g[s \ {max[s]}] \in Seq(T)
        BY <4>2
      <4>4. g[s] = op[<<g[s \ {max[s]}], max[s]>>]
        BY <1>7, <3>2 DEF IsFold
      <4> HIDE DEF Step, max
      <4> QED
        BY <1>5, <3>2, <4>1, <4>3, <4>4
    <3> QED
      BY <3>1, <3>2
  <2> HIDE DEF Step
  <2>2. g = [s \in SUBSET (1..n) |->
                 IF s = {} THEN <<>> ELSE Step(g[s \ {Max(s)}], Max(s))]
    BY <2>1
  <2> QED
    BY <2>2
<1>9. Runs(iter)
  <2> HIDE DEF Runs
  <2> QED
    BY <1>8
<1> HIDE DEF iter
<1>10. iter[{}] = <<>>
  BY <1>9
<1>11. ASSUME NEW s \in SUBSET (1..n), s # {}, iter[s \ {max[s]}] \in Seq(T)
       PROVE  iter[s] = op[<<iter[s \ {max[s]}], max[s]>>]
  <2>1. max[s] = Max(s) /\ max[s] \in 1..n
    BY <1>3, <1>11 DEF IsLast
  <2>2. iter[s] = Step(iter[s \ {Max(s)}], Max(s))
    <3> HIDE DEF Step, max
    <3> QED
      BY <1>9, <1>11
  <2> HIDE DEF Step, max
  <2> QED
    BY <1>5, <1>11, <2>1, <2>2
<1>12. PICK w \in [0..n -> Seq(T)] : IsRun(w, <<>>, op, n, iter[1..n])
  <2> HIDE DEF max, Runs
  <2>1. IsFoldWithin(iter, Seq(T), <<>>, op, max, n)
    BY <1>10, <1>11 DEF IsFoldWithin
  <2>2. n \in Nat
    BY <1>1
  <2> QED
    BY <2>1, <2>2, <1>3, <1>4, <1>6, FoldRuns
<1>13. \A i \in 1..n : w[i] = Step(w[i - 1], i)
  <2> TAKE i \in 1..n
  <2>1. i - 1 \in 0..n
    BY <1>1
  <2> HIDE DEF Step
  <2> QED
    BY <2>1, <1>5, <1>12 DEF IsRun
<1> QED
  BY <1>2, <1>12, <1>13 DEF n, IsRun, RunsThose

LEMMA WinnerRuns ==
    ASSUME NEW T, NEW seq \in Seq(T), seq # <<>>, NEW R
    PROVE  \E w \in [0..(Len(seq) - 1) -> T] : RunsWinner(w, seq, R)
<1> DEFINE n == Len(seq) - 1
           t == Tail(seq)
           max == [s \in SUBSET (1..n) |-> Max(s)]
           Step(x, i) == IF <<t[i], x>> \in R THEN t[i] ELSE x
           op == [p \in T \X (1..n) |-> Step(p[1], p[2])]
           Runs(f) == f = [s \in SUBSET (1..n) |->
                               IF s = {} THEN seq[1]
                               ELSE Step(f[s \ {Max(s)}], Max(s))]
           iter == CHOOSE f : Runs(f)
<1>1. n \in Nat /\ DOMAIN t = 1..n /\ \A i \in 1..n : t[i] \in T /\ t[i] = seq[i + 1]
  OBVIOUS
<1>2. Winner(seq, R) = iter[1..n]
  BY <1>1 DEF Winner, FoldLeft, MapThenFoldSet
<1>3. IsLast(max, n)
  BY GreatestOf, <1>1 DEF IsLast
<1>4. op \in [T \X (1..n) -> T]
  BY <1>1
<1>5. \A x \in T, i \in 1..n : op[<<x, i>>] = Step(x, i)
  OBVIOUS
<1>6. seq[1] \in T
  OBVIOUS
<1> HIDE DEF n, op, t
<1>7. PICK g \in [SUBSET (1..n) -> T] : IsFold(g, seq[1], op, max, n)
  <2> HIDE DEF max
  <2> QED
    BY <1>1, <1>3, <1>4, <1>6, FoldExists
<1>8. \E f : Runs(f)
  <2>1. ASSUME NEW s \in SUBSET (1..n)
        PROVE  g[s] = IF s = {} THEN seq[1] ELSE Step(g[s \ {Max(s)}], Max(s))
    <3>1. CASE s = {}
      BY <3>1, <1>7 DEF IsFold
    <3>2. CASE s # {}
      <4>1. max[s] = Max(s) /\ max[s] \in 1..n
        BY <1>3, <3>2 DEF IsLast
      <4>2. s \ {max[s]} \in SUBSET (1..n)
        OBVIOUS
      <4>3. g[s \ {max[s]}] \in T
        BY <4>2
      <4>4. g[s] = op[<<g[s \ {max[s]}], max[s]>>]
        BY <1>7, <3>2 DEF IsFold
      <4> HIDE DEF Step, max
      <4> QED
        BY <1>5, <3>2, <4>1, <4>3, <4>4
    <3> QED
      BY <3>1, <3>2
  <2> HIDE DEF Step
  <2>2. g = [s \in SUBSET (1..n) |->
                 IF s = {} THEN seq[1] ELSE Step(g[s \ {Max(s)}], Max(s))]
    BY <2>1
  <2> QED
    BY <2>2
<1>9. Runs(iter)
  <2> HIDE DEF Runs
  <2> QED
    BY <1>8
<1> HIDE DEF iter
<1>10. iter[{}] = seq[1]
  BY <1>9
<1>11. ASSUME NEW s \in SUBSET (1..n), s # {}, iter[s \ {max[s]}] \in T
       PROVE  iter[s] = op[<<iter[s \ {max[s]}], max[s]>>]
  <2>1. max[s] = Max(s) /\ max[s] \in 1..n
    BY <1>3, <1>11 DEF IsLast
  <2>2. iter[s] = Step(iter[s \ {Max(s)}], Max(s))
    <3> HIDE DEF Step, max
    <3> QED
      BY <1>9, <1>11
  <2> HIDE DEF Step, max
  <2> QED
    BY <1>5, <1>11, <2>1, <2>2
<1>12. PICK w \in [0..n -> T] : IsRun(w, seq[1], op, n, iter[1..n])
  <2> HIDE DEF max, Runs
  <2>1. IsFoldWithin(iter, T, seq[1], op, max, n)
    BY <1>10, <1>11 DEF IsFoldWithin
  <2>2. n \in Nat
    BY <1>1
  <2> QED
    BY <2>1, <2>2, <1>3, <1>4, <1>6, FoldRuns
<1>13. \A i \in 1..n : w[i] = Step(w[i - 1], i)
  <2> TAKE i \in 1..n
  <2>1. i - 1 \in 0..n
    BY <1>1
  <2> HIDE DEF Step
  <2> QED
    BY <2>1, <1>5, <1>12 DEF IsRun
<1> QED
  BY <1>1, <1>2, <1>12, <1>13 DEF n, IsRun, RunsWinner

\* Those: exactly the elements of the set.
LEMMA ThoseHas ==
    ASSUME NEW T, NEW seq \in Seq(T), NEW S
    PROVE  /\ Those(seq, S) \in Seq(T)
           /\ Range(Those(seq, S)) = Range(seq) \intersect S
<1>0. PICK w \in [0..Len(seq) -> Seq(T)] : RunsThose(w, seq, S)
  BY ThoseRuns
<1>1. /\ w[0] = <<>>
      /\ \A i \in 1..Len(seq) :
            w[i] = IF seq[i] \in S THEN Append(w[i - 1], seq[i]) ELSE w[i - 1]
      /\ w[Len(seq)] = Those(seq, S)
  BY <1>0 DEF RunsThose
<1> DEFINE n == Len(seq)
           Upto(i) == {seq[j] : j \in 1..i} \intersect S
           P == {i \in 0..n : Range(w[i]) = Upto(i)}
<1>2. n \in Nat /\ Range(seq) = {seq[j] : j \in 1..n}
  BY DEF Range
<1>3. 0 \in P
  BY <1>1, <1>2 DEF Range
<1>4. ASSUME NEW i \in 1..n, i - 1 \in P PROVE i \in P
  <2>1. w[i - 1] \in Seq(T) /\ seq[i] \in T /\ Range(w[i - 1]) = Upto(i - 1)
    <3>1. i - 1 \in 0..n /\ i \in 1..Len(seq)
      BY <1>2
    <3>2. Range(w[i - 1]) = Upto(i - 1)
      BY <1>4
    <3> HIDE DEF Upto
    <3> QED
      BY <3>1, <3>2
  <2>2. {seq[j] : j \in 1..i} = {seq[j] : j \in 1..(i - 1)} \union {seq[i]}
    OBVIOUS
  <2>3. CASE seq[i] \in S
    <3>1. w[i] = Append(w[i - 1], seq[i])
      BY <1>1, <2>3
    <3>2. Range(w[i]) = Range(w[i - 1]) \union {seq[i]}
      <4> DEFINE v == w[i - 1]
      <4>1. v \in Seq(T) /\ seq[i] \in T
        BY <2>1
      <4> HIDE DEF v
      <4>2. /\ Len(Append(v, seq[i])) = Len(v) + 1
            /\ \A j \in 1..Len(v) : Append(v, seq[i])[j] = v[j]
            /\ Append(v, seq[i])[Len(v) + 1] = seq[i]
            /\ DOMAIN Append(v, seq[i]) = 1..(Len(v) + 1) /\ DOMAIN v = 1..Len(v)
            /\ Len(v) \in Nat
        BY <4>1
      <4>3. {Append(v, seq[i])[j] : j \in 1..(Len(v) + 1)} = {v[j] : j \in 1..Len(v)} \union {seq[i]}
        <5>1. 1..(Len(v) + 1) = 1..Len(v) \union {Len(v) + 1}
          BY <4>2
        <5> QED
          BY <4>2, <5>1
      <4> QED
        BY <3>1, <4>2, <4>3 DEF Range, v
    <3> QED
      BY <2>1, <2>2, <2>3, <3>2
  <2>4. CASE seq[i] \notin S
    <3>1. w[i] = w[i - 1]
      BY <1>1, <2>4
    <3> QED
      BY <2>1, <2>2, <2>4, <3>1
  <2> QED
    BY <2>3, <2>4
<1> HIDE DEF P
<1>5. 0..n \subseteq P
  BY <1>2, <1>3, <1>4, Counting
<1>6. n \in P
  BY <1>2, <1>5
<1> QED
  BY <1>1, <1>2, <1>6 DEF P

\* Winner: one of the elements, and one of a set of them that outdoes the others.
LEMMA WinnerIs ==
    ASSUME NEW T, NEW seq \in Seq(T), seq # <<>>, NEW R
    PROVE  /\ Winner(seq, R) \in Range(seq)
           /\ \A G : (/\ \E x \in Range(seq) : x \in G
                      /\ \A x, y \in Range(seq) : /\ x \in G /\ <<y, x>> \in R => y \in G
                                                  /\ x \notin G /\ y \in G => <<y, x>> \in R)
                     => Winner(seq, R) \in G
<1> DEFINE n == Len(seq) - 1
           Q == Range(seq)
<1>0. PICK w \in [0..n -> T] : RunsWinner(w, seq, R)
  BY WinnerRuns
<1>1. /\ w[0] = seq[1]
      /\ \A i \in 1..n :
            w[i] = IF <<seq[i + 1], w[i - 1]>> \in R THEN seq[i + 1] ELSE w[i - 1]
      /\ w[n] = Winner(seq, R)
  BY <1>0 DEF RunsWinner
<1>2. n \in Nat /\ DOMAIN seq = 1..(n + 1) /\ \A i \in 1..(n + 1) : seq[i] \in Q
  BY DEF Range
<1> HIDE DEF n
<1>3. ASSUME NEW i \in 1..n
      PROVE  w[i] \in {seq[i + 1], w[i - 1]}
  BY <1>1, <1>3
<1> DEFINE P == {i \in 0..n : w[i] \in Q}
<1>4. 0 \in P
  BY <1>1, <1>2
<1>5. ASSUME NEW i \in 1..n, i - 1 \in P PROVE i \in P
  BY <1>2, <1>3, <1>5
<1> HIDE DEF P
<1>6. 0..n \subseteq P
  BY <1>2, <1>4, <1>5, Counting
<1>7. \A i \in 0..n : w[i] \in Q
  BY <1>6 DEF P
<1>8. ASSUME NEW G, \E x \in Q : x \in G,
             \A x, y \in Q : /\ x \in G /\ <<y, x>> \in R => y \in G
                             /\ x \notin G /\ y \in G => <<y, x>> \in R
      PROVE  w[n] \in G
  <2> DEFINE Z == {i \in 0..n : (\E j \in 1..(i + 1) : seq[j] \in G) => w[i] \in G}
  <2>1. 0 \in Z
    BY <1>1, <1>2
  <2>2. ASSUME NEW i \in 1..n, i - 1 \in Z PROVE i \in Z
    <3>1. w[i] = IF <<seq[i + 1], w[i - 1]>> \in R THEN seq[i + 1] ELSE w[i - 1]
      BY <1>1
    <3>2. w[i - 1] \in Q /\ seq[i + 1] \in Q
      BY <1>2, <1>7
    <3>3. (\E j \in 1..i : seq[j] \in G) => w[i - 1] \in G
      BY <2>2
    <3>4. ASSUME NEW j \in 1..(i + 1), seq[j] \in G PROVE w[i] \in G
      <4>1. w[i - 1] \in G \/ seq[i + 1] \in G
        <5>1. CASE j \in 1..i
          BY <3>3, <3>4, <5>1
        <5>2. CASE j = i + 1
          BY <3>4, <5>2
        <5> QED
          BY <5>1, <5>2
      <4> QED
        BY <1>8, <3>1, <3>2, <4>1
    <3> QED
      BY <3>4
  <2> HIDE DEF Z
  <2>3. 0..n \subseteq Z
    BY <1>2, <2>1, <2>2, Counting
  <2>4. n \in Z
    BY <1>2, <2>3
  <2>5. \E j \in 1..(n + 1) : seq[j] \in G
    BY <1>2, <1>8 DEF Range
  <2> QED
    BY <2>4, <2>5 DEF Z
<1> QED
  BY <1>1, <1>2, <1>7, <1>8

-------------------------------------------------------------------------------
(***************************************************************************)
(* What the reports make of the findings.                                  *)
(***************************************************************************)
\* A sequence of as many different elements as a set has is all of the set.
LEMMA Enumerates ==
    ASSUME NEW S, IsFiniteSet(S), NEW f \in [1..Cardinality(S) -> S],
           \A i, j \in 1..Cardinality(S) : f[i] = f[j] => i = j
    PROVE  f \in Seq(S) /\ Range(f) = S
<1> DEFINE n == Cardinality(S)
<1>1. n \in Nat /\ IsFiniteSet(1..n) /\ Cardinality(1..n) = n
  <2>1. n \in Nat
    BY FS_CardinalityType
  <2> HIDE DEF n
  <2> QED
    BY <2>1, FS_Interval
<1>2. f \in Injection(1..n, S)
  BY DEF Injection, IsInjective
<1>3. f \in Surjection(1..n, S)
  BY <1>1, <1>2, FS_Injection
<1> QED
  BY <1>1, <1>3 DEF Surjection, Range

LEMMA SetToSeqHas ==
    ASSUME NEW S, IsFiniteSet(S)
    PROVE  SetToSeq(S) \in Seq(S) /\ Range(SetToSeq(S)) = S
<1> DEFINE n == Cardinality(S)
           f == SetToSeq(S)
           Is(g) == g \in [1..n -> S] /\ \A i, j \in 1..n : g[i] = g[j] => i = j
<1>1. n \in Nat /\ ExistsBijection(1..n, S)
  BY FS_CardinalityType
<1>2. \E g \in [1..n -> S] : IsInjective(g)
  BY <1>1 DEF ExistsBijection, Bijection, Injection, IsInjective
<1>3. f \in [1..n -> S] /\ IsInjective(f)
  BY <1>2 DEF SetToSeq
<1>4. \A i, j \in 1..n : f[i] = f[j] => i = j
  BY <1>3 DEF IsInjective
<1> QED
  BY <1>3, <1>4, Enumerates

LEMMA FiniteRange ==
    ASSUME NEW T, NEW seq \in Seq(T)
    PROVE  IsFiniteSet(Range(seq))
<1>1. seq \in Surjection(1..Len(seq), Range(seq))
  BY DEF Surjection, Range
<1>2. IsFiniteSet(1..Len(seq))
  BY FS_Interval
<1> QED
  BY <1>1, <1>2, FS_Surjection

\* Dedupe: one finding for each key.
LEMMA SameHas ==
    ASSUME NEW T, NEW seq \in Seq(T), NEW f \in Range(seq)
    PROVE  /\ Same(seq, f) \in Seq(T) /\ Same(seq, f) # <<>>
           /\ \A g : g \in Range(Same(seq, f)) <=>
                        g \in Range(seq) /\ DedupKey(g) = DedupKey(f)
<1> DEFINE S == {g \in Range(seq) : DedupKey(g) = DedupKey(f)}
<1>1. Same(seq, f) = Those(seq, S)
  BY DEF Same
<1>2. f \in S /\ S \subseteq Range(seq)
  OBVIOUS
<1>3. \A g : g \in S <=> g \in Range(seq) /\ DedupKey(g) = DedupKey(f)
  OBVIOUS
<1> HIDE DEF S
<1>4. Those(seq, S) \in Seq(T) /\ Range(Those(seq, S)) = S
  <2>1. Range(seq) \intersect S = S
    BY <1>2
  <2> QED
    BY <2>1, ThoseHas
<1>5. Those(seq, S) # <<>>
  BY <1>2, <1>4 DEF Range
<1> QED
  BY <1>1, <1>3, <1>4, <1>5

LEMMA DedupeKeepsOneEach ==
    ASSUME NEW T, NEW seq \in Seq(T)
    PROVE  /\ Dedupe(seq) \subseteq Range(seq)
           /\ IsFiniteSet(Dedupe(seq))
           /\ \A f \in Range(seq) : \E g \in Dedupe(seq) :
                 DedupKey(g) = DedupKey(f)
           /\ \A f, g \in Dedupe(seq) : DedupKey(f) = DedupKey(g) => f = g
<1> DEFINE best(f) == Best(Same(seq, f))
<1>1. ASSUME NEW f \in Range(seq)
      PROVE  best(f) \in Range(seq) /\ DedupKey(best(f)) = DedupKey(f)
  <2>1. best(f) \in Range(Same(seq, f))
    BY SameHas, WinnerIs DEF Best
  <2> QED
    BY <2>1, SameHas
<1>2. ASSUME NEW f \in Range(seq), NEW g \in Range(seq),
             DedupKey(f) = DedupKey(g)
      PROVE  best(f) = best(g)
  BY <1>2 DEF Same
<1>3. \A g : g \in Dedupe(seq) <=> \E f \in Range(seq) : g = best(f)
  BY DEF Dedupe
<1> HIDE DEF best
<1>4. Dedupe(seq) \subseteq Range(seq)
  BY <1>1, <1>3
<1>5. IsFiniteSet(Dedupe(seq))
  BY <1>4, FiniteRange, FS_Subset
<1>6. ASSUME NEW f \in Range(seq)
      PROVE  \E g \in Dedupe(seq) : DedupKey(g) = DedupKey(f)
  BY <1>1, <1>3
<1>7. ASSUME NEW f \in Dedupe(seq), NEW g \in Dedupe(seq),
             DedupKey(f) = DedupKey(g)
      PROVE  f = g
  <2>1. PICK x \in Range(seq) : f = best(x)
    BY <1>3
  <2>2. PICK y \in Range(seq) : g = best(y)
    BY <1>3
  <2>3. DedupKey(x) = DedupKey(y)
    BY <1>1, <1>7, <2>1, <2>2
  <2> QED
    BY <1>2, <2>1, <2>2, <2>3
<1> QED
  BY <1>4, <1>5, <1>6, <1>7

\* What is actionable is preferred to what is not.
LEMMA ActionableIsPreferred ==
    ASSUME NEW x, NEW y
    PROVE  /\ x.actionable /\ Preferred(y, x) => y.actionable
           /\ ~x.actionable /\ y.actionable => Preferred(y, x)
<1> DEFINE a == Merit(x)
           b == Merit(y)
<1>1. /\ a[1] = IF x.actionable THEN 1 ELSE 0
      /\ b[1] = IF y.actionable THEN 1 ELSE 0
  BY DEF Merit, Flag
<1>2. Preferred(y, x) <=> \E i \in 1..7 : b[i] > a[i] /\ \A j \in 1..(i - 1) : b[j] = a[j]
  BY DEF Preferred
<1> HIDE DEF a, b
<1>3. ASSUME x.actionable, Preferred(y, x) PROVE y.actionable
  <2>1. PICK i \in 1..7 : b[i] > a[i] /\ \A j \in 1..(i - 1) : b[j] = a[j]
    BY <1>2, <1>3
  <2>2. CASE i = 1
    BY <1>1, <1>3, <2>1, <2>2
  <2>3. CASE i # 1
    <3>1. 1 \in 1..(i - 1)
      BY <2>3
    <3>2. b[1] = a[1]
      BY <2>1, <3>1
    <3> QED
      BY <1>1, <1>3, <3>2
  <2> QED
    BY <2>2, <2>3
<1>4. ASSUME ~x.actionable, y.actionable PROVE Preferred(y, x)
  <2>1. b[1] > a[1]
    BY <1>1, <1>4
  <2>2. 1 \in 1..7 /\ 1..(1 - 1) = {}
    OBVIOUS
  <2> QED
    BY <1>2, <2>1, <2>2
<1> QED
  BY <1>3, <1>4

\* An entry that is about an actionable finding stands as an actionable one.
LEMMA CanonicalIsActionable ==
    ASSUME NEW T, NEW group \in Seq(T), NEW f \in Range(group), f.actionable
    PROVE  Canonical(group).actionable
<1> DEFINE Q == Range(group)
           R == {p \in Pairs(group) : Preferred(p[1], p[2])}
           G == {x \in Q : x.actionable}
<1>1. \A x, y \in Q : <<y, x>> \in R <=> Preferred(y, x)
  BY DEF Pairs
<1>2. \A x \in Q : x \in G <=> x.actionable
  OBVIOUS
<1>3. f \in Q /\ Canonical(group) = Winner(group, R)
  BY DEF Canonical
<1>4. group # <<>>
  BY DEF Range
<1>5. \A x \in G : x.actionable
  OBVIOUS
<1> HIDE DEF Q, R, G
<1>6. \A x, y \in Q : /\ x \in G /\ <<y, x>> \in R => y \in G
                      /\ x \notin G /\ y \in G => <<y, x>> \in R
  BY <1>1, <1>2, ActionableIsPreferred
<1>7. \E x \in Q : x \in G
  BY <1>2, <1>3
<1>8. Winner(group, R) \in G
  BY <1>4, <1>6, <1>7, WinnerIs DEF Q
<1> QED
  BY <1>3, <1>5, <1>8

LEMMA ActionableHasEntry ==
    ASSUME NEW T, NEW seq \in Seq(T), NEW f \in Range(seq), f.actionable
    PROVE  \E e \in PrimaryEntries(seq) : Location(f) \in e.places
<1> DEFINE S == {g \in Range(seq) : SameEntry(f, g)}
           group == Those(seq, S)
           e == [canonical |-> Canonical(group),
                 places |-> {Location(group[i]) : i \in DOMAIN group}]
<1>1. f \in S
  BY DEF SameEntry
<1>2. group \in Seq(T) /\ Range(group) = Range(seq) \intersect S
  <2> HIDE DEF S
  <2> QED
    BY ThoseHas
<1>3. f \in Range(group)
  BY <1>1, <1>2
<1>4. e \in Entries(seq)
  BY DEF Entries
<1> HIDE DEF group
<1>5. Canonical(group).actionable
  BY <1>2, <1>3, CanonicalIsActionable
<1>6. Location(f) \in e.places
  BY <1>3 DEF Range
<1>7. e.canonical.actionable
  BY <1>5
<1> HIDE DEF e
<1> QED
  BY <1>4, <1>6, <1>7 DEF PrimaryEntries

Made(merged) == UNION {Correlate(kind, merged) : kind \in Kinds}
CorrelationRules == Range(CorrelationRule)

LEMMA KindsAre ==
    /\ Kinds = {"ad", "aws", "key", "certificate", "browser", "wincred", "sqlite", "backup"}
    /\ DOMAIN Pairings = Kinds \ {"backup"}
    /\ DOMAIN CorrelationRule = Kinds
<1>1. DOMAIN Pairings = {"ad", "aws", "key", "certificate", "browser", "wincred", "sqlite"}
  BY DEF Pairings
<1>2. DOMAIN CorrelationRule
         = {"ad", "aws", "key", "certificate", "browser", "wincred", "sqlite", "backup"}
  BY DEF CorrelationRule
<1> QED
  BY <1>1, <1>2 DEF Kinds

LEMMA RulesDiffer ==
    \A j, k \in Kinds : CorrelationRule[j] = CorrelationRule[k] => j = k
BY KindsAre DEF CorrelationRule

\* The finding p as the first of a pair of the kind.
StandsFor(kind, c, p) ==
    /\ c.rule = CorrelationRule[kind]
    /\ c.host = p.host /\ c.share = p.share /\ c.path = p.path
    /\ c.correlated = TRUE /\ c.rank > 0

LEMMA CorrelationHas ==
    ASSUME NEW kind, NEW line, NEW p, NEW s, IdentityFields \subseteq DOMAIN p,
           line.rank > 0
    PROVE  StandsFor(kind, Correlation(kind, line, p, s), p)
BY DEF StandsFor, Correlation, IdentityFields

LEMMA InRolesHas ==
    ASSUME NEW T, NEW bucket \in Seq(T), NEW kind, NEW roles
    PROVE  /\ InRoles(kind, roles, bucket) \in Seq(T)
           /\ \A f : f \in Range(InRoles(kind, roles, bucket)) <=>
                 f \in Range(bucket) /\ Roles(kind, f) \intersect roles # {}
           /\ InRoles(kind, roles, bucket) # <<>> <=>
                 \E f \in Range(bucket) : Roles(kind, f) \intersect roles # {}
<1> DEFINE S == {f \in Range(bucket) : Roles(kind, f) \intersect roles # {}}
           in == InRoles(kind, roles, bucket)
<1>1. in = Those(bucket, S)
  BY DEF InRoles
<1>2. \A f : f \in S <=> f \in Range(bucket) /\ Roles(kind, f) \intersect roles # {}
  OBVIOUS
<1> HIDE DEF S, in
<1>3. in \in Seq(T) /\ Range(in) = Range(bucket) \intersect S
  BY <1>1, ThoseHas
<1>4. \A f : f \in Range(in) <=>
                f \in Range(bucket) /\ Roles(kind, f) \intersect roles # {}
  BY <1>2, <1>3
<1>5. in # <<>> <=> \E f : f \in Range(in)
  BY <1>3 DEF Range
<1> QED
  BY <1>3, <1>4, <1>5 DEF in

LEMMA AnchorIs ==
    ASSUME NEW T, NEW findings \in Seq(T), findings # <<>>
    PROVE  Anchor(findings) \in Range(findings)
BY WinnerIs DEF Anchor

IsLine(l) == l.rank > 0 /\ l.support # <<>> /\ Range(l.support) # {}
AreLines(s) == s \in Seq(Range(s)) /\ \A l \in Range(s) : IsLine(l)

LEMMA LineIs ==
    ASSUME NEW primary, NEW support, NEW category, NEW severity, NEW score, NEW rank,
           rank > 0, support # <<>>, 1 \in DOMAIN support
    PROVE  IsLine(Line(primary, support, category, severity, score, rank))
BY DEF IsLine, Line, Range

LEMMA ListedLines ==
    /\ \A a : IsLine(a) => AreLines(<<a>>)
    /\ \A a, b : IsLine(a) /\ IsLine(b) => AreLines(<<a, b>>)
    /\ \A a, b, c : IsLine(a) /\ IsLine(b) /\ IsLine(c) => AreLines(<<a, b, c>>)
<1>1. ASSUME NEW a, IsLine(a) PROVE AreLines(<<a>>)
  <2>1. DOMAIN <<a>> = {1}
    OBVIOUS
  <2> QED
    BY <1>1, <2>1 DEF AreLines, Range
<1>2. ASSUME NEW a, NEW b, IsLine(a), IsLine(b) PROVE AreLines(<<a, b>>)
  <2> DEFINE s == <<a, b>>
  <2>1. s \in Seq({a, b}) /\ DOMAIN s = {1, 2} /\ s[1] = a /\ s[2] = b
    OBVIOUS
  <2> HIDE DEF s
  <2>2. Range(s) = {a, b}
    BY <2>1 DEF Range
  <2>3. AreLines(s)
    BY <1>2, <2>1, <2>2 DEF AreLines
  <2> QED
    BY <2>3 DEF s
<1>3. ASSUME NEW a, NEW b, NEW c, IsLine(a), IsLine(b), IsLine(c) PROVE AreLines(<<a, b, c>>)
  <2> DEFINE s == <<a, b, c>>
  <2>1. s \in Seq({a, b, c}) /\ DOMAIN s = {1, 2, 3} /\ s[1] = a /\ s[2] = b /\ s[3] = c
    OBVIOUS
  <2> HIDE DEF s
  <2>2. Range(s) = {a, b, c}
    BY <2>1 DEF Range
  <2>3. AreLines(s)
    BY <1>3, <2>1, <2>2 DEF AreLines
  <2> QED
    BY <2>3 DEF s
<1> QED
  BY <1>1, <1>2, <1>3

LEMMA LinesAre ==
    ASSUME NEW kind \in DOMAIN Pairings
    PROVE  AreLines(Pairings[kind])
<1>1. /\ AreLines(ADPairs) /\ AreLines(AWSPairs)
      /\ AreLines(CertificatePairs) /\ AreLines(SQLitePairs)
  BY LineIs, ListedLines
     DEF ADPairs, AWSPairs, CertificatePairs, SQLitePairs
<1>2. AreLines(KeyPairs) /\ AreLines(BrowserPairs)
  BY LineIs, ListedLines DEF KeyPairs, BrowserPairs
<1>3. AreLines(WinCredPairs)
  BY LineIs, ListedLines DEF WinCredPairs
<1> QED
  BY <1>1, <1>2, <1>3 DEF Pairings

\* A line is complete in a bucket: each of its roles is there.
CompleteIn(kind, line, bucket) ==
    \A r \in {line.primary} \union Range(line.support) :
        \E g \in Range(bucket) : r \in Roles(kind, g)

LEMMA PairMakes ==
    ASSUME NEW T, NEW bucket \in Seq(T), NEW kind \in DOMAIN Pairings
    PROVE  /\ \A c \in Pair(kind, bucket) :
                 \E p \in Range(bucket), line \in Range(Pairings[kind]) :
                    /\ \E s : c = Correlation(kind, line, p, s)
                    /\ line.primary \in Roles(kind, p) /\ CompleteIn(kind, line, bucket)
           /\ (\E line \in Range(Pairings[kind]) : CompleteIn(kind, line, bucket)) =>
                 Pair(kind, bucket) # {}
           /\ IsFiniteSet(Pair(kind, bucket))
<1> DEFINE all == Pairings[kind]
           in(role) == InRoles(kind, {role}, bucket)
           complete(l) == \A r \in {l.primary} \union Range(l.support) : in(r) # <<>>
           C == {l \in Range(all) : complete(l)}
           lines == Those(all, C)
           line == lines[1]
           p == Anchor(in(line.primary))
           s == Anchor(FlattenSeq([i \in DOMAIN line.support |-> in(line.support[i])]))
<1>1. \A r : in(r) # <<>> <=> \E g \in Range(bucket) : r \in Roles(kind, g)
  <2> TAKE r
  <2>1. in(r) # <<>> <=> \E f \in Range(bucket) : Roles(kind, f) \intersect {r} # {}
    BY InRolesHas
  <2> QED
    BY <2>1
<1>2. \A l : complete(l) <=> CompleteIn(kind, l, bucket)
  BY <1>1 DEF CompleteIn
<1>3. Pair(kind, bucket)
        = IF lines = <<>> THEN {} ELSE {Correlation(kind, line, p, s)}
  BY DEF Pair
<1>4. \A l : l \in C <=> l \in Range(all) /\ CompleteIn(kind, l, bucket)
  BY <1>2
<1> HIDE DEF C, complete
<1>5. lines \in Seq(Range(all)) /\ Range(lines) = Range(all) \intersect C
  BY LinesAre, ThoseHas DEF AreLines
<1>6. lines # <<>> <=> \E l \in Range(all) : CompleteIn(kind, l, bucket)
  <2>1. lines # <<>> <=> \E l : l \in Range(lines)
    BY <1>5 DEF Range
  <2> QED
    BY <1>4, <1>5, <2>1
<1>7. ASSUME lines # <<>>
      PROVE  /\ line \in Range(all) /\ CompleteIn(kind, line, bucket)
             /\ p \in Range(bucket) /\ line.primary \in Roles(kind, p)
  <2>1. line \in Range(lines)
    BY <1>5, <1>7 DEF Range
  <2>2. line \in Range(all) /\ CompleteIn(kind, line, bucket)
    BY <1>4, <1>5, <2>1
  <2>3. in(line.primary) # <<>> /\ in(line.primary) \in Seq(T)
    BY <1>1, <2>2, InRolesHas DEF CompleteIn
  <2>4. p \in Range(in(line.primary))
    BY <2>3, AnchorIs
  <2> HIDE DEF p, line
  <2>5. p \in Range(bucket) /\ Roles(kind, p) \intersect {line.primary} # {}
    BY <2>4, InRolesHas
  <2> QED
    BY <2>2, <2>5
<1> HIDE DEF lines, line, p, s
<1>8. IsFiniteSet(Pair(kind, bucket))
  BY <1>3, FS_EmptySet, FS_Singleton
<1> QED
  BY <1>3, <1>6, <1>7, <1>8

LEMMA HivesListed ==
    ASSUME NEW hives, hives = <<"ntds", "system", "sam", "security">>
    PROVE  hives \in Seq(Range(hives)) /\ Range(hives) = {"ntds", "system", "sam", "security"}
<1>1. hives \in Seq({"ntds", "system", "sam", "security"}) /\ DOMAIN hives = 1..4
  OBVIOUS
<1>2. hives[1] = "ntds" /\ hives[2] = "system" /\ hives[3] = "sam" /\ hives[4] = "security"
  OBVIOUS
<1>3. 1..4 = {1, 2, 3, 4}
  OBVIOUS
<1>4. Range(hives) = {hives[1], hives[2], hives[3], hives[4]}
  BY <1>1, <1>3 DEF Range
<1> QED
  BY <1>1, <1>2, <1>4

LEMMA BackupPairMakes ==
    ASSUME NEW T, NEW bucket \in Seq(T)
    PROVE  /\ \A c \in BackupPair(bucket) :
                 \E p \in Range(bucket) : \E line, s :
                    c = Correlation("backup", line, p, s) /\ line.rank > 0
           /\ IsFiniteSet(BackupPair(bucket))
<1> DEFINE held == UNION {Roles("backup", bucket[i]) : i \in DOMAIN bucket}
           hives == <<"ntds", "system", "sam", "security">>
           order == Those(hives, held)
           in(role) == InRoles("backup", {role}, bucket)
           best == [i \in DOMAIN order |-> Anchor(in(order[i]))]
           p == Anchor(best)
           s == Anchor(Those(InRoles("backup", held, bucket),
                          {f \in Range(bucket) : f.path # p.path \/ f.rule # p.rule}))
           paths == {bucket[i].rule : i \in DOMAIN bucket} \intersect BackupPathRules
           line == Line("", <<>>, "backup-exposure", 4,
                               IF paths = {} THEN 82 ELSE 86, BackupRank(held, paths))
<1>1. BackupPair(bucket)
        = IF Cardinality(held) < 2 THEN {} ELSE {Correlation("backup", line, p, s)}
  BY DEF BackupPair
<1>2. line.rank > 0
  BY DEF Line, BackupRank
<1>3. \A r \in held : \E g \in Range(bucket) : r \in Roles("backup", g)
  BY DEF Range
<1>4. held \subseteq {"ntds", "system", "sam", "security"}
  <2>1. DOMAIN Hives = {"ntds", "system", "sam", "security"}
    BY DEF Hives
  <2>2. \A f : Roles("backup", f) \subseteq DOMAIN Hives
    BY DEF Roles, BackupRoles, HivesNamed
  <2> QED
    BY <2>1, <2>2
<1>5. hives \in Seq(Range(hives)) /\ Range(hives) = {"ntds", "system", "sam", "security"}
  BY HivesListed
<1> HIDE DEF line, held, s, hives
<1>6. order \in Seq(Range(hives)) /\ Range(order) = held
  <2>1. Range(hives) \intersect held = held
    BY <1>4, <1>5
  <2> QED
    BY <1>5, <2>1, ThoseHas
<1>7. ASSUME ~ (Cardinality(held) < 2) PROVE p \in Range(bucket)
  <2>1. held # {}
    <3> SUFFICES ASSUME held = {} PROVE FALSE
      OBVIOUS
    <3>1. Cardinality(held) = 0
      BY FS_EmptySet
    <3> QED
      BY <1>7, <3>1
  <2>2. order # <<>> /\ DOMAIN order = 1..Len(order) /\ Len(order) \in Nat
    BY <1>6, <2>1 DEF Range
  <2> HIDE DEF order
  <2>3. ASSUME NEW i \in DOMAIN order PROVE Anchor(in(order[i])) \in Range(bucket)
    <3>1. order[i] \in held
      BY <1>6, <2>3 DEF Range
    <3>2. \E g \in Range(bucket) : Roles("backup", g) \intersect {order[i]} # {}
      BY <1>3, <3>1
    <3>3. in(order[i]) # <<>> /\ in(order[i]) \in Seq(T)
      BY <3>2, InRolesHas
    <3>4. Anchor(in(order[i])) \in Range(in(order[i]))
      BY <3>3, AnchorIs
    <3> QED
      BY <3>4, InRolesHas
  <2> HIDE DEF in
  <2>4. best \in Seq(Range(bucket)) /\ best # <<>>
    <3>1. best \in [1..Len(order) -> Range(bucket)]
      BY <2>2, <2>3
    <3> HIDE DEF best
    <3>2. Len(order) > 0
      BY <1>6, <2>2
    <3> QED
      BY <2>2, <3>1, <3>2
  <2> HIDE DEF best
  <2>5. p \in Range(best)
    BY <2>4, AnchorIs
  <2> QED
    BY <2>4, <2>5 DEF Range
<1> HIDE DEF p
<1>8. IsFiniteSet(BackupPair(bucket))
  BY <1>1, FS_EmptySet, FS_Singleton
<1> QED
  BY <1>1, <1>2, <1>7, <1>8

\* A finding belongs to one directory, profile or backup, or to none.
LEMMA OneContext ==
    ASSUME NEW kind, NEW f
    PROVE  kind \in Kinds =>
           /\ \A x, y \in Contexts(kind, f) : x = y
           /\ IsFiniteSet(Contexts(kind, f))
<1> SUFFICES ASSUME kind \in Kinds
             PROVE  /\ \A x, y \in Contexts(kind, f) : x = y
                    /\ IsFiniteSet(Contexts(kind, f))
  OBVIOUS
<1>1. \A seq : \A x, y \in FirstOf(seq) : x = y
  BY DEF FirstOf
<1>2. \A path, markers : \A x, y \in Before(path, markers) : x = y
  BY <1>1 DEF Before
<1>3. \A path, markers, more : \A x, y \in UpTo(path, markers, more) : x = y
  BY <1>1 DEF UpTo
<1>4. \A c : \A x, y \in Located(f, {c}) : x = y
  BY DEF Located
<1>5. /\ \A x, y \in ADContexts(f) : x = y
      /\ \A x, y \in AccessContexts(f) : x = y
      /\ \A x, y \in SQLiteContexts(f) : x = y
  BY <1>4 DEF ADContexts, AccessContexts, SQLiteContexts
<1>6. /\ \A x, y \in AWSContexts(f) : x = y
      /\ \A x, y \in BrowserContexts(f) : x = y
      /\ \A x, y \in WinCredContexts(f) : x = y
      /\ \A x, y \in BackupContexts(f) : x = y
  <2>1. \A x, y \in AWSContexts(f) : x = y
    BY <1>2, Zenon DEF AWSContexts, AWSProfile
  <2>2. \A x, y \in WinCredContexts(f) : x = y
    BY <1>2, Zenon DEF WinCredContexts, WinProfile
  <2>3. \A x, y \in BrowserContexts(f) : x = y
    BY <1>3, Zenon DEF BrowserContexts, BrowserProfile
  <2>4. \A x, y \in BackupContexts(f) : x = y
    BY <1>3, Zenon DEF BackupContexts, BackupContext
  <2> QED
    BY <2>1, <2>2, <2>3, <2>4
<1>7. \A x, y \in Contexts(kind, f) : x = y
  BY <1>5, <1>6, KindsAre DEF Contexts
<1>8. Contexts(kind, f) = {} \/ \E x : Contexts(kind, f) = {x}
  <2>1. ASSUME NEW x \in Contexts(kind, f) PROVE Contexts(kind, f) = {x}
    BY <1>7
  <2> QED
    BY <2>1
<1> QED
  BY <1>7, <1>8, FS_EmptySet, FS_Singleton

LEMMA FiniteImage ==
    ASSUME NEW S, IsFiniteSet(S), NEW F
    PROVE  IsFiniteSet({F[x] : x \in S})
<1> DEFINE T == {F[x] : x \in S}
           g == [x \in S |-> F[x]]
<1>1. g \in Surjection(S, T)
  BY DEF Surjection
<1> QED
  BY <1>1, FS_Surjection

BucketOf(kind, seq, key) ==
    Those(seq, {f \in Range(seq) : key \in Buckets(kind, f)})
BuiltFrom(kind, bucket) ==
    IF kind = "backup" THEN BackupPair(bucket) ELSE Pair(kind, bucket)
KeysOf(kind, seq) == UNION {Buckets(kind, seq[i]) : i \in DOMAIN seq}

LEMMA CorrelateIs ==
    ASSUME NEW kind, NEW seq
    PROVE  /\ Correlate(kind, seq)
                = UNION {BuiltFrom(kind, BucketOf(kind, seq, key)) : key \in KeysOf(kind, seq)}
           /\ \A c : c \in Correlate(kind, seq) <=>
                 \E key \in KeysOf(kind, seq) : c \in BuiltFrom(kind, BucketOf(kind, seq, key))
<1>1. Correlate(kind, seq)
        = UNION {BuiltFrom(kind, BucketOf(kind, seq, key)) : key \in KeysOf(kind, seq)}
  BY DEF Correlate, BuiltFrom, BucketOf, KeysOf
<1> QED
  BY <1>1

LEMMA BucketHas ==
    ASSUME NEW T, NEW seq \in Seq(T), NEW kind, NEW key
    PROVE  /\ BucketOf(kind, seq, key) \in Seq(T)
           /\ \A g : g \in Range(BucketOf(kind, seq, key)) <=>
                        g \in Range(seq) /\ key \in Buckets(kind, g)
<1> DEFINE S == {f \in Range(seq) : key \in Buckets(kind, f)}
<1>1. \A g : g \in S <=> g \in Range(seq) /\ key \in Buckets(kind, g)
  OBVIOUS
<1>2. BucketOf(kind, seq, key) = Those(seq, S)
  BY DEF BucketOf
<1> HIDE DEF S
<1>3. /\ Those(seq, S) \in Seq(T)
      /\ Range(Those(seq, S)) = Range(seq) \intersect S
  BY ThoseHas
<1> QED
  BY <1>1, <1>2, <1>3

\* What the correlations build from: findings that are none of them.
IsFinding(f) == IdentityFields \subseteq DOMAIN f /\ f.rule \notin CorrelationRules
AreFindings(seq) == \A f \in Range(seq) : IsFinding(f)

LEMMA BuiltStandsFor ==
    ASSUME NEW T, NEW seq \in Seq(T), AreFindings(seq), NEW kind \in Kinds, NEW key,
           NEW c \in BuiltFrom(kind, BucketOf(kind, seq, key))
    PROVE  \E p \in Range(seq) :
              /\ StandsFor(kind, c, p) /\ key \in Buckets(kind, p)
              /\ kind # "backup" => \E line \in Range(Pairings[kind]) :
                     line.primary \in Roles(kind, p)
                     /\ CompleteIn(kind, line, BucketOf(kind, seq, key))
<1> DEFINE bucket == BucketOf(kind, seq, key)
<1>1. /\ bucket \in Seq(T)
      /\ \A g \in Range(bucket) : /\ g \in Range(seq) /\ key \in Buckets(kind, g)
                                  /\ IdentityFields \subseteq DOMAIN g
  BY BucketHas DEF AreFindings, IsFinding
<1> HIDE DEF bucket
<1>2. CASE kind = "backup"
  <2>1. PICK p \in Range(bucket) : \E line, s :
            c = Correlation("backup", line, p, s) /\ line.rank > 0
    BY <1>1, <1>2, BackupPairMakes DEF BuiltFrom, bucket
  <2>2. StandsFor("backup", c, p)
    BY <1>1, <2>1, CorrelationHas
  <2> QED
    BY <1>1, <1>2, <2>2
<1>3. CASE kind # "backup"
  <2>1. kind \in DOMAIN Pairings
    BY <1>3, KindsAre
  <2>2. c \in Pair(kind, bucket)
    BY <1>3 DEF BuiltFrom, bucket
  <2>3. PICK p \in Range(bucket), line \in Range(Pairings[kind]) :
            /\ \E s : c = Correlation(kind, line, p, s)
            /\ line.primary \in Roles(kind, p) /\ CompleteIn(kind, line, bucket)
    BY <1>1, <2>1, <2>2, PairMakes
  <2>4. line.rank > 0
    BY <2>1, LinesAre DEF AreLines, IsLine
  <2>5. StandsFor(kind, c, p)
    BY <1>1, <2>3, <2>4, CorrelationHas
  <2> QED
    BY <1>1, <2>3, <2>5 DEF bucket
<1> QED
  BY <1>2, <1>3

LEMMA MadeStandsFor ==
    ASSUME NEW T, NEW seq \in Seq(T), AreFindings(seq), NEW c \in Made(seq)
    PROVE  \E kind \in Kinds, p \in Range(seq) :
              StandsFor(kind, c, p) /\ c \in Correlate(kind, seq)
<1>1. PICK kind \in Kinds : c \in Correlate(kind, seq)
  BY DEF Made
<1>2. PICK key : c \in BuiltFrom(kind, BucketOf(kind, seq, key))
  BY <1>1, CorrelateIs
<1> QED
  BY <1>1, <1>2, BuiltStandsFor

LEMMA MadeIsFinite ==
    ASSUME NEW T, NEW seq \in Seq(T)
    PROVE  IsFiniteSet(Made(seq))
<1>1. ASSUME NEW kind \in Kinds PROVE IsFiniteSet(Correlate(kind, seq))
  <2>1. \A f : IsFiniteSet(Buckets(kind, f))
    <3> TAKE f
    <3> DEFINE F == [x \in Contexts(kind, f) |-> <<f.host, f.share, x>>]
    <3>1. IsFiniteSet({F[x] : x \in Contexts(kind, f)})
      <4> HIDE DEF F
      <4> QED
        BY OneContext, FiniteImage
    <3> QED
      BY <3>1 DEF Buckets
  <2>2. IsFiniteSet(KeysOf(kind, seq))
    <3> DEFINE F == [i \in DOMAIN seq |-> Buckets(kind, seq[i])]
               S == {F[i] : i \in DOMAIN seq}
    <3>1. IsFiniteSet(DOMAIN seq)
      BY FS_Interval
    <3>2. KeysOf(kind, seq) = UNION S
      BY DEF KeysOf
    <3>3. \A K \in S : IsFiniteSet(K)
      BY <2>1
    <3>4. IsFiniteSet(S)
      <4> HIDE DEF F
      <4> QED
        BY <3>1, FiniteImage
    <3> HIDE DEF S
    <3> QED
      BY <3>2, <3>3, <3>4, FS_UNION
  <2>3. ASSUME NEW key PROVE IsFiniteSet(BuiltFrom(kind, BucketOf(kind, seq, key)))
    <3>1. BucketOf(kind, seq, key) \in Seq(T)
      BY BucketHas
    <3>2. kind # "backup" => kind \in DOMAIN Pairings
      BY KindsAre
    <3> QED
      BY <3>1, <3>2, PairMakes, BackupPairMakes DEF BuiltFrom
  <2> DEFINE F == [key \in KeysOf(kind, seq) |-> BuiltFrom(kind, BucketOf(kind, seq, key))]
             S == {F[key] : key \in KeysOf(kind, seq)}
  <2>4. Correlate(kind, seq) = UNION S
    BY CorrelateIs
  <2>5. \A K \in S : IsFiniteSet(K)
    BY <2>3
  <2>6. IsFiniteSet(S)
    <3> HIDE DEF F
    <3> QED
      BY <2>2, FiniteImage
  <2> HIDE DEF S
  <2> QED
    BY <2>4, <2>5, <2>6, FS_UNION
<1>2. IsFiniteSet(Kinds)
  <2>1. Kinds = {"ad"} \union {"aws"} \union {"key"} \union {"certificate"}
            \union {"browser"} \union {"wincred"} \union {"sqlite"} \union {"backup"}
    BY KindsAre
  <2> QED
    BY <2>1, FS_Union, FS_Singleton
<1> DEFINE F == [kind \in Kinds |-> Correlate(kind, seq)]
           S == {F[kind] : kind \in Kinds}
<1>3. Made(seq) = UNION S
  BY DEF Made
<1>4. \A K \in S : IsFiniteSet(K)
  BY <1>1
<1>5. IsFiniteSet(S)
  <2> HIDE DEF F
  <2> QED
    BY <1>2, FiniteImage
<1> HIDE DEF S
<1> QED
  BY <1>3, <1>4, <1>5, FS_UNION

LEMMA RulesTellApart ==
    ASSUME NEW T, NEW merged \in Seq(T), AreFindings(merged)
    PROVE  /\ \A c \in Made(merged) : c.rule \in CorrelationRules
           /\ \A f \in Range(merged) : f.rule \notin CorrelationRules
<1>1. ASSUME NEW c \in Made(merged) PROVE c.rule \in CorrelationRules
  <2>1. PICK kind \in Kinds : c.rule = CorrelationRule[kind]
    BY MadeStandsFor DEF StandsFor
  <2> QED
    BY <2>1, KindsAre DEF CorrelationRules, Range
<1> QED
  BY <1>1 DEF AreFindings, IsFinding

LEMMA AugmentHas ==
    ASSUME NEW T, NEW merged \in Seq(T), AreFindings(merged)
    PROVE  /\ IsFiniteSet(Augment(merged))
           /\ \A g \in Augment(merged) : g \in Range(merged) \/ g \in Made(merged)
           /\ \A c \in Made(merged) : \E g \in Augment(merged) :
                 g \in Made(merged) /\ DedupKey(g) = DedupKey(c)
           /\ (\A f, g \in Range(merged) : DedupKey(f) = DedupKey(g) => f = g)
                 => Range(merged) \subseteq Augment(merged)
<1> DEFINE known == {CorrelationKey(merged[i]) : i \in DOMAIN merged}
           new == {f \in Made(merged) : CorrelationKey(f) \notin known}
           added == SetToSeq(new)
           seq == merged \o added
           U == Range(merged) \union new
<1>1. Augment(merged) = Dedupe(seq)
  BY DEF Augment, Made
<1>2. new = Made(merged)
  <2>1. ASSUME NEW c \in Made(merged), NEW i \in DOMAIN merged
        PROVE  CorrelationKey(c) # CorrelationKey(merged[i])
    <3>1. c.rule # merged[i].rule
      BY RulesTellApart DEF Range
    <3> QED
      BY <3>1 DEF CorrelationKey
  <2> QED
    BY <2>1
<1>3. IsFiniteSet(new)
  BY <1>2, MadeIsFinite
<1> HIDE DEF new
<1>4. added \in Seq(new) /\ Range(added) = new
  BY <1>3, SetToSeqHas
<1> HIDE DEF added
<1>5. seq \in Seq(U) /\ Range(seq) = U
  <2>1. merged \in Seq(U) /\ added \in Seq(U)
    BY <1>4 DEF Range
  <2>2. /\ Len(seq) = Len(merged) + Len(added) /\ seq \in Seq(U)
        /\ \A i \in 1..Len(merged) : seq[i] = merged[i]
        /\ \A i \in 1..Len(added) : seq[i + Len(merged)] = added[i]
        /\ Len(merged) \in Nat /\ Len(added) \in Nat
        /\ DOMAIN merged = 1..Len(merged) /\ DOMAIN added = 1..Len(added)
        /\ DOMAIN seq = 1..Len(seq)
    BY <2>1
  <2> HIDE DEF seq, U
  <2>3. ASSUME NEW x \in Range(merged) PROVE x \in Range(seq)
    <3>1. PICK i \in 1..Len(merged) : x = merged[i]
      BY <2>2 DEF Range
    <3> QED
      BY <2>2, <3>1 DEF Range
  <2>4. ASSUME NEW x \in Range(added) PROVE x \in Range(seq)
    <3>1. PICK i \in 1..Len(added) : x = added[i]
      BY <2>2 DEF Range
    <3>2. i + Len(merged) \in DOMAIN seq
      BY <2>2
    <3> QED
      BY <2>2, <3>1, <3>2 DEF Range
  <2>5. Range(seq) \subseteq U
    BY <2>2 DEF Range
  <2>6. U \subseteq Range(seq)
    BY <1>4, <2>3, <2>4 DEF U
  <2> QED
    BY <2>2, <2>5, <2>6
<1> HIDE DEF seq
<1>6. /\ Dedupe(seq) \subseteq U /\ IsFiniteSet(Dedupe(seq))
      /\ \A f \in U : \E g \in Dedupe(seq) : DedupKey(g) = DedupKey(f)
  BY <1>5, DedupeKeepsOneEach
<1>7. \A f, g : DedupKey(f) = DedupKey(g) => f.rule = g.rule
  BY DEF DedupKey
<1>8. ASSUME NEW c \in Made(merged)
      PROVE  \E g \in Dedupe(seq) :
                g \in Made(merged) /\ DedupKey(g) = DedupKey(c)
  <2>1. PICK g \in Dedupe(seq) : DedupKey(g) = DedupKey(c)
    BY <1>2, <1>6
  <2>2. g.rule = c.rule
    BY <1>7, <2>1
  <2>3. g \notin Range(merged)
    BY <2>2, RulesTellApart
  <2> QED
    BY <1>2, <1>6, <2>1, <2>3
<1>9. ASSUME NEW f \in Range(merged),
             \A h, g \in Range(merged) : DedupKey(h) = DedupKey(g) => h = g
      PROVE  f \in Dedupe(seq)
  <2>1. PICK g \in Dedupe(seq) : DedupKey(g) = DedupKey(f)
    BY <1>6
  <2>2. g.rule = f.rule
    BY <1>7, <2>1
  <2>3. g \notin Made(merged)
    BY <2>2, RulesTellApart
  <2>4. g \in Range(merged)
    BY <1>2, <1>6, <2>3
  <2> QED
    BY <1>9, <2>1, <2>4
<1> QED
  BY <1>1, <1>2, <1>6, <1>8, <1>9

LEMMA SameBucketIsTogether ==
    ASSUME NEW kind, NEW f, NEW g, NEW key,
           key \in Buckets(kind, f), key \in Buckets(kind, g)
    PROVE  Together(kind, f, g)
<1>1. PICK x \in Contexts(kind, f) : key = <<f.host, f.share, x>>
  BY DEF Buckets
<1>2. PICK y \in Contexts(kind, g) : key = <<g.host, g.share, y>>
  BY DEF Buckets
<1>3. f.host = g.host /\ f.share = g.share /\ x = y
  BY <1>1, <1>2
<1> QED
  BY <1>1, <1>2, <1>3 DEF Together

LEMMA TogetherIsSameBucket ==
    ASSUME NEW kind \in Kinds, NEW f, NEW g, Together(kind, f, g), NEW key,
           key \in Buckets(kind, f)
    PROVE  key \in Buckets(kind, g)
<1>1. PICK x \in Contexts(kind, f) : key = <<f.host, f.share, x>>
  BY DEF Buckets
<1>2. PICK y : y \in Contexts(kind, f) /\ y \in Contexts(kind, g)
  BY DEF Together
<1>3. x = y
  BY <1>1, <1>2, OneContext
<1> QED
  BY <1>1, <1>2, <1>3 DEF Together, Buckets

\* What is made of a pair stands for a finding around which the pair is complete.
LEMMA MadeIsComplete ==
    ASSUME NEW T, NEW seq \in Seq(T), AreFindings(seq), NEW kind \in PairedKinds,
           NEW c \in Made(seq), c.rule = CorrelationRule[kind]
    PROVE  \E f \in Range(seq) :
              /\ f.host = c.host /\ f.share = c.share /\ f.path = c.path
              /\ \E line \in Range(Pairings[kind]) :
                    Completes(kind, f, line, Range(seq))
<1>0. kind \in Kinds /\ kind # "backup"
  BY KindsAre DEF PairedKinds
<1>1. PICK k \in Kinds, q \in Range(seq) :
          StandsFor(k, c, q) /\ c \in Correlate(k, seq)
  BY MadeStandsFor
<1>2. k = kind
  BY <1>0, <1>1, RulesDiffer DEF StandsFor
<1>3. PICK key : c \in BuiltFrom(kind, BucketOf(kind, seq, key))
  BY <1>1, <1>2, CorrelateIs
<1>4. PICK p \in Range(seq) :
          /\ StandsFor(kind, c, p) /\ key \in Buckets(kind, p)
          /\ \E line \in Range(Pairings[kind]) :
                 line.primary \in Roles(kind, p)
                 /\ CompleteIn(kind, line, BucketOf(kind, seq, key))
  BY <1>0, <1>3, BuiltStandsFor
<1>5. PICK line \in Range(Pairings[kind]) :
          line.primary \in Roles(kind, p)
          /\ CompleteIn(kind, line, BucketOf(kind, seq, key))
  BY <1>4
<1>6. ASSUME NEW r \in Range(line.support)
      PROVE  \E g \in Range(seq) : Together(kind, p, g) /\ r \in Roles(kind, g)
  <2>1. PICK g \in Range(BucketOf(kind, seq, key)) : r \in Roles(kind, g)
    BY <1>5 DEF CompleteIn
  <2>2. g \in Range(seq) /\ key \in Buckets(kind, g)
    BY BucketHas
  <2> QED
    BY <1>4, <2>1, <2>2, SameBucketIsTogether
<1>7. Completes(kind, p, line, Range(seq))
  BY <1>5, <1>6 DEF Completes
<1>8. p.host = c.host /\ p.share = c.share /\ p.path = c.path
  BY <1>4 DEF StandsFor
<1> QED
  BY <1>5, <1>7, <1>8

\* A pair that is complete around a finding is made, of one of those that are together.
LEMMA CompleteIsMade ==
    ASSUME NEW T, NEW seq \in Seq(T), AreFindings(seq), NEW kind \in PairedKinds,
           NEW f \in Range(seq), NEW line \in Range(Pairings[kind]),
           Completes(kind, f, line, Range(seq))
    PROVE  \E c \in Made(seq), g \in Range(seq) :
              StandsFor(kind, c, g) /\ Together(kind, f, g)
<1>0. kind \in Kinds /\ kind # "backup"
  BY KindsAre DEF PairedKinds
<1>1. \E x : x \in Contexts(kind, f)
  <2>1. \E r : r \in Range(line.support)
    BY LinesAre DEF AreLines, IsLine, PairedKinds
  <2>2. \E g : Together(kind, f, g)
    BY <2>1 DEF Completes
  <2> QED
    BY <2>2 DEF Together
<1>2. PICK key : key \in Buckets(kind, f)
  BY <1>1 DEF Buckets
<1> DEFINE bucket == BucketOf(kind, seq, key)
<1>3. \A g : g \in Range(bucket) <=>
                g \in Range(seq) /\ key \in Buckets(kind, g)
  BY BucketHas
<1>4. CompleteIn(kind, line, bucket)
  <2>1. f \in Range(bucket)
    BY <1>2, <1>3
  <2>2. ASSUME NEW r \in Range(line.support)
        PROVE  \E g \in Range(bucket) : r \in Roles(kind, g)
    <3>1. PICK g \in Range(seq) : Together(kind, f, g) /\ r \in Roles(kind, g)
      BY DEF Completes
    <3>2. key \in Buckets(kind, g)
      BY <1>0, <1>2, <3>1, TogetherIsSameBucket
    <3> QED
      BY <1>3, <3>1, <3>2
  <2> HIDE DEF bucket
  <2> QED
    BY <2>1, <2>2 DEF CompleteIn, Completes
<1>5. PICK c : c \in BuiltFrom(kind, bucket)
  <2>1. bucket \in Seq(T)
    BY BucketHas
  <2> HIDE DEF bucket
  <2>2. Pair(kind, bucket) # {}
    BY <1>4, <2>1, PairMakes DEF PairedKinds
  <2> QED
    BY <1>0, <2>2 DEF BuiltFrom
<1>6. PICK p \in Range(seq) : StandsFor(kind, c, p) /\ key \in Buckets(kind, p)
  BY <1>0, <1>5, BuiltStandsFor
<1>7. c \in Made(seq)
  <2>1. key \in KeysOf(kind, seq)
    BY <1>2 DEF KeysOf, Range
  <2>2. c \in Correlate(kind, seq)
    BY <1>5, <2>1, CorrelateIs
  <2> QED
    BY <1>0, <2>2 DEF Made
<1>8. Together(kind, f, p)
  BY <1>2, <1>6, SameBucketIsTogether
<1> QED
  BY <1>6, <1>7, <1>8

\* The writers meet the merged findings in an order of their own, each of them once.
LEMMA MergedAre ==
    ASSUME NEW findings, IsList(findings), AreFindings(findings),
           NEW html \in SetToSeqs(Dedupe(findings))
    PROVE  /\ html \in Seq(Dedupe(findings))
           /\ Range(html) = Dedupe(findings)
           /\ AreFindings(html)
           /\ \A f, g \in Range(html) : DedupKey(f) = DedupKey(g) => f = g
<1> DEFINE S == Dedupe(findings)
<1>1. /\ S \subseteq Range(findings) /\ IsFiniteSet(S)
      /\ \A f, g \in S : DedupKey(f) = DedupKey(g) => f = g
  BY DedupeKeepsOneEach DEF IsList
<1>2. /\ html \in [1..Cardinality(S) -> S]
      /\ \A i, j \in 1..Cardinality(S) : html[i] = html[j] => i = j
  BY DEF SetToSeqs
<1> HIDE DEF S
<1>3. html \in Seq(S) /\ Range(html) = S
  BY <1>1, <1>2, Enumerates
<1> QED
  BY <1>1, <1>3 DEF AreFindings, S

LEMMA CorrelationsAreExact ==
    ASSUME NEW findings, IsList(findings), AreFindings(findings),
           NEW html \in SetToSeqs(Dedupe(findings))
    PROVE  LET found == Dedupe(findings)
               all == Augment(html)
               of(kind) == {c \in all : c.rule = CorrelationRule[kind]} IN
           \A kind \in PairedKinds :
            /\ \A c \in of(kind) : \E f \in found :
                  /\ f.host = c.host /\ f.share = c.share /\ f.path = c.path
                  /\ \E line \in Range(Pairings[kind]) : Completes(kind, f, line, found)
            /\ \A f \in found :
                  (\E line \in Range(Pairings[kind]) : Completes(kind, f, line, found)) =>
                      /\ \E c \in of(kind), g \in found :
                            Together(kind, f, g) /\ c.host = g.host /\ c.share = g.share /\ c.path = g.path
                      /\ AccessPaths(all) \intersect of(kind) # {}
<1> DEFINE found == Dedupe(findings)
           all == Augment(html)
           of(kind) == {c \in all : c.rule = CorrelationRule[kind]}
<1>1. html \in Seq(found) /\ Range(html) = found /\ AreFindings(html)
  BY MergedAre
<1>2. \A kind \in PairedKinds : kind \in Kinds
  BY KindsAre DEF PairedKinds
<1>3. /\ \A g \in all : g \in found \/ g \in Made(html)
      /\ \A c \in Made(html) : \E g \in all :
            g \in Made(html) /\ DedupKey(g) = DedupKey(c)
  BY <1>1, AugmentHas
<1> HIDE DEF found, all
<1>4. ASSUME NEW kind \in PairedKinds, NEW c \in of(kind)
      PROVE  \E f \in found :
                /\ f.host = c.host /\ f.share = c.share /\ f.path = c.path
                /\ \E line \in Range(Pairings[kind]) : Completes(kind, f, line, found)
  <2>1. c.rule = CorrelationRule[kind] /\ c \in all
    OBVIOUS
  <2>2. c.rule \in CorrelationRules
    BY <1>2, <2>1, KindsAre DEF CorrelationRules, Range
  <2>3. c \notin found
    BY <2>2, <1>1 DEF AreFindings, IsFinding
  <2>4. c \in Made(html)
    BY <1>3, <2>1, <2>3
  <2> QED
    BY <1>1, <2>1, <2>4, MadeIsComplete
<1>5. ASSUME NEW kind \in PairedKinds, NEW f \in found,
             NEW line \in Range(Pairings[kind]), Completes(kind, f, line, found)
      PROVE  /\ \E c \in of(kind), g \in found :
                   Together(kind, f, g) /\ c.host = g.host /\ c.share = g.share /\ c.path = g.path
             /\ AccessPaths(all) \intersect of(kind) # {}
  <2>1. PICK m \in Made(html), g \in found : StandsFor(kind, m, g) /\ Together(kind, f, g)
    BY <1>1, <1>5, CompleteIsMade
  <2>2. PICK c \in all : c \in Made(html) /\ DedupKey(c) = DedupKey(m)
    BY <1>3
  <2>3. c.rule = m.rule /\ c.host = m.host /\ c.share = m.share /\ c.path = m.path
    BY <2>2 DEF DedupKey
  <2>4. c \in of(kind) /\ c.host = g.host /\ c.share = g.share /\ c.path = g.path
    BY <2>1, <2>3 DEF StandsFor
  <2>5. c.correlated /\ c.rank > 0
    BY <1>1, <2>2, MadeStandsFor DEF StandsFor
  <2> HIDE DEF of
  <2>6. c \in AccessPaths(all)
    BY <2>5 DEF AccessPaths
  <2> QED
    BY <2>1, <2>4, <2>6
<1> QED
  BY <1>4, <1>5 DEF found, all

LEMMA ActionableAreShown ==
    ASSUME NEW findings, IsList(findings), AreFindings(findings),
           NEW html \in SetToSeqs(Dedupe(findings)),
           NEW f \in Augment(html), f.actionable
    PROVE  \E e \in PrimaryEntries(SetToSeq(Augment(html))) :
               Location(f) \in e.places
<1> DEFINE all == Augment(html)
<1>1. IsFiniteSet(all)
  BY MergedAre, AugmentHas
<1>2. SetToSeq(all) \in Seq(all) /\ Range(SetToSeq(all)) = all
  BY <1>1, SetToSeqHas
<1> QED
  BY <1>2, ActionableHasEntry

LEMMA FirstThree ==
    ASSUME NEW a, NEW b, NEW c, NEW d, NEW e, NEW f, NEW g
    PROVE  SubSeq(<<a, b, c, d, e, f, g>>, 1, 3) = <<a, b, c>>
<1> DEFINE T == {a, b, c, d, e, f, g}
           s == <<a, b, c, d, e, f, g>>
<1>1. s \in Seq(T) /\ Len(s) = 7
  OBVIOUS
<1>2. s[1] = a /\ s[2] = b /\ s[3] = c
  OBVIOUS
<1> HIDE DEF s
<1> DEFINE r == SubSeq(s, 1, 3)
           t == <<a, b, c>>
<1>3. r \in Seq(T) /\ Len(r) = 3 /\ \A i \in 1..3 : r[i] = s[i]
  <2> HIDE DEF T
  <2>1. /\ 3 >= 1 /\ 3 - 1 + 1 = 3
        /\ \A i \in 1..3 : i \in 1..Len(s) /\ 1 + i - 1 = i
    BY <1>1
  <2> QED
    BY <1>1, <2>1, SubSeqProperties
<1>4. t \in Seq(T) /\ Len(t) = 3 /\ t[1] = a /\ t[2] = b /\ t[3] = c
  OBVIOUS
<1> HIDE DEF r, t
<1>5. \A i \in 1..3 : r[i] = t[i]
  BY <1>2, <1>3, <1>4
<1>6. r = t
  BY <1>3, <1>4, <1>5, SeqEqual
<1> QED
  BY <1>6 DEF r, s, t

LEMMA ExportedAreShown ==
    ASSUME NEW findings, IsList(findings), AreFindings(findings),
           NEW html \in SetToSeqs(Dedupe(findings)),
           NEW creds \in SetToSeqs(Dedupe(findings)),
           NEW entry \in CredentialEntries(Augment(creds)),
           NEW path \in entry.paths
    PROVE  \E e \in PrimaryEntries(SetToSeq(Augment(html))) :
               \E l \in e.places : SubSeq(l, 1, 3) = path
<1>1. PICK g \in Augment(creds) :
          ExportsSecret(g) /\ path = <<g.host, g.share, g.path>>
  BY DEF CredentialEntries
<1>2. g.actionable /\ g.rule \in ExportRules
  BY <1>1 DEF ExportsSecret, Exportable, IsPrimaryLive
<1>3. g.rule \notin CorrelationRules
  BY <1>2, KindsAre
     DEF ExportRules, PasswordRules, CorrelationRules, Range,
         CorrelationRule
<1>4. g \in Range(creds)
  <2>1. creds \in Seq(Dedupe(findings)) /\ AreFindings(creds)
    BY MergedAre
  <2>2. g \in Range(creds) \/ g \in Made(creds)
    BY <2>1, AugmentHas
  <2> QED
    BY <1>3, <2>1, <2>2, RulesTellApart
<1>5. g \in Augment(html)
  BY <1>4, MergedAre, AugmentHas
<1>6. PICK e \in PrimaryEntries(SetToSeq(Augment(html))) :
          Location(g) \in e.places
  BY <1>2, <1>5, ActionableAreShown
<1>7. SubSeq(Location(g), 1, 3) = <<g.host, g.share, g.path>>
  BY FirstThree DEF Location
<1> QED
  BY <1>1, <1>6, <1>7

-------------------------------------------------------------------------------
(***************************************************************************)
(* What is planted, and what a scan finds of it.                           *)
(***************************************************************************)
LEMMA SeedCount == ASSUME NEW S PROVE Count(S) = Cardinality(S)
BY DEF Count, Cardinality

\* uniqueSeedFilename: the name it gives is free.
LEMMA NumberedIsFree ==
    ASSUME NEW name, NEW taken, IsFiniteSet(taken), NEW dir
    PROVE  /\ Numbered(name, taken, dir) \in Nat
           /\ <<dir, name, Numbered(name, taken, dir)>> \notin taken
<1> DEFINE c == Cardinality(taken)
           Free(k) == <<dir, name, k>> \notin taken
<1>1. c \in Nat
  BY FS_CardinalityType
<1>2. CASE Free(1)
  BY <1>2 DEF Numbered
<1>3. CASE ~Free(1)
  <2>1. \E k \in 2..(c + 2) : Free(k)
    <3> SUFFICES ASSUME \A k \in 2..(c + 2) : ~Free(k) PROVE FALSE
      OBVIOUS
    <3> DEFINE D == 2..(c + 2)
               g == [k \in D |-> <<dir, name, k>>]
    <3>1. g \in [D -> taken] /\ \A j, k \in D : g[j] = g[k] => j = k
      OBVIOUS
    <3>2. IsFiniteSet(D) /\ Cardinality(D) = c + 1
      <4> HIDE DEF c
      <4> QED
        BY <1>1, FS_Interval
    <3> HIDE DEF D, g
    <3>3. \E j, k \in D : j # k /\ g[j] = g[k]
      BY <1>1, <3>1, <3>2, FS_PigeonHole
    <3> QED
      BY <3>1, <3>3
  <2> DEFINE S == {k \in 2..(c + 2) : Free(k)}
             R == OpToRel(<, Nat)
  <2>2. S \subseteq Nat /\ S # {}
    <3> HIDE DEF c, Free
    <3> QED
      BY <1>1, <2>1
  <2>3. IsWellFoundedOn(R, Nat)
    BY NatLessThanWellFounded
  <2>4. \A x, y \in Nat : x < y => <<x, y>> \in R
    BY DEF OpToRel
  <2> HIDE DEF R
  <2>5. PICK k \in S : \A y \in S : ~ (<<y, k>> \in R)
    <3> HIDE DEF S
    <3> QED
      BY <2>2, <2>3, WFMin
  <2>6. \A m \in 2..(k - 1) : ~Free(m)
    <3> HIDE DEF Free, c
    <3>1. ASSUME NEW m \in 2..(k - 1), Free(m) PROVE FALSE
      <4>1. m \in S /\ m < k /\ m \in Nat /\ k \in Nat
        BY <1>1, <3>1
      <4> QED
        BY <2>4, <2>5, <4>1
    <3> QED
      BY <3>1
  <2>7. \E x \in 2..(Count(taken) + 2) :
            <<dir, name, x>> \notin taken /\ \A m \in 2..(x - 1) : <<dir, name, m>> \in taken
    BY <2>5, <2>6, SeedCount
  <2> DEFINE x == CHOOSE y \in 2..(Count(taken) + 2) :
                     /\ <<dir, name, y>> \notin taken
                     /\ \A m \in 2..(y - 1) : <<dir, name, m>> \in taken
  <2>8. Numbered(name, taken, dir) = x
    BY <1>3 DEF Numbered
  <2>9. x \in 2..(Count(taken) + 2) /\ <<dir, name, x>> \notin taken
    BY <2>7, Zenon
  <2>10. x \in Nat
    <3> HIDE DEF x
    <3>1. Count(taken) \in Nat
      BY <1>1, SeedCount
    <3> QED
      BY <2>9, <3>1
  <2> QED
    BY <2>8, <2>9, <2>10
<1> QED
  BY <1>2, <1>3

LEMMA SeedRangeIsFinite == ASSUME NEW T, NEW x \in Seq(T) PROVE IsFiniteSet(Range(x))
<1> DEFINE R == Range(x)
<1>1. Len(x) \in Nat /\ DOMAIN x = 1..Len(x)
  OBVIOUS
<1>2. R = {x[i] : i \in 1..Len(x)}
  BY <1>1 DEF Range
<1>3. IsFiniteSet(1..Len(x))
  BY <1>1, FS_Interval
<1> DEFINE g == [i \in 1..Len(x) |-> x[i]]
<1>4. g \in Surjection(1..Len(x), R)
  BY <1>2 DEF Surjection
<1> HIDE DEF g, R
<1>5. IsFiniteSet(R)
  BY <1>3, <1>4, FS_Surjection
<1> QED
  BY <1>5 DEF R

LEMMA OnceMore ==
    ASSUME NEW T, NEW v \in Seq(T), NEW y \in T,
           \A i, j \in 1..Len(v) : v[i] = v[j] => i = j, \A j \in 1..Len(v) : v[j] # y
    PROVE  \A i, j \in 1..Len(Append(v, y)) : Append(v, y)[i] = Append(v, y)[j] => i = j
<1> DEFINE a == Append(v, y)
<1>1. Len(v) \in Nat /\ Len(a) = Len(v) + 1
  OBVIOUS
<1>2. \A i \in 1..Len(v) : a[i] = v[i]
  OBVIOUS
<1>3. a[Len(v) + 1] = y
  OBVIOUS
<1> HIDE DEF a
<1>4. \A i, j \in 1..Len(a) : a[i] = a[j] => i = j
  <2> SUFFICES ASSUME NEW i \in 1..Len(a), NEW j \in 1..Len(a), a[i] = a[j] PROVE i = j
    OBVIOUS
  <2>1. i \in 1..Len(v) \/ i = Len(v) + 1
    BY <1>1
  <2>2. j \in 1..Len(v) \/ j = Len(v) + 1
    BY <1>1
  <2> QED
    BY <1>2, <1>3, <2>1, <2>2
<1> QED
  BY <1>4 DEF a

\* Generate: no file is planted twice.
LEMMA PlantedOnce ==
    ASSUME NEW specs, NEW per, NEW most, NEW pick, Len(specs) * per \in Nat
    PROVE  LET files == Generate(specs, per, most, pick) IN
           \E Y : /\ files \in Seq(Y)
                  /\ \A y \in Y : \E d, v, k : y = <<d, v, k>>
                  /\ \A i, j \in 1..Len(files) : files[i] = files[j] => i = j
<1> DEFINE n == Len(specs) * per
           spec(i) == specs[1 + ((i - 1) \div per)]
           index(i) == (i - 1) % per
           dir(i) == spec(i).dirs[1 + (index(i) % Len(spec(i).dirs))]
           variant(i) == IF index(i) < Len(spec(i).variants) THEN spec(i).variants[index(i) + 1]
                         ELSE spec(i).variants[1 + (pick % Len(spec(i).variants))]
           add(files, i) ==
               IF Len(files) >= most \/ spec(i).variants = <<>> THEN files
               ELSE Append(files, <<dir(i), variant(i),
                                    Numbered(variant(i), Range(files), dir(i))>>)
           seq == [i \in 1..n |-> i]
           Y == {dir(i) : i \in 1..n} \X {variant(i) : i \in 1..n} \X Nat
           max == [s \in SUBSET (1..n) |-> Max(s)]
           op == [p \in Seq(Y) \X (1..n) |-> add(p[1], p[2])]
           Runs(f) == f = [s \in SUBSET (1..n) |->
                               IF s = {} THEN <<>>
                               ELSE add(f[s \ {Max(s)}], seq[Max(s)])]
           iter == CHOOSE f : Runs(f)
           files == Generate(specs, per, most, pick)
<1>1. n \in Nat /\ DOMAIN seq = 1..n /\ \A i \in 1..n : seq[i] = i
  OBVIOUS
<1>2. files = iter[1..n]
  <2> HIDE DEF spec, index
  <2>1. files = FoldLeft(add, <<>>, seq)
    BY DEF Generate, spec, index
  <2> QED
    BY <1>1, <2>1 DEF FoldLeft, MapThenFoldSet
<1>3. IsLast(max, n)
  <2> HIDE DEF n
  <2> QED
    BY GreatestOf, <1>1 DEF IsLast
<1> HIDE DEF n, spec, index, seq
<1>4. ASSUME NEW x \in Seq(Y), NEW i \in 1..n
      PROVE  /\ add(x, i) \in Seq(Y)
             /\ add(x, i) = x \/ \E y \in Y : add(x, i) = Append(x, y) /\ y \notin Range(x)
  <2> DEFINE k == Numbered(variant(i), Range(x), dir(i))
             y == <<dir(i), variant(i), k>>
  <2>1. IsFiniteSet(Range(x))
    BY SeedRangeIsFinite
  <2> HIDE DEF dir, variant, k
  <2>2. k \in Nat /\ y \notin Range(x)
    BY <2>1, NumberedIsFree DEF k
  <2>3. y \in Y
    BY <2>2
  <2>4. add(x, i) \in {x, Append(x, y)}
    BY DEF k
  <2> HIDE DEF add, y, Y
  <2>5. Append(x, y) \in Seq(Y)
    BY <2>3
  <2> QED
    BY <2>2, <2>3, <2>4, <2>5
<1>5. op \in [Seq(Y) \X (1..n) -> Seq(Y)] /\ \A x \in Seq(Y), i \in 1..n : op[<<x, i>>] = add(x, i)
  <2> HIDE DEF Y, add
  <2> QED
    BY <1>4
<1>6. <<>> \in Seq(Y)
  OBVIOUS
<1>7. \A y \in Y : \E d, v, k : y = <<d, v, k>>
  OBVIOUS
<1> HIDE DEF op, add, Y
<1>8. PICK g \in [SUBSET (1..n) -> Seq(Y)] : IsFold(g, <<>>, op, max, n)
  <2> HIDE DEF max
  <2> QED
    BY <1>1, <1>3, <1>5, <1>6, FoldExists
<1>9. \A s \in SUBSET (1..n) : s # {} =>
          /\ max[s] = Max(s) /\ max[s] \in 1..n /\ seq[Max(s)] = max[s]
          /\ s \ {max[s]} \in SUBSET (1..n)
  BY <1>1, <1>3 DEF IsLast
<1>10. \E f : Runs(f)
  <2>1. ASSUME NEW s \in SUBSET (1..n)
        PROVE  g[s] = IF s = {} THEN <<>> ELSE add(g[s \ {Max(s)}], seq[Max(s)])
    <3>1. CASE s = {}
      BY <3>1, <1>8 DEF IsFold
    <3>2. CASE s # {}
      <4> HIDE DEF max
      <4>1. g[s \ {max[s]}] \in Seq(Y)
        BY <1>9, <3>2
      <4>2. g[s] = op[<<g[s \ {max[s]}], max[s]>>]
        BY <1>8, <3>2 DEF IsFold
      <4>3. max[s] \in 1..n /\ max[s] = Max(s) /\ seq[Max(s)] = max[s]
        BY <1>9, <3>2
      <4>4. g[s] = add(g[s \ {max[s]}], max[s])
        BY <1>5, <4>1, <4>2, <4>3
      <4> QED
        BY <3>2, <4>3, <4>4
    <3> QED
      BY <3>1, <3>2
  <2>2. g = [s \in SUBSET (1..n) |->
                 IF s = {} THEN <<>> ELSE add(g[s \ {Max(s)}], seq[Max(s)])]
    BY <2>1
  <2> QED
    BY <2>2
<1>11. Runs(iter)
  <2> HIDE DEF Runs
  <2> QED
    BY <1>10
<1> HIDE DEF iter
<1>12. iter[{}] = <<>>
  BY <1>11
<1>13. ASSUME NEW s \in SUBSET (1..n), s # {}, iter[s \ {max[s]}] \in Seq(Y)
       PROVE  iter[s] = op[<<iter[s \ {max[s]}], max[s]>>]
  <2> HIDE DEF max
  <2>1. iter[s] = add(iter[s \ {Max(s)}], seq[Max(s)])
    BY <1>11, <1>13
  <2> QED
    BY <1>5, <1>9, <1>13, <2>1
<1>14. PICK w \in [0..n -> Seq(Y)] : IsRun(w, <<>>, op, n, iter[1..n])
  <2> HIDE DEF max, Runs
  <2>1. IsFoldWithin(iter, Seq(Y), <<>>, op, max, n)
    BY <1>12, <1>13 DEF IsFoldWithin
  <2> QED
    BY <2>1, <1>1, <1>3, <1>5, <1>6, FoldRuns
<1> DEFINE Once(x) == \A i, j \in 1..Len(x) : x[i] = x[j] => i = j
           P == {i \in 0..n : Once(w[i])}
<1>15. 0 \in P
  BY <1>1, <1>14 DEF IsRun
<1>16. ASSUME NEW i \in 1..n, i - 1 \in P PROVE i \in P
  <2>1. i - 1 \in 0..n /\ i \in 0..n
    BY <1>1
  <2>2. w[i - 1] \in Seq(Y) /\ w[i] = add(w[i - 1], i)
    BY <1>5, <1>14, <2>1 DEF IsRun
  <2>3. Once(w[i - 1])
    BY <1>16
  <2>4. CASE w[i] = w[i - 1]
    BY <2>1, <2>3, <2>4
  <2>5. CASE w[i] # w[i - 1]
    <3>1. PICK y \in Y : w[i] = Append(w[i - 1], y) /\ y \notin Range(w[i - 1])
      BY <1>4, <2>2, <2>5
    <3> DEFINE v == w[i - 1]
    <3>2. v \in Seq(Y) /\ y \in Y /\ Once(v) /\ \A j \in 1..Len(v) : v[j] # y
      BY <2>2, <2>3, <3>1 DEF Range
    <3> HIDE DEF v
    <3>3. Once(Append(v, y))
      <4> HIDE DEF Y
      <4> QED
        BY <3>2, OnceMore
    <3> QED
      BY <2>1, <3>1, <3>3 DEF v
  <2> QED
    BY <2>4, <2>5
<1> HIDE DEF P
<1>17. 0..n \subseteq P
  BY <1>1, <1>15, <1>16, Counting
<1>18. n \in P
  BY <1>1, <1>17
<1>19. files \in Seq(Y) /\ Once(files)
  BY <1>1, <1>2, <1>14, <1>18 DEF IsRun, P
<1> HIDE DEF files
<1>20. \E Z : /\ files \in Seq(Z) /\ \A y \in Z : \E d, v, k : y = <<d, v, k>>
              /\ Once(files)
  BY <1>7, <1>19
<1> QED
  BY <1>20 DEF files

\* A finite set and its parts.
LEMMA PartsAddUp ==
    ASSUME NEW S, IsFiniteSet(S), NEW T \in SUBSET S
    PROVE  /\ IsFiniteSet(T) /\ IsFiniteSet(S \ T)
           /\ Cardinality(S) = Cardinality(T) + Cardinality(S \ T)
<1>1. IsFiniteSet(T) /\ IsFiniteSet(S \ T) /\ S \cap T = T
  BY FS_Subset, FS_Difference
<1>2. Cardinality(S \ T) = Cardinality(S) - Cardinality(T)
  BY <1>1, FS_Difference
<1>3. Cardinality(S) \in Nat /\ Cardinality(T) \in Nat
  BY <1>1, FS_CardinalityType
<1> QED
  BY <1>1, <1>2, <1>3

\* The keys of some entries are as many as the entries, when no two have the same.
LEMMA KeysAsEntries ==
    ASSUME NEW n \in Nat, NEW key, DOMAIN key = 1..n,
           \A i, j \in 1..n : key[i] = key[j] => i = j,
           NEW A \in SUBSET (1..n)
    PROVE  /\ IsFiniteSet({key[i] : i \in A}) /\ IsFiniteSet(A)
           /\ Cardinality({key[i] : i \in A}) = Cardinality(A)
<1> DEFINE B == {key[i] : i \in A}
           g == [i \in A |-> key[i]]
<1>1. IsFiniteSet(A)
  <2>1. IsFiniteSet(1..n)
    BY FS_Interval
  <2> QED
    BY <2>1, FS_Subset
<1>2. g \in [A -> B] /\ (\A i, j \in A : g[i] = g[j] => i = j) /\ \A b \in B : \E i \in A : g[i] = b
  OBVIOUS
<1> HIDE DEF B, g
<1>3. g \in Injection(A, B) /\ g \in Surjection(A, B)
  BY <1>2 DEF Injection, Surjection, IsInjective
<1>4. IsFiniteSet(B) /\ Cardinality(B) = Cardinality(A)
  BY <1>1, <1>3, FS_Surjection
<1> QED
  BY <1>1, <1>4 DEF B

\* A manifest in which no two entries have the same key, and none an empty one.
IsManifest(manifest, n) ==
    /\ DOMAIN manifest = 1..n
    /\ \A i \in 1..n : manifest[i].key # <<>>
    /\ \A i, j \in 1..n : manifest[i].key = manifest[j].key => i = j
KeyOf(manifest, A) == {manifest[i].key : i \in A}

LEMMA ByKeyIs ==
    ASSUME NEW n \in Nat, NEW manifest, IsManifest(manifest, n)
    PROVE  /\ DOMAIN ByKey(manifest) = KeyOf(manifest, 1..n)
           /\ \A i \in 1..n : ByKey(manifest)[manifest[i].key] = manifest[i]
<1> DEFINE keys == {manifest[i].key : i \in DOMAIN manifest} \ {<<>>}
           same(k) == {i \in DOMAIN manifest : manifest[i].key = k}
<1>1. ByKey(manifest) = [k \in keys |-> manifest[Max(same(k))]]
  BY DEF ByKey
<1>2. keys = KeyOf(manifest, 1..n)
  BY DEF IsManifest, KeyOf
<1>3. ASSUME NEW i \in 1..n
      PROVE  manifest[i].key \in keys /\ Max(same(manifest[i].key)) = i
  <2>1. same(manifest[i].key) = {i}
    BY DEF IsManifest
  <2>2. Max({i}) = i
    <3>1. i \in {i} /\ \A y \in {i} : i >= y
      OBVIOUS
    <3>2. \E x \in {i} : \A y \in {i} : x >= y
      BY <3>1
    <3> QED
      BY <3>2 DEF Max
  <2> QED
    BY <2>1, <2>2 DEF IsManifest
<1> HIDE DEF keys, same
<1> QED
  BY <1>1, <1>2, <1>3

\* verifyFindings, by entries: which of them satisfy, and which keys that makes.
LEMMA KeysWith ==
    ASSUME NEW n \in Nat, NEW manifest, IsManifest(manifest, n), NEW A \in SUBSET (1..n)
    PROVE  /\ KeyOf(manifest, A) =
                  {k \in DOMAIN ByKey(manifest) : \E i \in A : manifest[i] = ByKey(manifest)[k]}
           /\ IsFiniteSet(KeyOf(manifest, A))
           /\ Cardinality(KeyOf(manifest, A)) = Cardinality(A)
<1> DEFINE byKey == ByKey(manifest)
           key == [i \in 1..n |-> manifest[i].key]
<1>1. DOMAIN byKey = KeyOf(manifest, 1..n) /\ \A i \in 1..n : byKey[manifest[i].key] = manifest[i]
  BY ByKeyIs
<1> HIDE DEF byKey
<1>2. KeyOf(manifest, A) = {k \in DOMAIN byKey : \E i \in A : manifest[i] = byKey[k]}
  <2>1. ASSUME NEW i \in A
        PROVE  manifest[i].key \in DOMAIN byKey /\ byKey[manifest[i].key] = manifest[i]
    BY <1>1 DEF KeyOf
  <2>2. ASSUME NEW k \in DOMAIN byKey, NEW i \in A, manifest[i] = byKey[k]
        PROVE  k = manifest[i].key
    <3>1. PICK j \in 1..n : k = manifest[j].key
      BY <1>1 DEF KeyOf
    <3>2. manifest[j] = manifest[i]
      BY <1>1, <2>2, <3>1
    <3> QED
      BY <3>1, <3>2
  <2> QED
    BY <2>1, <2>2 DEF KeyOf
<1>3. /\ IsFiniteSet({key[i] : i \in A}) /\ Cardinality({key[i] : i \in A}) = Cardinality(A)
  <2>1. DOMAIN key = 1..n /\ \A i, j \in 1..n : key[i] = key[j] => i = j
    BY DEF IsManifest
  <2> HIDE DEF key
  <2> QED
    BY <2>1, KeysAsEntries
<1>4. {key[i] : i \in A} = KeyOf(manifest, A)
  BY DEF KeyOf
<1> HIDE DEF key
<1> QED
  BY <1>2, <1>3, <1>4 DEF byKey

\* The entries that count, and those of a category or a class.
ExpectedIn(manifest, n) == {i \in 1..n : manifest[i].intended # "filler/noise"}
FillersIn(manifest, n) == {i \in 1..n : manifest[i].intended = "filler/noise"}
OnEntries(findings, manifest, A) ==
    {i \in DOMAIN findings : \E j \in A : findings[i].key = manifest[j].key}

LEMMA ExpectedKeys ==
    ASSUME NEW n \in Nat, NEW manifest, IsManifest(manifest, n)
    PROVE  LET byKey == ByKey(manifest)
               expected == {k \in DOMAIN byKey : IsExpected(byKey[k])}
           IN /\ expected = KeyOf(manifest, ExpectedIn(manifest, n))
              /\ DOMAIN byKey \ expected = KeyOf(manifest, FillersIn(manifest, n))
<1> DEFINE byKey == ByKey(manifest)
           E == ExpectedIn(manifest, n)
           expected == {k \in DOMAIN byKey : IsExpected(byKey[k])}
<1>1. DOMAIN byKey = KeyOf(manifest, 1..n) /\ \A i \in 1..n : byKey[manifest[i].key] = manifest[i]
  BY ByKeyIs
<1> HIDE DEF byKey
<1>2. ASSUME NEW i \in 1..n
      PROVE  (manifest[i].key \in expected <=> i \in E) /\ manifest[i].key \in DOMAIN byKey
  BY <1>1 DEF IsExpected, ExpectedIn, KeyOf
<1>3. \A k \in DOMAIN byKey : \E i \in 1..n : k = manifest[i].key
  BY <1>1 DEF KeyOf
<1>4. expected \subseteq DOMAIN byKey
  OBVIOUS
<1>5. FillersIn(manifest, n) = (1..n) \ E /\ E \subseteq 1..n
  BY DEF FillersIn, ExpectedIn
<1> HIDE DEF expected, E
<1>6. expected = KeyOf(manifest, E)
  BY <1>2, <1>3, <1>4, <1>5 DEF KeyOf
<1>7. DOMAIN byKey \ expected = KeyOf(manifest, (1..n) \ E)
  BY <1>2, <1>3, <1>4, <1>5 DEF KeyOf
<1> QED
  BY <1>5, <1>6, <1>7 DEF byKey, E, expected

\* Of the keys that satisfy, as many as of the entries.
LEMMA CountsAgree ==
    ASSUME NEW n \in Nat, NEW manifest, IsManifest(manifest, n), NEW A \in SUBSET (1..n),
           NEW S, S = KeyOf(manifest, A), NEW P \in SUBSET S, NEW Q, Q = S \ P
    PROVE  /\ Count(A) = Count(P) + Count(Q)
           /\ Cardinality(A) = Cardinality(P) + Cardinality(Q)
<1>1. IsFiniteSet(S) /\ Cardinality(S) = Cardinality(A)
  BY KeysWith
<1>2. Cardinality(S) = Cardinality(P) + Cardinality(Q)
  BY <1>1, PartsAddUp
<1> QED
  BY <1>1, <1>2, SeedCount

LEMMA FoundAndMissed ==
    ASSUME NEW n \in Nat, NEW manifest, IsManifest(manifest, n), NEW findings
    PROVE  LET r == Verify(manifest, findings) IN
           Cardinality(r.found) + Cardinality(r.missed) = Cardinality(ExpectedIn(manifest, n))
<1> DEFINE byKey == ByKey(manifest)
           expected == {k \in DOMAIN byKey : IsExpected(byKey[k])}
           found == {k \in expected : Matches(findings, k) # <<>>}
           r == Verify(manifest, findings)
<1>1. r.found = found /\ r.missed = expected \ found
  BY DEF Verify
<1>2. expected = KeyOf(manifest, ExpectedIn(manifest, n))
  BY ExpectedKeys
<1>3. found \subseteq expected
  OBVIOUS
<1>4. ExpectedIn(manifest, n) \subseteq 1..n
  BY DEF ExpectedIn
<1> HIDE DEF r, found, expected
<1>5. Cardinality(ExpectedIn(manifest, n)) = Cardinality(found) + Cardinality(expected \ found)
  BY <1>2, <1>3, <1>4, CountsAgree
<1> QED
  BY <1>1, <1>5 DEF r

\* Keys that are picked as their entries are.
LEMMA PickedAlike ==
    ASSUME NEW n \in Nat, NEW manifest, IsManifest(manifest, n), NEW A \in SUBSET (1..n),
           NEW B \in SUBSET (DOMAIN ByKey(manifest)),
           \A i \in 1..n : manifest[i].key \in B <=> i \in A
    PROVE  B = KeyOf(manifest, A)
<1>1. DOMAIN ByKey(manifest) = KeyOf(manifest, 1..n)
  BY ByKeyIs
<1> QED
  BY <1>1 DEF KeyOf

LEMMA CategoriesAddUp ==
    ASSUME NEW n \in Nat, NEW manifest, IsManifest(manifest, n), NEW findings
    PROVE  LET counts == Verify(manifest, findings).coverage IN
           \A c \in DOMAIN counts : counts[c].expected = counts[c].found + counts[c].missed
<1> DEFINE byKey == ByKey(manifest)
           expected == {k \in DOMAIN byKey : IsExpected(byKey[k])}
           found == {k \in expected : Matches(findings, k) # <<>>}
           with(c) == {i \in DOMAIN manifest : /\ manifest[i].key # <<>>
                                               /\ IsExpected(manifest[i])
                                               /\ manifest[i].category = c}
           C == {byKey[k].category : k \in expected}
           counts == Verify(manifest, findings).coverage
           of(c) == {k \in expected : byKey[k].category = c}
           got(c) == {k \in found : byKey[k].category = c}
           lost(c) == {k \in expected \ found : byKey[k].category = c}
<1>1. counts = [c \in C |-> [expected |-> Count(with(c)), found |-> Count(got(c)),
                             missed |-> Count(lost(c))]]
  BY DEF Verify
<1>2. ASSUME NEW c PROVE Count(with(c)) = Count(got(c)) + Count(lost(c))
  <2>1. of(c) = KeyOf(manifest, with(c))
    <3>1. DOMAIN byKey = KeyOf(manifest, 1..n) /\ \A i \in 1..n : byKey[manifest[i].key] = manifest[i]
      BY ByKeyIs
    <3>2. \A i \in 1..n : manifest[i].key \in of(c) <=> i \in with(c)
      <4> HIDE DEF byKey
      <4> QED
        BY <3>1 DEF KeyOf, IsManifest
    <3>3. of(c) \subseteq DOMAIN ByKey(manifest) /\ with(c) \subseteq 1..n
      BY DEF IsManifest
    <3> HIDE DEF of, with
    <3> QED
      BY <3>2, <3>3, PickedAlike
  <2>2. with(c) \subseteq 1..n
    BY DEF IsManifest
  <2>3. got(c) \subseteq of(c) /\ lost(c) = of(c) \ got(c)
    OBVIOUS
  <2> HIDE DEF with, got, lost, of
  <2> QED
    BY <2>1, <2>2, <2>3, CountsAgree
<1> HIDE DEF counts, C, with, got, lost
<1>3. \A c \in DOMAIN counts : counts[c].expected = counts[c].found + counts[c].missed
  BY <1>1, <1>2
<1> QED
  BY <1>3 DEF counts

LEMMA ClassesAddUp ==
    ASSUME NEW n \in Nat, NEW manifest, IsManifest(manifest, n), NEW findings
    PROVE  LET counts == Verify(manifest, findings).classes IN
           \A c \in DOMAIN counts : /\ counts[c].planted = counts[c].detected + counts[c].missed
                                    /\ counts[c].planted = counts[c].matched + counts[c].mismatched
<1> DEFINE byKey == ByKey(manifest)
           expected == {k \in DOMAIN byKey : IsExpected(byKey[k])}
           found == {k \in expected : Matches(findings, k) # <<>>}
           status(k) == ClassStatus(byKey[k], Matches(findings, k))
           with(c) == {i \in DOMAIN manifest : /\ manifest[i].key # <<>>
                                               /\ IsExpected(manifest[i])
                                               /\ manifest[i].class = c}
           of(c) == {k \in expected : byKey[k].class = c}
           C == {byKey[k].class : k \in expected} \ {""}
           counts == Verify(manifest, findings).classes
           got(c) == of(c) \cap found
           lost(c) == of(c) \ found
           good(c) == {k \in of(c) : status(k) # "mismatched"}
           bad(c) == {k \in of(c) : status(k) = "mismatched"}
<1>1. counts = [c \in C |-> [planted |-> Count(with(c)), detected |-> Count(got(c)),
                             missed |-> Count(lost(c)), matched |-> Count(good(c)),
                             mismatched |-> Count(bad(c))]]
  BY DEF Verify
<1>2. ASSUME NEW c PROVE /\ Count(with(c)) = Count(got(c)) + Count(lost(c))
                         /\ Count(with(c)) = Count(good(c)) + Count(bad(c))
  <2>1. of(c) = KeyOf(manifest, with(c))
    <3>1. DOMAIN byKey = KeyOf(manifest, 1..n) /\ \A i \in 1..n : byKey[manifest[i].key] = manifest[i]
      BY ByKeyIs
    <3>2. \A i \in 1..n : manifest[i].key \in of(c) <=> i \in with(c)
      <4> HIDE DEF byKey
      <4> QED
        BY <3>1 DEF KeyOf, IsManifest
    <3>3. of(c) \subseteq DOMAIN ByKey(manifest) /\ with(c) \subseteq 1..n
      BY DEF IsManifest
    <3> HIDE DEF of, with
    <3> QED
      BY <3>2, <3>3, PickedAlike
  <2>2. with(c) \subseteq 1..n
    BY DEF IsManifest
  <2>3. /\ got(c) \subseteq of(c) /\ lost(c) = of(c) \ got(c)
        /\ good(c) \subseteq of(c) /\ bad(c) = of(c) \ good(c)
    OBVIOUS
  <2> HIDE DEF with, got, lost, of, good, bad
  <2> QED
    BY <2>1, <2>2, <2>3, CountsAgree
<1> HIDE DEF counts, C, with, got, lost, good, bad
<1>3. \A c \in DOMAIN counts : /\ counts[c].planted = counts[c].detected + counts[c].missed
                               /\ counts[c].planted = counts[c].matched + counts[c].mismatched
  BY <1>1, <1>2
<1> QED
  BY <1>3 DEF counts

\* Each finding is on an expected file, on a filler, or unexpected.
LEMMA FindingsAreSorted ==
    ASSUME NEW n \in Nat, NEW manifest, IsManifest(manifest, n), NEW findings
    PROVE  LET onExpected == OnEntries(findings, manifest, ExpectedIn(manifest, n))
               onFillers == OnEntries(findings, manifest, FillersIn(manifest, n))
               keyed == {i \in DOMAIN findings : findings[i].key # <<>>}
           IN /\ Verify(manifest, findings).unexpected = keyed \ (onExpected \union onFillers)
              /\ onExpected \intersect onFillers = {}
<1> DEFINE byKey == ByKey(manifest)
           E == ExpectedIn(manifest, n)
           F == FillersIn(manifest, n)
           unexpected == Verify(manifest, findings).unexpected
<1>1. unexpected = {i \in DOMAIN findings : findings[i].key \notin DOMAIN byKey \union {<<>>}}
  BY DEF Verify, UnexpectedFindings
<1>2. DOMAIN byKey = KeyOf(manifest, 1..n)
  BY ByKeyIs
<1>3. E \union F = 1..n /\ E \intersect F = {} /\ E \subseteq 1..n /\ F \subseteq 1..n
  BY DEF ExpectedIn, FillersIn
<1>4. \A i, j \in 1..n : manifest[i].key = manifest[j].key => i = j
  BY DEF IsManifest
<1> HIDE DEF byKey, E, F, unexpected
<1>5. ASSUME NEW i \in DOMAIN findings
      PROVE  findings[i].key \in KeyOf(manifest, 1..n) <=>
                 i \in OnEntries(findings, manifest, E) \union OnEntries(findings, manifest, F)
  BY <1>3 DEF KeyOf, OnEntries
<1>6. unexpected = {i \in DOMAIN findings : findings[i].key # <<>>} \
                       (OnEntries(findings, manifest, E) \union OnEntries(findings, manifest, F))
  BY <1>1, <1>2, <1>5
<1>7. OnEntries(findings, manifest, E) \intersect OnEntries(findings, manifest, F) = {}
  BY <1>3, <1>4 DEF OnEntries
<1> QED
  BY <1>6, <1>7 DEF E, F, unexpected

-------------------------------------------------------------------------------
(***************************************************************************)
(* The shares and the files that a scan takes in.                          *)
(***************************************************************************)
\* A sequence that has elements of another one, each place once.
Injects(m, n, k) ==
    m \in [1..n -> 1..k] /\ \A i, j \in 1..n : m[i] = m[j] => i = j
PicksBy(m, t, s) ==
    Injects(m, Len(t), Len(s)) /\ \A i \in 1..Len(t) : t[i] = s[m[i]]
Picks(t, s) == \E m : PicksBy(m, t, s)

LEMMA ThosePicks ==
    ASSUME NEW T, NEW seq \in Seq(T), NEW S
    PROVE  Picks(Those(seq, S), seq)
<1>0. PICK w \in [0..Len(seq) -> Seq(T)] : RunsThose(w, seq, S)
  BY ThoseRuns
<1>1. /\ w[0] = <<>>
      /\ \A i \in 1..Len(seq) :
            w[i] = IF seq[i] \in S THEN Append(w[i - 1], seq[i]) ELSE w[i - 1]
      /\ w[Len(seq)] = Those(seq, S)
  BY <1>0 DEF RunsThose
<1> DEFINE n == Len(seq)
           Is(m, i) == /\ Injects(m, Len(w[i]), i)
                       /\ \A k \in 1..Len(w[i]) : w[i][k] = seq[m[k]]
           P == {i \in 0..n : \E m : Is(m, i)}
<1>2. n \in Nat
  OBVIOUS
<1>3. 0 \in P
  <2>1. Is(<<>>, 0)
    BY <1>1 DEF Injects
  <2> QED
    BY <2>1, <1>2
<1>4. ASSUME NEW i \in 1..n, i - 1 \in P PROVE i \in P
  <2>1. PICK m : Is(m, i - 1)
    BY <1>4
  <2> DEFINE v == w[i - 1]
             x == seq[i]
             a == Append(v, x)
             m2 == [k \in 1..(Len(v) + 1) |-> IF k = Len(v) + 1 THEN i ELSE m[k]]
  <2>2. v \in Seq(T) /\ x \in T /\ i \in 0..n
    BY <1>2
  <2>3. w[i] = IF x \in S THEN a ELSE v
    BY <1>1
  <2>4. Injects(m, Len(v), i - 1) /\ \A k \in 1..Len(v) : v[k] = seq[m[k]]
    BY <2>1
  <2> HIDE DEF v
  <2>5. Len(v) \in Nat /\ Len(a) = Len(v) + 1 /\ a[Len(v) + 1] = x /\ \A k \in 1..Len(v) : a[k] = v[k]
    BY <2>2
  <2> HIDE DEF x, a
  <2>6. CASE x \in S
    <3>1. w[i] = a
      BY <2>3, <2>6
    <3>2. Injects(m2, Len(a), i)
      <4> DEFINE l == Len(v)
      <4>1. l \in Nat /\ Len(a) = l + 1 /\ m2 = [k \in 1..(l + 1) |-> IF k = l + 1 THEN i ELSE m[k]]
        BY <2>5
      <4>2. m \in [1..l -> 1..(i - 1)] /\ \A k, j \in 1..l : m[k] = m[j] => k = j
        BY <2>4 DEF Injects
      <4>3. \A k \in 1..l : m[k] \in 1..(i - 1)
        BY <4>2
      <4> HIDE DEF l, m2
      <4>4. m2 \in [1..(l + 1) -> 1..i]
        BY <4>1, <4>3
      <4>5. ASSUME NEW k \in 1..(l + 1), NEW j \in 1..(l + 1), m2[k] = m2[j] PROVE k = j
        BY <4>1, <4>2, <4>3, <4>5
      <4> QED
        BY <4>1, <4>4, <4>5 DEF Injects
    <3>3. \A k \in 1..Len(a) : a[k] = seq[m2[k]]
      BY <2>4, <2>5 DEF x
    <3>4. Is(m2, i)
      BY <3>1, <3>2, <3>3
    <3> HIDE DEF Is, m2
    <3> QED
      BY <3>4, <2>2
  <2>7. CASE x \notin S
    <3>1. w[i] = v
      BY <2>3, <2>7
    <3>2. Injects(m, Len(v), i)
      BY <2>4, <2>5 DEF Injects
    <3>3. Is(m, i)
      BY <3>1, <3>2, <2>4
    <3> HIDE DEF Is
    <3> QED
      BY <3>3, <2>2
  <2> QED
    BY <2>6, <2>7
<1> HIDE DEF P
<1>5. 0..n \subseteq P
  BY <1>2, <1>3, <1>4, Counting
<1>6. PICK m : Is(m, n)
  BY <1>2, <1>5 DEF P
<1> QED
  BY <1>1, <1>6 DEF Picks, PicksBy

LEMMA PicksTrans ==
    ASSUME NEW r, NEW s, NEW t, Len(t) \in Nat, Len(s) \in Nat, Picks(t, s), Picks(s, r)
    PROVE  Picks(t, r)
<1>1. PICK m1 : PicksBy(m1, t, s)
  BY DEF Picks
<1>2. PICK m2 : PicksBy(m2, s, r)
  BY DEF Picks
<1> DEFINE m == [i \in 1..Len(t) |-> m2[m1[i]]]
<1>3. /\ m1 \in [1..Len(t) -> 1..Len(s)] /\ m2 \in [1..Len(s) -> 1..Len(r)]
      /\ \A i, j \in 1..Len(t) : m1[i] = m1[j] => i = j
      /\ \A i, j \in 1..Len(s) : m2[i] = m2[j] => i = j
      /\ \A i \in 1..Len(t) : t[i] = s[m1[i]]
      /\ \A i \in 1..Len(s) : s[i] = r[m2[i]]
  BY <1>1, <1>2 DEF PicksBy, Injects
<1>4. \A i \in 1..Len(t) : m1[i] \in 1..Len(s) /\ m[i] = m2[m1[i]]
  BY <1>3
<1>5. m \in [1..Len(t) -> 1..Len(r)] /\ \A i \in 1..Len(t) : t[i] = r[m[i]]
  BY <1>3, <1>4
<1>6. \A i, j \in 1..Len(t) : m[i] = m[j] => i = j
  BY <1>3, <1>4
<1> HIDE DEF m
<1> QED
  BY <1>5, <1>6 DEF Picks, PicksBy, Injects

\* Once(seq): no element stands at two places.
Once(seq) == \A i, j \in 1..Len(seq) : seq[i] = seq[j] => i = j
LEMMA OnceStays ==
    ASSUME NEW s, NEW t, Picks(t, s), Once(s)
    PROVE  Once(t)
BY DEF Picks, PicksBy, Injects, Once

\* What is kept of a list.
LEMMA KeptOf ==
    ASSUME NEW T, NEW seq \in Seq(T), NEW S
    PROVE  /\ Those(seq, S) \in Seq(T)
           /\ Range(Those(seq, S)) = Range(seq) \intersect S
           /\ Picks(Those(seq, S), seq)
BY ThosePicks, ThoseHas

\* The points of a list of groups are points of one of them.
LEMMA SuggestsPoints ==
    ASSUME NEW P, NEW groups \in Seq(P), \A g \in P : g[2] \in Int, NEW hints
    PROVE  Suggested(groups, hints) \in Int
<1> DEFINE there == Those(groups, {g \in Range(groups) : g[1] \in hints})
<1>1. there \in Seq(P)
  BY KeptOf
<1>2. Suggested(groups, hints) = IF there = <<>> THEN 0 ELSE there[1][2]
  BY DEF Suggested
<1> HIDE DEF there
<1>3. there # <<>> => there[1] \in P
  BY <1>1
<1> QED
  BY <1>2, <1>3

LEMMA PointsOfGroups ==
    ASSUME NEW hints
    PROVE  /\ \A a, b : a[2] \in Int /\ b[2] \in Int => Suggested(<<a, b>>, hints) \in Int
           /\ \A a, b, c : a[2] \in Int /\ b[2] \in Int /\ c[2] \in Int
                 => Suggested(<<a, b, c>>, hints) \in Int
           /\ \A a, b, c, d : a[2] \in Int /\ b[2] \in Int /\ c[2] \in Int /\ d[2] \in Int
                 => Suggested(<<a, b, c, d>>, hints) \in Int
           /\ \A a, b, c, d, e : a[2] \in Int /\ b[2] \in Int /\ c[2] \in Int /\ d[2] \in Int /\ e[2] \in Int
                 => Suggested(<<a, b, c, d, e>>, hints) \in Int
<1>2. ASSUME NEW a, NEW b, a[2] \in Int /\ b[2] \in Int
      PROVE  Suggested(<<a, b>>, hints) \in Int
  <2> DEFINE P == {a, b}
  <2>1. <<a, b>> \in Seq(P)
    OBVIOUS
  <2>2. \A g \in P : g[2] \in Int
    BY <1>2
  <2> HIDE DEF P
  <2> QED
    BY <2>1, <2>2, SuggestsPoints
<1>3. ASSUME NEW a, NEW b, NEW c, a[2] \in Int /\ b[2] \in Int /\ c[2] \in Int
      PROVE  Suggested(<<a, b, c>>, hints) \in Int
  <2> DEFINE P == {a, b, c}
  <2>1. <<a, b, c>> \in Seq(P)
    OBVIOUS
  <2>2. \A g \in P : g[2] \in Int
    BY <1>3
  <2> HIDE DEF P
  <2> QED
    BY <2>1, <2>2, SuggestsPoints
<1>4. ASSUME NEW a, NEW b, NEW c, NEW d, a[2] \in Int /\ b[2] \in Int /\ c[2] \in Int /\ d[2] \in Int
      PROVE  Suggested(<<a, b, c, d>>, hints) \in Int
  <2> DEFINE P == {a, b, c, d}
  <2>1. <<a, b, c, d>> \in Seq(P)
    OBVIOUS
  <2>2. \A g \in P : g[2] \in Int
    BY <1>4
  <2> HIDE DEF P
  <2> QED
    BY <2>1, <2>2, SuggestsPoints
<1>5. ASSUME NEW a, NEW b, NEW c, NEW d, NEW e,
             a[2] \in Int /\ b[2] \in Int /\ c[2] \in Int /\ d[2] \in Int /\ e[2] \in Int
      PROVE  Suggested(<<a, b, c, d, e>>, hints) \in Int
  <2> DEFINE P == {a, b, c, d, e}
  <2>1. <<a, b, c, d, e>> \in Seq(P)
    OBVIOUS
  <2>2. \A g \in P : g[2] \in Int
    BY <1>5
  <2> HIDE DEF P
  <2> QED
    BY <2>1, <2>2, SuggestsPoints
<1> QED
  BY <1>2, <1>3, <1>4, <1>5

LEMMA WorthPoints ==
    ASSUME NEW condition, NEW points \in Int
    PROVE  Worth(condition, points) \in Int
BY DEF Worth

LEMMA ScoresAreNumbers ==
    ASSUME NEW share, NEW source, NEW cfg, NEW file
    PROVE  /\ ScoreShare(share, source, cfg) \in Int
           /\ ScoreFile(file, share, source, cfg) \in Int
<1>1. Suggested(<<<<"sysvol", 100>>, <<"netlogon", 95>>>>, {Key(share)}) \in Int
  <2> DEFINE a == <<"sysvol", 100>>
             b == <<"netlogon", 95>>
  <2>1. a[2] \in Int /\ b[2] \in Int
    OBVIOUS
  <2> HIDE DEF a, b
  <2>2. Suggested(<<a, b>>, {Key(share)}) \in Int
    BY <2>1, PointsOfGroups
  <2> QED
    BY <2>2 DEF a, b
<1>2. Suggested(<<<<"payroll", 45>>, <<"scripts", 30>>>>, {Key(share)}) \in Int
  <2> DEFINE a == <<"payroll", 45>>
             b == <<"scripts", 30>>
  <2>1. a[2] \in Int /\ b[2] \in Int
    OBVIOUS
  <2> HIDE DEF a, b
  <2>2. Suggested(<<a, b>>, {Key(share)}) \in Int
    BY <2>1, PointsOfGroups
  <2> QED
    BY <2>2 DEF a, b
<1>3. Suggested(<<<<"sysvol", 35>>, <<"netlogon", 30>>>>, {Key(share)}) \in Int
  <2> DEFINE a == <<"sysvol", 35>>
             b == <<"netlogon", 30>>
  <2>1. a[2] \in Int /\ b[2] \in Int
    OBVIOUS
  <2> HIDE DEF a, b
  <2>2. Suggested(<<a, b>>, {Key(share)}) \in Int
    BY <2>1, PointsOfGroups
  <2> QED
    BY <2>2 DEF a, b
<1>4. Suggested(<<<<"policies", 30>>, <<"preferences", 28>>, <<"scripts", 24>>>>, file.hints) \in Int
  <2> DEFINE a == <<"policies", 30>>
             b == <<"preferences", 28>>
             c == <<"scripts", 24>>
  <2>1. a[2] \in Int /\ b[2] \in Int /\ c[2] \in Int
    OBVIOUS
  <2> HIDE DEF a, b, c
  <2>2. Suggested(<<a, b, c>>, file.hints) \in Int
    BY <2>1, PointsOfGroups
  <2> QED
    BY <2>2 DEF a, b, c
<1>5. Suggested(<<<<"secret", 55>>, <<"config", 40>>, <<"backup", 28>>, <<"finance", 35>>, <<"admin", 22>>>>,
                file.hints) \in Int
  <2> DEFINE a == <<"secret", 55>>
             b == <<"config", 40>>
             c == <<"backup", 28>>
             d == <<"finance", 35>>
             e == <<"admin", 22>>
  <2>1. a[2] \in Int /\ b[2] \in Int /\ c[2] \in Int /\ d[2] \in Int /\ e[2] \in Int
    OBVIOUS
  <2> HIDE DEF a, b, c, d, e
  <2>2. Suggested(<<a, b, c, d, e>>, file.hints) \in Int
    BY <2>1, PointsOfGroups
  <2> QED
    BY <2>2 DEF a, b, c, d, e
<1>6. Suggested(<<<<"key", 55>>, <<"settings", 35>>, <<"script", 24>>, <<"data", 18>>>>,
                {file.ext}) \in Int
  <2> DEFINE a == <<"key", 55>>
             b == <<"settings", 35>>
             c == <<"script", 24>>
             d == <<"data", 18>>
  <2>1. a[2] \in Int /\ b[2] \in Int /\ c[2] \in Int /\ d[2] \in Int
    OBVIOUS
  <2> HIDE DEF a, b, c, d
  <2>2. Suggested(<<a, b, c, d>>, {file.ext}) \in Int
    BY <2>1, PointsOfGroups
  <2> QED
    BY <2>2 DEF a, b, c, d
<1>7. ScoreShare(share, source, cfg) \in Int
  BY <1>1, <1>2, WorthPoints DEF ScoreShare
<1>8. ScoreFile(file, share, source, cfg) \in Int
  BY <1>3, <1>4, <1>5, <1>6, WorthPoints DEF ScoreFile
<1> QED
  BY <1>7, <1>8

\* Sorting moves the items and keeps them all.
LEMMA ByPriorityPermutes ==
    ASSUME NEW T, NEW items \in Seq(T), \A i \in 1..Len(items) : items[i].priority \in Int
    PROVE  /\ ByPriority(items) \in Seq(T) /\ Len(ByPriority(items)) = Len(items)
           /\ Picks(ByPriority(items), items)
           /\ Range(ByPriority(items)) = Range(items)
<1> DEFINE n == Len(items)
           Ahead(j, i) == \/ items[j].priority > items[i].priority
                          \/ items[j].priority = items[i].priority /\ j < i
           ahead(i) == {j \in 1..n : Ahead(j, i)}
           place == [i \in 1..n |-> 1 + Cardinality(ahead(i))]
           at == [k \in 1..n |-> CHOOSE i \in 1..n : place[i] = k]
           sorted == ByPriority(items)
<1>1. n \in Nat /\ DOMAIN items = 1..n
  OBVIOUS
<1>2. sorted = [k \in 1..n |-> items[CHOOSE i \in 1..n : place[i] = k]]
  BY <1>1 DEF ByPriority
<1>3. IsFiniteSet(1..n) /\ Cardinality(1..n) = n
  <2> HIDE DEF n
  <2> QED
    BY <1>1, FS_Interval
<1>4. ASSUME NEW i \in 1..n
      PROVE  IsFiniteSet(ahead(i)) /\ ahead(i) \subseteq 1..n /\ i \notin ahead(i)
  <2>1. ahead(i) \subseteq 1..n
    OBVIOUS
  <2>2. i \notin ahead(i)
    OBVIOUS
  <2> HIDE DEF ahead
  <2> QED
    BY <1>3, <2>1, <2>2, FS_Subset
<1>5. ASSUME NEW i \in 1..n PROVE place[i] \in 1..n
  <2>1. IsFiniteSet((1..n) \ {i}) /\ Cardinality((1..n) \ {i}) = n - 1
    <3> HIDE DEF n
    <3> QED
      BY <1>3, FS_RemoveElement
  <2>2. ahead(i) \subseteq (1..n) \ {i}
    BY <1>4
  <2>3. Cardinality(ahead(i)) \in Nat /\ Cardinality(ahead(i)) <= n - 1
    <3> HIDE DEF ahead, n
    <3> QED
      BY <2>1, <2>2, <1>4, FS_Subset, FS_CardinalityType
  <2> HIDE DEF ahead
  <2> QED
    BY <2>3, <1>1
<1>6. ASSUME NEW i \in 1..n, NEW j \in 1..n, Ahead(j, i) PROVE place[j] < place[i]
  <2>1. ahead(j) \subseteq ahead(i) /\ j \in ahead(i)
    BY <1>6
  <2>2. ahead(j) # ahead(i)
    BY <2>1, <1>4
  <2>3. Cardinality(ahead(j)) \in Nat /\ Cardinality(ahead(i)) \in Nat
    <3> HIDE DEF ahead
    <3> QED
      BY <1>4, FS_CardinalityType
  <2>4. Cardinality(ahead(j)) <= Cardinality(ahead(i)) /\ Cardinality(ahead(j)) # Cardinality(ahead(i))
    <3> HIDE DEF ahead
    <3>1. IsFiniteSet(ahead(i)) /\ ahead(j) \in SUBSET ahead(i)
      BY <1>4, <2>1
    <3> QED
      BY <3>1, <2>2, FS_Subset
  <2> HIDE DEF ahead
  <2> QED
    BY <2>3, <2>4
<1>7. ASSUME NEW i \in 1..n, NEW j \in 1..n, place[i] = place[j] PROVE i = j
  <2>1. i # j => Ahead(i, j) \/ Ahead(j, i)
    BY <1>1
  <2>2. place[i] \in 1..n /\ place[j] \in 1..n
    BY <1>5
  <2> HIDE DEF place, Ahead
  <2> QED
    BY <2>1, <2>2, <1>6, <1>7
<1>8. place \in Surjection(1..n, 1..n)
  <2>1. place \in Injection(1..n, 1..n)
    <3>1. place \in [1..n -> 1..n]
      BY <1>5
    <3> HIDE DEF place
    <3> QED
      BY <3>1, <1>7 DEF Injection, IsInjective
  <2> HIDE DEF n, place
  <2> QED
    BY <2>1, <1>3, FS_Injection
<1>9. \A k \in 1..n : \E i \in 1..n : place[i] = k
  <2> HIDE DEF place
  <2> QED
    BY <1>8 DEF Surjection
<1>10. \A k \in 1..n : at[k] \in 1..n /\ place[at[k]] = k
  <2> HIDE DEF place
  <2> QED
    BY <1>9
<1>11. \A k \in 1..n : sorted[k] = items[at[k]]
  <2> HIDE DEF place
  <2> QED
    BY <1>2
<1>12. sorted \in Seq(T) /\ Len(sorted) = n /\ DOMAIN sorted = 1..n
  <2>1. \A k \in 1..n : items[at[k]] \in T
    <3> HIDE DEF at, place
    <3> QED
      BY <1>10
  <2>2. sorted = [k \in 1..n |-> items[at[k]]]
    <3> HIDE DEF place
    <3> QED
      BY <1>2
  <2> HIDE DEF sorted, at, place
  <2> QED
    BY <1>1, <2>1, <2>2
<1>13. \A i \in 1..n : at[place[i]] = i /\ place[i] \in 1..n
  <2> HIDE DEF place, at
  <2> QED
    BY <1>5, <1>7, <1>10
<1> HIDE DEF at, place, sorted
<1>14. Picks(sorted, items)
  <2>1. \A i, j \in 1..n : at[i] = at[j] => i = j
    BY <1>10
  <2>2. at \in [1..n -> 1..n]
    BY <1>10 DEF at
  <2> QED
    BY <1>11, <1>12, <2>1, <2>2 DEF Picks, PicksBy, Injects
<1>15. Range(sorted) = Range(items)
  <2>1. Range(sorted) = {sorted[k] : k \in 1..n} /\ Range(items) = {items[k] : k \in 1..n}
    BY <1>12, <1>1 DEF Range
  <2> HIDE DEF n
  <2> QED
    BY <1>10, <1>11, <1>13, <2>1
<1> QED
  BY <1>12, <1>14, <1>15 DEF sorted

\* No two names of a list are one share.
KeysOnce(names) ==
    \A i, j \in 1..Len(names) : Key(names[i]) = Key(names[j]) => i = j
NoKey == ""

LEMMA KeysStayOnce ==
    ASSUME NEW s, NEW t, Picks(t, s), KeysOnce(s)
    PROVE  KeysOnce(t)
<1>1. PICK m : PicksBy(m, t, s)
  BY DEF Picks
<1>2. \A i \in 1..Len(t) : m[i] \in 1..Len(s) /\ t[i] = s[m[i]]
  BY <1>1 DEF PicksBy, Injects
<1>3. \A i, j \in 1..Len(t) : m[i] = m[j] => i = j
  BY <1>1 DEF PicksBy, Injects
<1> QED
  BY <1>2, <1>3 DEF KeysOnce

LEMMA DistinctHas ==
    ASSUME NEW T, NEW names \in Seq(T)
    PROVE  /\ Distinct(names) \in Seq(T) /\ Range(Distinct(names)) \subseteq Range(names)
           /\ KeysOnce(Distinct(names))
           /\ Keys(Range(Distinct(names))) = Keys(Range(names)) \ {NoKey}
<1> DEFINE n == Len(names)
           K == [i \in 1..n |-> Key(names[i])]
           new == {i \in DOMAIN names : /\ Key(names[i]) # NoKey
                                        /\ \A j \in 1..(i - 1) : Key(names[j]) # Key(names[i])}
           idx == [i \in 1..n |-> i]
           kept == Those(idx, new)
           d == Distinct(names)
<1>1. n \in Nat /\ DOMAIN names = 1..n
  OBVIOUS
<1>2. d = [k \in DOMAIN kept |-> names[kept[k]]]
  BY <1>1, Zenon DEF Distinct, NoKey
<1>3. idx \in Seq(1..n) /\ Len(idx) = n /\ Range(idx) = 1..n /\ Once(idx)
  <2> HIDE DEF n
  <2> QED
    BY <1>1 DEF Range, Once
<1>17. \A i : i \in new <=> i \in 1..n /\ K[i] # NoKey /\ \A j \in 1..(i - 1) : K[j] # K[i]
  <2>1. \A i \in 1..n : \A j \in 1..(i - 1) : j \in 1..n
    OBVIOUS
  <2>2. \A i \in 1..n : K[i] = Key(names[i])
    OBVIOUS
  <2> HIDE DEF K, n
  <2> QED
    BY <1>1, <2>1, <2>2
<1>18. \A i \in 1..n : K[i] = Key(names[i]) /\ names[i] \in T
  OBVIOUS
<1> HIDE DEF new, K, n
<1>4. kept \in Seq(1..n) /\ Range(kept) = new /\ Picks(kept, idx)
  <2>1. new \subseteq 1..n
    BY <1>17
  <2> HIDE DEF idx
  <2>2. kept \in Seq(1..n) /\ Range(kept) = Range(idx) \intersect new /\ Picks(kept, idx)
    BY <1>3, KeptOf
  <2> HIDE DEF kept
  <2> QED
    BY <1>3, <2>1, <2>2
<1> HIDE DEF kept, idx, d
<1>5. Once(kept)
  BY <1>3, <1>4, OnceStays
<1> DEFINE l == Len(kept)
<1>6. l \in Nat /\ DOMAIN kept = 1..l /\ \A k \in 1..l : kept[k] \in new /\ kept[k] \in 1..n
  <2>1. l \in Nat /\ DOMAIN kept = 1..l /\ \A k \in 1..l : kept[k] \in 1..n
    BY <1>4, <1>1
  <2> HIDE DEF l
  <2> QED
    BY <1>4, <2>1 DEF Range
<1>7. Len(d) = l /\ DOMAIN d = 1..l /\ d \in Seq(T) /\ \A k \in 1..l : d[k] = names[kept[k]]
  <2>1. \A k \in 1..l : names[kept[k]] \in T
    BY <1>6, <1>18
  <2> HIDE DEF l
  <2>2. d = [k \in 1..l |-> names[kept[k]]]
    BY <1>2, <1>6
  <2> HIDE DEF d
  <2> QED
    BY <1>6, <2>1, <2>2
<1>8. Range(d) = {names[i] : i \in new}
  <2>1. Range(d) = {names[kept[k]] : k \in 1..l}
    BY <1>7 DEF Range
  <2>2. new = {kept[k] : k \in 1..l}
    BY <1>4, <1>6 DEF Range
  <2> HIDE DEF l
  <2> QED
    BY <2>1, <2>2
<1>9. KeysOnce(d)
  <2> SUFFICES ASSUME NEW i \in 1..l, NEW j \in 1..l, K[kept[i]] = K[kept[j]] PROVE i = j
    <3> HIDE DEF l
    <3> QED
      BY <1>6, <1>7, <1>18 DEF KeysOnce
  <2>1. kept[i] \in new /\ kept[j] \in new /\ kept[i] \in 1..n /\ kept[j] \in 1..n
    BY <1>6
  <2> DEFINE a == kept[i]
             b == kept[j]
  <2>2. a \in new /\ b \in new /\ a \in 1..n /\ b \in 1..n /\ K[a] = K[b]
    BY <2>1
  <2> HIDE DEF a, b
  <2>3. a = b
    <3>1. ~(a < b) /\ ~(b < a)
      <4>1. a \in Int /\ b \in Int /\ 1 <= a /\ 1 <= b
        BY <2>2, <1>1
      <4>2. a < b => a \in 1..(b - 1)
        BY <4>1
      <4>3. b < a => b \in 1..(a - 1)
        BY <4>1
      <4> QED
        BY <2>2, <1>17, <4>2, <4>3
    <3> QED
      BY <3>1, <2>2, <1>1
  <2> QED
    BY <2>3, <1>5 DEF Once, a, b
<1> DEFINE P == {i \in 0..n : \A q \in 1..i : K[q] # NoKey => \E p \in new : K[p] = K[q]}
<1>10. 0 \in P
  <2>1. 0 \in 0..n /\ 1..0 = {}
    BY <1>1
  <2> QED
    BY <2>1
<1>11. ASSUME NEW i \in 1..n, i - 1 \in P PROVE i \in P
  <2>4. i \in 0..n /\ i \in Nat
    BY <1>1
  <2> SUFFICES ASSUME NEW q \in 1..i, K[q] # NoKey PROVE \E p \in new : K[p] = K[q]
    BY <2>4
  <2>1. CASE q \in 1..(i - 1)
    <3> QED
      BY <1>11, <2>1
  <2>2. CASE q = i /\ q \in new
    <3> QED
      BY <2>2
  <2>3. CASE q = i /\ q \notin new
    <3>1. PICK j \in 1..(i - 1) : K[j] = K[i]
      BY <2>3, <1>17
    <3> QED
      BY <1>11, <2>3, <3>1
  <2>5. q \in 1..(i - 1) \/ q = i
    <3>1. q \in Int /\ 1 <= q /\ q <= i
      BY <2>4
    <3>2. q # i => q <= i - 1
      BY <2>4, <3>1
    <3> QED
      BY <2>4, <3>1, <3>2
  <2> QED
    BY <2>1, <2>2, <2>3, <2>5, Zenon
<1> HIDE DEF P
<1>12. 0..n \subseteq P
  BY <1>1, <1>10, <1>11, Counting
<1>13. \A q \in 1..n : K[q] # NoKey => \E p \in new : K[p] = K[q]
  <2>1. n \in P
    BY <1>1, <1>12
  <2> QED
    BY <2>1 DEF P
<1>14. Keys(Range(d)) = {K[i] : i \in new}
  <2>1. \A i \in new : K[i] = Key(names[i])
    BY <1>17, <1>18
  <2> HIDE DEF P, l
  <2> QED
    BY <1>8, <2>1 DEF Keys
<1>15. Keys(Range(names)) = {K[i] : i \in 1..n}
  <2> QED
    BY <1>1, <1>18 DEF Keys, Range
<1>16. \A p \in new : p \in 1..n /\ K[p] # NoKey
  BY <1>17
<1>19. Range(d) \subseteq Range(names)
  <2> QED
    BY <1>1, <1>8, <1>16 DEF Range
<1>20. Keys(Range(d)) = Keys(Range(names)) \ {NoKey}
  <2> QED
    BY <1>13, <1>14, <1>15, <1>16
<1> QED
  BY <1>7, <1>9, <1>19, <1>20 DEF d

\* x is in a list at most once.
Lone(s, x) == \A i, j \in 1..Len(s) : s[i] = x /\ s[j] = x => i = j

\* One list behind another.
LEMMA Joined ==
    ASSUME NEW T, NEW s \in Seq(T), NEW t \in Seq(T)
    PROVE  /\ s \o t \in Seq(T) /\ Len(s) \in Nat /\ Len(t) \in Nat
           /\ Range(s \o t) = Range(s) \union Range(t)
           /\ \A k \in 1..Len(s \o t) :
                 \/ k \in 1..Len(s) /\ (s \o t)[k] = s[k] /\ s[k] \in Range(s)
                 \/ /\ k - Len(s) \in 1..Len(t) /\ (s \o t)[k] = t[k - Len(s)]
                    /\ t[k - Len(s)] \in Range(t)
           /\ \A k, l \in 1..Len(s \o t) : k - Len(s) = l - Len(s) => k = l
<1> DEFINE u == s \o t
           a == Len(s)
           b == Len(t)
<1>1. /\ a \in Nat /\ b \in Nat /\ u \in Seq(T) /\ Len(u) = a + b /\ DOMAIN u = 1..(a + b)
      /\ \A i \in 1..a : u[i] = s[i] /\ s[i] \in Range(s)
      /\ \A i \in 1..b : t[i] \in Range(t)
      /\ \A i \in (a + 1)..(a + b) : u[i] = t[i - a]
  BY DEF Range
<1>2. Range(s) = {s[i] : i \in 1..a} /\ Range(t) = {t[i] : i \in 1..b}
  BY DEF Range
<1>3. Range(u) = {u[i] : i \in 1..(a + b)}
  BY <1>1 DEF Range
<1> HIDE DEF u, a, b
<1>4. \A k \in 1..(a + b) : \/ k \in 1..a /\ u[k] = s[k]
                            \/ k - a \in 1..b /\ u[k] = t[k - a]
  <2> TAKE k \in 1..(a + b)
  <2>1. CASE k <= a
    <3>1. k \in 1..a
      BY <2>1, <1>1
    <3> QED
      BY <3>1, <1>1
  <2>2. CASE ~(k <= a)
    <3>1. k - a \in 1..b /\ k \in (a + 1)..(a + b)
      BY <2>2, <1>1
    <3> QED
      BY <3>1, <1>1
  <2> QED
    BY <2>1, <2>2
<1>5. \A i \in 1..a : i \in 1..(a + b)
  BY <1>1
<1>6. \A i \in 1..b : i + a \in (a + 1)..(a + b) /\ (i + a) - a = i /\ i + a \in 1..(a + b)
  BY <1>1
<1>7. \A i \in 1..(a + b) : u[i] \in Range(s) \union Range(t)
  BY <1>1, <1>4
<1>8. ASSUME NEW i \in 1..b PROVE t[i] \in Range(u)
  <2> DEFINE k == i + a
  <2>1. k \in (a + 1)..(a + b) /\ k - a = i /\ k \in 1..(a + b)
    BY <1>6
  <2> HIDE DEF k
  <2>2. u[k] = t[i]
    BY <1>1, <2>1
  <2> QED
    BY <1>3, <2>1, <2>2
<1>9. \A i \in 1..a : s[i] \in Range(u)
  BY <1>1, <1>3, <1>5
<1>10. Range(u) = Range(s) \union Range(t)
  BY <1>2, <1>3, <1>7, <1>8, <1>9
<1>11. \A k, l \in 1..(a + b) : k - a = l - a => k = l
  BY <1>1
<1>12. \A k \in 1..Len(u) :
          \/ k \in 1..a /\ u[k] = s[k] /\ s[k] \in Range(s)
          \/ k - a \in 1..b /\ u[k] = t[k - a] /\ t[k - a] \in Range(t)
  BY <1>1, <1>4
<1> QED
  BY <1>1, <1>10, <1>11, <1>12 DEF u, a, b

LEMMA LonePut ==
    ASSUME NEW T, NEW s \in Seq(T), NEW t \in Seq(T), NEW x, Lone(s, x), Lone(t, x),
           x \notin Range(s) \/ x \notin Range(t)
    PROVE  s \o t \in Seq(T) /\ Lone(s \o t, x) /\ Range(s \o t) = Range(s) \union Range(t)
BY Joined DEF Lone

LEMMA OncePut ==
    ASSUME NEW T, NEW s \in Seq(T), NEW t \in Seq(T), Once(s), Once(t),
           Range(s) \intersect Range(t) = {}
    PROVE  s \o t \in Seq(T) /\ Once(s \o t) /\ Range(s \o t) = Range(s) \union Range(t)
<1>1. \A x : Lone(s, x) /\ Lone(t, x)
  BY DEF Once, Lone
<1>2. \A x : Lone(s \o t, x)
  BY <1>1, LonePut
<1>3. Once(s \o t)
  BY <1>2 DEF Once, Lone
<1> QED
  BY <1>3, Joined

LEMMA JoinedOnce ==
    ASSUME NEW T, NEW s \in Seq(T), NEW t \in Seq(T), KeysOnce(s), KeysOnce(t),
           Keys(Range(s)) \intersect Keys(Range(t)) = {}
    PROVE  s \o t \in Seq(T) /\ KeysOnce(s \o t) /\ Range(s \o t) = Range(s) \union Range(t)
<1> DEFINE u == s \o t
           a == Len(s)
<1>1. \A x \in Range(s), y \in Range(t) : Key(x) # Key(y)
  BY DEF Keys
<1>2. /\ \A k \in 1..Len(u) : \/ k \in 1..a /\ u[k] = s[k] /\ s[k] \in Range(s)
                              \/ k - a \in 1..Len(t) /\ u[k] = t[k - a] /\ t[k - a] \in Range(t)
      /\ \A k, l \in 1..Len(u) : k - a = l - a => k = l
  BY Joined
<1> HIDE DEF u, a
<1>3. ASSUME NEW k \in 1..Len(u), NEW l \in 1..Len(u), Key(u[k]) = Key(u[l])
      PROVE  k = l
  <2>1. CASE k \in 1..a /\ u[k] = s[k] /\ s[k] \in Range(s)
    BY <1>1, <1>2, <1>3, <2>1 DEF KeysOnce, a
  <2>2. CASE k - a \in 1..Len(t) /\ u[k] = t[k - a] /\ t[k - a] \in Range(t)
    BY <1>1, <1>2, <1>3, <2>2 DEF KeysOnce
  <2> QED
    BY <1>2, <2>1, <2>2
<1>4. KeysOnce(u)
  BY <1>3 DEF KeysOnce
<1> QED
  BY <1>4, Joined DEF u

LEMMA NamedHas ==
    ASSUME NEW names \in Seq(Names), KeysOnce(names)
    PROVE  /\ Named(names) \in Seq(Names) /\ KeysOnce(Named(names))
           /\ Keys(Range(Named(names))) = Keys(Range(names))
           /\ Named(names) = <<>> <=> names = <<>>
<1> DEFINE n == Len(names)
           d == Named(names)
<1>1. n \in Nat /\ DOMAIN names = 1..n /\ \A i \in 1..n : names[i] \in Names
  OBVIOUS
<1>2. d = [i \in 1..n |-> Bare[names[i]]]
  BY <1>1 DEF Named
<1>3. \A i \in 1..n : Bare[names[i]] \in Names /\ Bare[Bare[names[i]]] = Bare[names[i]]
  BY <1>1, ScopeAssumption
<1> HIDE DEF n, d
<1>4. d \in Seq(Names) /\ Len(d) = n /\ DOMAIN d = 1..n
  BY <1>1, <1>2, <1>3
<1>5. \A i \in 1..n : Key(d[i]) = Key(names[i])
  BY <1>2, <1>3 DEF Key
<1>6. Keys(Range(d)) = {Key(d[i]) : i \in 1..n}
  BY <1>4 DEF Keys, Range
<1>7. Keys(Range(names)) = {Key(names[i]) : i \in 1..n}
  BY <1>1 DEF Keys, Range
<1>8. d = <<>> <=> names = <<>>
  BY <1>1, <1>4 DEF n
<1> QED
  BY <1>4, <1>5, <1>6, <1>7, <1>8 DEF KeysOnce, d, n

\* A share is let through by its key.
ScopedKey(k, cfg) ==
    /\ k # NoKey
    /\ cfg.shares # <<>> => k \in Keys(Range(cfg.shares))
    /\ k \notin Keys(cfg.exclude_shares)
LEMMA ShareableIs ==
    ASSUME NEW name, NEW cfg
    PROVE  Shareable(name, cfg) <=> ScopedKey(Key(name), cfg)
BY Zenon DEF Shareable, ScopedKey, NoKey

LEMMA ListedShares ==
    ASSUME NEW host \in Hosts, NEW cfg \in ScopeConfigs
    PROVE  LET listed == IF ExplicitScanShares(cfg) # <<>> THEN ExplicitScanShares(cfg)
                         ELSE ListShares(host)
               served == {s \in Range(host.shares) : Fold[s] \notin {NoKey, "ipc$", "print$"}}
           IN /\ listed \in Seq(Names) /\ KeysOnce(listed)
              /\ cfg.shares = <<>> =>
                    Keys(Range(listed)) = Keys(served \intersect host.opens)
              /\ cfg.shares # <<>> =>
                    \/ Keys(Range(listed)) = Keys(Range(cfg.shares)) \ {NoKey}
                    \/ Keys(Range(cfg.shares)) \subseteq {NoKey}
<1> DEFINE d == Distinct(cfg.shares)
           e == ExplicitScanShares(cfg)
           l == ListShares(host)
           served == {s \in Range(host.shares) : Fold[s] \notin {NoKey, "ipc$", "print$"}}
<1>1. cfg.shares \in Seq(Names) /\ host.shares \in Seq(Names) /\ KeysOnce(host.shares)
  BY ScopeAssumption DEF KeysOnce
<1>2. /\ d \in Seq(Names) /\ KeysOnce(d)
      /\ Keys(Range(d)) = Keys(Range(cfg.shares)) \ {NoKey}
      /\ Range(d) \subseteq Range(cfg.shares)
  BY <1>1, DistinctHas
<1> HIDE DEF d
<1>3. /\ e \in Seq(Names) /\ KeysOnce(e) /\ Keys(Range(e)) = Keys(Range(d))
      /\ e = <<>> <=> d = <<>>
  <2>1. e = Named(d)
    BY Zenon DEF ExplicitScanShares, d
  <2> QED
    BY <1>2, <2>1, NamedHas
<1> DEFINE S == {s \in host.opens : Fold[s] \notin {NoKey, "ipc$", "print$"}}
<1>4. l = Those(host.shares, S)
  BY Zenon DEF ListShares, NoKey
<1> HIDE DEF l, e
<1>5. l \in Seq(Names) /\ KeysOnce(l) /\ Range(l) = Range(host.shares) \intersect S
  <2> HIDE DEF S
  <2> QED
    BY <1>1, <1>4, KeptOf, KeysStayOnce
<1>6. Range(host.shares) \intersect S = served \intersect host.opens
  OBVIOUS
<1> HIDE DEF S, served
<1>7. cfg.shares = <<>> => e = <<>>
  <2> SUFFICES ASSUME cfg.shares = <<>>, d # <<>> PROVE FALSE
    BY <1>3
  <2>1. d[1] \in Range(d)
    BY <1>2 DEF Range
  <2>2. Range(<<>>) = {}
    BY DEF Range
  <2> QED
    BY <1>2, <2>1, <2>2
<1>8. e = <<>> => Keys(Range(cfg.shares)) \subseteq {NoKey}
  <2> SUFFICES ASSUME d = <<>> PROVE Keys(Range(cfg.shares)) \subseteq {NoKey}
    BY <1>3
  <2>1. Keys(Range(d)) = {}
    BY DEF Range, Keys
  <2> QED
    BY <1>2, <2>1
<1> QED
  BY <1>2, <1>3, <1>5, <1>6, <1>7, <1>8 DEF e, l, served

\* The keys that the specification of the scope names.
NamedIn(host, cfg) ==
    LET served == {s \in Range(host.shares) : Fold[s] \notin {NoKey, "ipc$", "print$"}}
    IN IF cfg.shares = <<>> THEN served \intersect host.opens ELSE Range(cfg.shares)

LEMMA SharesInScopeAre ==
    ASSUME NEW host, NEW cfg
    PROVE  SharesInScope(host, cfg) =
               {k \in Keys(NamedIn(host, cfg) \union Range(host.dfs)) :
                   ScopedKey(k, cfg) /\ (cfg.only_ad => k \in ADShares)}
<1> DEFINE all == {Fold[Bare[s]] : s \in NamedIn(host, cfg) \union Range(host.dfs)} \ {NoKey}
<1>1. SharesInScope(host, cfg) =
          {s \in all : /\ s \notin {Fold[Bare[x]] : x \in cfg.exclude_shares}
                       /\ cfg.shares # <<>> => s \in {Fold[Bare[x]] : x \in Range(cfg.shares)}
                       /\ cfg.only_ad => s \in {"sysvol", "netlogon"}}
  BY Zenon DEF SharesInScope, NamedIn, NoKey
<1>2. all = Keys(NamedIn(host, cfg) \union Range(host.dfs)) \ {NoKey}
  BY DEF Keys, Key
<1>3. \A S : Keys(S) = {Fold[Bare[x]] : x \in S}
  BY DEF Keys, Key
<1> HIDE DEF all
<1> QED
  BY <1>1, <1>2, <1>3 DEF ScopedKey, ADShares

LEMMA PlansAreInScope ==
    ASSUME NEW host \in Hosts, NEW cfg \in ScopeConfigs
    PROVE  LET plan == PlanShares(host, cfg)
           IN /\ {Fold[plan[i].share] : i \in DOMAIN plan} = SharesInScope(host, cfg)
              /\ Len(plan) = Cardinality(SharesInScope(host, cfg))
<1> DEFINE listed == IF ExplicitScanShares(cfg) # <<>> THEN ExplicitScanShares(cfg)
                     ELSE ListShares(host)
           hints == DFSHints(host)
           H == {s \in Range(host.dfs) :
                    Key(s) \notin Keys(Range(listed)) /\ Shareable(s, cfg)}
           hinted == Those(hints, H)
           all == listed \o hinted
           A == {s \in Range(all) :
                    Shareable(s, cfg) /\ (cfg.only_ad => Key(s) \in ADShares)}
           inScope == Those(all, A)
           source(i) == IF Key(inScope[i]) \in Keys(Range(hints)) THEN "dfs"
                        ELSE host.source
           items == [i \in DOMAIN inScope |->
                        [share |-> Bare[inScope[i]], source |-> source(i),
                         priority |-> ScoreShare(inScope[i], source(i), cfg)]]
           plan == PlanShares(host, cfg)
           K == SharesInScope(host, cfg)
<1>1. plan = ByPriority(items)
  BY DEF PlanShares
<1>2. /\ listed \in Seq(Names) /\ KeysOnce(listed)
      /\ cfg.shares = <<>> =>
            Keys(Range(listed)) = Keys(NamedIn(host, cfg))
      /\ cfg.shares # <<>> =>
            \/ Keys(Range(listed)) = Keys(NamedIn(host, cfg)) \ {NoKey}
            \/ Keys(NamedIn(host, cfg)) \subseteq {NoKey}
  BY ListedShares DEF NamedIn
<1> HIDE DEF listed, plan, K
<1>3. /\ hints \in Seq(Names) /\ KeysOnce(hints) /\ Range(hints) \subseteq Range(host.dfs)
      /\ Keys(Range(hints)) = Keys(Range(host.dfs)) \ {NoKey}
  <2>1. host.dfs \in Seq(Names)
    BY ScopeAssumption
  <2> QED
    BY <2>1, DistinctHas DEF DFSHints
<1> HIDE DEF hints
<1>4. \A s : s \in H <=> /\ s \in Range(host.dfs) /\ Key(s) \notin Keys(Range(listed))
                         /\ ScopedKey(Key(s), cfg)
  BY ShareableIs
<1> HIDE DEF H
<1>5. hinted \in Seq(Names) /\ KeysOnce(hinted) /\ Range(hinted) = Range(hints) \intersect H
  BY <1>3, KeptOf, KeysStayOnce
<1> HIDE DEF hinted
<1>6. Keys(Range(listed)) \intersect Keys(Range(hinted)) = {}
  BY <1>4, <1>5 DEF Keys
<1>7. all \in Seq(Names) /\ KeysOnce(all) /\ Range(all) = Range(listed) \union Range(hinted)
  <2>1. listed \in Seq(Names) /\ KeysOnce(listed)
    BY <1>2
  <2>2. hinted \in Seq(Names) /\ KeysOnce(hinted)
    BY <1>5
  <2> HIDE DEF A, inScope, source, items
  <2>3. /\ listed \o hinted \in Seq(Names) /\ KeysOnce(listed \o hinted)
        /\ Range(listed \o hinted) = Range(listed) \union Range(hinted)
    BY <2>1, <2>2, <1>6, JoinedOnce
  <2> QED
    BY <2>3, Zenon
<1> HIDE DEF all
<1>8. \A s : s \in A <=> /\ s \in Range(all) /\ ScopedKey(Key(s), cfg)
                         /\ cfg.only_ad => Key(s) \in ADShares
  BY ShareableIs
<1> HIDE DEF A
<1>9. inScope \in Seq(Names) /\ KeysOnce(inScope) /\ Range(inScope) = A
  <2>1. inScope \in Seq(Names) /\ Picks(inScope, all) /\ Range(inScope) = Range(all) \intersect A
    BY <1>7, KeptOf, Zenon
  <2>2. Range(all) \intersect A = A
    BY <1>8
  <2> HIDE DEF inScope
  <2> QED
    BY <1>7, <2>1, <2>2, KeysStayOnce
<1>10. Keys(A) = K
  <2> DEFINE L == Keys(Range(listed))
             D == Keys(Range(host.dfs))
             N == Keys(NamedIn(host, cfg))
             Ok(k) == ScopedKey(k, cfg) /\ (cfg.only_ad => k \in ADShares)
  <2>1. K = {k \in N \union D : Ok(k)}
    <3>1. Keys(NamedIn(host, cfg) \union Range(host.dfs)) = N \union D
      BY DEF Keys
    <3> QED
      BY <3>1, SharesInScopeAre DEF K
  <2>2. \A k : ScopedKey(k, cfg) => k # NoKey /\ (cfg.shares # <<>> => k \in Keys(Range(cfg.shares)))
    BY DEF ScopedKey
  <2>3. Keys(Range(hinted)) = {k \in D \ {NoKey} : k \notin L /\ ScopedKey(k, cfg)}
    <3>1. \A k : k \in Keys(Range(hinted)) =>
                    k \in D \ {NoKey} /\ k \notin L /\ ScopedKey(k, cfg)
      BY <1>3, <1>4, <1>5 DEF Keys
    <3>2. ASSUME NEW k \in D \ {NoKey}, k \notin L, ScopedKey(k, cfg)
          PROVE  k \in Keys(Range(hinted))
      <4>1. PICK s \in Range(hints) : k = Key(s)
        BY <1>3 DEF Keys
      <4>2. s \in H
        BY <1>3, <1>4, <3>2, <4>1
      <4> QED
        BY <1>5, <4>1, <4>2 DEF Keys
    <3> QED
      BY <3>1, <3>2
  <2>4. Keys(A) = {k \in L \union Keys(Range(hinted)) : Ok(k)}
    BY <1>7, <1>8 DEF Keys
  <2>5. ASSUME NEW k, Ok(k) PROVE k \in N \union D <=> k \in L \union Keys(Range(hinted))
    <3>1. k \in L \union Keys(Range(hinted)) <=> k \in L \union D
      BY <2>2, <2>3, <2>5
    <3>2. k \in N <=> k \in L
      <4>1. CASE cfg.shares = <<>>
        BY <1>2, <4>1
      <4>2. CASE cfg.shares # <<>>
        <5>1. k \in N /\ k # NoKey
          BY <2>2, <2>5, <4>2 DEF NamedIn
        <5> QED
          BY <1>2, <4>2, <5>1
      <4> QED
        BY <4>1, <4>2
    <3> QED
      BY <3>1, <3>2
  <2> HIDE DEF N, D, L, Ok
  <2> QED
    BY <2>1, <2>4, <2>5
<1> DEFINE n == Len(inScope)
<1>11. n \in Nat /\ DOMAIN inScope = 1..n /\ \A i \in 1..n : inScope[i] \in Names
  BY <1>9
<1>12. \A i \in 1..n : /\ items[i].share = Bare[inScope[i]]
                       /\ items[i].priority \in Int
  BY <1>11, ScoresAreNumbers
<1>13. items \in Seq({items[i] : i \in 1..n}) /\ Len(items) = n /\ DOMAIN items = 1..n
  <2>1. items = [i \in 1..n |-> items[i]]
    BY <1>11
  <2> HIDE DEF items, inScope, n
  <2> QED
    BY <1>11, <2>1
<1> HIDE DEF items, inScope, n
<1>14. /\ Len(plan) = n /\ Range(plan) = Range(items) /\ DOMAIN plan = 1..n
  BY <1>1, <1>11, <1>12, <1>13, ByPriorityPermutes
<1>15. \A i \in 1..n : Fold[items[i].share] = Key(inScope[i])
  BY <1>11, <1>12 DEF Key
<1>16. {Fold[plan[i].share] : i \in DOMAIN plan} = {Fold[items[i].share] : i \in 1..n}
  <2>1. {Fold[plan[i].share] : i \in DOMAIN plan} = {Fold[r.share] : r \in Range(plan)}
    BY DEF Range
  <2>2. {Fold[items[i].share] : i \in 1..n} = {Fold[r.share] : r \in Range(items)}
    BY <1>13 DEF Range
  <2> QED
    BY <1>14, <2>1, <2>2
<1>17. {Fold[items[i].share] : i \in 1..n} = Keys(Range(inScope))
  BY <1>11, <1>15 DEF Keys, Range
<1>18. n = Cardinality(K)
  <2> DEFINE f == [i \in 1..n |-> Key(inScope[i])]
  <2>1. f \in Bijection(1..n, K)
    <3>1. Keys(Range(inScope)) = K
      BY <1>9, <1>10
    <3>2. Keys(Range(inScope)) = {Key(inScope[i]) : i \in 1..n}
      BY <1>11 DEF Keys, Range
    <3>3. \A i, j \in 1..n : f[i] = f[j] => i = j
      BY <1>9 DEF KeysOnce, n
    <3> QED
      BY <3>1, <3>2, <3>3 DEF Bijection, Injection, Surjection, IsInjective
  <2> HIDE DEF f
  <2>2. IsFiniteSet(1..n) /\ Cardinality(1..n) = n
    BY <1>11, FS_Interval
  <2> QED
    BY <2>1, <2>2, FS_Bijection DEF ExistsBijection
<1> QED
  BY <1>9, <1>10, <1>14, <1>16, <1>17, <1>18 DEF plan, K

LEMMA FrontAndLast ==
    ASSUME NEW R, NEW s \in Seq(R), s # <<>>
    PROVE  /\ Last(s) \in R /\ Front(s) \in Seq(R)
           /\ Range(s) = Range(Front(s)) \union {Last(s)}
           /\ Once(s) => Once(Front(s)) /\ Last(s) \notin Range(Front(s))
<1> DEFINE n == Len(s) - 1
           f == Front(s)
           l == Last(s)
<1>1. n \in Nat /\ DOMAIN s = 1..(n + 1) /\ \A i \in 1..(n + 1) : s[i] \in R
  OBVIOUS
<1>2. l = s[n + 1]
  BY <1>1 DEF Last
<1>3. f \in Seq(R) /\ Len(f) = n /\ DOMAIN f = 1..n /\ \A i \in 1..n : f[i] = s[i]
  BY <1>1 DEF Front
<1>4. Len(s) = n + 1
  BY <1>1
<1> HIDE DEF n, f, l
<1>5. Range(f) = {s[i] : i \in 1..n} /\ Range(s) = {s[i] : i \in 1..(n + 1)}
  BY <1>1, <1>3 DEF Range
<1>6. 1..(n + 1) = 1..n \union {n + 1}
  BY <1>1
<1>7. Range(s) = Range(f) \union {l}
  BY <1>2, <1>5, <1>6
<1>8. ASSUME Once(s) PROVE Once(f) /\ l \notin Range(f)
  <2>1. \A i, j \in 1..(n + 1) : s[i] = s[j] => i = j
    BY <1>4, <1>8 DEF Once
  <2>2. \A i \in 1..n : i \in 1..(n + 1) /\ i # n + 1
    BY <1>1
  <2>3. n + 1 \in 1..(n + 1)
    BY <1>1
  <2>4. Once(f)
    BY <1>3, <2>1, <2>2 DEF Once
  <2>5. l \notin Range(f)
    BY <1>2, <1>5, <2>1, <2>2, <2>3
  <2> QED
    BY <2>4, <2>5
<1> QED
  BY <1>1, <1>2, <1>3, <1>7, <1>8 DEF f, l

Walks(R) == [stack : Seq(R), files : Seq(R), ok : BOOLEAN]
\* What a directory that opens adds to the walk.
BelowOf(share, cfg, dir) ==
    {e \in Range(share) : /\ e.path # <<>> /\ Front(e.path) = dir.path
                          /\ e.dir /\ ShouldDescend(e.path, cfg)}
FilesOf(share, cfg, dir) ==
    {e \in Range(share) : /\ e.path # <<>> /\ Front(e.path) = dir.path
                          /\ ~e.dir /\ ShouldInclude(e.path, cfg)}

LEMMA Visits ==
    ASSUME NEW share, IsList(share), NEW cfg, NEW w \in Walks(Range(share))
    PROVE  LET dir == Last(w.stack)
               below == Those(share, BelowOf(share, cfg, dir))
               files == Those(share, FilesOf(share, cfg, dir))
               v == Visit(share, cfg, w)
           IN /\ v \in Walks(Range(share))
              /\ w.stack = <<>> \/ ~w.ok => v = w
              /\ w.stack # <<>> /\ w.ok =>
                    /\ dir.opens = "denied" =>
                          v.stack = Front(w.stack) /\ v.files = w.files /\ v.ok
                    /\ dir.opens = "fails" => v.stack = w.stack /\ v.files = w.files /\ ~v.ok
                    /\ dir.opens \notin {"denied", "fails"} =>
                          /\ v.stack = Front(w.stack) \o below
                          /\ v.files = w.files \o files /\ v.ok
<1> DEFINE R == Range(share)
           dir == Last(w.stack)
           here == {e \in Range(share) : e.path # <<>> /\ Front(e.path) = dir.path}
           B == {e \in here : e.dir /\ ShouldDescend(e.path, cfg)}
           F == {e \in here : ~e.dir /\ ShouldInclude(e.path, cfg)}
           below == Those(share, B)
           files == Those(share, F)
           v == Visit(share, cfg, w)
<1>1. v = IF w.stack = <<>> \/ ~w.ok THEN w
          ELSE IF dir.opens = "denied" THEN [w EXCEPT !.stack = Front(@)]
          ELSE IF dir.opens = "fails" THEN [w EXCEPT !.ok = FALSE]
          ELSE [w EXCEPT !.stack = Front(@) \o below, !.files = @ \o files]
  BY Zenon DEF Visit
<1>2. B = BelowOf(share, cfg, dir) /\ F = FilesOf(share, cfg, dir)
  BY DEF BelowOf, FilesOf
<1>3. below \in Seq(R) /\ files \in Seq(R)
  <2> HIDE DEF B, F
  <2> QED
    BY KeptOf DEF IsList
<1>4. w.stack \in Seq(R) /\ w.files \in Seq(R) /\ w.ok \in BOOLEAN
  BY DEF Walks
<1>5. w.stack # <<>> => Front(w.stack) \in Seq(R)
  BY <1>4, FrontAndLast
<1> HIDE DEF v, B, F, below, files, dir, R
<1>6. /\ w.stack = <<>> \/ ~w.ok => v = w
      /\ w.stack # <<>> /\ w.ok =>
            /\ dir.opens = "denied" =>
                  v = [stack |-> Front(w.stack), files |-> w.files, ok |-> w.ok]
            /\ dir.opens = "fails" => v = [stack |-> w.stack, files |-> w.files, ok |-> FALSE]
            /\ dir.opens \notin {"denied", "fails"} =>
                  v = [stack |-> Front(w.stack) \o below, files |-> w.files \o files, ok |-> w.ok]
  <2>1. w = [stack |-> w.stack, files |-> w.files, ok |-> w.ok]
    BY DEF Walks
  <2> QED
    BY <1>1, <2>1 DEF Walks
<1>7. v \in Walks(R)
  <2>1. w \in Walks(R)
    BY DEF R
  <2>2. w.stack # <<>> => Front(w.stack) \o below \in Seq(R) /\ w.files \o files \in Seq(R)
    BY <1>3, <1>4, <1>5
  <2>3. \A a, b \in Seq(R), c \in BOOLEAN : [stack |-> a, files |-> b, ok |-> c] \in Walks(R)
    BY DEF Walks
  <2> QED
    BY <1>4, <1>5, <1>6, <2>1, <2>2, <2>3
<1>8. below = Those(share, BelowOf(share, cfg, dir)) /\ files = Those(share, FilesOf(share, cfg, dir))
  BY <1>2 DEF below, files
<1>9. w.stack # <<>> /\ w.ok =>
         /\ dir.opens = "denied" =>
               v.stack = Front(w.stack) /\ v.files = w.files /\ v.ok
         /\ dir.opens = "fails" => v.stack = w.stack /\ v.files = w.files /\ ~v.ok
         /\ dir.opens \notin {"denied", "fails"} =>
               v.stack = Front(w.stack) \o below /\ v.files = w.files \o files /\ v.ok
  BY <1>6
<1> HIDE DEF below, files
<1> QED
  BY <1>6, <1>7, <1>8, <1>9 DEF v, dir, R

\* The states the walk of a share runs through.
RunsWalk(w, share, cfg) ==
    /\ \E r \in Range(share) : r.path = <<>> /\ w[0] = [stack |-> <<r>>, files |-> <<>>, ok |-> TRUE]
    /\ \A i \in 1..Len(share) : w[i] = Visit(share, cfg, w[i - 1])
    /\ w[Len(share)] = WalkShare(share, cfg)

LEMMA WalkRuns ==
    ASSUME NEW share, IsList(share), \E d \in Range(share) : d.path = <<>>, NEW cfg
    PROVE  \E w \in [0..Len(share) -> Walks(Range(share))] : RunsWalk(w, share, cfg)
<1> DEFINE n == Len(share)
           R == Range(share)
           W == Walks(R)
           root == share[CHOOSE i \in DOMAIN share : share[i].path = <<>>]
           start == [stack |-> <<root>>, files |-> <<>>, ok |-> TRUE]
           max == [s \in SUBSET (1..n) |-> Max(s)]
           op == [p \in W \X (1..n) |-> Visit(share, cfg, p[1])]
           Runs(f) == f = [s \in SUBSET (1..n) |->
                               IF s = {} THEN start
                               ELSE Visit(share, cfg, f[s \ {Max(s)}])]
           iter == CHOOSE f : Runs(f)
<1>1. n \in Nat /\ DOMAIN share = 1..n
  BY DEF IsList
<1>2. WalkShare(share, cfg) = iter[1..n]
  BY <1>1 DEF WalkShare, FoldLeft, MapThenFoldSet
<1>3. IsLast(max, n)
  BY GreatestOf, <1>1 DEF IsLast
<1>4. op \in [W \X (1..n) -> W]
  <2>1. \A x \in W : Visit(share, cfg, x) \in W
    BY Visits
  <2> HIDE DEF W
  <2> QED
    BY <2>1
<1>5. \A x \in W, i \in 1..n : op[<<x, i>>] = Visit(share, cfg, x)
  OBVIOUS
<1>6. start \in W /\ root \in R /\ root.path = <<>>
  <2>1. root \in R /\ root.path = <<>>
    BY DEF Range
  <2> HIDE DEF root
  <2>2. <<root>> \in Seq(R) /\ <<>> \in Seq(R)
    BY <2>1
  <2> HIDE DEF R
  <2> QED
    BY <2>1, <2>2 DEF Walks
<1> HIDE DEF n, op, W, start, root, R
<1>7. PICK g \in [SUBSET (1..n) -> W] : IsFold(g, start, op, max, n)
  <2> HIDE DEF max
  <2> QED
    BY <1>1, <1>3, <1>4, <1>6, FoldExists
<1>8. \E f : Runs(f)
  <2>1. ASSUME NEW s \in SUBSET (1..n)
        PROVE  g[s] = IF s = {} THEN start ELSE Visit(share, cfg, g[s \ {Max(s)}])
    <3>1. CASE s = {}
      BY <3>1, <1>7 DEF IsFold
    <3>2. CASE s # {}
      <4>1. max[s] = Max(s) /\ max[s] \in 1..n
        BY <1>3, <3>2 DEF IsLast
      <4>2. s \ {max[s]} \in SUBSET (1..n)
        OBVIOUS
      <4>3. g[s \ {max[s]}] \in W
        BY <4>2
      <4>4. g[s] = op[<<g[s \ {max[s]}], max[s]>>]
        BY <1>7, <3>2 DEF IsFold
      <4> HIDE DEF max
      <4> QED
        BY <1>5, <3>2, <4>1, <4>3, <4>4
    <3> QED
      BY <3>1, <3>2
  <2>2. g = [s \in SUBSET (1..n) |->
                 IF s = {} THEN start ELSE Visit(share, cfg, g[s \ {Max(s)}])]
    BY <2>1
  <2> QED
    BY <2>2
<1>9. Runs(iter)
  <2> HIDE DEF Runs
  <2> QED
    BY <1>8
<1> HIDE DEF iter
<1>10. iter[{}] = start
  BY <1>9
<1>11. ASSUME NEW s \in SUBSET (1..n), s # {}, iter[s \ {max[s]}] \in W
       PROVE  iter[s] = op[<<iter[s \ {max[s]}], max[s]>>]
  <2>1. max[s] = Max(s) /\ max[s] \in 1..n
    BY <1>3, <1>11 DEF IsLast
  <2>2. iter[s] = Visit(share, cfg, iter[s \ {Max(s)}])
    <3> HIDE DEF max
    <3> QED
      BY <1>9, <1>11
  <2> HIDE DEF max
  <2> QED
    BY <1>5, <1>11, <2>1, <2>2
<1>12. PICK w \in [0..n -> W] : IsRun(w, start, op, n, iter[1..n])
  <2> HIDE DEF max, Runs
  <2>1. IsFoldWithin(iter, W, start, op, max, n)
    BY <1>10, <1>11 DEF IsFoldWithin
  <2>2. n \in Nat
    BY <1>1
  <2> QED
    BY <2>1, <2>2, <1>3, <1>4, <1>6, FoldRuns
<1>13. \A i \in 1..n : w[i] = Visit(share, cfg, w[i - 1])
  <2> TAKE i \in 1..n
  <2>1. i - 1 \in 0..n
    BY <1>1
  <2> QED
    BY <2>1, <1>5, <1>12 DEF IsRun
<1>14. w[0] = start /\ w[n] = iter[1..n]
  BY <1>12 DEF IsRun
<1>15. RunsWalk(w, share, cfg)
  BY <1>2, <1>6, <1>13, <1>14 DEF RunsWalk, n, start, R
<1> QED
  BY <1>12, <1>15 DEF n, W, R

\* The directories a path lies in.
Parents(path) == {SubSeq(path, 1, n) : n \in 0..Len(path) - 1}

LEMMA Parts ==
    ASSUME NEW path \in Seq(Names), NEW n \in 0..Len(path)
    PROVE  /\ SubSeq(path, 1, n) \in Seq(Names) /\ Len(SubSeq(path, 1, n)) = n
           /\ DOMAIN SubSeq(path, 1, n) = 1..n
           /\ \A i \in 1..n : SubSeq(path, 1, n)[i] = path[i]
           /\ \A m \in 0..n : SubSeq(SubSeq(path, 1, n), 1, m) = SubSeq(path, 1, m)
<1> DEFINE q == SubSeq(path, 1, n)
<1>1. q \in Seq(Names) /\ Len(q) = n /\ DOMAIN q = 1..n /\ \A i \in 1..n : q[i] = path[i]
  OBVIOUS
<1>2. ASSUME NEW m \in 0..n PROVE SubSeq(q, 1, m) = SubSeq(path, 1, m)
  <2>1. \A i \in 1..m : q[i] = path[i]
    BY <1>1
  <2>2. SubSeq(q, 1, m) = [i \in 1..m |-> q[i]] /\ SubSeq(path, 1, m) = [i \in 1..m |-> path[i]]
    <3> HIDE DEF q
    <3>1. /\ SubSeq(q, 1, m) \in Seq(Names) /\ Len(SubSeq(q, 1, m)) = m
          /\ \A i \in 1..m : SubSeq(q, 1, m)[i] = q[i]
      BY <1>1
    <3>2. /\ SubSeq(path, 1, m) \in Seq(Names) /\ Len(SubSeq(path, 1, m)) = m
          /\ \A i \in 1..m : SubSeq(path, 1, m)[i] = path[i]
      OBVIOUS
    <3>3. \A s \in Seq(Names) : s = [i \in 1..Len(s) |-> s[i]]
      OBVIOUS
    <3> QED
      BY <3>1, <3>2, <3>3
  <2> HIDE DEF q
  <2> QED
    BY <2>1, <2>2
<1> QED
  BY <1>1, <1>2

LEMMA ParentsAre ==
    ASSUME NEW path \in Seq(Names), path # <<>>
    PROVE  /\ Front(path) = SubSeq(path, 1, Len(path) - 1)
           /\ Front(path) \in Seq(Names) /\ Len(Front(path)) = Len(path) - 1
           /\ Front(path) # path
           /\ Parents(path) = Parents(Front(path)) \union {Front(path)}
<1> DEFINE n == Len(path) - 1
           f == Front(path)
<1>1. n \in Nat /\ n \in 0..Len(path) /\ n # Len(path) /\ Len(path) = n + 1
  OBVIOUS
<1>2. f = SubSeq(path, 1, n)
  BY DEF Front
<1> HIDE DEF n, f
<1>3. /\ f \in Seq(Names) /\ Len(f) = n
      /\ \A m \in 0..n : SubSeq(f, 1, m) = SubSeq(path, 1, m)
  BY <1>1, <1>2, Parts
<1>4. SubSeq(f, 1, n) = f
  BY <1>1, <1>2, <1>3
<1>5. Parents(path) = {SubSeq(path, 1, m) : m \in 0..n}
  BY DEF Parents, n
<1>6. Parents(f) = {SubSeq(f, 1, m) : m \in 0..n - 1}
  BY <1>3 DEF Parents
<1>7. \A m : m \in 0..n <=> m \in 0..n - 1 \/ m = n
  BY <1>1
<1>8. Parents(path) = Parents(f) \union {f}
  BY <1>1, <1>2, <1>3, <1>5, <1>6, <1>7
<1> QED
  BY <1>1, <1>2, <1>3, <1>8 DEF n, f

\* Where the server lists what the walk meets.
LEMMA Listing ==
    ASSUME NEW share \in Shares
    PROVE  /\ IsList(share) /\ Once(share) /\ IsFiniteSet(Range(share))
           /\ Cardinality(Range(share)) = Len(share)
           /\ \A e, d \in Range(share) : e.path = d.path => e = d
           /\ \A e \in Range(share) :
                 /\ e.path \in Seq(Names) /\ e.opens \in {"yes", "denied", "fails"}
                 /\ \A q \in Parents(e.path) : \E d \in Range(share) : d.dir /\ d.path = q
           /\ \E r \in Range(share) : r.dir /\ r.path = <<>>
<1>1. /\ IsList(share) /\ \A i, j \in DOMAIN share : share[i].path = share[j].path => i = j
      /\ \E d \in Range(share) : d.dir /\ d.path = <<>>
      /\ \A e \in Range(share) :
                /\ e.path \in Seq(Names) /\ e.opens \in {"yes", "denied", "fails"}
                /\ \A n \in 0..Len(e.path) - 1 :
                      \E d \in Range(share) : d.dir /\ d.path = SubSeq(e.path, 1, n)
  BY ScopeAssumption
<1> DEFINE n == Len(share)
<1>2. n \in Nat /\ DOMAIN share = 1..n /\ Range(share) = {share[i] : i \in 1..n}
  BY <1>1 DEF IsList, Range
<1>3. Once(share)
  BY <1>1, <1>2 DEF Once
<1>4. \A e, d \in Range(share) : e.path = d.path => e = d
  BY <1>1, <1>2
<1>5. share \in Bijection(1..n, Range(share))
  BY <1>1, <1>2, <1>3 DEF Bijection, Injection, Surjection, IsInjective, IsList, Once
<1>6. IsFiniteSet(1..n) /\ Cardinality(1..n) = n
  <2> HIDE DEF n
  <2> QED
    BY <1>2, FS_Interval
<1>7. IsFiniteSet(Range(share)) /\ Cardinality(Range(share)) = n
  BY <1>5, <1>6, FS_Bijection DEF ExistsBijection
<1> QED
  BY <1>1, <1>3, <1>4, <1>7 DEF Parents

OpenAbove(e, share) == \A d \in Range(share) : d.dir /\ d.path \in Parents(e.path) => d.opens = "yes"
\* D has the parent of e.
Below(e, D) == \E d \in D : e.path # <<>> /\ d.path = Front(e.path)

\* The walk met the directories D, k of them as long as it has more to do.
Walked(w, D, k, share, cfg) ==
    /\ D \subseteq Range(share) /\ Once(w.stack) /\ Once(w.files) /\ Range(w.stack) \intersect D = {}
    /\ \A e \in Range(w.stack) \union D :
          /\ e.dir /\ OpenAbove(e, share)
          /\ e.path = <<>> \/ Below(e, D)
    /\ \E r \in Range(w.stack) \union D : r.path = <<>>
    /\ \A e \in Range(w.files) : /\ ~e.dir /\ ShouldInclude(e.path, cfg) /\ Below(e, D)
                                 /\ OpenAbove(e, share)
    /\ \A d \in D : d.opens = "yes" =>
          /\ BelowOf(share, cfg, d) \subseteq Range(w.stack) \union D
          /\ FilesOf(share, cfg, d) \subseteq Range(w.files)
    /\ w.ok /\ w.stack # <<>> => Cardinality(D) = k

LEMMA WalkStarts ==
    ASSUME NEW share \in Shares, NEW cfg, NEW r \in Range(share), r.path = <<>>
    PROVE  Walked([stack |-> <<r>>, files |-> <<>>, ok |-> TRUE], {}, 0, share, cfg)
<1> DEFINE w == [stack |-> <<r>>, files |-> <<>>, ok |-> TRUE]
<1>1. Range(w.stack) = {r} /\ Range(w.files) = {} /\ Once(w.stack) /\ Once(w.files)
  BY DEF Range, Once
<1>2. r.dir
  BY Listing
<1>3. Parents(r.path) = {}
  BY DEF Parents
<1>4. Cardinality({}) = 0
  BY FS_EmptySet
<1> QED
  BY <1>1, <1>2, <1>3, <1>4 DEF Walked, OpenAbove

LEMMA WalkSteps ==
    ASSUME NEW share \in Shares, NEW cfg, NEW w \in Walks(Range(share)), NEW D, NEW k \in Nat,
           Walked(w, D, k, share, cfg)
    PROVE  \E E : Walked(Visit(share, cfg, w), E, k + 1, share, cfg)
<1> DEFINE R == Range(share)
           dir == Last(w.stack)
           rest == Front(w.stack)
           B == BelowOf(share, cfg, dir)
           F == FilesOf(share, cfg, dir)
           below == Those(share, B)
           files == Those(share, F)
           v == Visit(share, cfg, w)
           E == D \union {dir}
           C == Range(w.stack)
           L == Range(w.files)
           Cv == Range(v.stack)
           Lv == Range(v.files)
<1>1. /\ IsList(share) /\ Once(share) /\ IsFiniteSet(R)
      /\ \A e, d \in R : e.path = d.path => e = d
      /\ \A e \in R : e.path \in Seq(Names) /\ e.opens \in {"yes", "denied", "fails"}
  BY Listing
<1>2. /\ v \in Walks(R)
      /\ w.stack = <<>> \/ ~w.ok => v = w
      /\ w.stack # <<>> /\ w.ok =>
            /\ dir.opens = "denied" => v.stack = rest /\ v.files = w.files /\ v.ok
            /\ dir.opens = "fails" => v.stack = w.stack /\ v.files = w.files /\ ~v.ok
            /\ dir.opens \notin {"denied", "fails"} =>
                  v.stack = rest \o below /\ v.files = w.files \o files /\ v.ok
  BY <1>1, Visits
<1>3. /\ D \subseteq R /\ Once(w.stack) /\ Once(w.files) /\ C \intersect D = {}
      /\ \A e \in C \union D : e.dir /\ OpenAbove(e, share) /\ (e.path = <<>> \/ Below(e, D))
      /\ \E r \in C \union D : r.path = <<>>
      /\ \A e \in L : /\ ~e.dir /\ ShouldInclude(e.path, cfg) /\ Below(e, D)
                      /\ OpenAbove(e, share)
      /\ \A d \in D : d.opens = "yes" =>
            BelowOf(share, cfg, d) \subseteq C \union D /\ FilesOf(share, cfg, d) \subseteq L
      /\ w.ok /\ w.stack # <<>> => Cardinality(D) = k
  BY DEF Walked
<1>4. w.stack \in Seq(R) /\ w.files \in Seq(R) /\ C \subseteq R /\ L \subseteq R
  BY DEF Walks, Range
<1>5. CASE w.stack = <<>> \/ ~w.ok
  <2>1. v = w
    BY <1>2, <1>5
  <2> HIDE DEF v
  <2>2. Walked(w, D, k + 1, share, cfg)
    BY <1>3, <1>5 DEF Walked
  <2> QED
    BY <2>1, <2>2 DEF v
<1>6. CASE w.stack # <<>> /\ w.ok /\ dir.opens = "fails"
  <2>1. v.stack = w.stack /\ v.files = w.files /\ ~v.ok
    BY <1>2, <1>6
  <2> HIDE DEF v
  <2>2. Walked(v, D, k + 1, share, cfg)
    BY <1>3, <2>1 DEF Walked
  <2> QED
    BY <2>2 DEF v
<1>7. ASSUME w.stack # <<>>, w.ok
      PROVE  /\ dir \in R /\ dir \notin Range(rest) /\ rest \in Seq(R) /\ Once(rest)
             /\ C = Range(rest) \union {dir}
             /\ dir \in C /\ dir \notin D
             /\ Cardinality(E) = k + 1
             /\ \A e \in R : Below(e, E) <=> Below(e, D) \/ (e.path # <<>> /\ dir.path = Front(e.path))
             /\ dir.dir /\ OpenAbove(dir, share)
  <2>1. /\ dir \in R /\ rest \in Seq(R) /\ C = Range(rest) \union {dir}
        /\ Once(rest) /\ dir \notin Range(rest)
    BY <1>3, <1>4, <1>7, FrontAndLast
  <2> HIDE DEF dir, rest
  <2>2. dir \in C /\ dir \notin D
    BY <2>1, <1>3
  <2>3. Cardinality(E) = k + 1
    <3>1. IsFiniteSet(D)
      BY <1>1, <1>3, FS_Subset
    <3> QED
      BY <3>1, <2>2, <1>3, <1>7, FS_AddElement
  <2>4. \A e \in R : Below(e, E) <=> Below(e, D) \/ (e.path # <<>> /\ dir.path = Front(e.path))
    BY DEF Below
  <2> QED
    BY <2>1, <2>2, <2>3, <2>4, <1>3
<1>8. CASE w.stack # <<>> /\ w.ok /\ dir.opens = "denied"
  <2>1. v.stack = rest /\ v.files = w.files /\ v.ok
    BY <1>2, <1>8
  <2>2. /\ dir \in R /\ dir \notin Range(rest) /\ Once(rest) /\ C = Range(rest) \union {dir}
        /\ dir \in C /\ dir \notin D /\ Cardinality(E) = k + 1
        /\ \A e \in R : Below(e, D) => Below(e, E)
    BY <1>7, <1>8
  <2>3. dir.opens # "yes"
    BY <1>8
  <2> HIDE DEF v, dir, rest, E
  <2>4. Cv \union E = C \union D /\ Cv \intersect E = {} /\ E \subseteq R /\ Cv \subseteq C /\ Lv = L
    BY <2>1, <2>2, <1>3 DEF E
  <2>5. \A d \in E : d.opens = "yes" => d \in D
    BY <2>3 DEF E
  <2>6. \A e \in Cv \union E : e.dir /\ OpenAbove(e, share) /\ (e.path = <<>> \/ Below(e, E))
    BY <1>3, <1>4, <2>2, <2>4
  <2>7. \A e \in Lv : ~e.dir /\ ShouldInclude(e.path, cfg) /\ Below(e, E) /\ OpenAbove(e, share)
    BY <1>3, <1>4, <2>2, <2>4
  <2>8. \A d \in E : d.opens = "yes" =>
           BelowOf(share, cfg, d) \subseteq Cv \union E /\ FilesOf(share, cfg, d) \subseteq Lv
    BY <1>3, <2>4, <2>5
  <2>9. \E r \in Cv \union E : r.path = <<>>
    BY <1>3, <2>4
  <2>10. Walked(v, E, k + 1, share, cfg)
    BY <1>3, <2>1, <2>2, <2>4, <2>6, <2>7, <2>8, <2>9 DEF Walked
  <2> QED
    BY <2>10 DEF v
<1>9. CASE w.stack # <<>> /\ w.ok /\ dir.opens \notin {"denied", "fails"}
  <2>1. v.stack = rest \o below /\ v.files = w.files \o files /\ v.ok
    BY <1>2, <1>9
  <2>2. /\ dir \in R /\ dir \notin Range(rest) /\ Once(rest) /\ C = Range(rest) \union {dir}
        /\ dir \in C /\ dir \notin D /\ Cardinality(E) = k + 1 /\ rest \in Seq(R)
        /\ dir.dir /\ OpenAbove(dir, share)
        /\ \A e \in R : Below(e, E) <=> Below(e, D) \/ (e.path # <<>> /\ dir.path = Front(e.path))
    BY <1>7, <1>9
  <2>3. dir.opens = "yes"
    BY <1>1, <1>9, <2>2
  <2>4. /\ below \in Seq(R) /\ Range(below) = B /\ Once(below)
        /\ files \in Seq(R) /\ Range(files) = F /\ Once(files)
    <3>1. B \subseteq R /\ F \subseteq R
      BY DEF BelowOf, FilesOf
    <3>2. share \in Seq(R)
      BY <1>1 DEF IsList
    <3> HIDE DEF B, F
    <3>3. /\ below \in Seq(R) /\ Range(below) = R \intersect B /\ Picks(below, share)
          /\ files \in Seq(R) /\ Range(files) = R \intersect F /\ Picks(files, share)
      BY <3>2, KeptOf
    <3> QED
      BY <1>1, <3>1, <3>3, OnceStays
  <2>5. \A e \in B : /\ e \in R /\ e.path # <<>> /\ Front(e.path) = dir.path /\ e.dir
    BY DEF BelowOf
  <2>6. \A e \in F : /\ e \in R /\ e.path # <<>> /\ Front(e.path) = dir.path /\ ~e.dir
                     /\ ShouldInclude(e.path, cfg)
    BY DEF FilesOf
  <2> HIDE DEF v, dir, rest, E, below, files
  <2>7. \A e \in R : e.path # <<>> /\ Front(e.path) = dir.path =>
           OpenAbove(e, share) /\ ~Below(e, D) /\ Below(e, E) /\ e # dir
    <3> SUFFICES ASSUME NEW e \in R, e.path # <<>>, Front(e.path) = dir.path
                 PROVE  OpenAbove(e, share) /\ ~Below(e, D) /\ Below(e, E) /\ e # dir
      OBVIOUS
    <3>1. Parents(e.path) = Parents(dir.path) \union {dir.path} /\ dir.path # e.path
      BY <1>1, ParentsAre
    <3>2. OpenAbove(e, share)
      BY <1>1, <2>2, <2>3, <3>1 DEF OpenAbove
    <3>3. ~Below(e, D)
      BY <1>1, <1>3, <2>2 DEF Below
    <3> QED
      BY <2>2, <3>1, <3>2, <3>3
  <2>8. C \intersect B = {} /\ D \intersect B = {} /\ L \intersect F = {} /\ dir \notin B
    BY <1>3, <2>5, <2>6, <2>7
  <2>9. v.stack \in Seq(R) /\ Once(v.stack) /\ Cv = Range(rest) \union B
    <3>1. Range(rest) \intersect Range(below) = {}
      BY <2>2, <2>4, <2>8
    <3> HIDE DEF B
    <3> QED
      BY <2>1, <2>2, <2>4, <3>1, OncePut
  <2>10. v.files \in Seq(R) /\ Once(v.files) /\ Lv = L \union F
    <3>1. Range(w.files) \intersect Range(files) = {}
      BY <2>4, <2>8
    <3> HIDE DEF F
    <3> QED
      BY <1>3, <1>4, <2>1, <2>4, <3>1, OncePut
  <2> HIDE DEF B, F, Cv, Lv, C, L
  <2>11. Cv \union E = C \union D \union B /\ Cv \intersect E = {} /\ E \subseteq R
    BY <1>3, <2>2, <2>8, <2>9 DEF E
  <2>12. \A e \in Cv \union E : e.dir /\ OpenAbove(e, share) /\ (e.path = <<>> \/ Below(e, E))
    BY <1>3, <1>4, <2>2, <2>5, <2>7, <2>11
  <2>13. \A e \in Lv : ~e.dir /\ ShouldInclude(e.path, cfg) /\ Below(e, E) /\ OpenAbove(e, share)
    BY <1>3, <1>4, <2>2, <2>6, <2>7, <2>10
  <2>14. \A d \in E : d.opens = "yes" =>
           BelowOf(share, cfg, d) \subseteq Cv \union E /\ FilesOf(share, cfg, d) \subseteq Lv
    BY <1>3, <2>10, <2>11 DEF E, B, F
  <2>15. \E r \in Cv \union E : r.path = <<>>
    BY <1>3, <2>11
  <2>16. Walked(v, E, k + 1, share, cfg)
    BY <2>2, <2>9, <2>10, <2>11, <2>12, <2>13, <2>14, <2>15 DEF Walked, Cv, Lv
  <2> QED
    BY <2>16 DEF v
<1> QED
  BY <1>5, <1>6, <1>8, <1>9

\* A walk that ends well has nothing left, and has met every directory it may descend to.
LEMMA WalkEnds ==
    ASSUME NEW share \in Shares, NEW cfg, NEW w \in Walks(Range(share)), NEW D,
           Walked(w, D, Len(share), share, cfg), w.ok, NEW e \in Range(share), ~e.dir,
           ShouldInclude(e.path, cfg), OpenAbove(e, share),
           \A q \in Parents(e.path) : q = <<>> \/ ShouldDescend(q, cfg)
    PROVE  e \in Range(w.files)
<1> DEFINE R == Range(share)
           k == Len(share)
           path == e.path
           n == Len(path) - 1
           P == {m \in 0..n : \E d \in D : d.path = SubSeq(path, 1, m)}
<1>1. /\ IsFiniteSet(R) /\ Cardinality(R) = k /\ k \in Nat
      /\ \A a, b \in R : a.path = b.path => a = b
      /\ \A a \in R : /\ a.path \in Seq(Names)
                      /\ \A q \in Parents(a.path) : \E d \in R : d.dir /\ d.path = q
      /\ \E r \in R : r.dir /\ r.path = <<>>
  <2>1. IsList(share)
    BY Listing
  <2>2. k \in Nat
    BY <2>1 DEF IsList
  <2> QED
    BY <2>2, Listing
<1>2. /\ D \subseteq R /\ Range(w.stack) \intersect D = {}
      /\ \E r \in Range(w.stack) \union D : r.path = <<>>
      /\ \A d \in D : d.opens = "yes" =>
            /\ BelowOf(share, cfg, d) \subseteq Range(w.stack) \union D
            /\ FilesOf(share, cfg, d) \subseteq Range(w.files)
      /\ w.ok /\ w.stack # <<>> => Cardinality(D) = k
      /\ \A d \in D : d.dir
  BY DEF Walked
<1>3. w.stack = <<>>
  <2> SUFFICES ASSUME w.stack # <<>> PROVE FALSE
    OBVIOUS
  <2> DEFINE top == Last(w.stack)
  <2>1. w.stack \in Seq(R)
    BY DEF Walks
  <2>2. top \in R /\ top \in Range(w.stack)
    <3> DEFINE s == w.stack
    <3>1. s \in Seq(R) /\ s # <<>>
      BY <2>1
    <3> HIDE DEF s, R
    <3>2. Last(s) \in R /\ Range(s) = Range(Front(s)) \union {Last(s)}
      BY <3>1, FrontAndLast
    <3> QED
      BY <3>2 DEF s
  <2> HIDE DEF top, k, R
  <2>3. IsFiniteSet(D) /\ Cardinality(D) = k /\ top \notin D
    BY <1>1, <1>2, <2>2, FS_Subset
  <2>4. IsFiniteSet(D \union {top}) /\ Cardinality(D \union {top}) = k + 1
    BY <2>3, FS_AddElement
  <2>5. Cardinality(D \union {top}) <= Cardinality(R)
    <3>1. D \union {top} \subseteq R
      BY <1>2, <2>2
    <3> QED
      BY <1>1, <3>1, FS_Subset
  <2> QED
    BY <1>1, <2>4, <2>5
<1>4. Range(w.stack) = {}
  BY <1>3 DEF Range
<1>5. path \in Seq(Names) /\ path # <<>> /\ n \in Nat
  <2>1. path \in Seq(Names) /\ path # <<>>
    BY <1>1
  <2> QED
    BY <2>1
<1>6. 0 \in P
  <2>1. SubSeq(path, 1, 0) = <<>>
    BY <1>5
  <2>2. \E r \in D : r.path = <<>>
    BY <1>2, <1>4
  <2> HIDE DEF path, n
  <2>3. 0 \in 0..n
    BY <1>5
  <2> QED
    BY <2>1, <2>2, <2>3
<1>7. ASSUME NEW m \in 1..n, m - 1 \in P PROVE m \in P
  <2> DEFINE q == SubSeq(path, 1, m)
  <2>1. PICK d \in D : d.path = SubSeq(path, 1, m - 1)
    BY <1>7
  <2>2. m \in 0..Len(path) /\ m - 1 \in 0..n /\ m \in 0..n /\ m - 1 \in 0..m
    BY <1>5
  <2>3. q \in Seq(Names) /\ Len(q) = m /\ q # <<>> /\ SubSeq(q, 1, m - 1) = SubSeq(path, 1, m - 1)
    <3>1. q \in Seq(Names) /\ Len(q) = m /\ SubSeq(q, 1, m - 1) = SubSeq(path, 1, m - 1)
      BY <1>5, <2>2, Parts
    <3> HIDE DEF q
    <3> QED
      BY <3>1
  <2>4. Front(q) = SubSeq(path, 1, m - 1)
    <3> HIDE DEF q
    <3> QED
      BY <2>3, ParentsAre
  <2>5. q \in Parents(path) /\ d.path \in Parents(path)
    BY <2>1, <2>2 DEF Parents
  <2> HIDE DEF q, path
  <2>6. d.opens = "yes"
    BY <1>2, <2>5 DEF OpenAbove, path
  <2>7. PICK c \in R : c.dir /\ c.path = q
    BY <1>1, <2>5 DEF path
  <2>8. c \in BelowOf(share, cfg, d)
    BY <2>1, <2>3, <2>4, <2>5, <2>7 DEF BelowOf, path
  <2>9. c \in D
    BY <1>2, <1>4, <2>6, <2>8
  <2> QED
    BY <2>2, <2>7, <2>9 DEF q
<1>8. n \in P
  <2> HIDE DEF P, n
  <2>1. 0..n \subseteq P
    BY <1>5, <1>6, <1>7, Counting
  <2> QED
    BY <1>5, <2>1
<1>9. PICK d \in D : d.path = SubSeq(path, 1, n)
  BY <1>8
<1>10. Front(path) = SubSeq(path, 1, n) /\ SubSeq(path, 1, n) \in Parents(path)
  BY <1>5, ParentsAre DEF Parents
<1> HIDE DEF P, n, path
<1>11. d.opens = "yes"
  BY <1>2, <1>9, <1>10 DEF OpenAbove, path
<1>12. e \in FilesOf(share, cfg, d)
  BY <1>5, <1>9, <1>10 DEF FilesOf, path
<1> QED
  BY <1>2, <1>11, <1>12

LEMMA WalkIsExact ==
    ASSUME NEW share \in Shares, NEW cfg
    PROVE  LET w == WalkShare(share, cfg)
           IN /\ w \in Walks(Range(share)) /\ Once(w.files)
              /\ \A e \in Range(w.files) : /\ ~e.dir /\ ShouldInclude(e.path, cfg)
                                           /\ e \in Range(share) /\ OpenAbove(e, share)
              /\ w.ok => \A e \in Range(share) :
                    /\ ~e.dir /\ ShouldInclude(e.path, cfg) /\ OpenAbove(e, share)
                    /\ \A q \in Parents(e.path) : q = <<>> \/ ShouldDescend(q, cfg)
                    => e \in Range(w.files)
<1> DEFINE n == Len(share)
           R == Range(share)
           last == WalkShare(share, cfg)
<1>1. /\ IsList(share) /\ n \in Nat /\ \E r \in R : r.path = <<>>
  <2>1. IsList(share) /\ \E r \in R : r.path = <<>>
    BY Listing
  <2> QED
    BY <2>1 DEF IsList
<1>2. PICK w \in [0..n -> Walks(R)] : RunsWalk(w, share, cfg)
  BY <1>1, WalkRuns
<1> DEFINE P == {i \in 0..n : \E D : Walked(w[i], D, i, share, cfg)}
<1>3. 0 \in P
  <2>1. \E r \in Range(share) : r.path = <<>> /\ w[0] = [stack |-> <<r>>, files |-> <<>>, ok |-> TRUE]
    BY <1>2 DEF RunsWalk
  <2>2. Walked(w[0], {}, 0, share, cfg)
    BY <2>1, WalkStarts
  <2> HIDE DEF n
  <2> QED
    BY <1>1, <2>2
<1>4. ASSUME NEW i \in 1..n, i - 1 \in P PROVE i \in P
  <2> HIDE DEF n
  <2>1. i - 1 \in 0..n /\ i - 1 \in Nat /\ (i - 1) + 1 = i /\ i \in 0..n
    BY <1>1
  <2>2. PICK D : Walked(w[i - 1], D, i - 1, share, cfg)
    BY <1>4
  <2>3. w[i - 1] \in Walks(R)
    BY <2>1
  <2>4. w[i] = Visit(share, cfg, w[i - 1])
    BY <1>2 DEF RunsWalk, n
  <2>5. \E E : Walked(w[i], E, (i - 1) + 1, share, cfg)
    BY <2>1, <2>2, <2>3, <2>4, WalkSteps
  <2> QED
    BY <2>1, <2>5
<1>5. n \in P
  <2> HIDE DEF P, n
  <2>1. 0..n \subseteq P
    BY <1>1, <1>3, <1>4, Counting
  <2> QED
    BY <1>1, <2>1
<1>6. PICK D : Walked(w[n], D, n, share, cfg)
  BY <1>5
<1>7. w[n] = last /\ last \in Walks(R)
  <2>1. w[n] = last
    BY <1>2 DEF RunsWalk
  <2> HIDE DEF n, last
  <2>2. n \in 0..n
    BY <1>1
  <2> QED
    BY <2>1, <2>2
<1> HIDE DEF P, last
<1>8. /\ Once(last.files)
      /\ \A e \in Range(last.files) : /\ ~e.dir /\ ShouldInclude(e.path, cfg)
                                      /\ OpenAbove(e, share)
  BY <1>6, <1>7 DEF Walked
<1>9. \A e \in Range(last.files) : e \in R
  BY <1>7 DEF Walks, Range
<1>10. last.ok => \A e \in Range(share) :
                    /\ ~e.dir /\ ShouldInclude(e.path, cfg) /\ OpenAbove(e, share)
                    /\ \A q \in Parents(e.path) : q = <<>> \/ ShouldDescend(q, cfg)
                    => e \in Range(last.files)
  BY <1>6, <1>7, WalkEnds
<1> QED
  BY <1>7, <1>8, <1>9, <1>10 DEF last

Above(path) == {SubSeq(path, 1, n) : n \in 1..Len(path)}
LEMMA PrefixIs ==
    ASSUME NEW path \in Seq(Names), NEW prefix \in Seq(Names)
    PROVE  HasPrefix(path, prefix) <=> prefix \in Above(path)
<1> DEFINE n == Len(prefix)
<1>1. n \in Nat /\ SubSeq(prefix, 1, n) = prefix /\ (prefix # <<>> <=> n > 0)
  OBVIOUS
<1>2. Len(path) \in Nat /\ (path # <<>> <=> Len(path) > 0)
  OBVIOUS
<1>3. HasPrefix(path, prefix) <=>
         path # <<>> /\ prefix # <<>> /\ n <= Len(path) /\ prefix = SubSeq(path, 1, n)
  BY <1>1 DEF HasPrefix, IsPrefix
<1>4. ASSUME NEW m \in 1..Len(path), prefix = SubSeq(path, 1, m) PROVE n = m
  <2>1. m \in 0..Len(path)
    BY <1>2
  <2> QED
    BY <2>1, <1>4, Parts
<1> HIDE DEF n
<1>5. n > 0 /\ n <= Len(path) <=> n \in 1..Len(path)
  BY <1>1, <1>2
<1>6. n \in 1..Len(path) => Len(path) > 0
  BY <1>1, <1>2
<1> QED
  BY <1>1, <1>2, <1>3, <1>4, <1>5, <1>6 DEF Above

LEMMA AdmitsIs ==
    ASSUME NEW path \in Seq(Names), path # <<>>, NEW cfg \in ScopeConfigs, NEW depth
    PROVE  Admits(path, depth, cfg) <=>
              /\ depth <= MaxDepth(cfg) /\ cfg.exclude_paths \intersect Above(path) = {}
              /\ \A i \in DOMAIN path, p \in cfg.exclude_paths :
                    Len(p) = 1 => Fold[p[1]] # Fold[path[i]]
<1>1. \A p \in cfg.exclude_paths : p \in Seq(Names)
  BY ScopeAssumption
<1>2. \A p \in cfg.exclude_paths : HasPrefix(path, p) <=> p \in Above(path)
  BY <1>1, PrefixIs
<1>3. \A p \in cfg.exclude_paths :
         /\ p \in Above(path) => p # <<>>
         /\ Len(p) = 1 => p # <<>>
  BY <1>1, <1>2 DEF HasPrefix
<1>4. \A p \in cfg.exclude_paths : Excluded(path, p) <=>
         p \in Above(path) \/ (Len(p) = 1 /\ \E i \in DOMAIN path : Fold[path[i]] = Fold[p[1]])
  BY <1>2, <1>3, Zenon DEF Excluded
<1> QED
  BY <1>4 DEF Admits

\* What the filters say of a file's path.
Fits(path, cfg) ==
    /\ Len(path) - 1 <= MaxDepth(cfg)
    /\ cfg.paths = {} \/ cfg.paths \intersect Above(path) # {}
    /\ cfg.exclude_paths \intersect Above(path) = {}
    /\ \A i \in DOMAIN path, p \in cfg.exclude_paths : Len(p) = 1 => Fold[p[1]] # Fold[path[i]]

LEMMA IncludeIs ==
    ASSUME NEW path \in Seq(Names), path # <<>>, NEW cfg \in ScopeConfigs
    PROVE  /\ ShouldInclude(path, cfg) <=> Fits(path, cfg)
           /\ Fits(path, cfg) => PathAllowed(path, cfg)
<1>1. \A p \in cfg.paths \union cfg.exclude_paths : p \in Seq(Names)
  BY ScopeAssumption
<1>2. \A p \in cfg.paths \union cfg.exclude_paths : HasPrefix(path, p) <=> p \in Above(path)
  BY <1>1, PrefixIs
<1>3. ShouldInclude(path, cfg) <=> Fits(path, cfg)
  BY <1>2, AdmitsIs DEF ShouldInclude, Fits
<1>4. ASSUME Fits(path, cfg) PROVE PathAllowed(path, cfg)
  <2>1. cfg.max_depth > 0 => Len(path) - 1 <= cfg.max_depth
    <3>1. cfg.max_depth \in Int
      BY ScopeAssumption
    <3>2. cfg.max_depth > 0 => MaxDepth(cfg) = cfg.max_depth
      BY <3>1 DEF MaxDepth
    <3> QED
      BY <1>4, <3>2 DEF Fits
  <2> QED
    BY <1>2, <1>4, <2>1 DEF PathAllowed, Fits
<1> QED
  BY <1>3, <1>4

LEMMA DescendsTo ==
    ASSUME NEW path \in Seq(Names), path # <<>>, NEW cfg \in ScopeConfigs, Fits(path, cfg),
           NEW q \in Parents(path), q # <<>>
    PROVE  ShouldDescend(q, cfg)
<1>1. PICK m \in 0..Len(path) - 1 : q = SubSeq(path, 1, m)
  BY DEF Parents
<1>2. Len(path) \in Nat /\ m \in 0..Len(path) /\ m < Len(path)
  BY <1>1
<1>3. /\ q \in Seq(Names) /\ Len(q) = m /\ DOMAIN q = 1..m
      /\ \A i \in 1..m : q[i] = path[i]
      /\ \A j \in 0..m : SubSeq(q, 1, j) = SubSeq(path, 1, j)
  BY <1>1, <1>2, Parts
<1>4. Above(q) \subseteq Above(path)
  <2>1. \A j \in 1..m : j \in 0..m /\ j \in 1..Len(path)
    BY <1>2
  <2> QED
    BY <1>3, <2>1 DEF Above
<1>5. Admits(q, Len(q), cfg)
  <2>1. Len(q) <= MaxDepth(cfg)
    <3>1. MaxDepth(cfg) \in Int
      BY ScopeAssumption DEF MaxDepth
    <3> QED
      BY <3>1, <1>2, <1>3 DEF Fits
  <2>2. \A i \in 1..m : i \in DOMAIN path
    BY <1>2
  <2>3. \A i \in DOMAIN q, p \in cfg.exclude_paths : Len(p) = 1 => Fold[p[1]] # Fold[q[i]]
    BY <1>3, <2>2 DEF Fits
  <2> QED
    BY <1>3, <1>4, <2>1, <2>3, AdmitsIs DEF Fits
<1>6. ASSUME NEW allowed \in cfg.paths, allowed \in Above(path)
      PROVE  Overlaps(q, allowed)
  <2>1. PICK n \in 1..Len(path) : allowed = SubSeq(path, 1, n)
    BY <1>6 DEF Above
  <2>2. n \in 0..Len(path)
    BY <1>2
  <2>3. /\ allowed \in Seq(Names) /\ Len(allowed) = n
        /\ \A j \in 0..n : SubSeq(allowed, 1, j) = SubSeq(path, 1, j)
    BY <2>1, <2>2, Parts
  <2>4. CASE n <= m
    <3>1. n \in 1..m /\ n \in 0..m
      BY <1>2, <2>2, <2>4
    <3>2. allowed \in Above(q)
      BY <1>3, <2>1, <3>1 DEF Above
    <3> QED
      BY <1>3, <2>3, <3>2, PrefixIs DEF Overlaps
  <2>5. CASE ~(n <= m)
    <3>1. m # 0
      BY <1>3
    <3>2. m \in 1..n /\ m \in 0..n
      BY <1>2, <2>2, <2>5, <3>1
    <3>3. q \in Above(allowed)
      BY <1>1, <2>3, <3>2 DEF Above
    <3> QED
      BY <1>3, <2>3, <3>3, PrefixIs DEF Overlaps
  <2> QED
    BY <2>4, <2>5
<1> QED
  BY <1>5, <1>6 DEF Fits, ShouldDescend

\* The specification of the scope, in the terms of the walk.
LEMMA ScopeHas ==
    ASSUME NEW share \in Shares, NEW cfg \in ScopeConfigs, NEW path
    PROVE  path \in InScope(share, cfg) <=>
              \E e \in Range(share) : /\ e.path = path /\ ~e.dir /\ path # <<>>
                                      /\ Fits(path, cfg) /\ OpenAbove(e, share)
<1> DEFINE depth == IF cfg.max_depth > 0 THEN cfg.max_depth ELSE ClientDepth
           Ok(e) == /\ ~e.dir
                    /\ Len(e.path) <= 1 + depth
                    /\ cfg.paths = {} \/ cfg.paths \intersect Above(e.path) # {}
                    /\ cfg.exclude_paths \intersect Above(e.path) = {}
                    /\ \A i \in DOMAIN e.path, p \in cfg.exclude_paths :
                          Len(p) = 1 => Fold[p[1]] # Fold[e.path[i]]
                    /\ \A d \in Range(share) :
                          d.dir /\ d.path \in Above(e.path) \union {<<>>} => d.opens = "yes"
<1>1. path \in InScope(share, cfg) <=> \E e \in Range(share) : e.path = path /\ Ok(e)
  BY Zenon DEF InScope, Above
<1>2. /\ \A e, d \in Range(share) : e.path = d.path => e = d
      /\ \A e \in Range(share) : e.path \in Seq(Names)
      /\ \E r \in Range(share) : r.dir /\ r.path = <<>>
  BY Listing
<1>3. MaxDepth(cfg) = depth /\ depth \in Int
  BY ScopeAssumption DEF MaxDepth
<1>4. ASSUME NEW e \in Range(share), ~e.dir
      PROVE  Ok(e) <=> Fits(e.path, cfg) /\ OpenAbove(e, share)
  <2> DEFINE p == e.path
  <2>1. p \in Seq(Names) /\ p # <<>>
    BY <1>2, <1>4
  <2>2. Len(p) <= 1 + depth <=> Len(p) - 1 <= MaxDepth(cfg)
    <3>1. Len(p) \in Nat
      BY <2>1
    <3> HIDE DEF depth, p
    <3> QED
      BY <1>3, <3>1
  <2>3. \A d \in Range(share) : d.dir => (d.path \in Above(p) \union {<<>>} <=> d.path \in Parents(p))
    <3>1. Above(p) \union {<<>>} = Parents(p) \union {p}
      <4>1. Len(p) \in Nat /\ Len(p) # 0 /\ SubSeq(p, 1, 0) = <<>> /\ SubSeq(p, 1, Len(p)) = p
        BY <2>1
      <4> HIDE DEF p
      <4>2. \A n : n \in 1..Len(p) \/ n = 0 <=> n \in 0..Len(p) - 1 \/ n = Len(p)
        BY <4>1
      <4> QED
        BY <4>1, <4>2 DEF Above, Parents
    <3>2. p \notin Parents(p)
      <4>1. \A n \in 0..Len(p) - 1 : n \in 0..Len(p) /\ n # Len(p)
        BY <2>1
      <4> HIDE DEF p
      <4>2. \A n \in 0..Len(p) - 1 : Len(SubSeq(p, 1, n)) = n
        BY <2>1, <4>1, Parts
      <4> QED
        BY <4>1, <4>2 DEF Parents
    <3>3. \A d \in Range(share) : d.dir => d.path # p
      BY <1>2, <1>4
    <3> HIDE DEF p
    <3> QED
      BY <3>1, <3>2, <3>3
  <2> QED
    BY <1>4, <2>2, <2>3 DEF Fits, OpenAbove
<1>5. \A e \in Range(share) : ~e.dir => e.path # <<>>
  BY <1>2
<1>6. \A e : Ok(e) => ~e.dir
  OBVIOUS
<1> HIDE DEF Ok
<1> QED
  BY <1>1, <1>4, <1>5, <1>6

LEMMA RunExists ==
    ASSUME NEW n \in Nat, NEW S, NEW base \in S, NEW op \in [S \X (1..n) -> S]
    PROVE  \E w \in [0..n -> S] : IsRun(w, base, op, n, w[n])
<1> DEFINE max == [s \in SUBSET (1..n) |-> Max(s)]
<1>1. IsLast(max, n)
  BY GreatestOf DEF IsLast
<1> HIDE DEF max
<1>2. PICK g \in [SUBSET (1..n) -> S] : IsFold(g, base, op, max, n)
  BY <1>1, FoldExists
<1>3. IsFoldWithin(g, S, base, op, max, n)
  BY <1>2 DEF IsFold, IsFoldWithin
<1>4. \E w \in [0..n -> S] : IsRun(w, base, op, n, g[1..n])
  BY <1>1, <1>3, FoldRuns
<1>5. \A w : IsRun(w, base, op, n, g[1..n]) => IsRun(w, base, op, n, w[n])
  BY DEF IsRun
<1> QED
  BY <1>4, <1>5

\* Joining a list of lists, one after the other.
LEMMA FlattenRuns ==
    ASSUME NEW T, NEW seqs \in Seq(Seq(T))
    PROVE  \E w \in [0..Len(seqs) -> Seq(T)] :
              /\ w[0] = <<>> /\ \A i \in 1..Len(seqs) : w[i] = w[i - 1] \o seqs[i]
              /\ w[Len(seqs)] = FlattenSeq(seqs)
<1> DEFINE n == Len(seqs)
           op == [p \in Seq(T) \X (1..n) |-> p[1] \o seqs[p[2]]]
           Flat(f) == f = [i \in 1..n |-> IF i = 1 THEN seqs[i] ELSE f[i - 1] \o seqs[i]]
           flat == CHOOSE f : Flat(f)
           last == FlattenSeq(seqs)
<1>1. n \in Nat /\ \A i \in 1..n : seqs[i] \in Seq(T)
  OBVIOUS
<1>2. last = IF n = 0 THEN seqs ELSE flat[n]
  BY Zenon DEF FlattenSeq
<1>3. n = 0 => seqs = <<>>
  OBVIOUS
<1> HIDE DEF last, flat, n
<1>4. op \in [Seq(T) \X (1..n) -> Seq(T)]
  <2>1. \A s \in Seq(T), i \in 1..n : s \o seqs[i] \in Seq(T)
    BY <1>1
  <2> QED
    BY <2>1
<1>5. \A s \in Seq(T), i \in 1..n : op[<<s, i>>] = s \o seqs[i]
  OBVIOUS
<1> HIDE DEF op
<1>6. <<>> \in Seq(T)
  OBVIOUS
<1>7. PICK w \in [0..n -> Seq(T)] : w[0] = <<>> /\ \A i \in 1..n : w[i] = op[<<w[i - 1], i>>]
  <2> DEFINE S == Seq(T)
             none == <<>>
  <2>1. none \in S /\ op \in [S \X (1..n) -> S]
    BY <1>4, <1>6
  <2> HIDE DEF S, none
  <2>2. \E w \in [0..n -> S] : IsRun(w, none, op, n, w[n])
    BY <1>1, <2>1, RunExists
  <2> QED
    BY <2>2 DEF S, none, IsRun
<1>8. \A i \in 1..n : w[i] = w[i - 1] \o seqs[i]
  <2> TAKE i \in 1..n
  <2>1. i - 1 \in 0..n
    BY <1>1
  <2> QED
    BY <2>1, <1>5, <1>7
<1>9. Flat([i \in 1..n |-> w[i]])
  <2> DEFINE f == [i \in 1..n |-> w[i]]
  <2>1. ASSUME NEW i \in 1..n
        PROVE  w[i] = IF i = 1 THEN seqs[i] ELSE f[i - 1] \o seqs[i]
    <3>1. CASE i = 1
      <4>1. w[1] = w[0] \o seqs[1]
        <5>1. 1 - 1 = 0
          OBVIOUS
        <5> QED
          BY <1>8, <3>1, <5>1
      <4>2. \A s \in Seq(T) : <<>> \o s = s
        OBVIOUS
      <4> QED
        BY <1>1, <1>7, <3>1, <4>1, <4>2
    <3>2. CASE i # 1
      <4>1. i - 1 \in 1..n
        BY <1>1, <3>2
      <4> QED
        BY <1>8, <3>2, <4>1
    <3> QED
      BY <3>1, <3>2
  <2> QED
    BY <2>1
<1>10. Flat(flat)
  <2> HIDE DEF Flat
  <2> QED
    BY <1>9 DEF flat
<1> DEFINE P == {i \in 0..n : i = 0 \/ flat[i] = w[i]}
<1>11. ASSUME NEW i \in 1..n, i - 1 \in P PROVE i \in P
  <2>1. i \in 0..n /\ i - 1 \in 0..n
    BY <1>1
  <2>2. flat[i] = IF i = 1 THEN seqs[i] ELSE flat[i - 1] \o seqs[i]
    BY <1>10
  <2>3. CASE i = 1
    <3>1. w[1] = seqs[1]
      BY <1>9, <2>3
    <3> QED
      BY <2>1, <2>2, <2>3, <3>1
  <2>4. CASE i # 1
    <3>1. i - 1 # 0
      BY <1>1, <2>4
    <3> QED
      BY <1>8, <1>11, <2>1, <2>2, <2>4, <3>1
  <2> QED
    BY <2>3, <2>4
<1>12. n \in P
  <2>1. 0 \in P
    BY <1>1
  <2> HIDE DEF P
  <2>2. 0..n \subseteq P
    BY <1>1, <1>11, <2>1, Counting
  <2> QED
    BY <1>1, <2>2
<1>13. w[n] = last
  BY <1>2, <1>3, <1>7, <1>12
<1> QED
  BY <1>7, <1>8, <1>13 DEF n, last

LEMMA FlattenHas ==
    ASSUME NEW T, NEW seqs \in Seq(Seq(T))
    PROVE  LET all == FlattenSeq(seqs)
           IN /\ all \in Seq(T)
              /\ \A y : y \in Range(all) <=> \E i \in 1..Len(seqs) : y \in Range(seqs[i])
              /\ \A x : /\ \A i \in 1..Len(seqs) : Lone(seqs[i], x)
                        /\ \A i, j \in 1..Len(seqs) :
                              x \in Range(seqs[i]) /\ x \in Range(seqs[j]) => i = j
                        => Lone(all, x)
<1> DEFINE n == Len(seqs)
           all == FlattenSeq(seqs)
<1>1. PICK w \in [0..n -> Seq(T)] :
         w[0] = <<>> /\ w[n] = all /\ \A i \in 1..n : w[i] = w[i - 1] \o seqs[i]
  BY FlattenRuns
<1>2. n \in Nat /\ \A i \in 1..n : seqs[i] \in Seq(T)
  OBVIOUS
<1> HIDE DEF n, all
<1> DEFINE A == {i \in 0..n : \A y : y \in Range(w[i]) <=> \E k \in 1..i : y \in Range(seqs[k])}
<1>3. 0 \in A
  <2>1. Range(w[0]) = {}
    BY <1>1 DEF Range
  <2> QED
    BY <2>1, <1>2
<1>4. ASSUME NEW i \in 1..n, i - 1 \in A PROVE i \in A
  <2>1. i - 1 \in 0..n /\ i \in 0..n
    BY <1>2
  <2>2. w[i - 1] \in Seq(T) /\ seqs[i] \in Seq(T) /\ w[i] = w[i - 1] \o seqs[i]
    BY <1>1, <1>2, <2>1
  <2>3. Range(w[i]) = Range(w[i - 1]) \union Range(seqs[i])
    BY <2>2, Joined
  <2>4. \A k : k \in 1..i <=> k \in 1..i - 1 \/ k = i
    BY <1>2
  <2> QED
    BY <1>4, <2>1, <2>3, <2>4
<1>5. 0..n \subseteq A
  <2> HIDE DEF A
  <2> QED
    BY <1>2, <1>3, <1>4, Counting
<1>6. ASSUME NEW x, \A i \in 1..n : Lone(seqs[i], x),
             \A i, j \in 1..n : x \in Range(seqs[i]) /\ x \in Range(seqs[j]) => i = j
      PROVE  Lone(all, x)
  <2> DEFINE B == {i \in 0..n : Lone(w[i], x)}
  <2>1. 0 \in B
    BY <1>1, <1>2 DEF Lone
  <2>2. ASSUME NEW i \in 1..n, i - 1 \in B PROVE i \in B
    <3>1. i - 1 \in 0..n /\ i \in 0..n /\ \A k \in 1..i - 1 : k \in 1..n /\ k # i
      BY <1>2
    <3>2. w[i - 1] \in Seq(T) /\ seqs[i] \in Seq(T) /\ w[i] = w[i - 1] \o seqs[i]
      BY <1>1, <1>2, <3>1
    <3>3. x \notin Range(w[i - 1]) \/ x \notin Range(seqs[i])
      BY <1>5, <1>6, <3>1
    <3>4. Lone(w[i - 1] \o seqs[i], x)
      <4> DEFINE s == w[i - 1]
                 t == seqs[i]
      <4>1. Lone(s, x) /\ Lone(t, x) /\ s \in Seq(T) /\ t \in Seq(T)
        BY <1>6, <2>2, <3>2
      <4> HIDE DEF s, t
      <4>2. x \notin Range(s) \/ x \notin Range(t)
        BY <3>3 DEF s, t
      <4>3. Lone(s \o t, x)
        BY <4>1, <4>2, LonePut
      <4> QED
        BY <4>3 DEF s, t
    <3> QED
      BY <3>1, <3>2, <3>4
  <2>3. 0..n \subseteq B
    <3> HIDE DEF B
    <3> QED
      BY <1>2, <2>1, <2>2, Counting
  <2> QED
    BY <1>1, <1>2, <2>3
<1>7. n \in 0..n
  BY <1>2
<1>8. all \in Seq(T) /\ \A y : y \in Range(all) <=> \E i \in 1..n : y \in Range(seqs[i])
  BY <1>1, <1>5, <1>7
<1> QED
  BY <1>6, <1>8 DEF all, n

LEMMA Indexed ==
    ASSUME NEW T, NEW s \in Seq(T)
    PROVE  /\ Len(s) \in Nat /\ DOMAIN s = 1..Len(s) /\ Range(s) = {s[i] : i \in 1..Len(s)}
           /\ \A i \in 1..Len(s) : s[i] \in T /\ s[i] \in Range(s)
BY DEF Range

LEMMA BatchEnds ==
    ASSUME NEW B \in Nat \ {0}
    PROVE  /\ \A a, b \in Nat : a <= b => a * B <= b * B
           /\ \A a \in Nat : a * B \in Nat /\ (a + 1) * B = a * B + B
           /\ \A k \in Nat : /\ k \div B \in Nat /\ (k \div B) * B <= k
                             /\ k < (k \div B) * B + B
                             /\ k % B = k - (k \div B) * B
           /\ \A k, l \in Nat : k <= l => k \div B <= l \div B
<1>1. \A a \in Nat : a * B \in Nat /\ (a + 1) * B = a * B + B
  OBVIOUS
<1>2. \A a, b \in Nat : a <= b => a * B <= b * B
  OBVIOUS
<1>3. \A k \in Nat : /\ k \div B \in Nat /\ (k \div B) * B <= k
                     /\ k < (k \div B) * B + B
                     /\ k % B = k - (k \div B) * B
  OBVIOUS
<1>4. \A k, l \in Nat : k <= l => k \div B <= l \div B
  OBVIOUS
<1> QED
  BY <1>1, <1>2, <1>3, <1>4

\* The files come in batches: each of them in one, unless the walk failed.
AreBatches(bs, files, T, ok) ==
    /\ bs \in Seq(Seq(T))
    /\ \A b \in 1..Len(bs) : Once(bs[b]) /\ Range(bs[b]) \subseteq Range(files)
    /\ \A x : \A b, c \in 1..Len(bs) : x \in Range(bs[b]) /\ x \in Range(bs[c]) => b = c
    /\ ok => \A x \in Range(files) : \E b \in 1..Len(bs) : x \in Range(bs[b])
LEMMA BatchesHave ==
    ASSUME NEW T, NEW files \in Seq(T), Once(files), NEW ok \in BOOLEAN
    PROVE  AreBatches(Batches(files, ok), files, T, ok)
<1> DEFINE B == BatchSize
           L == Len(files)
           whole == L \div B
           n == IF ok /\ L % B > 0 THEN whole + 1 ELSE whole
           lo == [i \in 1..n |-> (i - 1) * B]
           hi == [i \in 1..n |-> Min({i * B, L})]
           bs == Batches(files, ok)
<1>1. B \in Nat \ {0} /\ L \in Nat /\ DOMAIN files = 1..L /\ \A p \in 1..L : files[p] \in T
  BY ScopeAssumption
<1>2. bs = [i \in 1..n |-> SubSeq(files, (i - 1) * B + 1, Min({i * B, L}))]
  BY DEF Batches
<1>3. \A p, q \in 1..L : files[p] = files[q] => p = q
  BY DEF Once
<1>4. Range(files) = {files[p] : p \in 1..L}
  BY <1>1 DEF Range
<1> HIDE DEF bs, B, L
<1>5. /\ whole \in Nat /\ whole * B <= L /\ L < whole * B + B
      /\ n \in Nat /\ (n = whole \/ (n = whole + 1 /\ ok))
      /\ ok => L <= n * B
  <2>1. whole \in Nat /\ whole * B <= L /\ L < whole * B + B /\ L % B = L - whole * B
    BY <1>1, BatchEnds
  <2>2. (whole + 1) * B = whole * B + B /\ whole * B \in Nat
    BY <1>1, <2>1, BatchEnds
  <2>3. n \in Nat /\ (n = whole \/ (n = whole + 1 /\ ok))
    <3> HIDE DEF whole
    <3> QED
      BY <2>1
  <2>4. ok => L <= n * B
    <3> HIDE DEF whole
    <3>1. CASE n = whole + 1
      BY <1>1, <2>1, <2>2, <3>1
    <3>2. CASE ok /\ n # whole + 1
      <4>1. L % B = 0 /\ n = whole
        BY <1>1, <2>1, <2>2, <3>2
      <4> HIDE DEF n
      <4> QED
        BY <1>1, <2>1, <2>2, <4>1
    <3> QED
      BY <2>3, <3>1, <3>2
  <2> QED
    BY <2>1, <2>3, <2>4
<1> HIDE DEF n, whole
<1>6. \A i \in 1..n : /\ lo[i] \in 0..L /\ hi[i] \in 0..L /\ hi[i] <= lo[i] + B /\ lo[i] <= hi[i]
                      /\ hi[i] = L \/ hi[i] = lo[i] + B
  <2> TAKE i \in 1..n
  <2>1. i \in Nat /\ i - 1 \in Nat /\ i - 1 <= whole /\ (i - 1) + 1 = i
    BY <1>5
  <2>2. /\ i * B = (i - 1) * B + B /\ (i - 1) * B \in Nat
        /\ (i - 1) * B <= whole * B /\ whole * B \in Nat
    BY <1>1, <1>5, <2>1, BatchEnds
  <2>3. lo[i] = (i - 1) * B /\ hi[i] = Min({i * B, L})
    OBVIOUS
  <2> HIDE DEF lo, hi
  <2> DEFINE e == i * B
  <2>4. e = lo[i] + B /\ lo[i] \in Nat /\ lo[i] <= L /\ e \in Nat
    BY <1>1, <1>5, <2>2, <2>3
  <2> HIDE DEF e
  <2>5. Min({e, L}) \in {e, L} /\ Min({e, L}) <= e /\ Min({e, L}) <= L
    <3>1. \E x \in {e, L} : \A y \in {e, L} : x <= y
      BY <1>1, <2>4
    <3>2. Min({e, L}) = CHOOSE x \in {e, L} : \A y \in {e, L} : x <= y
      BY DEF Min
    <3> QED
      BY <3>1, <3>2
  <2>6. hi[i] = Min({e, L})
    BY <2>3 DEF e
  <2> QED
    BY <1>1, <2>4, <2>5, <2>6
<1>7. \A i \in 1..n : /\ bs[i] \in Seq(T) /\ Len(bs[i]) = hi[i] - lo[i] /\ Len(bs[i]) \in Nat
                      /\ \A p \in 1..Len(bs[i]) : bs[i][p] = files[lo[i] + p] /\ lo[i] + p \in 1..L
  <2> TAKE i \in 1..n
  <2> DEFINE a == lo[i]
             b == hi[i]
             s == SubSeq(files, a + 1, b)
  <2>1. bs[i] = s
    BY <1>2
  <2>2. a \in 0..L /\ b \in 0..L /\ a <= b
    BY <1>6
  <2> HIDE DEF a, b
  <2>3. s \in Seq(T) /\ Len(s) = b - a /\ \A p \in 1..(b - a) : s[p] = files[a + p] /\ a + p \in 1..L
    <3>1. \A p \in 1..(b - a) : a + p \in 1..L
      BY <1>1, <2>2
    <3>2. a + 1 \in 1..(L + 1) /\ b \in a..L
      BY <1>1, <2>2
    <3>3. \A p \in 1..(b - a) : (a + 1) + p - 1 = a + p
      BY <2>2
    <3> DEFINE c == a + 1
    <3>4. c \in 1..(L + 1) /\ b \in (c - 1)..L /\ b - c + 1 = b - a
      BY <1>1, <2>2
    <3> HIDE DEF c
    <3>5. /\ SubSeq(files, c, b) \in Seq(T) /\ Len(SubSeq(files, c, b)) = b - c + 1
          /\ \A p \in 1..(b - c + 1) : SubSeq(files, c, b)[p] = files[c + p - 1]
      BY <1>1, <3>4, SubSeqProperties DEF L
    <3> QED
      BY <3>1, <3>3, <3>4, <3>5 DEF c
  <2>4. b - a \in Nat
    BY <2>2, <1>1
  <2> HIDE DEF s
  <2> QED
    BY <2>1, <2>3, <2>4 DEF a, b

<1>12. \A i \in 1..n : lo[i] = (i - 1) * B
  OBVIOUS
<1> HIDE DEF lo, hi
<1>8. bs \in Seq(Seq(T)) /\ Len(bs) = n
  <2>1. bs = [i \in 1..n |-> bs[i]]
    BY <1>2
  <2>2. \A i \in 1..n : bs[i] \in Seq(T)
    BY <1>7
  <2> DEFINE S == Seq(T)
  <2> HIDE DEF S
  <2>3. bs \in Seq(S) /\ Len(bs) = n
    BY <1>5, <2>1, <2>2 DEF S
  <2> QED
    BY <2>3 DEF S
<1>9. \A b \in 1..n : Once(bs[b]) /\ Range(bs[b]) \subseteq Range(files)
  <2> TAKE b \in 1..n
  <2> DEFINE s == bs[b]
             a == lo[b]
  <2>1. /\ s \in Seq(T) /\ Len(s) \in Nat /\ a \in Int
        /\ \A p \in 1..Len(s) : s[p] = files[a + p] /\ a + p \in 1..L
    BY <1>6, <1>7
  <2> HIDE DEF s, a
  <2>2. Once(s)
    <3> SUFFICES ASSUME NEW p \in 1..Len(s), NEW q \in 1..Len(s), s[p] = s[q] PROVE p = q
      BY DEF Once
    <3>1. a + p = a + q
      BY <1>3, <2>1
    <3> QED
      BY <2>1, <3>1
  <2>3. Range(s) \subseteq Range(files)
    <3>1. Range(s) = {s[p] : p \in 1..Len(s)}
      BY <2>1 DEF Range
    <3> QED
      BY <1>4, <2>1, <3>1
  <2> QED
    BY <2>2, <2>3 DEF s
<1>10. ASSUME NEW b \in 1..n, NEW c \in 1..n, NEW x, x \in Range(bs[b]), x \in Range(bs[c])
       PROVE  b = c
  <2>0. \A i \in 1..n : Range(bs[i]) = {bs[i][p] : p \in 1..Len(bs[i])}
    <3> SUFFICES ASSUME NEW i \in 1..n
                 PROVE  Range(bs[i]) = {bs[i][p] : p \in 1..Len(bs[i])}
      OBVIOUS
    <3> DEFINE s == bs[i]
    <3>1. s \in Seq(T)
      BY <1>7
    <3> HIDE DEF s
    <3>2. Range(s) = {s[p] : p \in 1..Len(s)}
      BY <3>1, Indexed
    <3> QED
      BY <3>2 DEF s
  <2>1. PICK p \in 1..Len(bs[b]) : x = bs[b][p]
    BY <1>10, <2>0
  <2>2. PICK q \in 1..Len(bs[c]) : x = bs[c][q]
    BY <1>10, <2>0
  <2>3. lo[b] + p = lo[c] + q
    <3>1. lo[b] + p \in 1..L /\ lo[c] + q \in 1..L
      BY <1>7
    <3>2. files[lo[b] + p] = files[lo[c] + q]
      BY <1>7, <2>1, <2>2
    <3> QED
      BY <1>3, <3>1, <3>2
  <2>4. p \in 1..B /\ q \in 1..B
    <3>1. ASSUME NEW i \in 1..n, NEW r \in 1..Len(bs[i]) PROVE r \in 1..B
      <4> DEFINE l == lo[i]
                 h == hi[i]
                 m == Len(bs[i])
      <4>1. l \in 0..L /\ h \in 0..L /\ h <= l + B /\ m = h - l /\ m \in Nat /\ r \in 1..m
        BY <1>6, <1>7
      <4> HIDE DEF l, h, m
      <4> QED
        BY <1>1, <4>1
    <3> QED
      BY <3>1
  <2>5. lo[b] = (b - 1) * B /\ lo[c] = (c - 1) * B
    BY <1>12
  <2>6. /\ b - 1 \in Nat /\ c - 1 \in Nat
        /\ b < c => (b - 1) + 1 <= c - 1
        /\ c < b => (c - 1) + 1 <= b - 1
    BY <1>5
  <2> DEFINE i == b - 1
             j == c - 1
  <2>7. /\ i * B \in Nat /\ j * B \in Nat
        /\ b < c => i * B + B <= j * B
        /\ c < b => j * B + B <= i * B
    <3>1. i \in Nat /\ j \in Nat /\ (b < c => i + 1 <= j) /\ (c < b => j + 1 <= i)
      BY <2>6
    <3> HIDE DEF i, j
    <3>2. i * B \in Nat /\ j * B \in Nat /\ (i + 1) * B = i * B + B /\ (j + 1) * B = j * B + B
      BY <1>1, <3>1, BatchEnds
    <3>3. i + 1 \in Nat /\ j + 1 \in Nat
      BY <3>1
    <3>4. (b < c => (i + 1) * B <= j * B) /\ (c < b => (j + 1) * B <= i * B)
      BY <1>1, <3>1, <3>3, BatchEnds
    <3> QED
      BY <3>2, <3>4
  <2> DEFINE f == i * B
             g == j * B
  <2>8. f + p = g + q
    BY <2>3, <2>5
  <2>9. f \in Nat /\ g \in Nat /\ (b < c => f + B <= g) /\ (c < b => g + B <= f)
    BY <2>7
  <2> HIDE DEF f, g
  <2>10. ~(b < c) /\ ~(c < b)
    BY <1>1, <2>4, <2>8, <2>9
  <2> QED
    BY <1>5, <2>10
<1>11. ASSUME ok, NEW x \in Range(files) PROVE \E b \in 1..n : x \in Range(bs[b])
  <2>1. PICK p \in 1..L : x = files[p]
    BY <1>4
  <2> DEFINE k == p - 1
             i == k \div B
             b == i + 1
  <2>2. k \in Nat /\ k + 1 = p /\ k < L
    BY <1>1
  <2> HIDE DEF k
  <2>3. i \in Nat /\ i * B <= k /\ k < i * B + B /\ i * B \in Nat
    BY <1>1, <2>2, BatchEnds
  <2>4. b \in 1..n
    <3>1. ~(n <= i)
      <4> SUFFICES ASSUME n <= i PROVE FALSE
        OBVIOUS
      <4> HIDE DEF i
      <4>1. n * B <= i * B /\ n * B \in Nat
        BY <1>1, <1>5, <2>3, BatchEnds
      <4> QED
        BY <1>1, <1>5, <1>11, <2>2, <2>3, <4>1
    <3> HIDE DEF i
    <3> QED
      BY <1>5, <2>3, <3>1
  <2>5. lo[b] = i * B
    <3>1. b - 1 = i
      BY <2>3
    <3> HIDE DEF i, b
    <3> QED
      BY <1>12, <2>4, <3>1
  <2> HIDE DEF i, b
  <2> DEFINE q == p - lo[b]
  <2>6. q \in 1..(hi[b] - lo[b]) /\ lo[b] + q = p
    <3> DEFINE f == i * B
    <3>1. f \in Nat /\ f <= k /\ k < f + B /\ lo[b] = f
      BY <2>3, <2>5
    <3> HIDE DEF f
    <3>2. hi[b] \in 0..L /\ (hi[b] = L \/ hi[b] = f + B)
      BY <1>6, <2>4, <3>1
    <3> QED
      BY <1>1, <2>2, <3>1, <3>2
  <2> HIDE DEF q
  <2>7. q \in 1..Len(bs[b]) /\ bs[b][q] = x
    BY <1>7, <2>1, <2>4, <2>6
  <2>8. DOMAIN bs[b] = 1..Len(bs[b])
    BY <1>7, <2>4
  <2>9. x \in Range(bs[b])
    BY <2>7, <2>8 DEF Range
  <2> QED
    BY <2>4, <2>9
<1> QED
  BY <1>8, <1>9, <1>10, <1>11 DEF bs, AreBatches

LEMMA TrimmedIs ==
    ASSUME NEW path \in Seq(Names), path # <<>>
    PROVE  /\ Trimmed(path) \in Seq(Names) /\ Len(Trimmed(path)) = Len(path)
           /\ Trimmed(path)[1] = Bare[path[1]]
           /\ \A i \in 1..Len(path) : i # 1 => Trimmed(path)[i] = path[i]
           /\ Bare[path[1]] = path[1] => Trimmed(path) = path
<1> DEFINE n == Len(path)
<1>1. n \in Nat /\ n # 0 /\ DOMAIN path = 1..n /\ path \in [1..n -> Names] /\ path[1] \in Names
  OBVIOUS
<1>2. Bare[path[1]] \in Names
  BY <1>1, ScopeAssumption
<1>3. Trimmed(path) = [path EXCEPT ![1] = Bare[path[1]]]
  BY DEF Trimmed
<1> HIDE DEF n
<1>4. Trimmed(path) \in [1..n -> Names]
  BY <1>1, <1>2, <1>3
<1>5. Trimmed(path) \in Seq(Names) /\ Len(Trimmed(path)) = n
  BY <1>1, <1>4
<1>6. Bare[path[1]] = path[1] => Trimmed(path) = path
  BY <1>1, <1>3
<1> QED
  BY <1>1, <1>3, <1>5, <1>6 DEF n

\* Where a plan's path may stand in the batch.
LowerAt(batch, path) == {i \in DOMAIN batch : Lower(batch[i].path) = Lower(path)}

\* A path that is alone is looked up by its own name only.
LEMMA AloneInLower ==
    ASSUME NEW share \in Shares, NEW path \in Seq(Names), path # <<>>, Alone(path, share),
           NEW e \in Range(share), e.path # <<>>, Lower(e.path) = Lower(path)
    PROVE  e.path = path
<1> DEFINE p == e.path
           t == Trimmed(p)
           n == Len(path)
<1>1. p \in Seq(Names) /\ p # <<>>
  BY Listing
<1>2. Bare[path[1]] = path[1]
  BY DEF Alone
<1> HIDE DEF p
<1>3. /\ Lower(p) = [i \in 1..Len(p) |-> Fold[p[i]]]
      /\ Lower(path) = [i \in 1..n |-> Fold[path[i]]]
      /\ Len(p) \in Nat /\ n \in Nat /\ n # 0
  BY <1>1 DEF Lower
<1>4. Lower(p) = Lower(path)
  BY DEF p
<1> HIDE DEF n
<1>5. 1..Len(p) = 1..n
  <2>1. DOMAIN Lower(p) = 1..Len(p) /\ DOMAIN Lower(path) = 1..n
    BY <1>3
  <2> QED
    BY <1>4, <2>1
<1>6. \A i \in 1..n : Fold[p[i]] = Fold[path[i]]
  BY <1>3, <1>4, <1>5
<1>7. Len(p) = n
  BY <1>3, <1>5
<1>8. /\ t \in Seq(Names) /\ Len(t) = n /\ t[1] = Bare[p[1]]
      /\ \A i \in 1..n : i # 1 => t[i] = p[i]
  BY <1>1, <1>7, TrimmedIs
<1>9. p[1] \in Names /\ path[1] \in Names /\ 1 \in 1..n
  BY <1>1, <1>3 DEF n
<1>10. Fold[t[1]] = Fold[path[1]]
  <2>1. Key(p[1]) = Key(path[1])
    BY <1>6, <1>9, ScopeAssumption
  <2> QED
    BY <1>2, <1>8, <2>1 DEF Key
<1> HIDE DEF t
<1>11. Lower(t) = [i \in 1..n |-> Fold[t[i]]]
  BY <1>8 DEF Lower
<1>12. Lower(t) = Lower(path)
  <2>1. \A i \in 1..n : Fold[t[i]] = Fold[path[i]]
    BY <1>6, <1>8, <1>10
  <2> QED
    BY <1>3, <1>11, <2>1
<1> QED
  BY <1>1, <1>12 DEF Alone, p, t

LEMMA QueuedHas ==
    ASSUME NEW share \in Shares, NEW batch \in Seq(Range(share)), Once(batch), NEW cfg,
           \A e \in Range(batch) : e.path # <<>>, NEW name, NEW source
    PROVE  LET q == Queued(batch, name, source, cfg)
           IN /\ q \in Seq(Seq(Names))
              /\ \A x \in Range(q) : \E e \in Range(batch) : e.path = x
              /\ \A path \in Seq(Names) : path # <<>> /\ Alone(path, share) =>
                    /\ Lone(q, path)
                    /\ \A e \in Range(batch) :
                          e.path = path /\ PathAllowed(path, cfg) => path \in Range(q)
<1> DEFINE R == Range(share)
           K == {f \in Range(batch) : PathAllowed(Trimmed(f.path), cfg)}
           kept == Those(batch, K)
           items == [i \in DOMAIN kept |->
                        [path |-> Trimmed(kept[i].path),
                         priority |-> ScoreFile(kept[i], name, source, cfg)]]
           plans == PlanFiles(batch, name, source, cfg)
           A == {p \in Range(plans) : LowerAt(batch, p.path) # {}}
           there == Those(plans, A)
           found == [i \in DOMAIN there |-> Max(LowerAt(batch, there[i].path))]
           q == Queued(batch, name, source, cfg)
<1>1. plans = ByPriority(items)
  BY DEF PlanFiles
<1>2. q = [i \in DOMAIN there |-> batch[Max(LowerAt(batch, there[i].path))].path]
  BY DEF Queued, LowerAt
<1>3. \A i \in DOMAIN there : q[i] = batch[found[i]].path
  BY <1>2
<1>4. DOMAIN q = DOMAIN there
  BY <1>2
<1>5. q = [i \in DOMAIN there |-> q[i]]
  BY <1>2
<1> HIDE DEF plans, q
<1>6. /\ batch \in Seq(R) /\ Len(batch) \in Nat /\ DOMAIN batch = 1..Len(batch)
      /\ \A b \in 1..Len(batch) : batch[b] \in R /\ batch[b] \in Range(batch)
      /\ Range(batch) = {batch[b] : b \in 1..Len(batch)}
      /\ \A b \in Range(batch) : b \in R
  BY DEF Range
<1>7. kept \in Seq(R) /\ Range(kept) = Range(batch) \intersect K /\ Once(kept)
  <2>1. kept \in Seq(R) /\ Range(kept) = Range(batch) \intersect K /\ Picks(kept, batch)
    <3> HIDE DEF K, R
    <3> QED
      BY <1>6, KeptOf
  <2> HIDE DEF kept
  <2> QED
    BY <2>1, OnceStays
<1>8. \A f : f \in K <=> f \in Range(batch) /\ PathAllowed(Trimmed(f.path), cfg)
  OBVIOUS
<1> DEFINE n == Len(kept)
<1>9. /\ n \in Nat /\ DOMAIN kept = 1..n
      /\ \A i \in 1..n : kept[i] \in R /\ kept[i] \in Range(kept)
  <2> HIDE DEF kept
  <2> QED
    BY <1>7, Indexed
<1> HIDE DEF kept, K, n
<1>10. \A i \in 1..n : items[i].path = Trimmed(kept[i].path) /\ items[i].priority \in Int
  BY <1>9, ScoresAreNumbers
<1> DEFINE I == {items[i] : i \in 1..n}
<1>11. items \in Seq(I) /\ Len(items) = n /\ DOMAIN items = 1..n /\ Range(items) = I
  <2>1. items = [i \in 1..n |-> items[i]]
    BY <1>9
  <2> HIDE DEF items
  <2>2. \A i \in 1..n : items[i] \in I
    OBVIOUS
  <2> HIDE DEF I
  <2>3. items \in Seq(I) /\ Len(items) = n /\ DOMAIN items = 1..n
    BY <1>9, <2>1, <2>2
  <2> QED
    BY <2>3 DEF Range, I
<1> HIDE DEF items, I
<1>12. plans \in Seq(I) /\ Len(plans) = n /\ Picks(plans, items) /\ Range(plans) = I
  BY <1>1, <1>10, <1>11, ByPriorityPermutes
<1>13. there \in Seq(I) /\ Range(there) = Range(plans) \intersect A /\ Picks(there, plans)
  <2> HIDE DEF A
  <2> QED
    BY <1>12, KeptOf
<1>14. \A p : p \in A <=> p \in Range(plans) /\ LowerAt(batch, p.path) # {}
  OBVIOUS
<1> DEFINE m == Len(there)
<1>15. /\ m \in Nat /\ DOMAIN there = 1..m
       /\ \A k \in 1..m : there[k] \in A
       /\ Range(there) = {there[k] : k \in 1..m}
  <2> HIDE DEF there, A
  <2> QED
    BY <1>13, Indexed
<1>16. \A k \in 1..m : found[k] = Max(LowerAt(batch, there[k].path))
  BY <1>15
<1> HIDE DEF there, A, m, found
<1>17. \A k \in 1..m : /\ found[k] \in 1..Len(batch)
                       /\ Lower(batch[found[k]].path) = Lower(there[k].path)
  <2> TAKE k \in 1..m
  <2> DEFINE S == LowerAt(batch, there[k].path)
  <2>1. S \in SUBSET (1..Len(batch)) /\ S # {}
    BY <1>6, <1>14, <1>15 DEF LowerAt
  <2> HIDE DEF S
  <2>2. Max(S) \in S
    BY <1>6, <2>1, GreatestOf
  <2> QED
    BY <1>16, <2>1, <2>2 DEF S, LowerAt
<1>18. \A k \in 1..m : q[k] = batch[found[k]].path /\ batch[found[k]] \in R
                       /\ batch[found[k]] \in Range(batch) /\ q[k] \in Seq(Names)
  BY <1>3, <1>6, <1>15, <1>17, Listing
<1>19. q \in Seq(Seq(Names)) /\ Len(q) = m /\ DOMAIN q = 1..m /\ Range(q) = {q[k] : k \in 1..m}
  <2> DEFINE T == Seq(Names)
  <2>1. q = [k \in 1..m |-> q[k]] /\ \A k \in 1..m : q[k] \in T
    BY <1>5, <1>15, <1>18
  <2> HIDE DEF T
  <2>2. q \in Seq(T) /\ Len(q) = m /\ DOMAIN q = 1..m
    BY <1>15, <2>1
  <2> QED
    BY <2>2 DEF T, Range
<1>20. \A x \in Range(q) : \E e \in Range(batch) : e.path = x
  BY <1>18, <1>19
<1>21. PICK by : PicksBy(by, there, items)
  BY <1>11, <1>12, <1>13, <1>15, PicksTrans DEF Picks, m
<1>22. /\ \A k \in 1..m : by[k] \in 1..n /\ there[k] = items[by[k]]
       /\ \A k, l \in 1..m : by[k] = by[l] => k = l
  BY <1>11, <1>21 DEF PicksBy, Injects, m
<1>23. ASSUME NEW path \in Seq(Names), path # <<>>, Alone(path, share)
       PROVE  Lone(q, path)
  <2>1. ASSUME NEW k \in 1..m, q[k] = path PROVE kept[by[k]].path = path
    <3> DEFINE e == kept[by[k]]
    <3>1. e \in R /\ e \in Range(kept) /\ e.path # <<>> /\ there[k].path = Trimmed(e.path)
      BY <1>7, <1>9, <1>10, <1>22
    <3>2. Lower(Trimmed(e.path)) = Lower(path)
      BY <1>17, <1>18, <2>1, <3>1
    <3> HIDE DEF e
    <3> QED
      BY <1>23, <3>1, <3>2 DEF Alone, e
  <2>2. ASSUME NEW k \in 1..m, NEW l \in 1..m, q[k] = path, q[l] = path PROVE k = l
    <3>1. kept[by[k]].path = kept[by[l]].path
      BY <2>1, <2>2
    <3>2. kept[by[k]] = kept[by[l]]
      BY <1>9, <1>22, <3>1, Listing
    <3>3. by[k] = by[l]
      BY <1>7, <1>22, <3>2 DEF Once, n
    <3> QED
      BY <1>22, <3>3
  <2> QED
    BY <1>19, <2>2 DEF Lone
<1>24. ASSUME NEW path \in Seq(Names), path # <<>>, Alone(path, share),
              NEW e \in Range(batch), e.path = path, PathAllowed(path, cfg)
       PROVE  path \in Range(q)
  <2>1. Trimmed(path) = path
    BY <1>24, TrimmedIs DEF Alone
  <2>2. e \in Range(kept)
    BY <1>7, <1>8, <1>24, <2>1
  <2>3. PICK i \in 1..n : kept[i] = e
    BY <1>9, <2>2 DEF Range
  <2>4. items[i].path = path /\ items[i] \in I
    BY <1>10, <1>24, <2>1, <2>3 DEF I
  <2>5. LowerAt(batch, path) # {}
    BY <1>6, <1>24 DEF LowerAt
  <2>6. items[i] \in Range(there)
    BY <1>12, <1>13, <1>14, <2>4, <2>5
  <2>7. PICK k \in 1..m : there[k] = items[i]
    BY <1>15, <2>6
  <2>8. Lower(batch[found[k]].path) = Lower(path) /\ batch[found[k]].path # <<>>
    BY <1>17, <1>18, <2>4, <2>7
  <2>9. batch[found[k]].path = path
    BY <1>18, <1>24, <2>8, AloneInLower
  <2> QED
    BY <1>18, <1>19, <2>9
<1> QED
  BY <1>19, <1>20, <1>23, <1>24 DEF q

LEMMA LoneCounts ==
    ASSUME NEW T, NEW s \in Seq(T), NEW x, Lone(s, x)
    PROVE  LET times == Cardinality({i \in DOMAIN s : s[i] = x})
           IN times = (IF x \in Range(s) THEN 1 ELSE 0)
<1> DEFINE S == {i \in DOMAIN s : s[i] = x}
<1>1. DOMAIN s = 1..Len(s) /\ Range(s) = {s[i] : i \in 1..Len(s)}
  BY Indexed
<1>2. CASE x \in Range(s)
  <2>1. PICK i \in 1..Len(s) : s[i] = x
    BY <1>1, <1>2
  <2>2. S = {i}
    BY <1>1, <2>1 DEF Lone
  <2> QED
    BY <1>2, <2>2, FS_Singleton
<1>3. CASE x \notin Range(s)
  <2>1. S = {}
    BY <1>1, <1>3
  <2> QED
    BY <1>3, <2>1, FS_EmptySet
<1> QED
  BY <1>2, <1>3

LEMMA SharesAreScanned ==
    ASSUME NEW share \in Shares, NEW cfg \in ScopeConfigs, NEW name, NEW source
    PROVE  LET r == ScanShare(share, name, source, cfg)
               scope == InScope(share, cfg)
           IN /\ Range(r.queue) \subseteq scope
              /\ \A path \in scope :
                    LET times == Cardinality({i \in DOMAIN r.queue : r.queue[i] = path})
                    IN Alone(path, share) => IF r.ok THEN times = 1 ELSE times <= 1
<1> DEFINE R == Range(share)
           walked == WalkShare(share, cfg)
           files == walked.files
           bs == Batches(files, walked.ok)
           n == Len(bs)
           queues == [i \in DOMAIN bs |-> Queued(bs[i], name, source, cfg)]
           all == FlattenSeq(queues)
           r == ScanShare(share, name, source, cfg)
           scope == InScope(share, cfg)
<1>1. r.ok = walked.ok /\ r.queue = all
  BY DEF ScanShare
<1>2. /\ walked \in Walks(R) /\ Once(files)
      /\ \A e \in Range(files) : /\ ~e.dir /\ ShouldInclude(e.path, cfg)
                                 /\ e \in R /\ OpenAbove(e, share)
      /\ walked.ok => \A e \in R :
                    /\ ~e.dir /\ ShouldInclude(e.path, cfg) /\ OpenAbove(e, share)
                    /\ \A q \in Parents(e.path) : q = <<>> \/ ShouldDescend(q, cfg)
                    => e \in Range(files)
  BY WalkIsExact
<1>3. /\ \A e, d \in R : e.path = d.path => e = d
      /\ \A e \in R : e.path \in Seq(Names) /\ (~e.dir => e.path # <<>>)
  <2>1. \E d \in R : d.dir /\ d.path = <<>>
    BY Listing
  <2> QED
    BY <2>1, Listing
<1> HIDE DEF walked, r
<1>4. files \in Seq(R) /\ walked.ok \in BOOLEAN
  BY <1>2 DEF Walks
<1>5. \A e \in Range(files) : /\ e \in R /\ e.path \in scope /\ e.path # <<>>
                              /\ PathAllowed(e.path, cfg)
  BY <1>2, <1>3, IncludeIs, ScopeHas
<1>6. walked.ok => \A path \in scope : \E e \in Range(files) : e.path = path
  <2> SUFFICES ASSUME walked.ok, NEW path \in scope PROVE \E e \in Range(files) : e.path = path
    OBVIOUS
  <2>1. PICK e \in R : /\ e.path = path /\ ~e.dir /\ path # <<>>
                       /\ Fits(path, cfg) /\ OpenAbove(e, share)
    BY ScopeHas
  <2>2. ShouldInclude(e.path, cfg) /\ \A q \in Parents(e.path) : q = <<>> \/ ShouldDescend(q, cfg)
    BY <1>3, <2>1, IncludeIs, DescendsTo
  <2> QED
    BY <1>2, <2>1, <2>2
<1>7. \A path \in scope : path \in Seq(Names) /\ path # <<>>
  BY <1>3, ScopeHas
<1> HIDE DEF files, bs, scope
<1>8. /\ bs \in Seq(Seq(R))
      /\ \A b \in 1..n : Once(bs[b]) /\ Range(bs[b]) \subseteq Range(files)
      /\ \A x : \A b, c \in 1..n : x \in Range(bs[b]) /\ x \in Range(bs[c]) => b = c
      /\ walked.ok => \A x \in Range(files) : \E b \in 1..n : x \in Range(bs[b])
  <2>1. AreBatches(Batches(files, walked.ok), files, R, walked.ok)
    <3> HIDE DEF R
    <3> QED
      BY <1>2, <1>4, BatchesHave
  <2> QED
    BY <2>1 DEF AreBatches, bs
<1>9. /\ n \in Nat /\ DOMAIN bs = 1..n /\ \A b \in 1..n : bs[b] \in Seq(R)
      /\ DOMAIN queues = 1..n /\ queues = [b \in 1..n |-> queues[b]]
      /\ \A b \in 1..n : queues[b] = Queued(bs[b], name, source, cfg)
  BY <1>8
<1> HIDE DEF n, queues
<1>10. ASSUME NEW b \in 1..n
       PROVE  /\ queues[b] \in Seq(Seq(Names))
              /\ \A x \in Range(queues[b]) : \E e \in Range(bs[b]) : e.path = x
              /\ \A path \in scope : Alone(path, share) =>
                    /\ Lone(queues[b], path)
                    /\ \A e \in Range(bs[b]) : e.path = path => path \in Range(queues[b])
  <2> DEFINE batch == bs[b]
             q == queues[b]
  <2>1. /\ batch \in Seq(R) /\ Once(batch) /\ q = Queued(batch, name, source, cfg)
        /\ \A e \in Range(batch) : e.path # <<>> /\ PathAllowed(e.path, cfg)
    BY <1>5, <1>8, <1>9
  <2>0. \A e \in Range(batch) : e.path # <<>>
    BY <2>1
  <2> DEFINE q0 == Queued(batch, name, source, cfg)
  <2> HIDE DEF batch, q, q0, all
  <2>4. /\ q0 \in Seq(Seq(Names))
        /\ \A x \in Range(q0) : \E e \in Range(batch) : e.path = x
        /\ \A path \in Seq(Names) : path # <<>> /\ Alone(path, share) =>
              /\ Lone(q0, path)
              /\ \A e \in Range(batch) :
                    e.path = path /\ PathAllowed(path, cfg) => path \in Range(q0)
    BY <2>0, <2>1, QueuedHas DEF q0
  <2>2. /\ q \in Seq(Seq(Names))
        /\ \A x \in Range(q) : \E e \in Range(batch) : e.path = x
        /\ \A path \in Seq(Names) : path # <<>> /\ Alone(path, share) =>
              /\ Lone(q, path)
              /\ \A e \in Range(batch) :
                    e.path = path /\ PathAllowed(path, cfg) => path \in Range(q)
    BY <2>1, <2>4 DEF q0
  <2>3. \A path \in scope : Alone(path, share) =>
           /\ Lone(q, path)
           /\ \A e \in Range(batch) : e.path = path => path \in Range(q)
    BY <1>7, <2>1, <2>2
  <2> QED
    BY <2>2, <2>3 DEF batch, q
<1>11. queues \in Seq(Seq(Seq(Names))) /\ Len(queues) = n
  <2> DEFINE S == Seq(Seq(Names))
  <2>1. \A b \in 1..n : queues[b] \in S
    BY <1>10
  <2> HIDE DEF S
  <2>2. queues \in Seq(S) /\ Len(queues) = n
    BY <1>9, <2>1
  <2> QED
    BY <2>2 DEF S
<1>12. /\ all \in Seq(Seq(Names))
       /\ \A y : y \in Range(all) <=> \E b \in 1..n : y \in Range(queues[b])
       /\ \A x : /\ \A b \in 1..n : Lone(queues[b], x)
                 /\ \A b, c \in 1..n :
                       x \in Range(queues[b]) /\ x \in Range(queues[c]) => b = c
                 => Lone(all, x)
  <2> DEFINE T == Seq(Names)
  <2>1. queues \in Seq(Seq(T))
    BY <1>11
  <2> HIDE DEF T
  <2>2. /\ all \in Seq(T)
        /\ \A y : y \in Range(all) <=> \E b \in 1..Len(queues) : y \in Range(queues[b])
        /\ \A x : /\ \A b \in 1..Len(queues) : Lone(queues[b], x)
                  /\ \A b, c \in 1..Len(queues) :
                        x \in Range(queues[b]) /\ x \in Range(queues[c]) => b = c
                  => Lone(all, x)
    BY <2>1, FlattenHas
  <2> QED
    BY <1>11, <2>2 DEF T
<1> HIDE DEF all
<1>13. Range(all) \subseteq scope
  <2> SUFFICES ASSUME NEW y \in Range(all) PROVE y \in scope
    OBVIOUS
  <2>1. PICK b \in 1..n : y \in Range(queues[b])
    BY <1>12
  <2>2. PICK e \in Range(bs[b]) : e.path = y
    BY <1>10, <2>1
  <2>3. e \in Range(files)
    BY <1>8, <2>2
  <2> QED
    BY <1>5, <2>2, <2>3
<1>14. ASSUME NEW path \in scope, Alone(path, share)
       PROVE  Lone(all, path) /\ (walked.ok => path \in Range(all))
  <2>1. ASSUME NEW b \in 1..n, NEW c \in 1..n, path \in Range(queues[b]), path \in Range(queues[c])
        PROVE  b = c
    <3>1. PICK e \in Range(bs[b]) : e.path = path
      BY <1>10, <2>1
    <3>2. PICK d \in Range(bs[c]) : d.path = path
      BY <1>10, <2>1
    <3>3. e \in R /\ d \in R
      BY <1>5, <1>8
    <3>4. e = d
      BY <1>3, <3>1, <3>2, <3>3
    <3> QED
      BY <1>8, <3>1, <3>4
  <2>2. Lone(all, path)
    BY <1>10, <1>12, <1>14, <2>1
  <2>3. walked.ok => path \in Range(all)
    BY <1>6, <1>8, <1>10, <1>12, <1>14
  <2> QED
    BY <2>2, <2>3
<1>15. ASSUME NEW path \in scope, Alone(path, share)
       PROVE  LET times == Cardinality({i \in DOMAIN all : all[i] = path})
              IN IF walked.ok THEN times = 1 ELSE times <= 1
  <2> DEFINE times == Cardinality({i \in DOMAIN all : all[i] = path})
  <2>1. times = (IF path \in Range(all) THEN 1 ELSE 0)
    <3> DEFINE T == Seq(Names)
    <3>1. all \in Seq(T) /\ Lone(all, path)
      BY <1>12, <1>14, <1>15
    <3> HIDE DEF T
    <3> QED
      BY <3>1, LoneCounts
  <2> HIDE DEF times
  <2>2. IF walked.ok THEN times = 1 ELSE times <= 1
    BY <1>14, <1>15, <2>1
  <2> QED
    BY <2>2 DEF times
<1> QED
  BY <1>1, <1>13, <1>15 DEF scope, r

-------------------------------------------------------------------------------
(***************************************************************************)
(* A computation is what its task says, with its input and its result.     *)
(***************************************************************************)
LEMMA DiffTask ==
    ASSUME Next PROVE SavedReportsCompareAlike'
<1>1. CASE CompareScans
  <2>1. PICK scans \in Reports :
           LET old == Saved(scans[1])
           IN Compute("diff", scans, [offline |-> DiffOfReports(old, Saved(scans[2])),
                                      online |-> DiffInScan(old, scans[2])])
    BY <1>1 DEF CompareScans
  <2>2. IsList(scans[1]) /\ IsList(scans[2])
    BY AnalysisAssumption
  <2>3. /\ result'.offline = DiffOfReports(Saved(scans[1]), Saved(scans[2]))
        /\ result'.online = DiffInScan(Saved(scans[1]), scans[2])
    BY <2>1 DEF Compute
  <2> QED
    BY <2>2, <2>3, ComparesAlike DEF SavedReportsCompareAlike
<1>2. CASE ~CompareScans
  <2>1. task' # "diff"
    BY <1>2 DEF Next, PlanHost, ScopeShare, EvaluateFile, FindRules, ScoreFindings, WriteReport,
                VerifySeed, Compute
  <2> QED
    BY <2>1 DEF SavedReportsCompareAlike
<1> QED
  BY <1>1, <1>2

\* RulePaths: the rules that were computed are those of the nearest checkout.
LEMMA RulesTask ==
    ASSUME Next PROVE RulesStayWithTheConfiguration'
<1>1. CASE FindRules
  <2>1. PICK l \in Launches :
           LET config == ResolveConfigPath(l.config, l.cwd, l.exe, l.exists) IN
           /\ config \in l.exists
           /\ Compute("rules", [found |-> config, launch |-> l],
                      RulePaths(<<>>, Dir(config), l.cwd, l.exe, l.exists))
    BY <1>1 DEF FindRules
  <2> DEFINE config == ResolveConfigPath(l.config, l.cwd, l.exe, l.exists)
             Nearest(found, launch, paths) ==
                LET rules == <<"configs", "rules", "default">>
                    above == {n \in 0..Len(found) - 1 :
                                LET dir == SubSeq(found, 1, n) IN
                                /\ dir \o rules \in launch.exists
                                /\ \/ dir \o <<"configs", "config.yaml">> \in launch.exists
                                   \/ dir \o <<"go.mod">> \in launch.exists}
                IN (above # {} /\ launch.cwd \o rules \notin launch.exists) =>
                       \E n \in above : /\ \A m \in above : m <= n
                                        /\ paths[1] = SubSeq(found, 1, n) \o rules
  <2>2. /\ config \in l.exists
        /\ input' = [found |-> config, launch |-> l]
        /\ result' = RulePaths(<<>>, Dir(config), l.cwd, l.exe, l.exists)
    BY <2>1 DEF Compute
  <2> HIDE DEF config
  <2>3. input'.found = config /\ input'.launch = l
    BY <2>2
  <2>4. Nearest(config, l, RulePaths(<<>>, Dir(config), l.cwd, l.exe, l.exists))
    BY <2>2, NearestRulesAreFound
  <2> HIDE DEF Nearest
  <2>5. Nearest(input'.found, input'.launch, result')
    BY <2>2, <2>3, <2>4
  <2> QED
    BY <2>5 DEF Nearest, RulesStayWithTheConfiguration
<1>2. CASE ~FindRules
  <2>1. task' # "rules"
    BY <1>2 DEF Next, PlanHost, ScopeShare, EvaluateFile, CompareScans, ScoreFindings, WriteReport,
                VerifySeed, Compute
  <2> QED
    BY <2>1 DEF RulesStayWithTheConfiguration
<1> QED
  BY <1>1, <1>2

\* NeedsContent, Evaluate, TestInputFile: what was computed is of one file and of settings
\* that passed the checks.
LEMMA EvaluateTask ==
    ASSUME Next PROVE WantedFilesAreReadAndEvaluated' /\ TesterShowsWhatTheScanFinds'
<1>1. CASE EvaluateFile
  <2>1. PICK file \in ConfigFiles, flags \in FlagSets, rules \in RuleLists, f \in Files :
           LET cfg == Configured(file, flags) IN
           /\ Loads(file) /\ ValidateScanConfig(cfg)
           /\ Compute("evaluate", [cfg |-> cfg, rules |-> rules, file |-> f],
                      [need |-> NeedsContent(cfg, rules, f),
                       limit |-> ScanReadLimit(cfg),
                       seen |-> Evaluate(cfg, rules, f, TRUE),
                       tested |-> TestInputFile(rules, f)])
    BY <1>1 DEF EvaluateFile
  <2> DEFINE cfg == Configured(file, flags)
             need == NeedsContent(cfg, rules, f)
             seen == Evaluate(cfg, rules, f, TRUE)
             tested == TestInputFile(rules, f)
             limit == ScanReadLimit(cfg)
  <2>2. /\ ValidateScanConfig(cfg)
        /\ input' = [cfg |-> cfg, rules |-> rules, file |-> f]
        /\ result' = [need |-> need, limit |-> limit, seen |-> seen, tested |-> tested]
    BY <2>1 DEF Compute
  <2>3. limit = ScanReadLimit(cfg)
    BY DEF ScanReadLimit, Max
  <2>4. cfg.max_file \in Int /\ f.size \in Nat
    BY ConfiguredLimits, AnalysisAssumption DEF Sizes
  <2>5. need => f.size <= limit
    BY <2>2, <2>3, NeededIsReadable
  <2>6. ~ (IsSQLite(f) /\ f.size > cfg.max_file) => need = seen.need
    BY <2>4, NeededIsSeen
  <2>7. ASSUME ~ IsArchive(f), ~ IsWIM(f),
               \A r \in Range(rules) : /\ "" \notin r.include_paths \union r.exclude_paths
                                       /\ ~ (r.action = "skip" /\ r.type = "content")
        PROVE  seen.finds \intersect {<<r.id>> : r \in {x \in Range(rules) : x.id \notin f.assigned}}
               \subseteq {<<r.id>> : r \in tested.matches}
    <3>1. /\ FileFields \subseteq DOMAIN f
          /\ \A r \in Range(rules) : r.type \in RuleTypes /\ <<r.id>> \notin f.marks \union f.held
      BY AnalysisAssumption
    <3> QED
      BY <2>7, <3>1, FoundIsShown
  <2> HIDE DEF cfg, need, seen, tested, limit
  <2>8. /\ input'.cfg = cfg /\ input'.rules = rules /\ input'.file = f
        /\ result'.need = need /\ result'.limit = limit
        /\ result'.seen = seen /\ result'.tested = tested
    BY <2>2
  <2>9. WantedFilesAreReadAndEvaluated'
    BY <2>5, <2>6, <2>8 DEF WantedFilesAreReadAndEvaluated
  <2>10. TesterShowsWhatTheScanFinds'
    BY <2>7, <2>8 DEF TesterShowsWhatTheScanFinds
  <2> QED
    BY <2>9, <2>10
<1>2. CASE ~EvaluateFile
  <2>1. task' # "evaluate"
    BY <1>2 DEF Next, PlanHost, ScopeShare, FindRules, CompareScans, ScoreFindings, WriteReport,
                VerifySeed, Compute
  <2> QED
    BY <2>1 DEF WantedFilesAreReadAndEvaluated, TesterShowsWhatTheScanFinds
<1> QED
  BY <1>1, <1>2

\* correlateGroup: the scores that were computed are of groups that extend each other.
LEMMA ScoreTask ==
    ASSUME Next PROVE MoreEvidenceRaisesTheScore'
<1>1. CASE ScoreFindings
  <2>1. PICK group \in FileFindings, meta \in FileMetas :
           Compute("score", [group |-> group, meta |-> meta],
                   [i \in DOMAIN group |-> BaseScore(SubSeq(group, 1, i), meta)])
    BY <1>1 DEF ScoreFindings
  <2>2. result' = [i \in DOMAIN group |-> BaseScore(SubSeq(group, 1, i), meta)]
    BY <2>1 DEF Compute
  <2>3. group \in Seq(Range(group))
    BY AnalysisAssumption DEF IsList
  <2>4. Len(group) \in Nat /\ DOMAIN group = 1..Len(group)
    BY <2>3
  <2>5. ASSUME NEW i \in DOMAIN group, i > 1
        PROVE  BaseScore(SubSeq(group, 1, i - 1), meta) <= BaseScore(SubSeq(group, 1, i), meta)
    <3> DEFINE g == SubSeq(group, 1, i - 1)
               h == SubSeq(group, 1, i)
    <3>1. \A n \in 1..Len(group) :
             /\ DOMAIN SubSeq(group, 1, n) = 1..n
             /\ \A j \in 1..n : SubSeq(group, 1, n)[j] = group[j]
      BY <2>3, <2>4
    <3>2. i - 1 \in 1..Len(group) /\ i \in 1..Len(group)
      BY <2>4, <2>5
    <3>3. Extends(g, h)
      <4>1. DOMAIN g = 1..(i - 1) /\ DOMAIN h = 1..i
        BY <3>1, <3>2
      <4>2. \A j \in 1..(i - 1) : g[j] = group[j] /\ h[j] = group[j]
        BY <3>1, <3>2
      <4> QED
        BY <4>1, <4>2, <3>2 DEF Extends
    <3>4. IsFiniteSet(DOMAIN h)
      BY <3>1, <3>2, FS_Interval
    <3> QED
      BY <3>3, <3>4, MoreScoresMore
  <2>6. ASSUME NEW i \in DOMAIN group, i > 1 PROVE i - 1 \in DOMAIN group
    BY <2>4, <2>6
  <2> QED
    BY <2>2, <2>4, <2>5, <2>6 DEF MoreEvidenceRaisesTheScore
<1>2. CASE ~ScoreFindings
  <2>1. task' # "score"
    BY <1>2 DEF Next, PlanHost, ScopeShare, EvaluateFile, FindRules, CompareScans, WriteReport,
                VerifySeed, Compute
  <2> QED
    BY <2>1 DEF MoreEvidenceRaisesTheScore
<1> QED
  BY <1>1, <1>2

\* Close of a writer: what it computed is computed from a list of findings that are not
\* correlated, met by each writer in some order.
LEMMA ReportTask ==
    ASSUME Next
    PROVE  CorrelationIsExact' /\ ActionableLocationsAreShown' /\ ExportedSecretsAreShown'
<1>1. CASE WriteReport
  <2>0. PICK findings \in Findings : \E html, creds \in SetToSeqs(Dedupe(findings)) :
           LET all == Augment(html) IN
           Compute("report", findings,
                   [all |-> all, paths |-> AccessPaths(all),
                    primary |-> PrimaryEntries(SetToSeq(all)),
                    credentials |-> CredentialEntries(Augment(creds))])
    BY <1>1 DEF WriteReport
  <2>1. PICK html, creds \in SetToSeqs(Dedupe(findings)) :
           LET all == Augment(html) IN
           Compute("report", findings,
                   [all |-> all, paths |-> AccessPaths(all),
                    primary |-> PrimaryEntries(SetToSeq(all)),
                    credentials |-> CredentialEntries(Augment(creds))])
    BY <2>0
  <2> DEFINE all == Augment(html)
  <2>2. IsList(findings) /\ AreFindings(findings)
    BY AnalysisAssumption DEF AreFindings, IsFinding, CorrelationRules
  <2>3. /\ input' = findings
        /\ result'.all = all /\ result'.paths = AccessPaths(all)
        /\ result'.primary = PrimaryEntries(SetToSeq(all))
        /\ result'.credentials = CredentialEntries(Augment(creds))
    BY <2>1 DEF Compute
  <2>4. CorrelationIsExact'
    BY <2>1, <2>2, <2>3, CorrelationsAreExact DEF CorrelationIsExact
  <2>5. ActionableLocationsAreShown'
    BY <2>1, <2>2, <2>3, ActionableAreShown DEF ActionableLocationsAreShown
  <2>6. ExportedSecretsAreShown'
    BY <2>1, <2>2, <2>3, ExportedAreShown DEF ExportedSecretsAreShown
  <2> QED
    BY <2>4, <2>5, <2>6
<1>2. CASE ~WriteReport
  <2>1. task' # "report"
    BY <1>2 DEF Next, PlanHost, ScopeShare, EvaluateFile, FindRules, ScoreFindings, CompareScans,
                VerifySeed, Compute
  <2> QED
    BY <2>1 DEF CorrelationIsExact, ActionableLocationsAreShown, ExportedSecretsAreShown
<1> QED
  BY <1>1, <1>2

\* verifyFindings: the manifest of what was planted has each key once.
LEMMA SeedTask ==
    ASSUME Next PROVE VerificationAddsUp'
<1>1. CASE VerifySeed
  <2>1. PICK p \in Plantings, findings \in SeedFindings :
           LET planted == Generate(p.specs, p.per, p.max, p.pick)
               manifest == [i \in DOMAIN planted |-> Planted(SeedEntry[planted[i][2]], planted[i])]
           IN Compute("verify", [manifest |-> manifest, findings |-> findings],
                      Verify(manifest, findings))
    BY <1>1 DEF VerifySeed
  <2> DEFINE planted == Generate(p.specs, p.per, p.max, p.pick)
             manifest == [i \in DOMAIN planted |-> Planted(SeedEntry[planted[i][2]], planted[i])]
             n == Len(planted)
  <2>2. /\ input'.manifest = manifest /\ input'.findings = findings
        /\ result' = Verify(manifest, findings)
    BY <2>1 DEF Compute
  <2>3. PICK Y : /\ planted \in Seq(Y)
                 /\ \A y \in Y : \E d, v, k : y = <<d, v, k>>
                 /\ \A i, j \in 1..n : planted[i] = planted[j] => i = j
    <3>1. Len(p.specs) * p.per \in Nat
      BY AnalysisAssumption DEF IsList
    <3> QED
      BY <3>1, PlantedOnce
  <2> HIDE DEF planted
  <2>4. n \in Nat /\ DOMAIN planted = 1..n /\ \A i \in 1..n : planted[i] # <<>>
    BY <2>3
  <2> DEFINE m == input'.manifest
             f == input'.findings
             r == result'
  <2>5. IsManifest(m, n) /\ r = Verify(m, f)
    <3>1. \A i \in 1..n : manifest[i].key = planted[i]
      BY <2>4 DEF Planted
    <3>2. IsManifest(manifest, n)
      BY <2>3, <2>4, <3>1 DEF IsManifest
    <3> HIDE DEF manifest, n
    <3> QED
      BY <2>2, <3>2
  <2> HIDE DEF manifest, n, m, f, r
  <2>6. Cardinality(r.found) + Cardinality(r.missed) = Cardinality(ExpectedIn(m, n))
    BY <2>4, <2>5, FoundAndMissed
  <2>7. \A c \in Range(r.coverage) : c.expected = c.found + c.missed
    BY <2>4, <2>5, CategoriesAddUp DEF Range
  <2>8. \A c \in Range(r.classes) : /\ c.planted = c.detected + c.missed
                                   /\ c.planted = c.matched + c.mismatched
    BY <2>4, <2>5, ClassesAddUp DEF Range
  <2>9. LET onExpected == OnEntries(f, m, ExpectedIn(m, n))
            onFillers == OnEntries(f, m, FillersIn(m, n))
            keyed == {i \in DOMAIN f : f[i].key # <<>>}
        IN /\ r.unexpected = keyed \ (onExpected \union onFillers)
           /\ onExpected \intersect onFillers = {}
    BY <2>4, <2>5, FindingsAreSorted
  <2>10. DOMAIN m = 1..n
    BY <2>5 DEF IsManifest
  <2>11. {i \in DOMAIN m : m[i].intended # "filler/noise"} = ExpectedIn(m, n)
    BY <2>10 DEF ExpectedIn
  <2>12. {i \in DOMAIN f : \E j \in DOMAIN m :
             m[j].intended # "filler/noise" /\ f[i].key = m[j].key}
         = OnEntries(f, m, ExpectedIn(m, n))
    BY <2>10 DEF OnEntries, ExpectedIn
  <2>13. {i \in DOMAIN f : \E j \in DOMAIN m :
             m[j].intended = "filler/noise" /\ f[i].key = m[j].key}
         = OnEntries(f, m, FillersIn(m, n))
    BY <2>10 DEF OnEntries, FillersIn
  <2> QED
    BY <2>6, <2>7, <2>8, <2>9, <2>11, <2>12, <2>13 DEF VerificationAddsUp, m, f, r
<1>2. CASE ~VerifySeed
  <2>1. task' # "verify"
    BY <1>2 DEF Next, PlanHost, ScopeShare, EvaluateFile, FindRules, ScoreFindings, CompareScans,
                WriteReport, Compute
  <2> QED
    BY <2>1 DEF VerificationAddsUp
<1> QED
  BY <1>1, <1>2

\* PlanShares and ScopeShare: the one of a host, the other of a share.
LEMMA ScopeTasks ==
    ASSUME Next PROVE ScopeIsExactlyScanned'
<1>1. CASE PlanHost
  <2>1. PICK host \in Hosts, cfg \in ScopeConfigs :
           Compute("plan", [host |-> host, cfg |-> cfg], PlanShares(host, cfg))
    BY <1>1 DEF PlanHost
  <2>2. /\ task' = "plan" /\ input'.host = host /\ input'.cfg = cfg
        /\ result' = PlanShares(host, cfg)
    BY <2>1 DEF Compute
  <2>3. /\ {Fold[result'[i].share] : i \in DOMAIN result'} = SharesInScope(input'.host, input'.cfg)
        /\ Len(result') = Cardinality(SharesInScope(input'.host, input'.cfg))
    BY <2>2, PlansAreInScope
  <2> QED
    BY <2>2, <2>3 DEF ScopeIsExactlyScanned
<1>2. CASE ScopeShare
  <2>1. PICK share \in Shares, cfg \in ScopeConfigs :
           Compute("share", [share |-> share, cfg |-> cfg],
                   ScanShare(share, "data", "ldap", cfg))
    BY <1>2 DEF ScopeShare
  <2>2. /\ task' = "share" /\ input'.share = share /\ input'.cfg = cfg
        /\ result' = ScanShare(share, "data", "ldap", cfg)
    BY <2>1 DEF Compute
  <2>3. LET scope == InScope(input'.share, input'.cfg)
        IN /\ Range(result'.queue) \subseteq scope
           /\ \A path \in scope :
                 LET times == Cardinality({i \in DOMAIN result'.queue : result'.queue[i] = path})
                 IN Alone(path, input'.share) =>
                       IF result'.ok THEN times = 1 ELSE times <= 1
    BY <2>2, SharesAreScanned
  <2> QED
    BY <2>2, <2>3 DEF ScopeIsExactlyScanned
<1>3. CASE ~PlanHost /\ ~ScopeShare
  <2>1. task' # "plan" /\ task' # "share"
    BY <1>3 DEF Next, EvaluateFile, FindRules, ScoreFindings, CompareScans, WriteReport,
                VerifySeed, Compute
  <2> QED
    BY <2>1 DEF ScopeIsExactlyScanned
<1> QED
  BY <1>1, <1>2, <1>3

\* A host is scanned for the shares the filters let through, each once, and of a share whose
\* walk ends well each file in scope is queued once, and none beside, but for files that are
\* told apart only by case or a blank.
THEOREM ScopeIsExactlyScannedAlways == Spec => []ScopeIsExactlyScanned
<1>1. Init => ScopeIsExactlyScanned
  BY DEF Init, ScopeIsExactlyScanned
<1>2. ScopeIsExactlyScanned /\ [Next]_vars => ScopeIsExactlyScanned'
  <2>1. ASSUME ScopeIsExactlyScanned, UNCHANGED vars PROVE ScopeIsExactlyScanned'
    BY <2>1 DEF ScopeIsExactlyScanned, vars
  <2> QED
    BY <2>1, ScopeTasks
<1> QED
  BY <1>1, <1>2, PTL DEF Spec

\* RunDiff and a scan with a baseline agree on what is new, gone and changed, but for the
\* priorities.
THEOREM SavedReportsCompareAlikeAlways == Spec => []SavedReportsCompareAlike
<1>1. Init => SavedReportsCompareAlike
  BY DEF Init, SavedReportsCompareAlike
<1>2. SavedReportsCompareAlike /\ [Next]_vars => SavedReportsCompareAlike'
  <2>1. ASSUME SavedReportsCompareAlike, UNCHANGED vars PROVE SavedReportsCompareAlike'
    BY <2>1 DEF SavedReportsCompareAlike, vars
  <2> QED
    BY <2>1, DiffTask
<1> QED
  BY <1>1, <1>2, PTL DEF Spec

\* A configuration in a checkout brings the rules of the nearest checkout it is in.
THEOREM RulesStayWithTheConfigurationAlways == Spec => []RulesStayWithTheConfiguration
<1>1. Init => RulesStayWithTheConfiguration
  BY DEF Init, RulesStayWithTheConfiguration
<1>2. RulesStayWithTheConfiguration /\ [Next]_vars => RulesStayWithTheConfiguration'
  <2>1. ASSUME RulesStayWithTheConfiguration, UNCHANGED vars
        PROVE  RulesStayWithTheConfiguration'
    BY <2>1 DEF RulesStayWithTheConfiguration, vars
  <2> QED
    BY <2>1, RulesTask
<1> QED
  BY <1>1, <1>2, PTL DEF Spec

\* Of a configuration that passed the checks the worker reads exactly the files whose
\* evaluation looks at the content, and the client takes each of them.
THEOREM WantedFilesAreReadAndEvaluatedAlways == Spec => []WantedFilesAreReadAndEvaluated
<1>1. Init => WantedFilesAreReadAndEvaluated
  BY DEF Init, WantedFilesAreReadAndEvaluated
<1>2. WantedFilesAreReadAndEvaluated /\ [Next]_vars => WantedFilesAreReadAndEvaluated'
  <2>1. ASSUME WantedFilesAreReadAndEvaluated, UNCHANGED vars
        PROVE  WantedFilesAreReadAndEvaluated'
    BY <2>1 DEF WantedFilesAreReadAndEvaluated, vars
  <2> QED
    BY <2>1, EvaluateTask
<1> QED
  BY <1>1, <1>2, PTL DEF Spec

\* What a scan reports of a plain file by its rules, `snablr rules test` shows as well.
THEOREM TesterShowsWhatTheScanFindsAlways == Spec => []TesterShowsWhatTheScanFinds
<1>1. Init => TesterShowsWhatTheScanFinds
  BY DEF Init, TesterShowsWhatTheScanFinds
<1>2. TesterShowsWhatTheScanFinds /\ [Next]_vars => TesterShowsWhatTheScanFinds'
  <2>1. ASSUME TesterShowsWhatTheScanFinds, UNCHANGED vars
        PROVE  TesterShowsWhatTheScanFinds'
    BY <2>1 DEF TesterShowsWhatTheScanFinds, vars
  <2> QED
    BY <2>1, EvaluateTask
<1> QED
  BY <1>1, <1>2, PTL DEF Spec

\* One finding more in a file never lowers the score of its group.
THEOREM MoreEvidenceRaisesTheScoreAlways == Spec => []MoreEvidenceRaisesTheScore
<1>1. Init => MoreEvidenceRaisesTheScore
  BY DEF Init, MoreEvidenceRaisesTheScore
<1>2. MoreEvidenceRaisesTheScore /\ [Next]_vars => MoreEvidenceRaisesTheScore'
  <2>1. ASSUME MoreEvidenceRaisesTheScore, UNCHANGED vars
        PROVE  MoreEvidenceRaisesTheScore'
    BY <2>1 DEF MoreEvidenceRaisesTheScore, vars
  <2> QED
    BY <2>1, ScoreTask
<1> QED
  BY <1>1, <1>2, PTL DEF Spec

\* A correlated finding is made exactly where all the artifacts of a pair are together, of
\* one of them, in whatever order a writer meets the findings.
THEOREM CorrelationIsExactAlways == Spec => []CorrelationIsExact
<1>1. Init => CorrelationIsExact
  BY DEF Init, CorrelationIsExact
<1>2. CorrelationIsExact /\ [Next]_vars => CorrelationIsExact'
  <2>1. ASSUME CorrelationIsExact, UNCHANGED vars PROVE CorrelationIsExact'
    BY <2>1 DEF CorrelationIsExact, vars
  <2> QED
    BY <2>1, ReportTask
<1> QED
  BY <1>1, <1>2, PTL DEF Spec

\* Wherever an actionable finding is, an entry of the report's main part names the place.
THEOREM ActionableLocationsAreShownAlways == Spec => []ActionableLocationsAreShown
<1>1. Init => ActionableLocationsAreShown
  BY DEF Init, ActionableLocationsAreShown
<1>2. ActionableLocationsAreShown /\ [Next]_vars => ActionableLocationsAreShown'
  <2>1. ASSUME ActionableLocationsAreShown, UNCHANGED vars PROVE ActionableLocationsAreShown'
    BY <2>1 DEF ActionableLocationsAreShown, vars
  <2> QED
    BY <2>1, ReportTask
<1> QED
  BY <1>1, <1>2, PTL DEF Spec

\* Each file that creds.txt names a secret of is in the main part of the report too, though
\* the two writers meet the findings in different orders.
THEOREM ExportedSecretsAreShownAlways == Spec => []ExportedSecretsAreShown
<1>1. Init => ExportedSecretsAreShown
  BY DEF Init, ExportedSecretsAreShown
<1>2. ExportedSecretsAreShown /\ [Next]_vars => ExportedSecretsAreShown'
  <2>1. ASSUME ExportedSecretsAreShown, UNCHANGED vars PROVE ExportedSecretsAreShown'
    BY <2>1 DEF ExportedSecretsAreShown, vars
  <2> QED
    BY <2>1, ReportTask
<1> QED
  BY <1>1, <1>2, PTL DEF Spec

\* What is planted is found or missed, once, each finding is sorted once, and the counts by
\* entries and by keys agree.
THEOREM VerificationAddsUpAlways == Spec => []VerificationAddsUp
<1>1. Init => VerificationAddsUp
  BY DEF Init, VerificationAddsUp
<1>2. VerificationAddsUp /\ [Next]_vars => VerificationAddsUp'
  <2>1. ASSUME VerificationAddsUp, UNCHANGED vars PROVE VerificationAddsUp'
    BY <2>1 DEF VerificationAddsUp, vars
  <2> QED
    BY <2>1, SeedTask
<1> QED
  BY <1>1, <1>2, PTL DEF Spec
=============================================================================
