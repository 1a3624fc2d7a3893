------------------------- MODULE FindingFlowProofs -------------------------
(***************************************************************************)
(* FindingFlow for every set of findings, every list of suppression rules, *)
(* every choice of outputs and any number of hosts: no report lacks a      *)
(* finding without an error, the outputs are nested, what is suppressed is *)
(* accounted for, and no file stays open.                                  *)
(***************************************************************************)
EXTENDS FindingFlow, SequenceTheorems, FiniteSetTheorems, TLAPS

\* A sequence that is appended to has one more place, and one more element.
LEMMA AppendedTo ==
    ASSUME NEW S, NEW s \in Seq(S), NEW x \in S
    PROVE  /\ Append(s, x) \in Seq(S)
           /\ DOMAIN s = 1 .. Len(s) /\ Len(s) \in Nat
           /\ DOMAIN Append(s, x) = 1 .. Len(s) + 1
           /\ \A i \in 1 .. Len(s) : Append(s, x)[i] = s[i]
           /\ Append(s, x)[Len(s) + 1] = x
           /\ Range(Append(s, x)) = Range(s) \union {x}
<1>1. /\ Append(s, x) \in Seq(S)
      /\ DOMAIN s = 1 .. Len(s) /\ Len(s) \in Nat
      /\ DOMAIN Append(s, x) = 1 .. Len(s) + 1
      /\ \A i \in 1 .. Len(s) : Append(s, x)[i] = s[i]
      /\ Append(s, x)[Len(s) + 1] = x
  BY AppendProperties, LenProperties
<1>2. Range(Append(s, x)) \subseteq Range(s) \union {x}
  BY <1>1 DEF Range
<1>3. Range(s) \union {x} \subseteq Range(Append(s, x))
  <2>1. \A i \in 1 .. Len(s) : i \in 1 .. Len(s) + 1
    BY <1>1
  <2>2. Len(s) + 1 \in 1 .. Len(s) + 1
    BY <1>1
  <2> QED
    BY <1>1, <2>1, <2>2 DEF Range
<1> QED
  BY <1>1, <1>2, <1>3

\* Which findings a rule suppresses depends on the configuration alone.
LEMMA RulesStay ==
    ASSUME config' = config
    PROVE  /\ \A f : IsSuppressed(f)' <=> IsSuppressed(f)
           /\ \A f : RuleOf(f)' = RuleOf(f)
           /\ RuleIds' = RuleIds
<1>1. \A f : Matching(f)' = Matching(f)
  BY DEF Matching
<1> QED
  BY <1>1 DEF IsSuppressed, RuleOf, RuleIds

\* What is kept is not disturbed by a step that keeps it.
LEMMA HeldStays ==
    ASSUME HeldInv, UNCHANGED <<config, offered, held>>
    PROVE  HeldInv'
<1>1. Hidden' = Hidden /\ Wanted' = Wanted
  BY RulesStay DEF Hidden, Wanted
<1> QED
  BY <1>1 DEF HeldInv, InOrder

LEMMA LosslessStays ==
    ASSUME Lossless, UNCHANGED <<config, offered, held, suppressed>>, collecting'
    PROVE  Lossless'
<1>1. Hidden' = Hidden /\ Wanted' = Wanted /\ RuleIds' = RuleIds
  BY RulesStay DEF Hidden, Wanted
<1>2. \A f : RuleOf(f)' = RuleOf(f)
  BY RulesStay
<1> QED
  BY <1>1, <1>2 DEF Lossless

\* Nothing has been offered at first.
LEMMA FlowInitInv == Init => FlowInv
<1> SUFFICES ASSUME Init PROVE FlowInv
  OBVIOUS
<1>1. config.outputs \subseteq Output
  BY FlowAssumption DEF Init
<1>2. /\ held = [k \in Output |-> <<>>] /\ offered = <<>> /\ suppressed = <<>>
      /\ Range(offered) = {}
  BY DEF Init, Range
<1>3. FlowTypeInv
  <2>1. IsFiniteSet(Range(offered))
    BY <1>2, FS_EmptySet
  <2>2. <<>> \in Seq(Finding) /\ <<>> \in Seq([of : Finding, id : RuleIds])
    OBVIOUS
  <2> QED
    BY <1>1, <1>2, <2>1, <2>2 DEF Init, FlowTypeInv
<1>4. OpenInv
  BY DEF Init, OpenInv
<1>5. Hidden = {} /\ Wanted = {}
  BY <1>2 DEF Hidden, Wanted
<1>6. \A k \in Output : held[k] = <<>> /\ Range(held[k]) = {} /\ InOrder(held[k])
  BY <1>2 DEF Range, InOrder
<1>7. HeldInv
  BY <1>1, <1>5, <1>6 DEF HeldInv
<1>8. Lossless
  <2>1. \A id : {f \in Hidden : RuleOf(f) = id} = {}
    BY <1>5
  <2>2. \A id : {i \in DOMAIN suppressed : suppressed[i].id = id} = {}
    BY <1>2
  <2>3. Len(suppressed) = Cardinality(Hidden)
    BY <1>2, <1>5, FS_EmptySet
  <2>4. {suppressed[i].id : i \in DOMAIN suppressed} = {RuleOf(f) : f \in Hidden}
    BY <1>2, <1>5
  <2>5. \A k \in config.outputs : Range(held[k]) = Wanted
    BY <1>1, <1>5, <1>6
  <2> QED
    BY <2>1, <2>2, <2>3, <2>4, <2>5 DEF Lossless, Init
<1>9. ClosedInv
  BY DEF Init, ClosedInv
<1> QED
  BY <1>3, <1>4, <1>7, <1>8, <1>9 DEF FlowInv, LossInv
-----------------------------------------------------------------------------
(***************************************************************************)
(* A finding is offered.                                                   *)
(***************************************************************************)
\* MultiWriter: if an output takes a finding, so do those before it.
LEMMA EarlierOnesTakeIt ==
    ASSUME FlowTypeInv, NEW j \in config.outputs, NEW k \in config.outputs,
           Rank[j] < Rank[k], Takes(k)
    PROVE  Takes(j)
<1>1. \A o \in Output : Rank[o] \in Nat
  BY DEF Rank, Output, Live, File
<1>2. config.outputs \subseteq Output
  BY DEF FlowTypeInv
<1>3. ASSUME NEW i \in Failing PROVE Rank[j] < Rank[i]
  <2>1. i \in Output /\ (Rank[k] < Rank[i] \/ k = i)
    BY <1>2, <1>3 DEF Takes, Failing
  <2> QED
    BY <1>1, <1>2, <2>1
<1> QED
  BY <1>3 DEF Takes

\* What Offer does, in the terms of the invariant.
LEMMA OfferEffect ==
    ASSUME FlowInv, NEW f \in Finding, Offer(f)
    PROVE  /\ config' = config /\ broken' = broken /\ pc' = "scan" /\ pc = "scan"
           /\ Range(offered)' = Range(offered) \union {f} /\ f \notin Range(offered)
           /\ offered' \in Seq(Finding) /\ IsFiniteSet(Range(offered)')
           /\ IsSuppressed(f) => Hidden' = Hidden \union {f} /\ Wanted' = Wanted
           /\ ~IsSuppressed(f) => Hidden' = Hidden /\ Wanted' = Wanted \union {f}
           /\ f \notin Hidden
<1>1. offered' = Append(offered, f) /\ offered \in Seq(Finding)
  BY DEF Offer, FlowInv, FlowTypeInv
<1>2. Range(offered)' = Range(offered) \union {f} /\ offered' \in Seq(Finding)
  <2>1. Range(offered)' = Range(offered')
    BY DEF Range
  <2> QED
    BY <1>1, <2>1, AppendedTo
<1>3. IsFiniteSet(Range(offered)')
  <2>1. IsFiniteSet(Range(offered))
    BY DEF FlowInv, FlowTypeInv
  <2>2. IsFiniteSet(Range(offered) \union {f})
    BY <2>1, FS_AddElement
  <2> QED
    BY <1>2, <2>2
<1>4. \A g : IsSuppressed(g)' <=> IsSuppressed(g)
  BY RulesStay DEF Offer
<1>5. f \notin Range(offered)
  BY DEF Offer
<1>6. /\ IsSuppressed(f) => Hidden' = Hidden \union {f} /\ Wanted' = Wanted
      /\ ~IsSuppressed(f) => Hidden' = Hidden /\ Wanted' = Wanted \union {f}
  BY <1>2, <1>4, <1>5 DEF Hidden, Wanted
<1> QED
  BY <1>1, <1>2, <1>3, <1>5, <1>6 DEF Offer, Hidden

\* An output that takes the finding holds it last.
LEMMA OfferedIsLast ==
    ASSUME FlowInv, NEW f \in Finding, Offer(f), NEW k \in Output
    PROVE  /\ held'[k] \in Seq(Finding)
           /\ Range(held[k]) \subseteq Range(held'[k])
           /\ Range(held'[k]) \subseteq Range(held[k]) \union {f}
           /\ f \in Range(held'[k]) <=> (collecting /\ ~IsSuppressed(f) /\ Takes(k))
           /\ InOrder(held[k])'
<1>1. held[k] \in Seq(Finding) /\ Range(held[k]) \subseteq Wanted /\ InOrder(held[k])
  BY DEF FlowInv, FlowTypeInv, HeldInv
<1>2. f \notin Range(held[k])
  BY <1>1, OfferEffect DEF Wanted
<1> DEFINE takes == collecting /\ ~IsSuppressed(f) /\ Takes(k)
<1>3. held'[k] = IF takes THEN Append(held[k], f) ELSE held[k]
  BY DEF Offer, FlowInv, FlowTypeInv
<1>4. \A i \in 1 .. Len(offered) : i \in DOMAIN offered' /\ offered'[i] = offered[i]
  BY AppendedTo DEF Offer, FlowInv, FlowTypeInv
<1>5. /\ DOMAIN offered = 1 .. Len(offered) /\ Len(offered) \in Nat
      /\ Len(offered) + 1 \in DOMAIN offered' /\ offered'[Len(offered) + 1] = f
  <2>1. /\ DOMAIN offered = 1 .. Len(offered) /\ Len(offered) \in Nat
        /\ DOMAIN offered' = 1 .. Len(offered) + 1 /\ offered'[Len(offered) + 1] = f
    BY AppendedTo DEF Offer, FlowInv, FlowTypeInv
  <2> QED
    BY <2>1
<1>6. CASE ~takes
  <2>1. held'[k] = held[k]
    BY <1>3, <1>6
  <2>2. InOrder(held[k])'
    BY <1>1, <1>4, <1>5, <2>1 DEF InOrder
  <2> QED
    BY <1>1, <1>2, <1>6, <2>1, <2>2
<1>7. CASE takes
  <2> DEFINE n == Len(held[k])
  <2>1. held'[k] = Append(held[k], f)
    BY <1>3, <1>7
  <2>2. /\ held'[k] \in Seq(Finding) /\ n \in Nat /\ DOMAIN held[k] = 1 .. n
        /\ DOMAIN held'[k] = 1 .. n + 1
        /\ \A i \in 1 .. n : held'[k][i] = held[k][i]
        /\ held'[k][n + 1] = f
        /\ Range(held'[k]) = Range(held[k]) \union {f}
    BY <1>1, <2>1, AppendedTo
  <2> HIDE DEF n, takes
  <2>3. ASSUME NEW i \in DOMAIN held'[k], NEW j \in DOMAIN held'[k], i < j
        PROVE  \E p, q \in DOMAIN offered' :
                   p < q /\ offered'[p] = held'[k][i] /\ offered'[q] = held'[k][j]
    <3>1. i \in 1 .. n /\ held'[k][i] = held[k][i]
      BY <2>2, <2>3
    <3>2. CASE j \in 1 .. n
      <4>1. held'[k][j] = held[k][j]
        BY <2>2, <3>2
      <4>2. PICK p, q \in DOMAIN offered :
                p < q /\ offered[p] = held[k][i] /\ offered[q] = held[k][j]
        BY <1>1, <2>2, <2>3, <3>1, <3>2 DEF InOrder
      <4> QED
        BY <1>4, <1>5, <3>1, <4>1, <4>2
    <3>3. CASE j = n + 1
      <4>1. held'[k][j] = f /\ held[k][i] \in Range(held[k])
        BY <2>2, <3>1, <3>3 DEF Range
      <4>2. PICK p \in DOMAIN offered : offered[p] = held[k][i]
        BY <1>1, <4>1 DEF Wanted, Range
      <4>3. p < Len(offered) + 1 /\ p \in DOMAIN offered' /\ offered'[p] = offered[p]
        BY <1>4, <1>5
      <4> QED
        BY <1>5, <3>1, <4>1, <4>2, <4>3
    <3> QED
      BY <2>2, <3>2, <3>3
  <2>4. InOrder(held[k])'
    BY <2>3 DEF InOrder
  <2> QED
    BY <1>7, <2>2, <2>4 DEF takes
<1> QED
  BY <1>6, <1>7

LEMMA OfferKeepsHeld ==
    ASSUME FlowInv, NEW f \in Finding, Offer(f)
    PROVE  HeldInv'
<1>1. ASSUME NEW k \in Output
      PROVE  Range(held'[k]) \subseteq Wanted' /\ InOrder(held[k])'
  <2>1. Range(held[k]) \subseteq Wanted
    BY DEF FlowInv, HeldInv
  <2>2. /\ Range(held'[k]) \subseteq Range(held[k]) \union {f} /\ InOrder(held[k])'
        /\ f \in Range(held'[k]) => ~IsSuppressed(f)
    BY OfferedIsLast
  <2> QED
    BY <2>1, <2>2, OfferEffect
<1>2. ASSUME NEW j \in config.outputs, NEW k \in config.outputs, Rank[j] < Rank[k]
      PROVE  Range(held'[k]) \subseteq Range(held'[j])
  <2>1. j \in Output /\ k \in Output /\ Range(held[k]) \subseteq Range(held[j])
    BY <1>2 DEF FlowInv, HeldInv, FlowTypeInv
  <2>2. Takes(k) => Takes(j)
    BY <1>2, EarlierOnesTakeIt DEF FlowInv
  <2>3. f \in Range(held'[k]) => f \in Range(held'[j])
    BY <2>1, <2>2, OfferedIsLast
  <2>4. /\ Range(held[j]) \subseteq Range(held'[j])
        /\ Range(held'[k]) \subseteq Range(held[k]) \union {f}
    BY <2>1, OfferedIsLast
  <2> QED
    BY <2>1, <2>3, <2>4
<1>3. config' = config
  BY DEF Offer
<1>4. \A k \in Output : Range(held[k])' = Range(held'[k])
  BY DEF Range
<1> QED
  BY <1>1, <1>2, <1>3, <1>4 DEF HeldInv

\* A suppressed finding is counted once, for the rule that is blamed.
LEMMA SuppressedIsCounted ==
    ASSUME FlowInv, Lossless, NEW f \in Finding, Offer(f), IsSuppressed(f)
    PROVE  /\ suppressed' \in Seq([of : Finding, id : RuleIds])
           /\ Len(suppressed') = Cardinality(Hidden')
           /\ {suppressed'[i].id : i \in DOMAIN suppressed'} = {RuleOf(g) : g \in Hidden'}
           /\ \A id \in RuleIds : Cardinality({i \in DOMAIN suppressed' : suppressed'[i].id = id})
                                    = Cardinality({g \in Hidden' : RuleOf(g) = id})
<1> DEFINE entry == [of |-> f, id |-> RuleOf(f)]
           n == Len(suppressed)
<1>1. /\ suppressed \in Seq([of : Finding, id : RuleIds])
      /\ suppressed' = Append(suppressed, entry)
      /\ entry \in [of : Finding, id : RuleIds] /\ entry.id = RuleOf(f)
  BY DEF FlowInv, FlowTypeInv, Lossless, Offer, RuleIds
<1> HIDE DEF entry
<1>2. /\ suppressed' \in Seq([of : Finding, id : RuleIds])
      /\ n \in Nat /\ DOMAIN suppressed = 1 .. n /\ DOMAIN suppressed' = 1 .. n + 1
      /\ \A i \in 1 .. n : suppressed'[i] = suppressed[i]
      /\ suppressed'[n + 1] = entry
      /\ Len(suppressed') = n + 1
  BY <1>1, AppendedTo, AppendProperties
<1>3. Hidden' = Hidden \union {f} /\ f \notin Hidden
  BY OfferEffect
<1>4. IsFiniteSet(Hidden)
  <2>1. IsFiniteSet(Range(offered)) /\ Hidden \subseteq Range(offered)
    BY DEF FlowInv, FlowTypeInv, Hidden
  <2> QED
    BY <2>1, FS_Subset
<1>5. Len(suppressed') = Cardinality(Hidden')
  <2>1. Cardinality(Hidden \union {f}) = Cardinality(Hidden) + 1
    BY <1>3, <1>4, FS_AddElement
  <2> QED
    BY <1>2, <1>3, <2>1 DEF Lossless
<1>6. {suppressed'[i].id : i \in DOMAIN suppressed'} = {RuleOf(g) : g \in Hidden'}
  <2>1. {suppressed'[i].id : i \in 1 .. n + 1}
            = {suppressed[i].id : i \in 1 .. n} \union {RuleOf(f)}
    <3>1. ASSUME NEW i \in 1 .. n + 1
          PROVE  \/ i \in 1 .. n /\ suppressed'[i].id = suppressed[i].id
                 \/ i = n + 1 /\ suppressed'[i].id = RuleOf(f)
      BY <1>1, <1>2
    <3>2. n + 1 \in 1 .. n + 1 /\ suppressed'[n + 1].id = RuleOf(f)
      BY <1>1, <1>2
    <3>3. \A i \in 1 .. n : i \in 1 .. n + 1 /\ suppressed'[i].id = suppressed[i].id
      BY <1>2
    <3> HIDE DEF n
    <3> QED
      BY <3>1, <3>2, <3>3
  <2>2. {RuleOf(g) : g \in Hidden'} = {RuleOf(g) : g \in Hidden} \union {RuleOf(f)}
    BY <1>3
  <2>3. {suppressed[i].id : i \in 1 .. n} = {RuleOf(g) : g \in Hidden}
    BY <1>2 DEF Lossless
  <2> QED
    BY <1>2, <2>1, <2>2, <2>3
<1>7. ASSUME NEW id \in RuleIds
      PROVE  Cardinality({i \in DOMAIN suppressed' : suppressed'[i].id = id})
                 = Cardinality({g \in Hidden' : RuleOf(g) = id})
  <2> DEFINE places == {i \in 1 .. n : suppressed[i].id = id}
             now == {i \in 1 .. n + 1 : suppressed'[i].id = id}
             blamed == {g \in Hidden : RuleOf(g) = id}
             blames == {g \in Hidden \union {f} : RuleOf(g) = id}
  <2>1. Cardinality(places) = Cardinality(blamed)
    BY <1>2 DEF Lossless
  <2>2. IsFiniteSet(places) /\ IsFiniteSet(blamed)
    <3>1. IsFiniteSet(1 .. n)
      BY <1>2, FS_Interval
    <3>2. places \subseteq 1 .. n /\ blamed \subseteq Hidden
      OBVIOUS
    <3> HIDE DEF places, blamed, n
    <3> QED
      BY <1>4, <3>1, <3>2, FS_Subset
  <2>3. Cardinality(now) = Cardinality(blames)
    <3>1. CASE RuleOf(f) = id
      <4>1. now = places \union {n + 1} /\ n + 1 \notin places
        BY <1>1, <1>2, <3>1
      <4>2. blames = blamed \union {f} /\ f \notin blamed
        BY <1>3, <3>1
      <4> HIDE DEF now, places, blames, blamed, n
      <4>3. /\ Cardinality(places \union {n + 1}) = Cardinality(places) + 1
            /\ Cardinality(blamed \union {f}) = Cardinality(blamed) + 1
        BY <2>2, <4>1, <4>2, FS_AddElement
      <4> QED
        BY <2>1, <4>1, <4>2, <4>3
    <3>2. CASE RuleOf(f) # id
      <4>1. now = places
        BY <1>1, <1>2, <3>2
      <4>2. blames = blamed
        BY <3>2
      <4> QED
        BY <2>1, <4>1, <4>2
    <3> QED
      BY <3>1, <3>2
  <2> QED
    BY <1>2, <1>3, <2>3
<1> QED
  BY <1>2, <1>5, <1>6, <1>7

\* While no output that prints has failed, every finding goes where it belongs.
LEMMA OfferKeepsLossless ==
    ASSUME FlowInv, Lossless, Failing = {}, NEW f \in Finding, Offer(f)
    PROVE  Lossless'
<1>1. config' = config /\ RuleIds' = RuleIds /\ \A g : RuleOf(g)' = RuleOf(g)
  BY RulesStay DEF Offer
<1>2. collecting'
  BY DEF Lossless, Offer, WriteFails
<1>3. \A k \in config.outputs : Takes(k) /\ k \in Output
  BY DEF Takes, FlowInv, FlowTypeInv
<1>4. \A k \in config.outputs : Range(held'[k]) = Wanted'
  <2>1. ASSUME NEW k \in config.outputs PROVE Range(held'[k]) = Wanted'
    <3>1. /\ Range(held[k]) \subseteq Range(held'[k])
          /\ Range(held'[k]) \subseteq Range(held[k]) \union {f}
          /\ f \in Range(held'[k]) <=> ~IsSuppressed(f)
      BY <1>3, OfferedIsLast DEF Lossless
    <3>2. Range(held[k]) = Wanted
      BY DEF Lossless
    <3>3. /\ IsSuppressed(f) => Wanted' = Wanted
          /\ ~IsSuppressed(f) => Wanted' = Wanted \union {f}
      BY OfferEffect
    <3> QED
      BY <3>1, <3>2, <3>3
  <2> QED
    BY <2>1
<1>5. /\ Len(suppressed') = Cardinality(Hidden')
      /\ {suppressed'[i].id : i \in DOMAIN suppressed'} = {RuleOf(g) : g \in Hidden'}
      /\ \A id \in RuleIds : Cardinality({i \in DOMAIN suppressed' : suppressed'[i].id = id})
                               = Cardinality({g \in Hidden' : RuleOf(g) = id})
  <2>1. CASE IsSuppressed(f)
    BY <2>1, SuppressedIsCounted
  <2>2. CASE ~IsSuppressed(f)
    <3>1. suppressed' = suppressed /\ Hidden' = Hidden
      BY <2>2, OfferEffect DEF Offer
    <3> QED
      BY <3>1 DEF Lossless
  <2> QED
    BY <2>1, <2>2
<1>6. \A k \in config'.outputs : Range(held[k])' = Wanted'
  BY <1>1, <1>4 DEF Range
<1> QED
  BY <1>1, <1>2, <1>5, <1>6 DEF Lossless

LEMMA OfferKeepsTypes ==
    ASSUME FlowInv, NEW f \in Finding, Offer(f)
    PROVE  FlowTypeInv'
<1>1. FlowTypeInv
  BY DEF FlowInv
<1>2. held' \in [Output -> Seq(Finding)]
  <2>1. \A k \in Output : held'[k] \in Seq(Finding)
    BY OfferedIsLast
  <2>2. held' = [k \in Output |-> held'[k]]
    BY <1>1 DEF Offer, FlowTypeInv
  <2> QED
    BY <2>1, <2>2
<1>3. suppressed' \in Seq([of : Finding, id : RuleIds])
  <2>1. suppressed \in Seq([of : Finding, id : RuleIds])
    BY <1>1 DEF FlowTypeInv
  <2>2. CASE suppressed' = suppressed
    BY <2>1, <2>2
  <2>3. CASE suppressed' = Append(suppressed, [of |-> f, id |-> RuleOf(f)]) /\ IsSuppressed(f)
    <3>1. [of |-> f, id |-> RuleOf(f)] \in [of : Finding, id : RuleIds]
      BY <2>3 DEF RuleIds
    <3> QED
      BY <2>1, <2>3, <3>1, AppendProperties
  <2> QED
    BY <2>2, <2>3 DEF Offer
<1>4. collecting' \in BOOLEAN
  BY <1>1 DEF Offer, FlowTypeInv, WriteFails
<1>5. RuleIds' = RuleIds /\ Range(offered)' = Range(offered')
  BY RulesStay DEF Offer, Range
<1>6. /\ config' = config /\ sinks' = sinks /\ broken' = broken /\ pc' = pc /\ file' = file
      /\ report' = report /\ audit' = audit /\ errs' = errs /\ runErr' = runErr
  BY DEF Offer
<1>7. offered' \in Seq(Finding) /\ IsFiniteSet(Range(offered)')
  BY OfferEffect
<1> QED
  BY <1>1, <1>2, <1>3, <1>4, <1>5, <1>6, <1>7 DEF FlowTypeInv

LEMMA OfferKeepsInv ==
    ASSUME FlowInv, NEW f \in Finding, Offer(f)
    PROVE  FlowInv'
<1>1. /\ pc = "scan" /\ config' = config /\ sinks' = sinks /\ broken' = broken /\ pc' = pc
      /\ file' = file /\ runErr' = runErr
  BY DEF Offer
<1>2. FlowTypeInv' /\ HeldInv'
  BY OfferKeepsTypes, OfferKeepsHeld
<1>3. OpenInv' /\ ClosedInv'
  BY <1>1 DEF FlowInv, OpenInv, ClosedInv
<1>4. LossInv'
  <2>1. CASE Failing # {}
    BY <1>1, <2>1 DEF LossInv, Failing
  <2>2. CASE Failing = {}
    <3>1. Lossless
      BY <1>1, <2>2 DEF FlowInv, LossInv
    <3> QED
      BY <2>2, <3>1, OfferKeepsLossless DEF LossInv
  <2> QED
    BY <2>1, <2>2
<1> QED
  BY <1>2, <1>3, <1>4 DEF FlowInv
-----------------------------------------------------------------------------
(***************************************************************************)
(* The other steps offer nothing.                                          *)
(***************************************************************************)
\* The outputs are created one by one, or all that were are given up.
LEMMA CreationKeepsInv ==
    ASSUME FlowInv, NewEngine \/ CreateSink \/ CreateFails \/ Ready
    PROVE  FlowInv'
<1> USE DEF FlowInv
<1>1. /\ UNCHANGED <<config, offered, held, suppressed, collecting, errs, broken, audit, report>>
      /\ pc \in {"engine", "create"}
  BY DEF NewEngine, CreateSink, CreateFails, Ready, sinkVars
<1>2. Lossless /\ Lossless'
  <2>1. Lossless
    BY <1>1 DEF LossInv
  <2>2. collecting'
    BY <1>1, <2>1 DEF Lossless
  <2> QED
    BY <1>1, <2>1, <2>2, LosslessStays
<1>3. HeldInv'
  BY <1>1, HeldStays
<1>4. pc' \in {"create", "abandon", "scan"}
  BY <1>1 DEF NewEngine, CreateSink, CreateFails, Ready
<1>5. RuleIds' = RuleIds /\ Range(offered)' = Range(offered)
  BY <1>1, RulesStay DEF Range
<1>6. CASE CreateSink
  <2>1. PICK k \in config.outputs \ sinks :
            /\ file' = IF k \in File THEN [file EXCEPT ![k] = "open"] ELSE file
            /\ sinks' = sinks \union {k}
    BY <1>6 DEF CreateSink, Foremost
  <2>2. pc' = "create" /\ pc = "create" /\ runErr' = runErr
    BY <1>6 DEF CreateSink
  <2>3. file' \in [File -> {"none", "open", "closed"}]
    BY <2>1 DEF FlowTypeInv
  <2>4. \A j \in File : file'[j] = "open" => file[j] = "open" \/ j = k
    BY <2>1 DEF FlowTypeInv
  <2>5. FlowTypeInv'
    BY <1>1, <1>5, <2>1, <2>2, <2>3 DEF FlowTypeInv
  <2>6. OpenInv'
    BY <1>1, <2>1, <2>2, <2>4 DEF OpenInv
  <2> QED
    BY <1>2, <1>3, <2>2, <2>5, <2>6 DEF LossInv, ClosedInv
<1>7. CASE NewEngine \/ CreateFails \/ Ready
  <2>1. file' = file /\ sinks' = sinks
    BY <1>7 DEF NewEngine, CreateFails, Ready, sinkVars
  <2>2. FlowTypeInv'
    <3>1. runErr' \in BOOLEAN
      BY <1>7 DEF NewEngine, CreateFails, Ready, FlowTypeInv
    <3> QED
      BY <1>1, <1>4, <1>5, <2>1, <3>1 DEF FlowTypeInv
  <2>3. OpenInv'
    BY <1>1, <1>7, <2>1 DEF OpenInv, NewEngine, CreateFails, Ready
  <2> QED
    BY <1>2, <1>3, <1>4, <2>2, <2>3 DEF LossInv, ClosedInv
<1> QED
  BY <1>6, <1>7

\* An output fails; one that is still open will have its Close fail.
LEMMA BreakKeepsInv ==
    ASSUME FlowInv, NEW k \in Output, Break(k)
    PROVE  FlowInv'
<1> USE DEF FlowInv
<1>1. /\ UNCHANGED <<config, pc, sinks, offered, held, suppressed, collecting, errs, audit,
                     report, file, runErr>>
      /\ broken' = broken \union {k} /\ k \in config.outputs
  BY DEF Break, sinkVars
<1>2. HeldInv'
  BY <1>1, HeldStays
<1>3. RuleIds' = RuleIds /\ Range(offered)' = Range(offered)
  BY <1>1, RulesStay DEF Range
<1>4. FlowTypeInv'
  BY <1>1, <1>3 DEF FlowTypeInv
<1>5. OpenInv' /\ ClosedInv'
  BY <1>1 DEF OpenInv, ClosedInv
<1>6. LossInv'
  <2>1. CASE Lossless
    <3>1. collecting'
      BY <1>1, <2>1 DEF Lossless
    <3> QED
      BY <1>1, <2>1, <3>1, LosslessStays DEF LossInv
  <2>2. CASE ~Lossless
    BY <1>1, <2>2 DEF LossInv, Failing
  <2> QED
    BY <2>1, <2>2
<1> QED
  BY <1>2, <1>4, <1>5, <1>6

\* A host is done; the next one is collected from again.
LEMMA EndHostKeepsInv ==
    ASSUME FlowInv, NEW how, EndHost(how)
    PROVE  FlowInv'
<1> USE DEF FlowInv
<1>1. /\ UNCHANGED <<config, pc, sinks, offered, held, suppressed, broken, audit, report,
                     file, runErr>>
      /\ pc = "scan" /\ collecting' = TRUE /\ errs' = (errs \/ (~collecting /\ how = "ok"))
  BY DEF EndHost, sinkVars
<1>2. HeldInv'
  BY <1>1, HeldStays
<1>3. RuleIds' = RuleIds /\ Range(offered)' = Range(offered)
  BY <1>1, RulesStay DEF Range
<1>4. FlowTypeInv'
  <2>1. errs' \in BOOLEAN
    BY <1>1
  <2> QED
    BY <1>1, <1>3, <2>1 DEF FlowTypeInv
<1>5. OpenInv' /\ ClosedInv'
  BY <1>1 DEF OpenInv, ClosedInv
<1>6. LossInv'
  <2>1. CASE Lossless
    BY <1>1, <2>1, LosslessStays DEF LossInv
  <2>2. CASE ~Lossless
    BY <1>1, <2>2 DEF LossInv, Failing
  <2> QED
    BY <2>1, <2>2
<1> QED
  BY <1>2, <1>4, <1>5, <1>6

\* The loop over the hosts ends; what was suppressed goes into the reports.
LEMMA FinishKeepsInv ==
    ASSUME FlowInv, NEW how, Finish(how)
    PROVE  FlowInv'
<1> USE DEF FlowInv
<1>1. /\ UNCHANGED <<config, sinks, offered, held, suppressed, broken, report, file,
                     collecting, errs>>
      /\ pc = "scan" /\ pc' = "close" /\ runErr' = (errs /\ how = "all")
      /\ sinks = config.outputs
      /\ audit' = [k \in Output |-> IF k \in config.outputs \intersect Audits
                                    THEN Summary(suppressed) ELSE audit[k]]
  BY DEF Finish, OpenInv
<1>2. HeldInv'
  BY <1>1, HeldStays
<1>3. RuleIds' = RuleIds /\ Range(offered)' = Range(offered)
  BY <1>1, RulesStay DEF Range
<1>4. FlowTypeInv'
  <2>1. DOMAIN audit' = Output /\ runErr' \in BOOLEAN
    BY <1>1
  <2> QED
    BY <1>1, <1>3, <2>1 DEF FlowTypeInv
<1>5. OpenInv'
  BY <1>1 DEF OpenInv
<1>6. ClosedInv'
  <2>1. Summary(suppressed)' = Summary(suppressed)
    BY <1>1 DEF Summary
  <2>2. \A k \in config.outputs \intersect Audits : audit'[k] = Summary(suppressed)
    BY <1>1 DEF FlowTypeInv
  <2> QED
    BY <1>1, <2>1, <2>2 DEF ClosedInv
<1>7. LossInv'
  <2>1. CASE Lossless
    <3>1. collecting'
      BY <1>1, <2>1 DEF Lossless
    <3> QED
      BY <1>1, <2>1, <3>1, LosslessStays DEF LossInv
  <2>2. CASE ~Lossless
    <3>1. Failing # {}
      BY <1>1, <2>2 DEF LossInv
    <3>2. sinks \intersect broken # {}
      BY <1>1, <3>1 DEF Failing
    <3> QED
      BY <1>1, <3>2 DEF LossInv
  <2> QED
    BY <2>1, <2>2
<1> QED
  BY <1>2, <1>4, <1>5, <1>6, <1>7

\* An output is closed: one that has failed says so.
LEMMA CloseKeepsInv ==
    ASSUME FlowInv, CloseSink
    PROVE  FlowInv'
<1> USE DEF FlowInv
<1>1. PICK k \in sinks :
          /\ report' = [report EXCEPT ![k] = IF CloseFails(k) THEN "broken" ELSE "whole"]
          /\ file' = IF k \in File /\ ~Leaks(k) THEN [file EXCEPT ![k] = "closed"] ELSE file
          /\ runErr' = (runErr \/ CloseFails(k))
          /\ sinks' = sinks \ {k}
  BY DEF CloseSink, Hindmost
<1>2. /\ UNCHANGED <<config, pc, offered, held, suppressed, broken, audit, collecting, errs>>
      /\ pc \in {"close", "abandon"}
  BY DEF CloseSink
<1>3. k \in Output /\ k \in config.outputs
  BY DEF FlowTypeInv
<1>4. HeldInv'
  BY <1>2, HeldStays
<1>5. RuleIds' = RuleIds /\ Range(offered)' = Range(offered)
  BY <1>2, RulesStay DEF Range
<1>6. /\ report' \in [Output -> {"none", "whole", "broken"}]
      /\ \A j \in Output \ {k} : report'[j] = report[j]
      /\ ~CloseFails(k) => report'[k] = "whole"
  BY <1>1, <1>3 DEF FlowTypeInv
<1>7. /\ file' \in [File -> {"none", "open", "closed"}]
      /\ \A j \in File \ {k} : file'[j] = file[j]
      /\ (k \in File /\ ~Leaks(k)) => file'[k] = "closed"
  BY <1>1 DEF FlowTypeInv
<1>8. FlowTypeInv'
  <2>1. runErr' \in BOOLEAN
    BY <1>1
  <2> QED
    BY <1>1, <1>2, <1>5, <1>6, <1>7, <2>1 DEF FlowTypeInv
<1>9. OpenInv'
  <2>1. \A j \in File : file'[j] = "open" => j \in sinks' \/ (j = "md" /\ j \in broken')
    BY <1>1, <1>2, <1>7 DEF OpenInv, Leaks
  <2> QED
    BY <1>1, <1>2, <2>1 DEF OpenInv
<1>10. ClosedInv'
  <2> SUFFICES ASSUME pc = "close", ~runErr'
               PROVE  /\ \A j \in config.outputs \ sinks' : report'[j] = "whole"
                      /\ \A j \in config.outputs \intersect Audits :
                             audit[j] = Summary(suppressed)
    <3>1. Summary(suppressed)' = Summary(suppressed)
      BY <1>2 DEF Summary
    <3> QED
      BY <1>2, <3>1 DEF ClosedInv
  <2>1. ~runErr /\ ~CloseFails(k)
    BY <1>1
  <2>2. config.outputs \subseteq Output
    BY DEF FlowTypeInv
  <2> QED
    BY <1>1, <1>6, <2>1, <2>2 DEF ClosedInv
<1>11. LossInv'
  <2>1. CASE Lossless
    <3>1. collecting'
      BY <1>2, <2>1 DEF Lossless
    <3> QED
      BY <1>2, <2>1, <3>1, LosslessStays DEF LossInv
  <2>2. CASE pc = "close" /\ sinks \intersect broken # {}
    <3>1. CASE k \in broken
      BY <1>1, <1>2, <2>2, <3>1 DEF LossInv, CloseFails
    <3>2. CASE k \notin broken
      BY <1>1, <1>2, <2>2, <3>2 DEF LossInv
    <3> QED
      BY <3>1, <3>2
  <2>3. CASE pc = "close" /\ runErr
    BY <1>1, <1>2, <2>3 DEF LossInv
  <2> QED
    BY <1>2, <2>1, <2>2, <2>3 DEF LossInv
<1> QED
  BY <1>4, <1>8, <1>9, <1>10, <1>11

LEMMA ReturnKeepsInv ==
    ASSUME FlowInv, Return
    PROVE  FlowInv'
<1> USE DEF FlowInv
<1>1. /\ UNCHANGED <<config, sinks, offered, held, suppressed, broken, audit, report, file,
                     collecting, errs, runErr>>
      /\ pc \in {"close", "abandon"} /\ pc' = "done" /\ sinks = {}
  BY DEF Return, sinkVars
<1>2. HeldInv'
  BY <1>1, HeldStays
<1>3. RuleIds' = RuleIds /\ Range(offered)' = Range(offered)
  BY <1>1, RulesStay DEF Range
<1>4. FlowTypeInv'
  BY <1>1, <1>3 DEF FlowTypeInv
<1>5. OpenInv'
  BY <1>1 DEF OpenInv
<1>6. ClosedInv'
  <2>1. Summary(suppressed)' = Summary(suppressed)
    BY <1>1 DEF Summary
  <2> QED
    BY <1>1, <2>1 DEF ClosedInv, OpenInv
<1>7. LossInv'
  <2>1. CASE Lossless
    <3>1. collecting'
      BY <1>1, <2>1 DEF Lossless
    <3> QED
      BY <1>1, <2>1, <3>1, LosslessStays DEF LossInv
  <2>2. CASE ~Lossless
    BY <1>1, <2>2 DEF LossInv
  <2> QED
    BY <2>1, <2>2
<1> QED
  BY <1>2, <1>4, <1>5, <1>6, <1>7

LEMMA FlowStays == ASSUME FlowInv, UNCHANGED vars PROVE FlowInv'
<1> USE DEF FlowInv, vars, sinkVars
<1>1. HeldInv'
  BY HeldStays
<1>2. RuleIds' = RuleIds /\ Range(offered)' = Range(offered)
  BY RulesStay DEF Range
<1>3. FlowTypeInv'
  BY <1>2 DEF FlowTypeInv
<1>4. OpenInv' /\ ClosedInv'
  BY DEF OpenInv, ClosedInv, Summary
<1>5. LossInv'
  <2>1. CASE Lossless
    BY <2>1, LosslessStays DEF LossInv, Lossless
  <2>2. CASE ~Lossless
    BY <2>2 DEF LossInv, Failing
  <2> QED
    BY <2>1, <2>2
<1> QED
  BY <1>1, <1>3, <1>4, <1>5

\* The run of the outputs keeps its invariant, whichever of them fails, and whenever.
THEOREM FlowInvariant == Spec => []FlowInv
<1>1. Init => FlowInv
  BY FlowInitInv
<1>2. FlowInv /\ [Next]_vars => FlowInv'
  BY CreationKeepsInv, BreakKeepsInv, OfferKeepsInv, EndHostKeepsInv, FinishKeepsInv,
     CloseKeepsInv, ReturnKeepsInv, FlowStays DEF Next
<1> QED
  BY <1>1, <1>2, PTL DEF Spec

\* RunScan: a run that returns no error has written every report it was asked for,
\* with every finding that no rule suppresses, in the order they were found.
THEOREM NothingIsLostSilentlyAlways == Spec => []NothingIsLostSilently
<1>1. FlowInv => NothingIsLostSilently
  <2> SUFFICES ASSUME FlowInv, pc = "done", ~runErr, NEW k \in config.outputs
               PROVE  report[k] = "whole" /\ Range(held[k]) = Wanted /\ InOrder(held[k])
    BY DEF NothingIsLostSilently
  <2>1. Lossless /\ sinks = {} /\ k \in Output
    BY DEF FlowInv, LossInv, OpenInv, FlowTypeInv
  <2> QED
    BY <2>1 DEF FlowInv, ClosedInv, Lossless, HeldInv
<1> QED
  BY <1>1, FlowInvariant, PTL

\* MultiWriter: what an output holds, every earlier one holds, in the same order.
THEOREM OutputsAreNestedAlways == Spec => []OutputsAreNested
<1>1. FlowInv => OutputsAreNested
  BY DEF FlowInv, HeldInv, FlowTypeInv, OutputsAreNested
<1> QED
  BY <1>1, FlowInvariant, PTL

\* suppressionWriter: no output holds a suppressed finding, and the summary in a
\* report counts each of them once, for the first rule that holds of it.
THEOREM SuppressionIsAuditedAlways == Spec => []SuppressionIsAudited
<1>1. ASSUME FlowInv PROVE SuppressionIsAudited
  <2>1. \A k \in Output : \A f \in Range(held[k]) : ~IsSuppressed(f)
    BY <1>1 DEF FlowInv, HeldInv, Wanted, Hidden
  <2>2. ASSUME pc = "done", ~runErr, NEW k \in config.outputs \intersect Audits
        PROVE  /\ audit[k].total = Cardinality(Hidden)
               /\ DOMAIN audit[k].of = {RuleOf(f) : f \in Hidden}
               /\ \A id \in DOMAIN audit[k].of :
                     audit[k].of[id] = Cardinality({f \in Hidden : RuleOf(f) = id})
    <3>1. Lossless /\ audit[k] = Summary(suppressed)
      BY <1>1, <2>2 DEF FlowInv, LossInv, ClosedInv
    <3> DEFINE ids == {suppressed[i].id : i \in DOMAIN suppressed}
               times == [id \in ids |->
                            Cardinality({i \in DOMAIN suppressed : suppressed[i].id = id})]
    <3>2. audit[k].total = Len(suppressed) /\ audit[k].of = times
      BY <3>1 DEF Summary
    <3>3. ids = {RuleOf(f) : f \in Hidden}
      BY <3>1 DEF Lossless
    <3>4. ids \subseteq RuleIds
      <4>1. Hidden \subseteq {g \in Finding : IsSuppressed(g)}
        BY <1>1 DEF FlowInv, FlowTypeInv, Hidden, Range
      <4> QED
        BY <3>3, <4>1 DEF RuleIds
    <3>5. \A id \in ids : times[id] = Cardinality({f \in Hidden : RuleOf(f) = id})
      BY <3>1, <3>4 DEF Lossless
    <3>6. DOMAIN times = ids
      OBVIOUS
    <3> HIDE DEF ids, times
    <3> QED
      BY <3>1, <3>2, <3>3, <3>5, <3>6 DEF Lossless
  <2> QED
    BY <2>1, <2>2 DEF SuppressionIsAudited
<1> QED
  BY <1>1, FlowInvariant, PTL

\* closeSinks: once RunScan has returned no output file is open, but that of
\* Markdown when it could not be written.
THEOREM NoFileIsLeftOpenAlways == Spec => []NoFileIsLeftOpen
<1>1. FlowInv => NoFileIsLeftOpen
  BY DEF FlowInv, OpenInv, NoFileIsLeftOpen
<1> QED
  BY <1>1, FlowInvariant, PTL
=============================================================================
