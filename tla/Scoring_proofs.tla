--------------------------- MODULE Scoring_proofs ---------------------------
(***************************************************************************)
(* Proofs about the scoring rules: a dossier that is at least as good in   *)
(* every part never leads to a lower state.                                *)
(***************************************************************************)
EXTENDS Scoring, TLAPS, FiniteSetTheorems

-----------------------------------------------------------------------------
(* Points *)

LEMMA AtMostMonotone ==
    ASSUME NEW bound \in Nat, NEW m \in Nat, NEW n \in Nat, m <= n
    PROVE  /\ AtMost(bound, m) \in Nat /\ AtMost(bound, n) \in Nat
           /\ AtMost(bound, m) <= AtMost(bound, n)
BY DEF AtMost

LEMMA ClampMonotone ==
    ASSUME NEW m \in Int, NEW n \in Int, m <= n
    PROVE  Clamp(m) \in Nat /\ Clamp(n) \in Nat /\ Clamp(m) <= Clamp(n)
<1> DEFINE low(i) == IF i < 0 THEN 0 ELSE i
<1>1. low(m) \in Nat /\ low(n) \in Nat /\ low(m) <= low(n)
  OBVIOUS
<1>2. Clamp(m) = AtMost(100000, low(m)) /\ Clamp(n) = AtMost(100000, low(n))
  BY DEF Clamp
<1> HIDE DEF low
<1>3. /\ AtMost(100000, low(m)) \in Nat /\ AtMost(100000, low(n)) \in Nat
      /\ AtMost(100000, low(m)) <= AtMost(100000, low(n))
  BY <1>1 DEF AtMost
<1> QED
  BY <1>2, <1>3

\* The image of a finite set.
LEMMA ImageFinite ==
    ASSUME NEW f, IsFiniteSet(DOMAIN f)
    PROVE  IsFiniteSet({f[x] : x \in DOMAIN f})
<1> DEFINE S == DOMAIN f
           T == {f[x] : x \in S}
           g == [x \in S |-> f[x]]
<1>1. g \in Surjection(S, T)
  BY DEF Surjection
<1> QED
  BY <1>1, FS_Surjection

-----------------------------------------------------------------------------
(* Facts, and when some are at least as good as others *)

Sound(f) ==
    /\ {f.domain, f.repo, f.social, f.pr, f.merged, f.network, f.rpc, f.genesis} \subseteq BOOLEAN
    /\ {f.fingerprint, f.collision, f.testnet, f.announced, f.live, f.token} \subseteq BOOLEAN
    /\ f.africa \in Nat
    /\ IsFiniteSet(f.events)
    /\ \A e \in f.events : e.age \in Nat

SourcesOf(events) == {e.source : e \in events}

Commercial(events) == \E e \in events : e.family \in {"careers", "social"}

\* g is at least as good as f, rule by rule.
AnchoredBy(f, g) ==
    /\ f.domain => g.domain
    /\ f.repo => g.repo
    /\ f.social => g.social
    /\ f.pr => g.pr
    /\ f.merged => g.merged
    /\ f.rpc => g.rpc
    /\ f.genesis => g.genesis
    /\ f.fingerprint => g.fingerprint

DatedBy(f, g) ==
    /\ f.testnet => g.testnet
    /\ f.announced => g.announced
    /\ f.live => g.live
    /\ f.stage # "S0" => g.stage # "S0"
    /\ StageMomentum(f.stage) <= StageMomentum(g.stage)
    /\ OutreachWindow(f) => OutreachWindow(g)

EvidencedBy(f, g) ==
    /\ Families(f) \subseteq Families(g)
    /\ \A e \in f.events : \E d \in g.events : Decayed(e) <= Decayed(d)
    /\ Cardinality(Recent(f)) <= Cardinality(Recent(g))
    /\ SourcesOf(Recent(f)) \subseteq SourcesOf(Recent(g))
    /\ Commercial(Recent(f)) => Commercial(Recent(g))
    /\ Stale(g) => Stale(f)

AtLeast(f, g) ==
    /\ AnchoredBy(f, g) /\ DatedBy(f, g) /\ EvidencedBy(f, g)
    /\ f.africa <= g.africa
    /\ g.collision => f.collision
    /\ TokenOnly(g) => TokenOnly(f)

\* A check that found at least as much, and at most the same trouble.
ChecksOut(c, d) ==
    /\ {c.fingerprint, c.live, c.mismatch, d.fingerprint, d.live, d.mismatch} \subseteq BOOLEAN
    /\ c.fingerprint => d.fingerprint
    /\ c.live => d.live
    /\ d.mismatch => c.mismatch
    /\ d.failures >= 2 => c.failures >= 2

-----------------------------------------------------------------------------
(* Confidence *)

LEMMA FamiliesFinite ==
    ASSUME NEW f, IsFiniteSet(f.events)
    PROVE  IsFiniteSet(Families(f)) /\ Cardinality(Families(f)) \in Nat
<1> DEFINE h == [e \in f.events |-> e.family]
<1>1. IsFiniteSet({h[e] : e \in DOMAIN h})
  <2> HIDE DEF h
  <2>1. DOMAIN h = f.events
    BY DEF h
  <2> QED
    BY <2>1, ImageFinite
<1>2. Families(f) \in SUBSET {h[e] : e \in DOMAIN h}
  BY DEF Families
<1>3. IsFiniteSet(Families(f))
  BY <1>1, <1>2, FS_Subset
<1> QED
  BY <1>3, FS_CardinalityType

LEMMA CorroborationMonotone ==
    ASSUME NEW f, NEW g, IsFiniteSet(f.events), IsFiniteSet(g.events),
           Families(f) \subseteq Families(g)
    PROVE  /\ Corroboration(f) \in Nat
           /\ Corroboration(f) <= Corroboration(g)
           /\ Cardinality(Families(f)) <= Cardinality(Families(g))
<1>1. /\ Cardinality(Families(f)) \in Nat /\ Cardinality(Families(g)) \in Nat
      /\ IsFiniteSet(Families(g))
  BY FamiliesFinite
<1>2. Cardinality(Families(f)) <= Cardinality(Families(g))
  BY <1>1, FS_Subset
<1> DEFINE m == 50 * Cardinality(Families(f))
           n == 50 * Cardinality(Families(g))
<1>3. m \in Nat /\ n \in Nat /\ m <= n
  BY <1>1, <1>2
<1> HIDE DEF m, n
<1>4. AtMost(150, m) \in Nat /\ AtMost(150, m) <= AtMost(150, n)
  BY <1>3, AtMostMonotone
<1> QED
  BY <1>2, <1>4 DEF Corroboration, m, n

HalfLives == {3, 7, 10, 14, 21, 30, 45}

LEMMA HalfLifeType ==
    ASSUME NEW family
    PROVE  HalfLife(family) \in HalfLives
BY DEF HalfLife, HalfLives

LEMMA DecayedType ==
    ASSUME NEW e, e.age \in Nat
    PROVE  Decayed(e) \in {100, 50, 25, 12, 6, 3, 1, 0}
<1> DEFINE n == e.age \div HalfLife(e.family)
<1>1. n \in Nat
  BY HalfLifeType DEF HalfLives
<1>2. Decayed(e) = IF n < 7 THEN Decay[n + 1] ELSE 0
  BY DEF Decayed
<1> HIDE DEF n
<1>3. /\ Decay[1] = 100 /\ Decay[2] = 50 /\ Decay[3] = 25 /\ Decay[4] = 12
      /\ Decay[5] = 6 /\ Decay[6] = 3 /\ Decay[7] = 1
  BY DEF Decay
<1>4. n < 7 => n + 1 \in {1, 2, 3, 4, 5, 6, 7}
  BY <1>1
<1> QED
  BY <1>2, <1>3, <1>4

\* Of two events of one family the older counts no more.
LEMMA DecayedFalls ==
    ASSUME NEW e, NEW d, e.family = d.family, e.age \in Nat, d.age \in Nat, d.age <= e.age
    PROVE  Decayed(e) <= Decayed(d)
<1> DEFINE half == HalfLife(e.family)
           m == d.age \div half
           n == e.age \div half
<1>1. half \in HalfLives
  BY HalfLifeType
<1> HIDE DEF half
<1>2. m \in Nat /\ n \in Nat /\ m <= n
  <2>1. CASE half = 3
    BY <2>1
  <2>2. CASE half = 7
    BY <2>2
  <2>3. CASE half = 10
    BY <2>3
  <2>4. CASE half = 14
    BY <2>4
  <2>5. CASE half = 21
    BY <2>5
  <2>6. CASE half = 30
    BY <2>6
  <2>7. CASE half = 45
    BY <2>7
  <2> QED
    BY <1>1, <2>1, <2>2, <2>3, <2>4, <2>5, <2>6, <2>7 DEF HalfLives
<1>3. Decayed(e) = (IF n < 7 THEN Decay[n + 1] ELSE 0) /\ Decayed(d) = (IF m < 7 THEN Decay[m + 1] ELSE 0)
  BY DEF Decayed, half
<1> HIDE DEF m, n
<1>4. /\ Decay[1] = 100 /\ Decay[2] = 50 /\ Decay[3] = 25 /\ Decay[4] = 12
      /\ Decay[5] = 6 /\ Decay[6] = 3 /\ Decay[7] = 1
  BY DEF Decay
<1>5. /\ n < 7 => n + 1 \in {1, 2, 3, 4, 5, 6, 7}
      /\ m < 7 => m + 1 \in {1, 2, 3, 4, 5, 6, 7}
  BY <1>2
<1> QED
  BY <1>2, <1>3, <1>4, <1>5

\* The freshest contribution is one of the contributions, and none is fresher.
LEMMA FreshnessGreatest ==
    ASSUME NEW f, \A e \in f.events : e.age \in Nat, f.events # {}
    PROVE  /\ Freshness(f) \in {100, 50, 25, 12, 6, 3, 1, 0}
           /\ \E e \in f.events : Freshness(f) = Decayed(e)
           /\ \A e \in f.events : Freshness(f) >= Decayed(e)
<1> DEFINE S == {Decayed(e) : e \in f.events}
<1>1. S \subseteq {100, 50, 25, 12, 6, 3, 1, 0} /\ S # {}
  BY DecayedType
<1>2. \E n \in S : \A m \in S : n >= m
  <2> HIDE DEF S
  <2>1. CASE 100 \in S
    BY <1>1, <2>1
  <2>2. CASE 100 \notin S /\ 50 \in S
    BY <1>1, <2>2
  <2>3. CASE S \cap {100, 50} = {} /\ 25 \in S
    BY <1>1, <2>3
  <2>4. CASE S \cap {100, 50, 25} = {} /\ 12 \in S
    BY <1>1, <2>4
  <2>5. CASE S \cap {100, 50, 25, 12} = {} /\ 6 \in S
    BY <1>1, <2>5
  <2>6. CASE S \cap {100, 50, 25, 12, 6} = {} /\ 3 \in S
    BY <1>1, <2>6
  <2>7. CASE S \cap {100, 50, 25, 12, 6, 3} = {} /\ 1 \in S
    BY <1>1, <2>7
  <2>8. CASE S \cap {100, 50, 25, 12, 6, 3, 1} = {}
    <3>1. \A n \in S : n = 0
      BY <1>1, <2>8
    <3>2. PICK n \in S : n = 0
      BY <1>1, <3>1
    <3> QED
      BY <3>1, <3>2
  <2> QED
    BY <2>1, <2>2, <2>3, <2>4, <2>5, <2>6, <2>7, <2>8
<1>3. \E n \in S : \A e \in f.events : n >= Decayed(e)
  BY <1>2
<1>4. Freshness(f) = CHOOSE n \in S : \A e \in f.events : n >= Decayed(e)
  BY DEF Freshness
<1>5. Freshness(f) \in S /\ \A e \in f.events : Freshness(f) >= Decayed(e)
  <2> HIDE DEF S
  <2> QED
    BY <1>3, <1>4
<1> QED
  BY <1>1, <1>5

LEMMA FreshnessMonotone ==
    ASSUME NEW f, NEW g, \A e \in f.events : e.age \in Nat, \A e \in g.events : e.age \in Nat,
           \A e \in f.events : \E d \in g.events : Decayed(e) <= Decayed(d)
    PROVE  Freshness(f) \in Nat /\ Freshness(g) \in Nat /\ Freshness(f) <= Freshness(g)
<1>1. CASE f.events = {}
  <2>1. Freshness(f) = 0
    BY <1>1 DEF Freshness
  <2>2. Freshness(g) \in Nat
    <3>1. CASE g.events = {}
      BY <3>1 DEF Freshness
    <3>2. CASE g.events # {}
      BY <3>2, FreshnessGreatest
    <3> QED
      BY <3>1, <3>2
  <2> QED
    BY <2>1, <2>2
<1>2. CASE f.events # {}
  <2>1. g.events # {}
    BY <1>2
  <2>2. PICK e \in f.events : Freshness(f) = Decayed(e)
    BY <1>2, FreshnessGreatest
  <2>3. PICK d \in g.events : Decayed(e) <= Decayed(d)
    BY <2>2
  <2>4. Freshness(g) >= Decayed(d)
    BY <2>1, <2>3, FreshnessGreatest
  <2>5. Freshness(f) \in Nat /\ Freshness(g) \in Nat
    BY <1>2, <2>1, FreshnessGreatest
  <2>6. Decayed(e) \in Nat /\ Decayed(d) \in Nat
    BY <2>2, <2>3, DecayedType
  <2> QED
    BY <2>2, <2>3, <2>4, <2>5, <2>6
<1> QED
  BY <1>1, <1>2

LEMMA AnchorsMonotone ==
    ASSUME NEW f, NEW g, Sound(f), Sound(g), AnchoredBy(f, g), Families(f) \subseteq Families(g)
    PROVE  /\ Official(f) \in 0..200 /\ Official(g) \in 0..200 /\ Official(f) <= Official(g)
           /\ Registry(f) \in 0..150 /\ Registry(g) \in 0..150 /\ Registry(f) <= Registry(g)
           /\ Attributed(f) => Attributed(g)
<1>1. /\ {f.domain, f.repo, f.social, f.pr, f.merged} \subseteq BOOLEAN
      /\ {g.domain, g.repo, g.social, g.pr, g.merged} \subseteq BOOLEAN
      /\ f.domain => g.domain
      /\ f.repo => g.repo
      /\ f.social => g.social
      /\ f.pr => g.pr
      /\ f.merged => g.merged
  BY DEF Sound, AnchoredBy
<1>2. \A h : {h.domain, h.repo} \subseteq BOOLEAN =>
        Official(h) = IF h.domain /\ h.repo THEN 200
                      ELSE IF h.domain \/ h.repo THEN 150
                      ELSE IF h.social THEN 80
                      ELSE IF h.pr \/ h.merged THEN 40 ELSE 0
  BY DEF Official, Attributed
<1>3. \A h : {h.pr, h.merged} \subseteq BOOLEAN =>
        Registry(h) = IF h.merged THEN 150
                      ELSE IF h.pr THEN 100
                      ELSE IF "registry" \in Families(h) THEN 80 ELSE 0
  BY DEF Registry
<1>4. Official(f) \in 0..200 /\ Official(g) \in 0..200 /\ Official(f) <= Official(g)
  BY <1>1, <1>2
<1>5. Registry(f) \in 0..150 /\ Registry(g) \in 0..150 /\ Registry(f) <= Registry(g)
  BY <1>1, <1>3
<1>6. Attributed(f) => Attributed(g)
  BY <1>1 DEF Attributed
<1> QED
  BY <1>4, <1>5, <1>6

LEMMA TechnicalMonotone ==
    ASSUME NEW f, NEW g, NEW c, NEW d, Sound(f), Sound(g), AnchoredBy(f, g), ChecksOut(c, d)
    PROVE  /\ Technical(f, c) \in 0..250 /\ Technical(g, d) \in 0..250
           /\ Technical(f, c) <= Technical(g, d)
           /\ Fingerprint(f, c) => Fingerprint(g, d)
BY DEF Technical, Fingerprint, When, Sound, AnchoredBy, ChecksOut

LEMMA LifecycleMonotone ==
    ASSUME NEW f, NEW g, Sound(f), Sound(g), DatedBy(f, g)
    PROVE  Lifecycle(f) \in 0..150 /\ Lifecycle(g) \in 0..150 /\ Lifecycle(f) <= Lifecycle(g)
BY DEF Lifecycle, When, Sound, DatedBy

LEMMA ConfidenceMonotone ==
    ASSUME NEW f, NEW g, NEW c, NEW d, Sound(f), Sound(g), AtLeast(f, g), ChecksOut(c, d)
    PROVE  /\ Confidence(f, c) \in Nat /\ Confidence(g, d) \in Nat
           /\ Confidence(f, c) <= Confidence(g, d)
<1>1. AnchoredBy(f, g) /\ DatedBy(f, g) /\ EvidencedBy(f, g)
  BY DEF AtLeast
<1>2. /\ IsFiniteSet(f.events) /\ IsFiniteSet(g.events)
      /\ \A e \in f.events : e.age \in Nat
      /\ \A e \in g.events : e.age \in Nat
  BY DEF Sound
<1>3. /\ Official(f) \in Nat /\ Official(g) \in Nat /\ Official(f) <= Official(g)
      /\ Registry(f) \in Nat /\ Registry(g) \in Nat /\ Registry(f) <= Registry(g)
  <2>1. Families(f) \subseteq Families(g)
    BY <1>1 DEF EvidencedBy
  <2> QED
    BY <1>1, <2>1, AnchorsMonotone
<1>4. Technical(f, c) \in Nat /\ Technical(g, d) \in Nat /\ Technical(f, c) <= Technical(g, d)
  BY <1>1, TechnicalMonotone
<1>5. Lifecycle(f) \in Nat /\ Lifecycle(g) \in Nat /\ Lifecycle(f) <= Lifecycle(g)
  BY <1>1, LifecycleMonotone
<1>6. Corroboration(f) \in Nat /\ Corroboration(g) \in Nat /\ Corroboration(f) <= Corroboration(g)
  <2>1. Corroboration(f) \in Nat /\ Corroboration(f) <= Corroboration(g)
    BY <1>1, <1>2, CorroborationMonotone DEF EvidencedBy
  <2>2. Corroboration(g) \in Nat
    BY <1>2, CorroborationMonotone
  <2> QED
    BY <2>1, <2>2
<1>7. Freshness(f) \in Nat /\ Freshness(g) \in Nat /\ Freshness(f) <= Freshness(g)
  BY <1>1, <1>2, FreshnessMonotone DEF EvidencedBy
<1> DEFINE Points(h, check) == Official(h) + Registry(h) + Technical(h, check)
                                 + Corroboration(h) + Lifecycle(h) + Freshness(h)
           m == Points(f, c)
           n == Points(g, d)
<1>8. m \in Nat /\ n \in Nat /\ m <= n
  BY <1>3, <1>4, <1>5, <1>6, <1>7
<1>9. Confidence(f, c) = AtMost(1000, m) /\ Confidence(g, d) = AtMost(1000, n)
  BY DEF Confidence
<1> HIDE DEF m, n
<1>10. AtMost(1000, m) \in Nat /\ AtMost(1000, n) \in Nat /\ AtMost(1000, m) <= AtMost(1000, n)
  BY <1>8, AtMostMonotone
<1> QED
  BY <1>9, <1>10

-----------------------------------------------------------------------------
(* Momentum and risk *)

LEMMA RecentFinite ==
    ASSUME NEW f, IsFiniteSet(f.events)
    PROVE  /\ Cardinality(Recent(f)) \in Nat
           /\ IsFiniteSet(SourcesOf(Recent(f))) /\ Cardinality(SourcesOf(Recent(f))) \in Nat
<1>1. Recent(f) \in SUBSET f.events
  BY DEF Recent
<1>2. IsFiniteSet(Recent(f)) /\ Cardinality(Recent(f)) \in Nat
  BY <1>1, FS_Subset, FS_CardinalityType
<1> DEFINE h == [e \in Recent(f) |-> e.source]
<1>3. IsFiniteSet({h[e] : e \in DOMAIN h})
  <2>1. DOMAIN h = Recent(f)
    OBVIOUS
  <2> HIDE DEF h
  <2> QED
    BY <1>2, <2>1, ImageFinite
<1>4. SourcesOf(Recent(f)) = {h[e] : e \in DOMAIN h}
  BY DEF SourcesOf
<1> HIDE DEF h
<1>5. IsFiniteSet(SourcesOf(Recent(f)))
  BY <1>3, <1>4
<1> QED
  BY <1>2, <1>5, FS_CardinalityType

LEMMA StageMomentumType ==
    ASSUME NEW stage
    PROVE  StageMomentum(stage) \in Nat
BY DEF StageMomentum

LEMMA MomentumMonotone ==
    ASSUME NEW f, NEW g, IsFiniteSet(f.events), IsFiniteSet(g.events), EvidencedBy(f, g), DatedBy(f, g)
    PROVE  Momentum(f) \in Nat /\ Momentum(g) \in Nat /\ Momentum(f) <= Momentum(g)
<1> DEFINE vel(h) == 70 * Cardinality(Recent(h))
           src(h) == 50 * Cardinality(SourcesOf(Recent(h)))
           com(h) == IF Commercial(Recent(h)) THEN 150 ELSE 50
<1>1. /\ Cardinality(Recent(f)) \in Nat /\ Cardinality(Recent(g)) \in Nat
      /\ IsFiniteSet(SourcesOf(Recent(g)))
      /\ Cardinality(SourcesOf(Recent(f))) \in Nat /\ Cardinality(SourcesOf(Recent(g))) \in Nat
  BY RecentFinite
<1>2. /\ Cardinality(Recent(f)) <= Cardinality(Recent(g))
      /\ SourcesOf(Recent(f)) \in SUBSET SourcesOf(Recent(g))
      /\ com(f) <= com(g) /\ com(f) \in Nat /\ com(g) \in Nat
  BY DEF EvidencedBy
<1>3. Cardinality(SourcesOf(Recent(f))) <= Cardinality(SourcesOf(Recent(g)))
  BY <1>1, <1>2, FS_Subset
<1>4. /\ vel(f) \in Nat /\ vel(g) \in Nat /\ vel(f) <= vel(g)
      /\ src(f) \in Nat /\ src(g) \in Nat /\ src(f) <= src(g)
  BY <1>1, <1>2, <1>3
<1>5. /\ StageMomentum(f.stage) <= StageMomentum(g.stage)
      /\ StageMomentum(f.stage) \in Nat /\ StageMomentum(g.stage) \in Nat
  BY StageMomentumType DEF DatedBy
<1> DEFINE all(h) == AtMost(350, vel(h)) + StageMomentum(h.stage) + AtMost(200, src(h)) + com(h)
           m == all(f)
           n == all(g)
<1>6. Momentum(f) = AtMost(1000, m) /\ Momentum(g) = AtMost(1000, n)
  BY DEF Momentum, SourcesOf, Commercial
<1> HIDE DEF vel, src, com
<1>7. /\ AtMost(350, vel(f)) \in Nat /\ AtMost(350, vel(g)) \in Nat
      /\ AtMost(350, vel(f)) <= AtMost(350, vel(g))
      /\ AtMost(200, src(f)) \in Nat /\ AtMost(200, src(g)) \in Nat
      /\ AtMost(200, src(f)) <= AtMost(200, src(g))
  BY <1>4 DEF AtMost
<1>8. m \in Nat /\ n \in Nat /\ m <= n
  BY <1>2, <1>5, <1>7
<1> HIDE DEF m, n
<1>9. AtMost(1000, m) \in Nat /\ AtMost(1000, n) \in Nat /\ AtMost(1000, m) <= AtMost(1000, n)
  BY <1>8, AtMostMonotone
<1> QED
  BY <1>6, <1>9

LEMMA RiskMonotone ==
    ASSUME NEW f, NEW g, NEW c, NEW d, Sound(f), Sound(g), AtLeast(f, g), ChecksOut(c, d)
    PROVE  Risk(f, c) \in Nat /\ Risk(g, d) \in Nat /\ Risk(g, d) <= Risk(f, c)
<1> DEFINE a(h, check) == When(check.mismatch \/ h.collision, 300)
           b(h) == When(~ h.domain /\ ~ h.repo, 250)
           t(h) == When(TokenOnly(h), 250)
           x(check) == When(check.failures >= 2, 100)
           m == a(f, c) + b(f) + t(f) + x(c)
           n == a(g, d) + b(g) + t(g) + x(d)
<1>1. Risk(f, c) = AtMost(1000, m) /\ Risk(g, d) = AtMost(1000, n)
  BY DEF Risk
<1>2. /\ a(f, c) \in {0, 300} /\ a(g, d) \in {0, 300} /\ a(g, d) <= a(f, c)
      /\ b(f) \in {0, 250} /\ b(g) \in {0, 250} /\ b(g) <= b(f)
  BY DEF When, AtLeast, AnchoredBy, ChecksOut, Sound
<1>3. t(f) \in {0, 250} /\ t(g) \in {0, 250} /\ t(g) <= t(f)
  BY DEF When, AtLeast
<1>4. x(c) \in {0, 100} /\ x(d) \in {0, 100} /\ x(d) <= x(c)
  BY DEF When, ChecksOut
<1> HIDE DEF a, b, t, x
<1>5. m \in Nat /\ n \in Nat /\ n <= m
  BY <1>2, <1>3, <1>4
<1> HIDE DEF m, n
<1>6. AtMost(1000, m) \in Nat /\ AtMost(1000, n) \in Nat /\ AtMost(1000, n) <= AtMost(1000, m)
  BY <1>5, AtMostMonotone
<1> QED
  BY <1>1, <1>6

-----------------------------------------------------------------------------
(* States *)

LEMMA Ranks ==
    /\ Rank("REJECT") = 0 /\ Rank("STALE") = 1 /\ Rank("RADAR") = 2
    /\ Rank("QUALIFIED") = 3 /\ Rank("HOT") = 4
BY DEF Rank

\* A rescore of facts that are at least as good, after a check that found at
\* least as much, gives a state that is at least as high.
LEMMA RescoredMonotone ==
    ASSUME NEW f, NEW g, NEW c, NEW d, Sound(f), Sound(g), AtLeast(f, g), ChecksOut(c, d)
    PROVE  Rank(Rescored(f, c)) <= Rank(Rescored(g, d))
<1>1. /\ Confidence(f, c) \in Nat /\ Confidence(g, d) \in Nat
      /\ Confidence(f, c) <= Confidence(g, d)
  BY ConfidenceMonotone
<1>2. Momentum(f) \in Nat /\ Momentum(g) \in Nat /\ Momentum(f) <= Momentum(g)
  BY MomentumMonotone DEF AtLeast, Sound
<1>3. Risk(f, c) \in Nat /\ Risk(g, d) \in Nat /\ Risk(g, d) <= Risk(f, c)
  BY RiskMonotone
<1>4. f.africa \in Nat /\ g.africa \in Nat /\ f.africa <= g.africa
  BY DEF Sound, AtLeast
<1> DEFINE X == Outreach(f, c, Risk(f, c))
           Y == Outreach(g, d, Risk(g, d))
<1>5. X \in Nat /\ Y \in Nat /\ X <= Y
  <2> DEFINE m == 45 * Confidence(f, c) + 35 * 10 * f.africa + 20 * Momentum(f) - 30 * Risk(f, c)
             n == 45 * Confidence(g, d) + 35 * 10 * g.africa + 20 * Momentum(g) - 30 * Risk(g, d)
  <2>1. m \in Int /\ n \in Int /\ m <= n
    BY <1>1, <1>2, <1>3, <1>4
  <2>2. X = Clamp(m) /\ Y = Clamp(n)
    BY DEF Outreach
  <2> HIDE DEF m, n
  <2>3. Clamp(m) \in Nat /\ Clamp(n) \in Nat /\ Clamp(m) <= Clamp(n)
    BY <2>1, ClampMonotone
  <2> HIDE DEF X, Y
  <2> QED
    BY <2>2, <2>3
<1>6. /\ Stale(g) => Stale(f)
      /\ OutreachWindow(f) => OutreachWindow(g)
      /\ TokenOnly(g) => TokenOnly(f)
  BY DEF AtLeast, EvidencedBy, DatedBy
<1>7. GatePassed(f, c, TokenOnly(f)) => GatePassed(g, d, TokenOnly(g))
  <2>1. /\ Attributed(f) => Attributed(g)
        /\ Fingerprint(f, c) => Fingerprint(g, d)
    BY AnchorsMonotone, TechnicalMonotone DEF AtLeast, EvidencedBy
  <2>2. /\ Cardinality(Families(f)) \in Nat /\ Cardinality(Families(g)) \in Nat
        /\ Cardinality(Families(f)) <= Cardinality(Families(g))
    BY FamiliesFinite, CorroborationMonotone DEF AtLeast, EvidencedBy, Sound
  <2> QED
    BY <1>1, <1>6, <2>1, <2>2 DEF GatePassed
<1> DEFINE hot(h, check, score) == /\ GatePassed(h, check, TokenOnly(h)) /\ Confidence(h, check) >= 750
                                   /\ score >= 70000 /\ Risk(h, check) < 340 /\ OutreachWindow(h)
           qualified(h, check, score) == /\ GatePassed(h, check, TokenOnly(h))
                                         /\ Confidence(h, check) >= 650 /\ score >= 55000
           outcome(h, check, score) == IF TokenOnly(h) THEN "REJECT" ELSE IF Stale(h) THEN "STALE"
                                       ELSE IF hot(h, check, score) THEN "HOT"
                                       ELSE IF qualified(h, check, score) THEN "QUALIFIED" ELSE "RADAR"
<1>8. Rescored(f, c) = outcome(f, c, X) /\ Rescored(g, d) = outcome(g, d, Y)
  BY DEF Rescored, State
<1>9. /\ hot(f, c, X) => hot(g, d, Y)
      /\ qualified(f, c, X) => qualified(g, d, Y)
      /\ hot(f, c, X) => qualified(f, c, X)
  <2> HIDE DEF X, Y
  <2> QED
    BY <1>1, <1>3, <1>5, <1>6, <1>7
<1> HIDE DEF hot, qualified, X, Y
<1> QED
  BY <1>6, <1>8, <1>9, Ranks
=============================================================================
