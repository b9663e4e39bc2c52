------------------------ MODULE LivenessQueue_proofs ------------------------
(***************************************************************************)
(* Proofs about LivenessQueue, for every set of endpoints, candidates and  *)
(* chains and every length of the queue.                                   *)
(***************************************************************************)
EXTENDS LivenessQueue, TLAPS, FiniteSetTheorems, WellFoundedInduction

-----------------------------------------------------------------------------
(* Rows in the order of their time *)

Numbered(S, b) == \A o \in S : o.nr \in Nat /\ o.nr < b

Distinct(S) == \A o, q \in S : o.nr = q.nr => o = q

LEMMA NewestIsLast ==
    ASSUME NEW S, NEW b \in Nat, Numbered(S, b), S # {}
    PROVE  Newest(S) \in S /\ \A q \in S : q.nr <= Newest(S).nr
<1> DEFINE T == {b - o.nr : o \in S}
<1>1. T # {} /\ T \subseteq Nat
    BY DEF Numbered
<1> HIDE DEF T
<1>2. PICK t \in T : \A u \in T : ~ (<<u, t>> \in OpToRel(<, Nat))
    BY <1>1, NatLessThanWellFounded, WFMin
<1>3. \A u \in T : ~ (u < t)
    <2>1. TAKE u \in T
    <2>2. u \in Nat /\ t \in Nat
        BY <1>1, <1>2
    <2> QED  BY <1>2, <2>2 DEF OpToRel
<1>4. PICK o \in S : t = b - o.nr
    BY <1>2 DEF T
<1>5. \A q \in S : q.nr <= o.nr
    <2>1. TAKE q \in S
    <2>2. ~ (b - q.nr < b - o.nr)
        BY <1>3, <1>4 DEF T
    <2> QED  BY <2>2 DEF Numbered
<1> QED  BY <1>5 DEF Newest

\* The two newest rows are two, and in order, where there are two rows at all.
LEMMA LatestTwo ==
    ASSUME NEW S, IsFiniteSet(S), NEW b \in Nat, Numbered(S, b), Distinct(S), Two(S)
    PROVE  \E older, newer \in S :
            older.nr < newer.nr /\ Latest(S) = {older, newer}
<1> DEFINE n == Newest(S)
           R == S \ {n}
           m == Newest(R)
           After(x) == {q \in S : x.nr < q.nr}
<1>1. n \in S /\ \A q \in S : q.nr <= n.nr
    BY NewestIsLast DEF Two
<1>2. R # {} /\ Numbered(R, b)
    BY <1>1 DEF Two, Numbered
<1>3. m \in R /\ \A q \in R : q.nr <= m.nr
    BY <1>2, NewestIsLast
<1> HIDE DEF n, m
<1>4. m.nr < n.nr
    BY <1>1, <1>3 DEF Numbered, Distinct
<1>5. \A x \in S : IsFiniteSet(After(x)) /\ Cardinality(After(x)) \in Nat
    BY FS_Subset, FS_CardinalityType
<1>6. n \in Latest(S)
    <2>1. After(n) = {}
        BY <1>1 DEF Numbered
    <2> QED  BY <1>1, <2>1, FS_EmptySet DEF Latest
<1>7. m \in Latest(S)
    <2>1. After(m) = {n}
        <3>1. n \in After(m)
            BY <1>1, <1>4
        <3>2. \A q \in S : q # n => ~ m.nr < q.nr
            BY <1>1, <1>3 DEF Numbered
        <3> QED  BY <3>1, <3>2
    <2>2. Cardinality(After(m)) = 1
        BY <2>1, FS_Singleton
    <2> QED  BY <1>3, <2>2 DEF Latest
<1>8. ASSUME NEW x \in S, x # n, x # m PROVE x \notin Latest(S)
    <2>1. x.nr < m.nr
        BY <1>3, <1>8 DEF Numbered, Distinct
    <2>2. {m, n} \subseteq After(x)
        BY <1>1, <1>3, <1>4, <2>1 DEF Numbered
    <2>3. Cardinality({m, n}) = 2
        <3>1. m # n
            BY <1>3, <1>4
        <3>2. IsFiniteSet({m}) /\ Cardinality({m}) = 1
            BY FS_Singleton
        <3>3. Cardinality({m} \cup {n}) = 1 + 1
            BY <3>1, <3>2, FS_AddElement
        <3>4. {m} \cup {n} = {m, n}
            OBVIOUS
        <3> QED  BY <3>3, <3>4
    <2>4. 2 <= Cardinality(After(x))
        BY <1>5, <2>2, <2>3, FS_Subset
    <2> QED  BY <1>5, <2>4 DEF Latest
<1>9. Latest(S) = {m, n}
    BY <1>6, <1>7, <1>8 DEF Latest
<1> QED  BY <1>1, <1>3, <1>4, <1>9

\* The queue is no longer than the limit.
LEMMA FirstLimited ==
    ASSUME NEW S, IsFiniteSet(S), NEW b \in Nat, Numbered(S, b), Distinct(S), Limit \in Nat \ {0}
    PROVE  IsFiniteSet(First(S)) /\ Cardinality(First(S)) <= Limit
<1> DEFINE F == First(S)
           n == Newest(F)
           Before == {q \in S : q.nr < n.nr}
<1>1. IsFiniteSet(F) /\ F \subseteq S
    BY FS_Subset DEF First
<1>2. CASE F = {}
    BY <1>1, <1>2, FS_EmptySet
<1>3. CASE F # {}
    <2>1. n \in F /\ \A q \in F : q.nr <= n.nr
        BY <1>1, <1>3, NewestIsLast DEF Numbered
    <2>2. IsFiniteSet(Before) /\ Cardinality(Before) \in Nat
        BY FS_Subset, FS_CardinalityType
    <2>3. Cardinality(Before) < Limit
        BY <2>1 DEF First
    <2>4. F \ {n} \subseteq Before
        BY <1>1, <2>1 DEF Numbered, Distinct
    <2>5. Cardinality(F \ {n}) <= Cardinality(Before)
        BY <2>2, <2>4, FS_Subset
    <2>6. Cardinality(F \ {n}) = Cardinality(F) - 1
        BY <1>1, <2>1, FS_RemoveElement
    <2>7. Cardinality(F) \in Nat
        BY <1>1, FS_CardinalityType
    <2> QED  BY <1>1, <2>2, <2>3, <2>5, <2>6, <2>7
<1> QED  BY <1>2, <1>3
-----------------------------------------------------------------------------
(* What a probe can report *)

Hashed == {"evm", "starknet", "substrate", "svm"}

LEMMA AnswerParts ==
    ASSUME NEW e \in Endpoints, NEW after, NEW answer \in Answers(e, after)
    PROVE  \E i, g, h \in {chain[e], after} :
            /\ answer.served = g.is
            /\ answer.id \in {i.is.id, Missing, Failed}
            /\ answer.genesis \in {g.is.genesis, Missing, Failed}
            /\ answer.head \in {h.height, Missing, Failed}
<1>1. PICK full \in Full(chain[e], after) :
        \/ answer = full
        \/ \E part \in {"id", "genesis", "head"}, lack \in {Missing, Failed} :
            answer = [full EXCEPT ![part] = lack]
    BY DEF Answers
<1>2. PICK i, g, h \in {chain[e], after} :
        full = [id |-> i.is.id, genesis |-> g.is.genesis, head |-> h.height, served |-> g.is]
    BY DEF Full
<1>3. ASSUME NEW part \in {"id", "genesis", "head"}, NEW lack \in {Missing, Failed},
             answer = [full EXCEPT ![part] = lack]
      PROVE  /\ answer.served = g.is
             /\ answer.id \in {i.is.id, Missing, Failed}
             /\ answer.genesis \in {g.is.genesis, Missing, Failed}
             /\ answer.head \in {h.height, Missing, Failed}
    <2>1. CASE part = "id"
        BY <1>2, <1>3, <2>1
    <2>2. CASE part = "genesis"
        BY <1>2, <1>3, <2>2
    <2>3. CASE part = "head"
        BY <1>2, <1>3, <2>3
    <2> QED  BY <2>1, <2>2, <2>3
<1>4. /\ answer.served = g.is
      /\ answer.id \in {i.is.id, Missing, Failed}
      /\ answer.genesis \in {g.is.genesis, Missing, Failed}
      /\ answer.head \in {h.height, Missing, Failed}
    <2>1. CASE answer = full
        BY <1>2, <2>1
    <2>2. CASE answer # full
        <3>1. PICK part \in {"id", "genesis", "head"}, lack \in {Missing, Failed} :
                answer = [full EXCEPT ![part] = lack]
            BY <1>1, <2>2
        <3> QED  BY <1>3, <3>1
    <2> QED  BY <2>1, <2>2
<1> QED  BY <1>4

\* Whatever the family: an identity is reported or named, and a genesis of a family
\* that reads it is the chain's own.
LEMMA ProbeParts ==
    ASSUME NEW f \in Families, NEW i, NEW g, NEW h, NEW node,
           node.id \in {i, Missing, Failed},
           node.genesis \in {g, Missing, Failed},
           node.head \in {h, Missing, Failed}
    PROVE  /\ Probe(f, node).ok \in BOOLEAN
           /\ Probe(f, node).id \in {i, g, Missing} \cup Missed
           /\ Probe(f, node).genesis \in {i, g, Missing} \cup Missed
           /\ Probe(f, node).height \in {NoHeight, 0, h}
           /\ f \in Hashed => Probe(f, node).genesis \in {g, Missing}
<1> DEFINE identity == Identity(f, node)
           N == {i, g, Missing} \cup Missed
<1>1. identity # Failed =>
        /\ identity.id \in N /\ identity.genesis \in N
        /\ f \in Hashed => identity.genesis \in {g, Missing}
    <2> USE DEF Or, Served, Missed, Hashed
    <2>1. CASE f \in {"evm", "starknet"}
        <3>1. identity = EVMIdentity(node)
            <4>1. CASE f = "evm"
                BY <4>1, Zenon DEF Identity
            <4>2. CASE f = "starknet"
                BY <4>2, Zenon DEF Identity, StarknetIdentity
            <4> QED  BY <2>1, <4>1, <4>2
        <3>2. CASE node.id = Failed
            BY <3>1, <3>2 DEF EVMIdentity
        <3>3. CASE node.id # Failed
            <4>1. identity = [id |-> Or(node.id, "None"), genesis |-> Served(node.genesis)]
                BY <3>1, <3>3 DEF EVMIdentity
            <4> QED  BY <3>3, <4>1
        <3> QED  BY <3>2, <3>3
    <2>2. CASE f \in {"cosmos", "aptos"}
        BY <2>2 DEF Identity, CosmosIdentity, AptosIdentity
    <2>3. CASE f = "fuel"
        BY <2>3 DEF Identity, FuelIdentity
    <2>4. CASE f = "substrate"
        <3>1. identity = SubstrateIdentity(node)
            BY <2>4, Zenon DEF Identity
        <3>2. CASE node.id = Failed
            BY <3>1, <3>2 DEF SubstrateIdentity
        <3>3. CASE node.id # Failed
            <4>1. identity = [id |-> Or(Served(node.genesis), Or(node.id, "None")), genesis |-> Served(node.genesis)]
                BY <3>1, <3>3 DEF SubstrateIdentity
            <4> QED  BY <3>3, <4>1
        <3> QED  BY <3>2, <3>3
    <2>5. CASE f = "svm"
        <3>1. identity = SVMIdentity(node)
            BY <2>5, Zenon DEF Identity
        <3>2. CASE node.genesis = Failed
            BY <3>1, <3>2 DEF SVMIdentity
        <3>3. CASE node.genesis # Failed
            <4>1. identity = [id |-> Or(node.genesis, "unknown"), genesis |-> node.genesis]
                BY <3>1, <3>3 DEF SVMIdentity
            <4> QED  BY <3>3, <4>1
        <3> QED  BY <3>2, <3>3
    <2>6. CASE f = "sui"
        BY <2>6 DEF Identity, SuiIdentity
    <2> QED  BY <2>1, <2>2, <2>3, <2>4, <2>5, <2>6 DEF Families
<1>2. /\ Genesis(f, node) \in N
      /\ f \in Hashed => Genesis(f, node) \in {g, Missing}
    BY DEF Genesis, Or, Served, Missed, Hashed, Families
<1>3. Height(f, node) \in {NoHeight, 0, h}
    BY DEF Height, Or
<1>4. CASE identity = Failed
    BY <1>4 DEF Probe
<1>5. CASE identity # Failed
    <2> HIDE DEF N
    <2> DEFINE probe == [ok |-> TRUE, id |-> identity.id,
                         genesis |-> Or(identity.genesis, Genesis(f, node)),
                         height |-> Height(f, node)]
    <2>1. Probe(f, node) = probe
        BY <1>5, Zenon DEF Probe
    <2>2. /\ probe.ok = TRUE
          /\ probe.id = identity.id
          /\ probe.genesis = Or(identity.genesis, Genesis(f, node))
          /\ probe.height = Height(f, node)
        OBVIOUS
    <2>3. /\ identity.id \in N /\ identity.genesis \in N
          /\ f \in Hashed => identity.genesis \in {g, Missing}
        BY <1>1, <1>5
    <2> HIDE DEF identity, probe
    <2>4. /\ probe.genesis \in N
          /\ f \in Hashed => probe.genesis \in {g, Missing}
        BY <1>2, <2>2, <2>3 DEF Or
    <2>5. Probe(f, node).id \in N /\ Probe(f, node).genesis \in N
        BY <2>1, <2>2, <2>3, <2>4
    <2> QED  BY <1>3, <2>1, <2>2, <2>4, <2>5 DEF N
<1> QED  BY <1>4, <1>5

-----------------------------------------------------------------------------
(* The inductive invariant *)

Serving == \A e \in Endpoints : chain[e].is \in MayServe[e] /\ family[e] \in FamilyOf[e]

\* What is known of a row for good.
Sound(o) ==
    /\ o.ep = Serves[o.cand]
    /\ o.served \in MayServe[o.ep]
    /\ o.ok /\ o.round = 1 => Published[o.cand] \in {NoId, o.fingerprint[1]}
    /\ FamilyOf[o.ep] \subseteq Hashed => o.fingerprint[2] \in {Missing, o.served.genesis}

RowsSound == \A o \in obs : Sound(o) /\ (o.open => checking /\ o.round = 2)

\* A second observation has a first one; an endpoint in the queue has no second
\* one, and is there once.
QueueSound ==
    /\ OneRecheck
    /\ \A q \in obs : q.round = 2 => \E o \in obs : o.round = 1 /\ o.ep = q.ep
    /\ \A o \in due : o.round = 1 /\ \A q \in obs : q.ep = o.ep => q.round = 1
    /\ \A o, q \in due : o.ep = q.ep => o = q

IInv == TypeOK /\ Serving /\ RowsSound /\ QueueSound

\* The two rows of a live verdict.
Proven(v, e, older, newer) ==
    /\ v.pair = {older.nr, newer.nr}
    /\ older.nr < newer.nr
    /\ older.ep = e /\ newer.ep = e
    /\ older.ok /\ newer.ok
    /\ older.height < newer.height
    /\ older.fingerprint = newer.fingerprint

\* A committed verdict rests on committed rows: those that a lost session leaves.
VerdictsProven ==
    \A c \in Candidates :
        /\ verdict[c].result = "live" =>
            \E older, newer \in obs : Proven(verdict[c], Serves[c], older, newer)
        /\ stands[c].result = "live" =>
            \E older, newer \in obs :
                ~ older.open /\ ~ newer.open /\ Proven(stands[c], Serves[c], older, newer)

-----------------------------------------------------------------------------
(* Rows that are recorded, committed and lost *)

LEMMA NextNrIsLast ==
    ASSUME NEW S, NEW b \in Nat, Numbered(S, b), NEW next,
           next = IF S = {} THEN 0 ELSE Newest(S).nr + 1
    PROVE  next \in Nat /\ Numbered(S, next)
<1>1. CASE S = {}
    BY <1>1 DEF Numbered
<1>2. CASE S # {}
    BY <1>2, NewestIsLast DEF Numbered
<1> QED  BY <1>1, <1>2

InOrder(S) == \A o, q \in S : o.nr < q.nr => o.at <= q.at

\* What TypeOK says of the observations.
Kept ==
    /\ obs \subseteq Row /\ IsFiniteSet(obs)
    /\ NextNr \in Nat
    /\ Numbered(obs, NextNr) /\ Distinct(obs) /\ InOrder(obs)
    /\ \A o \in obs : o.at <= now

\* What TypeOK says of everything else.
Rest ==
    /\ now \in 0..MaxTime
    /\ family \in [Endpoints -> Families]
    /\ chain \in [Endpoints -> [is: Chain, height: 0..MaxHeight]]
    /\ due \subseteq obs /\ Cardinality(due) <= Limit
    /\ checking \in BOOLEAN
    /\ due # {} => checking
    /\ {verdict, stands} \subseteq [Candidates -> [result: Results, pair: SUBSET Nat]]
    /\ faults \in 0..MaxFaults

LEMMA TypeParts == TypeOK <=> Kept /\ Rest
<1>1. ASSUME TypeOK PROVE Kept /\ Rest
    BY <1>1 DEF TypeOK, Kept, Rest, Row, Numbered, Distinct, InOrder
<1>2. ASSUME Kept, Rest PROVE TypeOK
    BY <1>2 DEF TypeOK, Kept, Rest, Row, Numbered, Distinct, InOrder
<1> QED  BY <1>1, <1>2

LEMMA RecordKept ==
    ASSUME Kept, now \in Nat, NEW o \in Row, o.nr = NextNr, o.at = now,
           obs' = obs \cup {o}, now' = now
    PROVE  Kept'
<1>1. obs' \subseteq Row /\ IsFiniteSet(obs')
    BY FS_AddElement DEF Kept
<1>2. Numbered(obs', NextNr + 1) /\ NextNr + 1 \in Nat
    BY DEF Kept, Numbered
<1>3. NextNr' = IF obs' = {} THEN 0 ELSE Newest(obs').nr + 1
    BY DEF NextNr, Newest
<1>4. NextNr' \in Nat /\ Numbered(obs', NextNr')
    BY <1>2, <1>3, NextNrIsLast
<1>5. Distinct(obs')
    BY DEF Kept, Numbered, Distinct
<1>6. InOrder(obs')
    BY DEF Kept, Numbered, InOrder, Row
<1>7. \A q \in obs' : q.at <= now'
    BY DEF Kept
<1> QED  BY <1>1, <1>4, <1>5, <1>6, <1>7 DEF Kept, Numbered, Distinct, InOrder

LEMMA LostKept ==
    ASSUME Kept, obs' \subseteq obs, now' = now
    PROVE  Kept'
<1>1. obs' \subseteq Row /\ IsFiniteSet(obs')
    BY FS_Subset DEF Kept
<1>2. Numbered(obs', NextNr)
    BY DEF Kept, Numbered
<1>3. NextNr' = IF obs' = {} THEN 0 ELSE Newest(obs').nr + 1
    BY DEF NextNr, Newest
<1>4. NextNr' \in Nat /\ Numbered(obs', NextNr')
    BY <1>2, <1>3, NextNrIsLast DEF Kept
<1>5. Distinct(obs') /\ InOrder(obs') /\ \A q \in obs' : q.at <= now'
    BY DEF Kept, Distinct, InOrder
<1> QED  BY <1>1, <1>4, <1>5 DEF Kept, Numbered, Distinct, InOrder

Closed(o) == [o EXCEPT !.open = FALSE]

LEMMA ClosedRow ==
    ASSUME NEW o \in Row
    PROVE  /\ Closed(o) \in Row
           /\ Closed(o).open = FALSE
           /\ Closed(o).nr = o.nr /\ Closed(o).ep = o.ep /\ Closed(o).cand = o.cand
           /\ Closed(o).round = o.round /\ Closed(o).ok = o.ok
           /\ Closed(o).fingerprint = o.fingerprint /\ Closed(o).height = o.height
           /\ Closed(o).at = o.at /\ Closed(o).served = o.served
           /\ ~ o.open => Closed(o) = o
BY DEF Closed, Row

LEMMA CommitKept ==
    ASSUME Kept, obs' = {Closed(o) : o \in obs}, now' = now
    PROVE  Kept'
<1>0. obs \subseteq Row /\ IsFiniteSet(obs)
    BY DEF Kept
<1>1. obs' \subseteq Row
    <2>1. ASSUME NEW o \in obs PROVE Closed(o) \in Row
        BY <1>0, ClosedRow
    <2> QED  BY <2>1
<1>2. IsFiniteSet(obs')
    <2> DEFINE f == [o \in obs |-> Closed(o)]
    <2>1. f \in [obs -> obs'] /\ \A q \in obs' : \E o \in obs : f[o] = q
        OBVIOUS
    <2> HIDE DEF f
    <2>2. f \in Surjection(obs, obs')
        BY <2>1 DEF Surjection
    <2>3. IsFiniteSet(obs)
        BY <1>0
    <2> QED  BY <2>2, <2>3, FS_Surjection, Zenon
<1>3. \A q \in obs' : \E o \in obs : q = Closed(o) /\ q.nr = o.nr /\ q.at = o.at
    <2>1. TAKE q \in obs'
    <2>2. PICK o \in obs : q = Closed(o)
        OBVIOUS
    <2>3. q.nr = o.nr /\ q.at = o.at
        BY <1>0, <2>2, ClosedRow
    <2> QED  BY <2>2, <2>3
<1>4. Numbered(obs', NextNr)
    BY <1>3 DEF Kept, Numbered
<1>5. NextNr' = IF obs' = {} THEN 0 ELSE Newest(obs').nr + 1
    BY DEF NextNr, Newest
<1>6. NextNr' \in Nat /\ Numbered(obs', NextNr')
    BY <1>4, <1>5, NextNrIsLast DEF Kept
<1>7. Distinct(obs') /\ InOrder(obs') /\ \A q \in obs' : q.at <= now'
    BY <1>3 DEF Kept, Distinct, InOrder
<1> QED  BY <1>1, <1>2, <1>6, <1>7 DEF Kept, Numbered, Distinct, InOrder

-----------------------------------------------------------------------------
(* Observations and verdicts *)

LEMMA RowParts ==
    ASSUME NEW n \in Nat, NEW e \in Endpoints, NEW c \in Candidates, NEW round \in 1..2,
           NEW ok \in BOOLEAN, NEW fp \in Reports \X Reports, NEW h \in Heights, NEW t \in Nat,
           NEW open \in BOOLEAN, NEW is \in Chain
    PROVE  [nr |-> n, ep |-> e, cand |-> c, round |-> round, ok |-> ok, fingerprint |-> fp,
            height |-> h, at |-> t, open |-> open, served |-> is] \in Row
BY DEF Row

\* What a probe may leave behind an endpoint.
LEMMA AfterParts ==
    ASSUME TypeOK, Serving, NEW e \in Endpoints, NEW after \in {chain[e]} \cup Others(e)
    PROVE  after \in [is: Chain, height: 0..MaxHeight] /\ after.is \in MayServe[e]
<1>1. chain[e] \in [is: Chain, height: 0..MaxHeight] /\ chain[e].is \in MayServe[e]
    BY DEF TypeOK, Serving
<1>2. MayServe[e] \subseteq Chain
    BY DEF Chain
<1> QED  BY <1>1, <1>2 DEF Others

LEMMA ObservationSound ==
    ASSUME TypeOK, Serving, NEW c \in Candidates,
           NEW after \in {chain[Serves[c]]} \cup Others(Serves[c]),
           NEW node \in Answers(Serves[c], after),
           NEW round \in 1..2, NEW open \in BOOLEAN,
           NEW o, o = Observation(c, node, round, open)
    PROVE  /\ o \in Row /\ Sound(o)
           /\ o.nr = NextNr /\ o.at = now /\ o.round = round /\ o.open = open
           /\ o.ep = Serves[c] /\ o.cand = c
<1> DEFINE e == Serves[c]
<1>1. e \in Endpoints
    BY QueueAssumption
<1>2. PICK probe : probe = Probe(family[e], node)
    OBVIOUS
<1>s. PICK i, g, h \in {chain[e], after} :
        /\ node.served = g.is
        /\ node.id \in {i.is.id, Missing, Failed}
        /\ node.genesis \in {g.is.genesis, Missing, Failed}
        /\ node.head \in {h.height, Missing, Failed}
    BY <1>1, AnswerParts
<1>3. /\ i.is \in Chain /\ g.is \in Chain /\ g.is \in MayServe[e]
      /\ h.height \in 0..MaxHeight /\ MaxHeight \in Nat
      /\ family[e] \in Families /\ family[e] \in FamilyOf[e]
      /\ now \in Nat /\ NextNr \in Nat
    <2>1. \A x \in {chain[e], after} :
            x \in [is: Chain, height: 0..MaxHeight] /\ x.is \in MayServe[e]
        BY <1>1, AfterParts
    <2>2. /\ MaxHeight \in Nat /\ family[e] \in Families /\ family[e] \in FamilyOf[e]
          /\ now \in Nat /\ NextNr \in Nat
        BY <1>1, QueueAssumption DEF TypeOK, Serving
    <2> QED  BY <2>1, <2>2
<1> HIDE DEF e
<1>5. /\ probe.ok \in BOOLEAN
      /\ probe.id \in {i.is.id, g.is.genesis, Missing} \cup Missed
      /\ probe.genesis \in {i.is.id, g.is.genesis, Missing} \cup Missed
      /\ probe.height \in {NoHeight, 0, h.height}
      /\ family[e] \in Hashed => probe.genesis \in {g.is.genesis, Missing}
    <2> DEFINE id == i.is.id
               genesis == g.is.genesis
               height == h.height
               f == family[e]
    <2>1. /\ node.id \in {id, Missing, Failed}
          /\ node.genesis \in {genesis, Missing, Failed}
          /\ node.head \in {height, Missing, Failed}
          /\ f \in Families
          /\ probe = Probe(f, node)
        BY <1>2, <1>3, <1>s
    <2> HIDE DEF id, genesis, height, f
    <2>2. /\ Probe(f, node).ok \in BOOLEAN
          /\ Probe(f, node).id \in {id, genesis, Missing} \cup Missed
          /\ Probe(f, node).genesis \in {id, genesis, Missing} \cup Missed
          /\ Probe(f, node).height \in {NoHeight, 0, height}
          /\ f \in Hashed => Probe(f, node).genesis \in {genesis, Missing}
        BY <2>1, ProbeParts
    <2> QED  BY <2>1, <2>2 DEF id, genesis, height, f
<1>6. i.is.id \in Ids /\ g.is.genesis \in Ids
    BY <1>3 DEF Ids
<1>7. /\ probe.id \in Reports /\ probe.genesis \in Reports
      /\ probe.height \in Heights
    BY <1>3, <1>5, <1>6 DEF Reports, Heights
<1>8. /\ o.nr = NextNr /\ o.ep = e /\ o.cand = c /\ o.round = round
      /\ o.ok = (probe.ok /\ (round = 1 => Matches(c, probe)))
      /\ o.fingerprint = <<probe.id, probe.genesis>>
      /\ o.height = probe.height /\ o.at = now /\ o.open = open /\ o.served = g.is
    BY <1>2, <1>s DEF Observation, Fingerprint, e
<1>9. o \in Row
    <2> DEFINE ok == probe.ok /\ (round = 1 => Matches(c, probe))
               fp == <<probe.id, probe.genesis>>
               tip == probe.height
               is == g.is
               n == NextNr
    <2>1. o = [nr |-> n, ep |-> e, cand |-> c, round |-> round, ok |-> ok, fingerprint |-> fp,
               height |-> tip, at |-> now, open |-> open, served |-> is]
        BY <1>2, <1>s DEF Observation, Fingerprint, e
    <2>2. ok \in BOOLEAN
        OBVIOUS
    <2>3. fp \in Reports \X Reports /\ n \in Nat /\ tip \in Heights
        BY <1>3, <1>7
    <2>4. e \in Endpoints /\ is \in Chain /\ now \in Nat /\ round \in 1..2 /\ open \in BOOLEAN
        BY <1>1, <1>3
    <2> HIDE DEF ok, fp, tip, is, n
    <2>5. [nr |-> n, ep |-> e, cand |-> c, round |-> round, ok |-> ok, fingerprint |-> fp,
           height |-> tip, at |-> now, open |-> open, served |-> is] \in Row
        BY <2>2, <2>3, <2>4, RowParts
    <2> QED  BY <2>1, <2>5, Zenon
<1>10. o.ok /\ o.round = 1 => Published[o.cand] \in {NoId, o.fingerprint[1]}
    <2>1. o.fingerprint[1] = probe.id
        BY <1>8
    <2>2. o.ok /\ o.round = 1 => Matches(c, probe)
        BY <1>8, Zenon
    <2> QED  BY <1>8, <2>1, <2>2 DEF Matches
<1>11. FamilyOf[o.ep] \subseteq Hashed => o.fingerprint[2] \in {Missing, o.served.genesis}
    BY <1>3, <1>5, <1>8
<1>12. o.ep = Serves[o.cand] /\ o.served \in MayServe[o.ep]
    BY <1>3, <1>8 DEF e
<1> QED  BY <1>8, <1>9, <1>10, <1>11, <1>12 DEF Sound, e

LEMMA CompareType ==
    ASSUME NEW S, S \subseteq Row
    PROVE  Compare(S) \in [result: Results, pair: SUBSET Nat]
<1>1. {o.nr : o \in Latest(S)} \subseteq Nat
    BY DEF Latest, Row
<1> QED  BY <1>1 DEF Compare, Results

LEMMA CompareLive ==
    ASSUME NEW S, S \subseteq Row, IsFiniteSet(S), NEW b \in Nat, Numbered(S, b), Distinct(S),
           Compare(S).result = "live"
    PROVE  \E older, newer \in S :
            /\ Compare(S).pair = {older.nr, newer.nr}
            /\ older.nr < newer.nr
            /\ older.ok /\ newer.ok
            /\ older.height < newer.height
            /\ older.fingerprint = newer.fingerprint
<1> DEFINE pair == Latest(S)
<1>1. /\ Two(pair) /\ Advancing(pair) /\ Stable(pair)
      /\ \A o \in pair : o.ok
    BY DEF Compare
<1>2. Two(S)
    BY <1>1 DEF Two, Latest
<1>3. PICK older \in S, newer \in S : older.nr < newer.nr /\ pair = {older, newer}
    BY <1>2, LatestTwo
<1>4. Compare(S).pair = {o.nr : o \in pair}
    BY DEF Compare
<1> HIDE DEF pair
<1>5. {o.nr : o \in pair} = {older.nr, newer.nr}
    BY <1>3
<1>6. older.ok /\ newer.ok /\ older.height < newer.height /\ older.fingerprint = newer.fingerprint
    BY <1>1, <1>3 DEF Advancing, Stable
<1> QED  BY <1>3, <1>4, <1>5, <1>6

-----------------------------------------------------------------------------
(* Type correctness *)

LEMMA DueLimited ==
    ASSUME Kept
    PROVE  /\ Due \subseteq obs
           /\ Cardinality(Due) <= Limit
<1> DEFINE Old == {q \in obs : OldEnough(q)}
<1>1. IsFiniteSet(Old) /\ Numbered(Old, NextNr) /\ Distinct(Old) /\ NextNr \in Nat
    BY FS_Subset DEF Kept, Numbered, Distinct
<1>2. IsFiniteSet(First(Old)) /\ Cardinality(First(Old)) <= Limit
    BY <1>1, FirstLimited, QueueAssumption
<1>3. Due \subseteq First(Old)
    BY DEF Due
<1>4. First(Old) \subseteq obs
    BY DEF First
<1>5. /\ Cardinality(Due) \in Nat
      /\ Cardinality(First(Old)) \in Nat
      /\ Cardinality(Due) <= Cardinality(First(Old))
    BY <1>2, <1>3, FS_Subset, FS_CardinalityType
<1> HIDE DEF Old
<1> QED  BY <1>2, <1>3, <1>4, <1>5, QueueAssumption

LEMMA SeenRows ==
    ASSUME NEW rows, NEW e, NEW own
    PROVE  SeenOf(rows, e, own) \subseteq rows
BY DEF SeenOf

\* The row a probe records, and the chain it leaves behind the endpoint.
LEMMA RecordsParts ==
    ASSUME TypeOK, Serving, NEW c \in Candidates, NEW round \in 1..2, NEW open \in BOOLEAN,
           Records(c, round, open)
    PROVE  \E o \in Row :
            /\ Sound(o) /\ o.nr = NextNr /\ o.at = now /\ o.round = round /\ o.open = open
            /\ o.ep = Serves[c] /\ o.cand = c
            /\ obs' = obs \cup {o}
<1>0. PICK after \in {chain[Serves[c]]} \cup Others(Serves[c]) :
        \E node \in Answers(Serves[c], after) : obs' = obs \cup {Observation(c, node, round, open)}
    BY Zenon DEF Records
<1>1. PICK node \in Answers(Serves[c], after) :
        obs' = obs \cup {Observation(c, node, round, open)}
    BY <1>0
<1>2. PICK o : o = Observation(c, node, round, open)
    OBVIOUS
<1>3. /\ o \in Row /\ Sound(o)
      /\ o.nr = NextNr /\ o.at = now /\ o.round = round /\ o.open = open
      /\ o.ep = Serves[c] /\ o.cand = c
    BY <1>2, ObservationSound
<1> QED  BY <1>1, <1>2, <1>3

LEMMA RecordsChain ==
    ASSUME TypeOK, Serving, NEW c \in Candidates, NEW round, NEW open, Records(c, round, open)
    PROVE  /\ chain' \in [Endpoints -> [is: Chain, height: 0..MaxHeight]]
           /\ \A e \in Endpoints : chain'[e].is \in MayServe[e]
<1>1. PICK after \in {chain[Serves[c]]} \cup Others(Serves[c]) :
        chain' = [chain EXCEPT ![Serves[c]] = after]
    BY Zenon DEF Records
<1>2. Serves[c] \in Endpoints
    BY QueueAssumption
<1>3. after \in [is: Chain, height: 0..MaxHeight] /\ after.is \in MayServe[Serves[c]]
    BY <1>2, AfterParts
<1> QED  BY <1>1, <1>2, <1>3 DEF TypeOK, Serving

LEMMA FirstProbeParts ==
    ASSUME TypeOK, Serving, NEW c \in Candidates, FirstProbe(c)
    PROVE  \E o \in Row :
            /\ Sound(o) /\ o.nr = NextNr /\ o.at = now /\ o.round = 1 /\ o.open = FALSE
            /\ o.ep = Serves[c] /\ o.cand = c
            /\ obs' = obs \cup {o}
<1>1. Records(c, 1, FALSE)
    BY DEF FirstProbe
<1>2. PICK open \in BOOLEAN : open = FALSE
    OBVIOUS
<1>3. Records(c, 1, open)
    BY <1>1, <1>2, Zenon
<1>4. PICK o \in Row :
        /\ Sound(o) /\ o.nr = NextNr /\ o.at = now /\ o.round = 1 /\ o.open = open
        /\ o.ep = Serves[c] /\ o.cand = c
        /\ obs' = obs \cup {o}
    BY <1>3, RecordsParts
<1> QED  BY <1>2, <1>4, Zenon

LEMMA RecheckParts ==
    ASSUME TypeOK, Serving, RowsSound, Recheck
    PROVE  \E first \in due, o \in Row :
            /\ first.cand \in Candidates /\ first.ep = Serves[first.cand]
            /\ Sound(o) /\ o.nr = NextNr /\ o.at = now /\ o.round = 2 /\ o.open = TRUE
            /\ o.ep = first.ep /\ o.cand = first.cand
            /\ obs' = obs \cup {o}
            /\ due' = due \ {first}
            /\ Records(first.cand, 2, TRUE)
            /\ verdict' = [verdict EXCEPT ![first.cand] = Compare(SeenOf(obs', first.ep, TRUE))]
<1>1. PICK first \in due :
        /\ due' = due \ {first}
        /\ Records(first.cand, 2, TRUE)
        /\ verdict' = [verdict EXCEPT ![first.cand] = Compare(SeenOf(obs', first.ep, TRUE))]
    BY Zenon DEF Recheck
<1>2. first.cand \in Candidates /\ first.ep = Serves[first.cand]
    BY DEF TypeOK, RowsSound, Sound, Row
<1>3. PICK open \in BOOLEAN : open = TRUE
    OBVIOUS
<1>4. Records(first.cand, 2, open)
    BY <1>1, <1>3, Zenon
<1>5. PICK o \in Row :
        /\ Sound(o) /\ o.nr = NextNr /\ o.at = now /\ o.round = 2 /\ o.open = open
        /\ o.ep = Serves[first.cand] /\ o.cand = first.cand
        /\ obs' = obs \cup {o}
    BY <1>2, <1>4, RecordsParts
<1>6. o.open = TRUE
    BY <1>3, <1>5, Zenon
<1> QED  BY <1>1, <1>2, <1>5, <1>6

LEMMA VerdictTyped ==
    /\ NoVerdict \in [result: Results, pair: SUBSET Nat]
    /\ \A S : S \subseteq Row => Compare(S) \in [result: Results, pair: SUBSET Nat]
    /\ \A c : obs' \subseteq Row => Rescored(c) \in [result: Results, pair: SUBSET Nat]
<1>1. NoVerdict \in [result: Results, pair: SUBSET Nat]
    BY DEF NoVerdict, Results
<1>2. \A S : S \subseteq Row => Compare(S) \in [result: Results, pair: SUBSET Nat]
    BY CompareType
<1>3. ASSUME NEW c, obs' \subseteq Row
      PROVE  Rescored(c) \in [result: Results, pair: SUBSET Nat]
    <2>1. SeenOf(obs', Serves[c], FALSE) \subseteq Row
        BY <1>3, SeenRows
    <2> QED  BY <1>1, <1>2, <2>1 DEF Rescored
<1> QED  BY <1>1, <1>2, <1>3

LEMMA TypeStep ==
    ASSUME TypeOK, Serving, RowsSound, [Next]_vars
    PROVE  TypeOK'
<1>0. Kept /\ Rest /\ now \in Nat
    BY TypeParts, QueueAssumption DEF Rest
<1> SUFFICES Kept' /\ Rest'
    BY TypeParts, PTL
<1>1. CASE UNCHANGED vars
    BY <1>0, <1>1 DEF vars, Kept, Rest, NextNr, Newest, Numbered, Distinct, InOrder
<1>2. CASE Tick
    <2>1. now' \in 0..MaxTime /\ now <= now'
        BY <1>0, <1>2, QueueAssumption DEF Tick, Rest
    <2>2. NextNr' = NextNr /\ obs' = obs
        BY <1>2 DEF Tick, NextNr, Newest
    <2>3. \A o \in obs : o.at <= now'
        BY <1>0, <2>1 DEF Kept, Row
    <2>4. Kept'
        BY <1>0, <2>2, <2>3 DEF Kept, Numbered, Distinct, InOrder
    <2> QED  BY <1>0, <1>2, <2>1, <2>4 DEF Tick, Rest
<1>3. CASE Chains
    <2>1. UNCHANGED <<now, family, obs, due, checking, verdict, stands, faults>>
        BY <1>3 DEF Chains, Advance, Replace
    <2>2. chain' \in [Endpoints -> [is: Chain, height: 0..MaxHeight]]
        <3>1. ASSUME NEW e \in Endpoints, Advance(e)
              PROVE  chain' \in [Endpoints -> [is: Chain, height: 0..MaxHeight]]
            BY <1>0, <3>1, QueueAssumption DEF Advance, Rest
        <3>2. ASSUME NEW e \in Endpoints, Replace(e)
              PROVE  chain' \in [Endpoints -> [is: Chain, height: 0..MaxHeight]]
            <4>1. PICK other \in Others(e) : chain' = [chain EXCEPT ![e] = other]
                BY <3>2 DEF Replace
            <4>2. other \in [is: Chain, height: 0..MaxHeight]
                BY AfterParts
            <4> QED  BY <1>0, <4>1, <4>2 DEF Rest
        <3> QED  BY <1>3, <3>1, <3>2 DEF Chains
    <2>3. Kept'
        BY <1>0, <2>1 DEF Kept, NextNr, Newest, Numbered, Distinct, InOrder
    <2> QED  BY <1>0, <2>1, <2>2, <2>3 DEF Rest
<1>4. ASSUME NEW c \in Candidates, FirstProbe(c) PROVE Kept' /\ Rest'
    <2>1. PICK o \in Row :
            /\ o.nr = NextNr /\ o.at = now
            /\ obs' = obs \cup {o}
        BY <1>4, FirstProbeParts
    <2>2. UNCHANGED <<now, family, due, checking, faults>> /\ Records(c, 1, FALSE)
        BY <1>4 DEF FirstProbe
    <2>3. Kept'
        BY <1>0, <2>1, <2>2, RecordKept
    <2>4. Rescored(c) \in [result: Results, pair: SUBSET Nat]
        BY <2>3, VerdictTyped DEF Kept
    <2>5. {verdict', stands'} \subseteq [Candidates -> [result: Results, pair: SUBSET Nat]]
        <3>1. PICK v : v = Rescored(c) /\ verdict' = [verdict EXCEPT ![c] = v]
                        /\ stands' = [stands EXCEPT ![c] = v]
            BY <1>4 DEF FirstProbe
        <3> QED  BY <1>0, <2>4, <3>1 DEF Rest
    <2>6. chain' \in [Endpoints -> [is: Chain, height: 0..MaxHeight]]
        BY <2>2, RecordsChain
    <2> QED  BY <1>0, <2>1, <2>2, <2>3, <2>5, <2>6 DEF Rest
<1>5. CASE RecheckStarts
    <2>1. Kept'
        BY <1>0, <1>5 DEF RecheckStarts, Kept, NextNr, Newest, Numbered, Distinct, InOrder
    <2>2. due' \subseteq obs' /\ Cardinality(due') <= Limit
        BY <1>0, <1>5, DueLimited DEF RecheckStarts
    <2> QED  BY <1>0, <1>5, <2>1, <2>2 DEF RecheckStarts, Rest
<1>6. CASE Recheck
    <2>1. PICK first \in due, o \in Row :
            /\ first.cand \in Candidates
            /\ o.nr = NextNr /\ o.at = now
            /\ obs' = obs \cup {o}
            /\ due' = due \ {first}
            /\ Records(first.cand, 2, TRUE)
            /\ verdict' = [verdict EXCEPT ![first.cand] = Compare(SeenOf(obs', first.ep, TRUE))]
        BY <1>6, RecheckParts
    <2>2. UNCHANGED <<now, family, checking, stands, faults>> /\ checking
        BY <1>6 DEF Recheck
    <2>3. Kept'
        BY <1>0, <2>1, <2>2, RecordKept
    <2>4. SeenOf(obs', first.ep, TRUE) \subseteq Row
        BY <2>3, SeenRows DEF Kept
    <2>5. verdict' \in [Candidates -> [result: Results, pair: SUBSET Nat]]
        BY <1>0, <2>1, <2>4, VerdictTyped DEF Rest
    <2>7. chain' \in [Endpoints -> [is: Chain, height: 0..MaxHeight]]
        BY <2>1, RecordsChain
    <2>6. due' \subseteq obs' /\ Cardinality(due') <= Limit
        <3>1. IsFiniteSet(due) /\ Cardinality(due) \in Nat /\ due \subseteq obs
            BY <1>0, FS_Subset, FS_CardinalityType DEF Kept, Rest
        <3>2. Cardinality(due') <= Cardinality(due) /\ Cardinality(due') \in Nat
            BY <2>1, <3>1, FS_Subset, FS_CardinalityType
        <3> QED  BY <1>0, <2>1, <3>1, <3>2, QueueAssumption DEF Rest
    <2> QED  BY <1>0, <2>2, <2>3, <2>5, <2>6, <2>7 DEF Rest
<1>7. CASE RecheckCommits
    <2>1. Kept'
        BY <1>0, <1>7, CommitKept DEF RecheckCommits, Closed
    <2> QED  BY <1>0, <1>7, <2>1 DEF RecheckCommits, Rest
<1>8. CASE RecheckFails
    <2>1. Kept'
        BY <1>0, <1>8, LostKept DEF RecheckFails
    <2>2. Cardinality(due') <= Limit /\ due' = {}
        BY <1>8, FS_EmptySet, QueueAssumption DEF RecheckFails
    <2>3. {verdict', stands'} \subseteq [Candidates -> [result: Results, pair: SUBSET Nat]]
        BY <1>0, <1>8 DEF RecheckFails, Rest
    <2>4. faults' \in 0..MaxFaults
        BY <1>0, <1>8, QueueAssumption DEF RecheckFails, Rest
    <2> QED  BY <1>0, <1>8, <2>1, <2>2, <2>3, <2>4 DEF RecheckFails, Rest
<1> QED  BY <1>1, <1>2, <1>3, <1>4, <1>5, <1>6, <1>7, <1>8 DEF Next

-----------------------------------------------------------------------------
(* The invariant is inductive *)

LEMMA InitIInv == ASSUME Init PROVE IInv
<1>1. Cardinality({}) = 0 /\ IsFiniteSet({})
    BY FS_EmptySet
<1>2. chain \in [Endpoints -> [is: Chain, height: 0..MaxHeight]] /\ Serving
    <2>1. family \in [Endpoints -> Families] /\ \A e \in Endpoints : family[e] \in FamilyOf[e]
        BY DEF Init
    <2>2. /\ chain \in [Endpoints -> [is: Chain, height: {0}]]
          /\ \A e \in Endpoints : chain[e].is \in MayServe[e]
        BY DEF Init
    <2> QED  BY <2>1, <2>2, QueueAssumption DEF Serving
<1>3. TypeOK
    <2>1. Kept
        BY <1>1 DEF Init, Kept, NextNr, Numbered, Distinct, InOrder
    <2>2. {verdict, stands} \subseteq [Candidates -> [result: Results, pair: SUBSET Nat]]
        BY VerdictTyped DEF Init
    <2>3. now \in 0..MaxTime /\ faults \in 0..MaxFaults /\ family \in [Endpoints -> Families]
        BY QueueAssumption DEF Init
    <2>4. due \subseteq obs /\ Cardinality(due) <= Limit /\ (due # {} => checking)
        BY <1>1, QueueAssumption DEF Init
    <2>5. checking \in BOOLEAN
        BY DEF Init
    <2>6. Rest
        BY <1>2, <2>2, <2>3, <2>4, <2>5 DEF Rest
    <2> QED  BY <2>1, <2>6, TypeParts
<1>4. RowsSound /\ QueueSound
    BY DEF Init, RowsSound, QueueSound, OneRecheck
<1> QED  BY <1>2, <1>3, <1>4 DEF IInv

LEMMA ServingStep ==
    ASSUME TypeOK, Serving, [Next]_vars
    PROVE  Serving'
<1>1. CASE UNCHANGED <<chain, family>>
    BY <1>1 DEF Serving
<1>2. ASSUME NEW e \in Endpoints, Advance(e) PROVE Serving'
    BY <1>2 DEF Advance, Serving, TypeOK
<1>3. ASSUME NEW e \in Endpoints, Replace(e) PROVE Serving'
    <2>1. PICK other \in Others(e) : chain' = [chain EXCEPT ![e] = other]
        BY <1>3 DEF Replace
    <2>2. other.is \in MayServe[e]
        BY AfterParts
    <2> QED  BY <1>3, <2>1, <2>2 DEF Replace, Serving, TypeOK
<1>r. ASSUME NEW c \in Candidates, NEW round, NEW open, Records(c, round, open), family' = family
      PROVE  Serving'
    BY <1>r, RecordsChain DEF Serving
<1>4. ASSUME NEW c \in Candidates, FirstProbe(c) PROVE Serving'
    BY <1>r, <1>4 DEF FirstProbe
<1>5. ASSUME Tick \/ RecheckStarts PROVE UNCHANGED <<chain, family>>
    BY <1>5 DEF Tick, RecheckStarts
<1>6. ASSUME RecheckCommits \/ RecheckFails \/ UNCHANGED vars PROVE UNCHANGED <<chain, family>>
    BY <1>6 DEF RecheckCommits, RecheckFails, vars
<1>7. CASE Chains
    BY <1>2, <1>3, <1>7 DEF Chains
<1>8. CASE \E c \in Candidates : FirstProbe(c)
    BY <1>4, <1>8
<1>9. CASE Tick \/ RecheckStarts
    BY <1>1, <1>5, <1>9
<1>11. CASE Recheck
    <2>1. PICK first \in due : Records(first.cand, 2, TRUE)
        BY <1>11, Zenon DEF Recheck
    <2>2. first.cand \in Candidates /\ family' = family
        BY <1>11 DEF Recheck, TypeOK, Row
    <2> QED  BY <1>r, <2>1, <2>2
<1>10. CASE RecheckCommits \/ RecheckFails \/ UNCHANGED vars
    BY <1>1, <1>6, <1>10
<1> QED
    BY <1>7, <1>8, <1>9, <1>10, <1>11, Zenon DEF Next

LEMMA ClosedSound ==
    ASSUME NEW o \in Row, Sound(o)
    PROVE  Sound(Closed(o))
<1> DEFINE q == Closed(o)
<1>1. /\ q.cand = o.cand /\ q.ep = o.ep /\ q.ok = o.ok /\ q.round = o.round
      /\ q.served = o.served /\ q.fingerprint = o.fingerprint
    BY ClosedRow
<1> HIDE DEF q
<1>2. /\ q.ep = Serves[q.cand]
      /\ q.served \in MayServe[q.ep]
      /\ FamilyOf[q.ep] \subseteq Hashed => q.fingerprint[2] \in {Missing, q.served.genesis}
    BY <1>1 DEF Sound
<1>3. q.ok /\ q.round = 1 => Published[q.cand] \in {NoId, q.fingerprint[1]}
    BY <1>1, Zenon DEF Sound
<1>4. Sound(q)
    BY <1>2, <1>3, Zenon DEF Sound
<1> QED  BY <1>4 DEF q

LEMMA RowsStep ==
    ASSUME TypeOK, Serving, RowsSound, [Next]_vars
    PROVE  RowsSound'
<1>1. CASE UNCHANGED <<obs, checking>>
    BY <1>1 DEF RowsSound
<1>2. ASSUME NEW c \in Candidates, FirstProbe(c) PROVE RowsSound'
    <2>1. PICK o \in Row : Sound(o) /\ o.open = FALSE /\ obs' = obs \cup {o}
        BY <1>2, FirstProbeParts
    <2> QED  BY <1>2, <2>1 DEF FirstProbe, RowsSound
<1>3. CASE RecheckStarts
    BY <1>3 DEF RecheckStarts, RowsSound
<1>4. CASE Recheck
    <2>1. PICK o \in Row : Sound(o) /\ o.round = 2 /\ obs' = obs \cup {o}
        BY <1>4, RecheckParts
    <2> QED  BY <1>4, <2>1 DEF Recheck, RowsSound
<1>5. CASE RecheckCommits
    <2>1. obs' = {Closed(o) : o \in obs} /\ obs \subseteq Row
        BY <1>5 DEF RecheckCommits, Closed, TypeOK
    <2>2. ASSUME NEW q \in obs' PROVE Sound(q) /\ ~ q.open
        <3>1. PICK o \in obs : q = Closed(o)
            BY <2>1
        <3> QED  BY <2>1, <3>1, ClosedSound, ClosedRow DEF RowsSound
    <2> QED  BY <2>2 DEF RowsSound
<1>6. CASE RecheckFails
    BY <1>6 DEF RecheckFails, RowsSound
<1> QED
    BY <1>1, <1>2, <1>3, <1>4, <1>5, <1>6 DEF Next, vars, Chains, Tick, Advance, Replace

\* An endpoint is due while it has one observation, and that is the first.
LEMMA DueSound ==
    ASSUME IInv, ~ checking
    PROVE  /\ \A o \in Due : o.round = 1 /\ \A q \in obs : q.ep = o.ep => q.round = 1
           /\ \A o, q \in Due : o.ep = q.ep => o = q
<1>1. \A o \in obs : ~ o.open
    BY DEF IInv, RowsSound
<1>2. ASSUME NEW o \in Due
      PROVE  o \in obs /\ o.round = 1 /\ \A q \in obs : q.ep = o.ep => q = o
    <2>1. o \in obs /\ o.round = 1 /\ NeedsSecond(o)
        BY DEF Due, First, OldEnough
    <2> QED  BY <1>1, <2>1 DEF NeedsSecond, Two, SeenOf
<1>3. \A o \in Due : o.round = 1 /\ \A q \in obs : q.ep = o.ep => q.round = 1
    BY <1>2
<1>4. \A o, q \in Due : o.ep = q.ep => o = q
    BY <1>2
<1> QED  BY <1>3, <1>4

LEMMA QueueStep ==
    ASSUME IInv, [Next]_vars
    PROVE  QueueSound'
<1>0. TypeOK /\ Serving /\ RowsSound /\ QueueSound /\ obs \subseteq Row /\ due \subseteq obs
    BY DEF IInv, TypeOK
<1>1. CASE UNCHANGED <<obs, due>>
    BY <1>0, <1>1 DEF QueueSound, OneRecheck
<1>2. ASSUME NEW c \in Candidates, FirstProbe(c) PROVE QueueSound'
    <2>1. PICK o \in Row : o.round = 1 /\ obs' = obs \cup {o}
        BY <1>0, <1>2, FirstProbeParts
    <2>2. due' = due
        BY <1>2 DEF FirstProbe
    <2>3. OneRecheck'
        BY <1>0, <2>1 DEF QueueSound, OneRecheck
    <2>4. \A q \in obs' : q.round = 2 => \E p \in obs' : p.round = 1 /\ p.ep = q.ep
        BY <1>0, <2>1 DEF QueueSound
    <2>5. \A p \in due' : p.round = 1 /\ \A q \in obs' : q.ep = p.ep => q.round = 1
        BY <1>0, <2>1, <2>2 DEF QueueSound
    <2>6. \A p, q \in due' : p.ep = q.ep => p = q
        BY <1>0, <2>2 DEF QueueSound
    <2> QED  BY <2>3, <2>4, <2>5, <2>6 DEF QueueSound
<1>3. CASE RecheckStarts
    BY <1>0, <1>3, DueSound DEF RecheckStarts, QueueSound, OneRecheck
<1>4. CASE Recheck
    <2>1. PICK first \in due, o \in Row :
            /\ o.round = 2 /\ o.ep = first.ep
            /\ obs' = obs \cup {o} /\ due' = due \ {first}
        BY <1>0, <1>4, RecheckParts
    <2>2. \A q \in obs : q.ep = first.ep => q.round = 1
        BY <1>0 DEF QueueSound
    <2>3. OneRecheck'
        BY <1>0, <2>1, <2>2 DEF QueueSound, OneRecheck
    <2>4. \A q \in obs' : q.round = 2 => \E p \in obs' : p.round = 1 /\ p.ep = q.ep
        BY <1>0, <2>1 DEF QueueSound
    <2>5. \A p \in due' : p.ep # first.ep
        BY <1>0, <2>1 DEF QueueSound
    <2>6. \A p \in due' : p.round = 1 /\ \A q \in obs' : q.ep = p.ep => q.round = 1
        BY <1>0, <2>1, <2>5 DEF QueueSound
    <2>7. \A p, q \in due' : p.ep = q.ep => p = q
        BY <1>0, <2>1 DEF QueueSound
    <2> QED  BY <2>3, <2>4, <2>6, <2>7 DEF QueueSound
<1>5. CASE RecheckCommits
    <2>1. obs' = {Closed(o) : o \in obs} /\ due' = {}
        BY <1>5 DEF RecheckCommits, Closed
    <2>2. \A q \in obs' : \E o \in obs : q = Closed(o) /\ q.round = o.round /\ q.ep = o.ep
        <3>1. TAKE q \in obs'
        <3>2. PICK o \in obs : q = Closed(o)
            BY <2>1
        <3> QED  BY <1>0, <3>2, ClosedRow
    <2>3. OneRecheck'
        BY <1>0, <2>2 DEF QueueSound, OneRecheck
    <2>4. \A q \in obs' : q.round = 2 => \E p \in obs' : p.round = 1 /\ p.ep = q.ep
        <3>1. TAKE q \in obs'
        <3>2. PICK o \in obs : q.round = o.round /\ q.ep = o.ep
            BY <2>2
        <3>3. HAVE q.round = 2
        <3>4. PICK p \in obs : p.round = 1 /\ p.ep = o.ep
            BY <1>0, <3>2, <3>3 DEF QueueSound
        <3>5. Closed(p) \in obs' /\ Closed(p).round = 1 /\ Closed(p).ep = p.ep
            BY <1>0, <2>1, <3>4, ClosedRow
        <3> QED  BY <3>2, <3>4, <3>5
    <2> QED  BY <2>1, <2>3, <2>4 DEF QueueSound
<1>6. CASE RecheckFails
    <2>1. \A o \in obs : o.round = 1 => ~ o.open
        BY <1>0 DEF RowsSound
    <2> QED  BY <1>0, <1>6, <2>1 DEF RecheckFails, QueueSound, OneRecheck
<1> QED
    BY <1>1, <1>2, <1>3, <1>4, <1>5, <1>6 DEF Next, vars, Chains, Tick, Advance, Replace

THEOREM QueueInvariant == Spec => []IInv
<1>1. IInv /\ [Next]_vars => IInv'
    BY TypeStep, ServingStep, RowsStep, QueueStep DEF IInv
<1> QED  BY <1>1, InitIInv, PTL DEF Spec

\* TypeOK: whatever the endpoints answer and however sessions end, rows are numbered
\* and dated in one order, and the queue is no longer than its limit.
THEOREM TypeCorrect == Spec => []TypeOK
<1>1. IInv => TypeOK
    BY DEF IInv
<1> QED  BY <1>1, QueueInvariant, PTL

\* OneRecheck: an endpoint has one second observation at most.
THEOREM RecheckedOnce == Spec => []OneRecheck
<1>1. IInv => OneRecheck
    BY DEF IInv, QueueSound
<1> QED  BY <1>1, QueueInvariant, PTL

-----------------------------------------------------------------------------
(* Live verdicts *)

LEMMA LiveOf ==
    ASSUME NEW rows, rows \subseteq Row, IsFiniteSet(rows),
           NEW b \in Nat, Numbered(rows, b), Distinct(rows),
           NEW e, NEW own, NEW S, S = SeenOf(rows, e, own), Compare(S).result = "live"
    PROVE  \E older, newer \in rows :
            /\ Compare(S).pair = {older.nr, newer.nr}
            /\ older.nr < newer.nr
            /\ older.ep = e /\ newer.ep = e
            /\ older.ok /\ newer.ok
            /\ older.height < newer.height
            /\ older.fingerprint = newer.fingerprint
            /\ older.open \/ newer.open => own
<1>1. S \subseteq rows /\ \A o \in S : o.ep = e /\ (o.open => own)
    BY DEF SeenOf
<1>2. S \subseteq Row /\ IsFiniteSet(S) /\ Numbered(S, b) /\ Distinct(S)
    BY <1>1, FS_Subset DEF Numbered, Distinct
<1>3. PICK older \in S, newer \in S :
        /\ Compare(S).pair = {older.nr, newer.nr}
        /\ older.nr < newer.nr
        /\ older.ok /\ newer.ok
        /\ older.height < newer.height
        /\ older.fingerprint = newer.fingerprint
    BY <1>2, CompareLive
<1> QED  BY <1>1, <1>3, Zenon

LEMMA VerdictStep ==
    ASSUME IInv, IInv', VerdictsProven, [Next]_vars
    PROVE  VerdictsProven'
<1>0. /\ TypeOK /\ Serving /\ RowsSound /\ TypeOK'
      /\ obs \subseteq Row
      /\ {verdict, stands} \subseteq [Candidates -> [result: Results, pair: SUBSET Nat]]
    BY DEF IInv, TypeOK
<1>k. /\ obs' \subseteq Row /\ IsFiniteSet(obs') /\ NextNr' \in Nat
      /\ Numbered(obs', NextNr') /\ Distinct(obs')
    <2>1. Kept'
        BY <1>0, TypeParts, PTL
    <2> QED  BY <2>1 DEF Kept, Numbered, Distinct
<1>1. CASE UNCHANGED <<obs, verdict, stands>>
    BY <1>1 DEF VerdictsProven
<1>2. ASSUME NEW c \in Candidates, FirstProbe(c) PROVE VerdictsProven'
    <2>1. obs \subseteq obs'
        BY <1>0, <1>2, FirstProbeParts
    <2>2. PICK v : /\ v = Rescored(c)
                   /\ verdict' = [verdict EXCEPT ![c] = v]
                   /\ stands' = [stands EXCEPT ![c] = v]
        BY <1>2 DEF FirstProbe
    <2>3. ASSUME v.result = "live"
          PROVE  \E older, newer \in obs' :
                    ~ older.open /\ ~ newer.open /\ Proven(v, Serves[c], older, newer)
        <3>1. PICK S, own : own = FALSE /\ S = SeenOf(obs', Serves[c], own)
            OBVIOUS
        <3>2. v = Compare(S)
            BY <2>2, <2>3, <3>1 DEF Rescored, NoVerdict
        <3>3. PICK older \in obs', newer \in obs' :
                Proven(v, Serves[c], older, newer) /\ (older.open \/ newer.open => own)
            <4>1. Compare(S).result = "live"
                BY <2>3, <3>2
            <4> QED  BY <1>k, <3>1, <3>2, <4>1, LiveOf DEF Proven
        <3> QED  BY <3>1, <3>3
    <2>4. ASSUME NEW d \in Candidates
          PROVE  /\ d = c => verdict'[d] = v /\ stands'[d] = v
                 /\ d # c => verdict'[d] = verdict[d] /\ stands'[d] = stands[d]
        BY <1>0, <2>2
    <2> QED  BY <2>1, <2>3, <2>4 DEF VerdictsProven
<1>3. CASE Recheck
    <2>1. PICK first \in due, o \in Row :
            /\ first.cand \in Candidates /\ first.ep = Serves[first.cand]
            /\ obs' = obs \cup {o}
            /\ verdict' = [verdict EXCEPT ![first.cand] = Compare(SeenOf(obs', first.ep, TRUE))]
        BY <1>0, <1>3, RecheckParts
    <2>2. stands' = stands
        BY <1>3 DEF Recheck
    <2>3. PICK c, v, S, own :
            c = first.cand /\ own = TRUE /\ S = SeenOf(obs', Serves[c], own) /\ v = Compare(S)
        OBVIOUS
    <2>4. ASSUME v.result = "live"
          PROVE  \E older, newer \in obs' : Proven(v, Serves[c], older, newer)
        <3>1. S = SeenOf(obs', Serves[c], own) /\ v = Compare(S) /\ Compare(S).result = "live"
            BY <2>3, <2>4
        <3> QED  BY <1>k, <3>1, LiveOf DEF Proven
    <2>5. c \in Candidates /\ verdict' = [verdict EXCEPT ![c] = v]
        BY <2>1, <2>3
    <2>6. ASSUME NEW d \in Candidates
          PROVE  /\ d = c => verdict'[d] = v
                 /\ d # c => verdict'[d] = verdict[d]
        <3>1. verdict \in [Candidates -> [result: Results, pair: SUBSET Nat]]
            BY <1>0
        <3>2. d \in Candidates /\ DOMAIN verdict = Candidates
            BY <2>6, <3>1
        <3> QED  BY <2>5, <3>2, Zenon
    <2>7. ASSUME NEW d \in Candidates
          PROVE  /\ verdict'[d].result = "live" =>
                    \E older, newer \in obs' : Proven(verdict'[d], Serves[d], older, newer)
                 /\ stands'[d].result = "live" =>
                    \E older, newer \in obs' :
                        ~ older.open /\ ~ newer.open /\ Proven(stands'[d], Serves[d], older, newer)
        <3>1. obs \subseteq obs'
            BY <2>1
        <3>2. CASE d = c
            BY <2>2, <2>4, <2>6, <3>1, <3>2 DEF VerdictsProven
        <3>3. CASE d # c
            BY <2>2, <2>6, <3>1, <3>3 DEF VerdictsProven
        <3> QED  BY <3>2, <3>3
    <2> QED  BY <2>7 DEF VerdictsProven
<1>4. CASE RecheckCommits
    <2>1. obs' = {Closed(o) : o \in obs} /\ verdict' = verdict /\ stands' = verdict
        BY <1>4 DEF RecheckCommits, Closed
    <2>2. ASSUME NEW c \in Candidates, verdict[c].result = "live"
          PROVE  \E older, newer \in obs' :
                    ~ older.open /\ ~ newer.open /\ Proven(verdict[c], Serves[c], older, newer)
        <3>1. PICK older \in obs, newer \in obs : Proven(verdict[c], Serves[c], older, newer)
            BY <2>2 DEF VerdictsProven
        <3>2. Closed(older) \in obs' /\ Closed(newer) \in obs'
            BY <2>1
        <3>3. ASSUME NEW o \in {older, newer}
              PROVE  /\ Closed(o).nr = o.nr /\ Closed(o).ep = o.ep /\ Closed(o).ok = o.ok
                     /\ Closed(o).height = o.height /\ Closed(o).fingerprint = o.fingerprint
                     /\ Closed(o).open = FALSE
            <4>1. o \in Row
                BY <1>0, <3>3
            <4> QED  BY <4>1, ClosedRow, Zenon
        <3>4. Proven(verdict[c], Serves[c], Closed(older), Closed(newer))
            BY <3>1, <3>3, Zenon DEF Proven
        <3>5. ~ Closed(older).open /\ ~ Closed(newer).open
            BY <3>3
        <3> QED  BY <3>2, <3>4, <3>5
    <2> QED  BY <2>1, <2>2 DEF VerdictsProven
<1>5. CASE RecheckFails
    <2>1. verdict' = stands /\ stands' = stands /\ \A o \in obs : ~ o.open => o \in obs'
        BY <1>5 DEF RecheckFails
    <2> QED  BY <2>1 DEF VerdictsProven
<1> QED
    BY <1>1, <1>2, <1>3, <1>4, <1>5
    DEF Next, vars, Chains, Tick, Advance, Replace, RecheckStarts

LEMMA LiveIsProven ==
    ASSUME IInv, VerdictsProven, ToldApart, IdsAlike
    PROVE  LiveProven
<1> SUFFICES ASSUME NEW c \in Candidates, verdict[c].result = "live"
             PROVE  \E older, newer \in obs :
                    /\ verdict[c].pair = {older.nr, newer.nr}
                    /\ older.nr < newer.nr
                    /\ older.ep = Serves[c] /\ newer.ep = Serves[c]
                    /\ older.height < newer.height
                    /\ older.fingerprint = newer.fingerprint
                    /\ Published[older.cand] # NoId => Reported(older.fingerprint)
                    /\ older.served = newer.served \/ older.fingerprint[2] = Missing
    BY DEF LiveProven
<1>1. PICK older \in obs, newer \in obs : Proven(verdict[c], Serves[c], older, newer)
    BY DEF VerdictsProven
<1>2. /\ Sound(older) /\ Sound(newer) /\ older \in Row /\ newer \in Row
      /\ older.cand \in Candidates /\ newer.cand \in Candidates /\ older # newer
      /\ older.round \in {1, 2} /\ newer.round \in {1, 2}
    BY <1>1 DEF IInv, RowsSound, TypeOK, Row, Proven
<1>3. Published[older.cand] # NoId => Reported(older.fingerprint)
    <2>1. HAVE Published[older.cand] # NoId
    <2>2. Published[newer.cand] # NoId
        BY <1>1, <1>2, <2>1 DEF Sound, Proven, IdsAlike
    <2>3. Published[older.cand] \in Ids /\ Published[newer.cand] \in Ids
        BY <1>2, <2>1, <2>2, QueueAssumption
    <2>4. older.round = 1 \/ newer.round = 1
        BY <1>1, <1>2 DEF IInv, QueueSound, OneRecheck, Proven
    <2>5. CASE older.round = 1
        BY <1>1, <1>2, <2>1, <2>3, <2>5 DEF Sound, Proven, Reported
    <2>6. CASE newer.round = 1
        BY <1>1, <1>2, <2>2, <2>3, <2>6 DEF Sound, Proven, Reported
    <2> QED  BY <2>4, <2>5, <2>6
<1>4. older.served = newer.served \/ older.fingerprint[2] = Missing
    <2>1. SUFFICES ASSUME older.served # newer.served PROVE older.fingerprint[2] = Missing
        OBVIOUS
    <2>2. /\ Serves[c] \in Endpoints /\ older.ep = Serves[c] /\ newer.ep = Serves[c]
          /\ older.served \in MayServe[Serves[c]] /\ newer.served \in MayServe[Serves[c]]
          /\ older.fingerprint = newer.fingerprint
        BY <1>1, <1>2, QueueAssumption DEF Sound, Proven
    <2>3. /\ older.served.genesis # newer.served.genesis
          /\ FamilyOf[Serves[c]] \subseteq Hashed
        BY <2>1, <2>2 DEF ToldApart, Hashed
    <2> QED  BY <1>2, <2>2, <2>3 DEF Sound
<1> QED  BY <1>1, <1>3, <1>4 DEF Proven

\* LiveProven: where the chains behind an endpoint are told apart by a genesis that
\* its family reads, and its candidates publish a chain id all or none, a candidate
\* is live only on two observations of one network at growing heights.
THEOREM LiveIsEarned ==
    ASSUME ToldApart, IdsAlike
    PROVE  Spec => []LiveProven
<1>1. Init => VerdictsProven
    BY DEF Init, VerdictsProven, NoVerdict
<1>2. IInv /\ IInv' /\ VerdictsProven /\ [Next]_vars => VerdictsProven'
    BY VerdictStep
<1>3. Spec => []VerdictsProven
    BY <1>1, <1>2, QueueInvariant, PTL DEF Spec
<1>4. IInv /\ VerdictsProven => LiveProven
    BY LiveIsProven
<1> QED  BY <1>3, <1>4, QueueInvariant, PTL
=============================================================================
