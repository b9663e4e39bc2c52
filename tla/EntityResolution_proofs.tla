---------------------- MODULE EntityResolution_proofs ----------------------
(***************************************************************************)
(* Proofs about EntityResolution, for every set of observations: types,    *)
(* the incarnations of a network, why an observation is linked to a        *)
(* candidate, and what is put before an analyst when chain IDs contradict  *)
(* each other.                                                             *)
(***************************************************************************)
EXTENDS EntityResolution, TLAPS, WellFoundedInduction

-----------------------------------------------------------------------------
(* The identifiers that the resolver computes *)

LEMMA MinIsMember ==
    ASSUME NEW S, S \subseteq Nat, S # {}
    PROVE  Min(S) \in S
<1>1. PICK x \in S : \A y \in S : ~ (<<y, x>> \in OpToRel(<, Nat))
  BY NatLessThanWellFounded, WFMin
<1>2. \A y \in S : ~ (y < x)
  BY <1>1, Zenon DEF OpToRel
<1>3. \A y \in S : x =< y
  BY <1>2
<1> QED
  BY <1>3 DEF Min

LEMMA CandidateParts ==
    ASSUME NEW n \in NetIds
    PROVE  CandOf(n) \in Candidates
BY DEF CandOf, NetIds

LEMMA OrgKeyType ==
    ASSUME NEW obs \in Observations
    PROVE  OrgKey(obs) \in OrgIds
<1>1. obs \in Observation
  BY ObservationAssumption
<1>2. CASE obs.domains # <<>>
  <2>1. /\ obs.domains \in Seq(Domains)
        /\ Range(obs.domains) # {}
        /\ Range(obs.domains) \subseteq Domains
    BY <1>1, <1>2 DEF Observation, Range
  <2>2. Min(Range(obs.domains)) \in Domains
    BY <2>1, MinIsMember, IdentifierAssumption
  <2> QED
    BY <1>2, <2>2 DEF OrgKey, OrgIds
<1>3. CASE obs.domains = <<>> /\ obs.githubs # <<>>
  <2>1. /\ obs.githubs \in Seq(Githubs)
        /\ Range(obs.githubs) # {}
        /\ Range(obs.githubs) \subseteq Githubs
    BY <1>1, <1>3 DEF Observation, Range
  <2>2. Min(Range(obs.githubs)) \in Githubs
    BY <2>1, MinIsMember, IdentifierAssumption
  <2> QED
    BY <1>3, <2>2 DEF OrgKey, OrgIds
<1>4. CASE obs.domains = <<>> /\ obs.githubs = <<>>
  BY <1>1, <1>4 DEF Observation, OrgKey, OrgIds
<1> QED
  BY <1>2, <1>3, <1>4

LEMMA ResolvedOrgsType ==
    ASSUME TypeOK, NEW obs \in Observations
    PROVE  ResolvedOrgs(obs) \subseteq OrgIds
<1>1. FirstOwners(obs.domains, orgDomains) \subseteq orgs
  BY DEF FirstOwners
<1>2. FirstOwners(obs.githubs, orgGithubs) \subseteq orgs
  BY DEF FirstOwners
<1> QED
  BY <1>1, <1>2, OrgKeyType DEF ResolvedOrgs, TypeOK

LEMMA ResolvedCandidatesType ==
    ASSUME TypeOK, NEW obs \in Observations, NEW org \in OrgIds
    PROVE  ResolvedCandidates(obs, org) \subseteq Candidates
<1>1. FindAllByCaip2(obs.chain) \subseteq cands /\ FindByGenesis(obs.chain, obs.genesis) \subseteq cands
  BY DEF FindAllByCaip2, FindByGenesis
<1>2. <<org, obs.slug>> \in Candidates
  BY ObservationAssumption DEF Observation, Candidates
<1> QED
  BY <1>1, <1>2 DEF ResolvedCandidates, SameOrgMatches, TypeOK

-----------------------------------------------------------------------------
(* Review tasks *)

\* Opening tasks keeps the rows well formed and every decision raised before.
LEMMA RowOfKey ==
    ASSUME NEW key \in TaskKeys, NEW s
    PROVE  /\ KeyOfRow(Row(key, s)) = key
           /\ Row(key, s)[4] = s
BY DEF TaskKeys, Row, KeyOfRow

TasksOK == \A row \in tasks : /\ KeyOfRow(row) \in TaskKeys
                              /\ row = Row(KeyOfRow(row), row[4])
                              /\ row[4] \in {"open", "resolved"}

LEMMA OpenTasksKeepsRows ==
    ASSUME TasksOK, NEW keys \in SUBSET TaskKeys, OpenTasks(keys)
    PROVE  TasksOK'
BY RowOfKey DEF TasksOK, OpenTasks

LEMMA OpenTasksRaises ==
    ASSUME NEW keys \in SUBSET TaskKeys, OpenTasks(keys)
    PROVE  /\ \A key \in keys : Raised(key)'
           /\ \A key : Raised(key) => Raised(key)'
BY DEF OpenTasks, Raised

LEMMA ResolveTaskKeeps ==
    ASSUME TasksOK, NEW row \in tasks, ResolveTask(row)
    PROVE  /\ TasksOK'
           /\ \A key \in TaskKeys : Raised(key) => Raised(key)'
<1>1. KeyOfRow(row) \in TaskKeys /\ row = Row(KeyOfRow(row), "open")
  BY DEF ResolveTask, Resolvable, TasksOK
<1>2. TasksOK'
  BY <1>1, RowOfKey DEF ResolveTask, TasksOK
<1>3. ASSUME NEW key \in TaskKeys, Raised(key)
      PROVE  Raised(key)'
  <2>1. PICK s \in {"open", "resolved"} : Row(key, s) \in tasks
    BY <1>3 DEF Raised
  <2>2. CASE Row(key, s) = row
    <3>1. key = KeyOfRow(row)
      BY <1>1, <2>2, RowOfKey
    <3> QED
      BY <3>1 DEF ResolveTask, Raised
  <2>3. CASE Row(key, s) # row
    BY <2>1, <2>3 DEF ResolveTask, Raised
  <2> QED
    BY <2>2, <2>3
<1> QED
  BY <1>2, <1>3
-----------------------------------------------------------------------------
(* Type correctness *)

LEMMA KeysTyped ==
    ASSUME TypeOK, NEW obs \in Observations, NEW org \in OrgIds, NEW cand \in Candidates
    PROVE  /\ CollisionKeys(obs, org) \subseteq TaskKeys
           /\ Collisions(obs, org) \subseteq Candidates
           /\ WeakNameKeys(obs, org, cand) \subseteq TaskKeys
           /\ ChainChangedKeys(<<cand, obs.env>>, obs.chain) \subseteq TaskKeys
<1>1. Collisions(obs, org) \subseteq Candidates
  BY DEF Collisions, FindAllByCaip2, TypeOK
<1>2. <<org, obs.slug>> \in Candidates
  BY ObservationAssumption DEF Observation, Candidates
<1>3. CollisionKeys(obs, org) \subseteq TaskKeys
  BY <1>1, <1>2 DEF CollisionKeys, TaskKeys
<1>4. WeakNameKeys(obs, org, cand) \subseteq TaskKeys
  BY DEF WeakNameKeys, TaskKeys, TypeOK
<1>5. ChainChangedKeys(<<cand, obs.env>>, obs.chain) \subseteq TaskKeys
  BY DEF ChainChangedKeys, TaskKeys, CandOf
<1> QED
  BY <1>1, <1>3, <1>4, <1>5

LEMMA ResetKeysTyped ==
    ASSUME NEW n \in NetIds, NEW g \in Genesis \cup {None}
    PROVE  /\ ResetKeys(n, g) \subseteq TaskKeys
           /\ ResetSignals(n, g) \subseteq Candidates \X {"genesis_changed"}
<1>1. Superseded(n, g) # {} => <<n, g>> \in IncIds
  BY IdentifierAssumption DEF Superseded, IncIds
<1> QED
  BY <1>1, CandidateParts DEF ResetKeys, ResetSignals, TaskKeys

\* What register_incarnation does, incarnation by incarnation.
New(n, g) == g \in Genesis /\ incStatus[n][g] = "none"

LEMMA RegisterNew ==
    ASSUME TypeOK, NEW n \in NetIds, NEW g \in Genesis \cup {None},
           RegisterIncarnation(n, g), New(n, g)
    PROVE  /\ incStatus' \in [NetIds -> [Genesis -> {"none", "active", "superseded"}]]
           /\ supersededBy' \in [NetIds -> [Genesis -> Genesis \cup {None}]]
           /\ \A m \in NetIds \ {n} : /\ incStatus'[m] = incStatus[m]
                                     /\ supersededBy'[m] = supersededBy[m]
           /\ incStatus'[n][g] = "active"
           /\ \A h \in Genesis \ {g} :
                  IF incStatus[n][h] = "active"
                  THEN incStatus'[n][h] = "superseded" /\ supersededBy'[n][h] = g
                  ELSE incStatus'[n][h] = incStatus[n][h]
                       /\ supersededBy'[n][h] = supersededBy[n][h]
<1> DEFINE status == [h \in Genesis |-> IF h = g THEN "active"
                                       ELSE IF incStatus[n][h] = "active" THEN "superseded"
                                       ELSE incStatus[n][h]]
           next   == [h \in Genesis |-> IF h \in Superseded(n, g) THEN g
                                       ELSE supersededBy[n][h]]
<1>1. incStatus' = [incStatus EXCEPT ![n] = status]
  BY IdentifierAssumption DEF RegisterIncarnation, New
<1>2. supersededBy' = [supersededBy EXCEPT ![n] = next]
  BY IdentifierAssumption DEF RegisterIncarnation, New
<1>3. status \in [Genesis -> {"none", "active", "superseded"}]
  BY DEF TypeOK
<1>4. next \in [Genesis -> Genesis \cup {None}]
  BY DEF TypeOK, New
<1>5. \A h \in Genesis : h \in Superseded(n, g) <=> incStatus[n][h] = "active"
  BY IdentifierAssumption DEF Superseded, New, Active
<1> HIDE DEF status, next
<1>6. /\ incStatus' \in [NetIds -> [Genesis -> {"none", "active", "superseded"}]]
      /\ supersededBy' \in [NetIds -> [Genesis -> Genesis \cup {None}]]
      /\ \A m \in NetIds \ {n} : incStatus'[m] = incStatus[m] /\ supersededBy'[m] = supersededBy[m]
      /\ incStatus'[n] = status
      /\ supersededBy'[n] = next
  BY <1>1, <1>2, <1>3, <1>4 DEF TypeOK
<1> QED
  BY <1>5, <1>6 DEF status, next, New

LEMMA RegisterKnown ==
    ASSUME NEW n \in NetIds, NEW g \in Genesis \cup {None},
           RegisterIncarnation(n, g), ~ New(n, g)
    PROVE  UNCHANGED incVars
BY DEF RegisterIncarnation, New

LEMMA RegisterTyped ==
    ASSUME TypeOK, NEW n \in NetIds, NEW g \in Genesis \cup {None}, RegisterIncarnation(n, g)
    PROVE  /\ incStatus' \in [NetIds -> [Genesis -> {"none", "active", "superseded"}]]
           /\ supersededBy' \in [NetIds -> [Genesis -> Genesis \cup {None}]]
BY RegisterNew, RegisterKnown DEF TypeOK, incVars

LEMMA AttachTyped ==
    ASSUME TypeOK, NEW obs \in Observations, NEW org \in OrgIds, NEW cand \in Candidates,
           Attach(obs, org, cand)
    PROVE  TypeOK'
<1> DEFINE net == <<cand, obs.env>>
<1>1. obs \in Observation
  BY ObservationAssumption
<1>2. net \in NetIds /\ obs.genesis \in Genesis \cup {None}
  BY <1>1 DEF NetIds, Observation
<1>3. orgs' \subseteq OrgIds
  BY DEF Attach, MergeOrgIdentifiers, TypeOK
<1>4. /\ orgDomains' \in [OrgIds -> SUBSET Domains]
      /\ orgGithubs' \in [OrgIds -> SUBSET Githubs]
  <2>1. Range(obs.domains) \subseteq Domains /\ Range(obs.githubs) \subseteq Githubs
    BY <1>1 DEF Observation, Range
  <2> QED
    BY <2>1 DEF Attach, MergeOrgIdentifiers, TypeOK
<1>5. /\ cands' \subseteq Candidates
      /\ aliases' \in [Candidates -> SUBSET Names]
      /\ links' \subseteq Observations \X Candidates
  BY <1>1 DEF Attach, TypeOK, Observation
<1>6. /\ nets' \subseteq NetIds
      /\ netChain' \in [NetIds -> Chains \cup {None}]
      /\ served' \subseteq nets'
  BY <1>1, <1>2 DEF Attach, ChainAfter, TypeOK, Observation
<1>7. /\ incStatus' \in [NetIds -> [Genesis -> {"none", "active", "superseded"}]]
      /\ supersededBy' \in [NetIds -> [Genesis -> Genesis \cup {None}]]
  BY <1>2, RegisterTyped DEF Attach, TypeOK
<1>8. TasksOK'
  BY <1>2, KeysTyped, ResetKeysTyped, OpenTasksKeepsRows DEF Attach, TypeOK, TasksOK
<1>9. signals' \subseteq Candidates \X {"chain_id_collision", "genesis_changed"}
  BY <1>2, KeysTyped, ResetKeysTyped DEF Attach, TypeOK
<1> QED
  BY <1>3, <1>4, <1>5, <1>6, <1>7, <1>8, <1>9 DEF TypeOK, TasksOK

LEMMA InitTyped ==
    ASSUME Init
    PROVE  TypeOK
BY DEF Init, TypeOK

LEMMA NextTyped ==
    ASSUME TypeOK, [Next]_vars
    PROVE  TypeOK'
<1>1. ASSUME NEW obs \in Observations, Ingest(obs)
      PROVE  TypeOK'
  BY <1>1, ResolvedOrgsType, ResolvedCandidatesType, AttachTyped DEF Ingest
<1>2. ASSUME NEW n \in served, NEW g \in Genesis, VerifyIdentity(n, g)
      PROVE  TypeOK'
  <2>1. n \in NetIds
    BY DEF TypeOK
  <2>2. /\ incStatus' \in [NetIds -> [Genesis -> {"none", "active", "superseded"}]]
        /\ supersededBy' \in [NetIds -> [Genesis -> Genesis \cup {None}]]
    BY <1>2, <2>1, RegisterTyped DEF VerifyIdentity
  <2>3. TasksOK'
    BY <1>2, <2>1, ResetKeysTyped, OpenTasksKeepsRows DEF VerifyIdentity, TypeOK, TasksOK
  <2>4. signals' \subseteq Candidates \X {"chain_id_collision", "genesis_changed"}
    BY <1>2, <2>1, ResetKeysTyped DEF VerifyIdentity, TypeOK
  <2> QED
    BY <1>2, <2>1, <2>2, <2>3, <2>4
    DEF VerifyIdentity, TypeOK, TasksOK, orgVars, candVars, netVars
<1>3. ASSUME NEW row \in tasks, ResolveTask(row)
      PROVE  TypeOK'
  <2>1. TasksOK'
    BY <1>3, ResolveTaskKeeps DEF TypeOK, TasksOK
  <2> QED
    BY <1>3, <2>1 DEF ResolveTask, TypeOK, TasksOK, orgVars, candVars, netVars, incVars
<1>4. CASE UNCHANGED vars
  BY <1>4 DEF vars, orgVars, candVars, netVars, incVars, TypeOK
<1> QED
  BY <1>1, <1>2, <1>3, <1>4 DEF Next

\* Every record keeps its shape: identifiers, statuses and review tasks stay
\* within their types whatever the sources publish.
THEOREM TypeCorrect == Spec => []TypeOK
<1>1. Init => TypeOK
  BY InitTyped
<1>2. TypeOK /\ [Next]_vars => TypeOK'
  BY NextTyped
<1> QED
  BY <1>1, <1>2, PTL DEF Spec

-----------------------------------------------------------------------------
(* Incarnations: supersession, its history and its tasks *)

\* A step registers at most one genesis on one network, raises the tasks and
\* the signals this calls for, and takes back neither tasks nor signals.
Keeps == /\ \A key \in TaskKeys : Raised(key) => Raised(key)'
         /\ signals \subseteq signals'

Registers(n, g) ==
    /\ RegisterIncarnation(n, g)
    /\ \A key \in ResetKeys(n, g) : Raised(key)'
    /\ ResetSignals(n, g) \subseteq signals'

LEMMA AttachRegisters ==
    ASSUME TypeOK, NEW obs \in Observations, NEW org \in OrgIds, NEW cand \in Candidates,
           Attach(obs, org, cand)
    PROVE  Keeps /\ Registers(<<cand, obs.env>>, obs.genesis)
<1> DEFINE net  == <<cand, obs.env>>
           keys == CollisionKeys(obs, org) \cup WeakNameKeys(obs, org, cand)
                       \cup ChainChangedKeys(net, obs.chain) \cup ResetKeys(net, obs.genesis)
<1>1. net \in NetIds /\ obs.genesis \in Genesis \cup {None}
  BY ObservationAssumption DEF Observation, NetIds
<1>2. keys \in SUBSET TaskKeys
  BY <1>1, KeysTyped, ResetKeysTyped
<1>3. OpenTasks(keys)
  BY DEF Attach
<1>4. /\ \A key \in keys : Raised(key)'
      /\ \A key : Raised(key) => Raised(key)'
  BY <1>2, <1>3, OpenTasksRaises
<1> QED
  BY <1>4 DEF Keeps, Registers, Attach

LEMMA NextRegisters ==
    ASSUME TypeOK, [Next]_vars
    PROVE  /\ Keeps
           /\ \/ \E n \in NetIds, g \in Genesis \cup {None} : Registers(n, g)
              \/ UNCHANGED incVars
<1>1. ASSUME NEW obs \in Observations, Ingest(obs)
      PROVE  Keeps /\ \E n \in NetIds, g \in Genesis \cup {None} : Registers(n, g)
  <2>1. PICK org \in OrgIds, cand \in Candidates : Attach(obs, org, cand)
    BY <1>1, ResolvedOrgsType, ResolvedCandidatesType DEF Ingest
  <2>2. <<cand, obs.env>> \in NetIds /\ obs.genesis \in Genesis \cup {None}
    BY ObservationAssumption DEF Observation, NetIds
  <2> QED
    BY <2>1, <2>2, AttachRegisters
<1>2. ASSUME NEW n \in served, NEW g \in Genesis, VerifyIdentity(n, g)
      PROVE  Keeps /\ n \in NetIds /\ Registers(n, g)
  <2>1. n \in NetIds
    BY DEF TypeOK
  <2>2. /\ \A key \in ResetKeys(n, g) : Raised(key)'
        /\ \A key : Raised(key) => Raised(key)'
    BY <1>2, <2>1, ResetKeysTyped, OpenTasksRaises DEF VerifyIdentity
  <2> QED
    BY <1>2, <2>1, <2>2 DEF Keeps, Registers, VerifyIdentity
<1>3. ASSUME NEW row \in tasks, ResolveTask(row)
      PROVE  Keeps /\ UNCHANGED incVars
  <2>1. \A key \in TaskKeys : Raised(key) => Raised(key)'
    BY <1>3, ResolveTaskKeeps DEF TypeOK, TasksOK
  <2> QED
    BY <1>3, <2>1 DEF Keeps, ResolveTask
<1>4. CASE UNCHANGED vars
  BY <1>4 DEF vars, incVars, Keeps, Raised
<1> QED
  BY <1>1, <1>2, <1>3, <1>4 DEF Next

\* The inductive invariant of the incarnation table.
IncInv ==
    /\ TypeOK
    /\ OneActive
    /\ SupersessionEndsActive
    /\ ResetFlagged

LEMMA OneActiveKept ==
    ASSUME TypeOK, OneActive, NEW n \in NetIds, NEW g \in Genesis \cup {None},
           RegisterIncarnation(n, g)
    PROVE  OneActive'
<1>1. CASE New(n, g)
  <2>1. ASSUME NEW m \in NetIds, \E h \in Genesis : incStatus'[m][h] # "none"
        PROVE  \E a \in Genesis : Active(m)' = {a}
    <3>1. CASE m = n
      <4>1. \A h \in Genesis : incStatus'[n][h] = "active" <=> h = g
        BY <1>1, RegisterNew DEF New
      <4> QED
        BY <1>1, <3>1, <4>1 DEF New, Active
    <3>2. CASE m # n
      <4>1. incStatus'[m] = incStatus[m]
        BY <1>1, <3>2, RegisterNew
      <4>2. Active(m)' = Active(m)
        BY <4>1 DEF Active
      <4> QED
        BY <2>1, <4>1, <4>2 DEF OneActive
    <3> QED
      BY <3>1, <3>2
  <2> QED
    BY <2>1 DEF OneActive
<1>2. CASE ~ New(n, g)
  BY <1>2, RegisterKnown DEF OneActive, Active, incVars
<1> QED
  BY <1>1, <1>2

Gone(n) == {g \in Genesis : incStatus[n][g] = "superseded"}

\* What the chain of superseded_by_id of one network has to satisfy.
ChainEnds(n) ==
    /\ \A g \in Gone(n) : /\ supersededBy[n][g] \in Genesis
                          /\ incStatus[n][supersededBy[n][g]] # "none"
    /\ \A S \in SUBSET Gone(n) : S # {} => \E g \in S : supersededBy[n][g] \notin S

LEMMA ChainEndsEquiv == SupersessionEndsActive <=> \A n \in NetIds : ChainEnds(n)
BY DEF SupersessionEndsActive, ChainEnds, Gone

LEMMA ChainEndsKept ==
    ASSUME TypeOK, NEW n \in NetIds, NEW g \in Genesis \cup {None}, RegisterIncarnation(n, g),
           New(n, g), ChainEnds(n)
    PROVE  ChainEnds(n)'
<1>1. Gone(n)' = Gone(n) \cup Active(n)
  <2>1. /\ incStatus[n][g] = "none" /\ incStatus'[n][g] = "active"
        /\ \A h \in Genesis \ {g} :
              IF incStatus[n][h] = "active"
              THEN incStatus'[n][h] = "superseded" /\ supersededBy'[n][h] = g
              ELSE incStatus'[n][h] = incStatus[n][h]
                   /\ supersededBy'[n][h] = supersededBy[n][h]
    BY RegisterNew DEF New
  <2>2. \A h \in Genesis : incStatus'[n][h] = "superseded" <=>
                               incStatus[n][h] \in {"superseded", "active"}
    BY <2>1
  <2> QED
    BY <2>2 DEF Gone, Active
<1>2. /\ \A h \in Gone(n) : supersededBy'[n][h] = supersededBy[n][h]
      /\ \A h \in Active(n) : supersededBy'[n][h] = g
  BY RegisterNew DEF Gone, Active, New
<1>3. \A h \in Genesis : incStatus[n][h] # "none" => incStatus'[n][h] # "none"
  BY RegisterNew DEF New
<1>4. g \in Genesis /\ g \notin Gone(n)' /\ incStatus'[n][g] # "none"
  BY RegisterNew DEF New, Gone
<1>5. ASSUME NEW h \in Gone(n)'
      PROVE  /\ supersededBy'[n][h] \in Genesis
             /\ incStatus'[n][supersededBy'[n][h]] # "none"
  BY <1>1, <1>2, <1>3, <1>4, <1>5 DEF ChainEnds, Active
<1>6. ASSUME NEW S \in SUBSET (Gone(n)'), S # {}
      PROVE  \E h \in S : supersededBy'[n][h] \notin S
  <2>1. CASE S \cap Active(n) # {}
    BY <1>2, <1>4, <2>1
  <2>2. CASE S \cap Active(n) = {}
    <3>1. S \in SUBSET Gone(n)
      BY <1>1, <2>2
    <3>2. PICK h \in S : supersededBy[n][h] \notin S
      BY <1>6, <3>1 DEF ChainEnds
    <3> QED
      BY <1>2, <3>1, <3>2
  <2> QED
    BY <2>1, <2>2
<1> QED
  BY <1>5, <1>6 DEF ChainEnds

LEMMA SupersessionKept ==
    ASSUME TypeOK, SupersessionEndsActive, NEW n \in NetIds, NEW g \in Genesis \cup {None},
           RegisterIncarnation(n, g)
    PROVE  SupersessionEndsActive'
<1>1. CASE New(n, g)
  <2>1. ASSUME NEW m \in NetIds
        PROVE  ChainEnds(m)'
    <3>1. CASE m = n
      BY <1>1, <3>1, ChainEndsEquiv, ChainEndsKept
    <3>2. CASE m # n
      <4>1. incStatus'[m] = incStatus[m] /\ supersededBy'[m] = supersededBy[m]
        BY <1>1, <3>2, RegisterNew
      <4> QED
        BY <4>1, ChainEndsEquiv DEF ChainEnds, Gone
    <3> QED
      BY <3>1, <3>2
  <2> QED
    BY <2>1 DEF SupersessionEndsActive, ChainEnds, Gone
<1>2. CASE ~ New(n, g)
  BY <1>2, RegisterKnown DEF SupersessionEndsActive, incVars
<1> QED
  BY <1>1, <1>2

\* The trace that a supersession leaves.
ResetKey(n, g) == <<"network_reset_or_collision", CandOf(n), <<n, g>>>>
Flagged(n, g)  == Raised(ResetKey(n, g)) /\ <<CandOf(n), "genesis_changed">> \in signals

LEMMA FlaggedEquiv ==
    ResetFlagged <=> \A n \in NetIds, g \in Genesis :
                        incStatus[n][g] = "superseded" => Flagged(n, supersededBy[n][g])
BY DEF ResetFlagged, Flagged, ResetKey

LEMMA FlaggedKept ==
    ASSUME NEW n \in NetIds, NEW g \in Genesis, Flagged(n, g), Keeps
    PROVE  Flagged(n, g)'
<1>1. ResetKey(n, g) \in TaskKeys
  BY CandidateParts DEF ResetKey, TaskKeys, IncIds
<1> QED
  BY <1>1 DEF Flagged, Keeps, Raised

LEMMA ResetFlaggedKept ==
    ASSUME IncInv, NEW n \in NetIds, NEW g \in Genesis \cup {None}, Registers(n, g), Keeps
    PROVE  ResetFlagged'
<1>1. TypeOK /\ SupersessionEndsActive /\ ResetFlagged
  BY DEF IncInv
<1>2. ASSUME NEW m \in NetIds, NEW h \in Genesis, incStatus'[m][h] = "superseded"
      PROVE  Flagged(m, supersededBy[m][h])'
  <2>1. CASE incStatus[m][h] = "superseded" /\ supersededBy'[m][h] = supersededBy[m][h]
    <3>1. supersededBy[m][h] \in Genesis
      BY <1>1, <2>1 DEF SupersessionEndsActive
    <3>2. Flagged(m, supersededBy[m][h])
      BY <1>1, <2>1, FlaggedEquiv
    <3> QED
      BY <2>1, <3>1, <3>2, FlaggedKept DEF Flagged, Raised, ResetKey
  <2>2. CASE New(n, g) /\ m = n /\ incStatus[n][h] = "active"
    <3>1. supersededBy'[n][h] = g
      BY <1>1, <2>2, RegisterNew DEF Registers, New
    <3>2. Superseded(n, g) # {}
      BY <2>2, IdentifierAssumption DEF New, Superseded, Active
    <3> QED
      BY <2>2, <3>1, <3>2 DEF ResetKeys, ResetSignals, Registers, Flagged, Raised, ResetKey, CandOf
  <2>3. \/ incStatus[m][h] = "superseded" /\ supersededBy'[m][h] = supersededBy[m][h]
        \/ New(n, g) /\ m = n /\ incStatus[n][h] = "active"
    <3>1. CASE New(n, g)
      BY <1>1, <1>2, <3>1, RegisterNew DEF Registers, New
    <3>2. CASE ~ New(n, g)
      BY <1>2, <3>2, RegisterKnown DEF Registers, incVars
    <3> QED
      BY <3>1, <3>2
  <2> QED
    BY <2>1, <2>2, <2>3
<1> QED
  BY <1>2 DEF ResetFlagged, Flagged, ResetKey

LEMMA IncInvInit ==
    ASSUME Init
    PROVE  IncInv
<1>1. \A n \in NetIds, g \in Genesis : incStatus[n][g] = "none"
  BY DEF Init
<1> QED
  BY <1>1, InitTyped DEF IncInv, OneActive, SupersessionEndsActive, ResetFlagged

LEMMA IncInvNext ==
    ASSUME IncInv, [Next]_vars
    PROVE  IncInv'
<1>1. TypeOK'
  BY NextTyped DEF IncInv
<1>2. CASE \E n \in NetIds, g \in Genesis \cup {None} : Registers(n, g)
  <2>1. Keeps
    BY NextRegisters DEF IncInv
  <2>2. PICK n \in NetIds, g \in Genesis \cup {None} : Registers(n, g)
    BY <1>2
  <2>3. OneActive' /\ SupersessionEndsActive'
    BY <2>2, OneActiveKept, SupersessionKept DEF IncInv, Registers
  <2>4. ResetFlagged'
    BY <2>1, <2>2, ResetFlaggedKept
  <2> QED
    BY <1>1, <2>3, <2>4 DEF IncInv
<1>3. CASE UNCHANGED incVars
  <2>1. Keeps
    BY NextRegisters DEF IncInv
  <2>2. OneActive' /\ SupersessionEndsActive'
    BY <1>3 DEF IncInv, OneActive, Active, SupersessionEndsActive, incVars
  <2>3. ASSUME NEW n \in NetIds, NEW g \in Genesis, incStatus'[n][g] = "superseded"
        PROVE  Flagged(n, supersededBy[n][g])'
    <3>1. incStatus[n][g] = "superseded" /\ supersededBy'[n][g] = supersededBy[n][g]
      BY <1>3, <2>3 DEF incVars
    <3>2. supersededBy[n][g] \in Genesis
      BY <3>1 DEF IncInv, SupersessionEndsActive
    <3>3. Flagged(n, supersededBy[n][g])
      BY <3>1, FlaggedEquiv DEF IncInv
    <3> QED
      BY <2>1, <3>1, <3>2, <3>3, FlaggedKept DEF Flagged, Raised, ResetKey
  <2> QED
    BY <1>1, <2>2, <2>3 DEF IncInv, ResetFlagged, Flagged, ResetKey
<1> QED
  BY <1>2, <1>3, NextRegisters DEF IncInv

\* The inductive invariant: types, one active incarnation per fingerprinted
\* network, supersession that leads to it, and every supersession flagged.
THEOREM IncarnationsInvariant == Spec => []IncInv
<1>1. IncInv /\ [Next]_vars => IncInv'
  BY IncInvNext
<1> QED
  BY <1>1, IncInvInit, PTL DEF Spec

\* register_incarnation leaves exactly one active incarnation on every network
\* that was ever fingerprinted.
THEOREM OneActiveAlways == Spec => []OneActive
<1>1. IncInv => OneActive
  BY DEF IncInv
<1> QED
  BY <1>1, IncarnationsInvariant, PTL

\* Following superseded_by_id from any incarnation ends.
THEOREM SupersessionEnds == Spec => []SupersessionEndsActive
<1>1. IncInv => SupersessionEndsActive
  BY DEF IncInv
<1> QED
  BY <1>1, IncarnationsInvariant, PTL

\* No network is ever reset without a review task and a risk signal.
THEOREM ResetAlwaysFlagged == Spec => []ResetFlagged
<1>1. IncInv => ResetFlagged
  BY DEF IncInv
<1> QED
  BY <1>1, IncarnationsInvariant, PTL

LEMMA HistoryStep ==
    ASSUME IncInv, [Next]_vars
    PROVE  /\ \A n \in NetIds, g \in Genesis :
                  incStatus[n][g] = "superseded" =>
                      /\ incStatus'[n][g] = "superseded"
                      /\ supersededBy'[n][g] = supersededBy[n][g]
           /\ \A row \in tasks : Raised(KeyOfRow(row))'
<1>1. TypeOK /\ Keeps
  BY NextRegisters DEF IncInv
<1>2. ASSUME NEW n \in NetIds, NEW g \in Genesis, incStatus[n][g] = "superseded"
      PROVE  incStatus'[n][g] = "superseded" /\ supersededBy'[n][g] = supersededBy[n][g]
  <2>1. CASE UNCHANGED incVars
    BY <1>2, <2>1 DEF incVars
  <2>2. CASE \E m \in NetIds, h \in Genesis \cup {None} : Registers(m, h)
    <3>1. PICK m \in NetIds, h \in Genesis \cup {None} : RegisterIncarnation(m, h)
      BY <2>2 DEF Registers
    <3>2. CASE New(m, h)
      BY <1>1, <1>2, <3>1, <3>2, RegisterNew DEF New
    <3>3. CASE ~ New(m, h)
      BY <1>2, <3>1, <3>3, RegisterKnown DEF incVars
    <3> QED
      BY <3>2, <3>3
  <2> QED
    BY <2>1, <2>2, NextRegisters DEF IncInv
<1>3. ASSUME NEW row \in tasks
      PROVE  Raised(KeyOfRow(row))'
  <2>1. Raised(KeyOfRow(row)) /\ KeyOfRow(row) \in TaskKeys
    BY <1>1 DEF TypeOK, Raised
  <2> QED
    BY <1>1, <2>1 DEF Keeps, Raised, KeyOfRow
<1> QED
  BY <1>2, <1>3

\* What superseded an incarnation is never rewritten, and no decision put
\* before an analyst is lost.
THEOREM HistoryAlwaysKept == Spec => HistoryKept
<1>1. IncInv /\ [Next]_vars =>
        [/\ \A n \in NetIds, g \in Genesis :
                incStatus[n][g] = "superseded" =>
                    /\ incStatus'[n][g] = "superseded"
                    /\ supersededBy'[n][g] = supersededBy[n][g]
         /\ \A row \in tasks : Raised(KeyOfRow(row))']_vars
  BY HistoryStep
<1> QED
  BY <1>1, IncarnationsInvariant, PTL DEF HistoryKept, Spec

-----------------------------------------------------------------------------
(* EntityResolution implements IncarnationLine, network by network *)

\* Exactly the reset tasks that a registration calls for are raised.
RaisesExactly(keys) ==
    \A n \in NetIds, g \in Genesis :
        Raised(ResetKey(n, g))' <=> Raised(ResetKey(n, g)) \/ ResetKey(n, g) \in keys

LEMMA OpenTasksExact ==
    ASSUME NEW keys, OpenTasks(keys), NEW key \in TaskKeys, keys \subseteq TaskKeys
    PROVE  Raised(key)' <=> Raised(key) \/ key \in keys
BY RowOfKey DEF OpenTasks, Raised

LEMMA LineInit ==
    ASSUME Init, NEW n \in NetIds
    PROVE  Line(n)!Init
<1>1. Active(n) = {}
  BY DEF Init, Active
<1> QED
  BY <1>1 DEF Line!Init, Init, Raised

LEMMA ResetKeyIsKey ==
    ASSUME NEW n \in NetIds, NEW g \in Genesis
    PROVE  ResetKey(n, g) \in TaskKeys
BY CandidateParts DEF ResetKey, TaskKeys, IncIds

LEMMA AttachRaises ==
    ASSUME TypeOK, NEW obs \in Observations, NEW org \in OrgIds, NEW cand \in Candidates,
           Attach(obs, org, cand)
    PROVE  RaisesExactly(ResetKeys(<<cand, obs.env>>, obs.genesis))
<1> DEFINE net   == <<cand, obs.env>>
           other == CollisionKeys(obs, org) \cup WeakNameKeys(obs, org, cand)
                        \cup ChainChangedKeys(net, obs.chain)
           keys  == other \cup ResetKeys(net, obs.genesis)
<1>1. net \in NetIds /\ obs.genesis \in Genesis \cup {None}
  BY ObservationAssumption DEF Observation, NetIds
<1>2. keys \subseteq TaskKeys
  BY <1>1, KeysTyped, ResetKeysTyped
<1>3. OpenTasks(keys)
  BY DEF Attach
<1>4. \A n, g : ResetKey(n, g) \notin other
  BY DEF ResetKey, CollisionKeys, WeakNameKeys, ChainChangedKeys
<1> HIDE DEF other
<1>5. ASSUME NEW n \in NetIds, NEW g \in Genesis
      PROVE  Raised(ResetKey(n, g))' <=> Raised(ResetKey(n, g))
                                            \/ ResetKey(n, g) \in ResetKeys(net, obs.genesis)
  <2>1. Raised(ResetKey(n, g))' <=> Raised(ResetKey(n, g)) \/ ResetKey(n, g) \in keys
    BY <1>2, <1>3, ResetKeyIsKey, OpenTasksExact DEF ResetKey, CandOf, Raised
  <2> QED
    BY <2>1, <1>4
<1> QED
  BY <1>5 DEF RaisesExactly

LEMMA ResolveTaskExact ==
    ASSUME TypeOK, NEW row \in tasks, ResolveTask(row)
    PROVE  RaisesExactly({})
<1>1. KeyOfRow(row) \in TaskKeys /\ row = Row(KeyOfRow(row), "open")
  BY DEF ResolveTask, Resolvable, TypeOK
<1>2. ASSUME NEW n \in NetIds, NEW g \in Genesis
      PROVE  Raised(ResetKey(n, g))' <=> Raised(ResetKey(n, g))
  <2>1. ResetKey(n, g) \in TaskKeys
    BY ResetKeyIsKey
  <2>2. Raised(ResetKey(n, g)) => Raised(ResetKey(n, g))'
    BY <2>1, ResolveTaskKeeps DEF TypeOK, TasksOK, ResetKey, CandOf, Raised
  <2>3. ASSUME Raised(ResetKey(n, g))'
        PROVE  Raised(ResetKey(n, g))
    <3>1. PICK s \in {"open", "resolved"} : Row(ResetKey(n, g), s) \in tasks'
      BY <2>3 DEF Raised, ResetKey, CandOf
    <3>2. CASE Row(ResetKey(n, g), s) \in tasks
      BY <3>2 DEF Raised
    <3>3. CASE Row(ResetKey(n, g), s) = Row(KeyOfRow(row), "resolved")
      <4>1. ResetKey(n, g) = KeyOfRow(row)
        BY <1>1, <2>1, <3>3, RowOfKey
      <4> QED
        BY <1>1, <4>1 DEF Raised
    <3> QED
      BY <3>1, <3>2, <3>3 DEF ResolveTask
  <2> QED
    BY <2>2, <2>3
<1> QED
  BY <1>2 DEF RaisesExactly

\* The head of a line is its active incarnation.
LEMMA HeadIsActive ==
    ASSUME NEW n \in NetIds, NEW a, Active(n) = {a}
    PROVE  (IF Active(n) = {} THEN None ELSE CHOOSE g \in Active(n) : TRUE) = a
OBVIOUS

LEMMA RegistersLine ==
    ASSUME IncInv, NEW n \in NetIds, NEW g \in Genesis, New(n, g), RegisterIncarnation(n, g),
           RaisesExactly(ResetKeys(n, g)), NEW m \in NetIds
    PROVE  [Line(m)!Next]_(Line(m)!vars)
<1> USE DEF IncInv
<1>1. CASE m # n
  <2>1. incStatus'[m] = incStatus[m] /\ supersededBy'[m] = supersededBy[m]
    BY <1>1, RegisterNew
  <2>2. Active(m)' = Active(m)
    BY <2>1 DEF Active
  <2>3. \A h \in Genesis : Raised(ResetKey(m, h))' <=> Raised(ResetKey(m, h))
    BY <1>1 DEF RaisesExactly, ResetKeys, ResetKey
  <2> QED
    BY <2>1, <2>2, <2>3 DEF Line!vars, ResetKey
<1>2. CASE m = n /\ Active(n) = {}
  <2>1. \A h \in Genesis : incStatus[n][h] = "none"
    BY <1>2 DEF OneActive
  <2>2. \A h \in Genesis : IF h = g THEN incStatus'[n][h] = "active"
                                     ELSE incStatus'[n][h] = "none" /\ supersededBy'[n][h] = supersededBy[n][h]
    BY <2>1, RegisterNew
  <2>3. Active(n)' = {g}
    BY <2>2 DEF Active
  <2>4. supersededBy'[n] = supersededBy[n]
    <3>1. supersededBy'[n][g] = supersededBy[n][g]
      <4>1. Superseded(n, g) = {}
        BY <1>2 DEF Superseded
      <4>2. g # None /\ incStatus[n][g] = "none"
        BY IdentifierAssumption DEF New
      <4>3. supersededBy' = [supersededBy EXCEPT ![n] =
                [h \in Genesis |-> IF h \in Superseded(n, g) THEN g ELSE @[h]]]
        BY <4>2 DEF RegisterIncarnation
      <4>4. supersededBy'[n] = [h \in Genesis |-> IF h \in {} THEN g ELSE supersededBy[n][h]]
        <5>1. supersededBy'[n] = [h \in Genesis |-> IF h \in Superseded(n, g) THEN g ELSE supersededBy[n][h]]
          BY <4>3 DEF TypeOK
        <5> QED
          BY <4>1, <5>1
      <4> QED
        BY <4>4
    <3>2. /\ supersededBy[n] \in [Genesis -> Genesis \cup {None}]
          /\ supersededBy'[n] \in [Genesis -> Genesis \cup {None}]
      BY RegisterNew DEF TypeOK
    <3>3. \A h \in Genesis : supersededBy'[n][h] = supersededBy[n][h]
      BY <2>2, <3>1
    <3> QED
      BY <3>2, <3>3
  <2>5. ResetKeys(n, g) = {}
    BY <1>2 DEF ResetKeys, Superseded
  <2>6. \A h \in Genesis : Raised(ResetKey(n, h))' <=> Raised(ResetKey(n, h))
    BY <2>5 DEF RaisesExactly
  <2>7. {h \in Genesis : incStatus'[n][h] # "none"} = {g}
    BY <2>2
  <2>8. Line(n)!Begin(g)
    BY <2>1, <2>3, <2>4, <2>6, <2>7 DEF Line!Begin, ResetKey
  <2> QED
    BY <1>2, <2>8 DEF Line!Next
<1>3. CASE m = n /\ Active(n) # {}
  <2>1. PICK a \in Genesis : Active(n) = {a}
    BY <1>3 DEF OneActive, Active
  <2>2. a # g /\ incStatus[n][a] = "active"
    BY <2>1 DEF Active, New
  <2>3. \A h \in Genesis : incStatus[n][h] = "active" <=> h = a
    BY <2>1 DEF Active
  <2>4. Active(n)' = {g}
    BY <2>3, RegisterNew DEF Active
  <2>5. supersededBy'[n] = [supersededBy[n] EXCEPT ![a] = g]
    <3>1. supersededBy'[n][g] = supersededBy[n][g]
      <4>1. g # None /\ incStatus[n][g] = "none"
        BY IdentifierAssumption DEF New
      <4>2. g \notin Superseded(n, g)
        BY <2>1, <2>2 DEF Superseded
      <4>3. supersededBy' = [supersededBy EXCEPT ![n] =
                [h \in Genesis |-> IF h \in Superseded(n, g) THEN g ELSE @[h]]]
        BY <4>1 DEF RegisterIncarnation
      <4> QED
        BY <4>2, <4>3 DEF TypeOK
    <3>2. /\ supersededBy[n] \in [Genesis -> Genesis \cup {None}]
          /\ supersededBy'[n] \in [Genesis -> Genesis \cup {None}]
      BY RegisterNew DEF TypeOK
    <3>3. \A h \in Genesis : supersededBy'[n][h] = IF h = a THEN g ELSE supersededBy[n][h]
      BY <2>2, <2>3, <3>1, RegisterNew
    <3> QED
      BY <3>2, <3>3
  <2>6. {h \in Genesis : incStatus'[n][h] # "none"} = {h \in Genesis : incStatus[n][h] # "none"} \cup {g}
    BY <2>2, RegisterNew
  <2>7. ResetKeys(n, g) = {ResetKey(n, g)}
    BY <2>1, IdentifierAssumption DEF ResetKeys, ResetKey, Superseded, New
  <2>8. \A h \in Genesis : Raised(ResetKey(n, h))' <=> Raised(ResetKey(n, h)) \/ h = g
    BY <2>7 DEF RaisesExactly, ResetKey
  <2>9. {h \in Genesis : Raised(ResetKey(n, h))'} = {h \in Genesis : Raised(ResetKey(n, h))} \cup {g}
    BY <2>8
  <2>10. Line(n)!Succeed(g)
    <3>1. g \notin {h \in Genesis : incStatus[n][h] # "none"}
      BY DEF New
    <3>2. a \in {h \in Genesis : incStatus[n][h] # "none"}
      BY <2>2
    <3> QED
      BY <2>1, <2>4, <2>5, <2>6, <2>9, <3>1, <3>2 DEF Line!Succeed, ResetKey, Raised, CandOf
  <2> QED
    BY <1>3, <2>10 DEF Line!Next
<1> QED
  BY <1>1, <1>2, <1>3

LEMMA LineStutters ==
    ASSUME UNCHANGED incVars, RaisesExactly({}), NEW m \in NetIds
    PROVE  UNCHANGED Line(m)!vars
<1>1. Active(m)' = Active(m)
  BY DEF Active, incVars
<1>2. \A h \in Genesis : Raised(ResetKey(m, h))' <=> Raised(ResetKey(m, h))
  BY DEF RaisesExactly
<1> QED
  BY <1>1, <1>2 DEF Line!vars, incVars, ResetKey

LEMMA LineStep ==
    ASSUME IncInv, [Next]_vars, NEW m \in NetIds
    PROVE  [Line(m)!Next]_(Line(m)!vars)
<1>1. ASSUME NEW n \in NetIds, NEW g \in Genesis \cup {None}, RegisterIncarnation(n, g),
             RaisesExactly(ResetKeys(n, g))
      PROVE  [Line(m)!Next]_(Line(m)!vars)
  <2>1. CASE New(n, g)
    BY <1>1, <2>1, RegistersLine DEF New
  <2>2. CASE ~ New(n, g)
    <3>1. ResetKeys(n, g) = {}
      BY <2>2 DEF ResetKeys, Superseded, New
    <3> QED
      BY <1>1, <2>2, <3>1, RegisterKnown, LineStutters
  <2> QED
    BY <2>1, <2>2
<1>2. CASE \E obs \in Observations : Ingest(obs)
  <2>1. PICK obs \in Observations, org \in OrgIds, cand \in Candidates : Attach(obs, org, cand)
    BY <1>2, ResolvedOrgsType, ResolvedCandidatesType DEF Ingest, IncInv
  <2>2. <<cand, obs.env>> \in NetIds /\ obs.genesis \in Genesis \cup {None}
    BY ObservationAssumption DEF Observation, NetIds
  <2> QED
    BY <1>1, <2>1, <2>2, AttachRaises DEF Attach, IncInv
<1>3. CASE \E n \in served, g \in Genesis : VerifyIdentity(n, g)
  <2>1. PICK n \in NetIds, g \in Genesis : VerifyIdentity(n, g)
    BY <1>3 DEF IncInv, TypeOK
  <2>2. ResetKeys(n, g) \subseteq TaskKeys
    BY ResetKeysTyped
  <2>3. RaisesExactly(ResetKeys(n, g))
    BY <2>1, <2>2, ResetKeyIsKey, OpenTasksExact DEF VerifyIdentity, RaisesExactly, ResetKey, CandOf, Raised
  <2> QED
    BY <1>1, <2>1, <2>3 DEF VerifyIdentity
<1>4. CASE \E row \in tasks : ResolveTask(row)
  <2>1. UNCHANGED incVars
    BY <1>4 DEF ResolveTask
  <2> QED
    BY <1>4, <2>1, ResolveTaskExact, LineStutters DEF IncInv
<1>5. CASE UNCHANGED vars
  <2>1. UNCHANGED incVars /\ RaisesExactly({})
    BY <1>5 DEF vars, incVars, RaisesExactly, Raised, ResetKey, CandOf
  <2> QED
    BY <2>1, LineStutters
<1> QED
  BY <1>2, <1>3, <1>4, <1>5 DEF Next

\* Whatever registries and endpoints report, the incarnations of a network
\* behave as one line whose every change of head is put before an analyst:
\* EntityResolution implements IncarnationLine.
THEOREM LinesKept == Spec => LineKept
<1>1. Init => \A net \in NetIds : Line(net)!Init
  BY LineInit
<1>2. IncInv /\ [Next]_vars => [\A net \in NetIds : [Line(net)!Next]_(Line(net)!vars)]_vars
  BY LineStep
<1> QED
  BY <1>1, <1>2, IncarnationsInvariant, PTL DEF LineKept, Spec

-----------------------------------------------------------------------------
(* What is on record stays *)

Grows ==
    /\ Keeps
    /\ nets \subseteq nets'
    /\ \A o \in OrgIds : orgDomains[o] \subseteq orgDomains'[o] /\ orgGithubs[o] \subseteq orgGithubs'[o]
    /\ \A n \in NetIds, g \in Genesis : incStatus[n][g] # "none" => incStatus'[n][g] # "none"
    /\ \A n \in NetIds : netChain[n] # None => netChain'[n] = netChain[n]

\* register_incarnation forgets no genesis.
LEMMA RegisterGrows ==
    ASSUME TypeOK, NEW n \in NetIds, NEW g \in Genesis \cup {None}, RegisterIncarnation(n, g),
           NEW m \in NetIds, NEW h \in Genesis, incStatus[m][h] # "none"
    PROVE  incStatus'[m][h] # "none"
<1>1. CASE New(n, g)
    BY <1>1, RegisterNew DEF New
<1>2. CASE ~ New(n, g)
    BY <1>2, RegisterKnown DEF incVars
<1> QED  BY <1>1, <1>2

LEMMA AttachGrows ==
    ASSUME TypeOK, NEW obs \in Observations, NEW org \in OrgIds, NEW cand \in Candidates,
           Attach(obs, org, cand)
    PROVE  Grows
<1>1. <<cand, obs.env>> \in NetIds /\ obs.genesis \in Genesis \cup {None}
    BY ObservationAssumption DEF Observation, NetIds
<1>2. Keeps
    BY AttachRegisters
<1>3. nets \subseteq nets'
    BY DEF Attach
<1>4. \A o \in OrgIds : orgDomains[o] \subseteq orgDomains'[o] /\ orgGithubs[o] \subseteq orgGithubs'[o]
    BY DEF Attach, MergeOrgIdentifiers, TypeOK
<1>5. \A n \in NetIds, g \in Genesis : incStatus[n][g] # "none" => incStatus'[n][g] # "none"
    BY <1>1, RegisterGrows DEF Attach
<1>6. \A n \in NetIds : netChain[n] # None => netChain'[n] = netChain[n]
    BY <1>1 DEF Attach, ChainAfter, TypeOK
<1> QED  BY <1>2, <1>3, <1>4, <1>5, <1>6 DEF Grows

\* The steps other than upsert_candidate: they link, register and merge nothing.
Unlinked == UNCHANGED <<orgVars, candVars, netVars>>

LEMMA NextGrows ==
    ASSUME TypeOK, [Next]_vars
    PROVE  /\ Grows
           /\ \/ Unlinked
              \/ \E obs \in Observations, org \in OrgIds, cand \in Candidates :
                    /\ org \in ResolvedOrgs(obs)
                    /\ cand \in ResolvedCandidates(obs, org)
                    /\ Attach(obs, org, cand)
<1>1. Keeps
    BY NextRegisters
<1>2. ASSUME NEW obs \in Observations, Ingest(obs)
      PROVE  Grows /\ \E org \in OrgIds, cand \in Candidates :
                    /\ org \in ResolvedOrgs(obs)
                    /\ cand \in ResolvedCandidates(obs, org)
                    /\ Attach(obs, org, cand)
    <2>1. PICK org \in ResolvedOrgs(obs) : \E cand \in ResolvedCandidates(obs, org) : Attach(obs, org, cand)
        BY <1>2 DEF Ingest
    <2>2. PICK cand \in ResolvedCandidates(obs, org) : Attach(obs, org, cand)
        BY <2>1
    <2>3. org \in OrgIds
        BY ResolvedOrgsType
    <2>4. cand \in Candidates
        BY <2>3, ResolvedCandidatesType
    <2> QED  BY <2>2, <2>3, <2>4, AttachGrows
<1>3. ASSUME NEW n \in served, NEW g \in Genesis, VerifyIdentity(n, g)
      PROVE  Grows /\ Unlinked
    <2>1. n \in NetIds
        BY DEF TypeOK
    <2>2. \A m \in NetIds, h \in Genesis : incStatus[m][h] # "none" => incStatus'[m][h] # "none"
        BY <1>3, <2>1, RegisterGrows DEF VerifyIdentity
    <2> QED  BY <1>1, <1>3, <2>2 DEF VerifyIdentity, Grows, Unlinked, orgVars, netVars
<1>4. ASSUME NEW row \in tasks, ResolveTask(row)
      PROVE  Grows /\ Unlinked
    BY <1>1, <1>4 DEF ResolveTask, Grows, Unlinked, orgVars, candVars, netVars, incVars
<1>5. CASE UNCHANGED vars
    BY <1>1, <1>5 DEF vars, Grows, Unlinked, orgVars, candVars, netVars, incVars
<1> QED  BY <1>2, <1>3, <1>4, <1>5 DEF Next

-----------------------------------------------------------------------------
(* Chain IDs that contradict each other *)

LEMMA ConflictStep ==
    ASSUME TypeOK, ChainConflictRecorded, [Next]_vars
    PROVE  ChainConflictRecorded'
<1>1. Grows
    BY NextGrows
<1>2. ASSUME NEW l \in links, l[1].chain # None
      PROVE  \/ netChain'[<<l[2], l[1].env>>] = l[1].chain
             \/ Raised(<<"chain_id_changed", l[2], NoRelated>>)'
    <2>1. <<l[2], l[1].env>> \in NetIds /\ <<"chain_id_changed", l[2], NoRelated>> \in TaskKeys
        BY ObservationAssumption DEF TypeOK, Observation, NetIds, TaskKeys
    <2> QED  BY <1>1, <1>2, <2>1 DEF ChainConflictRecorded, Grows, Keeps
<1>3. CASE Unlinked
    BY <1>2, <1>3 DEF Unlinked, candVars, ChainConflictRecorded
<1>4. ASSUME NEW obs \in Observations, NEW org \in OrgIds, NEW cand \in Candidates,
             Attach(obs, org, cand), obs.chain # None
      PROVE  \/ netChain'[<<cand, obs.env>>] = obs.chain
             \/ Raised(<<"chain_id_changed", cand, NoRelated>>)'
    <2> DEFINE net  == <<cand, obs.env>>
               keys == CollisionKeys(obs, org) \cup WeakNameKeys(obs, org, cand)
                           \cup ChainChangedKeys(net, obs.chain) \cup ResetKeys(net, obs.genesis)
    <2>1. net \in NetIds /\ obs.genesis \in Genesis \cup {None}
        BY ObservationAssumption DEF Observation, NetIds
    <2>2. CASE netChain[net] \in {None, obs.chain}
        BY <1>4, <2>1, <2>2 DEF Attach, ChainAfter, TypeOK
    <2>3. CASE netChain[net] \notin {None, obs.chain}
        <3>1. <<"chain_id_changed", cand, NoRelated>> \in keys
            BY <1>4, <2>3 DEF ChainChangedKeys, CandOf
        <3>2. keys \in SUBSET TaskKeys
            BY <2>1, KeysTyped, ResetKeysTyped
        <3>3. OpenTasks(keys)
            BY <1>4 DEF Attach
        <3> QED  BY <3>1, <3>2, <3>3, OpenTasksRaises
    <2> QED  BY <2>2, <2>3
<1>5. ASSUME NEW obs \in Observations, NEW org \in OrgIds, NEW cand \in Candidates, Attach(obs, org, cand)
      PROVE  ChainConflictRecorded'
    <2>1. links' = links \cup {<<obs, cand>>}
        BY <1>5 DEF Attach
    <2> QED  BY <1>2, <1>4, <1>5, <2>1 DEF ChainConflictRecorded
<1> QED  BY <1>3, <1>5, NextGrows

\* However often sources change their mind about the chain ID of a network, the
\* one recorded first stays and every other one was put before an analyst.
THEOREM ConflictsRecorded == Spec => []ChainConflictRecorded
<1>1. Init => ChainConflictRecorded
    BY DEF Init, ChainConflictRecorded
<1>2. TypeOK /\ ChainConflictRecorded /\ [Next]_vars => ChainConflictRecorded'
    BY ConflictStep
<1> QED  BY <1>1, <1>2, TypeCorrect, PTL DEF Spec

-----------------------------------------------------------------------------
(* Why an observation is linked to a candidate *)

\* An organization that is keyed on a domain, or a GitHub organization, owns it.
Owned ==
    /\ \A d \in Domains : <<"domain", d>> \in orgs => d \in orgDomains[<<"domain", d>>]
    /\ \A g \in Githubs : <<"github", g>> \in orgs => g \in orgGithubs[<<"github", g>>]

\* The lookup by identifiers answers with an owner of one of them, and answers
\* with nobody only if nobody owns any.
LEMMA OwnersFound ==
    ASSUME NEW S, NEW ids \in Seq(S), NEW owned
    PROVE  /\ \A o \in FirstOwners(ids, owned) : o \in orgs /\ Range(ids) \cap owned[o] # {}
           /\ FirstOwners(ids, owned) = {} => \A o \in orgs : Range(ids) \cap owned[o] = {}
<1> DEFINE Owners(i) == {o \in orgs : ids[i] \in owned[o]}
           hits == {i \in DOMAIN ids : Owners(i) # {}}
<1>1. FirstOwners(ids, owned) = IF hits = {} THEN {} ELSE Owners(Min(hits))
    BY DEF FirstOwners
<1>2. hits \subseteq Nat
    OBVIOUS
<1>3. hits # {} => Min(hits) \in hits
    BY <1>2, MinIsMember
<1>4. ASSUME NEW o \in FirstOwners(ids, owned)
      PROVE  o \in orgs /\ Range(ids) \cap owned[o] # {}
    <2>1. Min(hits) \in hits /\ o \in Owners(Min(hits))
        BY <1>1, <1>3, <1>4
    <2>2. ids[Min(hits)] \in Range(ids)
        BY <2>1 DEF Range
    <2> QED  BY <2>1, <2>2
<1>5. ASSUME FirstOwners(ids, owned) = {}, NEW o \in orgs, NEW x \in Range(ids), x \in owned[o]
      PROVE  FALSE
    <2>1. PICK i \in DOMAIN ids : ids[i] = x
        BY <1>5 DEF Range
    <2>2. o \in Owners(i) /\ i \in hits
        BY <1>5, <2>1
    <2> QED  BY <1>1, <1>3, <1>5, <2>2
<1> QED  BY <1>4, <1>5

LEMMA RangeNotEmpty ==
    ASSUME NEW S, NEW s \in Seq(S), s # <<>>
    PROVE  Range(s) # {} /\ Range(s) \subseteq S
<1>1. 1 \in DOMAIN s
    OBVIOUS
<1>2. s[1] \in Range(s)
    BY <1>1 DEF Range
<1> QED  BY <1>2 DEF Range

\* A new organization is keyed on an identifier that was observed.
LEMMA KeyObserved ==
    ASSUME NEW obs \in Observations
    PROVE  \/ \E d \in Range(obs.domains) : d \in Domains /\ OrgKey(obs) = <<"domain", d>>
           \/ \E g \in Range(obs.githubs) : g \in Githubs /\ OrgKey(obs) = <<"github", g>>
           \/ obs.domains = <<>> /\ obs.githubs = <<>> /\ OrgKey(obs) = <<"name", obs.name>>
<1>1. obs.domains \in Seq(Domains) /\ obs.githubs \in Seq(Githubs)
    BY ObservationAssumption DEF Observation
<1>2. CASE obs.domains # <<>>
    <2>1. Range(obs.domains) # {} /\ Range(obs.domains) \subseteq Domains
        BY <1>1, <1>2, RangeNotEmpty
    <2>2. Min(Range(obs.domains)) \in Range(obs.domains)
        BY <2>1, MinIsMember, IdentifierAssumption
    <2> QED  BY <1>2, <2>1, <2>2 DEF OrgKey
<1>3. CASE obs.domains = <<>> /\ obs.githubs # <<>>
    <2>1. Range(obs.githubs) # {} /\ Range(obs.githubs) \subseteq Githubs
        BY <1>1, <1>3, RangeNotEmpty
    <2>2. Min(Range(obs.githubs)) \in Range(obs.githubs)
        BY <2>1, MinIsMember, IdentifierAssumption
    <2> QED  BY <1>3, <2>1, <2>2 DEF OrgKey
<1>4. CASE obs.domains = <<>> /\ obs.githubs = <<>>
    BY <1>4 DEF OrgKey
<1> QED  BY <1>2, <1>3, <1>4

\* How an organization is chosen: by what it owns, or it is made of its key when
\* no organization owns any of the identifiers.
LEMMA OrgCases ==
    ASSUME NEW obs \in Observations, NEW org \in ResolvedOrgs(obs)
    PROVE  \/ org \in orgs /\ Range(obs.domains) \cap orgDomains[org] # {}
           \/ org \in orgs /\ Range(obs.githubs) \cap orgGithubs[org] # {}
           \/ /\ org = OrgKey(obs)
              /\ \A o \in orgs : /\ Range(obs.domains) \cap orgDomains[o] = {}
                                 /\ Range(obs.githubs) \cap orgGithubs[o] = {}
<1>1. obs.domains \in Seq(Domains) /\ obs.githubs \in Seq(Githubs)
    BY ObservationAssumption DEF Observation
<1>2. CASE org \in FirstOwners(obs.domains, orgDomains)
    BY <1>1, <1>2, OwnersFound
<1>3. CASE org \in FirstOwners(obs.githubs, orgGithubs)
    BY <1>1, <1>3, OwnersFound
<1>4. CASE /\ FirstOwners(obs.domains, orgDomains) = {}
           /\ FirstOwners(obs.githubs, orgGithubs) = {}
           /\ org = OrgKey(obs)
    BY <1>1, <1>4, OwnersFound
<1> QED  BY <1>2, <1>3, <1>4 DEF ResolvedOrgs

\* An organization that was there is chosen only for what it owned by then.
LEMMA OwnerShares ==
    ASSUME Owned, NEW obs \in Observations, NEW org \in ResolvedOrgs(obs), org \in orgs
    PROVE  SharesIdentifier(obs, org)
<1>1. CASE \/ Range(obs.domains) \cap orgDomains[org] # {}
           \/ Range(obs.githubs) \cap orgGithubs[org] # {}
    BY <1>1 DEF SharesIdentifier
<1>2. CASE /\ org = OrgKey(obs)
           /\ \A o \in orgs : /\ Range(obs.domains) \cap orgDomains[o] = {}
                              /\ Range(obs.githubs) \cap orgGithubs[o] = {}
    <2>1. ASSUME NEW d \in Range(obs.domains), d \in Domains, org = <<"domain", d>>
          PROVE  FALSE
        BY <1>2, <2>1 DEF Owned
    <2>2. ASSUME NEW g \in Range(obs.githubs), g \in Githubs, org = <<"github", g>>
          PROVE  FALSE
        BY <1>2, <2>2 DEF Owned
    <2>3. obs.domains = <<>> /\ obs.githubs = <<>> /\ org = <<"name", obs.name>>
        BY <1>2, <2>1, <2>2, KeyObserved
    <2> QED  BY <2>3 DEF SharesIdentifier
<1> QED  BY <1>1, <1>2, OrgCases

\* A new organization starts with what it is keyed on.
LEMMA OwnedStep ==
    ASSUME TypeOK, Owned, [Next]_vars
    PROVE  Owned'
<1>1. CASE Unlinked
    BY <1>1 DEF Unlinked, orgVars, Owned
<1>2. ASSUME NEW obs \in Observations, NEW org \in OrgIds, NEW cand \in Candidates,
             org \in ResolvedOrgs(obs), Attach(obs, org, cand)
      PROVE  Owned'
    <2>1. /\ orgs' = orgs \cup {org}
          /\ Range(obs.domains) \subseteq orgDomains'[org]
          /\ Range(obs.githubs) \subseteq orgGithubs'[org]
          /\ \A o \in OrgIds : orgDomains[o] \subseteq orgDomains'[o] /\ orgGithubs[o] \subseteq orgGithubs'[o]
        BY <1>2 DEF Attach, MergeOrgIdentifiers, TypeOK
    <2>2. org \notin orgs => org = OrgKey(obs)
        BY <1>2, OrgCases
    <2>3. ASSUME NEW d \in Domains, <<"domain", d>> \in orgs'
          PROVE  d \in orgDomains'[<<"domain", d>>]
        <3>1. <<"domain", d>> \in OrgIds
            BY DEF OrgIds
        <3>2. CASE <<"domain", d>> \in orgs
            BY <2>1, <3>1, <3>2 DEF Owned
        <3>3. CASE <<"domain", d>> \notin orgs
            <4>1. org = <<"domain", d>> /\ OrgKey(obs) = <<"domain", d>>
                BY <2>1, <2>2, <2>3, <3>3
            <4>2. d \in Range(obs.domains)
                BY <4>1, KeyObserved
            <4> QED  BY <2>1, <4>1, <4>2
        <3> QED  BY <3>2, <3>3
    <2>4. ASSUME NEW g \in Githubs, <<"github", g>> \in orgs'
          PROVE  g \in orgGithubs'[<<"github", g>>]
        <3>1. <<"github", g>> \in OrgIds
            BY DEF OrgIds
        <3>2. CASE <<"github", g>> \in orgs
            BY <2>1, <3>1, <3>2 DEF Owned
        <3>3. CASE <<"github", g>> \notin orgs
            <4>1. org = <<"github", g>> /\ OrgKey(obs) = <<"github", g>>
                BY <2>1, <2>2, <2>4, <3>3
            <4>2. g \in Range(obs.githubs)
                BY <4>1, KeyObserved
            <4> QED  BY <2>1, <4>1, <4>2
        <3> QED  BY <3>2, <3>3
    <2> QED  BY <2>3, <2>4 DEF Owned
<1> QED  BY <1>1, <1>2, NextGrows

\* A candidate is found by its genesis, or is one of the organization's.
LEMMA CandidateCases ==
    ASSUME TypeOK, NEW obs \in Observations, NEW org \in OrgIds, NEW cand \in ResolvedCandidates(obs, org)
    PROVE  \/ cand \in FindByGenesis(obs.chain, obs.genesis)
           \/ cand \in SameOrgMatches(obs, org)
           \/ cand = <<org, obs.slug>> /\ Collisions(obs, org) = FindAllByCaip2(obs.chain)
BY DEF ResolvedCandidates, Collisions

LEMMA LinkedShares ==
    ASSUME TypeOK, Owned, NEW obs \in Observations, NEW org \in OrgIds,
           org \in ResolvedOrgs(obs), NEW cand \in ResolvedCandidates(obs, org), OrgOf(cand) \in orgs
    PROVE  SharesIdentifier(obs, OrgOf(cand)) \/ SharesGenesis(obs, cand)
<1>1. CASE cand \in FindByGenesis(obs.chain, obs.genesis)
    BY <1>1 DEF FindByGenesis, SharesGenesis
<1>2. CASE OrgOf(cand) = org
    BY <1>2, OwnerShares
<1>3. ASSUME cand = <<org, obs.slug>> PROVE OrgOf(cand) = org
    BY <1>3 DEF OrgOf
<1> QED  BY <1>1, <1>2, <1>3, CandidateCases DEF SameOrgMatches

\* What LinkJustified says of one step.
Justified ==
    /\ \A l \in links' \ links :
        OrgOf(l[2]) \in orgs => SharesIdentifier(l[1], OrgOf(l[2])) \/ SharesGenesis(l[1], l[2])
    /\ \A org \in orgs :
        (orgDomains'[org] # orgDomains[org] \/ orgGithubs'[org] # orgGithubs[org]) =>
            \E obs \in Observations :
                /\ SharesIdentifier(obs, org)
                /\ orgDomains'[org] = orgDomains[org] \cup Range(obs.domains)
                /\ orgGithubs'[org] = orgGithubs[org] \cup Range(obs.githubs)

LEMMA JustifiedStep ==
    ASSUME TypeOK, Owned, [Next]_vars
    PROVE  Justified
<1>1. CASE Unlinked
    BY <1>1 DEF Unlinked, orgVars, candVars, Justified
<1>2. ASSUME NEW obs \in Observations, NEW org \in OrgIds, NEW cand \in Candidates,
             org \in ResolvedOrgs(obs), cand \in ResolvedCandidates(obs, org), Attach(obs, org, cand)
      PROVE  Justified
    <2>1. ASSUME NEW l \in links' \ links, OrgOf(l[2]) \in orgs
          PROVE  SharesIdentifier(l[1], OrgOf(l[2])) \/ SharesGenesis(l[1], l[2])
        <3>1. l = <<obs, cand>>
            BY <1>2 DEF Attach
        <3> QED  BY <1>2, <2>1, <3>1, LinkedShares
    <2>2. ASSUME NEW o \in orgs, orgDomains'[o] # orgDomains[o] \/ orgGithubs'[o] # orgGithubs[o]
          PROVE  /\ SharesIdentifier(obs, o)
                 /\ orgDomains'[o] = orgDomains[o] \cup Range(obs.domains)
                 /\ orgGithubs'[o] = orgGithubs[o] \cup Range(obs.githubs)
        <3>1. /\ orgDomains' = [orgDomains EXCEPT ![org] = @ \cup Range(obs.domains)]
              /\ orgGithubs' = [orgGithubs EXCEPT ![org] = @ \cup Range(obs.githubs)]
            BY <1>2 DEF Attach, MergeOrgIdentifiers
        <3>2. o = org
            BY <2>2, <3>1 DEF TypeOK
        <3> QED  BY <1>2, <3>1, <3>2, OwnerShares DEF TypeOK
    <2> QED  BY <2>1, <2>2 DEF Justified
<1> QED  BY <1>1, <1>2, NextGrows

\* No observation is merged on its name or its chain ID alone: before it was
\* linked to a candidate of a known organization, it shared a domain or a GitHub
\* organization with that organization or a genesis with the candidate; and the
\* identifiers of an organization grow by such observations only.
THEOREM LinksJustified == Spec => LinkJustified
<1>1. Init => Owned
    BY DEF Init, Owned
<1>2. TypeOK /\ Owned /\ [Next]_vars => Owned'
    BY OwnedStep
<1>3. TypeOK /\ Owned /\ [Next]_vars => Justified
    BY JustifiedStep
<1> QED  BY <1>1, <1>2, <1>3, TypeCorrect, PTL DEF Spec, LinkJustified, Justified

-----------------------------------------------------------------------------
(* One chain ID, two organizations *)

\* What CollisionFlagged says of two candidates.
Flagged2(c1, c2) ==
    \/ /\ Raised(<<"chain_id_collision", c1, c2>>)
       /\ <<c1, "chain_id_collision">> \in signals
    \/ /\ Raised(<<"chain_id_collision", c2, c1>>)
       /\ <<c2, "chain_id_collision">> \in signals

\* A chain ID is known of registered networks only, and those have a candidate.
Registered ==
    /\ \A n \in NetIds : netChain[n] # None => n \in nets
    /\ \A n \in nets : CandOf(n) \in cands

CollisionInv == TypeOK /\ Registered /\ CollisionFlagged

LEMMA FlaggedStays ==
    ASSUME Keeps, NEW c1 \in Candidates, NEW c2 \in Candidates, Flagged2(c1, c2)
    PROVE  Flagged2(c1, c2)'
<1>1. <<"chain_id_collision", c1, c2>> \in TaskKeys /\ <<"chain_id_collision", c2, c1>> \in TaskKeys
    BY DEF TaskKeys
<1> QED  BY <1>1 DEF Keeps, Flagged2

\* The candidate that an observation is attached to conflicts with nobody on
\* its chain ID that it did not conflict with, or the collision is raised.
LEMMA AttachFlags ==
    ASSUME CollisionInv, NEW obs \in Observations, NEW org \in OrgIds, NEW cand \in Candidates,
           cand \in ResolvedCandidates(obs, org), Attach(obs, org, cand),
           NEW n \in nets, netChain[n] = obs.chain, obs.chain # None,
           OrgOf(CandOf(n)) # OrgOf(cand)
    PROVE  Flagged2(CandOf(n), cand)'
<1>1. Keeps /\ TypeOK /\ CandOf(n) \in Candidates
    BY AttachGrows, CandidateParts DEF CollisionInv, Grows, TypeOK
<1>2. ASSUME NEW m \in NetsOf(cand), netChain[m] = obs.chain
      PROVE  Flagged2(CandOf(n), cand)'
    <2>1. m \in nets /\ CandOf(m) = cand
        BY DEF NetsOf
    <2>2. Flagged2(CandOf(n), cand)
        BY <1>2, <2>1 DEF CollisionInv, CollisionFlagged, Flagged2
    <2> QED  BY <1>1, <2>2, FlaggedStays
<1>3. CASE cand \in FindByGenesis(obs.chain, obs.genesis)
    BY <1>2, <1>3 DEF FindByGenesis
<1>4. CASE cand \in SameOrgMatches(obs, org)
    BY <1>2, <1>4 DEF SameOrgMatches, FindAllByCaip2
<1>5. CASE cand = <<org, obs.slug>> /\ Collisions(obs, org) = FindAllByCaip2(obs.chain)
    <2> DEFINE net  == <<cand, obs.env>>
               keys == CollisionKeys(obs, org) \cup WeakNameKeys(obs, org, cand)
                           \cup ChainChangedKeys(net, obs.chain) \cup ResetKeys(net, obs.genesis)
    <2>1. CandOf(n) \in Collisions(obs, org)
        BY <1>5 DEF FindAllByCaip2, NetsOf, CollisionInv, Registered
    <2>2. <<"chain_id_collision", CandOf(n), cand>> \in keys
        BY <1>5, <2>1 DEF CollisionKeys
    <2>3. keys \in SUBSET TaskKeys
        <3>1. net \in NetIds /\ obs.genesis \in Genesis \cup {None}
            BY ObservationAssumption DEF Observation, NetIds
        <3> QED  BY <1>1, <3>1, KeysTyped, ResetKeysTyped
    <2>4. OpenTasks(keys)
        BY DEF Attach
    <2>5. Raised(<<"chain_id_collision", CandOf(n), cand>>)'
        BY <2>2, <2>3, <2>4, OpenTasksRaises
    <2>6. <<CandOf(n), "chain_id_collision">> \in signals'
        BY <2>1 DEF Attach
    <2> QED  BY <2>5, <2>6 DEF Flagged2
<1> QED  BY <1>1, <1>3, <1>4, <1>5, CandidateCases

LEMMA RegisteredStep == ASSUME TypeOK, Registered, [Next]_vars PROVE Registered'
<1>1. CASE Unlinked
    BY <1>1 DEF Unlinked, netVars, candVars, Registered
<1>2. ASSUME NEW obs \in Observations, NEW org \in OrgIds, NEW cand \in Candidates, Attach(obs, org, cand)
      PROVE  Registered'
    <2> DEFINE net == <<cand, obs.env>>
    <2>1. net \in NetIds /\ CandOf(net) = cand
        BY ObservationAssumption DEF Observation, NetIds, CandOf
    <2>2. \A n \in NetIds \ {net} : netChain'[n] = netChain[n]
        BY <1>2, <2>1 DEF Attach, ChainAfter, TypeOK
    <2>3. nets' = nets \cup {net} /\ cands' = cands \cup {cand}
        BY <1>2 DEF Attach
    <2> QED  BY <2>1, <2>2, <2>3 DEF Registered
<1> QED  BY <1>1, <1>2, NextGrows

LEMMA CollisionStep == ASSUME CollisionInv, [Next]_vars PROVE CollisionFlagged'
<1>1. TypeOK /\ Registered /\ CollisionFlagged
    BY DEF CollisionInv
<1>2. Grows /\ Keeps
    BY <1>1, NextGrows DEF Grows
<1>3. ASSUME NEW n1 \in nets, NEW n2 \in nets, OrgOf(CandOf(n1)) # OrgOf(CandOf(n2)),
             netChain[n1] # None, netChain[n1] = netChain[n2]
      PROVE  Flagged2(CandOf(n1), CandOf(n2))'
    <2>1. CandOf(n1) \in Candidates /\ CandOf(n2) \in Candidates
        BY <1>1, CandidateParts DEF TypeOK
    <2>2. Flagged2(CandOf(n1), CandOf(n2))
        BY <1>1, <1>3 DEF CollisionFlagged, Flagged2
    <2> QED  BY <1>2, <2>1, <2>2, FlaggedStays
<1>4. CASE Unlinked
    BY <1>3, <1>4 DEF Unlinked, netVars, CollisionFlagged, Flagged2
<1>5. ASSUME NEW obs \in Observations, NEW org \in OrgIds, NEW cand \in Candidates,
             cand \in ResolvedCandidates(obs, org), Attach(obs, org, cand)
      PROVE  CollisionFlagged'
    <2> DEFINE net == <<cand, obs.env>>
    <2>1. net \in NetIds /\ CandOf(net) = cand
        BY ObservationAssumption DEF Observation, NetIds, CandOf
    <2>2. \A n \in NetIds \ {net} : netChain'[n] = netChain[n]
        BY <1>5, <2>1 DEF Attach, ChainAfter, TypeOK
    <2>3. nets' = nets \cup {net} /\ nets \subseteq NetIds
        BY <1>1, <1>5 DEF Attach, TypeOK
    <2>4. netChain'[net] = netChain[net] \/ netChain'[net] = obs.chain
        BY <1>1, <1>5, <2>1 DEF Attach, ChainAfter, TypeOK
    <2>5. ASSUME NEW n \in nets \ {net}, OrgOf(CandOf(n)) # OrgOf(cand),
                 netChain'[net] # None, netChain'[net] = netChain'[n]
          PROVE  Flagged2(CandOf(n), cand)'
        <3>1. netChain'[n] = netChain[n]
            BY <2>2, <2>3
        <3>2. CASE netChain'[net] = netChain[net]
            <4>1. net \in nets
                BY <1>1, <2>1, <2>5, <3>2 DEF Registered
            <4> QED  BY <1>3, <2>1, <2>5, <3>1, <3>2, <4>1
        <3>3. CASE netChain'[net] = obs.chain
            BY <1>5, <2>5, <3>1, <3>3, AttachFlags
        <3> QED  BY <2>4, <3>2, <3>3
    <2>6. ASSUME NEW n1 \in nets', NEW n2 \in nets', OrgOf(CandOf(n1)) # OrgOf(CandOf(n2)),
                 netChain'[n1] # None, netChain'[n1] = netChain'[n2]
          PROVE  Flagged2(CandOf(n1), CandOf(n2))'
        <3>1. CASE n1 # net /\ n2 # net
            BY <1>3, <2>2, <2>3, <2>6, <3>1
        <3>2. CASE n1 = net /\ n2 # net
            BY <2>1, <2>3, <2>5, <2>6, <3>2 DEF Flagged2
        <3>3. CASE n1 # net /\ n2 = net
            BY <2>1, <2>3, <2>5, <2>6, <3>3
        <3> QED  BY <2>6, <3>1, <3>2, <3>3
    <2> QED  BY <2>6 DEF CollisionFlagged, Flagged2
<1> QED  BY <1>1, <1>4, <1>5, NextGrows

\* Two organizations never hold networks of one chain ID unnoticed: whatever
\* the order in which sources publish them, the collision was put before an
\* analyst under one of the two candidates and its risk signal is raised.
THEOREM CollisionsFlagged == Spec => []CollisionFlagged
<1>1. Init => CollisionInv
    BY InitTyped DEF Init, CollisionInv, Registered, CollisionFlagged
<1>2. CollisionInv /\ [Next]_vars => CollisionInv'
    BY NextTyped, RegisteredStep, CollisionStep DEF CollisionInv
<1>3. CollisionInv => CollisionFlagged
    BY DEF CollisionInv
<1> QED  BY <1>1, <1>2, <1>3, PTL DEF Spec
=============================================================================
