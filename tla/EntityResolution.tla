-------------------------- MODULE EntityResolution --------------------------
(***************************************************************************)
(* How observations become organizations, candidates, networks and         *)
(* incarnations (src/core/resolver.py), and what the resolver leaves for   *)
(* an analyst: review tasks and risk signals.                              *)
(*                                                                         *)
(* One Ingest step is one upsert_candidate call, with everything it calls; *)
(* the ingest jobs run it inside one transaction.  VerifyIdentity is a     *)
(* probe whose genesis reaches register_incarnation; ResolveTask is the    *)
(* analyst's POST /review_tasks/{id}/resolve.                              *)
(***************************************************************************)
EXTENDS Naturals, Sequences, FiniteSetsExt, Functions

CONSTANTS
    Domains,        \* effective domains, as numbers: their order is the sort order
    Githubs,        \* GitHub organizations, likewise
    Names,          \* normalized names
    Slugs,          \* canonical slugs
    Chains,         \* CAIP-2 identifiers (namespace and chain ID together)
    Genesis,        \* genesis fingerprints
    Envs,           \* network environments, each with its protocol namespace
    None,           \* an identifier the observation does not carry
    Observations    \* the observations that sources may publish

Observation == [name: Names, slug: Slugs, domains: Seq(Domains), githubs: Seq(Githubs),
                chain: Chains \cup {None}, env: Envs, genesis: Genesis \cup {None},
                rpc: BOOLEAN]           \* whether it publishes an RPC endpoint

ASSUME IdentifierAssumption ==
    /\ Domains \subseteq Nat
    /\ Githubs \subseteq Nat
    /\ None \notin Chains
    /\ None \notin Genesis
ASSUME ObservationAssumption == Observations \subseteq Observation

\* stable_uuid: an identifier is a function of its key parts, so it is the key.
OrgIds     == ({"domain"} \X Domains) \cup ({"github"} \X Githubs) \cup ({"name"} \X Names)
Candidates == OrgIds \X Slugs
NetIds     == Candidates \X Envs
IncIds     == NetIds \X Genesis

OrgOf(cand) == cand[1]
CandOf(net) == net[1]

VARIABLES
    orgs,           \* organizations that exist
    orgDomains,     \* official_domains of each
    orgGithubs,     \* github_orgs of each
    cands,          \* chain products that exist
    aliases,        \* names each has been observed under
    nets,           \* networks that exist
    netChain,       \* caip2 of each (None while unknown)
    served,         \* networks with a published RPC endpoint (rpc_urls)
    incStatus,      \* status of each incarnation of each network
    supersededBy,   \* superseded_by_id of each incarnation
    tasks,          \* review tasks: <<type, candidate, related, status>>
    signals,        \* active negative signals: <<candidate, type>>
    links           \* observation links: <<evidence, candidate>>

orgVars  == <<orgs, orgDomains, orgGithubs>>
candVars == <<cands, aliases, links>>
netVars  == <<nets, netChain, served>>
incVars  == <<incStatus, supersededBy>>
vars     == <<orgVars, candVars, netVars, incVars, tasks, signals>>

NoRelated == <<>>
TaskTypes == {"chain_id_collision", "weak_name_match", "chain_id_changed",
              "network_reset_or_collision"}

TaskKeys ==
    ({"chain_id_collision", "weak_name_match"} \X Candidates \X Candidates)
        \cup ({"chain_id_changed"} \X Candidates \X {NoRelated})
        \cup ({"network_reset_or_collision"} \X Candidates \X IncIds)

\* The row of a task key in a given status; the unique constraint on
\* (task_type, candidate_id, related_candidate_id, status) makes rows a set.
Row(key, status) == <<key[1], key[2], key[3], status>>
KeyOfRow(row)    == <<row[1], row[2], row[3]>>
Raised(key)      == \E s \in {"open", "resolved"} : Row(key, s) \in tasks

TypeOK ==
    /\ orgs \subseteq OrgIds
    /\ orgDomains \in [OrgIds -> SUBSET Domains]
    /\ orgGithubs \in [OrgIds -> SUBSET Githubs]
    /\ cands \subseteq Candidates
    /\ aliases \in [Candidates -> SUBSET Names]
    /\ nets \subseteq NetIds
    /\ netChain \in [NetIds -> Chains \cup {None}]
    /\ served \subseteq nets
    /\ incStatus \in [NetIds -> [Genesis -> {"none", "active", "superseded"}]]
    /\ supersededBy \in [NetIds -> [Genesis -> Genesis \cup {None}]]
    /\ \A row \in tasks : /\ KeyOfRow(row) \in TaskKeys
                          /\ row = Row(KeyOfRow(row), row[4])
                          /\ row[4] \in {"open", "resolved"}
    /\ signals \subseteq Candidates \X {"chain_id_collision", "genesis_changed"}
    /\ links \subseteq Observations \X Candidates

Init ==
    /\ orgs = {}
    /\ orgDomains = [o \in OrgIds |-> {}]
    /\ orgGithubs = [o \in OrgIds |-> {}]
    /\ cands = {}
    /\ aliases = [c \in Candidates |-> {}]
    /\ nets = {}
    /\ netChain = [n \in NetIds |-> None]
    /\ served = {}
    /\ incStatus = [n \in NetIds |-> [g \in Genesis |-> "none"]]
    /\ supersededBy = [n \in NetIds |-> [g \in Genesis |-> None]]
    /\ tasks = {}
    /\ signals = {}
    /\ links = {}

-----------------------------------------------------------------------------
(* Organizations *)

\* The organizations that own the first of ids that anyone owns: the lookup
\* takes .first() of an unordered result, so any of them may be returned.
FirstOwners(ids, owned) ==
    LET Owners(i) == {o \in orgs : ids[i] \in owned[o]}
        hits == {i \in DOMAIN ids : Owners(i) # {}}
    IN  IF hits = {} THEN {} ELSE Owners(Min(hits))

\* Mutant: a new organization is keyed on its name, which another may share.
OrgKeyByName(obs) == <<"name", obs.name>>

\* The key of a new organization: the strongest identifier observed.
OrgKey(obs) ==
    IF obs.domains # <<>> THEN <<"domain", Min(Range(obs.domains))>>
    ELSE IF obs.githubs # <<>> THEN <<"github", Min(Range(obs.githubs))>>
    ELSE <<"name", obs.name>>

ResolvedOrgs(obs) ==
    LET byDomain == FirstOwners(obs.domains, orgDomains)
        byGithub == FirstOwners(obs.githubs, orgGithubs)
    IN  IF byDomain # {} THEN byDomain
        ELSE IF byGithub # {} THEN byGithub
        ELSE {OrgKey(obs)}

\* _merge_org_identifiers, and the creation of the row, accumulate alike.
MergeOrgIdentifiers(org, obs) ==
    /\ orgs' = orgs \cup {org}
    /\ orgDomains' = [orgDomains EXCEPT ![org] = @ \cup Range(obs.domains)]
    /\ orgGithubs' = [orgGithubs EXCEPT ![org] = @ \cup Range(obs.githubs)]

-----------------------------------------------------------------------------
(* Candidates *)

NetsOf(cand) == {n \in nets : CandOf(n) = cand}

FindAllByCaip2(chain) ==
    {c \in cands : chain # None /\ \E n \in NetsOf(c) : netChain[n] = chain}

FindByGenesis(chain, genesis) ==
    {c \in cands : /\ chain # None
                   /\ genesis # None
                   /\ \E n \in NetsOf(c) : /\ netChain[n] = chain
                                           /\ incStatus[n][genesis] # "none"}

\* Mutant: a CAIP-2 match merges whatever the organization.
SameOrgMatchesAnyOrg(obs, org) == FindAllByCaip2(obs.chain)

SameOrgMatches(obs, org) == {c \in FindAllByCaip2(obs.chain) : OrgOf(c) = org}

\* The candidates that the observation may be attached to.
ResolvedCandidates(obs, org) ==
    LET byGenesis == FindByGenesis(obs.chain, obs.genesis)
        sameOrg   == SameOrgMatches(obs, org)
    IN  IF byGenesis # {} THEN byGenesis
        ELSE IF sameOrg # {} THEN sameOrg
        ELSE {<<org, obs.slug>>}

\* Mutant: the collision check runs only for candidates that are created.
CollisionsOnCreate(obs, org) ==
    IF FindByGenesis(obs.chain, obs.genesis) = {} /\ SameOrgMatches(obs, org) = {}
       /\ <<org, obs.slug>> \notin cands
    THEN FindAllByCaip2(obs.chain) ELSE {}

\* Candidates of other organizations that already hold the observed CAIP-2,
\* when nothing ties the observation to one of them.
Collisions(obs, org) ==
    IF FindByGenesis(obs.chain, obs.genesis) = {} /\ SameOrgMatches(obs, org) = {}
    THEN FindAllByCaip2(obs.chain) ELSE {}

\* Mutant: the counterparty is named by its name instead of its slug.
CollisionKeysByName(obs, org) ==
    {<<"chain_id_collision", c, <<org, obs.name>>>> : c \in Collisions(obs, org)}

CollisionKeys(obs, org) ==
    {<<"chain_id_collision", c, <<org, obs.slug>>>> : c \in Collisions(obs, org)}

\* _flag_weak_name_match, called only before a candidate is created.
WeakNameKeys(obs, org, cand) ==
    {<<"weak_name_match", c, cand>> :
        c \in {x \in cands : cand \notin cands /\ obs.name \in aliases[x] /\ OrgOf(x) # org}}

-----------------------------------------------------------------------------
(* Networks and incarnations *)

\* The CAIP-2 of a network is written once; a later, different one only opens
\* a task.
ChainAfter(net, chain) ==
    IF netChain[net] = None THEN [netChain EXCEPT ![net] = chain] ELSE netChain

\* Mutant: the observed chain ID is compared after it was stored.
ChainChangedKeysAfterStore(net, chain) ==
    IF chain # None /\ [netChain EXCEPT ![net] = chain][net] # chain
    THEN {<<"chain_id_changed", CandOf(net), NoRelated>>} ELSE {}

ChainChangedKeys(net, chain) ==
    IF chain # None /\ netChain[net] \notin {None, chain}
    THEN {<<"chain_id_changed", CandOf(net), NoRelated>>} ELSE {}

Active(net) == {g \in Genesis : incStatus[net][g] = "active"}

\* The active incarnations that a genesis not seen before on net supersedes.
Superseded(net, genesis) ==
    IF genesis # None /\ incStatus[net][genesis] = "none" THEN Active(net) ELSE {}

\* Mutant: a known genesis that is seen again is made active in place.
RegisterIncarnationReactivate(net, genesis) ==
    IF genesis # None
    THEN /\ incStatus' = [incStatus EXCEPT ![net][genesis] = "active"]
         /\ UNCHANGED supersededBy
    ELSE UNCHANGED incVars

\* Mutant: a known genesis takes its place back from its successor.
RegisterIncarnationSwap(net, genesis) ==
    IF genesis # None
    THEN /\ incStatus' = [incStatus EXCEPT ![net] =
                [g \in Genesis |-> IF g = genesis THEN "active"
                                   ELSE IF @[g] = "active" THEN "superseded"
                                   ELSE @[g]]]
         /\ supersededBy' = [supersededBy EXCEPT ![net] =
                [g \in Genesis |-> IF g \in Active(net) \ {genesis} THEN genesis ELSE @[g]]]
    ELSE UNCHANGED incVars

\* Mutant: the predecessors are selected after the new row is inserted.
RegisterIncarnationInsertFirst(net, genesis) ==
    IF genesis # None /\ incStatus[net][genesis] = "none"
    THEN /\ incStatus' = [incStatus EXCEPT ![net] =
                [g \in Genesis |-> IF g = genesis \/ @[g] = "active" THEN "superseded" ELSE @[g]]]
         /\ supersededBy' = [supersededBy EXCEPT ![net] =
                [g \in Genesis |-> IF g \in Superseded(net, genesis) \cup {genesis}
                                   THEN genesis ELSE @[g]]]
    ELSE UNCHANGED incVars

RegisterIncarnation(net, genesis) ==
    IF genesis # None /\ incStatus[net][genesis] = "none"
    THEN /\ incStatus' = [incStatus EXCEPT ![net] =
                [g \in Genesis |-> IF g = genesis THEN "active"
                                   ELSE IF @[g] = "active" THEN "superseded"
                                   ELSE @[g]]]
         /\ supersededBy' = [supersededBy EXCEPT ![net] =
                [g \in Genesis |-> IF g \in Superseded(net, genesis) THEN genesis ELSE @[g]]]
    ELSE UNCHANGED incVars

\* Mutant: the task names the incarnation that was superseded.
ResetKeysOfOld(net, genesis) ==
    {<<"network_reset_or_collision", CandOf(net), <<net, old>>>> : old \in Superseded(net, genesis)}

ResetKeys(net, genesis) ==
    IF Superseded(net, genesis) # {}
    THEN {<<"network_reset_or_collision", CandOf(net), <<net, genesis>>>>} ELSE {}

\* Mutant: one open task per type and candidate, whatever the counterparty.
OpenTasksPerCandidate(keys) ==
    tasks' = tasks \cup {Row(k, "open") :
        k \in {k \in keys : \A row \in tasks : row[1] # k[1] \/ row[2] # k[2]}}

\* open_review_task: an open task of the same key is reused, whatever became
\* of earlier ones.
OpenTasks(keys) == tasks' = tasks \cup {Row(k, "open") : k \in keys}

ResetSignals(net, genesis) ==
    IF Superseded(net, genesis) # {} THEN {<<CandOf(net), "genesis_changed">>} ELSE {}

-----------------------------------------------------------------------------
(* Actions *)

\* upsert_candidate, once the organization and the candidate are chosen.
Attach(obs, org, cand) ==
    LET net == <<cand, obs.env>>
    IN  /\ MergeOrgIdentifiers(org, obs)
        /\ cands' = cands \cup {cand}
        /\ aliases' = [aliases EXCEPT ![cand] = @ \cup {obs.name}]
        /\ nets' = nets \cup {net}
        /\ netChain' = ChainAfter(net, obs.chain)
        /\ served' = IF obs.rpc THEN served \cup {net} ELSE served
        /\ RegisterIncarnation(net, obs.genesis)
        /\ OpenTasks(CollisionKeys(obs, org) \cup WeakNameKeys(obs, org, cand)
                       \cup ChainChangedKeys(net, obs.chain) \cup ResetKeys(net, obs.genesis))
        /\ signals' = signals \cup {<<c, "chain_id_collision">> : c \in Collisions(obs, org)}
                              \cup ResetSignals(net, obs.genesis)
        /\ links' = links \cup {<<obs, cand>>}

Ingest(obs) ==
    \E org \in ResolvedOrgs(obs) :
        \E cand \in ResolvedCandidates(obs, org) : Attach(obs, org, cand)

\* apply_verified_identity: an endpoint of net returned this genesis.
VerifyIdentity(net, genesis) ==
    /\ RegisterIncarnation(net, genesis)
    /\ OpenTasks(ResetKeys(net, genesis))
    /\ signals' = signals \cup ResetSignals(net, genesis)
    /\ UNCHANGED <<orgVars, candVars, netVars>>

\* resolve_review_task: the row moves to "resolved", which the unique
\* constraint refuses when the same decision was already taken once.
Resolvable(row) == row[4] = "open" /\ Row(KeyOfRow(row), "resolved") \notin tasks

ResolveTask(row) ==
    /\ Resolvable(row)
    /\ tasks' = (tasks \ {row}) \cup {Row(KeyOfRow(row), "resolved")}
    /\ UNCHANGED <<orgVars, candVars, netVars, incVars, signals>>

Next ==
    \/ \E obs \in Observations : Ingest(obs)
    \/ \E net \in served, genesis \in Genesis : VerifyIdentity(net, genesis)
    \/ \E row \in tasks : ResolveTask(row)

Spec == Init /\ [][Next]_vars
-----------------------------------------------------------------------------
(* Properties *)

\* A network that was ever fingerprinted has exactly one active incarnation:
\* register_incarnation supersedes every active predecessor of a new genesis.
OneActive ==
    \A n \in NetIds :
        (\E g \in Genesis : incStatus[n][g] # "none") => \E a \in Genesis : Active(n) = {a}

\* superseded_by_id leads somewhere: no set of superseded incarnations of a
\* network is closed under it, so following it ends at the active one.
SupersessionEndsActive ==
    \A n \in NetIds :
        LET gone == {g \in Genesis : incStatus[n][g] = "superseded"}
        IN  /\ \A g \in gone : /\ supersededBy[n][g] \in Genesis
                              /\ incStatus[n][supersededBy[n][g]] # "none"
            /\ \A S \in SUBSET gone : S # {} => \E g \in S : supersededBy[n][g] \notin S

\* Every supersession was put before an analyst, with the incarnation that
\* caused it, and the risk scorer can see it (runbook "Testnet reset").
ResetFlagged ==
    \A n \in NetIds, g \in Genesis :
        incStatus[n][g] = "superseded" =>
            /\ Raised(<<"network_reset_or_collision", CandOf(n), <<n, supersededBy[n][g]>>>>)
            /\ <<CandOf(n), "genesis_changed">> \in signals

\* Whenever two organizations hold networks with one CAIP-2, the collision was
\* raised against one of the two candidates and names the other.
CollisionFlagged ==
    \A n1, n2 \in nets :
        LET c1 == CandOf(n1)
            c2 == CandOf(n2)
        IN  (OrgOf(c1) # OrgOf(c2) /\ netChain[n1] # None /\ netChain[n1] = netChain[n2]) =>
                \/ /\ Raised(<<"chain_id_collision", c1, c2>>)
                   /\ <<c1, "chain_id_collision">> \in signals
                \/ /\ Raised(<<"chain_id_collision", c2, c1>>)
                   /\ <<c2, "chain_id_collision">> \in signals

\* What ties an observation to an organization, or to a candidate, as the tables
\* are: an official identifier, a name when none was observed, a genesis.
SharesIdentifier(obs, org) ==
    \/ Range(obs.domains) \cap orgDomains[org] # {}
    \/ Range(obs.githubs) \cap orgGithubs[org] # {}
    \/ obs.domains = <<>> /\ obs.githubs = <<>> /\ org = <<"name", obs.name>>

SharesGenesis(obs, cand) ==
    /\ obs.genesis # None
    /\ \E n \in NetsOf(cand) : incStatus[n][obs.genesis] # "none"

\* No record is merged on a name or a chain ID alone.  What counts is what was
\* known before the step, since the step itself writes the identifiers of the
\* observation to the organization it chose: an observation is linked to a
\* candidate of an organization that was there only if one of its identifiers was
\* that organization's already, or its genesis the candidate's; and an
\* organization acquires identifiers only from such an observation.
LinkJustified ==
    [][/\ \A l \in links' \ links :
            OrgOf(l[2]) \in orgs =>
                SharesIdentifier(l[1], OrgOf(l[2])) \/ SharesGenesis(l[1], l[2])
       /\ \A org \in orgs :
            (orgDomains'[org] # orgDomains[org] \/ orgGithubs'[org] # orgGithubs[org]) =>
                \E obs \in Observations :
                    /\ SharesIdentifier(obs, org)
                    /\ orgDomains'[org] = orgDomains[org] \cup Range(obs.domains)
                    /\ orgGithubs'[org] = orgGithubs[org] \cup Range(obs.githubs)]_vars

\* No observed chain ID is lost: it is the one recorded for the network of the
\* candidate it was attached to, or the conflict was raised.
ChainConflictRecorded ==
    \A l \in links :
        l[1].chain # None =>
            \/ netChain[<<l[2], l[1].env>>] = l[1].chain
            \/ Raised(<<"chain_id_changed", l[2], NoRelated>>)

\* History is preserved: an incarnation keeps its place, and what superseded
\* it, for ever; a decision put before an analyst does not disappear.
HistoryKept ==
    [][/\ \A n \in NetIds, g \in Genesis :
            incStatus[n][g] = "superseded" =>
                /\ incStatus'[n][g] = "superseded"
                /\ supersededBy'[n][g] = supersededBy[n][g]
       /\ \A row \in tasks : Raised(KeyOfRow(row))']_vars

\* Whoever reports them, the incarnations of each network form one line whose
\* head is the active one, superseded_by_id is the order of the line, and a
\* reset task is raised for each change of head and for nothing else.
Line(net) == INSTANCE IncarnationLine WITH
    Members  <- Genesis,
    members  <- {g \in Genesis : incStatus[net][g] # "none"},
    head     <- IF Active(net) = {} THEN None ELSE CHOOSE g \in Active(net) : TRUE,
    next     <- supersededBy[net],
    reported <- {g \in Genesis : Raised(<<"network_reset_or_collision", CandOf(net), <<net, g>>>>)}

LineKept ==
    /\ \A net \in NetIds : Line(net)!Init
    /\ [][\A net \in NetIds : [Line(net)!Next]_(Line(net)!vars)]_vars

\* analyst-guide: an open task is resolved with POST .../resolve.
OpenTaskResolvable == \A row \in tasks : row[4] = "open" => Resolvable(row)
=============================================================================
