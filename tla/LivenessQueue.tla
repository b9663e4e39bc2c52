--------------------------- MODULE LivenessQueue ---------------------------
(***************************************************************************)
(* Liveness of published endpoints: the ledger of probe observations, the  *)
(* inline probes of the ingest (round 1), the scheduled recheck that works *)
(* through the endpoints due for their second observation (round 2), and   *)
(* the verdict that compares the two newest observations of an endpoint.   *)
(* The chains behind the endpoints advance, stall and are replaced on      *)
(* their own, and any probe may fail.  The recheck runs in one session     *)
(* that commits when the whole queue is through.                           *)
(***************************************************************************)
EXTENDS Adapters, Integers, FiniteSets

CONSTANTS
    Endpoints,
    Candidates,
    Serves,         \* the endpoint each candidate publishes
    FamilyOf,       \* the families the candidates of an endpoint may be of
    MayServe,       \* the chains that can be behind each endpoint: [id, genesis]
    Published,      \* the chain id a candidate publishes, if it does
    NoId,           \* it publishes none
    Limit,          \* endpoints_due_for_recheck(limit)
    MinGap,         \* liveness_recheck_min_seconds, in clock ticks
    MaxTime,        \* bound: clock ticks; the last MinGap see no inline probe
    MaxHeight,      \* bound: blocks of a chain
    MaxFirst,       \* bound: inline probes
    MaxFaults       \* bound: recheck sessions that roll back

Chain   == UNION {MayServe[e] : e \in Endpoints}
Ids     == {c.id : c \in Chain} \cup {c.genesis : c \in Chain}
Missed  == {"None", "unknown", "0", "aptos_genesis", "sui_genesis", "fuel_genesis"}
Heights == {NoHeight} \cup 0..MaxHeight

ASSUME QueueAssumption ==
    /\ \A e \in Endpoints : MayServe[e] # {}
    /\ Serves \in [Candidates -> Endpoints]
    /\ FamilyOf \in [Endpoints -> (SUBSET Families) \ {{}}]
    /\ Published \in [Candidates -> Ids \cup {NoId}]
    /\ {NoId, Missing, Failed} \cap Ids = {}
    /\ Limit \in Nat \ {0}
    /\ MinGap \in Nat
    /\ {MaxTime, MaxHeight, MaxFirst, MaxFaults} \subseteq Nat

VARIABLES
    now,            \* clock
    family,         \* what the candidates of each endpoint are of
    chain,          \* what serves at each endpoint: [is, height]
    obs,            \* verification_observations; nr stands for the order of observed_at
    due,            \* the first observations left in the running recheck's queue
    checking,       \* a recheck session is open
    verdict,        \* the liveness each candidate was rescored with last, the open session's rescores included
    stands,         \* the same as far as it is committed
    faults          \* rollbacks so far

vars == <<now, family, chain, obs, due, checking, verdict, stands, faults>>

\* recent_observations(limit=2)
Latest(rows) == {o \in rows : Cardinality({q \in rows : o.nr < q.nr}) < 2}

Newest(rows) == CHOOSE o \in rows : \A q \in rows : q.nr <= o.nr

\* A probe is observed after every other on record.
NextNr == IF obs = {} THEN 0 ELSE Newest(obs).nr + 1

Results == {"none", "awaiting", "failed", "unsupported", "stuck", "unstable", "live"}

Reports == Ids \cup Missed \cup {Missing}

Row ==
    [nr: Nat, ep: Endpoints, cand: Candidates, round: 1..2, ok: BOOLEAN,
     fingerprint: Reports \X Reports, height: Heights, at: Nat, open: BOOLEAN, served: Chain]

TypeOK ==
    /\ now \in 0..MaxTime
    /\ family \in [Endpoints -> Families]
    /\ chain \in [Endpoints -> [is: Chain, height: 0..MaxHeight]]
    /\ obs \subseteq Row /\ IsFiniteSet(obs)
    /\ NextNr \in Nat
    /\ \A o \in obs :
        /\ o.nr < NextNr /\ o.at <= now
        /\ \A q \in obs : (o.nr = q.nr => o = q) /\ (o.nr < q.nr => o.at <= q.at)
    /\ due \subseteq obs /\ Cardinality(due) <= Limit
    /\ checking \in BOOLEAN
    /\ due # {} => checking
    /\ {verdict, stands} \subseteq [Candidates -> [result: Results, pair: SUBSET Nat]]
    /\ faults \in 0..MaxFaults

NoVerdict == [result |-> "none", pair |-> {}]

Init ==
    /\ now = 0
    /\ family \in {f \in [Endpoints -> Families] : \A e \in Endpoints : f[e] \in FamilyOf[e]}
    /\ chain \in {c \in [Endpoints -> [is: Chain, height: {0}]] : \A e \in Endpoints : c[e].is \in MayServe[e]}
    /\ obs = {}
    /\ due = {}
    /\ checking = FALSE
    /\ verdict = [c \in Candidates |-> NoVerdict]
    /\ stands = verdict
    /\ faults = 0

-----------------------------------------------------------------------------
(* The chains *)

Tick ==
    /\ now < MaxTime
    /\ now' = now + 1
    /\ UNCHANGED <<family, chain, obs, due, checking, verdict, stands, faults>>

Advance(e) ==
    /\ chain[e].height < MaxHeight
    /\ chain' = [chain EXCEPT ![e].height = @ + 1]
    /\ UNCHANGED <<now, family, obs, due, checking, verdict, stands, faults>>

\* Another network may take over, at whatever height it has.
Others(e) == [is: MayServe[e] \ {chain[e].is}, height: 0..MaxHeight]

Replace(e) ==
    /\ \E other \in Others(e) : chain' = [chain EXCEPT ![e] = other]
    /\ UNCHANGED <<now, family, obs, due, checking, verdict, stands, faults>>

-----------------------------------------------------------------------------
(* Probes and verdicts *)

\* The questions are awaited one by one, each family's in an order of its own, and
\* between any two of them another chain may take over: each is answered by the
\* chain before or the one after.  served is history: the chain asked for its genesis.
Full(before, after) ==
    {[id |-> i.is.id, genesis |-> g.is.genesis, head |-> h.height, served |-> g.is] :
        i, g, h \in {before, after}}

\* A node answers in full, or one of its answers lacks or fails.
Answers(e, after) ==
    LET full == Full(chain[e], after)
    IN  full \cup {[answer EXCEPT ![part] = lack] :
            answer \in full, part \in {"id", "genesis", "head"}, lack \in {Missing, Failed}}

Matches(c, probe) == Published[c] \in {NoId, probe.id}

\* probe_and_record: round 1 compares with the published identity.
Observation(c, node, round, open) ==
    LET probe == Probe(family[Serves[c]], node)
    IN  [nr |-> NextNr, ep |-> Serves[c], cand |-> c, round |-> round,
         ok |-> probe.ok /\ (round = 1 => Matches(c, probe)),
         fingerprint |-> Fingerprint(probe), height |-> probe.height, at |-> now, open |-> open,
         served |-> node.served]

\* A probe of the candidate's endpoint is recorded; after is what it leaves there.
Records(c, round, open) ==
    \E after \in {chain[Serves[c]]} \cup Others(Serves[c]) :
        /\ chain' = [chain EXCEPT ![Serves[c]] = after]
        /\ \E node \in Answers(Serves[c], after) :
            obs' = obs \cup {Observation(c, node, round, open)}

\* What a session sees of an endpoint: committed rows, and its own.
SeenOf(rows, e, own) == {o \in rows : o.ep = e /\ (o.open => own)}

Two(rows) == \E o, q \in rows : o # q

Stable(rows) == \A o, q \in rows : o.fingerprint = q.fingerprint

Advancing(rows) == \A o, q \in rows : o.nr < q.nr => o.height < q.height

\* evaluate_liveness over the two newest observations.
Compare(seen) ==
    LET pair == Latest(seen)
    IN  [result |-> IF ~ Two(pair) THEN "awaiting"
                    ELSE IF \E o \in pair : ~ o.ok THEN "failed"
                    ELSE IF \E o \in pair : o.height = NoHeight THEN "unsupported"
                    ELSE IF ~ Advancing(pair) THEN "stuck"
                    ELSE IF ~ Stable(pair) THEN "unstable"
                    ELSE "live",
         pair   |-> {o.nr : o \in pair}]

\* The candidate's liveness after its inline probe, which a failed one leaves out.
Rescored(c) ==
    IF \E o \in obs' \ obs : o.ok THEN Compare(SeenOf(obs', Serves[c], FALSE)) ELSE NoVerdict

\* The ingest probes what the candidate publishes, where VERIFY_INLINE says so,
\* and rescores it.
FirstProbe(c) ==
    /\ Cardinality({o \in obs : o.round = 1}) < MaxFirst
    /\ now + MinGap <= MaxTime
    /\ Records(c, 1, FALSE)
    /\ \E v \in {Rescored(c)} :
        /\ verdict' = [verdict EXCEPT ![c] = v]
        /\ stands' = [stands EXCEPT ![c] = v]
    /\ UNCHANGED <<now, family, due, checking, faults>>

-----------------------------------------------------------------------------
(* The recheck *)

OldEnough(o) == o.round = 1 /\ o.ok /\ ~ o.open /\ o.at + MinGap <= now

\* The oldest rows, as many as the limit allows.
First(rows) == {o \in rows : Cardinality({q \in rows : q.nr < o.nr}) < Limit}

\* Mutant: the endpoint's rows are counted per candidate and round.
NeedsSecondOfRound(o) ==
    ~ Two({q \in obs : q.ep = o.ep /\ q.cand = o.cand /\ q.round = 1})

NeedsSecond(o) == ~ Two(SeenOf(obs, o.ep, FALSE))

\* Mutant: only what is young enough is due.
DueYoung ==
    First({o \in obs : o.round = 1 /\ o.ok /\ o.at + MinGap > now /\ NeedsSecond(o)})

\* endpoints_due_for_recheck: the limit first, the filter behind it.
Due == {o \in First({q \in obs : OldEnough(q)}) : NeedsSecond(o)}

RecheckStarts ==
    /\ ~ checking
    /\ Due # {}
    /\ checking' = TRUE
    /\ due' = Due
    /\ UNCHANGED <<now, family, chain, obs, verdict, stands, faults>>

\* The second probe of the oldest in the queue, its verdict and the rescore.
Recheck ==
    /\ checking
    /\ \E first \in due :
        /\ \A o \in due : first.nr <= o.nr
        /\ due' = due \ {first}
        /\ Records(first.cand, 2, TRUE)
        /\ verdict' = [verdict EXCEPT ![first.cand] = Compare(SeenOf(obs', first.ep, TRUE))]
    /\ UNCHANGED <<now, family, checking, stands, faults>>

RecheckCommits ==
    /\ checking
    /\ due = {}
    /\ checking' = FALSE
    /\ obs' = {[o EXCEPT !.open = FALSE] : o \in obs}
    /\ stands' = verdict
    /\ UNCHANGED <<now, family, chain, due, verdict, faults>>

\* Mutant: what is left of the queue is kept.
RecheckFailsKeeps ==
    /\ checking
    /\ faults < MaxFaults
    /\ faults' = faults + 1
    /\ checking' = FALSE
    /\ obs' = {o \in obs : ~ o.open}
    /\ verdict' = stands
    /\ UNCHANGED <<now, family, chain, due, stands>>

\* The session is lost: its observations and rescores with it.
RecheckFails ==
    /\ checking
    /\ faults < MaxFaults
    /\ faults' = faults + 1
    /\ checking' = FALSE
    /\ due' = {}
    /\ obs' = {o \in obs : ~ o.open}
    /\ verdict' = stands
    /\ UNCHANGED <<now, family, chain, stands>>

Chains == \E e \in Endpoints : Advance(e) \/ Replace(e)

Next ==
    \/ Tick
    \/ Chains
    \/ \E c \in Candidates : FirstProbe(c)
    \/ RecheckStarts
    \/ Recheck
    \/ RecheckCommits
    \/ RecheckFails

Spec == Init /\ [][Next]_vars

\* The clock runs, and the recheck's cron trigger fires again and again.
FairSpec ==
    /\ Spec
    /\ WF_vars(Tick)
    /\ WF_vars(RecheckStarts \/ Recheck \/ RecheckCommits)

-----------------------------------------------------------------------------
(* Properties *)

Reported(fingerprint) == fingerprint[1] \in Ids

\* A candidate is only called live on two observations of one identity at
\* growing heights, whatever the node leaves out of its answers and whatever
\* network replaces another behind it, between two probes or within one, unless
\* both leave out the genesis; both stay on record with the verdict, also when
\* the session that compared them is lost.  (A height may be that of a network
\* that took over after the genesis was read.)  The adapters name an identity that
\* is not reported; where a chain id is published such a name never makes a
\* candidate live.
LiveProven ==
    \A c \in Candidates : verdict[c].result = "live" =>
        \E older, newer \in obs :
            /\ verdict[c].pair = {older.nr, newer.nr}
            /\ older.nr < newer.nr
            /\ older.ep = Serves[c] /\ newer.ep = Serves[c]
            /\ older.height < newer.height
            /\ older.fingerprint = newer.fingerprint
            /\ Published[older.cand] # NoId => Reported(older.fingerprint)
            /\ older.served = newer.served \/ older.fingerprint[2] = Missing

\* The queue asks an endpoint for its second observation once, whichever
\* inline probes and lost sessions come in between.
OneRecheck ==
    \A o, q \in obs : o.round = 2 /\ q.round = 2 /\ o.ep = q.ep => o = q

\* What LiveProven rests on: endpoints behind which chains replace each other are
\* of a family that reads the genesis itself, and the genesis differs ...
ToldApart ==
    \A e \in Endpoints : \A a, b \in MayServe[e] :
        a # b => /\ a.genesis # b.genesis
                 /\ FamilyOf[e] \subseteq {"evm", "starknet", "substrate", "svm"}

\* ... and candidates of one endpoint publish a chain id all, or none of them.
IdsAlike ==
    \A c, d \in Candidates : Serves[c] = Serves[d] => (Published[c] = NoId <=> Published[d] = NoId)

FirstOk(e)  == \E o \in obs : o.ep = e /\ o.round = 1 /\ o.ok
TwoSeen(e)  == Two(SeenOf(obs, e, FALSE))

\* "Anything older than the upper bound is also returned so a missed scheduler
\* tick does not strand a candidate without a liveness verdict"
\* (endpoints_due_for_recheck): each endpoint that answered once is observed a
\* second time in the end.
NotStranded == \A e \in Endpoints : FirstOk(e) ~> TwoSeen(e)
=============================================================================
