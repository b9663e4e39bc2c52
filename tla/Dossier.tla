------------------------------ MODULE Dossier ------------------------------
(***************************************************************************)
(* The dossier of one candidate: it is built from the documents that the   *)
(* collectors bring, in any order and repeatedly, restaged, assessed and   *)
(* rescored with each of them, probed, enriched with funding, overridden   *)
(* by an analyst and rebuilt at night, while its evidence ages.            *)
(* The sessions on the candidate follow one another (ScoreLedger and       *)
(* IngestRun overlap them); VERIFY_INLINE is off, its default.             *)
(***************************************************************************)
EXTENDS Scoring, Collectors, Africa, Funding

CONSTANTS
    Stories,        \* [docs, raises, news, days]: documents, known raises, articles on
                    \* raises, the days on which something may happen
    Decisions,      \* [label, total]: what an analyst may set
    NoCandidate

Envs == {"mainnet", "testnet", "devnet"}

AllSources == {EthereumLists, Superchain, CosmosRegistry, Blockscout, Hyperlane, Axelar,
               CAIPNamespaces, ChainIdNetwork, Indexers, GitHubSearch, RSSFeeds, WebSearch,
               JobBoards, Bluesky, RecentlyFunded}

Documents == UNION {s.docs : s \in Stories}

Days == UNION {s.days : s \in Stories}
Date == Days \cup {NoDate}

Document ==
    [source: {s.id : s \in AllSources}, words: SUBSET STRING, entry: BOOLEAN, active: BOOLEAN,
     test: BOOLEAN, id: BOOLEAN, rpc: BOOLEAN, site: BOOLEAN, owner: BOOLEAN, link: BOOLEAN,
     created: Date, merged: Date, stage: Stages, announced: Date,
     item: [id: Nat, content: Nat], text: Text]

\* A raise comes from the funding enricher, an article from the live search.
ASSUME DossierAssumption ==
    /\ Documents # {}
    /\ Documents \subseteq Document
    /\ \A s \in Stories : /\ \A raise \in s.raises : raise.source = "funding_enricher" /\ raise.date \in Date
                          /\ \A article \in s.news : article.date \in Date
                          /\ 0 \in s.days /\ s.days \subseteq Nat
    /\ Decisions \subseteq [label : Labels, total : 0..100]

VARIABLES
    today,
    story,          \* what there is to find out
    cand,           \* the candidate and its organization, networks and assessment
    held,           \* environments of the networks in the open session's object
    state,          \* the state of its current snapshot
    elsewhere       \* raises that are on record as evidence of a namesake

vars == <<today, story, cand, held, state, elsewhere>>

NoObject == {"none"}

Present(date) == date # NoDate

Known == cand # NoCandidate

-----------------------------------------------------------------------------
(* Resolution *)

\* The organization is found by a shared domain or repository, or by its name
\* when it has neither; every other document is another candidate's.
Resolves(obs) ==
    Known => \/ obs.domain /\ cand.domain
             \/ obs.repo /\ cand.repo
             \/ ~ (obs.domain \/ obs.repo \/ cand.domain \/ cand.repo)

Earliest(dates) == CHOOSE d \in dates : \A e \in dates : d <= e

\* upsert_candidate: a new row, its first_seen_at from the first claim there is.
Created(obs) ==
    [stage |-> obs.stage, domain |-> FALSE, repo |-> FALSE, nets |-> {},
     created |-> NoDate, opened |-> NoDate, merged |-> NoDate, testnet |-> NoDate,
     announced |-> NoDate, live |-> NoDate,
     first |-> IF Present(obs.since) THEN obs.since
               ELSE IF Present(obs.created) THEN obs.created
               ELSE IF Present(obs.opened) THEN obs.opened ELSE today,
     verified |-> FALSE, genesis |-> FALSE, collision |-> FALSE,
     vector |-> Vector(NoText, FALSE, FALSE, FALSE), total |-> 0, label |-> "A4",
     confidence |-> 0, override |-> FALSE, events |-> {}, rounds |-> {}]

Merged(c, obs) == [c EXCEPT !.domain = @ \/ obs.domain, !.repo = @ \/ obs.repo]

\* A network per environment; what it did not know is filled in.
Networked(c, obs) ==
    LET known == {n \in c.nets : n.env = obs.env}
        net   == [env |-> obs.env, id  |-> obs.id \/ \E n \in known : n.id,
                                   rpc |-> obs.rpc \/ \E n \in known : n.rpc]
    IN  [c EXCEPT !.nets = (@ \ known) \cup {net}]

EnvsOf(c) == {n.env : n \in c.nets}

\* append_evidence and its link: a known external id keeps its row.
Linked(c, source, family, key) ==
    IF \E e \in c.events : e.key = key THEN c
    ELSE [c EXCEPT !.events = @ \cup {[source |-> source, family |-> family, key |-> key, day |-> today]}]

KeyOf(doc) ==
    LET source == CHOOSE s \in AllSources : s.id = doc.source
    IN  <<doc.source, ExternalId(source, doc.item)>>

-----------------------------------------------------------------------------
(* Lifecycle *)

Once(old, new) == IF Present(old) THEN old ELSE new

\* Mutant: the launch of the mainnet is replaced as its announcement is.
ClaimedAfresh(c, obs) ==
    [c EXCEPT !.created   = Once(@, obs.created),
              !.opened    = Once(@, obs.opened),
              !.testnet   = Once(@, obs.testnet),
              !.announced = IF obs.announces THEN obs.announced ELSE @,
              !.live      = IF obs.announces THEN obs.live ELSE @]

\* Mutant: dates that are not there are not filtered out.
ClaimedUnfiltered(c, obs) ==
    [c EXCEPT !.first = Earliest({@, obs.created, obs.opened, obs.testnet, obs.since})]

\* update_timestamps_from_claims: dates are set once, but the announcement of a
\* mainnet is replaced, also by none.
Claimed(c, obs) ==
    LET d == [c EXCEPT !.created   = Once(@, obs.created),
                       !.opened    = Once(@, obs.opened),
                       !.merged    = Once(@, obs.merged),
                       !.testnet   = Once(@, obs.testnet),
                       !.announced = IF obs.announces THEN obs.announced ELSE @,
                       !.live      = Once(@, obs.live)]
    IN  [d EXCEPT !.first = Earliest({d.first, d.created, d.opened, d.testnet, obs.since} \ {NoDate})]

EarlyMainnetDays == 180

\* compute_current_stage over the networks that the session's object has; no
\* collector claims has_incentive, and every network is public.
Stage(c, envs) ==
    IF Present(c.live) THEN IF c.live + EarlyMainnetDays >= today THEN "S5" ELSE "S6"
    ELSE IF Present(c.announced) THEN "S4"
    ELSE IF Present(c.testnet) \/ "testnet" \in envs THEN "S2"
    ELSE IF Present(c.opened) \/ Present(c.created) \/ "devnet" \in envs THEN "S1"
    ELSE "S0"

\* Mutant: the stage of the first observation stands.
StagedOnce(c, envs) == c

Staged(c, envs) == [c EXCEPT !.stage = Stage(c, envs)]

-----------------------------------------------------------------------------
(* Africa *)

LabelRank(label) ==
    CASE label = "A4" -> 0 [] label = "A3" -> 1 [] label = "A2" -> 2 [] label = "A1" -> 3 [] label = "A5" -> 4

Larger(m, n) == IF m >= n THEN m ELSE n

ActivityFamilies == {"code_search", "careers", "official_web", "registry", "infrastructure"}

OfficialFamily(family) == family \in {"registry", "official_web"}

\* _classify_africa: every component keeps its maximum, the label its strongest
\* claim; an analyst's decision stands.
Assessed(c, obs, text) ==
    LET official == OfficialFamily(obs.family)
        new      == Vector(text, official, obs.contact \/ c.domain,
                           {e.family : e \in c.events} \cap ActivityFamilies # {})
        vector   == [part \in DOMAIN new |-> Larger(c.vector[part], new[part])]
        label    == Label(text, official)
        stronger == LabelRank(label) >= LabelRank(c.label)
    IN  IF c.override THEN c
        ELSE [c EXCEPT !.label      = IF stronger THEN label ELSE @,
                       !.confidence = IF stronger THEN LabelConfidence(text, official) ELSE @,
                       !.vector     = vector,
                       !.total      = Total(vector)]

-----------------------------------------------------------------------------
(* Scoring *)

\* What the scoring rules see of the candidate, with the networks in the
\* session's object.  No collector gives a token label or a social handle.
View(c, envs) ==
    LET nets == {n \in c.nets : n.env \in envs}
    IN  [domain |-> c.domain, repo |-> c.repo, social |-> FALSE,
         pr |-> Present(c.opened), merged |-> Present(c.merged),
         network |-> \E n \in nets : n.id \/ n.rpc, rpc |-> \E n \in nets : n.rpc,
         genesis |-> c.genesis, fingerprint |-> c.verified, collision |-> c.collision,
         testnet |-> Present(c.testnet) \/ \E n \in nets : n.env = "testnet",
         announced |-> Present(c.announced), live |-> Present(c.live), token |-> FALSE,
         stage |-> c.stage, africa |-> c.total, label |-> c.label,
         events |-> {[family |-> e.family, source |-> e.source, key |-> e.key,
                      age |-> today - e.day] : e \in c.events}]

\* The rescore of a session of its own.
Standing(c, outcome) == Rescored(View(c, EnvsOf(c)), outcome)

\* scoring_engine.evaluate called on its own: no risk, no verification, no block.
EvaluatedAlone(facts) == State([facts EXCEPT !.fingerprint = FALSE], NoCheck, 0, FALSE)

-----------------------------------------------------------------------------

Init ==
    /\ today = 0
    /\ story \in Stories
    /\ cand = NoCandidate
    /\ held = NoObject
    /\ state = "NEW"
    /\ elsewhere = {}

\* process_raw_item.  A session that had loaded a known candidate keeps the
\* networks it loaded, the one that this item adds is not among them; same says
\* that the item finds the object of the item before, in the same session.
Observe(doc, same) ==
    LET obs  == Reads(doc)
        net  == Networked(Merged(IF Known THEN cand ELSE Created(obs), obs), obs)
        envs == IF ~ Known THEN EnvsOf(net) ELSE IF same THEN held ELSE EnvsOf(cand)
        c    == Assessed(Staged(Claimed(Linked(net, doc.source, obs.family, KeyOf(doc)), obs), envs),
                         obs, IF obs.text THEN doc.text ELSE NoText)
    IN  /\ Resolves(obs)
        /\ same => held # NoObject
        /\ cand' = c
        /\ held' = envs
        /\ state' = Rescored(View(c, envs), NoCheck)
        /\ UNCHANGED <<today, story, elsewhere>>

DayPasses ==
    /\ \E day \in story.days : today < day /\ today' = day
    /\ held' = NoObject
    /\ UNCHANGED <<story, cand, state, elsewhere>>

\* Another candidate's document claims the network's identity.
CollisionRaised ==
    /\ Known
    /\ cand' = [cand EXCEPT !.collision = TRUE]
    /\ held' = NoObject
    /\ UNCHANGED <<today, story, state, elsewhere>>

\* POST /candidates/{id}/verify stamps the candidate and does not rescore it.
VerifyRequested ==
    /\ Known
    /\ \E n \in cand.nets : n.rpc
    /\ cand' = [cand EXCEPT !.verified = TRUE]
    /\ held' = NoObject
    /\ UNCHANGED <<today, story, state, elsewhere>>

\* The caller probes, then it rescores: a success stamps last_verified_at, a
\* genesis that was served makes an incarnation; a mismatch counts as a failure.
Probed ==
    /\ Known
    /\ \E n \in cand.nets : n.rpc
    /\ \/ \E live, genesis \in BOOLEAN :
            /\ cand' = [cand EXCEPT !.verified = TRUE, !.genesis = @ \/ genesis]
            /\ state' = Standing(cand', [NoCheck EXCEPT !.fingerprint = TRUE, !.live = live])
       \/ \E mismatch \in BOOLEAN, failures \in 1..2 :
            /\ state' = Standing(cand, [NoCheck EXCEPT !.mismatch = mismatch, !.failures = failures])
            /\ UNCHANGED cand
    /\ held' = NoObject
    /\ UNCHANGED <<today, story, elsewhere>>

\* _job_full_reconciliation and _job_staleness_sweep pass no verification.
Rebuilt ==
    /\ Known
    /\ state' = Standing(cand, NoCheck)
    /\ held' = NoObject
    /\ UNCHANGED <<today, story, cand, elsewhere>>

\* The analyst's label and, where given, score; the current snapshot is
\* rewritten by an evaluation that is not told the label.
Overridden(decision) ==
    /\ Known
    /\ cand' = [cand EXCEPT !.label = decision.label, !.total = decision.total, !.override = TRUE]
    /\ state' = EvaluatedAlone([View(cand', EnvsOf(cand)) EXCEPT !.label = "A4"])
    /\ held' = NoObject
    /\ UNCHANGED <<today, story, elsewhere>>

\* Known raises go by the candidate's name; only without one is the news asked.
Raises ==
    IF story.raises # {} THEN story.raises ELSE UNION {Reported(article) : article \in story.news}

RaiseKey(raise) == <<raise.source, raise.id>>

\* A raise goes by the slug and the name: the evidence of it is linked to the
\* candidate that it is found for first, and to no other.
Evidenced(c, raise) ==
    IF RaiseKey(raise) \in elsewhere THEN c
    ELSE Linked(c, raise.source, "capital", RaiseKey(raise))

\* enrich_candidate, one raise at a time: it is evidence of today and a round,
\* and the candidate is evaluated anew.
Enriched(raise) ==
    LET key == RaiseKey(raise)
    IN  /\ Known
        /\ cand' = [Evidenced(cand, raise) EXCEPT
                        !.rounds = Recorded(@, raise, Present(raise.date), key)]
        /\ state' = EvaluatedAlone(View(cand', EnvsOf(cand)))
        /\ held' = NoObject
        /\ UNCHANGED <<today, story, elsewhere>>

\* enrich_candidate of another organization's candidate of the same name.
NamesakeEnriched(raise) ==
    /\ Known => RaiseKey(raise) \notin {e.key : e \in cand.events}
    /\ elsewhere' = elsewhere \cup {RaiseKey(raise)}
    /\ held' = NoObject
    /\ UNCHANGED <<today, story, cand, state>>

Next ==
    \/ \E doc \in story.docs, same \in BOOLEAN : Observe(doc, same)
    \/ DayPasses
    \/ CollisionRaised
    \/ VerifyRequested
    \/ Probed
    \/ Rebuilt
    \/ \E raise \in Raises : Enriched(raise) \/ NamesakeEnriched(raise)
    \/ \E decision \in Decisions : Overridden(decision)

Spec == Init /\ [][Next]_vars

-----------------------------------------------------------------------------
(* Properties *)

Funders == {"funding_enricher", "funding_live_search"}

AllRaises == UNION {s.raises \cup UNION {Reported(article) : article \in s.news} : s \in Stories}

Keys == {KeyOf(doc) : doc \in Documents} \cup {RaiseKey(raise) : raise \in AllRaises}

Net == [env: Envs, id: BOOLEAN, rpc: BOOLEAN]

Event ==
    [source: {s.id : s \in AllSources} \cup Funders,
     family: {s.family : s \in AllSources} \cup {"capital"}, key: Keys, day: Days]

Round == [what: {raise.what : raise \in AllRaises}, date: Date, evidence: Keys]

Features == [geo: Nat, action: Nat, use: Nat, contact: Nat, capacity: Nat]

Candidate ==
    [stage: Stages, domain: BOOLEAN, repo: BOOLEAN, nets: SUBSET Net, created: Date, opened: Date,
     merged: Date, testnet: Date, announced: Date, live: Date, first: Days, verified: BOOLEAN,
     genesis: BOOLEAN, collision: BOOLEAN, vector: Features, total: 0..100, label: Labels,
     confidence: 0..100, override: BOOLEAN, events: SUBSET Event, rounds: SUBSET Round]

ASSUME CandidateAssumption == NoCandidate \notin Candidate

TypeOK ==
    /\ today \in Days
    /\ story \in Stories
    /\ held = NoObject \/ held \subseteq Envs
    /\ state \in States \cup {"NEW"}
    /\ elsewhere \subseteq {RaiseKey(raise) : raise \in AllRaises}
    /\ Known => /\ cand \in Candidate
                /\ \A e \in cand.events : e.day <= today

\* PENALTY_*: whatever the dossier holds, a mismatch that a probe reports or
\* endpoints that fail twice never lift the state that the rescore gives.
RiskNeverHelps ==
    Known => \A fingerprint, live \in BOOLEAN :
        LET told(mismatch, failures) == [fingerprint |-> fingerprint, live |-> live,
                                         mismatch |-> mismatch, failures |-> failures]
        IN  Rank(Standing(cand, told(TRUE, 2))) <= Rank(Standing(cand, told(FALSE, 0)))

\* rescore_candidate: a document that is new evidence never costs the candidate
\* its state, whichever threshold, cap, stage or TTL it moves; only a mainnet
\* that goes live, that is seen again half a year later, or whose announcement
\* is withdrawn may.
FindingNeverHurts ==
    [][Known /\ cand'.events # cand.events /\ today' = today
          /\ cand'.live = cand.live /\ (Present(cand.announced) => Present(cand'.announced))
          /\ (cand'.stage = "S6" => cand.stage = "S6")
       => Rank(Standing(cand, NoCheck)') >= Rank(Standing(cand, NoCheck))]_vars

\* half_life_days, is_stale: nothing but new findings brings a candidate up.
TimeNeverHelps ==
    [][Known /\ today' # today
       => Rank(Standing(cand, NoCheck)') <= Rank(Standing(cand, NoCheck))]_vars

\* is_stale: "STALE is about evidence age, not about scoring low" - whatever is
\* probed, rebuilt, overridden or seen again, a STALE candidate comes back by
\* evidence of the day only, or in a stage of another TTL.
StaleNeedsEvidence ==
    [][state = "STALE" /\ state' \notin {"STALE", "REJECT"}
       => \/ \E e \in cand'.events \ cand.events : e.day = today
          \/ TTL(cand'.stage) > TTL(cand.stage)]_vars

\* _assign_label: whatever the candidate was observed in, its label says A1
\* only if one official source named both a place and an intent.
LabelEarned ==
    Known /\ cand.label = "A1" /\ ~ cand.override
    => \E doc \in story.docs :
        LET obs == Reads(doc)
        IN  /\ obs.text /\ OfficialFamily(obs.family)
            /\ HasGeography(doc.text) /\ Intent(doc.text)
            /\ \E e \in cand.events : e.key = KeyOf(doc)

CapitalKeys == {e.key : e \in {e \in cand.events : e.family = "capital"}}

\* record_funding_round "idempotently": however often and by which articles a
\* raise is found, one date of it makes one round.  The analyst guide wants its
\* evidence "linked to every funding round"; the code links it for the candidate
\* that the raise is found for first, so that it is in the dossier of this one or
\* else on record with a namesake, and never linked to both.
RoundsTraceable ==
    Known =>
        /\ \A r \in cand.rounds : r.evidence \in CapitalKeys \cup elsewhere
        /\ CapitalKeys \cap elsewhere = {}
        /\ \A r, q \in cand.rounds : r.what = q.what /\ r.date = q.date => r = q

StageRank(stage) == CHOOSE n \in 0..6 : stage = <<"S0", "S1", "S2", "S3", "S4", "S5", "S6">>[n + 1]

\* compute_current_stage reads the networks of a session's object, which lacks
\* the one just added: the stage still never says more than the dossier does.
StageEvidenced ==
    Known => StageRank(cand.stage) <= StageRank(Stage(cand, EnvsOf(cand)))

\* A stage that was reached is left backwards only when a later document
\* withdraws the announcement of the mainnet.
StageNeverFalls ==
    [][Known /\ StageRank(cand'.stage) < StageRank(cand.stage)
       => Present(cand.announced) /\ ~ Present(cand'.announced)]_vars
=============================================================================
