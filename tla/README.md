# ChainRadar in TLA+

ChainRadar collects public observations about new blockchains (registries,
GitHub, news, job boards), resolves them into organisations, candidates and
networks, probes the endpoints they publish, scores the candidates and puts the
best ones, with everything that is ambiguous, before analysts. It is a Python
service (asyncio, SQLAlchemy, PostgreSQL, APScheduler, FastAPI).

This directory holds TLA+ modules of its core, the TLC configurations that
check them on small instances, and proofs that TLAPS checks. Source paths below
are relative to `src/src/`; documents are under `src/docs/`.

## 1. Inventory

| Component | State it keeps | Operations | Module |
|---|---|---|---|
| Entity resolution (`core/resolver.py`, `verifier/service.py:267`, `api/routes/review.py:99`) | organisations, candidates, networks, incarnations, review tasks, signals, links | `upsert_candidate`, `register_incarnation`, `apply_verified_identity`, `resolve_review_task` | EntityResolution, IncarnationLine |
| Collectors (`collectors/`, 15 of them) | none: what a source's answer becomes | `fetch`, `normalize` | Collectors |
| Ingest runs, ledger, cursors (`core/pipeline.py:458`, `storage/repository.py`, `scheduler/cadence.py:117`, `cli/main.py`) | `evidence_events`, `source_cursors`, the open transaction of each run | `run_collector_batch`, `append_evidence`, `save_cursor`, scan | IngestRun |
| Candidate dossier (`core/pipeline.py:79-310`, `core/lifecycle.py`, `api/routes/candidates.py`) | a candidate with its organisation, networks, dates, stage, assessment, evidence, rounds | process an item, probe, rebuild, enrich, override | Dossier |
| Africa classifier (`classifiers/africa.py`) | none | `classify` | Africa |
| Funding (`classifiers/funding.py`, `enrichment/funding.py`) | funding rounds and their evidence | `extract`, `enrich_candidate_funding`, `upsert_funding_round` | Funding |
| Scoring rules (`scoring/`, `classifiers/risk.py`, `core/pipeline.py:310`) | none: functions of a candidate and its probes | `calculate`, `evaluate`, `evaluate_risk`, `rescore_candidate` | Scoring |
| Score ledger and HOT alerts (`core/pipeline.py:355-453`, `api/routes/candidates.py`) | `score_snapshots`, `current_score_id`, `alert_dispatches` | rescore by six kinds of session, HOT alert, workflow transition, override | ScoreLedger, ScoreHistory |
| Verifier adapters (`verifier/adapters/`, `verifier/engine.py`) | none | `identity`, `genesis`, `head_height` of eight families | Adapters |
| Liveness (`verifier/service.py`, `scheduler/cadence.py:188`) | `verification_observations` | first probe, due queue, recheck, verdict | LivenessQueue |
| Contacts and suppression (`core/pipeline.py:136`, `api/routes/review.py:249`, `compliance/privacy.py`) | `contacts` | record, opt out (two ways), clean-up | Suppression |
| Scheduler, advisory locks (`scheduler/cadence.py`, `storage/database.py:168`) | one lock per job, the pool of connections | a job's window, `advisory_lock` | JobLock |
| Safe HTTP client (`verifier/safe_url.py`) | tokens, permits and Retry-After per domain | `acquire`, `_send` | planned |
| Other classifiers, activity enrichment, alert delivery, backtest, read routes, UI, CLI output, object store, migrations | none that the core reads back | reports, formatting, HTTP, files | not modelled |

How they meet: a run takes items from a collector (Collectors); for each it
appends evidence to the ledger (IngestRun), resolves it (EntityResolution),
records the contacts it names (Suppression), assesses and restages the
candidate (Dossier), may probe a published endpoint (Adapters, LivenessQueue)
and rescores the candidate (Scoring inside Dossier and ScoreLedger), all in the
run's transaction, which commits every `INGEST_COMMIT_EVERY` items and when the
cursor is saved. Beside it, scheduled jobs (JobLock) recheck endpoints, look for
funding and rescore all candidates, and analysts resolve tasks, change workflow
states, override assessments and enter opt-outs. All of them are sessions over
one PostgreSQL database at READ COMMITTED that may overlap; what a session has
loaded it keeps (`expire_on_commit=False`, identity map).

What is hard, and what correctness means for it:

* **Order of observation.** Conflicting projects may be seen in any order. No
  order may merge two of them, and every order must end with the conflict
  raised. Documents of different strength come in any order and again: stage and
  label follow from what was observed.
* **Resets.** A test network is reset again and again, seen by registries and by
  probes. One incarnation is active, the history stays and leads to it, and each
  reset is put before an analyst.
* **Crash, abort, retry, overlap.** A run may stop anywhere and another may work
  on the same source. The cursor never covers what was not processed, nothing is
  ledgered twice, and in the end everything is processed.
* **Objects that outlive their rows.** A session keeps the networks and the score
  it loaded first; an analyst decides while another session rescores.
* **Effects outside the transaction.** The webhook is posted before the commit.
* **Locks outside the transaction.** A session-level lock belongs to a connection,
  and a commit gives the connection away.
* **Thresholds and ageing.** More evidence must not lower a candidate's state,
  nor time or risk raise it.
* **Queues with a limit, and verdicts over a history** that other chains,
  incomplete answers, failures and lost sessions disturb.
* **Opt-outs** that must hold for all rows of a channel, now and later.

`PROJECT.json` lists every hazard with its line and the properties that cover
it, and those no property covers yet with the reason.

## 2. The modules

    Collectors <-- IngestRun        Scoring <-- ScoreLedger     Adapters <-- LivenessQueue
        ^                             ^
        +-- Dossier --+---------------+           IncarnationLine <-- EntityResolution
        |             v                              ScoreHistory <-- ScoreLedger
    Funding         Africa          Suppression    JobLock

    EntityResolution_proofs   IngestRun_proofs   ScoreLedger_proofs   LivenessQueue_proofs
    Dossier_proofs --> Scoring_proofs            Suppression_proofs   JobLock_proofs

**EntityResolution.** One variable per table. `stable_uuid` is injective, so an
identifier is the tuple it is hashed from: a candidate is (organisation key,
slug), a network (candidate, environment, where the environment stands for itself
with its protocol namespace), an incarnation (network, genesis).
`Ingest(obs)` is one `upsert_candidate` with everything it calls: organisation
lookup and merge, candidate by genesis, by CAIP-2 in the same organisation, by
slug; the collision, weak-name, changed-chain and reset tasks; the network and
its incarnation; the link. A lookup that takes `.first()` of an unordered
result may return any of the rows. `VerifyIdentity` is a probe whose genesis
reaches `register_incarnation`; `ResolveTask` is the analyst's route, with the
unique constraint as its guard. A task is open or resolved; names are compared
normalised.

**IncarnationLine** is the abstract specification of what the incarnations of one
network promise: they form one line; a genesis not seen before becomes its head,
the old head leads to it, and the change of head is reported, once and only then.
EntityResolution implements it for each network (`Line(n)` is the INSTANCE with
the refinement mapping, `LineKept` the property): the members are the network's
rows, the head is the active one, the successors are `superseded_by`, and what was
reported are the genesis hashes with a reset task.

**Collectors.** How each of the fifteen collectors fetches: its family, whether it
sends the stored etag, what the external id is made of (an id, an id and a
version, or a hash of the content), whether it swallows its own errors. And what
its `normalize` reads in a document: stage, environment, identifiers, anchors,
dates. Hosts, names and the budgets of paged searches are left out.

**IngestRun.** One source, runs that overlap, three drivers that differ in
their transactions (job, trigger, scan). The source has one of the collectors;
ids and etags are Collectors'. `StartRun` loads the cursor; `FetchSucceeds`,
`FetchSwallows` and `FetchRaises` are the ways a fetch ends; `ProcessItem` appends
one item and reaches a checkpoint or not; `ItemRaises` is an item whose parsing
fails; `InsertWaits`, `InsertRefused` and `Inserts` are PostgreSQL's unique index,
where an insert waits for an uncommitted row of the same key, is refused when it
commits, or when two wait for each other, and goes on at once, before a later
run, when the holder rolled back. `TransactionAborts` and
`Crash` may strike anywhere. `SaveCursor` commits what is pending with the
cursor. `Written` is SQLAlchemy's unit of work: an attribute set to the value it
was loaded with is not written. Resolution and scoring of an item are folded into
its step, since they commit with it. `givenUp` is a history variable: items that
a scan skipped or a swallowing fetch did not parse. The retries of a scan are
collapsed into their last attempt.

**Dossier.** One candidate from its first document on, in whole steps of
`process_raw_item`: normalize, link the evidence, add network and anchors, set the
lifecycle dates and the stage, assess Africa, rescore. `held` is the session's
object: SQLAlchemy keeps the networks it loaded first, so the stage and score of
the step that adds a network are computed without it. Probes, the nightly rebuild,
the funding enrichment (the list of known raises and the live search), the override
of an analyst and the passing of days are the other actions. The evidence of a raise is
keyed by slug and name (`RaiseKey`) and linked only where it is first recorded, so a
namesake of the candidate may have it: `elsewhere` holds the raises of which one does, and
`NamesakeEnriched` is the job on that candidate. Nothing takes an override back, whatever
the comment at `core/pipeline.py:186` ("until it expires") says: there is no column for an
expiry and no code that reads one. Sessions on the
candidate follow one another; `VERIFY_INLINE` is off, its default. **Africa** and
**Funding** are the classifiers it calls, over what a text has (a country, a
currency, a verb, an amount, ...), with their points and thresholds (**Points** has the capped sums that they share with
Scoring).

**Scoring** holds the rules as operators: confidence with its official, registry,
technical, corroboration and lifecycle parts and its freshness factor, momentum,
risk, radar and outreach score, the hard gate, the staleness TTL and the state.
Scores are scaled to integers (tenths of a percent); ages are whole days and the
decay is evaluated at whole half-lives.

**ScoreLedger.** One candidate and sessions of six kinds. A session loads the
candidate (and keeps what it saw), may probe, evaluates with Scoring's rules,
inserts its snapshot, takes the row lock by pointing the candidate at it, alerts
or not, and commits or rolls back. An ingest session may meet the candidate in
several items and rescores with each from the score it loaded first. The post of a
webhook is immediate and the record of it commits with the session. `Transition`
and `Override` are the analyst's routes; they write the snapshot they loaded, and only
where the value differs from the one loaded, since SQLAlchemy emits no UPDATE otherwise.
A `Plan` says which sessions there are and whether they overlap. The alert's
deduplication window is a day of the model.

**ScoreHistory** is the abstract specification of what the analyst guide promises of
that ledger ("Every rescore appends a snapshot rather than overwriting one"). A history
grows by whole units of work: `Publish` adds the scores of one, with the head on the last
of them and the alerts they caused, and changes nothing that was there; `Lose` adds
nothing, and what it lost never comes; `Amend` sets one column (state or workflow) of
one entry. It knows no sessions. ScoreLedger implements it under any overlap
(`History` is the INSTANCE, `LedgerKept` the property): an entry is a snapshot without
the columns an analyst may write, with its alert key for its evidence; the alerts are the
committed rows without their day and delivery; what was lost is `undone`. Sessions that
only read, rescore or post a webhook leave the history as it is.

**Adapters.** One probe, per protocol family: which questions it asks, what becomes
of an answer that lacks a part and of one that fails, and what the engine makes of
the result. **LivenessQueue** has endpoints, the chains behind them (which advance,
stall and are replaced), candidates that publish them, and the observations, a set of
rows whose `nr` stands for the order of `observed_at`: `NextNr`, `Latest` and `First`
are the queries' ORDER BY and LIMIT. A first probe is the ingest's; the recheck takes its queue (`Due`, with the
limit before the filter as in the query), probes each entry and commits at the
end. A probe asks for identity, height and genesis one by one, and a chain may be replaced
between two answers: each part is then the chain's before or the chain's after (`Answers`),
and a row's `served` is the chain that was asked for its genesis. `stands` are the verdicts
that are committed; a lost session falls back to them and leaves no trace. Between the two
observations lies `MinGap` at least, as the query has it; nothing in the code bounds the gap
from above, nor does the model. A node that reports no identity counts as one for a
candidate without a published chain id. `Compare` is `evaluate_liveness` on the last
two observations, which fails closed.

**JobLock.** Workers, their pools of connections (a queue, first in first out, with
overflow), and jobs whose window is guarded by PostgreSQL's session-level advisory
lock. The lock belongs to the connection that took it; a commit inside the job
returns the connection, and the next statement, the unlock too, runs on the one
that is first in the queue. A connection that comes back to a full pool is closed,
and its locks with it. Jobs enter, skip, checkpoint, fail, unlock and end; workers
crash and start anew.

**Suppression.** Ingest sessions that check a channel, then insert a row, then
commit; both routes to opt out, which read the rows of the channel, then update them and
commit (`request` is one on its way); ageing and the clean-up. All of them overlap. The
history variable `raced` holds the hashes whose last opt-out fell between a session's
check and its commit, or the commit between its two steps. `Fold` and `Lower` are
the two hashes in the code (casefold and lower); the runs take channels on which
they agree.

The `MC*` modules give the constants their values. Operators with the comment
"Mutant" are wrong variants of a definition; none is used by a specification.

## 3. The runs

| Run | Asks | Instance |
|---|---|---|
| `entity_resolution` | are links justified and conflicts raised in every order, do resets keep their history, and is each network one line? | 11 observations in two feeds: 7 about two projects that share names, slugs, chain ids, domains and a genesis; 4 resets of one project with probes and an analyst |
| `entity_resolve_twice` | can an open task be resolved? **violated** | the first feed |
| `ingest` | cursor, ledger and completeness under overlap and faults | 2 + 3 items in two versions of a source, one bad, in an order that lets two runs wait for each other, a job and an operator's run, one fault, three collectors that differ in etag and external id |
| `ingest_scan_skips` | does a scan skip nothing? **violated** | one scan, no other fault |
| `dossier` | do stage, label, rounds and state follow from what was observed, in every order? | eight stories with documents of all fifteen collectors, three articles on one raise, a listing, raises first found for namesakes, two decisions; days 0, 21 and 42, for one story 0, 91 and 182 |
| `score_ledger` | are decisions kept, alerts one for each entry into HOT and backed, and is the ledger the history it promises? | sessions of all six kinds in turn; four that overlap; two analysts and a funding rescore that overlap; three rescores, two days, one rollback |
| `score_ledger_decision` | is a decision kept under overlap? **violated** | one ingest, one analyst |
| `liveness` | are live verdicts proven and is nobody stranded? | three candidates on two endpoints of two families, chains replaced between probes and within one, a queue of two, one lost session |
| `liveness_starved` | with a queue shorter than the endpoints? **violated** | a queue of one |
| `suppression` | do recorded opt-outs cover their channel for good? | two channels, of which the owner of one opts out, two organisations, two sessions, three rows, all overlapping |
| `suppression_absent` | is every opt-out honoured? **violated** | one session, one route |
| `jobs_skipped` | is a window skipped only for another worker? **violated** | one worker, two jobs, two connections |

**What the dossier's properties say.** New evidence never lowers the state that the
next rescore would give, unless a mainnet goes live, is seen to have been live for half
a year, or an announcement is withdrawn (`FindingNeverHurts`), time never raises it (`TimeNeverHelps`), and neither does risk
(`RiskNeverHelps`). A stale candidate comes back by evidence of the day or by a stage
of a longer TTL (`StaleNeedsEvidence`). The label A1 is earned by one official document
that names both the place and the intent (`LabelEarned`). The stage says no more than
the dossier holds and falls only with a withdrawn announcement (`StageEvidenced`,
`StageNeverFalls`). One date of a raise makes one round, however often and by whatever
articles it is found, and the evidence of a round is in the dossier or a namesake's, never
in both (`RoundsTraceable`). That is less than the analyst guide says (section 5).

**Why the bounds are enough.** Each is chosen so that the interesting case
happens and its symmetric repetition does not: two projects suffice for a
conflict and three genesis hashes for a chain of supersessions; two runs suffice
for each race on the unique index, the deadlock included, and a batch of three with
a checkpoint every two has an item before, at and after a checkpoint; a second version of the
source makes a cursor stale; one fault at any point, against a system that
recovers by replay. A story has one to four documents, of which each may be read
again at any time, since what a dossier remembers of a document is monotone but for
the dates and the assessment, which a second one replaces. 21 and 42 days cross the
half-life and the momentum window; in the story `Matured` a mainnet passes the 180
days after which it counts as established. Its stage turns only when the next
document comes in, which may so lower the state: that is the second exception of
`FindingNeverHurts`, and without it TLC finds the property violated in this story.
`OneFeed` restricts the exploration to states that only one of the two feeds has
produced; each feed is explored completely. `OneOwner` restricts the exploration to opt-outs
of one channel: the rows of two channels share nothing but the supply of row ids, and the
other channel's sessions still run beside them. Three rows are two organisations and one
more that is inserted after an opt-out or in its place. Organisations, and sessions, are
interchangeable there (`Alike`), and no property of that run is a liveness property.
The passing runs have from 12 thousand states, each with many identifiers, to 3
million.

**Fairness.** IngestRun's `FairSpec`: the scheduler starts the job again and again
(cron trigger), a started run takes its steps (the event loop and the database
serve it), and an operator patches a broken parser (runbook). Faults and
operator runs have none. LivenessQueue's `FairSpec`: the clock ticks and the
recheck is started and goes on; the chains and the first probes have none. Its
runs, and `score_ledger`, switch the deadlock check off, since the model stops when
the clock has run out or the rescores are used up.

**What the violations say** (details in `PROJECT.json`):

* `OpenTaskResolvable`: the unique constraint covers closed tasks, so a decision that
  comes up a second time can be opened and never resolved.
* `NothingSkipped`: a scan saves the cursor behind items that failed; such an item is not
  fetched again until its source changes.
* `WorkflowYours`: a rescore that overlaps with an analyst's decision undoes it. It
  holds when sessions do not overlap (`WorkflowKept` in `score_ledger`, and proved), and the
  decision stays in the ledger (`DecisionOnRecord`).
* `NotStranded`: the limit of the queue comes before its filter; endpoints that are
  through keep their places. The code's limit is 50; the run's is 1.
* `OptOutHonoured`: the opt-out route changes rows and leaves nothing when there is
  none; the other path (`add_suppression`) leaves a row.
* `SkipJustified`: a job that commits unlocks on another connection than the one that
  locked. The lock stays with an idle connection of the same worker, and the worker
  skips its next window although nobody is in it.

## 4. The proofs

The theorems hold for all values of the constants that satisfy the named assumptions,
so for every number of observations, runs, sessions, items and days; the bounds of the
runs are constants among them. Each safety property is proved from an inductive
invariant that is stated in the proof module next to its theorem.

`EntityResolution_proofs` proves, for all sets of observations and identifiers
that satisfy `IdentifierAssumption` and `ObservationAssumption`:

* `TypeCorrect`: `Spec => []TypeOK`. It rests on lemmas about the operators: the key of
  an organisation, the organisations and candidates a lookup may return and the
  tasks that may be opened are well-typed. The smallest identifier of a set is
  one of its members because `<` is well-founded on the naturals.
* `IncarnationsInvariant`: `Spec => []IncInv`, with
  `IncInv == TypeOK /\ OneActive /\ SupersessionEndsActive /\ ResetFlagged`.
  The conjuncts need each other: that a new incarnation supersedes exactly one
  row is `OneActive` before the step; that the links end at the active one after
  it needs that they did before, and that the new row was not among them; that
  the reset is flagged needs the types of the task's key. The step is split into
  the ways incarnations change (`register_incarnation` of a new genesis, or
  nothing) and the ways tasks change (opened, resolved), each in a lemma that
  both `Ingest` and `VerifyIdentity` cite.
* `OneActiveAlways`, `SupersessionEnds`, `ResetAlwaysFlagged` follow from it, and
  `HistoryAlwaysKept` is the action property of the same invariant.
* `LinesKept`: `Spec` implements `IncarnationLine` for every network. The initial
  state maps to an empty line; a step that registers a new genesis maps to `Begin`
  (no row of the network yet) or `Succeed` (`OneActive` gives the head it replaces,
  the step's task gives the report), every other step, and the same step seen from
  another network, to a stutter.

It goes on with what the resolver may merge:

* `ConflictsRecorded` (`ChainConflictRecorded`) is inductive with `TypeOK`, once it is shown
  that identifiers, networks and tasks only grow (`Grows`): a reason once there stays.
* `LinksJustified` (`LinkJustified`) is about a step and the identifiers before it, since the
  step itself gives the organisation it chose the observation's. It needs that an
  organisation keyed on a domain or a GitHub organisation owns it (`Owned`), so that the key
  of an observation finds an organisation that is there only through an identifier; and
  that the lookups answer with owners, or with nobody if there is none (`OwnersFound`).
* `CollisionsFlagged` (`CollisionFlagged`) needs `Registered` as well: a chain id is known
  of registered networks only, and those have a candidate. A new conflict can only
  be with the candidate that the observation is attached to, and the tasks of that
  very step cover it.

`JobLock_proofs` proves, for all numbers of workers, jobs and connections:

* `TypeCorrect`: `Spec => []TypeOK`.
* `Exclusive`: with `PoolSize` positive, `Spec /\ []Fits => []WindowExclusive`: two
  workers are never in one window, wherever the commits and unlocks of their jobs
  land, as long as no pool is too full to take a connection back (`Fits`). The
  inductive invariant is `TypeOK /\ Pooled /\ Held /\ One`: an idle connection is in
  its queue once and is nobody's (`Pooled`), a worker in a window has a connection
  that has the lock (`Held`), and the connections that have one lock are one worker's
  (`One`). `Pooled` makes the unlock hit a connection of the worker's own; `Held`
  survives a checkpoint because the lock goes with the connection and the
  connection is kept. The premise is needed: with one pooled and one overflow
  connection TLC finds two workers in one window, after a connection with the lock
  was closed on its way back. The code allows overflow (`storage/database.py:80`, 10
  connections and 20 more), so the premise is about its load. Without overflow TLC
  finds `Fits` true in every state of two workers with two connections each.

`IngestRun_proofs` proves, for every feed that satisfies `FeedAssumption`, every
set of runs and every bound (`BoundAssumption`):

* `TypeCorrect`, with `TypeInv`: a session stands within its batch (`Placed`), and the
  failures of a source are counted within what failed (`Counted`).
* `CursorAlwaysSafe` (`CursorSafe`). The cursor is a promise about items of which some
  are still in open sessions, so the invariant follows the etag from where it is
  fetched: what the cursor of a session covers, as loaded, is settled; what its new etag
  covers is settled, processed and not yet committed, or still ahead in its batch
  (`CursorInv`). The two ways an etag is written, unit of work included, and the two
  ways a run loses its work then keep it.
* `RowsInvariant`, and from it `EventsOnce` (`OneRowPerEvent`) and `WorkBacked`
  (`Backed`). `RowsInv` says of the rows that are committed or flushed by any session
  that both unique keys hold (`Unique`) and that each is made of an item (`Made`), and of
  work that its evidence is committed with it or before it (`Rested`). Uniqueness over
  the open sessions is what makes it inductive: a commit publishes rows that were
  unique before.

`ScoreLedger_proofs` proves, for all candidates and overrides that satisfy
`FactsAssumption`, every finite set of sessions (`KindAssumption`) and every plan:

* `LedgerSound` and `TypeCorrect`, under any overlap: each rescore has a `calculated_at` of
  its own (`Stamped`), and what a session has in hand was made by itself from what it
  loaded (`TypeInv`). Rescores that are still to be stamped are counted, so that the
  bound on them holds.
* `AlertsBacked` (`AlertBacked`) and `PostsAccounted` (`PostsOnRecord`), under any overlap, from
  `AlertInv`: a row in hand comes with the snapshot in hand that caused it, so that both
  commit or neither does.
* `DecisionStays` (`DecisionOnRecord`), under any overlap.
* `InTurnSound`, for plans whose sessions do not overlap, and from it
  `WorkflowNeverReset` (`WorkflowKept`), `AlertsAnnounceEntry` (`AlertOnEntry`) and `AlertsOnce`
  (`AlertOnce`): at most one session is at work (`Alone`) and it has the ledger as it is
  (`UpToDate`); its snapshots follow the score it had loaded in one piece (`Grouped`), which
  is why an alert announces an entry although every item of a session compares with the
  score loaded first. That these three are about plans in turn is part of the properties
  themselves; the run `score_ledger_decision` shows what overlap does.
* `LedgerIsHistory` (`LedgerKept`): under any overlap `Spec` implements `ScoreHistory`. A commit
  maps to `Publish`: `Stamped` after the step makes each new entry the only one of its
  time, `Sound` makes its column what it was scored as, and `RowsCaused` gives each new
  alert its entry among those of the same commit. A rollback maps to `Lose`, an
  analyst's write to `Amend`, every other step to a stutter. What the invariants above
  do not say is that a lost score is gone, from the record and from every hand
  (`Apart`). It is inductive with `LedgerInv`: a new stamp is above all that were ever
  lost, and no two sessions hold one stamp, so that what one of them loses is in
  nobody else's hand.

`LivenessQueue_proofs` proves, for all endpoints, families, chains, candidates and
limits that satisfy `QueueAssumption`:

* `QueueInvariant`, and from it `TypeCorrect` (`TypeOK`) and `RecheckedOnce` (`OneRecheck`).
  `IInv` says of each row what is known of it for good (`Sound`: whose it is, which chain's
  genesis it has, and that a verified first observation reports what is published), and of
  the queue (`QueueSound`) that a second observation has a first one, and that an
  endpoint in the queue has no second one and is there once, whatever first probes
  come in between. Lemmas say what any family makes of any answer (`ProbeParts`, `RecordsParts`), that
  the two newest of at least two rows are two (`LatestTwo`), and that the limit limits
  (`FirstLimited`).
* `LiveIsEarned` (`LiveProven`), under two premises on the instance that the run meets, too
  (MCLivenessQueue assumes them). `ToldApart`: where chains replace each other behind an
  endpoint, they differ in a genesis that the family reads. For a Cosmos endpoint TLC
  finds `LiveProven` violated by a chain that comes back with the same chain id, since its
  adapter takes the id for the genesis. `IdsAlike`: the candidates of one endpoint
  publish a chain id all or none. A recheck does not compare with the published id, so
  otherwise a second observation without an id, made for a candidate that publishes
  one, and a first one of a candidate that publishes none, make the latter live (TLC
  finds this with one clock tick more than the run has). The invariant
  (`VerdictsProven`) says it of the committed verdicts (`stands`) as well, and that these
  rest on committed rows, so that the verdict which a lost session falls back to is proven
  by rows that it leaves.

`Suppression_proofs` proves, for all sets of channels, organisations and sessions:

* `TypeCorrect`, with `Numbered`: a row id is given out once, committed or not. That a
  query finds none, one or several rows needs that they are finitely many.
* `OptOutStays` (`SuppressionSticks`), under any overlap.
* `OptOutCovers` (`ChannelAgrees`), under any overlap, where `Fold = Lower` (the code's two
  hashes agree on the channels there are; two spellings of one address would break it).
  The gap that the code has, an opt-out that commits between a session's check and its
  commit, is part of the property, through `raced` (section 5). The invariant `AgreeInv` carries what a session was told of its
  channel to the commit of its row (`StillOpen`, `OwnRow`), and what an opt-out has read to
  its commit (`HasRead`): of a hash that is not in `raced`, no session is on its way with
  an open row while there is a suppressed one, and no row has come behind the read.

`Scoring_proofs` proves that the rules are monotone. `AtLeast(f, g)` compares two sets of facts
rule by rule; `RescoredMonotone` says that facts that are at least as good, after a check
that found at least as much (`ChecksOut`), never get a lower state, through every cap,
half-life, threshold and gate. The evidence may be any finite set of any age.

`Dossier_proofs` uses it, for all stories and decisions that satisfy `DossierAssumption` and
any number of days (`NoCandidate` must not be a candidate, `CandidateAssumption`):

* `TypeCorrect`, through lemmas on each part of an observation: a `Reads` of a document is
  an observation, a `Claimed` candidate keeps its dates, an `Assessed` one its percentages.
* `LabelsEarned` (`LabelEarned`): the strongest claim wins, and an A1 comes from one text.
* `RoundsSound` (`RoundsTraceable`) needs that the keys of raises are never used for other
  evidence, of the candidate's own or of a namesake's.
* `StagesEvidenced` and `StagesHold` (`StageEvidenced`, `StageNeverFalls`) rest on `StageInv`:
  what a session's object holds is the stage it left, so that an item which finds
  that object, with fewer networks than the tables, does not fall behind the item before.
* `StaleHolds` (`StaleNeedsEvidence`): while the state is STALE, all evidence is overdue.
* `RiskHarmless`, `TimeHarmless` and `FindingHarmless` (`RiskNeverHelps`, `TimeNeverHelps`,
  `FindingNeverHurts`): each step, seen through `View`, is a pair of facts that
  `RescoredMonotone` compares. `ScoreInv` adds to `StageInv` what that needs: evidence is
  finite, the Africa total is that of its vector unless an analyst set it, and a stage
  says S5 or S6 just when a mainnet is live. The last is what the proof of `FindingHarmless`
  turned on: it failed on a mainnet that is S5 on record and S6 by its dates, which led
  to the exception in the property and to the story `Matured`.

Only model-checked:

* `EventuallyIngested` and `NotStranded`: fairness and ENABLED are out of the prover's reach.
* The properties of the runs that expect a violation.

## 5. What is left out

* Text: parsing, matching, extraction, normalisation, cards, pages. Observations,
  documents, profiles and answers of endpoints are inputs from small sets.
* Two sessions inside the resolver at the same time.
* `verify_pending`, which cannot run: it names `Network` without importing it
  (`scheduler/cadence.py:244`).
* The HTTP client: token buckets, Retry-After, redirects, address pinning.
* Outreach tiers, vitality, opportunities and activity snapshots, which no score,
  stage or alert reads; the backtest and the reports; delivery of alerts; the object
  store; migrations, the front end, configuration beyond the named constants.

Seen while modelling, and modelled as the code has it. Of the first three TLC shows the
failure in the instances of `suppression` and `dossier`, where the stronger claim is given
as an invariant:

* A session that was told that a channel is open inserts its row, an opt-out that commits
  in between reaches the other rows only, and the row stays open beside suppressed ones
  until the next opt-out (`core/pipeline.py:148`). Without its exception for `raced`,
  `ChannelAgrees` fails, and so does the promise that a channel is never brought back
  (`api/routes/review.py:256`).
* An opt-out suppresses all rows of a channel, one for each organisation, and the check
  expects one at most (`storage/repository.py:458`): each later item that names the channel
  fails. That is the `raised` of a session, which is reached.
* The evidence of a raise is linked to the candidate for which it was first recorded;
  another one of the same slug and name gets the round and not the evidence
  (`enrichment/funding.py:754`). The analyst guide (line 82) says that evidence "is linked to
  every funding round"; that every round's evidence is in the dossier fails.
* An adapter gives a chain a name when the node does not report one
  (`"None"`, `"unknown"`, `"0"`, `"aptos_genesis"`, ...), takes the chain id for the
  genesis (`verifier/adapters/cometbft.py:67`), and counts a missing height as 0.
* The GitHub collector's family is `code`, where the half-lives and the activity
  families name it `code_search` (`config.py:98`, `core/pipeline.py:57`), so that its
  evidence ages by the default and is no activity.
* A probe during which a chain is replaced may record the height of one chain with the
  genesis of the other.
* The nightly rebuild rescores without probe results, and forgets a verification that
  left no row of its own.
* The override and the funding rescore evaluate without risk signals and
  fingerprint.

## 6. Plan

Order of the modules: entity resolution first, since all else hangs on what a
candidate is; then ingest, scoring and its ledger, liveness and opt-outs; then
collectors, classifiers, the dossier that composes them with the scores, adapters
and the window lock (all present). Next:

1. `DomainLimiter`: tokens, permits, Retry-After and redirects of the HTTP client.
2. `IncarnationRace`: registration by two overlapping sessions, held against
   `IncarnationLine`.
3. The health of sources: failures counted, success reset, degraded and broken.
