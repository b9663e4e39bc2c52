---------------------------- MODULE ScoreLedger ----------------------------
(***************************************************************************)
(* The score snapshots of one candidate and the sessions that write them.  *)
(*   "ingest"     process_raw_item: loads, may probe, rescores, alerts      *)
(*   "recheck"    liveness recheck: probes, loads, rescores, alerts         *)
(*   "nightly"    staleness sweep, full reconciliation: load all, rescore   *)
(*   "funding"    enrich_candidate_funding: scores on its own               *)
(*   "transition" POST /candidates/{id}/transition                          *)
(*   "override"   POST /candidates/{id}/override_africa                     *)
(* A session keeps the score it loaded (the identity map is never refreshed,*)
(* expire_on_commit is off), inserts its snapshot, points the candidate at  *)
(* it - a row lock until it commits - and posts the HOT alert before it     *)
(* commits.  An ingest session may meet the candidate in several items.     *)
(***************************************************************************)
EXTENDS Scoring, Sequences, Functions, FiniteSetsExt

CONSTANTS
    Sessions,       \* the sessions that may work on the candidate
    KindOf,         \* what each of them does
    Profiles,       \* what the evidence may make of the candidate
    Overrides,      \* [label, africa] an analyst may set
    Decisions,      \* workflow states an analyst may set
    Plans,          \* [sessions, serial, inline]: who works on the candidate,
                    \* never two at a time or overlapping, with VERIFY_INLINE or not
    MaxScores,      \* bound: rescores
    MaxDays,        \* bound: dedup windows that pass
    MaxFaults       \* bound: sessions that roll back

Kinds == {"ingest", "recheck", "nightly", "funding", "transition", "override"}

ASSUME KindAssumption == IsFiniteSet(Sessions) /\ KindOf \in [Sessions -> Kinds]
ASSUME FactsAssumption == Profiles \subseteq Facts /\ Overrides \subseteq [label: Labels, africa: 0..100]
ASSUME LedgerAssumption ==
    /\ Plans \subseteq [sessions: SUBSET Sessions, serial: BOOLEAN, inline: BOOLEAN]
    /\ MaxScores \in Nat
    /\ MaxDays \in Nat
    /\ MaxFaults \in Nat

VARIABLES
    plan,           \* who works on the candidate, and how
    facts,          \* committed facts of the candidate
    snapshots,      \* committed score_snapshots, in the order of their commits
    current,        \* current_score_id: a position in snapshots, 0 for none
    dispatches,     \* committed alert_dispatches rows
    posts,          \* webhooks that got through
    sess,           \* each session
    scored,         \* rescores so far: the order of calculated_at
    day,            \* the dedup window of now
    decided,        \* the workflow state that an analyst wrote last
    faults,         \* rollbacks so far
    undone          \* history: rescores that were rolled back

vars == <<plan, facts, snapshots, current, dispatches, posts, sess, scored, day, decided, faults, undone>>

Rescores(s) == KindOf[s] \in {"ingest", "recheck", "nightly", "funding"}
Triggers(s) == KindOf[s] \in {"ingest", "recheck"}

Key(basis) == [stage |-> basis.stage, label |-> basis.label, evidence |-> Cardinality(basis.events)]

\* first is the state the snapshot was appended with, seen the position of the
\* score its session had loaded.
Snapshot(state, workflow, basis, at, seen) ==
    [state |-> state, first |-> state, workflow |-> workflow, basis |-> basis, at |-> at,
     seen |-> seen]

\* seen is the loaded score's position, from and workflow its columns.
Idle == [pc |-> "idle", seen |-> 0, from |-> "none", workflow |-> "NEW", check |-> NoCheck,
         facts |-> {}, snaps |-> <<>>, rows |-> {}]

TypeOK ==
    /\ facts \in Facts
    /\ current \in 0..Len(snapshots)
    /\ Len(snapshots) <= scored
    /\ scored \in 0..MaxScores
    /\ \A i \in DOMAIN snapshots :
        /\ {snapshots[i].state, snapshots[i].first} \subseteq States
        /\ snapshots[i].workflow \in {"NEW"} \cup Decisions
        /\ snapshots[i].at \in 1..scored
    /\ \A row \in dispatches : row.day \in 0..day /\ row.delivered \in BOOLEAN
    /\ \A s \in Sessions :
        /\ sess[s].pc \in {"idle", "probed", "loaded", "ready", "scored", "pointed", "done"}
        /\ sess[s].seen \in 0..Len(snapshots)
        /\ s \notin plan.sessions => sess[s] = Idle
    /\ plan \in Plans
    /\ decided \in {"NEW"} \cup Decisions
    /\ faults \in 0..MaxFaults
    /\ undone \subseteq 1..scored

Init ==
    /\ plan \in Plans
    /\ facts \in Profiles
    /\ snapshots = <<>>
    /\ current = 0
    /\ dispatches = {}
    /\ posts = {}
    /\ sess = [s \in Sessions |-> Idle]
    /\ scored = 0
    /\ day = 0
    /\ decided = "NEW"
    /\ faults = 0
    /\ undone = {}

-----------------------------------------------------------------------------
(* Reading *)

Busy == {s \in Sessions : sess[s].pc # "idle"}

\* A bound: room for one more rescore.
Room == scored + Cardinality({t \in Busy : Rescores(t) /\ sess[t].pc \in {"probed", "loaded", "ready"}})
            < MaxScores

MayStart(s) ==
    /\ s \in plan.sessions
    /\ sess[s].pc = "idle"
    /\ plan.serial => Busy = {}
    /\ Rescores(s) => Room

Loaded(s, own) ==
    /\ sess' = [sess EXCEPT ![s].pc = "loaded", ![s].seen = current, ![s].facts = own,
                            ![s].from = IF current = 0 THEN "none" ELSE snapshots[current].state,
                            ![s].workflow = IF current = 0 THEN "NEW" ELSE snapshots[current].workflow]
    /\ UNCHANGED <<plan, facts, snapshots, current, dispatches, posts, scored, day, decided, faults, undone>>

\* An item's evidence makes of the candidate what it makes; the Africa
\* assessment stays.
Load(s) ==
    \/ /\ KindOf[s] = "ingest"
       /\ MayStart(s)
       /\ \E p \in Profiles : Loaded(s, {[p EXCEPT !.label = facts.label, !.africa = facts.africa]})
    \/ /\ KindOf[s] \in {"nightly", "funding"}
       /\ MayStart(s)
       /\ Loaded(s, {})
    \/ /\ KindOf[s] \in {"transition", "override"}
       /\ MayStart(s)
       /\ current # 0
       /\ Loaded(s, {})
    \/ /\ KindOf[s] = "recheck"
       /\ sess[s].pc = "probed"
       /\ Loaded(s, {})

\* A recheck passes has_fingerprint whatever it saw; an inline probe may find
\* another chain, which counts as a failed endpoint too.
Outcomes(s) ==
    IF KindOf[s] = "recheck"
    THEN {[NoCheck EXCEPT !.fingerprint = TRUE, !.live = live] : live \in BOOLEAN}
    ELSE {[NoCheck EXCEPT !.fingerprint = TRUE], [NoCheck EXCEPT !.mismatch = TRUE, !.failures = 1]}

Probe(s) ==
    /\ \/ /\ KindOf[s] = "recheck"
          /\ MayStart(s)
          /\ current # 0
          /\ \E c \in Outcomes(s) :
                sess' = [sess EXCEPT ![s].pc = "probed", ![s].check = c]
       \/ /\ KindOf[s] = "ingest"
          /\ plan.inline
          /\ sess[s].pc = "loaded"
          /\ \E c \in Outcomes(s) : sess' = [sess EXCEPT ![s].pc = "ready", ![s].check = c]
    /\ UNCHANGED <<plan, facts, snapshots, current, dispatches, posts, scored, day, decided, faults, undone>>

-----------------------------------------------------------------------------
(* Rescoring *)

Basis(s) == IF sess[s].facts = {} THEN facts ELSE CHOOSE own \in sess[s].facts : TRUE

\* The two callers of scoring_engine.evaluate outside the pipeline pass no
\* risk, no fingerprint and no block; the override passes no label either.
Unchecked(basis) == State([basis EXCEPT !.fingerprint = FALSE], NoCheck, 0, FALSE)

Outcome(s, basis) ==
    IF KindOf[s] = "funding" THEN Unchecked(basis) ELSE Rescored(basis, sess[s].check)

\* Mutant: every snapshot starts the workflow afresh.
WorkflowFresh(s) == "NEW"

\* "Workflow state is an analyst-owned field; scoring never resets it."
Workflow(s) == sess[s].workflow

\* The snapshot is inserted.
Evaluate(s) ==
    /\ Rescores(s)
    /\ sess[s].pc = IF KindOf[s] = "ingest" /\ plan.inline THEN "ready" ELSE "loaded"
    /\ scored' = scored + 1
    /\ sess' = [sess EXCEPT ![s].pc = "scored",
                            ![s].snaps = Append(@, Snapshot(Outcome(s, Basis(s)), Workflow(s),
                                                            Basis(s), scored + 1, sess[s].seen))]
    /\ UNCHANGED <<plan, facts, snapshots, current, dispatches, posts, day, decided, faults, undone>>

\* Mutant: the pointer commits before the snapshot it points at.
PointCommits(s) ==
    /\ sess[s].pc = "scored"
    /\ current' = Len(snapshots) + 1
    /\ sess' = [sess EXCEPT ![s].pc = "pointed"]
    /\ UNCHANGED <<plan, facts, snapshots, dispatches, posts, scored, day, decided, faults, undone>>

HoldsRow(s) == Len(sess[s].snaps) > IF sess[s].pc = "scored" THEN 1 ELSE 0

\* The UPDATE of the candidate's row waits for the session that holds it.
Point(s) ==
    /\ sess[s].pc = "scored"
    /\ \A t \in Sessions \ {s} : ~ HoldsRow(t)
    /\ sess' = [sess EXCEPT ![s].pc = "pointed"]
    /\ UNCHANGED <<plan, facts, snapshots, current, dispatches, posts, scored, day, decided, faults, undone>>

Snap(s) == sess[s].snaps[Len(sess[s].snaps)]

\* Mutant: the previous state is not looked at.
EntersHotAlways(s) == Triggers(s) /\ Snap(s).state = "HOT"

EntersHot(s) == Triggers(s) /\ Snap(s).state = "HOT" /\ sess[s].from # "HOT"

\* Mutant: a row counts once it is committed.
InWindowCommitted(s) ==
    \E row \in dispatches : row.key = Key(Snap(s).basis) /\ row.day = day

\* A session sees its own rows.
InWindow(s) ==
    \E row \in dispatches \cup sess[s].rows : row.key = Key(Snap(s).basis) /\ row.day = day

AlertNothing(s) ==
    /\ sess[s].pc = "pointed"
    /\ ~ EntersHot(s) \/ InWindow(s)
    /\ sess' = [sess EXCEPT ![s].pc = "done"]
    /\ UNCHANGED <<plan, facts, snapshots, current, dispatches, posts, scored, day, decided, faults, undone>>

\* Mutant: the row is added on its own and commits at once.
AlertPostCommits(s) ==
    /\ sess[s].pc = "pointed"
    /\ EntersHot(s)
    /\ ~ InWindow(s)
    /\ \E ok \in BOOLEAN :
        /\ posts' = posts \cup (IF ok THEN {[key |-> Key(Snap(s).basis), day |-> day, at |-> Snap(s).at]} ELSE {})
        /\ dispatches' = dispatches \cup {[key |-> Key(Snap(s).basis), day |-> day, at |-> Snap(s).at,
                                           delivered |-> ok]}
    /\ sess' = [sess EXCEPT ![s].pc = "done"]
    /\ UNCHANGED <<plan, facts, snapshots, current, scored, day, decided, faults, undone>>

\* Mutant: only a failed delivery is recorded.
AlertPostForgets(s) ==
    /\ sess[s].pc = "pointed"
    /\ EntersHot(s)
    /\ ~ InWindow(s)
    /\ posts' = posts \cup {[key |-> Key(Snap(s).basis), day |-> day, at |-> Snap(s).at]}
    /\ sess' = [sess EXCEPT ![s].pc = "done"]
    /\ UNCHANGED <<plan, facts, snapshots, current, dispatches, scored, day, decided, faults, undone>>

\* The webhook is posted, and fails or not, before the row is committed.
AlertPost(s) ==
    /\ sess[s].pc = "pointed"
    /\ EntersHot(s)
    /\ ~ InWindow(s)
    /\ \E ok \in BOOLEAN :
        /\ posts' = posts \cup (IF ok THEN {[key |-> Key(Snap(s).basis), day |-> day, at |-> Snap(s).at]} ELSE {})
        /\ sess' = [sess EXCEPT ![s].pc = "done",
                                ![s].rows = @ \cup {[key |-> Key(Snap(s).basis), day |-> day,
                                                    at |-> Snap(s).at, delivered |-> ok]}]
    /\ UNCHANGED <<plan, facts, snapshots, current, dispatches, scored, day, decided, faults, undone>>

\* The next item of the batch is about the candidate too: it meets the objects
\* that the session holds already.
NextItem(s) ==
    /\ KindOf[s] = "ingest"
    /\ sess[s].pc = "done"
    /\ Room
    /\ \E p \in Profiles :
        sess' = [sess EXCEPT ![s].pc = "loaded", ![s].check = NoCheck,
                             ![s].facts = {[p EXCEPT !.label = facts.label, !.africa = facts.africa]}]
    /\ UNCHANGED <<plan, facts, snapshots, current, dispatches, posts, scored, day, decided, faults, undone>>

\* Mutant: the current snapshot is overwritten.
CommitInPlace(s) ==
    /\ sess[s].pc = "done"
    /\ snapshots' = IF current = 0 THEN sess[s].snaps ELSE [snapshots EXCEPT ![current] = Snap(s)]
    /\ current' = Len(snapshots')
    /\ dispatches' = dispatches \cup sess[s].rows
    /\ facts' = [Basis(s) EXCEPT !.label = facts.label, !.africa = facts.africa]
    /\ sess' = [sess EXCEPT ![s] = Idle]
    /\ UNCHANGED <<plan, posts, scored, day, decided, faults, undone>>

Commit(s) ==
    /\ sess[s].pc = "done"
    /\ snapshots' = snapshots \o sess[s].snaps
    /\ current' = Len(snapshots')
    /\ dispatches' = dispatches \cup sess[s].rows
    /\ facts' = [Basis(s) EXCEPT !.label = facts.label, !.africa = facts.africa]
    /\ sess' = [sess EXCEPT ![s] = Idle]
    /\ UNCHANGED <<plan, posts, scored, day, decided, faults, undone>>

\* Mutant: what the session had in hand goes in with its next unit of work.
RollBackKeeps(s) ==
    /\ sess[s].pc # "idle"
    /\ faults < MaxFaults
    /\ faults' = faults + 1
    /\ undone' = undone \cup {snap.at : snap \in Range(sess[s].snaps)}
    /\ sess' = [sess EXCEPT ![s] = [Idle EXCEPT !.snaps = sess[s].snaps]]
    /\ UNCHANGED <<plan, facts, snapshots, current, dispatches, posts, scored, day, decided>>

\* A fault rolls the session back; a webhook that went out stays out.
RollBack(s) ==
    /\ sess[s].pc # "idle"
    /\ faults < MaxFaults
    /\ faults' = faults + 1
    /\ undone' = undone \cup {snap.at : snap \in Range(sess[s].snaps)}
    /\ sess' = [sess EXCEPT ![s] = Idle]
    /\ UNCHANGED <<plan, facts, snapshots, current, dispatches, posts, scored, day, decided>>

-----------------------------------------------------------------------------
(* The analyst *)

\* transition_workflow_state writes the row it loaded; a decision that repeats
\* what was loaded is no change of the object and writes nothing.
Transition(s) ==
    /\ KindOf[s] = "transition"
    /\ sess[s].pc = "loaded"
    /\ \/ \E w \in Decisions \ {sess[s].workflow} :
            /\ snapshots' = [snapshots EXCEPT ![sess[s].seen].workflow = w]
            /\ decided' = w
       \/ /\ sess[s].workflow \in Decisions
          /\ UNCHANGED <<snapshots, decided>>
    /\ sess' = [sess EXCEPT ![s] = Idle]
    /\ UNCHANGED <<plan, facts, current, dispatches, posts, scored, day, faults, undone>>

\* override_africa_assessment: the assessment, and in place the row it loaded,
\* where the state is another than the one loaded.
Override(s) ==
    /\ KindOf[s] = "override"
    /\ sess[s].pc = "loaded"
    /\ \E o \in Overrides :
        LET basis == [facts EXCEPT !.label = o.label, !.africa = o.africa]
            state == Unchecked([basis EXCEPT !.label = "A4"])
        IN  /\ facts' = basis
            /\ snapshots' = IF state = sess[s].from THEN snapshots
                            ELSE [snapshots EXCEPT ![sess[s].seen].state = state]
    /\ sess' = [sess EXCEPT ![s] = Idle]
    /\ UNCHANGED <<plan, current, dispatches, posts, scored, day, decided, faults, undone>>

DayPasses ==
    /\ day < MaxDays
    /\ day' = day + 1
    /\ UNCHANGED <<plan, facts, snapshots, current, dispatches, posts, sess, scored, decided, faults, undone>>

Next ==
    \/ \E s \in Sessions :
        \/ Load(s)
        \/ Probe(s)
        \/ Evaluate(s)
        \/ Point(s)
        \/ AlertNothing(s)
        \/ AlertPost(s)
        \/ NextItem(s)
        \/ Commit(s)
        \/ RollBack(s)
        \/ Transition(s)
        \/ Override(s)
    \/ DayPasses

Spec == Init /\ [][Next]_vars

-----------------------------------------------------------------------------
(* Properties *)

\* "Workflow state is yours. Rescoring never resets it" (analyst guide): the
\* candidate shows what its analyst decided last.
WorkflowYours == current # 0 => snapshots[current].workflow = decided

\* Whatever overlaps with it, also another analyst's, the decision that was
\* written last stays on record in some snapshot: rescoring only appends.
DecisionOnRecord ==
    decided # "NEW" => \E i \in DOMAIN snapshots : snapshots[i].workflow = decided

\* An alert row never outlives the snapshot that caused it.
AlertBacked ==
    \A row \in dispatches : \E i \in DOMAIN snapshots :
        /\ snapshots[i].at = row.at
        /\ snapshots[i].first = "HOT"
        /\ Key(snapshots[i].basis) = row.key

\* Every webhook that got through is on record, or its session is still open,
\* or was rolled back.
PostsOnRecord ==
    \A p \in posts :
        \/ \E row \in dispatches \cup UNION {sess[s].rows : s \in Sessions} : row.at = p.at
        \/ p.at \in undone

\* Without overlap a rescore never resets what the analyst decided, however many
\* sessions and items come in between.
WorkflowKept == plan.serial => WorkflowYours

\* Without overlap an alert announces that a candidate turned HOT since its
\* session began, not that it still is.
AlertOnEntry ==
    plan.serial => \A row \in dispatches : \A i \in DOMAIN snapshots :
        snapshots[i].at = row.at =>
            LET before == {j \in 1..(i - 1) : snapshots[j].seen # snapshots[i].seen}
            IN  before # {} => snapshots[Max(before)].state # "HOT"

\* Without overlap nobody is told twice of one candidate, stage, label and
\* evidence within a window, be it by two sessions or by two items of one.
AlertOnce ==
    plan.serial => \A r1, r2 \in dispatches : r1.key = r2.key /\ r1.day = r2.day => r1.at = r2.at

\* "Every rescore appends a snapshot rather than overwriting one" (analyst
\* guide): however sessions overlap and fail, the snapshots and the alerts read
\* as a history that grows by whole sessions, each score in it once or, where
\* its session was rolled back, never, and of which only an analyst's columns
\* change.
History == INSTANCE ScoreHistory WITH
    entries <- [i \in DOMAIN snapshots |-> [at    |-> snapshots[i].at,
                                            first |-> snapshots[i].first,
                                            key   |-> Key(snapshots[i].basis)]],
    columns <- [i \in DOMAIN snapshots |-> [state    |-> snapshots[i].state,
                                            workflow |-> snapshots[i].workflow]],
    head    <- current,
    told    <- {[at |-> row.at, key |-> row.key] : row \in dispatches},
    lost    <- undone

LedgerKept == History!Spec
=============================================================================
