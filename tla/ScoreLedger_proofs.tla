------------------------- MODULE ScoreLedger_proofs -------------------------
(***************************************************************************)
(* Proofs about the score ledger of one candidate.  A snapshot is stamped   *)
(* once and appended by the session that took it; what a session has in     *)
(* hand agrees with its own snapshots; and when sessions never overlap, the *)
(* session at work loaded the ledger as it still is.                       *)
(***************************************************************************)
EXTENDS ScoreLedger, FiniteSetTheorems, TLAPS

Workflows == {"NEW"} \cup Decisions
Keys      == {Key(basis) : basis \in Facts}
Rows      == [key: Keys, day: Nat, at: Nat, delivered: BOOLEAN]
Posts     == [key: Keys, day: Nat, at: Nat]
Checks    == [fingerprint: BOOLEAN, live: BOOLEAN, mismatch: BOOLEAN, failures: {0, 1}]
Snapshots == [state: States, first: States, workflow: Workflows, basis: Facts, at: Nat, seen: Nat]
PCs       == {"idle", "probed", "loaded", "ready", "scored", "pointed", "done"}

Session ==
    [pc: PCs, seen: Nat, from: States \cup {"none"}, workflow: Workflows, check: Checks,
     facts: SUBSET Facts, snaps: Seq(Snapshots), rows: SUBSET Rows]

-----------------------------------------------------------------------------
(* Types *)

Typed ==
    /\ plan \in Plans
    /\ facts \in Facts
    /\ snapshots \in Seq(Snapshots)
    /\ current = Len(snapshots)
    /\ dispatches \in SUBSET Rows
    /\ posts \in SUBSET Posts
    /\ sess \in [Sessions -> Session]
    /\ scored \in Nat
    /\ day \in Nat
    /\ decided \in Workflows
    /\ faults \in 0..MaxFaults
    /\ undone \subseteq 1..scored

\* What a session has in hand, as far as its own step in the item goes.
Sound(s, e) ==
    /\ e.pc = "idle" => e = Idle
    /\ e.pc = "probed" => KindOf[s] = "recheck" /\ e.snaps = <<>> /\ e.rows = {}
    /\ e.pc \in {"scored", "pointed", "done"} => e.snaps # <<>>
    /\ ~ Rescores(s) => e.pc \in {"idle", "loaded"} /\ e.snaps = <<>> /\ e.rows = {}
    /\ ~ Rescores(s) /\ e.pc = "loaded" => e.seen # 0
    /\ \A i \in DOMAIN e.snaps :
        /\ e.snaps[i].first = e.snaps[i].state
        /\ e.snaps[i].workflow = e.workflow
        /\ e.snaps[i].seen = e.seen

\* ... and as far as the candidate goes.
Fits(s, e) ==
    /\ e.pc # "idle" => s \in plan.sessions
    /\ e.seen <= Len(snapshots)
    /\ \A i \in DOMAIN e.snaps : e.snaps[i].at \in 1..scored
    /\ \A row \in e.rows : row.day <= day

Ledgered ==
    /\ \A i \in DOMAIN snapshots : snapshots[i].at \in 1..scored
    /\ \A row \in dispatches : row.day <= day

Pending == {t \in Busy : Rescores(t) /\ sess[t].pc \in {"probed", "loaded", "ready"}}

Bounded == scored + Cardinality(Pending) <= MaxScores

TypeInv ==
    /\ Typed
    /\ \A s \in Sessions : Sound(s, sess[s]) /\ Fits(s, sess[s])
    /\ Ledgered
    /\ Bounded

\* No two snapshots, committed or not, carry the same calculated_at.
Stamped ==
    /\ \A i, j \in DOMAIN snapshots : snapshots[i].at = snapshots[j].at => i = j
    /\ \A s \in Sessions : \A i, j \in DOMAIN sess[s].snaps :
            sess[s].snaps[i].at = sess[s].snaps[j].at => i = j
    /\ \A s \in Sessions : \A i \in DOMAIN sess[s].snaps : \A j \in DOMAIN snapshots :
            sess[s].snaps[i].at # snapshots[j].at
    /\ \A s, t \in Sessions : \A i \in DOMAIN sess[s].snaps : \A j \in DOMAIN sess[t].snaps :
            s # t => sess[s].snaps[i].at # sess[t].snaps[j].at

-----------------------------------------------------------------------------
(* Alerts *)

Causes(snap, row) == snap.at = row.at /\ snap.first = "HOT" /\ Key(snap.basis) = row.key

\* A row in hand comes from a snapshot in hand, of a session that had loaded a
\* score that was not HOT.
RowsCaused ==
    \A s \in Sessions : \A row \in sess[s].rows :
        /\ sess[s].from # "HOT"
        /\ \E i \in DOMAIN sess[s].snaps : Causes(sess[s].snaps[i], row)

AlertInv == RowsCaused /\ AlertBacked /\ PostsOnRecord

-----------------------------------------------------------------------------
(* Sessions in turn *)

Alone == \A s, t \in Busy : s = t

\* The session at work has the ledger before it as it is.
UpToDate ==
    \A s \in Busy : sess[s].pc # "probed" =>
        /\ sess[s].seen = Len(snapshots)
        /\ sess[s].workflow = decided
        /\ sess[s].from = IF sess[s].seen = 0 THEN "none" ELSE snapshots[sess[s].seen].state

Undecided == snapshots = <<>> => decided = "NEW"

\* The snapshots of a session follow, in one piece, the score it had loaded.
Grouped ==
    /\ \A j \in DOMAIN snapshots : snapshots[j].seen < j
    /\ \A i, j \in DOMAIN snapshots : i < j /\ snapshots[i].seen # snapshots[j].seen => i <= snapshots[j].seen

\* The score that the cause of an alert replaced was not HOT, nor is it now.
Announced ==
    \A row \in dispatches : \A i \in DOMAIN snapshots :
        snapshots[i].at = row.at /\ snapshots[i].seen # 0 => snapshots[snapshots[i].seen].state # "HOT"

\* Two rows of one key and window are one.
Told(rows) == \A r1, r2 \in rows : r1.key = r2.key /\ r1.day = r2.day => r1.at = r2.at

ToldOnce == Told(dispatches) /\ \A s \in Sessions : Told(dispatches \cup sess[s].rows)

SerialInv == Alone /\ UpToDate /\ Grouped /\ Announced /\ WorkflowYours /\ ToldOnce

InTurnInv == Undecided /\ (plan.serial => SerialInv)

-----------------------------------------------------------------------------
(* The steps of a session, by what they leave of it *)

Waits(s, e) == Rescores(s) /\ e.pc \in {"probed", "loaded", "ready"}

Still == UNCHANGED <<plan, facts, snapshots, current, dispatches, scored, day, decided, faults, undone>>

\* The session loads the candidate.
Loads(s, e) ==
    /\ e.pc = "loaded"
    /\ e.seen = current
    /\ e.from = IF current = 0 THEN "none" ELSE snapshots[current].state
    /\ e.workflow = IF current = 0 THEN "NEW" ELSE snapshots[current].workflow
    /\ e.snaps = <<>>
    /\ e.rows = {}
    /\ sess[s].snaps = <<>>
    /\ sess[s].rows = {}
    /\ MayStart(s) \/ sess[s].pc = "probed"
    /\ Still
    /\ posts' = posts

\* It keeps what it loaded and what it has in hand.
Keeps(s, e) ==
    /\ e.seen = sess[s].seen
    /\ e.from = sess[s].from
    /\ e.workflow = sess[s].workflow

Quiet(s, e) ==
    /\ Keeps(s, e)
    /\ e.snaps = sess[s].snaps
    /\ e.rows = sess[s].rows
    /\ e.pc # "idle"
    /\ e.pc = "probed" \/ sess[s].pc \notin {"idle", "probed"}
    /\ MayStart(s) \/ sess[s].pc # "idle"
    /\ Waits(s, e) => Waits(s, sess[s]) \/ Room
    /\ Still
    /\ posts' = posts

Appends(s, e, snap) ==
    /\ Keeps(s, e)
    /\ e.snaps = Append(sess[s].snaps, snap)
    /\ e.rows = sess[s].rows
    /\ e.pc = "scored"
    /\ sess[s].pc \in {"loaded", "ready"}
    /\ Rescores(s)
    /\ snap.first = snap.state
    /\ snap.workflow = e.workflow
    /\ snap.seen = e.seen
    /\ snap.at = scored + 1
    /\ scored' = scored + 1
    /\ UNCHANGED <<plan, facts, snapshots, current, dispatches, posts, day, decided, faults, undone>>

Alerts(s, e, row) ==
    /\ Keeps(s, e)
    /\ e.snaps = sess[s].snaps
    /\ e.rows = sess[s].rows \cup {row}
    /\ e.pc = "done"
    /\ sess[s].pc = "pointed"
    /\ sess[s].from # "HOT"
    /\ sess[s].snaps # <<>>
    /\ Causes(Snap(s), row)
    /\ row.day = day
    /\ \A r \in dispatches \cup sess[s].rows : ~ (r.key = row.key /\ r.day = row.day)
    /\ \A p \in posts' : p \in posts \/ (p \in Posts /\ p.at = row.at)
    /\ Still

\* An analyst's session writes the snapshot that it loaded.
Rewrites(s, snap) ==
    /\ sess[s].seen \in DOMAIN snapshots
    /\ snapshots' = [snapshots EXCEPT ![sess[s].seen] = snap]
    /\ snap.first = snapshots[sess[s].seen].first
    /\ snap.basis = snapshots[sess[s].seen].basis
    /\ snap.at = snapshots[sess[s].seen].at
    /\ snap.seen = snapshots[sess[s].seen].seen
    /\ \/ decided' = decided /\ snap.workflow = snapshots[sess[s].seen].workflow
       \/ decided' = snap.workflow /\ snap.state = snapshots[sess[s].seen].state
    /\ sess[s].pc = "loaded"
    /\ sess[s].rows = {}
    /\ sess[s].snaps = <<>>
    /\ UNCHANGED <<plan, current, dispatches, posts, scored, day, faults, undone>>

-----------------------------------------------------------------------------
(* Values *)

LEMMA StateTyped ==
    ASSUME NEW f, NEW check, NEW risk, NEW blocked
    PROVE  State(f, check, risk, blocked) \in States
<1> DEFINE confidence == Confidence(f, check)
           outreach   == Outreach(f, check, risk)
           passed     == GatePassed(f, check, blocked)
           stale      == Stale(f)
           window     == OutreachWindow(f)
           hot        == passed /\ confidence >= 750 /\ outreach >= 70000 /\ risk < 340 /\ window
           qualified  == passed /\ confidence >= 650 /\ outreach >= 55000
<1>1. State(f, check, risk, blocked) =
        IF blocked THEN "REJECT"
        ELSE IF stale THEN "STALE"
        ELSE IF hot THEN "HOT"
        ELSE IF qualified THEN "QUALIFIED"
        ELSE "RADAR"
    BY DEF State
<1> HIDE DEF hot, qualified, stale
<1> QED  BY <1>1 DEF States

LEMMA OutcomeTyped ==
    ASSUME NEW s, NEW basis
    PROVE  Outcome(s, basis) \in States
BY StateTyped DEF Outcome, Rescored, Unchecked

LEMMA IdleTyped == Idle \in Session
<1>1. PICK snaps \in Seq(Snapshots) : snaps = <<>>
    <2>1. <<>> \in Seq(Snapshots)
        OBVIOUS
    <2> QED  BY <2>1, Zenon
<1>2. PICK none \in SUBSET Facts : none = {}
    OBVIOUS
<1>3. PICK rows \in SUBSET Rows : rows = {}
    OBVIOUS
<1>4. NoCheck \in Checks
    BY DEF NoCheck, Checks
<1>5. Idle = [pc |-> "idle", seen |-> 0, from |-> "none", workflow |-> "NEW", check |-> NoCheck,
              facts |-> none, snaps |-> snaps, rows |-> rows]
    BY <1>1, <1>2, <1>3 DEF Idle
<1> QED  BY <1>4, <1>5 DEF Session, PCs, Workflows

LEMMA IdleSound == ASSUME NEW s \in Sessions PROVE Sound(s, Idle)
BY DEF Sound, Idle

LEMMA ProfileTyped ==
    ASSUME NEW f \in Facts, NEW p \in Facts
    PROVE  [p EXCEPT !.label = f.label, !.africa = f.africa] \in Facts
BY DEF Facts

LEMMA BasisTyped ==
    ASSUME Typed, NEW s \in Sessions
    PROVE  Basis(s) \in Facts
<1>1. sess[s].facts \in SUBSET Facts
    BY DEF Typed, Session
<1> QED  BY <1>1 DEF Basis, Typed

-----------------------------------------------------------------------------
(* Each operation takes one of those steps *)

LEMMA EntryTyped ==
    ASSUME Typed, NEW i \in DOMAIN snapshots
    PROVE  snapshots[i] \in Snapshots /\ i \in 1..Len(snapshots)
BY DEF Typed

LEMMA LoadedShape ==
    ASSUME Typed, NEW s \in Sessions, NEW own \in SUBSET Facts, Loaded(s, own)
    PROVE  \E e \in Session :
            /\ sess' = [sess EXCEPT ![s] = e]
            /\ e = [sess[s] EXCEPT !.pc = "loaded", !.seen = current, !.facts = own,
                        !.from = IF current = 0 THEN "none" ELSE snapshots[current].state,
                        !.workflow = IF current = 0 THEN "NEW" ELSE snapshots[current].workflow]
            /\ Still
            /\ posts' = posts
<1> DEFINE from     == IF current = 0 THEN "none" ELSE snapshots[current].state
           workflow == IF current = 0 THEN "NEW" ELSE snapshots[current].workflow
           new      == [sess[s] EXCEPT !.pc = "loaded", !.seen = current, !.facts = own,
                                       !.from = from, !.workflow = workflow]
<1>1. sess[s] \in Session /\ current \in Nat
    BY DEF Typed
<1>2. from \in States \cup {"none"} /\ workflow \in Workflows
    <2>1. CASE current = 0
        BY <2>1 DEF Workflows
    <2>2. CASE current # 0
        <3>1. current \in DOMAIN snapshots
            BY <2>2 DEF Typed
        <3>2. snapshots[current] \in Snapshots
            BY <3>1, EntryTyped
        <3> QED  BY <2>2, <3>2 DEF Snapshots
    <2> QED  BY <2>1, <2>2
<1>3. sess' = [sess EXCEPT ![s] = new] /\ Still /\ posts' = posts
    BY DEF Loaded, Still
<1> HIDE DEF from, workflow
<1>4. new \in Session
    BY <1>1, <1>2 DEF Session, PCs
<1> QED  BY <1>3, <1>4 DEF from, workflow

LEMMA LoadShape ==
    ASSUME TypeInv, NEW s \in Sessions, Load(s)
    PROVE  \E e \in Session : sess' = [sess EXCEPT ![s] = e] /\ Sound(s, e) /\ Loads(s, e)
<1>1. sess[s] \in Session /\ Sound(s, sess[s]) /\ Typed
    BY DEF TypeInv, Typed
<1>2. \E own \in SUBSET Facts : Loaded(s, own)
    <2>1. facts \in Facts /\ Profiles \subseteq Facts
        BY <1>1, FactsAssumption DEF Typed
    <2>2. ASSUME NEW p \in Profiles PROVE {[p EXCEPT !.label = facts.label, !.africa = facts.africa]} \in SUBSET Facts
        BY <2>1, ProfileTyped
    <2>3. {} \in SUBSET Facts
        OBVIOUS
    <2> QED  BY <2>2, <2>3, Zenon DEF Load
<1>3. PICK own \in SUBSET Facts : Loaded(s, own)
    BY <1>2
<1>4. PICK e \in Session :
        /\ sess' = [sess EXCEPT ![s] = e]
        /\ e = [sess[s] EXCEPT !.pc = "loaded", !.seen = current, !.facts = own,
                    !.from = IF current = 0 THEN "none" ELSE snapshots[current].state,
                    !.workflow = IF current = 0 THEN "NEW" ELSE snapshots[current].workflow]
        /\ Still
        /\ posts' = posts
    BY <1>1, <1>3, LoadedShape
<1>5. /\ MayStart(s) \/ sess[s].pc = "probed"
      /\ ~ Rescores(s) => current # 0
    <2>1. KindOf[s] = "recheck" => Rescores(s)
        BY DEF Rescores
    <2> QED  BY <2>1 DEF Load, Rescores
<1>6. sess[s].snaps = <<>> /\ sess[s].rows = {}
    <2>1. CASE sess[s].pc = "idle"
        BY <1>1, <2>1 DEF Sound, Idle
    <2>2. CASE sess[s].pc = "probed"
        BY <1>1, <2>2 DEF Sound
    <2> QED  BY <1>5, <2>1, <2>2 DEF MayStart
<1>7. /\ e.pc = "loaded"
      /\ e.seen = current
      /\ e.from = IF current = 0 THEN "none" ELSE snapshots[current].state
      /\ e.workflow = IF current = 0 THEN "NEW" ELSE snapshots[current].workflow
      /\ e.snaps = <<>>
      /\ e.rows = {}
    BY <1>1, <1>4, <1>6 DEF Session
<1>8. Sound(s, e)
    BY <1>5, <1>7 DEF Sound
<1> QED  BY <1>4, <1>5, <1>6, <1>7, <1>8 DEF Loads

LEMMA ProbeShape ==
    ASSUME TypeInv, NEW s \in Sessions, Probe(s)
    PROVE  \E e \in Session : sess' = [sess EXCEPT ![s] = e] /\ Sound(s, e) /\ Quiet(s, e)
<1>1. sess[s] \in Session /\ Sound(s, sess[s])
    BY DEF TypeInv, Typed
<1>2. Outcomes(s) \subseteq Checks
    BY DEF Outcomes, NoCheck, Checks
<1>3. Still /\ posts' = posts
    BY DEF Probe, Still
<1>4. CASE /\ KindOf[s] = "recheck"
           /\ MayStart(s)
           /\ \E c \in Outcomes(s) : sess' = [sess EXCEPT ![s].pc = "probed", ![s].check = c]
    <2>1. PICK c \in Outcomes(s) : sess' = [sess EXCEPT ![s].pc = "probed", ![s].check = c]
        BY <1>4
    <2> DEFINE new == [sess[s] EXCEPT !.pc = "probed", !.check = c]
    <2>2. sess' = [sess EXCEPT ![s] = new]
        BY <2>1
    <2>3. new \in Session
        BY <1>1, <1>2 DEF Session, PCs
    <2>4. /\ new.pc = "probed"
          /\ new.snaps = sess[s].snaps
          /\ new.rows = sess[s].rows
          /\ Keeps(s, new)
        BY <1>1 DEF Session, Keeps
    <2>5. sess[s].pc = "idle" /\ sess[s].snaps = <<>> /\ sess[s].rows = {} /\ (Rescores(s) => Room)
        BY <1>1, <1>4 DEF MayStart, Sound, Idle
    <2> HIDE DEF new
    <2>6. Sound(s, new)
        BY <1>4, <2>4, <2>5 DEF Sound, Rescores
    <2>7. Quiet(s, new)
        BY <1>3, <1>4, <2>4, <2>5 DEF Quiet, Waits
    <2> QED  BY <2>2, <2>3, <2>6, <2>7
<1>5. CASE /\ KindOf[s] = "ingest"
           /\ plan.inline
           /\ sess[s].pc = "loaded"
           /\ \E c \in Outcomes(s) : sess' = [sess EXCEPT ![s].pc = "ready", ![s].check = c]
    <2>1. PICK c \in Outcomes(s) : sess' = [sess EXCEPT ![s].pc = "ready", ![s].check = c]
        BY <1>5
    <2> DEFINE new == [sess[s] EXCEPT !.pc = "ready", !.check = c]
    <2>2. sess' = [sess EXCEPT ![s] = new]
        BY <2>1
    <2>3. new \in Session
        BY <1>1, <1>2 DEF Session, PCs
    <2>4. /\ new.pc = "ready"
          /\ new.snaps = sess[s].snaps
          /\ new.rows = sess[s].rows
          /\ Keeps(s, new)
        BY <1>1 DEF Session, Keeps
    <2> HIDE DEF new
    <2>5. Sound(s, new)
        BY <1>1, <1>5, <2>4 DEF Sound, Rescores, Keeps
    <2>6. Quiet(s, new)
        BY <1>3, <1>5, <2>4 DEF Quiet, Waits, Rescores
    <2> QED  BY <2>2, <2>3, <2>5, <2>6
<1> QED  BY <1>4, <1>5 DEF Probe

LEMMA PointShape ==
    ASSUME TypeInv, NEW s \in Sessions, Point(s) \/ AlertNothing(s)
    PROVE  \E e \in Session : sess' = [sess EXCEPT ![s] = e] /\ Sound(s, e) /\ Quiet(s, e)
<1>1. sess[s] \in Session /\ Sound(s, sess[s])
    BY DEF TypeInv, Typed
<1>2. Still /\ posts' = posts
    BY DEF Point, AlertNothing, Still
<1>3. PICK pc \in {"pointed", "done"} :
        /\ sess[s].pc \in {"scored", "pointed"}
        /\ sess' = [sess EXCEPT ![s].pc = pc]
    BY DEF Point, AlertNothing
<1> DEFINE new == [sess[s] EXCEPT !.pc = pc]
<1>4. sess' = [sess EXCEPT ![s] = new]
    BY <1>3
<1>5. new \in Session
    BY <1>1, <1>3 DEF Session, PCs
<1>6. /\ new.pc = pc
      /\ new.snaps = sess[s].snaps
      /\ new.rows = sess[s].rows
      /\ Keeps(s, new)
    BY <1>1 DEF Session, Keeps
<1> HIDE DEF new
<1>7. Sound(s, new)
    BY <1>1, <1>3, <1>6 DEF Sound, Keeps
<1>8. Quiet(s, new)
    BY <1>2, <1>3, <1>6 DEF Quiet, Waits
<1> QED  BY <1>4, <1>5, <1>7, <1>8

LEMMA NextItemShape ==
    ASSUME TypeInv, NEW s \in Sessions, NextItem(s)
    PROVE  \E e \in Session : sess' = [sess EXCEPT ![s] = e] /\ Sound(s, e) /\ Quiet(s, e)
<1>1. sess[s] \in Session /\ Sound(s, sess[s]) /\ facts \in Facts /\ Profiles \subseteq Facts
    BY FactsAssumption DEF TypeInv, Typed
<1>2. Still /\ posts' = posts
    BY DEF NextItem, Still
<1>3. PICK p \in Profiles :
        sess' = [sess EXCEPT ![s].pc = "loaded", ![s].check = NoCheck,
                             ![s].facts = {[p EXCEPT !.label = facts.label, !.africa = facts.africa]}]
    BY DEF NextItem
<1>4. PICK own \in SUBSET Facts : own = {[p EXCEPT !.label = facts.label, !.africa = facts.africa]}
    <2>1. [p EXCEPT !.label = facts.label, !.africa = facts.africa] \in Facts
        BY <1>1, ProfileTyped
    <2> QED  BY <2>1
<1> DEFINE new == [sess[s] EXCEPT !.pc = "loaded", !.check = NoCheck, !.facts = own]
<1>5. sess' = [sess EXCEPT ![s] = new]
    BY <1>3, <1>4
<1>6. NoCheck \in Checks
    BY DEF NoCheck, Checks
<1>7. new \in Session
    BY <1>1, <1>6 DEF Session, PCs
<1>8. /\ new.pc = "loaded"
      /\ new.snaps = sess[s].snaps
      /\ new.rows = sess[s].rows
      /\ Keeps(s, new)
    BY <1>1 DEF Session, Keeps
<1> HIDE DEF new
<1>9. Sound(s, new)
    BY <1>1, <1>8 DEF Sound, Keeps, NextItem, Rescores
<1>10. Quiet(s, new)
    BY <1>2, <1>8 DEF Quiet, NextItem
<1> QED  BY <1>5, <1>7, <1>9, <1>10

LEMMA EvaluateShape ==
    ASSUME TypeInv, NEW s \in Sessions, Evaluate(s)
    PROVE  \E e \in Session, snap \in Snapshots :
            sess' = [sess EXCEPT ![s] = e] /\ Sound(s, e) /\ Appends(s, e, snap)
<1>1. sess[s] \in Session /\ Sound(s, sess[s]) /\ scored \in Nat
    BY DEF TypeInv, Typed
<1>2. Basis(s) \in Facts
    BY BasisTyped DEF TypeInv
<1>3. PICK snap : snap = Snapshot(Outcome(s, Basis(s)), Workflow(s), Basis(s), scored + 1, sess[s].seen)
    OBVIOUS
<1>4. snap \in Snapshots
    <2>1. Outcome(s, Basis(s)) \in States
        BY OutcomeTyped
    <2>2. Workflow(s) \in Workflows /\ sess[s].seen \in Nat /\ scored + 1 \in Nat
        BY <1>1 DEF Workflow, Session
    <2> QED  BY <1>2, <1>3, <2>1, <2>2 DEF Snapshot, Snapshots
<1>5. /\ snap.first = snap.state
      /\ snap.workflow = sess[s].workflow
      /\ snap.seen = sess[s].seen
      /\ snap.at = scored + 1
    BY <1>3 DEF Snapshot, Workflow
<1> DEFINE new == [sess[s] EXCEPT !.pc = "scored", !.snaps = Append(sess[s].snaps, snap)]
<1>6. sess' = [sess EXCEPT ![s] = new]
    BY <1>3 DEF Evaluate
<1>7. sess[s].snaps \in Seq(Snapshots) /\ Append(sess[s].snaps, snap) \in Seq(Snapshots)
    BY <1>1, <1>4 DEF Session
<1>8. new \in Session
    BY <1>1, <1>7 DEF Session, PCs
<1>9. /\ new.pc = "scored"
      /\ new.snaps = Append(sess[s].snaps, snap)
      /\ new.rows = sess[s].rows
      /\ Keeps(s, new)
    BY <1>1 DEF Session, Keeps
<1> HIDE DEF new
<1>10. Sound(s, new)
    <2>1. \A i \in DOMAIN new.snaps :
            /\ new.snaps[i].first = new.snaps[i].state
            /\ new.snaps[i].workflow = new.workflow
            /\ new.snaps[i].seen = new.seen
        BY <1>1, <1>5, <1>7, <1>9 DEF Sound, Keeps
    <2>2. new.snaps # <<>>
        BY <1>7, <1>9
    <2> QED  BY <1>9, <2>1, <2>2 DEF Sound, Evaluate
<1>11. Appends(s, new, snap)
    <2>1. sess[s].pc \in {"loaded", "ready"}
        BY DEF Evaluate
    <2> QED  BY <1>5, <1>9, <2>1 DEF Appends, Evaluate, Keeps
<1> QED  BY <1>4, <1>6, <1>8, <1>10, <1>11

LEMMA AlertPostShape ==
    ASSUME TypeInv, NEW s \in Sessions, AlertPost(s)
    PROVE  \E e \in Session, row \in Rows :
            sess' = [sess EXCEPT ![s] = e] /\ Sound(s, e) /\ Alerts(s, e, row)
<1>1. sess[s] \in Session /\ Sound(s, sess[s]) /\ day \in Nat
    BY DEF TypeInv, Typed
<1>2. sess[s].pc = "pointed" /\ sess[s].snaps # <<>>
    BY <1>1 DEF AlertPost, Sound
<1>3. PICK snap : snap = Snap(s)
    OBVIOUS
<1>4. snap \in Snapshots /\ snap.first = snap.state
    <2>1. sess[s].snaps \in Seq(Snapshots)
        BY <1>1 DEF Session
    <2>2. Len(sess[s].snaps) \in DOMAIN sess[s].snaps
        BY <1>2, <2>1
    <2> QED  BY <1>1, <1>3, <2>1, <2>2 DEF Snap, Sound
<1>5. Key(snap.basis) \in Keys /\ snap.at \in Nat
    BY <1>4 DEF Keys, Snapshots
<1>6. PICK ok \in BOOLEAN :
        /\ posts' = posts \cup (IF ok THEN {[key |-> Key(snap.basis), day |-> day, at |-> snap.at]} ELSE {})
        /\ sess' = [sess EXCEPT ![s].pc = "done",
                                ![s].rows = @ \cup {[key |-> Key(snap.basis), day |-> day,
                                                     at |-> snap.at, delivered |-> ok]}]
    BY <1>3 DEF AlertPost
<1>7. PICK row \in Rows : row = [key |-> Key(snap.basis), day |-> day, at |-> snap.at, delivered |-> ok]
    BY <1>1, <1>5 DEF Rows
<1>8. PICK p \in Posts : p = [key |-> Key(snap.basis), day |-> day, at |-> snap.at]
    BY <1>1, <1>5 DEF Posts
<1> DEFINE new == [sess[s] EXCEPT !.pc = "done", !.rows = sess[s].rows \cup {row}]
<1>9. sess' = [sess EXCEPT ![s] = new]
    BY <1>6, <1>7
<1>10. new \in Session
    <2>1. sess[s].rows \cup {row} \in SUBSET Rows
        BY <1>1 DEF Session
    <2> QED  BY <1>1, <2>1 DEF Session, PCs
<1>11. /\ new.pc = "done"
       /\ new.snaps = sess[s].snaps
       /\ new.rows = sess[s].rows \cup {row}
       /\ Keeps(s, new)
    BY <1>1 DEF Session, Keeps
<1> HIDE DEF new
<1>12. row.key = Key(snap.basis) /\ row.day = day /\ row.at = snap.at /\ p.at = row.at
    BY <1>7, <1>8
<1>13. Sound(s, new)
    <2>1. Rescores(s)
        BY <1>2, <1>1 DEF Sound
    <2> QED  BY <1>1, <1>2, <1>11, <2>1 DEF Sound, Keeps
<1>14. Alerts(s, new, row)
    <2>1. snap.state = "HOT" /\ sess[s].from # "HOT" /\ ~ InWindow(s)
        BY <1>3 DEF AlertPost, EntersHot
    <2>2. Causes(Snap(s), row)
        BY <1>3, <1>4, <1>12, <2>1 DEF Causes
    <2>3. \A r \in dispatches \cup sess[s].rows : ~ (r.key = row.key /\ r.day = row.day)
        BY <1>3, <1>12, <2>1 DEF InWindow
    <2>4. \A q \in posts' : q \in posts \/ (q \in Posts /\ q.at = row.at)
        BY <1>6, <1>8, <1>12
    <2>5. Still
        BY DEF AlertPost, Still
    <2> QED  BY <1>2, <1>11, <1>12, <2>1, <2>2, <2>3, <2>4, <2>5 DEF Alerts
<1> QED  BY <1>9, <1>10, <1>13, <1>14

LEMMA RewriteShape ==
    ASSUME TypeInv, NEW s \in Sessions, Transition(s) \/ Override(s)
    PROVE  \E snap \in Snapshots :
            sess' = [sess EXCEPT ![s] = Idle] /\ Rewrites(s, snap) /\ facts' \in Facts
<1>1. sess[s] \in Session /\ Sound(s, sess[s]) /\ Typed /\ Fits(s, sess[s])
    BY DEF TypeInv, Typed
<1>2. sess[s].pc = "loaded" /\ ~ Rescores(s)
    BY DEF Transition, Override, Rescores
<1>3. sess[s].rows = {} /\ sess[s].snaps = <<>>
    BY <1>1, <1>2 DEF Sound
<1>4. sess[s].seen \in DOMAIN snapshots
    <2>1. sess[s].seen # 0 /\ sess[s].seen <= Len(snapshots) /\ sess[s].seen \in Nat
        BY <1>1, <1>2 DEF Sound, Fits, Session
    <2> QED  BY <1>1, <2>1 DEF Typed
<1>5. PICK old \in Snapshots : old = snapshots[sess[s].seen]
    BY <1>1, <1>4, EntryTyped
<1>6. CASE Transition(s) /\ ~ UNCHANGED <<snapshots, decided>>
    <2>1. PICK w \in Decisions :
            /\ snapshots' = [snapshots EXCEPT ![sess[s].seen].workflow = w]
            /\ decided' = w
        BY <1>6 DEF Transition
    <2> DEFINE new == [old EXCEPT !.workflow = w]
    <2>2. snapshots' = [snapshots EXCEPT ![sess[s].seen] = new]
        BY <1>5, <2>1
    <2>3. /\ new \in Snapshots
          /\ new.first = old.first /\ new.basis = old.basis /\ new.at = old.at /\ new.seen = old.seen
          /\ new.state = old.state /\ new.workflow = w
        BY DEF Snapshots, Workflows
    <2> HIDE DEF new
    <2>4. Rewrites(s, new)
        BY <1>2, <1>3, <1>4, <1>5, <1>6, <2>1, <2>2, <2>3 DEF Rewrites, Transition
    <2>5. facts' \in Facts
        BY <1>1, <1>6 DEF Typed, Transition
    <2> QED  BY <1>6, <2>3, <2>4, <2>5 DEF Transition
<1>8. \* Nothing is written.
      ASSUME snapshots' = snapshots, decided' = decided,
             UNCHANGED <<plan, current, dispatches, posts, scored, day, faults, undone>>
      PROVE  Rewrites(s, old)
    <2>1. snapshots' = [snapshots EXCEPT ![sess[s].seen] = old]
        BY <1>1, <1>4, <1>5, <1>8 DEF Typed
    <2> QED  BY <1>2, <1>3, <1>4, <1>5, <1>8, <2>1 DEF Rewrites
<1>9. CASE Transition(s) /\ UNCHANGED <<snapshots, decided>>
    BY <1>1, <1>5, <1>8, <1>9, Zenon DEF Transition, Typed
<1>7. CASE Override(s)
    <2>1. PICK o \in Overrides :
            /\ facts' = [facts EXCEPT !.label = o.label, !.africa = o.africa]
            /\ \/ snapshots' = snapshots
               \/ \E state \in States : snapshots' = [snapshots EXCEPT ![sess[s].seen].state = state]
        BY <1>7, StateTyped DEF Override, Unchecked
    <2>2. PICK state \in States :
            \/ snapshots' = snapshots /\ state = old.state
            \/ snapshots' = [snapshots EXCEPT ![sess[s].seen].state = state]
        BY <2>1 DEF Snapshots
    <2> DEFINE new == [old EXCEPT !.state = state]
    <2>3. snapshots' = [snapshots EXCEPT ![sess[s].seen] = new]
        <3>1. CASE snapshots' = snapshots /\ state = old.state
            <4>1. new = old
                BY <3>1 DEF Snapshots
            <4>2. snapshots = [snapshots EXCEPT ![sess[s].seen] = old]
                BY <1>1, <1>4, <1>5 DEF Typed
            <4> QED  BY <3>1, <4>1, <4>2
        <3>2. CASE snapshots' = [snapshots EXCEPT ![sess[s].seen].state = state]
            BY <1>5, <3>2
        <3> QED  BY <2>2, <3>1, <3>2
    <2>4. /\ new \in Snapshots
          /\ new.first = old.first /\ new.basis = old.basis /\ new.at = old.at /\ new.seen = old.seen
          /\ new.workflow = old.workflow
        BY DEF Snapshots
    <2> HIDE DEF new
    <2>5. Rewrites(s, new)
        BY <1>2, <1>3, <1>4, <1>5, <1>7, <2>3, <2>4 DEF Rewrites, Override
    <2>6. facts' \in Facts
        <3>1. o.label \in Labels /\ o.africa \in 0..100
            BY FactsAssumption
        <3>2. facts \in Facts
            BY <1>1 DEF Typed
        <3> QED  BY <2>1, <3>1, <3>2 DEF Facts
    <2> QED  BY <1>7, <2>4, <2>5, <2>6 DEF Override
<1> QED  BY <1>6, <1>7, <1>9

\* What the session has in hand joins the record.
Publishes(s) ==
    /\ snapshots' = snapshots \o sess[s].snaps
    /\ current' = Len(snapshots')
    /\ dispatches' = dispatches \cup sess[s].rows
    /\ facts' \in Facts
    /\ sess[s].pc = "done"
    /\ sess[s].snaps # <<>>
    /\ UNCHANGED <<plan, posts, scored, day, decided, faults, undone>>

LEMMA CommitShape ==
    ASSUME TypeInv, NEW s \in Sessions, Commit(s)
    PROVE  sess' = [sess EXCEPT ![s] = Idle] /\ Publishes(s)
<1>1. Basis(s) \in Facts /\ facts \in Facts
    BY BasisTyped DEF TypeInv, Typed
<1>2. facts' \in Facts
    BY <1>1, ProfileTyped DEF Commit
<1>3. sess[s].snaps # <<>>
    BY DEF TypeInv, Sound, Commit
<1> QED  BY <1>2, <1>3 DEF Commit, Publishes

-----------------------------------------------------------------------------
(* The type invariant *)

\* The rescores in hand that wait for their snapshot are counted in Bounded.
LEMMA BoundedStep ==
    ASSUME TypeInv, NEW s \in Sessions, NEW e \in Session, sess' = [sess EXCEPT ![s] = e],
           \/ scored' = scored /\ (Waits(s, e) => Waits(s, sess[s]) \/ Room)
           \/ scored' = scored + 1 /\ Waits(s, sess[s]) /\ ~ Waits(s, e)
    PROVE  Bounded'
<1>1. sess \in [Sessions -> Session] /\ scored \in Nat /\ MaxScores \in Nat /\ Bounded
    BY LedgerAssumption DEF TypeInv, Typed
<1>2. \A t \in Sessions : sess'[t] = IF t = s THEN e ELSE sess[t]
    BY <1>1
<1>3. Pending = {t \in Sessions : Waits(t, sess[t])}
    BY DEF Pending, Busy, Waits
<1>4. Pending' = {t \in Sessions : Waits(t, sess'[t])}
    BY DEF Pending, Busy, Waits, Rescores
<1>5. IsFiniteSet(Pending) /\ Cardinality(Pending) \in Nat
    <2>1. Pending \subseteq Sessions
        BY <1>3
    <2> QED  BY <2>1, KindAssumption, FS_Subset, FS_CardinalityType
<1>6. s \in Pending <=> Waits(s, sess[s])
    BY <1>3
<1>7. CASE scored' = scored /\ ~ Waits(s, e)
    <2>1. Pending' \subseteq Pending
        BY <1>2, <1>3, <1>4, <1>7
    <2>2. Cardinality(Pending') <= Cardinality(Pending) /\ Cardinality(Pending') \in Nat
        BY <1>5, <2>1, FS_Subset, FS_CardinalityType
    <2> QED  BY <1>1, <1>5, <1>7, <2>2 DEF Bounded
<1>8. CASE scored' = scored /\ Waits(s, e) /\ Waits(s, sess[s])
    <2>1. Pending' = Pending
        BY <1>2, <1>3, <1>4, <1>8
    <2> QED  BY <1>1, <1>8, <2>1 DEF Bounded
<1>9. CASE scored' = scored /\ Waits(s, e) /\ ~ Waits(s, sess[s]) /\ Room
    <2>1. Pending' = Pending \cup {s} /\ s \notin Pending
        BY <1>2, <1>3, <1>4, <1>9
    <2>2. Cardinality(Pending') = Cardinality(Pending) + 1
        BY <1>5, <2>1, FS_AddElement
    <2>3. scored + Cardinality(Pending) < MaxScores
        BY <1>9 DEF Room, Pending
    <2> QED  BY <1>1, <1>5, <1>9, <2>2, <2>3 DEF Bounded
<1>10. CASE scored' = scored + 1 /\ Waits(s, sess[s]) /\ ~ Waits(s, e)
    <2>1. Pending' = Pending \ {s} /\ s \in Pending
        BY <1>2, <1>3, <1>4, <1>10
    <2>2. Cardinality(Pending') = Cardinality(Pending) - 1
        BY <1>5, <2>1, FS_RemoveElement
    <2> QED  BY <1>1, <1>5, <1>10, <2>2 DEF Bounded
<1> QED  BY <1>7, <1>8, <1>9, <1>10

\* The sessions that a step does not touch fit what they fitted.
LEMMA SessionsStep ==
    ASSUME TypeInv, NEW s \in Sessions, NEW e \in Session, sess' = [sess EXCEPT ![s] = e],
           plan' = plan, Len(snapshots') \in Nat, Len(snapshots') >= Len(snapshots),
           scored' \in Nat, scored' >= scored, day' = day, Sound(s, e), Fits(s, e)'
    PROVE  /\ sess' \in [Sessions -> Session]
           /\ (\A t \in Sessions : Sound(t, sess[t]) /\ Fits(t, sess[t]))'
<1>1. sess \in [Sessions -> Session] /\ scored \in Nat /\ snapshots \in Seq(Snapshots)
    BY DEF TypeInv, Typed
<1>2. sess' \in [Sessions -> Session]
    BY <1>1
<1>3. ASSUME NEW t \in Sessions PROVE (Sound(t, sess[t]) /\ Fits(t, sess[t]))'
    <2>1. CASE t = s
        <3>1. sess'[t] = e
            BY <1>1, <2>1
        <3> QED  BY <2>1, <3>1 DEF Sound, Rescores
    <2>2. CASE t # s
        <3>1. sess'[t] = sess[t] /\ sess[t] \in Session
            BY <1>1, <2>2
        <3>2. Sound(t, sess[t]) /\ Fits(t, sess[t])
            BY DEF TypeInv
        <3>3. PICK x \in Session : x = sess[t]
            BY <3>1
        <3>4. Sound(t, x) /\ Fits(t, x)
            BY <3>2, <3>3
        <3>5. x.seen \in Nat /\ Len(snapshots) \in Nat
            BY <1>1 DEF Session
        <3>6. Fits(t, x)'
            <4>1. x.pc # "idle" => t \in plan'.sessions
                BY <3>4 DEF Fits
            <4>2. x.seen <= Len(snapshots')
                BY <3>4, <3>5 DEF Fits
            <4>3. \A i \in DOMAIN x.snaps : x.snaps[i].at \in 1..scored'
                BY <1>1, <3>4 DEF Fits
            <4>4. \A row \in x.rows : row.day <= day'
                BY <3>4 DEF Fits
            <4> QED  BY <4>1, <4>2, <4>3, <4>4 DEF Fits
        <3>7. Sound(t, x)'
            BY <3>4 DEF Sound, Rescores
        <3> QED  BY <3>1, <3>3, <3>6, <3>7
    <2> QED  BY <2>1, <2>2
<1> QED  BY <1>2, <1>3

LEMMA EntrySound ==
    ASSUME TypeInv, NEW s \in Sessions
    PROVE  /\ sess[s] \in Session
           /\ sess[s].snaps \in Seq(Snapshots)
           /\ sess[s].rows \in SUBSET Rows
           /\ Len(snapshots) \in Nat
           /\ scored \in Nat
           /\ Sound(s, sess[s])
           /\ Fits(s, sess[s])
BY DEF TypeInv, Typed, Session

\* Idle fits whatever the candidate is like.
LEMMA IdleFits ==
    ASSUME NEW s \in Sessions, Len(snapshots') \in Nat
    PROVE  Fits(s, Idle)'
BY DEF Fits, Idle

LEMMA TypeInit == Init => TypeInv
<1> SUFFICES ASSUME Init PROVE TypeInv
    OBVIOUS
<1>1. Typed
    <2>1. sess \in [Sessions -> Session]
        BY IdleTyped DEF Init
    <2>2. snapshots \in Seq(Snapshots) /\ current = Len(snapshots)
        BY DEF Init
    <2> QED  BY <2>1, <2>2, FactsAssumption, LedgerAssumption DEF Init, Typed, Workflows
<1>2. ASSUME NEW s \in Sessions PROVE Sound(s, sess[s]) /\ Fits(s, sess[s])
    <2>1. sess[s] = Idle
        BY DEF Init
    <2>2. Fits(s, Idle)
        BY DEF Init, Fits, Idle
    <2> QED  BY <2>1, <2>2, IdleSound
<1>3. Ledgered
    BY DEF Init, Ledgered
<1>4. Bounded
    <2>1. Pending = {}
        BY DEF Init, Pending, Busy, Idle
    <2> QED  BY <2>1, FS_EmptySet, LedgerAssumption DEF Init, Bounded
<1> QED  BY <1>1, <1>2, <1>3, <1>4 DEF TypeInv

LEMMA TypeLoad ==
    ASSUME TypeInv, NEW s \in Sessions, NEW e \in Session, sess' = [sess EXCEPT ![s] = e],
           Sound(s, e), Loads(s, e) \/ Quiet(s, e)
    PROVE  TypeInv'
<1>1. Still /\ posts' = posts /\ Typed /\ Ledgered
    BY DEF Loads, Quiet, TypeInv
<1>2. /\ plan' = plan /\ facts' = facts /\ snapshots' = snapshots /\ current' = current
      /\ dispatches' = dispatches /\ scored' = scored /\ day' = day /\ decided' = decided
      /\ faults' = faults /\ undone' = undone
    BY <1>1 DEF Still
<1>3. s \in plan.sessions
    <2>1. sess[s].pc # "idle" => s \in plan.sessions
        BY EntrySound DEF Fits
    <2> QED  BY <2>1 DEF Loads, Quiet, MayStart
<1>4. Fits(s, e)'
    <2>1. CASE Loads(s, e)
        BY <1>1, <1>2, <1>3, <2>1 DEF Loads, Fits, Typed
    <2>2. CASE Quiet(s, e)
        <3>1. Fits(s, sess[s])
            BY EntrySound
        <3>2. e.seen = sess[s].seen /\ e.snaps = sess[s].snaps /\ e.rows = sess[s].rows
            BY <2>2 DEF Quiet, Keeps
        <3> QED  BY <1>2, <1>3, <3>1, <3>2 DEF Fits
    <2> QED  BY <2>1, <2>2
<1>5. sess' \in [Sessions -> Session] /\ (\A t \in Sessions : Sound(t, sess[t]) /\ Fits(t, sess[t]))'
    <2>1. Len(snapshots) \in Nat /\ scored \in Nat
        BY <1>1 DEF Typed
    <2>2. /\ Len(snapshots') \in Nat /\ Len(snapshots') >= Len(snapshots)
          /\ scored' \in Nat /\ scored' >= scored
        BY <1>2, <2>1
    <2> QED  BY <1>2, <1>4, <2>2, SessionsStep
<1>6. Bounded'
    <2>1. Waits(s, e) => Waits(s, sess[s]) \/ Room
        <3>1. CASE Loads(s, e)
            BY <3>1 DEF Loads, MayStart, Waits
        <3>2. CASE Quiet(s, e)
            BY <3>2 DEF Quiet
        <3> QED  BY <3>1, <3>2
    <2> QED  BY <1>2, <2>1, BoundedStep
<1>7. Typed'
    BY <1>1, <1>2, <1>5 DEF Typed
<1>8. Ledgered'
    BY <1>1, <1>2 DEF Ledgered
<1> QED  BY <1>5, <1>6, <1>7, <1>8 DEF TypeInv

LEMMA TypeEvaluate ==
    ASSUME TypeInv, NEW s \in Sessions, NEW e \in Session, NEW snap \in Snapshots,
           sess' = [sess EXCEPT ![s] = e], Sound(s, e), Appends(s, e, snap)
    PROVE  TypeInv'
<1>1. Typed /\ Ledgered
    BY DEF TypeInv
<1>2. /\ plan' = plan /\ facts' = facts /\ snapshots' = snapshots /\ current' = current
      /\ dispatches' = dispatches /\ posts' = posts /\ day' = day /\ decided' = decided
      /\ faults' = faults /\ undone' = undone /\ scored' = scored + 1
    BY DEF Appends
<1>3. scored \in Nat /\ scored' \in Nat /\ scored' >= scored /\ Len(snapshots) \in Nat
    BY <1>1, <1>2 DEF Typed
<1>4. Fits(s, e)'
    <2>1. Fits(s, sess[s]) /\ sess[s].snaps \in Seq(Snapshots)
        BY EntrySound
    <2>2. e.seen = sess[s].seen /\ e.snaps = Append(sess[s].snaps, snap) /\ e.rows = sess[s].rows
        BY DEF Appends, Keeps
    <2>3. sess[s].pc # "idle"
        BY DEF Appends
    <2>4. \A i \in DOMAIN e.snaps : e.snaps[i].at \in 1..scored'
        <3>1. snap.at = scored + 1
            BY DEF Appends
        <3>2. \A i \in DOMAIN sess[s].snaps : sess[s].snaps[i].at \in 1..scored
            BY <2>1 DEF Fits
        <3>3. ASSUME NEW i \in DOMAIN e.snaps PROVE e.snaps[i].at \in 1..scored'
            <4>1. CASE i \in DOMAIN sess[s].snaps
                <5>1. e.snaps[i] = sess[s].snaps[i]
                    BY <2>1, <2>2, <4>1
                <5> QED  BY <1>2, <1>3, <3>2, <4>1, <5>1
            <4>2. CASE i \notin DOMAIN sess[s].snaps
                <5>1. e.snaps[i] = snap
                    BY <2>1, <2>2, <4>2
                <5> QED  BY <1>2, <1>3, <3>1, <5>1
            <4> QED  BY <4>1, <4>2
        <3> QED  BY <3>3
    <2> QED  BY <1>2, <2>1, <2>2, <2>3, <2>4 DEF Fits
<1>5. sess' \in [Sessions -> Session] /\ (\A t \in Sessions : Sound(t, sess[t]) /\ Fits(t, sess[t]))'
    <2>1. Len(snapshots') \in Nat /\ Len(snapshots') >= Len(snapshots)
        BY <1>2, <1>3
    <2> QED  BY <1>2, <1>3, <1>4, <2>1, SessionsStep
<1>6. Bounded'
    <2>1. Waits(s, sess[s]) /\ ~ Waits(s, e)
        BY DEF Appends, Waits
    <2> QED  BY <1>2, <2>1, BoundedStep
<1>7. Typed'
    BY <1>1, <1>2, <1>3, <1>5 DEF Typed
<1>8. Ledgered'
    BY <1>1, <1>2, <1>3 DEF Ledgered
<1> QED  BY <1>5, <1>6, <1>7, <1>8 DEF TypeInv

LEMMA TypeAlert ==
    ASSUME TypeInv, NEW s \in Sessions, NEW e \in Session, NEW row \in Rows,
           sess' = [sess EXCEPT ![s] = e], Sound(s, e), Alerts(s, e, row)
    PROVE  TypeInv'
<1>1. Typed /\ Ledgered
    BY DEF TypeInv
<1>2. /\ plan' = plan /\ facts' = facts /\ snapshots' = snapshots /\ current' = current
      /\ dispatches' = dispatches /\ scored' = scored /\ day' = day /\ decided' = decided
      /\ faults' = faults /\ undone' = undone
    BY DEF Alerts, Still
<1>3. posts' \in SUBSET Posts
    BY <1>1 DEF Alerts, Typed
<1>4. Len(snapshots) \in Nat /\ scored \in Nat /\ day \in Nat
    BY <1>1 DEF Typed
<1>5. Fits(s, e)'
    <2>1. Fits(s, sess[s])
        BY EntrySound
    <2>2. /\ e.seen = sess[s].seen
          /\ e.snaps = sess[s].snaps
          /\ e.rows = sess[s].rows \cup {row}
          /\ row.day = day
          /\ sess[s].pc # "idle"
        BY DEF Alerts, Keeps
    <2> QED  BY <1>2, <1>4, <2>1, <2>2 DEF Fits
<1>6. sess' \in [Sessions -> Session] /\ (\A t \in Sessions : Sound(t, sess[t]) /\ Fits(t, sess[t]))'
    <2>1. /\ Len(snapshots') \in Nat /\ Len(snapshots') >= Len(snapshots)
          /\ scored' \in Nat /\ scored' >= scored
        BY <1>2, <1>4
    <2> QED  BY <1>2, <1>5, <2>1, SessionsStep
<1>7. Bounded'
    <2>1. ~ Waits(s, e)
        BY DEF Alerts, Waits
    <2> QED  BY <1>2, <2>1, BoundedStep
<1>8. Typed'
    BY <1>1, <1>2, <1>3, <1>6 DEF Typed
<1>9. Ledgered'
    BY <1>1, <1>2 DEF Ledgered
<1> QED  BY <1>6, <1>7, <1>8, <1>9 DEF TypeInv

\* A session that ends is idle again.
LEMMA TypeEnd ==
    ASSUME TypeInv, NEW s \in Sessions, sess' = [sess EXCEPT ![s] = Idle],
           sess' \in [Sessions -> Session] => Typed',
           Ledgered', plan' = plan, scored' = scored, day' = day, Len(snapshots') \in Nat,
           Len(snapshots') >= Len(snapshots)
    PROVE  TypeInv'
<1>1. Sound(s, Idle) /\ Fits(s, Idle)'
    BY IdleSound, IdleFits
<1>2. scored' \in Nat /\ scored' >= scored
    BY EntrySound
<1>3. sess' \in [Sessions -> Session] /\ (\A t \in Sessions : Sound(t, sess[t]) /\ Fits(t, sess[t]))'
    BY <1>1, <1>2, IdleTyped, SessionsStep
<1>4. Bounded'
    <2>1. ~ Waits(s, Idle)
        BY DEF Waits, Idle
    <2> QED  BY <2>1, IdleTyped, BoundedStep
<1> QED  BY <1>3, <1>4 DEF TypeInv

Reads(s) ==
    \E e \in Session : sess' = [sess EXCEPT ![s] = e] /\ Sound(s, e) /\ (Loads(s, e) \/ Quiet(s, e))

Scores(s) ==
    \E e \in Session, snap \in Snapshots :
        sess' = [sess EXCEPT ![s] = e] /\ Sound(s, e) /\ Appends(s, e, snap)

Tells(s) ==
    \E e \in Session, row \in Rows :
        sess' = [sess EXCEPT ![s] = e] /\ Sound(s, e) /\ Alerts(s, e, row)

Corrects(s) ==
    \E snap \in Snapshots :
        sess' = [sess EXCEPT ![s] = Idle] /\ Rewrites(s, snap) /\ facts' \in Facts

\* Every step is one of these.
LEMMA StepShape ==
    ASSUME TypeInv, Next
    PROVE  \/ \E s \in Sessions : Reads(s)
           \/ \E s \in Sessions : Scores(s)
           \/ \E s \in Sessions : Tells(s)
           \/ \E s \in Sessions : sess' = [sess EXCEPT ![s] = Idle] /\ Publishes(s)
           \/ \E s \in Sessions : RollBack(s)
           \/ \E s \in Sessions : Corrects(s)
           \/ DayPasses
<1>1. ASSUME NEW s \in Sessions, Load(s) PROVE Reads(s)
    BY <1>1, LoadShape, Zenon DEF Reads
<1>2. ASSUME NEW s \in Sessions, Probe(s) PROVE Reads(s)
    BY <1>2, ProbeShape, Zenon DEF Reads
<1>3. ASSUME NEW s \in Sessions, Point(s) \/ AlertNothing(s) PROVE Reads(s)
    BY <1>3, PointShape, Zenon DEF Reads
<1>4. ASSUME NEW s \in Sessions, NextItem(s) PROVE Reads(s)
    BY <1>4, NextItemShape, Zenon DEF Reads
<1>5. ASSUME NEW s \in Sessions, Evaluate(s) PROVE Scores(s)
    BY <1>5, EvaluateShape, Zenon DEF Scores
<1>6. ASSUME NEW s \in Sessions, AlertPost(s) PROVE Tells(s)
    BY <1>6, AlertPostShape, Zenon DEF Tells
<1>7. ASSUME NEW s \in Sessions, Commit(s) PROVE sess' = [sess EXCEPT ![s] = Idle] /\ Publishes(s)
    BY <1>7, CommitShape
<1>8. ASSUME NEW s \in Sessions, Transition(s) \/ Override(s) PROVE Corrects(s)
    BY <1>8, RewriteShape, Zenon DEF Corrects
<1> QED  BY <1>1, <1>2, <1>3, <1>4, <1>5, <1>6, <1>7, <1>8, Zenon DEF Next

LEMMA TypePublishes ==
    ASSUME TypeInv, NEW s \in Sessions, sess' = [sess EXCEPT ![s] = Idle], Publishes(s)
    PROVE  TypeInv'
<1>1. Typed /\ Ledgered /\ Fits(s, sess[s]) /\ sess[s].snaps \in Seq(Snapshots) /\ sess[s].rows \in SUBSET Rows
    BY EntrySound DEF TypeInv
<1>2. /\ snapshots \in Seq(Snapshots)
      /\ snapshots' = snapshots \o sess[s].snaps
      /\ dispatches' = dispatches \cup sess[s].rows
    BY <1>1 DEF Typed, Publishes
<1>3. snapshots' \in Seq(Snapshots) /\ Len(snapshots') = Len(snapshots) + Len(sess[s].snaps)
    BY <1>1, <1>2
<1>4. Len(snapshots') \in Nat /\ Len(snapshots') >= Len(snapshots)
    <2>1. Len(snapshots) \in Nat /\ Len(sess[s].snaps) \in Nat
        BY <1>1, <1>2
    <2> QED  BY <1>3, <2>1
<1>5. sess' \in [Sessions -> Session] => Typed'
    <2>1. dispatches' \in SUBSET Rows
        BY <1>1, <1>2 DEF Typed
    <2> QED  BY <1>1, <1>3, <2>1 DEF Typed, Publishes
<1>6. Ledgered'
    <2>1. \A i \in DOMAIN snapshots' : snapshots'[i].at \in 1..scored
        <3>1. ASSUME NEW i \in DOMAIN snapshots' PROVE snapshots'[i].at \in 1..scored
            <4>1. CASE i \in DOMAIN snapshots
                <5>1. snapshots'[i] = snapshots[i]
                    BY <1>1, <1>2, <4>1
                <5> QED  BY <1>1, <4>1, <5>1 DEF Ledgered
            <4>2. CASE i \notin DOMAIN snapshots
                <5>1. PICK k \in DOMAIN sess[s].snaps : snapshots'[i] = sess[s].snaps[k]
                    <6>1. i - Len(snapshots) \in DOMAIN sess[s].snaps
                          /\ snapshots'[i] = sess[s].snaps[i - Len(snapshots)]
                        BY <1>1, <1>2, <1>3, <4>2
                    <6> QED  BY <6>1
                <5> QED  BY <1>1, <5>1 DEF Fits
            <4> QED  BY <4>1, <4>2
        <3> QED  BY <3>1
    <2>2. \A row \in dispatches' : row.day <= day
        BY <1>1, <1>2 DEF Ledgered, Fits
    <2> QED  BY <2>1, <2>2 DEF Ledgered, Publishes
<1> QED  BY <1>4, <1>5, <1>6, TypeEnd DEF Publishes

LEMMA TypeRollBack ==
    ASSUME TypeInv, NEW s \in Sessions, RollBack(s)
    PROVE  TypeInv'
<1>1. Typed /\ Ledgered /\ Fits(s, sess[s]) /\ sess[s].snaps \in Seq(Snapshots)
    BY EntrySound DEF TypeInv
<1>2. undone' \subseteq 1..scored
    <2>1. {snap.at : snap \in Range(sess[s].snaps)} \subseteq 1..scored
        BY <1>1 DEF Fits, Range
    <2> QED  BY <1>1, <2>1 DEF RollBack, Typed
<1>3. faults' \in 0..MaxFaults
    BY <1>1, LedgerAssumption DEF RollBack, Typed
<1>4. sess' \in [Sessions -> Session] => Typed'
    BY <1>1, <1>2, <1>3 DEF Typed, RollBack
<1>5. Ledgered'
    BY <1>1 DEF Ledgered, RollBack
<1>6. Len(snapshots') \in Nat /\ Len(snapshots') >= Len(snapshots)
    <2>1. Len(snapshots) \in Nat /\ snapshots' = snapshots
        BY <1>1 DEF Typed, RollBack
    <2> QED  BY <2>1
<1> QED  BY <1>4, <1>5, <1>6, TypeEnd DEF RollBack

\* What a correction leaves of the ledger.
LEMMA Corrected ==
    ASSUME TypeInv, NEW s \in Sessions, NEW snap \in Snapshots, Rewrites(s, snap)
    PROVE  /\ snapshots' \in Seq(Snapshots)
           /\ Len(snapshots') = Len(snapshots)
           /\ DOMAIN snapshots' = DOMAIN snapshots
           /\ snapshots'[sess[s].seen] = snap
           /\ \A i \in DOMAIN snapshots :
                /\ snapshots'[i].at = snapshots[i].at
                /\ snapshots'[i].first = snapshots[i].first
                /\ snapshots'[i].basis = snapshots[i].basis
                /\ snapshots'[i].seen = snapshots[i].seen
                /\ i # sess[s].seen => snapshots'[i] = snapshots[i]
<1>1. snapshots \in Seq(Snapshots) /\ sess[s].seen \in DOMAIN snapshots
    BY DEF TypeInv, Typed, Rewrites
<1>2. snapshots' = [snapshots EXCEPT ![sess[s].seen] = snap]
    BY DEF Rewrites
<1>3. snapshots' \in Seq(Snapshots) /\ Len(snapshots') = Len(snapshots) /\ DOMAIN snapshots' = DOMAIN snapshots
    BY <1>1, <1>2
<1>4. \A i \in DOMAIN snapshots : snapshots'[i] = IF i = sess[s].seen THEN snap ELSE snapshots[i]
    BY <1>1, <1>2
<1> QED  BY <1>1, <1>3, <1>4 DEF Rewrites

LEMMA TypeCorrects ==
    ASSUME TypeInv, NEW s \in Sessions, Corrects(s)
    PROVE  TypeInv'
<1>1. PICK snap \in Snapshots :
        sess' = [sess EXCEPT ![s] = Idle] /\ Rewrites(s, snap) /\ facts' \in Facts
    BY DEF Corrects
<1>2. Typed /\ Ledgered
    BY DEF TypeInv
<1>3. /\ snapshots' \in Seq(Snapshots)
      /\ Len(snapshots') = Len(snapshots)
      /\ DOMAIN snapshots' = DOMAIN snapshots
      /\ \A i \in DOMAIN snapshots : snapshots'[i].at = snapshots[i].at
    BY <1>1, Corrected
<1>4. decided' \in Workflows
    BY <1>1, <1>2, EntryTyped DEF Rewrites, Snapshots, Typed
<1>5. sess' \in [Sessions -> Session] => Typed'
    BY <1>1, <1>2, <1>3, <1>4 DEF Typed, Rewrites
<1>6. Ledgered'
    BY <1>1, <1>2, <1>3 DEF Ledgered, Rewrites
<1>7. Len(snapshots') \in Nat /\ Len(snapshots') >= Len(snapshots)
    <2>1. Len(snapshots) \in Nat
        BY <1>2 DEF Typed
    <2> QED  BY <1>3, <2>1
<1> QED  BY <1>1, <1>5, <1>6, <1>7, TypeEnd DEF Rewrites

LEMMA TypeDay == ASSUME TypeInv, DayPasses PROVE TypeInv'
<1>1. Typed /\ Ledgered /\ day \in Nat /\ day' = day + 1 /\ sess' = sess
    BY DEF TypeInv, Typed, DayPasses
<1>2. Typed'
    BY <1>1 DEF Typed, DayPasses
<1>3. \A row \in Rows : row.day \in Nat
    BY DEF Rows
<1>4. Ledgered'
    BY <1>1, <1>3 DEF Ledgered, DayPasses, Typed
<1>5. ASSUME NEW s \in Sessions PROVE (Sound(s, sess[s]) /\ Fits(s, sess[s]))'
    <2>1. Sound(s, sess[s]) /\ Fits(s, sess[s]) /\ sess[s].rows \in SUBSET Rows
        BY EntrySound
    <2>2. Sound(s, sess[s])'
        BY <1>1, <2>1 DEF Sound, Rescores
    <2>3. \A row \in sess[s].rows : row.day <= day'
        BY <1>1, <1>3, <2>1 DEF Fits
    <2>4. Fits(s, sess[s])'
        BY <1>1, <2>1, <2>3 DEF Fits, DayPasses
    <2> QED  BY <2>2, <2>4
<1>6. Bounded'
    BY DEF TypeInv, Bounded, Pending, Busy, DayPasses, Rescores
<1> QED  BY <1>2, <1>4, <1>5, <1>6 DEF TypeInv

LEMMA TypeStutter == ASSUME TypeInv, UNCHANGED vars PROVE TypeInv'
<1>1. Typed' /\ Ledgered'
    BY DEF TypeInv, Typed, Ledgered, vars
<1>2. Bounded'
    BY DEF TypeInv, Bounded, Pending, Busy, vars, Rescores
<1>3. ASSUME NEW s \in Sessions PROVE (Sound(s, sess[s]) /\ Fits(s, sess[s]))'
    BY EntrySound DEF Sound, Rescores, Fits, vars
<1> QED  BY <1>1, <1>2, <1>3 DEF TypeInv

LEMMA TypeStep == ASSUME TypeInv, [Next]_vars PROVE TypeInv'
<1>1. CASE Next
    <2>1. ASSUME NEW s \in Sessions, Reads(s) PROVE TypeInv'
        BY <2>1, TypeLoad, Zenon DEF Reads
    <2>2. ASSUME NEW s \in Sessions, Scores(s) PROVE TypeInv'
        BY <2>2, TypeEvaluate, Zenon DEF Scores
    <2>3. ASSUME NEW s \in Sessions, Tells(s) PROVE TypeInv'
        BY <2>3, TypeAlert, Zenon DEF Tells
    <2> QED  BY <1>1, <2>1, <2>2, <2>3, StepShape, TypePublishes, TypeRollBack, TypeCorrects, TypeDay
<1>2. CASE UNCHANGED vars
    BY <1>2, TypeStutter
<1> QED  BY <1>1, <1>2

-----------------------------------------------------------------------------
(* calculated_at *)

LEMMA Others ==
    ASSUME TypeInv, NEW s \in Sessions, NEW e, sess' = [sess EXCEPT ![s] = e]
    PROVE  sess'[s] = e /\ \A t \in Sessions \ {s} : sess'[t] = sess[t]
BY DEF TypeInv, Typed

\* A step that stamps nothing and commits nothing.
LEMMA StampedLess ==
    ASSUME Stamped, DOMAIN snapshots' = DOMAIN snapshots,
           \A i \in DOMAIN snapshots : snapshots'[i].at = snapshots[i].at,
           \A t \in Sessions : sess'[t].snaps = sess[t].snaps \/ sess'[t].snaps = <<>>
    PROVE  Stamped'
<1>1. \A t \in Sessions : \A i \in DOMAIN sess'[t].snaps :
        sess'[t].snaps = sess[t].snaps
    OBVIOUS
<1> QED  BY <1>1 DEF Stamped

LEMMA StampedScores ==
    ASSUME TypeInv, Stamped, NEW s \in Sessions, Scores(s)
    PROVE  Stamped'
<1>1. PICK e \in Session, snap \in Snapshots :
        sess' = [sess EXCEPT ![s] = e] /\ Sound(s, e) /\ Appends(s, e, snap)
    BY DEF Scores
<1>2. /\ e.snaps = Append(sess[s].snaps, snap)
      /\ snap.at = scored + 1
      /\ snapshots' = snapshots
    BY <1>1 DEF Appends
<1>3. /\ sess'[s].snaps = Append(sess[s].snaps, snap)
      /\ \A t \in Sessions \ {s} : sess'[t] = sess[t]
    BY <1>1, <1>2, Others
<1>4. /\ \A i \in DOMAIN snapshots : snapshots[i].at \in 1..scored
      /\ \A t \in Sessions : \A i \in DOMAIN sess[t].snaps : sess[t].snaps[i].at \in 1..scored
      /\ scored \in Nat
    BY EntrySound DEF TypeInv, Ledgered, Fits
<1>5. \A i \in DOMAIN sess'[s].snaps :
        \/ i \in DOMAIN sess[s].snaps /\ sess'[s].snaps[i] = sess[s].snaps[i]
        \/ i = Len(sess[s].snaps) + 1 /\ sess'[s].snaps[i] = snap
    <2>1. sess[s].snaps \in Seq(Snapshots)
        BY EntrySound
    <2> QED  BY <1>3, <2>1
<1>6. \A i, j \in DOMAIN sess'[s].snaps : sess'[s].snaps[i].at = sess'[s].snaps[j].at => i = j
    <2>1. /\ \A i \in DOMAIN sess[s].snaps : sess[s].snaps[i].at # snap.at
          /\ \A i, j \in DOMAIN sess[s].snaps : sess[s].snaps[i].at = sess[s].snaps[j].at => i = j
        BY <1>2, <1>4 DEF Stamped
    <2> QED  BY <1>5, <2>1
<1>7. \A t \in Sessions : \A i \in DOMAIN sess'[t].snaps :
        \/ i \in DOMAIN sess[t].snaps /\ sess'[t].snaps[i].at = sess[t].snaps[i].at
        \/ t = s /\ sess'[t].snaps[i].at = scored + 1
    BY <1>2, <1>3, <1>5
<1>8. \A t \in Sessions : \A i \in DOMAIN sess'[t].snaps : \A j \in DOMAIN snapshots :
        sess'[t].snaps[i].at # snapshots[j].at
    BY <1>4, <1>7 DEF Stamped
<1>9. \A t, u \in Sessions : \A i \in DOMAIN sess'[t].snaps : \A j \in DOMAIN sess'[u].snaps :
        t # u => sess'[t].snaps[i].at # sess'[u].snaps[j].at
    BY <1>4, <1>7 DEF Stamped
<1>10. \A t \in Sessions : \A i, j \in DOMAIN sess'[t].snaps :
        sess'[t].snaps[i].at = sess'[t].snaps[j].at => i = j
    BY <1>3, <1>6 DEF Stamped
<1> QED  BY <1>2, <1>8, <1>9, <1>10 DEF Stamped

\* The ledger after a commit: what it held, and then what the session held.
LEMMA Published ==
    ASSUME TypeInv, NEW s \in Sessions, Publishes(s)
    PROVE  /\ Len(snapshots') = Len(snapshots) + Len(sess[s].snaps)
           /\ Len(snapshots) \in Nat
           /\ Len(sess[s].snaps) \in Nat \ {0}
           /\ DOMAIN snapshots = 1..Len(snapshots)
           /\ DOMAIN snapshots' = 1..Len(snapshots')
           /\ \A i \in DOMAIN snapshots : i \in DOMAIN snapshots' /\ snapshots'[i] = snapshots[i]
           /\ \A k \in DOMAIN sess[s].snaps :
                /\ Len(snapshots) + k \in DOMAIN snapshots'
                /\ snapshots'[Len(snapshots) + k] = sess[s].snaps[k]
           /\ \A i \in DOMAIN snapshots' :
                i \in DOMAIN snapshots
                \/ \E k \in DOMAIN sess[s].snaps : i = Len(snapshots) + k
<1>1. snapshots \in Seq(Snapshots) /\ sess[s].snaps \in Seq(Snapshots) /\ sess[s].snaps # <<>>
    BY EntrySound DEF TypeInv, Typed, Publishes
<1>2. snapshots' = snapshots \o sess[s].snaps
    BY DEF Publishes
<1>3. /\ Len(snapshots') = Len(snapshots) + Len(sess[s].snaps)
      /\ Len(snapshots) \in Nat
      /\ Len(sess[s].snaps) \in Nat \ {0}
      /\ DOMAIN snapshots = 1..Len(snapshots)
      /\ DOMAIN snapshots' = 1..Len(snapshots')
      /\ DOMAIN sess[s].snaps = 1..Len(sess[s].snaps)
    BY <1>1, <1>2
<1>4. \A i \in DOMAIN snapshots : i \in DOMAIN snapshots' /\ snapshots'[i] = snapshots[i]
    BY <1>1, <1>2
<1>5. \A k \in DOMAIN sess[s].snaps :
        /\ Len(snapshots) + k \in DOMAIN snapshots'
        /\ snapshots'[Len(snapshots) + k] = sess[s].snaps[k]
    <2>1. ASSUME NEW k \in DOMAIN sess[s].snaps
          PROVE  /\ Len(snapshots) + k \in 1..(Len(snapshots) + Len(sess[s].snaps))
                 /\ Len(snapshots) + k > Len(snapshots)
                 /\ (Len(snapshots) + k) - Len(snapshots) = k
        BY <1>3
    <2>2. \A i \in 1..(Len(snapshots) + Len(sess[s].snaps)) :
            i > Len(snapshots) => snapshots'[i] = sess[s].snaps[i - Len(snapshots)]
        BY <1>1, <1>2
    <2> QED  BY <1>3, <2>1, <2>2
<1>6. ASSUME NEW i \in DOMAIN snapshots', i \notin DOMAIN snapshots
      PROVE  \E k \in DOMAIN sess[s].snaps : i = Len(snapshots) + k
    <2>1. i - Len(snapshots) \in DOMAIN sess[s].snaps /\ i = Len(snapshots) + (i - Len(snapshots))
        BY <1>3, <1>6
    <2> QED  BY <2>1
<1> QED  BY <1>3, <1>4, <1>5, <1>6

LEMMA StampedPublishes ==
    ASSUME TypeInv, Stamped, NEW s \in Sessions, sess' = [sess EXCEPT ![s] = Idle], Publishes(s)
    PROVE  Stamped'
<1>1. sess'[s].snaps = <<>> /\ \A t \in Sessions \ {s} : sess'[t] = sess[t]
    <2>1. sess'[s] = Idle /\ \A t \in Sessions \ {s} : sess'[t] = sess[t]
        BY Others
    <2> QED  BY <2>1 DEF Idle
<1>2. \A i \in DOMAIN snapshots' :
        \/ i \in DOMAIN snapshots /\ snapshots'[i] = snapshots[i]
        \/ \E k \in DOMAIN sess[s].snaps : i = Len(snapshots) + k /\ snapshots'[i] = sess[s].snaps[k]
    BY Published
<1>3. \A i, j \in DOMAIN snapshots' : snapshots'[i].at = snapshots'[j].at => i = j
    BY <1>2 DEF Stamped
<1>4. \A t \in Sessions : \A i \in DOMAIN sess'[t].snaps :
        t # s /\ sess'[t].snaps = sess[t].snaps
    BY <1>1
<1>5. \A t \in Sessions : \A i \in DOMAIN sess'[t].snaps : \A j \in DOMAIN snapshots' :
        sess'[t].snaps[i].at # snapshots'[j].at
    BY <1>2, <1>4 DEF Stamped
<1>6. /\ \A t \in Sessions : \A i, j \in DOMAIN sess'[t].snaps :
            sess'[t].snaps[i].at = sess'[t].snaps[j].at => i = j
      /\ \A t, u \in Sessions : \A i \in DOMAIN sess'[t].snaps : \A j \in DOMAIN sess'[u].snaps :
            t # u => sess'[t].snaps[i].at # sess'[u].snaps[j].at
    BY <1>4 DEF Stamped
<1> QED  BY <1>3, <1>5, <1>6 DEF Stamped

LEMMA StampedStep == ASSUME TypeInv, Stamped, [Next]_vars PROVE Stamped'
<1>1. ASSUME NEW s \in Sessions, Reads(s) PROVE Stamped'
    <2>1. PICK e \in Session :
            sess' = [sess EXCEPT ![s] = e] /\ Sound(s, e) /\ (Loads(s, e) \/ Quiet(s, e))
        BY <1>1 DEF Reads
    <2>2. sess'[s] = e /\ \A t \in Sessions \ {s} : sess'[t] = sess[t]
        BY <2>1, Others
    <2>3. snapshots' = snapshots /\ e.snaps = sess[s].snaps
        BY <2>1 DEF Loads, Quiet, Still
    <2> QED  BY <2>2, <2>3, StampedLess
<1>2. ASSUME NEW s \in Sessions, Tells(s) PROVE Stamped'
    <2>1. PICK e \in Session, row \in Rows :
            sess' = [sess EXCEPT ![s] = e] /\ Sound(s, e) /\ Alerts(s, e, row)
        BY <1>2 DEF Tells
    <2>2. sess'[s] = e /\ \A t \in Sessions \ {s} : sess'[t] = sess[t]
        BY <2>1, Others
    <2>3. snapshots' = snapshots /\ e.snaps = sess[s].snaps
        BY <2>1 DEF Alerts, Still
    <2> QED  BY <2>2, <2>3, StampedLess
<1>3. ASSUME NEW s \in Sessions, RollBack(s) PROVE Stamped'
    <2>1. snapshots' = snapshots /\ sess' = [sess EXCEPT ![s] = Idle]
        BY <1>3 DEF RollBack
    <2>2. sess'[s].snaps = <<>> /\ \A t \in Sessions \ {s} : sess'[t] = sess[t]
        <3>1. sess'[s] = Idle /\ \A t \in Sessions \ {s} : sess'[t] = sess[t]
            BY <2>1, Others
        <3> QED  BY <3>1 DEF Idle
    <2> QED  BY <2>1, <2>2, StampedLess
<1>4. ASSUME NEW s \in Sessions, Corrects(s) PROVE Stamped'
    <2>1. PICK snap \in Snapshots :
            sess' = [sess EXCEPT ![s] = Idle] /\ Rewrites(s, snap) /\ facts' \in Facts
        BY <1>4 DEF Corrects
    <2>2. sess'[s].snaps = <<>> /\ \A t \in Sessions \ {s} : sess'[t] = sess[t]
        <3>1. sess'[s] = Idle /\ \A t \in Sessions \ {s} : sess'[t] = sess[t]
            BY <2>1, Others
        <3> QED  BY <3>1 DEF Idle
    <2>3. DOMAIN snapshots' = DOMAIN snapshots /\ \A i \in DOMAIN snapshots : snapshots'[i].at = snapshots[i].at
        BY <2>1, Corrected
    <2> QED  BY <2>2, <2>3, StampedLess
<1>5. ASSUME DayPasses \/ UNCHANGED vars PROVE Stamped'
    <2>1. snapshots' = snapshots /\ sess' = sess
        BY <1>5 DEF DayPasses, vars
    <2> QED  BY <2>1, StampedLess
<1> QED  BY <1>1, <1>2, <1>3, <1>4, <1>5, StepShape, StampedScores, StampedPublishes

\* As many snapshots are committed as rescores were stamped, at most.
LEMMA LedgerLength == ASSUME TypeInv, Stamped PROVE Len(snapshots) <= scored
<1> DEFINE At == [i \in 1..Len(snapshots) |-> snapshots[i].at]
<1>1. Len(snapshots) \in Nat /\ scored \in Nat /\ DOMAIN snapshots = 1..Len(snapshots)
    BY DEF TypeInv, Typed
<1>2. At \in [1..Len(snapshots) -> 1..scored]
    BY <1>1 DEF TypeInv, Ledgered
<1>3. At \in Injection(1..Len(snapshots), 1..scored)
    BY <1>1, <1>2 DEF Stamped, Injection, IsInjective
<1>4. /\ IsFiniteSet(1..scored)
      /\ Cardinality(1..scored) = scored
      /\ Cardinality(1..Len(snapshots)) = Len(snapshots)
    <2>1. ASSUME NEW n \in Nat PROVE IsFiniteSet(1..n) /\ Cardinality(1..n) = n
        BY FS_Interval
    <2> QED  BY <1>1, <2>1
<1> QED  BY <1>3, <1>4, FS_Injection

LedgerInv == TypeInv /\ Stamped

\* The inductive invariant under the theorems below: what a session has in hand
\* is of its own making, and every rescore has a calculated_at of its own.
THEOREM LedgerSound == Spec => []LedgerInv
<1>1. Init => LedgerInv
    <2>1. Init => Stamped
        BY DEF Init, Stamped, Idle
    <2> QED  BY <2>1, TypeInit DEF LedgerInv
<1>2. LedgerInv /\ [Next]_vars => LedgerInv'
    BY TypeStep, StampedStep DEF LedgerInv
<1> QED  BY <1>1, <1>2, PTL DEF Spec

LEMMA TypeOKHolds == ASSUME LedgerInv PROVE TypeOK
<1>1. Typed /\ Ledgered /\ Bounded /\ Len(snapshots) <= scored
    BY LedgerLength DEF LedgerInv, TypeInv
<1>2. Len(snapshots) \in Nat /\ scored \in Nat /\ day \in Nat
    BY <1>1 DEF Typed
<1>3. scored <= MaxScores
    <2>1. IsFiniteSet(Pending)
        <3>1. Pending \subseteq Sessions
            BY DEF Pending, Busy
        <3> QED  BY <3>1, KindAssumption, FS_Subset
    <2>2. Cardinality(Pending) \in Nat
        BY <2>1, FS_CardinalityType
    <2> QED  BY <1>1, <1>2, <2>2, LedgerAssumption DEF Bounded
<1>4. \A i \in DOMAIN snapshots :
        /\ {snapshots[i].state, snapshots[i].first} \subseteq States
        /\ snapshots[i].workflow \in {"NEW"} \cup Decisions
        /\ snapshots[i].at \in 1..scored
    BY <1>1, EntryTyped DEF Snapshots, Workflows, Ledgered
<1>5. \A row \in dispatches : row.day \in 0..day /\ row.delivered \in BOOLEAN
    BY <1>1, <1>2 DEF Typed, Ledgered, Rows
<1>6. ASSUME NEW s \in Sessions
      PROVE  /\ sess[s].pc \in {"idle", "probed", "loaded", "ready", "scored", "pointed", "done"}
             /\ sess[s].seen \in 0..Len(snapshots)
             /\ s \notin plan.sessions => sess[s] = Idle
    <2>1. sess[s] \in Session /\ Sound(s, sess[s]) /\ Fits(s, sess[s])
        BY EntrySound DEF LedgerInv
    <2> QED  BY <1>2, <2>1 DEF Session, PCs, Sound, Fits
<1>7. current \in 0..Len(snapshots)
    BY <1>1, <1>2 DEF Typed
<1> QED  BY <1>1, <1>2, <1>3, <1>4, <1>5, <1>6, <1>7, LedgerAssumption DEF TypeOK, Typed, Workflows

\* Whatever sessions there are and however they overlap, the ledger keeps its
\* types: no more snapshots than rescores, each one stamped within the count,
\* and no session beyond the ledger it loaded.
THEOREM TypeCorrect == Spec => []TypeOK
<1>1. LedgerInv => TypeOK
    BY TypeOKHolds
<1> QED  BY <1>1, LedgerSound, PTL

-----------------------------------------------------------------------------
(* Alerts and the snapshots that caused them *)

\* A step that leaves the ledger's causes, and adds no alert, backs what it did.
LEMMA BackedStill ==
    ASSUME AlertBacked, dispatches' = dispatches, DOMAIN snapshots' = DOMAIN snapshots,
           \A i \in DOMAIN snapshots :
                /\ snapshots'[i].at = snapshots[i].at
                /\ snapshots'[i].first = snapshots[i].first
                /\ snapshots'[i].basis = snapshots[i].basis
    PROVE  AlertBacked'
<1> SUFFICES ASSUME NEW row \in dispatches
             PROVE  \E i \in DOMAIN snapshots' :
                        /\ snapshots'[i].at = row.at
                        /\ snapshots'[i].first = "HOT"
                        /\ Key(snapshots'[i].basis) = row.key
    BY Zenon DEF AlertBacked, Key
<1>1. PICK i \in DOMAIN snapshots :
            /\ snapshots[i].at = row.at
            /\ snapshots[i].first = "HOT"
            /\ Key(snapshots[i].basis) = row.key
    BY Zenon DEF AlertBacked
<1>2. snapshots'[i].basis = snapshots[i].basis
    BY <1>1
<1>3. Key(snapshots'[i].basis) = Key(snapshots[i].basis)
    BY <1>2, Zenon
<1>4. i \in DOMAIN snapshots'
    BY <1>1
<1>5. snapshots'[i].at = row.at /\ snapshots'[i].first = "HOT"
    BY <1>1
<1>6. Key(snapshots'[i].basis) = row.key
    BY <1>1, <1>3, Zenon
<1> QED  BY <1>4, <1>5, <1>6, Zenon

Held(s, e) ==
    \A row \in e.rows :
        /\ e.from # "HOT"
        /\ \E i \in DOMAIN e.snaps : Causes(e.snaps[i], row)

LEMMA CausedStep ==
    ASSUME TypeInv, RowsCaused, NEW s \in Sessions, NEW e, sess' = [sess EXCEPT ![s] = e],
           e.rows = {} \/ Held(s, e)
    PROVE  RowsCaused'
<1>1. sess'[s] = e /\ \A t \in Sessions \ {s} : sess'[t] = sess[t]
    BY Others
<1>2. \A row \in e.rows :
        /\ e.from # "HOT"
        /\ \E i \in DOMAIN e.snaps : Causes(e.snaps[i], row)
    BY Zenon DEF Held
<1>3. ASSUME NEW t \in Sessions, NEW row \in sess'[t].rows
      PROVE  /\ sess'[t].from # "HOT"
             /\ \E i \in DOMAIN sess'[t].snaps : Causes(sess'[t].snaps[i], row)
    <2>1. CASE t = s
        BY <1>1, <1>2, <1>3, <2>1
    <2>2. CASE t # s
        <3>1. sess'[t] = sess[t] /\ row \in sess[t].rows
            BY <1>1, <1>3, <2>2
        <3> QED  BY <3>1 DEF RowsCaused
    <2> QED  BY <2>1, <2>2
<1> QED  BY <1>3, Zenon DEF RowsCaused, Causes, Key

\* A webhook that is on record stays on record while no row is dropped.
LEMMA RecordStill ==
    ASSUME PostsOnRecord, dispatches \subseteq dispatches',
           undone \subseteq undone', posts' \subseteq posts,
           \A t \in Sessions : \A row \in sess[t].rows :
                row \in sess'[t].rows \/ row \in dispatches' \/ row.at \in undone'
    PROVE  PostsOnRecord'
<1>1. ASSUME NEW p \in posts,
             NEW row \in dispatches \cup UNION {sess[t].rows : t \in Sessions}, row.at = p.at
      PROVE  \/ \E r \in dispatches' \cup UNION {sess'[t].rows : t \in Sessions} : r.at = p.at
             \/ p.at \in undone'
    <2>1. CASE row \in dispatches
        BY <1>1, <2>1
    <2>2. CASE row \in UNION {sess[t].rows : t \in Sessions}
        <3>1. PICK t \in Sessions : row \in sess[t].rows
            BY <2>2
        <3>2. row \in sess'[t].rows => row \in UNION {sess'[u].rows : u \in Sessions}
            OBVIOUS
        <3> QED  BY <1>1, <3>1, <3>2
    <2> QED  BY <2>1, <2>2
<1> QED  BY <1>1 DEF PostsOnRecord

LEMMA AlertReads ==
    ASSUME TypeInv, AlertInv, NEW s \in Sessions, Reads(s)
    PROVE  AlertInv'
<1>1. PICK e \in Session :
        sess' = [sess EXCEPT ![s] = e] /\ Sound(s, e) /\ (Loads(s, e) \/ Quiet(s, e))
    BY DEF Reads
<1>2. sess'[s] = e /\ \A t \in Sessions \ {s} : sess'[t] = sess[t]
    BY <1>1, Others
<1>3. /\ snapshots' = snapshots /\ dispatches' = dispatches /\ undone' = undone /\ posts' = posts
      /\ e.rows = sess[s].rows
    BY <1>1 DEF Loads, Quiet, Still
<1>4. e.rows = {} \/ Held(s, e)
    <2>1. CASE Loads(s, e)
        BY <2>1 DEF Loads
    <2>2. CASE Quiet(s, e)
        BY <2>2 DEF Quiet, Keeps, AlertInv, RowsCaused, Held
    <2> QED  BY <1>1, <2>1, <2>2
<1>5. RowsCaused'
    BY <1>1, <1>4, CausedStep DEF AlertInv
<1>6. AlertBacked'
    BY <1>3, BackedStill DEF AlertInv
<1>7. PostsOnRecord'
    BY <1>2, <1>3, RecordStill DEF AlertInv
<1> QED  BY <1>5, <1>6, <1>7 DEF AlertInv

LEMMA AlertScores ==
    ASSUME TypeInv, AlertInv, NEW s \in Sessions, Scores(s)
    PROVE  AlertInv'
<1>1. PICK e \in Session, snap \in Snapshots :
        sess' = [sess EXCEPT ![s] = e] /\ Sound(s, e) /\ Appends(s, e, snap)
    BY DEF Scores
<1>2. sess'[s] = e /\ \A t \in Sessions \ {s} : sess'[t] = sess[t]
    BY <1>1, Others
<1>3. /\ snapshots' = snapshots /\ dispatches' = dispatches /\ undone' = undone /\ posts' = posts
      /\ e.rows = sess[s].rows /\ e.from = sess[s].from
      /\ e.snaps = Append(sess[s].snaps, snap)
    BY <1>1 DEF Appends, Keeps
<1>4. Held(s, e)
    <2>1. \A i \in DOMAIN sess[s].snaps : i \in DOMAIN e.snaps /\ e.snaps[i] = sess[s].snaps[i]
        BY <1>3, EntrySound
    <2>2. \A row \in sess[s].rows :
            /\ sess[s].from # "HOT"
            /\ \E i \in DOMAIN sess[s].snaps : Causes(sess[s].snaps[i], row)
        BY DEF AlertInv, RowsCaused
    <2> QED  BY <1>3, <2>1, <2>2 DEF Held
<1>5. RowsCaused'
    BY <1>1, <1>4, CausedStep DEF AlertInv
<1>6. AlertBacked'
    BY <1>3, BackedStill DEF AlertInv
<1>7. PostsOnRecord'
    BY <1>2, <1>3, RecordStill DEF AlertInv
<1> QED  BY <1>5, <1>6, <1>7 DEF AlertInv

LEMMA AlertTells ==
    ASSUME TypeInv, AlertInv, NEW s \in Sessions, Tells(s)
    PROVE  AlertInv'
<1>1. PICK e \in Session, row \in Rows :
        sess' = [sess EXCEPT ![s] = e] /\ Sound(s, e) /\ Alerts(s, e, row)
    BY DEF Tells
<1>2. sess'[s] = e /\ \A t \in Sessions \ {s} : sess'[t] = sess[t]
    BY <1>1, Others
<1>3. /\ snapshots' = snapshots /\ dispatches' = dispatches /\ undone' = undone
      /\ e.rows = sess[s].rows \cup {row} /\ e.from = sess[s].from /\ e.snaps = sess[s].snaps
      /\ e.from # "HOT"
    BY <1>1 DEF Alerts, Still, Keeps
<1>4. Held(s, e)
    <2>1. Len(e.snaps) \in DOMAIN e.snaps /\ Causes(e.snaps[Len(e.snaps)], row)
        <3>1. e.snaps \in Seq(Snapshots) /\ e.snaps # <<>>
            BY <1>1, <1>3, EntrySound DEF Alerts
        <3>2. Causes(Snap(s), row)
            BY <1>1 DEF Alerts
        <3> QED  BY <1>3, <3>1, <3>2 DEF Snap
    <2> QED  BY <1>3, <2>1 DEF Held, AlertInv, RowsCaused
<1>5. RowsCaused'
    BY <1>1, <1>4, CausedStep DEF AlertInv
<1>6. AlertBacked'
    BY <1>3, BackedStill DEF AlertInv
<1>7. PostsOnRecord'
    <2>1. ASSUME NEW p \in posts' PROVE p \in posts \/ p.at = row.at
        BY <1>1 DEF Alerts
    <2>2. row \in UNION {sess'[t].rows : t \in Sessions}
        BY <1>2, <1>3
    <2>3. \A t \in Sessions : \A r \in sess[t].rows : r \in UNION {sess'[u].rows : u \in Sessions}
        BY <1>2, <1>3
    <2>4. ASSUME NEW p \in posts
          PROVE  \/ \E r \in dispatches \cup UNION {sess'[t].rows : t \in Sessions} : r.at = p.at
                 \/ p.at \in undone
        BY <2>3 DEF AlertInv, PostsOnRecord
    <2> QED  BY <1>3, <2>1, <2>2, <2>4 DEF PostsOnRecord
<1> QED  BY <1>5, <1>6, <1>7 DEF AlertInv

LEMMA AlertPublishes ==
    ASSUME TypeInv, AlertInv, NEW s \in Sessions, sess' = [sess EXCEPT ![s] = Idle], Publishes(s)
    PROVE  AlertInv'
<1>1. sess'[s] = Idle /\ \A t \in Sessions \ {s} : sess'[t] = sess[t]
    BY Others
<1>2. dispatches' = dispatches \cup sess[s].rows /\ undone' = undone /\ posts' = posts
    BY DEF Publishes
<1>3. RowsCaused'
    <2>1. Idle.rows = {}
        BY DEF Idle
    <2> QED  BY <2>1, CausedStep DEF AlertInv
<1>4. AlertBacked'
    <2>1. ASSUME NEW row \in dispatches PROVE \E i \in DOMAIN snapshots' : Causes(snapshots'[i], row)
        <3>1. PICK i \in DOMAIN snapshots : Causes(snapshots[i], row)
            BY DEF AlertInv, AlertBacked, Causes
        <3> QED  BY <3>1, Published
    <2>2. ASSUME NEW row \in sess[s].rows PROVE \E i \in DOMAIN snapshots' : Causes(snapshots'[i], row)
        <3>1. PICK k \in DOMAIN sess[s].snaps : Causes(sess[s].snaps[k], row)
            BY DEF AlertInv, RowsCaused
        <3>2. Len(snapshots) + k \in DOMAIN snapshots' /\ snapshots'[Len(snapshots) + k] = sess[s].snaps[k]
            BY Published
        <3> QED  BY <3>1, <3>2
    <2> QED  BY <1>2, <2>1, <2>2 DEF AlertBacked, Causes, Key
<1>5. PostsOnRecord'
    BY <1>1, <1>2, RecordStill DEF AlertInv
<1> QED  BY <1>3, <1>4, <1>5 DEF AlertInv

LEMMA AlertRollBack ==
    ASSUME TypeInv, AlertInv, NEW s \in Sessions, RollBack(s)
    PROVE  AlertInv'
<1>1. /\ sess' = [sess EXCEPT ![s] = Idle]
      /\ snapshots' = snapshots /\ dispatches' = dispatches /\ posts' = posts
      /\ undone' = undone \cup {snap.at : snap \in Range(sess[s].snaps)}
    BY DEF RollBack
<1>2. sess'[s] = Idle /\ \A t \in Sessions \ {s} : sess'[t] = sess[t]
    BY <1>1, Others
<1>3. RowsCaused'
    <2>1. Idle.rows = {}
        BY DEF Idle
    <2> QED  BY <1>1, <2>1, CausedStep DEF AlertInv
<1>4. AlertBacked'
    BY <1>1, BackedStill DEF AlertInv
<1>5. PostsOnRecord'
    <2>1. ASSUME NEW row \in sess[s].rows PROVE row.at \in undone'
        <3>1. PICK i \in DOMAIN sess[s].snaps : sess[s].snaps[i].at = row.at
            BY DEF AlertInv, RowsCaused, Causes
        <3>2. sess[s].snaps[i] \in Range(sess[s].snaps)
            BY DEF Range
        <3> QED  BY <1>1, <3>1, <3>2
    <2> QED  BY <1>1, <1>2, <2>1, RecordStill DEF AlertInv
<1> QED  BY <1>3, <1>4, <1>5 DEF AlertInv

LEMMA AlertCorrects ==
    ASSUME TypeInv, AlertInv, NEW s \in Sessions, Corrects(s)
    PROVE  AlertInv'
<1>1. PICK snap \in Snapshots :
        sess' = [sess EXCEPT ![s] = Idle] /\ Rewrites(s, snap) /\ facts' \in Facts
    BY DEF Corrects
<1>2. sess'[s] = Idle /\ \A t \in Sessions \ {s} : sess'[t] = sess[t]
    BY <1>1, Others
<1>3. dispatches' = dispatches /\ posts' = posts /\ undone' = undone /\ sess[s].rows = {}
    BY <1>1 DEF Rewrites
<1>4. RowsCaused'
    <2>1. Idle.rows = {}
        BY DEF Idle
    <2> QED  BY <1>1, <2>1, CausedStep DEF AlertInv
<1>5. AlertBacked'
    BY <1>1, <1>3, Corrected, BackedStill DEF AlertInv
<1>6. PostsOnRecord'
    BY <1>2, <1>3, RecordStill DEF AlertInv
<1> QED  BY <1>4, <1>5, <1>6 DEF AlertInv

LEMMA AlertStep == ASSUME TypeInv, AlertInv, [Next]_vars PROVE AlertInv'
<1>1. ASSUME DayPasses \/ UNCHANGED vars PROVE AlertInv'
    <2>1. /\ snapshots' = snapshots /\ dispatches' = dispatches /\ posts' = posts
          /\ undone' = undone /\ sess' = sess
        BY <1>1 DEF DayPasses, vars
    <2>2. RowsCaused'
        BY <2>1, Zenon DEF AlertInv, RowsCaused, Causes, Key
    <2>3. AlertBacked'
        BY <2>1, Zenon DEF AlertInv, AlertBacked, Key
    <2>4. PostsOnRecord'
        BY <2>1, Zenon DEF AlertInv, PostsOnRecord
    <2> QED  BY <2>2, <2>3, <2>4 DEF AlertInv
<1> QED  BY <1>1, StepShape, AlertReads, AlertScores, AlertTells, AlertPublishes, AlertRollBack, AlertCorrects

LEMMA AlertInit == Init => AlertInv
BY DEF Init, AlertInv, RowsCaused, AlertBacked, PostsOnRecord, Idle

\* The inductive form of the two theorems that follow: a row in hand comes with
\* the snapshot in hand that caused it, and its session loaded no HOT score.
THEOREM AlertsSound == Spec => [](LedgerInv /\ AlertInv)
<1>1. LedgerInv /\ AlertInv /\ [Next]_vars => AlertInv'
    BY AlertStep DEF LedgerInv
<1> QED  BY <1>1, AlertInit, LedgerSound, PTL DEF Spec

\* An alert that is on record is backed by a snapshot on record that was HOT
\* when it was taken: row and snapshot commit together, and neither the
\* analyst's corrections nor later rescores remove the cause.
THEOREM AlertsBacked == Spec => []AlertBacked
<1>1. AlertInv => AlertBacked
    BY DEF AlertInv
<1> QED  BY <1>1, AlertsSound, PTL

\* A webhook that got through leaves a trace whatever becomes of the session
\* that sent it: a row, in hand or committed, or a rescore that was rolled back.
THEOREM PostsAccounted == Spec => []PostsOnRecord
<1>1. AlertInv => PostsOnRecord
    BY DEF AlertInv
<1> QED  BY <1>1, AlertsSound, PTL

-----------------------------------------------------------------------------
(* The analyst's decisions *)

LEMMA DecisionStep == ASSUME TypeInv, DecisionOnRecord, [Next]_vars PROVE DecisionOnRecord'
<1>1. ASSUME snapshots' = snapshots, decided' = decided PROVE DecisionOnRecord'
    BY <1>1 DEF DecisionOnRecord
<1>2. ASSUME NEW s \in Sessions, Publishes(s) PROVE DecisionOnRecord'
    <2>1. \A i \in DOMAIN snapshots : i \in DOMAIN snapshots' /\ snapshots'[i] = snapshots[i]
        BY <1>2, Published
    <2>2. decided' = decided
        BY <1>2 DEF Publishes
    <2> QED  BY <2>1, <2>2 DEF DecisionOnRecord
<1>3. ASSUME NEW s \in Sessions, Corrects(s) PROVE DecisionOnRecord'
    <2>1. PICK snap \in Snapshots : Rewrites(s, snap)
        BY <1>3 DEF Corrects
    <2>2. /\ DOMAIN snapshots' = DOMAIN snapshots
          /\ snapshots'[sess[s].seen] = snap
          /\ \A i \in DOMAIN snapshots : i # sess[s].seen => snapshots'[i] = snapshots[i]
        BY <2>1, Corrected
    <2>3. CASE decided' = snap.workflow
        BY <2>1, <2>2, <2>3 DEF Rewrites, DecisionOnRecord
    <2>4. CASE decided' = decided /\ snap.workflow = snapshots[sess[s].seen].workflow
        BY <2>2, <2>4 DEF DecisionOnRecord
    <2> QED  BY <2>1, <2>3, <2>4 DEF Rewrites
<1>4. ASSUME NEW s \in Sessions, Reads(s) PROVE DecisionOnRecord'
    BY <1>1, <1>4 DEF Reads, Loads, Quiet, Still
<1>5. ASSUME NEW s \in Sessions, Scores(s) PROVE DecisionOnRecord'
    BY <1>1, <1>5 DEF Scores, Appends
<1>6. ASSUME NEW s \in Sessions, Tells(s) PROVE DecisionOnRecord'
    BY <1>1, <1>6 DEF Tells, Alerts, Still
<1>7. ASSUME NEW s \in Sessions, RollBack(s) PROVE DecisionOnRecord'
    BY <1>1, <1>7 DEF RollBack
<1>8. ASSUME DayPasses \/ UNCHANGED vars PROVE DecisionOnRecord'
    BY <1>1, <1>8 DEF DayPasses, vars
<1> QED  BY <1>2, <1>3, <1>4, <1>5, <1>6, <1>7, <1>8, StepShape

\* Overlap may hide what the analyst decided last, but never erases it: some
\* snapshot of the ledger carries it, however sessions interleave and roll back.
THEOREM DecisionStays == Spec => []DecisionOnRecord
<1>1. Init => DecisionOnRecord
    BY DEF Init, DecisionOnRecord
<1>2. LedgerInv /\ DecisionOnRecord /\ [Next]_vars => DecisionOnRecord'
    BY DecisionStep DEF LedgerInv
<1> QED  BY <1>1, <1>2, LedgerSound, PTL DEF Spec

-----------------------------------------------------------------------------
(* Sessions that never overlap *)

LEMMA Acting ==
    ASSUME TypeInv, Alone, plan.serial, NEW s \in Sessions, NEW e, sess' = [sess EXCEPT ![s] = e],
           MayStart(s) \/ sess[s].pc # "idle"
    PROVE  /\ sess'[s] = e
           /\ \A t \in Sessions \ {s} : sess[t] = Idle /\ sess'[t] = Idle
           /\ Alone'
<1>1. sess'[s] = e /\ \A t \in Sessions \ {s} : sess'[t] = sess[t]
    BY Others
<1>2. ASSUME NEW t \in Sessions \ {s} PROVE sess[t] = Idle
    <2>1. sess[t].pc = "idle"
        BY DEF MayStart, Busy, Alone
    <2> QED  BY <2>1, EntrySound DEF Sound
<1>3. \A t \in Sessions \ {s} : sess'[t].pc = "idle"
    BY <1>1, <1>2 DEF Idle
<1>4. Alone'
    BY <1>3 DEF Alone, Busy
<1> QED  BY <1>1, <1>2, <1>4

\* What the session at work has loaded, by name.
Abreast(e) ==
    /\ e.seen = Len(snapshots)
    /\ e.workflow = decided
    /\ e.from = IF e.seen = 0 THEN "none" ELSE snapshots[e.seen].state

\* A step of the session at work that publishes nothing.
LEMMA SerialStill ==
    ASSUME TypeInv, SerialInv, plan.serial, NEW s \in Sessions, NEW e, sess' = [sess EXCEPT ![s] = e],
           MayStart(s) \/ sess[s].pc # "idle",
           snapshots' = snapshots, current' = current, dispatches' = dispatches, decided' = decided,
           e.pc \notin {"idle", "probed"} => Abreast(e),
           Told(dispatches \cup e.rows)
    PROVE  SerialInv'
<1>1. /\ sess'[s] = e
      /\ \A t \in Sessions \ {s} : sess[t] = Idle /\ sess'[t] = Idle
      /\ Alone'
    BY Acting DEF SerialInv
<1>2. UpToDate'
    <2>1. \A t \in Busy' : t = s
        BY <1>1 DEF Busy, Idle
    <2>2. s \in Busy' => e.pc # "idle"
        BY <1>1 DEF Busy
    <2> QED  BY <1>1, <2>1, <2>2 DEF UpToDate, Abreast
<1>3. ToldOnce'
    <2>1. Told(dispatches') /\ Told(dispatches' \cup {})
        BY DEF SerialInv, ToldOnce
    <2>2. ASSUME NEW t \in Sessions PROVE Told(dispatches' \cup sess'[t].rows)
        <3>1. CASE t = s
            BY <1>1, <3>1
        <3>2. CASE t # s
            <4>1. sess'[t].rows = {}
                BY <1>1, <3>2 DEF Idle
            <4> QED  BY <2>1, <4>1
        <3> QED  BY <3>1, <3>2
    <2> QED  BY <2>1, <2>2 DEF ToldOnce, Told
<1>4. Grouped' /\ Announced' /\ WorkflowYours'
    BY DEF SerialInv, Grouped, Announced, WorkflowYours
<1> QED  BY <1>1, <1>2, <1>3, <1>4 DEF SerialInv

LEMMA SerialReads ==
    ASSUME TypeInv, Undecided, SerialInv, plan.serial, NEW s \in Sessions, Reads(s)
    PROVE  SerialInv'
<1>1. PICK e \in Session :
        sess' = [sess EXCEPT ![s] = e] /\ Sound(s, e) /\ (Loads(s, e) \/ Quiet(s, e))
    BY DEF Reads
<1>2. /\ snapshots' = snapshots /\ current' = current /\ dispatches' = dispatches
      /\ decided' = decided /\ e.rows = sess[s].rows
      /\ MayStart(s) \/ sess[s].pc # "idle"
    BY <1>1 DEF Loads, Quiet, Still
<1>3. e.pc \notin {"idle", "probed"} => Abreast(e)
    <2>1. CASE Loads(s, e)
        <3>1. current = Len(snapshots) /\ snapshots \in Seq(Snapshots)
            BY DEF TypeInv, Typed
        <3>2. current = 0 => decided = "NEW"
            <4>1. Len(snapshots) = 0 => snapshots = <<>>
                BY <3>1
            <4> QED  BY <3>1, <4>1 DEF Undecided
        <3>3. current # 0 => snapshots[current].workflow = decided
            BY DEF SerialInv, WorkflowYours
        <3> QED  BY <2>1, <3>1, <3>2, <3>3 DEF Loads, Abreast
    <2>2. CASE Quiet(s, e) /\ e.pc \notin {"idle", "probed"}
        <3>1. sess[s].pc \notin {"idle", "probed"}
            BY <2>2 DEF Quiet
        <3>2. Abreast(sess[s])
            BY <3>1 DEF SerialInv, UpToDate, Busy, Abreast
        <3> QED  BY <2>2, <3>2 DEF Quiet, Keeps, Abreast
    <2> QED  BY <1>1, <2>1, <2>2
<1>4. Told(dispatches \cup e.rows)
    BY <1>2 DEF SerialInv, ToldOnce
<1> QED  BY <1>1, <1>2, <1>3, <1>4, SerialStill

LEMMA SerialScores ==
    ASSUME TypeInv, SerialInv, plan.serial, NEW s \in Sessions, Scores(s)
    PROVE  SerialInv'
<1>1. PICK e \in Session, snap \in Snapshots :
        sess' = [sess EXCEPT ![s] = e] /\ Sound(s, e) /\ Appends(s, e, snap)
    BY DEF Scores
<1>2. /\ snapshots' = snapshots /\ current' = current /\ dispatches' = dispatches
      /\ decided' = decided /\ e.rows = sess[s].rows
      /\ sess[s].pc \in {"loaded", "ready"}
    BY <1>1 DEF Appends
<1>3. Abreast(e)
    <2>1. Abreast(sess[s])
        BY <1>2 DEF SerialInv, UpToDate, Busy, Abreast
    <2> QED  BY <1>1, <2>1 DEF Appends, Keeps, Abreast
<1>4. Told(dispatches \cup e.rows)
    BY <1>2 DEF SerialInv, ToldOnce
<1> QED  BY <1>1, <1>2, <1>3, <1>4, SerialStill

LEMMA SerialTells ==
    ASSUME TypeInv, SerialInv, plan.serial, NEW s \in Sessions, Tells(s)
    PROVE  SerialInv'
<1>1. PICK e \in Session, row \in Rows :
        sess' = [sess EXCEPT ![s] = e] /\ Sound(s, e) /\ Alerts(s, e, row)
    BY DEF Tells
<1>2. /\ snapshots' = snapshots /\ current' = current /\ dispatches' = dispatches
      /\ decided' = decided /\ e.rows = sess[s].rows \cup {row}
      /\ sess[s].pc = "pointed"
    BY <1>1 DEF Alerts, Still
<1>3. Abreast(e)
    <2>1. Abreast(sess[s])
        BY <1>2 DEF SerialInv, UpToDate, Busy, Abreast
    <2> QED  BY <1>1, <2>1 DEF Alerts, Keeps, Abreast
<1>4. Told(dispatches \cup e.rows)
    <2>1. Told(dispatches \cup sess[s].rows)
        BY DEF SerialInv, ToldOnce
    <2>2. \A r \in dispatches \cup sess[s].rows : ~ (r.key = row.key /\ r.day = row.day)
        BY <1>1 DEF Alerts
    <2> QED  BY <1>2, <2>1, <2>2 DEF Told
<1> QED  BY <1>1, <1>2, <1>3, <1>4, SerialStill

\* A session that ends leaves nobody at work.
LEMMA SerialEnd ==
    ASSUME TypeInv, SerialInv, plan.serial, NEW s \in Sessions, sess' = [sess EXCEPT ![s] = Idle],
           sess[s].pc # "idle"
    PROVE  Busy' = {} /\ \A t \in Sessions : sess'[t].rows = {}
<1>1. /\ sess'[s] = Idle
      /\ \A t \in Sessions \ {s} : sess'[t] = Idle
    BY Acting DEF SerialInv
<1> QED  BY <1>1 DEF Busy, Idle

LEMMA SerialRollBack ==
    ASSUME TypeInv, SerialInv, plan.serial, NEW s \in Sessions, RollBack(s)
    PROVE  SerialInv'
<1>1. /\ sess' = [sess EXCEPT ![s] = Idle]
      /\ snapshots' = snapshots /\ current' = current /\ dispatches' = dispatches
      /\ decided' = decided /\ sess[s].pc # "idle"
    BY DEF RollBack
<1>2. Told(dispatches \cup Idle.rows)
    BY DEF SerialInv, ToldOnce, Told, Idle
<1>3. Idle.pc = "idle"
    BY DEF Idle
<1> QED  BY <1>1, <1>2, <1>3, SerialStill

LEMMA SerialCorrects ==
    ASSUME TypeInv, SerialInv, plan.serial, NEW s \in Sessions, Corrects(s)
    PROVE  SerialInv'
<1>1. PICK snap \in Snapshots :
        sess' = [sess EXCEPT ![s] = Idle] /\ Rewrites(s, snap) /\ facts' \in Facts
    BY DEF Corrects
<1>2. sess[s].pc = "loaded" /\ current' = current /\ dispatches' = dispatches
    BY <1>1 DEF Rewrites
<1>3. /\ Busy' = {}
      /\ \A t \in Sessions : sess'[t].rows = {}
    BY <1>1, <1>2, SerialEnd
<1>4. /\ Len(snapshots') = Len(snapshots)
      /\ DOMAIN snapshots' = DOMAIN snapshots
      /\ snapshots'[sess[s].seen] = snap
      /\ \A i \in DOMAIN snapshots :
            /\ snapshots'[i].at = snapshots[i].at
            /\ snapshots'[i].seen = snapshots[i].seen
            /\ i # sess[s].seen => snapshots'[i] = snapshots[i]
    BY <1>1, Corrected
<1>5. sess[s].seen = Len(snapshots) /\ current = Len(snapshots)
    BY <1>2 DEF SerialInv, UpToDate, Busy, TypeInv, Typed
<1>6. Alone' /\ UpToDate'
    BY <1>3 DEF Alone, UpToDate
<1>7. Grouped'
    BY <1>4 DEF SerialInv, Grouped
<1>8. Announced'
    <2>1. ASSUME NEW row \in dispatches, NEW i \in DOMAIN snapshots,
                 snapshots'[i].at = row.at, snapshots'[i].seen # 0
          PROVE  snapshots'[snapshots'[i].seen].state # "HOT"
        <3>1. snapshots[i].at = row.at /\ snapshots[i].seen # 0 /\ snapshots'[i].seen = snapshots[i].seen
            BY <1>4, <2>1
        <3>2. snapshots[snapshots[i].seen].state # "HOT"
            BY <3>1 DEF SerialInv, Announced
        <3>3. snapshots[i].seen < i
            BY <2>1 DEF SerialInv, Grouped
        <3>4. snapshots[i].seen \in Nat /\ i \in 1..Len(snapshots)
            <4>1. Typed
                BY DEF TypeInv
            <4>2. snapshots[i] \in Snapshots /\ i \in 1..Len(snapshots)
                BY <2>1, <4>1, EntryTyped
            <4> QED  BY <4>2 DEF Snapshots
        <3>5. Len(snapshots) \in Nat /\ DOMAIN snapshots = 1..Len(snapshots)
            BY DEF TypeInv, Typed
        <3>6. snapshots[i].seen \in DOMAIN snapshots /\ snapshots[i].seen # sess[s].seen
            BY <1>5, <3>1, <3>3, <3>4, <3>5
        <3>7. snapshots'[snapshots[i].seen] = snapshots[snapshots[i].seen]
            BY <1>4, <3>6
        <3> QED  BY <3>1, <3>2, <3>7
    <2> QED  BY <1>2, <1>4, <2>1 DEF Announced
<1>9. WorkflowYours'
    <2>1. snap.workflow = decided'
        <3>1. CASE decided' = decided /\ snap.workflow = snapshots[sess[s].seen].workflow
            <4>1. current # 0
                BY <1>1, <1>5 DEF Rewrites, TypeInv, Typed
            <4> QED  BY <1>5, <3>1, <4>1 DEF SerialInv, WorkflowYours
        <3> QED  BY <1>1, <3>1 DEF Rewrites
    <2> QED  BY <1>2, <1>4, <1>5, <2>1 DEF WorkflowYours
<1>10. ToldOnce'
    BY <1>2, <1>3 DEF SerialInv, ToldOnce, Told
<1> QED  BY <1>6, <1>7, <1>8, <1>9, <1>10 DEF SerialInv

LEMMA SerialPublishes ==
    ASSUME LedgerInv, LedgerInv', AlertInv, SerialInv, plan.serial, NEW s \in Sessions,
           sess' = [sess EXCEPT ![s] = Idle], Publishes(s)
    PROVE  SerialInv'
<1> DEFINE n == Len(snapshots)
<1>1. TypeInv /\ Stamped'
    BY DEF LedgerInv
<1>2. /\ current' = Len(snapshots') /\ dispatches' = dispatches \cup sess[s].rows
      /\ sess[s].pc = "done" /\ decided' = decided
    BY DEF Publishes
<1>3. Busy' = {} /\ \A t \in Sessions : sess'[t].rows = {}
    BY <1>1, <1>2, SerialEnd
<1>4. /\ Len(snapshots') = n + Len(sess[s].snaps)
      /\ n \in Nat
      /\ Len(sess[s].snaps) \in Nat \ {0}
      /\ DOMAIN snapshots = 1..n
      /\ \A i \in DOMAIN snapshots : i \in DOMAIN snapshots' /\ snapshots'[i] = snapshots[i]
      /\ \A k \in DOMAIN sess[s].snaps :
            /\ n + k \in DOMAIN snapshots'
            /\ snapshots'[n + k] = sess[s].snaps[k]
      /\ \A i \in DOMAIN snapshots' :
            i \in DOMAIN snapshots \/ \E k \in DOMAIN sess[s].snaps : i = n + k
    BY <1>1, Published
<1>5. /\ sess[s].seen = n
      /\ sess[s].workflow = decided
      /\ sess[s].from = IF n = 0 THEN "none" ELSE snapshots[n].state
    BY <1>2 DEF SerialInv, UpToDate, Busy
<1>6. DOMAIN sess[s].snaps = 1..Len(sess[s].snaps)
    BY <1>1, EntrySound
<1>7. \A k \in DOMAIN sess[s].snaps : sess[s].snaps[k].seen = n /\ sess[s].snaps[k].workflow = decided
    BY <1>1, <1>5, EntrySound DEF Sound
<1>8. ASSUME NEW i \in DOMAIN snapshots'
      PROVE  \/ i \in 1..n /\ snapshots'[i] = snapshots[i] /\ snapshots'[i].seen < i
             \/ i > n /\ snapshots'[i].seen = n
    <2>1. CASE i \in DOMAIN snapshots
        BY <1>4, <2>1 DEF SerialInv, Grouped
    <2>2. CASE \E k \in DOMAIN sess[s].snaps : i = n + k
        <3>1. PICK k \in DOMAIN sess[s].snaps : i = n + k
            BY <2>2
        <3>2. i > n
            BY <1>4, <1>6, <3>1
        <3> QED  BY <1>4, <1>7, <3>1, <3>2
    <2> QED  BY <1>4, <2>1, <2>2
<1>9. Alone' /\ UpToDate'
    BY <1>3 DEF Alone, UpToDate
<1>10. Grouped'
    <2>1. n \in Nat /\ DOMAIN snapshots = 1..n
        BY <1>4
    <2>2. \A j \in DOMAIN snapshots' : snapshots'[j].seen < j
        BY <1>8, <2>1
    <2>3. ASSUME NEW i \in DOMAIN snapshots', NEW j \in DOMAIN snapshots',
                 i < j, snapshots'[i].seen # snapshots'[j].seen
          PROVE  i <= snapshots'[j].seen
        <3>1. CASE j \in 1..n
            <4>1. i \in Nat
                <5>1. DOMAIN snapshots' = 1..Len(snapshots')
                    BY <1>1, Published
                <5> QED  BY <2>3, <5>1
            <4>2. ~ i > n
                BY <2>1, <2>3, <3>1, <4>1
            <4>3. i \in 1..n /\ snapshots'[i] = snapshots[i]
                BY <1>8, <2>3, <4>2
            <4>4. snapshots'[j] = snapshots[j]
                BY <1>4, <3>1
            <4>5. snapshots[i].seen # snapshots[j].seen
                BY <2>3, <4>3, <4>4
            <4>6. i <= snapshots[j].seen
                BY <2>1, <2>3, <3>1, <4>3, <4>5 DEF SerialInv, Grouped
            <4> QED  BY <4>4, <4>6
        <3>2. CASE j > n
            <4>1. snapshots'[j].seen = n
                BY <1>8, <2>1, <2>3, <3>2
            <4>2. ~ i > n
                BY <1>8, <2>3, <4>1
            <4>3. i \in 1..n
                BY <1>8, <2>3, <4>2
            <4> QED  BY <2>1, <4>1, <4>3
        <3> QED  BY <1>8, <2>3, <3>1, <3>2
    <2> QED  BY <2>2, <2>3 DEF Grouped
<1>11. Announced'
    <2>1. ASSUME NEW row \in dispatches, NEW i \in DOMAIN snapshots',
                 snapshots'[i].at = row.at, snapshots'[i].seen # 0
          PROVE  snapshots'[snapshots'[i].seen].state # "HOT"
        <3>1. PICK j \in DOMAIN snapshots : snapshots[j].at = row.at
            BY DEF AlertInv, AlertBacked
        <3>2. j \in DOMAIN snapshots' /\ snapshots'[j] = snapshots[j]
            BY <1>4
        <3>3. i = j
            BY <1>1, <2>1, <3>1, <3>2 DEF Stamped
        <3>4. snapshots[snapshots[j].seen].state # "HOT"
            BY <2>1, <3>1, <3>2, <3>3 DEF SerialInv, Announced
        <3>5. snapshots[j].seen \in DOMAIN snapshots
            <4>1. snapshots[j].seen \in Nat /\ snapshots[j].seen < j
                BY <1>1, EntryTyped DEF TypeInv, SerialInv, Grouped, Snapshots
            <4> QED  BY <1>4, <2>1, <3>2, <3>3, <4>1
        <3> QED  BY <1>4, <3>2, <3>3, <3>4, <3>5
    <2>2. ASSUME NEW row \in sess[s].rows, NEW i \in DOMAIN snapshots',
                 snapshots'[i].at = row.at, snapshots'[i].seen # 0
          PROVE  snapshots'[snapshots'[i].seen].state # "HOT"
        <3>1. PICK k \in DOMAIN sess[s].snaps : sess[s].snaps[k].at = row.at
            BY DEF AlertInv, RowsCaused, Causes
        <3>2. n + k \in DOMAIN snapshots' /\ snapshots'[n + k] = sess[s].snaps[k]
            BY <1>4
        <3>3. i = n + k
            BY <1>1, <2>2, <3>1, <3>2 DEF Stamped
        <3>4. snapshots'[i].seen = n
            BY <1>7, <3>2, <3>3
        <3>5. snapshots'[n] = snapshots[n]
            BY <1>4, <2>2, <3>4
        <3>6. sess[s].from # "HOT"
            BY DEF AlertInv, RowsCaused
        <3> QED  BY <1>5, <2>2, <3>4, <3>5, <3>6
    <2> QED  BY <1>2, <2>1, <2>2 DEF Announced
<1>12. WorkflowYours'
    <2>1. Len(sess[s].snaps) \in DOMAIN sess[s].snaps
        BY <1>4, <1>6
    <2> QED  BY <1>2, <1>4, <1>7, <2>1 DEF WorkflowYours
<1>13. ToldOnce'
    BY <1>2, <1>3 DEF SerialInv, ToldOnce, Told
<1> QED  BY <1>9, <1>10, <1>11, <1>12, <1>13 DEF SerialInv

LEMMA UndecidedStep == ASSUME TypeInv, Undecided, [Next]_vars PROVE Undecided'
<1>1. ASSUME snapshots' = snapshots, decided' = decided PROVE Undecided'
    BY <1>1 DEF Undecided
<1>2. ASSUME NEW s \in Sessions, Publishes(s) PROVE Undecided'
    <2>1. Len(snapshots') # 0
        BY <1>2, Published
    <2> QED  BY <2>1 DEF Undecided
<1>3. ASSUME NEW s \in Sessions, Corrects(s) PROVE Undecided'
    <2>1. PICK snap \in Snapshots : Rewrites(s, snap)
        BY <1>3 DEF Corrects
    <2>2. DOMAIN snapshots' = DOMAIN snapshots /\ sess[s].seen \in DOMAIN snapshots
        BY <2>1, Corrected DEF Rewrites
    <2> QED  BY <2>2 DEF Undecided
<1>4. ASSUME NEW s \in Sessions, Reads(s) PROVE Undecided'
    BY <1>1, <1>4 DEF Reads, Loads, Quiet, Still
<1>5. ASSUME NEW s \in Sessions, Scores(s) PROVE Undecided'
    BY <1>1, <1>5 DEF Scores, Appends
<1>6. ASSUME NEW s \in Sessions, Tells(s) PROVE Undecided'
    BY <1>1, <1>6 DEF Tells, Alerts, Still
<1>7. ASSUME NEW s \in Sessions, RollBack(s) PROVE Undecided'
    BY <1>1, <1>7 DEF RollBack
<1>8. ASSUME DayPasses \/ UNCHANGED vars PROVE Undecided'
    BY <1>1, <1>8 DEF DayPasses, vars
<1> QED  BY <1>2, <1>3, <1>4, <1>5, <1>6, <1>7, <1>8, StepShape

LEMMA InTurnStep ==
    ASSUME LedgerInv, LedgerInv', AlertInv, InTurnInv, [Next]_vars
    PROVE  InTurnInv'
<1>1. TypeInv /\ Undecided
    BY DEF LedgerInv, InTurnInv
<1>2. Undecided'
    BY <1>1, UndecidedStep
<1>3. plan' = plan
    <2>1. ASSUME NEW s \in Sessions, Load(s) \/ Probe(s) \/ Evaluate(s) \/ Point(s) PROVE plan' = plan
        BY <2>1 DEF Load, Loaded, Probe, Evaluate, Point
    <2>2. ASSUME NEW s \in Sessions, AlertNothing(s) \/ AlertPost(s) \/ NextItem(s) PROVE plan' = plan
        BY <2>2 DEF AlertNothing, AlertPost, NextItem
    <2>3. ASSUME NEW s \in Sessions, Commit(s) \/ RollBack(s) \/ Transition(s) \/ Override(s)
          PROVE  plan' = plan
        BY <2>3 DEF Commit, RollBack, Transition, Override
    <2>4. ASSUME DayPasses \/ UNCHANGED vars PROVE plan' = plan
        BY <2>4 DEF DayPasses, vars
    <2> QED  BY <2>1, <2>2, <2>3, <2>4 DEF Next
<1>4. ASSUME plan.serial, SerialInv PROVE SerialInv'
    <2>1. ASSUME DayPasses \/ UNCHANGED vars PROVE SerialInv'
        <3>1. /\ snapshots' = snapshots /\ dispatches' = dispatches /\ current' = current
              /\ decided' = decided /\ sess' = sess
            BY <2>1 DEF DayPasses, vars
        <3> QED  BY <1>4, <3>1 DEF SerialInv, Alone, UpToDate, Grouped, Announced, WorkflowYours,
                                   ToldOnce, Told, Busy
    <2> QED  BY <1>1, <1>4, <2>1, StepShape, SerialReads, SerialScores, SerialTells,
                SerialPublishes, SerialRollBack, SerialCorrects
<1> QED  BY <1>2, <1>3, <1>4 DEF InTurnInv

\* The inductive form of the theorems below: without overlap the session at
\* work has the ledger before it as it is, its snapshots follow in one piece
\* the score it had loaded, and no two rows of a key and a window are told.
THEOREM InTurnSound == Spec => [](LedgerInv /\ AlertInv /\ InTurnInv)
<1>1. Init => InTurnInv
    BY DEF Init, InTurnInv, Undecided, SerialInv, Alone, UpToDate, Grouped, Announced,
           WorkflowYours, ToldOnce, Told, Busy, Idle
<1>2. LedgerInv /\ LedgerInv' /\ AlertInv /\ InTurnInv /\ [Next]_vars => InTurnInv'
    BY InTurnStep
<1> QED  BY <1>1, <1>2, AlertsSound, PTL DEF Spec

\* Where sessions never overlap, however many there are and however many items
\* each takes, a rescore carries over what the analyst decided last.
THEOREM WorkflowNeverReset == Spec => []WorkflowKept
<1>1. InTurnInv => WorkflowKept
    BY DEF InTurnInv, SerialInv, WorkflowKept
<1> QED  BY <1>1, InTurnSound, PTL

LEMMA EntryHolds == ASSUME LedgerInv, InTurnInv PROVE AlertOnEntry
<1> SUFFICES ASSUME plan.serial, NEW row \in dispatches, NEW i \in DOMAIN snapshots,
                    snapshots[i].at = row.at,
                    {j \in 1..(i - 1) : snapshots[j].seen # snapshots[i].seen} # {}
             PROVE  snapshots[Max({j \in 1..(i - 1) : snapshots[j].seen # snapshots[i].seen})].state # "HOT"
    BY DEF AlertOnEntry
<1> DEFINE k      == snapshots[i].seen
           before == {j \in 1..(i - 1) : snapshots[j].seen # k}
<1>1. /\ DOMAIN snapshots = 1..Len(snapshots)
      /\ Len(snapshots) \in Nat
      /\ \A j \in DOMAIN snapshots : snapshots[j].seen \in Nat
    <2>1. Typed
        BY DEF LedgerInv, TypeInv
    <2>2. DOMAIN snapshots = 1..Len(snapshots) /\ Len(snapshots) \in Nat
        BY <2>1 DEF Typed
    <2>3. \A j \in DOMAIN snapshots : snapshots[j] \in Snapshots
        BY <2>1, EntryTyped
    <2> QED  BY <2>2, <2>3 DEF Snapshots
<1>2. Grouped /\ Announced
    BY DEF InTurnInv, SerialInv
<1>3. \A j \in 1..(i - 1) : j \in DOMAIN snapshots /\ j < i
    BY <1>1
<1>4. \A j \in before : j <= k /\ j \in Nat
    BY <1>1, <1>2, <1>3 DEF Grouped
<1>5. k # 0 /\ k \in Nat /\ k < i
    <2>1. PICK j \in before : TRUE
        OBVIOUS
    <2> QED  BY <1>1, <1>2, <1>4, <2>1 DEF Grouped
<1>6. k \in before
    <2>1. k \in 1..(i - 1)
        BY <1>1, <1>5
    <2>2. snapshots[k].seen < k /\ snapshots[k].seen \in Nat
        BY <1>1, <1>2, <1>3, <2>1 DEF Grouped
    <2>3. snapshots[k].seen # k
        BY <1>5, <2>2
    <2> QED  BY <2>1, <2>3
<1>7. Max(before) = k
    <2>1. \A x \in before : x >= k => x = k
        BY <1>4, <1>5
    <2>2. \A y \in before : k >= y
        BY <1>4, <1>5
    <2> QED  BY <1>6, <2>1, <2>2 DEF Max
<1>8. snapshots[k].state # "HOT"
    BY <1>2, <1>5 DEF Announced
<1> QED  BY <1>7, <1>8

\* Where sessions never overlap, an alert was caused by a snapshot that turned
\* HOT: the score on record before its session was not, and stays so.
THEOREM AlertsAnnounceEntry == Spec => []AlertOnEntry
<1>1. LedgerInv /\ InTurnInv => AlertOnEntry
    BY EntryHolds
<1> QED  BY <1>1, InTurnSound, PTL

\* Where sessions never overlap, one key is told once in a window, be it by two
\* sessions or by two items of one.
THEOREM AlertsOnce == Spec => []AlertOnce
<1>1. InTurnInv => AlertOnce
    BY DEF InTurnInv, SerialInv, ToldOnce, Told, AlertOnce
<1> QED  BY <1>1, InTurnSound, PTL

-----------------------------------------------------------------------------
(* The ledger as a history *)

\* A rescore that was rolled back is neither on record nor in hand.
Apart ==
    /\ \A i \in DOMAIN snapshots : snapshots[i].at \notin undone
    /\ \A s \in Sessions : \A i \in DOMAIN sess[s].snaps : sess[s].snaps[i].at \notin undone

\* A step that loses nothing, and stamps what it stamps anew.
LEMMA ApartStill ==
    ASSUME Apart, undone' = undone,
           \A i \in DOMAIN snapshots' : snapshots'[i].at \notin undone,
           \A t \in Sessions : \A i \in DOMAIN sess'[t].snaps :
                sess'[t].snaps = sess[t].snaps \/ sess'[t].snaps[i].at \notin undone
    PROVE  Apart'
<1>1. \A t \in Sessions : \A i \in DOMAIN sess'[t].snaps : sess'[t].snaps[i].at \notin undone
    BY DEF Apart
<1> QED  BY <1>1 DEF Apart

LEMMA ApartScores ==
    ASSUME TypeInv, Apart, NEW s \in Sessions, Scores(s)
    PROVE  Apart'
<1>1. PICK e \in Session, snap \in Snapshots :
        sess' = [sess EXCEPT ![s] = e] /\ Sound(s, e) /\ Appends(s, e, snap)
    BY DEF Scores
<1>2. sess'[s] = e /\ \A t \in Sessions \ {s} : sess'[t] = sess[t]
    BY <1>1, Others
<1>3. /\ snapshots' = snapshots /\ undone' = undone
      /\ e.snaps = Append(sess[s].snaps, snap)
      /\ snap.at = scored + 1
    BY <1>1 DEF Appends
<1>4. snap.at \notin undone
    <2>1. undone \subseteq 1..scored /\ scored \in Nat
        BY DEF TypeInv, Typed
    <2> QED  BY <1>3, <2>1
<1>5. ASSUME NEW i \in DOMAIN e.snaps PROVE e.snaps[i].at \notin undone
    <2>1. sess[s].snaps \in Seq(Snapshots)
        BY EntrySound
    <2>2. \/ i \in DOMAIN sess[s].snaps /\ e.snaps[i] = sess[s].snaps[i]
          \/ e.snaps[i] = snap
        BY <1>3, <1>5, <2>1
    <2> QED  BY <1>4, <2>2 DEF Apart
<1>6. \A i \in DOMAIN snapshots' : snapshots'[i].at \notin undone
    BY <1>3 DEF Apart
<1>7. \A t \in Sessions : \A i \in DOMAIN sess'[t].snaps :
        sess'[t].snaps = sess[t].snaps \/ sess'[t].snaps[i].at \notin undone
    BY <1>2, <1>5
<1> QED  BY <1>3, <1>6, <1>7, ApartStill

LEMMA ApartPublishes ==
    ASSUME TypeInv, Apart, NEW s \in Sessions, sess' = [sess EXCEPT ![s] = Idle], Publishes(s)
    PROVE  Apart'
<1>1. sess'[s].snaps = <<>> /\ \A t \in Sessions \ {s} : sess'[t] = sess[t]
    <2>1. sess'[s] = Idle /\ \A t \in Sessions \ {s} : sess'[t] = sess[t]
        BY Others
    <2> QED  BY <2>1 DEF Idle
<1>2. undone' = undone
    BY DEF Publishes
<1>3. ASSUME NEW i \in DOMAIN snapshots' PROVE snapshots'[i].at \notin undone
    <2>1. \/ i \in DOMAIN snapshots /\ snapshots'[i] = snapshots[i]
          \/ \E k \in DOMAIN sess[s].snaps : snapshots'[i] = sess[s].snaps[k]
        BY <1>3, Published
    <2> QED  BY <2>1 DEF Apart
<1>4. \A t \in Sessions : \A i \in DOMAIN sess'[t].snaps : sess'[t].snaps = sess[t].snaps
    BY <1>1
<1> QED  BY <1>2, <1>3, <1>4, ApartStill

LEMMA ApartRollBack ==
    ASSUME TypeInv, Stamped, Apart, NEW s \in Sessions, RollBack(s)
    PROVE  Apart'
<1>1. /\ sess' = [sess EXCEPT ![s] = Idle]
      /\ snapshots' = snapshots
      /\ undone' = undone \cup {snap.at : snap \in Range(sess[s].snaps)}
    BY DEF RollBack
<1>2. sess'[s].snaps = <<>> /\ \A t \in Sessions \ {s} : sess'[t] = sess[t]
    <2>1. sess'[s] = Idle /\ \A t \in Sessions \ {s} : sess'[t] = sess[t]
        BY <1>1, Others
    <2> QED  BY <2>1 DEF Idle
<1>3. ASSUME NEW at \in undone'
      PROVE  at \in undone \/ \E k \in DOMAIN sess[s].snaps : at = sess[s].snaps[k].at
    BY <1>1, <1>3 DEF Range
<1>4. ASSUME NEW i \in DOMAIN snapshots PROVE snapshots[i].at \notin undone'
    <2>1. /\ snapshots[i].at \notin undone
          /\ \A k \in DOMAIN sess[s].snaps : sess[s].snaps[k].at # snapshots[i].at
        BY <1>4 DEF Apart, Stamped
    <2> QED  BY <1>3, <2>1
<1>5. ASSUME NEW t \in Sessions \ {s}, NEW i \in DOMAIN sess[t].snaps
      PROVE  sess[t].snaps[i].at \notin undone'
    <2>1. /\ sess[t].snaps[i].at \notin undone
          /\ \A k \in DOMAIN sess[s].snaps : sess[s].snaps[k].at # sess[t].snaps[i].at
        BY <1>5 DEF Apart, Stamped
    <2> QED  BY <1>3, <2>1
<1>6. \A t \in Sessions : \A i \in DOMAIN sess'[t].snaps : sess'[t].snaps[i].at \notin undone'
    BY <1>2, <1>5
<1> QED  BY <1>1, <1>4, <1>6 DEF Apart

LEMMA ApartStep == ASSUME TypeInv, Stamped, Apart, [Next]_vars PROVE Apart'
<1>1. ASSUME NEW s \in Sessions, Reads(s) PROVE Apart'
    <2>1. PICK e \in Session :
            sess' = [sess EXCEPT ![s] = e] /\ Sound(s, e) /\ (Loads(s, e) \/ Quiet(s, e))
        BY <1>1 DEF Reads
    <2>2. sess'[s] = e /\ \A t \in Sessions \ {s} : sess'[t] = sess[t]
        BY <1>1, <2>1, Others
    <2>3. snapshots' = snapshots /\ undone' = undone /\ e.snaps = sess[s].snaps
        BY <2>1 DEF Loads, Quiet, Still
    <2>4. \A t \in Sessions : sess'[t].snaps = sess[t].snaps
        BY <2>2, <2>3
    <2>5. \A i \in DOMAIN snapshots' : snapshots'[i].at \notin undone
        BY <2>3 DEF Apart
    <2> QED  BY <2>3, <2>4, <2>5, ApartStill
<1>2. ASSUME NEW s \in Sessions, Tells(s) PROVE Apart'
    <2>1. PICK e \in Session, row \in Rows :
            sess' = [sess EXCEPT ![s] = e] /\ Sound(s, e) /\ Alerts(s, e, row)
        BY <1>2 DEF Tells
    <2>2. sess'[s] = e /\ \A t \in Sessions \ {s} : sess'[t] = sess[t]
        BY <1>2, <2>1, Others
    <2>3. snapshots' = snapshots /\ undone' = undone /\ e.snaps = sess[s].snaps
        BY <2>1 DEF Alerts, Still
    <2>4. \A t \in Sessions : sess'[t].snaps = sess[t].snaps
        BY <2>2, <2>3
    <2>5. \A i \in DOMAIN snapshots' : snapshots'[i].at \notin undone
        BY <2>3 DEF Apart
    <2> QED  BY <2>3, <2>4, <2>5, ApartStill
<1>3. ASSUME NEW s \in Sessions, Corrects(s) PROVE Apart'
    <2>1. PICK snap \in Snapshots :
            sess' = [sess EXCEPT ![s] = Idle] /\ Rewrites(s, snap) /\ facts' \in Facts
        BY <1>3 DEF Corrects
    <2>2. sess'[s].snaps = <<>> /\ \A t \in Sessions \ {s} : sess'[t] = sess[t]
        <3>1. sess'[s] = Idle /\ \A t \in Sessions \ {s} : sess'[t] = sess[t]
            BY <1>3, <2>1, Others
        <3> QED  BY <3>1 DEF Idle
    <2>3. undone' = undone
        BY <2>1 DEF Rewrites
    <2>4. DOMAIN snapshots' = DOMAIN snapshots /\ \A i \in DOMAIN snapshots : snapshots'[i].at = snapshots[i].at
        BY <1>3, <2>1, Corrected
    <2>5. \A i \in DOMAIN snapshots' : snapshots'[i].at \notin undone
        BY <2>4 DEF Apart
    <2>6. \A t \in Sessions : \A i \in DOMAIN sess'[t].snaps : sess'[t].snaps = sess[t].snaps
        BY <2>2
    <2> QED  BY <2>3, <2>5, <2>6, ApartStill
<1>4. ASSUME DayPasses \/ UNCHANGED vars PROVE Apart'
    <2>1. snapshots' = snapshots /\ sess' = sess /\ undone' = undone
        BY <1>4 DEF DayPasses, vars
    <2> QED  BY <2>1 DEF Apart
<1> QED  BY <1>1, <1>2, <1>3, <1>4, StepShape, ApartScores, ApartPublishes, ApartRollBack

\* What a reader of the history sees: the entries, their columns, the alerts.
Entry(snap)  == [at |-> snap.at, first |-> snap.first, key |-> Key(snap.basis)]
Column(snap) == [state |-> snap.state, workflow |-> snap.workflow]
Alert(row)   == [at |-> row.at, key |-> row.key]

Entries == [i \in DOMAIN snapshots |-> Entry(snapshots[i])]
Columns == [i \in DOMAIN snapshots |-> Column(snapshots[i])]
Alerted == {Alert(row) : row \in dispatches}

Shown ==
    /\ DOMAIN Entries = DOMAIN snapshots
    /\ DOMAIN Columns = DOMAIN snapshots
    /\ \A i \in DOMAIN snapshots : Entries[i] = Entry(snapshots[i]) /\ Columns[i] = Column(snapshots[i])

LEMMA Seen == Shown
BY Zenon DEF Shown, Entries, Columns

\* A step that touches neither the ledger nor its losses shows nothing.
LEMMA Unseen ==
    ASSUME UNCHANGED <<snapshots, current, dispatches, undone>>
    PROVE  UNCHANGED History!vars
BY DEF History!vars, Key

LEMMA HistoryLoses ==
    ASSUME TypeInv, Stamped, Apart, NEW s \in Sessions, RollBack(s)
    PROVE  History!Lose
<1>1. /\ snapshots' = snapshots /\ current' = current /\ dispatches' = dispatches
      /\ undone \subseteq undone'
    BY DEF RollBack
<1>2. \A i \in DOMAIN snapshots : snapshots[i].at \notin undone'
    BY <1>1, ApartRollBack DEF Apart
<1>3. \A i \in DOMAIN Entries : Entries[i].at \notin undone'
    BY <1>2, Seen DEF Shown, Entry
<1>4. Entries' = Entries /\ Columns' = Columns /\ Alerted' = Alerted
    BY <1>1 DEF Entries, Columns, Alerted, Entry, Column, Alert, Key
<1> QED  BY <1>1, <1>3, <1>4, Zenon DEF History!Lose, Entries, Columns, Alerted, Entry, Column, Alert, Key

LEMMA HistoryAmends ==
    ASSUME TypeInv, NEW s \in Sessions, Corrects(s)
    PROVE  History!Amend
<1>1. PICK snap \in Snapshots :
        sess' = [sess EXCEPT ![s] = Idle] /\ Rewrites(s, snap) /\ facts' \in Facts
    BY DEF Corrects
<1> DEFINE seen == sess[s].seen
<1>2. /\ current' = current /\ dispatches' = dispatches /\ undone' = undone
      /\ seen \in DOMAIN snapshots
      /\ \/ snap.state = snapshots[seen].state
         \/ snap.workflow = snapshots[seen].workflow
    BY <1>1 DEF Rewrites
<1>3. /\ DOMAIN snapshots' = DOMAIN snapshots
      /\ snapshots'[seen] = snap
      /\ \A i \in DOMAIN snapshots :
            /\ Entry(snapshots'[i]) = Entry(snapshots[i])
            /\ i # seen => snapshots'[i] = snapshots[i]
    BY <1>1, Corrected DEF Entry, Key
<1> HIDE DEF seen
<1>4. Shown /\ Shown'
    BY Seen, PTL
<1>5. DOMAIN Columns' = DOMAIN Columns
    BY <1>3, <1>4 DEF Shown
<1>6. \/ Columns'[seen].state = Columns[seen].state
      \/ Columns'[seen].workflow = Columns[seen].workflow
    <2>1. Columns[seen] = Column(snapshots[seen]) /\ Columns'[seen] = Column(snap)
        BY <1>2, <1>3, <1>4 DEF Shown, Column
    <2> QED  BY <1>2, <2>1 DEF Column
<1>7. \A j \in DOMAIN Columns : j # seen => Columns'[j] = Columns[j]
    <2>1. ASSUME NEW j \in DOMAIN snapshots, j # seen PROVE Columns'[j] = Columns[j]
        <3>1. snapshots'[j] = snapshots[j]
            BY <1>3, <2>1
        <3> QED  BY <1>3, <1>4, <2>1, <3>1 DEF Shown, Column
    <2> QED  BY <1>4, <2>1 DEF Shown
<1>8. seen \in DOMAIN Columns
    BY <1>2, <1>4 DEF Shown
<1>9. Entries' = Entries
    <2>1. \A i \in DOMAIN snapshots : Entry(snapshots'[i]) = Entry(snapshots[i])
        BY <1>3
    <2> QED  BY <1>3, <2>1, Zenon DEF Entries, Entry, Key
<1>10. Alerted' = Alerted
    BY <1>2 DEF Alerted, Alert
<1> QED  BY <1>2, <1>5, <1>6, <1>7, <1>8, <1>9, <1>10, Zenon
         DEF History!Amend, Entries, Columns, Alerted, Entry, Column, Alert, Key

LEMMA HistoryPublishes ==
    ASSUME LedgerInv, LedgerInv', AlertInv, Apart, Apart',
           NEW s \in Sessions, sess' = [sess EXCEPT ![s] = Idle], Publishes(s)
    PROVE  History!Publish
<1> DEFINE added == DOMAIN Entries' \ DOMAIN Entries
<1>1. /\ current' = Len(snapshots')
      /\ dispatches' = dispatches \cup sess[s].rows
      /\ undone' = undone
    BY DEF Publishes
<1>2. Shown /\ Shown'
    BY Seen, PTL
<1>3. /\ Len(snapshots') = Len(snapshots) + Len(sess[s].snaps)
      /\ Len(snapshots) \in Nat
      /\ Len(sess[s].snaps) \in Nat \ {0}
      /\ DOMAIN snapshots = 1..Len(snapshots)
      /\ DOMAIN snapshots' = 1..Len(snapshots')
      /\ \A i \in DOMAIN snapshots : i \in DOMAIN snapshots' /\ snapshots'[i] = snapshots[i]
      /\ \A k \in DOMAIN sess[s].snaps :
            /\ Len(snapshots) + k \in DOMAIN snapshots'
            /\ snapshots'[Len(snapshots) + k] = sess[s].snaps[k]
      /\ \A i \in DOMAIN snapshots' :
            i \in DOMAIN snapshots
            \/ \E k \in DOMAIN sess[s].snaps : i = Len(snapshots) + k
    BY Published DEF LedgerInv
<1>4. added = DOMAIN snapshots' \ DOMAIN snapshots
    BY <1>2 DEF Shown
<1>5. \A k \in DOMAIN sess[s].snaps : Len(snapshots) + k \in added
    <2>1. \A k \in DOMAIN sess[s].snaps : k \in Nat \ {0}
        BY EntrySound DEF LedgerInv
    <2>2. \A k \in DOMAIN sess[s].snaps : Len(snapshots) + k \notin 1..Len(snapshots)
        BY <1>3, <2>1
    <2> QED  BY <1>3, <1>4, <2>2
<1>6. current' \in added /\ \A i \in DOMAIN Entries' : i <= current'
    <2>1. Len(snapshots') \in 1..Len(snapshots') /\ Len(snapshots') \notin 1..Len(snapshots)
        BY <1>3
    <2>2. DOMAIN Entries' = 1..Len(snapshots')
        BY <1>2, <1>3 DEF Shown
    <2> QED  BY <1>1, <1>3, <1>4, <2>1, <2>2
<1>7. \A i \in DOMAIN Entries :
        i \in DOMAIN Entries' /\ Entries'[i] = Entries[i] /\ Columns'[i] = Columns[i]
    <2>1. ASSUME NEW i \in DOMAIN snapshots
          PROVE  i \in DOMAIN Entries' /\ Entries'[i] = Entries[i] /\ Columns'[i] = Columns[i]
        <3>1. i \in DOMAIN snapshots' /\ snapshots'[i] = snapshots[i]
            BY <1>3
        <3>2. Entries'[i] = Entry(snapshots[i])
            BY <1>2, <3>1 DEF Shown, Entry, Key
        <3>3. Columns'[i] = Column(snapshots[i])
            BY <1>2, <3>1 DEF Shown, Column
        <3> QED  BY <1>2, <3>1, <3>2, <3>3 DEF Shown
    <2> QED  BY <1>2, <2>1 DEF Shown
<1>8. ASSUME NEW i \in added
      PROVE  /\ Columns'[i].state = Entries'[i].first
             /\ Entries'[i].at \notin undone
             /\ \A j \in DOMAIN Entries' : Entries'[j].at = Entries'[i].at => j = i
    <2>1. i \in DOMAIN snapshots'
        BY <1>4, <1>8
    <2>2. PICK k \in DOMAIN sess[s].snaps : snapshots'[i] = sess[s].snaps[k]
        BY <1>3, <1>4, <1>8
    <2>3. snapshots'[i].first = snapshots'[i].state
        BY <2>2 DEF LedgerInv, TypeInv, Sound
    <2>4. snapshots'[i].at \notin undone'
        BY <2>1 DEF Apart
    <2>5. \A j \in DOMAIN snapshots' : snapshots'[j].at = snapshots'[i].at => j = i
        BY <2>1 DEF LedgerInv, Stamped
    <2>6. Columns'[i].state = snapshots'[i].state
        BY <1>2, <2>1 DEF Shown, Column
    <2>7. \A j \in DOMAIN snapshots' :
            Entries'[j].at = snapshots'[j].at /\ Entries'[j].first = snapshots'[j].first
        BY <1>2 DEF Shown, Entry
    <2>8. DOMAIN Entries' = DOMAIN snapshots'
        BY <1>2 DEF Shown
    <2> QED  BY <1>1, <2>1, <2>3, <2>4, <2>5, <2>6, <2>7, <2>8
<1>9. Alerted \subseteq Alerted'
    BY <1>1, Zenon DEF Alerted, Alert
<1>10. ASSUME NEW alert \in Alerted' \ Alerted
       PROVE  \E i \in added :
                /\ Entries'[i].at = alert.at
                /\ Entries'[i].first = "HOT"
                /\ Entries'[i].key = alert.key
    <2>1. PICK row \in sess[s].rows : alert = Alert(row)
        BY <1>1, <1>10 DEF Alerted, Alert
    <2>2. PICK k \in DOMAIN sess[s].snaps : Causes(sess[s].snaps[k], row)
        BY DEF AlertInv, RowsCaused
    <2> DEFINE i == Len(snapshots) + k
    <2>3. i \in added /\ i \in DOMAIN snapshots' /\ snapshots'[i] = sess[s].snaps[k]
        BY <1>3, <1>5
    <2> HIDE DEF i
    <2>4. Entries'[i] = Entry(sess[s].snaps[k])
        BY <1>2, <2>3 DEF Shown, Entry, Key
    <2>5. /\ Entry(sess[s].snaps[k]).at = row.at
          /\ Entry(sess[s].snaps[k]).first = "HOT"
          /\ Entry(sess[s].snaps[k]).key = row.key
        BY <2>2 DEF Causes, Entry
    <2>6. alert.at = row.at /\ alert.key = row.key
        BY <2>1 DEF Alert
    <2> QED  BY <2>3, <2>4, <2>5, <2>6
<1>11. History!KeepsAll
    BY <1>7, Zenon DEF History!KeepsAll, Entries, Columns, Entry, Column, Key
<1>12. History!Added = added
    BY Zenon DEF History!Added, Entries, Entry, Key
<1> HIDE DEF added
<1>13. History!AddsAnew
    <2>1. \A i \in added :
            /\ Columns'[i].state = Entries'[i].first
            /\ Entries'[i].at \notin undone
            /\ \A j \in DOMAIN Entries' : Entries'[j].at = Entries'[i].at => j = i
        BY <1>8
    <2> QED  BY <1>12, <2>1, Zenon DEF History!AddsAnew, Entries, Columns, Entry, Column, Key
<1>14. History!TellsOfAdded
    <2>1. \A alert \in Alerted' \ Alerted : \E i \in added :
            /\ Entries'[i].at = alert.at
            /\ Entries'[i].first = "HOT"
            /\ Entries'[i].key = alert.key
        BY <1>10
    <2> QED  BY <1>12, <2>1, Zenon DEF History!TellsOfAdded, Entries, Alerted, Entry, Alert, Key
<1>15. \A i \in DOMAIN Entries' : i <= current'
    BY <1>6
<1>16. current' \in History!Added
    BY <1>6, <1>12
<1> QED  BY <1>1, <1>9, <1>11, <1>13, <1>14, <1>15, <1>16, Zenon
         DEF History!Publish, Entries, Alerted, Entry, Alert, Key

LEMMA HistoryStep ==
    ASSUME LedgerInv, LedgerInv', AlertInv, Apart, Apart', [Next]_vars
    PROVE  [History!Next]_History!vars
<1>1. TypeInv /\ Stamped
    BY DEF LedgerInv
<1>2. ASSUME NEW s \in Sessions, Reads(s) \/ Scores(s) \/ Tells(s) PROVE UNCHANGED History!vars
    <2>1. UNCHANGED <<snapshots, current, dispatches, undone>>
        BY <1>2 DEF Reads, Scores, Tells, Loads, Quiet, Appends, Alerts, Still
    <2> QED  BY <2>1, Unseen
<1>3. ASSUME DayPasses \/ UNCHANGED vars PROVE UNCHANGED History!vars
    <2>1. UNCHANGED <<snapshots, current, dispatches, undone>>
        BY <1>3 DEF DayPasses, vars
    <2> QED  BY <2>1, Unseen
<1>4. ASSUME NEW s \in Sessions, sess' = [sess EXCEPT ![s] = Idle], Publishes(s)
      PROVE  History!Publish
    BY <1>4, HistoryPublishes
<1>5. ASSUME NEW s \in Sessions, RollBack(s) PROVE History!Lose
    BY <1>1, <1>5, HistoryLoses
<1>6. ASSUME NEW s \in Sessions, Corrects(s) PROVE History!Amend
    BY <1>1, <1>6, HistoryAmends
<1>7. CASE Next
    BY <1>1, <1>2, <1>3, <1>4, <1>5, <1>6, <1>7, StepShape, Zenon DEF History!Next
<1>8. CASE UNCHANGED vars
    BY <1>3, <1>8
<1> QED  BY <1>7, <1>8

\* "Every rescore appends a snapshot rather than overwriting one": however
\* sessions overlap, however many items each takes and wherever it fails, the
\* ledger steps as ScoreHistory does.  Snapshots of one session appear together
\* with the alerts they caused, none is changed but by an analyst and in one
\* column, and none that was rolled back ever appears.
THEOREM LedgerIsHistory == Spec => LedgerKept
<1>1. Init => History!Init
    BY DEF Init, History!Init
<1>2. Init => Apart
    BY DEF Init, Apart, Idle
<1>3. LedgerInv /\ Apart /\ [Next]_vars => Apart'
    BY ApartStep DEF LedgerInv
<1>4. LedgerInv /\ LedgerInv' /\ AlertInv /\ Apart /\ Apart' /\ [Next]_vars
        => [History!Next]_History!vars
    BY HistoryStep
<1> QED  BY <1>1, <1>2, <1>3, <1>4, AlertsSound, PTL DEF Spec, LedgerKept, History!Spec
=============================================================================
