------------------------------ MODULE Scoring ------------------------------
(***************************************************************************)
(* The scoring rules: discovery confidence, momentum, risk penalty, radar  *)
(* and outreach score, the outreach gate and the state they lead to.       *)
(* Percentages are counted in tenths of a point, weighted sums in          *)
(* thousandths; thresholds and weights are the defaults of config.py.      *)
(*                                                                         *)
(* facts is what the database holds of a candidate: its organization's     *)
(* anchors (domain, repo, social), the registry submission (pr, merged),   *)
(* its networks (network: one has an identity, rpc: one has an endpoint,   *)
(* genesis: one has a verified incarnation), fingerprint                   *)
(* (last_verified_at), collision (an active collision or reset signal),    *)
(* the lifecycle dates (testnet, announced, live), token (a token label),  *)
(* stage, the Africa assessment (africa in points, label) and events, the  *)
(* linked evidence as [family, source, age in days].                       *)
(* check is what the caller of a rescore learned by probing just now.      *)
(***************************************************************************)
EXTENDS Points, FiniteSets

Stages == {"S0", "S1", "S2", "S3", "S4", "S5", "S6"}
Labels == {"A1", "A2", "A3", "A4", "A5"}
States == {"REJECT", "STALE", "RADAR", "QUALIFIED", "HOT"}

Evidence == [family: STRING, source: STRING, age: Nat]

Facts ==
    [domain: BOOLEAN, repo: BOOLEAN, social: BOOLEAN, pr: BOOLEAN, merged: BOOLEAN,
     network: BOOLEAN, rpc: BOOLEAN, genesis: BOOLEAN, fingerprint: BOOLEAN,
     collision: BOOLEAN, testnet: BOOLEAN, announced: BOOLEAN, live: BOOLEAN,
     token: BOOLEAN, stage: Stages, africa: 0..100, label: Labels, events: SUBSET Evidence]

\* The check of a caller that did not probe.
NoCheck == [fingerprint |-> FALSE, live |-> FALSE, mismatch |-> FALSE, failures |-> 0]

Clamp(n) == AtMost(100000, IF n < 0 THEN 0 ELSE n)

-----------------------------------------------------------------------------
(* Confidence *)

Attributed(facts) == facts.domain \/ facts.repo \/ facts.social

Families(facts) == {e.family : e \in facts.events} \ {"unknown"}

Official(facts) ==
    CASE facts.domain /\ facts.repo -> 200
      [] facts.domain # facts.repo -> 150
      [] ~ facts.domain /\ ~ facts.repo /\ facts.social -> 80
      [] ~ Attributed(facts) /\ (facts.pr \/ facts.merged) -> 40
      [] OTHER -> 0

Registry(facts) ==
    CASE facts.merged -> 150
      [] facts.pr /\ ~ facts.merged -> 100
      [] ~ facts.pr /\ ~ facts.merged /\ "registry" \in Families(facts) -> 80
      [] OTHER -> 0

\* has_technical_fingerprint as rescore_candidate passes it.
Fingerprint(facts, check) == check.fingerprint \/ facts.fingerprint

Technical(facts, check) ==
    IF check.live /\ facts.genesis THEN 250
    ELSE IF Fingerprint(facts, check) /\ facts.genesis THEN 200
    ELSE IF Fingerprint(facts, check) THEN 150
    ELSE When(facts.rpc, 60)

\* Mutant: .get(len(families), 0.0) - the default of the lookup is zero.
CorroborationDefault(facts) ==
    LET n == Cardinality(Families(facts)) IN IF n > 2 THEN 0 ELSE 50 * n

Corroboration(facts) == AtMost(150, 50 * Cardinality(Families(facts)))

Lifecycle(facts) ==
    IF facts.live THEN 150
    ELSE IF facts.announced THEN 120
    ELSE IF facts.testnet THEN 100
    ELSE When(facts.stage # "S0", 60)

HalfLife(family) ==
    CASE family \in {"registry", "infrastructure", "explorer", "interop"} -> 21
      [] family = "code_search" -> 10
      [] family \in {"news", "verification"} -> 7
      [] family = "social" -> 3
      [] family \in {"careers", "market"} -> 30
      [] family = "standards" -> 45
      [] OTHER -> 14

\* 0.5 ** (age / half_life), in points of a hundred, at whole half-lives.
Decay == <<100, 50, 25, 12, 6, 3, 1>>

Decayed(event) ==
    LET n == event.age \div HalfLife(event.family) IN IF n < 7 THEN Decay[n + 1] ELSE 0

\* The freshest contribution wins.
Freshness(facts) ==
    IF facts.events = {} THEN 0
    ELSE CHOOSE n \in {Decayed(e) : e \in facts.events} : \A e \in facts.events : n >= Decayed(e)

Confidence(facts, check) ==
    AtMost(1000, Official(facts) + Registry(facts) + Technical(facts, check)
                   + Corroboration(facts) + Lifecycle(facts) + Freshness(facts))

-----------------------------------------------------------------------------
(* Momentum and risk *)

\* Mutant: the comparison is turned round.
RecentInverted(facts) == {e \in facts.events : e.age >= 14}

Recent(facts) == {e \in facts.events : e.age <= 14}

StageMomentum(stage) ==
    CASE stage \in {"S2", "S3"} -> 300
      [] stage = "S4" -> 350
      [] stage = "S5" -> 250
      [] OTHER -> 100

Momentum(facts) ==
    LET recent   == Recent(facts)
        velocity == AtMost(350, 70 * Cardinality(recent))
        sources  == AtMost(200, 50 * Cardinality({e.source : e \in recent}))
        commerce == IF \E e \in recent : e.family \in {"careers", "social"} THEN 150 ELSE 50
    IN  AtMost(1000, velocity + StageMomentum(facts.stage) + sources + commerce)

\* A token launch without an independent network.
TokenOnly(facts) == facts.token /\ ~ facts.network

Risk(facts, check) ==
    AtMost(1000, When(check.mismatch \/ facts.collision, 300)
                   + When(~ facts.domain /\ ~ facts.repo, 250)
                   + When(TokenOnly(facts), 250)
                   + When(check.failures >= 2, 100))

-----------------------------------------------------------------------------
(* Scores, gate and state *)

Radar(facts, check) ==
    Clamp(40 * Momentum(facts) + 35 * Confidence(facts, check) + 25 * 10 * facts.africa)

\* Mutant: the penalty is added.
OutreachBonus(facts, check, risk) ==
    Clamp(45 * Confidence(facts, check) + 35 * 10 * facts.africa + 20 * Momentum(facts) + 30 * risk)

Outreach(facts, check, risk) ==
    Clamp(45 * Confidence(facts, check) + 35 * 10 * facts.africa + 20 * Momentum(facts) - 30 * risk)

\* The hard gate: confidence, attribution, two families or a verified endpoint.
GatePassed(facts, check, blocked) ==
    /\ Confidence(facts, check) >= 650
    /\ Attributed(facts)
    /\ Cardinality(Families(facts)) >= 2 \/ Fingerprint(facts, check)
    /\ ~ blocked

TTL(stage) ==
    CASE stage = "S0" -> 30
      [] stage = "S1" -> 45
      [] stage \in {"S2", "S5"} -> 21
      [] stage \in {"S3", "S4"} -> 14
      [] stage = "S6" -> 90

\* The newest evidence is past the stage's TTL, or there is none.
Stale(facts) == \A e \in facts.events : e.age > TTL(facts.stage)

OutreachWindow(facts) ==
    facts.stage \in {"S2", "S3", "S4", "S5"} \/ facts.label \in {"A1", "A2"}

\* Mutant: the thresholds come before the age of the evidence.
StateScoreFirst(facts, check, risk, blocked) ==
    LET confidence == Confidence(facts, check)
        outreach   == Outreach(facts, check, risk)
    IN  IF blocked THEN "REJECT"
        ELSE IF GatePassed(facts, check, blocked) /\ confidence >= 650 /\ outreach >= 55000
             THEN "QUALIFIED"
        ELSE IF Stale(facts) THEN "STALE"
        ELSE "RADAR"

State(facts, check, risk, blocked) ==
    LET confidence == Confidence(facts, check)
        outreach   == Outreach(facts, check, risk)
        passed     == GatePassed(facts, check, blocked)
    IN  IF blocked THEN "REJECT"
        ELSE IF Stale(facts) THEN "STALE"
        ELSE IF passed /\ confidence >= 750 /\ outreach >= 70000 /\ risk < 340
                /\ OutreachWindow(facts) THEN "HOT"
        ELSE IF passed /\ confidence >= 650 /\ outreach >= 55000 THEN "QUALIFIED"
        ELSE "RADAR"

\* rescore_candidate.
Rescored(facts, check) == State(facts, check, Risk(facts, check), TokenOnly(facts))

\* How much a state says for a candidate.
Rank(state) ==
    CASE state = "REJECT"    -> 0
      [] state = "STALE"     -> 1
      [] state = "RADAR"     -> 2
      [] state = "QUALIFIED" -> 3
      [] state = "HOT"       -> 4
=============================================================================
