--------------------------- MODULE MCScoreLedger ---------------------------
(* Small instances of ScoreLedger for TLC. *)
EXTENDS ScoreLedger, TLC

CONSTANTS i1, c1, n1, f1, a1, a2, o1

Ev(family, source) == [family |-> family, source |-> source, age |-> 0]

\* A public testnet with a claim on Africa: HOT, and QUALIFIED on less evidence.
Strong ==
    [domain |-> TRUE, repo |-> TRUE, social |-> FALSE, pr |-> TRUE, merged |-> FALSE,
     network |-> TRUE, rpc |-> TRUE, genesis |-> TRUE, fingerprint |-> TRUE,
     collision |-> FALSE, testnet |-> TRUE, announced |-> FALSE, live |-> FALSE,
     token |-> FALSE, stage |-> "S2", africa |-> 70, label |-> "A1",
     events |-> {Ev("registry", "ethereum_lists"), Ev("careers", "ats")}]
Weak == [Strong EXCEPT !.events = {Ev("registry", "ethereum_lists")}, !.stage = "S1",
                       !.repo = FALSE, !.pr = FALSE]

Candidates == {Strong, Weak}
Lower      == {[label |-> "A3", africa |-> 20]}
Contacted  == {"CONTACTED", "REJECTED"}

KindOfAll == i1 :> "ingest" @@ c1 :> "recheck" @@ n1 :> "nightly"
              @@ f1 :> "funding" @@ a1 :> "transition" @@ a2 :> "transition" @@ o1 :> "override"

\* Sessions of every kind one after the other; the four that matter most to
\* each other at once; two analysts at once.
InTurn  == [sessions |-> {i1, c1, n1, f1, a1, o1}, serial |-> TRUE, inline |-> TRUE]
AtOnce  == [sessions |-> {i1, c1, n1, a1}, serial |-> FALSE, inline |-> FALSE]
Review  == [sessions |-> {f1, a1, a2}, serial |-> FALSE, inline |-> FALSE]
All     == {InTurn, AtOnce, Review}
Analyst == {[sessions |-> {i1, a1}, serial |-> FALSE, inline |-> FALSE]}

ASSUME BothStatesAssumption ==
    {Rescored(p, NoCheck) : p \in Candidates} = {"HOT", "QUALIFIED"}
=============================================================================
