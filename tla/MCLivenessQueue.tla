-------------------------- MODULE MCLivenessQueue --------------------------
(* Small instances of LivenessQueue for TLC. *)
EXTENDS LivenessQueue, TLC

CONSTANTS e1, e2, c1, c2, c3, n1, g1, g2

\* c1 and c2 publish the same endpoint; a chain of the same id and another
\* genesis may turn up behind it.
Shared == c1 :> e1 @@ c2 :> e1 @@ c3 :> e2
Launch == [id |-> n1, genesis |-> g1]
Reborn == [id |-> n1, genesis |-> g2]
Behind == e1 :> {Launch, Reborn} @@ e2 :> {Launch}
Claims == c1 :> n1 @@ c2 :> n1 @@ c3 :> NoId
Kinds == e1 :> {"evm"} @@ e2 :> {"sui"}

ASSUME Premises == ToldApart /\ IdsAlike

Nodes == [id: {n1, Missing, Failed}, genesis: {g1, Missing, Failed}, head: {1, Missing, Failed}]

\* Every family's probe of every node is one that can be recorded.
ASSUME ProbesTyped ==
    \A f \in Families, node \in Nodes :
        LET probe == Probe(f, node)
        IN  /\ probe.ok => probe.id \notin {Missing, Failed}
            /\ probe.genesis # Failed
            /\ probe.height \in {NoHeight, 0, 1}
=============================================================================
