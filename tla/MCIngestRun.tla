---------------------------- MODULE MCIngestRun ----------------------------
(* Small instances of IngestRun for TLC. *)
EXTENDS IngestRun, TLC

CONSTANTS r1, r2, e1, e2, e3, c1, c2, c3, c4

It(id, content) == [id |-> id, content |-> content]

\* Two events, the first of them bad; then the registry lists a changed, the bad
\* and a new one, so that overlapping runs may want each other's keys.
TwoVersions == << <<It(e3, c3), It(e1, c1)>>, <<It(e1, c4), It(e3, c3), It(e2, c2)>> >>

\* A scheduled job, and a run that an operator starts by hand.
JobAndOperator == r1 :> {"job"} @@ r2 :> {"trigger", "scan"}
Scans          == [r \in Runs |-> {"scan"}]
Collected      == {EthereumLists, ChainIdNetwork, RecentlyFunded}
Entries        == {ChainIdNetwork}
BadItem        == {It(e3, c3)}
=============================================================================
