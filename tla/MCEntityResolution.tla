------------------------- MODULE MCEntityResolution -------------------------
(* Small instances of EntityResolution for TLC. *)
EXTENDS EntityResolution

CONSTANTS n1, n2, s1, s2, eip1, eip2, g1, g2, g3, testnet, mainnet,
    MaxResolved     \* bound: review tasks resolved in one behaviour

Obs(name, slug, domains, githubs, chain, env, genesis, rpc) ==
    [name |-> name, slug |-> slug, domains |-> domains, githubs |-> githubs,
     chain |-> chain, env |-> env, genesis |-> genesis, rpc |-> rpc]

\* Two projects, an announcement that ties their domains together, a registry
\* entry without identifiers, a repository known by its GitHub organization, a
\* changed chain ID and a replayed genesis.
IdentityObservations ==
    { Obs(n1, s1, <<1>>,    <<>>,  eip1, testnet, None, FALSE),
      Obs(n1, s1, <<2>>,    <<>>,  eip1, testnet, None, FALSE),
      Obs(n2, s2, <<2, 1>>, <<1>>, None, testnet, None, FALSE),
      Obs(n1, s1, <<>>,     <<>>,  eip1, testnet, None, FALSE),
      Obs(n2, s2, <<>>,     <<1>>, eip2, testnet, None, FALSE),
      Obs(n1, s1, <<1>>,    <<>>,  eip2, testnet, None, FALSE),
      Obs(n2, s1, <<2>>,    <<>>,  eip1, mainnet, g1, TRUE) }

\* One project whose testnet is reset, by endpoints and by a source that
\* publishes a genesis, and whose mainnet is re-announced with another genesis.
ResetObservations ==
    { Obs(n1, s1, <<1>>, <<>>, eip1, testnet, None, TRUE),
      Obs(n1, s1, <<1>>, <<>>, eip1, testnet, g2, FALSE),
      Obs(n1, s1, <<1>>, <<>>, eip1, mainnet, g1, FALSE),
      Obs(n1, s1, <<1>>, <<>>, eip1, mainnet, g3, FALSE) }

AllObservations == IdentityObservations \cup ResetObservations

\* The two feeds are explored one at a time: identities without resets and
\* decisions, and resets with an analyst who resolves tasks.
Feeds == { [obs |-> IdentityObservations, genesis |-> {g1}, resolved |-> 0],
           [obs |-> ResetObservations, genesis |-> {g1, g2, g3}, resolved |-> MaxResolved] }

\* State constraints: few decisions; every explored state belongs to one of the feeds.
FewResolved == Cardinality({row \in tasks : row[4] = "resolved"}) <= MaxResolved

OneFeed ==
    \E feed \in Feeds :
        /\ {l[1] : l \in links} \subseteq feed.obs
        /\ {g \in Genesis : \E n \in nets : incStatus[n][g] # "none"} \subseteq feed.genesis
        /\ Cardinality({row \in tasks : row[4] = "resolved"}) <= feed.resolved
=============================================================================
