------------------------------ MODULE Adapters ------------------------------
(***************************************************************************)
(* One read-only probe of an endpoint, per protocol family: what the       *)
(* family's adapter makes of the node's answers and what the engine keeps. *)
(*                                                                         *)
(* node is [id, genesis, head]: what the node answers to the three         *)
(* questions, a value, Missing (an answer without it) or Failed (an error, *)
(* a timeout).  Methods, paths and the decoding of numbers are left out.   *)
(***************************************************************************)
EXTENDS Integers

CONSTANTS Missing, Failed

Families == {"evm", "cosmos", "substrate", "svm", "starknet", "aptos", "sui", "fuel"}

NoHeight == -1

\* An exception and an absent field come to the same.
Served(answer) == IF answer = Failed THEN Missing ELSE answer

Or(answer, default) == IF answer = Missing THEN default ELSE answer

\* identity(): the chain id and the genesis it brings along; Failed when the
\* question it depends on raises.  An id that is not reported is given a name.
EVMIdentity(node) ==
    IF node.id = Failed THEN Failed
    ELSE [id |-> Or(node.id, "None"), genesis |-> Served(node.genesis)]

StarknetIdentity(node) == EVMIdentity(node)

CosmosIdentity(node) ==
    IF node.id = Failed THEN Failed ELSE [id |-> Or(node.id, "unknown"), genesis |-> Missing]

AptosIdentity(node) == CosmosIdentity(node)

FuelIdentity(node) ==
    IF node.id = Failed THEN Failed ELSE [id |-> Or(node.id, "0"), genesis |-> Missing]

\* The genesis hash names the chain, the system's chain name only without one.
SubstrateIdentity(node) ==
    IF node.id = Failed THEN Failed
    ELSE [id |-> Or(Served(node.genesis), Or(node.id, "None")), genesis |-> Served(node.genesis)]

SVMIdentity(node) ==
    IF node.genesis = Failed THEN Failed
    ELSE [id |-> Or(node.genesis, "unknown"), genesis |-> node.genesis]

\* The chain's identifier is its genesis, also when it is not reported.
SuiIdentity(node) ==
    IF node.id = Failed THEN Failed
    ELSE [id |-> Or(node.id, "unknown"), genesis |-> Or(node.id, "unknown")]

Identity(family, node) ==
    CASE family = "evm"       -> EVMIdentity(node)
      [] family = "starknet"  -> StarknetIdentity(node)
      [] family = "cosmos"    -> CosmosIdentity(node)
      [] family = "aptos"     -> AptosIdentity(node)
      [] family = "fuel"      -> FuelIdentity(node)
      [] family = "substrate" -> SubstrateIdentity(node)
      [] family = "svm"       -> SVMIdentity(node)
      [] family = "sui"       -> SuiIdentity(node)

\* genesis(): cosmos gives the chain id, aptos, sui and fuel a name of their own
\* when block 0 has no hash.
Genesis(family, node) ==
    CASE family \in {"evm", "starknet", "substrate", "svm"} -> Served(node.genesis)
      [] family = "cosmos" -> IF node.genesis = Failed THEN Missing ELSE Served(node.id)
      [] family = "aptos"  -> IF node.genesis = Failed THEN Missing ELSE Or(node.genesis, "aptos_genesis")
      [] family = "sui"    -> IF node.genesis = Failed THEN Missing ELSE Or(node.genesis, "sui_genesis")
      [] family = "fuel"   -> IF node.genesis = Failed THEN Missing ELSE Or(node.genesis, "fuel_genesis")

\* head(): int(None) raises, the other adapters take 0 for a height that is left
\* out.
Height(family, node) ==
    IF node.head = Failed THEN NoHeight
    ELSE Or(node.head, IF family \in {"svm", "starknet", "sui"} THEN NoHeight ELSE 0)

\* probe_endpoint: without an identity there is no result; the head and the
\* genesis may be lacking.
Probe(family, node) ==
    LET identity == Identity(family, node)
    IN  IF identity = Failed
        THEN [ok |-> FALSE, id |-> Missing, genesis |-> Missing, height |-> NoHeight]
        ELSE [ok |-> TRUE, id |-> identity.id,
              genesis |-> Or(identity.genesis, Genesis(family, node)),
              height  |-> Height(family, node)]

\* Mutant: the chain id alone.
FingerprintOfId(probe) == <<probe.id, "">>

\* identity_fingerprint: "a chain ID alone is reusable".
Fingerprint(probe) == <<probe.id, probe.genesis>>
=============================================================================
