----------------------------- MODULE Collectors -----------------------------
(***************************************************************************)
(* What the collectors make of their sources: how each of them fetches     *)
(* (its source family, whether it sends the stored etag, what the external *)
(* id of an item is made of, whether it swallows its own errors) and what  *)
(* its normalize reads in a document.                                      *)
(*                                                                         *)
(* A document is [source, words, entry, active, test, id, rpc, site, owner,*)
(* link, created, merged, stage, announced]: the words its text has, then  *)
(* for a chain entry of a registry (entry) its status, test network and    *)
(* fields, and the dates it gives, in days.  Names, hosts and texts are    *)
(* left out.  The documents of one story speak of one namespace.           *)
(***************************************************************************)
EXTENDS Integers, FiniteSets

NoDate == -1

\* The external id of an item is its "id", its id and "version", or a hash of
\* its "content".
Source(id, family, etag, key, swallows) ==
    [id |-> id, family |-> family, etag |-> etag, key |-> key, swallows |-> swallows]

\* A page of pull requests, the newest updates first.
PullRequests(id) == Source(id, "registry", TRUE, "version", TRUE)

-----------------------------------------------------------------------------
(* Fetches *)

EthereumLists   == PullRequests("ethereum_lists")
Superchain      == PullRequests("superchain_registry")
CosmosRegistry  == PullRequests("cosmos_chain_registry")
Blockscout      == PullRequests("blockscout_chainscout")
Hyperlane       == PullRequests("hyperlane_registry")
Axelar          == PullRequests("axelar_configs")
CAIPNamespaces  == PullRequests("caip_namespaces")
ChainIdNetwork  == Source("chainid_network", "registry", TRUE, "id", TRUE)
Indexers        == Source("indexer_changelogs", "infrastructure", FALSE, "id", TRUE)
GitHubSearch    == Source("github_hyper_search", "code", FALSE, "version", TRUE)
RSSFeeds        == Source("rss_sitemaps", "web", FALSE, "content", TRUE)
WebSearch       == Source("web_news_search", "web", FALSE, "content", TRUE)
JobBoards       == Source("ats_job_boards", "careers", FALSE, "content", TRUE)
Bluesky         == Source("bluesky_jetstream", "social", FALSE, "content", TRUE)
RecentlyFunded  == Source("recent_funded_chains", "registry", FALSE, "content", FALSE)

\* Mutant: the update time is left out of the id.
IdOfPull(source, item) == IF source.key = "content" THEN item.content ELSE item.id

\* external_id.
ExternalId(source, item) ==
    CASE source.key = "id"      -> item.id
      [] source.key = "version" -> <<item.id, item.content>>
      [] source.key = "content" -> item.content

-----------------------------------------------------------------------------
(* What the documents say *)

\* domain, repo: the organization's anchors; created: the repository's;
\* announces: the claim mainnet_announced_for is there, with or without a date;
\* since: the earliest date of the claims that date nothing else.
Observed(source, stage, env) ==
    [source |-> source.id, family |-> source.family, stage |-> stage, env |-> env,
     id |-> FALSE, rpc |-> FALSE, domain |-> FALSE, repo |-> FALSE, contact |-> FALSE,
     text |-> TRUE, created |-> NoDate, opened |-> NoDate, merged |-> NoDate,
     testnet |-> NoDate, announces |-> FALSE, announced |-> NoDate, live |-> NoDate,
     since |-> NoDate]

\* The word in the text of a testnet's document makes it a mainnet's.
OrMainnet(doc, obs) ==
    IF "mainnet" \in doc.words THEN [obs EXCEPT !.stage = "S4", !.env = "mainnet"] ELSE obs

\* Chain id and endpoints found in the text of a pull request.
Submission(source, doc, stage) ==
    OrMainnet(doc, [Observed(source, stage, "testnet") EXCEPT !.id = doc.id, !.rpc = doc.rpc])

\* registry_pr_opened_at and registry_merged_at.
Dated(doc, obs) == [obs EXCEPT !.opened = doc.created, !.merged = doc.merged]

EthereumEntry(doc) ==
    LET obs == [Observed(EthereumLists, "S1", "testnet") EXCEPT
                    !.id = doc.id, !.rpc = doc.rpc, !.domain = doc.site]
    IN  IF doc.active \/ "mainnet" \in doc.words THEN [obs EXCEPT !.stage = "S4", !.env = "mainnet"]
        ELSE IF doc.words \cap {"testnet", "sepolia", "devnet"} # {} THEN [obs EXCEPT !.stage = "S2"]
        ELSE obs

EthereumListsReads(doc) ==
    IF doc.entry THEN EthereumEntry(doc)
    ELSE Dated(doc, Submission(EthereumLists, doc, IF "testnet" \in doc.words THEN "S2" ELSE "S1"))

SuperchainReads(doc) == Dated(doc, Submission(Superchain, doc, "S2"))

CosmosEntry(doc) ==
    LET test == doc.test \/ "testnet" \in doc.words
    IN  [Observed(CosmosRegistry, IF test THEN "S2" ELSE "S5", IF test THEN "testnet" ELSE "mainnet")
            EXCEPT !.id = doc.id, !.rpc = doc.rpc, !.domain = doc.site]

CosmosReads(doc) ==
    IF doc.entry THEN CosmosEntry(doc) ELSE Dated(doc, Submission(CosmosRegistry, doc, "S2"))

BlockscoutReads(doc) == Submission(Blockscout, doc, "S2")

\* The CAIP-2 id is only built for the EVM, but the plain chain id is kept.
HyperlaneReads(doc) == Submission(Hyperlane, doc, "S2")

AxelarReads(doc) == Submission(Axelar, doc, "S2")

CAIPReads(doc) == Observed(CAIPNamespaces, "S0", "devnet")

ChainIdReads(doc) ==
    LET obs == [Observed(ChainIdNetwork, "S2", "testnet") EXCEPT
                    !.id = doc.id, !.rpc = doc.rpc, !.domain = doc.site]
    IN  IF doc.active \/ "mainnet" \in doc.words THEN [obs EXCEPT !.stage = "S4", !.env = "mainnet"] ELSE obs

IndexersReads(doc) == Observed(Indexers, "S5", "mainnet")

\* The repository's owner is an anchor, and its homepage.
GitHubReads(doc) ==
    LET obs == [Observed(GitHubSearch, "S1", "devnet") EXCEPT
                    !.repo = doc.owner, !.domain = doc.site, !.created = doc.created]
    IN  IF "mainnet" \in doc.words THEN [obs EXCEPT !.stage = "S4", !.env = "mainnet"]
        ELSE IF "incentivized" \in doc.words THEN [obs EXCEPT !.stage = "S3", !.env = "testnet"]
        ELSE IF "testnet" \in doc.words THEN [obs EXCEPT !.stage = "S2", !.env = "testnet"]
        ELSE obs

\* The domain is the one of the entry's link.
RSSReads(doc) == OrMainnet(doc, [Observed(RSSFeeds, "S2", "testnet") EXCEPT !.domain = doc.site])

WebSearchReads(doc) == [Observed(WebSearch, "S0", "testnet") EXCEPT !.domain = doc.site]

JobBoardReads(doc) == [Observed(JobBoards, "S1", "testnet") EXCEPT !.contact = doc.link]

BlueskyReads(doc) == Observed(Bluesky, "S0", "testnet")

\* A row of the table of funded chains has no text; the date of its funding
\* dates the stage it is listed with.
FundedReads(doc) ==
    [Observed(RecentlyFunded, doc.stage, IF "mainnet" \in doc.words THEN "mainnet" ELSE "testnet") EXCEPT
        !.id = TRUE, !.rpc = doc.rpc, !.domain = doc.site, !.text = FALSE,
        !.testnet   = IF doc.stage \in {"S2", "S3"} THEN doc.announced ELSE NoDate,
        !.announces = TRUE,
        !.announced = IF doc.stage = "S4" THEN doc.announced ELSE NoDate,
        !.live      = IF doc.stage \in {"S5", "S6"} THEN doc.announced ELSE NoDate,
        !.since     = doc.announced]

\* normalize of the document's collector.
Reads(doc) ==
    CASE doc.source = "ethereum_lists" -> EthereumListsReads(doc)
      [] doc.source = "superchain_registry" -> SuperchainReads(doc)
      [] doc.source = "cosmos_chain_registry" -> CosmosReads(doc)
      [] doc.source = "blockscout_chainscout" -> BlockscoutReads(doc)
      [] doc.source = "hyperlane_registry" -> HyperlaneReads(doc)
      [] doc.source = "axelar_configs" -> AxelarReads(doc)
      [] doc.source = "caip_namespaces" -> CAIPReads(doc)
      [] doc.source = "chainid_network" -> ChainIdReads(doc)
      [] doc.source = "indexer_changelogs" -> IndexersReads(doc)
      [] doc.source = "github_hyper_search" -> GitHubReads(doc)
      [] doc.source = "rss_sitemaps" -> RSSReads(doc)
      [] doc.source = "web_news_search" -> WebSearchReads(doc)
      [] doc.source = "ats_job_boards" -> JobBoardReads(doc)
      [] doc.source = "bluesky_jetstream" -> BlueskyReads(doc)
      [] doc.source = "recent_funded_chains" -> FundedReads(doc)
=============================================================================
