------------------------------ MODULE MCDossier ------------------------------
(* Small instances of Dossier for TLC. *)
EXTENDS Dossier

Blank ==
    [source |-> "", words |-> {}, entry |-> FALSE, active |-> FALSE, test |-> FALSE,
     id |-> FALSE, rpc |-> FALSE, site |-> FALSE, owner |-> FALSE, link |-> FALSE,
     created |-> NoDate, merged |-> NoDate, stage |-> "S0", announced |-> NoDate,
     item |-> [id |-> 1, content |-> 1], text |-> NoText]

Doc(source, n) == [Blank EXCEPT !.source = source, !.item = [id |-> n, content |-> n]]

Hiring  == [NoText EXCEPT !.country = TRUE, !.launch = TRUE]
Lagos   == [NoText EXCEPT !.country = TRUE, !.uses = 3]
Unclear == [NoText EXCEPT !.ambiguous = TRUE, !.areas = {"region"}, !.program = TRUE]
Rails   == [NoText EXCEPT !.areas = {"panafrica"}, !.currency = TRUE, !.rail = TRUE, !.languages = 2]

Seed == [verb |-> TRUE, amount |-> 5, usd |-> TRUE, round |-> "seed", investors |-> FALSE]

\* Three articles on one raise: two of one day, one without a date.
News == {[id |-> 1, date |-> 0, sentences |-> {Seed, [Seed EXCEPT !.investors = TRUE]}],
         [id |-> 2, date |-> 0, sentences |-> {Seed, [Seed EXCEPT !.amount = 0, !.round = Undisclosed]}],
         [id |-> 3, date |-> NoDate, sentences |-> {Seed}]}

Listing == [source |-> "funding_enricher", id |-> 1, what |-> <<"seed", 5>>, date |-> 0]

Told(docs, raises, news) == [docs |-> docs, raises |-> raises, news |-> news, days |-> {0, 21, 42}]

\* Known by name alone: a pull request in two versions and a job.
Submitted ==
    LET pr == [Doc("ethereum_lists", 1) EXCEPT !.created = 0, !.id = TRUE, !.text = Lagos]
    IN  Told({pr, [pr EXCEPT !.item.content = 2, !.merged = 0, !.rpc = TRUE,
                             !.words = {"testnet"}, !.text = Hiring],
              [Doc("ats_job_boards", 1) EXCEPT !.link = TRUE, !.text = Hiring]}, {}, {})

Rumoured ==
    Told({[Doc("bluesky_jetstream", 1) EXCEPT !.text = Unclear], Doc("indexer_changelogs", 1),
          [Doc("superchain_registry", 1) EXCEPT !.created = 0, !.text = Unclear]}, {}, {})

\* Known by its domain: a funded chain in two versions and an article, then a
\* chain that its registry lists and that raised.
Announced ==
    LET row == [Doc("recent_funded_chains", 1) EXCEPT !.site = TRUE, !.rpc = TRUE,
                        !.stage = "S4", !.announced = 0]
    IN  Told({row, [row EXCEPT !.item.content = 2, !.stage = "S2"],
              [Doc("web_news_search", 1) EXCEPT !.site = TRUE, !.text = Hiring]}, {}, {})

Entered ==
    Told({[Doc("chainid_network", 1) EXCEPT !.site = TRUE, !.id = TRUE, !.active = TRUE, !.rpc = TRUE,
                                          !.text = Rails],
          [Doc("github_hyper_search", 1) EXCEPT !.owner = TRUE, !.site = TRUE, !.created = 0]},
         {Listing}, {})

\* An announced chain goes live; beside it its registry's entry.
Launched ==
    LET row == [Doc("recent_funded_chains", 1) EXCEPT !.site = TRUE, !.rpc = TRUE, !.announced = 0]
    IN  Told({[Doc("cosmos_chain_registry", 1) EXCEPT !.entry = TRUE, !.site = TRUE, !.rpc = TRUE],
              [row EXCEPT !.stage = "S4"],
              [row EXCEPT !.stage = "S5", !.item.content = 2, !.words = {"mainnet"}]}, {}, {})

Listed ==
    Told({Doc("caip_namespaces", 1), [Doc("axelar_configs", 1) EXCEPT !.id = TRUE],
          [Doc("hyperlane_registry", 1) EXCEPT !.id = TRUE, !.merged = 0],
          [Doc("blockscout_chainscout", 1) EXCEPT !.words = {"mainnet"}, !.rpc = TRUE]}, {}, {})

\* What is known of it is its news.
Funded == Told({[Doc("rss_sitemaps", 1) EXCEPT !.text = Rails]}, {}, News)

\* A chain that goes live, and raises when it has been live for more than half a
\* year.
Matured ==
    [Told({doc \in Launched.docs : doc.stage = "S5" \/ doc.source = "cosmos_chain_registry"},
          {Listing}, {})
     EXCEPT !.days = {0, 91, 182}]

AllTold == {Submitted, Rumoured, Announced, Entered, Launched, Listed, Funded, Matured}

Reviews == {[label |-> "A4", total |-> 0], [label |-> "A5", total |-> 80]}
=============================================================================
