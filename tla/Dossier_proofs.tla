--------------------------- MODULE Dossier_proofs ---------------------------
(***************************************************************************)
(* Proofs about Dossier, for every set of stories, every length of time    *)
(* and every set of decisions.                                             *)
(***************************************************************************)
EXTENDS Dossier, Scoring_proofs, WellFoundedInduction

-----------------------------------------------------------------------------
(* What the collectors read *)

SourceIds ==
    {"ethereum_lists", "superchain_registry", "cosmos_chain_registry", "blockscout_chainscout",
     "hyperlane_registry", "axelar_configs", "caip_namespaces", "chainid_network",
     "indexer_changelogs", "github_hyper_search", "rss_sitemaps", "web_news_search",
     "ats_job_boards", "bluesky_jetstream", "recent_funded_chains"}

Observation ==
    [source: {s.id : s \in AllSources}, family: {s.family : s \in AllSources}, stage: Stages, env: Envs, id: BOOLEAN, rpc: BOOLEAN,
     domain: BOOLEAN, repo: BOOLEAN, contact: BOOLEAN, text: BOOLEAN, created: Date,
     opened: Date, merged: Date, testnet: Date, announces: BOOLEAN, announced: Date,
     live: Date, since: Date]

LEMMA IdsOfSources == {s.id : s \in AllSources} = SourceIds
BY DEF AllSources, SourceIds, Source, PullRequests, EthereumLists, Superchain, CosmosRegistry,
       Blockscout, Hyperlane, Axelar, CAIPNamespaces, ChainIdNetwork, Indexers, GitHubSearch,
       RSSFeeds, WebSearch, JobBoards, Bluesky, RecentlyFunded

LEMMA DocumentParts ==
    ASSUME NEW doc \in Documents
    PROVE  /\ doc.source \in SourceIds
           /\ doc.active \in BOOLEAN /\ doc.test \in BOOLEAN /\ doc.id \in BOOLEAN
           /\ doc.rpc \in BOOLEAN /\ doc.site \in BOOLEAN /\ doc.owner \in BOOLEAN
           /\ doc.link \in BOOLEAN
           /\ doc.created \in Date /\ doc.merged \in Date /\ doc.announced \in Date
           /\ doc.stage \in Stages
           /\ doc.text \in Text
<1>1. doc \in Document
  BY DossierAssumption
<1> QED
  BY <1>1, IdsOfSources DEF Document

LEMMA ObservedType ==
    ASSUME NEW s \in AllSources, NEW stage \in Stages, NEW env \in Envs
    PROVE  Observed(s, stage, env) \in Observation
BY DEF Observed, Observation, Date

LEMMA PlacedType ==
    ASSUME NEW obs \in Observation, NEW stage \in Stages, NEW env \in Envs
    PROVE  /\ [obs EXCEPT !.stage = stage, !.env = env] \in Observation
           /\ [obs EXCEPT !.stage = stage] \in Observation
<1>1. [obs EXCEPT !.stage = stage, !.env = env] \in Observation
  BY DEF Observation
<1>2. [obs EXCEPT !.stage = stage] \in Observation
  BY DEF Observation
<1> QED
  BY <1>1, <1>2

\* Chain id, endpoints and site as a document has them.
LEMMA AnchoredType ==
    ASSUME NEW obs \in Observation, NEW doc \in Documents
    PROVE  [obs EXCEPT !.id = doc.id, !.rpc = doc.rpc, !.domain = doc.site] \in Observation
<1>1. doc.id \in BOOLEAN /\ doc.rpc \in BOOLEAN /\ doc.site \in BOOLEAN
  BY DocumentParts
<1>2. [obs EXCEPT !.id = doc.id] \in Observation
  BY <1>1 DEF Observation
<1>3. [obs EXCEPT !.id = doc.id, !.rpc = doc.rpc] \in Observation
  BY <1>1, <1>2 DEF Observation
<1> QED
  BY <1>1, <1>3 DEF Observation

LEMMA OrMainnetType ==
    ASSUME NEW doc, NEW obs \in Observation
    PROVE  OrMainnet(doc, obs) \in Observation
<1>1. "S4" \in Stages /\ "mainnet" \in Envs
  BY DEF Stages, Envs
<1> QED
  BY <1>1, PlacedType DEF OrMainnet

LEMMA DatedType ==
    ASSUME NEW doc \in Documents, NEW obs \in Observation
    PROVE  Dated(doc, obs) \in Observation
BY DocumentParts DEF Dated, Observation

LEMMA SubmissionType ==
    ASSUME NEW s \in AllSources, NEW doc \in Documents, NEW stage \in Stages
    PROVE  Submission(s, doc, stage) \in Observation
<1>1. "testnet" \in Envs
  BY DEF Envs
<1>2. Observed(s, stage, "testnet") \in Observation
  BY <1>1, ObservedType
<1>3. [Observed(s, stage, "testnet") EXCEPT !.id = doc.id, !.rpc = doc.rpc] \in Observation
  BY <1>2, DocumentParts DEF Observation
<1> QED
  BY <1>3, OrMainnetType DEF Submission

LEMMA ReadsType ==
    ASSUME NEW doc \in Documents
    PROVE  Reads(doc) \in Observation
<1>s. Stages = {"S0", "S1", "S2", "S3", "S4", "S5", "S6"} /\ Envs = {"mainnet", "testnet", "devnet"}
  BY DEF Stages, Envs
<1>a. \A s \in AllSources, stage \in Stages, env \in Envs : Observed(s, stage, env) \in Observation
  BY ObservedType
<1>b. \A s \in AllSources, stage \in Stages : Submission(s, doc, stage) \in Observation
  BY SubmissionType
<1>c. \A obs \in Observation : Dated(doc, obs) \in Observation /\ OrMainnet(doc, obs) \in Observation
  BY DatedType, OrMainnetType
<1>d. /\ {EthereumLists, Superchain, CosmosRegistry, Blockscout, Hyperlane, Axelar} \subseteq AllSources
      /\ {CAIPNamespaces, ChainIdNetwork, Indexers, GitHubSearch, RSSFeeds} \subseteq AllSources
      /\ {WebSearch, JobBoards, Bluesky, RecentlyFunded} \subseteq AllSources
  BY DEF AllSources
<1>1. EthereumListsReads(doc) \in Observation
  <2>1. Observed(EthereumLists, "S1", "testnet") \in Observation
    BY <1>s, <1>a, <1>d
  <2>2. EthereumEntry(doc) \in Observation
    <3> DEFINE o == [Observed(EthereumLists, "S1", "testnet") EXCEPT
                        !.id = doc.id, !.rpc = doc.rpc, !.domain = doc.site]
    <3>1. o \in Observation
      BY <2>1, AnchoredType
    <3>2. EthereumEntry(doc) \in {o, [o EXCEPT !.stage = "S2"], [o EXCEPT !.stage = "S4", !.env = "mainnet"]}
      BY DEF EthereumEntry
    <3> HIDE DEF o
    <3>3. /\ [o EXCEPT !.stage = "S2"] \in Observation
          /\ [o EXCEPT !.stage = "S4", !.env = "mainnet"] \in Observation
      BY <1>s, <3>1, PlacedType
    <3> QED
      BY <3>1, <3>2, <3>3
  <2>3. Submission(EthereumLists, doc, IF "testnet" \in doc.words THEN "S2" ELSE "S1") \in Observation
    BY <1>s, <1>b, <1>d
  <2> QED
    BY <2>2, <2>3, <1>c DEF EthereumListsReads
<1>2. SuperchainReads(doc) \in Observation
  BY <1>s, <1>b, <1>c, <1>d DEF SuperchainReads
<1>3. CosmosReads(doc) \in Observation
  <2>1. \A stage \in Stages, env \in Envs : Observed(CosmosRegistry, stage, env) \in Observation
    BY <1>a, <1>d
  <2>2. CosmosEntry(doc) \in Observation
    <3> DEFINE test == doc.test \/ "testnet" \in doc.words
    <3>1. Observed(CosmosRegistry, IF test THEN "S2" ELSE "S5", IF test THEN "testnet" ELSE "mainnet")
            \in Observation
      BY <1>s, <2>1
    <3>2. CosmosEntry(doc) =
            [Observed(CosmosRegistry, IF test THEN "S2" ELSE "S5", IF test THEN "testnet" ELSE "mainnet")
                EXCEPT !.id = doc.id, !.rpc = doc.rpc, !.domain = doc.site]
      BY DEF CosmosEntry
    <3>3. PICK o : o = Observed(CosmosRegistry, IF test THEN "S2" ELSE "S5", IF test THEN "testnet" ELSE "mainnet")
      OBVIOUS
    <3>4. o \in Observation /\ CosmosEntry(doc) = [o EXCEPT !.id = doc.id, !.rpc = doc.rpc, !.domain = doc.site]
      BY <3>1, <3>2, <3>3
    <3> QED
      BY <3>4, AnchoredType
  <2> QED
    BY <1>s, <1>b, <1>c, <1>d, <2>2 DEF CosmosReads
<1>4. /\ BlockscoutReads(doc) \in Observation
      /\ HyperlaneReads(doc) \in Observation
      /\ AxelarReads(doc) \in Observation
  BY <1>s, <1>b, <1>d DEF BlockscoutReads, HyperlaneReads, AxelarReads
<1>5. CAIPReads(doc) \in Observation /\ IndexersReads(doc) \in Observation /\ BlueskyReads(doc) \in Observation
  BY <1>s, <1>a, <1>d DEF CAIPReads, IndexersReads, BlueskyReads
<1>6. ChainIdReads(doc) \in Observation
  <2>1. Observed(ChainIdNetwork, "S2", "testnet") \in Observation
    BY <1>s, <1>a, <1>d
  <2> DEFINE o == [Observed(ChainIdNetwork, "S2", "testnet") EXCEPT
                      !.id = doc.id, !.rpc = doc.rpc, !.domain = doc.site]
  <2>2. o \in Observation
    BY <2>1, AnchoredType
  <2>3. ChainIdReads(doc) \in {o, [o EXCEPT !.stage = "S4", !.env = "mainnet"]}
    BY DEF ChainIdReads
  <2> HIDE DEF o
  <2>4. [o EXCEPT !.stage = "S4", !.env = "mainnet"] \in Observation
    BY <1>s, <2>2, PlacedType
  <2> QED
    BY <2>2, <2>3, <2>4
<1>7. GitHubReads(doc) \in Observation
  <2>1. Observed(GitHubSearch, "S1", "devnet") \in Observation
    BY <1>s, <1>a, <1>d
  <2> DEFINE o == [Observed(GitHubSearch, "S1", "devnet") EXCEPT
                      !.repo = doc.owner, !.domain = doc.site, !.created = doc.created]
  <2>2. o \in Observation
    BY <2>1, DocumentParts DEF Observation
  <2>3. GitHubReads(doc) \in {o, [o EXCEPT !.stage = "S4", !.env = "mainnet"],
                                 [o EXCEPT !.stage = "S3", !.env = "testnet"],
                                 [o EXCEPT !.stage = "S2", !.env = "testnet"]}
    BY DEF GitHubReads
  <2> HIDE DEF o
  <2>4. /\ [o EXCEPT !.stage = "S4", !.env = "mainnet"] \in Observation
        /\ [o EXCEPT !.stage = "S3", !.env = "testnet"] \in Observation
        /\ [o EXCEPT !.stage = "S2", !.env = "testnet"] \in Observation
    BY <1>s, <2>2, PlacedType
  <2> QED
    BY <2>2, <2>3, <2>4
<1>8. RSSReads(doc) \in Observation
  <2>1. Observed(RSSFeeds, "S2", "testnet") \in Observation
    BY <1>s, <1>a, <1>d
  <2>2. [Observed(RSSFeeds, "S2", "testnet") EXCEPT !.domain = doc.site] \in Observation
    BY <2>1, DocumentParts DEF Observation
  <2> QED
    BY <2>2, <1>c DEF RSSReads
<1>9. WebSearchReads(doc) \in Observation
  <2>1. Observed(WebSearch, "S0", "testnet") \in Observation
    BY <1>s, <1>a, <1>d
  <2> QED
    BY <2>1, DocumentParts DEF WebSearchReads, Observation
<1>10. JobBoardReads(doc) \in Observation
  <2>1. Observed(JobBoards, "S1", "testnet") \in Observation
    BY <1>s, <1>a, <1>d
  <2> QED
    BY <2>1, DocumentParts DEF JobBoardReads, Observation
<1>11. FundedReads(doc) \in Observation
  <2>1. \A env \in Envs : Observed(RecentlyFunded, doc.stage, env) \in Observation
    BY <1>a, <1>d, DocumentParts
  <2>2. NoDate \in Date
    BY DEF Date
  <2>3. Observed(RecentlyFunded, doc.stage, IF "mainnet" \in doc.words THEN "mainnet" ELSE "testnet")
          \in Observation
    BY <1>s, <2>1
  <2> DEFINE o == Observed(RecentlyFunded, doc.stage, IF "mainnet" \in doc.words THEN "mainnet" ELSE "testnet")
             testnet   == IF doc.stage \in {"S2", "S3"} THEN doc.announced ELSE NoDate
             announced == IF doc.stage = "S4" THEN doc.announced ELSE NoDate
             live      == IF doc.stage \in {"S5", "S6"} THEN doc.announced ELSE NoDate
  <2>4. testnet \in Date /\ announced \in Date /\ live \in Date
    BY <2>2, DocumentParts
  <2>5. FundedReads(doc) = [o EXCEPT !.id = TRUE, !.rpc = doc.rpc, !.domain = doc.site, !.text = FALSE,
                                     !.testnet = testnet, !.announces = TRUE, !.announced = announced,
                                     !.live = live, !.since = doc.announced]
    BY DEF FundedReads
  <2>6. o \in Observation /\ doc.rpc \in BOOLEAN /\ doc.site \in BOOLEAN /\ doc.announced \in Date
    BY <2>3, DocumentParts
  <2> HIDE DEF o, testnet, announced, live
  <2> DEFINE p == [o EXCEPT !.id = TRUE, !.rpc = doc.rpc, !.domain = doc.site, !.text = FALSE]
             q == [p EXCEPT !.testnet = testnet, !.announces = TRUE, !.announced = announced]
  <2>7. p \in Observation
    BY <2>6 DEF Observation
  <2>8. FundedReads(doc) = [q EXCEPT !.live = live, !.since = doc.announced]
    BY <2>5
  <2> HIDE DEF p
  <2>9. q \in Observation
    BY <2>4, <2>7 DEF Observation
  <2> HIDE DEF q
  <2> QED
    BY <2>4, <2>6, <2>8, <2>9 DEF Observation
<1>12. doc.source \in SourceIds
  BY DocumentParts
<1> DEFINE id == doc.source
<1>13. /\ id = "ethereum_lists" => Reads(doc) = EthereumListsReads(doc)
       /\ id = "superchain_registry" => Reads(doc) = SuperchainReads(doc)
       /\ id = "cosmos_chain_registry" => Reads(doc) = CosmosReads(doc)
       /\ id = "blockscout_chainscout" => Reads(doc) = BlockscoutReads(doc)
       /\ id = "hyperlane_registry" => Reads(doc) = HyperlaneReads(doc)
       /\ id = "axelar_configs" => Reads(doc) = AxelarReads(doc)
       /\ id = "caip_namespaces" => Reads(doc) = CAIPReads(doc)
       /\ id = "chainid_network" => Reads(doc) = ChainIdReads(doc)
  BY DEF Reads
<1>14. /\ id = "indexer_changelogs" => Reads(doc) = IndexersReads(doc)
       /\ id = "github_hyper_search" => Reads(doc) = GitHubReads(doc)
       /\ id = "rss_sitemaps" => Reads(doc) = RSSReads(doc)
       /\ id = "web_news_search" => Reads(doc) = WebSearchReads(doc)
       /\ id = "ats_job_boards" => Reads(doc) = JobBoardReads(doc)
       /\ id = "bluesky_jetstream" => Reads(doc) = BlueskyReads(doc)
       /\ id = "recent_funded_chains" => Reads(doc) = FundedReads(doc)
  BY DEF Reads
<1> QED
  BY <1>1, <1>2, <1>3, <1>4, <1>5, <1>6, <1>7, <1>8, <1>9, <1>10, <1>11, <1>12, <1>13, <1>14
     DEF SourceIds

-----------------------------------------------------------------------------
(* Candidates *)

EventSources == {s.id : s \in AllSources} \cup Funders

EventFamilies == {s.family : s \in AllSources} \cup {"capital"}

LEMMA DayParts == /\ Days \subseteq Int
                  /\ NoDate \in Date
                  /\ Days \subseteq Date
                  /\ \A d \in Date : Present(d) <=> d \in Days
                  /\ 0 \in Days
                  /\ Days \subseteq Nat
<1>1. \A s \in Stories : 0 \in s.days /\ s.days \subseteq Nat
  BY DossierAssumption
<1>2. PICK s \in Stories : TRUE
  BY DossierAssumption DEF Documents
<1>3. Days \subseteq Nat /\ 0 \in Days
  BY <1>1, <1>2 DEF Days
<1> QED
  BY <1>3 DEF Date, NoDate, Present

\* Time passes forwards, to a day of the story.
LEMMA Forward ==
    ASSUME TypeOK
    PROVE  today \in Days /\ today \in Int /\ (DayPasses => today' \in Days /\ today <= today')
<1>1. story \in Stories /\ today \in Days /\ Days \subseteq Int
  BY DayParts DEF TypeOK
<1>2. DayPasses => today' \in Days /\ today < today'
  BY <1>1 DEF DayPasses, Days
<1>3. today' \in Days /\ today < today' => today <= today'
  BY <1>1
<1> QED
  BY <1>1, <1>2, <1>3

LEMMA DocumentsOfStories ==
    ASSUME NEW s \in Stories, NEW doc \in s.docs
    PROVE  doc \in Documents
BY DEF Documents

LEMMA KeyOfDocument ==
    ASSUME NEW doc \in Documents
    PROVE  KeyOf(doc) \in Keys /\ KeyOf(doc)[1] = doc.source /\ doc.source \notin Funders
BY DocumentParts DEF KeyOf, Keys, SourceIds, Funders

LEMMA RaiseParts ==
    ASSUME TypeOK, NEW raise \in Raises
    PROVE  /\ raise \in AllRaises
           /\ raise.source \in Funders
           /\ raise.date \in Date
           /\ RaiseKey(raise) \in Keys /\ RaiseKey(raise)[1] \in Funders
<1>1. story \in Stories
  BY DEF TypeOK
<1>2. CASE raise \in story.raises
  <2>1. raise \in AllRaises /\ raise.source \in Funders /\ raise.date \in Date
    BY <1>1, <1>2, DossierAssumption DEF AllRaises, Funders
  <2> QED
    BY <2>1 DEF Keys, RaiseKey
<1>3. CASE \E article \in story.news : raise \in Reported(article)
  <2>1. PICK article \in story.news : raise \in Reported(article)
    BY <1>3
  <2>2. article.date \in Date
    BY <1>1, DossierAssumption
  <2>3. raise \in AllRaises
    BY <1>1, <2>1 DEF AllRaises
  <2>4. PICK s : raise = [source |-> "funding_live_search", id |-> <<article.id, What(s)>>,
                          what |-> What(s), date |-> article.date]
    BY <2>1, Zenon DEF Reported
  <2>5. raise.source \in Funders /\ raise.date \in Date
    BY <2>2, <2>4 DEF Funders
  <2> QED
    BY <2>3, <2>5 DEF Keys, RaiseKey
<1> QED
  BY <1>2, <1>3 DEF Raises

\* The first date there is.
LEMMA EarliestDay ==
    ASSUME NEW S, S \subseteq Days, S # {}
    PROVE  Earliest(S) \in S
<1>0. S \subseteq Nat
  BY DayParts
<1>1. PICK x \in S : \A y \in S : ~ (<<y, x>> \in OpToRel(<, Nat))
  BY <1>0, NatLessThanWellFounded, WFMin
<1>2. \A y \in S : ~ (y < x)
  BY <1>0, <1>1, Zenon DEF OpToRel
<1>3. \A y \in S : x <= y
  BY <1>0, <1>2
<1> QED
  BY <1>3 DEF Earliest

-----------------------------------------------------------------------------
(* The Africa assessment *)

LEMMA VectorType ==
    ASSUME NEW text \in Text, NEW official \in BOOLEAN, NEW contact \in BOOLEAN, NEW activity \in BOOLEAN
    PROVE  /\ Vector(text, official, contact, activity) \in Features
           /\ LabelConfidence(text, official) \in 0..100
           /\ Label(text, official) \in Labels
<1>1. text.uses \in Nat
  BY DEF Text
<1>2. UseCaseFit(text) \in Nat
  BY <1>1 DEF UseCaseFit, AtMost
<1>3. RegionalAction(text) \in Nat
  BY DEF RegionalAction, AtMost, When
<1>4. Vector(text, official, contact, activity) \in Features
  BY <1>2, <1>3 DEF Vector, Features, When
<1>5. LabelConfidence(text, official) \in 0..100
  BY DEF LabelConfidence, When
<1>6. Label(text, official) \in Labels
  BY DEF Label, Labels
<1> QED
  BY <1>4, <1>5, <1>6

LEMMA NoTextType == NoText \in Text
BY DEF NoText, Text, Areas

\* A1 only from an official source that names a place and an intent.
LEMMA LabelOfficialOnly ==
    ASSUME NEW text, NEW official, Label(text, official) = "A1"
    PROVE  official /\ HasGeography(text) /\ Intent(text)
BY DEF Label

LEMMA NoTextNamesNothing == ~ HasGeography(NoText)
BY DEF NoText, HasGeography, Country, Corroborated

LEMMA LargerFeatures ==
    ASSUME NEW old \in Features, NEW new \in Features
    PROVE  /\ [part \in DOMAIN new |-> Larger(old[part], new[part])] \in Features
           /\ Total([part \in DOMAIN new |-> Larger(old[part], new[part])]) \in 0..100
<1> DEFINE v == [part \in DOMAIN new |-> Larger(old[part], new[part])]
<1>1. DOMAIN new = {"geo", "action", "use", "contact", "capacity"}
  BY DEF Features
<1>2. \A part \in DOMAIN new : old[part] \in Nat /\ new[part] \in Nat
  BY DEF Features
<1>3. \A part \in DOMAIN new : v[part] \in Nat
  BY <1>2 DEF Larger
<1>4. v = [geo |-> v.geo, action |-> v.action, use |-> v.use, contact |-> v.contact,
           capacity |-> v.capacity]
  BY <1>1
<1>5. v.geo \in Nat /\ v.action \in Nat /\ v.use \in Nat /\ v.contact \in Nat /\ v.capacity \in Nat
  BY <1>1, <1>3
<1> HIDE DEF v
<1>6. v \in Features
  BY <1>4, <1>5 DEF Features
<1>7. v.geo + v.action + v.use + v.contact + v.capacity \in Nat
  BY <1>5
<1>8. \A n \in Nat : AtMost(100, n) \in 0..100
  BY DEF AtMost
<1>9. Total(v) \in 0..100
  BY <1>7, <1>8 DEF Total
<1> QED
  BY <1>6, <1>9 DEF v

-----------------------------------------------------------------------------
(* The steps of an observation, each on its own: the type, and what stays *)

LEMMA CreatedType ==
    ASSUME today \in Days, NEW obs \in Observation
    PROVE  /\ Created(obs) \in Candidate
           /\ Created(obs).events = {} /\ Created(obs).rounds = {}
           /\ Created(obs).label = "A4"
           /\ Created(obs).override = FALSE
<1>1. Vector(NoText, FALSE, FALSE, FALSE) \in Features
  BY NoTextType, VectorType
<1> DEFINE first == IF Present(obs.since) THEN obs.since
                    ELSE IF Present(obs.created) THEN obs.created
                    ELSE IF Present(obs.opened) THEN obs.opened ELSE today
<1>2. first \in Days
  BY DayParts DEF Observation
<1>3. obs.stage \in Stages /\ NoDate \in Date /\ "A4" \in Labels /\ 0 \in 0..100
  BY DayParts DEF Observation, Labels
<1>4. Created(obs) =
        [stage |-> obs.stage, domain |-> FALSE, repo |-> FALSE, nets |-> {},
         created |-> NoDate, opened |-> NoDate, merged |-> NoDate, testnet |-> NoDate,
         announced |-> NoDate, live |-> NoDate, first |-> first,
         verified |-> FALSE, genesis |-> FALSE, collision |-> FALSE,
         vector |-> Vector(NoText, FALSE, FALSE, FALSE), total |-> 0, label |-> "A4",
         confidence |-> 0, override |-> FALSE, events |-> {}, rounds |-> {}]
  BY DEF Created
<1> HIDE DEF first
<1> DEFINE vector == Vector(NoText, FALSE, FALSE, FALSE)
           none   == NoDate
           stage  == obs.stage
           label  == "A4"
           no     == FALSE
           zero   == 0
           nets   == {}
<1>5. /\ vector \in Features /\ none \in Date /\ stage \in Stages /\ label \in Labels
      /\ no \in BOOLEAN /\ zero \in 0..100
      /\ nets \in SUBSET Net /\ nets \in SUBSET Event /\ nets \in SUBSET Round
  BY <1>1, <1>3
<1>6. Created(obs) =
        [stage |-> stage, domain |-> no, repo |-> no, nets |-> nets,
         created |-> none, opened |-> none, merged |-> none, testnet |-> none,
         announced |-> none, live |-> none, first |-> first,
         verified |-> no, genesis |-> no, collision |-> no,
         vector |-> vector, total |-> zero, label |-> label,
         confidence |-> zero, override |-> no, events |-> nets, rounds |-> nets]
  BY <1>4
<1> HIDE DEF vector, none, stage, label, no, zero, nets
<1>7. Created(obs) \in Candidate
  BY <1>2, <1>5, <1>6 DEF Candidate
<1> QED
  BY <1>4, <1>7

LEMMA MergedType ==
    ASSUME NEW c \in Candidate, NEW obs \in Observation
    PROVE  /\ Merged(c, obs) \in Candidate
           /\ \A field \in DOMAIN c \ {"domain", "repo"} : Merged(c, obs)[field] = c[field]
<1> DEFINE domain == c.domain \/ obs.domain
           repo   == c.repo \/ obs.repo
<1>1. Merged(c, obs) = [c EXCEPT !.domain = domain, !.repo = repo]
  BY DEF Merged
<1>2. domain \in BOOLEAN /\ repo \in BOOLEAN
  OBVIOUS
<1> HIDE DEF domain, repo
<1>3. [c EXCEPT !.domain = domain, !.repo = repo] \in Candidate
  BY <1>2 DEF Candidate
<1>4. \A field \in DOMAIN c \ {"domain", "repo"} :
        [c EXCEPT !.domain = domain, !.repo = repo][field] = c[field]
  BY DEF Candidate
<1> QED
  BY <1>1, <1>3, <1>4

LEMMA NetworkedType ==
    ASSUME NEW c \in Candidate, NEW obs \in Observation
    PROVE  /\ Networked(c, obs) \in Candidate
           /\ \A field \in DOMAIN c \ {"nets"} : Networked(c, obs)[field] = c[field]
           /\ EnvsOf(c) \subseteq EnvsOf(Networked(c, obs))
<1> DEFINE known == {n \in c.nets : n.env = obs.env}
           net   == [env |-> obs.env, id  |-> obs.id \/ \E n \in known : n.id,
                                      rpc |-> obs.rpc \/ \E n \in known : n.rpc]
           nets  == (c.nets \ known) \cup {net}
<1>1. net \in Net
  BY DEF Net, Observation
<1>2. c.nets \subseteq Net
  BY DEF Candidate
<1>3. nets \in SUBSET Net
  BY <1>1, <1>2
<1>4. Networked(c, obs) = [c EXCEPT !.nets = nets]
  BY DEF Networked
<1>5. ASSUME NEW n \in c.nets
      PROVE  \E m \in nets : m.env = n.env
  <2>1. CASE n \in known
    <3>1. net \in nets /\ net.env = obs.env /\ n.env = obs.env
      BY <2>1
    <3> QED
      BY <3>1
  <2>2. CASE n \notin known
    <3>1. n \in nets
      BY <2>2
    <3> QED
      BY <3>1
  <2> QED
    BY <2>1, <2>2
<1> HIDE DEF nets
<1>6. Networked(c, obs) \in Candidate /\ Networked(c, obs).nets = nets
  BY <1>3, <1>4 DEF Candidate
<1>7. \A field \in DOMAIN c \ {"nets"} : Networked(c, obs)[field] = c[field]
  BY <1>4
<1> QED
  BY <1>5, <1>6, <1>7 DEF EnvsOf

LEMMA LinkedType ==
    ASSUME today \in Days, NEW c \in Candidate, NEW source \in EventSources,
           NEW family \in EventFamilies, NEW key \in Keys
    PROVE  LET l == Linked(c, source, family, key)
           IN  /\ l \in Candidate
               /\ \A field \in DOMAIN c \ {"events"} : l[field] = c[field]
               /\ c.events \subseteq l.events
               /\ \A e \in l.events \ c.events : e.day = today /\ e.key = key /\ e.family = family
               /\ \E e \in l.events : e.key = key
<1> DEFINE new == [source |-> source, family |-> family, key |-> key, day |-> today]
<1>1. CASE \E e \in c.events : e.key = key
  BY <1>1 DEF Linked
<1>2. CASE ~ \E e \in c.events : e.key = key
  <2>1. Linked(c, source, family, key) = [c EXCEPT !.events = c.events \cup {new}]
    BY <1>2 DEF Linked
  <2>2. new \in Event
    BY DEF Event, EventSources, EventFamilies
  <2>3. c.events \cup {new} \in SUBSET Event
    BY <2>2 DEF Candidate
  <2>4. new.day = today /\ new.key = key /\ new.family = family
    OBVIOUS
  <2> HIDE DEF new
  <2>5. /\ Linked(c, source, family, key) \in Candidate
        /\ Linked(c, source, family, key).events = c.events \cup {new}
    BY <2>1, <2>3 DEF Candidate
  <2>6. \A field \in DOMAIN c \ {"events"} : Linked(c, source, family, key)[field] = c[field]
    BY <2>1
  <2> QED
    BY <2>4, <2>5, <2>6
<1> QED
  BY <1>1, <1>2

LEMMA ClaimedType ==
    ASSUME NEW c \in Candidate, NEW obs \in Observation
    PROVE  LET d == Claimed(c, obs)
           IN  /\ d \in Candidate
               /\ \A field \in {"nets", "events", "rounds", "override", "label", "total", "stage"} :
                    d[field] = c[field]
               /\ d.created = Once(c.created, obs.created)
               /\ d.opened = Once(c.opened, obs.opened)
               /\ d.testnet = Once(c.testnet, obs.testnet)
               /\ d.live = Once(c.live, obs.live)
<1> DEFINE created   == Once(c.created, obs.created)
           opened    == Once(c.opened, obs.opened)
           merged    == Once(c.merged, obs.merged)
           testnet   == Once(c.testnet, obs.testnet)
           announced == IF obs.announces THEN obs.announced ELSE c.announced
           live      == Once(c.live, obs.live)
           first     == Earliest({c.first, created, opened, testnet, obs.since} \ {NoDate})
<1>1. {created, opened, merged, testnet, announced, live, obs.since} \subseteq Date
  BY DEF Once, Candidate, Observation
<1>2. c.first \in Days /\ c.first # NoDate
  BY DayParts DEF Candidate, Present
<1>3. {c.first, created, opened, testnet, obs.since} \ {NoDate} \subseteq Days
  BY <1>1, <1>2, DayParts DEF Date
<1>4. {c.first, created, opened, testnet, obs.since} \ {NoDate} # {}
  BY <1>2
<1>5. first \in Days
  BY <1>3, <1>4, EarliestDay
<1> DEFINE d == [c EXCEPT !.created = created, !.opened = opened, !.merged = merged,
                          !.testnet = testnet, !.announced = announced, !.live = live]
<1>6. /\ d.first = c.first /\ d.created = created /\ d.opened = opened /\ d.testnet = testnet
  BY DEF Candidate
<1>7. Claimed(c, obs) = [d EXCEPT !.first = Earliest({d.first, d.created, d.opened, d.testnet, obs.since} \ {NoDate})]
  BY DEF Claimed
<1>8. Claimed(c, obs) = [d EXCEPT !.first = first]
  BY <1>6, <1>7
<1>9. /\ created \in Date /\ opened \in Date /\ merged \in Date /\ testnet \in Date
      /\ announced \in Date /\ live \in Date
  BY <1>1
<1> HIDE DEF created, opened, merged, testnet, announced, live, first
<1>10. d \in Candidate /\ d.live = live
  BY <1>9 DEF Candidate
<1>11. \A field \in {"nets", "events", "rounds", "override", "label", "total", "stage"} : d[field] = c[field]
  BY DEF Candidate
<1>14. d.created = created /\ d.opened = opened /\ d.testnet = testnet
  BY DEF Candidate
<1> HIDE DEF d
<1>12. [d EXCEPT !.first = first] \in Candidate
  BY <1>5, <1>10 DEF Candidate
<1>13. /\ \A field \in {"nets", "events", "rounds", "override", "label", "total", "stage"} :
            [d EXCEPT !.first = first][field] = d[field]
       /\ [d EXCEPT !.first = first].created = d.created
       /\ [d EXCEPT !.first = first].opened = d.opened
       /\ [d EXCEPT !.first = first].testnet = d.testnet
       /\ [d EXCEPT !.first = first].live = d.live
  BY <1>10 DEF Candidate
<1> QED
  BY <1>8, <1>10, <1>11, <1>12, <1>13, <1>14 DEF created, opened, testnet, live

LEMMA StageType ==
    ASSUME NEW c, NEW envs
    PROVE  Stage(c, envs) \in Stages
BY DEF Stage, Stages

LEMMA StagedType ==
    ASSUME NEW c \in Candidate, NEW envs
    PROVE  /\ Staged(c, envs) \in Candidate
           /\ Staged(c, envs).stage = Stage(c, envs)
           /\ \A field \in DOMAIN c \ {"stage"} : Staged(c, envs)[field] = c[field]
BY StageType DEF Staged, Candidate

LEMMA AssessedType ==
    ASSUME NEW c \in Candidate, NEW obs \in Observation, NEW text \in Text
    PROVE  LET a == Assessed(c, obs, text)
           IN  /\ a \in Candidate
               /\ \A field \in DOMAIN c \ {"label", "confidence", "vector", "total"} : a[field] = c[field]
               /\ c.override => a = c
               /\ a.label = c.label \/ a.label = Label(text, OfficialFamily(obs.family))
<1>1. CASE c.override
  BY <1>1 DEF Assessed
<1>2. CASE ~ c.override
  <2> DEFINE official == OfficialFamily(obs.family)
             contact  == obs.contact \/ c.domain
             activity == {e.family : e \in c.events} \cap ActivityFamilies # {}
             new      == Vector(text, official, contact, activity)
             vector   == [part \in DOMAIN new |-> Larger(c.vector[part], new[part])]
             stronger == LabelRank(Label(text, official)) >= LabelRank(c.label)
             label    == IF stronger THEN Label(text, official) ELSE c.label
             level    == IF stronger THEN LabelConfidence(text, official) ELSE c.confidence
             total    == Total(vector)
  <2>1. /\ Assessed(c, obs, text) = [c EXCEPT !.label = label, !.confidence = level,
                                              !.vector = vector, !.total = total]
    BY <1>2 DEF Assessed
  <2>2. official \in BOOLEAN /\ contact \in BOOLEAN /\ activity \in BOOLEAN
    BY DEF OfficialFamily, Candidate, Observation
  <2>3. new \in Features /\ LabelConfidence(text, official) \in 0..100 /\ Label(text, official) \in Labels
    BY <2>2, VectorType
  <2>4. c.vector \in Features /\ c.label \in Labels /\ c.confidence \in 0..100
    BY DEF Candidate
  <2>5. vector \in Features /\ total \in 0..100
    <3> HIDE DEF new
    <3> QED
      BY <2>3, <2>4, LargerFeatures
  <2>6. label \in Labels /\ level \in 0..100
    BY <2>3, <2>4
  <2>7. label = c.label \/ label = Label(text, OfficialFamily(obs.family))
    OBVIOUS
  <2> HIDE DEF label, level, vector, total
  <2>8. [c EXCEPT !.label = label, !.confidence = level, !.vector = vector, !.total = total] \in Candidate
    BY <2>5, <2>6 DEF Candidate
  <2>9. /\ \A field \in DOMAIN c \ {"label", "confidence", "vector", "total"} :
             [c EXCEPT !.label = label, !.confidence = level, !.vector = vector, !.total = total][field]
               = c[field]
        /\ [c EXCEPT !.label = label, !.confidence = level, !.vector = vector, !.total = total].label = label
    BY DEF Candidate
  <2> QED
    BY <1>2, <2>1, <2>7, <2>8, <2>9
<1> QED
  BY <1>1, <1>2

-----------------------------------------------------------------------------
(* What a rescore makes of the evidence *)

LEMMA StateType ==
    ASSUME NEW facts, NEW check, NEW risk, NEW blocked
    PROVE  /\ State(facts, check, risk, blocked) \in States
           /\ State(facts, check, risk, blocked) = "STALE" => Stale(facts)
           /\ State(facts, check, risk, blocked) \notin {"STALE", "REJECT"} => ~ Stale(facts)
<1> DEFINE hot == /\ GatePassed(facts, check, blocked)
                  /\ Confidence(facts, check) >= 750
                  /\ Outreach(facts, check, risk) >= 70000
                  /\ risk < 340
                  /\ OutreachWindow(facts)
           qualified == /\ GatePassed(facts, check, blocked)
                        /\ Confidence(facts, check) >= 650
                        /\ Outreach(facts, check, risk) >= 55000
<1>1. State(facts, check, risk, blocked) =
        IF blocked THEN "REJECT" ELSE IF Stale(facts) THEN "STALE"
        ELSE IF hot THEN "HOT" ELSE IF qualified THEN "QUALIFIED" ELSE "RADAR"
  BY DEF State
<1> HIDE DEF hot, qualified
<1> QED
  BY <1>1 DEF States

\* All evidence of c is past the TTL of its stage.
Overdue(c) == \A e \in c.events : today - e.day > TTL(c.stage)

LEMMA ViewStale ==
    ASSUME NEW c, NEW envs
    PROVE  Stale(View(c, envs)) <=> Overdue(c)
<1>1. /\ View(c, envs).stage = c.stage
      /\ View(c, envs).events = {[family |-> e.family, source |-> e.source, key |-> e.key,
                                  age |-> today - e.day] : e \in c.events}
  BY DEF View
<1>2. Stale(View(c, envs)) <=> \A e \in View(c, envs).events : e.age > TTL(c.stage)
  BY <1>1 DEF Stale
<1>3. ASSUME \A v \in View(c, envs).events : v.age > TTL(c.stage), NEW e \in c.events
      PROVE  today - e.day > TTL(c.stage)
  <2> DEFINE v == [family |-> e.family, source |-> e.source, key |-> e.key, age |-> today - e.day]
  <2>1. v \in View(c, envs).events /\ v.age = today - e.day
    BY <1>1
  <2> QED
    BY <1>3, <2>1
<1>4. ASSUME Overdue(c), NEW v \in View(c, envs).events
      PROVE  v.age > TTL(c.stage)
  <2>1. PICK e \in c.events : v = [family |-> e.family, source |-> e.source, key |-> e.key,
                                   age |-> today - e.day]
    BY <1>1
  <2> QED
    BY <1>4, <2>1 DEF Overdue
<1> QED
  BY <1>2, <1>3, <1>4 DEF Overdue

-----------------------------------------------------------------------------
(* What the steps do to the candidate *)

LEMMA KnownCandidate ==
    ASSUME cand' \in Candidate
    PROVE  Known'
BY CandidateAssumption DEF Known

\* An observation, from the candidate that the resolver found or made.
LEMMA ObserveStep ==
    ASSUME TypeOK, NEW doc \in story.docs, NEW same \in BOOLEAN, Observe(doc, same),
           NEW base, base = IF Known THEN cand ELSE Created(Reads(doc))
    PROVE  LET obs == Reads(doc)
           IN  /\ obs \in Observation
               /\ base \in Candidate
               /\ cand' \in Candidate
               /\ EnvsOf(base) \subseteq EnvsOf(cand')
               /\ held' = IF ~ Known THEN EnvsOf(cand') ELSE IF same THEN held ELSE EnvsOf(base)
               /\ cand'.stage = Stage(cand', held')
               /\ cand'.created = Once(base.created, obs.created)
               /\ cand'.opened = Once(base.opened, obs.opened)
               /\ cand'.testnet = Once(base.testnet, obs.testnet)
               /\ cand'.live = Once(base.live, obs.live)
               /\ base.events \subseteq cand'.events
               /\ \A e \in cand'.events \ base.events : e.day = today /\ e.key = KeyOf(doc)
               /\ \E e \in cand'.events : e.key = KeyOf(doc)
               /\ cand'.rounds = base.rounds
               /\ cand'.override = base.override
               /\ base.override => cand'.label = base.label /\ cand'.total = base.total
               /\ \/ cand'.label = base.label
                  \/ cand'.label = Label(IF obs.text THEN doc.text ELSE NoText, OfficialFamily(obs.family))
<1> DEFINE obs   == Reads(doc)
           m     == Merged(base, obs)
           n     == Networked(m, obs)
           l     == Linked(n, doc.source, obs.family, KeyOf(doc))
           d     == Claimed(l, obs)
           envs  == IF ~ Known THEN EnvsOf(n) ELSE IF same THEN held ELSE EnvsOf(base)
           s     == Staged(d, envs)
           text  == IF obs.text THEN doc.text ELSE NoText
           a     == Assessed(s, obs, text)
<1>1. /\ doc \in Documents
      /\ today \in Days
  BY DocumentsOfStories DEF TypeOK
<1>2. cand' = a /\ held' = envs /\ today' = today
  BY DEF Observe
<1>3. obs \in Observation /\ text \in Text
  BY <1>1, ReadsType, DocumentParts, NoTextType
<1>4. base \in Candidate
  BY <1>1, <1>3, CreatedType DEF TypeOK
<1>5. doc.source \in EventSources /\ obs.family \in EventFamilies
  BY <1>1, <1>3, DossierAssumption DEF Document, Observation, EventSources, EventFamilies
<1>6. KeyOf(doc) \in Keys
  BY <1>1, KeyOfDocument
<1> DEFINE AllFields == {"stage", "domain", "repo", "nets", "created", "opened", "merged", "testnet",
              "announced", "live", "first", "verified", "genesis", "collision", "vector", "total",
              "label", "confidence", "override", "events", "rounds"}
<1>7. \A c \in Candidate : DOMAIN c = AllFields
  BY DEF Candidate
<1> HIDE DEF obs, text
<1>8. m \in Candidate /\ \A field \in AllFields \ {"domain", "repo"} : m[field] = base[field]
  BY <1>3, <1>4, <1>7, MergedType
<1> HIDE DEF m
<1>9. /\ n \in Candidate /\ \A field \in AllFields \ {"nets"} : n[field] = m[field]
      /\ EnvsOf(m) \subseteq EnvsOf(n)
  BY <1>3, <1>7, <1>8, NetworkedType
<1> HIDE DEF n
<1>10. /\ l \in Candidate /\ \A field \in AllFields \ {"events"} : l[field] = n[field]
       /\ n.events \subseteq l.events
       /\ \A e \in l.events \ n.events : e.day = today /\ e.key = KeyOf(doc)
       /\ \E e \in l.events : e.key = KeyOf(doc)
  <2> DEFINE source == doc.source
             family == obs.family
             key    == KeyOf(doc)
             linked == Linked(n, source, family, key)
  <2>1. source \in EventSources /\ family \in EventFamilies /\ key \in Keys
    BY <1>5, <1>6
  <2>2. l = linked
    BY DEF l
  <2> HIDE DEF source, family, key
  <2>3. /\ linked \in Candidate
        /\ \A field \in DOMAIN n \ {"events"} : linked[field] = n[field]
        /\ n.events \subseteq linked.events
        /\ \A e \in linked.events \ n.events : e.day = today /\ e.key = key
        /\ \E e \in linked.events : e.key = key
    BY <1>1, <1>9, <2>1, LinkedType
  <2> HIDE DEF linked
  <2> QED
    BY <1>7, <1>9, <2>2, <2>3 DEF key
<1> HIDE DEF l
<1>11. /\ d \in Candidate
       /\ \A field \in {"nets", "events", "rounds", "override", "label", "total", "stage"} : d[field] = l[field]
       /\ d.created = Once(l.created, obs.created)
       /\ d.opened = Once(l.opened, obs.opened)
       /\ d.testnet = Once(l.testnet, obs.testnet)
       /\ d.live = Once(l.live, obs.live)
  BY <1>3, <1>10, ClaimedType
<1> HIDE DEF d
<1>12. /\ s \in Candidate /\ s.stage = Stage(d, envs)
       /\ \A field \in AllFields \ {"stage"} : s[field] = d[field]
  BY <1>7, <1>11, StagedType
<1> HIDE DEF s
<1>13. /\ a \in Candidate
       /\ \A field \in AllFields \ {"label", "confidence", "vector", "total"} : a[field] = s[field]
       /\ s.override => a = s
       /\ a.label = s.label \/ a.label = Label(text, OfficialFamily(obs.family))
  BY <1>3, <1>7, <1>12, AssessedType
<1> HIDE DEF a
<1>14. a.nets = n.nets /\ m.nets = base.nets
  BY <1>8, <1>10, <1>11, <1>12, <1>13
<1>15. EnvsOf(base) \subseteq EnvsOf(a) /\ EnvsOf(n) = EnvsOf(a)
  BY <1>9, <1>14 DEF EnvsOf
<1>16. a.stage = Stage(a, envs)
  <2>1. /\ a.live = d.live /\ a.announced = d.announced /\ a.testnet = d.testnet
        /\ a.opened = d.opened /\ a.created = d.created
        /\ a.stage = Stage(d, envs)
    BY <1>12, <1>13
  <2> QED
    BY <2>1 DEF Stage
<1>17. /\ a.created = Once(base.created, obs.created)
       /\ a.opened = Once(base.opened, obs.opened)
       /\ a.testnet = Once(base.testnet, obs.testnet)
       /\ a.live = Once(base.live, obs.live)
  BY <1>8, <1>9, <1>10, <1>11, <1>12, <1>13
<1>18. /\ base.events \subseteq a.events
       /\ \A e \in a.events \ base.events : e.day = today /\ e.key = KeyOf(doc)
       /\ \E e \in a.events : e.key = KeyOf(doc)
  <2>1. a.events = l.events /\ base.events = n.events
    BY <1>8, <1>9, <1>11, <1>12, <1>13
  <2> QED
    BY <1>10, <2>1
<1>19. a.rounds = base.rounds /\ a.override = base.override
  BY <1>8, <1>9, <1>10, <1>11, <1>12, <1>13
<1>20. /\ base.override => a.label = base.label /\ a.total = base.total
       /\ a.label = base.label \/ a.label = Label(text, OfficialFamily(obs.family))
  <2>1. s.label = base.label /\ s.total = base.total /\ s.override = base.override
    BY <1>8, <1>9, <1>10, <1>11, <1>12
  <2> QED
    BY <1>13, <2>1
<1>21. held' = IF ~ Known THEN EnvsOf(a) ELSE IF same THEN held ELSE EnvsOf(base)
  BY <1>2, <1>15
<1>22. a.stage = Stage(a, held')
  BY <1>2, <1>16
<1> QED
  BY <1>2, <1>3, <1>4, <1>13, <1>15, <1>17, <1>18, <1>19, <1>20, <1>21, <1>22 DEF obs, text

\* What no step but an observation and an enrichment touches.
Kept == {"stage", "nets", "created", "opened", "merged", "testnet", "announced", "live", "first",
         "vector", "events", "rounds"}

\* The steps that stamp the candidate or leave it alone.
Namesakes == \E raise \in Raises : NamesakeEnriched(raise)

Stamping == CollisionRaised \/ VerifyRequested \/ Probed \/ Rebuilt \/ DayPasses \/ Namesakes

LEMMA OthersKept ==
    ASSUME NEW c \in Candidate, NEW f, NEW value
    PROVE  \A field \in DOMAIN c : field # f => [c EXCEPT ![f] = value][field] = c[field]
OBVIOUS

LEMMA KeptFields ==
    ASSUME NEW c \in Candidate
    PROVE  Kept \cup {"label", "total", "override"} \subseteq DOMAIN c
BY DEF Candidate, Kept

\* The fields a job or an analyst stamps.
LEMMA StampedType ==
    ASSUME NEW c \in Candidate, NEW value \in BOOLEAN
    PROVE  /\ [c EXCEPT !.verified = value] \in Candidate
           /\ [c EXCEPT !.collision = value] \in Candidate
           /\ [c EXCEPT !.genesis = value] \in Candidate
           /\ [c EXCEPT !.override = value] \in Candidate
<1>1. [c EXCEPT !.verified = value] \in Candidate
  BY DEF Candidate
<1>2. [c EXCEPT !.collision = value] \in Candidate
  BY DEF Candidate
<1>3. [c EXCEPT !.genesis = value] \in Candidate
  BY DEF Candidate
<1>4. [c EXCEPT !.override = value] \in Candidate
  BY DEF Candidate
<1> QED
  BY <1>1, <1>2, <1>3, <1>4

LEMMA StampingStep ==
    ASSUME TypeOK, Stamping, Known
    PROVE  /\ cand' \in Candidate
           /\ \A field \in Kept \cup {"label", "total", "override"} : cand'[field] = cand[field]
<1>1. cand \in Candidate
  BY DEF TypeOK
<1>2. CASE CollisionRaised
  <2>1. cand' = [cand EXCEPT !.collision = TRUE]
    BY <1>2 DEF CollisionRaised
  <2>2. cand' \in Candidate
    <3>1. PICK yes \in BOOLEAN : yes = TRUE
      OBVIOUS
    <3> QED
      BY <1>1, <2>1, <3>1, StampedType
  <2>3. \A field \in Kept \cup {"label", "total", "override"} : field # "collision"
    BY DEF Kept
  <2> QED
    BY <1>1, <2>1, <2>2, <2>3, OthersKept, KeptFields
<1>3. CASE VerifyRequested
  <2>1. cand' = [cand EXCEPT !.verified = TRUE]
    BY <1>3 DEF VerifyRequested
  <2>2. cand' \in Candidate
    <3>1. PICK yes \in BOOLEAN : yes = TRUE
      OBVIOUS
    <3> QED
      BY <1>1, <2>1, <3>1, StampedType
  <2>3. \A field \in Kept \cup {"label", "total", "override"} : field # "verified"
    BY DEF Kept
  <2> QED
    BY <1>1, <2>1, <2>2, <2>3, OthersKept, KeptFields
<1>4. CASE Probed
  <2>1. CASE \E genesis \in BOOLEAN : cand' = [cand EXCEPT !.verified = TRUE, !.genesis = @ \/ genesis]
    <3>1. PICK genesis \in BOOLEAN : cand' = [cand EXCEPT !.verified = TRUE, !.genesis = cand.genesis \/ genesis]
      BY <2>1
    <3>2. PICK new \in BOOLEAN : new = (cand.genesis \/ genesis)
      OBVIOUS
    <3>3. cand' = [cand EXCEPT !.verified = TRUE, !.genesis = new]
      BY <3>1, <3>2
    <3>4. cand' \in Candidate
      <4>1. PICK yes \in BOOLEAN : yes = TRUE
        OBVIOUS
      <4>2. [cand EXCEPT !.verified = yes] \in Candidate
        BY <1>1, StampedType
      <4>3. cand' = [[cand EXCEPT !.verified = yes] EXCEPT !.genesis = new]
        BY <3>3, <4>1
      <4> QED
        BY <4>2, <4>3, StampedType
    <3>5. \A field \in Kept \cup {"label", "total", "override"} : field # "verified" /\ field # "genesis"
      BY DEF Kept
    <3>6. DOMAIN [cand EXCEPT !.verified = TRUE] = DOMAIN cand
      OBVIOUS
    <3>7. [cand EXCEPT !.verified = TRUE] \in Candidate
      <4>1. PICK yes \in BOOLEAN : yes = TRUE
        OBVIOUS
      <4> QED
        BY <1>1, <4>1, StampedType
    <3>8. cand' = [[cand EXCEPT !.verified = TRUE] EXCEPT !.genesis = new]
      BY <3>3
    <3> QED
      BY <1>1, <3>4, <3>5, <3>6, <3>7, <3>8, OthersKept, KeptFields
  <2>2. CASE cand' = cand
    BY <1>1, <2>2
  <2> QED
    BY <1>4, <2>1, <2>2 DEF Probed
<1>5. CASE Rebuilt \/ DayPasses \/ Namesakes
  BY <1>1, <1>5 DEF Rebuilt, DayPasses, Namesakes, NamesakeEnriched
<1> QED
  BY <1>2, <1>3, <1>4, <1>5 DEF Stamping

LEMMA OverriddenStep ==
    ASSUME TypeOK, NEW decision \in Decisions, Overridden(decision)
    PROVE  /\ cand' \in Candidate
           /\ \A field \in Kept : cand'[field] = cand[field]
           /\ cand'.override = TRUE
<1>1. cand \in Candidate /\ decision.label \in Labels /\ decision.total \in 0..100
  BY DossierAssumption DEF TypeOK, Overridden
<1>2. cand' = [cand EXCEPT !.label = decision.label, !.total = decision.total, !.override = TRUE]
  BY DEF Overridden
<1>3. cand' \in Candidate /\ cand'.override = TRUE
  <2>1. [cand EXCEPT !.label = decision.label] \in Candidate
    BY <1>1 DEF Candidate
  <2>2. [cand EXCEPT !.label = decision.label, !.total = decision.total] \in Candidate
    BY <1>1, <2>1 DEF Candidate
  <2>3. PICK yes \in BOOLEAN : yes = TRUE
    OBVIOUS
  <2>4. cand' = [[cand EXCEPT !.label = decision.label, !.total = decision.total] EXCEPT !.override = yes]
    BY <1>2, <2>3
  <2>5. cand' \in Candidate
    BY <2>2, <2>4, StampedType
  <2>6. "override" \in DOMAIN cand
    BY <1>1 DEF Candidate
  <2> QED
    BY <1>2, <2>5, <2>6
<1>4. ASSUME NEW field \in Kept PROVE cand'[field] = cand[field]
  <2>1. field \in DOMAIN cand /\ field \notin {"label", "total", "override"}
    BY <1>1, KeptFields DEF Kept
  <2> QED
    BY <1>2, <2>1
<1> QED
  BY <1>3, <1>4

LEMMA EnrichedStep ==
    ASSUME TypeOK, NEW raise \in Raises, Enriched(raise)
    PROVE  LET key == RaiseKey(raise)
           IN  /\ key \in Keys
               /\ cand' \in Candidate
               /\ \A field \in (Kept \ {"events", "rounds"}) \cup {"label", "total", "override"} :
                    cand'[field] = cand[field]
               /\ cand.events \subseteq cand'.events
               /\ \A e \in cand'.events \ cand.events : e.day = today /\ e.key = key /\ e.family = "capital"
               /\ key \in elsewhere => cand'.events = cand.events
               /\ key \notin elsewhere => \E e \in cand'.events : e.key = key
               /\ cand'.rounds = Recorded(cand.rounds, raise, Present(raise.date), key)
<1> DEFINE key    == RaiseKey(raise)
           source == raise.source
           family == "capital"
           l      == Evidenced(cand, raise)
           rounds == Recorded(cand.rounds, raise, Present(raise.date), key)
<1>1. /\ today \in Days /\ cand \in Candidate
      /\ source \in EventSources /\ family \in EventFamilies /\ key \in Keys
      /\ raise \in AllRaises /\ raise.date \in Date
  BY RaiseParts DEF TypeOK, Enriched, EventSources, EventFamilies, Keys
<1>2. \/ key \in elsewhere /\ l = cand
      \/ key \notin elsewhere /\ l = Linked(cand, source, family, key)
  BY DEF Evidenced
<1>3. rounds \in SUBSET Round
  <2> DEFINE round == [what |-> raise.what, date |-> raise.date, evidence |-> key]
  <2>1. round \in Round
    BY <1>1 DEF Round
  <2>2. rounds \in {cand.rounds, cand.rounds \cup {round}}
    BY DEF Recorded
  <2> HIDE DEF round, rounds
  <2> QED
    BY <1>1, <2>1, <2>2 DEF Candidate
<1> HIDE DEF l, rounds
<1>5. /\ l \in Candidate
      /\ \A field \in DOMAIN cand \ {"events"} : l[field] = cand[field]
      /\ cand.events \subseteq l.events
      /\ \A e \in l.events \ cand.events : e.day = today /\ e.key = key /\ e.family = "capital"
      /\ key \in elsewhere => l.events = cand.events
      /\ key \notin elsewhere => \E e \in l.events : e.key = key
  <2>1. CASE key \in elsewhere
    BY <1>1, <1>2, <2>1
  <2>2. CASE key \notin elsewhere
    <3>1. l = Linked(cand, source, family, key)
      BY <1>2, <2>2
    <3> HIDE DEF key, source
    <3> QED
      BY <1>1, <2>2, <3>1, LinkedType
  <2> QED
    BY <2>1, <2>2
<1>4. cand' = [l EXCEPT !.rounds = rounds]
  <2>1. l.rounds = cand.rounds
    BY <1>1, <1>5 DEF Candidate
  <2>2. cand' = [l EXCEPT !.rounds = Recorded(l.rounds, raise, Present(raise.date), key)]
    BY DEF Enriched, l
  <2> QED
    BY <2>1, <2>2 DEF rounds
<1>6. /\ [l EXCEPT !.rounds = rounds] \in Candidate
      /\ \A field \in DOMAIN l \ {"rounds"} : [l EXCEPT !.rounds = rounds][field] = l[field]
      /\ [l EXCEPT !.rounds = rounds].rounds = rounds
  BY <1>3, <1>5 DEF Candidate
<1>7. \A field \in (Kept \ {"events", "rounds"}) \cup {"label", "total", "override"} : cand'[field] = cand[field]
  BY <1>1, <1>4, <1>5, <1>6 DEF Candidate, Kept
<1>8. cand'.events = l.events
  BY <1>4, <1>5, <1>6 DEF Candidate
<1> QED
  BY <1>1, <1>4, <1>5, <1>6, <1>7, <1>8 DEF rounds

-----------------------------------------------------------------------------
(* Types *)

LEMMA EnvsType ==
    ASSUME NEW c \in Candidate
    PROVE  EnvsOf(c) \subseteq Envs
BY DEF EnvsOf, Candidate, Net

LEMMA TypeStep ==
    ASSUME TypeOK, [Next]_vars
    PROVE  TypeOK'
<1> DEFINE Fine == /\ today \in Days
                   /\ story \in Stories
                   /\ held = NoObject \/ held \subseteq Envs
                   /\ state \in States \cup {"NEW"}
                   /\ elsewhere \subseteq {RaiseKey(raise) : raise \in AllRaises}
           Fresh == \A e \in cand.events : e.day <= today
<1>1. ASSUME NEW doc \in story.docs, NEW same \in BOOLEAN, Observe(doc, same)
      PROVE  TypeOK'
  <2>1. PICK base : base = IF Known THEN cand ELSE Created(Reads(doc))
    OBVIOUS
  <2>2. /\ Reads(doc) \in Observation /\ base \in Candidate /\ cand' \in Candidate
        /\ held' = IF ~ Known THEN EnvsOf(cand') ELSE IF same THEN held ELSE EnvsOf(base)
        /\ \A e \in cand'.events \ base.events : e.day = today
    BY <1>1, <2>1, ObserveStep
  <2>3. \A e \in base.events : e.day <= today
    BY <2>1, <2>2, CreatedType DEF TypeOK
  <2>4. today \in Int
    BY DayParts DEF TypeOK
  <2>5. Fresh'
    BY <1>1, <2>2, <2>3, <2>4 DEF Observe
  <2>6. state' \in States
    <3>1. \E c, envs : state' = Rescored(View(c, envs), NoCheck)
      BY <1>1 DEF Observe
    <3> QED
      BY <3>1, StateType DEF Rescored
  <2>7. EnvsOf(cand') \subseteq Envs /\ EnvsOf(base) \subseteq Envs
    BY <2>2, EnvsType
  <2>8. (held = NoObject \/ held \subseteq Envs)'
    BY <2>2, <2>7 DEF TypeOK
  <2> QED
    BY <1>1, <2>2, <2>5, <2>6, <2>8 DEF Observe, TypeOK
<1>2. ASSUME NEW raise \in Raises, Enriched(raise)
      PROVE  TypeOK'
  <2>1. /\ cand' \in Candidate
        /\ \A e \in cand'.events \ cand.events : e.day = today
    BY <1>2, EnrichedStep
  <2>2. today \in Int
    BY DayParts DEF TypeOK
  <2>3. Fresh'
    BY <1>2, <2>1, <2>2 DEF Enriched, TypeOK
  <2>4. state' \in States
    BY <1>2, StateType DEF Enriched, EvaluatedAlone
  <2> QED
    BY <1>2, <2>1, <2>3, <2>4 DEF Enriched, TypeOK
<1>3. ASSUME NEW decision \in Decisions, Overridden(decision)
      PROVE  TypeOK'
  <2>1. cand' \in Candidate /\ cand'.events = cand.events
    BY <1>3, OverriddenStep DEF Kept
  <2>2. state' \in States
    BY <1>3, StateType DEF Overridden, EvaluatedAlone
  <2> QED
    BY <1>3, <2>1, <2>2 DEF Overridden, TypeOK
<1>4. ASSUME Stamping
      PROVE  TypeOK'
  <2>1. Known => cand' \in Candidate /\ cand'.events = cand.events
    BY <1>4, StampingStep DEF Kept
  <2>2. state' = state \/ state' \in States
    <3>1. CASE Probed
      <4>1. CASE \E live, genesis \in BOOLEAN :
                    state' = Standing(cand', [NoCheck EXCEPT !.fingerprint = TRUE, !.live = live])
        BY <4>1, StateType DEF Standing, Rescored
      <4>2. CASE \E mismatch \in BOOLEAN, failures \in 1..2 :
                    state' = Standing(cand, [NoCheck EXCEPT !.mismatch = mismatch, !.failures = failures])
        BY <4>2, StateType DEF Standing, Rescored
      <4> QED
        BY <3>1, <4>1, <4>2 DEF Probed
    <3>2. CASE Rebuilt
      BY <3>2, StateType DEF Rebuilt, Standing, Rescored
    <3> QED
      BY <1>4, <3>1, <3>2 DEF Stamping, Namesakes, NamesakeEnriched, CollisionRaised, VerifyRequested, DayPasses
  <2>3. Fine'
    <3>1. CASE DayPasses
      BY <2>2, <3>1, Forward DEF DayPasses, TypeOK
    <3>3. CASE Namesakes
      BY <2>2, <3>3, RaiseParts DEF Namesakes, NamesakeEnriched, TypeOK
    <3>2. CASE ~ DayPasses /\ ~ Namesakes
      BY <1>4, <2>2, <3>2 DEF Stamping, Namesakes, NamesakeEnriched, CollisionRaised, VerifyRequested, Probed, Rebuilt, TypeOK
    <3> QED
      BY <3>1, <3>2, <3>3
  <2>4. today <= today'
    <3>1. today \in Int /\ (DayPasses => today <= today')
      BY Forward
    <3>2. today' = today \/ DayPasses
      BY <1>4 DEF Stamping, Namesakes, NamesakeEnriched, CollisionRaised, VerifyRequested, Probed, Rebuilt
    <3> QED
      BY <3>1, <3>2
  <2>5. Known => Fresh'
    <3>1. today \in Int /\ today' \in Int
      BY <2>3, DayParts DEF TypeOK
    <3>2. Known => \A e \in cand.events : e.day \in Int
      BY DayParts DEF TypeOK, Candidate, Event
    <3>3. Known => \A e \in cand.events : e.day <= today
      BY DEF TypeOK
    <3> QED
      BY <2>1, <2>4, <3>1, <3>2, <3>3
  <2>6. ~ Known => ~ Known'
    BY <1>4 DEF Stamping, Namesakes, NamesakeEnriched, CollisionRaised, VerifyRequested, Probed, Rebuilt, DayPasses, Known
  <2> QED
    BY <2>1, <2>3, <2>5, <2>6 DEF TypeOK
<1>5. CASE UNCHANGED vars
  BY <1>5 DEF vars, TypeOK, Known
<1> QED
  BY <1>1, <1>2, <1>3, <1>4, <1>5 DEF Next, Stamping, Namesakes

LEMMA TypeInit == Init => TypeOK
BY DayParts DEF Init, TypeOK, Known

\* TypeOK: whatever the documents, raises and decisions, the dossier stays a
\* candidate whose dates are days or missing, whose percentages stay in range
\* and whose evidence is never from the future.
THEOREM TypeCorrect == Spec => []TypeOK
<1> QED
  BY TypeInit, TypeStep, PTL DEF Spec

-----------------------------------------------------------------------------
(* Labels *)

LabelInv == TypeOK /\ LabelEarned

\* The document that earned the label is linked for good.
Earned(c) ==
    \E doc \in story.docs :
        LET obs == Reads(doc)
        IN  /\ obs.text /\ OfficialFamily(obs.family)
            /\ HasGeography(doc.text) /\ Intent(doc.text)
            /\ \E e \in c.events : e.key = KeyOf(doc)

LEMMA LabelStep ==
    ASSUME LabelInv, [Next]_vars
    PROVE  LabelInv'
<1>1. TypeOK /\ TypeOK'
  BY TypeStep DEF LabelInv
<1>2. SUFFICES ASSUME Known', cand'.label = "A1", ~ cand'.override
               PROVE  Earned(cand)'
  BY <1>1 DEF LabelInv, LabelEarned, Earned
<1>3. Known /\ cand.label = "A1" /\ ~ cand.override => Earned(cand)
  BY DEF LabelInv, LabelEarned, Earned
<1>4. ASSUME NEW doc \in story.docs, NEW same \in BOOLEAN, Observe(doc, same)
      PROVE  Earned(cand)'
  <2>1. PICK base : base = IF Known THEN cand ELSE Created(Reads(doc))
    OBVIOUS
  <2> DEFINE text == IF Reads(doc).text THEN doc.text ELSE NoText
  <2>2. /\ Reads(doc) \in Observation
        /\ base.events \subseteq cand'.events
        /\ \E e \in cand'.events : e.key = KeyOf(doc)
        /\ cand'.override = base.override
        /\ \/ cand'.label = base.label
           \/ cand'.label = Label(text, OfficialFamily(Reads(doc).family))
    BY <1>1, <1>4, <2>1, ObserveStep
  <2>3. story' = story
    BY <1>4 DEF Observe
  <2>4. CASE cand'.label = base.label
    <3>1. Known /\ base = cand
      BY <1>1, <1>2, <2>1, <2>2, <2>4, CreatedType DEF TypeOK
    <3>2. Earned(cand)
      BY <1>2, <1>3, <2>2, <2>4, <3>1
    <3> QED
      BY <2>2, <2>3, <3>1, <3>2 DEF Earned
  <2>5. CASE cand'.label = Label(text, OfficialFamily(Reads(doc).family))
    <3>1. OfficialFamily(Reads(doc).family) /\ HasGeography(text) /\ Intent(text)
      BY <1>2, <2>5, LabelOfficialOnly
    <3>2. Reads(doc).text /\ text = doc.text
      BY <3>1, NoTextNamesNothing
    <3> QED
      BY <2>2, <2>3, <3>1, <3>2 DEF Earned
  <2> QED
    BY <2>2, <2>4, <2>5
<1>5. ASSUME NEW raise \in Raises, Enriched(raise)
      PROVE  Earned(cand)'
  <2>1. cand'.label = cand.label /\ cand'.override = cand.override /\ cand.events \subseteq cand'.events
    BY <1>1, <1>5, EnrichedStep
  <2> QED
    BY <1>2, <1>3, <1>5, <2>1 DEF Enriched, Earned
<1>6. ASSUME NEW decision \in Decisions, Overridden(decision)
      PROVE  FALSE
  BY <1>1, <1>2, <1>6, OverriddenStep
<1>7. ASSUME Stamping
      PROVE  Earned(cand)'
  <2>1. story' = story
    BY <1>7 DEF Stamping, Namesakes, NamesakeEnriched, CollisionRaised, VerifyRequested, Probed, Rebuilt, DayPasses
  <2>2. Known
    BY <1>2, <1>7 DEF Stamping, Namesakes, NamesakeEnriched, CollisionRaised, VerifyRequested, Probed, Rebuilt, DayPasses, Known
  <2>3. cand'.label = cand.label /\ cand'.override = cand.override /\ cand'.events = cand.events
    BY <1>1, <1>7, <2>2, StampingStep DEF Kept
  <2> QED
    BY <1>2, <1>3, <2>1, <2>2, <2>3 DEF Earned
<1>8. CASE UNCHANGED vars
  BY <1>2, <1>3, <1>8 DEF vars, Earned, Known
<1> QED
  BY <1>4, <1>5, <1>6, <1>7, <1>8 DEF LabelInv, Next, Stamping, Namesakes

\* LabelEarned: an unreviewed A1 always goes back to one official document that
\* is linked and names both a place and an intent, whatever was observed since.
THEOREM LabelsEarned == Spec => []LabelEarned
<1>1. Init => LabelInv
  BY TypeInit DEF Init, LabelInv, LabelEarned, Known
<1>2. LabelInv => LabelEarned
  BY DEF LabelInv
<1> QED
  BY <1>1, <1>2, LabelStep, PTL DEF Spec

-----------------------------------------------------------------------------
(* Rounds *)

\* Nothing but an enrichment uses the keys of the raises.
FundersOnly == Known => \A e \in cand.events : e.key[1] \in Funders => e.family = "capital"

RoundsInv == TypeOK /\ FundersOnly /\ RoundsTraceable

LEMMA ElsewhereFunders ==
    ASSUME TypeOK, NEW key \in elsewhere
    PROVE  key[1] \in Funders
<1>1. PICK raise \in AllRaises : key = RaiseKey(raise)
  BY DEF TypeOK
<1>2. PICK s \in Stories : raise \in s.raises \/ \E article \in s.news : raise \in Reported(article)
  BY DEF AllRaises
<1>3. raise.source \in Funders
  <2>1. CASE raise \in s.raises
    BY <2>1, DossierAssumption DEF Funders
  <2>2. ASSUME NEW article \in s.news, raise \in Reported(article)
        PROVE  raise.source \in Funders
    <3>1. PICK what, id, date : raise = [source |-> "funding_live_search", id |-> id, what |-> what, date |-> date]
      BY <2>2, Zenon DEF Reported
    <3> QED
      BY <3>1 DEF Funders
  <2> QED
    BY <1>2, <2>1, <2>2
<1> QED
  BY <1>1, <1>3 DEF RaiseKey

LEMMA RoundsStep ==
    ASSUME RoundsInv, [Next]_vars
    PROVE  RoundsInv'
<1>1. TypeOK /\ TypeOK'
  BY TypeStep DEF RoundsInv
<1> DEFINE Capital == \A e \in cand.events : e.key[1] \in Funders => e.family = "capital"
           Backed  == \A r \in cand.rounds :
                        r.evidence \in elsewhere \/ \E e \in cand.events : e.key = r.evidence /\ e.family = "capital"
           Apart   == \A e \in cand.events : e.family = "capital" => e.key \notin elsewhere
           Single  == \A r, q \in cand.rounds : r.what = q.what /\ r.date = q.date => r = q
           Good    == Capital /\ Backed /\ Apart /\ Single
<1>2. Known => Good
  BY DEF RoundsInv, FundersOnly, RoundsTraceable, CapitalKeys
<1>3. SUFFICES ASSUME Known'
               PROVE  Good'
  BY <1>1 DEF RoundsInv, FundersOnly, RoundsTraceable, CapitalKeys
<1>4. ASSUME NEW doc \in story.docs, NEW same \in BOOLEAN, Observe(doc, same)
      PROVE  Good'
  <2>1. PICK base : base = IF Known THEN cand ELSE Created(Reads(doc))
    OBVIOUS
  <2>2. /\ Reads(doc) \in Observation
        /\ base.events \subseteq cand'.events
        /\ \A e \in cand'.events \ base.events : e.key = KeyOf(doc)
        /\ cand'.rounds = base.rounds
    BY <1>1, <1>4, <2>1, ObserveStep
  <2>3. KeyOf(doc)[1] \notin Funders
    BY DocumentsOfStories, KeyOfDocument, <1>1 DEF TypeOK
  <2>4. KeyOf(doc) \notin elsewhere
    BY <1>1, <2>3, ElsewhereFunders
  <2>5. /\ \A e \in base.events : e.key[1] \in Funders => e.family = "capital"
        /\ \A r \in base.rounds :
              r.evidence \in elsewhere \/ \E e \in base.events : e.key = r.evidence /\ e.family = "capital"
        /\ \A e \in base.events : e.family = "capital" => e.key \notin elsewhere
        /\ \A r, q \in base.rounds : r.what = q.what /\ r.date = q.date => r = q
    BY <1>1, <1>2, <2>1, <2>2, CreatedType DEF TypeOK
  <2>6. elsewhere' = elsewhere
    BY <1>4 DEF Observe
  <2> QED
    BY <2>2, <2>3, <2>4, <2>5, <2>6
<1>5. ASSUME NEW raise \in Raises, Enriched(raise)
      PROVE  Good'
  <2> DEFINE key == RaiseKey(raise)
  <2>1. /\ cand.events \subseteq cand'.events
        /\ \A e \in cand'.events \ cand.events : e.key = key /\ e.family = "capital"
        /\ key \in elsewhere => cand'.events = cand.events
        /\ key \notin elsewhere => \E e \in cand'.events : e.key = key
        /\ cand'.rounds = Recorded(cand.rounds, raise, Present(raise.date), key)
    BY <1>1, <1>5, EnrichedStep
  <2>2. key[1] \in Funders
    BY <1>1, RaiseParts
  <2>3. Known /\ elsewhere' = elsewhere
    BY <1>5 DEF Enriched
  <2> HIDE DEF key
  <2>4. Capital' /\ Apart'
    BY <1>2, <2>1, <2>3
  <2>5. /\ Single'
        /\ \A r \in cand'.rounds : r \in cand.rounds \/ r.evidence = key
    <3> DEFINE round == [what |-> raise.what, date |-> raise.date, evidence |-> key]
               seen  == \E r \in cand.rounds : r.what = raise.what /\ (Present(raise.date) => r.date = raise.date)
    <3>1. CASE seen
      BY <1>2, <2>1, <2>3, <3>1 DEF Recorded
    <3>2. CASE ~ seen
      <4>1. cand'.rounds = cand.rounds \cup {round}
        BY <2>1, <3>2 DEF Recorded
      <4>2. \A r \in cand.rounds : ~ (r.what = round.what /\ r.date = round.date)
        BY <3>2
      <4>3. round.evidence = key
        OBVIOUS
      <4> HIDE DEF round
      <4> QED
        BY <1>2, <2>3, <4>1, <4>2, <4>3
    <3> QED
      BY <3>1, <3>2
  <2>6. Backed'
    BY <1>2, <2>1, <2>2, <2>3, <2>4, <2>5
  <2> QED
    BY <2>4, <2>5, <2>6
<1>6. ASSUME NEW decision \in Decisions, Overridden(decision)
      PROVE  Good'
  <2>1. cand'.events = cand.events /\ cand'.rounds = cand.rounds
    BY <1>1, <1>6, OverriddenStep DEF Kept
  <2> QED
    BY <1>2, <1>6, <2>1 DEF Overridden
<1>7. ASSUME Stamping
      PROVE  Good'
  <2>1. Known
    BY <1>3, <1>7 DEF Stamping, Namesakes, NamesakeEnriched, CollisionRaised, VerifyRequested, Probed,
                      Rebuilt, DayPasses, Known
  <2>2. cand'.events = cand.events /\ cand'.rounds = cand.rounds
    BY <1>1, <1>7, <2>1, StampingStep DEF Kept
  <2>3. /\ elsewhere \subseteq elsewhere'
        /\ \A key \in elsewhere' \ elsewhere : key \notin {e.key : e \in cand.events}
    BY <1>7, <2>1 DEF Stamping, Namesakes, NamesakeEnriched, CollisionRaised, VerifyRequested, Probed,
                      Rebuilt, DayPasses
  <2> QED
    BY <1>2, <2>1, <2>2, <2>3
<1>8. CASE UNCHANGED vars
  BY <1>2, <1>3, <1>8 DEF vars, Known
<1> QED
  BY <1>4, <1>5, <1>6, <1>7, <1>8 DEF Next, Stamping, Namesakes

\* RoundsTraceable: one round for one date of a raise, however often it is
\* reported; the evidence of a round is the candidate's own or a namesake's that
\* was enriched first, and of no raise both.
THEOREM RoundsSound == Spec => []RoundsTraceable
<1>1. Init => RoundsInv
  BY TypeInit DEF Init, RoundsInv, FundersOnly, RoundsTraceable, Known
<1>2. RoundsInv => RoundsTraceable
  BY DEF RoundsInv
<1> QED
  BY <1>1, <1>2, RoundsStep, PTL DEF Spec

-----------------------------------------------------------------------------
(* Stages *)

LEMMA StageRanks ==
    /\ StageRank("S0") = 0 /\ StageRank("S1") = 1 /\ StageRank("S2") = 2 /\ StageRank("S3") = 3
    /\ StageRank("S4") = 4 /\ StageRank("S5") = 5 /\ StageRank("S6") = 6
<1> DEFINE list == <<"S0", "S1", "S2", "S3", "S4", "S5", "S6">>
<1>1. ASSUME NEW m \in 0..6
      PROVE  StageRank(list[m + 1]) = m
  <2>1. \A n \in 0..6 : list[m + 1] = list[n + 1] => m = n
    <3>1. /\ list[1] = "S0" /\ list[2] = "S1" /\ list[3] = "S2" /\ list[4] = "S3"
          /\ list[5] = "S4" /\ list[6] = "S5" /\ list[7] = "S6"
      OBVIOUS
    <3> HIDE DEF list
    <3>2. m + 1 \in {1, 2, 3, 4, 5, 6, 7}
      OBVIOUS
    <3>3. ASSUME NEW n \in 0..6, list[m + 1] = list[n + 1]
          PROVE  m = n
      <4>1. n + 1 \in {1, 2, 3, 4, 5, 6, 7}
        OBVIOUS
      <4>2. m + 1 = n + 1
        BY <3>1, <3>2, <3>3, <4>1
      <4> QED
        BY <4>2
    <3> QED
      BY <3>3
  <2> HIDE DEF list
  <2>2. (CHOOSE n \in 0..6 : list[m + 1] = list[n + 1]) = m
    BY <2>1
  <2> QED
    BY <2>2 DEF StageRank, list
<1>2. /\ list[0 + 1] = "S0" /\ list[1 + 1] = "S1" /\ list[2 + 1] = "S2" /\ list[3 + 1] = "S3"
      /\ list[4 + 1] = "S4" /\ list[5 + 1] = "S5" /\ list[6 + 1] = "S6"
  OBVIOUS
<1> HIDE DEF list
<1>3. /\ 0 \in 0..6 /\ 1 \in 0..6 /\ 2 \in 0..6 /\ 3 \in 0..6 /\ 4 \in 0..6 /\ 5 \in 0..6 /\ 6 \in 0..6
  OBVIOUS
<1>4. /\ StageRank(list[0 + 1]) = 0 /\ StageRank(list[1 + 1]) = 1 /\ StageRank(list[2 + 1]) = 2
      /\ StageRank(list[3 + 1]) = 3 /\ StageRank(list[4 + 1]) = 4 /\ StageRank(list[5 + 1]) = 5
      /\ StageRank(list[6 + 1]) = 6
  BY <1>1, <1>3
<1> QED
  BY <1>2, <1>4

LEMMA StageRankType ==
    ASSUME NEW stage \in Stages
    PROVE  StageRank(stage) \in 0..6
BY StageRanks DEF Stages

\* More dates and more networks never make an earlier stage, on one day.
LEMMA StageMonotone ==
    ASSUME NEW c, NEW d, NEW envs, NEW more, envs \subseteq more,
           Present(c.created) => Present(d.created),
           Present(c.opened) => Present(d.opened),
           Present(c.testnet) => Present(d.testnet),
           Present(c.announced) => Present(d.announced),
           Present(c.live) => d.live = c.live
    PROVE  StageRank(Stage(c, envs)) <= StageRank(Stage(d, more))
<1> DEFINE early(x) == x.live + EarlyMainnetDays >= today
           C2 == Present(c.testnet) \/ "testnet" \in envs
           C1 == Present(c.opened) \/ Present(c.created) \/ "devnet" \in envs
           D2 == Present(d.testnet) \/ "testnet" \in more
           D1 == Present(d.opened) \/ Present(d.created) \/ "devnet" \in more
           D4 == Present(d.announced)
           C4 == Present(c.announced)
           C5 == Present(c.live)
           D5 == Present(d.live)
<1>1. Stage(c, envs) = IF C5 THEN IF early(c) THEN "S5" ELSE "S6"
                       ELSE IF C4 THEN "S4" ELSE IF C2 THEN "S2" ELSE IF C1 THEN "S1" ELSE "S0"
  BY DEF Stage
<1>2. Stage(d, more) = IF D5 THEN IF early(d) THEN "S5" ELSE "S6"
                       ELSE IF D4 THEN "S4" ELSE IF D2 THEN "S2" ELSE IF D1 THEN "S1" ELSE "S0"
  BY DEF Stage
<1>3. /\ C1 => D1
      /\ C2 => D2
      /\ C4 => D4
      /\ C5 => D5
      /\ C5 => (early(c) <=> early(d))
  OBVIOUS
<1>4. C5 => Stage(c, envs) = Stage(d, more) /\ StageRank(Stage(d, more)) \in Int
  BY <1>1, <1>2, <1>3, StageRanks
<1> HIDE DEF early, C1, C2, C4, C5, D1, D2, D4, D5
<1>5. ASSUME ~ C5
      PROVE  StageRank(Stage(c, envs)) <= StageRank(Stage(d, more))
  <2>1. StageRank(Stage(c, envs)) = IF C4 THEN 4 ELSE IF C2 THEN 2 ELSE IF C1 THEN 1 ELSE 0
    BY <1>1, <1>5, StageRanks
  <2>2. StageRank(Stage(d, more)) \in {5, 6} \/
        StageRank(Stage(d, more)) = IF D4 THEN 4 ELSE IF D2 THEN 2 ELSE IF D1 THEN 1 ELSE 0
    <3>1. D5 => StageRank(Stage(d, more)) \in {5, 6}
      BY <1>2, StageRanks
    <3>2. ~ D5 => StageRank(Stage(d, more)) = IF D4 THEN 4 ELSE IF D2 THEN 2 ELSE IF D1 THEN 1 ELSE 0
      BY <1>2, StageRanks
    <3> QED
      BY <3>1, <3>2
  <2> QED
    BY <1>3, <2>1, <2>2
<1> QED
  BY <1>4, <1>5

\* What the open session's object says is the stage it left.
HeldStage == held # NoObject => /\ Known
                                /\ held \subseteq EnvsOf(cand)
                                /\ cand.stage = Stage(cand, held)

StageInv == TypeOK /\ HeldStage /\ StageEvidenced

LEMMA StageStep ==
    ASSUME StageInv, [Next]_vars
    PROVE  /\ StageInv'
           /\ Known /\ StageRank(cand'.stage) < StageRank(cand.stage)
                => Present(cand.announced) /\ ~ Present(cand'.announced)
<1> DEFINE Stays == Known /\ StageRank(cand'.stage) < StageRank(cand.stage)
                      => Present(cand.announced) /\ ~ Present(cand'.announced)
           Evident == Known' => StageRank(cand'.stage) <= StageRank(Stage(cand, EnvsOf(cand))')
<1>1. TypeOK /\ TypeOK'
  BY TypeStep DEF StageInv
<1>2. HeldStage /\ (Known => StageRank(cand.stage) <= StageRank(Stage(cand, EnvsOf(cand))))
  BY DEF StageInv, StageEvidenced
<1>3. SUFFICES HeldStage' /\ Evident /\ Stays
  BY <1>1 DEF StageInv, StageEvidenced
<1>4. ASSUME NEW doc \in story.docs, NEW same \in BOOLEAN, Observe(doc, same)
      PROVE  HeldStage' /\ Evident /\ Stays
  <2>1. PICK base : base = IF Known THEN cand ELSE Created(Reads(doc))
    OBVIOUS
  <2> DEFINE obs == Reads(doc)
  <2>2. /\ cand' \in Candidate /\ Known' /\ today' = today /\ (same => held # NoObject)
        /\ EnvsOf(base) \subseteq EnvsOf(cand')
        /\ held' = IF ~ Known THEN EnvsOf(cand') ELSE IF same THEN held ELSE EnvsOf(base)
        /\ cand'.stage = Stage(cand', held')
        /\ cand'.created = Once(base.created, obs.created)
        /\ cand'.opened = Once(base.opened, obs.opened)
        /\ cand'.testnet = Once(base.testnet, obs.testnet)
        /\ cand'.live = Once(base.live, obs.live)
    <3>1. today' = today /\ (same => held # NoObject)
      BY <1>4, Zenon DEF Observe
    <3>2. /\ cand' \in Candidate
          /\ EnvsOf(base) \subseteq EnvsOf(cand')
          /\ held' = IF ~ Known THEN EnvsOf(cand') ELSE IF same THEN held ELSE EnvsOf(base)
          /\ cand'.stage = Stage(cand', held')
          /\ cand'.created = Once(base.created, obs.created)
          /\ cand'.opened = Once(base.opened, obs.opened)
          /\ cand'.testnet = Once(base.testnet, obs.testnet)
          /\ cand'.live = Once(base.live, obs.live)
      BY <1>1, <1>4, <2>1, ObserveStep
    <3>3. Known'
      BY <3>2, KnownCandidate
    <3> QED
      BY <3>1, <3>2, <3>3, Zenon
  <2>3. PICK c, h, envs : c = cand' /\ h = held' /\ envs = EnvsOf(c)
    OBVIOUS
  <2>4. held' \subseteq EnvsOf(cand')
    BY <1>2, <2>1, <2>2 DEF HeldStage
  <2>5. /\ Stage(cand, held)' = Stage(c, h)
        /\ Stage(cand, EnvsOf(cand))' = Stage(c, envs)
        /\ EnvsOf(cand)' = EnvsOf(c)
    BY <2>2, <2>3 DEF Stage, EnvsOf
  <2>6. HeldStage'
    BY <2>2, <2>3, <2>4, <2>5 DEF HeldStage
  <2>7. StageRank(Stage(c, h)) <= StageRank(Stage(c, envs))
    <3>1. h \subseteq envs
      BY <2>3, <2>4
    <3> QED
      BY <3>1, StageMonotone
  <2>8. Evident
    BY <2>2, <2>3, <2>5, <2>7
  <2>9. ASSUME Known, Present(cand.announced) => Present(cand'.announced)
        PROVE  StageRank(cand.stage) <= StageRank(cand'.stage)
    <3>1. base = cand
      BY <2>1, <2>9
    <3>2. StageRank(cand.stage) <= StageRank(Stage(cand, h))
      <4>1. CASE same
        <5>1. h = held /\ cand.stage = Stage(cand, held)
          BY <1>2, <2>2, <2>3, <2>9, <4>1 DEF HeldStage
        <5>2. StageRank(cand.stage) \in 0..6
          BY <1>1, <2>9, StageRankType DEF TypeOK, Candidate
        <5> QED
          BY <5>1, <5>2
      <4>2. CASE ~ same
        BY <1>2, <2>2, <2>3, <2>9, <3>1, <4>2
      <4> QED
        BY <4>1, <4>2
    <3>3. StageRank(Stage(cand, h)) <= StageRank(Stage(c, h))
      <4>1. /\ Present(cand.created) => Present(c.created)
            /\ Present(cand.opened) => Present(c.opened)
            /\ Present(cand.testnet) => Present(c.testnet)
            /\ Present(cand.announced) => Present(c.announced)
            /\ Present(cand.live) => c.live = cand.live
        BY <2>2, <2>3, <2>9, <3>1 DEF Once
      <4>2. PICK old : old = cand
        OBVIOUS
      <4>3. StageRank(Stage(old, h)) <= StageRank(Stage(c, h))
        BY <4>1, <4>2, StageMonotone
      <4> QED
        BY <4>2, <4>3
    <3>4. StageRank(cand.stage) \in 0..6 /\ StageRank(Stage(cand, h)) \in 0..6 /\ StageRank(Stage(c, h)) \in 0..6
      BY <1>1, <2>9, StageRankType, StageType DEF TypeOK, Candidate
    <3>5. cand'.stage = Stage(c, h)
      BY <2>2, <2>3
    <3> QED
      BY <3>2, <3>3, <3>4, <3>5
  <2>10. Stays
    <3>1. Known => StageRank(cand.stage) \in 0..6
      BY <1>1, StageRankType DEF TypeOK, Candidate
    <3>2. StageRank(cand'.stage) \in 0..6
      BY <2>2, StageRankType DEF Candidate
    <3> QED
      BY <2>9, <3>1, <3>2
  <2> QED
    BY <2>6, <2>8, <2>10
<1>5. ASSUME Known, cand' \in Candidate, held' = NoObject, today <= today',
             \A field \in Kept \ {"events", "rounds"} : cand'[field] = cand[field]
      PROVE  HeldStage' /\ Evident /\ Stays
  <2>1. /\ cand'.stage = cand.stage /\ cand'.nets = cand.nets /\ cand'.created = cand.created
        /\ cand'.opened = cand.opened /\ cand'.testnet = cand.testnet
        /\ cand'.announced = cand.announced /\ cand'.live = cand.live
    BY <1>5 DEF Kept
  <2>2. HeldStage'
    BY <1>5 DEF HeldStage, NoObject
  <2>3. StageRank(cand.stage) \in 0..6
    BY <1>1, <1>5, StageRankType DEF TypeOK, Candidate
  <2>4. EnvsOf(cand)' = EnvsOf(cand)
    BY <2>1 DEF EnvsOf
  <2>5. StageRank(Stage(cand, EnvsOf(cand))) <= StageRank(Stage(cand, EnvsOf(cand))')
    <3>1. CASE ~ Present(cand.live)
      <4>1. Stage(cand, EnvsOf(cand))' = Stage(cand, EnvsOf(cand))
        BY <2>1, <2>4, <3>1 DEF Stage
      <4> QED
        BY <4>1, StageType, StageRankType
    <3>2. CASE Present(cand.live)
      <4>1. /\ Stage(cand, EnvsOf(cand)) = IF cand.live + EarlyMainnetDays >= today THEN "S5" ELSE "S6"
            /\ Stage(cand, EnvsOf(cand))' = IF cand.live + EarlyMainnetDays >= today' THEN "S5" ELSE "S6"
        BY <2>1, <3>2 DEF Stage
      <4>2. cand.live \in Int /\ today \in Int /\ today' \in Int
        BY <1>1, <1>5, <3>2, DayParts DEF TypeOK, Candidate
      <4>3. (cand.live + EarlyMainnetDays >= today') => (cand.live + EarlyMainnetDays >= today)
        BY <1>5, <4>2 DEF EarlyMainnetDays
      <4> QED
        BY <4>1, <4>3, StageRanks
    <3> QED
      BY <3>1, <3>2
  <2>6. Evident
    <3>1. StageRank(Stage(cand, EnvsOf(cand))) \in 0..6 /\ StageRank(Stage(cand, EnvsOf(cand))') \in 0..6
      <4>1. Stage(cand, EnvsOf(cand)) \in Stages /\ Stage(cand, EnvsOf(cand))' \in Stages
        BY DEF Stage, Stages
      <4> QED
        BY <4>1, StageRankType
    <3> QED
      BY <1>2, <1>5, <2>1, <2>3, <2>5, <3>1
  <2>7. Stays
    BY <2>1, <2>3
  <2> QED
    BY <2>2, <2>6, <2>7
<1>6. today \in Int /\ (DayPasses => today <= today')
  BY <1>1, Forward
<1>7. ASSUME NEW raise \in Raises, Enriched(raise)
      PROVE  HeldStage' /\ Evident /\ Stays
  <2>1. cand' \in Candidate /\ \A field \in Kept \ {"events", "rounds"} : cand'[field] = cand[field]
    BY <1>1, <1>7, EnrichedStep
  <2>2. Known /\ held' = NoObject /\ today <= today'
    BY <1>6, <1>7 DEF Enriched
  <2> QED
    BY <1>5, <2>1, <2>2
<1>8. ASSUME NEW decision \in Decisions, Overridden(decision)
      PROVE  HeldStage' /\ Evident /\ Stays
  <2>1. cand' \in Candidate /\ \A field \in Kept : cand'[field] = cand[field]
    BY <1>1, <1>8, OverriddenStep
  <2>2. Known /\ held' = NoObject /\ today <= today'
    BY <1>6, <1>8 DEF Overridden
  <2> QED
    BY <1>5, <2>1, <2>2
<1>9. ASSUME Stamping
      PROVE  HeldStage' /\ Evident /\ Stays
  <2>1. held' = NoObject /\ (~ Known => ~ Known')
    <3>1. CASE Probed
      BY <3>1, Zenon DEF Probed
    <3>2. CASE CollisionRaised \/ VerifyRequested \/ Rebuilt
      BY <3>2 DEF CollisionRaised, VerifyRequested, Rebuilt
    <3>3. CASE DayPasses \/ Namesakes
      BY <3>3 DEF DayPasses, Namesakes, NamesakeEnriched, Known
    <3> QED
      BY <1>9, <3>1, <3>2, <3>3 DEF Stamping
  <2>2. today <= today'
    <3>1. today' = today \/ DayPasses
      BY <1>9 DEF Stamping, Namesakes, NamesakeEnriched, CollisionRaised, VerifyRequested, Probed, Rebuilt
    <3> QED
      BY <1>6, <3>1
  <2>3. CASE ~ Known
    BY <2>1, <2>3 DEF HeldStage
  <2>4. CASE Known
    <3>1. cand' \in Candidate /\ \A field \in Kept : cand'[field] = cand[field]
      BY <1>1, <1>9, <2>4, StampingStep
    <3> QED
      BY <1>5, <2>1, <2>2, <2>4, <3>1
  <2> QED
    BY <2>3, <2>4
<1>10. CASE UNCHANGED vars
  <2>1. cand' = cand /\ held' = held /\ today' = today
    BY <1>10 DEF vars
  <2>2. Stays
    <3>1. Known => StageRank(cand.stage) \in 0..6
      BY <1>1, StageRankType DEF TypeOK, Candidate
    <3> QED
      BY <2>1, <3>1
  <2> QED
    BY <1>2, <2>1, <2>2 DEF HeldStage, Stage, EnvsOf, Known
<1> QED
  BY <1>4, <1>7, <1>8, <1>9, <1>10 DEF Next, Stamping, Namesakes

LEMMA StageInit == Init => StageInv
BY TypeInit DEF Init, StageInv, HeldStage, StageEvidenced, Known

\* StageEvidenced: the stage never says more than the dossier, though it was
\* computed from the networks of a session's object.
THEOREM StagesEvidenced == Spec => []StageEvidenced
<1>1. StageInv => StageEvidenced
  BY DEF StageInv
<1> QED
  BY <1>1, StageInit, StageStep, PTL DEF Spec

\* StageNeverFalls: only a withdrawn announcement takes a stage back, also
\* when an item finds the object of the item before it.
THEOREM StagesHold == Spec => StageNeverFalls
<1>1. StageInv /\ [Next]_vars =>
        [Known /\ StageRank(cand'.stage) < StageRank(cand.stage)
           => Present(cand.announced) /\ ~ Present(cand'.announced)]_vars
  BY StageStep
<1>2. StageInv /\ [Next]_vars => StageInv'
  BY StageStep
<1> QED
  BY <1>1, <1>2, StageInit, PTL DEF Spec, StageNeverFalls

-----------------------------------------------------------------------------
(* Staleness *)

LEMMA TTLType ==
    ASSUME NEW stage \in Stages
    PROVE  TTL(stage) \in Nat
BY DEF Stages, TTL

\* A state that an evaluation gives is STALE only when all evidence is overdue,
\* and neither STALE nor REJECT only when some is not.
Judges(s, c) == /\ s = "STALE" => Overdue(c)
                /\ s \notin {"STALE", "REJECT"} => ~ Overdue(c)

LEMMA RescoredJudges ==
    ASSUME NEW c, NEW envs, NEW check
    PROVE  Judges(Rescored(View(c, envs), check), c)
<1>1. PICK facts : facts = View(c, envs)
  OBVIOUS
<1>2. Stale(facts) <=> Overdue(c)
  BY <1>1, ViewStale
<1> QED
  BY <1>1, <1>2, StateType DEF Rescored, Judges

LEMMA EvaluatedJudges ==
    ASSUME NEW c, NEW envs, NEW facts,
           \/ facts = View(c, envs)
           \/ facts = [View(c, envs) EXCEPT !.label = "A4"]
    PROVE  Judges(EvaluatedAlone(facts), c)
<1> DEFINE alone == [facts EXCEPT !.fingerprint = FALSE]
<1>1. alone.stage = View(c, envs).stage /\ alone.events = View(c, envs).events
  <2>1. facts.stage = View(c, envs).stage /\ facts.events = View(c, envs).events
    BY DEF View
  <2>2. {"stage", "events"} \subseteq DOMAIN facts
    BY DEF View
  <2> QED
    BY <2>1, <2>2
<1>2. Stale(alone) <=> Stale(View(c, envs))
  BY <1>1 DEF Stale
<1>3. PICK given : given = alone
  OBVIOUS
<1>4. EvaluatedAlone(facts) = State(given, NoCheck, 0, FALSE)
  BY <1>3 DEF EvaluatedAlone
<1>5. Stale(given) <=> Overdue(c)
  BY <1>2, <1>3, ViewStale
<1> QED
  BY <1>4, <1>5, StateType DEF Judges

LEMMA StaleStep ==
    ASSUME TypeOK, [Next]_vars
    PROVE  \/ Known' /\ today' = today /\ Judges(state', cand')
           \/ /\ state' = state
              /\ today <= today'
              /\ Known => Known' /\ cand'.events = cand.events /\ cand'.stage = cand.stage
<1> DEFINE Goal == \/ Known' /\ today' = today /\ Judges(state', cand')
                   \/ /\ state' = state
                      /\ today <= today'
                      /\ Known => Known' /\ cand'.events = cand.events /\ cand'.stage = cand.stage
<1>0. today \in Int /\ (DayPasses => today <= today')
  BY Forward
<1>1. ASSUME NEW doc \in story.docs, NEW same \in BOOLEAN, Observe(doc, same)
      PROVE  Goal
  <2>1. PICK base : base = IF Known THEN cand ELSE Created(Reads(doc))
    OBVIOUS
  <2>2. cand' \in Candidate
    BY <1>1, <2>1, ObserveStep
  <2>3. today' = today /\ state' = Rescored(View(cand', held'), NoCheck)
    BY <1>1 DEF Observe
  <2>4. PICK c, envs : c = cand' /\ envs = held'
    OBVIOUS
  <2>5. Judges(state', c)
    BY <2>3, <2>4, RescoredJudges
  <2> QED
    BY <2>2, <2>3, <2>4, <2>5, KnownCandidate
<1>2. ASSUME NEW raise \in Raises, Enriched(raise)
      PROVE  Goal
  <2>1. cand' \in Candidate
    BY <1>2, EnrichedStep
  <2>2. today' = today /\ state' = EvaluatedAlone(View(cand', EnvsOf(cand)))
    BY <1>2 DEF Enriched
  <2>3. PICK c : c = cand'
    OBVIOUS
  <2>4. Judges(state', c)
    BY <2>2, <2>3, EvaluatedJudges
  <2> QED
    BY <2>1, <2>2, <2>3, <2>4, KnownCandidate
<1>3. ASSUME NEW decision \in Decisions, Overridden(decision)
      PROVE  Goal
  <2>1. cand' \in Candidate
    BY <1>3, OverriddenStep
  <2>2. today' = today /\ state' = EvaluatedAlone([View(cand', EnvsOf(cand)) EXCEPT !.label = "A4"])
    BY <1>3 DEF Overridden
  <2>3. PICK c : c = cand'
    OBVIOUS
  <2>4. Judges(state', c)
    BY <2>2, <2>3, EvaluatedJudges
  <2> QED
    BY <2>1, <2>2, <2>3, <2>4, KnownCandidate
<1>4. ASSUME Probed
      PROVE  Goal
  <2>1. Known /\ today' = today
    BY <1>4, Zenon DEF Probed
  <2>2. cand' \in Candidate
    BY <1>4, <2>1, StampingStep DEF Stamping
  <2>3. PICK c : c = cand'
    OBVIOUS
  <2>4. \E check : state' = Standing(c, check)
    <3>1. CASE \E live, genesis \in BOOLEAN :
                  /\ cand' = [cand EXCEPT !.verified = TRUE, !.genesis = @ \/ genesis]
                  /\ state' = Standing(cand', [NoCheck EXCEPT !.fingerprint = TRUE, !.live = live])
      BY <2>3, <3>1
    <3>2. CASE \E mismatch \in BOOLEAN, failures \in 1..2 :
                  /\ state' = Standing(cand, [NoCheck EXCEPT !.mismatch = mismatch, !.failures = failures])
                  /\ UNCHANGED cand
      BY <2>3, <3>2
    <3> QED
      BY <1>4, <3>1, <3>2 DEF Probed
  <2>5. Judges(state', c)
    BY <2>4, RescoredJudges DEF Standing
  <2> QED
    BY <2>1, <2>2, <2>3, <2>5, KnownCandidate
<1>5. ASSUME Rebuilt
      PROVE  Goal
  <2>1. Known /\ today' = today /\ cand' = cand /\ state' = Rescored(View(cand, EnvsOf(cand)), NoCheck)
    BY <1>5 DEF Rebuilt, Standing
  <2>2. PICK c : c = cand'
    OBVIOUS
  <2>3. Judges(state', c)
    BY <2>1, <2>2, RescoredJudges
  <2> QED
    BY <2>1, <2>2, <2>3 DEF Known
<1>6. ASSUME CollisionRaised \/ VerifyRequested \/ DayPasses \/ Namesakes
      PROVE  Goal
  <2>1. state' = state /\ (today' = today \/ DayPasses)
    BY <1>6 DEF CollisionRaised, VerifyRequested, DayPasses, Namesakes, NamesakeEnriched
  <2>2. Known => cand' \in Candidate /\ cand'.events = cand.events /\ cand'.stage = cand.stage
    BY <1>6, StampingStep DEF Stamping, Kept
  <2> QED
    BY <1>0, <2>1, <2>2, KnownCandidate
<1>7. CASE UNCHANGED vars
  BY <1>0, <1>7 DEF vars, Known
<1> QED
  BY <1>1, <1>2, <1>3, <1>4, <1>5, <1>6, <1>7 DEF Next, Namesakes

\* Only what is found today is new.
LEMMA NewIsToday ==
    ASSUME TypeOK, [Next]_vars, Known, NEW e \in cand'.events, e \notin cand.events
    PROVE  e.day = today
<1>1. ASSUME NEW doc \in story.docs, NEW same \in BOOLEAN, Observe(doc, same)
      PROVE  e.day = today
  <2>1. PICK base : base = IF Known THEN cand ELSE Created(Reads(doc))
    OBVIOUS
  <2>2. \A x \in cand'.events \ base.events : x.day = today
    BY <1>1, <2>1, ObserveStep
  <2> QED
    BY <2>1, <2>2
<1>2. ASSUME NEW raise \in Raises, Enriched(raise)
      PROVE  e.day = today
  BY <1>2, EnrichedStep
<1>3. ASSUME NEW decision \in Decisions, Overridden(decision)
      PROVE  FALSE
  BY <1>3, OverriddenStep DEF Kept
<1>4. ASSUME Stamping
      PROVE  FALSE
  BY <1>4, StampingStep DEF Kept
<1>5. ~ UNCHANGED vars
  BY DEF vars
<1> QED
  BY <1>1, <1>2, <1>3, <1>4, <1>5 DEF Next, Stamping, Namesakes

StaleInv == TypeOK /\ (state = "STALE" => Known /\ Overdue(cand))

LEMMA StaleInvStep ==
    ASSUME StaleInv, [Next]_vars
    PROVE  /\ StaleInv'
           /\ state = "STALE" /\ state' \notin {"STALE", "REJECT"}
                => \/ \E e \in cand'.events \ cand.events : e.day = today
                   \/ TTL(cand'.stage) > TTL(cand.stage)
<1>1. TypeOK /\ TypeOK' /\ (state = "STALE" => Known /\ Overdue(cand))
  BY TypeStep DEF StaleInv
<1>2. /\ Known => TTL(cand.stage) \in Nat /\ \A e \in cand.events : e.day \in Int
      /\ Known' => TTL(cand'.stage) \in Nat /\ \A e \in cand'.events : e.day \in Int
      /\ today \in Int /\ today' \in Int
  <2>1. \A c \in Candidate : TTL(c.stage) \in Nat /\ \A e \in c.events : e.day \in Int
    BY TTLType, DayParts DEF Candidate, Event
  <2> QED
    BY <1>1, <2>1, DayParts DEF TypeOK
<1>3. CASE Known' /\ today' = today /\ Judges(state', cand')
  <2>1. StaleInv'
    BY <1>1, <1>3 DEF StaleInv, Judges, Overdue
  <2>2. ASSUME state = "STALE", state' \notin {"STALE", "REJECT"},
               \A e \in cand'.events \ cand.events : e.day # today
        PROVE  TTL(cand'.stage) > TTL(cand.stage)
    <3>1. PICK e \in cand'.events : ~ (today - e.day > TTL(cand'.stage))
      BY <1>3, <2>2 DEF Judges, Overdue
    <3>2. CASE e \in cand.events
      BY <1>1, <1>2, <1>3, <2>2, <3>1, <3>2 DEF Overdue
    <3>3. CASE e \notin cand.events
      <4>1. e.day = today
        BY <1>1, <2>2, <3>1, <3>3, NewIsToday
      <4> QED
        BY <2>2, <3>1, <3>3, <4>1
    <3> QED
      BY <3>2, <3>3
  <2> QED
    BY <2>1, <2>2
<1>4. CASE /\ state' = state
           /\ today <= today'
           /\ Known => Known' /\ cand'.events = cand.events /\ cand'.stage = cand.stage
  <2>1. ASSUME state = "STALE"
        PROVE  Known' /\ Overdue(cand)'
    <3>1. \A e \in cand.events : today - e.day > TTL(cand.stage)
      BY <1>1, <2>1 DEF Overdue
    <3>2. \A e \in cand.events : today' - e.day > TTL(cand.stage)
      BY <1>1, <1>2, <1>4, <2>1, <3>1
    <3> QED
      BY <1>1, <1>4, <2>1, <3>2 DEF Overdue
  <2> QED
    BY <1>1, <1>4, <2>1 DEF StaleInv
<1> QED
  BY <1>1, <1>3, <1>4, StaleStep

\* StaleNeedsEvidence: no probe, rebuild, enrichment, decision or repeated
\* document brings a stale candidate back, only evidence of the day or a stage
\* that lives longer.
THEOREM StaleHolds == Spec => StaleNeedsEvidence
<1>1. Init => StaleInv
  BY TypeInit DEF Init, StaleInv
<1>2. StaleInv /\ [Next]_vars => StaleInv'
  BY StaleInvStep
<1>3. StaleInv /\ [Next]_vars =>
        [state = "STALE" /\ state' \notin {"STALE", "REJECT"}
           => \/ \E e \in cand'.events \ cand.events : e.day = today
              \/ TTL(cand'.stage) > TTL(cand.stage)]_vars
  BY StaleInvStep
<1> QED
  BY <1>1, <1>2, <1>3, PTL DEF Spec, StaleNeedsEvidence

-----------------------------------------------------------------------------
(* What the rules see: a dossier that grew is at least as good *)

TotalKept(c) == ~ c.override => c.total = Total(c.vector)

\* d has at least the anchors, networks and assessment of c.
Grows(c, d) ==
    /\ c.domain => d.domain
    /\ c.repo => d.repo
    /\ Present(c.merged) => Present(d.merged)
    /\ d.verified = c.verified /\ d.genesis = c.genesis /\ d.collision = c.collision
    /\ \A n \in c.nets : \E k \in d.nets : /\ k.env = n.env
                                           /\ n.id => k.id
                                           /\ n.rpc => k.rpc
    /\ IsFiniteSet(c.events) => IsFiniteSet(d.events)
    /\ c.label \in {"A1", "A2"} => d.label \in {"A1", "A2"}
    /\ TotalKept(c) => TotalKept(d) /\ c.total <= d.total

LEMMA GrowsTransitive ==
    ASSUME NEW a \in Candidate, NEW b \in Candidate, NEW c \in Candidate, Grows(a, b), Grows(b, c)
    PROVE  Grows(a, c)
<1>1. \A n \in a.nets : \E k \in c.nets : k.env = n.env /\ (n.id => k.id) /\ (n.rpc => k.rpc)
  <2>1. TAKE n \in a.nets
  <2>2. PICK j \in b.nets : j.env = n.env /\ (n.id => j.id) /\ (n.rpc => j.rpc)
    BY DEF Grows
  <2>3. PICK k \in c.nets : k.env = j.env /\ (j.id => k.id) /\ (j.rpc => k.rpc)
    BY <2>2 DEF Grows
  <2> QED
    BY <2>2, <2>3
<1>2. TotalKept(a) => TotalKept(c) /\ a.total <= c.total
  <2>1. a.total \in Int /\ b.total \in Int /\ c.total \in Int
    BY DEF Candidate
  <2> QED
    BY <2>1 DEF Grows
<1>3. /\ a.domain => c.domain
      /\ a.repo => c.repo
      /\ Present(a.merged) => Present(c.merged)
      /\ c.verified = a.verified /\ c.genesis = a.genesis /\ c.collision = a.collision
      /\ IsFiniteSet(a.events) => IsFiniteSet(c.events)
      /\ a.label \in {"A1", "A2"} => c.label \in {"A1", "A2"}
  BY DEF Grows
<1> QED
  BY <1>1, <1>2, <1>3 DEF Grows

\* The part of Grows that concerns single fields.
LEMMA GrowsWith ==
    ASSUME NEW c \in Candidate, NEW d,
           \A field \in {"merged", "verified", "genesis", "collision", "label", "total", "vector",
                         "override"} : d[field] = c[field],
           c.domain => d.domain,
           c.repo => d.repo,
           \/ d.nets = c.nets
           \/ \A n \in c.nets : \E k \in d.nets : k.env = n.env /\ (n.id => k.id) /\ (n.rpc => k.rpc),
           IsFiniteSet(c.events) => IsFiniteSet(d.events)
    PROVE  Grows(c, d)
<1>1. \A n \in c.nets : \E k \in d.nets : k.env = n.env /\ (n.id => k.id) /\ (n.rpc => k.rpc)
  OBVIOUS
<1>2. /\ d.merged = c.merged /\ d.verified = c.verified /\ d.genesis = c.genesis
      /\ d.collision = c.collision /\ d.label = c.label /\ d.total = c.total
      /\ d.vector = c.vector /\ d.override = c.override
  OBVIOUS
<1>3. TotalKept(c) => TotalKept(d) /\ c.total <= d.total
  <2>1. c.total \in Int
    BY DEF Candidate
  <2> QED
    BY <1>2, <2>1 DEF TotalKept
<1> QED
  BY <1>1, <1>2, <1>3 DEF Grows

LEMMA MergedGrows ==
    ASSUME NEW c \in Candidate, NEW obs \in Observation
    PROVE  Grows(c, Merged(c, obs))
<1> DEFINE d == Merged(c, obs)
<1>1. \A field \in DOMAIN c \ {"domain", "repo"} : d[field] = c[field]
  BY MergedType
<1>2. d.domain = (c.domain \/ obs.domain) /\ d.repo = (c.repo \/ obs.repo)
  BY DEF Merged, Candidate
<1> HIDE DEF d
<1>3. /\ \A field \in {"merged", "verified", "genesis", "collision", "label", "total", "vector",
                       "override"} : d[field] = c[field]
      /\ d.nets = c.nets /\ d.events = c.events
  BY <1>1 DEF Candidate
<1>4. Grows(c, d)
  BY <1>2, <1>3, GrowsWith
<1> QED
  BY <1>4 DEF d

LEMMA NetworkedGrows ==
    ASSUME NEW c \in Candidate, NEW obs \in Observation
    PROVE  Grows(c, Networked(c, obs))
<1> DEFINE d     == Networked(c, obs)
           known == {n \in c.nets : n.env = obs.env}
           net   == [env |-> obs.env, id  |-> obs.id \/ \E n \in known : n.id,
                                      rpc |-> obs.rpc \/ \E n \in known : n.rpc]
           nets  == (c.nets \ known) \cup {net}
<1>1. \A field \in DOMAIN c \ {"nets"} : d[field] = c[field]
  BY NetworkedType
<1>2. d = [c EXCEPT !.nets = nets]
  BY DEF Networked
<1>3. ASSUME NEW n \in c.nets
      PROVE  \E k \in nets : k.env = n.env /\ (n.id => k.id) /\ (n.rpc => k.rpc)
  <2>1. CASE n \in known
    <3>1. net \in nets
      OBVIOUS
    <3>2. net.env = n.env /\ (n.id => net.id) /\ (n.rpc => net.rpc)
      BY <2>1
    <3> QED
      BY <3>1, <3>2
  <2>2. CASE n \notin known
    <3>1. n \in nets
      BY <2>2
    <3> QED
      BY <3>1
  <2> QED
    BY <2>1, <2>2
<1> HIDE DEF d, nets
<1>4. d.nets = nets
  BY <1>2 DEF Candidate
<1>5. /\ \A field \in {"merged", "verified", "genesis", "collision", "label", "total", "vector",
                       "override"} : d[field] = c[field]
      /\ d.domain = c.domain /\ d.repo = c.repo /\ d.events = c.events
  BY <1>1 DEF Candidate
<1>6. Grows(c, d)
  BY <1>3, <1>4, <1>5, GrowsWith
<1> QED
  BY <1>6 DEF d

LEMMA LinkedGrows ==
    ASSUME today \in Days, NEW c \in Candidate, NEW source \in EventSources,
           NEW family \in EventFamilies, NEW key \in Keys
    PROVE  Grows(c, Linked(c, source, family, key))
<1> DEFINE d   == Linked(c, source, family, key)
           new == [source |-> source, family |-> family, key |-> key, day |-> today]
<1>1. \A field \in DOMAIN c \ {"events"} : d[field] = c[field]
  BY LinkedType
<1>2. d = c \/ d = [c EXCEPT !.events = c.events \cup {new}]
  BY DEF Linked
<1> HIDE DEF d, new
<1>3. d.events = c.events \/ d.events = c.events \cup {new}
  BY <1>2 DEF Candidate
<1>4. IsFiniteSet(c.events) => IsFiniteSet(d.events)
  BY <1>3, FS_AddElement
<1>5. /\ \A field \in {"merged", "verified", "genesis", "collision", "label", "total", "vector",
                       "override"} : d[field] = c[field]
      /\ d.domain = c.domain /\ d.repo = c.repo /\ d.nets = c.nets
  BY <1>1 DEF Candidate
<1>6. Grows(c, d)
  BY <1>4, <1>5, GrowsWith
<1> QED
  BY <1>6 DEF d

LEMMA ClaimedGrows ==
    ASSUME NEW c \in Candidate, NEW obs \in Observation
    PROVE  /\ Grows(c, Claimed(c, obs))
           /\ Claimed(c, obs).announced = IF obs.announces THEN obs.announced ELSE c.announced
<1> DEFINE announced == IF obs.announces THEN obs.announced ELSE c.announced
           d == [c EXCEPT !.created = Once(@, obs.created), !.opened = Once(@, obs.opened),
                          !.merged = Once(@, obs.merged), !.testnet = Once(@, obs.testnet),
                          !.announced = announced, !.live = Once(@, obs.live)]
           first == Earliest({d.first, d.created, d.opened, d.testnet, obs.since} \ {NoDate})
           e == [d EXCEPT !.first = first]
<1>1. Claimed(c, obs) = e
  BY DEF Claimed
<1>2. /\ \A field \in {"verified", "genesis", "collision", "label", "total", "vector", "override",
                       "domain", "repo", "nets", "events"} : d[field] = c[field]
      /\ d.merged = Once(c.merged, obs.merged)
      /\ d.announced = announced
      /\ DOMAIN d = DOMAIN c
  BY DEF Candidate
<1> HIDE DEF d, first, announced
<1>3. \A field \in DOMAIN c \ {"first"} : e[field] = d[field]
  BY <1>2
<1>4. /\ \A field \in {"verified", "genesis", "collision", "label", "total", "vector", "override",
                       "domain", "repo", "nets", "events"} : e[field] = c[field]
      /\ e.merged = Once(c.merged, obs.merged)
      /\ e.announced = announced
  BY <1>2, <1>3 DEF Candidate
<1> HIDE DEF e
<1>5. Present(c.merged) => Present(e.merged)
  BY <1>4 DEF Once
<1>6. /\ e.verified = c.verified /\ e.genesis = c.genesis /\ e.collision = c.collision
      /\ e.label = c.label /\ e.total = c.total /\ e.vector = c.vector /\ e.override = c.override
      /\ e.domain = c.domain /\ e.repo = c.repo /\ e.nets = c.nets /\ e.events = c.events
  BY <1>4
<1>7. c.total \in Int
  BY DEF Candidate
<1>8. Grows(c, e)
  BY <1>5, <1>6, <1>7 DEF Grows, TotalKept
<1> QED
  BY <1>1, <1>4, <1>8 DEF announced

LEMMA StagedGrows ==
    ASSUME NEW c \in Candidate, NEW envs
    PROVE  Grows(c, Staged(c, envs))
<1> DEFINE d == Staged(c, envs)
<1>1. \A field \in DOMAIN c \ {"stage"} : d[field] = c[field]
  BY StagedType
<1> HIDE DEF d
<1>2. /\ \A field \in {"merged", "verified", "genesis", "collision", "label", "total", "vector",
                       "override"} : d[field] = c[field]
      /\ d.domain = c.domain /\ d.repo = c.repo /\ d.nets = c.nets /\ d.events = c.events
  BY <1>1 DEF Candidate
<1>3. Grows(c, d)
  BY <1>2, GrowsWith
<1> QED
  BY <1>3 DEF d

\* No maximum lowers the total.
LEMMA LargerTotal ==
    ASSUME NEW old \in Features, NEW new \in Features
    PROVE  Total(old) <= Total([part \in DOMAIN new |-> Larger(old[part], new[part])])
<1> DEFINE v == [part \in DOMAIN new |-> Larger(old[part], new[part])]
           sum(f) == f.geo + f.action + f.use + f.contact + f.capacity
<1>1. DOMAIN new = {"geo", "action", "use", "contact", "capacity"}
  BY DEF Features
<1>2. \A part \in DOMAIN new : old[part] \in Nat /\ new[part] \in Nat
  BY DEF Features
<1>3. \A part \in DOMAIN new : v[part] \in Nat /\ old[part] <= v[part]
  BY <1>2 DEF Larger
<1> HIDE DEF v
<1>4. sum(old) \in Nat /\ sum(v) \in Nat /\ sum(old) <= sum(v)
  <2>1. /\ old.geo \in Nat /\ v.geo \in Nat /\ old.geo <= v.geo
        /\ old.action \in Nat /\ v.action \in Nat /\ old.action <= v.action
        /\ old.use \in Nat /\ v.use \in Nat /\ old.use <= v.use
        /\ old.contact \in Nat /\ v.contact \in Nat /\ old.contact <= v.contact
        /\ old.capacity \in Nat /\ v.capacity \in Nat /\ old.capacity <= v.capacity
    BY <1>1, <1>2, <1>3
  <2> QED
    BY <2>1
<1>5. Total(old) = AtMost(100, sum(old)) /\ Total(v) = AtMost(100, sum(v))
  BY DEF Total
<1> HIDE DEF sum
<1>6. Total(old) <= Total(v)
  BY <1>4, <1>5, AtMostMonotone
<1> QED
  BY <1>6 DEF v

LEMMA AssessedGrows ==
    ASSUME NEW c \in Candidate, NEW obs \in Observation, NEW text \in Text
    PROVE  Grows(c, Assessed(c, obs, text))
<1> DEFINE a == Assessed(c, obs, text)
<1>1. \A field \in DOMAIN c \ {"label", "confidence", "vector", "total"} : a[field] = c[field]
  BY AssessedType
<1>2. CASE c.override
  <2>1. a = c
    BY <1>2, AssessedType
  <2> HIDE DEF a
  <2>2. Grows(c, a)
    BY <2>1, GrowsWith
  <2> QED
    BY <2>2 DEF a
<1>3. CASE ~ c.override
  <2> DEFINE official == OfficialFamily(obs.family)
             contact  == obs.contact \/ c.domain
             activity == {e.family : e \in c.events} \cap ActivityFamilies # {}
             new      == Vector(text, official, contact, activity)
             vector   == [part \in DOMAIN new |-> Larger(c.vector[part], new[part])]
             stronger == LabelRank(Label(text, official)) >= LabelRank(c.label)
             label    == IF stronger THEN Label(text, official) ELSE c.label
             level    == IF stronger THEN LabelConfidence(text, official) ELSE c.confidence
             total    == Total(vector)
  <2>1. /\ a = [c EXCEPT !.label = label, !.confidence = level, !.vector = vector, !.total = total]
    BY <1>3 DEF Assessed
  <2>2. official \in BOOLEAN /\ contact \in BOOLEAN /\ activity \in BOOLEAN
    BY DEF OfficialFamily, Candidate, Observation
  <2>3. new \in Features
    BY <2>2, VectorType
  <2>4. c.vector \in Features /\ c.label \in Labels /\ c.total \in Int
    BY DEF Candidate
  <2>5. Total(c.vector) <= total
    <3> HIDE DEF new
    <3> QED
      BY <2>3, <2>4, LargerTotal
  <2>6. c.label \in {"A1", "A2"} => label \in {"A1", "A2"}
    <3>1. Label(text, official) \in {"A1", "A2", "A3", "A4"}
      BY DEF Label
    <3> HIDE DEF official
    <3> QED
      BY <3>1 DEF LabelRank
  <2> HIDE DEF label, level, vector, total, a
  <2>7. a.label = label /\ a.vector = vector /\ a.total = total
    BY <2>1 DEF Candidate
  <2>8. /\ a.merged = c.merged /\ a.verified = c.verified /\ a.genesis = c.genesis
        /\ a.collision = c.collision /\ a.domain = c.domain /\ a.repo = c.repo
        /\ a.nets = c.nets /\ a.events = c.events /\ a.override = c.override
    BY <1>1 DEF Candidate
  <2>9. TotalKept(c) => TotalKept(a) /\ c.total <= a.total
    BY <1>3, <2>5, <2>7 DEF TotalKept, total
  <2>10. Grows(c, a)
    BY <2>6, <2>7, <2>8, <2>9 DEF Grows
  <2> QED
    BY <2>10 DEF a
<1> QED
  BY <1>2, <1>3

\* An observation adds to the candidate that the resolver found or made.
LEMMA ObserveGrows ==
    ASSUME TypeOK, NEW doc \in story.docs, NEW same \in BOOLEAN, Observe(doc, same),
           NEW base, base = IF Known THEN cand ELSE Created(Reads(doc))
    PROVE  base \in Candidate /\ Grows(base, cand')
<1> DEFINE obs   == Reads(doc)
           m     == Merged(base, obs)
           n     == Networked(m, obs)
           l     == Linked(n, doc.source, obs.family, KeyOf(doc))
           d     == Claimed(l, obs)
           envs  == IF ~ Known THEN EnvsOf(n) ELSE IF same THEN held ELSE EnvsOf(base)
           s     == Staged(d, envs)
           text  == IF obs.text THEN doc.text ELSE NoText
           a     == Assessed(s, obs, text)
<1>1. doc \in Documents /\ today \in Days
  BY DocumentsOfStories DEF TypeOK
<1>2. cand' = a
  BY DEF Observe
<1>3. obs \in Observation /\ text \in Text
  BY <1>1, ReadsType, DocumentParts, NoTextType
<1>4. base \in Candidate
  BY <1>1, <1>3, CreatedType DEF TypeOK
<1>5. doc.source \in EventSources /\ obs.family \in EventFamilies
  BY <1>1, <1>3, DossierAssumption DEF Document, Observation, EventSources, EventFamilies
<1>6. KeyOf(doc) \in Keys
  BY <1>1, KeyOfDocument
<1> HIDE DEF obs, text, envs
<1>7. m \in Candidate /\ Grows(base, m)
  BY <1>3, <1>4, MergedType, MergedGrows
<1> HIDE DEF m
<1>8. n \in Candidate /\ Grows(m, n)
  BY <1>3, <1>7, NetworkedType, NetworkedGrows
<1> HIDE DEF n
<1>9. l \in Candidate /\ Grows(n, l)
  <2> DEFINE source == doc.source
             family == obs.family
             key    == KeyOf(doc)
             linked == Linked(n, source, family, key)
  <2>1. source \in EventSources /\ family \in EventFamilies /\ key \in Keys
    BY <1>5, <1>6
  <2>2. l = linked
    BY DEF l
  <2> HIDE DEF source, family, key, l
  <2>3. linked \in Candidate /\ Grows(n, linked)
    BY <1>1, <1>8, <2>1, LinkedType, LinkedGrows
  <2> QED
    BY <2>2, <2>3
<1> HIDE DEF l
<1>10. d \in Candidate /\ Grows(l, d)
  BY <1>3, <1>9, ClaimedType, ClaimedGrows
<1> HIDE DEF d
<1>11. s \in Candidate /\ Grows(d, s)
  BY <1>10, StagedType, StagedGrows
<1> HIDE DEF s
<1>12. a \in Candidate /\ Grows(s, a)
  BY <1>3, <1>11, AssessedType, AssessedGrows
<1> HIDE DEF a
<1>13. Grows(base, n)
  BY <1>4, <1>7, <1>8, GrowsTransitive
<1>14. Grows(base, d)
  <2>1. Grows(base, l)
    BY <1>4, <1>8, <1>9, <1>13, GrowsTransitive
  <2> QED
    BY <1>4, <1>9, <1>10, <2>1, GrowsTransitive
<1>15. Grows(base, s)
  BY <1>4, <1>10, <1>11, <1>14, GrowsTransitive
<1>16. Grows(base, a)
  BY <1>4, <1>11, <1>12, <1>15, GrowsTransitive
<1> QED
  BY <1>2, <1>4, <1>16

LEMMA EnrichedGrows ==
    ASSUME TypeOK, NEW raise \in Raises, Enriched(raise)
    PROVE  Grows(cand, cand')
<1> DEFINE key    == RaiseKey(raise)
           source == raise.source
           family == "capital"
           l      == Evidenced(cand, raise)
           rounds == Recorded(l.rounds, raise, Present(raise.date), key)
<1>1. /\ today \in Days /\ cand \in Candidate
      /\ source \in EventSources /\ family \in EventFamilies /\ key \in Keys
  BY RaiseParts DEF TypeOK, Enriched, EventSources, EventFamilies, Keys
<1>2. cand' = [l EXCEPT !.rounds = rounds]
  BY DEF Enriched
<1>3. l \in Candidate /\ Grows(cand, l)
  <2>1. Linked(cand, source, family, key) \in Candidate /\ Grows(cand, Linked(cand, source, family, key))
    <3> HIDE DEF key, source, family
    <3> QED
      BY <1>1, LinkedType, LinkedGrows
  <2>2. Grows(cand, cand)
    BY <1>1, GrowsWith
  <2>3. l \in {cand, Linked(cand, source, family, key)}
    BY DEF Evidenced
  <2> HIDE DEF l
  <2> QED
    BY <1>1, <2>1, <2>2, <2>3
<1> HIDE DEF l, rounds
<1>4. \A field \in DOMAIN l \ {"rounds"} : cand'[field] = l[field]
  BY <1>2
<1>5. PICK d : d = cand'
  OBVIOUS
<1>6. /\ \A field \in {"merged", "verified", "genesis", "collision", "label", "total", "vector",
                       "override"} : d[field] = l[field]
      /\ d.domain = l.domain /\ d.repo = l.repo /\ d.nets = l.nets /\ d.events = l.events
  BY <1>3, <1>4, <1>5 DEF Candidate
<1>7. Grows(l, d)
  BY <1>3, <1>6, GrowsWith
<1>8. d \in Candidate
  BY <1>5, EnrichedStep
<1>9. Grows(cand, d)
  BY <1>1, <1>3, <1>7, <1>8, GrowsTransitive
<1> QED
  BY <1>5, <1>9

-----------------------------------------------------------------------------
(* The invariant behind the properties of the score *)

\* The evidence is finite, the total is the vector's unless an analyst set it,
\* and the stage says whether the mainnet was live when it was computed.
Scorable == Known => /\ IsFiniteSet(cand.events)
                     /\ TotalKept(cand)
                     /\ Present(cand.live) <=> cand.stage \in {"S5", "S6"}

ScoreInv == StageInv /\ Scorable

LEMMA StageOfLive ==
    ASSUME NEW c, NEW envs
    PROVE  Present(c.live) <=> Stage(c, envs) \in {"S5", "S6"}
BY DEF Stage

LEMMA CreatedScorable ==
    ASSUME NEW obs
    PROVE  IsFiniteSet(Created(obs).events) /\ TotalKept(Created(obs))
<1>1. Created(obs).events = {} /\ Created(obs).total = 0
      /\ Created(obs).vector = Vector(NoText, FALSE, FALSE, FALSE)
  BY DEF Created
<1>2. Vector(NoText, FALSE, FALSE, FALSE) = [geo |-> 0, action |-> 0, use |-> 0, contact |-> 0, capacity |-> 0]
  <2>1. ~ Country(NoText) /\ NoText.areas = {} /\ NoText.uses = 0
    BY DEF NoText, Country, Corroborated
  <2>2. RegionalAction(NoText) = 0
    BY NoTextNamesNothing DEF RegionalAction, When
  <2>3. UseCaseFit(NoText) = 0
    BY <2>1 DEF UseCaseFit, AtMost
  <2> QED
    BY <2>1, <2>2, <2>3 DEF Vector, When
<1>3. Total([geo |-> 0, action |-> 0, use |-> 0, contact |-> 0, capacity |-> 0]) = 0
  BY DEF Total, AtMost
<1> QED
  BY <1>1, <1>2, <1>3, FS_EmptySet DEF TotalKept

LEMMA ScoreStep ==
    ASSUME ScoreInv, [Next]_vars
    PROVE  ScoreInv'
<1>1. TypeOK /\ TypeOK' /\ StageInv'
  BY StageStep DEF ScoreInv, StageInv
<1>2. SUFFICES Scorable'
  BY <1>1 DEF ScoreInv
<1>3. Known => /\ IsFiniteSet(cand.events) /\ TotalKept(cand)
               /\ Present(cand.live) <=> cand.stage \in {"S5", "S6"}
  BY DEF ScoreInv, Scorable
<1>4. ASSUME NEW doc \in story.docs, NEW same \in BOOLEAN, Observe(doc, same)
      PROVE  Scorable'
  <2>1. PICK base : base = IF Known THEN cand ELSE Created(Reads(doc))
    OBVIOUS
  <2>2. Grows(base, cand')
    BY <1>1, <1>4, <2>1, ObserveGrows
  <2>3. cand'.stage = Stage(cand', held')
    BY <1>1, <1>4, <2>1, ObserveStep
  <2>4. IsFiniteSet(base.events) /\ TotalKept(base)
    BY <1>3, <2>1, CreatedScorable
  <2>5. PICK c, h : c = cand' /\ h = held'
    OBVIOUS
  <2>6. IsFiniteSet(c.events) /\ TotalKept(c)
    BY <2>2, <2>4, <2>5 DEF Grows
  <2>7. Present(c.live) <=> c.stage \in {"S5", "S6"}
    <3>1. c.stage = Stage(c, h)
      BY <2>3, <2>5
    <3> QED
      BY <3>1, StageOfLive
  <2>8. TotalKept(cand)'
    BY <2>5, <2>6 DEF TotalKept
  <2> QED
    BY <2>5, <2>6, <2>7, <2>8 DEF Scorable
<1>5. ASSUME NEW raise \in Raises, Enriched(raise)
      PROVE  Scorable'
  <2>1. Known /\ Grows(cand, cand')
    BY <1>1, <1>5, EnrichedGrows DEF Enriched
  <2>2. cand'.stage = cand.stage /\ cand'.live = cand.live
    BY <1>1, <1>5, EnrichedStep DEF Kept
  <2>3. PICK c : c = cand'
    OBVIOUS
  <2>4. IsFiniteSet(c.events) /\ TotalKept(c)
    BY <1>3, <2>1, <2>3 DEF Grows
  <2>5. TotalKept(cand)'
    BY <2>3, <2>4 DEF TotalKept
  <2> QED
    BY <1>3, <2>1, <2>2, <2>3, <2>4, <2>5 DEF Scorable
<1>6. ASSUME NEW decision \in Decisions, Overridden(decision)
      PROVE  Scorable'
  <2>1. Known /\ cand'.override = TRUE /\ \A field \in Kept : cand'[field] = cand[field]
    BY <1>1, <1>6, OverriddenStep DEF Overridden
  <2>2. cand'.stage = cand.stage /\ cand'.live = cand.live /\ cand'.events = cand.events
    BY <2>1 DEF Kept
  <2> QED
    BY <1>3, <2>1, <2>2 DEF Scorable, TotalKept
<1>7. ASSUME Stamping
      PROVE  Scorable'
  <2>1. CASE Known
    <3>1. \A field \in Kept \cup {"label", "total", "override"} : cand'[field] = cand[field]
      BY <1>1, <1>7, <2>1, StampingStep
    <3>2. /\ cand'.stage = cand.stage /\ cand'.live = cand.live /\ cand'.events = cand.events
          /\ cand'.total = cand.total /\ cand'.vector = cand.vector /\ cand'.override = cand.override
      BY <3>1 DEF Kept
    <3> QED
      BY <1>3, <2>1, <3>2 DEF Scorable, TotalKept
  <2>2. CASE ~ Known
    <3>1. DayPasses \/ Namesakes
      BY <1>7, <2>2, Zenon DEF Stamping, Namesakes, NamesakeEnriched, CollisionRaised, VerifyRequested, Probed, Rebuilt
    <3> QED
      BY <2>2, <3>1 DEF DayPasses, Namesakes, NamesakeEnriched, Scorable, Known
  <2> QED
    BY <2>1, <2>2
<1>8. CASE UNCHANGED vars
  BY <1>3, <1>8 DEF vars, Scorable, TotalKept, Known
<1> QED
  BY <1>4, <1>5, <1>6, <1>7, <1>8 DEF Next, Stamping, Namesakes

LEMMA ScoreInit == Init => ScoreInv
BY StageInit DEF Init, ScoreInv, Scorable, Known

-----------------------------------------------------------------------------
(* The scores *)

Aged(c, day) ==
    {[family |-> e.family, source |-> e.source, key |-> e.key, age |-> day - e.day] : e \in c.events}

\* What a session of its own makes of the candidate c on a day.
Seen(f, c, day) ==
    /\ f.domain = c.domain /\ f.repo = c.repo /\ f.social = FALSE
    /\ f.pr = Present(c.opened) /\ f.merged = Present(c.merged)
    /\ f.network = (\E n \in c.nets : n.id \/ n.rpc)
    /\ f.rpc = (\E n \in c.nets : n.rpc)
    /\ f.genesis = c.genesis /\ f.fingerprint = c.verified /\ f.collision = c.collision
    /\ f.testnet = (Present(c.testnet) \/ \E n \in c.nets : n.env = "testnet")
    /\ f.announced = Present(c.announced) /\ f.live = Present(c.live)
    /\ f.token = FALSE
    /\ f.stage = c.stage /\ f.africa = c.total /\ f.label = c.label
    /\ f.events = Aged(c, day)

LEMMA ViewSeen == Seen(View(cand, EnvsOf(cand)), cand, today)
<1>1. {n \in cand.nets : n.env \in EnvsOf(cand)} = cand.nets
  BY DEF EnvsOf
<1> QED
  BY <1>1 DEF View, Seen, Aged

\* A candidate whose evidence is finite and of days that are over.
Datable(c, day) ==
    /\ c \in Candidate
    /\ day \in Days
    /\ IsFiniteSet(c.events)
    /\ \A e \in c.events : e.day <= day

LEMMA EventDay ==
    ASSUME NEW c \in Candidate, NEW e \in c.events
    PROVE  e.day \in Days /\ e.day \in Int
<1>1. e \in Event
  BY DEF Candidate
<1> QED
  BY <1>1, DayParts DEF Event

LEMMA AgedParts ==
    ASSUME NEW c, NEW day, Datable(c, day)
    PROVE  /\ IsFiniteSet(Aged(c, day))
           /\ \A v \in Aged(c, day) : v.age \in Nat
<1> DEFINE h == [e \in c.events |->
                   [family |-> e.family, source |-> e.source, key |-> e.key, age |-> day - e.day]]
<1>1. IsFiniteSet({h[e] : e \in DOMAIN h})
  <2>1. DOMAIN h = c.events
    OBVIOUS
  <2> HIDE DEF h
  <2> QED
    BY <2>1, ImageFinite DEF Datable
<1>2. {h[e] : e \in DOMAIN h} = Aged(c, day)
  BY DEF Aged
<1>3. ASSUME NEW e \in c.events
      PROVE  day - e.day \in Nat
  <2>1. e.day \in Int /\ day \in Int /\ e.day <= day
    BY EventDay, DayParts DEF Datable
  <2> QED
    BY <2>1
<1>4. \A v \in Aged(c, day) : v.age \in Nat
  BY <1>3 DEF Aged
<1> QED
  BY <1>1, <1>2, <1>4

LEMMA SeenSound ==
    ASSUME NEW f, NEW c, NEW day, Datable(c, day), Seen(f, c, day)
    PROVE  Sound(f)
<1>1. c \in Candidate
  BY DEF Datable
<1>2. /\ f.domain \in BOOLEAN /\ f.repo \in BOOLEAN /\ f.social \in BOOLEAN /\ f.genesis \in BOOLEAN
      /\ f.fingerprint \in BOOLEAN /\ f.collision \in BOOLEAN /\ f.token \in BOOLEAN
      /\ f.africa \in Nat
  <2>1. /\ c.domain \in BOOLEAN /\ c.repo \in BOOLEAN /\ c.genesis \in BOOLEAN
        /\ c.verified \in BOOLEAN /\ c.collision \in BOOLEAN
    BY <1>1 DEF Candidate
  <2>2. c.total \in Nat
    BY <1>1 DEF Candidate
  <2> QED
    BY <2>1, <2>2 DEF Seen
<1>3. /\ f.network \in BOOLEAN /\ f.rpc \in BOOLEAN /\ f.testnet \in BOOLEAN /\ f.pr \in BOOLEAN
      /\ f.merged \in BOOLEAN /\ f.announced \in BOOLEAN /\ f.live \in BOOLEAN
  BY Zenon DEF Seen, Present
<1>4. IsFiniteSet(f.events) /\ \A e \in f.events : e.age \in Nat
  BY AgedParts DEF Seen
<1> QED
  BY <1>2, <1>3, <1>4 DEF Sound

\* Evidence that is there for longer is worth no more.
LEMMA AgeingEvidence ==
    ASSUME NEW f, NEW g, NEW c, NEW day, NEW later \in Days, day <= later, Datable(c, day),
           Seen(f, c, later), Seen(g, c, day)
    PROVE  EvidencedBy(f, g)
<1>1. /\ f.events = Aged(c, later) /\ g.events = Aged(c, day) /\ f.stage = c.stage /\ g.stage = c.stage
      /\ c \in Candidate /\ day \in Days
  BY DEF Seen, Datable
<1>2. day \in Int /\ later \in Int
  BY <1>1, DayParts
<1>3. Datable(c, later)
  <2>1. \A e \in c.events : e.day <= later
    BY <1>1, <1>2, EventDay DEF Datable
  <2> QED
    BY <2>1 DEF Datable
<1> DEFINE back(v) == [family |-> v.family, source |-> v.source, key |-> v.key, age |-> v.age - (later - day)]
<1>4. ASSUME NEW v \in f.events
      PROVE  /\ back(v) \in g.events
             /\ back(v).family = v.family /\ back(v).source = v.source /\ back(v).key = v.key
             /\ back(v).age = v.age - (later - day)
             /\ v.age \in Nat /\ back(v).age \in Nat /\ back(v).age <= v.age
             /\ v = [family |-> v.family, source |-> v.source, key |-> v.key, age |-> v.age]
  <2>1. PICK e \in c.events : v = [family |-> e.family, source |-> e.source, key |-> e.key, age |-> later - e.day]
    BY <1>1 DEF Aged
  <2>2. e.day \in Int
    BY <1>1, DayParts DEF Candidate, Event
  <2>3. v.age - (later - day) = day - e.day
    BY <1>2, <2>1, <2>2
  <2>4. back(v) = [family |-> e.family, source |-> e.source, key |-> e.key, age |-> day - e.day]
    BY <2>1, <2>3
  <2>5. back(v) \in g.events
    BY <1>1, <2>4 DEF Aged
  <2>6. v.age \in Nat /\ back(v).age \in Nat
    BY <1>1, <1>3, <2>5, AgedParts
  <2>7. back(v).age <= v.age
    BY <1>2, <2>1, <2>2, <2>4
  <2> QED
    BY <2>1, <2>5, <2>6, <2>7
<1> HIDE DEF back
<1>5. Families(f) \subseteq Families(g)
  BY <1>4 DEF Families
<1>6. \A v \in f.events : \E w \in g.events : Decayed(v) <= Decayed(w)
  <2>1. TAKE v \in f.events
  <2>2. PICK w \in g.events : w = back(v)
    BY <1>4
  <2>3. w.family = v.family /\ w.age \in Nat /\ v.age \in Nat /\ w.age <= v.age
    BY <1>4, <2>2
  <2>4. Decayed(v) <= Decayed(w)
    BY <2>3, DecayedFalls
  <2> QED
    BY <2>4
<1>7. ASSUME NEW v \in Recent(f)
      PROVE  back(v) \in Recent(g) /\ back(v).source = v.source /\ back(v).family = v.family
  <2>1. v \in f.events /\ v.age <= 14
    BY DEF Recent
  <2>2. back(v) \in g.events /\ back(v).age <= 14
    BY <1>4, <2>1
  <2> QED
    BY <1>4, <2>1, <2>2 DEF Recent
<1>8. IsFiniteSet(Recent(g))
  <2>1. IsFiniteSet(g.events)
    BY <1>1, AgedParts
  <2>2. Recent(g) \in SUBSET g.events
    BY DEF Recent
  <2> QED
    BY <2>1, <2>2, FS_Subset
<1>9. Cardinality(Recent(f)) <= Cardinality(Recent(g))
  <2> DEFINE h == [v \in Recent(f) |-> back(v)]
  <2>1. h \in [Recent(f) -> Recent(g)]
    BY <1>7
  <2>2. ASSUME NEW v \in Recent(f), NEW w \in Recent(f), h[v] = h[w]
        PROVE  v = w
    <3>1. back(v) = back(w)
      BY <2>2
    <3>2. v \in f.events /\ w \in f.events
      BY DEF Recent
    <3>3. /\ v.family = w.family /\ v.source = w.source /\ v.key = w.key
          /\ v.age - (later - day) = w.age - (later - day)
          /\ v.age \in Nat /\ w.age \in Nat
      BY <1>4, <3>1, <3>2
    <3>4. v.age = w.age
      BY <1>2, <3>3
    <3> QED
      BY <1>4, <3>2, <3>3, <3>4
  <2> HIDE DEF h
  <2>3. h \in Injection(Recent(f), Recent(g))
    BY <2>1, <2>2 DEF Injection, IsInjective
  <2> QED
    BY <1>8, <2>3, FS_Injection
<1>10. /\ SourcesOf(Recent(f)) \subseteq SourcesOf(Recent(g))
       /\ Commercial(Recent(f)) => Commercial(Recent(g))
  BY <1>7 DEF SourcesOf, Commercial
<1>11. Stale(g) => Stale(f)
  <2>1. TTL(c.stage) \in Nat
    BY <1>1, TTLType DEF Candidate
  <2>2. SUFFICES ASSUME Stale(g), NEW v \in f.events
                 PROVE  v.age > TTL(f.stage)
    BY DEF Stale
  <2>3. back(v).age > TTL(c.stage) /\ back(v).age \in Nat /\ v.age \in Nat /\ back(v).age <= v.age
    BY <1>1, <1>4, <2>2 DEF Stale
  <2> QED
    BY <1>1, <2>1, <2>3
<1> QED
  BY <1>5, <1>6, <1>9, <1>10, <1>11 DEF EvidencedBy

\* The same candidate on a later day is no better.
LEMMA AgeingView ==
    ASSUME NEW f, NEW g, NEW c, NEW day, NEW later \in Days, day <= later, Datable(c, day),
           Seen(f, c, later), Seen(g, c, day)
    PROVE  AtLeast(f, g)
<1>1. EvidencedBy(f, g)
  BY AgeingEvidence
<1>2. /\ f.domain = g.domain /\ f.repo = g.repo /\ f.social = g.social /\ f.pr = g.pr
      /\ f.merged = g.merged /\ f.network = g.network /\ f.rpc = g.rpc /\ f.genesis = g.genesis
      /\ f.fingerprint = g.fingerprint /\ f.collision = g.collision /\ f.testnet = g.testnet
      /\ f.announced = g.announced /\ f.live = g.live /\ f.token = g.token
      /\ f.stage = g.stage /\ f.africa = g.africa /\ f.label = g.label
  BY DEF Seen
<1>3. f.africa \in Int
  BY DEF Seen, Datable, Candidate
<1>4. AnchoredBy(f, g)
  BY <1>2 DEF AnchoredBy
<1>5. DatedBy(f, g)
  BY <1>2, StageMomentumType DEF DatedBy, OutreachWindow
<1> QED
  BY <1>1, <1>2, <1>3, <1>4, <1>5 DEF AtLeast, TokenOnly

LEMMA DatableNow == ScoreInv /\ Known => Datable(cand, today)
BY DEF ScoreInv, StageInv, Scorable, TypeOK, Datable

\* RiskNeverHelps: a mismatch or failing endpoints never lift a state, for
\* whatever dossier the collectors, analysts and probes have made.
THEOREM RiskHarmless == Spec => []RiskNeverHelps
<1>1. ASSUME ScoreInv
      PROVE  RiskNeverHelps
  <2>1. SUFFICES ASSUME Known, NEW fingerprint \in BOOLEAN, NEW live \in BOOLEAN,
                        NEW c, NEW d,
                        c = [fingerprint |-> fingerprint, live |-> live, mismatch |-> TRUE, failures |-> 2],
                        d = [fingerprint |-> fingerprint, live |-> live, mismatch |-> FALSE, failures |-> 0]
                 PROVE  Rank(Standing(cand, c)) <= Rank(Standing(cand, d))
    BY DEF RiskNeverHelps
  <2>2. PICK f : f = View(cand, EnvsOf(cand))
    OBVIOUS
  <2>3. Datable(cand, today)
    BY <1>1, <2>1, DatableNow
  <2>4. Seen(f, cand, today)
    BY <2>2, ViewSeen
  <2>5. today \in Days /\ today <= today
    BY <2>3, DayParts DEF Datable
  <2>6. PICK k, day : k = cand /\ day = today
    OBVIOUS
  <2>7. AtLeast(f, f) /\ Sound(f)
    BY <2>3, <2>4, <2>5, <2>6, AgeingView, SeenSound
  <2>8. ChecksOut(c, d)
    BY <2>1 DEF ChecksOut
  <2>9. Rank(Rescored(f, c)) <= Rank(Rescored(f, d))
    BY <2>7, <2>8, RescoredMonotone
  <2> QED
    BY <2>2, <2>9 DEF Standing
<1> QED
  BY <1>1, ScoreInit, ScoreStep, PTL DEF Spec

LEMMA NoCheckOut == ChecksOut(NoCheck, NoCheck)
BY DEF ChecksOut, NoCheck

\* A rescore of a session of its own, from what is seen on a day.
LEMMA StandingSeen ==
    ASSUME NEW f, NEW g, Sound(f), Sound(g), AtLeast(f, g)
    PROVE  Rank(Rescored(f, NoCheck)) <= Rank(Rescored(g, NoCheck))
BY NoCheckOut, RescoredMonotone

\* TimeNeverHelps: a candidate that is only waited for never gains.
THEOREM TimeHarmless == Spec => TimeNeverHelps
<1>1. ASSUME ScoreInv, [Next]_vars, Known, today' # today
      PROVE  Rank(Standing(cand, NoCheck)') <= Rank(Standing(cand, NoCheck))
  <2>1. DayPasses
    <3>1. ~ UNCHANGED vars
      BY <1>1 DEF vars
    <3>2. \A doc \in story.docs, same \in BOOLEAN : ~ Observe(doc, same)
      BY <1>1 DEF Observe
    <3>3. ~ CollisionRaised /\ ~ VerifyRequested /\ ~ Rebuilt
      BY <1>1 DEF CollisionRaised, VerifyRequested, Rebuilt
    <3>4. ~ Probed
      BY <1>1, Zenon DEF Probed
    <3>5. /\ \A raise \in Raises : ~ Enriched(raise)
          /\ \A raise \in Raises : ~ NamesakeEnriched(raise)
          /\ \A decision \in Decisions : ~ Overridden(decision)
      BY <1>1 DEF Enriched, NamesakeEnriched, Overridden
    <3> QED
      BY <1>1, <3>1, <3>2, <3>3, <3>4, <3>5 DEF Next
  <2>2. cand' = cand /\ today' \in Days /\ today <= today'
    BY <1>1, <2>1, Forward DEF ScoreInv, StageInv, DayPasses
  <2>3. Datable(cand, today)
    BY <1>1, DatableNow
  <2>4. PICK c, day, later : c = cand /\ day = today /\ later = today'
    OBVIOUS
  <2>5. Datable(c, day) /\ later \in Days /\ day <= later
    BY <2>2, <2>3, <2>4, DayParts DEF Datable
  <2>6. PICK f, g : f = View(cand, EnvsOf(cand))' /\ g = View(cand, EnvsOf(cand))
    OBVIOUS
  <2>7. Seen(g, c, day)
    BY <2>4, <2>6, ViewSeen
  <2>8. Seen(f, c, later)
    <3>1. Seen(View(cand, EnvsOf(cand)), cand, today)'
      BY ViewSeen, PTL
    <3>2. Seen(View(cand, EnvsOf(cand))', cand', today')
      BY <3>1
    <3> QED
      BY <2>2, <2>4, <2>6, <3>2
  <2>9. Datable(c, later)
    <3>1. \A e \in c.events : e.day <= later
      BY <2>5, EventDay, DayParts DEF Datable
    <3> QED
      BY <2>5, <3>1 DEF Datable
  <2>10. AtLeast(f, g) /\ Sound(f) /\ Sound(g)
    BY <2>5, <2>7, <2>8, <2>9, AgeingView, SeenSound
  <2>11. Rank(Rescored(f, NoCheck)) <= Rank(Rescored(g, NoCheck))
    BY <2>10, StandingSeen
  <2>12. Standing(cand, NoCheck)' = Rescored(f, NoCheck) /\ Standing(cand, NoCheck) = Rescored(g, NoCheck)
    BY <2>6 DEF Standing
  <2> QED
    BY <2>11, <2>12
<1>2. ScoreInv /\ [Next]_vars =>
        [Known /\ today' # today
           => Rank(Standing(cand, NoCheck)') <= Rank(Standing(cand, NoCheck))]_vars
  BY <1>1
<1> QED
  BY <1>2, ScoreInit, ScoreStep, PTL DEF Spec, TimeNeverHelps

-----------------------------------------------------------------------------
(* Findings *)

\* With the mainnet as live as before, a stage that does not fall and does not
\* turn to S6 is as good.
LEMMA StageAsGood ==
    ASSUME NEW old \in Stages, NEW new \in Stages, StageRank(old) <= StageRank(new),
           old \in {"S5", "S6"} <=> new \in {"S5", "S6"},
           new = "S6" => old = "S6"
    PROVE  /\ StageMomentum(old) <= StageMomentum(new)
           /\ old # "S0" => new # "S0"
           /\ old \in {"S2", "S3", "S4", "S5"} => new \in {"S2", "S3", "S4", "S5"}
<1>1. /\ StageMomentum("S0") = 100 /\ StageMomentum("S1") = 100 /\ StageMomentum("S2") = 300
      /\ StageMomentum("S3") = 300 /\ StageMomentum("S4") = 350 /\ StageMomentum("S5") = 250
      /\ StageMomentum("S6") = 100
  BY DEF StageMomentum
<1>2. CASE old = "S6"
  BY <1>1, <1>2 DEF Stages
<1>3. CASE old = "S5"
  BY <1>1, <1>3 DEF Stages
<1>4. CASE old \notin {"S5", "S6"}
  <2>1. old \in {"S0", "S1", "S2", "S3", "S4"} /\ new \in {"S0", "S1", "S2", "S3", "S4"}
    BY <1>4 DEF Stages
  <2> QED
    BY <1>1, <2>1, StageRanks
<1> QED
  BY <1>2, <1>3, <1>4

\* More evidence, of the same day.
LEMMA MoreEvidence ==
    ASSUME NEW f, NEW g, NEW c, NEW d, NEW day, Datable(c, day), Datable(d, day),
           Seen(f, c, day), Seen(g, d, day), c.events \subseteq d.events,
           \E e \in d.events : e.day = day
    PROVE  EvidencedBy(f, g)
<1>1. f.events = Aged(c, day) /\ g.events = Aged(d, day) /\ g.stage = d.stage
  BY DEF Seen
<1>2. f.events \subseteq g.events
  BY <1>1 DEF Aged
<1>3. IsFiniteSet(g.events) /\ \A v \in g.events : v.age \in Nat
  BY <1>1, AgedParts
<1>4. Families(f) \subseteq Families(g)
  BY <1>2 DEF Families
<1>5. \A v \in f.events : \E w \in g.events : Decayed(v) <= Decayed(w)
  <2>1. TAKE v \in f.events
  <2>2. v \in g.events /\ Decayed(v) \in Int
    BY <1>2, <1>3, DecayedType
  <2> QED
    BY <2>2
<1>6. Recent(f) \in SUBSET Recent(g) /\ IsFiniteSet(Recent(g))
  <2>1. Recent(g) \in SUBSET g.events
    BY DEF Recent
  <2>2. IsFiniteSet(Recent(g))
    BY <1>3, <2>1, FS_Subset
  <2> QED
    BY <1>2, <2>2 DEF Recent
<1>7. Cardinality(Recent(f)) <= Cardinality(Recent(g))
  BY <1>6, FS_Subset
<1>8. /\ SourcesOf(Recent(f)) \subseteq SourcesOf(Recent(g))
      /\ Commercial(Recent(f)) => Commercial(Recent(g))
  BY <1>6 DEF SourcesOf, Commercial
<1>9. ~ Stale(g)
  <2>1. PICK e \in d.events : e.day = day
    OBVIOUS
  <2>2. PICK v \in g.events : v.age = day - e.day
    <3>1. [family |-> e.family, source |-> e.source, key |-> e.key, age |-> day - e.day] \in g.events
      BY <1>1 DEF Aged
    <3> QED
      BY <3>1
  <2>3. v.age = 0
    BY <2>1, <2>2, DayParts DEF Datable
  <2>4. TTL(g.stage) \in Nat
    BY <1>1, TTLType DEF Datable, Candidate
  <2> QED
    BY <2>2, <2>3, <2>4 DEF Stale
<1> QED
  BY <1>4, <1>5, <1>7, <1>8, <1>9 DEF EvidencedBy

LEMMA MoreFound ==
    ASSUME NEW f, NEW g, NEW c, NEW d, NEW day, Datable(c, day), Datable(d, day),
           Seen(f, c, day), Seen(g, d, day), Grows(c, d), TotalKept(c),
           c.events \subseteq d.events,
           \E e \in d.events : e.day = day,
           Present(c.opened) => Present(d.opened),
           Present(c.testnet) => Present(d.testnet),
           Present(c.announced) => Present(d.announced),
           d.live = c.live,
           StageMomentum(c.stage) <= StageMomentum(d.stage),
           c.stage # "S0" => d.stage # "S0",
           c.stage \in {"S2", "S3", "S4", "S5"} => d.stage \in {"S2", "S3", "S4", "S5"}
    PROVE  AtLeast(f, g)
<1>1. EvidencedBy(f, g)
  BY MoreEvidence
<1>2. /\ c.domain => d.domain
      /\ c.repo => d.repo
      /\ Present(c.merged) => Present(d.merged)
      /\ d.verified = c.verified /\ d.genesis = c.genesis /\ d.collision = c.collision
      /\ c.label \in {"A1", "A2"} => d.label \in {"A1", "A2"}
      /\ c.total <= d.total
  BY DEF Grows
<1>3. \A n \in c.nets : \E k \in d.nets : k.env = n.env /\ (n.id => k.id) /\ (n.rpc => k.rpc)
  BY DEF Grows
<1>4. /\ f.rpc => g.rpc
      /\ f.testnet => g.testnet
  <2>1. (\E n \in c.nets : n.rpc) => \E k \in d.nets : k.rpc
    BY <1>3
  <2>2. (\E n \in c.nets : n.env = "testnet") => \E k \in d.nets : k.env = "testnet"
    BY <1>3
  <2> QED
    BY <2>1, <2>2 DEF Seen
<1>5. AnchoredBy(f, g)
  BY <1>2, <1>4 DEF AnchoredBy, Seen
<1>6. DatedBy(f, g)
  <2>1. f.stage = c.stage /\ g.stage = d.stage /\ f.label = c.label /\ g.label = d.label
    BY DEF Seen
  <2>2. /\ f.announced => g.announced
        /\ f.live => g.live
    BY DEF Seen
  <2>3. OutreachWindow(f) => OutreachWindow(g)
    BY <1>2, <2>1 DEF OutreachWindow
  <2> QED
    BY <1>4, <2>1, <2>2, <2>3 DEF DatedBy
<1>7. f.africa <= g.africa /\ (g.collision => f.collision) /\ ~ TokenOnly(g)
  BY <1>2 DEF Seen, TokenOnly
<1> QED
  BY <1>1, <1>5, <1>6, <1>7 DEF AtLeast

\* A step that finds something, and what it leaves of the dates.
LEMMA FindingStep ==
    ASSUME ScoreInv, [Next]_vars, Known, cand'.events # cand.events
    PROVE  /\ cand' \in Candidate
           /\ Grows(cand, cand')
           /\ cand.events \subseteq cand'.events
           /\ Present(cand.opened) => Present(cand'.opened)
           /\ Present(cand.testnet) => Present(cand'.testnet)
<1>1. TypeOK
  BY DEF ScoreInv, StageInv
<1>2. ASSUME NEW doc \in story.docs, NEW same \in BOOLEAN, Observe(doc, same)
      PROVE  /\ cand' \in Candidate
             /\ Grows(cand, cand')
             /\ cand.events \subseteq cand'.events
             /\ Present(cand.opened) => Present(cand'.opened)
             /\ Present(cand.testnet) => Present(cand'.testnet)
  <2>1. PICK base : base = IF Known THEN cand ELSE Created(Reads(doc))
    OBVIOUS
  <2>2. base = cand
    BY <2>1
  <2>3. Grows(base, cand')
    BY <1>1, <1>2, <2>1, ObserveGrows
  <2>4. /\ cand' \in Candidate
        /\ base.events \subseteq cand'.events
        /\ cand'.opened = Once(base.opened, Reads(doc).opened)
        /\ cand'.testnet = Once(base.testnet, Reads(doc).testnet)
    BY <1>1, <1>2, <2>1, ObserveStep
  <2> QED
    BY <2>2, <2>3, <2>4 DEF Once
<1>3. ASSUME NEW raise \in Raises, Enriched(raise)
      PROVE  /\ cand' \in Candidate
             /\ Grows(cand, cand')
             /\ cand.events \subseteq cand'.events
             /\ Present(cand.opened) => Present(cand'.opened)
             /\ Present(cand.testnet) => Present(cand'.testnet)
  BY <1>1, <1>3, EnrichedGrows, EnrichedStep DEF Kept
<1>4. ASSUME NEW decision \in Decisions, Overridden(decision)
      PROVE  FALSE
  BY <1>1, <1>4, OverriddenStep DEF Kept
<1>5. ASSUME Stamping
      PROVE  FALSE
  BY <1>1, <1>5, StampingStep DEF Kept
<1>6. ~ UNCHANGED vars
  BY DEF vars
<1> QED
  BY <1>2, <1>3, <1>4, <1>5, <1>6 DEF Next, Stamping, Namesakes

\* FindingNeverHurts: whatever documents and raises there are and in whatever
\* order they come, new evidence never costs a candidate its state, but for the
\* three turns that the property names: live, seen to be live for long, withdrawn.
THEOREM FindingHarmless == Spec => FindingNeverHurts
<1>1. ASSUME ScoreInv, [Next]_vars, Known, cand'.events # cand.events, today' = today,
             cand'.live = cand.live,
             Present(cand.announced) => Present(cand'.announced),
             cand'.stage = "S6" => cand.stage = "S6"
      PROVE  Rank(Standing(cand, NoCheck)') >= Rank(Standing(cand, NoCheck))
  <2>1. PICK c, d, day : c = cand /\ d = cand' /\ day = today
    OBVIOUS
  <2>2. /\ d \in Candidate /\ Grows(c, d) /\ c.events \subseteq d.events
        /\ Present(c.opened) => Present(d.opened)
        /\ Present(c.testnet) => Present(d.testnet)
    BY <1>1, <2>1, FindingStep
  <2>3. Known'
    BY <2>1, <2>2, KnownCandidate
  <2>4. ScoreInv'
    BY <1>1, ScoreStep
  <2>5. Datable(c, day)
    BY <1>1, <2>1, DatableNow
  <2>6. Datable(d, day)
    <3>1. ScoreInv' /\ Known' => Datable(cand, today)'
      BY DatableNow, PTL
    <3>2. Datable(cand', today')
      BY <2>3, <2>4, <3>1
    <3> QED
      BY <1>1, <2>1, <3>2
  <2>7. PICK f, g : f = View(cand, EnvsOf(cand)) /\ g = View(cand, EnvsOf(cand))'
    OBVIOUS
  <2>8. Seen(f, c, day)
    BY <2>1, <2>7, ViewSeen
  <2>9. Seen(g, d, day)
    <3>1. Seen(View(cand, EnvsOf(cand)), cand, today)'
      BY ViewSeen, PTL
    <3>2. Seen(View(cand, EnvsOf(cand))', cand', today')
      BY <3>1
    <3> QED
      BY <1>1, <2>1, <2>7, <3>2
  <2>10. \E e \in d.events : e.day = day
    <3>1. PICK e \in d.events : e \notin c.events
      BY <1>1, <2>1, <2>2
    <3>2. e.day = today
      BY <1>1, <2>1, <3>1, NewIsToday DEF ScoreInv, StageInv
    <3> QED
      BY <2>1, <3>1, <3>2
  <2>11. /\ TotalKept(c)
         /\ Present(c.live) <=> c.stage \in {"S5", "S6"}
         /\ Present(d.live) <=> d.stage \in {"S5", "S6"}
    BY <1>1, <2>1, <2>3, <2>4 DEF ScoreInv, Scorable, TotalKept
  <2>12. c.stage \in Stages /\ d.stage \in Stages
    BY <2>2, <2>5 DEF Datable, Candidate
  <2>13. StageRank(c.stage) <= StageRank(d.stage)
    <3>1. ~ (StageRank(d.stage) < StageRank(c.stage))
      BY <1>1, <2>1, StageStep DEF ScoreInv
    <3> QED
      BY <2>12, <3>1, StageRankType
  <2>14. /\ StageMomentum(c.stage) <= StageMomentum(d.stage)
         /\ c.stage # "S0" => d.stage # "S0"
         /\ c.stage \in {"S2", "S3", "S4", "S5"} => d.stage \in {"S2", "S3", "S4", "S5"}
    BY <1>1, <2>1, <2>11, <2>12, <2>13, StageAsGood
  <2>15. d.live = c.live /\ (Present(c.announced) => Present(d.announced))
    BY <1>1, <2>1
  <2>16. AtLeast(f, g)
    BY <2>2, <2>5, <2>6, <2>8, <2>9, <2>10, <2>11, <2>14, <2>15, MoreFound
  <2>17. Sound(f) /\ Sound(g)
    BY <2>5, <2>6, <2>8, <2>9, SeenSound
  <2>18. Rank(Rescored(f, NoCheck)) <= Rank(Rescored(g, NoCheck))
    BY <2>16, <2>17, StandingSeen
  <2>19. Standing(cand, NoCheck) = Rescored(f, NoCheck) /\ Standing(cand, NoCheck)' = Rescored(g, NoCheck)
    BY <2>7 DEF Standing
  <2>20. \A s, t : Rank(s) <= Rank(t) => Rank(t) >= Rank(s)
    OBVIOUS
  <2> QED
    BY <2>18, <2>19, <2>20
<1>2. ScoreInv /\ [Next]_vars =>
        [Known /\ cand'.events # cand.events /\ today' = today
            /\ cand'.live = cand.live /\ (Present(cand.announced) => Present(cand'.announced))
            /\ (cand'.stage = "S6" => cand.stage = "S6")
           => Rank(Standing(cand, NoCheck)') >= Rank(Standing(cand, NoCheck))]_vars
  BY <1>1
<1> QED
  BY <1>2, ScoreInit, ScoreStep, PTL DEF Spec, FindingNeverHurts
=============================================================================
