------------------------------ MODULE Funding ------------------------------
(***************************************************************************)
(* Funding rounds: what counts as a raise in a text, and when a sighting   *)
(* is the round that is on record already.                                 *)
(*                                                                         *)
(* A sentence is [verb, amount, usd, round, investors]: it says that       *)
(* somebody raises; the amount as published, 0 for none, in dollars or in  *)
(* another currency; the type of the round; whether investors are named.   *)
(* An article is [id, date, sentences].  Patterns and names are left out.  *)
(***************************************************************************)
EXTENDS Points

Undisclosed == "undisclosed"

\* parse_amount keeps another currency as published and converts nothing.
Dollars(s) == s.usd /\ s.amount # 0

\* Neither a figure nor a named round is nothing worth recording.
IsSignal(s) == s.verb /\ (s.amount # 0 \/ s.round # Undisclosed)

\* In hundredths.
SignalConfidence(s, official) ==
    30 + When(Dollars(s), 30) + When(s.round # Undisclosed, 15)
       + When(s.investors, 10) + When(official, 15)

What(s) == <<s.round, s.amount>>

\* extract and _deduplicate: of one announcement in a text the most confident.
Signals(sentences, official) ==
    {s \in sentences :
        /\ IsSignal(s)
        /\ \A t \in sentences : IsSignal(t) /\ What(t) = What(s) =>
                SignalConfidence(s, official) >= SignalConfidence(t, official)}

\* search_live_news_funding.
Reported(article) ==
    {[source |-> "funding_live_search", id |-> <<article.id, What(s)>>, what |-> What(s),
      date |-> article.date] :
        s \in {t \in Signals(article.sentences, FALSE) : Dollars(t) \/ t.round # Undisclosed}}

\* Mutant: no deduplication.
RecordedAnew(rounds, raise, dated, key) ==
    rounds \cup {[what |-> raise.what, date |-> raise.date, evidence |-> key]}

\* record_funding_round: the date is compared only where the sighting has one.
Recorded(rounds, raise, dated, key) ==
    IF \E r \in rounds : r.what = raise.what /\ (dated => r.date = raise.date) THEN rounds
    ELSE rounds \cup {[what |-> raise.what, date |-> raise.date, evidence |-> key]}
=============================================================================
