------------------------------- MODULE Africa -------------------------------
(***************************************************************************)
(* The Africa classifier: what a text says of places and of intent, the    *)
(* feature vector it is worth in points, and the label A1 to A5.           *)
(*                                                                         *)
(* A text is [country, ambiguous, areas, currency, rail, languages,        *)
(* launch, program, uses]: it names a country or hub; it has a form that is*)
(* a country's name only in an African context; the regions, pan-African   *)
(* terms and blocs among its areas; a currency code, a payment rail, how   *)
(* many languages; hiring or market entry, programs or partnership; how    *)
(* many use cases.  Lexicons, matching and snippets are left out.          *)
(***************************************************************************)
EXTENDS Points, FiniteSets

Areas == {"region", "panafrica", "bloc"}

Text ==
    [country: BOOLEAN, ambiguous: BOOLEAN, areas: SUBSET Areas, currency: BOOLEAN, rail: BOOLEAN,
     languages: Nat, launch: BOOLEAN, program: BOOLEAN, uses: Nat]

NoText == [country |-> FALSE, ambiguous |-> FALSE, areas |-> {}, currency |-> FALSE,
           rail |-> FALSE, languages |-> 0, launch |-> FALSE, program |-> FALSE, uses |-> 0]

\* Second pass: a region alone does not corroborate an ambiguous form.
Corroborated(text) ==
    \/ text.country
    \/ text.areas \cap {"panafrica", "bloc"} # {}
    \/ text.currency

Country(text) == text.country \/ (text.ambiguous /\ Corroborated(text))

HasGeography(text) == Country(text) \/ text.areas # {}

Intent(text) == text.launch \/ text.program

\* A concrete act, and only of a text that names a place.
RegionalAction(text) ==
    When(HasGeography(text),
         AtMost(20, When(text.launch, 12) + When(text.program, 8)
                        + When(text.rail \/ text.currency, 8)))

UseCaseFit(text) == AtMost(15, 5 * text.uses)

\* What was not observed is worth nothing; nobody observes a local team.
Vector(text, official, contact, activity) ==
    [geo |-> IF Country(text) THEN (IF official THEN 30 ELSE 15)
             ELSE When(text.areas # {}, IF official THEN 20 ELSE 10),
     action   |-> RegionalAction(text),
     use      |-> UseCaseFit(text),
     contact  |-> When(contact, 10),
     capacity |-> When(activity, 10)]

Total(vector) ==
    AtMost(100, vector.geo + vector.action + vector.use + vector.contact + vector.capacity)

\* Mutant: is_official_source defaults to TRUE.
LabelOfficial(text, official) ==
    IF HasGeography(text) /\ Intent(text) THEN "A1"
    ELSE IF HasGeography(text) \/ text.uses >= 1 THEN "A3"
    ELSE "A4"

\* _assign_label; A5 needs a local team.
Label(text, official) ==
    IF official /\ HasGeography(text) /\ Intent(text) THEN "A1"
    ELSE IF /\ HasGeography(text)
            /\ RegionalAction(text) >= 8 \/ text.rail \/ text.currency \/ text.languages > 1 THEN "A2"
    ELSE IF UseCaseFit(text) >= 5 \/ HasGeography(text) THEN "A3"
    ELSE "A4"

\* _confidence, in hundredths.
LabelConfidence(text, official) ==
    IF Label(text, official) = "A4" THEN 0
    ELSE 45 + (IF Country(text) THEN 25 ELSE When(text.areas # {}, 15)) + When(official, 20)
            - When(text.ambiguous /\ ~ Corroborated(text), 10)
=============================================================================
