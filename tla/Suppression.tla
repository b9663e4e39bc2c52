----------------------------- MODULE Suppression -----------------------------
(***************************************************************************)
(* Contacts and opt-outs: ingest sessions that record the contacts a       *)
(* source publishes, the two ways an opt-out is entered (the API endpoint  *)
(* and the compliance manager), and the clean-up of inactive contacts.     *)
(* The same channel may be published for several organizations.  Opt-outs  *)
(* live on the contact rows; there is no table of their own.  Sessions and *)
(* opt-outs are transactions at READ COMMITTED and overlap as they like.   *)
(***************************************************************************)
EXTENDS Naturals, FiniteSets

CONSTANTS
    Channels,       \* addresses, forms, handles
    Orgs,
    Sessions,       \* ingest sessions
    Hashes,
    Fold,           \* channel_hash: strip, casefold, SHA-256
    Lower,          \* the repository's own: lower, strip, SHA-256
    Paths,          \* the ways opt-outs are entered: "api", "compliance"
    NoOrg,          \* the placeholder row belongs to no organization
    MaxRows         \* bound: contact rows ever inserted

ASSUME SuppressionAssumption ==
    /\ Fold \in [Channels -> Hashes]
    /\ Lower \in [Channels -> Hashes]
    /\ Paths \subseteq {"api", "compliance"}
    /\ NoOrg \notin Orgs
    /\ MaxRows \in Nat

VARIABLES
    contacts,       \* committed rows
    sess,           \* each ingest session
    request,        \* the opt-out that has read its rows and not committed, if any
    optedOut,       \* channels whose owner opted out
    raced,          \* history: hashes whose last opt-out overlapped with an insert
    inserted        \* rows inserted so far, and the id of the last

optOutVars == <<request, optedOut, raced>>
vars       == <<contacts, sess, optOutVars, inserted>>

Row  == [id: 1..MaxRows, hash: Hashes, org: Orgs \cup {NoOrg}, suppressed: BOOLEAN, old: BOOLEAN]
Idle == [pc |-> "idle", entry |-> {}, rows |-> {}]

\* An opt-out under way: the rows it read, and whether a session has committed
\* another row of its hash since.
Request == [by: {"api", "compliance"}, channel: Channels, ids: SUBSET (1..MaxRows), crossed: BOOLEAN]

TypeOK ==
    /\ contacts \subseteq Row
    /\ \A r1, r2 \in contacts : r1.id = r2.id => r1 = r2
    /\ \A s \in Sessions :
        /\ sess[s].pc \in {"idle", "item", "checked", "raised"}
        /\ sess[s].entry \subseteq Channels \X Orgs
        /\ sess[s].rows \subseteq Row
    /\ request \subseteq Request
    /\ \A r1, r2 \in request : r1 = r2
    /\ optedOut \subseteq Channels
    /\ raced \subseteq Hashes
    /\ inserted \in 0..MaxRows

Init ==
    /\ contacts = {}
    /\ sess = [s \in Sessions |-> Idle]
    /\ request = {}
    /\ optedOut = {}
    /\ raced = {}
    /\ inserted = 0

\* The hash that each way to opt out looks rows up by.
Hash(by, c) == IF by = "api" THEN Fold[c] ELSE Lower[c]
HashOf(r)   == Hash(r.by, r.channel)

-----------------------------------------------------------------------------
(* Ingest *)

\* An observation names a contact of the organization it resolved to.
TakeItem(s) ==
    /\ sess[s].pc = "idle"
    /\ \E c \in Channels, o \in Orgs :
        sess' = [sess EXCEPT ![s].pc = "item", ![s].entry = {<<c, o>>}]
    /\ UNCHANGED <<contacts, optOutVars, inserted>>

Channel(s) == (CHOOSE entry \in sess[s].entry : TRUE)[1]
Org(s)     == (CHOOSE entry \in sess[s].entry : TRUE)[2]
Visible(s) == contacts \cup sess[s].rows

\* Mutant: whether the row is suppressed is not asked for the other rows.
SuppressedRowsOfOrg(s) ==
    {row \in Visible(s) : row.hash = Lower[Channel(s)] /\ row.suppressed /\ row.org = Org(s)}

SuppressedRows(s) == {row \in Visible(s) : row.hash = Lower[Channel(s)] /\ row.suppressed}

\* is_suppressed, with scalar_one_or_none: a second row raises.
CheckSuppressed(s) ==
    /\ sess[s].pc = "item"
    /\ sess' = [sess EXCEPT ![s] =
        CASE SuppressedRows(s) = {}                -> [@ EXCEPT !.pc = "checked"]
          [] Cardinality(SuppressedRows(s)) = 1 -> Idle
          [] Cardinality(SuppressedRows(s)) > 1 -> [@ EXCEPT !.pc = "raised"]]
    /\ UNCHANGED <<contacts, optOutVars, inserted>>

\* One contact per channel and organization; it commits with the session.
Record(s) ==
    /\ sess[s].pc = "checked"
    /\ sess[s].rows = {}
    /\ ~ \E row \in Visible(s) : row.hash = Fold[Channel(s)] /\ row.org = Org(s)
    /\ inserted < MaxRows
    /\ inserted' = inserted + 1
    /\ sess' = [sess EXCEPT ![s].rows = {[id |-> inserted + 1, hash |-> Fold[Channel(s)],
                                          org |-> Org(s), suppressed |-> FALSE, old |-> FALSE]}]
    /\ UNCHANGED <<contacts, optOutVars>>

KnownContact(s) ==
    /\ sess[s].pc = "checked"
    /\ sess[s].rows = {}
    /\ \E row \in Visible(s) : row.hash = Fold[Channel(s)] /\ row.org = Org(s)
    /\ sess' = [sess EXCEPT ![s] = Idle]
    /\ UNCHANGED <<contacts, optOutVars, inserted>>

Commit(s) ==
    /\ sess[s].rows # {}
    /\ contacts' = contacts \cup sess[s].rows
    /\ sess' = [sess EXCEPT ![s] = Idle]
    /\ request' = {[r EXCEPT !.crossed = @ \/ HashOf(r) = Fold[Channel(s)]] : r \in request}
    /\ UNCHANGED <<optedOut, raced, inserted>>

\* The item failed: on what is_suppressed raised, or on anything behind it.
RollBack(s) ==
    /\ sess[s].pc \in {"checked", "raised"}
    /\ sess' = [sess EXCEPT ![s] = Idle]
    /\ UNCHANGED <<contacts, optOutVars, inserted>>

-----------------------------------------------------------------------------
(* Opt-outs and clean-up *)

\* Both ways to opt out read the rows of the hash first.
OptOutReads(c) ==
    /\ request = {}
    /\ \E by \in Paths :
        request' = {[by |-> by, channel |-> c, crossed |-> FALSE,
                     ids |-> {row.id : row \in {row \in contacts : row.hash = Hash(by, c)}}]}
    /\ UNCHANGED <<contacts, sess, optedOut, raced, inserted>>

\* The update is by id: one of a row that the clean-up has deleted fails.
Present(r) == r.ids \subseteq {row.id : row \in contacts}

OptOutFails(r) ==
    /\ ~ Present(r)
    /\ request' = {}
    /\ UNCHANGED <<contacts, sess, optedOut, raced, inserted>>

\* A session was told that the hash is open and has not committed its row.
InWindow(hash) == \E s \in Sessions : sess[s].pc = "checked" /\ Fold[Channel(s)] = hash

\* The opt-out commits; only what reads it from then on is sure to see it.
Honoured(r) ==
    /\ Present(r)
    /\ request' = {}
    /\ optedOut' = optedOut \cup {r.channel}
    /\ raced' = IF InWindow(HashOf(r)) \/ r.crossed THEN raced \cup {HashOf(r)}
                                                   ELSE raced \ {HashOf(r)}
    /\ UNCHANGED sess

Suppressing(ids) ==
    {IF row.id \in ids THEN [row EXCEPT !.suppressed = TRUE] ELSE row : row \in contacts}

\* Mutant: the suppressed row is written beside the old one.
SuppressContactCopies(r) ==
    /\ r.by = "api"
    /\ Honoured(r)
    /\ contacts' = contacts \cup Suppressing(r.ids)
    /\ UNCHANGED inserted

\* POST /contacts/suppress.
SuppressContact(r) ==
    /\ r.by = "api"
    /\ Honoured(r)
    /\ contacts' = Suppressing(r.ids)
    /\ UNCHANGED inserted

\* PrivacyComplianceManager.suppress_contact: a placeholder keeps the hash
\* when no contact has it.
AddSuppression(r) ==
    /\ r.by = "compliance"
    /\ Honoured(r)
    /\ IF r.ids # {}
       THEN /\ contacts' = Suppressing(r.ids)
            /\ UNCHANGED inserted
       ELSE /\ inserted < MaxRows
            /\ inserted' = inserted + 1
            /\ contacts' = contacts \cup {[id |-> inserted + 1, hash |-> HashOf(r), org |-> NoOrg,
                                           suppressed |-> TRUE, old |-> FALSE]}

\* Ninety days without a verification.
Age ==
    /\ \E row \in contacts : ~ row.old
    /\ contacts' = {[row EXCEPT !.old = TRUE] : row \in contacts}
    /\ UNCHANGED <<sess, optOutVars, inserted>>

\* Mutant: opt-outs expire too.
CleanUpAll ==
    /\ \E row \in contacts : row.old
    /\ contacts' = {row \in contacts : ~ row.old}
    /\ UNCHANGED <<sess, optOutVars, inserted>>

\* run_90_day_contact_retention_cleanup.
CleanUp ==
    /\ \E row \in contacts : row.old /\ ~ row.suppressed
    /\ contacts' = {row \in contacts : ~ row.old \/ row.suppressed}
    /\ UNCHANGED <<sess, optOutVars, inserted>>

Next ==
    \/ \E s \in Sessions :
        \/ TakeItem(s)
        \/ CheckSuppressed(s)
        \/ Record(s)
        \/ KnownContact(s)
        \/ Commit(s)
        \/ RollBack(s)
    \/ \E c \in Channels : OptOutReads(c)
    \/ \E r \in request : OptOutFails(r) \/ SuppressContact(r) \/ AddSuppression(r)
    \/ Age
    \/ CleanUp

Spec == Init /\ [][Next]_vars

-----------------------------------------------------------------------------
(* Properties *)

\* "A suppressed channel must never re-enter outreach, even if a source
\* re-publishes it": no contact of an opted-out channel is open, whatever
\* organization it is published for and however old it is; hashes whose opt-out
\* overlapped with an insert left aside.
OptOutHonoured ==
    \A c \in optedOut : \A row \in contacts :
        row.hash = Fold[c] /\ row.hash \notin raced => row.suppressed

\* "A source republishing the address must never bring it back into outreach":
\* the rows of one channel agree, so that an opt-out which reached one of them
\* covers every organization the channel is published for, later too.  This is
\* less than the words say, by the one gap that the code leaves, between a
\* session's check of the channel and the commit of its row: an opt-out that
\* commits there may miss the row, or the row the opt-out, until an opt-out of the
\* channel is entered again outside of it.  For those hashes (raced) it fails.
ChannelAgrees ==
    \A r1, r2 \in contacts :
        r1.hash = r2.hash /\ r1.hash \notin raced => r1.suppressed = r2.suppressed

\* "Suppression outlives deletion" (retention): the hash of an opt-out that
\* was recorded stays on record through clean-up and re-ingestion.
SuppressionSticks ==
    [][\A h \in Hashes : (\E row \in contacts : row.hash = h /\ row.suppressed)
                            => (\E row \in contacts' : row.hash = h /\ row.suppressed)]_vars
=============================================================================
