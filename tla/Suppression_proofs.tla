-------------------------- MODULE Suppression_proofs --------------------------
(***************************************************************************)
(* Opt-outs, for every set of channels, organizations and ingest sessions: *)
(* an opt-out on record stays on record, and it covers every row of its    *)
(* channel that no session was about to insert when it committed.          *)
(***************************************************************************)
EXTENDS Suppression, FiniteSetTheorems, FunctionTheorems, TLAPS

-----------------------------------------------------------------------------
(* Type correctness *)

Session == [pc: {"idle", "item", "checked", "raised"},
            entry: SUBSET (Channels \X Orgs), rows: SUBSET Row]

\* A session that has an item knows the channel and the organization of it.
Entered == \A s \in Sessions : sess[s].pc # "idle" => sess[s].entry # {}

\* Only a session that asked about its channel holds a row of its own.
Asked == \A s \in Sessions : sess[s].rows # {} => sess[s].pc = "checked"

\* An id is given out once, whether or not the row is committed.
Numbered ==
    /\ \A row \in contacts : row.id <= inserted
    /\ \A s \in Sessions : \A row \in sess[s].rows : row.id <= inserted
    /\ \A s \in Sessions : \A row \in sess[s].rows, q \in contacts : row.id # q.id
    /\ \A s, t \in Sessions : \A row \in sess[s].rows, q \in sess[t].rows :
            row.id = q.id => s = t /\ row = q
    /\ \A r \in request : \A i \in r.ids : i <= inserted
    /\ \A r \in request, s \in Sessions : \A row \in sess[s].rows : row.id \notin r.ids

TypeInv == TypeOK /\ sess \in [Sessions -> Session] /\ Entered /\ Asked /\ Numbered

\* The item's channel and organization are among those there are.
LEMMA EntryTyped ==
    ASSUME TypeInv, NEW s \in Sessions, sess[s].pc # "idle"
    PROVE  Channel(s) \in Channels /\ Org(s) \in Orgs
<1>1. sess[s].entry # {} /\ sess[s].entry \subseteq Channels \X Orgs
    BY DEF TypeInv, TypeOK, Entered
<1>2. (CHOOSE entry \in sess[s].entry : TRUE) \in sess[s].entry
    BY <1>1
<1> QED  BY <1>1, <1>2 DEF Channel, Org

\* A session sees finitely many rows: their ids are distinct and bounded.
LEMMA VisibleFinite ==
    ASSUME TypeInv, NEW s \in Sessions
    PROVE  IsFiniteSet(Visible(s))
<1> DEFINE Id == [row \in Visible(s) |-> row.id]
<1>1. \A row \in Visible(s) : row \in Row
    BY DEF TypeInv, TypeOK, Visible
<1>2. Id \in [Visible(s) -> 1..MaxRows]
    BY <1>1 DEF Row
<1>3. \A r1, r2 \in Visible(s) : r1.id = r2.id => r1 = r2
    BY DEF TypeInv, TypeOK, Numbered, Visible
<1>4. Id \in Injection(Visible(s), 1..MaxRows)
    BY <1>2, <1>3 DEF Injection, IsInjective
<1>5. IsFiniteSet(1..MaxRows)
    BY FS_Interval, SuppressionAssumption
<1> QED  BY <1>4, <1>5, FS_Injection

\* is_suppressed finds no row, one, or several: the session goes on, is done
\* with its item, or raises.
LEMMA CheckedCases ==
    ASSUME TypeInv, NEW s \in Sessions, CheckSuppressed(s)
    PROVE  \/ /\ SuppressedRows(s) = {}
              /\ sess' = [sess EXCEPT ![s] = [sess[s] EXCEPT !.pc = "checked"]]
           \/ sess' = [sess EXCEPT ![s] = Idle]
           \/ sess' = [sess EXCEPT ![s] = [sess[s] EXCEPT !.pc = "raised"]]
<1>1. IsFiniteSet(SuppressedRows(s))
    BY VisibleFinite, FS_Subset DEF SuppressedRows
<1>2. PICK n \in Nat : n = Cardinality(SuppressedRows(s))
    BY <1>1, FS_CardinalityType
<1>3. n = 0 <=> SuppressedRows(s) = {}
    BY <1>1, <1>2, FS_EmptySet
<1> DEFINE on  == [sess[s] EXCEPT !.pc = "checked"]
           bad == [sess[s] EXCEPT !.pc = "raised"]
           new == CASE n = 0 -> on [] n = 1 -> Idle [] n > 1 -> bad
<1>4. sess' = [sess EXCEPT ![s] =
        CASE SuppressedRows(s) = {} -> on [] n = 1 -> Idle [] n > 1 -> bad]
    BY <1>2 DEF CheckSuppressed, TypeInv
<1>5. sess' = [sess EXCEPT ![s] = new]
    BY <1>3, <1>4
<1> HIDE DEF Idle, on, bad
<1>6. n = 0 => new = on
    OBVIOUS
<1>7. n = 1 => new = Idle
    OBVIOUS
<1>8. n > 1 => new = bad
    OBVIOUS
<1> HIDE DEF new
<1>9. n = 0 \/ n = 1 \/ n > 1
    BY <1>2
<1> QED  BY <1>3, <1>5, <1>6, <1>7, <1>8, <1>9 DEF on, bad

\* A session that moves on without a row of another id than it had.
LEMMA SessionMoves ==
    ASSUME TypeInv, NEW s \in Sessions, NEW new \in Session,
           sess' = [sess EXCEPT ![s] = new],
           new.pc # "idle" => new.entry # {},
           new.rows # {} => new.pc = "checked" /\ new.rows = sess[s].rows,
           UNCHANGED <<contacts, inserted, optOutVars>>
    PROVE  TypeInv'
<1>1. /\ sess' \in [Sessions -> Session]
      /\ \A t \in Sessions : sess'[t] = IF t = s THEN new ELSE sess[t]
    BY DEF TypeInv
<1>2. TypeOK'
    BY <1>1 DEF TypeInv, TypeOK, Session, optOutVars
<1>3. Entered' /\ Asked'
    BY <1>1 DEF TypeInv, Entered, Asked
<1>4. \A t \in Sessions : sess'[t].rows \subseteq sess[t].rows
    BY <1>1
<1>5. Numbered'
    BY <1>4 DEF TypeInv, Numbered, optOutVars
<1> QED  BY <1>1, <1>2, <1>3, <1>5 DEF TypeInv

\* Rows that are rewritten where they are, or dropped, keep the numbering.
LEMMA ContactsChange ==
    ASSUME TypeInv, NEW rows \in SUBSET Row, contacts' = rows,
           \A row \in rows : \E q \in contacts : row.id = q.id,
           \A r1, r2 \in rows : r1.id = r2.id => r1 = r2,
           UNCHANGED <<sess, inserted>>, request' \subseteq request,
           optedOut' \subseteq Channels, raced' \subseteq Hashes
    PROVE  TypeInv'
BY DEF TypeInv, TypeOK, Entered, Asked, Numbered

LEMMA SuppressingTyped ==
    ASSUME TypeInv, NEW ids
    PROVE  /\ Suppressing(ids) \subseteq Row
           /\ \A row \in Suppressing(ids) : \E q \in contacts : row.id = q.id
           /\ \A r1, r2 \in Suppressing(ids) : r1.id = r2.id => r1 = r2
<1>1. \A row \in contacts : row \in Row
    BY DEF TypeInv, TypeOK
<1>2. \A row \in contacts :
        /\ [row EXCEPT !.suppressed = TRUE] \in Row
        /\ [row EXCEPT !.suppressed = TRUE].id = row.id
    BY <1>1 DEF Row
<1>3. \A new \in Suppressing(ids) : \E row \in contacts :
        new = row \/ new = [row EXCEPT !.suppressed = TRUE]
    BY DEF Suppressing
<1>4. \A new \in Suppressing(ids) : new \in Row /\ \E q \in contacts : new.id = q.id
    BY <1>1, <1>2, <1>3
<1>5. ASSUME NEW r1 \in Suppressing(ids), NEW r2 \in Suppressing(ids), r1.id = r2.id
      PROVE  r1 = r2
    <2>1. PICK q1 \in contacts : r1 = IF q1.id \in ids THEN [q1 EXCEPT !.suppressed = TRUE] ELSE q1
        BY DEF Suppressing
    <2>2. PICK q2 \in contacts : r2 = IF q2.id \in ids THEN [q2 EXCEPT !.suppressed = TRUE] ELSE q2
        BY DEF Suppressing
    <2>3. q1.id = q2.id
        BY <1>2, <1>5, <2>1, <2>2
    <2>4. q1 = q2
        BY <2>3 DEF TypeInv, TypeOK
    <2> QED  BY <2>1, <2>2, <2>4
<1> QED  BY <1>4, <1>5

\* The opt-out under way remembers whether a row of its hash was committed.
LEMMA CommitCrosses ==
    ASSUME TypeOK, NEW s \in Sessions, Commit(s)
    PROVE  /\ request' \subseteq Request
           /\ \A r1, r2 \in request' : r1 = r2
           /\ \A r \in request' : \E q \in request :
                /\ r.ids = q.ids /\ HashOf(r) = HashOf(q)
                /\ ~ r.crossed => ~ q.crossed /\ HashOf(q) # Fold[Channel(s)]
<1> DEFINE Marked(r) == [r EXCEPT !.crossed = @ \/ HashOf(r) = Fold[Channel(s)]]
<1>1. request' = {Marked(r) : r \in request}
    BY DEF Commit
<1>2. ASSUME NEW q \in request
      PROVE  /\ Marked(q) \in Request /\ Marked(q).ids = q.ids /\ HashOf(Marked(q)) = HashOf(q)
             /\ ~ Marked(q).crossed => ~ q.crossed /\ HashOf(q) # Fold[Channel(s)]
    <2>1. q \in Request
        BY DEF TypeOK
    <2> QED  BY <2>1 DEF Request, HashOf
<1> HIDE DEF Marked
<1> QED  BY <1>1, <1>2 DEF TypeOK

\* An opt-out begins with the rows of its hash that are committed.
LEMMA ReadsRequest ==
    ASSUME TypeInv, NEW c \in Channels, OptOutReads(c)
    PROVE  \E by \in Paths, r \in Request :
            /\ request' = {r}
            /\ r.channel = c /\ r.by = by /\ r.crossed = FALSE
            /\ r.ids = {row.id : row \in {row \in contacts : row.hash = HashOf(r)}}
<1> DEFINE Ids(by) == {row.id : row \in {row \in contacts : row.hash = Hash(by, c)}}
           r(by)   == [by |-> by, channel |-> c, crossed |-> FALSE, ids |-> Ids(by)]
<1>1. PICK by \in Paths : request' = {r(by)}
    BY DEF OptOutReads
<1>2. \A row \in contacts : row.id \in 1..MaxRows
    BY DEF TypeInv, TypeOK, Row
<1>3. Ids(by) \in SUBSET (1..MaxRows)
    BY <1>2
<1>4. by \in {"api", "compliance"}
    BY SuppressionAssumption
<1>5. r(by) \in Request
    BY <1>3, <1>4 DEF Request
<1>6. HashOf(r(by)) = Hash(by, c)
    BY DEF HashOf
<1> QED  BY <1>1, <1>5, <1>6

\* A request has a channel, and the hash that it looks for is one of those there are.
LEMMA HashTyped ==
    ASSUME TypeOK, NEW r \in request
    PROVE  r.channel \in Channels /\ r.ids \subseteq Nat /\ HashOf(r) \in Hashes
BY SuppressionAssumption DEF TypeOK, Request, HashOf, Hash

LEMMA HonouredTyped ==
    ASSUME TypeInv, NEW r \in request, Honoured(r)
    PROVE  /\ request' = {} /\ UNCHANGED sess
           /\ optedOut' \subseteq Channels /\ raced' \subseteq Hashes
BY HashTyped DEF TypeInv, TypeOK, Honoured

LEMMA TypeInvStep == ASSUME TypeInv, [Next]_vars PROVE TypeInv'
<1>1. CASE UNCHANGED vars
    BY <1>1 DEF TypeInv, TypeOK, Entered, Asked, Numbered, vars, optOutVars
<1>2. ASSUME NEW s \in Sessions, TakeItem(s) PROVE TypeInv'
    <2>1. PICK c \in Channels, o \in Orgs :
            sess' = [sess EXCEPT ![s].pc = "item", ![s].entry = {<<c, o>>}]
        BY <1>2 DEF TakeItem
    <2> DEFINE new == [sess[s] EXCEPT !.pc = "item", !.entry = {<<c, o>>}]
    <2>2. sess[s] \in Session /\ sess[s].rows = {}
        BY <1>2 DEF TakeItem, TypeInv, Asked
    <2>3. {<<c, o>>} \in SUBSET (Channels \X Orgs)
        OBVIOUS
    <2>4. new \in Session
        BY <2>2, <2>3 DEF Session
    <2>5. new.entry # {} /\ new.rows = {}
        BY <2>2 DEF Session
    <2>6. sess' = [sess EXCEPT ![s] = new]
        BY <2>1
    <2> HIDE DEF new
    <2> QED  BY <1>2, <2>4, <2>5, <2>6, SessionMoves DEF TakeItem
<1>3. ASSUME NEW s \in Sessions, CheckSuppressed(s) PROVE TypeInv'
    <2>1. /\ sess[s] \in Session /\ sess[s].rows = {} /\ sess[s].entry # {}
          /\ UNCHANGED <<contacts, inserted, optOutVars>>
        BY <1>3 DEF CheckSuppressed, TypeInv, Entered, Asked
    <2>2. ASSUME NEW new \in {Idle, [sess[s] EXCEPT !.pc = "checked"], [sess[s] EXCEPT !.pc = "raised"]},
                 sess' = [sess EXCEPT ![s] = new]
          PROVE  TypeInv'
        <3>1. new \in Session /\ new.rows = {} /\ (new.pc # "idle" => new.entry # {})
            BY <2>1 DEF Session, Idle
        <3> QED  BY <2>1, <2>2, <3>1, SessionMoves
    <2> QED  BY <1>3, <2>2, CheckedCases
<1>4. ASSUME NEW s \in Sessions, Record(s) PROVE TypeInv'
    <2> DEFINE row == [id |-> inserted + 1, hash |-> Fold[Channel(s)],
                       org |-> Org(s), suppressed |-> FALSE, old |-> FALSE]
    <2>1. inserted \in Nat /\ inserted + 1 \in 1..MaxRows
        BY <1>4, SuppressionAssumption DEF Record, TypeInv, TypeOK
    <2>2. row \in Row
        BY <1>4, <2>1, EntryTyped, SuppressionAssumption DEF Record, Row
    <2>3. row.id = inserted + 1
        OBVIOUS
    <2>4. sess' = [sess EXCEPT ![s].rows = {row}] /\ inserted' = inserted + 1
        BY <1>4 DEF Record
    <2> HIDE DEF row
    <2>5. /\ sess' \in [Sessions -> Session]
          /\ \A t \in Sessions : sess'[t] = IF t = s THEN [sess[s] EXCEPT !.rows = {row}] ELSE sess[t]
        BY <2>2, <2>4 DEF TypeInv, Session
    <2>6. \A t \in Sessions : /\ sess'[t].rows = IF t = s THEN {row} ELSE sess[t].rows
                              /\ sess'[t].pc = sess[t].pc
                              /\ sess'[t].entry = sess[t].entry
        <3>1. ASSUME NEW t \in Sessions, t = s
              PROVE  sess'[t].rows = {row} /\ sess'[t].pc = sess[t].pc /\ sess'[t].entry = sess[t].entry
            <4>1. sess'[t] = [sess[s] EXCEPT !.rows = {row}] /\ sess[s] \in Session
                BY <2>5, <3>1 DEF TypeInv
            <4> QED  BY <3>1, <4>1 DEF Session
        <3>2. ASSUME NEW t \in Sessions, t # s PROVE sess'[t] = sess[t]
            BY <2>5, <3>2
        <3> QED  BY <3>1, <3>2
    <2>7. TypeOK'
        BY <1>4, <2>1, <2>4, <2>5 DEF Record, TypeInv, TypeOK, Session, optOutVars
    <2>8. Entered' /\ Asked'
        BY <1>4, <2>6 DEF Record, TypeInv, Entered, Asked
    <2>9. /\ \A q \in contacts : q.id \in Nat /\ q.id <= inserted
          /\ \A t \in Sessions : \A q \in sess[t].rows : q.id \in Nat /\ q.id <= inserted
        BY DEF TypeInv, TypeOK, Numbered, Row
    <2>10. Numbered'
        <3>1. UNCHANGED <<contacts, request>>
            BY <1>4 DEF Record, optOutVars
        <3>2. \A t \in Sessions : \A q \in sess'[t].rows :
                (t = s /\ q = row) \/ (t # s /\ q \in sess[t].rows)
            BY <2>6
        <3>3. \A q \in contacts' : q.id <= inserted' /\ q.id # row.id
            BY <2>1, <2>3, <2>4, <2>9, <3>1
        <3>4. \A t \in Sessions : \A q \in sess[t].rows : q.id <= inserted' /\ q.id # row.id
            BY <2>1, <2>3, <2>4, <2>9
        <3>5. row.id <= inserted'
            BY <2>1, <2>3, <2>4
        <3>6. \A r \in request : \A i \in r.ids : i <= inserted' /\ i # row.id
            BY <2>1, <2>3, <2>4, HashTyped DEF TypeInv, Numbered
        <3> QED  BY <3>1, <3>2, <3>3, <3>4, <3>5, <3>6 DEF TypeInv, Numbered
    <2> QED  BY <2>5, <2>7, <2>8, <2>10 DEF TypeInv
<1>5. ASSUME NEW s \in Sessions, KnownContact(s) \/ RollBack(s) PROVE TypeInv'
    <2>1. Idle \in Session /\ Idle.rows = {} /\ Idle.pc = "idle"
        BY DEF Idle, Session
    <2>2. sess' = [sess EXCEPT ![s] = Idle] /\ UNCHANGED <<contacts, optOutVars, inserted>>
        BY <1>5 DEF KnownContact, RollBack
    <2> QED  BY <2>1, <2>2, SessionMoves
<1>6. ASSUME NEW s \in Sessions, Commit(s) PROVE TypeInv'
    <2>1. /\ sess' \in [Sessions -> Session]
          /\ \A t \in Sessions : sess'[t] = IF t = s THEN Idle ELSE sess[t]
        BY <1>6 DEF Commit, TypeInv, Session, Idle
    <2>2. contacts' = contacts \cup sess[s].rows /\ UNCHANGED <<optedOut, raced, inserted>>
        BY <1>6 DEF Commit
    <2>8. /\ request' \subseteq Request
          /\ \A r1, r2 \in request' : r1 = r2
          /\ \A r \in request' : \E q \in request : r.ids = q.ids
        BY <1>6, CommitCrosses DEF TypeInv
    <2>3. TypeOK'
        <3>1. contacts' \subseteq Row
            BY <2>2 DEF TypeInv, TypeOK
        <3>2. \A r1, r2 \in contacts' : r1.id = r2.id => r1 = r2
            BY <2>2 DEF TypeInv, TypeOK, Numbered
        <3> QED  BY <2>1, <2>2, <2>8, <3>1, <3>2 DEF TypeInv, TypeOK, Session
    <2>4. Idle.rows = {} /\ Idle.pc = "idle"
        BY DEF Idle
    <2>5. Entered' /\ Asked'
        BY <2>1, <2>4 DEF TypeInv, Entered, Asked
    <2>6. \A t \in Sessions : \A row \in sess'[t].rows : t # s /\ row \in sess[t].rows
        BY <2>1, <2>4
    <2>7. Numbered'
        <3>1. /\ \A r \in request' : \A i \in r.ids : i <= inserted
              /\ \A r \in request', t \in Sessions : \A row \in sess[t].rows : row.id \notin r.ids
            BY <2>8 DEF TypeInv, Numbered
        <3> QED  BY <2>2, <2>6, <3>1 DEF TypeInv, Numbered
    <2> QED  BY <2>1, <2>3, <2>5, <2>7 DEF TypeInv
<1>7. ASSUME NEW r \in request, SuppressContact(r) PROVE TypeInv'
    <2>1. contacts' = Suppressing(r.ids) /\ UNCHANGED inserted
        BY <1>7 DEF SuppressContact
    <2>2. /\ request' = {} /\ UNCHANGED sess
          /\ optedOut' \subseteq Channels /\ raced' \subseteq Hashes
        BY <1>7, HonouredTyped DEF SuppressContact
    <2> QED  BY <2>1, <2>2, SuppressingTyped, ContactsChange
<1>8. ASSUME NEW r \in request, AddSuppression(r) PROVE TypeInv'
    <2>1. /\ request' = {} /\ UNCHANGED sess
          /\ optedOut' \subseteq Channels /\ raced' \subseteq Hashes
        BY <1>8, HonouredTyped DEF AddSuppression
    <2>2. CASE r.ids # {}
        <3>1. contacts' = Suppressing(r.ids) /\ UNCHANGED inserted
            BY <1>8, <2>2 DEF AddSuppression
        <3> QED  BY <2>1, <3>1, SuppressingTyped, ContactsChange
    <2>3. CASE r.ids = {}
        <3> DEFINE row == [id |-> inserted + 1, hash |-> HashOf(r), org |-> NoOrg,
                           suppressed |-> TRUE, old |-> FALSE]
        <3>1. inserted \in Nat /\ inserted + 1 \in 1..MaxRows
            BY <1>8, <2>3, SuppressionAssumption DEF AddSuppression, TypeInv, TypeOK
        <3>2. row \in Row
            BY <3>1, HashTyped DEF Row, TypeInv
        <3>3. row.id = inserted + 1
            OBVIOUS
        <3>4. contacts' = contacts \cup {row} /\ inserted' = inserted + 1
            BY <1>8, <2>3 DEF AddSuppression
        <3> HIDE DEF row
        <3>5. /\ \A q \in contacts : q.id \in Nat /\ q.id <= inserted
              /\ \A t \in Sessions : \A q \in sess[t].rows : q.id \in Nat /\ q.id <= inserted
            BY DEF TypeInv, TypeOK, Numbered, Row
        <3>6. /\ \A q \in contacts : q.id <= inserted' /\ q.id # row.id
              /\ \A t \in Sessions : \A q \in sess[t].rows : q.id <= inserted' /\ q.id # row.id
              /\ row.id <= inserted'
            BY <3>1, <3>3, <3>4, <3>5
        <3>7. TypeOK'
            BY <2>1, <3>1, <3>2, <3>4, <3>6 DEF TypeInv, TypeOK
        <3>8. Numbered'
            BY <2>1, <3>4, <3>6 DEF TypeInv, Numbered
        <3> QED  BY <2>1, <3>7, <3>8 DEF TypeInv, Entered, Asked
    <2> QED  BY <2>2, <2>3
<1>11. ASSUME NEW c \in Channels, OptOutReads(c) PROVE TypeInv'
    <2>1. PICK by \in Paths, r \in Request :
            /\ request' = {r}
            /\ r.channel = c /\ r.by = by /\ r.crossed = FALSE
            /\ r.ids = {row.id : row \in {row \in contacts : row.hash = HashOf(r)}}
        BY <1>11, ReadsRequest
    <2>2. \A i \in r.ids : \E row \in contacts : i = row.id
        BY <2>1
    <2>3. UNCHANGED <<contacts, sess, optedOut, raced, inserted>>
        BY <1>11 DEF OptOutReads
    <2>4. Numbered'
        BY <2>1, <2>2, <2>3 DEF TypeInv, Numbered
    <2> QED  BY <2>1, <2>3, <2>4 DEF TypeInv, TypeOK, Entered, Asked
<1>12. ASSUME NEW r \in request, OptOutFails(r) PROVE TypeInv'
    <2>1. request' = {} /\ UNCHANGED <<contacts, sess, optedOut, raced, inserted>>
        BY <1>12 DEF OptOutFails
    <2> QED  BY <2>1 DEF TypeInv, TypeOK, Entered, Asked, Numbered
<1>9. CASE Age
    <2>1. \A row \in contacts : row \in Row
        BY DEF TypeInv, TypeOK
    <2>2. \A row \in contacts : /\ [row EXCEPT !.old = TRUE] \in Row
                                /\ [row EXCEPT !.old = TRUE].id = row.id
        BY <2>1 DEF Row
    <2>3. contacts' = {[row EXCEPT !.old = TRUE] : row \in contacts}
        BY <1>9 DEF Age
    <2>4. \A row \in contacts' : row \in Row /\ \E q \in contacts : row.id = q.id
        BY <2>2, <2>3
    <2>5. ASSUME NEW r1 \in contacts', NEW r2 \in contacts', r1.id = r2.id PROVE r1 = r2
        <3>1. PICK q1 \in contacts, q2 \in contacts :
                r1 = [q1 EXCEPT !.old = TRUE] /\ r2 = [q2 EXCEPT !.old = TRUE]
            BY <2>3
        <3>2. q1.id = q2.id
            BY <2>2, <2>5, <3>1
        <3> QED  BY <3>1, <3>2 DEF TypeInv, TypeOK
    <2>6. /\ UNCHANGED <<sess, inserted, request>> /\ contacts' \in SUBSET Row
          /\ optedOut' \subseteq Channels /\ raced' \subseteq Hashes
        BY <1>9, <2>4 DEF Age, TypeInv, TypeOK, optOutVars
    <2> QED  BY <2>4, <2>5, <2>6, ContactsChange
<1>10. CASE CleanUp
    <2>1. contacts' \subseteq contacts
        BY <1>10 DEF CleanUp
    <2>2. /\ UNCHANGED <<sess, inserted, request>> /\ contacts' \in SUBSET Row
          /\ optedOut' \subseteq Channels /\ raced' \subseteq Hashes
        BY <1>10, <2>1 DEF CleanUp, TypeInv, TypeOK, optOutVars
    <2> QED  BY <2>1, <2>2, ContactsChange DEF TypeInv, TypeOK
<1> QED
    BY <1>1, <1>2, <1>3, <1>4, <1>5, <1>6, <1>7, <1>8, <1>9, <1>10, <1>11, <1>12 DEF Next

LEMMA TypeInvInit == ASSUME Init PROVE TypeInv
<1>1. sess \in [Sessions -> Session] /\ \A s \in Sessions : sess[s] = Idle
    BY DEF Init, Session, Idle
<1>2. Idle.pc = "idle" /\ Idle.entry = {} /\ Idle.rows = {}
    BY DEF Idle
<1>3. TypeOK
    BY <1>1, <1>2, SuppressionAssumption DEF Init, TypeOK
<1> QED  BY <1>1, <1>2, <1>3 DEF Init, TypeInv, Entered, Asked, Numbered

\* Contact rows are distinct by their ids, and each session holds an item of a
\* known channel, whatever overlaps.
THEOREM TypeCorrect == Spec => []TypeOK
<1>1. Init => TypeInv
    BY TypeInvInit
<1>2. TypeInv /\ [Next]_vars => TypeInv'
    BY TypeInvStep
<1>3. TypeInv => TypeOK
    BY DEF TypeInv
<1> QED  BY <1>1, <1>2, <1>3, PTL DEF Spec

-----------------------------------------------------------------------------
(* What is on record stays on record *)

OnRecord(h) == \E row \in contacts : row.hash = h /\ row.suppressed

\* Rewriting rows loses neither a hash nor an opt-out.
LEMMA RowRewritten ==
    ASSUME NEW row \in Row
    PROVE  /\ [row EXCEPT !.suppressed = TRUE].hash = row.hash
           /\ [row EXCEPT !.suppressed = TRUE].suppressed = TRUE
           /\ [row EXCEPT !.old = TRUE].hash = row.hash
           /\ [row EXCEPT !.old = TRUE].suppressed = row.suppressed
BY DEF Row

LEMMA OnRecordStep ==
    ASSUME TypeOK, [Next]_vars, NEW h \in Hashes, OnRecord(h)
    PROVE  \E row \in contacts' : row.hash = h /\ row.suppressed
<1>1. PICK row \in contacts : row.hash = h /\ row.suppressed
    BY DEF OnRecord
<1>2. CASE contacts \subseteq contacts'
    BY <1>1, <1>2
<1>3. ASSUME NEW ids, contacts' = Suppressing(ids)
      PROVE  \E new \in contacts' : new.hash = h /\ new.suppressed
    <2>1. row \in Row
        BY <1>1 DEF TypeOK
    <2>2. CASE row.id \in ids
        <3>1. [row EXCEPT !.suppressed = TRUE] \in contacts'
            BY <1>3, <2>2 DEF Suppressing
        <3> QED  BY <1>1, <2>1, <3>1, RowRewritten
    <2>3. CASE row.id \notin ids
        BY <1>1, <1>3, <2>3 DEF Suppressing
    <2> QED  BY <2>2, <2>3
<1>4. CASE Age
    <2>1. row \in Row /\ [row EXCEPT !.old = TRUE] \in contacts'
        BY <1>1, <1>4 DEF TypeOK, Age
    <2> QED  BY <1>1, <2>1, RowRewritten
<1>5. CASE CleanUp
    <2>1. row \in contacts'
        BY <1>1, <1>5 DEF CleanUp
    <2> QED  BY <1>1, <2>1
<1>6. ASSUME NEW r \in request, SuppressContact(r) \/ AddSuppression(r)
      PROVE  contacts \subseteq contacts' \/ \E ids : contacts' = Suppressing(ids)
    BY <1>6 DEF SuppressContact, AddSuppression
<1>9. ASSUME \/ \E c \in Channels : OptOutReads(c)
             \/ \E r \in request : OptOutFails(r)
      PROVE  contacts \subseteq contacts'
    BY <1>9 DEF OptOutReads, OptOutFails
<1>7. ASSUME NEW s \in Sessions,
             TakeItem(s) \/ CheckSuppressed(s) \/ Record(s) \/ KnownContact(s) \/ Commit(s) \/ RollBack(s)
      PROVE  contacts \subseteq contacts'
    BY <1>7 DEF TakeItem, CheckSuppressed, Record, KnownContact, Commit, RollBack
<1>8. CASE UNCHANGED vars
    BY <1>2, <1>8 DEF vars
<1> QED
    BY <1>2, <1>3, <1>4, <1>5, <1>6, <1>7, <1>8, <1>9 DEF Next

\* "Suppression outlives deletion": whatever ingest, opt-outs and the retention
\* clean-up do, and however they overlap, a recorded opt-out stays recorded.
THEOREM OptOutStays == Spec => SuppressionSticks
<1>1. Spec => []TypeOK
    BY TypeCorrect
<1>2. TypeOK /\ [Next]_vars
        => [\A h \in Hashes : (\E row \in contacts : row.hash = h /\ row.suppressed)
                                => (\E row \in contacts' : row.hash = h /\ row.suppressed)]_vars
    BY OnRecordStep DEF OnRecord
<1> QED  BY <1>1, <1>2, PTL DEF Spec, SuppressionSticks

-----------------------------------------------------------------------------
(* An opt-out covers every row of its channel *)

\* What a session was told of its channel is still so, unless an opt-out has
\* committed since; then it knows of the overlap.
StillOpen ==
    \A s \in Sessions : sess[s].pc = "checked" /\ Fold[Channel(s)] \notin raced =>
        \A row \in contacts : row.hash = Fold[Channel(s)] => ~ row.suppressed

\* A session's own row is an open one of the channel that it asked about.
OwnRow ==
    \A s \in Sessions : \A row \in sess[s].rows :
        row.hash = Fold[Channel(s)] /\ row.suppressed = FALSE

\* An opt-out under way has read rows of its own hash only, and all of them that
\* are committed unless one was added since.
HasRead ==
    \A r \in request : \A row \in contacts :
        /\ row.id \in r.ids => row.hash = HashOf(r)
        /\ row.hash = HashOf(r) /\ ~ r.crossed => row.id \in r.ids

AgreeInv == TypeInv /\ StillOpen /\ OwnRow /\ HasRead /\ ChannelAgrees

\* A session that keeps its item keeps its channel.
LEMMA ChannelStays ==
    ASSUME NEW s \in Sessions, sess'[s].entry = sess[s].entry
    PROVE  Channel(s)' = Channel(s)
BY DEF Channel

\* What an opt-out does to the rows: those that it has read become suppressed,
\* and a placeholder stands for a hash of which it has read none.
LEMMA HonouredRows ==
    ASSUME TypeOK, NEW r \in request, SuppressContact(r) \/ AddSuppression(r)
    PROVE  \A new \in contacts' :
            \/ new.hash = HashOf(r) /\ new.suppressed = TRUE
            \/ \E row \in contacts : /\ row.id \notin r.ids
                                     /\ new.hash = row.hash
                                     /\ new.suppressed = row.suppressed
            \/ \E row \in contacts : /\ row.id \in r.ids
                                     /\ new.hash = row.hash
                                     /\ new.suppressed = TRUE
<1>1. ASSUME contacts' = Suppressing(r.ids), NEW new \in contacts'
      PROVE  \/ \E row \in contacts : row.id \notin r.ids /\ new = row
             \/ \E row \in contacts : row.id \in r.ids /\ new.hash = row.hash /\ new.suppressed = TRUE
    <2>1. PICK row \in contacts : new = IF row.id \in r.ids THEN [row EXCEPT !.suppressed = TRUE] ELSE row
        BY <1>1 DEF Suppressing
    <2>2. row \in Row
        BY DEF TypeOK
    <2> QED  BY <2>1, <2>2, RowRewritten
<1>2. ASSUME AddSuppression(r), r.ids = {}, NEW new \in contacts'
      PROVE  new \in contacts \/ (new.hash = HashOf(r) /\ new.suppressed = TRUE)
    BY <1>2 DEF AddSuppression
<1>3. CASE contacts' = Suppressing(r.ids)
    BY <1>1, <1>3
<1>4. CASE AddSuppression(r) /\ r.ids = {}
    BY <1>2, <1>4
<1> QED  BY <1>3, <1>4 DEF SuppressContact, AddSuppression

\* After an opt-out that overlapped with no insert, all rows of its hash are
\* suppressed; rows of other hashes are as they were.
LEMMA HonouredAgrees ==
    ASSUME AgreeInv, NEW r \in request, SuppressContact(r) \/ AddSuppression(r)
    PROVE  StillOpen' /\ ChannelAgrees'
<1> USE DEF AgreeInv
<1>1. TypeOK
    BY DEF TypeInv
<1> DEFINE h == HashOf(r)
<1>2. /\ UNCHANGED sess
      /\ raced' = IF InWindow(h) \/ r.crossed THEN raced \cup {h} ELSE raced \ {h}
    BY DEF SuppressContact, AddSuppression, Honoured
<1>3. \A new \in contacts' :
        \/ new.hash = h /\ new.suppressed = TRUE
        \/ \E row \in contacts : /\ row.id \notin r.ids
                                 /\ new.hash = row.hash /\ new.suppressed = row.suppressed
    <2>1. \A row \in contacts : row.id \in r.ids => row.hash = h
        BY DEF HasRead
    <2> HIDE DEF h
    <2>2. \A new \in contacts' :
            \/ new.hash = h /\ new.suppressed = TRUE
            \/ \E row \in contacts : /\ row.id \notin r.ids
                                     /\ new.hash = row.hash /\ new.suppressed = row.suppressed
            \/ \E row \in contacts : /\ row.id \in r.ids
                                     /\ new.hash = row.hash /\ new.suppressed = TRUE
        BY <1>1, HonouredRows DEF h
    <2> QED  BY <2>1, <2>2
<1>4. ASSUME NEW new \in contacts', new.hash # h
      PROVE  \E row \in contacts : new.hash = row.hash /\ new.suppressed = row.suppressed
    BY <1>3, <1>4
<1>5. ASSUME h \notin raced', NEW new \in contacts', new.hash = h
      PROVE  new.suppressed = TRUE
    <2>1. ~ r.crossed
        BY <1>2, <1>5
    <2> QED  BY <1>3, <1>5, <2>1 DEF HasRead
<1>6. \A k : k # h /\ k \notin raced' => k \notin raced
    BY <1>2
<1>7. ChannelAgrees'
    <2> SUFFICES ASSUME NEW r1 \in contacts', NEW r2 \in contacts', r1.hash = r2.hash, r1.hash \notin raced'
                 PROVE  r1.suppressed = r2.suppressed
        BY DEF ChannelAgrees
    <2>1. CASE r1.hash = h
        BY <1>5, <2>1
    <2>2. CASE r1.hash # h
        BY <1>4, <1>6, <2>2 DEF ChannelAgrees
    <2> QED  BY <2>1, <2>2
<1>8. ASSUME NEW s \in Sessions, sess'[s].pc = "checked", Fold[Channel(s)'] \notin raced',
             NEW new \in contacts', new.hash = Fold[Channel(s)']
      PROVE  ~ new.suppressed
    <2>1. Channel(s)' = Channel(s) /\ sess[s].pc = "checked"
        BY <1>2, <1>8, ChannelStays
    <2>2. Fold[Channel(s)] # h
        BY <1>2, <1>8, <2>1 DEF InWindow
    <2>3. Fold[Channel(s)] \notin raced
        BY <1>6, <1>8, <2>1, <2>2
    <2>4. PICK row \in contacts : new.hash = row.hash /\ new.suppressed = row.suppressed
        BY <1>4, <1>8, <2>1, <2>2
    <2> QED  BY <1>8, <2>1, <2>3, <2>4 DEF StillOpen
<1>9. StillOpen'
    BY <1>8 DEF StillOpen
<1> QED  BY <1>7, <1>9

LEMMA AgreeStep ==
    ASSUME Fold = Lower, AgreeInv, [Next]_vars
    PROVE  AgreeInv'
<1> USE DEF AgreeInv
<1>0. TypeInv' /\ TypeOK
    BY TypeInvStep DEF TypeInv
<1>1. CASE UNCHANGED vars
    BY <1>0, <1>1 DEF StillOpen, OwnRow, HasRead, ChannelAgrees, Channel, HashOf, vars, optOutVars
<1>2. ASSUME NEW s \in Sessions, TakeItem(s) PROVE AgreeInv'
    <2>1. /\ \A t \in Sessions \ {s} : sess'[t] = sess[t]
          /\ sess'[s].pc = "item" /\ sess'[s].rows = {}
          /\ UNCHANGED <<contacts, request, raced>>
        BY <1>2 DEF TakeItem, TypeInv, Session, Asked, optOutVars
    <2> QED  BY <1>0, <2>1, ChannelStays DEF StillOpen, OwnRow, HasRead, ChannelAgrees, HashOf
<1>3. ASSUME NEW s \in Sessions, CheckSuppressed(s) PROVE AgreeInv'
    <2>1. /\ \A t \in Sessions \ {s} : sess'[t] = sess[t]
          /\ sess[s].rows = {}
          /\ UNCHANGED <<contacts, request, raced>>
        BY <1>3 DEF CheckSuppressed, TypeInv, Asked, optOutVars
    <2>2. \/ /\ SuppressedRows(s) = {}
             /\ sess'[s] = [sess[s] EXCEPT !.pc = "checked"]
          \/ sess'[s] = Idle
          \/ sess'[s] = [sess[s] EXCEPT !.pc = "raised"]
        BY <1>3, CheckedCases DEF TypeInv
    <2>3. /\ sess'[s].rows = {}
          /\ sess'[s].pc = "checked" => SuppressedRows(s) = {} /\ sess'[s].entry = sess[s].entry
        BY <2>1, <2>2 DEF TypeInv, Session, Idle
    <2>4. ASSUME SuppressedRows(s) = {}, NEW row \in contacts, row.hash = Fold[Channel(s)]
          PROVE  ~ row.suppressed
        BY <2>4 DEF SuppressedRows, Visible
    <2> QED  BY <1>0, <2>1, <2>3, <2>4, ChannelStays DEF StillOpen, OwnRow, HasRead, ChannelAgrees, HashOf
<1>4. ASSUME NEW s \in Sessions, Record(s) PROVE AgreeInv'
    <2> DEFINE row == [id |-> inserted + 1, hash |-> Fold[Channel(s)],
                       org |-> Org(s), suppressed |-> FALSE, old |-> FALSE]
    <2>1. row.hash = Fold[Channel(s)] /\ row.suppressed = FALSE
        OBVIOUS
    <2>2. sess' = [sess EXCEPT ![s].rows = {row}] /\ UNCHANGED <<contacts, request, raced>>
        BY <1>4 DEF Record, optOutVars
    <2> HIDE DEF row
    <2>3. \A t \in Sessions : /\ sess'[t].rows = IF t = s THEN {row} ELSE sess[t].rows
                              /\ sess'[t].pc = sess[t].pc
                              /\ sess'[t].entry = sess[t].entry
        BY <2>2 DEF TypeInv, Session
    <2> QED  BY <1>0, <2>1, <2>2, <2>3, ChannelStays DEF StillOpen, OwnRow, HasRead, ChannelAgrees, HashOf
<1>5. ASSUME NEW s \in Sessions, KnownContact(s) \/ RollBack(s) PROVE AgreeInv'
    <2>1. \A t \in Sessions : IF t = s THEN sess'[t].pc = "idle" /\ sess'[t].rows = {}
                                       ELSE sess'[t] = sess[t]
        BY <1>5 DEF KnownContact, RollBack, TypeInv, Idle
    <2>2. UNCHANGED <<contacts, request, raced>>
        BY <1>5 DEF KnownContact, RollBack, optOutVars
    <2> QED  BY <1>0, <2>1, <2>2, ChannelStays DEF StillOpen, OwnRow, HasRead, ChannelAgrees, HashOf
<1>6. ASSUME NEW s \in Sessions, Commit(s) PROVE AgreeInv'
    <2>1. \A t \in Sessions : IF t = s THEN sess'[t].pc = "idle" /\ sess'[t].rows = {}
                                       ELSE sess'[t] = sess[t]
        BY <1>6 DEF Commit, TypeInv, Idle
    <2>2. contacts' = contacts \cup sess[s].rows /\ UNCHANGED raced /\ sess[s].pc = "checked"
        BY <1>6 DEF Commit, TypeInv, Asked
    <2>3. \A row \in sess[s].rows : row.hash = Fold[Channel(s)] /\ row.suppressed = FALSE
        BY DEF OwnRow
    <2>4. Fold[Channel(s)] \notin raced =>
            \A row \in contacts : row.hash = Fold[Channel(s)] => row.suppressed = FALSE
        BY <1>0, <2>2 DEF StillOpen, TypeOK, Row
    <2>5. ChannelAgrees'
        BY <2>2, <2>3, <2>4 DEF ChannelAgrees
    <2>6. StillOpen' /\ OwnRow'
        BY <2>1, <2>2, <2>3, ChannelStays DEF StillOpen, OwnRow
    <2>7. \A r \in request' : \E q \in request :
            /\ r.ids = q.ids /\ HashOf(r) = HashOf(q)
            /\ ~ r.crossed => ~ q.crossed /\ HashOf(q) # Fold[Channel(s)]
        BY <1>0, <1>6, CommitCrosses
    <2>8. \A q \in request : \A row \in sess[s].rows : row.id \notin q.ids
        BY DEF TypeInv, Numbered
    <2>9. ASSUME NEW r \in request', NEW row \in contacts'
          PROVE  /\ row.id \in r.ids => row.hash = HashOf(r)
                 /\ row.hash = HashOf(r) /\ ~ r.crossed => row.id \in r.ids
        <3>1. PICK q \in request : /\ r.ids = q.ids /\ HashOf(r) = HashOf(q)
                                   /\ ~ r.crossed => ~ q.crossed /\ HashOf(q) # Fold[Channel(s)]
            BY <2>7
        <3>2. CASE row \in contacts
            BY <3>1, <3>2 DEF HasRead
        <3>3. CASE row \in sess[s].rows
            BY <2>3, <2>8, <3>1, <3>3
        <3> QED  BY <2>2, <3>2, <3>3
    <2>10. HasRead'
        BY <2>9 DEF HasRead, HashOf
    <2> QED  BY <1>0, <2>5, <2>6, <2>10
<1>7. ASSUME NEW r \in request, SuppressContact(r) \/ AddSuppression(r) PROVE AgreeInv'
    <2>1. UNCHANGED sess /\ request' = {}
        BY <1>7 DEF SuppressContact, AddSuppression, Honoured
    <2>2. OwnRow' /\ HasRead'
        BY <2>1, ChannelStays DEF OwnRow, HasRead
    <2> QED  BY <1>0, <1>7, <2>2, HonouredAgrees
<1>8. CASE Age
    <2>1. contacts' = {[row EXCEPT !.old = TRUE] : row \in contacts} /\ UNCHANGED <<sess, request, raced>>
        BY <1>8 DEF Age, optOutVars
    <2>2. ASSUME NEW new \in contacts'
          PROVE  \E row \in contacts : new.hash = row.hash /\ new.suppressed = row.suppressed /\ new.id = row.id
        <3>1. PICK row \in contacts : new = [row EXCEPT !.old = TRUE]
            BY <2>1
        <3>2. row \in Row
            BY <1>0 DEF TypeOK
        <3>3. new.hash = row.hash /\ new.suppressed = row.suppressed
            BY <3>1, <3>2, RowRewritten
        <3>4. new.id = row.id
            BY <3>1, <3>2 DEF Row
        <3> QED  BY <3>3, <3>4
    <2>3. ChannelAgrees'
        BY <2>1, <2>2 DEF ChannelAgrees
    <2>4. StillOpen' /\ OwnRow'
        BY <2>1, <2>2, ChannelStays DEF StillOpen, OwnRow
    <2>5. HasRead'
        BY <2>1, <2>2 DEF HasRead, HashOf
    <2> QED  BY <1>0, <2>3, <2>4, <2>5
<1>9. CASE CleanUp
    <2>1. contacts' \subseteq contacts /\ UNCHANGED <<sess, request, raced>>
        BY <1>9 DEF CleanUp, optOutVars
    <2> QED  BY <1>0, <2>1, ChannelStays DEF StillOpen, OwnRow, HasRead, ChannelAgrees, HashOf
<1>10. ASSUME NEW c \in Channels, OptOutReads(c) PROVE AgreeInv'
    <2>1. UNCHANGED <<contacts, sess, raced>>
        BY <1>10 DEF OptOutReads
    <2>2. PICK r \in Request :
            /\ request' = {r}
            /\ r.ids = {row.id : row \in {row \in contacts : row.hash = HashOf(r)}}
        BY <1>10, ReadsRequest
    <2>3. ASSUME NEW row \in contacts, row.id \in r.ids PROVE row.hash = HashOf(r)
        <3>1. PICK q \in contacts : q.hash = HashOf(r) /\ q.id = row.id
            BY <2>2, <2>3
        <3> QED  BY <1>0, <3>1 DEF TypeOK
    <2>4. HasRead'
        BY <2>1, <2>2, <2>3 DEF HasRead, HashOf
    <2> QED  BY <1>0, <2>1, <2>4, ChannelStays DEF StillOpen, OwnRow, ChannelAgrees
<1>11. ASSUME NEW r \in request, OptOutFails(r) PROVE AgreeInv'
    <2>1. request' = {} /\ UNCHANGED <<contacts, sess, raced>>
        BY <1>11 DEF OptOutFails
    <2> QED  BY <1>0, <2>1, ChannelStays DEF StillOpen, OwnRow, HasRead, ChannelAgrees
<1> QED
    BY <1>1, <1>2, <1>3, <1>4, <1>5, <1>6, <1>7, <1>8, <1>9, <1>10, <1>11 DEF Next

\* Where both ways of hashing a channel agree on the channels there are, and however
\* sessions, opt-outs, ageing and the clean-up overlap: the rows of a channel agree,
\* so that the organization which published it last is held to the opt-out as well,
\* but for channels whose last opt-out overlapped with an insert.
THEOREM OptOutCovers ==
    ASSUME Fold = Lower
    PROVE  Spec => []ChannelAgrees
<1>1. Init => AgreeInv
    <2> SUFFICES ASSUME Init PROVE AgreeInv
        OBVIOUS
    <2>1. /\ contacts = {} /\ request = {}
          /\ \A s \in Sessions : sess[s].pc = "idle" /\ sess[s].rows = {}
        BY DEF Init, Idle
    <2> QED  BY <2>1, TypeInvInit DEF AgreeInv, StillOpen, OwnRow, HasRead, ChannelAgrees
<1>2. AgreeInv /\ [Next]_vars => AgreeInv'
    BY AgreeStep
<1>3. AgreeInv => ChannelAgrees
    BY DEF AgreeInv
<1> QED  BY <1>1, <1>2, <1>3, PTL DEF Spec
=============================================================================
