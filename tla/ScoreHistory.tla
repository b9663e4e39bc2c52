---------------------------- MODULE ScoreHistory ----------------------------
(***************************************************************************)
(* What the score history of a candidate promises those who read it, be    *)
(* they analysts, the alert channel or a backtest.  It grows by whole      *)
(* units of work: the scores of one unit appear together, at the end, with *)
(* the alerts they caused and the head on the last of them.  An entry never*)
(* changes; a column that belongs to the analyst does, one at a time.  A   *)
(* score that was lost with its unit of work appears neither then nor      *)
(* later.                                                                  *)
(***************************************************************************)
EXTENDS Naturals

VARIABLES
    entries,        \* [at, first, key]: when, in which state, from what evidence
    columns,        \* [state, workflow] of each entry, as it shows now
    head,           \* the entry that is the candidate's score, 0 for none
    told,           \* [at, key]: alerts on record
    lost            \* the times of the scores that were lost

vars == <<entries, columns, head, told, lost>>

Init ==
    /\ DOMAIN entries = {}
    /\ DOMAIN columns = {}
    /\ head = 0
    /\ told = {}
    /\ lost = {}

\* The positions a step adds.
Added == DOMAIN entries' \ DOMAIN entries

\* What was there is there, and shows what it showed.
KeepsAll ==
    \A i \in DOMAIN entries :
        /\ i \in DOMAIN entries'
        /\ entries'[i] = entries[i]
        /\ columns'[i] = columns[i]

\* What is added is shown as it was scored, once, and was never lost.
AddsAnew ==
    \A i \in Added :
        /\ columns'[i].state = entries'[i].first
        /\ entries'[i].at \notin lost
        /\ \A j \in DOMAIN entries' : entries'[j].at = entries'[i].at => j = i

\* Who is told is told of an entry that comes with the alert.
TellsOfAdded ==
    \A alert \in told' \ told : \E i \in Added :
        /\ entries'[i].at = alert.at
        /\ entries'[i].first = "HOT"
        /\ entries'[i].key = alert.key

\* A unit of work ends well.
Publish ==
    /\ KeepsAll
    /\ AddsAnew
    /\ head' \in Added
    /\ \A i \in DOMAIN entries' : i <= head'
    /\ told \subseteq told'
    /\ TellsOfAdded
    /\ lost' = lost

\* A unit of work ends badly: of its scores none is an entry.
Lose ==
    /\ lost \subseteq lost'
    /\ \A i \in DOMAIN entries : entries[i].at \notin lost'
    /\ UNCHANGED <<entries, columns, head, told>>

\* An analyst sets one column of one entry.
Amend ==
    /\ DOMAIN columns' = DOMAIN columns
    /\ \E i \in DOMAIN columns :
        /\ \/ columns'[i].state = columns[i].state
           \/ columns'[i].workflow = columns[i].workflow
        /\ \A j \in DOMAIN columns : j # i => columns'[j] = columns[j]
    /\ UNCHANGED <<entries, head, told, lost>>

Next == Publish \/ Lose \/ Amend

Spec == Init /\ [][Next]_vars
=============================================================================
