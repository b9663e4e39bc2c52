-------------------------- MODULE IncarnationLine --------------------------
(***************************************************************************)
(* What the incarnations of one network promise, whoever reports them and  *)
(* in whatever order: they form one line.  A member that was not seen      *)
(* before becomes the head of the line, the old head leads to it, and the  *)
(* change of head is reported, once and only then.  Nothing else changes.  *)
(***************************************************************************)
CONSTANTS
    Members,
    None            \* no head yet, no successor

VARIABLES
    members,        \* the members of the line
    head,           \* its head
    next,           \* what succeeded each member
    reported        \* changes of head that were put before an analyst

vars == <<members, head, next, reported>>

Init ==
    /\ members = {}
    /\ head = None
    /\ next = [m \in Members |-> None]
    /\ reported = {}

Begin(m) ==
    /\ members = {}
    /\ members' = {m}
    /\ head' = m
    /\ UNCHANGED <<next, reported>>

Succeed(m) ==
    /\ members # {}
    /\ m \notin members
    /\ members' = members \cup {m}
    /\ head' = m
    /\ next' = [next EXCEPT ![head] = m]
    /\ reported' = reported \cup {m}

Next == \E m \in Members : Begin(m) \/ Succeed(m)

Spec == Init /\ [][Next]_vars
=============================================================================
