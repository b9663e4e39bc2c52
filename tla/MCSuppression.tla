--------------------------- MODULE MCSuppression ---------------------------
(* Small instances of Suppression for TLC. *)
EXTENDS Suppression, TLC

CONSTANTS m1, m2, h1, h2, o1, o2, s1, s2

Folded == m1 :> h1 @@ m2 :> h2

\* State constraint: the owner of one of the channels opts out, as often as he likes.
OneOwner == optedOut \subseteq {m1}

\* Organizations and sessions are interchangeable.
Alike == Permutations({o1, o2}) \cup Permutations({s1, s2})
=============================================================================
