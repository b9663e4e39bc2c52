------------------------------- MODULE Points -------------------------------
(* The arithmetic of rules that add up capped points. *)
EXTENDS Integers

AtMost(bound, n)   == IF n <= bound THEN n ELSE bound
When(condition, n) == IF condition THEN n ELSE 0
=============================================================================
