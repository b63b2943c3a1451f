-------------------------- MODULE MCRequestPolicy --------------------------
(* Limits of simultaneous requests for TLC: PREDICTIVE and AGGRESSIVE give *)
(* a limit its meaning with one request at a time, MULTIPLE also with two. *)
EXTENDS RequestPolicy

TwoForMultiple == [p \in Policies |-> IF p = Multiple THEN 2 ELSE 1]
Two == [p \in Policies |-> 2]
=============================================================================
