---------------------------- MODULE MCTokenRing ----------------------------
(* Small rings for TLC.                                                    *)
EXTENDS TokenRing

RootOnly == [p \in Proc |-> IF p = 0 THEN 1 ELSE 0]     \* the input is at rank 0
Distributed == [p \in Proc |-> 1]                       \* DistributedInput
OneThread == [p \in Proc |-> 1]
TwoAndOne == [p \in Proc |-> IF p = 0 THEN 2 ELSE 1]
NoneAndOne == [p \in Proc |-> IF p = 0 THEN 0 ELSE 1]
NoneAndTwice == [p \in Proc |-> IF p = 0 THEN 0 ELSE 2]
=============================================================================
