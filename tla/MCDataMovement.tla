--------------------------- MODULE MCDataMovement ---------------------------
(* The calls that DataMovement is checked with.                            *)
EXTENDS DataMovement

\* the problems above depth d
Above(n, d) == UNION {[1 .. l -> 0 .. n - 1] : l \in 0 .. d - 1}

Calls(n, p, bases, balances, sends) ==
    [nchildren : {n}, nprocs : {p}, bases : bases, balance : balances,
     moves : Moves, buffered : sends]

(* Two children and three processes: every choice of base cases above      *)
(* depth 2, blocking and buffered sends, and Balance, which goes on to a   *)
(* third and fourth level.  Three children and four processes: several     *)
(* senders to one receiver; and five: a receiver fed by two senders and a  *)
(* sender that begins with the second receiver.                            *)
MCCases ==
    Calls(2, 3, SUBSET Above(2, 2), {FALSE}, BOOLEAN)
        \cup Calls(2, 3, {{<<1>>}}, {TRUE}, BOOLEAN)
        \cup Calls(3, 4, {{<<1>>, <<2>>}}, {FALSE}, {FALSE})
        \cup Calls(3, 5, {{<<1>>}}, {FALSE}, {FALSE})
=============================================================================
