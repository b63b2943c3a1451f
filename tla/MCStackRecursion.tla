-------------------------- MODULE MCStackRecursion --------------------------
(***************************************************************************)
(* Small recursions for TLC.                                               *)
(***************************************************************************)
EXTENDS StackRecursion, TLC

\* Problems are numbered; below[n] lists the children of those that have any.
Tree(nodes, below) == [n \in nodes |-> IF n \in DOMAIN below THEN below[n] ELSE <<>>]

\* What lies at or below each problem of a tree whose children have larger
\* numbers than their parents.
SubtreesOf(children) ==
    LET sub[n \in DOMAIN children] ==
          {n} \cup UNION {sub[children[n][i]] : i \in DOMAIN children[n]}
    IN  sub

\*        1             with chunks of two, the root shares one chunk, and so
\*    / / | \ \         does 6 when it is split with three problems below it;
\*   2 3  4  5 6        2 is solved in place, with 10
\*   |        / | \
\*  10       7  8  9
WideNode == 1 .. 10
WideChildren == Tree(WideNode, (1 :> <<2, 3, 4, 5, 6>>) @@ (2 :> <<10>>) @@ (6 :> <<7, 8, 9>>))
WideSubtree == SubtreesOf(WideChildren)
WideParallel == WideNode \ {2}

\*     1             the thread that splits 1 goes on with 4, and so releases
\*   / | \           work twice running; two problems throw
\*  2  3  4
\*      / | \
\*     5  6  7
DeepNode == 1 .. 7
DeepChildren == Tree(DeepNode, (1 :> <<2, 3, 4>>) @@ (4 :> <<5, 6, 7>>))
DeepSubtree == SubtreesOf(DeepChildren)
DeepThrowing == {3, 6}
=============================================================================
