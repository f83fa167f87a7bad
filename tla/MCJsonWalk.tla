----------------------------- MODULE MCJsonWalk -----------------------------
(***************************************************************************)
(* The walk over every array of up to two values, arrays and objects in it *)
(* of up to two values each, and over those one level deeper that have one *)
(* of them in front of a number.                                           *)
(***************************************************************************)
EXTENDS JsonWalk

Leaf(type, match, val) ==
    [type |-> type, match |-> match, val |-> val, kids |-> <<>>]
Node(type, kids) == [type |-> type, match |-> FALSE, val |-> 0, kids |-> kids]

\* A number; a negative one of more than 16 bits; one of another name; a real;
\* null.
Leaves == {Leaf("integer", TRUE, 5), Leaf("integer", TRUE, 7 - 131072),
           Leaf("integer", FALSE, 1), Leaf("real", TRUE, 6),
           Leaf("other", FALSE, 0)}

Lists(S) == UNION {[1 .. n -> S] : n \in 0 .. 2}
Inner == {Node(type, kids) : type \in {"array", "object"}, kids \in Lists(Leaves)}
Flat == {Node("array", kids) : kids \in Lists(Leaves \cup Inner)}
Wrapped ==
    {Node("object", <<v, Leaf("integer", TRUE, 5)>>) : v \in Inner}
Deep == {Node("array", <<v, w>>) : v \in Wrapped, w \in Wrapped}

MCTrees == Flat \cup Deep

\* What is in a value may be in it at any depth that leaves room.
MCJson ==
    [n \in 0 .. 3 |->
        CASE n = 0 -> Leaves
          [] n = 1 -> Leaves \cup Inner
          [] n = 2 -> Leaves \cup Inner \cup Wrapped
          [] n = 3 -> MCTrees]
=============================================================================
