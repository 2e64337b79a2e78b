---------------------------- MODULE MCPathFinder ----------------------------
(***************************************************************************)
(* Instances of PathFinder for TLC.  Three nets compete for three wires; a *)
(* fourth net came completely routed on the wire w4.                       *)
(***************************************************************************)
EXTENDS PathFinder

CONSTANTS a, b, c, p, w1, w2, w3, w4

MCNode == {w1, w2, w3, w4}

MCNet == {a, b, c, p}

MCNetSeq == <<a, p, b, c>>

(* w3 is a wire that two nets may share, the others are ordinary. *)
MCCapacity == [x \in MCNode |-> IF x = w3 THEN 2 ELSE 1]

MCFixed == [n \in MCNet |-> [x \in MCNode |-> IF n = p /\ x = w4 THEN 1 ELSE 0]]

MCPreOcc == [x \in MCNode |-> IF x = w4 THEN 1 ELSE 0]

MCRoutes ==
    [n \in MCNet |->
       CASE n = a -> {{w1}, {w2, w3}}
         [] n = b -> {{w1, w2}, {w3}, {w4}}
         [] n = c -> {{w2}, {w1, w3}}
         [] n = p -> {{w4}, {w4, w3}}]
=============================================================================
