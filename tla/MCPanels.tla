------------------------------ MODULE MCPanels ------------------------------
(* Small instance of Panels for TLC: two pages of one line, a filter whose *)
(* single line is joined by two others, one whose two lines do not change, *)
(* two topics, which are interchangeable, and three calls.                 *)
EXTENDS Panels

CONSTANTS f1, f2

MCFirstWindow == f1 :> [hi |-> 1, lo |-> 1] @@ f2 :> [hi |-> 2, lo |-> 1]
TopicSymmetry == Permutations(Topics)
=============================================================================
