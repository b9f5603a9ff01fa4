----------------------------- MODULE MCLogRules -----------------------------
(* Small instance of LogRules for TLC: two agents, whose requests match the *)
(* same rule; one request holds lines of two hosts and matches a second    *)
(* rule as well.                                                           *)
EXTENDS LogRules, TLC

CONSTANTS r1, r2, q1, q2

MCBatch ==
  q1 :> << [host |-> "h1", hits |-> {r1}] >> @@
  q2 :> << [host |-> "h1", hits |-> {r1}], [host |-> "h2", hits |-> {r1, r2}] >>

MCInitRules == r1 :> [on |-> TRUE, thr |-> 2]
=============================================================================
