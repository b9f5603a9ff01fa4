----------------------------- MODULE MCConsole -----------------------------
(* Small instance of Console for TLC: two tabs; some behaviours are about  *)
(* the session, some about the settings, one about both.                   *)
EXTENDS Console

CONSTANTS r1, r2, n80, n90

Scene(i, o, x, s, e, f, p) ==
  [logins |-> i, logouts |-> o, expiries |-> x, saves |-> s, edits |-> e, faults |-> f, polls |-> p]

MCScenes == {
  Scene(2, 1, 1, 0, 0, 1, TRUE), Scene(0, 0, 1, 1, 0, 0, TRUE),
  Scene(0, 0, 0, 2, 1, 0, FALSE), Scene(0, 0, 0, 1, 2, 1, FALSE) }

MCFirstSettings == [recipients |-> r1, threshold |-> n80]
=============================================================================
