---------------------------- MODULE MCEditPages ----------------------------
(* Small instance of EditPages for TLC: two keys, one of them in use, and  *)
(* per page as many gestures, changes by others and faults as stay small.  *)
EXTENDS EditPages

CONSTANTS k1, k2

Scene(p, g, o, f, l) ==
  [page |-> p, gestures |-> g, others |-> o, faults |-> f, loaded |-> l]

MCScenes == {
  Scene("rules", 3, 0, 1, {}), Scene("rules", 2, 1, 1, {}),
  Scene("assets", 3, 0, 1, {}), Scene("assets", 2, 1, 1, {"rows"}),
  Scene("snmp", 3, 1, 0, {"rows"}), Scene("snmp", 2, 1, 1, {}),
  Scene("dpm", 3, 0, 1, {"rows"}), Scene("dpm", 1, 1, 1, {}),
  Scene("websites", 2, 0, 1, {"rows"}), Scene("websites", 1, 1, 1, {}),
  Scene("notes", 4, 0, 1, {}), Scene("notes", 3, 1, 1, {"rows"}),
  Scene("overview", 3, 0, 0, {"rows"}), Scene("overview", 2, 1, 1, {}) }

\* Few gestures for the run that looks for a counterexample.
MCDeletions == { Scene("websites", 1, 0, 0, {"rows"}), Scene("websites", 2, 0, 1, {}) }
=============================================================================
