------------------------------ MODULE LogRules ------------------------------
(***************************************************************************)
(* The server's log rules: server/rules/engine.go, evaluateRulesAsync of   *)
(* server/handler/log.go, the transaction of                               *)
(* server/db/log_rule_match_store.go and the handlers of                   *)
(* server/handler/rules.go.                                                *)
(*                                                                         *)
(* Every ingested request is evaluated in a goroutine of its own, against  *)
(* a copy of the enabled rules that goroutines of the rule handlers reload *)
(* after each change.  What they share is the engine's copy and the        *)
(* database, whose transactions read what is committed (READ COMMITTED).   *)
(*                                                                         *)
(* A rule is its id and its threshold; which lines its pattern matches is  *)
(* a constant.  Time is whether a match has left the threshold's window    *)
(* and whether the cooldown since a rule's last alert has passed.          *)
(***************************************************************************)
EXTENDS Naturals, FiniteSets, Sequences

CONSTANTS
  Rules,      \* ids of log_rules, never used again
  Requests,   \* requests to /api/logs/ingest
  Batch,      \* their lines: [host, hits], hits the rules whose pattern matches
  InitRules,  \* the table at the start: a function from ids to Rows
  Thresholds, \* values of threshold_count; 0 stands for none
  MaxEvents,  \* bound: changes of the table and requests, together
  MaxFaults   \* bound: statements that fail

Rows == [on : BOOLEAN, thr : Thresholds]
Functions(S, T) == UNION {[D -> T] : D \in SUBSET S}
Nothing == [x \in {} |-> 0]

\* A request without lines is not of interest: it is evaluated to nothing.
ASSUME BatchAssumption ==
  \A q \in Requests :
    /\ Len(Batch[q]) \in Nat \ {0} /\ DOMAIN Batch[q] = 1..Len(Batch[q])
    /\ \A i \in DOMAIN Batch[q] :
         Batch[q][i].hits \subseteq Rules /\ IsFiniteSet(Batch[q][i].hits)
ASSUME RequestsAssumption == IsFiniteSet(Requests)
ASSUME TableAssumption == InitRules \in Functions(Rules, Rows)
ASSUME BoundAssumption == Thresholds \subseteq Nat /\ {MaxEvents, MaxFaults} \subseteq Nat

VARIABLES
  table,    \* log_rules: the existing rules
  ids,      \* ids the table's sequence has given out
  engine,   \* Engine.rules: thresholds of the rules it knows
  job,      \* state of the Reload that follows each change: see JobStates
  snap,     \* what that Reload has read
  changes,  \* changes of the table so far
  pc,       \* where the evaluation of each request is: see PCs
  scanned,  \* lines it has evaluated
  hits,     \* matches: [req, line, rule]
  trig,     \* triggers: threshold by <<rule, host>>
  windows,  \* windowByRule: rules to be counted
  counts,   \* ruleCounts, as far as counted
  current,  \* the trigger it is at
  matches,  \* log_rule_matches: the committed rows
  aged,     \* those of them that have left the window
  last,     \* log_rule_alert_history: "none", "recent" (in cooldown), "old"
  faults,   \* statements that have failed
  \* History.
  version,  \* number of changes behind the engine's copy, and behind snap
  suspect,  \* a Reload has failed, was cut short or came after a newer one
  quiet,    \* alerts of each rule since its cooldown passed
  raced,    \* rules two evaluations found free to alert at once, since then
  lapsed,   \* rules whose cooldown could not be read or written, since then
  unseen,   \* rules that were counted while another transaction was open
  alerted   \* rules alerted so far

ruleVars == <<table, ids, engine, job, snap, changes, version, suspect>>
evalVars == <<pc, scanned, hits, trig, windows, counts, current>>
dbVars == <<matches, aged, last>>
alertHistory == <<quiet, raced, lapsed, unseen, alerted>>
vars == <<ruleVars, evalVars, dbVars, faults, alertHistory>>

\* Changes of the table are numbered; each has its Reload.
Jobs == 1..MaxEvents
JobStates == {"none", "start", "read", "done"}

\* "insert", "count": about to insert, in the transaction; "trigger" in the
\* loop over triggers; "alert", "record" about to send and to record.
PCs == {"new", "scan", "insert", "count", "trigger", "alert", "record", "done"}

Hits == {[req |-> q, line |-> i, rule |-> r] :
           q \in Requests, i \in UNION {DOMAIN Batch[p] : p \in Requests}, r \in Rules}
Triggers == Rules \X UNION {{Batch[q][i].host : i \in DOMAIN Batch[q]} : q \in Requests}

TypeOK ==
  /\ table \in Functions(Rules, Rows) /\ DOMAIN table \subseteq ids /\ ids \subseteq Rules
  /\ engine \in Functions(Rules, Thresholds)
  /\ job \in [Jobs -> JobStates]
  /\ snap \in [Jobs -> Functions(Rules, Thresholds)]
  /\ changes \in 0..MaxEvents
  /\ pc \in [Requests -> PCs]
  /\ \A q \in Requests :
       /\ scanned[q] \in 0..Len(Batch[q])
       /\ hits[q] \subseteq {m \in Hits : m.req = q /\ m.line <= scanned[q]}
       /\ DOMAIN trig[q] \subseteq Triggers
       /\ DOMAIN counts[q] \subseteq windows[q]
       /\ windows[q] \subseteq {m.rule : m \in hits[q]}
       /\ pc[q] \in {"alert", "record"} => current[q] \in DOMAIN trig[q]
  /\ matches \subseteq {m \in Hits : m.rule \in DOMAIN table}
  /\ aged \subseteq matches
  /\ last \in [Rules -> {"none", "recent", "old"}]
  /\ \A r \in Rules \ DOMAIN table : last[r] = "none"
  /\ faults \in 0..MaxFaults

Enabled(t) == [r \in {x \in DOMAIN t : t[x].on} |-> t[r].thr]

\* InitWorkers loads the rules before the server listens.
Init ==
  /\ table = InitRules /\ ids = DOMAIN InitRules /\ engine = Enabled(InitRules)
  /\ job = [n \in Jobs |-> "none"] /\ snap = [n \in Jobs |-> Nothing]
  /\ changes = 0
  /\ pc = [q \in Requests |-> "new"] /\ scanned = [q \in Requests |-> 0]
  /\ hits = [q \in Requests |-> {}] /\ trig = [q \in Requests |-> Nothing]
  /\ windows = [q \in Requests |-> {}] /\ counts = [q \in Requests |-> Nothing]
  /\ current = [q \in Requests |-> <<>>]
  /\ matches = {} /\ aged = {} /\ last = [r \in Rules |-> "none"]
  /\ faults = 0
  /\ version = [n \in Jobs \cup {0} |-> 0] /\ suspect = FALSE
  /\ quiet = [r \in Rules |-> 0]
  /\ raced = {} /\ lapsed = {} /\ unseen = {} /\ alerted = {}

-----------------------------------------------------------------------------
(* The rule handlers: each commits one statement and starts a Reload.      *)

MoreEvents == changes + Cardinality({q \in Requests : pc[q] # "new"}) < MaxEvents

\* Mutant: the engine is not told.
ReloadNot == UNCHANGED job

reloadEngine == job' = [job EXCEPT ![changes'] = "start"]

ChangeTable(t) ==
  /\ MoreEvents /\ changes' = changes + 1
  /\ table' = t
  /\ reloadEngine
  /\ UNCHANGED <<engine, snap, version, suspect, evalVars, faults>>

\* Update writes the whole row, Toggle its enabled column; an id that does
\* not exist changes nothing.
Update(r, row) ==
  /\ r \in DOMAIN table
  /\ ChangeTable([table EXCEPT ![r] = row])
  /\ UNCHANGED <<ids, dbVars, alertHistory>>

Toggle(r) ==
  /\ r \in DOMAIN table
  /\ ChangeTable([table EXCEPT ![r].on = ~@])
  /\ UNCHANGED <<ids, dbVars, alertHistory>>

\* A new rule gets a new id.
Create(r, row) ==
  /\ r \notin ids /\ ids' = ids \cup {r}
  /\ ChangeTable([x \in DOMAIN table \cup {r} |-> IF x = r THEN row ELSE table[x]])
  /\ UNCHANGED <<dbVars, alertHistory>>

\* The rows that refer to the rule go with it.  DELETE waits for the
\* transactions that have inserted such rows.
Delete(r) ==
  /\ r \in DOMAIN table
  /\ \A q \in Requests : pc[q] = "count" => \A m \in hits[q] : m.rule # r
  /\ ChangeTable([x \in DOMAIN table \ {r} |-> table[x]])
  /\ matches' = {m \in matches : m.rule # r}
  /\ aged' = {m \in aged : m.rule # r}
  /\ last' = [last EXCEPT ![r] = "none"]
  /\ UNCHANGED <<ids, alertHistory>>

Handlers ==
  \/ \E r \in Rules : Toggle(r) \/ Delete(r)
  \/ \E r \in Rules, row \in Rows : Create(r, row) \/ Update(r, row)

-----------------------------------------------------------------------------
(* Reload, in a goroutine per change.                                      *)

Fault == faults < MaxFaults /\ faults' = faults + 1

\* When the connection breaks the rows read so far are taken for all of them.
ReloadRead(n) ==
  /\ job[n] = "start"
  /\ job' = [job EXCEPT ![n] = "read"]
  /\ version' = [version EXCEPT ![n] = changes]
  /\ LET rows == Enabled(table) IN
     \/ /\ snap' = [snap EXCEPT ![n] = rows]
        /\ UNCHANGED <<suspect, faults>>
     \/ /\ Fault /\ suspect' = TRUE
        /\ \E read \in SUBSET DOMAIN rows :
             snap' = [snap EXCEPT ![n] = [r \in read |-> rows[r]]]
  /\ UNCHANGED <<table, ids, engine, changes, evalVars, dbVars, alertHistory>>

ReloadInstall(n) ==
  /\ job[n] = "read"
  /\ job' = [job EXCEPT ![n] = "done"]
  /\ engine' = snap[n]
  /\ version' = [version EXCEPT ![0] = version[n], ![n] = 0]
  /\ suspect' = (suspect \/ version[n] < version[0])
  /\ snap' = [snap EXCEPT ![n] = Nothing]
  /\ UNCHANGED <<table, ids, changes, evalVars, dbVars, faults, alertHistory>>

\* The query fails: the engine keeps the rules it has.
ReloadFails(n) ==
  /\ job[n] = "start" /\ Fault
  /\ job' = [job EXCEPT ![n] = "done"]
  /\ suspect' = TRUE
  /\ UNCHANGED <<table, ids, engine, snap, changes, version, evalVars, dbVars, alertHistory>>

-----------------------------------------------------------------------------
(* evaluateRulesAsync, one goroutine per request.  A statement fails when  *)
(* the database does, or when the ten seconds of the evaluation are over,  *)
(* which the mails it sends may take.                                      *)

Goto(q, p) == pc' = [pc EXCEPT ![q] = p]

\* Ingest has stored the lines; no evaluation when no rule is loaded.
Ingest(q) ==
  /\ pc[q] = "new" /\ MoreEvents
  /\ Goto(q, IF DOMAIN engine = {} THEN "done" ELSE "scan")
  /\ UNCHANGED <<ruleVars, scanned, hits, trig, windows, counts, current, dbVars,
                 faults, alertHistory>>

\* Each line is evaluated against the rules loaded at that moment; of two
\* lines that trigger the same rule for a host, the later one counts.
Evaluate(q) ==
  /\ pc[q] = "scan"
  /\ LET i == scanned[q] + 1
         line == Batch[q][i]
         found == line.hits \cap DOMAIN engine
         new == {<<r, line.host>> : r \in found}
     IN
     /\ scanned' = [scanned EXCEPT ![q] = i]
     /\ hits' = [hits EXCEPT ![q] = @ \cup [req : {q}, line : {i}, rule : found]]
     /\ trig' = [trig EXCEPT ![q] = [k \in DOMAIN @ \cup new |->
                   IF k \in new THEN engine[k[1]] ELSE @[k]]]
     /\ windows' = [windows EXCEPT ![q] = @ \cup {r \in found : engine[r] > 0}]
     /\ Goto(q, IF i < Len(Batch[q]) THEN "scan"
                ELSE IF hits'[q] = {} THEN "done" ELSE "insert")
  /\ UNCHANGED <<ruleVars, counts, current, dbVars, faults, alertHistory>>

\* Mutant: rows may refer to rules that are gone.
NoForeignKey(q) == TRUE

\* BatchInsertAndCount: INSERT.  It fails as a whole when a rule is gone.
RulesExist(q) == \A m \in hits[q] : m.rule \in DOMAIN table

Insert(q) ==
  /\ pc[q] = "insert" /\ RulesExist(q)
  /\ Goto(q, "count")
  /\ UNCHANGED <<ruleVars, scanned, hits, trig, windows, counts, current, dbVars,
                 faults, alertHistory>>

\* The transaction is rolled back; the evaluation goes on without counts.
Rollback(q) ==
  /\ \/ pc[q] = "insert" /\ ~RulesExist(q) /\ UNCHANGED faults
     \/ pc[q] \in {"insert", "count"} /\ Fault
  /\ Goto(q, "trigger")
  /\ counts' = [counts EXCEPT ![q] = Nothing]
  /\ UNCHANGED <<ruleVars, scanned, hits, trig, windows, current, dbVars, alertHistory>>

\* Mutant: the count leaves the transaction's own rows out.
VisibleCommitted(q, r) == {m \in matches \ aged : m.rule = r}

\* Rows in the window that a statement of q's transaction sees.
Visible(q, r) == {m \in (matches \ aged) \cup hits[q] : m.rule = r}

\* Another transaction has inserted rows of r that it has not committed.
OpenElsewhere(q, r) ==
  \E p \in Requests \ {q} : pc[p] = "count" /\ \E m \in hits[p] : m.rule = r

\* One COUNT per rule; they do not depend on each other and are one step.
Count(q) ==
  /\ pc[q] = "count" /\ counts[q] = Nothing /\ windows[q] # {}
  /\ counts' = [counts EXCEPT ![q] = [r \in windows[q] |-> Cardinality(Visible(q, r))]]
  /\ unseen' = unseen \cup {r \in windows[q] : OpenElsewhere(q, r)}
  /\ UNCHANGED <<ruleVars, pc, scanned, hits, trig, windows, current, dbVars, faults,
                 quiet, raced, lapsed, alerted>>

Commit(q) ==
  /\ pc[q] = "count" /\ DOMAIN counts[q] = windows[q]
  /\ matches' = matches \cup hits[q]
  /\ Goto(q, "trigger")
  /\ UNCHANGED <<ruleVars, scanned, hits, trig, windows, counts, current, aged, last,
                 faults, alertHistory>>

\* The answer to COMMIT is lost: the rows are there, the counts are not used.
CommitUnknown(q) ==
  /\ pc[q] = "count" /\ DOMAIN counts[q] = windows[q] /\ Fault
  /\ matches' = matches \cup hits[q]
  /\ counts' = [counts EXCEPT ![q] = Nothing]
  /\ Goto(q, "trigger")
  /\ UNCHANGED <<ruleVars, scanned, hits, trig, windows, current, aged, last,
                 alertHistory>>

-----------------------------------------------------------------------------
(* The loop over the triggers, in any order (a Go map).                    *)

Without(f, k) == [x \in DOMAIN f \ {k} |-> f[x]]

\* On to the next trigger, or the end of the goroutine.
Drop(q, k) ==
  LET rest == Without(trig[q], k)
      over == rest = Nothing
  IN
  /\ Goto(q, IF over THEN "done" ELSE "trigger")
  /\ trig' = [trig EXCEPT ![q] = rest]
  /\ current' = [current EXCEPT ![q] = <<>>]
  /\ scanned' = [scanned EXCEPT ![q] = IF over THEN 0 ELSE @]
  /\ hits' = [hits EXCEPT ![q] = IF over THEN {} ELSE @]
  /\ windows' = [windows EXCEPT ![q] = IF over THEN {} ELSE @]
  /\ counts' = [counts EXCEPT ![q] = IF over THEN Nothing ELSE @]

\* The threshold is reached, as far as this evaluation knows.
Reached(q, k) ==
  \/ trig[q][k] = 0
  \/ k[1] \in DOMAIN counts[q] /\ counts[q][k[1]] >= trig[q][k]

\* Between CooldownPassed and RecordAlert for rule r.
Pending(q, r) == pc[q] \in {"alert", "record"} /\ current[q][1] = r

\* CooldownPassed answers free; so does a failing query, whose error is
\* ignored.  Then the threshold is looked at.
CheckTrigger(q, k) ==
  /\ pc[q] = "trigger" /\ k \in DOMAIN trig[q]
  /\ \E failing \in BOOLEAN :
       LET r == k[1]
           pass == (failing \/ last[r] # "recent") /\ Reached(q, k)
       IN
       /\ IF failing THEN Fault ELSE UNCHANGED faults
       /\ IF pass
          THEN /\ Goto(q, "alert") /\ current' = [current EXCEPT ![q] = k]
               /\ raced' = IF \E p \in Requests : Pending(p, r)
                           THEN raced \cup {r} ELSE raced
               /\ lapsed' = IF failing THEN lapsed \cup {r} ELSE lapsed
               /\ UNCHANGED <<scanned, hits, trig, windows, counts>>
          ELSE Drop(q, k) /\ UNCHANGED <<raced, lapsed>>
  /\ UNCHANGED <<ruleVars, dbVars, quiet, unseen, alerted>>

\* sendAlert, whose gates are those of AlertChecker.
SendAlert(q) ==
  /\ pc[q] = "alert"
  /\ Goto(q, "record")
  /\ quiet' = [quiet EXCEPT ![current[q][1]] = @ + 1]
  /\ alerted' = alerted \cup {current[q][1]}
  /\ UNCHANGED <<ruleVars, scanned, hits, trig, windows, counts, current, dbVars,
                 faults, raced, lapsed, unseen>>

\* Mutant: ON CONFLICT DO NOTHING.
InsertLast(r) == last' = [last EXCEPT ![r] = IF @ = "none" THEN "recent" ELSE @]

UpsertLast(r) == last' = [last EXCEPT ![r] = "recent"]

\* The error of RecordAlert (rule gone, database) is ignored.
RecordAlert(q) ==
  /\ pc[q] = "record"
  /\ LET k == current[q] IN
     /\ \/ /\ k[1] \in DOMAIN table /\ UpsertLast(k[1])
           /\ UNCHANGED <<faults, lapsed>>
        \/ /\ k[1] \notin DOMAIN table
           /\ UNCHANGED <<last, faults, lapsed>>
        \/ /\ Fault /\ lapsed' = lapsed \cup {k[1]}
           /\ UNCHANGED last
     /\ Drop(q, k)
  /\ UNCHANGED <<ruleVars, matches, aged, quiet, raced, unseen, alerted>>

-----------------------------------------------------------------------------
(* Time. *)

\* A match leaves the window of its rule's threshold.
Age(m) ==
  /\ m \in matches \ aged
  /\ aged' = aged \cup {m}
  /\ UNCHANGED <<ruleVars, evalVars, matches, last, faults, alertHistory>>

\* The cooldown of a rule passes.
CooldownPasses(r) ==
  /\ last[r] = "recent"
  /\ last' = [last EXCEPT ![r] = "old"]
  /\ quiet' = [quiet EXCEPT ![r] = 0]
  /\ IF \E q \in Requests : Pending(q, r)
     THEN UNCHANGED <<raced, lapsed>>
     ELSE raced' = raced \ {r} /\ lapsed' = lapsed \ {r}
  /\ UNCHANGED <<ruleVars, evalVars, matches, aged, faults, unseen, alerted>>

Evaluation(q) ==
  \/ Evaluate(q) \/ Insert(q) \/ Count(q) \/ Rollback(q) \/ Commit(q) \/ CommitUnknown(q)
  \/ \E k \in DOMAIN trig[q] : CheckTrigger(q, k)
  \/ SendAlert(q) \/ RecordAlert(q)

Next ==
  \/ Handlers
  \/ \E n \in Jobs : ReloadRead(n) \/ ReloadInstall(n) \/ ReloadFails(n)
  \/ \E q \in Requests : Ingest(q) \/ Evaluation(q)
  \/ \E m \in matches : Age(m)
  \/ \E r \in Rules : CooldownPasses(r)

Spec == Init /\ [][Next]_vars

-----------------------------------------------------------------------------
(* Properties. *)

\* Within its cooldown an existing rule is alerted twice only if two
\* evaluations were between CooldownPassed and RecordAlert at the same time,
\* or the time of the last alert could not be read or written: nothing else
\* breaks the cooldown, neither several hosts in a request nor changes and
\* reloads of the rules (log.go:175-196).
CooldownKept == \A r \in DOMAIN table : quiet[r] > 1 => r \in raced \cup lapsed

\* While rules stay as they are and the database works, a rule whose
\* threshold the matches in the window reach has been alerted once all
\* evaluations are over; only transactions that overlapped, and so did not
\* see each other's matches, may have missed it (log_rule_match_store.go:63-117).
ThresholdAlerted ==
  changes = 0 /\ faults = 0 /\ (\A q \in Requests : pc[q] \in {"new", "done"}) =>
    \A r \in DOMAIN Enabled(table) \ unseen :
      LET n == Cardinality({m \in matches \ aged : m.rule = r}) IN
      n > 0 /\ n >= table[r].thr => r \in alerted

\* When no Reload is under way the engine has the enabled rules of the
\* table, unless a Reload failed, was cut short, or had read an older table
\* and came to its end after a newer one (engine.go:58-105, rules.go:279-285).
EngineFollowsTable ==
  (\A n \in Jobs : job[n] \in {"none", "done"}) /\ ~suspect
    => engine = Enabled(table)

\* init.sql:206 says that cooldown_seconds is the least time between two
\* alerts of a rule.
CooldownIsMinimum == \A r \in DOMAIN table : r \notin lapsed => quiet[r] <= 1
=============================================================================
