--------------------------- MODULE LogRulesProofs ---------------------------
(***************************************************************************)
(* Proofs about LogRules, for every set of rules and requests and every    *)
(* bound: when the engine has the rules of the table, and what alone can   *)
(* break a cooldown.                                                       *)
(***************************************************************************)
EXTENDS LogRules, FiniteSetTheorems, TLAPS

\* f is a function on S, whatever its values are.
IsFunction(f, S) == f = [x \in S |-> f[x]]

-----------------------------------------------------------------------------
(* The engine and the reloads.                                             *)

ReloadType ==
  /\ changes \in 0..MaxEvents
  /\ job \in [Jobs -> JobStates]
  /\ version \in [Jobs \cup {0} -> 0..MaxEvents]
  /\ suspect \in BOOLEAN
  /\ IsFunction(snap, Jobs)

\* The Reload of the latest change has still to read, has read what the
\* table is now, or has brought it into the engine.
Latest ==
  changes > 0 =>
    \/ job[changes] = "start"
    \/ job[changes] = "read" /\ version[changes] = changes
    \/ job[changes] = "done" /\ version[0] = changes

\* What carries the number of the latest change is the table of now.
Current ==
  /\ \A n \in Jobs : job[n] = "read" /\ version[n] = changes => snap[n] = Enabled(table)
  /\ version[0] = changes => engine = Enabled(table)

ReloadInv ==
  /\ ReloadType
  /\ \A n \in Jobs \cup {0} : version[n] <= changes
  /\ ~suspect => Latest /\ Current

LEMMA MoreEventsFact ==
  ASSUME MoreEvents, changes \in Nat
  PROVE  changes + 1 <= MaxEvents /\ changes + 1 \in Jobs
<1> DEFINE R == {q \in Requests : pc[q] # "new"}
<1>1. IsFiniteSet(R)
  BY RequestsAssumption, FS_Subset
<1>2. Cardinality(R) \in Nat
  BY <1>1, FS_CardinalityType
<1>3. changes + Cardinality(R) < MaxEvents
  BY DEF MoreEvents
<1> HIDE DEF R
<1> QED
  BY <1>2, <1>3, BoundAssumption DEF Jobs

LEMMA ReloadInit == Init => ReloadInv
<1> SUFFICES ASSUME Init PROVE ReloadInv
  OBVIOUS
<1> USE DEF Init
<1>1. ReloadType
  <2>1. MaxEvents \in Nat
    BY BoundAssumption
  <2>2. IsFunction(snap, Jobs)
    BY DEF IsFunction
  <2>3. changes \in 0..MaxEvents /\ version \in [Jobs \cup {0} -> 0..MaxEvents]
    BY <2>1
  <2> QED
    BY <2>2, <2>3 DEF ReloadType, JobStates
<1>2. \A n \in Jobs \cup {0} : version[n] <= changes
  BY BoundAssumption DEF Jobs
<1>3. Latest
  BY DEF Latest
<1>4. Current
  BY DEF Current
<1> QED
  BY <1>1, <1>2, <1>3, <1>4 DEF ReloadInv

\* A change of the table makes every copy an older one.
LEMMA ChangeReloads ==
  ASSUME ReloadInv, NEW t, ChangeTable(t)
  PROVE  ReloadInv'
<1> USE DEF ReloadInv, ReloadType
<1>1. changes' = changes + 1 /\ changes + 1 <= MaxEvents /\ changes + 1 \in Jobs
  BY MoreEventsFact, BoundAssumption DEF ChangeTable
<1>2. job' = [job EXCEPT ![changes + 1] = "start"]
  BY <1>1 DEF ChangeTable, reloadEngine
<1>3. UNCHANGED <<engine, snap, version, suspect>>
  BY DEF ChangeTable
<1>4. ReloadType'
  BY <1>1, <1>2, <1>3 DEF JobStates, IsFunction, Jobs
<1>5. \A n \in Jobs \cup {0} : version[n] <= changes /\ version[n] \in 0..MaxEvents
  OBVIOUS
<1>6. \A n \in Jobs \cup {0} : version'[n] <= changes' /\ version'[n] # changes'
  BY <1>1, <1>3, <1>5
<1>7. Latest'
  BY <1>1, <1>2 DEF Latest
<1>8. Current'
  BY <1>6 DEF Current, Jobs
<1> QED
  BY <1>4, <1>6, <1>7, <1>8

LEMMA ReadReloads ==
  ASSUME ReloadInv, NEW n \in Jobs, ReloadRead(n)
  PROVE  ReloadInv'
<1> USE DEF ReloadInv, ReloadType
<1>1. /\ job[n] = "start" /\ job' = [job EXCEPT ![n] = "read"]
      /\ version' = [version EXCEPT ![n] = changes]
      /\ UNCHANGED <<table, engine, changes>>
      /\ suspect' \in BOOLEAN /\ IsFunction(snap', Jobs)
      /\ ~suspect' => ~suspect /\ snap' = [snap EXCEPT ![n] = Enabled(table)]
  BY DEF ReloadRead, IsFunction
<1>2. n # 0 /\ n \in Nat
  BY BoundAssumption DEF Jobs
<1>3. ReloadType'
  BY <1>1 DEF JobStates
<1>4. \A m \in Jobs \cup {0} : version'[m] <= changes'
  BY <1>1
<1>5. ASSUME ~suspect' PROVE Latest'
  BY <1>1, <1>2, <1>5, BoundAssumption DEF Latest, Jobs
<1>6. ASSUME ~suspect' PROVE Current'
  <2>1. \A m \in Jobs : m # n => snap'[m] = snap[m]
    BY <1>1, <1>6 DEF IsFunction
  <2>2. snap'[n] = Enabled(table)
    BY <1>1, <1>6 DEF IsFunction
  <2>3. Current /\ Enabled(table)' = Enabled(table)
    BY <1>1, <1>6 DEF Enabled
  <2> QED
    BY <1>1, <1>2, <2>1, <2>2, <2>3 DEF Current
<1> QED
  BY <1>3, <1>4, <1>5, <1>6

LEMMA InstallReloads ==
  ASSUME ReloadInv, NEW n \in Jobs, ReloadInstall(n)
  PROVE  ReloadInv'
<1> USE DEF ReloadInv, ReloadType
<1>1. /\ job[n] = "read" /\ job' = [job EXCEPT ![n] = "done"]
      /\ engine' = snap[n] /\ snap' = [snap EXCEPT ![n] = Nothing]
      /\ version' = [version EXCEPT ![0] = version[n], ![n] = 0]
      /\ suspect' = (suspect \/ version[n] < version[0])
      /\ UNCHANGED <<table, changes>>
  BY DEF ReloadInstall
<1>2. n # 0 /\ n \in Nat /\ n \in Jobs \cup {0} /\ 0 \in Jobs \cup {0}
  BY BoundAssumption DEF Jobs
<1>3. version'[0] = version[n] /\ version'[n] = 0
  BY <1>1, <1>2
<1>4. \A m \in Jobs : m # n => version'[m] = version[m] /\ job'[m] = job[m] /\ snap'[m] = snap[m]
  BY <1>1, <1>2, BoundAssumption DEF IsFunction, Jobs
<1>5. ReloadType'
  BY <1>1, <1>2, BoundAssumption DEF JobStates, IsFunction
<1>6. \A m \in Jobs \cup {0} : version'[m] <= changes'
  BY <1>1, <1>2, <1>3, <1>4
<1>7. job'[n] = "done"
  BY <1>1
<1>8. ASSUME ~suspect' PROVE Latest' /\ Current'
  <2>1. ~suspect /\ ~(version[n] < version[0]) /\ Latest /\ Current
    BY <1>1, <1>8
  <2>2. version[n] \in Nat /\ version[0] \in Nat /\ version[n] <= changes /\ version[0] <= changes
    BY <1>2
  <2>3. Enabled(table)' = Enabled(table)
    BY <1>1 DEF Enabled
  <2>4. Current'
    BY <1>1, <1>3, <1>4, <1>7, <2>1, <2>3 DEF Current
  <2>5. Latest'
    <3>1. CASE n = changes
      BY <1>1, <1>3, <1>7, <2>1, <3>1 DEF Latest
    <3>2. CASE n # changes
      <4>1. changes > 0 => changes \in Jobs
        BY BoundAssumption DEF Jobs
      <4>2. version[0] = changes => version'[0] = changes
        BY <1>3, <2>1, <2>2
      <4> QED
        BY <1>1, <1>4, <2>1, <3>2, <4>1, <4>2 DEF Latest
    <3> QED
      BY <3>1, <3>2
  <2> QED
    BY <2>4, <2>5
<1> QED
  BY <1>5, <1>6, <1>8

LEMMA FailReloads ==
  ASSUME ReloadInv, NEW n \in Jobs, ReloadFails(n)
  PROVE  ReloadInv'
BY DEF ReloadInv, ReloadType, ReloadFails, JobStates

LEMMA OtherReloads ==
  ASSUME ReloadInv, UNCHANGED ruleVars
  PROVE  ReloadInv'
BY DEF ReloadInv, ReloadType, ruleVars, IsFunction, Latest, Current, Enabled

LEMMA ReloadStep == ReloadInv /\ [Next]_vars => ReloadInv'
<1> SUFFICES ASSUME ReloadInv, [Next]_vars PROVE ReloadInv'
  OBVIOUS
<1>1. CASE Handlers
  <2>1. ASSUME NEW r, Toggle(r) \/ Delete(r) PROVE ReloadInv'
    BY <2>1, ChangeReloads DEF Toggle, Delete
  <2>2. ASSUME NEW r, NEW row, Create(r, row) \/ Update(r, row) PROVE ReloadInv'
    BY <2>2, ChangeReloads DEF Create, Update
  <2> QED
    BY <1>1, <2>1, <2>2 DEF Handlers
<1>2. ASSUME NEW n \in Jobs, ReloadRead(n) \/ ReloadInstall(n) \/ ReloadFails(n)
      PROVE  ReloadInv'
  BY <1>2, ReadReloads, InstallReloads, FailReloads
<1>3. ASSUME NEW q \in Requests, Ingest(q) \/ Evaluation(q) PROVE UNCHANGED ruleVars
  <2>1. ASSUME NEW k, CheckTrigger(q, k) PROVE UNCHANGED ruleVars
    BY <2>1 DEF CheckTrigger
  <2> QED
    BY <1>3, <2>1 DEF Ingest, Evaluation, Evaluate, Insert, Count, Rollback, Commit,
         CommitUnknown, SendAlert, RecordAlert
<1>4. ASSUME NEW m, Age(m) PROVE UNCHANGED ruleVars
  BY <1>4 DEF Age
<1>5. ASSUME NEW r, CooldownPasses(r) PROVE UNCHANGED ruleVars
  BY <1>5 DEF CooldownPasses
<1>6. CASE UNCHANGED vars
  BY <1>6, OtherReloads DEF vars
<1> QED
  BY <1>1, <1>2, <1>3, <1>4, <1>5, <1>6, OtherReloads DEF Next

\* When no Reload is under way, the engine has the enabled rules of the
\* table, unless a Reload failed, was cut short or came after a newer one
\* (engine.go:58-105, rules.go:279-285).
THEOREM EngineUpToDate == Spec => []EngineFollowsTable
<1>1. ReloadInv => EngineFollowsTable
  <2> SUFFICES ASSUME ReloadInv, \A n \in Jobs : job[n] \in {"none", "done"}, ~suspect
               PROVE  engine = Enabled(table)
    BY DEF EngineFollowsTable
  <2> USE DEF ReloadInv, ReloadType
  <2>1. CASE changes = 0
    <3>1. 0 \in Jobs \cup {0} /\ version[0] <= changes /\ version[0] \in Nat
      OBVIOUS
    <3> QED
      BY <2>1, <3>1 DEF Current
  <2>2. CASE changes > 0
    BY <2>2, BoundAssumption DEF Current, Latest, Jobs
  <2> QED
    BY <2>1, <2>2
<1> QED
  BY <1>1, ReloadInit, ReloadStep, PTL DEF Spec

-----------------------------------------------------------------------------
(* The cooldown.                                                           *)

CoolType ==
  /\ pc \in [Requests -> PCs]
  /\ IsFunction(current, Requests) /\ IsFunction(trig, Requests) /\ IsFunction(snap, Jobs)
  /\ last \in [Rules -> {"none", "recent", "old"}]
  /\ quiet \in [Rules -> Nat]
  /\ ids \subseteq Rules

\* Only rules that have existed are in the engine, triggered or alerted, so
\* that a new rule starts from nothing.
Known ==
  /\ DOMAIN table \subseteq ids /\ DOMAIN engine \subseteq ids
  /\ \A n \in Jobs : DOMAIN snap[n] \subseteq ids
  /\ \A q \in Requests : \A k \in DOMAIN trig[q] : k[1] \in ids
  /\ \A q \in Requests, r \in Rules : Pending(q, r) => r \in ids
  /\ \A r \in Rules \ ids : quiet[r] = 0

\* At most one evaluation is between CooldownPassed and RecordAlert for r;
\* it is the first to alert r since the cooldown passed, and while it is on
\* its way nobody else finds r free, as afterwards the time is recorded.
Calm(r) ==
  /\ \A p, q \in Requests : Pending(p, r) /\ Pending(q, r) => p = q
  /\ quiet[r] \in {0, 1}
  /\ quiet[r] = 1 => \/ last[r] = "recent"
                     \/ \E q \in Requests : pc[q] = "record" /\ current[q][1] = r
  /\ \A q \in Requests : pc[q] = "alert" /\ current[q][1] = r => quiet[r] = 0

Quiet == \A r \in DOMAIN table \ (raced \cup lapsed) : Calm(r)

CoolInv == CoolType /\ Known /\ Quiet

LEMMA CoolInit == Init => CoolInv
<1> SUFFICES ASSUME Init PROVE CoolInv
  OBVIOUS
<1> USE DEF Init
<1>1. DOMAIN InitRules \subseteq Rules
  BY TableAssumption DEF Functions
<1>2. CoolType
  BY <1>1 DEF CoolType, PCs, IsFunction
<1>3. Known
  BY DEF Known, Pending, Enabled, Nothing
<1>4. Quiet
  <2> SUFFICES ASSUME NEW r \in DOMAIN table PROVE Calm(r)
    BY DEF Quiet
  <2> QED
    BY <1>1 DEF Calm, Pending
<1> QED
  BY <1>2, <1>3, <1>4 DEF CoolInv

\* Steps that leave evaluations and history alone.
LEMMA CalmKept ==
  ASSUME NEW r, Calm(r), UNCHANGED <<pc, current, quiet>>, last'[r] = last[r]
  PROVE  Calm(r)'
BY DEF Calm, Pending

\* Steps of an evaluation that is and stays outside the critical part.
LEMMA CalmElsewhere ==
  ASSUME CoolInv, NEW q \in Requests, NEW s \in PCs \ {"alert", "record"},
         pc[q] \notin {"alert", "record"}, pc' = [pc EXCEPT ![q] = s],
         UNCHANGED <<table, ids, current, last, quiet, raced, lapsed>>
  PROVE  /\ pc' \in [Requests -> PCs]
         /\ \A p \in Requests, r \in Rules : Pending(p, r)' => Pending(p, r)
         /\ Quiet'
<1> USE DEF CoolInv, CoolType
<1>1. pc' \in [Requests -> PCs]
  OBVIOUS
<1>2. \A p \in Requests : pc'[p] \in {"alert", "record"} \/ pc[p] \in {"alert", "record"}
                         => pc'[p] = pc[p]
  OBVIOUS
<1>3. \A p \in Requests : \A r : Pending(p, r)' <=> Pending(p, r)
  BY <1>2 DEF Pending
<1>4. ASSUME NEW r, Calm(r) PROVE Calm(r)'
  BY <1>2, <1>3, <1>4 DEF Calm
<1> QED
  BY <1>1, <1>3, <1>4 DEF Quiet

LEMMA CoolTable ==
  ASSUME CoolInv, Handlers
  PROVE  CoolInv'
<1> USE DEF CoolInv
<1>1. ASSUME NEW t, ChangeTable(t)
      PROVE  /\ table' = t
             /\ UNCHANGED <<engine, snap, pc, current, trig>>
  BY <1>1 DEF ChangeTable, evalVars
<1>2. ASSUME NEW r, NEW t, ChangeTable(t), DOMAIN t \subseteq DOMAIN table,
             UNCHANGED <<ids, quiet, raced, lapsed>>, last' \in [Rules -> {"none", "recent", "old"}],
             \A x \in DOMAIN t : last'[x] = last[x]
      PROVE  CoolInv'
  <2>1. CoolType' /\ Known'
    BY <1>1, <1>2 DEF CoolType, Known, Pending, IsFunction
  <2>2. Quiet'
    BY <1>1, <1>2, CalmKept DEF Quiet
  <2> QED
    BY <2>1, <2>2
<1>3. ASSUME NEW r, Toggle(r) PROVE CoolInv'
  BY <1>2, <1>3 DEF Toggle, dbVars, alertHistory, CoolType
<1>4. ASSUME NEW r, NEW row, Update(r, row) PROVE CoolInv'
  BY <1>2, <1>4 DEF Update, dbVars, alertHistory, CoolType
<1>5. ASSUME NEW r, Delete(r) PROVE CoolInv'
  <2> DEFINE t == [x \in DOMAIN table \ {r} |-> table[x]]
  <2>1. ChangeTable(t) /\ last' = [last EXCEPT ![r] = "none"]
        /\ UNCHANGED <<ids, quiet, raced, lapsed>>
    BY <1>5 DEF Delete, alertHistory
  <2>2. DOMAIN t = DOMAIN table \ {r}
    OBVIOUS
  <2>3. last' \in [Rules -> {"none", "recent", "old"}]
    BY <2>1 DEF CoolType
  <2>4. \A x \in DOMAIN t : last'[x] = last[x]
    BY <2>1, <2>2 DEF CoolType, Known
  <2> HIDE DEF t
  <2> QED
    BY <1>2, <2>1, <2>2, <2>3, <2>4
<1>6. ASSUME NEW r \in Rules, NEW row, Create(r, row) PROVE CoolInv'
  <2> DEFINE t == [x \in DOMAIN table \cup {r} |-> IF x = r THEN row ELSE table[x]]
  <2>1. /\ r \notin ids /\ ids' = ids \cup {r} /\ ChangeTable(t)
        /\ UNCHANGED <<last, quiet, raced, lapsed>>
    BY <1>6 DEF Create, dbVars, alertHistory
  <2>2. DOMAIN t = DOMAIN table \cup {r}
    OBVIOUS
  <2> HIDE DEF t
  <2>3. /\ table' = t
        /\ UNCHANGED <<engine, snap, pc, current, trig>>
    BY <1>1, <2>1
  <2>4. CoolType' /\ Known'
    BY <2>1, <2>2, <2>3 DEF CoolType, Known, Pending, IsFunction
  <2>5. Calm(r)'
    <3>1. quiet[r] = 0 /\ \A q \in Requests : ~Pending(q, r)
      BY <2>1 DEF Known
    <3> QED
      BY <2>1, <2>3, <3>1 DEF Calm, Pending
  <2>6. Quiet'
    BY <2>1, <2>2, <2>3, <2>5, CalmKept DEF Quiet
  <2> QED
    BY <2>4, <2>6
<1> QED
  BY <1>3, <1>4, <1>5, <1>6 DEF Handlers

LEMMA CoolReload ==
  ASSUME CoolInv, NEW n \in Jobs, ReloadRead(n) \/ ReloadInstall(n) \/ ReloadFails(n)
  PROVE  CoolInv'
<1> USE DEF CoolInv
<1>1. UNCHANGED <<table, ids, pc, current, trig, last, quiet, raced, lapsed>>
  BY DEF ReloadRead, ReloadInstall, ReloadFails, evalVars, dbVars, alertHistory
<1>2. Quiet'
  BY <1>1, CalmKept DEF Quiet
<1>3. ASSUME ReloadRead(n) PROVE IsFunction(snap', Jobs) /\ Known'
  <2>1. PICK f : snap' = [snap EXCEPT ![n] = f] /\ DOMAIN f \subseteq DOMAIN table
    BY <1>3 DEF ReloadRead, Enabled
  <2> QED
    BY <1>1, <1>3, <2>1 DEF ReloadRead, CoolType, Known, IsFunction, Pending
<1>4. ASSUME ReloadInstall(n) PROVE IsFunction(snap', Jobs) /\ Known'
  <2>1. engine' = snap[n] /\ snap' = [snap EXCEPT ![n] = Nothing] /\ DOMAIN Nothing = {}
    BY <1>4 DEF ReloadInstall, Nothing
  <2> QED
    BY <1>1, <2>1 DEF CoolType, Known, IsFunction, Pending
<1>5. ASSUME ReloadFails(n) PROVE IsFunction(snap', Jobs) /\ Known'
  BY <1>1, <1>5 DEF ReloadFails, CoolType, Known, IsFunction, Pending
<1>6. IsFunction(snap', Jobs) /\ Known'
  BY <1>3, <1>4, <1>5
<1>7. CoolType'
  BY <1>1, <1>6 DEF CoolType, IsFunction
<1> QED
  BY <1>2, <1>6, <1>7

\* The steps of an evaluation up to the loop over its triggers.
LEMMA CoolScan ==
  ASSUME CoolInv, NEW q \in Requests,
         \/ Ingest(q) \/ Evaluate(q) \/ Insert(q) \/ Count(q) \/ Rollback(q)
         \/ Commit(q) \/ CommitUnknown(q)
  PROVE  CoolInv'
<1> USE DEF CoolInv
<1>1. UNCHANGED <<table, ids, engine, snap, current, last, quiet, raced, lapsed>>
  BY DEF Ingest, Evaluate, Insert, Count, Rollback, Commit, CommitUnknown, ruleVars,
         dbVars, alertHistory
<1>2. PICK s \in PCs \ {"alert", "record"} :
        pc[q] \notin {"alert", "record"} /\ pc' = [pc EXCEPT ![q] = s]
  <2>1. ASSUME Count(q) PROVE pc' = [pc EXCEPT ![q] = "count"]
    BY <2>1 DEF Count, CoolType
  <2>2. ASSUME Evaluate(q)
        PROVE  \E s \in {"scan", "done", "insert"} : pc' = [pc EXCEPT ![q] = s]
    BY <2>2 DEF Evaluate, Goto
  <2>3. ASSUME Ingest(q)
        PROVE  \E s \in {"scan", "done"} : pc' = [pc EXCEPT ![q] = s]
    BY <2>3 DEF Ingest, Goto
  <2> QED
    BY <2>1, <2>2, <2>3 DEF Ingest, Evaluate, Insert, Count, Rollback, Commit,
         CommitUnknown, Goto, PCs
<1>3. /\ pc' \in [Requests -> PCs]
      /\ \A p \in Requests, r \in Rules : Pending(p, r)' => Pending(p, r)
      /\ Quiet'
  BY <1>1, <1>2, CalmElsewhere
<1>4. IsFunction(trig', Requests) /\ \A p \in Requests : \A k \in DOMAIN trig'[p] : k[1] \in ids
  <2>1. CASE Evaluate(q)
    <3> DEFINE line == Batch[q][scanned[q] + 1]
               found == line.hits \cap DOMAIN engine
               new == {<<r, line.host>> : r \in found}
               f == [k \in DOMAIN trig[q] \cup new |->
                       IF k \in new THEN engine[k[1]] ELSE trig[q][k]]
    <3>1. trig' = [trig EXCEPT ![q] = f]
      BY <2>1 DEF Evaluate
    <3>2. DOMAIN f = DOMAIN trig[q] \cup new
      OBVIOUS
    <3>3. \A k \in new : k[1] \in ids
      BY DEF Known
    <3> HIDE DEF f, new
    <3> QED
      BY <3>1, <3>2, <3>3 DEF CoolType, IsFunction, Known
  <2>2. CASE UNCHANGED trig
    BY <2>2 DEF CoolType, IsFunction, Known
  <2> QED
    BY <2>1, <2>2 DEF Ingest, Insert, Count, Rollback, Commit, CommitUnknown
<1>5. CoolType'
  BY <1>1, <1>3, <1>4 DEF CoolType, IsFunction
<1>6. Known'
  BY <1>1, <1>3, <1>4 DEF Known
<1> QED
  BY <1>3, <1>5, <1>6

LEMMA DropFact ==
  ASSUME CoolInv, NEW q \in Requests, NEW k, Drop(q, k)
  PROVE  /\ \E s \in {"done", "trigger"} : pc' = [pc EXCEPT ![q] = s]
         /\ current' = [current EXCEPT ![q] = <<>>]
         /\ IsFunction(trig', Requests)
         /\ \A p \in Requests : DOMAIN trig'[p] \subseteq DOMAIN trig[p]
<1>1. trig' = [trig EXCEPT ![q] = Without(trig[q], k)]
  BY DEF Drop
<1>2. DOMAIN Without(trig[q], k) \subseteq DOMAIN trig[q]
  BY DEF Without
<1>3. IsFunction(trig', Requests) /\ \A p \in Requests : DOMAIN trig'[p] \subseteq DOMAIN trig[p]
  BY <1>1, <1>2 DEF CoolInv, CoolType, IsFunction
<1> QED
  BY <1>3 DEF Drop, Goto

LEMMA CoolCheck ==
  ASSUME CoolInv, NEW q \in Requests, NEW k \in DOMAIN trig[q], CheckTrigger(q, k)
  PROVE  CoolInv'
<1> USE DEF CoolInv
<1>1. /\ pc[q] = "trigger" /\ k[1] \in ids /\ k[1] \in Rules
      /\ UNCHANGED <<table, ids, engine, snap, last, quiet>>
  BY DEF CheckTrigger, ruleVars, dbVars, CoolType, Known
<1>2. CASE Drop(q, k) /\ UNCHANGED <<raced, lapsed>>
  <2>1. PICK s \in {"done", "trigger"} : pc' = [pc EXCEPT ![q] = s]
    BY <1>2, DropFact
  <2>2. /\ current' = [current EXCEPT ![q] = <<>>]
        /\ IsFunction(trig', Requests)
        /\ \A p \in Requests : DOMAIN trig'[p] \subseteq DOMAIN trig[p]
    BY <1>2, DropFact
  <2>3. \A p \in Requests :
          pc'[p] \in {"alert", "record"} \/ pc[p] \in {"alert", "record"}
            => pc'[p] = pc[p] /\ current'[p] = current[p]
    BY <1>1, <2>1, <2>2 DEF CoolType, IsFunction
  <2>4. \A p \in Requests : \A r : Pending(p, r)' <=> Pending(p, r)
    BY <2>3 DEF Pending
  <2>5. CoolType'
    BY <1>1, <2>1, <2>2 DEF CoolType, IsFunction, PCs
  <2>6. Known'
    BY <1>1, <2>2, <2>4 DEF Known
  <2>7. ASSUME NEW r, Calm(r) PROVE Calm(r)'
    BY <1>1, <2>3, <2>4, <2>7 DEF Calm
  <2> QED
    BY <1>1, <1>2, <2>5, <2>6, <2>7 DEF Quiet
<1>3. CASE /\ pc' = [pc EXCEPT ![q] = "alert"] /\ current' = [current EXCEPT ![q] = k]
           /\ raced' = IF \E p \in Requests : Pending(p, k[1])
                       THEN raced \cup {k[1]} ELSE raced
           /\ \/ last[k[1]] # "recent" /\ lapsed' = lapsed
              \/ lapsed' = lapsed \cup {k[1]}
           /\ UNCHANGED trig
  <2>1. pc'[q] = "alert" /\ current'[q] = k
    BY <1>3 DEF CoolType, IsFunction
  <2>2. \A p \in Requests \ {q} : pc'[p] = pc[p] /\ current'[p] = current[p]
    BY <1>3 DEF CoolType, IsFunction
  <2>3. CoolType'
    BY <1>1, <1>3 DEF CoolType, IsFunction, PCs
  <2>4. \A p \in Requests : \A r : Pending(p, r)' <=> Pending(p, r) \/ (p = q /\ r = k[1])
    BY <1>1, <2>1, <2>2 DEF Pending
  <2>5. Known'
    BY <1>1, <1>3, <2>4 DEF Known
  <2>6. ASSUME NEW r \in DOMAIN table \ (raced' \cup lapsed')
        PROVE  Calm(r)'
    <3>1. Calm(r)
      BY <1>3, <2>6 DEF Quiet
    <3>2. CASE r # k[1]
      BY <1>1, <2>1, <2>2, <2>4, <3>1, <3>2 DEF Calm
    <3>3. CASE r = k[1]
      <4>1. (\A p \in Requests : ~Pending(p, r)) /\ last[r] # "recent"
        BY <1>3, <2>6, <3>3
      <4>2. quiet[r] = 0
        BY <3>1, <4>1 DEF Calm, Pending
      <4> QED
        BY <1>1, <2>4, <4>1, <4>2 DEF Calm
    <3> QED
      BY <3>2, <3>3
  <2> QED
    BY <1>1, <2>3, <2>5, <2>6 DEF Quiet
<1> QED
  BY <1>2, <1>3 DEF CheckTrigger, Goto

LEMMA CoolSend ==
  ASSUME CoolInv, NEW q \in Requests, SendAlert(q)
  PROVE  CoolInv'
<1> USE DEF CoolInv
<1> DEFINE c == current[q][1]
<1>1. /\ pc[q] = "alert" /\ pc' = [pc EXCEPT ![q] = "record"]
      /\ quiet' = [quiet EXCEPT ![c] = @ + 1]
      /\ UNCHANGED <<table, ids, engine, snap, trig, current, last, raced, lapsed>>
  BY DEF SendAlert, Goto, ruleVars, dbVars
<1>2. pc'[q] = "record" /\ \A p \in Requests \ {q} : pc'[p] = pc[p]
  BY <1>1 DEF CoolType
<1>3. CoolType'
  <2>1. quiet' \in [Rules -> Nat]
    <3>1. \A r \in Rules : quiet[r] \in Nat /\ quiet[r] + 1 \in Nat
      BY DEF CoolType
    <3> HIDE DEF c
    <3> QED
      BY <1>1, <3>1 DEF CoolType
  <2>2. pc' \in [Requests -> PCs]
    BY <1>1 DEF CoolType, PCs
  <2> QED
    BY <1>1, <2>1, <2>2 DEF CoolType, IsFunction
<1>4. \A p \in Requests : \A r : Pending(p, r)' <=> Pending(p, r)
  BY <1>1, <1>2 DEF Pending
<1>5. Known'
  <2>1. \A r \in Rules \ ids : ~Pending(q, r)
    BY DEF Known
  <2>2. \A r \in Rules \ ids : r # c
    BY <1>1, <2>1 DEF Pending
  <2>3. \A r \in Rules \ ids : quiet'[r] = 0
    BY <1>1, <2>2 DEF Known, CoolType
  <2> QED
    BY <1>1, <1>4, <2>3 DEF Known
<1>6. ASSUME NEW r \in DOMAIN table, Calm(r) PROVE Calm(r)'
  <2>1. r \in Rules
    BY DEF Known, CoolType
  <2>2. CASE r = c
    <3>1. quiet[r] = 0 /\ quiet'[r] = 1
      BY <1>1, <1>6, <2>1, <2>2 DEF Calm, CoolType
    <3>2. Pending(q, r) /\ \A p \in Requests : Pending(p, r) => p = q
      BY <1>1, <1>6, <2>2 DEF Calm, Pending
    <3> QED
      BY <1>1, <1>2, <1>4, <1>6, <2>2, <3>1, <3>2 DEF Calm, Pending
  <2>3. CASE r # c
    <3>1. quiet'[r] = quiet[r]
      BY <1>1, <2>1, <2>3 DEF CoolType
    <3> QED
      BY <1>1, <1>2, <1>4, <1>6, <2>3, <3>1 DEF Calm
  <2> QED
    BY <2>2, <2>3
<1> QED
  BY <1>1, <1>3, <1>5, <1>6 DEF Quiet

LEMMA CoolRecord ==
  ASSUME CoolInv, NEW q \in Requests, RecordAlert(q)
  PROVE  CoolInv'
<1> USE DEF CoolInv
<1> DEFINE c == current[q][1]
<1>1. /\ pc[q] = "record" /\ Drop(q, current[q])
      /\ UNCHANGED <<table, ids, engine, snap, quiet, raced>>
  BY DEF RecordAlert, ruleVars
<1>2. \/ last' = [last EXCEPT ![c] = "recent"] /\ UNCHANGED lapsed
      \/ c \notin DOMAIN table /\ UNCHANGED <<last, lapsed>>
      \/ lapsed' = lapsed \cup {c} /\ UNCHANGED last
  BY DEF RecordAlert, UpsertLast
<1>3. PICK s \in {"done", "trigger"} : pc' = [pc EXCEPT ![q] = s]
  BY <1>1, DropFact
<1>4. /\ current' = [current EXCEPT ![q] = <<>>]
      /\ IsFunction(trig', Requests)
      /\ \A p \in Requests : DOMAIN trig'[p] \subseteq DOMAIN trig[p]
  BY <1>1, DropFact
<1>5. pc'[q] = s /\ \A p \in Requests \ {q} : pc'[p] = pc[p] /\ current'[p] = current[p]
  BY <1>3, <1>4 DEF CoolType, IsFunction
<1>6. CoolType'
  BY <1>1, <1>2, <1>3, <1>4 DEF CoolType, IsFunction, PCs
<1>7. \A p \in Requests : \A r : Pending(p, r)' => Pending(p, r) /\ p # q
  BY <1>5 DEF Pending
<1>8. Known'
  BY <1>1, <1>4, <1>7 DEF Known
<1>9. ASSUME NEW r \in DOMAIN table \ (raced \cup lapsed'), Calm(r) PROVE Calm(r)'
  <2>1. r \in Rules
    BY DEF Known, CoolType
  <2>2. CASE r = c
    <3>1. last'[r] = "recent"
      BY <1>2, <1>9, <2>1, <2>2 DEF CoolType
    <3>2. \A p \in Requests : ~Pending(p, r)'
      BY <1>1, <1>7, <1>9, <2>2 DEF Calm, Pending
    <3> QED
      BY <1>1, <1>9, <3>1, <3>2 DEF Calm, Pending
  <2>3. CASE r # c
    <3>1. last'[r] = last[r]
      BY <1>2, <2>1, <2>3 DEF CoolType
    <3>2. \A p \in Requests : pc[p] = "record" /\ current[p][1] = r => p # q
      BY <2>3
    <3> QED
      BY <1>1, <1>5, <1>7, <1>9, <3>1, <3>2 DEF Calm, Pending
  <2> QED
    BY <2>2, <2>3
<1>10. lapsed \subseteq lapsed'
  BY <1>2
<1> QED
  BY <1>1, <1>6, <1>8, <1>9, <1>10 DEF Quiet

LEMMA CoolPasses ==
  ASSUME CoolInv, NEW c \in Rules, CooldownPasses(c)
  PROVE  CoolInv'
<1> USE DEF CoolInv
<1>1. /\ last' = [last EXCEPT ![c] = "old"] /\ quiet' = [quiet EXCEPT ![c] = 0]
      /\ UNCHANGED <<table, ids, engine, snap, trig, pc, current>>
  BY DEF CooldownPasses, ruleVars, evalVars
<1>2. CoolType' /\ Known'
  BY <1>1 DEF CoolType, Known, Pending, IsFunction
<1>3. \A p \in Requests : \A r : Pending(p, r)' <=> Pending(p, r)
  BY <1>1 DEF Pending
<1>4. ASSUME NEW r \in DOMAIN table \ (raced' \cup lapsed') PROVE Calm(r)'
  <2>1. r \in Rules
    BY DEF Known, CoolType
  <2>2. CASE r # c
    <3>1. Calm(r) /\ last'[r] = last[r] /\ quiet'[r] = quiet[r]
      BY <1>1, <1>4, <2>1, <2>2 DEF Quiet, CooldownPasses, CoolType
    <3> QED
      BY <1>1, <3>1 DEF Calm, Pending
  <2>3. CASE r = c
    <3>1. quiet'[r] = 0
      BY <1>1, <2>3 DEF CoolType
    <3>2. \A p, q \in Requests : Pending(p, r) /\ Pending(q, r) => p = q
      BY <1>4, <2>3 DEF CooldownPasses, Quiet, Calm
    <3> QED
      BY <1>1, <1>3, <3>1, <3>2 DEF Calm
  <2> QED
    BY <2>2, <2>3
<1> QED
  BY <1>1, <1>2, <1>4 DEF Quiet

LEMMA CoolStep == CoolInv /\ [Next]_vars => CoolInv'
<1> SUFFICES ASSUME CoolInv, [Next]_vars PROVE CoolInv'
  OBVIOUS
<1>1. ASSUME NEW q \in Requests, Ingest(q) \/ Evaluation(q) PROVE CoolInv'
  BY <1>1, CoolScan, CoolCheck, CoolSend, CoolRecord DEF Evaluation
<1>2. ASSUME UNCHANGED <<ids, table, engine, snap, pc, current, trig, last, quiet, raced, lapsed>>
      PROVE  CoolInv'
  <2>1. CoolType' /\ Known'
    BY <1>2 DEF CoolInv, CoolType, Known, Pending, IsFunction
  <2>2. Quiet'
    BY <1>2, CalmKept DEF CoolInv, Quiet
  <2> QED
    BY <2>1, <2>2 DEF CoolInv
<1>3. ASSUME NEW m, Age(m) PROVE CoolInv'
  BY <1>2, <1>3 DEF Age, ruleVars, evalVars, alertHistory
<1>4. CASE UNCHANGED vars
  BY <1>2, <1>4 DEF vars, ruleVars, evalVars, dbVars, alertHistory
<1> QED
  BY <1>1, <1>3, <1>4, CoolTable, CoolReload, CoolPasses DEF Next

\* Nothing but two evaluations between CooldownPassed and RecordAlert at the
\* same time, or a failing statement on the time of the last alert, makes a
\* rule alert twice within its cooldown (log.go:175-196).
THEOREM CooldownOnlyRaced == Spec => []CooldownKept
<1>1. CoolInv => CooldownKept
  BY DEF CoolInv, Quiet, Calm, CooldownKept
<1> QED
  BY <1>1, CoolInit, CoolStep, PTL DEF Spec
-----------------------------------------------------------------------------
(* Types, and what makes them last: what an evaluation holds belongs to    *)
(* the lines it has read, and the rows it has inserted refer to rules that *)
(* cannot be deleted before it commits.                                    *)

LEMMA FunctionsFact ==
  ASSUME NEW S, NEW T, NEW f
  PROVE  f \in Functions(S, T) <=>
           /\ IsFunction(f, DOMAIN f) /\ DOMAIN f \subseteq S
           /\ \A x \in DOMAIN f : f[x] \in T
<1>1. ASSUME f \in Functions(S, T)
      PROVE  IsFunction(f, DOMAIN f) /\ DOMAIN f \subseteq S /\ \A x \in DOMAIN f : f[x] \in T
  <2>1. PICK D \in SUBSET S : f \in [D -> T]
    BY <1>1 DEF Functions
  <2> QED
    BY <2>1 DEF IsFunction
<1>2. ASSUME IsFunction(f, DOMAIN f), DOMAIN f \subseteq S, \A x \in DOMAIN f : f[x] \in T
      PROVE  f \in Functions(S, T)
  <2>1. f \in [DOMAIN f -> T]
    BY <1>2 DEF IsFunction
  <2> QED
    BY <1>2, <2>1 DEF Functions
<1> QED
  BY <1>1, <1>2

TableType ==
  /\ table \in Functions(Rules, Rows) /\ ids \subseteq Rules
  /\ engine \in Functions(Rules, Thresholds)
  /\ snap \in [Jobs -> Functions(Rules, Thresholds)]
  /\ faults \in 0..MaxFaults

\* The evaluation of request q.
EvalOK(q) ==
  /\ scanned[q] <= Len(Batch[q])
  /\ pc[q] = "new" => scanned[q] = 0
  /\ pc[q] = "scan" => scanned[q] < Len(Batch[q])
  /\ hits[q] \subseteq {m \in Hits : m.req = q /\ m.line <= scanned[q]}
  /\ IsFiniteSet(hits[q])
  /\ DOMAIN trig[q] \subseteq Triggers
  /\ DOMAIN counts[q] \subseteq windows[q]
  /\ windows[q] \subseteq {m.rule : m \in hits[q]}
  /\ pc[q] \in {"alert", "record"} => current[q] \in DOMAIN trig[q]
  /\ pc[q] = "count" => RulesExist(q)

EvalType ==
  /\ pc \in [Requests -> PCs] /\ scanned \in [Requests -> Nat]
  /\ IsFunction(hits, Requests) /\ IsFunction(trig, Requests)
  /\ IsFunction(windows, Requests) /\ IsFunction(counts, Requests)
  /\ IsFunction(current, Requests)
  /\ \A q \in Requests : EvalOK(q)

DbType ==
  /\ matches \subseteq {m \in Hits : m.rule \in DOMAIN table}
  /\ IsFiniteSet(matches) /\ aged \subseteq matches
  /\ \A r \in Rules \ DOMAIN table : last[r] = "none"

TypeInv == TableType /\ EvalType /\ DbType

LEMMA FaultType == ASSUME faults \in 0..MaxFaults, Fault \/ UNCHANGED faults PROVE faults' \in 0..MaxFaults
BY BoundAssumption DEF Fault

\* The enabled rules of a table.
LEMMA EnabledType ==
  ASSUME NEW t \in Functions(Rules, Rows)
  PROVE  Enabled(t) \in Functions(Rules, Thresholds) /\ DOMAIN Enabled(t) \subseteq DOMAIN t
<1>0. DOMAIN t \subseteq Rules /\ \A x \in DOMAIN t : t[x] \in Rows
  BY FunctionsFact
<1>1. DOMAIN t \subseteq Rules /\ \A x \in DOMAIN t : t[x].thr \in Thresholds
  BY <1>0 DEF Rows
<1> DEFINE e == [r \in {x \in DOMAIN t : t[x].on} |-> t[r].thr]
<1>2. DOMAIN e \subseteq DOMAIN t /\ IsFunction(e, DOMAIN e) /\ \A x \in DOMAIN e : e[x] \in Thresholds
  BY <1>1 DEF IsFunction
<1>3. Enabled(t) = e
  BY DEF Enabled
<1> HIDE DEF e
<1>4. e \in Functions(Rules, Thresholds)
  BY <1>1, <1>2, FunctionsFact
<1> QED
  BY <1>2, <1>3, <1>4

LEMMA NothingType == Nothing \in Functions(Rules, Thresholds) /\ DOMAIN Nothing = {}
<1>1. DOMAIN Nothing = {} /\ IsFunction(Nothing, {})
  BY DEF Nothing, IsFunction
<1> QED
  BY <1>1, FunctionsFact

LEMMA TypeInit == Init => TypeInv
<1> SUFFICES ASSUME Init PROVE TypeInv
  OBVIOUS
<1>1. TableType
  <2>1. engine \in Functions(Rules, Thresholds)
    BY TableAssumption, EnabledType DEF Init
  <2>2. snap \in [Jobs -> Functions(Rules, Thresholds)]
    BY NothingType DEF Init
  <2>3. ids \subseteq Rules
    BY TableAssumption, FunctionsFact DEF Init
  <2> QED
    BY <2>1, <2>2, <2>3, TableAssumption, BoundAssumption DEF Init, TableType
<1>2. EvalType
  <2>1. ASSUME NEW q \in Requests PROVE EvalOK(q)
    <3>1. Len(Batch[q]) \in Nat \ {0}
      BY BatchAssumption
    <3>2. IsFiniteSet(hits[q]) /\ hits[q] = {}
      BY FS_EmptySet DEF Init
    <3>3. DOMAIN trig[q] = {} /\ DOMAIN counts[q] = {} /\ windows[q] = {}
      BY NothingType DEF Init
    <3>4. pc[q] = "new" /\ scanned[q] = 0
      BY DEF Init
    <3> QED
      BY <3>1, <3>2, <3>3, <3>4 DEF EvalOK
  <2> QED
    BY <2>1 DEF Init, EvalType, PCs, IsFunction
<1>3. DbType
  BY FS_EmptySet DEF Init, DbType
<1> QED
  BY <1>1, <1>2, <1>3 DEF TypeInv
\* A change of the table keeps the rules of rows that are not committed.
LEMMA TypeChange ==
  ASSUME TypeInv, NEW t \in Functions(Rules, Rows), ChangeTable(t), ids' \subseteq Rules,
         \A q \in Requests : pc[q] = "count" => \A m \in hits[q] : m.rule \in DOMAIN table => m.rule \in DOMAIN t
  PROVE  TableType' /\ EvalType' /\ table' = t
<1>1. table' = t /\ UNCHANGED <<engine, snap, pc, scanned, hits, trig, windows, counts, current, faults>>
  BY DEF ChangeTable, evalVars
<1>2. TableType'
  BY <1>1 DEF TypeInv, TableType
<1>3. ASSUME NEW q \in Requests PROVE EvalOK(q)'
  <2>1. EvalOK(q)
    BY DEF TypeInv, EvalType
  <2>2. pc[q] = "count" => RulesExist(q)'
    BY <1>1, <2>1 DEF EvalOK, RulesExist
  <2> QED
    BY <1>1, <2>1, <2>2 DEF EvalOK
<1>4. EvalType'
  BY <1>1, <1>3 DEF TypeInv, EvalType, IsFunction
<1> QED
  BY <1>1, <1>2, <1>4

LEMMA TypeHandlers ==
  ASSUME TypeInv, CoolInv, Handlers
  PROVE  TypeInv'
<1>1. TableType /\ EvalType /\ DbType /\ ids \subseteq Rules
  BY DEF TypeInv, TableType
<1>2. DOMAIN table \subseteq Rules /\ IsFunction(table, DOMAIN table) /\ \A x \in DOMAIN table : table[x] \in Rows
  BY <1>1, FunctionsFact DEF TableType
<1>3. ASSUME NEW r \in DOMAIN table, NEW row \in Rows, ChangeTable([table EXCEPT ![r] = row]),
             UNCHANGED <<ids, dbVars>>
      PROVE  TypeInv'
  <2> DEFINE t == [table EXCEPT ![r] = row]
  <2>1. DOMAIN t = DOMAIN table /\ \A x \in DOMAIN t : t[x] \in Rows
    BY <1>2
  <2>2. IsFunction(t, DOMAIN t)
    BY <1>2 DEF IsFunction
  <2>3. t \in Functions(Rules, Rows)
    <3> HIDE DEF t
    <3> QED
      BY <1>2, <2>1, <2>2, FunctionsFact
  <2>4. ChangeTable(t)
    BY <1>3
  <2> HIDE DEF t
  <2>5. TableType' /\ EvalType' /\ table' = t
    BY <1>1, <1>3, <2>1, <2>3, <2>4, TypeChange
  <2>6. DbType'
    BY <1>1, <1>3, <2>1, <2>5 DEF DbType, dbVars
  <2> QED
    BY <2>5, <2>6 DEF TypeInv
<1>4. ASSUME NEW r, Toggle(r) PROVE TypeInv'
  <2>1. r \in DOMAIN table /\ UNCHANGED <<ids, dbVars>> /\ ChangeTable([table EXCEPT ![r].on = ~@])
    BY <1>4 DEF Toggle
  <2> DEFINE row == [table[r] EXCEPT !.on = ~@]
  <2>2. row \in Rows
    BY <1>2, <2>1 DEF Rows
  <2>3. [table EXCEPT ![r].on = ~@] = [table EXCEPT ![r] = row]
    OBVIOUS
  <2> HIDE DEF row
  <2> QED
    BY <1>3, <2>1, <2>2, <2>3
<1>5. ASSUME NEW r, NEW row \in Rows, Update(r, row) PROVE TypeInv'
  BY <1>3, <1>5 DEF Update
<1>6. ASSUME NEW r \in Rules, NEW row \in Rows, Create(r, row) PROVE TypeInv'
  <2> DEFINE t == [x \in DOMAIN table \cup {r} |-> IF x = r THEN row ELSE table[x]]
  <2>1. ids' = ids \cup {r} /\ ChangeTable(t) /\ UNCHANGED dbVars /\ r \notin ids
    BY <1>6 DEF Create
  <2>2. /\ DOMAIN t = DOMAIN table \cup {r} /\ IsFunction(t, DOMAIN t)
        /\ \A x \in DOMAIN t : t[x] \in Rows
    BY <1>2 DEF IsFunction
  <2> HIDE DEF t
  <2>3. t \in Functions(Rules, Rows)
    BY <1>2, <2>2, FunctionsFact
  <2>4. TableType' /\ EvalType' /\ table' = t
    BY <1>1, <2>1, <2>2, <2>3, TypeChange
  <2>5. DbType'
    BY <1>1, <2>1, <2>2, <2>4 DEF DbType, dbVars
  <2> QED
    BY <2>4, <2>5 DEF TypeInv
<1>7. ASSUME NEW r \in Rules, Delete(r) PROVE TypeInv'
  <2> DEFINE t == [x \in DOMAIN table \ {r} |-> table[x]]
  <2>1. /\ UNCHANGED ids /\ ChangeTable(t)
        /\ matches' = {m \in matches : m.rule # r} /\ aged' = {m \in aged : m.rule # r}
        /\ last' = [last EXCEPT ![r] = "none"]
        /\ \A q \in Requests : pc[q] = "count" => \A m \in hits[q] : m.rule # r
    BY <1>7 DEF Delete
  <2>2. /\ DOMAIN t = DOMAIN table \ {r} /\ IsFunction(t, DOMAIN t)
        /\ \A x \in DOMAIN t : t[x] \in Rows
    BY <1>2 DEF IsFunction
  <2> HIDE DEF t
  <2>3. t \in Functions(Rules, Rows)
    BY <1>2, <2>2, FunctionsFact
  <2>4. TableType' /\ EvalType' /\ table' = t
    BY <1>1, <2>1, <2>2, <2>3, TypeChange
  <2>5. DbType'
    <3>1. IsFiniteSet(matches')
      BY <1>1, <2>1, FS_Subset DEF DbType
    <3>2. \A x \in Rules \ DOMAIN t : last'[x] = "none"
      BY <1>1, <2>1, <2>2 DEF DbType, CoolInv, CoolType
    <3> QED
      BY <1>1, <2>1, <2>2, <2>4, <3>1, <3>2 DEF DbType
  <2> QED
    BY <2>4, <2>5 DEF TypeInv
<1> QED
  BY <1>4, <1>5, <1>6, <1>7 DEF Handlers

LEMMA TypeReload ==
  ASSUME TypeInv, NEW n \in Jobs, ReloadRead(n) \/ ReloadInstall(n) \/ ReloadFails(n)
  PROVE  TypeInv'
<1>1. TableType /\ EvalType /\ DbType
  BY DEF TypeInv
<1>2. /\ UNCHANGED <<table, ids, pc, scanned, hits, trig, windows, counts, current, matches, aged, last>>
      /\ Fault \/ UNCHANGED faults
  BY DEF ReloadRead, ReloadInstall, ReloadFails, evalVars, dbVars
<1>3. \A q \in Requests : EvalOK(q)'
  BY <1>1, <1>2 DEF EvalType, EvalOK, RulesExist
<1>4. EvalType' /\ DbType'
  BY <1>1, <1>2, <1>3 DEF EvalType, DbType, IsFunction
<1>5. faults' \in 0..MaxFaults
  BY <1>1, <1>2, FaultType DEF TableType
<1>6. /\ engine' \in Functions(Rules, Thresholds)
      /\ snap' \in [Jobs -> Functions(Rules, Thresholds)]
  <2>1. CASE ReloadRead(n)
    <3> DEFINE rows == Enabled(table)
    <3>1. rows \in Functions(Rules, Thresholds)
      BY <1>1, EnabledType DEF TableType
    <3>2. \E f : /\ snap' = [snap EXCEPT ![n] = f]
                 /\ f = rows \/ \E read \in SUBSET DOMAIN rows : f = [r \in read |-> rows[r]]
      BY <2>1 DEF ReloadRead
    <3> HIDE DEF rows
    <3>3. PICK f : /\ snap' = [snap EXCEPT ![n] = f]
                   /\ f = rows \/ \E read \in SUBSET DOMAIN rows : f = [r \in read |-> rows[r]]
      BY <3>2
    <3>4. /\ DOMAIN rows \subseteq Rules /\ IsFunction(rows, DOMAIN rows)
          /\ \A x \in DOMAIN rows : rows[x] \in Thresholds
      BY <3>1, FunctionsFact
    <3>5. ASSUME NEW read \in SUBSET DOMAIN rows, f = [r \in read |-> rows[r]]
          PROVE  f \in Functions(Rules, Thresholds)
      <4>1. DOMAIN f = read /\ IsFunction(f, DOMAIN f) /\ \A x \in DOMAIN f : f[x] \in Thresholds
        BY <3>4, <3>5 DEF IsFunction
      <4> QED
        BY <3>4, <4>1, FunctionsFact
    <3>6. f \in Functions(Rules, Thresholds)
      BY <3>1, <3>3, <3>5
    <3>7. UNCHANGED engine
      BY <2>1 DEF ReloadRead
    <3> QED
      BY <1>1, <3>3, <3>6, <3>7 DEF TableType
  <2>2. CASE ReloadInstall(n)
    BY <1>1, <2>2, NothingType DEF ReloadInstall, TableType
  <2>3. CASE ReloadFails(n)
    BY <1>1, <2>3 DEF ReloadFails, TableType
  <2> QED
    BY <2>1, <2>2, <2>3
<1>7. TableType'
  BY <1>1, <1>2, <1>5, <1>6 DEF TableType
<1> QED
  BY <1>4, <1>7 DEF TypeInv
\* Everything about the other evaluations stays as it is.
OthersKept(q) ==
  \A p \in Requests \ {q} :
    /\ pc'[p] = pc[p] /\ scanned'[p] = scanned[p] /\ hits'[p] = hits[p] /\ trig'[p] = trig[p]
    /\ windows'[p] = windows[p] /\ counts'[p] = counts[p] /\ current'[p] = current[p]
ShapesKept ==
  /\ pc' \in [Requests -> PCs] /\ scanned' \in [Requests -> Nat]
  /\ IsFunction(hits', Requests) /\ IsFunction(trig', Requests)
  /\ IsFunction(windows', Requests) /\ IsFunction(counts', Requests)
  /\ IsFunction(current', Requests)

\* A step of evaluation q.
LEMMA EvalStep ==
  ASSUME TypeInv, NEW q \in Requests, OthersKept(q), ShapesKept, UNCHANGED <<table, ids, engine, snap>>,
         EvalOK(q)', Fault \/ UNCHANGED faults
  PROVE  TableType' /\ EvalType'
<1>1. TableType /\ EvalType
  BY DEF TypeInv
<1>2. faults' \in 0..MaxFaults
  BY <1>1, FaultType DEF TableType
<1>3. TableType'
  BY <1>1, <1>2 DEF TableType
<1>4. ASSUME NEW p \in Requests \ {q} PROVE EvalOK(p)'
  <2>1. EvalOK(p)
    BY <1>1 DEF EvalType
  <2>2. /\ pc'[p] = pc[p] /\ scanned'[p] = scanned[p] /\ hits'[p] = hits[p] /\ trig'[p] = trig[p]
        /\ windows'[p] = windows[p] /\ counts'[p] = counts[p] /\ current'[p] = current[p]
        /\ table' = table
    BY DEF OthersKept
  <2>3. RulesExist(p)' <=> RulesExist(p)
    BY <2>2 DEF RulesExist
  <2> QED
    BY <2>1, <2>2, <2>3 DEF EvalOK
<1>5. EvalType'
  BY <1>4 DEF EvalType, ShapesKept
<1> QED
  BY <1>3, <1>5

\* A line: what it adds.
LEMMA LineHits ==
  ASSUME NEW q \in Requests, NEW i \in DOMAIN Batch[q], NEW found \in SUBSET Batch[q][i].hits
  PROVE  /\ [req : {q}, line : {i}, rule : found] \subseteq Hits
         /\ IsFiniteSet([req : {q}, line : {i}, rule : found])
         /\ {<<r, Batch[q][i].host>> : r \in found} \subseteq Triggers
<1>1. Batch[q][i].hits \subseteq Rules /\ IsFiniteSet(Batch[q][i].hits)
  BY BatchAssumption
<1> DEFINE H == [req : {q}, line : {i}, rule : found]
           f == [r \in found |-> [req |-> q, line |-> i, rule |-> r]]
<1>2. IsFiniteSet(found)
  BY <1>1, FS_Subset
<1>3. f \in Surjection(found, H)
  <2>1. f \in [found -> H]
    OBVIOUS
  <2>2. ASSUME NEW h \in H PROVE \E r \in found : f[r] = h
    <3>1. h = [req |-> q, line |-> i, rule |-> h.rule] /\ h.rule \in found
      OBVIOUS
    <3> QED
      BY <3>1
  <2> QED
    BY <2>1, <2>2 DEF Surjection
<1>4. IsFiniteSet(H)
  BY <1>2, <1>3, FS_Surjection
<1>5. H \subseteq Hits
  <2>1. ASSUME NEW h \in H PROVE h \in Hits
    <3>1. h = [req |-> q, line |-> i, rule |-> h.rule] /\ h.rule \in Rules
      BY <1>1
    <3>2. i \in UNION {DOMAIN Batch[p] : p \in Requests}
      OBVIOUS
    <3> QED
      BY <3>1, <3>2 DEF Hits
  <2> QED
    BY <2>1
<1>6. ASSUME NEW r \in found PROVE <<r, Batch[q][i].host>> \in Triggers
  <2>1. Batch[q][i].host \in UNION {{Batch[p][j].host : j \in DOMAIN Batch[p]} : p \in Requests}
    OBVIOUS
  <2> QED
    BY <1>1, <2>1 DEF Triggers
<1> QED
  BY <1>4, <1>5, <1>6

LEMMA EvaluateType ==
  ASSUME TypeInv, NEW q \in Requests, Evaluate(q)
  PROVE  TypeInv'
<1>1. TableType /\ EvalType /\ DbType /\ EvalOK(q)
  BY DEF TypeInv, EvalType
<1> DEFINE i == scanned[q] + 1
           line == Batch[q][i]
           found == line.hits \cap DOMAIN engine
           new == {<<r, line.host>> : r \in found}
           H == [req : {q}, line : {i}, rule : found]
           T == [k \in DOMAIN trig[q] \cup new |-> IF k \in new THEN engine[k[1]] ELSE trig[q][k]]
           W == windows[q] \cup {r \in found : engine[r] > 0}
<1>2. /\ pc[q] = "scan"
      /\ scanned' = [scanned EXCEPT ![q] = i]
      /\ hits' = [hits EXCEPT ![q] = @ \cup H]
      /\ trig' = [trig EXCEPT ![q] = T]
      /\ windows' = [windows EXCEPT ![q] = W]
      /\ pc' = [pc EXCEPT ![q] = IF i < Len(Batch[q]) THEN "scan"
                                 ELSE IF hits'[q] = {} THEN "done" ELSE "insert"]
      /\ UNCHANGED <<ruleVars, counts, current, dbVars, faults>>
  BY DEF Evaluate, Goto
<1>3. scanned[q] \in Nat /\ Len(Batch[q]) \in Nat /\ scanned[q] < Len(Batch[q])
      /\ DOMAIN Batch[q] = 1..Len(Batch[q])
  BY <1>1, <1>2, BatchAssumption DEF EvalType, EvalOK
<1>4. i \in DOMAIN Batch[q] /\ found \in SUBSET Batch[q][i].hits
  BY <1>3
<1>5. H \subseteq Hits /\ IsFiniteSet(H) /\ new \subseteq Triggers
  <2> HIDE DEF i, found
  <2> QED
    BY <1>4, LineHits
<1>6. \A m \in H : m.req = q /\ m.line = i /\ m.rule \in found
  OBVIOUS
<1>7. \A r \in found : \E m \in H : m.rule = r
  <2>1. ASSUME NEW r \in found PROVE \E m \in H : m.rule = r
    <3>1. [req |-> q, line |-> i, rule |-> r] \in H
      OBVIOUS
    <3> QED
      BY <3>1
  <2> QED
    BY <2>1
<1>8. DOMAIN T = DOMAIN trig[q] \cup new
  OBVIOUS
<1>9. i \in Nat /\ i <= Len(Batch[q]) /\ scanned[q] <= i
  BY <1>3
<1>10. W \subseteq windows[q] \cup found /\ windows[q] \subseteq W
  OBVIOUS
<1>11. PICK s \in {"scan", "done", "insert"} :
         pc' = [pc EXCEPT ![q] = s] /\ (s = "scan" => i < Len(Batch[q]))
  BY <1>2
<1>12. hits' = [hits EXCEPT ![q] = hits[q] \cup H]
  BY <1>2
<1> HIDE DEF i, line, found, new, H, T, W
<1>13. /\ IsFunction(hits', Requests) /\ hits'[q] = hits[q] \cup H
       /\ \A p \in Requests \ {q} : hits'[p] = hits[p]
  BY <1>1, <1>12 DEF EvalType, IsFunction
<1>14. /\ IsFunction(trig', Requests) /\ trig'[q] = T
       /\ \A p \in Requests \ {q} : trig'[p] = trig[p]
  BY <1>1, <1>2 DEF EvalType, IsFunction
<1>15. /\ IsFunction(windows', Requests) /\ windows'[q] = W
       /\ \A p \in Requests \ {q} : windows'[p] = windows[p]
  BY <1>1, <1>2 DEF EvalType, IsFunction
<1>16. /\ pc' \in [Requests -> PCs] /\ pc'[q] = s /\ \A p \in Requests \ {q} : pc'[p] = pc[p]
  BY <1>1, <1>11 DEF EvalType, PCs
<1>17. /\ scanned' \in [Requests -> Nat] /\ scanned'[q] = i
       /\ \A p \in Requests \ {q} : scanned'[p] = scanned[p]
  BY <1>1, <1>2, <1>9 DEF EvalType
<1>18. OthersKept(q) /\ ShapesKept
  BY <1>1, <1>2, <1>13, <1>14, <1>15, <1>16, <1>17 DEF OthersKept, ShapesKept, EvalType
<1>19. EvalOK(q)'
  <2>1. hits'[q] \subseteq {m \in Hits : m.req = q /\ m.line <= scanned'[q]}
    <3>1. ASSUME NEW m \in hits[q] PROVE m \in Hits /\ m.req = q /\ m.line <= i
      <4>1. m \in Hits /\ m.req = q /\ m.line <= scanned[q]
        BY <1>1, <3>1 DEF EvalOK
      <4>2. m.line \in Nat
        <5>1. PICK p \in Requests : m.line \in DOMAIN Batch[p]
          BY <4>1 DEF Hits
        <5> QED
          BY <5>1, BatchAssumption
      <4> QED
        BY <1>3, <1>9, <4>1, <4>2
    <3>2. ASSUME NEW m \in H PROVE m \in Hits /\ m.req = q /\ m.line <= i
      BY <1>5, <1>6, <1>9
    <3> QED
      BY <1>13, <1>17, <3>1, <3>2
  <2>2. IsFiniteSet(hits'[q])
    <3>1. IsFiniteSet(hits[q]) /\ IsFiniteSet(H)
      BY <1>1, <1>5 DEF EvalOK
    <3>2. IsFiniteSet(hits[q] \cup H)
      BY <3>1, FS_Union
    <3> QED
      BY <1>13, <3>2
  <2>3. windows'[q] \subseteq {m.rule : m \in hits'[q]}
    BY <1>1, <1>7, <1>10, <1>13, <1>15 DEF EvalOK
  <2>4. DOMAIN trig'[q] \subseteq Triggers /\ DOMAIN counts'[q] \subseteq windows'[q]
    BY <1>1, <1>2, <1>5, <1>8, <1>10, <1>14, <1>15 DEF EvalOK
  <2> QED
    BY <1>9, <1>11, <1>16, <1>17, <2>1, <2>2, <2>3, <2>4 DEF EvalOK
<1>20. UNCHANGED <<table, ids, engine, snap, faults, matches, aged, last>>
  BY <1>2 DEF ruleVars, dbVars
<1>21. TableType' /\ EvalType'
  BY <1>18, <1>19, <1>20, EvalStep
<1>22. DbType'
  BY <1>1, <1>20 DEF DbType
<1> QED
  BY <1>21, <1>22 DEF TypeInv
\* The steps before the loop that keep what was collected.
LEMMA CollectedType ==
  ASSUME TypeInv, CoolInv, NEW q \in Requests, Ingest(q) \/ Insert(q) \/ Count(q)
  PROVE  TypeInv'
<1>1. TableType /\ EvalType /\ DbType /\ EvalOK(q)
  BY DEF TypeInv, EvalType
<1>2. UNCHANGED <<table, ids, engine, snap, scanned, hits, trig, windows, current,
                  matches, aged, last, faults>>
  BY DEF Ingest, Insert, Count, ruleVars, dbVars
<1>3. PICK s \in {"done", "scan", "count"} :
        /\ pc' = [pc EXCEPT ![q] = s]
        /\ s = "scan" => pc[q] = "new"
        /\ s = "count" => RulesExist(q)
  <2>1. ASSUME Count(q) PROVE pc' = [pc EXCEPT ![q] = "count"] /\ RulesExist(q)
    BY <1>1, <2>1 DEF Count, EvalType, EvalOK
  <2> QED
    BY <2>1 DEF Ingest, Insert, Goto
<1>4. /\ pc' \in [Requests -> PCs] /\ pc'[q] = s /\ \A p \in Requests \ {q} : pc'[p] = pc[p]
  BY <1>1, <1>3 DEF EvalType, PCs
<1>5. /\ IsFunction(counts', Requests) /\ \A p \in Requests \ {q} : counts'[p] = counts[p]
      /\ DOMAIN counts'[q] \subseteq windows[q]
  <2>1. CASE Count(q)
    <3> DEFINE c == [r \in windows[q] |-> Cardinality(Visible(q, r))]
    <3>1. counts' = [counts EXCEPT ![q] = c] /\ DOMAIN c = windows[q]
      BY <2>1 DEF Count
    <3> HIDE DEF c
    <3> QED
      BY <1>1, <3>1 DEF EvalType, IsFunction
  <2>2. CASE UNCHANGED counts
    BY <1>1, <2>2 DEF EvalType, EvalOK, IsFunction
  <2> QED
    BY <2>1, <2>2 DEF Ingest, Insert
<1>6. OthersKept(q) /\ ShapesKept
  BY <1>1, <1>2, <1>4, <1>5 DEF OthersKept, ShapesKept, EvalType, IsFunction
<1>7. EvalOK(q)'
  <2>1. s = "scan" => scanned[q] < Len(Batch[q])
    BY <1>1, <1>3, BatchAssumption DEF EvalOK
  <2>2. RulesExist(q)' <=> RulesExist(q)
    BY <1>2 DEF RulesExist
  <2> QED
    BY <1>1, <1>2, <1>3, <1>4, <1>5, <2>1, <2>2 DEF EvalOK
<1>8. TableType' /\ EvalType'
  BY <1>2, <1>6, <1>7, EvalStep
<1>9. DbType'
  BY <1>1, <1>2 DEF DbType
<1> QED
  BY <1>8, <1>9 DEF TypeInv

\* The end of the transaction, one way or the other.
LEMMA EndedType ==
  ASSUME TypeInv, NEW q \in Requests, Rollback(q) \/ Commit(q) \/ CommitUnknown(q)
  PROVE  TypeInv'
<1>1. TableType /\ EvalType /\ DbType /\ EvalOK(q)
  BY DEF TypeInv, EvalType
<1>2. /\ UNCHANGED <<table, ids, engine, snap, scanned, hits, trig, windows, current, aged, last>>
      /\ pc' = [pc EXCEPT ![q] = "trigger"]
      /\ counts' = counts \/ counts' = [counts EXCEPT ![q] = Nothing]
      /\ Fault \/ UNCHANGED faults
      /\ UNCHANGED matches \/ (pc[q] = "count" /\ matches' = matches \cup hits[q])
  BY DEF Rollback, Commit, CommitUnknown, ruleVars, dbVars, Goto
<1>3. /\ pc' \in [Requests -> PCs] /\ pc'[q] = "trigger" /\ \A p \in Requests \ {q} : pc'[p] = pc[p]
  BY <1>1, <1>2 DEF EvalType, PCs
<1>4. /\ IsFunction(counts', Requests) /\ \A p \in Requests \ {q} : counts'[p] = counts[p]
      /\ DOMAIN counts'[q] \subseteq windows[q]
  BY <1>1, <1>2, NothingType DEF EvalType, EvalOK, IsFunction
<1>5. OthersKept(q) /\ ShapesKept
  BY <1>1, <1>2, <1>3, <1>4 DEF OthersKept, ShapesKept, EvalType, IsFunction
<1>6. EvalOK(q)'
  BY <1>1, <1>2, <1>3, <1>4 DEF EvalOK
<1>7. TableType' /\ EvalType'
  BY <1>2, <1>5, <1>6, EvalStep
<1>8. DbType'
  <2>1. CASE UNCHANGED matches
    BY <1>1, <1>2, <2>1 DEF DbType
  <2>2. CASE pc[q] = "count" /\ matches' = matches \cup hits[q]
    <3>1. hits[q] \subseteq {m \in Hits : m.rule \in DOMAIN table}
      BY <1>1, <2>2 DEF EvalOK, RulesExist
    <3>2. IsFiniteSet(matches) /\ IsFiniteSet(hits[q])
      BY <1>1 DEF DbType, EvalOK
    <3>3. IsFiniteSet(matches \cup hits[q])
      BY <3>2, FS_Union
    <3> QED
      BY <1>1, <1>2, <2>2, <3>1, <3>3 DEF DbType
  <2> QED
    BY <1>2, <2>1, <2>2
<1> QED
  BY <1>7, <1>8 DEF TypeInv

\* On to the next trigger, or to the end.
LEMMA DropType ==
  ASSUME TypeInv, NEW q \in Requests, NEW k, Drop(q, k)
  PROVE  /\ OthersKept(q) /\ ShapesKept /\ EvalOK(q)'
         /\ pc'[q] \in {"done", "trigger"}
         /\ trig'[q] = Without(trig[q], k)
         /\ pc'[q] = "trigger" => UNCHANGED <<scanned, hits, windows, counts>>
         /\ pc'[q] = "trigger" <=> Without(trig[q], k) # Nothing
<1>1. EvalType /\ EvalOK(q)
  BY DEF TypeInv, EvalType
<1> DEFINE rest == Without(trig[q], k)
<1>2. DOMAIN rest \subseteq DOMAIN trig[q]
  BY DEF Without
<1>3. /\ pc' = [pc EXCEPT ![q] = IF rest = Nothing THEN "done" ELSE "trigger"]
      /\ trig' = [trig EXCEPT ![q] = rest]
      /\ current' = [current EXCEPT ![q] = <<>>]
      /\ scanned' = [scanned EXCEPT ![q] = IF rest = Nothing THEN 0 ELSE @]
      /\ hits' = [hits EXCEPT ![q] = IF rest = Nothing THEN {} ELSE @]
      /\ windows' = [windows EXCEPT ![q] = IF rest = Nothing THEN {} ELSE @]
      /\ counts' = [counts EXCEPT ![q] = IF rest = Nothing THEN Nothing ELSE @]
  BY DEF Drop, Goto
<1> HIDE DEF rest
<1>4. /\ IsFunction(trig', Requests) /\ trig'[q] = rest
      /\ \A p \in Requests \ {q} : trig'[p] = trig[p]
  BY <1>1, <1>3 DEF EvalType, IsFunction
<1>5. IsFunction(current', Requests) /\ \A p \in Requests \ {q} : current'[p] = current[p]
  BY <1>1, <1>3 DEF EvalType, IsFunction
<1>6. /\ pc' \in [Requests -> PCs] /\ pc'[q] = (IF rest = Nothing THEN "done" ELSE "trigger")
      /\ \A p \in Requests \ {q} : pc'[p] = pc[p]
  BY <1>1, <1>3 DEF EvalType, PCs
<1>7. CASE rest = Nothing
  <2>1. scanned' = [scanned EXCEPT ![q] = 0] /\ hits' = [hits EXCEPT ![q] = {}]
        /\ windows' = [windows EXCEPT ![q] = {}] /\ counts' = [counts EXCEPT ![q] = Nothing]
    BY <1>3, <1>7
  <2>2. /\ scanned' \in [Requests -> Nat] /\ IsFunction(hits', Requests)
        /\ IsFunction(windows', Requests) /\ IsFunction(counts', Requests)
        /\ scanned'[q] = 0 /\ hits'[q] = {} /\ windows'[q] = {} /\ counts'[q] = Nothing
        /\ \A p \in Requests \ {q} : scanned'[p] = scanned[p] /\ hits'[p] = hits[p]
                                     /\ windows'[p] = windows[p] /\ counts'[p] = counts[p]
    BY <1>1, <2>1 DEF EvalType, IsFunction
  <2>3. OthersKept(q) /\ ShapesKept
    BY <1>4, <1>5, <1>6, <2>2 DEF OthersKept, ShapesKept
  <2>4. EvalOK(q)'
    <3>1. Len(Batch[q]) \in Nat \ {0} /\ IsFiniteSet({})
      BY BatchAssumption, FS_EmptySet
    <3> QED
      BY <1>1, <1>2, <1>4, <1>6, <1>7, <2>2, <3>1, NothingType DEF EvalOK
  <2> QED
    BY <1>4, <1>6, <1>7, <2>3, <2>4 DEF rest
<1>8. CASE rest # Nothing
  <2>1. UNCHANGED <<scanned, hits, windows, counts>>
    BY <1>1, <1>3, <1>8 DEF EvalType, IsFunction
  <2>2. OthersKept(q) /\ ShapesKept
    BY <1>1, <1>4, <1>5, <1>6, <2>1 DEF OthersKept, ShapesKept, EvalType
  <2>3. EvalOK(q)'
    BY <1>1, <1>2, <1>4, <1>6, <1>8, <2>1 DEF EvalOK
  <2> QED
    BY <1>4, <1>6, <1>8, <2>1, <2>2, <2>3 DEF rest
<1> QED
  BY <1>7, <1>8

\* The loop over the triggers.
LEMMA LoopType ==
  ASSUME TypeInv, CoolInv, NEW q \in Requests,
         (\E k \in DOMAIN trig[q] : CheckTrigger(q, k)) \/ SendAlert(q) \/ RecordAlert(q)
  PROVE  TypeInv'
<1>1. TableType /\ EvalType /\ DbType /\ EvalOK(q)
  BY DEF TypeInv, EvalType
<1>2. /\ UNCHANGED <<table, ids, engine, snap, matches, aged>>
      /\ Fault \/ UNCHANGED faults
  BY DEF CheckTrigger, SendAlert, RecordAlert, ruleVars, dbVars
<1>3. OthersKept(q) /\ ShapesKept /\ EvalOK(q)'
  <2>1. ASSUME NEW k, Drop(q, k) PROVE OthersKept(q) /\ ShapesKept /\ EvalOK(q)'
    BY <2>1, DropType
  <2>2. ASSUME NEW k \in DOMAIN trig[q], pc' = [pc EXCEPT ![q] = "alert"],
               current' = [current EXCEPT ![q] = k],
               UNCHANGED <<scanned, hits, trig, windows, counts>>
        PROVE  OthersKept(q) /\ ShapesKept /\ EvalOK(q)'
    <3>1. /\ pc' \in [Requests -> PCs] /\ pc'[q] = "alert" /\ current'[q] = k
          /\ IsFunction(current', Requests)
          /\ \A p \in Requests \ {q} : pc'[p] = pc[p] /\ current'[p] = current[p]
      BY <1>1, <2>2 DEF EvalType, IsFunction, PCs
    <3>2. OthersKept(q) /\ ShapesKept
      BY <1>1, <2>2, <3>1 DEF OthersKept, ShapesKept, EvalType
    <3> QED
      BY <1>1, <2>2, <3>1, <3>2 DEF EvalOK
  <2>3. ASSUME SendAlert(q) PROVE OthersKept(q) /\ ShapesKept /\ EvalOK(q)'
    <3>1. /\ pc[q] = "alert" /\ pc' = [pc EXCEPT ![q] = "record"]
          /\ UNCHANGED <<scanned, hits, trig, windows, counts, current>>
      BY <2>3 DEF SendAlert, Goto
    <3>2. /\ pc' \in [Requests -> PCs] /\ pc'[q] = "record"
          /\ \A p \in Requests \ {q} : pc'[p] = pc[p]
      BY <1>1, <3>1 DEF EvalType, PCs
    <3>3. OthersKept(q) /\ ShapesKept
      BY <1>1, <3>1, <3>2 DEF OthersKept, ShapesKept, EvalType
    <3> QED
      BY <1>1, <3>1, <3>2, <3>3 DEF EvalOK
  <2>4. ASSUME NEW k \in DOMAIN trig[q], CheckTrigger(q, k)
        PROVE  OthersKept(q) /\ ShapesKept /\ EvalOK(q)'
    <3>1. \/ Drop(q, k)
          \/ /\ pc' = [pc EXCEPT ![q] = "alert"] /\ current' = [current EXCEPT ![q] = k]
             /\ UNCHANGED <<scanned, hits, trig, windows, counts>>
      BY <2>4 DEF CheckTrigger, Goto
    <3> QED
      BY <2>1, <2>2, <3>1
  <2>5. ASSUME RecordAlert(q) PROVE Drop(q, current[q])
    BY <2>5 DEF RecordAlert
  <2> QED
    BY <2>1, <2>3, <2>4, <2>5
<1>4. TableType' /\ EvalType'
  BY <1>2, <1>3, EvalStep
<1>5. \A r \in Rules \ DOMAIN table : last'[r] = "none"
  <2>1. CASE RecordAlert(q)
    <3>1. UNCHANGED last \/ (current[q][1] \in DOMAIN table /\ last' = [last EXCEPT ![current[q][1]] = "recent"])
      BY <2>1 DEF RecordAlert, UpsertLast
    <3> QED
      BY <1>1, <3>1 DEF DbType, CoolInv, CoolType
  <2>2. CASE UNCHANGED last
    BY <1>1, <2>2 DEF DbType
  <2> QED
    BY <2>1, <2>2 DEF CheckTrigger, SendAlert, dbVars
<1>6. DbType'
  BY <1>1, <1>2, <1>5 DEF DbType
<1> QED
  BY <1>4, <1>6 DEF TypeInv
LEMMA TypeStep == TypeInv /\ CoolInv /\ [Next]_vars => TypeInv'
<1> SUFFICES ASSUME TypeInv, CoolInv, [Next]_vars PROVE TypeInv'
  OBVIOUS
<1>1. ASSUME NEW q \in Requests, Ingest(q) \/ Evaluation(q) PROVE TypeInv'
  BY <1>1, CollectedType, EvaluateType, EndedType, LoopType DEF Evaluation
<1>2. ASSUME UNCHANGED <<ids, table, engine, snap, faults>>, UNCHANGED evalVars,
             UNCHANGED matches, aged' \subseteq matches,
             \A r \in Rules : last[r] = "none" => last'[r] = "none"
      PROVE  TypeInv'
  <2>1. UNCHANGED <<pc, scanned, hits, trig, windows, counts, current>>
    BY <1>2 DEF evalVars
  <2>2. \A q \in Requests : EvalOK(q)'
    BY <1>2, <2>1 DEF TypeInv, EvalType, EvalOK, RulesExist
  <2>3. EvalType'
    BY <2>1, <2>2 DEF TypeInv, EvalType, IsFunction
  <2>4. TableType' /\ DbType'
    BY <1>2 DEF TypeInv, TableType, DbType
  <2> QED
    BY <2>3, <2>4 DEF TypeInv
<1>3. ASSUME NEW m, Age(m) PROVE TypeInv'
  BY <1>2, <1>3 DEF Age, ruleVars, TypeInv, DbType
<1>4. ASSUME NEW r, CooldownPasses(r) PROVE TypeInv'
  BY <1>2, <1>4 DEF CooldownPasses, ruleVars, TypeInv, DbType, CoolInv, CoolType
<1>5. CASE UNCHANGED vars
  BY <1>2, <1>5 DEF vars, ruleVars, dbVars, TypeInv, DbType
<1> QED
  BY <1>1, <1>3, <1>4, <1>5, TypeHandlers, TypeReload DEF Next

\* All that the other proofs rely on.
LEMMA TypeAlways == Spec => []TypeInv
<1>1. Init => TypeInv /\ CoolInv
  BY TypeInit, CoolInit
<1>2. (TypeInv /\ CoolInv) /\ [Next]_vars => (TypeInv /\ CoolInv)'
  BY TypeStep, CoolStep
<1> QED
  BY <1>1, <1>2, PTL DEF Spec

\* Stored matches and the times of alerts belong to rules that exist, though
\* rules are deleted while evaluations that found them are under way, and an
\* evaluation only counts rules it has found (log_rule_match_store.go:63-117,
\* log.go:131-196).
THEOREM TypeCorrect == Spec => []TypeOK
<1>1. ReloadInv /\ CoolInv /\ TypeInv => TypeOK
  <2> SUFFICES ASSUME ReloadInv, CoolInv, TypeInv PROVE TypeOK
    OBVIOUS
  <2>1. \A q \in Requests :
          /\ scanned[q] \in 0..Len(Batch[q])
          /\ hits[q] \subseteq {m \in Hits : m.req = q /\ m.line <= scanned[q]}
          /\ DOMAIN trig[q] \subseteq Triggers
          /\ DOMAIN counts[q] \subseteq windows[q]
          /\ windows[q] \subseteq {m.rule : m \in hits[q]}
          /\ pc[q] \in {"alert", "record"} => current[q] \in DOMAIN trig[q]
    BY BatchAssumption DEF TypeInv, EvalType, EvalOK
  <2> QED
    BY <2>1 DEF TypeOK, ReloadInv, ReloadType, CoolInv, CoolType, Known, TypeInv, TableType,
         EvalType, DbType
<1> QED
  BY <1>1, TypeAlways, ReloadInit, ReloadStep, CoolInit, CoolStep, PTL DEF Spec
-----------------------------------------------------------------------------
(* Thresholds.  As long as the rules stay as they are and the database     *)
(* works, what a transaction has counted covers all that is committed when *)
(* it commits itself: of two transactions with matches of a rule that are  *)
(* open at once, the one that counts later finds the other, and the rule   *)
(* is unseen from then on.                                                 *)

\* What q has collected is about rules of the engine, with their thresholds.
CollectOK(q) ==
  /\ pc[q] \in {"new", "scan", "insert"} => counts[q] = Nothing
  /\ pc[q] \in {"new", "scan", "insert", "count"} => \A m \in hits[q] :
       /\ m.rule \in DOMAIN engine /\ \E k \in DOMAIN trig[q] : k[1] = m.rule
       /\ engine[m.rule] > 0 => m.rule \in windows[q]
  /\ \A r \in windows[q] : r \in DOMAIN engine /\ engine[r] > 0
  /\ \A k \in DOMAIN trig[q] : k[1] \in DOMAIN engine /\ trig[q][k] = engine[k[1]]
  /\ pc[q] = "record" => current[q][1] \in alerted

Counted(q) == pc[q] = "count" /\ DOMAIN counts[q] = windows[q] /\ windows[q] # {}

\* A count is at least what q sees, and nobody else has counted the rule.
CountOK(q) ==
  \A r \in windows[q] \ unseen : Counted(q) =>
    /\ counts[q][r] \in Nat /\ Cardinality(Visible(q, r)) <= counts[q][r]
    /\ \A p \in Requests \ {q} : Counted(p) => r \notin windows[p]

\* The committed matches of a rule in the window.
Stored(r) == {m \in matches \ aged : m.rule = r}

\* Evaluation q will alert r, unless somebody else has.
Promised(q, r) ==
  /\ pc[q] \in {"trigger", "alert", "record"}
  /\ \E k \in DOMAIN trig[q] : k[1] = r /\ Reached(q, k)

AlertOK(r) ==
  /\ last[r] # "none" => r \in alerted
  /\ r \in DOMAIN engine \ (unseen \cup alerted) /\ Stored(r) # {}
       /\ Cardinality(Stored(r)) >= engine[r] => \E q \in Requests : Promised(q, r)

Undisturbed == changes = 0 /\ faults = 0

SameRules == engine = Enabled(table) /\ \A n \in Jobs : job[n] = "none"

ThresholdInv ==
  Undisturbed =>
    /\ SameRules
    /\ \A q \in Requests : CollectOK(q) /\ CountOK(q)
    /\ \A r \in Rules : AlertOK(r)
LEMMA VisibleFinite ==
  ASSUME TypeInv, NEW q \in Requests, NEW r
  PROVE  IsFiniteSet(Visible(q, r)) /\ IsFiniteSet(Stored(r))
<1>1. IsFiniteSet(matches) /\ IsFiniteSet(hits[q])
  BY DEF TypeInv, DbType, EvalType, EvalOK
<1>2. IsFiniteSet(matches \cup hits[q])
  BY <1>1, FS_Union
<1>3. Visible(q, r) \subseteq matches \cup hits[q] /\ Stored(r) \subseteq matches
  BY DEF Visible, Stored
<1> QED
  BY <1>1, <1>2, <1>3, FS_Subset

LEMMA StoredFinite == ASSUME TypeInv, NEW r PROVE IsFiniteSet(Stored(r))
<1>1. IsFiniteSet(matches) /\ Stored(r) \subseteq matches
  BY DEF TypeInv, DbType, Stored
<1> QED
  BY <1>1, FS_Subset

\* Steps that commit and count nothing.
LEMMA CountKept ==
  ASSUME TypeInv, \A q \in Requests : CountOK(q), UNCHANGED matches, aged \subseteq aged',
         unseen \subseteq unseen',
         \A p \in Requests : Counted(p)' =>
           Counted(p) /\ windows'[p] = windows[p] /\ counts'[p] = counts[p] /\ hits'[p] = hits[p]
  PROVE  \A q \in Requests : CountOK(q)'
<1> SUFFICES ASSUME NEW q \in Requests, NEW r \in windows'[q] \ unseen', Counted(q)'
             PROVE  /\ counts'[q][r] \in Nat /\ Cardinality(Visible(q, r)') <= counts'[q][r]
                    /\ \A p \in Requests \ {q} : Counted(p)' => r \notin windows'[p]
  BY DEF CountOK
<1>1. Counted(q) /\ windows'[q] = windows[q] /\ counts'[q] = counts[q] /\ hits'[q] = hits[q]
  OBVIOUS
<1>2. /\ counts[q][r] \in Nat /\ Cardinality(Visible(q, r)) <= counts[q][r]
      /\ \A p \in Requests \ {q} : Counted(p) => r \notin windows[p]
  BY <1>1 DEF CountOK
<1>3. Visible(q, r)' \subseteq Visible(q, r) /\ IsFiniteSet(Visible(q, r))
  BY <1>1, VisibleFinite DEF Visible
<1>4. /\ IsFiniteSet(Visible(q, r)') /\ Cardinality(Visible(q, r)') <= Cardinality(Visible(q, r))
  BY <1>3, FS_Subset
<1>5. Cardinality(Visible(q, r)') \in Nat /\ Cardinality(Visible(q, r)) \in Nat
  BY <1>3, <1>4, FS_CardinalityType
<1> QED
  BY <1>1, <1>2, <1>4, <1>5

LEMMA AlertKept ==
  ASSUME TypeInv, NEW r \in Rules, AlertOK(r), UNCHANGED <<engine, matches>>, aged \subseteq aged',
         unseen \subseteq unseen', alerted \subseteq alerted',
         last'[r] # "none" => last[r] # "none" \/ r \in alerted',
         r \notin alerted' => \A q \in Requests : Promised(q, r) => \E p \in Requests : Promised(p, r)'
  PROVE  AlertOK(r)'
<1>1. last'[r] # "none" => r \in alerted'
  BY DEF AlertOK
<1>2. ASSUME r \in DOMAIN engine \ (unseen' \cup alerted'), Stored(r)' # {},
             Cardinality(Stored(r)') >= engine[r]
      PROVE  \E q \in Requests : Promised(q, r)'
  <2>1. Stored(r)' \subseteq Stored(r) /\ IsFiniteSet(Stored(r))
    BY StoredFinite DEF Stored
  <2>2. IsFiniteSet(Stored(r)') /\ Cardinality(Stored(r)') <= Cardinality(Stored(r))
    BY <2>1, FS_Subset
  <2>3. Cardinality(Stored(r)') \in Nat /\ Cardinality(Stored(r)) \in Nat
    BY <2>1, <2>2, FS_CardinalityType
  <2>4. engine[r] \in Nat
    <3>1. engine[r] \in Thresholds
      BY <1>2, FunctionsFact DEF TypeInv, TableType
    <3> QED
      BY <3>1, BoundAssumption
  <2>5. Cardinality(Stored(r)) >= engine[r] /\ Stored(r) # {}
    BY <1>2, <2>1, <2>2, <2>3, <2>4
  <2>6. \E q \in Requests : Promised(q, r)
    BY <1>2, <2>5 DEF AlertOK
  <2> QED
    BY <1>2, <2>6
<1> QED
  BY <1>1, <1>2 DEF AlertOK

\* What others have promised or collected stays.
LEMMA OthersPromise ==
  ASSUME NEW q \in Requests, OthersKept(q), NEW p \in Requests \ {q}, NEW r
  PROVE  Promised(p, r) => Promised(p, r)'
BY DEF OthersKept, Promised, Reached

LEMMA OthersCollect ==
  ASSUME NEW q \in Requests, OthersKept(q), NEW p \in Requests \ {q}, CollectOK(p),
         UNCHANGED engine, alerted \subseteq alerted'
  PROVE  CollectOK(p)'
<1>1. /\ pc'[p] = pc[p] /\ hits'[p] = hits[p] /\ trig'[p] = trig[p]
      /\ windows'[p] = windows[p] /\ counts'[p] = counts[p] /\ current'[p] = current[p]
  BY DEF OthersKept
<1> QED
  BY <1>1 DEF CollectOK

LEMMA OthersCounted ==
  ASSUME NEW q \in Requests, OthersKept(q), NEW p \in Requests \ {q}
  PROVE  /\ Counted(p)' <=> Counted(p)
         /\ windows'[p] = windows[p] /\ counts'[p] = counts[p] /\ hits'[p] = hits[p]
BY DEF OthersKept, Counted

\* A step of q that commits and counts nothing, and breaks no promise.
LEMMA ThresholdMove ==
  ASSUME TypeInv, ThresholdInv, Undisturbed, NEW q \in Requests, OthersKept(q),
         UNCHANGED <<table, engine, job, matches, aged, unseen>>, alerted \subseteq alerted',
         CollectOK(q)', ~Counted(q)',
         \A r \in Rules : last'[r] # "none" => last[r] # "none" \/ r \in alerted',
         \A r \in Rules \ alerted' : Promised(q, r) => Promised(q, r)'
  PROVE  ThresholdInv'
<1>1. SameRules /\ (\A p \in Requests : CollectOK(p) /\ CountOK(p)) /\ \A r \in Rules : AlertOK(r)
  BY DEF ThresholdInv
<1>2. SameRules'
  BY <1>1 DEF SameRules, Enabled
<1>3. \A p \in Requests : CollectOK(p)'
  BY <1>1, OthersCollect
<1>4. \A p \in Requests : CountOK(p)'
  BY <1>1, OthersCounted, CountKept
<1>5. ASSUME NEW r \in Rules PROVE AlertOK(r)'
  <2>1. r \notin alerted' => \A p \in Requests : Promised(p, r) => \E p2 \in Requests : Promised(p2, r)'
    BY OthersPromise
  <2>2. AlertOK(r)
    BY <1>1
  <2> QED
    BY <2>1, <2>2, AlertKept
<1> QED
  BY <1>2, <1>3, <1>4, <1>5 DEF ThresholdInv
\* An evaluation writes only what is its own.
LEMMA StepOthers ==
  ASSUME TypeInv, NEW q \in Requests, Ingest(q) \/ Evaluation(q)
  PROVE  OthersKept(q) /\ UNCHANGED <<table, engine, job, changes>>
<1>1. EvalType
  BY DEF TypeInv
<1>2. UNCHANGED ruleVars
  BY DEF Ingest, Evaluation, Evaluate, Insert, Count, Rollback, Commit, CommitUnknown, CheckTrigger,
         SendAlert, RecordAlert
<1>3. ASSUME NEW k, Drop(q, k) PROVE OthersKept(q)
  BY <1>3, DropType
<1>4. ASSUME Ingest(q) \/ Insert(q) \/ SendAlert(q) PROVE OthersKept(q)
  BY <1>1, <1>4 DEF Ingest, Insert, SendAlert, Goto, OthersKept, EvalType
<1>5. ASSUME Rollback(q) \/ Commit(q) \/ CommitUnknown(q) \/ Count(q) PROVE OthersKept(q)
  BY <1>1, <1>5 DEF Rollback, Commit, CommitUnknown, Count, Goto, OthersKept, EvalType, IsFunction
<1>6. ASSUME NEW k, CheckTrigger(q, k) PROVE OthersKept(q)
  <2>1. CASE Drop(q, k)
    BY <1>3, <2>1
  <2>2. CASE /\ pc' = [pc EXCEPT ![q] = "alert"] /\ current' = [current EXCEPT ![q] = k]
             /\ UNCHANGED <<scanned, hits, trig, windows, counts>>
    BY <1>1, <2>2 DEF OthersKept, EvalType, IsFunction
  <2> QED
    BY <1>6, <2>1, <2>2 DEF CheckTrigger, Goto
<1>7. ASSUME RecordAlert(q) PROVE OthersKept(q)
  BY <1>3, <1>7 DEF RecordAlert
<1>8. ASSUME Evaluate(q) PROVE OthersKept(q)
  <2> DEFINE i == scanned[q] + 1
             found == Batch[q][i].hits \cap DOMAIN engine
             new == {<<r, Batch[q][i].host>> : r \in found}
             H == hits[q] \cup [req : {q}, line : {i}, rule : found]
             T == [k \in DOMAIN trig[q] \cup new |-> IF k \in new THEN engine[k[1]] ELSE trig[q][k]]
             W == windows[q] \cup {r \in found : engine[r] > 0}
  <2>1. /\ scanned' = [scanned EXCEPT ![q] = i] /\ hits' = [hits EXCEPT ![q] = H]
        /\ trig' = [trig EXCEPT ![q] = T] /\ windows' = [windows EXCEPT ![q] = W]
        /\ UNCHANGED <<counts, current>>
    BY <1>8 DEF Evaluate
  <2>2. \E s : pc' = [pc EXCEPT ![q] = s]
    BY <1>8 DEF Evaluate, Goto
  <2> HIDE DEF i, H, T, W
  <2> QED
    BY <1>1, <2>1, <2>2 DEF OthersKept, EvalType, IsFunction
<1> QED
  BY <1>2, <1>4, <1>5, <1>6, <1>7, <1>8 DEF Evaluation, ruleVars

LEMMA ThresholdStart ==
  ASSUME TypeInv, ThresholdInv, Undisturbed, NEW q \in Requests, Ingest(q) \/ Insert(q)
  PROVE  ThresholdInv'
<1>1. OthersKept(q) /\ UNCHANGED <<table, engine, job>>
  BY StepOthers DEF Evaluation
<1>2. /\ UNCHANGED <<hits, trig, windows, counts, current, matches, aged, last, unseen, alerted>>
      /\ \E s \in {"done", "scan", "count"} : pc' = [pc EXCEPT ![q] = s]
      /\ pc[q] \in {"new", "insert"}
  BY DEF Ingest, Insert, Goto, dbVars, alertHistory
<1>3. pc'[q] \in {"done", "scan", "count"}
  BY <1>2 DEF TypeInv, EvalType
<1>4. CollectOK(q) /\ counts[q] = Nothing
  BY <1>2 DEF ThresholdInv, CollectOK
<1>5. CollectOK(q)'
  BY <1>1, <1>2, <1>3, <1>4 DEF CollectOK
<1>6. ~Counted(q)'
  BY <1>2, <1>4, NothingType DEF Counted
<1>7. \A r : ~Promised(q, r)
  BY <1>2 DEF Promised
<1> QED
  BY <1>1, <1>2, <1>5, <1>6, <1>7, ThresholdMove

LEMMA ThresholdEvaluate ==
  ASSUME TypeInv, ThresholdInv, Undisturbed, NEW q \in Requests, Evaluate(q)
  PROVE  ThresholdInv'
<1>1. OthersKept(q) /\ UNCHANGED <<table, engine, job>>
  BY StepOthers DEF Evaluation
<1> DEFINE i == scanned[q] + 1
           host == Batch[q][i].host
           found == Batch[q][i].hits \cap DOMAIN engine
           new == {<<r, host>> : r \in found}
           H == [req : {q}, line : {i}, rule : found]
           T == [k \in DOMAIN trig[q] \cup new |-> IF k \in new THEN engine[k[1]] ELSE trig[q][k]]
           W == windows[q] \cup {r \in found : engine[r] > 0}
<1>2. /\ pc[q] = "scan" /\ hits' = [hits EXCEPT ![q] = hits[q] \cup H]
      /\ trig' = [trig EXCEPT ![q] = T] /\ windows' = [windows EXCEPT ![q] = W]
      /\ UNCHANGED <<counts, current, matches, aged, last, unseen, alerted>>
  BY DEF Evaluate, dbVars, alertHistory
<1>3. \E s \in {"scan", "done", "insert"} : pc' = [pc EXCEPT ![q] = s]
  BY DEF Evaluate, Goto
<1>4. \A m \in H : m.rule \in found
  OBVIOUS
<1>5. /\ DOMAIN T = DOMAIN trig[q] \cup new
      /\ \A k \in DOMAIN T : T[k] = IF k \in new THEN engine[k[1]] ELSE trig[q][k]
  OBVIOUS
<1>6. \A r \in found : <<r, host>> \in new
  OBVIOUS
<1>7. \A k \in new : k[1] \in found
  OBVIOUS
<1>8. /\ windows[q] \subseteq W /\ \A r \in W : r \in windows[q] \/ (r \in found /\ engine[r] > 0)
      /\ \A r \in found : engine[r] > 0 => r \in W
      /\ found \subseteq DOMAIN engine
  OBVIOUS
<1> HIDE DEF H, T, W, new, found, host, i
<1>9. /\ pc'[q] \in {"scan", "done", "insert"} /\ hits'[q] = hits[q] \cup H
      /\ trig'[q] = T /\ windows'[q] = W
  BY <1>2, <1>3 DEF TypeInv, EvalType, IsFunction
<1>10. CollectOK(q)
  BY DEF ThresholdInv
<1>11. CollectOK(q)'
  <2>1. counts'[q] = Nothing
    BY <1>2, <1>10 DEF CollectOK
  <2>2. ASSUME NEW m \in hits'[q]
        PROVE  /\ m.rule \in DOMAIN engine /\ \E k \in DOMAIN trig'[q] : k[1] = m.rule
               /\ engine[m.rule] > 0 => m.rule \in windows'[q]
    <3>1. CASE m \in hits[q]
      <4>1. /\ m.rule \in DOMAIN engine /\ \E k \in DOMAIN trig[q] : k[1] = m.rule
            /\ engine[m.rule] > 0 => m.rule \in windows[q]
        BY <1>2, <1>10, <3>1 DEF CollectOK
      <4> QED
        BY <1>5, <1>8, <1>9, <4>1
    <3>2. CASE m \in H
      <4>1. m.rule \in found /\ <<m.rule, host>> \in new
        BY <1>4, <1>6, <3>2
      <4>2. <<m.rule, host>> \in DOMAIN trig'[q] /\ <<m.rule, host>>[1] = m.rule
        BY <1>5, <1>9, <4>1
      <4> QED
        BY <1>8, <1>9, <4>1, <4>2
    <3> QED
      BY <1>9, <3>1, <3>2
  <2>3. \A r \in windows'[q] : r \in DOMAIN engine /\ engine[r] > 0
    BY <1>8, <1>9, <1>10 DEF CollectOK
  <2>4. \A k \in DOMAIN trig'[q] : k[1] \in DOMAIN engine /\ trig'[q][k] = engine[k[1]]
    BY <1>5, <1>7, <1>8, <1>9, <1>10 DEF CollectOK
  <2> QED
    BY <1>1, <1>9, <2>1, <2>2, <2>3, <2>4 DEF CollectOK
<1>12. ~Counted(q)' /\ \A r : ~Promised(q, r)
  BY <1>2, <1>9 DEF Counted, Promised
<1> QED
  BY <1>1, <1>2, <1>11, <1>12, ThresholdMove
LEMMA ThresholdCount ==
  ASSUME TypeInv, ThresholdInv, Undisturbed, NEW q \in Requests, Count(q)
  PROVE  ThresholdInv'
<1>1. OthersKept(q) /\ UNCHANGED <<table, engine, job>>
  BY StepOthers DEF Evaluation
<1>2. SameRules /\ (\A p \in Requests : CollectOK(p) /\ CountOK(p)) /\ \A r \in Rules : AlertOK(r)
  BY DEF ThresholdInv
<1>3. /\ pc[q] = "count" /\ windows[q] # {}
      /\ counts' = [counts EXCEPT ![q] = [r \in windows[q] |-> Cardinality(Visible(q, r))]]
      /\ unseen' = unseen \cup {r \in windows[q] : OpenElsewhere(q, r)}
      /\ UNCHANGED <<pc, scanned, hits, trig, windows, current, matches, aged, last, alerted>>
  BY DEF Count, dbVars
<1>4. counts'[q] = [r \in windows[q] |-> Cardinality(Visible(q, r))]
  BY <1>3 DEF TypeInv, EvalType, IsFunction
<1>5. \A p \in Requests : CollectOK(p)'
  <2>1. CollectOK(q)'
    BY <1>1, <1>2, <1>3 DEF CollectOK
  <2> QED
    BY <1>1, <1>2, <1>3, <2>1, OthersCollect
<1>6. \A p \in Requests : \A r : Visible(p, r)' = Visible(p, r)
  BY <1>3 DEF Visible
<1>7. ASSUME NEW r \in windows[q] \ unseen', NEW p \in Requests \ {q}, Counted(p)
      PROVE  r \notin windows[p]
  <2>1. ~OpenElsewhere(q, r)
    BY <1>3, <1>7
  <2>2. \A m \in hits[p] : m.rule # r
    BY <1>7, <2>1 DEF OpenElsewhere, Counted
  <2> QED
    BY <2>2 DEF TypeInv, EvalType, EvalOK
<1>8. ASSUME NEW p \in Requests, NEW r \in windows'[p] \ unseen', Counted(p)'
      PROVE  /\ counts'[p][r] \in Nat /\ Cardinality(Visible(p, r)') <= counts'[p][r]
             /\ \A p2 \in Requests \ {p} : Counted(p2)' => r \notin windows'[p2]
  <2>1. CASE p = q
    <3>1. r \in windows[q] \ unseen'
      BY <1>3, <1>8, <2>1
    <3>2. counts'[q][r] = Cardinality(Visible(q, r))
      BY <1>4, <3>1
    <3>3. Cardinality(Visible(q, r)) \in Nat
      BY VisibleFinite, FS_CardinalityType
    <3>4. \A p2 \in Requests \ {q} : Counted(p2)' => r \notin windows'[p2]
      BY <1>1, <1>3, <1>7, <3>1, OthersCounted
    <3> QED
      BY <1>6, <2>1, <3>2, <3>3, <3>4
  <2>2. CASE p # q
    <3>1. Counted(p) /\ r \in windows[p] \ unseen /\ counts'[p] = counts[p]
      BY <1>1, <1>3, <1>8, <2>2, OthersCounted
    <3>2. /\ counts[p][r] \in Nat /\ Cardinality(Visible(p, r)) <= counts[p][r]
          /\ \A p2 \in Requests \ {p} : Counted(p2) => r \notin windows[p2]
      BY <1>2, <3>1 DEF CountOK
    <3>3. r \notin windows[q]
      BY <1>7, <1>8, <2>2, <3>1
    <3>4. \A p2 \in Requests \ {p} : Counted(p2)' => r \notin windows'[p2]
      BY <1>1, <1>3, <3>2, <3>3, OthersCounted
    <3> QED
      BY <1>6, <3>1, <3>2, <3>4
  <2> QED
    BY <2>1, <2>2
<1>9. \A p \in Requests : CountOK(p)'
  BY <1>8 DEF CountOK
<1>10. ASSUME NEW r \in Rules PROVE AlertOK(r)'
  <2>1. \A p \in Requests : Promised(p, r) => Promised(p, r)'
    <3>1. ~Promised(q, r)
      BY <1>3 DEF Promised
    <3> QED
      BY <1>1, <3>1, OthersPromise
  <2> QED
    BY <1>1, <1>2, <1>3, <2>1, AlertKept
<1>11. SameRules'
  BY <1>1, <1>2 DEF SameRules, Enabled
<1> QED
  BY <1>5, <1>9, <1>10, <1>11 DEF ThresholdInv

\* The transaction commits with counts that cover all its rows.
LEMMA ThresholdCommit ==
  ASSUME TypeInv, ThresholdInv, Undisturbed, NEW q \in Requests, Commit(q)
  PROVE  ThresholdInv'
<1>1. OthersKept(q) /\ UNCHANGED <<table, engine, job>>
  BY StepOthers DEF Evaluation
<1>2. SameRules /\ (\A p \in Requests : CollectOK(p) /\ CountOK(p)) /\ \A r \in Rules : AlertOK(r)
  BY DEF ThresholdInv
<1>3. /\ pc[q] = "count" /\ DOMAIN counts[q] = windows[q]
      /\ matches' = matches \cup hits[q] /\ pc' = [pc EXCEPT ![q] = "trigger"]
      /\ UNCHANGED <<scanned, hits, trig, windows, counts, current, aged, last, unseen, alerted>>
  BY DEF Commit, Goto, alertHistory
<1>4. pc'[q] = "trigger"
  BY <1>3 DEF TypeInv, EvalType
<1>5. \A p \in Requests : CollectOK(p)'
  <2>1. CollectOK(q)'
    BY <1>1, <1>2, <1>3, <1>4 DEF CollectOK
  <2> QED
    BY <1>1, <1>2, <1>3, <2>1, OthersCollect
<1>6. \A p \in Requests : CountOK(p)'
  <2> SUFFICES ASSUME NEW p \in Requests, NEW r \in windows'[p] \ unseen', Counted(p)'
               PROVE  /\ counts'[p][r] \in Nat /\ Cardinality(Visible(p, r)') <= counts'[p][r]
                      /\ \A p2 \in Requests \ {p} : Counted(p2)' => r \notin windows'[p2]
    BY DEF CountOK
  <2>1. p # q /\ Counted(p) /\ r \in windows[p] \ unseen
    BY <1>1, <1>3, <1>4, OthersCounted DEF Counted
  <2>2. /\ counts[p][r] \in Nat /\ Cardinality(Visible(p, r)) <= counts[p][r]
        /\ \A p2 \in Requests \ {p} : Counted(p2) => r \notin windows[p2]
    BY <1>2, <2>1 DEF CountOK
  <2>3. r \in DOMAIN engine /\ engine[r] > 0
    BY <1>2, <2>1 DEF CollectOK
  <2>4. \A m \in hits[q] : m.rule # r
    <3> SUFFICES ASSUME NEW m \in hits[q], m.rule = r PROVE FALSE
      OBVIOUS
    <3>1. r \in windows[q]
      BY <1>2, <1>3, <2>3 DEF CollectOK
    <3>2. Counted(q)
      BY <1>3, <3>1 DEF Counted
    <3> QED
      BY <2>1, <2>2, <3>1, <3>2
  <2>5. Visible(p, r)' = Visible(p, r)
    BY <1>3, <2>4 DEF Visible
  <2>6. \A p2 \in Requests \ {p} : Counted(p2)' => r \notin windows'[p2]
    BY <1>1, <1>3, <1>4, <2>2, OthersCounted DEF Counted
  <2> QED
    BY <1>3, <2>2, <2>5, <2>6
<1>7. ASSUME NEW r \in Rules PROVE AlertOK(r)'
  <2>1. last'[r] # "none" => r \in alerted'
    BY <1>2, <1>3 DEF AlertOK
  <2>2. ASSUME r \in DOMAIN engine \ (unseen \cup alerted), Stored(r)' # {},
               Cardinality(Stored(r)') >= engine[r]
        PROVE  \E p \in Requests : Promised(p, r)'
    <3>1. CASE \A m \in hits[q] : m.rule # r
      <4>1. Stored(r)' = Stored(r)
        BY <1>3, <3>1 DEF Stored
      <4>2. PICK p \in Requests : Promised(p, r)
        BY <1>2, <2>2, <4>1 DEF AlertOK
      <4>3. p # q
        BY <1>3, <4>2 DEF Promised
      <4> QED
        BY <1>1, <4>2, <4>3, OthersPromise
    <3>2. CASE \E m \in hits[q] : m.rule = r
      <4>1. /\ \E k \in DOMAIN trig[q] : k[1] = r
            /\ engine[r] > 0 => r \in windows[q]
        BY <1>2, <1>3, <3>2 DEF CollectOK
      <4>2. PICK k \in DOMAIN trig[q] : k[1] = r
        BY <4>1
      <4>3. trig[q][k] = engine[r]
        BY <1>2, <4>2 DEF CollectOK
      <4>4. engine[r] \in Nat
        <5>1. engine[r] \in Thresholds
          BY <2>2, FunctionsFact DEF TypeInv, TableType
        <5> QED
          BY <5>1, BoundAssumption
      <4>5. Reached(q, k)
        <5>1. CASE engine[r] = 0
          BY <4>3, <5>1 DEF Reached
        <5>2. CASE engine[r] > 0
          <6>1. r \in windows[q] \ unseen /\ Counted(q)
            BY <1>3, <2>2, <4>1, <5>2 DEF Counted
          <6>2. counts[q][r] \in Nat /\ Cardinality(Visible(q, r)) <= counts[q][r]
            BY <1>2, <6>1 DEF CountOK
          <6>3. Stored(r)' \subseteq Visible(q, r) /\ IsFiniteSet(Visible(q, r))
            BY <1>3, VisibleFinite DEF Stored, Visible
          <6>4. IsFiniteSet(Stored(r)') /\ Cardinality(Stored(r)') <= Cardinality(Visible(q, r))
            BY <6>3, FS_Subset
          <6>5. Cardinality(Stored(r)') \in Nat /\ Cardinality(Visible(q, r)) \in Nat
            BY <6>3, <6>4, FS_CardinalityType
          <6>6. counts[q][r] >= engine[r]
            BY <2>2, <4>4, <6>2, <6>4, <6>5
          <6> QED
            BY <1>3, <4>2, <4>3, <6>1, <6>6 DEF Reached
        <5> QED
          BY <4>4, <5>1, <5>2
      <4>6. Promised(q, r)'
        BY <1>3, <1>4, <4>2, <4>5 DEF Promised, Reached
      <4> QED
        BY <4>6
    <3> QED
      BY <3>1, <3>2
  <2> QED
    BY <1>1, <1>3, <2>1, <2>2 DEF AlertOK
<1>8. SameRules'
  BY <1>1, <1>2 DEF SameRules, Enabled
<1> QED
  BY <1>5, <1>6, <1>7, <1>8 DEF ThresholdInv

LEMMA ThresholdLoop ==
  ASSUME TypeInv, CoolInv, ThresholdInv, Undisturbed, Undisturbed', NEW q \in Requests,
         (\E k \in DOMAIN trig[q] : CheckTrigger(q, k)) \/ SendAlert(q) \/ RecordAlert(q)
  PROVE  ThresholdInv'
<1>1. OthersKept(q) /\ UNCHANGED <<table, engine, job>>
  BY StepOthers DEF Evaluation
<1>2. CollectOK(q) /\ (\A r \in Rules : AlertOK(r)) /\ DOMAIN trig[q] \subseteq Triggers
  BY DEF ThresholdInv, TypeInv, EvalType, EvalOK
<1>3. ~Fault
  BY DEF Undisturbed, Fault
<1>4. \A k \in DOMAIN trig[q] : k[1] \in Rules
  BY <1>2 DEF Triggers
<1>5. UNCHANGED <<matches, aged, unseen>>
  BY DEF CheckTrigger, SendAlert, RecordAlert, dbVars
\* The trigger that is dropped promises nothing that is still to be done.
<1>6. ASSUME NEW k, Drop(q, k), pc[q] \in {"trigger", "record"}, UNCHANGED alerted,
             k \in DOMAIN trig[q] /\ Reached(q, k) => k[1] \in alerted,
             \A r \in Rules : last'[r] # "none" => last[r] # "none" \/ r \in alerted
      PROVE  ThresholdInv'
  <2>1. /\ pc'[q] \in {"done", "trigger"} /\ trig'[q] = Without(trig[q], k)
        /\ pc'[q] = "trigger" => UNCHANGED <<scanned, hits, windows, counts>>
        /\ pc'[q] = "trigger" <=> Without(trig[q], k) # Nothing
    BY <1>6, DropType
  <2> DEFINE rest == Without(trig[q], k)
  <2>2. DOMAIN rest = DOMAIN trig[q] \ {k} /\ \A h \in DOMAIN rest : rest[h] = trig[q][h]
    BY DEF Without
  <2> HIDE DEF rest
  <2>3. trig'[q] = rest
    BY <2>1 DEF rest
  <2>4. windows'[q] \in {{}, windows[q]}
    BY <1>6 DEF Drop, TypeInv, EvalType, IsFunction
  <2>5. CollectOK(q)'
    BY <1>1, <1>2, <2>1, <2>2, <2>3, <2>4 DEF CollectOK
  <2>6. ~Counted(q)'
    BY <2>1 DEF Counted
  <2>7. ASSUME NEW r \in Rules \ alerted', Promised(q, r) PROVE Promised(q, r)'
    <3>1. PICK h \in DOMAIN trig[q] : h[1] = r /\ Reached(q, h)
      BY <2>7 DEF Promised
    <3>2. h # k
      BY <1>6, <2>7, <3>1
    <3>3. h \in DOMAIN rest /\ rest[h] = trig[q][h]
      BY <2>2, <3>1, <3>2
    <3>4. rest # Nothing
      BY <3>3, NothingType
    <3>5. pc'[q] = "trigger" /\ UNCHANGED counts
      BY <2>1, <3>4 DEF rest
    <3>6. Reached(q, h)'
      BY <2>3, <3>1, <3>3, <3>5 DEF Reached
    <3> QED
      BY <2>3, <3>1, <3>3, <3>5, <3>6 DEF Promised
  <2> QED
    BY <1>1, <1>5, <1>6, <2>5, <2>6, <2>7, ThresholdMove
<1>7. ASSUME UNCHANGED <<scanned, hits, trig, windows, counts, last>>, alerted \subseteq alerted',
             pc[q] \in {"trigger", "alert"}, pc'[q] \in {"alert", "record"},
             pc'[q] = "record" => current'[q][1] \in alerted'
      PROVE  ThresholdInv'
  <2>1. CollectOK(q)' /\ ~Counted(q)'
    BY <1>1, <1>2, <1>7 DEF CollectOK, Counted
  <2>2. \A r \in Rules \ alerted' : Promised(q, r) => Promised(q, r)'
    BY <1>7 DEF Promised, Reached
  <2> QED
    BY <1>1, <1>5, <1>7, <2>1, <2>2, ThresholdMove
<1>8. ASSUME NEW k \in DOMAIN trig[q], CheckTrigger(q, k) PROVE ThresholdInv'
  <2>1. pc[q] = "trigger" /\ UNCHANGED <<last, alerted>>
    BY <1>8 DEF CheckTrigger, dbVars
  <2>2. \/ pc' = [pc EXCEPT ![q] = "alert"] /\ UNCHANGED <<scanned, hits, trig, windows, counts>>
        \/ Drop(q, k) /\ ~(last[k[1]] # "recent" /\ Reached(q, k))
    BY <1>3, <1>8 DEF CheckTrigger, Goto
  <2>3. CASE pc' = [pc EXCEPT ![q] = "alert"] /\ UNCHANGED <<scanned, hits, trig, windows, counts>>
    <3>1. pc'[q] = "alert"
      BY <2>3 DEF TypeInv, EvalType
    <3> QED
      BY <1>7, <2>1, <2>3, <3>1
  <2>4. CASE Drop(q, k) /\ ~(last[k[1]] # "recent" /\ Reached(q, k))
    <3>1. Reached(q, k) => k[1] \in alerted
      BY <1>2, <1>4, <2>4 DEF AlertOK
    <3> QED
      BY <1>6, <2>1, <2>4, <3>1
  <2> QED
    BY <2>2, <2>3, <2>4
<1>9. ASSUME SendAlert(q) PROVE ThresholdInv'
  <2>1. /\ pc[q] = "alert" /\ pc' = [pc EXCEPT ![q] = "record"]
        /\ alerted' = alerted \cup {current[q][1]}
        /\ UNCHANGED <<scanned, hits, trig, windows, counts, current, last>>
    BY <1>9 DEF SendAlert, Goto, dbVars
  <2>2. pc'[q] = "record"
    BY <2>1 DEF TypeInv, EvalType
  <2> QED
    BY <1>7, <2>1, <2>2
<1>10. ASSUME RecordAlert(q) PROVE ThresholdInv'
  <2>1. /\ pc[q] = "record" /\ Drop(q, current[q]) /\ UNCHANGED alerted
        /\ UNCHANGED last \/ last' = [last EXCEPT ![current[q][1]] = "recent"]
    BY <1>10 DEF RecordAlert, UpsertLast
  <2>2. current[q][1] \in alerted
    BY <1>2, <2>1 DEF CollectOK
  <2>3. \A r \in Rules : last'[r] # "none" => last[r] # "none" \/ r \in alerted
    <3>1. last \in [Rules -> {"none", "recent", "old"}]
      BY DEF CoolInv, CoolType
    <3> QED
      BY <2>1, <2>2, <3>1
  <2> QED
    BY <1>6, <2>1, <2>2, <2>3
<1> QED
  BY <1>8, <1>9, <1>10

LEMMA ThresholdInit == Init => ThresholdInv
<1> SUFFICES ASSUME Init PROVE ThresholdInv
  OBVIOUS
<1>1. SameRules
  BY DEF Init, SameRules
<1>2. ASSUME NEW q \in Requests PROVE CollectOK(q) /\ CountOK(q)
  BY NothingType DEF Init, CollectOK, CountOK
<1>3. ASSUME NEW r \in Rules PROVE AlertOK(r)
  BY DEF Init, AlertOK, Stored
<1> QED
  BY <1>1, <1>2, <1>3 DEF ThresholdInv

LEMMA ThresholdStep == TypeInv /\ CoolInv /\ ReloadInv /\ ThresholdInv /\ [Next]_vars => ThresholdInv'
<1> SUFFICES ASSUME TypeInv, CoolInv, ReloadInv, ThresholdInv, [Next]_vars, Undisturbed'
             PROVE  ThresholdInv'
  BY DEF ThresholdInv
<1>1. changes \in Nat /\ faults \in Nat
  BY BoundAssumption DEF ReloadInv, ReloadType, TypeInv, TableType
<1>2. Undisturbed /\ ~Fault /\ ~Handlers
  <2>1. faults = 0 /\ ~Fault
    <3>1. ~Fault
      BY <1>1 DEF Undisturbed, Fault
    <3>2. faults' = faults
      <4>1. ASSUME NEW q \in Requests, Evaluation(q) \/ Ingest(q) PROVE faults' = faults
        BY <3>1, <4>1 DEF Evaluation, Ingest, Evaluate, Insert, Count, Rollback, Commit, CommitUnknown,
                          CheckTrigger, SendAlert, RecordAlert
      <4>2. ASSUME NEW n, ReloadRead(n) \/ ReloadInstall(n) \/ ReloadFails(n) PROVE faults' = faults
        BY <3>1, <4>2 DEF ReloadRead, ReloadInstall, ReloadFails
      <4>3. ASSUME Handlers PROVE faults' = faults
        BY <4>3 DEF Handlers, Toggle, Delete, Create, Update, ChangeTable
      <4> QED
        BY <4>1, <4>2, <4>3 DEF Next, Age, CooldownPasses, vars
    <3> QED
      BY <3>1, <3>2 DEF Undisturbed
  <2>2. ~Handlers
    <3>1. ASSUME Handlers PROVE changes' = changes + 1
      BY <3>1 DEF Handlers, Toggle, Delete, Create, Update, ChangeTable
    <3> QED
      BY <1>1, <3>1 DEF Undisturbed
  <2>3. changes' = changes
    BY <2>2 DEF Next, ReloadRead, ReloadInstall, ReloadFails, Age, CooldownPasses, vars, ruleVars,
                Ingest, Evaluation, Evaluate, Insert, Count, Rollback, Commit, CommitUnknown,
                CheckTrigger, SendAlert, RecordAlert
  <2> QED
    BY <2>1, <2>2, <2>3 DEF Undisturbed
<1>3. SameRules /\ (\A p \in Requests : CollectOK(p) /\ CountOK(p)) /\ \A r \in Rules : AlertOK(r)
  BY <1>2 DEF ThresholdInv
<1>4. ASSUME NEW n \in Jobs PROVE ~(ReloadRead(n) \/ ReloadInstall(n) \/ ReloadFails(n))
  BY <1>3 DEF SameRules, ReloadRead, ReloadInstall, ReloadFails
<1>5. ASSUME NEW q \in Requests, Ingest(q) \/ Evaluation(q) PROVE ThresholdInv'
  <2>1. ~Rollback(q) /\ ~CommitUnknown(q)
    <3>1. pc[q] = "insert" => RulesExist(q)
      BY <1>3 DEF CollectOK, SameRules, Enabled, RulesExist
    <3> QED
      BY <1>2, <3>1 DEF Rollback, CommitUnknown
  <2> QED
    BY <1>2, <1>5, <2>1, ThresholdStart, ThresholdEvaluate, ThresholdCount, ThresholdCommit,
       ThresholdLoop DEF Evaluation
\* Time passes, or nothing happens.
<1>6. ASSUME UNCHANGED <<table, engine, job>>, UNCHANGED evalVars, UNCHANGED <<matches, unseen, alerted>>,
             aged \subseteq aged', \A r \in Rules : last'[r] # "none" => last[r] # "none"
      PROVE  ThresholdInv'
  <2>1. UNCHANGED <<pc, scanned, hits, trig, windows, counts, current>>
    BY <1>6 DEF evalVars
  <2>2. \A p \in Requests : CollectOK(p)'
    BY <1>3, <1>6, <2>1 DEF CollectOK
  <2>3. \A p \in Requests : CountOK(p)'
    BY <1>3, <1>6, <2>1, CountKept DEF Counted
  <2>4. ASSUME NEW r \in Rules PROVE AlertOK(r)'
    <3>1. \A p \in Requests : Promised(p, r) => Promised(p, r)'
      BY <2>1 DEF Promised, Reached
    <3> QED
      BY <1>3, <1>6, <3>1, AlertKept
  <2>5. SameRules'
    BY <1>3, <1>6 DEF SameRules, Enabled
  <2> QED
    BY <2>2, <2>3, <2>4, <2>5 DEF ThresholdInv
<1>7. ASSUME NEW m, Age(m) PROVE ThresholdInv'
  BY <1>6, <1>7 DEF Age, ruleVars, alertHistory
<1>8. ASSUME NEW r \in Rules, CooldownPasses(r) PROVE ThresholdInv'
  <2>1. \A x \in Rules : last'[x] # "none" => last[x] # "none"
    BY <1>8 DEF CooldownPasses, CoolInv, CoolType
  <2> QED
    BY <1>6, <1>8, <2>1 DEF CooldownPasses, ruleVars
<1>9. CASE UNCHANGED vars
  BY <1>6, <1>9 DEF vars, ruleVars, dbVars, alertHistory
<1> QED
  BY <1>2, <1>4, <1>5, <1>7, <1>8, <1>9 DEF Next

\* While rules stay as they are and the database works, a rule whose
\* threshold the stored matches reach has been alerted when all evaluations
\* are over, unless transactions with its matches overlapped
\* (log_rule_match_store.go:63-117).
THEOREM ThresholdsNoticed == Spec => []ThresholdAlerted
<1>1. TypeInv /\ ThresholdInv => ThresholdAlerted
  <2> SUFFICES ASSUME TypeInv, ThresholdInv, changes = 0, faults = 0,
                      \A q \in Requests : pc[q] \in {"new", "done"},
                      NEW r \in DOMAIN Enabled(table) \ unseen,
                      Cardinality(Stored(r)) > 0, Cardinality(Stored(r)) >= table[r].thr
               PROVE  r \in alerted
    BY DEF ThresholdAlerted, Stored
  <2>1. engine = Enabled(table) /\ \A x \in Rules : AlertOK(x)
    BY DEF ThresholdInv, Undisturbed, SameRules
  <2>2. r \in DOMAIN engine /\ engine[r] = table[r].thr /\ r \in Rules
    <3>1. DOMAIN engine \subseteq Rules
      BY FunctionsFact DEF TypeInv, TableType
    <3>2. Enabled(table)[r] = table[r].thr
      BY DEF Enabled
    <3> QED
      BY <2>1, <3>1, <3>2
  <2>3. Stored(r) # {}
    BY FS_EmptySet
  <2>4. ~\E q \in Requests : Promised(q, r)
    BY DEF Promised
  <2> QED
    BY <2>1, <2>2, <2>3, <2>4 DEF AlertOK
<1>2. Init => TypeInv /\ CoolInv /\ ReloadInv /\ ThresholdInv
  BY TypeInit, CoolInit, ReloadInit, ThresholdInit
<1>3. (TypeInv /\ CoolInv /\ ReloadInv /\ ThresholdInv) /\ [Next]_vars
        => (TypeInv /\ CoolInv /\ ReloadInv /\ ThresholdInv)'
  BY TypeStep, CoolStep, ReloadStep, ThresholdStep
<1> QED
  BY <1>1, <1>2, <1>3, PTL DEF Spec
=============================================================================
