---------------------------- MODULE AlertChecker ----------------------------
(***************************************************************************)
(* The server's alerting: server/alert/checker.go and state.go, with the   *)
(* HTTP handlers of server/handler/alert.go that change the same state.    *)
(*                                                                         *)
(* Two goroutines judge what they observe: "check" asks Prometheus for one *)
(* kind of series after the other, "ssl" looks at certificates.  Each      *)
(* message they decide on passes the gates of sendAlert (maintenance mode, *)
(* acknowledgement) before it is mailed.  Operators acknowledge, switch    *)
(* maintenance mode and switch alerting on and off at any time in between. *)
(*                                                                         *)
(* A value is its level relative to the thresholds, and time is whether    *)
(* the 30 minutes of cooldown since a key's last alert have passed.        *)
(***************************************************************************)
EXTENDS Naturals, Sequences, SequencesExt

CONSTANTS
  SeriesSets  \* environments: sets of series that exist together

VARIABLES
  series,   \* the series of this behaviour
  level,    \* the true level of each series
  firing,   \* State.firing
  last,     \* State.lastAlertAt: "none", "recent" (within cooldown), "old"
  fails,    \* State.failCounts
  acked,    \* State.acked: <<host, category, severity>>
  maint,    \* State.maintenance
  enabled,  \* AlertConfig.Enabled
  stage,    \* where each goroutine is in its round: index in Plan, 0: idle
  todo,     \* <<series, observed level>> it still has to judge
  out,      \* the message it is sending, or NoMessage
  mailed,   \* history: keys mailed since their cooldown or clearing
  muted     \* history: <<key, severity>> acknowledged while firing, since then

stateVars == <<firing, last, fails, acked, maint>>
envVars == <<series, level, enabled>>
procVars == <<stage, todo, out>>
history == <<mailed, muted>>
vars == <<envVars, stateVars, procVars, history>>

-----------------------------------------------------------------------------
(* Series: kind, host, and what else tells two series apart.               *)

AllSeries == UNION SeriesSets
Hosts == {s.host : s \in AllSeries}

\* cpu stands for memory too: the same code with another name.  forecast
\* stands for the anomaly detector's critical anomalies and for the disk
\* predictor's warnings.
Plan == [check |-> <<"cpu", "disk", "rapid", "down", "svc", "forecast">>,
         ssl   |-> <<"ssl">>]
Procs == DOMAIN Plan
Idle == 0

Levels(kind) ==
  CASE kind \in {"disk", "rapid"} -> {"ok", "warn", "crit"}
    [] kind = "ssl" -> {"ok", "info", "warn", "crit"}
    [] OTHER -> {"ok", "crit"}

\* Keys of State's maps.  A disk has one for each of its two levels.
CritKey(s) == <<s, "crit">>
WarnKey(s) == <<s, "warn">>
Key(s) == <<s, "any">>
KeysOf(s) == IF s.kind = "disk" THEN {CritKey(s), WarnKey(s)} ELSE {Key(s)}
Keys == UNION {KeysOf(s) : s \in AllSeries}

Severity(s, l) ==
  CASE s.kind = "forecast" -> "warning"
    [] l = "warn" -> "warning"
    [] l = "info" -> "info"
    [] OTHER -> "critical"

\* ackKey: host, category and severity, so that the mounts of a host share.
Severities == {"critical", "warning"}
AckKey(s, sev) == <<s.host, s.kind, sev>>
AckKeys == {AckKey(s, sev) : s \in AllSeries, sev \in Severities}

NoMessage == [type |-> "none"]
Message(type, k, sev) == [type |-> type, key |-> k, sev |-> sev, at |-> "gate"]

\* Types, and the two maps agree: a key fires exactly if the time of its last
\* alert is recorded.  ClearIfFiring must delete both, or the next incident
\* falls into the cooldown of the last one (state.go:32-56).
TypeOK ==
  /\ series \in SeriesSets
  /\ \A s \in series : level[s] \in Levels(s.kind)
  /\ firing \subseteq Keys
  /\ last \in [Keys -> {"none", "recent", "old"}]
  /\ firing = {k \in Keys : last[k] # "none"}
  /\ fails \in [AllSeries -> 0..4]
  /\ acked \subseteq AckKeys /\ maint \subseteq Hosts /\ enabled \in BOOLEAN
  /\ \A p \in Procs : stage[p] \in 0..Len(Plan[p])
  /\ \A p \in Procs : \A t \in todo[p] :
       t[1] \in series /\ t[1].kind = Plan[p][stage[p]] /\ t[2] \in Levels(t[1].kind)
  /\ \A p \in Procs : out[p] # NoMessage =>
       /\ out[p].type \in {"alert", "recovery"}
       /\ out[p].key \in Keys /\ out[p].sev \in Severities \cup {"info"}
       /\ out[p].at \in {"gate", "send"}
  /\ mailed \subseteq Keys
  /\ muted \subseteq Keys \X Severities

Init ==
  /\ series \in SeriesSets
  /\ level = [s \in series |-> "ok"]
  /\ firing = {} /\ last = [k \in Keys |-> "none"]
  /\ fails = [s \in AllSeries |-> 0]
  /\ acked = {} /\ maint = {} /\ enabled = TRUE
  /\ stage = [p \in Procs |-> Idle]
  /\ todo = [p \in Procs |-> {}]
  /\ out = [p \in Procs |-> NoMessage]
  /\ mailed = {} /\ muted = {}

-----------------------------------------------------------------------------
(* state.go, as used by one step: new values of firing and last.           *)

\* Mutants: the time of the alert is not recorded; it survives a recovery.
ShouldAlertUnstamped(k) == firing' = firing \cup {k} /\ UNCHANGED last
ClearKeepsStamp(k) ==
  /\ firing' = firing \ {k}
  /\ mailed' = mailed \ {k}
  /\ muted' = {m \in muted : m[1] # k}
  /\ UNCHANGED last

\* Mutant: what fires already is not alerted again.
MayAlertOnce(k) == last[k] = "none"

MayAlert(k) == last[k] # "recent"

ShouldAlert(k) ==
  /\ firing' = firing \cup {k}
  /\ last' = [last EXCEPT ![k] = IF MayAlert(k) THEN "recent" ELSE @]

\* The deletions of ClearIfFiring, for a key that fires.
ClearFiring(k) ==
  /\ firing' = firing \ {k}
  /\ last' = [last EXCEPT ![k] = "none"]
  /\ mailed' = mailed \ {k}
  /\ muted' = {m \in muted : m[1] # k}

ClearAck(s, sevs) == acked' = acked \ {AckKey(s, sev) : sev \in sevs}

-----------------------------------------------------------------------------
(* One observation <<s, l>> judged by goroutine p: the loop bodies of the  *)
(* checks.  m is the message that goes to sendAlert next, if any.          *)

Emit(p, m) == out' = [out EXCEPT ![p] = m]
Silent(p)  == UNCHANGED out

\* An alert under key k, unless its cooldown still runs.
Raise(p, s, k, sev) ==
  /\ ShouldAlert(k)
  /\ IF MayAlert(k) THEN Emit(p, Message("alert", k, sev)) ELSE Silent(p)

\* Mutant: a recovered metric is acknowledged for good.
RecoverKeepingAck(p, s, k, sevs) ==
  IF k \in firing
  THEN ClearFiring(k) /\ Emit(p, Message("recovery", k, "info")) /\ UNCHANGED acked
  ELSE UNCHANGED <<firing, last, acked, out, history>>
\* Mutant: every good value takes the acknowledgement away and firing stays.
RecoverOnlyAck(p, s, k, sevs) ==
  /\ ClearAck(s, sevs)
  /\ UNCHANGED <<firing, last, out, history>>

Recover(p, s, k, sevs) ==
  IF k \in firing
  THEN /\ ClearFiring(k) /\ ClearAck(s, sevs)
       /\ Emit(p, Message("recovery", k, "info"))
  ELSE UNCHANGED <<firing, last, acked, out, history>>

\* checkMetric (cpu) and checkServerDown (down: crit is "no data for 2 min").
JudgeThreshold(p, s, l) ==
  /\ IF l = "crit"
     THEN Raise(p, s, Key(s), "critical") /\ UNCHANGED <<acked, history>>
     ELSE Recover(p, s, Key(s), {"critical"})
  /\ UNCHANGED fails

\* Mutant of the last branch: only the critical key is cleared.
JudgeDiskCritOnly(p, s, l) ==
  /\ CASE l = "crit" ->
            Raise(p, s, CritKey(s), "critical") /\ UNCHANGED <<acked, history>>
       [] l = "warn" ->
            Raise(p, s, WarnKey(s), "warning") /\ UNCHANGED <<acked, history>>
       [] l = "ok" -> Recover(p, s, CritKey(s), Severities)
  /\ UNCHANGED fails

\* checkDisk.  Falling from critical to warning clears the critical key and
\* says nothing; in the last branch || stops at the first key that fires, so
\* the other one is cleared, with a message of its own, in the next round.
JudgeDisk(p, s, l) ==
  /\ CASE l = "crit" ->
            Raise(p, s, CritKey(s), "critical") /\ UNCHANGED <<acked, history>>
       [] l = "warn" ->
            /\ firing' = (firing \ {CritKey(s)}) \cup {WarnKey(s)}
            /\ last' = [last EXCEPT
                 ![CritKey(s)] = IF CritKey(s) \in firing THEN "none" ELSE @,
                 ![WarnKey(s)] = IF MayAlert(WarnKey(s)) THEN "recent" ELSE @]
            /\ mailed' = mailed \ {CritKey(s)}
            /\ muted' = {m \in muted : m[1] # CritKey(s)}
            /\ IF MayAlert(WarnKey(s))
               THEN Emit(p, Message("alert", WarnKey(s), "warning"))
               ELSE Silent(p)
            /\ UNCHANGED acked
       [] l = "ok" ->
            Recover(p, s, IF CritKey(s) \in firing THEN CritKey(s) ELSE WarnKey(s),
                    Severities)
  /\ UNCHANGED fails

\* checkRapidGrowth: skips hosts in maintenance and knows no recovery.
JudgeRapid(p, s, l) ==
  /\ IF l = "ok" \/ s.host \in maint
     THEN UNCHANGED <<firing, last, out>>
     ELSE Raise(p, s, Key(s), Severity(s, l))
  /\ UNCHANGED <<fails, acked, history>>

\* feedAnomalyDetector and feedDiskPredictor: no recovery either.
JudgeForecast(p, s, l) ==
  /\ IF l = "ok" THEN UNCHANGED <<firing, last, out>>
     ELSE Raise(p, s, Key(s), Severity(s, l))
  /\ UNCHANGED <<fails, acked, history>>

\* checkServiceFailures.  Only the third failure in a row alerts, whatever
\* the cooldown; it is marked as firing after the message (no other code
\* looks at the key in between, so both are one step).  4 stands for more.
JudgeService(p, s, l) ==
  IF l = "crit"
  THEN /\ fails' = [fails EXCEPT ![s] = IF @ < 4 THEN @ + 1 ELSE @]
       /\ IF fails'[s] = 3
          THEN ShouldAlert(Key(s)) /\ Emit(p, Message("alert", Key(s), "critical"))
          ELSE UNCHANGED <<firing, last, out>>
       /\ UNCHANGED <<acked, history>>
  ELSE Recover(p, s, Key(s), {"critical"}) /\ fails' = [fails EXCEPT ![s] = 0]

\* checkSSLCerts: one key for all levels; a good certificate clears it
\* without a message.
JudgeCert(p, s, l) ==
  /\ IF l = "ok"
     THEN /\ IF Key(s) \in firing THEN ClearFiring(Key(s))
             ELSE UNCHANGED <<firing, last, history>>
          /\ Silent(p)
     ELSE Raise(p, s, Key(s), Severity(s, l)) /\ UNCHANGED history
  /\ UNCHANGED <<fails, acked>>

Judge(p, s, l) ==
  CASE s.kind \in {"cpu", "down"} -> JudgeThreshold(p, s, l)
    [] s.kind = "disk" -> JudgeDisk(p, s, l)
    [] s.kind = "rapid" -> JudgeRapid(p, s, l)
    [] s.kind = "svc" -> JudgeService(p, s, l)
    [] s.kind = "forecast" -> JudgeForecast(p, s, l)
    [] s.kind = "ssl" -> JudgeCert(p, s, l)

-----------------------------------------------------------------------------
(* The rounds of the two goroutines.                                       *)

OfKind(kind) == {s \in series : s.kind = kind}

\* The stages of p that have something to judge; the others pass unnoticed.
Stages(p) == {i \in 1..Len(Plan[p]) : OfKind(Plan[p][i]) # {}}
NextStage(p, i) ==
  IF \E j \in Stages(p) : j > i
  THEN CHOOSE j \in Stages(p) : j > i /\ \A h \in Stages(p) : h > i => j <= h
  ELSE Idle

\* Levels as a query finds them now.
Observed(kind) == {<<s, level[s]>> : s \in OfKind(kind)}

Ready(p) == todo[p] = {} /\ out[p] = NoMessage

\* check: nothing while alerting is switched off.  The first query is
\* answered with the start of the round.
StartRound ==
  /\ stage["check"] = Idle /\ Ready("check") /\ enabled
  /\ NextStage("check", 0) # Idle
  /\ stage' = [stage EXCEPT !["check"] = NextStage("check", 0)]
  /\ \/ todo' = [todo EXCEPT !["check"] = Observed(Plan["check"][NextStage("check", 0)])]
     \/ UNCHANGED todo  \* the query fails: the stage is skipped
  /\ UNCHANGED <<envVars, stateVars, out, history>>

\* The query of the next stage, or the end of the round.
Advance ==
  /\ stage["check"] # Idle /\ Ready("check")
  /\ LET n == NextStage("check", stage["check"]) IN
     /\ stage' = [stage EXCEPT !["check"] = n]
     /\ \/ n # Idle /\ todo' = [todo EXCEPT !["check"] = Observed(Plan["check"][n])]
        \/ UNCHANGED todo
  /\ UNCHANGED <<envVars, stateVars, out, history>>

\* checkSSLCerts: the certificates are read before the switch is.  Domains
\* whose certificate cannot be read ("error") are passed over.
StartCerts ==
  /\ stage["ssl"] = Idle /\ Ready("ssl") /\ OfKind("ssl") # {}
  /\ enabled
  /\ stage' = [stage EXCEPT !["ssl"] = 1]
  /\ \E read \in SUBSET OfKind("ssl") :
       todo' = [todo EXCEPT !["ssl"] = {t \in Observed("ssl") : t[1] \in read}]
  /\ UNCHANGED <<envVars, stateVars, out, history>>

EndCerts ==
  /\ stage["ssl"] # Idle /\ Ready("ssl")
  /\ stage' = [stage EXCEPT !["ssl"] = Idle]
  /\ UNCHANGED <<envVars, stateVars, todo, out, history>>

\* checkServerDown asks for each host in turn, so it sees the level of now.
Seen(t) == IF t[1].kind = "down" THEN level[t[1]] ELSE t[2]

JudgeNext(p) ==
  /\ out[p] = NoMessage
  /\ \E t \in todo[p] :
       /\ Judge(p, t[1], Seen(t))
       /\ todo' = [todo EXCEPT ![p] = @ \ {t}]
  /\ UNCHANGED <<envVars, maint, stage>>

\* The query for one host fails.
SkipHost ==
  /\ out["check"] = NoMessage
  /\ \E t \in todo["check"] :
       /\ t[1].kind = "down"
       /\ todo' = [todo EXCEPT !["check"] = @ \ {t}]
  /\ UNCHANGED <<envVars, stateVars, stage, out, history>>

-----------------------------------------------------------------------------
(* sendAlert.  Maintenance drops the message; an acknowledged alert goes   *)
(* into the history table only; the rest is mailed.  The two reads are one *)
(* step, an operator's action may fall between them and the mail.          *)

AckKeyOf(m) == AckKey(m.key[1], m.sev)

\* Mutant: acknowledgements are ignored.
MaySendUnacked(m) == m.key[1].host \notin maint

MaySend(m) ==
  /\ m.key[1].host \notin maint
  /\ m.sev = "info" \/ AckKeyOf(m) \notin acked

Gate(p) ==
  /\ out[p] # NoMessage /\ out[p].at = "gate"
  /\ out' = [out EXCEPT ![p] =
       IF MaySend(out[p]) THEN [out[p] EXCEPT !.at = "send"] ELSE NoMessage]
  /\ UNCHANGED <<envVars, stateVars, stage, todo, history>>

Sending(p) == out[p] # NoMessage /\ out[p].at = "send"

\* EmailConfig.Send and HistorySaver.Save; a failure is logged, not retried.
Deliver(p) ==
  /\ Sending(p)
  /\ out' = [out EXCEPT ![p] = NoMessage]
  /\ mailed' = IF out[p].type = "alert" /\ last[out[p].key] # "old"
               THEN mailed \cup {out[p].key} ELSE mailed
  /\ UNCHANGED <<envVars, stateVars, stage, todo, muted>>

-----------------------------------------------------------------------------
(* Operators, through handler/alert.go, and the world.                     *)

AckAlert(a) ==
  /\ acked' = acked \cup {a}
  /\ muted' = muted \cup {m \in firing \X Severities : AckKey(m[1][1], m[2]) = a}
  /\ UNCHANGED <<envVars, firing, last, fails, maint, procVars, mailed>>

SetMaintenance(h, on) ==
  /\ maint' = IF on THEN maint \cup {h} ELSE maint \ {h}
  /\ UNCHANGED <<envVars, firing, last, fails, acked, procVars, history>>

SetConfig(on) ==
  /\ enabled' = on
  /\ UNCHANGED <<series, level, stateVars, procVars, history>>

Change(s, l) ==
  /\ level' = [level EXCEPT ![s] = l]
  /\ UNCHANGED <<series, enabled, stateVars, procVars, history>>

\* The cooldown of a key passes.
CooldownPasses(k) ==
  /\ last[k] = "recent"
  /\ last' = [last EXCEPT ![k] = "old"]
  /\ mailed' = mailed \ {k}
  /\ UNCHANGED <<envVars, firing, fails, acked, maint, procVars, muted>>

Operator ==
  \/ \E s \in series, sev \in Severities : AckAlert(AckKey(s, sev))
  \/ \E s \in series, on \in BOOLEAN : SetMaintenance(s.host, on)
  \/ \E on \in BOOLEAN : SetConfig(on)

World ==
  \/ \E s \in series : \E l \in Levels(s.kind) : Change(s, l)
  \/ \E k \in Keys : CooldownPasses(k)

Next ==
  \/ StartRound \/ Advance \/ SkipHost \/ StartCerts \/ EndCerts
  \/ \E p \in Procs : JudgeNext(p) \/ Gate(p) \/ Deliver(p)
  \/ Operator \/ World

Spec == Init /\ [][Next]_vars

-----------------------------------------------------------------------------
(* Fairness: the tickers fire for ever, a query or certificate check that  *)
(* is tried again and again succeeds again and again, the loops go on, and *)
(* time passes.                                                            *)

QueryAnswered(i) ==
  /\ i = NextStage("check", stage["check"])
  /\ StartRound \/ Advance
  /\ todo'["check"] # {}

\* What a goroutine does by itself with the answers it has.
GoOn(p) == JudgeNext(p) \/ Gate(p) \/ Deliver(p) \/ (p = "ssl" /\ EndCerts)

CertRead == StartCerts /\ todo'["ssl"] = Observed("ssl")

FairSpec ==
  /\ Spec
  /\ WF_vars(StartRound \/ Advance)
  /\ \A i \in 1..Len(Plan["check"]) : SF_vars(QueryAnswered(i))
  /\ SF_vars(CertRead)
  /\ \A p \in Procs : SF_vars(GoOn(p))
  /\ \A k \in Keys : WF_vars(CooldownPasses(k))

-----------------------------------------------------------------------------
(* Properties. *)

\* No alert is mailed twice under a key within the cooldown, unless the key
\* was cleared in between (state.go:32-43; checker.go:344-348 mails without
\* asking and relies on the count of failures).
QuietWithinCooldown ==
  [][\A p \in Procs :
       Sending(p) /\ out'[p] = NoMessage /\ out[p].type = "alert"
         => out[p].key \notin mailed]_vars

\* The recovery of no other key takes away the acknowledgements of k.
OwnAck(k) ==
  /\ k[1].kind # "disk"
  /\ \A s \in series : s.host = k[1].host /\ s.kind = k[1].kind => s = k[1]

\* From the acknowledgement of an incident to its end, sendAlert passes no
\* further alert of it (state.go:79-98).  Not for keys that share it: the
\* mounts and the services of a host do, and the two keys of a mount, and
\* the first of them that recovers takes it away from all.
AckMutesIncident ==
  [][\A p \in Procs :
       ~Sending(p) /\ Sending(p)' /\ out[p].type = "alert" /\ OwnAck(out[p].key)
         => <<out[p].key, out[p].sev>> \notin muted]_vars

\* The liveness properties speak of environments of a single series (others
\* are products of these, as series of one host share only acknowledgements).
Alone(s) == series = {s}

\* The level of s asks for an alert that nothing suppresses.
Alarming(s) ==
  /\ Alone(s) /\ enabled /\ s.host \notin maint
  /\ level[s] = "crit" /\ AckKey(s, Severity(s, "crit")) \notin acked
Mailing == \E p \in Procs : Sending(p) /\ out[p].type = "alert"
WithRecovery(s) == s.kind \notin {"rapid", "forecast"}

\* What stays critical is mailed again and again, whatever was suppressed by
\* maintenance or acknowledgement before (state.go:32-43, checker.go:362-388).
StandingAlarmMailed ==
  <>[](\E s \in series : s.kind # "svc" /\ Alarming(s)) => []<>Mailing

\* What stays good stops firing, for all kinds that know a recovery, however
\* rounds, failing queries and operators interleave (state.go:47-56).
GoodStopsFiring ==
  <>[](\E s \in series : WithRecovery(s) /\ Alone(s) /\ enabled /\ level[s] = "ok")
    => <>[](firing = {})

\* checker.go:330 says that service checks whose count of failures in a row
\* is at or above the threshold are alerted.
FailingServiceMailed ==
  <>[](\E s \in series : s.kind = "svc" /\ Alarming(s)) => <>Mailing
=============================================================================
