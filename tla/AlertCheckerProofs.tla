------------------------- MODULE AlertCheckerProofs -------------------------
(***************************************************************************)
(* Proofs about AlertChecker, for every set of environments: any number of *)
(* hosts, and of mounts, services, certificates and metrics on each.       *)
(*                                                                         *)
(* The argument.  The two goroutines judge series of different kinds, so   *)
(* they share no key (OutInv): between the moment one of them decides on   *)
(* an alert and the mail, nobody clears the key or mails under it.  What   *)
(* was mailed is in its cooldown (QuietInv), and the code that mails       *)
(* without asking for the cooldown, that of the service checks, does so    *)
(* only for a key that does not fire yet (CountInv).  What is muted fires  *)
(* and, unless others share its acknowledgement, is acknowledged           *)
(* (MutedInv): only the recovery of the key itself takes that away.        *)
(***************************************************************************)
EXTENDS AlertChecker, TLAPS

\* The kinds each goroutine judges.
Kinds(p) == IF p = "ssl" THEN {"ssl"}
            ELSE {"cpu", "disk", "rapid", "down", "svc", "forecast"}
AllLevels == {"ok", "info", "warn", "crit"}
Messages == [type : {"alert", "recovery"}, key : Keys,
             sev : Severities \cup {"info"}, at : {"gate", "send"}]

TypeInv ==
  /\ series \in SeriesSets
  /\ level \in [series -> AllLevels]
  /\ \A s \in series : level[s] \in Levels(s.kind)
  /\ firing \subseteq Keys
  /\ last \in [Keys -> {"none", "recent", "old"}]
  /\ \A k \in Keys : k \in firing <=> last[k] # "none"
  /\ fails \in [AllSeries -> 0..4]
  /\ acked \subseteq AckKeys /\ maint \subseteq Hosts /\ enabled \in BOOLEAN
  /\ mailed \subseteq Keys
  /\ muted \subseteq Keys \X Severities

\* What a goroutine has at hand belongs to the stage it is in.
TodoInv ==
  /\ stage \in [Procs -> Nat]
  /\ \A p \in Procs : stage[p] <= Len(Plan[p])
  /\ todo \in [Procs -> SUBSET (AllSeries \X AllLevels)]
  /\ \A p \in Procs : \A t \in todo[p] :
       /\ stage[p] # Idle /\ t[1] \in series
       /\ t[1].kind = Plan[p][stage[p]] /\ t[2] \in Levels(t[1].kind)

OutInv ==
  /\ out \in [Procs -> Messages \cup {NoMessage}]
  /\ \A p \in Procs : out[p] # NoMessage => out[p].key[1].kind \in Kinds(p)

QuietInv ==
  /\ \A k \in mailed : last[k] = "recent"
  /\ \A p \in Procs : out[p].type = "alert" =>
       out[p].key \notin mailed /\ last[out[p].key] # "none"

CountInv == \A s \in series : s.kind = "svc" /\ fails[s] < 3 => Key(s) \notin firing

MutedInv ==
  \A m \in muted :
    m[1] \in firing /\ (OwnAck(m[1]) => AckKey(m[1][1], m[2]) \in acked)

Inv == TypeInv /\ TodoInv /\ OutInv /\ QuietInv /\ CountInv /\ MutedInv
-----------------------------------------------------------------------------
(* Keys, kinds and the two plans.                                          *)

\* The two goroutines are "check" and "ssl", with six stages and with one.
LEMMA PlanShape ==
  /\ Procs = {"check", "ssl"}
  /\ Len(Plan["check"]) = 6 /\ Len(Plan["ssl"]) = 1
  /\ Plan["ssl"][1] = "ssl"
  /\ \A p \in Procs : \A i \in 1..Len(Plan[p]) : Plan[p][i] \in Kinds(p)
PROOF
  <1>1. Procs = {"check", "ssl"}
    BY DEF Procs, Plan
  <1>2. Len(Plan["check"]) = 6 /\ Len(Plan["ssl"]) = 1 /\ Plan["ssl"][1] = "ssl"
    BY DEF Plan
  <1>3. ASSUME NEW i \in 1..6 PROVE Plan["check"][i] \in Kinds("check")
    <2>1. i \in {1, 2, 3, 4, 5, 6}
      OBVIOUS
    <2> QED
      BY <2>1 DEF Plan, Kinds
  <1>4. Plan["ssl"][1] \in Kinds("ssl")
    BY DEF Plan, Kinds
  <1> QED
    BY <1>1, <1>2, <1>3, <1>4

\* No kind is judged by both.
LEMMA KindsDiffer ==
  ASSUME NEW p \in Procs, NEW q \in Procs, p # q
  PROVE  Kinds(p) \cap Kinds(q) = {}
PROOF
  <1>1. p \in {"check", "ssl"} /\ q \in {"check", "ssl"}
    BY PlanShape
  <1> QED
    BY <1>1 DEF Kinds

LEMMA SeriesAll == ASSUME TypeInv PROVE series \subseteq AllSeries
PROOF BY DEF TypeInv, AllSeries

\* The keys of a series are keys, and tell the series.
LEMMA KeysOfSeries ==
  ASSUME NEW s \in AllSeries, NEW k \in KeysOf(s)
  PROVE  k \in Keys /\ k[1] = s /\ (s.kind # "disk" => k = Key(s))
PROOF
  <1>1. k \in Keys
    BY DEF Keys
  <1>2. k[1] = s /\ (s.kind # "disk" => k = Key(s))
    BY DEF KeysOf, CritKey, WarnKey, Key
  <1> QED
    BY <1>1, <1>2

LEMMA KeyOwner ==
  ASSUME NEW k \in Keys
  PROVE  k[1] \in AllSeries /\ k \in KeysOf(k[1]) /\ (k[1].kind # "disk" => k = Key(k[1]))
PROOF
  <1>1. PICK s \in AllSeries : k \in KeysOf(s)
    BY DEF Keys
  <1>2. k[1] = s
    BY <1>1, KeysOfSeries
  <1> QED
    BY <1>1, <1>2, KeysOfSeries

\* Which keys a series has.
LEMMA DiskKeys ==
  ASSUME NEW s
  PROVE  IF s.kind = "disk" THEN CritKey(s) \in KeysOf(s) /\ WarnKey(s) \in KeysOf(s)
                                 /\ CritKey(s) # WarnKey(s)
         ELSE Key(s) \in KeysOf(s)
PROOF
  <1>1. CritKey(s) # WarnKey(s)
    BY DEF CritKey, WarnKey
  <1> QED
    BY <1>1 DEF KeysOf

\* A message is no NoMessage.
LEMMA MessageIsNone ==
  ASSUME NEW type \in {"alert", "recovery"}, NEW k, NEW sev
  PROVE  /\ Message(type, k, sev) # NoMessage
         /\ Message(type, k, sev).type = type /\ Message(type, k, sev).key = k
         /\ (k \in Keys /\ sev \in Severities \cup {"info"} =>
               Message(type, k, sev) \in Messages)
PROOF BY DEF Message, NoMessage, Messages

\* The severities of messages.
LEMMA SeverityType == ASSUME NEW s, NEW l PROVE Severity(s, l) \in Severities \cup {"info"}
PROOF BY DEF Severity, Severities
-----------------------------------------------------------------------------
(* The start, and the judgements: what each branch of the checks does to   *)
(* the state, the message and the history.                                 *)

LEMMA InitInv == Init => Inv
PROOF
  <1> SUFFICES ASSUME Init PROVE Inv
    OBVIOUS
  <1>1. level \in [series -> AllLevels] /\ \A s \in series : level[s] \in Levels(s.kind)
    BY DEF Init, AllLevels, Levels
  <1>2. TypeInv
    BY <1>1 DEF Init, TypeInv
  <1>3. TodoInv
    BY PlanShape DEF Init, TodoInv, Idle
  <1>4. OutInv
    BY DEF Init, OutInv
  <1>5. QuietInv
    BY DEF Init, QuietInv, NoMessage
  <1>6. CountInv /\ MutedInv
    BY DEF Init, CountInv, MutedInv
  <1> QED
    BY <1>2, <1>3, <1>4, <1>5, <1>6 DEF Inv

\* p, with no message at hand, judges a series of its own.
Judging(p, s) ==
  /\ p \in Procs /\ s \in series /\ s.kind \in Kinds(p)
  /\ out[p] = NoMessage
  /\ UNCHANGED <<envVars, maint>>

\* All that a judgement changes.
StateInv == TypeInv /\ OutInv /\ QuietInv /\ CountInv /\ MutedInv

\* A message under a key of a series that p judges keeps OutInv.
LEMMA EmitKeepsOut ==
  ASSUME OutInv, TypeInv, NEW p, NEW s, Judging(p, s), NEW k \in KeysOf(s),
         NEW type \in {"alert", "recovery"}, NEW sev \in Severities \cup {"info"},
         Emit(p, Message(type, k, sev))
  PROVE  /\ OutInv'
         /\ out' = [out EXCEPT ![p] = Message(type, k, sev)]
         /\ out'[p] = Message(type, k, sev) /\ \A q \in Procs \ {p} : out'[q] = out[q]
PROOF
  <1>1. p \in Procs /\ s \in AllSeries /\ s.kind \in Kinds(p)
    BY SeriesAll DEF Judging
  <1>2. k \in Keys /\ k[1] = s
    BY <1>1, KeysOfSeries
  <1> DEFINE m == Message(type, k, sev)
  <1>3. m \in Messages /\ m # NoMessage /\ m.key = k
    BY <1>2, MessageIsNone
  <1>4. out' = [out EXCEPT ![p] = m]
    BY DEF Emit
  <1> HIDE DEF m
  <1>5. out' \in [Procs -> Messages \cup {NoMessage}]
    BY <1>3, <1>4 DEF OutInv
  <1>6. out'[p] = m /\ \A q \in Procs \ {p} : out'[q] = out[q]
    BY <1>1, <1>4 DEF OutInv
  <1>7. ASSUME NEW q \in Procs, out'[q] # NoMessage PROVE out'[q].key[1].kind \in Kinds(q)
    <2>1. CASE q = p
      BY <2>1, <1>1, <1>2, <1>3, <1>6
    <2>2. CASE q # p
      <3>1. out'[q] = out[q]
        BY <2>2, <1>6
      <3> QED
        BY <3>1, <1>7 DEF OutInv
    <2> QED
      BY <2>1, <2>2
  <1>8. OutInv'
    BY <1>5, <1>7 DEF OutInv
  <1> QED
    BY <1>4, <1>6, <1>8 DEF m

\* What another goroutine has to say is about another key.
LEMMA OtherKey ==
  ASSUME OutInv, TypeInv, NEW p, NEW s, Judging(p, s), NEW k \in KeysOf(s),
         NEW q \in Procs \ {p}, out[q] # NoMessage
  PROVE  out[q].key # k /\ out[q].key[1] # s
PROOF
  <1>1. p \in Procs /\ s \in AllSeries /\ s.kind \in Kinds(p)
    BY SeriesAll DEF Judging
  <1>2. k[1] = s
    BY <1>1, KeysOfSeries
  <1>3. out[q].key[1].kind \in Kinds(q)
    BY DEF OutInv
  <1>4. Kinds(p) \cap Kinds(q) = {}
    BY <1>1, KindsDiffer
  <1> QED
    BY <1>1, <1>2, <1>3, <1>4
\* What ShouldAlert does to the two maps.
LEMMA ShouldAlertMoves ==
  ASSUME TypeInv, NEW k \in Keys, ShouldAlert(k)
  PROVE  /\ firing' \subseteq Keys /\ last' \in [Keys -> {"none", "recent", "old"}]
         /\ \A h \in Keys : h \in firing' <=> last'[h] # "none"
         /\ \A h \in Keys : h # k => last'[h] = last[h] /\ (h \in firing' <=> h \in firing)
         /\ k \in firing' /\ last'[k] # "none"
         /\ last[k] = "recent" => last'[k] = "recent"
         /\ firing \subseteq firing'
PROOF
  <1>1. last' = [last EXCEPT ![k] = IF MayAlert(k) THEN "recent" ELSE @]
    BY DEF ShouldAlert
  <1>2. last'[k] = IF MayAlert(k) THEN "recent" ELSE last[k]
    BY <1>1 DEF TypeInv
  <1>3. last'[k] \in {"recent", "old"} /\ (last[k] = "recent" => last'[k] = "recent")
    BY <1>2 DEF TypeInv, MayAlert
  <1>4. \A h \in Keys : h # k => last'[h] = last[h]
    BY <1>1 DEF TypeInv
  <1>5. last' \in [Keys -> {"none", "recent", "old"}]
    <2>1. (IF MayAlert(k) THEN "recent" ELSE last[k]) \in {"none", "recent", "old"}
      BY DEF TypeInv
    <2> QED
      BY <1>1, <2>1 DEF TypeInv
  <1>6. firing' = firing \cup {k}
    BY DEF ShouldAlert
  <1> QED
    BY <1>3, <1>4, <1>5, <1>6 DEF TypeInv

\* The same for the deletions of ClearIfFiring.
LEMMA ClearFiringMoves ==
  ASSUME TypeInv, NEW k \in Keys, ClearFiring(k)
  PROVE  /\ firing' \subseteq Keys /\ last' \in [Keys -> {"none", "recent", "old"}]
         /\ \A h \in Keys : h \in firing' <=> last'[h] # "none"
         /\ \A h \in Keys : h # k => last'[h] = last[h] /\ (h \in firing' <=> h \in firing)
         /\ k \notin firing' /\ firing' \subseteq firing
         /\ mailed' = mailed \ {k} /\ muted' = {m \in muted : m[1] # k}
PROOF
  <1>1. last' = [last EXCEPT ![k] = "none"] /\ firing' = firing \ {k}
    BY DEF ClearFiring
  <1>2. /\ last'[k] = "none" /\ last' \in [Keys -> {"none", "recent", "old"}]
        /\ \A h \in Keys : h # k => last'[h] = last[h]
    BY <1>1 DEF TypeInv
  <1> QED
    BY <1>1, <1>2 DEF TypeInv, ClearFiring

\* An alert is decided on, or its cooldown runs.
LEMMA RaiseKeeps ==
  ASSUME StateInv, NEW p, NEW s, Judging(p, s), NEW k \in KeysOf(s),
         NEW sev \in Severities \cup {"info"}, Raise(p, s, k, sev),
         s.kind # "svc", UNCHANGED <<fails, acked, history>>
  PROVE  StateInv'
PROOF
  <1>1. TypeInv /\ OutInv /\ QuietInv /\ CountInv /\ MutedInv
    BY DEF StateInv
  <1>2. s \in AllSeries /\ p \in Procs /\ k \in Keys /\ k[1] = s
    BY <1>1, SeriesAll, KeysOfSeries DEF Judging
  <1>3. ShouldAlert(k)
    BY DEF Raise
  <1>4. /\ firing' \subseteq Keys /\ last' \in [Keys -> {"none", "recent", "old"}]
        /\ \A h \in Keys : h \in firing' <=> last'[h] # "none"
        /\ \A h \in Keys : h # k => last'[h] = last[h] /\ (h \in firing' <=> h \in firing)
        /\ last'[k] # "none" /\ firing \subseteq firing'
        /\ last[k] = "recent" => last'[k] = "recent"
    BY <1>1, <1>2, <1>3, ShouldAlertMoves
  <1>5. UNCHANGED <<series, level, enabled, maint, fails, acked, mailed, muted>>
    BY DEF Judging, envVars, history
  <1>6. TypeInv'
    BY <1>1, <1>4, <1>5 DEF TypeInv
  <1>7. CountInv'
    <2>1. ASSUME NEW r \in series, r.kind = "svc", fails[r] < 3 PROVE Key(r) \notin firing'
      <3>1. r \in AllSeries /\ Key(r) \in KeysOf(r)
        BY <1>1, <2>1, SeriesAll, DiskKeys
      <3>2. Key(r) \in Keys /\ Key(r)[1] = r /\ r # s
        BY <2>1, <3>1, KeysOfSeries
      <3>3. Key(r) # k /\ Key(r) \notin firing
        BY <1>1, <1>2, <2>1, <3>2 DEF CountInv
      <3> QED
        BY <1>4, <3>2, <3>3
    <2> QED
      BY <1>5, <2>1 DEF CountInv
  <1>8. MutedInv'
    BY <1>1, <1>4, <1>5 DEF MutedInv, OwnAck
  <1>9. OutInv' /\ QuietInv'
    <2>1. \A h \in mailed' : last'[h] = "recent"
      BY <1>1, <1>4, <1>5 DEF QuietInv, TypeInv
    <2>2. ASSUME NEW q \in Procs, q # p, out[q].type = "alert"
          PROVE  out[q].key \notin mailed' /\ last'[out[q].key] # "none"
      <3>1. out[q] # NoMessage /\ out[q] \in Messages
        BY <1>1, <2>2 DEF NoMessage, OutInv
      <3>2. out[q].key # k /\ out[q].key \in Keys
        BY <1>1, <2>2, <3>1, OtherKey DEF Messages
      <3> QED
        BY <1>1, <1>4, <1>5, <2>2, <3>2 DEF QuietInv
    <2>3. CASE MayAlert(k)
      <3>1. Emit(p, Message("alert", k, sev))
        BY <2>3 DEF Raise
      <3>2. OutInv' /\ out'[p] = Message("alert", k, sev) /\ \A q \in Procs \ {p} : out'[q] = out[q]
        BY <1>1, <3>1, EmitKeepsOut
      <3>3. out'[p].key = k
        BY <3>2, MessageIsNone
      <3>4. k \notin mailed
        BY <1>1, <2>3 DEF QuietInv, MayAlert
      <3>5. QuietInv'
        BY <1>4, <1>5, <2>1, <2>2, <3>2, <3>3, <3>4 DEF QuietInv
      <3> QED
        BY <3>2, <3>5
    <2>4. CASE ~MayAlert(k)
      <3>1. out' = out
        BY <2>4 DEF Raise, Silent
      <3>2. OutInv'
        BY <1>1, <3>1 DEF OutInv
      <3>3. out'[p].type # "alert"
        BY <3>1 DEF Judging, NoMessage
      <3>4. QuietInv'
        BY <2>1, <2>2, <3>1, <3>3 DEF QuietInv
      <3> QED
        BY <3>2, <3>4
    <2> QED
      BY <2>3, <2>4
  <1> QED
    BY <1>6, <1>7, <1>8, <1>9 DEF StateInv
\* A judgement that leaves firing, message and acknowledgements alone.
LEMMA NothingKeeps ==
  ASSUME StateInv, NEW p, NEW s, Judging(p, s),
         UNCHANGED <<firing, last, acked, out, history>>, fails' \in [AllSeries -> 0..4],
         \A r \in series : r.kind = "svc" /\ fails'[r] < 3 => Key(r) \notin firing
  PROVE  StateInv'
PROOF
  <1>1. UNCHANGED <<series, level, enabled, maint, firing, last, acked, out, mailed, muted>>
    BY DEF Judging, envVars, history
  <1>2. TypeInv'
    BY <1>1 DEF StateInv, TypeInv
  <1>3. OutInv' /\ QuietInv'
    BY <1>1 DEF StateInv, OutInv, QuietInv
  <1>4. CountInv' /\ MutedInv'
    BY <1>1 DEF StateInv, CountInv, MutedInv, OwnAck
  <1> QED
    BY <1>2, <1>3, <1>4 DEF StateInv

\* The third failure in a row alerts, whatever the cooldown: the key does
\* not fire yet, so nothing was mailed under it.
LEMMA ThirdFailureKeeps ==
  ASSUME StateInv, NEW p, NEW s, Judging(p, s), s.kind = "svc", fails[s] = 2,
         fails' = [fails EXCEPT ![s] = 3], ShouldAlert(Key(s)),
         Emit(p, Message("alert", Key(s), "critical")), UNCHANGED <<acked, history>>
  PROVE  StateInv'
PROOF
  <1> DEFINE k == Key(s)
  <1>1. TypeInv /\ OutInv /\ QuietInv /\ CountInv /\ MutedInv
    BY DEF StateInv
  <1>2. s \in AllSeries /\ s \in series /\ p \in Procs /\ k \in KeysOf(s)
    BY <1>1, SeriesAll, DiskKeys DEF Judging
  <1>3. k \in Keys /\ k[1] = s
    BY <1>2, KeysOfSeries
  <1>4. k \notin firing /\ k \notin mailed
    <2>1. k \notin firing
      BY <1>1, <1>2 DEF CountInv
    <2>2. last[k] = "none"
      BY <1>1, <1>3, <2>1 DEF TypeInv
    <2> QED
      BY <1>1, <2>1, <2>2 DEF QuietInv
  <1>5. ShouldAlert(k) /\ Emit(p, Message("alert", k, "critical"))
    OBVIOUS
  <1>6. "critical" \in Severities
    BY DEF Severities
  <1> HIDE DEF k
  <1>7. /\ firing' \subseteq Keys /\ last' \in [Keys -> {"none", "recent", "old"}]
        /\ \A h \in Keys : h \in firing' <=> last'[h] # "none"
        /\ \A h \in Keys : h # k => last'[h] = last[h] /\ (h \in firing' <=> h \in firing)
        /\ last'[k] # "none" /\ firing \subseteq firing'
    BY <1>1, <1>3, <1>5, ShouldAlertMoves
  <1>8. UNCHANGED <<series, level, enabled, maint, acked, mailed, muted>>
    BY DEF Judging, envVars, history
  <1>9. fails' \in [AllSeries -> 0..4] /\ fails'[s] = 3 /\ \A r \in AllSeries : r # s => fails'[r] = fails[r]
    BY <1>1, <1>2 DEF TypeInv
  <1>10. TypeInv'
    BY <1>1, <1>7, <1>8, <1>9 DEF TypeInv
  <1>11. CountInv'
    <2>1. ASSUME NEW r \in series, r.kind = "svc", fails'[r] < 3 PROVE Key(r) \notin firing'
      <3>1. r # s
        BY <1>9, <2>1
      <3>2. r \in AllSeries /\ Key(r) \in KeysOf(r)
        BY <1>1, <2>1, SeriesAll, DiskKeys
      <3>3. Key(r) \in Keys /\ Key(r)[1] = r /\ fails'[r] = fails[r]
        BY <1>9, <3>1, <3>2, KeysOfSeries
      <3>4. Key(r) # k /\ Key(r) \notin firing
        BY <1>1, <1>3, <2>1, <3>1, <3>3 DEF CountInv
      <3> QED
        BY <1>7, <3>3, <3>4
    <2> QED
      BY <1>8, <2>1 DEF CountInv
  <1>12. MutedInv'
    BY <1>1, <1>7, <1>8 DEF MutedInv, OwnAck
  <1>13. OutInv' /\ out'[p].key = k /\ \A q \in Procs \ {p} : out'[q] = out[q]
    <2>1. OutInv' /\ out'[p] = Message("alert", k, "critical") /\ \A q \in Procs \ {p} : out'[q] = out[q]
      BY <1>1, <1>2, <1>3, <1>5, <1>6, EmitKeepsOut DEF k
    <2> QED
      BY <2>1, MessageIsNone
  <1>14. QuietInv'
    <2>1. \A h \in mailed' : last'[h] = "recent"
      BY <1>1, <1>4, <1>7, <1>8 DEF QuietInv, TypeInv
    <2>2. ASSUME NEW q \in Procs, q # p, out[q].type = "alert"
          PROVE  out[q].key \notin mailed' /\ last'[out[q].key] # "none"
      <3>1. out[q] # NoMessage /\ out[q] \in Messages
        BY <1>1, <2>2 DEF NoMessage, OutInv
      <3>2. out[q].key # k /\ out[q].key \in Keys
        BY <1>1, <1>2, <2>2, <3>1, OtherKey DEF Messages
      <3> QED
        BY <1>1, <1>7, <1>8, <2>2, <3>2 DEF QuietInv
    <2> QED
      BY <1>4, <1>7, <1>8, <1>13, <2>1, <2>2 DEF QuietInv
  <1> QED
    BY <1>10, <1>11, <1>12, <1>13, <1>14 DEF StateInv
\* A key recovers: its message and its mutings go with it, and of the
\* acknowledgements only those of its series, which no muted key has.
LEMMA ClearKeeps ==
  ASSUME StateInv, NEW p, NEW s, Judging(p, s), NEW k \in KeysOf(s), ClearFiring(k),
         NEW sevs \in SUBSET Severities, ClearAck(s, sevs) \/ UNCHANGED acked,
         Emit(p, Message("recovery", k, "info")) \/ UNCHANGED out,
         fails' \in [AllSeries -> 0..4], \A r \in series : r # s => fails'[r] = fails[r]
  PROVE  StateInv'
PROOF
  <1>1. TypeInv /\ OutInv /\ QuietInv /\ CountInv /\ MutedInv
    BY DEF StateInv
  <1>2. s \in AllSeries /\ s \in series /\ p \in Procs /\ out[p] = NoMessage
    BY <1>1, SeriesAll DEF Judging
  <1>3. k \in Keys /\ k[1] = s /\ (s.kind # "disk" => k = Key(s))
    BY <1>2, KeysOfSeries
  <1>4. /\ firing' \subseteq Keys /\ last' \in [Keys -> {"none", "recent", "old"}]
        /\ \A h \in Keys : h \in firing' <=> last'[h] # "none"
        /\ \A h \in Keys : h # k => last'[h] = last[h] /\ (h \in firing' <=> h \in firing)
        /\ k \notin firing' /\ firing' \subseteq firing
        /\ mailed' = mailed \ {k} /\ muted' = {m \in muted : m[1] # k}
    BY <1>1, <1>3, ClearFiringMoves
  <1>5. UNCHANGED <<series, level, enabled, maint>>
    BY DEF Judging, envVars
  <1>6. acked' \subseteq acked /\ \A a \in acked \ acked' : \E sev \in sevs : a = AckKey(s, sev)
    BY DEF ClearAck
  <1>7. TypeInv'
    BY <1>1, <1>4, <1>5, <1>6 DEF TypeInv
  <1>8. CountInv'
    <2>1. ASSUME NEW r \in series, r.kind = "svc", fails'[r] < 3 PROVE Key(r) \notin firing'
      <3>1. CASE r = s
        BY <1>3, <1>4, <2>1, <3>1
      <3>2. CASE r # s
        BY <1>1, <1>4, <2>1, <3>2 DEF CountInv
      <3> QED
        BY <3>1, <3>2
    <2> QED
      BY <1>5, <2>1 DEF CountInv
  <1>9. MutedInv'
    <2>1. ASSUME NEW m \in muted'
          PROVE  m[1] \in firing' /\ (OwnAck(m[1]) => AckKey(m[1][1], m[2]) \in acked')
      <3>1. /\ m \in muted /\ m[1] # k /\ m[1] \in firing
            /\ OwnAck(m[1]) => AckKey(m[1][1], m[2]) \in acked
        BY <1>1, <1>4 DEF MutedInv
      <3>2. m[1] \in Keys
        BY <1>1, <3>1 DEF TypeInv
      <3>3. m[1] \in firing'
        BY <1>4, <3>1, <3>2
      <3>4. ASSUME OwnAck(m[1]) PROVE AckKey(m[1][1], m[2]) \in acked'
        <4>1. SUFFICES ASSUME NEW sev \in sevs, AckKey(m[1][1], m[2]) = AckKey(s, sev) PROVE FALSE
          BY <1>6, <3>1, <3>4
        <4>2. m[1][1].host = s.host /\ m[1][1].kind = s.kind
          BY <4>1 DEF AckKey
        <4>3. m[1][1] = s /\ s.kind # "disk"
          BY <1>2, <3>4, <4>2 DEF OwnAck
        <4>4. m[1] = Key(s)
          BY <3>2, <4>3, KeyOwner
        <4> QED
          BY <1>3, <3>1, <4>3, <4>4
      <3> QED
        BY <3>1, <3>3, <3>4
    <2> QED
      BY <1>5, <2>1 DEF MutedInv, OwnAck
  <1>10. OutInv' /\ out'[p].type # "alert" /\ \A q \in Procs \ {p} : out'[q] = out[q]
    <2>1. CASE Emit(p, Message("recovery", k, "info"))
      <3>1. OutInv' /\ out'[p] = Message("recovery", k, "info") /\ \A q \in Procs \ {p} : out'[q] = out[q]
        BY <1>1, <2>1, EmitKeepsOut
      <3> QED
        BY <3>1, MessageIsNone
    <2>2. CASE UNCHANGED out
      <3>1. OutInv' /\ \A q \in Procs \ {p} : out'[q] = out[q]
        BY <1>1, <2>2 DEF OutInv
      <3>2. out'[p].type # "alert"
        BY <1>2, <2>2 DEF NoMessage
      <3> QED
        BY <3>1, <3>2
    <2> QED
      BY <2>1, <2>2
  <1>11. QuietInv'
    <2>1. \A h \in mailed' : last'[h] = "recent"
      BY <1>1, <1>4 DEF QuietInv, TypeInv
    <2>2. ASSUME NEW q \in Procs, q # p, out[q].type = "alert"
          PROVE  out[q].key \notin mailed' /\ last'[out[q].key] # "none"
      <3>1. out[q] # NoMessage /\ out[q] \in Messages
        BY <1>1, <2>2 DEF NoMessage, OutInv
      <3>2. out[q].key # k /\ out[q].key \in Keys
        BY <1>1, <1>2, <2>2, <3>1, OtherKey DEF Messages
      <3> QED
        BY <1>1, <1>4, <2>2, <3>2 DEF QuietInv
    <2> QED
      BY <1>10, <2>1, <2>2 DEF QuietInv
  <1> QED
    BY <1>7, <1>8, <1>9, <1>10, <1>11 DEF StateInv

\* A disk falls from critical to warning, or is found at warning.
LEMMA DiskWarnKeeps ==
  ASSUME StateInv, NEW p, NEW s, Judging(p, s), s.kind = "disk", JudgeDisk(p, s, "warn")
  PROVE  StateInv'
PROOF
  <1> DEFINE ck == CritKey(s)
             wk == WarnKey(s)
  <1>1. TypeInv /\ OutInv /\ QuietInv /\ CountInv /\ MutedInv
    BY DEF StateInv
  <1>2. s \in AllSeries /\ s \in series /\ p \in Procs /\ out[p] = NoMessage
    BY <1>1, SeriesAll DEF Judging
  <1>3. ck \in KeysOf(s) /\ wk \in KeysOf(s) /\ ck # wk
    BY DiskKeys
  <1>4. ck \in Keys /\ wk \in Keys /\ ck[1] = s /\ wk[1] = s
    BY <1>2, <1>3, KeysOfSeries
  <1>5. /\ firing' = (firing \ {ck}) \cup {wk}
        /\ last' = [last EXCEPT ![ck] = IF ck \in firing THEN "none" ELSE @,
                                ![wk] = IF MayAlert(wk) THEN "recent" ELSE @]
        /\ mailed' = mailed \ {ck} /\ muted' = {m \in muted : m[1] # ck}
        /\ IF MayAlert(wk) THEN Emit(p, Message("alert", wk, "warning")) ELSE Silent(p)
        /\ UNCHANGED <<acked, fails>>
    BY DEF JudgeDisk
  <1>6. "warning" \in Severities
    BY DEF Severities
  <1> HIDE DEF ck, wk
  <1>7. /\ last'[ck] = "none" /\ last'[wk] = (IF MayAlert(wk) THEN "recent" ELSE last[wk])
        /\ \A h \in Keys : h # ck /\ h # wk => last'[h] = last[h]
        /\ last' \in [Keys -> {"none", "recent", "old"}]
    BY <1>1, <1>3, <1>4, <1>5 DEF TypeInv
  <1>8. last'[wk] # "none" /\ (last[wk] = "recent" => last'[wk] = "recent")
    BY <1>7 DEF MayAlert
  <1>9. UNCHANGED <<series, level, enabled, maint, acked, fails>>
    BY <1>5 DEF Judging, envVars
  <1>10. /\ firing' \subseteq Keys
         /\ \A h \in Keys : h \in firing' <=> last'[h] # "none"
         /\ \A h \in Keys : h # ck /\ h # wk => (h \in firing' <=> h \in firing)
    BY <1>1, <1>3, <1>4, <1>5, <1>7, <1>8 DEF TypeInv
  <1>11. TypeInv'
    BY <1>1, <1>5, <1>7, <1>9, <1>10 DEF TypeInv
  <1>12. CountInv'
    <2>1. ASSUME NEW r \in series, r.kind = "svc", fails[r] < 3 PROVE Key(r) \notin firing'
      <3>1. r \in AllSeries /\ Key(r) \in KeysOf(r) /\ r # s
        BY <1>1, <2>1, SeriesAll, DiskKeys
      <3>2. Key(r) \in Keys /\ Key(r)[1] = r
        BY <3>1, KeysOfSeries
      <3>3. Key(r) # ck /\ Key(r) # wk /\ Key(r) \notin firing
        BY <1>1, <1>4, <2>1, <3>1, <3>2 DEF CountInv
      <3> QED
        BY <1>10, <3>2, <3>3
    <2> QED
      BY <1>9, <2>1 DEF CountInv
  <1>13. MutedInv'
    <2>1. ASSUME NEW m \in muted' PROVE m \in muted /\ m[1] \in firing'
      BY <1>1, <1>5, <2>1 DEF MutedInv
    <2> QED
      BY <1>1, <1>9, <2>1 DEF MutedInv, OwnAck
  <1>14. \A h \in mailed' : last'[h] = "recent"
    <2>1. ASSUME NEW h \in mailed' PROVE last'[h] = "recent"
      <3>1. h \in mailed /\ h # ck /\ h \in Keys /\ last[h] = "recent"
        BY <1>1, <1>5 DEF TypeInv, QuietInv
      <3> QED
        BY <1>7, <1>8, <3>1
    <2> QED
      BY <2>1
  <1>15. ASSUME NEW q \in Procs, q # p, out[q].type = "alert"
         PROVE  out[q].key \notin mailed' /\ last'[out[q].key] # "none"
    <2>1. out[q] # NoMessage /\ out[q] \in Messages
      BY <1>1, <1>15 DEF NoMessage, OutInv
    <2>2. out[q].key # ck /\ out[q].key # wk /\ out[q].key \in Keys
      BY <1>1, <1>2, <1>3, <1>15, <2>1, OtherKey DEF Messages
    <2> QED
      BY <1>1, <1>5, <1>7, <1>15, <2>2 DEF QuietInv
  <1>16. OutInv' /\ QuietInv'
    <2>1. CASE MayAlert(wk)
      <3>1. Emit(p, Message("alert", wk, "warning"))
        BY <1>5, <2>1
      <3>2. OutInv' /\ out'[p] = Message("alert", wk, "warning") /\ \A q \in Procs \ {p} : out'[q] = out[q]
        BY <1>1, <1>3, <1>6, <3>1, EmitKeepsOut
      <3>3. out'[p].key = wk
        BY <3>2, MessageIsNone
      <3>4. wk \notin mailed'
        BY <1>1, <1>5, <2>1 DEF QuietInv, MayAlert
      <3>5. QuietInv'
        BY <1>8, <1>14, <1>15, <3>2, <3>3, <3>4 DEF QuietInv
      <3> QED
        BY <3>2, <3>5
    <2>2. CASE ~MayAlert(wk)
      <3>1. out' = out
        BY <1>5, <2>2 DEF Silent
      <3>2. OutInv'
        BY <1>1, <3>1 DEF OutInv
      <3>3. out'[p].type # "alert"
        BY <1>2, <3>1 DEF NoMessage
      <3>4. QuietInv'
        BY <1>14, <1>15, <3>1, <3>3 DEF QuietInv
      <3> QED
        BY <3>2, <3>4
    <2> QED
      BY <2>1, <2>2
  <1> QED
    BY <1>11, <1>12, <1>13, <1>16 DEF StateInv
\* Recover, whether the key fires or not.
LEMMA RecoverKeeps ==
  ASSUME StateInv, NEW p, NEW s, Judging(p, s), NEW k \in KeysOf(s),
         NEW sevs \in SUBSET Severities, Recover(p, s, k, sevs),
         fails' = fails \/ (s.kind = "svc" /\ fails' = [fails EXCEPT ![s] = 0])
  PROVE  StateInv'
PROOF
  <1>1. s \in AllSeries /\ TypeInv /\ CountInv
    BY SeriesAll DEF Judging, StateInv
  <1>2. fails' \in [AllSeries -> 0..4] /\ \A r \in series : r # s => fails'[r] = fails[r]
    BY <1>1, SeriesAll DEF TypeInv
  <1>3. CASE k \in firing
    <2>1. ClearFiring(k) /\ ClearAck(s, sevs) /\ Emit(p, Message("recovery", k, "info"))
      BY <1>3 DEF Recover
    <2> QED
      BY <1>2, <2>1, ClearKeeps
  <1>4. CASE k \notin firing
    <2>1. UNCHANGED <<firing, last, acked, out, history>>
      BY <1>4 DEF Recover
    <2>2. ASSUME NEW r \in series, r.kind = "svc", fails'[r] < 3 PROVE Key(r) \notin firing
      <3>1. CASE r = s
        BY <1>1, <1>4, <2>2, <3>1, KeysOfSeries
      <3>2. CASE r # s
        BY <1>1, <1>2, <2>2, <3>2 DEF CountInv
      <3> QED
        BY <3>1, <3>2
    <2> QED
      BY <1>2, <2>1, <2>2, NothingKeeps
  <1> QED
    BY <1>3, <1>4

\* A judgement that leaves the counts of failures alone as well.
LEMMA IdleKeeps ==
  ASSUME StateInv, NEW p, NEW s, Judging(p, s),
         UNCHANGED <<firing, last, acked, out, history, fails>>
  PROVE  StateInv'
PROOF
  <1>1. fails' \in [AllSeries -> 0..4]
    BY DEF StateInv, TypeInv
  <1>2. \A r \in series : r.kind = "svc" /\ fails'[r] < 3 => Key(r) \notin firing
    BY DEF StateInv, CountInv
  <1> QED
    BY <1>1, <1>2, NothingKeeps

LEMMA JudgeKeeps ==
  ASSUME StateInv, NEW p, NEW s, Judging(p, s), NEW l \in Levels(s.kind), Judge(p, s, l)
  PROVE  StateInv'
PROOF
  <1>1. s \in AllSeries /\ TypeInv /\ CountInv
    BY SeriesAll DEF Judging, StateInv
  <1>2. s.kind \in {"cpu", "disk", "rapid", "down", "svc", "forecast", "ssl"}
    BY DEF Judging, Kinds
  <1>3. "critical" \in Severities /\ {"critical"} \in SUBSET Severities
        /\ {} \in SUBSET Severities /\ Severities \in SUBSET Severities
    BY DEF Severities
  <1>4. Severity(s, l) \in Severities \cup {"info"}
    BY SeverityType
  <1>5. CASE s.kind \in {"cpu", "down"}
    <2>1. JudgeThreshold(p, s, l) /\ Key(s) \in KeysOf(s) /\ s.kind # "svc"
      BY <1>5, DiskKeys DEF Judge
    <2>2. UNCHANGED fails
      BY <2>1 DEF JudgeThreshold
    <2>3. CASE l = "crit"
      <3>1. Raise(p, s, Key(s), "critical") /\ UNCHANGED <<acked, history>>
        BY <2>1, <2>3 DEF JudgeThreshold
      <3> QED
        BY <1>3, <2>1, <2>2, <3>1, RaiseKeeps
    <2>4. CASE l # "crit"
      <3>1. Recover(p, s, Key(s), {"critical"})
        BY <2>1, <2>4 DEF JudgeThreshold
      <3> QED
        BY <1>3, <2>1, <2>2, <3>1, RecoverKeeps
    <2> QED
      BY <2>3, <2>4
  <1>6. CASE s.kind = "disk"
    <2>1. JudgeDisk(p, s, l) /\ CritKey(s) \in KeysOf(s) /\ WarnKey(s) \in KeysOf(s)
      BY <1>6, DiskKeys DEF Judge
    <2>2. UNCHANGED fails /\ s.kind # "svc" /\ l \in {"ok", "warn", "crit"}
      BY <1>6, <2>1 DEF JudgeDisk, Levels
    <2>3. CASE l = "crit"
      <3>1. Raise(p, s, CritKey(s), "critical") /\ UNCHANGED <<acked, history>>
        BY <2>1, <2>3 DEF JudgeDisk
      <3> QED
        BY <1>3, <2>1, <2>2, <3>1, RaiseKeeps
    <2>4. CASE l = "warn"
      BY <1>6, <2>1, <2>4, DiskWarnKeeps
    <2>5. CASE l = "ok"
      <3> DEFINE k == IF CritKey(s) \in firing THEN CritKey(s) ELSE WarnKey(s)
      <3>1. Recover(p, s, k, Severities)
        BY <2>1, <2>5 DEF JudgeDisk
      <3>2. k \in KeysOf(s)
        BY <2>1
      <3> HIDE DEF k
      <3> QED
        BY <1>3, <2>2, <3>1, <3>2, RecoverKeeps
    <2> QED
      BY <2>2, <2>3, <2>4, <2>5
  <1>7. CASE s.kind \in {"rapid", "forecast"}
    <2>1. Key(s) \in KeysOf(s) /\ s.kind # "svc"
      BY <1>7, DiskKeys
    <2>2. /\ UNCHANGED <<fails, acked, history>>
          /\ UNCHANGED <<firing, last, out>> \/ Raise(p, s, Key(s), Severity(s, l))
      BY <1>7 DEF Judge, JudgeRapid, JudgeForecast
    <2>3. CASE UNCHANGED <<firing, last, out>>
      BY <2>2, <2>3, IdleKeeps
    <2>4. CASE Raise(p, s, Key(s), Severity(s, l))
      BY <1>4, <2>1, <2>2, <2>4, RaiseKeeps
    <2> QED
      BY <2>2, <2>3, <2>4
  <1>8. CASE s.kind = "svc"
    <2>1. JudgeService(p, s, l) /\ Key(s) \in KeysOf(s)
      BY <1>8, DiskKeys DEF Judge
    <2>2. CASE l = "crit"
      <3>1. /\ fails' = [fails EXCEPT ![s] = IF @ < 4 THEN @ + 1 ELSE @]
            /\ IF fails'[s] = 3
               THEN ShouldAlert(Key(s)) /\ Emit(p, Message("alert", Key(s), "critical"))
               ELSE UNCHANGED <<firing, last, out>>
            /\ UNCHANGED <<acked, history>>
        BY <2>1, <2>2 DEF JudgeService
      <3>2. /\ fails[s] \in 0..4 /\ fails'[s] = (IF fails[s] < 4 THEN fails[s] + 1 ELSE fails[s])
            /\ \A r \in AllSeries : r # s => fails'[r] = fails[r]
        BY <1>1, <3>1 DEF TypeInv
      <3>3. CASE fails[s] = 2
        <4>1. fails'[s] = 3 /\ fails' = [fails EXCEPT ![s] = 3]
          BY <3>1, <3>2, <3>3
        <4>2. ShouldAlert(Key(s)) /\ Emit(p, Message("alert", Key(s), "critical"))
          BY <3>1, <4>1
        <4> QED
          BY <1>8, <3>1, <3>3, <4>1, <4>2, ThirdFailureKeeps
      <3>4. CASE fails[s] # 2
        <4>2. fails'[s] # 3
          BY <3>2, <3>4
        <4>3. UNCHANGED <<firing, last, out>>
          BY <3>1, <4>2
        <4>4. fails' \in [AllSeries -> 0..4]
          BY <1>1, <3>1, <3>2 DEF TypeInv
        <4>5. ASSUME NEW r \in series, r.kind = "svc", fails'[r] < 3 PROVE Key(r) \notin firing
          <5>1. fails[r] < 3
            BY <1>1, <3>2, <4>5, SeriesAll
          <5> QED
            BY <1>1, <4>5, <5>1 DEF CountInv
        <4> QED
          BY <3>1, <4>3, <4>4, <4>5, NothingKeeps
      <3> QED
        BY <3>3, <3>4
    <2>3. CASE l # "crit"
      <3>1. Recover(p, s, Key(s), {"critical"}) /\ fails' = [fails EXCEPT ![s] = 0]
        BY <2>1, <2>3 DEF JudgeService
      <3> QED
        BY <1>3, <1>8, <2>1, <3>1, RecoverKeeps
    <2> QED
      BY <2>2, <2>3
  <1>9. CASE s.kind = "ssl"
    <2>1. JudgeCert(p, s, l) /\ Key(s) \in KeysOf(s) /\ s.kind # "svc"
      BY <1>9, DiskKeys DEF Judge
    <2>2. UNCHANGED <<fails, acked>>
      BY <2>1 DEF JudgeCert
    <2>3. CASE l = "ok" /\ Key(s) \in firing
      <3>1. ClearFiring(Key(s)) /\ UNCHANGED out
        BY <2>1, <2>3 DEF JudgeCert, Silent
      <3>2. fails' \in [AllSeries -> 0..4] /\ \A r \in series : r # s => fails'[r] = fails[r]
        BY <1>1, <2>2 DEF TypeInv
      <3> QED
        BY <1>3, <2>1, <2>2, <3>1, <3>2, ClearKeeps
    <2>4. CASE l = "ok" /\ Key(s) \notin firing
      <3>1. UNCHANGED <<firing, last, history, out>>
        BY <2>1, <2>4 DEF JudgeCert, Silent
      <3> QED
        BY <2>2, <3>1, IdleKeeps
    <2>5. CASE l # "ok"
      <3>1. Raise(p, s, Key(s), Severity(s, l)) /\ UNCHANGED history
        BY <2>1, <2>5 DEF JudgeCert
      <3> QED
        BY <1>4, <2>1, <2>2, <3>1, RaiseKeeps
    <2> QED
      BY <2>3, <2>4, <2>5
  <1> QED
    BY <1>2, <1>5, <1>6, <1>7, <1>8, <1>9
-----------------------------------------------------------------------------
(* The rounds.                                                             *)

\* The next stage of a goroutine is one of its own.
LEMMA NextStageType ==
  ASSUME NEW p \in Procs, NEW i \in Nat
  PROVE  NextStage(p, i) = Idle \/ NextStage(p, i) \in 1..Len(Plan[p])
PROOF
  <1> DEFINE later == {j \in Stages(p) : j > i}
  <1>1. Len(Plan[p]) \in 1..6
    BY PlanShape
  <1>2. later \subseteq 1..6 /\ Stages(p) \subseteq 1..Len(Plan[p])
    BY <1>1 DEF Stages
  <1>3. CASE \E j \in Stages(p) : j > i
    <2>1. later # {}
      BY <1>3
    <2>2. \E j \in later : \A h \in later : j <= h
      BY <1>2, <2>1
    <2>3. \E j \in Stages(p) : j > i /\ \A h \in Stages(p) : h > i => j <= h
      BY <2>2
    <2>4. NextStage(p, i) = CHOOSE j \in Stages(p) : j > i /\ \A h \in Stages(p) : h > i => j <= h
      BY <1>3 DEF NextStage
    <2>5. NextStage(p, i) \in Stages(p)
      BY <2>3, <2>4
    <2> QED
      BY <1>2, <2>5
  <1>4. CASE ~\E j \in Stages(p) : j > i
    BY <1>4 DEF NextStage
  <1> QED
    BY <1>3, <1>4

\* What a query answers.
LEMMA ObservedType ==
  ASSUME TypeInv, NEW kind, NEW t \in Observed(kind)
  PROVE  /\ t \in AllSeries \X AllLevels /\ t[1] \in series /\ t[1].kind = kind
         /\ t[2] \in Levels(t[1].kind)
PROOF
  <1>1. PICK s \in series : s.kind = kind /\ t = <<s, level[s]>>
    BY DEF Observed, OfKind
  <1> QED
    BY <1>1, SeriesAll DEF TypeInv

\* A stage begins: with what was observed, or with nothing.
LEMMA BeginStage ==
  ASSUME TypeInv, TodoInv, NEW p \in Procs, NEW n \in 1..Len(Plan[p]),
         stage' = [stage EXCEPT ![p] = n], UNCHANGED series,
         NEW obs \in SUBSET Observed(Plan[p][n]), todo' = [todo EXCEPT ![p] = obs]
  PROVE  TodoInv'
PROOF
  <1>1. obs \subseteq AllSeries \X AllLevels
    BY ObservedType
  <1>2. todo' \in [Procs -> SUBSET (AllSeries \X AllLevels)]
    BY <1>1 DEF TodoInv
  <1>3. Len(Plan[p]) \in Nat
    BY PlanShape
  <1>4. /\ stage' \in [Procs -> Nat] /\ stage'[p] = n
        /\ todo'[p] = obs
        /\ \A q \in Procs \ {p} : stage'[q] = stage[q] /\ todo'[q] = todo[q]
    BY <1>3 DEF TodoInv
  <1>5. \A q \in Procs : stage'[q] <= Len(Plan[q])
    BY <1>3, <1>4 DEF TodoInv
  <1>6. ASSUME NEW q \in Procs, NEW t \in todo'[q]
        PROVE  /\ stage'[q] # Idle /\ t[1] \in series
               /\ t[1].kind = Plan[q][stage'[q]] /\ t[2] \in Levels(t[1].kind)
    <2>1. CASE q = p
      <3>1. t \in Observed(Plan[p][n])
        BY <1>4, <1>6, <2>1
      <3>2. n # Idle
        BY <1>3 DEF Idle
      <3> QED
        BY <1>4, <2>1, <3>1, <3>2, ObservedType
    <2>2. CASE q # p
      BY <1>4, <1>6, <2>2 DEF TodoInv
    <2> QED
      BY <2>1, <2>2
  <1> QED
    BY <1>2, <1>4, <1>5, <1>6 DEF TodoInv

\* A goroutine with nothing at hand may go to any stage of its plan.
LEMMA EmptyStage ==
  ASSUME TodoInv, NEW p \in Procs, NEW n \in 0..Len(Plan[p]), todo[p] = {},
         stage' = [stage EXCEPT ![p] = n], UNCHANGED <<series, todo>>
  PROVE  TodoInv'
PROOF
  <1>1. Len(Plan[p]) \in Nat
    BY PlanShape
  <1>2. stage' \in [Procs -> Nat] /\ stage'[p] = n /\ \A q \in Procs \ {p} : stage'[q] = stage[q]
    BY <1>1 DEF TodoInv
  <1>3. \A q \in Procs : stage'[q] <= Len(Plan[q])
    BY <1>1, <1>2 DEF TodoInv
  <1> QED
    BY <1>2, <1>3 DEF TodoInv

\* An observation is dealt with.
LEMMA LessTodo ==
  ASSUME TodoInv, NEW p \in Procs, NEW t, todo' = [todo EXCEPT ![p] = @ \ {t}],
         UNCHANGED <<series, stage>>
  PROVE  TodoInv'
PROOF
  <1>1. todo' \in [Procs -> SUBSET (AllSeries \X AllLevels)]
    BY DEF TodoInv
  <1>2. \A q \in Procs : todo'[q] \subseteq todo[q]
    BY DEF TodoInv
  <1> QED
    BY <1>1, <1>2 DEF TodoInv
-----------------------------------------------------------------------------
(* The invariant, action by action.                                        *)

\* The steps of the rounds that judge nothing.
LEMMA RoundKeeps ==
  ASSUME Inv, StartRound \/ Advance \/ SkipHost \/ StartCerts \/ EndCerts
  PROVE  Inv'
PROOF
  <1>1. TypeInv /\ TodoInv /\ OutInv /\ QuietInv /\ CountInv /\ MutedInv
    BY DEF Inv
  <1>2. "check" \in Procs /\ "ssl" \in Procs /\ Len(Plan["ssl"]) = 1 /\ Len(Plan["check"]) = 6
        /\ Plan["ssl"][1] = "ssl"
    BY PlanShape
  <1>3. UNCHANGED <<envVars, stateVars, out, history>>
    BY DEF StartRound, Advance, SkipHost, StartCerts, EndCerts
  <1>4. TypeInv' /\ OutInv' /\ QuietInv' /\ CountInv' /\ MutedInv'
    <2>1. TypeInv'
      BY <1>1, <1>3 DEF TypeInv, envVars, stateVars, history
    <2>2. OutInv' /\ QuietInv'
      BY <1>1, <1>3 DEF OutInv, QuietInv, stateVars, history
    <2>3. CountInv' /\ MutedInv'
      BY <1>1, <1>3 DEF CountInv, MutedInv, OwnAck, envVars, stateVars, history
    <2> QED
      BY <2>1, <2>2, <2>3
  <1>5. UNCHANGED series
    BY <1>3 DEF envVars
  <1>6. TodoInv'
    <2>1. CASE StartRound
      <3> DEFINE n == NextStage("check", 0)
      <3>1. /\ n # Idle /\ todo["check"] = {}
            /\ stage' = [stage EXCEPT !["check"] = n]
            /\ \/ todo' = [todo EXCEPT !["check"] = Observed(Plan["check"][n])]
               \/ UNCHANGED todo
        BY <2>1 DEF StartRound, Ready
      <3>2. n \in 1..Len(Plan["check"])
        BY <1>2, <3>1, NextStageType
      <3> HIDE DEF n
      <3>3. CASE todo' = [todo EXCEPT !["check"] = Observed(Plan["check"][n])]
        BY <1>1, <1>2, <1>5, <3>1, <3>2, <3>3, BeginStage
      <3>4. CASE UNCHANGED todo
        <4>1. n \in 0..Len(Plan["check"])
          BY <1>2, <3>2
        <4> QED
          BY <1>1, <1>2, <1>5, <3>1, <3>4, <4>1, EmptyStage
      <3> QED
        BY <3>1, <3>3, <3>4
    <2>2. CASE Advance
      <3> DEFINE n == NextStage("check", stage["check"])
      <3>1. /\ todo["check"] = {}
            /\ stage' = [stage EXCEPT !["check"] = n]
            /\ \/ n # Idle /\ todo' = [todo EXCEPT !["check"] = Observed(Plan["check"][n])]
               \/ UNCHANGED todo
        BY <2>2 DEF Advance, Ready
      <3>2. stage["check"] \in Nat
        BY <1>1, <1>2 DEF TodoInv
      <3>3. n = Idle \/ n \in 1..Len(Plan["check"])
        BY <1>2, <3>2, NextStageType
      <3> HIDE DEF n
      <3>4. CASE n # Idle /\ todo' = [todo EXCEPT !["check"] = Observed(Plan["check"][n])]
        <4>1. n \in 1..Len(Plan["check"])
          BY <3>3, <3>4
        <4> QED
          BY <1>1, <1>2, <1>5, <3>1, <3>4, <4>1, BeginStage
      <3>5. CASE UNCHANGED todo
        <4>1. n \in 0..Len(Plan["check"])
          BY <1>2, <3>3 DEF Idle
        <4> QED
          BY <1>1, <1>2, <1>5, <3>1, <3>5, <4>1, EmptyStage
      <3> QED
        BY <3>1, <3>4, <3>5
    <2>3. CASE SkipHost
      <3>1. PICK t \in todo["check"] : todo' = [todo EXCEPT !["check"] = @ \ {t}]
        BY <2>3 DEF SkipHost
      <3>2. UNCHANGED stage
        BY <2>3 DEF SkipHost
      <3> QED
        BY <1>1, <1>2, <1>5, <3>1, <3>2, LessTodo
    <2>4. CASE StartCerts
      <3>1. stage' = [stage EXCEPT !["ssl"] = 1]
        BY <2>4 DEF StartCerts
      <3>2. PICK read \in SUBSET OfKind("ssl") :
              todo' = [todo EXCEPT !["ssl"] = {t \in Observed("ssl") : t[1] \in read}]
        BY <2>4 DEF StartCerts
      <3> DEFINE obs == {t \in Observed("ssl") : t[1] \in read}
      <3>3. obs \in SUBSET Observed(Plan["ssl"][1])
        BY <1>2
      <3>4. 1 \in 1..Len(Plan["ssl"]) /\ todo' = [todo EXCEPT !["ssl"] = obs]
        BY <1>2, <3>2
      <3> HIDE DEF obs
      <3> QED
        BY <1>1, <1>2, <1>5, <3>1, <3>3, <3>4, BeginStage
    <2>5. CASE EndCerts
      <3>1. stage' = [stage EXCEPT !["ssl"] = 0] /\ todo["ssl"] = {} /\ UNCHANGED todo
        BY <2>5 DEF EndCerts, Ready, Idle
      <3>2. 0 \in 0..Len(Plan["ssl"])
        BY <1>2
      <3> QED
        BY <1>1, <1>2, <1>5, <3>1, <3>2, EmptyStage
    <2> QED
      BY <2>1, <2>2, <2>3, <2>4, <2>5
  <1> QED
    BY <1>4, <1>6 DEF Inv

LEMMA JudgeNextKeeps ==
  ASSUME Inv, NEW p \in Procs, JudgeNext(p)
  PROVE  Inv'
PROOF
  <1>1. TypeInv /\ TodoInv /\ StateInv
    BY DEF Inv, StateInv
  <1>2. PICK t \in todo[p] : Judge(p, t[1], Seen(t)) /\ todo' = [todo EXCEPT ![p] = @ \ {t}]
    BY DEF JudgeNext
  <1>3. out[p] = NoMessage /\ UNCHANGED <<envVars, maint, stage>>
    BY DEF JudgeNext
  <1>4. /\ t[1] \in series /\ t[1].kind = Plan[p][stage[p]] /\ t[2] \in Levels(t[1].kind)
        /\ stage[p] # Idle /\ stage[p] \in Nat /\ stage[p] <= Len(Plan[p])
    BY <1>1, <1>2 DEF TodoInv
  <1>5. t[1].kind \in Kinds(p)
    <2>1. stage[p] \in 1..Len(Plan[p])
      BY <1>4, PlanShape DEF Idle
    <2> QED
      BY <1>4, <2>1, PlanShape
  <1>6. Seen(t) \in Levels(t[1].kind)
    BY <1>1, <1>4 DEF Seen, TypeInv
  <1>7. Judging(p, t[1])
    BY <1>3, <1>4, <1>5 DEF Judging
  <1>8. StateInv'
    BY <1>1, <1>2, <1>6, <1>7, JudgeKeeps
  <1>9. TodoInv'
    <2>1. UNCHANGED <<series, stage>>
      BY <1>3 DEF envVars
    <2> QED
      BY <1>1, <1>2, <2>1, LessTodo
  <1> QED
    BY <1>8, <1>9 DEF Inv, StateInv

\* The gates of sendAlert, and the mail.
LEMMA GateKeeps ==
  ASSUME Inv, NEW p \in Procs, Gate(p)
  PROVE  Inv'
PROOF
  <1>1. TypeInv /\ TodoInv /\ OutInv /\ QuietInv /\ CountInv /\ MutedInv
    BY DEF Inv
  <1> DEFINE m == IF MaySend(out[p]) THEN [out[p] EXCEPT !.at = "send"] ELSE NoMessage
  <1>2. out[p] # NoMessage /\ out' = [out EXCEPT ![p] = m]
    BY DEF Gate
  <1>3. UNCHANGED <<series, level, enabled, firing, last, fails, acked, maint, stage, todo, mailed, muted>>
    BY DEF Gate, envVars, stateVars, history
  <1>4. out[p] \in Messages
    BY <1>1, <1>2 DEF OutInv
  <1>5. m \in Messages \cup {NoMessage}
        /\ (m # NoMessage => m.key = out[p].key /\ m.type = out[p].type)
    BY <1>4 DEF Messages
  <1> HIDE DEF m
  <1>6. /\ out' \in [Procs -> Messages \cup {NoMessage}] /\ out'[p] = m
        /\ \A q \in Procs \ {p} : out'[q] = out[q]
    BY <1>1, <1>2, <1>5 DEF OutInv
  <1>7. OutInv'
    BY <1>1, <1>2, <1>5, <1>6 DEF OutInv
  <1>8. QuietInv'
    <2>1. out'[p].type = "alert" => out'[p].key = out[p].key /\ out[p].type = "alert"
      BY <1>5, <1>6 DEF NoMessage
    <2> QED
      BY <1>1, <1>3, <1>6, <2>1 DEF QuietInv
  <1>9. TypeInv'
    BY <1>1, <1>3 DEF TypeInv
  <1>10. TodoInv' /\ CountInv' /\ MutedInv'
    BY <1>1, <1>3 DEF TodoInv, CountInv, MutedInv, OwnAck
  <1> QED
    BY <1>7, <1>8, <1>9, <1>10 DEF Inv

LEMMA DeliverKeeps ==
  ASSUME Inv, NEW p \in Procs, Deliver(p)
  PROVE  Inv'
PROOF
  <1>1. TypeInv /\ TodoInv /\ OutInv /\ QuietInv /\ CountInv /\ MutedInv
    BY DEF Inv
  <1>2. /\ out[p] # NoMessage /\ out' = [out EXCEPT ![p] = NoMessage]
        /\ mailed' = IF out[p].type = "alert" /\ last[out[p].key] # "old"
                     THEN mailed \cup {out[p].key} ELSE mailed
    BY DEF Deliver, Sending
  <1>3. UNCHANGED <<series, level, enabled, firing, last, fails, acked, maint, stage, todo, muted>>
    BY DEF Deliver, envVars, stateVars
  <1>4. out[p] \in Messages /\ out[p].key \in Keys /\ out[p].key[1].kind \in Kinds(p)
    BY <1>1, <1>2 DEF OutInv, Messages
  <1>5. /\ out' \in [Procs -> Messages \cup {NoMessage}] /\ out'[p] = NoMessage
        /\ \A q \in Procs \ {p} : out'[q] = out[q]
    BY <1>1, <1>2 DEF OutInv
  <1>6. OutInv'
    BY <1>1, <1>5 DEF OutInv
  <1>7. mailed' \subseteq mailed \cup {out[p].key}
    BY <1>2
  <1>8. ASSUME NEW q \in Procs, out'[q].type = "alert"
        PROVE  out'[q].key \notin mailed' /\ last'[out'[q].key] # "none"
    <2>1. q # p
      BY <1>5, <1>8 DEF NoMessage
    <2>2. out'[q] = out[q] /\ out[q] # NoMessage
      BY <1>5, <1>8, <2>1 DEF NoMessage
    <2>3. out[q].key[1].kind \in Kinds(q)
      BY <1>1, <2>2 DEF OutInv
    <2>4. out[q].key # out[p].key
      BY <1>4, <2>1, <2>3, KindsDiffer
    <2> QED
      BY <1>1, <1>3, <1>7, <1>8, <2>2, <2>4 DEF QuietInv
  <1>9. ASSUME NEW h \in mailed' PROVE last'[h] = "recent"
    <2>1. CASE h \in mailed
      BY <1>1, <1>3, <2>1 DEF QuietInv
    <2>2. CASE h \notin mailed
      <3>1. h = out[p].key /\ out[p].type = "alert" /\ last[h] # "old"
        BY <1>2, <1>9, <2>2
      <3>2. last[h] # "none"
        BY <1>1, <3>1 DEF QuietInv
      <3> QED
        BY <1>1, <1>3, <1>4, <3>1, <3>2 DEF TypeInv
    <2> QED
      BY <2>1, <2>2
  <1>10. QuietInv'
    BY <1>8, <1>9 DEF QuietInv
  <1>11. TypeInv'
    BY <1>1, <1>3, <1>4, <1>7 DEF TypeInv
  <1>12. TodoInv' /\ CountInv' /\ MutedInv'
    BY <1>1, <1>3 DEF TodoInv, CountInv, MutedInv, OwnAck
  <1> QED
    BY <1>6, <1>10, <1>11, <1>12 DEF Inv
LEMMA AckKeeps ==
  ASSUME Inv, NEW s \in series, NEW sev \in Severities, AckAlert(AckKey(s, sev))
  PROVE  Inv'
PROOF
  <1>1. TypeInv /\ TodoInv /\ OutInv /\ QuietInv /\ CountInv /\ MutedInv
    BY DEF Inv
  <1> DEFINE a == AckKey(s, sev)
  <1>2. a \in AckKeys
    BY <1>1, SeriesAll DEF AckKeys
  <1>3. /\ acked' = acked \cup {a}
        /\ muted' = muted \cup {m \in firing \X Severities : AckKey(m[1][1], m[2]) = a}
    BY DEF AckAlert
  <1>4. UNCHANGED <<series, level, enabled, firing, last, fails, maint, stage, todo, out, mailed>>
    BY DEF AckAlert, envVars, procVars
  <1> HIDE DEF a
  <1>5. TypeInv'
    <2>1. muted' \subseteq Keys \X Severities /\ acked' \subseteq AckKeys
      BY <1>1, <1>2, <1>3 DEF TypeInv
    <2> QED
      BY <1>1, <1>4, <2>1 DEF TypeInv
  <1>6. MutedInv'
    <2>1. ASSUME NEW m \in muted'
          PROVE  m[1] \in firing /\ (OwnAck(m[1]) => AckKey(m[1][1], m[2]) \in acked')
      <3>1. CASE m \in muted
        BY <1>1, <1>3, <3>1 DEF MutedInv
      <3>2. CASE m \notin muted
        BY <1>3, <2>1, <3>2
      <3> QED
        BY <3>1, <3>2
    <2> QED
      BY <1>4, <2>1 DEF MutedInv, OwnAck
  <1>7. TodoInv' /\ OutInv' /\ QuietInv' /\ CountInv'
    BY <1>1, <1>4 DEF TodoInv, OutInv, QuietInv, CountInv
  <1> QED
    BY <1>5, <1>6, <1>7 DEF Inv

\* The other operator actions, the metrics and the clock.
LEMMA WorldKeeps ==
  ASSUME Inv,
         \/ World
         \/ \E s \in series, on \in BOOLEAN : SetMaintenance(s.host, on)
         \/ \E on \in BOOLEAN : SetConfig(on)
  PROVE  Inv'
PROOF
  <1>1. TypeInv /\ TodoInv /\ OutInv /\ QuietInv /\ CountInv /\ MutedInv
    BY DEF Inv
  <1>2. ASSUME NEW s \in series, NEW on \in BOOLEAN, SetMaintenance(s.host, on) PROVE Inv'
    <2>1. maint' \subseteq maint \cup {s.host} /\ s \in AllSeries
      BY <1>1, <1>2, SeriesAll DEF SetMaintenance
    <2>2. UNCHANGED <<series, level, enabled, firing, last, fails, acked, stage, todo, out, mailed, muted>>
      BY <1>2 DEF SetMaintenance, envVars, procVars, history
    <2>3. maint' \subseteq Hosts
      BY <1>1, <2>1 DEF TypeInv, Hosts
    <2>4. TypeInv'
      BY <1>1, <2>2, <2>3 DEF TypeInv
    <2>5. TodoInv' /\ OutInv' /\ QuietInv' /\ CountInv' /\ MutedInv'
      BY <1>1, <2>2 DEF TodoInv, OutInv, QuietInv, CountInv, MutedInv, OwnAck
    <2> QED
      BY <2>4, <2>5 DEF Inv
  <1>3. ASSUME NEW on \in BOOLEAN, SetConfig(on) PROVE Inv'
    <2>1. enabled' \in BOOLEAN
      BY <1>3 DEF SetConfig
    <2>2. UNCHANGED <<series, level, maint, firing, last, fails, acked, stage, todo, out, mailed, muted>>
      BY <1>3 DEF SetConfig, stateVars, procVars, history
    <2>3. TypeInv'
      BY <1>1, <2>1, <2>2 DEF TypeInv
    <2>4. TodoInv' /\ OutInv' /\ QuietInv' /\ CountInv' /\ MutedInv'
      BY <1>1, <2>2 DEF TodoInv, OutInv, QuietInv, CountInv, MutedInv, OwnAck
    <2> QED
      BY <2>3, <2>4 DEF Inv
  <1>4. ASSUME NEW s \in series, NEW l \in Levels(s.kind), Change(s, l) PROVE Inv'
    <2>1. level' = [level EXCEPT ![s] = l]
      BY <1>4 DEF Change
    <2>2. UNCHANGED <<series, enabled, maint, firing, last, fails, acked, stage, todo, out, mailed, muted>>
      BY <1>4 DEF Change, stateVars, procVars, history
    <2>3. l \in AllLevels
      BY DEF Levels, AllLevels
    <2>4. level' \in [series -> AllLevels] /\ \A r \in series : level'[r] \in Levels(r.kind)
      BY <1>1, <2>1, <2>3 DEF TypeInv
    <2>5. TypeInv'
      BY <1>1, <2>2, <2>4 DEF TypeInv
    <2>6. TodoInv' /\ OutInv' /\ QuietInv' /\ CountInv' /\ MutedInv'
      BY <1>1, <2>2 DEF TodoInv, OutInv, QuietInv, CountInv, MutedInv, OwnAck
    <2> QED
      BY <2>5, <2>6 DEF Inv
  <1>5. ASSUME NEW k \in Keys, CooldownPasses(k) PROVE Inv'
    <2>1. last[k] = "recent" /\ last' = [last EXCEPT ![k] = "old"] /\ mailed' = mailed \ {k}
      BY <1>5 DEF CooldownPasses
    <2>2. UNCHANGED <<series, level, enabled, maint, firing, fails, acked, stage, todo, out, muted>>
      BY <1>5 DEF CooldownPasses, envVars, procVars
    <2>3. /\ last' \in [Keys -> {"none", "recent", "old"}] /\ last'[k] = "old"
          /\ \A h \in Keys : h # k => last'[h] = last[h]
      BY <1>1, <2>1 DEF TypeInv
    <2>4. TypeInv'
      <3>1. \A h \in Keys : h \in firing <=> last'[h] # "none"
        BY <1>1, <2>1, <2>3 DEF TypeInv
      <3> QED
        BY <1>1, <2>1, <2>2, <2>3, <3>1 DEF TypeInv
    <2>5. QuietInv'
      <3>1. \A h \in mailed' : last'[h] = "recent"
        BY <1>1, <2>1, <2>3 DEF QuietInv, TypeInv
      <3>2. ASSUME NEW q \in Procs, out[q].type = "alert"
            PROVE  out[q].key \notin mailed' /\ last'[out[q].key] # "none"
        <4>1. out[q].key \in Keys
          BY <1>1, <3>2 DEF OutInv, Messages, NoMessage
        <4> QED
          BY <1>1, <2>1, <2>3, <3>2, <4>1 DEF QuietInv
      <3> QED
        BY <2>2, <3>1, <3>2 DEF QuietInv
    <2>6. TodoInv' /\ OutInv' /\ CountInv' /\ MutedInv'
      BY <1>1, <2>2 DEF TodoInv, OutInv, CountInv, MutedInv, OwnAck
    <2> QED
      BY <2>4, <2>5, <2>6 DEF Inv
  <1> QED
    BY <1>2, <1>3, <1>4, <1>5 DEF World

\* The invariant is inductive.
LEMMA NextInv == ASSUME Inv, [Next]_vars PROVE Inv'
PROOF
  <1>1. CASE StartRound \/ Advance \/ SkipHost \/ StartCerts \/ EndCerts
    BY <1>1, RoundKeeps
  <1>2. ASSUME NEW p \in Procs, JudgeNext(p) \/ Gate(p) \/ Deliver(p) PROVE Inv'
    BY <1>2, JudgeNextKeeps, GateKeeps, DeliverKeeps
  <1>3. ASSUME NEW s \in series, NEW sev \in Severities, AckAlert(AckKey(s, sev)) PROVE Inv'
    BY <1>3, AckKeeps
  <1>4. CASE World \/ \E s \in series, on \in BOOLEAN : SetMaintenance(s.host, on)
    BY <1>4, WorldKeeps
  <1>5. ASSUME NEW on \in BOOLEAN, SetConfig(on) PROVE Inv'
    BY <1>5, WorldKeeps
  <1>6. CASE UNCHANGED vars
    <2>1. UNCHANGED <<series, level, enabled, firing, last, fails, acked, maint, stage, todo, out,
                      mailed, muted>>
      BY <1>6 DEF vars, envVars, stateVars, procVars, history
    <2> QED
      BY <2>1 DEF Inv, TypeInv, TodoInv, OutInv, QuietInv, CountInv, MutedInv, OwnAck
  <1>7. CASE Next
    BY <1>1, <1>2, <1>3, <1>4, <1>5, <1>7 DEF Next, Operator
  <1> QED
    BY <1>6, <1>7

LEMMA InvAlways == Spec => []Inv
PROOF
  <1>1. Init => Inv
    BY InitInv
  <1>2. Inv /\ [Next]_vars => Inv'
    BY NextInv
  <1> QED
    BY <1>1, <1>2, PTL DEF Spec

-----------------------------------------------------------------------------
(* What follows.                                                           *)

\* A goroutine that judges writes no message but its own.
LEMMA JudgeNextEmits ==
  ASSUME Inv, NEW p \in Procs, JudgeNext(p)
  PROVE  out' = out \/ \E m : out' = [out EXCEPT ![p] = m]
PROOF
  <1>1. PICK t \in todo[p] : Judge(p, t[1], Seen(t))
    BY DEF JudgeNext
  <1> DEFINE s == t[1]
             l == Seen(t)
             Said == out' = out \/ \E m : out' = [out EXCEPT ![p] = m]
  <1>2. s.kind \in Kinds(p) /\ l \in Levels(s.kind)
    <2>1. /\ s \in series /\ s.kind = Plan[p][stage[p]] /\ t[2] \in Levels(s.kind)
          /\ stage[p] \in 1..Len(Plan[p])
      BY PlanShape DEF Inv, TodoInv, Idle
    <2>2. s.kind \in Kinds(p)
      BY <2>1, PlanShape
    <2> QED
      BY <2>1, <2>2 DEF Seen, Inv, TypeInv
  <1>3. s.kind \in {"cpu", "disk", "rapid", "down", "svc", "forecast", "ssl"}
    BY <1>2 DEF Kinds
  <1>4. Judge(p, s, l)
    BY <1>1
  <1> HIDE DEF s, l
  <1>5. ASSUME NEW k, NEW sev, Raise(p, s, k, sev) PROVE Said
    BY <1>5 DEF Raise, Emit, Silent
  <1>6. ASSUME NEW k, NEW sevs, Recover(p, s, k, sevs) PROVE Said
    BY <1>6 DEF Recover, Emit
  <1>7. CASE s.kind \in {"cpu", "down"}
    <2>1. Raise(p, s, Key(s), "critical") \/ Recover(p, s, Key(s), {"critical"})
      BY <1>4, <1>7 DEF Judge, JudgeThreshold
    <2> QED
      BY <1>5, <1>6, <2>1
  <1>8. CASE s.kind = "disk"
    <2>1. JudgeDisk(p, s, l) /\ l \in {"ok", "warn", "crit"}
      BY <1>2, <1>4, <1>8 DEF Judge, Levels
    <2>2. CASE l = "crit"
      BY <1>5, <2>1, <2>2 DEF JudgeDisk
    <2>3. CASE l = "warn"
      BY <2>1, <2>3 DEF JudgeDisk, Emit, Silent
    <2>4. CASE l = "ok"
      BY <1>6, <2>1, <2>4 DEF JudgeDisk
    <2> QED
      BY <2>1, <2>2, <2>3, <2>4
  <1>9. CASE s.kind \in {"rapid", "forecast"}
    BY <1>4, <1>5, <1>9 DEF Judge, JudgeRapid, JudgeForecast
  <1>10. CASE s.kind = "svc"
    <2>1. JudgeService(p, s, l)
      BY <1>4, <1>10 DEF Judge
    <2> QED
      BY <1>6, <2>1 DEF JudgeService, Emit
  <1>11. CASE s.kind = "ssl"
    <2>1. JudgeCert(p, s, l)
      BY <1>4, <1>11 DEF Judge
    <2> QED
      BY <1>5, <2>1 DEF JudgeCert, Silent
  <1> QED
    BY <1>3, <1>7, <1>8, <1>9, <1>10, <1>11

\* State.firing and State.lastAlertAt always know the same keys, and what
\* the goroutines hold belongs to their rounds (state.go:32-56).
THEOREM TypeCorrect == Spec => []TypeOK
PROOF
  <1>1. Inv => TypeOK
    <2> SUFFICES ASSUME Inv PROVE TypeOK
      OBVIOUS
    <2>1. TypeInv /\ TodoInv /\ OutInv
      BY DEF Inv
    <2>2. firing = {k \in Keys : last[k] # "none"}
      BY <2>1 DEF TypeInv
    <2>3. \A p \in Procs : stage[p] \in 0..Len(Plan[p])
      BY <2>1, PlanShape DEF TodoInv
    <2>4. \A p \in Procs : \A t \in todo[p] :
            t[1] \in series /\ t[1].kind = Plan[p][stage[p]] /\ t[2] \in Levels(t[1].kind)
      BY <2>1 DEF TodoInv
    <2>5. \A p \in Procs : out[p] # NoMessage =>
            /\ out[p].type \in {"alert", "recovery"}
            /\ out[p].key \in Keys /\ out[p].sev \in Severities \cup {"info"}
            /\ out[p].at \in {"gate", "send"}
      BY <2>1 DEF OutInv, Messages
    <2> QED
      BY <2>1, <2>2, <2>3, <2>4, <2>5 DEF TypeOK, TypeInv
  <1> QED
    BY <1>1, InvAlways, PTL

\* No key is mailed twice within its cooldown, however the rounds, the
\* operators, the clock and the metrics interleave.
THEOREM CooldownKeptQuiet == Spec => QuietWithinCooldown
PROOF
  <1>1. Inv => \A p \in Procs :
          Sending(p) /\ out'[p] = NoMessage /\ out[p].type = "alert" => out[p].key \notin mailed
    BY DEF Inv, QuietInv
  <1> QED
    BY <1>1, InvAlways, PTL DEF QuietWithinCooldown

\* What was acknowledged while it fired is not sent again before it ends.
THEOREM AcknowledgedIsMuted == Spec => AckMutesIncident
PROOF
  <1>1. ASSUME Inv, [Next]_vars, NEW p \in Procs, ~Sending(p), Sending(p)', out[p].type = "alert",
               OwnAck(out[p].key), <<out[p].key, out[p].sev>> \in muted
        PROVE  FALSE
    <2>1. TypeInv /\ OutInv /\ MutedInv
      BY <1>1 DEF Inv
    <2>2. out[p] # NoMessage /\ out[p] \in Messages
      BY <1>1, <2>1 DEF OutInv, NoMessage
    <2>3. out'[p] # out[p]
      BY <1>1 DEF Sending
    <2>4. Gate(p)
      <3>1. ~(StartRound \/ Advance \/ SkipHost \/ StartCerts \/ EndCerts \/ Operator \/ World)
        BY <2>3 DEF StartRound, Advance, SkipHost, StartCerts, EndCerts, Operator, World, AckAlert,
                    SetMaintenance, SetConfig, Change, CooldownPasses, procVars
      <3>2. ASSUME NEW q \in Procs, Deliver(q) PROVE FALSE
        <4>1. out' = [out EXCEPT ![q] = NoMessage]
          BY <3>2 DEF Deliver
        <4>2. out'[p] = out[p] \/ out'[p] = NoMessage
          BY <2>1, <4>1 DEF OutInv
        <4> QED
          BY <1>1, <2>3, <4>2 DEF Sending
      <3>3. ASSUME NEW q \in Procs, Gate(q), q # p PROVE FALSE
        <4>1. out'[p] = out[p]
          BY <2>1, <3>3 DEF Gate, OutInv
        <4> QED
          BY <2>3, <4>1
      <3>4. ASSUME NEW q \in Procs, JudgeNext(q) PROVE FALSE
        <4>1. out[q] = NoMessage /\ q # p
          BY <2>2, <3>4 DEF JudgeNext
        <4>2. out' = out \/ \E m : out' = [out EXCEPT ![q] = m]
          BY <1>1, <3>4, JudgeNextEmits
        <4> QED
          BY <2>1, <2>3, <4>1, <4>2 DEF OutInv
      <3>5. ~UNCHANGED vars
        BY <2>3 DEF vars, procVars
      <3> QED
        BY <1>1, <3>1, <3>2, <3>3, <3>4, <3>5 DEF Next
    <2>5. MaySend(out[p])
      BY <1>1, <2>1, <2>4 DEF Gate, Sending, OutInv
    <2>6. out[p].sev \in Severities /\ AckKey(out[p].key[1], out[p].sev) \in acked
      BY <1>1, <2>1, <2>2 DEF MutedInv, TypeInv
    <2>7. out[p].sev # "info"
      BY <2>6 DEF Severities
    <2> QED
      BY <2>5, <2>6, <2>7 DEF MaySend, AckKeyOf
  <1>2. Inv /\ [Next]_vars => \A p \in Procs :
          ~Sending(p) /\ Sending(p)' /\ out[p].type = "alert" /\ OwnAck(out[p].key)
            => <<out[p].key, out[p].sev>> \notin muted
    BY <1>1
  <1> QED
    BY <1>2, InvAlways, PTL DEF Spec, AckMutesIncident
=============================================================================
