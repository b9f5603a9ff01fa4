--------------------------- MODULE EditPagesProofs ---------------------------
(***************************************************************************)
(* Proofs about EditPages, for every page, any keys and any number of      *)
(* gestures, changes by others and failures.                               *)
(*                                                                         *)
(* The argument.  Whatever the page holds - answers of its queries, forms, *)
(* the row it asks about, calls under way - was true of the tables once    *)
(* and says how it may have aged (CopyOK, CallOK, DeleteOK).  A change of  *)
(* the tables gives the rows it writes a new number and leaves the others  *)
(* as they are (Moves), so that none of this is lost (the lemmas           *)
(* ...Stays); every other step changes what one of the parts holds.        *)
(***************************************************************************)
EXTENDS EditPages, SequenceTheorems, WellFoundedInduction, TLAPS

-----------------------------------------------------------------------------
(* The types of what the variables hold.                                   *)

Dos == {"insert", "update", "upsert", "remove", "toggle", "probe", "enter", "leave"}
Whats == Slots \cup {"toggle", "check", "probe", "delete"}
Fetches == {"idle", "asked", "read"}
Answers == {"asked", "ok", "refused", "refetch"}
Names == Keys \cup {"none"}

RowSet == [key : Keys, ver : Nat, by : Nat]
TableSet == UNION {[D -> RowSet] : D \in SUBSET Nat}
CallSet == [do : Dos, on : Tables, id : Nat, key : Names, old : Names, base : Nat, known : Nat]
QuerySet == [data : TableSet, asOf : Nat, loaded : BOOLEAN, failed : BOOLEAN,
             joined : BOOLEAN, fetch : Fetches, snap : TableSet, snapAt : Nat]
FormSet == [n : Nat, calls : Seq(CallSet)]
TargetSet == [id : Nat, key : Keys, mon : Nat, aim : Nat]
OpSet == [what : Whats, form : Nat, calls : Seq(CallSet), key : Keys, aim : Nat,
          at : Answers, ver : [Tables -> Nat], waits : SUBSET Tables, since : Nat]

-----------------------------------------------------------------------------
(* The inductive invariant: the server and what the page has of it.        *)

\* Rows are numbered by the changes that created and last wrote them.
InTable(t) ==
  /\ t \in TableSet /\ DOMAIN t \subseteq 1..changes
  /\ \A i \in DOMAIN t : t[i].ver \in i..changes /\ t[i].by <= gestures

UniqueKeys(t) == \A i, j \in DOMAIN t : t[i].key = t[j].key => i = j

\* A website and a check keep their domain as long as they exist.
KeyKept(t, i, k) == i \in DOMAIN db[t] => db[t][i].key = k

DbOK ==
  /\ DOMAIN db = Tables /\ \A t \in Tables : InTable(db[t])
  /\ page = "assets" => UniqueKeys(db["rows"])

\* d is table t as it was after change number n: what was not written since
\* then is in it as it is.
CopyOK(t, d, n) ==
  /\ InTable(d) /\ n \in 0..changes
  /\ \A i \in DOMAIN db[t] : db[t][i].ver <= n => i \in DOMAIN d /\ d[i] = db[t][i]
  /\ page = "websites" => \A i \in DOMAIN d : KeyKept(t, i, d[i].key)
  /\ page = "assets" /\ t = "rows" => UniqueKeys(d)

QueryOK(t, r) ==
  r \in QuerySet /\ CopyOK(t, r.data, r.asOf) /\ CopyOK(t, r.snap, r.snapAt)

\* Version v of a row is one the form should have had, and has not.
Missed(c, v) == c.base < v /\ v <= c.known

\* What a call, in a form or on its way, knows of the row it is aimed at.
CallOK(c) ==
  /\ c \in CallSet /\ c.id <= changes /\ c.known <= changes
  /\ c.do = "upsert" => page = "assets"
  /\ c.do \in {"enter", "leave"} => page = "overview"
  /\ c.do \in {"upsert", "enter", "leave"} => c.on = "rows"
  /\ page = "assets" => c.do \in {"upsert", "remove"}
  /\ c.do = "update" =>
       /\ c.key \in Keys
       /\ c.id \in DOMAIN db[c.on] => ~Missed(c, db[c.on][c.id].ver)
       /\ page = "websites" => KeyKept(c.on, c.id, c.key)
  /\ c.do = "upsert" => \A i \in IdsOf(db["rows"], c.old) : ~Missed(c, db["rows"][i].ver)

FormOK(s, f) ==
  /\ f \in FormSet /\ (f = NoForm \/ f.n \in 1..gestures) /\ Len(f.calls) <= 2
  /\ \A j \in DOMAIN f.calls :
       /\ CallOK(f.calls[j]) /\ f.calls[j].do \in {"insert", "update", "upsert"}
       /\ page = "websites" => f.calls[j].do = (IF s = "edit" THEN "update" ELSE "insert")

TargetOK(g) ==
  \/ g = NoTarget
  \/ /\ g \in TargetSet /\ g.id \in 1..changes /\ g.mon <= changes /\ g.mon = g.aim
     /\ page = "websites" => KeyKept("rows", g.id, g.key)

\* The deletion of a website, then of the check its dialog was aimed at.
DeleteOK(op) ==
  /\ \A j \in DOMAIN op.calls :
       /\ op.calls[j].do = "remove"
       /\ op.calls[j].on = "rows" => KeyKept("rows", op.calls[j].id, op.key)
       /\ op.calls[j].on = "mons" => op.calls[j].id = op.aim
  /\ Len(op.calls) = 2 => op.calls[1].on = "rows" /\ op.calls[2].on = "mons"
  /\ Len(op.calls) = 1 /\ op.calls[1].on = "rows" => op.aim = 0
  /\ Len(op.calls) = 1 /\ op.calls[1].on = "mons" /\ op.at = "ok" => op.aim \notin DOMAIN db["mons"]

WebsiteOp(op) ==
  /\ op.what \in {"check", "probe"} =>
       op.ver["rows"] = 0 /\ \A j \in DOMAIN op.calls : op.calls[j].on = "mons"
  /\ \A j \in DOMAIN op.calls : /\ op.calls[j].do = "insert" => op.calls[j].key = op.key
                                /\ op.calls[j].do = "remove" => op.what = "delete"
  /\ op.what = "delete" => DeleteOK(op)

OpOK(n, op) ==
  /\ op \in OpSet /\ op.form <= n /\ op.since <= changes
  /\ op.what \in Slots => op.form # 0
  /\ \A t \in Tables : op.ver[t] <= changes
  /\ Len(op.calls) <= 2
  /\ op.at \in {"asked", "refused"} => op.calls # << >>
  /\ op.at = "refetch" => op.calls = << >>
  /\ \A j \in DOMAIN op.calls :
       /\ CallOK(op.calls[j])
       /\ op.calls[j].do \notin {"remove", "toggle", "probe"} => op.calls[j].key \in Keys
  /\ page = "websites" => WebsiteOp(op)

CountsOK ==
  /\ scene \in Scenes /\ changes \in Nat
  /\ gestures \in 0..scene.gestures /\ others \in 0..scene.others /\ faults \in 0..scene.faults
  /\ lastMon \in 0..gestures

QueriesOK == DOMAIN q = Tables /\ \A t \in Tables : QueryOK(t, q[t])
FormsOK == DOMAIN form = Slots /\ \A s \in Slots : FormOK(s, form[s])
OpsOK == DOMAIN ops \subseteq 1..gestures /\ \A n \in DOMAIN ops : OpOK(n, ops[n])

BaseInv == CountsOK /\ DbOK /\ QueriesOK /\ FormsOK /\ TargetOK(target) /\ OpsOK

-----------------------------------------------------------------------------
(* Small facts about the data.                                             *)

LEMMA SceneFacts ==
  ASSUME NEW s \in Scenes
  PROVE  s.page \in AllPages /\ s.gestures \in Nat /\ s.others \in Nat /\ s.faults \in Nat
BY ScenesAssumption

LEMMA TableFacts ==
  ASSUME NEW t \in TableSet
  PROVE  DOMAIN t \subseteq Nat /\ \A i \in DOMAIN t : t[i] \in RowSet
<1>1. PICK D \in SUBSET Nat : t \in [D -> RowSet]
  BY DEF TableSet
<1> QED
  BY <1>1

LEMMA IntoTable ==
  ASSUME NEW D \in SUBSET Nat, NEW t \in [D -> RowSet]
  PROVE  t \in TableSet
BY DEF TableSet

LEMMA EmptyIsTable == EmptyTable \in TableSet /\ DOMAIN EmptyTable = {}
<1>1. EmptyTable \in [{} -> RowSet]
  BY DEF EmptyTable
<1> QED
  BY <1>1, IntoTable

LEMMA MinFact ==
  ASSUME NEW S \in SUBSET Nat, S # {}
  PROVE  Min(S) \in S
<1>1. PICK x \in S : \A y \in S : ~(<<y, x>> \in OpToRel(<, Nat))
  BY NatLessThanWellFounded, WFMin, Zenon
<1>2. ASSUME NEW y \in S, y < x PROVE <<y, x>> \in OpToRel(<, Nat)
  BY <1>2, Zenon DEF OpToRel
<1>3. \A y \in S : ~(y < x)
  BY <1>1, <1>2, Zenon
<1>4. \A y \in S : x <= y
  BY <1>3
<1> QED
  BY <1>4 DEF Min

LEMMA MaxFact ==
  ASSUME NEW a \in Nat, NEW b \in Nat
  PROVE  Max({a, b}) = IF a >= b THEN a ELSE b
<1>1. \E x \in {a, b} : \A y \in {a, b} : x >= y
  OBVIOUS
<1> QED
  BY <1>1 DEF Max

LEMMA CallFacts ==
  ASSUME NEW do \in Dos, NEW on \in Tables, NEW id \in Nat
  PROVE  /\ Call(do, on, id) \in CallSet
         /\ Call(do, on, id).do = do /\ Call(do, on, id).on = on /\ Call(do, on, id).id = id
         /\ Call(do, on, id).key = "none" /\ Call(do, on, id).known = 0 /\ Call(do, on, id).base = 0
BY DEF Call, CallSet, Names

LEMMA OneOrTwo ==
  ASSUME NEW S, NEW a \in S, NEW s \in Seq(S), Len(s) <= 1
  PROVE  /\ <<a>> \o s \in Seq(S) /\ Len(<<a>> \o s) = 1 + Len(s) /\ (<<a>> \o s)[1] = a
         /\ Len(s) = 1 => (<<a>> \o s)[2] = s[1]
OBVIOUS

-----------------------------------------------------------------------------
(* How the tables change, and what stays true of older copies.             *)

\* The server's tables in a step: a row that is written has the number of
\* the change, and only a new row has a new id.
Moves ==
  /\ scene' = scene /\ changes \in Nat /\ changes' \in {changes, changes + 1}
  /\ gestures \in Nat /\ gestures' \in Nat /\ gestures <= gestures'
  /\ \A t \in Tables : \A i \in DOMAIN db'[t] :
       /\ \/ i \in DOMAIN db[t] /\ db'[t][i] = db[t][i]
          \/ changes' = changes + 1 /\ db'[t][i].ver = changes'
       /\ i \in DOMAIN db[t] \/ (i = changes + 1 /\ changes' = changes + 1)
       /\ page = "websites" /\ i \in DOMAIN db[t] => db'[t][i].key = db[t][i].key

LEMMA NoMove ==
  ASSUME CountsOK, DbOK, UNCHANGED <<scene, db, changes>>, gestures' \in {gestures, gestures + 1}
  PROVE  Moves /\ DbOK'
<1>1. gestures \in Nat /\ changes \in Nat
  BY SceneFacts DEF CountsOK
<1>2. Moves
  BY <1>1 DEF Moves
<1>3. ASSUME NEW t \in Tables PROVE InTable(db[t])'
  <2>1. InTable(db[t]) /\ \A i \in DOMAIN db[t] : db[t][i] \in RowSet
    BY TableFacts DEF DbOK, InTable
  <2> QED
    BY <1>1, <2>1 DEF InTable, RowSet
<1>4. page' = page /\ UniqueKeys(db["rows"])' = UniqueKeys(db["rows"])
  BY DEF page, UniqueKeys
<1> QED
  BY <1>2, <1>3, <1>4 DEF DbOK

LEMMA KeyStays ==
  ASSUME Moves, page = "websites", NEW t \in Tables, NEW i \in Nat, i <= changes, NEW k,
         KeyKept(t, i, k)
  PROVE  KeyKept(t, i, k)'
BY DEF KeyKept, Moves

LEMMA CopyStays ==
  ASSUME Moves, NEW t \in Tables, NEW d, NEW n, CopyOK(t, d, n)
  PROVE  CopyOK(t, d, n)'
<1>1. page' = page
  BY DEF Moves, page
<1>2. n \in 0..changes /\ n \in 0..changes'
  BY DEF CopyOK, Moves
<1>3. InTable(d)'
  <2>1. \A i \in DOMAIN d : d[i] \in RowSet
    BY TableFacts DEF CopyOK, InTable
  <2> QED
    BY <2>1 DEF CopyOK, InTable, Moves, RowSet
<1>4. ASSUME NEW i \in DOMAIN db'[t], db'[t][i].ver <= n
      PROVE  i \in DOMAIN d /\ d[i] = db'[t][i]
  BY <1>2, <1>4 DEF Moves, CopyOK
<1>5. ASSUME page = "websites", NEW i \in DOMAIN d PROVE KeyKept(t, i, d[i].key)'
  <2>1. i \in Nat /\ i <= changes /\ KeyKept(t, i, d[i].key)
    BY <1>5 DEF CopyOK, InTable, Moves
  <2> QED
    BY <1>5, <2>1, KeyStays
<1>6. page = "assets" /\ t = "rows" => UniqueKeys(d)'
  BY DEF CopyOK, UniqueKeys
<1> QED
  BY <1>1, <1>2, <1>3, <1>4, <1>5, <1>6 DEF CopyOK

LEMMA QueryStays ==
  ASSUME Moves, NEW t \in Tables, NEW r, QueryOK(t, r)
  PROVE  QueryOK(t, r)'
BY CopyStays DEF QueryOK

LEMMA CallStays ==
  ASSUME Moves, NEW c, CallOK(c)
  PROVE  CallOK(c)'
<1>1. page' = page /\ c \in CallSet /\ c.on \in Tables /\ c.id \in Nat /\ c.known \in Nat
      /\ c.base \in Nat /\ c.id <= changes /\ c.known <= changes
  BY DEF Moves, page, CallOK, CallSet
<1>2. c.id <= changes' /\ c.known <= changes' /\ changes \in Nat /\ changes' \in Nat
  BY <1>1 DEF Moves
<1>3. ASSUME c.do = "update", c.id \in DOMAIN db'[c.on]
      PROVE  ~Missed(c, db'[c.on][c.id].ver)
  BY <1>1, <1>3 DEF Moves, Missed, CallOK
<1>4. ASSUME c.do = "update", page = "websites" PROVE KeyKept(c.on, c.id, c.key)'
  BY <1>1, <1>4, KeyStays DEF CallOK
<1>5. ASSUME c.do = "upsert", NEW i \in IdsOf(db'["rows"], c.old)
      PROVE  ~Missed(c, db'["rows"][i].ver)
  <2>1. "rows" \in Tables
    BY DEF Tables
  <2>2. CASE db'["rows"][i].ver = changes + 1
    BY <1>1, <2>2 DEF Missed, Moves
  <2>3. CASE i \in DOMAIN db["rows"] /\ db'["rows"][i] = db["rows"][i]
    BY <1>5, <2>3 DEF IdsOf, CallOK
  <2> QED
    BY <2>1, <2>2, <2>3, <1>5 DEF Moves, IdsOf
<1>6. \A v : Missed(c, v)' <=> Missed(c, v)
  BY DEF Missed
<1> QED
  BY <1>1, <1>2, <1>3, <1>4, <1>5, <1>6 DEF CallOK, IdsOf, Missed

LEMMA FormStays ==
  ASSUME Moves, NEW s \in Slots, NEW f, FormOK(s, f)
  PROVE  FormOK(s, f)'
<1>1. page' = page /\ (f = NoForm \/ f.n \in 1..gestures')
  BY DEF Moves, page, FormOK
<1> QED
  BY <1>1, CallStays DEF FormOK

LEMMA TargetStays ==
  ASSUME Moves, NEW g, TargetOK(g)
  PROVE  TargetOK(g)'
<1>1. page' = page /\ "rows" \in Tables
  BY DEF Moves, page, Tables
<1>2. ASSUME g # NoTarget PROVE g.id \in 1..changes' /\ g.mon <= changes'
  BY <1>2 DEF TargetOK, Moves, TargetSet
<1>3. ASSUME g # NoTarget, page = "websites" PROVE KeyKept("rows", g.id, g.key)'
  BY <1>1, <1>3, KeyStays DEF TargetOK, Moves
<1> QED
  BY <1>1, <1>2, <1>3 DEF TargetOK

LEMMA OpStays ==
  ASSUME Moves, NEW n, NEW op, OpOK(n, op)
  PROVE  OpOK(n, op)'
<1>1. /\ page' = page /\ Tables = {"rows", "mons"}
      /\ op.calls \in Seq(CallSet) /\ op.since \in Nat /\ op.ver \in [Tables -> Nat]
      /\ changes \in Nat /\ changes' \in Nat /\ changes <= changes'
  BY DEF Moves, page, OpOK, OpSet, Tables
<1>2. \A j \in DOMAIN op.calls : CallOK(op.calls[j])'
  BY CallStays DEF OpOK
<1>3. ASSUME page = "websites", op.what = "delete" PROVE DeleteOK(op)'
  <2>1. DeleteOK(op)
    BY <1>3 DEF OpOK, WebsiteOp
  <2>2. ASSUME NEW j \in DOMAIN op.calls, op.calls[j].on = "rows"
        PROVE  KeyKept("rows", op.calls[j].id, op.key)'
    <3>1. KeyKept("rows", op.calls[j].id, op.key)
      BY <2>1, <2>2 DEF DeleteOK
    <3>2. op.calls[j].id \in Nat /\ op.calls[j].id <= changes
      BY DEF OpOK, CallOK, CallSet
    <3> QED
      BY <1>1, <1>3, <3>1, <3>2, KeyStays
  <2>3. ASSUME Len(op.calls) = 1, op.calls[1].on = "mons", op.at = "ok"
        PROVE  op.aim \notin DOMAIN db'["mons"]
    <3>1. 1 \in DOMAIN op.calls
      BY <1>1, <2>3
    <3>2. op.aim \in Nat /\ op.aim <= changes
      BY <2>1, <2>3, <3>1 DEF DeleteOK, OpOK, CallOK, CallSet
    <3> QED
      BY <1>1, <2>1, <2>3, <3>2 DEF DeleteOK, Moves
  <2> QED
    BY <2>1, <2>2, <2>3 DEF DeleteOK
<1>4. ASSUME page = "websites" PROVE WebsiteOp(op)'
  BY <1>3, <1>4 DEF WebsiteOp, OpOK
<1> QED
  BY <1>1, <1>2, <1>4 DEF OpOK

\* What a step leaves alone.
LEMMA QueriesStay == ASSUME Moves, QueriesOK, q' = q PROVE QueriesOK'
<1>1. \A t \in Tables : QueryOK(t, q[t])'
  BY QueryStays DEF QueriesOK
<1> QED
  BY <1>1 DEF QueriesOK

LEMMA FormsStay == ASSUME Moves, FormsOK, form' = form PROVE FormsOK'
<1>1. \A s \in Slots : FormOK(s, form[s])'
  BY FormStays DEF FormsOK
<1> QED
  BY <1>1 DEF FormsOK

LEMMA OpsStay == ASSUME Moves, OpsOK, ops' = ops PROVE OpsOK'
<1>1. \A n \in DOMAIN ops : OpOK(n, ops[n])'
  BY OpStays DEF OpsOK
<1>2. DOMAIN ops' \subseteq 1..gestures'
  BY DEF OpsOK, Moves
<1> QED
  BY <1>1, <1>2 DEF OpsOK

-----------------------------------------------------------------------------
(* What a call does to the tables.                                         *)

\* Row i of the table after a call: as it was, new, or written anew.
Unwritten(c, i, r) == i \in DOMAIN db[c.on] /\ r = db[c.on][i]
Created(c, by, i, r) ==
  /\ i = changes + 1 /\ r = Row(c.key, changes + 1, by)
  /\ c.do = "insert" \/ (c.do \in {"upsert", "enter"} /\ Hit(c) = {})
Rewritten(c, i, r) ==
  /\ i \in Hit(c) \cap DOMAIN db[c.on] /\ c.do \in {"update", "upsert", "toggle"}
  /\ r = Row(IF c.do = "toggle" THEN db[c.on][i].key ELSE c.key, changes + 1, db[c.on][i].by)

\* Calls that write a key have one.
Keyed(c) == c.do \notin {"remove", "toggle", "probe"} => c.key \in Keys

LEMMA RowFact ==
  ASSUME NEW k \in Keys, NEW v \in Nat, NEW by \in Nat
  PROVE  Row(k, v, by) \in RowSet /\ Row(k, v, by).ver = v /\ Row(k, v, by).key = k
         /\ Row(k, v, by).by = by
BY DEF Row, RowSet

LEMMA AfterFacts ==
  ASSUME CountsOK, DbOK, NEW c \in CallSet, Keyed(c), NEW by \in 0..gestures
  PROVE  /\ After(c, by) \in TableSet
         /\ \A i \in DOMAIN After(c, by) :
              LET r == After(c, by)[i] IN
              Unwritten(c, i, r) \/ Created(c, by, i, r) \/ Rewritten(c, i, r)
         /\ \A i \in DOMAIN db[c.on] :
              c.do \notin {"remove", "leave"} \/ i \notin Hit(c) => i \in DOMAIN After(c, by)
<1> DEFINE t == db[c.on]
           A == After(c, by)
           fresh == changes + 1
           key(i) == IF c.do = "toggle" THEN t[i].key ELSE c.key
<1>1. /\ c.do \in Dos /\ c.on \in Tables /\ gestures \in Nat /\ changes \in Nat /\ by \in Nat
      /\ t \in TableSet /\ DOMAIN t \subseteq 1..changes /\ DOMAIN t \subseteq Nat
      /\ \A i \in DOMAIN t : t[i] \in RowSet
  BY SceneFacts, TableFacts DEF CallSet, CountsOK, DbOK, InTable
<1>2. CASE c.do = "probe" \/ (c.do = "enter" /\ Hit(c) # {})
  <2>1. A = t
    BY <1>2 DEF After
  <2> HIDE DEF A
  <2> QED
    BY <1>1, <2>1 DEF Unwritten, A
<1>3. CASE c.do \in {"remove", "leave"}
  <2>1. A = [i \in DOMAIN t \ Hit(c) |-> t[i]]
    BY <1>3 DEF After, Restrict
  <2>2. A \in [DOMAIN t \ Hit(c) -> RowSet]
    BY <1>1, <2>1
  <2>3. A \in TableSet
    BY <1>1, <2>2, IntoTable
  <2> HIDE DEF A
  <2> QED
    BY <1>3, <2>1, <2>3 DEF Unwritten, A
<1>4. CASE c.do = "insert" \/ (c.do \in {"upsert", "enter"} /\ Hit(c) = {})
  <2>1. A = [i \in DOMAIN t \cup {fresh} |-> IF i = fresh THEN Row(c.key, fresh, by) ELSE t[i]]
    BY <1>4 DEF After
  <2>2. Row(c.key, fresh, by) \in RowSet
    BY <1>1, <1>4, RowFact DEF Keyed
  <2>3. A \in [DOMAIN t \cup {fresh} -> RowSet]
    BY <1>1, <2>1, <2>2
  <2>4. A \in TableSet
    BY <1>1, <2>3, IntoTable
  <2> HIDE DEF A
  <2> QED
    BY <1>4, <2>1, <2>4 DEF Unwritten, Created, A
<1>5. CASE c.do \in {"update", "toggle"} \/ (c.do = "upsert" /\ Hit(c) # {})
  <2>1. A = [i \in DOMAIN t |-> IF i \notin Hit(c) THEN t[i] ELSE Row(key(i), fresh, t[i].by)]
    BY <1>5 DEF After
  <2>2. ASSUME NEW i \in DOMAIN t PROVE Row(key(i), fresh, t[i].by) \in RowSet
    <3>1. key(i) \in Keys /\ t[i].by \in Nat /\ fresh \in Nat
      BY <1>1, <1>5 DEF Keyed, RowSet
    <3>2. PICK k \in Keys, v \in Nat, b \in Nat : k = key(i) /\ v = fresh /\ b = t[i].by
      BY <3>1
    <3>3. Row(k, v, b) \in RowSet
      BY RowFact
    <3> QED
      BY <3>2, <3>3
  <2>3. A \in [DOMAIN t -> RowSet]
    BY <1>1, <2>1, <2>2
  <2>4. A \in TableSet
    BY <1>1, <2>3, IntoTable
  <2> HIDE DEF A
  <2> QED
    BY <1>5, <2>1, <2>4 DEF Unwritten, Rewritten, A
<1> QED
  BY <1>1, <1>2, <1>3, <1>4, <1>5 DEF Dos

\* A call that the page or another operator may make.
CallFits(c) ==
  /\ c \in CallSet /\ Keyed(c)
  /\ c.do \in {"upsert", "enter", "leave"} => c.on = "rows"
  /\ page = "websites" => /\ c.do \notin {"upsert", "enter", "leave"}
                          /\ c.do = "update" => KeyKept(c.on, c.id, c.key)
  /\ page = "assets" => c.do # "enter" /\ (c.do = "insert" => c.id = 0)

LEMMA StaysUnique ==
  ASSUME CountsOK, DbOK, NEW c, CallFits(c), NEW by \in 0..gestures, ~Refuses(c),
         page = "assets", c.on = "rows"
  PROVE  UniqueKeys(After(c, by))
<1> DEFINE t == db["rows"]
           A == After(c, by)
<1>1. /\ c \in CallSet /\ Keyed(c) /\ "rows" \in Tables /\ changes \in Nat /\ gestures \in Nat
      /\ \A i \in DOMAIN A : LET r == A[i] IN
           Unwritten(c, i, r) \/ Created(c, by, i, r) \/ Rewritten(c, i, r)
  BY AfterFacts, SceneFacts DEF CallFits, CountsOK, Tables
<1>2. /\ UniqueKeys(t) /\ DOMAIN t \subseteq 1..changes
      /\ \A i \in DOMAIN t : t[i] \in RowSet /\ i \in Nat
  BY <1>1, TableFacts DEF DbOK, InTable
<1>3. c.do \in {"insert", "update"} => Hit(c) = {c.id} \cap DOMAIN t /\ DOMAIN t \cap {0} = {}
  BY <1>1, <1>2 DEF Hit
<1>4. c.do = "insert" \/ (c.do = "update" /\ Hit(c) # {}) => IdsOf(t, c.key) \ {c.id} = {}
  BY DEF Refuses, KeyIsUnique
<1>5. c.do = "upsert" => Hit(c) = IdsOf(t, c.key)
  BY DEF Hit
<1>6. \A i \in DOMAIN A :
        \/ i \in DOMAIN t /\ A[i].key = t[i].key
        \/ /\ A[i].key = c.key /\ \A j \in DOMAIN t : j # i => t[j].key # c.key
           /\ IF c.do = "update" THEN i = c.id ELSE i = changes + 1
  <2> SUFFICES ASSUME NEW i \in DOMAIN A
               PROVE  \/ i \in DOMAIN t /\ A[i].key = t[i].key
                      \/ /\ A[i].key = c.key /\ \A j \in DOMAIN t : j # i => t[j].key # c.key
                         /\ IF c.do = "update" THEN i = c.id ELSE i = changes + 1
    OBVIOUS
  <2> HIDE DEF A
  <2>1. CASE Unwritten(c, i, A[i])
    BY <2>1 DEF Unwritten
  <2>2. CASE Created(c, by, i, A[i])
    <3>1. A[i].key = c.key /\ i = changes + 1 /\ c.do # "update"
      BY <2>2 DEF Created, Row
    <3>2. \A j \in DOMAIN t : t[j].key # c.key
      BY <1>2, <1>3, <1>4, <1>5, <2>2 DEF Created, IdsOf, CallFits
    <3> QED
      BY <3>1, <3>2
  <2>3. CASE Rewritten(c, i, A[i])
    <3>1. i \in DOMAIN t /\ i \in Hit(c) /\ A[i].key = IF c.do = "toggle" THEN t[i].key ELSE c.key
      BY <2>3 DEF Rewritten, Row
    <3>2. CASE c.do = "update"
      BY <1>2, <1>3, <1>4, <3>1, <3>2 DEF IdsOf
    <3>3. CASE c.do = "upsert"
      BY <1>5, <3>1, <3>3 DEF IdsOf
    <3> QED
      BY <3>1, <3>2, <3>3, <2>3 DEF Rewritten
  <2> QED
    BY <1>1, <2>1, <2>2, <2>3
<1> HIDE DEF A
<1>7. ASSUME NEW i \in DOMAIN A, NEW j \in DOMAIN A, A[i].key = A[j].key PROVE i = j
  BY <1>2, <1>6, <1>7 DEF UniqueKeys
<1> QED
  BY <1>7 DEF UniqueKeys, A

LEMMA Applied ==
  ASSUME CountsOK, DbOK, NEW c, CallFits(c), NEW by \in 0..gestures, ~Refuses(c),
         ApplyCall(c, by), scene' = scene, gestures' = gestures
  PROVE  Moves /\ DbOK'
<1> DEFINE A == After(c, by)
<1>1. /\ c \in CallSet /\ c.on \in Tables /\ changes \in Nat /\ gestures \in Nat /\ DOMAIN db = Tables
      /\ Tables = {"rows", "mons"} /\ by \in Nat /\ page' = page
  BY SceneFacts DEF CallFits, CountsOK, CallSet, DbOK, Tables, page
<1>2. CASE db' = db
  <2>1. changes' = changes
    BY <1>2 DEF ApplyCall
  <2> QED
    BY <1>1, <1>2, <2>1, NoMove
<1>3. CASE db' # db
  <2>1. changes' = changes + 1 /\ DOMAIN db' = Tables
        /\ db'[c.on] = A /\ \A t \in Tables \ {c.on} : db'[t] = db[t]
    BY <1>1, <1>3 DEF ApplyCall
  <2>2. /\ A \in TableSet
        /\ \A i \in DOMAIN A : LET r == A[i] IN
             Unwritten(c, i, r) \/ Created(c, by, i, r) \/ Rewritten(c, i, r)
    BY <1>1, AfterFacts DEF CallFits
  <2>3. \A t \in Tables : /\ InTable(db[t])
                          /\ \A i \in DOMAIN db[t] : db[t][i] \in RowSet /\ i \in Nat
    BY TableFacts DEF DbOK, InTable
  <2> HIDE DEF A
  <2>4. ASSUME NEW i \in DOMAIN A
        PROVE  /\ \/ i \in DOMAIN db[c.on] /\ A[i] = db[c.on][i]
                  \/ A[i].ver = changes + 1
               /\ i \in DOMAIN db[c.on] \/ i = changes + 1
               /\ page = "websites" /\ i \in DOMAIN db[c.on] => A[i].key = db[c.on][i].key
               /\ i \in 1..(changes + 1) /\ A[i].ver \in i..(changes + 1) /\ A[i].by <= gestures
    <3>1. CASE Unwritten(c, i, A[i])
      BY <1>1, <2>3, <3>1 DEF Unwritten, InTable, RowSet
    <3>2. CASE Created(c, by, i, A[i])
      BY <1>1, <2>3, <3>2 DEF Created, Row, InTable
    <3>3. CASE Rewritten(c, i, A[i])
      <4>1. /\ i \in DOMAIN db[c.on] /\ i \in Hit(c) /\ A[i].ver = changes + 1
            /\ A[i].by = db[c.on][i].by
            /\ A[i].key = IF c.do = "toggle" THEN db[c.on][i].key ELSE c.key
        BY <3>3 DEF Rewritten, Row
      <4>2. i \in 1..changes /\ db[c.on][i].by <= gestures
        BY <1>1, <2>3, <4>1 DEF InTable
      <4>3. page = "websites" => A[i].key = db[c.on][i].key
        BY <3>3, <4>1 DEF Rewritten, CallFits, KeyKept, Hit
      <4> QED
        BY <1>1, <4>1, <4>2, <4>3
    <3> QED
      BY <2>2, <3>1, <3>2, <3>3
  <2>5. Moves
    BY <1>1, <2>1, <2>4 DEF Moves
  <2>6. ASSUME NEW t \in Tables PROVE InTable(db[t])'
    <3>1. CASE t = c.on
      BY <1>1, <2>1, <2>2, <2>4, <3>1 DEF InTable
    <3>2. CASE t # c.on
      BY <1>1, <2>1, <2>3, <3>2 DEF InTable, RowSet
    <3> QED
      BY <3>1, <3>2
  <2>7. ASSUME page = "assets" PROVE UniqueKeys(db'["rows"])
    <3>1. CASE c.on = "rows"
      BY <2>1, <2>7, <3>1, StaysUnique DEF A
    <3>2. CASE c.on # "rows"
      BY <1>1, <2>1, <2>7, <3>2 DEF DbOK
    <3> QED
      BY <3>1, <3>2
  <2> QED
    BY <1>1, <2>1, <2>5, <2>6, <2>7 DEF DbOK, UniqueKeys
<1> QED
  BY <1>2, <1>3

-----------------------------------------------------------------------------
(* BaseInv: fetches.                                                       *)

LEMMA Fresh ==
  ASSUME CountsOK, DbOK, NEW t \in Tables
  PROVE  CopyOK(t, db[t], changes) /\ CopyOK(t, EmptyTable, 0)
<1>1. changes \in Nat /\ InTable(db[t]) /\ \A i \in DOMAIN db[t] : db[t][i] \in RowSet /\ i \in Nat
  BY TableFacts DEF CountsOK, DbOK, InTable
<1>2. \A i \in DOMAIN db[t] : db[t][i].ver > 0
  BY <1>1 DEF InTable, RowSet
<1>3. CopyOK(t, db[t], changes)
  BY <1>1 DEF CopyOK, KeyKept, DbOK
<1>4. CopyOK(t, EmptyTable, 0)
  BY <1>1, <1>2, EmptyIsTable DEF CopyOK, InTable, UniqueKeys, RowSet
<1> QED
  BY <1>3, <1>4

LEMMA AnewOK ==
  ASSUME CountsOK, DbOK, NEW t \in Tables, NEW r, QueryOK(t, r)
  PROVE  /\ QueryOK(t, FetchAnew(r)) /\ FetchAnew(r).asOf = r.asOf
         /\ FetchAnew(r).fetch = "asked" \/ FetchAnew(r).joined
         /\ FetchAnew(r).fetch = "read" => FetchAnew(r).joined
<1>1. CASE r.fetch = "idle" \/ r.loaded
  BY <1>1, Fresh, EmptyIsTable DEF FetchAnew, QueryOK, QuerySet, Fetches
<1>2. CASE ~(r.fetch = "idle" \/ r.loaded)
  BY <1>2 DEF FetchAnew, QueryOK, QuerySet
<1> QED
  BY <1>1, <1>2

LEMMA RefetchOK ==
  ASSUME CountsOK, DbOK, Moves, QueriesOK, NEW ts, q' = Refetch(ts)
  PROVE  QueriesOK'
<1>1. \A t \in Tables : QueryOK(t, q'[t])
  <2>1. ASSUME NEW t \in Tables PROVE q'[t] = IF t \in ts THEN FetchAnew(q[t]) ELSE q[t]
    BY DEF Refetch
  <2> QED
    BY <2>1, AnewOK DEF QueriesOK
<1>2. \A t \in Tables : \A r : QueryOK(t, r) => QueryOK(t, r)'
  BY QueryStays
<1> QED
  BY <1>1, <1>2 DEF QueriesOK, Refetch

LEMMA QueryStep ==
  ASSUME Moves, QueriesOK, NEW t \in Tables, DOMAIN q' = Tables,
         \A u \in Tables \ {t} : q'[u] = q[u], QueryOK(t, q'[t])
  PROVE  QueriesOK'
<1>1. \A u \in Tables : QueryOK(u, q'[u])
  BY DEF QueriesOK
<1>2. \A u \in Tables : \A r : QueryOK(u, r) => QueryOK(u, r)'
  BY QueryStays
<1> QED
  BY <1>1, <1>2 DEF QueriesOK

\* What the calls under way are after a step.
LEMMA OpsStep ==
  ASSUME Moves, OpsOK, DOMAIN ops' \subseteq 1..gestures',
         \A n \in DOMAIN ops' : (n \in DOMAIN ops /\ ops'[n] = ops[n]) \/ OpOK(n, ops[n])'
  PROVE  OpsOK'
<1>1. ASSUME NEW n \in DOMAIN ops', n \in DOMAIN ops, ops'[n] = ops[n] PROVE OpOK(n, ops[n])'
  <2>1. OpOK(n, ops[n])
    BY <1>1 DEF OpsOK
  <2>2. \A op : OpOK(n, op) => OpOK(n, op)'
    BY OpStays
  <2> QED
    BY <1>1, <2>1, <2>2
<1> QED
  BY <1>1 DEF OpsOK

\* A call whose answer or waiting changes.
LEMMA SameOp ==
  ASSUME NEW n, NEW op, OpOK(n, op), NEW o \in OpSet,
         o.what = op.what, o.form = op.form, o.calls = op.calls, o.key = op.key,
         o.aim = op.aim, o.ver = op.ver, o.since = op.since,
         o.at = op.at \/ (o.at = "refused" /\ op.calls # << >>)
  PROVE  OpOK(n, o)
<1>1. ASSUME DeleteOK(op) PROVE DeleteOK(o)
  BY <1>1 DEF DeleteOK
<1>2. ASSUME WebsiteOp(op) PROVE WebsiteOp(o)
  BY <1>1, <1>2 DEF WebsiteOp
<1> QED
  BY <1>2 DEF OpOK

LEMMA ReleaseOK ==
  ASSUME Moves, OpsOK, NEW t, ops' = Release(t)
  PROVE  OpsOK'
<1>1. DOMAIN ops' = DOMAIN ops /\ DOMAIN ops' \subseteq 1..gestures'
  BY DEF Release, OpsOK, Moves
<1>2. ASSUME NEW n \in DOMAIN ops PROVE OpOK(n, ops[n])'
  <2> DEFINE op == ops[n]
             o == ops'[n]
  <2>1. OpOK(n, op) /\ op \in OpSet /\ o = [op EXCEPT !.waits = @ \ {t}]
    BY DEF Release, OpsOK, OpOK
  <2>2. o \in OpSet /\ o.what = op.what /\ o.form = op.form /\ o.calls = op.calls /\ o.key = op.key
        /\ o.aim = op.aim /\ o.at = op.at /\ o.ver = op.ver /\ o.since = op.since
    BY <2>1 DEF OpSet
  <2> HIDE DEF op, o
  <2>3. OpOK(n, o)
    BY <2>1, <2>2, SameOp
  <2>4. \A x : OpOK(n, x) => OpOK(n, x)'
    BY OpStays
  <2> QED
    BY <2>3, <2>4 DEF o
<1> QED
  BY <1>1, <1>2 DEF OpsOK

\* The record of a query whose fetch has ended.
LEMMA DoneFacts ==
  ASSUME NEW r \in QuerySet,
         NEW d, d = [r EXCEPT !.data = r.snap, !.asOf = r.snapAt, !.loaded = TRUE,
                              !.fetch = "idle", !.failed = FALSE, !.snap = EmptyTable, !.snapAt = 0]
  PROVE  /\ d \in QuerySet /\ d.data = r.snap /\ d.asOf = r.snapAt /\ d.snap = EmptyTable
         /\ d.snapAt = 0 /\ d.fetch = "idle" /\ d.joined = r.joined /\ ~d.failed /\ d.loaded
BY EmptyIsTable DEF QuerySet, Fetches

LEMMA FailFacts ==
  ASSUME NEW r \in QuerySet,
         NEW d, d = [r EXCEPT !.fetch = "idle", !.failed = TRUE, !.snap = EmptyTable, !.snapAt = 0]
  PROVE  /\ d \in QuerySet /\ d.data = r.data /\ d.asOf = r.asOf /\ d.snap = EmptyTable
         /\ d.snapAt = 0 /\ d.fetch = "idle" /\ d.failed
BY EmptyIsTable DEF QuerySet, Fetches

LEMMA FetchBase ==
  ASSUME BaseInv, NEW t \in Tables,
         FetchRead(t) \/ FetchDone(t) \/ FetchFails(t) \/ Poll(t)
  PROVE  BaseInv'
<1>1. /\ UNCHANGED <<scene, db, changes, form, target, lastMon, gestures, others>>
      /\ faults' \in {faults, faults + 1} /\ (faults' # faults => faults < scene.faults)
  BY DEF FetchRead, FetchDone, FetchFails, Poll, bounds
<1>2. CountsOK'
  BY <1>1, SceneFacts DEF BaseInv, CountsOK
<1>3. Moves /\ DbOK'
  BY <1>1, NoMove DEF BaseInv
<1>4. FormsOK' /\ TargetOK(target)'
  BY <1>1, <1>3, FormsStay, TargetStays DEF BaseInv
<1>5. q[t] \in QuerySet /\ QueryOK(t, q[t]) /\ DOMAIN q = Tables
  BY DEF BaseInv, QueriesOK, QueryOK
<1>6. CopyOK(t, db[t], changes) /\ CopyOK(t, EmptyTable, 0) /\ changes \in Nat
      /\ db[t] \in TableSet /\ EmptyTable \in TableSet
  BY Fresh, EmptyIsTable DEF BaseInv, CountsOK, DbOK, InTable
<1>7. CASE FetchRead(t)
  <2>1. q'[t] = [q[t] EXCEPT !.fetch = "read", !.snap = db[t], !.snapAt = changes]
    BY <1>5, <1>7 DEF FetchRead
  <2>2. QueryOK(t, q'[t])
    BY <1>5, <1>6, <2>1 DEF QueryOK, QuerySet, Fetches
  <2>3. QueriesOK'
    BY <1>3, <1>5, <1>7, <2>2, QueryStep DEF BaseInv, FetchRead
  <2>4. OpsOK'
    BY <1>3, <1>7, OpsStay DEF BaseInv, FetchRead
  <2> QED
    BY <1>2, <1>3, <1>4, <2>3, <2>4 DEF BaseInv
<1>8. CASE FetchDone(t)
  <2>1. q'[t] = [q[t] EXCEPT !.data = q[t].snap, !.asOf = q[t].snapAt, !.loaded = TRUE,
                  !.fetch = "idle", !.failed = FALSE, !.snap = EmptyTable, !.snapAt = 0]
    BY <1>5, <1>8 DEF FetchDone
  <2>2. /\ q'[t] \in QuerySet /\ q'[t].data = q[t].snap /\ q'[t].asOf = q[t].snapAt
        /\ q'[t].snap = EmptyTable /\ q'[t].snapAt = 0
    BY <1>5, <2>1, DoneFacts
  <2>3. QueryOK(t, q'[t])
    BY <1>5, <1>6, <2>2 DEF QueryOK
  <2>4. QueriesOK'
    BY <1>3, <1>5, <1>8, <2>3, QueryStep DEF BaseInv, FetchDone
  <2>5. OpsOK'
    BY <1>3, <1>8, ReleaseOK DEF BaseInv, FetchDone
  <2> QED
    BY <1>2, <1>3, <1>4, <2>4, <2>5 DEF BaseInv
<1>9. CASE FetchFails(t)
  <2>1. q'[t] = [q[t] EXCEPT !.fetch = "idle", !.failed = TRUE, !.snap = EmptyTable, !.snapAt = 0]
    BY <1>5, <1>9 DEF FetchFails
  <2>2. /\ q'[t] \in QuerySet /\ q'[t].data = q[t].data /\ q'[t].asOf = q[t].asOf
        /\ q'[t].snap = EmptyTable /\ q'[t].snapAt = 0
    BY <1>5, <2>1, FailFacts
  <2>3. QueryOK(t, q'[t])
    BY <1>5, <1>6, <2>2 DEF QueryOK
  <2>4. QueriesOK'
    BY <1>3, <1>5, <1>9, <2>3, QueryStep DEF BaseInv, FetchFails
  <2>5. OpsOK'
    BY <1>3, <1>9, ReleaseOK DEF BaseInv, FetchFails
  <2> QED
    BY <1>2, <1>3, <1>4, <2>4, <2>5 DEF BaseInv
<1>10. CASE Poll(t)
  <2>1. QueriesOK'
    BY <1>3, <1>10, RefetchOK DEF BaseInv, Poll
  <2>2. OpsOK'
    BY <1>3, <1>10, OpsStay DEF BaseInv, Poll
  <2> QED
    BY <1>2, <1>3, <1>4, <2>1, <2>2 DEF BaseInv
<1> QED
  BY <1>7, <1>8, <1>9, <1>10

-----------------------------------------------------------------------------
(* BaseInv: calls that begin.                                              *)

LEMMA ShownRows ==
  ASSUME BaseInv, NEW t \in Tables, NEW i \in DOMAIN Shown(t)
  PROVE  /\ i \in 1..changes /\ i \in Nat /\ Shown(t)[i] \in RowSet
         /\ Shown(t)[i].key \in Keys /\ Shown(t)[i].ver \in Nat
         /\ page = "websites" => KeyKept(t, i, Shown(t)[i].key)
         /\ Shown(t) = q[t].data /\ CopyOK(t, q[t].data, q[t].asOf)
<1>1. CopyOK(t, q[t].data, q[t].asOf) /\ Shown(t) = q[t].data
  BY DEF BaseInv, QueriesOK, QueryOK, Shown
<1>2. Shown(t) \in TableSet
  BY <1>1 DEF CopyOK, InTable
<1> QED
  BY <1>1, <1>2, TableFacts DEF CopyOK, InTable, RowSet

\* The check of a domain is one of the shown.
LEMMA MonitorFact ==
  ASSUME BaseInv, NEW k
  PROVE  LET ms == IdsOf(Shown("mons"), k) IN
         /\ ms # {} => MonitorOf(k) \in ms /\ MonitorOf(k) = Min(ms)
         /\ ms = {} => MonitorOf(k) = 0
         /\ MonitorOf(k) \in Nat /\ MonitorOf(k) <= changes
<1> DEFINE ms == IdsOf(Shown("mons"), k)
<1>1. \A i \in ms : i \in 1..changes /\ i \in Nat
  BY ShownRows DEF IdsOf, Tables
<1>2. changes \in Nat
  BY DEF BaseInv, CountsOK
<1>3. ms # {} => Min(ms) \in ms
  BY <1>1, MinFact
<1> HIDE DEF ms
<1>4. MonitorOf(k) = IF ms = {} THEN 0 ELSE Min(ms)
  BY DEF MonitorOf, ms
<1>5. ms # {} => MonitorOf(k) \in 1..changes
  BY <1>1, <1>3, <1>4
<1> QED
  BY <1>2, <1>3, <1>4, <1>5 DEF ms

NewOp(what, f, calls, key, aim) ==
  [what |-> what, form |-> f, calls |-> calls, key |-> key, aim |-> aim,
   at |-> Begun(calls), ver |-> [t \in Tables |-> 0], waits |-> {}, since |-> changes]

LEMMA NewOpFacts ==
  ASSUME changes \in Nat, NEW what \in Whats, NEW f \in Nat, NEW calls \in Seq(CallSet),
         NEW key \in Keys, NEW aim \in Nat, NEW o, o = NewOp(what, f, calls, key, aim)
  PROVE  /\ o \in OpSet /\ o.what = what /\ o.form = f /\ o.calls = calls /\ o.key = key
         /\ o.aim = aim /\ o.at = Begun(calls) /\ o.waits = {} /\ o.since = changes
         /\ \A t \in Tables : o.ver[t] = 0
BY DEF NewOp, OpSet, Begun, Answers

LEMMA Started ==
  ASSUME BaseInv, Moves, NEW what \in Whats, NEW f \in 0..gestures, what \in Slots => f # 0,
         NEW calls \in Seq(CallSet), Len(calls) <= 2, NEW key \in Keys, NEW aim \in Nat,
         \A j \in DOMAIN calls : CallOK(calls[j]) /\ Keyed(calls[j]),
         page = "websites" => WebsiteOp(NewOp(what, f, calls, key, aim)),
         Start(what, f, calls, key, aim)
  PROVE  OpsOK' /\ gestures' = gestures + 1 /\ gestures < scene.gestures
<1>1. gestures \in Nat /\ changes \in Nat /\ gestures' = gestures + 1 /\ gestures < scene.gestures
  BY SceneFacts DEF BaseInv, CountsOK, Start, Gesture
<1>2. PICK g : g = gestures'
  OBVIOUS
<1>3. PICK o : o = NewOp(what, f, calls, key, aim)
  OBVIOUS
<1>4. ops' = [n \in DOMAIN ops \cup {g} |-> IF n \in DOMAIN ops THEN ops[n] ELSE o]
  BY <1>2, <1>3 DEF Start, NewOp
<1>5. /\ o \in OpSet /\ o.what = what /\ o.form = f /\ o.calls = calls /\ o.key = key
      /\ o.aim = aim /\ o.at = Begun(calls) /\ o.waits = {} /\ o.since = changes
      /\ \A t \in Tables : o.ver[t] = 0
  <2>1. f \in Nat /\ changes \in Nat
    BY <1>1
  <2> QED
    BY <2>1, <1>3, NewOpFacts
<1>6. OpOK(g, o)
  BY <1>1, <1>2, <1>3, <1>5 DEF OpOK, Begun, Keyed
<1>7. OpOK(g, o)'
  BY <1>6, OpStays
<1>8. DOMAIN ops' \subseteq 1..gestures'
  BY <1>1, <1>2, <1>4 DEF BaseInv, OpsOK
<1>9. \A n \in DOMAIN ops' : (n \in DOMAIN ops /\ ops'[n] = ops[n]) \/ (n = g /\ ops'[n] = o)
  BY <1>4
<1>10. OpsOK'
  BY <1>7, <1>8, <1>9, OpsStep DEF BaseInv
<1> QED
  BY <1>1, <1>10

LEMMA StartBase ==
  ASSUME BaseInv, UNCHANGED <<scene, db, changes, q, form, others, faults>>,
         gestures' = gestures + 1, gestures < scene.gestures, lastMon' \in {lastMon, gestures'},
         target' \in {target, NoTarget}, OpsOK'
  PROVE  BaseInv'
<1>1. CountsOK'
  BY SceneFacts DEF BaseInv, CountsOK
<1>2. Moves /\ DbOK'
  BY NoMove DEF BaseInv
<1>3. QueriesOK' /\ FormsOK'
  BY <1>2, QueriesStay, FormsStay DEF BaseInv
<1>4. TargetOK(target)'
  BY <1>2, TargetStays DEF BaseInv, TargetOK
<1> QED
  BY <1>1, <1>2, <1>3, <1>4 DEF BaseInv

LEMMA Rekeyed ==
  ASSUME NEW c, CallOK(c), NEW k \in Keys, c.do \in {"insert", "update", "upsert"},
         page # "websites" \/ c.do = "insert", NEW d, d = [c EXCEPT !.key = k]
  PROVE  /\ CallOK(d) /\ Keyed(d) /\ d.do = c.do /\ d.on = c.on /\ d.id = c.id /\ d.key = k
         /\ d.old = c.old /\ d.base = c.base /\ d.known = c.known
<1>1. c \in CallSet
  BY DEF CallOK
<1>2. /\ d \in CallSet /\ d.do = c.do /\ d.on = c.on /\ d.id = c.id /\ d.key = k
      /\ d.old = c.old /\ d.base = c.base /\ d.known = c.known
  BY <1>1 DEF CallSet, Names
<1> QED
  BY <1>2 DEF CallOK, Keyed, Missed

\* The calls a form's save makes are the form's.
LEMMA SentFacts ==
  ASSUME BaseInv, NEW slot \in Slots, NEW k \in Keys, NEW calls \in Sent(slot, k)
  PROVE  /\ calls \in Seq(CallSet) /\ Len(calls) <= 2
         /\ \A j \in DOMAIN calls :
              /\ CallOK(calls[j]) /\ Keyed(calls[j])
              /\ page = "websites" => /\ calls[j].do # "remove"
                                      /\ calls[j].do = "insert" => calls[j].key = k
<1> DEFINE cs == form[slot].calls
           keyed == [j \in DOMAIN cs |-> [cs[j] EXCEPT !.key = k]]
<1>1. /\ cs \in Seq(CallSet) /\ Len(cs) <= 2 /\ Len(cs) \in Nat /\ DOMAIN cs = 1..Len(cs)
      /\ \A j \in DOMAIN cs :
           /\ CallOK(cs[j]) /\ cs[j].do \in {"insert", "update", "upsert"} /\ cs[j] \in CallSet
           /\ page = "websites" => cs[j].do = (IF slot = "edit" THEN "update" ELSE "insert")
  BY DEF BaseInv, FormsOK, FormOK, FormSet, CallOK
<1>2. ASSUME page # "websites" \/ slot = "add"
      PROVE  /\ keyed \in Seq(CallSet) /\ Len(keyed) = Len(cs) /\ DOMAIN keyed = DOMAIN cs
             /\ \A j \in DOMAIN cs :
                  CallOK(keyed[j]) /\ Keyed(keyed[j]) /\ keyed[j].do = cs[j].do /\ keyed[j].key = k
  <2>1. ASSUME NEW j \in DOMAIN cs
        PROVE  /\ CallOK(keyed[j]) /\ Keyed(keyed[j]) /\ keyed[j].do = cs[j].do /\ keyed[j].key = k
               /\ keyed[j] \in CallSet
    <3>1. page # "websites" \/ cs[j].do = "insert"
      BY <1>1, <1>2
    <3> DEFINE c == cs[j]
               d == keyed[j]
    <3>2. d = [c EXCEPT !.key = k] /\ CallOK(c) /\ c.do \in {"insert", "update", "upsert"}
      BY <1>1
    <3> HIDE DEF c, d
    <3>3. CallOK(d) /\ Keyed(d) /\ d.do = c.do /\ d.key = k
      BY <3>1, <3>2, Rekeyed DEF c
    <3>4. d \in CallSet
      BY <3>3 DEF CallOK
    <3> QED
      BY <3>3, <3>4 DEF c, d
  <2>2. keyed \in [1..Len(cs) -> CallSet]
    BY <1>1, <2>1
  <2>3. keyed \in Seq(CallSet) /\ Len(keyed) = Len(cs)
    BY <1>1, <2>2
  <2> QED
    BY <2>1, <2>3
<1> HIDE DEF keyed, cs
<1>3. CASE page # "websites"
  <2>1. calls = keyed
    BY <1>3 DEF Sent, keyed, cs
  <2> QED
    BY <1>1, <1>2, <1>3, <2>1
<1>4. CASE page = "websites" /\ slot = "add"
  <2> DEFINE T == {SubSeq(keyed, 1, j) : j \in 1..Len(cs)}
  <2>0. Sent(slot, k) = T
    BY <1>4, SMTT(30) DEF Sent, keyed, cs
  <2>1. PICK m \in 1..Len(cs) : calls = SubSeq(keyed, 1, m)
    BY <2>0
  <2>2. \A i \in 1..m : keyed[i] \in CallSet
    BY <1>1, <1>2, <1>4, <2>1 DEF CallOK
  <2>3. calls \in Seq(CallSet) /\ Len(calls) = m /\ \A i \in 1..m : calls[i] = keyed[i]
    BY <1>1, <2>1, <2>2, SubSeqProperties
  <2> QED
    BY <1>1, <1>2, <1>4, <2>1, <2>3
<1>5. CASE page = "websites" /\ slot = "edit"
  <2>1. PICK l \in 1..2, m \in 0..Len(cs) : calls = SubSeq(cs, l, m)
    BY <1>5 DEF Sent, keyed, cs
  <2>2. \A i \in l..m : cs[i] \in CallSet
    BY <1>1, <2>1
  <2>3. /\ calls \in Seq(CallSet) /\ Len(calls) = IF l <= m THEN m - l + 1 ELSE 0
        /\ \A i \in 1..(m - l + 1) : calls[i] = cs[l + i - 1]
    BY <1>1, <2>1, <2>2, SubSeqProperties
  <2>4. ASSUME NEW j \in DOMAIN calls PROVE CallOK(calls[j]) /\ calls[j].do = "update"
    <3>1. j \in 1..(m - l + 1) /\ l + j - 1 \in DOMAIN cs
      BY <1>1, <2>1, <2>3
    <3> QED
      BY <1>1, <1>5, <2>3, <3>1
  <2>5. Len(calls) <= 2
    BY <1>1, <2>1, <2>3
  <2> QED
    BY <2>3, <2>4, <2>5 DEF Keyed, CallOK
<1> QED
  BY <1>3, <1>4, <1>5 DEF Slots

LEMMA SingleCall ==
  ASSUME NEW c, CallOK(c)
  PROVE  /\ <<c>> \in Seq(CallSet) /\ Len(<<c>>) = 1 /\ <<c>>[1] = c
         /\ \A j \in DOMAIN <<c>> : j = 1 /\ <<c>>[j] = c
BY DEF CallOK

\* A page that is not the websites' starts one call.
LEMMA StartSingle ==
  ASSUME BaseInv, page # "websites", UNCHANGED <<scene, db, changes>>,
         NEW what \in Whats \ Slots, NEW c, CallOK(c), Keyed(c), NEW key \in Keys,
         Start(what, 0, <<c>>, key, 0)
  PROVE  OpsOK' /\ gestures' = gestures + 1 /\ gestures < scene.gestures
<1>1. gestures \in Nat /\ gestures' = gestures + 1
  BY SceneFacts DEF BaseInv, CountsOK, Start, Gesture
<1>2. Moves
  BY <1>1, NoMove DEF BaseInv
<1>3. /\ <<c>> \in Seq(CallSet) /\ Len(<<c>>) <= 2
      /\ \A j \in DOMAIN <<c>> : CallOK(<<c>>[j]) /\ Keyed(<<c>>[j])
  BY SingleCall
<1>4. 0 \in 0..gestures /\ 0 \in Nat /\ what \in Whats /\ what \notin Slots
  BY <1>1
<1> QED
  BY <1>2, <1>3, <1>4, Started

LEMMA SaveBase ==
  ASSUME BaseInv, NEW slot \in Slots, NEW k \in Keys, Save(slot, k)
  PROVE  BaseInv'
<1>1. PICK calls \in Sent(slot, k) : Start(slot, form[slot].n, calls, k, 0)
  BY DEF Save
<1>2. UNCHANGED <<scene, db, changes, q, form, target, lastMon, others, faults>>
  BY DEF Save
<1>3. gestures \in Nat /\ changes \in Nat /\ gestures' = gestures + 1
  BY <1>1, SceneFacts DEF BaseInv, CountsOK, Start, Gesture
<1>4. Moves
  BY <1>2, <1>3, NoMove DEF BaseInv
<1>5. form[slot].n \in 1..gestures
  BY DEF BaseInv, FormsOK, FormOK, Save
<1>6. /\ calls \in Seq(CallSet) /\ Len(calls) <= 2
      /\ \A j \in DOMAIN calls :
           /\ CallOK(calls[j]) /\ Keyed(calls[j])
           /\ page = "websites" => /\ calls[j].do # "remove"
                                   /\ calls[j].do = "insert" => calls[j].key = k
  BY SentFacts
<1>7. slot \in Whats /\ slot \notin {"check", "probe", "delete"} /\ form[slot].n \in Nat
      /\ form[slot].n \in 0..gestures /\ form[slot].n # 0 /\ 0 \in Nat
  BY <1>3, <1>5 DEF Whats, Slots
<1>8. ASSUME page = "websites" PROVE WebsiteOp(NewOp(slot, form[slot].n, calls, k, 0))
  <2>1. PICK o : o = NewOp(slot, form[slot].n, calls, k, 0)
    OBVIOUS
  <2>2. o.what = slot /\ o.calls = calls /\ o.key = k
    BY <2>1 DEF NewOp
  <2>3. WebsiteOp(o)
    BY <1>6, <1>7, <1>8, <2>2 DEF WebsiteOp
  <2> QED
    BY <2>1, <2>3
<1>9. OpsOK' /\ gestures' = gestures + 1 /\ gestures < scene.gestures
  BY <1>1, <1>4, <1>6, <1>7, <1>8, Started
<1> QED
  BY <1>2, <1>9, StartBase

LEMMA ToggleBase ==
  ASSUME BaseInv, NEW i \in DOMAIN Shown("rows"), page = "rules", Toggle(i)
  PROVE  BaseInv'
<1>1. i \in Nat /\ i <= changes /\ Shown("rows")[i].key \in Keys
  BY ShownRows DEF Tables
<1> DEFINE c == Call("toggle", "rows", i)
<1>2. c \in CallSet /\ c.do = "toggle" /\ c.id = i /\ c.known = 0 /\ c.on = "rows"
  BY <1>1, CallFacts DEF Dos, Tables
<1>3. Start("toggle", 0, <<c>>, Shown("rows")[i].key, 0)
      /\ UNCHANGED <<scene, db, changes, q, form, target, lastMon, others, faults>>
  BY DEF Toggle
<1> HIDE DEF c
<1>4. CallOK(c) /\ Keyed(c)
  BY <1>1, <1>2 DEF CallOK, Keyed, BaseInv, CountsOK
<1>5. OpsOK' /\ gestures' = gestures + 1 /\ gestures < scene.gestures
  BY <1>1, <1>3, <1>4, StartSingle DEF Whats, Slots
<1> QED
  BY <1>3, <1>5, StartBase

LEMMA ToggleMaintenanceBase ==
  ASSUME BaseInv, NEW k \in Keys, page = "overview", ToggleMaintenance(k)
  PROVE  BaseInv'
<1>1. PICK do \in {"enter", "leave"} : Start("toggle", 0, << [Call(do, "rows", 0) EXCEPT !.key = k] >>, k, 0)
  BY DEF ToggleMaintenance
<1> DEFINE c == [Call(do, "rows", 0) EXCEPT !.key = k]
<1>2. c \in CallSet /\ c.do = do /\ c.id = 0 /\ c.known = 0 /\ c.on = "rows" /\ c.key = k
  BY DEF Call, CallSet, Dos, Tables, Names
<1>3. UNCHANGED <<scene, db, changes, q, form, target, lastMon, others, faults>>
      /\ Start("toggle", 0, <<c>>, k, 0)
  BY <1>1 DEF ToggleMaintenance
<1> HIDE DEF c
<1>4. CallOK(c) /\ Keyed(c)
  BY <1>2 DEF CallOK, Keyed, BaseInv, CountsOK
<1>5. OpsOK' /\ gestures' = gestures + 1 /\ gestures < scene.gestures
  BY <1>3, <1>4, StartSingle DEF Whats, Slots
<1> QED
  BY <1>3, <1>5, StartBase

LEMMA DeleteNoteBase ==
  ASSUME BaseInv, NEW i \in DOMAIN Shown("rows"), page = "notes", DeleteNote(i)
  PROVE  BaseInv'
<1>1. i \in Nat /\ i <= changes /\ Shown("rows")[i].key \in Keys
  BY ShownRows DEF Tables
<1> DEFINE c == Call("remove", "rows", i)
<1>2. c \in CallSet /\ c.do = "remove" /\ c.id = i /\ c.known = 0 /\ c.on = "rows"
  BY <1>1, CallFacts DEF Dos, Tables
<1>3. Start("delete", 0, <<c>>, Shown("rows")[i].key, 0)
      /\ UNCHANGED <<scene, db, changes, q, form, target, lastMon, others, faults>>
  BY DEF DeleteNote
<1> HIDE DEF c
<1>4. CallOK(c) /\ Keyed(c)
  BY <1>1, <1>2 DEF CallOK, Keyed, BaseInv, CountsOK
<1>5. OpsOK' /\ gestures' = gestures + 1 /\ gestures < scene.gestures
  BY <1>1, <1>3, <1>4, StartSingle DEF Whats, Slots
<1> QED
  BY <1>3, <1>5, StartBase

LEMMA ProbeBase ==
  ASSUME BaseInv, NEW t \in Tables, NEW i \in 1..changes, Probe(t, i),
         page = "dpm" \/ (page = "websites" /\ t = "mons")
  PROVE  BaseInv'
<1> DEFINE c == Call("probe", t, i)
<1>1. c \in CallSet /\ c.do = "probe" /\ c.id = i /\ c.known = 0 /\ c.on = t
  BY CallFacts DEF Dos, BaseInv, CountsOK
<1>2. Start("probe", 0, <<c>>, FirstKey, 0)
      /\ UNCHANGED <<scene, db, changes, q, form, target, lastMon, others, faults>>
  BY DEF Probe
<1> HIDE DEF c
<1>3. CallOK(c) /\ Keyed(c)
  BY <1>1 DEF CallOK, Keyed, BaseInv, CountsOK
<1>4. FirstKey \in Keys /\ "probe" \in Whats /\ "probe" \notin Slots
  BY ScenesAssumption DEF Whats, Slots
<1>5. gestures \in Nat /\ gestures' = gestures + 1 /\ 0 \in Nat /\ 0 \in 0..gestures
  BY <1>2, SceneFacts DEF BaseInv, CountsOK, Start, Gesture
<1>6. Moves
  BY <1>2, <1>5, NoMove DEF BaseInv
<1>7. ASSUME page = "websites" PROVE WebsiteOp(NewOp("probe", 0, <<c>>, FirstKey, 0))
  <2>1. PICK o : o = NewOp("probe", 0, <<c>>, FirstKey, 0)
    OBVIOUS
  <2>2. o.what = "probe" /\ o.calls = <<c>> /\ o.ver["rows"] = 0
    BY <2>1 DEF NewOp, Tables
  <2>3. \A j \in DOMAIN o.calls : o.calls[j] = c
    BY <1>3, <2>2, SingleCall
  <2>4. WebsiteOp(o)
    BY <1>1, <1>7, <2>2, <2>3 DEF WebsiteOp
  <2> QED
    BY <2>1, <2>4
<1>8. /\ <<c>> \in Seq(CallSet) /\ Len(<<c>>) <= 2
      /\ \A j \in DOMAIN <<c>> : CallOK(<<c>>[j]) /\ Keyed(<<c>>[j])
  BY <1>3, SingleCall
<1>9. OpsOK' /\ gestures' = gestures + 1 /\ gestures < scene.gestures
  BY <1>2, <1>4, <1>5, <1>6, <1>7, <1>8, Started
<1> QED
  BY <1>2, <1>9, StartBase

LEMMA AddMonitorBase ==
  ASSUME BaseInv, NEW i \in DOMAIN Shown("rows"), page = "websites", AddMonitor(i)
  PROVE  BaseInv'
<1>1. PICK k \in Keys : k = Shown("rows")[i].key
  BY ShownRows DEF Tables
<1> DEFINE c == [Call("insert", "mons", 0) EXCEPT !.key = k]
<1>2. c \in CallSet /\ c.do = "insert" /\ c.id = 0 /\ c.known = 0 /\ c.on = "mons" /\ c.key = k
  BY DEF Call, CallSet, Dos, Tables, Names
<1>3. Start("check", 0, <<c>>, k, 0) /\ lastMon' = gestures'
      /\ UNCHANGED <<scene, db, changes, q, form, target, others, faults>>
  BY <1>1 DEF AddMonitor
<1> HIDE DEF c
<1>4. CallOK(c) /\ Keyed(c)
  BY <1>2 DEF CallOK, Keyed, BaseInv, CountsOK
<1>5. "check" \in Whats /\ "check" \notin Slots
  BY DEF Whats, Slots
<1>6. gestures \in Nat /\ gestures' = gestures + 1 /\ 0 \in Nat /\ 0 \in 0..gestures
  BY <1>3, SceneFacts DEF BaseInv, CountsOK, Start, Gesture
<1>7. Moves
  BY <1>3, <1>6, NoMove DEF BaseInv
<1>8. WebsiteOp(NewOp("check", 0, <<c>>, k, 0))
  <2>1. PICK o : o = NewOp("check", 0, <<c>>, k, 0)
    OBVIOUS
  <2>2. o.what = "check" /\ o.calls = <<c>> /\ o.ver["rows"] = 0 /\ o.key = k
    BY <2>1 DEF NewOp, Tables
  <2>3. \A j \in DOMAIN o.calls : o.calls[j] = c
    BY <1>4, <2>2, SingleCall
  <2>4. WebsiteOp(o)
    BY <1>2, <2>2, <2>3 DEF WebsiteOp
  <2> QED
    BY <2>1, <2>4
<1>9. /\ <<c>> \in Seq(CallSet) /\ Len(<<c>>) <= 2
      /\ \A j \in DOMAIN <<c>> : CallOK(<<c>>[j]) /\ Keyed(<<c>>[j])
  BY <1>4, SingleCall
<1>10. OpsOK' /\ gestures' = gestures + 1 /\ gestures < scene.gestures
  BY <1>3, <1>5, <1>6, <1>7, <1>8, <1>9, Started
<1> QED
  BY <1>3, <1>10, StartBase

\* The calls of a deletion: the row's, and the check's the dialog aimed at.
Deletion(g) == << Call("remove", "rows", g.id) >> \o
                 IF g.mon = 0 THEN << >> ELSE << Call("remove", "mons", g.mon) >>

LEMMA DeletionFacts ==
  ASSUME BaseInv, NEW g \in TargetSet, TargetOK(g)
  PROVE  /\ Deletion(g) \in Seq(CallSet) /\ Len(Deletion(g)) = IF g.mon = 0 THEN 1 ELSE 2
         /\ \A j \in DOMAIN Deletion(g) :
              /\ CallOK(Deletion(g)[j]) /\ Deletion(g)[j].do = "remove"
              /\ Deletion(g)[j].on = IF j = 1 THEN "rows" ELSE "mons"
              /\ Deletion(g)[j].id = IF j = 1 THEN g.id ELSE g.mon
<1> DEFINE a == Call("remove", "rows", g.id)
           b == Call("remove", "mons", g.mon)
           D == Deletion(g)
<1>1. g.id \in Nat /\ g.id <= changes /\ g.mon \in Nat /\ g.mon <= changes /\ changes \in Nat
  BY DEF TargetOK, TargetSet, NoTarget, BaseInv, CountsOK
<1>2. /\ a \in CallSet /\ a.do = "remove" /\ a.on = "rows" /\ a.id = g.id /\ a.known = 0
      /\ b \in CallSet /\ b.do = "remove" /\ b.on = "mons" /\ b.id = g.mon /\ b.known = 0
  BY <1>1, CallFacts DEF Dos, Tables
<1>3. D = << a >> \o IF g.mon = 0 THEN << >> ELSE << b >>
  BY DEF Deletion
<1> HIDE DEF a, b, D
<1>4. CallOK(a) /\ CallOK(b)
  BY <1>1, <1>2 DEF CallOK
<1>5. CASE g.mon = 0
  <2>1. D = <<a>>
    BY <1>2, <1>3, <1>5
  <2> QED
    BY <1>2, <1>4, <1>5, <2>1, SingleCall DEF D
<1>6. CASE g.mon # 0
  <2>1. D = <<a>> \o <<b>>
    BY <1>3, <1>6
  <2>2. <<b>> \in Seq(CallSet) /\ Len(<<b>>) = 1 /\ <<b>>[1] = b
    BY <1>2
  <2>3. D \in Seq(CallSet) /\ Len(D) = 2 /\ D[1] = a /\ D[2] = b
    BY <1>2, <2>1, <2>2, OneOrTwo
  <2> QED
    BY <1>2, <1>4, <1>6, <2>3 DEF D
<1> QED
  BY <1>5, <1>6

LEMMA ConfirmDeleteBase ==
  ASSUME BaseInv, ConfirmDelete
  PROVE  BaseInv'
<1>1. PICK g \in TargetSet : g = target /\ TargetOK(g)
  BY DEF BaseInv, TargetOK, ConfirmDelete
<1> DEFINE D == Deletion(g)
<1>2. Start("delete", 0, D, g.key, g.aim) /\ target' = NoTarget
      /\ UNCHANGED <<scene, db, changes, q, form, lastMon, others, faults>>
  BY <1>1 DEF ConfirmDelete, Deletion
<1>3. /\ D \in Seq(CallSet) /\ Len(D) = IF g.mon = 0 THEN 1 ELSE 2
      /\ \A j \in DOMAIN D : /\ CallOK(D[j]) /\ D[j].do = "remove"
                             /\ D[j].on = IF j = 1 THEN "rows" ELSE "mons"
                             /\ D[j].id = IF j = 1 THEN g.id ELSE g.mon
  BY <1>1, DeletionFacts
<1> HIDE DEF D
<1>4. /\ "delete" \in Whats /\ "delete" \notin Slots /\ g.key \in Keys /\ g.aim \in Nat
      /\ g.mon = g.aim /\ (page = "websites" => KeyKept("rows", g.id, g.key))
  BY <1>1 DEF Whats, Slots, TargetSet, TargetOK, NoTarget, BaseInv, ConfirmDelete
<1>5. gestures \in Nat /\ gestures' = gestures + 1 /\ 0 \in Nat /\ 0 \in 0..gestures
  BY <1>2, SceneFacts DEF BaseInv, CountsOK, Start, Gesture
<1>6. Moves
  BY <1>2, <1>5, NoMove DEF BaseInv
<1>7. ASSUME page = "websites" PROVE WebsiteOp(NewOp("delete", 0, D, g.key, g.aim))
  <2>1. PICK o : o = NewOp("delete", 0, D, g.key, g.aim)
    OBVIOUS
  <2>2. /\ o.what = "delete" /\ o.calls = D /\ o.key = g.key /\ o.aim = g.aim
        /\ o.at = Begun(D)
    BY <2>1 DEF NewOp
  <2>3. DOMAIN D = 1..Len(D) /\ D # << >>
    <3>1. D \in Seq(CallSet) /\ (Len(D) = 1 \/ Len(D) = 2)
      BY <1>3
    <3> QED
      BY <3>1
  <2>4. o.at # "ok"
    BY <2>2, <2>3 DEF Begun
  <2>5. DeleteOK(o)
    BY <1>3, <1>4, <1>7, <2>2, <2>3, <2>4 DEF DeleteOK
  <2>6. WebsiteOp(o)
    BY <1>3, <2>2, <2>5 DEF WebsiteOp
  <2> QED
    BY <2>1, <2>6
<1>8. OpsOK' /\ gestures' = gestures + 1 /\ gestures < scene.gestures
  BY <1>2, <1>3, <1>4, <1>5, <1>6, <1>7, Started DEF Keyed
<1> QED
  BY <1>2, <1>8, StartBase

-----------------------------------------------------------------------------
(* BaseInv: forms and the dialog.                                          *)

LEMMA FormBase ==
  ASSUME BaseInv, UNCHANGED <<scene, db, changes, q, target, ops, lastMon, others, faults>>,
         gestures' \in {gestures, gestures + 1}, gestures' <= scene.gestures,
         NEW slot \in Slots, NEW f, form' = [form EXCEPT ![slot] = f], FormOK(slot, f)'
  PROVE  BaseInv'
<1>1. CountsOK'
  BY SceneFacts DEF BaseInv, CountsOK
<1>2. Moves /\ DbOK'
  BY NoMove DEF BaseInv
<1>3. QueriesOK' /\ OpsOK' /\ TargetOK(target)'
  BY <1>2, QueriesStay, OpsStay, TargetStays DEF BaseInv
<1>4. ASSUME NEW s \in Slots PROVE FormOK(s, form[s])'
  <2>1. CASE s = slot
    BY <2>1 DEF BaseInv, FormsOK
  <2>2. CASE s # slot
    <3>1. form'[s] = form[s] /\ FormOK(s, form[s])
      BY <2>2 DEF BaseInv, FormsOK
    <3>2. \A x : FormOK(s, x) => FormOK(s, x)'
      BY <1>2, FormStays
    <3> QED
      BY <3>1, <3>2
  <2> QED
    BY <2>1, <2>2
<1>5. DOMAIN form' = Slots
  BY DEF BaseInv, FormsOK
<1> QED
  BY <1>1, <1>2, <1>3, <1>4, <1>5 DEF BaseInv, FormsOK

LEMMA NoFormOK == ASSUME NEW s PROVE FormOK(s, NoForm)
BY DEF FormOK, NoForm, FormSet

LEMMA CloseBase ==
  ASSUME BaseInv, NEW slot \in Slots, Close(slot)
  PROVE  BaseInv'
<1>1. /\ UNCHANGED <<scene, db, changes, q, target, ops, lastMon, gestures, others, faults>>
      /\ form' = [form EXCEPT ![slot] = NoForm] /\ gestures <= scene.gestures
  BY SceneFacts DEF Close, bounds, BaseInv, CountsOK
<1>2. FormOK(slot, NoForm)'
  BY NoFormOK DEF FormOK, NoForm, FormSet
<1> QED
  BY <1>1, <1>2, FormBase

\* What opening a form puts in it.
CallsOK(slot, calls) ==
  /\ calls \in Seq(CallSet) /\ Len(calls) <= 2
  /\ \A j \in DOMAIN calls :
       /\ CallOK(calls[j]) /\ calls[j].do \in {"insert", "update", "upsert"}
       /\ page = "websites" => calls[j].do = (IF slot = "edit" THEN "update" ELSE "insert")

LEMMA OpenBase ==
  ASSUME BaseInv, NEW slot \in Slots, NEW calls, CallsOK(slot, calls), Open(slot, calls)
  PROVE  BaseInv'
<1>1. /\ UNCHANGED <<scene, db, changes, q, target, ops, lastMon, others, faults>>
      /\ gestures' = gestures + 1 /\ gestures' <= scene.gestures /\ gestures \in Nat
      /\ form' = [form EXCEPT ![slot] = [n |-> gestures', calls |-> calls]]
  BY SceneFacts DEF Open, Gesture, BaseInv, CountsOK
<1>2. PICK g \in Nat : g = gestures'
  BY <1>1
<1>3. PICK f : f = [n |-> g, calls |-> calls]
  OBVIOUS
<1>4. Moves /\ page' = page
  BY <1>1, NoMove DEF BaseInv, page
<1>5. \A j \in DOMAIN calls : CallOK(calls[j])'
  BY <1>4, CallStays DEF CallsOK
<1>6. f \in FormSet /\ f.n = g /\ f.calls = calls /\ f.n \in 1..gestures'
  BY <1>1, <1>2, <1>3 DEF CallsOK, FormSet
<1>7. FormOK(slot, f)'
  BY <1>4, <1>5, <1>6 DEF CallsOK, FormOK
<1> QED
  BY <1>1, <1>2, <1>3, <1>7, FormBase
\* What was reported as done, and what a query has or is about to have.
AckInv ==
  /\ \A t \in Tables : acked[t] \in Nat /\ acked[t] <= changes
  /\ \A t \in Listed :
       /\ Settled(t) => q[t].asOf >= acked[t]
       /\ q[t].fetch = "read" /\ ~q[t].joined => q[t].snapAt >= acked[t]

LEMMA OneCallOK ==
  ASSUME NEW slot, NEW c, CallOK(c), c.do \in {"insert", "update", "upsert"},
         page = "websites" => c.do = (IF slot = "edit" THEN "update" ELSE "insert")
  PROVE  CallsOK(slot, <<c>>)
BY SingleCall DEF CallsOK

LEMMA TwoCallsOK ==
  ASSUME NEW slot, NEW a, NEW b, CallOK(a), CallOK(b), a.do = b.do,
         a.do = (IF slot = "edit" THEN "update" ELSE "insert")
  PROVE  CallsOK(slot, <<a, b>>) /\ <<a>> \o <<b>> = <<a, b>>
<1>1. a \in CallSet /\ b \in CallSet
  BY DEF CallOK
<1> DEFINE s == <<a, b>>
           r == <<a>> \o <<b>>
<1>2. s \in Seq(CallSet) /\ Len(s) = 2 /\ DOMAIN s = {1, 2} /\ s[1] = a /\ s[2] = b
  BY <1>1
<1>3. <<b>> \in Seq(CallSet) /\ Len(<<b>>) = 1 /\ <<b>>[1] = b
  BY <1>1
<1>4. r \in Seq(CallSet) /\ Len(r) = 2 /\ r[1] = a /\ r[2] = b
  BY <1>1, <1>3, OneOrTwo
<1> HIDE DEF r, s
<1>5. \A i \in 1..Len(r) : r[i] = s[i]
  BY <1>2, <1>4
<1>6. r = s
  BY <1>2, <1>4, <1>5, SeqEqual
<1>7. \A j \in DOMAIN s : (j = 1 /\ s[j] = a) \/ (j = 2 /\ s[j] = b)
  BY <1>2
<1>8. \A j \in DOMAIN s :
        CallOK(s[j]) /\ s[j].do = (IF slot = "edit" THEN "update" ELSE "insert")
  BY <1>7
<1>9. CallsOK(slot, s)
  BY <1>2, <1>8 DEF CallsOK
<1> QED
  BY <1>6, <1>9 DEF r, s

LEMMA NewFormOK ==
  ASSUME BaseInv, page # "overview"
  PROVE  CallsOK(AddSlot, NewForm)
<1> DEFINE a == Call("insert", "rows", 0)
           b == Call("insert", "mons", 0)
           u == Call("upsert", "rows", 0)
<1>1. /\ a \in CallSet /\ a.do = "insert" /\ a.id = 0 /\ a.known = 0
      /\ b \in CallSet /\ b.do = "insert" /\ b.id = 0 /\ b.known = 0
      /\ u \in CallSet /\ u.do = "upsert" /\ u.id = 0 /\ u.known = 0 /\ u.base = 0 /\ u.on = "rows"
  BY CallFacts DEF Dos, Tables
<1>2. /\ page = "rules" => NewForm = <<a>> /\ AddSlot = "edit"
      /\ page = "assets" => NewForm = <<u>> /\ AddSlot = "edit"
      /\ page = "websites" => NewForm = <<a, b>> /\ AddSlot = "add"
      /\ page \in {"snmp", "dpm", "notes"} => NewForm = <<a>> /\ AddSlot = "add"
  BY DEF NewForm, AddSlot, NewRule, NewAsset, NewWebsite, NewDevice, NewDatabase, NewNote
<1>3. page \in AllPages /\ changes \in Nat
  BY SceneFacts DEF BaseInv, CountsOK, page
<1> HIDE DEF a, b, u
<1>4. page # "assets" => CallOK(a) /\ CallOK(b)
  BY <1>1, <1>3 DEF CallOK
<1>5. ASSUME page = "assets" PROVE CallOK(u)
  <2>1. \A i \in IdsOf(db["rows"], u.old) : db["rows"][i].ver \in Nat
    BY TableFacts DEF BaseInv, DbOK, InTable, IdsOf, RowSet, Tables
  <2> QED
    BY <1>1, <1>3, <1>5, <2>1 DEF CallOK, Missed
<1>6. CASE page = "assets"
  <2>1. CallsOK("edit", <<u>>)
    BY <1>1, <1>5, <1>6, OneCallOK
  <2> QED
    BY <1>2, <1>6, <2>1
<1>7. CASE page = "websites"
  <2>1. CallsOK("add", <<a, b>>)
    BY <1>1, <1>4, <1>7, TwoCallsOK
  <2> QED
    BY <1>2, <1>7, <2>1
<1>8. CASE page \in {"rules", "snmp", "dpm", "notes"}
  <2>1. CallsOK("add", <<a>>) /\ CallsOK("edit", <<a>>)
    BY <1>1, <1>4, <1>8, OneCallOK
  <2> QED
    BY <1>2, <1>8, <2>1
<1> QED
  BY <1>3, <1>6, <1>7, <1>8 DEF AllPages

\* A form opened on a row the page shows has every change of the row that
\* was reported as done, if the list was up to date.
LEMMA EditingOK ==
  ASSUME BaseInv, AckInv, NEW do \in {"update", "upsert"}, NEW t \in Listed,
         NEW i \in DOMAIN Shown(t), NEW e, e = Editing(do, t, i),
         IF page = "assets" THEN do = "upsert" /\ t = "rows" ELSE do = "update"
  PROVE  CallOK(e) /\ e.do = do /\ e.on = t /\ e.id = i
<1>1. t \in Tables /\ changes \in Nat
  BY DEF Listed, BaseInv, CountsOK, Tables
<1>2. /\ i \in Nat /\ i <= changes /\ Shown(t)[i].key \in Keys /\ Shown(t)[i].ver \in Nat
      /\ page = "websites" => KeyKept(t, i, Shown(t)[i].key)
      /\ Shown(t) = q[t].data /\ CopyOK(t, q[t].data, q[t].asOf)
  BY <1>1, ShownRows
<1>3. Known(t) \in Nat /\ Known(t) <= changes /\ acked[t] \in Nat
  BY <1>1 DEF Known, AckInv
<1>4. PICK c \in CallSet : c = Call(do, t, i) /\ c.do = do /\ c.on = t /\ c.id = i
  BY <1>1, <1>2, CallFacts DEF Dos
<1>5. /\ e.do = do /\ e.on = t /\ e.id = i /\ e.key = Shown(t)[i].key /\ e.old = Shown(t)[i].key
      /\ e.base = Shown(t)[i].ver /\ e.known = Known(t) /\ e \in CallSet
  <2>1. PICK k \in Keys, v \in Nat, w \in Nat :
          k = Shown(t)[i].key /\ v = Shown(t)[i].ver /\ w = Known(t)
    BY <1>2, <1>3
  <2>2. e = [c EXCEPT !.key = k, !.old = k, !.base = v, !.known = w]
    BY <1>4, <2>1 DEF Editing
  <2>3. /\ e \in CallSet /\ e.do = c.do /\ e.on = c.on /\ e.id = c.id
        /\ e.key = k /\ e.old = k /\ e.base = v /\ e.known = w
    BY <2>2 DEF CallSet, Names
  <2> QED
    BY <1>4, <2>1, <2>3
<1>6. \A j \in DOMAIN db[t] : db[t][j].ver \in Nat /\ db[t][j].ver > 0
  BY <1>1, TableFacts DEF BaseInv, DbOK, InTable, RowSet
<1>7. ASSUME NEW j \in DOMAIN db[t], db[t][j].ver <= Known(t)
      PROVE  j \in DOMAIN Shown(t) /\ Shown(t)[j] = db[t][j]
  <2>1. Known(t) # 0
    BY <1>3, <1>6, <1>7
  <2>2. Settled(t) /\ Known(t) = acked[t]
    BY <2>1 DEF Known
  <2>3. q[t].asOf >= acked[t] /\ q[t].asOf \in Nat
    BY <1>1, <1>2, <2>2 DEF AckInv, CopyOK
  <2>4. db[t][j].ver <= q[t].asOf
    BY <1>3, <1>6, <1>7, <2>2, <2>3
  <2> QED
    BY <1>2, <2>4 DEF CopyOK
<1>8. i \in DOMAIN db[t] => ~Missed(e, db[t][i].ver)
  BY <1>2, <1>3, <1>5, <1>6, <1>7 DEF Missed
<1>9. ASSUME do = "upsert", NEW j \in IdsOf(db["rows"], e.old)
      PROVE  ~Missed(e, db["rows"][j].ver)
  <2>1. page = "assets" /\ t = "rows"
    BY <1>9
  <2>2. UniqueKeys(q[t].data)
    BY <1>2, <2>1 DEF CopyOK
  <2>3. db[t][j].ver <= Known(t) => i = j /\ Shown(t)[j] = db[t][j]
    BY <1>2, <1>5, <1>7, <1>9, <2>1, <2>2 DEF IdsOf, UniqueKeys
  <2>4. j \in DOMAIN db[t]
    BY <1>9, <2>1 DEF IdsOf
  <2> QED
    BY <1>2, <1>3, <1>5, <1>6, <2>1, <2>3, <2>4 DEF Missed
<1> QED
  BY <1>1, <1>2, <1>3, <1>5, <1>8, <1>9 DEF CallOK

LEMMA EditFormOK ==
  ASSUME BaseInv, AckInv, NEW i \in DOMAIN Shown("rows"),
         page \in {"rules", "assets", "websites", "snmp"}
  PROVE  CallsOK("edit", EditForm(i))
<1>1. "rows" \in Listed
  BY DEF Listed, Tables
<1>2. CASE page = "assets"
  <2>1. PICK e : e = Editing("upsert", "rows", i)
    OBVIOUS
  <2>2. EditForm(i) = <<e>>
    BY <1>2, <2>1 DEF EditForm, AssetForm
  <2>3. CallOK(e) /\ e.do = "upsert"
    BY <1>1, <1>2, <2>1, EditingOK
  <2> QED
    BY <1>2, <2>2, <2>3, OneCallOK
<1>3. CASE page # "assets"
  <2>1. PICK e : e = Editing("update", "rows", i)
    OBVIOUS
  <2>2. CallOK(e) /\ e.do = "update"
    BY <1>1, <1>3, <2>1, EditingOK
  <2>3. CASE page \in {"rules", "snmp"}
    <3>1. EditForm(i) = <<e>>
      BY <2>1, <2>3 DEF EditForm, RuleForm, DeviceForm
    <3> QED
      BY <2>2, <2>3, <3>1, OneCallOK
  <2>4. CASE page = "websites"
    <3> DEFINE m == MonitorOf(Shown("rows")[i].key)
    <3>1. EditForm(i) = <<e>> \o IF m = 0 THEN << >> ELSE << Editing("update", "mons", m) >>
      BY <2>1, <2>4 DEF EditForm, WebsiteForm
    <3>2. m # 0 => m \in DOMAIN Shown("mons")
      BY MonitorFact DEF IdsOf
    <3> HIDE DEF m
    <3>3. CASE m = 0
      <4>1. EditForm(i) = <<e>>
        BY <2>2, <3>1, <3>3 DEF CallOK
      <4> QED
        BY <2>2, <4>1, OneCallOK
    <3>4. CASE m # 0
      <4>1. PICK f : f = Editing("update", "mons", m)
        OBVIOUS
      <4>2. CallOK(f) /\ f.do = "update"
        BY <1>3, <2>4, <3>2, <3>4, <4>1, EditingOK DEF Listed, Tables
      <4>3. EditForm(i) = <<e>> \o <<f>>
        BY <3>1, <3>4, <4>1
      <4> QED
        BY <2>2, <4>2, <4>3, TwoCallsOK
    <3> QED
      BY <3>3, <3>4
  <2> QED
    BY <1>3, <2>3, <2>4
<1> QED
  BY <1>2, <1>3

LEMMA AskDeleteBase ==
  ASSUME BaseInv, NEW i \in DOMAIN Shown("rows"), AskDelete(i)
  PROVE  BaseInv'
<1> DEFINE k == Shown("rows")[i].key
           ms == IdsOf(Shown("mons"), k)
<1>1. /\ UNCHANGED <<scene, db, changes, q, form, ops, lastMon, gestures, others, faults>>
      /\ target' = [id |-> i, key |-> k, mon |-> MonitorOf(k),
                    aim |-> IF ms = {} THEN 0 ELSE Min(ms)]
  BY DEF AskDelete, bounds
<1>2. /\ i \in 1..changes /\ i \in Nat /\ k \in Keys
      /\ page = "websites" => KeyKept("rows", i, k)
  BY ShownRows DEF Tables
<1>3. /\ MonitorOf(k) \in Nat /\ MonitorOf(k) <= changes
      /\ MonitorOf(k) = IF ms = {} THEN 0 ELSE Min(ms)
  BY MonitorFact
<1>4. PICK key \in Keys, mon \in Nat :
        key = k /\ mon = MonitorOf(k) /\ mon = IF ms = {} THEN 0 ELSE Min(ms)
  BY <1>2, <1>3
<1> HIDE DEF k, ms
<1>5. PICK g : g = [id |-> i, key |-> key, mon |-> mon, aim |-> mon]
  OBVIOUS
<1>6. target' = g
  BY <1>1, <1>4, <1>5
<1>7. TargetOK(g)
  BY <1>2, <1>3, <1>4, <1>5 DEF TargetOK, TargetSet
<1>8. Moves /\ DbOK'
  BY <1>1, NoMove DEF BaseInv
<1>9. TargetOK(target)'
  BY <1>6, <1>7, <1>8, TargetStays
<1>10. QueriesOK' /\ FormsOK' /\ OpsOK' /\ CountsOK'
  BY <1>1, <1>8, QueriesStay, FormsStay, OpsStay DEF BaseInv, CountsOK
<1> QED
  BY <1>8, <1>9, <1>10 DEF BaseInv

LEMMA CancelDeleteBase ==
  ASSUME BaseInv, CancelDelete
  PROVE  BaseInv'
<1>1. /\ UNCHANGED <<scene, db, changes, q, form, ops, lastMon, gestures, others, faults>>
      /\ target' = NoTarget
  BY DEF CancelDelete, bounds
<1>2. Moves /\ DbOK'
  BY <1>1, NoMove DEF BaseInv
<1> QED
  BY <1>1, <1>2, QueriesStay, FormsStay, OpsStay DEF BaseInv, CountsOK, TargetOK

LEMMA RefreshBase ==
  ASSUME BaseInv, Refresh
  PROVE  BaseInv'
<1>1. /\ UNCHANGED <<scene, db, changes, form, target, ops, lastMon, others, faults>>
      /\ q' = Refetch({"rows"}) /\ gestures < scene.gestures /\ gestures' = gestures + 1
  BY DEF Refresh, Gesture
<1>2. CountsOK'
  BY <1>1, SceneFacts DEF BaseInv, CountsOK
<1>3. Moves /\ DbOK'
  BY <1>1, NoMove DEF BaseInv
<1>4. QueriesOK'
  BY <1>1, <1>3, RefetchOK DEF BaseInv
<1> QED
  BY <1>1, <1>2, <1>3, <1>4, FormsStay, OpsStay, TargetStays DEF BaseInv

LEMMA ClickBase ==
  ASSUME BaseInv, AckInv, Click
  PROVE  BaseInv'
<1>1. CASE OpenNew
  <2>1. page # "overview" /\ Open(AddSlot, NewForm) /\ AddSlot \in Slots
    BY <1>1 DEF OpenNew, AddSlot, Slots
  <2> QED
    BY <2>1, NewFormOK, OpenBase
<1>2. ASSUME NEW s \in Slots, Close(s) PROVE BaseInv'
  BY <1>2, CloseBase
<1>3. ASSUME NEW s \in Slots, NEW k \in Keys, Save(s, k) PROVE BaseInv'
  BY <1>3, SaveBase
<1>4. ASSUME NEW i \in DOMAIN Shown("rows"), OpenEdit(i),
             page \in {"rules", "assets", "websites", "snmp"}
      PROVE  BaseInv'
  BY <1>4, EditFormOK, OpenBase DEF OpenEdit, Slots
<1>5. ASSUME NEW i \in DOMAIN Shown("rows"),
             \/ RuleRow(i) \/ AssetRow(i) \/ WebsiteCard(i) \/ DeviceCard(i)
             \/ InstanceCard(i) \/ NoteItem(i)
      PROVE  BaseInv'
  <2>1. CASE RuleRow(i)
    BY <1>4, <2>1, ToggleBase, AskDeleteBase DEF RuleRow
  <2>2. CASE AssetRow(i) \/ DeviceCard(i)
    BY <1>4, <2>2, AskDeleteBase DEF AssetRow, DeviceCard
  <2>3. CASE WebsiteCard(i)
    <3>1. ASSUME NEW m, m = MonitorOf(Shown("rows")[i].key), m # 0, Probe("mons", m)
          PROVE  BaseInv'
      <4>1. m \in 1..changes
        BY <3>1, MonitorFact DEF BaseInv, CountsOK
      <4> QED
        BY <2>3, <3>1, <4>1, ProbeBase DEF WebsiteCard, Tables
    <3> QED
      BY <1>4, <2>3, <3>1, AskDeleteBase, AddMonitorBase DEF WebsiteCard
  <2>4. CASE InstanceCard(i)
    <3>1. i \in 1..changes /\ "rows" \in Tables
      BY ShownRows DEF Tables
    <3> QED
      BY <2>4, <3>1, ProbeBase, AskDeleteBase DEF InstanceCard
  <2>5. CASE NoteItem(i)
    BY <2>5, DeleteNoteBase DEF NoteItem
  <2> QED
    BY <1>5, <2>1, <2>2, <2>3, <2>4, <2>5
<1>6. ASSUME NEW k \in Keys, HostCard(k) PROVE BaseInv'
  BY <1>6, ToggleMaintenanceBase DEF HostCard
<1>7. CASE Refresh \/ CancelDelete \/ ConfirmDelete
  BY <1>7, RefreshBase, CancelDeleteBase, ConfirmDeleteBase
<1> QED
  BY <1>1, <1>2, <1>3, <1>5, <1>6, <1>7 DEF Click

-----------------------------------------------------------------------------
(* BaseInv: calls on their way, and their answers.                         *)

LEMMA OpsBase ==
  ASSUME BaseInv, UNCHANGED <<scene, db, changes, q, target, lastMon, gestures, others>>,
         faults' \in {faults, faults + 1}, faults' <= scene.faults, FormsOK', OpsOK'
  PROVE  BaseInv'
<1>1. CountsOK'
  BY SceneFacts DEF BaseInv, CountsOK
<1>2. Moves /\ DbOK'
  BY NoMove DEF BaseInv
<1> QED
  BY <1>1, <1>2, QueriesStay, TargetStays DEF BaseInv

\* One call is replaced, the others are what they were.
LEMMA OneOpStep ==
  ASSUME Moves, OpsOK, NEW n \in DOMAIN ops, DOMAIN ops' = DOMAIN ops, OpOK(n, ops[n])',
         \A m \in DOMAIN ops \ {n} : ops'[m] = ops[m]
  PROVE  OpsOK'
<1>1. DOMAIN ops' \subseteq 1..gestures'
  BY DEF OpsOK, Moves
<1>2. \A m \in DOMAIN ops' : (m \in DOMAIN ops /\ ops'[m] = ops[m]) \/ OpOK(m, ops[m])'
  OBVIOUS
<1> QED
  BY <1>1, <1>2, OpsStep

LEMMA OpsLess ==
  ASSUME Moves, OpsOK, NEW n, ops' = Restrict(ops, DOMAIN ops \ {n})
  PROVE  OpsOK'
<1>1. DOMAIN ops' = DOMAIN ops \ {n} /\ \A m \in DOMAIN ops' : ops'[m] = ops[m]
  BY DEF Restrict
<1>2. DOMAIN ops' \subseteq 1..gestures'
  BY <1>1 DEF OpsOK, Moves
<1> QED
  BY <1>1, <1>2, OpsStep

LEMMA LoseBase ==
  ASSUME BaseInv, NEW n \in DOMAIN ops, Lose(n)
  PROVE  BaseInv'
<1>1. /\ UNCHANGED <<scene, db, changes, q, form, target, lastMon, gestures, others>>
      /\ faults' = faults + 1 /\ faults < scene.faults /\ faults' <= scene.faults
      /\ ops[n].at = "asked" /\ ops' = [ops EXCEPT ![n].at = "refused"]
  BY SceneFacts DEF Lose, BaseInv, CountsOK
<1>2. Moves
  BY <1>1, NoMove DEF BaseInv, CountsOK
<1>3. PICK op, o : op = ops[n] /\ o = [op EXCEPT !.at = "refused"]
  OBVIOUS
<1>4. OpOK(n, op) /\ op \in OpSet /\ op.calls # << >>
  BY <1>1, <1>3 DEF BaseInv, OpsOK, OpOK
<1>5. /\ o \in OpSet /\ o.what = op.what /\ o.form = op.form /\ o.calls = op.calls
      /\ o.key = op.key /\ o.aim = op.aim /\ o.at = "refused" /\ o.ver = op.ver
      /\ o.since = op.since
  BY <1>3, <1>4 DEF OpSet, Answers
<1>6. OpOK(n, o)'
  BY <1>2, <1>4, <1>5, SameOp, OpStays
<1>7. /\ DOMAIN ops' = DOMAIN ops /\ ops'[n] = o /\ \A m \in DOMAIN ops \ {n} : ops'[m] = ops[m]
  BY <1>1, <1>3
<1>8. OpsOK'
  BY <1>2, <1>6, <1>7, OneOpStep DEF BaseInv
<1> QED
  BY <1>1, <1>2, <1>8, OpsBase, FormsStay DEF BaseInv

LEMMA TailOfTwo ==
  ASSUME NEW S, NEW s \in Seq(S), Len(s) > 1, Len(s) <= 2, NEW t, t = Tail(s)
  PROVE  /\ Len(s) = 2 /\ t \in Seq(S) /\ Len(t) = 1 /\ t[1] = s[2] /\ 2 \in DOMAIN s
         /\ t # << >> /\ DOMAIN t = {1}
<1>1. PICK m \in Nat : m = Len(s)
  OBVIOUS
<1>2. m > 1 /\ m <= 2
  BY <1>1
<1>3. m = 2
  BY <1>2
<1>4. Len(s) = 2
  BY <1>1, <1>3
<1>5. s # << >>
  BY <1>4
<1>6. t \in Seq(S) /\ Len(t) = Len(s) - 1 /\ \A i \in 1..Len(t) : t[i] = s[i + 1]
  BY <1>5, HeadTailProperties
<1>7. Len(t) = 1
  BY <1>4, <1>6
<1>8. PICK i : i = 1
  OBVIOUS
<1>9. i \in 1..Len(t) /\ i + 1 = 2
  BY <1>7, <1>8
<1>10. t[i] = s[i + 1]
  BY <1>6, <1>9
<1>11. 2 \in DOMAIN s
  BY <1>4
<1>12. t # << >> /\ DOMAIN t = {1}
  BY <1>6, <1>7
<1> QED
  BY <1>4, <1>6, <1>7, <1>8, <1>9, <1>10, <1>11, <1>12

LEMMA NextCallBase ==
  ASSUME BaseInv, NEW n \in DOMAIN ops, NextCall(n)
  PROVE  BaseInv'
<1>1. /\ UNCHANGED <<scene, db, changes, q, form, target, lastMon, gestures, others, faults>>
      /\ Len(ops[n].calls) > 1 /\ ops' = [ops EXCEPT ![n].calls = Tail(@), ![n].at = "asked"]
      /\ faults <= scene.faults
  BY SceneFacts DEF NextCall, bounds, BaseInv, CountsOK
<1>2. Moves
  BY <1>1, NoMove DEF BaseInv, CountsOK
<1>3. PICK op, o : op = ops[n] /\ o = [op EXCEPT !.calls = Tail(@), !.at = "asked"]
  OBVIOUS
<1>4. OpOK(n, op) /\ op \in OpSet /\ op.calls \in Seq(CallSet)
      /\ Len(op.calls) > 1 /\ Len(op.calls) <= 2
  BY <1>1, <1>3 DEF BaseInv, OpsOK, OpOK, OpSet
<1>5. PICK cs \in Seq(CallSet), t \in Seq(CallSet) :
        /\ cs = op.calls /\ t = Tail(cs) /\ Len(cs) = 2 /\ 2 \in DOMAIN cs
        /\ Len(t) = 1 /\ t[1] = cs[2] /\ t # << >> /\ DOMAIN t = {1}
  <2>1. PICK cs \in Seq(CallSet) : cs = op.calls
    BY <1>4
  <2>2. PICK t : t = Tail(cs)
    OBVIOUS
  <2>3. Len(cs) = 2 /\ t \in Seq(CallSet) /\ Len(t) = 1 /\ t[1] = cs[2] /\ 2 \in DOMAIN cs
        /\ t # << >> /\ DOMAIN t = {1}
    BY <1>4, <2>1, <2>2, TailOfTwo
  <2> QED
    BY <2>1, <2>2, <2>3
<1>6. /\ o \in OpSet /\ o.what = op.what /\ o.form = op.form /\ o.calls = t
      /\ o.key = op.key /\ o.aim = op.aim /\ o.at = "asked" /\ o.ver = op.ver
      /\ o.since = op.since
  BY <1>3, <1>4, <1>5 DEF OpSet, Answers
<1>7. 2 \in DOMAIN cs /\ t # << >> /\ Len(t) = 1 /\ \A j \in DOMAIN t : j = 1 /\ t[j] = cs[2]
  BY <1>5
<1>8. ASSUME WebsiteOp(op) PROVE WebsiteOp(o)
  <2>1. ASSUME DeleteOK(op) PROVE DeleteOK(o)
    <3>1. cs[2].do = "remove" /\ cs[2].on = "mons" /\ cs[2].id = op.aim
      BY <1>5, <2>1 DEF DeleteOK
    <3> QED
      BY <1>6, <1>7, <3>1 DEF DeleteOK
  <2> QED
    BY <1>5, <1>6, <1>7, <1>8, <2>1 DEF WebsiteOp
<1>9. OpOK(n, o)
  BY <1>4, <1>5, <1>6, <1>7, <1>8 DEF OpOK
<1>10. OpOK(n, o)'
  BY <1>2, <1>9, OpStays
<1>11. /\ DOMAIN ops' = DOMAIN ops /\ ops'[n] = o /\ \A m \in DOMAIN ops \ {n} : ops'[m] = ops[m]
  BY <1>1, <1>3
<1>12. OpsOK'
  BY <1>2, <1>10, <1>11, OneOpStep DEF BaseInv
<1> QED
  BY <1>1, <1>2, <1>12, OpsBase, FormsStay DEF BaseInv

LEMMA CallFailsBase ==
  ASSUME BaseInv, NEW n \in DOMAIN ops, CallFails(n)
  PROVE  BaseInv'
<1>1. /\ UNCHANGED <<scene, db, changes, q, form, target, lastMon, gestures, others, faults>>
      /\ ops' = Restrict(ops, DOMAIN ops \ {n}) /\ faults <= scene.faults
  BY SceneFacts DEF CallFails, bounds, BaseInv, CountsOK
<1>2. Moves
  BY <1>1, NoMove DEF BaseInv, CountsOK
<1> QED
  BY <1>1, <1>2, OpsLess, OpsBase, FormsStay DEF BaseInv

LEMMA ClosedForms ==
  ASSUME Moves, FormsOK, NEW n, NEW slots, CloseForms(n, slots)
  PROVE  FormsOK'
<1>1. ASSUME NEW s \in Slots PROVE FormOK(s, form[s])'
  <2>1. form'[s] = NoForm \/ form'[s] = form[s]
    BY DEF CloseForms
  <2>2. FormOK(s, NoForm) /\ FormOK(s, form[s])
    BY NoFormOK DEF FormsOK
  <2>3. \A x : FormOK(s, x) => FormOK(s, x)'
    BY FormStays
  <2> QED
    BY <2>1, <2>2, <2>3
<1> QED
  BY <1>1 DEF CloseForms, FormsOK

LEMMA RefetchedBase ==
  ASSUME BaseInv, NEW n \in DOMAIN ops, Refetched(n)
  PROVE  BaseInv'
<1>1. /\ UNCHANGED <<scene, db, changes, q, target, lastMon, gestures, others, faults>>
      /\ ops' = Restrict(ops, DOMAIN ops \ {n}) /\ faults <= scene.faults
      /\ CloseForms(n, Closes(ops[n].what))
  BY SceneFacts DEF Refetched, bounds, BaseInv, CountsOK
<1>2. Moves
  BY <1>1, NoMove DEF BaseInv, CountsOK
<1> QED
  BY <1>1, <1>2, OpsLess, ClosedForms, OpsBase DEF BaseInv

\* A success fetches the lists anew that the call may have changed.
LEMMA DoneLists ==
  ASSUME BaseInv, NEW n \in DOMAIN ops,
         \/ RuleDone(n) \/ AssetDone(n) \/ WebsiteDone(n) \/ DeviceDone(n) \/ DatabaseDone(n)
         \/ NoteDone(n) \/ MaintenanceDone(n)
  PROVE  \E ts \in SUBSET Tables, waiting \in BOOLEAN :
           /\ Succeed(n, ts, waiting)
           /\ \A t \in Listed \ ts : ops[n].ver[t] = 0
<1>1. OpOK(n, ops[n])
  BY DEF BaseInv, OpsOK
<1>2. CASE page = "websites"
  <2>1. /\ Succeed(n, IF ops[n].what \in {"check", "probe"} THEN {"mons"} ELSE Tables,
                   ops[n].what \notin {"edit", "probe"})
    BY <1>2 DEF RuleDone, AssetDone, WebsiteDone, DeviceDone, DatabaseDone, NoteDone, MaintenanceDone
  <2>2. ops[n].what \in {"check", "probe"} => ops[n].ver["rows"] = 0
    BY <1>1, <1>2 DEF OpOK, WebsiteOp
  <2>3. CASE ops[n].what \in {"check", "probe"}
    <3>1. Succeed(n, {"mons"}, ops[n].what \notin {"edit", "probe"})
      BY <2>1, <2>3
    <3>2. \A t \in Listed \ {"mons"} : ops[n].ver[t] = 0
      BY <2>2, <2>3 DEF Listed, Tables
    <3> QED
      BY <3>1, <3>2 DEF Tables
  <2>4. CASE ops[n].what \notin {"check", "probe"}
    <3>1. Succeed(n, Tables, ops[n].what \notin {"edit", "probe"})
      BY <2>1, <2>4
    <3> QED
      BY <3>1 DEF Listed, Tables
  <2> QED
    BY <2>3, <2>4
<1>3. CASE page # "websites"
  <2>1. \E waiting \in BOOLEAN : Succeed(n, {"rows"}, waiting)
    BY <1>3 DEF RuleDone, AssetDone, WebsiteDone, DeviceDone, DatabaseDone, NoteDone, MaintenanceDone
  <2> QED
    BY <1>3, <2>1 DEF Listed, Tables
<1> QED
  BY <1>2, <1>3

LEMMA SucceedBase ==
  ASSUME BaseInv, NEW n \in DOMAIN ops, NEW ts \in SUBSET Tables, NEW waiting \in BOOLEAN,
         Succeed(n, ts, waiting)
  PROVE  BaseInv'
<1>1. /\ UNCHANGED <<scene, db, changes, target, lastMon, gestures, others, faults>>
      /\ q' = Refetch(ts)
  BY DEF Succeed, bounds
<1>2. Moves /\ DbOK'
  BY <1>1, NoMove DEF BaseInv, CountsOK
<1>3. QueriesOK' /\ TargetOK(target)' /\ CountsOK'
  BY <1>1, <1>2, RefetchOK, TargetStays DEF BaseInv, CountsOK
<1>4. CASE waiting
  <2>1. /\ ops' = [ops EXCEPT ![n].at = "refetch", ![n].waits = ts, ![n].calls = << >>]
        /\ form' = form
    BY <1>4 DEF Succeed
  <2>2. PICK op, o : op = ops[n] /\ o = [op EXCEPT !.at = "refetch", !.waits = ts, !.calls = << >>]
    OBVIOUS
  <2>3. OpOK(n, op) /\ op \in OpSet
    BY <2>2 DEF BaseInv, OpsOK, OpOK
  <2>4. /\ o \in OpSet /\ o.what = op.what /\ o.form = op.form /\ o.calls = << >>
        /\ o.key = op.key /\ o.aim = op.aim /\ o.at = "refetch" /\ o.ver = op.ver
        /\ o.since = op.since
    <3>1. << >> \in Seq(CallSet)
      OBVIOUS
    <3>2. o = [op EXCEPT !.at = "refetch", !.waits = ts, !.calls = << >>]
      BY <2>2
    <3> QED
      BY <2>3, <3>1, <3>2 DEF OpSet, Answers
  <2>5. DOMAIN << >> = {} /\ Len(<< >>) = 0
    OBVIOUS
  <2>6. ASSUME WebsiteOp(op) PROVE WebsiteOp(o)
    BY <2>4, <2>5, <2>6 DEF WebsiteOp, DeleteOK
  <2>7. OpOK(n, o)
    BY <2>3, <2>4, <2>5, <2>6 DEF OpOK
  <2>8. OpOK(n, o)'
    BY <1>2, <2>7, OpStays
  <2>9. /\ DOMAIN ops' = DOMAIN ops /\ ops'[n] = o /\ \A m \in DOMAIN ops \ {n} : ops'[m] = ops[m]
    BY <2>1, <2>2
  <2>10. OpsOK'
    BY <1>2, <2>8, <2>9, OneOpStep DEF BaseInv
  <2> QED
    BY <1>2, <1>3, <2>1, <2>10, FormsStay DEF BaseInv
<1>5. CASE ~waiting
  <2>1. ops' = Restrict(ops, DOMAIN ops \ {n}) /\ CloseForms(n, Closes(ops[n].what))
    BY <1>5 DEF Succeed
  <2> QED
    BY <1>2, <1>3, <2>1, OpsLess, ClosedForms DEF BaseInv
<1> QED
  BY <1>4, <1>5

-----------------------------------------------------------------------------
(* BaseInv: the server, another operator, and the beginning.               *)

LEMMA ServedCall ==
  ASSUME BaseInv, NEW n \in DOMAIN ops, ops[n].at = "asked", NEW c, c = Head(ops[n].calls)
  PROVE  /\ CallOK(c) /\ CallFits(c) /\ c = ops[n].calls[1] /\ 1 \in DOMAIN ops[n].calls
         /\ OpOK(n, ops[n]) /\ n \in Nat /\ n <= gestures
         /\ (IF ops[n].form = 0 THEN n ELSE ops[n].form) \in 0..gestures
<1>1. OpOK(n, ops[n]) /\ n \in 1..gestures /\ gestures \in Nat
  BY SceneFacts DEF BaseInv, OpsOK, CountsOK
<1>2. PICK cs \in Seq(CallSet) : cs = ops[n].calls /\ cs # << >>
  BY <1>1 DEF OpOK, OpSet
<1>3. c = cs[1] /\ 1 \in DOMAIN cs
  BY <1>2
<1>4. CallOK(c) /\ Keyed(c)
  BY <1>1, <1>2, <1>3 DEF OpOK, Keyed
<1>5. CallFits(c)
  BY <1>4 DEF CallOK, CallFits
<1>6. ops[n].form \in Nat /\ ops[n].form <= n
  BY <1>1 DEF OpOK, OpSet
<1> QED
  BY <1>1, <1>2, <1>3, <1>4, <1>5, <1>6

\* What Serve does when the server accepts the call.
Accepted(n, heard, c) ==
  /\ ~Refuses(c) /\ ApplyCall(c, IF ops[n].form = 0 THEN n ELSE ops[n].form)
  /\ ops' = [ops EXCEPT ![n].at = IF heard THEN "ok" ELSE "refused", ![n].ver[c.on] = changes']
  /\ faults' = (IF heard THEN faults ELSE faults + 1)
  /\ heard \/ faults < scene.faults
  /\ undone' = (IF c.do \in {"update", "upsert"} THEN undone \cup Undoes(c) ELSE undone)
  /\ excused' = excused \cup Strands(c, ops[n].key, ops[n].aim)

LEMMA ServeCases ==
  ASSUME NEW n, NEW heard \in BOOLEAN, Serve(n, heard), NEW c, c = Head(ops[n].calls)
  PROVE  /\ ops[n].at = "asked"
         /\ UNCHANGED <<scene, q, form, target, lastMon, gestures, others,
                        acked, left, twice, dropped, stopped>>
         /\ \/ /\ ops' = [ops EXCEPT ![n].at = "refused"]
               /\ UNCHANGED <<db, changes, faults, undone, excused>>
            \/ Accepted(n, heard, c)
BY DEF Serve, Accepted

LEMMA RemovalGone ==
  ASSUME CountsOK, DbOK, NEW c \in CallSet, NEW by \in 0..gestures,
         c.do = "remove", ApplyCall(c, by)
  PROVE  c.id \notin DOMAIN db'[c.on]
<1>1. c.on \in DOMAIN db
  BY DEF CallSet, DbOK
<1>2. db'[c.on] = [i \in DOMAIN db[c.on] \ Hit(c) |-> db[c.on][i]]
  BY <1>1 DEF ApplyCall, After, Restrict
<1>3. Hit(c) = {c.id} \cap DOMAIN db[c.on]
  BY DEF Hit
<1> QED
  BY <1>2, <1>3

LEMMA ServeBase ==
  ASSUME BaseInv, NEW n \in DOMAIN ops, NEW heard \in BOOLEAN, Serve(n, heard)
  PROVE  BaseInv'
<1>1. PICK c : c = Head(ops[n].calls)
  OBVIOUS
<1>2. /\ ops[n].at = "asked"
      /\ UNCHANGED <<scene, q, form, target, lastMon, gestures, others>>
      /\ \/ ops' = [ops EXCEPT ![n].at = "refused"] /\ UNCHANGED <<db, changes, faults>>
         \/ Accepted(n, heard, c)
  BY <1>1, ServeCases
<1>3. PICK op : op = ops[n]
  OBVIOUS
<1>4. /\ CallOK(c) /\ CallFits(c) /\ c = op.calls[1] /\ 1 \in DOMAIN op.calls
      /\ OpOK(n, op) /\ n \in Nat /\ n <= gestures /\ op.at = "asked"
      /\ (IF op.form = 0 THEN n ELSE op.form) \in 0..gestures
  BY <1>1, <1>2, <1>3, ServedCall
<1>5. op \in OpSet /\ op.calls # << >> /\ op.calls \in Seq(CallSet) /\ op.ver \in [Tables -> Nat]
  BY <1>4 DEF OpOK, OpSet
<1>6. CASE ops' = [ops EXCEPT ![n].at = "refused"] /\ UNCHANGED <<db, changes, faults>>
  <2>1. Moves /\ faults' <= scene.faults
    BY <1>2, <1>6, NoMove, SceneFacts DEF BaseInv, CountsOK
  <2>2. PICK o : o = [op EXCEPT !.at = "refused"]
    OBVIOUS
  <2>3. /\ o \in OpSet /\ o.what = op.what /\ o.form = op.form /\ o.calls = op.calls
        /\ o.key = op.key /\ o.aim = op.aim /\ o.at = "refused" /\ o.ver = op.ver
        /\ o.since = op.since
    BY <1>5, <2>2 DEF OpSet, Answers
  <2>4. OpOK(n, o)'
    BY <1>4, <1>5, <2>1, <2>3, SameOp, OpStays
  <2>5. /\ DOMAIN ops' = DOMAIN ops /\ ops'[n] = o /\ \A m \in DOMAIN ops \ {n} : ops'[m] = ops[m]
    BY <1>3, <1>6, <2>2
  <2>6. OpsOK'
    BY <2>1, <2>4, <2>5, OneOpStep DEF BaseInv
  <2> QED
    BY <1>2, <1>6, <2>1, <2>6, OpsBase, FormsStay DEF BaseInv
<1>7. CASE Accepted(n, heard, c)
  <2>1. /\ ~Refuses(c) /\ ApplyCall(c, IF op.form = 0 THEN n ELSE op.form)
        /\ ops' = [ops EXCEPT ![n].at = IF heard THEN "ok" ELSE "refused", ![n].ver[c.on] = changes']
        /\ faults' \in {faults, faults + 1} /\ (faults' = faults \/ faults < scene.faults)
    BY <1>3, <1>7 DEF Accepted
  <2>2. Moves /\ DbOK'
    BY <1>2, <1>4, <2>1, Applied DEF BaseInv
  <2>3. changes \in Nat /\ changes' \in Nat /\ changes <= changes'
    BY <2>2 DEF Moves
  <2>4. PICK at \in {"ok", "refused"}, v \in Nat :
          at = (IF heard THEN "ok" ELSE "refused") /\ v = changes'
    BY <2>3
  <2>5. PICK o : o = [op EXCEPT !.at = at, !.ver[c.on] = v]
    OBVIOUS
  <2>6. /\ o \in OpSet /\ o.what = op.what /\ o.form = op.form /\ o.calls = op.calls
        /\ o.key = op.key /\ o.aim = op.aim /\ o.at = at /\ o.since = op.since
        /\ \A t \in Tables : o.ver[t] = IF t = c.on THEN v ELSE op.ver[t]
    BY <1>5, <2>5 DEF OpSet, Answers
  <2>7. /\ DOMAIN ops' = DOMAIN ops /\ ops'[n] = o /\ \A m \in DOMAIN ops \ {n} : ops'[m] = ops[m]
    BY <1>3, <2>1, <2>4, <2>5
  <2>8. OpOK(n, op)'
    BY <1>4, <2>2, OpStays
  <2>9. page' = page /\ c.on \in Tables /\ c \in CallSet
    BY <1>2, <1>4 DEF page, CallOK, CallSet
  <2>10. ASSUME page = "websites", op.what = "delete" PROVE DeleteOK(o)'
    <3>1. DeleteOK(op)'
      BY <2>8, <2>9, <2>10 DEF OpOK, WebsiteOp
    <3>2. ASSUME op.calls[1].on = "mons" PROVE op.aim \notin DOMAIN db'["mons"]
      <4>1. c.do = "remove" /\ c.id = op.aim
        BY <1>4, <3>1, <3>2 DEF DeleteOK
      <4> QED
        BY <1>4, <2>1, <2>9, <3>2, <4>1, RemovalGone DEF BaseInv
    <3> QED
      BY <2>6, <3>1, <3>2 DEF DeleteOK
  <2>11. ASSUME page = "websites" PROVE WebsiteOp(o)'
    <3>1. WebsiteOp(op)'
      BY <2>8, <2>9, <2>11 DEF OpOK
    <3>2. op.what \in {"check", "probe"} => c.on = "mons"
      BY <1>4, <3>1 DEF WebsiteOp
    <3> QED
      BY <2>6, <2>10, <2>11, <3>1, <3>2 DEF WebsiteOp, Tables
  <2>12. OpOK(n, o)'
    <3>1. \A t \in Tables : o.ver[t] <= changes'
      BY <2>3, <2>4, <2>6, <2>8 DEF OpOK
    <3> QED
      BY <1>5, <2>4, <2>6, <2>8, <2>9, <2>11, <3>1 DEF OpOK
  <2>13. OpsOK'
    BY <2>2, <2>7, <2>12, OneOpStep DEF BaseInv
  <2>14. CountsOK'
    BY <1>2, <2>1, <2>3, SceneFacts DEF BaseInv, CountsOK
  <2> QED
    BY <1>2, <2>2, <2>13, <2>14, QueriesStay, FormsStay, TargetStays DEF BaseInv
<1> QED
  BY <1>2, <1>6, <1>7

\* The change another operator makes, as a call.
OtherCall(do, t, k, i, c) ==
  /\ c.do = do /\ c.on = t /\ c.key = k /\ c.id = i
  /\ others < scene.others /\ others' = others + 1
  /\ do = "insert" <=> i = 0
  /\ do # "insert" => i \in DOMAIN db[t] /\ db[t][i].key = k
  /\ ~Refuses(c) /\ ApplyCall(c, 0)
  /\ excused' = excused \cup Strands(c, k, 0)

LEMMA OtherCases ==
  ASSUME BaseInv, OtherChanges
  PROVE  /\ UNCHANGED <<scene, pageVars, gestures, faults, acked, left, twice, dropped, undone, stopped>>
         /\ \E do \in {"insert", "update", "remove"}, t \in Listed, k \in Keys, i \in 0..changes :
              \E c \in CallSet : OtherCall(do, t, k, i, c)
<1>1. PICK do \in {"insert", "update", "remove"}, t \in Listed, k \in Keys, i \in 0..changes :
        LET c == [Call(do, t, i) EXCEPT !.key = k] IN
        /\ others < scene.others /\ others' = others + 1
        /\ do = "insert" <=> i = 0
        /\ do # "insert" => i \in DOMAIN db[t] /\ db[t][i].key = k
        /\ ~Refuses(c) /\ ApplyCall(c, 0)
        /\ excused' = excused \cup Strands(c, k, 0)
        /\ UNCHANGED <<scene, pageVars, gestures, faults, acked, left, twice, dropped, undone, stopped>>
  BY DEF OtherChanges
<1>2. PICK c : c = [Call(do, t, i) EXCEPT !.key = k]
  OBVIOUS
<1>3. t \in Tables /\ i \in Nat
  BY DEF Listed, Tables, BaseInv, CountsOK
<1>4. c \in CallSet /\ c.do = do /\ c.on = t /\ c.key = k /\ c.id = i
  BY <1>2, <1>3 DEF Call, CallSet, Dos, Names
<1>5. OtherCall(do, t, k, i, c)
  BY <1>1, <1>2, <1>4 DEF OtherCall
<1> QED
  BY <1>1, <1>4, <1>5

LEMMA OtherBase ==
  ASSUME BaseInv, OtherChanges
  PROVE  BaseInv'
<1>1. UNCHANGED <<scene, q, form, target, ops, lastMon, gestures, faults>>
  BY OtherCases DEF pageVars
<1>2. PICK do \in {"insert", "update", "remove"}, t \in Listed, k \in Keys, i \in 0..changes, c \in CallSet :
        OtherCall(do, t, k, i, c)
  BY OtherCases
<1>3. CallFits(c) /\ 0 \in 0..gestures
  BY <1>2, SceneFacts DEF OtherCall, CallFits, Keyed, KeyKept, BaseInv, CountsOK
<1>4. Moves /\ DbOK'
  BY <1>1, <1>2, <1>3, Applied DEF OtherCall, BaseInv
<1>5. CountsOK'
  BY <1>1, <1>2, <1>4, SceneFacts DEF OtherCall, BaseInv, CountsOK, Moves
<1> QED
  BY <1>1, <1>4, <1>5, QueriesStay, FormsStay, TargetStays, OpsStay DEF BaseInv

LEMMA InitBase == Init => BaseInv /\ AckInv
<1> SUFFICES ASSUME Init PROVE BaseInv /\ AckInv
  OBVIOUS
<1>1. PICK watched \in BOOLEAN :
        db = [t \in Tables |->
                IF t = "rows" THEN [i \in {1} |-> Row(FirstKey, 1, 0)]
                ELSE [i \in IF watched THEN {2} ELSE {} |-> Row(FirstKey, 2, 0)]]
  BY DEF Init
<1>2. /\ scene \in Scenes /\ changes = 2 /\ changes \in Nat /\ lastMon = 0
      /\ gestures = 0 /\ others = 0 /\ faults = 0 /\ gestures \in Nat
  BY DEF Init
<1>3. CountsOK
  BY <1>2, SceneFacts DEF CountsOK
<1>4. DOMAIN db = Tables /\ Tables = {"rows", "mons"}
  BY <1>1 DEF Tables
<1>5. /\ Row(FirstKey, 1, 0) \in RowSet /\ Row(FirstKey, 1, 0).ver = 1 /\ Row(FirstKey, 1, 0).by = 0
      /\ Row(FirstKey, 2, 0) \in RowSet /\ Row(FirstKey, 2, 0).ver = 2 /\ Row(FirstKey, 2, 0).by = 0
  BY RowFact, ScenesAssumption
<1>6. DbOK
  <2>1. db["rows"] = [i \in {1} |-> Row(FirstKey, 1, 0)]
        /\ db["mons"] = [i \in IF watched THEN {2} ELSE {} |-> Row(FirstKey, 2, 0)]
    BY <1>1, <1>4
  <2>2. db["rows"] \in TableSet /\ db["mons"] \in TableSet
    <3>1. db["rows"] \in [{1} -> RowSet]
      BY <1>5, <2>1
    <3>2. db["mons"] \in [(IF watched THEN {2} ELSE {}) -> RowSet]
      BY <1>5, <2>1
    <3>3. {1} \in SUBSET Nat /\ (IF watched THEN {2} ELSE {}) \in SUBSET Nat
      OBVIOUS
    <3> QED
      BY <3>1, <3>2, <3>3, IntoTable
  <2>3. InTable(db["rows"])
    BY <1>2, <1>5, <2>1, <2>2 DEF InTable
  <2>4. InTable(db["mons"])
    <3>1. DOMAIN db["mons"] \subseteq {2} /\ \A i \in DOMAIN db["mons"] : db["mons"][i] = Row(FirstKey, 2, 0)
      BY <2>1
    <3> QED
      BY <1>2, <1>5, <2>2, <3>1 DEF InTable
  <2>5. UniqueKeys(db["rows"])
    BY <2>1 DEF UniqueKeys
  <2> QED
    BY <1>4, <2>3, <2>4, <2>5 DEF DbOK
<1>7. \A t \in Tables : CopyOK(t, db[t], changes) /\ CopyOK(t, EmptyTable, 0) /\ db[t] \in TableSet
  BY <1>3, <1>6, Fresh DEF DbOK, InTable
<1>8. ASSUME NEW t \in Tables
      PROVE  /\ QueryOK(t, q[t]) /\ q[t].snapAt = 0 /\ q[t].fetch # "read"
  <2>1. q[t] = [data |-> IF t \in scene.loaded THEN db[t] ELSE EmptyTable,
                asOf |-> IF t \in scene.loaded THEN changes ELSE 0,
                loaded |-> t \in scene.loaded, failed |-> FALSE, joined |-> FALSE,
                fetch |-> IF t \in Listed /\ ~(t \in scene.loaded) THEN "asked" ELSE "idle",
                snap |-> EmptyTable, snapAt |-> 0]
    BY DEF Init
  <2>2. CASE t \in scene.loaded
    <3>1. PICK d \in TableSet, v \in Nat : d = db[t] /\ v = changes
      BY <1>2, <1>7
    <3>2. q[t] = [data |-> d, asOf |-> v, loaded |-> TRUE, failed |-> FALSE, joined |-> FALSE,
                  fetch |-> "idle", snap |-> EmptyTable, snapAt |-> 0]
      BY <2>1, <2>2, <3>1
    <3>3. q[t] \in QuerySet /\ q[t].data = d /\ q[t].asOf = v /\ q[t].snap = EmptyTable
          /\ q[t].snapAt = 0 /\ q[t].fetch = "idle"
      BY <3>2, EmptyIsTable DEF QuerySet, Fetches
    <3> QED
      BY <1>7, <3>1, <3>3 DEF QueryOK
  <2>3. CASE t \notin scene.loaded
    <3>1. PICK f \in {"asked", "idle"} :
            f = IF t \in Listed /\ ~(t \in scene.loaded) THEN "asked" ELSE "idle"
      OBVIOUS
    <3>0. (t \in scene.loaded) = FALSE
      BY <2>3
    <3>2. q[t] = [data |-> EmptyTable, asOf |-> 0, loaded |-> FALSE, failed |-> FALSE,
                  joined |-> FALSE, fetch |-> f, snap |-> EmptyTable, snapAt |-> 0]
      BY <2>1, <3>0, <3>1, Zenon
    <3>3. q[t] \in QuerySet /\ q[t].data = EmptyTable /\ q[t].asOf = 0 /\ q[t].snap = EmptyTable
          /\ q[t].snapAt = 0 /\ q[t].fetch # "read"
      BY <3>2, EmptyIsTable DEF QuerySet, Fetches
    <3> QED
      BY <1>7, <3>3 DEF QueryOK
  <2> QED
    BY <2>2, <2>3
<1>9. QueriesOK
  BY <1>8 DEF QueriesOK, Init
<1>10. FormsOK /\ TargetOK(target) /\ OpsOK
  <2>1. FormsOK
    BY NoFormOK DEF Init, FormsOK
  <2>2. DOMAIN ops = {}
    BY DEF Init
  <2> QED
    BY <2>1, <2>2 DEF Init, TargetOK, OpsOK
<1>11. AckInv
  <2>1. \A t \in Tables : acked[t] = 0
    BY DEF Init
  <2>2. \A t \in Tables : q[t].asOf \in Nat
    BY <1>8 DEF QueryOK, QuerySet
  <2> QED
    BY <1>2, <1>4, <1>8, <2>1, <2>2 DEF AckInv, Listed
<1> QED
  BY <1>3, <1>6, <1>9, <1>10, <1>11 DEF BaseInv

-----------------------------------------------------------------------------
(* The lists catch up.                                                     *)

\* Own changes known to be done, before and after a step.
LEMMA AckKept ==
  ASSUME AckInv, Moves, acked' = acked,
         \A t \in Listed :
           /\ Settled(t)' => q'[t].asOf >= acked[t]
           /\ q'[t].fetch = "read" /\ ~q'[t].joined => q'[t].snapAt >= acked[t]
  PROVE  AckInv'
<1>1. Listed' = Listed
  BY DEF Listed, page, Moves, Tables
<1>2. \A t \in Tables : acked'[t] \in Nat /\ acked'[t] <= changes'
  BY DEF AckInv, Moves
<1> QED
  BY <1>1, <1>2 DEF AckInv

LEMMA SameQueriesAck ==
  ASSUME AckInv, Moves, acked' = acked, q' = q
  PROVE  AckInv'
<1>1. \A t \in Tables : Settled(t)' <=> Settled(t)
  BY DEF Settled
<1>2. Listed \subseteq Tables
  BY DEF Listed, Tables
<1> QED
  BY <1>1, <1>2, AckKept DEF AckInv

LEMMA RefetchAck ==
  ASSUME BaseInv, AckInv, Moves, NEW ts \in SUBSET Tables, q' = Refetch(ts),
         \A t \in Tables : acked'[t] \in Nat /\ acked'[t] <= changes',
         \A t \in Listed \ ts : acked'[t] = acked[t]
  PROVE  AckInv'
<1>1. Listed' = Listed /\ Listed \subseteq Tables
  BY DEF Listed, page, Moves, Tables
<1>2. ASSUME NEW t \in Listed
      PROVE  /\ Settled(t)' => q'[t].asOf >= acked'[t]
             /\ q'[t].fetch = "read" /\ ~q'[t].joined => q'[t].snapAt >= acked'[t]
  <2>1. q'[t] = IF t \in ts THEN FetchAnew(q[t]) ELSE q[t]
    BY <1>1 DEF Refetch
  <2>2. CASE t \in ts
    <3>1. /\ q'[t].fetch = "asked" \/ q'[t].joined
          /\ q'[t].fetch = "read" => q'[t].joined
      BY <1>1, <2>1, <2>2, AnewOK DEF BaseInv, QueriesOK
    <3> QED
      BY <3>1 DEF Settled
  <2>3. CASE t \notin ts
    <3>1. Settled(t)' <=> Settled(t)
      BY <2>1, <2>3 DEF Settled
    <3> QED
      BY <2>1, <2>3, <3>1 DEF AckInv
  <2> QED
    BY <2>2, <2>3
<1> QED
  BY <1>1, <1>2 DEF AckInv

LEMMA FetchAck ==
  ASSUME BaseInv, AckInv, NEW t \in Tables,
         FetchRead(t) \/ FetchDone(t) \/ FetchFails(t) \/ Poll(t)
  PROVE  AckInv'
<1>1. /\ UNCHANGED <<scene, db, changes, gestures, acked>>
  BY DEF FetchRead, FetchDone, FetchFails, Poll, bounds, history
<1>2. Moves
  BY <1>1, NoMove DEF BaseInv
<1>3. q[t] \in QuerySet /\ DOMAIN q = Tables /\ \A u \in Tables : acked[u] \in Nat /\ acked[u] <= changes
  BY DEF BaseInv, QueriesOK, QueryOK, AckInv
<1>4. ASSUME \A u \in Tables \ {t} : q'[u] = q[u],
             \/ (Settled(t)' => Settled(t) /\ q'[t].asOf = q[t].asOf)
             \/ (Settled(t)' => (t \in Listed => q'[t].asOf >= acked[t])),
             q'[t].fetch = "read" /\ ~q'[t].joined => q'[t].snapAt >= acked[t]
      PROVE  AckInv'
  <2>1. \A u \in Tables \ {t} : Settled(u)' <=> Settled(u)
    BY <1>4 DEF Settled
  <2>2. Listed \subseteq Tables
    BY DEF Listed, Tables
  <2> QED
    BY <1>1, <1>2, <1>4, <2>1, <2>2, AckKept DEF AckInv
<1>5. CASE FetchRead(t)
  <2>1. q'[t] = [q[t] EXCEPT !.fetch = "read", !.snap = db[t], !.snapAt = changes]
        /\ \A u \in Tables \ {t} : q'[u] = q[u]
    BY <1>3, <1>5 DEF FetchRead
  <2>2. q'[t].fetch = "read" /\ q'[t].snapAt = changes
    BY <1>3, <2>1 DEF QuerySet
  <2> QED
    BY <1>3, <1>4, <2>1, <2>2 DEF Settled, BaseInv, CountsOK
<1>6. CASE FetchDone(t)
  <2>1. /\ q'[t] = [q[t] EXCEPT !.data = q[t].snap, !.asOf = q[t].snapAt, !.loaded = TRUE,
                    !.fetch = "idle", !.failed = FALSE, !.snap = EmptyTable, !.snapAt = 0]
        /\ \A u \in Tables \ {t} : q'[u] = q[u]
        /\ q[t].fetch = "read"
    BY <1>3, <1>6 DEF FetchDone
  <2>2. /\ q'[t].asOf = q[t].snapAt /\ q'[t].fetch = "idle" /\ q'[t].joined = q[t].joined
    <3>0. PICK d : d = q'[t]
      OBVIOUS
    <3>1. PICK r \in QuerySet : r = q[t]
      BY <1>3
    <3>2. d = [r EXCEPT !.data = r.snap, !.asOf = r.snapAt, !.loaded = TRUE,
                        !.fetch = "idle", !.failed = FALSE, !.snap = EmptyTable, !.snapAt = 0]
      BY <2>1, <3>0, <3>1
    <3> QED
      BY <3>0, <3>1, <3>2 DEF QuerySet
  <2>3. Settled(t)' => (t \in Listed => q'[t].asOf >= acked[t])
    BY <2>1, <2>2 DEF Settled, AckInv
  <2> QED
    BY <1>4, <2>1, <2>2, <2>3
<1>7. CASE FetchFails(t)
  <2>1. /\ q'[t] = [q[t] EXCEPT !.fetch = "idle", !.failed = TRUE, !.snap = EmptyTable, !.snapAt = 0]
        /\ \A u \in Tables \ {t} : q'[u] = q[u]
    BY <1>3, <1>7 DEF FetchFails
  <2>2. q'[t].fetch = "idle" /\ q'[t].failed
    <3>0. PICK d : d = q'[t]
      OBVIOUS
    <3>1. PICK r \in QuerySet : r = q[t]
      BY <1>3
    <3>2. d = [r EXCEPT !.fetch = "idle", !.failed = TRUE, !.snap = EmptyTable, !.snapAt = 0]
      BY <2>1, <3>0, <3>1
    <3> QED
      BY <3>0, <3>1, <3>2 DEF QuerySet
  <2> QED
    BY <1>4, <2>1, <2>2 DEF Settled
<1>8. CASE Poll(t)
  <2>1. q' = Refetch({t})
    BY <1>8 DEF Poll
  <2> QED
    BY <1>1, <1>2, <1>3, <2>1, RefetchAck
<1> QED
  BY <1>5, <1>6, <1>7, <1>8

LEMMA SucceedAck ==
  ASSUME BaseInv, AckInv, NEW n \in DOMAIN ops, NEW ts \in SUBSET Tables, NEW waiting \in BOOLEAN,
         Succeed(n, ts, waiting), \A t \in Listed \ ts : ops[n].ver[t] = 0
  PROVE  AckInv'
<1>1. /\ UNCHANGED <<scene, db, changes, gestures>> /\ q' = Refetch(ts)
      /\ acked' = [t \in Tables |-> Max({acked[t], ops[n].ver[t]})]
  BY DEF Succeed, bounds
<1>2. Moves
  BY <1>1, NoMove DEF BaseInv
<1>3. ASSUME NEW t \in Tables
      PROVE  /\ acked'[t] = IF acked[t] >= ops[n].ver[t] THEN acked[t] ELSE ops[n].ver[t]
             /\ acked[t] \in Nat /\ acked[t] <= changes
             /\ ops[n].ver[t] \in Nat /\ ops[n].ver[t] <= changes
  <2>1. /\ acked[t] \in Nat /\ acked[t] <= changes
        /\ ops[n].ver[t] \in Nat /\ ops[n].ver[t] <= changes
    BY DEF AckInv, BaseInv, OpsOK, OpOK, OpSet
  <2>2. acked'[t] = Max({acked[t], ops[n].ver[t]})
    BY <1>1
  <2> QED
    BY <2>1, <2>2, MaxFact
<1>4. \A t \in Tables : acked'[t] \in Nat /\ acked'[t] <= changes'
  BY <1>1, <1>3
<1>5. Listed \subseteq Tables
  BY DEF Listed, Tables
<1>6. \A t \in Listed \ ts : acked'[t] = acked[t]
  BY <1>3, <1>5
<1> QED
  BY <1>1, <1>2, <1>4, <1>6, RefetchAck

-----------------------------------------------------------------------------
(* What the steps of each kind leave alone.                                *)

\* What a click may do to the histories.
Clicked ==
  /\ UNCHANGED <<scene, db, changes, others, faults, acked, dropped, undone, excused, stopped>>
  /\ gestures' \in {gestures, gestures + 1}
  /\ q' = q \/ q' = Refetch({"rows"})

LEMMA ClickFacts ==
  ASSUME Click
  PROVE  Clicked
<1>1. CASE OpenNew
  BY <1>1 DEF OpenNew, Open, Gesture, Clicked
<1>2. ASSUME NEW s \in Slots, Close(s) PROVE Clicked
  BY <1>2 DEF Close, Clicked, bounds
<1>3. ASSUME NEW s \in Slots, NEW k \in Keys, Save(s, k) PROVE Clicked
  BY <1>3 DEF Save, Start, Gesture, Clicked
<1>4. ASSUME NEW i, OpenEdit(i) PROVE Clicked
  BY <1>4 DEF OpenEdit, Open, Gesture, Clicked
<1>5. ASSUME NEW i, AskDelete(i) PROVE Clicked
  BY <1>5 DEF AskDelete, Clicked, bounds, history
<1>6. ASSUME NEW i, Toggle(i) PROVE Clicked
  BY <1>6 DEF Toggle, Start, Gesture, Clicked, history
<1>7. ASSUME NEW i, AddMonitor(i) PROVE Clicked
  BY <1>7 DEF AddMonitor, Start, Gesture, Clicked, history
<1>8. ASSUME NEW t, NEW i, Probe(t, i) PROVE Clicked
  BY <1>8 DEF Probe, Start, Gesture, Clicked, history
<1>9. ASSUME NEW i, DeleteNote(i) PROVE Clicked
  BY <1>9 DEF DeleteNote, Start, Gesture, Clicked, history
<1>10. ASSUME NEW k, ToggleMaintenance(k) PROVE Clicked
  BY <1>10 DEF ToggleMaintenance, Start, Gesture, Clicked, history
<1>11. CASE Refresh
  BY <1>11 DEF Refresh, Gesture, Clicked, history
<1>12. CASE CancelDelete
  BY <1>12 DEF CancelDelete, Clicked, bounds, history
<1>13. CASE ConfirmDelete
  BY <1>13 DEF ConfirmDelete, Start, Gesture, Clicked, history
<1>14. ASSUME NEW i \in DOMAIN Shown("rows"),
              \/ RuleRow(i) \/ AssetRow(i) \/ WebsiteCard(i) \/ DeviceCard(i)
              \/ InstanceCard(i) \/ NoteItem(i)
       PROVE  Clicked
  BY <1>14, <1>4, <1>5, <1>6, <1>7, <1>8, <1>9
     DEF RuleRow, AssetRow, WebsiteCard, DeviceCard, InstanceCard, NoteItem
<1>15. ASSUME NEW k \in Keys, HostCard(k) PROVE Clicked
  BY <1>15, <1>10 DEF HostCard
<1> QED
  BY <1>1, <1>2, <1>3, <1>11, <1>12, <1>13, <1>14, <1>15 DEF Click

\* The answers that are no success, and the fetches.
Quiet ==
  UNCHANGED <<scene, db, changes, gestures, acked, left, twice, undone, stopped>>

LEMMA QuietFacts ==
  ASSUME \/ \E n \in DOMAIN ops : NextCall(n) \/ CallFails(n) \/ Refetched(n) \/ Lose(n)
         \/ \E t \in Tables : FetchRead(t) \/ FetchDone(t) \/ FetchFails(t) \/ Poll(t)
  PROVE  Quiet
<1>1. ASSUME NEW n \in DOMAIN ops, NextCall(n) \/ CallFails(n) \/ Refetched(n) \/ Lose(n)
      PROVE  Quiet
  BY <1>1 DEF NextCall, CallFails, Refetched, Lose, Quiet, bounds, history
<1>2. ASSUME NEW t \in Tables, FetchRead(t) \/ FetchDone(t) \/ FetchFails(t) \/ Poll(t)
      PROVE  Quiet
  BY <1>2 DEF FetchRead, FetchDone, FetchFails, Poll, Quiet, bounds, history
<1> QED
  BY <1>1, <1>2

\* The kinds of steps there are.
LEMMA StepKinds ==
  ASSUME BaseInv, Next
  PROVE  \/ Click
         \/ \E n \in DOMAIN ops : NextCall(n) \/ CallFails(n) \/ Refetched(n) \/ Lose(n)
         \/ \E n \in DOMAIN ops, ts \in SUBSET Tables, waiting \in BOOLEAN :
              Succeed(n, ts, waiting) /\ \A t \in Listed \ ts : ops[n].ver[t] = 0
         \/ \E n \in DOMAIN ops, heard \in BOOLEAN : Serve(n, heard)
         \/ \E t \in Tables : FetchRead(t) \/ FetchDone(t) \/ FetchFails(t) \/ Poll(t)
         \/ OtherChanges
<1>1. ASSUME NEW n \in DOMAIN ops, Answered(n)
      PROVE  \/ NextCall(n) \/ CallFails(n) \/ Refetched(n)
             \/ \E ts \in SUBSET Tables, waiting \in BOOLEAN :
                  Succeed(n, ts, waiting) /\ \A t \in Listed \ ts : ops[n].ver[t] = 0
  BY <1>1, DoneLists DEF Answered
<1> QED
  BY <1>1 DEF Next

LEMMA BaseStep ==
  ASSUME BaseInv, AckInv, [Next]_vars
  PROVE  BaseInv' /\ AckInv'
<1>1. CASE UNCHANGED vars
  <2>1. UNCHANGED <<scene, db, changes, q, form, target, ops, lastMon, gestures, others, faults, acked>>
    BY <1>1 DEF vars, pageVars, bounds, history
  <2>2. Moves /\ DbOK' /\ CountsOK'
    BY <2>1, NoMove DEF BaseInv, CountsOK
  <2>3. AckInv'
    BY <2>1, <2>2, SameQueriesAck
  <2> QED
    BY <2>1, <2>2, <2>3, QueriesStay, FormsStay, TargetStays, OpsStay DEF BaseInv
<1>2. CASE Click
  <2>1. Clicked /\ BaseInv'
    BY <1>2, ClickFacts, ClickBase
  <2>2. Moves
    BY <2>1, NoMove DEF Clicked, BaseInv
  <2>3. \A t \in Tables : acked'[t] \in Nat /\ acked'[t] <= changes' /\ acked'[t] = acked[t]
    BY <2>1 DEF Clicked, AckInv
  <2>4. AckInv'
    <3>1. CASE q' = q
      BY <2>1, <2>2, <3>1, SameQueriesAck DEF Clicked
    <3>2. CASE q' = Refetch({"rows"})
      BY <2>2, <2>3, <3>2, RefetchAck DEF Listed, Tables
    <3> QED
      BY <2>1, <3>1, <3>2 DEF Clicked
  <2> QED
    BY <2>1, <2>4
<1>3. ASSUME NEW n \in DOMAIN ops, NextCall(n) \/ CallFails(n) \/ Refetched(n) \/ Lose(n)
      PROVE  BaseInv' /\ AckInv'
  <2>1. BaseInv'
    BY <1>3, NextCallBase, CallFailsBase, RefetchedBase, LoseBase
  <2>2. Quiet /\ q' = q
    BY <1>3, QuietFacts DEF NextCall, CallFails, Refetched, Lose
  <2>3. AckInv'
    BY <2>2, NoMove, SameQueriesAck DEF Quiet, BaseInv
  <2> QED
    BY <2>1, <2>3
<1>4. ASSUME NEW n \in DOMAIN ops, NEW ts \in SUBSET Tables, NEW waiting \in BOOLEAN,
             Succeed(n, ts, waiting), \A t \in Listed \ ts : ops[n].ver[t] = 0
      PROVE  BaseInv' /\ AckInv'
  BY <1>4, SucceedBase, SucceedAck
<1>5. ASSUME NEW n \in DOMAIN ops, NEW heard \in BOOLEAN, Serve(n, heard)
      PROVE  BaseInv' /\ AckInv'
  <2>1. BaseInv'
    BY <1>5, ServeBase
  <2>2. PICK c : c = Head(ops[n].calls)
    OBVIOUS
  <2>3. UNCHANGED <<scene, q, acked, gestures>> /\ changes \in Nat /\ changes' \in Nat
    BY <1>5, <2>1, <2>2, ServeCases DEF BaseInv, CountsOK
  <2>4. changes <= changes'
    <3>1. UNCHANGED changes \/ ApplyCall(c, IF ops[n].form = 0 THEN n ELSE ops[n].form)
      BY <1>5, <2>2, ServeCases DEF Accepted
    <3> QED
      BY <2>3, <3>1 DEF ApplyCall
  <2>5. Listed' = Listed /\ Listed \subseteq Tables /\ \A t \in Tables : Settled(t)' <=> Settled(t)
    BY <2>3 DEF Listed, Tables, page, Settled
  <2>6. AckInv'
    BY <2>3, <2>4, <2>5 DEF AckInv
  <2> QED
    BY <2>1, <2>6
<1>6. ASSUME NEW t \in Tables, FetchRead(t) \/ FetchDone(t) \/ FetchFails(t) \/ Poll(t)
      PROVE  BaseInv' /\ AckInv'
  BY <1>6, FetchBase, FetchAck
<1>7. CASE OtherChanges
  <2>1. BaseInv'
    BY <1>7, OtherBase
  <2>2. UNCHANGED <<scene, q, acked, gestures>> /\ changes \in Nat /\ changes' \in Nat
    BY <1>7, <2>1, OtherCases DEF pageVars, BaseInv, CountsOK
  <2>3. changes <= changes'
    BY <1>7, <2>2, OtherCases DEF OtherCall, ApplyCall
  <2>4. Listed' = Listed /\ Listed \subseteq Tables /\ \A t \in Tables : Settled(t)' <=> Settled(t)
    BY <2>2 DEF Listed, Tables, page, Settled
  <2>5. AckInv'
    BY <2>2, <2>3, <2>4 DEF AckInv
  <2> QED
    BY <2>1, <2>5
<1> QED
  BY <1>1, <1>2, <1>3, <1>4, <1>5, <1>6, <1>7, StepKinds

\* Once a list's latest fetch has been answered, the page shows the
\* operator's own changes that were reported as done (the invalidations in
\* the pages' onSuccess), on every page and for any number of gestures.
THEOREM ListsUpToDate == Spec => []ListCatchesUp
<1>1. Init => BaseInv /\ AckInv
  BY InitBase
<1>2. BaseInv /\ AckInv /\ [Next]_vars => (BaseInv /\ AckInv)'
  BY BaseStep
<1>3. AckInv => ListCatchesUp
  BY DEF AckInv, ListCatchesUp
<1> QED
  BY <1>1, <1>2, <1>3, PTL DEF Spec
=============================================================================
