----------------------- MODULE EditPagesHistoryProofs -----------------------
(***************************************************************************)
(* Proofs about EditPages, continued: what the histories say.              *)
(*                                                                         *)
(* BaseInv says what the page holds.  On top of it: what an update undoes  *)
(* follows from what its call knows of the row (UndoesFacts); SaveInv      *)
(* follows a form from its opening to the answer of its save; a check      *)
(* without its website is followed through the two calls of a deletion     *)
(* (ChangeExplains, EndExplains).                                          *)
(***************************************************************************)
EXTENDS EditPagesProofs

-----------------------------------------------------------------------------
(* Nothing is undone.                                                      *)

\* What an update undoes, by what its call knows of the row.
LEMMA UndoesFacts ==
  ASSUME NEW c, CallOK(c), c.do \in {"update", "upsert"}
  PROVE  /\ Undoes(c) \subseteq BOOLEAN /\ FALSE \notin Undoes(c)
         /\ page # "assets" => Undoes(c) = {}
<1>1. c \in CallSet
  BY DEF CallOK
<1>2. CASE c.do = "update"
  <2>1. ASSUME NEW i \in Hit(c), c.base < db[c.on][i].ver, db[c.on][i].ver <= c.known
        PROVE  FALSE
    <3>1. i = c.id /\ c.id \in DOMAIN db[c.on]
      BY <1>2, <2>1 DEF Hit
    <3> QED
      BY <1>2, <2>1, <3>1 DEF CallOK, Missed
  <2> QED
    BY <2>1 DEF Undoes
<1>3. CASE c.do = "upsert"
  <2>1. Hit(c) = IdsOf(db["rows"], c.key) /\ c.on = "rows" /\ page = "assets"
    BY <1>3 DEF Hit, CallOK
  <2>2. ASSUME NEW i \in Hit(c), c.base < db[c.on][i].ver, db[c.on][i].ver <= c.known
        PROVE  c.key # c.old
    BY <1>3, <2>1, <2>2 DEF CallOK, Missed
  <2> QED
    BY <2>1, <2>2 DEF Undoes
<1> QED
  BY <1>2, <1>3

UndoneInv == undone \subseteq BOOLEAN /\ NothingUndone

LEMMA UndoneStep ==
  ASSUME BaseInv, UndoneInv, [Next]_vars
  PROVE  UndoneInv'
<1>1. ASSUME undone' = undone, scene' = scene PROVE UndoneInv'
  BY <1>1 DEF UndoneInv, NothingUndone, page
<1>2. CASE UNCHANGED vars
  BY <1>1, <1>2 DEF vars, history
<1>3. CASE Click
  BY <1>1, <1>3, ClickFacts DEF Clicked
<1>4. CASE \E n \in DOMAIN ops : NextCall(n) \/ CallFails(n) \/ Refetched(n) \/ Lose(n)
  BY <1>1, <1>4, QuietFacts DEF Quiet
<1>5. ASSUME NEW n \in DOMAIN ops, NEW ts \in SUBSET Tables, NEW waiting \in BOOLEAN,
             Succeed(n, ts, waiting)
      PROVE  UndoneInv'
  BY <1>1, <1>5 DEF Succeed
<1>6. ASSUME NEW n \in DOMAIN ops, NEW heard \in BOOLEAN, Serve(n, heard) PROVE UndoneInv'
  <2>1. PICK c : c = Head(ops[n].calls)
    OBVIOUS
  <2>2. scene' = scene /\ (undone' = undone \/ Accepted(n, heard, c)) /\ ops[n].at = "asked"
    BY <1>6, <2>1, ServeCases
  <2>3. CallOK(c)
    BY <2>1, <2>2, ServedCall
  <2>4. undone' = undone \/ (c.do \in {"update", "upsert"} /\ undone' = undone \cup Undoes(c))
    BY <2>2 DEF Accepted
  <2>5. CASE c.do \in {"update", "upsert"} /\ undone' = undone \cup Undoes(c)
    <3>1. Undoes(c) \subseteq BOOLEAN /\ FALSE \notin Undoes(c) /\ (page # "assets" => Undoes(c) = {})
      BY <2>3, <2>5, UndoesFacts
    <3> QED
      BY <2>2, <2>5, <3>1 DEF UndoneInv, NothingUndone, page
  <2> QED
    BY <1>1, <2>2, <2>4, <2>5
<1>7. CASE \E t \in Tables : FetchRead(t) \/ FetchDone(t) \/ FetchFails(t) \/ Poll(t)
  BY <1>1, <1>7, QuietFacts DEF Quiet
<1>8. CASE OtherChanges
  BY <1>1, <1>8, OtherCases
<1> QED
  BY <1>2, <1>3, <1>4, <1>5, <1>6, <1>7, <1>8, StepKinds

\* Saving a form never undoes a change the operator knew of when the form
\* was opened, whatever ran meanwhile (the forms' useState(initial)); what is
\* undone is undone by saving an asset under another's host name.
THEOREM FormsUndoNothing == Spec => []NothingUndone
<1>1. Init => BaseInv /\ AckInv /\ UndoneInv
  BY InitBase DEF Init, UndoneInv, NothingUndone
<1>2. BaseInv /\ AckInv /\ UndoneInv /\ [Next]_vars => (BaseInv /\ AckInv /\ UndoneInv)'
  BY BaseStep, UndoneStep
<1>3. UndoneInv => NothingUndone
  BY DEF UndoneInv
<1> QED
  BY <1>1, <1>2, <1>3, PTL DEF Spec
-----------------------------------------------------------------------------
(* What the steps do to calls and forms.                                   *)

\* The calls under way are the same, whatever their answers.
OpsAlike ==
  /\ DOMAIN ops' = DOMAIN ops
  /\ \A n \in DOMAIN ops : /\ ops'[n].what = ops[n].what /\ ops'[n].form = ops[n].form
                           /\ ops'[n].calls = ops[n].calls

LEMMA FetchAlike ==
  ASSUME BaseInv, NEW t \in Tables, FetchRead(t) \/ FetchDone(t) \/ FetchFails(t) \/ Poll(t)
  PROVE  OpsAlike /\ UNCHANGED <<form, history>>
<1>1. UNCHANGED <<form, history>> /\ (ops' = ops \/ ops' = Release(t))
  BY DEF FetchRead, FetchDone, FetchFails, Poll
<1>2. CASE ops' = Release(t)
  <2>1. DOMAIN ops' = DOMAIN ops
    BY <1>2 DEF Release
  <2>2. ASSUME NEW n \in DOMAIN ops
        PROVE  /\ ops'[n].what = ops[n].what /\ ops'[n].form = ops[n].form
               /\ ops'[n].calls = ops[n].calls
    <3>1. PICK op \in OpSet : op = ops[n]
      BY DEF BaseInv, OpsOK, OpOK
    <3>2. ops'[n] = [op EXCEPT !.waits = @ \ {t}]
      BY <1>2, <3>1 DEF Release
    <3> QED
      BY <3>1, <3>2 DEF OpSet
  <2> QED
    BY <1>1, <2>1, <2>2 DEF OpsAlike
<1> QED
  BY <1>1, <1>2 DEF OpsAlike

LEMMA LoseAlike ==
  ASSUME BaseInv, NEW n \in DOMAIN ops, Lose(n)
  PROVE  OpsAlike /\ UNCHANGED <<form, history>>
<1>1. PICK op \in OpSet : op = ops[n]
  BY DEF BaseInv, OpsOK, OpOK
<1>2. ops' = [ops EXCEPT ![n].at = "refused"] /\ UNCHANGED <<form, history>>
  BY DEF Lose
<1>3. ops'[n] = [op EXCEPT !.at = "refused"] /\ DOMAIN ops' = DOMAIN ops
      /\ \A m \in DOMAIN ops \ {n} : ops'[m] = ops[m]
  BY <1>1, <1>2
<1>4. ops'[n].what = op.what /\ ops'[n].form = op.form /\ ops'[n].calls = op.calls
  BY <1>1, <1>3 DEF OpSet
<1> QED
  BY <1>1, <1>2, <1>3, <1>4 DEF OpsAlike

LEMMA ServeAlike ==
  ASSUME BaseInv, NEW n \in DOMAIN ops, NEW heard \in BOOLEAN, Serve(n, heard)
  PROVE  OpsAlike /\ UNCHANGED <<form, left, twice, dropped, stopped>>
<1>1. PICK op \in OpSet : op = ops[n]
  BY DEF BaseInv, OpsOK, OpOK
<1>2. PICK c : c = Head(ops[n].calls)
  OBVIOUS
<1>3. /\ UNCHANGED <<form, left, twice, dropped, stopped>> /\ ops[n].at = "asked"
      /\ ops' = [ops EXCEPT ![n].at = "refused"] \/ Accepted(n, heard, c)
  BY <1>2, ServeCases
<1>4. c \in CallSet
  BY <1>2, <1>3, ServedCall DEF CallOK
<1>5. CASE ops' = [ops EXCEPT ![n].at = "refused"]
  <2>1. ops'[n] = [op EXCEPT !.at = "refused"] /\ DOMAIN ops' = DOMAIN ops
        /\ \A m \in DOMAIN ops \ {n} : ops'[m] = ops[m]
    BY <1>1, <1>5
  <2>2. ops'[n].what = op.what /\ ops'[n].form = op.form /\ ops'[n].calls = op.calls
    BY <1>1, <2>1 DEF OpSet
  <2> QED
    BY <1>1, <1>3, <2>1, <2>2 DEF OpsAlike
<1>6. CASE Accepted(n, heard, c)
  <2>1. PICK a, v : a = (IF heard THEN "ok" ELSE "refused") /\ v = changes'
    OBVIOUS
  <2>2. ops' = [ops EXCEPT ![n].at = a, ![n].ver[c.on] = v]
    BY <1>6, <2>1 DEF Accepted
  <2>3. ops'[n] = [op EXCEPT !.at = a, !.ver[c.on] = v] /\ DOMAIN ops' = DOMAIN ops
        /\ \A m \in DOMAIN ops \ {n} : ops'[m] = ops[m]
    BY <1>1, <2>2
  <2>4. ops'[n].what = op.what /\ ops'[n].form = op.form /\ ops'[n].calls = op.calls
    BY <1>1, <2>3 DEF OpSet
  <2> QED
    BY <1>1, <1>3, <2>3, <2>4 DEF OpsAlike
<1> QED
  BY <1>3, <1>5, <1>6
LEMMA StartedOps ==
  ASSUME NEW what, NEW f, NEW calls, NEW key, NEW aim, Start(what, f, calls, key, aim)
  PROVE  /\ \A n \in DOMAIN ops : n \in DOMAIN ops' /\ ops'[n] = ops[n]
         /\ \A n \in DOMAIN ops' \ DOMAIN ops :
              n = gestures' /\ ops'[n].what = what /\ ops'[n].form = f
         /\ gestures' \in DOMAIN ops' /\ gestures' = gestures + 1
<1>1. PICK g, o : g = gestures' /\ o = NewOp(what, f, calls, key, aim)
  OBVIOUS
<1>2. ops' = [n \in DOMAIN ops \cup {g} |-> IF n \in DOMAIN ops THEN ops[n] ELSE o]
  BY <1>1 DEF Start, NewOp
<1>3. o.what = what /\ o.form = f
  BY <1>1 DEF NewOp
<1> QED
  BY <1>1, <1>2, <1>3 DEF Start, Gesture

\* The clicks that are about no form.
NoFormClick ==
  /\ UNCHANGED <<form, left, twice>>
  /\ \/ ops' = ops
     \/ \E what \in Whats \ Slots : \E f, calls, key, aim : Start(what, f, calls, key, aim)

\* Which forms a page opens.
Opened(slot) == slot \in Slots /\ page # "overview" /\ (page = "notes" => slot = "add")

LEMMA ClickKinds ==
  ASSUME Click
  PROVE  \/ \E slot \in Slots : Opened(slot) /\ \E calls : Open(slot, calls)
         \/ \E slot \in Slots : Close(slot)
         \/ \E slot \in Slots, k \in Keys : Save(slot, k)
         \/ NoFormClick
<1>1. CASE OpenNew
  BY <1>1 DEF OpenNew, Opened, AddSlot, Slots
<1>2. ASSUME NEW i, OpenEdit(i), page \notin {"notes", "overview"}
      PROVE  \E slot \in Slots : Opened(slot) /\ \E calls : Open(slot, calls)
  BY <1>2 DEF OpenEdit, Opened, Slots
<1>3. ASSUME NEW i, AskDelete(i) PROVE NoFormClick
  BY <1>3 DEF AskDelete, NoFormClick, history
<1>4. {"toggle", "check", "probe", "delete"} \subseteq Whats \ Slots
  BY DEF Whats, Slots
<1>5. ASSUME NEW what \in {"toggle", "check", "probe", "delete"},
             \E f, calls, key, aim : Start(what, f, calls, key, aim), UNCHANGED <<form, history>>
      PROVE  NoFormClick
  BY <1>4, <1>5 DEF NoFormClick, history
<1>6. ASSUME NEW i, Toggle(i) PROVE NoFormClick
  BY <1>5, <1>6 DEF Toggle
<1>7. ASSUME NEW i, AddMonitor(i) PROVE NoFormClick
  BY <1>5, <1>7 DEF AddMonitor
<1>8. ASSUME NEW t, NEW i, Probe(t, i) PROVE NoFormClick
  BY <1>5, <1>8 DEF Probe
<1>9. ASSUME NEW i, DeleteNote(i) PROVE NoFormClick
  BY <1>5, <1>9 DEF DeleteNote
<1>10. ASSUME NEW k, ToggleMaintenance(k) PROVE NoFormClick
  BY <1>5, <1>10 DEF ToggleMaintenance
<1>11. CASE Refresh
  BY <1>11 DEF Refresh, NoFormClick, history
<1>12. CASE CancelDelete
  BY <1>12 DEF CancelDelete, NoFormClick, history
<1>13. CASE ConfirmDelete
  BY <1>5, <1>13 DEF ConfirmDelete
<1>14. ASSUME NEW i \in DOMAIN Shown("rows"),
              \/ RuleRow(i) \/ AssetRow(i) \/ WebsiteCard(i) \/ DeviceCard(i)
              \/ InstanceCard(i) \/ NoteItem(i)
       PROVE  NoFormClick \/ \E slot \in Slots : Opened(slot) /\ \E calls : Open(slot, calls)
  <2>1. CASE RuleRow(i)
    BY <2>1, <1>2, <1>3, <1>6 DEF RuleRow
  <2>2. CASE AssetRow(i)
    BY <2>2, <1>2, <1>3 DEF AssetRow
  <2>3. CASE WebsiteCard(i)
    BY <2>3, <1>2, <1>3, <1>7, <1>8 DEF WebsiteCard
  <2>4. CASE DeviceCard(i)
    BY <2>4, <1>2, <1>3 DEF DeviceCard
  <2>5. CASE InstanceCard(i) \/ NoteItem(i)
    BY <2>5, <1>3, <1>8, <1>9 DEF InstanceCard, NoteItem
  <2> QED
    BY <1>14, <2>1, <2>2, <2>3, <2>4, <2>5
<1>15. ASSUME NEW k \in Keys, HostCard(k) PROVE NoFormClick
  BY <1>15, <1>10 DEF HostCard
<1> QED
  BY <1>1, <1>11, <1>12, <1>13, <1>14, <1>15 DEF Click
-----------------------------------------------------------------------------
(* The histories' types.                                                   *)

HistoryOK ==
  /\ \A m \in left \cup twice : m \in 1..gestures
  /\ \A d \in dropped : d \in (0..gestures) \X (1..gestures)
  /\ \A i \in excused : i \in 0..changes
  /\ \A s \in stopped : s \in Keys \X (0..changes)

LEMMA HistoryGrows ==
  ASSUME HistoryOK, changes \in Nat, changes' \in Nat, changes <= changes',
         gestures \in Nat, gestures' \in Nat, gestures <= gestures',
         \A m \in left' \cup twice' : m \in left \cup twice \/ m \in 1..gestures',
         \A d \in dropped' : d \in dropped \/ d \in (0..gestures') \X (1..gestures'),
         \A i \in excused' : i \in excused \/ i \in 0..changes',
         \A s \in stopped' : s \in stopped \/ s \in Keys \X (0..changes')
  PROVE  HistoryOK'
<1>1. 1..gestures \subseteq 1..gestures' /\ 0..gestures \subseteq 0..gestures'
      /\ 0..changes \subseteq 0..changes'
  OBVIOUS
<1>2. \A d \in dropped' : d \in (0..gestures') \X (1..gestures')
  BY <1>1 DEF HistoryOK
<1>3. \A s \in stopped' : s \in Keys \X (0..changes')
  BY <1>1 DEF HistoryOK
<1> QED
  BY <1>1, <1>2, <1>3 DEF HistoryOK

\* A form that is being saved is one that was opened.
LEMMA SavedForm ==
  ASSUME BaseInv, NEW s \in Slots, SavesOf(form[s]) # {}
  PROVE  form[s].n \in 1..gestures
<1>1. PICK n \in InFlight(Slots) : ops[n].form = form[s].n
  BY DEF SavesOf
<1>2. ops[n].form # 0
  BY DEF InFlight, BaseInv, OpsOK, OpOK
<1> QED
  BY <1>1, <1>2 DEF BaseInv, FormsOK, FormOK, NoForm

LEMMA ClickHistory ==
  ASSUME BaseInv, HistoryOK, Click
  PROVE  HistoryOK'
<1>1. /\ UNCHANGED <<changes, dropped, excused, stopped>> /\ changes \in Nat
      /\ gestures \in Nat /\ gestures' \in Nat /\ gestures <= gestures'
  BY ClickFacts, SceneFacts DEF Clicked, BaseInv, CountsOK
<1>2. \A s \in Slots : SavesOf(form[s]) # {} => form[s].n \in 1..gestures
  BY SavedForm
<1>3. ASSUME NEW s \in Slots, Leave(form[s]), twice' = twice PROVE HistoryOK'
  BY <1>1, <1>2, <1>3, HistoryGrows DEF Leave
<1>4. ASSUME NEW s \in Slots, NEW k \in Keys, Save(s, k) PROVE HistoryOK'
  <2>1. left' = left /\ twice' = (IF SavesOf(form[s]) # {} THEN twice \cup {form[s].n} ELSE twice)
    BY <1>4 DEF Save
  <2> QED
    BY <1>1, <1>2, <2>1, HistoryGrows
<1>5. CASE NoFormClick
  BY <1>1, <1>5, HistoryGrows DEF NoFormClick
<1>6. ASSUME NEW s \in Slots, NEW calls, Open(s, calls) PROVE HistoryOK'
  BY <1>3, <1>6 DEF Open
<1>7. ASSUME NEW s \in Slots, Close(s) PROVE HistoryOK'
  BY <1>3, <1>7 DEF Close
<1> QED
  BY <1>4, <1>5, <1>6, <1>7, ClickKinds

\* A check whose deletion failed has a number, as any row.
LEMMA ForgivenFact ==
  ASSUME BaseInv, NEW n \in DOMAIN ops, NEW i \in Forgiven(ops[n])
  PROVE  i \in 0..changes
<1>1. PICK j \in DOMAIN ops[n].calls : i = ops[n].calls[j].id
  BY DEF Forgiven
<1>2. CallOK(ops[n].calls[j])
  BY DEF BaseInv, OpsOK, OpOK
<1> QED
  BY <1>1, <1>2 DEF CallOK, CallSet, BaseInv, CountsOK

\* The form that a success closes is another's only if there is one.
LEMMA ClosedHistory ==
  ASSUME BaseInv, NEW n \in DOMAIN ops, CloseForms(n, Closes(ops[n].what)),
         NEW d \in dropped'
  PROVE  d \in dropped \/ d \in (0..gestures) \X (1..gestures)
<1>1. SUFFICES ASSUME d \notin dropped PROVE d \in (0..gestures) \X (1..gestures)
  OBVIOUS
<1>2. PICK s \in Closes(ops[n].what) : d = <<ops[n].form, form[s].n>> /\ form[s].n \notin {0, ops[n].form}
  BY <1>1 DEF CloseForms
<1>3. s \in Slots
  BY <1>2 DEF Closes
<1>4. form[s].n \in 1..gestures
  BY <1>2, <1>3 DEF BaseInv, FormsOK, FormOK, NoForm
<1>5. ops[n].form \in Nat /\ ops[n].form <= n /\ n \in 1..gestures /\ gestures \in Nat
  BY SceneFacts DEF BaseInv, OpsOK, OpOK, OpSet, CountsOK
<1> QED
  BY <1>2, <1>4, <1>5

LEMMA SucceedHistory ==
  ASSUME BaseInv, HistoryOK, NEW n \in DOMAIN ops, NEW ts, NEW waiting \in BOOLEAN,
         Succeed(n, ts, waiting)
  PROVE  HistoryOK'
<1>1. /\ UNCHANGED <<changes, gestures, left, twice>> /\ changes \in Nat /\ gestures \in Nat
      /\ excused' = excused \cup Forgiven(ops[n])
      /\ stopped' = (IF ops[n].what = "delete"
                     THEN stopped \cup {<<ops[n].key, ops[n].since>>} ELSE stopped)
      /\ dropped' = dropped \/ CloseForms(n, Closes(ops[n].what))
  BY SceneFacts DEF Succeed, bounds, BaseInv, CountsOK
<1>2. \A d \in dropped' : d \in dropped \/ d \in (0..gestures) \X (1..gestures)
  BY <1>1, ClosedHistory
<1>3. \A i \in excused' : i \in excused \/ i \in 0..changes
  BY <1>1, ForgivenFact
<1>4. ops[n].key \in Keys /\ ops[n].since \in 0..changes
  BY <1>1 DEF BaseInv, OpsOK, OpOK, OpSet
<1>5. \A s \in stopped' : s \in stopped \/ s \in Keys \X (0..changes)
  BY <1>1, <1>4
<1> QED
  BY <1>1, <1>2, <1>3, <1>5, HistoryGrows
\* A check that a change puts without a website is the new row.
LEMMA StrandsFact ==
  ASSUME CountsOK, DbOK, NEW c \in CallSet, NEW by, ApplyCall(c, by), NEW k, NEW aim,
         NEW i \in Strands(c, k, aim)
  PROVE  i \in 0..changes'
<1>1. changes \in Nat /\ DOMAIN db = Tables /\ c.on \in Tables
      /\ \A t \in Tables : DOMAIN db[t] \subseteq 1..changes
  BY DEF CountsOK, DbOK, InTable, CallSet
<1>2. changes' \in {changes, changes + 1}
  BY DEF ApplyCall
<1>3. CASE c.do = "remove" /\ c.on = "rows"
  <2>1. i \in DOMAIN db["mons"]
    BY <1>3 DEF Strands, IdsOf
  <2>2. i \in 1..changes
    BY <1>1, <2>1 DEF Tables
  <2> QED
    BY <1>1, <1>2, <2>2
<1>4. CASE c.do = "insert" /\ c.on = "mons"
  <2>1. i = changes + 1
    BY <1>4 DEF Strands
  <2>2. changes + 1 \in DOMAIN After(c, by)
    BY <1>4 DEF After
  <2>3. db'["mons"] = After(c, by)
    BY <1>1, <1>4 DEF ApplyCall
  <2>4. changes + 1 \notin DOMAIN db["mons"]
    BY <1>1 DEF Tables
  <2>5. changes' = changes + 1
    BY <2>2, <2>3, <2>4 DEF ApplyCall
  <2> QED
    BY <1>1, <2>1, <2>5
<1> QED
  BY <1>3, <1>4 DEF Strands

LEMMA ServeHistory ==
  ASSUME BaseInv, HistoryOK, NEW n \in DOMAIN ops, NEW heard \in BOOLEAN, Serve(n, heard)
  PROVE  HistoryOK'
<1>1. PICK c : c = Head(ops[n].calls)
  OBVIOUS
<1>2. /\ ops[n].at = "asked" /\ UNCHANGED <<gestures, left, twice, dropped, stopped>>
      /\ UNCHANGED <<changes, excused>> \/ Accepted(n, heard, c)
  BY <1>1, ServeCases
<1>3. c \in CallSet
  BY <1>1, <1>2, ServedCall DEF CallOK
<1>4. changes \in Nat /\ gestures \in Nat
  BY SceneFacts DEF BaseInv, CountsOK
<1>5. PICK by, k, aim : by = (IF ops[n].form = 0 THEN n ELSE ops[n].form)
                        /\ k = ops[n].key /\ aim = ops[n].aim
  OBVIOUS
<1>6. CASE UNCHANGED <<changes, excused>>
  BY <1>2, <1>4, <1>6, HistoryGrows
<1>7. CASE Accepted(n, heard, c)
  <2>1. ApplyCall(c, by) /\ excused' = excused \cup Strands(c, k, aim)
    BY <1>5, <1>7 DEF Accepted
  <2>2. changes' \in {changes, changes + 1}
    BY <2>1 DEF ApplyCall
  <2>3. \A i \in Strands(c, k, aim) : i \in 0..changes'
    BY <1>3, <2>1, StrandsFact DEF BaseInv
  <2> QED
    BY <1>2, <1>4, <2>1, <2>2, <2>3, HistoryGrows
<1> QED
  BY <1>2, <1>6, <1>7

LEMMA OtherHistory ==
  ASSUME BaseInv, HistoryOK, OtherChanges
  PROVE  HistoryOK'
<1>1. UNCHANGED <<gestures, left, twice, dropped, stopped>>
  BY OtherCases
<1>2. changes \in Nat /\ gestures \in Nat
  BY SceneFacts DEF BaseInv, CountsOK
<1>3. PICK do \in {"insert", "update", "remove"}, t \in Listed, k \in Keys, i \in 0..changes, c \in CallSet :
        OtherCall(do, t, k, i, c)
  BY OtherCases
<1>4. ApplyCall(c, 0) /\ excused' = excused \cup Strands(c, k, 0)
  BY <1>3 DEF OtherCall
<1>5. changes' \in {changes, changes + 1}
  BY <1>4 DEF ApplyCall
<1>6. \A m \in Strands(c, k, 0) : m \in 0..changes'
  BY <1>4, StrandsFact DEF BaseInv
<1> QED
  BY <1>1, <1>2, <1>4, <1>5, <1>6, HistoryGrows

LEMMA HistoryStep ==
  ASSUME BaseInv, HistoryOK, [Next]_vars
  PROVE  HistoryOK'
<1>1. changes \in Nat /\ gestures \in Nat
  BY SceneFacts DEF BaseInv, CountsOK
<1>2. CASE UNCHANGED vars
  BY <1>2 DEF vars, bounds, history, HistoryOK
<1>3. ASSUME NEW n \in DOMAIN ops, NextCall(n) \/ CallFails(n) \/ Refetched(n) \/ Lose(n)
      PROVE  HistoryOK'
  <2>1. UNCHANGED <<changes, gestures, left, twice, stopped>>
    BY <1>3, QuietFacts DEF Quiet
  <2>2. \A i \in excused' : i \in excused \/ i \in 0..changes
    BY <1>3, ForgivenFact DEF NextCall, CallFails, Refetched, Lose, history
  <2>3. \A d \in dropped' : d \in dropped \/ d \in (0..gestures) \X (1..gestures)
    <3>1. dropped' = dropped \/ CloseForms(n, Closes(ops[n].what))
      BY <1>3 DEF NextCall, CallFails, Refetched, Lose, history
    <3> QED
      BY <3>1, ClosedHistory
  <2> QED
    BY <1>1, <2>1, <2>2, <2>3, HistoryGrows
<1>4. ASSUME NEW t \in Tables, FetchRead(t) \/ FetchDone(t) \/ FetchFails(t) \/ Poll(t)
      PROVE  HistoryOK'
  <2>1. UNCHANGED <<changes, gestures>>
    BY <1>4, QuietFacts DEF Quiet
  <2>2. UNCHANGED history
    BY <1>4, FetchAlike
  <2> QED
    BY <2>1, <2>2 DEF history, HistoryOK
<1> QED
  BY <1>2, <1>3, <1>4, ClickHistory, SucceedHistory, ServeHistory, OtherHistory, StepKinds
Types == BaseInv /\ AckInv /\ UndoneInv /\ HistoryOK

LEMMA TypesThenTypeOK == Types => TypeOK
<1>1. SUFFICES ASSUME Types PROVE TypeOK
  OBVIOUS
<1>2. /\ scene \in Scenes /\ changes \in Nat /\ gestures \in Nat
      /\ gestures \in 0..scene.gestures /\ others \in 0..scene.others /\ faults \in 0..scene.faults
      /\ lastMon \in 0..gestures
  BY <1>1, SceneFacts DEF Types, BaseInv, CountsOK
<1>3. ASSUME NEW t \in Tables
      PROVE  /\ DOMAIN db[t] \subseteq 1..changes
             /\ \A i \in DOMAIN db[t] :
                  db[t][i].key \in Keys /\ db[t][i].ver \in i..changes /\ db[t][i].by \in 0..gestures
  <2>1. InTable(db[t]) /\ \A i \in DOMAIN db[t] : db[t][i] \in RowSet
    BY <1>1, TableFacts DEF Types, BaseInv, DbOK, InTable
  <2> QED
    BY <1>2, <2>1 DEF InTable, RowSet
<1>4. ASSUME NEW t \in Tables
      PROVE  /\ DOMAIN q[t].data \subseteq 1..changes /\ DOMAIN q[t].snap \subseteq 1..changes
             /\ q[t].fetch \in {"idle", "asked", "read"} /\ q[t].asOf \in 0..changes
             /\ q[t].snapAt \in 0..changes /\ {q[t].loaded, q[t].failed, q[t].joined} \subseteq BOOLEAN
             /\ acked[t] \in 0..changes
  <2>1. q[t] \in QuerySet /\ CopyOK(t, q[t].data, q[t].asOf) /\ CopyOK(t, q[t].snap, q[t].snapAt)
    BY <1>1 DEF Types, BaseInv, QueriesOK, QueryOK
  <2>2. {q[t].loaded, q[t].failed, q[t].joined} \subseteq BOOLEAN /\ q[t].fetch \in Fetches
    BY <2>1 DEF QuerySet
  <2>3. acked[t] \in 0..changes
    BY <1>1, <1>2 DEF Types, AckInv
  <2> QED
    BY <2>1, <2>2, <2>3 DEF CopyOK, InTable, Fetches
<1>5. \A s \in Slots : form[s].n \in 0..gestures /\ Len(form[s].calls) <= 2
  BY <1>1, <1>2 DEF Types, BaseInv, FormsOK, FormOK, NoForm
<1>6. target.id \in 0..changes
  BY <1>1, <1>2 DEF Types, BaseInv, TargetOK, NoTarget
<1>7. DOMAIN ops \subseteq 1..gestures
  BY <1>1 DEF Types, BaseInv, OpsOK
<1>8. ASSUME NEW n \in DOMAIN ops
      PROVE  /\ ops[n].what \in Slots \cup {"toggle", "check", "probe", "delete"}
             /\ ops[n].form \in 0..n
             /\ ops[n].at \in {"asked", "ok", "refused", "refetch"} /\ ops[n].waits \subseteq Tables
             /\ Len(ops[n].calls) <= 2
             /\ ops[n].at \in {"asked", "refused"} => ops[n].calls # << >>
  <2>1. OpOK(n, ops[n]) /\ n \in Nat
    BY <1>1, <1>2, <1>7 DEF Types, BaseInv, OpsOK
  <2> QED
    BY <2>1 DEF OpOK, OpSet, Whats, Answers
<1>9. /\ left \cup twice \subseteq 1..gestures /\ dropped \subseteq (0..gestures) \X (1..gestures)
      /\ undone \subseteq BOOLEAN /\ excused \subseteq 0..changes /\ stopped \subseteq Keys \X (0..changes)
  BY <1>1 DEF Types, HistoryOK, UndoneInv
<1> QED
  BY <1>2, <1>3, <1>4, <1>5, <1>6, <1>7, <1>8, <1>9 DEF TypeOK

LEMMA TypesInit == Init => Types
BY InitBase DEF Init, Types, UndoneInv, NothingUndone, HistoryOK

LEMMA TypesStep == Types /\ [Next]_vars => Types'
BY BaseStep, UndoneStep, HistoryStep DEF Types

\* The variables keep their types; numbers of rows and versions are numbers
\* of changes made, forms and calls are numbered by gestures made, and no
\* bound of the scene is exceeded.
THEOREM TypeCorrect == Spec => []TypeOK
BY TypesInit, TypesStep, TypesThenTypeOK, PTL DEF Spec
-----------------------------------------------------------------------------
(* Input is kept.                                                          *)

\* A form that was given up on, closed by another's save, or saved again.
Again(m) == page = "rules" /\ m \in twice
Lost(m) == m \in left \cup Closed \/ Again(m)

\* Two slots never show the same form; a save is of the form in its slot as
\* long as that has not been lost; and only rules are saved twice at once.
SlotsApart == \A s, u \in Slots : form[s].n = form[u].n => s = u \/ form[s].n = 0
SlotsUsed == /\ page = "notes" => form["edit"] = NoForm
             /\ page = "overview" => \A s \in Slots : form[s] = NoForm
SaveOK(what, f) ==
  /\ \A s \in Slots \ {what} : form[s].n # f
  /\ form[what].n = f \/ Lost(f)
OneSave(n) == \A k \in InFlight(Slots) \ {n} : ops[k].form = ops[n].form => Again(ops[n].form)

SaveInv ==
  /\ SlotsApart /\ SlotsUsed
  /\ \A n \in InFlight(Slots) : SaveOK(ops[n].what, ops[n].form) /\ OneSave(n)
  /\ \A d \in dropped : Lost(d[1])

\* What was lost stays so.
Loses == scene' = scene /\ left \subseteq left' /\ twice \subseteq twice' /\ dropped \subseteq dropped'

LEMMA LostStays ==
  ASSUME Loses, NEW m
  PROVE  (Lost(m) => Lost(m)') /\ (Again(m) => Again(m)')
<1>1. Closed \subseteq Closed'
  BY DEF Loses, Closed
<1> QED
  BY <1>1 DEF Loses, Lost, Again, page

\* A step that leaves the forms alone, and starts no save.
LEMMA SameForms ==
  ASSUME SaveInv, Loses, UNCHANGED <<form, dropped>>,
         \A n \in DOMAIN ops' : \/ ops'[n].what \notin Slots
                                \/ n \in DOMAIN ops /\ ops'[n].what = ops[n].what
                                   /\ ops'[n].form = ops[n].form
  PROVE  SaveInv'
<1>1. page' = page
  BY DEF Loses, page
<1>2. \A m : (Lost(m) => Lost(m)') /\ (Again(m) => Again(m)')
  BY LostStays
<1>3. ASSUME NEW n \in InFlight(Slots)'
      PROVE  n \in InFlight(Slots) /\ ops'[n].what = ops[n].what /\ ops'[n].form = ops[n].form
  BY <1>3 DEF InFlight
<1>4. SlotsApart' /\ SlotsUsed'
  BY <1>1 DEF SaveInv, SlotsApart, SlotsUsed
<1>5. ASSUME NEW n \in InFlight(Slots)' PROVE SaveOK(ops[n].what, ops[n].form)' /\ OneSave(n)'
  <2>1. SaveOK(ops[n].what, ops[n].form) /\ OneSave(n)
    BY <1>3 DEF SaveInv
  <2>2. SaveOK(ops[n].what, ops[n].form)'
    BY <1>2, <1>3, <2>1 DEF SaveOK
  <2>3. OneSave(n)'
    BY <1>2, <1>3, <2>1 DEF OneSave
  <2> QED
    BY <2>2, <2>3
<1>6. \A d \in dropped' : Lost(d[1])'
  BY <1>2 DEF SaveInv
<1> QED
  BY <1>4, <1>5, <1>6 DEF SaveInv
\* Calls know the form they save by its number.
LEMMA SavesNumbered ==
  ASSUME BaseInv, NEW n \in InFlight(Slots)
  PROVE  /\ n \in DOMAIN ops /\ ops[n].what \in Slots /\ ops[n].form \in 1..gestures
         /\ gestures \in Nat
BY SceneFacts DEF BaseInv, CountsOK, OpsOK, OpOK, OpSet, InFlight

\* A form takes the place of another, or of none; or it is closed.
LEMMA ReplacedForm ==
  ASSUME BaseInv, SaveInv, NEW slot \in Slots, NEW f, form' = [form EXCEPT ![slot] = f],
         Leave(form[slot]), UNCHANGED <<scene, ops, twice, dropped>>,
         f = NoForm \/ (f.n = gestures + 1 /\ Opened(slot))
  PROVE  SaveInv'
<1>1. page' = page /\ InFlight(Slots)' = InFlight(Slots) /\ gestures \in Nat
  BY SceneFacts DEF page, InFlight, BaseInv, CountsOK
<1>2. form'[slot] = f /\ \A s \in Slots \ {slot} : form'[s] = form[s]
  BY DEF BaseInv, FormsOK
<1>3. \A s \in Slots : form[s].n \in 0..gestures
  BY <1>1 DEF BaseInv, FormsOK, FormOK, NoForm
<1>4. f.n = 0 \/ f.n = gestures + 1
  BY DEF NoForm
<1>5. SlotsApart'
  BY <1>1, <1>2, <1>3, <1>4 DEF SaveInv, SlotsApart
<1>6. SlotsUsed'
  BY <1>1, <1>2 DEF SaveInv, SlotsUsed, Opened, Slots
<1>7. Loses
  BY DEF Leave, Loses
<1>8. \A m : (Lost(m) => Lost(m)') /\ (Again(m) => Again(m)')
  BY <1>7, LostStays
<1>9. ASSUME NEW n \in InFlight(Slots) PROVE SaveOK(ops[n].what, ops[n].form)' /\ OneSave(n)'
  <2>1. PICK what \in Slots, m \in 1..gestures : what = ops[n].what /\ m = ops[n].form
    BY SavesNumbered
  <2>2. SaveOK(what, m) /\ OneSave(n)
    BY <2>1 DEF SaveInv
  <2>3. \A s \in Slots \ {what} : form'[s].n # m
    BY <1>1, <1>2, <1>4, <2>2 DEF SaveOK
  <2>4. form'[what].n = m \/ Lost(m)'
    <3>1. CASE what = slot /\ form[slot].n = m
      <4>1. n \in SavesOf(form[slot])
        BY <2>1, <3>1 DEF SavesOf
      <4>2. m \in left'
        BY <3>1, <4>1 DEF Leave
      <4> QED
        BY <4>2 DEF Lost
    <3>2. CASE what # slot \/ form[slot].n # m
      BY <1>2, <1>8, <2>2, <3>2 DEF SaveOK
    <3> QED
      BY <3>1, <3>2
  <2>5. OneSave(n)'
    BY <1>1, <1>8, <2>2 DEF OneSave
  <2> QED
    BY <2>1, <2>3, <2>4, <2>5 DEF SaveOK
<1>10. \A d \in dropped' : Lost(d[1])'
  BY <1>8 DEF SaveInv
<1> QED
  BY <1>1, <1>5, <1>6, <1>9, <1>10 DEF SaveInv

\* While a form is being saved its button is disabled, except the rules'.
LEMMA NotPending ==
  ASSUME BaseInv, SaveInv, NEW slot \in Slots, form[slot] # NoForm, ~Pending(slot),
         NEW n \in InFlight(Slots), ops[n].form = form[slot].n
  PROVE  page = "rules"
<1>1. ops[n].what \in Slots /\ SaveOK(ops[n].what, ops[n].form)
  BY SavesNumbered DEF SaveInv
<1>2. ops[n].what = slot
  BY <1>1 DEF SaveOK
<1>3. n \in InFlight({slot}) /\ n \in SavesOf(form[slot])
  BY <1>2 DEF InFlight, SavesOf
<1>4. page \in AllPages /\ page # "overview" /\ (page = "notes" => slot = "add")
  BY SceneFacts DEF BaseInv, CountsOK, page, SaveInv, SlotsUsed, Slots
<1>5. ASSUME page = "assets" PROVE FALSE
  BY <1>3, <1>5 DEF Pending, AssetPending
<1>6. ASSUME page = "websites" PROVE FALSE
  <2>1. CASE slot = "add"
    BY <1>3, <1>6, <2>1 DEF Pending, WebsitePending
  <2>2. CASE slot = "edit"
    BY <1>3, <1>6, <2>2 DEF Pending, WebsitePending
  <2> QED
    BY <2>1, <2>2 DEF Slots
<1>7. ASSUME page = "snmp" PROVE FALSE
  BY <1>3, <1>7 DEF Pending, DevicePending
<1>8. ASSUME page = "dpm" PROVE FALSE
  BY <1>3, <1>8 DEF Pending, DatabasePending
<1>9. ASSUME page = "notes" PROVE FALSE
  BY <1>3, <1>4, <1>9 DEF Pending, NotePending
<1> QED
  BY <1>4, <1>5, <1>6, <1>7, <1>8, <1>9 DEF AllPages
LEMMA SaveKeeps ==
  ASSUME BaseInv, SaveInv, NEW slot \in Slots, NEW k \in Keys, Save(slot, k)
  PROVE  SaveInv'
<1>1. PICK m : m = form[slot].n
  OBVIOUS
<1>2. /\ form[slot] # NoForm /\ ~Pending(slot) /\ UNCHANGED <<scene, form, left, dropped>>
      /\ twice' = (IF SavesOf(form[slot]) # {} THEN twice \cup {m} ELSE twice)
      /\ \E calls : Start(slot, m, calls, k, 0)
  BY <1>1 DEF Save
<1>3. m \in 1..gestures /\ gestures \in Nat /\ gestures' = gestures + 1
  BY <1>1, <1>2, SceneFacts DEF BaseInv, CountsOK, FormsOK, FormOK, Start, Gesture
<1>4. /\ \A n \in DOMAIN ops : n \in DOMAIN ops' /\ ops'[n] = ops[n]
      /\ \A n \in DOMAIN ops' \ DOMAIN ops :
           n = gestures' /\ ops'[n].what = slot /\ ops'[n].form = m
  BY <1>2, StartedOps
<1>5. page' = page /\ Loses
  BY <1>2 DEF page, Loses
<1>6. \A x : (Lost(x) => Lost(x)') /\ (Again(x) => Again(x)')
  BY <1>5, LostStays
<1>7. SlotsApart' /\ SlotsUsed'
  BY <1>2, <1>5 DEF SaveInv, SlotsApart, SlotsUsed
<1>8. \A n \in InFlight(Slots)' :
        n \in InFlight(Slots) \/ (n = gestures' /\ n \notin DOMAIN ops)
  BY <1>4 DEF InFlight
<1>9. ASSUME NEW n \in InFlight(Slots), ops[n].form = m PROVE Again(m)'
  <2>1. page = "rules"
    BY <1>1, <1>2, <1>9, NotPending
  <2>2. n \in SavesOf(form[slot])
    BY <1>1, <1>9 DEF SavesOf
  <2> QED
    BY <1>2, <1>5, <2>1, <2>2 DEF Again
<1>10. ASSUME NEW n \in InFlight(Slots)' PROVE SaveOK(ops[n].what, ops[n].form)' /\ OneSave(n)'
  <2>1. CASE n \in InFlight(Slots)
    <3>1. SaveOK(ops[n].what, ops[n].form) /\ OneSave(n) /\ ops'[n] = ops[n]
      BY <1>4, <2>1 DEF SaveInv, InFlight
    <3>2. SaveOK(ops[n].what, ops[n].form)'
      BY <1>2, <1>6, <3>1 DEF SaveOK
    <3>3. PICK f : f = ops[n].form /\ f = ops'[n].form
      BY <3>1
    <3>4. ASSUME NEW j \in InFlight(Slots)' \ {n}, ops'[j].form = f PROVE Again(f)'
      <4>1. CASE j \in InFlight(Slots)
        <5>1. ops[j].form = f
          BY <1>4, <3>4, <4>1 DEF InFlight
        <5>2. Again(f)
          BY <3>1, <3>3, <3>4, <4>1, <5>1 DEF OneSave
        <5> QED
          BY <1>6, <5>2
      <4>2. CASE j \notin DOMAIN ops
        <5>1. f = m
          BY <1>4, <3>4, <4>2 DEF InFlight
        <5> QED
          BY <1>9, <2>1, <3>3, <5>1
      <4> QED
        BY <1>8, <3>4, <4>1, <4>2
    <3>5. OneSave(n)'
      BY <3>3, <3>4 DEF OneSave
    <3> QED
      BY <3>2, <3>5
  <2>2. CASE n \notin DOMAIN ops
    <3>1. ops'[n].what = slot /\ ops'[n].form = m /\ n = gestures'
      BY <1>4, <2>2 DEF InFlight
    <3>2. \A s \in Slots \ {slot} : form'[s].n # m
      BY <1>1, <1>2, <1>3 DEF SaveInv, SlotsApart
    <3>3. SaveOK(ops[n].what, ops[n].form)'
      BY <1>1, <1>2, <3>1, <3>2 DEF SaveOK
    <3>4. ASSUME NEW j \in InFlight(Slots)' \ {n}, ops'[j].form = m PROVE Again(m)'
      <4>1. j \in InFlight(Slots)
        BY <1>8, <3>1, <3>4
      <4> QED
        BY <1>4, <1>9, <3>4, <4>1 DEF InFlight
    <3>5. OneSave(n)'
      BY <3>1, <3>4 DEF OneSave
    <3> QED
      BY <3>3, <3>5
  <2> QED
    BY <1>8, <2>1, <2>2
<1>11. \A d \in dropped' : Lost(d[1])'
  BY <1>2, <1>6 DEF SaveInv
<1> QED
  BY <1>7, <1>10, <1>11 DEF SaveInv

LEMMA ClickKeeps ==
  ASSUME BaseInv, SaveInv, Click
  PROVE  SaveInv'
<1>1. Clicked
  BY ClickFacts
<1>2. ASSUME NEW slot \in Slots, Opened(slot), NEW calls, Open(slot, calls) PROVE SaveInv'
  <2>1. PICK f : f = [n |-> gestures + 1, calls |-> calls]
    OBVIOUS
  <2>2. form' = [form EXCEPT ![slot] = f] /\ f.n = gestures + 1 /\ Leave(form[slot])
        /\ UNCHANGED <<scene, ops, twice, dropped>>
    BY <1>2, <2>1 DEF Open, Gesture
  <2> QED
    BY <1>2, <2>2, ReplacedForm
<1>3. ASSUME NEW slot \in Slots, Close(slot) PROVE SaveInv'
  <2>1. form' = [form EXCEPT ![slot] = NoForm] /\ Leave(form[slot])
        /\ UNCHANGED <<scene, ops, twice, dropped>>
    BY <1>3 DEF Close
  <2> QED
    BY <2>1, ReplacedForm
<1>4. CASE NoFormClick
  <2>1. UNCHANGED <<form, dropped>> /\ Loses
    BY <1>1, <1>4 DEF NoFormClick, Clicked, Loses
  <2>2. ASSUME NEW n \in DOMAIN ops'
        PROVE  ops'[n].what \notin Slots \/ (n \in DOMAIN ops /\ ops'[n] = ops[n])
    <3>1. CASE ops' = ops
      BY <2>2, <3>1
    <3>2. ASSUME NEW what \in Whats \ Slots, NEW f, NEW calls, NEW key, NEW aim,
                 Start(what, f, calls, key, aim)
          PROVE  ops'[n].what \notin Slots \/ (n \in DOMAIN ops /\ ops'[n] = ops[n])
      BY <2>2, <3>2, StartedOps
    <3> QED
      BY <1>4, <3>1, <3>2 DEF NoFormClick
  <2> QED
    BY <2>1, <2>2, SameForms
<1> QED
  BY <1>2, <1>3, <1>4, SaveKeeps, ClickKinds
\* A save that is over closes the form in its slot, whichever that is.
LEMMA CloseKeeps ==
  ASSUME BaseInv, SaveInv, NEW n \in DOMAIN ops, CloseForms(n, Closes(ops[n].what)),
         ops' = Restrict(ops, DOMAIN ops \ {n}), UNCHANGED <<scene, left, twice>>
  PROVE  SaveInv'
<1>1. PICK C, m : C = Closes(ops[n].what) /\ m = ops[n].form
  OBVIOUS
<1>2. /\ \A s \in Slots : form'[s] = IF s \in C THEN NoForm ELSE form[s]
      /\ dropped' = dropped \cup {<<m, form[s].n>> : s \in {s \in C : form[s].n \notin {0, m}}}
  BY <1>1 DEF CloseForms
<1>3. \A s \in C : s \in Slots /\ s = ops[n].what /\ n \in InFlight(Slots)
  BY <1>1 DEF Closes, InFlight
<1>4. DOMAIN ops' = DOMAIN ops \ {n} /\ \A j \in DOMAIN ops' : ops'[j] = ops[j]
  BY DEF Restrict
<1>5. page' = page /\ Loses
  BY <1>2 DEF page, Loses
<1>6. \A x : (Lost(x) => Lost(x)') /\ (Again(x) => Again(x)')
  BY <1>5, LostStays
<1>7. InFlight(Slots)' \subseteq InFlight(Slots) \ {n}
  BY <1>4 DEF InFlight
<1>8. NoForm.n = 0
  BY DEF NoForm
<1>9. SlotsApart' /\ SlotsUsed'
  <2>1. SlotsApart'
    BY <1>2, <1>8 DEF SaveInv, SlotsApart
  <2>2. SlotsUsed'
    BY <1>2, <1>5 DEF SaveInv, SlotsUsed, Slots
  <2> QED
    BY <2>1, <2>2
<1>10. ASSUME NEW k \in InFlight(Slots)' PROVE SaveOK(ops[k].what, ops[k].form)' /\ OneSave(k)'
  <2>1. k \in InFlight(Slots) /\ k # n /\ ops'[k] = ops[k]
    BY <1>4, <1>7 DEF InFlight
  <2>2. PICK what \in Slots, f \in 1..gestures : what = ops[k].what /\ f = ops[k].form
    BY <2>1, SavesNumbered
  <2>3. SaveOK(what, f) /\ OneSave(k)
    BY <2>1, <2>2 DEF SaveInv
  <2>4. f # 0 /\ \A s \in Slots \ {what} : form'[s].n # f
    BY <1>2, <1>8, <2>2, <2>3, SceneFacts DEF SaveOK, BaseInv, CountsOK
  <2>5. form'[what].n = f \/ Lost(f)'
    <3>1. CASE what \notin C \/ Lost(f)
      BY <1>2, <1>6, <2>3, <3>1 DEF SaveOK
    <3>2. CASE what \in C /\ form[what].n = f /\ f # m
      <4>1. <<m, f>> \in dropped'
        BY <1>2, <2>4, <3>2
      <4>2. f \in Closed'
        BY <4>1 DEF Closed
      <4> QED
        BY <4>2 DEF Lost
    <3>3. CASE what \in C /\ f = m
      <4>1. n \in InFlight(Slots) \ {k} /\ ops[n].form = ops[k].form
        BY <1>1, <1>3, <2>1, <2>2, <3>3
      <4>2. Again(f)
        BY <2>2, <2>3, <4>1 DEF OneSave
      <4> QED
        BY <1>6, <4>2 DEF Lost
    <3> QED
      BY <2>3, <3>1, <3>2, <3>3 DEF SaveOK
  <2>6. SaveOK(ops[k].what, ops[k].form)'
    BY <2>1, <2>2, <2>4, <2>5 DEF SaveOK
  <2>7. ASSUME NEW j \in InFlight(Slots)' \ {k}, ops'[j].form = f PROVE Again(f)'
    <3>1. j \in InFlight(Slots) \ {k} /\ ops[j].form = f
      BY <1>4, <1>7, <2>7 DEF InFlight
    <3>2. Again(f)
      BY <2>2, <2>3, <3>1 DEF OneSave
    <3> QED
      BY <1>6, <3>2
  <2>8. OneSave(k)'
    BY <2>1, <2>2, <2>7 DEF OneSave
  <2> QED
    BY <2>6, <2>8
<1>11. ASSUME NEW d \in dropped' PROVE Lost(d[1])'
  <2>1. CASE d \in dropped
    BY <1>6, <2>1 DEF SaveInv
  <2>2. CASE d \notin dropped
    <3>1. PICK s \in C : d = <<m, form[s].n>> /\ form[s].n \notin {0, m}
      BY <1>2, <1>11, <2>2
    <3>2. SaveOK(ops[n].what, m) /\ s = ops[n].what
      BY <1>1, <1>3 DEF SaveInv
    <3>3. Lost(m) /\ d[1] = m
      BY <3>1, <3>2 DEF SaveOK
    <3> QED
      BY <1>6, <3>3
  <2> QED
    BY <2>1, <2>2
<1> QED
  BY <1>9, <1>10, <1>11 DEF SaveInv

LEMMA AlikeKeeps ==
  ASSUME SaveInv, OpsAlike, UNCHANGED <<scene, form, left, twice, dropped>>
  PROVE  SaveInv'
BY SameForms DEF OpsAlike, Loses

LEMMA AnswerKeeps ==
  ASSUME BaseInv, SaveInv, NEW n \in DOMAIN ops, NextCall(n) \/ CallFails(n) \/ Refetched(n) \/ Lose(n)
  PROVE  SaveInv'
<1>1. UNCHANGED <<scene, left, twice>>
  BY QuietFacts DEF Quiet
<1>2. CASE NextCall(n)
  <2>1. PICK op \in OpSet : op = ops[n]
    BY DEF BaseInv, OpsOK, OpOK
  <2>2. ops' = [ops EXCEPT ![n].calls = Tail(@), ![n].at = "asked"] /\ UNCHANGED <<form, dropped>>
    BY <1>2 DEF NextCall, history
  <2>3. /\ DOMAIN ops' = DOMAIN ops /\ \A j \in DOMAIN ops \ {n} : ops'[j] = ops[j]
        /\ ops'[n] = [op EXCEPT !.calls = Tail(@), !.at = "asked"]
    BY <2>1, <2>2
  <2>4. ops'[n].what = op.what /\ ops'[n].form = op.form
    BY <2>1, <2>3 DEF OpSet
  <2> QED
    BY <1>1, <2>1, <2>2, <2>3, <2>4, SameForms DEF Loses
<1>3. CASE CallFails(n)
  <2>1. ops' = Restrict(ops, DOMAIN ops \ {n}) /\ UNCHANGED <<form, dropped>>
    BY <1>3 DEF CallFails
  <2>2. \A j \in DOMAIN ops' : j \in DOMAIN ops /\ ops'[j] = ops[j]
    BY <2>1 DEF Restrict
  <2> QED
    BY <1>1, <2>1, <2>2, SameForms DEF Loses
<1>4. CASE Refetched(n)
  BY <1>1, <1>4, CloseKeeps DEF Refetched
<1>5. CASE Lose(n)
  BY <1>1, <1>5, LoseAlike, AlikeKeeps DEF history
<1> QED
  BY <1>2, <1>3, <1>4, <1>5

LEMMA SucceedKeeps ==
  ASSUME BaseInv, SaveInv, NEW n \in DOMAIN ops, NEW ts, NEW waiting \in BOOLEAN,
         Succeed(n, ts, waiting)
  PROVE  SaveInv'
<1>1. UNCHANGED <<scene, left, twice>>
  BY DEF Succeed
<1>2. CASE waiting
  <2>1. PICK op \in OpSet : op = ops[n]
    BY DEF BaseInv, OpsOK, OpOK
  <2>2. /\ ops' = [ops EXCEPT ![n].at = "refetch", ![n].waits = ts, ![n].calls = << >>]
        /\ UNCHANGED <<form, dropped>>
    BY <1>2 DEF Succeed
  <2>3. /\ DOMAIN ops' = DOMAIN ops /\ \A j \in DOMAIN ops \ {n} : ops'[j] = ops[j]
        /\ ops'[n] = [op EXCEPT !.at = "refetch", !.waits = ts, !.calls = << >>]
    BY <2>1, <2>2
  <2>4. ops'[n].what = op.what /\ ops'[n].form = op.form
    BY <2>1, <2>3 DEF OpSet
  <2> QED
    BY <1>1, <2>1, <2>2, <2>3, <2>4, SameForms DEF Loses
<1>3. CASE ~waiting
  BY <1>1, <1>3, CloseKeeps DEF Succeed
<1> QED
  BY <1>2, <1>3
LEMMA SaveStep ==
  ASSUME BaseInv, SaveInv, [Next]_vars
  PROVE  SaveInv'
<1>1. CASE UNCHANGED vars
  <2>1. UNCHANGED <<scene, form, ops, left, twice, dropped>>
    BY <1>1 DEF vars, pageVars, history
  <2> QED
    BY <2>1, AlikeKeeps DEF OpsAlike
<1>2. ASSUME NEW n \in DOMAIN ops, NEW heard \in BOOLEAN, Serve(n, heard) PROVE SaveInv'
  BY <1>2, ServeCases, ServeAlike, AlikeKeeps
<1>3. ASSUME NEW t \in Tables, FetchRead(t) \/ FetchDone(t) \/ FetchFails(t) \/ Poll(t)
      PROVE  SaveInv'
  BY <1>3, QuietFacts, FetchAlike, AlikeKeeps DEF Quiet, history
<1>4. CASE OtherChanges
  BY <1>4, OtherCases, AlikeKeeps DEF pageVars, OpsAlike
<1> QED
  BY <1>1, <1>2, <1>3, <1>4, ClickKeeps, AnswerKeeps, SucceedKeeps, StepKinds

\* A form with input in it is closed by another form's save only if that one
\* had been given up on, or closed so itself, or saved a second time (the
\* onSuccess that closes the one form the page has).
THEOREM FormsKeepInput == Spec => []InputKept
<1>1. Init => BaseInv /\ AckInv /\ SaveInv
  BY InitBase DEF Init, SaveInv, SlotsApart, SlotsUsed, InFlight, Slots, NoForm
<1>2. BaseInv /\ AckInv /\ SaveInv /\ [Next]_vars => (BaseInv /\ AckInv /\ SaveInv)'
  BY BaseStep, SaveStep
<1>3. SaveInv => InputKept
  BY DEF SaveInv, InputKept, Lost, Again
<1> QED
  BY <1>1, <1>2, <1>3, PTL DEF Spec
-----------------------------------------------------------------------------
(* Checks without a website.                                               *)

\* What a change of a website's tables leaves without a website.
LEMMA NewOrphans ==
  ASSUME BaseInv, page = "websites", NEW c \in CallSet, CallFits(c), ~Refuses(c),
         NEW by \in 0..gestures, ApplyCall(c, by), scene' = scene, gestures' = gestures,
         c.do \notin {"upsert", "enter", "leave"}, NEW k, NEW aim,
         c.do = "insert" => c.key = k,
         c.do = "remove" /\ c.on = "rows" => KeyKept("rows", c.id, k),
         NEW m \in Orphans'
  PROVE  \/ m \in Orphans \/ m \in Strands(c, k, aim)
         \/ c.do = "remove" /\ c.on = "rows" /\ m = aim
<1>1. Moves
  BY Applied DEF BaseInv
<1>2. DOMAIN db = Tables /\ Tables = {"rows", "mons"} /\ c.on \in Tables
      /\ db'[c.on] = After(c, by) /\ \A t \in Tables \ {c.on} : db'[t] = db[t]
  BY DEF BaseInv, DbOK, Tables, ApplyCall, CallSet
<1>3. m \in DOMAIN db'["mons"] /\ IdsOf(db'["rows"], db'["mons"][m].key) = {}
  BY DEF Orphans
<1>4. /\ \A i \in DOMAIN After(c, by) :
           LET r == After(c, by)[i] IN
           Unwritten(c, i, r) \/ Created(c, by, i, r) \/ Rewritten(c, i, r)
      /\ \A i \in DOMAIN db[c.on] :
           c.do \notin {"remove", "leave"} \/ i \notin Hit(c) => i \in DOMAIN After(c, by)
  BY AfterFacts DEF BaseInv, CallFits
<1>5. CASE m \notin DOMAIN db["mons"]
  <2>1. c.on = "mons" /\ m \in DOMAIN After(c, by) /\ After(c, by)[m] = db'["mons"][m]
    BY <1>2, <1>3, <1>5
  <2>2. Created(c, by, m, db'["mons"][m])
    BY <1>4, <1>5, <2>1 DEF Unwritten, Rewritten
  <2>3. c.do = "insert" /\ m = changes + 1 /\ db'["mons"][m].key = k
    BY <2>2 DEF Created, Row
  <2>4. IdsOf(db["rows"], k) = {}
    BY <1>2, <1>3, <2>1, <2>3
  <2> QED
    BY <2>1, <2>3, <2>4 DEF Strands
<1>6. CASE m \in DOMAIN db["mons"] /\ m \notin Orphans
  <2>1. PICK x : x = db["mons"][m].key /\ x = db'["mons"][m].key
    BY <1>1, <1>2, <1>3, <1>6 DEF Moves
  <2>2. PICK i \in DOMAIN db["rows"] : db["rows"][i].key = x
    BY <1>6, <2>1 DEF Orphans, IdsOf
  <2>3. i \notin DOMAIN db'["rows"]
    <3>1. SUFFICES ASSUME i \in DOMAIN db'["rows"] PROVE FALSE
      OBVIOUS
    <3>2. db'["rows"][i].key = x
      BY <1>1, <1>2, <2>2, <3>1 DEF Moves
    <3> QED
      BY <1>3, <2>1, <3>1, <3>2 DEF IdsOf
  <2>4. c.on = "rows" /\ c.do = "remove" /\ i \in Hit(c)
    BY <1>2, <1>4, <2>2, <2>3
  <2>5. i = c.id
    BY <2>4 DEF Hit
  <2>6. x = k
    BY <2>2, <2>4, <2>5 DEF KeyKept
  <2>7. m \in IdsOf(db["mons"], k)
    BY <1>6, <2>1, <2>6 DEF IdsOf
  <2> QED
    BY <2>4, <2>7 DEF Strands
<1> QED
  BY <1>5, <1>6
\* A deletion under way that takes the check away.
Aims(op, m) == op.what = "delete" /\ \E j \in DOMAIN op.calls :
                 op.calls[j].on = "mons" /\ op.calls[j].id = m
Explained(m) == m \in excused \/ \E n \in DOMAIN ops : Aims(ops[n], m)

LEMMA ByExplained ==
  OrphansExplained <=> (page = "websites" => \A m \in Orphans : Explained(m))
BY DEF OrphansExplained, Explained, Aims, InFlight

\* A step that leaves the tables alone and takes no call away.
LEMMA CallsExplain ==
  ASSUME OrphansExplained, UNCHANGED <<scene, db>>, excused \subseteq excused',
         \A n \in DOMAIN ops : n \in DOMAIN ops' /\ ops'[n].what = ops[n].what
                               /\ ops'[n].calls = ops[n].calls
  PROVE  OrphansExplained'
<1>1. page' = page /\ Orphans' = Orphans
  BY DEF page, Orphans, IdsOf
<1>2. ASSUME NEW m, Explained(m) PROVE Explained(m)'
  <2>1. CASE m \in excused
    BY <2>1 DEF Explained
  <2>2. ASSUME NEW n \in DOMAIN ops, Aims(ops[n], m) PROVE Explained(m)'
    <3>1. n \in DOMAIN ops' /\ Aims(ops'[n], m)
      BY <2>2 DEF Aims
    <3> QED
      BY <3>1 DEF Explained
  <2> QED
    BY <1>2, <2>1, <2>2 DEF Explained
<1>3. OrphansExplained' <=> (page' = "websites" => \A m \in Orphans' : Explained(m)')
  BY DEF OrphansExplained, Explained, Aims, InFlight
<1> QED
  BY <1>1, <1>2, <1>3, ByExplained

\* Nor does one that ends or replaces a call which aims at no check that is
\* left without its website, or forgives what it fails to take away.
LEMMA OneExplains ==
  ASSUME OrphansExplained, UNCHANGED <<scene, db>>, excused \subseteq excused', NEW n \in DOMAIN ops,
         \A k \in DOMAIN ops \ {n} : k \in DOMAIN ops' /\ ops'[k] = ops[k],
         \A m : page = "websites" /\ m \in DOMAIN db["mons"] /\ Aims(ops[n], m) =>
                  m \in excused' \/ (n \in DOMAIN ops' /\ Aims(ops'[n], m))
  PROVE  OrphansExplained'
<1>1. page' = page /\ Orphans' = Orphans
  BY DEF page, Orphans, IdsOf
<1>2. ASSUME page = "websites", NEW m \in Orphans, Explained(m) PROVE Explained(m)'
  <2>1. m \in DOMAIN db["mons"]
    BY DEF Orphans
  <2>2. CASE m \in excused
    BY <2>2 DEF Explained
  <2>3. ASSUME NEW k \in DOMAIN ops, Aims(ops[k], m) PROVE Explained(m)'
    <3>1. m \in excused' \/ (k \in DOMAIN ops' /\ Aims(ops'[k], m))
      BY <1>2, <2>1, <2>3
    <3> QED
      BY <3>1 DEF Explained
  <2> QED
    BY <1>2, <2>2, <2>3 DEF Explained
<1>3. OrphansExplained' <=> (page' = "websites" => \A m \in Orphans' : Explained(m)')
  BY DEF OrphansExplained, Explained, Aims, InFlight
<1> QED
  BY <1>1, <1>2, <1>3, ByExplained
LEMMA ClickExplains ==
  ASSUME OrphansExplained, Click
  PROVE  OrphansExplained'
<1>1. UNCHANGED <<scene, db, excused>>
  BY ClickFacts DEF Clicked
<1>2. \A n \in DOMAIN ops : n \in DOMAIN ops' /\ ops'[n] = ops[n]
  <2>1. CASE ops' = ops
    BY <2>1
  <2>2. ASSUME NEW what, NEW f, NEW calls, NEW key, NEW aim, Start(what, f, calls, key, aim)
        PROVE  \A n \in DOMAIN ops : n \in DOMAIN ops' /\ ops'[n] = ops[n]
    BY <2>2, StartedOps
  <2>3. \/ ops' = ops \/ \E what, f, calls, key, aim : Start(what, f, calls, key, aim)
    BY ClickKinds DEF Open, Close, Save, NoFormClick
  <2> QED
    BY <2>1, <2>2, <2>3
<1> QED
  BY <1>1, <1>2, CallsExplain

LEMMA NextCallExplains ==
  ASSUME BaseInv, OrphansExplained, NEW n \in DOMAIN ops, NextCall(n)
  PROVE  OrphansExplained'
<1>1. UNCHANGED <<scene, db, excused>> /\ Len(ops[n].calls) > 1
      /\ ops' = [ops EXCEPT ![n].calls = Tail(@), ![n].at = "asked"]
  BY DEF NextCall, history
<1>2. PICK op \in OpSet : op = ops[n]
  BY DEF BaseInv, OpsOK, OpOK
<1>3. PICK cs \in Seq(CallSet) : cs = op.calls
  BY DEF OpSet
<1>4. PICK t : t = Tail(cs)
  OBVIOUS
<1>5. Len(cs) > 1 /\ Len(cs) <= 2
  BY <1>1, <1>2, <1>3 DEF BaseInv, OpsOK, OpOK
<1>6. Len(cs) = 2 /\ DOMAIN t = {1} /\ t[1] = cs[2]
  BY <1>4, <1>5, TailOfTwo
<1>7. /\ \A k \in DOMAIN ops \ {n} : k \in DOMAIN ops' /\ ops'[k] = ops[k]
      /\ n \in DOMAIN ops' /\ ops'[n] = [op EXCEPT !.calls = Tail(@), !.at = "asked"]
  BY <1>1, <1>2
<1>8. ops'[n].what = op.what /\ ops'[n].calls = t
  BY <1>2, <1>3, <1>4, <1>7 DEF OpSet
<1>9. ASSUME NEW m, page = "websites", Aims(op, m) PROVE Aims(ops'[n], m)
  <2>1. DeleteOK(op)
    BY <1>2, <1>9 DEF Aims, BaseInv, OpsOK, OpOK, WebsiteOp
  <2>2. cs[1].on = "rows" /\ DOMAIN cs = {1, 2}
    BY <1>3, <1>6, <2>1 DEF DeleteOK
  <2>3. cs[2].on = "mons" /\ cs[2].id = m
    BY <1>3, <1>9, <2>2 DEF Aims
  <2> QED
    BY <1>6, <1>8, <1>9, <2>3 DEF Aims
<1> QED
  BY <1>1, <1>2, <1>7, <1>9, OneExplains

LEMMA EndExplains ==
  ASSUME BaseInv, OrphansExplained, NEW n \in DOMAIN ops, UNCHANGED <<scene, db>>,
         \A k \in DOMAIN ops \ {n} : k \in DOMAIN ops' /\ ops'[k] = ops[k],
         \/ ops[n].at \in {"ok", "refused"} /\ excused' = excused \cup Forgiven(ops[n])
            /\ (ops[n].at = "ok" => Len(ops[n].calls) <= 1)
         \/ ops[n].at = "refetch" /\ excused' = excused
  PROVE  OrphansExplained'
<1>1. PICK op \in OpSet : op = ops[n] /\ OpOK(n, op)
  BY DEF BaseInv, OpsOK, OpOK
<1>2. PICK cs \in Seq(CallSet) : cs = op.calls
  BY DEF OpSet
<1>3. ASSUME NEW m, page = "websites", m \in DOMAIN db["mons"], Aims(op, m) PROVE m \in excused'
  <2>1. PICK j \in DOMAIN cs : cs[j].on = "mons" /\ cs[j].id = m
    BY <1>2, <1>3 DEF Aims
  <2>2. CASE op.at = "refused"
    <3>1. m \in Forgiven(op)
      BY <1>2, <2>1, <2>2 DEF Forgiven
    <3> QED
      BY <1>1, <2>2, <3>1
  <2>3. CASE op.at = "ok"
    <3>1. PICK l \in Nat : l = Len(cs)
      OBVIOUS
    <3>2. l <= 1 /\ j \in 1..l
      BY <1>1, <1>2, <2>1, <2>3, <3>1
    <3>3. l = 1 /\ j = 1
      BY <3>2
    <3>4. DeleteOK(op)
      BY <1>1, <1>3 DEF Aims, OpOK, WebsiteOp
    <3>5. op.aim \notin DOMAIN db["mons"] /\ cs[j].id = op.aim
      BY <1>2, <2>1, <2>3, <3>1, <3>3, <3>4 DEF DeleteOK
    <3> QED
      BY <1>3, <2>1, <3>5
  <2>4. CASE op.at = "refetch"
    <3>1. cs = << >>
      BY <1>1, <1>2, <2>4 DEF OpOK
    <3> QED
      BY <2>1, <3>1
  <2> QED
    BY <1>1, <2>2, <2>3, <2>4
<1>4. excused \subseteq excused'
  OBVIOUS
<1> QED
  BY <1>1, <1>3, <1>4, OneExplains

LEMMA AnswerExplains ==
  ASSUME BaseInv, OrphansExplained, NEW n \in DOMAIN ops,
         NextCall(n) \/ CallFails(n) \/ Refetched(n) \/ Lose(n)
  PROVE  OrphansExplained'
<1>1. CASE CallFails(n)
  <2>1. UNCHANGED <<scene, db>> /\ excused' = excused \cup Forgiven(ops[n]) /\ ops[n].at = "refused"
        /\ ops' = Restrict(ops, DOMAIN ops \ {n})
    BY <1>1 DEF CallFails
  <2>2. \A k \in DOMAIN ops \ {n} : k \in DOMAIN ops' /\ ops'[k] = ops[k]
    BY <2>1 DEF Restrict
  <2> QED
    BY <2>1, <2>2, EndExplains
<1>2. CASE Refetched(n)
  <2>1. UNCHANGED <<scene, db, excused>> /\ ops[n].at = "refetch"
        /\ ops' = Restrict(ops, DOMAIN ops \ {n})
    BY <1>2 DEF Refetched
  <2>2. \A k \in DOMAIN ops \ {n} : k \in DOMAIN ops' /\ ops'[k] = ops[k]
    BY <2>1 DEF Restrict
  <2> QED
    BY <2>1, <2>2, EndExplains
<1>3. CASE Lose(n)
  <2>1. UNCHANGED <<scene, db, excused>>
    BY <1>3 DEF Lose, history
  <2> QED
    BY <1>3, <2>1, LoseAlike, CallsExplain DEF OpsAlike
<1> QED
  BY <1>1, <1>2, <1>3, NextCallExplains

LEMMA SucceedExplains ==
  ASSUME BaseInv, OrphansExplained, NEW n \in DOMAIN ops, NEW ts, NEW waiting \in BOOLEAN,
         Succeed(n, ts, waiting)
  PROVE  OrphansExplained'
<1>1. UNCHANGED <<scene, db>> /\ excused' = excused \cup Forgiven(ops[n])
      /\ Passed(ops[n]) /\ Len(ops[n].calls) <= 1
  BY DEF Succeed
<1>2. \A k \in DOMAIN ops \ {n} : k \in DOMAIN ops' /\ ops'[k] = ops[k]
  <2>1. CASE ops' = [ops EXCEPT ![n].at = "refetch", ![n].waits = ts, ![n].calls = << >>]
    BY <2>1
  <2>2. CASE ops' = Restrict(ops, DOMAIN ops \ {n})
    BY <2>2 DEF Restrict
  <2> QED
    BY <2>1, <2>2 DEF Succeed
<1> QED
  BY <1>1, <1>2, EndExplains DEF Passed
\* The server and another operator: a check is left without its website only
\* by a call that says so, or that takes the check away next.
LEMMA ChangeExplains ==
  ASSUME BaseInv, OrphansExplained, OpsAlike, NEW c \in CallSet, CallFits(c), ~Refuses(c),
         NEW by \in 0..gestures, ApplyCall(c, by), UNCHANGED <<scene, gestures>>, NEW k, NEW aim,
         excused' = excused \cup Strands(c, k, aim),
         page = "websites" =>
           /\ c.do = "insert" => c.key = k
           /\ c.do = "remove" /\ c.on = "rows" =>
                /\ KeyKept("rows", c.id, k)
                /\ aim # 0 => \E n \in DOMAIN ops : Aims(ops[n], aim)
  PROVE  OrphansExplained'
<1>1. page' = page
  BY DEF page
<1>2. \A m : Explained(m) => Explained(m)'
  BY DEF Explained, OpsAlike, Aims
<1>3. ASSUME page = "websites", NEW m \in Orphans' PROVE Explained(m)'
  <2>1. c.do \notin {"upsert", "enter", "leave"}
    BY <1>3 DEF CallFits
  <2>2. \/ m \in Orphans \/ m \in Strands(c, k, aim)
        \/ c.do = "remove" /\ c.on = "rows" /\ m = aim
    BY <1>3, <2>1, NewOrphans
  <2>3. CASE m \in Orphans
    BY <1>2, <1>3, <2>3, ByExplained
  <2>4. CASE m \in Strands(c, k, aim)
    BY <2>4 DEF Explained
  <2>5. CASE c.do = "remove" /\ c.on = "rows" /\ m = aim
    <3>1. m \in DOMAIN db'["mons"]
      BY DEF Orphans
    <3>2. DbOK' /\ "mons" \in Tables /\ changes' \in Nat
      BY Applied DEF BaseInv, Tables, Moves
    <3>3. m # 0
      BY <3>1, <3>2 DEF DbOK, InTable
    <3> QED
      BY <1>3, <2>5, <3>3 DEF Explained, OpsAlike, Aims
  <2> QED
    BY <2>2, <2>3, <2>4, <2>5
<1> QED
  BY <1>1, <1>3 DEF OrphansExplained, Explained, Aims, InFlight

LEMMA ServeExplains ==
  ASSUME BaseInv, OrphansExplained, NEW n \in DOMAIN ops, NEW heard \in BOOLEAN, Serve(n, heard)
  PROVE  OrphansExplained'
<1>1. PICK c : c = Head(ops[n].calls)
  OBVIOUS
<1>2. /\ ops[n].at = "asked" /\ UNCHANGED <<scene, gestures>>
      /\ UNCHANGED <<db, excused>> \/ Accepted(n, heard, c)
  BY <1>1, ServeCases
<1>3. OpsAlike
  BY ServeAlike
<1>4. CASE UNCHANGED <<db, excused>>
  BY <1>2, <1>3, <1>4, CallsExplain DEF OpsAlike
<1>5. CASE Accepted(n, heard, c)
  <2>1. /\ CallOK(c) /\ CallFits(c) /\ c = ops[n].calls[1] /\ 1 \in DOMAIN ops[n].calls
        /\ OpOK(n, ops[n]) /\ (IF ops[n].form = 0 THEN n ELSE ops[n].form) \in 0..gestures
    BY <1>1, <1>2, ServedCall
  <2>2. PICK op \in OpSet, by \in 0..gestures :
          op = ops[n] /\ by = (IF ops[n].form = 0 THEN n ELSE ops[n].form)
    BY <2>1 DEF OpOK
  <2>3. PICK k, aim : k = op.key /\ aim = op.aim
    OBVIOUS
  <2>4. ~Refuses(c) /\ ApplyCall(c, by) /\ excused' = excused \cup Strands(c, k, aim)
    BY <1>5, <2>2, <2>3 DEF Accepted
  <2>5. c \in CallSet
    BY <2>1 DEF CallOK
  <2>6. ASSUME page = "websites", c.do = "insert" PROVE c.key = k
    BY <2>1, <2>2, <2>3, <2>6 DEF OpOK, WebsiteOp
  <2>7. ASSUME page = "websites", c.do = "remove", c.on = "rows"
        PROVE  KeyKept("rows", c.id, k) /\ (aim # 0 => Aims(op, aim))
    <3>1. op.what = "delete" /\ DeleteOK(op)
      BY <2>1, <2>2, <2>7 DEF OpOK, WebsiteOp
    <3>2. KeyKept("rows", c.id, k)
      BY <2>1, <2>2, <2>3, <2>7, <3>1 DEF DeleteOK
    <3>3. ASSUME aim # 0 PROVE Aims(op, aim)
      <4>1. PICK cs \in Seq(CallSet) : cs = op.calls
        BY DEF OpSet
      <4>2. PICK l \in Nat : l = Len(cs)
        OBVIOUS
      <4>3. l <= 2 /\ 1 \in 1..l /\ l # 1
        BY <2>1, <2>2, <2>3, <2>7, <3>1, <3>3, <4>1, <4>2 DEF OpOK, DeleteOK
      <4>4. l = 2
        BY <4>3
      <4>5. Len(cs) = 2
        BY <4>2, <4>4, Zenon
      <4>6. DOMAIN cs = 1..Len(cs)
        BY <4>1
      <4>7. 2 \in DOMAIN cs /\ Len(op.calls) = 2
        BY <4>1, <4>5, <4>6
      <4>8. cs[2].on = "mons"
        BY <3>1, <4>1, <4>7 DEF DeleteOK
      <4>9. cs[2].id = aim
        BY <2>3, <3>1, <4>1, <4>7, <4>8 DEF DeleteOK
      <4> QED
        BY <3>1, <4>1, <4>7, <4>8, <4>9 DEF Aims
    <3> QED
      BY <3>2, <3>3
  <2>8. page = "websites" =>
           /\ c.do = "insert" => c.key = k
           /\ c.do = "remove" /\ c.on = "rows" =>
                /\ KeyKept("rows", c.id, k)
                /\ aim # 0 => \E j \in DOMAIN ops : Aims(ops[j], aim)
    BY <2>2, <2>6, <2>7
  <2> QED
    BY <1>2, <1>3, <2>1, <2>4, <2>5, <2>8, ChangeExplains
<1> QED
  BY <1>2, <1>4, <1>5

LEMMA OtherExplains ==
  ASSUME BaseInv, OrphansExplained, OtherChanges
  PROVE  OrphansExplained'
<1>1. UNCHANGED <<scene, gestures, ops>>
  BY OtherCases DEF pageVars
<1>2. PICK do \in {"insert", "update", "remove"}, t \in Listed, k \in Keys, i \in 0..changes, c \in CallSet :
        OtherCall(do, t, k, i, c)
  BY OtherCases
<1>3. CallFits(c) /\ 0 \in 0..gestures
  BY <1>2, SceneFacts DEF OtherCall, CallFits, Keyed, KeyKept, BaseInv, CountsOK
<1>4. /\ ~Refuses(c) /\ ApplyCall(c, 0) /\ excused' = excused \cup Strands(c, k, 0)
      /\ c.key = k /\ (c.do = "remove" /\ c.on = "rows" => KeyKept("rows", c.id, k))
  BY <1>2 DEF OtherCall, KeyKept
<1>5. OpsAlike
  BY <1>1 DEF OpsAlike
<1> QED
  BY <1>1, <1>3, <1>4, <1>5, ChangeExplains
LEMMA ExplainStep ==
  ASSUME BaseInv, OrphansExplained, [Next]_vars
  PROVE  OrphansExplained'
<1>1. CASE UNCHANGED vars
  <2>1. UNCHANGED <<scene, db, ops, excused>>
    BY <1>1 DEF vars, pageVars, history
  <2> QED
    BY <2>1, CallsExplain
<1>2. ASSUME NEW t \in Tables, FetchRead(t) \/ FetchDone(t) \/ FetchFails(t) \/ Poll(t)
      PROVE  OrphansExplained'
  <2>1. OpsAlike /\ excused' = excused
    BY <1>2, FetchAlike DEF history
  <2>2. UNCHANGED <<scene, db>>
    BY <1>2, QuietFacts DEF Quiet
  <2> QED
    BY <2>1, <2>2, CallsExplain DEF OpsAlike
<1> QED
  BY <1>1, <1>2, ClickExplains, AnswerExplains, SucceedExplains, ServeExplains, OtherExplains,
     StepKinds

\* A check is left without its website only where the page could not know of
\* it, or said that it could not delete it, or is about to (the second call
\* of deleteMutation).
THEOREM OrphansAreExplained == Spec => []OrphansExplained
<1>1. Init => BaseInv /\ AckInv /\ OrphansExplained
  <2>1. ASSUME Init, NEW m \in Orphans PROVE FALSE
    <3>1. PICK watched \in BOOLEAN :
            db = [t \in Tables |->
                    IF t = "rows" THEN [i \in {1} |-> Row(FirstKey, 1, 0)]
                    ELSE [i \in IF watched THEN {2} ELSE {} |-> Row(FirstKey, 2, 0)]]
      BY <2>1 DEF Init
    <3>2. db["rows"] = [i \in {1} |-> Row(FirstKey, 1, 0)]
          /\ db["mons"] = [i \in IF watched THEN {2} ELSE {} |-> Row(FirstKey, 2, 0)]
      BY <3>1 DEF Tables
    <3>3. m \in DOMAIN db["mons"] /\ 1 \notin IdsOf(db["rows"], db["mons"][m].key)
      BY <2>1 DEF Orphans
    <3>4. db["mons"][m].key = FirstKey /\ db["rows"][1].key = FirstKey /\ 1 \in DOMAIN db["rows"]
      BY <3>2, <3>3 DEF Row
    <3> QED
      BY <3>3, <3>4 DEF IdsOf
  <2> QED
    BY <2>1, InitBase DEF OrphansExplained
<1>2. BaseInv /\ AckInv /\ OrphansExplained /\ [Next]_vars
        => (BaseInv /\ AckInv /\ OrphansExplained)'
  BY BaseStep, ExplainStep
<1> QED
  BY <1>1, <1>2, PTL DEF Spec
=============================================================================
