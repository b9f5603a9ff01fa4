----------------------------- MODULE EditPages -----------------------------
(***************************************************************************)
(* The dashboard's pages that keep a table of the server: log rules        *)
(* (pages/RulesPage.tsx), assets (AssetManagement.tsx), websites           *)
(* (WebsiteMonitoring.tsx, two tables: certificates and checks), network   *)
(* devices (SNMPDashboard.tsx), databases (DPMDashboard.tsx), the notes to *)
(* a log line (AnnotateModal.tsx) and the hosts in maintenance             *)
(* (Overview.tsx, HostOverview.tsx), with their calls in web/src/api and   *)
(* the dialog they share (ConfirmDialog.tsx).                              *)
(*                                                                         *)
(* One operator works on one page: clicks, typing and closing go on while  *)
(* calls and fetches of the list are under way, another operator changes   *)
(* the same table, and calls, answers and fetches may fail.  The page      *)
(* shows what its queries hold, a copy of the table at some earlier moment. *)
(*                                                                         *)
(* Contents of a row are the number of the change that wrote it.           *)
(***************************************************************************)
EXTENDS Naturals, Sequences, FiniteSets, Functions, FiniteSetsExt, TLC

CONSTANTS
  Scenes,       \* a page, with bounds: forms opened and calls started by the
                \* operator (gestures), changes by others, failing calls (faults),
                \* and the lists that have been loaded at the start
  Keys,         \* names, host names, addresses or domains a row is known by
  FirstKey      \* the key of the row there is in the beginning

AllPages == {"rules", "assets", "websites", "snmp", "dpm", "notes", "overview"}

ASSUME ScenesAssumption ==
  /\ Scenes \subseteq [page : AllPages, gestures : Nat, others : Nat, faults : Nat,
                loaded : SUBSET {"rows", "mons"}]
  /\ FirstKey \in Keys

VARIABLES
  scene,     \* the page that is open, and this behaviour's bounds
  db,        \* the server's tables: table -> id -> row
  changes,   \* number of changes made to db; a new row's id is its number
  q,         \* the page's queries, one per table
  form,      \* the forms: "add" and "edit", or NoForm
  target,    \* the row the deletion dialog asks about, or NoTarget
  ops,       \* calls under way, by the number of the gesture that started them
  lastMon,   \* the gesture of the latest "add a check", as its mutation knows it
  gestures, others, faults,  \* how much of each bound is used up
  acked,     \* history: last own change of each table known to have succeeded
  left,      \* history: forms the operator left, or typed on in, while they
             \* were being saved
  twice,     \* history: forms saved again while they were being saved
  dropped,   \* history: <<m, n>>: saving form m closed form n
  undone,    \* history: updates that undid a change their form should have had
  excused,   \* history: checks whose website's deletion did not aim at them
  stopped    \* history: websites whose deletion succeeded, and when it was asked

pageVars == <<q, form, target, ops, lastMon>>
bounds == <<gestures, others, faults>>
history == <<acked, left, twice, dropped, undone, excused, stopped>>
vars == <<scene, db, changes, pageVars, bounds, history>>

page == scene.page

Tables == {"rows", "mons"}
Slots == {"add", "edit"}

NoForm == [n |-> 0, calls |-> << >>]
NoTarget == [id |-> 0]
EmptyTable == << >>

-----------------------------------------------------------------------------
(* The server, as the page's calls see it.                                 *)

Row(k, ver, by) == [key |-> k, ver |-> ver, by |-> by]

\* Tables whose schema or statement refuses a second row of a key; a host is
\* in maintenance or not.
KeyIsUnique == page \in {"rules", "assets", "websites", "snmp", "overview"}

Call(do, on, id) == [do |-> do, on |-> on, id |-> id, key |-> "none",
                     old |-> "none", base |-> 0, known |-> 0]

IdsOf(t, k) == {i \in DOMAIN t : t[i].key = k}

\* An update of a row that is gone, or its deletion, changes nothing and
\* succeeds; assets are found by their key and created when missing, and a
\* host's maintenance ("enter", "leave") by the host.
Hit(c) == IF c.do \in {"upsert", "enter", "leave"} THEN IdsOf(db.rows, c.key)
          ELSE {c.id} \cap DOMAIN db[c.on]

Refuses(c) ==
  /\ c.on = "rows" /\ KeyIsUnique
  /\ c.do = "insert" \/ (c.do = "update" /\ Hit(c) # {})
  /\ IdsOf(db.rows, c.key) \ {c.id} # {}

After(c, by) ==
  LET t == db[c.on]  fresh == changes + 1 IN
  IF c.do = "probe" \/ (c.do = "enter" /\ Hit(c) # {}) THEN t
  ELSE IF c.do \in {"remove", "leave"} THEN Restrict(t, DOMAIN t \ Hit(c))
  ELSE IF c.do = "insert" \/ (c.do \in {"upsert", "enter"} /\ Hit(c) = {})
    THEN [i \in DOMAIN t \cup {fresh} |-> IF i = fresh THEN Row(c.key, fresh, by) ELSE t[i]]
  ELSE [i \in DOMAIN t |->
          IF i \notin Hit(c) THEN t[i]
          ELSE Row(IF c.do = "toggle" THEN t[i].key ELSE c.key, fresh, t[i].by)]

ApplyCall(c, by) ==
  /\ db' = [db EXCEPT ![c.on] = After(c, by)]
  /\ changes' = IF db' = db THEN changes ELSE changes + 1

Orphans == {m \in DOMAIN db.mons : IdsOf(db.rows, db.mons[m].key) = {}}

-----------------------------------------------------------------------------
(* Queries of React Query.  A fetch asked for while one is under way takes *)
(* its place, except that the first load of a query is never replaced: the *)
(* request joins it.  A fetch that fails keeps the data there was.         *)

\* The query has an answer to the latest fetch asked for.
Settled(t) == q[t].fetch = "idle" /\ ~q[t].failed /\ ~q[t].joined

\* The tables a page lists, and those it polls.
Listed == IF page = "websites" THEN Tables ELSE {"rows"}
Polled == CASE page = "websites" -> {"mons"}
            [] page \in {"dpm", "overview"} -> {"rows"}
            [] OTHER -> {}

FetchAnew(r) ==
  IF r.fetch = "idle" \/ r.loaded
  THEN [r EXCEPT !.fetch = "asked", !.joined = FALSE, !.snap = EmptyTable, !.snapAt = 0]
  ELSE [r EXCEPT !.joined = TRUE]

Refetch(ts) == [t \in Tables |-> IF t \in ts THEN FetchAnew(q[t]) ELSE q[t]]

\* The answer of a fetch, or its failure, lets the mutations go on that wait.
Release(t) == [n \in DOMAIN ops |-> [ops[n] EXCEPT !.waits = @ \ {t}]]

FetchRead(t) ==
  /\ q[t].fetch = "asked"
  /\ q' = [q EXCEPT ![t].fetch = "read", ![t].snap = db[t], ![t].snapAt = changes]
  /\ UNCHANGED <<scene, db, changes, form, target, ops, lastMon, bounds, history>>

FetchDone(t) ==
  /\ q[t].fetch = "read"
  /\ q' = [q EXCEPT ![t] = [@ EXCEPT !.data = q[t].snap, !.asOf = q[t].snapAt,
                            !.loaded = TRUE, !.fetch = "idle", !.failed = FALSE,
                            !.snap = EmptyTable, !.snapAt = 0]]
  /\ ops' = Release(t)
  /\ UNCHANGED <<scene, db, changes, form, target, lastMon, bounds, history>>

FetchFails(t) ==
  /\ q[t].fetch # "idle" /\ faults < scene.faults
  /\ faults' = faults + 1
  /\ q' = [q EXCEPT ![t].fetch = "idle", ![t].failed = TRUE,
                    ![t].snap = EmptyTable, ![t].snapAt = 0]
  /\ ops' = Release(t)
  /\ UNCHANGED <<scene, db, changes, form, target, lastMon, gestures, others, history>>

\* Mutant: polling ends with the first failure.
PollUnlessFailed(t) ==
  /\ t \in Polled /\ q[t].fetch = "idle" /\ ~q[t].failed
  /\ q' = Refetch({t})
  /\ UNCHANGED <<scene, db, changes, form, target, ops, lastMon, bounds, history>>

\* refetchInterval of the lists that have one.
Poll(t) ==
  /\ t \in Polled /\ q[t].fetch = "idle"
  /\ q' = Refetch({t})
  /\ UNCHANGED <<scene, db, changes, form, target, ops, lastMon, bounds, history>>

-----------------------------------------------------------------------------
(* What the pages show.  synByDomain: the first check of a domain is its.  *)

Shown(t) == q[t].data

\* Mutant: the last one of a domain wins.
LastMonitor(k) ==
  LET ms == IdsOf(Shown("mons"), k) IN IF ms = {} THEN 0 ELSE Max(ms)
MonitorOf(k) ==
  LET ms == IdsOf(Shown("mons"), k) IN IF ms = {} THEN 0 ELSE Min(ms)

\* A modal covers the page: the dialog, and every editor but the assets'.
Free == target = NoTarget /\ (form.edit = NoForm \/ page = "assets")

Gesture == gestures < scene.gestures /\ gestures' = gestures + 1

InFlight(what) == {n \in DOMAIN ops : ops[n].what \in what}
SavesOf(f) == {n \in InFlight(Slots) : ops[n].form = f.n}

-----------------------------------------------------------------------------
(* Forms.  A form holds the calls that saving it will make, each with the  *)
(* version of the row it was opened on, and the version of the table the   *)
(* list is known to have by then.                                          *)

Known(t) == IF Settled(t) THEN acked[t] ELSE 0
Editing(do, t, i) ==
  [Call(do, t, i) EXCEPT !.key = Shown(t)[i].key, !.old = Shown(t)[i].key,
                         !.base = Shown(t)[i].ver, !.known = Known(t)]

\* RuleEditor: one editor for both.
RuleForm(i) == << Editing("update", "rows", i) >>
NewRule == << Call("insert", "rows", 0) >>

\* AssetManagement: the form is sent without the row's id.
AssetForm(i) == << Editing("upsert", "rows", i) >>
NewAsset == << Call("upsert", "rows", 0) >>

\* WebsiteMonitoring: the domain, then the check the card shows for it.
WebsiteForm(i) ==
  LET m == MonitorOf(Shown("rows")[i].key) IN
  << Editing("update", "rows", i) >> \o
     IF m = 0 THEN << >> ELSE << Editing("update", "mons", m) >>
NewWebsite == << Call("insert", "rows", 0), Call("insert", "mons", 0) >>

DeviceForm(i) == << Editing("update", "rows", i) >>
NewDevice == << Call("insert", "rows", 0) >>

NewDatabase == << Call("insert", "rows", 0) >>

\* AnnotateModal: the fields are always there, and empty in the beginning.
NewNote == << Call("insert", "rows", 0) >>

NewForm == CASE page = "rules" -> NewRule [] page = "assets" -> NewAsset
             [] page = "websites" -> NewWebsite [] page = "snmp" -> NewDevice
             [] page = "dpm" -> NewDatabase [] page = "notes" -> NewNote
EditForm(i) == CASE page = "rules" -> RuleForm(i) [] page = "assets" -> AssetForm(i)
                 [] page = "websites" -> WebsiteForm(i) [] page = "snmp" -> DeviceForm(i)

\* A form that is closed or replaced while it is being saved.
Leave(f) == left' = IF SavesOf(f) # {} THEN left \cup {f.n} ELSE left

Open(slot, calls) ==
  /\ Gesture
  /\ form' = [form EXCEPT ![slot] = [n |-> gestures', calls |-> calls]]
  /\ Leave(form[slot])
  /\ UNCHANGED <<scene, db, changes, q, target, ops, lastMon, others,
                 faults, acked, twice, dropped, undone, excused, stopped>>

AddSlot == IF page \in {"rules", "assets"} THEN "edit" ELSE "add"

OpenNew ==
  /\ page # "overview" /\ Free
  /\ form[AddSlot] = NoForm \/ page = "notes"
  /\ page = "rules" => q.rows.loaded
  /\ Open(AddSlot, NewForm)

OpenEdit(i) == Free /\ Open("edit", EditForm(i))

Close(slot) ==
  /\ page # "notes"
  /\ target = NoTarget /\ form[slot] # NoForm
  /\ slot = "add" => form.edit = NoForm
  /\ form' = [form EXCEPT ![slot] = NoForm]
  /\ Leave(form[slot])
  /\ UNCHANGED <<scene, db, changes, q, target, ops, lastMon, bounds,
                 acked, twice, dropped, undone, excused, stopped>>

\* Whether the button that saves is disabled.  The assets, the devices and
\* the new websites share one mutation over all forms; the rules have none.
RulePending == FALSE
AssetPending(slot) == InFlight({slot}) # {}
WebsitePending(slot) ==
  IF slot = "add" THEN InFlight({"add"}) # {} ELSE SavesOf(form.edit) # {}
DevicePending(slot) == InFlight({slot}) # {}
DatabasePending(slot) == SavesOf(form[slot]) # {}
NotePending == InFlight({"add"}) # {}

Pending(slot) ==
  CASE page = "rules" -> RulePending [] page = "assets" -> AssetPending(slot)
    [] page = "websites" -> WebsitePending(slot) [] page = "snmp" -> DevicePending(slot)
    [] page = "dpm" -> DatabasePending(slot) [] page = "notes" -> NotePending

-----------------------------------------------------------------------------
(* Calls that change the table, started by the operator.                   *)

\* Mutant: a save of a form without changes waits for an answer.
BegunAsked(calls) == "asked"
Begun(calls) == IF calls = << >> THEN "ok" ELSE "asked"

Start(what, f, calls, key, aim) ==
  /\ Gesture
  /\ ops' = [n \in DOMAIN ops \cup {gestures'} |-> IF n \in DOMAIN ops THEN ops[n] ELSE
       [what |-> what, form |-> f, calls |-> calls, key |-> key, aim |-> aim,
        at |-> Begun(calls), ver |-> [t \in Tables |-> 0],
        waits |-> {}, since |-> changes]]

\* What is sent: a website's edit only what differs, a new website without
\* its check when the operator does not want one.
Sent(slot, k) ==
  LET cs == form[slot].calls
      keyed == [j \in DOMAIN cs |-> [cs[j] EXCEPT !.key = k]] IN
  CASE page # "websites" -> {keyed}
    [] page = "websites" /\ slot = "add" -> {SubSeq(keyed, 1, j) : j \in 1..Len(cs)}
    [] page = "websites" /\ slot = "edit" -> {SubSeq(cs, i, j) : i \in 1..2, j \in 0..Len(cs)}

Save(slot, k) ==
  /\ target = NoTarget /\ form[slot] # NoForm /\ ~Pending(slot)
  /\ slot = "add" => form.edit = NoForm
  /\ \E calls \in Sent(slot, k) : Start(slot, form[slot].n, calls, k, 0)
  /\ twice' = IF SavesOf(form[slot]) # {} THEN twice \cup {form[slot].n} ELSE twice
  /\ UNCHANGED <<scene, db, changes, q, form, target, lastMon, others, faults,
                 acked, left, dropped, undone, excused, stopped>>

\* Switching a rule on or off.
Toggle(i) ==
  /\ Free
  /\ Start("toggle", 0, << Call("toggle", "rows", i) >>, Shown("rows")[i].key, 0)
  /\ UNCHANGED <<scene, db, changes, q, form, target, lastMon, others, faults, history>>

\* onToggleMaintenance: the opposite of what the page shows for the host.
ToggleMaintenance(k) ==
  LET do == IF IdsOf(Shown("rows"), k) = {} THEN "enter" ELSE "leave" IN
  /\ Start("toggle", 0, << [Call(do, "rows", 0) EXCEPT !.key = k] >>, k, 0)
  /\ UNCHANGED <<scene, db, changes, q, form, target, lastMon, others, faults, history>>

\* Adding a check to a website the list shows none for.  The button is
\* disabled only while the latest such call is for its domain.
AddMonitor(i) ==
  LET k == Shown("rows")[i].key IN
  /\ Free /\ MonitorOf(k) = 0
  /\ ~(lastMon \in DOMAIN ops /\ ops[lastMon].key = k)
  /\ Start("check", 0, << [Call("insert", "mons", 0) EXCEPT !.key = k] >>, k, 0)
  /\ lastMon' = gestures'
  /\ UNCHANGED <<scene, db, changes, q, form, target, others, faults, history>>

\* Probing a website or a database at once, and then listing it anew.
Probe(t, i) ==
  /\ Free
  /\ Start("probe", 0, << Call("probe", t, i) >>, FirstKey, 0)
  /\ UNCHANGED <<scene, db, changes, q, form, target, lastMon, others, faults, history>>

\* The refresh button of the databases.
Refresh ==
  /\ page = "dpm" /\ Free /\ q.rows.loaded /\ Gesture
  /\ q' = Refetch({"rows"})
  /\ UNCHANGED <<scene, db, changes, form, target, ops, lastMon, others, faults, history>>

AskDelete(i) ==
  LET k == Shown("rows")[i].key  ms == IdsOf(Shown("mons"), k) IN
  /\ Free
  /\ target' = [id |-> i, key |-> k, mon |-> MonitorOf(k),
                aim |-> IF ms = {} THEN 0 ELSE Min(ms)]
  /\ UNCHANGED <<scene, db, changes, q, form, ops, lastMon, bounds, history>>

CancelDelete ==
  /\ target # NoTarget /\ target' = NoTarget
  /\ UNCHANGED <<scene, db, changes, q, form, ops, lastMon, bounds, history>>

ConfirmDelete ==
  /\ target # NoTarget /\ target' = NoTarget
  /\ Start("delete", 0, << Call("remove", "rows", target.id) >> \o
             IF target.mon = 0 THEN << >> ELSE << Call("remove", "mons", target.mon) >>,
           target.key, target.aim)
  /\ UNCHANGED <<scene, db, changes, q, form, lastMon, others, faults, history>>

\* A note is deleted without a question; the buttons wait for one another.
DeleteNote(i) ==
  /\ InFlight({"delete"}) = {}
  /\ Start("delete", 0, << Call("remove", "rows", i) >>, Shown("rows")[i].key, 0)
  /\ UNCHANGED <<scene, db, changes, q, form, target, lastMon, others, faults, history>>

-----------------------------------------------------------------------------
(* The calls' way to the server and back.                                  *)

Undoes(c) == {c.key # c.old : i \in {i \in Hit(c) :
               c.base < db[c.on][i].ver /\ db[c.on][i].ver <= c.known}}

\* Checks that a change leaves, or puts, without the website they belong to
\* although the page could not know.
Strands(c, k, aim) ==
  IF c.do = "remove" /\ c.on = "rows" THEN IdsOf(db.mons, k) \ {aim}
  ELSE IF c.do = "insert" /\ c.on = "mons" /\ IdsOf(db.rows, k) = {} THEN {changes + 1}
  ELSE {}

\* The server handles a call; its answer may be lost.
Serve(n, heard) ==
  LET op == ops[n]  c == Head(op.calls) IN
  /\ op.at = "asked"
  /\ IF Refuses(c)
     THEN /\ heard
          /\ ops' = [ops EXCEPT ![n].at = "refused"]
          /\ UNCHANGED <<db, changes, faults, undone, excused>>
     ELSE /\ heard \/ faults < scene.faults
          /\ ApplyCall(c, IF op.form = 0 THEN n ELSE op.form)
          /\ ops' = [ops EXCEPT ![n].at = IF heard THEN "ok" ELSE "refused",
                                ![n].ver[c.on] = changes']
          /\ faults' = IF heard THEN faults ELSE faults + 1
          /\ undone' = IF c.do \in {"update", "upsert"} THEN undone \cup Undoes(c) ELSE undone
          /\ excused' = excused \cup Strands(c, op.key, op.aim)
  /\ UNCHANGED <<scene, q, form, target, lastMon, gestures, others,
                 acked, left, twice, dropped, stopped>>

\* The call does not arrive.
Lose(n) ==
  /\ ops[n].at = "asked" /\ faults < scene.faults
  /\ faults' = faults + 1
  /\ ops' = [ops EXCEPT ![n].at = "refused"]
  /\ UNCHANGED <<scene, db, changes, q, form, target, lastMon, gestures, others, history>>

-----------------------------------------------------------------------------
(* What the page does with an answer.                                      *)

\* The second call of a website's registration and of its deletion is
\* wrapped in try and catch.
Tolerated(op) == op.what \in {"add", "delete"} /\ Head(op.calls).on = "mons"
Passed(op) == op.at = "ok" \/ (op.at = "refused" /\ Tolerated(op))
Forgiven(op) == {op.calls[j].id : j \in {j \in DOMAIN op.calls :
                   op.at = "refused" /\ op.calls[j].on = "mons"}}

NextCall(n) ==
  /\ Passed(ops[n]) /\ Len(ops[n].calls) > 1
  /\ ops' = [ops EXCEPT ![n].calls = Tail(@), ![n].at = "asked"]
  /\ UNCHANGED <<scene, db, changes, q, form, target, lastMon, bounds, history>>

CallFails(n) ==
  /\ ops[n].at = "refused" /\ ~Tolerated(ops[n])
  /\ ops' = Restrict(ops, DOMAIN ops \ {n})
  /\ excused' = excused \cup Forgiven(ops[n])
  /\ UNCHANGED <<scene, db, changes, q, form, target, lastMon, bounds,
                 acked, left, twice, dropped, undone, stopped>>

\* A save that succeeds closes its kind of form, whichever row that shows.
\* Mutant: whatever succeeds closes it.
ClosesAny(what) == {IF what = "add" THEN "add" ELSE "edit"}
Closes(what) == {what} \cap Slots

CloseForms(n, slots) ==
  /\ form' = [s \in Slots |-> IF s \in slots THEN NoForm ELSE form[s]]
  /\ dropped' = dropped \cup {<<ops[n].form, form[s].n>> :
                   s \in {s \in slots : form[s].n \notin {0, ops[n].form}}}

\* onSuccess: the lists are fetched anew, and the form closes at once or
\* after they are.
Succeed(n, refreshed, waiting) ==
  /\ Passed(ops[n]) /\ Len(ops[n].calls) <= 1
  /\ q' = Refetch(refreshed)
  /\ acked' = [t \in Tables |-> Max({acked[t], ops[n].ver[t]})]
  /\ excused' = excused \cup Forgiven(ops[n])
  /\ stopped' = IF ops[n].what = "delete"
                THEN stopped \cup {<<ops[n].key, ops[n].since>>} ELSE stopped
  /\ IF waiting
     THEN /\ ops' = [ops EXCEPT ![n].at = "refetch", ![n].waits = refreshed, ![n].calls = << >>]
          /\ UNCHANGED <<form, dropped>>
     ELSE /\ ops' = Restrict(ops, DOMAIN ops \ {n})
          /\ CloseForms(n, Closes(ops[n].what))
  /\ UNCHANGED <<scene, db, changes, target, lastMon, bounds, left, twice, undone>>

\* Mutants: a switched rule, or a deleted row, is not fetched anew.
RuleDoneToggle(n) ==
  page = "rules" /\ Succeed(n, IF ops[n].what = "toggle" THEN {} ELSE {"rows"}, FALSE)
AssetDoneDelete(n) ==
  page = "assets" /\ Succeed(n, IF ops[n].what = "delete" THEN {} ELSE {"rows"}, FALSE)

RuleDone(n) == page = "rules" /\ Succeed(n, {"rows"}, FALSE)
AssetDone(n) == page = "assets" /\ Succeed(n, {"rows"}, FALSE)
WebsiteDone(n) ==
  /\ page = "websites"
  /\ Succeed(n, IF ops[n].what \in {"check", "probe"} THEN {"mons"} ELSE Tables,
             ops[n].what \notin {"edit", "probe"})
DeviceDone(n) == page = "snmp" /\ Succeed(n, {"rows"}, FALSE)
DatabaseDone(n) == page = "dpm" /\ Succeed(n, {"rows"}, ops[n].what = "add")
NoteDone(n) == page = "notes" /\ Succeed(n, {"rows"}, FALSE)
MaintenanceDone(n) == page = "overview" /\ Succeed(n, {"rows"}, FALSE)

Refetched(n) ==
  /\ ops[n].at = "refetch" /\ ops[n].waits = {}
  /\ ops' = Restrict(ops, DOMAIN ops \ {n})
  /\ CloseForms(n, Closes(ops[n].what))
  /\ UNCHANGED <<scene, db, changes, q, target, lastMon, bounds,
                 acked, left, twice, undone, excused, stopped>>

-----------------------------------------------------------------------------
(* Another operator changes the same tables.                               *)

OtherChanges ==
  \E do \in {"insert", "update", "remove"}, t \in Listed, k \in Keys, i \in 0..changes :
    LET c == [Call(do, t, i) EXCEPT !.key = k] IN
    /\ others < scene.others /\ others' = others + 1
    /\ do = "insert" <=> i = 0
    /\ do # "insert" => i \in DOMAIN db[t] /\ db[t][i].key = k
    /\ do = "update" => page \notin {"notes", "overview"}
    /\ ~Refuses(c)
    /\ ApplyCall(c, 0)
    /\ excused' = excused \cup Strands(c, k, 0)
    /\ UNCHANGED <<scene, pageVars, gestures, faults,
                   acked, left, twice, dropped, undone, stopped>>

-----------------------------------------------------------------------------
Init ==
  /\ scene \in Scenes
  /\ \E watched \in BOOLEAN :
       /\ watched => page = "websites"
       /\ db = [t \in Tables |->
                  IF t = "rows" THEN [i \in {1} |-> Row(FirstKey, 1, 0)]
                  ELSE [i \in IF watched THEN {2} ELSE {} |-> Row(FirstKey, 2, 0)]]
  /\ changes = 2
  /\ q = [t \in Tables |->
            LET old == t \in scene.loaded IN
            [data |-> IF old THEN db[t] ELSE EmptyTable, asOf |-> IF old THEN changes ELSE 0,
             loaded |-> old, failed |-> FALSE, joined |-> FALSE,
             fetch |-> IF t \in Listed /\ ~old THEN "asked" ELSE "idle",
             snap |-> EmptyTable, snapAt |-> 0]]
  /\ form = [s \in Slots |-> NoForm] /\ target = NoTarget
  /\ ops = << >> /\ lastMon = 0
  /\ gestures = 0 /\ others = 0 /\ faults = 0
  /\ acked = [t \in Tables |-> 0]
  /\ left = {} /\ twice = {} /\ dropped = {}
  /\ undone = {} /\ excused = {} /\ stopped = {}

\* What the rows and cards of the pages offer.
RuleRow(i) == page = "rules" /\ (Toggle(i) \/ OpenEdit(i) \/ AskDelete(i))
AssetRow(i) == page = "assets" /\ (OpenEdit(i) \/ AskDelete(i))
WebsiteCard(i) ==
  LET m == MonitorOf(Shown("rows")[i].key) IN
  /\ page = "websites"
  /\ \/ OpenEdit(i) \/ AskDelete(i) \/ AddMonitor(i)
     \/ m # 0 /\ Probe("mons", m)
DeviceCard(i) == page = "snmp" /\ (OpenEdit(i) \/ AskDelete(i))
InstanceCard(i) == page = "dpm" /\ (Probe("rows", i) \/ AskDelete(i))
NoteItem(i) == page = "notes" /\ DeleteNote(i)
HostCard(k) == page = "overview" /\ ToggleMaintenance(k)

Click ==
  \/ OpenNew
  \/ \E s \in Slots : Close(s)
  \/ \E s \in Slots, k \in Keys : Save(s, k)
  \/ \E i \in DOMAIN Shown("rows") :
       \/ RuleRow(i) \/ AssetRow(i) \/ WebsiteCard(i) \/ DeviceCard(i)
       \/ InstanceCard(i) \/ NoteItem(i)
  \/ \E k \in Keys : HostCard(k)
  \/ Refresh
  \/ CancelDelete
  \/ ConfirmDelete

Answered(n) ==
  \/ NextCall(n) \/ CallFails(n) \/ Refetched(n)
  \/ RuleDone(n) \/ AssetDone(n) \/ WebsiteDone(n) \/ DeviceDone(n) \/ DatabaseDone(n)
  \/ NoteDone(n) \/ MaintenanceDone(n)

Next ==
  \/ Click
  \/ \E n \in DOMAIN ops : Answered(n) \/ Lose(n) \/ \E heard \in BOOLEAN : Serve(n, heard)
  \/ \E t \in Tables : FetchRead(t) \/ FetchDone(t) \/ FetchFails(t) \/ Poll(t)
  \/ OtherChanges

\* Timers of polls fire, and fetches end.
Fairness == \A t \in Tables : WF_vars(Poll(t)) /\ WF_vars(FetchRead(t)) /\ WF_vars(FetchDone(t))

Spec == Init /\ [][Next]_vars /\ Fairness

-----------------------------------------------------------------------------
(* Properties.                                                             *)

TypeOK ==
  /\ scene \in Scenes /\ changes \in Nat
  /\ \A t \in Tables :
       /\ DOMAIN db[t] \subseteq 1..changes
       /\ \A i \in DOMAIN db[t] :
            db[t][i].key \in Keys /\ db[t][i].ver \in i..changes /\ db[t][i].by \in 0..gestures
       /\ DOMAIN q[t].data \subseteq 1..changes /\ DOMAIN q[t].snap \subseteq 1..changes
       /\ q[t].fetch \in {"idle", "asked", "read"} /\ q[t].asOf \in 0..changes
       /\ q[t].snapAt \in 0..changes /\ {q[t].loaded, q[t].failed, q[t].joined} \subseteq BOOLEAN
       /\ acked[t] \in 0..changes
  /\ \A s \in Slots : form[s].n \in 0..gestures /\ Len(form[s].calls) <= 2
  /\ target.id \in 0..changes /\ lastMon \in 0..gestures
  /\ DOMAIN ops \subseteq 1..gestures
  /\ \A n \in DOMAIN ops :
       /\ ops[n].what \in Slots \cup {"toggle", "check", "probe", "delete"} /\ ops[n].form \in 0..n
       /\ ops[n].at \in {"asked", "ok", "refused", "refetch"} /\ ops[n].waits \subseteq Tables
       /\ Len(ops[n].calls) <= 2 /\ ops[n].at \in {"asked", "refused"} => ops[n].calls # << >>
  /\ gestures \in 0..scene.gestures /\ others \in 0..scene.others /\ faults \in 0..scene.faults
  /\ left \cup twice \subseteq 1..gestures /\ dropped \subseteq (0..gestures) \X (1..gestures)
  /\ undone \subseteq BOOLEAN /\ excused \subseteq 0..changes
  /\ stopped \subseteq Keys \X (0..changes)

\* Once a list's latest fetch has been answered, the page shows the
\* operator's own changes that it reported as done, however the fetches,
\* polls and other mutations interleaved (invalidateQueries and
\* refetchQueries in the pages' onSuccess).  Not covered: a fetch that
\* failed, and one that was asked for during the first load.
ListCatchesUp == \A t \in Listed : Settled(t) => q[t].asOf >= acked[t]

\* Saving a form never undoes a change that the operator had been told was
\* done, and whose list was up to date, when the form was opened: the form's
\* copy of the row (useState(initial), setEditing, editTarget) is not older.
\* The one exception is an asset that is saved under another's host name.
NothingUndone == FALSE \notin undone /\ (page = "assets" \/ undone = {})

\* A form with input in it is closed by the success of another form's save
\* only if that form had been left, or closed in this way itself, or saved a
\* second time (rules have no disabled button), while it was being saved
\* (onSaved, cancel, setShowAdd); the fields of a note are emptied only if
\* they were typed on in meanwhile.
Closed == {d[2] : d \in dropped}
InputKept ==
  \A d \in dropped : d[1] \in left \cup Closed \/ (page = "rules" /\ d[1] \in twice)

\* A check without a website is one the page did not show for it when the
\* website was deleted, or whose deletion failed, or that was put there after
\* the website was gone: deleteMutation otherwise takes both away.
OrphansExplained ==
  page = "websites" =>
    \A m \in Orphans \ excused :
      \E n \in InFlight({"delete"}) : \E j \in DOMAIN ops[n].calls :
        ops[n].calls[j].on = "mons" /\ ops[n].calls[j].id = m

\* Once everything else has come to rest, a list with a refetchInterval shows
\* the table, whatever another operator did and whatever failed before.
PolledListsCatchUp ==
  \A t \in Tables : [](t \in Polled) => <>[](q[t].data = db[t])

\* WebsiteMonitoring.tsx:342: deleting a website stops its certificate check
\* and its availability check both.  (Violated: the page deletes only the
\* check it shows, and says nothing when that fails.)
DeletedStopsBoth ==
  \A s \in stopped : \A m \in IdsOf(db.mons, s[1]) : m > s[2]
=============================================================================
