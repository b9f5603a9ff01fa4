------------------------------ MODULE Console ------------------------------
(***************************************************************************)
(* The dashboard in several tabs of one browser: the session they share    *)
(* (api/auth.ts, App.tsx, LoginPage.tsx, DashboardLayout.tsx), and the     *)
(* alert settings, which every tab keeps a copy of (AlertSettings.tsx,     *)
(* and HostOverview.tsx, which looks at the same query).                   *)
(*                                                                         *)
(* The token is in the browser's local storage, so that signing in or out  *)
(* in one tab changes what the others send, and what a reload shows.  The  *)
(* tabs are visible: a hidden one does not poll.                           *)
(***************************************************************************)
EXTENDS Naturals, FiniteSets, Functions, TLC

CONSTANTS
  Tabs,
  Scenes,       \* bounds: attempts to sign in, logouts, tokens that expire,
                \* saves, edits of the settings, failing requests; and whether
                \* the polls are looked at, whose answers matter only to a
                \* session that may end
  Recipients,   \* lists of recipients, and all that is edited by one click
  Thresholds,   \* numbers from 1 to 100
  FirstSettings

Places == {"login", "overview", "settings", "leaving"}
Fields == {"recipients", "threshold"}
Settings == [recipients : Recipients, threshold : Thresholds]
Bounds == {"logins", "logouts", "expiries", "saves", "edits", "faults"}

\* What a number field may hold besides a number from 1 to 100: nothing or a
\* number up to 0, and a positive number out of the range.
Invalid == {"empty", "odd"}

ASSUME ConsoleAssumption ==
  /\ Scenes \subseteq [logins : Nat, logouts : Nat, expiries : Nat,
                       saves : Nat, edits : Nat, faults : Nat, polls : BOOLEAN]
  /\ \A s \in Scenes : s.polls \/ (s.logins = 0 /\ s.logouts = 0 /\ s.expiries = 0)
  /\ FirstSettings \in Settings
  /\ Thresholds \cap Invalid = {}
  /\ "none" \notin Tabs

VARIABLES
  scene, used,   \* the bounds of this behaviour, and how much of them is used
  \* the server
  settings,      \* the alert configuration
  now, stamp,    \* number of its changes, and when each field changed last
  issued, expired, \* number of tokens issued, and those that have expired
  \* the browser
  token,         \* the token in the local storage, or 0
  place,         \* tab -> the page it shows
  signin,        \* tab -> the request to sign in
  poll,          \* tab -> the request that repeats every 30 seconds
  load,          \* tab -> the fetch of the settings
  cache,         \* tab -> the settings in its query cache
  form,          \* tab -> the settings as edited, while its form is open
  saves,         \* saves under way, by their number
  misjudged,     \* history: an answer to a request that carried a valid
                 \* token has removed that token
  blind          \* history: a save put a field back that its form should
                 \* have had anew

server == <<settings, now, stamp, issued, expired>>
history == <<misjudged, blind>>
vars == <<scene, used, server, token, place, signin, poll, load, cache, form, saves, history>>

-----------------------------------------------------------------------------
(* Requests carry the token there is when they are sent.                   *)

Idle == [at |-> "idle", token |-> 0]
Request == [at |-> "asked", token |-> token]
NoLoad == [at |-> "idle", token |-> 0, snap |-> FirstSettings, asOf |-> 0]
LoadRequest == [NoLoad EXCEPT !.at = "asked", !.token = token]
NoCache == [has |-> FALSE, failed |-> FALSE, data |-> FirstSettings, asOf |-> 0]
NoForm == [open |-> FALSE, local |-> FirstSettings, touched |-> {},
           raw |-> FirstSettings.threshold, focus |-> FALSE, saving |-> 0]

Valid(k) == k \in (1..issued) \ expired
Inside == {"overview", "settings"}
Here(t) == place[t] # "leaving"

Use(what) == used[what] < scene[what] /\ used' = [used EXCEPT ![what] = @ + 1]

\* Answers the response interceptor takes for the end of the session.
\* Mutant: any failure.
UnauthorizedAny(at) == at \in {"refused", "failed"}
Unauthorized(at) == at = "refused"

\* removeToken and a reload.  Mutant: the page stays.
InterceptStay(t, k) ==
  /\ token' = 0 /\ UNCHANGED place
  /\ misjudged' = (misjudged \/ (Valid(token) /\ k = token))
Intercept(t, k) ==
  /\ token' = 0 /\ place' = [place EXCEPT ![t] = "leaving"]
  /\ misjudged' = (misjudged \/ (Valid(token) /\ k = token))

-----------------------------------------------------------------------------
(* The session.                                                            *)

\* App: what a page shows is decided when it is loaded.  What the old page
\* had asked for may still reach the server.
Reload(t) ==
  /\ place[t] = "leaving"
  /\ place' = [place EXCEPT ![t] = IF token = 0 THEN "login" ELSE "overview"]
  /\ load' = [load EXCEPT ![t] = IF token = 0 THEN NoLoad ELSE LoadRequest]
  /\ signin' = [signin EXCEPT ![t] = Idle] /\ poll' = [poll EXCEPT ![t] = Idle]
  /\ cache' = [cache EXCEPT ![t] = NoCache] /\ form' = [form EXCEPT ![t] = NoForm]
  /\ saves' = [n \in {n \in DOMAIN saves : saves[n].tab # t \/ saves[n].at = "asked"} |->
                 IF saves[n].tab = t THEN [saves[n] EXCEPT !.tab = "none"] ELSE saves[n]]
  /\ UNCHANGED <<scene, used, server, token, history>>

\* handleSubmit.
SignIn(t, right) ==
  /\ place[t] = "login" /\ signin[t].at = "idle"
  /\ Use("logins")
  /\ signin' = [signin EXCEPT ![t] = [at |-> IF right THEN "right" ELSE "wrong", token |-> 0]]
  /\ UNCHANGED <<scene, server, token, place, poll, load, cache, form, saves, history>>

SigninServed(t) ==
  /\ \/ /\ signin[t].at = "right"
        /\ issued' = issued + 1
        /\ signin' = [signin EXCEPT ![t] = [at |-> "ok", token |-> issued']]
     \/ /\ signin[t].at = "wrong"
        /\ signin' = [signin EXCEPT ![t].at = "refused"]
        /\ UNCHANGED issued
  /\ UNCHANGED <<scene, used, settings, now, stamp, expired, token, place, poll, load,
                 cache, form, saves, history>>

SigninLost(t) ==
  /\ signin[t].at \in {"right", "wrong"} /\ Use("faults")
  /\ signin' = [signin EXCEPT ![t].at = "failed"]
  /\ UNCHANGED <<scene, server, token, place, poll, load, cache, form, saves, history>>

SigninAnswered(t) ==
  /\ Here(t) /\ signin[t].at \in {"ok", "refused", "failed"}
  /\ signin' = [signin EXCEPT ![t] = Idle]
  /\ IF Unauthorized(signin[t].at) THEN Intercept(t, 0)
     ELSE IF signin[t].at = "failed" THEN UNCHANGED <<token, place, misjudged>>
     ELSE /\ token' = signin[t].token /\ place' = [place EXCEPT ![t] = "leaving"]
          /\ UNCHANGED misjudged
  /\ UNCHANGED <<scene, used, server, poll, load, cache, form, saves, blind>>

Logout(t) ==
  /\ place[t] \in Inside /\ Use("logouts")
  /\ token' = 0 /\ place' = [place EXCEPT ![t] = "leaving"]
  /\ UNCHANGED <<scene, server, signin, poll, load, cache, form, saves, history>>

\* useAlertStatus, which the layout looks at on every page.
Poll(t) ==
  /\ scene.polls /\ place[t] \in Inside /\ poll[t].at = "idle"
  /\ poll' = [poll EXCEPT ![t] = Request]
  /\ UNCHANGED <<scene, used, server, token, place, signin, load, cache, form, saves, history>>

PollServed(t) ==
  /\ poll[t].at = "asked"
  /\ poll' = [poll EXCEPT ![t] = IF Valid(@.token) THEN Idle ELSE [@ EXCEPT !.at = "refused"]]
  /\ UNCHANGED <<scene, used, server, token, place, signin, load, cache, form, saves, history>>

PollLost(t) ==
  /\ poll[t].at = "asked" /\ Use("faults")
  /\ poll' = [poll EXCEPT ![t].at = "failed"]
  /\ UNCHANGED <<scene, server, token, place, signin, load, cache, form, saves, history>>

PollAnswered(t) ==
  /\ Here(t) /\ poll[t].at \in {"refused", "failed"}
  /\ poll' = [poll EXCEPT ![t] = Idle]
  /\ IF Unauthorized(poll[t].at) THEN Intercept(t, poll[t].token)
     ELSE UNCHANGED <<token, place, misjudged>>
  /\ UNCHANGED <<scene, used, server, signin, load, cache, form, saves, blind>>

\* Tokens are good for eight hours.
Expire ==
  /\ Use("expiries")
  /\ \E k \in (1..issued) \ expired : expired' = expired \cup {k}
  /\ UNCHANGED <<scene, settings, now, stamp, issued, token, place, signin, poll, load,
                 cache, form, saves, history>>

-----------------------------------------------------------------------------
(* The settings in a tab's cache, and the form that follows them.          *)

NewForm(s) == [NoForm EXCEPT !.open = TRUE, !.local = s, !.raw = s.threshold]

\* setLocalCfg whenever the query's data differ from before; a number field
\* follows its value.  Mutant: only the first time.
SyncedOnce(f, old, data) == IF ~f.open THEN NewForm(data) ELSE f
Synced(f, old, data) ==
  IF ~f.open THEN NewForm(data)
  ELSE IF old = data THEN f
  ELSE [f EXCEPT !.local = data, !.touched = {},
                 !.raw = IF f.local.threshold = data.threshold THEN @ ELSE data.threshold]

\* The fields are there anew when the message of a failed load goes.
Redrawn(f) ==
  IF f.open THEN [f EXCEPT !.raw = f.local.threshold, !.focus = FALSE] ELSE f

\* A page that looks at the query joins a fetch that is under way.
GoTo(t, p) ==
  /\ scene.saves > 0 /\ place[t] \in Inside \ {p}
  /\ place' = [place EXCEPT ![t] = p]
  /\ load' = IF load[t].at = "idle" THEN [load EXCEPT ![t] = LoadRequest] ELSE load
  /\ form' = [form EXCEPT ![t] = IF p = "settings" /\ cache[t].has
                                 THEN NewForm(cache[t].data) ELSE NoForm]
  /\ UNCHANGED <<scene, used, server, token, signin, poll, cache, saves, history>>

LoadServed(t) ==
  /\ load[t].at = "asked"
  /\ load' = [load EXCEPT ![t] =
       IF Valid(@.token) THEN [@ EXCEPT !.at = "ok", !.snap = settings, !.asOf = now]
       ELSE [@ EXCEPT !.at = "refused"]]
  /\ UNCHANGED <<scene, used, server, token, place, signin, poll, cache, form, saves, history>>

LoadLost(t) ==
  /\ load[t].at = "asked" /\ Use("faults")
  /\ load' = [load EXCEPT ![t].at = "failed"]
  /\ UNCHANGED <<scene, server, token, place, signin, poll, cache, form, saves, history>>

LoadAnswered(t) ==
  /\ Here(t) /\ load[t].at \in {"ok", "refused", "failed"}
  /\ load' = [load EXCEPT ![t] = NoLoad]
  /\ IF load[t].at = "ok"
     THEN /\ cache' = [cache EXCEPT ![t] = [has |-> TRUE, failed |-> FALSE,
                                            data |-> load[t].snap, asOf |-> load[t].asOf]]
          /\ form' = IF place[t] # "settings" THEN form
                     ELSE [form EXCEPT ![t] = Synced(@, cache[t].data, load[t].snap)]
     ELSE /\ cache' = [cache EXCEPT ![t].failed = TRUE]
          /\ form' = [form EXCEPT ![t] = Redrawn(@)]
  /\ IF Unauthorized(load[t].at) THEN Intercept(t, load[t].token)
     ELSE UNCHANGED <<token, place, misjudged>>
  /\ UNCHANGED <<scene, used, server, signin, poll, saves, blind>>

-----------------------------------------------------------------------------
(* Editing and saving.  The message of a failed load takes the form's place. *)

Shown(t) == place[t] = "settings" /\ form[t].open /\ ~cache[t].failed

\* The recipients, and the switch: addRecipient, removeRecipient.
EditRecipients(t, r) ==
  /\ Shown(t) /\ ~form[t].focus /\ r # form[t].local.recipients
  /\ Use("edits")
  /\ form' = [form EXCEPT ![t].local.recipients = r, ![t].touched = @ \cup {"recipients"}]
  /\ UNCHANGED <<scene, server, token, place, signin, poll, load, cache, saves, history>>

\* ThresholdField: what is typed is kept, and passed on if it is in range.
TypeThreshold(t, text) ==
  /\ Shown(t) /\ text # form[t].raw
  /\ Use("edits")
  /\ form' = [form EXCEPT ![t].raw = text, ![t].focus = TRUE,
       ![t].local.threshold = IF text \in Thresholds THEN text ELSE @,
       ![t].touched = @ \cup (IF text \in Thresholds THEN {"threshold"} ELSE {})]
  /\ UNCHANGED <<scene, server, token, place, signin, poll, load, cache, saves, history>>

\* onBlur: nothing, or a number up to 0, is replaced by the value there is.
\* Mutant: it is not.
BlurKeep(t) ==
  /\ Shown(t) /\ form[t].focus
  /\ form' = [form EXCEPT ![t].focus = FALSE]
  /\ UNCHANGED <<scene, used, server, token, place, signin, poll, load, cache, saves, history>>
Blur(t) ==
  /\ Shown(t) /\ form[t].focus
  /\ form' = [form EXCEPT ![t].focus = FALSE,
                          ![t].raw = IF @ = "empty" THEN form[t].local.threshold ELSE @]
  /\ UNCHANGED <<scene, used, server, token, place, signin, poll, load, cache, saves, history>>

\* handleSave: the whole configuration is sent.  isPending is the state of
\* the page as long as it is open.
Save(t) ==
  /\ Shown(t) /\ ~form[t].focus /\ form[t].saving = 0
  /\ Use("saves")
  /\ saves' = [n \in DOMAIN saves \cup {used'.saves} |->
       IF n \in DOMAIN saves THEN saves[n]
       ELSE [tab |-> t, to |-> form[t].local, touched |-> form[t].touched,
             asOf |-> cache[t].asOf, token |-> token, at |-> "asked"]]
  /\ form' = [form EXCEPT ![t].saving = used'.saves]
  /\ UNCHANGED <<scene, server, token, place, signin, poll, load, cache, history>>

Dropped(n) == Restrict(saves, DOMAIN saves \ {n})
Ended(n, at) == IF saves[n].tab = "none" THEN Dropped(n) ELSE [saves EXCEPT ![n].at = at]

\* The server takes the configuration as it is sent.  The answer may be lost,
\* or tell of the failure to write the file.
SaveServed(n, heard) ==
  LET s == saves[n] IN
  /\ s.at = "asked"
  /\ IF ~Valid(s.token)
     THEN /\ heard /\ saves' = Ended(n, "refused")
          /\ UNCHANGED <<used, settings, now, stamp, blind>>
     ELSE /\ IF heard THEN UNCHANGED used ELSE Use("faults")
          /\ saves' = Ended(n, IF heard THEN "ok" ELSE "failed")
          /\ settings' = s.to
          /\ now' = IF s.to = settings THEN now ELSE now + 1
          /\ stamp' = [f \in Fields |-> IF s.to[f] = settings[f] THEN stamp[f] ELSE now']
          /\ blind' = (blind \/ \E f \in Fields \ s.touched :
                                  s.to[f] # settings[f] /\ stamp[f] <= s.asOf)
  /\ UNCHANGED <<scene, issued, expired, token, place, signin, poll, load, cache, form, misjudged>>

SaveLost(n) ==
  /\ saves[n].at = "asked" /\ Use("faults")
  /\ saves' = Ended(n, "failed")
  /\ UNCHANGED <<scene, server, token, place, signin, poll, load, cache, form, history>>

\* Mutant: a save that fails leaves the button disabled.
SaveAnsweredPending(n) ==
  LET s == saves[n]  t == s.tab IN
  /\ s.at \in {"ok", "refused", "failed"} /\ Here(t)
  /\ saves' = Dropped(n)
  /\ form' = [form EXCEPT ![t] = IF @.open /\ @.saving = n /\ s.at = "ok" THEN [@ EXCEPT !.saving = 0] ELSE @]
  /\ load' = IF s.at = "ok" THEN [load EXCEPT ![t] = LoadRequest] ELSE load
  /\ IF Unauthorized(s.at) THEN Intercept(t, s.token) ELSE UNCHANGED <<token, place, misjudged>>
  /\ UNCHANGED <<scene, used, server, signin, poll, cache, blind>>

\* invalidateQueries: both pages look at the query, so it is fetched at once,
\* in the place of a fetch under way.
SaveAnswered(n) ==
  LET s == saves[n]  t == s.tab IN
  /\ s.at \in {"ok", "refused", "failed"} /\ Here(t)
  /\ saves' = Dropped(n)
  /\ form' = [form EXCEPT ![t] = IF @.open /\ @.saving = n THEN [@ EXCEPT !.saving = 0] ELSE @]
  /\ load' = IF s.at = "ok" THEN [load EXCEPT ![t] = LoadRequest] ELSE load
  /\ IF Unauthorized(s.at) THEN Intercept(t, s.token) ELSE UNCHANGED <<token, place, misjudged>>
  /\ UNCHANGED <<scene, used, server, signin, poll, cache, blind>>

-----------------------------------------------------------------------------
Init ==
  /\ scene \in Scenes
  /\ used = [what \in Bounds |-> 0]
  /\ settings = FirstSettings /\ now = 0 /\ stamp = [f \in Fields |-> 0]
  /\ issued = 1 /\ expired = {}
  /\ token \in {0, 1}
  /\ scene.saves > 0 => token = 1
  /\ place = [t \in Tabs |-> IF token = 0 THEN "login" ELSE "overview"]
  /\ signin = [t \in Tabs |-> Idle] /\ poll = [t \in Tabs |-> Idle]
  /\ load = [t \in Tabs |-> IF token = 0 THEN NoLoad ELSE LoadRequest]
  /\ cache = [t \in Tabs |-> NoCache] /\ form = [t \in Tabs |-> NoForm]
  /\ saves = << >>
  /\ misjudged = FALSE /\ blind = FALSE

Session(t) ==
  \/ Reload(t) \/ Logout(t)
  \/ \E right \in BOOLEAN : SignIn(t, right)
  \/ SigninServed(t) \/ SigninLost(t) \/ SigninAnswered(t)
  \/ Poll(t) \/ PollServed(t) \/ PollLost(t) \/ PollAnswered(t)

Editing(t) ==
  \/ \E p \in Inside : GoTo(t, p)
  \/ LoadServed(t) \/ LoadLost(t) \/ LoadAnswered(t)
  \/ \E r \in Recipients : EditRecipients(t, r)
  \/ \E text \in Thresholds \cup Invalid : TypeThreshold(t, text)
  \/ Blur(t) \/ Save(t)

Next ==
  \/ \E t \in Tabs : Session(t) \/ Editing(t)
  \/ \E n \in DOMAIN saves : SaveLost(n) \/ SaveAnswered(n) \/ \E heard \in BOOLEAN : SaveServed(n, heard)
  \/ Expire

\* The timer of the poll fires, requests are answered, and pages are loaded.
Fairness ==
  \A t \in Tabs : WF_vars(Poll(t)) /\ WF_vars(PollServed(t)) /\ WF_vars(PollAnswered(t))
                  /\ WF_vars(Reload(t))

Spec == Init /\ [][Next]_vars /\ Fairness

-----------------------------------------------------------------------------
(* Properties.                                                             *)

TypeOK ==
  /\ scene \in Scenes /\ \A what \in Bounds : used[what] \in 0..scene[what]
  /\ settings \in Settings /\ now \in 0..scene.saves /\ stamp \in [Fields -> 0..now]
  /\ issued \in 1..1 + scene.logins /\ expired \subseteq 1..issued
  /\ token \in 0..issued /\ place \in [Tabs -> Places]
  /\ \A t \in Tabs :
       /\ signin[t].at \in {"idle", "right", "wrong", "ok", "refused", "failed"}
       /\ poll[t].at \in {"idle", "asked", "refused", "failed"}
       /\ load[t].at \in {"idle", "asked", "ok", "refused", "failed"}
       /\ {signin[t].token, poll[t].token, load[t].token} \subseteq 0..issued
       /\ load[t].snap \in Settings /\ load[t].asOf \in 0..now
       /\ cache[t].data \in Settings /\ cache[t].asOf \in 0..now
       /\ cache[t].has \in BOOLEAN /\ cache[t].failed \in BOOLEAN
       /\ form[t].open =>
            /\ place[t] \in {"settings", "leaving"} /\ cache[t].has
            /\ form[t].local \in Settings /\ form[t].touched \subseteq Fields
            /\ form[t].raw \in Thresholds \cup Invalid /\ form[t].focus \in BOOLEAN
            /\ form[t].saving \in {0} \cup {n \in DOMAIN saves : saves[n].tab = t}
  /\ \A n \in DOMAIN saves :
       /\ n \in 1..used.saves /\ saves[n].tab \in Tabs \cup {"none"}
       /\ saves[n].to \in Settings /\ saves[n].touched \subseteq Fields
       /\ saves[n].asOf \in 0..now /\ saves[n].token \in 0..issued
       /\ saves[n].at \in {"asked", "ok", "refused", "failed"}
  /\ misjudged \in BOOLEAN /\ blind \in BOOLEAN

\* When the token is gone for good, or no longer valid, every tab ends up at
\* the form to sign in, whichever tab the operator logged out of: its poll
\* is refused, which removes the token and reloads the page.
SessionSettles ==
  <>[](token \in {0} \cup expired) => <>[](\A t \in Tabs : place[t] = "login")

\* A valid token is never removed by the answer to a request that carried it,
\* whatever fails: only by logging out, by the late answer to a request with
\* another token or none, or by a failed attempt to sign in, in any tab.
TokenNotMisjudged == ~misjudged

\* Saving sends every field.  It puts back a field the operator has not
\* touched only if that was changed after the settings that the tab holds
\* were read: the form follows the query (useEffect on cfg).
RevertsOnlyUnseen == ~blind

\* A number field that is not being edited shows the number that saving
\* sends, unless it shows a positive number out of the range, such as 150,
\* which onBlur leaves there.
ShownIsSent ==
  \A t \in Tabs : Shown(t) /\ ~form[t].focus =>
    form[t].raw \in {form[t].local.threshold, "odd"}
=============================================================================
