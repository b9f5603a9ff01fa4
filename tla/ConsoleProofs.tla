---------------------------- MODULE ConsoleProofs ----------------------------
(***************************************************************************)
(* Proofs about Console, for any tabs, settings and bounds: whom an answer *)
(* may sign out, what a save may put back, and what the form shows.        *)
(***************************************************************************)
EXTENDS Console, FiniteSetTheorems, TLAPS

CallStates == {"idle", "asked", "right", "wrong", "ok", "refused", "failed"}
Ends == {"ok", "refused", "failed"}

-----------------------------------------------------------------------------
(* The types of the variables, without their bounds.                       *)

Calls(states) == [at : states, token : Nat]
Loads == [at : {"idle", "asked"} \cup Ends, token : Nat, snap : Settings, asOf : Nat]
Caches == [has : BOOLEAN, failed : BOOLEAN, data : Settings, asOf : Nat]
Forms == [open : BOOLEAN, local : Settings, touched : SUBSET Fields,
          raw : Thresholds \cup Invalid, focus : BOOLEAN, saving : Nat]
SaveRecords == [tab : Tabs \cup {"none"}, to : Settings, touched : SUBSET Fields,
                asOf : Nat, token : Nat, at : {"asked"} \cup Ends]

BoundsType == scene \in Scenes /\ used \in [Bounds -> Nat]

ServerType ==
  /\ settings \in Settings /\ now \in Nat /\ stamp \in [Fields -> Nat]
  /\ issued \in Nat \ {0} /\ expired \subseteq 1..issued
  /\ misjudged \in BOOLEAN /\ blind \in BOOLEAN

SessionType ==
  /\ token \in Nat /\ place \in [Tabs -> Places]
  /\ signin \in [Tabs -> Calls({"idle", "right", "wrong"} \cup Ends)]
  /\ poll \in [Tabs -> Calls({"idle", "asked", "refused", "failed"})]

EditingType ==
  /\ load \in [Tabs -> Loads] /\ cache \in [Tabs -> Caches] /\ form \in [Tabs -> Forms]
  /\ saves = [n \in DOMAIN saves |-> saves[n]]
  /\ \A n \in DOMAIN saves : saves[n] \in SaveRecords

TypeInv == BoundsType /\ ServerType /\ SessionType /\ EditingType

LEMMA SceneFacts ==
  ASSUME scene \in Scenes
  PROVE  \A what \in Bounds : scene[what] \in Nat
BY ConsoleAssumption DEF Bounds

LEMMA ConstantFacts ==
  /\ FirstSettings \in Settings /\ NoForm \in Forms /\ NoCache \in Caches /\ NoLoad \in Loads
  /\ \A S : "idle" \in S => Idle \in Calls(S)
  /\ \A s \in Settings : NewForm(s) \in Forms
BY ConsoleAssumption DEF NoForm, NoCache, NoLoad, Idle, Forms, Caches, Loads, Calls, Settings, NewForm

\* What the one operator for the bounds does.
LEMMA UseFacts ==
  ASSUME BoundsType, NEW what \in Bounds, Use(what), scene' = scene
  PROVE  /\ BoundsType' /\ used'[what] = used[what] + 1 /\ used'[what] <= scene[what]
         /\ \A b \in Bounds : b # what => used'[b] = used[b]
BY SceneFacts DEF BoundsType, Use

\* removeToken and a reload.
LEMMA InterceptFacts ==
  ASSUME SessionType, ServerType, NEW t \in Tabs, NEW k, Intercept(t, k)
  PROVE  /\ token' = 0 /\ place' \in [Tabs -> Places] /\ misjudged' \in BOOLEAN
         /\ place'[t] = "leaving" /\ \A u \in Tabs : u # t => place'[u] = place[u]
BY DEF Intercept, SessionType, ServerType, Places

LEMMA TypeInit == Init => TypeInv
<1> SUFFICES ASSUME Init PROVE TypeInv
  OBVIOUS
<1>1. BoundsType
  BY DEF Init, BoundsType
<1>2. ServerType
  <2>1. /\ settings \in Settings /\ now \in Nat /\ stamp \in [Fields -> Nat]
        /\ issued = 1 /\ expired = {}
    BY ConstantFacts DEF Init
  <2>2. misjudged \in BOOLEAN /\ blind \in BOOLEAN
    BY DEF Init
  <2> QED
    BY <2>1, <2>2 DEF ServerType
<1>3. SessionType
  BY ConstantFacts DEF Init, SessionType, Places, Ends
<1>4. EditingType
  <2>1. LoadRequest \in Loads
    <3>1. token \in Nat
      BY DEF Init
    <3> QED
      BY <3>1, ConstantFacts DEF LoadRequest, Loads
  <2>2. saves = << >> /\ DOMAIN << >> = {} /\ << >> = [n \in DOMAIN << >> |-> << >>[n]]
    BY DEF Init
  <2>3. load \in [Tabs -> Loads] /\ cache \in [Tabs -> Caches] /\ form \in [Tabs -> Forms]
    BY <2>1, ConstantFacts DEF Init
  <2> QED
    BY <2>2, <2>3 DEF EditingType
<1> QED
  BY <1>1, <1>2, <1>3, <1>4 DEF TypeInv

LEMMA SessionTypeStep ==
  ASSUME TypeInv, NEW t \in Tabs, Session(t)
  PROVE  TypeInv'
<1> USE DEF TypeInv
<1>1. CASE Reload(t)
  <2>1. place' \in [Tabs -> Places] /\ UNCHANGED <<scene, used, server, token, history>>
    BY <1>1 DEF Reload, SessionType, Places
  <2>2. signin' \in [Tabs -> Calls({"idle", "right", "wrong"} \cup Ends)]
        /\ poll' \in [Tabs -> Calls({"idle", "asked", "refused", "failed"})]
    BY <1>1, ConstantFacts DEF Reload, SessionType
  <2>3. LoadRequest \in Loads
    BY ConstantFacts DEF LoadRequest, Loads, SessionType
  <2>4. load' \in [Tabs -> Loads] /\ cache' \in [Tabs -> Caches] /\ form' \in [Tabs -> Forms]
    BY <1>1, <2>3, ConstantFacts DEF Reload, EditingType
  <2>5. saves' = [n \in DOMAIN saves' |-> saves'[n]] /\ \A n \in DOMAIN saves' : saves'[n] \in SaveRecords
    BY <1>1 DEF Reload, EditingType, SaveRecords
  <2> QED
    BY <2>1, <2>2, <2>4, <2>5 DEF BoundsType, ServerType, SessionType, EditingType, server, history
<1>2. CASE Logout(t)
  BY <1>2, UseFacts DEF Logout, ServerType, SessionType, EditingType, Places, Bounds, server, history
<1>3. ASSUME NEW right \in BOOLEAN, SignIn(t, right)
      PROVE  TypeInv'
  BY <1>3, UseFacts DEF SignIn, ServerType, SessionType, EditingType, Calls, Bounds, server, history
<1>4. CASE SigninServed(t)
  <2>1. issued' \in Nat \ {0} /\ issued <= issued'
    BY <1>4 DEF SigninServed, ServerType
  <2>2. signin' \in [Tabs -> Calls({"idle", "right", "wrong"} \cup Ends)]
    BY <1>4, <2>1 DEF SigninServed, SessionType, ServerType, Calls, Ends
  <2>3. UNCHANGED <<scene, used, settings, now, stamp, expired, token, place, poll, load,
                    cache, form, saves, misjudged, blind>>
    BY <1>4 DEF SigninServed, history
  <2>4. 1..issued \subseteq 1..issued'
    BY <2>1 DEF ServerType
  <2> QED
    BY <2>1, <2>2, <2>3, <2>4 DEF BoundsType, ServerType, SessionType, EditingType
<1>5. CASE SigninLost(t)
  BY <1>5, UseFacts DEF SigninLost, ServerType, SessionType, EditingType, Calls, Bounds, Ends, server, history
<1>6. CASE SigninAnswered(t)
  <2>1. token' \in Nat /\ place' \in [Tabs -> Places] /\ misjudged' \in BOOLEAN
    BY <1>6, InterceptFacts DEF SigninAnswered, SessionType, ServerType, Calls, Places
  <2>2. signin' \in [Tabs -> Calls({"idle", "right", "wrong"} \cup Ends)]
    BY <1>6, ConstantFacts DEF SigninAnswered, SessionType
  <2>3. UNCHANGED <<scene, used, settings, now, stamp, issued, expired, poll, load, cache, form, saves, blind>>
    BY <1>6 DEF SigninAnswered, server
  <2> QED
    BY <2>1, <2>2, <2>3 DEF BoundsType, ServerType, SessionType, EditingType
<1>7. CASE Poll(t)
  BY <1>7 DEF Poll, BoundsType, ServerType, SessionType, EditingType, Calls, Request, server, history
<1>8. CASE PollServed(t)
  BY <1>8, ConstantFacts DEF PollServed, BoundsType, ServerType, SessionType, EditingType, Calls, server, history
<1>9. CASE PollLost(t)
  BY <1>9, UseFacts DEF PollLost, ServerType, SessionType, EditingType, Calls, Bounds, server, history
<1>10. CASE PollAnswered(t)
  <2>1. token' \in Nat /\ place' \in [Tabs -> Places] /\ misjudged' \in BOOLEAN
    <3>1. CASE Intercept(t, poll[t].token)
      BY <3>1, InterceptFacts
    <3>2. CASE UNCHANGED <<token, place, misjudged>>
      BY <3>2 DEF SessionType, ServerType
    <3> QED
      BY <1>10, <3>1, <3>2 DEF PollAnswered
  <2>2. poll' \in [Tabs -> Calls({"idle", "asked", "refused", "failed"})]
    BY <1>10, ConstantFacts DEF PollAnswered, SessionType
  <2>3. UNCHANGED <<scene, used, settings, now, stamp, issued, expired, signin, load, cache, form, saves, blind>>
    BY <1>10 DEF PollAnswered, server
  <2> QED
    BY <2>1, <2>2, <2>3 DEF BoundsType, ServerType, SessionType, EditingType
<1> QED
  BY <1>1, <1>2, <1>3, <1>4, <1>5, <1>6, <1>7, <1>8, <1>9, <1>10 DEF Session

LEMMA EditingTypeStep ==
  ASSUME TypeInv, NEW t \in Tabs, Editing(t)
  PROVE  TypeInv'
<1> USE DEF TypeInv
<1>1. ASSUME NEW p \in Inside, GoTo(t, p)
      PROVE  TypeInv'
  <2>1. place' \in [Tabs -> Places] /\ LoadRequest \in Loads
    BY <1>1, ConstantFacts DEF GoTo, SessionType, Places, Inside, LoadRequest, Loads
  <2>2. load' \in [Tabs -> Loads] /\ form' \in [Tabs -> Forms]
    BY <1>1, <2>1, ConstantFacts DEF GoTo, EditingType, Caches
  <2> QED
    BY <1>1, <2>1, <2>2 DEF GoTo, BoundsType, ServerType, SessionType, EditingType, server, history
<1>2. CASE LoadServed(t)
  <2>1. load' \in [Tabs -> Loads]
    BY <1>2 DEF LoadServed, EditingType, ServerType, Loads, Ends
  <2> QED
    BY <1>2, <2>1 DEF LoadServed, BoundsType, ServerType, SessionType, EditingType, server, history
<1>3. CASE LoadLost(t)
  <2>1. load' \in [Tabs -> Loads] /\ BoundsType'
    BY <1>3, UseFacts DEF LoadLost, EditingType, Loads, Ends, Bounds
  <2> QED
    BY <1>3, <2>1 DEF LoadLost, ServerType, SessionType, EditingType, server, history
<1>4. CASE LoadAnswered(t)
  <2>1. token' \in Nat /\ place' \in [Tabs -> Places] /\ misjudged' \in BOOLEAN
    <3>1. CASE Intercept(t, load[t].token)
      BY <3>1, InterceptFacts
    <3>2. CASE UNCHANGED <<token, place, misjudged>>
      BY <3>2 DEF SessionType, ServerType
    <3> QED
      BY <1>4, <3>1, <3>2 DEF LoadAnswered
  <2>2. load' \in [Tabs -> Loads]
    BY <1>4, ConstantFacts DEF LoadAnswered, EditingType
  <2>3. load[t].snap \in Settings /\ load[t].asOf \in Nat
    BY DEF EditingType, Loads
  <2>4. cache' \in [Tabs -> Caches]
    <3>1. [cache[t] EXCEPT !.failed = TRUE] \in Caches
      BY DEF EditingType, Caches
    <3>2. [has |-> TRUE, failed |-> FALSE, data |-> load[t].snap, asOf |-> load[t].asOf] \in Caches
      BY <2>3 DEF Caches
    <3>3. \E e \in Caches : cache' = [cache EXCEPT ![t] = e]
      BY <1>4, <3>1, <3>2 DEF LoadAnswered
    <3> QED
      BY <3>3 DEF EditingType
  <2>5. Synced(form[t], cache[t].data, load[t].snap) \in Forms /\ Redrawn(form[t]) \in Forms
    BY <2>3, ConstantFacts DEF Synced, Redrawn, EditingType, Forms, Settings
  <2>6. form' \in [Tabs -> Forms]
    BY <1>4, <2>5 DEF LoadAnswered, EditingType
  <2> QED
    BY <1>4, <2>1, <2>2, <2>4, <2>6 DEF LoadAnswered, BoundsType, ServerType, SessionType, EditingType, server
<1>5. ASSUME NEW r \in Recipients, EditRecipients(t, r)
      PROVE  TypeInv'
  <2>1. BoundsType'
    BY <1>5, UseFacts DEF EditRecipients, Bounds
  <2>2. form' \in [Tabs -> Forms]
    <3>1. [form[t] EXCEPT !.local = [@ EXCEPT !.recipients = r], !.touched = @ \cup {"recipients"}] \in Forms
      BY DEF EditingType, Forms, Settings, Fields
    <3> QED
      BY <1>5, <3>1 DEF EditRecipients, EditingType
  <2> QED
    BY <1>5, <2>1, <2>2 DEF EditRecipients, ServerType, SessionType, EditingType, server, history
<1>6. ASSUME NEW text \in Thresholds \cup Invalid, TypeThreshold(t, text)
      PROVE  TypeInv'
  <2>1. BoundsType'
    BY <1>6, UseFacts DEF TypeThreshold, Bounds
  <2>2. form' \in [Tabs -> Forms]
    <3> DEFINE l == [form[t].local EXCEPT !.threshold = IF text \in Thresholds THEN text ELSE @]
               e == [form[t] EXCEPT !.raw = text, !.focus = TRUE, !.local = l,
                       !.touched = @ \cup (IF text \in Thresholds THEN {"threshold"} ELSE {})]
    <3>1. l \in Settings
      BY DEF EditingType, Forms, Settings
    <3>2. form' = [form EXCEPT ![t] = e]
      <4>1. form[t] = [open |-> form[t].open, local |-> form[t].local, touched |-> form[t].touched,
                       raw |-> form[t].raw, focus |-> form[t].focus, saving |-> form[t].saving]
        BY DEF EditingType, Forms
      <4>2. CASE text \in Thresholds
        BY <1>6, <4>1, <4>2 DEF TypeThreshold, EditingType
      <4>3. CASE text \notin Thresholds
        BY <1>6, <4>1, <4>3 DEF TypeThreshold, EditingType
      <4> QED
        BY <4>2, <4>3
    <3> HIDE DEF l
    <3>3. e \in Forms
      BY <3>1 DEF EditingType, Forms, Fields
    <3> QED
      BY <3>2, <3>3 DEF EditingType
  <2> QED
    BY <1>6, <2>1, <2>2 DEF TypeThreshold, ServerType, SessionType, EditingType, server, history
<1>7. CASE Blur(t)
  <2>1. form' \in [Tabs -> Forms]
    <3> DEFINE e == [form[t] EXCEPT !.focus = FALSE,
                                    !.raw = IF @ = "empty" THEN form[t].local.threshold ELSE @]
    <3>1. e \in Forms
      BY DEF EditingType, Forms, Settings
    <3>2. form' = [form EXCEPT ![t] = e]
      BY <1>7 DEF Blur, EditingType, Forms
    <3> QED
      BY <3>1, <3>2 DEF EditingType
  <2> QED
    BY <1>7, <2>1 DEF Blur, BoundsType, ServerType, SessionType, EditingType, server, history
<1>8. CASE Save(t)
  <2>1. BoundsType' /\ used'.saves \in Nat
    BY <1>8, UseFacts DEF Save, Bounds, BoundsType
  <2>2. form' \in [Tabs -> Forms]
    BY <1>8, <2>1 DEF Save, EditingType, Forms
  <2>3. [tab |-> t, to |-> form[t].local, touched |-> form[t].touched,
         asOf |-> cache[t].asOf, token |-> token, at |-> "asked"] \in SaveRecords
    BY DEF EditingType, SessionType, Forms, Caches, SaveRecords
  <2>4. saves' = [n \in DOMAIN saves' |-> saves'[n]] /\ \A n \in DOMAIN saves' : saves'[n] \in SaveRecords
    BY <1>8, <2>3 DEF Save, EditingType
  <2> QED
    BY <1>8, <2>1, <2>2, <2>4 DEF Save, ServerType, SessionType, EditingType, server, history
<1> QED
  BY <1>1, <1>2, <1>3, <1>4, <1>5, <1>6, <1>7, <1>8 DEF Editing

\* What the end of a save does to the saves under way.
LEMMA DroppedFacts ==
  ASSUME EditingType, NEW n \in DOMAIN saves
  PROVE  /\ Dropped(n) = [m \in DOMAIN Dropped(n) |-> Dropped(n)[m]]
         /\ DOMAIN Dropped(n) = DOMAIN saves \ {n}
         /\ \A m \in DOMAIN Dropped(n) : Dropped(n)[m] = saves[m]
BY DEF Dropped, Restrict

LEMMA EndedFacts ==
  ASSUME EditingType, NEW n \in DOMAIN saves, NEW at \in Ends, saves' = Ended(n, at)
  PROVE  /\ saves' = [m \in DOMAIN saves' |-> saves'[m]]
         /\ DOMAIN saves' \subseteq DOMAIN saves
         /\ saves[n].tab = "none" => DOMAIN saves' = DOMAIN saves \ {n}
         /\ saves[n].tab # "none" => /\ DOMAIN saves' = DOMAIN saves
                                    /\ saves'[n] = [saves[n] EXCEPT !.at = at]
         /\ \A m \in DOMAIN saves' :
              /\ saves'[m] \in SaveRecords
              /\ m # n => saves'[m] = saves[m]
<1>1. saves[n] \in SaveRecords /\ [saves[n] EXCEPT !.at = at] \in SaveRecords
  BY DEF EditingType, SaveRecords
<1>2. CASE saves[n].tab = "none"
  BY <1>2, DroppedFacts DEF Ended, EditingType
<1>3. CASE saves[n].tab # "none"
  BY <1>1, <1>3 DEF Ended, EditingType
<1> QED
  BY <1>2, <1>3

LEMMA SavesTypeStep ==
  ASSUME TypeInv, NEW n \in DOMAIN saves,
         SaveLost(n) \/ SaveAnswered(n) \/ \E heard \in BOOLEAN : SaveServed(n, heard)
  PROVE  TypeInv'
<1> USE DEF TypeInv
<1>1. CASE SaveLost(n)
  <2>1. BoundsType'
    BY <1>1, UseFacts DEF SaveLost, Bounds
  <2>2. saves' = [m \in DOMAIN saves' |-> saves'[m]] /\ \A m \in DOMAIN saves' : saves'[m] \in SaveRecords
    <3>1. saves' = Ended(n, "failed") /\ "failed" \in Ends
      BY <1>1 DEF SaveLost, Ends
    <3> QED
      BY <3>1, EndedFacts
  <2> QED
    BY <1>1, <2>1, <2>2 DEF SaveLost, ServerType, SessionType, EditingType, server, history
<1>2. CASE SaveAnswered(n)
  <2> DEFINE t == saves[n].tab
  <2>1. token' \in Nat /\ place' \in [Tabs -> Places] /\ misjudged' \in BOOLEAN
    <3>1. \/ UNCHANGED <<token, place, misjudged>>
          \/ token' = 0 /\ place' = [place EXCEPT ![t] = "leaving"] /\ misjudged' \in BOOLEAN
      BY <1>2 DEF SaveAnswered, Intercept, ServerType
    <3> QED
      BY <3>1 DEF SessionType, ServerType, Places
  <2>2. load' \in [Tabs -> Loads]
    BY <1>2, ConstantFacts DEF SaveAnswered, EditingType, LoadRequest, Loads, SessionType
  <2>3. form' \in [Tabs -> Forms]
    <3> DEFINE e == IF form[t].open /\ form[t].saving = n
                    THEN [form[t] EXCEPT !.saving = 0] ELSE form[t]
    <3>1. t \in Tabs => e \in Forms
      BY DEF EditingType, Forms
    <3>2. form' = [form EXCEPT ![t] = e]
      BY <1>2 DEF SaveAnswered, EditingType, Forms
    <3> HIDE DEF t, e
    <3> QED
      BY <3>1, <3>2 DEF EditingType
  <2>4. saves' = [m \in DOMAIN saves' |-> saves'[m]] /\ \A m \in DOMAIN saves' : saves'[m] \in SaveRecords
    BY <1>2, DroppedFacts DEF SaveAnswered, EditingType
  <2>5. UNCHANGED <<scene, used, settings, now, stamp, issued, expired, signin, poll, cache, blind>>
    BY <1>2 DEF SaveAnswered, server
  <2> QED
    BY <2>1, <2>2, <2>3, <2>4, <2>5 DEF BoundsType, ServerType, SessionType, EditingType
<1>3. ASSUME NEW heard \in BOOLEAN, SaveServed(n, heard)
      PROVE  TypeInv'
  <2>1. BoundsType'
    BY <1>3, UseFacts DEF SaveServed, Bounds, BoundsType
  <2>2. PICK at \in Ends : saves' = Ended(n, at)
    BY <1>3 DEF SaveServed, Ends
  <2>3. saves' = [m \in DOMAIN saves' |-> saves'[m]] /\ \A m \in DOMAIN saves' : saves'[m] \in SaveRecords
    BY <2>2, EndedFacts
  <2>4. settings' \in Settings /\ now' \in Nat /\ stamp' \in [Fields -> Nat] /\ blind' \in BOOLEAN
    <3>1. saves[n].to \in Settings
      BY DEF EditingType, SaveRecords
    <3>2. CASE ~Valid(saves[n].token)
      BY <1>3, <3>2 DEF SaveServed, ServerType
    <3>3. CASE Valid(saves[n].token)
      <4>1. settings' = saves[n].to /\ now' = (IF saves[n].to = settings THEN now ELSE now + 1)
        BY <1>3, <3>3 DEF SaveServed
      <4>2. stamp' = [f \in Fields |-> IF saves[n].to[f] = settings[f] THEN stamp[f] ELSE now']
        BY <1>3, <3>3 DEF SaveServed
      <4>3. blind' \in BOOLEAN
        BY <1>3, <3>3 DEF SaveServed, ServerType
      <4> QED
        BY <3>1, <4>1, <4>2, <4>3 DEF ServerType
    <3> QED
      BY <3>2, <3>3
  <2>5. UNCHANGED <<scene, issued, expired, token, place, signin, poll, load, cache, form, misjudged>>
    BY <1>3 DEF SaveServed
  <2> QED
    BY <2>1, <2>3, <2>4, <2>5 DEF ServerType, SessionType, EditingType
<1> QED
  BY <1>1, <1>2, <1>3

LEMMA TypeStep == TypeInv /\ [Next]_vars => TypeInv'
<1> SUFFICES ASSUME TypeInv, [Next]_vars PROVE TypeInv'
  OBVIOUS
<1>1. CASE Expire
  <2>1. BoundsType' /\ expired' \subseteq 1..issued
    BY <1>1, UseFacts DEF Expire, TypeInv, Bounds, ServerType
  <2> QED
    BY <1>1, <2>1 DEF Expire, TypeInv, ServerType, SessionType, EditingType, history
<1>2. CASE UNCHANGED vars
  BY <1>2 DEF vars, server, history, TypeInv, BoundsType, ServerType, SessionType, EditingType
<1> QED
  BY <1>1, <1>2, SessionTypeStep, EditingTypeStep, SavesTypeStep DEF Next

-----------------------------------------------------------------------------
(* Saves and the tabs they came from.                                      *)

SavesInv ==
  /\ DOMAIN saves \subseteq 1..used.saves
  /\ \A n \in DOMAIN saves : saves[n].tab = "none" => saves[n].at = "asked"
  /\ \A t \in Tabs : form[t].open /\ form[t].saving # 0 =>
       form[t].saving \in DOMAIN saves /\ saves[form[t].saving].tab = t

LEMMA SavesInit == Init => SavesInv
BY DEF Init, SavesInv, NoForm

LEMMA NewFormFacts ==
  ASSUME NEW d
  PROVE  /\ NewForm(d).open /\ NewForm(d).local = d /\ NewForm(d).touched = {}
         /\ NewForm(d).raw = d.threshold /\ ~NewForm(d).focus /\ NewForm(d).saving = 0
         /\ ~NoForm.open
BY DEF NewForm, NoForm

\* A form that follows the query, or is drawn anew, keeps its save.
LEMMA FollowingFacts ==
  ASSUME NEW f \in Forms, NEW old, NEW data
  PROVE  /\ Synced(f, old, data).open
         /\ f.open => Synced(f, old, data).saving = f.saving
         /\ ~f.open => Synced(f, old, data).saving = 0
         /\ Redrawn(f).open = f.open /\ Redrawn(f).saving = f.saving
         /\ Redrawn(f).local = f.local /\ Redrawn(f).touched = f.touched
BY NewFormFacts DEF Synced, Redrawn, Forms

LEMMA SavesStep == TypeInv /\ SavesInv /\ [Next]_vars => SavesInv'
<1> SUFFICES ASSUME TypeInv, SavesInv, [Next]_vars PROVE SavesInv'
  OBVIOUS
<1> USE DEF TypeInv
<1>1. ASSUME NEW t \in Tabs, Reload(t)
      PROVE  SavesInv'
  <2>1. ~form'[t].open /\ \A u \in Tabs : u # t => form'[u] = form[u]
    BY <1>1, NewFormFacts DEF Reload, EditingType
  <2>2. DOMAIN saves' \subseteq DOMAIN saves /\ used' = used
    BY <1>1 DEF Reload
  <2>3. \A n \in DOMAIN saves : saves[n].tab # t => n \in DOMAIN saves' /\ saves'[n] = saves[n]
    BY <1>1 DEF Reload
  <2>4. \A n \in DOMAIN saves' : saves[n].tab = t => saves'[n].at = "asked"
    BY <1>1 DEF Reload, EditingType, SaveRecords
  <2> QED
    BY <2>1, <2>2, <2>3, <2>4 DEF SavesInv
<1>2. ASSUME UNCHANGED saves, used'.saves = used.saves,
             \A t \in Tabs : form'[t].open =>
               (form[t].open /\ form'[t].saving = form[t].saving) \/ form'[t].saving = 0
      PROVE  SavesInv'
  BY <1>2 DEF SavesInv
<1>3. ASSUME UNCHANGED <<saves, form>>, used'.saves = used.saves
      PROVE  SavesInv'
  BY <1>3, <1>2
<1>4. ASSUME NEW what \in Bounds \ {"saves"}, Use(what)
      PROVE  used'.saves = used.saves
  BY <1>4 DEF Use, Bounds, BoundsType
<1>5. ASSUME NEW t \in Tabs, Session(t), ~Reload(t)
      PROVE  SavesInv'
  BY <1>3, <1>4, <1>5 DEF Session, Logout, SignIn, SigninServed, SigninLost, SigninAnswered,
     Poll, PollServed, PollLost, PollAnswered, Bounds
<1>6. ASSUME NEW t \in Tabs, Editing(t), ~Save(t)
      PROVE  SavesInv'
  <2>1. ASSUME NEW p \in Inside, GoTo(t, p)
        PROVE  SavesInv'
    BY <2>1, <1>2, NewFormFacts DEF GoTo, EditingType
  <2>2. CASE LoadServed(t) \/ LoadLost(t)
    BY <2>2, <1>3, <1>4 DEF LoadServed, LoadLost, Bounds
  <2>3. CASE LoadAnswered(t)
    <3>1. form' \in {form, [form EXCEPT ![t] = Synced(form[t], cache[t].data, load[t].snap)],
                     [form EXCEPT ![t] = Redrawn(form[t])]}
      BY <2>3 DEF LoadAnswered, EditingType
    <3>2. \A u \in Tabs : form'[u].open =>
            (form[u].open /\ form'[u].saving = form[u].saving) \/ form'[u].saving = 0
      BY <3>1, FollowingFacts DEF EditingType
    <3> QED
      BY <2>3, <3>2, <1>2 DEF LoadAnswered
  <2>4. ASSUME NEW x \in Recipients, EditRecipients(t, x)
        PROVE  SavesInv'
    BY <2>4, <1>2, <1>4 DEF EditRecipients, EditingType, Forms, Bounds
  <2>5. ASSUME NEW text \in Thresholds \cup Invalid, TypeThreshold(t, text)
        PROVE  SavesInv'
    BY <2>5, <1>2, <1>4 DEF TypeThreshold, EditingType, Forms, Bounds
  <2>6. CASE Blur(t)
    BY <2>6, <1>2 DEF Blur, EditingType, Forms
  <2> QED
    BY <1>6, <2>1, <2>2, <2>3, <2>4, <2>5, <2>6 DEF Editing
<1>7. ASSUME NEW t \in Tabs, Save(t)
      PROVE  SavesInv'
  <2>1. used.saves \in Nat /\ used'.saves = used.saves + 1
    BY <1>7, UseFacts DEF Save, Bounds, BoundsType
  <2>2. DOMAIN saves' = DOMAIN saves \cup {used'.saves} /\ used'.saves \notin DOMAIN saves
    BY <1>7, <2>1 DEF Save, SavesInv
  <2>3. (\A n \in DOMAIN saves : saves'[n] = saves[n]) /\ saves'[used'.saves].tab = t
        /\ saves'[used'.saves].at = "asked"
    BY <1>7, <2>2 DEF Save
  <2>4. form'[t].saving = used'.saves /\ \A u \in Tabs : u # t => form'[u] = form[u]
    BY <1>7 DEF Save, EditingType, Forms
  <2>5. 1..used.saves \subseteq 1..used'.saves /\ used'.saves \in 1..used'.saves
    BY <2>1
  <2> QED
    BY <2>2, <2>3, <2>4, <2>5 DEF SavesInv
<1>8. ASSUME NEW n \in DOMAIN saves, NEW at \in Ends, saves' = Ended(n, at),
             form' = form, used'.saves = used.saves
      PROVE  SavesInv'
  <2>1. CASE saves[n].tab = "none"
    <3>1. DOMAIN saves' = DOMAIN saves \ {n} /\ \A m \in DOMAIN saves' : saves'[m] = saves[m]
      BY <1>8, <2>1, EndedFacts
    <3> QED
      BY <1>8, <2>1, <3>1, ConsoleAssumption DEF SavesInv
  <2>2. CASE saves[n].tab # "none"
    <3>1. /\ DOMAIN saves' = DOMAIN saves /\ \A m \in DOMAIN saves' : m # n => saves'[m] = saves[m]
          /\ saves'[n] = [saves[n] EXCEPT !.at = at]
      BY <1>8, <2>2, EndedFacts
    <3>2. saves'[n].tab = saves[n].tab
      BY <3>1 DEF EditingType, SaveRecords
    <3> QED
      <4>1. \A m \in DOMAIN saves : saves'[m].tab = saves[m].tab
        BY <3>1, <3>2
      <4>2. \A m \in DOMAIN saves' : saves'[m].tab = "none" => saves'[m].at = "asked"
        BY <2>2, <3>1, <4>1 DEF SavesInv
      <4>3. \A t \in Tabs : form'[t].open /\ form'[t].saving # 0 =>
              form'[t].saving \in DOMAIN saves' /\ saves'[form'[t].saving].tab = t
        BY <1>8, <3>1, <4>1 DEF SavesInv
      <4>4. DOMAIN saves' \subseteq 1..used'.saves
        BY <1>8, <3>1 DEF SavesInv
      <4> QED
        BY <4>2, <4>3, <4>4 DEF SavesInv
  <2> QED
    BY <2>1, <2>2
<1>9. ASSUME NEW n \in DOMAIN saves, SaveLost(n)
      PROVE  SavesInv'
  BY <1>9, <1>8, <1>4 DEF SaveLost, Ends, Bounds
<1>10. ASSUME NEW n \in DOMAIN saves, NEW heard \in BOOLEAN, SaveServed(n, heard)
      PROVE  SavesInv'
  <2>1. PICK at \in Ends : saves' = Ended(n, at)
    BY <1>10 DEF SaveServed, Ends
  <2> QED
    BY <1>10, <2>1, <1>8, <1>4 DEF SaveServed, Bounds
<1>11. ASSUME NEW n \in DOMAIN saves, SaveAnswered(n)
      PROVE  SavesInv'
  <2> DEFINE t == saves[n].tab
  <2>1. DOMAIN saves' = DOMAIN saves \ {n} /\ \A m \in DOMAIN saves' : saves'[m] = saves[m]
    BY <1>11, DroppedFacts DEF SaveAnswered
  <2>2. t \in Tabs
    BY <1>11 DEF SaveAnswered, SavesInv, EditingType, SaveRecords
  <2>3. /\ form'[t].open = form[t].open
        /\ form'[t].saving = (IF form[t].open /\ form[t].saving = n THEN 0 ELSE form[t].saving)
        /\ \A u \in Tabs : u # t => form'[u] = form[u]
    BY <1>11, <2>2 DEF SaveAnswered, EditingType, Forms
  <2>4. used' = used
    BY <1>11 DEF SaveAnswered
  <2> QED
    BY <2>1, <2>2, <2>3, <2>4 DEF SavesInv
<1>12. CASE Expire
  BY <1>12, <1>3, <1>4 DEF Expire, Bounds
<1>13. CASE UNCHANGED vars
  BY <1>13, <1>3 DEF vars
<1> QED
  BY <1>1, <1>5, <1>6, <1>7, <1>9, <1>10, <1>11, <1>12, <1>13 DEF Next

-----------------------------------------------------------------------------
(* What a step does to the calls, loads and saves.                         *)

LEMMA PollMoves ==
  ASSUME TypeInv, Next, NEW u \in Tabs
  PROVE  \/ poll'[u] \in {poll[u], Idle, Request}
         \/ /\ poll'[u].token = poll[u].token
            /\ poll'[u].at = "refused" => ~Valid(poll[u].token)
<1>1. poll \in [Tabs -> Calls({"idle", "asked", "refused", "failed"})]
  BY DEF TypeInv, SessionType
<1>2. ASSUME NEW t \in Tabs, Reload(t) \/ PollAnswered(t)
      PROVE  poll'[u] \in {poll[u], Idle}
  BY <1>1, <1>2 DEF Reload, PollAnswered
<1>3. ASSUME NEW t \in Tabs, Poll(t)
      PROVE  poll'[u] \in {poll[u], Request}
  BY <1>1, <1>3 DEF Poll
<1>4. ASSUME NEW t \in Tabs, PollServed(t)
      PROVE  \/ poll'[u] \in {poll[u], Idle}
             \/ poll'[u].token = poll[u].token /\ ~Valid(poll[u].token)
  BY <1>1, <1>4 DEF PollServed, Calls
<1>5. ASSUME NEW t \in Tabs, PollLost(t)
      PROVE  \/ poll'[u] = poll[u]
             \/ poll'[u].token = poll[u].token /\ poll'[u].at = "failed"
  BY <1>1, <1>5 DEF PollLost, Calls
<1>6. ASSUME NEW t \in Tabs, Session(t)
      PROVE  \/ UNCHANGED poll
             \/ Reload(t) \/ Poll(t) \/ PollServed(t) \/ PollLost(t) \/ PollAnswered(t)
  BY <1>6 DEF Session, Logout, SignIn, SigninServed, SigninLost, SigninAnswered
<1>7. ASSUME NEW t \in Tabs, Editing(t)
      PROVE  UNCHANGED poll
  BY <1>7 DEF Editing, GoTo, LoadServed, LoadLost, LoadAnswered, EditRecipients, TypeThreshold, Blur, Save
<1>8. ASSUME NEW n \in DOMAIN saves,
             SaveLost(n) \/ SaveAnswered(n) \/ \E heard \in BOOLEAN : SaveServed(n, heard)
      PROVE  UNCHANGED poll
  BY <1>8 DEF SaveLost, SaveServed, SaveAnswered
<1>9. CASE Expire
  BY <1>9 DEF Expire
<1> QED
  BY <1>2, <1>3, <1>4, <1>5, <1>6, <1>7, <1>8, <1>9 DEF Next

\* A load is begun anew or answered, with the settings of the moment.
LEMMA LoadMoves ==
  ASSUME TypeInv, SavesInv, Next, NEW u \in Tabs
  PROVE  \/ load'[u] \in {load[u], NoLoad, LoadRequest}
         \/ /\ load'[u].token = load[u].token
            /\ load'[u].at = "refused" => ~Valid(load[u].token)
            /\ \/ load'[u].snap = load[u].snap /\ load'[u].asOf = load[u].asOf
               \/ load'[u].snap = settings /\ load'[u].asOf = now
<1>1. load \in [Tabs -> Loads]
  BY DEF TypeInv, EditingType
<1>2. ASSUME NEW t \in Tabs, Reload(t) \/ LoadAnswered(t) \/ \E p \in Inside : GoTo(t, p)
      PROVE  load'[u] \in {load[u], NoLoad, LoadRequest}
  BY <1>1, <1>2 DEF Reload, LoadAnswered, GoTo
<1>3. ASSUME NEW n \in DOMAIN saves, SaveAnswered(n)
      PROVE  load'[u] \in {load[u], LoadRequest}
  BY <1>1, <1>3 DEF SaveAnswered
<1>4. ASSUME NEW t \in Tabs, LoadServed(t)
      PROVE  \/ load'[u] = load[u]
             \/ /\ load'[u].token = load[u].token
                /\ load'[u].at = "refused" => ~Valid(load[u].token)
                /\ \/ load'[u].snap = load[u].snap /\ load'[u].asOf = load[u].asOf
                   \/ load'[u].snap = settings /\ load'[u].asOf = now
  BY <1>1, <1>4 DEF LoadServed, Loads
<1>5. ASSUME NEW t \in Tabs, LoadLost(t)
      PROVE  \/ load'[u] = load[u]
             \/ /\ load'[u].token = load[u].token /\ load'[u].at = "failed"
                /\ load'[u].snap = load[u].snap /\ load'[u].asOf = load[u].asOf
  BY <1>1, <1>5 DEF LoadLost, Loads
<1>6. ASSUME NEW t \in Tabs, Session(t)
      PROVE  UNCHANGED load \/ Reload(t)
  BY <1>6 DEF Session, Logout, SignIn, SigninServed, SigninLost, SigninAnswered, Poll, PollServed,
     PollLost, PollAnswered
<1>7. ASSUME NEW t \in Tabs, Editing(t)
      PROVE  \/ UNCHANGED load \/ LoadServed(t) \/ LoadLost(t) \/ LoadAnswered(t)
             \/ \E p \in Inside : GoTo(t, p)
  BY <1>7 DEF Editing, EditRecipients, TypeThreshold, Blur, Save
<1>8. ASSUME NEW n \in DOMAIN saves, SaveLost(n) \/ \E heard \in BOOLEAN : SaveServed(n, heard)
      PROVE  UNCHANGED load
  BY <1>8 DEF SaveLost, SaveServed
<1>9. CASE Expire
  BY <1>9 DEF Expire
<1> QED
  BY <1>2, <1>3, <1>4, <1>5, <1>6, <1>7, <1>8, <1>9 DEF Next

\* A save keeps what it sends to its end.
LEMMA SaveMoves ==
  ASSUME TypeInv, Next, NEW n \in DOMAIN saves'
  PROVE  \/ /\ n \in DOMAIN saves /\ saves'[n].token = saves[n].token
            /\ saves'[n].to = saves[n].to /\ saves'[n].touched = saves[n].touched
            /\ saves'[n].asOf = saves[n].asOf
            /\ saves'[n].at = "refused" => saves[n].at = "refused" \/ ~Valid(saves[n].token)
         \/ \E t \in Tabs :
              /\ Save(t) /\ n = used'.saves
              /\ saves'[n] = [tab |-> t, to |-> form[t].local, touched |-> form[t].touched,
                              asOf |-> cache[t].asOf, token |-> token, at |-> "asked"]
<1> DEFINE Kept(bad) ==
             /\ n \in DOMAIN saves /\ saves'[n].token = saves[n].token
             /\ saves'[n].to = saves[n].to /\ saves'[n].touched = saves[n].touched
             /\ saves'[n].asOf = saves[n].asOf
             /\ saves'[n].at = "refused" => saves[n].at = "refused" \/ bad
<1>1. EditingType
  BY DEF TypeInv
<1>2. ASSUME NEW t \in Tabs, Reload(t)
      PROVE  Kept(FALSE)
  BY <1>1, <1>2 DEF Reload, EditingType, SaveRecords
<1>3. ASSUME NEW t \in Tabs, Save(t)
      PROVE  \/ Kept(FALSE)
             \/ /\ n = used'.saves
                /\ saves'[n] = [tab |-> t, to |-> form[t].local, touched |-> form[t].touched,
                                asOf |-> cache[t].asOf, token |-> token, at |-> "asked"]
  BY <1>3 DEF Save
<1>4. ASSUME NEW m \in DOMAIN saves, NEW at \in Ends, saves' = Ended(m, at),
             at = "refused" => ~Valid(saves[m].token)
      PROVE  Kept(~Valid(saves[n].token))
  <2>1. n \in DOMAIN saves /\ (n # m => saves'[n] = saves[n])
    BY <1>1, <1>4, EndedFacts
  <2>2. n = m => saves'[n] = [saves[n] EXCEPT !.at = at]
    BY <1>1, <1>4, EndedFacts
  <2>3. saves[n] \in SaveRecords
    BY <1>1, <2>1 DEF EditingType
  <2> QED
    BY <1>4, <2>1, <2>2, <2>3 DEF SaveRecords
<1>5. ASSUME NEW m \in DOMAIN saves, SaveLost(m)
      PROVE  Kept(~Valid(saves[n].token))
  BY <1>4, <1>5 DEF SaveLost, Ends
<1>6. ASSUME NEW m \in DOMAIN saves, NEW heard \in BOOLEAN, SaveServed(m, heard)
      PROVE  Kept(~Valid(saves[n].token))
  <2>1. PICK at \in Ends : saves' = Ended(m, at) /\ (at = "refused" => ~Valid(saves[m].token))
    BY <1>6 DEF SaveServed, Ends
  <2> QED
    BY <1>4, <2>1
<1>7. ASSUME NEW m \in DOMAIN saves, SaveAnswered(m)
      PROVE  Kept(FALSE)
  BY <1>1, <1>7, DroppedFacts DEF SaveAnswered
<1>8. ASSUME NEW t \in Tabs, Session(t)
      PROVE  UNCHANGED saves \/ Reload(t)
  BY <1>8 DEF Session, Logout, SignIn, SigninServed, SigninLost, SigninAnswered, Poll, PollServed,
     PollLost, PollAnswered
<1>9. ASSUME NEW t \in Tabs, Editing(t)
      PROVE  UNCHANGED saves \/ Save(t)
  BY <1>9 DEF Editing, GoTo, LoadServed, LoadLost, LoadAnswered, EditRecipients, TypeThreshold, Blur
<1>10. CASE Expire
  BY <1>10 DEF Expire
<1>11. UNCHANGED saves => Kept(FALSE)
  OBVIOUS
<1> QED
  BY <1>2, <1>3, <1>5, <1>6, <1>7, <1>8, <1>9, <1>10, <1>11 DEF Next

-----------------------------------------------------------------------------
(* Tokens: what has been refused never becomes valid.                      *)

\* A call carries no token that was not issued, and one that is refused
\* carries one that is not valid, from then on.
Spent(r, i, e) == r.token <= i /\ (r.at = "refused" => r.token \notin (1..i) \ e)

TokensInv ==
  /\ token <= issued
  /\ \A t \in Tabs : signin[t].token <= issued
  /\ \A t \in Tabs : Spent(poll[t], issued, expired) /\ Spent(load[t], issued, expired)
  /\ \A n \in DOMAIN saves : Spent(saves[n], issued, expired)
  /\ ~misjudged

LEMMA TokensInit == Init => TokensInv
<1> SUFFICES ASSUME Init PROVE TokensInv
  OBVIOUS
<1>1. Idle.token = 0 /\ Idle.at = "idle" /\ NoLoad.token = 0 /\ NoLoad.at = "idle"
      /\ LoadRequest.token = token /\ LoadRequest.at = "asked"
  BY DEF Idle, NoLoad, LoadRequest
<1> QED
  BY <1>1 DEF Init, TokensInv, Spent

\* Tokens are issued and expire; neither makes one valid that was not.
LEMMA IssuedMoves ==
  ASSUME TypeInv, Next
  PROVE  /\ issued <= issued' /\ issued \in Nat /\ issued' \in Nat
         /\ \A k \in Nat : k <= issued /\ k \notin (1..issued) \ expired
                           => k \notin (1..issued') \ expired'
<1>1. issued \in Nat /\ expired \subseteq 1..issued
  BY DEF TypeInv, ServerType
<1>2. ASSUME NEW t \in Tabs, Session(t)
      PROVE  UNCHANGED <<issued, expired>> \/ (issued' = issued + 1 /\ UNCHANGED expired)
  BY <1>2 DEF Session, Reload, Logout, SignIn, SigninServed, SigninLost, SigninAnswered, Poll,
     PollServed, PollLost, PollAnswered, server
<1>3. ASSUME NEW t \in Tabs, Editing(t)
      PROVE  UNCHANGED <<issued, expired>>
  BY <1>3 DEF Editing, GoTo, LoadServed, LoadLost, LoadAnswered, EditRecipients, TypeThreshold,
     Blur, Save, server
<1>4. ASSUME NEW n \in DOMAIN saves,
             SaveLost(n) \/ SaveAnswered(n) \/ \E heard \in BOOLEAN : SaveServed(n, heard)
      PROVE  UNCHANGED <<issued, expired>>
  BY <1>4 DEF SaveLost, SaveServed, SaveAnswered, server
<1>5. ASSUME Expire
      PROVE  UNCHANGED issued /\ expired \subseteq expired'
  BY <1>5 DEF Expire
<1>6. /\ issued' \in {issued, issued + 1} /\ expired \subseteq expired'
      /\ issued' = issued \/ expired' = expired
  BY <1>2, <1>3, <1>4, <1>5 DEF Next
<1> QED
  BY <1>1, <1>6

\* Where the browser's token comes from, and which answers remove it.
LEMMA TokenMoves ==
  ASSUME TypeInv, SavesInv, Next
  PROVE  /\ token' \in {token, 0} \cup {signin[t].token : t \in Tabs}
         /\ \A t \in Tabs : signin'[t].token \in {signin[t].token, 0, issued'}
         /\ misjudged' => \/ misjudged
                          \/ \E t \in Tabs : \/ poll[t].at = "refused" /\ Valid(poll[t].token)
                                             \/ load[t].at = "refused" /\ Valid(load[t].token)
                          \/ \E n \in DOMAIN saves : saves[n].at = "refused" /\ Valid(saves[n].token)
<1>1. signin \in [Tabs -> Calls({"idle", "right", "wrong"} \cup Ends)]
  BY DEF TypeInv, SessionType
<1>2. ASSUME NEW t, NEW k, Intercept(t, k)
      PROVE  token' = 0 /\ (misjudged' => misjudged \/ Valid(k))
  BY <1>2 DEF Intercept
<1>3. ~Valid(0)
  BY DEF Valid, TypeInv, ServerType
<1>4. ASSUME NEW t \in Tabs, Session(t), UNCHANGED signin
      PROVE  token' \in {token, 0} /\ (misjudged' => misjudged \/ (poll[t].at = "refused" /\ Valid(poll[t].token)))
  <2>1. CASE PollAnswered(t)
    BY <2>1, <1>2 DEF PollAnswered, Unauthorized
  <2>2. CASE Reload(t) \/ Logout(t) \/ Poll(t) \/ PollServed(t) \/ PollLost(t)
    BY <2>2 DEF Reload, Logout, Poll, PollServed, PollLost, history
  <2>3. CASE SigninServed(t) \/ SigninLost(t)
    BY <2>3 DEF SigninServed, SigninLost, history
  <2>4. ASSUME NEW right \in BOOLEAN, SignIn(t, right) PROVE token' = token /\ misjudged' = misjudged
    BY <2>4 DEF SignIn, history
  <2>5. CASE SigninAnswered(t)
    <3>1. signin'[t] = Idle /\ signin[t].at # "idle"
      BY <2>5, <1>1 DEF SigninAnswered
    <3> QED
      BY <1>4, <3>1 DEF Idle
  <2> QED
    BY <1>4, <2>1, <2>2, <2>3, <2>4, <2>5 DEF Session
<1>5. ASSUME NEW t \in Tabs, Session(t)
      PROVE  /\ token' \in {token, 0} \cup {signin[u].token : u \in Tabs}
             /\ \A u \in Tabs : signin'[u].token \in {signin[u].token, 0, issued'}
             /\ misjudged' => misjudged \/ (poll[t].at = "refused" /\ Valid(poll[t].token))
  <2>1. CASE SigninAnswered(t)
    <3>1. token' \in {token, 0} \cup {signin[u].token : u \in Tabs} /\ (misjudged' => misjudged)
      BY <2>1, <1>2, <1>3 DEF SigninAnswered
    <3>2. \A u \in Tabs : signin'[u].token \in {signin[u].token, 0, issued'}
      BY <2>1, <1>1 DEF SigninAnswered, Idle
    <3> QED
      BY <3>1, <3>2
  <2>2. CASE SigninServed(t) \/ SigninLost(t) \/ Reload(t)
    <3>1. token' = token /\ misjudged' = misjudged
      BY <2>2 DEF SigninServed, SigninLost, Reload, history
    <3>2. \A u \in Tabs : signin'[u].token \in {signin[u].token, 0, issued'}
      BY <2>2, <1>1 DEF SigninServed, SigninLost, Reload, Calls, Idle
    <3> QED
      BY <3>1, <3>2
  <2>3. ASSUME NEW right \in BOOLEAN, SignIn(t, right)
        PROVE  /\ token' = token /\ misjudged' = misjudged
               /\ \A u \in Tabs : signin'[u].token \in {signin[u].token, 0, issued'}
    BY <2>3, <1>1 DEF SignIn, history
  <2>4. CASE UNCHANGED signin
    BY <1>4, <1>5, <2>4
  <2> QED
    BY <1>5, <2>1, <2>2, <2>3, <2>4
    DEF Session, Logout, Poll, PollServed, PollLost, PollAnswered
<1>6. ASSUME NEW t \in Tabs, Editing(t)
      PROVE  /\ UNCHANGED signin /\ token' \in {token, 0}
             /\ misjudged' => misjudged \/ (load[t].at = "refused" /\ Valid(load[t].token))
  <2>1. CASE LoadAnswered(t)
    BY <2>1, <1>2 DEF LoadAnswered, Unauthorized
  <2>2. CASE UNCHANGED <<signin, token, misjudged>>
    BY <2>2
  <2>3. Editing(t) => LoadAnswered(t) \/ UNCHANGED <<signin, token, misjudged>>
    BY DEF Editing, GoTo, LoadServed, LoadLost, EditRecipients, TypeThreshold, Blur, Save, history
  <2> QED
    BY <1>6, <2>1, <2>2, <2>3
<1>7. ASSUME NEW n \in DOMAIN saves,
             SaveLost(n) \/ SaveAnswered(n) \/ \E heard \in BOOLEAN : SaveServed(n, heard)
      PROVE  /\ UNCHANGED signin /\ token' \in {token, 0}
             /\ misjudged' => misjudged \/ (saves[n].at = "refused" /\ Valid(saves[n].token))
  <2>1. CASE SaveAnswered(n)
    BY <2>1, <1>2 DEF SaveAnswered, Unauthorized
  <2> QED
    BY <1>7, <2>1 DEF SaveLost, SaveServed, history
<1>8. ASSUME Expire
      PROVE  UNCHANGED <<token, signin, misjudged>>
  BY <1>8 DEF Expire, history
<1> QED
  BY <1>5, <1>6, <1>7, <1>8 DEF Next

LEMMA TokensStep == TypeInv /\ SavesInv /\ TokensInv /\ [Next]_vars => TokensInv'
<1> SUFFICES ASSUME TypeInv, SavesInv, TokensInv, Next PROVE TokensInv'
  BY DEF TokensInv, vars, server, history
<1>1. /\ issued <= issued' /\ issued \in Nat /\ issued' \in Nat
      /\ \A k \in Nat : k <= issued /\ k \notin (1..issued) \ expired
                        => k \notin (1..issued') \ expired'
  BY IssuedMoves
<1>2. /\ token \in Nat
      /\ \A t \in Tabs : signin[t].token \in Nat /\ poll[t].token \in Nat /\ load[t].token \in Nat
      /\ \A n \in DOMAIN saves : saves[n].token \in Nat
  BY DEF TypeInv, SessionType, EditingType, Calls, Loads, SaveRecords
<1>3. token' <= issued' /\ \A t \in Tabs : signin'[t].token <= issued'
  BY <1>1, <1>2, TokenMoves DEF TokensInv
<1>4. ASSUME NEW t \in Tabs
      PROVE  Spent(poll'[t], issued', expired')
  <2>1. Idle.token = 0 /\ Idle.at = "idle" /\ Request.token = token /\ Request.at = "asked"
    BY DEF Idle, Request
  <2> QED
    BY <1>1, <1>2, <2>1, PollMoves DEF TokensInv, Spent, Valid
<1>5. ASSUME NEW t \in Tabs
      PROVE  Spent(load'[t], issued', expired')
  <2>1. NoLoad.token = 0 /\ NoLoad.at = "idle" /\ LoadRequest.token = token /\ LoadRequest.at = "asked"
    BY DEF NoLoad, LoadRequest
  <2> QED
    BY <1>1, <1>2, <2>1, LoadMoves DEF TokensInv, Spent, Valid
<1>6. ASSUME NEW n \in DOMAIN saves'
      PROVE  Spent(saves'[n], issued', expired')
  <2>1. \/ /\ n \in DOMAIN saves /\ saves'[n].token = saves[n].token
           /\ saves'[n].at = "refused" => saves[n].at = "refused" \/ ~Valid(saves[n].token)
        \/ saves'[n].token = token /\ saves'[n].at = "asked"
    BY SaveMoves
  <2> QED
    BY <1>1, <1>2, <2>1 DEF TokensInv, Spent, Valid
<1>7. ~misjudged'
  BY TokenMoves DEF TokensInv, Spent, Valid
<1> QED
  BY <1>3, <1>4, <1>5, <1>6, <1>7 DEF TokensInv
-----------------------------------------------------------------------------
(* Forms: what a form shows, and where its fields come from.               *)

\* An open form is on a page that has the settings, holds what the tab's cache
\* holds unless the operator has touched it, and shows the number it holds.
Follows(f, c, p) ==
  f.open =>
    /\ p \in {"settings", "leaving"} /\ c.has
    /\ \A x \in Fields \ f.touched : f.local[x] = c.data[x]
    /\ f.raw \in {f.local.threshold, "odd"} \/ (f.focus /\ f.raw = "empty")

FormsInv == \A t \in Tabs : Follows(form[t], cache[t], place[t])

LEMMA FormsInit == Init => FormsInv
BY NewFormFacts DEF Init, FormsInv, Follows

LEMMA FormsStep == TypeInv /\ FormsInv /\ [Next]_vars => FormsInv'
<1> SUFFICES ASSUME TypeInv, FormsInv, [Next]_vars PROVE FormsInv'
  OBVIOUS
<1>0. /\ form \in [Tabs -> Forms] /\ cache \in [Tabs -> Caches] /\ load \in [Tabs -> Loads]
      /\ place \in [Tabs -> Places]
  BY DEF TypeInv, EditingType, SessionType
<1>1. ASSUME UNCHANGED <<form, cache>>, \A u \in Tabs : place'[u] \in {place[u], "leaving"}
      PROVE  FormsInv'
  BY <1>1 DEF FormsInv, Follows
<1>2. ASSUME NEW t \in Tabs, NEW k, Intercept(t, k)
      PROVE  \A u \in Tabs : place'[u] \in {place[u], "leaving"}
  BY <1>0, <1>2 DEF Intercept
<1>3. ASSUME NEW t \in Tabs, Reload(t)
      PROVE  FormsInv'
  <2>1. ~form'[t].open /\ \A u \in Tabs : u # t => UNCHANGED <<form[u], cache[u], place[u]>>
    BY <1>0, <1>3, NewFormFacts DEF Reload
  <2> QED
    BY <2>1 DEF FormsInv, Follows
<1>4. ASSUME NEW t \in Tabs, Session(t), ~Reload(t)
      PROVE  FormsInv'
  <2>1. UNCHANGED <<form, cache>>
    BY <1>4 DEF Session, Logout, SignIn, SigninServed, SigninLost, SigninAnswered, Poll, PollServed,
       PollLost, PollAnswered
  <2>2. \A u \in Tabs : place'[u] \in {place[u], "leaving"}
    <3>1. CASE Logout(t) \/ SigninAnswered(t)
      BY <1>0, <1>2, <3>1 DEF Logout, SigninAnswered
    <3>2. CASE PollAnswered(t)
      BY <1>2, <3>2 DEF PollAnswered
    <3>3. CASE UNCHANGED place
      BY <3>3
    <3> QED
      BY <1>4, <3>1, <3>2, <3>3 DEF Session, SignIn, SigninServed, SigninLost, Poll, PollServed, PollLost
  <2> QED
    BY <1>1, <2>1, <2>2
<1>5. ASSUME NEW t \in Tabs, NEW f, form' = [form EXCEPT ![t] = f], UNCHANGED <<cache, place>>,
             Follows(f, cache[t], place[t])
      PROVE  FormsInv'
  BY <1>0, <1>5 DEF FormsInv
<1>6. ASSUME NEW t \in Tabs, NEW p \in Inside, GoTo(t, p)
      PROVE  FormsInv'
  <2> DEFINE f == IF p = "settings" /\ cache[t].has THEN NewForm(cache[t].data) ELSE NoForm
  <2>1. Follows(f, cache[t], p)
    BY NewFormFacts DEF Follows
  <2>2. form'[t] = f /\ place'[t] = p /\ UNCHANGED cache
    BY <1>0, <1>6 DEF GoTo
  <2>3. \A u \in Tabs : u # t => UNCHANGED <<form[u], place[u]>>
    BY <1>0, <1>6 DEF GoTo
  <2> QED
    BY <2>1, <2>2, <2>3 DEF FormsInv
<1>7. ASSUME NEW t \in Tabs, LoadAnswered(t)
      PROVE  FormsInv'
  <2>1. \A u \in Tabs : place'[u] \in {place[u], "leaving"}
    BY <1>2, <1>7 DEF LoadAnswered
  <2>2. ASSUME NEW u \in Tabs, u # t
        PROVE  UNCHANGED <<form[u], cache[u]>>
    BY <1>0, <1>7, <2>2 DEF LoadAnswered
  <2>3. CASE load[t].at = "ok"
    <3>1. cache'[t].has /\ cache'[t].data = load[t].snap /\ place' = place
      BY <1>0, <1>7, <2>3 DEF LoadAnswered, Unauthorized
    <3>2. CASE place[t] # "settings"
      <4>1. form'[t] = form[t] /\ ~form[t].open
        BY <1>7, <2>3, <3>2 DEF LoadAnswered, Here, FormsInv, Follows
      <4> QED
        BY <2>1, <2>2, <4>1 DEF FormsInv, Follows
    <3>3. CASE place[t] = "settings"
      <4>1. form'[t] = Synced(form[t], cache[t].data, load[t].snap)
        BY <1>0, <1>7, <2>3, <3>3 DEF LoadAnswered
      <4>2. Follows(form'[t], cache'[t], place'[t])
        BY <1>0, <3>1, <3>3, <4>1, NewFormFacts DEF Synced, Follows, FormsInv, Forms
      <4> QED
        BY <2>1, <2>2, <4>2 DEF FormsInv, Follows
    <3> QED
      BY <3>2, <3>3
  <2>4. CASE load[t].at # "ok"
    <3>1. form'[t] = Redrawn(form[t])
      BY <1>0, <1>7, <2>4 DEF LoadAnswered
    <3>2. cache'[t].has = cache[t].has /\ cache'[t].data = cache[t].data
      BY <1>0, <1>7, <2>4 DEF LoadAnswered, Caches
    <3>3. Follows(form'[t], cache'[t], place'[t])
      BY <1>0, <2>1, <3>1, <3>2 DEF Redrawn, Follows, FormsInv, Forms
    <3> QED
      BY <2>1, <2>2, <3>3 DEF FormsInv, Follows
  <2> QED
    BY <2>3, <2>4
<1>8. ASSUME NEW t \in Tabs, NEW r \in Recipients, EditRecipients(t, r)
      PROVE  FormsInv'
  <2> DEFINE f == [form[t] EXCEPT !.local = [@ EXCEPT !.recipients = r], !.touched = @ \cup {"recipients"}]
  <2>1. Follows(f, cache[t], place[t])
    BY <1>0 DEF FormsInv, Follows, Forms, Settings, Fields
  <2>2. form' = [form EXCEPT ![t] = f]
    BY <1>0, <1>8 DEF EditRecipients
  <2> QED
    BY <1>5, <1>8, <2>1, <2>2 DEF EditRecipients
<1>9. ASSUME NEW t \in Tabs, NEW text \in Thresholds \cup Invalid, TypeThreshold(t, text)
      PROVE  FormsInv'
  <2> DEFINE l == [form[t].local EXCEPT !.threshold = IF text \in Thresholds THEN text ELSE @]
             f == [form[t] EXCEPT !.raw = text, !.focus = TRUE, !.local = l,
                     !.touched = @ \cup (IF text \in Thresholds THEN {"threshold"} ELSE {})]
  <2>1. Follows(f, cache[t], place[t])
    <3>1. l.threshold = (IF text \in Thresholds THEN text ELSE form[t].local.threshold)
          /\ l.recipients = form[t].local.recipients
      BY <1>0 DEF Forms, Settings
    <3> HIDE DEF l
    <3>2. /\ f.open = form[t].open /\ f.raw = text /\ f.focus /\ f.local = l
          /\ f.touched = form[t].touched \cup (IF text \in Thresholds THEN {"threshold"} ELSE {})
      BY <1>0 DEF Forms
    <3> HIDE DEF f
    <3>3. \A x \in Fields : x \in {"recipients", "threshold"}
      BY DEF Fields
    <3>4. /\ form[t].open => place[t] \in {"settings", "leaving"} /\ cache[t].has
          /\ form[t].open => \A x \in Fields \ form[t].touched : form[t].local[x] = cache[t].data[x]
      BY DEF FormsInv, Follows
    <3>5. form[t].open => \A x \in Fields \ f.touched : l[x] = cache[t].data[x]
      <4>1. \A x \in Fields \ f.touched : l[x] = form[t].local[x] /\ x \notin form[t].touched
        BY <3>1, <3>2, <3>3
      <4> QED
        BY <3>4, <4>1
    <3>6. f.raw \in {l.threshold, "odd"} \/ (f.focus /\ f.raw = "empty")
      BY <3>1, <3>2 DEF Invalid
    <3> QED
      BY <3>2, <3>4, <3>5, <3>6 DEF Follows
  <2>2. form' = [form EXCEPT ![t] = f]
    <3>1. form[t] = [open |-> form[t].open, local |-> form[t].local, touched |-> form[t].touched,
                     raw |-> form[t].raw, focus |-> form[t].focus, saving |-> form[t].saving]
      BY <1>0 DEF Forms
    <3>2. CASE text \in Thresholds
      BY <1>0, <1>9, <3>1, <3>2 DEF TypeThreshold
    <3>3. CASE text \notin Thresholds
      BY <1>0, <1>9, <3>1, <3>3 DEF TypeThreshold
    <3> QED
      BY <3>2, <3>3
  <2> QED
    BY <1>5, <1>9, <2>1, <2>2 DEF TypeThreshold
<1>10. ASSUME NEW t \in Tabs, Blur(t)
      PROVE  FormsInv'
  <2> DEFINE f == [form[t] EXCEPT !.focus = FALSE,
                                  !.raw = IF @ = "empty" THEN form[t].local.threshold ELSE @]
  <2>1. Follows(f, cache[t], place[t])
    BY <1>0 DEF FormsInv, Follows, Forms
  <2>2. form' = [form EXCEPT ![t] = f]
    BY <1>0, <1>10 DEF Blur, Forms
  <2> QED
    BY <1>5, <1>10, <2>1, <2>2 DEF Blur
<1>11. ASSUME NEW t \in Tabs, NEW k, form' = [form EXCEPT ![t] = [@ EXCEPT !.saving = k]],
              UNCHANGED cache, \A u \in Tabs : place'[u] \in {place[u], "leaving"}
      PROVE  FormsInv'
  <2>1. \A u \in Tabs : /\ form'[u].open = form[u].open /\ form'[u].local = form[u].local
                        /\ form'[u].touched = form[u].touched /\ form'[u].raw = form[u].raw
                        /\ form'[u].focus = form[u].focus
    BY <1>0, <1>11 DEF Forms
  <2> QED
    BY <1>11, <2>1 DEF FormsInv, Follows
<1>12. ASSUME NEW t \in Tabs, Save(t)
      PROVE  FormsInv'
  <2>1. form' = [form EXCEPT ![t] = [@ EXCEPT !.saving = used'.saves]] /\ UNCHANGED <<cache, place>>
    BY <1>0, <1>12 DEF Save, Forms
  <2> QED
    BY <1>11, <2>1
<1>13. ASSUME NEW n \in DOMAIN saves, SaveAnswered(n)
      PROVE  FormsInv'
  <2> DEFINE t == saves[n].tab
  <2>1. UNCHANGED cache /\ \A u \in Tabs : place'[u] \in {place[u], "leaving"}
    BY <1>0, <1>13 DEF SaveAnswered, Intercept
  <2>2. form' = form \/ (t \in Tabs /\ form' = [form EXCEPT ![t] = [@ EXCEPT !.saving = 0]])
    BY <1>0, <1>13 DEF SaveAnswered
  <2> QED
    BY <1>1, <1>11, <2>1, <2>2
<1>14. ASSUME NEW n \in DOMAIN saves, SaveLost(n) \/ \E heard \in BOOLEAN : SaveServed(n, heard)
      PROVE  FormsInv'
  BY <1>1, <1>14 DEF SaveLost, SaveServed
<1>15. CASE Expire
  BY <1>1, <1>15 DEF Expire
<1>16. CASE UNCHANGED vars
  BY <1>1, <1>16 DEF vars
<1>17. ASSUME NEW t \in Tabs, LoadServed(t) \/ LoadLost(t)
      PROVE  FormsInv'
  BY <1>1, <1>17 DEF LoadServed, LoadLost
<1>18. ASSUME NEW t \in Tabs, Editing(t)
      PROVE  FormsInv'
  BY <1>6, <1>7, <1>8, <1>9, <1>10, <1>12, <1>17, <1>18 DEF Editing
<1> QED
  BY <1>3, <1>4, <1>13, <1>14, <1>15, <1>16, <1>18 DEF Next
-----------------------------------------------------------------------------
(* Copies: how old the settings are that the tabs hold.                    *)

\* d is what the settings s were at change n, apart from the fields that have
\* changed since.
Copy(d, n, s, st, k) == n <= k /\ \A f \in Fields : st[f] <= n => d[f] = s[f]

CopiesInv ==
  /\ \A f \in Fields : stamp[f] <= now
  /\ Copy(FirstSettings, 0, settings, stamp, now)
  /\ \A t \in Tabs : /\ Copy(load[t].snap, load[t].asOf, settings, stamp, now)
                     /\ Copy(cache[t].data, cache[t].asOf, settings, stamp, now)
  /\ \A n \in DOMAIN saves :
       /\ saves[n].asOf <= now
       /\ \A f \in Fields \ saves[n].touched : stamp[f] <= saves[n].asOf => saves[n].to[f] = settings[f]
  /\ ~blind

LEMMA CopiesInit == Init => CopiesInv
<1> SUFFICES ASSUME Init PROVE CopiesInv
  OBVIOUS
<1>1. Copy(FirstSettings, 0, settings, stamp, now)
  BY DEF Init, Copy
<1>2. NoLoad.snap = FirstSettings /\ NoLoad.asOf = 0 /\ LoadRequest.snap = FirstSettings
      /\ LoadRequest.asOf = 0 /\ NoCache.data = FirstSettings /\ NoCache.asOf = 0
  BY DEF NoLoad, LoadRequest, NoCache
<1> QED
  BY <1>1, <1>2 DEF Init, CopiesInv

\* A step changes a field only under a new stamp.
LEMMA SettingsMoves ==
  ASSUME TypeInv, Next
  PROVE  /\ now \in Nat /\ now' \in {now, now + 1}
         /\ \A f \in Fields : \/ UNCHANGED <<settings[f], stamp[f]>>
                              \/ stamp'[f] = now' /\ now' = now + 1
         /\ blind' => \/ blind
                      \/ \E n \in DOMAIN saves : \E f \in Fields \ saves[n].touched :
                           saves[n].to[f] # settings[f] /\ stamp[f] <= saves[n].asOf
<1>0. settings \in Settings /\ now \in Nat /\ stamp \in [Fields -> Nat]
  BY DEF TypeInv, ServerType
<1>1. ASSUME NEW n \in DOMAIN saves, NEW heard \in BOOLEAN, SaveServed(n, heard),
             Valid(saves[n].token)
      PROVE  /\ now' \in {now, now + 1}
             /\ \A f \in Fields : \/ UNCHANGED <<settings[f], stamp[f]>>
                                  \/ stamp'[f] = now' /\ now' = now + 1
             /\ blind' => \/ blind
                          \/ \E f \in Fields \ saves[n].touched :
                               saves[n].to[f] # settings[f] /\ stamp[f] <= saves[n].asOf
  <2>1. settings' = saves[n].to /\ now' = (IF saves[n].to = settings THEN now ELSE now + 1)
    BY <1>1 DEF SaveServed
  <2>2. stamp' = [f \in Fields |-> IF saves[n].to[f] = settings[f] THEN stamp[f] ELSE now']
    BY <1>1 DEF SaveServed
  <2>3. blind' = (blind \/ \E f \in Fields \ saves[n].touched :
                             saves[n].to[f] # settings[f] /\ stamp[f] <= saves[n].asOf)
    BY <1>1 DEF SaveServed
  <2> QED
    BY <1>0, <2>1, <2>2, <2>3
<1>2. ASSUME NEW n \in DOMAIN saves, NEW heard \in BOOLEAN, SaveServed(n, heard),
             ~Valid(saves[n].token)
      PROVE  UNCHANGED <<settings, now, stamp, blind>>
  BY <1>2 DEF SaveServed
<1>3. ASSUME NEW n \in DOMAIN saves, SaveLost(n) \/ SaveAnswered(n)
      PROVE  UNCHANGED <<settings, now, stamp, blind>>
  BY <1>3 DEF SaveLost, SaveAnswered, server, history
<1>4. ASSUME NEW t \in Tabs, Session(t)
      PROVE  UNCHANGED <<settings, now, stamp, blind>>
  BY <1>4 DEF Session, Reload, Logout, SignIn, SigninServed, SigninLost, SigninAnswered, Poll,
     PollServed, PollLost, PollAnswered, server, history
<1>5. ASSUME NEW t \in Tabs, Editing(t)
      PROVE  UNCHANGED <<settings, now, stamp, blind>>
  BY <1>5 DEF Editing, GoTo, LoadServed, LoadLost, LoadAnswered, EditRecipients, TypeThreshold,
     Blur, Save, server, history
<1>6. ASSUME Expire
      PROVE  UNCHANGED <<settings, now, stamp, blind>>
  BY <1>6 DEF Expire, history
<1> QED
  BY <1>0, <1>1, <1>2, <1>3, <1>4, <1>5, <1>6 DEF Next

\* The cache takes what a load brought, and nothing else.
LEMMA CacheMoves ==
  ASSUME TypeInv, Next, NEW u \in Tabs
  PROVE  \/ cache'[u].data = cache[u].data /\ cache'[u].asOf = cache[u].asOf
         \/ cache'[u] = NoCache
         \/ cache'[u].data = load[u].snap /\ cache'[u].asOf = load[u].asOf
<1>0. cache \in [Tabs -> Caches]
  BY DEF TypeInv, EditingType
<1>1. ASSUME NEW t \in Tabs, Reload(t)
      PROVE  cache'[u] \in {cache[u], NoCache}
  BY <1>0, <1>1 DEF Reload
<1>2. ASSUME NEW t \in Tabs, Session(t)
      PROVE  UNCHANGED cache \/ Reload(t)
  BY <1>2 DEF Session, Logout, SignIn, SigninServed, SigninLost, SigninAnswered, Poll, PollServed,
     PollLost, PollAnswered
<1>3. ASSUME NEW t \in Tabs, LoadAnswered(t)
      PROVE  \/ cache'[u].data = cache[u].data /\ cache'[u].asOf = cache[u].asOf
             \/ cache'[u].data = load[u].snap /\ cache'[u].asOf = load[u].asOf
  BY <1>0, <1>3 DEF LoadAnswered, Caches
<1>4. ASSUME NEW t \in Tabs, Editing(t)
      PROVE  UNCHANGED cache \/ LoadAnswered(t)
  BY <1>4 DEF Editing, GoTo, LoadServed, LoadLost, EditRecipients, TypeThreshold, Blur, Save
<1>5. ASSUME NEW n \in DOMAIN saves,
             SaveLost(n) \/ SaveAnswered(n) \/ \E heard \in BOOLEAN : SaveServed(n, heard)
      PROVE  UNCHANGED cache
  BY <1>5 DEF SaveLost, SaveServed, SaveAnswered
<1>6. CASE Expire
  BY <1>6 DEF Expire
<1> QED
  BY <1>1, <1>2, <1>3, <1>4, <1>5, <1>6 DEF Next

LEMMA CopiesStep ==
  TypeInv /\ SavesInv /\ FormsInv /\ CopiesInv /\ [Next]_vars => CopiesInv'
<1> SUFFICES ASSUME TypeInv, SavesInv, FormsInv, CopiesInv, Next PROVE CopiesInv'
  BY DEF CopiesInv, vars, server, history
<1>1. /\ now \in Nat /\ now' \in {now, now + 1}
      /\ \A f \in Fields : \/ UNCHANGED <<settings[f], stamp[f]>>
                           \/ stamp'[f] = now' /\ now' = now + 1
  BY SettingsMoves
<1>2. \A f \in Fields : stamp[f] \in Nat
  BY DEF TypeInv, ServerType
<1>3. ASSUME NEW d, NEW n \in Nat, Copy(d, n, settings, stamp, now)
      PROVE  Copy(d, n, settings', stamp', now')
  BY <1>1, <1>2, <1>3 DEF Copy
<1>4. Copy(settings, now, settings', stamp', now')
  BY <1>1, <1>2 DEF Copy
<1>5. \A f \in Fields : stamp'[f] <= now'
  BY <1>1, <1>2 DEF CopiesInv
<1>6. Copy(FirstSettings, 0, settings', stamp', now')
  BY <1>3 DEF CopiesInv
<1>7. ASSUME NEW t \in Tabs
      PROVE  Copy(load'[t].snap, load'[t].asOf, settings', stamp', now')
  <2>1. NoLoad.snap = FirstSettings /\ NoLoad.asOf = 0 /\ LoadRequest.snap = FirstSettings
        /\ LoadRequest.asOf = 0
    BY DEF NoLoad, LoadRequest
  <2>2. load[t].asOf \in Nat
    BY DEF TypeInv, EditingType, Loads
  <2>3. Copy(load[t].snap, load[t].asOf, settings', stamp', now')
    BY <1>3, <2>2 DEF CopiesInv
  <2> QED
    BY <1>4, <1>6, <2>1, <2>3, LoadMoves
<1>8. ASSUME NEW t \in Tabs
      PROVE  Copy(cache'[t].data, cache'[t].asOf, settings', stamp', now')
  <2>1. NoCache.data = FirstSettings /\ NoCache.asOf = 0
    BY DEF NoCache
  <2>2. load[t].asOf \in Nat /\ cache[t].asOf \in Nat
    BY DEF TypeInv, EditingType, Loads, Caches
  <2>3. /\ Copy(load[t].snap, load[t].asOf, settings', stamp', now')
        /\ Copy(cache[t].data, cache[t].asOf, settings', stamp', now')
    BY <1>3, <2>2 DEF CopiesInv
  <2> QED
    BY <1>6, <2>1, <2>3, CacheMoves
<1>9. ASSUME NEW n \in DOMAIN saves'
      PROVE  /\ saves'[n].asOf <= now'
             /\ \A f \in Fields \ saves'[n].touched :
                  stamp'[f] <= saves'[n].asOf => saves'[n].to[f] = settings'[f]
  <2>1. CASE /\ n \in DOMAIN saves /\ saves'[n].to = saves[n].to
             /\ saves'[n].touched = saves[n].touched /\ saves'[n].asOf = saves[n].asOf
    <3>1. saves[n].asOf \in Nat
      BY <2>1 DEF TypeInv, EditingType, SaveRecords
    <3> QED
      BY <1>1, <1>2, <2>1, <3>1 DEF CopiesInv
  <2>2. ASSUME NEW t \in Tabs, Save(t), saves'[n].to = form[t].local,
               saves'[n].touched = form[t].touched, saves'[n].asOf = cache[t].asOf
        PROVE  /\ saves'[n].asOf <= now'
               /\ \A f \in Fields \ saves'[n].touched :
                    stamp'[f] <= saves'[n].asOf => saves'[n].to[f] = settings'[f]
    <3>1. cache[t].asOf \in Nat
      BY DEF TypeInv, EditingType, Caches
    <3>2. Copy(cache[t].data, cache[t].asOf, settings', stamp', now')
      BY <1>3, <3>1 DEF CopiesInv
    <3>3. \A f \in Fields \ form[t].touched : form[t].local[f] = cache[t].data[f]
      BY <2>2 DEF Save, Shown, FormsInv, Follows
    <3> QED
      BY <2>2, <3>2, <3>3 DEF Copy
  <2>3. \/ /\ n \in DOMAIN saves /\ saves'[n].to = saves[n].to
           /\ saves'[n].touched = saves[n].touched /\ saves'[n].asOf = saves[n].asOf
        \/ \E t \in Tabs : Save(t) /\ saves'[n].to = form[t].local
                           /\ saves'[n].touched = form[t].touched /\ saves'[n].asOf = cache[t].asOf
    BY SaveMoves
  <2> QED
    BY <2>1, <2>2, <2>3
<1>10. ~blind'
  BY SettingsMoves DEF CopiesInv
<1> QED
  BY <1>5, <1>6, <1>7, <1>8, <1>9, <1>10 DEF CopiesInv
-----------------------------------------------------------------------------
(* Bounds: every token and every change of the settings is paid for.       *)

Asking(s) == {t \in Tabs : s[t].at = "right"}
Unserved(s) == {n \in DOMAIN s : s[n].at = "asked"}

\* i is at most b, even when all of S is still to be counted in i.
Paid(S, i, b) == IsFiniteSet(S) /\ i + Cardinality(S) <= b

BoundsInv ==
  /\ \A what \in Bounds : used[what] <= scene[what]
  /\ Paid(Asking(signin), issued, 1 + used.logins)
  /\ Paid(Unserved(saves), now, used.saves)

LEMMA PaidStays ==
  ASSUME NEW S, NEW T, NEW i \in Nat, NEW b \in Nat, NEW j, NEW c, Paid(S, i, b),
         \/ T \subseteq S /\ j = i /\ c \in {b, b + 1}
         \/ \E x : T \subseteq S \cup {x} /\ j = i /\ c = b + 1
         \/ \E x \in S : T \subseteq S \ {x} /\ j \in {i, i + 1} /\ c = b
  PROVE  Paid(T, j, c)
<1>1. IsFiniteSet(S) /\ Cardinality(S) \in Nat /\ i + Cardinality(S) <= b
  BY FS_CardinalityType DEF Paid
<1>2. CASE T \subseteq S /\ j = i /\ c \in {b, b + 1}
  <2>1. IsFiniteSet(T) /\ Cardinality(T) <= Cardinality(S) /\ Cardinality(T) \in Nat
    BY <1>1, <1>2, FS_Subset, FS_CardinalityType
  <2> QED
    BY <1>1, <1>2, <2>1 DEF Paid
<1>3. ASSUME NEW x, T \subseteq S \cup {x}, j = i, c = b + 1
      PROVE  Paid(T, j, c)
  <2>1. IsFiniteSet(S \cup {x}) /\ Cardinality(S \cup {x}) <= Cardinality(S) + 1
    BY <1>1, FS_AddElement
  <2>2. IsFiniteSet(T) /\ Cardinality(T) <= Cardinality(S \cup {x}) /\ Cardinality(T) \in Nat
        /\ Cardinality(S \cup {x}) \in Nat
    BY <1>3, <2>1, FS_Subset, FS_CardinalityType
  <2> QED
    BY <1>1, <1>3, <2>1, <2>2 DEF Paid
<1>4. ASSUME NEW x \in S, T \subseteq S \ {x}, j \in {i, i + 1}, c = b
      PROVE  Paid(T, j, c)
  <2>1. IsFiniteSet(S \ {x}) /\ Cardinality(S \ {x}) = Cardinality(S) - 1
    BY <1>1, FS_RemoveElement
  <2>2. IsFiniteSet(T) /\ Cardinality(T) <= Cardinality(S \ {x}) /\ Cardinality(T) \in Nat
    BY <1>4, <2>1, FS_Subset, FS_CardinalityType
  <2> QED
    BY <1>1, <1>4, <2>1, <2>2 DEF Paid
<1> QED
  BY <1>2, <1>3, <1>4

LEMMA BoundsInit == Init => BoundsInv
<1> SUFFICES ASSUME Init PROVE BoundsInv
  OBVIOUS
<1>1. \A what \in Bounds : used[what] = 0 /\ scene[what] \in Nat
  BY SceneFacts DEF Init
<1>2. Asking(signin) = {} /\ Unserved(saves) = {}
  BY DEF Init, Asking, Unserved, Idle
<1>3. used.logins = 0 /\ used.saves = 0
  BY <1>1 DEF Bounds
<1>4. Paid({}, 1, 1) /\ Paid({}, 0, 0)
  BY FS_EmptySet DEF Paid
<1>5. issued = 1 /\ now = 0 /\ 1 + used.logins = 1
  BY <1>3 DEF Init
<1> QED
  BY <1>1, <1>2, <1>3, <1>4, <1>5 DEF BoundsInv

\* The bounds are only used up.
LEMMA UsedMoves ==
  ASSUME TypeInv, Next
  PROVE  /\ UNCHANGED scene
         /\ \A b \in Bounds : used[b] \in Nat /\ used'[b] \in {used[b], used[b] + 1}
         /\ \A b \in Bounds : used'[b] # used[b] => used'[b] <= scene[b]
<1>1. ASSUME NEW t \in Tabs, Session(t)
      PROVE  UNCHANGED scene /\ (UNCHANGED used \/ \E b \in Bounds : Use(b))
  BY <1>1 DEF Session, Reload, Logout, SignIn, SigninServed, SigninLost, SigninAnswered, Poll,
     PollServed, PollLost, PollAnswered, Bounds
<1>2. ASSUME NEW t \in Tabs, Editing(t)
      PROVE  UNCHANGED scene /\ (UNCHANGED used \/ \E b \in Bounds : Use(b))
  BY <1>2 DEF Editing, GoTo, LoadServed, LoadLost, LoadAnswered, EditRecipients, TypeThreshold,
     Blur, Save, Bounds
<1>3. ASSUME NEW n \in DOMAIN saves,
             SaveLost(n) \/ SaveAnswered(n) \/ \E heard \in BOOLEAN : SaveServed(n, heard)
      PROVE  UNCHANGED scene /\ (UNCHANGED used \/ \E b \in Bounds : Use(b))
  BY <1>3 DEF SaveLost, SaveServed, SaveAnswered, Bounds
<1>4. ASSUME Expire
      PROVE  UNCHANGED scene /\ (UNCHANGED used \/ \E b \in Bounds : Use(b))
  BY <1>4 DEF Expire, Bounds
<1>5. UNCHANGED scene /\ (UNCHANGED used \/ \E b \in Bounds : Use(b))
  BY <1>1, <1>2, <1>3, <1>4 DEF Next
<1>6. \A b \in Bounds : used[b] \in Nat
  BY DEF TypeInv, BoundsType
<1>7. ASSUME NEW what \in Bounds, Use(what), UNCHANGED scene
      PROVE  /\ \A b \in Bounds : used'[b] \in {used[b], used[b] + 1}
             /\ \A b \in Bounds : used'[b] # used[b] => used'[b] <= scene[b]
  BY <1>7, UseFacts DEF TypeInv
<1> QED
  BY <1>5, <1>6, <1>7
LEMMA BoundsStep == TypeInv /\ SavesInv /\ BoundsInv /\ [Next]_vars => BoundsInv'
<1> SUFFICES ASSUME TypeInv, SavesInv, BoundsInv, Next PROVE BoundsInv'
  BY DEF BoundsInv, vars, server
<1> USE DEF TypeInv
<1>1. /\ signin \in [Tabs -> Calls({"idle", "right", "wrong"} \cup Ends)]
      /\ issued \in Nat /\ now \in Nat /\ EditingType
  BY DEF SessionType, ServerType
<1>2. /\ UNCHANGED scene
      /\ \A b \in Bounds : used[b] \in Nat /\ used'[b] \in {used[b], used[b] + 1}
      /\ \A b \in Bounds : used'[b] # used[b] => used'[b] <= scene[b]
  BY UsedMoves
<1>3. /\ used.logins \in Nat /\ used'.logins \in {used.logins, used.logins + 1}
      /\ used.saves \in Nat /\ used'.saves \in {used.saves, used.saves + 1}
  BY <1>2 DEF Bounds
<1>4. \A what \in Bounds : used'[what] <= scene'[what]
  BY <1>2 DEF BoundsInv
<1>5. Paid(Asking(signin'), issued', 1 + used'.logins)
  <2> DEFINE i == issued
             b == 1 + used.logins
             c == 1 + used'.logins
             Goal == \/ /\ Asking(signin') \subseteq Asking(signin) /\ issued' = i /\ c \in {b, b + 1}
                     \/ \E x : Asking(signin') \subseteq Asking(signin) \cup {x} /\ issued' = i /\ c = b + 1
                     \/ \E x \in Asking(signin) :
                          /\ Asking(signin') \subseteq Asking(signin) \ {x}
                          /\ issued' \in {i, i + 1} /\ c = b
  <2>1. ASSUME UNCHANGED issued, UNCHANGED signin
        PROVE  Goal
    BY <2>1, <1>3
  <2>2. ASSUME NEW t \in Tabs, NEW r, signin' = [signin EXCEPT ![t] = r], r.at # "right",
               UNCHANGED issued
        PROVE  Goal
    BY <2>2, <1>1, <1>3 DEF Asking
  <2>3. ASSUME NEW t \in Tabs, NEW right \in BOOLEAN, SignIn(t, right)
        PROVE  Goal
    <3>1. used'.logins = used.logins + 1
      BY <2>3, UseFacts DEF SignIn, Bounds
    <3>2. Asking(signin') \subseteq Asking(signin) \cup {t} /\ UNCHANGED issued
      BY <2>3, <1>1 DEF SignIn, Asking, server
    <3>3. c = b + 1
      BY <3>1, <1>3
    <3> QED
      BY <3>2, <3>3
  <2>4. ASSUME NEW t \in Tabs, SigninServed(t)
        PROVE  Goal
    <3>1. CASE signin[t].at = "right"
      <4>1. t \in Asking(signin) /\ issued' = i + 1 /\ UNCHANGED used
        BY <2>4, <3>1 DEF SigninServed, Asking
      <4>2. Asking(signin') \subseteq Asking(signin) \ {t}
        BY <2>4, <3>1, <1>1 DEF SigninServed, Asking
      <4> QED
        BY <4>1, <4>2
    <3>2. CASE signin[t].at # "right"
      <4>1. signin' = [signin EXCEPT ![t] = [@ EXCEPT !.at = "refused"]] /\ UNCHANGED issued
        BY <2>4, <3>2 DEF SigninServed
      <4>2. signin' = [signin EXCEPT ![t] = [signin[t] EXCEPT !.at = "refused"]]
            /\ [signin[t] EXCEPT !.at = "refused"].at # "right"
        BY <4>1, <1>1 DEF Calls
      <4> QED
        BY <2>2, <4>1, <4>2
    <3> QED
      BY <3>1, <3>2
  <2>5. ASSUME NEW t \in Tabs, SigninLost(t)
        PROVE  Goal
    <3>1. signin' = [signin EXCEPT ![t] = [signin[t] EXCEPT !.at = "failed"]] /\ UNCHANGED issued
          /\ [signin[t] EXCEPT !.at = "failed"].at # "right"
      BY <2>5, <1>1 DEF SigninLost, Calls, server
    <3> QED
      BY <2>2, <3>1
  <2>6. ASSUME NEW t \in Tabs, SigninAnswered(t) \/ Reload(t)
        PROVE  Goal
    <3>1. signin' = [signin EXCEPT ![t] = Idle] /\ Idle.at # "right" /\ UNCHANGED issued
      BY <2>6 DEF SigninAnswered, Reload, Idle, server
    <3> QED
      BY <2>2, <3>1
  <2>7. ASSUME NEW t \in Tabs, Session(t)
        PROVE  Goal
    <3>1. \/ UNCHANGED <<issued, signin>> \/ SigninServed(t) \/ SigninLost(t) \/ SigninAnswered(t)
          \/ Reload(t) \/ \E right \in BOOLEAN : SignIn(t, right)
      BY <2>7 DEF Session, Logout, Poll, PollServed, PollLost, PollAnswered, server
    <3> QED
      BY <3>1, <2>1, <2>3, <2>4, <2>5, <2>6
  <2>8. ASSUME NEW t \in Tabs, Editing(t)
        PROVE  UNCHANGED <<issued, signin>>
    BY <2>8 DEF Editing, GoTo, LoadServed, LoadLost, LoadAnswered, EditRecipients, TypeThreshold,
       Blur, Save, server
  <2>9. ASSUME NEW n \in DOMAIN saves,
               SaveLost(n) \/ SaveAnswered(n) \/ \E heard \in BOOLEAN : SaveServed(n, heard)
        PROVE  UNCHANGED <<issued, signin>>
    BY <2>9 DEF SaveLost, SaveServed, SaveAnswered, server
  <2>10. ASSUME Expire
         PROVE  UNCHANGED <<issued, signin>>
    BY <2>10 DEF Expire
  <2>11. Goal
    BY <2>1, <2>7, <2>8, <2>9, <2>10 DEF Next
  <2>12. Paid(Asking(signin), i, b) /\ i \in Nat /\ b \in Nat
    BY <1>1, <1>3 DEF BoundsInv
  <2> HIDE DEF i, b, c
  <2>13. Paid(Asking(signin'), issued', c)
    BY <2>11, <2>12, PaidStays
  <2> QED
    BY <2>13 DEF c
<1>6. Paid(Unserved(saves'), now', used'.saves)
  <2> DEFINE Goal == \/ /\ Unserved(saves') \subseteq Unserved(saves) /\ now' = now
                        /\ used'.saves \in {used.saves, used.saves + 1}
                     \/ \E x : /\ Unserved(saves') \subseteq Unserved(saves) \cup {x} /\ now' = now
                               /\ used'.saves = used.saves + 1
                     \/ \E x \in Unserved(saves) :
                          /\ Unserved(saves') \subseteq Unserved(saves) \ {x}
                          /\ now' \in {now, now + 1} /\ used'.saves = used.saves
  <2>1. ASSUME UNCHANGED now, Unserved(saves') \subseteq Unserved(saves)
        PROVE  Goal
    BY <2>1, <1>3
  <2>2. ASSUME NEW t \in Tabs, Reload(t)
        PROVE  Goal
    <3>1. UNCHANGED now /\ DOMAIN saves' \subseteq DOMAIN saves
          /\ \A n \in DOMAIN saves' : saves'[n].at = saves[n].at
      BY <2>2, <1>1 DEF Reload, EditingType, SaveRecords, server
    <3> QED
      BY <2>1, <3>1 DEF Unserved
  <2>3. ASSUME NEW t \in Tabs, Save(t)
        PROVE  Goal
    <3>1. used'.saves = used.saves + 1 /\ UNCHANGED now
      BY <2>3, UseFacts DEF Save, Bounds, server
    <3>2. Unserved(saves') \subseteq Unserved(saves) \cup {used'.saves}
      BY <2>3 DEF Save, Unserved
    <3> QED
      BY <3>1, <3>2
  <2>4. ASSUME NEW n \in DOMAIN saves, NEW at \in Ends, saves' = Ended(n, at)
        PROVE  Unserved(saves') \subseteq Unserved(saves) \ {n}
    <3>1. saves[n] \in SaveRecords
      BY <1>1 DEF EditingType
    <3>2. n \in DOMAIN saves' => saves'[n].at # "asked"
      <4>1. saves[n].tab = "none" => n \notin DOMAIN saves'
        BY <1>1, <2>4, EndedFacts
      <4>2. saves[n].tab # "none" => saves'[n] = [saves[n] EXCEPT !.at = at]
        BY <1>1, <2>4, EndedFacts
      <4> QED
        BY <3>1, <4>1, <4>2 DEF SaveRecords, Ends
    <3>3. \A m \in DOMAIN saves' : m \in DOMAIN saves /\ (m # n => saves'[m] = saves[m])
      BY <1>1, <2>4, EndedFacts
    <3> QED
      BY <3>2, <3>3 DEF Unserved
  <2>5. ASSUME NEW n \in DOMAIN saves, SaveLost(n)
        PROVE  Goal
    <3>1. Unserved(saves') \subseteq Unserved(saves) \ {n} /\ UNCHANGED now
      BY <2>4, <2>5 DEF SaveLost, Ends, server
    <3> QED
      BY <2>1, <3>1
  <2>6. ASSUME NEW n \in DOMAIN saves, NEW heard \in BOOLEAN, SaveServed(n, heard)
        PROVE  Goal
    <3>1. PICK at \in Ends : saves' = Ended(n, at)
      BY <2>6 DEF SaveServed, Ends
    <3>2. n \in Unserved(saves) /\ Unserved(saves') \subseteq Unserved(saves) \ {n}
      BY <2>4, <2>6, <3>1 DEF SaveServed, Unserved
    <3>3. now' \in {now, now + 1}
      BY SettingsMoves
    <3>4. used'.saves = used.saves
      BY <2>6, UseFacts DEF SaveServed, Bounds
    <3> QED
      BY <3>2, <3>3, <3>4
  <2>7. ASSUME NEW n \in DOMAIN saves, SaveAnswered(n)
        PROVE  Goal
    <3>1. Unserved(saves') \subseteq Unserved(saves) /\ UNCHANGED now
      BY <1>1, <2>7, DroppedFacts DEF SaveAnswered, Unserved, server
    <3> QED
      BY <2>1, <3>1
  <2>8. ASSUME NEW t \in Tabs, Session(t)
        PROVE  Reload(t) \/ UNCHANGED <<now, saves>>
    BY <2>8 DEF Session, Logout, SignIn, SigninServed, SigninLost, SigninAnswered, Poll, PollServed,
       PollLost, PollAnswered, server
  <2>9. ASSUME NEW t \in Tabs, Editing(t)
        PROVE  Save(t) \/ UNCHANGED <<now, saves>>
    BY <2>9 DEF Editing, GoTo, LoadServed, LoadLost, LoadAnswered, EditRecipients, TypeThreshold,
       Blur, server
  <2>10. ASSUME Expire
         PROVE  UNCHANGED <<now, saves>>
    BY <2>10 DEF Expire
  <2>11. Goal
    <3>1. ASSUME UNCHANGED <<now, saves>>
          PROVE  Goal
      BY <2>1, <3>1 DEF Unserved
    <3> QED
      BY <2>2, <2>3, <2>5, <2>6, <2>7, <2>8, <2>9, <2>10, <3>1 DEF Next
  <2> QED
    BY <1>1, <1>3, <2>11, PaidStays DEF BoundsInv
<1> QED
  BY <1>4, <1>5, <1>6 DEF BoundsInv

-----------------------------------------------------------------------------
(* The theorems.                                                           *)

Inv == TypeInv /\ SavesInv /\ TokensInv /\ FormsInv /\ CopiesInv /\ BoundsInv

LEMMA Invariant == Spec => []Inv
<1>1. Init => Inv
  BY TypeInit, SavesInit, TokensInit, FormsInit, CopiesInit, BoundsInit DEF Inv
<1>2. Inv /\ [Next]_vars => Inv'
  BY TypeStep, SavesStep, TokensStep, FormsStep, CopiesStep, BoundsStep DEF Inv
<1> QED
  BY <1>1, <1>2, PTL DEF Spec

\* The variables keep their types and bounds, an open form stands on a page
\* with the settings in its tab's cache, and the save it waits for is under
\* way and of its own tab (TypeOK), for any tabs and settings.
THEOREM TypeCorrect == Spec => []TypeOK
<1>1. Inv => TypeOK
  <2> SUFFICES ASSUME Inv PROVE TypeOK
    OBVIOUS
  <2>1. TypeInv /\ SavesInv /\ TokensInv /\ FormsInv /\ CopiesInv /\ BoundsInv
    BY DEF Inv
  <2>2. scene \in Scenes /\ \A what \in Bounds : used[what] \in 0..scene[what]
    BY <2>1, SceneFacts DEF TypeInv, BoundsType, BoundsInv
  <2>3. /\ used.saves \in Nat /\ used.saves <= scene.saves /\ used.logins \in Nat
        /\ used.logins <= scene.logins /\ scene.saves \in Nat /\ scene.logins \in Nat
    BY <2>1, <2>2, SceneFacts DEF TypeInv, BoundsType, BoundsInv, Bounds
  <2>4. ASSUME NEW S, NEW i \in Nat, NEW b \in Nat, Paid(S, i, b)
        PROVE  i <= b
    BY <2>4, FS_CardinalityType DEF Paid
  <2>5. issued \in 1..1 + scene.logins /\ now \in 0..scene.saves
    <3>1. issued \in Nat \ {0} /\ now \in Nat
      BY <2>1 DEF TypeInv, ServerType
    <3>2. issued <= 1 + used.logins /\ now <= used.saves
      BY <2>1, <2>3, <2>4, <3>1 DEF BoundsInv
    <3> QED
      BY <2>3, <3>1, <3>2
  <2>6. settings \in Settings /\ stamp \in [Fields -> 0..now] /\ expired \subseteq 1..issued
    BY <2>1 DEF TypeInv, ServerType, CopiesInv
  <2>7. token \in 0..issued /\ place \in [Tabs -> Places]
    BY <2>1 DEF TypeInv, ServerType, SessionType, TokensInv
  <2>8. ASSUME NEW t \in Tabs
        PROVE  /\ signin[t].at \in {"idle", "right", "wrong", "ok", "refused", "failed"}
               /\ poll[t].at \in {"idle", "asked", "refused", "failed"}
               /\ load[t].at \in {"idle", "asked", "ok", "refused", "failed"}
               /\ {signin[t].token, poll[t].token, load[t].token} \subseteq 0..issued
               /\ load[t].snap \in Settings /\ load[t].asOf \in 0..now
               /\ cache[t].data \in Settings /\ cache[t].asOf \in 0..now
               /\ cache[t].has \in BOOLEAN /\ cache[t].failed \in BOOLEAN
    <3>1. /\ signin[t].token \in Nat /\ poll[t].token \in Nat /\ load[t].token \in Nat
          /\ load[t].asOf \in Nat /\ cache[t].asOf \in Nat
      BY <2>1 DEF TypeInv, SessionType, EditingType, Calls, Loads, Caches
    <3>2. {signin[t].token, poll[t].token, load[t].token} \subseteq 0..issued
      BY <2>1, <3>1 DEF TokensInv, Spent, TypeInv, ServerType
    <3>3. load[t].asOf \in 0..now /\ cache[t].asOf \in 0..now
      BY <2>1, <3>1 DEF CopiesInv, Copy, TypeInv, ServerType
    <3> QED
      BY <2>1, <3>2, <3>3 DEF TypeInv, SessionType, EditingType, Calls, Loads, Caches, Ends
  <2>9. ASSUME NEW t \in Tabs, form[t].open
        PROVE  /\ place[t] \in {"settings", "leaving"} /\ cache[t].has
               /\ form[t].local \in Settings /\ form[t].touched \subseteq Fields
               /\ form[t].raw \in Thresholds \cup Invalid /\ form[t].focus \in BOOLEAN
               /\ form[t].saving \in {0} \cup {n \in DOMAIN saves : saves[n].tab = t}
    BY <2>1, <2>9 DEF TypeInv, EditingType, Forms, FormsInv, Follows, SavesInv
  <2>10. ASSUME NEW n \in DOMAIN saves
         PROVE  /\ n \in 1..used.saves /\ saves[n].tab \in Tabs \cup {"none"}
                /\ saves[n].to \in Settings /\ saves[n].touched \subseteq Fields
                /\ saves[n].asOf \in 0..now /\ saves[n].token \in 0..issued
                /\ saves[n].at \in {"asked", "ok", "refused", "failed"}
    <3>1. saves[n] \in SaveRecords
      BY <2>1 DEF TypeInv, EditingType
    <3>2. saves[n].asOf \in 0..now /\ saves[n].token \in 0..issued
      BY <2>1, <3>1 DEF CopiesInv, TokensInv, Spent, SaveRecords, TypeInv, ServerType
    <3> QED
      BY <2>1, <3>1, <3>2 DEF SavesInv, SaveRecords, Ends
  <2>11. misjudged \in BOOLEAN /\ blind \in BOOLEAN
    BY <2>1 DEF TypeInv, ServerType
  <2> QED
    BY <2>2, <2>5, <2>6, <2>7, <2>8, <2>9, <2>10, <2>11 DEF TypeOK
<1> QED
  BY <1>1, Invariant, PTL

\* The answer to a request that carried a valid token never removes that
\* token, whatever fails (TokenNotMisjudged): a refusal means that the token
\* has expired, and none becomes valid again.
THEOREM TokensRespected == Spec => []TokenNotMisjudged
<1>1. Inv => TokenNotMisjudged
  BY DEF Inv, TokensInv, TokenNotMisjudged
<1> QED
  BY <1>1, Invariant, PTL

\* A save puts a field back that the operator has not touched only if it was
\* changed after the tab read it (RevertsOnlyUnseen).
THEOREM NothingPutBack == Spec => []RevertsOnlyUnseen
<1>1. Inv => RevertsOnlyUnseen
  BY DEF Inv, CopiesInv, RevertsOnlyUnseen
<1> QED
  BY <1>1, Invariant, PTL

\* A number field that is not being edited shows the number that saving
\* sends, or a positive number out of the range (ShownIsSent).
THEOREM FieldShowsNumber == Spec => []ShownIsSent
<1>1. Inv => ShownIsSent
  BY DEF Inv, FormsInv, Follows, ShownIsSent, Shown
<1> QED
  BY <1>1, Invariant, PTL
=============================================================================
