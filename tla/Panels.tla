------------------------------- MODULE Panels -------------------------------
(***************************************************************************)
(* What the dashboard shows about a question the operator may change while *)
(* it is being answered:                                                   *)
(*   - "logs": the pages of the log search (LogViewer.tsx), filtered, kept *)
(*     in the query cache by filter and page, while lines arrive and age;  *)
(*   - "explain": the AI's explanation of a line (LogViewer.tsx);          *)
(*   - "summary": the AI's summary of the alerts (AlertHistory.tsx);       *)
(*   - "report": the preview of a month's report, which can be mailed      *)
(*     (MonthlyReport.tsx).                                                *)
(* The four share no state, so a behaviour is about one of them.           *)
(*                                                                         *)
(* A page holds one line.  The lines that match a filter are the numbers   *)
(* of a window lo..hi, the newest first on page 0.  The five minutes after *)
(* which the cache drops a query are longer than a behaviour.              *)
(***************************************************************************)
EXTENDS Naturals, FiniteSets, Functions, TLC

CONSTANTS
  PanelsSeen,  \* the panels looked at, a subset of AllPanels
  Filters,     \* settings of host, source, level, rule, text and range
  FirstWindow, \* filter -> the lines that match it in the beginning
  Moving,      \* bound: filters that gain and lose lines
  LastPage,    \* bound: the last page looked at
  LastLine,    \* bound: the newest line of a filter
  LastGone,    \* bound: the last line of a filter that goes
  Topics,      \* lines to explain, ranges to sum up, months to report
  MaxCalls,    \* bound: questions asked
  MaxFaults    \* bound: failing fetches and calls

AllPanels == {"logs", "explain", "summary", "report"}
NoTopic == "none"
NoData == [hi |-> 0, lo |-> 1]

ASSUME PanelsAssumption ==
  /\ PanelsSeen \subseteq AllPanels /\ Moving \subseteq Filters
  /\ FirstWindow \in [Filters -> [hi : 0..LastLine, lo : {1}]]
  /\ LastPage \in Nat /\ LastLine \in Nat \ {0} /\ LastGone \in 0..LastLine
  /\ MaxCalls \in Nat \ {0} /\ MaxFaults \in Nat
  /\ NoTopic \notin Topics

VARIABLES
  panel,     \* the panel of this behaviour
  faults,
  \* the log search
  window,    \* the server's lines that match each filter
  filter, pageNo,
  cache,     \* the query cache: <<filter, page>> -> data and fetch
  typed,     \* history: the text was changed since the page was last set to 0
  shrunk,    \* history: filters that have lost a line
  turn,      \* history: the line shown when "next page" was clicked, or 0
  joined,    \* history: when the page shown was turned to, a fetch of it was
             \* already under way, and none was started since
  \* a question and its answer
  choice,    \* the line, range or month that is chosen
  open,      \* its dialog is open (always for the report)
  answer,    \* the topic of the answer that is kept, or NoTopic
  error, loading,
  calls,     \* number of a call under way -> its topic
  asked,     \* number of calls made
  overlap,   \* history: the latest call was made while another was under way
  mailing,   \* the month of the mail under way, or NoTopic
  sent       \* history: months mailed, with what the page showed

logVars == <<window, filter, pageNo, cache, typed, shrunk, turn, joined>>
askVars == <<choice, open, answer, error, loading, calls, asked, overlap, mailing, sent>>
vars == <<panel, faults, logVars, askVars>>

-----------------------------------------------------------------------------
(* The log search.                                                         *)

Keys == Filters \X (0..LastPage)
Key == <<filter, pageNo>>

Total(d) == IF d.hi < d.lo THEN 0 ELSE d.hi - d.lo + 1
Line(d, p) == IF p < Total(d) THEN d.hi - p ELSE 0
Shown == cache[Key].data

\* A query that is observed anew is fetched, whatever the cache holds, unless
\* its fetch is under way.  Mutant: what the cache holds is fresh.
ObserveCached(k) ==
  IF cache[k].fetch = "idle" /\ cache[k].data = NoData
  THEN [cache EXCEPT ![k].fetch = "asked"] ELSE cache
Observe(k) ==
  IF cache[k].fetch = "idle" THEN [cache EXCEPT ![k].fetch = "asked"] ELSE cache

\* Another page or filter is shown next; the query follows it.
GoTo(f, p) ==
  /\ filter' = f /\ pageNo' = p
  /\ cache' = Observe(<<f, p>>)
  /\ joined' = (p > 0 /\ cache[<<f, p>>].fetch # "idle")

\* Host, source, level, rule, range, the chips and a rule's badge.
\* Mutant: the page is kept.
SelectFilterStay(f) ==
  /\ panel = "logs" /\ f # filter /\ GoTo(f, pageNo)
  /\ typed' = FALSE /\ turn' = 0
  /\ UNCHANGED <<panel, faults, window, shrunk, askVars>>
SelectFilter(f) ==
  /\ panel = "logs" /\ f # filter /\ GoTo(f, 0)
  /\ typed' = FALSE /\ turn' = 0
  /\ UNCHANGED <<panel, faults, window, shrunk, askVars>>

\* Typing in the search field keeps the page.
TypeText(f) ==
  /\ panel = "logs" /\ f # filter /\ GoTo(f, pageNo)
  /\ typed' = TRUE /\ turn' = 0
  /\ UNCHANGED <<panel, faults, window, shrunk, askVars>>

\* setPage(0) and refetch, which is the query of the page shown until then.
HandleSearch ==
  LET k == Key
      restarted == IF cache[k].fetch = "idle" \/ cache[k].data # NoData
                   THEN [cache EXCEPT ![k].fetch = "asked", ![k].snap = NoData] ELSE cache
      zero == <<filter, 0>> IN
  /\ panel = "logs"
  /\ pageNo' = 0 /\ UNCHANGED filter
  /\ cache' = IF restarted[zero].fetch = "idle"
              THEN [restarted EXCEPT ![zero].fetch = "asked"] ELSE restarted
  /\ typed' = FALSE /\ turn' = 0 /\ joined' = FALSE
  /\ UNCHANGED <<panel, faults, window, shrunk, askVars>>

\* The pages' buttons are shown while there is more than one page.
PrevPage ==
  /\ panel = "logs" /\ Total(Shown) > 1 /\ pageNo > 0
  /\ GoTo(filter, pageNo - 1)
  /\ turn' = 0
  /\ UNCHANGED <<panel, faults, window, typed, shrunk, askVars>>

NextPage ==
  /\ panel = "logs" /\ Total(Shown) > 1 /\ pageNo < Total(Shown) - 1 /\ pageNo < LastPage
  /\ GoTo(filter, pageNo + 1)
  /\ turn' = Line(Shown, pageNo)
  /\ UNCHANGED <<panel, faults, window, typed, shrunk, askVars>>

AutoRefresh ==
  /\ panel = "logs" /\ cache[Key].fetch = "idle"
  /\ cache' = [cache EXCEPT ![Key].fetch = "asked"]
  /\ joined' = FALSE
  /\ UNCHANGED <<panel, faults, window, filter, pageNo, typed, shrunk, turn, askVars>>

\* searchLogs: the server answers with a page and the total.
SearchRead(k) ==
  /\ panel = "logs" /\ cache[k].fetch = "asked"
  /\ cache' = [cache EXCEPT ![k].fetch = "read", ![k].snap = window[k[1]]]
  /\ UNCHANGED <<panel, faults, window, filter, pageNo, typed, shrunk, turn, joined, askVars>>

SearchDone(k) ==
  /\ panel = "logs" /\ cache[k].fetch = "read"
  /\ cache' = [cache EXCEPT ![k] = [data |-> cache[k].snap, fetch |-> "idle",
                                    snap |-> NoData, failed |-> FALSE]]
  /\ UNCHANGED <<panel, faults, window, filter, pageNo, typed, shrunk, turn, joined, askVars>>

SearchFails(k) ==
  /\ panel = "logs" /\ cache[k].fetch # "idle" /\ faults < MaxFaults
  /\ faults' = faults + 1
  /\ cache' = [cache EXCEPT ![k].fetch = "idle", ![k].snap = NoData, ![k].failed = TRUE]
  /\ UNCHANGED <<panel, window, filter, pageNo, typed, shrunk, turn, joined, askVars>>

Arrive(f) ==
  /\ panel = "logs" /\ f \in Moving /\ window[f].hi < LastLine
  /\ window' = [window EXCEPT ![f].hi = @ + 1]
  /\ UNCHANGED <<panel, faults, filter, pageNo, cache, typed, shrunk, turn, joined, askVars>>

\* A line leaves the range of time, or the table.
Age(f) ==
  /\ panel = "logs" /\ f \in Moving /\ window[f].lo < LastGone + 1
  /\ window' = [window EXCEPT ![f].lo = @ + 1]
  /\ shrunk' = shrunk \cup {f}
  /\ UNCHANGED <<panel, faults, filter, pageNo, cache, typed, turn, joined, askVars>>

-----------------------------------------------------------------------------
(* Questions.  No call is ever cancelled.                                  *)

Call(topic) ==
  /\ asked < MaxCalls /\ asked' = asked + 1
  /\ calls' = [n \in DOMAIN calls \cup {asked'} |-> IF n = asked' THEN topic ELSE calls[n]]
  /\ overlap' = (calls # << >>)
  /\ loading' = TRUE /\ error' = FALSE
  /\ UNCHANGED <<panel, faults, logVars, mailing, sent>>

\* handleExplain: a line's button, which the dialog covers while it is open.
\* Mutant: the explanation of the line before stays.
HandleExplainKeep(line) ==
  /\ panel = "explain" /\ ~open
  /\ choice' = line /\ open' = TRUE /\ UNCHANGED answer
  /\ Call(line)
HandleExplain(line) ==
  /\ panel = "explain" /\ ~open
  /\ choice' = line /\ open' = TRUE /\ answer' = NoTopic
  /\ Call(line)

\* The summary's button is disabled while one is being made.
HandleSummary ==
  /\ panel = "summary" /\ ~open /\ ~loading
  /\ open' = TRUE /\ answer' = NoTopic /\ UNCHANGED choice
  /\ Call(choice)

SetRange(range) ==
  /\ panel = "summary" /\ ~open /\ range # choice
  /\ choice' = range
  /\ UNCHANGED <<panel, faults, logVars, open, answer, error, loading, calls, asked,
                 overlap, mailing, sent>>

CloseDialog ==
  /\ panel \in {"explain", "summary"} /\ open
  /\ open' = FALSE
  /\ UNCHANGED <<panel, faults, logVars, choice, answer, error, loading, calls, asked,
                 overlap, mailing, sent>>

\* Choosing a month: the effect on year and month loads its preview, and the
\* one before is kept until then.
LoadPreview(month) ==
  /\ panel = "report" /\ month # choice
  /\ choice' = month /\ UNCHANGED <<open, answer>>
  /\ Call(month)

Answered(n) ==
  /\ answer' = calls[n] /\ loading' = FALSE
  /\ calls' = Restrict(calls, DOMAIN calls \ {n})
  /\ UNCHANGED <<panel, faults, logVars, choice, open, error, asked, overlap, mailing, sent>>

\* Mutant: a failed call of an explanation leaves the sign of loading.
CallFailsLoading(n) ==
  /\ faults < MaxFaults /\ faults' = faults + 1
  /\ error' = TRUE /\ loading' = (panel = "explain")
  /\ answer' = IF panel = "report" THEN NoTopic ELSE answer
  /\ calls' = Restrict(calls, DOMAIN calls \ {n})
  /\ UNCHANGED <<panel, logVars, choice, open, asked, overlap, mailing, sent>>
CallFails(n) ==
  /\ faults < MaxFaults /\ faults' = faults + 1
  /\ error' = TRUE /\ loading' = FALSE
  /\ answer' = IF panel = "report" THEN NoTopic ELSE answer
  /\ calls' = Restrict(calls, DOMAIN calls \ {n})
  /\ UNCHANGED <<panel, logVars, choice, open, asked, overlap, mailing, sent>>

\* The preview is hidden while one is loading; the other two show what they
\* have beside the sign of loading.
Visible == IF panel = "report" /\ loading THEN NoTopic ELSE answer

\* handleSend sends the month that is chosen.  Mutant: also while a preview
\* is loading.
HandleSendLoading ==
  /\ panel = "report" /\ mailing = NoTopic /\ answer # NoTopic
  /\ mailing' = choice /\ error' = FALSE
  /\ sent' = sent \cup {[month |-> choice, shown |-> Visible, overlap |-> overlap]}
  /\ UNCHANGED <<panel, faults, logVars, choice, open, answer, loading, calls, asked, overlap>>
HandleSend ==
  /\ panel = "report" /\ mailing = NoTopic /\ ~loading /\ answer # NoTopic
  /\ mailing' = choice /\ error' = FALSE
  /\ sent' = sent \cup {[month |-> choice, shown |-> Visible, overlap |-> overlap]}
  /\ UNCHANGED <<panel, faults, logVars, choice, open, answer, loading, calls, asked, overlap>>

MailDone(failing) ==
  /\ mailing # NoTopic /\ mailing' = NoTopic
  /\ faults' = IF failing THEN faults + 1 ELSE faults
  /\ faults' <= MaxFaults
  /\ error' = (failing \/ error)
  /\ UNCHANGED <<panel, logVars, choice, open, answer, loading, calls, asked, overlap, sent>>

-----------------------------------------------------------------------------
Init ==
  /\ panel \in PanelsSeen /\ faults = 0
  /\ window = FirstWindow
  /\ filter \in Filters /\ pageNo = 0
  /\ cache = [k \in Keys |-> [data |-> NoData, snap |-> NoData, failed |-> FALSE,
                fetch |-> IF panel = "logs" /\ k = Key THEN "asked" ELSE "idle"]]
  /\ typed = FALSE /\ shrunk = {} /\ turn = 0 /\ joined = FALSE
  /\ choice \in Topics
  /\ open = (panel = "report") /\ answer = NoTopic /\ error = FALSE
  /\ loading = (panel = "report")
  /\ asked = (IF panel = "report" THEN 1 ELSE 0) /\ calls = [n \in 1..asked |-> choice]
  /\ overlap = FALSE /\ mailing = NoTopic /\ sent = {}

LogNext ==
  \/ \E f \in Filters : SelectFilter(f) \/ TypeText(f) \/ Arrive(f) \/ Age(f)
  \/ HandleSearch \/ PrevPage \/ NextPage \/ AutoRefresh
  \/ \E k \in Keys : SearchRead(k) \/ SearchDone(k) \/ SearchFails(k)

AskNext ==
  \/ \E topic \in Topics : HandleExplain(topic) \/ SetRange(topic) \/ LoadPreview(topic)
  \/ HandleSummary \/ CloseDialog \/ HandleSend
  \/ \E n \in DOMAIN calls : Answered(n) \/ CallFails(n)
  \/ \E failing \in BOOLEAN : MailDone(failing)

Next == LogNext \/ AskNext

Spec == Init /\ [][Next]_vars

-----------------------------------------------------------------------------
(* Properties.                                                             *)

TypeOK ==
  /\ panel \in PanelsSeen /\ faults \in 0..MaxFaults
  /\ \A f \in Filters : window[f].hi \in 0..LastLine /\ window[f].lo \in 1..LastLine + 1
  /\ filter \in Filters /\ pageNo \in 0..LastPage
  /\ \A k \in Keys :
       /\ cache[k].fetch \in {"idle", "asked", "read"} /\ cache[k].failed \in BOOLEAN
       /\ cache[k].fetch # "read" => cache[k].snap = NoData
       /\ \A d \in {cache[k].data, cache[k].snap} : d.hi \in 0..LastLine /\ d.lo \in 1..LastLine + 1
  /\ typed \in BOOLEAN /\ shrunk \subseteq Filters
  /\ turn \in 0..LastLine /\ joined \in BOOLEAN
  /\ choice \in Topics /\ answer \in Topics \cup {NoTopic} /\ mailing \in Topics \cup {NoTopic}
  /\ {open, error, loading, overlap} \subseteq BOOLEAN
  /\ DOMAIN calls \subseteq 1..asked /\ asked \in 0..MaxCalls
  /\ loading => calls # << >>

\* The page shown exists: a page beyond the last one, which has no lines and
\* no buttons to leave it, is shown only after the search text was changed
\* without searching, after lines have gone, or as the late answer of a fetch
\* that was under way before the page was turned to (setPage(0) in every
\* handler that changes the filter).
PageReachable ==
  cache[Key].fetch = "idle" /\ ~cache[Key].failed /\ pageNo > 0 /\ pageNo >= Total(Shown)
    => typed \/ filter \in shrunk \/ joined

\* Going to the next page skips no line, however many lines arrived and
\* whatever older copies of that page the cache held, once a fetch that the
\* click or a refresh after it started has been answered.
PagingSkipsNothing ==
  turn > 0 /\ ~joined /\ cache[Key].fetch = "idle" /\ ~cache[Key].failed /\ Line(Shown, pageNo) # 0
    => Line(Shown, pageNo) >= turn - 1

\* The explanation, summary or preview on the screen is that of the line,
\* range or month on the screen.  Only for lines and months, whose buttons
\* are never disabled, and only when two calls were under way at once may it
\* be that of another.
AnswerOfQuestion ==
  open /\ Visible # NoTopic =>
    Visible = choice \/ (panel # "summary" /\ overlap)

\* The month that is mailed is the month whose preview is shown, unless two
\* previews were loading at once (disabled={... loading || !report}).
SentWasShown == \A s \in sent : s.month = s.shown \/ s.overlap
=============================================================================
