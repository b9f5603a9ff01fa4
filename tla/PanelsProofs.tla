---------------------------- MODULE PanelsProofs ----------------------------
(***************************************************************************)
(* Proofs about Panels, for every set of filters and topics and every      *)
(* bound: that the log search never leads to an empty page or past a line  *)
(* by itself, and that an answer belongs to the question it is shown       *)
(* under.  The search and the questions share no state, so each half has   *)
(* an inductive invariant of its own.                                      *)
(***************************************************************************)
EXTENDS Panels, TLAPS

Windows == [hi : 0..LastLine, lo : 1..LastLine + 1]
Fetches == {"idle", "asked", "read"}
Entries == [data : Windows, snap : Windows, failed : BOOLEAN, fetch : Fetches]

-----------------------------------------------------------------------------
(* The log search: its inductive invariant.                                *)

SearchType ==
  /\ window \in [Filters -> Windows]
  /\ filter \in Filters /\ pageNo \in 0..LastPage
  /\ cache \in [Keys -> Entries]
  /\ typed \in BOOLEAN /\ joined \in BOOLEAN /\ shrunk \subseteq Filters
  /\ turn \in 0..LastLine
  /\ \A k \in Keys : cache[k].fetch # "read" => cache[k].snap = NoData

\* d is an earlier state of the lines of filter f: it has no newer line, and
\* it begins with the first line unless lines have gone.
Earlier(d, f) == d.hi <= window[f].hi /\ (f \notin shrunk => d.lo = 1)

Copies ==
  /\ \A f \in Filters : f \notin shrunk => window[f].lo = 1
  /\ \A k \in Keys : Earlier(cache[k].data, k[1]) /\ Earlier(cache[k].snap, k[1])

\* The line n exists, also for the answers the page shown is to be made of.
Reaches(n) ==
  LET c == cache[Key] IN
  /\ n <= window[filter].hi
  /\ ~joined /\ c.fetch = "read" => n <= c.snap.hi
  /\ ~joined /\ c.fetch = "idle" /\ ~c.failed => n <= c.data.hi

\* As long as its text and its lines are left alone, a filter has the page
\* shown.
PageExists ==
  pageNo > 0 /\ ~typed /\ filter \notin shrunk => Reaches(pageNo + 1)

\* Page 0 began with line turn + pageNo - 1, or a newer one, when the button
\* was clicked.
TurnKept == turn > 0 => Reaches(turn + pageNo - 1)

SearchInv == SearchType /\ Copies /\ PageExists /\ TurnKept

LEMMA KeyFact ==
  ASSUME SearchType
  PROVE  Key \in Keys /\ Key[1] = filter /\ cache[Key] \in Entries
BY DEF SearchType, Key, Keys

\* What the query cache is after a query is observed.
LEMMA ObserveFacts ==
  ASSUME SearchType, NEW k \in Keys
  PROVE  /\ Observe(k) \in [Keys -> Entries]
         /\ \A j \in Keys :
              /\ Observe(k)[j].data = cache[j].data
              /\ Observe(k)[j].snap = cache[j].snap
              /\ Observe(k)[j].failed = cache[j].failed
              /\ j # k => Observe(k)[j].fetch = cache[j].fetch
         /\ cache[k].fetch = "idle" => Observe(k)[k].fetch = "asked"
         /\ cache[k].fetch # "idle" => Observe(k)[k].fetch = cache[k].fetch
BY DEF SearchType, Observe, Entries, Fetches

LEMMA SearchInit == Init => SearchInv
<1> SUFFICES ASSUME Init PROVE SearchInv
  OBVIOUS
<1>1. NoData \in Windows /\ FirstWindow \in [Filters -> Windows]
  BY PanelsAssumption DEF NoData, Windows
<1>2. SearchType
  <2>1. cache \in [Keys -> Entries]
    BY <1>1 DEF Init, Entries, Fetches
  <2>2. \A k \in Keys : cache[k].snap = NoData
    BY DEF Init
  <2>3. window \in [Filters -> Windows] /\ filter \in Filters /\ pageNo \in 0..LastPage
    BY <1>1, PanelsAssumption DEF Init
  <2>4. typed \in BOOLEAN /\ joined \in BOOLEAN /\ shrunk \subseteq Filters /\ turn \in 0..LastLine
    <3>1. 0 \in 0..LastLine
      BY PanelsAssumption
    <3> QED
      BY <3>1 DEF Init
  <2> QED
    BY <2>1, <2>2, <2>3, <2>4 DEF SearchType
<1>3. \A k \in Keys : k[1] \in Filters /\ cache[k].data = NoData /\ cache[k].snap = NoData
  BY DEF Init, Keys
<1>4. \A f \in Filters : window[f].lo = 1 /\ window[f].hi >= 0
  BY PanelsAssumption DEF Init
<1>5. Copies
  BY <1>3, <1>4 DEF Copies, Earlier, NoData
<1>6. pageNo = 0 /\ turn = 0
  BY DEF Init
<1> QED
  BY <1>2, <1>5, <1>6 DEF SearchInv, PageExists, TurnKept

-----------------------------------------------------------------------------
(* The log search: its steps.                                              *)

\* The operator turns to page p of filter f.
LEMMA GoToKeeps ==
  ASSUME SearchInv, NEW f \in Filters, NEW p \in 0..LastPage, GoTo(f, p),
         UNCHANGED <<window, shrunk>>, typed' \in BOOLEAN, turn' \in 0..LastLine,
         p > 0 /\ ~typed' /\ f \notin shrunk => p + 1 <= window[f].hi,
         turn' > 0 => p > 0 /\ turn' + p - 1 <= window[f].hi
  PROVE  SearchInv'
<1> DEFINE k == <<f, p>>
<1>1. SearchType /\ Copies /\ k \in Keys
  BY DEF SearchInv, Keys
<1>2. cache' = Observe(k) /\ Key' = k /\ filter' = f /\ pageNo' = p
  BY DEF GoTo, Key
<1>3. joined' \in BOOLEAN /\ (p > 0 /\ cache[k].fetch # "idle" => joined')
  BY DEF GoTo
<1>4. SearchType'
  <2>1. cache' \in [Keys -> Entries]
    BY <1>1, <1>2, ObserveFacts
  <2>2. \A j \in Keys : cache'[j].fetch # "read" => cache'[j].snap = NoData
    <3> SUFFICES ASSUME NEW j \in Keys, cache'[j].fetch # "read" PROVE cache'[j].snap = NoData
      OBVIOUS
    <3>1. cache[j].fetch # "read" /\ cache'[j].snap = cache[j].snap
      BY <1>1, <1>2, ObserveFacts
    <3> QED
      BY <1>1, <3>1 DEF SearchType
  <2> QED
    BY <1>1, <1>2, <1>3, <2>1, <2>2 DEF SearchType
<1>5. Copies'
  BY <1>1, <1>2, ObserveFacts DEF Copies, Earlier, Keys
<1>6. p > 0 /\ ~joined' => cache'[k].fetch = "asked"
  BY <1>1, <1>2, <1>3, ObserveFacts
<1>7. PageExists' /\ TurnKept'
  BY <1>2, <1>6 DEF PageExists, TurnKept, Reaches
<1> QED
  BY <1>4, <1>5, <1>7 DEF SearchInv

\* What the pages' buttons need to know of the page shown.
LEMMA ShownFacts ==
  ASSUME SearchInv
  PROVE  /\ Shown.hi \in 0..LastLine /\ Shown.lo \in 1..LastLine + 1
         /\ Shown.hi <= window[filter].hi
         /\ window[filter].hi \in 0..LastLine
         /\ Total(Shown) \in Nat /\ LastLine \in Nat /\ pageNo \in Nat
         /\ \A n \in Nat : n < Total(Shown) => n < Shown.hi
<1>1. SearchType /\ Copies /\ Key \in Keys /\ Key[1] = filter /\ cache[Key] \in Entries
  BY KeyFact DEF SearchInv
<1>2. LastLine \in Nat /\ LastPage \in Nat
  BY PanelsAssumption
<1>3. Shown.hi \in 0..LastLine /\ Shown.lo \in 1..LastLine + 1
  BY <1>1 DEF Shown, Entries, Windows
<1>4. Shown.hi <= window[filter].hi /\ window[filter].hi \in 0..LastLine
  BY <1>1 DEF Copies, Earlier, Shown, SearchType, Windows
<1>5. pageNo \in Nat
  BY <1>1, <1>2 DEF SearchType
<1> HIDE DEF Shown
<1> QED
  BY <1>2, <1>3, <1>4, <1>5 DEF Total

LEMMA SelectFilterKeeps ==
  ASSUME SearchInv, NEW f \in Filters, SelectFilter(f)
  PROVE  SearchInv'
<1>1. 0 \in 0..LastPage /\ 0 \in 0..LastLine
  BY PanelsAssumption
<1>2. GoTo(f, 0) /\ UNCHANGED <<window, shrunk>> /\ typed' = FALSE /\ turn' = 0
  BY DEF SelectFilter
<1>3. ~(0 > 0)
  OBVIOUS
<1> QED
  BY <1>1, <1>2, <1>3, GoToKeeps, Zenon

LEMMA TypeTextKeeps ==
  ASSUME SearchInv, NEW f \in Filters, TypeText(f)
  PROVE  SearchInv'
<1>1. pageNo \in 0..LastPage /\ 0 \in 0..LastLine
  BY PanelsAssumption DEF SearchInv, SearchType
<1>2. GoTo(f, pageNo) /\ UNCHANGED <<window, shrunk>> /\ typed' = TRUE /\ turn' = 0
  BY DEF TypeText
<1> QED
  BY <1>1, <1>2, GoToKeeps

LEMMA PrevPageKeeps ==
  ASSUME SearchInv, PrevPage
  PROVE  SearchInv'
<1>1. SearchType /\ PageExists
  BY DEF SearchInv
<1>2. pageNo - 1 \in 0..LastPage /\ 0 \in 0..LastLine /\ pageNo > 0
  <2>1. pageNo \in 0..LastPage /\ pageNo > 0
    BY <1>1 DEF PrevPage, SearchType
  <2> QED
    BY <2>1, PanelsAssumption
<1>3. GoTo(filter, pageNo - 1) /\ UNCHANGED <<window, shrunk, typed>> /\ turn' = 0
  BY DEF PrevPage
<1>4. filter \in Filters /\ typed \in BOOLEAN /\ pageNo \in Nat
  BY <1>1, <1>2 DEF SearchType
<1>5. pageNo > 0 /\ ~typed /\ filter \notin shrunk => pageNo + 1 <= window[filter].hi
  BY <1>1 DEF PageExists, Reaches
<1>6. ~typed' /\ filter \notin shrunk => (pageNo - 1) + 1 <= window[filter].hi
  BY <1>2, <1>3, <1>4, <1>5, ShownFacts
<1> QED
  BY <1>2, <1>3, <1>4, <1>6, GoToKeeps

LEMMA NextPageKeeps ==
  ASSUME SearchInv, NextPage
  PROVE  SearchInv'
<1>1. filter \in Filters /\ typed \in BOOLEAN /\ pageNo \in 0..LastPage
  BY DEF SearchInv, SearchType
<1>2. GoTo(filter, pageNo + 1) /\ UNCHANGED <<window, shrunk, typed>>
  BY DEF NextPage
<1>3. pageNo + 1 \in 0..LastPage
  BY <1>1, PanelsAssumption DEF NextPage
<1>4. pageNo + 1 < Total(Shown) /\ turn' = Line(Shown, pageNo)
  BY <1>1, PanelsAssumption, ShownFacts DEF NextPage
<1>5. turn' = Shown.hi - pageNo /\ pageNo + 1 < Shown.hi
  BY <1>1, <1>4, ShownFacts DEF Line
<1>6. turn' \in 0..LastLine /\ turn' + (pageNo + 1) - 1 <= window[filter].hi
      /\ (pageNo + 1) + 1 <= window[filter].hi /\ pageNo + 1 > 0
  BY <1>5, ShownFacts
<1> QED
  BY <1>1, <1>2, <1>3, <1>6, GoToKeeps

\* A fetch of the page shown starts, or one of another page changes state:
\* what the other steps on the query cache have in common.
LEMMA FetchKeeps ==
  ASSUME SearchInv, NEW k \in Keys, NEW e \in Entries,
         cache' = [cache EXCEPT ![k] = e],
         UNCHANGED <<window, filter, pageNo, typed, shrunk, turn>>, joined' \in BOOLEAN,
         k # Key => joined' = joined,
         Earlier(e.data, k[1]) /\ Earlier(e.snap, k[1]), e.fetch # "read" => e.snap = NoData,
         k = Key => \A n \in Nat : Reaches(n) =>
           /\ ~joined' /\ e.fetch = "read" => n <= e.snap.hi
           /\ ~joined' /\ e.fetch = "idle" /\ ~e.failed => n <= e.data.hi
  PROVE  SearchInv'
<1>1. SearchType /\ Copies /\ PageExists /\ TurnKept
  BY DEF SearchInv
<1>2. Key' = Key /\ Key \in Keys
  BY KeyFact, <1>1 DEF Key
<1>3. SearchType'
  BY <1>1 DEF SearchType
<1>4. Copies'
  BY <1>1 DEF Copies, Earlier, SearchType, Keys
<1>5. \A n \in Nat : Reaches(n) => Reaches(n)'
  <2> SUFFICES ASSUME NEW n \in Nat, Reaches(n) PROVE Reaches(n)'
    OBVIOUS
  <2>1. CASE k = Key
    <3>1. cache'[Key'] = e
      BY <1>1, <1>2, <2>1 DEF SearchType
    <3> QED
      BY <2>1, <3>1 DEF Reaches
  <2>2. CASE k # Key
    <3>1. cache'[Key'] = cache[Key]
      BY <1>1, <1>2, <2>2 DEF SearchType
    <3> QED
      BY <2>2, <3>1 DEF Reaches
  <2> QED
    BY <2>1, <2>2
<1>6. pageNo \in Nat /\ turn \in Nat
  BY <1>1, PanelsAssumption DEF SearchType
<1>7. PageExists'
  BY <1>1, <1>5, <1>6 DEF PageExists
<1>8. TurnKept'
  BY <1>1, <1>5, <1>6 DEF TurnKept
<1> QED
  BY <1>3, <1>4, <1>7, <1>8 DEF SearchInv

LEMMA SearchStepsKeep ==
  ASSUME SearchInv, NEW k \in Keys,
         SearchRead(k) \/ SearchDone(k) \/ SearchFails(k)
  PROVE  SearchInv'
<1> DEFINE c == cache[k]
           w == window[k[1]]
<1>1. SearchType /\ Copies
  BY DEF SearchInv
<1>2. /\ c \in Entries /\ w \in Windows /\ NoData \in Windows
      /\ Earlier(c.data, k[1]) /\ Earlier(c.snap, k[1])
      /\ Earlier(w, k[1]) /\ Earlier(NoData, k[1])
  <2>1. k[1] \in Filters
    BY DEF Keys
  <2>2. w \in Windows /\ NoData \in Windows /\ LastLine \in Nat
    BY <1>1, <2>1, PanelsAssumption DEF SearchType, Windows, NoData
  <2>3. w.hi \in Nat
    BY <2>2 DEF Windows
  <2>4. Earlier(w, k[1]) /\ Earlier(NoData, k[1])
    BY <1>1, <2>1, <2>3 DEF Copies, Earlier, NoData
  <2> QED
    BY <1>1, <2>2, <2>4 DEF SearchType, Copies
<1>3. k = Key => k[1] = filter
  BY DEF Key
<1>4. CASE SearchRead(k)
  <2> DEFINE e == [c EXCEPT !.fetch = "read", !.snap = w]
  <2>1. e \in Entries /\ e.data = c.data /\ e.snap = w /\ e.fetch = "read"
    BY <1>2 DEF Entries, Fetches
  <2>2. cache' = [cache EXCEPT ![k] = e]
    BY <1>1, <1>4 DEF SearchRead, SearchType, Entries
  <2>3. k = Key => \A n \in Nat : Reaches(n) => n <= e.snap.hi
    BY <1>3, <2>1 DEF Reaches
  <2> HIDE DEF e
  <2>4. UNCHANGED <<window, filter, pageNo, typed, shrunk, turn, joined>> /\ joined' \in BOOLEAN
    BY <1>1, <1>4 DEF SearchRead, SearchType
  <2> QED
    BY <1>2, <2>1, <2>2, <2>3, <2>4, FetchKeeps
<1>5. CASE SearchDone(k)
  <2> DEFINE e == [data |-> c.snap, fetch |-> "idle", snap |-> NoData, failed |-> FALSE]
  <2>1. e \in Entries /\ e.data = c.snap /\ e.snap = NoData /\ e.fetch = "idle"
    BY <1>2 DEF Entries, Fetches
  <2>2. cache' = [cache EXCEPT ![k] = e]
    BY <1>5 DEF SearchDone
  <2>3. k = Key => \A n \in Nat : Reaches(n) => (~joined => n <= e.data.hi)
    BY <1>5, <2>1 DEF Reaches, SearchDone
  <2> HIDE DEF e
  <2>4. UNCHANGED <<window, filter, pageNo, typed, shrunk, turn, joined>> /\ joined' \in BOOLEAN
    BY <1>1, <1>5 DEF SearchDone, SearchType
  <2> QED
    BY <1>2, <2>1, <2>2, <2>3, <2>4, FetchKeeps
<1>6. CASE SearchFails(k)
  <2> DEFINE e == [c EXCEPT !.fetch = "idle", !.snap = NoData, !.failed = TRUE]
  <2>1. e \in Entries /\ e.data = c.data /\ e.snap = NoData /\ e.fetch = "idle" /\ e.failed
    BY <1>2 DEF Entries, Fetches
  <2>2. cache' = [cache EXCEPT ![k] = e]
    BY <1>1, <1>6 DEF SearchFails, SearchType, Entries
  <2> HIDE DEF e
  <2>4. UNCHANGED <<window, filter, pageNo, typed, shrunk, turn, joined>> /\ joined' \in BOOLEAN
    BY <1>1, <1>6 DEF SearchFails, SearchType
  <2> QED
    BY <1>2, <2>1, <2>2, <2>4, FetchKeeps
<1> QED
  BY <1>4, <1>5, <1>6

LEMMA AutoRefreshKeeps ==
  ASSUME SearchInv, AutoRefresh
  PROVE  SearchInv'
<1> DEFINE c == cache[Key]
           e == [c EXCEPT !.fetch = "asked"]
<1>1. SearchType /\ Copies /\ Key \in Keys /\ c \in Entries
  BY KeyFact DEF SearchInv
<1>2. e \in Entries /\ e.data = c.data /\ e.snap = c.snap /\ e.fetch = "asked"
  BY <1>1 DEF Entries, Fetches
<1>3. cache' = [cache EXCEPT ![Key] = e]
  BY <1>1 DEF AutoRefresh, SearchType, Entries
<1>4. Earlier(e.data, Key[1]) /\ Earlier(e.snap, Key[1]) /\ e.snap = NoData
  BY <1>1, <1>2 DEF AutoRefresh, Copies, SearchType
<1>5. UNCHANGED <<window, filter, pageNo, typed, shrunk, turn>> /\ joined' = FALSE
  BY DEF AutoRefresh
<1> HIDE DEF e
<1> QED
  BY <1>1, <1>2, <1>3, <1>4, <1>5, FetchKeeps

\* Page 0 exists in any case, so the two fetches of a search disturb nothing.
LEMMA HandleSearchKeeps ==
  ASSUME SearchInv, HandleSearch
  PROVE  SearchInv'
<1>1. SearchType /\ Copies /\ Key \in Keys /\ cache[Key] \in Entries /\ NoData \in Windows
  BY KeyFact, PanelsAssumption DEF SearchInv, NoData, Windows
<1>2. pageNo' = 0 /\ turn' = 0 /\ typed' = FALSE /\ joined' = FALSE
      /\ UNCHANGED <<filter, window, shrunk>> /\ 0 \in 0..LastPage /\ 0 \in 0..LastLine
  BY PanelsAssumption DEF HandleSearch
<1> DEFINE zero == <<filter, 0>>
           r == IF cache[Key].fetch = "idle" \/ cache[Key].data # NoData
                THEN [cache EXCEPT ![Key].fetch = "asked", ![Key].snap = NoData] ELSE cache
<1>3. zero \in Keys
  BY <1>1, <1>2 DEF SearchType, Keys
<1>4. r \in [Keys -> Entries] /\ \A k \in Keys :
        /\ r[k].data = cache[k].data
        /\ (r[k].snap = cache[k].snap /\ r[k].fetch = cache[k].fetch)
           \/ r[k].snap = NoData
  BY <1>1 DEF SearchType, Entries, Fetches
<1>5. cache' = IF r[zero].fetch = "idle" THEN [r EXCEPT ![zero].fetch = "asked"] ELSE r
  BY DEF HandleSearch
<1> HIDE DEF r
<1>6. cache' \in [Keys -> Entries] /\ \A k \in Keys :
        /\ cache'[k].data = r[k].data /\ cache'[k].snap = r[k].snap
        /\ cache'[k].fetch = r[k].fetch \/ r[k].fetch = "idle"
  BY <1>3, <1>4, <1>5 DEF Entries, Fetches
<1>7. SearchType'
  <2>1. \A k \in Keys : cache'[k].fetch # "read" => cache'[k].snap = NoData
    BY <1>1, <1>4, <1>6 DEF SearchType
  <2> QED
    BY <1>1, <1>2, <1>6, <2>1 DEF SearchType
<1>8. Copies'
  <2>1. \A k \in Keys : k[1] \in Filters /\ Earlier(NoData, k[1])
    BY <1>1 DEF Keys, Earlier, SearchType, NoData, Windows
  <2> QED
    BY <1>1, <1>2, <1>4, <1>6, <2>1 DEF Copies, Earlier
<1> QED
  BY <1>2, <1>7, <1>8 DEF SearchInv, PageExists, TurnKept

\* The window of filter f has a newer line, or one line less at its end.
LEMMA WindowKeeps ==
  ASSUME SearchInv, NEW f \in Filters, Arrive(f) \/ Age(f)
  PROVE  SearchInv'
<1>1. SearchType /\ Copies /\ window[f] \in Windows /\ LastLine \in Nat
  BY PanelsAssumption DEF SearchInv, SearchType
<1>2. UNCHANGED <<filter, pageNo, cache, typed, turn, joined>> /\ Key' = Key
  BY DEF Arrive, Age, Key
<1>3. window' \in [Filters -> Windows] /\ shrunk' \subseteq Filters /\ shrunk \subseteq shrunk'
  <2>1. CASE Arrive(f)
    BY <1>1, <2>1 DEF Arrive, SearchType, Windows
  <2>2. CASE Age(f)
    BY <1>1, <2>2, PanelsAssumption DEF Age, SearchType, Windows
  <2> QED
    BY <2>1, <2>2
<1>4. \A g \in Filters : /\ window[g].hi \in Nat /\ window'[g].hi \in Nat
                         /\ window[g].hi <= window'[g].hi
                         /\ g \notin shrunk' => window'[g].lo = window[g].lo
  <2>1. CASE Arrive(f)
    BY <1>1, <2>1 DEF Arrive, SearchType, Windows
  <2>2. CASE Age(f)
    BY <1>1, <2>2, PanelsAssumption DEF Age, SearchType, Windows
  <2> QED
    BY <2>1, <2>2
<1>5. SearchType'
  BY <1>1, <1>2, <1>3 DEF SearchType
<1>6. Copies'
  <2>1. \A k \in Keys : /\ k[1] \in Filters
                        /\ cache[k].data.hi \in Nat /\ cache[k].snap.hi \in Nat
    BY <1>1 DEF SearchType, Keys, Entries, Windows
  <2> QED
    BY <1>1, <1>2, <1>3, <1>4, <2>1 DEF Copies, Earlier
<1>7. \A n \in Nat : Reaches(n) => Reaches(n)'
  BY <1>1, <1>2, <1>4 DEF Reaches, SearchType
<1>8. pageNo \in Nat /\ turn \in Nat
  BY <1>1, PanelsAssumption DEF SearchType
<1>9. PageExists'
  BY <1>2, <1>3, <1>7, <1>8 DEF PageExists, SearchInv
<1>10. TurnKept'
  BY <1>2, <1>7, <1>8 DEF TurnKept, SearchInv
<1> QED
  BY <1>5, <1>6, <1>9, <1>10 DEF SearchInv

LEMMA SearchStep == SearchInv /\ [Next]_vars => SearchInv'
<1> SUFFICES ASSUME SearchInv, [Next]_vars PROVE SearchInv'
  OBVIOUS
<1>1. ASSUME UNCHANGED logVars PROVE SearchInv'
  BY <1>1 DEF logVars, SearchInv, SearchType, Copies, Earlier, PageExists, TurnKept,
     Reaches, Key
<1>2. ASSUME AskNext PROVE UNCHANGED logVars
  BY <1>2 DEF AskNext, HandleExplain, SetRange, LoadPreview, HandleSummary, CloseDialog,
     HandleSend, Answered, CallFails, MailDone, Call
<1>3. CASE LogNext
  BY <1>3, SelectFilterKeeps, TypeTextKeeps, WindowKeeps, HandleSearchKeeps, PrevPageKeeps,
     NextPageKeeps, AutoRefreshKeeps, SearchStepsKeep DEF LogNext
<1> QED
  BY <1>1, <1>2, <1>3 DEF Next, vars

-----------------------------------------------------------------------------
(* The questions: their inductive invariant.                               *)

AskType ==
  /\ panel \in PanelsSeen /\ faults \in 0..MaxFaults /\ asked \in 0..MaxCalls
  /\ choice \in Topics /\ answer \in Topics \cup {NoTopic} /\ mailing \in Topics \cup {NoTopic}
  /\ open \in BOOLEAN /\ error \in BOOLEAN /\ loading \in BOOLEAN /\ overlap \in BOOLEAN
  /\ calls = [n \in DOMAIN calls |-> calls[n]]
  /\ DOMAIN calls \subseteq 1..asked /\ \A n \in DOMAIN calls : calls[n] \in Topics

\* What is under way and what is shown are about the choice t.  A range may
\* be chosen anew while the dialog of the summary is closed.
About(t) ==
  open \/ panel # "summary" =>
    /\ \A n \in DOMAIN calls : calls[n] = t
    /\ Visible \in {NoTopic, t}

\* Unless the latest call was made while another was under way, it is the
\* only one, and loading tells whether it is.
OneCall ==
  /\ panel = "summary" => ~overlap
  /\ ~overlap => /\ DOMAIN calls \subseteq {asked}
                 /\ loading <=> DOMAIN calls # {}
                 /\ About(choice)
  /\ loading => DOMAIN calls # {}

AskInv == AskType /\ OneCall /\ SentWasShown

\* A function without arguments is the empty sequence.
LEMMA NoCalls ==
  ASSUME calls = [n \in DOMAIN calls |-> calls[n]]
  PROVE  calls = << >> <=> DOMAIN calls = {}
<1>1. ASSUME calls = << >> PROVE DOMAIN calls = {}
  BY <1>1
<1>2. ASSUME DOMAIN calls = {} PROVE calls = << >>
  <2>1. << >> = [n \in DOMAIN << >> |-> << >>[n]] /\ DOMAIN << >> = {}
    OBVIOUS
  <2>2. \A n \in {} : calls[n] = << >>[n]
    OBVIOUS
  <2> QED
    BY <1>2, <2>1, <2>2
<1> QED
  BY <1>1, <1>2

\* What a new call does to the calls under way.
LEMMA CallFacts ==
  ASSUME AskType, NEW topic \in Topics, Call(topic)
  PROVE  /\ asked' = asked + 1 /\ asked' \in 0..MaxCalls /\ asked \in Nat
         /\ calls' = [n \in DOMAIN calls' |-> calls'[n]]
         /\ DOMAIN calls' = DOMAIN calls \cup {asked'}
         /\ \A n \in DOMAIN calls : calls'[n] = calls[n]
         /\ calls'[asked'] = topic /\ asked' \notin DOMAIN calls
         /\ overlap' = (DOMAIN calls # {})
         /\ loading' = TRUE /\ error' = FALSE
         /\ UNCHANGED <<panel, faults, mailing, sent>>
<1>1. MaxCalls \in Nat
  BY PanelsAssumption
<1>2. asked' = asked + 1 /\ asked' \in 0..MaxCalls /\ asked \in Nat
  BY <1>1 DEF Call, AskType
<1>3. asked' \notin DOMAIN calls
  BY <1>2 DEF AskType
<1>4. overlap' = (DOMAIN calls # {})
  BY NoCalls DEF Call, AskType
<1> QED
  BY <1>2, <1>3, <1>4 DEF Call

\* What the end of call n does to the calls under way.
LEMMA RestFacts ==
  ASSUME AskType, NEW n \in DOMAIN calls, calls' = Restrict(calls, DOMAIN calls \ {n})
  PROVE  /\ calls' = [m \in DOMAIN calls' |-> calls'[m]]
         /\ DOMAIN calls' = DOMAIN calls \ {n}
         /\ \A m \in DOMAIN calls' : calls'[m] = calls[m]
BY DEF Restrict

LEMMA AskInit == Init => AskInv
<1> SUFFICES ASSUME Init PROVE AskInv
  OBVIOUS
<1>1. MaxCalls \in Nat \ {0} /\ 0 \in 0..MaxCalls /\ 1 \in 0..MaxCalls /\ 0 \in 0..MaxFaults
  BY PanelsAssumption
<1>2. CASE panel = "report"
  <2>1. /\ DOMAIN calls = {1} /\ calls[1] = choice /\ calls = [n \in DOMAIN calls |-> calls[n]]
        /\ asked = 1 /\ loading = TRUE /\ open = TRUE
    <3>1. asked = 1 /\ loading = TRUE /\ open = TRUE /\ calls = [n \in 1..asked |-> choice]
      BY <1>2 DEF Init
    <3>2. 1..1 = {1}
      OBVIOUS
    <3> QED
      BY <3>1, <3>2
  <2>2. AskType
    BY <1>1, <2>1 DEF Init, AskType
  <2>3. OneCall
    BY <1>2, <2>1 DEF Init, OneCall, About, Visible
  <2> QED
    BY <2>2, <2>3 DEF AskInv, SentWasShown, Init
<1>3. CASE panel # "report"
  <2>1. /\ DOMAIN calls = {} /\ calls = [n \in DOMAIN calls |-> calls[n]]
        /\ asked = 0 /\ loading = FALSE /\ open = FALSE
    <3>1. asked = 0 /\ loading = FALSE /\ open = FALSE /\ calls = [n \in 1..asked |-> choice]
      BY <1>3 DEF Init
    <3>2. 1..0 = {}
      OBVIOUS
    <3> QED
      BY <3>1, <3>2
  <2>2. AskType
    BY <1>1, <2>1 DEF Init, AskType
  <2>3. OneCall
    BY <1>3, <2>1 DEF Init, OneCall, About, Visible
  <2> QED
    BY <2>2, <2>3 DEF AskInv, SentWasShown, Init
<1> QED
  BY <1>2, <1>3

\* A new question clears the answer before, or hides it while it is loading.
LEMMA AskingKeeps ==
  ASSUME AskInv, NEW topic \in Topics, Call(topic), choice' = topic, open' \in BOOLEAN,
         \/ answer' = NoTopic
         \/ panel = "report" /\ UNCHANGED answer,
         panel = "summary" => ~loading
  PROVE  AskInv'
<1>1. AskType /\ OneCall /\ SentWasShown
  BY DEF AskInv
<1>2. AskType'
  <2>1. \A n \in DOMAIN calls' : calls'[n] \in Topics
    BY <1>1, CallFacts DEF AskType
  <2>2. 1..asked \subseteq 1..asked' /\ asked' \in 1..asked'
    <3>1. asked' = asked + 1 /\ asked \in Nat
      BY <1>1, CallFacts
    <3> QED
      BY <3>1
  <2>3. DOMAIN calls' \subseteq 1..asked'
    BY <1>1, <2>2, CallFacts DEF AskType
  <2>4. /\ asked' \in 0..MaxCalls /\ overlap' \in BOOLEAN /\ loading' \in BOOLEAN /\ error' \in BOOLEAN
        /\ UNCHANGED <<panel, faults, mailing>>
    BY <1>1, CallFacts, Zenon
  <2>5. calls' = [n \in DOMAIN calls' |-> calls'[n]]
    BY <1>1, CallFacts
  <2>6. /\ choice' \in Topics /\ answer' \in Topics \cup {NoTopic} /\ mailing' \in Topics \cup {NoTopic}
        /\ panel' \in PanelsSeen /\ faults' \in 0..MaxFaults
    BY <1>1, <2>4 DEF AskType
  <2> QED
    BY <2>1, <2>3, <2>4, <2>5, <2>6 DEF AskType
<1>3. Visible' = NoTopic
  BY <1>1, CallFacts DEF Visible
<1>4. panel = "summary" => ~overlap'
  BY <1>1, CallFacts DEF OneCall
<1>5. ~overlap' => DOMAIN calls' = {asked'} /\ calls'[asked'] = choice'
  BY <1>1, CallFacts
<1>6. OneCall'
  BY <1>1, <1>3, <1>4, <1>5, CallFacts DEF OneCall, About
<1>7. SentWasShown'
  BY <1>1, CallFacts DEF SentWasShown
<1> QED
  BY <1>2, <1>6, <1>7 DEF AskInv

\* The end of a call ends the loading; what is shown then is its answer, what
\* was shown before, or nothing.
LEMMA EndingKeeps ==
  ASSUME AskInv, NEW n \in DOMAIN calls, Answered(n) \/ CallFails(n)
  PROVE  AskInv'
<1>1. AskType /\ OneCall /\ SentWasShown
  BY DEF AskInv
<1>2. /\ calls' = Restrict(calls, DOMAIN calls \ {n}) /\ loading' = FALSE
      /\ UNCHANGED <<panel, choice, open, asked, overlap, mailing, sent>>
      /\ answer' \in {calls[n], answer, NoTopic}
      /\ panel = "report" => answer' \in {calls[n], NoTopic}
  BY DEF Answered, CallFails
<1>3. faults' \in 0..MaxFaults /\ error' \in BOOLEAN
  <2>1. MaxFaults \in Nat /\ faults \in 0..MaxFaults /\ error \in BOOLEAN
    BY <1>1, PanelsAssumption DEF AskType
  <2>2. CASE Answered(n)
    BY <2>1, <2>2 DEF Answered
  <2>3. CASE CallFails(n)
    BY <2>1, <2>3 DEF CallFails
  <2> QED
    BY <2>2, <2>3
<1>4. AskType'
  BY <1>1, <1>2, <1>3, RestFacts DEF AskType
<1>5. ~overlap => DOMAIN calls' = {}
  BY <1>1, <1>2, RestFacts DEF OneCall
<1>6. ~overlap /\ (open \/ panel # "summary") => Visible' \in {NoTopic, choice}
  BY <1>1, <1>2 DEF OneCall, About, Visible
<1>7. OneCall'
  BY <1>1, <1>2, <1>5, <1>6 DEF OneCall, About
<1>8. SentWasShown'
  BY <1>1, <1>2 DEF SentWasShown
<1> QED
  BY <1>4, <1>7, <1>8 DEF AskInv

\* Only a month whose preview is on the screen is sent.
LEMMA HandleSendKeeps ==
  ASSUME AskInv, HandleSend
  PROVE  AskInv'
<1>1. AskType /\ OneCall /\ SentWasShown
  BY DEF AskInv
<1>2. /\ mailing' = choice /\ error' = FALSE
      /\ UNCHANGED <<panel, faults, choice, open, answer, loading, calls, asked, overlap>>
      /\ sent' = sent \cup {[month |-> choice, shown |-> Visible, overlap |-> overlap]}
      /\ panel = "report" /\ ~loading /\ answer # NoTopic
  BY DEF HandleSend
<1>3. AskType'
  BY <1>1, <1>2 DEF AskType
<1>4. OneCall'
  BY <1>1, <1>2 DEF OneCall, About, Visible
<1>5. Visible = choice \/ overlap
  BY <1>1, <1>2 DEF OneCall, About, Visible
<1>6. SentWasShown'
  BY <1>1, <1>2, <1>5 DEF SentWasShown
<1> QED
  BY <1>3, <1>4, <1>6 DEF AskInv

LEMMA AskNextKeeps ==
  ASSUME AskInv, AskNext
  PROVE  AskInv'
<1>1. AskType /\ OneCall /\ SentWasShown
  BY DEF AskInv
<1>2. ASSUME NEW topic \in Topics, HandleExplain(topic)
      PROVE  AskInv'
  BY <1>2, AskingKeeps DEF HandleExplain
<1>3. ASSUME NEW topic \in Topics, LoadPreview(topic)
      PROVE  AskInv'
  BY <1>1, <1>3, AskingKeeps DEF LoadPreview, AskType
<1>4. ASSUME HandleSummary
      PROVE  AskInv'
  BY <1>1, <1>4, AskingKeeps DEF HandleSummary, AskType
<1>5. ASSUME NEW topic \in Topics, SetRange(topic)
      PROVE  AskInv'
  BY <1>1, <1>5 DEF SetRange, AskInv, AskType, OneCall, About, Visible, SentWasShown
<1>6. ASSUME CloseDialog
      PROVE  AskInv'
  BY <1>1, <1>6 DEF CloseDialog, AskInv, AskType, OneCall, About, Visible, SentWasShown
<1>7. ASSUME NEW failing \in BOOLEAN, MailDone(failing)
      PROVE  AskInv'
  <2>1. faults' \in 0..MaxFaults /\ error' \in BOOLEAN /\ mailing' = NoTopic
    BY <1>1, <1>7, PanelsAssumption DEF MailDone, AskType
  <2>2. UNCHANGED <<panel, choice, open, answer, loading, calls, asked, overlap, sent>>
    BY <1>7 DEF MailDone
  <2> QED
    BY <1>1, <2>1, <2>2 DEF AskInv, AskType, OneCall, About, Visible, SentWasShown
<1> QED
  BY <1>2, <1>3, <1>4, <1>5, <1>6, <1>7, EndingKeeps, HandleSendKeeps DEF AskNext

LEMMA AskStep == AskInv /\ [Next]_vars => AskInv'
<1> SUFFICES ASSUME AskInv, [Next]_vars PROVE AskInv'
  OBVIOUS
<1>1. AskType
  BY DEF AskInv
<1>2. ASSUME UNCHANGED <<panel, askVars>>, faults' \in 0..MaxFaults PROVE AskInv'
  BY <1>1, <1>2 DEF askVars, AskInv, AskType, OneCall, About, Visible, SentWasShown
<1>3. ASSUME LogNext PROVE UNCHANGED <<panel, askVars>> /\ faults' \in 0..MaxFaults
  <2>1. MaxFaults \in Nat /\ faults \in 0..MaxFaults
    BY <1>1, PanelsAssumption DEF AskType
  <2>2. UNCHANGED <<panel, askVars, faults>> \/ \E k \in Keys : SearchFails(k)
    BY <1>3 DEF LogNext, SelectFilter, TypeText, Arrive, Age, HandleSearch,
       PrevPage, NextPage, AutoRefresh, SearchRead, SearchDone
  <2>3. CASE \E k \in Keys : SearchFails(k)
    BY <2>1, <2>3 DEF SearchFails
  <2> QED
    BY <2>1, <2>2, <2>3
<1>4. CASE UNCHANGED vars
  BY <1>1, <1>2, <1>4 DEF vars, AskType
<1> QED
  BY <1>2, <1>3, <1>4, AskNextKeeps DEF Next

-----------------------------------------------------------------------------
(* The theorems.                                                           *)

LEMMA Inductive == Spec => [](SearchInv /\ AskInv)
<1>1. Init => SearchInv /\ AskInv
  BY SearchInit, AskInit
<1>2. SearchInv /\ AskInv /\ [Next]_vars => (SearchInv /\ AskInv)'
  BY SearchStep, AskStep
<1> QED
  BY <1>1, <1>2, PTL DEF Spec

\* Every reachable state is well typed; in particular no query holds an
\* answer while none is being read, and the sign of loading is shown only
\* while a call is under way.
THEOREM TypeCorrect == Spec => []TypeOK
<1>1. SearchInv /\ AskInv => TypeOK
  <2> SUFFICES ASSUME SearchInv, AskInv PROVE TypeOK
    OBVIOUS
  <2>1. SearchType /\ AskType /\ OneCall
    BY DEF SearchInv, AskInv
  <2>2. \A f \in Filters : window[f].hi \in 0..LastLine /\ window[f].lo \in 1..LastLine + 1
    BY <2>1 DEF SearchType, Windows
  <2>3. \A k \in Keys :
          /\ cache[k].fetch \in {"idle", "asked", "read"} /\ cache[k].failed \in BOOLEAN
          /\ cache[k].fetch # "read" => cache[k].snap = NoData
          /\ \A d \in {cache[k].data, cache[k].snap} :
               d.hi \in 0..LastLine /\ d.lo \in 1..LastLine + 1
    BY <2>1 DEF SearchType, Entries, Fetches, Windows
  <2>4. loading => calls # << >>
    BY <2>1, NoCalls DEF OneCall, AskType
  <2> QED
    BY <2>1, <2>2, <2>3, <2>4 DEF TypeOK, SearchType, AskType
<1> QED
  BY <1>1, Inductive, PTL

\* The operator is led to a page beyond the last one only by text that was
\* not searched for, by lines that have gone, or by a fetch that is older
\* than the turn to that page (setPage(0) in LogViewer's handlers).
THEOREM PageReached == Spec => []PageReachable
<1>1. SearchInv => PageReachable
  <2> SUFFICES ASSUME SearchInv, ~typed, filter \notin shrunk, ~joined, pageNo > 0,
                      cache[Key].fetch = "idle", ~cache[Key].failed
               PROVE  pageNo < Total(Shown)
    BY ShownFacts DEF PageReachable
  <2>1. pageNo + 1 <= Shown.hi
    BY DEF SearchInv, PageExists, Reaches, Shown
  <2>2. Shown.lo = 1
    BY KeyFact DEF SearchInv, Copies, Earlier, Shown
  <2> HIDE DEF Shown
  <2> QED
    BY <2>1, <2>2, ShownFacts DEF Total
<1> QED
  BY <1>1, Inductive, PTL

\* The button "next page" skips no line, whatever older copies of the page
\* the query cache holds and however many lines arrive meanwhile.
THEOREM NothingSkipped == Spec => []PagingSkipsNothing
<1>1. SearchInv => PagingSkipsNothing
  <2> SUFFICES ASSUME SearchInv, turn > 0, ~joined, cache[Key].fetch = "idle",
                      ~cache[Key].failed, Line(Shown, pageNo) # 0
               PROVE  Line(Shown, pageNo) >= turn - 1
    BY DEF PagingSkipsNothing
  <2>1. turn + pageNo - 1 <= Shown.hi
    BY DEF SearchInv, TurnKept, Reaches, Shown
  <2>2. turn \in Nat /\ Line(Shown, pageNo) = Shown.hi - pageNo
    BY PanelsAssumption DEF SearchInv, SearchType, Line
  <2> HIDE DEF Shown
  <2> QED
    BY <2>1, <2>2, ShownFacts
<1> QED
  BY <1>1, Inductive, PTL

\* The answer on the screen is that of the line, range or month on the
\* screen, for the summary always, for the other two unless two calls were
\* under way at once.
THEOREM AnswerBelongs == Spec => []AnswerOfQuestion
<1>1. AskInv => AnswerOfQuestion
  BY DEF AskInv, OneCall, About, AnswerOfQuestion, AskType
<1> QED
  BY <1>1, Inductive, PTL

\* A month is mailed only while its own preview is on the screen, unless two
\* previews were loading at once (the button's disabled in MonthlyReport).
THEOREM MailIsPreview == Spec => []SentWasShown
<1>1. AskInv => SentWasShown
  BY DEF AskInv
<1> QED
  BY <1>1, Inductive, PTL
=============================================================================
