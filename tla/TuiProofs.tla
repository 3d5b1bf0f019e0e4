------------------------------ MODULE TuiProofs ------------------------------
(***************************************************************************)
(* What the interface promises whatever the answers are and in whatever    *)
(* order they come: the selection is of something that exists, whoever has *)
(* left the tail gets the whole log, and nothing moves but by a key.       *)
(***************************************************************************)
EXTENDS Tui, WellFoundedInduction, TLAPS

-----------------------------------------------------------------------------
(* Types: of the instance, of the messages, and of the model in five parts. *)

\* A log, or a part of one, from entry lo to entry hi.
Window(l) == /\ l.lo \in Nat /\ l.hi \in 0 .. MaxLines
             /\ 1 <= l.lo /\ l.lo <= l.hi + 1

WorldOK ==
  /\ work \in Workloads /\ up \in BOOLEAN
  /\ buf \in [Names -> [lo : Nat, hi : Nat]]
  /\ \A s \in Names : Window(buf[s])
  /\ kept \in Seq(Traces) /\ keys \in Nat

Sent(r) ==
  /\ r.op \in {"sources", "startup", "logs", "traces", "spans", "span", "restart"}
  /\ r.op = "logs" => r.src \in Names /\ r.full \in BOOLEAN

Told(a) ==
  /\ a.op = "sources" => a.names \in SUBSET Names
  /\ a.op = "startup" => a.active \in BOOLEAN /\ a.up \in BOOLEAN
  /\ a.op = "logs"    => a.src \in Names /\ a.full \in BOOLEAN /\ Window(a)
  /\ a.op = "traces"  => a.list \in Seq(Traces)
  /\ a.op = "spans"   => a.n \in {0, SpanCount}

MessagesOK == (\A r \in asked : Sent(r)) /\ (\A a \in answers : Told(a))

Tabs == Names \cup {TracesTab, StartupTab}

TabsOK == tabs \in Seq(Tabs) /\ sel \in 0 .. Max2(0, Len(tabs) - 1)

LogsOK ==
  /\ logs.src \in Names \cup {Nothing} /\ logs.full \in BOOLEAN /\ Window(logs)
  /\ offset \in 0 .. MaxLines /\ autoScroll \in BOOLEAN /\ pinnedTop \in BOOLEAN
  /\ autoScroll => offset = 0 /\ ~pinnedTop

ListOK ==
  /\ traces \in Seq(Traces)
  /\ traceIdx \in IF traces = <<>> THEN {-1, 0} ELSE 0 .. Len(traces) - 1

DetailOK ==
  /\ mode \in {"Normal", "Search", "TraceDetail", "SpanDetail", "ValueView"}
  /\ query \in BOOLEAN
  /\ traceID \in Traces \cup {None} /\ cursor \in -1 .. SpanCount - 1
  /\ spans.n \in {0, SpanCount}
  /\ mode \in {"TraceDetail", "SpanDetail", "ValueView"} => traceID # None

StartupOK ==
  /\ startupActive \in BOOLEAN /\ handedOver \in BOOLEAN /\ failed \in BOOLEAN
  /\ handedOver => startupActive

Typed == WorldOK /\ MessagesOK /\ TabsOK /\ LogsOK /\ ListOK /\ DetailOK /\ StartupOK

-----------------------------------------------------------------------------
(* Who writes what.                                                        *)

LEMMA WhoWrites ==
  ASSUME [Next]_vars
  PROVE  /\ \/ UNCHANGED world \/ Changes
         /\ \/ UNCHANGED tabVars \/ SwitchTab \/ \E a \in answers : OnSources(a) \/ OnStartup(a)
         /\ \/ UNCHANGED logVars \/ Scroll \/ SearchKey \/ NextMatch \/ \E a \in answers : OnLogs(a)
         /\ \/ UNCHANGED listVars \/ MoveInTraces \/ \E a \in answers : OnTraces(a)
         /\ \/ UNCHANGED <<findVars, detail>>
            \/ OpenSearch \/ SearchKey \/ OpenTrace \/ MoveInSpans \/ OpenSpan \/ ChangeLevel
            \/ \E a \in answers : OnSpans(a) \/ OnSpan(a)
         /\ \/ UNCHANGED <<startup, failed>> \/ \E a \in answers : OnStartup(a) \/ OnErr(a)
         /\ \/ UNCHANGED keys \/ (Press /\ keys' = keys + 1)
<1> DEFINE Goal ==
         /\ \/ UNCHANGED world \/ Changes
         /\ \/ UNCHANGED tabVars \/ SwitchTab \/ \E a \in answers : OnSources(a) \/ OnStartup(a)
         /\ \/ UNCHANGED logVars \/ Scroll \/ SearchKey \/ NextMatch \/ \E a \in answers : OnLogs(a)
         /\ \/ UNCHANGED listVars \/ MoveInTraces \/ \E a \in answers : OnTraces(a)
         /\ \/ UNCHANGED <<findVars, detail>>
            \/ OpenSearch \/ SearchKey \/ OpenTrace \/ MoveInSpans \/ OpenSpan \/ ChangeLevel
            \/ \E a \in answers : OnSpans(a) \/ OnSpan(a)
         /\ \/ UNCHANGED <<startup, failed>> \/ \E a \in answers : OnStartup(a) \/ OnErr(a)
         /\ \/ UNCHANGED keys \/ (Press /\ keys' = keys + 1)
<1> SUFFICES Goal
  OBVIOUS
<1>1. CASE Tick
  BY <1>1 DEF Tick
<1>2. CASE Changes
  BY <1>2 DEF Changes, Turn, LogWritten, LogEvicted, TraceStored, TraceExpired, UpChanges
<1>3. ASSUME NEW r \in asked, Serve(r) \/ Fail(r) PROVE Goal
  BY <1>3 DEF Serve, Fail
<1>4. ASSUME NEW a \in answers, OnSources(a) PROVE Goal
  BY <1>4 DEF OnSources, Take
<1>5. ASSUME NEW a \in answers, OnLogs(a) PROVE Goal
  BY <1>5 DEF OnLogs, Take
<1>6. ASSUME NEW a \in answers, OnStartup(a) PROVE Goal
  <2>1. UNCHANGED <<world, findVars, keys>>
    BY <1>6 DEF OnStartup, Take
  <2> QED
    BY <1>6, <2>1 DEF OnStartup
<1>7. ASSUME NEW a \in answers, OnTraces(a) PROVE Goal
  BY <1>7 DEF OnTraces, Take
<1>8. ASSUME NEW a \in answers, OnSpans(a) \/ OnSpan(a) PROVE Goal
  BY <1>8 DEF OnSpans, OnSpan, Take
<1>9. ASSUME NEW a \in answers, OnRestart(a) \/ OnErr(a) PROVE Goal
  BY <1>9 DEF OnRestart, OnErr, Take
<1>10. CASE SwitchTab
  BY <1>10 DEF SwitchTab, Key, Press
<1>11. CASE Scroll \/ NextMatch \/ RestartKey
  BY <1>11 DEF Scroll, NextMatch, RestartKey, Key, Press
<1>12. CASE OpenSearch \/ SearchKey
  BY <1>12 DEF OpenSearch, SearchKey, Key, Press
<1>13. CASE MoveInTraces
  BY <1>13 DEF MoveInTraces, Key, Press
<1>14. CASE OpenTrace \/ MoveInSpans \/ OpenSpan \/ ChangeLevel
  BY <1>14 DEF OpenTrace, MoveInSpans, OpenSpan, ChangeLevel, Key, Press
<1>15. CASE UNCHANGED vars
  BY <1>15 DEF vars
<1> HIDE DEF Goal
<1> QED
  BY <1>1, <1>2, <1>3, <1>4, <1>5, <1>6, <1>7, <1>8, <1>9, <1>10, <1>11, <1>12, <1>13, <1>14, <1>15
     DEF Next, Deliver, OnOther, Press

-----------------------------------------------------------------------------
(* The operators.                                                          *)

LEMMA LeastExists ==
  ASSUME NEW S \in SUBSET Nat, S # {}
  PROVE  \E x \in S : \A y \in S : x <= y
<1>1. PICK x \in S : \A y \in S : ~ (<<y, x>> \in OpToRel(<, Nat))
  BY NatLessThanWellFounded, WFMin
<1>2. ASSUME NEW y \in S PROVE x <= y
  <2>1. x \in Nat /\ y \in Nat
    OBVIOUS
  <2>2. ~(y < x)
    BY <1>1, <2>1 DEF OpToRel
  <2> QED
    BY <2>1, <2>2
<1> QED
  BY <1>2

LEMMA AtTyped ==
  ASSUME NEW S, NEW list \in Seq(S), NEW i \in Int
  PROVE  /\ At(list, i) \in S \cup {Nothing}
         /\ i \in 0 .. Len(list) - 1 => At(list, i) = list[i + 1] /\ i + 1 \in DOMAIN list
<1>1. CASE i \in 0 .. Len(list) - 1
  <2>1. i + 1 \in DOMAIN list
    BY <1>1
  <2>2. list[i + 1] \in S /\ At(list, i) = list[i + 1]
    BY <1>1, <2>1 DEF At
  <2> QED
    BY <2>1, <2>2
<1>2. CASE i \notin 0 .. Len(list) - 1
  BY <1>2 DEF At
<1> QED
  BY <1>1, <1>2

LEMMA ClampTyped ==
  ASSUME NEW i \in Int, NEW n \in Nat
  PROVE  /\ Clamp(i, n) \in 0 .. Max2(0, n - 1)
         /\ i \in 0 .. Max2(0, n - 1) => Clamp(i, n) = i
BY DEF Clamp, Max2, Min2

LEMMA TabSelected == TabsOK => Current \in Tabs \cup {Nothing}
<1> SUFFICES ASSUME TabsOK PROVE Current \in Tabs \cup {Nothing}
  OBVIOUS
<1>1. tabs \in Seq(Tabs) /\ sel \in Int
  BY DEF TabsOK, Max2
<1> QED
  BY <1>1, AtTyped DEF Current

LEMMA FetchSends ==
  ASSUME NEW tab \in Tabs \cup {Nothing}, NEW full \in BOOLEAN
  PROVE  /\ \A r \in Fetch(tab, full) : Sent(r)
         /\ tab \in Names => Fetch(tab, full) = {AskLogs(tab, full)}
<1>1. TracesTab \notin Names /\ StartupTab \notin Names /\ Nothing \notin Names
  BY TuiAssumption DEF TuiAssumption
<1>2. TracesTab # Nothing /\ StartupTab # Nothing /\ TracesTab # StartupTab
  BY DEF TracesTab, StartupTab, Nothing
<1>3. CASE tab = Nothing
  <2>1. Fetch(tab, full) = {}
    BY <1>2, <1>3 DEF Fetch
  <2> QED
    BY <1>1, <1>3, <2>1
<1>4. CASE tab = TracesTab
  <2>1. Fetch(tab, full) = {AskTraces}
    BY <1>2, <1>4 DEF Fetch
  <2> QED
    BY <1>1, <1>4, <2>1 DEF Sent, AskTraces
<1>5. CASE tab = StartupTab
  <2>1. Fetch(tab, full) = {AskStartup}
    BY <1>2, <1>5 DEF Fetch
  <2> QED
    BY <1>1, <1>5, <2>1 DEF Sent, AskStartup
<1>6. CASE tab \in Names
  <2>1. Fetch(tab, full) = {AskLogs(tab, full)}
    BY <1>1, <1>2, <1>6 DEF Fetch
  <2> QED
    BY <1>6, <2>1 DEF Sent, AskLogs
<1> QED
  BY <1>3, <1>4, <1>5, <1>6 DEF Tabs

LEMMA ListsTyped ==
  ASSUME TabsOK, StartupOK, NEW names \in SUBSET Names
  PROVE  /\ WithStartupTab(tabs) \in Seq(Tabs) /\ WithStartupTab(tabs) # <<>>
         /\ At(WithStartupTab(tabs), 0) = StartupTab
         /\ TabsFrom(names) \in Seq(Tabs)
<1>1. ASSUME NEW list \in Seq(Tabs)
      PROVE  WithStartupTab(list) \in Seq(Tabs) /\ WithStartupTab(list) # <<>>
             /\ At(WithStartupTab(list), 0) = StartupTab
  <2>1. CASE list # <<>> /\ list[1] = StartupTab
    <3>1. WithStartupTab(list) = list /\ Len(list) > 0 /\ Len(list) \in Nat
      BY <2>1 DEF WithStartupTab
    <3>2. 0 \in 0 .. Len(list) - 1
      BY <3>1
    <3>3. At(list, 0) = list[0 + 1]
      BY <3>2 DEF At
    <3> QED
      BY <2>1, <3>1, <3>3
  <2>2. CASE ~(list # <<>> /\ list[1] = StartupTab)
    <3>1. WithStartupTab(list) = <<StartupTab>> \o list
      BY <2>2 DEF WithStartupTab
    <3>2. <<StartupTab>> \in Seq(Tabs) /\ Len(<<StartupTab>>) = 1
      BY DEF Tabs
    <3>3. /\ <<StartupTab>> \o list \in Seq(Tabs) /\ Len(<<StartupTab>> \o list) = 1 + Len(list)
          /\ (<<StartupTab>> \o list)[1] = StartupTab
      BY <3>2
    <3> DEFINE new == <<StartupTab>> \o list
    <3>4. new \in Seq(Tabs) /\ Len(new) = 1 + Len(list) /\ new[1] = StartupTab
      BY <3>3
    <3> HIDE DEF new
    <3>5. Len(list) \in Nat /\ 0 \in 0 .. Len(new) - 1 /\ new # <<>>
      BY <3>4
    <3>6. At(new, 0) = new[0 + 1]
      BY <3>5 DEF At
    <3> QED
      BY <3>1, <3>4, <3>5, <3>6 DEF new
  <2> QED
    BY <2>1, <2>2
<1>2. Sorted[names] \in Seq(Tabs)
  <2>1. Sorted[names] \in Seq(Names)
    BY TuiAssumption DEF TuiAssumption
  <2>2. Names \subseteq Tabs
    BY DEF Tabs
  <2> QED
    BY <2>1, <2>2
<1>3. Append(Sorted[names], TracesTab) \in Seq(Tabs)
  BY <1>2 DEF Tabs
<1> QED
  BY <1>1, <1>3 DEF TabsFrom, TabsOK

LEMMA FirstInList ==
  ASSUME NEW list \in Seq(Tabs), list # <<>>
  PROVE  FirstProcessTab(list) \in 0 .. Len(list) - 1
<1> DEFINE at == {i \in 1 .. Len(list) : list[i] \in Processes}
<1>1. Len(list) \in Nat /\ Len(list) >= 1
  OBVIOUS
<1>2. CASE at # {}
  <2>1. \E i \in at : \A j \in at : i <= j
    <3>1. at \in SUBSET Nat
      BY <1>1
    <3> HIDE DEF at
    <3> QED
      BY <1>2, <3>1, LeastExists
  <2>2. (CHOOSE i \in at : \A j \in at : i <= j) \in at
    BY <2>1
  <2>3. FirstProcessTab(list) = (CHOOSE i \in at : \A j \in at : i <= j) - 1
    BY <1>2 DEF FirstProcessTab
  <2> DEFINE k == CHOOSE i \in at : \A j \in at : i <= j
  <2> HIDE DEF k
  <2>4. k \in 1 .. Len(list)
    BY <2>2 DEF k
  <2> QED
    BY <1>1, <2>3, <2>4 DEF k
<1>3. CASE at = {}
  BY <1>1, <1>3 DEF FirstProcessTab, Min2
<1> QED
  BY <1>2, <1>3

LEMMA ReselectedIsIndex ==
  ASSUME NEW list \in Seq(Traces), traceIdx \in Int
  PROVE  Reselected(list) \in Int
<1> DEFINE at == {i \in 1 .. Len(list) : list[i] = At(traces, traceIdx)}
<1>1. at # {} => (CHOOSE i \in at : TRUE) \in Int
  OBVIOUS
<1>2. Len(list) \in Nat
  OBVIOUS
<1> QED
  BY <1>1, <1>2 DEF Reselected

-----------------------------------------------------------------------------

LEMMA WorldStep == Typed /\ [Next]_vars => WorldOK'
<1> SUFFICES ASSUME Typed, [Next]_vars PROVE WorldOK'
  OBVIOUS
<1> USE DEF Typed, WorldOK
<1>1. keys' \in Nat
  BY WhoWrites
<1>2. CASE UNCHANGED world
  BY <1>1, <1>2 DEF world
<1>3. ASSUME NEW s \in Names, LogWritten(s) PROVE WorldOK'
  <2>1. /\ buf' = [buf EXCEPT ![s] = [buf[s] EXCEPT !.hi = buf[s].hi + 1]] /\ buf[s].hi < MaxLines
        /\ UNCHANGED <<work, kept, up>>
    BY <1>3 DEF LogWritten, Turn
  <2>2. Window(buf[s]) /\ buf[s] \in [lo : Nat, hi : Nat] /\ MaxLines \in Nat
    BY TuiAssumption DEF TuiAssumption
  <2> DEFINE b == [buf[s] EXCEPT !.hi = buf[s].hi + 1]
  <2>3. b \in [lo : Nat, hi : Nat] /\ Window(b)
    BY <2>1, <2>2 DEF Window
  <2> HIDE DEF b
  <2>4. buf' = [buf EXCEPT ![s] = b]
    BY <2>1 DEF b
  <2>5. buf' \in [Names -> [lo : Nat, hi : Nat]] /\ \A d \in Names : buf'[d] = IF d = s THEN b ELSE buf[d]
    BY <2>3, <2>4
  <2>6. \A d \in Names : Window(buf'[d])
    BY <2>3, <2>5
  <2>7. \A d \in Names : Window(buf[d])'
    BY <2>6 DEF Window
  <2> QED
    BY <1>1, <2>1, <2>5, <2>7
<1>4. ASSUME NEW s \in Names, LogEvicted(s) PROVE WorldOK'
  <2>1. /\ buf' = [buf EXCEPT ![s] = [buf[s] EXCEPT !.lo = buf[s].lo + 1]] /\ buf[s].lo <= buf[s].hi
        /\ UNCHANGED <<work, kept, up>>
    BY <1>4 DEF LogEvicted, Turn
  <2>2. Window(buf[s]) /\ buf[s] \in [lo : Nat, hi : Nat]
    OBVIOUS
  <2> DEFINE b == [buf[s] EXCEPT !.lo = buf[s].lo + 1]
  <2>3. b \in [lo : Nat, hi : Nat] /\ Window(b)
    BY <2>1, <2>2 DEF Window
  <2> HIDE DEF b
  <2>4. buf' = [buf EXCEPT ![s] = b]
    BY <2>1 DEF b
  <2>5. buf' \in [Names -> [lo : Nat, hi : Nat]] /\ \A d \in Names : buf'[d] = IF d = s THEN b ELSE buf[d]
    BY <2>3, <2>4
  <2>6. \A d \in Names : Window(buf'[d])
    BY <2>3, <2>5
  <2>7. \A d \in Names : Window(buf[d])'
    BY <2>6 DEF Window
  <2> QED
    BY <1>1, <2>1, <2>5, <2>7
<1>5. ASSUME NEW t \in Traces, TraceStored(t) PROVE WorldOK'
  BY <1>1, <1>5 DEF TraceStored, Turn
<1>6. CASE TraceExpired
  BY <1>1, <1>6 DEF TraceExpired, Turn
<1>7. CASE UpChanges
  BY <1>1, <1>7 DEF UpChanges, Turn
<1> QED
  BY <1>2, <1>3, <1>4, <1>5, <1>6, <1>7, WhoWrites DEF Changes

LEMMA AnswerTold ==
  ASSUME Typed, NEW r \in asked
  PROVE  Told(Answer(r))
<1>1. Sent(r)
  BY DEF Typed, MessagesOK
<1>2. CASE r.op = "sources"
  BY <1>2 DEF Answer, SourcesNow, Listed, Told
<1>3. CASE r.op = "startup"
  <2>1. work.gated \in BOOLEAN /\ up \in BOOLEAN
    BY WorkloadAssumption DEF WorkloadAssumption, Typed, WorldOK
  <2> QED
    BY <1>3, <2>1 DEF Answer, StartupNow, Told
<1>4. CASE r.op = "logs"
  <2>1. Answer(r) = LogsNow(r.src, r.full) /\ r.src \in Names /\ r.full \in BOOLEAN
    BY <1>1, <1>4 DEF Answer, Sent
  <2>2. Window(buf[r.src]) /\ LiveLimit \in Nat \ {0} /\ MaxLines \in Nat
    BY <2>1, TuiAssumption DEF TuiAssumption, Typed, WorldOK
  <2>3. Window(LogsNow(r.src, r.full))
    BY <2>1, <2>2 DEF LogsNow, Window, Max2
  <2> QED
    BY <2>1, <2>3 DEF LogsNow, Told
<1>5. CASE r.op = "traces"
  BY <1>5 DEF Answer, TracesNow, Told, Typed, WorldOK
<1>6. CASE r.op = "spans"
  BY <1>6 DEF Answer, SpansNow, Told
<1>7. CASE r.op = "span"
  BY <1>7 DEF Answer, SpanNow, Told
<1>8. CASE r.op = "restart"
  BY <1>8 DEF Answer, Restarted, Told
<1> QED
  BY <1>1, <1>2, <1>3, <1>4, <1>5, <1>6, <1>7, <1>8 DEF Sent

LEMMA TabsStep == Typed /\ [Next]_vars => TabsOK'
<1> SUFFICES ASSUME Typed, [Next]_vars PROVE TabsOK'
  OBVIOUS
<1> USE DEF Typed, TabsOK
<1>1. CASE UNCHANGED tabVars
  BY <1>1 DEF tabVars
<1>2. CASE SwitchTab
  <2>1. PICK d \in {1, Len(tabs) - 1} : sel' = (sel + d) % Len(tabs) /\ tabs # <<>> /\ tabs' = tabs
    BY <1>2 DEF SwitchTab
  <2>2. Len(tabs) \in Nat /\ Len(tabs) > 0 /\ sel \in Nat
    BY <2>1 DEF Max2
  <2>3. sel + d \in Nat
    BY <2>1, <2>2
  <2>4. sel' \in 0 .. Len(tabs) - 1
    BY <2>1, <2>2, <2>3
  <2> QED
    BY <2>1, <2>2, <2>4 DEF Max2
<1>3. ASSUME NEW a \in answers, OnSources(a) PROVE TabsOK'
  <2>1. a.names \in SUBSET Names
    BY <1>3 DEF OnSources, MessagesOK, Told
  <2>2. tabs' \in Seq(Tabs) /\ sel' = Clamp(sel, Len(tabs')) /\ sel \in Int
    BY <1>3, <2>1, ListsTyped DEF OnSources, Max2
  <2> QED
    BY <2>2, ClampTyped
<1>4. ASSUME NEW a \in answers, OnStartup(a) PROVE TabsOK'
  <2>1. CASE UNCHANGED tabVars
    BY <1>1, <2>1
  <2>2. CASE ~UNCHANGED tabVars
    <3> DEFINE list == IF startupActive THEN tabs ELSE WithStartupTab(tabs)
               i    == IF startupActive THEN sel ELSE 0
    <3>1. tabs' = list /\ (sel' = i \/ sel' = FirstProcessTab(list))
      BY <1>4, <2>2 DEF OnStartup
    <3>2. list \in Seq(Tabs) /\ i \in 0 .. Max2(0, Len(list) - 1)
      <4>1. CASE startupActive
        BY <4>1
      <4>2. CASE ~startupActive
        <5>1. list = WithStartupTab(tabs) /\ i = 0
          BY <4>2
        <5>2. list \in Seq(Tabs)
          BY <5>1, ListsTyped
        <5> HIDE DEF list
        <5> QED
          BY <5>1, <5>2 DEF Max2
      <4> QED
        BY <4>1, <4>2
    <3> HIDE DEF list, i
    <3>3. At(list, i) = StartupTab => list # <<>>
      BY <3>2 DEF At, StartupTab, Nothing
    <3>4. sel' # i => list # <<>>
      BY <1>4, <3>3, <2>2 DEF OnStartup, HandsOver, list, i
    <3>5. list # <<>> => FirstProcessTab(list) \in 0 .. Len(list) - 1
      BY <3>2, FirstInList
    <3> QED
      BY <3>1, <3>2, <3>4, <3>5 DEF Max2
  <2> QED
    BY <2>1, <2>2
<1> QED
  BY <1>1, <1>2, <1>3, <1>4, WhoWrites

LEMMA MessagesStep == Typed /\ [Next]_vars => MessagesOK'
<1> SUFFICES ASSUME Typed, [Next]_vars PROVE MessagesOK'
  OBVIOUS
<1>1. TabsOK' /\ Current \in Tabs \cup {Nothing} /\ Current' \in Tabs \cup {Nothing}
  <2>1. TabsOK /\ TabsOK'
    BY TabsStep DEF Typed
  <2>2. tabs' \in Seq(Tabs) /\ sel' \in Int
    BY <2>1 DEF TabsOK, Max2
  <2>3. At(tabs', sel') \in Tabs \cup {Nothing}
    BY <2>2, AtTyped
  <2> QED
    BY <2>1, <2>3, TabSelected DEF Current
<1>2. (~Tailing) \in BOOLEAN
  OBVIOUS
<1>3. ASSUME asked' \subseteq asked, answers' \subseteq answers PROVE MessagesOK'
  BY <1>3 DEF Typed, MessagesOK, Sent, Told, Window
<1>4. ASSUME NEW R, asked' = asked \cup R, \A r \in R : Sent(r), answers' \subseteq answers PROVE MessagesOK'
  <2>1. \A r \in asked' : Sent(r)
    BY <1>4 DEF Typed, MessagesOK
  <2>2. \A a \in answers' : Told(a)
    BY <1>4 DEF Typed, MessagesOK
  <2> QED
    BY <2>1, <2>2 DEF MessagesOK, Sent, Told, Window
<1>5. ASSUME NEW R, Key(R), \A r \in R : Sent(r) PROVE MessagesOK'
  <2>1. \A r \in LeavesTail : Sent(r)
    BY <1>1, FetchSends DEF LeavesTail
  <2> DEFINE Q == R \cup LeavesTail
  <2>2. asked' = asked \cup Q /\ answers' = answers /\ \A r \in Q : Sent(r)
    BY <1>5, <2>1 DEF Key
  <2> HIDE DEF Q
  <2> QED
    BY <2>2, <1>4
<1>6. CASE Tick
  <2>1. \A r \in Fetch(Current, ~Tailing) : Sent(r)
    BY <1>1, <1>2, FetchSends
  <2> DEFINE Q == {AskSources} \cup Fetch(Current, ~Tailing)
  <2>2. asked' = asked \cup Q /\ answers' = answers /\ \A r \in Q : Sent(r)
    BY <1>6, <2>1 DEF Tick, AskSources, Sent
  <2> HIDE DEF Q
  <2> QED
    BY <2>2, <1>4
<1>7. CASE Changes
  <2>1. asked' = asked /\ answers' = answers
    BY <1>7 DEF Changes, LogWritten, LogEvicted, TraceStored, TraceExpired, UpChanges, Turn, net
  <2> QED
    BY <1>3, <2>1
<1>8. ASSUME NEW r \in asked, Serve(r) PROVE MessagesOK'
  <2>1. Told(Answer(r))
    BY AnswerTold
  <2>2. asked' \subseteq asked /\ answers' = answers \cup {Answer(r)}
    BY <1>8 DEF Serve
  <2>3. \A q \in asked' : Sent(q)
    BY <2>2 DEF Typed, MessagesOK
  <2>4. \A a \in answers' : Told(a)
    BY <2>1, <2>2 DEF Typed, MessagesOK
  <2> QED
    BY <2>3, <2>4 DEF MessagesOK, Sent, Told, Window
<1>9. ASSUME NEW r \in asked, Fail(r) PROVE MessagesOK'
  <2> DEFINE e == IF r.op = "restart" THEN [op |-> "restart", ok |-> FALSE] ELSE [op |-> "err"]
  <2>1. e.op \in {"restart", "err"}
    OBVIOUS
  <2>2. asked' \subseteq asked /\ answers' = answers \cup {e}
    BY <1>9 DEF Fail
  <2> HIDE DEF e
  <2>3. Told(e)
    BY <2>1 DEF Told
  <2>4. \A q \in asked' : Sent(q)
    BY <2>2 DEF Typed, MessagesOK
  <2>5. \A a \in answers' : Told(a)
    BY <2>2, <2>3 DEF Typed, MessagesOK
  <2> QED
    BY <2>4, <2>5 DEF MessagesOK, Sent, Told, Window
<1>10. ASSUME NEW a \in answers, NEW R, Take(a, R), \A r \in R : Sent(r) PROVE MessagesOK'
  <2>1. asked' = asked \cup R /\ answers' \subseteq answers
    BY <1>10 DEF Take
  <2> QED
    BY <1>4, <1>10, <2>1
<1>11. ASSUME NEW a \in answers, OnSources(a) PROVE MessagesOK'
  <2>1. Take(a, Fetch(Current', ~Tailing))
    BY <1>11 DEF OnSources, Current
  <2>2. \A r \in Fetch(Current', ~Tailing) : Sent(r)
    BY <1>1, <1>2, FetchSends
  <2> QED
    BY <1>10, <2>1, <2>2
<1>12. ASSUME NEW a \in answers, OnStartup(a) PROVE MessagesOK'
  <2>1. Take(a, {}) \/ Take(a, Fetch(Current', ~Tailing))
    BY <1>12 DEF OnStartup, Current
  <2>2. \A r \in Fetch(Current', ~Tailing) : Sent(r)
    BY <1>1, <1>2, FetchSends
  <2> QED
    BY <1>10, <2>1, <2>2
<1>13. ASSUME NEW a \in answers, OnLogs(a) \/ OnTraces(a) \/ OnSpans(a) \/ OnSpan(a) \/ OnRestart(a) \/ OnErr(a)
       PROVE  MessagesOK'
  <2>1. Take(a, {})
    BY <1>13 DEF OnLogs, OnTraces, OnSpans, OnSpan, OnRestart, OnErr
  <2> QED
    BY <1>10, <2>1
<1>14. CASE SwitchTab
  <2>1. Key(Fetch(Current', ~Tailing))
    BY <1>14 DEF SwitchTab, Current
  <2>2. \A r \in Fetch(Current', ~Tailing) : Sent(r)
    BY <1>1, <1>2, FetchSends
  <2> QED
    BY <1>5, <2>1, <2>2
<1>15. CASE Scroll \/ NextMatch \/ OpenSearch \/ SearchKey \/ MoveInTraces \/ MoveInSpans \/ ChangeLevel
  <2>1. Key({})
    BY <1>15 DEF Scroll, NextMatch, OpenSearch, SearchKey, MoveInTraces, MoveInSpans, ChangeLevel
  <2> QED
    BY <1>5, <2>1
<1>16. CASE RestartKey
  <2>1. Key({AskRestart(Current)})
    BY <1>16 DEF RestartKey
  <2>2. \A r \in {AskRestart(Current)} : Sent(r)
    BY DEF AskRestart, Sent
  <2> QED
    BY <1>5, <2>1, <2>2
<1>17. CASE OpenTrace
  <2>1. Key({AskSpans(traceID')})
    BY <1>17 DEF OpenTrace
  <2>2. \A r \in {AskSpans(traceID')} : Sent(r)
    BY DEF AskSpans, Sent
  <2> QED
    BY <1>5, <2>1, <2>2
<1>18. CASE OpenSpan
  <2>1. Key({AskSpan(traceID, SelectedSpan)})
    BY <1>18 DEF OpenSpan
  <2>2. \A r \in {AskSpan(traceID, SelectedSpan)} : Sent(r)
    BY DEF AskSpan, Sent
  <2> QED
    BY <1>5, <2>1, <2>2
<1>19. CASE UNCHANGED vars
  BY <1>3, <1>19 DEF vars, net
<1> QED
  BY <1>6, <1>7, <1>8, <1>9, <1>11, <1>12, <1>13, <1>14, <1>15, <1>16, <1>17, <1>18, <1>19
     DEF Next, Deliver, OnOther, Press

LEMMA ScrollBounds ==
  ASSUME LogsOK
  PROVE  /\ Lines(logs) \in 0 .. MaxLines /\ MaxScroll(logs) \in 0 .. MaxLines
         /\ \A line \in MatchLines : Centred(line) \in 0 .. MaxLines
         /\ \A d \in Int : Max2(0, Min2(offset + d, MaxScroll(logs))) \in 0 .. MaxLines
<1>1. Height \in Nat /\ MaxLines \in Nat
  BY TuiAssumption DEF TuiAssumption
<1>2. Lines(logs) \in 0 .. MaxLines /\ MaxScroll(logs) \in 0 .. MaxLines
  BY <1>1 DEF LogsOK, Window, Lines, MaxScroll, Max2
<1>3. Height \div 2 \in Nat
  BY <1>1
<1>4. \A line \in MatchLines : Centred(line) \in 0 .. MaxLines
  BY <1>1, <1>2, <1>3 DEF MatchLines, Centred, Max2
<1>5. \A d \in Int : Max2(0, Min2(offset + d, MaxScroll(logs))) \in 0 .. MaxLines
  BY <1>1, <1>2 DEF LogsOK, Max2, Min2
<1> QED
  BY <1>2, <1>4, <1>5

LEMMA LogsStep == Typed /\ [Next]_vars => LogsOK'
<1> SUFFICES ASSUME Typed, [Next]_vars PROVE LogsOK'
  OBVIOUS
<1>1. LogsOK /\ DetailOK /\ Height \in Nat /\ MaxLines \in Nat
  BY TuiAssumption DEF Typed, TuiAssumption
<1>2. CASE UNCHANGED logVars
  BY <1>1, <1>2 DEF LogsOK, Window, logVars
<1>3. ASSUME UNCHANGED logs, offset' \in 0 .. MaxLines, autoScroll' \in BOOLEAN, pinnedTop' \in BOOLEAN,
             autoScroll' => offset' = 0 /\ ~pinnedTop'
      PROVE  LogsOK'
  BY <1>1, <1>3 DEF LogsOK, Window
<1>4. CASE Scroll
  <2>1. /\ UNCHANGED logs
        /\ (\E d \in {1, -1, Height, -Height} : ScrollBy(d)) \/ ScrollToTop \/ ScrollToBottom
    BY <1>4 DEF Scroll
  <2>2. ASSUME NEW d \in {1, -1, Height, -Height}, ScrollBy(d) PROVE LogsOK'
    <3>1. offset' \in 0 .. MaxLines /\ autoScroll' = (offset' = 0) /\ pinnedTop' = FALSE
      BY <1>1, <2>2, ScrollBounds DEF ScrollBy
    <3> QED
      BY <1>3, <2>1, <3>1
  <2>3. CASE ScrollToTop
    <3>1. offset' \in 0 .. MaxLines /\ autoScroll' = (offset' = 0) /\ pinnedTop' = ~autoScroll'
      BY <1>1, <2>3, ScrollBounds DEF ScrollToTop
    <3> QED
      BY <1>3, <2>1, <3>1
  <2>4. CASE ScrollToBottom
    <3>1. offset' \in 0 .. MaxLines /\ offset' = 0 /\ autoScroll' = TRUE /\ pinnedTop' = FALSE
      BY <1>1, <2>4 DEF ScrollToBottom
    <3> QED
      BY <1>3, <2>1, <3>1
  <2> QED
    BY <2>1, <2>2, <2>3, <2>4
<1>5. ASSUME JumpToMatch, UNCHANGED logs PROVE LogsOK'
  <2>1. offset' \in 0 .. MaxLines /\ autoScroll' = FALSE /\ pinnedTop' = pinnedTop
    BY <1>1, <1>5, ScrollBounds DEF JumpToMatch
  <2> QED
    BY <1>1, <1>3, <1>5, <2>1 DEF LogsOK
<1>6. CASE SearchKey \/ NextMatch
  BY <1>2, <1>5, <1>6 DEF SearchKey, NextMatch, logVars
<1>7. ASSUME NEW a \in answers, OnLogs(a) PROVE LogsOK'
  <2>1. CASE ~Wanted(a)
    BY <1>2, <1>7, <2>1 DEF OnLogs, logVars
  <2>2. CASE Wanted(a)
    <3>1. /\ logs' = [src |-> a.src, full |-> a.full, lo |-> a.lo, hi |-> a.hi]
          /\ offset' = IF autoScroll THEN 0
                       ELSE IF pinnedTop THEN MaxScroll(logs')
                       ELSE Min2(offset, MaxScroll(logs'))
          /\ UNCHANGED <<autoScroll, pinnedTop>>
      BY <1>7, <2>2 DEF OnLogs
    <3>2. a.src \in Names /\ a.full \in BOOLEAN /\ Window(a)
      BY <1>7 DEF OnLogs, Typed, MessagesOK, Told
    <3>3. logs'.src \in Names /\ logs'.full \in BOOLEAN /\ Window(logs')
      BY <3>1, <3>2 DEF Window
    <3>4. MaxScroll(logs') \in 0 .. MaxLines
      BY <1>1, <3>3 DEF Window, MaxScroll, Lines, Max2
    <3>5. offset' \in 0 .. MaxLines
      BY <1>1, <3>1, <3>4 DEF LogsOK, Min2
    <3> QED
      BY <1>1, <3>1, <3>3, <3>5 DEF LogsOK, Window
  <2> QED
    BY <2>1, <2>2
<1> QED
  BY <1>2, <1>4, <1>6, <1>7, WhoWrites

LEMMA ListStep == Typed /\ [Next]_vars => ListOK'
<1> SUFFICES ASSUME Typed, [Next]_vars PROVE ListOK'
  OBVIOUS
<1>1. ListOK /\ Height \in Nat
  BY TuiAssumption DEF Typed, TuiAssumption
<1>2. CASE UNCHANGED listVars
  BY <1>1, <1>2 DEF ListOK, listVars
<1>3. CASE MoveInTraces
  BY <1>1, <1>3 DEF MoveInTraces, ListOK, Max2, Min2
<1>4. ASSUME NEW a \in answers, OnTraces(a) PROVE ListOK'
  <2>1. a.list \in Seq(Traces)
    BY <1>4 DEF OnTraces, Typed, MessagesOK, Told
  <2>2. traces' = a.list /\ traceIdx' = Clamp(Reselected(a.list), Len(a.list))
    BY <1>4 DEF OnTraces
  <2>3. Reselected(a.list) \in Int
    BY <1>1, <2>1, ReselectedIsIndex DEF ListOK
  <2>4. traceIdx' \in 0 .. Max2(0, Len(a.list) - 1)
    BY <2>1, <2>2, <2>3, ClampTyped
  <2> QED
    BY <2>1, <2>2, <2>4 DEF ListOK, Max2
<1> QED
  BY <1>2, <1>3, <1>4, WhoWrites

LEMMA DetailStep == Typed /\ [Next]_vars => DetailOK'
<1> SUFFICES ASSUME Typed, [Next]_vars PROVE DetailOK'
  OBVIOUS
<1>1. DetailOK /\ SpanCount \in Nat \ {0} /\ None \notin Traces
  BY TuiAssumption DEF Typed, TuiAssumption
<1>2. CASE UNCHANGED <<findVars, detail>>
  BY <1>1, <1>2 DEF DetailOK, findVars, detail
<1>3. CASE OpenSearch
  BY <1>1, <1>3 DEF OpenSearch, DetailOK, detail
<1>4. CASE SearchKey
  BY <1>1, <1>4 DEF SearchKey, DetailOK, detail
<1>5. CASE OpenTrace
  <2>1. At(traces, traceIdx) \in Traces \cup {Nothing}
    <3>1. traces \in Seq(Traces) /\ traceIdx \in Int
      BY DEF Typed, ListOK
    <3> QED
      BY <3>1, AtTyped
  <2>2. traceID' \in Traces
    BY <1>5, <2>1 DEF OpenTrace
  <2> QED
    BY <1>1, <1>5, <2>2 DEF OpenTrace, DetailOK
<1>6. CASE MoveInSpans
  BY <1>1, <1>6 DEF MoveInSpans, DetailOK, findVars, Max2, Min2
<1>7. CASE OpenSpan \/ ChangeLevel
  BY <1>1, <1>7 DEF OpenSpan, ChangeLevel, DetailOK, detail
<1>8. ASSUME NEW a \in answers, OnSpans(a) PROVE DetailOK'
  <2>1. a.n \in {0, SpanCount}
    BY <1>8 DEF OnSpans, Typed, MessagesOK, Told
  <2> QED
    BY <1>1, <1>8, <2>1 DEF OnSpans, Take, DetailOK, findVars
<1>9. ASSUME NEW a \in answers, OnSpan(a) PROVE DetailOK'
  BY <1>1, <1>9 DEF OnSpan, Take, DetailOK, findVars
<1> QED
  BY <1>2, <1>3, <1>4, <1>5, <1>6, <1>7, <1>8, <1>9, WhoWrites

LEMMA StartupStep == Typed /\ [Next]_vars => StartupOK'
<1> SUFFICES ASSUME Typed, [Next]_vars PROVE StartupOK'
  OBVIOUS
<1>1. StartupOK
  BY DEF Typed
<1>2. CASE UNCHANGED <<startup, failed>>
  BY <1>1, <1>2 DEF StartupOK, startup
<1>3. ASSUME NEW a \in answers, OnStartup(a) PROVE StartupOK'
  <2>1. failed' = failed
    BY <1>3 DEF OnStartup
  <2>2. CASE startupActive' = startupActive /\ handedOver' = handedOver
    BY <1>1, <2>1, <2>2 DEF StartupOK
  <2>3. CASE startupActive' = TRUE /\ (handedOver' = TRUE \/ handedOver' = handedOver)
    BY <1>1, <2>1, <2>3 DEF StartupOK
  <2> QED
    BY <1>3, <2>2, <2>3 DEF OnStartup, startup
<1>4. ASSUME NEW a \in answers, OnErr(a) PROVE StartupOK'
  <2>1. failed' = TRUE /\ startupActive' = startupActive /\ handedOver' = handedOver
    BY <1>4 DEF OnErr, startup
  <2> QED
    BY <1>1, <2>1 DEF StartupOK
<1> QED
  BY <1>2, <1>3, <1>4, WhoWrites

LEMMA TypedStep == Typed /\ [Next]_vars => Typed'
BY WorldStep, MessagesStep, TabsStep, LogsStep, ListStep, DetailStep, StartupStep DEF Typed

-----------------------------------------------------------------------------
(* ScrolledSeesAll.                                                        *)

\* Whoever looks at a log off its tail has asked for all of it.
LEMMA FetchesFull ==
  ASSUME Typed, [Next]_vars, ~Tailing, Current' \in Names, Fetch(Current', ~Tailing) \subseteq asked'
  PROVE  FullLog' \in asked'
<1>1. Current' \in Tabs \cup {Nothing}
  BY DEF Tabs
<1>2. AskLogs(Current', ~Tailing) \in asked'
  BY <1>1, FetchSends
<1>3. AskLogs(Current', ~Tailing) = AskLogs(Current', TRUE)
  BY DEF AskLogs
<1> QED
  BY <1>2, <1>3 DEF FullLog, AskLogs

LEMMA ScrolledStep == Typed /\ ScrolledSeesAll /\ [Next]_vars => ScrolledSeesAll'
<1> SUFFICES ASSUME Typed, ScrolledSeesAll, [Next]_vars,
                    ~Tailing', ~failed', Current' \in Names, logs'.src = Current', ~logs'.full
             PROVE  \/ FullLog' \in asked'
                    \/ \E a \in answers' : a.op = "err" \/ (a.op = "logs" /\ a.src = Current' /\ a.full)
  BY DEF ScrolledSeesAll
<1> DEFINE Coming == \/ FullLog' \in asked'
                     \/ \E a \in answers' : a.op = "err" \/ (a.op = "logs" /\ a.src = Current' /\ a.full)
<1> SUFFICES Coming
  OBVIOUS
<1>1. /\ failed \in BOOLEAN /\ Current \in Tabs \cup {Nothing}
  BY TabSelected DEF Typed, StartupOK
<1>2. ASSUME ~Tailing, ~failed, Current' = Current, logs' = logs, FullLog \in asked => FullLog \in asked',
             \A a \in answers : a.op \in {"err", "logs"} => a \in answers'
      PROVE  Coming
  <2>1. \/ FullLog \in asked
        \/ \E a \in answers : a.op = "err" \/ (a.op = "logs" /\ a.src = Current /\ a.full)
    BY <1>2 DEF ScrolledSeesAll
  <2>2. FullLog' = FullLog
    BY <1>2 DEF FullLog, AskLogs
  <2> QED
    BY <1>2, <2>1, <2>2
<1>3. ASSUME NEW R, Key(R), Current' = Current, logs' = logs PROVE Coming
  <2>1. asked' = asked \cup R \cup LeavesTail /\ answers' = answers /\ failed' = failed
    BY <1>3 DEF Key
  <2>2. CASE ~Tailing
    BY <1>2, <1>3, <2>1, <2>2
  <2>3. CASE Tailing
    <3>1. LeavesTail = {AskLogs(Current', TRUE)}
      BY <1>1, <1>3, <2>3, FetchSends DEF LeavesTail
    <3> QED
      BY <2>1, <3>1 DEF FullLog, AskLogs
  <2> QED
    BY <2>2, <2>3
<1>4. CASE Tick
  <2>1. ~Tailing /\ ~failed /\ Current' = Current /\ logs' = logs
    BY <1>4 DEF Tick, tabVars, logVars, findVars, Current, Tailing
  <2>2. FullLog \in asked => FullLog \in asked'
    BY <1>4 DEF Tick
  <2>3. answers' = answers
    BY <1>4 DEF Tick
  <2> QED
    BY <1>2, <2>1, <2>2, <2>3
<1>5. CASE Changes
  <2>1. UNCHANGED <<net, tabVars, logVars, findVars, failed>>
    BY <1>5 DEF Changes, LogWritten, LogEvicted, TraceStored, TraceExpired, UpChanges, Turn
  <2> QED
    BY <1>2, <2>1 DEF net, tabVars, logVars, findVars, Current, Tailing
<1>6. ASSUME NEW r \in asked, Serve(r) PROVE Coming
  <2>1. UNCHANGED <<tabVars, logVars, findVars, failed>> /\ asked' = asked \ {r} /\ answers' = answers \cup {Answer(r)}
    BY <1>6 DEF Serve
  <2>2. Current' = Current /\ logs' = logs /\ ~Tailing /\ ~failed
    BY <2>1 DEF tabVars, logVars, findVars, Current, Tailing
  <2>3. CASE r = FullLog
    <3>1. r.op = "logs" /\ r.src = Current /\ r.full = TRUE
      BY <2>3 DEF FullLog, AskLogs
    <3>2. Answer(r) = LogsNow(Current, TRUE)
      BY <3>1 DEF Answer
    <3>3. Answer(r).op = "logs" /\ Answer(r).src = Current /\ Answer(r).full
      BY <3>2 DEF LogsNow
    <3> QED
      BY <2>1, <2>2, <3>3
  <2>4. CASE r # FullLog
    BY <1>2, <2>1, <2>2, <2>4
  <2> QED
    BY <2>3, <2>4
<1>7. ASSUME NEW r \in asked, Fail(r) PROVE Coming
  <2>1. /\ UNCHANGED <<tabVars, logVars, findVars, failed>> /\ asked' = asked \ {r}
        /\ answers' = answers \cup {IF r.op = "restart" THEN [op |-> "restart", ok |-> FALSE]
                                                        ELSE [op |-> "err"]}
    BY <1>7 DEF Fail
  <2>2. Current' = Current /\ logs' = logs /\ ~Tailing /\ ~failed
    BY <2>1 DEF tabVars, logVars, findVars, Current, Tailing
  <2>3. CASE r = FullLog
    <3>1. r.op = "logs"
      BY <2>3 DEF FullLog, AskLogs
    <3>2. [op |-> "err"] \in answers'
      BY <2>1, <3>1
    <3> QED
      BY <3>2
  <2>4. CASE r # FullLog
    BY <1>2, <2>1, <2>2, <2>4
  <2> QED
    BY <2>3, <2>4
<1>8. ASSUME NEW a \in answers, OnSources(a) PROVE Coming
  <2>1. Take(a, Fetch(Current', ~Tailing)) /\ UNCHANGED logVars
    BY <1>8 DEF OnSources, Current
  <2>2. Fetch(Current', ~Tailing) \subseteq asked' /\ ~Tailing
    BY <2>1 DEF Take, findVars, logVars, Tailing
  <2> QED
    BY <2>2, FetchesFull
<1>9. ASSUME NEW a \in answers, OnStartup(a) PROVE Coming
  <2>1. UNCHANGED <<logs, autoScroll, query, failed>> /\ ~Tailing
    BY <1>9 DEF OnStartup, Take, findVars, logVars, Tailing
  <2>2. CASE UNCHANGED tabVars /\ Take(a, {})
    <3>1. Current' = Current /\ asked \subseteq asked' /\ answers' = answers \ {a} /\ a.op = "startup"
      BY <1>9, <2>2 DEF OnStartup, Take, tabVars, Current
    <3> QED
      BY <1>2, <2>1, <3>1
  <2>3. CASE ~(UNCHANGED tabVars /\ Take(a, {}))
    <3>1. CASE Take(a, Fetch(Current', ~Tailing))
      BY <2>1, <3>1, FetchesFull DEF Take
    <3>2. CASE ~Take(a, Fetch(Current', ~Tailing))
      <4>1. /\ tabs' = IF startupActive THEN tabs ELSE WithStartupTab(tabs)
            /\ sel' = IF startupActive THEN sel ELSE 0
            /\ Take(a, {})
        BY <1>9, <2>3, <3>2 DEF OnStartup, Current
      <4>2. ~startupActive
        BY <2>3, <4>1 DEF tabVars
      <4>3. Current' = StartupTab
        BY <4>1, <4>2, ListsTyped DEF Typed, Current
      <4> QED
        BY <4>3, TuiAssumption DEF TuiAssumption
    <3> QED
      BY <3>1, <3>2
  <2> QED
    BY <2>2, <2>3
<1>10. ASSUME NEW a \in answers, OnLogs(a) PROVE Coming
  <2>1. /\ UNCHANGED <<tabs, sel, autoScroll, query, failed, asked>> /\ answers' = answers \ {a} /\ a.op = "logs"
        /\ ~Tailing /\ Current' = Current
    BY <1>10 DEF OnLogs, Take, findVars, tabVars, Tailing, Current
  <2>2. CASE Wanted(a)
    <3>1. logs'.full = a.full /\ a.full
      BY <1>10, <2>1, <2>2 DEF OnLogs, Wanted
    <3> QED
      BY <3>1
  <2>3. CASE ~Wanted(a)
    <3>1. logs' = logs /\ ~(a.src = Current /\ a.full)
      BY <1>10, <2>3 DEF OnLogs, Wanted
    <3>2. \/ FullLog \in asked
          \/ \E b \in answers : b.op = "err" \/ (b.op = "logs" /\ b.src = Current /\ b.full)
      BY <2>1, <3>1 DEF ScrolledSeesAll
    <3>3. FullLog' = FullLog
      BY <2>1 DEF FullLog, AskLogs
    <3> QED
      BY <2>1, <3>1, <3>2, <3>3
  <2> QED
    BY <2>2, <2>3
<1>11. ASSUME NEW a \in answers, OnTraces(a) \/ OnSpans(a) \/ OnSpan(a) \/ OnRestart(a) PROVE Coming
  <2>1. /\ UNCHANGED <<tabVars, logVars, findVars, failed>> /\ answers' = answers \ {a}
        /\ asked \subseteq asked' /\ a.op \notin {"err", "logs"}
    BY <1>11 DEF OnTraces, OnSpans, OnSpan, OnRestart, Take
  <2> QED
    BY <1>2, <2>1 DEF tabVars, logVars, findVars, Current, Tailing
<1>12. ASSUME NEW a \in answers, OnErr(a) PROVE Coming
  BY <1>12 DEF OnErr
<1>13. CASE SwitchTab
  <2>1. Key(Fetch(Current', ~Tailing)) /\ UNCHANGED <<logVars, findVars>>
    BY <1>13 DEF SwitchTab, Current
  <2>2. Fetch(Current', ~Tailing) \subseteq asked' /\ ~Tailing
    BY <2>1 DEF Key, findVars, logVars, Tailing
  <2> QED
    BY <2>2, FetchesFull
<1>14. ASSUME Press, ~SwitchTab PROVE Coming
  <2>1. UNCHANGED <<logs, tabs, sel>>
    BY <1>14 DEF Press, Scroll, NextMatch, OpenSearch, SearchKey, RestartKey, MoveInTraces, OpenTrace,
       MoveInSpans, OpenSpan, ChangeLevel, tabVars, logVars
  <2>2. \E R : Key(R)
    BY <1>14 DEF Press, Scroll, NextMatch, OpenSearch, SearchKey, RestartKey, MoveInTraces, OpenTrace,
       MoveInSpans, OpenSpan, ChangeLevel
  <2> QED
    BY <1>3, <2>1, <2>2 DEF Current
<1>15. CASE UNCHANGED vars
  BY <1>2, <1>15 DEF vars, net, tabVars, logVars, findVars, Current, Tailing
<1> HIDE DEF Coming
<1> QED
  BY <1>4, <1>5, <1>6, <1>7, <1>8, <1>9, <1>10, <1>11, <1>12, <1>13, <1>14, <1>15 DEF Next, Deliver, OnOther

-----------------------------------------------------------------------------
(* SpanOfOpenTrace.                                                        *)

LEMMA SpanStep == Typed /\ SpanOfOpenTrace /\ [Next]_vars => SpanOfOpenTrace'
<1> SUFFICES ASSUME Typed, SpanOfOpenTrace, [Next]_vars PROVE SpanOfOpenTrace'
  OBVIOUS
<1> USE DEF SpanOfOpenTrace
<1>1. CASE UNCHANGED <<findVars, detail>>
  BY <1>1 DEF findVars, detail
<1>2. CASE OpenSearch \/ SearchKey
  BY <1>2 DEF OpenSearch, SearchKey, detail
<1>3. CASE OpenTrace \/ MoveInSpans
  BY <1>3 DEF OpenTrace, MoveInSpans, findVars
<1>4. CASE OpenSpan \/ ChangeLevel
  BY <1>4 DEF OpenSpan, ChangeLevel, detail
<1>5. ASSUME NEW a \in answers, OnSpans(a) \/ OnSpan(a) PROVE SpanOfOpenTrace'
  BY <1>5 DEF OnSpans, OnSpan, Take, Accepts, findVars
<1> QED
  BY <1>1, <1>2, <1>3, <1>4, <1>5, WhoWrites

-----------------------------------------------------------------------------
(* StaysPut.                                                               *)

LEMMA KeptTrace ==
  ASSUME Typed, [Next]_vars, keys' = keys, ~Following, At(traces, traceIdx) \in ToSet(traces')
  PROVE  At(traces', traceIdx') = At(traces, traceIdx)
<1> DEFINE was == At(traces, traceIdx)
<1>1. CASE UNCHANGED listVars
  BY <1>1 DEF listVars
<1>2. ~MoveInTraces
  BY DEF MoveInTraces, Key, Typed, WorldOK
<1>3. ASSUME NEW a \in answers, OnTraces(a) PROVE At(traces', traceIdx') = was
  <2> DEFINE list == a.list
             at   == {i \in 1 .. Len(list) : list[i] = was}
             k    == CHOOSE i \in at : TRUE
  <2>1. list \in Seq(Traces) /\ traces' = list /\ traceIdx' = Clamp(Reselected(list), Len(list))
    BY <1>3 DEF OnTraces, Typed, MessagesOK, Told
  <2>2. at # {}
    BY <2>1 DEF ToSet
  <2>3. k \in 1 .. Len(list) /\ list[k] = was
    BY <2>2
  <2>4. Reselected(list) = k - 1
    BY <2>2 DEF Reselected
  <2> HIDE DEF k, list, was
  <2>5. k - 1 \in Int /\ Len(list) \in Nat /\ k - 1 \in 0 .. Max2(0, Len(list) - 1) /\ k - 1 \in 0 .. Len(list) - 1
    BY <2>1, <2>3 DEF Max2
  <2>6. traceIdx' = k - 1
    BY <2>1, <2>4, <2>5, ClampTyped
  <2>7. At(list, k - 1) = list[(k - 1) + 1]
    BY <2>1, <2>5, AtTyped
  <2>8. (k - 1) + 1 = k
    BY <2>3, <2>1
  <2> QED
    BY <2>1, <2>3, <2>6, <2>7, <2>8
<1> QED
  BY <1>1, <1>2, <1>3, WhoWrites

LEMMA TabKept ==
  ASSUME Typed, [Next]_vars, handedOver, keys' = keys, tabs' = tabs
  PROVE  sel' = sel
<1>1. CASE UNCHANGED tabVars
  BY <1>1 DEF tabVars
<1>2. ~SwitchTab
  BY DEF SwitchTab, Key, Typed, WorldOK
<1>3. ASSUME NEW a \in answers, OnSources(a) PROVE sel' = sel
  <2>1. sel' = Clamp(sel, Len(tabs))
    BY <1>3 DEF OnSources
  <2>2. sel \in Int /\ Len(tabs) \in Nat /\ sel \in 0 .. Max2(0, Len(tabs) - 1)
    BY DEF Typed, TabsOK, Max2
  <2> QED
    BY <2>1, <2>2, ClampTyped
<1>4. ASSUME NEW a \in answers, OnStartup(a) PROVE sel' = sel
  <2>1. startupActive
    BY DEF Typed, StartupOK
  <2> QED
    BY <1>4, <2>1 DEF OnStartup, HandsOver, tabVars
<1> QED
  BY <1>1, <1>2, <1>3, <1>4, WhoWrites

-----------------------------------------------------------------------------
(* The theorems.                                                           *)

LEMMA InitOK == Init => Typed /\ SpanOfOpenTrace /\ ScrolledSeesAll
<1> SUFFICES ASSUME Init PROVE Typed /\ SpanOfOpenTrace /\ ScrolledSeesAll
  OBVIOUS
<1>1. /\ work.lines \in [Names -> 0 .. MaxLines] /\ work.stored \in Seq(Traces) /\ MaxLines \in Nat
      /\ SpanCount \in Nat \ {0}
  BY WorkloadAssumption, TuiAssumption DEF Init, WorkloadAssumption, TuiAssumption
<1>2. WorldOK
  <2>1. buf \in [Names -> [lo : Nat, hi : Nat]]
    BY <1>1 DEF Init
  <2>2. \A s \in Names : Window(buf[s])
    BY <1>1 DEF Init, Window
  <2> QED
    BY <1>1, <2>1, <2>2, WorkloadAssumption DEF Init, WorldOK, WorkloadAssumption
<1>3. MessagesOK
  BY DEF Init, MessagesOK, Told, Sent, AskSources, AskStartup
<1>4. TabsOK
  BY DEF Init, TabsOK, Max2
<1>5. LogsOK
  <2>1. /\ logs.src = Nothing /\ logs.full \in BOOLEAN /\ Window(logs)
        /\ autoScroll \in BOOLEAN /\ pinnedTop \in BOOLEAN /\ ~pinnedTop
    <3>1. logs.src = Nothing /\ logs.full = FALSE /\ logs.lo = 1 /\ logs.hi = 0
      BY DEF Init
    <3>2. autoScroll \in BOOLEAN /\ pinnedTop \in BOOLEAN /\ ~pinnedTop
      BY DEF Init
    <3>3. Window(logs)
      BY <1>1, <3>1 DEF Window
    <3> QED
      BY <3>1, <3>2, <3>3
  <2>2. offset = 0
    BY DEF Init
  <2> QED
    BY <1>1, <2>1, <2>2 DEF LogsOK
<1>6. ListOK /\ DetailOK /\ StartupOK
  <2>1. ListOK
    BY DEF Init, ListOK
  <2>2. DetailOK
    <3>1. mode = "Normal" /\ query \in BOOLEAN /\ traceID = None /\ spans.n = 0 /\ cursor = 0
      BY DEF Init
    <3> QED
      BY <1>1, <3>1 DEF DetailOK
  <2>3. StartupOK
    BY DEF Init, StartupOK
  <2> QED
    BY <2>1, <2>2, <2>3
<1>7. SpanOfOpenTrace /\ ScrolledSeesAll
  BY DEF Init, SpanOfOpenTrace, ScrolledSeesAll, Tailing
<1> QED
  BY <1>2, <1>3, <1>4, <1>5, <1>6, <1>7 DEF Typed

LEMMA TypedIsTypeOK == Typed => TypeOK
BY DEF Typed, TabsOK, LogsOK, ListOK, DetailOK, StartupOK, TypeOK, Tabs

\* Whatever answers come in whatever order, what is selected exists, and the
\* span that is shown belongs to the trace that is open.
THEOREM SelectionIsSound == Spec => []SelectionSound
<1>1. Init => Typed /\ SpanOfOpenTrace
  BY InitOK
<1>2. Typed /\ SpanOfOpenTrace /\ [Next]_vars => (Typed /\ SpanOfOpenTrace)'
  BY TypedStep, SpanStep
<1>3. Typed /\ SpanOfOpenTrace => SelectionSound
  BY TypedIsTypeOK DEF SelectionSound
<1> QED
  BY <1>1, <1>2, <1>3, PTL DEF Spec

\* Whoever has scrolled up or searches is shown the whole log, or it is on its
\* way, however many answers are under way.
THEOREM ScrolledIsShownAll == Spec => []ScrolledSeesAll
<1>1. Init => Typed /\ ScrolledSeesAll
  BY InitOK
<1>2. Typed /\ ScrolledSeesAll /\ [Next]_vars => (Typed /\ ScrolledSeesAll)'
  BY TypedStep, ScrolledStep
<1> QED
  BY <1>1, <1>2, PTL DEF Spec

\* What arrives by itself moves nobody: neither off a trace that is still
\* there, nor off a tab once the startup screen has handed over.
THEOREM SelectionStaysPut == Spec => StaysPut
<1> DEFINE Trace == LET was == At(traces, traceIdx)
                    IN  keys' = keys /\ ~Following /\ was \in ToSet(traces') => At(traces', traceIdx') = was
           Tab == handedOver /\ keys' = keys /\ tabs' = tabs => sel' = sel
<1>1. Init => Typed
  BY InitOK
<1>2. Typed /\ [Next]_vars => Typed'
  BY TypedStep
<1>3. Typed /\ [Next]_vars => [Trace]_vars
  BY KeptTrace
<1>4. Typed /\ [Next]_vars => [Tab]_vars
  BY TabKept
<1>5. Spec => [][Trace]_vars /\ [][Tab]_vars
  BY <1>1, <1>2, <1>3, <1>4, PTL DEF Spec
<1> QED
  BY <1>5 DEF StaysPut, KeepsTrace, LeftInPeace

=============================================================================
