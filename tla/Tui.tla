-------------------------------- MODULE Tui --------------------------------
(***************************************************************************)
(* The terminal interface (cmd/running-man/tui*.go) and the API handlers   *)
(* it polls (internal/api/server.go).  Update handles one message at a     *)
(* time; every fetch it starts is a goroutine of its own whose answer      *)
(* comes back as a later message, in any order, and tells what the         *)
(* instance held when the handler ran, not when the answer is applied.     *)
(*                                                                         *)
(* A tab is a name; a log entry is its number in its source, so that a     *)
(* fetched log is an interval; a trace is a name with SpanCount spans.     *)
(* Left out: the end of the program (see Supervisor), what is drawn, the   *)
(* scroll offsets of the trace views, and the logs of the open trace,      *)
(* which are fetched and kept beside its spans.                            *)
(***************************************************************************)
EXTENDS Integers, Sequences, FiniteSets, SequencesExt

CONSTANTS Names,       \* every log source
          Sorted,      \* sortSourcesWithTypes: each set of them, in the order of the tabs
          Processes,   \* the sources that are processes started here
          Traces,      \* trace IDs
          Workloads,   \* what an instance may be doing; see Init
          SpanCount,   \* spans of each trace
          LiveLimit,   \* liveFetchLimit
          Height,      \* rows of the log window
          MaxLines,    \* bound: lines a source writes
          MaxFlight    \* bound: fetches under way when a tick fires

TracesTab == "Traces"
StartupTab == "Startup"
None == "none"
Nothing == ""

ASSUME TuiAssumption ==
  /\ Sorted \in [SUBSET Names -> Seq(Names)]
  /\ \A names \in SUBSET Names : ToSet(Sorted[names]) = names
  /\ Processes \subseteq Names
  /\ {TracesTab, StartupTab, None, Nothing} \cap Names = {} /\ {None, Nothing} \cap Traces = {}
  /\ SpanCount \in Nat \ {0} /\ LiveLimit \in Nat \ {0} /\ Height \in Nat \ {0}
  /\ MaxLines \in Nat /\ MaxFlight \in Nat

ASSUME WorkloadAssumption ==
  \A w \in Workloads :
    /\ w.sends \subseteq Names \cup Traces /\ w.gated \in BOOLEAN
    /\ w.lines \in [Names -> 0 .. MaxLines] /\ w.stored \in Seq(Traces)
    /\ w.turns \in Nat /\ w.keys \in Nat /\ w.faults \in Nat

VARIABLES
  work,        \* the workload of this instance
  buf,         \* source -> [lo, hi]: the entries the ring buffer holds
  kept,        \* traces the span store holds, oldest first
  up,          \* every row of the startup screen is up
  asked,       \* requests on their way to the API
  answers,     \* messages on their way to Update
  tabs, sel,   \* m.sources and m.selectedSource (0-based)
  logs,        \* m.logs: [src, full, lo, hi]
  offset, autoScroll, pinnedTop,
  mode, query, \* m.mode; whether m.searchQuery is not empty
  traces, traceIdx,           \* m.traces (oldest first), m.selectedTraceIdx
  traceID, spans,             \* m.selectedTraceID, m.traceSpans
  cursor, spanFull,           \* m.traceCursor, m.spanFull
  startupActive, handedOver,  \* m.startupActive, m.startupHandedOver
  failed,      \* m.err is set: only the error is drawn from here on
  turns, keys, faults         \* what the bounds count

world     == <<work, buf, kept, up, turns>>
net       == <<asked, answers>>
tabVars   == <<tabs, sel>>
logVars   == <<logs, offset, autoScroll, pinnedTop>>
findVars  == <<mode, query>>
listVars  == <<traces, traceIdx>>
detail    == <<traceID, spans, cursor, spanFull>>
startup   == <<startupActive, handedOver>>
vars      == <<world, net, tabVars, logVars, findVars, listVars, detail,
               startup, failed, keys, faults>>

----------------------------------------------------------------------------
(* State read by several handlers                                          *)

Min2(a, b) == IF a < b THEN a ELSE b
Max2(a, b) == IF a > b THEN a ELSE b

\* currentSource: nothing when the index is out of range.
At(list, i) == IF i \in 0 .. Len(list) - 1 THEN list[i + 1] ELSE Nothing
Current == At(tabs, sel)

Tailing == autoScroll /\ ~query

\* clampSelectedSource and clampSelectedTrace.
Clamp(i, n) == Max2(0, Min2(i, n - 1))

Lines(l) == l.hi - l.lo + 1
MaxScroll(l) == Max2(0, Lines(l) - Height)

\* The requests: fetchSources, fetchStartup, fetchLogs, fetchTraces,
\* fetchTraceSpans, fetchSpan and restartProcess.
AskSources         == [op |-> "sources"]
AskStartup         == [op |-> "startup"]
AskLogs(s, full)   == [op |-> "logs", src |-> s, full |-> full]
AskTraces          == [op |-> "traces"]
AskSpans(t)        == [op |-> "spans", trace |-> t]
AskSpan(t, sp)     == [op |-> "span", trace |-> t, span |-> sp]
AskRestart(s)      == [op |-> "restart", src |-> s]

\* Mutant: the live window is asked for whatever the view wants.
FetchLive(tab, full) ==
  CASE tab = Nothing    -> {}
    [] tab = TracesTab  -> {AskTraces}
    [] tab = StartupTab -> {AskStartup}
    [] OTHER            -> {AskLogs(tab, FALSE)}

\* fetchForSelectedSource: what Update asks for when `tab` is selected.
Fetch(tab, full) ==
  CASE tab = Nothing    -> {}
    [] tab = TracesTab  -> {AskTraces}
    [] tab = StartupTab -> {AskStartup}
    [] OTHER            -> {AskLogs(tab, full)}

SelectedSpan ==
  IF cursor \in 0 .. spans.n - 1 THEN <<spans.trace, cursor>> ELSE <<>>

----------------------------------------------------------------------------
(* What the instance holds, and the handlers that read it                  *)

\* A workload: the traces and the lines of each source there already are when
\* the interface starts; the sources and traces that may still come; whether
\* anything has dependencies; and the bounds on changes, keys and failures.
Init ==
  /\ work \in Workloads
  /\ up \in BOOLEAN /\ (up => work.gated)
  /\ buf = [s \in Names |-> [lo |-> 1, hi |-> work.lines[s]]]
  /\ kept = work.stored
  /\ asked = {AskSources, AskStartup}
  /\ answers = {}
  /\ tabs = <<>> /\ sel = 0
  /\ logs = [src |-> Nothing, full |-> FALSE, lo |-> 1, hi |-> 0]
  /\ offset = 0 /\ autoScroll = TRUE /\ pinnedTop = FALSE
  /\ mode = "Normal" /\ query = FALSE
  /\ traces = <<>> /\ traceIdx = 0
  /\ traceID = None /\ spans = [trace |-> None, n |-> 0]
  /\ cursor = 0 /\ spanFull = <<>>
  /\ startupActive = FALSE /\ handedOver = FALSE
  /\ failed = FALSE
  /\ turns = 0 /\ keys = 0 /\ faults = 0

Turn ==
  /\ turns < work.turns /\ turns' = turns + 1
  /\ UNCHANGED <<work, net, tabVars, logVars, findVars, listVars,
                 detail, startup, failed, keys, faults>>

\* The ring buffer gains an entry of s, or loses its oldest to retention.
LogWritten(s) ==
  /\ Turn /\ s \in work.sends /\ buf[s].hi < MaxLines
  /\ buf' = [buf EXCEPT ![s].hi = @ + 1]
  /\ UNCHANGED <<kept, up>>

LogEvicted(s) ==
  /\ Turn /\ buf[s].lo <= buf[s].hi
  /\ buf' = [buf EXCEPT ![s].lo = @ + 1]
  /\ UNCHANGED <<kept, up>>

TraceStored(t) ==
  /\ Turn /\ t \in work.sends /\ t \notin ToSet(kept)
  /\ kept' = Append(kept, t)
  /\ UNCHANGED <<buf, up>>

TraceExpired ==
  /\ Turn /\ kept # <<>>
  /\ kept' = Tail(kept)
  /\ UNCHANGED <<buf, up>>

\* The processes come up, or one of them goes down again.
UpChanges ==
  /\ Turn /\ work.gated
  /\ up' = ~up
  /\ UNCHANGED <<buf, kept>>

\* handleHealth (GetSources): a source is listed while the buffer holds an
\* entry of it.
Listed == {s \in Names : buf[s].lo <= buf[s].hi}

SourcesNow == [op |-> "sources", names |-> Listed]

\* handleProcesses, and what startupUp makes of the rows.
StartupNow == [op |-> "startup", active |-> work.gated, up |-> up]

\* handleTraces; the TUI turns the list around, oldest first.
TracesNow == [op |-> "traces", list |-> kept]

\* handleProcessRestart: only a process can be restarted.
Restarted(s) == [op |-> "restart", ok |-> s \in Processes]

\* handleLogs: the newest LiveLimit entries, or all of them (limit=0).
LogsNow(s, full) ==
  [op |-> "logs", src |-> s, full |-> full, hi |-> buf[s].hi,
   lo |-> IF full THEN buf[s].lo ELSE Max2(buf[s].lo, buf[s].hi - LiveLimit + 1)]

\* handleTraceSpans and handleSpan: one that has expired is answered with an
\* error body, which the TUI decodes as no spans and as an empty span.
SpansNow(t) ==
  [op |-> "spans", trace |-> t, n |-> IF t \in ToSet(kept) THEN SpanCount ELSE 0]

SpanNow(t, sp) ==
  [op |-> "span", trace |-> t,
   span |-> IF t \in ToSet(kept) /\ sp[1] = t THEN sp ELSE <<None, 0>>]

Answer(r) ==
  CASE r.op = "sources"   -> SourcesNow
    [] r.op = "startup"   -> StartupNow
    [] r.op = "logs"      -> LogsNow(r.src, r.full)
    [] r.op = "traces"    -> TracesNow
    [] r.op = "spans"     -> SpansNow(r.trace)
    [] r.op = "span"      -> SpanNow(r.trace, r.span)
    [] r.op = "restart"   -> Restarted(r.src)

\* The handler runs: from here on the answer says what was true just now.
Serve(r) ==
  /\ r \in asked
  /\ asked' = asked \ {r}
  /\ answers' = answers \cup {Answer(r)}
  /\ UNCHANGED <<world, tabVars, logVars, findVars, listVars, detail, startup,
                 failed, keys, faults>>

\* The socket is gone, or the call times out.
Fail(r) ==
  /\ r \in asked /\ faults < work.faults
  /\ faults' = faults + 1
  /\ asked' = asked \ {r}
  /\ answers' = answers \cup {IF r.op = "restart" THEN [op |-> "restart", ok |-> FALSE]
                                                  ELSE [op |-> "err"]}
  /\ UNCHANGED <<world, tabVars, logVars, findVars, listVars, detail, startup,
                 failed, keys>>

----------------------------------------------------------------------------
(* updateModel: the messages                                               *)

Take(a, requests) ==
  /\ a \in answers
  /\ answers' = answers \ {a}
  /\ asked' = asked \cup requests
  /\ UNCHANGED <<world, findVars, keys, faults>>

WithStartupTab(list) ==
  IF list # <<>> /\ list[1] = StartupTab THEN list ELSE <<StartupTab>> \o list

TabsFrom(names) ==
  LET list == Append(Sorted[names], TracesTab)
  IN  IF startupActive THEN WithStartupTab(list) ELSE list

\* sourcesMsg: the list is replaced; the index stays, clamped.
OnSources(a) ==
  /\ a.op = "sources"
  /\ tabs' = TabsFrom(a.names)
  /\ sel' = Clamp(sel, Len(tabs'))
  /\ Take(a, Fetch(At(tabs', sel'), ~Tailing))
  /\ UNCHANGED <<logVars, listVars, detail, startup, failed>>

\* Mutant: a live window is applied whatever the view wants.
WantedAny(a) == a.src = Current

\* logsMsg: dropped when it is for another tab, or is a live window and the
\* whole log is wanted.
Wanted(a) == a.src = Current /\ (a.full \/ Tailing)

OnLogs(a) ==
  /\ a.op = "logs"
  /\ Take(a, {})
  /\ IF ~Wanted(a) THEN UNCHANGED <<logs, offset>>
     ELSE /\ logs' = [src |-> a.src, full |-> a.full, lo |-> a.lo, hi |-> a.hi]
          /\ offset' = IF autoScroll THEN 0
                       ELSE IF pinnedTop THEN MaxScroll(logs')
                       ELSE Min2(offset, MaxScroll(logs'))
  /\ UNCHANGED <<tabVars, autoScroll, pinnedTop, listVars, detail, startup, failed>>

\* firstProcessTab, 0-based.
FirstProcessTab(list) ==
  LET at == {i \in 1 .. Len(list) : list[i] \in Processes}
  IN  IF at # {} THEN (CHOOSE i \in at : \A j \in at : i <= j) - 1
      ELSE Min2(1, Len(list) - 1)

HandsOver(a, list, i) == ~handedOver /\ At(list, i) = StartupTab /\ a.up

\* startupMsg (applyStartup).
OnStartup(a) ==
  /\ a.op = "startup"
  /\ IF ~a.active
     THEN Take(a, {}) /\ UNCHANGED <<tabVars, startup>>
     ELSE LET list == IF startupActive THEN tabs ELSE WithStartupTab(tabs)
              i    == IF startupActive THEN sel ELSE 0
          IN  /\ startupActive' = TRUE
              /\ tabs' = list
              /\ IF HandsOver(a, list, i)
                 THEN /\ handedOver' = TRUE
                      /\ sel' = FirstProcessTab(list)
                      /\ Take(a, Fetch(At(list, sel'), ~Tailing))
                 ELSE sel' = i /\ Take(a, {}) /\ UNCHANGED handedOver
  /\ UNCHANGED <<logVars, listVars, detail, failed>>

\* tracesMsg: on the newest trace the selection follows, elsewhere it stays
\* on its trace.
Following == traces = <<>> \/ traceIdx >= Len(traces) - 1

\* Mutant: the index is kept, not the trace.
ReselectedByIndex(list) == IF Following THEN Len(list) - 1 ELSE traceIdx

Reselected(list) ==
  IF Following THEN Len(list) - 1
  ELSE LET at == {i \in 1 .. Len(list) : list[i] = At(traces, traceIdx)}
       IN  IF at = {} THEN traceIdx ELSE (CHOOSE i \in at : TRUE) - 1

OnTraces(a) ==
  /\ a.op = "traces"
  /\ Take(a, {})
  /\ traces' = a.list
  /\ traceIdx' = Clamp(Reselected(a.list), Len(a.list))
  /\ UNCHANGED <<tabVars, logVars, detail, startup, failed>>

\* traceSpansMsg does not say which trace it is of.
OnSpans(a) ==
  /\ a.op = "spans"
  /\ Take(a, {})
  /\ spans' = [trace |-> IF a.n = 0 THEN None ELSE a.trace, n |-> a.n]
  /\ UNCHANGED <<tabVars, logVars, listVars, traceID, cursor,
                 spanFull, startup, failed>>

\* Mutant: a late answer is taken whichever trace it is of.
AcceptsAny(a) == TRUE

\* spanMsg: of the trace that is open?
Accepts(a) == a.trace = traceID

OnSpan(a) ==
  /\ a.op = "span"
  /\ Take(a, {})
  /\ spanFull' = IF Accepts(a) THEN [trace |-> a.trace, span |-> a.span] ELSE spanFull
  /\ UNCHANGED <<tabVars, logVars, listVars, traceID, spans, cursor,
                 startup, failed>>

\* restartMsg sets the notice in the footer, and errMsg the error.
OnRestart(a) ==
  /\ a.op = "restart"
  /\ Take(a, {})
  /\ UNCHANGED <<tabVars, logVars, listVars, detail, startup, failed>>

OnErr(a) ==
  /\ a.op = "err"
  /\ Take(a, {})
  /\ failed' = TRUE
  /\ UNCHANGED <<tabVars, logVars, listVars, detail, startup>>

\* tickMsg, once a second.
Tick ==
  /\ Cardinality(asked \cup answers) < MaxFlight
  /\ asked' = asked \cup {AskSources} \cup Fetch(Current, ~Tailing)
  /\ UNCHANGED <<answers, world, tabVars, logVars, findVars, listVars, detail,
                 startup, failed, keys, faults>>

----------------------------------------------------------------------------
(* updateModel: the keys                                                   *)

\* Leaving the live tail asks for the whole log at once.
LeavesTail ==
  IF Tailing /\ ~Tailing' /\ Current' \in Names THEN Fetch(Current', TRUE) ELSE {}

\* A key that asks for `requests`; conjoined last, when the rest is assigned.
Key(requests) ==
  /\ keys < work.keys /\ keys' = keys + 1
  /\ asked' = asked \cup requests \cup LeavesTail
  /\ UNCHANGED <<answers, world, startup, failed, faults>>

\* tab, shift+tab and the arrows; the trace levels leave them to the tabs.
SwitchTab ==
  /\ mode # "Search" /\ tabs # <<>>
  /\ \E d \in {1, Len(tabs) - 1} : sel' = (sel + d) % Len(tabs)
  /\ UNCHANGED <<tabs, logVars, findVars, listVars, detail>>
  /\ Key(Fetch(At(tabs, sel'), ~Tailing))

ScrollBy(d) ==
  /\ offset' = Max2(0, Min2(offset + d, MaxScroll(logs)))
  /\ autoScroll' = (offset' = 0)
  /\ pinnedTop' = FALSE

ScrollToTop ==
  /\ offset' = MaxScroll(logs)
  /\ autoScroll' = (offset' = 0)
  /\ pinnedTop' = ~autoScroll'

ScrollToBottom == offset' = 0 /\ autoScroll' = TRUE /\ pinnedTop' = FALSE

Scroll ==
  /\ mode = "Normal" /\ Current # TracesTab
  /\ \/ \E d \in {1, -1, Height, -Height} : ScrollBy(d)
     \/ ScrollToTop
     \/ ScrollToBottom
  /\ UNCHANGED <<logs, tabVars, findVars, listVars, detail>>
  /\ Key({})

\* "/" opens the search line from any other mode.
OpenSearch ==
  /\ mode # "Search" /\ Current # StartupTab
  /\ mode' = "Search" /\ query' = FALSE
  /\ UNCHANGED <<tabVars, logVars, listVars, detail>>
  /\ Key({})

\* buildMatchLineIndex: the text is left open, so any line may match.
MatchLines == 0 .. Lines(logs) - 1

\* scrollOffsetForMatch.
Centred(line) == Max2(0, Lines(logs) - line - 1 - Height \div 2)

\* scrollToMatch.
JumpToMatch ==
  \E line \in MatchLines :
    /\ offset' = Centred(line)
    /\ autoScroll' = FALSE
    /\ UNCHANGED pinnedTop

SearchKey ==
  /\ mode = "Search"
  /\ \/ query' \in BOOLEAN /\ UNCHANGED <<mode, offset, autoScroll, pinnedTop>>
     \/ mode' = "Normal" /\ query' = FALSE /\ UNCHANGED <<offset, autoScroll, pinnedTop>>
     \/ /\ mode' = "Normal" /\ UNCHANGED query
        /\ \/ query /\ JumpToMatch
           \/ UNCHANGED <<offset, autoScroll, pinnedTop>>  \* nothing matches
  /\ UNCHANGED <<logs, tabVars, listVars, detail>>
  /\ Key({})

\* n and p.
NextMatch ==
  /\ mode # "Search" /\ query /\ JumpToMatch
  /\ UNCHANGED <<logs, tabVars, findVars, listVars, detail>>
  /\ Key({})

RestartKey ==
  /\ mode # "Search" /\ Current \in Names
  /\ UNCHANGED <<tabVars, logVars, findVars, listVars, detail>>
  /\ Key({AskRestart(Current)})

\* up, down, pages, home and end in the list of traces.
MoveInTraces ==
  /\ mode = "Normal" /\ Current = TracesTab
  /\ \/ traceIdx' = IF traceIdx > 0 THEN traceIdx - 1 ELSE traceIdx
     \/ traceIdx' = IF traceIdx < Len(traces) - 1 THEN traceIdx + 1 ELSE traceIdx
     \/ traceIdx' = Max2(0, traceIdx - Height)
     \/ traceIdx' = Min2(traceIdx + Height, Len(traces) - 1)
     \/ traceIdx' \in {0, Len(traces) - 1}
  /\ UNCHANGED <<traces, tabVars, logVars, findVars, detail>>
  /\ Key({})

\* enter, which the value view leaves to the list under it.
OpenTrace ==
  /\ mode \in {"Normal", "ValueView"} /\ Current = TracesTab /\ At(traces, traceIdx) # Nothing
  /\ mode' = "TraceDetail"
  /\ traceID' = At(traces, traceIdx)
  /\ cursor' = 0
  /\ spans' = [trace |-> None, n |-> 0]
  /\ UNCHANGED <<spanFull, query, tabVars, logVars, listVars>>
  /\ Key({AskSpans(traceID')})

\* updateTraceLevels.
MoveInSpans ==
  /\ mode = "TraceDetail"
  /\ cursor' \in {Max2(0, cursor - 1), Min2(spans.n - 1, cursor + 1)}
  /\ UNCHANGED <<traceID, spans, spanFull, tabVars, logVars, findVars, listVars>>
  /\ Key({})

OpenSpan ==
  /\ mode = "TraceDetail" /\ SelectedSpan # <<>>
  /\ mode' = "SpanDetail"
  /\ spanFull' = <<>>
  /\ UNCHANGED <<traceID, spans, cursor, query, tabVars, logVars, listVars>>
  /\ Key({AskSpan(traceID, SelectedSpan)})

\* enter on an attribute, if the span shown has any, and esc one level up.
ChangeLevel ==
  /\ \/ mode = "SpanDetail" /\ mode' = "ValueView"
        /\ (IF spanFull = <<>> THEN SelectedSpan # <<>> ELSE spanFull.span[1] # None)
     \/ mode = "ValueView" /\ mode' = "SpanDetail"
     \/ mode = "SpanDetail" /\ mode' = "TraceDetail"
     \/ mode = "TraceDetail" /\ mode' = "Normal"
  /\ UNCHANGED <<query, tabVars, logVars, listVars, detail>>
  /\ Key({})

----------------------------------------------------------------------------
OnOther(a) ==
  \/ OnStartup(a) \/ OnTraces(a) \/ OnSpans(a) \/ OnSpan(a)
  \/ OnRestart(a) \/ OnErr(a)

Deliver == \E a \in answers : OnSources(a) \/ OnLogs(a) \/ OnOther(a)

Press ==
  \/ SwitchTab \/ Scroll \/ OpenSearch \/ SearchKey \/ NextMatch \/ RestartKey
  \/ MoveInTraces \/ OpenTrace \/ MoveInSpans \/ OpenSpan \/ ChangeLevel

Changes ==
  \/ \E s \in Names : LogWritten(s) \/ LogEvicted(s)
  \/ \E t \in Traces : TraceStored(t)
  \/ TraceExpired \/ UpChanges

Next ==
  \/ Tick \/ Deliver \/ Press \/ Changes
  \/ \E r \in asked : Serve(r) \/ Fail(r)

\* The timer fires, every handler answers, and every answer is applied.
Fairness ==
  /\ WF_vars(Tick)
  /\ WF_vars(\E r \in asked : r.op = "sources" /\ Serve(r))
  /\ WF_vars(\E r \in asked : r.op # "sources" /\ Serve(r))
  /\ WF_vars(\E a \in answers : OnSources(a))
  /\ WF_vars(\E a \in answers : OnLogs(a))
  /\ WF_vars(\E a \in answers : OnOther(a))

Spec == Init /\ [][Next]_vars /\ Fairness

----------------------------------------------------------------------------
(* Properties                                                              *)

\* Every variable keeps its type; a tab is selected whenever there is one.
TypeOK ==
  /\ tabs \in Seq(Names \cup {TracesTab, StartupTab})
  /\ sel \in 0 .. Max2(0, Len(tabs) - 1)
  /\ logs.src \in Names \cup {Nothing} /\ logs.full \in BOOLEAN
  /\ offset \in 0 .. MaxLines /\ autoScroll \in BOOLEAN /\ pinnedTop \in BOOLEAN
  /\ autoScroll => offset = 0 /\ ~pinnedTop
  /\ mode \in {"Normal", "Search", "TraceDetail", "SpanDetail", "ValueView"}
  /\ query \in BOOLEAN
  /\ traces \in Seq(Traces)
  /\ traceIdx \in IF traces = <<>> THEN {-1, 0} ELSE 0 .. Len(traces) - 1
  /\ traceID \in Traces \cup {None} /\ cursor \in -1 .. SpanCount - 1
  /\ mode \in {"TraceDetail", "SpanDetail", "ValueView"} => traceID # None
  /\ handedOver => startupActive

\* Someone who has scrolled up or searches is never left with the live window
\* taken for the whole log: if that is what is on the screen, the whole log is
\* already on its way (tui.go, the fetch on leaving the tail and the test of
\* logsMsg.limited, whatever order the answers come in).
FullLog == AskLogs(Current, TRUE)

ScrolledSeesAll ==
  ~Tailing /\ ~failed /\ Current \in Names /\ logs.src = Current =>
    \/ logs.full
    \/ FullLog \in asked
    \/ \E a \in answers : a.op = "err" \/ (a.op = "logs" /\ a.src = Current /\ a.full)

\* The span shown in full is one of the open trace, however late the answer to
\* an earlier request comes (tui.go, spanMsg).
SpanOfOpenTrace ==
  mode \in {"SpanDetail", "ValueView"} /\ spanFull # <<>> => spanFull.trace = traceID

\* What is selected exists, and what is open belongs to it.
SelectionSound == TypeOK /\ SpanOfOpenTrace

\* A refresh moves the selection off a trace only when that trace was the
\* newest, which is followed, or is no longer kept (tui.go, tracesMsg).
KeepsTrace ==
  [][ LET was == At(traces, traceIdx)
      IN  keys' = keys /\ ~Following /\ was \in ToSet(traces') => At(traces', traceIdx') = was
    ]_vars

\* The startup screen hands over once: someone who goes back to it, or to any
\* other tab, is not moved by a poll that finds everything up (applyStartup).
LeftInPeace ==
  [][ handedOver /\ keys' = keys /\ tabs' = tabs => sel' = sel ]_vars

\* What arrives by itself moves nobody who has not asked to be moved.
StaysPut == KeepsTrace /\ LeftInPeace

\* Once a log tab stays selected, its newest line is on its way to the screen
\* and arrives: neither a dropped answer nor one that was overtaken leaves the
\* tab on older lines for good.
CatchesUp ==
  \A s \in Names :
    <>[](Current = s /\ ~failed) => <>[](logs.src = s /\ logs.hi = buf[s].hi)

\* docs/configuration.md says of the startup tab: once everything is up it
\* hands over to the logs.
HandoverLeavesStartup ==
  [][ handedOver' /\ ~handedOver => Current' # StartupTab ]_vars

\* tui.go says the startup tab is always first, so that the selected index
\* means the same tab from one refresh to the next.
IndexKeepsMeaning ==
  [][ tabs # <<>> /\ keys' = keys /\ startupActive' = startupActive /\ handedOver' = handedOver
        /\ Current \in ToSet(tabs') => Current' = Current ]_vars
=============================================================================
