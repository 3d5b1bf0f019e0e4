---------------------------- MODULE DockerProofs ----------------------------
(***************************************************************************)
(* What the watcher promises, for any stack, any number of runs and lines, *)
(* and any faults. A stream is judged by the run it was opened in, so that *)
(* everything rests on the runs only ever going up: those of a container,  *)
(* those its log tells of, and those the watcher has seen.                 *)
(***************************************************************************)
EXTENDS Docker, FiniteSetTheorems, WellFoundedInduction, TLAPS

Runs      == 0 .. MaxRuns
StreamRec == [pos : 0 .. MaxLines, upto : 1 .. MaxRuns, stopped : BOOLEAN, over : BOOLEAN]

-----------------------------------------------------------------------------
(* Types, and what they rest on.                                           *)

\* A container has had a run when it exists, and its log tells of its runs in
\* their order.
DaemonOK ==
  /\ state \in [Containers -> {"none", "running", "exited"}]
  /\ run \in [Containers -> Runs]
  /\ \A c \in Containers : state[c] # "none" <=> run[c] # 0
  /\ log \in [Containers -> Seq(1 .. MaxRuns)]
  /\ \A c \in Containers : Len(log[c]) <= MaxLines
  /\ \A c \in Containers : \A i \in DOMAIN log[c] : log[c][i] <= run[c]
  /\ \A c \in Containers : \A i, j \in DOMAIN log[c] : i <= j => log[c][i] <= log[c][j]

BootOK ==
  /\ done \subseteq Containers /\ faults \in 0 .. MaxFaults
  /\ main \in Booting \cup {"serving", "cancelled", "stopped", "waiting", "waited", "exited"}
  /\ mode \in Modes /\ found \subseteq Watched

LoopOK ==
  /\ events \in Seq(Containers)
  /\ loop \in {"off", "subscribe", "listen", "attach", "sleep", "gone"}
  /\ todo \subseteq Containers

\* What the Attach under way has read is not behind what is attached.
AttOK ==
  /\ att.pc \in {"off", "inspect", "open"} /\ (att.pc = "off" => att = Off)
  /\ att.pc # "off" => att \in [pc : {"inspect", "open"}, c : Containers, run : Runs]
  /\ att.pc = "open" => attached[att.c] <= att.run /\ att.run <= run[att.c]

StreamsOK ==
  /\ attached \in [Containers -> Runs]
  /\ streams \in [Containers -> Seq(StreamRec)]
  /\ \A c \in Containers : attached[c] <= run[c]
  /\ \A c \in Containers : attached[c] = 0 <=> streams[c] = <<>>

HistoryOK ==
  /\ got \in [Containers -> SUBSET Lines] /\ twice \in [Containers -> SUBSET Lines]
  /\ stale \subseteq Containers /\ excused \subseteq Containers

Typed == DaemonOK /\ BootOK /\ LoopOK /\ AttOK /\ StreamsOK /\ HistoryOK

-----------------------------------------------------------------------------
(* StreamsSound.                                                           *)

Done == {"stopped", "waiting", "waited"}

\* All but the last have been cancelled, and the last once Stop has swept;
\* before that only a newer run cancels it.
CancelOK ==
  /\ OneStream
  /\ NothingAfterStop
  /\ ~Cancelled => \A c \in Containers :
       streams[c] # <<>> /\ Last(streams[c]).stopped => attached[c] < run[c]

-----------------------------------------------------------------------------
(* TwiceOnlyStale.                                                         *)

\* As long as no start has been read too early, a stream follows the run that
\* is attached, and begins where those before it end.
Apart(c) ==
  /\ \A i \in DOMAIN streams[c] : streams[c][i].upto <= attached[c]
  /\ \A i, j \in DOMAIN streams[c] : i < j =>
       /\ streams[c][i].upto < streams[c][j].upto
       /\ \A n \in DOMAIN log[c] : n > streams[c][j].pos => log[c][n] > streams[c][i].upto

\* What has been captured is behind every stream, or belongs to a later run.
Captured(c) ==
  /\ got[c] \subseteq DOMAIN log[c] /\ \A n \in got[c] : log[c][n] <= attached[c]
  /\ \A n \in got[c] : \A i \in DOMAIN streams[c] :
       n > streams[c][i].pos => log[c][n] > streams[c][i].upto
  /\ twice[c] = {}

OnceOK == \A c \in Containers : c \notin stale => Apart(c) /\ Captured(c)

-----------------------------------------------------------------------------
(* ReportedAttended.                                                       *)

\* Nothing is attached before it is found, and without a subscription there
\* is nothing in it.
QuietOK ==
  /\ main \in Booting \cup {"exited"} => loop = "off"
  /\ main \in (Booting \ {"attach"}) \cup {"exited"} => att = Off /\ todo = {} /\ \A c \in Containers : attached[c] = 0
  /\ loop \notin {"listen", "gone"} => events = <<>>
  /\ main = "serving" => loop # "off" /\ loop # "gone"
  /\ main \in {"stack", "askStack", "awaitStack"} => found = {}
  /\ loop \notin {"off", "attach"} => todo = {}

\* c is going to be attached in the run it is in.
Coming(c) ==
  \/ main = "discover" \/ loop = "sleep"
  \/ main \in Booting \ {"attach"} /\ c \in found
  \/ c \in todo
  \/ att.pc = "inspect" /\ att.c = c
  \/ att.pc = "open" /\ att.c = c /\ att.run = run[c]
  \/ \E i \in DOMAIN events : events[i] = c

Reached == \A c \in Running \ excused : Coming(c) \/ (attached[c] = run[c] /\ ~Last(streams[c]).over)

\* A stream of the present run that is over is not taken for one that runs.
OverOK == \A c \in Watched :
  streams[c] # <<>> /\ Last(streams[c]).over /\ attached[c] = run[c] /\ state[c] = "running" => c \in excused

UptoOK == \A c \in Containers : streams[c] # <<>> => Last(streams[c]).upto >= attached[c]

ReachOK == QuietOK /\ (~Cancelled /\ main # "exited" => UptoOK /\ OverOK /\ Reached)

-----------------------------------------------------------------------------
(* GateNeedsThisRun.                                                       *)

\* The gate has read a start that is not before the run it found, and the
\* lines that are left to it are not before that start.
GateOK ==
  /\ gate.pc \in {"off", "inspect", "open", "match", "passed", "failed"}
  /\ gate.pc \in {"inspect", "open", "match"} => gate.c \in Containers /\ gate.since \in 1 .. run[gate.c]
  /\ gate.pc = "open" => gate.run \in gate.since .. run[gate.c]
  /\ gate.pc = "match" => /\ gate.pos \in Nat /\ gate.upto \in 1 .. run[gate.c]
                          /\ \A n \in DOMAIN log[gate.c] : n > gate.pos => log[gate.c][n] >= gate.since
  /\ gate.pc = "passed" => gate.by \in Nat /\ gate.since \in Nat /\ gate.by >= gate.since

-----------------------------------------------------------------------------
(* The operators.                                                          *)

LEMMA LeastExists ==
  ASSUME NEW S \in SUBSET Nat, S # {}
  PROVE  \E x \in S : \A y \in S : x <= y
<1>1. PICK x \in S : \A y \in S : ~ (<<y, x>> \in OpToRel(<, Nat))
  BY NatLessThanWellFounded, WFMin
<1>2. ASSUME NEW y \in S PROVE x <= y
  <2>1. x \in Nat /\ y \in Nat
    OBVIOUS
  <2>2. ~(y < x)
    BY <1>1, <2>1 DEF OpToRel
  <2> QED
    BY <2>1, <2>2
<1> QED
  BY <1>2

\* The lines written before run r are the first ones of the log.
LEMMA BeforeIsPrefix ==
  ASSUME DaemonOK, NEW c \in Containers, NEW r \in Nat
  PROVE  /\ Before(c, r) \in 0 .. Len(log[c])
         /\ \A n \in DOMAIN log[c] : n <= Before(c, r) <=> log[c][n] < r
<1> DEFINE s == log[c]
           late == {n \in 1 .. Len(s) + 1 : n = Len(s) + 1 \/ s[n] >= r}
<1>1. /\ s \in Seq(1 .. MaxRuns) /\ Len(s) \in Nat /\ DOMAIN s = 1 .. Len(s)
      /\ \A i \in DOMAIN s : s[i] \in Nat
      /\ \A i, j \in DOMAIN s : i <= j => s[i] <= s[j]
  <2>1. s \in Seq(1 .. MaxRuns)
    BY DEF DaemonOK
  <2>2. \A i, j \in DOMAIN s : i <= j => s[i] <= s[j]
    BY DEF DaemonOK
  <2> HIDE DEF s
  <2> QED
    BY <2>1, <2>2, StackAssumption DEF StackAssumption
<1> HIDE DEF s
<1>2. PICK m \in late : \A y \in late : m <= y
  <2>1. late \in SUBSET Nat /\ Len(s) + 1 \in late
    BY <1>1
  <2> HIDE DEF late
  <2> QED
    BY <2>1, LeastExists
<1>3. m \in 1 .. Len(s) + 1
  OBVIOUS
<1>4. \A n \in DOMAIN s : n < m <=> s[n] < r
  BY <1>1, <1>2, <1>3
<1>5. {i \in DOMAIN s : s[i] < r} = 1 .. m - 1
  BY <1>1, <1>3, <1>4
<1>6. Cardinality(1 .. m - 1) = m - 1
  <2>1. m - 1 \in Int /\ (1 > m - 1 => m - 1 = 0) /\ m - 1 - 1 + 1 = m - 1
    BY <1>1, <1>3
  <2>2. Cardinality(1 .. m - 1) = IF 1 > m - 1 THEN 0 ELSE m - 1 - 1 + 1
    BY <2>1, FS_Interval
  <2> QED
    BY <2>1, <2>2
<1>7. Before(c, r) = m - 1
  BY <1>5, <1>6 DEF Before, s
<1> QED
  BY <1>1, <1>3, <1>4, <1>7 DEF s

LEMMA MaxOfTwo ==
  ASSUME NEW a \in Nat, NEW b \in Nat
  PROVE  Max({a, b}) \in {a, b} /\ a <= Max({a, b}) /\ b <= Max({a, b})
<1>1. \E x \in {a, b} : \A y \in {a, b} : x >= y
  <2>1. CASE a >= b
    BY <2>1
  <2>2. CASE ~(a >= b)
    BY <2>2
  <2> QED
    BY <2>1, <2>2
<1> QED
  BY <1>1 DEF Max

LEMMA ReplayTyped ==
  ASSUME DaemonOK, NEW c \in Containers, NEW n \in 0 .. Len(log[c]), att.run \in Nat
  PROVE  /\ ReplayFrom(c, n) \in 0 .. Len(log[c])
         /\ attached[c] # 0 => ReplayFrom(c, n) >= Before(c, att.run)
<1>1. Len(log[c]) \in Nat
  BY DEF DaemonOK
<1>2. Before(c, att.run) \in 0 .. Len(log[c])
  BY BeforeIsPrefix
<1> QED
  BY <1>1, <1>2, MaxOfTwo DEF ReplayFrom

-----------------------------------------------------------------------------
(* The streams.                                                            *)

\* A stream that has changed, among the others.
LEMMA OneChanges ==
  ASSUME StreamsOK, NEW c \in Containers, NEW i \in DOMAIN streams[c], NEW s \in StreamRec,
         streams' = [streams EXCEPT ![c] = [@ EXCEPT ![i] = s]]
  PROVE  /\ streams' \in [Containers -> Seq(StreamRec)]
         /\ \A d \in Containers : Len(streams'[d]) = Len(streams[d]) /\ DOMAIN streams'[d] = DOMAIN streams[d]
         /\ \A d \in Containers : streams'[d] = <<>> <=> streams[d] = <<>>
         /\ \A d \in Containers : \A j \in DOMAIN streams[d] :
              streams'[d][j] = IF d = c /\ j = i THEN s ELSE streams[d][j]
<1>1. streams[c] \in Seq(StreamRec) /\ streams'[c] = [streams[c] EXCEPT ![i] = s]
  BY DEF StreamsOK
<1>2. streams'[c] \in Seq(StreamRec) /\ Len(streams'[c]) = Len(streams[c]) /\ DOMAIN streams'[c] = DOMAIN streams[c]
  BY <1>1
<1>3. streams' \in [Containers -> Seq(StreamRec)]
  BY <1>2 DEF StreamsOK
<1>4. \A d \in Containers \ {c} : streams'[d] = streams[d]
  BY DEF StreamsOK
<1>5. streams'[c] # <<>> /\ streams[c] # <<>>
  BY <1>1, <1>2
<1> QED
  BY <1>1, <1>2, <1>3, <1>4, <1>5

\* The last stream is cancelled, if there is one.
LEMMA LastStopped ==
  ASSUME StreamsOK, NEW c \in Containers
  PROVE  /\ StopLast(c) \in Seq(StreamRec) /\ Len(StopLast(c)) = Len(streams[c])
         /\ DOMAIN StopLast(c) = DOMAIN streams[c] /\ (StopLast(c) = <<>> <=> streams[c] = <<>>)
         /\ \A i \in DOMAIN streams[c] :
              StopLast(c)[i] = IF i = Len(streams[c]) THEN [streams[c][i] EXCEPT !.stopped = TRUE] ELSE streams[c][i]
<1>1. streams[c] \in Seq(StreamRec) /\ (attached[c] = 0 <=> streams[c] = <<>>)
  BY DEF StreamsOK
<1>2. CASE attached[c] = 0
  BY <1>1, <1>2 DEF StopLast
<1>3. CASE attached[c] # 0
  <2> DEFINE n == Len(streams[c])
             s == [streams[c][n] EXCEPT !.stopped = TRUE]
  <2>1. n \in DOMAIN streams[c]
    BY <1>1, <1>3
  <2>2. streams[c][n] \in StreamRec
    BY <1>1, <2>1
  <2>3. s \in StreamRec
    BY <2>2 DEF StreamRec
  <2>4. StopLast(c) = [streams[c] EXCEPT ![n] = s]
    BY <1>3 DEF StopLast
  <2> HIDE DEF s
  <2> HIDE DEF n
  <2>5. StopLast(c) # <<>>
    BY <1>1, <2>1, <2>4
  <2>6. StopLast(c) \in Seq(StreamRec) /\ Len(StopLast(c)) = Len(streams[c])
    BY <1>1, <2>1, <2>3, <2>4
  <2>7. /\ DOMAIN StopLast(c) = DOMAIN streams[c]
        /\ \A i \in DOMAIN streams[c] : StopLast(c)[i] = IF i = n THEN s ELSE streams[c][i]
    BY <1>1, <2>1, <2>4
  <2> QED
    BY <1>1, <1>3, <2>5, <2>6, <2>7 DEF s, n
<1> QED
  BY <1>2, <1>3

\* What opening makes of the streams: the last is cancelled and another comes.
LEMMA OneOpens ==
  ASSUME Typed, att.pc = "open", NEW n \in 0 .. Len(log[att.c]), attached[att.c] # att.run,
         NEW s, s = Append(StopLast(att.c), Stream(ReplayFrom(att.c, n), att.c))
  PROVE  /\ att.c \in Containers /\ att.run \in 1 .. run[att.c] /\ attached[att.c] < att.run
         /\ s \in Seq(StreamRec) /\ Len(s) = Len(streams[att.c]) + 1 /\ s # <<>>
         /\ \A i \in DOMAIN streams[att.c] : s[i] = StopLast(att.c)[i]
         /\ s[Len(s)] = Stream(ReplayFrom(att.c, n), att.c)
<1> DEFINE c == att.c
<1>1. /\ c \in Containers /\ att.run \in Runs /\ attached[c] <= att.run /\ att.run <= run[c]
      /\ attached[c] \in Runs /\ run[c] \in Runs
  BY DEF Typed, AttOK, StreamsOK, DaemonOK
<1>2. att.run \in 1 .. run[c] /\ attached[c] < att.run
  BY <1>1, StackAssumption DEF Runs, StackAssumption
<1>3. ReplayFrom(c, n) \in 0 .. Len(log[c])
  BY <1>1, ReplayTyped DEF Typed, Runs
<1>4. log[c] \in Seq(1 .. MaxRuns) /\ Len(log[c]) <= MaxLines
  BY <1>1 DEF Typed, DaemonOK
<1>5. Stream(ReplayFrom(c, n), c) \in StreamRec
  BY <1>1, <1>2, <1>3, <1>4, StackAssumption DEF Stream, StreamRec, StackAssumption, Runs
<1>6. /\ StopLast(c) \in Seq(StreamRec) /\ Len(StopLast(c)) = Len(streams[c])
      /\ DOMAIN StopLast(c) = DOMAIN streams[c]
  BY <1>1, LastStopped DEF Typed
<1> HIDE DEF c
<1> DEFINE t == Stream(ReplayFrom(c, n), c)
<1> HIDE DEF t
<1>7. s = Append(StopLast(c), t)
  BY DEF t, c
<1>8. s \in Seq(StreamRec) /\ Len(s) = Len(streams[c]) + 1 /\ s # <<>> /\ s[Len(s)] = t
  <2>1. t \in StreamRec
    BY <1>5 DEF t, c
  <2> HIDE DEF StreamRec
  <2> QED
    BY <2>1, <1>6, <1>7
<1>9. \A i \in DOMAIN streams[c] : s[i] = StopLast(c)[i]
  BY <1>6, <1>7
<1> QED
  BY <1>1, <1>2, <1>8, <1>9 DEF c, t

-----------------------------------------------------------------------------

LEMMA TypedStep == Typed /\ [Next]_vars => Typed'
<1> SUFFICES ASSUME Typed, [Next]_vars PROVE Typed'
  OBVIOUS
<1> USE StackAssumption DEF StackAssumption, Runs
<1>1. CASE Discovers
  BY <1>1 DEF Discovers, Typed, DaemonOK, BootOK, LoopOK, AttOK, StreamsOK, HistoryOK, daemon, boot, watcher,
     history, Fault, NoFault, Found, Running, Booting, Cancelled, Off
<1>2. CASE OffersStack
  BY <1>2 DEF OffersStack, Typed, DaemonOK, BootOK, LoopOK, AttOK, StreamsOK, HistoryOK, daemon, boot, watcher,
     history, Fault, NoFault, Found, Running, Booting, Cancelled, Off
<1>3. CASE AsksStack
  BY <1>3 DEF AsksStack, Typed, DaemonOK, BootOK, LoopOK, AttOK, StreamsOK, HistoryOK, daemon, boot, watcher,
     history, Fault, NoFault, Found, Running, Booting, Cancelled, Off
<1>4. CASE AwaitsStack
  BY <1>4 DEF AwaitsStack, Typed, DaemonOK, BootOK, LoopOK, AttOK, StreamsOK, HistoryOK, daemon, boot, watcher,
     history, Fault, NoFault, Found, Running, Booting, Cancelled, Off
<1>5. CASE OffersRest
  BY <1>5 DEF OffersRest, Typed, DaemonOK, BootOK, LoopOK, AttOK, StreamsOK, HistoryOK, daemon, boot, watcher,
     history, Fault, NoFault, Found, Running, Booting, Cancelled, Off
<1>6. CASE AsksRest
  BY <1>6 DEF AsksRest, Typed, DaemonOK, BootOK, LoopOK, AttOK, StreamsOK, HistoryOK, daemon, boot, watcher,
     history, Fault, NoFault, Found, Running, Booting, Cancelled, Off
<1>7. CASE AwaitsRest
  BY <1>7 DEF AwaitsRest, Typed, DaemonOK, BootOK, LoopOK, AttOK, StreamsOK, HistoryOK, daemon, boot, watcher,
     history, Fault, NoFault, Found, Running, Booting, Cancelled, Off
<1>8. CASE Watches
  BY <1>8 DEF Watches, Typed, DaemonOK, BootOK, LoopOK, AttOK, StreamsOK, HistoryOK, daemon, boot, watcher,
     history, Fault, NoFault, Found, Running, Booting, Cancelled, Off
<1>9. CASE AttachNext
  BY <1>9 DEF AttachNext, Typed, DaemonOK, BootOK, LoopOK, AttOK, StreamsOK, HistoryOK, daemon, boot, watcher,
     history, Fault, NoFault, Found, Running, Booting, Cancelled, Off
<1>10. CASE Inspects
  <2>1. att.c \in Containers /\ att.pc = "inspect"
    BY <1>10 DEF Inspects, Typed, AttOK
  <2>2. AttOK'
    <3>1. CASE att' = Off
      BY <3>1 DEF AttOK, Off
    <3>2. CASE att' = [att EXCEPT !.pc = "open", !.run = run[att.c]]
      <4>1. att' = [pc |-> "open", c |-> att.c, run |-> run[att.c]]
        BY <2>1, <3>2 DEF Typed, AttOK
      <4>2. run[att.c] \in Runs /\ attached[att.c] <= run[att.c]
        BY <2>1 DEF Typed, DaemonOK, StreamsOK
      <4> QED
        BY <1>10, <2>1, <4>1, <4>2 DEF AttOK, Inspects, daemon, Typed, DaemonOK
    <3> QED
      BY <1>10, <3>1, <3>2 DEF Inspects
  <2>3. HistoryOK'
    BY <1>10, <2>1 DEF Inspects, Typed, HistoryOK
  <2> QED
    BY <1>10, <2>2, <2>3 DEF Inspects, Typed, DaemonOK, BootOK, LoopOK, StreamsOK, daemon, boot, Fault, NoFault
<1>11. CASE Subscribes
  BY <1>11 DEF Subscribes, Typed, DaemonOK, BootOK, LoopOK, AttOK, StreamsOK, HistoryOK, daemon, boot, watcher,
     history, Fault, NoFault, Found, Running, Booting, Cancelled, Off
<1>12. CASE OnEvent
  <2>1. LoopOK' /\ Head(events) \in Containers
    BY <1>12 DEF OnEvent, Typed, LoopOK
  <2>2. AttOK'
    BY <1>12, <2>1, StackAssumption DEF OnEvent, AttOK, Off, Runs, StackAssumption
  <2>3. UNCHANGED <<state, done, run, log, faults, boot, attached, streams, history>>
    BY <1>12 DEF OnEvent
  <2> QED
    BY <2>1, <2>2, <2>3 DEF Typed, DaemonOK, BootOK, StreamsOK, HistoryOK, boot, history
<1>13. CASE FeedDrops
  BY <1>13 DEF FeedDrops, Typed, DaemonOK, BootOK, LoopOK, AttOK, StreamsOK, HistoryOK, daemon, boot, watcher,
     history, Fault, NoFault, Found, Running, Booting, Cancelled, Off
<1>14. CASE Rediscovers
  BY <1>14 DEF Rediscovers, Typed, DaemonOK, BootOK, LoopOK, AttOK, StreamsOK, HistoryOK, daemon, boot, watcher,
     history, Fault, NoFault, Found, Running, Booting, Cancelled, Off
<1>15. CASE RediscoveryEnds
  BY <1>15 DEF RediscoveryEnds, Typed, DaemonOK, BootOK, LoopOK, AttOK, StreamsOK, HistoryOK, daemon, boot, watcher,
     history, Fault, NoFault, Found, Running, Booting, Cancelled, Off
<1>16. CASE LoopEnds
  BY <1>16 DEF LoopEnds, Typed, DaemonOK, BootOK, LoopOK, AttOK, StreamsOK, HistoryOK, daemon, boot, watcher,
     history, Fault, NoFault, Found, Running, Booting, Cancelled, Off
<1>17. CASE Cancels
  BY <1>17 DEF Cancels, Typed, DaemonOK, BootOK, LoopOK, AttOK, StreamsOK, HistoryOK, daemon, boot, watcher,
     history, Fault, NoFault, Found, Running, Booting, Cancelled, Off
<1>18. CASE Sweeps
  <2>1. streams' \in [Containers -> Seq(StreamRec)] /\ \A c \in Containers : streams'[c] = <<>> <=> streams[c] = <<>>
    BY <1>18, LastStopped DEF Sweeps, Typed
  <2>2. StreamsOK'
    BY <1>18, <2>1 DEF Sweeps, Typed, StreamsOK, daemon
  <2> QED
    BY <1>18, <2>2 DEF Sweeps, Typed, DaemonOK, BootOK, LoopOK, AttOK, HistoryOK, daemon, history
<1>19. CASE WaitsForLoop
  BY <1>19 DEF WaitsForLoop, Typed, DaemonOK, BootOK, LoopOK, AttOK, StreamsOK, HistoryOK, daemon, boot, watcher,
     history, Fault, NoFault, Found, Running, Booting, Cancelled, Off
<1>20. CASE WaitsForStreams
  BY <1>20 DEF WaitsForStreams, Typed, DaemonOK, BootOK, LoopOK, AttOK, StreamsOK, HistoryOK, daemon, boot, watcher,
     history, Fault, NoFault, Found, Running, Booting, Cancelled, Off
<1>21. CASE GateFinds
  BY <1>21 DEF GateFinds, Typed, DaemonOK, BootOK, LoopOK, AttOK, StreamsOK, HistoryOK, daemon, boot, watcher,
     history, Fault, NoFault, Found, Running, Booting, Cancelled, Off
<1>22. CASE GateInspects
  BY <1>22 DEF GateInspects, Typed, DaemonOK, BootOK, LoopOK, AttOK, StreamsOK, HistoryOK, daemon, boot, watcher,
     history, Fault, NoFault, Found, Running, Booting, Cancelled, Off
<1>23. CASE GateOpens
  BY <1>23 DEF GateOpens, Typed, DaemonOK, BootOK, LoopOK, AttOK, StreamsOK, HistoryOK, daemon, boot, watcher,
     history, Fault, NoFault, Found, Running, Booting, Cancelled, Off
<1>24. CASE GateReads
  BY <1>24 DEF GateReads, Typed, DaemonOK, BootOK, LoopOK, AttOK, StreamsOK, HistoryOK, daemon, boot, watcher,
     history, Fault, NoFault, Found, Running, Booting, Cancelled, Off
<1>25. CASE GateFails
  BY <1>25 DEF GateFails, Typed, DaemonOK, BootOK, LoopOK, AttOK, StreamsOK, HistoryOK, daemon, boot, watcher,
     history, Fault, NoFault, Found, Running, Booting, Cancelled, Off
<1>26. ASSUME NEW c \in Containers, Starts(c) PROVE Typed'
  <2>1. DaemonOK'
    BY <1>26 DEF Starts, Typed, DaemonOK
  <2>2. LoopOK'
    BY <1>26 DEF Starts, Typed, LoopOK, watcher
  <2>3. BootOK' /\ HistoryOK'
    BY <1>26 DEF Starts, Typed, BootOK, HistoryOK, boot
  <2>4. run' \in [Containers -> Runs] /\ \A d \in Containers : run[d] <= run'[d]
    BY <1>26, <2>1 DEF Starts, Typed, DaemonOK, Runs
  <2>5. AttOK'
    BY <1>26, <2>4, StackAssumption DEF Starts, Typed, DaemonOK, StreamsOK, AttOK, watcher, Runs, StackAssumption
  <2>6. StreamsOK'
    BY <1>26, <2>4, StackAssumption DEF Starts, Typed, DaemonOK, StreamsOK, watcher, Runs, StackAssumption
  <2> QED
    BY <2>1, <2>2, <2>3, <2>5, <2>6 DEF Typed
<1>27. ASSUME NEW c \in Containers, Stops(c) PROVE Typed'
  <2>1. DaemonOK'
    BY <1>27 DEF Stops, Typed, DaemonOK
  <2> QED
    BY <1>27, <2>1 DEF Stops, Typed, DaemonOK, BootOK, LoopOK, AttOK, StreamsOK, HistoryOK, boot, watcher, history
<1>28. ASSUME NEW c \in Containers, Writes(c) PROVE Typed'
  <2>1. DaemonOK'
    <3>1. run[c] \in 1 .. MaxRuns /\ log[c] \in Seq(1 .. MaxRuns)
      BY <1>28 DEF Writes, Typed, DaemonOK
    <3>2. /\ log'[c] \in Seq(1 .. MaxRuns) /\ Len(log'[c]) = Len(log[c]) + 1
          /\ \A i \in DOMAIN log'[c] : IF i = Len(log'[c]) THEN log'[c][i] = run[c]
                                       ELSE i \in DOMAIN log[c] /\ log'[c][i] = log[c][i]
      BY <1>28, <3>1 DEF Writes, Typed, DaemonOK
    <3>3. \A d \in Containers \ {c} : log'[d] = log[d]
      BY <1>28 DEF Writes, Typed, DaemonOK
    <3>4. log' \in [Containers -> Seq(1 .. MaxRuns)]
      BY <1>28, <3>2 DEF Writes, Typed, DaemonOK
    <3>5. \A i \in DOMAIN log'[c] : log'[c][i] <= run[c]
      <4> SUFFICES ASSUME NEW i \in DOMAIN log'[c] PROVE log'[c][i] <= run[c]
        OBVIOUS
      <4>1. CASE i = Len(log'[c])
        BY <3>1, <3>2, <4>1
      <4>2. CASE i # Len(log'[c])
        BY <3>2, <4>2 DEF Typed, DaemonOK
      <4> QED
        BY <4>1, <4>2
    <3>6. \A i, j \in DOMAIN log'[c] : i <= j => log'[c][i] <= log'[c][j]
      <4> SUFFICES ASSUME NEW i \in DOMAIN log'[c], NEW j \in DOMAIN log'[c], i <= j
                   PROVE  log'[c][i] <= log'[c][j]
        OBVIOUS
      <4>1. DOMAIN log'[c] = 1 .. Len(log'[c]) /\ Len(log'[c]) \in Nat
        BY <3>2
      <4>2. CASE j = Len(log'[c])
        BY <3>2, <3>5, <4>2
      <4>3. CASE j # Len(log'[c])
        <5>1. j \in DOMAIN log[c] /\ log'[c][j] = log[c][j] /\ j < Len(log'[c])
          BY <3>2, <4>1, <4>3
        <5>2. i \in DOMAIN log[c] /\ log'[c][i] = log[c][i]
          BY <3>2, <4>1, <5>1
        <5> QED
          BY <5>1, <5>2 DEF Typed, DaemonOK
      <4> QED
        BY <4>2, <4>3
    <3>7. Len(log'[c]) <= MaxLines
      BY <1>28, <3>1, <3>2 DEF Writes
    <3> HIDE DEF Runs
    <3> QED
      BY <1>28, <3>3, <3>4, <3>5, <3>6, <3>7 DEF Writes, Typed, DaemonOK
  <2> QED
    BY <1>28, <2>1 DEF Writes, Typed, DaemonOK, BootOK, LoopOK, AttOK, StreamsOK, HistoryOK, boot, watcher, history
<1>29. CASE Opens
  <2> DEFINE c == att.c
  <2>1. c \in Containers /\ att' = Off /\ att.pc = "open"
    BY <1>29 DEF Opens, Typed, AttOK
  <2>2. DaemonOK' /\ BootOK' /\ LoopOK' /\ AttOK'
    BY <1>29, <2>1 DEF Opens, Typed, DaemonOK, BootOK, LoopOK, AttOK, daemon, boot, Fault, NoFault, Off
  <2>3. HistoryOK'
    BY <1>29, <2>1 DEF Opens, Typed, HistoryOK
  <2>4. StreamsOK'
    <3>1. CASE UNCHANGED <<attached, streams>>
      BY <1>29, <3>1 DEF Opens, Typed, StreamsOK, daemon
    <3>2. CASE UNCHANGED attached /\ streams' = [streams EXCEPT ![c] = StopLast(c)]
      <4>1. StopLast(c) \in Seq(StreamRec) /\ (StopLast(c) = <<>> <=> streams[c] = <<>>)
        BY <2>1, LastStopped DEF Typed
      <4> HIDE DEF c
      <4>2. streams' \in [Containers -> Seq(StreamRec)] /\ \A d \in Containers : streams'[d] = <<>> <=> streams[d] = <<>>
        BY <2>1, <3>2, <4>1 DEF Typed, StreamsOK, c
      <4> QED
        BY <1>29, <3>2, <4>2 DEF Opens, Typed, StreamsOK, daemon
    <3>3. ASSUME attached[c] # att.run, attached' = [attached EXCEPT ![c] = att.run],
                 NEW n \in 0 .. Len(log[c]),
                 streams' = [streams EXCEPT ![c] = Append(StopLast(c), Stream(ReplayFrom(c, n), c))]
          PROVE  StreamsOK'
      <4> DEFINE s == Append(StopLast(c), Stream(ReplayFrom(c, n), c))
      <4>1. att.run \in 1 .. run[c] /\ s \in Seq(StreamRec) /\ s # <<>>
        BY <2>1, <3>3, OneOpens
      <4> HIDE DEF s
      <4>2. streams' = [streams EXCEPT ![c] = s]
        BY <3>3 DEF s
      <4>3. run' = run
        BY <1>29 DEF Opens, daemon
      <4>4. run[c] \in Runs
        BY <2>1 DEF Typed, DaemonOK
      <4>5. att.run \in Runs /\ att.run # 0 /\ att.run <= run[c]
        BY <4>1, <4>4
      <4> HIDE DEF Runs, c
      <4>6. /\ attached' \in [Containers -> Runs]
            /\ \A d \in Containers : attached'[d] = IF d = c THEN att.run ELSE attached[d]
        BY <2>1, <3>3, <4>5 DEF Typed, StreamsOK
      <4>7. /\ streams' \in [Containers -> Seq(StreamRec)]
            /\ \A d \in Containers : streams'[d] = IF d = c THEN s ELSE streams[d]
        BY <2>1, <4>1, <4>2 DEF Typed, StreamsOK
      <4> QED
        BY <4>1, <4>3, <4>5, <4>6, <4>7 DEF Typed, StreamsOK
    <3>4. \/ UNCHANGED <<attached, streams>>
          \/ UNCHANGED attached /\ streams' = [streams EXCEPT ![c] = StopLast(c)]
          \/ /\ attached[c] # att.run /\ attached' = [attached EXCEPT ![c] = att.run]
             /\ \E n \in 0 .. Len(log[c]) :
                  streams' = [streams EXCEPT ![c] = Append(StopLast(c), Stream(ReplayFrom(c, n), c))]
      BY <1>29 DEF Opens
    <3> HIDE DEF c
    <3> QED
      BY <3>1, <3>2, <3>3, <3>4
  <2> QED
    BY <2>2, <2>3, <2>4 DEF Typed
<1>30. ASSUME NEW c \in Containers, NEW i \in DOMAIN streams[c], StreamReads(c, i) PROVE Typed'
  <2> DEFINE s == streams[c][i]
             n == s.pos + 1
  <2>1. s \in StreamRec
    BY <1>30 DEF Typed, StreamsOK
  <2>2. n \in Lines /\ n \in DOMAIN log[c]
    BY <1>30, <2>1 DEF StreamReads, Available, Typed, DaemonOK, StreamRec, Lines
  <2>3. [s EXCEPT !.pos = n] \in StreamRec
    BY <2>1, <2>2 DEF StreamRec, Lines
  <2>4. streams' = [streams EXCEPT ![c] = [@ EXCEPT ![i] = [s EXCEPT !.pos = n]]]
    BY <1>30 DEF StreamReads
  <2>5. StreamsOK'
    BY <1>30, <2>3, <2>4, OneChanges DEF StreamReads, Typed, StreamsOK, daemon
  <2>6. HistoryOK'
    BY <1>30, <2>2 DEF StreamReads, Typed, HistoryOK
  <2> QED
    BY <1>30, <2>5, <2>6 DEF StreamReads, Typed, DaemonOK, BootOK, LoopOK, AttOK, boot, daemon
<1>31. ASSUME NEW c \in Containers, NEW i \in DOMAIN streams[c], StreamEnds(c, i) PROVE Typed'
  <2> DEFINE s == streams[c][i]
  <2>1. s \in StreamRec
    BY <1>31 DEF Typed, StreamsOK
  <2>2. [s EXCEPT !.over = TRUE] \in StreamRec
    BY <2>1 DEF StreamRec
  <2>3. streams' = [streams EXCEPT ![c] = [@ EXCEPT ![i] = [s EXCEPT !.over = TRUE]]]
    BY <1>31 DEF StreamEnds
  <2>4. StreamsOK'
    BY <1>31, <2>2, <2>3, OneChanges DEF StreamEnds, Typed, StreamsOK, daemon
  <2> QED
    BY <1>31, <2>4 DEF StreamEnds, Typed, DaemonOK, BootOK, LoopOK, AttOK, HistoryOK, boot, daemon, Fault, NoFault
<1>32. CASE UNCHANGED vars
  BY <1>32 DEF vars, Typed, DaemonOK, BootOK, LoopOK, AttOK, StreamsOK, HistoryOK
<1> QED
  BY <1>1, <1>2, <1>3, <1>4, <1>5, <1>6, <1>7, <1>8, <1>9, <1>10, <1>11, <1>12, <1>13, <1>14, <1>15, <1>16, <1>17, <1>18, <1>19, <1>20, <1>21, <1>22, <1>23, <1>24, <1>25, <1>26, <1>27, <1>28, <1>29, <1>30, <1>31, <1>32 DEF Next, Stack, Boot, Attach, Watch, Streams, Quit, Gate

-----------------------------------------------------------------------------
(* What most actions leave alone.                                          *)

LEMMA RunsRise ==
  ASSUME Typed, [Next]_vars
  PROVE  /\ \A c \in Containers : run[c] <= run'[c]
         /\ Cancelled => Cancelled'
         /\ stale \subseteq stale'
<1> DEFINE Rises == \A c \in Containers : run[c] <= run'[c]
           Stays == (Cancelled => Cancelled') /\ stale \subseteq stale'
<1> SUFFICES Rises /\ Stays
  OBVIOUS
<1>0. run \in [Containers -> Nat]
  BY DEF Typed, DaemonOK, Runs
<1>1. ASSUME NEW c \in Containers, Starts(c) \/ Stops(c) \/ Writes(c)
      PROVE  Rises /\ Stays
  <2>1. main' = main /\ stale' = stale
    BY <1>1 DEF Starts, Stops, Writes, boot, history
  <2>2. run' = run \/ run' = [run EXCEPT ![c] = run[c] + 1]
    BY <1>1 DEF Starts, Stops, Writes
  <2>3. \A d \in Containers : run[d] <= run'[d]
    BY <1>0, <2>2
  <2> QED
    BY <2>1, <2>3 DEF Cancelled
<1>2. ASSUME NEW c \in Containers, NEW i \in DOMAIN streams[c], StreamReads(c, i) \/ StreamEnds(c, i)
      PROVE  run' = run /\ main' = main /\ stale' = stale
  BY <1>2 DEF StreamReads, StreamEnds, daemon, boot
<1>3. CASE Boot
  <2>1. run' = run /\ stale' = stale /\ ~Cancelled
    BY <1>3 DEF Boot, Discovers, OffersStack, AsksStack, AwaitsStack, OffersRest, AsksRest, AwaitsRest, Watches,
       daemon, history, Cancelled
  <2> QED
    BY <1>0, <2>1
<1>4. CASE Attach \/ Watch \/ Gate
  <2>1. run' = run /\ main' = main /\ stale \subseteq stale'
    BY <1>4 DEF Attach, Watch, Gate, AttachNext, Inspects, Opens, Subscribes, OnEvent, FeedDrops, Rediscovers,
       RediscoveryEnds, LoopEnds, GateFinds, GateInspects, GateOpens, GateReads, GateFails, daemon, boot, history
  <2> QED
    BY <1>0, <2>1 DEF Cancelled
<1>5. CASE Quit
  <2>1. run' = run /\ stale' = stale /\ Cancelled'
    BY <1>5 DEF Quit, Cancels, Sweeps, WaitsForLoop, WaitsForStreams, daemon, history, Cancelled
  <2> QED
    BY <1>0, <2>1
<1>6. CASE UNCHANGED vars
  BY <1>6, <1>0 DEF vars, Cancelled
<1>7. CASE Streams
  BY <1>0, <1>2, <1>7 DEF Streams, Cancelled
<1> HIDE DEF Rises, Stays
<1> QED
  BY <1>1, <1>3, <1>4, <1>5, <1>6, <1>7 DEF Next, Stack

LEMMA StreamsStay ==
  ASSUME [Next]_vars, ~Opens, ~Sweeps,
         ~ \E c \in Containers : \E i \in DOMAIN streams[c] : StreamReads(c, i) \/ StreamEnds(c, i)
  PROVE  UNCHANGED <<attached, streams, got, twice, stale>> /\ (main' \in Done => main \in Done)
<1> USE DEF Done
<1>1. ASSUME NEW c \in Containers, Starts(c) \/ Stops(c) \/ Writes(c)
      PROVE  UNCHANGED <<attached, streams, got, twice, stale, main>>
  BY <1>1 DEF Starts, Stops, Writes, boot, watcher, history
<1>2. CASE Boot
  BY <1>2 DEF Boot, Discovers, OffersStack, AsksStack, AwaitsStack, OffersRest, AsksRest, AwaitsRest, Watches,
     watcher, history
<1>3. CASE Attach \/ Watch \/ Gate
  BY <1>3 DEF Attach, Watch, Gate, AttachNext, Inspects, Subscribes, OnEvent, FeedDrops, Rediscovers,
     RediscoveryEnds, LoopEnds, GateFinds, GateInspects, GateOpens, GateReads, GateFails, boot, watcher, history
<1>4. CASE Quit
  BY <1>4 DEF Quit, Cancels, WaitsForLoop, WaitsForStreams, watcher, history
<1>5. CASE UNCHANGED vars
  BY <1>5 DEF vars
<1> QED
  BY <1>1, <1>2, <1>3, <1>4, <1>5 DEF Next, Stack, Streams

-----------------------------------------------------------------------------

LEMMA CancelStep == Typed /\ CancelOK /\ [Next]_vars => CancelOK'
<1> SUFFICES ASSUME Typed, CancelOK, [Next]_vars PROVE CancelOK'
  OBVIOUS
<1>1. \A c \in Containers : /\ run[c] <= run'[c] /\ run[c] \in Nat /\ run'[c] \in Nat /\ attached[c] \in Nat
                            /\ streams[c] \in Seq(StreamRec)
  BY RunsRise, TypedStep DEF Typed, DaemonOK, StreamsOK, Runs
<1>2. Cancelled => Cancelled'
  BY RunsRise
<1>3. CASE UNCHANGED <<attached, streams>> /\ (main' \in Done => main \in Done)
  <2>1. OneStream' /\ NothingAfterStop'
    BY <1>3 DEF CancelOK, OneStream, NothingAfterStop, Done
  <2>2. ASSUME ~Cancelled', NEW c \in Containers, streams'[c] # <<>>, Last(streams'[c]).stopped
        PROVE  attached'[c] < run'[c]
    BY <1>1, <1>2, <1>3, <2>2 DEF CancelOK
  <2> QED
    BY <2>1, <2>2 DEF CancelOK
<1>4. CASE Sweeps
  <2>1. \A c \in Containers : streams'[c] = StopLast(c)
    BY <1>4 DEF Sweeps
  <2>2. ASSUME NEW c \in Containers, NEW i \in DOMAIN streams'[c] PROVE streams'[c][i].stopped
    <3>1. /\ i \in DOMAIN streams[c]
          /\ streams'[c][i] = IF i = Len(streams[c]) THEN [streams[c][i] EXCEPT !.stopped = TRUE] ELSE streams[c][i]
      <4>1. streams'[c] = StopLast(c) /\ i \in DOMAIN StopLast(c)
        BY <2>1, <2>2
      <4>2. /\ DOMAIN StopLast(c) = DOMAIN streams[c]
            /\ \A j \in DOMAIN streams[c] : StopLast(c)[j] =
                 IF j = Len(streams[c]) THEN [streams[c][j] EXCEPT !.stopped = TRUE] ELSE streams[c][j]
        BY LastStopped DEF Typed
      <4> QED
        BY <4>1, <4>2
    <3>2. streams[c][i] \in StreamRec
      BY <1>1, <3>1
    <3>3. i # Len(streams[c]) => streams[c][i].stopped
      BY <1>1, <3>1 DEF CancelOK, OneStream
    <3> QED
      BY <3>1, <3>2, <3>3 DEF StreamRec
  <2>3. Cancelled'
    BY <1>4 DEF Sweeps, Cancelled
  <2> QED
    BY <2>2, <2>3 DEF CancelOK, OneStream, NothingAfterStop
<1>5. ASSUME NEW c \in Containers, NEW i \in DOMAIN streams[c], StreamReads(c, i) \/ StreamEnds(c, i)
      PROVE  CancelOK'
  <2>1. PICK s \in StreamRec : /\ streams' = [streams EXCEPT ![c] = [@ EXCEPT ![i] = s]]
                               /\ s.stopped = streams[c][i].stopped
    <3>1. streams[c][i] \in StreamRec /\ streams[c] \in Seq(StreamRec)
      BY <1>1, <1>5
    <3>2. CASE StreamEnds(c, i)
      <4> DEFINE s == [streams[c][i] EXCEPT !.over = TRUE]
      <4>1. s \in StreamRec /\ s.stopped = streams[c][i].stopped
        BY <3>1 DEF StreamRec
      <4>2. streams' = [streams EXCEPT ![c] = [@ EXCEPT ![i] = s]]
        BY <3>2 DEF StreamEnds
      <4> QED
        BY <4>1, <4>2
    <3>3. CASE StreamReads(c, i)
      <4> DEFINE s == [streams[c][i] EXCEPT !.pos = streams[c][i].pos + 1]
      <4>1. streams[c][i].pos + 1 \in 0 .. MaxLines
        <5>1. Len(log[c]) <= MaxLines /\ Len(log[c]) \in Nat /\ MaxLines \in Nat
          BY StackAssumption DEF Typed, DaemonOK, StackAssumption
        <5>2. streams[c][i].pos \in Nat
          BY <3>1 DEF StreamRec
        <5>3. streams[c][i].pos < Len(log[c])
          BY <3>3 DEF StreamReads, Available
        <5> QED
          BY <5>1, <5>2, <5>3
      <4>2. s \in StreamRec /\ s.stopped = streams[c][i].stopped
        BY <3>1, <4>1 DEF StreamRec
      <4>3. streams' = [streams EXCEPT ![c] = [@ EXCEPT ![i] = s]]
        BY <3>3 DEF StreamReads
      <4> QED
        BY <4>2, <4>3
    <3> QED
      BY <1>5, <3>2, <3>3
  <2>2. /\ \A d \in Containers : Len(streams'[d]) = Len(streams[d]) /\ DOMAIN streams'[d] = DOMAIN streams[d]
        /\ \A d \in Containers : streams'[d] = <<>> <=> streams[d] = <<>>
        /\ \A d \in Containers : \A j \in DOMAIN streams[d] :
             streams'[d][j].stopped = streams[d][j].stopped
    BY <1>5, <2>1, OneChanges DEF Typed
  <2>3. attached' = attached /\ main' = main
    BY <1>5 DEF StreamReads, StreamEnds, boot
  <2>4. OneStream' /\ NothingAfterStop'
    BY <2>2, <2>3 DEF CancelOK, OneStream, NothingAfterStop
  <2>5. ASSUME ~Cancelled', NEW d \in Containers, streams'[d] # <<>>, Last(streams'[d]).stopped
        PROVE  attached'[d] < run'[d]
    <3>1. Len(streams[d]) \in DOMAIN streams[d] /\ streams[d] # <<>>
      BY <1>1, <2>2, <2>5
    <3>2. Last(streams[d]).stopped
      BY <2>2, <2>5, <3>1 DEF Last
    <3> QED
      BY <1>1, <1>2, <2>3, <2>5, <3>1, <3>2 DEF CancelOK
  <2> QED
    BY <2>4, <2>5 DEF CancelOK
<1>6. ASSUME Opens, ~UNCHANGED <<attached, streams>> PROVE CancelOK'
  <2> DEFINE c == att.c
  <2>1. /\ att.pc = "open" /\ c \in Containers /\ ~Cancelled /\ attached[c] # att.run
        /\ main' = main /\ attached[c] <= att.run /\ att.run <= run[c] /\ run' = run
    BY <1>6 DEF Opens, boot, daemon, Typed, AttOK
  <2>2. att.run \in Nat
    BY <2>1 DEF Typed, AttOK, Runs
  <2>3. attached[c] < run[c]
    BY <1>1, <2>1, <2>2
  <2>4. /\ StopLast(c) \in Seq(StreamRec) /\ Len(StopLast(c)) = Len(streams[c])
        /\ DOMAIN StopLast(c) = DOMAIN streams[c]
        /\ \A i \in DOMAIN streams[c] : StopLast(c)[i].stopped
    <3>1. /\ StopLast(c) \in Seq(StreamRec) /\ Len(StopLast(c)) = Len(streams[c])
          /\ DOMAIN StopLast(c) = DOMAIN streams[c]
      BY <2>1, LastStopped DEF Typed
    <3>2. ASSUME NEW i \in DOMAIN streams[c] PROVE StopLast(c)[i].stopped
      <4>1. StopLast(c)[i] = IF i = Len(streams[c]) THEN [streams[c][i] EXCEPT !.stopped = TRUE] ELSE streams[c][i]
        BY <2>1, LastStopped DEF Typed
      <4>2. streams[c][i] \in StreamRec /\ i \in 1 .. Len(streams[c])
        BY <1>1, <2>1
      <4>3. i # Len(streams[c]) => streams[c][i].stopped
        BY <1>1, <2>1, <4>2 DEF CancelOK, OneStream
      <4> QED
        BY <4>1, <4>2, <4>3 DEF StreamRec
    <3> QED
      BY <3>1, <3>2
  <2>5. NothingAfterStop'
    BY <2>1 DEF NothingAfterStop, Cancelled
  <2>6. CASE attached' = attached /\ streams' = [streams EXCEPT ![c] = StopLast(c)]
    <3>1. /\ streams'[c] = StopLast(c) /\ \A d \in Containers \ {c} : streams'[d] = streams[d]
      BY <2>1, <2>6 DEF Typed, StreamsOK
    <3>2. OneStream'
      BY <2>4, <3>1 DEF CancelOK, OneStream
    <3>3. ASSUME NEW d \in Containers, streams'[d] # <<>>, Last(streams'[d]).stopped PROVE attached'[d] < run'[d]
      BY <2>1, <2>3, <2>6, <3>1, <3>3 DEF CancelOK
    <3> QED
      BY <2>5, <3>2, <3>3 DEF CancelOK
  <2>7. ASSUME NEW n \in 0 .. Len(log[c]), attached' = [attached EXCEPT ![c] = att.run],
               streams' = [streams EXCEPT ![c] = Append(StopLast(c), Stream(ReplayFrom(c, n), c))]
        PROVE  CancelOK'
    <3> DEFINE s == Append(StopLast(c), Stream(ReplayFrom(c, n), c))
    <3>1. /\ s \in Seq(StreamRec) /\ Len(s) = Len(streams[c]) + 1
          /\ \A i \in DOMAIN streams[c] : s[i] = StopLast(c)[i]
          /\ s[Len(s)] = Stream(ReplayFrom(c, n), c)
      BY <2>1, <2>7, OneOpens
    <3>2. ~s[Len(s)].stopped
      BY <3>1 DEF Stream
    <3> HIDE DEF s
    <3>3. /\ streams'[c] = s /\ \A d \in Containers \ {c} : streams'[d] = streams[d] /\ attached'[d] = attached[d]
      BY <2>1, <2>7 DEF Typed, StreamsOK, s
    <3>4. \A i \in DOMAIN s : i < Len(s) => s[i].stopped
      <4>1. \A i \in DOMAIN s : i < Len(s) => i \in DOMAIN streams[c]
        BY <1>1, <2>1, <3>1
      <4> QED
        BY <2>4, <3>1, <4>1
    <3>5. OneStream'
      BY <3>3, <3>4 DEF CancelOK, OneStream
    <3>6. ASSUME NEW d \in Containers, streams'[d] # <<>>, Last(streams'[d]).stopped PROVE attached'[d] < run'[d]
      <4>1. d # c
        BY <3>2, <3>3, <3>6 DEF Last
      <4> QED
        BY <2>1, <3>3, <3>6, <4>1 DEF CancelOK
    <3> QED
      BY <2>5, <3>5, <3>6 DEF CancelOK
  <2>8. \/ attached' = attached /\ streams' = [streams EXCEPT ![c] = StopLast(c)]
        \/ /\ attached' = [attached EXCEPT ![c] = att.run]
           /\ \E n \in 0 .. Len(log[c]) :
                streams' = [streams EXCEPT ![c] = Append(StopLast(c), Stream(ReplayFrom(c, n), c))]
    BY <1>6 DEF Opens
  <2> HIDE DEF c
  <2> QED
    BY <2>6, <2>7, <2>8
<1> QED
  <2>1. CASE Opens /\ UNCHANGED <<attached, streams>>
    BY <1>3, <2>1 DEF Opens, boot
  <2> QED
    BY <1>3, <1>4, <1>5, <1>6, <2>1, StreamsStay

-----------------------------------------------------------------------------

\* Cancelling a stream moves neither its position nor its run.
LEMMA StoppedKeeps ==
  ASSUME NEW r \in StreamRec
  PROVE  [r EXCEPT !.stopped = TRUE].pos = r.pos /\ [r EXCEPT !.stopped = TRUE].upto = r.upto
BY DEF StreamRec

LEMMA StopKeeps ==
  ASSUME StreamsOK, NEW c \in Containers, NEW i \in DOMAIN streams[c]
  PROVE  StopLast(c)[i].pos = streams[c][i].pos /\ StopLast(c)[i].upto = streams[c][i].upto
<1>1. streams[c][i] \in StreamRec
  BY DEF StreamsOK
<1> DEFINE r == streams[c][i]
<1>2. StopLast(c)[i] = IF i = Len(streams[c]) THEN [r EXCEPT !.stopped = TRUE] ELSE r
  BY LastStopped
<1> HIDE DEF r
<1>3. StopLast(c)[i].pos = r.pos /\ StopLast(c)[i].upto = r.upto
  BY <1>1, <1>2, StoppedKeeps DEF r
<1> QED
  BY <1>3 DEF r

\* The run of a stream that is read, and the lines it has still to read.
LEMMA OnceStep == Typed /\ CancelOK /\ OnceOK /\ [Next]_vars => OnceOK'
<1> SUFFICES ASSUME Typed, OnceOK, [Next]_vars, NEW c \in Containers, c \notin stale'
             PROVE  Apart(c)' /\ Captured(c)'
  BY DEF OnceOK
<1>1. c \notin stale /\ Apart(c) /\ Captured(c)
  BY RunsRise DEF OnceOK
<1>2. /\ streams[c] \in Seq(StreamRec) /\ log[c] \in Seq(1 .. MaxRuns)
      /\ attached[c] \in Nat /\ run[c] \in Nat /\ attached[c] <= run[c] /\ got[c] \subseteq Nat
      /\ Len(log[c]) \in Nat /\ DOMAIN log[c] = 1 .. Len(log[c])
      /\ \A i \in DOMAIN log[c] : log[c][i] \in Nat \ {0}
      /\ DOMAIN streams[c] = 1 .. Len(streams[c]) /\ Len(streams[c]) \in Nat
      /\ attached[c] = 0 <=> streams[c] = <<>>
  <2>1. /\ streams[c] \in Seq(StreamRec) /\ log[c] \in Seq(1 .. MaxRuns)
        /\ attached[c] \in Nat /\ run[c] \in Nat /\ attached[c] <= run[c] /\ got[c] \subseteq Nat
        /\ attached[c] = 0 <=> streams[c] = <<>>
    BY DEF Typed, StreamsOK, DaemonOK, HistoryOK, Lines, Runs
  <2> QED
    BY <2>1, StackAssumption DEF StackAssumption
<1>3. \A i \in DOMAIN streams[c] : streams[c][i].pos \in Nat /\ streams[c][i].upto \in Nat
  <2> SUFFICES ASSUME NEW i \in DOMAIN streams[c]
               PROVE  streams[c][i].pos \in Nat /\ streams[c][i].upto \in Nat
    OBVIOUS
  <2>1. streams[c][i] \in StreamRec
    BY <1>2
  <2> QED
    BY <2>1 DEF StreamRec
<1>4. ASSUME UNCHANGED <<attached, streams, got, twice>>, log'[c] = log[c]
      PROVE  Apart(c)' /\ Captured(c)'
  BY <1>1, <1>4 DEF Apart, Captured
\* Positions and runs stay: streams end, or are cancelled.
<1>5. ASSUME UNCHANGED <<attached, got, twice>>, log'[c] = log[c], DOMAIN streams'[c] = DOMAIN streams[c],
             \A i \in DOMAIN streams[c] : /\ streams'[c][i].pos = streams[c][i].pos
                                          /\ streams'[c][i].upto = streams[c][i].upto
      PROVE  Apart(c)' /\ Captured(c)'
  BY <1>1, <1>5 DEF Apart, Captured
<1>6. ASSUME NEW d \in Containers, Writes(d) PROVE Apart(c)' /\ Captured(c)'
  <2>1. UNCHANGED <<attached, streams, got, twice>>
    BY <1>6 DEF Writes, watcher, history
  <2>2. CASE d # c
    BY <1>4, <1>6, <2>1, <2>2 DEF Writes, Typed, DaemonOK
  <2>3. CASE d = c
    <3> DEFINE n == Len(log[c]) + 1
    <3>1. log'[c] = Append(log[c], run[c])
      BY <1>6, <2>3 DEF Writes, Typed, DaemonOK
    <3>2. /\ DOMAIN log'[c] = DOMAIN log[c] \cup {n} /\ log'[c][n] = run[c]
          /\ \A i \in DOMAIN log[c] : log'[c][i] = log[c][i]
      BY <1>2, <3>1
    <3>3. Captured(c)'
      BY <1>1, <2>1, <3>2 DEF Captured
    <3>4. ASSUME NEW i \in DOMAIN streams[c], NEW j \in DOMAIN streams[c], i < j
          PROVE  run[c] > streams[c][i].upto
      <4>1. streams[c][i].upto < streams[c][j].upto /\ streams[c][j].upto <= attached[c]
        BY <1>1, <3>4 DEF Apart
      <4>2. streams[c][i].upto \in Nat /\ streams[c][j].upto \in Nat
        BY <1>3
      <4> QED
        BY <1>2, <4>1, <4>2
    <3>5. Apart(c)'
      <4> HIDE DEF n
      <4> QED
        BY <1>1, <2>1, <3>2, <3>4 DEF Apart
    <3> QED
      BY <3>3, <3>5
  <2> QED
    BY <2>2, <2>3
<1>7. CASE Sweeps
  <2>1. streams'[c] = StopLast(c) /\ UNCHANGED <<attached, log, got, twice>>
    BY <1>7 DEF Sweeps, history, daemon
  <2>2. /\ DOMAIN StopLast(c) = DOMAIN streams[c]
        /\ \A i \in DOMAIN streams[c] :
             StopLast(c)[i] = IF i = Len(streams[c]) THEN [streams[c][i] EXCEPT !.stopped = TRUE] ELSE streams[c][i]
    BY LastStopped DEF Typed
  <2>3. \A i \in DOMAIN streams[c] : streams'[c][i].pos = streams[c][i].pos /\ streams'[c][i].upto = streams[c][i].upto
    BY <2>1, StopKeeps DEF Typed
  <2> QED
    BY <1>5, <2>1, <2>2, <2>3
<1>8. ASSUME NEW d \in Containers, NEW k \in DOMAIN streams[d], StreamEnds(d, k)
      PROVE  Apart(c)' /\ Captured(c)'
  <2> DEFINE s == [streams[d][k] EXCEPT !.over = TRUE]
  <2>1. streams[d][k] \in StreamRec
    BY <1>8 DEF Typed, StreamsOK
  <2>2. s \in StreamRec /\ s.pos = streams[d][k].pos /\ s.upto = streams[d][k].upto
    BY <2>1 DEF StreamRec
  <2>3. streams' = [streams EXCEPT ![d] = [@ EXCEPT ![k] = s]] /\ UNCHANGED <<attached, got, twice, log>>
    BY <1>8 DEF StreamEnds, daemon
  <2> HIDE DEF s
  <2>4. /\ DOMAIN streams'[c] = DOMAIN streams[c]
        /\ \A j \in DOMAIN streams[c] : streams'[c][j] = IF c = d /\ j = k THEN s ELSE streams[c][j]
    BY <1>8, <2>2, <2>3, OneChanges DEF Typed
  <2> QED
    BY <1>5, <2>2, <2>3, <2>4
<1>9. ASSUME NEW d \in Containers, NEW k \in DOMAIN streams[d], StreamReads(d, k)
      PROVE  Apart(c)' /\ Captured(c)'
  <2> DEFINE n == streams[d][k].pos + 1
             s == [streams[d][k] EXCEPT !.pos = n]
  <2>1. streams[d][k] \in StreamRec
    BY <1>9 DEF Typed, StreamsOK
  <2>2. n \in 1 .. Len(log[d]) /\ log[d][n] <= streams[d][k].upto
    <3>1. log[d] \in Seq(1 .. MaxRuns)
      BY <1>9 DEF Typed, DaemonOK
    <3>2. streams[d][k].pos \in Nat
      BY <2>1 DEF StreamRec
    <3> QED
      BY <1>9, <3>1, <3>2 DEF StreamReads, Available
  <2>3. s \in StreamRec /\ s.pos = n /\ s.upto = streams[d][k].upto
    <3>1. Len(log[d]) <= MaxLines
      BY <1>9 DEF Typed, DaemonOK
    <3>2. n \in 0 .. MaxLines
      BY <2>2, <3>1, StackAssumption DEF StackAssumption
    <3> QED
      BY <2>1, <3>2 DEF StreamRec
  <2>4. /\ streams' = [streams EXCEPT ![d] = [@ EXCEPT ![k] = s]]
        /\ got' = [got EXCEPT ![d] = @ \cup {n}]
        /\ twice' = [twice EXCEPT ![d] = IF n \in got[d] THEN @ \cup {n} ELSE @]
        /\ UNCHANGED <<attached, log>>
    BY <1>9 DEF StreamReads, daemon
  <2> HIDE DEF s, n
  <2>5. /\ DOMAIN streams'[c] = DOMAIN streams[c]
        /\ \A j \in DOMAIN streams[c] : streams'[c][j] = IF c = d /\ j = k THEN s ELSE streams[c][j]
    BY <1>9, <2>3, <2>4, OneChanges DEF Typed
  <2>6. CASE c # d
    <3>1. got'[c] = got[c] /\ twice'[c] = twice[c] /\ log'[c] = log[c] /\ attached'[c] = attached[c]
      BY <2>4, <2>6 DEF Typed, HistoryOK
    <3> QED
      BY <1>1, <2>5, <2>6, <3>1 DEF Apart, Captured
  <2>7. CASE c = d
    <3>1. k \in DOMAIN streams[c] /\ n > streams[c][k].pos /\ n \in DOMAIN log[c] /\ log[c][n] <= streams[c][k].upto
          /\ n = streams[c][k].pos + 1
      BY <1>2, <1>3, <2>2, <2>7, <1>9 DEF n
    <3>2. n \notin got[c]
      <4>1. n \in got[c] => log[c][n] > streams[c][k].upto
        BY <1>1, <3>1 DEF Captured
      <4>2. log[c][n] \in Nat /\ streams[c][k].upto \in Nat
        BY <1>2, <1>3, <3>1
      <4> QED
        BY <3>1, <4>1, <4>2
    <3>3. got'[c] = got[c] \cup {n} /\ twice'[c] = twice[c]
      BY <2>4, <2>7, <3>2 DEF Typed, HistoryOK
    <3>4. \A i \in DOMAIN streams[c] :
            /\ streams'[c][i].upto = streams[c][i].upto /\ streams'[c][i].pos >= streams[c][i].pos
            /\ streams'[c][i].pos \in Nat
      <4> SUFFICES ASSUME NEW i \in DOMAIN streams[c]
                   PROVE  /\ streams'[c][i].upto = streams[c][i].upto /\ streams'[c][i].pos >= streams[c][i].pos
                          /\ streams'[c][i].pos \in Nat
        OBVIOUS
      <4>1. streams[c][i].pos \in Nat /\ streams[c][k].pos \in Nat
        BY <1>3, <3>1
      <4>2. CASE i = k
        BY <2>3, <2>5, <2>7, <3>1, <4>1, <4>2
      <4>3. CASE i # k
        BY <2>5, <2>7, <4>1, <4>3
      <4> QED
        BY <4>2, <4>3
    <3>5. Apart(c)'
      <4>1. \A i \in DOMAIN streams'[c] : streams'[c][i].upto <= attached'[c]
        BY <1>1, <2>4, <2>5, <3>4 DEF Apart
      <4>2. ASSUME NEW i \in DOMAIN streams'[c], NEW j \in DOMAIN streams'[c], i < j
            PROVE  /\ streams'[c][i].upto < streams'[c][j].upto
                   /\ \A m \in DOMAIN log'[c] : m > streams'[c][j].pos => log'[c][m] > streams'[c][i].upto
        <5>1. /\ i \in DOMAIN streams[c] /\ j \in DOMAIN streams[c] /\ streams[c][i].upto < streams[c][j].upto
              /\ \A m \in DOMAIN log[c] : m > streams[c][j].pos => log[c][m] > streams[c][i].upto
          BY <1>1, <2>5, <4>2 DEF Apart
        <5>2. ASSUME NEW m \in DOMAIN log[c], m > streams'[c][j].pos PROVE m > streams[c][j].pos
          <6>1. streams[c][j].pos \in Nat /\ m \in Nat /\ streams'[c][j].pos \in Nat
            BY <1>2, <1>3, <3>4, <5>1
          <6> QED
            BY <3>4, <5>1, <5>2, <6>1
        <5> QED
          BY <2>4, <3>4, <5>1, <5>2
      <4> QED
        BY <4>1, <4>2 DEF Apart
    <3>6. ASSUME NEW i \in DOMAIN streams[c], n > streams'[c][i].pos
          PROVE  log[c][n] > streams[c][i].upto
      <4>1. i # k
        BY <1>3, <2>3, <2>5, <2>7, <3>1, <3>6
      <4>2. streams'[c][i].pos = streams[c][i].pos
        BY <2>5, <2>7, <4>1
      <4>3. CASE i < k
        BY <1>1, <3>1, <4>3 DEF Apart
      <4>4. CASE k < i
        <5>1. log[c][n] > streams[c][k].upto
          BY <1>1, <3>1, <3>6, <4>2, <4>4 DEF Apart
        <5> QED
          BY <1>2, <1>3, <3>1, <5>1
      <4> QED
        BY <1>2, <3>1, <4>1, <4>3, <4>4
    <3>7. log[c][n] <= attached[c]
      <4>1. streams[c][k].upto <= attached[c]
        BY <1>1, <3>1 DEF Apart
      <4> QED
        BY <1>2, <1>3, <3>1, <4>1
    <3>8. ASSUME NEW m \in got'[c], NEW i \in DOMAIN streams'[c], m > streams'[c][i].pos
          PROVE  log'[c][m] > streams'[c][i].upto
      <4>1. CASE m = n
        BY <2>4, <2>5, <3>4, <3>6, <3>8, <4>1
      <4>2. CASE m # n
        <5>1. m \in got[c] /\ i \in DOMAIN streams[c] /\ m \in Nat
          BY <1>2, <2>5, <3>3, <3>8, <4>2
        <5>2. m > streams[c][i].pos
          BY <1>3, <3>4, <3>8, <5>1
        <5> QED
          BY <1>1, <2>4, <3>4, <5>1, <5>2 DEF Captured
      <4> QED
        BY <4>1, <4>2
    <3>9. Captured(c)'
      BY <1>1, <2>4, <3>1, <3>3, <3>7, <3>8 DEF Captured
    <3> QED
      BY <3>5, <3>9
  <2> QED
    BY <2>6, <2>7
<1>10. CASE Opens
  <2>1. att.c \in Containers /\ UNCHANGED <<got, twice, log, run>>
    BY <1>10 DEF Opens, Typed, AttOK, daemon
  <2>2. CASE att.c # c
    <3>1. attached'[c] = attached[c] /\ streams'[c] = streams[c]
      BY <1>10, <2>1, <2>2 DEF Opens, Typed, StreamsOK
    <3> QED
      BY <1>1, <2>1, <3>1 DEF Apart, Captured
  <2>3. CASE att.c = c /\ UNCHANGED <<attached, streams>>
    BY <1>4, <2>1, <2>3
  <2>4. ASSUME att.c = c, attached' = attached, streams' = [streams EXCEPT ![c] = StopLast(c)]
        PROVE  Apart(c)' /\ Captured(c)'
    <3>1. streams'[c] = StopLast(c)
      BY <2>4 DEF Typed, StreamsOK
    <3>2. /\ DOMAIN StopLast(c) = DOMAIN streams[c]
          /\ \A i \in DOMAIN streams[c] :
               StopLast(c)[i] = IF i = Len(streams[c]) THEN [streams[c][i] EXCEPT !.stopped = TRUE] ELSE streams[c][i]
      BY LastStopped DEF Typed
    <3>3. \A i \in DOMAIN streams[c] : streams'[c][i].pos = streams[c][i].pos /\ streams'[c][i].upto = streams[c][i].upto
      BY <3>1, StopKeeps DEF Typed
    <3> QED
      BY <1>5, <2>1, <2>4, <3>1, <3>2, <3>3
  <2>5. ASSUME att.c = c, attached[c] # att.run, NEW n \in 0 .. Len(log[c]),
               attached' = [attached EXCEPT ![c] = att.run],
               streams' = [streams EXCEPT ![c] = Append(StopLast(c), Stream(ReplayFrom(c, n), c))],
               stale' = IF att.run < run[c] THEN stale \cup {c} ELSE stale
        PROVE  Apart(c)' /\ Captured(c)'
    <3> DEFINE s == Append(StopLast(c), Stream(ReplayFrom(c, n), c))
               pos == ReplayFrom(c, n)
    <3>1. /\ att.run \in 1 .. run[c] /\ attached[c] < att.run
          /\ s \in Seq(StreamRec) /\ Len(s) = Len(streams[c]) + 1
          /\ \A i \in DOMAIN streams[c] : s[i] = StopLast(c)[i]
          /\ s[Len(s)] = Stream(pos, c)
      <4>1. att.pc = "open"
        BY <1>10 DEF Opens
      <4>2. att.c = c /\ attached[att.c] # att.run /\ n \in 0 .. Len(log[att.c])
            /\ s = Append(StopLast(att.c), Stream(ReplayFrom(att.c, n), att.c))
        BY <2>5
      <4> HIDE DEF s
      <4>3. /\ att.run \in 1 .. run[att.c] /\ attached[att.c] < att.run
            /\ s \in Seq(StreamRec) /\ Len(s) = Len(streams[att.c]) + 1
            /\ \A i \in DOMAIN streams[att.c] : s[i] = StopLast(att.c)[i]
            /\ s[Len(s)] = Stream(ReplayFrom(att.c, n), att.c)
        BY <4>1, <4>2, OneOpens
      <4> QED
        BY <4>2, <4>3
    <3>2. att.run = run[c]
      BY <1>2, <2>5, <3>1
    <3>3. attached'[c] = run[c] /\ streams'[c] = s
      BY <2>5, <3>2 DEF Typed, StreamsOK
    <3>4. Len(s) \in DOMAIN s /\ s[Len(s)].pos = pos /\ s[Len(s)].upto = run[c] /\ pos \in Nat
          /\ DOMAIN s = DOMAIN streams[c] \cup {Len(s)} /\ Len(s) \notin DOMAIN streams[c]
          /\ DOMAIN s = 1 .. Len(s)
      <4>1. pos \in Nat
        BY <1>2, <3>1, <3>2, ReplayTyped DEF Typed
      <4>2. s[Len(s)].pos = pos /\ s[Len(s)].upto = run[c]
        BY <3>1 DEF Stream
      <4>3. Len(s) \in Nat /\ DOMAIN s = 1 .. Len(s) /\ Len(s) = Len(streams[c]) + 1
        BY <3>1
      <4> HIDE DEF s, pos
      <4>4. Len(s) \in DOMAIN s /\ DOMAIN s = DOMAIN streams[c] \cup {Len(s)} /\ Len(s) \notin DOMAIN streams[c]
        BY <1>2, <4>3
      <4> QED
        BY <4>1, <4>2, <4>3, <4>4
    <3>5. \A i \in DOMAIN streams[c] : s[i].pos = streams[c][i].pos /\ s[i].upto = streams[c][i].upto
      BY <3>1, StopKeeps DEF Typed
    <3>6. ASSUME streams[c] # <<>>, NEW m \in DOMAIN log[c], m > pos PROVE log[c][m] >= run[c]
      <4>1. pos >= Before(c, att.run)
        BY <1>2, <3>1, <3>2, <3>6, ReplayTyped DEF Typed
      <4>2. Before(c, att.run) \in 0 .. Len(log[c]) /\ (m <= Before(c, att.run) <=> log[c][m] < att.run)
        BY <1>2, <3>2, <3>6, BeforeIsPrefix DEF Typed
      <4> HIDE DEF pos
      <4> QED
        BY <1>2, <3>2, <3>4, <3>6, <4>1, <4>2
    <3> HIDE DEF s, pos
    <3>7. Apart(c)'
      <4>1. \A i \in DOMAIN streams'[c] : streams'[c][i].upto <= attached'[c]
        <5> SUFFICES ASSUME NEW i \in DOMAIN s PROVE s[i].upto <= run[c]
          BY <3>3
        <5>1. CASE i = Len(s)
          BY <1>2, <3>4, <5>1
        <5>2. CASE i \in DOMAIN streams[c]
          BY <1>1, <1>2, <1>3, <3>5, <5>2 DEF Apart
        <5> QED
          BY <3>4, <5>1, <5>2
      <4>2. ASSUME NEW i \in DOMAIN s, NEW j \in DOMAIN s, i < j
            PROVE  /\ s[i].upto < s[j].upto
                   /\ \A m \in DOMAIN log[c] : m > s[j].pos => log[c][m] > s[i].upto
        <5>1. i \in DOMAIN streams[c] /\ s[i].upto = streams[c][i].upto
          <6>1. i # Len(s)
            <7>1. i \in 1 .. Len(s) /\ j \in 1 .. Len(s) /\ Len(s) \in Nat
              BY <1>2, <3>1, <3>4
            <7> QED
              BY <4>2, <7>1
          <6> QED
            BY <3>4, <3>5, <6>1
        <5>2. CASE j \in DOMAIN streams[c]
          BY <1>1, <3>5, <4>2, <5>1, <5>2 DEF Apart
        <5>3. CASE j = Len(s)
          <6>1. s[i].upto < run[c]
            BY <1>1, <1>2, <1>3, <3>1, <3>2, <5>1 DEF Apart
          <6>2. streams[c] # <<>>
            BY <1>2, <5>1
          <6>3. s[j].upto = run[c] /\ s[j].pos = pos
            BY <3>4, <5>3
          <6>4. s[i].upto \in Nat
            BY <1>3, <5>1
          <6>5. ASSUME NEW m \in DOMAIN log[c], m > s[j].pos PROVE log[c][m] > s[i].upto
            <7>1. log[c][m] >= run[c]
              BY <3>6, <6>2, <6>3, <6>5
            <7> QED
              BY <1>2, <6>1, <6>4, <7>1
          <6> QED
            BY <6>1, <6>3, <6>5
        <5> QED
          BY <3>4, <5>2, <5>3
      <4> QED
        BY <2>1, <3>3, <4>1, <4>2 DEF Apart
    <3>8. \A m \in got[c] : m \in DOMAIN log[c] /\ log[c][m] < run[c]
      BY <1>1, <1>2, <3>1, <3>2 DEF Captured
    <3>9. ASSUME NEW m \in got[c], NEW i \in DOMAIN s, m > s[i].pos PROVE log[c][m] > s[i].upto
      <4>1. CASE i \in DOMAIN streams[c]
        BY <1>1, <3>5, <3>9, <4>1 DEF Captured
      <4>2. CASE i = Len(s)
        <5>1. attached[c] # 0
          <6>1. m \in DOMAIN log[c] /\ log[c][m] <= attached[c]
            BY <1>1 DEF Captured
          <6>2. log[c][m] \in Nat \ {0}
            BY <1>2, <6>1
          <6> QED
            BY <1>2, <6>1, <6>2
        <5>2. m \in DOMAIN log[c] /\ log[c][m] < run[c] /\ m > pos
          BY <3>4, <3>8, <3>9, <4>2
        <5>3. log[c][m] >= run[c]
          BY <1>2, <3>6, <5>1, <5>2
        <5> QED
          BY <1>2, <5>2, <5>3
      <4> QED
        BY <3>4, <4>1, <4>2
    <3>10. Captured(c)'
      BY <1>1, <1>2, <2>1, <3>3, <3>8, <3>9 DEF Captured
    <3> QED
      BY <3>7, <3>10
  <2>6. att.c = c =>
          \/ UNCHANGED <<attached, streams>>
          \/ attached' = attached /\ streams' = [streams EXCEPT ![c] = StopLast(c)]
          \/ /\ attached[c] # att.run /\ attached' = [attached EXCEPT ![c] = att.run]
             /\ stale' = IF att.run < run[c] THEN stale \cup {c} ELSE stale
             /\ \E n \in 0 .. Len(log[c]) :
                  streams' = [streams EXCEPT ![c] = Append(StopLast(c), Stream(ReplayFrom(c, n), c))]
    BY <1>10 DEF Opens
  <2> QED
    BY <2>2, <2>3, <2>4, <2>5, <2>6
<1>11. ASSUME ~Opens, ~Sweeps, \A d \in Containers : ~Writes(d),
              ~ \E d \in Containers : \E k \in DOMAIN streams[d] : StreamReads(d, k) \/ StreamEnds(d, k)
       PROVE  Apart(c)' /\ Captured(c)'
  <2>1. UNCHANGED <<attached, streams, got, twice>>
    BY <1>11, StreamsStay
  <2>2. UNCHANGED log
    <3>1. ASSUME NEW d \in Containers, Starts(d) \/ Stops(d) PROVE UNCHANGED log
      BY <3>1 DEF Starts, Stops
    <3>2. CASE Boot
      BY <3>2 DEF Boot, Discovers, OffersStack, AsksStack, AwaitsStack, OffersRest, AsksRest, AwaitsRest, Watches, daemon
    <3>3. CASE Attach \/ Watch \/ Gate
      BY <1>11, <3>3 DEF Attach, Watch, Gate, AttachNext, Inspects, Subscribes, OnEvent, FeedDrops, Rediscovers,
         RediscoveryEnds, LoopEnds, GateFinds, GateInspects, GateOpens, GateReads, GateFails, daemon
    <3>4. CASE Quit
      BY <1>11, <3>4 DEF Quit, Cancels, WaitsForLoop, WaitsForStreams, daemon
    <3>5. CASE UNCHANGED vars
      BY <3>5 DEF vars
    <3> QED
      BY <1>11, <3>1, <3>2, <3>3, <3>4, <3>5 DEF Next, Stack, Streams
  <2> QED
    BY <1>4, <2>1, <2>2
<1> QED
  BY <1>6, <1>7, <1>8, <1>9, <1>10, <1>11

-----------------------------------------------------------------------------

LEMMA LogGrows ==
  ASSUME Typed, [Next]_vars, NEW c \in Containers
  PROVE  /\ DOMAIN log[c] \subseteq DOMAIN log'[c]
         /\ \A n \in DOMAIN log'[c] : \/ n \in DOMAIN log[c] /\ log'[c][n] = log[c][n]
                                      \/ log'[c][n] = run[c]
<1> DEFINE Grows == /\ DOMAIN log[c] \subseteq DOMAIN log'[c]
                    /\ \A n \in DOMAIN log'[c] : \/ n \in DOMAIN log[c] /\ log'[c][n] = log[c][n]
                                                 \/ log'[c][n] = run[c]
<1> SUFFICES Grows
  OBVIOUS
<1>1. ASSUME NEW d \in Containers, Writes(d) PROVE Grows
  <2>1. log[c] \in Seq(1 .. MaxRuns) /\ log' = [log EXCEPT ![d] = Append(log[d], run[d])]
        /\ log \in [Containers -> Seq(1 .. MaxRuns)]
    BY <1>1 DEF Writes, Typed, DaemonOK
  <2>2. CASE d = c
    BY <2>1, <2>2
  <2>3. CASE d # c
    BY <2>1, <2>3
  <2> QED
    BY <2>2, <2>3
<1>2. CASE UNCHANGED log
  BY <1>2
<1>3. ASSUME NEW d \in Containers, Starts(d) \/ Stops(d) PROVE UNCHANGED log
  BY <1>3 DEF Starts, Stops
<1>4. ASSUME NEW d \in Containers, NEW i \in DOMAIN streams[d], StreamReads(d, i) \/ StreamEnds(d, i)
      PROVE  UNCHANGED log
  BY <1>4 DEF StreamReads, StreamEnds, daemon
<1>5. Boot \/ Attach \/ Watch => UNCHANGED log
  BY DEF Boot, Discovers, OffersStack, AsksStack, AwaitsStack, OffersRest, AsksRest, AwaitsRest, Watches,
     Attach, Watch, AttachNext, Inspects, Opens, Subscribes, OnEvent, FeedDrops, Rediscovers, RediscoveryEnds,
     LoopEnds, daemon
<1>6. Quit \/ Gate => UNCHANGED log
  BY DEF Quit, Cancels, Sweeps, WaitsForLoop, WaitsForStreams, Gate, GateFinds, GateInspects, GateOpens,
     GateReads, GateFails, daemon
<1>7. UNCHANGED vars => UNCHANGED log
  BY DEF vars
<1> HIDE DEF Grows
<1> QED
  BY <1>1, <1>2, <1>3, <1>4, <1>5, <1>6, <1>7 DEF Next, Stack, Streams

LEMMA GateStep == Typed /\ GateOK /\ [Next]_vars => GateOK'
<1> SUFFICES ASSUME Typed, GateOK, [Next]_vars PROVE GateOK'
  OBVIOUS
<1>1. \A c \in Containers : run[c] \in Nat /\ run'[c] \in Nat /\ run[c] <= run'[c]
  BY RunsRise, TypedStep DEF Typed, DaemonOK, Runs
<1>2. CASE gate' = gate
  <2>1. CASE gate.pc = "match"
    <3> DEFINE c == gate.c
    <3>1. /\ c \in Containers /\ gate.since \in 1 .. run[c] /\ gate.upto \in 1 .. run[c] /\ gate.pos \in Nat
          /\ \A n \in DOMAIN log[c] : n > gate.pos => log[c][n] >= gate.since
      BY <2>1 DEF GateOK
    <3>2. \A n \in DOMAIN log'[c] : n > gate.pos => log'[c][n] >= gate.since
      BY <1>1, <3>1, LogGrows
    <3> QED
      BY <1>1, <1>2, <2>1, <3>1, <3>2 DEF GateOK
  <2>2. CASE gate.pc # "match"
    BY <1>1, <1>2, <2>2 DEF GateOK
  <2> QED
    BY <2>1, <2>2
<1>3. CASE GateFinds
  <2>1. PICK c \in Running : gate' = [pc |-> "inspect", c |-> c, since |-> run[c]]
    BY <1>3 DEF GateFinds
  <2>2. c \in Containers /\ run[c] # 0
    BY StackAssumption DEF StackAssumption, Running, Typed, DaemonOK
  <2> QED
    BY <1>1, <2>1, <2>2 DEF GateOK
<1>4. CASE GateInspects
  <2> DEFINE c == gate.c
  <2>1. c \in Containers /\ gate.since \in 1 .. run[c] /\ run' = run
    BY <1>4 DEF GateInspects, GateOK, daemon
  <2>2. gate' = [pc |-> "open", c |-> c, since |-> gate.since, run |-> run[c]]
    BY <1>4 DEF GateInspects
  <2> QED
    BY <1>1, <2>1, <2>2 DEF GateOK
<1>5. CASE GateOpens
  <2> DEFINE c == gate.c
             pos == Before(c, gate.run)
  <2>1. c \in Containers /\ gate.since \in 1 .. run[c] /\ run' = run /\ log' = log /\ gate.run \in gate.since .. run[c]
    BY <1>5 DEF GateOpens, GateOK, daemon
  <2>2. gate' = [pc |-> "match", c |-> c, since |-> gate.since, pos |-> pos, upto |-> run[c]]
    BY <1>5 DEF GateOpens
  <2>3. gate.run \in Nat /\ gate.since \in Nat /\ gate.since <= gate.run
    BY <1>1, <2>1
  <2>4. /\ pos \in 0 .. Len(log[c])
        /\ \A n \in DOMAIN log[c] : n <= pos <=> log[c][n] < gate.run
    BY <2>1, <2>3, BeforeIsPrefix DEF Typed
  <2>5. log[c] \in Seq(1 .. MaxRuns) /\ \A n \in DOMAIN log[c] : n \in Nat /\ log[c][n] \in Nat
    BY <2>1, StackAssumption DEF Typed, DaemonOK, StackAssumption
  <2> HIDE DEF pos
  <2>6. pos \in Nat
    BY <2>4, <2>5
  <2>7. \A n \in DOMAIN log[c] : n > pos => log[c][n] >= gate.since
    BY <2>3, <2>4, <2>5, <2>6
  <2> QED
    BY <1>1, <2>1, <2>2, <2>6, <2>7 DEF GateOK
<1>6. CASE GateReads
  <2> DEFINE c == gate.c
  <2>1. PICK n \in gate.pos + 1 .. Len(log[c]) : gate' = [pc |-> "passed", since |-> gate.since, by |-> log[c][n]]
    BY <1>6 DEF GateReads
  <2>2. c \in Containers /\ gate.pos \in Nat /\ gate.since \in 1 .. run[c]
        /\ \A m \in DOMAIN log[c] : m > gate.pos => log[c][m] >= gate.since
    BY <1>6 DEF GateReads, GateOK
  <2>3. log[c] \in Seq(1 .. MaxRuns)
    BY <2>2 DEF Typed, DaemonOK
  <2>4. n \in DOMAIN log[c] /\ n > gate.pos /\ log[c][n] \in Nat
    BY <2>1, <2>2, <2>3, StackAssumption DEF StackAssumption
  <2> QED
    BY <1>1, <2>1, <2>2, <2>4 DEF GateOK
<1>7. CASE GateFails \/ Cancels
  BY <1>7 DEF GateFails, Cancels, Off, GateOK
<1>8. ASSUME NEW c \in Containers, Starts(c) \/ Stops(c) \/ Writes(c) PROVE gate' = gate
  BY <1>8 DEF Starts, Stops, Writes
<1>9. ASSUME NEW c \in Containers, NEW i \in DOMAIN streams[c], StreamReads(c, i) \/ StreamEnds(c, i)
      PROVE  gate' = gate
  BY <1>9 DEF StreamReads, StreamEnds
<1>10. Boot \/ Attach \/ Watch \/ Sweeps \/ WaitsForLoop \/ WaitsForStreams => gate' = gate
  BY DEF Boot, Discovers, OffersStack, AsksStack, AwaitsStack, OffersRest, AsksRest, AwaitsRest, Watches,
     Attach, Watch, AttachNext, Inspects, Opens, Subscribes, OnEvent, FeedDrops, Rediscovers, RediscoveryEnds,
     LoopEnds, Sweeps, WaitsForLoop, WaitsForStreams
<1>11. UNCHANGED vars => gate' = gate
  BY DEF vars
<1> QED
  BY <1>2, <1>3, <1>4, <1>5, <1>6, <1>7, <1>8, <1>9, <1>10, <1>11 DEF Next, Stack, Streams, Quit, Gate

-----------------------------------------------------------------------------

LEMMA QuietStep == Typed /\ QuietOK /\ [Next]_vars => QuietOK'
<1> SUFFICES ASSUME Typed, QuietOK, [Next]_vars PROVE QuietOK'
  OBVIOUS
<1> USE DEF QuietOK, Booting
<1>1. ASSUME NEW c \in Containers, Starts(c) \/ Stops(c) \/ Writes(c) PROVE QuietOK'
  BY <1>1 DEF Starts, Stops, Writes, boot, watcher
<1>2. ASSUME NEW c \in Containers, NEW i \in DOMAIN streams[c], StreamReads(c, i) \/ StreamEnds(c, i)
      PROVE  QuietOK'
  BY <1>2 DEF StreamReads, StreamEnds, boot, daemon
<1>3. CASE Discovers
  BY <1>3 DEF Discovers, boot, daemon, watcher, Off, Found, Cancelled, Typed, LoopOK
<1>4. CASE OffersStack
  BY <1>4 DEF OffersStack, boot, daemon, watcher, Off, Found, Cancelled, Typed, LoopOK
<1>5. CASE AsksStack
  BY <1>5 DEF AsksStack, boot, daemon, watcher, Off, Found, Cancelled, Typed, LoopOK
<1>6. CASE AwaitsStack
  BY <1>6 DEF AwaitsStack, boot, daemon, watcher, Off, Found, Cancelled, Typed, LoopOK
<1>7. CASE OffersRest
  BY <1>7 DEF OffersRest, boot, daemon, watcher, Off, Found, Cancelled, Typed, LoopOK
<1>8. CASE AsksRest
  BY <1>8 DEF AsksRest, boot, daemon, watcher, Off, Found, Cancelled, Typed, LoopOK
<1>9. CASE AwaitsRest
  BY <1>9 DEF AwaitsRest, boot, daemon, watcher, Off, Found, Cancelled, Typed, LoopOK
<1>10. CASE Watches
  BY <1>10 DEF Watches, boot, daemon, watcher, Off, Found, Cancelled, Typed, LoopOK
<1>11. CASE AttachNext
  BY <1>11 DEF AttachNext, boot, daemon, watcher, Off, Found, Cancelled, Typed, LoopOK
<1>12. CASE Inspects
  BY <1>12 DEF Inspects, boot, daemon, watcher, Off, Found, Cancelled, Typed, LoopOK
<1>13. CASE Opens
  BY <1>13 DEF Opens, boot, daemon, watcher, Off, Found, Cancelled, Typed, LoopOK
<1>14. CASE Subscribes
  BY <1>14 DEF Subscribes, boot, daemon, watcher, Off, Found, Cancelled, Typed, LoopOK
<1>15. CASE OnEvent
  BY <1>15 DEF OnEvent, boot, daemon, watcher, Off, Found, Cancelled, Typed, LoopOK
<1>16. CASE FeedDrops
  BY <1>16 DEF FeedDrops, boot, daemon, watcher, Off, Found, Cancelled, Typed, LoopOK
<1>17. CASE Rediscovers
  BY <1>17 DEF Rediscovers, boot, daemon, watcher, Off, Found, Cancelled, Typed, LoopOK
<1>18. CASE RediscoveryEnds
  BY <1>18 DEF RediscoveryEnds, boot, daemon, watcher, Off, Found, Cancelled, Typed, LoopOK
<1>19. CASE LoopEnds
  BY <1>19 DEF LoopEnds, boot, daemon, watcher, Off, Found, Cancelled, Typed, LoopOK
<1>20. CASE Cancels
  BY <1>20 DEF Cancels, boot, daemon, watcher, Off, Found, Cancelled, Typed, LoopOK
<1>21. CASE Sweeps
  BY <1>21 DEF Sweeps, boot, daemon, watcher, Off, Found, Cancelled, Typed, LoopOK
<1>22. CASE WaitsForLoop
  BY <1>22 DEF WaitsForLoop, boot, daemon, watcher, Off, Found, Cancelled, Typed, LoopOK
<1>23. CASE WaitsForStreams
  BY <1>23 DEF WaitsForStreams, boot, daemon, watcher, Off, Found, Cancelled, Typed, LoopOK
<1>24. CASE Gate
  BY <1>24 DEF Gate, GateFinds, GateInspects, GateOpens, GateReads, GateFails, boot, daemon, watcher
<1>25. CASE UNCHANGED vars
  BY <1>25 DEF vars
<1> QED
  BY <1>1, <1>2, <1>3, <1>4, <1>5, <1>6, <1>7, <1>8, <1>9, <1>10, <1>11, <1>12, <1>13, <1>14, <1>15, <1>16, <1>17, <1>18, <1>19, <1>20, <1>21, <1>22, <1>23, <1>24, <1>25
     DEF Next, Stack, Boot, Attach, Watch, Streams, Quit

-----------------------------------------------------------------------------
(* The last stream.                                                        *)

\* What a step makes of the last stream of c and of the run attached.
LEMMA LastStep ==
  ASSUME Typed, [Next]_vars, NEW c \in Containers, streams'[c] # <<>>, ~Cancelled'
  PROVE  \/ /\ streams[c] # <<>> /\ attached'[c] = attached[c]
            /\ Last(streams'[c]).upto = Last(streams[c]).upto
            /\ \/ Last(streams'[c]).over = Last(streams[c]).over
               \/ \E i \in DOMAIN streams[c] : i = Len(streams[c]) /\ StreamEnds(c, i)
         \/ /\ Opens /\ att.c = c /\ attached[c] # att.run /\ attached'[c] = att.run
            /\ Last(streams'[c]).upto = run[c] /\ ~Last(streams'[c]).over
            /\ excused' = IF att.run = run[c] THEN excused \ {c} ELSE excused
<1> DEFINE Same == /\ streams[c] # <<>> /\ attached'[c] = attached[c]
                   /\ Last(streams'[c]).upto = Last(streams[c]).upto
                   /\ \/ Last(streams'[c]).over = Last(streams[c]).over
                      \/ \E i \in DOMAIN streams[c] : i = Len(streams[c]) /\ StreamEnds(c, i)
           New == /\ Opens /\ att.c = c /\ attached[c] # att.run /\ attached'[c] = att.run
                  /\ Last(streams'[c]).upto = run[c] /\ ~Last(streams'[c]).over
                  /\ excused' = IF att.run = run[c] THEN excused \ {c} ELSE excused
<1> SUFFICES Same \/ New
  OBVIOUS
<1>1. streams[c] \in Seq(StreamRec)
  BY DEF Typed, StreamsOK
<1>2. CASE UNCHANGED <<attached, streams>>
  BY <1>2
<1>3. ~Sweeps
  BY DEF Sweeps, Cancelled
<1>4. ASSUME NEW d \in Containers, NEW i \in DOMAIN streams[d], NEW s \in StreamRec, UNCHANGED attached,
             streams' = [streams EXCEPT ![d] = [@ EXCEPT ![i] = s]], s.upto = streams[d][i].upto,
             s.over = streams[d][i].over \/ StreamEnds(d, i)
      PROVE  Same
  <2>1. /\ Len(streams'[c]) = Len(streams[c]) /\ (streams'[c] = <<>> <=> streams[c] = <<>>)
        /\ \A j \in DOMAIN streams[c] : streams'[c][j] = IF c = d /\ j = i THEN s ELSE streams[c][j]
    BY <1>4, OneChanges DEF Typed
  <2>2. Len(streams[c]) \in DOMAIN streams[c] /\ streams[c] # <<>>
    BY <1>1, <2>1
  <2>3. Last(streams'[c]) = IF c = d /\ Len(streams[c]) = i THEN s ELSE Last(streams[c])
    BY <2>1, <2>2 DEF Last
  <2> QED
    BY <1>4, <2>2, <2>3 DEF Last
<1>5. ASSUME NEW d \in Containers, NEW i \in DOMAIN streams[d], StreamEnds(d, i) PROVE Same
  <2> DEFINE s == [streams[d][i] EXCEPT !.over = TRUE]
  <2>1. streams[d][i] \in StreamRec
    BY <1>5 DEF Typed, StreamsOK
  <2>2. s \in StreamRec /\ s.upto = streams[d][i].upto
    BY <2>1 DEF StreamRec
  <2>3. streams' = [streams EXCEPT ![d] = [@ EXCEPT ![i] = s]] /\ UNCHANGED attached
    BY <1>5 DEF StreamEnds
  <2> HIDE DEF s
  <2> QED
    BY <1>4, <1>5, <2>2, <2>3
<1>6. ASSUME NEW d \in Containers, NEW i \in DOMAIN streams[d], StreamReads(d, i) PROVE Same
  <2> DEFINE s == [streams[d][i] EXCEPT !.pos = streams[d][i].pos + 1]
  <2>1. streams[d][i] \in StreamRec
    BY <1>6 DEF Typed, StreamsOK
  <2>2. streams[d][i].pos + 1 \in 0 .. MaxLines
    <3>1. Len(log[d]) <= MaxLines /\ Len(log[d]) \in Nat /\ MaxLines \in Nat
      BY StackAssumption DEF Typed, DaemonOK, StackAssumption
    <3>2. streams[d][i].pos \in Nat
      BY <2>1 DEF StreamRec
    <3>3. streams[d][i].pos < Len(log[d])
      BY <1>6 DEF StreamReads, Available
    <3> QED
      BY <3>1, <3>2, <3>3
  <2>3. s \in StreamRec /\ s.upto = streams[d][i].upto /\ s.over = streams[d][i].over
    BY <2>1, <2>2 DEF StreamRec
  <2>4. streams' = [streams EXCEPT ![d] = [@ EXCEPT ![i] = s]] /\ UNCHANGED attached
    BY <1>6 DEF StreamReads
  <2> HIDE DEF s
  <2> QED
    BY <1>4, <1>6, <2>3, <2>4
<1>7. CASE Opens
  <2>1. att.c \in Containers
    BY <1>7 DEF Opens, Typed, AttOK
  <2>2. CASE att.c # c
    <3>1. attached'[c] = attached[c] /\ streams'[c] = streams[c]
      BY <1>7, <2>1, <2>2 DEF Opens, Typed, StreamsOK
    <3> QED
      BY <3>1
  <2>3. ASSUME att.c = c, UNCHANGED attached, streams' = [streams EXCEPT ![c] = StopLast(c)] PROVE Same
    <3>1. streams'[c] = StopLast(c)
      BY <2>3 DEF Typed, StreamsOK
    <3>2. /\ Len(StopLast(c)) = Len(streams[c]) /\ (StopLast(c) = <<>> <=> streams[c] = <<>>)
          /\ \A i \in DOMAIN streams[c] :
               StopLast(c)[i] = IF i = Len(streams[c]) THEN [streams[c][i] EXCEPT !.stopped = TRUE] ELSE streams[c][i]
      BY LastStopped DEF Typed
    <3>3. Len(streams[c]) \in DOMAIN streams[c] /\ streams[c] # <<>>
      BY <1>1, <3>1, <3>2
    <3>4. Last(streams[c]) \in StreamRec
      BY <1>1, <3>3 DEF Last
    <3>5. Last(streams'[c]) = [Last(streams[c]) EXCEPT !.stopped = TRUE]
      BY <3>1, <3>2, <3>3 DEF Last
    <3> QED
      BY <2>3, <3>3, <3>4, <3>5 DEF StreamRec
  <2>4. ASSUME att.c = c, attached[c] # att.run, NEW n \in 0 .. Len(log[c]),
               attached' = [attached EXCEPT ![c] = att.run],
               streams' = [streams EXCEPT ![c] = Append(StopLast(c), Stream(ReplayFrom(c, n), c))],
               excused' = IF att.run = run[c] THEN excused \ {c} ELSE excused
        PROVE  New
    <3> DEFINE s == Append(StopLast(c), Stream(ReplayFrom(c, n), c))
    <3>1. s[Len(s)] = Stream(ReplayFrom(c, n), c)
      <4>1. att.pc = "open"
        BY <1>7 DEF Opens
      <4>2. att.c = c /\ attached[att.c] # att.run /\ n \in 0 .. Len(log[att.c])
            /\ s = Append(StopLast(att.c), Stream(ReplayFrom(att.c, n), att.c))
        BY <2>4
      <4> HIDE DEF s
      <4>3. s[Len(s)] = Stream(ReplayFrom(att.c, n), att.c)
        BY <4>1, <4>2, OneOpens
      <4> QED
        BY <4>2, <4>3
    <3>2. s[Len(s)].upto = run[c] /\ ~s[Len(s)].over
      BY <3>1 DEF Stream
    <3>3. streams'[c] = s /\ attached'[c] = att.run
      BY <2>4 DEF Typed, StreamsOK
    <3> HIDE DEF s
    <3> QED
      BY <1>7, <2>4, <3>2, <3>3 DEF Last
  <2>5. att.c = c =>
          \/ UNCHANGED <<attached, streams>>
          \/ attached' = attached /\ streams' = [streams EXCEPT ![c] = StopLast(c)]
          \/ /\ attached[c] # att.run /\ attached' = [attached EXCEPT ![c] = att.run]
             /\ excused' = IF att.run = run[c] THEN excused \ {c} ELSE excused
             /\ \E n \in 0 .. Len(log[c]) :
                  streams' = [streams EXCEPT ![c] = Append(StopLast(c), Stream(ReplayFrom(c, n), c))]
    BY <1>7 DEF Opens
  <2> HIDE DEF Same, New
  <2> QED
    BY <1>2, <2>2, <2>3, <2>4, <2>5
<1> HIDE DEF Same, New
<1> QED
  BY <1>2, <1>3, <1>5, <1>6, <1>7, StreamsStay

\* Stop cancels for good, and so does leaving before the program serves.
LEMMA EndsForGood == [Next]_vars /\ (Cancelled \/ main = "exited") => Cancelled' \/ main' = "exited"
<1> SUFFICES ASSUME [Next]_vars, Cancelled \/ main = "exited" PROVE Cancelled' \/ main' = "exited"
  OBVIOUS
<1>1. ASSUME NEW c \in Containers, Starts(c) \/ Stops(c) \/ Writes(c) PROVE main' = main
  BY <1>1 DEF Starts, Stops, Writes, boot
<1>2. ASSUME NEW c \in Containers, NEW i \in DOMAIN streams[c], StreamReads(c, i) \/ StreamEnds(c, i)
      PROVE  main' = main
  BY <1>2 DEF StreamReads, StreamEnds, boot
<1>3. ~Boot
  BY DEF Boot, Discovers, OffersStack, AsksStack, AwaitsStack, OffersRest, AsksRest, AwaitsRest, Watches, Cancelled
<1>4. Attach \/ Watch \/ Gate => main' = main
  BY DEF Attach, Watch, AttachNext, Inspects, Opens, Subscribes, OnEvent, FeedDrops, Rediscovers, RediscoveryEnds,
     LoopEnds, Gate, GateFinds, GateInspects, GateOpens, GateReads, GateFails, boot
<1>5. Quit => Cancelled'
  BY DEF Quit, Cancels, Sweeps, WaitsForLoop, WaitsForStreams, Cancelled
<1>6. UNCHANGED vars => main' = main
  BY DEF vars
<1> QED
  BY <1>1, <1>2, <1>3, <1>4, <1>5, <1>6 DEF Next, Stack, Streams, Cancelled

LEMMA UptoStep ==
  ASSUME Typed, UptoOK, [Next]_vars, NEW c \in Containers, streams'[c] # <<>>, ~Cancelled'
  PROVE  Last(streams'[c]).upto >= attached'[c]
<1>1. attached[c] \in Nat /\ run[c] \in Nat
  BY DEF Typed, StreamsOK, DaemonOK, Runs
<1>2. CASE streams[c] # <<>> /\ attached'[c] = attached[c] /\ Last(streams'[c]).upto = Last(streams[c]).upto
  BY <1>1, <1>2 DEF UptoOK
<1>3. CASE Opens /\ att.c = c /\ attached'[c] = att.run /\ Last(streams'[c]).upto = run[c]
  <2>1. att.run <= run[c] /\ att.run \in Nat
    BY <1>3 DEF Opens, Typed, AttOK, Runs
  <2> QED
    BY <1>1, <1>3, <2>1
<1> QED
  BY <1>2, <1>3, LastStep

LEMMA LivesStep ==
  ASSUME Typed, [Next]_vars, NEW c \in Containers
  PROVE  (state'[c] = state[c] /\ run'[c] = run[c]) \/ Starts(c) \/ (Stops(c) /\ state'[c] = "exited")
<1> DEFINE Same == state'[c] = state[c] /\ run'[c] = run[c]
<1> SUFFICES Same \/ Starts(c) \/ (Stops(c) /\ state'[c] = "exited")
  OBVIOUS
<1>1. ASSUME NEW d \in Containers, Starts(d), d # c PROVE Same
  BY <1>1 DEF Starts, Typed, DaemonOK
<1>2. ASSUME NEW d \in Containers, Stops(d) PROVE Same \/ (d = c /\ state'[c] = "exited")
  BY <1>2 DEF Stops, Typed, DaemonOK
<1>3. ASSUME NEW d \in Containers, Writes(d) PROVE Same
  BY <1>3 DEF Writes
<1>4. ASSUME NEW d \in Containers, NEW i \in DOMAIN streams[d], StreamReads(d, i) \/ StreamEnds(d, i)
      PROVE  Same
  BY <1>4 DEF StreamReads, StreamEnds, daemon
<1>5. Boot \/ Attach \/ Watch => Same
  BY DEF Boot, Discovers, OffersStack, AsksStack, AwaitsStack, OffersRest, AsksRest, AwaitsRest, Watches,
     Attach, Watch, AttachNext, Inspects, Opens, Subscribes, OnEvent, FeedDrops, Rediscovers, RediscoveryEnds,
     LoopEnds, daemon
<1>6. Quit \/ Gate => Same
  BY DEF Quit, Cancels, Sweeps, WaitsForLoop, WaitsForStreams, Gate, GateFinds, GateInspects, GateOpens,
     GateReads, GateFails, daemon
<1>7. UNCHANGED vars => Same
  BY DEF vars
<1> HIDE DEF Same
<1> QED
  BY <1>1, <1>2, <1>3, <1>4, <1>5, <1>6, <1>7 DEF Next, Stack, Streams

\* What a success makes of an excuse.
LEMMA ExcuseEnds ==
  ASSUME Typed, QuietOK, [Next]_vars, NEW c \in Watched, c \in excused, c \notin excused'
  PROVE  \/ Starts(c)
         \/ attached[c] = 0
         \/ Opens /\ ~Last(streams'[c]).over
         \/ Rediscovers /\ c \in Running \ Broken
<1> DEFINE Goal == \/ Starts(c)
                   \/ attached[c] = 0
                   \/ Opens /\ ~Last(streams'[c]).over
                   \/ Rediscovers /\ c \in Running \ Broken
<1> SUFFICES ASSUME ~Goal PROVE FALSE
  OBVIOUS
<1>0. c \in Containers
  BY StackAssumption DEF StackAssumption
<1>1. ASSUME NEW d \in Containers, Starts(d), d # c PROVE FALSE
  BY <1>1 DEF Starts
<1>2. ASSUME NEW d \in Containers, Stops(d) \/ Writes(d) PROVE FALSE
  BY <1>2 DEF Stops, Writes, history
<1>3. ASSUME NEW d \in Containers, NEW i \in DOMAIN streams[d], StreamReads(d, i) \/ StreamEnds(d, i)
      PROVE  FALSE
  BY <1>3 DEF StreamReads, StreamEnds
<1>4. Discovers \/ AwaitsStack \/ AwaitsRest => FALSE
  BY <1>0 DEF Discovers, AwaitsStack, AwaitsRest, QuietOK, Booting
<1>5. Boot => FALSE
  BY <1>4 DEF Boot, OffersStack, AsksStack, OffersRest, AsksRest, Watches, history
<1>6. CASE Opens
  <2>1. /\ att.pc = "open" /\ att.c = c /\ attached[c] # att.run
        /\ \E n \in 0 .. Len(log[c]) :
             streams' = [streams EXCEPT ![c] = Append(StopLast(c), Stream(ReplayFrom(c, n), c))]
    BY <1>6 DEF Opens
  <2>2. PICK n \in 0 .. Len(log[c]) :
          streams' = [streams EXCEPT ![c] = Append(StopLast(c), Stream(ReplayFrom(c, n), c))]
    BY <2>1
  <2> DEFINE s == Append(StopLast(c), Stream(ReplayFrom(c, n), c))
  <2>3. s[Len(s)] = Stream(ReplayFrom(c, n), c)
    BY <2>1, OneOpens
  <2>4. ~s[Len(s)].over
    BY <2>3 DEF Stream
  <2>5. streams'[c] = s
    BY <1>0, <2>2 DEF Typed, StreamsOK
  <2> HIDE DEF s
  <2> QED
    BY <1>6, <2>4, <2>5 DEF Last
<1>7. Attach => FALSE
  BY <1>6 DEF Attach, AttachNext, Inspects, history
<1>8. Watch => FALSE
  BY <1>0 DEF Watch, Subscribes, OnEvent, FeedDrops, Rediscovers, RediscoveryEnds, LoopEnds, history
<1>9. Quit \/ Gate => FALSE
  BY DEF Quit, Cancels, Sweeps, WaitsForLoop, WaitsForStreams, Gate, GateFinds, GateInspects, GateOpens,
     GateReads, GateFails, history
<1>10. UNCHANGED vars => FALSE
  BY DEF vars
<1> QED
  BY <1>0, <1>1, <1>2, <1>3, <1>5, <1>7, <1>8, <1>9, <1>10 DEF Next, Stack, Streams

\* The last stream of the present run ends by itself only because of a fault.
LEMMA LastEnds ==
  ASSUME Typed, CancelOK, UptoOK, ~Cancelled, NEW c \in Containers, Len(streams[c]) \in DOMAIN streams[c],
         StreamEnds(c, Len(streams[c])), attached[c] = run[c], state[c] = "running"
  PROVE  c \in excused'
<1>1. streams[c] \in Seq(StreamRec) /\ streams[c] # <<>>
  BY DEF Typed, StreamsOK
<1>2. run[c] \in Nat /\ Last(streams[c]) \in StreamRec
  BY <1>1 DEF Typed, DaemonOK, Runs, Last
<1>3. ~Last(streams[c]).stopped
  BY <1>1, <1>2 DEF CancelOK
<1>4. Last(streams[c]).upto >= run[c] /\ Last(streams[c]).upto \in Nat
  BY <1>1, <1>2 DEF UptoOK, StreamRec
<1>5. ~(Last(streams[c]).upto < run[c])
  BY <1>2, <1>4
<1> QED
  BY <1>3, <1>5 DEF StreamEnds, Last

LEMMA OverStep ==
  ASSUME Typed, CancelOK, QuietOK, UptoOK, OverOK, [Next]_vars, ~Cancelled', NEW c \in Watched,
         streams'[c] # <<>>, Last(streams'[c]).over, attached'[c] = run'[c], state'[c] = "running"
  PROVE  c \in excused'
<1>0. c \in Containers
  BY StackAssumption DEF StackAssumption
<1>1. /\ run[c] \in Nat /\ run'[c] \in Nat /\ run[c] <= run'[c] /\ attached[c] \in Nat /\ attached[c] <= run[c]
      /\ ~Cancelled
  BY <1>0, RunsRise, TypedStep DEF Typed, DaemonOK, StreamsOK, Runs
<1>2. /\ streams[c] # <<>> /\ attached'[c] = attached[c]
      /\ \/ Last(streams'[c]).over = Last(streams[c]).over
         \/ \E i \in DOMAIN streams[c] : i = Len(streams[c]) /\ StreamEnds(c, i)
  BY <1>0, LastStep
<1>3. attached[c] = run[c] /\ run'[c] = run[c] /\ run[c] # 0
  BY <1>0, <1>1, <1>2 DEF Typed, StreamsOK
<1>4. ~Starts(c)
  BY <1>0, <1>1, <1>3 DEF Starts, Typed, DaemonOK
<1>5. state[c] = "running"
  BY <1>0, <1>4, LivesStep
<1>6. CASE \E i \in DOMAIN streams[c] : i = Len(streams[c]) /\ StreamEnds(c, i)
  BY <1>0, <1>1, <1>3, <1>5, <1>6, LastEnds
<1>7. CASE Last(streams'[c]).over = Last(streams[c]).over
  <2>1. c \in excused
    BY <1>2, <1>3, <1>5, <1>7 DEF OverOK
  <2>2. c \in Broken
    BY <1>2, <1>3, <1>7 DEF Broken
  <2> QED
    BY <1>3, <1>4, <2>1, <2>2, ExcuseEnds
<1> QED
  BY <1>2, <1>6, <1>7

-----------------------------------------------------------------------------
(* Whoever runs is coming or attended.                                     *)

\* A run that is attended stays so, unless it ends or a fault excuses it.
LEMMA StreamedStays ==
  ASSUME Typed, CancelOK, UptoOK, [Next]_vars, ~Cancelled, ~Cancelled', NEW c \in Containers, Attended(c),
         run[c] # 0, state[c] = "running", run'[c] = run[c], c \notin excused'
  PROVE  attached'[c] = run'[c] /\ ~Last(streams'[c]).over
<1>1. /\ attached[c] = run[c] /\ run[c] \in Nat /\ attached'[c] <= run'[c] /\ attached'[c] \in Nat
      /\ streams[c] # <<>> /\ streams[c] \in Seq(StreamRec) /\ (attached'[c] # 0 => streams'[c] # <<>>)
  BY TypedStep DEF Typed, DaemonOK, StreamsOK, Runs, Attended
<1>2. ~(Opens /\ att.c = c /\ attached[c] # att.run)
  <2>1. ASSUME Opens, att.c = c PROVE att.run <= run[c] /\ attached[c] <= att.run /\ att.run \in Nat
    BY <2>1 DEF Opens, Typed, AttOK, Runs
  <2> QED
    BY <1>1, <2>1
<1>3. attached'[c] # 0
  <2>1. CASE Opens
    <3>1. att.c \in Containers
      BY <2>1 DEF Opens, Typed, AttOK
    <3>2. attached' = attached \/ (attached' = [attached EXCEPT ![att.c] = att.run] /\ attached[att.c] # att.run)
      BY <2>1 DEF Opens
    <3> QED
      BY <1>1, <1>2, <2>1, <3>1, <3>2 DEF Typed, StreamsOK
  <2>2. ASSUME NEW d \in Containers, NEW i \in DOMAIN streams[d], StreamReads(d, i) \/ StreamEnds(d, i)
        PROVE  attached' = attached
    BY <2>2 DEF StreamReads, StreamEnds
  <2>3. ~Sweeps
    BY DEF Sweeps, Cancelled
  <2> QED
    BY <1>1, <2>1, <2>2, <2>3, StreamsStay
<1>4. /\ attached'[c] = attached[c]
      /\ \/ Last(streams'[c]).over = Last(streams[c]).over
         \/ \E i \in DOMAIN streams[c] : i = Len(streams[c]) /\ StreamEnds(c, i)
  BY <1>1, <1>2, <1>3, LastStep
<1>5. ~ \E i \in DOMAIN streams[c] : i = Len(streams[c]) /\ StreamEnds(c, i)
  BY <1>1, LastEnds
<1> QED
  BY <1>1, <1>4, <1>5 DEF Attended

LEMMA ReachedStep ==
  ASSUME Typed, CancelOK, QuietOK, UptoOK, OverOK, Reached, [Next]_vars,
         ~Cancelled, ~Cancelled', main # "exited", main' # "exited",
         NEW c \in Watched, state'[c] = "running", c \notin excused'
  PROVE  Coming(c)' \/ (attached'[c] = run'[c] /\ ~Last(streams'[c]).over)
<1> DEFINE Held == attached'[c] = run'[c] /\ ~Last(streams'[c]).over
           Goal == Coming(c)' \/ Held
<1> SUFFICES Goal
  OBVIOUS
<1>0. c \in Containers /\ events \in Seq(Containers)
  BY StackAssumption DEF StackAssumption, Typed, LoopOK
<1>1. CASE Starts(c)
  <2>1. CASE loop = "listen"
    <3>1. events' = Append(events, c)
      BY <1>1, <2>1 DEF Starts
    <3>2. Len(events) + 1 \in DOMAIN events' /\ events'[Len(events) + 1] = c
      BY <1>0, <3>1
    <3> QED
      BY <3>2 DEF Coming
  <2>2. CASE loop # "listen"
    BY <1>1, <2>2 DEF Starts, Pending, Coming, watcher, boot
  <2> QED
    BY <2>1, <2>2
<1>2. ASSUME ~Starts(c)
      PROVE  /\ state[c] = "running" /\ run'[c] = run[c] /\ run[c] # 0
             /\ c \notin excused => Coming(c) \/ Attended(c)
             /\ Attended(c) => Held
  <2>1. state[c] = "running" /\ run'[c] = run[c] /\ run[c] # 0
    BY <1>0, <1>2, LivesStep DEF Typed, DaemonOK
  <2>2. c \notin excused => Coming(c) \/ Attended(c)
    BY <2>1 DEF Reached, Running, Attended
  <2> QED
    BY <1>0, <2>1, <2>2, StreamedStays
<1> DEFINE Running1 == state[c] = "running" /\ run'[c] = run[c] /\ run[c] # 0
           Known == (c \notin excused => Coming(c) \/ Attended(c)) /\ (Attended(c) => Held)
<1>3. ASSUME Running1, Known, NEW d \in Containers, (Starts(d) /\ d # c) \/ Stops(d) \/ Writes(d) PROVE Goal
  <2>1. c \notin excused
    BY <1>3 DEF Starts, Stops, Writes, history
  <2>2. \A i \in DOMAIN events : i \in DOMAIN events' /\ events'[i] = events[i]
    BY <1>0, <1>3 DEF Starts, Stops, Writes
  <2>3. Coming(c) => Coming(c)'
    BY <1>3, <2>2 DEF Starts, Stops, Writes, Coming, boot, watcher
  <2> QED
    BY <1>3, <2>1, <2>3
<1>4. ASSUME Running1, Known, NEW d \in Containers, NEW i \in DOMAIN streams[d], StreamReads(d, i) \/ StreamEnds(d, i)
      PROVE  Goal
  <2>1. c \notin excused
    BY <1>4 DEF StreamReads, StreamEnds
  <2>2. Coming(c) => Coming(c)'
    BY <1>4 DEF StreamReads, StreamEnds, daemon, boot, Coming
  <2> QED
    BY <1>4, <2>1, <2>2
<1>5. ASSUME Running1, Known, Discovers \/ AwaitsStack PROVE Goal
  <2>1. c \in Running
    BY <1>5 DEF Running
  <2> QED
    BY <1>5, <2>1 DEF Discovers, AwaitsStack, Found, Coming, Booting
<1>6. ASSUME Running1, Known, OffersStack \/ AsksStack PROVE Goal
  <2>1. c \notin excused /\ main \in {"stack", "askStack"}
    BY <1>6 DEF OffersStack, AsksStack, history
  <2>2. loop = "off" /\ att = Off /\ todo = {} /\ attached[c] = 0 /\ events = <<>> /\ found = {}
    BY <1>0, <2>1 DEF QuietOK, Booting
  <2> QED
    BY <1>6, <2>1, <2>2 DEF Coming, Attended, Off
<1>7. ASSUME Running1, Known, OffersRest \/ AsksRest PROVE Goal
  <2>1. c \notin excused /\ main \in {"rest", "askRest"}
    BY <1>7 DEF OffersRest, AsksRest, history
  <2>2. loop = "off" /\ att = Off /\ todo = {} /\ attached[c] = 0 /\ events = <<>>
    BY <1>0, <2>1 DEF QuietOK, Booting
  <2>3. c \in found
    BY <1>7, <2>1, <2>2 DEF Coming, Attended, Off
  <2>4. found' = found /\ (main' = "attach" => todo' = found)
    BY <1>7 DEF OffersRest, AsksRest
  <2>5. main' \in {"attach", "askRest", "awaitRest"}
    BY <1>7 DEF OffersRest, AsksRest
  <2> QED
    BY <2>3, <2>4, <2>5 DEF Coming, Booting
<1>8. ASSUME Running1, Known, AwaitsRest PROVE Goal
  <2>1. main = "awaitRest" /\ todo' = found'
    BY <1>8 DEF AwaitsRest
  <2>2. loop = "off" /\ att = Off /\ todo = {} /\ attached[c] = 0 /\ events = <<>>
    BY <1>0, <2>1 DEF QuietOK, Booting
  <2>3. c \in Running
    BY <1>8 DEF Running
  <2>4. CASE Found(Running)
    BY <2>1, <2>3, <2>4 DEF Found, Coming
  <2>5. CASE UNCHANGED <<found, excused>>
    <3>1. c \in found
      BY <1>8, <2>1, <2>2, <2>5 DEF Coming, Attended, Off
    <3> QED
      BY <2>1, <2>5, <3>1 DEF Coming
  <2> QED
    BY <1>8, <2>4, <2>5 DEF AwaitsRest
<1>9. ASSUME Running1, Known, Watches PROVE Goal
  <2>1. c \notin excused /\ main = "attach" /\ todo = {} /\ att = Off
    BY <1>9 DEF Watches, history
  <2>2. loop = "off" /\ events = <<>>
    BY <2>1 DEF QuietOK, Booting
  <2> QED
    BY <1>9, <2>1, <2>2 DEF Coming, Off
<1>10. ASSUME Running1, Known, AttachNext PROVE Goal
  <2>1. c \notin excused /\ att = Off
    BY <1>10 DEF AttachNext, history
  <2>2. PICK d \in todo : att' = [pc |-> "inspect", c |-> d, run |-> 0] /\ todo' = todo \ {d}
    BY <1>10 DEF AttachNext
  <2>3. Coming(c) => Coming(c)'
    BY <1>10, <2>1, <2>2 DEF AttachNext, Coming, boot, daemon, Off
  <2> QED
    BY <1>10, <2>1, <2>3
<1>11. ASSUME Running1, Known, Inspects PROVE Goal
  <2>1. c \notin excused /\ att.pc = "inspect"
    BY <1>11 DEF Inspects
  <2>2. CASE att.c = c
    <3>1. att' = [att EXCEPT !.pc = "open", !.run = run[att.c]]
      BY <1>11, <2>2 DEF Inspects
    <3>2. att \in [pc : {"inspect", "open"}, c : Containers, run : Runs]
      BY <2>1 DEF Typed, AttOK
    <3>3. att'.pc = "open" /\ att'.c = c /\ att'.run = run'[c]
      BY <1>11, <2>2, <3>1, <3>2
    <3> QED
      BY <3>3 DEF Coming
  <2>3. CASE att.c # c
    <3>1. Coming(c) => Coming(c)'
      BY <1>11, <2>1, <2>3 DEF Inspects, Coming, boot, daemon
    <3> QED
      BY <1>11, <2>1, <3>1
  <2> QED
    BY <2>2, <2>3
<1>12. ASSUME Running1, Known, Opens PROVE Goal
  <2>1. /\ att.pc = "open" /\ att' = Off /\ UNCHANGED <<run, state, log, events, main, found, loop, todo>>
    BY <1>12 DEF Opens, daemon, boot
  <2>2. CASE att.c # c \/ att.run # run[c]
    <3>1. c \notin excused
      BY <1>12, <2>2 DEF Opens
    <3>2. Coming(c) => Coming(c)'
      BY <2>1, <2>2 DEF Coming
    <3> QED
      BY <1>12, <3>1, <3>2
  <2>3. CASE att.c = c /\ att.run = run[c] /\ attached[c] = att.run
    <3>1. c \notin excused
      BY <1>12, <2>3 DEF Opens
    <3>2. streams[c] # <<>> /\ streams'[c] = streams[c] /\ attached'[c] = attached[c]
      BY <1>0, <1>12, <2>3 DEF Opens, Typed, StreamsOK
    <3>3. ~Last(streams[c]).over
      BY <1>12, <2>3, <3>1, <3>2 DEF OverOK
    <3> QED
      BY <1>12, <2>3, <3>3 DEF Attended
  <2>4. CASE att.c = c /\ att.run = run[c] /\ attached[c] # att.run
    <3>1. /\ attached' = [attached EXCEPT ![c] = att.run]
          /\ \E n \in 0 .. Len(log[c]) :
               streams' = [streams EXCEPT ![c] = Append(StopLast(c), Stream(ReplayFrom(c, n), c))]
      BY <1>12, <2>4 DEF Opens
    <3>2. PICK n \in 0 .. Len(log[c]) :
            streams' = [streams EXCEPT ![c] = Append(StopLast(c), Stream(ReplayFrom(c, n), c))]
      BY <3>1
    <3> DEFINE s == Append(StopLast(c), Stream(ReplayFrom(c, n), c))
    <3>3. s[Len(s)] = Stream(ReplayFrom(c, n), c)
      BY <2>1, <2>4, OneOpens
    <3>4. ~s[Len(s)].over
      BY <3>3 DEF Stream
    <3>5. streams'[c] = s /\ attached'[c] = att.run
      BY <1>0, <3>1, <3>2 DEF Typed, StreamsOK
    <3> HIDE DEF s
    <3> QED
      BY <1>12, <2>4, <3>4, <3>5 DEF Last
  <2> QED
    BY <2>2, <2>3, <2>4
<1>13. ASSUME Running1, Known, Subscribes \/ LoopEnds \/ Gate PROVE Goal
  <2>1. c \notin excused
    BY <1>13 DEF Subscribes, LoopEnds, Gate, GateFinds, GateInspects, GateOpens, GateReads, GateFails, history
  <2>2. CASE Subscribes
    <3>1. events = <<>>
      BY <2>2 DEF Subscribes, QuietOK
    <3>2. Coming(c) => Coming(c)'
      BY <1>13, <2>2, <3>1 DEF Subscribes, Coming, boot
    <3> QED
      BY <1>13, <2>1, <3>2
  <2>3. CASE Gate
    <3>1. Coming(c) => Coming(c)'
      BY <2>3 DEF Coming, Gate, GateFinds, GateInspects, GateOpens, GateReads, GateFails, daemon, boot, watcher
    <3> QED
      BY <1>13, <2>1, <3>1
  <2> QED
    BY <1>13, <2>2, <2>3 DEF LoopEnds
<1>14. ASSUME Running1, Known, OnEvent PROVE Goal
  <2>1. c \notin excused /\ att = Off /\ events # <<>> /\ events' = Tail(events) /\ UNCHANGED <<main, loop, found, todo>>
    BY <1>14 DEF OnEvent, history, boot
  <2>2. CASE Head(events) = c
    BY <1>14, <2>2 DEF OnEvent, Coming
  <2>3. CASE Head(events) # c
    <3>1. ASSUME NEW i \in DOMAIN events, events[i] = c PROVE \E j \in DOMAIN events' : events'[j] = c
      <4>1. i # 1 /\ i \in 1 .. Len(events)
        BY <1>0, <2>1, <2>3, <3>1
      <4>2. i - 1 \in DOMAIN events' /\ events'[i - 1] = c
        BY <1>0, <2>1, <3>1, <4>1
      <4> QED
        BY <4>2
    <3>2. Coming(c) => Coming(c)'
      BY <2>1, <3>1 DEF Coming, Off
    <3> QED
      BY <1>14, <2>1, <3>2
  <2> QED
    BY <2>2, <2>3
<1>15. ASSUME Running1, Known, FeedDrops PROVE Goal
  BY <1>15 DEF FeedDrops, Coming
<1>16. ASSUME Running1, Known, Rediscovers PROVE Goal
  BY <1>16 DEF Rediscovers, Running, Coming
<1>17. ASSUME Running1, Known, RediscoveryEnds PROVE Goal
  <2>1. c \notin excused /\ todo = {} /\ att = Off /\ loop = "attach"
    BY <1>17 DEF RediscoveryEnds, history
  <2>2. events = <<>> /\ main \notin Booting
    BY <2>1 DEF QuietOK
  <2>3. ~Coming(c)
    BY <2>1, <2>2 DEF Coming, Off, Booting
  <2> QED
    BY <1>17, <2>1, <2>3
<1>18. ~Quit
  BY DEF Quit, Cancels, Sweeps, WaitsForLoop, WaitsForStreams, Cancelled
<1>19. ASSUME Running1, Known, UNCHANGED vars PROVE Goal
  <2>1. c \notin excused /\ (Coming(c) => Coming(c)')
    BY <1>19 DEF vars, Coming
  <2> QED
    BY <1>19, <2>1
<1>20. ~Starts(c) => Running1 /\ Known
  BY <1>2
<1> HIDE DEF Goal, Held, Running1, Known
<1>21. CASE ~Starts(c) /\ (Boot \/ Attach \/ Watch)
  BY <1>20, <1>21, <1>5, <1>6, <1>7, <1>8, <1>9, <1>10, <1>11, <1>12, <1>13, <1>14, <1>15, <1>16, <1>17
     DEF Boot, Attach, Watch
<1> QED
  BY <1>1, <1>3, <1>4, <1>13, <1>18, <1>19, <1>20, <1>21 DEF Next, Stack, Streams

LEMMA ReachStep == Typed /\ CancelOK /\ ReachOK /\ [Next]_vars => ReachOK'
<1> SUFFICES ASSUME Typed, CancelOK, ReachOK, [Next]_vars PROVE ReachOK'
  OBVIOUS
<1>1. QuietOK'
  BY QuietStep DEF ReachOK
<1>2. ASSUME ~Cancelled', main' # "exited" PROVE UptoOK' /\ OverOK' /\ Reached'
  <2>1. ~Cancelled /\ main # "exited"
    BY <1>2, EndsForGood
  <2>2. QuietOK /\ UptoOK /\ OverOK /\ Reached
    BY <2>1 DEF ReachOK
  <2>3. UptoOK'
    BY <1>2, <2>2, UptoStep DEF UptoOK
  <2>4. OverOK'
    BY <1>2, <2>2, OverStep DEF OverOK
  <2>5. Reached'
    BY <1>2, <2>1, <2>2, ReachedStep DEF Reached, Running
  <2> QED
    BY <2>3, <2>4, <2>5
<1> QED
  BY <1>1, <1>2 DEF ReachOK

-----------------------------------------------------------------------------
(* The theorems.                                                           *)

LEMMA InitOK == Init => Typed /\ CancelOK /\ OnceOK /\ ReachOK /\ GateOK
<1> SUFFICES ASSUME Init PROVE Typed /\ CancelOK /\ OnceOK /\ ReachOK /\ GateOK
  OBVIOUS
<1>1. \A c \in Containers : run[c] \in {0, 1} /\ log[c] = <<>> /\ streams[c] = <<>> /\ attached[c] = 0
                            /\ got[c] = {} /\ twice[c] = {} /\ (state[c] # "none" <=> run[c] # 0)
  BY DEF Init
<1>2. Typed
  <2>1. DaemonOK
    BY <1>1, StackAssumption DEF Init, DaemonOK, Runs, StackAssumption
  <2>2. BootOK
    BY StackAssumption DEF Init, BootOK, Booting, StackAssumption
  <2>3. LoopOK /\ AttOK /\ HistoryOK
    BY DEF Init, LoopOK, AttOK, HistoryOK, Off
  <2>4. StreamsOK
    BY <1>1, <2>1, StackAssumption DEF Init, StreamsOK, DaemonOK, Runs, StackAssumption
  <2> QED
    BY <2>1, <2>2, <2>3, <2>4 DEF Typed
<1>3. CancelOK
  BY <1>1 DEF Init, CancelOK, OneStream, NothingAfterStop
<1>4. OnceOK
  BY <1>1 DEF OnceOK, Apart, Captured
<1>5. ReachOK
  <2>1. main = "discover" /\ loop = "off" /\ att = Off /\ todo = {} /\ found = {} /\ events = <<>>
    BY DEF Init
  <2>2. QuietOK
    BY <1>1, <2>1 DEF QuietOK
  <2>3. UptoOK /\ OverOK
    BY <1>1, StackAssumption DEF UptoOK, OverOK, StackAssumption
  <2>4. Reached
    BY <2>1 DEF Reached, Coming
  <2> QED
    BY <2>2, <2>3, <2>4 DEF ReachOK
<1>6. GateOK
  BY DEF Init, GateOK, Off
<1> QED
  BY <1>2, <1>3, <1>4, <1>5, <1>6

LEMMA TypedIsSound == Typed => TypeOK
BY StackAssumption DEF Typed, DaemonOK, BootOK, LoopOK, AttOK, StreamsOK, HistoryOK, TypeOK, Runs, StreamRec,
   StackAssumption

\* Whoever is coming is not attended yet, and with nothing left to do nobody
\* is coming.
LEMMA ReachedAtRest == Typed /\ ReachOK => ReportedAttended
<1> SUFFICES ASSUME Typed, ReachOK, Idle, NEW c \in Running \ excused PROVE Attended(c)
  BY DEF ReportedAttended
<1>1. loop = "listen" /\ events = <<>> /\ att = Off /\ ~Cancelled
  BY DEF Idle
<1>2. main \notin Booting \cup {"exited"} /\ todo = {}
  BY <1>1 DEF ReachOK, QuietOK
<1>3. ~Coming(c)
  BY <1>1, <1>2 DEF Coming, Booting, Off
<1> QED
  BY <1>1, <1>2, <1>3 DEF ReachOK, Reached, Attended

\* Every stream but the newest has been cancelled, whatever the order of
\* restarts, reconnections and Stop, and after Stop the newest too.
THEOREM StreamsAreSound == Spec => []StreamsSound
<1>1. Init => Typed /\ CancelOK
  BY InitOK
<1>2. Typed /\ CancelOK /\ [Next]_vars => (Typed /\ CancelOK)'
  BY TypedStep, CancelStep
<1>3. Typed /\ CancelOK => StreamsSound
  BY TypedIsSound DEF CancelOK, StreamsSound
<1> QED
  BY <1>1, <1>2, <1>3, PTL DEF Spec

\* No line is captured twice of a container for which no start has been read
\* before a restart and used after it.
THEOREM OnlyStaleRepeats == Spec => []TwiceOnlyStale
<1>1. Init => Typed /\ CancelOK /\ OnceOK
  BY InitOK
<1>2. Typed /\ CancelOK /\ OnceOK /\ [Next]_vars => (Typed /\ CancelOK /\ OnceOK)'
  BY TypedStep, CancelStep, OnceStep
<1>3. OnceOK => TwiceOnlyStale
  BY DEF OnceOK, Captured, TwiceOnlyStale
<1> QED
  BY <1>1, <1>2, <1>3, PTL DEF Spec

\* Once it has nothing left to do, the watcher streams the present run of
\* every container, except where no call could have told it.
THEOREM ReportedIsAttended == Spec => []ReportedAttended
<1>1. Init => Typed /\ CancelOK /\ ReachOK
  BY InitOK
<1>2. Typed /\ CancelOK /\ ReachOK /\ [Next]_vars => (Typed /\ CancelOK /\ ReachOK)'
  BY TypedStep, CancelStep, ReachStep
<1>3. Typed /\ ReachOK => ReportedAttended
  BY ReachedAtRest
<1> QED
  BY <1>1, <1>2, <1>3, PTL DEF Spec

\* The gate never opens because of a line that an earlier run has written.
THEOREM GateIsOfThisRun == Spec => []GateNeedsThisRun
<1>1. Init => Typed /\ GateOK
  BY InitOK
<1>2. Typed /\ GateOK /\ [Next]_vars => (Typed /\ GateOK)'
  BY TypedStep, GateStep
<1>3. GateOK => GateNeedsThisRun
  BY DEF GateOK, GateNeedsThisRun
<1> QED
  BY <1>1, <1>2, <1>3, PTL DEF Spec

=============================================================================
