------------------------------- MODULE Docker -------------------------------
(***************************************************************************)
(* A Compose stack seen from Running Man: main finds its containers, or    *)
(* offers to start them; docker.Watcher then keeps a log stream attached   *)
(* to each of them, following the daemon's events, until the program       *)
(* quits; and a depends_on gate may wait for a line of one of them. A      *)
(* service has one container, and a container its ID: a restart keeps the  *)
(* ID, so only the start of its run tells one run from the next.           *)
(* The daemon is modelled from how the program uses it.                    *)
(***************************************************************************)
EXTENDS Naturals, Sequences, SequencesExt, FiniteSetsExt

CONSTANTS
  Containers, \* those of the Compose project
  Watched,    \* those of the services the active profiles start
  OneShots,   \* those bounded to one run and no line, a migration for example
  Modes,      \* the values of docker_compose.start to be tried
  MaxRuns,    \* bound on the runs of a container
  MaxLines,   \* bound on the lines a container writes
  MaxFaults   \* bound on the calls that fail and the connections that drop

ASSUME StackAssumption ==
  /\ Watched \subseteq Containers /\ OneShots \subseteq Containers
  /\ Modes \subseteq {"ask", "never", "always"}
  /\ MaxRuns \in Nat \ {0} /\ MaxLines \in Nat /\ MaxFaults \in Nat

VARIABLES
  state,    \* of each container: not created, running, or exited
  done,     \* the exited ones whose exit code is 0, as long as anybody asks
  run,      \* how many runs it has had, for State.StartedAt
  log,      \* its log, as Docker keeps it: the run each line was written in
  events,   \* the start events the subscription holds
  faults,   \* how many faults there have been
  main,     \* program counter of main
  mode,     \* docker_compose.start
  found,    \* the result of discovery
  loop,     \* program counter of the goroutine of Watch
  todo,     \* the containers that Attach has still to be called for
  att,      \* the Attach under way: [c, run], with the start it has read
  attached, \* Watcher.attached: the run, 0 if none; its stream is the last one
  streams,  \* of each container, the streams opened: [pos, upto, stopped, over]
  gate,     \* WaitServiceLog: [pc, c, since, run], then [pc, c, since, pos, upto];
            \* since is history: the run in which it found c
  got,      \* history: the lines captured, and those captured twice
  twice,
  stale,    \* history: a stream was opened with the start of an earlier run
  excused   \* history: nothing has told the watcher of the current run

daemon  == <<state, done, run, log, events>>
boot    == <<main, mode, found>>
watcher == <<loop, todo, att, attached, streams>>
history == <<got, twice, stale, excused>>
vars    == <<state, done, run, log, events, faults, main, mode, found,
             loop, todo, att, attached, streams, gate, got, twice, stale, excused>>

Booting == {"discover", "stack", "askStack", "upStack", "awaitStack",
            "rest", "askRest", "upRest", "awaitRest", "attach"}
Off     == [pc |-> "off"]
Lines   == 1 .. MaxLines

TypeOK ==
  /\ state \in [Containers -> {"none", "running", "exited"}]
  /\ done \subseteq Containers /\ run \in [Containers -> 0 .. MaxRuns]
  /\ \A c \in Containers : log[c] \in Seq(1 .. MaxRuns)
  /\ events \in Seq(Containers) /\ faults \in 0 .. MaxFaults
  /\ main \in Booting \cup {"serving", "cancelled", "stopped", "waiting", "waited", "exited"}
  /\ mode \in Modes /\ found \subseteq Watched
  /\ loop \in {"off", "subscribe", "listen", "attach", "sleep", "gone"}
  /\ todo \subseteq Containers
  /\ att = Off \/ att \in [pc : {"inspect", "open"}, c : Containers, run : 0 .. MaxRuns]
  /\ attached \in [Containers -> 0 .. MaxRuns]
  /\ \A c \in Containers : streams[c] \in
       Seq([pos : 0 .. MaxLines, upto : 1 .. MaxRuns, stopped : BOOLEAN, over : BOOLEAN])
  /\ got \in [Containers -> SUBSET Lines] /\ twice \in [Containers -> SUBSET Lines]
  /\ stale \subseteq Containers /\ excused \subseteq Containers

Init ==
  /\ state \in [Containers -> {"none", "running", "exited"}]
  /\ done \in SUBSET {c \in Containers : state[c] = "exited"}
  /\ run = [c \in Containers |-> IF state[c] = "none" THEN 0 ELSE 1]
  /\ log = [c \in Containers |-> <<>>]
  /\ events = <<>> /\ faults = 0
  /\ main = "discover" /\ mode \in Modes /\ found = {}
  /\ loop = "off" /\ todo = {} /\ att = Off
  /\ attached = [c \in Containers |-> 0]
  /\ streams = [c \in Containers |-> <<>>]
  /\ gate = Off
  /\ got = [c \in Containers |-> {}] /\ twice = got
  /\ stale = {} /\ excused = {}

Running == {c \in Watched : state[c] = "running"}
Fault   == faults < MaxFaults /\ faults' = faults + 1
NoFault == UNCHANGED faults

-----------------------------------------------------------------------------
(* The daemon and its containers.                                          *)

\* What is going to be inspected yet, whatever run it is in by then.
Pending == todo \cup (IF main \in Booting \ {"attach"} THEN found ELSE {})
                \cup (IF att.pc = "inspect" THEN {att.c} ELSE {})

\* Whoever starts it: the developer, Compose, a restart policy. Without a
\* subscription nobody is told.
Starts(c) ==
  /\ state[c] # "running" /\ run[c] < (IF c \in OneShots THEN 1 ELSE MaxRuns)
  /\ state' = [state EXCEPT ![c] = "running"]
  /\ run' = [run EXCEPT ![c] = @ + 1]
  /\ done' = done \ {c}
  /\ IF loop = "listen"
     THEN events' = Append(events, c) /\ excused' = excused \ {c}
     ELSE events' = events /\ excused' = IF c \in Pending THEN excused ELSE excused \cup {c}
  /\ UNCHANGED <<log, faults, boot, watcher, gate, got, twice, stale>>

Stops(c) ==
  /\ state[c] = "running"
  /\ state' = [state EXCEPT ![c] = "exited"]
  /\ done' \in {done, done \cup {x \in {c} : main \in Booting}}
  /\ UNCHANGED <<run, log, events, faults, boot, watcher, gate, history>>

Writes(c) ==
  /\ c \notin OneShots /\ state[c] = "running" /\ Len(log[c]) < MaxLines
  /\ log' = [log EXCEPT ![c] = Append(@, run[c])]
  /\ UNCHANGED <<state, done, run, events, faults, boot, watcher, gate, history>>

\* How many lines of c were written before run r.
Before(c, r) == Cardinality({i \in DOMAIN log[c] : log[c][i] < r})

-----------------------------------------------------------------------------
(* main: discovery, and the offers to start what is not running.           *)

Found(cs) == found' = cs /\ excused' = excused \ cs

Discovers ==
  /\ main = "discover"
  /\ \/ Fault /\ main' = "exited" /\ UNCHANGED <<found, excused>>
     \/ NoFault /\ Found(Running) /\ main' = IF Running = {} THEN "stack" ELSE "rest"
  /\ UNCHANGED <<daemon, mode, watcher, gate, got, twice, stale>>

\* offerToStartCompose: it asks only where somebody can answer, and it gives
\* up when Compose fails or no container has appeared in time.
OffersStack ==
  /\ main = "stack"
  /\ main' \in IF mode = "never" THEN {"exited"}
               ELSE IF mode = "ask" THEN {"exited", "askStack"} ELSE {"exited", "awaitStack"}
  /\ UNCHANGED <<daemon, faults, mode, found, watcher, gate, history>>

AsksStack ==
  /\ main = "askStack"
  /\ main' \in {"exited", "awaitStack"}
  /\ UNCHANGED <<daemon, faults, mode, found, watcher, gate, history>>

AwaitsStack ==
  /\ main = "awaitStack"
  /\ \/ Running # {} /\ Found(Running) /\ main' = "rest"
     \/ main' = "exited" /\ UNCHANGED <<found, excused>>
  /\ UNCHANGED <<daemon, faults, mode, watcher, gate, got, twice, stale>>

\* What is neither running nor done. Docker may fail to say what is done.
MissingGiven(d) == (Watched \ found) \ d

OffersRest ==
  /\ main = "rest"
  /\ \E d \in {done, {}} :
       /\ IF d = done THEN NoFault ELSE Fault
       /\ main' \in IF MissingGiven(d) = {} \/ mode = "never" THEN {"attach"}
                    ELSE IF mode = "ask" THEN {"attach", "askRest"} ELSE {"attach", "awaitRest"}
  /\ todo' = IF main' = "attach" THEN found ELSE {}
  /\ UNCHANGED <<daemon, mode, found, loop, att, attached, streams, gate, history>>

AsksRest ==
  /\ main = "askRest"
  /\ main' \in {"attach", "awaitRest"}
  /\ todo' = IF main' = "attach" THEN found ELSE {}
  /\ UNCHANGED <<daemon, faults, mode, found, loop, att, attached, streams, gate, history>>

\* waitForServices: until none is missing or time is up, with the containers
\* of the last discovery that worked and found any.
AwaitsRest ==
  /\ main = "awaitRest"
  /\ main' = "attach"
  /\ \/ Running # {} /\ Found(Running)
     \/ UNCHANGED <<found, excused>>
  /\ todo' = found'
  /\ UNCHANGED <<daemon, faults, mode, loop, att, attached, streams, gate, got, twice, stale>>

\* Watch, once each container has been attached. What only the start looks at
\* is forgotten.
Watches ==
  /\ main = "attach" /\ todo = {} /\ att = Off
  /\ main' = "serving" /\ loop' = "subscribe"
  /\ found' = {} /\ done' = {} /\ mode' = CHOOSE m \in Modes : TRUE
  /\ UNCHANGED <<state, run, log, events, faults, todo, att, attached, streams, gate, history>>

-----------------------------------------------------------------------------
(* Watcher.Attach: the start of the run is read without the lock, the rest *)
(* is under it.                                                            *)

\* Mutant: Stop does not cancel.
NotCancelled == FALSE

Cancelled == main \in {"cancelled", "stopped", "waiting", "waited"}

AttachNext ==
  /\ main = "attach" \/ loop = "attach"
  /\ att = Off
  /\ \E c \in todo : att' = [pc |-> "inspect", c |-> c, run |-> 0] /\ todo' = todo \ {c}
  /\ UNCHANGED <<daemon, faults, boot, loop, attached, streams, gate, history>>

Inspects ==
  /\ att.pc = "inspect"
  /\ \/ Fault /\ att' = Off /\ excused' = excused \cup {att.c}
     \/ Cancelled /\ NoFault /\ att' = Off /\ UNCHANGED excused
     \/ NoFault /\ att' = [att EXCEPT !.pc = "open", !.run = run[att.c]] /\ UNCHANGED excused
  /\ UNCHANGED <<daemon, boot, loop, todo, attached, streams, gate, got, twice, stale>>

\* Opening follows the log of the run the container is in, from the window
\* for the first stream and from the start that was read for the others.
Stream(n, c) == [pos |-> n, upto |-> run[c], stopped |-> FALSE, over |-> FALSE]

StopLast(c) ==
  IF attached[c] = 0 THEN streams[c]
  ELSE [streams[c] EXCEPT ![Len(streams[c])].stopped = TRUE]

\* Mutant: a restarted container is replayed like a new one.
ReplayHistory(c, n) == n

\* Since when a stream replays: n lines are older than the retention window.
ReplayFrom(c, n) == IF attached[c] = 0 THEN n ELSE Max({n, Before(c, att.run)})


Opens ==
  /\ att.pc = "open"
  /\ LET c == att.c IN
       IF Cancelled \/ attached[c] = att.run THEN NoFault /\ UNCHANGED <<attached, streams, stale, excused>>
       ELSE \/ /\ Fault
               /\ streams' = [streams EXCEPT ![c] = StopLast(c)]
               /\ excused' = excused \cup {c}
               /\ UNCHANGED <<attached, stale>>
            \/ /\ NoFault
               /\ \E n \in 0 .. Len(log[c]) :
                    streams' = [streams EXCEPT ![c] = Append(StopLast(c), Stream(ReplayFrom(c, n), c))]
               /\ attached' = [attached EXCEPT ![c] = att.run]
               /\ stale' = IF att.run < run[c] THEN stale \cup {c} ELSE stale
               /\ excused' = IF att.run = run[c] THEN excused \ {c} ELSE excused
  /\ att' = Off
  /\ UNCHANGED <<daemon, boot, loop, todo, gate, got, twice>>

-----------------------------------------------------------------------------
(* The goroutine of Watch.                                                 *)

Subscribes ==
  /\ loop = "subscribe"
  /\ loop' = "listen" /\ events' = <<>>
  /\ UNCHANGED <<state, done, run, log, faults, boot, todo, att, attached, streams, gate, history>>

\* onEvent: only a start, and only of a watched service.
OnEvent ==
  /\ loop = "listen" /\ att = Off /\ events # <<>>
  /\ events' = Tail(events)
  /\ att' = IF Head(events) \in Watched
            THEN [pc |-> "inspect", c |-> Head(events), run |-> 0] ELSE Off
  /\ UNCHANGED <<state, done, run, log, faults, boot, loop, todo, attached, streams, gate, history>>

\* The event stream drops, with the events it holds.
FeedDrops ==
  /\ loop = "listen" /\ att = Off /\ Fault
  /\ loop' = "sleep" /\ events' = <<>>
  /\ UNCHANGED <<state, done, run, log, boot, todo, att, attached, streams, gate, history>>

\* To Attach, a run whose stream has broken off is being streamed.
Broken == {c \in Watched : attached[c] # 0 /\ attached[c] = run[c] /\ Last(streams[c]).over}

\* Mutant: the watcher subscribes again, and that is all.
Reconnects ==
  /\ loop = "sleep"
  /\ NoFault /\ loop' = "subscribe" /\ excused' = excused \ (Running \ Broken)
  /\ UNCHANGED <<daemon, boot, todo, att, attached, streams, gate, got, twice, stale>>

\* Two seconds later. A discovery that fails is not repeated.
Rediscovers ==
  /\ loop = "sleep"
  /\ \/ Fault /\ loop' = "subscribe" /\ excused' = Watched /\ UNCHANGED todo
     \/ NoFault /\ loop' = "attach" /\ todo' = Running /\ excused' = excused \ (Running \ Broken)
  /\ UNCHANGED <<daemon, boot, att, attached, streams, gate, got, twice, stale>>

RediscoveryEnds ==
  /\ loop = "attach" /\ todo = {} /\ att = Off
  /\ loop' = "subscribe"
  /\ UNCHANGED <<daemon, faults, boot, todo, att, attached, streams, gate, history>>

LoopEnds ==
  /\ Cancelled /\ loop \in {"subscribe", "listen", "sleep"} /\ att = Off
  /\ loop' = "gone"
  /\ UNCHANGED <<daemon, faults, boot, todo, att, attached, streams, gate, history>>

-----------------------------------------------------------------------------
(* ContainerStreamer.                                                      *)

Available(c, s) == s.pos < Len(log[c]) /\ log[c][s.pos + 1] <= s.upto

\* A cancelled stream may still have lines in its hands.
StreamReads(c, i) ==
  /\ LET s == streams[c][i]
         n == s.pos + 1
     IN  /\ ~s.over /\ Available(c, s)
         /\ streams' = [streams EXCEPT ![c][i].pos = n]
         /\ got' = [got EXCEPT ![c] = @ \cup {n}]
         /\ twice' = [twice EXCEPT ![c] = IF n \in got[c] THEN @ \cup {n} ELSE @]
  /\ UNCHANGED <<daemon, faults, boot, loop, todo, att, attached, gate, stale, excused>>

\* It ends with the run it follows, when it is cancelled, or because the
\* connection breaks.
StreamEnds(c, i) ==
  /\ LET s == streams[c][i]
         runOver == ~Available(c, s) /\ (s.upto < run[c] \/ state[c] # "running")
     IN  /\ ~s.over
         /\ \/ NoFault /\ (s.stopped \/ runOver) /\ UNCHANGED excused
            \/ Fault /\ excused' = excused \cup {c}
         /\ streams' = [streams EXCEPT ![c][i].over = TRUE]
  /\ UNCHANGED <<daemon, boot, loop, todo, att, attached, gate, got, twice, stale>>

-----------------------------------------------------------------------------
(* Quitting: Stop cancels, then takes the lock to stop every stream; Wait  *)
(* waits for the goroutine, then for the streams.                          *)

\* The process manager, and with it the gate, has been stopped before.
Cancels ==
  /\ main = "serving"
  /\ main' = "cancelled" /\ gate' = Off
  /\ UNCHANGED <<daemon, faults, mode, found, watcher, history>>

\* Mutant: the streams are left to end by themselves.
SweepsNone ==
  /\ main = "cancelled"
  /\ main' = "stopped"
  /\ UNCHANGED <<daemon, faults, mode, found, watcher, gate, history>>

Sweeps ==
  /\ main = "cancelled"
  /\ main' = "stopped"
  /\ streams' = [c \in Containers |-> StopLast(c)]
  /\ UNCHANGED <<daemon, faults, mode, found, loop, todo, att, attached, gate, history>>

WaitsForLoop ==
  /\ main = "stopped" /\ loop = "gone"
  /\ main' = "waiting"
  /\ UNCHANGED <<daemon, faults, mode, found, watcher, gate, history>>

WaitsForStreams ==
  /\ main = "waiting"
  /\ \A c \in Containers : attached[c] # 0 => Last(streams[c]).over
  /\ main' = "waited"
  /\ UNCHANGED <<daemon, faults, mode, found, watcher, gate, history>>

-----------------------------------------------------------------------------
(* WaitServiceLog, for a process that depends on a service.                *)

GateFinds ==
  /\ gate.pc = "off" /\ main = "serving"
  /\ \E c \in Running : gate' = [pc |-> "inspect", c |-> c, since |-> run[c]]
  /\ UNCHANGED <<daemon, faults, boot, watcher, history>>

GateInspects ==
  /\ gate.pc = "inspect"
  /\ gate' = [pc |-> "open", c |-> gate.c, since |-> gate.since, run |-> run[gate.c]]
  /\ UNCHANGED <<daemon, faults, boot, watcher, history>>

\* Mutant: the stream replays what retention would keep.
GateOpensHistory ==
  /\ gate.pc = "open"
  /\ gate' = [pc |-> "match", c |-> gate.c, since |-> gate.since, pos |-> 0, upto |-> run[gate.c]]
  /\ UNCHANGED <<daemon, faults, boot, watcher, history>>

GateOpens ==
  /\ gate.pc = "open"
  /\ gate' = [pc |-> "match", c |-> gate.c, since |-> gate.since,
              pos |-> Before(gate.c, gate.run), upto |-> run[gate.c]]
  /\ UNCHANGED <<daemon, faults, boot, watcher, history>>

\* Any line may be the first that has the text.
GateReads ==
  /\ gate.pc = "match"
  /\ \E n \in gate.pos + 1 .. Len(log[gate.c]) :
       /\ log[gate.c][n] <= gate.upto
       /\ gate' = [pc |-> "passed", since |-> gate.since, by |-> log[gate.c][n]]
  /\ UNCHANGED <<daemon, faults, boot, watcher, history>>

\* A call fails, or the healthcheck's time is up.
GateFails ==
  /\ gate.pc \in {"inspect", "open", "match"}
  /\ gate' = [pc |-> "failed"]
  /\ UNCHANGED <<daemon, faults, boot, watcher, history>>

-----------------------------------------------------------------------------

\* Once the program is over, what the containers do is not followed.
Stack   == /\ main \notin {"exited", "waited"}
           /\ \E c \in Containers : Starts(c) \/ Stops(c) \/ Writes(c)
Boot    == Discovers \/ OffersStack \/ AsksStack \/ AwaitsStack
           \/ OffersRest \/ AsksRest \/ AwaitsRest \/ Watches
Attach  == AttachNext \/ Inspects \/ Opens
Watch   == Subscribes \/ OnEvent \/ FeedDrops \/ Rediscovers \/ RediscoveryEnds \/ LoopEnds
Streams == \E c \in Containers : \E i \in DOMAIN streams[c] : StreamReads(c, i) \/ StreamEnds(c, i)
Quit    == Cancels \/ Sweeps \/ WaitsForLoop \/ WaitsForStreams
Gate    == GateFinds \/ GateInspects \/ GateOpens \/ GateReads \/ GateFails

Next == Stack \/ Boot \/ Attach \/ Watch \/ Streams \/ Quit \/ Gate

\* Calls to the daemon return, the goroutine runs, a cancelled context ends
\* what waits on it.
Fairness ==
  /\ WF_vars(Attach) /\ WF_vars(RediscoveryEnds) /\ WF_vars(LoopEnds)
  /\ WF_vars(Sweeps \/ WaitsForLoop \/ WaitsForStreams)
  /\ \A c \in Containers : \A i \in 1 .. MaxRuns :
       WF_vars(i \in DOMAIN streams[c] /\ streams[c][i].stopped /\ StreamEnds(c, i))

Spec == Init /\ [][Next]_vars /\ Fairness

-----------------------------------------------------------------------------

\* "It must be streamed once, or every line arrives twice": of the streams
\* opened for a container, only the last has not been cancelled.
OneStream ==
  \A c \in Containers : \A i \in DOMAIN streams[c] : i < Len(streams[c]) => streams[c][i].stopped

\* "A stream opened after Stop would never be stopped."
NothingAfterStop ==
  main \in {"stopped", "waiting", "waited"} =>
    \A c \in Containers : \A i \in DOMAIN streams[c] : streams[c][i].stopped

\* What has been opened is cancelled, by the next stream or by Stop.
StreamsSound == TypeOK /\ OneStream /\ NothingAfterStop

\* "Nothing from the previous run is captured twice": only a restart between
\* reading the start and opening the stream can do that.
TwiceOnlyStale == \A c \in Containers : twice[c] # {} => c \in stale

Idle == loop = "listen" /\ events = <<>> /\ att = Off /\ ~Cancelled

Attended(c) == attached[c] = run[c] /\ ~Last(streams[c]).over

\* A container that has been started, restarted or rediscovered is streamed
\* in its present run, unless nothing reported it or a call failed.
ReportedAttended == Idle => \A c \in Running \ excused : Attended(c)

\* "Keeps a log stream attached to every running container of the watched
\* Compose services, including containers that start after Running Man
\* attached".
KeepsAttached == Idle => \A c \in Running : Attended(c)

\* "A line from the current run": the gate is never passed by a line of a run
\* that was over when the wait began.
GateNeedsThisRun == gate.pc = "passed" => gate.by >= gate.since

\* Quitting ends: Wait returns, whatever the watcher was doing when Stop came.
QuitEnds == main = "cancelled" ~> main = "waited"

=============================================================================
