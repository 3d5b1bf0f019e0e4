------------------------------ MODULE Wrapper ------------------------------
(***************************************************************************)
(* One run of a managed process: process.ProcessWrapper (wrapper.go).      *)
(* The OS process it forks (Child) may fork others (Heirs). Every Stop and *)
(* every Wait is a thread, as are the two readers of its output, the kill  *)
(* timer a Stop arms, and os/exec's goroutine that watches the context.    *)
(* Other processes of the machine (Strangers) may be given a pid the run   *)
(* has used before.                                                        *)
(***************************************************************************)
EXTENDS Naturals

CONSTANTS
  Child,        \* the OS process Start forks, a session and group leader
  Heirs,        \* its descendants
  Strangers,    \* OS processes that have nothing to do with it
  Pids,
  NoPid,
  MaxTime,      \* bound on the clock, in seconds
  OutsideGroup, \* the heirs that leave its process group
  PipeHolders,  \* the heirs that keep its stdout and stderr open
  Stubborn,     \* the processes that ignore SIGTERM
  Streams,      \* stdout and stderr
  MaxLines,     \* bound on the lines written to each stream
  Waiters,      \* calls of Wait
  Stoppers,     \* calls of Stop
  Reaper,       \* the parent of an orphan, and of what others start
  NoStop

Others == Heirs \cup Strangers
Ids == {Child} \cup Others

ASSUME RunAssumption ==
  /\ Child \notin Heirs \cup Strangers
  /\ Heirs \cap Strangers = {}
  /\ Reaper \notin Ids
  /\ OutsideGroup \subseteq Heirs
  /\ PipeHolders \subseteq Heirs
  /\ Stubborn \subseteq {Child} \cup Heirs
  /\ MaxLines \in Nat
  /\ MaxTime \in Nat
  /\ NoStop \notin Stoppers
  /\ NoPid \notin Pids
  /\ Streams # {}

VARIABLES
  os,        \* each OS process: unborn, alive, zombie, gone
  pidOf,     \* its pid, kept in cmd.Process after it has gone
  born,      \* the second it was started in, all that ps tells of it
  clock,     \* the time, in seconds
  parent,    \* the parent of everything but the run's own process
  termed,    \* the processes that have been sent SIGTERM
  struck,    \* who signalled whom, ever
  wrote,     \* lines written to each stream
  read,      \* lines handed to the LineHandler
  reader,    \* each captureStream goroutine
  known,     \* cmd.ProcessState is set
  reaped,    \* a cmd.Wait has got os/exec's one result, and closed the pipes
  exited,    \* ProcessWrapper.exited, what IsRunning and GetStatus report
  timedOut,  \* the drain of some Wait has timed out
  waiter,    \* program counter of each Wait
  stopper,   \* program counter of each Stop
  sweep,     \* each findAndKillChildProcesses: Stop's own and its timer's
  cancelled, \* ProcessWrapper.ctx
  timer,     \* the kill timer each Stop arms
  killTimer  \* ProcessWrapper.killTimer: whose timer Wait would stop

osVars     == <<os, pidOf, born, clock, parent, termed>>
outputVars == <<wrote, read, reader>>
waitVars   == <<known, reaped, exited, timedOut, waiter>>
stopVars   == <<stopper, sweep, cancelled, timer, killTimer>>
vars == <<os, pidOf, born, clock, parent, termed, struck, wrote, read, reader, known, reaped,
          exited, timedOut, waiter, stopper, sweep, cancelled, timer, killTimer>>

Sweeps == Stoppers \X {"stop", "timer"}

-----------------------------------------------------------------------------
(* The operating system.                                                   *)

Alive == {i \in Ids : os[i] = "alive"}

Started == os[Child] # "unborn"

\* A pid is in use while a process has it, or a group of that name has members.
InUse(n) == \/ \E i \in Ids : os[i] \in {"alive", "zombie"} /\ pidOf[i] = n
            \/ \E h \in (Heirs \ OutsideGroup) \cap Alive : pidOf[Child] = n

Born(i, n) == /\ os[i] = "unborn"
              /\ ~InUse(n)
              /\ os' = [os EXCEPT ![i] = "alive"]
              /\ pidOf' = [pidOf EXCEPT ![i] = n]
              /\ born' = [born EXCEPT ![i] = clock]
              /\ UNCHANGED clock

\* The processes of S die: their children are orphans, and the run's own
\* process stays a zombie until it is waited for.
Die(S) == /\ os' = [i \in Ids |-> IF i \notin S \cap Alive THEN os[i]
                                  ELSE IF i = Child THEN "zombie" ELSE "gone"]
          /\ parent' = [o \in Others |-> IF parent[o] \in S THEN Reaper ELSE parent[o]]

Pgid(i) == IF i \in Heirs \ OutsideGroup THEN pidOf[Child] ELSE pidOf[i]

\* The members of the group of whatever process has pid n now.
GroupOf(n) == {i \in Alive : \E j \in Ids : /\ os[j] \in {"alive", "zombie"}
                                            /\ pidOf[j] = n
                                            /\ Pgid(i) = Pgid(j)}

Tick ==
  /\ clock < MaxTime
  /\ clock' = clock + 1
  /\ UNCHANGED <<os, pidOf, born, parent, termed, struck, outputVars, waitVars, stopVars>>

StrangerAppears(x) ==
  /\ \E n \in Pids : Born(x, n)
  /\ \E i \in {Reaper} \cup (Strangers \cap Alive) : parent' = [parent EXCEPT ![x] = i]
  /\ UNCHANGED <<termed, struck, outputVars, waitVars, stopVars>>

Holders == ({Child} \cup PipeHolders) \cap Alive

\* The output can only be inherited.
HeirForked(h) ==
  /\ \E n \in Pids : Born(h, n)
  /\ \E i \in ({Child} \cup Heirs) \cap Alive :
       /\ h \in PipeHolders => i \in Holders
       /\ parent' = [parent EXCEPT ![h] = i]
  /\ UNCHANGED <<termed, struck, outputVars, waitVars, stopVars>>

Exits(i) ==
  /\ i \in Alive
  /\ Die({i})
  /\ UNCHANGED <<pidOf, born, clock, termed, struck, outputVars, waitVars, stopVars>>

Writes(s) ==
  /\ Holders # {}
  /\ wrote[s] < MaxLines
  /\ wrote' = [wrote EXCEPT ![s] = @ + 1]
  /\ UNCHANGED <<osVars, struck, read, reader, waitVars, stopVars>>

-----------------------------------------------------------------------------
(* Start and captureStream.                                                *)

Start ==
  /\ \E n \in Pids : Born(Child, n)
  /\ reader' = [s \in Streams |-> "reading"]
  /\ UNCHANGED <<parent, termed, struck, wrote, read, waitVars, stopVars>>

\* A line goes to the handler. What the reader has buffered it still hands on
\* after the pipe has been closed.
ReaderReads(s) ==
  /\ reader[s] = "reading"
  /\ read[s] < wrote[s]
  /\ read' = [read EXCEPT ![s] = @ + 1]
  /\ UNCHANGED <<osVars, struck, wrote, reader, waitVars, stopVars>>

\* EOF once nobody holds the other end, or an error once cmd.Wait has closed
\* this one. The stream's end is reported before the reader is done.
ReaderEnds(s) ==
  /\ reader[s] = "reading"
  /\ reaped \/ (Holders = {} /\ read[s] = wrote[s])
  /\ reader' = [reader EXCEPT ![s] = "ended"]
  /\ UNCHANGED <<osVars, struck, wrote, read, waitVars, stopVars>>

-----------------------------------------------------------------------------
(* Wait: drain the readers, reap, record the exit, stop the kill timer.    *)

WaitCalled(w) ==
  /\ Started
  /\ waiter[w] = "idle"
  /\ waiter' = [waiter EXCEPT ![w] = "drain"]
  /\ UNCHANGED <<osVars, struck, outputVars, known, reaped, exited, timedOut, stopVars>>

\* Mutant of ReadersDone: a reader that has no line left is taken for done.
ReadersIdle == \A s \in Streams : reader[s] = "ended" \/ read[s] = wrote[s]

ReadersDone == \A s \in Streams : reader[s] = "ended"

Drained(w) ==
  /\ waiter[w] = "drain"
  /\ ReadersDone
  /\ waiter' = [waiter EXCEPT ![w] = "reap"]
  /\ UNCHANGED <<osVars, struck, outputVars, known, reaped, exited, timedOut, stopVars>>

\* Mutant of DrainTimesOut: the drain is not bounded.
DrainNeverTimesOut(w) == FALSE /\ UNCHANGED vars

\* outputDrainTimeout, which runs from the call of Wait.
DrainTimesOut(w) ==
  /\ waiter[w] = "drain"
  /\ waiter' = [waiter EXCEPT ![w] = "reap"]
  /\ timedOut' = TRUE
  /\ UNCHANGED <<osVars, struck, outputVars, known, reaped, exited, stopVars>>

\* cmd.Wait: it returns at once if it has been called before.
WaitsCmd(w) ==
  /\ waiter[w] = "reap"
  /\ waiter' = [waiter EXCEPT ![w] = IF known THEN "record" ELSE "wait"]
  /\ UNCHANGED <<osVars, struck, outputVars, known, reaped, exited, timedOut, stopVars>>

\* Mutant of Over: Process.Wait does not wait.
OverOrAlive == TRUE

\* What Process.Wait waits for: a zombie, which it reaps, or no child (ECHILD).
Over == os[Child] \in {"zombie", "gone"}

\* Process.Wait, whose answer becomes cmd.ProcessState: nil for an error.
Reaps(w) ==
  /\ waiter[w] = "wait"
  /\ Over
  /\ waiter' = [waiter EXCEPT ![w] = "result"]
  /\ known' = (os[Child] = "zombie")
  /\ os' = [os EXCEPT ![Child] = IF @ = "zombie" THEN "gone" ELSE @]
  /\ UNCHANGED <<pidOf, born, clock, parent, termed, struck, outputVars, reaped, exited, timedOut,
                 stopVars>>

\* The goroutine that watches the context sends one result: of the calls that
\* have got this far, one goes on.
TakesResult(w) ==
  /\ waiter[w] = "result"
  /\ ~reaped
  /\ waiter' = [waiter EXCEPT ![w] = "record"]
  /\ reaped' = TRUE
  /\ UNCHANGED <<osVars, struck, outputVars, known, exited, timedOut, stopVars>>

Records(w) ==
  /\ waiter[w] = "record"
  /\ waiter' = [waiter EXCEPT ![w] = "disarm"]
  /\ exited' = TRUE
  /\ UNCHANGED <<osVars, struck, outputVars, known, reaped, timedOut, stopVars>>

\* A kill timer that has fired holds timerMu until its sweep is over.
TimerMuFree == \A s \in Stoppers : sweep[<<s, "timer">>].pc \in {"idle", "done"}

\* Only the timer of the last Stop is remembered.
Disarms(w) ==
  /\ waiter[w] = "disarm"
  /\ TimerMuFree
  /\ waiter' = [waiter EXCEPT ![w] = "done"]
  /\ killTimer' = NoStop
  /\ timer' = [s \in Stoppers |-> IF s = killTimer /\ timer[s] = "armed" THEN "off" ELSE timer[s]]
  /\ UNCHANGED <<osVars, struck, outputVars, known, reaped, exited, timedOut, stopper, sweep,
                 cancelled>>

-----------------------------------------------------------------------------
(* findAndKillChildProcesses, which Stop and its timer call.               *)

\* The descendants that a snapshot of the process table shows below pid n: the
\* least set that holds the children of n and the children of its members.
Below(n) ==
  LET Kids(S) == {o \in Others \cap Alive : \/ parent[o] \in Ids /\ pidOf[parent[o]] = n
                                           \/ parent[o] \in S}
  IN {o \in Others \cap Alive : \A S \in SUBSET Others : Kids(S) \subseteq S => o \in S}

Sweep(k, pc) == sweep' = [sweep EXCEPT ![k].pc = pc]

Swept(k) == sweep' = [sweep EXCEPT ![k].pc = "verify", ![k].list = @ \ sweep[k].next,
                                   ![k].next = {}, ![k].seen = {}]

\* A descendant is remembered by its pid and the second it was started in. The
\* list is of the run's own descendants while the pid is the run's.
SweepLists(k) ==
  /\ sweep[k].pc = "list"
  /\ sweep' = [sweep EXCEPT ![k] =
       [pc |-> "verify", next |-> {}, seen |-> {},
        root |-> IF os[Child] \in {"alive", "zombie"} THEN "sweep" ELSE "astray",
        list |-> {<<pidOf[o], born[o]>> : o \in Below(pidOf[Child])}]]
  /\ UNCHANGED <<osVars, struck, outputVars, waitVars, stopper, cancelled, timer, killTimer>>

\* Who has pid n now.
Holding(n) == {i \in Alive : pidOf[i] = n}

\* Mutant of Same: whatever process has the pid.
SamePid(d) == Holding(d[1])

\* startTimeOf: the process that has the pid of entry d, if it started in d's second.
Same(d) == {i \in Holding(d[1]) : born[i] = d[2]}

\* Each entry is looked up, sent SIGTERM, looked up 50 ms later and sent SIGKILL.
SweepVerifies(k) ==
  /\ sweep[k].pc = "verify"
  /\ \E d \in sweep[k].list :
       sweep' = IF Same(d) = {}
                  THEN [sweep EXCEPT ![k].list = @ \ {d}]
                  ELSE [sweep EXCEPT ![k].pc = "terminate", ![k].next = {d}, ![k].seen = Same(d)]
  /\ UNCHANGED <<osVars, struck, outputVars, waitVars, stopper, cancelled, timer, killTimer>>

SweepReverifies(k) ==
  /\ sweep[k].pc = "reverify"
  /\ \E d \in sweep[k].next :
       IF Same(d) = {} THEN Swept(k)
       ELSE sweep' = [sweep EXCEPT ![k].pc = "kill", ![k].seen = Same(d)]
  /\ UNCHANGED <<osVars, struck, outputVars, waitVars, stopper, cancelled, timer, killTimer>>

\* A signal goes to whoever has the pid by now, which may be a process that has
\* been given it since it was looked up.
SweepStrikes(k, victims) ==
  struck' = struck \cup {<<IF i \in sweep[k].seen THEN sweep[k].root ELSE "late", i>> : i \in victims}

SweepTerminates(k) ==
  /\ sweep[k].pc = "terminate"
  /\ \E d \in sweep[k].next : /\ termed' = termed \cup Holding(d[1])
                              /\ SweepStrikes(k, Holding(d[1]))
  /\ Sweep(k, "reverify")
  /\ UNCHANGED <<os, pidOf, born, clock, parent, outputVars, waitVars, stopper, cancelled, timer,
                 killTimer>>

SweepKills(k) ==
  /\ sweep[k].pc = "kill"
  /\ \E d \in sweep[k].next : Die(Holding(d[1])) /\ SweepStrikes(k, Holding(d[1]))
  /\ Swept(k)
  /\ UNCHANGED <<pidOf, born, clock, termed, outputVars, waitVars, stopper, cancelled, timer,
                 killTimer>>

SweepEnds(k) ==
  /\ sweep[k].pc = "verify"
  /\ sweep[k].list = {}
  /\ Sweep(k, "done")
  /\ UNCHANGED <<osVars, struck, outputVars, waitVars, stopper, cancelled, timer, killTimer>>

-----------------------------------------------------------------------------
(* Stop: SIGTERM to the group, the sweep, the kill timer, the context.     *)

StopSignals(s) ==
  /\ Started
  /\ stopper[s] = "idle"
  /\ stopper' = [stopper EXCEPT ![s] = "sweep"]
  /\ Sweep(<<s, "stop">>, "list")
  /\ LET group == GroupOf(pidOf[Child])
     IN /\ termed' = termed \cup group
        /\ struck' = struck \cup ({"group"} \X group)
  /\ UNCHANGED <<os, pidOf, born, clock, parent, outputVars, waitVars, cancelled, timer, killTimer>>

StopArms(s) ==
  /\ stopper[s] = "sweep"
  /\ sweep[<<s, "stop">>].pc = "done"
  /\ TimerMuFree
  /\ stopper' = [stopper EXCEPT ![s] = "cancel"]
  /\ timer' = [timer EXCEPT ![s] = "armed"]
  /\ killTimer' = s
  /\ UNCHANGED <<osVars, struck, outputVars, waitVars, sweep, cancelled>>

StopCancels(s) ==
  /\ stopper[s] = "cancel"
  /\ stopper' = [stopper EXCEPT ![s] = "done"]
  /\ cancelled' = TRUE
  /\ UNCHANGED <<osVars, struck, outputVars, waitVars, sweep, timer, killTimer>>

\* exec.CommandContext kills the process when its context is cancelled.
ContextKills ==
  /\ cancelled
  /\ Child \in Alive
  /\ Die({Child})
  /\ struck' = struck \cup {<<"context", Child>>}
  /\ UNCHANGED <<pidOf, born, clock, termed, outputVars, waitVars, stopVars>>

\* The kill timer: if IsRunning, SIGKILL to the group, and another sweep.
TimerFires(s) ==
  /\ timer[s] = "armed"
  /\ TimerMuFree
  /\ timer' = [timer EXCEPT ![s] = "fired"]
  /\ Sweep(<<s, "timer">>, IF exited THEN "done" ELSE "list")
  /\ LET group == IF exited THEN {} ELSE GroupOf(pidOf[Child])
     IN /\ Die(group)
        /\ struck' = struck \cup ({"timer"} \X group)
  /\ UNCHANGED <<pidOf, born, clock, termed, outputVars, waitVars, stopper, cancelled, killTimer>>

-----------------------------------------------------------------------------
Init ==
  /\ os = [i \in Ids |-> "unborn"]
  /\ pidOf = [i \in Ids |-> NoPid]
  /\ born = [i \in Ids |-> 0]
  /\ clock = 0
  /\ parent = [o \in Others |-> Reaper]
  /\ termed = {}
  /\ struck = {}
  /\ wrote = [s \in Streams |-> 0]
  /\ read = [s \in Streams |-> 0]
  /\ reader = [s \in Streams |-> "off"]
  /\ known = FALSE
  /\ reaped = FALSE
  /\ exited = FALSE
  /\ timedOut = FALSE
  /\ waiter = [w \in Waiters |-> "idle"]
  /\ stopper = [s \in Stoppers |-> "idle"]
  /\ sweep = [k \in Sweeps |-> [pc |-> "idle", root |-> "sweep", list |-> {}, next |-> {},
                                seen |-> {}]]
  /\ cancelled = FALSE
  /\ timer = [s \in Stoppers |-> "off"]
  /\ killTimer = NoStop

WaitStep(w) == \/ Drained(w) \/ DrainTimesOut(w) \/ WaitsCmd(w) \/ Reaps(w)
               \/ TakesResult(w) \/ Records(w) \/ Disarms(w)

SweepStep(k) == \/ SweepLists(k) \/ SweepVerifies(k) \/ SweepTerminates(k)
                \/ SweepReverifies(k) \/ SweepKills(k) \/ SweepEnds(k)

StopStep(s) == StopArms(s) \/ StopCancels(s)

Next == \/ Tick \/ Start \/ ContextKills
        \/ \E x \in Strangers : StrangerAppears(x)
        \/ \E h \in Heirs : HeirForked(h)
        \/ \E i \in Ids : Exits(i)
        \/ \E s \in Streams : Writes(s) \/ ReaderReads(s) \/ ReaderEnds(s)
        \/ \E w \in Waiters : WaitCalled(w) \/ WaitStep(w)
        \/ \E s \in Stoppers : StopSignals(s) \/ StopStep(s) \/ TimerFires(s)
        \/ \E k \in Sweeps : SweepStep(k)

Spec == Init /\ [][Next]_vars

\* Goroutines and timers go on; a process obeys SIGTERM unless it is stubborn.
Fairness ==
  /\ WF_vars(ContextKills)
  /\ \A s \in Streams : WF_vars(ReaderReads(s)) /\ WF_vars(ReaderEnds(s))
  /\ \A w \in Waiters : WF_vars(WaitStep(w))
  /\ \A s \in Stoppers : WF_vars(StopStep(s)) /\ WF_vars(TimerFires(s))
  /\ \A k \in Sweeps : WF_vars(SweepStep(k))
  /\ \A i \in Ids \ Stubborn : WF_vars(i \in termed /\ Exits(i))

FairSpec == Spec /\ Fairness

-----------------------------------------------------------------------------
SweepType == [pc : {"idle", "list", "verify", "terminate", "reverify", "kill", "done"},
              root : {"sweep", "astray"},
              list : SUBSET (Pids \X (0 .. MaxTime)),
              next : SUBSET (Pids \X (0 .. MaxTime)),
              seen : SUBSET Ids]

\* Every variable has the values its Go counterpart can have.
TypeOK ==
  /\ os \in [Ids -> {"unborn", "alive", "zombie", "gone"}]
  /\ pidOf \in [Ids -> Pids \cup {NoPid}]
  /\ born \in [Ids -> 0 .. MaxTime]
  /\ clock \in 0 .. MaxTime
  /\ parent \in [Others -> Ids \cup {Reaper}]
  /\ termed \subseteq Ids
  /\ struck \subseteq {"group", "sweep", "astray", "late", "timer", "context"} \X Ids
  /\ wrote \in [Streams -> 0 .. MaxLines]
  /\ read \in [Streams -> 0 .. MaxLines]
  /\ reader \in [Streams -> {"off", "reading", "ended"}]
  /\ known \in BOOLEAN
  /\ reaped \in BOOLEAN
  /\ exited \in BOOLEAN
  /\ timedOut \in BOOLEAN
  /\ cancelled \in BOOLEAN
  /\ waiter \in [Waiters -> {"idle", "drain", "reap", "wait", "result", "record", "disarm",
                            "done"}]
  /\ stopper \in [Stoppers -> {"idle", "sweep", "cancel", "done"}]
  /\ sweep \in [Sweeps -> SweepType]
  /\ timer \in [Stoppers -> {"off", "armed", "fired"}]
  /\ killTimer \in Stoppers \cup {NoStop}

\* What IsRunning and GetStatus say is over is over, however many goroutines
\* wait for it and whatever stops it meanwhile.
ExitedIsOver == exited => os[Child] = "gone"

\* "Drain the output readers BEFORE reaping the process" (Wait): when the exit
\* is recorded, every line the run has written has been handled and the end of
\* both streams reported, unless a drain timed out.
OutputKept ==
  exited /\ ~timedOut => \A s \in Streams : reader[s] = "ended" /\ read[s] = wrote[s]

\* findAndKillChildProcesses leaves alone a process that had the pid of a
\* descendant when it was looked up, unless that descendant was started in the
\* same second, which is all ps tells of a start: only a pid that is handed on
\* within a second, or between a look and its signal ("late"), can mislead it.
SweepSparesStrangers ==
  \A x \in Strangers : <<"sweep", x>> \in struck =>
    \E h \in Heirs : os[h] # "unborn" /\ pidOf[h] = pidOf[x] /\ born[h] = born[x]

\* "a pid recycled since the snapshot is skipped rather than killed"
\* (findAndKillChildProcesses).
RecycledIsSpared == \A x \in Strangers : {<<"sweep", x>>, <<"late", x>>} \cap struck = {}

\* Another Wait that was in cmd.Wait with w has got the one result there is.
Robbed(w) == /\ waiter[w] = "result"
             /\ \E v \in Waiters \ {w} : waiter[v] = "done"

\* A Wait that is under way returns once the run has been stopped, even when a
\* descendant that survives holds the output open; or another Wait that was in
\* cmd.Wait at the same time does.
StoppedWaitReturns ==
  \A w \in Waiters, s \in Stoppers :
    stopper[s] = "done" /\ waiter[w] # "idle" ~> waiter[w] = "done" \/ Robbed(w)

\* What goes on by itself: goroutines, timers, and what a SIGTERM does.
Own == \/ ContextKills
       \/ \E s \in Streams : ReaderReads(s) \/ ReaderEnds(s)
       \/ \E w \in Waiters : WaitStep(w)
       \/ \E s \in Stoppers : StopStep(s) \/ TimerFires(s)
       \/ \E k \in Sweeps : SweepStep(k)
       \/ \E i \in Ids \ Stubborn : i \in termed /\ Exits(i)

\* Wait, Stop and the kill timer do not end up waiting for one another, for a
\* survivor that holds the output open, or for timerMu: once nothing goes on by
\* itself, every Stop has returned, and so has every Wait of a stopped run,
\* unless it was in cmd.Wait with another that has.
NobodyStuck ==
  ~ENABLED Own =>
    /\ \A s \in Stoppers : stopper[s] \in {"idle", "done"}
    /\ \A w \in Waiters, s \in Stoppers :
         stopper[s] = "done" => waiter[w] \in {"idle", "done"} \/ Robbed(w)

\* "Wait waits for the process to complete and all output to be captured": every
\* call of it returns.
EveryWaitReturns ==
  \A w \in Waiters, s \in Stoppers :
    stopper[s] = "done" /\ waiter[w] # "idle" ~> waiter[w] = "done"

\* The drain timeout is "only reached when something other than the direct
\* child still holds the pipe open" (wrapper.go): alone, a run loses no line.
NothingLostAlone ==
  exited /\ (\A h \in PipeHolders : os[h] = "unborn") =>
    \A s \in Streams : reader[s] = "ended" => read[s] = wrote[s]

\* "Give it 2 seconds to shut down gracefully" (Stop): the process is killed by
\* nothing but its timer.
GraceGiven ==
  <<"context", Child>> \in struck => \E s \in Stoppers : timer[s] = "fired"

\* "Killing the wrong process is its worst available failure" (procEntry): no
\* Stop signals a process that has nothing to do with the run.
StopSparesStrangers == \A x \in Strangers : <<"group", x>> \notin struck
=============================================================================
