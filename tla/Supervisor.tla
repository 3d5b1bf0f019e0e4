----------------------------- MODULE Supervisor -----------------------------
(***************************************************************************)
(* The process supervisor of Running Man: process.Manager (manager.go),    *)
(* its dependency-ordered startup (startup.go), and the part of run() in   *)
(* cmd/running-man/main.go that drives them.                               *)
(*                                                                         *)
(* Every goroutine is a thread with a program counter:                     *)
(*   main        run(): Start, then Wait (headless) or the TUI and then    *)
(*               Stop and Wait;                                            *)
(*   starter[p]  gate or startRecurringProcess, launched by Start;         *)
(*   waiter[p]   the goroutine Manager.Wait launches for p;                *)
(*   caller[c]   one API request or TUI key that calls Manager.Restart;    *)
(*   stop        one call of Manager.Stop by the API or a signal.          *)
(* A run is one ProcessWrapper with the OS process it starts.              *)
(*                                                                         *)
(* Steps are cut where the code releases Manager.mu, blocks, or forks.     *)
(***************************************************************************)
EXTENDS Naturals, Sequences

CONSTANTS
  Procs,          \* names of the configured processes
  Services,       \* names of the Compose services they depend on
  Order,          \* the names of Procs in the order configured
  DependsOn,      \* each process's depends_on, a sequence of names
  Recurring,      \* the processes with an interval
  RestartOnCrash, \* the processes with restart_on_crash
  HasCheck,       \* the processes with a healthcheck
  Callers,        \* concurrent callers of Restart
  Restartable,    \* the processes they name
  EarlyCalls,     \* whether the API is called before Manager.Start has returned
  Headless,       \* --no-tui
  Runs,           \* process runs; one that is over and unreferenced is reused
  NoRun,          \* no entry in the processes map, no wrapper in a variable
  Placeholder,    \* the wrapper Start registers for a recurring process
  NoProc

Deps == Procs \cup Services

ASSUME ConfigAssumption ==
  /\ Procs \cap Services = {}
  /\ NoProc \notin Procs
  /\ Order \in Seq(Procs)
  /\ \A i, j \in DOMAIN Order : Order[i] = Order[j] => i = j
  /\ DependsOn \in [Procs -> Seq(Deps)]
  /\ Recurring \subseteq Procs
  /\ HasCheck \subseteq Procs
  /\ Restartable \subseteq Procs
  /\ EarlyCalls \in BOOLEAN
  /\ Headless \in BOOLEAN
  /\ NoRun \notin Runs
  /\ Placeholder \notin Runs
  /\ NoRun # Placeholder

\* What config.ValidateDependencies leaves: a dependency is a service or a
\* process with a healthcheck and no interval, so that it can become ready.
ASSUME ValidatedAssumption ==
  \A p \in Procs : \A i \in DOMAIN DependsOn[p] :
    DependsOn[p][i] \in Services \cup (HasCheck \ Recurring)

VARIABLES
  main,         \* program counter of run()
  next,         \* the index in Order that Manager.Start has reached
  cancelled,    \* Manager.ctx is cancelled
  swept,        \* a Stop, or the clean-up of a failed Start, has signalled every run
  stop,         \* program counter of the API's or signal handler's Stop
  hasRecurring, \* Manager.Wait's hasRecurring
  processes,    \* Manager.processes
  life,         \* each run's OS process
  owner,        \* the process a run is of
  lost,         \* the runs of which a second cmd.Wait never returns
  ready,        \* startup.ready: the outcome of each dependency's check
  checked,      \* startup.checked
  pending,      \* startup.pending; a gated channel is closed when p leaves it
  blocked,      \* the names in startup.blocked
  halted,       \* startup.halted is closed
  starter,
  waiter,
  caller

startupVars == <<ready, checked, pending, blocked, halted>>
runVars     == <<life, owner, lost>>
mainVars    == <<main, next, hasRecurring>>
stopVars    == <<cancelled, swept, stop>>
vars == <<main, next, hasRecurring, cancelled, swept, stop, processes, life, owner,
          lost, ready, checked, pending, blocked, halted, starter, waiter, caller>>

-----------------------------------------------------------------------------
(* Runs. "free" is a run that was never started or has been waited for;    *)
(* "alive" one nobody has told to stop, "signalled" one Stop has signalled *)
(* (it will die: SIGKILL follows), "exited" one that is over but that no   *)
(* Wait has reaped: GetStatus still says running.                          *)

Running(r) == life[r] \in {"alive", "signalled"}

Gated(p) == DependsOn[p] # <<>>

Registered(r) == \E p \in Procs : processes[p] = r

\* Mutant of Existing: the placeholder is taken for a run.
ExistingEntry(p) == processes[p]

\* The run to wait for or to stop; a placeholder has no OS process.
Existing(p) == IF processes[p] \in Runs THEN processes[p] ELSE NoRun

Held(r) == \/ \E p \in Procs : starter[p].run = r \/ waiter[p].run = r
           \/ \E c \in Callers : caller[c].run = r

Fresh(r) == life[r] = "free" /\ ~Registered(r) /\ ~Held(r)

\* ProcessWrapper.Start succeeds: a new OS process for p.
Fork(p, r) == /\ Fresh(r)
              /\ life' = [life EXCEPT ![r] = "alive"]
              /\ owner' = [owner EXCEPT ![r] = p]
              /\ UNCHANGED lost

\* ProcessWrapper.Stop on every run in S.
Signalled(S) == [r \in Runs |-> IF r \in S /\ life[r] = "alive" THEN "signalled" ELSE life[r]]

\* The goroutines that are in ProcessWrapper.Wait of r.
Joining(r) ==
  ({"starter"} \X {p \in Procs : starter[p].run = r /\ starter[p].pc \in {"run", "reap"}})
  \cup ({"waiter"} \X {p \in Procs : waiter[p].run = r /\ waiter[p].pc \in {"wait", "reap"}})
  \cup ({"caller"} \X {c \in Callers : caller[c].run = r /\ caller[c].pc \in {"join", "reap"}})

\* Mutant of Reap: Wait gives up when the output does not drain.
ReapEarly(r) == IF Running(r) THEN UNCHANGED runVars
                ELSE /\ life' = [life EXCEPT ![r] = "free"]
                     /\ owner' = [owner EXCEPT ![r] = NoProc]
                     /\ UNCHANGED lost

\* ProcessWrapper.Wait returns once the OS process is gone, and records the
\* exit. A second caller is told that Wait has been called already; unless both
\* are in cmd.Wait, where the result of the context is there for one of them
\* and the other waits for it for ever.
Reap(r) == /\ ~Running(r)
           /\ r \notin lost
           /\ life' = [life EXCEPT ![r] = "free"]
           /\ owner' = [owner EXCEPT ![r] = NoProc]
           /\ \/ UNCHANGED lost
              \/ /\ \E g, h \in Joining(r) : g # h
                 /\ lost' = lost \cup {r}

\* An OS process ends, by itself or because it was signalled.
Exit(r) == /\ Running(r)
           /\ life' = [life EXCEPT ![r] = "exited"]
           /\ UNCHANGED <<mainVars, stopVars, processes, owner, lost, startupVars, starter, waiter, caller>>

Up == main # "exited"              \* goroutines end with the program
LockFree == main # "start"         \* Start holds Manager.mu throughout
\* Mutant of AdoptRefuses: no look at the context.
NeverRefuses == FALSE

\* adopt does not register a run once the context is cancelled.
AdoptRefuses == cancelled

Open == Up /\ (EarlyCalls \/ main \notin {"serving", "start"})

-----------------------------------------------------------------------------
(* startup.go                                                              *)

\* settle(name, ""): the process has started, unless that is decided already.
Settle(p) == pending' = pending \ {p}

\* Mutant of Decided: the last decision stands.
DecidedAgain(d, outcome) == [ready EXCEPT ![d] = outcome]

\* decide: the first decision stands.
Decided(d, outcome) ==
  [ready EXCEPT ![d] = IF @ = "undecided" THEN outcome ELSE @]

\* checkHealth: the first run's healthcheck, or ready at once without one.
CheckHealth(p) ==
  /\ checked' = checked \cup {p}
  /\ ready' = IF p \in checked \/ p \in HasCheck THEN ready ELSE Decided(p, "ready")

\* Mutant of Halt: what is waiting is not settled.
HaltSilently == halted' = TRUE /\ UNCHANGED <<blocked, pending>>

\* halt: once only, everything waiting is blocked.
Halt == /\ halted' = TRUE
        /\ blocked' = IF halted THEN blocked ELSE blocked \cup pending
        /\ pending' = IF halted THEN pending ELSE {}

\* The goroutine of checkHealth or awaitService: the check passes, or fails
\* (its timeout, or the manager is stopped).
HealthDecides(d) ==
  /\ Up
  /\ d \in checked
  /\ ready[d] = "undecided"
  /\ \E outcome \in {"ready", "failed"} : ready' = Decided(d, outcome)
  /\ UNCHANGED <<mainVars, stopVars, processes, runVars, checked, pending, blocked, halted,
                 starter, waiter, caller>>

-----------------------------------------------------------------------------
(* Manager.Start: one step per configured process, mu held from            *)
(* StartBegins to StartEnds. The API has been serving for 100 ms by then.  *)

StartBegins ==
  /\ main = "serving"
  /\ main' = "start"
  /\ UNCHANGED <<next, hasRecurring, stopVars, processes, runVars, startupVars,
                 starter, waiter, caller>>

Starting(p) == /\ main = "start"
               /\ next \in DOMAIN Order
               /\ Order[next] = p
               /\ next' = next + 1

StartRecurring(p) ==
  /\ Starting(p)
  /\ p \in Recurring
  /\ processes' = [processes EXCEPT ![p] = Placeholder]
  /\ starter' = [starter EXCEPT ![p].pc = IF Gated(p) THEN "await" ELSE "tick"]
  /\ UNCHANGED <<main, hasRecurring, stopVars, runVars, startupVars, waiter, caller>>

StartGated(p) ==
  /\ Starting(p)
  /\ p \notin Recurring
  /\ Gated(p)
  /\ starter' = [starter EXCEPT ![p].pc = "await"]
  /\ UNCHANGED <<main, hasRecurring, stopVars, processes, runVars, startupVars, waiter, caller>>

StartPlain(p) ==
  /\ Starting(p)
  /\ p \notin Recurring
  /\ ~Gated(p)
  /\ \E r \in Runs : /\ Fork(p, r)
                     /\ processes' = [processes EXCEPT ![p] = r]
  /\ CheckHealth(p)
  /\ UNCHANGED <<main, hasRecurring, stopVars, pending, blocked, halted, starter, waiter, caller>>

\* wrapper.Start fails: cancel, stop what was started, clear the map. run()
\* then exits.
StartFails(p) ==
  /\ Starting(p)
  /\ p \notin Recurring
  /\ ~Gated(p)
  /\ main' = "failed"
  /\ cancelled' = TRUE
  /\ swept' = TRUE
  /\ life' = Signalled({r \in Runs : Registered(r)})
  /\ processes' = [q \in Procs |-> NoRun]
  /\ UNCHANGED <<hasRecurring, stop, owner, lost, startupVars, starter, waiter, caller>>

StartEnds ==
  /\ main = "start"
  /\ next \notin DOMAIN Order
  /\ main' = IF Headless THEN "launch" ELSE "tui"
  /\ UNCHANGED <<next, hasRecurring, stopVars, processes, runVars, startupVars,
                 starter, waiter, caller>>

FailedStartExits ==
  /\ main = "failed"
  /\ main' = "exited"
  /\ UNCHANGED <<next, hasRecurring, stopVars, processes, runVars, startupVars,
                 starter, waiter, caller>>

-----------------------------------------------------------------------------
(* Manager.Stop: cancel first, then take mu and signal every registered    *)
(* run. Called by the API, by the signal handler, and by run() on quit.    *)


\* stopAllLocked.
Sweep == /\ LockFree
         /\ life' = Signalled({r \in Runs : Registered(r)})
         /\ swept' = TRUE

StopCancels ==
  /\ Open
  /\ stop = "idle"
  /\ stop' = "sweep"
  /\ cancelled' = TRUE
  /\ UNCHANGED <<mainVars, swept, processes, runVars, startupVars, starter, waiter, caller>>

StopSweeps ==
  /\ Up
  /\ stop = "sweep"
  /\ stop' = "idle"
  /\ Sweep
  /\ UNCHANGED <<mainVars, cancelled, processes, owner, lost, startupVars, starter, waiter, caller>>

QuitCancels ==
  /\ main = "tui"
  /\ main' = "quitting"
  /\ cancelled' = TRUE
  /\ UNCHANGED <<next, hasRecurring, swept, stop, processes, runVars, startupVars,
                 starter, waiter, caller>>

QuitSweeps ==
  /\ main = "quitting"
  /\ main' = "launch"
  /\ Sweep
  /\ UNCHANGED <<next, hasRecurring, cancelled, stop, processes, owner, lost, startupVars,
                 starter, waiter, caller>>

-----------------------------------------------------------------------------
(* The goroutine Start launches for a gated or a recurring process.        *)

\* How a starter's loop goes on once its dependencies are ready.
AfterDeps(p) == IF p \in Recurring THEN "tick" ELSE "check"

Dep(p) == DependsOn[p][starter[p].dep]

\* Mutant of LastDep: off by one.
LastDepEarly(p) == starter[p].dep + 1 >= Len(DependsOn[p])

LastDep(p) == starter[p].dep = Len(DependsOn[p])

\* awaitService: the first process to need a service launches its check.
AwaitService(p) ==
  /\ Up
  /\ starter[p].pc = "await"
  /\ Dep(p) \in Services \ checked
  /\ checked' = checked \cup {Dep(p)}
  /\ UNCHANGED <<mainVars, stopVars, processes, runVars, ready, pending, blocked, halted,
                 starter, waiter, caller>>

\* awaitDependencies: this dependency is ready, on to the next. A recurring
\* process is settled after its last; a gated one when it has been started.
DependencyReady(p) ==
  /\ Up
  /\ starter[p].pc = "await"
  /\ Dep(p) \notin Services \ checked
  /\ ready[Dep(p)] = "ready"
  /\ starter' = [starter EXCEPT ![p].pc = IF LastDep(p) THEN AfterDeps(p) ELSE "await",
                                ![p].dep = IF LastDep(p) THEN @ ELSE @ + 1]
  /\ IF LastDep(p) /\ p \in Recurring THEN Settle(p) ELSE UNCHANGED pending
  /\ UNCHANGED <<mainVars, stopVars, processes, runVars, ready, checked, blocked, halted,
                 waiter, caller>>

\* awaitDependencies: the other arms of the select. With several of them
\* ready Go picks any.
AwaitFails(p) ==
  /\ Up
  /\ starter[p].pc = "await"
  /\ Dep(p) \notin Services \ checked
  /\ ready[Dep(p)] = "failed" \/ halted \/ cancelled
  /\ starter' = [starter EXCEPT ![p].pc = "done"]
  /\ IF cancelled THEN UNCHANGED startupVars
     ELSE Halt /\ UNCHANGED <<ready, checked>>
  /\ UNCHANGED <<mainVars, stopVars, processes, runVars, waiter, caller>>

\* gate: Restart can have started it already.
GateChecks(p) ==
  /\ Up
  /\ LockFree
  /\ starter[p].pc = "check"
  /\ IF processes[p] # NoRun
       THEN /\ Settle(p)
            /\ starter' = [starter EXCEPT ![p].pc = "done"]
       ELSE /\ starter' = [starter EXCEPT ![p].pc = "fork"]
            /\ UNCHANGED pending
  /\ UNCHANGED <<mainVars, stopVars, processes, runVars, ready, checked, blocked, halted,
                 waiter, caller>>

\* The fork of a gate, and of a tick unless the manager has been stopped.
StarterForks(p) ==
  /\ Up
  /\ starter[p].pc = "fork" \/ (starter[p].pc = "tick" /\ ~cancelled)
  /\ \E r \in Runs : /\ Fork(p, r)
                     /\ starter' = [starter EXCEPT ![p].pc = "adopt", ![p].run = r]
  /\ UNCHANGED <<mainVars, stopVars, processes, startupVars, waiter, caller>>

\* A gated process that cannot be started is blocked and stops startup.
GateForkFails(p) ==
  /\ Up
  /\ starter[p].pc = "fork"
  /\ ready' = Decided(p, "failed")
  /\ halted' = TRUE
  /\ LET unsettled == pending \cap ({p} \cup IF halted THEN {} ELSE pending)
     IN /\ pending' = pending \ unsettled
        /\ blocked' = blocked \cup unsettled
  /\ starter' = [starter EXCEPT ![p].pc = "done"]
  /\ UNCHANGED <<mainVars, stopVars, processes, runVars, checked, waiter, caller>>

StarterAdopts(p) ==
  /\ Up
  /\ LockFree
  /\ starter[p].pc = "adopt"
  /\ ~AdoptRefuses
  /\ processes' = [processes EXCEPT ![p] = starter[p].run]
  /\ starter' = [starter EXCEPT ![p].pc = IF p \in Recurring THEN "run" ELSE "settle"]
  /\ UNCHANGED <<mainVars, stopVars, runVars, startupVars, waiter, caller>>

GateSettles(p) ==
  /\ Up
  /\ starter[p].pc = "settle"
  /\ Settle(p)
  /\ CheckHealth(p)
  /\ starter' = [starter EXCEPT ![p].pc = "done", ![p].run = NoRun]
  /\ UNCHANGED <<mainVars, stopVars, processes, runVars, blocked, halted, waiter, caller>>

\* adopt refuses: discard stops the run and waits for it.
StarterDiscards(p) ==
  /\ Up
  /\ LockFree
  /\ starter[p].pc = "adopt"
  /\ AdoptRefuses
  /\ starter' = [starter EXCEPT ![p].pc = "discard"]
  /\ UNCHANGED <<mainVars, stopVars, processes, runVars, startupVars, waiter, caller>>

StarterStops(p) ==
  /\ Up
  /\ starter[p].pc = "discard"
  /\ life' = Signalled({starter[p].run})
  /\ starter' = [starter EXCEPT ![p].pc = "reap"]
  /\ UNCHANGED <<mainVars, stopVars, processes, owner, lost, startupVars, waiter, caller>>

\* A recurring run is over, or a refused one has been reaped. A recurring
\* starter goes back to its ticker, which ends it once the manager is stopped.
StarterReaps(p) ==
  /\ Up
  /\ starter[p].pc \in {"run", "reap"}
  /\ Reap(starter[p].run)
  /\ starter' = [starter EXCEPT ![p].pc = IF p \in Recurring THEN "tick" ELSE "done",
                                ![p].run = NoRun]
  /\ UNCHANGED <<mainVars, stopVars, processes, startupVars, waiter, caller>>

TickerEnds(p) ==
  /\ Up
  /\ starter[p].pc = "tick"
  /\ cancelled
  /\ starter' = [starter EXCEPT ![p].pc = "done"]
  /\ UNCHANGED <<mainVars, stopVars, processes, runVars, startupVars, waiter, caller>>

-----------------------------------------------------------------------------
(* Manager.Wait, called by run() when it is headless, and otherwise only   *)
(* after the TUI has quit and Stop has returned.                           *)


\* Those started, and those that a gate will start.
Known == {p \in Procs : processes[p] # NoRun \/ Gated(p)}

WaitBegins ==
  /\ main = "launch"
  /\ main' = "waiting"
  /\ hasRecurring' = (Known \cap Recurring # {})
  /\ waiter' = [p \in Procs |->
       IF p \in Known \ Recurring
         THEN [waiter[p] EXCEPT !.pc = IF Gated(p) THEN "gate" ELSE "read"]
         ELSE waiter[p]]
  /\ UNCHANGED <<next, stopVars, processes, runVars, startupVars, starter, caller>>

\* Mutant of WaitersDone: the first waiter to end.
OneWaiterDone == \E p \in Procs : waiter[p].pc \in {"off", "done"}

WaitersDone == \A p \in Procs : waiter[p].pc \in {"off", "done"}

\* wg.Wait, then ctx.Done when there are recurring processes; run() exits.
WaitReturns ==
  /\ main = "waiting"
  /\ WaitersDone
  /\ hasRecurring => cancelled
  /\ main' = "exited"
  /\ UNCHANGED <<next, hasRecurring, stopVars, processes, runVars, startupVars,
                 starter, waiter, caller>>

\* awaitStarted: the gate is settled, or the manager is stopped.
WaiterPassesGate(p) ==
  /\ Up
  /\ waiter[p].pc = "gate"
  /\ \/ /\ p \notin pending
        /\ waiter' = [waiter EXCEPT ![p].pc = IF p \in blocked THEN "done" ELSE "read"]
     \/ /\ cancelled
        /\ waiter' = [waiter EXCEPT ![p].pc = "done"]
  /\ UNCHANGED <<mainVars, stopVars, processes, runVars, startupVars, starter, caller>>

WaiterReads(p) ==
  /\ Up
  /\ LockFree
  /\ waiter[p].pc = "read"
  /\ waiter' = [waiter EXCEPT ![p].pc = IF Existing(p) = NoRun THEN "done" ELSE "wait",
                              ![p].run = Existing(p)]
  /\ UNCHANGED <<mainVars, stopVars, processes, runVars, startupVars, starter, caller>>

\* The run is over. It crashed if its exit code is not zero, which is also
\* the code of a run killed by a signal.
WaiterReaps(p) ==
  /\ Up
  /\ waiter[p].pc = "wait"
  /\ Reap(waiter[p].run)
  /\ \E crashed \in BOOLEAN :
       waiter' = [waiter EXCEPT
                    ![p].pc = IF ~cancelled /\ p \in RestartOnCrash /\ crashed THEN "fork" ELSE "done",
                    ![p].run = NoRun]
  /\ UNCHANGED <<mainVars, stopVars, processes, startupVars, starter, caller>>

WaiterForks(p) ==
  /\ Up
  /\ waiter[p].pc = "fork"
  /\ \E r \in Runs : /\ Fork(p, r)
                     /\ waiter' = [waiter EXCEPT ![p].pc = "adopt", ![p].run = r]
  /\ UNCHANGED <<mainVars, stopVars, processes, startupVars, starter, caller>>

WaiterForkFails(p) ==
  /\ Up
  /\ waiter[p].pc = "fork"
  /\ waiter' = [waiter EXCEPT ![p].pc = "done"]
  /\ UNCHANGED <<mainVars, stopVars, processes, runVars, startupVars, starter, caller>>

WaiterAdopts(p) ==
  /\ Up
  /\ LockFree
  /\ waiter[p].pc = "adopt"
  /\ ~AdoptRefuses
  /\ processes' = [processes EXCEPT ![p] = waiter[p].run]
  /\ waiter' = [waiter EXCEPT ![p].pc = "read", ![p].run = NoRun]
  /\ UNCHANGED <<mainVars, stopVars, runVars, startupVars, starter, caller>>

WaiterDiscards(p) ==
  /\ Up
  /\ LockFree
  /\ waiter[p].pc = "adopt"
  /\ AdoptRefuses
  /\ waiter' = [waiter EXCEPT ![p].pc = "discard"]
  /\ UNCHANGED <<mainVars, stopVars, processes, runVars, startupVars, starter, caller>>

WaiterStops(p) ==
  /\ Up
  /\ waiter[p].pc = "discard"
  /\ life' = Signalled({waiter[p].run})
  /\ waiter' = [waiter EXCEPT ![p].pc = "reap"]
  /\ UNCHANGED <<mainVars, stopVars, processes, owner, lost, startupVars, starter, caller>>

WaiterEnds(p) ==
  /\ Up
  /\ waiter[p].pc = "reap"
  /\ Reap(waiter[p].run)
  /\ waiter' = [waiter EXCEPT ![p].pc = "done", ![p].run = NoRun]
  /\ UNCHANGED <<mainVars, stopVars, processes, startupVars, starter, caller>>

-----------------------------------------------------------------------------
(* Manager.Restart                                                         *)

RestartCalled(c) ==
  /\ Open
  /\ caller[c].pc = "idle"
  /\ ~cancelled
  /\ \E p \in Restartable : caller' = [caller EXCEPT ![c].pc = "take", ![c].proc = p]
  /\ UNCHANGED <<mainVars, stopVars, processes, runVars, startupVars, starter, waiter>>

\* The entry is removed from the map under the lock.
RestartTakes(c) ==
  /\ Up
  /\ LockFree
  /\ caller[c].pc = "take"
  /\ LET existing == Existing(caller[c].proc)
     IN caller' = [caller EXCEPT ![c].pc = IF existing = NoRun THEN "fork" ELSE "stop",
                                 ![c].run = existing]
  /\ processes' = [processes EXCEPT ![caller[c].proc] = NoRun]
  /\ UNCHANGED <<mainVars, stopVars, runVars, startupVars, starter, waiter>>

\* existing.Stop, and the Stop of discard.
RestartStops(c) ==
  /\ Up
  /\ caller[c].pc \in {"stop", "discard"}
  /\ life' = Signalled({caller[c].run})
  /\ caller' = [caller EXCEPT ![c].pc = IF @ = "stop" THEN "join" ELSE "reap"]
  /\ UNCHANGED <<mainVars, stopVars, processes, owner, lost, startupVars, starter, waiter>>

\* existing.Wait, and the Wait of discard.
RestartJoins(c) ==
  /\ Up
  /\ caller[c].pc \in {"join", "reap"}
  /\ Reap(caller[c].run)
  /\ caller' = [caller EXCEPT ![c].pc = IF @ = "join" THEN "fork" ELSE "idle",
                              ![c].proc = IF caller[c].pc = "join" THEN @ ELSE NoProc,
                              ![c].run = NoRun]
  /\ UNCHANGED <<mainVars, stopVars, processes, startupVars, starter, waiter>>

RestartForks(c) ==
  /\ Up
  /\ caller[c].pc = "fork"
  /\ \E r \in Runs : /\ Fork(caller[c].proc, r)
                     /\ caller' = [caller EXCEPT ![c].pc = "adopt", ![c].run = r]
  /\ UNCHANGED <<mainVars, stopVars, processes, startupVars, starter, waiter>>

RestartForkFails(c) ==
  /\ Up
  /\ caller[c].pc = "fork"
  /\ caller' = [caller EXCEPT ![c].pc = "idle", ![c].proc = NoProc]
  /\ UNCHANGED <<mainVars, stopVars, processes, runVars, startupVars, starter, waiter>>

RestartAdopts(c) ==
  /\ Up
  /\ LockFree
  /\ caller[c].pc = "adopt"
  /\ ~AdoptRefuses
  /\ processes' = [processes EXCEPT ![caller[c].proc] = caller[c].run]
  /\ caller' = [caller EXCEPT ![c].pc = "mark", ![c].run = NoRun]
  /\ UNCHANGED <<mainVars, stopVars, runVars, startupVars, starter, waiter>>

RestartDiscards(c) ==
  /\ Up
  /\ LockFree
  /\ caller[c].pc = "adopt"
  /\ AdoptRefuses
  /\ caller' = [caller EXCEPT ![c].pc = "discard"]
  /\ UNCHANGED <<mainVars, stopVars, processes, runVars, startupVars, starter, waiter>>

\* startup.started, then checkHealth: a restart does not wait for dependencies.
RestartMarks(c) ==
  /\ Up
  /\ caller[c].pc = "mark"
  /\ Settle(caller[c].proc)
  /\ blocked' = blocked \ {caller[c].proc}
  /\ CheckHealth(caller[c].proc)
  /\ caller' = [caller EXCEPT ![c].pc = "idle", ![c].proc = NoProc]
  /\ UNCHANGED <<mainVars, stopVars, processes, runVars, halted, starter, waiter>>

-----------------------------------------------------------------------------
Init ==
  /\ main = "serving"
  /\ next = 1
  /\ cancelled = FALSE
  /\ swept = FALSE
  /\ stop = "idle"
  /\ hasRecurring = FALSE
  /\ processes = [p \in Procs |-> NoRun]
  /\ life = [r \in Runs |-> "free"]
  /\ owner = [r \in Runs |-> NoProc]
  /\ lost = {}
  /\ ready = [d \in Deps |-> "undecided"]
  /\ checked = {}
  /\ pending = {p \in Procs : Gated(p)}
  /\ blocked = {}
  /\ halted = FALSE
  /\ starter = [p \in Procs |-> [pc |-> "off", dep |-> 1, run |-> NoRun]]
  /\ waiter = [p \in Procs |-> [pc |-> "off", run |-> NoRun]]
  /\ caller = [c \in Callers |-> [pc |-> "idle", proc |-> NoProc, run |-> NoRun]]

Main == \/ StartBegins \/ StartEnds \/ FailedStartExits
        \/ \E p \in Procs : StartRecurring(p) \/ StartGated(p) \/ StartPlain(p) \/ StartFails(p)
        \/ QuitSweeps \/ WaitBegins \/ WaitReturns

StarterStep(p) ==
  \/ AwaitService(p) \/ DependencyReady(p) \/ AwaitFails(p) \/ GateChecks(p)
  \/ StarterForks(p) \/ GateForkFails(p) \/ StarterAdopts(p) \/ GateSettles(p)
  \/ StarterDiscards(p) \/ StarterStops(p) \/ StarterReaps(p) \/ TickerEnds(p)

WaiterStep(p) ==
  \/ WaiterPassesGate(p) \/ WaiterReads(p) \/ WaiterReaps(p) \/ WaiterForks(p)
  \/ WaiterForkFails(p) \/ WaiterAdopts(p) \/ WaiterDiscards(p) \/ WaiterStops(p)
  \/ WaiterEnds(p)

RestartStep(c) ==
  \/ RestartTakes(c) \/ RestartStops(c) \/ RestartJoins(c) \/ RestartForks(c)
  \/ RestartForkFails(c) \/ RestartAdopts(c) \/ RestartDiscards(c) \/ RestartMarks(c)

\* Nothing is left to do once run() has exited and every OS process is over.
Over == /\ main = "exited"
        /\ \A r \in Runs : ~Running(r)
        /\ UNCHANGED vars

Next == \/ Main \/ QuitCancels \/ StopCancels \/ StopSweeps
        \/ \E p \in Procs : StarterStep(p) \/ WaiterStep(p)
        \/ \E c \in Callers : RestartCalled(c) \/ RestartStep(c)
        \/ \E d \in Deps : HealthDecides(d)
        \/ \E r \in Runs : Exit(r)
        \/ Over

Spec == Init /\ [][Next]_vars

(* Fairness: the Go scheduler runs every goroutine that can go on, a       *)
(* healthcheck has a timeout, and a signalled OS process dies because      *)
(* SIGKILL follows. Nobody has to quit, call Stop or Restart, and a run    *)
(* nobody has signalled may go on for ever.                                *)
Fairness ==
  /\ WF_vars(Main)
  /\ WF_vars(StopSweeps)
  /\ \A p \in Procs : WF_vars(StarterStep(p)) /\ WF_vars(WaiterStep(p))
  /\ \A c \in Callers : WF_vars(RestartStep(c))
  /\ \A d \in HasCheck \cup Services : WF_vars(HealthDecides(d))
  /\ \A r \in Runs : WF_vars(life[r] = "signalled" /\ Exit(r))

FairSpec == Spec /\ Fairness

-----------------------------------------------------------------------------
StarterPC == {"off", "await", "check", "fork", "adopt", "settle", "discard", "reap",
              "run", "tick", "done"}
WaiterPC  == {"off", "gate", "read", "wait", "fork", "adopt", "discard", "reap", "done"}
CallerPC  == {"idle", "take", "stop", "join", "fork", "adopt", "mark", "discard", "reap"}

MainType ==
  /\ main \in {"serving", "start", "tui", "quitting", "launch", "waiting", "failed", "exited"}
  /\ next \in Nat
  /\ stop \in {"idle", "sweep"}
  /\ cancelled \in BOOLEAN
  /\ swept \in BOOLEAN
  /\ hasRecurring \in BOOLEAN

ProcessesType == processes \in [Procs -> Runs \cup {NoRun, Placeholder}]

RunType == /\ life \in [Runs -> {"free", "alive", "signalled", "exited"}]
           /\ owner \in [Runs -> Procs \cup {NoProc}]
           /\ lost \subseteq Runs \cup {NoRun}

StartupType ==
  /\ ready \in [Deps -> {"undecided", "ready", "failed"}]
  /\ checked \subseteq Deps
  /\ pending \subseteq Procs
  /\ blocked \subseteq Procs
  /\ halted \in BOOLEAN

StarterType == starter \in [Procs -> [pc : StarterPC, dep : Nat, run : Runs \cup {NoRun}]]
WaiterType  == waiter \in [Procs -> [pc : WaiterPC, run : Runs \cup {NoRun}]]
CallerType  == caller \in [Callers -> [pc : CallerPC, proc : Procs \cup {NoProc},
                                      run : Runs \cup {NoRun}]]

\* Every variable has the values its Go counterpart can have.
TypeOK == /\ MainType
          /\ ProcessesType
          /\ RunType
          /\ StartupType
          /\ StarterType
          /\ WaiterType
          /\ CallerType

\* A run of p and whatever else is running for p are the same.
Single(P) ==
  \A r, s \in Runs : Running(r) /\ Running(s) /\ owner[r] = owner[s] /\ owner[r] \in P => r = s

\* A goroutine that holds r will stop it before it ends.
InHand(r) ==
  \/ \E p \in Procs : \/ starter[p].run = r /\ starter[p].pc \in {"adopt", "discard"}
                      \/ waiter[p].run = r /\ waiter[p].pc \in {"adopt", "discard"}
  \/ \E c \in Callers : caller[c].run = r /\ caller[c].pc \in {"stop", "adopt", "discard"}

Stopped(P) == swept => \A r \in Runs : life[r] = "alive" /\ owner[r] \in P => InHand(r)

\* The processes that Restart and a goroutine of the manager may both start,
\* or two callers of Restart.
Rivals == \E c, d \in Callers : c # d
Contended == {p \in Restartable : Rivals \/ Gated(p) \/ p \in Recurring \cup RestartOnCrash}

\* A process never has two OS processes at once. Start, a gate, a ticker, a
\* waiter and Restart all fork; nothing but their order keeps them apart.
SingleRun == Single(Procs)

\* What adopt is for: once Stop has swept, a run is either signalled or in
\* the hands of a goroutine that is going to find the context cancelled.
SweptRunsStop == Stopped(Procs)

\* Restart keeps both promises for every process that it alone starts again.
RestartKeepsSingle == Single(Procs \ Contended)
RestartKeepsStopped == Stopped(Procs \ Contended)

\* Every run the manager still knows of after the sweep has been signalled.
RegisteredRunsSwept ==
  swept => \A p \in Procs : processes[p] \in Runs => life[processes[p]] # "alive"

\* A process that is running and that nobody restarts by hand has had every
\* one of its dependencies decided ready.
RunsOnlyWhenReady ==
  \A r \in Runs : Running(r) /\ owner[r] \in Procs \ Restartable =>
    \A i \in DOMAIN DependsOn[owner[r]] : ready[DependsOn[owner[r]][i]] = "ready"

\* The processes whose every run is started by Start, a waiter or Restart.
Plain == {p \in Procs : ~Gated(p)} \ Recurring

\* No plain process that Running Man started outlives it unsignalled, and
\* Manager.Wait "waits for all processes to complete": when nobody has called
\* Stop, it returns with no run of a plain process left.
ExitLeavesNoRun ==
  main = "exited" => \A r \in Runs : owner[r] \in Plain => life[r] # "alive" /\ (cancelled \/ ~Running(r))

\* After the user quits the TUI, run() returns, and every run the manager
\* knows of is over.
QuitEnds ==
  main = "quitting" ~> main = "exited" /\ \A p \in Procs : Existing(p) # NoRun => ~Running(Existing(p))

\* A process waiting for dependencies is started or blocked, unless the
\* manager is stopped first.
GatesSettle == \A p \in Procs : p \in pending ~> p \notin pending \/ cancelled

\* The exit of a process is noticed: it is reaped, so that its status is no
\* longer running, its failure is reported and restart_on_crash can act. Not so
\* for a process that startup has marked blocked while its gate was starting it.
Unnoticed(p) == processes[p] \in Runs /\ life[processes[p]] = "exited"
ExitsAreNoticed == \A p \in Procs : Unnoticed(p) ~> ~Unnoticed(p) \/ cancelled \/ p \in blocked

\* Somebody will wait for the run of p that is registered: Manager.Wait has yet
\* to look for waiters, or p's waiter or ticker is on its way to this run.
Awaited(p) ==
  \/ main \in {"serving", "start", "launch"}
  \/ waiter[p].pc \in {"gate", "read"}
  \/ waiter[p].pc = "wait" /\ waiter[p].run = processes[p]
  \/ starter[p].run = processes[p]


\* "A process blocked by a failed dependency never ran: it failed" (ExitCodes).
BlockedNeverRan == \A p \in blocked : processes[p] = NoRun

\* startup.go implements StartupContract.
StartupStatus(p) == IF ~Gated(p) THEN "free"
                    ELSE IF p \in pending THEN "waiting"
                    ELSE IF p \in blocked THEN "blocked" ELSE "started"

Contract == INSTANCE StartupContract
              WITH outcome <- ready, status <- [p \in Procs |-> StartupStatus(p)]

ImplementsContract == Contract!Spec

=============================================================================
