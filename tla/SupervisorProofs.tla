-------------------------- MODULE SupervisorProofs --------------------------
(***************************************************************************)
(* Theorems about Supervisor, for every configuration of processes,        *)
(* services, callers and runs: types, what Stop has signalled, what runs   *)
(* when during dependency-ordered startup, that Supervisor implements      *)
(* StartupContract, and that what one goroutine at a time starts never     *)
(* runs twice and is not left running.                                     *)
(***************************************************************************)
EXTENDS Supervisor, TLAPS

-----------------------------------------------------------------------------
(* Type correctness. It is inductive once one knows that a goroutine in    *)
(* Restart has the name of a process that may be restarted.                *)

CallersNameProcesses ==
  \A c \in Callers : caller[c].pc # "idle" => caller[c].proc \in Restartable

Typed == TypeOK /\ CallersNameProcesses

LEMMA InitTyped == Init => Typed
<1> SUFFICES ASSUME Init PROVE Typed
  OBVIOUS
<1> USE DEF Init
<1>1. MainType /\ ProcessesType /\ RunType
  BY DEF MainType, ProcessesType, RunType
<1>2. StartupType
  BY DEF StartupType, Deps
<1>3. StarterType
  BY DEF StarterType, StarterPC
<1>4. WaiterType /\ CallerType
  BY DEF WaiterType, WaiterPC, CallerType, CallerPC
<1>5. CallersNameProcesses
  BY DEF CallersNameProcesses
<1> QED
  BY <1>1, <1>2, <1>3, <1>4, <1>5 DEF Typed, TypeOK

\* Forking and reaping a run, whoever does it.
LEMMA ForkTyped ==
  ASSUME RunType, NEW p \in Procs \cup {NoProc}, NEW r \in Runs, Fork(p, r)
  PROVE  RunType'
BY DEF RunType, Fork

LEMMA ReapTyped ==
  ASSUME RunType, NEW r \in Runs \cup {NoRun}, Reap(r)
  PROVE  RunType'
BY DEF RunType, Reap

LEMMA SignalledTyped ==
  ASSUME RunType, NEW S, life' = Signalled(S), UNCHANGED <<owner, lost>>
  PROVE  RunType'
BY DEF RunType, Signalled

LEMMA DecidedTyped ==
  ASSUME StartupType, NEW d \in Deps, NEW outcome \in {"ready", "failed"}
  PROVE  Decided(d, outcome) \in [Deps -> {"undecided", "ready", "failed"}]
BY DEF StartupType, Decided

LEMMA CheckHealthTyped ==
  ASSUME StartupType, NEW p \in Procs, CheckHealth(p)
  PROVE  /\ ready' \in [Deps -> {"undecided", "ready", "failed"}]
         /\ checked' \subseteq Deps
<1>1. p \in Deps
  BY DEF Deps
<1> QED
  BY <1>1, DecidedTyped DEF StartupType, CheckHealth

LEMMA MainTyped == ASSUME Typed, Main PROVE Typed'
<1> USE DEF Typed, CallersNameProcesses, TypeOK, mainVars, stopVars, runVars, startupVars
<1>1. CASE StartBegins
  BY <1>1 DEF StartBegins, MainType, ProcessesType, RunType, StartupType, StarterType,
              WaiterType, CallerType
<1>2. CASE StartEnds
  BY <1>2 DEF StartEnds, MainType, ProcessesType, RunType, StartupType, StarterType,
              WaiterType, CallerType
<1>3. CASE FailedStartExits
  BY <1>3 DEF FailedStartExits, MainType, ProcessesType, RunType, StartupType, StarterType,
              WaiterType, CallerType
<1>4. ASSUME NEW p \in Procs, StartRecurring(p) PROVE Typed'
  <2>1. MainType' /\ ProcessesType'
    BY <1>4 DEF StartRecurring, Starting, MainType, ProcessesType
  <2>2. StarterType'
    BY <1>4 DEF StartRecurring, StarterType, StarterPC
  <2> QED
    BY <1>4, <2>1, <2>2 DEF StartRecurring, RunType, StartupType, WaiterType, CallerType
<1>5. ASSUME NEW p \in Procs, StartGated(p) PROVE Typed'
  <2>1. MainType'
    BY <1>5 DEF StartGated, Starting, MainType
  <2>2. StarterType'
    BY <1>5 DEF StartGated, StarterType, StarterPC
  <2> QED
    BY <1>5, <2>1, <2>2
       DEF StartGated, ProcessesType, RunType, StartupType, WaiterType, CallerType
<1>6. ASSUME NEW p \in Procs, StartPlain(p) PROVE Typed'
  <2>1. MainType'
    BY <1>6 DEF StartPlain, Starting, MainType
  <2>2. RunType' /\ ProcessesType'
    BY <1>6, ForkTyped DEF StartPlain, ProcessesType
  <2>3. StartupType'
    BY <1>6, CheckHealthTyped DEF StartPlain, StartupType
  <2> QED
    BY <1>6, <2>1, <2>2, <2>3 DEF StartPlain, StarterType, WaiterType, CallerType
<1>7. ASSUME NEW p \in Procs, StartFails(p) PROVE Typed'
  <2>1. MainType' /\ ProcessesType'
    BY <1>7 DEF StartFails, Starting, MainType, ProcessesType
  <2>2. RunType'
    BY <1>7, SignalledTyped DEF StartFails
  <2> QED
    BY <1>7, <2>1, <2>2 DEF StartFails, StartupType, StarterType, WaiterType, CallerType
<1>8. CASE QuitSweeps
  <2>1. RunType'
    BY <1>8, SignalledTyped DEF QuitSweeps, Sweep
  <2> QED
    BY <1>8, <2>1 DEF QuitSweeps, Sweep, MainType, ProcessesType, StartupType, StarterType,
                      WaiterType, CallerType
<1>9. CASE WaitBegins
  <2>1. WaiterType'
    BY <1>9 DEF WaitBegins, WaiterType, WaiterPC
  <2> QED
    BY <1>9, <2>1 DEF WaitBegins, MainType, ProcessesType, RunType, StartupType, StarterType,
                      CallerType
<1>10. CASE WaitReturns
  BY <1>10 DEF WaitReturns, MainType, ProcessesType, RunType, StartupType, StarterType,
               WaiterType, CallerType
<1> QED
  BY <1>1, <1>2, <1>3, <1>4, <1>5, <1>6, <1>7, <1>8, <1>9, <1>10 DEF Main

LEMMA StarterTyped == ASSUME Typed, NEW p \in Procs, StarterStep(p) PROVE Typed'
<1> USE DEF Typed, CallersNameProcesses, TypeOK, mainVars, stopVars, runVars, startupVars
<1>1. CASE AwaitService(p)
  <2>1. StartupType'
    BY <1>1 DEF AwaitService, StartupType, Deps
  <2> QED
    BY <1>1, <2>1
       DEF AwaitService, MainType, ProcessesType, RunType, StarterType, WaiterType, CallerType
<1>2. CASE DependencyReady(p)
  <2>1. StarterType'
    <3> DEFINE pc == IF LastDep(p) THEN AfterDeps(p) ELSE "await"
               dep == IF LastDep(p) THEN starter[p].dep ELSE starter[p].dep + 1
    <3>1. pc \in StarterPC /\ dep \in Nat
      BY <1>2 DEF AfterDeps, StarterType, StarterPC
    <3>2. starter' = [starter EXCEPT ![p].pc = pc, ![p].dep = dep]
      BY <1>2 DEF DependencyReady
    <3> HIDE DEF pc, dep
    <3> QED
      BY <3>1, <3>2 DEF StarterType
  <2>2. StartupType'
    BY <1>2 DEF DependencyReady, Settle, StartupType
  <2> QED
    BY <1>2, <2>1, <2>2
       DEF DependencyReady, MainType, ProcessesType, RunType, WaiterType, CallerType
<1>3. CASE AwaitFails(p)
  <2>1. StarterType'
    BY <1>3 DEF AwaitFails, StarterType, StarterPC
  <2>2. StartupType'
    BY <1>3 DEF AwaitFails, Halt, StartupType
  <2> QED
    BY <1>3, <2>1, <2>2
       DEF AwaitFails, MainType, ProcessesType, RunType, WaiterType, CallerType
<1>4. CASE GateChecks(p)
  <2>1. StarterType'
    BY <1>4 DEF GateChecks, StarterType, StarterPC
  <2>2. StartupType'
    BY <1>4 DEF GateChecks, Settle, StartupType
  <2> QED
    BY <1>4, <2>1, <2>2
       DEF GateChecks, MainType, ProcessesType, RunType, WaiterType, CallerType
<1>5. CASE StarterForks(p)
  <2>1. StarterType'
    BY <1>5 DEF StarterForks, StarterType, StarterPC
  <2>2. RunType'
    BY <1>5, ForkTyped DEF StarterForks
  <2> QED
    BY <1>5, <2>1, <2>2
       DEF StarterForks, MainType, ProcessesType, StartupType, WaiterType, CallerType
<1>6. CASE GateForkFails(p)
  <2>1. StarterType'
    BY <1>6 DEF GateForkFails, StarterType, StarterPC
  <2>2. StartupType'
    BY <1>6, DecidedTyped DEF GateForkFails, StartupType, Deps
  <2> QED
    BY <1>6, <2>1, <2>2
       DEF GateForkFails, MainType, ProcessesType, RunType, WaiterType, CallerType
<1>7. CASE StarterAdopts(p)
  <2>1. StarterType'
    BY <1>7 DEF StarterAdopts, StarterType, StarterPC
  <2>2. ProcessesType'
    BY <1>7 DEF StarterAdopts, ProcessesType, StarterType
  <2> QED
    BY <1>7, <2>1, <2>2
       DEF StarterAdopts, MainType, RunType, StartupType, WaiterType, CallerType
<1>8. CASE GateSettles(p)
  <2>1. StarterType'
    BY <1>8 DEF GateSettles, StarterType, StarterPC
  <2>2. StartupType'
    BY <1>8, CheckHealthTyped DEF GateSettles, Settle, StartupType
  <2> QED
    BY <1>8, <2>1, <2>2
       DEF GateSettles, MainType, ProcessesType, RunType, WaiterType, CallerType
<1>9. CASE StarterDiscards(p)
  <2>1. StarterType'
    BY <1>9 DEF StarterDiscards, StarterType, StarterPC
  <2> QED
    BY <1>9, <2>1
       DEF StarterDiscards, MainType, ProcessesType, RunType, StartupType, WaiterType, CallerType
<1>10. CASE StarterStops(p)
  <2>1. StarterType'
    BY <1>10 DEF StarterStops, StarterType, StarterPC
  <2>2. RunType'
    BY <1>10, SignalledTyped DEF StarterStops
  <2> QED
    BY <1>10, <2>1, <2>2
       DEF StarterStops, MainType, ProcessesType, StartupType, WaiterType, CallerType
<1>11. CASE StarterReaps(p)
  <2>1. StarterType'
    <3> DEFINE pc == IF p \in Recurring THEN "tick" ELSE "done"
    <3>1. pc \in StarterPC
      BY <1>11 DEF StarterPC
    <3>2. starter' = [starter EXCEPT ![p].pc = pc, ![p].run = NoRun]
      BY <1>11 DEF StarterReaps
    <3> HIDE DEF pc
    <3> QED
      BY <3>1, <3>2 DEF StarterType
  <2>2. RunType'
    BY <1>11, ReapTyped DEF StarterReaps, StarterType
  <2> QED
    BY <1>11, <2>1, <2>2
       DEF StarterReaps, MainType, ProcessesType, StartupType, WaiterType, CallerType
<1>12. CASE TickerEnds(p)
  <2>1. StarterType'
    BY <1>12 DEF TickerEnds, StarterType, StarterPC
  <2> QED
    BY <1>12, <2>1
       DEF TickerEnds, MainType, ProcessesType, RunType, StartupType, WaiterType, CallerType
<1> QED
  BY <1>1, <1>2, <1>3, <1>4, <1>5, <1>6, <1>7, <1>8, <1>9, <1>10, <1>11, <1>12 DEF StarterStep

LEMMA WaiterTyped == ASSUME Typed, NEW p \in Procs, WaiterStep(p) PROVE Typed'
<1> USE DEF Typed, CallersNameProcesses, TypeOK, mainVars, stopVars, runVars, startupVars
<1>1. CASE WaiterPassesGate(p)
  <2>1. WaiterType'
    BY <1>1 DEF WaiterPassesGate, WaiterType, WaiterPC
  <2> QED
    BY <1>1, <2>1
       DEF WaiterPassesGate, MainType, ProcessesType, RunType, StartupType, StarterType, CallerType
<1>2. CASE WaiterReads(p)
  <2>1. WaiterType'
    <3> DEFINE pc == IF Existing(p) = NoRun THEN "done" ELSE "wait"
               run == Existing(p)
    <3>1. pc \in WaiterPC /\ run \in Runs \cup {NoRun}
      BY <1>2 DEF WaiterPC, Existing
    <3>2. waiter' = [waiter EXCEPT ![p].pc = pc, ![p].run = run]
      BY <1>2 DEF WaiterReads
    <3> HIDE DEF pc, run
    <3> QED
      BY <3>1, <3>2 DEF WaiterType
  <2> QED
    BY <1>2, <2>1
       DEF WaiterReads, MainType, ProcessesType, RunType, StartupType, StarterType, CallerType
<1>3. CASE WaiterReaps(p)
  <2>1. WaiterType'
    <3>1. PICK crashed \in BOOLEAN :
            waiter' = [waiter EXCEPT
              ![p].pc = IF ~cancelled /\ p \in RestartOnCrash /\ crashed THEN "fork" ELSE "done",
              ![p].run = NoRun]
      BY <1>3 DEF WaiterReaps
    <3> DEFINE pc == IF ~cancelled /\ p \in RestartOnCrash /\ crashed THEN "fork" ELSE "done"
    <3>2. pc \in WaiterPC
      BY DEF WaiterPC
    <3>3. waiter' = [waiter EXCEPT ![p].pc = pc, ![p].run = NoRun]
      BY <3>1
    <3> HIDE DEF pc
    <3> QED
      BY <3>2, <3>3 DEF WaiterType
  <2>2. RunType'
    BY <1>3, ReapTyped DEF WaiterReaps, WaiterType
  <2> QED
    BY <1>3, <2>1, <2>2
       DEF WaiterReaps, MainType, ProcessesType, StartupType, StarterType, CallerType
<1>4. CASE WaiterForks(p)
  <2>1. WaiterType'
    BY <1>4 DEF WaiterForks, WaiterType, WaiterPC
  <2>2. RunType'
    BY <1>4, ForkTyped DEF WaiterForks
  <2> QED
    BY <1>4, <2>1, <2>2
       DEF WaiterForks, MainType, ProcessesType, StartupType, StarterType, CallerType
<1>5. CASE WaiterForkFails(p)
  <2>1. WaiterType'
    BY <1>5 DEF WaiterForkFails, WaiterType, WaiterPC
  <2> QED
    BY <1>5, <2>1
       DEF WaiterForkFails, MainType, ProcessesType, RunType, StartupType, StarterType, CallerType
<1>6. CASE WaiterAdopts(p)
  <2>1. WaiterType'
    BY <1>6 DEF WaiterAdopts, WaiterType, WaiterPC
  <2>2. ProcessesType'
    BY <1>6 DEF WaiterAdopts, ProcessesType, WaiterType
  <2> QED
    BY <1>6, <2>1, <2>2
       DEF WaiterAdopts, MainType, RunType, StartupType, StarterType, CallerType
<1>7. CASE WaiterDiscards(p)
  <2>1. WaiterType'
    BY <1>7 DEF WaiterDiscards, WaiterType, WaiterPC
  <2> QED
    BY <1>7, <2>1
       DEF WaiterDiscards, MainType, ProcessesType, RunType, StartupType, StarterType, CallerType
<1>8. CASE WaiterStops(p)
  <2>1. WaiterType'
    BY <1>8 DEF WaiterStops, WaiterType, WaiterPC
  <2>2. RunType'
    BY <1>8, SignalledTyped DEF WaiterStops
  <2> QED
    BY <1>8, <2>1, <2>2
       DEF WaiterStops, MainType, ProcessesType, StartupType, StarterType, CallerType
<1>9. CASE WaiterEnds(p)
  <2>1. WaiterType'
    BY <1>9 DEF WaiterEnds, WaiterType, WaiterPC
  <2>2. RunType'
    BY <1>9, ReapTyped DEF WaiterEnds, WaiterType
  <2> QED
    BY <1>9, <2>1, <2>2
       DEF WaiterEnds, MainType, ProcessesType, StartupType, StarterType, CallerType
<1> QED
  BY <1>1, <1>2, <1>3, <1>4, <1>5, <1>6, <1>7, <1>8, <1>9 DEF WaiterStep

LEMMA RestartCallers ==
  ASSUME CallerType, CallersNameProcesses, NEW c \in Callers,
         RestartCalled(c) \/ RestartStep(c)
  PROVE  CallerType' /\ CallersNameProcesses'
<1>1. CASE RestartCalled(c)
  <2>1. PICK p \in Restartable : caller' = [caller EXCEPT ![c].pc = "take", ![c].proc = p]
    BY <1>1 DEF RestartCalled
  <2>2. p \in Procs
    BY ConfigAssumption DEF ConfigAssumption
  <2>3. CallerType'
    BY <2>1, <2>2 DEF CallerType, CallerPC
  <2>4. CallersNameProcesses'
    BY <2>1 DEF CallerType, CallersNameProcesses
  <2> QED
    BY <2>3, <2>4
<1>2. CASE RestartTakes(c)
  <2> DEFINE run == Existing(caller[c].proc)
             pc == IF run = NoRun THEN "fork" ELSE "stop"
  <2>1. pc \in CallerPC /\ run \in Runs \cup {NoRun} /\ caller[c].pc # "idle"
    BY <1>2 DEF RestartTakes, CallerPC, Existing
  <2>2. caller' = [caller EXCEPT ![c].pc = pc, ![c].run = run]
    BY <1>2 DEF RestartTakes
  <2> HIDE DEF run, pc
  <2>3. CallerType'
    BY <2>1, <2>2 DEF CallerType
  <2>4. CallersNameProcesses'
    BY <2>1, <2>2 DEF CallerType, CallersNameProcesses
  <2> QED
    BY <2>3, <2>4
<1>3. CASE RestartStops(c)
  <2> DEFINE pc == IF caller[c].pc = "stop" THEN "join" ELSE "reap"
  <2>1. pc \in CallerPC /\ caller[c].pc # "idle"
    BY <1>3 DEF RestartStops, CallerPC
  <2>2. caller' = [caller EXCEPT ![c].pc = pc]
    BY <1>3 DEF RestartStops
  <2> HIDE DEF pc
  <2>3. CallerType'
    BY <2>1, <2>2 DEF CallerType
  <2>4. CallersNameProcesses'
    BY <2>1, <2>2 DEF CallerType, CallersNameProcesses
  <2> QED
    BY <2>3, <2>4
<1>4. CASE RestartJoins(c)
  <2> DEFINE pc == IF caller[c].pc = "join" THEN "fork" ELSE "idle"
             proc == IF caller[c].pc = "join" THEN caller[c].proc ELSE NoProc
  <2>1. pc \in CallerPC /\ proc \in Procs \cup {NoProc} /\ (pc # "idle" => proc \in Restartable)
    BY <1>4 DEF RestartJoins, CallerPC, CallerType, CallersNameProcesses
  <2>2. caller' = [caller EXCEPT ![c].pc = pc, ![c].proc = proc, ![c].run = NoRun]
    BY <1>4 DEF RestartJoins
  <2> HIDE DEF pc, proc
  <2>3. CallerType'
    BY <2>1, <2>2 DEF CallerType
  <2>4. CallersNameProcesses'
    BY <2>1, <2>2 DEF CallerType, CallersNameProcesses
  <2> QED
    BY <2>3, <2>4
<1>5. CASE RestartForks(c)
  <2>1. PICK r \in Runs : caller' = [caller EXCEPT ![c].pc = "adopt", ![c].run = r]
    BY <1>5 DEF RestartForks
  <2>2. CallerType'
    BY <2>1 DEF CallerType, CallerPC
  <2>3. CallersNameProcesses'
    BY <1>5, <2>1 DEF RestartForks, CallerType, CallersNameProcesses
  <2> QED
    BY <2>2, <2>3
<1>6. CASE RestartForkFails(c)
  <2>1. CallerType'
    BY <1>6 DEF RestartForkFails, CallerType, CallerPC
  <2>2. CallersNameProcesses'
    BY <1>6 DEF RestartForkFails, CallerType, CallersNameProcesses
  <2> QED
    BY <2>1, <2>2
<1>7. CASE RestartAdopts(c)
  <2>1. CallerType'
    BY <1>7 DEF RestartAdopts, CallerType, CallerPC
  <2>2. CallersNameProcesses'
    BY <1>7 DEF RestartAdopts, CallerType, CallersNameProcesses
  <2> QED
    BY <2>1, <2>2
<1>8. CASE RestartDiscards(c)
  <2>1. CallerType'
    BY <1>8 DEF RestartDiscards, CallerType, CallerPC
  <2>2. CallersNameProcesses'
    BY <1>8 DEF RestartDiscards, CallerType, CallersNameProcesses
  <2> QED
    BY <2>1, <2>2
<1>9. CASE RestartMarks(c)
  <2>1. CallerType'
    BY <1>9 DEF RestartMarks, CallerType, CallerPC
  <2>2. CallersNameProcesses'
    BY <1>9 DEF RestartMarks, CallerType, CallersNameProcesses
  <2> QED
    BY <2>1, <2>2
<1> QED
  BY <1>1, <1>2, <1>3, <1>4, <1>5, <1>6, <1>7, <1>8, <1>9 DEF RestartStep

LEMMA RestartTyped ==
  ASSUME Typed, NEW c \in Callers, RestartCalled(c) \/ RestartStep(c) PROVE Typed'
<1>1. CallerType' /\ CallersNameProcesses'
  BY RestartCallers DEF Typed, TypeOK
<1> USE ConfigAssumption
    DEF ConfigAssumption, Typed, TypeOK, mainVars, stopVars, runVars, startupVars
<1>2. CASE RestartCalled(c)
  BY <1>1, <1>2 DEF RestartCalled, MainType, ProcessesType, RunType, StartupType, StarterType, WaiterType
<1>3. CASE RestartTakes(c)
  <2>1. ProcessesType'
    BY <1>3 DEF RestartTakes, ProcessesType
  <2> QED
    BY <1>1, <1>3, <2>1
       DEF RestartTakes, MainType, RunType, StartupType, StarterType, WaiterType
<1>4. CASE RestartStops(c)
  <2>1. RunType'
    BY <1>4, SignalledTyped DEF RestartStops
  <2> QED
    BY <1>1, <1>4, <2>1
       DEF RestartStops, MainType, ProcessesType, StartupType, StarterType, WaiterType
<1>5. CASE RestartJoins(c)
  <2>1. RunType'
    BY <1>5, ReapTyped DEF RestartJoins, CallerType
  <2> QED
    BY <1>1, <1>5, <2>1
       DEF RestartJoins, MainType, ProcessesType, StartupType, StarterType, WaiterType
<1>6. CASE RestartForks(c)
  <2>1. RunType'
    BY <1>6, ForkTyped DEF RestartForks, CallerType
  <2> QED
    BY <1>1, <1>6, <2>1
       DEF RestartForks, MainType, ProcessesType, StartupType, StarterType, WaiterType
<1>7. CASE RestartForkFails(c)
  BY <1>1, <1>7 DEF RestartForkFails, MainType, ProcessesType, RunType, StartupType, StarterType, WaiterType
<1>8. CASE RestartAdopts(c)
  <2>1. ProcessesType'
    BY <1>8 DEF RestartAdopts, ProcessesType, CallerType
  <2> QED
    BY <1>1, <1>8, <2>1
       DEF RestartAdopts, MainType, RunType, StartupType, StarterType, WaiterType
<1>9. CASE RestartDiscards(c)
  BY <1>1, <1>9 DEF RestartDiscards, MainType, ProcessesType, RunType, StartupType, StarterType, WaiterType
<1>10. CASE RestartMarks(c)
  <2>1. StartupType'
    BY <1>10, CheckHealthTyped DEF RestartMarks, Settle, StartupType, CallersNameProcesses
  <2> QED
    BY <1>1, <1>10, <2>1
       DEF RestartMarks, MainType, ProcessesType, RunType, StarterType, WaiterType
<1> QED
  BY <1>2, <1>3, <1>4, <1>5, <1>6, <1>7, <1>8, <1>9, <1>10 DEF RestartStep

LEMMA StepTyped == Typed /\ [Next]_vars => Typed'
<1> SUFFICES ASSUME Typed, [Next]_vars PROVE Typed'
  OBVIOUS
<1> USE DEF mainVars, stopVars, runVars, startupVars
<1>1. CASE Main
  BY <1>1, MainTyped
<1>2. CASE QuitCancels \/ StopCancels
  BY <1>2 DEF QuitCancels, StopCancels, Typed, CallersNameProcesses, TypeOK,
              MainType, ProcessesType, RunType, StartupType, StarterType, WaiterType, CallerType
<1>3. CASE StopSweeps
  <2>1. RunType'
    BY <1>3, SignalledTyped DEF StopSweeps, Sweep, Typed, TypeOK
  <2> QED
    BY <1>3, <2>1 DEF StopSweeps, Sweep, Typed, CallersNameProcesses, TypeOK,
       MainType, ProcessesType, StartupType, StarterType, WaiterType, CallerType
<1>4. ASSUME NEW p \in Procs, StarterStep(p) PROVE Typed'
  BY <1>4, StarterTyped
<1>5. ASSUME NEW p \in Procs, WaiterStep(p) PROVE Typed'
  BY <1>5, WaiterTyped
<1>6. ASSUME NEW c \in Callers, RestartCalled(c) \/ RestartStep(c) PROVE Typed'
  BY <1>6, RestartTyped
<1>7. ASSUME NEW d \in Deps, HealthDecides(d) PROVE Typed'
  <2>1. StartupType'
    BY <1>7, DecidedTyped DEF HealthDecides, StartupType, Typed, TypeOK
  <2> QED
    BY <1>7, <2>1 DEF HealthDecides, Typed, CallersNameProcesses, TypeOK,
       MainType, ProcessesType, RunType, StarterType, WaiterType, CallerType
<1>8. ASSUME NEW r \in Runs, Exit(r) PROVE Typed'
  BY <1>8 DEF Exit, Typed, CallersNameProcesses, TypeOK,
              MainType, ProcessesType, RunType, StartupType, StarterType, WaiterType, CallerType
<1>9. CASE UNCHANGED vars
  BY <1>9 DEF vars, Typed, CallersNameProcesses, TypeOK,
              MainType, ProcessesType, RunType, StartupType, StarterType, WaiterType, CallerType
<1> QED
  BY <1>1, <1>2, <1>3, <1>4, <1>5, <1>6, <1>7, <1>8, <1>9 DEF Next, Over

\* Every variable of every reachable state has a value its Go counterpart can
\* have; in particular only runs, never a placeholder, are waited for.
THEOREM TypeCorrect == Spec => []TypeOK
<1>1. Typed => TypeOK
  BY DEF Typed
<1> QED
  BY <1>1, InitTyped, StepTyped, PTL DEF Spec

-----------------------------------------------------------------------------
(* The sweep. A run can be registered only by adopt, which refuses once    *)
(* the context is cancelled, and by Start, which is over before the API    *)
(* takes calls: this is where ~EarlyCalls is needed.                       *)

SweepOrder ==
  /\ swept \/ stop = "sweep" => cancelled /\ main \notin {"serving", "start"}
  /\ main = "quitting" => cancelled

SweepInv == SweepOrder /\ RegisteredRunsSwept

LEMMA SignalledIsNotAlive ==
  ASSUME NEW r \in Runs, life' = Signalled({s \in Runs : Registered(s)}), Registered(r)
  PROVE  life'[r] # "alive"
BY DEF Signalled

\* A step that leaves the map alone and makes no run of it alive.
LEMMA NoneAdded ==
  ASSUME RegisteredRunsSwept, swept' = swept, UNCHANGED processes,
         \A r \in Runs : Registered(r) /\ life'[r] = "alive" => life[r] = "alive"
  PROVE  RegisteredRunsSwept'
BY DEF RegisteredRunsSwept, Registered

LEMMA SweepAll ==
  ASSUME ProcessesType, UNCHANGED processes, Sweep
  PROVE  RegisteredRunsSwept'
<1> SUFFICES ASSUME NEW p \in Procs, processes[p] \in Runs PROVE life'[processes[p]] # "alive"
  BY DEF RegisteredRunsSwept
<1> QED
  BY SignalledIsNotAlive DEF Sweep, Registered

LEMMA ForkSwept ==
  ASSUME RunType, RegisteredRunsSwept, NEW p, NEW r \in Runs, Fork(p, r), UNCHANGED <<swept, processes>>
  PROVE  RegisteredRunsSwept'
BY NoneAdded DEF Fork, Fresh, RunType

LEMMA ReapSwept ==
  ASSUME RunType, RegisteredRunsSwept, NEW r, Reap(r), UNCHANGED <<swept, processes>>
  PROVE  RegisteredRunsSwept'
BY NoneAdded DEF Reap, RunType

LEMMA StopSwept ==
  ASSUME RunType, RegisteredRunsSwept, NEW S, life' = Signalled(S), UNCHANGED <<swept, processes>>
  PROVE  RegisteredRunsSwept'
BY NoneAdded DEF Signalled, RunType

\* Nothing is registered after the sweep.
LEMMA AdoptSwept ==
  ASSUME SweepInv, ~AdoptRefuses, UNCHANGED swept
  PROVE  RegisteredRunsSwept'
BY DEF SweepInv, SweepOrder, AdoptRefuses, RegisteredRunsSwept

LEMMA StepSwept ==
  ASSUME ~EarlyCalls, Typed, SweepInv, [Next]_vars PROVE SweepInv'
<1> USE DEF Typed, TypeOK, SweepInv, mainVars, stopVars, runVars, startupVars
<1>1. CASE Main
  <2>1. CASE StartBegins \/ StartEnds \/ FailedStartExits \/ WaitBegins \/ WaitReturns
    BY <2>1 DEF StartBegins, StartEnds, FailedStartExits, WaitBegins, WaitReturns, SweepOrder, RegisteredRunsSwept
  <2>2. ASSUME NEW p \in Procs, StartRecurring(p) \/ StartGated(p) \/ StartPlain(p) PROVE SweepInv'
    <3>1. main = "start" /\ UNCHANGED <<main, swept, cancelled, stop>>
      BY <2>2 DEF StartRecurring, StartGated, StartPlain, Starting
    <3> QED
      BY <3>1 DEF SweepOrder, RegisteredRunsSwept
  <2>3. ASSUME NEW p \in Procs, StartFails(p) PROVE SweepInv'
    <3>1. RegisteredRunsSwept'
      BY <2>3, ConfigAssumption DEF StartFails, RegisteredRunsSwept, ConfigAssumption
    <3> QED
      BY <2>3, <3>1 DEF StartFails, SweepOrder
  <2>4. CASE QuitSweeps
    BY <2>4, SweepAll DEF QuitSweeps, Sweep, SweepOrder
  <2> QED
    BY <1>1, <2>1, <2>2, <2>3, <2>4 DEF Main
<1>2. CASE QuitCancels \/ StopCancels
  BY <1>2 DEF QuitCancels, StopCancels, Open, SweepOrder, RegisteredRunsSwept
<1>3. CASE StopSweeps
  BY <1>3, SweepAll DEF StopSweeps, Sweep, SweepOrder
<1>4. ASSUME NEW p \in Procs, StarterStep(p) PROVE SweepInv'
  <2>1. SweepOrder' /\ UNCHANGED swept
    BY <1>4 DEF StarterStep, AwaitService, DependencyReady, AwaitFails, GateChecks, StarterForks,
         GateForkFails, StarterAdopts, GateSettles, StarterDiscards, StarterStops, StarterReaps,
         TickerEnds, SweepOrder
  <2>2. CASE \/ AwaitService(p) \/ DependencyReady(p) \/ AwaitFails(p) \/ GateChecks(p)
             \/ GateForkFails(p) \/ GateSettles(p) \/ StarterDiscards(p) \/ TickerEnds(p)
    BY <2>1, <2>2 DEF AwaitService, DependencyReady, AwaitFails, GateChecks, GateForkFails,
         GateSettles, StarterDiscards, TickerEnds, RegisteredRunsSwept
  <2>3. CASE StarterForks(p)
    BY <2>1, <2>3, ForkSwept DEF StarterForks
  <2>4. CASE StarterAdopts(p)
    BY <2>1, <2>4, AdoptSwept DEF StarterAdopts
  <2>5. CASE StarterStops(p)
    BY <2>1, <2>5, StopSwept DEF StarterStops
  <2>6. CASE StarterReaps(p)
    BY <2>1, <2>6, ReapSwept DEF StarterReaps
  <2> QED
    BY <1>4, <2>2, <2>3, <2>4, <2>5, <2>6 DEF StarterStep
<1>5. ASSUME NEW p \in Procs, WaiterStep(p) PROVE SweepInv'
  <2>1. SweepOrder' /\ UNCHANGED swept
    BY <1>5 DEF WaiterStep, WaiterPassesGate, WaiterReads, WaiterReaps, WaiterForks,
         WaiterForkFails, WaiterAdopts, WaiterDiscards, WaiterStops, WaiterEnds, SweepOrder
  <2>2. CASE \/ WaiterPassesGate(p) \/ WaiterReads(p) \/ WaiterForkFails(p) \/ WaiterDiscards(p)
    BY <2>1, <2>2 DEF WaiterPassesGate, WaiterReads, WaiterForkFails, WaiterDiscards,
         RegisteredRunsSwept
  <2>3. CASE WaiterForks(p)
    BY <2>1, <2>3, ForkSwept DEF WaiterForks
  <2>4. CASE WaiterAdopts(p)
    BY <2>1, <2>4, AdoptSwept DEF WaiterAdopts
  <2>5. CASE WaiterStops(p)
    BY <2>1, <2>5, StopSwept DEF WaiterStops
  <2>6. CASE WaiterReaps(p) \/ WaiterEnds(p)
    BY <2>1, <2>6, ReapSwept DEF WaiterReaps, WaiterEnds
  <2> QED
    BY <1>5, <2>2, <2>3, <2>4, <2>5, <2>6 DEF WaiterStep
<1>6. ASSUME NEW c \in Callers, RestartCalled(c) \/ RestartStep(c) PROVE SweepInv'
  <2>1. SweepOrder' /\ UNCHANGED swept
    BY <1>6 DEF RestartCalled, RestartStep, RestartTakes, RestartStops, RestartJoins, RestartForks,
         RestartForkFails, RestartAdopts, RestartDiscards, RestartMarks, SweepOrder
  <2>2. CASE \/ RestartCalled(c) \/ RestartForkFails(c) \/ RestartDiscards(c) \/ RestartMarks(c)
    BY <2>1, <2>2 DEF RestartCalled, RestartForkFails, RestartDiscards, RestartMarks,
         RegisteredRunsSwept
  <2>3. CASE RestartTakes(c)
    BY <2>1, <2>3, ConfigAssumption
       DEF RestartTakes, RegisteredRunsSwept, ProcessesType, ConfigAssumption
  <2>4. CASE RestartForks(c)
    BY <2>1, <2>4, ForkSwept DEF RestartForks
  <2>5. CASE RestartAdopts(c)
    BY <2>1, <2>5, AdoptSwept DEF RestartAdopts
  <2>6. CASE RestartStops(c)
    BY <2>1, <2>6, StopSwept DEF RestartStops
  <2>7. CASE RestartJoins(c)
    BY <2>1, <2>7, ReapSwept DEF RestartJoins
  <2> QED
    BY <1>6, <2>2, <2>3, <2>4, <2>5, <2>6, <2>7 DEF RestartStep
<1>7. ASSUME NEW d \in Deps, HealthDecides(d) PROVE SweepInv'
  BY <1>7 DEF HealthDecides, SweepOrder, RegisteredRunsSwept
<1>8. ASSUME NEW r \in Runs, Exit(r) PROVE SweepInv'
  <2>1. RegisteredRunsSwept'
    BY <1>8, NoneAdded DEF Exit, RunType
  <2> QED
    BY <1>8, <2>1 DEF Exit, SweepOrder
<1>9. CASE UNCHANGED vars
  BY <1>9 DEF vars, SweepOrder, RegisteredRunsSwept
<1> QED
  BY <1>1, <1>2, <1>3, <1>4, <1>5, <1>6, <1>7, <1>8, <1>9 DEF Next, Over

\* Once Stop has swept, every run the manager knows of has been signalled,
\* whatever gates, tickers, waiters and callers of Restart were doing: what
\* adopt (manager.go) checks the context for. The API must not have been
\* called before Manager.Start has returned.
THEOREM RegisteredSwept == ~EarlyCalls => (Spec => []RegisteredRunsSwept)
<1> SUFFICES ASSUME ~EarlyCalls PROVE Spec => []RegisteredRunsSwept
  OBVIOUS
<1>1. Init => SweepInv
  BY DEF Init, SweepInv, SweepOrder, RegisteredRunsSwept
<1>2. Typed /\ SweepInv /\ [Next]_vars => SweepInv'
  BY StepSwept
<1>3. SweepInv => RegisteredRunsSwept
  BY DEF SweepInv
<1> QED
  BY <1>1, <1>2, <1>3, InitTyped, StepTyped, PTL DEF Spec

-----------------------------------------------------------------------------
(* A process runs only when its dependencies are ready. Where a goroutine  *)
(* stands says what it knows of them, and a process leaves pending only    *)
(* to be blocked, to be started by its gate, or to be restarted by hand.   *)

DepsReady(p) == \A i \in DOMAIN DependsOn[p] : ready[DependsOn[p][i]] = "ready"

StarterKnows(p) ==
  /\ \A i \in DOMAIN DependsOn[p] : i < starter[p].dep => ready[DependsOn[p][i]] = "ready"
  /\ starter[p].pc \in {"check", "fork", "adopt", "settle", "discard", "reap", "run", "tick"} =>
       DepsReady(p)

WaiterKnows(p) == waiter[p].pc \notin {"off", "gate", "done"} => DepsReady(p)

SettledReady(p) == p \notin pending \cup blocked => DepsReady(p)

ReadyInv == /\ \A p \in Procs : StarterKnows(p)
            /\ \A p \in Procs \ Restartable : WaiterKnows(p) /\ SettledReady(p)
            /\ RunsOnlyWhenReady

\* ready[d] = "ready" is never taken back.
ReadyKept == \A d \in Deps : ready[d] = "ready" => ready'[d] = "ready"

LEMMA DecidedKeeps ==
  ASSUME StartupType, NEW d, NEW outcome, ready' = Decided(d, outcome)
  PROVE  ReadyKept
BY DEF StartupType, Decided, ReadyKept

LEMMA DepsReadyKept ==
  ASSUME ReadyKept, NEW p \in Procs, DepsReady(p)
  PROVE  DepsReady(p)'
BY ConfigAssumption DEF ReadyKept, DepsReady, ConfigAssumption

LEMMA NextKeepsReady ==
  ASSUME Typed, [Next]_vars PROVE ReadyKept
<1>1. (UNCHANGED ready) => ReadyKept
  BY DEF ReadyKept
<1>2. \A p : CheckHealth(p) => ReadyKept
  BY <1>1, DecidedKeeps DEF Typed, TypeOK, CheckHealth
<1>3. ASSUME Main PROVE ReadyKept
  BY <1>1, <1>2, <1>3 DEF Main, StartBegins, StartEnds, FailedStartExits, StartRecurring, StartGated, StartPlain,
     StartFails, QuitSweeps, WaitBegins, WaitReturns, startupVars
<1>4. ASSUME NEW p \in Procs, StarterStep(p) PROVE ReadyKept
  BY <1>1, <1>2, <1>4, DecidedKeeps
     DEF Typed, TypeOK, StarterStep, AwaitService, DependencyReady, AwaitFails, GateChecks, StarterForks,
         GateForkFails, StarterAdopts, GateSettles, StarterDiscards, StarterStops, StarterReaps,
         TickerEnds, startupVars
<1>5. ASSUME NEW p \in Procs, WaiterStep(p) PROVE ReadyKept
  BY <1>1, <1>5 DEF WaiterStep, WaiterPassesGate, WaiterReads, WaiterReaps, WaiterForks,
         WaiterForkFails, WaiterAdopts, WaiterDiscards, WaiterStops, WaiterEnds, startupVars
<1>6. ASSUME NEW c \in Callers, RestartCalled(c) \/ RestartStep(c) PROVE ReadyKept
  BY <1>1, <1>2, <1>6 DEF RestartCalled, RestartStep, RestartTakes, RestartStops, RestartJoins,
         RestartForks, RestartForkFails, RestartAdopts, RestartDiscards, RestartMarks, startupVars
<1>7. ASSUME NEW d \in Deps, HealthDecides(d) PROVE ReadyKept
  BY <1>7, DecidedKeeps DEF Typed, TypeOK, HealthDecides
<1> QED
  BY <1>1, <1>3, <1>4, <1>5, <1>6, <1>7
     DEF Next, QuitCancels, StopCancels, StopSweeps, Exit, Over, vars, startupVars

LEMMA StarterKept ==
  ASSUME ReadyKept, NEW p \in Procs, StarterKnows(p), starter'[p] = starter[p]
  PROVE  StarterKnows(p)'
BY DepsReadyKept, ConfigAssumption DEF StarterKnows, ReadyKept, ConfigAssumption

LEMMA WaiterKept ==
  ASSUME ReadyKept, NEW p \in Procs, WaiterKnows(p), waiter'[p] = waiter[p]
  PROVE  WaiterKnows(p)'
BY DepsReadyKept DEF WaiterKnows

LEMMA SettledKept ==
  ASSUME ReadyKept, NEW p \in Procs, SettledReady(p),
         p \in pending \cup blocked => p \in (pending \cup blocked)'
  PROVE  SettledReady(p)'
BY DepsReadyKept DEF SettledReady, Gated

LEMMA RunsKept ==
  ASSUME ReadyKept, RunsOnlyWhenReady,
         \A r \in Runs : Running(r)' /\ owner'[r] \in Procs => Running(r) /\ owner'[r] = owner[r]
  PROVE  RunsOnlyWhenReady'
<1> SUFFICES ASSUME NEW r \in Runs, Running(r)', owner'[r] \in Procs \ Restartable
             PROVE  DepsReady(owner[r])'
  BY DEF RunsOnlyWhenReady, DepsReady
<1>1. Running(r) /\ owner'[r] = owner[r]
  OBVIOUS
<1>2. DepsReady(owner[r])
  BY <1>1 DEF RunsOnlyWhenReady, DepsReady
<1> QED
  BY <1>1, <1>2, DepsReadyKept

LEMMA ForkKept ==
  ASSUME RunType, ReadyKept, RunsOnlyWhenReady, NEW p \in Procs, NEW r \in Runs, Fork(p, r),
         p \notin Restartable => DepsReady(p)
  PROVE  RunsOnlyWhenReady'
<1> SUFFICES ASSUME NEW s \in Runs, NEW q \in Procs \ Restartable, Running(s)', owner'[s] = q
             PROVE  DepsReady(q)'
  BY DEF RunsOnlyWhenReady, DepsReady
<1>1. CASE s = r
  BY <1>1, DepsReadyKept DEF Fork, RunType
<1>2. CASE s # r
  <2>1. owner[s] = q /\ Running(s)
    BY <1>2 DEF Fork, RunType, Running
  <2>2. DepsReady(q)
    BY <2>1 DEF RunsOnlyWhenReady, DepsReady
  <2> QED
    BY <2>2, DepsReadyKept
<1> QED
  BY <1>1, <1>2

LEMMA SignalledKept ==
  ASSUME RunType, ReadyKept, RunsOnlyWhenReady, NEW S, life' = Signalled(S), UNCHANGED owner
  PROVE  RunsOnlyWhenReady'
BY RunsKept DEF Signalled, Running, RunType

LEMMA ReapKept ==
  ASSUME RunType, ReadyKept, RunsOnlyWhenReady, NEW r, Reap(r)
  PROVE  RunsOnlyWhenReady'
<1>1. \A s \in Runs : Running(s)' /\ owner'[s] \in Procs => Running(s) /\ owner'[s] = owner[s]
  BY ConfigAssumption DEF Reap, Running, RunType, ConfigAssumption
<1> QED
  BY <1>1, RunsKept

LEMMA SameRunsKept ==
  ASSUME ReadyKept, RunsOnlyWhenReady, UNCHANGED <<life, owner>>
  PROVE  RunsOnlyWhenReady'
BY RunsKept DEF Running

\* What a step may do to the threads and to the gates without anything to show.
LEMMA ThreadsKept ==
  ASSUME ReadyInv, ReadyKept
  PROVE  /\ UNCHANGED starter => \A p \in Procs : StarterKnows(p)'
         /\ UNCHANGED waiter => \A p \in Procs \ Restartable : WaiterKnows(p)'
         /\ UNCHANGED <<pending, blocked>> => \A p \in Procs \ Restartable : SettledReady(p)'
         /\ UNCHANGED <<life, owner>> => RunsOnlyWhenReady'
BY StarterKept, WaiterKept, SettledKept, SameRunsKept DEF ReadyInv

LEMMA MainReady ==
  ASSUME Typed, ReadyInv, ReadyKept, Main PROVE ReadyInv'
<1> USE ThreadsKept DEF mainVars, stopVars, runVars, startupVars
<1>1. CASE StartBegins \/ StartEnds \/ FailedStartExits \/ WaitReturns
  BY <1>1 DEF StartBegins, StartEnds, FailedStartExits, WaitReturns, ReadyInv
<1>2. ASSUME NEW p \in Procs, StartRecurring(p) \/ StartGated(p) PROVE ReadyInv'
  <2>1. ASSUME NEW q \in Procs PROVE StarterKnows(q)'
    <3>1. CASE q = p
      <4>1. /\ starter'[q].dep = starter[q].dep
            /\ Gated(p) => starter'[q].pc = "await"
            /\ ~Gated(p) => starter'[q].pc = "tick"
        BY <1>2, <3>1 DEF StartRecurring, StartGated, Typed, TypeOK, StarterType
      <4>2. StarterKnows(q)
        BY DEF ReadyInv
      <4>3. \A i \in DOMAIN DependsOn[q] :
              i < starter'[q].dep => ready'[DependsOn[q][i]] = "ready"
        BY <4>1, <4>2, ConfigAssumption DEF StarterKnows, ReadyKept, ConfigAssumption
      <4>4. ~Gated(q) => DepsReady(q)'
        BY DEF Gated, DepsReady
      <4> QED
        BY <3>1, <4>1, <4>3, <4>4 DEF StarterKnows
    <3>2. CASE q # p
      BY <1>2, <3>2, StarterKept DEF StartRecurring, StartGated, Typed, TypeOK, StarterType, ReadyInv
    <3> QED
      BY <3>1, <3>2
  <2> QED
    BY <1>2, <2>1 DEF StartRecurring, StartGated, ReadyInv
<1>3. ASSUME NEW p \in Procs, StartPlain(p) PROVE ReadyInv'
  <2>1. RunsOnlyWhenReady'
    <3>1. DepsReady(p)
      BY <1>3 DEF StartPlain, Gated, DepsReady
    <3> QED
      BY <1>3, <3>1, ForkKept DEF StartPlain, ReadyInv, Typed, TypeOK
  <2> QED
    BY <1>3, <2>1 DEF StartPlain, ReadyInv
<1>4. ASSUME NEW p \in Procs, StartFails(p) PROVE ReadyInv'
  <2>1. RunsOnlyWhenReady'
    BY <1>4, SignalledKept DEF StartFails, ReadyInv, Typed, TypeOK
  <2> QED
    BY <1>4, <2>1 DEF StartFails, ReadyInv
<1>5. CASE QuitSweeps
  <2>1. RunsOnlyWhenReady'
    BY <1>5, SignalledKept DEF QuitSweeps, Sweep, ReadyInv, Typed, TypeOK
  <2> QED
    BY <1>5, <2>1 DEF QuitSweeps, ReadyInv
<1>6. CASE WaitBegins
  <2>1. ASSUME NEW p \in Procs \ Restartable PROVE WaiterKnows(p)'
    <3>1. DepsReady(p)' \/ waiter'[p].pc = "gate" \/ waiter'[p] = waiter[p]
      BY <1>6 DEF WaitBegins, Gated, DepsReady, Typed, TypeOK, WaiterType
    <3> QED
      BY <3>1, WaiterKept DEF WaiterKnows, ReadyInv
  <2> QED
    BY <1>6, <2>1 DEF WaitBegins, ReadyInv
<1> QED
  BY <1>1, <1>2, <1>3, <1>4, <1>5, <1>6 DEF Main

LEMMA StarterReady ==
  ASSUME Typed, ReadyInv, ReadyKept, NEW p \in Procs, StarterStep(p) PROVE ReadyInv'
<1> USE ThreadsKept DEF mainVars, stopVars, runVars, startupVars
\* The other starters are left alone, so are the waiters.
<1>1. /\ \A q \in Procs \ {p} : StarterKnows(q)'
      /\ \A q \in Procs \ Restartable : WaiterKnows(q)'
  <2>1. UNCHANGED waiter /\ \A q \in Procs \ {p} : starter'[q] = starter[q]
    BY DEF Typed, TypeOK, StarterType, StarterStep, AwaitService, DependencyReady, AwaitFails,
           GateChecks, StarterForks, GateForkFails, StarterAdopts, GateSettles, StarterDiscards,
           StarterStops, StarterReaps, TickerEnds
  <2> QED
    BY <2>1, StarterKept DEF ReadyInv
\* p goes on with what it knew.
<1>2. ASSUME starter'[p].dep = starter[p].dep,
             \/ starter'[p].pc \in {"await", "done"}
             \/ starter[p].pc \in {"check", "fork", "adopt", "settle", "discard", "reap", "run", "tick"}
      PROVE  \A q \in Procs : StarterKnows(q)'
  <2>1. StarterKnows(p)
    BY DEF ReadyInv
  <2>2. \A i \in DOMAIN DependsOn[p] :
          i < starter'[p].dep => ready'[DependsOn[p][i]] = "ready"
    BY <1>2, <2>1, ConfigAssumption DEF StarterKnows, ReadyKept, ConfigAssumption
  <2>3. starter'[p].pc \in {"await", "done"} \/ DepsReady(p)'
    BY <1>2, <2>1, DepsReadyKept DEF StarterKnows
  <2>4. StarterKnows(p)'
    BY <2>2, <2>3 DEF StarterKnows
  <2> QED
    BY <1>1, <2>4
<1>3. CASE AwaitService(p)
  BY <1>3 DEF AwaitService, ReadyInv
<1>4. CASE DependencyReady(p)
  <2> DEFINE d == starter[p].dep
  <2>1. d \in Nat /\ DependsOn[p] \in Seq(Deps)
    BY ConfigAssumption DEF ConfigAssumption, Typed, TypeOK, StarterType
  <2>2. ready[DependsOn[p][d]] = "ready" /\ ready' = ready
    BY <1>4 DEF DependencyReady, Dep
  <2>3. \A i \in DOMAIN DependsOn[p] : i < d + 1 => ready[DependsOn[p][i]] = "ready"
    BY <2>1, <2>2 DEF ReadyInv, StarterKnows
  <2>4. LastDep(p) => DepsReady(p)
    BY <2>1, <2>3 DEF LastDep, DepsReady
  <2>5. starter'[p].dep = IF LastDep(p) THEN d ELSE d + 1
    BY <1>4 DEF DependencyReady, Typed, TypeOK, StarterType
  <2>6. ~LastDep(p) => starter'[p].pc = "await"
    BY <1>4 DEF DependencyReady, Typed, TypeOK, StarterType
  <2>7. StarterKnows(p)'
    <3>1. \A i \in DOMAIN DependsOn[p] :
            i < starter'[p].dep => ready'[DependsOn[p][i]] = "ready"
      BY <2>1, <2>2, <2>3, <2>5
    <3>2. LastDep(p) => DepsReady(p)'
      BY <2>2, <2>4 DEF DepsReady
    <3> QED
      BY <2>6, <3>1, <3>2 DEF StarterKnows
  <2>8. \A q \in Procs \ Restartable : SettledReady(q)'
    <3>1. \A q \in Procs : SettledReady(q) \/ q \in Restartable
      BY DEF ReadyInv
    <3>2. pending' = pending \/ (pending' = pending \ {p} /\ LastDep(p))
      BY <1>4 DEF DependencyReady, Settle
    <3>3. UNCHANGED blocked /\ ready' = ready
      BY <1>4 DEF DependencyReady
    <3> QED
      BY <2>4, <3>1, <3>2, <3>3 DEF SettledReady, DepsReady, Gated
  <2> QED
    BY <1>1, <1>4, <2>7, <2>8 DEF DependencyReady, ReadyInv
<1>5. CASE AwaitFails(p)
  <2>1. starter'[p].pc = "done" /\ starter'[p].dep = starter[p].dep
    BY <1>5 DEF AwaitFails, Typed, TypeOK, StarterType
  <2>2. pending \cup blocked \subseteq (pending \cup blocked)'
    BY <1>5 DEF AwaitFails, Halt
  <2>3. \A q \in Procs \ Restartable : SettledReady(q)'
    BY <2>2, SettledKept DEF ReadyInv
  <2> QED
    BY <1>1, <1>2, <1>5, <2>1, <2>3 DEF AwaitFails, ReadyInv
<1>6. CASE GateChecks(p)
  <2>1. starter'[p].dep = starter[p].dep /\ starter[p].pc = "check"
    BY <1>6 DEF GateChecks, Typed, TypeOK, StarterType
  <2>2. DepsReady(p)
    BY <2>1 DEF ReadyInv, StarterKnows
  <2>3. pending \ {p} \subseteq pending' /\ UNCHANGED blocked
    BY <1>6 DEF GateChecks, Settle
  <2>4. \A q \in Procs \ Restartable : SettledReady(q)'
    BY <2>2, <2>3, SettledKept, DepsReadyKept DEF ReadyInv, SettledReady
  <2> QED
    BY <1>1, <1>2, <1>6, <2>1, <2>4 DEF GateChecks, ReadyInv
<1>7. CASE StarterForks(p)
  <2>1. starter'[p].dep = starter[p].dep /\ starter[p].pc \in {"fork", "tick"}
    BY <1>7 DEF StarterForks, Typed, TypeOK, StarterType
  <2>2. DepsReady(p)
    BY <2>1 DEF ReadyInv, StarterKnows
  <2>3. RunsOnlyWhenReady'
    BY <1>7, <2>2, ForkKept DEF StarterForks, ReadyInv, Typed, TypeOK
  <2> QED
    BY <1>1, <1>2, <1>7, <2>1, <2>3 DEF StarterForks, ReadyInv
<1>8. CASE GateForkFails(p)
  <2>1. starter'[p].dep = starter[p].dep /\ starter[p].pc = "fork"
    BY <1>8 DEF GateForkFails, Typed, TypeOK, StarterType
  <2>2. pending \cup blocked \subseteq (pending \cup blocked)'
    BY <1>8 DEF GateForkFails
  <2>3. \A q \in Procs \ Restartable : SettledReady(q)'
    BY <2>2, SettledKept DEF ReadyInv
  <2> QED
    BY <1>1, <1>2, <1>8, <2>1, <2>3 DEF GateForkFails, ReadyInv
<1>9. CASE StarterAdopts(p)
  <2>1. starter'[p].dep = starter[p].dep /\ starter[p].pc = "adopt"
    BY <1>9 DEF StarterAdopts, Typed, TypeOK, StarterType
  <2> QED
    BY <1>1, <1>2, <1>9, <2>1 DEF StarterAdopts, ReadyInv
<1>10. CASE GateSettles(p)
  <2>1. starter'[p].dep = starter[p].dep /\ starter[p].pc = "settle"
    BY <1>10 DEF GateSettles, Typed, TypeOK, StarterType
  <2>2. DepsReady(p)
    BY <2>1 DEF ReadyInv, StarterKnows
  <2>3. pending \ {p} \subseteq pending' /\ UNCHANGED blocked
    BY <1>10 DEF GateSettles, Settle
  <2>4. \A q \in Procs \ Restartable : SettledReady(q)'
    BY <2>2, <2>3, SettledKept, DepsReadyKept DEF ReadyInv, SettledReady
  <2> QED
    BY <1>1, <1>2, <1>10, <2>1, <2>4 DEF GateSettles, ReadyInv
<1>11. CASE StarterDiscards(p) \/ TickerEnds(p)
  <2>1. starter'[p].dep = starter[p].dep /\ starter[p].pc \in {"adopt", "tick"}
    BY <1>11 DEF StarterDiscards, TickerEnds, Typed, TypeOK, StarterType
  <2> QED
    BY <1>1, <1>2, <1>11, <2>1 DEF StarterDiscards, TickerEnds, ReadyInv
<1>12. CASE StarterStops(p)
  <2>1. starter'[p].dep = starter[p].dep /\ starter[p].pc = "discard"
    BY <1>12 DEF StarterStops, Typed, TypeOK, StarterType
  <2>2. RunsOnlyWhenReady'
    BY <1>12, SignalledKept DEF StarterStops, ReadyInv, Typed, TypeOK
  <2> QED
    BY <1>1, <1>2, <1>12, <2>1, <2>2 DEF StarterStops, ReadyInv
<1>13. CASE StarterReaps(p)
  <2>1. starter'[p].dep = starter[p].dep /\ starter[p].pc \in {"run", "reap"}
    BY <1>13 DEF StarterReaps, Typed, TypeOK, StarterType
  <2>2. RunsOnlyWhenReady'
    BY <1>13, ReapKept DEF StarterReaps, ReadyInv, Typed, TypeOK
  <2> QED
    BY <1>1, <1>2, <1>13, <2>1, <2>2 DEF StarterReaps, ReadyInv
<1> QED
  BY <1>3, <1>4, <1>5, <1>6, <1>7, <1>8, <1>9, <1>10, <1>11, <1>12, <1>13 DEF StarterStep

LEMMA WaiterReady ==
  ASSUME Typed, ReadyInv, ReadyKept, NEW p \in Procs, WaiterStep(p) PROVE ReadyInv'
<1> USE ThreadsKept DEF mainVars, stopVars, runVars, startupVars
<1>1. /\ UNCHANGED <<starter, startupVars>>
      /\ \A q \in Procs \ {p} : waiter'[q] = waiter[q]
  BY DEF Typed, TypeOK, WaiterType, WaiterStep, WaiterPassesGate, WaiterReads, WaiterReaps,
         WaiterForks, WaiterForkFails, WaiterAdopts, WaiterDiscards, WaiterStops, WaiterEnds
\* p goes on with what it knew.
<1>2. ASSUME waiter'[p].pc = "done" \/ waiter[p].pc \notin {"off", "gate", "done"}
      PROVE  \A q \in Procs \ Restartable : WaiterKnows(q)'
  <2>1. p \notin Restartable => WaiterKnows(p)
    BY DEF ReadyInv
  <2>2. p \notin Restartable => WaiterKnows(p)'
    BY <1>2, <2>1, DepsReadyKept DEF WaiterKnows
  <2> QED
    BY <1>1, <2>2, WaiterKept DEF ReadyInv
<1>3. CASE WaiterPassesGate(p)
  <2>1. p \notin Restartable => WaiterKnows(p)'
    <3>1. waiter'[p].pc = "done" \/ p \notin pending \cup blocked
      BY <1>3 DEF WaiterPassesGate, Typed, TypeOK, WaiterType
    <3>2. p \notin Restartable /\ p \notin pending \cup blocked => DepsReady(p)'
      BY DepsReadyKept DEF ReadyInv, SettledReady
    <3> QED
      BY <3>1, <3>2 DEF WaiterKnows
  <2>2. \A q \in Procs \ Restartable : WaiterKnows(q)'
    BY <1>1, <2>1, WaiterKept DEF ReadyInv
  <2> QED
    BY <1>1, <1>3, <2>2 DEF WaiterPassesGate, ReadyInv
<1>4. CASE WaiterReads(p) \/ WaiterForkFails(p) \/ WaiterAdopts(p) \/ WaiterDiscards(p)
  <2>1. waiter[p].pc \in {"read", "fork", "adopt"}
    BY <1>4 DEF WaiterReads, WaiterForkFails, WaiterAdopts, WaiterDiscards
  <2> QED
    BY <1>1, <1>2, <1>4, <2>1
       DEF WaiterReads, WaiterForkFails, WaiterAdopts, WaiterDiscards, ReadyInv
<1>5. CASE WaiterReaps(p) \/ WaiterEnds(p)
  <2>1. waiter[p].pc \in {"wait", "reap"}
    BY <1>5 DEF WaiterReaps, WaiterEnds
  <2>2. RunsOnlyWhenReady'
    BY <1>5, ReapKept DEF WaiterReaps, WaiterEnds, ReadyInv, Typed, TypeOK
  <2> QED
    BY <1>1, <1>2, <2>1, <2>2 DEF ReadyInv
<1>6. CASE WaiterForks(p)
  <2>1. waiter[p].pc = "fork"
    BY <1>6 DEF WaiterForks
  <2>2. p \notin Restartable => DepsReady(p)
    BY <2>1 DEF ReadyInv, WaiterKnows
  <2>3. RunsOnlyWhenReady'
    BY <1>6, <2>2, ForkKept DEF WaiterForks, ReadyInv, Typed, TypeOK
  <2> QED
    BY <1>1, <1>2, <2>1, <2>3 DEF ReadyInv
<1>7. CASE WaiterStops(p)
  <2>1. waiter[p].pc = "discard"
    BY <1>7 DEF WaiterStops
  <2>2. RunsOnlyWhenReady'
    BY <1>7, SignalledKept DEF WaiterStops, ReadyInv, Typed, TypeOK
  <2> QED
    BY <1>1, <1>2, <2>1, <2>2 DEF ReadyInv
<1> QED
  BY <1>3, <1>4, <1>5, <1>6, <1>7 DEF WaiterStep

\* A restart concerns a process that may be restarted.
LEMMA RestartReady ==
  ASSUME Typed, ReadyInv, ReadyKept, NEW c \in Callers, RestartCalled(c) \/ RestartStep(c)
  PROVE  ReadyInv'
<1> USE ThreadsKept DEF mainVars, stopVars, runVars, startupVars
<1>1. CASE \/ RestartCalled(c) \/ RestartTakes(c) \/ RestartForkFails(c) \/ RestartAdopts(c)
           \/ RestartDiscards(c)
  BY <1>1 DEF RestartCalled, RestartTakes, RestartForkFails, RestartAdopts, RestartDiscards, ReadyInv
<1>2. CASE RestartStops(c)
  <2>1. RunsOnlyWhenReady'
    BY <1>2, SignalledKept DEF RestartStops, ReadyInv, Typed, TypeOK
  <2> QED
    BY <1>2, <2>1 DEF RestartStops, ReadyInv
<1>3. CASE RestartJoins(c)
  <2>1. RunsOnlyWhenReady'
    BY <1>3, ReapKept DEF RestartJoins, ReadyInv, Typed, TypeOK
  <2> QED
    BY <1>3, <2>1 DEF RestartJoins, ReadyInv
<1>4. CASE RestartForks(c)
  <2>1. caller[c].proc \in Procs \cap Restartable
    BY <1>4, ConfigAssumption DEF RestartForks, Typed, CallersNameProcesses, ConfigAssumption
  <2>2. RunsOnlyWhenReady'
    BY <1>4, <2>1, ForkKept DEF RestartForks, ReadyInv, Typed, TypeOK
  <2> QED
    BY <1>4, <2>2 DEF RestartForks, ReadyInv
<1>5. CASE RestartMarks(c)
  <2>1. caller[c].proc \in Restartable
    BY <1>5 DEF RestartMarks, Typed, CallersNameProcesses
  <2>2. \A q \in Procs \ Restartable : q \in pending \cup blocked => q \in (pending \cup blocked)'
    BY <1>5, <2>1 DEF RestartMarks, Settle
  <2>3. \A q \in Procs \ Restartable : SettledReady(q)'
    BY <2>2, SettledKept DEF ReadyInv
  <2> QED
    BY <1>5, <2>3 DEF RestartMarks, ReadyInv
<1> QED
  BY <1>1, <1>2, <1>3, <1>4, <1>5 DEF RestartStep

LEMMA StepReady == ASSUME Typed, ReadyInv, [Next]_vars PROVE ReadyInv'
<1> USE NextKeepsReady, ThreadsKept DEF mainVars, stopVars, runVars, startupVars
<1>1. CASE Main
  BY <1>1, MainReady
<1>2. CASE QuitCancels \/ StopCancels \/ \E d \in Deps : HealthDecides(d)
  BY <1>2 DEF QuitCancels, StopCancels, HealthDecides, ReadyInv
<1>3. CASE StopSweeps
  <2>1. RunsOnlyWhenReady'
    BY <1>3, SignalledKept DEF StopSweeps, Sweep, ReadyInv, Typed, TypeOK
  <2> QED
    BY <1>3, <2>1 DEF StopSweeps, ReadyInv
<1>4. ASSUME NEW p \in Procs, StarterStep(p) \/ WaiterStep(p) PROVE ReadyInv'
  BY <1>4, StarterReady, WaiterReady
<1>5. ASSUME NEW c \in Callers, RestartCalled(c) \/ RestartStep(c) PROVE ReadyInv'
  BY <1>5, RestartReady
<1>6. ASSUME NEW r \in Runs, Exit(r) PROVE ReadyInv'
  <2>1. RunsOnlyWhenReady'
    BY <1>6, RunsKept DEF Exit, Running, ReadyInv, Typed, TypeOK, RunType
  <2> QED
    BY <1>6, <2>1 DEF Exit, ReadyInv
<1>7. CASE UNCHANGED vars
  BY <1>7 DEF vars, ReadyInv
<1> QED
  BY <1>1, <1>2, <1>3, <1>4, <1>5, <1>6, <1>7 DEF Next, Over

LEMMA InitReady == Init => ReadyInv
<1> SUFFICES ASSUME Init PROVE ReadyInv
  OBVIOUS
<1>1. ASSUME NEW p \in Procs PROVE StarterKnows(p)
  <2>1. DependsOn[p] \in Seq(Deps)
    BY ConfigAssumption DEF ConfigAssumption
  <2>2. \A i \in DOMAIN DependsOn[p] : ~ i < 1
    BY <2>1
  <2>3. starter[p].pc = "off" /\ starter[p].dep = 1
    BY DEF Init
  <2> QED
    BY <2>2, <2>3 DEF StarterKnows
<1>2. ASSUME NEW p \in Procs PROVE WaiterKnows(p) /\ SettledReady(p)
  <2>1. waiter[p].pc = "off"
    BY DEF Init
  <2>2. p \notin pending => DepsReady(p)
    BY DEF Init, DepsReady, Gated
  <2> QED
    BY <2>1, <2>2 DEF WaiterKnows, SettledReady
<1>3. RunsOnlyWhenReady
  BY DEF Init, RunsOnlyWhenReady, Running
<1> QED
  BY <1>1, <1>2, <1>3 DEF ReadyInv

\* No process that nobody restarts by hand ever runs before everything in its
\* depends_on was decided ready, whoever started it and however startup,
\* crashes, stops and the restarts of other processes interleave.
THEOREM ReadyFirst == Spec => []RunsOnlyWhenReady
<1>1. ReadyInv => RunsOnlyWhenReady
  BY DEF ReadyInv
<1>2. Typed /\ ReadyInv /\ [Next]_vars => ReadyInv'
  BY StepReady
<1> QED
  BY <1>1, <1>2, InitReady, InitTyped, StepTyped, PTL DEF Spec

-----------------------------------------------------------------------------
(* What the refinement needs beyond ReadyInv: a process is either waiting  *)
(* or blocked, halt leaves nobody waiting, and a starter that waits looks  *)
(* at one of its process's dependencies.                                   *)

GatesOK == /\ \A p \in pending : Gated(p)
           /\ pending \cap blocked = {}
           /\ halted => pending = {}

StarterPlace(p) == /\ Gated(p) => starter[p].dep \in DOMAIN DependsOn[p]
                   /\ starter[p].pc \in {"await", "check", "fork"} => Gated(p)

PlaceInv == GatesOK /\ \A p \in Procs : StarterPlace(p)

LEMMA InitPlace == Init => PlaceInv
<1> SUFFICES ASSUME Init PROVE PlaceInv
  OBVIOUS
<1>1. GatesOK
  BY DEF Init, GatesOK
<1>2. ASSUME NEW p \in Procs PROVE StarterPlace(p)
  <2>1. DependsOn[p] \in Seq(Deps)
    BY ConfigAssumption DEF ConfigAssumption
  <2>2. Gated(p) => 1 \in DOMAIN DependsOn[p]
    BY <2>1 DEF Gated
  <2>3. starter[p].pc = "off" /\ starter[p].dep = 1
    BY DEF Init
  <2> QED
    BY <2>2, <2>3 DEF StarterPlace
<1> QED
  BY <1>1, <1>2 DEF PlaceInv

\* pending only shrinks, and what is added to blocked was pending.
LEMMA GatesShrink ==
  ASSUME GatesOK, pending' \subseteq pending, pending' \cap blocked' = {},
         halted' => halted \/ pending' = {}
  PROVE  GatesOK'
BY DEF GatesOK, Gated

LEMMA StarterPlaced ==
  ASSUME Typed, PlaceInv, NEW p \in Procs, StarterStep(p) PROVE PlaceInv'
<1> USE DEF Typed, TypeOK, PlaceInv, mainVars, stopVars, runVars, startupVars
<1>1. GatesOK'
  <2>1. CASE DependencyReady(p) \/ GateChecks(p) \/ GateSettles(p)
    BY <2>1, GatesShrink DEF DependencyReady, GateChecks, GateSettles, Settle, GatesOK
  <2>2. CASE AwaitFails(p)
    BY <2>2, GatesShrink DEF AwaitFails, Halt, GatesOK
  <2>3. CASE GateForkFails(p)
    <3>1. pending' = {} /\ blocked' = blocked \cup pending
      BY <2>3 DEF GateForkFails, GatesOK
    <3> QED
      BY <3>1, GatesShrink
  <2> QED
    BY <2>1, <2>2, <2>3 DEF StarterStep, AwaitService, StarterForks, StarterAdopts, StarterDiscards,
       StarterStops, StarterReaps, TickerEnds, GatesOK, Gated
<1>2. \A q \in Procs \ {p} : starter'[q] = starter[q]
  BY DEF StarterType, StarterStep, AwaitService, DependencyReady, AwaitFails,
         GateChecks, StarterForks, GateForkFails, StarterAdopts, GateSettles, StarterDiscards,
         StarterStops, StarterReaps, TickerEnds
<1>3. StarterPlace(p)'
  <2>1. CASE DependencyReady(p)
    <3>1. starter[p].dep \in Nat /\ DependsOn[p] \in Seq(Deps)
      BY ConfigAssumption DEF ConfigAssumption, StarterType
    <3>2. Gated(p) /\ starter[p].dep \in DOMAIN DependsOn[p]
      BY <2>1 DEF DependencyReady, StarterPlace
    <3>3. starter'[p].dep = IF LastDep(p) THEN starter[p].dep ELSE starter[p].dep + 1
      BY <2>1 DEF DependencyReady, StarterType
    <3>4. starter'[p].dep \in DOMAIN DependsOn[p]
      BY <3>1, <3>2, <3>3 DEF LastDep
    <3> QED
      BY <3>2, <3>4 DEF StarterPlace, Gated
  <2>2. ASSUME ~DependencyReady(p)
        PROVE  /\ starter'[p].dep = starter[p].dep
               /\ \/ starter'[p].pc \notin {"await", "check", "fork"}
                  \/ starter[p].pc \in {"await", "check", "fork"}
    BY <2>2 DEF StarterType, StarterStep, AwaitService, AwaitFails, GateChecks, StarterForks,
       GateForkFails, StarterAdopts, GateSettles, StarterDiscards, StarterStops, StarterReaps, TickerEnds
  <2> QED
    BY <2>1, <2>2 DEF StarterPlace, Gated
<1> QED
  BY <1>1, <1>2, <1>3 DEF StarterPlace, Gated

LEMMA StepPlace == ASSUME Typed, PlaceInv, [Next]_vars PROVE PlaceInv'
<1> USE DEF mainVars, stopVars, runVars, startupVars
<1>1. (UNCHANGED <<starter, pending, blocked, halted>>) => PlaceInv'
  BY DEF PlaceInv, GatesOK, StarterPlace, Gated
<1>2. ASSUME NEW p \in Procs, StarterStep(p) PROVE PlaceInv'
  BY <1>2, StarterPlaced
<1>3. ASSUME NEW p \in Procs, StartRecurring(p) \/ StartGated(p) PROVE PlaceInv'
  <2>1. /\ \A q \in Procs : starter'[q].dep = starter[q].dep
        /\ \A q \in Procs \ {p} : starter'[q].pc = starter[q].pc
        /\ (starter'[p].pc = "await" /\ Gated(p)) \/ starter'[p].pc = "tick"
    BY <1>3 DEF StartRecurring, StartGated, Typed, TypeOK, StarterType
  <2>2. UNCHANGED <<pending, blocked, halted>>
    BY <1>3 DEF StartRecurring, StartGated
  <2> QED
    BY <2>1, <2>2 DEF PlaceInv, GatesOK, StarterPlace, Gated
<1>4. ASSUME NEW p \in Procs, StartPlain(p) \/ StartFails(p) PROVE PlaceInv'
  BY <1>1, <1>4 DEF StartPlain, StartFails
<1>5. ASSUME NEW p \in Procs, WaiterStep(p) PROVE PlaceInv'
  BY <1>1, <1>5 DEF WaiterStep, WaiterPassesGate, WaiterReads, WaiterReaps, WaiterForks,
         WaiterForkFails, WaiterAdopts, WaiterDiscards, WaiterStops, WaiterEnds
<1>6. ASSUME NEW c \in Callers, RestartMarks(c) PROVE PlaceInv'
  <2>1. pending' \subseteq pending /\ blocked' \subseteq blocked /\ UNCHANGED <<starter, halted>>
    BY <1>6 DEF RestartMarks, Settle
  <2> QED
    BY <2>1 DEF PlaceInv, GatesOK, StarterPlace, Gated
<1>7. ASSUME NEW c \in Callers, RestartCalled(c) \/ RestartStep(c), ~RestartMarks(c) PROVE PlaceInv'
  BY <1>1, <1>7 DEF RestartCalled, RestartStep, RestartTakes, RestartStops, RestartJoins,
         RestartForks, RestartForkFails, RestartAdopts, RestartDiscards
<1> QED
  BY <1>1, <1>2, <1>3, <1>4, <1>5, <1>6, <1>7
     DEF Next, Main, StartBegins, StartEnds, FailedStartExits, QuitSweeps, WaitBegins, WaitReturns,
         QuitCancels, StopCancels, StopSweeps, HealthDecides, Exit, Over, vars

-----------------------------------------------------------------------------
(* Steps map to steps.                                                     *)

status == [p \in Procs |-> StartupStatus(p)]

Stutters == UNCHANGED <<ready, status>>

LEMMA StatusKept ==
  ASSUME UNCHANGED <<pending, blocked>> PROVE UNCHANGED status
BY DEF status, StartupStatus, Gated

\* Deciding an outcome, while the processes stay what they are.
LEMMA DecidedSimulates ==
  ASSUME NEW d \in Deps, NEW o \in {"ready", "failed"}, ready' = Decided(d, o), UNCHANGED status
  PROVE  Contract!Next
BY DEF Contract!Next, Contract!Decide, Contract!Decides, Decided, status

LEMMA CheckSimulates ==
  ASSUME NEW p \in Procs, CheckHealth(p)
  PROVE  ready' = ready \/ Contract!Decides(p, "ready")
BY DEF CheckHealth, Contract!Decides, Decided

\* p stops waiting with its dependencies ready.
LEMMA SettleSimulates ==
  ASSUME GatesOK, NEW p \in pending \cap Procs, DepsReady(p), pending' = pending \ {p},
         UNCHANGED blocked, ready' = ready \/ Contract!Decides(p, "ready")
  PROVE  Contract!Release(p)
<1>1. status[p] = "waiting"
  BY DEF GatesOK, status, StartupStatus
<1>2. status' = [status EXCEPT ![p] = "started"]
  BY DEF GatesOK, status, StartupStatus, Gated
<1> QED
  BY <1>1, <1>2 DEF Contract!Release, Contract!DepsReady, DepsReady, status

\* Everything that waits is blocked.
LEMMA HaltSimulates ==
  ASSUME GatesOK, pending' = {}, blocked' = blocked \cup pending
  PROVE  status' = [q \in Procs |-> IF status[q] = "waiting" THEN "blocked" ELSE status[q]]
BY DEF GatesOK, status, StartupStatus, Gated

\* p was not waiting: nothing changes but perhaps its own outcome.
LEMMA CheckOnlySimulates ==
  ASSUME Typed, NEW p \in Procs, CheckHealth(p), UNCHANGED status
  PROVE  Contract!Next \/ Stutters
<1>1. ready' = ready \/ ready' = Decided(p, "ready")
  BY DEF CheckHealth
<1>2. p \in Deps
  BY DEF Deps
<1> QED
  BY <1>1, <1>2, DecidedSimulates DEF Stutters

LEMMA AwaitFailsSimulates ==
  ASSUME Typed, PlaceInv, NEW p \in Procs, AwaitFails(p) PROVE Contract!Next \/ Stutters
<1>1. CASE UNCHANGED <<pending, blocked>>
  BY <1>1, StatusKept DEF AwaitFails, Stutters, startupVars
<1>2. CASE ~UNCHANGED <<pending, blocked>>
  <2>1. /\ ~cancelled
        /\ ~halted
        /\ pending' = {}
        /\ blocked' = blocked \cup pending
        /\ ready' = ready
    BY <1>2 DEF AwaitFails, Halt, startupVars
  <2>2. ready[DependsOn[p][starter[p].dep]] = "failed"
    BY <2>1 DEF AwaitFails, Dep
  <2>3. Gated(p) /\ starter[p].dep \in DOMAIN DependsOn[p]
    BY DEF AwaitFails, PlaceInv, StarterPlace
  <2>4. status[p] # "free"
    BY <2>3 DEF status, StartupStatus
  <2>5. status' = Contract!Blocked
    BY <2>1, HaltSimulates DEF PlaceInv, Contract!Blocked, status
  <2>6. Contract!GiveUp(p)
    BY <2>1, <2>2, <2>3, <2>4, <2>5 DEF Contract!GiveUp, status
  <2> QED
    BY <2>6 DEF Contract!Next
<1> QED
  BY <1>1, <1>2

LEMMA StarterSimulates ==
  ASSUME Typed, ReadyInv, PlaceInv, NEW p \in Procs, StarterStep(p)
  PROVE  Contract!Next \/ Stutters
<1> USE DEF mainVars, stopVars, runVars, startupVars
<1>1. CASE \/ AwaitService(p) \/ StarterForks(p) \/ StarterAdopts(p) \/ StarterDiscards(p)
           \/ StarterStops(p) \/ StarterReaps(p) \/ TickerEnds(p)
  BY <1>1, StatusKept DEF AwaitService, StarterForks, StarterAdopts, StarterDiscards,
     StarterStops, StarterReaps, TickerEnds, Stutters
<1>2. CASE AwaitFails(p)
  BY <1>2, AwaitFailsSimulates
<1>3. CASE DependencyReady(p)
  <2>1. CASE pending' = pending
    BY <1>3, <2>1, StatusKept DEF DependencyReady, Stutters
  <2>2. CASE pending' # pending
    <3>1. p \in pending /\ pending' = pending \ {p} /\ LastDep(p) /\ UNCHANGED <<ready, blocked>>
      BY <1>3, <2>2 DEF DependencyReady, Settle
    <3>2. DepsReady(p)
      <4> DEFINE d == starter[p].dep
      <4>1. d \in Nat /\ DependsOn[p] \in Seq(Deps)
        BY ConfigAssumption DEF ConfigAssumption, Typed, TypeOK, StarterType
      <4>2. ready[DependsOn[p][d]] = "ready"
        BY <1>3 DEF DependencyReady, Dep
      <4>3. \A i \in DOMAIN DependsOn[p] : i < d + 1 => ready[DependsOn[p][i]] = "ready"
        BY <4>1, <4>2 DEF ReadyInv, StarterKnows
      <4> QED
        BY <3>1, <4>1, <4>3 DEF LastDep, DepsReady
    <3>3. Contract!Release(p)
      BY <3>1, <3>2, SettleSimulates DEF PlaceInv
    <3> QED
      BY <3>3 DEF Contract!Next
  <2> QED
    BY <2>1, <2>2
<1>4. CASE GateChecks(p)
  <2>1. CASE pending' = pending
    BY <1>4, <2>1, StatusKept DEF GateChecks, Stutters
  <2>2. CASE pending' # pending
    <3>1. p \in pending /\ pending' = pending \ {p} /\ UNCHANGED <<ready, blocked>>
      BY <1>4, <2>2 DEF GateChecks, Settle
    <3>2. DepsReady(p)
      BY <1>4 DEF GateChecks, ReadyInv, StarterKnows
    <3>3. Contract!Release(p)
      BY <3>1, <3>2, SettleSimulates DEF PlaceInv
    <3> QED
      BY <3>3 DEF Contract!Next
  <2> QED
    BY <2>1, <2>2
<1>5. CASE GateSettles(p)
  <2>1. pending' = pending \ {p} /\ UNCHANGED blocked /\ CheckHealth(p) /\ DepsReady(p)
    BY <1>5 DEF GateSettles, Settle, ReadyInv, StarterKnows
  <2>2. CASE p \in pending
    <3>1. Contract!Release(p)
      BY <2>1, <2>2, CheckSimulates, SettleSimulates DEF PlaceInv
    <3> QED
      BY <3>1 DEF Contract!Next
  <2>3. CASE p \notin pending
    BY <2>1, <2>3, StatusKept, CheckOnlySimulates
  <2> QED
    BY <2>2, <2>3
<1>6. CASE GateForkFails(p)
  <2>1. pending' = {} /\ blocked' = blocked \cup pending /\ ready' = Decided(p, "failed")
    BY <1>6 DEF GateForkFails, PlaceInv, GatesOK
  <2>2. DepsReady(p) /\ Gated(p)
    BY <1>6 DEF GateForkFails, ReadyInv, StarterKnows, PlaceInv, StarterPlace
  <2>3. status[p] # "free"
    BY <2>2 DEF status, StartupStatus
  <2>4. status' = Contract!Blocked
    BY <2>1, HaltSimulates DEF PlaceInv, Contract!Blocked, status
  <2>5. Contract!CannotStart(p)
    BY <2>1, <2>2, <2>3, <2>4
       DEF Contract!CannotStart, Contract!DepsReady, DepsReady, Contract!Decides, Decided, status
  <2> QED
    BY <2>5 DEF Contract!Next
<1> QED
  BY <1>1, <1>2, <1>3, <1>4, <1>5, <1>6 DEF StarterStep

\* A restart by hand starts what is waiting or blocked.
LEMMA MarkSimulates ==
  ASSUME Typed, PlaceInv, NEW c \in Callers, RestartMarks(c)
  PROVE  Contract!Next \/ Stutters
<1> DEFINE p == caller[c].proc
<1>1. p \in Procs
  BY ConfigAssumption DEF ConfigAssumption, RestartMarks, Typed, CallersNameProcesses
<1>2. pending' = pending \ {p} /\ blocked' = blocked \ {p} /\ CheckHealth(p)
  BY DEF RestartMarks, Settle
<1> HIDE DEF p
<1>3. CASE Gated(p) /\ p \in pending \cup blocked
  <2>1. status[p] \in {"waiting", "blocked"}
    BY <1>1, <1>3 DEF status, StartupStatus
  <2>2. status' = [status EXCEPT ![p] = "started"]
    BY <1>1, <1>2, <1>3 DEF status, StartupStatus, Gated
  <2>3. Contract!Force(p)
    BY <1>1, <1>2, <2>1, <2>2, CheckSimulates DEF Contract!Force, status
  <2> QED
    BY <1>1, <2>3 DEF Contract!Next
<1>4. CASE ~(Gated(p) /\ p \in pending \cup blocked)
  <2>1. UNCHANGED status
    BY <1>1, <1>2, <1>4 DEF status, StartupStatus, Gated
  <2> QED
    BY <1>1, <1>2, <2>1, CheckOnlySimulates
<1> QED
  BY <1>3, <1>4

LEMMA StepSimulates ==
  ASSUME Typed, ReadyInv, PlaceInv, [Next]_vars PROVE Contract!Next \/ Stutters
<1> USE DEF mainVars, stopVars, runVars, startupVars
<1>1. (UNCHANGED <<ready, pending, blocked>>) => Stutters
  BY StatusKept DEF Stutters
<1>2. ASSUME NEW p \in Procs, StarterStep(p) PROVE Contract!Next \/ Stutters
  BY <1>2, StarterSimulates
<1>3. ASSUME NEW p \in Procs, StartPlain(p) PROVE Contract!Next \/ Stutters
  BY <1>3, StatusKept, CheckOnlySimulates DEF StartPlain
<1>4. ASSUME NEW p \in Procs, WaiterStep(p) PROVE Contract!Next \/ Stutters
  BY <1>1, <1>4 DEF WaiterStep, WaiterPassesGate, WaiterReads, WaiterReaps, WaiterForks,
         WaiterForkFails, WaiterAdopts, WaiterDiscards, WaiterStops, WaiterEnds
<1>5. ASSUME NEW c \in Callers, RestartMarks(c) PROVE Contract!Next \/ Stutters
  BY <1>5, MarkSimulates
<1>6. ASSUME NEW c \in Callers, RestartCalled(c) \/ RestartStep(c), ~RestartMarks(c)
      PROVE  Contract!Next \/ Stutters
  BY <1>1, <1>6 DEF RestartCalled, RestartStep, RestartTakes, RestartStops, RestartJoins,
         RestartForks, RestartForkFails, RestartAdopts, RestartDiscards
<1>7. ASSUME NEW d \in Deps, HealthDecides(d) PROVE Contract!Next \/ Stutters
  BY <1>7, StatusKept, DecidedSimulates DEF HealthDecides
<1>8. ASSUME NEW p \in Procs, StartRecurring(p) \/ StartGated(p) \/ StartFails(p) PROVE Stutters
  BY <1>1, <1>8 DEF StartRecurring, StartGated, StartFails
<1> QED
  BY <1>1, <1>2, <1>3, <1>4, <1>5, <1>6, <1>7, <1>8
     DEF Next, Main, StartBegins, StartEnds, FailedStartExits, QuitSweeps, WaitBegins, WaitReturns,
         QuitCancels, StopCancels, StopSweeps, Exit, Over, vars

LEMMA InitSimulates == Init => Contract!Init
<1> SUFFICES ASSUME Init PROVE Contract!Init
  OBVIOUS
<1>1. status = [p \in Procs |-> IF DependsOn[p] = <<>> THEN "free" ELSE "waiting"]
  BY DEF Init, status, StartupStatus, Gated
<1> QED
  BY <1>1 DEF Init, Contract!Init, status

\* The startup that the goroutines of the manager carry out between them is
\* the one StartupContract describes: what a dependency's check found is
\* final, nothing waiting is started before its dependencies are ready, and
\* startup stops only for a failed dependency or a process that cannot start.
THEOREM Implements == Spec => ImplementsContract
<1>1. Init => Contract!Init
  BY InitSimulates
<1>2. Typed /\ ReadyInv /\ PlaceInv /\ [Next]_vars => [Contract!Next]_(Contract!cvars)
  BY StepSimulates DEF Stutters, Contract!cvars, status
<1> QED
  BY <1>1, <1>2, InitTyped, StepTyped, InitReady, StepReady, InitPlace, StepPlace, PTL
     DEF Spec, ImplementsContract, Contract!Spec

-----------------------------------------------------------------------------
(* A process that only one goroutine at a time may start never runs twice, *)
(* and Stop reaches it. Contended processes are left out: for those        *)
(* Restart races with a gate, a ticker, a waiter or another Restart.       *)

Ours == Procs \ Contended

Holding  == {"stop", "join", "fork", "adopt", "discard", "reap"}
Remaking == {"fork", "adopt", "discard", "reap"}

-----------------------------------------------------------------------------
(* Where the goroutines are while Start is at work, and what they hold     *)
(* then.                                                                   *)

\* Start has yet to come to p.
Unreached(p) == /\ main \in {"serving", "start"}
                /\ \A i \in DOMAIN Order : i < next => Order[i] # p

\* Nothing runs for p but r.
Sole(p, r) == \A s \in Runs : Running(s) /\ owner[s] = p => s = r

BeginInv ==
  /\ main \in {"serving", "start"} => ~cancelled
  /\ main = "failed" => cancelled
  /\ main \in {"serving", "start", "failed"} => \A c \in Callers : caller[c].pc = "idle"
  /\ main \in {"serving", "start"} => \A p \in Procs : starter[p].pc \notin {"settle", "run"}
  /\ main \notin {"waiting", "exited"} => \A p \in Procs : waiter[p].pc = "off"
  /\ \A p \in Procs : main = "serving" \/ Unreached(p) => starter[p].pc = "off"

\* A goroutine that has nothing in its hands.
EmptyInv ==
  /\ \A p \in Procs :
       /\ starter[p].pc \in {"off", "await", "check", "fork", "tick", "done"} => starter[p].run = NoRun
       /\ starter[p].pc # "off" => Gated(p) \/ p \in Recurring
       /\ starter[p].pc = "settle" => p \notin Recurring
       /\ waiter[p].pc = "fork" => waiter[p].run = NoRun
       /\ waiter[p].pc # "off" => p \notin Recurring
       /\ waiter[p].pc \in Remaking => p \in RestartOnCrash
  /\ \A c \in Callers :
       /\ caller[c].pc = "idle" => caller[c].proc = NoProc
       /\ caller[c].pc = "fork" => caller[c].run = NoRun

LEMMA StartingUnreached ==
  ASSUME Typed, NEW p \in Procs, Starting(p)
  PROVE  /\ Unreached(p)
         /\ \A q \in Procs : Unreached(q)' => Unreached(q) /\ q # p
<1>1. next \in DOMAIN Order /\ Order[next] = p /\ next' = next + 1 /\ main = "start"
  BY DEF Starting
<1>2. next \in Nat /\ DOMAIN Order \subseteq Nat
  BY ConfigAssumption DEF ConfigAssumption, Typed, TypeOK, MainType
<1>3. \A i \in DOMAIN Order : i < next => Order[i] # p
  BY <1>1, <1>2, ConfigAssumption DEF ConfigAssumption
<1>4. next < next' /\ \A i \in DOMAIN Order : i < next => i < next'
  BY <1>1, <1>2
<1> QED
  BY <1>1, <1>3, <1>4 DEF Unreached

LEMMA BeginStep ==
  ASSUME ~EarlyCalls, Typed, BeginInv, [Next]_vars
  PROVE  BeginInv'
<1> USE DEF Typed, TypeOK, BeginInv, mainVars, stopVars, runVars, startupVars
<1>0. (UNCHANGED <<main, next>>) => \A p \in Procs : Unreached(p)' <=> Unreached(p)
  BY DEF Unreached
<1>1. CASE StartBegins \/ StartEnds \/ FailedStartExits \/ WaitReturns \/ QuitSweeps \/ QuitCancels
  <2>1. \A p \in Procs : Unreached(p)' => Unreached(p)
    BY <1>1 DEF Unreached, StartBegins, StartEnds, FailedStartExits, WaitReturns, QuitSweeps, QuitCancels
  <2> QED
    BY <1>1, <2>1 DEF StartBegins, StartEnds, FailedStartExits, WaitReturns, QuitSweeps, QuitCancels
<1>2. CASE WaitBegins
  BY <1>2 DEF WaitBegins, Unreached
<1>3. ASSUME NEW p \in Procs, StartRecurring(p) \/ StartGated(p) \/ StartPlain(p) PROVE BeginInv'
  <2>1. Starting(p) /\ main = "start" /\ UNCHANGED <<main, cancelled, caller, waiter>>
    BY <1>3 DEF StartRecurring, StartGated, StartPlain, Starting
  <2>2. \A q \in Procs \ {p} : starter'[q] = starter[q]
    BY <1>3 DEF StartRecurring, StartGated, StartPlain, StarterType
  <2>3. starter'[p].pc \in {"await", "tick", starter[p].pc}
    BY <1>3 DEF StartRecurring, StartGated, StartPlain, StarterType
  <2> QED
    BY <2>1, <2>2, <2>3, StartingUnreached
<1>4. ASSUME NEW p \in Procs, StartFails(p) PROVE BeginInv'
  BY <1>4 DEF StartFails, Starting, Unreached
<1>5. CASE StopCancels \/ StopSweeps
  BY <1>0, <1>5 DEF StopCancels, StopSweeps, Open
<1>6. ASSUME NEW p \in Procs, StarterStep(p) PROVE BeginInv'
  <2>1. UNCHANGED <<main, next, cancelled, caller, waiter>>
    BY <1>6 DEF StarterStep, AwaitService, DependencyReady, AwaitFails, GateChecks, StarterForks,
         GateForkFails, StarterAdopts, GateSettles, StarterDiscards, StarterStops, StarterReaps,
         TickerEnds
  <2>2. \A q \in Procs \ {p} : starter'[q] = starter[q]
    BY <1>6 DEF StarterType, StarterStep, AwaitService, DependencyReady, AwaitFails, GateChecks,
       StarterForks,
         GateForkFails, StarterAdopts, GateSettles, StarterDiscards, StarterStops, StarterReaps,
         TickerEnds
  <2>3. starter[p].pc # "off"
    BY <1>6, <1>0, <2>1 DEF StarterStep, AwaitService, DependencyReady, AwaitFails, GateChecks,
       StarterForks,
         GateForkFails, StarterAdopts, GateSettles, StarterDiscards, StarterStops, StarterReaps,
         TickerEnds
  <2>4. main \in {"serving", "start"} => starter'[p].pc \notin {"settle", "run"}
    BY <1>6 DEF StarterType, LockFree, AfterDeps, StarterStep, AwaitService, DependencyReady, AwaitFails,
         GateChecks, StarterForks, GateForkFails, StarterAdopts, GateSettles, StarterDiscards,
         StarterStops,
         StarterReaps, TickerEnds
  <2> QED
    BY <1>0, <2>1, <2>2, <2>3, <2>4
<1>7. ASSUME NEW p \in Procs, WaiterStep(p) PROVE BeginInv'
  <2>1. UNCHANGED <<main, next, cancelled, caller, starter>> /\ waiter[p].pc # "off"
    BY <1>7 DEF WaiterStep, WaiterPassesGate, WaiterReads, WaiterReaps, WaiterForks,
         WaiterForkFails, WaiterAdopts, WaiterDiscards, WaiterStops, WaiterEnds
  <2> QED
    BY <1>0, <2>1
<1>8. ASSUME NEW c \in Callers, RestartCalled(c) \/ RestartStep(c) PROVE BeginInv'
  <2>1. UNCHANGED <<main, next, cancelled, waiter, starter>>
    BY <1>8 DEF RestartCalled, RestartStep, RestartTakes, RestartStops, RestartJoins, RestartForks,
         RestartForkFails, RestartAdopts, RestartDiscards, RestartMarks
  <2>2. main \notin {"serving", "start", "failed"}
    BY <1>8 DEF Open, RestartCalled, RestartStep, RestartTakes, RestartStops, RestartJoins, RestartForks,
         RestartForkFails, RestartAdopts, RestartDiscards, RestartMarks
  <2> QED
    BY <1>0, <2>1, <2>2
<1>9. CASE (\E d \in Deps : HealthDecides(d)) \/ (\E r \in Runs : Exit(r)) \/ UNCHANGED vars
  BY <1>0, <1>9 DEF HealthDecides, Exit, vars
<1> QED
  BY <1>1, <1>2, <1>3, <1>4, <1>5, <1>6, <1>7, <1>8, <1>9 DEF Next, Main, Over

LEMMA EmptyStep ==
  ASSUME Typed, BeginInv, EmptyInv, [Next]_vars
  PROVE  EmptyInv'
<1> USE DEF Typed, TypeOK, EmptyInv, Remaking, mainVars, stopVars, runVars, startupVars
<1>0. \A p \in Procs : Gated(p)' <=> Gated(p)
  BY DEF Gated
<1>1. CASE UNCHANGED <<starter, waiter, caller>>
  BY <1>0, <1>1
<1>2. CASE WaitBegins
  BY <1>0, <1>2 DEF WaitBegins, WaiterType
<1>3. ASSUME NEW p \in Procs, StartRecurring(p) \/ StartGated(p) PROVE EmptyInv'
  <2>1. starter[p].pc = "off"
    BY <1>3, StartingUnreached DEF BeginInv, StartRecurring, StartGated
  <2> QED
    BY <1>0, <1>3, <2>1 DEF StartRecurring, StartGated, StarterType
<1>4. ASSUME NEW p \in Procs, StarterStep(p) PROVE EmptyInv'
  <2>1. UNCHANGED <<caller, waiter>>
    BY <1>4 DEF StarterStep, AwaitService, DependencyReady, AwaitFails, GateChecks, StarterForks,
         GateForkFails, StarterAdopts, GateSettles, StarterDiscards, StarterStops, StarterReaps,
         TickerEnds
  <2>2. \A q \in Procs \ {p} : starter'[q] = starter[q]
    BY <1>4 DEF StarterType, StarterStep, AwaitService, DependencyReady, AwaitFails, GateChecks,
       StarterForks,
         GateForkFails, StarterAdopts, GateSettles, StarterDiscards, StarterStops, StarterReaps,
         TickerEnds
  <2>3. starter[p].pc # "off"
    BY <1>4 DEF StarterStep, AwaitService, DependencyReady, AwaitFails, GateChecks, StarterForks,
         GateForkFails, StarterAdopts, GateSettles, StarterDiscards, StarterStops, StarterReaps,
         TickerEnds
  <2>4. /\ starter'[p].pc \in {"off", "await", "check", "fork", "tick", "done"} => starter'[p].run = NoRun
        /\ starter'[p].pc = "settle" => p \notin Recurring
    BY <1>4 DEF StarterType, AfterDeps, StarterStep, AwaitService, DependencyReady, AwaitFails,
         GateChecks, StarterForks, GateForkFails, StarterAdopts, GateSettles, StarterDiscards,
         StarterStops,
         StarterReaps, TickerEnds
  <2> QED
    BY <1>0, <2>1, <2>2, <2>3, <2>4
<1>5. ASSUME NEW p \in Procs, WaiterStep(p) PROVE EmptyInv'
  <2>1. UNCHANGED <<caller, starter>> /\ waiter[p].pc # "off"
    BY <1>5 DEF WaiterStep, WaiterPassesGate, WaiterReads, WaiterReaps, WaiterForks,
         WaiterForkFails, WaiterAdopts, WaiterDiscards, WaiterStops, WaiterEnds
  <2>2. \A q \in Procs \ {p} : waiter'[q] = waiter[q]
    BY <1>5 DEF WaiterType, WaiterStep, WaiterPassesGate, WaiterReads, WaiterReaps, WaiterForks,
         WaiterForkFails, WaiterAdopts, WaiterDiscards, WaiterStops, WaiterEnds
  <2>3. /\ waiter'[p].pc = "fork" => waiter'[p].run = NoRun
        /\ waiter'[p].pc \in Remaking => p \in RestartOnCrash
    <3>1. CASE WaiterReaps(p)
      BY <3>1 DEF WaiterType, WaiterReaps
    <3>2. CASE ~WaiterReaps(p)
      BY <1>5, <3>2 DEF WaiterType, WaiterStep, WaiterPassesGate, WaiterReads, WaiterForks,
         WaiterForkFails, WaiterAdopts, WaiterDiscards, WaiterStops, WaiterEnds
    <3> QED
      BY <3>1, <3>2
  <2> QED
    BY <1>0, <2>1, <2>2, <2>3
<1>6. ASSUME NEW c \in Callers, RestartCalled(c) \/ RestartStep(c) PROVE EmptyInv'
  <2>1. UNCHANGED <<waiter, starter>>
    BY <1>6 DEF RestartCalled, RestartStep, RestartTakes, RestartStops, RestartJoins, RestartForks,
         RestartForkFails, RestartAdopts, RestartDiscards, RestartMarks
  <2>2. \A d \in Callers \ {c} : caller'[d] = caller[d]
    BY <1>6 DEF CallerType, RestartCalled, RestartStep, RestartTakes, RestartStops, RestartJoins,
       RestartForks,
         RestartForkFails, RestartAdopts, RestartDiscards, RestartMarks
  <2>3. /\ caller'[c].pc = "idle" => caller'[c].proc = NoProc
        /\ caller'[c].pc = "fork" => caller'[c].run = NoRun
    BY <1>6 DEF CallerType, RestartCalled, RestartStep, RestartTakes, RestartStops, RestartJoins,
       RestartForks,
         RestartForkFails, RestartAdopts, RestartDiscards, RestartMarks
  <2> QED
    BY <1>0, <2>1, <2>2, <2>3
<1>7. QED
  <2>1. CASE Main
    BY <1>1, <1>2, <1>3, <2>1 DEF Main, StartBegins, StartEnds, FailedStartExits, StartPlain, StartFails,
         QuitSweeps, WaitReturns
  <2>2. CASE \/ QuitCancels \/ StopCancels \/ StopSweeps \/ UNCHANGED vars
             \/ (\E d \in Deps : HealthDecides(d)) \/ (\E r \in Runs : Exit(r))
    BY <1>1, <2>2 DEF QuitCancels, StopCancels, StopSweeps, HealthDecides, Exit, vars
  <2> QED
    BY <1>4, <1>5, <1>6, <2>1, <2>2 DEF Next, Over

-----------------------------------------------------------------------------
(* A gate hands its process over to the waiter: the waiter is let through  *)
(* only when the gate has settled, with the run registered.                *)

Working == {"read", "wait"} \cup Remaking

GateHandsOver(p) ==
  /\ starter[p].pc # "done" => p \in pending \cup blocked
  /\ waiter[p].pc \in Working => starter[p].pc = "done"
  /\ starter[p].pc = "settle" => processes[p] = starter[p].run

HandoverInv ==
  \A p \in Procs \ (Restartable \cup Recurring) :
    /\ Gated(p) => GateHandsOver(p)
    /\ waiter[p].pc = "wait" => processes[p] = waiter[p].run

LEMMA HandoverStep ==
  ASSUME Typed, BeginInv, EmptyInv, HandoverInv, [Next]_vars
  PROVE  HandoverInv'
<1> SUFFICES ASSUME NEW q \in Procs \ (Restartable \cup Recurring)
             PROVE  /\ Gated(q) => GateHandsOver(q)'
                    /\ waiter'[q].pc = "wait" => processes'[q] = waiter'[q].run
  BY DEF HandoverInv, Gated
<1> USE ConfigAssumption DEF ConfigAssumption, Typed, TypeOK, HandoverInv, GateHandsOver, Working,
   Remaking,
        mainVars, stopVars, runVars, startupVars
\* Nothing of q changes, but that it may be blocked or settled already.
<1>0. ASSUME starter'[q] = starter[q], waiter'[q] = waiter[q], processes'[q] = processes[q],
             q \in pending \cup blocked => q \in (pending \cup blocked)'
      PROVE  /\ Gated(q) => GateHandsOver(q)'
             /\ waiter'[q].pc = "wait" => processes'[q] = waiter'[q].run
  BY <1>0
<1>1. CASE Main
  <2>1. CASE StartBegins \/ StartEnds \/ FailedStartExits \/ QuitSweeps \/ WaitReturns
    BY <1>0, <2>1 DEF StartBegins, StartEnds, FailedStartExits, QuitSweeps, WaitReturns
  <2>2. ASSUME NEW p \in Procs, StartRecurring(p)
        PROVE  starter'[q] = starter[q] /\ processes'[q] = processes[q]
               /\ UNCHANGED <<waiter, pending, blocked>>
    BY <2>2 DEF StartRecurring, StarterType, ProcessesType
  <2>3. ASSUME NEW p \in Procs, StartGated(p)
        PROVE  /\ Gated(q) => GateHandsOver(q)'
               /\ waiter'[q].pc = "wait" => processes'[q] = waiter'[q].run
    <3>1. CASE p = q
      <4>1. main = "start" /\ starter[q].pc = "off" /\ waiter[q].pc = "off"
        BY <2>3, <3>1, StartingUnreached DEF StartGated, Starting, BeginInv
      <4> QED
        BY <2>3, <3>1, <4>1 DEF StartGated, StarterType
    <3>2. CASE p # q
      BY <1>0, <2>3, <3>2 DEF StartGated, StarterType
    <3> QED
      BY <3>1, <3>2
  <2>4. ASSUME NEW p \in Procs, StartPlain(p) \/ StartFails(p)
        PROVE  /\ Gated(q) => GateHandsOver(q)'
               /\ waiter'[q].pc = "wait" => processes'[q] = waiter'[q].run
    <3>1. main = "start" /\ waiter[q].pc = "off" /\ starter[q].pc # "settle"
      BY <2>4 DEF StartPlain, StartFails, Starting, BeginInv
    <3> QED
      BY <2>4, <3>1 DEF StartPlain, StartFails
  <2>5. CASE WaitBegins
    BY <2>5 DEF WaitBegins, WaiterType, BeginInv
  <2> QED
    BY <1>0, <1>1, <2>1, <2>2, <2>3, <2>4, <2>5 DEF Main
<1>2. ASSUME NEW p \in Procs, StarterStep(p)
      PROVE  /\ Gated(q) => GateHandsOver(q)'
             /\ waiter'[q].pc = "wait" => processes'[q] = waiter'[q].run
  <2>1. CASE p # q
    <3>1. q \in pending \cup blocked => q \in (pending \cup blocked)'
      BY <1>2, <2>1 DEF Settle, Halt, StarterStep, AwaitService, DependencyReady, AwaitFails,
         GateChecks, StarterForks,
         GateForkFails, StarterAdopts, GateSettles, StarterDiscards, StarterStops, StarterReaps,
         TickerEnds
    <3>2. starter'[q] = starter[q] /\ processes'[q] = processes[q] /\ UNCHANGED waiter
      BY <1>2, <2>1 DEF StarterType, ProcessesType, StarterStep, AwaitService, DependencyReady,
         AwaitFails,
         GateChecks, StarterForks, GateForkFails, StarterAdopts, GateSettles, StarterDiscards,
         StarterStops,
         StarterReaps, TickerEnds
    <3> QED
      BY <1>0, <3>1, <3>2
  <2>2. CASE p = q
    <3>1. starter[q].pc \notin {"off", "done"} /\ Gated(q)
      BY <1>2, <2>2 DEF EmptyInv, StarterStep, AwaitService, DependencyReady, AwaitFails, GateChecks,
         StarterForks, GateForkFails, StarterAdopts, GateSettles, StarterDiscards, StarterStops,
         StarterReaps,
         TickerEnds
    <3>2. q \in pending \cup blocked /\ waiter[q].pc \notin Working /\ UNCHANGED waiter
      BY <1>2, <2>2, <3>1 DEF StarterStep, AwaitService, DependencyReady, AwaitFails, GateChecks,
         StarterForks, GateForkFails, StarterAdopts, GateSettles, StarterDiscards, StarterStops,
         StarterReaps,
         TickerEnds
    <3>3. starter'[q].pc # "done" => q \in (pending \cup blocked)'
      BY <1>2, <2>2, <3>2 DEF StarterType, Settle, Halt, StarterStep, AwaitService, DependencyReady,
         AwaitFails,
         GateChecks, StarterForks, GateForkFails, StarterAdopts, GateSettles, StarterDiscards,
         StarterStops,
         StarterReaps, TickerEnds
    <3>4. starter'[q].pc = "settle" => processes'[q] = starter'[q].run
      BY <1>2, <2>2, <3>1 DEF StarterType, ProcessesType, AfterDeps, StarterStep, AwaitService,
         DependencyReady,
         AwaitFails, GateChecks, StarterForks, GateForkFails, StarterAdopts, GateSettles,
         StarterDiscards,
         StarterStops, StarterReaps, TickerEnds
    <3> QED
      BY <3>1, <3>2, <3>3, <3>4
  <2> QED
    BY <2>1, <2>2
<1>3. ASSUME NEW p \in Procs, WaiterStep(p)
      PROVE  /\ Gated(q) => GateHandsOver(q)'
             /\ waiter'[q].pc = "wait" => processes'[q] = waiter'[q].run
  <2>0. UNCHANGED <<starter, pending, blocked>>
    BY <1>3 DEF WaiterStep, WaiterPassesGate, WaiterReads, WaiterReaps, WaiterForks,
         WaiterForkFails, WaiterAdopts, WaiterDiscards, WaiterStops, WaiterEnds
  <2>1. CASE p # q
    <3>1. waiter'[q] = waiter[q] /\ processes'[q] = processes[q]
      BY <1>3, <2>1 DEF WaiterType, ProcessesType, WaiterStep, WaiterPassesGate, WaiterReads,
         WaiterReaps,
         WaiterForks, WaiterForkFails, WaiterAdopts, WaiterDiscards, WaiterStops, WaiterEnds
    <3> QED
      BY <1>0, <2>0, <3>1
  <2>2. CASE p = q
    <3>1. CASE WaiterPassesGate(q)
      BY <2>0, <3>1 DEF WaiterPassesGate, WaiterType
    <3>2. CASE WaiterReads(q)
      BY <2>0, <3>2 DEF WaiterReads, WaiterType, Existing
    <3>3. CASE WaiterReaps(q)
      BY <2>0, <3>3 DEF WaiterReaps, WaiterType
    <3>4. CASE WaiterForks(q) \/ WaiterForkFails(q) \/ WaiterDiscards(q) \/ WaiterStops(q) \/ WaiterEnds(q)
      BY <2>0, <3>4 DEF WaiterForks, WaiterForkFails, WaiterDiscards, WaiterStops, WaiterEnds, WaiterType
    <3>5. CASE WaiterAdopts(q)
      BY <2>0, <3>5 DEF WaiterAdopts, WaiterType
    <3> QED
      BY <1>3, <2>2, <3>1, <3>2, <3>3, <3>4, <3>5 DEF WaiterStep
  <2> QED
    BY <2>1, <2>2
<1>4. ASSUME NEW c \in Callers, RestartCalled(c) \/ RestartStep(c)
      PROVE  /\ starter'[q] = starter[q] /\ waiter'[q] = waiter[q] /\ processes'[q] = processes[q]
             /\ q \in pending \cup blocked => q \in (pending \cup blocked)'
  <2>1. caller[c].pc = "idle" \/ caller[c].proc # q
    BY DEF CallersNameProcesses
  <2> QED
    BY <1>4, <2>1 DEF ProcessesType, Settle, RestartCalled, RestartStep, RestartTakes, RestartStops,
       RestartJoins,
         RestartForks, RestartForkFails, RestartAdopts, RestartDiscards, RestartMarks
<1>5. CASE \/ QuitCancels \/ StopCancels \/ StopSweeps \/ UNCHANGED vars
           \/ (\E d \in Deps : HealthDecides(d)) \/ (\E r \in Runs : Exit(r))
  BY <1>0, <1>5 DEF QuitCancels, StopCancels, StopSweeps, HealthDecides, Exit, vars
<1> QED
  BY <1>0, <1>1, <1>2, <1>3, <1>4, <1>5 DEF Next, Over

-----------------------------------------------------------------------------
(* Where the one run of a process is to be found.                          *)

\* Start, the gate or the ticker has not passed p on.
Before(p) == p \in Recurring \/ (Gated(p) /\ starter[p].pc # "done")

HoldsFor(c, p) == caller[c].proc = p /\ caller[c].pc \in Holding

Found(p) ==
  /\ waiter[p].pc \in Remaking => Sole(p, waiter[p].run)
  /\ \A c \in Callers : HoldsFor(c, p) => Sole(p, caller[c].run)
  /\ \/ waiter[p].pc \in Remaking
     \/ \E c \in Callers : HoldsFor(c, p)
     \/ Sole(p, processes[p])

Once(p) == \A r, s \in Runs : Running(r) /\ Running(s) /\ owner[r] = p /\ owner[s] = p => r = s

Spot(p) ==
  /\ Once(p)
  /\ Before(p) => Sole(p, starter[p].run)
  /\ ~Before(p) /\ main \notin {"failed", "exited"} => Found(p)
  /\ Unreached(p) => Sole(p, NoRun)

SpotInv == \A p \in Ours : Spot(p)

\* A step that starts no run of p ...
Calm(p) == \A s \in Runs : Running(s)' /\ owner'[s] = p => Running(s) /\ owner[s] = p

\* ... and takes none from the hands it is in.
Undisturbed(p) ==
  /\ Calm(p)
  /\ processes'[p] = processes[p]
  /\ starter'[p].run = starter[p].run
  /\ starter'[p].pc = "done" <=> starter[p].pc = "done"
  /\ waiter'[p] = waiter[p] \/ (waiter[p].pc \notin Remaking /\ waiter'[p].pc \notin Remaking)
  /\ \A c \in Callers : caller'[c] = caller[c] \/ (~HoldsFor(c, p) /\ ~HoldsFor(c, p)')

LEMMA SameCalm ==
  ASSUME NEW q, UNCHANGED runVars PROVE Calm(q)
BY DEF Calm, runVars, Running

LEMMA SignalledCalm ==
  ASSUME RunType, NEW q, NEW S, life' = Signalled(S), UNCHANGED owner PROVE Calm(q)
BY DEF Calm, RunType, Signalled, Running

LEMMA ForkCalm ==
  ASSUME RunType, NEW q, NEW p, p # q, NEW r \in Runs, Fork(p, r) PROVE Calm(q)
BY DEF Calm, RunType, Fork, Running

LEMMA ExitCalm ==
  ASSUME RunType, NEW q, NEW r \in Runs, Exit(r) PROVE Calm(q)
BY DEF Calm, RunType, Exit, Running

\* Whoever reaps the run of q leaves q with none.
LEMMA ReapCalm ==
  ASSUME RunType, NEW q \in Procs, NEW r, Reap(r)
  PROVE  Calm(q) /\ (Sole(q, r) => Sole(q, NoRun)')
<1> USE DEF RunType, Reap, Running
<1>1. Calm(q)
  BY DEF Calm
<1>2. Sole(q, r) => Sole(q, NoRun)'
  BY DEF Sole
<1> QED
  BY <1>1, <1>2

LEMMA ForkSole ==
  ASSUME RunType, NEW q \in Procs, Sole(q, NoRun), NEW r \in Runs, Fork(q, r)
  PROVE  \A s \in Runs : Running(s)' /\ owner'[s] = q => s = r
BY ConfigAssumption DEF ConfigAssumption, RunType, Fork, Running, Sole

LEMMA SpotKept ==
  ASSUME NEW q \in Procs, Spot(q), Undisturbed(q),
         main \in {"failed", "exited"} => main' \in {"failed", "exited"},
         Unreached(q)' => Unreached(q)
  PROVE  Spot(q)'
<1>1. Before(q)' <=> Before(q)
  BY DEF Before, Gated, Undisturbed
<1>2. Once(q)'
  BY DEF Spot, Once, Undisturbed, Calm
<1>3. \A r : Sole(q, r) => \A s \in Runs : Running(s)' /\ owner'[s] = q => s = r
  BY DEF Sole, Undisturbed, Calm
<1>4. Before(q) => Sole(q, starter[q].run)'
  BY <1>3 DEF Spot, Undisturbed, Sole
<1>5. Unreached(q)' => Sole(q, NoRun)'
  BY <1>3 DEF Spot, Sole
<1>6. Found(q) => Found(q)'
  <2> SUFFICES ASSUME Found(q) PROVE Found(q)'
    OBVIOUS
  <2>1. waiter'[q].pc \in Remaking => Sole(q, waiter[q].run)'
    BY <1>3 DEF Found, Undisturbed, Sole
  <2>2. ASSUME NEW c \in Callers, HoldsFor(c, q)' PROVE Sole(q, caller[c].run)'
    <3>1. caller'[c] = caller[c] /\ HoldsFor(c, q)
      BY <2>2 DEF Undisturbed, HoldsFor
    <3>2. Sole(q, caller[c].run)
      BY <3>1 DEF Found
    <3> QED
      BY <1>3, <3>1, <3>2 DEF Sole
  <2>3. waiter[q].pc \in Remaking => waiter'[q].pc \in Remaking
    BY DEF Undisturbed
  <2>4. \A c \in Callers : HoldsFor(c, q) => HoldsFor(c, q)'
    BY DEF Undisturbed, HoldsFor
  <2>5. Sole(q, processes[q]) => Sole(q, processes[q])'
    BY <1>3 DEF Undisturbed, Sole
  <2> QED
    BY <2>1, <2>2, <2>3, <2>4, <2>5 DEF Found
<1> QED
  BY <1>1, <1>2, <1>4, <1>5, <1>6 DEF Spot

\* A run() that has failed or exited stays so, and Start only goes forward.
LEMMA MainForward ==
  ASSUME Typed, [Next]_vars
  PROVE  /\ main \in {"failed", "exited"} => main' \in {"failed", "exited"}
         /\ \A q \in Procs : Unreached(q)' => Unreached(q)
<1> USE DEF Typed, TypeOK, mainVars, stopVars, runVars, startupVars
<1>0. CASE UNCHANGED <<main, next>>
  BY <1>0 DEF Unreached
<1>1. CASE \/ StartBegins \/ StartEnds \/ FailedStartExits \/ WaitBegins \/ WaitReturns
           \/ QuitSweeps \/ QuitCancels
  BY <1>1 DEF Unreached, StartBegins, StartEnds, FailedStartExits, WaitBegins, WaitReturns, QuitSweeps,
     QuitCancels
<1>2. ASSUME NEW p \in Procs, StartRecurring(p) \/ StartGated(p) \/ StartPlain(p)
      PROVE  /\ main \in {"failed", "exited"} => main' \in {"failed", "exited"}
             /\ \A q \in Procs : Unreached(q)' => Unreached(q)
  <2>1. Starting(p) /\ main = "start"
    BY <1>2 DEF StartRecurring, StartGated, StartPlain, Starting
  <2> QED
    BY <2>1, StartingUnreached
<1>3. ASSUME NEW p \in Procs, StartFails(p)
      PROVE  /\ main \in {"failed", "exited"} => main' \in {"failed", "exited"}
             /\ \A q \in Procs : Unreached(q)' => Unreached(q)
  BY <1>3 DEF StartFails, Starting, Unreached
<1>4. ASSUME NEW p \in Procs, StarterStep(p) \/ WaiterStep(p) PROVE UNCHANGED <<main, next>>
  BY <1>4 DEF StarterStep, AwaitService, DependencyReady, AwaitFails, GateChecks, StarterForks,
     GateForkFails, StarterAdopts, GateSettles, StarterDiscards, StarterStops, StarterReaps, TickerEnds,
     WaiterStep, WaiterPassesGate, WaiterReads, WaiterReaps, WaiterForks,
     WaiterForkFails, WaiterAdopts, WaiterDiscards, WaiterStops, WaiterEnds
<1>5. ASSUME NEW c \in Callers, RestartCalled(c) \/ RestartStep(c) PROVE UNCHANGED <<main, next>>
  BY <1>5 DEF RestartCalled, RestartStep, RestartTakes, RestartStops, RestartJoins, RestartForks,
     RestartForkFails, RestartAdopts, RestartDiscards, RestartMarks
<1>6. CASE \/ StopCancels \/ StopSweeps \/ UNCHANGED vars
           \/ (\E d \in Deps : HealthDecides(d)) \/ (\E r \in Runs : Exit(r))
  BY <1>0, <1>6 DEF StopCancels, StopSweeps, HealthDecides, Exit, vars
<1> QED
  BY <1>0, <1>1, <1>2, <1>3, <1>4, <1>5, <1>6 DEF Next, Main, Over

\* With nothing running for q there is nothing to find.
LEMMA NoneSpot == ASSUME NEW q \in Procs, Sole(q, NoRun)' PROVE Spot(q)'
BY ConfigAssumption DEF ConfigAssumption, Spot, Once, Found, Sole

LEMMA MainSpot ==
  ASSUME Typed, BeginInv, EmptyInv, NEW q \in Procs, Spot(q), Main
  PROVE  Spot(q)'
<1> USE DEF Typed, TypeOK, mainVars, stopVars, runVars, startupVars
<1>0. /\ main \in {"failed", "exited"} => main' \in {"failed", "exited"}
      /\ \A p \in Procs : Unreached(p)' => Unreached(p)
  BY MainForward DEF Next
<1>1. CASE StartBegins \/ StartEnds \/ FailedStartExits \/ WaitReturns
  <2>1. Calm(q)
    BY <1>1, SameCalm DEF StartBegins, StartEnds, FailedStartExits, WaitReturns
  <2>2. Undisturbed(q)
    BY <1>1, <2>1 DEF Undisturbed, StartBegins, StartEnds, FailedStartExits, WaitReturns
  <2> QED
    BY <1>0, <2>2, SpotKept
<1>2. CASE QuitSweeps
  <2>1. Calm(q)
    BY <1>2, SignalledCalm DEF QuitSweeps, Sweep
  <2>2. Undisturbed(q)
    BY <1>2, <2>1 DEF Undisturbed, QuitSweeps
  <2> QED
    BY <1>0, <2>2, SpotKept
<1>3. CASE WaitBegins
  <2>1. Calm(q)
    BY <1>3, SameCalm DEF WaitBegins
  <2>2. waiter[q].pc \notin Remaking /\ waiter'[q].pc \notin Remaking
    BY <1>3 DEF WaitBegins, WaiterType, BeginInv, Remaking
  <2>3. Undisturbed(q)
    BY <1>3, <2>1, <2>2 DEF Undisturbed, WaitBegins
  <2> QED
    BY <1>0, <2>3, SpotKept
<1>4. ASSUME NEW p \in Procs, StartRecurring(p) \/ StartGated(p) PROVE Spot(q)'
  <2>1. Calm(q)
    BY <1>4, SameCalm DEF StartRecurring, StartGated
  <2>2. CASE p # q
    <3>1. Undisturbed(q)
      BY <1>4, <2>1, <2>2 DEF Undisturbed, StartRecurring, StartGated, StarterType, ProcessesType
    <3> QED
      BY <1>0, <3>1, SpotKept
  <2>3. CASE p = q
    <3>1. Unreached(q) /\ Starting(q)
      BY <1>4, <2>3, StartingUnreached DEF StartRecurring, StartGated
    <3>2. Sole(q, NoRun)
      BY <3>1 DEF Spot
    <3>3. Sole(q, NoRun)'
      BY <2>1, <3>2 DEF Sole, Calm
    <3> QED
      BY <3>3, NoneSpot
  <2> QED
    BY <2>2, <2>3
<1>5. ASSUME NEW p \in Procs, StartPlain(p) PROVE Spot(q)'
  <2>1. PICK r \in Runs : Fork(p, r) /\ processes' = [processes EXCEPT ![p] = r]
    BY <1>5 DEF StartPlain
  <2>2. CASE p # q
    <3>1. Calm(q)
      BY <2>1, <2>2, ForkCalm
    <3>2. Undisturbed(q)
      BY <1>5, <2>1, <2>2, <3>1 DEF Undisturbed, StartPlain, ProcessesType
    <3> QED
      BY <1>0, <3>2, SpotKept
  <2>3. CASE p = q
    <3>1. Unreached(q) /\ Starting(q) /\ ~Unreached(q)'
      BY <1>5, <2>3, StartingUnreached DEF StartPlain
    <3>2. \A s \in Runs : Running(s)' /\ owner'[s] = q => s = r
      BY <2>1, <2>3, <3>1, ForkSole DEF Spot
    <3>3. ~Before(q)' /\ processes'[q] = r
      BY <1>5, <2>1, <2>3 DEF Before, Gated, StartPlain, ProcessesType
    <3>4. main = "start" /\ UNCHANGED <<waiter, caller>>
      BY <1>5 DEF StartPlain, Starting
    <3>5. Found(q)'
      BY <3>2, <3>3, <3>4 DEF Found, HoldsFor, Sole, BeginInv, Remaking, Holding
    <3> QED
      BY <3>1, <3>2, <3>3, <3>5 DEF Spot, Once
  <2> QED
    BY <2>2, <2>3
<1>6. ASSUME NEW p \in Procs, StartFails(p) PROVE Spot(q)'
  <2>1. Calm(q)
    BY <1>6, SignalledCalm DEF StartFails
  <2>2. main' = "failed" /\ UNCHANGED starter
    BY <1>6 DEF StartFails
  <2>3. Once(q)' /\ (Sole(q, starter[q].run) => Sole(q, starter[q].run)')
    BY <2>1, <2>2 DEF Spot, Once, Sole, Calm
  <2>4. Before(q)' => Before(q)
    BY <2>2 DEF Before, Gated
  <2> QED
    BY <2>2, <2>3, <2>4 DEF Spot, Unreached
<1> QED
  BY <1>1, <1>2, <1>3, <1>4, <1>5, <1>6 DEF Main

\* The gate or the ticker of q has it in its hands until it is done.
LEMMA OwnStarterSpot ==
  ASSUME Typed, BeginInv, EmptyInv, HandoverInv, NEW q \in Ours, Spot(q), StarterStep(q)
  PROVE  Spot(q)'
<1> USE DEF Typed, TypeOK, mainVars, stopVars, runVars, startupVars
<1>1. /\ starter[q].pc \notin {"off", "done"}
      /\ UNCHANGED <<main, next, waiter, caller>>
  BY DEF StarterStep, AwaitService, DependencyReady, AwaitFails, GateChecks, StarterForks,
     GateForkFails, StarterAdopts, GateSettles, StarterDiscards, StarterStops, StarterReaps, TickerEnds
<1>2. q \in Procs /\ q \notin Restartable /\ (Gated(q) \/ q \in Recurring)
  BY <1>1 DEF EmptyInv, Ours, Contended
<1>3. ~Unreached(q)'
  BY <1>1, <1>2 DEF BeginInv, Unreached
<1>4. Before(q) /\ Sole(q, starter[q].run)
  BY <1>1, <1>2 DEF Before, Spot
<1>5. q \notin Recurring => waiter'[q].pc \notin Remaking
  BY <1>1, <1>2 DEF HandoverInv, GateHandsOver, Working
<1>6. \A c \in Callers : ~HoldsFor(c, q)'
  BY <1>1, <1>2 DEF HoldsFor, CallersNameProcesses, Holding
\* It suffices to know where the run is.
<1>7. ASSUME Sole(q, starter[q].run)',
             starter'[q].pc = "done" /\ q \notin Recurring => Sole(q, processes[q])'
      PROVE  Spot(q)'
  <2>1. Once(q)'
    BY <1>7 DEF Once, Sole
  <2>2. ~Before(q)' => Found(q)'
    BY <1>2, <1>5, <1>6, <1>7 DEF Before, Gated, Found, Sole
  <2> QED
    BY <1>3, <1>7, <2>1, <2>2 DEF Spot, Sole
<1>8. CASE AwaitService(q) \/ DependencyReady(q) \/ StarterAdopts(q) \/ StarterDiscards(q)
  <2>1. starter'[q].run = starter[q].run /\ starter'[q].pc # "done" /\ UNCHANGED runVars
    BY <1>1, <1>2, <1>8 DEF AwaitService, DependencyReady, AfterDeps, StarterAdopts, StarterDiscards,
       StarterType
  <2> QED
    BY <1>4, <1>7, <2>1 DEF Sole, Running
<1>9. CASE StarterStops(q)
  <2>1. starter'[q].run = starter[q].run /\ starter'[q].pc # "done"
    BY <1>2, <1>9 DEF StarterStops, StarterType
  <2>2. Calm(q)
    BY <1>9, SignalledCalm DEF StarterStops
  <2> QED
    BY <1>4, <1>7, <2>1, <2>2 DEF Sole, Calm
<1>10. CASE GateSettles(q)
  <2>1. q \notin Recurring /\ Gated(q) /\ processes[q] = starter[q].run
    BY <1>2, <1>10 DEF GateSettles, EmptyInv, HandoverInv, GateHandsOver
  <2>2. Sole(q, processes[q])' /\ UNCHANGED processes /\ Once(q)'
    BY <1>4, <1>10, <2>1 DEF GateSettles, Sole, Running, Once
  <2>3. starter'[q].pc = "done"
    BY <1>2, <1>10 DEF GateSettles, StarterType
  <2>4. ~Before(q)' /\ Found(q)'
    BY <1>5, <1>6, <2>1, <2>2, <2>3 DEF Before, Gated, Found, Sole
  <2> QED
    BY <1>3, <2>2, <2>4 DEF Spot
<1>11. CASE AwaitFails(q) \/ GateChecks(q) \/ GateForkFails(q) \/ TickerEnds(q)
  <2>1. starter[q].run = NoRun /\ UNCHANGED runVars
    BY <1>2, <1>11 DEF AwaitFails, GateChecks, GateForkFails, TickerEnds, EmptyInv
  <2>2. Sole(q, NoRun)'
    BY <1>4, <2>1 DEF Sole, Running
  <2> QED
    BY <1>2, <2>2, NoneSpot
<1>12. CASE StarterForks(q)
  <2>1. PICK r \in Runs : Fork(q, r) /\ starter' = [starter EXCEPT ![q].pc = "adopt", ![q].run = r]
    BY <1>12 DEF StarterForks
  <2>2. Sole(q, NoRun)
    BY <1>2, <1>4, <1>12 DEF StarterForks, EmptyInv
  <2>3. \A s \in Runs : Running(s)' /\ owner'[s] = q => s = r
    BY <1>2, <2>1, <2>2, ForkSole
  <2>4. starter'[q].pc = "adopt" /\ starter'[q].run = r
    BY <1>2, <2>1 DEF StarterType
  <2> QED
    BY <1>7, <2>3, <2>4 DEF Sole
<1>13. CASE StarterReaps(q)
  <2>1. Sole(q, NoRun)'
    BY <1>2, <1>4, <1>13, ReapCalm DEF StarterReaps
  <2> QED
    BY <1>2, <2>1, NoneSpot
<1> QED
  BY <1>8, <1>9, <1>10, <1>11, <1>12, <1>13 DEF StarterStep

LEMMA StarterSpot ==
  ASSUME Typed, BeginInv, EmptyInv, HandoverInv, NEW q \in Ours, Spot(q),
         NEW p \in Procs, StarterStep(p)
  PROVE  Spot(q)'
<1> USE DEF Typed, TypeOK, mainVars, stopVars, runVars, startupVars
<1>1. CASE p = q
  BY <1>1, OwnStarterSpot
<1>2. CASE p # q
  <2>0. q \in Procs
    BY DEF Ours
  <2>1. Calm(q)
    <3>1. CASE \/ AwaitService(p) \/ DependencyReady(p) \/ AwaitFails(p) \/ GateChecks(p) \/ TickerEnds(p)
               \/ GateForkFails(p) \/ StarterAdopts(p) \/ GateSettles(p) \/ StarterDiscards(p)
      BY <3>1, SameCalm DEF AwaitService, DependencyReady, AwaitFails, GateChecks, TickerEnds,
         GateForkFails, StarterAdopts, GateSettles, StarterDiscards
    <3>2. CASE StarterForks(p)
      BY <1>2, <3>2, ForkCalm DEF StarterForks
    <3>3. CASE StarterStops(p)
      BY <3>3, SignalledCalm DEF StarterStops
    <3>4. CASE StarterReaps(p)
      BY <2>0, <3>4, ReapCalm DEF StarterReaps
    <3> QED
      BY <1>2, <3>1, <3>2, <3>3, <3>4 DEF StarterStep
  <2>2. /\ processes'[q] = processes[q] /\ starter'[q] = starter[q]
        /\ UNCHANGED <<main, next, waiter, caller>>
    BY <1>2, <2>0 DEF StarterType, ProcessesType, StarterStep, AwaitService, DependencyReady, AwaitFails,
       GateChecks, StarterForks, GateForkFails, StarterAdopts, GateSettles, StarterDiscards,
       StarterStops,
       StarterReaps, TickerEnds
  <2> QED
    BY <2>0, <2>1, <2>2, SpotKept DEF Undisturbed, Unreached
<1> QED
  BY <1>1, <1>2

\* A waiter that starts q again has it in its hands until it registers it.
LEMMA OwnWaiterSpot ==
  ASSUME Typed, BeginInv, EmptyInv, HandoverInv, NEW q \in Ours, Spot(q), WaiterStep(q)
  PROVE  Spot(q)'
<1> USE DEF Typed, TypeOK, mainVars, stopVars, runVars, startupVars
<1>1. /\ waiter[q].pc # "off" /\ main # "exited"
      /\ UNCHANGED <<main, next, starter, caller>>
  BY DEF Up, WaiterStep, WaiterPassesGate, WaiterReads, WaiterReaps, WaiterForks,
     WaiterForkFails, WaiterAdopts, WaiterDiscards, WaiterStops, WaiterEnds
<1>2. q \in Procs /\ main = "waiting" /\ q \notin Recurring
  BY <1>1 DEF BeginInv, EmptyInv, Ours
<1>3. ~Unreached(q) /\ ~Unreached(q)'
  BY <1>1, <1>2 DEF Unreached
<1>4. ASSUME q \notin Restartable
      PROVE  /\ \A c \in Callers : ~HoldsFor(c, q) /\ ~HoldsFor(c, q)'
             /\ waiter[q].pc \in Working => ~Before(q) /\ ~Before(q)' /\ Found(q)
  <2>1. \A c \in Callers : ~HoldsFor(c, q) /\ ~HoldsFor(c, q)'
    BY <1>1, <1>2, <1>4 DEF HoldsFor, CallersNameProcesses, Holding
  <2>2. waiter[q].pc \in Working => ~Before(q)
    BY <1>2, <1>4 DEF Before, HandoverInv, GateHandsOver
  <2>3. ~Before(q) => ~Before(q)'
    BY <1>1 DEF Before, Gated
  <2> QED
    BY <1>2, <2>1, <2>2, <2>3 DEF Spot
<1>5. CASE \/ WaiterPassesGate(q) \/ WaiterReads(q) \/ (WaiterReaps(q) /\ waiter'[q].pc # "fork")
  <2>1. Calm(q)
    BY <1>2, <1>5, SameCalm, ReapCalm DEF WaiterPassesGate, WaiterReads, WaiterReaps
  <2>2. waiter[q].pc \notin Remaking /\ waiter'[q].pc \notin Remaking /\ UNCHANGED processes
    <3>1. CASE WaiterPassesGate(q) \/ WaiterReads(q)
      BY <1>2, <3>1 DEF WaiterPassesGate, WaiterReads, WaiterType, Remaking
    <3>2. CASE WaiterReaps(q) /\ waiter'[q].pc # "fork"
      <4>1. waiter[q].pc = "wait" /\ waiter'[q].pc \in {"fork", "done"} /\ UNCHANGED processes
        BY <1>2, <3>2 DEF WaiterReaps, WaiterType
      <4> QED
        BY <3>2, <4>1 DEF Remaking
    <3> QED
      BY <1>5, <3>1, <3>2
  <2> QED
    BY <1>1, <1>2, <1>3, <2>1, <2>2, SpotKept DEF Undisturbed
<1>6. CASE WaiterReaps(q) /\ waiter'[q].pc = "fork"
  <2>1. q \in RestartOnCrash /\ waiter[q].pc = "wait"
    BY <1>2, <1>6 DEF WaiterReaps, WaiterType
  <2>2. q \notin Restartable
    BY <2>1 DEF Ours, Contended
  <2>3. Sole(q, processes[q])
    BY <1>4, <2>1, <2>2 DEF Found, Working, Remaking
  <2>4. processes[q] = waiter[q].run
    BY <1>2, <2>1, <2>2 DEF HandoverInv
  <2>5. Sole(q, NoRun)'
    BY <1>2, <1>6, <2>3, <2>4, ReapCalm DEF WaiterReaps
  <2> QED
    BY <1>2, <2>5, NoneSpot
<1>7. ASSUME waiter[q].pc \in Remaking PROVE Spot(q)'
  <2>1. q \notin Restartable
    BY <1>2, <1>7 DEF EmptyInv, Ours, Contended
  <2>2. ~Before(q)' /\ Sole(q, waiter[q].run) /\ \A c \in Callers : ~HoldsFor(c, q)'
    BY <1>4, <1>7, <2>1 DEF Working, Found
  <2>3. ASSUME Sole(q, waiter[q].run)', waiter'[q].pc \in Remaking PROVE Spot(q)'
    BY <1>3, <2>2, <2>3 DEF Spot, Once, Found, Sole
  <2>4. CASE WaiterForks(q)
    <3>1. PICK r \in Runs : Fork(q, r) /\ waiter' = [waiter EXCEPT ![q].pc = "adopt", ![q].run = r]
      BY <2>4 DEF WaiterForks
    <3>2. Sole(q, NoRun)
      BY <1>2, <2>2, <2>4 DEF WaiterForks, EmptyInv
    <3>3. \A s \in Runs : Running(s)' /\ owner'[s] = q => s = r
      BY <1>2, <3>1, <3>2, ForkSole
    <3>4. waiter'[q].pc = "adopt" /\ waiter'[q].run = r
      BY <1>2, <3>1 DEF WaiterType
    <3> QED
      BY <2>3, <3>3, <3>4 DEF Sole, Remaking
  <2>5. CASE WaiterForkFails(q)
    <3>1. Sole(q, NoRun)'
      BY <1>2, <2>2, <2>5 DEF WaiterForkFails, EmptyInv, Sole, Running
    <3> QED
      BY <1>2, <3>1, NoneSpot
  <2>6. CASE WaiterAdopts(q)
    <3>1. waiter'[q].pc = "read" /\ processes'[q] = waiter[q].run
      BY <1>2, <2>6 DEF WaiterAdopts, WaiterType, ProcessesType
    <3>2. Sole(q, processes[q])'
      BY <2>2, <2>6, <3>1 DEF WaiterAdopts, Sole, Running
    <3> QED
      BY <1>3, <2>2, <3>1, <3>2 DEF Spot, Once, Found, Sole, Remaking
  <2>7. CASE WaiterDiscards(q) \/ WaiterStops(q)
    <3>1. waiter'[q].pc \in Remaking /\ waiter'[q].run = waiter[q].run
      BY <1>2, <2>7 DEF WaiterDiscards, WaiterStops, WaiterType, Remaking
    <3>2. Calm(q)
      BY <2>7, SameCalm, SignalledCalm DEF WaiterDiscards, WaiterStops
    <3> QED
      BY <2>2, <2>3, <3>1, <3>2 DEF Sole, Calm
  <2>8. CASE WaiterEnds(q)
    <3>1. Sole(q, NoRun)'
      BY <1>2, <2>2, <2>8, ReapCalm DEF WaiterEnds
    <3> QED
      BY <1>2, <3>1, NoneSpot
  <2> QED
    BY <1>7, <2>4, <2>5, <2>6, <2>7, <2>8
       DEF WaiterStep, WaiterPassesGate, WaiterReads, WaiterReaps, Remaking
<1> QED
  BY <1>5, <1>6, <1>7 DEF WaiterStep, WaiterForks, WaiterForkFails, WaiterAdopts, WaiterDiscards,
     WaiterStops, WaiterEnds, Remaking

LEMMA WaiterSpot ==
  ASSUME Typed, BeginInv, EmptyInv, HandoverInv, NEW q \in Ours, Spot(q),
         NEW p \in Procs, WaiterStep(p)
  PROVE  Spot(q)'
<1> USE DEF Typed, TypeOK, mainVars, stopVars, runVars, startupVars
<1>1. CASE p = q
  BY <1>1, OwnWaiterSpot
<1>2. CASE p # q
  <2>0. q \in Procs
    BY DEF Ours
  <2>1. Calm(q)
    <3>1. CASE \/ WaiterPassesGate(p) \/ WaiterReads(p) \/ WaiterForkFails(p) \/ WaiterAdopts(p)
               \/ WaiterDiscards(p)
      BY <3>1, SameCalm DEF WaiterPassesGate, WaiterReads, WaiterForkFails, WaiterAdopts, WaiterDiscards
    <3>2. CASE WaiterForks(p)
      BY <1>2, <3>2, ForkCalm DEF WaiterForks
    <3>3. CASE WaiterStops(p)
      BY <3>3, SignalledCalm DEF WaiterStops
    <3>4. CASE WaiterReaps(p) \/ WaiterEnds(p)
      BY <2>0, <3>4, ReapCalm DEF WaiterReaps, WaiterEnds
    <3> QED
      BY <1>2, <3>1, <3>2, <3>3, <3>4 DEF WaiterStep
  <2>2. /\ processes'[q] = processes[q] /\ waiter'[q] = waiter[q]
        /\ UNCHANGED <<main, next, starter, caller>>
    BY <1>2, <2>0 DEF WaiterType, ProcessesType, WaiterStep, WaiterPassesGate, WaiterReads, WaiterReaps,
       WaiterForks, WaiterForkFails, WaiterAdopts, WaiterDiscards, WaiterStops, WaiterEnds
  <2> QED
    BY <2>0, <2>1, <2>2, SpotKept DEF Undisturbed, Unreached
<1> QED
  BY <1>1, <1>2

\* Restart alone starts q again, and one caller at a time.
LEMMA OwnRestartSpot ==
  ASSUME Typed, BeginInv, EmptyInv, NEW q \in Ours, Spot(q),
         NEW c \in Callers, RestartStep(c), caller[c].proc = q
  PROVE  Spot(q)'
<1> USE DEF Typed, TypeOK, mainVars, stopVars, runVars, startupVars
<1>1. /\ caller[c].pc # "idle" /\ main # "exited"
      /\ UNCHANGED <<main, next, starter, waiter>>
  BY DEF Up, RestartStep, RestartTakes, RestartStops, RestartJoins, RestartForks,
     RestartForkFails, RestartAdopts, RestartDiscards, RestartMarks
<1>2. q \in Procs /\ main \notin {"serving", "start", "failed", "exited"}
  BY <1>1 DEF BeginInv, MainType, Ours
<1>3. q \in Restartable \ (Recurring \cup RestartOnCrash) /\ ~Gated(q) /\ \A d \in Callers : d = c
  BY <1>1 DEF CallersNameProcesses, Ours, Contended, Rivals
<1>4. ~Unreached(q)' /\ ~Before(q) /\ ~Before(q)'
  BY <1>1, <1>2, <1>3 DEF Unreached, Before, Gated
<1>5. waiter[q].pc \notin Remaking /\ waiter'[q].pc \notin Remaking
  BY <1>1, <1>2, <1>3 DEF EmptyInv
<1>6. (HoldsFor(c, q) => Sole(q, caller[c].run)) /\ (~HoldsFor(c, q) => Sole(q, processes[q]))
  BY <1>2, <1>3, <1>4, <1>5 DEF Spot, Found
<1>7. ASSUME Sole(q, caller[c].run)', HoldsFor(c, q)' PROVE Spot(q)'
  BY <1>3, <1>4, <1>5, <1>7 DEF Spot, Once, Found, Sole
<1>8. CASE RestartTakes(c)
  <2>1. caller[c].pc = "take" /\ UNCHANGED runVars
    BY <1>8 DEF RestartTakes
  <2>2. Sole(q, processes[q])
    BY <1>6, <2>1 DEF HoldsFor, Holding
  <2>3. Sole(q, Existing(q))
    BY <2>2 DEF Sole, Existing
  <2>4. caller'[c].proc = q /\ caller'[c].run = Existing(q) /\ caller'[c].pc \in {"fork", "stop"}
    BY <1>8 DEF RestartTakes, CallerType
  <2> QED
    BY <1>7, <2>1, <2>3, <2>4 DEF Sole, Running, HoldsFor, Holding
<1>9. CASE RestartStops(c) \/ RestartDiscards(c)
  <2>1. /\ caller[c].pc \in Holding /\ caller'[c].pc \in Holding
        /\ caller'[c].proc = q /\ caller'[c].run = caller[c].run
    BY <1>9 DEF RestartStops, RestartDiscards, CallerType, Holding
  <2>2. Calm(q)
    BY <1>9, SameCalm, SignalledCalm DEF RestartStops, RestartDiscards
  <2> QED
    BY <1>6, <1>7, <2>1, <2>2 DEF Sole, Calm, HoldsFor
<1>10. CASE RestartJoins(c)
  <2>1. HoldsFor(c, q)
    BY <1>10 DEF RestartJoins, HoldsFor, Holding
  <2>2. Sole(q, NoRun)'
    BY <1>2, <1>6, <1>10, <2>1, ReapCalm DEF RestartJoins
  <2> QED
    BY <1>2, <2>2, NoneSpot
<1>11. CASE RestartForks(c)
  <2>1. PICK r \in Runs : Fork(q, r) /\ caller' = [caller EXCEPT ![c].pc = "adopt", ![c].run = r]
    BY <1>11 DEF RestartForks
  <2>2. Sole(q, NoRun)
    BY <1>6, <1>11 DEF RestartForks, EmptyInv, HoldsFor, Holding
  <2>3. \A s \in Runs : Running(s)' /\ owner'[s] = q => s = r
    BY <1>2, <2>1, <2>2, ForkSole
  <2>4. caller'[c].pc = "adopt" /\ caller'[c].run = r /\ caller'[c].proc = q
    BY <2>1 DEF CallerType
  <2> QED
    BY <1>7, <2>3, <2>4 DEF Sole, HoldsFor, Holding
<1>12. CASE RestartForkFails(c)
  <2>1. Sole(q, NoRun)'
    BY <1>6, <1>12 DEF RestartForkFails, EmptyInv, HoldsFor, Holding, Sole, Running
  <2> QED
    BY <1>2, <2>1, NoneSpot
<1>13. CASE RestartAdopts(c)
  <2>1. HoldsFor(c, q) /\ processes'[q] = caller[c].run
    BY <1>2, <1>13 DEF RestartAdopts, HoldsFor, Holding, ProcessesType
  <2>2. Sole(q, processes[q])'
    BY <1>6, <1>13, <2>1 DEF RestartAdopts, Sole, Running
  <2>3. ~HoldsFor(c, q)'
    BY <1>13 DEF RestartAdopts, HoldsFor, Holding, CallerType
  <2> QED
    BY <1>3, <1>4, <1>5, <2>2, <2>3 DEF Spot, Once, Found, Sole
<1>14. CASE RestartMarks(c)
  <2>1. caller[c].pc = "mark" /\ caller'[c].pc = "idle" /\ UNCHANGED <<processes, life, owner, lost>>
    BY <1>14 DEF RestartMarks, CallerType
  <2>2. \A d \in Callers : ~HoldsFor(d, q) /\ ~HoldsFor(d, q)'
    BY <1>3, <2>1 DEF HoldsFor, Holding
  <2>3. Undisturbed(q)
    BY <1>1, <2>1, <2>2, SameCalm DEF Undisturbed
  <2> QED
    BY <1>1, <1>2, <2>3, SpotKept DEF Unreached
<1> QED
  BY <1>8, <1>9, <1>10, <1>11, <1>12, <1>13, <1>14 DEF RestartStep

LEMMA RestartSpot ==
  ASSUME Typed, BeginInv, EmptyInv, NEW q \in Ours, Spot(q),
         NEW c \in Callers, RestartCalled(c) \/ RestartStep(c)
  PROVE  Spot(q)'
<1> USE DEF Typed, TypeOK, mainVars, stopVars, runVars, startupVars
<1>0. q \in Procs
  BY DEF Ours
<1>1. CASE RestartCalled(c)
  <2>1. ~HoldsFor(c, q) /\ ~HoldsFor(c, q)'
    BY <1>1 DEF RestartCalled, HoldsFor, Holding, CallerType
  <2>2. Undisturbed(q)
    BY <1>1, <2>1, SameCalm DEF RestartCalled, Undisturbed, CallerType
  <2> QED
    BY <1>0, <1>1, <2>2, SpotKept DEF RestartCalled, Unreached
<1>2. CASE RestartStep(c) /\ caller[c].proc = q
  BY <1>2, OwnRestartSpot
<1>3. CASE RestartStep(c) /\ caller[c].proc # q
  <2>0. caller[c].pc # "idle"
    BY <1>3 DEF RestartStep, RestartTakes, RestartStops, RestartJoins, RestartForks,
       RestartForkFails, RestartAdopts, RestartDiscards, RestartMarks
  <2>1. caller[c].proc \in Procs
    BY <2>0, ConfigAssumption DEF CallersNameProcesses, ConfigAssumption
  <2>2. Calm(q)
    <3>1. CASE \/ RestartTakes(c) \/ RestartForkFails(c) \/ RestartAdopts(c) \/ RestartDiscards(c)
               \/ RestartMarks(c)
      BY <3>1, SameCalm DEF RestartTakes, RestartForkFails, RestartAdopts, RestartDiscards, RestartMarks
    <3>2. CASE RestartForks(c)
      BY <1>3, <3>2, ForkCalm DEF RestartForks
    <3>3. CASE RestartStops(c)
      BY <3>3, SignalledCalm DEF RestartStops
    <3>4. CASE RestartJoins(c)
      BY <1>0, <3>4, ReapCalm DEF RestartJoins
    <3> QED
      BY <1>3, <3>1, <3>2, <3>3, <3>4 DEF RestartStep
  <2>3. processes'[q] = processes[q] /\ UNCHANGED <<main, next, starter, waiter>>
    BY <1>0, <1>3 DEF ProcessesType, RestartStep, RestartTakes, RestartStops, RestartJoins, RestartForks,
       RestartForkFails, RestartAdopts, RestartDiscards, RestartMarks
  <2>4. caller'[c].proc # q /\ \A d \in Callers \ {c} : caller'[d] = caller[d]
    BY <1>0, <1>3, ConfigAssumption
       DEF ConfigAssumption, CallerType, RestartStep, RestartTakes, RestartStops, RestartJoins,
          RestartForks,
       RestartForkFails, RestartAdopts, RestartDiscards, RestartMarks
  <2>5. Undisturbed(q)
    BY <1>3, <2>2, <2>3, <2>4 DEF Undisturbed, HoldsFor
  <2> QED
    BY <1>0, <2>3, <2>5, SpotKept DEF Unreached
<1> QED
  BY <1>1, <1>2, <1>3

LEMMA SpotStep ==
  ASSUME Typed, BeginInv, EmptyInv, HandoverInv, SpotInv, [Next]_vars
  PROVE  SpotInv'
<1> SUFFICES ASSUME NEW q \in Ours PROVE Spot(q)'
  BY DEF SpotInv, Ours
<1>0. Spot(q) /\ q \in Procs
  BY DEF SpotInv, Ours
<1>1. CASE Main
  BY <1>0, <1>1, MainSpot
<1>2. ASSUME NEW p \in Procs, StarterStep(p) PROVE Spot(q)'
  BY <1>0, <1>2, StarterSpot
<1>3. ASSUME NEW p \in Procs, WaiterStep(p) PROVE Spot(q)'
  BY <1>0, <1>3, WaiterSpot
<1>4. ASSUME NEW c \in Callers, RestartCalled(c) \/ RestartStep(c) PROVE Spot(q)'
  BY <1>0, <1>4, RestartSpot
<1>5. CASE \/ QuitCancels \/ StopCancels \/ StopSweeps \/ UNCHANGED vars
           \/ (\E d \in Deps : HealthDecides(d)) \/ (\E r \in Runs : Exit(r))
  <2>1. Calm(q)
    <3>1. CASE QuitCancels \/ StopCancels \/ UNCHANGED vars \/ \E d \in Deps : HealthDecides(d)
      BY <3>1, SameCalm DEF QuitCancels, StopCancels, HealthDecides, vars, runVars
    <3>2. CASE StopSweeps
      BY <3>2, SignalledCalm DEF StopSweeps, Sweep, Typed, TypeOK
    <3>3. ASSUME NEW r \in Runs, Exit(r) PROVE Calm(q)
      BY <3>3, ExitCalm DEF Typed, TypeOK
    <3> QED
      BY <1>5, <3>1, <3>2, <3>3
  <2>2. UNCHANGED <<processes, starter, waiter, caller>>
    BY <1>5 DEF QuitCancels, StopCancels, StopSweeps, HealthDecides, Exit, vars
  <2>3. Undisturbed(q)
    BY <2>1, <2>2 DEF Undisturbed
  <2> QED
    BY <1>0, <2>3, SpotKept, MainForward
<1> QED
  BY <1>1, <1>2, <1>3, <1>4, <1>5 DEF Next, Over

-----------------------------------------------------------------------------
(* Whose run it is that a goroutine holds.                                 *)

Owned(x, p) == x \in Runs /\ Running(x) => owner[x] = p

OwnerInv ==
  /\ \A p \in Procs : Owned(processes[p], p) /\ Owned(starter[p].run, p) /\ Owned(waiter[p].run, p)
  /\ \A c \in Callers : /\ Owned(caller[c].run, caller[c].proc)
                        /\ caller[c].pc \in {"idle", "mark"} => caller[c].run = NoRun

\* No run that is registered or held is given to another process.
Steady == \A x \in Runs : (Registered(x) \/ Held(x)) /\ Running(x)' => Running(x) /\ owner'[x] = owner[x]

LEMMA ForkSteady ==
  ASSUME RunType, NEW p, NEW r \in Runs, Fork(p, r) PROVE Steady /\ (p \in Procs => owner'[r] = p)
BY DEF RunType, Steady, Fork, Fresh, Running

LEMMA ReapSteady == ASSUME RunType, NEW r, Reap(r) PROVE Steady
BY DEF RunType, Steady, Reap, Running

LEMMA SignalledSteady ==
  ASSUME RunType, NEW S, life' = Signalled(S), UNCHANGED owner PROVE Steady
BY DEF RunType, Steady, Signalled, Running

LEMMA SameSteady == ASSUME UNCHANGED runVars PROVE Steady
BY DEF Steady, runVars, Running

\* Owned(x, p)' of the value x has before the step.
StaysOwned(x, p) == x \in Runs /\ life'[x] \in {"alive", "signalled"} => owner'[x] = p

LEMMA OwnersStay ==
  ASSUME OwnerInv, Steady
  PROVE  /\ \A p \in Procs : /\ StaysOwned(processes[p], p)
                             /\ StaysOwned(starter[p].run, p)
                             /\ StaysOwned(waiter[p].run, p)
         /\ \A c \in Callers : StaysOwned(caller[c].run, caller[c].proc)
BY DEF OwnerInv, Steady, Owned, StaysOwned, Registered, Held, Running

LEMMA StarterOwner ==
  ASSUME Typed, OwnerInv, NEW p \in Procs, StarterStep(p)
  PROVE  OwnerInv'
<1> USE DEF Typed, TypeOK, mainVars, stopVars, runVars, startupVars
<1>1. UNCHANGED <<waiter, caller>>
  BY DEF StarterStep, AwaitService, DependencyReady, AwaitFails, GateChecks, StarterForks,
     GateForkFails, StarterAdopts, GateSettles, StarterDiscards, StarterStops, StarterReaps, TickerEnds
<1>2. \A q \in Procs \ {p} : starter'[q] = starter[q] /\ processes'[q] = processes[q]
  BY DEF StarterType, ProcessesType, StarterStep, AwaitService, DependencyReady, AwaitFails,
     GateChecks, StarterForks, GateForkFails, StarterAdopts, GateSettles, StarterDiscards, StarterStops,
     StarterReaps, TickerEnds
<1>3. CASE StarterForks(p)
  <2>1. PICK r \in Runs : Fork(p, r) /\ starter' = [starter EXCEPT ![p].pc = "adopt", ![p].run = r]
    BY <1>3 DEF StarterForks
  <2>2. Steady /\ owner'[r] = p
    BY <2>1, ForkSteady
  <2>3. starter'[p].run = r /\ processes' = processes
    BY <1>3, <2>1 DEF StarterForks, StarterType
  <2> QED
    BY <1>1, <1>2, <2>2, <2>3, OwnersStay DEF OwnerInv, Owned, StaysOwned, Running
<1>4. CASE ~StarterForks(p)
  <2>1. Steady
    <3>1. CASE StarterReaps(p)
      BY <3>1, ReapSteady DEF StarterReaps
    <3>2. CASE StarterStops(p)
      BY <3>2, SignalledSteady DEF StarterStops
    <3>3. CASE ~StarterReaps(p) /\ ~StarterStops(p)
      BY <1>4, <3>3, SameSteady DEF StarterStep, AwaitService, DependencyReady, AwaitFails, GateChecks,
         GateForkFails, StarterAdopts, GateSettles, StarterDiscards, TickerEnds
    <3> QED
      BY <3>1, <3>2, <3>3
  <2>2. /\ starter'[p].run \in {starter[p].run, NoRun}
        /\ processes'[p] \in {processes[p], starter[p].run}
    BY <1>4 DEF StarterType, ProcessesType, StarterStep, AwaitService, DependencyReady, AwaitFails,
       GateChecks, GateForkFails, StarterAdopts, GateSettles, StarterDiscards, StarterStops,
       StarterReaps, TickerEnds
  <2>3. Owned(processes[p], p)' /\ Owned(starter[p].run, p)'
    BY <2>1, <2>2, OwnersStay, ConfigAssumption DEF ConfigAssumption, Owned, StaysOwned, Running
  <2> QED
    BY <1>1, <1>2, <2>1, <2>3, OwnersStay DEF OwnerInv, Owned, StaysOwned, Running
<1> QED
  BY <1>3, <1>4

LEMMA WaiterOwner ==
  ASSUME Typed, OwnerInv, NEW p \in Procs, WaiterStep(p)
  PROVE  OwnerInv'
<1> USE DEF Typed, TypeOK, mainVars, stopVars, runVars, startupVars
<1>1. UNCHANGED <<starter, caller>>
  BY DEF WaiterStep, WaiterPassesGate, WaiterReads, WaiterReaps, WaiterForks,
     WaiterForkFails, WaiterAdopts, WaiterDiscards, WaiterStops, WaiterEnds
<1>2. \A q \in Procs \ {p} : waiter'[q] = waiter[q] /\ processes'[q] = processes[q]
  BY DEF WaiterType, ProcessesType, WaiterStep, WaiterPassesGate, WaiterReads, WaiterReaps, WaiterForks,
     WaiterForkFails, WaiterAdopts, WaiterDiscards, WaiterStops, WaiterEnds
<1>3. CASE WaiterForks(p)
  <2>1. PICK r \in Runs : Fork(p, r) /\ waiter' = [waiter EXCEPT ![p].pc = "adopt", ![p].run = r]
    BY <1>3 DEF WaiterForks
  <2>2. Steady /\ owner'[r] = p
    BY <2>1, ForkSteady
  <2>3. waiter'[p].run = r /\ processes' = processes
    BY <1>3, <2>1 DEF WaiterForks, WaiterType
  <2> QED
    BY <1>1, <1>2, <2>2, <2>3, OwnersStay DEF OwnerInv, Owned, StaysOwned, Running
<1>4. CASE ~WaiterForks(p)
  <2>1. Steady
    <3>1. CASE WaiterReaps(p) \/ WaiterEnds(p)
      BY <3>1, ReapSteady DEF WaiterReaps, WaiterEnds
    <3>2. CASE WaiterStops(p)
      BY <3>2, SignalledSteady DEF WaiterStops
    <3>3. CASE \/ WaiterPassesGate(p) \/ WaiterReads(p) \/ WaiterForkFails(p)
               \/ WaiterAdopts(p) \/ WaiterDiscards(p)
      BY <3>3, SameSteady DEF WaiterPassesGate, WaiterReads, WaiterForkFails, WaiterAdopts,
         WaiterDiscards
    <3> QED
      BY <1>4, <3>1, <3>2, <3>3 DEF WaiterStep
  <2>2. processes'[p] \in {processes[p], waiter[p].run}
    BY <1>4 DEF ProcessesType, WaiterStep, WaiterPassesGate, WaiterReads, WaiterReaps,
       WaiterForkFails, WaiterAdopts, WaiterDiscards, WaiterStops, WaiterEnds
  <2>3. waiter'[p].run \in {waiter[p].run, processes[p], NoRun}
    <3>1. CASE WaiterReads(p) \/ WaiterReaps(p)
      BY <3>1 DEF WaiterReads, WaiterReaps, WaiterType, Existing
    <3>2. CASE ~WaiterReads(p) /\ ~WaiterReaps(p)
      BY <1>4, <3>2 DEF WaiterType, WaiterStep, WaiterPassesGate, WaiterForkFails, WaiterAdopts,
         WaiterDiscards, WaiterStops, WaiterEnds
    <3> QED
      BY <3>1, <3>2
  <2> QED
    BY <1>1, <1>2, <2>1, <2>2, <2>3, OwnersStay, ConfigAssumption
       DEF ConfigAssumption, OwnerInv, Owned, StaysOwned, Running
<1> QED
  BY <1>3, <1>4

LEMMA CallerOwner ==
  ASSUME Typed, EmptyInv, OwnerInv, NEW c \in Callers, RestartCalled(c) \/ RestartStep(c)
  PROVE  OwnerInv'
<1> USE DEF Typed, TypeOK, mainVars, stopVars, runVars, startupVars
<1>1. UNCHANGED <<starter, waiter>>
  BY DEF RestartCalled, RestartStep, RestartTakes, RestartStops, RestartJoins, RestartForks,
     RestartForkFails, RestartAdopts, RestartDiscards, RestartMarks
<1>2. \A d \in Callers \ {c} : caller'[d] = caller[d]
  BY DEF CallerType, RestartCalled, RestartStep, RestartTakes, RestartStops, RestartJoins, RestartForks,
     RestartForkFails, RestartAdopts, RestartDiscards, RestartMarks
<1>3. caller'[c].pc \in {"idle", "mark"} => caller'[c].run = NoRun
  BY DEF CallerType, OwnerInv, EmptyInv, RestartCalled, RestartStep, RestartTakes, RestartStops,
     RestartJoins,
     RestartForks, RestartForkFails, RestartAdopts, RestartDiscards, RestartMarks
\* It suffices to look at the caller and at the map.
<1>4. ASSUME Steady, Owned(caller[c].run, caller[c].proc)', \A p \in Procs : Owned(processes[p], p)'
      PROVE  OwnerInv'
  BY <1>1, <1>2, <1>3, <1>4, OwnersStay DEF OwnerInv, Owned, StaysOwned, Running
<1>5. ASSUME Steady, UNCHANGED processes PROVE \A p \in Procs : Owned(processes[p], p)'
  BY <1>5, OwnersStay DEF Owned, StaysOwned, Running
<1>6. CASE RestartCalled(c)
  <2>1. Steady /\ caller'[c].run = NoRun
    BY <1>6, SameSteady DEF RestartCalled, OwnerInv, CallerType
  <2> QED
    BY <1>4, <1>5, <1>6, <2>1, ConfigAssumption DEF ConfigAssumption, RestartCalled, Owned
<1>7. CASE RestartTakes(c)
  <2>1. Steady
    BY <1>7, SameSteady DEF RestartTakes
  <2>2. caller'[c].run = Existing(caller[c].proc) /\ caller'[c].proc = caller[c].proc
    BY <1>7 DEF RestartTakes, CallerType
  <2>3. \A p \in Procs : processes'[p] \in {processes[p], NoRun}
    BY <1>7 DEF RestartTakes, ProcessesType
  <2>4. caller[c].proc \in Procs
    BY <1>7, ConfigAssumption DEF RestartTakes, CallersNameProcesses, ConfigAssumption
  <2>5. Owned(caller[c].run, caller[c].proc)'
    BY <2>1, <2>2, <2>4, OwnersStay, ConfigAssumption
       DEF ConfigAssumption, Existing, Owned, StaysOwned, Running
  <2>6. \A p \in Procs : Owned(processes[p], p)'
    BY <2>1, <2>3, OwnersStay, ConfigAssumption DEF ConfigAssumption, Owned, StaysOwned, Running
  <2> QED
    BY <1>4, <2>1, <2>5, <2>6
<1>8. CASE RestartForks(c)
  <2>1. PICK r \in Runs : /\ Fork(caller[c].proc, r)
                          /\ caller' = [caller EXCEPT ![c].pc = "adopt", ![c].run = r]
    BY <1>8 DEF RestartForks
  <2>2. caller[c].proc \in Procs
    BY <1>8, ConfigAssumption DEF RestartForks, CallersNameProcesses, ConfigAssumption
  <2>3. Steady /\ owner'[r] = caller[c].proc
    BY <2>1, <2>2, ForkSteady
  <2>4. caller'[c].run = r /\ caller'[c].proc = caller[c].proc
    BY <2>1 DEF CallerType
  <2> QED
    BY <1>4, <1>5, <1>8, <2>3, <2>4 DEF RestartForks, Owned
<1>9. CASE RestartAdopts(c)
  <2>1. Steady /\ caller'[c].run = NoRun
    BY <1>9, SameSteady DEF RestartAdopts, CallerType
  <2>2. \A p \in Procs : processes'[p] = processes[p]
                         \/ (p = caller[c].proc /\ processes'[p] = caller[c].run)
    BY <1>9 DEF RestartAdopts, ProcessesType
  <2>3. \A p \in Procs : Owned(processes[p], p)'
    BY <2>1, <2>2, OwnersStay DEF Owned, StaysOwned, Running
  <2> QED
    BY <1>4, <2>1, <2>3, ConfigAssumption DEF ConfigAssumption, Owned
<1>10. CASE \/ RestartStops(c) \/ RestartJoins(c) \/ RestartForkFails(c) \/ RestartDiscards(c)
            \/ RestartMarks(c)
  <2>1. Steady
    <3>1. CASE RestartStops(c)
      BY <3>1, SignalledSteady DEF RestartStops
    <3>2. CASE RestartJoins(c)
      BY <3>2, ReapSteady DEF RestartJoins
    <3>3. CASE RestartForkFails(c) \/ RestartDiscards(c) \/ RestartMarks(c)
      BY <3>3, SameSteady DEF RestartForkFails, RestartDiscards, RestartMarks
    <3> QED
      BY <1>10, <3>1, <3>2, <3>3
  <2>2. UNCHANGED processes
    BY <1>10 DEF RestartStops, RestartJoins, RestartForkFails, RestartDiscards, RestartMarks
  <2>3. \/ caller'[c].run = NoRun
        \/ caller'[c].run = caller[c].run /\ caller'[c].proc = caller[c].proc
    BY <1>10 DEF RestartStops, RestartJoins, RestartForkFails, RestartDiscards, RestartMarks,
       CallerType, EmptyInv, OwnerInv
  <2>4. Owned(caller[c].run, caller[c].proc)'
    BY <2>1, <2>3, OwnersStay, ConfigAssumption DEF ConfigAssumption, Owned, StaysOwned, Running
  <2> QED
    BY <1>4, <1>5, <2>1, <2>2, <2>4
<1> QED
  BY <1>6, <1>7, <1>8, <1>9, <1>10 DEF RestartStep

LEMMA OwnerStep ==
  ASSUME Typed, EmptyInv, OwnerInv, [Next]_vars
  PROVE  OwnerInv'
<1> USE DEF Typed, TypeOK, mainVars, stopVars, runVars, startupVars
\* A step that hands no run over.
<1>1. ASSUME Steady,
             \A p \in Procs : /\ starter'[p].run = starter[p].run
                              /\ waiter'[p].run = waiter[p].run
                              /\ processes'[p] \in {processes[p], NoRun, Placeholder},
             UNCHANGED caller
      PROVE  OwnerInv'
  BY <1>1, OwnersStay, ConfigAssumption DEF ConfigAssumption, OwnerInv, Owned, StaysOwned, Running
<1>2. CASE \/ StartBegins \/ StartEnds \/ FailedStartExits \/ WaitReturns \/ QuitCancels \/ StopCancels
           \/ UNCHANGED vars \/ \E d \in Deps : HealthDecides(d)
  <2>1. UNCHANGED <<life, owner, lost, processes, starter, waiter, caller>>
    BY <1>2 DEF StartBegins, StartEnds, FailedStartExits, WaitReturns, QuitCancels, StopCancels,
       HealthDecides, vars
  <2> QED
    BY <1>1, <2>1, SameSteady
<1>3. CASE QuitSweeps \/ StopSweeps
  <2>1. Steady
    BY <1>3, SignalledSteady DEF QuitSweeps, StopSweeps, Sweep
  <2> QED
    BY <1>1, <1>3, <2>1 DEF QuitSweeps, StopSweeps
<1>4. CASE WaitBegins
  <2>1. \A p \in Procs : waiter'[p].run = waiter[p].run
    BY <1>4 DEF WaitBegins, WaiterType
  <2> QED
    BY <1>1, <1>4, <2>1, SameSteady DEF WaitBegins
<1>5. ASSUME NEW p \in Procs, StartRecurring(p) \/ StartGated(p) PROVE OwnerInv'
  <2>1. \A q \in Procs : starter'[q].run = starter[q].run /\ processes'[q] \in {processes[q], Placeholder}
    BY <1>5 DEF StartRecurring, StartGated, StarterType, ProcessesType
  <2>2. UNCHANGED <<life, owner, lost, waiter, caller>>
    BY <1>5 DEF StartRecurring, StartGated
  <2> QED
    BY <1>1, <2>1, <2>2, SameSteady
<1>6. ASSUME NEW p \in Procs, StartPlain(p) PROVE OwnerInv'
  <2>1. PICK r \in Runs : Fork(p, r) /\ processes' = [processes EXCEPT ![p] = r]
    BY <1>6 DEF StartPlain
  <2>2. Steady /\ owner'[r] = p /\ UNCHANGED <<starter, waiter, caller>>
    BY <1>6, <2>1, ForkSteady DEF StartPlain
  <2>3. processes'[p] = r /\ \A q \in Procs \ {p} : processes'[q] = processes[q]
    BY <2>1 DEF ProcessesType
  <2> QED
    BY <2>2, <2>3, OwnersStay DEF OwnerInv, Owned, StaysOwned, Running
<1>7. ASSUME NEW p \in Procs, StartFails(p) PROVE OwnerInv'
  <2>1. Steady
    BY <1>7, SignalledSteady DEF StartFails
  <2>2. UNCHANGED <<starter, waiter, caller>> /\ \A q \in Procs : processes'[q] = NoRun
    BY <1>7 DEF StartFails
  <2> QED
    BY <1>1, <2>1, <2>2
<1>8. ASSUME NEW r \in Runs, Exit(r) PROVE OwnerInv'
  <2>1. Steady
    BY <1>8 DEF Exit, Steady, Running, RunType
  <2> QED
    BY <1>1, <1>8, <2>1 DEF Exit
<1>9. ASSUME NEW p \in Procs, StarterStep(p) \/ WaiterStep(p) PROVE OwnerInv'
  BY <1>9, StarterOwner, WaiterOwner
<1>10. ASSUME NEW c \in Callers, RestartCalled(c) \/ RestartStep(c) PROVE OwnerInv'
  BY <1>10, CallerOwner
<1> QED
  BY <1>2, <1>3, <1>4, <1>5, <1>6, <1>7, <1>8, <1>9, <1>10 DEF Next, Main, Over

-----------------------------------------------------------------------------
(* Whoever is alive is registered and will be swept, or in somebody's      *)
(* hands.                                                                  *)

Kept(r) == InHand(r) \/ (~swept /\ processes[owner[r]] = r)

HandInv == \A r \in Runs : life[r] = "alive" /\ owner[r] \in Ours => Kept(r)

Safe == Typed /\ BeginInv /\ EmptyInv /\ HandoverInv /\ SpotInv /\ OwnerInv /\ SweepInv

\* A step that neither forks nor registers nor sweeps.
LEMMA SameKept ==
  ASSUME HandInv, UNCHANGED <<swept, processes>>,
         \A r \in Runs : life'[r] = "alive" => /\ life[r] = "alive" /\ owner'[r] = owner[r]
                                               /\ InHand(r) => InHand(r)'
  PROVE  HandInv'
BY DEF HandInv, Kept

LEMMA StarterHand ==
  ASSUME Safe, HandInv, NEW p \in Procs, StarterStep(p)
  PROVE  HandInv'
<1> USE DEF Safe, Typed, TypeOK, mainVars, stopVars, runVars, startupVars
<1>1. UNCHANGED <<swept, waiter, caller>> /\ \A q \in Procs \ {p} : starter'[q] = starter[q]
  BY DEF StarterType, StarterStep, AwaitService, DependencyReady, AwaitFails, GateChecks, StarterForks,
     GateForkFails, StarterAdopts, GateSettles, StarterDiscards, StarterStops, StarterReaps, TickerEnds
\* Everybody else's hands stay as they are.
<1>2. ASSUME NEW r \in Runs, InHand(r), ~(starter[p].run = r /\ starter[p].pc \in {"adopt", "discard"})
      PROVE  InHand(r)'
  BY <1>1, <1>2 DEF InHand
<1>3. CASE StarterForks(p)
  <2>1. PICK s \in Runs : Fork(p, s) /\ starter' = [starter EXCEPT ![p].pc = "adopt", ![p].run = s]
    BY <1>3 DEF StarterForks
  <2>2. InHand(s)'
    BY <2>1 DEF InHand, StarterType
  <2>3. ASSUME NEW r \in Runs, r # s, life'[r] = "alive", owner'[r] \in Ours PROVE Kept(r)'
    <3>1. life[r] = "alive" /\ owner'[r] = owner[r]
      BY <2>1, <2>3 DEF Fork, RunType
    <3>2. InHand(r) => InHand(r)'
      BY <1>2, <1>3 DEF StarterForks
    <3> QED
      BY <1>1, <1>3, <2>3, <3>1, <3>2 DEF HandInv, Kept, StarterForks
  <2> QED
    BY <2>2, <2>3 DEF HandInv, Kept
<1>4. CASE StarterAdopts(p)
  <2>1. ~swept' /\ UNCHANGED <<life, owner>> /\ processes' = [processes EXCEPT ![p] = starter[p].run]
    BY <1>4 DEF StarterAdopts, AdoptRefuses, SweepInv, SweepOrder
  <2>2. ASSUME NEW r \in Runs, life[r] = "alive", owner[r] \in Ours PROVE Kept(r)'
    <3>1. CASE owner[r] = p
      <4>1. Before(p) /\ Spot(p)
        BY <1>4, <2>2, <3>1 DEF StarterAdopts, EmptyInv, Before, SpotInv
      <4>2. starter[p].run = r
        BY <2>2, <3>1, <4>1 DEF Spot, Sole, Running
      <4> QED
        BY <2>1, <3>1, <4>2 DEF Kept, ProcessesType
    <3>2. CASE owner[r] # p
      <4>1. starter[p].run # r
        BY <2>2, <3>2 DEF OwnerInv, Owned, Running
      <4>2. InHand(r) => InHand(r)'
        BY <1>2, <4>1
      <4> QED
        BY <2>1, <2>2, <3>2, <4>2 DEF HandInv, Kept, ProcessesType
    <3> QED
      BY <3>1, <3>2
  <2> QED
    BY <2>1, <2>2 DEF HandInv
<1>5. CASE StarterStops(p) \/ StarterReaps(p)
  <2>1. UNCHANGED processes /\ starter[p].pc # "adopt"
    BY <1>5 DEF StarterStops, StarterReaps
  <2>2. ASSUME NEW r \in Runs, life'[r] = "alive"
        PROVE  life[r] = "alive" /\ owner'[r] = owner[r] /\ (InHand(r) => InHand(r)')
    <3>1. life[r] = "alive" /\ owner'[r] = owner[r]
      BY <1>5, <2>2 DEF StarterStops, StarterReaps, Signalled, Reap, RunType
    <3>2. ~(starter[p].run = r /\ starter[p].pc \in {"adopt", "discard"})
      BY <1>5, <2>2 DEF StarterStops, StarterReaps, Signalled
    <3> QED
      BY <1>2, <3>1, <3>2
  <2> QED
    BY <1>1, <2>1, <2>2, SameKept
<1>6. CASE \/ AwaitService(p) \/ DependencyReady(p) \/ AwaitFails(p) \/ GateChecks(p) \/ GateForkFails(p)
           \/ GateSettles(p) \/ StarterDiscards(p) \/ TickerEnds(p)
  <2>1. UNCHANGED <<processes, life, owner>>
    BY <1>6 DEF AwaitService, DependencyReady, AwaitFails, GateChecks, GateForkFails,
       GateSettles, StarterDiscards, TickerEnds
  <2>2. starter[p].pc \in {"adopt", "discard"} =>
          starter'[p].pc = "discard" /\ starter'[p].run = starter[p].run
    BY <1>6 DEF StarterType, AwaitService, DependencyReady, AwaitFails, GateChecks, GateForkFails,
       GateSettles, StarterDiscards, TickerEnds
  <2>3. \A r \in Runs : InHand(r) => InHand(r)'
    BY <1>1, <2>2 DEF InHand
  <2> QED
    BY <1>1, <2>1, <2>3, SameKept
<1> QED
  BY <1>3, <1>4, <1>5, <1>6 DEF StarterStep

LEMMA WaiterHand ==
  ASSUME Safe, HandInv, NEW p \in Procs, WaiterStep(p)
  PROVE  HandInv'
<1> USE DEF Safe, Typed, TypeOK, mainVars, stopVars, runVars, startupVars
<1>1. UNCHANGED <<swept, starter, caller>> /\ \A q \in Procs \ {p} : waiter'[q] = waiter[q]
  BY DEF WaiterType, WaiterStep, WaiterPassesGate, WaiterReads, WaiterReaps, WaiterForks,
     WaiterForkFails, WaiterAdopts, WaiterDiscards, WaiterStops, WaiterEnds
<1>2. ASSUME NEW r \in Runs, InHand(r), ~(waiter[p].run = r /\ waiter[p].pc \in {"adopt", "discard"})
      PROVE  InHand(r)'
  BY <1>1, <1>2 DEF InHand
<1>3. CASE WaiterForks(p)
  <2>1. PICK s \in Runs : Fork(p, s) /\ waiter' = [waiter EXCEPT ![p].pc = "adopt", ![p].run = s]
    BY <1>3 DEF WaiterForks
  <2>2. InHand(s)'
    BY <2>1 DEF InHand, WaiterType
  <2>3. ASSUME NEW r \in Runs, r # s, life'[r] = "alive", owner'[r] \in Ours PROVE Kept(r)'
    <3>1. life[r] = "alive" /\ owner'[r] = owner[r]
      BY <2>1, <2>3 DEF Fork, RunType
    <3>2. InHand(r) => InHand(r)'
      BY <1>2, <1>3 DEF WaiterForks
    <3> QED
      BY <1>1, <1>3, <2>3, <3>1, <3>2 DEF HandInv, Kept, WaiterForks
  <2> QED
    BY <2>2, <2>3 DEF HandInv, Kept
<1>4. CASE WaiterAdopts(p)
  <2>1. ~swept' /\ UNCHANGED <<life, owner>> /\ processes' = [processes EXCEPT ![p] = waiter[p].run]
    BY <1>4 DEF WaiterAdopts, AdoptRefuses, SweepInv, SweepOrder
  <2>2. ASSUME NEW r \in Runs, life[r] = "alive", owner[r] \in Ours PROVE Kept(r)'
    <3>1. CASE owner[r] = p
      <4>1. waiter[p].pc = "adopt" /\ main = "waiting" /\ p \in RestartOnCrash \ Recurring
        BY <1>4 DEF WaiterAdopts, Up, BeginInv, EmptyInv, Remaking
      <4>2. p \notin Restartable /\ Spot(p)
        BY <2>2, <3>1, <4>1 DEF Ours, Contended, SpotInv
      <4>3. ~Before(p)
        BY <4>1, <4>2 DEF Before, HandoverInv, GateHandsOver, Working, Remaking
      <4>4. waiter[p].run = r
        BY <2>2, <3>1, <4>1, <4>2, <4>3 DEF Spot, Found, Remaking, Sole, Running
      <4> QED
        BY <2>1, <3>1, <4>4 DEF Kept, ProcessesType
    <3>2. CASE owner[r] # p
      <4>1. waiter[p].run # r
        BY <2>2, <3>2 DEF OwnerInv, Owned, Running
      <4>2. InHand(r) => InHand(r)'
        BY <1>2, <4>1
      <4> QED
        BY <2>1, <2>2, <3>2, <4>2 DEF HandInv, Kept, ProcessesType
    <3> QED
      BY <3>1, <3>2
  <2> QED
    BY <2>1, <2>2 DEF HandInv
<1>5. CASE WaiterStops(p) \/ WaiterReaps(p) \/ WaiterEnds(p)
  <2>1. UNCHANGED processes
    BY <1>5 DEF WaiterStops, WaiterReaps, WaiterEnds
  <2>2. ASSUME NEW r \in Runs, life'[r] = "alive"
        PROVE  life[r] = "alive" /\ owner'[r] = owner[r] /\ (InHand(r) => InHand(r)')
    <3>1. life[r] = "alive" /\ owner'[r] = owner[r]
      BY <1>5, <2>2 DEF WaiterStops, WaiterReaps, WaiterEnds, Signalled, Reap, RunType
    <3>2. ~(waiter[p].run = r /\ waiter[p].pc \in {"adopt", "discard"})
      BY <1>5, <2>2 DEF WaiterStops, WaiterReaps, WaiterEnds, Signalled
    <3> QED
      BY <1>2, <3>1, <3>2
  <2> QED
    BY <1>1, <2>1, <2>2, SameKept
<1>6. CASE WaiterPassesGate(p) \/ WaiterReads(p) \/ WaiterForkFails(p) \/ WaiterDiscards(p)
  <2>1. UNCHANGED <<processes, life, owner>>
    BY <1>6 DEF WaiterPassesGate, WaiterReads, WaiterForkFails, WaiterDiscards
  <2>2. waiter[p].pc \in {"adopt", "discard"} =>
          waiter'[p].pc = "discard" /\ waiter'[p].run = waiter[p].run
    BY <1>6 DEF WaiterType, WaiterPassesGate, WaiterReads, WaiterForkFails, WaiterDiscards
  <2>3. \A r \in Runs : InHand(r) => InHand(r)'
    BY <1>1, <2>2 DEF InHand
  <2> QED
    BY <1>1, <2>1, <2>3, SameKept
<1> QED
  BY <1>3, <1>4, <1>5, <1>6 DEF WaiterStep

LEMMA CallerHand ==
  ASSUME Safe, HandInv, NEW c \in Callers, RestartCalled(c) \/ RestartStep(c)
  PROVE  HandInv'
<1> USE DEF Safe, Typed, TypeOK, mainVars, stopVars, runVars, startupVars
<1>1. UNCHANGED <<swept, starter, waiter>> /\ \A d \in Callers \ {c} : caller'[d] = caller[d]
  BY DEF CallerType, RestartCalled, RestartStep, RestartTakes, RestartStops, RestartJoins, RestartForks,
     RestartForkFails, RestartAdopts, RestartDiscards, RestartMarks
<1>2. ASSUME NEW r \in Runs, InHand(r), ~(caller[c].run = r /\ caller[c].pc \in {"stop", "adopt", "discard"})
      PROVE  InHand(r)'
  BY <1>1, <1>2 DEF InHand
<1>3. CASE RestartForks(c)
  <2>1. PICK s \in Runs : /\ Fork(caller[c].proc, s)
                          /\ caller' = [caller EXCEPT ![c].pc = "adopt", ![c].run = s]
    BY <1>3 DEF RestartForks
  <2>2. InHand(s)'
    BY <2>1 DEF InHand, CallerType
  <2>3. ASSUME NEW r \in Runs, r # s, life'[r] = "alive", owner'[r] \in Ours PROVE Kept(r)'
    <3>1. life[r] = "alive" /\ owner'[r] = owner[r]
      BY <2>1, <2>3 DEF Fork, RunType
    <3>2. InHand(r) => InHand(r)'
      BY <1>2, <1>3 DEF RestartForks
    <3> QED
      BY <1>1, <1>3, <2>3, <3>1, <3>2 DEF HandInv, Kept, RestartForks
  <2> QED
    BY <2>2, <2>3 DEF HandInv, Kept
<1>4. CASE RestartTakes(c)
  <2>1. /\ UNCHANGED <<life, owner>> /\ caller[c].pc = "take"
        /\ processes' = [processes EXCEPT ![caller[c].proc] = NoRun]
    BY <1>4 DEF RestartTakes
  <2>2. ASSUME NEW r \in Runs, life[r] = "alive", owner[r] \in Ours PROVE Kept(r)'
    <3>1. CASE InHand(r)
      BY <1>2, <2>1, <3>1 DEF Kept
    <3>2. CASE ~swept /\ processes[owner[r]] = r /\ owner[r] = caller[c].proc
      <4>1. Existing(caller[c].proc) = r /\ r # NoRun
        BY <3>2, ConfigAssumption DEF Existing, ConfigAssumption
      <4>2. caller'[c].pc = "stop" /\ caller'[c].run = r
        BY <1>4, <4>1 DEF RestartTakes, CallerType
      <4> QED
        BY <4>2 DEF Kept, InHand
    <3>3. CASE ~swept /\ processes[owner[r]] = r /\ owner[r] # caller[c].proc
      BY <1>1, <2>1, <2>2, <3>3 DEF Kept, ProcessesType, Ours
    <3> QED
      BY <2>2, <3>1, <3>2, <3>3 DEF HandInv, Kept
  <2> QED
    BY <2>1, <2>2 DEF HandInv
<1>5. CASE RestartAdopts(c)
  <2>1. /\ ~swept' /\ UNCHANGED <<life, owner>> /\ caller[c].pc = "adopt"
        /\ processes' = [processes EXCEPT ![caller[c].proc] = caller[c].run]
    BY <1>5 DEF RestartAdopts, AdoptRefuses, SweepInv, SweepOrder
  <2>2. ASSUME NEW r \in Runs, life[r] = "alive", owner[r] \in Ours PROVE Kept(r)'
    <3>1. CASE owner[r] = caller[c].proc
      <4>1. main \notin {"failed", "exited"}
        BY <1>5, <2>1 DEF RestartAdopts, Up, BeginInv
      <4>2. owner[r] \in Restartable /\ ~Gated(owner[r]) /\ owner[r] \notin Recurring
        BY <2>1, <2>2, <3>1 DEF CallersNameProcesses, Ours, Contended
      <4>3. Spot(owner[r]) /\ ~Before(owner[r]) /\ HoldsFor(c, owner[r])
        BY <2>1, <2>2, <3>1, <4>2 DEF SpotInv, Before, HoldsFor, Holding
      <4>4. caller[c].run = r
        BY <2>2, <4>1, <4>3 DEF Spot, Found, Sole, Running
      <4> QED
        BY <2>1, <2>2, <3>1, <4>4 DEF Kept, ProcessesType, Ours
    <3>2. CASE owner[r] # caller[c].proc
      <4>1. caller[c].run # r
        BY <2>2, <3>2 DEF OwnerInv, Owned, Running
      <4>2. InHand(r) => InHand(r)'
        BY <1>2, <4>1
      <4> QED
        BY <2>1, <2>2, <3>2, <4>2 DEF HandInv, Kept, ProcessesType, Ours
    <3> QED
      BY <3>1, <3>2
  <2> QED
    BY <2>1, <2>2 DEF HandInv
<1>6. CASE RestartStops(c) \/ RestartJoins(c)
  <2>1. UNCHANGED processes
    BY <1>6 DEF RestartStops, RestartJoins
  <2>2. ASSUME NEW r \in Runs, life'[r] = "alive"
        PROVE  life[r] = "alive" /\ owner'[r] = owner[r] /\ (InHand(r) => InHand(r)')
    <3>1. life[r] = "alive" /\ owner'[r] = owner[r]
      BY <1>6, <2>2 DEF RestartStops, RestartJoins, Signalled, Reap, RunType
    <3>2. ~(caller[c].run = r /\ caller[c].pc \in {"stop", "adopt", "discard"})
      BY <1>6, <2>2 DEF RestartStops, RestartJoins, Signalled
    <3> QED
      BY <1>2, <3>1, <3>2
  <2> QED
    BY <1>1, <2>1, <2>2, SameKept
<1>7. CASE RestartCalled(c) \/ RestartForkFails(c) \/ RestartDiscards(c) \/ RestartMarks(c)
  <2>1. UNCHANGED <<processes, life, owner>>
    BY <1>7 DEF RestartCalled, RestartForkFails, RestartDiscards, RestartMarks
  <2>2. caller[c].pc \in {"stop", "adopt", "discard"} =>
          caller'[c].pc = "discard" /\ caller'[c].run = caller[c].run
    BY <1>7 DEF CallerType, RestartCalled, RestartForkFails, RestartDiscards, RestartMarks
  <2>3. \A r \in Runs : InHand(r) => InHand(r)'
    BY <1>1, <2>2 DEF InHand
  <2> QED
    BY <1>1, <2>1, <2>3, SameKept
<1> QED
  BY <1>3, <1>4, <1>5, <1>6, <1>7 DEF RestartStep

LEMMA HandStep ==
  ASSUME Safe, HandInv, [Next]_vars
  PROVE  HandInv'
<1> USE DEF Safe, Typed, TypeOK, mainVars, stopVars, runVars, startupVars
\* A step that leaves all hands as they are.
<1>1. ASSUME UNCHANGED <<swept, processes, starter, waiter, caller>>,
             \A r \in Runs : life'[r] = "alive" => life[r] = "alive" /\ owner'[r] = owner[r]
      PROVE  HandInv'
  <2>1. \A r \in Runs : InHand(r) => InHand(r)'
    BY <1>1 DEF InHand
  <2> QED
    BY <1>1, <2>1, SameKept
<1>2. CASE \/ StartBegins \/ StartEnds \/ FailedStartExits \/ WaitReturns \/ QuitCancels \/ StopCancels
           \/ UNCHANGED vars \/ (\E d \in Deps : HealthDecides(d)) \/ (\E r \in Runs : Exit(r))
  <2>1. UNCHANGED <<swept, owner, processes, starter, waiter, caller>>
    BY <1>2 DEF StartBegins, StartEnds, FailedStartExits, WaitReturns, QuitCancels, StopCancels,
       HealthDecides, Exit, vars
  <2>2. \A r \in Runs : life'[r] = "alive" => life[r] = "alive"
    BY <1>2 DEF StartBegins, StartEnds, FailedStartExits, WaitReturns, QuitCancels, StopCancels,
       HealthDecides, Exit, vars, RunType
  <2> QED
    BY <1>1, <2>1, <2>2
\* A sweep leaves alive only what is in somebody's hands.
<1>3. ASSUME life' = Signalled({r \in Runs : Registered(r)}), UNCHANGED <<owner, starter, waiter, caller>>
      PROVE  HandInv'
  <2> SUFFICES ASSUME NEW r \in Runs, life'[r] = "alive", owner[r] \in Ours PROVE InHand(r)'
    BY <1>3 DEF HandInv, Kept
  <2>1. life[r] = "alive" /\ ~Registered(r)
    BY <1>3 DEF Signalled
  <2>2. InHand(r)
    BY <2>1 DEF HandInv, Kept, Registered, Ours
  <2> QED
    BY <1>3, <2>2 DEF InHand
<1>4. CASE QuitSweeps \/ StopSweeps
  BY <1>3, <1>4 DEF QuitSweeps, StopSweeps, Sweep
<1>5. ASSUME NEW p \in Procs, StartFails(p) PROVE HandInv'
  BY <1>3, <1>5 DEF StartFails
<1>6. CASE WaitBegins
  <2>1. \A p \in Procs : waiter[p].pc = "off"
    BY <1>6 DEF WaitBegins, BeginInv
  <2>2. \A r \in Runs : InHand(r) => InHand(r)'
    BY <1>6, <2>1 DEF WaitBegins, InHand
  <2> QED
    BY <1>6, <2>2, SameKept DEF WaitBegins
<1>7. ASSUME NEW p \in Procs, StartRecurring(p) \/ StartGated(p) PROVE HandInv'
  <2>1. Starting(p) /\ UNCHANGED <<swept, life, owner, waiter, caller>>
    BY <1>7 DEF StartRecurring, StartGated
  <2>2. Unreached(p) /\ starter[p].pc = "off"
    BY <2>1, StartingUnreached DEF BeginInv
  <2>3. \A q \in Procs \ {p} : starter'[q] = starter[q] /\ processes'[q] = processes[q]
    BY <1>7 DEF StartRecurring, StartGated, StarterType, ProcessesType
  <2>4. \A r \in Runs : InHand(r) => InHand(r)'
    BY <2>1, <2>2, <2>3 DEF InHand
  <2>5. ASSUME NEW r \in Runs, life[r] = "alive", owner[r] \in Ours PROVE owner[r] \in Procs \ {p}
    BY <2>2, <2>5, ConfigAssumption DEF ConfigAssumption, Ours, SpotInv, Spot, Sole, Running
  <2> QED
    BY <2>1, <2>3, <2>4, <2>5 DEF HandInv, Kept
<1>8. ASSUME NEW p \in Procs, StartPlain(p) PROVE HandInv'
  <2>1. PICK s \in Runs : Fork(p, s) /\ processes' = [processes EXCEPT ![p] = s]
    BY <1>8 DEF StartPlain
  <2>2. Starting(p) /\ ~swept' /\ UNCHANGED <<swept, starter, waiter, caller>>
    BY <1>8 DEF StartPlain, Starting, SweepInv, SweepOrder
  <2>3. owner'[s] = p /\ processes'[p] = s
    BY <2>1 DEF Fork, RunType, ProcessesType
  <2>4. ASSUME NEW r \in Runs, r # s, life'[r] = "alive", owner'[r] \in Ours PROVE Kept(r)'
    <3>1. life[r] = "alive" /\ owner'[r] = owner[r]
      BY <2>1, <2>4 DEF Fork, RunType
    <3>2. owner[r] \in Procs \ {p}
      BY <2>2, <2>4, <3>1, StartingUnreached, ConfigAssumption
         DEF ConfigAssumption, Ours, SpotInv, Spot, Sole, Running
    <3>3. processes'[owner[r]] = processes[owner[r]]
      BY <2>1, <3>2 DEF ProcessesType
    <3>4. InHand(r) => InHand(r)'
      BY <2>2 DEF InHand
    <3> QED
      BY <2>2, <2>4, <3>1, <3>3, <3>4 DEF HandInv, Kept
  <2> QED
    BY <2>2, <2>3, <2>4 DEF HandInv, Kept
<1>9. ASSUME NEW p \in Procs, StarterStep(p) \/ WaiterStep(p) PROVE HandInv'
  BY <1>9, StarterHand, WaiterHand
<1>10. ASSUME NEW c \in Callers, RestartCalled(c) \/ RestartStep(c) PROVE HandInv'
  BY <1>10, CallerHand
<1> QED
  BY <1>2, <1>4, <1>5, <1>6, <1>7, <1>8, <1>9, <1>10 DEF Next, Main, Over

-----------------------------------------------------------------------------
LEMMA InitSafe == Init => Safe /\ HandInv
<1> SUFFICES ASSUME Init PROVE Safe /\ HandInv
  OBVIOUS
<1>1. Typed
  BY InitTyped
<1>2. BeginInv /\ EmptyInv
  BY DEF Init, BeginInv, EmptyInv, Unreached, Remaking
<1>3. HandoverInv
  BY DEF Init, HandoverInv, GateHandsOver, Working, Remaking, Gated
<1>4. \A p \in Procs : Once(p) /\ \A x : Sole(p, x)
  BY DEF Init, Sole, Once, Running
<1>5. SpotInv
  BY <1>4 DEF Init, SpotInv, Ours, Spot, Found, HoldsFor, Holding, Remaking
<1>6. OwnerInv
  BY DEF Init, OwnerInv, Owned, Running
<1>7. SweepInv /\ HandInv
  BY DEF Init, SweepInv, SweepOrder, RegisteredRunsSwept, HandInv
<1> QED
  BY <1>1, <1>2, <1>3, <1>5, <1>6, <1>7 DEF Safe

LEMMA StepSafe == ~EarlyCalls => (Safe /\ HandInv /\ [Next]_vars => Safe' /\ HandInv')
<1> SUFFICES ASSUME ~EarlyCalls, Safe, HandInv, [Next]_vars PROVE Safe' /\ HandInv'
  OBVIOUS
<1>1. Typed' /\ BeginInv' /\ EmptyInv' /\ HandoverInv'
  BY StepTyped, BeginStep, EmptyStep, HandoverStep DEF Safe
<1>2. SpotInv' /\ OwnerInv' /\ SweepInv'
  BY SpotStep, OwnerStep, StepSwept DEF Safe
<1>3. HandInv'
  BY HandStep
<1> QED
  BY <1>1, <1>2, <1>3 DEF Safe

LEMMA SafeKeepsSingle == Safe => RestartKeepsSingle
BY DEF Safe, SpotInv, Spot, Once, Ours, RestartKeepsSingle, Single

LEMMA HandKeepsStopped == HandInv => RestartKeepsStopped
BY DEF HandInv, Kept, Ours, RestartKeepsStopped, Stopped

\* A process that nobody restarts by hand, or that Restart alone starts
\* again and one caller at a time, never has two OS processes: Start, its
\* gate or ticker, its waiter and Restart hand it on to one another in order
\* (manager.go Start, gate, startRecurringProcess, Wait, Restart). The API must
\* not have been called before Manager.Start has returned.
THEOREM NeverTwice == ~EarlyCalls => (Spec => []RestartKeepsSingle)
<1> SUFFICES ASSUME ~EarlyCalls PROVE Spec => []RestartKeepsSingle
  OBVIOUS
<1> QED
  BY InitSafe, StepSafe, SafeKeepsSingle, PTL DEF Spec

\* Once Stop has swept, every run of such a process that has not been
\* signalled is held by a goroutine that is about to stop it: adopt refuses
\* what was forked before the sweep and Stop missed (manager.go adopt, discard,
\* Restart).
THEOREM StopReachesAll == ~EarlyCalls => (Spec => []RestartKeepsStopped)
<1> SUFFICES ASSUME ~EarlyCalls PROVE Spec => []RestartKeepsStopped
  OBVIOUS
<1> QED
  BY InitSafe, StepSafe, HandKeepsStopped, PTL DEF Spec

\* In a configuration where no process is contended, which includes every
\* one whose processes nobody restarts by hand, no process runs twice.
THEOREM NoProcessTwice == ~EarlyCalls /\ Contended = {} => (Spec => []SingleRun)
<1> SUFFICES ASSUME ~EarlyCalls, Contended = {} PROVE Spec => []SingleRun
  OBVIOUS
<1>1. Safe => SingleRun
  BY SafeKeepsSingle DEF RestartKeepsSingle, SingleRun, Single
<1> QED
  BY <1>1, InitSafe, StepSafe, PTL DEF Spec

\* In such a configuration no run at all escapes Stop: after its sweep each is
\* signalled or in the hands of a goroutine that will stop it.
THEOREM NoRunEscapesStop == ~EarlyCalls /\ Contended = {} => (Spec => []SweptRunsStop)
<1> SUFFICES ASSUME ~EarlyCalls, Contended = {} PROVE Spec => []SweptRunsStop
  OBVIOUS
<1>1. HandInv => SweptRunsStop
  BY HandKeepsStopped DEF RestartKeepsStopped, SweptRunsStop, Stopped
<1> QED
  BY <1>1, InitSafe, StepSafe, PTL DEF Spec

-----------------------------------------------------------------------------
(* What is left when the program ends. A plain process that nobody         *)
(* restarts by hand is in the hands of its waiter alone, which ends with   *)
(* nothing running.                                                        *)

Lone == Plain \ Restartable

Ended(p) ==
  /\ processes[p] # Placeholder
  /\ waiter[p].pc # "gate"
  /\ main = "waiting" /\ waiter[p].pc \in {"off", "done"} => Sole(p, NoRun)
  /\ main \in {"failed", "exited"} => \A r \in Runs : owner[r] = p => life[r] # "alive"
  /\ main = "exited" => cancelled \/ \A r \in Runs : owner[r] = p => ~Running(r)

EndInv == \A p \in Lone : Ended(p)

\* A step that starts no run of p and makes none alive.
Lull(p) == /\ Calm(p)
           /\ \A r \in Runs : life'[r] = "alive" /\ owner'[r] = p => life[r] = "alive" /\ owner[r] = p

LEMMA SameLull == ASSUME NEW q, UNCHANGED runVars PROVE Lull(q)
BY SameCalm DEF Lull, runVars

LEMMA SignalledLull ==
  ASSUME RunType, NEW q, NEW S, life' = Signalled(S), UNCHANGED owner PROVE Lull(q)
<1>1. Calm(q)
  BY SignalledCalm
<1> QED
  BY <1>1 DEF Lull, RunType, Signalled

LEMMA ForkLull ==
  ASSUME RunType, NEW q, NEW p, p # q, NEW r \in Runs, Fork(p, r) PROVE Lull(q)
<1>1. Calm(q)
  BY ForkCalm
<1> QED
  BY <1>1 DEF Lull, RunType, Fork

LEMMA ExitLull == ASSUME RunType, NEW q, NEW r \in Runs, Exit(r) PROVE Lull(q)
<1>1. Calm(q)
  BY ExitCalm
<1> QED
  BY <1>1 DEF Lull, RunType, Exit

LEMMA ReapLull == ASSUME RunType, NEW q \in Procs, NEW r, Reap(r) PROVE Lull(q)
<1>1. Calm(q)
  BY ReapCalm
<1> QED
  BY <1>1 DEF Lull, RunType, Reap

LEMMA LoneFacts ==
  ASSUME Safe, NEW q \in Lone
  PROVE  /\ q \in Procs /\ q \in Ours /\ q \notin Recurring /\ q \notin Restartable /\ ~Gated(q)
         /\ starter[q].pc = "off"
         /\ \A c \in Callers : caller[c].pc # "idle" => caller[c].proc \in Procs \ {q}
<1>1. q \in Procs /\ q \notin Recurring /\ q \notin Restartable /\ ~Gated(q)
  BY DEF Lone, Plain
<1>2. q \in Ours
  BY <1>1 DEF Ours, Contended
<1>3. starter[q].pc = "off"
  BY <1>1 DEF Safe, EmptyInv
<1>4. \A c \in Callers : caller[c].pc # "idle" => caller[c].proc \in Procs \ {q}
  BY <1>1, ConfigAssumption DEF Safe, Typed, CallersNameProcesses, ConfigAssumption
<1> QED
  BY <1>1, <1>2, <1>3, <1>4

\* Neither its run nor its waiter is touched.
LEMMA EndedKept ==
  ASSUME NEW q, Ended(q), Lull(q), UNCHANGED main, cancelled => cancelled',
         processes'[q] = processes[q], waiter'[q] = waiter[q]
  PROVE  Ended(q)'
<1>1. Sole(q, NoRun) => Sole(q, NoRun)'
  BY DEF Sole, Lull, Calm
<1>2. (\A r \in Runs : owner[r] = q => life[r] # "alive") => (\A r \in Runs : owner'[r] = q => life'[r] # "alive")
  BY DEF Lull
<1>3. (\A r \in Runs : owner[r] = q => ~Running(r)) => (\A r \in Runs : owner'[r] = q => ~Running(r)')
  BY DEF Lull, Calm
<1> QED
  BY <1>1, <1>2, <1>3 DEF Ended

\* When Start fails nobody but the map has a run of q, and it is signalled.
LEMMA FailureEnds ==
  ASSUME Safe, HandInv, NEW q \in Lone, Ended(q), NEW p \in Procs, StartFails(p)
  PROVE  Ended(q)'
<1> USE DEF Safe, Typed, TypeOK
<1>0. /\ q \in Procs /\ q \in Ours /\ starter[q].pc = "off"
      /\ \A c \in Callers : caller[c].pc # "idle" => caller[c].proc # q
  BY LoneFacts
<1>1. /\ main = "start" /\ main' = "failed" /\ UNCHANGED <<owner, waiter>>
      /\ life' = Signalled({r \in Runs : Registered(r)})
      /\ processes' = [t \in Procs |-> NoRun]
  BY DEF StartFails, Starting
<1>2. ASSUME NEW r \in Runs, owner[r] = q, life'[r] = "alive" PROVE FALSE
  <2>1. life[r] = "alive" /\ ~Registered(r) /\ Running(r)
    BY <1>1, <1>2 DEF Signalled, RunType, Running
  <2>2. Kept(r)
    BY <1>0, <1>2, <2>1 DEF HandInv
  <2>3. InHand(r)
    BY <1>0, <1>2, <2>1, <2>2 DEF Kept, Registered
  <2>4. \A t \in Procs : waiter[t].pc = "off"
    BY <1>1 DEF BeginInv
  <2>5. \A c \in Callers : caller[c].pc = "idle"
    BY <1>1 DEF BeginInv
  <2>6. PICK t \in Procs : starter[t].run = r /\ starter[t].pc \in {"adopt", "discard"}
    BY <2>3, <2>4, <2>5 DEF InHand
  <2>7. owner[r] = t
    BY <2>1, <2>6 DEF OwnerInv, Owned
  <2> QED
    BY <1>0, <1>2, <2>6, <2>7
<1>3. processes'[q] # Placeholder
  BY <1>0, <1>1, ConfigAssumption DEF ConfigAssumption
<1> QED
  BY <1>1, <1>2, <1>3 DEF Ended

LEMMA MainEnds ==
  ASSUME Safe, HandInv, NEW q \in Lone, Ended(q), Main
  PROVE  Ended(q)'
<1> USE DEF Safe, Typed, TypeOK, mainVars, stopVars, runVars, startupVars
<1>0. /\ q \in Procs /\ q \in Ours /\ q \notin Recurring /\ ~Gated(q) /\ starter[q].pc = "off"
      /\ \A c \in Callers : caller[c].pc # "idle" => caller[c].proc # q
  BY LoneFacts
<1>1. CASE StartBegins \/ StartEnds
  BY <1>1 DEF StartBegins, StartEnds, Ended
<1>2. CASE FailedStartExits
  <2>1. main = "failed" /\ main' = "exited" /\ cancelled /\ UNCHANGED <<life, owner, processes, waiter, cancelled>>
    BY <1>2 DEF FailedStartExits, BeginInv
  <2> QED
    BY <2>1 DEF Ended
<1>3. CASE QuitSweeps
  <2>1. main' = "launch" /\ UNCHANGED <<processes, waiter>>
    BY <1>3 DEF QuitSweeps
  <2> QED
    BY <2>1 DEF Ended
<1>4. CASE WaitBegins
  <2>1. main = "launch" /\ main' = "waiting" /\ UNCHANGED <<processes, life, owner>>
    BY <1>4 DEF WaitBegins
  <2>2. waiter[q].pc = "off"
    BY <2>1, <1>0 DEF BeginInv
  <2>3. waiter'[q].pc = IF processes[q] # NoRun THEN "read" ELSE "off"
    BY <1>0, <1>4, <2>2 DEF WaitBegins, Known, WaiterType
  <2>4. Sole(q, processes[q])
    <3>1. ~Before(q)
      BY <1>0 DEF Before
    <3>2. Found(q)
      BY <1>0, <2>1, <3>1 DEF SpotInv, Spot
    <3> QED
      BY <1>0, <2>2, <3>2 DEF Found, HoldsFor, Holding, Remaking
  <2>5. processes[q] = NoRun => Sole(q, NoRun)'
    BY <2>1, <2>4 DEF Sole, Running
  <2> QED
    BY <2>1, <2>3, <2>5 DEF Ended
<1>5. CASE WaitReturns
  <2>1. main = "waiting" /\ main' = "exited" /\ UNCHANGED <<processes, life, owner, waiter>>
        /\ waiter[q].pc \in {"off", "done"}
    BY <1>0, <1>5 DEF WaitReturns, WaitersDone
  <2>2. Sole(q, NoRun)
    BY <2>1 DEF Ended
  <2>3. \A r \in Runs : owner[r] = q => ~Running(r)
    BY <2>2, ConfigAssumption DEF Sole, ConfigAssumption
  <2>4. \A r \in Runs : owner'[r] = q => ~Running(r)' /\ life'[r] # "alive"
    BY <2>1, <2>3 DEF Running
  <2> QED
    BY <2>1, <2>4 DEF Ended
<1>6. ASSUME NEW p \in Procs, StartRecurring(p) \/ StartGated(p) PROVE Ended(q)'
  <2>1. main = "start" /\ main' = "start" /\ UNCHANGED waiter
    BY <1>6 DEF StartRecurring, StartGated, Starting
  <2>2. processes'[q] = processes[q]
    BY <1>0, <1>6 DEF StartRecurring, StartGated, ProcessesType
  <2> QED
    BY <2>1, <2>2 DEF Ended
<1>7. ASSUME NEW p \in Procs, StartPlain(p) PROVE Ended(q)'
  <2>1. main = "start" /\ main' = "start" /\ UNCHANGED waiter
    BY <1>7 DEF StartPlain, Starting
  <2>2. processes'[q] = processes[q] \/ processes'[q] \in Runs
    BY <1>0, <1>7 DEF StartPlain, ProcessesType
  <2> QED
    BY <2>1, <2>2, ConfigAssumption DEF Ended, ConfigAssumption
<1>8. ASSUME NEW p \in Procs, StartFails(p) PROVE Ended(q)'
  BY <1>8, FailureEnds
<1> QED
  BY <1>1, <1>2, <1>3, <1>4, <1>5, <1>6, <1>7, <1>8 DEF Main

LEMMA StarterEnds ==
  ASSUME Safe, NEW q \in Lone, Ended(q), NEW p \in Procs, StarterStep(p)
  PROVE  Ended(q)'
<1> USE DEF Safe, Typed, TypeOK, mainVars, stopVars, runVars, startupVars
<1>0. q \in Procs /\ starter[q].pc = "off"
  BY LoneFacts
<1>1. p # q
  BY <1>0 DEF StarterStep, AwaitService, DependencyReady, AwaitFails, GateChecks, StarterForks,
     GateForkFails, StarterAdopts, GateSettles, StarterDiscards, StarterStops, StarterReaps, TickerEnds
<1>2. Lull(q)
  <2>1. CASE StarterForks(p)
    BY <1>1, <2>1, ForkLull DEF StarterForks
  <2>2. CASE StarterStops(p)
    BY <2>2, SignalledLull DEF StarterStops
  <2>3. CASE StarterReaps(p)
    BY <1>0, <2>3, ReapLull DEF StarterReaps
  <2>4. CASE ~(StarterForks(p) \/ StarterStops(p) \/ StarterReaps(p))
    BY <2>4, SameLull DEF StarterStep, AwaitService, DependencyReady, AwaitFails, GateChecks,
       GateForkFails, StarterAdopts, GateSettles, StarterDiscards, TickerEnds
  <2> QED
    BY <2>1, <2>2, <2>3, <2>4
<1>3. UNCHANGED <<main, cancelled, waiter>> /\ processes'[q] = processes[q]
  BY <1>0, <1>1 DEF ProcessesType, StarterStep, AwaitService, DependencyReady, AwaitFails, GateChecks,
     StarterForks, GateForkFails, StarterAdopts, GateSettles, StarterDiscards, StarterStops,
     StarterReaps, TickerEnds
<1> QED
  BY <1>2, <1>3, EndedKept

\* Its waiter is done only when it has found or left nothing running.
LEMMA OwnWaiterEnds ==
  ASSUME Safe, NEW q \in Lone, Ended(q), WaiterStep(q)
  PROVE  Ended(q)'
<1> USE DEF Safe, Typed, TypeOK, mainVars, stopVars, runVars, startupVars
<1>0. /\ q \in Procs /\ q \in Ours /\ q \notin Recurring /\ q \notin Restartable /\ ~Gated(q)
      /\ \A c \in Callers : caller[c].pc # "idle" => caller[c].proc # q
  BY LoneFacts
<1>1. /\ waiter[q].pc # "off" /\ main # "exited" /\ UNCHANGED main
  BY DEF Up, WaiterStep, WaiterPassesGate, WaiterReads, WaiterReaps, WaiterForks,
     WaiterForkFails, WaiterAdopts, WaiterDiscards, WaiterStops, WaiterEnds
<1>2. main = "waiting"
  BY <1>0, <1>1 DEF BeginInv
<1>3. Found(q)
  <2>1. ~Before(q)
    BY <1>0 DEF Before
  <2> QED
    BY <1>0, <1>2, <2>1 DEF SpotInv, Spot
<1>4. waiter[q].pc \notin Remaking => Sole(q, processes[q])
  BY <1>0, <1>3 DEF Found, HoldsFor, Holding
<1>5. waiter[q].pc # "gate" /\ processes[q] # Placeholder
  BY DEF Ended
<1>6. processes'[q] # Placeholder
  BY <1>0, <1>5, ConfigAssumption
     DEF ConfigAssumption, WaiterType, ProcessesType, WaiterStep, WaiterPassesGate, WaiterReads, WaiterReaps,
         WaiterForks, WaiterForkFails, WaiterAdopts, WaiterDiscards, WaiterStops, WaiterEnds
<1>7. waiter'[q].pc # "gate" /\ waiter'[q].pc # "off"
  <2>1. CASE WaiterReaps(q)
    BY <1>0, <2>1 DEF WaiterType, WaiterReaps
  <2>2. CASE ~WaiterReaps(q)
    BY <1>0, <1>5, <2>2 DEF WaiterType, WaiterStep, WaiterPassesGate, WaiterReads,
       WaiterForks, WaiterForkFails, WaiterAdopts, WaiterDiscards, WaiterStops, WaiterEnds
  <2> QED
    BY <2>1, <2>2
<1>8. waiter'[q].pc = "done" => Sole(q, NoRun)'
  <2> SUFFICES ASSUME waiter'[q].pc = "done" PROVE Sole(q, NoRun)'
    OBVIOUS
  <2>1. CASE WaiterReads(q)
    <3>1. Existing(q) = NoRun /\ waiter[q].pc = "read" /\ UNCHANGED <<life, owner>>
      BY <1>0, <2>1 DEF WaiterReads, WaiterType
    <3>2. processes[q] = NoRun
      BY <1>0, <1>5, <3>1, ConfigAssumption DEF Existing, ProcessesType, ConfigAssumption
    <3> QED
      BY <1>4, <3>1, <3>2 DEF Sole, Running, Remaking
  <2>2. CASE WaiterReaps(q)
    <3>1. waiter[q].pc = "wait" /\ Reap(waiter[q].run)
      BY <2>2 DEF WaiterReaps
    <3>2. Sole(q, waiter[q].run)
      BY <1>0, <1>4, <3>1 DEF HandoverInv, Remaking
    <3> QED
      BY <1>0, <3>1, <3>2, ReapCalm
  <2>3. CASE WaiterEnds(q)
    <3>1. waiter[q].pc = "reap" /\ Reap(waiter[q].run)
      BY <2>3 DEF WaiterEnds
    <3>2. Sole(q, waiter[q].run)
      BY <1>3, <3>1 DEF Found, Remaking
    <3> QED
      BY <1>0, <3>1, <3>2, ReapCalm
  <2>4. CASE WaiterForkFails(q)
    <3>1. waiter[q].pc = "fork" /\ UNCHANGED <<life, owner>>
      BY <2>4 DEF WaiterForkFails
    <3>2. waiter[q].run = NoRun /\ Sole(q, waiter[q].run)
      BY <1>0, <1>3, <3>1 DEF EmptyInv, Found, Remaking
    <3> QED
      BY <3>1, <3>2 DEF Sole, Running
  <2>5. CASE \/ WaiterPassesGate(q) \/ WaiterForks(q) \/ WaiterAdopts(q) \/ WaiterDiscards(q)
             \/ WaiterStops(q)
    BY <1>0, <1>5, <2>5 DEF WaiterType, WaiterPassesGate, WaiterForks, WaiterAdopts, WaiterDiscards,
       WaiterStops
  <2> QED
    BY <2>1, <2>2, <2>3, <2>4, <2>5 DEF WaiterStep
<1> QED
  BY <1>1, <1>2, <1>6, <1>7, <1>8 DEF Ended

LEMMA WaitersEnd ==
  ASSUME Safe, NEW q \in Lone, Ended(q), NEW p \in Procs, WaiterStep(p)
  PROVE  Ended(q)'
<1> USE DEF Safe, Typed, TypeOK, mainVars, stopVars, runVars, startupVars
<1>0. q \in Procs
  BY LoneFacts
<1>1. CASE p = q
  BY <1>1, OwnWaiterEnds
<1>2. CASE p # q
  <2>1. Lull(q)
    <3>1. CASE \/ WaiterPassesGate(p) \/ WaiterReads(p) \/ WaiterForkFails(p) \/ WaiterAdopts(p)
               \/ WaiterDiscards(p)
      BY <3>1, SameLull DEF WaiterPassesGate, WaiterReads, WaiterForkFails, WaiterAdopts, WaiterDiscards
    <3>2. CASE WaiterForks(p)
      BY <1>2, <3>2, ForkLull DEF WaiterForks
    <3>3. CASE WaiterStops(p)
      BY <3>3, SignalledLull DEF WaiterStops
    <3>4. CASE WaiterReaps(p) \/ WaiterEnds(p)
      BY <1>0, <3>4, ReapLull DEF WaiterReaps, WaiterEnds
    <3> QED
      BY <3>1, <3>2, <3>3, <3>4 DEF WaiterStep
  <2>2. /\ processes'[q] = processes[q] /\ waiter'[q] = waiter[q]
        /\ UNCHANGED <<main, cancelled>>
    BY <1>0, <1>2 DEF WaiterType, ProcessesType, WaiterStep, WaiterPassesGate, WaiterReads, WaiterReaps,
       WaiterForks, WaiterForkFails, WaiterAdopts, WaiterDiscards, WaiterStops, WaiterEnds
  <2> QED
    BY <2>1, <2>2, EndedKept
<1> QED
  BY <1>1, <1>2

LEMMA CallerEnds ==
  ASSUME Safe, NEW q \in Lone, Ended(q), NEW c \in Callers, RestartCalled(c) \/ RestartStep(c)
  PROVE  Ended(q)'
<1> USE DEF Safe, Typed, TypeOK, mainVars, stopVars, runVars, startupVars
<1>0. /\ q \in Procs
      /\ caller[c].pc # "idle" => caller[c].proc \in Procs \ {q}
  BY LoneFacts
<1>1. CASE RestartCalled(c)
  BY <1>1, SameLull, EndedKept DEF RestartCalled
<1>2. CASE RestartStep(c)
  <2>0. caller[c].proc \in Procs /\ caller[c].proc # q
    BY <1>0, <1>2 DEF RestartStep, RestartTakes, RestartStops, RestartJoins, RestartForks,
       RestartForkFails, RestartAdopts, RestartDiscards, RestartMarks
  <2>1. Lull(q)
    <3>1. CASE \/ RestartTakes(c) \/ RestartForkFails(c) \/ RestartAdopts(c) \/ RestartDiscards(c)
               \/ RestartMarks(c)
      BY <3>1, SameLull DEF RestartTakes, RestartForkFails, RestartAdopts, RestartDiscards, RestartMarks
    <3>2. CASE RestartForks(c)
      BY <2>0, <3>2, ForkLull DEF RestartForks
    <3>3. CASE RestartStops(c)
      BY <3>3, SignalledLull DEF RestartStops
    <3>4. CASE RestartJoins(c)
      BY <1>0, <3>4, ReapLull DEF RestartJoins
    <3> QED
      BY <1>2, <3>1, <3>2, <3>3, <3>4 DEF RestartStep
  <2>2. processes'[q] = processes[q] /\ UNCHANGED <<main, cancelled, waiter>>
    BY <1>0, <1>2, <2>0 DEF ProcessesType, RestartStep, RestartTakes, RestartStops, RestartJoins, RestartForks,
       RestartForkFails, RestartAdopts, RestartDiscards, RestartMarks
  <2> QED
    BY <2>1, <2>2, EndedKept
<1> QED
  BY <1>1, <1>2

LEMMA EndStep ==
  ASSUME Safe, HandInv, EndInv, [Next]_vars
  PROVE  EndInv'
<1> SUFFICES ASSUME NEW q \in Lone PROVE Ended(q)'
  BY DEF EndInv, Lone, Plain, Gated
<1>0. Ended(q) /\ RunType
  BY DEF EndInv, Safe, Typed, TypeOK
<1> USE DEF mainVars, stopVars, runVars, startupVars
<1>1. CASE Main
  BY <1>0, <1>1, MainEnds
<1>2. ASSUME NEW p \in Procs, StarterStep(p) PROVE Ended(q)'
  BY <1>0, <1>2, StarterEnds
<1>3. ASSUME NEW p \in Procs, WaiterStep(p) PROVE Ended(q)'
  BY <1>0, <1>3, WaitersEnd
<1>4. ASSUME NEW c \in Callers, RestartCalled(c) \/ RestartStep(c) PROVE Ended(q)'
  BY <1>0, <1>4, CallerEnds
<1>5. CASE QuitCancels
  BY <1>0, <1>5 DEF QuitCancels, Ended
<1>6. CASE StopCancels \/ (\E d \in Deps : HealthDecides(d)) \/ UNCHANGED vars
  <2>1. Lull(q) /\ UNCHANGED <<main, processes, waiter>> /\ (cancelled => cancelled')
    BY <1>6, SameLull DEF StopCancels, HealthDecides, vars
  <2> QED
    BY <1>0, <2>1, EndedKept
<1>7. CASE StopSweeps \/ (\E r \in Runs : Exit(r))
  <2>1. Lull(q)
    BY <1>0, <1>7, SignalledLull, ExitLull DEF StopSweeps, Sweep
  <2>2. UNCHANGED <<main, processes, waiter, cancelled>>
    BY <1>7 DEF StopSweeps, Exit
  <2> QED
    BY <1>0, <2>1, <2>2, EndedKept
<1> QED
  BY <1>1, <1>2, <1>3, <1>4, <1>5, <1>6, <1>7 DEF Next, Over

LEMMA InitEnds == Init => EndInv
<1> SUFFICES ASSUME Init, NEW p \in Lone PROVE Ended(p)
  BY DEF EndInv
<1>1. p \in Procs
  BY DEF Lone, Plain
<1>2. main = "serving" /\ processes[p] = NoRun /\ waiter[p].pc = "off"
  BY <1>1 DEF Init
<1> QED
  BY <1>2, ConfigAssumption DEF ConfigAssumption, Ended

\* run() does not leave a plain process running behind it: whatever path it
\* takes out, the failed Start or Manager.Wait, every run of a process that
\* nobody restarts by hand is over, or has been signalled by a Stop (main.go
\* run, manager.go Start and Wait). The hypothesis on Restart is needed: one
\* that is under way when run() returns leaves the run it has just forked.
THEOREM NoneLeftBehind ==
  ~EarlyCalls /\ Plain \cap Restartable = {} => (Spec => []ExitLeavesNoRun)
<1> SUFFICES ASSUME ~EarlyCalls, Plain \cap Restartable = {} PROVE Spec => []ExitLeavesNoRun
  OBVIOUS
<1>1. Init => Safe /\ HandInv /\ EndInv
  BY InitSafe, InitEnds
<1>2. Safe /\ HandInv /\ EndInv /\ [Next]_vars => Safe' /\ HandInv' /\ EndInv'
  BY StepSafe, EndStep
<1>3. EndInv => ExitLeavesNoRun
  BY DEF EndInv, Ended, Lone, ExitLeavesNoRun
<1> QED
  BY <1>1, <1>2, <1>3, PTL DEF Spec

=============================================================================
