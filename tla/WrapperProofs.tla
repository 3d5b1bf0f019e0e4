--------------------------- MODULE WrapperProofs ---------------------------
(***************************************************************************)
(* What Wrapper promises for every set of descendants, strangers, streams  *)
(* and callers. The invariants build on each other:                        *)
(*   Typed      types, and a process that was born has a pid;              *)
(*   SweepInv   what a sweep remembers are pids and seconds of heirs;      *)
(*   LifeInv    a Wait that is past Process.Wait has left no child;        *)
(*   OutputInv  a drain that did not time out has seen both streams end    *)
(*              with nobody left who could write to them.                  *)
(***************************************************************************)
EXTENDS Wrapper, TLAPS

-----------------------------------------------------------------------------
(* Types.                                                                  *)

BornHavePids == \A i \in Ids : os[i] # "unborn" => pidOf[i] \in Pids

Typed == TypeOK /\ BornHavePids

OsType == /\ os \in [Ids -> {"unborn", "alive", "zombie", "gone"}]
          /\ pidOf \in [Ids -> Pids \cup {NoPid}]
          /\ born \in [Ids -> 0 .. MaxTime]
          /\ clock \in 0 .. MaxTime
          /\ parent \in [Others -> Ids \cup {Reaper}]
          /\ BornHavePids

WaitPC == {"idle", "drain", "reap", "wait", "result", "record", "disarm", "done"}
Labels == {"group", "sweep", "astray", "late", "timer", "context"}

LEMMA AliveHavePids ==
  ASSUME BornHavePids, NEW i \in Ids, os[i] = "alive" PROVE pidOf[i] \in Pids
BY DEF BornHavePids

\* A birth keeps the process table well formed.
LEMMA BornTyped ==
  ASSUME OsType, NEW i \in Ids, NEW n \in Pids, Born(i, n)
  PROVE  /\ os' \in [Ids -> {"unborn", "alive", "zombie", "gone"}]
         /\ pidOf' \in [Ids -> Pids \cup {NoPid}]
         /\ born' \in [Ids -> 0 .. MaxTime]
         /\ clock' \in 0 .. MaxTime
         /\ BornHavePids'
BY DEF OsType, Born, BornHavePids

\* A death keeps it well formed too.
LEMMA DieTyped ==
  ASSUME OsType, NEW S, Die(S), pidOf' = pidOf
  PROVE  /\ os' \in [Ids -> {"unborn", "alive", "zombie", "gone"}]
         /\ parent' \in [Others -> Ids \cup {Reaper}]
         /\ BornHavePids'
<1>1. os' \in [Ids -> {"unborn", "alive", "zombie", "gone"}]
  BY DEF OsType, Die, Alive
<1>2. parent' \in [Others -> Ids \cup {Reaper}]
  BY DEF OsType, Die
<1>3. \A i \in Ids : os'[i] # "unborn" => os[i] # "unborn"
  BY DEF OsType, Die, Alive
<1> QED
  BY <1>1, <1>2, <1>3 DEF OsType, BornHavePids

\* Whom a group signal, a snapshot and a look at one pid can find.
LEMMA FoundTyped ==
         /\ \A n : GroupOf(n) \subseteq Ids
         /\ \A n : Below(n) \subseteq Others \cap Alive
         /\ \A n : Holding(n) \subseteq Ids
         /\ \A d : Same(d) \subseteq Holding(d[1])
         /\ Others \subseteq Ids /\ Heirs \subseteq Ids /\ Strangers \subseteq Ids
         /\ Child \in Ids
<1>1. \A n : GroupOf(n) \subseteq Ids /\ Holding(n) \subseteq Ids
  BY DEF GroupOf, Holding, Alive
<1>2. \A n : Below(n) \subseteq Others \cap Alive
  BY DEF Below
<1>3. \A d : Same(d) \subseteq Holding(d[1])
  BY DEF Same
<1> QED
  BY <1>1, <1>2, <1>3 DEF Ids, Others

LEMMA InitTyped == ASSUME Init PROVE Typed
<1> USE RunAssumption DEF Init
<1>1. os \in [Ids -> {"unborn", "alive", "zombie", "gone"}] /\ BornHavePids
  BY DEF BornHavePids
<1>2. /\ pidOf \in [Ids -> Pids \cup {NoPid}]
      /\ born \in [Ids -> 0 .. MaxTime] /\ clock \in 0 .. MaxTime
      /\ parent \in [Others -> Ids \cup {Reaper}]
      /\ killTimer \in Stoppers \cup {NoStop}
  OBVIOUS
<1>3. /\ wrote \in [Streams -> 0 .. MaxLines]
      /\ read \in [Streams -> 0 .. MaxLines]
      /\ reader \in [Streams -> {"off", "reading", "ended"}]
  OBVIOUS
<1>4. /\ stopper \in [Stoppers -> {"idle", "sweep", "cancel", "done"}]
      /\ sweep \in [Sweeps -> SweepType]
  BY DEF SweepType
<1>5. /\ waiter \in [Waiters -> WaitPC]
      /\ timer \in [Stoppers -> {"off", "armed", "fired"}]
      /\ termed \subseteq Ids /\ struck \subseteq Labels \X Ids
      /\ known \in BOOLEAN /\ reaped \in BOOLEAN /\ exited \in BOOLEAN /\ timedOut \in BOOLEAN
      /\ cancelled \in BOOLEAN
  BY DEF WaitPC, Labels
<1> QED
  BY <1>1, <1>2, <1>3, <1>4, <1>5 DEF Typed, TypeOK, WaitPC, Labels

\* The processes' own steps, and those of the readers.
LEMMA ProcessTyped ==
  ASSUME Typed,
         \/ Tick \/ Start \/ ContextKills
         \/ \E x \in Strangers : StrangerAppears(x)
         \/ \E h \in Heirs : HeirForked(h)
         \/ \E i \in Ids : Exits(i)
         \/ \E s \in Streams : Writes(s) \/ ReaderReads(s) \/ ReaderEnds(s)
  PROVE  Typed'
<1> OsType
  BY DEF Typed, TypeOK, OsType
<1>1. CASE Start
  <2> PICK n \in Pids : Born(Child, n)
    BY <1>1 DEF Start
  <2> reader' \in [Streams -> {"off", "reading", "ended"}]
    BY <1>1 DEF Start
  <2> QED
    BY <1>1, BornTyped, FoundTyped DEF Start, Typed, TypeOK, OsType, waitVars, stopVars
<1>2. CASE ContextKills
  BY <1>2, DieTyped, FoundTyped
     DEF ContextKills, Typed, TypeOK, outputVars, waitVars, stopVars
<1>3. ASSUME NEW x \in Strangers, StrangerAppears(x) PROVE Typed'
  <2> PICK n \in Pids : Born(x, n)
    BY <1>3 DEF StrangerAppears
  <2> PICK i \in {Reaper} \cup (Strangers \cap Alive) : parent' = [parent EXCEPT ![x] = i]
    BY <1>3 DEF StrangerAppears
  <2> x \in Ids /\ i \in Ids \cup {Reaper}
    BY FoundTyped
  <2> parent' \in [Others -> Ids \cup {Reaper}]
    BY DEF OsType
  <2> QED
    BY <1>3, BornTyped DEF StrangerAppears, Typed, TypeOK, outputVars, waitVars, stopVars
<1>4. ASSUME NEW h \in Heirs, HeirForked(h) PROVE Typed'
  <2> PICK n \in Pids : Born(h, n)
    BY <1>4 DEF HeirForked
  <2> PICK i \in ({Child} \cup Heirs) \cap Alive : parent' = [parent EXCEPT ![h] = i]
    BY <1>4 DEF HeirForked
  <2> h \in Ids /\ i \in Ids
    BY FoundTyped
  <2> parent' \in [Others -> Ids \cup {Reaper}]
    BY DEF OsType
  <2> QED
    BY <1>4, BornTyped DEF HeirForked, Typed, TypeOK, outputVars, waitVars, stopVars
<1>5. ASSUME NEW i \in Ids, Exits(i) PROVE Typed'
  BY <1>5, DieTyped DEF Exits, Typed, TypeOK, outputVars, waitVars, stopVars
<1>6. ASSUME NEW s \in Streams, Writes(s) PROVE Typed'
  <2> wrote' \in [Streams -> 0 .. MaxLines]
    BY <1>6, RunAssumption DEF Writes, Typed, TypeOK
  <2> QED
    BY <1>6 DEF Writes, Typed, TypeOK, BornHavePids, osVars, waitVars, stopVars
<1>7. ASSUME NEW s \in Streams, ReaderReads(s) PROVE Typed'
  <2> read' \in [Streams -> 0 .. MaxLines]
    BY <1>7, RunAssumption DEF ReaderReads, Typed, TypeOK
  <2> QED
    BY <1>7 DEF ReaderReads, Typed, TypeOK, BornHavePids, osVars, waitVars, stopVars
<1>8. ASSUME NEW s \in Streams, ReaderEnds(s) PROVE Typed'
  <2> reader' \in [Streams -> {"off", "reading", "ended"}]
    BY <1>8 DEF ReaderEnds, Typed, TypeOK
  <2> QED
    BY <1>8 DEF ReaderEnds, Typed, TypeOK, BornHavePids, osVars, waitVars, stopVars
<1>9. CASE Tick
  <2> clock' \in 0 .. MaxTime
    BY <1>9, RunAssumption DEF Tick, OsType
  <2> QED
    BY <1>9 DEF Tick, Typed, TypeOK, BornHavePids, outputVars, waitVars, stopVars
<1> QED
  BY <1>1, <1>2, <1>3, <1>4, <1>5, <1>6, <1>7, <1>8, <1>9

\* The steps of Wait.
LEMMA WaitTyped ==
  ASSUME Typed, NEW w \in Waiters, WaitCalled(w) \/ WaitStep(w)
  PROVE  Typed'
<1>1. waiter' \in [Waiters -> WaitPC]
  BY DEF WaitPC, Typed, TypeOK, WaitCalled, WaitStep, Drained, DrainTimesOut, WaitsCmd, Reaps, TakesResult, Records, Disarms
<1>2. CASE \/ WaitCalled(w) \/ Drained(w) \/ DrainTimesOut(w) \/ WaitsCmd(w) \/ TakesResult(w)
           \/ Records(w)
  BY <1>1, <1>2 DEF WaitPC, Typed, TypeOK, BornHavePids, WaitCalled, Drained, DrainTimesOut,
                    WaitsCmd, TakesResult, Records, osVars, outputVars, stopVars
<1>3. CASE Reaps(w)
  <2>1. os' \in [Ids -> {"unborn", "alive", "zombie", "gone"}]
    BY <1>3 DEF Reaps, Typed, TypeOK
  <2>2. \A i \in Ids : os'[i] # "unborn" => os[i] # "unborn"
    BY <1>3 DEF Reaps, Typed, TypeOK
  <2>3. BornHavePids'
    BY <1>3, <2>2 DEF Reaps, Typed, BornHavePids
  <2> QED
    BY <1>1, <1>3, <2>1, <2>3 DEF WaitPC, Reaps, Typed, TypeOK, outputVars, stopVars
<1>4. CASE Disarms(w)
  <2> timer' \in [Stoppers -> {"off", "armed", "fired"}]
    BY <1>4 DEF Disarms, Typed, TypeOK
  <2> QED
    BY <1>1, <1>4 DEF WaitPC, Disarms, Typed, TypeOK, BornHavePids, osVars, outputVars
<1> QED
  BY <1>2, <1>3, <1>4 DEF WaitStep

\* The steps of Stop and its timer.
LEMMA StopTyped ==
  ASSUME Typed, NEW s \in Stoppers, StopSignals(s) \/ StopStep(s) \/ TimerFires(s)
  PROVE  Typed'
<1> OsType /\ <<s, "stop">> \in Sweeps /\ <<s, "timer">> \in Sweeps
  BY DEF Typed, TypeOK, OsType, Sweeps
<1> stopper \in [Stoppers -> {"idle", "sweep", "cancel", "done"}] /\ sweep \in [Sweeps -> SweepType]
  BY DEF Typed, TypeOK
<1> USE DEF outputVars, waitVars, osVars
<1>1. ASSUME NEW k \in Sweeps, NEW pc \in {"list", "done"}, Sweep(k, pc)
      PROVE  sweep' \in [Sweeps -> SweepType]
  BY <1>1 DEF Sweep, SweepType
<1>2. stopper' \in [Stoppers -> {"idle", "sweep", "cancel", "done"}]
  BY DEF StopSignals, StopStep, StopArms, StopCancels, TimerFires
<1>3. CASE StopSignals(s)
  <2>1. sweep' \in [Sweeps -> SweepType]
    BY <1>1, <1>3 DEF StopSignals
  <2>2. termed' \subseteq Ids /\ struck' \subseteq Labels \X Ids
    BY <1>3, FoundTyped DEF StopSignals, Typed, TypeOK, Labels
  <2> QED
    BY <1>2, <1>3, <2>1, <2>2 DEF StopSignals, Typed, TypeOK, BornHavePids, Labels
<1>4. CASE StopArms(s) \/ StopCancels(s)
  <2>1. timer' \in [Stoppers -> {"off", "armed", "fired"}]
    BY <1>4 DEF StopArms, StopCancels, Typed, TypeOK
  <2> QED
    BY <1>2, <1>4, <2>1 DEF StopArms, StopCancels, Typed, TypeOK, BornHavePids
<1>5. CASE TimerFires(s)
  <2> DEFINE group == IF exited THEN {} ELSE GroupOf(pidOf[Child])
  <2>1. group \subseteq Ids
    BY FoundTyped
  <2>2. /\ Die(group)
        /\ struck' = struck \cup ({"timer"} \X group)
        /\ pidOf' = pidOf
        /\ timer' \in [Stoppers -> {"off", "armed", "fired"}]
    BY <1>5 DEF TimerFires, Typed, TypeOK
  <2> HIDE DEF group
  <2>3. struck' \subseteq Labels \X Ids
    BY <2>1, <2>2 DEF Typed, TypeOK, Labels
  <2>4. sweep' \in [Sweeps -> SweepType]
    BY <1>1, <1>5 DEF TimerFires
  <2> QED
    BY <1>2, <1>5, <2>2, <2>3, <2>4, DieTyped DEF TimerFires, Typed, TypeOK, Labels
<1> QED
  BY <1>3, <1>4, <1>5 DEF StopStep

\* An entry leaves the list of a sweep, and an entry is taken up.
LEMMA SweptTyped ==
  ASSUME sweep \in [Sweeps -> SweepType], NEW k \in Sweeps, Swept(k)
  PROVE  sweep' \in [Sweeps -> SweepType]
<1> DEFINE new == [sweep[k] EXCEPT !.pc = "verify", !.list = sweep[k].list \ sweep[k].next,
                                   !.next = {}, !.seen = {}]
<1>1. new \in SweepType
  BY DEF SweepType
<1>2. sweep' = [sweep EXCEPT ![k] = new]
  BY DEF Swept
<1> HIDE DEF new
<1> QED
  BY <1>1, <1>2

LEMMA SeenTyped ==
  ASSUME sweep \in [Sweeps -> SweepType], NEW k \in Sweeps, NEW S \in SUBSET Ids
  PROVE  [sweep EXCEPT ![k].pc = "kill", ![k].seen = S] \in [Sweeps -> SweepType]
<1> DEFINE new == [sweep[k] EXCEPT !.pc = "kill", !.seen = S]
<1>1. new \in SweepType
  BY DEF SweepType
<1>2. [sweep EXCEPT ![k].pc = "kill", ![k].seen = S] = [sweep EXCEPT ![k] = new]
  OBVIOUS
<1> HIDE DEF new
<1> QED
  BY <1>1, <1>2

LEMMA EntryTyped ==
  ASSUME sweep \in [Sweeps -> SweepType], NEW k \in Sweeps, NEW d \in sweep[k].list
  PROVE  d \in Pids \X (0 .. MaxTime)
BY DEF SweepType

\* The steps of findAndKillChildProcesses.
LEMMA SweepTyped ==
  ASSUME Typed, NEW k \in Sweeps, SweepStep(k)
  PROVE  Typed'
<1> OsType
  BY DEF Typed, TypeOK, OsType
<1> sweep \in [Sweeps -> SweepType]
  BY DEF Typed, TypeOK
<1> USE DEF outputVars, waitVars, osVars
<1>1. ASSUME NEW i, i \in Others \cap Alive PROVE <<pidOf[i], born[i]>> \in Pids \X (0 .. MaxTime)
  BY <1>1, FoundTyped, AliveHavePids DEF OsType, Alive
<1>2. ASSUME NEW d \in sweep[k].next, SweepStrikes(k, Holding(d[1]))
      PROVE  struck' \subseteq Labels \X Ids
  <2>1. sweep[k].root \in {"sweep", "astray"}
    BY DEF SweepType
  <2>2. \A i \in Holding(d[1]) :
          <<IF i \in sweep[k].seen THEN sweep[k].root ELSE "late", i>> \in Labels \X Ids
    BY <2>1, FoundTyped DEF Labels
  <2> QED
    BY <1>2, <2>2 DEF SweepStrikes, Typed, TypeOK, Labels
<1>3. CASE SweepLists(k)
  <2> DEFINE found == {<<pidOf[o], born[o]>> : o \in Below(pidOf[Child])}
             root == IF os[Child] \in {"alive", "zombie"} THEN "sweep" ELSE "astray"
             new == [pc |-> "verify", next |-> {}, seen |-> {}, root |-> root, list |-> found]
  <2>1. found \in SUBSET (Pids \X (0 .. MaxTime))
    BY <1>1, FoundTyped
  <2>2. root \in {"sweep", "astray"}
    OBVIOUS
  <2>3. sweep' = [sweep EXCEPT ![k] = new]
    BY <1>3 DEF SweepLists
  <2>4. new \in SweepType
    BY <2>1, <2>2 DEF SweepType
  <2> HIDE DEF new
  <2>5. sweep' \in [Sweeps -> SweepType]
    BY <2>3, <2>4
  <2> QED
    BY <1>3, <2>5 DEF SweepLists, Typed, TypeOK, BornHavePids
<1>4. CASE SweepVerifies(k)
  <2> PICK d \in sweep[k].list :
        sweep' = IF Same(d) = {}
                   THEN [sweep EXCEPT ![k].list = @ \ {d}]
                   ELSE [sweep EXCEPT ![k].pc = "terminate", ![k].next = {d}, ![k].seen = Same(d)]
    BY <1>4 DEF SweepVerifies
  <2>1. d \in Pids \X (0 .. MaxTime) /\ Same(d) \subseteq Ids
    BY EntryTyped, FoundTyped
  <2>2. [sweep EXCEPT ![k].list = @ \ {d}] \in [Sweeps -> SweepType]
    BY DEF SweepType
  <2>3. [sweep EXCEPT ![k].pc = "terminate", ![k].next = {d}, ![k].seen = Same(d)]
          \in [Sweeps -> SweepType]
    <3>1. [sweep[k] EXCEPT !.pc = "terminate", !.next = {d}, !.seen = Same(d)] \in SweepType
      BY <2>1 DEF SweepType
    <3>2. [sweep EXCEPT ![k].pc = "terminate", ![k].next = {d}, ![k].seen = Same(d)]
            = [sweep EXCEPT ![k] = [sweep[k] EXCEPT !.pc = "terminate", !.next = {d},
                                                    !.seen = Same(d)]]
      OBVIOUS
    <3> QED
      BY <3>1, <3>2
  <2>4. sweep' \in [Sweeps -> SweepType]
    BY <2>2, <2>3
  <2> QED
    BY <1>4, <2>4 DEF SweepVerifies, Typed, TypeOK, BornHavePids
<1>5. CASE SweepReverifies(k)
  <2> PICK d \in sweep[k].next :
        IF Same(d) = {} THEN Swept(k)
        ELSE sweep' = [sweep EXCEPT ![k].pc = "kill", ![k].seen = Same(d)]
    BY <1>5 DEF SweepReverifies
  <2>1. [sweep EXCEPT ![k].pc = "kill", ![k].seen = Same(d)] \in [Sweeps -> SweepType]
    BY FoundTyped, SeenTyped
  <2>2. sweep' \in [Sweeps -> SweepType]
    BY <2>1, SweptTyped
  <2> QED
    BY <1>5, <2>2 DEF SweepReverifies, Typed, TypeOK, BornHavePids
<1>6. CASE SweepTerminates(k)
  <2>1. PICK d \in sweep[k].next : /\ termed' = termed \cup Holding(d[1])
                                   /\ SweepStrikes(k, Holding(d[1]))
    BY <1>6 DEF SweepTerminates
  <2>2. termed' \subseteq Ids /\ struck' \subseteq Labels \X Ids
    BY <1>2, <2>1, FoundTyped DEF Typed, TypeOK
  <2>3. sweep' \in [Sweeps -> SweepType]
    BY <1>6 DEF SweepTerminates, Sweep, SweepType
  <2> QED
    BY <1>6, <2>2, <2>3 DEF SweepTerminates, Typed, TypeOK, BornHavePids, Labels
<1>7. CASE SweepKills(k)
  <2>1. PICK d \in sweep[k].next : Die(Holding(d[1])) /\ SweepStrikes(k, Holding(d[1]))
    BY <1>7 DEF SweepKills
  <2>2. struck' \subseteq Labels \X Ids
    BY <1>2, <2>1
  <2>3. sweep' \in [Sweeps -> SweepType] /\ pidOf' = pidOf
    BY <1>7, SweptTyped DEF SweepKills
  <2> QED
    BY <1>7, <2>1, <2>2, <2>3, DieTyped DEF SweepKills, Typed, TypeOK, Labels
<1>8. CASE SweepEnds(k)
  <2>1. sweep' \in [Sweeps -> SweepType]
    BY <1>8 DEF SweepEnds, Sweep, SweepType
  <2> QED
    BY <1>8, <2>1 DEF SweepEnds, Typed, TypeOK, BornHavePids
<1> QED
  BY <1>3, <1>4, <1>5, <1>6, <1>7, <1>8 DEF SweepStep

\* Who moves the process table.
LEMMA TableMoves ==
  ASSUME [Next]_vars
  PROVE  \/ UNCHANGED <<os, pidOf, born, parent>> \/ Start
         \/ \E x \in Strangers : StrangerAppears(x)
         \/ \E h \in Heirs : HeirForked(h)
         \/ (\E S : Die(S)) /\ UNCHANGED <<pidOf, born>>
         \/ \E w \in Waiters : Reaps(w)
<1>1. CASE ContextKills
  BY <1>1 DEF ContextKills
<1>2. ASSUME NEW i \in Ids, Exits(i) PROVE (\E S : Die(S)) /\ UNCHANGED <<pidOf, born>>
  BY <1>2 DEF Exits
<1>3. ASSUME NEW s \in Stoppers, TimerFires(s)
      PROVE  (\E S : Die(S)) /\ UNCHANGED <<pidOf, born>>
  BY <1>3 DEF TimerFires
<1>4. ASSUME NEW k \in Sweeps, SweepKills(k)
      PROVE  (\E S : Die(S)) /\ UNCHANGED <<pidOf, born>>
  BY <1>4 DEF SweepKills
<1>5. ASSUME \/ UNCHANGED vars \/ Tick
             \/ \E s \in Streams : Writes(s) \/ ReaderReads(s) \/ ReaderEnds(s)
             \/ \E w \in Waiters : \/ WaitCalled(w) \/ Drained(w) \/ DrainTimesOut(w) \/ WaitsCmd(w)
                                  \/ TakesResult(w) \/ Records(w) \/ Disarms(w)
             \/ \E s \in Stoppers : StopSignals(s) \/ StopStep(s)
             \/ \E k \in Sweeps : \/ SweepLists(k) \/ SweepVerifies(k) \/ SweepTerminates(k)
                                 \/ SweepReverifies(k) \/ SweepEnds(k)
      PROVE  UNCHANGED <<os, pidOf, born, parent>>
  BY <1>5 DEF vars, osVars, Tick, Writes, ReaderReads, ReaderEnds, WaitCalled, Drained,
         DrainTimesOut, WaitsCmd, TakesResult, Records, Disarms, StopSignals, StopStep, StopArms,
         StopCancels, SweepLists, SweepVerifies, SweepTerminates, SweepReverifies, SweepEnds
<1> QED
  BY <1>1, <1>2, <1>3, <1>4, <1>5 DEF Next, WaitStep, SweepStep

\* A process comes into being with a pid.
LEMMA BirthsMove ==
  ASSUME \/ Start
         \/ \E x \in Strangers : StrangerAppears(x)
         \/ \E h \in Heirs : HeirForked(h)
  PROVE  \E i \in Ids, n \in Pids : Born(i, n)
BY FoundTyped DEF Start, StrangerAppears, HeirForked

LEMMA NextTyped == ASSUME Typed, [Next]_vars PROVE Typed'
<1>1. CASE UNCHANGED vars
  BY <1>1 DEF vars, Typed, TypeOK, BornHavePids
<1> QED
  BY <1>1, ProcessTyped, WaitTyped, StopTyped, SweepTyped DEF Next

LEMMA AlwaysTyped == Spec => []Typed
<1>1. Init => Typed
  BY InitTyped
<1>2. Typed /\ [Next]_vars => Typed'
  BY NextTyped
<1> QED
  BY <1>1, <1>2, PTL DEF Spec

\* Every variable keeps its type, in every run of a process.
THEOREM WrapperTypeCorrect == Spec => []TypeOK
<1>1. Typed => TypeOK
  BY DEF Typed
<1> QED
  BY <1>1, AlwaysTyped, PTL

-----------------------------------------------------------------------------
(* Whom findAndKillChildProcesses signals. No two processes that are there *)
(* have one pid, and a stranger's parent is none of the run's processes:   *)
(* the list of a sweep that began while the pid was the run's own names    *)
(* heirs, each by the pid and the second it has for good.                  *)

Present(i) == os[i] \in {"alive", "zombie"}

OnePid == \A i, j \in Ids : Present(i) /\ Present(j) /\ pidOf[i] = pidOf[j] => i = j

Families ==
  \A o \in Others : os[o] = "alive" =>
    /\ parent[o] \in Ids => os[parent[o]] = "alive"
    /\ o \in Strangers => parent[o] \in Strangers \cup {Reaper}

\* An heir that was born with pid d[1] in second d[2].
Named(d) == \E h \in Heirs : os[h] # "unborn" /\ pidOf[h] = d[1] /\ born[h] = d[2]

Listed ==
  \A k \in Sweeps : sweep[k].root = "sweep" => \A d \in sweep[k].list \cup sweep[k].next : Named(d)

\* Whoever was seen when an entry was looked up has the pid and the second of it.
Seen ==
  \A k \in Sweeps : \A d \in sweep[k].next :
    /\ sweep[k].next = {d}
    /\ \A i \in sweep[k].seen :
         i \in Ids /\ os[i] # "unborn" /\ pidOf[i] = d[1] /\ born[i] = d[2]

Twinned(x) == os[x] # "unborn" /\ Named(<<pidOf[x], born[x]>>)

Excused == \A x \in Strangers : <<"sweep", x>> \in struck => Twinned(x)

SweepInv == OnePid /\ Families /\ Listed /\ Seen /\ Excused

\* Who was born stays so, with the same pid and the same second.
LEMMA BirthsStay ==
  ASSUME Typed, [Next]_vars
  PROVE  \A i \in Ids : os[i] # "unborn" => /\ os'[i] # "unborn"
                                            /\ pidOf'[i] = pidOf[i]
                                            /\ born'[i] = born[i]
<1> OsType
  BY DEF Typed, TypeOK, OsType
<1> DEFINE Stay == \A i \in Ids : os[i] # "unborn" => /\ os'[i] # "unborn"
                                                      /\ pidOf'[i] = pidOf[i]
                                                      /\ born'[i] = born[i]
<1>1. ASSUME NEW i \in Ids, NEW n, Born(i, n) PROVE Stay
  BY <1>1 DEF Born, OsType
<1>2. ASSUME NEW S, Die(S), UNCHANGED <<pidOf, born>> PROVE Stay
  BY <1>2 DEF Die, Alive, OsType
<1>3. ASSUME NEW w \in Waiters, Reaps(w) PROVE Stay
  BY <1>3 DEF Reaps, OsType
<1>4. CASE UNCHANGED <<os, pidOf, born>>
  BY <1>4
<1> QED
  BY <1>1, <1>2, <1>3, <1>4, TableMoves, BirthsMove

LEMMA OnePidStep == ASSUME Typed, OnePid, [Next]_vars PROVE OnePid'
<1> OsType
  BY DEF Typed, TypeOK, OsType
<1>1. ASSUME NEW i \in Ids, NEW n \in Pids, Born(i, n) PROVE OnePid'
  <2>1. \A j \in Ids : Present(j) => pidOf[j] # n
    BY <1>1 DEF Born, InUse, Present
  <2>2. \A j \in Ids \ {i} : os'[j] = os[j] /\ pidOf'[j] = pidOf[j]
    BY <1>1 DEF Born, OsType
  <2>3. pidOf'[i] = n
    BY <1>1 DEF Born, OsType
  <2> QED
    BY <2>1, <2>2, <2>3 DEF OnePid, Present
<1>2. ASSUME \A i \in Ids : Present(i)' => Present(i), UNCHANGED pidOf PROVE OnePid'
  BY <1>2 DEF OnePid
<1>3. ASSUME NEW S, Die(S), UNCHANGED pidOf PROVE OnePid'
  <2>1. \A i \in Ids : Present(i)' => Present(i)
    BY <1>3 DEF Die, Alive, Present, OsType
  <2> QED
    BY <1>2, <1>3, <2>1
<1>4. ASSUME NEW w \in Waiters, Reaps(w) PROVE OnePid'
  <2>1. \A i \in Ids : Present(i)' => Present(i)
    BY <1>4 DEF Reaps, Present, OsType
  <2> QED
    BY <1>2, <1>4, <2>1 DEF Reaps
<1>5. CASE UNCHANGED <<os, pidOf>>
  BY <1>5 DEF OnePid, Present
<1> QED
  BY <1>1, <1>3, <1>4, <1>5, TableMoves, BirthsMove

LEMMA FamiliesStep == ASSUME Typed, Families, [Next]_vars PROVE Families'
<1> OsType
  BY DEF Typed, TypeOK, OsType
<1> USE FoundTyped, RunAssumption
<1>1. ASSUME NEW S, Die(S) PROVE Families'
  <2> SUFFICES ASSUME NEW o \in Others, os'[o] = "alive"
               PROVE  /\ parent'[o] \in Ids => os'[parent'[o]] = "alive"
                      /\ o \in Strangers => parent'[o] \in Strangers \cup {Reaper}
    BY DEF Families
  <2>1. os[o] = "alive"
    BY <1>1 DEF Die, Alive, OsType
  <2>2. parent'[o] = IF parent[o] \in S THEN Reaper ELSE parent[o]
    BY <1>1 DEF Die
  <2>3. \A i \in Ids \ S : os'[i] = os[i]
    BY <1>1 DEF Die
  <2> QED
    BY <2>1, <2>2, <2>3 DEF Families
<1>2. ASSUME NEW o \in Others, os[o] = "unborn",
             \A j \in Ids \ {o} : os'[j] = os[j],
             NEW i \in {Reaper} \cup (Ids \cap Alive), parent' = [parent EXCEPT ![o] = i],
             o \in Strangers => i \in Strangers \cup {Reaper}
      PROVE  Families'
  <2>1. \A j \in Ids : os[j] = "alive" => os'[j] = "alive"
    BY <1>2
  <2>2. \A q \in Others \ {o} : parent'[q] = parent[q] /\ os'[q] = os[q]
    BY <1>2 DEF OsType
  <2>3. parent'[o] = i
    BY <1>2 DEF OsType
  <2> QED
    BY <1>2, <2>1, <2>2, <2>3 DEF Families, Alive
<1>3. ASSUME NEW x \in Strangers, StrangerAppears(x) PROVE Families'
  <2>1. PICK i \in {Reaper} \cup (Strangers \cap Alive) : parent' = [parent EXCEPT ![x] = i]
    BY <1>3 DEF StrangerAppears
  <2>2. x \in Others /\ os[x] = "unborn" /\ \A j \in Ids \ {x} : os'[j] = os[j]
    BY <1>3 DEF StrangerAppears, Born, OsType, Others
  <2> QED
    BY <1>2, <2>1, <2>2
<1>4. ASSUME NEW h \in Heirs, HeirForked(h) PROVE Families'
  <2>1. PICK i \in ({Child} \cup Heirs) \cap Alive : parent' = [parent EXCEPT ![h] = i]
    BY <1>4 DEF HeirForked
  <2>2. h \in Others /\ os[h] = "unborn" /\ \A j \in Ids \ {h} : os'[j] = os[j]
    BY <1>4 DEF HeirForked, Born, OsType, Others
  <2> QED
    BY <1>2, <2>1, <2>2
<1>5. CASE Start
  <2>1. os[Child] = "unborn" /\ os' = [os EXCEPT ![Child] = "alive"] /\ parent' = parent
    BY <1>5 DEF Start, Born
  <2>2. \A j \in Ids : os[j] = "alive" => os'[j] = "alive"
    BY <2>1 DEF OsType
  <2>3. \A o \in Others : os'[o] = os[o]
    BY <2>1 DEF OsType, Others
  <2> QED
    BY <2>1, <2>2, <2>3 DEF Families
<1>6. ASSUME NEW w \in Waiters, Reaps(w) PROVE Families'
  <2>1. \A j \in Ids : os'[j] = "alive" <=> os[j] = "alive"
    BY <1>6 DEF Reaps, OsType
  <2> QED
    BY <1>6, <2>1 DEF Reaps, Families
<1>7. CASE UNCHANGED <<os, parent>>
  BY <1>7 DEF Families
<1> QED
  BY <1>1, <1>3, <1>4, <1>5, <1>6, <1>7, TableMoves

\* A snapshot below the pid of a process that is there holds heirs only.
LEMMA BelowIsHeirs ==
  ASSUME OsType, OnePid, Families, Present(Child)
  PROVE  Below(pidOf[Child]) \subseteq Heirs
<1> USE FoundTyped, RunAssumption
<1> DEFINE n == pidOf[Child]
           Kids(S) == {o \in Others \cap Alive : \/ parent[o] \in Ids /\ pidOf[parent[o]] = n
                                                 \/ parent[o] \in S}
<1>1. Kids(Heirs) \subseteq Heirs
  <2> SUFFICES ASSUME NEW o \in Others, os[o] = "alive", o \in Strangers, o \notin Heirs,
                      \/ parent[o] \in Ids /\ pidOf[parent[o]] = n
                      \/ parent[o] \in Heirs
               PROVE  FALSE
    BY DEF Others, Alive
  <2>1. parent[o] \in Strangers \cup {Reaper}
    BY DEF Families
  <2>2. parent[o] \in Strangers /\ pidOf[parent[o]] = n /\ os[parent[o]] = "alive"
    BY <2>1 DEF Families, Ids, Others
  <2>3. parent[o] = Child
    BY <2>2 DEF OnePid, Present
  <2> QED
    BY <2>2, <2>3 DEF Others
<1>2. \A o \in Below(n) : \A S \in SUBSET Others : Kids(S) \subseteq S => o \in S
  BY DEF Below
<1>3. Heirs \in SUBSET Others
  BY DEF Others
<1> HIDE DEF Kids
<1> QED
  BY <1>1, <1>2, <1>3

\* A named entry stays named, and a twin a twin.
LEMMA NamesStay ==
  ASSUME Typed, [Next]_vars
  PROVE  /\ \A d : Named(d) => Named(d)'
         /\ \A x \in Ids : Twinned(x) => Twinned(x)'
<1>1. \A d : Named(d) => Named(d)'
  BY BirthsStay, FoundTyped DEF Named
<1> QED
  BY <1>1, BirthsStay DEF Twinned

\* Only the sweeps move what they remember.
LEMMA SweepsMove ==
  ASSUME Typed, [Next]_vars
  PROVE  \/ \E k \in Sweeps : SweepStep(k)
         \/ /\ \A k \in Sweeps : /\ sweep'[k].list = sweep[k].list
                                 /\ sweep'[k].next = sweep[k].next
                                 /\ sweep'[k].seen = sweep[k].seen
                                 /\ sweep'[k].root = sweep[k].root
            /\ \A x : <<"sweep", x>> \in struck' => <<"sweep", x>> \in struck
<1> sweep \in [Sweeps -> SweepType]
  BY DEF Typed, TypeOK
<1> DEFINE Kept == /\ \A k \in Sweeps : /\ sweep'[k].list = sweep[k].list
                                        /\ sweep'[k].next = sweep[k].next
                                        /\ sweep'[k].seen = sweep[k].seen
                                        /\ sweep'[k].root = sweep[k].root
                   /\ \A x : <<"sweep", x>> \in struck' => <<"sweep", x>> \in struck
<1>1. CASE UNCHANGED <<sweep, struck>>
  BY <1>1
<1>2. ASSUME NEW k, NEW pc, Sweep(k, pc)
      PROVE  \A j \in Sweeps : /\ sweep'[j].list = sweep[j].list
                               /\ sweep'[j].next = sweep[j].next
                               /\ sweep'[j].seen = sweep[j].seen
                               /\ sweep'[j].root = sweep[j].root
  BY <1>2 DEF Sweep, SweepType
<1>3. ASSUME NEW s \in Stoppers, StopSignals(s) \/ TimerFires(s) PROVE Kept
  <2>1. \E k, pc : Sweep(k, pc)
    BY <1>3 DEF StopSignals, TimerFires
  <2>2. \A x : <<"sweep", x>> \in struck' => <<"sweep", x>> \in struck
    BY <1>3 DEF StopSignals, TimerFires
  <2> QED
    BY <1>2, <2>1, <2>2
<1>4. CASE ContextKills
  BY <1>4 DEF ContextKills, stopVars
<1>5. \/ UNCHANGED <<sweep, struck>> \/ ContextKills
      \/ \E s \in Stoppers : StopSignals(s) \/ TimerFires(s)
      \/ \E k \in Sweeps : SweepStep(k)
  BY DEF Next, vars, stopVars, Tick, Start, StrangerAppears, HeirForked, Exits, Writes,
         ReaderReads, ReaderEnds, WaitCalled, WaitStep, Drained, DrainTimesOut, WaitsCmd, Reaps,
         TakesResult, Records, Disarms, StopStep, StopArms, StopCancels
<1> QED
  BY <1>1, <1>3, <1>4, <1>5

LEMMA SweepInvStep == ASSUME Typed, SweepInv, [Next]_vars PROVE SweepInv'
<1> OsType /\ sweep \in [Sweeps -> SweepType]
  BY DEF Typed, TypeOK, OsType
<1> USE FoundTyped
<1>1. OnePid' /\ Families'
  BY OnePidStep, FamiliesStep DEF SweepInv
<1>2. CASE /\ \A k \in Sweeps : /\ sweep'[k].list = sweep[k].list
                                /\ sweep'[k].next = sweep[k].next
                                /\ sweep'[k].seen = sweep[k].seen
                                /\ sweep'[k].root = sweep[k].root
           /\ \A x : <<"sweep", x>> \in struck' => <<"sweep", x>> \in struck
  <2>1. Listed'
    BY <1>2, NamesStay DEF SweepInv, Listed
  <2>2. Seen'
    BY <1>2, BirthsStay DEF SweepInv, Seen
  <2>3. Excused'
    BY <1>2, NamesStay DEF SweepInv, Excused
  <2> QED
    BY <1>1, <2>1, <2>2, <2>3 DEF SweepInv
<1>3. ASSUME NEW k \in Sweeps, SweepStep(k) PROVE SweepInv'
  <2>1. \A j \in Sweeps \ {k} : sweep'[j] = sweep[j]
    BY <1>3 DEF SweepStep, SweepLists, SweepVerifies, SweepTerminates, SweepReverifies, SweepKills,
                SweepEnds, Sweep, Swept
  <2> DEFINE ListedHere == sweep'[k].root = "sweep" =>
                             \A d \in sweep'[k].list \cup sweep'[k].next : Named(d)
             SeenHere == \A d \in sweep'[k].next :
                           /\ sweep'[k].next = {d}
                           /\ \A i \in sweep'[k].seen :
                                i \in Ids /\ os[i] # "unborn" /\ pidOf[i] = d[1] /\ born[i] = d[2]
  \* It suffices to look at k.
  <2>2. ASSUME ListedHere, SeenHere, Excused' PROVE SweepInv'
    <3>1. Listed'
      BY <2>1, <2>2, NamesStay DEF SweepInv, Listed
    <3>2. Seen'
      BY <2>1, <2>2, BirthsStay DEF SweepInv, Seen
    <3> QED
      BY <1>1, <2>2, <3>1, <3>2 DEF SweepInv
  <2>3. \A d : \A i \in Same(d) :
          i \in Ids /\ os[i] # "unborn" /\ pidOf[i] = d[1] /\ born[i] = d[2]
    BY DEF Same, Holding, Alive
  <2>4. ASSUME struck' = struck PROVE Excused'
    BY <2>4, NamesStay DEF SweepInv, Excused
  <2>5. ASSUME NEW d \in sweep[k].next, SweepStrikes(k, Holding(d[1])) PROVE Excused'
    <3> SUFFICES ASSUME NEW x \in Strangers, <<"sweep", x>> \in struck' PROVE Twinned(x)'
      BY DEF Excused
    <3>1. CASE <<"sweep", x>> \in struck
      BY <3>1, NamesStay DEF SweepInv, Excused
    <3>2. CASE <<"sweep", x>> \notin struck
      <4>1. x \in sweep[k].seen /\ sweep[k].root = "sweep"
        BY <2>5, <3>2 DEF SweepStrikes
      <4>2. os[x] # "unborn" /\ pidOf[x] = d[1] /\ born[x] = d[2]
        BY <4>1 DEF SweepInv, Seen
      <4>3. Named(d)
        BY <4>1 DEF SweepInv, Listed
      <4>4. Twinned(x)
        BY <4>2, <4>3 DEF Twinned, Named
      <4> QED
        BY <4>4, NamesStay
    <3> QED
      BY <3>1, <3>2
  \* An entry that is done with, and the next one looked up.
  <2>6. ASSUME Swept(k) PROVE ListedHere /\ SeenHere
    <3>1. /\ sweep'[k].list = sweep[k].list \ sweep[k].next
          /\ sweep'[k].next = {} /\ sweep'[k].root = sweep[k].root
      BY <2>6 DEF Swept, SweepType
    <3> QED
      BY <3>1 DEF SweepInv, Listed
  <2>7. ASSUME NEW pc, Sweep(k, pc) PROVE ListedHere /\ SeenHere
    <3>1. /\ sweep'[k].list = sweep[k].list /\ sweep'[k].next = sweep[k].next
          /\ sweep'[k].seen = sweep[k].seen /\ sweep'[k].root = sweep[k].root
      BY <2>7 DEF Sweep, SweepType
    <3> QED
      BY <3>1 DEF SweepInv, Listed, Seen
  <2>8. CASE SweepLists(k)
    <3>1. /\ sweep'[k].list = {<<pidOf[o], born[o]>> : o \in Below(pidOf[Child])}
          /\ sweep'[k].next = {}
          /\ sweep'[k].root = "sweep" => Present(Child)
      BY <2>8 DEF SweepLists, Present
    <3>2. ASSUME Present(Child), NEW o \in Below(pidOf[Child]) PROVE Named(<<pidOf[o], born[o]>>)
      BY <3>2, BelowIsHeirs DEF SweepInv, Named, Alive
    <3>3. ListedHere /\ SeenHere
      BY <3>1, <3>2
    <3> QED
      BY <2>2, <2>4, <2>8, <3>3 DEF SweepLists
  <2>9. CASE SweepVerifies(k)
    <3>1. PICK d \in sweep[k].list :
            sweep' = IF Same(d) = {}
                       THEN [sweep EXCEPT ![k].list = @ \ {d}]
                       ELSE [sweep EXCEPT ![k].pc = "terminate", ![k].next = {d}, ![k].seen = Same(d)]
      BY <2>9 DEF SweepVerifies
    <3>2. CASE Same(d) = {}
      <4>1. /\ sweep'[k].list = sweep[k].list \ {d} /\ sweep'[k].next = sweep[k].next
            /\ sweep'[k].seen = sweep[k].seen /\ sweep'[k].root = sweep[k].root
        BY <3>1, <3>2 DEF SweepType
      <4>2. ListedHere /\ SeenHere
        BY <4>1 DEF SweepInv, Listed, Seen
      <4> QED
        BY <2>2, <2>4, <2>9, <4>2 DEF SweepVerifies
    <3>3. CASE Same(d) # {}
      <4>1. /\ sweep'[k].list = sweep[k].list /\ sweep'[k].next = {d}
            /\ sweep'[k].seen = Same(d) /\ sweep'[k].root = sweep[k].root
        BY <3>1, <3>3 DEF SweepType
      <4>2. ListedHere /\ SeenHere
        BY <2>3, <4>1 DEF SweepInv, Listed
      <4> QED
        BY <2>2, <2>4, <2>9, <4>2 DEF SweepVerifies
    <3> QED
      BY <3>2, <3>3
  <2>10. CASE SweepReverifies(k)
    <3>1. PICK d \in sweep[k].next :
            IF Same(d) = {} THEN Swept(k)
            ELSE sweep' = [sweep EXCEPT ![k].pc = "kill", ![k].seen = Same(d)]
      BY <2>10 DEF SweepReverifies
    <3>2. ASSUME Same(d) # {} PROVE ListedHere /\ SeenHere
      <4>1. /\ sweep'[k].list = sweep[k].list /\ sweep'[k].next = sweep[k].next
            /\ sweep'[k].seen = Same(d) /\ sweep'[k].root = sweep[k].root
        BY <3>1, <3>2 DEF SweepType
      <4>2. sweep[k].next = {d}
        BY DEF SweepInv, Seen
      <4> QED
        BY <2>3, <4>1, <4>2 DEF SweepInv, Listed
    <3>3. ListedHere /\ SeenHere
      BY <2>6, <3>1, <3>2
    <3> QED
      BY <2>2, <2>4, <2>10, <3>3 DEF SweepReverifies
  <2>11. CASE SweepTerminates(k)
    BY <2>2, <2>5, <2>7, <2>11 DEF SweepTerminates
  <2>12. CASE SweepKills(k)
    BY <2>2, <2>5, <2>6, <2>12 DEF SweepKills
  <2>13. CASE SweepEnds(k)
    BY <2>2, <2>4, <2>7, <2>13 DEF SweepEnds
  <2> QED
    BY <1>3, <2>8, <2>9, <2>10, <2>11, <2>12, <2>13 DEF SweepStep
<1> QED
  BY <1>2, <1>3, SweepsMove

LEMMA AlwaysSwept == Spec => []SweepInv
<1>1. Init => SweepInv
  BY FoundTyped DEF Init, SweepInv, OnePid, Present, Families, Listed, Seen, Excused
<1>2. Typed /\ SweepInv /\ [Next]_vars => SweepInv'
  BY SweepInvStep
<1> QED
  BY <1>1, <1>2, AlwaysTyped, PTL DEF Spec

\* A sweep signals a stranger only in place of an heir that had its pid and was
\* started in the same second, or within the moment between a look and a signal,
\* however often pids are reused and however many sweeps there are.
THEOREM SweepSpares == Spec => []SweepSparesStrangers
<1>1. SweepInv => SweepSparesStrangers
  BY DEF SweepInv, Excused, Twinned, Named, SweepSparesStrangers
<1> QED
  BY <1>1, AlwaysSwept, PTL

-----------------------------------------------------------------------------
(* The life of the process, as the process table goes.                     *)

\* Past Process.Wait.
Past(w) == waiter[w] \in {"result", "record", "disarm", "done"}

LifeInv == known \/ reaped \/ exited \/ (\E w \in Waiters : Past(w)) => os[Child] = "gone"

\* A gone process stays gone, a born one is never unborn again, and output is
\* not taken up again once nobody holds it.
LEMMA TableSteps ==
  ASSUME Typed, [Next]_vars
  PROVE  /\ os[Child] = "gone" => os'[Child] = "gone"
         /\ Started => Started'
         /\ Started /\ Holders = {} => Holders' = {}
<1> OsType
  BY DEF Typed, TypeOK, OsType
<1> USE FoundTyped
<1> DEFINE Steps == /\ os[Child] = "gone" => os'[Child] = "gone"
                    /\ Started => Started'
                    /\ Started /\ Holders = {} => Holders' = {}
<1>1. ASSUME NEW S, Die(S) PROVE Steps
  <2>1. \A i \in Ids : /\ os'[i] = "alive" => os[i] = "alive"
                       /\ os'[i] = "unborn" => os[i] = "unborn"
                       /\ os[i] = "gone" => os'[i] = "gone"
    BY <1>1 DEF Die, Alive, OsType
  <2> QED
    BY <2>1 DEF Started, Holders, Alive
<1>2. ASSUME NEW x \in Strangers, StrangerAppears(x) PROVE Steps
  <2>1. x \in Ids /\ x # Child /\ x \notin Heirs
    BY RunAssumption
  <2>2. os' = [os EXCEPT ![x] = "alive"]
    BY <1>2 DEF StrangerAppears, Born
  <2>3. \A i \in {Child} \cup PipeHolders : os'[i] = os[i]
    BY <2>1, <2>2, RunAssumption DEF OsType
  <2> QED
    BY <2>3, RunAssumption DEF Started, Holders, Alive
<1>3. ASSUME NEW h \in Heirs, HeirForked(h) PROVE Steps
  <2>1. h \in Ids /\ h # Child
    BY RunAssumption
  <2>2. os' = [os EXCEPT ![h] = "alive"]
    BY <1>3 DEF HeirForked, Born
  <2>3. h \in PipeHolders => Holders # {}
    BY <1>3 DEF HeirForked
  <2>4. \A i \in Ids : i # h => os'[i] = os[i]
    BY <2>2 DEF OsType
  <2> QED
    BY <2>1, <2>3, <2>4, RunAssumption DEF Started, Holders, Alive
<1>4. CASE Start
  <2>1. os[Child] = "unborn"
    BY <1>4 DEF Start, Born
  <2> QED
    BY <2>1 DEF Started
<1>5. ASSUME NEW w \in Waiters, Reaps(w) PROVE Steps
  <2>1. os' = [os EXCEPT ![Child] = IF @ = "zombie" THEN "gone" ELSE @]
    BY <1>5 DEF Reaps
  <2>2. \A i \in Ids : /\ os'[i] = "alive" => os[i] = "alive"
                       /\ os'[i] = "unborn" => os[i] = "unborn"
                       /\ os[i] = "gone" => os'[i] = "gone"
    BY <2>1 DEF OsType
  <2> QED
    BY <2>2 DEF Started, Holders, Alive
<1>6. CASE os' = os
  BY <1>6 DEF Started, Holders, Alive
<1> QED
  BY <1>1, <1>2, <1>3, <1>4, <1>5, <1>6, TableMoves

\* Only Wait moves its own variables.
LEMMA WaitMoves ==
  ASSUME [Next]_vars
  PROVE  \/ UNCHANGED waitVars
         \/ \E w \in Waiters : WaitCalled(w) \/ WaitStep(w)
BY DEF Next, vars, waitVars, Start, ContextKills, StrangerAppears, HeirForked, Exits, Writes,
       ReaderReads, ReaderEnds, StopSignals, StopStep, StopArms, StopCancels,
         SweepStep, SweepLists, SweepVerifies, SweepTerminates, SweepReverifies, SweepKills, SweepEnds, Tick, TimerFires

LEMMA LifeStep == ASSUME Typed, LifeInv, [Next]_vars PROVE LifeInv'
<1> waiter \in [Waiters -> WaitPC]
  BY DEF Typed, TypeOK, WaitPC
<1>1. CASE os[Child] = "gone"
  BY <1>1, TableSteps DEF LifeInv
<1>2. CASE ~(known \/ reaped \/ exited \/ \E w \in Waiters : Past(w))
  <2>1. CASE UNCHANGED waitVars
    BY <1>2, <2>1 DEF waitVars, LifeInv, Past
  <2>2. ASSUME NEW w \in Waiters, Reaps(w) PROVE LifeInv'
    BY <2>2 DEF Reaps, Over, LifeInv, Typed, TypeOK, Ids
  <2>3. ASSUME NEW w \in Waiters, WaitCalled(w) \/ Drained(w) \/ DrainTimesOut(w) \/ WaitsCmd(w)
        PROVE  LifeInv'
    <3>1. \A v \in Waiters : ~Past(v)'
      BY <1>2, <2>3 DEF WaitCalled, Drained, DrainTimesOut, WaitsCmd, Past
    <3>2. UNCHANGED <<known, reaped, exited>>
      BY <2>3 DEF WaitCalled, Drained, DrainTimesOut, WaitsCmd
    <3> QED
      BY <1>2, <3>1, <3>2 DEF LifeInv
  <2>4. \A w \in Waiters : ~TakesResult(w) /\ ~Records(w) /\ ~Disarms(w)
    BY <1>2 DEF TakesResult, Records, Disarms, Past
  <2> QED
    BY <2>1, <2>2, <2>3, <2>4, WaitMoves DEF WaitStep
<1> QED
  BY <1>1, <1>2 DEF LifeInv

LEMMA AlwaysLife == Spec => []LifeInv
<1>1. Init => LifeInv
  BY DEF Init, LifeInv, Past
<1>2. Typed /\ LifeInv /\ [Next]_vars => LifeInv'
  BY LifeStep
<1> QED
  BY <1>1, <1>2, AlwaysTyped, PTL DEF Spec

\* A run whose exit has been recorded is over: IsRunning never denies a process
\* that is still there, and no Wait returns before its end.
THEOREM ExitIsOver == Spec => []ExitedIsOver
<1>1. LifeInv => ExitedIsOver
  BY DEF LifeInv, ExitedIsOver
<1> QED
  BY <1>1, AlwaysLife, PTL

-----------------------------------------------------------------------------
(* The output.                                                             *)

Kept(s) == reader[s] = "ended" /\ read[s] = wrote[s]

OnceStarted ==
  (\/ reaped \/ exited
   \/ \E w \in Waiters : waiter[w] # "idle"
   \/ \E s \in Streams : reader[s] # "off") => Started

EndedIsEof ==
  \A s \in Streams : reader[s] = "ended" /\ ~reaped => Holders = {} /\ Kept(s)

DrainedIsAll ==
  ~timedOut /\ (reaped \/ exited \/ \E w \in Waiters : waiter[w] \notin {"idle", "drain"}) =>
    Holders = {} /\ \A s \in Streams : Kept(s)

OutputInv == OnceStarted /\ EndedIsEof /\ DrainedIsAll

\* Once nobody can write, a stream that has ended stays as it is.
LEMMA KeptStays ==
  ASSUME [Next]_vars, Started, Holders = {}, NEW s \in Streams, Kept(s),
         Typed
  PROVE  Kept(s)'
<1>1. ~Start
  BY DEF Start, Born, Started
<1>2. \A q \in Streams : ~Writes(q)
  BY DEF Writes
<1>3. ASSUME NEW q \in Streams, ReaderReads(q) PROVE Kept(s)'
  BY <1>3 DEF ReaderReads, Kept, Typed, TypeOK
<1>4. ASSUME NEW q \in Streams, ReaderEnds(q) PROVE Kept(s)'
  BY <1>4 DEF ReaderEnds, Kept, Typed, TypeOK
<1>5. CASE UNCHANGED outputVars
  BY <1>5 DEF outputVars, Kept
<1>6. \/ UNCHANGED outputVars
      \/ \E q \in Streams : ReaderReads(q) \/ ReaderEnds(q)
  BY <1>1, <1>2
     DEF Next, vars, outputVars, ContextKills, StrangerAppears, HeirForked, Exits, WaitCalled,
         WaitStep, Drained, DrainTimesOut, WaitsCmd, Reaps, TakesResult, Records, Disarms, StopSignals, StopStep, StopArms, StopCancels,
         SweepStep, SweepLists, SweepVerifies, SweepTerminates, SweepReverifies, SweepKills, SweepEnds, Tick, TimerFires
<1> QED
  BY <1>3, <1>4, <1>5, <1>6

\* What the steps of everybody but Wait leave true of the output.
LEMMA StreamsStep ==
  ASSUME Typed, LifeInv, OutputInv, [Next]_vars, NEW s \in Streams,
         reader'[s] = "ended", ~reaped'
  PROVE  Holders' = {} /\ Kept(s)'
<1> reader \in [Streams -> {"off", "reading", "ended"}]
  BY DEF Typed, TypeOK
<1>1. ~reaped
  <2>1. CASE UNCHANGED waitVars
    BY <2>1 DEF waitVars
  <2>2. ASSUME NEW w \in Waiters, WaitCalled(w) \/ WaitStep(w) PROVE ~reaped
    BY <2>2 DEF WaitCalled, WaitStep, Drained, DrainTimesOut, WaitsCmd, Reaps, TakesResult, Records, Disarms
  <2> QED
    BY <2>1, <2>2, WaitMoves
<1>2. CASE reader[s] = "ended"
  BY <1>1, <1>2, TableSteps, KeptStays DEF OutputInv, OnceStarted, EndedIsEof
<1>3. CASE reader[s] # "ended"
  <2>1. ReaderEnds(s)
    <3>1. CASE Start
      BY <3>1 DEF Start
    <3>2. ASSUME NEW q \in Streams, ReaderEnds(q) PROVE q = s
      BY <1>3, <3>2 DEF ReaderEnds
    <3>3. reader' = reader \/ Start \/ \E q \in Streams : ReaderEnds(q)
      BY DEF Next, vars, outputVars, ContextKills, StrangerAppears, HeirForked, Exits, Writes,
             ReaderReads, WaitCalled, WaitStep, Drained, DrainTimesOut, WaitsCmd, Reaps, TakesResult, Records, Disarms,
             StopSignals, StopStep, StopArms, StopCancels,
         SweepStep, SweepLists, SweepVerifies, SweepTerminates, SweepReverifies, SweepKills, SweepEnds, Tick, TimerFires
    <3> QED
      BY <1>3, <3>1, <3>2, <3>3
  <2>2. Holders = {} /\ read[s] = wrote[s] /\ UNCHANGED <<os, read, wrote>>
    BY <1>1, <2>1 DEF ReaderEnds, osVars
  <2> QED
    BY <1>1, <2>1, <2>2 DEF ReaderEnds, Holders, Alive, Kept
<1> QED
  BY <1>2, <1>3

LEMMA StartedStep == ASSUME Typed, OnceStarted, [Next]_vars PROVE OnceStarted'
<1>1. CASE Start
  BY <1>1, FoundTyped DEF Start, Born, Started, OnceStarted, Typed, TypeOK, OsType
<1>2. ASSUME NEW w \in Waiters, WaitCalled(w) \/ WaitStep(w) PROVE OnceStarted'
  <2>1. Started
    BY <1>2 DEF WaitCalled, WaitStep, Drained, DrainTimesOut, WaitsCmd, Reaps, TakesResult, Records, Disarms,
                OnceStarted
  <2> QED
    BY <2>1, TableSteps DEF OnceStarted
<1>3. ASSUME NEW s \in Streams, ReaderEnds(s) PROVE OnceStarted'
  <2>1. Started
    BY <1>3 DEF ReaderEnds, OnceStarted
  <2> QED
    BY <2>1, TableSteps DEF OnceStarted
<1>4. CASE UNCHANGED <<waitVars, reader>>
  BY <1>4, TableSteps DEF OnceStarted, waitVars
<1>5. \/ UNCHANGED <<waitVars, reader>> \/ Start
      \/ \E w \in Waiters : WaitCalled(w) \/ WaitStep(w)
      \/ \E s \in Streams : ReaderEnds(s)
  BY DEF Next, vars, waitVars, outputVars, ContextKills, StrangerAppears, HeirForked, Exits,
         Writes, ReaderReads, StopSignals, StopStep, StopArms, StopCancels,
         SweepStep, SweepLists, SweepVerifies, SweepTerminates, SweepReverifies, SweepKills, SweepEnds, Tick, TimerFires
<1> QED
  BY <1>1, <1>2, <1>3, <1>4, <1>5

\* A drain that ends before its timeout leaves nothing to be written or read.
LEMMA DrainStep == ASSUME Typed, LifeInv, OutputInv, [Next]_vars PROVE DrainedIsAll'
<1> waiter \in [Waiters -> WaitPC]
  BY DEF Typed, TypeOK, WaitPC
<1> DEFINE Drain == reaped \/ exited \/ \E w \in Waiters : waiter[w] \notin {"idle", "drain"}
<1>1. ASSUME Drain, ~timedOut' PROVE DrainedIsAll'
  <2>1. ~timedOut
    BY <1>1, WaitMoves DEF waitVars, WaitCalled, WaitStep, Drained, DrainTimesOut, WaitsCmd, Reaps, TakesResult, Records, Disarms
  <2>2. Started /\ Holders = {} /\ \A s \in Streams : Kept(s)
    BY <1>1, <2>1 DEF OutputInv, OnceStarted, DrainedIsAll
  <2> QED
    BY <2>2, TableSteps, KeptStays DEF DrainedIsAll
<1>2. ASSUME NEW w \in Waiters, Drained(w), ~reaped PROVE DrainedIsAll'
  <2>1. Holders = {} /\ \A s \in Streams : Kept(s)
    BY <1>2, RunAssumption DEF Drained, ReadersDone, OutputInv, EndedIsEof
  <2> QED
    BY <1>2, <2>1 DEF Drained, DrainedIsAll, Kept, Holders, Alive, osVars, outputVars
<1>3. ASSUME ~Drain, Drain', ~timedOut' PROVE \E w \in Waiters : Drained(w) /\ ~reaped
  BY <1>3, WaitMoves DEF waitVars, WaitCalled, WaitStep, Drained, DrainTimesOut, WaitsCmd, Reaps, TakesResult, Records, Disarms
<1> QED
  BY <1>1, <1>2, <1>3 DEF DrainedIsAll

LEMMA AlwaysOutput == Spec => []OutputInv
<1>1. Init => OutputInv
  BY RunAssumption
     DEF Init, OutputInv, OnceStarted, EndedIsEof, DrainedIsAll
<1>2. Typed /\ LifeInv /\ OutputInv /\ [Next]_vars => OutputInv'
  <2> SUFFICES ASSUME Typed, LifeInv, OutputInv, [Next]_vars PROVE OutputInv'
    OBVIOUS
  <2>1. OnceStarted'
    BY StartedStep DEF OutputInv
  <2>2. EndedIsEof'
    BY StreamsStep DEF EndedIsEof
  <2> QED
    BY <2>1, <2>2, DrainStep DEF OutputInv
<1> QED
  BY <1>1, <1>2, AlwaysTyped, AlwaysLife, PTL DEF Spec

\* When the exit of a run is recorded, unless a drain timed out, each line it or
\* a descendant wrote has been handled, and the end of every stream reported.
THEOREM OutputIsKept == Spec => []OutputKept
<1>1. LifeInv /\ OutputInv => OutputKept
  BY DEF LifeInv, OutputInv, DrainedIsAll, OutputKept, Kept
<1> QED
  BY <1>1, AlwaysLife, AlwaysOutput, PTL
=============================================================================
