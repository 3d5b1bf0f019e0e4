--------------------------- MODULE StartupContract --------------------------
(***************************************************************************)
(* What dependency-ordered startup promises its user, without goroutines,  *)
(* runs or locks (startup.go, docs/configuration.md "depends_on"):         *)
(*   - whether a dependency is ready is decided once;                      *)
(*   - a waiting process is started only when all it depends on is ready,  *)
(*     or because the user restarts it by hand;                            *)
(*   - startup stops as a whole, and only because of a dependency that     *)
(*     failed or a process that could not be started.                      *)
(***************************************************************************)
EXTENDS Sequences

CONSTANTS
  Procs,     \* the configured processes
  Deps,      \* what can be depended on: processes and Compose services
  DependsOn  \* each process's dependencies, a sequence

VARIABLES
  outcome,   \* of each dependency's check
  status     \* of each process: free without dependencies, else waiting at first

cvars == <<outcome, status>>

DepsReady(p) == \A i \in DOMAIN DependsOn[p] : outcome[DependsOn[p][i]] = "ready"

Init == /\ outcome = [d \in Deps |-> "undecided"]
        /\ status = [p \in Procs |-> IF DependsOn[p] = <<>> THEN "free" ELSE "waiting"]

\* d's outcome becomes o unless it has one.
Decides(d, o) == outcome' = [outcome EXCEPT ![d] = IF @ = "undecided" THEN o ELSE @]

Decide(d) == /\ \E o \in {"ready", "failed"} : Decides(d, o)
             /\ UNCHANGED status

\* p starts; without a healthcheck that also makes p ready.
Release(p) == /\ status[p] = "waiting"
              /\ DepsReady(p)
              /\ status' = [status EXCEPT ![p] = "started"]
              /\ UNCHANGED outcome \/ Decides(p, "ready")

\* The user's Restart starts p whatever it is waiting for.
Force(p) == /\ status[p] \in {"waiting", "blocked"}
            /\ status' = [status EXCEPT ![p] = "started"]
            /\ UNCHANGED outcome \/ Decides(p, "ready")

Blocked == [p \in Procs |-> IF status[p] = "waiting" THEN "blocked" ELSE status[p]]

\* A failed dependency stops startup, also that of a process the user has
\* started by hand meanwhile.
GiveUp(p) == /\ status[p] # "free"
             /\ \E i \in DOMAIN DependsOn[p] : outcome[DependsOn[p][i]] = "failed"
             /\ status' = Blocked
             /\ UNCHANGED outcome

CannotStart(p) == /\ status[p] # "free"
                  /\ DepsReady(p)
                  /\ Decides(p, "failed")
                  /\ status' = Blocked

Next == \/ \E d \in Deps : Decide(d)
        \/ \E p \in Procs : Release(p) \/ Force(p) \/ GiveUp(p) \/ CannotStart(p)

Spec == Init /\ [][Next]_cvars
=============================================================================
