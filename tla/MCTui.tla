------------------------------- MODULE MCTui -------------------------------
(* A container and a process that log; a process whose log is searched; a  *)
(* process with dependencies; a list of traces that changes; two traces    *)
(* that are opened down to a span.                                         *)
EXTENDS Tui

MCNames     == {"db", "api"}
MCSorted    == [names \in SUBSET MCNames |-> SelectSeq(<<"db", "api">>, LAMBDA s : s \in names)]
MCProcesses == {"api"}
MCTraces    == {"t1", "t2", "t3"}

Quiet == [s \in MCNames |-> 0]

MCWorkloads ==
  {[sends |-> {"db", "api"}, lines |-> [Quiet EXCEPT !["api"] = 2], stored |-> <<>>,
    gated |-> FALSE, turns |-> 2, keys |-> 2, faults |-> 0],
   [sends |-> {}, lines |-> [Quiet EXCEPT !["api"] = 2], stored |-> <<>>,
    gated |-> FALSE, turns |-> 0, keys |-> 4, faults |-> 0],
   [sends |-> {"api"}, lines |-> Quiet, stored |-> <<>>,
    gated |-> TRUE, turns |-> 2, keys |-> 2, faults |-> 1],
   [sends |-> {"t3"}, lines |-> Quiet, stored |-> <<"t1", "t2">>,
    gated |-> FALSE, turns |-> 2, keys |-> 2, faults |-> 0],
   [sends |-> {}, lines |-> Quiet, stored |-> <<"t1", "t2">>,
    gated |-> FALSE, turns |-> 1, keys |-> 7, faults |-> 0]}
=============================================================================
