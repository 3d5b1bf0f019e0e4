------------------------------- MODULE MCBoot -------------------------------
(* Dependency graphs, for one program; then programs that meet.            *)
EXTENDS Boot

MCPrograms == {"one", "two"}
MCPorts    == 1..3
MCServices == {"db", "job"}

Plain == [order |-> <<"a">>, deps |-> [a |-> <<>>], recurring |-> {}, checked |-> {}, commands |-> FALSE,
          files |-> <<>>, profiles |-> {}, declared |-> {}, start |-> "ask", terminal |-> TRUE,
          flag |-> "unset", enabled |-> "unset", portFlag |-> NoPort, port |-> NoPort, project |-> "x", tui |-> TRUE]

Scene == [configs |-> [p \in MCPrograms |-> Plain], starts |-> {"one"}, foreign |-> {}, shadowed |-> {},
          stack |-> [s \in MCServices |-> "down"], drifted |-> {}, oneshot |-> {}, kills |-> 0, signals |-> FALSE, tinkering |-> FALSE]

Alone(c) == [Scene EXCEPT !.configs["one"] = c]

Lists(S, n) == UNION {[1..k -> S] : k \in 0..n}

\* Every graph of three processes with up to two dependencies each.
Graphs == {Alone([Plain EXCEPT !.order = <<"a", "b", "c">>, !.checked = {"a", "b", "c"},
                               !.deps = [a |-> x, b |-> y, c |-> z], !.flag = "no"]) :
             x, y, z \in Lists({"a", "b", "c"}, 2)}

\* Every kind of dependency of one process: a process b, with and without a healthcheck, recurring or not,
\* and a service db or b of one or two files, behind a profile or not, with healthchecks here and there.
Base(gates, check) == [profiles |-> gates, check |-> check]

Stacks == {<<>>} \cup {<<[db |-> Base(g, h)]>> : g \in {{}, {"dev"}}, h \in BOOLEAN}
                 \cup {<<[db |-> Base({"dev"}, TRUE), b |-> Base({}, FALSE)], [db |-> Base({}, FALSE)]>>,
                       <<[db |-> Base({}, TRUE), b |-> Base({"dev"}, TRUE)]>>}

Kinds == {Alone([Plain EXCEPT !.order = <<"a", "b">>, !.checked = k, !.recurring = r, !.declared = h, !.files = f,
                              !.deps = [a |-> x, b |-> y], !.flag = "no", !.start = "never"]) :
            k \in SUBSET {"a", "b"}, r \in SUBSET {"a", "b"}, h \in SUBSET {"db", "b"}, f \in Stacks,
            x \in Lists({"b", "db"}, 1), y \in Lists({"db", "elsewhere"}, 1)}

Faulty == {Alone([Plain EXCEPT !.order = <<"a", "a">>]), Alone([Plain EXCEPT !.order = <<>>, !.deps = <<>>])}

\* How tracing is asked for, alone, with a collector and with a shadow on the way.
Asked == {Plain, [Plain EXCEPT !.flag = "yes"], [Plain EXCEPT !.flag = "no"], [Plain EXCEPT !.enabled = "no", !.flag = "yes"],
          [Plain EXCEPT !.enabled = "yes"], [Plain EXCEPT !.portFlag = 2], [Plain EXCEPT !.port = 1],
          [Plain EXCEPT !.commands = TRUE]}

Holding(f, h, k) == [Scene EXCEPT !.foreign = f, !.shadowed = h, !.kills = k, !.signals = k > 0]

Meeting ==
  {[s EXCEPT !.configs["one"] = [c EXCEPT !.tui = u], !.configs["two"] = [d EXCEPT !.project = j],
             !.starts = MCPrograms] :
     s \in {Holding({}, {}, 1), Holding({1}, {2}, 0), Holding({1, 2}, {}, 0)}, c \in Asked, u \in BOOLEAN,
     d \in {Plain, [Plain EXCEPT !.portFlag = 2]}, j \in {"x", "y"}}

\* Two programs of a project, one with the stack alone, and a developer; the stack is a database and a job that runs once.
Composed == [Plain EXCEPT !.flag = "no", !.tui = FALSE, !.files = <<[db |-> Base({}, TRUE), job |-> Base({}, FALSE)]>>]

Sharing == {[Scene EXCEPT !.configs = [p \in MCPrograms |-> IF p = "one" THEN [Composed EXCEPT !.start = s[1]]
                                                             ELSE [Composed EXCEPT !.order = <<>>, !.deps = <<>>]],
                          !.starts = MCPrograms, !.drifted = {"db"}, !.oneshot = {"job"}, !.tinkering = TRUE,
                          !.stack = [db |-> s[2], job |-> s[3]]] :
              s \in {<<"ask", "down", "down">>, <<"always", "down", "down">>, <<"ask", "up", "down">>, <<"always", "down", "done">>}}

MCScenes == Graphs \cup Kinds \cup Faulty \cup Meeting \cup Sharing
=============================================================================
