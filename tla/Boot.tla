-------------------------------- MODULE Boot --------------------------------
(***************************************************************************)
(* What run() does up to manager.Start, and how it ends: it reads the      *)
(* configuration, refuses or accepts the dependency graph, binds the OTLP  *)
(* receiver, looks for the Compose stack and offers to start it, binds the *)
(* API socket, starts the processes. Several programs boot on one machine: *)
(* they compete for ports, for the socket of their project, and they share *)
(* the Compose stack with the developer. Instance has the socket's files   *)
(* and the marker, Supervisor the processes. The offers to start the stack *)
(* are in Docker too, there for what one program then watches; here for    *)
(* what they do to containers that others start meanwhile.                 *)
(***************************************************************************)
EXTENDS Dependencies, FiniteSets

CONSTANTS
  Programs,   \* runs of running-man
  Ports,      \* a range of port numbers
  Services,   \* of the Compose stack
  SearchRange, \* tracingPortSearchRange
  Scenes,     \* see scene
  Nobody, Foreign

ASSUME HoldersAssumption == Nobody \notin Programs /\ Foreign \notin Programs /\ Nobody # Foreign
ASSUME PortsAssumption   == Ports \subseteq Nat /\ NoPort \notin Ports /\ DefaultPort \in Ports /\ SearchRange \in Nat \ {0}

\* A list of processes, lists of what they depend on, and ports that are numbers.
Wellformed(c) ==
  /\ c.order \in Seq(Names(c)) /\ \A n \in Names(c) : c.deps[n] \in Seq(ToSet(c.deps[n]))
  /\ \A n \in {c.portFlag, c.port} : n = NoPort \/ n \in Nat

ASSUME ScenesAssumption ==
  \A sc \in Scenes : /\ \A p \in Programs : Wellformed(sc.configs[p])
                     /\ sc.stack \in [Services -> {"down", "coming", "up", "done", "failed"}]

VARIABLES
  scene,    \* [configs, starts, foreign, shadowed, stack, drifted, oneshot, kills, signals, tinkering]:
            \* the configuration of each program, and which are started; the ports that another
            \* collector holds, and those where only localhost is somebody else's, so that binding
            \* succeeds all the same; the stack, the services whose container is not the one their
            \* definition asks for, those that run once; how many programs may be killed, whether
            \* any is signalled, and whether the developer starts the stack
  pc, why,  \* of each program: where it is, and why it ended
  search,   \* findCycle
  tries,    \* ports that StartOnFreePort has found taken
  told,     \* the port injected into the processes, NoPort without tracing
  running,  \* the programs whose processes are running
  owner,    \* who listens on each port
  socket,   \* whose file is at the path of each project's socket, dead or alive
  listening, \* the programs that listen on their socket, whatever is at its path
  raced,    \* history: projects that two programs were in api.Listen of at once, past the probe
  stack,    \* of each service: "down", "coming", "up", "done", "failed"
  found,    \* the services whose containers each program has discovered last
  asked,    \* the services it offers to start
  replaced, \* history: running containers that running-man has had replaced
  surprise  \* history: containers that came up after a program had found none, while it offered

net     == <<owner, socket, listening, raced>>
tracing == <<tries, told>>
compose == <<stack, found, asked, replaced, surprise>>
vars    == <<scene, pc, why, search, tries, told, running, owner, socket, listening, raced,
             stack, found, asked, replaced, surprise>>

Conf(p)  == scene.configs[p]
Projects == {Conf(p).project : p \in Programs}

Checking  == {"load", "search"}
Listening == {"lstat", "unlink", "bindSocket", "chmod"}
Preparing == {"bind", "discover", "offer", "up", "await", "missing", "upMissing", "awaitMissing", "listen", "ready", "start"}
               \cup Listening
Prompting == {"ask", "askMissing"}
Serving   == {"serving", "signalled", "stopping", "stopped", "silent"}
Over      == {"ended", "killed"}

TypeOK ==
  /\ pc \in [Programs -> {"off"} \cup Checking \cup Preparing \cup Prompting \cup Serving \cup Over]
  /\ told \in [Programs -> Ports \cup {NoPort}]
  /\ \A p \in Programs : tries[p] <= SearchRange
  /\ running \subseteq Programs
  /\ owner \in [Ports -> Programs \cup {Nobody, Foreign}]
  /\ socket \in [Projects -> Programs \cup {Nobody}] /\ listening \subseteq Programs /\ raced \subseteq Projects
  /\ stack \in [Services -> {"down", "coming", "up", "done", "failed"}]
  /\ found \in [Programs -> SUBSET Services]
  /\ asked \in [Programs -> SUBSET UNION {Active(Conf(p)) : p \in Programs}]
  /\ replaced \subseteq Services /\ surprise \subseteq Services

Init ==
  /\ scene \in Scenes
  /\ pc = [p \in Programs |-> "off"] /\ why = [p \in Programs |-> "none"]
  /\ search = [p \in Programs |-> NewSearch(Conf(p))]
  /\ tries = [p \in Programs |-> 0] /\ told = [p \in Programs |-> NoPort]
  /\ running = {}
  /\ owner = [n \in Ports |-> IF n \in scene.foreign THEN Foreign ELSE Nobody]
  /\ socket = [d \in Projects |-> Nobody] /\ listening = {} /\ raced = {}
  /\ stack = scene.stack
  /\ found = [p \in Programs |-> {}] /\ asked = [p \in Programs |-> {}]
  /\ replaced = {} /\ surprise = {}

-----------------------------------------------------------------------------

Goto(p, l) == pc' = [pc EXCEPT ![p] = l] /\ UNCHANGED why

FreePorts(p) == owner' = [n \in Ports |-> IF owner[n] = p THEN Nobody ELSE owner[n]]

\* The listener is closed by the kernel: the socket's file stays.
Abandon(p) == listening' = listening \ {p} /\ UNCHANGED <<socket, raced>>

\* removeMarker closes it, which unlinks the path, once, whoever's file it is.
Unlink(p) ==
  /\ listening' = listening \ {p}
  /\ socket' = [d \in Projects |-> IF d = Conf(p).project /\ p \in listening THEN Nobody ELSE socket[d]]
  /\ UNCHANGED raced

Leaves(p, reason) ==
  /\ pc' = [pc EXCEPT ![p] = "ended"] /\ why' = [why EXCEPT ![p] = reason]
  /\ FreePorts(p)
  /\ UNCHANGED <<scene, search, tracing, running, compose>>

\* os.Exit, and the end of run.
Exit(p, reason) == Leaves(p, reason) /\ Abandon(p)
Done(p)         == Leaves(p, "done") /\ Unlink(p)

Begin(p) ==
  /\ pc[p] = "off" /\ p \in scene.starts
  /\ Goto(p, "load")
  /\ UNCHANGED <<scene, search, tracing, running, net, compose>>

\* Loading, merging with the flags, and ParseComposeFiles.
Accepted(c) == Valid(c) /\ (c.files # <<>> => DOMAIN Merged(c) # {})

LoadRefuses(p) ==
  /\ pc[p] = "load" /\ ~Accepted(Conf(p))
  /\ Exit(p, "config")

\* The processes of --process flags depend on nothing.
Load(p) ==
  /\ pc[p] = "load" /\ Accepted(Conf(p))
  /\ Goto(p, IF Conf(p).commands THEN "bind" ELSE "search")
  /\ UNCHANGED <<scene, search, tracing, running, net, compose>>

-----------------------------------------------------------------------------
(* checkDependencies: all objections are collected, and the search looks   *)
(* for one cycle.                                                          *)

Searching(p) == pc[p] = "search" /\ search[p].cycle = <<>>

Found(p, s) ==
  /\ search' = [search EXCEPT ![p] = s]
  /\ UNCHANGED <<scene, pc, why, tracing, running, net, compose>>

\* The loop over the processes.
SearchFrom(p) ==
  LET s == search[p] IN
  /\ Searching(p) /\ s.frames = <<>> /\ s.roots # <<>>
  /\ LET n == Head(s.roots)
         rest == [s EXCEPT !.roots = Tail(@)]
     IN Found(p, IF s.mark[n] = "done" THEN rest ELSE Visit(Conf(p), rest, n))

\* Mutant: what is still being visited is passed over as well.
SkipsVisited(p) ==
  /\ Searching(p) /\ Looking(search[p])
  /\ Followed(Conf(p), search[p]) => search[p].mark[Seen(search[p])] # "unvisited"
  /\ Found(p, Passed(search[p]))

SearchSkips(p) ==
  /\ Searching(p) /\ Looking(search[p])
  /\ Followed(Conf(p), search[p]) => search[p].mark[Seen(search[p])] = "done"
  /\ Found(p, Passed(search[p]))

SearchDescends(p) ==
  LET s == search[p] IN
  /\ Searching(p) /\ Looking(s)
  /\ Followed(Conf(p), s) /\ s.mark[Seen(s)] = "unvisited"
  /\ Found(p, Visit(Conf(p), Passed(s), Seen(s)))

SearchCloses(p) ==
  LET s == search[p] IN
  /\ Searching(p) /\ Looking(s)
  /\ Followed(Conf(p), s) /\ s.mark[Seen(s)] = "visiting"
  /\ Found(p, [s EXCEPT !.cycle = CycleOf(s, Seen(s))])

SearchReturns(p) ==
  LET s == search[p] IN
  /\ Searching(p) /\ s.frames # <<>> /\ Last(s.frames).left = <<>>
  /\ Found(p, Leave(s))

Searched(p) == search[p].cycle # <<>> \/ (search[p].frames = <<>> /\ search[p].roots = <<>>)

DependenciesRefused(p) ==
  /\ pc[p] = "search" /\ Searched(p)
  /\ Objections(Conf(p)) # {} \/ search[p].cycle # <<>>
  /\ Exit(p, "dependencies")

DependenciesAccepted(p) ==
  /\ pc[p] = "search" /\ Searched(p)
  /\ Objections(Conf(p)) = {} /\ search[p].cycle = <<>>
  /\ Goto(p, "bind")
  /\ UNCHANGED <<scene, search, tracing, running, net, compose>>

-----------------------------------------------------------------------------
(* startTracingReceiver: one net.Listen a step.                            *)

Port(p) == FirstPort(Conf(p)) + tries[p]
Free(n) == n \in Ports /\ owner[n] = Nobody

AfterBinding(p) == IF Conf(p).files = <<>> THEN "listen" ELSE "discover"

NoTracing(p) ==
  /\ pc[p] = "bind" /\ ~Enabled(Conf(p))
  /\ Goto(p, AfterBinding(p))
  /\ UNCHANGED <<scene, search, tracing, running, net, compose>>

\* Mutant: the processes are told the port that was configured.
BindsTellsFirst(p) ==
  /\ pc[p] = "bind" /\ Enabled(Conf(p)) /\ Free(Port(p))
  /\ owner' = [owner EXCEPT ![Port(p)] = p]
  /\ told' = [told EXCEPT ![p] = FirstPort(Conf(p))]
  /\ Goto(p, AfterBinding(p))
  /\ UNCHANGED <<scene, search, tries, running, socket, listening, raced, compose>>

Binds(p) ==
  /\ pc[p] = "bind" /\ Enabled(Conf(p)) /\ Free(Port(p))
  /\ owner' = [owner EXCEPT ![Port(p)] = p]
  /\ told' = [told EXCEPT ![p] = Port(p)]
  /\ Goto(p, AfterBinding(p))
  /\ UNCHANGED <<scene, search, tries, running, socket, listening, raced, compose>>

\* Only an unnamed port.
MovesAside(p) ==
  /\ pc[p] = "bind" /\ Enabled(Conf(p)) /\ ~Free(Port(p))
  /\ ~PortNamed(Conf(p)) /\ tries[p] + 1 < SearchRange
  /\ tries' = [tries EXCEPT ![p] = @ + 1]
  /\ UNCHANGED <<scene, pc, why, search, told, running, net, compose>>

NoPortLeft(p) ==
  /\ pc[p] = "bind" /\ Enabled(Conf(p)) /\ ~Free(Port(p))
  /\ PortNamed(Conf(p)) \/ tries[p] + 1 = SearchRange

BindingFails(p) == NoPortLeft(p) /\ Requested(Conf(p)) /\ Exit(p, "port")

GivesUpTracing(p) ==
  /\ NoPortLeft(p) /\ ~Requested(Conf(p))
  /\ Goto(p, AfterBinding(p))
  /\ UNCHANGED <<scene, search, tracing, running, net, compose>>

-----------------------------------------------------------------------------
(* The Compose stack: discovery, and the two offers to start it.           *)

Up           == {s \in Services : stack[s] = "up"}
Completed    == {s \in Services : stack[s] = "done"}
Expected(p)  == Active(Conf(p))
Offering     == {p \in Programs : pc[p] \in {"offer", "ask", "up"}}

\* Everything is behind a profile, or Docker does not answer.
ComposeFails(p) ==
  /\ pc[p] = "discover"
  /\ Exit(p, IF Expected(p) = {} THEN "services" ELSE "docker")

Discover(p) ==
  /\ pc[p] = "discover" /\ Expected(p) # {}
  /\ found' = [found EXCEPT ![p] = Up \cap Expected(p)]
  /\ Goto(p, IF Up \cap Expected(p) = {} THEN "offer" ELSE "missing")
  /\ UNCHANGED <<scene, search, tracing, running, net, stack, asked, replaced, surprise>>

\* Nobody may be asked, or there is no Compose command.
OfferFails(p) == pc[p] = "offer" /\ Exit(p, "stack")

CanOffer(p) == Conf(p).start = "always" \/ (Conf(p).start = "ask" /\ Conf(p).terminal)

Offer(p) ==
  /\ pc[p] = "offer" /\ CanOffer(p)
  /\ Goto(p, IF Conf(p).start = "ask" THEN "ask" ELSE "up")
  /\ UNCHANGED <<scene, search, tracing, running, net, compose>>

Agree(p) ==
  /\ pc[p] = "ask"
  /\ Goto(p, "up")
  /\ UNCHANGED <<scene, search, tracing, running, net, compose>>

Decline(p) == pc[p] = "ask" /\ Exit(p, "stack")

\* docker compose up -d of the services in S, which succeeds as a whole or changes
\* nothing: what is not running is started
\* and, if replace, what runs with another definition is created anew.
ComposeUp(S, replace) ==
  LET anew == IF replace THEN S \cap Up \cap scene.drifted ELSE {}
  IN /\ stack' = [s \in Services |-> IF s \in anew \/ (s \in S /\ stack[s] \notin {"up", "coming"})
                                       THEN "coming" ELSE stack[s]]
     /\ replaced' = replaced \cup anew
     /\ UNCHANGED surprise

UpFails(p) == pc[p] = "up" /\ Exit(p, "stack")

UpAll(p) ==
  /\ pc[p] = "up"
  /\ ComposeUp(Expected(p), TRUE)
  /\ Goto(p, "await")
  /\ UNCHANGED <<scene, search, tracing, running, net, found, asked>>

\* waitForContainers, until the first container shows.
Await(p) ==
  /\ pc[p] = "await" /\ Up \cap Expected(p) # {}
  /\ found' = [found EXCEPT ![p] = Up \cap Expected(p)]
  /\ Goto(p, "missing")
  /\ UNCHANGED <<scene, search, tracing, running, net, stack, asked, replaced, surprise>>

\* Mutant: there is no deadline.
AwaitsForEver(p) == FALSE

AwaitTimesOut(p) == pc[p] = "await" /\ Exit(p, "stack")

MissingServices(p, completed) == Expected(p) \ (found[p] \cup completed)

\* What completed() returns: nothing if Docker does not answer.
Answers == {Completed, {}}

NothingMissing(p) ==
  /\ pc[p] = "missing"
  /\ \E completed \in Answers : MissingServices(p, completed) = {} \/ ~CanOffer(p)
  /\ Goto(p, "listen")
  /\ UNCHANGED <<scene, search, tracing, running, net, compose>>

OfferMissing(p) ==
  /\ pc[p] = "missing" /\ CanOffer(p)
  /\ \E completed \in Answers :
       /\ MissingServices(p, completed) # {}
       /\ asked' = [asked EXCEPT ![p] = MissingServices(p, completed)]
  /\ Goto(p, IF Conf(p).start = "ask" THEN "askMissing" ELSE "upMissing")
  /\ UNCHANGED <<scene, search, tracing, running, net, stack, found, replaced, surprise>>

AgreeMissing(p) ==
  /\ pc[p] = "askMissing"
  /\ Goto(p, "upMissing")
  /\ UNCHANGED <<scene, search, tracing, running, net, compose>>

\* No, no Compose command, or an up that fails: what runs is worth watching.
DoWithout(p) ==
  /\ pc[p] \in {"askMissing", "upMissing"}
  /\ Goto(p, "listen")
  /\ UNCHANGED <<scene, search, tracing, running, net, compose>>

\* Mutant: without --no-recreate.
RecreatesMissing(p) ==
  /\ pc[p] = "upMissing"
  /\ ComposeUp(Expected(p), TRUE)
  /\ Goto(p, "awaitMissing")
  /\ UNCHANGED <<scene, search, tracing, running, net, found, asked>>

UpMissing(p) ==
  /\ pc[p] = "upMissing"
  /\ ComposeUp(asked[p], FALSE)
  /\ Goto(p, "awaitMissing")
  /\ UNCHANGED <<scene, search, tracing, running, net, found, asked>>

\* waitForServices, until all are there or the time is over. A discovery that
\* finds nothing at all leaves the list from before the offer.
AwaitMissing(p) ==
  /\ pc[p] = "awaitMissing"
  /\ found' = [found EXCEPT ![p] = IF Up \cap Expected(p) = {} THEN @ ELSE Up \cap Expected(p)]
  /\ Goto(p, "listen")
  /\ UNCHANGED <<scene, search, tracing, running, net, stack, asked, replaced, surprise>>

-----------------------------------------------------------------------------
(* The socket, the receiver's answer, the processes, and the end.          *)

\* api.Listen, a call of the file system at a time. Only a connection tells a
\* live socket from a dead one.
Answered(p) == socket[Conf(p).project] \in listening

ProjectTaken(p) == pc[p] = "listen" /\ Answered(p) /\ Exit(p, "taken")

InListen(d) == {p \in Programs : Conf(p).project = d /\ pc[p] \in Listening}

Enters(p) ==
  /\ Goto(p, "lstat")
  /\ raced' = raced \cup IF InListen(Conf(p).project) = {} THEN {} ELSE {Conf(p).project}
  /\ UNCHANGED <<scene, search, tracing, running, owner, socket, listening, compose>>

\* Mutant: nobody asks whether the socket answers.
ProbesNobody(p) == pc[p] = "listen" /\ Enters(p)

Probes(p) == pc[p] = "listen" /\ ~Answered(p) /\ Enters(p)

FindsStale(p) ==
  /\ pc[p] = "lstat"
  /\ Goto(p, IF socket[Conf(p).project] = Nobody THEN "bindSocket" ELSE "unlink")
  /\ UNCHANGED <<scene, search, tracing, running, net, compose>>

\* Whatever is there by now.
RemovesStale(p) ==
  /\ pc[p] = "unlink" /\ socket[Conf(p).project] # Nobody
  /\ socket' = [socket EXCEPT ![Conf(p).project] = Nobody]
  /\ Goto(p, "bindSocket")
  /\ UNCHANGED <<scene, search, tracing, running, owner, listening, raced, compose>>

BindsSocket(p) ==
  /\ pc[p] = "bindSocket" /\ socket[Conf(p).project] = Nobody
  /\ socket' = [socket EXCEPT ![Conf(p).project] = p]
  /\ listening' = listening \cup {p}
  /\ Goto(p, "chmod")
  /\ UNCHANGED <<scene, search, tracing, running, owner, raced, compose>>

Listens(p) ==
  /\ pc[p] = "chmod" /\ socket[Conf(p).project] # Nobody
  /\ Goto(p, IF told[p] = NoPort THEN "start" ELSE "ready")
  /\ UNCHANGED <<scene, search, tracing, running, net, compose>>

\* What each call fails on: nothing to remove, a file in the way, no file.
ListenFails(p) ==
  /\ pc[p] \in Listening \ {"lstat"} /\ (socket[Conf(p).project] = Nobody <=> pc[p] # "bindSocket")
  /\ Exit(p, "unbound")

\* WaitForReady asks localhost, and the answer has to be a receiver's.
Ready(p) ==
  /\ pc[p] = "ready" /\ told[p] \notin scene.shadowed
  /\ Goto(p, "start")
  /\ UNCHANGED <<scene, search, tracing, running, net, compose>>

NotReady(p) == pc[p] = "ready" /\ told[p] \in scene.shadowed /\ Exit(p, "unready")

StartFails(p) == pc[p] = "start" /\ Exit(p, "start")

Starts(p) ==
  /\ pc[p] = "start"
  /\ running' = IF Names(Conf(p)) = {} THEN running ELSE running \cup {p}
  /\ Goto(p, "serving")
  /\ UNCHANGED <<scene, search, tracing, net, compose>>

\* A goroutine of its own gives the socket up at once; the manager, which has
\* been told as well, stops the processes in its own time.
Signalled(p) ==
  /\ pc[p] = "serving" /\ scene.signals
  /\ Unlink(p)
  /\ Goto(p, "signalled")
  /\ UNCHANGED <<scene, search, tracing, running, owner, compose>>

\* By themselves, or because the manager stops them.
ProcessesEnd(p) ==
  /\ p \in running /\ pc[p] \in {"serving", "signalled", "killed"}
  /\ running' = running \ {p}
  /\ UNCHANGED <<scene, pc, why, search, tracing, net, compose>>

\* manager.Wait, and for a stack alone a signal.
HeadlessEnds(p) == pc[p] \in {"serving", "signalled"} /\ ~Conf(p).tui /\ p \notin running /\ Done(p)

Quit(p) ==
  /\ pc[p] = "serving" /\ Conf(p).tui
  /\ Goto(p, "stopping")
  /\ UNCHANGED <<scene, search, tracing, running, net, compose>>

\* manager.Stop and Wait. A signal ends the terminal interface as well.
Stops(p) ==
  /\ pc[p] = "stopping" \/ (pc[p] = "signalled" /\ Conf(p).tui)
  /\ running' = running \ {p}
  /\ Goto(p, "stopped")
  /\ UNCHANGED <<scene, search, tracing, net, compose>>

ReceiverStops(p) ==
  /\ pc[p] = "stopped"
  /\ FreePorts(p)
  /\ Goto(p, "silent")
  /\ UNCHANGED <<scene, search, tracing, running, socket, listening, raced, compose>>

Returns(p) == pc[p] = "silent" /\ Done(p)

\* SIGKILL: the processes stay.
Killed(p) ==
  /\ pc[p] \notin {"off"} \cup Over
  /\ Cardinality({q \in Programs : pc[q] = "killed"}) < scene.kills
  /\ Goto(p, "killed") /\ FreePorts(p) /\ Abandon(p)
  /\ UNCHANGED <<scene, search, tracing, running, compose>>

\* A container of the stack.
ComesUp(s) ==
  /\ stack[s] = "coming"
  /\ \/ /\ stack' = [stack EXCEPT ![s] = "up"]
        /\ surprise' = surprise \cup IF Offering = {} THEN {} ELSE {s}
     \/ stack' = [stack EXCEPT ![s] = "failed"] /\ UNCHANGED surprise
  /\ UNCHANGED <<scene, pc, why, search, tracing, running, net, found, asked, replaced>>

Completes(s) ==
  /\ stack[s] = "up" /\ s \in scene.oneshot
  /\ stack' = [stack EXCEPT ![s] = "done"]
  /\ UNCHANGED <<scene, pc, why, search, tracing, running, net, found, asked, replaced, surprise>>

\* The developer starts the stack at another terminal.
DeveloperStarts ==
  /\ scene.tinkering
  /\ \A s \in Services : stack[s] = "down"
  /\ stack' = [s \in Services |-> "coming"]
  /\ UNCHANGED <<scene, pc, why, search, tracing, running, net, found, asked, replaced, surprise>>

-----------------------------------------------------------------------------

Check(p) == LoadRefuses(p) \/ Load(p) \/ SearchFrom(p) \/ SearchSkips(p) \/ SearchDescends(p) \/ SearchCloses(p)
            \/ SearchReturns(p) \/ DependenciesRefused(p) \/ DependenciesAccepted(p)

Bind(p) == NoTracing(p) \/ Binds(p) \/ MovesAside(p) \/ BindingFails(p) \/ GivesUpTracing(p)

Look(p) == ComposeFails(p) \/ Discover(p) \/ OfferFails(p) \/ Offer(p) \/ UpFails(p) \/ UpAll(p) \/ Await(p) \/ AwaitTimesOut(p)
           \/ NothingMissing(p) \/ OfferMissing(p) \/ (pc[p] = "upMissing" /\ DoWithout(p)) \/ UpMissing(p) \/ AwaitMissing(p)

Own(p) == ProjectTaken(p) \/ Probes(p) \/ FindsStale(p) \/ RemovesStale(p) \/ BindsSocket(p) \/ Listens(p) \/ ListenFails(p)

Serve(p) == Own(p) \/ Ready(p) \/ NotReady(p) \/ StartFails(p) \/ Starts(p)

End(p) == Stops(p) \/ ReceiverStops(p) \/ Returns(p)

Step(p) == Check(p) \/ Bind(p) \/ Look(p) \/ Serve(p) \/ End(p)

Answer(p) == Agree(p) \/ Decline(p) \/ AgreeMissing(p) \/ (pc[p] = "askMissing" /\ DoWithout(p))

Next == \/ \E p \in Programs : Begin(p) \/ Step(p) \/ Answer(p) \/ ProcessesEnd(p) \/ HeadlessEnds(p) \/ Quit(p)
             \/ Signalled(p) \/ Killed(p)
        \/ \E s \in Services : ComesUp(s) \/ Completes(s)
        \/ DeveloperStarts

Spec     == Init /\ [][Next]_vars
FairSpec == Spec /\ \A p \in Programs : WF_vars(Step(p))

-----------------------------------------------------------------------------

\* What awaitDependencies waits for can come about: whatever set of processes
\* is waiting, one of them waits for none of the set, and everything else it
\* names is a process with a healthcheck or a service that composeReadiness
\* has a check for. Names are resolved as at run time, processes first.
CanStart(c) ==
  \A S \in SUBSET Names(c) : S # {} => \E p \in S : \A d \in ToSet(c.deps[p]) :
    IF d \in Names(c) THEN d \notin S /\ d \in c.checked \ c.recurring
                      ELSE d \in Active(c) \cap (WithHealthcheck(c) \cup c.declared)

\* ValidateDependencies lets no configuration pass in which a process would
\* wait for ever, or for something that nothing reports as ready.
AcceptedCanStart ==
  \A p \in Programs : pc[p] \in Preparing \cup Prompting \cup Serving /\ ~Conf(p).commands => CanStart(Conf(p))

\* A refused graph has a fault: it cannot start, or says something twice,
\* something ambiguous, or something that would never be used.
RefusedForCause ==
  \A p \in Programs : why[p] = "dependencies" =>
    LET c == Conf(p) IN
    \/ ~CanStart(c)
    \/ \E n \in Names(c) : ~IsInjective(c.deps[n]) \/ ToSet(c.deps[n]) \cap Names(c) \cap Active(c) # {}
    \/ c.recurring \cap c.checked # {}
    \/ c.declared \cap WithHealthcheck(c) # {} \/ ~(c.declared \subseteq DOMAIN Merged(c))

\* The cycle that findCycle reports is one: it ends where it starts, and each
\* process in it lists the next.
CycleIsReal ==
  \A p \in Programs : LET cycle == search[p].cycle IN cycle # <<>> =>
    /\ Len(cycle) > 2 /\ cycle[1] = Last(cycle)
    /\ \A i \in 1..Len(cycle) - 1 : cycle[i + 1] \in ToSet(Conf(p).deps[cycle[i]])
    /\ IsInjective(Tail(cycle))

\* ValidateDependencies accepts and refuses exactly what it should.
ValidationSound == AcceptedCanStart /\ RefusedForCause /\ CycleIsReal

\* While the processes of a program run, the port they were told is that of
\* the program's own receiver: it moved aside before they started, and quits
\* after them.
OwnReceiver ==
  \A p \in running : pc[p] # "killed" /\ told[p] # NoPort => owner[told[p]] = p

\* A port that somebody named is the one that is bound.
NamedStays == \A p \in Programs : PortNamed(Conf(p)) => told[p] \in {NoPort, FirstPort(Conf(p))}

\* Tracing that nobody asked for ends no program, except by a receiver that
\* is bound and cannot be reached.
UnaskedIsHarmless ==
  \A p \in Programs : why[p] \in {"port", "unready"} =>
    Requested(Conf(p)) \/ (why[p] = "unready" /\ told[p] \in scene.shadowed)

\* The ports are those that were asked for, and those that were told.
PortsSound == TypeOK /\ OwnReceiver /\ NamedStays /\ UnaskedIsHarmless

\* Two programs, neither of which has been killed and left its processes behind
\* or is still stopping them after a signal, run those of one project.
Duplicated(d) ==
  \E p, q \in running : p # q /\ d = Conf(p).project /\ d = Conf(q).project /\ {"killed", "signalled"} \cap {pc[p], pc[q]} = {}

\* No two programs run the processes of one project, unless two have been in
\* api.Listen of it at once: a probe that finds nobody, a stale file removed and
\* a socket bound is enough for programs that come one after the other, however
\* the earlier one went.
NoDuplicate == \A d \in Projects : Duplicated(d) => d \in raced

\* A project that already has an instance refuses the second. Violated: both
\* have probed before either binds, and the later removes the socket of the
\* earlier, which serves on.
OneInstance == \A d \in Projects : ~Duplicated(d)

\* A running container is replaced only if it came up after a program had
\* found the whole stack down, and before it started the stack.
ReplacesOnlySurprises == replaced \subseteq surprise

\* Every boot is decided: the program serves, has ended, or waits for an answer.
Undecided(p) == pc[p] \in Checking \cup Preparing

BootEnds == \A p \in Programs : Undecided(p) ~> ~Undecided(p)
=============================================================================
