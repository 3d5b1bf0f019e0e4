------------------------------ MODULE Instance ------------------------------
(***************************************************************************)
(* One project and the runs of running-man in it: who owns the API socket, *)
(* and what each run leaves under .running-man. A step is one call of the  *)
(* file system or the kernel, since the runs share nothing else. Every run *)
(* has two threads: main, and the goroutine that main leaves waiting for a *)
(* signal and that cleans up while main is still shutting down.            *)
(* The socket is the one inside the project, not the hashed fallback path. *)
(***************************************************************************)
EXTENDS FiniteSets, Naturals

CONSTANTS
  Runs,     \* runs of running-man in this project
  Earlier,  \* a run that was killed before any of them began
  NoRun

ASSUME OwnersAssumption ==
  /\ Earlier \notin Runs /\ NoRun \notin Runs \cup {Earlier}
  /\ {"gitignore", "traces", "crash"} \cap (Runs \cup {Earlier}) = {}

VARIABLES
  dir,       \* .running-man exists
  entries,   \* what it holds besides the socket and the marker; a run stands
             \* for the temporary file its marker is written to
  socket,    \* the run whose socket is at the path
  marker,    \* the run that instance.json describes
  listening, \* the runs with an open listener
  reported,  \* crash.log holds a report
  main,      \* program counter of each run
  handler,   \* program counter of its signal goroutine
  closed,    \* the runs that have closed their listener: it unlinks only once
  crashLog,  \* the runs that have set crashLogPath
  lost,      \* history: a report has been removed
  raced,     \* history: two runs were in api.Listen at once
  crossed    \* history: a run was starting while another was leaving

files   == <<dir, entries, socket, marker, reported>>
history == <<lost, raced, crossed>>
vars    == <<dir, entries, socket, marker, listening, reported, main, handler, closed, crashLog, lost, raced, crossed>>

Owners == Runs \cup {Earlier, NoRun}

Listening == {"probe", "lstat", "unlink", "bind", "chmod"}
Starting  == {"ignore", "traces", "mkdir", "start", "write", "temp", "rename"} \cup Listening
Cleanup   == {"close", "stat", "crash", "marker", "list", "gitignore", "rmdir"}
Ended     == {"exited", "refused", "unbound", "failed", "killed"}

TypeOK ==
  /\ dir \in BOOLEAN /\ reported \in BOOLEAN
  /\ entries \subseteq {"gitignore", "traces", "crash", Earlier} \cup Runs
  /\ socket \in Owners /\ marker \in Owners
  /\ listening \subseteq Runs /\ closed \subseteq Runs /\ crashLog \subseteq Runs
  /\ main \in [Runs -> {"off", "up"} \cup Starting \cup Cleanup \cup Ended]
  /\ handler \in [Runs -> {"off", "waiting", "done"} \cup Cleanup]
  /\ lost \in BOOLEAN /\ raced \in BOOLEAN /\ crossed \in BOOLEAN

\* The project is fresh, or a killed run has left its files in it.
Init ==
  /\ \/ dir = FALSE /\ entries = {} /\ socket = NoRun /\ marker = NoRun
     \/ /\ dir = TRUE /\ entries \in {{"gitignore"}, {"gitignore", "traces"}, {"gitignore", Earlier}}
        /\ socket = Earlier /\ marker \in {Earlier, NoRun}
  /\ reported = FALSE
  /\ listening = {} /\ closed = {} /\ crashLog = {}
  /\ main = [r \in Runs |-> "off"] /\ handler = [r \in Runs |-> "off"]
  /\ lost = FALSE /\ raced = FALSE /\ crossed = FALSE

-----------------------------------------------------------------------------

\* From the signal, or from the end of run(), until the run has gone.
Leaving(r) == main[r] \in Cleanup \/ handler[r] \in Cleanup \cup {"done"}

\* Both histories are brought up to date by every step of a thread.
Note ==
  /\ raced' = (raced \/ \E r, s \in Runs : r # s /\ main'[r] \in Listening /\ main'[s] \in Listening)
  /\ crossed' = (crossed \/ \E r, s \in Runs : r # s /\ main'[r] \in Starting /\ Leaving(s)')

Goto(r, pc) == main' = [main EXCEPT ![r] = pc] /\ UNCHANGED handler /\ Note

\* A run that has ended takes its goroutine and its listener with it; the
\* socket's file stays, since only Close unlinks it.
Gone(r, how) ==
  /\ main' = [main EXCEPT ![r] = how]
  /\ handler' = [handler EXCEPT ![r] = "off"]
  /\ listening' = listening \ {r}
  /\ Note

Begin(r) ==
  /\ main[r] = "off"
  /\ \E pc \in {"ignore", "mkdir"} : Goto(r, pc)   \* with or without persist_spans
  /\ UNCHANGED <<files, listening, closed, crashLog, lost>>

\* attachSpanDisk: .gitignore first, then the traces directory. A directory
\* that a leaving run has removed in between costs persistence, nothing else.
IgnoreTraces(r) ==
  /\ main[r] = "ignore"
  /\ dir' = TRUE /\ entries' = entries \cup {"gitignore"}
  /\ Goto(r, "traces")
  /\ UNCHANGED <<socket, marker, reported, listening, closed, crashLog, lost>>

OpenTraces(r) ==
  /\ main[r] = "traces"
  /\ dir' = TRUE /\ entries' = entries \cup {"traces"}
  /\ Goto(r, "mkdir")
  /\ UNCHANGED <<socket, marker, reported, listening, closed, crashLog, lost>>

\* api.Listen
MakeDir(r) ==
  /\ main[r] = "mkdir"
  /\ dir' = TRUE
  /\ Goto(r, "probe")
  /\ UNCHANGED <<entries, socket, marker, reported, listening, closed, crashLog, lost>>

\* Only a connection tells a live socket from a dead one.
Live == socket \in listening

\* Mutant: nobody asks whether the socket answers.
ProbesNobody(r) ==
  /\ main[r] = "probe"
  /\ Goto(r, "lstat")
  /\ UNCHANGED <<files, listening, closed, crashLog, lost>>

Probe(r) ==
  /\ main[r] = "probe"
  /\ ~Live
  /\ Goto(r, "lstat")
  /\ UNCHANGED <<files, listening, closed, crashLog, lost>>

Refuse(r) ==
  /\ main[r] = "probe"
  /\ Live
  /\ Gone(r, "refused")
  /\ UNCHANGED <<files, closed, crashLog, lost>>

FindStale(r) ==
  /\ main[r] = "lstat"
  /\ Goto(r, IF socket = NoRun THEN "bind" ELSE "unlink")
  /\ UNCHANGED <<files, listening, closed, crashLog, lost>>

RemoveStale(r) ==
  /\ main[r] = "unlink" /\ socket # NoRun
  /\ socket' = NoRun
  /\ Goto(r, "bind")
  /\ UNCHANGED <<dir, entries, marker, reported, listening, closed, crashLog, lost>>

Bind(r) ==
  /\ main[r] = "bind" /\ dir /\ socket = NoRun
  /\ socket' = r /\ listening' = listening \cup {r}
  /\ Goto(r, "chmod")
  /\ UNCHANGED <<dir, entries, marker, reported, closed, crashLog, lost>>

Chmod(r) ==
  /\ main[r] = "chmod" /\ socket # NoRun
  /\ Goto(r, "start")
  /\ UNCHANGED <<files, listening, closed, crashLog, lost>>

\* What each call of Listen fails on; os.Exit follows. No file is at the path
\* when Chmod fails, so that closing the listener unlinks nothing.
ListenFails(r) ==
  /\ \/ main[r] = "unlink" /\ socket = NoRun
     \/ main[r] = "bind" /\ ~(dir /\ socket = NoRun)
     \/ main[r] = "chmod" /\ socket = NoRun
  /\ Gone(r, "unbound")
  /\ UNCHANGED <<files, closed, crashLog, lost>>

\* WaitForReady and Manager.Start: on an error run() exits and cleans up
\* nothing.
Start(r) ==
  /\ main[r] = "start"
  /\ \/ Goto(r, "write") /\ UNCHANGED listening
     \/ Gone(r, "failed")
  /\ UNCHANGED <<files, closed, crashLog, lost>>

\* Marker.Write: the directory and .gitignore, a temporary file, and a rename.
\* An error is reported and run() goes on without a marker.
Armed(r) == [handler EXCEPT ![r] = "waiting"]

Up(r) == main' = [main EXCEPT ![r] = "up"] /\ handler' = Armed(r) /\ Note

WriteIgnore(r) ==
  /\ main[r] = "write"
  /\ dir' = TRUE /\ entries' = entries \cup {"gitignore"}
  /\ Goto(r, "temp")
  /\ UNCHANGED <<socket, marker, reported, listening, closed, crashLog, lost>>

WriteTemp(r) ==
  /\ main[r] = "temp"
  /\ IF dir THEN entries' = entries \cup {r} /\ Goto(r, "rename")
            ELSE UNCHANGED entries /\ Up(r)
  /\ UNCHANGED <<dir, socket, marker, reported, listening, closed, crashLog, lost>>

\* Mutant: the marker is linked into place, not renamed over an old one.
LinkMarker(r) ==
  /\ main[r] = "rename"
  /\ entries' = entries \ {r} /\ marker' = IF marker = NoRun THEN r ELSE marker
  /\ Up(r)
  /\ UNCHANGED <<dir, socket, reported, listening, closed, crashLog, lost>>

InstallMarker(r) ==
  /\ main[r] = "rename"
  /\ entries' = entries \ {r} /\ marker' = r
  /\ Up(r)
  /\ UNCHANGED <<dir, socket, reported, listening, closed, crashLog, lost>>

\* The TUI opens crash.log at once, and appends to it when something panics.
Launch(r) ==
  /\ main[r] = "up" /\ r \notin crashLog
  /\ crashLog' = crashLog \cup {r}
  /\ dir' = TRUE /\ entries' = entries \cup {"crash"}
  /\ UNCHANGED <<socket, marker, reported, listening, main, handler, closed, history>>

Panic(r) ==
  /\ main[r] = "up" /\ r \in crashLog /\ dir
  /\ entries' = entries \cup {"crash"} /\ reported' = TRUE
  /\ UNCHANGED <<dir, socket, marker, listening, main, handler, closed, crashLog, history>>

\* run() is over: the deferred or the explicit removeMarker.
Leave(r) ==
  /\ main[r] = "up"
  /\ Goto(r, "close")
  /\ UNCHANGED <<files, listening, closed, crashLog, lost>>

Signal(r) ==
  /\ handler[r] = "waiting"
  /\ handler' = [handler EXCEPT ![r] = "close"] /\ UNCHANGED main /\ Note
  /\ UNCHANGED <<files, listening, closed, crashLog, lost>>

-----------------------------------------------------------------------------
(* removeMarker, by main or by the signal goroutine.                       *)

Threads == {"main", "handler"}
At(r, t) == IF t = "main" THEN main[r] ELSE handler[r]

Step(r, t, pc) ==
  /\ IF t = "main" THEN main' = [main EXCEPT ![r] = pc] /\ UNCHANGED handler
                   ELSE handler' = [handler EXCEPT ![r] = pc] /\ UNCHANGED main
  /\ Note

\* Mutant: only the descriptor is closed.
CloseKeepsPath(r, t) ==
  /\ At(r, t) = "close"
  /\ listening' = listening \ {r} /\ closed' = closed \cup {r}
  /\ Step(r, t, IF r \in crashLog THEN "stat" ELSE "marker")
  /\ UNCHANGED <<files, crashLog, lost>>

\* The first Close unlinks the path, whoever's socket is there by now.
Close(r, t) ==
  /\ At(r, t) = "close"
  /\ socket' = IF r \in closed THEN socket ELSE NoRun
  /\ listening' = listening \ {r} /\ closed' = closed \cup {r}
  /\ Step(r, t, IF r \in crashLog THEN "stat" ELSE "marker")
  /\ UNCHANGED <<dir, entries, marker, reported, crashLog, lost>>

\* removeCrashLogIfEmpty looks first and removes then.
StatCrashLog(r, t) ==
  /\ At(r, t) = "stat"
  /\ Step(r, t, IF "crash" \in entries /\ ~reported THEN "crash" ELSE "marker")
  /\ UNCHANGED <<files, listening, closed, crashLog, lost>>

RemoveCrashLog(r, t) ==
  /\ At(r, t) = "crash"
  /\ entries' = entries \ {"crash"} /\ reported' = FALSE /\ lost' = (lost \/ reported)
  /\ Step(r, t, "marker")
  /\ UNCHANGED <<dir, socket, marker, listening, closed, crashLog>>

RemoveMarker(r, t) ==
  /\ At(r, t) = "marker"
  /\ marker' = NoRun
  /\ Step(r, t, "list")
  /\ UNCHANGED <<dir, entries, socket, reported, listening, closed, crashLog, lost>>

ListDir(r, t) ==
  /\ At(r, t) = "list"
  /\ Step(r, t, IF dir /\ entries = {"gitignore"} /\ socket = NoRun /\ marker = NoRun THEN "gitignore" ELSE "rmdir")
  /\ UNCHANGED <<files, listening, closed, crashLog, lost>>

RemoveIgnore(r, t) ==
  /\ At(r, t) = "gitignore"
  /\ entries' = entries \ {"gitignore"}
  /\ Step(r, t, "rmdir")
  /\ UNCHANGED <<dir, socket, marker, reported, listening, closed, crashLog, lost>>

\* A directory that is not empty stays. When main gets here the run is over.
RemoveDir(r, t) ==
  /\ At(r, t) = "rmdir"
  /\ dir' = (entries # {} \/ socket # NoRun \/ marker # NoRun)
  /\ IF t = "main" THEN Gone(r, "exited") ELSE Step(r, t, "done") /\ UNCHANGED listening
  /\ UNCHANGED <<entries, socket, marker, reported, closed, crashLog, lost>>

-----------------------------------------------------------------------------

\* SIGKILL, a crash, or a signal that nobody has asked for yet.
Kill(r) ==
  /\ main[r] \notin Ended \cup {"off"}
  /\ Gone(r, "killed")
  /\ UNCHANGED <<files, closed, crashLog, lost>>

StartUp(r) ==
  \/ Begin(r) \/ IgnoreTraces(r) \/ OpenTraces(r) \/ MakeDir(r) \/ Probe(r) \/ Refuse(r) \/ FindStale(r)
  \/ RemoveStale(r) \/ Bind(r) \/ Chmod(r) \/ ListenFails(r) \/ Start(r)
  \/ WriteIgnore(r) \/ WriteTemp(r) \/ InstallMarker(r)

CleanUp(r, t) ==
  \/ Close(r, t) \/ StatCrashLog(r, t) \/ RemoveCrashLog(r, t) \/ RemoveMarker(r, t)
  \/ ListDir(r, t) \/ RemoveIgnore(r, t) \/ RemoveDir(r, t)

Next == \E r \in Runs :
  \/ StartUp(r) \/ Launch(r) \/ Panic(r) \/ Leave(r) \/ Signal(r) \/ Kill(r)
  \/ \E t \in Threads : CleanUp(r, t)

Spec == Init /\ [][Next]_vars

-----------------------------------------------------------------------------

\* ErrInstanceLive: as long as no two runs were inside api.Listen at once, a
\* project has one listener, and it is the one that its path leads to.
OneOwner ==
  ~raced => \A r, s \in listening : r = s /\ socket = r

\* "One abrupt exit would otherwise make the project unstartable": whatever a
\* killed run has left, a start that meets no other start and no run that is
\* leaving gets its socket.
AloneBinds ==
  ~raced /\ ~crossed => \A r \in Runs : main[r] # "unbound"

\* Span contents "must never be committed by accident": the traces directory
\* is never there without its .gitignore.
TracesIgnored ==
  ~crossed => ("traces" \in entries => "gitignore" \in entries)

\* What a run that has not ended may rely on.
StartSound == TypeOK /\ OneOwner /\ AloneBinds /\ TracesIgnored

Settled(r) == main[r] = "up" /\ handler[r] = "waiting"

\* "While an instance is running, .running-man/instance.json exists", and it
\* tells of that instance.
MarkerWhileRunning ==
  ~raced => \A r \in Runs : Settled(r) => marker = r

\* It does, unless a run has started while another was still leaving.
MarkerUnlessCrossed == ~crossed => MarkerWhileRunning

\* "A marker outliving its instance points an agent at a dead API": whatever
\* the other runs do meanwhile, a run that ends in order leaves neither its
\* marker nor its socket.
NothingOutlives ==
  \A r \in Runs : main[r] = "exited" => marker # r /\ socket # r

\* "A clean exit leaves no trace": when all runs have ended in order, and no
\* saved traces, report or temporary file of a killed run are left to keep,
\* the directory has gone as well.
LastOneCleans ==
  /\ \E r \in Runs : main[r] = "exited"
  /\ \A r \in Runs : main[r] \in {"off", "refused", "exited"}
  /\ ~lost
  => /\ socket = NoRun /\ marker = NoRun
     /\ "crash" \in entries => reported
     /\ entries \subseteq {"gitignore"} => ~dir

\* Runs that end in order tidy up, each after itself and the last for all.
LeavesNothing == NothingOutlives /\ LastOneCleans
=============================================================================
