---------------------------- MODULE Dependencies ----------------------------
(***************************************************************************)
(* What running-man.yml says and what the program reads out of it: the     *)
(* Compose services that profiles leave, the objections of                 *)
(* ValidateDependencies, the search of findCycle one step at a time, and   *)
(* how tracing was asked for. A configuration c is a record:               *)
(*   order, deps       the processes in order; the names each depends on   *)
(*   recurring, checked  those with an interval; those with a healthcheck  *)
(*   commands          --process flags replace the processes of the file   *)
(*   files, profiles   the Compose files, each a function from services to *)
(*                     [profiles, check]; the active profiles              *)
(*   declared          docker_compose.healthchecks                         *)
(*   start, terminal   docker_compose.start; somebody can answer a prompt  *)
(*   flag, enabled     --tracing and tracing.enabled: "yes", "no", "unset" *)
(*   portFlag, port    --tracing-port and tracing.port: NoPort is unset    *)
(*   project, tui      the project's directory; not --no-tui               *)
(***************************************************************************)
EXTENDS SequencesExt

CONSTANTS
  DefaultPort,  \* 4318
  NoPort

Names(c) == ToSet(c.order)

\* Config.Validate, as far as the rest depends on it.
Valid(c) == IsInjective(c.order) /\ (c.order # <<>> \/ c.files # <<>>)

-----------------------------------------------------------------------------
(* The Compose stack. *)

\* A service that two files define is the one of the later file, all of it.
Merged(c) == FoldLeft(LAMBDA merged, file : file @@ merged, <<>>, c.files)

Active(c) == {s \in DOMAIN Merged(c) : LET gates == Merged(c)[s].profiles
                                       IN gates = {} \/ gates \cap c.profiles # {}}

WithHealthcheck(c) == {s \in DOMAIN Merged(c) : Merged(c)[s].check}

-----------------------------------------------------------------------------
(* ValidateDependencies. *)

\* Nothing says when d is ready, or two things do.
Unusable(c, d) ==
  \/ d \in Names(c) /\ (d \in Active(c) \cup c.recurring \/ d \notin c.checked)
  \/ d \in Active(c) \ (Names(c) \cup WithHealthcheck(c) \cup c.declared)
  \/ d \notin Names(c) \cup Active(c)

Objections(c) ==
  {<<"healthcheck", p>> : p \in c.recurring \cap c.checked} \cup
  {<<"depends_on", p>> : p \in {p \in Names(c) :
     \/ ~IsInjective(c.deps[p])
     \/ \E d \in ToSet(c.deps[p]) : d = p \/ Unusable(c, d)}} \cup
  {<<"healthchecks", s>> : s \in c.declared \cap WithHealthcheck(c)} \cup
  {<<"healthchecks", s>> : s \in c.declared \ DOMAIN Merged(c)}

-----------------------------------------------------------------------------
(* findCycle. A frame is a call of visit: the process, and what is left of *)
(* its depends_on. The frames' processes are the code's path.              *)

Frame(c, n) == [at |-> n, left |-> c.deps[n]]

NewSearch(c) == [roots |-> c.order, frames |-> <<>>, cycle |-> <<>>,
                 mark |-> [n \in Names(c) |-> "unvisited"]]

Path(s) == [i \in DOMAIN s.frames |-> s.frames[i].at]

\* What the innermost call looks at, and the search that has passed it.
Looking(s) == s.frames # <<>> /\ Last(s.frames).left # <<>>
Seen(s)    == Head(Last(s.frames).left)
Passed(s)  == [s EXCEPT !.frames[Len(s.frames)].left = Tail(@)]

\* A process, and not the self-dependency that is reported anyway.
Followed(c, s) == Seen(s) \in Names(c) \ {Last(s.frames).at}

Visit(c, s, n) == [s EXCEPT !.frames = Append(@, Frame(c, n)), !.mark[n] = "visiting"]

\* visit returns nil.
Leave(s) == [s EXCEPT !.frames = Front(@), !.mark[Last(s.frames).at] = "done"]

\* The end of the path, from d on.
CycleOf(s, d) ==
  LET start == CHOOSE i \in DOMAIN Path(s) : Path(s)[i] = d
  IN SubSeq(Path(s), start, Len(s.frames)) \o <<d>>

-----------------------------------------------------------------------------
(* Tracing: whether it is on, whether somebody asked, and for which port.  *)

Requested(c)   == c.flag # "unset" \/ c.enabled # "unset" \/ c.portFlag # NoPort \/ c.port # NoPort
PortNamed(c)   == c.portFlag # NoPort \/ c.port # NoPort
Enabled(c)     == c.flag # "no" /\ c.enabled # "no"
FirstPort(c)   == CASE c.portFlag # NoPort -> c.portFlag
                    [] c.portFlag = NoPort /\ c.port # NoPort -> c.port
                    [] OTHER -> DefaultPort
=============================================================================
