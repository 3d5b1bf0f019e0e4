----------------------------- MODULE BootProofs -----------------------------
(***************************************************************************)
(* What a boot promises for any programs, ports, stacks and configurations.*)
(* The invariants, each of which builds on the types:                      *)
(*   SearchInv   what findCycle knows of the processes it has seen, and    *)
(*   GateInv     what follows for whoever got past it, or not;             *)
(*   HoldsInv    the port a program holds where it stands;                 *)
(*   SocketInv, RunningInv   its project's socket and its processes;       *)
(*   DownInv     what runs of a stack that is being offered.               *)
(***************************************************************************)
EXTENDS Boot, TLAPS

-----------------------------------------------------------------------------
(* Types, with those that the runs' TypeOK leaves out.                     *)

Places == {"off"} \cup Checking \cup Preparing \cup Prompting \cup Serving \cup Over

Reasons == {"none", "config", "dependencies", "port", "services", "docker", "stack", "taken", "unbound",
            "unready", "start", "done"}

SceneInv ==
  /\ scene \in Scenes
  /\ pc \in [Programs -> Places] /\ why \in [Programs -> Reasons]
  /\ running \subseteq Programs

TracingTypes ==
  /\ tries \in [Programs -> 0 .. SearchRange]
  /\ told \in [Programs -> Ports \cup {NoPort}]

NetTypes ==
  /\ owner \in [Ports -> Programs \cup {Nobody, Foreign}]
  /\ socket \in [Projects -> Programs \cup {Nobody}]
  /\ listening \subseteq Programs /\ raced \subseteq Projects

ComposeTypes ==
  /\ stack \in [Services -> {"down", "coming", "up", "done", "failed"}]
  /\ found \in [Programs -> SUBSET Services]
  /\ asked \in [Programs -> SUBSET UNION {Active(Conf(p)) : p \in Programs}]
  /\ replaced \subseteq Services /\ surprise \subseteq Services

Typed == SceneInv /\ TracingTypes /\ NetTypes /\ ComposeTypes

-----------------------------------------------------------------------------
(* findCycle, of one configuration. *)

Needs(c, n) == ToSet(c.deps[n])

Calls(c) == [at : Names(c), left : Seq(UNION {Needs(c, n) : n \in Names(c)})]

SearchTypes(c, s) ==
  /\ s = [roots |-> s.roots, frames |-> s.frames, cycle |-> s.cycle, mark |-> s.mark]
  /\ s.roots \in Seq(Names(c)) /\ s.frames \in Seq(Calls(c))
  /\ s.mark \in [Names(c) -> {"unvisited", "visiting", "done"}]

\* The calls are a path through the graph, of the processes being visited.
PathInv(c, s) ==
  /\ \A i \in DOMAIN s.frames : ToSet(s.frames[i].left) \subseteq Needs(c, s.frames[i].at)
  /\ \A i, j \in DOMAIN s.frames : s.frames[i].at = s.frames[j].at => i = j
  /\ \A i \in DOMAIN s.frames : i + 1 \in DOMAIN s.frames => s.frames[i + 1].at \in Needs(c, s.frames[i].at)
  /\ \A n \in Names(c) : s.mark[n] = "visiting" <=> \E i \in DOMAIN s.frames : s.frames[i].at = n

\* What a process being visited depends on is done, but for what it has yet to
\* look at, for the process that is being visited on its behalf, and for E.
PassedBut(c, s, E) ==
  \A i \in DOMAIN s.frames : \A d \in Needs(c, s.frames[i].at) \cap Names(c) :
    \/ d \in ToSet(s.frames[i].left) \cup {s.frames[i].at}
    \/ s.mark[d] = "done"
    \/ i + 1 \in DOMAIN s.frames /\ d = s.frames[i + 1].at
    \/ i = Len(s.frames) /\ d \in E

PassedInv(c, s) == PassedBut(c, s, {})

Unseen(c, s) == \A n \in Names(c) : s.mark[n] = "unvisited" => n \in ToSet(s.roots)

DoneOf(c, s) == {n \in Names(c) : s.mark[n] = "done"}

\* Dependencies lead from done processes to done processes, and of any set of
\* these one depends on none of the set, itself apart.
DoneInv(c, s) ==
  /\ \A n \in DoneOf(c, s) : Needs(c, n) \cap Names(c) \subseteq DoneOf(c, s) \cup {n}
  /\ \A S \in SUBSET DoneOf(c, s) : S # {} => \E n \in S : Needs(c, n) \cap S \subseteq {n}

RealCycle(c, cycle) ==
  /\ cycle \in Seq(Names(c)) /\ Len(cycle) > 2
  /\ cycle[1] = Last(cycle)
  /\ \A i \in 1 .. Len(cycle) - 1 : cycle[i + 1] \in Needs(c, cycle[i])
  /\ IsInjective(Tail(cycle))

SearchSound(c, s) ==
  /\ SearchTypes(c, s) /\ PathInv(c, s) /\ PassedInv(c, s) /\ Unseen(c, s) /\ DoneInv(c, s)
  /\ s.cycle # <<>> => RealCycle(c, s.cycle)

SearchInv == \A p \in Programs : SearchSound(Conf(p), search[p])

\* search is a function on the programs.
SearchMap == search = [p \in Programs |-> search[p]]

\* What a search that is over has shown.
GateInv ==
  \A p \in Programs :
    /\ pc[p] \in Preparing \cup Prompting \cup Serving /\ ~Conf(p).commands =>
         Objections(Conf(p)) = {} /\ DoneOf(Conf(p), search[p]) = Names(Conf(p))
    /\ why[p] = "dependencies" => Objections(Conf(p)) # {} \/ search[p].cycle # <<>>

ValidationInv == SearchMap /\ SearchInv /\ GateInv

-----------------------------------------------------------------------------
(* What a program holds. *)

Unbound == {"off", "load", "search", "bind"}
Holds   == (Preparing \cup Prompting \cup {"serving", "signalled", "stopping", "stopped"}) \ {"bind"}
Serves  == {"chmod", "ready", "start", "serving", "stopping"}
Hears   == Serves \cup {"stopped", "silent"}

Bound(p) ==
  /\ pc[p] \in Unbound => told[p] = NoPort
  /\ pc[p] \in Holds /\ told[p] # NoPort => owner[told[p]] = p
  /\ pc[p] = "ended" <=> why[p] # "none"
  /\ pc[p] \in Unbound \ {"bind"} => tries[p] = 0

Named(p) == PortNamed(Conf(p)) => tries[p] = 0 /\ told[p] \in {NoPort, FirstPort(Conf(p))}

Excused(p) == /\ why[p] = "port" => Requested(Conf(p))
              /\ why[p] = "unready" => told[p] \in scene.shadowed

HoldsInv == \A p \in Programs : Bound(p) /\ Named(p) /\ Excused(p)

\* The listeners are those who have bound and not yet left; unless two have
\* raced, who listens has its file at the path, and there is nobody else.
SocketInv ==
  /\ \A p \in listening : pc[p] \in Hears
  /\ \A p \in Programs : pc[p] \in Serves => p \in listening
  /\ \A p \in listening : Conf(p).project \notin raced => socket[Conf(p).project] = p
  /\ \A p, q \in Programs :
       p # q /\ Conf(p).project = Conf(q).project /\ Conf(p).project \notin raced /\ pc[p] \in Listening
         => pc[q] \notin Listening /\ q \notin listening

RunningInv == \A p \in running : pc[p] \in {"serving", "signalled", "stopping", "killed"}

\* A stack that is being offered was found down: what runs of it came up since.
DownInv ==
  /\ \A p \in Offering : Up \cap Expected(p) \subseteq surprise
  /\ replaced \subseteq surprise

-----------------------------------------------------------------------------
(* The steps of the search. *)

LEMMA Taken ==
  ASSUME NEW S, NEW q \in Seq(S), q # <<>>
  PROVE  /\ Head(q) \in S /\ Tail(q) \in Seq(S)
         /\ ToSet(q) = {Head(q)} \cup ToSet(Tail(q))
<1>1. Len(q) \in Nat /\ Len(q) > 0 /\ DOMAIN q = 1 .. Len(q)
  OBVIOUS
<1>2. Head(q) = q[1] /\ Head(q) \in S
  BY <1>1
<1>3. /\ Tail(q) \in Seq(S) /\ DOMAIN Tail(q) = 1 .. Len(q) - 1
      /\ \A i \in 1 .. Len(q) - 1 : Tail(q)[i] = q[i + 1]
  BY <1>1
<1>4. ASSUME NEW x \in ToSet(q) PROVE x \in {Head(q)} \cup ToSet(Tail(q))
  <2>1. PICK i \in 1 .. Len(q) : x = q[i]
    BY <1>1 DEF ToSet
  <2>2. CASE i = 1
    BY <2>1, <2>2, <1>2
  <2>3. CASE i # 1
    <3>1. i - 1 \in 1 .. Len(q) - 1 /\ i = (i - 1) + 1
      BY <2>3, <1>1
    <3>2. Tail(q)[i - 1] = x
      BY <3>1, <1>3, <2>1
    <3> QED
      BY <3>1, <3>2, <1>3 DEF ToSet
  <2> QED
    BY <2>2, <2>3
<1>5. ASSUME NEW x \in ToSet(Tail(q)) PROVE x \in ToSet(q)
  <2>1. PICK i \in 1 .. Len(q) - 1 : x = q[i + 1]
    BY <1>3 DEF ToSet
  <2>2. i + 1 \in DOMAIN q
    BY <1>1
  <2> QED
    BY <2>1, <2>2 DEF ToSet
<1>6. Head(q) \in ToSet(q)
  BY <1>1, <1>2 DEF ToSet
<1> QED
  BY <1>2, <1>3, <1>4, <1>5, <1>6

\* The innermost call.
LEMMA TopOf ==
  ASSUME NEW c, NEW s, SearchTypes(c, s), s.frames # <<>>
  PROVE  /\ Len(s.frames) \in Nat \ {0} /\ DOMAIN s.frames = 1 .. Len(s.frames)
         /\ Last(s.frames) = s.frames[Len(s.frames)]
         /\ Last(s.frames) \in Calls(c) /\ Last(s.frames).at \in Names(c)
<1>1. s.frames \in Seq(Calls(c))
  BY DEF SearchTypes
<1>2. Len(s.frames) \in Nat \ {0} /\ DOMAIN s.frames = 1 .. Len(s.frames)
  BY <1>1
<1>3. s.frames[Len(s.frames)] \in Calls(c)
  BY <1>1, <1>2
<1> QED
  BY <1>2, <1>3 DEF Last, Calls

LEMMA LeftIs ==
  ASSUME NEW A, NEW B, NEW r \in [at : A, left : B], NEW x
  PROVE  [r EXCEPT !.left = x] = [at |-> r.at, left |-> x]
  OBVIOUS

LEMMA PassedIs ==
  ASSUME NEW c, NEW s, SearchTypes(c, s), Looking(s)
  PROVE  LET n == Len(s.frames)
             f == [at |-> Last(s.frames).at, left |-> Tail(Last(s.frames).left)]
         IN /\ Passed(s) = [roots |-> s.roots, frames |-> [s.frames EXCEPT ![n] = f], cycle |-> s.cycle, mark |-> s.mark]
            /\ f \in Calls(c)
            /\ ToSet(Last(s.frames).left) = {Seen(s)} \cup ToSet(f.left)
<1> DEFINE n == Len(s.frames)
           f == [at |-> Last(s.frames).at, left |-> Tail(Last(s.frames).left)]
           D == UNION {Needs(c, m) : m \in Names(c)}
<1>1. s.frames # <<>> /\ Last(s.frames).left # <<>>
  BY DEF Looking
<1>2. s.frames[n] = Last(s.frames) /\ n \in DOMAIN s.frames /\ s.frames[n] \in Calls(c)
  BY <1>1, TopOf
<1>3. s.frames[n] \in [at : Names(c), left : Seq(D)]
  BY <1>2 DEF Calls
<1>4. Last(s.frames).left \in Seq(D) /\ Last(s.frames).at \in Names(c)
  BY <1>2, <1>3
<1> HIDE DEF D
<1>5. Tail(Last(s.frames).left) \in Seq(D)
  BY <1>4, <1>1, Taken
<1>6. [s.frames[n] EXCEPT !.left = Tail(s.frames[n].left)] = f
  <2> DEFINE r == s.frames[n]
             A == Names(c)
             B == Seq(D)
             x == Tail(r.left)
  <2>1. r \in [at : A, left : B] /\ r = Last(s.frames)
    BY <1>2, <1>3
  <2> HIDE DEF n, D, A, B, r, x
  <2>2. [r EXCEPT !.left = x] = [at |-> r.at, left |-> x]
    BY <2>1, LeftIs
  <2>3. x = Tail(r.left) /\ r = s.frames[n]
    BY DEF x, r
  <2> QED
    BY <2>1, <2>2, <2>3
<1>7. s = [roots |-> s.roots, frames |-> s.frames, cycle |-> s.cycle, mark |-> s.mark]
  BY DEF SearchTypes
<1>8. Passed(s) = [s EXCEPT !.frames = [s.frames EXCEPT ![n] = [s.frames[n] EXCEPT !.left = Tail(s.frames[n].left)]]]
  BY DEF Passed
<1>9. Passed(s) = [s EXCEPT !.frames = [s.frames EXCEPT ![n] = f]]
  BY <1>8, <1>6
<1> HIDE DEF n, f
<1>10. Passed(s) = [roots |-> s.roots, frames |-> [s.frames EXCEPT ![n] = f], cycle |-> s.cycle, mark |-> s.mark]
  BY <1>9, <1>7
<1> USE DEF f
<1>11. f \in Calls(c)
  BY <1>4, <1>5 DEF Calls, D
<1>12. ToSet(Last(s.frames).left) = {Seen(s)} \cup ToSet(f.left)
  BY <1>4, <1>1, Taken DEF Seen
<1> QED
  BY <1>10, <1>11, <1>12 DEF n

\* What is left alone where only the newest call changes.
LEMMA PassKeeps ==
  ASSUME NEW c, NEW s, SearchSound(c, s), Looking(s)
  PROVE  LET t == Passed(s)
         IN /\ SearchTypes(c, t) /\ PathInv(c, t) /\ PassedBut(c, t, {Seen(s)}) /\ Unseen(c, t) /\ DoneInv(c, t)
            /\ t.cycle = s.cycle /\ t.mark = s.mark /\ Len(t.frames) = Len(s.frames) /\ t.frames # <<>>
            /\ Last(t.frames).at = Last(s.frames).at
            /\ Seen(s) \in Needs(c, Last(s.frames).at)
<1> DEFINE n == Len(s.frames)
           f == [at |-> Last(s.frames).at, left |-> Tail(Last(s.frames).left)]
           t == Passed(s)
<1>1. s.frames # <<>> /\ SearchTypes(c, s) /\ PathInv(c, s) /\ PassedInv(c, s) /\ Unseen(c, s) /\ DoneInv(c, s)
  BY DEF Looking, SearchSound
<1>2. /\ n \in Nat \ {0} /\ DOMAIN s.frames = 1 .. n
      /\ Last(s.frames) = s.frames[n] /\ Last(s.frames).at \in Names(c)
  BY <1>1, TopOf
<1>3. /\ t = [roots |-> s.roots, frames |-> [s.frames EXCEPT ![n] = f], cycle |-> s.cycle, mark |-> s.mark]
      /\ f \in Calls(c)
      /\ ToSet(Last(s.frames).left) = {Seen(s)} \cup ToSet(f.left)
  BY <1>1, PassedIs
<1>4. f.at = Last(s.frames).at
  OBVIOUS
<1> HIDE DEF f, t
<1>5. /\ t.roots = s.roots /\ t.frames = [s.frames EXCEPT ![n] = f] /\ t.cycle = s.cycle /\ t.mark = s.mark
      /\ t = [roots |-> t.roots, frames |-> t.frames, cycle |-> t.cycle, mark |-> t.mark]
  BY <1>3
<1>6. s.frames \in Seq(Calls(c)) /\ s.roots \in Seq(Names(c)) /\ s.mark \in [Names(c) -> {"unvisited", "visiting", "done"}]
  BY <1>1 DEF SearchTypes
<1>7. t.frames \in Seq(Calls(c)) /\ DOMAIN t.frames = 1 .. n /\ Len(t.frames) = n
  BY <1>5, <1>6, <1>3, <1>2
<1>8. t.frames[n] = f /\ \A i \in 1 .. n : i # n => t.frames[i] = s.frames[i]
  BY <1>5, <1>2
<1>9. \A i \in 1 .. n : t.frames[i].at = s.frames[i].at
  BY <1>8, <1>4, <1>2
<1>10. \A i \in 1 .. n : ToSet(t.frames[i].left) \subseteq ToSet(s.frames[i].left)
  BY <1>8, <1>3, <1>2
<1>11. SearchTypes(c, t)
  BY <1>5, <1>6, <1>7 DEF SearchTypes
<1>12. PathInv(c, t)
  <2>0. \A i \in 1 .. n : ToSet(s.frames[i].left) \subseteq Needs(c, s.frames[i].at)
    BY <1>1, <1>2 DEF PathInv
  <2>1. \A i \in DOMAIN t.frames : ToSet(t.frames[i].left) \subseteq Needs(c, t.frames[i].at)
    BY <2>0, <1>7, <1>9, <1>10
  <2>2. \A i, j \in DOMAIN t.frames : t.frames[i].at = t.frames[j].at => i = j
    BY <1>1, <1>2, <1>7, <1>9 DEF PathInv
  <2>3. \A i \in DOMAIN t.frames : i + 1 \in DOMAIN t.frames => t.frames[i + 1].at \in Needs(c, t.frames[i].at)
    BY <1>1, <1>2, <1>7, <1>9 DEF PathInv
  <2>4. ASSUME NEW m \in Names(c) PROVE t.mark[m] = "visiting" <=> \E i \in DOMAIN t.frames : t.frames[i].at = m
    <3>1. s.mark[m] = "visiting" <=> \E i \in 1 .. n : s.frames[i].at = m
      BY <1>1, <1>2 DEF PathInv
    <3> HIDE DEF n
    <3> QED
      BY <1>5, <1>7, <1>9, <3>1
  <2> QED
    BY <2>1, <2>2, <2>3, <2>4 DEF PathInv
<1>13. PassedBut(c, t, {Seen(s)})
  <2> SUFFICES ASSUME NEW i \in 1 .. n, NEW d \in Needs(c, t.frames[i].at) \cap Names(c)
               PROVE  \/ d \in ToSet(t.frames[i].left) \cup {t.frames[i].at}
                      \/ t.mark[d] = "done"
                      \/ i + 1 \in DOMAIN t.frames /\ d = t.frames[i + 1].at
                      \/ i = Len(t.frames) /\ d \in {Seen(s)}
    BY <1>7 DEF PassedBut
  <2>1. \/ d \in ToSet(s.frames[i].left) \cup {s.frames[i].at}
        \/ s.mark[d] = "done"
        \/ i + 1 \in DOMAIN s.frames /\ d = s.frames[i + 1].at
    BY <1>1, <1>2, <1>9 DEF PassedInv, PassedBut
  <2>2. CASE i = n
    BY <2>1, <2>2, <1>2, <1>3, <1>5, <1>7, <1>8, <1>9
  <2>3. CASE i # n
    BY <2>1, <2>3, <1>2, <1>5, <1>7, <1>8, <1>9
  <2> QED
    BY <2>2, <2>3
<1>14. Unseen(c, t)
  BY <1>1, <1>5 DEF Unseen
<1>15. DoneOf(c, t) = DoneOf(c, s)
  BY <1>5 DEF DoneOf
<1>16. DoneInv(c, t)
  BY <1>1, <1>15 DEF DoneInv
<1>17. Last(t.frames).at = Last(s.frames).at /\ t.frames # <<>>
  BY <1>2, <1>7, <1>9 DEF Last
<1>18. Seen(s) \in Needs(c, Last(s.frames).at)
  <2>1. ToSet(s.frames[n].left) \subseteq Needs(c, s.frames[n].at)
    <3>1. \A i \in DOMAIN s.frames : ToSet(s.frames[i].left) \subseteq Needs(c, s.frames[i].at)
      BY <1>1 DEF PathInv
    <3>2. n \in DOMAIN s.frames
      BY <1>2
    <3> QED
      BY <3>1, <3>2
  <2>2. Seen(s) \in ToSet(s.frames[n].left)
    BY <1>2, <1>3
  <2> QED
    BY <2>1, <2>2, <1>2
<1> QED
  BY <1>5, <1>7, <1>11, <1>12, <1>13, <1>14, <1>16, <1>17, <1>18 DEF t

LEMMA PassSound ==
  ASSUME NEW c, NEW s, SearchSound(c, s), Looking(s), Followed(c, s) => s.mark[Seen(s)] = "done"
  PROVE  SearchSound(c, Passed(s))
<1> DEFINE t == Passed(s)
<1>1. /\ SearchTypes(c, t) /\ PathInv(c, t) /\ PassedBut(c, t, {Seen(s)}) /\ Unseen(c, t) /\ DoneInv(c, t)
      /\ t.cycle = s.cycle /\ t.mark = s.mark /\ t.frames # <<>>
      /\ Last(t.frames).at = Last(s.frames).at
  BY PassKeeps
<1> HIDE DEF t
<1>2. PassedInv(c, t)
  <2> SUFFICES ASSUME NEW i \in DOMAIN t.frames, NEW d \in Needs(c, t.frames[i].at) \cap Names(c)
               PROVE  \/ d \in ToSet(t.frames[i].left) \cup {t.frames[i].at}
                      \/ t.mark[d] = "done"
                      \/ i + 1 \in DOMAIN t.frames /\ d = t.frames[i + 1].at
                      \/ i = Len(t.frames) /\ d \in {}
    BY DEF PassedInv, PassedBut
  <2>1. CASE i = Len(t.frames) /\ d = Seen(s)
    <3>1. t.frames[i].at = Last(s.frames).at
      BY <2>1, <1>1 DEF Last
    <3>2. CASE Followed(c, s)
      BY <3>2, <2>1, <1>1
    <3>3. CASE ~Followed(c, s)
      BY <3>3, <3>1, <2>1 DEF Followed
    <3> QED
      BY <3>2, <3>3
  <2> QED
    BY <2>1, <1>1 DEF PassedBut
<1>3. s.cycle # <<>> => RealCycle(c, s.cycle)
  BY DEF SearchSound
<1> QED
  BY <1>1, <1>2, <1>3 DEF SearchSound, t

\* A process that has not been seen is visited: a root, or on behalf of the
\* newest call.
LEMMA VisitSound ==
  ASSUME NEW c, Wellformed(c), NEW s, NEW n \in Names(c), s.mark[n] = "unvisited", s.cycle = <<>>,
         SearchTypes(c, s), PathInv(c, s), PassedBut(c, s, {n}), DoneInv(c, s),
         \A m \in Names(c) : s.mark[m] = "unvisited" => m \in ToSet(s.roots) \cup {n},
         s.frames # <<>> => n \in Needs(c, Last(s.frames).at)
  PROVE  SearchSound(c, Visit(c, s, n))
<1> DEFINE k == Len(s.frames)
           f == Frame(c, n)
           t == Visit(c, s, n)
<1>1. /\ s = [roots |-> s.roots, frames |-> s.frames, cycle |-> s.cycle, mark |-> s.mark]
      /\ s.frames \in Seq(Calls(c)) /\ s.roots \in Seq(Names(c))
      /\ s.mark \in [Names(c) -> {"unvisited", "visiting", "done"}]
  BY DEF SearchTypes
<1>2. k \in Nat /\ DOMAIN s.frames = 1 .. k
  BY <1>1
<1>3. f \in Calls(c) /\ f.at = n /\ ToSet(f.left) = Needs(c, n)
  <2> DEFINE D == UNION {Needs(c, m) : m \in Names(c)}
  <2>1. c.deps[n] \in Seq(Needs(c, n))
    BY DEF Wellformed, Needs
  <2>2. Needs(c, n) \subseteq D
    OBVIOUS
  <2> HIDE DEF D
  <2>3. c.deps[n] \in Seq(D)
    BY <2>1, <2>2
  <2> QED
    BY <2>3 DEF Calls, Frame, Needs, D
<1>4. t = [roots |-> s.roots, frames |-> Append(s.frames, f), cycle |-> s.cycle, mark |-> [s.mark EXCEPT ![n] = "visiting"]]
  <2>1. t = [[s EXCEPT !.frames = Append(s.frames, f)] EXCEPT !.mark = [s.mark EXCEPT ![n] = "visiting"]]
    <3>1. t = [s EXCEPT !.frames = Append(s.frames, f), !.mark = [s.mark EXCEPT ![n] = "visiting"]]
      BY <1>1 DEF Visit
    <3> QED
      BY <3>1, <1>1
  <2> HIDE DEF f, t
  <2> QED
    BY <2>1, <1>1
<1> HIDE DEF f, t
<1>5. /\ t.roots = s.roots /\ t.frames = Append(s.frames, f) /\ t.cycle = <<>>
      /\ t.mark = [s.mark EXCEPT ![n] = "visiting"]
      /\ t = [roots |-> t.roots, frames |-> t.frames, cycle |-> t.cycle, mark |-> t.mark]
  BY <1>4
<1>6. /\ t.frames \in Seq(Calls(c)) /\ Len(t.frames) = k + 1 /\ DOMAIN t.frames = 1 .. k + 1
      /\ t.frames[k + 1] = f /\ \A i \in 1 .. k : t.frames[i] = s.frames[i]
  BY <1>1, <1>2, <1>3, <1>5
<1>7. /\ t.mark \in [Names(c) -> {"unvisited", "visiting", "done"}]
      /\ t.mark[n] = "visiting" /\ \A m \in Names(c) : m # n => t.mark[m] = s.mark[m]
  BY <1>1, <1>5
<1>8. SearchTypes(c, t)
  BY <1>1, <1>5, <1>6, <1>7 DEF SearchTypes
<1>9. \A i \in 1 .. k : s.frames[i].at # n
  <2>1. s.mark[n] # "visiting"
    OBVIOUS
  <2> QED
    BY <2>1, <1>2 DEF PathInv
<1>10. \A i, j \in 1 .. k : s.frames[i].at = s.frames[j].at => i = j
  BY <1>2 DEF PathInv
<1>11. ASSUME NEW i \in 1 .. k, i = k PROVE n \in Needs(c, s.frames[i].at)
  <2>1. s.frames # <<>>
    BY <1>11, <1>2
  <2> QED
    BY <2>1, <1>11 DEF Last
<1>12. PathInv(c, t)
  <2>1. ASSUME NEW i \in 1 .. k + 1 PROVE ToSet(t.frames[i].left) \subseteq Needs(c, t.frames[i].at)
    <3>1. CASE i = k + 1
      BY <3>1, <1>3, <1>6
    <3>2. CASE i \in 1 .. k
      BY <3>2, <1>2, <1>6 DEF PathInv
    <3> QED
      BY <3>1, <3>2, <1>2
  <2>2. ASSUME NEW i \in 1 .. k + 1, NEW j \in 1 .. k + 1, t.frames[i].at = t.frames[j].at PROVE i = j
    <3>1. CASE i \in 1 .. k /\ j \in 1 .. k
      BY <2>2, <3>1, <1>6, <1>10
    <3>2. CASE i = k + 1 /\ j \in 1 .. k
      BY <2>2, <3>2, <1>3, <1>6, <1>9
    <3>3. CASE j = k + 1 /\ i \in 1 .. k
      BY <2>2, <3>3, <1>3, <1>6, <1>9
    <3> QED
      BY <3>1, <3>2, <3>3, <1>2
  <2>3. ASSUME NEW i \in 1 .. k + 1, i + 1 \in 1 .. k + 1 PROVE t.frames[i + 1].at \in Needs(c, t.frames[i].at)
    <3>1. i \in 1 .. k /\ i + 1 \in Nat
      BY <2>3, <1>2
    <3>2. CASE i = k
      <4>1. n \in Needs(c, s.frames[i].at)
        BY <3>1, <3>2, <1>11
      <4> QED
        BY <4>1, <3>1, <3>2, <1>3, <1>6
    <3>3. CASE i # k
      <4>1. i + 1 \in 1 .. k
        BY <3>1, <3>3, <1>2
      <4>2. s.frames[i + 1].at \in Needs(c, s.frames[i].at)
        BY <4>1, <3>1, <1>2 DEF PathInv
      <4> QED
        BY <4>1, <4>2, <3>1, <1>6
    <3> QED
      BY <3>2, <3>3
  <2>4. ASSUME NEW m \in Names(c) PROVE t.mark[m] = "visiting" <=> \E i \in 1 .. k + 1 : t.frames[i].at = m
    <3>1. k + 1 \in 1 .. k + 1 /\ \A i \in 1 .. k : i \in 1 .. k + 1
      BY <1>2
    <3>2. CASE m = n
      BY <3>1, <3>2, <1>3, <1>6, <1>7
    <3>3. CASE m # n
      <4>1. s.mark[m] = "visiting" <=> \E i \in 1 .. k : s.frames[i].at = m
        BY <1>2 DEF PathInv
      <4>2. \A i \in 1 .. k + 1 : i \in 1 .. k \/ i = k + 1
        BY <1>2
      <4> QED
        BY <3>1, <3>3, <4>1, <4>2, <1>3, <1>6, <1>7
    <3> QED
      BY <3>2, <3>3
  <2> QED
    BY <2>1, <2>2, <2>3, <2>4, <1>6 DEF PathInv
<1>13. PassedInv(c, t)
  <2> SUFFICES ASSUME NEW i \in 1 .. k + 1, NEW d \in Needs(c, t.frames[i].at) \cap Names(c)
               PROVE  \/ d \in ToSet(t.frames[i].left) \cup {t.frames[i].at}
                      \/ t.mark[d] = "done"
                      \/ i + 1 \in 1 .. k + 1 /\ d = t.frames[i + 1].at
    BY <1>6 DEF PassedInv, PassedBut
  <2>1. CASE i = k + 1
    BY <2>1, <1>3, <1>6
  <2>2. CASE i \in 1 .. k
    <3>1. \/ d \in ToSet(s.frames[i].left) \cup {s.frames[i].at}
          \/ s.mark[d] = "done"
          \/ i + 1 \in 1 .. k /\ d = s.frames[i + 1].at
          \/ i = k /\ d = n
      BY <2>2, <1>2, <1>6 DEF PassedBut
    <3>2. CASE d \in ToSet(s.frames[i].left) \cup {s.frames[i].at}
      BY <3>2, <2>2, <1>6
    <3>3. CASE s.mark[d] = "done"
      <4>1. d # n
        BY <3>3
      <4> QED
        BY <4>1, <3>3, <1>7
    <3>4. CASE i + 1 \in 1 .. k /\ d = s.frames[i + 1].at
      BY <3>4, <1>2, <1>6
    <3>5. CASE i = k /\ d = n
      BY <3>5, <1>2, <1>3, <1>6
    <3> QED
      BY <3>1, <3>2, <3>3, <3>4, <3>5
  <2> QED
    BY <2>1, <2>2, <1>2
<1>14. Unseen(c, t)
  BY <1>5, <1>7 DEF Unseen
<1>15. DoneOf(c, t) = DoneOf(c, s)
  BY <1>7 DEF DoneOf
<1>16. DoneInv(c, t)
  BY <1>15 DEF DoneInv
<1> QED
  BY <1>5, <1>8, <1>12, <1>13, <1>14, <1>16 DEF SearchSound, t

\* A call that has looked at everything returns.
LEMMA LeaveSound ==
  ASSUME NEW c, NEW s, SearchSound(c, s), s.frames # <<>>, Last(s.frames).left = <<>>
  PROVE  SearchSound(c, Leave(s))
<1> DEFINE k == Len(s.frames)
           n == Last(s.frames).at
           t == Leave(s)
<1>1. SearchTypes(c, s) /\ PathInv(c, s) /\ PassedInv(c, s) /\ Unseen(c, s) /\ DoneInv(c, s)
  BY DEF SearchSound
<1>2. /\ s = [roots |-> s.roots, frames |-> s.frames, cycle |-> s.cycle, mark |-> s.mark]
      /\ s.frames \in Seq(Calls(c)) /\ s.roots \in Seq(Names(c))
      /\ s.mark \in [Names(c) -> {"unvisited", "visiting", "done"}]
  BY <1>1 DEF SearchTypes
<1>3. k \in Nat \ {0} /\ DOMAIN s.frames = 1 .. k /\ n = s.frames[k].at /\ n \in Names(c)
  BY <1>1, TopOf
<1>4. t = [roots |-> s.roots, frames |-> Front(s.frames), cycle |-> s.cycle, mark |-> [s.mark EXCEPT ![n] = "done"]]
  <2> HIDE DEF n
  <2>1. t = [s EXCEPT !.frames = Front(s.frames), !.mark = [s.mark EXCEPT ![n] = "done"]]
    BY <1>2 DEF Leave, n
  <2> HIDE DEF t
  <2> QED
    BY <2>1, <1>2
<1> HIDE DEF n, t
<1>5. /\ t.roots = s.roots /\ t.frames = Front(s.frames) /\ t.cycle = s.cycle
      /\ t.mark = [s.mark EXCEPT ![n] = "done"]
      /\ t = [roots |-> t.roots, frames |-> t.frames, cycle |-> t.cycle, mark |-> t.mark]
  BY <1>4
<1>6. /\ t.frames \in Seq(Calls(c)) /\ Len(t.frames) = k - 1 /\ DOMAIN t.frames = 1 .. k - 1
      /\ \A i \in 1 .. k - 1 : i \in 1 .. k /\ t.frames[i] = s.frames[i]
  <2>1. k - 1 \in Nat /\ k - 1 <= k /\ 1 .. k - 1 \subseteq 1 .. k
    BY <1>3
  <2>2. t.frames = SubSeq(s.frames, 1, k - 1)
    BY <1>5 DEF Front
  <2> HIDE DEF k
  <2>3. \A i \in 1 .. k - 1 : s.frames[i] \in Calls(c)
    BY <2>1, <1>2, <1>3
  <2>4. t.frames = [i \in 1 .. k - 1 |-> s.frames[i]]
    BY <2>1, <2>2, <1>3
  <2>5. t.frames \in [1 .. k - 1 -> Calls(c)]
    BY <2>3, <2>4
  <2>6. t.frames \in Seq(Calls(c)) /\ Len(t.frames) = k - 1
    BY <2>1, <2>5
  <2> QED
    BY <2>1, <2>4, <2>6
<1>7. /\ t.mark \in [Names(c) -> {"unvisited", "visiting", "done"}]
      /\ t.mark[n] = "done" /\ \A m \in Names(c) : m # n => t.mark[m] = s.mark[m]
  BY <1>2, <1>3, <1>5
<1>8. SearchTypes(c, t)
  BY <1>2, <1>5, <1>6, <1>7 DEF SearchTypes
<1>9. s.mark[n] = "visiting"
  <2>1. k \in 1 .. k
    BY <1>3
  <2> QED
    BY <2>1, <1>1, <1>3 DEF PathInv
<1>10. \A i \in 1 .. k - 1 : s.frames[i].at # n
  <2>1. \A i, j \in 1 .. k : s.frames[i].at = s.frames[j].at => i = j
    BY <1>1, <1>3 DEF PathInv
  <2>2. k \in 1 .. k /\ \A i \in 1 .. k - 1 : i # k /\ i \in 1 .. k
    BY <1>3
  <2> QED
    BY <2>1, <2>2, <1>3
<1>11. PathInv(c, t)
  <2>1. ASSUME NEW i \in 1 .. k - 1 PROVE ToSet(t.frames[i].left) \subseteq Needs(c, t.frames[i].at)
    BY <1>1, <1>3, <1>6 DEF PathInv
  <2>2. ASSUME NEW i \in 1 .. k - 1, NEW j \in 1 .. k - 1, t.frames[i].at = t.frames[j].at PROVE i = j
    <3>1. \A x, y \in 1 .. k : s.frames[x].at = s.frames[y].at => x = y
      BY <1>1, <1>3 DEF PathInv
    <3> QED
      BY <2>2, <3>1, <1>6
  <2>3. ASSUME NEW i \in 1 .. k - 1, i + 1 \in 1 .. k - 1 PROVE t.frames[i + 1].at \in Needs(c, t.frames[i].at)
    BY <2>3, <1>1, <1>3, <1>6 DEF PathInv
  <2>4. ASSUME NEW m \in Names(c) PROVE t.mark[m] = "visiting" <=> \E i \in 1 .. k - 1 : t.frames[i].at = m
    <3>1. CASE m = n
      BY <3>1, <1>6, <1>7, <1>10
    <3>2. CASE m # n
      <4>1. s.mark[m] = "visiting" <=> \E i \in 1 .. k : s.frames[i].at = m
        BY <1>1, <1>3 DEF PathInv
      <4>2. \A i \in 1 .. k : i \in 1 .. k - 1 \/ i = k
        BY <1>3
      <4> QED
        BY <3>2, <4>1, <4>2, <1>3, <1>6, <1>7
    <3> QED
      BY <3>1, <3>2
  <2> QED
    BY <2>1, <2>2, <2>3, <2>4, <1>6 DEF PathInv
<1>12. ASSUME NEW i \in 1 .. k, NEW d \in Needs(c, s.frames[i].at) \cap Names(c)
       PROVE  \/ d \in ToSet(s.frames[i].left) \cup {s.frames[i].at}
              \/ s.mark[d] = "done"
              \/ i + 1 \in 1 .. k /\ d = s.frames[i + 1].at
  BY <1>1, <1>3 DEF PassedInv, PassedBut
<1>13. PassedInv(c, t)
  <2> SUFFICES ASSUME NEW i \in 1 .. k - 1, NEW d \in Needs(c, t.frames[i].at) \cap Names(c)
               PROVE  \/ d \in ToSet(t.frames[i].left) \cup {t.frames[i].at}
                      \/ t.mark[d] = "done"
                      \/ i + 1 \in 1 .. k - 1 /\ d = t.frames[i + 1].at
    BY <1>6 DEF PassedInv, PassedBut
  <2>1. /\ i \in 1 .. k /\ t.frames[i] = s.frames[i]
    BY <1>6
  <2>2. CASE d \in ToSet(s.frames[i].left) \cup {s.frames[i].at}
    BY <2>1, <2>2
  <2>3. CASE s.mark[d] = "done"
    BY <2>3, <1>7
  <2>4. CASE i + 1 \in 1 .. k /\ d = s.frames[i + 1].at
    <3>1. CASE i + 1 = k
      BY <2>4, <3>1, <1>3, <1>7
    <3>2. CASE i + 1 # k
      BY <2>4, <3>2, <1>3, <1>6
    <3> QED
      BY <3>1, <3>2
  <2> QED
    BY <2>1, <2>2, <2>3, <2>4, <1>12
<1>14. Unseen(c, t)
  BY <1>1, <1>5, <1>7 DEF Unseen
<1>15. DoneOf(c, t) = DoneOf(c, s) \cup {n}
  BY <1>3, <1>7 DEF DoneOf
<1>16. n \notin DoneOf(c, s)
  BY <1>9 DEF DoneOf
<1>17. Needs(c, n) \cap Names(c) \subseteq DoneOf(c, s) \cup {n}
  <2> SUFFICES ASSUME NEW d \in Needs(c, n) \cap Names(c) PROVE s.mark[d] = "done" \/ d = n
    BY DEF DoneOf
  <2>1. k \in 1 .. k /\ ~(k + 1 \in 1 .. k)
    BY <1>3
  <2>2. ToSet(s.frames[k].left) = {}
    BY DEF ToSet, Last
  <2> QED
    BY <2>1, <2>2, <1>3, <1>12
<1>18. DoneInv(c, t)
  <2>1. ASSUME NEW m \in DoneOf(c, t) PROVE Needs(c, m) \cap Names(c) \subseteq DoneOf(c, t) \cup {m}
    <3>1. CASE m = n
      BY <3>1, <1>15, <1>17
    <3>2. CASE m # n
      BY <2>1, <3>2, <1>1, <1>15 DEF DoneInv
    <3> QED
      BY <3>1, <3>2
  <2>2. ASSUME NEW S \in SUBSET DoneOf(c, t), S # {} PROVE \E m \in S : Needs(c, m) \cap S \subseteq {m}
    <3>1. CASE S \subseteq DoneOf(c, s)
      BY <2>2, <3>1, <1>1 DEF DoneInv
    <3>2. CASE S = {n}
      BY <3>2
    <3>3. CASE n \in S /\ S # {n}
      <4> DEFINE R == S \ {n}
      <4>1. R \in SUBSET DoneOf(c, s) /\ R # {}
        BY <2>2, <3>3, <1>15
      <4>2. PICK m \in R : Needs(c, m) \cap R \subseteq {m}
        BY <4>1, <1>1 DEF DoneInv
      <4>3. m \in DoneOf(c, s) /\ n \in Names(c) /\ m # n
        BY <4>1, <1>3
      <4>4. n \notin Needs(c, m)
        <5>1. Needs(c, m) \cap Names(c) \subseteq DoneOf(c, s) \cup {m}
          BY <4>3, <1>1 DEF DoneInv
        <5> QED
          BY <5>1, <4>3, <1>16
      <4>5. Needs(c, m) \cap S \subseteq {m}
        BY <4>2, <4>4
      <4> QED
        BY <4>5
    <3> QED
      BY <2>2, <3>1, <3>2, <3>3, <1>15
  <2> QED
    BY <2>1, <2>2 DEF DoneInv
<1>19. t.cycle # <<>> => RealCycle(c, t.cycle)
  BY <1>5 DEF SearchSound
<1> QED
  BY <1>8, <1>11, <1>13, <1>14, <1>18, <1>19 DEF SearchSound, t

\* The newest call meets a process that is being visited, and not its own.
LEMMA CloseSound ==
  ASSUME NEW c, NEW s, SearchSound(c, s), Looking(s), Followed(c, s), s.mark[Seen(s)] = "visiting"
  PROVE  SearchSound(c, [s EXCEPT !.cycle = CycleOf(s, Seen(s))])
<1> DEFINE k == Len(s.frames)
           d == Seen(s)
           path == Path(s)
           start == CHOOSE i \in DOMAIN path : path[i] = d
           cycle == CycleOf(s, d)
           t == [s EXCEPT !.cycle = cycle]
<1>1. s.frames # <<>> /\ SearchTypes(c, s) /\ PathInv(c, s)
  BY DEF Looking, SearchSound
<1>2. k \in Nat \ {0} /\ DOMAIN s.frames = 1 .. k /\ Last(s.frames) = s.frames[k] /\ s.frames \in Seq(Calls(c))
  BY <1>1, TopOf DEF SearchTypes
<1>3. d \in Names(c) /\ d # s.frames[k].at /\ d \in Needs(c, s.frames[k].at)
  BY <1>2, PassKeeps DEF Followed
<1>4. path = [i \in 1 .. k |-> s.frames[i].at] /\ DOMAIN path = 1 .. k
  BY <1>2 DEF Path
<1>5. \A i \in 1 .. k : path[i] = s.frames[i].at /\ path[i] \in Names(c)
  <2>1. \A i \in 1 .. k : s.frames[i] \in Calls(c)
    BY <1>2
  <2> QED
    BY <2>1, <1>4 DEF Calls
<1>6. \E i \in 1 .. k : path[i] = d
  BY <1>1, <1>2, <1>3, <1>5 DEF PathInv
<1>7. start \in 1 .. k /\ path[start] = d
  BY <1>4, <1>6
<1>8. \A i, j \in 1 .. k : path[i] = path[j] => i = j
  BY <1>1, <1>2, <1>5 DEF PathInv
<1>9. \A i \in 1 .. k : i + 1 \in 1 .. k => path[i + 1] \in Needs(c, path[i])
  <2>1. \A i \in 1 .. k : i + 1 \in 1 .. k => s.frames[i + 1].at \in Needs(c, s.frames[i].at)
    BY <1>1, <1>2 DEF PathInv
  <2> QED
    BY <2>1, <1>5
<1>10. cycle = SubSeq(path, start, k) \o <<d>>
  BY DEF CycleOf
<1>11. t.roots = s.roots /\ t.frames = s.frames /\ t.mark = s.mark /\ t.cycle = cycle
       /\ t = [roots |-> t.roots, frames |-> t.frames, cycle |-> t.cycle, mark |-> t.mark]
  <2> HIDE DEF cycle
  <2>1. s = [roots |-> s.roots, frames |-> s.frames, cycle |-> s.cycle, mark |-> s.mark]
    BY <1>1 DEF SearchTypes
  <2>2. t = [roots |-> s.roots, frames |-> s.frames, cycle |-> cycle, mark |-> s.mark]
    BY <2>1
  <2> QED
    BY <2>2
<1>12. start < k
  BY <1>3, <1>5, <1>7, <1>2
<1> HIDE DEF k, d, path, start, cycle, t
<1> DEFINE n == k - start + 1
           tail == SubSeq(path, start, k)
<1>13. n \in Nat /\ n > 1 /\ n = k - start + 1 /\ k \in Nat /\ start \in Nat \ {0}
  BY <1>2, <1>7, <1>12
<1>14. \A i \in 1 .. n : i + start - 1 \in 1 .. k
  BY <1>13
<1>15. tail = [i \in 1 .. n |-> path[i + start - 1]]
  <2>1. path \in Seq(Names(c)) /\ Len(path) = k
    BY <1>4, <1>5, <1>2
  <2> QED
    BY <2>1, <1>13
<1>16. tail \in Seq(Names(c)) /\ Len(tail) = n
  <2>1. tail \in [1 .. n -> Names(c)]
    BY <1>5, <1>14, <1>15
  <2> HIDE DEF n, tail
  <2> QED
    BY <2>1, <1>13
<1>17. \A i \in 1 .. n : tail[i] = path[i + start - 1]
  BY <1>15
<1> HIDE DEF n, tail
<1>18. cycle = tail \o <<d>>
  BY <1>10 DEF tail
<1>19. /\ cycle \in Seq(Names(c)) /\ Len(cycle) = n + 1 /\ cycle[n + 1] = d
       /\ \A i \in 1 .. n : cycle[i] = tail[i]
  <2>1. <<d>> \in Seq(Names(c)) /\ Len(<<d>>) = 1 /\ <<d>>[1] = d
    BY <1>3
  <2>2. cycle \in Seq(Names(c))
    BY <2>1, <1>16, <1>18
  <2>3. Len(cycle) = n + 1
    BY <2>1, <1>16, <1>18
  <2>4. \A i \in 1 .. n : cycle[i] = tail[i]
    BY <2>1, <1>16, <1>18, <1>13
  <2>5. cycle[n + 1] = d
    BY <2>1, <1>16, <1>18, <1>13
  <2> QED
    BY <2>2, <2>3, <2>4, <2>5
<1>20. \A i \in 1 .. n : cycle[i] = path[i + start - 1]
  BY <1>17, <1>19
<1>21. cycle[1] = d /\ Last(cycle) = d
  <2>1. 1 \in 1 .. n /\ 1 + start - 1 = start
    BY <1>13
  <2>2. cycle[1] = d
    BY <2>1, <1>20, <1>7
  <2> QED
    BY <2>2, <1>19 DEF Last
<1>22. ASSUME NEW i \in 1 .. n PROVE cycle[i + 1] \in Needs(c, cycle[i])
  <2>1. CASE i = n
    <3>1. i + start - 1 = k
      BY <2>1, <1>13
    <3>2. k \in 1 .. k
      BY <1>2
    <3>3. cycle[i] = s.frames[k].at
      BY <3>1, <3>2, <1>20, <1>5
    <3> QED
      BY <2>1, <3>3, <1>3, <1>19
  <2>2. CASE i # n
    <3>1. i + 1 \in 1 .. n /\ i + 1 + start - 1 = (i + start - 1) + 1
      BY <2>2, <1>13
    <3>2. i + start - 1 \in 1 .. k /\ (i + start - 1) + 1 \in 1 .. k
      BY <3>1, <1>14
    <3>3. cycle[i] = path[i + start - 1] /\ cycle[i + 1] = path[(i + start - 1) + 1]
      BY <3>1, <1>20
    <3> QED
      BY <3>2, <3>3, <1>9
  <2> QED
    BY <2>1, <2>2
<1>23. IsInjective(Tail(cycle))
  <2>1. DOMAIN Tail(cycle) = 1 .. n /\ \A i \in 1 .. n : Tail(cycle)[i] = cycle[i + 1]
    BY <1>13, <1>19
  <2>2. ASSUME NEW i \in 1 .. n, NEW j \in 1 .. n, cycle[i + 1] = cycle[j + 1], i < n, j < n PROVE i = j
    <3>1. i + 1 \in 1 .. n /\ j + 1 \in 1 .. n
      BY <2>2, <1>13
    <3>2. i + 1 + start - 1 \in 1 .. k /\ j + 1 + start - 1 \in 1 .. k
      BY <3>1, <1>14
    <3>3. path[i + 1 + start - 1] = path[j + 1 + start - 1]
      BY <2>2, <3>1, <1>20
    <3>4. i + 1 + start - 1 = j + 1 + start - 1
      BY <3>2, <3>3, <1>8
    <3> QED
      BY <3>4, <1>13
  <2>3. ASSUME NEW i \in 1 .. n, i < n PROVE cycle[i + 1] # d
    <3>1. i + 1 \in 1 .. n /\ i + 1 + start - 1 \in 1 .. k /\ i + 1 + start - 1 # start
      BY <2>3, <1>13, <1>14
    <3> QED
      BY <3>1, <1>7, <1>8, <1>20
  <2>4. ASSUME NEW i \in 1 .. n, NEW j \in 1 .. n, cycle[i + 1] = cycle[j + 1] PROVE i = j
    <3>1. CASE i < n /\ j < n
      BY <2>2, <2>4, <3>1
    <3>2. CASE i = n /\ j < n
      BY <2>3, <2>4, <3>2, <1>19
    <3>3. CASE j = n /\ i < n
      BY <2>3, <2>4, <3>3, <1>19
    <3> QED
      BY <3>1, <3>2, <3>3, <1>13
  <2> QED
    BY <2>1, <2>4 DEF IsInjective
<1>24. RealCycle(c, cycle)
  <2>1. Len(cycle) > 2 /\ Len(cycle) - 1 = n
    BY <1>13, <1>19
  <2> QED
    BY <2>1, <1>19, <1>21, <1>22, <1>23 DEF RealCycle
<1>25. SearchTypes(c, t)
  BY <1>1, <1>11 DEF SearchTypes
<1>26. PathInv(c, t) /\ PassedInv(c, t) /\ Unseen(c, t)
  <2>1. PathInv(c, t)
    BY <1>1, <1>11 DEF PathInv
  <2>2. PassedInv(c, s) /\ Unseen(c, s)
    BY DEF SearchSound
  <2>3. PassedInv(c, t)
    BY <2>2, <1>11 DEF PassedInv, PassedBut
  <2>4. Unseen(c, t)
    BY <2>2, <1>11 DEF Unseen
  <2> QED
    BY <2>1, <2>3, <2>4
<1>27. DoneOf(c, t) = DoneOf(c, s)
  BY <1>11 DEF DoneOf
<1>28. DoneInv(c, t)
  BY <1>27 DEF SearchSound, DoneInv
<1>29. SearchSound(c, t)
  BY <1>11, <1>24, <1>25, <1>26, <1>28 DEF SearchSound
<1> QED
  BY <1>29 DEF t, cycle, d

LEMMA NewSound ==
  ASSUME NEW c, Wellformed(c)
  PROVE  SearchSound(c, NewSearch(c))
<1> DEFINE s == NewSearch(c)
<1>1. /\ s = [roots |-> s.roots, frames |-> s.frames, cycle |-> s.cycle, mark |-> s.mark]
      /\ s.roots = c.order /\ s.frames = <<>> /\ s.cycle = <<>> /\ s.mark = [n \in Names(c) |-> "unvisited"]
  BY DEF NewSearch
<1> HIDE DEF s
<1>2. SearchTypes(c, s)
  BY <1>1 DEF SearchTypes, Wellformed
<1>3. PathInv(c, s) /\ PassedInv(c, s)
  BY <1>1 DEF PathInv, PassedInv, PassedBut
<1>4. Unseen(c, s)
  BY <1>1 DEF Unseen, Names
<1>5. DoneOf(c, s) = {}
  BY <1>1 DEF DoneOf
<1>6. DoneInv(c, s)
  BY <1>5 DEF DoneInv
<1> QED
  BY <1>1, <1>2, <1>3, <1>4, <1>6 DEF SearchSound, s

-----------------------------------------------------------------------------
(* What the search and the objections say of a configuration. *)

LEMMA AllDone ==
  ASSUME NEW c, NEW s, SearchSound(c, s), s.frames = <<>>, s.roots = <<>>
  PROVE  DoneOf(c, s) = Names(c)
<1>1. SearchTypes(c, s) /\ PathInv(c, s) /\ Unseen(c, s)
  BY DEF SearchSound
<1>2. DOMAIN s.frames = {} /\ ToSet(s.roots) = {}
  BY DEF ToSet
<1>3. ASSUME NEW n \in Names(c) PROVE s.mark[n] = "done"
  <2>1. s.mark[n] \in {"unvisited", "visiting", "done"}
    BY <1>1 DEF SearchTypes
  <2>2. s.mark[n] # "visiting"
    BY <1>1, <1>2 DEF PathInv
  <2>3. s.mark[n] # "unvisited"
    BY <1>1, <1>2 DEF Unseen
  <2> QED
    BY <2>1, <2>2, <2>3
<1> QED
  BY <1>3 DEF DoneOf

LEMMA NothingToObject ==
  ASSUME NEW c, Objections(c) = {}, NEW p \in Names(c), NEW d \in Needs(c, p)
  PROVE  d # p /\ ~Unusable(c, d)
<1>1. \A q \in Names(c) : ~(\E e \in ToSet(c.deps[q]) : e = q \/ Unusable(c, e))
  <2> SUFFICES ASSUME NEW q \in Names(c), NEW e \in ToSet(c.deps[q]), e = q \/ Unusable(c, e)
               PROVE  FALSE
    OBVIOUS
  <2>1. <<"depends_on", q>> \in Objections(c)
    BY DEF Objections
  <2> QED
    BY <2>1
<1> QED
  BY <1>1 DEF Needs

LEMMA AcceptedStarts ==
  ASSUME NEW c, NEW s, SearchSound(c, s), DoneOf(c, s) = Names(c), Objections(c) = {}
  PROVE  CanStart(c)
<1> SUFFICES ASSUME NEW S \in SUBSET Names(c), S # {}
             PROVE  \E p \in S : \A d \in ToSet(c.deps[p]) :
                      IF d \in Names(c) THEN d \notin S /\ d \in c.checked \ c.recurring
                                        ELSE d \in Active(c) \cap (WithHealthcheck(c) \cup c.declared)
  BY DEF CanStart
<1>1. PICK p \in S : Needs(c, p) \cap S \subseteq {p}
  BY DEF SearchSound, DoneInv
<1>2. ASSUME NEW d \in Needs(c, p)
      PROVE  IF d \in Names(c) THEN d \notin S /\ d \in c.checked \ c.recurring
                               ELSE d \in Active(c) \cap (WithHealthcheck(c) \cup c.declared)
  <2>1. d # p /\ ~Unusable(c, d)
    BY NothingToObject
  <2>2. d \notin S
    BY <2>1, <1>1
  <2> QED
    BY <2>1, <2>2 DEF Unusable
<1> QED
  BY <1>2 DEF Needs

Fault(c) ==
  \/ ~CanStart(c)
  \/ \E n \in Names(c) : ~IsInjective(c.deps[n]) \/ ToSet(c.deps[n]) \cap Names(c) \cap Active(c) # {}
  \/ c.recurring \cap c.checked # {}
  \/ c.declared \cap WithHealthcheck(c) # {} \/ ~(c.declared \subseteq DOMAIN Merged(c))

\* One process that waits for itself, or for what nothing reports, is enough.
LEMMA OneStuck ==
  ASSUME NEW c, NEW p \in Names(c), NEW d \in Needs(c, p),
         IF d \in Names(c) THEN d = p \/ d \notin c.checked \ c.recurring
                           ELSE d \notin Active(c) \cap (WithHealthcheck(c) \cup c.declared)
  PROVE  ~CanStart(c)
<1> SUFFICES ASSUME CanStart(c) PROVE FALSE
  OBVIOUS
<1>1. \A e \in ToSet(c.deps[p]) :
        IF e \in Names(c) THEN e \notin {p} /\ e \in c.checked \ c.recurring
                          ELSE e \in Active(c) \cap (WithHealthcheck(c) \cup c.declared)
  BY DEF CanStart
<1> QED
  BY <1>1 DEF Needs

LEMMA ObjectionsAreFaults ==
  ASSUME NEW c, Objections(c) # {}
  PROVE  Fault(c)
<1>1. \/ c.recurring \cap c.checked # {}
      \/ \E p \in Names(c) : ~IsInjective(c.deps[p]) \/ \E d \in Needs(c, p) : d = p \/ Unusable(c, d)
      \/ c.declared \cap WithHealthcheck(c) # {}
      \/ c.declared \ DOMAIN Merged(c) # {}
  BY DEF Objections, Needs
<1>2. ASSUME NEW p \in Names(c), NEW d \in Needs(c, p), d = p \/ Unusable(c, d) PROVE Fault(c)
  <2>1. CASE d = p
    BY <2>1, OneStuck DEF Fault
  <2>2. CASE Unusable(c, d) /\ d \in Names(c) \cap Active(c)
    BY <2>2 DEF Fault, Needs
  <2>3. CASE Unusable(c, d) /\ d \notin Names(c) \cap Active(c)
    <3>1. IF d \in Names(c) THEN d = p \/ d \notin c.checked \ c.recurring
                            ELSE d \notin Active(c) \cap (WithHealthcheck(c) \cup c.declared)
      BY <2>3 DEF Unusable
    <3> QED
      BY <3>1, OneStuck DEF Fault
  <2> QED
    BY <1>2, <2>1, <2>2, <2>3
<1>3. CASE \E p \in Names(c) : ~IsInjective(c.deps[p])
  BY <1>3 DEF Fault
<1>4. CASE c.recurring \cap c.checked # {} \/ c.declared \cap WithHealthcheck(c) # {} \/ c.declared \ DOMAIN Merged(c) # {}
  BY <1>4 DEF Fault
<1> QED
  BY <1>1, <1>2, <1>3, <1>4

\* Each process of a cycle waits for the next.
LEMMA CyclesAreFaults ==
  ASSUME NEW c, NEW y, RealCycle(c, y)
  PROVE  Fault(c)
<1> DEFINE S == ToSet(y)
           n == Len(y) - 1
<1>1. y \in Seq(Names(c)) /\ n \in Nat /\ n > 1 /\ DOMAIN y = 1 .. n + 1 /\ Last(y) = y[n + 1]
  BY DEF RealCycle, Last
<1>2. S \in SUBSET Names(c) /\ S # {}
  <2>1. \A i \in 1 .. n + 1 : y[i] \in Names(c)
    BY <1>1
  <2> QED
    BY <1>1, <2>1 DEF ToSet
<1>3. ASSUME NEW p \in S PROVE \E d \in Needs(c, p) : d \in S
  <2>1. PICK i \in 1 .. n + 1 : p = y[i]
    BY <1>1 DEF ToSet
  <2>2. \A j \in 1 .. n : y[j + 1] \in Needs(c, y[j])
    BY DEF RealCycle
  <2>3. \A j \in 1 .. n + 1 : y[j] \in S
    BY <1>1 DEF ToSet
  <2>4. y[n + 1] = y[1]
    BY <1>1 DEF RealCycle
  <2> HIDE DEF n, S
  <2>5. CASE i \in 1 .. n
    <3>1. i + 1 \in 1 .. n + 1
      BY <2>5, <1>1
    <3> QED
      BY <2>1, <2>2, <2>3, <2>5, <3>1
  <2>6. CASE i = n + 1
    <3>1. 1 \in 1 .. n /\ 1 + 1 \in 1 .. n + 1 /\ p = y[1]
      BY <2>1, <2>4, <2>6, <1>1
    <3> QED
      BY <2>2, <2>3, <3>1
  <2> QED
    BY <2>5, <2>6, <1>1
<1>4. ~CanStart(c)
  <2> SUFFICES ASSUME CanStart(c) PROVE FALSE
    OBVIOUS
  <2> HIDE DEF S
  <2>1. PICK p \in S : \A d \in ToSet(c.deps[p]) :
          IF d \in Names(c) THEN d \notin S /\ d \in c.checked \ c.recurring
                            ELSE d \in Active(c) \cap (WithHealthcheck(c) \cup c.declared)
    BY <1>2 DEF CanStart
  <2>2. PICK d \in Needs(c, p) : d \in S
    BY <1>3
  <2> QED
    BY <2>1, <2>2, <1>2 DEF Needs
<1> QED
  BY <1>4 DEF Fault

-----------------------------------------------------------------------------
(* The steps, by what they do. *)

\* A program goes on, and that is all.
Leads(p, l) ==
  \/ pc[p] = "off" /\ l = "load"
  \/ pc[p] = "load" /\ (l = "search" \/ (l = "bind" /\ Conf(p).commands))
  \/ /\ pc[p] = "search" /\ l = "bind" /\ Objections(Conf(p)) = {}
     /\ search[p].frames = <<>> /\ search[p].roots = <<>>
  \/ pc[p] = "bind" /\ l \in {"listen", "discover"}
  \/ pc[p] = "offer" /\ l \in {"ask", "up"}
  \/ pc[p] = "ask" /\ l = "up"
  \/ pc[p] = "missing" /\ l = "listen"
  \/ pc[p] = "askMissing" /\ l \in {"upMissing", "listen"}
  \/ pc[p] = "upMissing" /\ l = "listen"
  \/ pc[p] = "lstat" /\ l \in {"bindSocket", "unlink"}
  \/ pc[p] = "chmod" /\ l \in {"ready", "start"}
  \/ pc[p] = "ready" /\ l = "start"
  \/ pc[p] = "serving" /\ l = "stopping"

Moves(p) == /\ \E l \in Places : Goto(p, l) /\ Leads(p, l)
            /\ UNCHANGED <<scene, search, tracing, running, net, compose>>

\* A program ends.
Cause(p, r) ==
  \/ pc[p] = "load" /\ r = "config"
  \/ pc[p] = "search" /\ r = "dependencies" /\ (Objections(Conf(p)) # {} \/ search[p].cycle # <<>>)
  \/ pc[p] = "bind" /\ r = "port" /\ Requested(Conf(p))
  \/ pc[p] = "discover" /\ r \in {"services", "docker"}
  \/ pc[p] \in {"offer", "ask", "up", "await"} /\ r = "stack"
  \/ pc[p] = "listen" /\ r = "taken"
  \/ pc[p] \in Listening /\ r = "unbound"
  \/ pc[p] = "ready" /\ r = "unready" /\ told[p] \in scene.shadowed
  \/ pc[p] = "start" /\ r = "start"
  \/ pc[p] \in {"serving", "signalled"} /\ p \notin running /\ r = "done"
  \/ pc[p] = "silent" /\ r = "done"

Ends(p) == (\E r \in Reasons : Leaves(p, r) /\ Cause(p, r)) /\ (Abandon(p) \/ Unlink(p))

\* findCycle goes on.
Searches(p) == SearchFrom(p) \/ SearchSkips(p) \/ SearchDescends(p) \/ SearchCloses(p) \/ SearchReturns(p)

\* A program looks at the stack.
Looks(p) == Discover(p) \/ Await(p) \/ AwaitMissing(p) \/ OfferMissing(p)

\* A program comes by its socket.
Sockets(p) == Probes(p) \/ RemovesStale(p) \/ BindsSocket(p)

\* Of one program; and of the stack.
Acts(p) == \/ Moves(p) \/ Ends(p) \/ Searches(p) \/ Binds(p) \/ MovesAside(p) \/ Looks(p) \/ UpAll(p) \/ UpMissing(p)
           \/ Sockets(p) \/ Starts(p) \/ Signalled(p) \/ ProcessesEnd(p) \/ Stops(p) \/ ReceiverStops(p) \/ Killed(p)

StackMoves == (\E s \in Services : ComesUp(s) \/ Completes(s)) \/ DeveloperStarts

LEMMA CheckKinds == ASSUME NEW p \in Programs, Check(p) PROVE Acts(p)
<1>1. CASE LoadRefuses(p)
  BY <1>1 DEF LoadRefuses, Acts, Ends, Exit, Cause, Reasons
<1>2. CASE Load(p)
  <2>1. /\ \E l \in Places : Goto(p, l) /\ Leads(p, l)
        /\ UNCHANGED <<scene, search, tracing, running, net, compose>>
    BY <1>2 DEF Load, Leads, Places, Checking, Preparing, Listening
  <2> QED
    BY <2>1 DEF Moves, Acts
<1>3. CASE Searches(p)
  BY <1>3 DEF Acts
<1>4. CASE DependenciesRefused(p)
  BY <1>4 DEF DependenciesRefused, Acts, Ends, Exit, Cause, Reasons
<1>5. CASE DependenciesAccepted(p)
  <2>1. /\ Goto(p, "bind") /\ Leads(p, "bind")
        /\ UNCHANGED <<scene, search, tracing, running, net, compose>>
    BY <1>5 DEF DependenciesAccepted, Searched, Leads
  <2> QED
    BY <2>1 DEF Moves, Acts, Places, Preparing, Listening
<1> QED
  BY <1>1, <1>2, <1>3, <1>4, <1>5 DEF Check, Searches

LEMMA BindKinds == ASSUME NEW p \in Programs, Bind(p) PROVE Acts(p)
<1>1. CASE NoTracing(p) \/ GivesUpTracing(p)
  <2>1. /\ Goto(p, AfterBinding(p)) /\ Leads(p, AfterBinding(p)) /\ AfterBinding(p) \in Places
        /\ UNCHANGED <<scene, search, tracing, running, net, compose>>
    BY <1>1 DEF NoTracing, GivesUpTracing, NoPortLeft, AfterBinding, Leads, Places, Preparing, Listening
  <2> QED
    BY <2>1 DEF Moves, Acts
<1>2. CASE BindingFails(p)
  BY <1>2 DEF BindingFails, NoPortLeft, Acts, Ends, Exit, Cause, Reasons
<1> QED
  BY <1>1, <1>2 DEF Bind, Acts

LEMMA LookKinds == ASSUME NEW p \in Programs, Look(p) PROVE Acts(p)
<1>1. CASE ComposeFails(p) \/ OfferFails(p) \/ UpFails(p) \/ AwaitTimesOut(p)
  <2>1. Ends(p)
    BY <1>1 DEF ComposeFails, OfferFails, UpFails, AwaitTimesOut, Ends, Exit, Cause, Reasons
  <2> QED
    BY <2>1 DEF Acts
<1>2. CASE Offer(p)
  <2>1. /\ \E l \in {"ask", "up"} : Goto(p, l) /\ Leads(p, l)
        /\ UNCHANGED <<scene, search, tracing, running, net, compose>>
    BY <1>2 DEF Offer, Leads
  <2> QED
    BY <2>1 DEF Moves, Acts, Places, Preparing, Listening, Prompting
<1>3. CASE NothingMissing(p) \/ (pc[p] = "upMissing" /\ DoWithout(p))
  <2>1. /\ Goto(p, "listen") /\ Leads(p, "listen")
        /\ UNCHANGED <<scene, search, tracing, running, net, compose>>
    BY <1>3 DEF NothingMissing, DoWithout, Leads
  <2> QED
    BY <2>1 DEF Moves, Acts, Places, Preparing, Listening
<1> QED
  BY <1>1, <1>2, <1>3 DEF Look, Looks, Acts

LEMMA ServeKinds == ASSUME NEW p \in Programs, Serve(p) \/ End(p) PROVE Acts(p)
<1>1. CASE ProjectTaken(p) \/ ListenFails(p) \/ NotReady(p) \/ StartFails(p) \/ Returns(p)
  <2>1. Ends(p)
    BY <1>1 DEF ProjectTaken, ListenFails, NotReady, StartFails, Returns, Ends, Exit, Done, Cause, Reasons
  <2> QED
    BY <2>1 DEF Acts
<1>2. CASE Ready(p) \/ FindsStale(p) \/ Listens(p)
  <2>1. /\ \E l \in {"start", "bindSocket", "unlink", "ready"} : Goto(p, l) /\ Leads(p, l)
        /\ UNCHANGED <<scene, search, tracing, running, net, compose>>
    BY <1>2 DEF Ready, FindsStale, Listens, Leads
  <2> QED
    BY <2>1 DEF Moves, Acts, Places, Preparing, Listening
<1> QED
  BY <1>1, <1>2 DEF Serve, Own, Sockets, End, Acts

LEMMA OtherKinds ==
  ASSUME NEW p \in Programs, Begin(p) \/ Answer(p) \/ HeadlessEnds(p) \/ Quit(p)
  PROVE  Acts(p)
<1>1. CASE Decline(p) \/ HeadlessEnds(p)
  <2>1. Ends(p)
    BY <1>1 DEF Decline, HeadlessEnds, Ends, Exit, Done, Cause, Reasons
  <2> QED
    BY <2>1 DEF Acts
<1>2. CASE Begin(p) \/ Agree(p) \/ AgreeMissing(p) \/ (pc[p] = "askMissing" /\ DoWithout(p)) \/ Quit(p)
  <2>1. /\ \E l \in {"load", "up", "upMissing", "listen", "stopping"} : Goto(p, l) /\ Leads(p, l)
        /\ UNCHANGED <<scene, search, tracing, running, net, compose>>
    BY <1>2 DEF Begin, Agree, AgreeMissing, DoWithout, Quit, Leads
  <2> QED
    BY <2>1 DEF Moves, Acts, Places, Checking, Preparing, Listening, Prompting, Serving
<1> QED
  BY <1>1, <1>2 DEF Answer

LEMMA Kinds == Next => (\E p \in Programs : Acts(p)) \/ StackMoves
<1> SUFFICES ASSUME Next PROVE (\E p \in Programs : Acts(p)) \/ StackMoves
  OBVIOUS
<1>1. CASE StackMoves
  BY <1>1
<1>2. ASSUME NEW p \in Programs,
             Begin(p) \/ Step(p) \/ Answer(p) \/ ProcessesEnd(p) \/ HeadlessEnds(p) \/ Quit(p) \/ Signalled(p) \/ Killed(p)
      PROVE  Acts(p)
  <2>1. CASE Step(p)
    BY <2>1, CheckKinds, BindKinds, LookKinds, ServeKinds DEF Step
  <2>2. CASE Begin(p) \/ Answer(p) \/ HeadlessEnds(p) \/ Quit(p)
    BY <2>2, OtherKinds
  <2>3. CASE ProcessesEnd(p) \/ Signalled(p) \/ Killed(p)
    BY <2>3 DEF Acts
  <2> QED
    BY <1>2, <2>1, <2>2, <2>3
<1> QED
  BY <1>1, <1>2 DEF Next, StackMoves

-----------------------------------------------------------------------------
(* Types. *)

LEMMA SceneStep ==
  ASSUME SceneInv, NEW p \in Programs, Acts(p)
  PROVE  /\ SceneInv' /\ scene' = scene
         /\ \A q \in Programs \ {p} : pc'[q] = pc[q] /\ why'[q] = why[q] /\ (q \in running' <=> q \in running)
<1> DEFINE Rest == \A q \in Programs \ {p} : pc'[q] = pc[q] /\ why'[q] = why[q] /\ (q \in running' <=> q \in running)
           Goal == SceneInv' /\ scene' = scene /\ Rest
<1> SUFFICES Goal
  OBVIOUS
<1> USE DEF Places, Reasons, Checking, Preparing, Listening, Prompting, Serving, Over
<1>1. ASSUME NEW l \in Places, pc' = [pc EXCEPT ![p] = l], why' = why, running' \subseteq running \cup {p},
             running \subseteq running' \cup {p}, scene' = scene
      PROVE  Goal
  <2>1. pc' \in [Programs -> Places] /\ why' \in [Programs -> Reasons] /\ running' \subseteq Programs
    BY <1>1 DEF SceneInv
  <2>2. Rest
    BY <1>1 DEF SceneInv
  <2> QED
    BY <2>1, <2>2, <1>1 DEF SceneInv
<1>2. CASE Moves(p)
  <2>1. \E l \in Places : pc' = [pc EXCEPT ![p] = l] /\ why' = why /\ running' = running /\ scene' = scene
    BY <1>2 DEF Moves, Goto
  <2> QED
    BY <2>1, <1>1
<1>3. CASE Ends(p)
  <2>1. PICK r \in Reasons : Leaves(p, r)
    BY <1>3 DEF Ends
  <2>2. pc' = [pc EXCEPT ![p] = "ended"] /\ why' = [why EXCEPT ![p] = r] /\ running' = running /\ scene' = scene
    BY <2>1 DEF Leaves
  <2>3. pc' \in [Programs -> Places] /\ why' \in [Programs -> Reasons] /\ running' \subseteq Programs
    BY <2>2 DEF SceneInv
  <2>4. Rest
    BY <2>2 DEF SceneInv
  <2> QED
    BY <2>2, <2>3, <2>4 DEF SceneInv
<1>4. CASE Searches(p)
  <2>1. pc' = pc /\ why' = why /\ running' = running /\ scene' = scene
    BY <1>4 DEF Searches, SearchFrom, SearchSkips, SearchDescends, SearchCloses, SearchReturns, Found
  <2> QED
    BY <2>1 DEF SceneInv
<1>5. CASE MovesAside(p) \/ ProcessesEnd(p)
  <2>1. pc' = pc /\ why' = why /\ (running' = running \/ running' = running \ {p}) /\ scene' = scene
    BY <1>5 DEF MovesAside, ProcessesEnd
  <2> QED
    BY <2>1 DEF SceneInv
<1>6. CASE Binds(p)
  <2>1. AfterBinding(p) \in Places
    BY DEF AfterBinding
  <2>2. pc' = [pc EXCEPT ![p] = AfterBinding(p)] /\ why' = why /\ running' = running /\ scene' = scene
    BY <1>6 DEF Binds, Goto
  <2> QED
    BY <2>1, <2>2, <1>1
<1>7. CASE Looks(p)
  <2>1. \E l \in Places : pc' = [pc EXCEPT ![p] = l] /\ why' = why /\ running' = running /\ scene' = scene
    BY <1>7 DEF Looks, Discover, Await, AwaitMissing, OfferMissing, Goto
  <2> QED
    BY <2>1, <1>1
<1>8. CASE UpAll(p) \/ UpMissing(p)
  <2>1. \E l \in Places : pc' = [pc EXCEPT ![p] = l] /\ why' = why /\ running' = running /\ scene' = scene
    BY <1>8 DEF UpAll, UpMissing, Goto
  <2> QED
    BY <2>1, <1>1
<1>9. CASE Sockets(p) \/ Signalled(p) \/ ReceiverStops(p) \/ Killed(p)
  <2>1. \E l \in Places : pc' = [pc EXCEPT ![p] = l] /\ why' = why /\ running' = running /\ scene' = scene
    BY <1>9 DEF Sockets, Probes, Enters, RemovesStale, BindsSocket,
                Signalled, ReceiverStops, Killed, Goto
  <2> QED
    BY <2>1, <1>1
<1>10. CASE Starts(p)
  <2>1. \E l \in Places : /\ pc' = [pc EXCEPT ![p] = l] /\ why' = why /\ scene' = scene
                          /\ running' \subseteq running \cup {p} /\ running \subseteq running' \cup {p}
    BY <1>10 DEF Starts, Goto
  <2> QED
    BY <2>1, <1>1
<1>11. CASE Stops(p)
  <2>1. \E l \in Places : /\ pc' = [pc EXCEPT ![p] = l] /\ why' = why /\ scene' = scene
                          /\ running' \subseteq running \cup {p} /\ running \subseteq running' \cup {p}
    BY <1>11 DEF Stops, Goto
  <2> QED
    BY <2>1, <1>1
<1> HIDE DEF Goal
<1> QED
  BY <1>2, <1>3, <1>4, <1>5, <1>6, <1>7, <1>8, <1>9, <1>10, <1>11 DEF Acts

LEMMA TracingWrites ==
  ASSUME NEW p \in Programs, Acts(p)
  PROVE  UNCHANGED tracing \/ Binds(p) \/ MovesAside(p)
BY DEF Acts, Moves, Ends, Leaves, Searches, SearchFrom, SearchSkips, SearchDescends, SearchCloses, SearchReturns, Found,
       tracing,
       Looks, Discover, Await, AwaitMissing, OfferMissing, UpAll, UpMissing,
       Sockets, Probes, Enters, RemovesStale, BindsSocket, Starts,
       Signalled, ProcessesEnd, Stops, ReceiverStops, Killed

LEMMA SearchWrites ==
  ASSUME NEW p \in Programs, Acts(p)
  PROVE  UNCHANGED search \/ Searches(p)
BY DEF Acts, Moves, Ends, Leaves, Binds, MovesAside,
       Looks, Discover, Await, AwaitMissing, OfferMissing, UpAll, UpMissing,
       Sockets, Probes, Enters, RemovesStale, BindsSocket, Starts,
       Signalled, ProcessesEnd, Stops, ReceiverStops, Killed

LEMMA NetWrites ==
  ASSUME NEW p \in Programs, Acts(p)
  PROVE  UNCHANGED net \/ Ends(p) \/ Binds(p) \/ Sockets(p) \/ Signalled(p) \/ ReceiverStops(p) \/ Killed(p)
BY DEF Acts, Moves, Searches, SearchFrom, SearchSkips, SearchDescends, SearchCloses, SearchReturns, Found, net, MovesAside,
       Looks, Discover, Await, AwaitMissing, OfferMissing, UpAll, UpMissing, Starts, ProcessesEnd, Stops

LEMMA ComposeWrites ==
  ASSUME NEW p \in Programs, Acts(p)
  PROVE  UNCHANGED compose \/ Looks(p) \/ UpAll(p) \/ UpMissing(p)
BY DEF Acts, Moves, Ends, Leaves, Searches, SearchFrom, SearchSkips, SearchDescends, SearchCloses, SearchReturns, Found,
       compose,
       Binds, MovesAside, Sockets, Probes, Enters, RemovesStale, BindsSocket, Starts,
       Signalled, ProcessesEnd, Stops, ReceiverStops, Killed

LEMMA TracingStep ==
  ASSUME Typed, NEW p \in Programs, Acts(p)
  PROVE  /\ TracingTypes'
         /\ \A q \in Programs \ {p} : tries'[q] = tries[q] /\ told'[q] = told[q]
<1>1. CASE UNCHANGED tracing
  BY <1>1 DEF tracing, Typed, TracingTypes
<1>2. CASE Binds(p)
  <2>1. Port(p) \in Ports /\ tries' = tries /\ told' = [told EXCEPT ![p] = Port(p)]
    BY <1>2 DEF Binds, Free
  <2> QED
    BY <2>1 DEF Typed, TracingTypes
<1>3. CASE MovesAside(p)
  <2>1. tries[p] + 1 < SearchRange /\ tries' = [tries EXCEPT ![p] = tries[p] + 1] /\ told' = told
    BY <1>3 DEF MovesAside
  <2>2. tries \in [Programs -> 0 .. SearchRange] /\ told \in [Programs -> Ports \cup {NoPort}]
    BY DEF Typed, TracingTypes
  <2>3. tries[p] + 1 \in 0 .. SearchRange
    BY <2>1, <2>2, PortsAssumption
  <2> QED
    BY <2>1, <2>2, <2>3 DEF TracingTypes
<1> QED
  BY <1>1, <1>2, <1>3, TracingWrites

\* The ports of p are given up, or not.
Frees(p) == owner' \in {owner, [n \in Ports |-> IF owner[n] = p THEN Nobody ELSE owner[n]]}

LEMMA OwnerKinds ==
  ASSUME NEW p \in Programs, Acts(p)
  PROVE  Frees(p) \/ Binds(p)
BY NetWrites DEF Frees, net, Ends, Leaves, Killed, FreePorts, ReceiverStops, Sockets, Probes, Enters, RemovesStale,
                 BindsSocket, Signalled

LEMMA SocketKinds ==
  ASSUME NEW p \in Programs, Acts(p)
  PROVE  UNCHANGED <<socket, listening, raced>> \/ Abandon(p) \/ Unlink(p) \/ Sockets(p)
BY NetWrites DEF net, Ends, Binds, Killed, Signalled, ReceiverStops

LEMMA NetStep ==
  ASSUME Typed, NEW p \in Programs, Acts(p)
  PROVE  NetTypes'
<1>1. Projects' = Projects /\ Conf(p).project \in Projects
  BY SceneStep DEF Typed, Projects, Conf
<1>2. /\ owner \in [Ports -> Programs \cup {Nobody, Foreign}]
      /\ socket \in [Projects -> Programs \cup {Nobody}]
      /\ listening \subseteq Programs /\ raced \subseteq Projects
  BY DEF Typed, NetTypes
<1>3. owner' \in [Ports -> Programs \cup {Nobody, Foreign}]
  <2>1. CASE Frees(p)
    BY <1>2, <2>1 DEF Frees
  <2>2. CASE Binds(p)
    BY <1>2, <2>2 DEF Binds
  <2> QED
    BY <2>1, <2>2, OwnerKinds
<1>4. socket' \in [Projects -> Programs \cup {Nobody}] /\ listening' \subseteq Programs /\ raced' \subseteq Projects
  <2>1. CASE UNCHANGED <<socket, listening, raced>>
    BY <1>2, <2>1
  <2>2. CASE Abandon(p)
    BY <1>2, <2>2 DEF Abandon
  <2>3. CASE Unlink(p)
    BY <1>2, <2>3 DEF Unlink
  <2>4. CASE Probes(p)
    BY <1>1, <1>2, <2>4 DEF Probes, Enters
  <2>5. CASE RemovesStale(p)
    BY <1>1, <1>2, <2>5 DEF RemovesStale
  <2>6. CASE BindsSocket(p)
    BY <1>1, <1>2, <2>6 DEF BindsSocket
  <2> QED
    BY <2>1, <2>2, <2>3, <2>4, <2>5, <2>6, SocketKinds DEF Sockets
<1> QED
  BY <1>1, <1>3, <1>4 DEF NetTypes

LEMMA ComposeUpTypes ==
  ASSUME Typed, NEW S, NEW r, ComposeUp(S, r)
  PROVE  /\ stack' \in [Services -> {"down", "coming", "up", "done", "failed"}]
         /\ replaced' \subseteq Services /\ surprise' = surprise
         /\ \A s \in Services : stack'[s] = "up" => stack[s] = "up"
<1>1. stack \in [Services -> {"down", "coming", "up", "done", "failed"}] /\ replaced \subseteq Services
  BY DEF Typed, ComposeTypes
<1>2. \A s \in Services : stack'[s] = "coming" \/ stack'[s] = stack[s]
  BY DEF ComposeUp
<1>3. stack' \in [Services -> {"down", "coming", "up", "done", "failed"}]
  BY <1>1 DEF ComposeUp
<1>4. replaced' \subseteq Services
  BY <1>1 DEF ComposeUp, Up
<1> QED
  BY <1>2, <1>3, <1>4 DEF ComposeUp

LEMMA ComposeStep ==
  ASSUME Typed, NEW p \in Programs, Acts(p)
  PROVE  ComposeTypes'
<1> DEFINE A == UNION {Active(Conf(q)) : q \in Programs}
<1>1. A' = A
  BY SceneStep DEF Typed, Conf
<1>2. /\ stack \in [Services -> {"down", "coming", "up", "done", "failed"}]
      /\ found \in [Programs -> SUBSET Services] /\ asked \in [Programs -> SUBSET A]
      /\ replaced \subseteq Services /\ surprise \subseteq Services
  BY DEF Typed, ComposeTypes
<1>3. Expected(p) \subseteq A
  BY DEF Expected
<1> HIDE DEF A
<1>4. SUFFICES /\ stack' \in [Services -> {"down", "coming", "up", "done", "failed"}]
               /\ found' \in [Programs -> SUBSET Services] /\ asked' \in [Programs -> SUBSET A]
               /\ replaced' \subseteq Services /\ surprise' \subseteq Services
  BY <1>1 DEF ComposeTypes, A
<1>5. CASE UNCHANGED compose
  BY <1>2, <1>5 DEF compose
<1>6. CASE Discover(p) \/ Await(p) \/ AwaitMissing(p)
  <2>1. /\ stack' = stack /\ asked' = asked /\ replaced' = replaced /\ surprise' = surprise
        /\ \E x \in SUBSET Services : found' = [found EXCEPT ![p] = x]
    BY <1>2, <1>6 DEF Discover, Await, AwaitMissing, Up
  <2> QED
    BY <2>1, <1>2
<1>7. CASE OfferMissing(p)
  <2>1. /\ stack' = stack /\ found' = found /\ replaced' = replaced /\ surprise' = surprise
        /\ \E completed \in Answers : asked' = [asked EXCEPT ![p] = MissingServices(p, completed)]
    BY <1>7 DEF OfferMissing
  <2>2. \A completed : MissingServices(p, completed) \in SUBSET A
    BY <1>3 DEF MissingServices
  <2> QED
    BY <2>1, <2>2, <1>2
<1>8. CASE UpAll(p) \/ UpMissing(p)
  <2>1. found' = found /\ asked' = asked /\ \E S, r : ComposeUp(S, r)
    BY <1>8 DEF UpAll, UpMissing
  <2>2. PICK S, r : ComposeUp(S, r)
    BY <2>1
  <2>3. /\ stack' \in [Services -> {"down", "coming", "up", "done", "failed"}]
        /\ replaced' \subseteq Services /\ surprise' = surprise
    BY <2>2, ComposeUpTypes
  <2> QED
    BY <2>1, <2>3, <1>2
<1> QED
  BY <1>5, <1>6, <1>7, <1>8, ComposeWrites DEF Looks

LEMMA StackStep ==
  ASSUME Typed, StackMoves
  PROVE  /\ Typed' /\ UNCHANGED <<scene, pc, why, search, tracing, running, net, found, asked, replaced>>
         /\ surprise \subseteq surprise'
         /\ \A s \in Services : stack'[s] = "up" => stack[s] = "up" \/ Offering = {} \/ s \in surprise'
<1>1. /\ stack \in [Services -> {"down", "coming", "up", "done", "failed"}]
      /\ surprise \subseteq Services
  BY DEF Typed, ComposeTypes
<1>2. UNCHANGED <<scene, pc, why, search, tracing, running, net, found, asked, replaced>>
  BY DEF StackMoves, ComesUp, Completes, DeveloperStarts, tracing, net
<1>3. /\ stack' \in [Services -> {"down", "coming", "up", "done", "failed"}]
      /\ surprise' \subseteq Services /\ surprise \subseteq surprise'
  BY <1>1 DEF StackMoves, ComesUp, Completes, DeveloperStarts
<1>4. \A s \in Services : stack'[s] = "up" => stack[s] = "up" \/ Offering = {} \/ s \in surprise'
  BY <1>1 DEF StackMoves, ComesUp, Completes, DeveloperStarts
<1>5. SceneInv' /\ TracingTypes' /\ NetTypes'
  BY <1>2 DEF Typed, SceneInv, TracingTypes, NetTypes, tracing, net, Projects, Conf
<1>6. ComposeTypes'
  BY <1>2, <1>3 DEF Typed, ComposeTypes, Conf
<1> QED
  BY <1>2, <1>3, <1>4, <1>5, <1>6 DEF Typed

LEMMA TypedInit == Init => Typed
<1> SUFFICES ASSUME Init PROVE Typed
  OBVIOUS
<1>1. SceneInv
  BY DEF Init, SceneInv, Places, Reasons
<1>2. TracingTypes
  BY PortsAssumption DEF Init, TracingTypes
<1>3. NetTypes
  BY DEF Init, NetTypes
<1>4. ComposeTypes
  BY ScenesAssumption DEF Init, ComposeTypes
<1> QED
  BY <1>1, <1>2, <1>3, <1>4 DEF Typed

LEMMA TypedStep == Typed /\ [Next]_vars => Typed'
<1> SUFFICES ASSUME Typed, [Next]_vars PROVE Typed'
  OBVIOUS
<1>1. CASE UNCHANGED vars
  BY <1>1 DEF vars, Typed, SceneInv, TracingTypes, NetTypes, ComposeTypes, Projects, Conf
<1>2. ASSUME NEW p \in Programs, Acts(p) PROVE Typed'
  BY <1>2, SceneStep, TracingStep, NetStep, ComposeStep DEF Typed
<1>3. CASE StackMoves
  BY <1>3, StackStep
<1> QED
  BY <1>1, <1>2, <1>3, Kinds

LEMMA AlwaysTyped == Spec => []Typed
BY TypedInit, TypedStep, PTL DEF Spec

-----------------------------------------------------------------------------
(* findCycle and ValidateDependencies. *)

LEMMA RootsIs ==
  ASSUME NEW s, s = [roots |-> s.roots, frames |-> s.frames, cycle |-> s.cycle, mark |-> s.mark], NEW x
  PROVE  [s EXCEPT !.roots = x] = [roots |-> x, frames |-> s.frames, cycle |-> s.cycle, mark |-> s.mark]
  OBVIOUS

LEMMA SearchStep ==
  ASSUME Typed, SearchInv, NEW p \in Programs, Searches(p)
  PROVE  /\ pc[p] = "search" /\ pc' = pc /\ why' = why
         /\ \E t : SearchSound(Conf(p), t) /\ search' = [search EXCEPT ![p] = t]
<1> DEFINE c == Conf(p)
           s == search[p]
           Sound == \E t : SearchSound(c, t) /\ Found(p, t)
<1>1. Wellformed(c)
  BY ScenesAssumption DEF Typed, SceneInv, Conf
<1>2. SearchSound(c, s) /\ SearchTypes(c, s) /\ PathInv(c, s) /\ PassedInv(c, s) /\ Unseen(c, s) /\ DoneInv(c, s)
  BY DEF SearchInv, SearchSound
<1>3. s.roots \in Seq(Names(c)) /\ s.mark \in [Names(c) -> {"unvisited", "visiting", "done"}]
  BY <1>2 DEF SearchTypes
<1>4. s.cycle = <<>>
  BY DEF Searches, SearchFrom, SearchSkips, SearchDescends, SearchCloses, SearchReturns, Searching
<1> HIDE DEF c, s
<1>5. SUFFICES Sound
  BY DEF Searches, SearchFrom, SearchSkips, SearchDescends, SearchCloses, SearchReturns, Searching, Found, c
<1>6. CASE SearchSkips(p)
  <2>1. Looking(s) /\ (Followed(c, s) => s.mark[Seen(s)] = "done") /\ Found(p, Passed(s))
    BY <1>6 DEF SearchSkips, c, s
  <2> QED
    BY <1>2, <2>1, PassSound
<1>7. CASE SearchReturns(p)
  <2>1. s.frames # <<>> /\ Last(s.frames).left = <<>> /\ Found(p, Leave(s))
    BY <1>7 DEF SearchReturns, s
  <2> QED
    BY <1>2, <2>1, LeaveSound
<1>8. CASE SearchCloses(p)
  <2>1. /\ Looking(s) /\ Followed(c, s) /\ s.mark[Seen(s)] = "visiting"
        /\ Found(p, [s EXCEPT !.cycle = CycleOf(s, Seen(s))])
    BY <1>8 DEF SearchCloses, c, s
  <2> QED
    BY <1>2, <2>1, CloseSound
<1>9. CASE SearchDescends(p)
  <2> DEFINE t == Passed(s)
             n == Seen(s)
  <2>1. Looking(s) /\ Followed(c, s) /\ s.mark[n] = "unvisited" /\ Found(p, Visit(c, t, n))
    BY <1>9 DEF SearchDescends, c, s
  <2>2. /\ SearchTypes(c, t) /\ PathInv(c, t) /\ PassedBut(c, t, {n}) /\ Unseen(c, t) /\ DoneInv(c, t)
        /\ t.cycle = <<>> /\ t.mark[n] = "unvisited" /\ n \in Needs(c, Last(t.frames).at)
    BY <1>2, <1>4, <2>1, PassKeeps
  <2>3. n \in Names(c)
    BY <2>1 DEF Followed
  <2> HIDE DEF t, n
  <2>4. SearchSound(c, Visit(c, t, n))
    BY <1>1, <2>2, <2>3, VisitSound DEF Unseen
  <2> QED
    BY <2>1, <2>4
<1>10. CASE SearchFrom(p)
  <2> DEFINE n == Head(s.roots)
             t == [s EXCEPT !.roots = Tail(s.roots)]
  <2>1. s.frames = <<>> /\ s.roots # <<>> /\ Found(p, IF s.mark[n] = "done" THEN t ELSE Visit(c, t, n))
    BY <1>10 DEF SearchFrom, c, s
  <2>2. n \in Names(c) /\ Tail(s.roots) \in Seq(Names(c)) /\ ToSet(s.roots) = {n} \cup ToSet(Tail(s.roots))
    BY <2>1, <1>3, Taken
  <2>3. /\ t.roots = Tail(s.roots) /\ t.frames = s.frames /\ t.cycle = s.cycle /\ t.mark = s.mark
        /\ t = [roots |-> t.roots, frames |-> t.frames, cycle |-> t.cycle, mark |-> t.mark]
    <3>1. s = [roots |-> s.roots, frames |-> s.frames, cycle |-> s.cycle, mark |-> s.mark]
      BY <1>2 DEF SearchTypes
    <3>2. t = [roots |-> Tail(s.roots), frames |-> s.frames, cycle |-> s.cycle, mark |-> s.mark]
      BY <3>1, RootsIs
    <3> QED
      BY <3>2
  <2> HIDE DEF n, t
  <2>4. SearchTypes(c, t)
    BY <1>2, <2>2, <2>3 DEF SearchTypes
  <2>5. DOMAIN t.frames = {} /\ DOMAIN s.frames = {}
    BY <2>1, <2>3
  <2>6. PathInv(c, t)
    BY <1>2, <2>3, <2>5 DEF PathInv
  <2>7. PassedBut(c, t, {n}) /\ PassedInv(c, t)
    BY <2>5 DEF PassedInv, PassedBut
  <2>8. DoneInv(c, t)
    <3>1. DoneOf(c, t) = DoneOf(c, s)
      BY <2>3 DEF DoneOf
    <3> QED
      BY <3>1, <1>2 DEF DoneInv
  <2>9. \A m \in Names(c) : t.mark[m] = "unvisited" => m \in ToSet(t.roots) \cup {n}
    BY <1>2, <2>2, <2>3 DEF Unseen
  <2>10. CASE s.mark[n] = "done"
    <3>1. Unseen(c, t)
      BY <2>3, <2>9, <2>10 DEF Unseen
    <3>2. SearchSound(c, t)
      BY <1>4, <2>3, <2>4, <2>6, <2>7, <2>8, <3>1 DEF SearchSound
    <3> QED
      BY <2>1, <2>10, <3>2
  <2>11. CASE s.mark[n] # "done"
    <3>1. s.mark[n] = "unvisited"
      <4>1. s.mark[n] \in {"unvisited", "visiting", "done"}
        BY <1>3, <2>2
      <4>2. s.mark[n] # "visiting"
        BY <1>2, <2>2, <2>5 DEF PathInv
      <4> QED
        BY <4>1, <4>2, <2>11
    <3>2. SearchSound(c, Visit(c, t, n))
      BY <1>1, <1>4, <2>1, <2>2, <2>3, <2>4, <2>6, <2>7, <2>8, <2>9, <3>1, VisitSound
    <3> QED
      BY <2>1, <2>11, <3>2
  <2> QED
    BY <2>10, <2>11
<1> QED
  BY <1>6, <1>7, <1>8, <1>9, <1>10 DEF Searches

LEMMA ValidationInit == Init => ValidationInv
<1> SUFFICES ASSUME Init PROVE ValidationInv
  OBVIOUS
<1>1. \A p \in Programs : Wellformed(Conf(p)) /\ search[p] = NewSearch(Conf(p)) /\ pc[p] = "off" /\ why[p] = "none"
  BY ScenesAssumption DEF Init, Conf
<1>2. SearchMap
  BY DEF Init, SearchMap
<1>3. SearchInv
  BY <1>1, NewSound DEF SearchInv
<1>4. GateInv
  BY <1>1 DEF GateInv, Preparing, Listening, Prompting, Serving
<1> QED
  BY <1>2, <1>3, <1>4 DEF ValidationInv

Past == Preparing \cup Prompting \cup Serving

\* A program gets past the check only by passing it.
LEMMA GateStep ==
  ASSUME Typed, ValidationInv, NEW p \in Programs, Acts(p)
  PROVE  /\ pc'[p] \in Past /\ ~Conf(p).commands =>
              \/ pc[p] \in Past
              \/ pc[p] = "search" /\ Objections(Conf(p)) = {} /\ search[p].frames = <<>> /\ search[p].roots = <<>>
         /\ why'[p] = "dependencies" => why[p] = "dependencies" \/ Objections(Conf(p)) # {} \/ search[p].cycle # <<>>
<1> DEFINE Goal1 == pc'[p] \in Past /\ ~Conf(p).commands =>
              \/ pc[p] \in Past
              \/ pc[p] = "search" /\ Objections(Conf(p)) = {} /\ search[p].frames = <<>> /\ search[p].roots = <<>>
           Goal2 == why'[p] = "dependencies" => why[p] = "dependencies" \/ Objections(Conf(p)) # {} \/ search[p].cycle # <<>>
<1> SUFFICES Goal1 /\ Goal2
  OBVIOUS
<1>1. pc \in [Programs -> Places] /\ why \in [Programs -> Reasons]
  BY DEF Typed, SceneInv
<1> USE DEF Past, Preparing, Listening, Prompting, Serving
<1>2. CASE Moves(p)
  <2>1. PICK l \in Places : Goto(p, l) /\ Leads(p, l)
    BY <1>2 DEF Moves
  <2>2. pc'[p] = l /\ why' = why
    BY <1>1, <2>1 DEF Goto
  <2>3. Goal1
    BY <2>1, <2>2 DEF Leads
  <2> QED
    BY <2>2, <2>3
<1>3. CASE Ends(p)
  <2>1. PICK r \in Reasons : Leaves(p, r) /\ Cause(p, r)
    BY <1>3 DEF Ends
  <2>2. pc'[p] = "ended" /\ why'[p] = r
    BY <1>1, <2>1 DEF Leaves
  <2>3. Goal2
    BY <2>1, <2>2 DEF Cause
  <2> QED
    BY <2>2, <2>3
<1>4. CASE Searches(p)
  BY <1>4, SearchStep DEF ValidationInv
<1>5. CASE Binds(p) \/ MovesAside(p) \/ Looks(p) \/ UpAll(p) \/ UpMissing(p) \/ Sockets(p) \/ Starts(p)
           \/ Signalled(p) \/ Stops(p) \/ ReceiverStops(p)
  <2>1. pc[p] \in Past /\ why' = why
    BY <1>5 DEF Binds, MovesAside, Looks, Discover, Await, AwaitMissing, OfferMissing, UpAll, UpMissing, Sockets,
                Probes, Enters, RemovesStale, BindsSocket, Starts,
                Signalled, Stops, ReceiverStops, Goto
  <2> QED
    BY <2>1
<1>6. CASE ProcessesEnd(p)
  BY <1>6 DEF ProcessesEnd
<1>7. CASE Killed(p)
  <2>1. pc'[p] = "killed" /\ why' = why
    BY <1>1, <1>7 DEF Killed, Goto
  <2> QED
    BY <2>1
<1> HIDE DEF Goal1, Goal2
<1> QED
  BY <1>2, <1>3, <1>4, <1>5, <1>6, <1>7 DEF Acts

LEMMA ValidationStep == Typed /\ ValidationInv /\ [Next]_vars => ValidationInv'
<1> SUFFICES ASSUME Typed, ValidationInv, [Next]_vars PROVE ValidationInv'
  OBVIOUS
<1>1. CASE UNCHANGED <<scene, pc, why, search>>
  BY <1>1 DEF ValidationInv, SearchMap, SearchInv, GateInv, Conf
<1>2. ASSUME NEW p \in Programs, Acts(p) PROVE ValidationInv'
  <2>1. scene' = scene /\ \A q \in Programs \ {p} : pc'[q] = pc[q] /\ why'[q] = why[q]
    BY <1>2, SceneStep DEF Typed
  <2>2. \A q \in Programs : Conf(q)' = Conf(q)
    BY <2>1 DEF Conf
  <2>3. /\ SearchMap' /\ \A q \in Programs : SearchSound(Conf(q), search'[q])
        /\ \A q \in Programs : search'[q] = search[q] \/ (q = p /\ pc[p] = "search" /\ pc' = pc)
    <3>1. CASE UNCHANGED search
      BY <3>1 DEF ValidationInv, SearchMap, SearchInv
    <3>2. CASE Searches(p)
      <4>1. pc[p] = "search" /\ pc' = pc
        BY <3>2, SearchStep DEF ValidationInv
      <4>2. PICK t : SearchSound(Conf(p), t) /\ search' = [search EXCEPT ![p] = t]
        BY <3>2, SearchStep DEF ValidationInv
      <4>3. \A q \in Programs : search'[q] = IF q = p THEN t ELSE search[q]
        BY <4>2 DEF ValidationInv, SearchMap
      <4>4. SearchMap'
        BY <4>2 DEF ValidationInv, SearchMap
      <4> QED
        BY <4>1, <4>2, <4>3, <4>4 DEF ValidationInv, SearchInv
    <3> QED
      BY <3>1, <3>2, <1>2, SearchWrites
  <2>4. SearchInv'
    BY <2>2, <2>3 DEF SearchInv
  <2>5. ASSUME NEW q \in Programs, pc'[q] \in Past, ~Conf(q).commands
        PROVE  Objections(Conf(q)) = {} /\ DoneOf(Conf(q), search'[q]) = Names(Conf(q))
    <3>1. CASE pc[q] \in Past
      <4>1. Objections(Conf(q)) = {} /\ DoneOf(Conf(q), search[q]) = Names(Conf(q))
        BY <2>5, <3>1 DEF ValidationInv, GateInv, Past
      <4>2. search'[q] = search[q]
        BY <2>3, <3>1 DEF Past, Preparing, Listening, Prompting, Serving
      <4> QED
        BY <4>1, <4>2
    <3>2. CASE pc[q] \notin Past
      <4>1. q = p
        BY <2>1, <2>5, <3>2
      <4>2. /\ pc[p] = "search" /\ Objections(Conf(p)) = {}
            /\ search[p].frames = <<>> /\ search[p].roots = <<>>
        BY <1>2, <2>5, <3>2, <4>1, GateStep
      <4>3. search'[p] = search[p]
        BY <2>3, <2>5, <3>2, <4>1
      <4>4. DoneOf(Conf(p), search[p]) = Names(Conf(p))
        BY <4>2, AllDone DEF ValidationInv, SearchInv
      <4> QED
        BY <4>1, <4>2, <4>3, <4>4
    <3> QED
      BY <3>1, <3>2
  <2>6. ASSUME NEW q \in Programs, why'[q] = "dependencies"
        PROVE  Objections(Conf(q)) # {} \/ search'[q].cycle # <<>>
    <3>1. Objections(Conf(q)) # {} \/ search[q].cycle # <<>>
      BY <1>2, <2>1, <2>6, GateStep DEF ValidationInv, GateInv
    <3>2. CASE search'[q] = search[q]
      BY <3>1, <3>2
    <3>3. CASE search'[q] # search[q]
      \* findCycle goes on only as long as it has found none.
      <4>1. q = p /\ Searches(p)
        BY <1>2, <2>3, <3>3, SearchWrites
      <4>2. search[p].cycle = <<>>
        BY <4>1 DEF Searches, SearchFrom, SearchSkips, SearchDescends, SearchCloses, SearchReturns, Searching
      <4> QED
        BY <3>1, <4>1, <4>2
    <3> QED
      BY <3>2, <3>3
  <2>7. GateInv'
    BY <2>2, <2>5, <2>6 DEF GateInv, Past
  <2> QED
    BY <2>3, <2>4, <2>7 DEF ValidationInv
<1>3. CASE StackMoves
  BY <1>1, <1>3, StackStep
<1> QED
  BY <1>1, <1>2, <1>3, Kinds DEF vars

LEMMA ValidationImplies == Typed /\ ValidationInv => ValidationSound
<1> SUFFICES ASSUME Typed, ValidationInv PROVE ValidationSound
  OBVIOUS
<1>1. \A p \in Programs : SearchSound(Conf(p), search[p])
  BY DEF ValidationInv, SearchInv
<1>2. AcceptedCanStart
  BY <1>1, AcceptedStarts DEF ValidationInv, GateInv, AcceptedCanStart
<1>3. RefusedForCause
  <2> SUFFICES ASSUME NEW p \in Programs, why[p] = "dependencies" PROVE Fault(Conf(p))
    BY DEF RefusedForCause, Fault
  <2>1. Objections(Conf(p)) # {} \/ search[p].cycle # <<>>
    BY DEF ValidationInv, GateInv
  <2>2. search[p].cycle # <<>> => RealCycle(Conf(p), search[p].cycle)
    BY <1>1 DEF SearchSound
  <2> QED
    BY <2>1, <2>2, ObjectionsAreFaults, CyclesAreFaults
<1>4. CycleIsReal
  BY <1>1 DEF CycleIsReal, SearchSound, RealCycle, Needs
<1> QED
  BY <1>2, <1>3, <1>4 DEF ValidationSound

\* Whatever the configurations are, ValidateDependencies accepts none in which
\* a process would wait for ever, refuses none without a fault, and the cycle
\* that findCycle reports is one.
THEOREM ValidationIsSound == Spec => []ValidationSound
<1>1. Spec => [](Typed /\ ValidationInv)
  <2>1. Init => Typed /\ ValidationInv
    BY TypedInit, ValidationInit
  <2>2. Typed /\ ValidationInv /\ [Next]_vars => (Typed /\ ValidationInv)'
    BY TypedStep, ValidationStep
  <2> QED
    BY <2>1, <2>2, PTL DEF Spec
<1>2. Typed /\ ValidationInv => ValidationSound
  BY ValidationImplies
<1> QED
  BY <1>1, <1>2, PTL

-----------------------------------------------------------------------------
(* The port a program holds. *)

\* A port that is named is a number.
LEMMA FirstIsNumber ==
  ASSUME Typed, NEW p \in Programs
  PROVE  FirstPort(Conf(p)) \in Nat
<1>1. Wellformed(Conf(p))
  BY ScenesAssumption DEF Typed, SceneInv, Conf
<1>2. \A n \in {Conf(p).portFlag, Conf(p).port} : n = NoPort \/ n \in Nat
  BY <1>1 DEF Wellformed
<1>3. DefaultPort \in Nat
  BY PortsAssumption
<1> QED
  BY <1>2, <1>3 DEF FirstPort

\* Where a step leads, coarsely.
LEMMA PortMoves ==
  ASSUME Typed, NEW p \in Programs, Acts(p), ~Binds(p), ~Ends(p), ~Killed(p)
  PROVE  /\ why' = why
         /\ pc'[p] \in Unbound => pc[p] \in Unbound /\ (pc'[p] # "bind" => pc[p] # "bind")
         /\ pc'[p] \in Holds => pc[p] \in Holds \cup {"bind"}
         /\ pc'[p] # "ended"  \/ pc[p] = "ended"
         /\ pc[p] = "ended" => pc'[p] = "ended"
<1> DEFINE Goal == /\ why' = why
                   /\ pc'[p] \in Unbound => pc[p] \in Unbound /\ (pc'[p] # "bind" => pc[p] # "bind")
                   /\ pc'[p] \in Holds => pc[p] \in Holds \cup {"bind"}
                   /\ pc'[p] # "ended"  \/ pc[p] = "ended"
                   /\ pc[p] = "ended" => pc'[p] = "ended"
<1> SUFFICES Goal
  OBVIOUS
<1>1. pc \in [Programs -> Places]
  BY DEF Typed, SceneInv
<1> USE DEF Unbound, Holds, Preparing, Listening, Prompting
<1>2. CASE Moves(p)
  <2>1. PICK l \in Places : Goto(p, l) /\ Leads(p, l)
    BY <1>2 DEF Moves
  <2>2. pc'[p] = l /\ why' = why
    BY <1>1, <2>1 DEF Goto
  <2> QED
    BY <2>1, <2>2 DEF Leads
<1>3. CASE Searches(p) \/ MovesAside(p) \/ ProcessesEnd(p)
  <2>1. pc' = pc /\ why' = why
    BY <1>3 DEF Searches, SearchFrom, SearchSkips, SearchDescends, SearchCloses, SearchReturns, Found, MovesAside,
                ProcessesEnd
  <2> QED
    BY <2>1
<1>4. CASE Looks(p)
  <2>1. /\ pc[p] \in {"discover", "await", "awaitMissing", "missing"} /\ why' = why
        /\ \E l \in {"offer", "missing", "listen", "askMissing", "upMissing"} : pc' = [pc EXCEPT ![p] = l]
    BY <1>4 DEF Looks, Discover, Await, AwaitMissing, OfferMissing, Goto
  <2>2. pc'[p] \in {"offer", "missing", "listen", "askMissing", "upMissing"}
    BY <1>1, <2>1
  <2> QED
    BY <2>1, <2>2
<1>5. CASE UpAll(p) \/ UpMissing(p)
  <2>1. /\ pc[p] \in {"up", "upMissing"} /\ why' = why
        /\ \E l \in {"await", "awaitMissing"} : pc' = [pc EXCEPT ![p] = l]
    BY <1>5 DEF UpAll, UpMissing, Goto
  <2>2. pc'[p] \in {"await", "awaitMissing"}
    BY <1>1, <2>1
  <2> QED
    BY <2>1, <2>2
<1>6. CASE Sockets(p) \/ Starts(p)
  <2>1. /\ pc[p] \in {"listen", "unlink", "bindSocket", "start"} /\ why' = why
        /\ \E l \in {"lstat", "bindSocket", "chmod", "serving"} : pc' = [pc EXCEPT ![p] = l]
    BY <1>6 DEF Sockets, Probes, Enters, RemovesStale, BindsSocket, Starts, Goto
  <2>2. pc'[p] \in {"lstat", "bindSocket", "chmod", "serving"}
    BY <1>1, <2>1
  <2> QED
    BY <2>1, <2>2
<1>7. CASE Signalled(p) \/ Stops(p) \/ ReceiverStops(p)
  <2>1. /\ pc[p] \in {"serving", "stopping", "signalled", "stopped"} /\ why' = why
        /\ \E l \in {"signalled", "stopped", "silent"} : /\ pc' = [pc EXCEPT ![p] = l]
    BY <1>7 DEF Signalled, Stops, ReceiverStops, Goto
  <2>2. pc'[p] \in {"signalled", "stopped", "silent"}
    BY <1>1, <2>1
  <2> QED
    BY <2>1, <2>2
<1> HIDE DEF Goal
<1> QED
  BY <1>2, <1>3, <1>4, <1>5, <1>6, <1>7 DEF Acts

\* The step of p itself.
LEMMA OwnStep ==
  ASSUME Typed, HoldsInv, NEW p \in Programs, Acts(p)
  PROVE  Bound(p)' /\ Named(p)' /\ Excused(p)'
<1>1. /\ pc \in [Programs -> Places] /\ why \in [Programs -> Reasons]
      /\ tries \in [Programs -> 0 .. SearchRange] /\ told \in [Programs -> Ports \cup {NoPort}]
      /\ owner \in [Ports -> Programs \cup {Nobody, Foreign}]
  BY DEF Typed, SceneInv, TracingTypes, NetTypes
<1>2. scene' = scene
  BY SceneStep DEF Typed
<1>3. Bound(p) /\ Named(p) /\ Excused(p)
  BY DEF HoldsInv
<1>4. CASE Binds(p)
  <2>1. /\ pc[p] = "bind" /\ Port(p) \in Ports /\ owner' = [owner EXCEPT ![Port(p)] = p]
        /\ told' = [told EXCEPT ![p] = Port(p)] /\ tries' = tries /\ why' = why
        /\ pc' = [pc EXCEPT ![p] = AfterBinding(p)]
    BY <1>4 DEF Binds, Free, Goto
  <2>2. pc'[p] \in {"listen", "discover"} /\ told'[p] = Port(p) /\ owner'[Port(p)] = p
    BY <1>1, <2>1 DEF AfterBinding
  <2>3. Bound(p)'
    BY <1>3, <2>1, <2>2 DEF Bound, Unbound, Holds
  <2>4. Named(p)'
    <3> SUFFICES ASSUME PortNamed(Conf(p)) PROVE tries[p] = 0 /\ Port(p) = FirstPort(Conf(p))
      BY <1>2, <2>1, <2>2 DEF Named, Conf
    <3>1. tries[p] = 0
      BY <1>3 DEF Named
    <3> QED
      BY <3>1, FirstIsNumber DEF Port
  <2>5. Excused(p)'
    <3>1. why[p] = "none"
      BY <1>3, <2>1 DEF Bound
    <3> QED
      BY <2>1, <3>1 DEF Excused
  <2> QED
    BY <2>3, <2>4, <2>5
<1>5. CASE Ends(p)
  <2>1. PICK r \in Reasons : Leaves(p, r) /\ Cause(p, r)
    BY <1>5 DEF Ends
  <2>2. pc'[p] = "ended" /\ why'[p] = r /\ tries' = tries /\ told' = told
    BY <1>1, <2>1 DEF Leaves, tracing
  <2>3. r # "none"
    BY <2>1 DEF Cause
  <2>4. Bound(p)'
    BY <2>2, <2>3 DEF Bound, Unbound, Holds, Preparing, Listening, Prompting
  <2>5. Named(p)'
    BY <1>2, <1>3, <2>2 DEF Named, Conf
  <2>6. Excused(p)'
    BY <1>2, <2>1, <2>2 DEF Excused, Cause, Conf
  <2> QED
    BY <2>4, <2>5, <2>6
<1>6. CASE Killed(p)
  <2>1. pc'[p] = "killed" /\ pc[p] # "ended" /\ why' = why /\ tries' = tries /\ told' = told
    BY <1>1, <1>6 DEF Killed, Goto, tracing, Over
  <2>2. Bound(p)'
    BY <1>3, <2>1 DEF Bound, Unbound, Holds, Preparing, Listening, Prompting
  <2>3. Named(p)' /\ Excused(p)'
    BY <1>2, <1>3, <2>1 DEF Named, Excused, Conf
  <2> QED
    BY <2>2, <2>3
<1>7. CASE MovesAside(p)
  <2>1. /\ pc[p] = "bind" /\ ~PortNamed(Conf(p)) /\ pc' = pc /\ why' = why /\ told' = told /\ owner' = owner
    BY <1>7 DEF MovesAside, net
  <2>2. Bound(p)'
    BY <1>3, <2>1 DEF Bound, Unbound
  <2>3. Named(p)' /\ Excused(p)'
    BY <1>2, <1>3, <2>1 DEF Named, Excused, Conf
  <2> QED
    BY <2>2, <2>3
<1>8. CASE ~Binds(p) /\ ~Ends(p) /\ ~Killed(p) /\ ~MovesAside(p)
  <2>1. /\ why' = why
        /\ pc'[p] \in Unbound => pc[p] \in Unbound /\ (pc'[p] # "bind" => pc[p] # "bind")
        /\ pc'[p] \in Holds => pc[p] \in Holds \cup {"bind"}
        /\ pc'[p] # "ended"  \/ pc[p] = "ended"
        /\ pc[p] = "ended" => pc'[p] = "ended"
    BY <1>8, PortMoves
  <2>2. tries' = tries /\ told' = told
    BY <1>8, TracingWrites DEF tracing
  <2>3. ReceiverStops(p) => pc'[p] = "silent"
    BY <1>1 DEF ReceiverStops, Goto
  <2>4. pc'[p] \in Holds => owner' = owner
    <3>1. CASE ReceiverStops(p)
      BY <2>3, <3>1 DEF Holds, Preparing, Listening, Prompting
    <3>2. CASE ~ReceiverStops(p)
      BY <1>8, <3>2, NetWrites DEF net, Sockets, Probes, Enters, RemovesStale, BindsSocket, Signalled
    <3> QED
      BY <3>1, <3>2
  <2>5. Bound(p)'
    BY <1>3, <2>1, <2>2, <2>4 DEF Bound, Unbound
  <2>6. Named(p)' /\ Excused(p)'
    BY <1>2, <1>3, <2>1, <2>2 DEF Named, Excused, Conf
  <2> QED
    BY <2>5, <2>6
<1> QED
  BY <1>4, <1>5, <1>6, <1>7, <1>8

\* Nobody takes the port of another program, or gives it up.
LEMMA OthersPorts ==
  ASSUME Typed, NEW p \in Programs, Acts(p), NEW q \in Programs \ {p}, NEW n \in Ports, owner[n] = q
  PROVE  owner'[n] = q
<1>1. owner \in [Ports -> Programs \cup {Nobody, Foreign}] /\ q # Nobody
  BY HoldersAssumption DEF Typed, NetTypes
<1>2. CASE Frees(p)
  BY <1>1, <1>2 DEF Frees
<1>3. CASE Binds(p)
  <2>1. owner[Port(p)] = Nobody /\ owner' = [owner EXCEPT ![Port(p)] = p]
    BY <1>3 DEF Binds, Free
  <2> QED
    BY <1>1, <2>1
<1> QED
  BY <1>2, <1>3, OwnerKinds

LEMMA HoldsInit == Init => HoldsInv
<1> SUFFICES ASSUME Init, NEW p \in Programs PROVE Bound(p) /\ Named(p) /\ Excused(p)
  BY DEF HoldsInv
<1>1. pc[p] = "off" /\ why[p] = "none" /\ tries[p] = 0 /\ told[p] = NoPort
  BY DEF Init
<1> QED
  BY <1>1 DEF Bound, Named, Excused

LEMMA HoldsStep == Typed /\ HoldsInv /\ [Next]_vars => HoldsInv'
<1> SUFFICES ASSUME Typed, HoldsInv, [Next]_vars PROVE HoldsInv'
  OBVIOUS
<1>1. CASE UNCHANGED <<scene, pc, why, tracing, net>>
  BY <1>1 DEF HoldsInv, Bound, Named, Excused, Conf, tracing, net
<1>2. ASSUME NEW p \in Programs, Acts(p) PROVE HoldsInv'
  <2> SUFFICES ASSUME NEW q \in Programs PROVE Bound(q)' /\ Named(q)' /\ Excused(q)'
    BY DEF HoldsInv
  <2>1. CASE q = p
    BY <1>2, <2>1, OwnStep
  <2>2. CASE q # p
    <3>1. scene' = scene /\ pc'[q] = pc[q] /\ why'[q] = why[q] /\ tries'[q] = tries[q] /\ told'[q] = told[q]
      BY <1>2, <2>2, SceneStep, TracingStep DEF Typed
    <3>2. Bound(q) /\ Named(q) /\ Excused(q)
      BY DEF HoldsInv
    <3>3. told[q] # NoPort => told[q] \in Ports
      BY DEF Typed, TracingTypes
    <3>4. Bound(q)'
      BY <1>2, <2>2, <3>1, <3>2, <3>3, OthersPorts DEF Bound
    <3>5. Named(q)' /\ Excused(q)'
      BY <3>1, <3>2 DEF Named, Excused, Conf
    <3> QED
      BY <3>4, <3>5
  <2> QED
    BY <2>1, <2>2
<1>3. CASE StackMoves
  BY <1>1, <1>3, StackStep
<1> QED
  BY <1>1, <1>2, <1>3, Kinds DEF vars, tracing, net

LEMMA HoldsImply == Typed /\ HoldsInv /\ RunningInv => PortsSound
<1> SUFFICES ASSUME Typed, HoldsInv, RunningInv PROVE PortsSound
  OBVIOUS
<1>1. TypeOK
  <2>1. \A p \in Programs : tries[p] <= SearchRange
    BY PortsAssumption DEF Typed, TracingTypes
  <2> QED
    BY <2>1 DEF Typed, SceneInv, TracingTypes, NetTypes, ComposeTypes, TypeOK, Places
<1>2. OwnReceiver
  <2> SUFFICES ASSUME NEW p \in running, pc[p] # "killed", told[p] # NoPort PROVE owner[told[p]] = p
    BY DEF OwnReceiver
  <2>1. p \in Programs /\ pc[p] \in Holds
    BY DEF Typed, SceneInv, RunningInv, Holds
  <2> QED
    BY <2>1 DEF HoldsInv, Bound
<1>3. NamedStays
  BY DEF HoldsInv, Named, NamedStays
<1>4. UnaskedIsHarmless
  BY DEF HoldsInv, Excused, UnaskedIsHarmless
<1> QED
  BY <1>1, <1>2, <1>3, <1>4 DEF PortsSound

-----------------------------------------------------------------------------
(* The socket of its project, and its processes. *)

LEMMA RunningStep ==
  ASSUME Typed, RunningInv, NEW p \in Programs, Acts(p)
  PROVE  RunningInv'
<1> DEFINE Up4 == {"serving", "signalled", "stopping", "killed"}
<1>1. pc \in [Programs -> Places] /\ running \subseteq Programs
  BY DEF Typed, SceneInv
<1>2. p \in running => pc[p] \in Up4
  BY DEF RunningInv
<1>3. SUFFICES p \in running' => pc'[p] \in Up4
  <2>1. \A q \in Programs \ {p} : pc'[q] = pc[q] /\ (q \in running' <=> q \in running)
    BY SceneStep DEF Typed
  <2>2. running' \subseteq Programs
    BY SceneStep DEF Typed, SceneInv
  <2> QED
    BY <1>3, <2>1, <2>2 DEF RunningInv
<1>4. CASE Moves(p)
  <2>1. PICK l \in Places : Goto(p, l) /\ Leads(p, l)
    BY <1>4 DEF Moves
  <2>2. pc'[p] = l /\ running' = running
    BY <1>1, <1>4, <2>1 DEF Goto, Moves
  <2> QED
    BY <1>2, <2>1, <2>2 DEF Leads
<1>5. CASE Ends(p)
  <2>1. PICK r \in Reasons : Leaves(p, r) /\ Cause(p, r)
    BY <1>5 DEF Ends
  <2>2. running' = running
    BY <2>1 DEF Leaves
  <2> QED
    BY <1>2, <2>1, <2>2 DEF Cause, Listening
<1>6. CASE Searches(p) \/ MovesAside(p)
  <2>1. pc' = pc /\ running' = running
    BY <1>6 DEF Searches, SearchFrom, SearchSkips, SearchDescends, SearchCloses, SearchReturns, Found, MovesAside
  <2> QED
    BY <1>2, <2>1
<1>7. CASE Binds(p) \/ Looks(p) \/ UpAll(p) \/ UpMissing(p) \/ Sockets(p) \/ ReceiverStops(p)
  <2>1. running' = running /\ pc[p] \notin Up4
    BY <1>7 DEF Binds, Looks, Discover, Await, AwaitMissing, OfferMissing, UpAll, UpMissing,
                Sockets, Probes, Enters, RemovesStale, BindsSocket, Listening, ReceiverStops
  <2> QED
    BY <1>2, <2>1
<1>8. CASE Starts(p)
  BY <1>1, <1>8 DEF Starts, Goto
<1>9. CASE Signalled(p) \/ Killed(p)
  BY <1>1, <1>9 DEF Signalled, Killed, Goto
<1>10. CASE ProcessesEnd(p) \/ Stops(p)
  BY <1>10 DEF ProcessesEnd, Stops
<1> QED
  BY <1>4, <1>5, <1>6, <1>7, <1>8, <1>9, <1>10 DEF Acts

\* How p comes to listen, and to be inside Listen.
LEMMA SocketMoves ==
  ASSUME Typed, SocketInv, NEW p \in Programs, Acts(p), ~Sockets(p)
  PROVE  /\ pc'[p] \in Listening => pc[p] \in Listening
         /\ pc'[p] \in Serves => pc[p] \in Serves /\ listening' = listening
         /\ p \in listening' => p \in listening /\ pc'[p] \in Hears
<1> DEFINE Goal == /\ pc'[p] \in Listening => pc[p] \in Listening
                   /\ pc'[p] \in Serves => pc[p] \in Serves /\ listening' = listening
                   /\ p \in listening' => p \in listening /\ pc'[p] \in Hears
<1> SUFFICES Goal
  OBVIOUS
<1>1. pc \in [Programs -> Places]
  BY DEF Typed, SceneInv
<1>2. p \in listening => pc[p] \in Hears
  BY DEF SocketInv
<1> USE DEF Listening, Serves, Hears
<1>3. CASE Ends(p) \/ Killed(p) \/ Signalled(p)
  <2>1. p \notin listening' /\ \E l \in {"ended", "killed", "signalled"} : pc' = [pc EXCEPT ![p] = l]
    BY <1>3 DEF Ends, Leaves, Abandon, Unlink, Killed, Signalled, Goto
  <2>2. pc'[p] \in {"ended", "killed", "signalled"}
    BY <1>1, <2>1
  <2> QED
    BY <2>1, <2>2
<1>4. CASE ~(Ends(p) \/ Killed(p) \/ Signalled(p))
  <2>1. listening' = listening
    BY <1>4, NetWrites DEF net, Binds, ReceiverStops
  <2>2. CASE Moves(p)
    <3>1. PICK l \in Places : Goto(p, l) /\ Leads(p, l)
      BY <2>2 DEF Moves
    <3>2. pc'[p] = l
      BY <1>1, <3>1 DEF Goto
    <3> QED
      BY <1>2, <2>1, <3>1, <3>2 DEF Leads
  <2>3. CASE Searches(p) \/ MovesAside(p) \/ ProcessesEnd(p)
    <3>1. pc' = pc
      BY <2>3 DEF Searches, SearchFrom, SearchSkips, SearchDescends, SearchCloses, SearchReturns, Found, MovesAside,
                  ProcessesEnd
    <3> QED
      BY <1>2, <2>1, <3>1
  <2>4. CASE Starts(p)
    <3>1. pc[p] = "start" /\ pc'[p] = "serving"
      BY <1>1, <2>4 DEF Starts, Goto
    <3> QED
      BY <2>1, <3>1
  <2>5. CASE Stops(p) \/ ReceiverStops(p)
    <3>1. \E l \in {"stopped", "silent"} : pc' = [pc EXCEPT ![p] = l]
      BY <2>5 DEF Stops, ReceiverStops, Goto
    <3>2. pc'[p] \in {"stopped", "silent"}
      BY <1>1, <3>1
    <3> QED
      BY <2>1, <3>2
  <2>6. CASE Binds(p) \/ Looks(p) \/ UpAll(p) \/ UpMissing(p)
    <3> DEFINE Away == {"listen", "discover", "offer", "missing", "askMissing", "upMissing", "await", "awaitMissing"}
    <3>1. pc[p] \notin Hears /\ \E l \in Away : pc' = [pc EXCEPT ![p] = l]
      BY <2>6 DEF Binds, AfterBinding, Looks, Discover, Await, AwaitMissing, OfferMissing, UpAll, UpMissing, Goto
    <3>2. pc'[p] \in Away
      BY <1>1, <3>1
    <3> QED
      BY <1>2, <2>1, <3>1, <3>2
  <2> QED
    BY <1>4, <2>2, <2>3, <2>4, <2>5, <2>6 DEF Acts
<1> HIDE DEF Goal
<1> QED
  BY <1>3, <1>4

LEMMA SocketStep ==
  ASSUME Typed, SocketInv, NEW p \in Programs, Acts(p)
  PROVE  SocketInv'
<1>1. /\ pc \in [Programs -> Places] /\ socket \in [Projects -> Programs \cup {Nobody}]
      /\ listening \subseteq Programs /\ Conf(p).project \in Projects
  BY DEF Typed, SceneInv, NetTypes, Projects
<1>2. scene' = scene /\ \A q \in Programs \ {p} : pc'[q] = pc[q]
  BY SceneStep DEF Typed
<1>3. \A q \in Programs : Conf(q)' = Conf(q)
  BY <1>2 DEF Conf
<1>4. raced \subseteq raced'
  BY SocketKinds DEF Abandon, Unlink, Sockets, Probes, Enters, RemovesStale, BindsSocket
\* Of the step itself.
<1>5. /\ pc'[p] \in Listening => pc[p] \in Listening \/ Probes(p)
      /\ pc'[p] \in Serves => p \in listening'
      /\ p \in listening' => pc'[p] \in Hears /\ (p \in listening \/ BindsSocket(p))
      /\ listening' \subseteq listening \cup {p} /\ listening \subseteq listening' \cup {p}
  <2>1. CASE ~Sockets(p)
    <3>1. listening' \subseteq listening /\ listening \subseteq listening' \cup {p}
      BY <2>1, SocketKinds DEF Abandon, Unlink
    <3> QED
      BY <2>1, <3>1, SocketMoves DEF SocketInv
  <2>2. CASE Probes(p)
    <3>1. pc[p] = "listen" /\ pc'[p] = "lstat" /\ listening' = listening
      BY <1>1, <2>2 DEF Probes, Enters, Goto
    <3>2. p \notin listening
      BY <3>1 DEF SocketInv, Hears, Serves
    <3> QED
      BY <2>2, <3>1, <3>2 DEF Serves
  <2>3. CASE RemovesStale(p)
    <3>1. pc[p] = "unlink" /\ pc'[p] = "bindSocket" /\ listening' = listening
      BY <1>1, <2>3 DEF RemovesStale, Goto
    <3>2. p \notin listening
      BY <3>1 DEF SocketInv, Hears, Serves
    <3> QED
      BY <3>1, <3>2 DEF Serves, Listening
  <2>4. CASE BindsSocket(p)
    <3>1. pc[p] = "bindSocket" /\ pc'[p] = "chmod" /\ listening' = listening \cup {p}
      BY <1>1, <2>4 DEF BindsSocket, Goto
    <3> QED
      BY <2>4, <3>1 DEF Listening, Hears, Serves
  <2> QED
    BY <2>1, <2>2, <2>3, <2>4 DEF Sockets
<1>6. \A q \in listening' : pc'[q] \in Hears
  BY <1>1, <1>2, <1>5 DEF SocketInv
<1>7. \A q \in Programs : pc'[q] \in Serves => q \in listening'
  BY <1>1, <1>2, <1>5 DEF SocketInv
<1>8. ASSUME NEW q \in listening', Conf(q).project \notin raced'
      PROVE  socket'[Conf(q).project] = q
  <2>1. CASE BindsSocket(p) /\ q = p
    BY <1>1, <2>1 DEF BindsSocket
  <2>2. CASE ~(BindsSocket(p) /\ q = p)
    <3>1. q \in listening /\ q \in Programs /\ Conf(q).project \notin raced
      BY <1>1, <1>4, <1>5, <1>8, <2>2
    <3>2. socket[Conf(q).project] = q /\ Conf(q).project \in Projects
      BY <3>1 DEF SocketInv, Projects
    <3>3. CASE UNCHANGED socket
      BY <3>2, <3>3
    <3>4. CASE Unlink(p)
      <4>1. q # p /\ socket' = [d \in Projects |-> IF d = Conf(p).project /\ p \in listening THEN Nobody ELSE socket[d]]
        BY <1>8, <3>4 DEF Unlink
      <4>2. p \in listening => Conf(p).project # Conf(q).project
        BY <3>1, <3>2, <4>1 DEF SocketInv
      <4> QED
        BY <3>2, <4>1, <4>2
    <3>5. CASE RemovesStale(p) \/ BindsSocket(p)
      <4>1. pc[p] \in {"unlink", "bindSocket"} /\ \E x : socket' = [socket EXCEPT ![Conf(p).project] = x]
        BY <3>5 DEF RemovesStale, BindsSocket
      <4>2. q # p
        BY <3>1, <4>1 DEF SocketInv, Hears, Serves
      <4>3. Conf(p).project # Conf(q).project
        BY <3>1, <4>1, <4>2 DEF SocketInv, Listening
      <4> QED
        BY <1>1, <3>2, <4>1, <4>3
    <3> QED
      BY <3>3, <3>4, <3>5, SocketKinds DEF Abandon, Sockets, Probes, Enters
  <2> QED
    BY <2>1, <2>2
<1>9. ASSUME NEW q \in Programs, NEW r \in Programs, q # r, Conf(q).project = Conf(r).project,
             Conf(q).project \notin raced', pc'[q] \in Listening
      PROVE  pc'[r] \notin Listening /\ r \notin listening'
  <2>1. Conf(q).project \notin raced
    BY <1>4, <1>9
  <2>2. CASE ~Probes(p)
    <3>1. pc[q] \in Listening
      BY <1>2, <1>5, <1>9, <2>2
    <3>2. pc[r] \notin Listening /\ r \notin listening
      BY <1>9, <2>1, <3>1 DEF SocketInv
    <3>3. ~(BindsSocket(p) /\ r = p)
      BY <3>2 DEF BindsSocket, Listening
    <3> QED
      BY <1>2, <1>5, <2>2, <3>2, <3>3
  <2>3. CASE Probes(p)
    <3>1. /\ listening' = listening /\ socket[Conf(p).project] \notin listening
          /\ Conf(p).project \notin raced' => InListen(Conf(p).project) = {}
      BY <2>3 DEF Probes, Enters, Answered
    <3>2. CASE q = p
      <4>1. pc[r] \notin Listening
        BY <1>9, <3>1, <3>2 DEF InListen
      <4>2. r \notin listening
        BY <1>9, <2>1, <3>1, <3>2 DEF SocketInv
      <4> QED
        BY <1>2, <1>9, <3>1, <3>2, <4>1, <4>2
    <3>3. CASE q # p
      <4>1. pc[q] \in Listening
        BY <1>2, <1>9, <3>3
      <4>2. r # p
        BY <1>9, <3>1, <4>1 DEF InListen
      <4> QED
        BY <1>2, <1>9, <2>1, <3>1, <4>1, <4>2 DEF SocketInv
    <3> QED
      BY <3>2, <3>3
  <2> QED
    BY <2>2, <2>3
<1>10. \A q \in listening' : q \in Programs
  BY <1>1, <1>5
<1>11. \A q \in listening' : Conf(q)'.project \notin raced' => socket'[Conf(q)'.project] = q
  BY <1>3, <1>8, <1>10
<1>12. \A q, r \in Programs :
         q # r /\ Conf(q)'.project = Conf(r)'.project /\ Conf(q)'.project \notin raced' /\ pc'[q] \in Listening
           => pc'[r] \notin Listening /\ r \notin listening'
  BY <1>3, <1>9
<1> QED
  BY <1>6, <1>7, <1>11, <1>12 DEF SocketInv

LEMMA PlacesInit == Init => RunningInv /\ SocketInv
BY DEF Init, RunningInv, SocketInv, Serves, Listening

LEMMA PlacesStep == Typed /\ RunningInv /\ SocketInv /\ [Next]_vars => (RunningInv /\ SocketInv)'
<1> SUFFICES ASSUME Typed, RunningInv, SocketInv, [Next]_vars PROVE (RunningInv /\ SocketInv)'
  OBVIOUS
<1>1. CASE UNCHANGED <<scene, pc, running, net>>
  BY <1>1 DEF RunningInv, SocketInv, Conf, net
<1>2. ASSUME NEW p \in Programs, Acts(p) PROVE (RunningInv /\ SocketInv)'
  BY <1>2, RunningStep, SocketStep
<1>3. CASE StackMoves
  BY <1>1, <1>3, StackStep
<1> QED
  BY <1>1, <1>2, <1>3, Kinds DEF vars, net

LEMMA PlacesImply == Typed /\ RunningInv /\ SocketInv => NoDuplicate
<1> SUFFICES ASSUME Typed, RunningInv, SocketInv, NEW d \in Projects, Duplicated(d), d \notin raced
             PROVE  FALSE
  BY DEF NoDuplicate
<1>1. PICK p \in running, q \in running :
        p # q /\ d = Conf(p).project /\ d = Conf(q).project /\ {"killed", "signalled"} \cap {pc[p], pc[q]} = {}
  BY DEF Duplicated
<1>2. p \in Programs /\ q \in Programs
  BY DEF Typed, SceneInv
<1>3. pc[p] \in Serves /\ pc[q] \in Serves
  BY <1>1 DEF RunningInv, Serves
<1> QED
  BY <1>1, <1>2, <1>3 DEF SocketInv

-----------------------------------------------------------------------------
(* The stack. *)

\* Only by finding it down does a program come to offer the stack.
LEMMA OfferingStep ==
  ASSUME Typed, NEW p \in Programs, Acts(p), p \in Offering'
  PROVE  p \in Offering \/ Up \cap Expected(p) = {}
<1>1. pc \in [Programs -> Places]
  BY DEF Typed, SceneInv
<1>2. pc'[p] \in {"offer", "ask", "up"}
  BY DEF Offering
<1>3. CASE Moves(p)
  <2>1. PICK l \in Places : Goto(p, l) /\ Leads(p, l)
    BY <1>3 DEF Moves
  <2>2. pc'[p] = l
    BY <1>1, <2>1 DEF Goto
  <2>3. pc[p] \in {"offer", "ask"}
    BY <1>2, <2>1, <2>2 DEF Leads
  <2> QED
    BY <2>3 DEF Offering
<1>4. CASE Searches(p) \/ MovesAside(p) \/ ProcessesEnd(p)
  <2>1. pc' = pc
    BY <1>4 DEF Searches, SearchFrom, SearchSkips, SearchDescends, SearchCloses, SearchReturns, Found, MovesAside,
                ProcessesEnd
  <2> QED
    BY <1>2, <2>1 DEF Offering
<1>5. CASE Discover(p)
  <2>1. pc' = [pc EXCEPT ![p] = IF Up \cap Expected(p) = {} THEN "offer" ELSE "missing"]
    BY <1>5 DEF Discover, Goto
  <2> QED
    BY <1>1, <1>2, <2>1
<1>6. CASE Ends(p) \/ Binds(p) \/ Await(p) \/ AwaitMissing(p) \/ OfferMissing(p) \/ UpAll(p) \/ UpMissing(p)
           \/ Sockets(p) \/ Starts(p) \/ Signalled(p) \/ Stops(p) \/ ReceiverStops(p) \/ Killed(p)
  <2> DEFINE Away == {"ended", "listen", "discover", "missing", "askMissing", "upMissing", "await", "awaitMissing", "lstat",
                      "bindSocket", "chmod", "serving", "signalled", "stopped", "silent", "killed"}
  <2>1. \E l \in Away : pc' = [pc EXCEPT ![p] = l]
    BY <1>6 DEF Ends, Leaves, Binds, AfterBinding, Await, AwaitMissing, OfferMissing, UpAll, UpMissing, Sockets, Probes,
                Enters, RemovesStale, BindsSocket, Starts,
                Signalled, Stops, ReceiverStops, Killed, Goto
  <2>2. pc'[p] \in Away
    BY <1>1, <2>1
  <2> QED
    BY <1>2, <2>2
<1> QED
  BY <1>3, <1>4, <1>5, <1>6 DEF Acts, Looks

LEMMA DownStep ==
  ASSUME Typed, DownInv, NEW p \in Programs, Acts(p)
  PROVE  DownInv'
<1>1. scene' = scene /\ \A q \in Programs \ {p} : pc'[q] = pc[q]
  BY SceneStep DEF Typed
<1>2. \A q \in Programs : Expected(q)' = Expected(q)
  BY <1>1 DEF Expected, Conf
<1>3. /\ Up' \subseteq Up /\ surprise' = surprise
      /\ replaced' \subseteq surprise
  <2>1. CASE UNCHANGED compose \/ Looks(p)
    BY <2>1 DEF compose, Looks, Discover, Await, AwaitMissing, OfferMissing, Up, DownInv
  <2>2. CASE UpAll(p)
    <3>1. ComposeUp(Expected(p), TRUE) /\ p \in Offering
      BY <2>2 DEF UpAll, Offering
    <3>2. surprise' = surprise /\ Up' \subseteq Up
      BY <3>1, ComposeUpTypes DEF Up
    <3>3. replaced' \subseteq replaced \cup (Expected(p) \cap Up)
      BY <3>1 DEF ComposeUp
    <3> QED
      BY <3>1, <3>2, <3>3 DEF DownInv
  <2>3. CASE UpMissing(p)
    <3>1. ComposeUp(asked[p], FALSE)
      BY <2>3 DEF UpMissing
    <3>2. surprise' = surprise /\ Up' \subseteq Up
      BY <3>1, ComposeUpTypes DEF Up
    <3>3. replaced' = replaced
      BY <3>1 DEF ComposeUp
    <3> QED
      BY <3>2, <3>3 DEF DownInv
  <2> QED
    BY <2>1, <2>2, <2>3, ComposeWrites
<1>4. ASSUME NEW q \in Offering' PROVE Up' \cap Expected(q) \subseteq surprise
  <2>1. q \in Programs
    BY DEF Offering
  <2>2. CASE q \in Offering
    BY <2>2, <1>3 DEF DownInv
  <2>3. CASE q \notin Offering
    <3>1. q = p
      BY <1>1, <2>1, <2>3 DEF Offering
    <3>2. Up \cap Expected(p) = {}
      BY <2>3, <3>1, OfferingStep
    <3> QED
      BY <1>3, <3>1, <3>2
  <2> QED
    BY <2>2, <2>3
<1>5. \A q \in Offering' : q \in Programs
  BY DEF Offering
<1> QED
  BY <1>2, <1>3, <1>4, <1>5 DEF DownInv

LEMMA DownSurvives ==
  ASSUME Typed, DownInv, StackMoves
  PROVE  DownInv'
<1>1. /\ UNCHANGED <<scene, pc, replaced>> /\ surprise \subseteq surprise'
      /\ \A s \in Services : stack'[s] = "up" => stack[s] = "up" \/ Offering = {} \/ s \in surprise'
  BY StackStep
<1>2. Offering' = Offering /\ \A q \in Programs : Expected(q)' = Expected(q)
  BY <1>1 DEF Offering, Expected, Conf
<1>3. \A q \in Offering : q \in Programs /\ Up' \cap Expected(q) \subseteq surprise'
  BY <1>1 DEF Up, DownInv, Offering
<1>4. replaced' \subseteq surprise'
  BY <1>1 DEF DownInv
<1> QED
  BY <1>2, <1>3, <1>4 DEF DownInv

-----------------------------------------------------------------------------

\* While the processes of a program run, the port they were told is that of
\* its own receiver, a port that was named is not moved, and tracing that
\* nobody asked for ends no program: for any programs, ports and collectors.
THEOREM PortsAreSound == Spec => []PortsSound
<1>1. Spec => [](Typed /\ HoldsInv /\ RunningInv /\ SocketInv)
  <2>1. Init => Typed /\ HoldsInv /\ RunningInv /\ SocketInv
    BY TypedInit, HoldsInit, PlacesInit
  <2>2. Typed /\ HoldsInv /\ RunningInv /\ SocketInv /\ [Next]_vars => (Typed /\ HoldsInv /\ RunningInv /\ SocketInv)'
    BY TypedStep, HoldsStep, PlacesStep
  <2> QED
    BY <2>1, <2>2, PTL DEF Spec
<1>2. Typed /\ HoldsInv /\ RunningInv => PortsSound
  BY HoldsImply
<1> QED
  BY <1>1, <1>2, PTL

\* However many programs of a project are started, killed, signalled and quit,
\* no two run its processes, but one killed or signalled, unless two were in
\* api.Listen of it at once: nothing else takes a live instance's socket away.
THEOREM OneOfAProject == Spec => []NoDuplicate
<1>1. Spec => [](Typed /\ RunningInv /\ SocketInv)
  <2>1. Init => Typed /\ RunningInv /\ SocketInv
    BY TypedInit, PlacesInit
  <2>2. Typed /\ RunningInv /\ SocketInv /\ [Next]_vars => (Typed /\ RunningInv /\ SocketInv)'
    BY TypedStep, PlacesStep
  <2> QED
    BY <2>1, <2>2, PTL DEF Spec
<1>2. Typed /\ RunningInv /\ SocketInv => NoDuplicate
  BY PlacesImply
<1> QED
  BY <1>1, <1>2, PTL

\* The offers to start the stack replace no running container but one that
\* came up during the offer, whatever the programs and the developer do.
THEOREM OnlySurprisesReplaced == Spec => []ReplacesOnlySurprises
<1>1. Init => DownInv
  BY DEF Init, DownInv, Offering
<1>2. Typed /\ DownInv /\ [Next]_vars => DownInv'
  <2> SUFFICES ASSUME Typed, DownInv, [Next]_vars PROVE DownInv'
    OBVIOUS
  <2>1. CASE UNCHANGED vars
    BY <2>1 DEF vars, DownInv, Offering, Expected, Up, Conf
  <2>2. ASSUME NEW p \in Programs, Acts(p) PROVE DownInv'
    BY <2>2, DownStep
  <2>3. CASE StackMoves
    BY <2>3, DownSurvives
  <2> QED
    BY <2>1, <2>2, <2>3, Kinds
<1>3. DownInv => ReplacesOnlySurprises
  BY DEF DownInv, ReplacesOnlySurprises
<1> QED
  BY <1>1, <1>2, <1>3, AlwaysTyped, PTL DEF Spec
=============================================================================
