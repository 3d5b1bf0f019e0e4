--------------------------- MODULE InstanceProofs ---------------------------
(***************************************************************************)
(* What Instance says of the runs of a project, proved for any number of   *)
(* them. Facts about a single run and its files (PlaceInv, DirInv) hold    *)
(* whatever the others do; who owns the socket and the marker rests on the *)
(* two histories, which say whether runs have met while starting.          *)
(***************************************************************************)
EXTENDS Instance, TLAPS

LEMMA OnlyMember ==
  ASSUME NEW S, NEW x, S \subseteq {x}, x \in S
  PROVE  S = {x}
OBVIOUS

LEMMA TypeStep ==
  ASSUME TypeOK, [Next]_vars
  PROVE  TypeOK'
<1> USE OwnersAssumption DEF TypeOK, Owners, Listening, Starting, Cleanup, Ended, Goto, Gone,
          Step, Up, Armed, At, files, history, Note
<1>1. ASSUME NEW r \in Runs, Begin(r) PROVE TypeOK'
  BY <1>1 DEF Begin
<1>2. ASSUME NEW r \in Runs, IgnoreTraces(r) PROVE TypeOK'
  BY <1>2 DEF IgnoreTraces
<1>3. ASSUME NEW r \in Runs, OpenTraces(r) PROVE TypeOK'
  BY <1>3 DEF OpenTraces
<1>4. ASSUME NEW r \in Runs, MakeDir(r) PROVE TypeOK'
  BY <1>4 DEF MakeDir
<1>5. ASSUME NEW r \in Runs, Probe(r) PROVE TypeOK'
  BY <1>5 DEF Probe
<1>6. ASSUME NEW r \in Runs, Refuse(r) PROVE TypeOK'
  BY <1>6 DEF Refuse
<1>7. ASSUME NEW r \in Runs, FindStale(r) PROVE TypeOK'
  BY <1>7 DEF FindStale
<1>8. ASSUME NEW r \in Runs, RemoveStale(r) PROVE TypeOK'
  BY <1>8 DEF RemoveStale
<1>9. ASSUME NEW r \in Runs, Bind(r) PROVE TypeOK'
  BY <1>9 DEF Bind
<1>10. ASSUME NEW r \in Runs, Chmod(r) PROVE TypeOK'
  BY <1>10 DEF Chmod
<1>11. ASSUME NEW r \in Runs, ListenFails(r) PROVE TypeOK'
  BY <1>11 DEF ListenFails
<1>12. ASSUME NEW r \in Runs, Start(r) PROVE TypeOK'
  BY <1>12 DEF Start
<1>13. ASSUME NEW r \in Runs, WriteIgnore(r) PROVE TypeOK'
  BY <1>13 DEF WriteIgnore
<1>14. ASSUME NEW r \in Runs, WriteTemp(r) PROVE TypeOK'
  BY <1>14 DEF WriteTemp
<1>15. ASSUME NEW r \in Runs, InstallMarker(r) PROVE TypeOK'
  BY <1>15 DEF InstallMarker
<1>16. ASSUME NEW r \in Runs, Launch(r) PROVE TypeOK'
  BY <1>16 DEF Launch
<1>17. ASSUME NEW r \in Runs, Panic(r) PROVE TypeOK'
  BY <1>17 DEF Panic
<1>18. ASSUME NEW r \in Runs, Leave(r) PROVE TypeOK'
  BY <1>18 DEF Leave
<1>19. ASSUME NEW r \in Runs, Signal(r) PROVE TypeOK'
  BY <1>19 DEF Signal
<1>20. ASSUME NEW r \in Runs, Kill(r) PROVE TypeOK'
  BY <1>20 DEF Kill
<1>21. ASSUME NEW r \in Runs, NEW t \in Threads, Close(r, t) PROVE TypeOK'
  BY <1>21 DEF Close
<1>22. ASSUME NEW r \in Runs, NEW t \in Threads, StatCrashLog(r, t) PROVE TypeOK'
  BY <1>22 DEF StatCrashLog
<1>23. ASSUME NEW r \in Runs, NEW t \in Threads, RemoveCrashLog(r, t) PROVE TypeOK'
  BY <1>23 DEF RemoveCrashLog
<1>24. ASSUME NEW r \in Runs, NEW t \in Threads, RemoveMarker(r, t) PROVE TypeOK'
  BY <1>24 DEF RemoveMarker
<1>25. ASSUME NEW r \in Runs, NEW t \in Threads, ListDir(r, t) PROVE TypeOK'
  BY <1>25 DEF ListDir
<1>26. ASSUME NEW r \in Runs, NEW t \in Threads, RemoveIgnore(r, t) PROVE TypeOK'
  BY <1>26 DEF RemoveIgnore
<1>27. ASSUME NEW r \in Runs, NEW t \in Threads, RemoveDir(r, t) PROVE TypeOK'
  BY <1>27 DEF RemoveDir
<1>28. CASE UNCHANGED vars
  BY <1>28 DEF vars
<1>29. QED
  BY <1>1, <1>2, <1>3, <1>4, <1>5, <1>6, <1>7, <1>8, <1>9, <1>10, <1>11, <1>12, <1>13, <1>14,
     <1>15, <1>16, <1>17, <1>18, <1>19, <1>20, <1>21, <1>22, <1>23, <1>24, <1>25, <1>26, <1>27,
     <1>28 DEF Next, StartUp, CleanUp

\* The histories know of every two runs that meet now.
MeetingInv ==
  /\ \A r, s \in Runs : r # s /\ main[r] \in Listening /\ main[s] \in Listening => raced
  /\ \A r, s \in Runs : r # s /\ main[r] \in Starting /\ Leaving(s) => crossed

Told == Note \/ UNCHANGED <<main, handler, raced, crossed>>

LEMMA Noted ==
  ASSUME [Next]_vars
  PROVE  Told
<1> USE DEF Told, Goto, Gone, Step, Up, Armed, At, files, history
<1>1. ASSUME NEW r \in Runs, Begin(r) PROVE Told
  BY <1>1 DEF Begin
<1>2. ASSUME NEW r \in Runs, IgnoreTraces(r) PROVE Told
  BY <1>2 DEF IgnoreTraces
<1>3. ASSUME NEW r \in Runs, OpenTraces(r) PROVE Told
  BY <1>3 DEF OpenTraces
<1>4. ASSUME NEW r \in Runs, MakeDir(r) PROVE Told
  BY <1>4 DEF MakeDir
<1>5. ASSUME NEW r \in Runs, Probe(r) PROVE Told
  BY <1>5 DEF Probe
<1>6. ASSUME NEW r \in Runs, Refuse(r) PROVE Told
  BY <1>6 DEF Refuse
<1>7. ASSUME NEW r \in Runs, FindStale(r) PROVE Told
  BY <1>7 DEF FindStale
<1>8. ASSUME NEW r \in Runs, RemoveStale(r) PROVE Told
  BY <1>8 DEF RemoveStale
<1>9. ASSUME NEW r \in Runs, Bind(r) PROVE Told
  BY <1>9 DEF Bind
<1>10. ASSUME NEW r \in Runs, Chmod(r) PROVE Told
  BY <1>10 DEF Chmod
<1>11. ASSUME NEW r \in Runs, ListenFails(r) PROVE Told
  BY <1>11 DEF ListenFails
<1>12. ASSUME NEW r \in Runs, Start(r) PROVE Told
  BY <1>12 DEF Start
<1>13. ASSUME NEW r \in Runs, WriteIgnore(r) PROVE Told
  BY <1>13 DEF WriteIgnore
<1>14. ASSUME NEW r \in Runs, WriteTemp(r) PROVE Told
  BY <1>14 DEF WriteTemp
<1>15. ASSUME NEW r \in Runs, InstallMarker(r) PROVE Told
  BY <1>15 DEF InstallMarker
<1>16. ASSUME NEW r \in Runs, Launch(r) PROVE Told
  BY <1>16 DEF Launch
<1>17. ASSUME NEW r \in Runs, Panic(r) PROVE Told
  BY <1>17 DEF Panic
<1>18. ASSUME NEW r \in Runs, Leave(r) PROVE Told
  BY <1>18 DEF Leave
<1>19. ASSUME NEW r \in Runs, Signal(r) PROVE Told
  BY <1>19 DEF Signal
<1>20. ASSUME NEW r \in Runs, Kill(r) PROVE Told
  BY <1>20 DEF Kill
<1>21. ASSUME NEW r \in Runs, NEW t \in Threads, Close(r, t) PROVE Told
  BY <1>21 DEF Close
<1>22. ASSUME NEW r \in Runs, NEW t \in Threads, StatCrashLog(r, t) PROVE Told
  BY <1>22 DEF StatCrashLog
<1>23. ASSUME NEW r \in Runs, NEW t \in Threads, RemoveCrashLog(r, t) PROVE Told
  BY <1>23 DEF RemoveCrashLog
<1>24. ASSUME NEW r \in Runs, NEW t \in Threads, RemoveMarker(r, t) PROVE Told
  BY <1>24 DEF RemoveMarker
<1>25. ASSUME NEW r \in Runs, NEW t \in Threads, ListDir(r, t) PROVE Told
  BY <1>25 DEF ListDir
<1>26. ASSUME NEW r \in Runs, NEW t \in Threads, RemoveIgnore(r, t) PROVE Told
  BY <1>26 DEF RemoveIgnore
<1>27. ASSUME NEW r \in Runs, NEW t \in Threads, RemoveDir(r, t) PROVE Told
  BY <1>27 DEF RemoveDir
<1>28. CASE UNCHANGED vars
  BY <1>28 DEF vars
<1>29. QED
  BY <1>1, <1>2, <1>3, <1>4, <1>5, <1>6, <1>7, <1>8, <1>9, <1>10, <1>11, <1>12, <1>13, <1>14,
     <1>15, <1>16, <1>17, <1>18, <1>19, <1>20, <1>21, <1>22, <1>23, <1>24, <1>25, <1>26, <1>27,
     <1>28 DEF Next, StartUp, CleanUp

\* A meeting is remembered.
LEMMA MeetingStep ==
  ASSUME TypeOK, MeetingInv, [Next]_vars
  PROVE  /\ MeetingInv'
         /\ raced => raced'
         /\ crossed => crossed'
<1>1. CASE Note
  BY <1>1 DEF Note, MeetingInv, TypeOK
<1>2. CASE UNCHANGED <<main, handler, raced, crossed>>
  BY <1>2 DEF MeetingInv, Leaving
<1>3. QED
  BY <1>1, <1>2, Noted DEF Told

-----------------------------------------------------------------------------

AfterBind == {"chmod", "start", "write", "temp", "rename", "up"} \cup Cleanup

\* Where a run is tells what it has: a listener from Bind to the first Close,
\* its socket and its marker for some of that time, and never again later.
ListenerPlaced(r) ==
  /\ r \in listening => main[r] \in AfterBind /\ r \notin closed
  /\ main[r] \in AfterBind => r \in listening \cup closed
  /\ r \in closed => main[r] \in {"up", "exited", "killed"} \cup Cleanup /\ socket # r
  /\ main[r] \in {"exited"} \cup (Cleanup \ {"close"}) => r \in closed

HandlerPlaced(r) ==
  /\ handler[r] # "off" => main[r] \in {"up"} \cup Cleanup
  /\ main[r] = "up" => handler[r] # "off"
  /\ Settled(r) => r \notin closed

FilesPlaced(r) ==
  /\ socket = r => main[r] \in AfterBind \cup {"killed", "failed"}
  /\ marker = r => main[r] \in {"up", "killed"} \cup Cleanup
  /\ main[r] \in {"list", "gitignore", "rmdir", "exited"} => marker \notin {r, Earlier}
  /\ main[r] \in AfterBind \cup {"exited"} => socket # Earlier

PlaceInv == \A r \in Runs : ListenerPlaced(r) /\ HandlerPlaced(r) /\ FilesPlaced(r)

LEMMA ListenerStep ==
  ASSUME TypeOK, PlaceInv, [Next]_vars
  PROVE  \A s \in Runs : ListenerPlaced(s)'
<1> USE OwnersAssumption DEF TypeOK, PlaceInv, ListenerPlaced, HandlerPlaced, Settled,
          FilesPlaced, AfterBind, Listening, Starting, Cleanup, Ended, Goto, Gone, Step, Up,
          Armed, At, files, history
<1>1. ASSUME NEW r \in Runs, Begin(r) PROVE \A s \in Runs : ListenerPlaced(s)'
  BY <1>1 DEF Begin
<1>2. ASSUME NEW r \in Runs, IgnoreTraces(r) PROVE \A s \in Runs : ListenerPlaced(s)'
  BY <1>2 DEF IgnoreTraces
<1>3. ASSUME NEW r \in Runs, OpenTraces(r) PROVE \A s \in Runs : ListenerPlaced(s)'
  BY <1>3 DEF OpenTraces
<1>4. ASSUME NEW r \in Runs, MakeDir(r) PROVE \A s \in Runs : ListenerPlaced(s)'
  BY <1>4 DEF MakeDir
<1>5. ASSUME NEW r \in Runs, Probe(r) PROVE \A s \in Runs : ListenerPlaced(s)'
  BY <1>5 DEF Probe
<1>6. ASSUME NEW r \in Runs, Refuse(r) PROVE \A s \in Runs : ListenerPlaced(s)'
  BY <1>6 DEF Refuse
<1>7. ASSUME NEW r \in Runs, FindStale(r) PROVE \A s \in Runs : ListenerPlaced(s)'
  BY <1>7 DEF FindStale
<1>8. ASSUME NEW r \in Runs, RemoveStale(r) PROVE \A s \in Runs : ListenerPlaced(s)'
  BY <1>8 DEF RemoveStale
<1>9. ASSUME NEW r \in Runs, Bind(r) PROVE \A s \in Runs : ListenerPlaced(s)'
  BY <1>9 DEF Bind
<1>10. ASSUME NEW r \in Runs, Chmod(r) PROVE \A s \in Runs : ListenerPlaced(s)'
  BY <1>10 DEF Chmod
<1>11. ASSUME NEW r \in Runs, ListenFails(r) PROVE \A s \in Runs : ListenerPlaced(s)'
  BY <1>11 DEF ListenFails
<1>12. ASSUME NEW r \in Runs, Start(r) PROVE \A s \in Runs : ListenerPlaced(s)'
  BY <1>12 DEF Start
<1>13. ASSUME NEW r \in Runs, WriteIgnore(r) PROVE \A s \in Runs : ListenerPlaced(s)'
  BY <1>13 DEF WriteIgnore
<1>14. ASSUME NEW r \in Runs, WriteTemp(r) PROVE \A s \in Runs : ListenerPlaced(s)'
  BY <1>14 DEF WriteTemp
<1>15. ASSUME NEW r \in Runs, InstallMarker(r) PROVE \A s \in Runs : ListenerPlaced(s)'
  BY <1>15 DEF InstallMarker
<1>16. ASSUME NEW r \in Runs, Launch(r) PROVE \A s \in Runs : ListenerPlaced(s)'
  BY <1>16 DEF Launch
<1>17. ASSUME NEW r \in Runs, Panic(r) PROVE \A s \in Runs : ListenerPlaced(s)'
  BY <1>17 DEF Panic
<1>18. ASSUME NEW r \in Runs, Leave(r) PROVE \A s \in Runs : ListenerPlaced(s)'
  BY <1>18 DEF Leave
<1>19. ASSUME NEW r \in Runs, Signal(r) PROVE \A s \in Runs : ListenerPlaced(s)'
  BY <1>19 DEF Signal
<1>20. ASSUME NEW r \in Runs, Kill(r) PROVE \A s \in Runs : ListenerPlaced(s)'
  BY <1>20 DEF Kill
<1>21. ASSUME NEW r \in Runs, NEW t \in Threads, Close(r, t) PROVE \A s \in Runs : ListenerPlaced(s)'
  BY <1>21 DEF Close
<1>22. ASSUME NEW r \in Runs, NEW t \in Threads, StatCrashLog(r, t) PROVE \A s \in Runs : ListenerPlaced(s)'
  BY <1>22 DEF StatCrashLog
<1>23. ASSUME NEW r \in Runs, NEW t \in Threads, RemoveCrashLog(r, t) PROVE \A s \in Runs : ListenerPlaced(s)'
  BY <1>23 DEF RemoveCrashLog
<1>24. ASSUME NEW r \in Runs, NEW t \in Threads, RemoveMarker(r, t) PROVE \A s \in Runs : ListenerPlaced(s)'
  BY <1>24 DEF RemoveMarker
<1>25. ASSUME NEW r \in Runs, NEW t \in Threads, ListDir(r, t) PROVE \A s \in Runs : ListenerPlaced(s)'
  BY <1>25 DEF ListDir
<1>26. ASSUME NEW r \in Runs, NEW t \in Threads, RemoveIgnore(r, t) PROVE \A s \in Runs : ListenerPlaced(s)'
  BY <1>26 DEF RemoveIgnore
<1>27. ASSUME NEW r \in Runs, NEW t \in Threads, RemoveDir(r, t) PROVE \A s \in Runs : ListenerPlaced(s)'
  BY <1>27 DEF RemoveDir
<1>28. CASE UNCHANGED vars
  BY <1>28 DEF vars
<1>29. QED
  BY <1>1, <1>2, <1>3, <1>4, <1>5, <1>6, <1>7, <1>8, <1>9, <1>10, <1>11, <1>12, <1>13, <1>14,
     <1>15, <1>16, <1>17, <1>18, <1>19, <1>20, <1>21, <1>22, <1>23, <1>24, <1>25, <1>26, <1>27,
     <1>28 DEF Next, StartUp, CleanUp

LEMMA HandlerStep ==
  ASSUME TypeOK, PlaceInv, [Next]_vars
  PROVE  \A s \in Runs : HandlerPlaced(s)'
<1> USE OwnersAssumption DEF TypeOK, PlaceInv, ListenerPlaced, HandlerPlaced, Settled,
          AfterBind, Listening, Starting, Cleanup, Ended, Goto, Gone, Step, Up, Armed, At,
          files, history
<1>1. ASSUME NEW r \in Runs, Begin(r) PROVE \A s \in Runs : HandlerPlaced(s)'
  BY <1>1 DEF Begin
<1>2. ASSUME NEW r \in Runs, IgnoreTraces(r) PROVE \A s \in Runs : HandlerPlaced(s)'
  BY <1>2 DEF IgnoreTraces
<1>3. ASSUME NEW r \in Runs, OpenTraces(r) PROVE \A s \in Runs : HandlerPlaced(s)'
  BY <1>3 DEF OpenTraces
<1>4. ASSUME NEW r \in Runs, MakeDir(r) PROVE \A s \in Runs : HandlerPlaced(s)'
  BY <1>4 DEF MakeDir
<1>5. ASSUME NEW r \in Runs, Probe(r) PROVE \A s \in Runs : HandlerPlaced(s)'
  BY <1>5 DEF Probe
<1>6. ASSUME NEW r \in Runs, Refuse(r) PROVE \A s \in Runs : HandlerPlaced(s)'
  BY <1>6 DEF Refuse
<1>7. ASSUME NEW r \in Runs, FindStale(r) PROVE \A s \in Runs : HandlerPlaced(s)'
  BY <1>7 DEF FindStale
<1>8. ASSUME NEW r \in Runs, RemoveStale(r) PROVE \A s \in Runs : HandlerPlaced(s)'
  BY <1>8 DEF RemoveStale
<1>9. ASSUME NEW r \in Runs, Bind(r) PROVE \A s \in Runs : HandlerPlaced(s)'
  BY <1>9 DEF Bind
<1>10. ASSUME NEW r \in Runs, Chmod(r) PROVE \A s \in Runs : HandlerPlaced(s)'
  BY <1>10 DEF Chmod
<1>11. ASSUME NEW r \in Runs, ListenFails(r) PROVE \A s \in Runs : HandlerPlaced(s)'
  BY <1>11 DEF ListenFails
<1>12. ASSUME NEW r \in Runs, Start(r) PROVE \A s \in Runs : HandlerPlaced(s)'
  BY <1>12 DEF Start
<1>13. ASSUME NEW r \in Runs, WriteIgnore(r) PROVE \A s \in Runs : HandlerPlaced(s)'
  BY <1>13 DEF WriteIgnore
<1>14. ASSUME NEW r \in Runs, WriteTemp(r) PROVE \A s \in Runs : HandlerPlaced(s)'
  BY <1>14 DEF WriteTemp
<1>15. ASSUME NEW r \in Runs, InstallMarker(r) PROVE \A s \in Runs : HandlerPlaced(s)'
  BY <1>15 DEF InstallMarker
<1>16. ASSUME NEW r \in Runs, Launch(r) PROVE \A s \in Runs : HandlerPlaced(s)'
  BY <1>16 DEF Launch
<1>17. ASSUME NEW r \in Runs, Panic(r) PROVE \A s \in Runs : HandlerPlaced(s)'
  BY <1>17 DEF Panic
<1>18. ASSUME NEW r \in Runs, Leave(r) PROVE \A s \in Runs : HandlerPlaced(s)'
  BY <1>18 DEF Leave
<1>19. ASSUME NEW r \in Runs, Signal(r) PROVE \A s \in Runs : HandlerPlaced(s)'
  BY <1>19 DEF Signal
<1>20. ASSUME NEW r \in Runs, Kill(r) PROVE \A s \in Runs : HandlerPlaced(s)'
  BY <1>20 DEF Kill
<1>21. ASSUME NEW r \in Runs, NEW t \in Threads, Close(r, t) PROVE \A s \in Runs : HandlerPlaced(s)'
  BY <1>21 DEF Close
<1>22. ASSUME NEW r \in Runs, NEW t \in Threads, StatCrashLog(r, t) PROVE \A s \in Runs : HandlerPlaced(s)'
  BY <1>22 DEF StatCrashLog
<1>23. ASSUME NEW r \in Runs, NEW t \in Threads, RemoveCrashLog(r, t) PROVE \A s \in Runs : HandlerPlaced(s)'
  BY <1>23 DEF RemoveCrashLog
<1>24. ASSUME NEW r \in Runs, NEW t \in Threads, RemoveMarker(r, t) PROVE \A s \in Runs : HandlerPlaced(s)'
  BY <1>24 DEF RemoveMarker
<1>25. ASSUME NEW r \in Runs, NEW t \in Threads, ListDir(r, t) PROVE \A s \in Runs : HandlerPlaced(s)'
  BY <1>25 DEF ListDir
<1>26. ASSUME NEW r \in Runs, NEW t \in Threads, RemoveIgnore(r, t) PROVE \A s \in Runs : HandlerPlaced(s)'
  BY <1>26 DEF RemoveIgnore
<1>27. ASSUME NEW r \in Runs, NEW t \in Threads, RemoveDir(r, t) PROVE \A s \in Runs : HandlerPlaced(s)'
  BY <1>27 DEF RemoveDir
<1>28. CASE UNCHANGED vars
  BY <1>28 DEF vars
<1>29. QED
  BY <1>1, <1>2, <1>3, <1>4, <1>5, <1>6, <1>7, <1>8, <1>9, <1>10, <1>11, <1>12, <1>13, <1>14,
     <1>15, <1>16, <1>17, <1>18, <1>19, <1>20, <1>21, <1>22, <1>23, <1>24, <1>25, <1>26, <1>27,
     <1>28 DEF Next, StartUp, CleanUp

LEMMA FilesStep ==
  ASSUME TypeOK, PlaceInv, [Next]_vars
  PROVE  \A s \in Runs : FilesPlaced(s)'
<1> USE OwnersAssumption DEF TypeOK, Owners, PlaceInv, ListenerPlaced, HandlerPlaced,
          FilesPlaced, AfterBind, Listening, Starting, Cleanup, Ended, Goto, Gone, Step, Up,
          Armed, At, files, history
<1>1. ASSUME NEW r \in Runs, Begin(r) PROVE \A s \in Runs : FilesPlaced(s)'
  BY <1>1 DEF Begin
<1>2. ASSUME NEW r \in Runs, IgnoreTraces(r) PROVE \A s \in Runs : FilesPlaced(s)'
  BY <1>2 DEF IgnoreTraces
<1>3. ASSUME NEW r \in Runs, OpenTraces(r) PROVE \A s \in Runs : FilesPlaced(s)'
  BY <1>3 DEF OpenTraces
<1>4. ASSUME NEW r \in Runs, MakeDir(r) PROVE \A s \in Runs : FilesPlaced(s)'
  BY <1>4 DEF MakeDir
<1>5. ASSUME NEW r \in Runs, Probe(r) PROVE \A s \in Runs : FilesPlaced(s)'
  BY <1>5 DEF Probe
<1>6. ASSUME NEW r \in Runs, Refuse(r) PROVE \A s \in Runs : FilesPlaced(s)'
  BY <1>6 DEF Refuse
<1>7. ASSUME NEW r \in Runs, FindStale(r) PROVE \A s \in Runs : FilesPlaced(s)'
  BY <1>7 DEF FindStale
<1>8. ASSUME NEW r \in Runs, RemoveStale(r) PROVE \A s \in Runs : FilesPlaced(s)'
  BY <1>8 DEF RemoveStale
<1>9. ASSUME NEW r \in Runs, Bind(r) PROVE \A s \in Runs : FilesPlaced(s)'
  BY <1>9 DEF Bind
<1>10. ASSUME NEW r \in Runs, Chmod(r) PROVE \A s \in Runs : FilesPlaced(s)'
  BY <1>10 DEF Chmod
<1>11. ASSUME NEW r \in Runs, ListenFails(r) PROVE \A s \in Runs : FilesPlaced(s)'
  BY <1>11 DEF ListenFails
<1>12. ASSUME NEW r \in Runs, Start(r) PROVE \A s \in Runs : FilesPlaced(s)'
  BY <1>12 DEF Start
<1>13. ASSUME NEW r \in Runs, WriteIgnore(r) PROVE \A s \in Runs : FilesPlaced(s)'
  BY <1>13 DEF WriteIgnore
<1>14. ASSUME NEW r \in Runs, WriteTemp(r) PROVE \A s \in Runs : FilesPlaced(s)'
  BY <1>14 DEF WriteTemp
<1>15. ASSUME NEW r \in Runs, InstallMarker(r) PROVE \A s \in Runs : FilesPlaced(s)'
  BY <1>15 DEF InstallMarker
<1>16. ASSUME NEW r \in Runs, Launch(r) PROVE \A s \in Runs : FilesPlaced(s)'
  BY <1>16 DEF Launch
<1>17. ASSUME NEW r \in Runs, Panic(r) PROVE \A s \in Runs : FilesPlaced(s)'
  BY <1>17 DEF Panic
<1>18. ASSUME NEW r \in Runs, Leave(r) PROVE \A s \in Runs : FilesPlaced(s)'
  BY <1>18 DEF Leave
<1>19. ASSUME NEW r \in Runs, Signal(r) PROVE \A s \in Runs : FilesPlaced(s)'
  BY <1>19 DEF Signal
<1>20. ASSUME NEW r \in Runs, Kill(r) PROVE \A s \in Runs : FilesPlaced(s)'
  BY <1>20 DEF Kill
<1>21. ASSUME NEW r \in Runs, NEW t \in Threads, Close(r, t) PROVE \A s \in Runs : FilesPlaced(s)'
  BY <1>21 DEF Close
<1>22. ASSUME NEW r \in Runs, NEW t \in Threads, StatCrashLog(r, t) PROVE \A s \in Runs : FilesPlaced(s)'
  BY <1>22 DEF StatCrashLog
<1>23. ASSUME NEW r \in Runs, NEW t \in Threads, RemoveCrashLog(r, t) PROVE \A s \in Runs : FilesPlaced(s)'
  BY <1>23 DEF RemoveCrashLog
<1>24. ASSUME NEW r \in Runs, NEW t \in Threads, RemoveMarker(r, t) PROVE \A s \in Runs : FilesPlaced(s)'
  BY <1>24 DEF RemoveMarker
<1>25. ASSUME NEW r \in Runs, NEW t \in Threads, ListDir(r, t) PROVE \A s \in Runs : FilesPlaced(s)'
  BY <1>25 DEF ListDir
<1>26. ASSUME NEW r \in Runs, NEW t \in Threads, RemoveIgnore(r, t) PROVE \A s \in Runs : FilesPlaced(s)'
  BY <1>26 DEF RemoveIgnore
<1>27. ASSUME NEW r \in Runs, NEW t \in Threads, RemoveDir(r, t) PROVE \A s \in Runs : FilesPlaced(s)'
  BY <1>27 DEF RemoveDir
<1>28. CASE UNCHANGED vars
  BY <1>28 DEF vars
<1>29. QED
  BY <1>1, <1>2, <1>3, <1>4, <1>5, <1>6, <1>7, <1>8, <1>9, <1>10, <1>11, <1>12, <1>13, <1>14,
     <1>15, <1>16, <1>17, <1>18, <1>19, <1>20, <1>21, <1>22, <1>23, <1>24, <1>25, <1>26, <1>27,
     <1>28 DEF Next, StartUp, CleanUp

LEMMA PlaceStep ==
  ASSUME TypeOK, PlaceInv, [Next]_vars
  PROVE  PlaceInv'
BY ListenerStep, HandlerStep, FilesStep DEF PlaceInv

-----------------------------------------------------------------------------

\* One listener, on the socket that the path leads to; and none while
\* somebody is between the probe and his own.
OwnerInv ==
  ~raced =>
    /\ \A r \in listening : socket = r
    /\ \A r \in Runs : main[r] \in {"lstat", "unlink", "bind"} => listening = {}

LEMMA OwnerStep ==
  ASSUME TypeOK, MeetingInv, PlaceInv, OwnerInv, [Next]_vars
  PROVE  OwnerInv'
<1> USE MeetingStep
<1> USE OwnersAssumption DEF TypeOK, MeetingInv, PlaceInv, ListenerPlaced, HandlerPlaced,
          OwnerInv, Live, AfterBind, Listening, Starting, Cleanup, Ended, Goto, Gone, Step, Up,
          Armed, At, files, history
<1>1. ASSUME NEW r \in Runs, Begin(r) PROVE OwnerInv'
  BY <1>1 DEF Begin
<1>2. ASSUME NEW r \in Runs, IgnoreTraces(r) PROVE OwnerInv'
  BY <1>2 DEF IgnoreTraces
<1>3. ASSUME NEW r \in Runs, OpenTraces(r) PROVE OwnerInv'
  BY <1>3 DEF OpenTraces
<1>4. ASSUME NEW r \in Runs, MakeDir(r) PROVE OwnerInv'
  BY <1>4 DEF MakeDir
<1>5. ASSUME NEW r \in Runs, Probe(r) PROVE OwnerInv'
  BY <1>5 DEF Probe
<1>6. ASSUME NEW r \in Runs, Refuse(r) PROVE OwnerInv'
  BY <1>6 DEF Refuse
<1>7. ASSUME NEW r \in Runs, FindStale(r) PROVE OwnerInv'
  BY <1>7 DEF FindStale
<1>8. ASSUME NEW r \in Runs, RemoveStale(r) PROVE OwnerInv'
  BY <1>8 DEF RemoveStale
<1>9. ASSUME NEW r \in Runs, Bind(r) PROVE OwnerInv'
  BY <1>9 DEF Bind
<1>10. ASSUME NEW r \in Runs, Chmod(r) PROVE OwnerInv'
  BY <1>10 DEF Chmod
<1>11. ASSUME NEW r \in Runs, ListenFails(r) PROVE OwnerInv'
  BY <1>11 DEF ListenFails
<1>12. ASSUME NEW r \in Runs, Start(r) PROVE OwnerInv'
  BY <1>12 DEF Start
<1>13. ASSUME NEW r \in Runs, WriteIgnore(r) PROVE OwnerInv'
  BY <1>13 DEF WriteIgnore
<1>14. ASSUME NEW r \in Runs, WriteTemp(r) PROVE OwnerInv'
  BY <1>14 DEF WriteTemp
<1>15. ASSUME NEW r \in Runs, InstallMarker(r) PROVE OwnerInv'
  BY <1>15 DEF InstallMarker
<1>16. ASSUME NEW r \in Runs, Launch(r) PROVE OwnerInv'
  BY <1>16 DEF Launch
<1>17. ASSUME NEW r \in Runs, Panic(r) PROVE OwnerInv'
  BY <1>17 DEF Panic
<1>18. ASSUME NEW r \in Runs, Leave(r) PROVE OwnerInv'
  BY <1>18 DEF Leave
<1>19. ASSUME NEW r \in Runs, Signal(r) PROVE OwnerInv'
  BY <1>19 DEF Signal
<1>20. ASSUME NEW r \in Runs, Kill(r) PROVE OwnerInv'
  BY <1>20 DEF Kill
<1>21. ASSUME NEW r \in Runs, NEW t \in Threads, Close(r, t) PROVE OwnerInv'
  BY <1>21 DEF Close
<1>22. ASSUME NEW r \in Runs, NEW t \in Threads, StatCrashLog(r, t) PROVE OwnerInv'
  BY <1>22 DEF StatCrashLog
<1>23. ASSUME NEW r \in Runs, NEW t \in Threads, RemoveCrashLog(r, t) PROVE OwnerInv'
  BY <1>23 DEF RemoveCrashLog
<1>24. ASSUME NEW r \in Runs, NEW t \in Threads, RemoveMarker(r, t) PROVE OwnerInv'
  BY <1>24 DEF RemoveMarker
<1>25. ASSUME NEW r \in Runs, NEW t \in Threads, ListDir(r, t) PROVE OwnerInv'
  BY <1>25 DEF ListDir
<1>26. ASSUME NEW r \in Runs, NEW t \in Threads, RemoveIgnore(r, t) PROVE OwnerInv'
  BY <1>26 DEF RemoveIgnore
<1>27. ASSUME NEW r \in Runs, NEW t \in Threads, RemoveDir(r, t) PROVE OwnerInv'
  BY <1>27 DEF RemoveDir
<1>28. CASE UNCHANGED vars
  BY <1>28 DEF vars
<1>29. QED
  BY <1>1, <1>2, <1>3, <1>4, <1>5, <1>6, <1>7, <1>8, <1>9, <1>10, <1>11, <1>12, <1>13, <1>14,
     <1>15, <1>16, <1>17, <1>18, <1>19, <1>20, <1>21, <1>22, <1>23, <1>24, <1>25, <1>26, <1>27,
     <1>28 DEF Next, StartUp, CleanUp

\* What a start has found or made is still there at its next call.
AloneInv ==
  ~raced /\ ~crossed =>
    \A r \in Runs :
      /\ main[r] \in {"unlink", "chmod"} => socket # NoRun
      /\ main[r] = "bind" => socket = NoRun
      /\ main[r] \in Listening \cup {"temp"} => dir
      /\ main[r] # "unbound"

LEMMA AloneStep ==
  ASSUME TypeOK, MeetingInv, PlaceInv, AloneInv, [Next]_vars
  PROVE  AloneInv'
<1> USE MeetingStep
<1> USE OwnersAssumption DEF TypeOK, MeetingInv, Leaving, PlaceInv, ListenerPlaced,
          HandlerPlaced, AloneInv, Live, AfterBind, Listening, Starting, Cleanup, Ended, Goto,
          Gone, Step, Up, Armed, At, files, history
<1>1. ASSUME NEW r \in Runs, Begin(r) PROVE AloneInv'
  BY <1>1 DEF Begin
<1>2. ASSUME NEW r \in Runs, IgnoreTraces(r) PROVE AloneInv'
  BY <1>2 DEF IgnoreTraces
<1>3. ASSUME NEW r \in Runs, OpenTraces(r) PROVE AloneInv'
  BY <1>3 DEF OpenTraces
<1>4. ASSUME NEW r \in Runs, MakeDir(r) PROVE AloneInv'
  BY <1>4 DEF MakeDir
<1>5. ASSUME NEW r \in Runs, Probe(r) PROVE AloneInv'
  BY <1>5 DEF Probe
<1>6. ASSUME NEW r \in Runs, Refuse(r) PROVE AloneInv'
  BY <1>6 DEF Refuse
<1>7. ASSUME NEW r \in Runs, FindStale(r) PROVE AloneInv'
  BY <1>7 DEF FindStale
<1>8. ASSUME NEW r \in Runs, RemoveStale(r) PROVE AloneInv'
  BY <1>8 DEF RemoveStale
<1>9. ASSUME NEW r \in Runs, Bind(r) PROVE AloneInv'
  BY <1>9 DEF Bind
<1>10. ASSUME NEW r \in Runs, Chmod(r) PROVE AloneInv'
  BY <1>10 DEF Chmod
<1>11. ASSUME NEW r \in Runs, ListenFails(r) PROVE AloneInv'
  BY <1>11 DEF ListenFails
<1>12. ASSUME NEW r \in Runs, Start(r) PROVE AloneInv'
  BY <1>12 DEF Start
<1>13. ASSUME NEW r \in Runs, WriteIgnore(r) PROVE AloneInv'
  BY <1>13 DEF WriteIgnore
<1>14. ASSUME NEW r \in Runs, WriteTemp(r) PROVE AloneInv'
  BY <1>14 DEF WriteTemp
<1>15. ASSUME NEW r \in Runs, InstallMarker(r) PROVE AloneInv'
  BY <1>15 DEF InstallMarker
<1>16. ASSUME NEW r \in Runs, Launch(r) PROVE AloneInv'
  BY <1>16 DEF Launch
<1>17. ASSUME NEW r \in Runs, Panic(r) PROVE AloneInv'
  BY <1>17 DEF Panic
<1>18. ASSUME NEW r \in Runs, Leave(r) PROVE AloneInv'
  BY <1>18 DEF Leave
<1>19. ASSUME NEW r \in Runs, Signal(r) PROVE AloneInv'
  BY <1>19 DEF Signal
<1>20. ASSUME NEW r \in Runs, Kill(r) PROVE AloneInv'
  BY <1>20 DEF Kill
<1>21. ASSUME NEW r \in Runs, NEW t \in Threads, Close(r, t) PROVE AloneInv'
  BY <1>21 DEF Close
<1>22. ASSUME NEW r \in Runs, NEW t \in Threads, StatCrashLog(r, t) PROVE AloneInv'
  BY <1>22 DEF StatCrashLog
<1>23. ASSUME NEW r \in Runs, NEW t \in Threads, RemoveCrashLog(r, t) PROVE AloneInv'
  BY <1>23 DEF RemoveCrashLog
<1>24. ASSUME NEW r \in Runs, NEW t \in Threads, RemoveMarker(r, t) PROVE AloneInv'
  BY <1>24 DEF RemoveMarker
<1>25. ASSUME NEW r \in Runs, NEW t \in Threads, ListDir(r, t) PROVE AloneInv'
  BY <1>25 DEF ListDir
<1>26. ASSUME NEW r \in Runs, NEW t \in Threads, RemoveIgnore(r, t) PROVE AloneInv'
  BY <1>26 DEF RemoveIgnore
<1>27. ASSUME NEW r \in Runs, NEW t \in Threads, RemoveDir(r, t) PROVE AloneInv'
  BY <1>27 DEF RemoveDir
<1>28. CASE UNCHANGED vars
  BY <1>28 DEF vars
<1>29. QED
  BY <1>1, <1>2, <1>3, <1>4, <1>5, <1>6, <1>7, <1>8, <1>9, <1>10, <1>11, <1>12, <1>13, <1>14,
     <1>15, <1>16, <1>17, <1>18, <1>19, <1>20, <1>21, <1>22, <1>23, <1>24, <1>25, <1>26, <1>27,
     <1>28 DEF Next, StartUp, CleanUp

\* .gitignore goes only when there are no traces.
TracesInv ==
  ~crossed =>
    /\ "traces" \in entries => "gitignore" \in entries
    /\ \A r \in Runs :
         /\ main[r] = "traces" => "gitignore" \in entries
         /\ main[r] = "gitignore" \/ handler[r] = "gitignore" => "traces" \notin entries

LEMMA TracesStep ==
  ASSUME TypeOK, MeetingInv, PlaceInv, TracesInv, [Next]_vars
  PROVE  TracesInv'
<1> USE MeetingStep
<1> USE OwnersAssumption DEF TypeOK, MeetingInv, Leaving, PlaceInv, HandlerPlaced, TracesInv,
          Listening, Starting, Cleanup, Ended, Goto, Gone, Step, Up, Armed, At, files, history
<1>1. ASSUME NEW r \in Runs, Begin(r) PROVE TracesInv'
  BY <1>1 DEF Begin
<1>2. ASSUME NEW r \in Runs, IgnoreTraces(r) PROVE TracesInv'
  BY <1>2 DEF IgnoreTraces
<1>3. ASSUME NEW r \in Runs, OpenTraces(r) PROVE TracesInv'
  BY <1>3 DEF OpenTraces
<1>4. ASSUME NEW r \in Runs, MakeDir(r) PROVE TracesInv'
  BY <1>4 DEF MakeDir
<1>5. ASSUME NEW r \in Runs, Probe(r) PROVE TracesInv'
  BY <1>5 DEF Probe
<1>6. ASSUME NEW r \in Runs, Refuse(r) PROVE TracesInv'
  BY <1>6 DEF Refuse
<1>7. ASSUME NEW r \in Runs, FindStale(r) PROVE TracesInv'
  BY <1>7 DEF FindStale
<1>8. ASSUME NEW r \in Runs, RemoveStale(r) PROVE TracesInv'
  BY <1>8 DEF RemoveStale
<1>9. ASSUME NEW r \in Runs, Bind(r) PROVE TracesInv'
  BY <1>9 DEF Bind
<1>10. ASSUME NEW r \in Runs, Chmod(r) PROVE TracesInv'
  BY <1>10 DEF Chmod
<1>11. ASSUME NEW r \in Runs, ListenFails(r) PROVE TracesInv'
  BY <1>11 DEF ListenFails
<1>12. ASSUME NEW r \in Runs, Start(r) PROVE TracesInv'
  BY <1>12 DEF Start
<1>13. ASSUME NEW r \in Runs, WriteIgnore(r) PROVE TracesInv'
  BY <1>13 DEF WriteIgnore
<1>14. ASSUME NEW r \in Runs, WriteTemp(r) PROVE TracesInv'
  BY <1>14 DEF WriteTemp
<1>15. ASSUME NEW r \in Runs, InstallMarker(r) PROVE TracesInv'
  BY <1>15 DEF InstallMarker
<1>16. ASSUME NEW r \in Runs, Launch(r) PROVE TracesInv'
  BY <1>16 DEF Launch
<1>17. ASSUME NEW r \in Runs, Panic(r) PROVE TracesInv'
  BY <1>17 DEF Panic
<1>18. ASSUME NEW r \in Runs, Leave(r) PROVE TracesInv'
  BY <1>18 DEF Leave
<1>19. ASSUME NEW r \in Runs, Signal(r) PROVE TracesInv'
  BY <1>19 DEF Signal
<1>20. ASSUME NEW r \in Runs, Kill(r) PROVE TracesInv'
  BY <1>20 DEF Kill
<1>21. ASSUME NEW r \in Runs, NEW t \in Threads, Close(r, t) PROVE TracesInv'
  BY <1>21 DEF Close
<1>22. ASSUME NEW r \in Runs, NEW t \in Threads, StatCrashLog(r, t) PROVE TracesInv'
  BY <1>22 DEF StatCrashLog
<1>23. ASSUME NEW r \in Runs, NEW t \in Threads, RemoveCrashLog(r, t) PROVE TracesInv'
  BY <1>23 DEF RemoveCrashLog
<1>24. ASSUME NEW r \in Runs, NEW t \in Threads, RemoveMarker(r, t) PROVE TracesInv'
  BY <1>24 DEF RemoveMarker
<1>25. ASSUME NEW r \in Runs, NEW t \in Threads, ListDir(r, t) PROVE TracesInv'
  BY <1>25 DEF ListDir
<1>26. ASSUME NEW r \in Runs, NEW t \in Threads, RemoveIgnore(r, t) PROVE TracesInv'
  BY <1>26 DEF RemoveIgnore
<1>27. ASSUME NEW r \in Runs, NEW t \in Threads, RemoveDir(r, t) PROVE TracesInv'
  BY <1>27 DEF RemoveDir
<1>28. CASE UNCHANGED vars
  BY <1>28 DEF vars
<1>29. QED
  BY <1>1, <1>2, <1>3, <1>4, <1>5, <1>6, <1>7, <1>8, <1>9, <1>10, <1>11, <1>12, <1>13, <1>14,
     <1>15, <1>16, <1>17, <1>18, <1>19, <1>20, <1>21, <1>22, <1>23, <1>24, <1>25, <1>26, <1>27,
     <1>28 DEF Next, StartUp, CleanUp

\* A run that is up and has no signal has its marker, and nobody else leaves.
MarkerInv ==
  ~raced /\ ~crossed =>
    \A r \in Runs : Settled(r) => marker = r /\ \A s \in Runs : r # s => ~Leaving(s)

LEMMA MarkerStep ==
  ASSUME TypeOK, MeetingInv, PlaceInv, OwnerInv, AloneInv, MarkerInv, [Next]_vars
  PROVE  MarkerInv'
<1> USE MeetingStep
<1> USE OwnersAssumption DEF TypeOK, MeetingInv, Leaving, Settled, PlaceInv, ListenerPlaced,
          HandlerPlaced, OwnerInv, AloneInv, MarkerInv, AfterBind, Listening, Starting, Cleanup,
          Ended, Goto, Gone, Step, Up, Armed, At, files, history
<1>1. ASSUME NEW r \in Runs, Begin(r) PROVE MarkerInv'
  BY <1>1 DEF Begin
<1>2. ASSUME NEW r \in Runs, IgnoreTraces(r) PROVE MarkerInv'
  BY <1>2 DEF IgnoreTraces
<1>3. ASSUME NEW r \in Runs, OpenTraces(r) PROVE MarkerInv'
  BY <1>3 DEF OpenTraces
<1>4. ASSUME NEW r \in Runs, MakeDir(r) PROVE MarkerInv'
  BY <1>4 DEF MakeDir
<1>5. ASSUME NEW r \in Runs, Probe(r) PROVE MarkerInv'
  BY <1>5 DEF Probe
<1>6. ASSUME NEW r \in Runs, Refuse(r) PROVE MarkerInv'
  BY <1>6 DEF Refuse
<1>7. ASSUME NEW r \in Runs, FindStale(r) PROVE MarkerInv'
  BY <1>7 DEF FindStale
<1>8. ASSUME NEW r \in Runs, RemoveStale(r) PROVE MarkerInv'
  BY <1>8 DEF RemoveStale
<1>9. ASSUME NEW r \in Runs, Bind(r) PROVE MarkerInv'
  BY <1>9 DEF Bind
<1>10. ASSUME NEW r \in Runs, Chmod(r) PROVE MarkerInv'
  BY <1>10 DEF Chmod
<1>11. ASSUME NEW r \in Runs, ListenFails(r) PROVE MarkerInv'
  BY <1>11 DEF ListenFails
<1>12. ASSUME NEW r \in Runs, Start(r) PROVE MarkerInv'
  BY <1>12 DEF Start
<1>13. ASSUME NEW r \in Runs, WriteIgnore(r) PROVE MarkerInv'
  BY <1>13 DEF WriteIgnore
<1>14. ASSUME NEW r \in Runs, WriteTemp(r) PROVE MarkerInv'
  BY <1>14 DEF WriteTemp
<1>15. ASSUME NEW r \in Runs, InstallMarker(r) PROVE MarkerInv'
  BY <1>15 DEF InstallMarker
<1>16. ASSUME NEW r \in Runs, Launch(r) PROVE MarkerInv'
  BY <1>16 DEF Launch
<1>17. ASSUME NEW r \in Runs, Panic(r) PROVE MarkerInv'
  BY <1>17 DEF Panic
<1>18. ASSUME NEW r \in Runs, Leave(r) PROVE MarkerInv'
  BY <1>18 DEF Leave
<1>19. ASSUME NEW r \in Runs, Signal(r) PROVE MarkerInv'
  BY <1>19 DEF Signal
<1>20. ASSUME NEW r \in Runs, Kill(r) PROVE MarkerInv'
  BY <1>20 DEF Kill
<1>21. ASSUME NEW r \in Runs, NEW t \in Threads, Close(r, t) PROVE MarkerInv'
  BY <1>21 DEF Close
<1>22. ASSUME NEW r \in Runs, NEW t \in Threads, StatCrashLog(r, t) PROVE MarkerInv'
  BY <1>22 DEF StatCrashLog
<1>23. ASSUME NEW r \in Runs, NEW t \in Threads, RemoveCrashLog(r, t) PROVE MarkerInv'
  BY <1>23 DEF RemoveCrashLog
<1>24. ASSUME NEW r \in Runs, NEW t \in Threads, RemoveMarker(r, t) PROVE MarkerInv'
  BY <1>24 DEF RemoveMarker
<1>25. ASSUME NEW r \in Runs, NEW t \in Threads, ListDir(r, t) PROVE MarkerInv'
  BY <1>25 DEF ListDir
<1>26. ASSUME NEW r \in Runs, NEW t \in Threads, RemoveIgnore(r, t) PROVE MarkerInv'
  BY <1>26 DEF RemoveIgnore
<1>27. ASSUME NEW r \in Runs, NEW t \in Threads, RemoveDir(r, t) PROVE MarkerInv'
  BY <1>27 DEF RemoveDir
<1>28. CASE UNCHANGED vars
  BY <1>28 DEF vars
<1>29. QED
  BY <1>1, <1>2, <1>3, <1>4, <1>5, <1>6, <1>7, <1>8, <1>9, <1>10, <1>11, <1>12, <1>13, <1>14,
     <1>15, <1>16, <1>17, <1>18, <1>19, <1>20, <1>21, <1>22, <1>23, <1>24, <1>25, <1>26, <1>27,
     <1>28 DEF Next, StartUp, CleanUp

-----------------------------------------------------------------------------

\* A directory that has gone took everything along, and the temporary file of
\* a run stays until it is renamed.
DirInv ==
  /\ ~dir => entries = {} /\ socket = NoRun /\ marker = NoRun
  /\ \A r \in Runs : main[r] = "rename" => r \in entries

LEMMA DirStep ==
  ASSUME TypeOK, PlaceInv, DirInv, [Next]_vars
  PROVE  DirInv'
<1> USE OwnersAssumption DEF TypeOK, PlaceInv, HandlerPlaced, ListenerPlaced, DirInv, AfterBind,
          Listening, Starting, Cleanup, Ended, Goto, Gone, Step, Up, Armed, At, files, history
<1>1. ASSUME NEW r \in Runs, Begin(r) PROVE DirInv'
  BY <1>1 DEF Begin
<1>2. ASSUME NEW r \in Runs, IgnoreTraces(r) PROVE DirInv'
  BY <1>2 DEF IgnoreTraces
<1>3. ASSUME NEW r \in Runs, OpenTraces(r) PROVE DirInv'
  BY <1>3 DEF OpenTraces
<1>4. ASSUME NEW r \in Runs, MakeDir(r) PROVE DirInv'
  BY <1>4 DEF MakeDir
<1>5. ASSUME NEW r \in Runs, Probe(r) PROVE DirInv'
  BY <1>5 DEF Probe
<1>6. ASSUME NEW r \in Runs, Refuse(r) PROVE DirInv'
  BY <1>6 DEF Refuse
<1>7. ASSUME NEW r \in Runs, FindStale(r) PROVE DirInv'
  BY <1>7 DEF FindStale
<1>8. ASSUME NEW r \in Runs, RemoveStale(r) PROVE DirInv'
  BY <1>8 DEF RemoveStale
<1>9. ASSUME NEW r \in Runs, Bind(r) PROVE DirInv'
  BY <1>9 DEF Bind
<1>10. ASSUME NEW r \in Runs, Chmod(r) PROVE DirInv'
  BY <1>10 DEF Chmod
<1>11. ASSUME NEW r \in Runs, ListenFails(r) PROVE DirInv'
  BY <1>11 DEF ListenFails
<1>12. ASSUME NEW r \in Runs, Start(r) PROVE DirInv'
  BY <1>12 DEF Start
<1>13. ASSUME NEW r \in Runs, WriteIgnore(r) PROVE DirInv'
  BY <1>13 DEF WriteIgnore
<1>14. ASSUME NEW r \in Runs, WriteTemp(r) PROVE DirInv'
  <2>1. CASE dir
    BY <1>14, <2>1 DEF WriteTemp
  <2>2. CASE ~dir
    <3>1. entries' = {} /\ socket' = NoRun /\ marker' = NoRun
      BY <1>14, <2>2 DEF WriteTemp
    <3>2. main' = [main EXCEPT ![r] = "up"]
      BY <1>14, <2>2 DEF WriteTemp
    <3>3. QED
      BY <2>2, <3>1, <3>2
  <2>3. QED
    BY <2>1, <2>2
<1>15. ASSUME NEW r \in Runs, InstallMarker(r) PROVE DirInv'
  BY <1>15 DEF InstallMarker
<1>16. ASSUME NEW r \in Runs, Launch(r) PROVE DirInv'
  BY <1>16 DEF Launch
<1>17. ASSUME NEW r \in Runs, Panic(r) PROVE DirInv'
  BY <1>17 DEF Panic
<1>18. ASSUME NEW r \in Runs, Leave(r) PROVE DirInv'
  BY <1>18 DEF Leave
<1>19. ASSUME NEW r \in Runs, Signal(r) PROVE DirInv'
  BY <1>19 DEF Signal
<1>20. ASSUME NEW r \in Runs, Kill(r) PROVE DirInv'
  BY <1>20 DEF Kill
<1>21. ASSUME NEW r \in Runs, NEW t \in Threads, Close(r, t) PROVE DirInv'
  BY <1>21 DEF Close
<1>22. ASSUME NEW r \in Runs, NEW t \in Threads, StatCrashLog(r, t) PROVE DirInv'
  BY <1>22 DEF StatCrashLog
<1>23. ASSUME NEW r \in Runs, NEW t \in Threads, RemoveCrashLog(r, t) PROVE DirInv'
  BY <1>23 DEF RemoveCrashLog
<1>24. ASSUME NEW r \in Runs, NEW t \in Threads, RemoveMarker(r, t) PROVE DirInv'
  BY <1>24 DEF RemoveMarker
<1>25. ASSUME NEW r \in Runs, NEW t \in Threads, ListDir(r, t) PROVE DirInv'
  BY <1>25 DEF ListDir
<1>26. ASSUME NEW r \in Runs, NEW t \in Threads, RemoveIgnore(r, t) PROVE DirInv'
  BY <1>26 DEF RemoveIgnore
<1>27. ASSUME NEW r \in Runs, NEW t \in Threads, RemoveDir(r, t) PROVE DirInv'
  BY <1>27 DEF RemoveDir
<1>28. CASE UNCHANGED vars
  BY <1>28 DEF vars
<1>29. QED
  BY <1>1, <1>2, <1>3, <1>4, <1>5, <1>6, <1>7, <1>8, <1>9, <1>10, <1>11, <1>12, <1>13, <1>14,
     <1>15, <1>16, <1>17, <1>18, <1>19, <1>20, <1>21, <1>22, <1>23, <1>24, <1>25, <1>26, <1>27,
     <1>28 DEF Next, StartUp, CleanUp

\* An empty crash.log belongs to a run that will look at it, or was killed.
CrashInv ==
  "crash" \in entries /\ ~reported =>
    \E s \in crashLog : main[s] \in {"up", "close", "stat", "crash", "killed"}

LEMMA CrashStep ==
  ASSUME TypeOK, PlaceInv, CrashInv, [Next]_vars
  PROVE  CrashInv'
<1> USE OwnersAssumption DEF TypeOK, PlaceInv, HandlerPlaced, CrashInv, Listening, Starting,
          Cleanup, Ended, Goto, Gone, Step, Up, Armed, At, files, history
<1>1. ASSUME NEW r \in Runs, Begin(r) PROVE CrashInv'
  BY <1>1 DEF Begin
<1>2. ASSUME NEW r \in Runs, IgnoreTraces(r) PROVE CrashInv'
  BY <1>2 DEF IgnoreTraces
<1>3. ASSUME NEW r \in Runs, OpenTraces(r) PROVE CrashInv'
  BY <1>3 DEF OpenTraces
<1>4. ASSUME NEW r \in Runs, MakeDir(r) PROVE CrashInv'
  BY <1>4 DEF MakeDir
<1>5. ASSUME NEW r \in Runs, Probe(r) PROVE CrashInv'
  BY <1>5 DEF Probe
<1>6. ASSUME NEW r \in Runs, Refuse(r) PROVE CrashInv'
  BY <1>6 DEF Refuse
<1>7. ASSUME NEW r \in Runs, FindStale(r) PROVE CrashInv'
  BY <1>7 DEF FindStale
<1>8. ASSUME NEW r \in Runs, RemoveStale(r) PROVE CrashInv'
  BY <1>8 DEF RemoveStale
<1>9. ASSUME NEW r \in Runs, Bind(r) PROVE CrashInv'
  BY <1>9 DEF Bind
<1>10. ASSUME NEW r \in Runs, Chmod(r) PROVE CrashInv'
  BY <1>10 DEF Chmod
<1>11. ASSUME NEW r \in Runs, ListenFails(r) PROVE CrashInv'
  BY <1>11 DEF ListenFails
<1>12. ASSUME NEW r \in Runs, Start(r) PROVE CrashInv'
  BY <1>12 DEF Start
<1>13. ASSUME NEW r \in Runs, WriteIgnore(r) PROVE CrashInv'
  BY <1>13 DEF WriteIgnore
<1>14. ASSUME NEW r \in Runs, WriteTemp(r) PROVE CrashInv'
  BY <1>14 DEF WriteTemp
<1>15. ASSUME NEW r \in Runs, InstallMarker(r) PROVE CrashInv'
  BY <1>15 DEF InstallMarker
<1>16. ASSUME NEW r \in Runs, Launch(r) PROVE CrashInv'
  BY <1>16 DEF Launch
<1>17. ASSUME NEW r \in Runs, Panic(r) PROVE CrashInv'
  BY <1>17 DEF Panic
<1>18. ASSUME NEW r \in Runs, Leave(r) PROVE CrashInv'
  BY <1>18 DEF Leave
<1>19. ASSUME NEW r \in Runs, Signal(r) PROVE CrashInv'
  BY <1>19 DEF Signal
<1>20. ASSUME NEW r \in Runs, Kill(r) PROVE CrashInv'
  BY <1>20 DEF Kill
<1>21. ASSUME NEW r \in Runs, NEW t \in Threads, Close(r, t) PROVE CrashInv'
  BY <1>21 DEF Close
<1>22. ASSUME NEW r \in Runs, NEW t \in Threads, StatCrashLog(r, t) PROVE CrashInv'
  BY <1>22 DEF StatCrashLog
<1>23. ASSUME NEW r \in Runs, NEW t \in Threads, RemoveCrashLog(r, t) PROVE CrashInv'
  BY <1>23 DEF RemoveCrashLog
<1>24. ASSUME NEW r \in Runs, NEW t \in Threads, RemoveMarker(r, t) PROVE CrashInv'
  BY <1>24 DEF RemoveMarker
<1>25. ASSUME NEW r \in Runs, NEW t \in Threads, ListDir(r, t) PROVE CrashInv'
  BY <1>25 DEF ListDir
<1>26. ASSUME NEW r \in Runs, NEW t \in Threads, RemoveIgnore(r, t) PROVE CrashInv'
  BY <1>26 DEF RemoveIgnore
<1>27. ASSUME NEW r \in Runs, NEW t \in Threads, RemoveDir(r, t) PROVE CrashInv'
  BY <1>27 DEF RemoveDir
<1>28. CASE UNCHANGED vars
  BY <1>28 DEF vars
<1>29. QED
  BY <1>1, <1>2, <1>3, <1>4, <1>5, <1>6, <1>7, <1>8, <1>9, <1>10, <1>11, <1>12, <1>13, <1>14,
     <1>15, <1>16, <1>17, <1>18, <1>19, <1>20, <1>21, <1>22, <1>23, <1>24, <1>25, <1>26, <1>27,
     <1>28 DEF Next, StartUp, CleanUp

\* A run that has not ended in order and, if it is about to remove the
\* directory, has removed .gitignore.
Busy(r) ==
  /\ main[r] \notin {"off", "refused", "exited"}
  /\ main[r] = "rmdir" => "gitignore" \notin entries

\* While there is nothing worth keeping, somebody is left to see to it: what
\* one run finds when it lists the directory is another's, who lists later.
CleanInv ==
  /\ dir /\ entries \subseteq {"gitignore"} /\ ~lost
  /\ \E r \in Runs : main[r] \in {"rmdir", "exited"}
  => \E r \in Runs : Busy(r)

LEMMA CleanStep ==
  ASSUME TypeOK, PlaceInv, DirInv, CrashInv, CleanInv, [Next]_vars
  PROVE  CleanInv'
<1> USE OwnersAssumption DEF TypeOK, Owners, PlaceInv, ListenerPlaced, HandlerPlaced,
          FilesPlaced, DirInv, CrashInv, CleanInv, Busy, Live, AfterBind, Listening, Starting,
          Cleanup, Ended, Goto, Gone, Step, Up, Armed, At, files, history
<1>1. ASSUME NEW r \in Runs, Begin(r) PROVE CleanInv'
  BY <1>1 DEF Begin
<1>2. ASSUME NEW r \in Runs, IgnoreTraces(r) PROVE CleanInv'
  BY <1>2 DEF IgnoreTraces
<1>3. ASSUME NEW r \in Runs, OpenTraces(r) PROVE CleanInv'
  BY <1>3 DEF OpenTraces
<1>4. ASSUME NEW r \in Runs, MakeDir(r) PROVE CleanInv'
  BY <1>4 DEF MakeDir
<1>5. ASSUME NEW r \in Runs, Probe(r) PROVE CleanInv'
  BY <1>5 DEF Probe
<1>6. ASSUME NEW r \in Runs, Refuse(r) PROVE CleanInv'
  BY <1>6 DEF Refuse
<1>7. ASSUME NEW r \in Runs, FindStale(r) PROVE CleanInv'
  BY <1>7 DEF FindStale
<1>8. ASSUME NEW r \in Runs, RemoveStale(r) PROVE CleanInv'
  BY <1>8 DEF RemoveStale
<1>9. ASSUME NEW r \in Runs, Bind(r) PROVE CleanInv'
  BY <1>9 DEF Bind
<1>10. ASSUME NEW r \in Runs, Chmod(r) PROVE CleanInv'
  BY <1>10 DEF Chmod
<1>11. ASSUME NEW r \in Runs, ListenFails(r) PROVE CleanInv'
  BY <1>11 DEF ListenFails
<1>12. ASSUME NEW r \in Runs, Start(r) PROVE CleanInv'
  BY <1>12 DEF Start
<1>13. ASSUME NEW r \in Runs, WriteIgnore(r) PROVE CleanInv'
  BY <1>13 DEF WriteIgnore
<1>14. ASSUME NEW r \in Runs, WriteTemp(r) PROVE CleanInv'
  BY <1>14 DEF WriteTemp
<1>15. ASSUME NEW r \in Runs, InstallMarker(r) PROVE CleanInv'
  BY <1>15 DEF InstallMarker
<1>16. ASSUME NEW r \in Runs, Launch(r) PROVE CleanInv'
  BY <1>16 DEF Launch
<1>17. ASSUME NEW r \in Runs, Panic(r) PROVE CleanInv'
  BY <1>17 DEF Panic
<1>18. ASSUME NEW r \in Runs, Leave(r) PROVE CleanInv'
  BY <1>18 DEF Leave
<1>19. ASSUME NEW r \in Runs, Signal(r) PROVE CleanInv'
  BY <1>19 DEF Signal
<1>20. ASSUME NEW r \in Runs, Kill(r) PROVE CleanInv'
  BY <1>20 DEF Kill
<1>21. ASSUME NEW r \in Runs, NEW t \in Threads, Close(r, t) PROVE CleanInv'
  BY <1>21 DEF Close
<1>22. ASSUME NEW r \in Runs, NEW t \in Threads, StatCrashLog(r, t) PROVE CleanInv'
  BY <1>22 DEF StatCrashLog
<1>23. ASSUME NEW r \in Runs, NEW t \in Threads, RemoveCrashLog(r, t) PROVE CleanInv'
  BY <1>23 DEF RemoveCrashLog
<1>24. ASSUME NEW r \in Runs, NEW t \in Threads, RemoveMarker(r, t) PROVE CleanInv'
  BY <1>24 DEF RemoveMarker
<1>25. ASSUME NEW r \in Runs, NEW t \in Threads, ListDir(r, t) PROVE CleanInv'
  <2> SUFFICES ASSUME dir, entries \subseteq {"gitignore"}, ~lost, \A s \in Runs : ~Busy(s)' PROVE FALSE
    BY <1>25 DEF ListDir
  <2>1. UNCHANGED <<entries, socket, marker, closed, listening, dir, lost>>
    BY <1>25 DEF ListDir
  <2>2. CASE t = "main"
    <3>1. main[r] = "list" /\ ~Busy(r)' /\ main'[r] \in {"gitignore", "rmdir"}
      BY <1>25, <2>2 DEF ListDir
    <3>2. "gitignore" \in entries /\ main'[r] = "rmdir"
      BY <2>1, <3>1
    <3>3. socket # NoRun \/ marker # NoRun
      <4>1. entries = {"gitignore"}
        BY <3>2, OnlyMember
      <4>2. main'[r] = IF dir /\ entries = {"gitignore"} /\ socket = NoRun /\ marker = NoRun
                       THEN "gitignore" ELSE "rmdir"
        BY <1>25, <2>2 DEF ListDir
      <4>3. QED
        BY <3>2, <4>1, <4>2
    <3>4. PICK s \in Runs \ {r} : socket = s \/ marker = s
      BY <3>1, <3>3
    <3>5. main[s] \in AfterBind \cup {"killed", "failed"} /\ main[s] # "rmdir"
      BY <3>4
    <3>6. main'[s] = main[s]
      BY <1>25, <2>2, <3>4 DEF ListDir
    <3>7. QED
      BY <3>5, <3>6
  <2>3. CASE t # "main"
    BY <1>25, <2>1, <2>3 DEF ListDir
  <2>4. QED
    BY <2>2, <2>3
<1>26. ASSUME NEW r \in Runs, NEW t \in Threads, RemoveIgnore(r, t) PROVE CleanInv'
  BY <1>26 DEF RemoveIgnore
<1>27. ASSUME NEW r \in Runs, NEW t \in Threads, RemoveDir(r, t) PROVE CleanInv'
  <2> SUFFICES ASSUME dir', entries \subseteq {"gitignore"}, ~lost, \A s \in Runs : ~Busy(s)' PROVE FALSE
    BY <1>27 DEF RemoveDir
  <2>1. entries' = entries /\ socket' = socket /\ marker' = marker /\ lost' = lost
    BY <1>27 DEF RemoveDir
  <2>2. dir
    BY <1>27, <2>1 DEF RemoveDir
  <2>3. CASE t = "main"
    <3>1. main[r] = "rmdir" /\ main' = [main EXCEPT ![r] = "exited"]
      BY <1>27, <2>3 DEF RemoveDir
    <3>2. PICK s \in Runs : Busy(s)
      BY <2>2, <3>1
    <3>3. s = r /\ entries = {}
      BY <2>1, <3>1, <3>2
    <3>4. dir' = (entries # {} \/ socket # NoRun \/ marker # NoRun)
      BY <1>27, Zenon DEF RemoveDir
    <3>5. PICK q \in Runs \ {r} : socket = q \/ marker = q
      BY <3>1, <3>3, <3>4
    <3>6. main[q] \in AfterBind \cup {"killed", "failed"} /\ main[q] # "rmdir" /\ main'[q] = main[q]
      BY <3>1, <3>5
    <3>7. QED
      BY <3>6
  <2>4. CASE t # "main"
    BY <1>27, <2>1, <2>2, <2>4 DEF RemoveDir
  <2>5. QED
    BY <2>3, <2>4
<1>28. CASE UNCHANGED vars
  BY <1>28 DEF vars
<1>29. QED
  BY <1>1, <1>2, <1>3, <1>4, <1>5, <1>6, <1>7, <1>8, <1>9, <1>10, <1>11, <1>12, <1>13, <1>14,
     <1>15, <1>16, <1>17, <1>18, <1>19, <1>20, <1>21, <1>22, <1>23, <1>24, <1>25, <1>26, <1>27,
     <1>28 DEF Next, StartUp, CleanUp

-----------------------------------------------------------------------------

IInv ==
  /\ TypeOK /\ MeetingInv /\ PlaceInv
  /\ OwnerInv /\ AloneInv /\ TracesInv /\ MarkerInv
  /\ DirInv /\ CrashInv /\ CleanInv

LEMMA InitIInv == Init => IInv
<1> SUFFICES ASSUME Init PROVE IInv
  OBVIOUS
<1> USE OwnersAssumption DEF Init
<1>1. TypeOK /\ MeetingInv
  BY DEF TypeOK, Owners, MeetingInv, Leaving, Listening, Starting, Cleanup
<1>2. PlaceInv
  BY DEF PlaceInv, ListenerPlaced, HandlerPlaced, FilesPlaced, Settled, AfterBind, Cleanup
<1>3. OwnerInv /\ AloneInv /\ TracesInv /\ MarkerInv
  BY DEF OwnerInv, AloneInv, TracesInv, MarkerInv, Settled, Listening
<1>4. DirInv /\ CrashInv /\ CleanInv
  BY DEF DirInv, CrashInv, CleanInv
<1>5. QED
  BY <1>1, <1>2, <1>3, <1>4 DEF IInv

LEMMA StepIInv == IInv /\ [Next]_vars => IInv'
BY TypeStep, MeetingStep, PlaceStep, OwnerStep, AloneStep, TracesStep, MarkerStep, DirStep, CrashStep, CleanStep
   DEF IInv

\* Whatever the others do, the files of api.Listen, Marker.Write and
\* removeMarker stay in step with where the runs are.
THEOREM Inductive == Spec => []IInv
BY InitIInv, StepIInv, PTL DEF Spec

\* However many runs there are: as long as no two are inside api.Listen at
\* once, one listens and its socket is at the path; a start that meets nobody
\* gets its socket; and no traces are without their .gitignore.
THEOREM StartsAreSound == Spec => []StartSound
<1>1. IInv => StartSound
  <2> SUFFICES ASSUME IInv PROVE StartSound
    OBVIOUS
  <2>1. OneOwner
    BY DEF IInv, OwnerInv, OneOwner, TypeOK
  <2>2. AloneBinds
    BY DEF IInv, AloneInv, AloneBinds
  <2>3. TracesIgnored
    BY DEF IInv, TracesInv, TracesIgnored
  <2>4. QED
    BY <2>1, <2>2, <2>3 DEF StartSound, IInv
<1>2. QED
  BY <1>1, Inductive, PTL

\* instance.json tells of the run that serves the API, unless a run has
\* started while another was leaving.
THEOREM MarkerTellsTruth == Spec => []MarkerUnlessCrossed
<1>1. IInv => MarkerUnlessCrossed
  BY DEF IInv, MarkerInv, MarkerUnlessCrossed, MarkerWhileRunning
<1>2. QED
  BY <1>1, Inductive, PTL

\* A run that ends in order leaves neither marker nor socket, and when all
\* have, in whatever order and however they met, the directory has gone with
\* the last of them, unless it keeps something.
THEOREM NothingIsLeft == Spec => []LeavesNothing
<1>1. IInv => NothingOutlives
  BY DEF IInv, PlaceInv, ListenerPlaced, FilesPlaced, NothingOutlives, AfterBind, Cleanup
<1>2. IInv => LastOneCleans
  <2> SUFFICES ASSUME IInv, NEW e \in Runs, main[e] = "exited", ~lost,
                      \A r \in Runs : main[r] \in {"off", "refused", "exited"}
               PROVE  /\ socket = NoRun /\ marker = NoRun
                      /\ "crash" \in entries => reported
                      /\ entries \subseteq {"gitignore"} => ~dir
    BY DEF LastOneCleans
  <2>1. socket \notin Runs /\ marker \notin Runs
    <3> SUFFICES ASSUME NEW r \in Runs PROVE socket # r /\ marker # r
      OBVIOUS
    <3> QED
      BY <1>1 DEF IInv, PlaceInv, FilesPlaced, NothingOutlives, AfterBind, Cleanup
  <2>2. socket # Earlier /\ marker # Earlier
    BY DEF IInv, PlaceInv, FilesPlaced
  <2>3. "crash" \in entries => reported
    <3>1. \A s \in crashLog : s \in Runs
      BY DEF IInv, TypeOK
    <3>2. QED
      BY <3>1 DEF IInv, CrashInv
  <2>4. entries \subseteq {"gitignore"} => ~dir
    BY DEF IInv, CleanInv, Busy
  <2>5. QED
    BY <2>1, <2>2, <2>3, <2>4 DEF IInv, TypeOK, Owners
<1>3. QED
  BY <1>1, <1>2, Inductive, PTL DEF LeavesNothing
=============================================================================
