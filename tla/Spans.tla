------------------------------- MODULE Spans -------------------------------
(***************************************************************************)
(* The spans Running Man holds in memory (tracing.SpanStorage) and the     *)
(* segment files it keeps them in across restarts (tracing.Disk). Every    *)
(* call holds the storage lock and is one step, except LoadFromDisk, which *)
(* reads the files without it while spans arrive and segments expire.      *)
(* Time is a count of events: every arrival, roll and start has its own.   *)
(***************************************************************************)
EXTENDS Naturals, Sequences, SequencesExt, FiniteSetsExt

CONSTANTS
  MaxTime,      \* bound on the clock
  Sizes,        \* what SpanEntry.size() may return
  MaxSpans,     \* SpanStorage.maxSize
  MaxBytes,     \* maxBytes, of the storage and of the disk
  MaxAge,       \* maxAge
  SegmentLife,  \* segmentLife
  SegmentBytes  \* segmentMaxBytes

ASSUME LimitsAssumption ==
  /\ MaxTime \in Nat /\ Sizes \subseteq Nat \ {0}
  /\ MaxSpans \in Nat \ {0} /\ MaxBytes \in Nat /\ MaxAge \in Nat
  /\ SegmentLife \in Nat /\ SegmentBytes \in Nat

VARIABLES
  now,
  segs,    \* the segment files, in the order of their names
  up,      \* Running Man is running, with its disk attached
  mem,     \* SpanStorage.spans
  bytes,   \* SpanStorage.bytes
  dropped, \* droppedThrough
  run,     \* when this run started
  runs,    \* the starts of the runs it knows of
  cur,     \* Disk: [open, name, earlier, newest], cur # nil and curName among it
  load,    \* LoadFromDisk: [pc, names, spans, newest, runs]
  served,  \* history: the starts of all runs that got to serve
  expired  \* history: the spans that were deleted with their segment

memory  == <<mem, bytes, dropped, run, runs>>
history == <<served, expired>>
vars    == <<now, segs, up, mem, bytes, dropped, run, runs, cur, load, served, expired>>

Times == 0 .. MaxTime
Span  == [at : Times, size : Sizes]

\* A file: its name is the time it was opened, and its first line names the
\* run that wrote it; run is 0 in an empty one. It is torn when its last line is
\* the start of one whose end was never written; nothing follows that.
File == [name : Times, run : Times, lines : Seq(Span), torn : BOOLEAN, modified : Times]

Header(t, r) == [name |-> t, run |-> r, lines |-> <<>>, torn |-> FALSE, modified |-> t]

SumOf(s)  == LET sum[n \in 0 .. Len(s)] == IF n = 0 THEN 0 ELSE sum[n - 1] + s[n].size
             IN  sum[Len(s)]
SizeOf(f) == (IF f.run = 0 THEN 0 ELSE 1) + SumOf(f.lines) + (IF f.torn THEN 1 ELSE 0)
Disk      == {segs[i].name : i \in DOMAIN segs}
OnDisk    == UNION {Range(segs[i].lines) : i \in DOMAIN segs}

TypeOK ==
  /\ now \in Times /\ up \in BOOLEAN /\ segs \in Seq(File)
  /\ mem \in Seq(Span) /\ bytes \in Nat
  /\ dropped \in Times /\ run \in Times /\ runs \subseteq Times
  /\ cur \in [open : BOOLEAN, name : Times, earlier : SUBSET Times, newest : [Times -> Times]]
  /\ load \in [pc : {"off", "begin", "read", "done"}, names : SUBSET Times, spans : Seq(Span),
                newest : [Times -> Times], runs : SUBSET Times]
  /\ served \subseteq Times /\ expired \subseteq Span

Unknown == [t \in Times |-> 0]
Loading(p) == [pc |-> p, names |-> {}, spans |-> <<>>, newest |-> Unknown, runs |-> {}]
NoLoad  == Loading("off")

Init ==
  /\ now = 0 /\ segs = <<>> /\ up = FALSE
  /\ mem = <<>> /\ bytes = 0 /\ dropped = 0 /\ run = 0 /\ runs = {}
  /\ cur = [open |-> FALSE, name |-> 0, earlier |-> {}, newest |-> Unknown]
  /\ load = NoLoad
  /\ served = {} /\ expired = {}

-----------------------------------------------------------------------------
(* Memory.                                                                 *)

Newest(s, n) == SubSeq(s, n + 1, Len(s))   \* dropOldest(n)

\* The fewest oldest entries of s to drop for the rest to satisfy P.
Fewest(s, P(_)) == Min({n \in 0 .. Len(s) : n = Len(s) \/ P(Newest(s, n))})

Aged(s, t)     == Newest(s, Fewest(s, LAMBDA r : r[1].at + MaxAge >= t))      \* evictOldSpans
Through(s, t)  == Newest(s, Fewest(s, LAMBDA r : r[1].at > t))                \* expireDisk's loop
RoomFor(s, n)  == Newest(s, Fewest(s, LAMBDA r : SumOf(r) + n <= MaxBytes))
Trimmed(s)     == Newest(s, IF Len(s) > MaxSpans THEN Len(s) - MaxSpans ELSE 0)
Fitting(s)     == Newest(s, Fewest(s, LAMBDA r : SumOf(r) <= MaxBytes /\ Len(r) <= MaxSpans))

\* A span too large for the limit still has to be stored below it.
Stored(s, x) == Trimmed(Append(RoomFor(Aged(s, x.at), x.size), x))

Hold(s) == mem' = s /\ bytes' = SumOf(s)

\* The spans of s that are newer than t.
After(s, t) ==
  LET kept[n \in 0 .. Len(s)] ==
        IF n = 0 THEN <<>>
        ELSE IF s[n].at > t THEN Append(kept[n - 1], s[n]) ELSE kept[n - 1]
  IN  kept[Len(s)]

-----------------------------------------------------------------------------
(* Disk.                                                                   *)

\* expire: from the oldest segment on, while it is too old or the files are
\* too large, and never as far as the one being written.
ModOf(f, c) == IF c.newest[f.name] # 0 THEN c.newest[f.name] ELSE f.modified
Total(fs)   == FoldLeft(LAMBDA n, f : n + SizeOf(f), 0, fs)

Deletable(fs, c, t) == ModOf(fs[1], c) + MaxAge < t \/ Total(fs) > MaxBytes

Deleted(fs, c, t) ==
  Min({n \in 0 .. Len(fs) :
         \/ n = Len(fs)
         \/ fs[n + 1].name = c.name
         \/ ~Deletable(Newest(fs, n), c, t)})

\* What expireDisk leaves of the files fs and of the spans s, at time t.
Expire(fs, c, s, t) ==
  LET n    == Deleted(fs, c, t)
      gone == SubSeq(fs, 1, n)
      last == Max({0} \cup {ModOf(f, c) : f \in Range(gone)})
      kept == IF n = 0 THEN s ELSE Through(s, last)
      names == {f.name : f \in Range(gone)}
  IN  /\ segs' = Newest(fs, n)
      /\ Hold(kept)
      /\ dropped' = Max({dropped, last})
      /\ cur' = [c EXCEPT !.earlier = @ \ names,
                          !.newest = [k \in Times |-> IF k \in names THEN 0 ELSE @[k]]]
      /\ expired' = expired \cup UNION {Range(f.lines) : f \in Range(gone)}

\* Disk.append rolls first when the current segment is closed, old or full.
Current(fs, c) == CHOOSE f \in Range(fs) : f.name = c.name
MustRoll(t)    == ~cur.open \/ t - cur.name >= SegmentLife \/ SizeOf(Current(segs, cur)) >= SegmentBytes

Rolled(t) == Append(segs, Header(t, run))
RollTo(t) == [cur EXCEPT !.open = TRUE, !.name = t]

Written(fs, c, x, t) ==
  [i \in DOMAIN fs |-> IF fs[i].name = c.name
                       THEN [fs[i] EXCEPT !.lines = Append(@, x), !.modified = t] ELSE fs[i]]

\* The write fails half way through its line.
Torn(fs, c, t) ==
  [i \in DOMAIN fs |-> IF fs[i].name = c.name THEN [fs[i] EXCEPT !.torn = TRUE, !.modified = t] ELSE fs[i]]

Noted(c, x) == [c EXCEPT !.newest[c.name] = x.at]

-----------------------------------------------------------------------------
(* The calls.                                                              *)

Passes == now < MaxTime /\ now' = now + 1

\* Add, when the disk takes the span. Only a roll expires.
AddSaved ==
  /\ up /\ Passes
  /\ \E n \in Sizes :
       LET x == [at |-> now', size |-> n]
           s == Stored(mem, x)
       IN  IF MustRoll(now')
           THEN LET c == RollTo(now') IN
                  Expire(Written(Rolled(now'), c, x, now'), Noted(c, x), s, now')
           ELSE /\ segs' = Written(segs, cur, x, now')
                /\ cur' = Noted(cur, x)
                /\ Hold(s) /\ UNCHANGED <<dropped, expired>>
  /\ UNCHANGED <<up, run, runs, load, served>>

\* Add, when it does not: the roll fails, perhaps with its file made and without
\* its header, or the write fails, perhaps half way through its line. The file is
\* closed, and the next span tries a new one.
AddUnsaved ==
  /\ up /\ Passes
  /\ \E n \in Sizes :
       LET x == [at |-> now', size |-> n]
           s == Stored(mem, x)
           c == RollTo(now')
       IN  \/ /\ MustRoll(now')
              /\ segs' \in {segs, Append(segs, Header(now', 0))}
              /\ cur' = [cur EXCEPT !.open = FALSE]
              /\ Hold(s) /\ UNCHANGED <<dropped, expired>>
           \/ /\ MustRoll(now')
              /\ \E fs \in {Rolled(now'), Torn(Rolled(now'), c, now')} :
                   Expire(fs, [c EXCEPT !.open = FALSE], s, now')
           \/ /\ ~MustRoll(now')
              /\ segs' \in {segs, Torn(segs, cur, now')}
              /\ cur' = [cur EXCEPT !.open = FALSE]
              /\ Hold(s) /\ UNCHANGED <<dropped, expired>>
  /\ UNCHANGED <<up, run, runs, load, served>>

\* ExpireDisk, once a minute.
ExpireDisk ==
  /\ up
  /\ Expire(segs, cur, mem, now)
  /\ UNCHANGED <<now, up, run, runs, load, served>>

\* LoadFromDisk: the list of files, under the lock.
LoadBegins ==
  /\ up /\ load.pc = "begin"
  /\ load' = [load EXCEPT !.pc = "read", !.names = cur.earlier]
  /\ UNCHANGED <<now, segs, up, memory, cur, history>>

\* Mutant: reading stops at a segment that ends in half a line.
LoadStopsAtTorn ==
  /\ up /\ load.pc = "read" /\ load.names # {}
  /\ LET name  == Min(load.names)
         found == {f \in Range(segs) : f.name = name}
         whole == {f \in found : ~f.torn}
     IN  load' = [load EXCEPT
           !.names = IF found # whole THEN {} ELSE @ \ {name},
           !.spans = @ \o (IF whole = {} THEN <<>> ELSE (CHOOSE f \in whole : TRUE).lines),
           !.runs  = @ \cup ({f.run : f \in found} \ {0})]
  /\ UNCHANGED <<now, segs, up, memory, cur, history>>

\* One file, without it. What is not there any more has expired.
LoadReads ==
  /\ up /\ load.pc = "read" /\ load.names # {}
  /\ LET name  == Min(load.names)
         found == {f \in Range(segs) : f.name = name}
         lines == IF found = {} THEN <<>> ELSE (CHOOSE f \in found : TRUE).lines
         last  == IF lines = <<>> THEN load.newest[name] ELSE Last(lines).at
         told  == {f.run : f \in found} \ {0}
     IN  load' = [load EXCEPT !.names = @ \ {name}, !.spans = @ \o lines,
                              !.newest = [@ EXCEPT ![name] = last], !.runs = @ \cup told]
  /\ UNCHANGED <<now, segs, up, memory, cur, history>>

\* Mutants: what has been read goes after what has arrived; what has expired
\* meanwhile comes back.
LoadAppends ==
  /\ up /\ load.pc = "read" /\ load.names = {}
  /\ LET back == After(load.spans, dropped)
     IN  Hold(Fitting(Aged(mem \o back, now)))
  /\ runs' = runs \cup load.runs
  /\ load' = Loading("done")
  /\ UNCHANGED <<now, segs, up, dropped, run, cur, history>>

LoadRevives ==
  /\ up /\ load.pc = "read" /\ load.names = {}
  /\ Hold(Fitting(Aged(load.spans \o mem, now)))
  /\ runs' = runs \cup load.runs
  /\ load' = Loading("done")
  /\ UNCHANGED <<now, segs, up, dropped, run, cur, history>>

\* And under the lock again: what has been read goes before what has arrived,
\* less what has expired meanwhile.
LoadEnds ==
  /\ up /\ load.pc = "read" /\ load.names = {}
  /\ LET back == After(load.spans, dropped)
     IN  Hold(Fitting(Aged(back \o mem, now)))
  /\ cur' = [cur EXCEPT !.newest =
       [k \in Times |-> IF load.newest[k] # 0 /\ @[k] = 0 /\ k \in cur.earlier THEN load.newest[k] ELSE @[k]]]
  /\ runs' = runs \cup load.runs
  /\ load' = Loading("done")
  /\ UNCHANGED <<now, segs, up, dropped, run, history>>

\* attachSpanDisk: OpenDisk lists what earlier runs have left and writes the
\* first segment of this one.
StartRun ==
  /\ ~up /\ Passes
  /\ up' = TRUE /\ run' = now' /\ runs' = {now'}
  /\ segs' = Append(segs, Header(now', now'))
  /\ cur' = [open |-> TRUE, name |-> now', earlier |-> Disk, newest |-> Unknown]
  /\ load' = Loading("begin")
  /\ served' = served \cup {now'}
  /\ UNCHANGED <<mem, bytes, dropped, expired>>

\* It exits, or it is killed, perhaps in the middle of a line.
EndRun ==
  /\ up
  /\ segs' \in {segs} \cup (IF cur.open THEN {Torn(segs, cur, now)} ELSE {})
  /\ up' = FALSE
  /\ mem' = <<>> /\ bytes' = 0 /\ dropped' = 0 /\ run' = 0 /\ runs' = {}
  /\ cur' = [open |-> FALSE, name |-> 0, earlier |-> {}, newest |-> Unknown]
  /\ load' = NoLoad
  /\ UNCHANGED <<now, history>>

\* A second start opens the directory, and only then finds that the project
\* has its instance.
RefusedRun ==
  /\ up /\ Passes
  /\ segs' = Append(segs, Header(now', now'))
  /\ UNCHANGED <<up, memory, cur, load, history>>

Tick == Passes /\ UNCHANGED <<segs, up, memory, cur, load, history>>

Next ==
  \/ AddSaved \/ AddUnsaved \/ ExpireDisk
  \/ LoadBegins \/ LoadReads \/ LoadEnds
  \/ StartRun \/ EndRun \/ RefusedRun \/ Tick

Spec == Init /\ [][Next]_vars

-----------------------------------------------------------------------------

\* "Age eviction relies on arrival order": loading puts older spans before the
\* ones that have arrived since, and each span is held once.
ArrivalOrder == \A i, j \in DOMAIN mem : i < j => mem[i].at < mem[j].at

\* The byte count is what the spans held amount to.
BytesAreSum == bytes = SumOf(mem)

\* The limits hold after every call; only a span larger than all of MaxBytes
\* may exceed them, and it is alone.
WithinLimits == Len(mem) <= MaxSpans /\ (bytes > MaxBytes => Len(mem) = 1)

\* What every call leaves in memory: in the order of arrival, with its bytes
\* counted right, and within the limits.
MemorySound == TypeOK /\ ArrivalOrder /\ BytesAreSum /\ WithinLimits

\* "A load still in flight must not bring them back": no span is in memory
\* whose segment has expired.
ExpiredStaysGone == up => Range(mem) \cap expired = {}

Loaded == up /\ load.pc = "done"

\* A restart loses nothing: of what earlier runs have left on the disk, the
\* load brings back all that is newer than what the limits have dropped.
NoHole ==
  Loaded /\ mem # <<>> => \A x \in OnDisk : x.at >= mem[1].at /\ x.at < run => x \in Range(mem)

Restarts == {r \in runs : r > mem[1].at}

\* "When Running Man restarted, among the spans held": every restart since
\* the oldest of them is told of. A start that was refused is too: its header
\* is on the disk like any other.
RestartsAreTold ==
  Loaded /\ mem # <<>> => {r \in served : r > mem[1].at} \subseteq Restarts

\* A restart is complete when the load has ended.
RestartComplete == NoHole /\ RestartsAreTold

\* A span that exceeds MaxBytes on its own is kept, "rather than discarding
\* it": no call but ageing and expiry drops the newest span.
NewestKept ==
  [][mem # <<>> /\ up' /\ Last(mem).at + MaxAge >= now' /\ Last(mem).at > dropped'
       => mem' # <<>>]_vars

=============================================================================
