------------------------------ MODULE LogPath ------------------------------
(***************************************************************************)
(* The way of a line of output into the log: parser.MultiParser, which     *)
(* groups the lines of a Python traceback, in front of RingBuffer, and the *)
(* handlers of run() in cmd/running-man/main.go that join them.            *)
(*                                                                         *)
(* Each stream of each source has its own parsing state. The goroutine of  *)
(* a run that reads the stream parses a line under the state's lock, lets  *)
(* go of it, and then appends what the line completed.                     *)
(***************************************************************************)
EXTENDS RingBuffer, FiniteSets

CONSTANTS
  Readers,  \* the goroutines that read a stream, one per run and stream
  KeyOf,    \* the parsing state each reader uses: its source and stream
  Inputs,   \* the lines each may get: kind, and the trace ID they mention
  MaxLines, \* bound on the lines read
  MaxTime   \* bound on the clock

Kinds == {"start", "indented", "exception", "blank", "plain"}
Keys  == {KeyOf[r] : r \in Readers}

ASSUME InputAssumption ==
  /\ Readers \subseteq Appenders
  /\ Inputs \in [Readers -> SUBSET [kind : Kinds, trace : Traces \cup {NoTrace}]]

\* An entry may be made of any lines that are read.
ASSUME LinesAssumption ==
  /\ MaxLines \in Nat
  /\ \A n \in 0 .. MaxLines : [1 .. n -> 1 .. MaxLines] \subseteq Lines

VARIABLES
  lines,  \* every line read, with its reader, in the order of reading
  reader, \* program counter of each reader
  hand,   \* the entries a reader has parsed and is appending
  open,   \* PythonParser.lines of each parsing state, <<>> between tracebacks
  stored, \* history: the lines of each parsing state that were appended
  mixed   \* history: the parsing states that two readers have used at once

pathVars == <<lines, reader, hand, open, stored, mixed>>
allVars  == <<ringVars, pathVars>>

-----------------------------------------------------------------------------
(* MultiParser.                                                            *)

\* Mutant of StateOf: one state for all streams.
OneState(r) == CHOOSE k \in Keys : TRUE

\* stateFor: per source and stream.
StateOf(r) == KeyOf[r]

\* An entry made of the lines s; its trace ID is the first they mention.
EntryOf(s, read) ==
  LET traced == {n \in ToSet(s) : read[n].trace # NoTrace}
  IN [lines |-> s, size |-> Len(s),
      trace |-> IF traced = {} THEN NoTrace ELSE read[Min(traced)].trace]

\* Mutant of Swallowed: any line that ends a traceback.
SwallowedWithEnd(s, kind) == kind # "start"

\* A blank line that ends a traceback is no entry, if there is one to report.
Swallowed(s, kind) == kind = "blank" /\ Len(s) > 2

\* PythonParser.Parse between tracebacks, and then the other parsers, for
\* which any line is an entry.
ParsedAlone(n, kind, read) ==
  IF kind = "start" THEN [open |-> <<n>>, out |-> <<>>]
                    ELSE [open |-> <<>>, out |-> <<EntryOf(<<n>>, read)>>]

\* Mutant of Ended: the other way round.
EndedAfter(s, n, read) == <<EntryOf(<<n>>, read), EntryOf(s, read)>>

\* A line that ends a traceback and is an entry itself.
Ended(s, n, read) == <<EntryOf(s, read), EntryOf(<<n>>, read)>>

\* MultiParser.parse of line n while s is open: what is open afterwards, and
\* the entries that are complete. A traceback that begins replaces s.
Parsed(s, n, kind, read) ==
  IF s = <<>> \/ kind = "start" THEN ParsedAlone(n, kind, read)
  ELSE IF kind = "indented" THEN [open |-> Append(s, n), out |-> <<>>]
  ELSE IF kind = "exception" THEN [open |-> <<>>, out |-> <<EntryOf(Append(s, n), read)>>]
  ELSE IF Swallowed(s, kind) THEN [open |-> <<>>, out |-> <<EntryOf(s, read)>>]
  ELSE [open |-> <<>>, out |-> Ended(s, n, read)]

\* Flush.
Flushed(s, read) == [open |-> <<>>, out |-> IF s = <<>> THEN <<>> ELSE <<EntryOf(s, read)>>]

-----------------------------------------------------------------------------
(* The readers.                                                            *)

\* A reader of the stream r reads that is still under way.
Overlaps(r) ==
  \E q \in Readers \ {r} : KeyOf[q] = KeyOf[r] /\ reader[q] \in {"reading", "flushing"}

\* A run starts once the one before it has been waited for. Its streams need
\* not have ended: Wait gives up on them after outputDrainTimeout.
ReaderStarts(r) ==
  /\ reader[r] = "off"
  /\ reader' = [reader EXCEPT ![r] = "reading"]
  /\ mixed' = IF Overlaps(r) THEN mixed \cup {KeyOf[r]} ELSE mixed
  /\ UNCHANGED <<ringVars, lines, hand, open, stored>>

\* processLineHandler: parse, and have something to append or not.
ReaderReads(r) ==
  /\ reader[r] = "reading"
  /\ hand[r] = <<>>
  /\ Len(lines) < MaxLines
  /\ \E input \in Inputs[r] :
       LET n      == Len(lines) + 1
           read   == Append(lines, [from |-> r, kind |-> input.kind, trace |-> input.trace])
           parsed == Parsed(open[StateOf(r)], n, input.kind, read)
       IN /\ lines' = read
          /\ open' = [open EXCEPT ![StateOf(r)] = parsed.open]
          /\ hand' = [hand EXCEPT ![r] = parsed.out]
  /\ UNCHANGED <<ringVars, reader, stored, mixed>>

\* The stream ends: flushStream, before the run counts as drained.
ReaderEnds(r) ==
  /\ reader[r] = "reading"
  /\ hand[r] = <<>>
  /\ reader' = [reader EXCEPT ![r] = "flushing"]
  /\ LET flushed == Flushed(open[StateOf(r)], lines)
     IN /\ hand' = [hand EXCEPT ![r] = flushed.out]
        /\ open' = [open EXCEPT ![StateOf(r)] = flushed.open]
  /\ UNCHANGED <<ringVars, lines, stored, mixed>>

ReaderDone(r) ==
  /\ reader[r] = "flushing"
  /\ hand[r] = <<>>
  /\ reader' = [reader EXCEPT ![r] = "done"]
  /\ UNCHANGED <<ringVars, lines, hand, open, stored, mixed>>

\* appendEntries: one entry after the other, each under the buffer's lock.
ReaderAppends(r) ==
  /\ hand[r] # <<>>
  /\ BeginAppend(r, Head(hand[r]))
  /\ UNCHANGED pathVars

Evicts == EvictOldest /\ UNCHANGED pathVars

Appended ==
  /\ FinishAppend
  /\ LET r == adding[1].by
     IN /\ hand' = [hand EXCEPT ![r] = Tail(@)]
        /\ stored' = [stored EXCEPT ![KeyOf[r]] = @ \o adding[1].entry.lines]
  /\ UNCHANGED <<lines, reader, open, mixed>>

TimePasses ==
  /\ now < MaxTime
  /\ Tick
  /\ UNCHANGED pathVars

-----------------------------------------------------------------------------
PathInit ==
  /\ lines = <<>>
  /\ reader = [r \in Readers |-> "off"]
  /\ hand = [r \in Readers |-> <<>>]
  /\ open = [k \in Keys |-> <<>>]
  /\ stored = [k \in Keys |-> <<>>]
  /\ mixed = {}

Init == RingInit /\ PathInit

Next == \/ \E r \in Readers : \/ ReaderStarts(r) \/ ReaderReads(r) \/ ReaderEnds(r)
                              \/ ReaderDone(r) \/ ReaderAppends(r)
        \/ Evicts \/ Appended \/ TimePasses

Spec == Init /\ [][Next]_allVars

-----------------------------------------------------------------------------
Line == [from : Readers, kind : Kinds, trace : Traces \cup {NoTrace}]

\* Every variable has the values its Go counterpart can have.
TypeOK ==
  /\ RingTypeOK
  /\ lines \in Seq(Line)
  /\ reader \in [Readers -> {"off", "reading", "flushing", "done"}]
  /\ hand \in [Readers -> Seq(Entry)]
  /\ open \in [Keys -> Seq(Nat)]
  /\ stored \in [Keys -> Seq(Nat)]
  /\ mixed \subseteq Keys

LinesOf(k) == {n \in DOMAIN lines : KeyOf[lines[n].from] = k}

InHand(k) == UNION {UNION {ToSet(hand[r][i].lines) : i \in DOMAIN hand[r]} :
                      r \in {q \in Readers : KeyOf[q] = k}}

\* The lines of k that are neither in the log, nor were, nor are on the way.
Lost(k) == LinesOf(k) \ (ToSet(stored[k]) \cup InHand(k) \cup ToSet(open[k]))

\* A line that is lost is blank, unless another traceback has begun within its
\* own: parse and the handlers neither drop nor misplace any other.
OnlyBlanksLost ==
  \A k \in Keys : \A n \in Lost(k) :
    \/ lines[n].kind = "blank"
    \/ \E m \in LinesOf(k) : m > n /\ lines[m].kind = "start"

\* The comment on Parse: a line that is consumed reaches the buffer.
NoLineLost == \A k \in Keys : \A n \in Lost(k) : lines[n].kind = "blank"

\* Every line reaches the log at most once, and those of a stream in their
\* order, unless two readers have overlapped on it.
StreamInOrder ==
  \A k \in Keys : \A i, j \in DOMAIN stored[k] :
    i < j => /\ stored[k][i] # stored[k][j]
             /\ k \notin mixed => stored[k][i] < stored[k][j]

\* The lines s have all of their stream between the first and the last.
Contiguous(s) ==
  \A n \in LinesOf(KeyOf[lines[Head(s)].from]) :
    Head(s) <= n /\ n <= Last(s) => n \in ToSet(s)

\* The line that comes next in the stream of s does not continue s.
Complete(s) ==
  LET k == KeyOf[lines[Head(s)].from]
  IN lines[Last(s)].kind # "exception" =>
       \A n \in LinesOf(k) :
         (n > Last(s) /\ lines[n].from = lines[Head(s)].from /\
          \A m \in LinesOf(k) : m > Last(s) => n <= m)
         => lines[n].kind \notin {"indented", "exception"}

\* A traceback arrives as one entry: none of its stream's lines is missing
\* between its first and its last, and no further line of it comes after,
\* unless the end of another run's stream has cut it.
TracebacksWhole ==
  \A i \in Held : lines[Head(log[i].lines)].kind = "start" =>
    /\ Contiguous(log[i].lines)
    /\ KeyOf[lines[Head(log[i].lines)].from] \notin mixed => Complete(log[i].lines)

\* The README: a traceback arrives as a single entry with the whole trace.
SingleEntry ==
  \A i \in Held : lines[Head(log[i].lines)].kind = "start" =>
    Contiguous(log[i].lines) /\ Complete(log[i].lines)

\* When every reader of a stream is done, nothing of it is held back; nor is
\* what a run wrote once its readers are, if no other overlaps with them.
NothingHeldBack ==
  /\ \A k \in Keys :
       (\A r \in Readers : KeyOf[r] = k => reader[r] \in {"off", "done"})
         => ToSet(open[k]) \cup InHand(k) = {}
  /\ \A r \in Readers : reader[r] = "done" /\ KeyOf[r] \notin mixed =>
       \A n \in DOMAIN lines : lines[n].from = r =>
         n \notin ToSet(open[KeyOf[r]]) \cup InHand(KeyOf[r])

\* Every line read is accounted for: it is in the log or was, is on the way, or
\* is blank; and nothing is on the way when the readers are done.
LinesArrive == TypeOK /\ OnlyBlanksLost /\ NothingHeldBack
=============================================================================
