----------------------------- MODULE RingBuffer -----------------------------
(***************************************************************************)
(* storage.RingBuffer (ringbuffer.go): the log entries Running Man keeps,  *)
(* bounded in number, bytes and age, with an index from traces to entries. *)
(*                                                                         *)
(* Entries are numbered in the order they arrive; the buffer holds those   *)
(* from first to next - 1. Append holds the buffer's lock from BeginAppend *)
(* to FinishAppend and evicts the oldest entry in between, once per turn   *)
(* of the loops of evictIfNeeded.                                          *)
(***************************************************************************)
EXTENDS Integers, SequencesExt

CONSTANTS
  Appenders, \* the goroutines that append
  Lines,     \* what an entry can be made of
  Traces,    \* trace IDs
  NoTrace,
  MaxSize,   \* retention: entries, bytes, and time since arrival
  MaxBytes,
  MaxAge

Entry == [lines : Lines, size : Nat, trace : Traces \cup {NoTrace}]

ASSUME RetentionAssumption ==
  /\ MaxSize \in Nat
  /\ MaxBytes \in Nat
  /\ MaxAge \in Nat
  /\ NoTrace \notin Traces

VARIABLES
  now,      \* the clock
  first,    \* the oldest entry
  next,     \* the number of the next entry
  log,      \* RingBuffer.entries
  received, \* RingBuffer.received
  size,     \* RingBuffer.currentSize
  index,    \* RingBuffer.traceIndex; a trace without entries has no key
  adding,   \* the Append that holds the lock
  rest      \* history: the bytes from each entry on

ringVars == <<now, first, next, log, received, size, index, adding, rest>>

-----------------------------------------------------------------------------
Held == first .. (next - 1)

\* Of the loops of evictIfNeeded: age, bytes, count. Time is read once.
TooOld(a)  == received[first] + MaxAge < a.at
TooLarge(a) == size + a.entry.size > MaxBytes
TooMany    == next - first >= MaxSize

MustEvict(a) == first < next /\ (TooOld(a) \/ TooLarge(a) \/ TooMany)

\* Mutant of Unindexed: the index keeps the evicted entry.
StillIndexed(t, i) == index[t]

\* removeFromTraceIndex: usually the oldest entry of its trace.
Unindexed(t, i) ==
  LET at == CHOOSE k \in DOMAIN index[t] : index[t][k] = i
  IN IF at = 1 THEN Tail(index[t]) ELSE RemoveAt(index[t], at)

Remaining == size - log[first].size

BeginAppend(p, e) ==
  /\ adding = <<>>
  /\ adding' = <<[by |-> p, entry |-> e, at |-> now]>>
  /\ UNCHANGED <<now, first, next, log, received, size, index, rest>>

\* evictOldest.
EvictOldest ==
  /\ adding # <<>>
  /\ MustEvict(adding[1])
  /\ first' = first + 1
  /\ log' = [i \in (first + 1) .. (next - 1) |-> log[i]]
  /\ received' = [i \in (first + 1) .. (next - 1) |-> received[i]]
  /\ size' = Remaining
  /\ index' = [t \in Traces |-> IF t = log[first].trace THEN Unindexed(t, first) ELSE index[t]]
  /\ rest' = [i \in (first + 1) .. next |-> rest[i]]
  /\ UNCHANGED <<now, next, adding>>

FinishAppend ==
  /\ adding # <<>>
  /\ ~MustEvict(adding[1])
  /\ LET e == adding[1].entry
     IN /\ next' = next + 1
        /\ log' = [i \in first .. next |-> IF i = next THEN e ELSE log[i]]
        /\ received' = [i \in first .. next |-> IF i = next THEN now ELSE received[i]]
        /\ size' = size + e.size
        /\ index' = [t \in Traces |-> IF t = e.trace THEN Append(index[t], next) ELSE index[t]]
        /\ rest' = [i \in first .. (next + 1) |-> IF i > next THEN 0 ELSE rest[i] + e.size]
  /\ adding' = <<>>
  /\ UNCHANGED <<now, first>>

Tick ==
  /\ now' = now + 1
  /\ UNCHANGED <<first, next, log, received, size, index, adding, rest>>

-----------------------------------------------------------------------------
RingInit ==
  /\ now = 0
  /\ first = 1
  /\ next = 1
  /\ log = <<>>
  /\ received = <<>>
  /\ size = 0
  /\ index = [t \in Traces |-> <<>>]
  /\ adding = <<>>
  /\ rest = <<0>>

RingNext == \/ \E p \in Appenders, e \in Entry : BeginAppend(p, e)
            \/ EvictOldest \/ FinishAppend \/ Tick

RingSpec == RingInit /\ [][RingNext]_ringVars

-----------------------------------------------------------------------------
Adding == [by : Appenders, entry : Entry, at : Nat]

\* Every variable has the values its Go counterpart can have.
RingTypeOK ==
  /\ now \in Nat
  /\ first \in Nat \ {0}
  /\ next \in Nat \ {0}
  /\ first <= next
  /\ log \in [Held -> Entry]
  /\ received \in [Held -> Nat]
  /\ size \in Nat
  /\ index \in [Traces -> Seq(Nat)]
  /\ adding \in Seq(Adding) /\ Len(adding) <= 1
  /\ rest \in [first .. next -> Nat]

\* currentSize is the sum of what the entries hold, at every step of Append.
SizeIsSum ==
  /\ size = rest[first]
  /\ rest[next] = 0
  /\ \A i \in Held : rest[i] = log[i].size + rest[i + 1]

\* No entry makes the buffer larger than configured, unless it is so by itself.
WithinLimits ==
  /\ next - first <= MaxSize \/ next - first <= 1
  /\ size <= MaxBytes \/ next - first = 1

\* The index of a trace has its entries, each once and the oldest first, and
\* nothing that has been evicted.
IndexMatches ==
  \A t \in Traces :
    /\ \A k \in DOMAIN index[t] : index[t][k] \in Held /\ log[index[t][k]].trace = t
    /\ \A i \in Held : log[i].trace = t => \E k \in DOMAIN index[t] : index[t][k] = i
    /\ \A k, l \in DOMAIN index[t] : k < l => index[t][k] < index[t][l]

\* All four: what every step of Append leaves.
RingInv == RingTypeOK /\ SizeIsSum /\ WithinLimits /\ IndexMatches
=============================================================================
