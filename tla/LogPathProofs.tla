--------------------------- MODULE LogPathProofs ---------------------------
(***************************************************************************)
(* The buffer and what leads to it.                                        *)
(*                                                                         *)
(* First the invariants of RingBuffer, for any retention, any entries and  *)
(* any traces. They are inductive together: that the size never becomes    *)
(* negative rests on its being the sum, and that removing an entry from    *)
(* the index keeps the others rests on the oldest leading its trace.       *)
(*                                                                         *)
(* Then what LogPath promises for any number of readers, streams and lines:*)
(* its steps keep the buffer sound, no line but a blank one is lost, lines *)
(* of a stream stay in order, and a traceback arrives as one entry. The    *)
(* invariants build on each other:                                         *)
(*   Typed     types, and the entry being appended is the next in hand;    *)
(*   HandsInv  one reader of a stream at a time, and who has entries;      *)
(*   FlowInv   the lines of a stream in the log, in hand and in the        *)
(*             parsing state are in the order they were read;              *)
(*   KeptInv   every line is in one of these, or may be lost;              *)
(*   OwnInv    what has not reached the log is of a reader that goes on;   *)
(*   WholeInv  what is open is all of its stream since it began, and what  *)
(*             is an entry is either closed or followed by another line.   *)
(***************************************************************************)
EXTENDS LogPath, WellFoundedInduction, TLAPS

-----------------------------------------------------------------------------
(* What Append is about to add.                                            *)

LEMMA AddedIsEntry ==
  ASSUME RingTypeOK, adding # <<>>
  PROVE  adding[1].entry \in Entry /\ adding[1].at \in Nat
<1>1. adding \in Seq(Adding)
  BY DEF RingTypeOK
<1>2. adding[1] \in Adding
  BY <1>1
<1> QED
  BY <1>2 DEF Adding

\* The oldest entry is the first of its trace in the index, so that evicting
\* it takes the first element away.
LEMMA OldestLeads ==
  ASSUME RingInv, first < next, NEW t \in Traces, log[first].trace = t
  PROVE  /\ index[t] \in Seq(Nat)
         /\ index[t] # <<>>
         /\ index[t][1] = first
         /\ Unindexed(t, first) = Tail(index[t])
<1> DEFINE s == index[t]
<1>1. s \in Seq(Nat) /\ first \in Nat /\ next \in Nat
  BY DEF RingInv, RingTypeOK
<1>2. first \in Held
  BY <1>1 DEF Held
<1>3. PICK k \in DOMAIN s : s[k] = first
  BY <1>2 DEF RingInv, IndexMatches
<1>4. ASSUME NEW l \in DOMAIN s, s[l] = first
      PROVE  l = 1
  <2>1. DOMAIN s = 1 .. Len(s) /\ Len(s) \in Nat
    BY <1>1
  <2>2. 1 \in DOMAIN s
    BY <1>4, <2>1
  <2>3. s[1] \in Held
    BY <2>2 DEF RingInv, IndexMatches
  <2>4. s[1] >= first
    BY <1>1, <2>3 DEF Held
  <2>5. ~(1 < l)
    <3>1. SUFFICES ASSUME 1 < l PROVE FALSE
      OBVIOUS
    <3>2. s[1] < s[l]
      BY <2>2, <1>4, <3>1 DEF RingInv, IndexMatches
    <3>3. s[1] \in Nat
      BY <1>1, <2>3 DEF Held
    <3> QED
      BY <1>1, <1>4, <2>4, <3>2, <3>3
  <2> QED
    BY <2>1, <2>5, <1>4
<1>5. k = 1
  BY <1>3, <1>4
<1>6. (CHOOSE j \in DOMAIN s : s[j] = first) = 1
  BY <1>3, <1>4
<1> QED
  BY <1>1, <1>3, <1>5, <1>6 DEF Unindexed

-----------------------------------------------------------------------------
(* The start.                                                              *)

LEMMA RingStarts == RingInit => RingInv
<1> SUFFICES ASSUME RingInit PROVE RingInv
  OBVIOUS
<1> USE DEF RingInit
<1>1. RingTypeOK
  <2>1. Held = {}
    BY DEF Held
  <2>2. log \in [Held -> Entry] /\ received \in [Held -> Nat]
    BY <2>1
  <2>3. rest \in [first .. next -> Nat]
    BY DEF RingInit
  <2>4. index \in [Traces -> Seq(Nat)]
    OBVIOUS
  <2> QED
    BY <2>2, <2>3, <2>4 DEF RingTypeOK
<1>2. SizeIsSum
  BY DEF SizeIsSum, Held
<1>3. WithinLimits
  BY RetentionAssumption DEF WithinLimits
<1>4. IndexMatches
  BY DEF IndexMatches, Held
<1> QED
  BY <1>1, <1>2, <1>3, <1>4 DEF RingInv

-----------------------------------------------------------------------------
(* One eviction.                                                           *)

LEMMA EvictionKeeps == RingInv /\ EvictOldest => RingInv'
<1> SUFFICES ASSUME RingInv, EvictOldest PROVE RingInv'
  OBVIOUS
<1>1. /\ first \in Nat \ {0} /\ next \in Nat /\ first < next
      /\ first' = first + 1 /\ next' = next
  BY DEF EvictOldest, MustEvict, RingInv, RingTypeOK
<1>2. Held' = (first + 1) .. (next - 1) /\ first \in Held /\ Held' \subseteq Held
  BY <1>1 DEF Held
<1>3. \A i \in Held' : log'[i] = log[i]
  BY <1>1, <1>2 DEF EvictOldest
<1>4. log[first] \in Entry /\ size \in Nat /\ rest \in [first .. next -> Nat]
  BY <1>2 DEF RingInv, RingTypeOK
<1>5. size' = rest[first + 1] /\ size' \in Nat /\ size' <= size
  <2>1. rest[first] = log[first].size + rest[first + 1] /\ size = rest[first]
    BY <1>2 DEF RingInv, SizeIsSum
  <2>2. log[first].size \in Nat /\ rest[first + 1] \in Nat
    BY <1>1, <1>4 DEF Entry
  <2>3. size' = size - log[first].size
    BY DEF EvictOldest, Remaining
  <2> QED
    BY <1>4, <2>1, <2>2, <2>3
<1>6. \A i \in (first + 1) .. next : rest'[i] = rest[i]
  BY DEF EvictOldest
<1>7. \A t \in Traces : IF t = log[first].trace
                          THEN index'[t] = Tail(index[t])
                          ELSE index'[t] = index[t]
  BY <1>1, OldestLeads DEF EvictOldest
<1>8. index' \in [Traces -> Seq(Nat)]
  <2>1. index' = [t \in Traces |-> index'[t]]
    BY DEF EvictOldest
  <2>2. ASSUME NEW t \in Traces PROVE index'[t] \in Seq(Nat)
    <3>1. index[t] \in Seq(Nat)
      BY DEF RingInv, RingTypeOK
    <3>2. CASE t = log[first].trace
      <4>1. index'[t] = Tail(index[t])
        BY <1>7, <3>2
      <4>2. index[t] # <<>>
        BY <1>1, <3>2, OldestLeads
      <4> QED
        BY <3>1, <4>1, <4>2
    <3>3. CASE t # log[first].trace
      BY <1>7, <3>1, <3>3
    <3> QED
      BY <3>2, <3>3
  <2> QED
    BY <2>1, <2>2
<1>9. RingTypeOK'
  <2>1. log' \in [Held' -> Entry]
    <3>1. log \in [Held -> Entry]
      BY DEF RingInv, RingTypeOK
    <3>2. log' = [i \in Held' |-> log[i]]
      BY <1>2 DEF EvictOldest
    <3> QED
      BY <1>2, <3>1, <3>2
  <2>2. received' \in [Held' -> Nat]
    <3>1. received \in [Held -> Nat]
      BY DEF RingInv, RingTypeOK
    <3>2. received' = [i \in Held' |-> received[i]]
      BY <1>2 DEF EvictOldest
    <3> QED
      BY <1>2, <3>1, <3>2
  <2>3. rest' \in [first' .. next' -> Nat]
    <3>1. rest' = [i \in first' .. next' |-> rest[i]]
      BY <1>1 DEF EvictOldest
    <3>2. first' .. next' \subseteq first .. next
      BY <1>1
    <3> QED
      BY <1>4, <3>1, <3>2
  <2>4. now' \in Nat /\ adding' \in Seq(Adding) /\ Len(adding') <= 1
    BY DEF EvictOldest, RingInv, RingTypeOK
  <2> QED
    BY <1>1, <1>5, <1>8, <2>1, <2>2, <2>3, <2>4 DEF RingTypeOK
<1>10. SizeIsSum'
  <2>1. size' = rest'[first']
    BY <1>1, <1>5, <1>6
  <2>2. rest'[next'] = 0
    BY <1>1, <1>6 DEF RingInv, SizeIsSum
  <2>3. ASSUME NEW i \in Held' PROVE rest'[i] = log'[i].size + rest'[i + 1]
    <3>1. rest[i] = log[i].size + rest[i + 1]
      BY <1>2 DEF RingInv, SizeIsSum
    <3>2. rest'[i] = rest[i] /\ rest'[i + 1] = rest[i + 1]
      BY <1>1, <1>2, <1>6
    <3> QED
      BY <1>3, <3>1, <3>2
  <2> QED
    BY <2>1, <2>2, <2>3 DEF SizeIsSum
<1>11. WithinLimits'
  <2>1. CASE next - first = 1
    <3>1. size' = 0
      BY <1>1, <1>5, <2>1 DEF RingInv, SizeIsSum
    <3> QED
      BY <1>1, <2>1, <3>1, RetentionAssumption DEF WithinLimits
  <2>2. CASE next - first # 1
    <3>1. size <= MaxBytes /\ next - first <= MaxSize
      BY <1>1, <2>2 DEF RingInv, WithinLimits
    <3> QED
      BY <1>1, <1>4, <1>5, <3>1, RetentionAssumption DEF WithinLimits
  <2> QED
    BY <2>1, <2>2
<1>12. IndexMatches'
  <2> SUFFICES ASSUME NEW t \in Traces
               PROVE
                 /\ \A k \in DOMAIN index'[t] :
                      index'[t][k] \in Held' /\ log'[index'[t][k]].trace = t
                 /\ \A i \in Held' : log'[i].trace = t =>
                      \E k \in DOMAIN index'[t] : index'[t][k] = i
                 /\ \A k, l \in DOMAIN index'[t] : k < l => index'[t][k] < index'[t][l]
    BY DEF IndexMatches
  <2> DEFINE s == index[t]
  <2>1. /\ s \in Seq(Nat)
        /\ \A k \in DOMAIN s : s[k] \in Held /\ log[s[k]].trace = t
        /\ \A i \in Held : log[i].trace = t => \E k \in DOMAIN s : s[k] = i
        /\ \A k, l \in DOMAIN s : k < l => s[k] < s[l]
    BY DEF RingInv, RingTypeOK, IndexMatches
  <2>2. CASE t # log[first].trace
    <3>1. index'[t] = s
      BY <1>7, <2>2
    <3>2. \A i \in Held : i # first => i \in Held'
      BY <1>1, <1>2 DEF Held
    <3>3. \A k \in DOMAIN s : s[k] \in Held' /\ log'[s[k]].trace = t
      BY <1>3, <2>1, <2>2, <3>2
    <3>4. \A i \in Held' : log'[i].trace = t => \E k \in DOMAIN s : s[k] = i
      BY <1>2, <1>3, <2>1
    <3> QED
      BY <2>1, <3>1, <3>3, <3>4
  <2>3. CASE t = log[first].trace
    <3>1. s # <<>> /\ s[1] = first /\ index'[t] = Tail(s)
      BY <1>1, <1>7, <2>3, OldestLeads
    <3>2. /\ DOMAIN s = 1 .. Len(s) /\ Len(s) \in Nat \ {0}
          /\ DOMAIN Tail(s) = 1 .. (Len(s) - 1)
          /\ \A k \in 1 .. (Len(s) - 1) : Tail(s)[k] = s[k + 1]
      BY <2>1, <3>1
    <3>3. ASSUME NEW k \in 1 .. (Len(s) - 1)
          PROVE  s[k + 1] \in Held' /\ log'[s[k + 1]].trace = t
      <4>1. 1 \in DOMAIN s /\ k + 1 \in DOMAIN s /\ 1 < k + 1
        BY <3>2
      <4>2. s[1] < s[k + 1] /\ s[k + 1] \in Held /\ log[s[k + 1]].trace = t
        BY <2>1, <4>1
      <4>3. s[k + 1] \in Held'
        BY <1>1, <1>2, <3>1, <4>2 DEF Held
      <4> QED
        BY <1>3, <4>2, <4>3
    <3>4. ASSUME NEW i \in Held', log'[i].trace = t
          PROVE  \E k \in 1 .. (Len(s) - 1) : s[k + 1] = i
      <4>1. PICK j \in DOMAIN s : s[j] = i
        BY <1>2, <1>3, <2>1, <3>4
      <4>2. j # 1
        BY <1>1, <1>2, <3>1, <4>1
      <4>3. j - 1 \in 1 .. (Len(s) - 1) /\ (j - 1) + 1 = j
        BY <3>2, <4>2
      <4> QED
        BY <4>1, <4>3
    <3>5. \A k, l \in 1 .. (Len(s) - 1) : k < l => s[k + 1] < s[l + 1]
      <4> TAKE k, l \in 1 .. (Len(s) - 1)
      <4> HAVE k < l
      <4>1. k + 1 \in DOMAIN s /\ l + 1 \in DOMAIN s /\ k + 1 < l + 1
        BY <3>2
      <4> QED
        BY <2>1, <4>1
    <3>6. /\ DOMAIN index'[t] = 1 .. (Len(s) - 1)
          /\ \A k \in 1 .. (Len(s) - 1) : index'[t][k] = s[k + 1]
      BY <3>1, <3>2
    <3>7. \A k \in DOMAIN index'[t] : index'[t][k] \in Held' /\ log'[index'[t][k]].trace = t
      BY <3>3, <3>6
    <3>8. \A i \in Held' : log'[i].trace = t => \E k \in DOMAIN index'[t] : index'[t][k] = i
      BY <3>4, <3>6
    <3>9. \A k, l \in DOMAIN index'[t] : k < l => index'[t][k] < index'[t][l]
      <4>1. DOMAIN index'[t] = 1 .. (Len(s) - 1)
        BY <3>6
      <4> TAKE k, l \in DOMAIN index'[t]
      <4> HAVE k < l
      <4>2. s[k + 1] < s[l + 1]
        BY <3>5, <4>1
      <4>3. index'[t][k] = s[k + 1] /\ index'[t][l] = s[l + 1]
        BY <3>6, <4>1
      <4> QED
        BY <4>2, <4>3
    <3> QED
      BY <3>7, <3>8, <3>9
  <2> QED
    BY <2>2, <2>3
<1> QED
  BY <1>9, <1>10, <1>11, <1>12 DEF RingInv

-----------------------------------------------------------------------------
(* The entry goes in.                                                      *)

LEMMA AppendKeeps == RingInv /\ FinishAppend => RingInv'
<1> SUFFICES ASSUME RingInv, FinishAppend PROVE RingInv'
  OBVIOUS
<1> DEFINE e == adding[1].entry
<1>1. /\ first \in Nat \ {0} /\ next \in Nat \ {0} /\ first <= next
      /\ first' = first /\ next' = next + 1
      /\ now \in Nat /\ now' = now
      /\ size \in Nat
  BY DEF FinishAppend, RingInv, RingTypeOK
<1>2. e \in Entry /\ e.size \in Nat /\ e.trace \in Traces \cup {NoTrace}
  BY AddedIsEntry DEF FinishAppend, RingInv, Entry
<1>3. Held' = Held \cup {next} /\ next \notin Held /\ Held' = first .. next
  BY <1>1 DEF Held
<1>4. log'[next] = e /\ \A i \in Held : log'[i] = log[i]
  BY <1>1, <1>3 DEF FinishAppend
<1>5. size' = size + e.size
  BY DEF FinishAppend
<1>6. /\ rest \in [first .. next -> Nat]
      /\ rest' = [i \in first .. (next + 1) |-> IF i > next THEN 0 ELSE rest[i] + e.size]
  BY DEF FinishAppend, RingInv, RingTypeOK
<1>7. \A t \in Traces : IF t = e.trace THEN index'[t] = Append(index[t], next)
                                       ELSE index'[t] = index[t]
  BY DEF FinishAppend
<1>8. index' \in [Traces -> Seq(Nat)]
  <2>1. index' = [t \in Traces |-> index'[t]]
    BY DEF FinishAppend
  <2>2. ASSUME NEW t \in Traces PROVE index'[t] \in Seq(Nat)
    <3>1. index[t] \in Seq(Nat)
      BY DEF RingInv, RingTypeOK
    <3>2. Append(index[t], next) \in Seq(Nat)
      BY <1>1, <3>1
    <3> QED
      BY <1>7, <3>1, <3>2
  <2> QED
    BY <2>1, <2>2
<1> HIDE DEF e
<1>9. RingTypeOK'
  <2>1. log' \in [Held' -> Entry]
    <3>1. log \in [Held -> Entry]
      BY DEF RingInv, RingTypeOK
    <3>2. log' = [i \in Held' |-> IF i = next THEN e ELSE log[i]]
      BY <1>1, <1>3 DEF FinishAppend, e
    <3> QED
      BY <1>2, <1>3, <3>1, <3>2
  <2>2. received' \in [Held' -> Nat]
    <3>1. received \in [Held -> Nat]
      BY DEF RingInv, RingTypeOK
    <3>2. received' = [i \in Held' |-> IF i = next THEN now ELSE received[i]]
      BY <1>1, <1>3 DEF FinishAppend
    <3> QED
      BY <1>1, <1>3, <3>1, <3>2
  <2>3. rest' \in [first' .. next' -> Nat]
    BY <1>1, <1>2, <1>6
  <2>4. adding' \in Seq(Adding) /\ Len(adding') <= 1
    BY DEF FinishAppend
  <2>5. size' \in Nat
    BY <1>1, <1>2, <1>5
  <2> QED
    BY <1>1, <1>8, <2>1, <2>2, <2>3, <2>4, <2>5 DEF RingTypeOK
<1>10. SizeIsSum'
  <2>1. /\ size = rest[first] /\ rest[next] = 0
        /\ \A i \in Held : rest[i] = log[i].size + rest[i + 1] /\ log[i].size \in Nat
    BY DEF RingInv, SizeIsSum, RingTypeOK, Entry
  <2>2. size' = rest'[first']
    BY <1>1, <1>5, <1>6, <2>1
  <2>3. rest'[next'] = 0
    BY <1>1, <1>6
  <2>4. rest'[next] = log'[next].size + rest'[next + 1]
    BY <1>1, <1>2, <1>4, <1>6, <2>1
  <2>5. ASSUME NEW i \in Held PROVE rest'[i] = log'[i].size + rest'[i + 1]
    <3>1. i \in Nat /\ i \in first .. next /\ i + 1 \in first .. next /\ i < next
      BY <1>1 DEF Held
    <3>2. rest'[i] = rest[i] + e.size /\ rest'[i + 1] = rest[i + 1] + e.size
      BY <1>1, <1>6, <3>1
    <3>3. rest[i] \in Nat /\ rest[i + 1] \in Nat
      BY <1>6, <3>1
    <3> QED
      BY <1>2, <1>4, <2>1, <3>2, <3>3
  <2> QED
    BY <1>3, <2>2, <2>3, <2>4, <2>5 DEF SizeIsSum
<1>11. WithinLimits'
  <2>1. CASE first = next
    BY <1>1, <2>1 DEF WithinLimits
  <2>2. CASE first < next
    <3>1. size + e.size <= MaxBytes /\ next - first < MaxSize
      BY <1>1, <1>2, <2>2, RetentionAssumption
      DEF FinishAppend, MustEvict, TooLarge, TooMany, e
    <3> QED
      BY <1>1, <1>2, <1>5, <3>1, RetentionAssumption DEF WithinLimits
  <2> QED
    BY <1>1, <2>1, <2>2
<1>12. IndexMatches'
  <2> SUFFICES ASSUME NEW t \in Traces
               PROVE
                 /\ \A k \in DOMAIN index'[t] :
                      index'[t][k] \in Held' /\ log'[index'[t][k]].trace = t
                 /\ \A i \in Held' : log'[i].trace = t =>
                      \E k \in DOMAIN index'[t] : index'[t][k] = i
                 /\ \A k, l \in DOMAIN index'[t] : k < l => index'[t][k] < index'[t][l]
    BY DEF IndexMatches
  <2> DEFINE s == index[t]
  <2>1. /\ s \in Seq(Nat)
        /\ \A k \in DOMAIN s : s[k] \in Held /\ log[s[k]].trace = t
        /\ \A i \in Held : log[i].trace = t => \E k \in DOMAIN s : s[k] = i
        /\ \A k, l \in DOMAIN s : k < l => s[k] < s[l]
    BY DEF RingInv, RingTypeOK, IndexMatches
  <2>2. CASE t # e.trace
    <3>1. index'[t] = s
      BY <1>7, <2>2
    <3> QED
      BY <1>3, <1>4, <2>1, <2>2, <3>1
  <2>3. CASE t = e.trace
    <3>1. index'[t] = Append(s, next)
      BY <1>7, <2>3
    <3>2. /\ Len(s) \in Nat /\ DOMAIN s = 1 .. Len(s)
          /\ DOMAIN Append(s, next) = 1 .. (Len(s) + 1)
          /\ Append(s, next)[Len(s) + 1] = next
          /\ \A k \in 1 .. Len(s) : Append(s, next)[k] = s[k]
      BY <1>1, <2>1
    <3>3. \A k \in 1 .. Len(s) : s[k] \in Held /\ s[k] < next /\ log'[s[k]].trace = t
      <4> TAKE k \in 1 .. Len(s)
      <4>1. s[k] \in Held /\ log[s[k]].trace = t
        BY <2>1, <3>2
      <4>2. s[k] < next
        BY <1>1, <4>1 DEF Held
      <4> QED
        BY <1>4, <4>1, <4>2
    <3>4. /\ DOMAIN index'[t] = 1 .. (Len(s) + 1)
          /\ index'[t][Len(s) + 1] = next
          /\ \A k \in 1 .. Len(s) : index'[t][k] = s[k]
      BY <3>1, <3>2
    <3>5. \A k \in 1 .. (Len(s) + 1) : k \in 1 .. Len(s) \/ k = Len(s) + 1
      BY <3>2
    <3>6. \A k \in DOMAIN index'[t] :
            index'[t][k] \in Held' /\ log'[index'[t][k]].trace = t
      BY <1>3, <1>4, <2>3, <3>3, <3>4, <3>5
    <3>7. ASSUME NEW i \in Held', log'[i].trace = t
          PROVE  \E k \in DOMAIN index'[t] : index'[t][k] = i
      <4>1. CASE i = next
        BY <3>2, <3>4, <4>1
      <4>2. CASE i \in Held
        <5>1. PICK k \in DOMAIN s : s[k] = i
          BY <1>4, <2>1, <3>7, <4>2
        <5> QED
          BY <3>2, <3>4, <5>1
      <4> QED
        BY <1>3, <4>1, <4>2
    <3>8. ASSUME NEW k \in DOMAIN index'[t], NEW l \in DOMAIN index'[t], k < l
          PROVE  index'[t][k] < index'[t][l]
      <4>1. k \in 1 .. Len(s)
        BY <3>2, <3>4, <3>8
      <4>2. CASE l = Len(s) + 1
        BY <3>3, <3>4, <4>1, <4>2
      <4>3. CASE l \in 1 .. Len(s)
        BY <2>1, <3>2, <3>4, <3>8, <4>1, <4>3
      <4> QED
        BY <3>4, <3>5, <4>2, <4>3
    <3> QED
      BY <3>6, <3>7, <3>8
  <2> QED
    BY <2>2, <2>3
<1> QED
  BY <1>9, <1>10, <1>11, <1>12 DEF RingInv

-----------------------------------------------------------------------------
(* Every step.                                                             *)

LEMMA RingStepKeeps == RingInv /\ [RingNext]_ringVars => RingInv'
<1> SUFFICES ASSUME RingInv, [RingNext]_ringVars PROVE RingInv'
  OBVIOUS
<1>1. ASSUME NEW p \in Appenders, NEW e \in Entry, BeginAppend(p, e)
      PROVE  RingInv'
  <2>1. [by |-> p, entry |-> e, at |-> now] \in Adding
    BY <1>1 DEF Adding, RingInv, RingTypeOK
  <2>2. adding' \in Seq(Adding) /\ Len(adding') <= 1
    BY <1>1, <2>1 DEF BeginAppend
  <2> QED
    BY <1>1, <2>2 DEF BeginAppend, RingInv, RingTypeOK, SizeIsSum, WithinLimits, IndexMatches, Held
<1>2. CASE EvictOldest
  BY <1>2, EvictionKeeps
<1>3. CASE FinishAppend
  BY <1>3, AppendKeeps
<1>4. CASE Tick
  <2>1. now' \in Nat
    BY <1>4 DEF Tick, RingInv, RingTypeOK
  <2> QED
    BY <1>4, <2>1 DEF Tick, RingInv, RingTypeOK, SizeIsSum, WithinLimits, IndexMatches, Held
<1>5. CASE UNCHANGED ringVars
  BY <1>5 DEF ringVars, RingInv, RingTypeOK, SizeIsSum, WithinLimits, IndexMatches, Held
<1> QED
  BY <1>1, <1>2, <1>3, <1>4, <1>5 DEF RingNext

\* At every step of Append (ringbuffer.go:63), the buffer is within its limits,
\* and its size and its index are those of the entries it has.
THEOREM RingSound == RingSpec => []RingInv
BY RingStarts, RingStepKeeps, PTL DEF RingSpec

\* Append (ringbuffer.go:63) keeps the size the sum of the entries, at every
\* step and for any number of appending goroutines.
THEOREM SizeIsTheSum == RingSpec => []SizeIsSum
<1>1. RingInv => SizeIsSum
  BY DEF RingInv
<1> QED
  BY <1>1, RingStarts, RingStepKeeps, PTL DEF RingSpec

\* evictIfNeeded (ringbuffer.go:85) keeps the buffer within its entries and
\* bytes, but for an entry that is too large by itself.
THEOREM StaysWithinLimits == RingSpec => []WithinLimits
<1>1. RingInv => WithinLimits
  BY DEF RingInv
<1> QED
  BY <1>1, RingStarts, RingStepKeeps, PTL DEF RingSpec

\* The trace index (ringbuffer.go:323) has what the buffer has, oldest first.
THEOREM IndexIsExact == RingSpec => []IndexMatches
<1>1. RingInv => IndexMatches
  BY DEF RingInv
<1> QED
  BY <1>1, RingStarts, RingStepKeeps, PTL DEF RingSpec

-----------------------------------------------------------------------------
(* Types.                                                                  *)

\* Of the lines 1 to n, and no more of them than that.
Fits(s, n) == /\ s \in Seq(Nat)
              /\ Len(s) <= n
              /\ \A i \in 1 .. Len(s) : s[i] \in 1 .. n

\* The entry that is being appended is the first its reader has in hand.
AddsHead == adding # <<>> => /\ adding[1].by \in Readers
                             /\ hand[adding[1].by] # <<>>
                             /\ adding[1].entry = Head(hand[adding[1].by])

Typed ==
  /\ TypeOK
  /\ Len(lines) <= MaxLines
  /\ \A k \in Keys : Fits(open[k], Len(lines))
  /\ \A r \in Readers : \A i \in DOMAIN hand[r] : Fits(hand[r][i].lines, Len(lines))
  /\ AddsHead

\* The least of a set of numbers is one of them.
LEMMA LeastIsIn ==
  ASSUME NEW S \in SUBSET Nat, S # {}
  PROVE  Min(S) \in S
<1>1. PICK x \in S : \A y \in S : ~ (<<y, x>> \in OpToRel(<, Nat))
  BY NatLessThanWellFounded, WFMin
<1>2. ASSUME NEW y \in S PROVE x <= y
  <2>1. x \in Nat /\ y \in Nat
    OBVIOUS
  <2>2. ~(y < x)
    BY <1>1, <2>1 DEF OpToRel
  <2> QED
    BY <2>1, <2>2
<1> QED
  BY <1>1, <1>2 DEF Min

\* An entry made of lines that have been read.
LEMMA EntryTyped ==
  ASSUME NEW read \in Seq(Line), Len(read) <= MaxLines,
         NEW s \in Seq(Nat), Len(s) <= Len(read),
         \A i \in DOMAIN s : s[i] \in 1 .. Len(read)
  PROVE  EntryOf(s, read) \in Entry /\ EntryOf(s, read).lines = s
<1> DEFINE traced == {n \in ToSet(s) : read[n].trace # NoTrace}
<1>1. ToSet(s) \subseteq 1 .. Len(read)
  BY DEF ToSet
<1>2. \A n \in 1 .. Len(read) : read[n].trace \in Traces \cup {NoTrace}
  <2>1. \A n \in 1 .. Len(read) : read[n] \in Line
    OBVIOUS
  <2> QED
    BY <2>1 DEF Line
<1>3. traced # {} => Min(traced) \in traced
  <2>1. traced \subseteq Nat
    BY <1>1
  <2> HIDE DEF traced
  <2> QED
    BY <2>1, LeastIsIn
<1>4. (IF traced = {} THEN NoTrace ELSE read[Min(traced)].trace) \in Traces \cup {NoTrace}
  BY <1>1, <1>2, <1>3
<1>5. s \in Lines
  <2>1. s \in [1 .. Len(s) -> 1 .. MaxLines] /\ Len(s) \in 0 .. MaxLines
    BY LinesAssumption
  <2> QED
    BY <2>1, LinesAssumption
<1> HIDE DEF traced
<1>6. EntryOf(s, read) = [lines |-> s, size |-> Len(s),
                          trace |-> IF traced = {} THEN NoTrace ELSE read[Min(traced)].trace]
  BY DEF EntryOf, traced
<1> QED
  BY <1>4, <1>5, <1>6 DEF Entry

-----------------------------------------------------------------------------
(* What reading a line and the end of a stream come to.                    *)

\* The entries h are made of the lines ss.
MadeOf(h, ss) == /\ h \in Seq(Entry)
                 /\ Len(h) = Len(ss)
                 /\ \A i \in 1 .. Len(ss) : h[i].lines = ss[i]

\* What Parse makes of line n after s: what is open afterwards, and the lines
\* of the entries that are complete.
Grouped(s, n, kind, o, ss) ==
  \/ kind = "start" /\ o = <<n>> /\ ss = <<>>
  \/ kind # "start" /\ s = <<>> /\ o = <<>> /\ ss = <<<<n>>>>
  \/ kind = "indented" /\ s # <<>> /\ o = Append(s, n) /\ ss = <<>>
  \/ kind = "exception" /\ s # <<>> /\ o = <<>> /\ ss = <<Append(s, n)>>
  \/ kind = "blank" /\ s # <<>> /\ o = <<>> /\ ss = <<s>>
  \/ kind \in {"blank", "plain"} /\ s # <<>> /\ o = <<>> /\ ss = <<s, <<n>>>>

\* Reading a line of kind k, and with it the outcome of Grouped.
Reading(r, kind, ss) ==
  LET n == Len(lines) + 1
      k == KeyOf[r]
  IN /\ reader[r] = "reading" /\ hand[r] = <<>>
     /\ lines' \in Seq(Line) /\ Len(lines') = n /\ n <= MaxLines
     /\ \A i \in 1 .. Len(lines) : lines'[i] = lines[i]
     /\ lines'[n].from = r /\ lines'[n].kind = kind /\ kind \in Kinds
     /\ Grouped(open[k], n, kind, open'[k], ss)
     /\ open' = [open EXCEPT ![k] = open'[k]]
     /\ hand' = [hand EXCEPT ![r] = hand'[r]]
     /\ MadeOf(hand'[r], ss)
     /\ UNCHANGED <<ringVars, reader, stored, mixed>>

LEMMA OneEntry ==
  ASSUME NEW e \in Entry, NEW s, e.lines = s
  PROVE  MadeOf(<<e>>, <<s>>)
BY DEF MadeOf

LEMMA TwoEntries ==
  ASSUME NEW e \in Entry, NEW f \in Entry, NEW s, NEW u, e.lines = s, f.lines = u
  PROVE  MadeOf(<<e, f>>, <<s, u>>)
<1>1. <<e, f>> \in Seq(Entry) /\ Len(<<e, f>>) = 2 /\ Len(<<s, u>>) = 2
  OBVIOUS
<1>2. \A i \in 1 .. 2 : i = 1 \/ i = 2
  OBVIOUS
<1> QED
  BY <1>1, <1>2 DEF MadeOf

LEMMA NoEntry == MadeOf(<<>>, <<>>)
BY DEF MadeOf

LEMMA Reads ==
  ASSUME Typed, NEW r \in Readers, ReaderReads(r)
  PROVE  \E kind \in Kinds, ss \in {<<>>, <<<<Len(lines) + 1>>>>, <<Append(open[KeyOf[r]], Len(lines) + 1)>>,
                                    <<open[KeyOf[r]]>>, <<open[KeyOf[r]], <<Len(lines) + 1>>>>} :
           Reading(r, kind, ss)
<1> DEFINE n == Len(lines) + 1
           k == KeyOf[r]
           s == open[k]
           Read(input) == Append(lines, [from |-> r, kind |-> input.kind, trace |-> input.trace])
<1>1. /\ reader[r] = "reading" /\ hand[r] = <<>> /\ Len(lines) < MaxLines
      /\ UNCHANGED <<ringVars, reader, stored, mixed>>
  BY DEF ReaderReads
<1>2. PICK input \in Inputs[r] :
        /\ lines' = Read(input)
        /\ open' = [open EXCEPT ![k] = Parsed(s, n, input.kind, Read(input)).open]
        /\ hand' = [hand EXCEPT ![r] = Parsed(s, n, input.kind, Read(input)).out]
  BY DEF ReaderReads, StateOf
<1> DEFINE read == Read(input)
           kind == input.kind
<1>3. kind \in Kinds /\ input.trace \in Traces \cup {NoTrace}
  BY InputAssumption
<1>4. /\ lines \in Seq(Line) /\ Len(lines) \in Nat /\ n \in Nat
      /\ hand \in [Readers -> Seq(Entry)] /\ open \in [Keys -> Seq(Nat)] /\ k \in Keys
      /\ Fits(s, Len(lines))
  BY DEF Typed, TypeOK, Keys
<1>5. [from |-> r, kind |-> kind, trace |-> input.trace] \in Line
  BY <1>3 DEF Line
<1>6. /\ read \in Seq(Line) /\ Len(read) = n /\ n <= MaxLines
      /\ \A i \in 1 .. Len(lines) : read[i] = lines[i]
      /\ read[n].from = r /\ read[n].kind = kind
  BY <1>1, <1>4, <1>5, LinesAssumption
<1> HIDE DEF read, kind
<1>7. MadeOf(<<EntryOf(<<n>>, read)>>, <<<<n>>>>) /\ EntryOf(<<n>>, read) \in Entry
      /\ EntryOf(<<n>>, read).lines = <<n>>
  <2>1. <<n>> \in Seq(Nat) /\ Len(<<n>>) <= Len(read) /\ \A i \in DOMAIN <<n>> : <<n>>[i] \in 1 .. Len(read)
    BY <1>4, <1>6
  <2> QED
    BY <1>6, <2>1, EntryTyped, OneEntry
<1>8. EntryOf(s, read) \in Entry /\ EntryOf(s, read).lines = s
  <2>1. s \in Seq(Nat) /\ Len(s) <= Len(read) /\ \A i \in DOMAIN s : s[i] \in 1 .. Len(read)
    BY <1>4, <1>6 DEF Fits
  <2> QED
    BY <1>6, <2>1, EntryTyped
<1>9. EntryOf(Append(s, n), read) \in Entry /\ EntryOf(Append(s, n), read).lines = Append(s, n)
  <2>1. s \in Seq(Nat) /\ Len(s) < Len(read) /\ \A i \in 1 .. Len(s) : s[i] \in 1 .. Len(read)
    BY <1>4, <1>6 DEF Fits
  <2>2. /\ Append(s, n) \in Seq(Nat) /\ Len(Append(s, n)) = Len(s) + 1
        /\ \A i \in 1 .. Len(s) : Append(s, n)[i] = s[i]
        /\ Append(s, n)[Len(s) + 1] = n
    BY <1>4, <2>1
  <2>3. /\ Len(Append(s, n)) <= Len(read)
        /\ \A i \in DOMAIN Append(s, n) : Append(s, n)[i] \in 1 .. Len(read)
    BY <1>4, <1>6, <2>1, <2>2
  <2> QED
    BY <1>6, <2>2, <2>3, EntryTyped
<1> DEFINE p == Parsed(s, n, kind, read)
<1>10. /\ open' = [open EXCEPT ![k] = p.open] /\ open'[k] = p.open
       /\ hand' = [hand EXCEPT ![r] = p.out] /\ hand'[r] = p.out
       /\ lines' = read
  BY <1>2, <1>4 DEF read, kind
<1>11. ASSUME NEW ss, Grouped(s, n, kind, p.open, ss), MadeOf(p.out, ss)
       PROVE  Reading(r, kind, ss)
  BY <1>1, <1>3, <1>6, <1>10, <1>11 DEF Reading
<1>12. CASE kind = "start"
  <2>1. p = [open |-> <<n>>, out |-> <<>>]
    BY <1>12 DEF Parsed, ParsedAlone
  <2>2. Grouped(s, n, kind, p.open, <<>>) /\ MadeOf(p.out, <<>>)
    BY <1>12, <2>1, NoEntry DEF Grouped
  <2> QED
    BY <1>3, <1>11, <2>2
<1>13. CASE kind # "start" /\ s = <<>>
  <2>1. p = [open |-> <<>>, out |-> <<EntryOf(<<n>>, read)>>]
    BY <1>13 DEF Parsed, ParsedAlone
  <2>2. Grouped(s, n, kind, p.open, <<<<n>>>>) /\ MadeOf(p.out, <<<<n>>>>)
    BY <1>7, <1>13, <2>1 DEF Grouped
  <2> QED
    BY <1>3, <1>11, <2>2
<1>14. CASE kind = "indented" /\ s # <<>>
  <2>1. p = [open |-> Append(s, n), out |-> <<>>]
    BY <1>14 DEF Parsed
  <2>2. Grouped(s, n, kind, p.open, <<>>) /\ MadeOf(p.out, <<>>)
    BY <1>14, <2>1, NoEntry DEF Grouped
  <2> QED
    BY <1>3, <1>11, <2>2
<1>15. CASE kind = "exception" /\ s # <<>>
  <2>1. p = [open |-> <<>>, out |-> <<EntryOf(Append(s, n), read)>>]
    BY <1>15 DEF Parsed
  <2>2. Grouped(s, n, kind, p.open, <<Append(s, n)>>)
    BY <1>15, <2>1 DEF Grouped
  <2>3. MadeOf(<<EntryOf(Append(s, n), read)>>, <<Append(s, n)>>)
    BY <1>9, OneEntry
  <2>4. MadeOf(p.out, <<Append(s, n)>>)
    BY <2>1, <2>3
  <2> QED
    BY <1>3, <1>11, <2>2, <2>4
<1>16. CASE kind \in {"blank", "plain"} /\ s # <<>> /\ Swallowed(s, kind)
  <2>1. p = [open |-> <<>>, out |-> <<EntryOf(s, read)>>] /\ kind = "blank"
    BY <1>16 DEF Parsed, Swallowed
  <2>2. Grouped(s, n, kind, p.open, <<s>>) /\ MadeOf(p.out, <<s>>)
    BY <1>8, <1>16, <2>1, OneEntry DEF Grouped
  <2> QED
    BY <1>3, <1>11, <2>2
<1>17. CASE kind \in {"blank", "plain"} /\ s # <<>> /\ ~Swallowed(s, kind)
  <2>1. p = [open |-> <<>>, out |-> <<EntryOf(s, read), EntryOf(<<n>>, read)>>]
    BY <1>17 DEF Parsed, Ended
  <2>2. Grouped(s, n, kind, p.open, <<s, <<n>>>>) /\ MadeOf(p.out, <<s, <<n>>>>)
    BY <1>7, <1>8, <1>17, <2>1, TwoEntries DEF Grouped
  <2> QED
    BY <1>3, <1>11, <2>2
<1> QED
  BY <1>3, <1>12, <1>13, <1>14, <1>15, <1>16, <1>17 DEF Kinds
\* The end of a stream, which leaves what was open in hand.
Ending(r, ss) ==
  LET k == KeyOf[r]
  IN /\ reader[r] = "reading" /\ hand[r] = <<>>
     /\ reader' = [reader EXCEPT ![r] = "flushing"]
     /\ open' = [open EXCEPT ![k] = <<>>]
     /\ hand' = [hand EXCEPT ![r] = hand'[r]]
     /\ \/ open[k] = <<>> /\ ss = <<>>
        \/ open[k] # <<>> /\ ss = <<open[k]>>
     /\ MadeOf(hand'[r], ss)
     /\ UNCHANGED <<ringVars, lines, stored, mixed>>

LEMMA Ends ==
  ASSUME Typed, NEW r \in Readers, ReaderEnds(r)
  PROVE  \E ss \in {<<>>, <<open[KeyOf[r]]>>} : Ending(r, ss)
<1> DEFINE k == KeyOf[r]
           s == open[k]
           f == Flushed(s, lines)
<1>1. /\ reader[r] = "reading" /\ hand[r] = <<>>
      /\ reader' = [reader EXCEPT ![r] = "flushing"]
      /\ UNCHANGED <<ringVars, lines, stored, mixed>>
  BY DEF ReaderEnds
<1>2. open' = [open EXCEPT ![k] = f.open] /\ hand' = [hand EXCEPT ![r] = f.out]
  BY DEF ReaderEnds, StateOf
<1>3. hand \in [Readers -> Seq(Entry)] /\ lines \in Seq(Line) /\ Len(lines) <= MaxLines /\ Fits(s, Len(lines))
  BY DEF Typed, TypeOK, Keys
<1>4. f.open = <<>> /\ hand'[r] = f.out
  BY <1>2, <1>3 DEF Flushed
<1>5. CASE s = <<>>
  <2>1. f.out = <<>>
    BY <1>5 DEF Flushed
  <2>2. Ending(r, <<>>)
    BY <1>1, <1>2, <1>4, <1>5, <2>1, NoEntry DEF Ending
  <2> QED
    BY <2>2
<1>6. CASE s # <<>>
  <2>1. f.out = <<EntryOf(s, lines)>>
    BY <1>6 DEF Flushed
  <2>2. EntryOf(s, lines) \in Entry /\ EntryOf(s, lines).lines = s
    <3>1. s \in Seq(Nat) /\ Len(s) <= Len(lines) /\ \A i \in 1 .. Len(s) : s[i] \in 1 .. Len(lines)
      BY <1>3 DEF Fits
    <3>2. DOMAIN s = 1 .. Len(s)
      BY <3>1
    <3> QED
      BY <1>3, <3>1, <3>2, EntryTyped
  <2>3. MadeOf(<<EntryOf(s, lines)>>, <<s>>)
    BY <2>2, OneEntry
  <2>4. Ending(r, <<s>>)
    BY <1>1, <1>2, <1>4, <1>6, <2>1, <2>3 DEF Ending
  <2> QED
    BY <2>4
<1> QED
  BY <1>5, <1>6

\* The first entry that r has in hand goes into the log.
Storing(r) ==
  LET k == KeyOf[r]
  IN /\ hand[r] # <<>>
     /\ hand' = [hand EXCEPT ![r] = Tail(hand[r])]
     /\ stored' = [stored EXCEPT ![k] = stored[k] \o hand[r][1].lines]
     /\ adding # <<>> /\ adding[1].entry = hand[r][1]
     /\ FinishAppend
     /\ UNCHANGED <<lines, reader, open, mixed>>

LEMMA Stores ==
  ASSUME Typed, Appended
  PROVE  \E r \in Readers : Storing(r)
<1> DEFINE r == adding[1].by
<1>1. adding # <<>>
  BY DEF Appended, FinishAppend
<1>2. r \in Readers /\ hand[r] # <<>> /\ adding[1].entry = Head(hand[r])
  BY <1>1 DEF Typed, AddsHead
<1>3. hand[r] \in Seq(Entry) /\ stored \in [Keys -> Seq(Nat)]
  BY <1>2 DEF Typed, TypeOK
<1>4. Head(hand[r]) = hand[r][1]
  BY <1>2, <1>3
<1> QED
  BY <1>1, <1>2, <1>3, <1>4 DEF Appended, Storing, Keys
LEMMA FitsGrows ==
  ASSUME NEW s, NEW m \in Nat, NEW n \in Nat, m <= n, Fits(s, m)
  PROVE  Fits(s, n)
BY DEF Fits

LEMMA GroupsFit ==
  ASSUME NEW s, NEW n \in Nat, Fits(s, n)
  PROVE  /\ Fits(<<>>, n + 1)
         /\ Fits(<<n + 1>>, n + 1)
         /\ Fits(s, n + 1)
         /\ Fits(Append(s, n + 1), n + 1)
<1>1. s \in Seq(Nat) /\ Len(s) \in Nat /\ Len(s) <= n /\ \A i \in 1 .. Len(s) : s[i] \in 1 .. n
  BY DEF Fits
<1>2. Fits(<<>>, n + 1) /\ Fits(<<n + 1>>, n + 1) /\ Fits(s, n + 1)
  BY <1>1 DEF Fits
<1>3. /\ Append(s, n + 1) \in Seq(Nat) /\ Len(Append(s, n + 1)) = Len(s) + 1
      /\ \A i \in 1 .. Len(s) : Append(s, n + 1)[i] = s[i]
      /\ Append(s, n + 1)[Len(s) + 1] = n + 1
  BY <1>1
<1>4. Fits(Append(s, n + 1), n + 1)
  BY <1>1, <1>3 DEF Fits
<1> QED
  BY <1>2, <1>4

-----------------------------------------------------------------------------
(* Every step keeps the types, and the buffer sound.                       *)

LEMMA PathTypes ==
  ASSUME Typed
  PROVE  /\ lines \in Seq(Line) /\ Len(lines) \in Nat
         /\ reader \in [Readers -> {"off", "reading", "flushing", "done"}]
         /\ hand \in [Readers -> Seq(Entry)] /\ open \in [Keys -> Seq(Nat)]
         /\ stored \in [Keys -> Seq(Nat)] /\ mixed \subseteq Keys
         /\ \A j \in Keys : Fits(open[j], Len(lines))
         /\ \A q \in Readers : \A i \in DOMAIN hand[q] : Fits(hand[q][i].lines, Len(lines))
<1>1. lines \in Seq(Line)
  BY DEF Typed, TypeOK
<1>2. Len(lines) \in Nat
  BY <1>1
<1> QED
  BY <1>1, <1>2 DEF Typed, TypeOK

LEMMA ReadingTyped ==
  ASSUME Typed, RingTypeOK', NEW r \in Readers, NEW kind, NEW ss, Reading(r, kind, ss)
  PROVE  Typed'
<1> DEFINE k == KeyOf[r]
           n == Len(lines) + 1
<1>1. /\ lines \in Seq(Line) /\ Len(lines) \in Nat /\ k \in Keys
      /\ reader \in [Readers -> {"off", "reading", "flushing", "done"}]
      /\ hand \in [Readers -> Seq(Entry)] /\ open \in [Keys -> Seq(Nat)]
      /\ stored \in [Keys -> Seq(Nat)]
      /\ \A j \in Keys : Fits(open[j], Len(lines))
      /\ \A q \in Readers : \A i \in DOMAIN hand[q] : Fits(hand[q][i].lines, Len(lines))
  BY PathTypes DEF Keys
<1>2. /\ lines' \in Seq(Line) /\ Len(lines') = n /\ n <= MaxLines /\ hand[r] = <<>>
      /\ UNCHANGED <<ringVars, reader, stored, mixed>>
      /\ Grouped(open[k], n, kind, open'[k], ss)
      /\ MadeOf(hand'[r], ss)
  BY DEF Reading
<1>3. /\ open' = [open EXCEPT ![k] = open'[k]]
      /\ hand' = [hand EXCEPT ![r] = hand'[r]]
  BY DEF Reading
<1>4. Fits(open'[k], n) /\ \A i \in 1 .. Len(ss) : Fits(ss[i], n)
  <2>1. /\ Fits(<<>>, n) /\ Fits(<<n>>, n) /\ Fits(open[k], n) /\ Fits(Append(open[k], n), n)
    BY <1>1, GroupsFit
  <2>2. open'[k] \in {<<>>, <<n>>, Append(open[k], n)}
    BY <1>2 DEF Grouped
  <2>3. \/ ss = <<>>
        \/ \E s \in {<<n>>, open[k], Append(open[k], n)} : ss = <<s>>
        \/ ss = <<open[k], <<n>>>>
    BY <1>2 DEF Grouped
  <2>4. ASSUME NEW s \in {<<n>>, open[k], Append(open[k], n)}, ss = <<s>>
        PROVE  \A i \in 1 .. Len(ss) : Fits(ss[i], n)
    <3>1. Fits(s, n)
      BY <2>1
    <3>2. Len(ss) = 1 /\ ss[1] = s
      BY <2>4
    <3> QED
      BY <3>1, <3>2
  <2>5. ASSUME ss = <<open[k], <<n>>>>
        PROVE  \A i \in 1 .. Len(ss) : Fits(ss[i], n)
    <3>1. Len(ss) = 2 /\ ss[1] = open[k] /\ ss[2] = <<n>>
      BY <2>5
    <3>2. \A i \in 1 .. 2 : i = 1 \/ i = 2
      OBVIOUS
    <3> QED
      BY <2>1, <3>1, <3>2
  <2>6. ASSUME ss = <<>>
        PROVE  \A i \in 1 .. Len(ss) : Fits(ss[i], n)
    <3>1. Len(ss) = 0
      BY <2>6
    <3> QED
      BY <3>1
  <2>7. Fits(open'[k], n)
    BY <2>1, <2>2
  <2>8. \A i \in 1 .. Len(ss) : Fits(ss[i], n)
    BY <2>3, <2>4, <2>5, <2>6
  <2> QED
    BY <2>7, <2>8
<1>5. open'[k] \in Seq(Nat) /\ hand'[r] \in Seq(Entry)
  BY <1>2, <1>4 DEF Fits, MadeOf
<1>6. open' \in [Keys -> Seq(Nat)] /\ hand' \in [Readers -> Seq(Entry)]
  BY <1>1, <1>3, <1>5
<1>7. \A j \in Keys : Fits(open'[j], n)
  <2> TAKE j \in Keys
  <2>1. CASE j = k
    BY <1>4, <2>1
  <2>2. CASE j # k
    BY <1>1, <1>3, <2>2, FitsGrows
  <2> QED
    BY <2>1, <2>2
<1>8. \A q \in Readers : \A i \in DOMAIN hand'[q] : Fits(hand'[q][i].lines, n)
  <2> TAKE q \in Readers
  <2>1. CASE q = r
    BY <1>2, <1>4, <2>1 DEF MadeOf
  <2>2. CASE q # r
    BY <1>1, <1>3, <2>2, FitsGrows
  <2> QED
    BY <2>1, <2>2
<1>9. AddsHead'
  <2>1. adding' = adding
    BY <1>2 DEF ringVars
  <2>2. AddsHead
    BY DEF Typed
  <2> QED
    BY <1>1, <1>2, <1>3, <2>1, <2>2 DEF AddsHead
<1>10. TypeOK'
  BY <1>1, <1>2, <1>6, PathTypes DEF TypeOK
<1> QED
  BY <1>2, <1>7, <1>8, <1>9, <1>10 DEF Typed

LEMMA EndingTyped ==
  ASSUME Typed, RingTypeOK', NEW r \in Readers, NEW ss, Ending(r, ss)
  PROVE  Typed'
<1> DEFINE k == KeyOf[r]
<1>1. /\ lines \in Seq(Line) /\ Len(lines) \in Nat /\ k \in Keys
      /\ reader \in [Readers -> {"off", "reading", "flushing", "done"}]
      /\ hand \in [Readers -> Seq(Entry)] /\ open \in [Keys -> Seq(Nat)]
      /\ stored \in [Keys -> Seq(Nat)]
      /\ \A j \in Keys : Fits(open[j], Len(lines))
      /\ \A q \in Readers : \A i \in DOMAIN hand[q] : Fits(hand[q][i].lines, Len(lines))
  BY PathTypes DEF Keys
<1>2. /\ UNCHANGED <<ringVars, lines, stored, mixed>>
      /\ reader' = [reader EXCEPT ![r] = "flushing"]
      /\ open' = [open EXCEPT ![k] = <<>>]
      /\ ss = <<>> \/ ss = <<open[k]>>
      /\ MadeOf(hand'[r], ss)
      /\ hand[r] = <<>>
  BY DEF Ending
<1>3. hand' = [hand EXCEPT ![r] = hand'[r]]
  BY DEF Ending
<1>4. hand'[r] \in Seq(Entry) /\ \A i \in DOMAIN hand'[r] : Fits(hand'[r][i].lines, Len(lines))
  <2>1. hand'[r] \in Seq(Entry) /\ Len(hand'[r]) = Len(ss)
        /\ \A i \in 1 .. Len(ss) : hand'[r][i].lines = ss[i]
    BY <1>2 DEF MadeOf
  <2>2. DOMAIN hand'[r] = 1 .. Len(ss)
    BY <2>1
  <2>3. \A i \in 1 .. Len(ss) : ss[i] = open[k]
    BY <1>2
  <2> QED
    BY <1>1, <2>1, <2>2, <2>3
<1>5. /\ reader' \in [Readers -> {"off", "reading", "flushing", "done"}]
      /\ open' \in [Keys -> Seq(Nat)] /\ hand' \in [Readers -> Seq(Entry)]
  <2>1. <<>> \in Seq(Nat)
    OBVIOUS
  <2> QED
    BY <1>1, <1>2, <1>3, <1>4, <2>1
<1>6. \A j \in Keys : Fits(open'[j], Len(lines))
  BY <1>1, <1>2 DEF Fits
<1>7. \A q \in Readers : \A i \in DOMAIN hand'[q] : Fits(hand'[q][i].lines, Len(lines))
  BY <1>1, <1>3, <1>4
<1>8. AddsHead'
  <2>1. adding' = adding
    BY <1>2 DEF ringVars
  <2>2. AddsHead
    BY DEF Typed
  <2> QED
    BY <1>1, <1>2, <1>3, <2>1, <2>2 DEF AddsHead
<1>9. TypeOK'
  BY <1>1, <1>2, <1>5, PathTypes DEF TypeOK
<1>10. Len(lines') <= MaxLines /\ lines' = lines
  BY <1>2 DEF Typed
<1> QED
  BY <1>6, <1>7, <1>8, <1>9, <1>10 DEF Typed

LEMMA StoringTyped ==
  ASSUME Typed, RingTypeOK', NEW r \in Readers, Storing(r)
  PROVE  Typed'
<1> DEFINE k == KeyOf[r]
<1>1. /\ k \in Keys /\ hand \in [Readers -> Seq(Entry)] /\ stored \in [Keys -> Seq(Nat)]
      /\ \A q \in Readers : \A i \in DOMAIN hand[q] : Fits(hand[q][i].lines, Len(lines))
      /\ hand[r] \in Seq(Entry) /\ hand[r] # <<>>
  BY DEF Typed, TypeOK, Keys, Storing
<1>2. /\ hand' = [hand EXCEPT ![r] = Tail(hand[r])]
      /\ stored' = [stored EXCEPT ![k] = stored[k] \o hand[r][1].lines]
      /\ UNCHANGED <<lines, reader, open, mixed>> /\ adding' = <<>>
  BY DEF Storing, FinishAppend
<1>3. /\ Tail(hand[r]) \in Seq(Entry)
      /\ DOMAIN Tail(hand[r]) = 1 .. (Len(hand[r]) - 1)
      /\ DOMAIN hand[r] = 1 .. Len(hand[r]) /\ Len(hand[r]) \in Nat \ {0}
      /\ \A i \in 1 .. (Len(hand[r]) - 1) : Tail(hand[r])[i] = hand[r][i + 1]
  BY <1>1
<1>4. hand[r][1].lines \in Seq(Nat)
  BY <1>1, <1>3 DEF Fits
<1>5. hand' \in [Readers -> Seq(Entry)] /\ stored' \in [Keys -> Seq(Nat)]
  <2>1. stored[k] \o hand[r][1].lines \in Seq(Nat)
    BY <1>1, <1>4
  <2> QED
    BY <1>1, <1>2, <1>3, <2>1
<1>6. \A q \in Readers : \A i \in DOMAIN hand'[q] : Fits(hand'[q][i].lines, Len(lines))
  <2> TAKE q \in Readers
  <2>1. CASE q # r
    BY <1>1, <1>2, <2>1
  <2>2. CASE q = r
    <3>1. hand'[q] = Tail(hand[r])
      BY <1>1, <1>2, <2>2
    <3>2. \A i \in 1 .. (Len(hand[r]) - 1) : Fits(hand[r][i + 1].lines, Len(lines))
      BY <1>1, <1>3
    <3> QED
      BY <1>3, <3>1, <3>2
  <2> QED
    BY <2>1, <2>2
<1>7. TypeOK'
  BY <1>2, <1>5 DEF Typed, TypeOK
<1> QED
  BY <1>2, <1>6, <1>7 DEF Typed, AddsHead
\* A step of the readers is a step of the buffer, or leaves it alone.
LEMMA StepOfRing ==
  ASSUME Typed, [Next]_allVars
  PROVE  [RingNext]_ringVars
<1>1. ASSUME NEW r \in Readers, ReaderAppends(r)
      PROVE  RingNext
  <2>1. hand[r] \in Seq(Entry) /\ hand[r] # <<>> /\ r \in Appenders
    BY <1>1, InputAssumption, PathTypes DEF ReaderAppends
  <2>2. Head(hand[r]) \in Entry
    BY <2>1
  <2> QED
    BY <1>1, <2>1, <2>2 DEF ReaderAppends, RingNext
<1>2. ASSUME NEW r \in Readers,
             ReaderStarts(r) \/ ReaderReads(r) \/ ReaderEnds(r) \/ ReaderDone(r)
      PROVE  UNCHANGED ringVars
  BY <1>2 DEF ReaderStarts, ReaderReads, ReaderEnds, ReaderDone
<1>3. CASE Evicts \/ Appended \/ TimePasses
  BY <1>3 DEF Evicts, Appended, TimePasses, RingNext
<1>4. CASE UNCHANGED allVars
  BY <1>4 DEF allVars
<1> QED
  BY <1>1, <1>2, <1>3, <1>4 DEF Next

\* Steps that touch neither lines nor hands nor what is open.
Elsewhere == /\ UNCHANGED <<lines, hand, open, stored>>
             /\ reader' \in [Readers -> {"off", "reading", "flushing", "done"}]
             /\ mixed \subseteq mixed' /\ mixed' \subseteq Keys
             /\ AddsHead'

LEMMA ElsewhereTyped ==
  ASSUME Typed, RingTypeOK', Elsewhere
  PROVE  Typed'
BY DEF Elsewhere, Typed, TypeOK

LEMMA AddsUnchanged ==
  ASSUME AddsHead, UNCHANGED <<adding, hand>>
  PROVE  AddsHead'
BY DEF AddsHead

\* Each step is one of four kinds.
LEMMA FourKinds ==
  ASSUME Typed, [Next]_allVars
  PROVE  \/ \E r \in Readers, kind \in Kinds :
              \E ss \in {<<>>, <<<<Len(lines) + 1>>>>, <<Append(open[KeyOf[r]], Len(lines) + 1)>>,
                         <<open[KeyOf[r]]>>, <<open[KeyOf[r]], <<Len(lines) + 1>>>>} :
                Reading(r, kind, ss)
         \/ \E r \in Readers : \E ss \in {<<>>, <<open[KeyOf[r]]>>} : Ending(r, ss)
         \/ \E r \in Readers : Storing(r)
         \/ Elsewhere
<1>1. ASSUME NEW r \in Readers, ReaderAppends(r)
      PROVE  Elsewhere
  <2>1. /\ BeginAppend(r, Head(hand[r])) /\ UNCHANGED pathVars /\ hand[r] # <<>>
    BY <1>1 DEF ReaderAppends
  <2>2. adding'[1].by = r /\ adding'[1].entry = Head(hand[r])
    BY <2>1 DEF BeginAppend
  <2>3. AddsHead'
    BY <2>1, <2>2 DEF AddsHead, pathVars
  <2> QED
    BY <2>1, <2>3, PathTypes DEF Elsewhere, pathVars
<1>2. ASSUME NEW r \in Readers, ReaderStarts(r) \/ ReaderDone(r)
      PROVE  Elsewhere
  <2>1. UNCHANGED <<ringVars, lines, hand, open, stored>>
    BY <1>2 DEF ReaderStarts, ReaderDone
  <2>2. /\ reader' \in [Readers -> {"off", "reading", "flushing", "done"}]
        /\ mixed \subseteq mixed' /\ mixed' \subseteq Keys
    BY <1>2, PathTypes DEF ReaderStarts, ReaderDone, Keys
  <2>3. AddsHead'
    BY <2>1, AddsUnchanged DEF ringVars, Typed
  <2> QED
    BY <2>1, <2>2, <2>3 DEF Elsewhere
<1>3. CASE Evicts \/ TimePasses \/ UNCHANGED allVars
  <2>1. UNCHANGED pathVars /\ UNCHANGED adding
    BY <1>3 DEF Evicts, EvictOldest, TimePasses, Tick, allVars, ringVars
  <2>2. AddsHead'
    BY <2>1, AddsUnchanged DEF pathVars, Typed
  <2> QED
    BY <2>1, <2>2, PathTypes DEF Elsewhere, pathVars
<1>4. CASE Appended
  BY <1>4, Stores
<1>5. ASSUME NEW r \in Readers, ReaderReads(r) \/ ReaderEnds(r)
      PROVE  \/ \E kind \in Kinds :
                  \E ss \in {<<>>, <<<<Len(lines) + 1>>>>, <<Append(open[KeyOf[r]], Len(lines) + 1)>>,
                             <<open[KeyOf[r]]>>, <<open[KeyOf[r]], <<Len(lines) + 1>>>>} :
                    Reading(r, kind, ss)
             \/ \E ss \in {<<>>, <<open[KeyOf[r]]>>} : Ending(r, ss)
  BY <1>5, Reads, Ends
<1> QED
  BY <1>1, <1>2, <1>3, <1>4, <1>5 DEF Next

LEMMA TypedStep ==
  ASSUME RingInv, Typed, [Next]_allVars
  PROVE  RingInv' /\ Typed'
<1>1. RingInv'
  BY StepOfRing, RingStepKeeps
<1>2. RingTypeOK'
  BY <1>1 DEF RingInv
<1>3. Typed'
  BY <1>2, FourKinds, ReadingTyped, EndingTyped, StoringTyped, ElsewhereTyped
<1> QED
  BY <1>1, <1>3

LEMMA TypedInit == Init => RingInv /\ Typed
<1> SUFFICES ASSUME Init PROVE RingInv /\ Typed
  OBVIOUS
<1>1. RingInv
  BY RingStarts DEF Init
<1>2. lines = <<>> /\ Len(lines) = 0 /\ adding = <<>>
  BY DEF Init, PathInit, RingInit
<1>3. \A k \in Keys : open[k] = <<>> /\ Fits(<<>>, 0)
  BY DEF Init, PathInit, Fits
<1>4. \A r \in Readers : hand[r] = <<>>
  BY DEF Init, PathInit
<1>5. TypeOK
  <2>1. <<>> \in Seq(Nat) /\ <<>> \in Seq(Entry) /\ <<>> \in Seq(Line)
    OBVIOUS
  <2> QED
    BY <1>1, <2>1 DEF Init, PathInit, TypeOK, RingInv
<1> QED
  BY <1>1, <1>2, <1>3, <1>4, <1>5, LinesAssumption DEF Typed, AddsHead

LEMMA AlwaysTyped == Spec => [](RingInv /\ Typed)
BY TypedInit, TypedStep, PTL DEF Spec

\* With any number of readers in front of it, Append (ringbuffer.go:63) keeps
\* the buffer within its limits, and size and index those of its entries.
THEOREM PathKeepsRing == Spec => []RingInv
BY AlwaysTyped, PTL

\* Seen from the buffer, the readers are no more than callers of Append
\* (ringbuffer.go:63): whatever they read, and however they interleave, each
\* entry is added under the lock, after all it evicts and nothing else.
THEOREM PathIsARing == Spec => RingSpec
<1>1. Init => RingInit
  BY DEF Init
<1>2. Typed /\ [Next]_allVars => [RingNext]_ringVars
  BY StepOfRing
<1> QED
  BY <1>1, <1>2, AlwaysTyped, PTL DEF Spec, RingSpec
-----------------------------------------------------------------------------
(* Who has entries in hand.                                                *)

Active == {"reading", "flushing"}

HandsInv ==
  /\ \A r \in Readers : hand[r] # <<>> => reader[r] \in Active
  /\ \A r, q \in Readers :
       KeyOf[r] = KeyOf[q] /\ KeyOf[r] \notin mixed /\ reader[r] \in Active /\ reader[q] \in Active
         => r = q
  /\ \A k \in Keys : open[k] # <<>> => \E r \in Readers : KeyOf[r] = k /\ reader[r] = "reading"

LEMMA HandsStep ==
  ASSUME Typed, HandsInv, [Next]_allVars
  PROVE  HandsInv'
<1>1. ASSUME NEW r \in Readers, NEW kind, NEW ss, Reading(r, kind, ss)
      PROVE  HandsInv'
  <2>1. /\ reader' = reader /\ mixed' = mixed /\ reader[r] = "reading"
        /\ open' = [open EXCEPT ![KeyOf[r]] = open'[KeyOf[r]]]
        /\ hand' = [hand EXCEPT ![r] = hand'[r]]
    BY <1>1 DEF Reading
  <2>2. \A q \in Readers : q # r => hand'[q] = hand[q]
    BY <2>1, PathTypes
  <2>3. \A k \in Keys : k # KeyOf[r] => open'[k] = open[k]
    BY <2>1, PathTypes
  <2> QED
    BY <2>1, <2>2, <2>3 DEF HandsInv, Active
<1>2. ASSUME NEW r \in Readers, NEW ss, Ending(r, ss)
      PROVE  HandsInv'
  <2>1. /\ reader' = [reader EXCEPT ![r] = "flushing"] /\ reader[r] = "reading" /\ mixed' = mixed
        /\ open' = [open EXCEPT ![KeyOf[r]] = <<>>]
        /\ hand' = [hand EXCEPT ![r] = hand'[r]]
    BY <1>2 DEF Ending
  <2>2. \A q \in Readers : q # r => hand'[q] = hand[q] /\ reader'[q] = reader[q]
    BY <2>1, PathTypes
  <2>3. reader'[r] = "flushing"
    BY <2>1, PathTypes
  <2>4. ASSUME NEW k \in Keys, open'[k] # <<>>
        PROVE  \E q \in Readers : KeyOf[q] = k /\ reader'[q] = "reading"
    <3>1. k # KeyOf[r] /\ open'[k] = open[k]
      BY <2>1, <2>4, PathTypes
    <3>2. PICK q \in Readers : KeyOf[q] = k /\ reader[q] = "reading"
      BY <2>4, <3>1 DEF HandsInv
    <3> QED
      BY <2>2, <3>1, <3>2
  <2> QED
    BY <2>1, <2>2, <2>3, <2>4 DEF HandsInv, Active
<1>3. ASSUME NEW r \in Readers, Storing(r)
      PROVE  HandsInv'
  <2>1. /\ UNCHANGED <<reader, open, mixed>> /\ hand[r] # <<>>
        /\ hand' = [hand EXCEPT ![r] = Tail(hand[r])]
    BY <1>3 DEF Storing
  <2>2. \A q \in Readers : q # r => hand'[q] = hand[q]
    BY <2>1, PathTypes
  <2> QED
    BY <2>1, <2>2 DEF HandsInv
<1>4. ASSUME NEW r \in Readers, ReaderStarts(r)
      PROVE  HandsInv'
  <2>1. /\ reader[r] = "off" /\ UNCHANGED <<hand, open>>
        /\ reader' = [reader EXCEPT ![r] = "reading"]
        /\ mixed' = IF Overlaps(r) THEN mixed \cup {KeyOf[r]} ELSE mixed
    BY <1>4 DEF ReaderStarts
  <2>2. reader'[r] = "reading" /\ \A q \in Readers : q # r => reader'[q] = reader[q]
    BY <2>1, PathTypes
  <2>3. ASSUME NEW p \in Readers, NEW q \in Readers, KeyOf[p] = KeyOf[q], KeyOf[p] \notin mixed',
               reader'[p] \in Active, reader'[q] \in Active
        PROVE  p = q
    <3>1. KeyOf[p] \notin mixed /\ (Overlaps(r) => KeyOf[p] # KeyOf[r])
      BY <2>1, <2>3
    <3>2. CASE p # r /\ q # r
      BY <2>2, <2>3, <3>1, <3>2 DEF HandsInv
    <3>3. CASE (p = r /\ q # r) \/ (p # r /\ q = r)
      <4>1. Overlaps(r)
        BY <2>2, <2>3, <3>3 DEF Overlaps, Active
      <4> QED
        BY <2>3, <3>1, <3>3, <4>1
    <3> QED
      BY <3>2, <3>3
  <2>4. \A k \in Keys : open'[k] # <<>> => \E q \in Readers : KeyOf[q] = k /\ reader'[q] = "reading"
    BY <2>1, <2>2 DEF HandsInv
  <2>5. \A q \in Readers : hand'[q] # <<>> => reader'[q] \in Active
    BY <2>1, <2>2 DEF HandsInv, Active
  <2> QED
    BY <2>3, <2>4, <2>5 DEF HandsInv
<1>5. ASSUME NEW r \in Readers, ReaderDone(r)
      PROVE  HandsInv'
  <2>1. /\ reader[r] = "flushing" /\ hand[r] = <<>> /\ UNCHANGED <<hand, open, mixed>>
        /\ reader' = [reader EXCEPT ![r] = "done"]
    BY <1>5 DEF ReaderDone
  <2>2. reader'[r] = "done" /\ \A q \in Readers : q # r => reader'[q] = reader[q]
    BY <2>1, PathTypes
  <2> QED
    BY <2>1, <2>2 DEF HandsInv, Active
<1>6. CASE UNCHANGED pathVars
  BY <1>6 DEF pathVars, HandsInv
<1>7. ASSUME NEW r \in Readers, ReaderReads(r) \/ ReaderEnds(r) \/ ReaderAppends(r)
      PROVE  HandsInv'
  BY <1>1, <1>2, <1>6, <1>7, Reads, Ends DEF ReaderAppends
<1>8. CASE Evicts \/ Appended \/ TimePasses \/ UNCHANGED allVars
  BY <1>3, <1>6, <1>8, Stores DEF Evicts, TimePasses, allVars
<1> QED
  BY <1>4, <1>5, <1>7, <1>8 DEF Next

LEMMA AlwaysHands == Spec => []HandsInv
<1>1. Init => HandsInv
  BY DEF Init, PathInit, HandsInv, Active
<1> QED
  BY <1>1, AlwaysTyped, HandsStep, PTL DEF Spec

-----------------------------------------------------------------------------
(* The order of the lines.                                                 *)

\* Line a of the stream k goes into the log ahead of line b, and is another.
Ahead(k, a, b) == a # b /\ (k \notin mixed => a < b)

Rising(s) == \A i, j \in 1 .. Len(s) : i < j => s[i] < s[j]

Sorted(k, s) == \A i, j \in 1 .. Len(s) : i < j => Ahead(k, s[i], s[j])

Before(k, s, u) == \A i \in 1 .. Len(s), j \in 1 .. Len(u) : Ahead(k, s[i], u[j])

Apart(s, u) == \A i \in 1 .. Len(s), j \in 1 .. Len(u) : s[i] # u[j]

Upto(s, n) == \A i \in 1 .. Len(s) : s[i] \in 1 .. n

\* What is in the log comes first, then what is in hand, then what is open.
StoredFlows ==
  \A k \in Keys : /\ Sorted(k, stored[k]) /\ Rising(open[k])
                  /\ Upto(stored[k], Len(lines))
                  /\ Before(k, stored[k], open[k])

HandFlows(r) ==
  \A i \in 1 .. Len(hand[r]) :
    /\ Rising(hand[r][i].lines)
    /\ Before(KeyOf[r], stored[KeyOf[r]], hand[r][i].lines)
    /\ Before(KeyOf[r], hand[r][i].lines, open[KeyOf[r]])
    /\ \A j \in 1 .. Len(hand[r]) : i < j => Before(KeyOf[r], hand[r][i].lines, hand[r][j].lines)

\* Two readers of one stream have different lines in hand.
HandsApart(r, q) ==
  KeyOf[r] = KeyOf[q] /\ r # q =>
    \A i \in 1 .. Len(hand[r]), j \in 1 .. Len(hand[q]) :
      Apart(hand[r][i].lines, hand[q][j].lines)

FlowInv == /\ StoredFlows
           /\ \A r \in Readers : HandFlows(r)
           /\ \A r, q \in Readers : HandsApart(r, q)

LEMMA GroupsInOrder ==
  ASSUME NEW n \in Nat, NEW s, Fits(s, n), NEW k, NEW t, Upto(t, n), Before(k, t, s)
  PROVE  \A u \in {<<>>, <<n + 1>>, s, Append(s, n + 1)} : Before(k, t, u)
<1>1. s \in Seq(Nat) /\ Len(s) \in Nat /\ (\A i \in 1 .. Len(s) : s[i] \in 1 .. n)
  BY DEF Fits
<1>2. /\ Append(s, n + 1) \in Seq(Nat) /\ Len(Append(s, n + 1)) = Len(s) + 1
      /\ \A i \in 1 .. Len(s) : Append(s, n + 1)[i] = s[i]
      /\ Append(s, n + 1)[Len(s) + 1] = n + 1
      /\ \A i \in 1 .. (Len(s) + 1) : i \in 1 .. Len(s) \/ i = Len(s) + 1
  BY <1>1
<1>3. \A i \in 1 .. Len(t) : Ahead(k, t[i], n + 1)
  BY DEF Upto, Ahead
<1>4. Before(k, t, <<n + 1>>)
  BY <1>3 DEF Before
<1>5. Before(k, t, Append(s, n + 1))
  BY <1>2, <1>3 DEF Before
<1>6. Before(k, t, <<>>)
  BY DEF Before
<1> QED
  BY <1>4, <1>5, <1>6

LEMMA GroupsRise ==
  ASSUME NEW n \in Nat, NEW s, Fits(s, n), Rising(s)
  PROVE  /\ \A u \in {<<>>, <<n + 1>>, s, Append(s, n + 1)} : Rising(u)
         /\ \A k : Before(k, s, <<n + 1>>)
<1>1. s \in Seq(Nat) /\ Len(s) \in Nat /\ (\A i \in 1 .. Len(s) : s[i] \in 1 .. n)
  BY DEF Fits
<1>2. Rising(<<>>) /\ Rising(<<n + 1>>)
  BY DEF Rising
<1>3. /\ Append(s, n + 1) \in Seq(Nat) /\ Len(Append(s, n + 1)) = Len(s) + 1
      /\ \A i \in 1 .. Len(s) : Append(s, n + 1)[i] = s[i]
      /\ Append(s, n + 1)[Len(s) + 1] = n + 1
      /\ \A i \in 1 .. (Len(s) + 1) : i \in 1 .. Len(s) \/ i = Len(s) + 1
  BY <1>1
<1>4. Rising(Append(s, n + 1))
  BY <1>1, <1>3 DEF Rising
<1>5. ASSUME NEW k PROVE Before(k, s, <<n + 1>>)
  BY <1>1 DEF Before, Ahead
<1> QED
  BY <1>2, <1>4, <1>5

LEMMA StoredStaysUpto ==
  ASSUME NEW n \in Nat, NEW s \in Seq(Nat), Upto(s, n)
  PROVE  Upto(s, n + 1)
BY DEF Upto

\* Lines that go ahead of one another are different lines.
LEMMA BeforeIsApart ==
  ASSUME NEW k, NEW s, NEW u, Before(k, s, u)
  PROVE  Apart(s, u) /\ Apart(u, s)
BY DEF Before, Apart, Ahead

\* Only the first of these looks at mixed.
LEMMA SameOrder ==
  ASSUME mixed \subseteq mixed'
  PROVE  \A k, s, u : /\ Before(k, s, u) => Before(k, s, u)'
                      /\ Sorted(k, s) => Sorted(k, s)'
BY DEF Before, Sorted, Ahead

LEMMA ReadingFlows ==
  ASSUME Typed, HandsInv, FlowInv, NEW r \in Readers, NEW kind, NEW ss, Reading(r, kind, ss)
  PROVE  FlowInv'
<1> DEFINE k == KeyOf[r]
           n == Len(lines)
           s == open[k]
           o == open'[k]
           t == stored[k]
           Groups == {<<>>, <<n + 1>>, s, Append(s, n + 1)}
<1>1. /\ n \in Nat /\ k \in Keys /\ open \in [Keys -> Seq(Nat)] /\ hand \in [Readers -> Seq(Entry)]
      /\ stored \in [Keys -> Seq(Nat)] /\ Fits(s, n)
  BY PathTypes DEF Keys
<1>2. /\ reader[r] = "reading" /\ hand[r] = <<>> /\ Len(lines') = n + 1 /\ stored' = stored
      /\ Grouped(s, n + 1, kind, o, ss)
  BY DEF Reading
<1>3. /\ open' = [open EXCEPT ![k] = o]
      /\ hand' = [hand EXCEPT ![r] = hand'[r]]
      /\ Len(hand'[r]) = Len(ss) /\ \A i \in 1 .. Len(ss) : hand'[r][i].lines = ss[i]
  BY DEF Reading, MadeOf
<1>4. /\ Sorted(k, t) /\ Rising(s) /\ Upto(t, n) /\ Before(k, t, s)
  BY <1>1 DEF FlowInv, StoredFlows
<1>5. /\ \A u \in Groups : Rising(u) /\ Before(k, t, u)
      /\ \A u : Before(k, u, <<>>)
      /\ Before(k, s, <<n + 1>>)
  <2>1. \A u : Before(k, u, <<>>)
    BY DEF Before
  <2> QED
    BY <1>1, <1>4, <2>1, GroupsInOrder, GroupsRise
<1>6. o \in Groups
  BY <1>2 DEF Grouped
<1>7. \A j, u, v : /\ Before(j, u, v) => Before(j, u, v)'
                   /\ Sorted(j, u) => Sorted(j, u)'
  <2>1. mixed' = mixed
    BY DEF Reading
  <2> QED
    BY <2>1, SameOrder
<1>8. StoredFlows'
  <2> SUFFICES ASSUME NEW j \in Keys
               PROVE  /\ Sorted(j, stored[j]) /\ Rising(open'[j])
                      /\ Upto(stored[j], n + 1)
                      /\ Before(j, stored[j], open'[j])
    BY <1>2, <1>7 DEF StoredFlows
  <2>1. Sorted(j, stored[j]) /\ Upto(stored[j], n + 1)
    BY <1>1, StoredStaysUpto DEF FlowInv, StoredFlows
  <2>2. CASE j = k
    BY <1>5, <1>6, <2>1, <2>2
  <2>3. CASE j # k
    <3>1. open'[j] = open[j]
      BY <1>1, <1>3, <2>3
    <3> QED
      BY <2>1, <3>1 DEF FlowInv, StoredFlows
  <2> QED
    BY <2>2, <2>3
<1>9. \A i \in 1 .. Len(ss) : ss[i] \in Groups
  <2> SUFFICES ASSUME NEW i \in 1 .. Len(ss) PROVE ss[i] \in Groups
    OBVIOUS
  <2>1. \/ ss = <<>>
        \/ \E u \in Groups : ss = <<u>>
        \/ ss = <<s, <<n + 1>>>>
    BY <1>2 DEF Grouped
  <2>2. CASE ss = <<>>
    <3>1. Len(ss) = 0
      BY <2>2
    <3> QED
      BY <3>1
  <2>3. ASSUME NEW u \in Groups, ss = <<u>> PROVE ss[i] \in Groups
    <3>1. Len(ss) = 1 /\ ss[1] = u /\ i = 1
      BY <2>3
    <3> QED
      BY <2>3, <3>1
  <2>4. CASE ss = <<s, <<n + 1>>>>
    <3>1. Len(ss) = 2 /\ ss[1] = s /\ ss[2] = <<n + 1>> /\ (i = 1 \/ i = 2)
      BY <2>4
    <3> QED
      BY <3>1
  <2> QED
    BY <2>1, <2>2, <2>3, <2>4
<1>10. HandFlows(r)'
  <2> SUFFICES ASSUME NEW i \in 1 .. Len(ss)
               PROVE  /\ Rising(ss[i]) /\ Before(k, t, ss[i]) /\ Before(k, ss[i], o)
                      /\ \A j \in 1 .. Len(ss) : i < j => Before(k, ss[i], ss[j])
    BY <1>2, <1>3, <1>7 DEF HandFlows
  <2>1. \/ ss = <<>>
        \/ o = <<>> /\ \E u : ss = <<u>>
        \/ o = <<>> /\ ss = <<s, <<n + 1>>>>
    BY <1>2 DEF Grouped
  <2>2. Rising(ss[i]) /\ Before(k, t, ss[i])
    BY <1>5, <1>9
  <2>3. CASE ss = <<>>
    <3>1. Len(ss) = 0
      BY <2>3
    <3> QED
      BY <3>1
  <2>4. ASSUME NEW u, ss = <<u>>, o = <<>>
        PROVE  Before(k, ss[i], o) /\ \A j \in 1 .. Len(ss) : ~(i < j)
    <3>1. Len(ss) = 1
      BY <2>4
    <3> QED
      BY <1>5, <2>4, <3>1
  <2>5. CASE o = <<>> /\ ss = <<s, <<n + 1>>>>
    <3>1. Len(ss) = 2 /\ ss[1] = s /\ ss[2] = <<n + 1>>
      BY <2>5
    <3>2. \A j \in 1 .. Len(ss) : i < j => i = 1 /\ j = 2
      BY <3>1
    <3>3. Before(k, ss[i], o)
      BY <1>5, <2>5
    <3> QED
      BY <1>5, <2>2, <3>1, <3>2, <3>3
  <2> QED
    BY <2>1, <2>2, <2>3, <2>4, <2>5
<1>11. \A q \in Readers : q # r => hand'[q] = hand[q]
  BY <1>1, <1>3
<1>12. ASSUME NEW q \in Readers, q # r, KeyOf[q] = k, NEW i \in 1 .. Len(hand[q]), NEW u \in Groups
       PROVE  Before(k, hand[q][i].lines, u)
  <2>1. PICK v : v = hand[q][i].lines
    OBVIOUS
  <2>2. Before(k, v, s)
    BY <1>12, <2>1 DEF FlowInv, HandFlows
  <2>3. Fits(v, n)
    BY <1>1, <2>1, PathTypes
  <2>4. Upto(v, n)
    BY <2>3 DEF Fits, Upto
  <2>5. \A w \in Groups : Before(k, v, w)
    BY <1>1, <2>2, <2>4, GroupsInOrder
  <2> QED
    BY <2>1, <2>5
<1>13. ASSUME NEW q \in Readers, q # r
       PROVE  HandFlows(q)'
  <2>1. hand'[q] = hand[q] /\ HandFlows(q)
    BY <1>11, <1>13 DEF FlowInv
  <2>2. CASE KeyOf[q] = k
    <3>1. \A i \in 1 .. Len(hand[q]) : Before(KeyOf[q], hand[q][i].lines, open'[KeyOf[q]])
      BY <1>6, <1>12, <1>13, <2>2
    <3> QED
      BY <1>2, <1>7, <2>1, <3>1 DEF HandFlows
  <2>3. CASE KeyOf[q] # k
    <3>1. open'[KeyOf[q]] = open[KeyOf[q]]
      BY <1>1, <1>3, <2>3 DEF Keys
    <3> QED
      BY <1>2, <1>7, <2>1, <3>1 DEF HandFlows
  <2> QED
    BY <2>2, <2>3
<1>14. ASSUME NEW p \in Readers, NEW q \in Readers
       PROVE  HandsApart(p, q)'
  <2> SUFFICES ASSUME KeyOf[p] = KeyOf[q], p # q, NEW i \in 1 .. Len(hand'[p]),
                      NEW j \in 1 .. Len(hand'[q])
               PROVE  Apart(hand'[p][i].lines, hand'[q][j].lines)
    BY DEF HandsApart
  <2>1. CASE p = r
    <3>1. hand'[p][i].lines \in Groups /\ hand'[q] = hand[q]
      BY <1>3, <1>9, <1>11, <2>1
    <3> QED
      BY <1>12, <2>1, <3>1, BeforeIsApart
  <2>2. CASE q = r
    <3>1. hand'[q][j].lines \in Groups /\ hand'[p] = hand[p]
      BY <1>3, <1>9, <1>11, <2>2
    <3> QED
      BY <1>12, <2>2, <3>1, BeforeIsApart
  <2>3. CASE p # r /\ q # r
    BY <1>11, <2>3 DEF FlowInv, HandsApart
  <2> QED
    BY <2>1, <2>2, <2>3
<1> QED
  BY <1>8, <1>10, <1>13, <1>14 DEF FlowInv

LEMMA EndingFlows ==
  ASSUME Typed, HandsInv, FlowInv, NEW r \in Readers, NEW ss, Ending(r, ss)
  PROVE  FlowInv'
<1> DEFINE k == KeyOf[r]
           s == open[k]
           t == stored[k]
<1>1. /\ k \in Keys /\ open \in [Keys -> Seq(Nat)] /\ hand \in [Readers -> Seq(Entry)]
  BY PathTypes DEF Keys
<1>2. /\ reader[r] = "reading" /\ hand[r] = <<>> /\ UNCHANGED <<lines, stored, mixed>>
      /\ open' = [open EXCEPT ![k] = <<>>]
      /\ ss = <<>> \/ ss = <<s>>
  BY DEF Ending
<1>3. /\ hand' = [hand EXCEPT ![r] = hand'[r]]
      /\ Len(hand'[r]) = Len(ss) /\ \A i \in 1 .. Len(ss) : hand'[r][i].lines = ss[i]
  BY DEF Ending, MadeOf
<1>4. Rising(<<>>) /\ \A j, u : Before(j, u, <<>>)
  BY DEF Rising, Before
<1>5. \A j, u, v : /\ Before(j, u, v) => Before(j, u, v)'
                   /\ Sorted(j, u) => Sorted(j, u)'
  BY <1>2, SameOrder
<1>6. StoredFlows'
  BY <1>1, <1>2, <1>4, <1>5 DEF FlowInv, StoredFlows
<1>7. \A i \in 1 .. Len(ss) : ss[i] = s
  <2>1. CASE ss = <<>>
    BY <2>1
  <2>2. CASE ss = <<s>>
    BY <2>2
  <2> QED
    BY <1>2, <2>1, <2>2
<1>8. HandFlows(r)'
  <2>1. Rising(s) /\ Before(k, t, s) /\ open'[k] = <<>>
    BY <1>1, <1>2 DEF FlowInv, StoredFlows
  <2>2. ASSUME NEW i \in 1 .. Len(ss)
        PROVE  /\ Rising(ss[i]) /\ Before(k, t, ss[i]) /\ Before(k, ss[i], <<>>)
               /\ \A j \in 1 .. Len(ss) : ~(i < j)
    <3>1. Len(ss) \in {0, 1}
      BY <1>2
    <3> QED
      BY <1>4, <1>7, <2>1, <3>1
  <2> QED
    BY <1>2, <1>3, <1>5, <2>1, <2>2 DEF HandFlows
<1>9. \A q \in Readers : q # r => hand'[q] = hand[q]
  BY <1>1, <1>3
<1>10. ASSUME NEW q \in Readers, q # r
       PROVE  HandFlows(q)'
  <2>1. hand'[q] = hand[q] /\ stored' = stored /\ KeyOf[q] \in Keys
    BY <1>2, <1>9, <1>10 DEF Keys
  <2>2. open'[KeyOf[q]] = open[KeyOf[q]] \/ open'[KeyOf[q]] = <<>>
    BY <1>1, <1>2, <2>1
  <2>3. HandFlows(q)
    BY DEF FlowInv
  <2> QED
    BY <1>4, <1>5, <2>1, <2>2, <2>3 DEF HandFlows
<1>11. ASSUME NEW q \in Readers, q # r, KeyOf[q] = k, NEW i \in 1 .. Len(hand[q])
       PROVE  Apart(hand[q][i].lines, s) /\ Apart(s, hand[q][i].lines)
  BY <1>11, BeforeIsApart DEF FlowInv, HandFlows
<1>12. ASSUME NEW p \in Readers, NEW q \in Readers
       PROVE  HandsApart(p, q)'
  <2> SUFFICES ASSUME KeyOf[p] = KeyOf[q], p # q, NEW i \in 1 .. Len(hand'[p]),
                      NEW j \in 1 .. Len(hand'[q])
               PROVE  Apart(hand'[p][i].lines, hand'[q][j].lines)
    BY DEF HandsApart
  <2>1. CASE p = r
    <3>1. hand'[p][i].lines = s /\ hand'[q] = hand[q]
      BY <1>3, <1>7, <1>9, <2>1
    <3> QED
      BY <1>11, <2>1, <3>1
  <2>2. CASE q = r
    <3>1. hand'[q][j].lines = s /\ hand'[p] = hand[p]
      BY <1>3, <1>7, <1>9, <2>2
    <3> QED
      BY <1>11, <2>2, <3>1
  <2>3. CASE p # r /\ q # r
    BY <1>9, <2>3 DEF FlowInv, HandsApart
  <2> QED
    BY <2>1, <2>2, <2>3
<1> QED
  BY <1>6, <1>8, <1>10, <1>12 DEF FlowInv

LEMMA JoinInOrder ==
  ASSUME NEW k, NEW t \in Seq(Nat), NEW s \in Seq(Nat), Sorted(k, t), Rising(s), Before(k, t, s)
  PROVE  /\ Sorted(k, t \o s)
         /\ \A u : Before(k, t, u) /\ Before(k, s, u) => Before(k, t \o s, u)
         /\ \A n \in Nat : Upto(t, n) /\ Upto(s, n) => Upto(t \o s, n)
<1>1. /\ Len(t) \in Nat /\ Len(s) \in Nat /\ Len(t \o s) = Len(t) + Len(s)
      /\ \A i \in 1 .. Len(t) : (t \o s)[i] = t[i]
      /\ \A i \in 1 .. Len(t \o s) :
           i \notin 1 .. Len(t) => /\ i - Len(t) \in 1 .. Len(s)
                                   /\ (t \o s)[i] = s[i - Len(t)]
  OBVIOUS
<1>2. Sorted(k, s)
  BY DEF Sorted, Rising, Ahead
<1>3. Sorted(k, t \o s)
  <2> SUFFICES ASSUME NEW i \in 1 .. Len(t \o s), NEW j \in 1 .. Len(t \o s), i < j
               PROVE  Ahead(k, (t \o s)[i], (t \o s)[j])
    BY DEF Sorted
  <2>1. CASE j \in 1 .. Len(t)
    <3>1. i \in 1 .. Len(t)
      BY <1>1, <2>1
    <3> QED
      BY <1>1, <2>1, <3>1 DEF Sorted
  <2>2. CASE j \notin 1 .. Len(t) /\ i \in 1 .. Len(t)
    BY <1>1, <2>2 DEF Before
  <2>3. CASE j \notin 1 .. Len(t) /\ i \notin 1 .. Len(t)
    <3>1. i - Len(t) \in 1 .. Len(s) /\ j - Len(t) \in 1 .. Len(s) /\ i - Len(t) < j - Len(t)
      BY <1>1, <2>3
    <3> QED
      BY <1>1, <1>2, <2>3, <3>1 DEF Sorted
  <2> QED
    BY <2>1, <2>2, <2>3
<1>4. ASSUME NEW u, Before(k, t, u), Before(k, s, u)
      PROVE  Before(k, t \o s, u)
  BY <1>1, <1>4 DEF Before
<1>5. ASSUME NEW n \in Nat, Upto(t, n), Upto(s, n)
      PROVE  Upto(t \o s, n)
  BY <1>1, <1>5 DEF Upto
<1> QED
  BY <1>3, <1>4, <1>5

LEMMA StoringFlows ==
  ASSUME Typed, HandsInv, FlowInv, NEW r \in Readers, Storing(r)
  PROVE  FlowInv'
<1> DEFINE k == KeyOf[r]
           s == hand[r][1].lines
           t == stored[k]
           n == Len(hand[r])
<1>1. /\ k \in Keys /\ open \in [Keys -> Seq(Nat)] /\ hand \in [Readers -> Seq(Entry)]
      /\ stored \in [Keys -> Seq(Nat)] /\ Len(lines) \in Nat
      /\ hand[r] \in Seq(Entry) /\ hand[r] # <<>>
  BY PathTypes DEF Keys, Storing
<1>2. /\ hand' = [hand EXCEPT ![r] = Tail(hand[r])]
      /\ stored' = [stored EXCEPT ![k] = t \o s]
      /\ UNCHANGED <<lines, open, mixed>>
  BY DEF Storing
<1>3. n \in Nat \ {0} /\ 1 \in 1 .. n /\ DOMAIN hand[r] = 1 .. n
  BY <1>1
<1>4. Fits(s, Len(lines))
  BY <1>3, PathTypes
<1>5. s \in Seq(Nat) /\ Upto(s, Len(lines))
  BY <1>4 DEF Fits, Upto
<1>6. /\ Rising(s) /\ Before(k, t, s) /\ Before(k, s, open[k])
      /\ \A j \in 1 .. n : 1 < j => Before(k, s, hand[r][j].lines)
  BY <1>3 DEF FlowInv, HandFlows
<1>7. Sorted(k, t) /\ Upto(t, Len(lines)) /\ Before(k, t, open[k])
  BY <1>1 DEF FlowInv, StoredFlows
<1>8. /\ Sorted(k, t \o s) /\ Upto(t \o s, Len(lines))
      /\ \A u : Before(k, t, u) /\ Before(k, s, u) => Before(k, t \o s, u)
  BY <1>1, <1>5, <1>6, <1>7, JoinInOrder
<1>9. \A j, u, v : /\ Before(j, u, v) => Before(j, u, v)'
                   /\ Sorted(j, u) => Sorted(j, u)'
  BY <1>2, SameOrder
<1>10. StoredFlows'
  <2> SUFFICES ASSUME NEW j \in Keys
               PROVE  /\ Sorted(j, stored'[j]) /\ Rising(open[j])
                      /\ Upto(stored'[j], Len(lines))
                      /\ Before(j, stored'[j], open[j])
    BY <1>2, <1>9 DEF StoredFlows
  <2>1. CASE j = k
    BY <1>1, <1>2, <1>6, <1>7, <1>8, <2>1 DEF FlowInv, StoredFlows
  <2>2. CASE j # k
    BY <1>1, <1>2, <2>2 DEF FlowInv, StoredFlows
  <2> QED
    BY <2>1, <2>2
<1>11. /\ hand'[r] = Tail(hand[r]) /\ Len(hand'[r]) = n - 1 /\ stored'[k] = t \o s
       /\ \A i \in 1 .. (n - 1) : hand'[r][i] = hand[r][i + 1]
  <2>1. hand'[r] = Tail(hand[r]) /\ stored'[k] = t \o s
    BY <1>1, <1>2
  <2>2. /\ Len(Tail(hand[r])) = n - 1
        /\ \A i \in 1 .. (n - 1) : Tail(hand[r])[i] = hand[r][i + 1]
    BY <1>1, <1>3
  <2> QED
    BY <2>1, <2>2
<1>12. HandFlows(r)'
  <2>1. ASSUME NEW i \in 1 .. (n - 1)
        PROVE  LET u == hand'[r][i].lines
               IN /\ Rising(u) /\ Before(k, t \o s, u) /\ Before(k, u, open[k])
                  /\ \A j \in 1 .. (n - 1) : i < j => Before(k, u, hand'[r][j].lines)
    <3> DEFINE u == hand[r][i + 1].lines
    <3>1. i + 1 \in 1 .. n /\ 1 < i + 1 /\ \A j \in 1 .. (n - 1) : j + 1 \in 1 .. n
      BY <1>3
    <3>2. /\ Rising(u) /\ Before(k, t, u) /\ Before(k, u, open[k])
          /\ \A j \in 1 .. n : i + 1 < j => Before(k, u, hand[r][j].lines)
      BY <3>1 DEF FlowInv, HandFlows
    <3>3. Before(k, s, u)
      BY <1>6, <3>1
    <3>4. \A j \in 1 .. (n - 1) : i < j => Before(k, u, hand'[r][j].lines)
      BY <1>3, <1>11, <3>1, <3>2
    <3> QED
      BY <1>8, <1>11, <3>2, <3>3, <3>4
  <2> QED
    BY <1>2, <1>9, <1>11, <2>1 DEF HandFlows
<1>13. \A q \in Readers : q # r => hand'[q] = hand[q]
  BY <1>1, <1>2
<1>14. ASSUME NEW q \in Readers, q # r
       PROVE  HandFlows(q)'
  <2>1. hand'[q] = hand[q] /\ HandFlows(q)
    BY <1>13, <1>14 DEF FlowInv
  <2>2. CASE KeyOf[q] # k
    <3>1. stored'[KeyOf[q]] = stored[KeyOf[q]]
      BY <1>1, <1>2, <2>2 DEF Keys
    <3> QED
      BY <1>2, <1>9, <2>1, <3>1 DEF HandFlows
  <2>3. CASE KeyOf[q] = k
    <3>1. ASSUME NEW i \in 1 .. Len(hand[q])
          PROVE  Before(k, t \o s, hand[q][i].lines)
      <4>1. Apart(s, hand[q][i].lines)
        BY <1>3, <1>14, <2>3, <3>1 DEF FlowInv, HandsApart
      <4>2. k \in mixed
        <5>1. hand[q] # <<>>
          BY <3>1
        <5> QED
          BY <1>1, <1>14, <2>3, <5>1 DEF HandsInv
      <4>3. Before(k, s, hand[q][i].lines)
        BY <4>1, <4>2 DEF Before, Apart, Ahead
      <4>4. Before(k, t, hand[q][i].lines)
        BY <2>1, <2>3, <3>1 DEF HandFlows
      <4> QED
        BY <1>8, <4>3, <4>4
    <3> QED
      BY <1>2, <1>9, <1>11, <2>1, <2>3, <3>1 DEF HandFlows
  <2> QED
    BY <2>2, <2>3
<1>15. ASSUME NEW p \in Readers, NEW q \in Readers
       PROVE  HandsApart(p, q)'
  <2> SUFFICES ASSUME KeyOf[p] = KeyOf[q], p # q, NEW i \in 1 .. Len(hand'[p]),
                      NEW j \in 1 .. Len(hand'[q])
               PROVE  Apart(hand'[p][i].lines, hand'[q][j].lines)
    BY DEF HandsApart
  <2>1. ASSUME NEW x \in Readers, NEW y \in 1 .. Len(hand'[x])
        PROVE  \E z \in 1 .. Len(hand[x]) : hand'[x][y] = hand[x][z]
    <3>1. CASE x = r
      <4>1. y \in 1 .. (n - 1)
        BY <1>11, <2>1, <3>1
      <4>2. y + 1 \in 1 .. n
        BY <1>3, <4>1
      <4>3. hand'[x][y] = hand[x][y + 1]
        BY <1>11, <3>1, <4>1
      <4> QED
        BY <3>1, <4>2, <4>3
    <3>2. CASE x # r
      BY <1>13, <2>1, <3>2
    <3> QED
      BY <3>1, <3>2
  <2>2. PICK a \in 1 .. Len(hand[p]) : hand'[p][i] = hand[p][a]
    BY <2>1
  <2>3. PICK b \in 1 .. Len(hand[q]) : hand'[q][j] = hand[q][b]
    BY <2>1
  <2>4. HandsApart(p, q)
    BY DEF FlowInv
  <2> QED
    BY <2>2, <2>3, <2>4 DEF HandsApart
<1> QED
  BY <1>10, <1>12, <1>14, <1>15 DEF FlowInv

LEMMA AlwaysFlows == Spec => []FlowInv
<1>1. Init => FlowInv
  <2> SUFFICES ASSUME Init PROVE FlowInv
    OBVIOUS
  <2>1. \A k \in Keys : open[k] = <<>> /\ stored[k] = <<>>
    BY DEF Init, PathInit
  <2>2. \A r \in Readers : hand[r] = <<>>
    BY DEF Init, PathInit
  <2> QED
    BY <2>1, <2>2 DEF FlowInv, StoredFlows, HandFlows, HandsApart, Rising, Sorted, Upto, Before
<1>2. Typed /\ HandsInv /\ FlowInv /\ [Next]_allVars => FlowInv'
  <2> SUFFICES ASSUME Typed, HandsInv, FlowInv, [Next]_allVars PROVE FlowInv'
    OBVIOUS
  <2>1. CASE Elsewhere
    <3>1. \A k, s, u : /\ Before(k, s, u) => Before(k, s, u)'
                       /\ Sorted(k, s) => Sorted(k, s)'
      BY <2>1, SameOrder DEF Elsewhere
    <3> QED
      BY <2>1, <3>1 DEF Elsewhere, FlowInv, StoredFlows, HandFlows, HandsApart
  <2> QED
    BY <2>1, FourKinds, ReadingFlows, EndingFlows, StoringFlows
<1> QED
  BY <1>1, <1>2, AlwaysTyped, AlwaysHands, PTL DEF Spec

\* captureStream (wrapper.go:267), the handlers of run() (main.go:643) and
\* appendEntries: every line reaches the log at most once, whichever readers
\* share its parsing state, and those of a stream in their order while one
\* reader at a time uses it.
THEOREM LinesInOrder == Spec => []StreamInOrder
<1>1. Typed /\ FlowInv => StreamInOrder
  <2> SUFFICES ASSUME Typed, FlowInv PROVE StreamInOrder
    OBVIOUS
  <2>1. \A k \in Keys : DOMAIN stored[k] = 1 .. Len(stored[k])
    BY PathTypes
  <2> QED
    BY <2>1 DEF FlowInv, StoredFlows, Sorted, Ahead, StreamInOrder
<1> QED
  BY <1>1, AlwaysTyped, AlwaysFlows, PTL
-----------------------------------------------------------------------------
(* That the lines arrive.                                                  *)

In(m, s) == \E i \in 1 .. Len(s) : s[i] = m

HasInHand(r, m) == \E i \in 1 .. Len(hand[r]) : In(m, hand[r][i].lines)

Somewhere(k, m) == \/ In(m, stored[k]) \/ In(m, open[k])
                   \/ \E r \in Readers : KeyOf[r] = k /\ HasInHand(r, m)

\* The lines that Parse may lose.
Excused(k, m) ==
  \/ lines[m].kind = "blank"
  \/ \E x \in 1 .. Len(lines) : x > m /\ KeyOf[lines[x].from] = k /\ lines[x].kind = "start"

KeptInv ==
  \A k \in Keys : \A m \in 1 .. Len(lines) :
    KeyOf[lines[m].from] = k => Somewhere(k, m) \/ Excused(k, m)

\* A line that is on the way, and nothing of it is left once its reader is done,
\* unless another has used its state too.
FromActive(k, m) == /\ lines[m].from \in Readers
                    /\ KeyOf[lines[m].from] = k
                    /\ k \in mixed \/ reader[lines[m].from] \in Active

OwnInv == /\ \A k \in Keys : \A m \in Nat : In(m, open[k]) => FromActive(k, m)
          /\ \A r \in Readers : \A m \in Nat : HasInHand(r, m) => FromActive(KeyOf[r], m)

LEMMA InConcat ==
  ASSUME NEW s \in Seq(Nat), NEW t \in Seq(Nat), NEW m
  PROVE  In(m, t \o s) <=> In(m, t) \/ In(m, s)
<1>1. /\ Len(t) \in Nat /\ Len(s) \in Nat /\ Len(t \o s) = Len(t) + Len(s)
      /\ \A i \in 1 .. Len(t) : (t \o s)[i] = t[i] /\ i \in 1 .. Len(t \o s)
      /\ \A i \in 1 .. Len(s) : (t \o s)[Len(t) + i] = s[i] /\ Len(t) + i \in 1 .. Len(t \o s)
      /\ \A i \in 1 .. Len(t \o s) :
           i \notin 1 .. Len(t) => /\ i - Len(t) \in 1 .. Len(s)
                                   /\ (t \o s)[i] = s[i - Len(t)]
  OBVIOUS
<1> QED
  BY <1>1 DEF In

LEMMA InAppend ==
  ASSUME NEW s \in Seq(Nat), NEW n \in Nat, NEW m
  PROVE  In(m, Append(s, n)) <=> In(m, s) \/ m = n
<1>1. /\ Len(s) \in Nat /\ Len(Append(s, n)) = Len(s) + 1
      /\ \A i \in 1 .. Len(s) : Append(s, n)[i] = s[i] /\ i \in 1 .. (Len(s) + 1)
      /\ Append(s, n)[Len(s) + 1] = n /\ Len(s) + 1 \in 1 .. (Len(s) + 1)
      /\ \A i \in 1 .. (Len(s) + 1) : i \in 1 .. Len(s) \/ i = Len(s) + 1
  OBVIOUS
<1> QED
  BY <1>1 DEF In

LEMMA InSmall ==
  ASSUME NEW m, NEW n
  PROVE  ~In(m, <<>>) /\ (In(m, <<n>>) <=> m = n)
BY DEF In

\* Grouping loses a line only if a traceback begins, or the line is blank; it
\* makes up none.
LEMMA GroupedKeeps ==
  ASSUME NEW s \in Seq(Nat), NEW n \in Nat, NEW kind, NEW o, NEW ss, Grouped(s, n, kind, o, ss)
  PROVE  /\ In(n, o) \/ (\E i \in 1 .. Len(ss) : In(n, ss[i])) \/ kind = "blank"
         /\ \A m : In(m, s) => \/ In(m, o) \/ (\E i \in 1 .. Len(ss) : In(m, ss[i]))
                               \/ kind = "start"
         /\ \A m : In(m, o) => In(m, s) \/ m = n
         /\ \A m : (\E i \in 1 .. Len(ss) : In(m, ss[i])) => In(m, s) \/ m = n
<1> DEFINE Part(m) == \E i \in 1 .. Len(ss) : In(m, ss[i])
<1>1. \A m : ~In(m, <<>>) /\ (In(m, <<n>>) <=> m = n) /\ (In(m, Append(s, n)) <=> In(m, s) \/ m = n)
  BY InSmall, InAppend
<1>2. CASE ss = <<>>
  <2>1. \A m : ~Part(m)
    BY <1>2
  <2>2. \/ kind = "start" /\ o = <<n>>
        \/ o = Append(s, n)
    BY <1>2 DEF Grouped
  <2> QED
    BY <1>1, <2>1, <2>2
<1>3. ASSUME NEW u, ss = <<u>>
      PROVE  \A m : Part(m) <=> In(m, u)
  <2>1. Len(ss) = 1 /\ ss[1] = u /\ \A i \in 1 .. 1 : i = 1
    BY <1>3
  <2> QED
    BY <2>1
<1>4. CASE kind # "start" /\ s = <<>> /\ o = <<>> /\ ss = <<<<n>>>>
  BY <1>1, <1>3, <1>4
<1>5. CASE kind = "exception" /\ o = <<>> /\ ss = <<Append(s, n)>>
  BY <1>1, <1>3, <1>5
<1>6. CASE kind = "blank" /\ o = <<>> /\ ss = <<s>>
  BY <1>1, <1>3, <1>6
<1>7. CASE o = <<>> /\ ss = <<s, <<n>>>>
  <2>1. Len(ss) = 2 /\ ss[1] = s /\ ss[2] = <<n>> /\ 1 \in 1 .. 2 /\ 2 \in 1 .. 2
        /\ \A i \in 1 .. 2 : i = 1 \/ i = 2
    BY <1>7
  <2>2. \A m : Part(m) <=> In(m, s) \/ In(m, <<n>>)
    BY <2>1
  <2> QED
    BY <1>1, <1>7, <2>2
<1> QED
  BY <1>2, <1>4, <1>5, <1>6, <1>7 DEF Grouped
LEMMA ReadingKeeps ==
  ASSUME Typed, HandsInv, KeptInv, OwnInv, NEW r \in Readers, NEW kind, NEW ss, Reading(r, kind, ss),
         NEW n, n = Len(lines) + 1
  PROVE  KeptInv' /\ OwnInv'
<1> DEFINE k == KeyOf[r]
           s == open[k]
           o == open'[k]
<1>1. /\ n \in Nat /\ Len(lines) \in Nat /\ k \in Keys /\ s \in Seq(Nat)
      /\ open \in [Keys -> Seq(Nat)] /\ hand \in [Readers -> Seq(Entry)]
  BY PathTypes DEF Keys
<1>2. /\ reader[r] = "reading" /\ reader' = reader /\ hand[r] = <<>>
      /\ stored' = stored /\ mixed' = mixed
      /\ Len(lines') = n /\ \A m \in 1 .. Len(lines) : lines'[m] = lines[m]
      /\ lines'[n].from = r /\ lines'[n].kind = kind
      /\ Grouped(s, n, kind, o, ss)
  BY DEF Reading
<1>3. /\ open' = [open EXCEPT ![k] = o]
      /\ hand' = [hand EXCEPT ![r] = hand'[r]]
      /\ Len(hand'[r]) = Len(ss) /\ \A i \in 1 .. Len(ss) : hand'[r][i].lines = ss[i]
  BY DEF Reading, MadeOf
<1>4. /\ In(n, o) \/ (\E i \in 1 .. Len(ss) : In(n, ss[i])) \/ kind = "blank"
      /\ \A m : In(m, s) => \/ In(m, o) \/ (\E i \in 1 .. Len(ss) : In(m, ss[i]))
                            \/ kind = "start"
      /\ \A m : In(m, o) => In(m, s) \/ m = n
      /\ \A m : (\E i \in 1 .. Len(ss) : In(m, ss[i])) => In(m, s) \/ m = n
  BY <1>1, <1>2, GroupedKeeps
<1>5. \A m : HasInHand(r, m)' <=> \E i \in 1 .. Len(ss) : In(m, ss[i])
  BY <1>3 DEF HasInHand
<1>6. \A m : ~HasInHand(r, m)
  BY <1>2 DEF HasInHand
<1>7. \A q \in Readers : \A m : q # r => (HasInHand(q, m)' <=> HasInHand(q, m))
  BY <1>1, <1>3 DEF HasInHand
<1>8. \A j \in Keys : j # k => open'[j] = open[j]
  BY <1>1, <1>3
<1>9. ASSUME NEW j \in Keys, NEW m \in 1 .. n, KeyOf[lines'[m].from] = j
      PROVE  Somewhere(j, m)' \/ Excused(j, m)'
  <2>1. CASE m = n
    <3>1. j = k
      BY <1>2, <1>9, <2>1
    <3>2. In(n, o) \/ HasInHand(r, n)' \/ lines'[n].kind = "blank"
      BY <1>2, <1>4, <1>5
    <3> QED
      BY <2>1, <3>1, <3>2 DEF Somewhere, Excused
  <2>2. CASE m # n
    <3>1. m \in 1 .. Len(lines) /\ KeyOf[lines[m].from] = j /\ m < n /\ lines'[m] = lines[m]
      <4>1. m \in 1 .. Len(lines) /\ m < n
        BY <1>1, <1>9, <2>2
      <4>2. lines'[m] = lines[m]
        BY <1>2, <4>1
      <4> QED
        BY <1>9, <4>1, <4>2
    <3>2. CASE Excused(j, m)
      <4>1. \A x \in 1 .. Len(lines) : x \in 1 .. n /\ lines'[x] = lines[x]
        BY <1>1, <1>2
      <4> QED
        BY <1>2, <3>1, <3>2, <4>1 DEF Excused
    <3>3. CASE In(m, stored[j])
      BY <1>2, <3>3 DEF Somewhere
    <3>4. CASE In(m, open[j])
      <4>1. CASE j # k
        BY <1>8, <3>4, <4>1 DEF Somewhere
      <4>2. CASE j = k
        <5>1. In(m, o) \/ HasInHand(r, m)' \/ kind = "start"
          BY <1>4, <1>5, <3>4, <4>2
        <5>2. CASE kind = "start"
          <6>1. n \in 1 .. Len(lines') /\ n > m /\ KeyOf[lines'[n].from] = j
            BY <1>1, <1>2, <3>1, <4>2
          <6> QED
            BY <1>2, <5>2, <6>1 DEF Excused
        <5> QED
          BY <4>2, <5>1, <5>2 DEF Somewhere
      <4> QED
        BY <4>1, <4>2
    <3>5. CASE \E q \in Readers : KeyOf[q] = j /\ HasInHand(q, m)
      BY <1>6, <1>7, <3>5 DEF Somewhere
    <3> QED
      BY <3>1, <3>2, <3>3, <3>4, <3>5 DEF KeptInv, Somewhere
  <2> QED
    BY <2>1, <2>2
<1>10. FromActive(k, n)'
  BY <1>2 DEF FromActive, Active
<1>11. ASSUME NEW j \in Keys, NEW m \in 1 .. Len(lines), FromActive(j, m)
       PROVE  FromActive(j, m)'
  BY <1>2, <1>11 DEF FromActive
<1>12. \A j \in Keys : \A m : In(m, open[j]) => m \in 1 .. Len(lines)
  BY PathTypes DEF In, Fits
<1>13. ASSUME NEW q \in Readers, NEW m, HasInHand(q, m)
       PROVE  m \in 1 .. Len(lines)
  <2>1. PICK i \in 1 .. Len(hand[q]) : In(m, hand[q][i].lines)
    BY <1>13 DEF HasInHand
  <2>2. Fits(hand[q][i].lines, Len(lines))
    BY <1>1, PathTypes
  <2> QED
    BY <2>1, <2>2 DEF In, Fits
<1>14. ASSUME NEW j \in Keys, NEW m \in Nat, In(m, open'[j])
       PROVE  FromActive(j, m)'
  <2>1. In(m, open[j]) \/ (j = k /\ m = n)
    BY <1>4, <1>8, <1>14
  <2> QED
    BY <1>10, <1>11, <1>12, <2>1 DEF OwnInv
<1>15. ASSUME NEW q \in Readers, NEW m \in Nat, HasInHand(q, m)'
       PROVE  FromActive(KeyOf[q], m)'
  <2>1. CASE q = r
    <3>1. In(m, s) \/ m = n
      BY <1>4, <1>5, <1>15, <2>1
    <3> QED
      BY <1>1, <1>10, <1>11, <1>12, <2>1, <3>1 DEF OwnInv
  <2>2. CASE q # r
    <3>1. HasInHand(q, m) /\ KeyOf[q] \in Keys
      BY <1>7, <1>15, <2>2 DEF Keys
    <3> QED
      BY <1>11, <1>13, <3>1 DEF OwnInv
  <2> QED
    BY <2>1, <2>2
<1> QED
  BY <1>2, <1>9, <1>14, <1>15 DEF KeptInv, OwnInv

LEMMA EndingKeeps ==
  ASSUME Typed, HandsInv, KeptInv, OwnInv, NEW r \in Readers, NEW ss, Ending(r, ss)
  PROVE  KeptInv' /\ OwnInv'
<1> DEFINE k == KeyOf[r]
           s == open[k]
<1>1. /\ k \in Keys /\ open \in [Keys -> Seq(Nat)] /\ hand \in [Readers -> Seq(Entry)]
      /\ reader \in [Readers -> {"off", "reading", "flushing", "done"}]
  BY PathTypes DEF Keys
<1>2. /\ hand[r] = <<>> /\ UNCHANGED <<lines, stored, mixed>>
      /\ reader[r] = "reading" /\ reader' = [reader EXCEPT ![r] = "flushing"]
      /\ open' = [open EXCEPT ![k] = <<>>]
      /\ (s = <<>> /\ ss = <<>>) \/ ss = <<s>>
  BY DEF Ending
<1>3. /\ hand' = [hand EXCEPT ![r] = hand'[r]]
      /\ Len(hand'[r]) = Len(ss) /\ \A i \in 1 .. Len(ss) : hand'[r][i].lines = ss[i]
  BY DEF Ending, MadeOf
<1>4. \A m : ~In(m, <<>>)
  BY InSmall
<1>5. \A m : HasInHand(r, m)' <=> In(m, s)
  <2>1. CASE s = <<>> /\ ss = <<>>
    BY <1>3, <1>4, <2>1 DEF HasInHand
  <2>2. CASE ss = <<s>>
    <3>1. Len(ss) = 1 /\ ss[1] = s /\ \A i \in 1 .. 1 : i = 1
      BY <2>2
    <3> QED
      BY <1>3, <3>1 DEF HasInHand
  <2> QED
    BY <1>2, <2>1, <2>2
<1>6. \A m : ~HasInHand(r, m)
  BY <1>2 DEF HasInHand
<1>7. \A q \in Readers : \A m : q # r => (HasInHand(q, m)' <=> HasInHand(q, m))
  BY <1>1, <1>3 DEF HasInHand
<1>8. \A j \in Keys : j # k => open'[j] = open[j]
  BY <1>1, <1>2
<1>9. open'[k] = <<>>
  BY <1>1, <1>2
<1>10. ASSUME NEW j \in Keys, NEW m
       PROVE  Somewhere(j, m) => Somewhere(j, m)'
  BY <1>2, <1>5, <1>6, <1>7, <1>8 DEF Somewhere
<1>11. ASSUME NEW j, NEW m
       PROVE  Excused(j, m) => Excused(j, m)'
  BY <1>2 DEF Excused
<1>12. KeptInv'
  BY <1>2, <1>10, <1>11 DEF KeptInv
<1>13. \A q \in Readers : reader[q] \in Active => reader'[q] \in Active
  BY <1>1, <1>2 DEF Active
<1>14. ASSUME NEW j, NEW m
       PROVE  FromActive(j, m) => FromActive(j, m)'
  BY <1>2, <1>13 DEF FromActive
<1>15. ASSUME NEW j \in Keys, NEW m \in Nat, In(m, open'[j])
       PROVE  FromActive(j, m)'
  BY <1>4, <1>8, <1>9, <1>14, <1>15 DEF OwnInv
<1>16. ASSUME NEW q \in Readers, NEW m \in Nat, HasInHand(q, m)'
       PROVE  FromActive(KeyOf[q], m)'
  <2>1. CASE q = r
    BY <1>1, <1>5, <1>14, <1>16, <2>1 DEF OwnInv
  <2>2. CASE q # r
    BY <1>7, <1>14, <1>16, <2>2 DEF OwnInv
  <2> QED
    BY <2>1, <2>2
<1> QED
  BY <1>12, <1>15, <1>16 DEF OwnInv

LEMMA StoringKeeps ==
  ASSUME Typed, HandsInv, KeptInv, OwnInv, NEW r \in Readers, Storing(r)
  PROVE  KeptInv' /\ OwnInv'
<1> DEFINE k == KeyOf[r]
           s == hand[r][1].lines
           n == Len(hand[r])
<1>1. /\ k \in Keys /\ hand \in [Readers -> Seq(Entry)] /\ hand[r] \in Seq(Entry) /\ hand[r] # <<>>
      /\ stored \in [Keys -> Seq(Nat)] /\ stored[k] \in Seq(Nat)
  BY PathTypes DEF Keys, Storing
<1>2. /\ hand' = [hand EXCEPT ![r] = Tail(hand[r])]
      /\ stored' = [stored EXCEPT ![k] = stored[k] \o s]
      /\ UNCHANGED <<lines, reader, open, mixed>>
  BY DEF Storing
<1>3. n \in Nat \ {0} /\ 1 \in 1 .. n /\ DOMAIN hand[r] = 1 .. n
  BY <1>1
<1>4. s \in Seq(Nat)
  BY <1>3, PathTypes DEF Fits
<1>5. hand'[r] = Tail(hand[r]) /\ stored'[k] = stored[k] \o s
  BY <1>1, <1>2
<1>6. /\ Len(Tail(hand[r])) = n - 1
      /\ \A i \in 1 .. (n - 1) : Tail(hand[r])[i] = hand[r][i + 1] /\ i + 1 \in 1 .. n
      /\ \A i \in 1 .. n : i # 1 => i - 1 \in 1 .. (n - 1) /\ (i - 1) + 1 = i
  BY <1>1, <1>3
<1>7. \A m : HasInHand(r, m)' => HasInHand(r, m)
  BY <1>5, <1>6 DEF HasInHand
<1>8. ASSUME NEW m, HasInHand(r, m)
      PROVE  HasInHand(r, m)' \/ In(m, s)
  <2>1. PICK i \in 1 .. n : In(m, hand[r][i].lines)
    BY <1>8 DEF HasInHand
  <2>2. CASE i = 1
    BY <2>1, <2>2
  <2>3. CASE i # 1
    <3>1. i - 1 \in 1 .. (n - 1) /\ hand'[r][i - 1] = hand[r][i]
      BY <1>5, <1>6, <2>3
    <3> QED
      BY <1>5, <1>6, <2>1, <3>1 DEF HasInHand
  <2> QED
    BY <2>2, <2>3
<1>9. \A q \in Readers : \A m : q # r => (HasInHand(q, m)' <=> HasInHand(q, m))
  BY <1>1, <1>2 DEF HasInHand
<1>10. \A m : In(m, stored'[k]) <=> In(m, stored[k]) \/ In(m, s)
  BY <1>1, <1>4, <1>5, InConcat
<1>11. \A j \in Keys : j # k => stored'[j] = stored[j]
  BY <1>1, <1>2
<1>12. ASSUME NEW j \in Keys, NEW m, Somewhere(j, m)
       PROVE  Somewhere(j, m)'
  <2>1. CASE In(m, stored[j])
    BY <1>10, <1>11, <2>1 DEF Somewhere
  <2>2. CASE In(m, open[j])
    BY <1>2, <2>2 DEF Somewhere
  <2>3. CASE \E q \in Readers : KeyOf[q] = j /\ HasInHand(q, m)
    BY <1>8, <1>9, <1>10, <2>3 DEF Somewhere
  <2> QED
    BY <1>12, <2>1, <2>2, <2>3 DEF Somewhere
<1>13. KeptInv'
  BY <1>2, <1>12 DEF KeptInv, Excused
<1>14. OwnInv'
  BY <1>2, <1>7, <1>9 DEF OwnInv, FromActive
<1> QED
  BY <1>13, <1>14
LEMMA ElsewhereKeeps ==
  ASSUME Typed, HandsInv, KeptInv, OwnInv, UNCHANGED <<lines, hand, open, stored>>,
         NEW r \in Readers, ReaderStarts(r) \/ ReaderDone(r)
  PROVE  KeptInv' /\ OwnInv'
<1>1. reader \in [Readers -> {"off", "reading", "flushing", "done"}]
  BY PathTypes
<1>2. KeptInv'
  BY DEF KeptInv, Somewhere, HasInHand, Excused
<1>3. CASE ReaderStarts(r)
  <2>1. \A q \in Readers : reader[q] \in Active => reader'[q] \in Active
    BY <1>1, <1>3 DEF ReaderStarts, Active
  <2>2. mixed \subseteq mixed'
    BY <1>3 DEF ReaderStarts
  <2> QED
    BY <1>2, <2>1, <2>2 DEF OwnInv, FromActive, HasInHand
<1>4. CASE ReaderDone(r)
  <2>1. /\ reader[r] = "flushing" /\ hand[r] = <<>> /\ mixed' = mixed
        /\ reader' = [reader EXCEPT ![r] = "done"]
    BY <1>4 DEF ReaderDone
  <2>2. ASSUME NEW k, NEW m, FromActive(k, m), lines[m].from # r \/ k \in mixed
        PROVE  FromActive(k, m)'
    BY <1>1, <2>1, <2>2 DEF FromActive
  <2>3. ASSUME NEW k \in Keys, NEW m \in Nat, In(m, open[k])
        PROVE  FromActive(k, m)'
    <3>1. FromActive(k, m)
      BY <2>3 DEF OwnInv
    <3>2. ASSUME lines[m].from = r, k \notin mixed PROVE FALSE
      <4>1. k = KeyOf[r]
        BY <3>1, <3>2 DEF FromActive
      <4>2. open[k] = <<>>
        BY <2>1, <3>2, <4>1 DEF HandsInv, Active
      <4> QED
        BY <2>3, <4>2, InSmall
    <3> QED
      BY <2>2, <3>1, <3>2
  <2>4. ASSUME NEW q \in Readers, NEW m \in Nat, HasInHand(q, m)
        PROVE  FromActive(KeyOf[q], m)'
    <3>1. FromActive(KeyOf[q], m)
      BY <2>4 DEF OwnInv
    <3>2. hand[q] # <<>>
      BY <2>4 DEF HasInHand
    <3>3. q # r
      BY <2>1, <3>2
    <3>4. ASSUME lines[m].from = r, KeyOf[q] \notin mixed PROVE FALSE
      <4>1. KeyOf[r] = KeyOf[q]
        BY <3>1, <3>4 DEF FromActive
      <4> QED
        BY <2>1, <3>2, <3>3, <3>4, <4>1 DEF HandsInv, Active
    <3> QED
      BY <2>2, <3>1, <3>4
  <2> QED
    BY <1>2, <2>3, <2>4 DEF OwnInv, HasInHand
<1> QED
  BY <1>3, <1>4

LEMMA KeptStep ==
  ASSUME Typed, HandsInv, KeptInv, OwnInv, [Next]_allVars
  PROVE  KeptInv' /\ OwnInv'
<1>1. ASSUME NEW r \in Readers, NEW kind, NEW ss, Reading(r, kind, ss)
      PROVE  KeptInv' /\ OwnInv'
  BY <1>1, ReadingKeeps
<1>2. ASSUME NEW r \in Readers, ReaderStarts(r) \/ ReaderDone(r)
      PROVE  KeptInv' /\ OwnInv'
  <2>1. UNCHANGED <<lines, hand, open, stored>>
    BY <1>2 DEF ReaderStarts, ReaderDone
  <2> QED
    BY <1>2, <2>1, ElsewhereKeeps
<1>3. CASE UNCHANGED pathVars
  BY <1>3 DEF pathVars, KeptInv, OwnInv, Somewhere, HasInHand, Excused, FromActive
<1>4. ASSUME NEW r \in Readers, ReaderReads(r) \/ ReaderEnds(r) \/ ReaderAppends(r)
      PROVE  KeptInv' /\ OwnInv'
  BY <1>1, <1>3, <1>4, Reads, Ends, EndingKeeps DEF ReaderAppends
<1>5. CASE Evicts \/ Appended \/ TimePasses \/ UNCHANGED allVars
  BY <1>3, <1>5, Stores, StoringKeeps DEF Evicts, TimePasses, allVars
<1> QED
  BY <1>2, <1>4, <1>5 DEF Next

LEMMA AlwaysKept == Spec => [](KeptInv /\ OwnInv)
<1>1. Init => KeptInv /\ OwnInv
  <2> SUFFICES ASSUME Init PROVE KeptInv /\ OwnInv
    OBVIOUS
  <2>1. Len(lines) = 0
    BY DEF Init, PathInit
  <2>2. \A k \in Keys : open[k] = <<>>
    BY DEF Init, PathInit
  <2>3. \A r \in Readers : hand[r] = <<>>
    BY DEF Init, PathInit
  <2> QED
    BY <2>1, <2>2, <2>3 DEF KeptInv, OwnInv, In, HasInHand
<1> QED
  BY <1>1, AlwaysTyped, AlwaysHands, KeptStep, PTL DEF Spec

\* The comment on Parse (python.go:52), as far as the code keeps it: every line
\* read is in the log or was, or is in hand, or in the parsing state, unless it
\* is blank or a traceback began within its own, however the readers overlap;
\* when all readers of a stream are done nothing of it is left on the way, and
\* when one is nothing of its own, unless another has overlapped with it.
THEOREM EveryLineArrives == Spec => []LinesArrive
<1>1. Typed /\ HandsInv /\ KeptInv /\ OwnInv => LinesArrive
  <2> SUFFICES ASSUME Typed, HandsInv, KeptInv, OwnInv PROVE LinesArrive
    OBVIOUS
  <2>1. /\ lines \in Seq(Line) /\ DOMAIN lines = 1 .. Len(lines)
        /\ \A k \in Keys : DOMAIN stored[k] = 1 .. Len(stored[k]) /\ DOMAIN open[k] = 1 .. Len(open[k])
        /\ hand \in [Readers -> Seq(Entry)]
    BY PathTypes
  <2>2. \A r \in Readers : \A i \in DOMAIN hand[r] :
           i \in 1 .. Len(hand[r]) /\ DOMAIN hand[r][i].lines = 1 .. Len(hand[r][i].lines)
    <3> TAKE r \in Readers
    <3> TAKE i \in DOMAIN hand[r]
    <3>1. Fits(hand[r][i].lines, Len(lines))
      BY PathTypes
    <3>2. hand[r][i].lines \in Seq(Nat) /\ hand[r] \in Seq(Entry)
      BY <2>1, <3>1 DEF Fits
    <3> QED
      BY <3>2
  <2>3. \A k \in Keys : \A m : (m \in ToSet(stored[k]) <=> In(m, stored[k]))
                               /\ (m \in ToSet(open[k]) <=> In(m, open[k]))
    BY <2>1 DEF ToSet, In
  <2>4. ASSUME NEW k \in Keys, NEW m
        PROVE  m \in InHand(k) <=> \E r \in Readers : KeyOf[r] = k /\ HasInHand(r, m)
    <3>1. \A r \in Readers : DOMAIN hand[r] = 1 .. Len(hand[r])
      BY <2>1
    <3>2. \A r \in Readers : \A i \in DOMAIN hand[r] :
            m \in ToSet(hand[r][i].lines) <=> In(m, hand[r][i].lines)
      BY <2>2 DEF ToSet, In
    <3> QED
      BY <3>1, <3>2 DEF InHand, HasInHand
  <2>5. OnlyBlanksLost
    <3> SUFFICES ASSUME NEW k \in Keys, NEW m \in Lost(k)
                 PROVE  \/ lines[m].kind = "blank"
                        \/ \E x \in LinesOf(k) : x > m /\ lines[x].kind = "start"
      BY DEF OnlyBlanksLost
    <3>1. /\ m \in 1 .. Len(lines) /\ KeyOf[lines[m].from] = k
          /\ m \notin ToSet(stored[k]) /\ m \notin InHand(k) /\ m \notin ToSet(open[k])
      BY <2>1 DEF Lost, LinesOf
    <3>2. ~Somewhere(k, m)
      BY <2>3, <2>4, <3>1 DEF Somewhere
    <3>3. k \in Keys /\ Excused(k, m)
      BY <3>1, <3>2 DEF KeptInv
    <3> QED
      BY <2>1, <3>3 DEF Excused, LinesOf
  <2>6. ASSUME NEW k \in Keys, \A r \in Readers : KeyOf[r] = k => reader[r] \in {"off", "done"}
        PROVE  ToSet(open[k]) \cup InHand(k) = {}
    <3>1. open[k] = <<>>
      BY <2>6 DEF HandsInv
    <3>2. \A r \in Readers : KeyOf[r] = k => hand[r] = <<>>
      BY <2>6 DEF HandsInv, Active
    <3>3. \A m : m \notin ToSet(open[k])
      BY <2>3, <3>1, InSmall
    <3>4. \A m : m \notin InHand(k)
      BY <2>4, <3>2 DEF HasInHand
    <3> QED
      BY <3>3, <3>4
  <2>7. ASSUME NEW r \in Readers, reader[r] = "done", KeyOf[r] \notin mixed, NEW m \in DOMAIN lines,
               lines[m].from = r, m \in ToSet(open[KeyOf[r]]) \cup InHand(KeyOf[r])
        PROVE  FALSE
    <3>1. m \in Nat /\ KeyOf[r] \in Keys
      BY <2>1 DEF Keys
    <3>2. FromActive(KeyOf[r], m)
      BY <2>3, <2>4, <2>7, <3>1 DEF OwnInv
    <3> QED
      BY <2>7, <3>2 DEF FromActive, Active
  <2>8. NothingHeldBack
    BY <2>6, <2>7 DEF NothingHeldBack
  <2> QED
    BY <2>5, <2>8 DEF LinesArrive, Typed
<1> QED
  BY <1>1, AlwaysTyped, AlwaysHands, AlwaysKept, PTL
-----------------------------------------------------------------------------
(* That tracebacks stay whole.                                             *)

\* Lines of the stream of s that were read after it.
After(s, m) == /\ m \in 1 .. Len(lines)
               /\ m > s[Len(s)]
               /\ KeyOf[lines[m].from] = KeyOf[lines[s[1]].from]

Solid(s) ==
  \A m \in 1 .. Len(lines) :
    KeyOf[lines[m].from] = KeyOf[lines[s[1]].from] /\ s[1] <= m /\ m <= s[Len(s)] => In(m, s)

\* The line that comes next is there and none of its own, or there will be none.
Over(s) ==
  /\ (\E m \in Nat : After(s, m)) \/ reader[lines[s[1]].from] \in {"flushing", "done"}
  /\ \A n \in Nat :
       After(s, n) /\ lines[n].from = lines[s[1]].from /\ (\A m \in Nat : After(s, m) => n <= m)
       => lines[n].kind \notin {"indented", "exception"}

\* Two readers have used the state of these lines.
Shared(s) == KeyOf[lines[s[1]].from] \in mixed

EntryWhole(s) ==
  /\ Fits(s, Len(lines)) /\ s # <<>>
  /\ lines[s[1]].kind = "start" =>
       Solid(s) /\ (Shared(s) \/ lines[s[Len(s)]].kind = "exception" \/ Over(s))

\* What is open is a traceback, and all of its stream since its first line.
OpenWhole(k) ==
  open[k] # <<>> =>
    /\ lines[open[k][1]].kind = "start"
    /\ \A m \in 1 .. Len(lines) : KeyOf[lines[m].from] = k /\ m >= open[k][1] => In(m, open[k])

\* An entry of these lines is in hand, or in the log.
HandHas(s) == \E r \in Readers : \E i \in 1 .. Len(hand[r]) : s = hand[r][i].lines
LogHas(s)  == \E i \in Held : s = log[i].lines

WholeInv == /\ \A k \in Keys : OpenWhole(k)
            /\ \A s : HandHas(s) \/ LogHas(s) => EntryWhole(s)

\* What is known of sequences of lines.
LEMMA EndsOfLines ==
  ASSUME NEW s, NEW n \in Nat, Fits(s, n), s # <<>>
  PROVE  /\ Len(s) \in Nat \ {0} /\ 1 \in 1 .. Len(s) /\ Len(s) \in 1 .. Len(s)
         /\ s[1] \in 1 .. n /\ s[Len(s)] \in 1 .. n
<1>1. s \in Seq(Nat) /\ \A i \in 1 .. Len(s) : s[i] \in 1 .. n
  BY DEF Fits
<1>2. Len(s) \in Nat \ {0}
  BY <1>1
<1> QED
  BY <1>1, <1>2

LEMMA WholeWithoutLine ==
  ASSUME Typed, NEW s, EntryWhole(s), lines' = lines, mixed \subseteq mixed',
         \A q \in Readers : reader[q] \in {"flushing", "done"} => reader'[q] \in {"flushing", "done"}
  PROVE  EntryWhole(s)'
<1>1. \A m : After(s, m)' <=> After(s, m)
  BY DEF After
<1>2. lines[s[1]].from \in Readers
  <2>1. s[1] \in 1 .. Len(lines)
    BY PathTypes, EndsOfLines DEF EntryWhole
  <2>2. lines[s[1]] \in Line
    BY <2>1, PathTypes
  <2> QED
    BY <2>2 DEF Line
<1>3. Over(s) => Over(s)'
  BY <1>1, <1>2 DEF Over
<1>4. Shared(s) => Shared(s)'
  BY DEF Shared
<1> QED
  BY <1>3, <1>4 DEF EntryWhole, Solid

LEMMA WholeWithLine ==
  ASSUME NEW s, EntryWhole(s), NEW n, n = Len(lines) + 1, Len(lines) \in Nat,
         Len(lines') = n, \A m \in 1 .. Len(lines) : lines'[m] = lines[m],
         reader' = reader, mixed' = mixed, reader[lines'[n].from] = "reading"
  PROVE  EntryWhole(s)'
<1>1. /\ Fits(s, Len(lines)) /\ s # <<>>
      /\ 1 \in 1 .. Len(s) /\ s[1] \in 1 .. Len(lines) /\ s[Len(s)] \in 1 .. Len(lines)
  BY EndsOfLines DEF EntryWhole
<1>2. Fits(s, Len(lines)')
  BY <1>1, FitsGrows
<1>3. lines'[s[1]] = lines[s[1]] /\ lines'[s[Len(s)]] = lines[s[Len(s)]]
  BY <1>1
<1>4. Solid(s) => Solid(s)'
  BY <1>1, <1>3 DEF Solid
<1>5. ASSUME NEW m, After(s, m)
      PROVE  After(s, m)' /\ m \in 1 .. Len(lines)
  BY <1>1, <1>3, <1>5 DEF After
<1>6. ASSUME NEW m, After(s, m)', m # n
      PROVE  After(s, m)
  BY <1>1, <1>3, <1>6 DEF After
<1>7. ASSUME Over(s)
      PROVE  Over(s)'
  <2>1. (\E m \in Nat : After(s, m)') \/ reader'[lines'[s[1]].from] \in {"flushing", "done"}
    BY <1>3, <1>5, <1>7 DEF Over
  <2>2. ASSUME NEW i \in Nat, After(s, i)', lines'[i].from = lines'[s[1]].from,
               \A m \in Nat : After(s, m)' => i <= m
        PROVE  lines'[i].kind \notin {"indented", "exception"}
    <3>1. CASE i = n
      <4>1. \A m \in Nat : ~After(s, m)
        BY <1>5, <2>2, <3>1
      <4>2. reader[lines[s[1]].from] \in {"flushing", "done"}
        BY <1>7, <4>1 DEF Over
      <4> QED
        BY <1>3, <2>2, <3>1, <4>2
    <3>2. CASE i # n
      <4>1. After(s, i) /\ lines'[i] = lines[i]
        BY <1>5, <1>6, <2>2, <3>2
      <4>2. \A m \in Nat : After(s, m) => i <= m
        BY <1>5, <2>2
      <4> QED
        BY <1>3, <1>7, <2>2, <4>1, <4>2 DEF Over
    <3> QED
      BY <3>1, <3>2
  <2> QED
    BY <2>1, <2>2 DEF Over
<1>8. Shared(s) => Shared(s)'
  BY <1>3 DEF Shared
<1> QED
  BY <1>1, <1>2, <1>3, <1>4, <1>7, <1>8 DEF EntryWhole
\* What is open, as an entry: no line of its stream comes after it.
LEMMA OpenIsLast ==
  ASSUME Typed, OwnInv, FlowInv, NEW k \in Keys, OpenWhole(k), NEW s, s = open[k], s # <<>>
  PROVE  /\ Fits(s, Len(lines)) /\ Len(lines) \in Nat
         /\ 1 \in 1 .. Len(s) /\ Len(s) \in 1 .. Len(s) /\ Len(s) \in Nat
         /\ s[1] \in 1 .. Len(lines) /\ s[Len(s)] \in 1 .. Len(lines) /\ s[1] <= s[Len(s)]
         /\ lines[s[1]].kind = "start"
         /\ KeyOf[lines[s[1]].from] = k
         /\ k \in mixed \/ reader[lines[s[1]].from] \in Active
         /\ \A m \in 1 .. Len(lines) : KeyOf[lines[m].from] = k /\ m >= s[1] =>
              In(m, s) /\ m <= s[Len(s)]
<1>1. Fits(s, Len(lines)) /\ Len(lines) \in Nat
  BY PathTypes
<1>2. /\ 1 \in 1 .. Len(s) /\ Len(s) \in 1 .. Len(s) /\ Len(s) \in Nat
      /\ s[1] \in 1 .. Len(lines) /\ s[Len(s)] \in 1 .. Len(lines)
  BY <1>1, EndsOfLines
<1>3. \A i \in 1 .. Len(s) : s[i] <= s[Len(s)]
  <2>1. Rising(s)
    BY DEF FlowInv, StoredFlows
  <2>2. \A i \in 1 .. Len(s) : s[i] \in Nat
    BY <1>1 DEF Fits
  <2> QED
    BY <1>2, <2>1, <2>2 DEF Rising
<1>4. In(s[1], s)
  BY <1>2 DEF In
<1>5. KeyOf[lines[s[1]].from] = k /\ (k \in mixed \/ reader[lines[s[1]].from] \in Active)
  BY <1>2, <1>4 DEF OwnInv, FromActive
<1>6. ASSUME NEW m \in 1 .. Len(lines), KeyOf[lines[m].from] = k, m >= s[1]
      PROVE  In(m, s) /\ m <= s[Len(s)]
  <2>1. In(m, s)
    BY <1>6 DEF OpenWhole
  <2> QED
    BY <1>3, <2>1 DEF In
<1> QED
  BY <1>1, <1>2, <1>3, <1>5, <1>6 DEF OpenWhole

\* A line has been read.
OneMore(n, k) ==
  /\ n = Len(lines) + 1 /\ Len(lines') = n
  /\ \A m \in 1 .. Len(lines) : lines'[m] = lines[m]
  /\ KeyOf[lines'[n].from] = k

LEMMA AloneWhole ==
  ASSUME NEW n \in Nat, NEW k, OneMore(n, k), Len(lines) \in Nat, lines'[n].kind # "start"
  PROVE  EntryWhole(<<n>>)'
<1>1. Fits(<<n>>, n) /\ <<n>>[1] = n
  BY DEF OneMore, Fits
<1> QED
  BY <1>1 DEF EntryWhole, OneMore

LEMMA RaisedWhole ==
  ASSUME Typed, OwnInv, FlowInv, NEW k \in Keys, OpenWhole(k), NEW s, s = open[k], s # <<>>,
         NEW n \in Nat, OneMore(n, k), lines'[n].kind = "exception"
  PROVE  EntryWhole(Append(s, n))'
<1>1. /\ Fits(s, Len(lines)) /\ Len(lines) \in Nat
      /\ 1 \in 1 .. Len(s) /\ Len(s) \in Nat
      /\ s[1] \in 1 .. Len(lines)
      /\ KeyOf[lines[s[1]].from] = k
      /\ \A m \in 1 .. Len(lines) : KeyOf[lines[m].from] = k /\ m >= s[1] => In(m, s)
  BY OpenIsLast
<1> DEFINE u == Append(s, n)
<1>2. s \in Seq(Nat)
  BY <1>1 DEF Fits
<1>3. u \in Seq(Nat) /\ Len(u) = Len(s) + 1 /\ u[1] = s[1] /\ u[Len(u)] = n /\ u # <<>>
  <2>1. u \in Seq(Nat) /\ Len(u) = Len(s) + 1 /\ u[1] = s[1] /\ u[Len(u)] = n
    BY <1>1, <1>2
  <2>2. u # <<>>
    BY <1>1, <2>1
  <2> QED
    BY <2>1, <2>2
<1>4. Fits(u, n)
  BY <1>1, GroupsFit DEF OneMore
<1>5. lines'[u[1]] = lines[s[1]]
  BY <1>1, <1>3 DEF OneMore
<1>6. \A m : In(m, u) <=> In(m, s) \/ m = n
  BY <1>2, InAppend
<1>7. ASSUME NEW m \in 1 .. n, KeyOf[lines'[m].from] = k, s[1] <= m
      PROVE  In(m, u)
  <2>1. CASE m = n
    BY <1>6, <2>1
  <2>2. CASE m # n
    <3>1. m \in 1 .. Len(lines) /\ lines'[m] = lines[m]
      BY <1>1, <2>2 DEF OneMore
    <3> QED
      BY <1>1, <1>6, <1>7, <3>1
  <2> QED
    BY <2>1, <2>2
<1> HIDE DEF u
<1>8. Solid(u)'
  BY <1>1, <1>3, <1>5, <1>7 DEF Solid, OneMore
<1>9. EntryWhole(u)'
  BY <1>3, <1>4, <1>8 DEF EntryWhole, OneMore
<1> QED
  BY <1>9 DEF u

LEMMA CutWhole ==
  ASSUME Typed, OwnInv, FlowInv, NEW k \in Keys, OpenWhole(k), NEW s, s = open[k], s # <<>>,
         NEW n \in Nat, OneMore(n, k), lines'[n].kind \in {"blank", "plain"}
  PROVE  EntryWhole(s)'
<1>1. /\ Fits(s, Len(lines)) /\ Len(lines) \in Nat
      /\ s[1] \in 1 .. Len(lines) /\ s[Len(s)] \in 1 .. Len(lines) /\ s[1] <= s[Len(s)]
      /\ KeyOf[lines[s[1]].from] = k
      /\ \A m \in 1 .. Len(lines) : KeyOf[lines[m].from] = k /\ m >= s[1] =>
           In(m, s) /\ m <= s[Len(s)]
  BY OpenIsLast
<1>2. Fits(s, n)
  BY <1>1, FitsGrows DEF OneMore
<1>3. lines'[s[1]] = lines[s[1]]
  BY <1>1 DEF OneMore
<1>4. Solid(s)'
  BY <1>1, <1>3 DEF Solid, OneMore
<1>5. After(s, n)'
  BY <1>1, <1>3 DEF After, OneMore
<1>6. ASSUME NEW i \in Nat, After(s, i)'
      PROVE  i = n
  BY <1>1, <1>3, <1>6 DEF After, OneMore
<1>7. Over(s)'
  BY <1>5, <1>6 DEF Over
<1> QED
  BY <1>2, <1>4, <1>7 DEF EntryWhole, OneMore

LEMMA FlushedWhole ==
  ASSUME Typed, OwnInv, FlowInv, HandsInv, NEW r \in Readers, NEW ss, Ending(r, ss),
         OpenWhole(KeyOf[r]), NEW s, s = open[KeyOf[r]], s # <<>>
  PROVE  EntryWhole(s)'
<1> DEFINE k == KeyOf[r]
<1>1. /\ Fits(s, Len(lines)) /\ Len(lines) \in Nat
      /\ s[1] \in 1 .. Len(lines) /\ s[Len(s)] \in 1 .. Len(lines) /\ s[1] <= s[Len(s)]
      /\ KeyOf[lines[s[1]].from] = k
      /\ k \in mixed \/ reader[lines[s[1]].from] \in Active
      /\ \A m \in 1 .. Len(lines) : KeyOf[lines[m].from] = k /\ m >= s[1] =>
           In(m, s) /\ m <= s[Len(s)]
  BY OpenIsLast DEF Keys
<1>2. /\ reader[r] = "reading" /\ reader' = [reader EXCEPT ![r] = "flushing"]
      /\ lines' = lines /\ mixed' = mixed
  BY DEF Ending
<1>3. k \notin mixed => lines[s[1]].from = r
  <2>1. lines[s[1]] \in Line
    BY <1>1, PathTypes
  <2>2. lines[s[1]].from \in Readers
    BY <2>1 DEF Line
  <2> QED
    BY <1>1, <1>2, <2>2 DEF HandsInv, Active
<1>4. reader'[r] = "flushing"
  BY <1>2, PathTypes
<1>5. \A m \in Nat : ~After(s, m)'
  BY <1>1, <1>2 DEF After
<1>6. Over(s)' \/ Shared(s)'
  BY <1>1, <1>2, <1>3, <1>4, <1>5 DEF Over, Shared
<1>7. Solid(s)'
  BY <1>1, <1>2 DEF Solid
<1> QED
  BY <1>1, <1>2, <1>6, <1>7 DEF EntryWhole
LEMMA ReadingWhole ==
  ASSUME Typed, OwnInv, FlowInv, HandsInv, WholeInv,
         NEW r \in Readers, NEW kind, NEW ss, Reading(r, kind, ss), NEW n, n = Len(lines) + 1
  PROVE  WholeInv'
<1> DEFINE k == KeyOf[r]
           o == open'[k]
<1>1. /\ Len(lines) \in Nat /\ n \in Nat /\ k \in Keys /\ open \in [Keys -> Seq(Nat)]
      /\ hand \in [Readers -> Seq(Entry)] /\ \A j \in Keys : Fits(open[j], Len(lines))
  BY PathTypes DEF Keys
<1>2. /\ reader[r] = "reading" /\ reader' = reader /\ hand[r] = <<>>
      /\ UNCHANGED <<first, next, log, mixed>>
      /\ Len(lines') = n /\ \A m \in 1 .. Len(lines) : lines'[m] = lines[m]
      /\ lines'[n].from = r /\ lines'[n].kind = kind
      /\ Grouped(open[k], n, kind, o, ss)
  BY DEF Reading, ringVars
<1>3. /\ open' = [open EXCEPT ![k] = o]
      /\ hand' = [hand EXCEPT ![r] = hand'[r]]
      /\ Len(hand'[r]) = Len(ss) /\ \A i \in 1 .. Len(ss) : hand'[r][i].lines = ss[i]
  BY DEF Reading, MadeOf
<1>4. OneMore(n, k)
  BY <1>2 DEF OneMore
<1>5. \A s : EntryWhole(s) => EntryWhole(s)'
  BY <1>1, <1>2, WholeWithLine
<1>6. OpenWhole(k)
  BY <1>1 DEF WholeInv
<1>7. ASSUME NEW j \in Keys, j # k
      PROVE  OpenWhole(j)'
  <2>1. open'[j] = open[j] /\ Fits(open[j], Len(lines)) /\ OpenWhole(j)
    BY <1>1, <1>3, <1>7 DEF WholeInv
  <2>2. open[j] # <<>> => open[j][1] \in 1 .. Len(lines)
    BY <1>1, <2>1, EndsOfLines
  <2>3. \A m \in 1 .. n : m # n => m \in 1 .. Len(lines)
    BY <1>1
  <2> QED
    BY <1>2, <1>7, <2>1, <2>2, <2>3 DEF OpenWhole
<1>8. OpenWhole(k)'
  <2>1. CASE o = <<>>
    BY <2>1 DEF OpenWhole
  <2>2. CASE o = <<n>> /\ kind = "start"
    <3>1. o[1] = n /\ In(n, o)
      BY <2>2, InSmall
    <3> QED
      BY <1>1, <1>2, <2>2, <3>1 DEF OpenWhole
  <2>3. ASSUME NEW s, s = open[k], s # <<>>, o = Append(s, n)
        PROVE  OpenWhole(k)'
    <3>1. Fits(s, Len(lines)) /\ 1 \in 1 .. Len(s) /\ s[1] \in 1 .. Len(lines) /\ Len(s) \in Nat
      BY <1>1, <2>3, EndsOfLines
    <3>2. s \in Seq(Nat)
      BY <3>1 DEF Fits
    <3>3. Append(s, n)[1] = s[1]
      BY <1>1, <3>1, <3>2
    <3>4. \A m : In(m, o) <=> In(m, s) \/ m = n
      BY <1>1, <2>3, <3>2, InAppend
    <3>5. \A m \in 1 .. n : m # n => m \in 1 .. Len(lines)
      BY <1>1
    <3>6. lines[s[1]].kind = "start"
          /\ \A m \in 1 .. Len(lines) : KeyOf[lines[m].from] = k /\ m >= s[1] => In(m, s)
      BY <1>6, <2>3 DEF OpenWhole
    <3>7. lines'[o[1]].kind = "start"
      BY <1>2, <2>3, <3>1, <3>3, <3>6
    <3>8. \A m \in 1 .. n : KeyOf[lines'[m].from] = k /\ m >= o[1] => In(m, o)
      BY <1>2, <2>3, <3>3, <3>4, <3>5, <3>6
    <3> QED
      BY <1>2, <3>7, <3>8 DEF OpenWhole
  <2> QED
    BY <1>2, <2>1, <2>2, <2>3 DEF Grouped
<1>9. ASSUME NEW s, HandHas(s)'
      PROVE  HandHas(s) \/ \E i \in 1 .. Len(ss) : s = ss[i]
  <2>1. \A q \in Readers : q # r => hand'[q] = hand[q]
    BY <1>1, <1>3
  <2> QED
    BY <1>3, <1>9, <2>1 DEF HandHas
<1>10. ASSUME NEW i \in 1 .. Len(ss), NEW s, s = ss[i]
       PROVE  EntryWhole(s)'
  <2> DEFINE p == open[k]
  <2>1. \/ ss = <<>>
        \/ kind # "start" /\ ss = <<<<n>>>>
        \/ kind = "exception" /\ p # <<>> /\ ss = <<Append(p, n)>>
        \/ kind \in {"blank", "plain"} /\ p # <<>> /\ ss = <<p>>
        \/ kind \in {"blank", "plain"} /\ p # <<>> /\ ss = <<p, <<n>>>>
    BY <1>2 DEF Grouped
  <2>2. CASE ss = <<>>
    <3>1. Len(ss) = 0
      BY <2>2
    <3> QED
      BY <3>1
  <2>3. ASSUME NEW u, ss = <<u>> PROVE s = u
    <3>1. Len(ss) = 1 /\ ss[1] = u
      BY <2>3
    <3> QED
      BY <1>10, <3>1
  <2>4. kind # "start" => EntryWhole(<<n>>)'
    BY <1>1, <1>2, <1>4, AloneWhole
  <2>5. CASE kind # "start" /\ ss = <<<<n>>>>
    BY <2>3, <2>4, <2>5
  <2>6. CASE kind = "exception" /\ p # <<>> /\ ss = <<Append(p, n)>>
    <3>1. PICK u : u = p
      OBVIOUS
    <3>2. EntryWhole(Append(u, n))'
      BY <1>1, <1>2, <1>4, <1>6, <2>6, <3>1, RaisedWhole
    <3>3. s = Append(u, n)
      BY <2>3, <2>6, <3>1
    <3> QED
      BY <3>2, <3>3
  <2>7. ASSUME kind \in {"blank", "plain"}, p # <<>>, s = p PROVE EntryWhole(s)'
    BY <1>1, <1>2, <1>4, <1>6, <2>7, CutWhole
  <2>8. CASE kind \in {"blank", "plain"} /\ p # <<>> /\ ss = <<p>>
    BY <2>3, <2>7, <2>8
  <2>9. CASE kind \in {"blank", "plain"} /\ p # <<>> /\ ss = <<p, <<n>>>>
    <3>1. Len(ss) = 2 /\ ss[1] = p /\ ss[2] = <<n>>
      BY <2>9
    <3>2. s = p \/ s = <<n>>
      BY <1>10, <3>1
    <3> QED
      BY <2>4, <2>7, <2>9, <3>2
  <2> QED
    BY <2>1, <2>2, <2>5, <2>6, <2>8, <2>9
<1>11. \A s : LogHas(s)' => LogHas(s)
  BY <1>2 DEF LogHas, Held
<1> QED
  BY <1>5, <1>7, <1>8, <1>9, <1>10, <1>11 DEF WholeInv
LEMMA EndingWhole ==
  ASSUME Typed, OwnInv, FlowInv, HandsInv, WholeInv, NEW r \in Readers, NEW ss, Ending(r, ss)
  PROVE  WholeInv'
<1> DEFINE k == KeyOf[r]
<1>1. /\ Len(lines) \in Nat /\ k \in Keys /\ open \in [Keys -> Seq(Nat)]
      /\ hand \in [Readers -> Seq(Entry)]
      /\ reader \in [Readers -> {"off", "reading", "flushing", "done"}]
  BY PathTypes DEF Keys
<1>2. /\ reader[r] = "reading" /\ reader' = [reader EXCEPT ![r] = "flushing"]
      /\ UNCHANGED <<first, next, log, mixed>> /\ lines' = lines
      /\ open' = [open EXCEPT ![k] = <<>>]
      /\ (open[k] = <<>> /\ ss = <<>>) \/ (open[k] # <<>> /\ ss = <<open[k]>>)
  BY DEF Ending, ringVars
<1>3. /\ hand' = [hand EXCEPT ![r] = hand'[r]]
      /\ Len(hand'[r]) = Len(ss) /\ \A i \in 1 .. Len(ss) : hand'[r][i].lines = ss[i]
  BY DEF Ending, MadeOf
<1>4. \A s : EntryWhole(s) => EntryWhole(s)'
  <2>1. \A q \in Readers : reader[q] \in {"flushing", "done"} => reader'[q] \in {"flushing", "done"}
    BY <1>1, <1>2
  <2> QED
    BY <1>2, <2>1, WholeWithoutLine
<1>5. ASSUME NEW j \in Keys
      PROVE  OpenWhole(j)'
  <2>1. OpenWhole(j) /\ (open'[j] = <<>> \/ open'[j] = open[j])
    BY <1>1, <1>2 DEF WholeInv
  <2> QED
    BY <1>2, <2>1 DEF OpenWhole
<1>6. ASSUME NEW s, HandHas(s)'
      PROVE  HandHas(s) \/ (open[k] # <<>> /\ s = open[k])
  <2>1. \A q \in Readers : q # r => hand'[q] = hand[q]
    BY <1>1, <1>3
  <2>2. \A i \in 1 .. Len(ss) : open[k] # <<>> /\ ss[i] = open[k]
    <3>1. CASE ss = <<>>
      <4>1. Len(ss) = 0
        BY <3>1
      <4> QED
        BY <4>1
    <3>2. CASE open[k] # <<>> /\ ss = <<open[k]>>
      BY <3>2
    <3> QED
      BY <1>2, <3>1, <3>2
  <2> QED
    BY <1>3, <1>6, <2>1, <2>2 DEF HandHas
<1>7. ASSUME NEW s, open[k] # <<>>, s = open[k]
      PROVE  EntryWhole(s)'
  BY <1>1, <1>7, FlushedWhole DEF WholeInv
<1>8. \A s : LogHas(s)' => LogHas(s)
  BY <1>2 DEF LogHas, Held
<1> QED
  BY <1>4, <1>5, <1>6, <1>7, <1>8 DEF WholeInv

LEMMA StoringWhole ==
  ASSUME Typed, WholeInv, NEW r \in Readers, Storing(r)
  PROVE  WholeInv'
<1> DEFINE n == Len(hand[r])
<1>1. /\ hand \in [Readers -> Seq(Entry)] /\ hand[r] \in Seq(Entry) /\ hand[r] # <<>>
      /\ Len(lines) \in Nat
  BY PathTypes DEF Storing
<1>2. /\ hand' = [hand EXCEPT ![r] = Tail(hand[r])]
      /\ UNCHANGED <<lines, reader, open, mixed>>
      /\ adding[1].entry = hand[r][1] /\ FinishAppend
  BY DEF Storing
<1>3. /\ n \in Nat \ {0} /\ 1 \in 1 .. n
      /\ hand'[r] = Tail(hand[r]) /\ Len(Tail(hand[r])) = n - 1
      /\ \A i \in 1 .. (n - 1) : Tail(hand[r])[i] = hand[r][i + 1] /\ i + 1 \in 1 .. n
  <2>1. n \in Nat \ {0} /\ hand'[r] = Tail(hand[r])
    BY <1>1, <1>2
  <2>2. /\ Len(Tail(hand[r])) = n - 1
        /\ \A i \in 1 .. (n - 1) : Tail(hand[r])[i] = hand[r][i + 1]
    BY <1>1, <2>1
  <2> QED
    BY <2>1, <2>2
<1>4. ASSUME NEW s, HandHas(s)'
      PROVE  HandHas(s)
  <2>1. \A q \in Readers : q # r => hand'[q] = hand[q]
    BY <1>1, <1>2
  <2>2. PICK q \in Readers : \E i \in 1 .. Len(hand'[q]) : s = hand'[q][i].lines
    BY <1>4 DEF HandHas
  <2>3. PICK i \in 1 .. Len(hand'[q]) : s = hand'[q][i].lines
    BY <2>2
  <2>4. CASE q = r
    <3>1. i \in 1 .. (n - 1) /\ hand'[q][i] = hand[r][i + 1] /\ i + 1 \in 1 .. n
      BY <1>3, <2>3, <2>4
    <3> QED
      BY <2>3, <3>1 DEF HandHas
  <2>5. CASE q # r
    BY <2>1, <2>3, <2>5 DEF HandHas
  <2> QED
    BY <2>4, <2>5
<1>5. ASSUME NEW s, LogHas(s)'
      PROVE  LogHas(s) \/ HandHas(s)
  <2>1. /\ first' = first /\ next' = next + 1 /\ first \in Nat /\ next \in Nat
        /\ log' = [i \in first .. next |-> IF i = next THEN hand[r][1] ELSE log[i]]
    BY <1>2 DEF FinishAppend, Typed, TypeOK, RingTypeOK
  <2>2. PICK i \in first .. next : s = log'[i].lines
    BY <1>5, <2>1 DEF LogHas, Held
  <2>3. CASE i = next
    <3>1. s = hand[r][1].lines
      BY <2>1, <2>2, <2>3
    <3> QED
      BY <1>3, <3>1 DEF HandHas
  <2>4. CASE i # next
    <3>1. i \in Held /\ s = log[i].lines
      BY <2>1, <2>2, <2>4 DEF Held
    <3> QED
      BY <3>1 DEF LogHas
  <2> QED
    BY <2>3, <2>4
<1>6. ASSUME NEW s, EntryWhole(s)
      PROVE  EntryWhole(s)'
  BY <1>2, <1>6, WholeWithoutLine
<1>7. \A k \in Keys : OpenWhole(k)'
  BY <1>2 DEF WholeInv, OpenWhole
<1> QED
  BY <1>4, <1>5, <1>6, <1>7 DEF WholeInv

LEMMA ElsewhereWhole ==
  ASSUME Typed, WholeInv, UNCHANGED <<lines, hand, open>>, mixed \subseteq mixed',
         \A s : LogHas(s)' => LogHas(s),
         \A q \in Readers : reader[q] \in {"flushing", "done"} => reader'[q] \in {"flushing", "done"}
  PROVE  WholeInv'
<1>1. ASSUME NEW s, EntryWhole(s)
      PROVE  EntryWhole(s)'
  BY <1>1, WholeWithoutLine
<1>2. \A s : HandHas(s)' => HandHas(s)
  BY DEF HandHas
<1>3. \A k \in Keys : OpenWhole(k)'
  BY DEF WholeInv, OpenWhole
<1> QED
  BY <1>1, <1>2, <1>3 DEF WholeInv

LEMMA WholeStep ==
  ASSUME Typed, HandsInv, FlowInv, OwnInv, WholeInv, [Next]_allVars
  PROVE  WholeInv'
<1>1. ASSUME NEW r \in Readers, ReaderReads(r) \/ ReaderEnds(r)
      PROVE  WholeInv'
  <2>1. \A kind, ss : Reading(r, kind, ss) => WholeInv'
    BY ReadingWhole
  <2> QED
    BY <1>1, <2>1, Reads, Ends, EndingWhole
<1>2. CASE Appended
  BY <1>2, Stores, StoringWhole
<1>3. ASSUME UNCHANGED <<first, next, log>>
      PROVE  \A s : LogHas(s)' => LogHas(s)
  BY <1>3 DEF LogHas, Held
<1>4. ASSUME NEW r \in Readers, ReaderStarts(r) \/ ReaderDone(r)
      PROVE  WholeInv'
  <2>1. UNCHANGED <<lines, hand, open, first, next, log>> /\ mixed \subseteq mixed'
    BY <1>4 DEF ReaderStarts, ReaderDone, ringVars
  <2>2. \A q \in Readers : reader[q] \in {"flushing", "done"} => reader'[q] \in {"flushing", "done"}
    BY <1>4, PathTypes DEF ReaderStarts, ReaderDone
  <2> QED
    BY <1>3, <2>1, <2>2, ElsewhereWhole
<1>5. CASE (\E r \in Readers : ReaderAppends(r)) \/ TimePasses \/ UNCHANGED allVars
  <2>1. UNCHANGED pathVars /\ UNCHANGED <<first, next, log>>
    BY <1>5 DEF ReaderAppends, BeginAppend, TimePasses, Tick, allVars, ringVars
  <2> QED
    BY <1>3, <2>1, ElsewhereWhole DEF pathVars
<1>6. CASE Evicts
  <2>1. UNCHANGED pathVars
    BY <1>6 DEF Evicts
  <2>2. ASSUME NEW s, LogHas(s)'
        PROVE  LogHas(s)
    <3>1. /\ first \in Nat /\ next \in Nat /\ first' = first + 1 /\ next' = next
          /\ log' = [i \in (first + 1) .. (next - 1) |-> log[i]]
      BY <1>6 DEF Evicts, EvictOldest, Typed, TypeOK, RingTypeOK
    <3>2. PICK i \in (first + 1) .. (next - 1) : s = log'[i].lines
      BY <2>2, <3>1 DEF LogHas, Held
    <3>3. i \in Held /\ s = log[i].lines
      BY <3>1, <3>2 DEF Held
    <3> QED
      BY <3>3 DEF LogHas
  <2> QED
    BY <2>1, <2>2, ElsewhereWhole DEF pathVars
<1> QED
  BY <1>1, <1>2, <1>4, <1>5, <1>6 DEF Next

LEMMA AlwaysWhole == Spec => []WholeInv
<1>1. Init => WholeInv
  <2> SUFFICES ASSUME Init PROVE WholeInv
    OBVIOUS
  <2>1. \A k \in Keys : open[k] = <<>>
    BY DEF Init, PathInit
  <2>2. \A r \in Readers : hand[r] = <<>>
    BY DEF Init, PathInit
  <2>3. Held = {}
    BY DEF Init, RingInit, Held
  <2> QED
    BY <2>1, <2>2, <2>3 DEF WholeInv, OpenWhole, HandHas, LogHas
<1> QED
  BY <1>1, AlwaysTyped, AlwaysHands, AlwaysFlows, AlwaysKept, WholeStep, PTL DEF Spec

\* PythonParser.Parse (python.go:64) behind stateFor: whatever streams and runs
\* are interleaved, a traceback in the log has all lines of its stream between
\* its first and its last; and it stops no earlier than it has to, unless two
\* readers have shared its parsing state.
THEOREM TracebacksStayWhole == Spec => []TracebacksWhole
<1>1. ASSUME NEW s, EntryWhole(s), Len(lines) \in Nat, DOMAIN lines = 1 .. Len(lines),
             lines[Head(s)].kind = "start"
      PROVE  Contiguous(s) /\ (KeyOf[lines[Head(s)].from] \notin mixed => Complete(s))
  <2>1. s \in Seq(Nat) /\ s # <<>> /\ Head(s) = s[1] /\ Last(s) = s[Len(s)]
        /\ s[Len(s)] \in 1 .. Len(lines) /\ s[1] \in 1 .. Len(lines)
    <3>1. Fits(s, Len(lines)) /\ s # <<>>
      BY <1>1 DEF EntryWhole
    <3>2. s \in Seq(Nat)
      BY <3>1 DEF Fits
    <3> QED
      BY <1>1, <3>1, <3>2, EndsOfLines DEF Last
  <2>2. \A m : m \in ToSet(s) <=> In(m, s)
    BY <2>1 DEF ToSet, In
  <2> DEFINE k == KeyOf[lines[s[1]].from]
  <2>3. \A m : After(s, m) <=> m \in LinesOf(k) /\ m > s[Len(s)]
    BY <1>1 DEF After, LinesOf
  <2>4. ASSUME NEW m \in LinesOf(k), s[1] <= m, m <= s[Len(s)]
        PROVE  m \in ToSet(s)
    <3>1. Solid(s) /\ m \in 1 .. Len(lines) /\ KeyOf[lines[m].from] = k
      BY <1>1, <2>1, <2>4 DEF EntryWhole, LinesOf
    <3>2. In(m, s)
      BY <2>4, <3>1 DEF Solid
    <3> QED
      BY <2>2, <3>2
  <2>5. ASSUME k \notin mixed, lines[s[Len(s)]].kind # "exception", NEW n \in LinesOf(k),
               n > s[Len(s)], lines[n].from = lines[s[1]].from,
               \A m \in LinesOf(k) : m > s[Len(s)] => n <= m
        PROVE  lines[n].kind \notin {"indented", "exception"}
    <3>1. Over(s)
      BY <1>1, <2>1, <2>5 DEF EntryWhole, Shared
    <3>2. n \in Nat /\ After(s, n) /\ \A m \in Nat : After(s, m) => n <= m
      BY <1>1, <2>3, <2>5 DEF LinesOf
    <3> QED
      BY <2>5, <3>1, <3>2 DEF Over
  <2>6. Contiguous(s)
    BY <2>1, <2>4 DEF Contiguous
  <2>7. k \notin mixed => Complete(s)
    BY <2>1, <2>5 DEF Complete
  <2> QED
    BY <2>1, <2>6, <2>7
<1>2. Typed /\ WholeInv => TracebacksWhole
  <2> SUFFICES ASSUME Typed, WholeInv, NEW i \in Held, lines[Head(log[i].lines)].kind = "start"
               PROVE  /\ Contiguous(log[i].lines)
                      /\ KeyOf[lines[Head(log[i].lines)].from] \notin mixed => Complete(log[i].lines)
    BY DEF TracebacksWhole
  <2>1. PICK s : s = log[i].lines
    OBVIOUS
  <2>2. LogHas(s)
    BY <2>1 DEF LogHas
  <2>3. EntryWhole(s)
    BY <2>2 DEF WholeInv
  <2>4. Contiguous(s) /\ (KeyOf[lines[Head(s)].from] \notin mixed => Complete(s))
    BY <1>1, <2>1, <2>3, PathTypes
  <2> QED
    BY <2>1, <2>4
<1> QED
  BY <1>2, AlwaysTyped, AlwaysWhole, PTL

=============================================================================
