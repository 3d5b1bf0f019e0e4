---------------------------- MODULE SpansProofs ----------------------------
(***************************************************************************)
(* What Spans promises, proved. The invariant, Inv, says of a running      *)
(* Running Man that its disk, the spans it holds and the load it may be in *)
(* the middle of are sound together, and of one that is not running that   *)
(* the disk it has left is. One lemma per thing that a call does to them   *)
(* (a file is opened, torn or deleted, a line is written, spans are        *)
(* dropped, time passes) shows that they stay so, and each call is a few   *)
(* of these. Sums and filters of sequences are recursive functions: they   *)
(* are shown to exist before anything is said of them.                     *)
(***************************************************************************)
EXTENDS Spans, WellFoundedInduction, TLAPS
-----------------------------------------------------------------------------
(* The disk, at time t. The files are in the order of their names, the     *)
(* spans of each in the order of their arrival, and nothing has been        *)
(* written to a file since there is a span in a later one.                  *)

Sorted(s) == \A i, j \in DOMAIN s : i < j => s[i].at < s[j].at

FileOK(f, t) ==
  /\ f.name \in 1 .. t /\ f.modified \in f.name .. t
  /\ Sorted(f.lines)
  /\ \A x \in Range(f.lines) : x.at \in f.name .. f.modified

DiskOK(fs, t) ==
  /\ fs \in Seq(File)
  /\ \A i \in DOMAIN fs : FileOK(fs[i], t)
  /\ \A i, j \in DOMAIN fs : i < j =>
       /\ fs[i].name < fs[j].name
       /\ \A x \in Range(fs[j].lines) : fs[i].modified < x.at

\* What is noted of the newest span of a file is true, where there is a note.
Notes(fs, m, t) ==
  /\ m \in [Times -> Times]
  /\ \A k \in Times : k > t => m[k] = 0
  /\ \A i \in DOMAIN fs : m[fs[i].name] # 0 =>
       /\ m[fs[i].name] \in fs[i].name .. fs[i].modified
       /\ \A x \in Range(fs[i].lines) : x.at <= m[fs[i].name]

\* What the disk knows in the run that started at r: the files of earlier
\* runs, and which is the last it has written to.
CurOK(fs, c, r, t) ==
  /\ c \in [open : BOOLEAN, name : Times, earlier : SUBSET Times, newest : [Times -> Times]]
  /\ r \in 1 .. t /\ c.name \in r .. t
  /\ \A k \in c.earlier : k < r
  /\ \A i \in DOMAIN fs : fs[i].name < r => fs[i].name \in c.earlier /\ fs[i].modified < r
  /\ \A i \in DOMAIN fs : fs[i].name > c.name => fs[i].lines = <<>>
  /\ Notes(fs, c.newest, t)

MemOK(s, t) == s \in Seq(Span) /\ Sorted(s) /\ \A x \in Range(s) : x.at \in 1 .. t

\* The load in the run that started at r: what it has read is of earlier runs,
\* in order, and older than what it has still to read; what is in memory
\* meanwhile is of this one.
LoadOK(fs, ld, r, t) ==
  /\ ld \in [pc : {"off", "begin", "read", "done"}, names : SUBSET Times, spans : Seq(Span),
             newest : [Times -> Times], runs : SUBSET Times]
  /\ \A k \in ld.names : k < r
  /\ Sorted(ld.spans) /\ \A x \in Range(ld.spans) : x.at \in 1 .. t /\ x.at < r
  /\ \A i \in DOMAIN fs : fs[i].name \in ld.names =>
       \A x \in Range(ld.spans), y \in Range(fs[i].lines) : x.at < y.at
  /\ ld.pc = "begin" => ld.spans = <<>>
  /\ Notes(fs, ld.newest, r - 1)
  /\ ld.pc = "read" =>
       \A i \in DOMAIN fs : fs[i].name < r => fs[i].name \in ld.names \/ Range(fs[i].lines) \subseteq Range(ld.spans)

Arrived(s, ld, r) == ld.pc \in {"begin", "read"} => \A x \in Range(s) : x.at >= r

\* What has expired is older than what is on the disk, and not in memory; what
\* of it has been read meanwhile is not newer than what memory has dropped.
GoneOK(fs, s, ld, d, ex, t) ==
  /\ ex \subseteq Span /\ d \in 0 .. t
  /\ \A x \in ex : x.at <= t
  /\ \A i \in DOMAIN fs : \A y \in Range(fs[i].lines) : d < y.at /\ \A x \in ex : x.at < y.at
  /\ \A x \in Range(ld.spans) : x \in ex => x.at <= d
  /\ Range(s) \cap ex = {}

HoleOK(fs, s, ld, r) ==
  ld.pc = "done" /\ s # <<>> =>
    \A i \in DOMAIN fs : \A x \in Range(fs[i].lines) : x.at >= s[1].at /\ x.at < r => x \in Range(s)

\* Nothing is left that arrived before k, nor will it be loaded.
Past(k, fs, s, ld, d) ==
  /\ \A i \in DOMAIN fs : \A x \in Range(fs[i].lines) : k < x.at
  /\ \A x \in Range(s) : k < x.at
  /\ \A x \in Range(ld.spans) : x.at > d => k < x.at

\* The first file of every run that served says so, unless it has expired with
\* all that is older.
ServedOK(fs, s, ld, d, sv, t) ==
  /\ sv \subseteq 1 .. t
  /\ \A i \in DOMAIN fs : fs[i].name \in sv => fs[i].run = fs[i].name
  /\ \A k \in sv : (\E i \in DOMAIN fs : fs[i].name = k) \/ Past(k, fs, s, ld, d)

ToldOK(fs, ld, r, rs, sv) ==
  /\ rs \subseteq Times /\ r \in rs /\ \A k \in sv : k <= r
  /\ ld.pc = "read" => \A i \in DOMAIN fs : fs[i].name \in sv /\ fs[i].name < r => fs[i].name \in ld.names \cup ld.runs
  /\ ld.pc = "done" => \A i \in DOMAIN fs : fs[i].name \in sv => fs[i].name \in rs

Fit(s) == Len(s) <= MaxSpans /\ (SumOf(s) > MaxBytes => Len(s) = 1)

Sound(fs, c, s, ld, d, r, rs, sv, ex, t) ==
  /\ DiskOK(fs, t) /\ CurOK(fs, c, r, t) /\ MemOK(s, t) /\ LoadOK(fs, ld, r, t) /\ Arrived(s, ld, r)
  /\ GoneOK(fs, s, ld, d, ex, t) /\ HoleOK(fs, s, ld, r)
  /\ ServedOK(fs, s, ld, d, sv, t) /\ ToldOK(fs, ld, r, rs, sv) /\ Fit(s)

Off ==
  /\ mem = <<>> /\ dropped = 0 /\ load = NoLoad /\ run = 0 /\ runs = {}
  /\ cur = [open |-> FALSE, name |-> 0, earlier |-> {}, newest |-> Unknown]
  /\ DiskOK(segs, now) /\ GoneOK(segs, mem, load, dropped, expired, now)
  /\ ServedOK(segs, mem, load, dropped, served, now)

Inv ==
  /\ now \in Times /\ up \in BOOLEAN /\ bytes = SumOf(mem)
  /\ up => Sound(segs, cur, mem, load, dropped, run, runs, served, expired, now)
  /\ ~up => Off

-----------------------------------------------------------------------------
(* Numbers and sequences.                                                  *)

LEMMA LeastExists ==
  ASSUME NEW S \in SUBSET Nat, S # {}
  PROVE  \E x \in S : \A y \in S : x <= y
<1>1. PICK x \in S : \A y \in S : ~ (<<y, x>> \in OpToRel(<, Nat))
  BY NatLessThanWellFounded, WFMin
<1>2. ASSUME NEW y \in S PROVE x <= y
  <2>1. x \in Nat /\ y \in Nat
    OBVIOUS
  <2>2. ~(y < x)
    BY <1>1, <2>1 DEF OpToRel
  <2> QED
    BY <2>1, <2>2
<1> QED
  BY <1>2

LEMMA MinIs ==
  ASSUME NEW S \in SUBSET Nat, S # {}
  PROVE  Min(S) \in S /\ \A y \in S : Min(S) <= y
BY LeastExists DEF Min

LEMMA MaxIs ==
  ASSUME NEW n \in Nat, NEW S \in SUBSET (0 .. n), S # {}
  PROVE  Max(S) \in S /\ \A y \in S : y <= Max(S)
<1> DEFINE T == {n - x : x \in S}
<1>1. \A x \in S : x \in Nat /\ n - x \in Nat
  OBVIOUS
<1>2. T \in SUBSET Nat /\ T # {}
  BY <1>1, Zenon
<1>3. PICK m \in T : \A y \in T : m <= y
  BY <1>2, LeastExists
<1>4. PICK x \in S : m = n - x
  OBVIOUS
<1>5. \A y \in S : y <= x
  <2> SUFFICES ASSUME NEW y \in S PROVE y <= x
    OBVIOUS
  <2>1. n - x <= n - y
    BY <1>3, <1>4
  <2> QED
    BY <1>1, <2>1
<1> QED
  BY <1>5 DEF Max

\* Induction, with the set of the numbers of which it holds.
LEMMA Reaches ==
  ASSUME NEW n \in Nat, NEW S, 0 \in S, \A k \in 0 .. n - 1 : k \in S => k + 1 \in S
  PROVE  \A k \in 0 .. n : k \in S
<1> SUFFICES ASSUME NEW k \in 0 .. n, k \notin S PROVE FALSE
  OBVIOUS
<1> DEFINE T == {i \in 0 .. n : i \notin S}
<1>1. T \in SUBSET Nat /\ T # {}
  OBVIOUS
<1>2. PICK m \in T : \A y \in T : m <= y
  BY <1>1, LeastExists
<1>3. m # 0 /\ m - 1 \in 0 .. n - 1 /\ m - 1 \notin T
  BY <1>2
<1> QED
  BY <1>2, <1>3

LEMMA RangeIs == ASSUME NEW s PROVE \A x : x \in Range(s) <=> \E i \in DOMAIN s : x = s[i]
BY DEF Range

LEMMA SpanIs == \A x \in Span : x.at \in Times /\ x.at \in Nat /\ x.size \in Nat \ {0}
<1>1. Times \subseteq Nat
  BY LimitsAssumption DEF LimitsAssumption, Times
<1>2. Sizes \subseteq Nat \ {0}
  BY LimitsAssumption DEF LimitsAssumption
<1>3. \A x \in Span : x.at \in Times /\ x.size \in Sizes
  BY DEF Span
<1> QED
  BY <1>1, <1>2, <1>3

-----------------------------------------------------------------------------
(* The sum of the sizes. SumOf is a recursive function, so that what it    *)
(* satisfies has to be shown to exist first.                               *)

IsSum(f, s) == f = [n \in 0 .. Len(s) |-> IF n = 0 THEN 0 ELSE f[n - 1] + s[n].size]

Sums(f, s) == /\ f \in [0 .. Len(s) -> Nat] /\ f[0] = 0
              /\ \A n \in 1 .. Len(s) : f[n] = f[n - 1] + s[n].size

LEMMA SumExists == ASSUME NEW s \in Seq(Span) PROVE \E f : IsSum(f, s)
<1> DEFINE N == Len(s)
           Good(f, k) == f[0] = 0 /\ \A n \in 1 .. k : f[n] = f[n - 1] + s[n].size
           S == {k \in 0 .. N : \E f \in [0 .. N -> Nat] : Good(f, k)}
<1>0. N \in Nat /\ \A n \in 1 .. N : s[n].size \in Nat
  BY SpanIs
<1> HIDE DEF N
<1>1. 0 \in S
  <2> DEFINE f == [n \in 0 .. N |-> 0]
  <2>1. f \in [0 .. N -> Nat] /\ Good(f, 0)
    BY <1>0
  <2>2. \E h \in [0 .. N -> Nat] : Good(h, 0)
    BY <2>1, Zenon
  <2>3. 0 \in 0 .. N
    BY <1>0
  <2> HIDE DEF Good
  <2> QED
    BY <2>2, <2>3
<1>2. ASSUME NEW k \in 0 .. N - 1, k \in S PROVE k + 1 \in S
  <2>1. PICK f \in [0 .. N -> Nat] : Good(f, k)
    BY <1>2
  <2> DEFINE v == f[k] + s[k + 1].size
             g == [f EXCEPT ![k + 1] = v]
  <2>2. k \in Nat /\ k + 1 \in 1 .. N /\ v \in Nat
    <3>1. N \in Nat
      BY <1>0
    <3>2. k \in Nat /\ k + 1 \in 1 .. N /\ k \in 0 .. N
      BY <3>1
    <3>3. f[k] \in Nat
      BY <3>2
    <3>4. s[k + 1].size \in Nat
      BY <1>0, <3>2
    <3> QED
      BY <3>2, <3>3, <3>4
  <2>3. g \in [0 .. N -> Nat] /\ g[k + 1] = v /\ \A n \in 0 .. k : g[n] = f[n]
    BY <2>2, <1>0
  <2>4. g[0] = 0
    BY <2>1, <2>3, <2>2
  <2>5. ASSUME NEW n \in 1 .. k + 1 PROVE g[n] = g[n - 1] + s[n].size
    <3>1. CASE n = k + 1
      <4>1. n - 1 = k
        BY <2>2, <3>1
      <4> QED
        BY <2>2, <2>3, <3>1, <4>1
    <3>2. CASE n # k + 1
      <4>1. n \in 1 .. k /\ n - 1 \in 0 .. k /\ n \in 0 .. k
        BY <2>2, <3>2
      <4> HIDE DEF g
      <4> QED
        BY <2>1, <2>3, <4>1
    <3> QED
      BY <3>1, <3>2
  <2> HIDE DEF g
  <2>6. Good(g, k + 1)
    BY <2>4, <2>5
  <2>7. k + 1 \in 0 .. N
    BY <2>2
  <2> HIDE DEF Good
  <2> QED
    BY <2>3, <2>6, <2>7
<1> HIDE DEF S
<1>3. N \in S
  <2>1. \A k \in 0 .. N : k \in S
    BY <1>0, <1>1, <1>2, Reaches
  <2> QED
    BY <1>0, <2>1
<1>4. PICK f \in [0 .. N -> Nat] : Good(f, N)
  BY <1>3 DEF S
<1>5. f = [n \in 0 .. N |-> IF n = 0 THEN 0 ELSE f[n - 1] + s[n].size]
  BY <1>0, <1>4
<1> QED
  BY <1>5 DEF IsSum, N

LEMMA SumIs == ASSUME NEW s \in Seq(Span) PROVE \E f : Sums(f, s) /\ SumOf(s) = f[Len(s)]
<1> DEFINE f == CHOOSE g : IsSum(g, s)
           S == {k \in 0 .. Len(s) : f[k] \in Nat}
<1>1. IsSum(f, s)
  BY SumExists
<1>2. SumOf(s) = f[Len(s)]
  BY DEF SumOf, IsSum
<1> HIDE DEF f
<1>3. Len(s) \in Nat /\ \A n \in 1 .. Len(s) : s[n].size \in Nat
  BY SpanIs
<1>4. f[0] = 0 /\ \A n \in 1 .. Len(s) : f[n] = f[n - 1] + s[n].size
  BY <1>1, <1>3 DEF IsSum
<1>5. \A k \in 0 .. Len(s) : k \in S
  <2>1. 0 \in S
    BY <1>3, <1>4
  <2>2. ASSUME NEW k \in 0 .. Len(s) - 1, k \in S PROVE k + 1 \in S
    <3>1. k + 1 \in 1 .. Len(s) /\ (k + 1) - 1 = k
      BY <1>3
    <3>2. f[k + 1] = f[k] + s[k + 1].size
      BY <1>4, <3>1
    <3> QED
      BY <1>3, <2>2, <3>1, <3>2
  <2> HIDE DEF S
  <2> QED
    BY <1>3, <2>1, <2>2, Reaches
<1>6. f \in [0 .. Len(s) -> Nat]
  BY <1>1, <1>5 DEF IsSum
<1> QED
  BY <1>2, <1>4, <1>6 DEF Sums

LEMMA SumTyped == ASSUME NEW s \in Seq(Span) PROVE SumOf(s) \in Nat /\ (s = <<>> => SumOf(s) = 0)
<1>1. PICK f : Sums(f, s) /\ SumOf(s) = f[Len(s)]
  BY SumIs
<1> QED
  BY <1>1 DEF Sums

\* Two functions that sum the same spans agree.
LEMMA SumAppend ==
  ASSUME NEW s \in Seq(Span), NEW x \in Span
  PROVE  SumOf(Append(s, x)) = SumOf(s) + x.size
<1> DEFINE t == Append(s, x)
<1>0. t \in Seq(Span) /\ Len(t) = Len(s) + 1 /\ Len(s) \in Nat /\ t[Len(t)] = x
      /\ \A n \in 1 .. Len(s) : t[n] = s[n]
  OBVIOUS
<1> HIDE DEF t
<1>1. PICK f : Sums(f, s) /\ SumOf(s) = f[Len(s)]
  BY SumIs
<1>2. PICK g : Sums(g, t) /\ SumOf(t) = g[Len(t)]
  BY <1>0, SumIs
<1> DEFINE S == {k \in 0 .. Len(s) : g[k] = f[k]}
<1>3. \A k \in 0 .. Len(s) : k \in S
  <2>1. 0 \in S
    BY <1>0, <1>1, <1>2 DEF Sums
  <2>2. ASSUME NEW k \in 0 .. Len(s) - 1, k \in S PROVE k + 1 \in S
    <3>1. k + 1 \in 1 .. Len(s) /\ k + 1 \in 1 .. Len(t) /\ (k + 1) - 1 = k
      BY <1>0
    <3>2. f[k + 1] = f[k] + s[k + 1].size /\ g[k + 1] = g[k] + t[k + 1].size
      BY <1>1, <1>2, <3>1 DEF Sums
    <3> QED
      BY <1>0, <2>2, <3>1, <3>2
  <2> HIDE DEF S
  <2> QED
    BY <1>0, <2>1, <2>2, Reaches
<1>4. g[Len(s)] = f[Len(s)]
  BY <1>0, <1>3
<1>5. Len(t) \in 1 .. Len(t) /\ Len(t) - 1 = Len(s)
  BY <1>0
<1>6. g[Len(t)] = g[Len(s)] + x.size
  BY <1>0, <1>2, <1>5 DEF Sums
<1> QED
  BY <1>1, <1>2, <1>4, <1>6 DEF t

-----------------------------------------------------------------------------
(* What is left of a sequence when its oldest are dropped.                 *)

Suffix(r, s) == \E n \in 0 .. Len(s) : r = Newest(s, n)

LEMMA NewestIs ==
  ASSUME NEW X, NEW s \in Seq(X), NEW n \in 0 .. Len(s)
  PROVE  /\ Newest(s, n) \in Seq(X) /\ Len(Newest(s, n)) = Len(s) - n
         /\ \A i \in 1 .. Len(s) - n : Newest(s, n)[i] = s[n + i]
<1>1. Len(s) \in Nat /\ n \in Nat
  OBVIOUS
<1> QED
  BY <1>1 DEF Newest

LEMMA SumSuffix ==
  ASSUME NEW s \in Seq(Span), NEW r, Suffix(r, s)
  PROVE  SumOf(r) <= SumOf(s)
<1>1. PICK m \in 0 .. Len(s) : r = Newest(s, m)
  BY DEF Suffix
<1>2. r \in Seq(Span) /\ Len(r) = Len(s) - m /\ Len(s) \in Nat /\ m \in Nat
      /\ \A i \in 1 .. Len(r) : r[i] = s[m + i]
  <2>1. Newest(s, m) \in Seq(Span) /\ Len(Newest(s, m)) = Len(s) - m
        /\ \A i \in 1 .. Len(s) - m : Newest(s, m)[i] = s[m + i]
    BY NewestIs
  <2>2. Len(s) \in Nat /\ m \in Nat
    OBVIOUS
  <2> QED
    BY <1>1, <2>1, <2>2
<1>3. PICK f : Sums(f, s) /\ SumOf(s) = f[Len(s)]
  BY SumIs
<1>4. PICK g : Sums(g, r) /\ SumOf(r) = g[Len(r)]
  BY <1>2, SumIs
<1> DEFINE S == {k \in 0 .. Len(r) : g[k] + f[m] = f[m + k]}
<1>5. f[m] \in Nat
  BY <1>2, <1>3 DEF Sums
<1>6. \A k \in 0 .. Len(r) : k \in S
  <2>1. 0 \in S
    BY <1>2, <1>4, <1>5 DEF Sums
  <2>2. ASSUME NEW k \in 0 .. Len(r) - 1, k \in S PROVE k + 1 \in S
    <3>1. /\ k + 1 \in 1 .. Len(r) /\ m + (k + 1) \in 1 .. Len(s) /\ (k + 1) - 1 = k
          /\ (m + (k + 1)) - 1 = m + k /\ k \in 0 .. Len(r) /\ m + k \in 0 .. Len(s)
      BY <1>2
    <3>2. f[m + (k + 1)] = f[m + k] + s[m + (k + 1)].size
      BY <1>3, <3>1 DEF Sums
    <3>3. g[k + 1] = g[k] + r[k + 1].size
      BY <1>4, <3>1 DEF Sums
    <3>4. r[k + 1] = s[m + (k + 1)] /\ r[k + 1].size \in Nat
      BY <1>2, <3>1, SpanIs
    <3>5. g[k] \in Nat /\ f[m + k] \in Nat
      BY <1>3, <1>4, <3>1 DEF Sums
    <3>6. g[k] + f[m] = f[m + k]
      BY <2>2
    <3>7. g[k + 1] + f[m] = f[m + (k + 1)]
      <4> DEFINE a == g[k]
                 b == f[m]
                 c == f[m + k]
                 d == r[k + 1].size
      <4>1. a \in Nat /\ b \in Nat /\ c \in Nat /\ d \in Nat /\ a + b = c
        BY <1>5, <3>4, <3>5, <3>6
      <4>2. g[k + 1] = a + d /\ f[m + (k + 1)] = c + d
        BY <3>2, <3>3, <3>4
      <4> HIDE DEF a, c, d
      <4>3. (a + d) + b = c + d
        BY <4>1
      <4> QED
        BY <4>2, <4>3
    <3> QED
      BY <3>1, <3>7
  <2>3. Len(r) \in Nat
    BY <1>2
  <2> HIDE DEF S
  <2> QED
    BY <2>1, <2>2, <2>3, Reaches
<1>7. Len(r) \in 0 .. Len(r) /\ m + Len(r) = Len(s)
  BY <1>2
<1>8. g[Len(r)] + f[m] = f[Len(s)]
  BY <1>6, <1>7
<1>9. g[Len(r)] \in Nat /\ f[Len(s)] \in Nat
  <2>1. g \in [0 .. Len(r) -> Nat] /\ f \in [0 .. Len(s) -> Nat]
    BY <1>3, <1>4 DEF Sums
  <2>2. Len(s) \in 0 .. Len(s)
    BY <1>2
  <2> QED
    BY <1>7, <2>1, <2>2
<1> QED
  BY <1>3, <1>4, <1>5, <1>8, <1>9

LEMMA SameSeq ==
  ASSUME NEW X, NEW r \in Seq(X), NEW s \in Seq(X), Len(r) = Len(s), \A i \in 1 .. Len(s) : r[i] = s[i]
  PROVE  r = s
OBVIOUS

\* What is dropped is older than what is left.
LEMMA SuffixIs ==
  ASSUME NEW X, NEW s \in Seq(X), NEW r, Suffix(r, s)
  PROVE  r \in Seq(X) /\ Len(r) <= Len(s) /\ Range(r) \subseteq Range(s)
<1>1. PICK m \in 0 .. Len(s) : r = Newest(s, m)
  BY DEF Suffix
<1>2. Len(s) \in Nat /\ m \in Nat
  OBVIOUS
<1>3. r \in Seq(X) /\ Len(r) = Len(s) - m /\ \A i \in 1 .. Len(s) - m : r[i] = s[m + i]
  BY <1>1, NewestIs
<1>4. ASSUME NEW x \in Range(r) PROVE x \in Range(s)
  <2>1. PICK i \in 1 .. Len(r) : x = r[i]
    BY <1>3, RangeIs
  <2>2. x = s[m + i] /\ m + i \in DOMAIN s
    BY <1>2, <1>3, <2>1
  <2> QED
    BY <2>2, RangeIs
<1> QED
  BY <1>2, <1>3, <1>4

LEMMA SuffixSorted ==
  ASSUME NEW s \in Seq(Span), NEW r, Suffix(r, s), Sorted(s)
  PROVE  /\ Sorted(r)
         /\ r # <<>> => s # <<>> /\ s[1].at <= r[1].at /\ \A x \in Range(s) : x.at >= r[1].at => x \in Range(r)
<1>1. PICK m \in 0 .. Len(s) : r = Newest(s, m)
  BY DEF Suffix
<1>2. Len(s) \in Nat /\ m \in Nat /\ DOMAIN s = 1 .. Len(s) /\ \A i \in 1 .. Len(s) : s[i] \in Span
  OBVIOUS
<1>3. r \in Seq(Span) /\ Len(r) = Len(s) - m /\ \A i \in 1 .. Len(s) - m : r[i] = s[m + i]
  <2>1. Newest(s, m) \in Seq(Span) /\ Len(Newest(s, m)) = Len(s) - m
        /\ \A i \in 1 .. Len(s) - m : Newest(s, m)[i] = s[m + i]
    BY NewestIs
  <2> QED
    BY <1>1, <2>1
<1>4. DOMAIN r = 1 .. Len(s) - m
  BY <1>3
<1>5. Sorted(r)
  <2> SUFFICES ASSUME NEW i \in DOMAIN r, NEW j \in DOMAIN r, i < j PROVE r[i].at < r[j].at
    BY DEF Sorted
  <2>1. m + i \in DOMAIN s /\ m + j \in DOMAIN s /\ m + i < m + j
    BY <1>2, <1>4
  <2>2. s[m + i].at < s[m + j].at
    BY <2>1 DEF Sorted
  <2>3. r[i] = s[m + i] /\ r[j] = s[m + j]
    BY <1>3, <1>4
  <2> QED
    BY <2>2, <2>3
<1>6. ASSUME r # <<>>
      PROVE  s # <<>> /\ s[1].at <= r[1].at /\ \A x \in Range(s) : x.at >= r[1].at => x \in Range(r)
  <2>1. m + 1 \in DOMAIN s /\ r[1] = s[m + 1] /\ 1 \in DOMAIN s
    BY <1>2, <1>3, <1>6
  <2>2. s[1].at <= r[1].at
    <3>1. s[1].at \in Nat /\ s[m + 1].at \in Nat
      BY <1>2, <2>1, SpanIs
    <3>2. m = 0 \/ s[1].at < s[m + 1].at
      BY <1>2, <2>1 DEF Sorted
    <3> QED
      BY <2>1, <3>1, <3>2
  <2>3. ASSUME NEW x \in Range(s), x.at >= r[1].at PROVE x \in Range(r)
    <3>1. PICK i \in DOMAIN s : x = s[i]
      BY RangeIs
    <3>2. s[i].at \in Nat /\ s[m + 1].at \in Nat /\ i \in Nat
      BY <1>2, <2>1, <3>1, SpanIs
    <3>3. ~(i < m + 1)
      <4> SUFFICES ASSUME i < m + 1 PROVE FALSE
        OBVIOUS
      <4>1. s[i].at < s[m + 1].at
        BY <2>1, <3>1 DEF Sorted
      <4> QED
        BY <2>1, <2>3, <3>1, <3>2, <4>1
    <3>4. i - m \in DOMAIN r /\ r[i - m] = s[i]
      BY <1>2, <1>3, <1>4, <3>2, <3>3, <3>1
    <3> QED
      BY <3>1, <3>4, RangeIs
  <2>4. s # <<>>
    BY <1>2, <2>1
  <2> QED
    BY <2>2, <2>3, <2>4
<1> QED
  BY <1>5, <1>6

LEMMA SuffixChain ==
  ASSUME NEW X, NEW s \in Seq(X), NEW r, Suffix(r, s), NEW q, Suffix(q, r)
  PROVE  Suffix(q, s)
<1>1. PICK m \in 0 .. Len(s) : r = Newest(s, m)
  BY DEF Suffix
<1>2. PICK k \in 0 .. Len(r) : q = Newest(r, k)
  BY DEF Suffix
<1>3. Len(s) \in Nat /\ m \in Nat
  OBVIOUS
<1>4. r \in Seq(X) /\ Len(r) = Len(s) - m /\ \A i \in 1 .. Len(s) - m : r[i] = s[m + i]
  BY <1>1, NewestIs
<1>5. q \in Seq(X) /\ Len(q) = Len(r) - k /\ \A i \in 1 .. Len(r) - k : q[i] = r[k + i]
  <2>1. r \in Seq(X)
    BY <1>4
  <2>2. /\ Newest(r, k) \in Seq(X) /\ Len(Newest(r, k)) = Len(r) - k
        /\ \A i \in 1 .. Len(r) - k : Newest(r, k)[i] = r[k + i]
    BY <2>1, NewestIs
  <2> QED
    BY <1>2, <2>2
<1>6. k \in Nat /\ m + k \in 0 .. Len(s)
  BY <1>3, <1>4
<1> DEFINE z == Newest(s, m + k)
<1>7. z \in Seq(X) /\ Len(z) = Len(s) - (m + k) /\ \A i \in 1 .. Len(s) - (m + k) : z[i] = s[(m + k) + i]
  BY <1>6, NewestIs
<1> HIDE DEF z
<1>8. Len(z) = Len(q)
  BY <1>3, <1>4, <1>5, <1>6, <1>7
<1>9. ASSUME NEW i \in 1 .. Len(q) PROVE z[i] = q[i]
  <2>1. i \in 1 .. Len(s) - (m + k) /\ i \in 1 .. Len(r) - k /\ k + i \in 1 .. Len(s) - m /\ m + (k + i) = (m + k) + i
    BY <1>3, <1>4, <1>5, <1>6
  <2>2. z[i] = s[(m + k) + i] /\ q[i] = r[k + i] /\ r[k + i] = s[m + (k + i)]
    BY <1>4, <1>5, <1>7, <2>1
  <2> QED
    BY <2>1, <2>2
<1>10. z = q
  BY <1>5, <1>7, <1>8, <1>9, SameSeq
<1> QED
  BY <1>6, <1>10 DEF z, Suffix

LEMMA SuffixSelf == ASSUME NEW X, NEW s \in Seq(X) PROVE Suffix(s, s)
<1>1. Len(s) \in Nat /\ 0 \in 0 .. Len(s)
  OBVIOUS
<1>2. Newest(s, 0) \in Seq(X) /\ Len(Newest(s, 0)) = Len(s) - 0 /\ \A i \in 1 .. Len(s) - 0 : Newest(s, 0)[i] = s[0 + i]
  BY <1>1, NewestIs
<1>3. Newest(s, 0) = s
  BY <1>1, <1>2
<1> QED
  BY <1>1, <1>3 DEF Suffix

\* The newest stays the newest.
LEMMA SuffixAppend ==
  ASSUME NEW X, NEW s \in Seq(X), NEW x \in X, NEW r, Suffix(r, s)
  PROVE  Suffix(Append(r, x), Append(s, x))
<1>1. PICK m \in 0 .. Len(s) : r = Newest(s, m)
  BY DEF Suffix
<1> DEFINE t == Append(s, x)
           q == Append(r, x)
           z == Newest(t, m)
<1>2. Len(s) \in Nat /\ m \in Nat
  OBVIOUS
<1>3. r \in Seq(X) /\ Len(r) = Len(s) - m /\ \A i \in 1 .. Len(s) - m : r[i] = s[m + i]
  BY <1>1, NewestIs
<1>4. t \in Seq(X) /\ Len(t) = Len(s) + 1 /\ t[Len(s) + 1] = x /\ \A i \in 1 .. Len(s) : t[i] = s[i]
  BY <1>2
<1>5. q \in Seq(X) /\ Len(q) = Len(r) + 1 /\ q[Len(r) + 1] = x /\ \A i \in 1 .. Len(r) : q[i] = r[i]
  BY <1>3
<1> HIDE DEF t, q
<1>6. m \in 0 .. Len(t)
  BY <1>2, <1>4
<1>7. z \in Seq(X) /\ Len(z) = Len(t) - m /\ \A i \in 1 .. Len(t) - m : z[i] = t[m + i]
  BY <1>4, <1>6, NewestIs
<1> HIDE DEF z
<1>8. Len(z) = Len(q)
  BY <1>2, <1>3, <1>4, <1>5, <1>7
<1>9. ASSUME NEW i \in 1 .. Len(q) PROVE z[i] = q[i]
  <2>0. z[i] = t[m + i]
    BY <1>7, <1>8
  <2>1. CASE i = Len(r) + 1
    <3>1. m + i = Len(s) + 1
      BY <1>2, <1>3, <2>1
    <3> QED
      BY <1>4, <1>5, <2>0, <2>1, <3>1
  <2>2. CASE i # Len(r) + 1
    <3>1. i \in 1 .. Len(r) /\ m + i \in 1 .. Len(s) /\ i \in 1 .. Len(s) - m
      BY <1>2, <1>3, <1>5, <2>2
    <3> QED
      BY <1>3, <1>4, <1>5, <2>0, <3>1
  <2> QED
    BY <2>1, <2>2
<1>10. z = q
  BY <1>5, <1>7, <1>8, <1>9, SameSeq
<1> QED
  BY <1>6, <1>10 DEF z, t, q, Suffix

LEMMA RangeAppend == ASSUME NEW X, NEW s \in Seq(X), NEW x \in X PROVE Range(Append(s, x)) = Range(s) \cup {x}
<1> DEFINE t == Append(s, x)
<1>1. Len(s) \in Nat /\ DOMAIN s = 1 .. Len(s) /\ DOMAIN t = 1 .. Len(s) + 1 /\ t[Len(s) + 1] = x
      /\ \A i \in 1 .. Len(s) : t[i] = s[i]
  OBVIOUS
<1> HIDE DEF t
<1>2. \A y : y \in Range(t) <=> \E i \in 1 .. Len(s) + 1 : y = t[i]
  BY <1>1, RangeIs
<1>3. \A y : y \in Range(s) <=> \E i \in 1 .. Len(s) : y = s[i]
  BY <1>1, RangeIs
<1>4. ASSUME NEW y \in Range(t) PROVE y \in Range(s) \cup {x}
  BY <1>1, <1>2, <1>3
<1>5. ASSUME NEW y \in Range(s) \cup {x} PROVE y \in Range(t)
  BY <1>1, <1>2, <1>3
<1>6. Range(t) = Range(s) \cup {x}
  BY <1>4, <1>5
<1> QED
  BY <1>6 DEF t

LEMMA SortedAppend ==
  ASSUME NEW s \in Seq(Span), NEW x \in Span, Sorted(s), \A y \in Range(s) : y.at < x.at
  PROVE  Sorted(Append(s, x))
<1> DEFINE t == Append(s, x)
<1>1. Len(s) \in Nat /\ DOMAIN s = 1 .. Len(s) /\ DOMAIN t = 1 .. Len(s) + 1 /\ t[Len(s) + 1] = x
      /\ \A i \in 1 .. Len(s) : t[i] = s[i]
  OBVIOUS
<1> HIDE DEF t
<1> SUFFICES ASSUME NEW i \in DOMAIN t, NEW j \in DOMAIN t, i < j PROVE t[i].at < t[j].at
  BY DEF Sorted, t
<1>2. i \in DOMAIN s /\ t[i] = s[i]
  BY <1>1
<1>3. CASE j = Len(s) + 1
  <2>1. s[i] \in Range(s)
    BY <1>2, RangeIs
  <2> QED
    BY <1>1, <1>2, <1>3, <2>1
<1>4. CASE j # Len(s) + 1
  <2>1. j \in DOMAIN s /\ t[j] = s[j]
    BY <1>1, <1>4
  <2> QED
    BY <1>2, <2>1 DEF Sorted
<1> QED
  BY <1>3, <1>4

LEMMA Joined ==
  ASSUME NEW X, NEW r \in Seq(X), NEW s \in Seq(X)
  PROVE  r \o s \in Seq(X) /\ Range(r \o s) = Range(r) \cup Range(s)
<1> DEFINE t == r \o s
<1>1. /\ t \in Seq(X) /\ Len(r) \in Nat /\ Len(s) \in Nat /\ DOMAIN r = 1 .. Len(r) /\ DOMAIN s = 1 .. Len(s)
      /\ DOMAIN t = 1 .. Len(r) + Len(s)
      /\ \A i \in 1 .. Len(r) : t[i] = r[i]
      /\ \A i \in 1 .. Len(s) : t[Len(r) + i] = s[i]
  OBVIOUS
<1> HIDE DEF t
<1>2. ASSUME NEW y \in Range(t) PROVE y \in Range(r) \cup Range(s)
  <2>1. PICK i \in DOMAIN t : y = t[i]
    BY RangeIs
  <2>2. CASE i <= Len(r)
    <3>1. i \in DOMAIN r /\ y = r[i]
      BY <1>1, <2>1, <2>2
    <3> QED
      BY <3>1, RangeIs
  <2>3. CASE ~(i <= Len(r))
    <3>1. i - Len(r) \in DOMAIN s /\ y = s[i - Len(r)]
      <4>1. i - Len(r) \in 1 .. Len(s) /\ Len(r) + (i - Len(r)) = i
        BY <1>1, <2>1, <2>3
      <4>2. t[Len(r) + (i - Len(r))] = s[i - Len(r)]
        BY <1>1, <4>1
      <4> QED
        BY <1>1, <2>1, <4>1, <4>2
    <3> QED
      BY <3>1, RangeIs
  <2> QED
    BY <2>2, <2>3
<1>3. ASSUME NEW y \in Range(r) PROVE y \in Range(t)
  <2>1. PICK i \in DOMAIN r : y = r[i]
    BY RangeIs
  <2>2. i \in DOMAIN t /\ t[i] = y
    BY <1>1, <2>1
  <2> QED
    BY <2>2, RangeIs
<1>4. ASSUME NEW y \in Range(s) PROVE y \in Range(t)
  <2>1. PICK i \in DOMAIN s : y = s[i]
    BY RangeIs
  <2>2. Len(r) + i \in DOMAIN t /\ t[Len(r) + i] = y
    BY <1>1, <2>1
  <2> QED
    BY <2>2, RangeIs
<1>5. Range(t) = Range(r) \cup Range(s)
  BY <1>2, <1>3, <1>4
<1> QED
  BY <1>1, <1>5 DEF t

LEMMA JoinSorted ==
  ASSUME NEW r \in Seq(Span), NEW s \in Seq(Span), Sorted(r), Sorted(s), \A x \in Range(r), y \in Range(s) : x.at < y.at
  PROVE  Sorted(r \o s)
<1> DEFINE t == r \o s
<1>1. /\ Len(r) \in Nat /\ Len(s) \in Nat /\ DOMAIN r = 1 .. Len(r) /\ DOMAIN s = 1 .. Len(s)
      /\ DOMAIN t = 1 .. Len(r) + Len(s)
      /\ \A i \in 1 .. Len(r) : t[i] = r[i]
      /\ \A i \in 1 .. Len(s) : t[Len(r) + i] = s[i]
  OBVIOUS
<1> HIDE DEF t
<1>2. ASSUME NEW i \in DOMAIN t, ~(i <= Len(r)) PROVE i - Len(r) \in DOMAIN s /\ t[i] = s[i - Len(r)]
  <2>1. i - Len(r) \in 1 .. Len(s) /\ Len(r) + (i - Len(r)) = i
    BY <1>1, <1>2
  <2>2. t[Len(r) + (i - Len(r))] = s[i - Len(r)]
    BY <1>1, <2>1
  <2> QED
    BY <1>1, <2>1, <2>2
<1> SUFFICES ASSUME NEW i \in DOMAIN t, NEW j \in DOMAIN t, i < j PROVE t[i].at < t[j].at
  BY DEF Sorted, t
<1>3. CASE j <= Len(r)
  <2>1. i \in DOMAIN r /\ j \in DOMAIN r /\ t[i] = r[i] /\ t[j] = r[j]
    BY <1>1, <1>3
  <2> QED
    BY <2>1 DEF Sorted
<1>4. CASE i <= Len(r) /\ ~(j <= Len(r))
  <2>1. i \in DOMAIN r /\ t[i] = r[i]
    BY <1>1, <1>4
  <2>2. t[i] \in Range(r) /\ t[j] \in Range(s)
    BY <1>2, <1>4, <2>1, RangeIs
  <2> QED
    BY <2>2
<1>5. CASE ~(i <= Len(r))
  <2>1. ~(j <= Len(r)) /\ i - Len(r) < j - Len(r)
    BY <1>1, <1>5
  <2> QED
    BY <1>2, <1>5, <2>1 DEF Sorted
<1> QED
  BY <1>1, <1>3, <1>4, <1>5

-----------------------------------------------------------------------------
(* What the limits leave.                                                  *)

Upto(s, S) == S \subseteq 0 .. Len(s) /\ Len(s) \in S

LEMMA ZeroOrOne == \A n \in Nat : n <= 1 /\ n # 0 => n = 1
OBVIOUS

LEMMA LeastLeft ==
  ASSUME NEW X, NEW s \in Seq(X), NEW S, Upto(s, S)
  PROVE  Min(S) \in S /\ Suffix(Newest(s, Min(S)), s)
<1>1. Len(s) \in Nat /\ S \in SUBSET Nat /\ S # {}
  BY DEF Upto
<1>2. Min(S) \in S
  BY <1>1, MinIs
<1> QED
  BY <1>2 DEF Suffix, Upto

LEMMA NothingLeft ==
  ASSUME NEW X, NEW s \in Seq(X)
  PROVE  Newest(s, Len(s)) = <<>>
<1>1. Len(s) \in Nat /\ Len(s) \in 0 .. Len(s)
  OBVIOUS
<1>2. Newest(s, Len(s)) \in Seq(X) /\ Len(Newest(s, Len(s))) = Len(s) - Len(s)
  BY <1>1, NewestIs
<1> QED
  BY <1>1, <1>2

LEMMA AgedIs ==
  ASSUME NEW s \in Seq(Span), NEW t
  PROVE  Suffix(Aged(s, t), s)
<1> DEFINE S == {n \in 0 .. Len(s) : n = Len(s) \/ Newest(s, n)[1].at + MaxAge >= t}
<1>1. Upto(s, S)
  <2>1. Len(s) \in Nat
    OBVIOUS
  <2> QED
    BY <2>1 DEF Upto
<1>2. Aged(s, t) = Newest(s, Min(S))
  BY DEF Aged, Fewest
<1> QED
  BY <1>1, <1>2, LeastLeft

LEMMA ThroughIs ==
  ASSUME NEW s \in Seq(Span), NEW t \in Nat, Sorted(s)
  PROVE  Suffix(Through(s, t), s) /\ \A x \in Range(Through(s, t)) : x.at > t
<1> DEFINE S == {n \in 0 .. Len(s) : n = Len(s) \/ Newest(s, n)[1].at > t}
           r == Newest(s, Min(S))
<1>1. Upto(s, S)
  <2>1. Len(s) \in Nat
    OBVIOUS
  <2> QED
    BY <2>1 DEF Upto
<1>2. Through(s, t) = r
  BY DEF Through, Fewest
<1>3. Min(S) \in S /\ Suffix(r, s)
  BY <1>1, LeastLeft
<1>4. r = <<>> \/ r[1].at > t
  <2>1. Min(S) = Len(s) \/ r[1].at > t
    BY <1>3
  <2> QED
    BY <2>1, NothingLeft
<1>5. Sorted(r) /\ r \in Seq(Span)
  BY <1>3, SuffixIs, SuffixSorted
<1> HIDE DEF r
<1>6. ASSUME NEW x \in Range(r) PROVE x.at > t
  <2>1. PICK i \in DOMAIN r : x = r[i]
    BY RangeIs
  <2>2. r # <<>> /\ i \in Nat /\ i >= 1 /\ 1 \in DOMAIN r /\ r[1] \in Span /\ r[i] \in Span
    BY <1>5, <2>1
  <2>3. r[1].at \in Nat /\ r[i].at \in Nat
    BY <2>2, SpanIs
  <2>4. i = 1 \/ r[1].at < r[i].at
    BY <1>5, <2>1, <2>2 DEF Sorted
  <2> QED
    BY <1>4, <2>1, <2>2, <2>3, <2>4
<1> QED
  BY <1>2, <1>3, <1>6

LEMMA RoomForIs ==
  ASSUME NEW s \in Seq(Span), NEW n \in Nat
  PROVE  Suffix(RoomFor(s, n), s) /\ (RoomFor(s, n) = <<>> \/ SumOf(RoomFor(s, n)) + n <= MaxBytes)
<1> DEFINE S == {k \in 0 .. Len(s) : k = Len(s) \/ SumOf(Newest(s, k)) + n <= MaxBytes}
           r == Newest(s, Min(S))
<1>1. Upto(s, S)
  <2>1. Len(s) \in Nat
    OBVIOUS
  <2> QED
    BY <2>1 DEF Upto
<1>2. RoomFor(s, n) = r
  BY DEF RoomFor, Fewest
<1>3. Min(S) \in S /\ Suffix(r, s)
  BY <1>1, LeastLeft
<1>4. Min(S) = Len(s) \/ SumOf(r) + n <= MaxBytes
  BY <1>3
<1>5. r = <<>> \/ SumOf(r) + n <= MaxBytes
  BY <1>4, NothingLeft
<1> HIDE DEF r
<1> QED
  BY <1>2, <1>3, <1>5

LEMMA FittingIs ==
  ASSUME NEW s \in Seq(Span)
  PROVE  Suffix(Fitting(s), s) /\ Fit(Fitting(s))
<1> DEFINE S == {k \in 0 .. Len(s) : k = Len(s) \/ (SumOf(Newest(s, k)) <= MaxBytes /\ Len(Newest(s, k)) <= MaxSpans)}
           r == Newest(s, Min(S))
<1>1. Upto(s, S)
  <2>1. Len(s) \in Nat
    OBVIOUS
  <2> QED
    BY <2>1 DEF Upto
<1>2. Fitting(s) = r
  BY DEF Fitting, Fewest
<1>3. Min(S) \in S /\ Suffix(r, s)
  BY <1>1, LeastLeft
<1>4. Min(S) = Len(s) \/ (SumOf(r) <= MaxBytes /\ Len(r) <= MaxSpans)
  BY <1>3
<1>5. r = <<>> \/ (SumOf(r) <= MaxBytes /\ Len(r) <= MaxSpans)
  BY <1>4, NothingLeft
<1>6. r \in Seq(Span)
  BY <1>3, SuffixIs
<1> HIDE DEF r
<1>7. SumOf(r) \in Nat /\ (r = <<>> => SumOf(r) = 0 /\ Len(r) = 0)
  BY <1>6, SumTyped
<1>8. Fit(r)
  <2>1. MaxBytes \in Nat /\ MaxSpans \in Nat
    BY LimitsAssumption DEF LimitsAssumption
  <2>2. r = <<>> => 0 <= MaxBytes /\ 0 <= MaxSpans
    BY <2>1
  <2> QED
    BY <1>5, <1>7, <2>1, <2>2 DEF Fit
<1> QED
  BY <1>2, <1>3, <1>8

LEMMA TrimmedIs ==
  ASSUME NEW s \in Seq(Span)
  PROVE  Suffix(Trimmed(s), s) /\ Len(Trimmed(s)) <= MaxSpans
<1> DEFINE n == IF Len(s) > MaxSpans THEN Len(s) - MaxSpans ELSE 0
<1>1. MaxSpans \in Nat /\ Len(s) \in Nat
  BY LimitsAssumption DEF LimitsAssumption
<1>2. n \in 0 .. Len(s) /\ Len(s) - n <= MaxSpans
  BY <1>1
<1> HIDE DEF n
<1>3. Len(Newest(s, n)) = Len(s) - n
  BY <1>2, NewestIs
<1>4. Trimmed(s) = Newest(s, n)
  BY DEF Trimmed, n
<1> QED
  BY <1>2, <1>3, <1>4 DEF Suffix

\* What is in memory after a span has arrived are the newest spans, this one
\* among them or not, and they fit.
LEMMA StoredIs ==
  ASSUME NEW s \in Seq(Span), NEW x \in Span
  PROVE  Suffix(Stored(s, x), Append(s, x)) /\ Fit(Stored(s, x))
<1> DEFINE a == Aged(s, x.at)
           b == RoomFor(a, x.size)
           c == Append(b, x)
           q == Trimmed(c)
<1>1. x.size \in Nat
  BY SpanIs
<1>2. Suffix(a, s) /\ a \in Seq(Span)
  BY AgedIs, SuffixIs
<1> HIDE DEF a
<1>3. Suffix(b, a) /\ b \in Seq(Span) /\ (b = <<>> \/ SumOf(b) + x.size <= MaxBytes)
  <2>1. Suffix(b, a) /\ (b = <<>> \/ SumOf(b) + x.size <= MaxBytes)
    BY <1>1, <1>2, RoomForIs
  <2> QED
    BY <1>2, <2>1, SuffixIs
<1> HIDE DEF b
<1>4. Suffix(b, s)
  BY <1>2, <1>3, SuffixChain
<1>5. Suffix(c, Append(s, x)) /\ c \in Seq(Span)
  BY <1>3, <1>4, SuffixAppend
<1>6. SumOf(c) = SumOf(b) + x.size /\ Len(c) = Len(b) + 1 /\ (b = <<>> => Len(c) = 1)
  BY <1>3, SumAppend
<1> HIDE DEF c
<1>7. Suffix(q, c) /\ Len(q) <= MaxSpans
  BY <1>5, TrimmedIs
<1>8. q \in Seq(Span) /\ Len(q) <= Len(c) /\ SumOf(q) <= SumOf(c)
  BY <1>5, <1>7, SuffixIs, SumSuffix
<1> HIDE DEF q
<1>9. SumOf(q) \in Nat /\ SumOf(c) \in Nat /\ MaxBytes \in Nat /\ Len(q) \in Nat /\ (q = <<>> => SumOf(q) = 0)
  BY <1>5, <1>8, SumTyped, LimitsAssumption DEF LimitsAssumption
<1>10. Fit(q)
  <2>1. CASE b = <<>>
    <3>1. Len(q) <= 1
      BY <1>6, <1>8, <2>1
    <3>2. Len(q) = 0 => q = <<>>
      BY <1>8
    <3>3. ~(0 > MaxBytes)
      BY <1>9
    <3>4. SumOf(q) > MaxBytes => Len(q) # 0
      BY <1>9, <3>2, <3>3
    <3>5. Len(q) # 0 => Len(q) = 1
      <4>1. Len(q) \in Nat
        BY <1>9
      <4> QED
        BY <3>1, <4>1, ZeroOrOne, Zenon
    <3> QED
      BY <1>7, <3>4, <3>5 DEF Fit
  <2>2. CASE b # <<>>
    <3>1. SumOf(q) <= MaxBytes
      BY <1>3, <1>6, <1>8, <1>9, <2>2
    <3> QED
      BY <1>7, <1>9, <3>1 DEF Fit
  <2> QED
    BY <2>1, <2>2
<1>11. Append(s, x) \in Seq(Span)
  OBVIOUS
<1>12. Suffix(q, Append(s, x))
  BY <1>5, <1>7, <1>11, SuffixChain
<1>13. q = Stored(s, x)
  BY DEF q, c, b, a, Stored
<1> QED
  BY <1>10, <1>12, <1>13

-----------------------------------------------------------------------------
(* What has been read and has not expired: again a recursive function.     *)

IsKept(f, s, t) ==
  f = [n \in 0 .. Len(s) |-> IF n = 0 THEN <<>>
                             ELSE IF s[n].at > t THEN Append(f[n - 1], s[n]) ELSE f[n - 1]]

Keeps(f, k, s, t) ==
  f[0] = <<>> /\ \A n \in 1 .. k : f[n] = IF s[n].at > t THEN Append(f[n - 1], s[n]) ELSE f[n - 1]

LEMMA KeptExists == ASSUME NEW s \in Seq(Span), NEW t PROVE \E f : IsKept(f, s, t)
<1> DEFINE N == Len(s)
           S == {k \in 0 .. N : \E f \in [0 .. N -> Seq(Span)] : Keeps(f, k, s, t)}
<1>0. N \in Nat /\ \A n \in 1 .. N : s[n] \in Span
  OBVIOUS
<1> HIDE DEF N
<1>1. 0 \in S
  <2> DEFINE f == [n \in 0 .. N |-> <<>>]
  <2>1. f \in [0 .. N -> Seq(Span)] /\ f[0] = <<>>
    BY <1>0
  <2> HIDE DEF f
  <2>2. Keeps(f, 0, s, t)
    BY <2>1 DEF Keeps
  <2>3. 0 \in 0 .. N
    BY <1>0
  <2> QED
    BY <2>1, <2>2, <2>3
<1>2. ASSUME NEW k \in 0 .. N - 1, k \in S PROVE k + 1 \in S
  <2>1. PICK f \in [0 .. N -> Seq(Span)] : Keeps(f, k, s, t)
    BY <1>2
  <2> DEFINE v == IF s[k + 1].at > t THEN Append(f[k], s[k + 1]) ELSE f[k]
             g == [f EXCEPT ![k + 1] = v]
  <2>2. k \in Nat /\ k + 1 \in 1 .. N /\ k \in 0 .. N /\ k + 1 \in 0 .. N
    BY <1>0
  <2>3. v \in Seq(Span)
    <3>1. f[k] \in Seq(Span) /\ s[k + 1] \in Span
      BY <1>0, <2>2
    <3> QED
      BY <3>1
  <2>4. v = IF s[k + 1].at > t THEN Append(f[k], s[k + 1]) ELSE f[k]
    OBVIOUS
  <2> HIDE DEF v
  <2>5. g \in [0 .. N -> Seq(Span)] /\ g[k + 1] = v /\ \A n \in 0 .. k : g[n] = f[n]
    BY <2>2, <2>3, <1>0
  <2> HIDE DEF g
  <2>6. g[0] = <<>>
    BY <2>1, <2>5, <2>2 DEF Keeps
  <2>7. ASSUME NEW n \in 1 .. k + 1
        PROVE  g[n] = IF s[n].at > t THEN Append(g[n - 1], s[n]) ELSE g[n - 1]
    <3>1. CASE n = k + 1
      <4>1. n - 1 = k /\ k \in 0 .. k
        BY <2>2, <3>1
      <4>2. g[n - 1] = f[k]
        BY <2>5, <4>1
      <4> QED
        BY <2>4, <2>5, <3>1, <4>2
    <3>2. CASE n # k + 1
      <4>1. n \in 1 .. k /\ n - 1 \in 0 .. k /\ n \in 0 .. k
        BY <2>2, <3>2
      <4>2. g[n] = f[n] /\ g[n - 1] = f[n - 1]
        BY <2>5, <4>1
      <4>3. f[n] = IF s[n].at > t THEN Append(f[n - 1], s[n]) ELSE f[n - 1]
        BY <2>1, <4>1 DEF Keeps
      <4> QED
        BY <4>2, <4>3
    <3> QED
      BY <3>1, <3>2
  <2>8. Keeps(g, k + 1, s, t)
    BY <2>6, <2>7 DEF Keeps
  <2> QED
    BY <2>2, <2>5, <2>8
<1> HIDE DEF S
<1>3. N \in S
  <2>1. \A k \in 0 .. N : k \in S
    BY <1>0, <1>1, <1>2, Reaches
  <2> QED
    BY <1>0, <2>1
<1>4. PICK f \in [0 .. N -> Seq(Span)] : Keeps(f, N, s, t)
  BY <1>3 DEF S
<1>5. f = [n \in 0 .. N |-> IF n = 0 THEN <<>> ELSE IF s[n].at > t THEN Append(f[n - 1], s[n]) ELSE f[n - 1]]
  <2>1. f = [n \in 0 .. N |-> f[n]]
    OBVIOUS
  <2>2. ASSUME NEW n \in 0 .. N
        PROVE  f[n] = IF n = 0 THEN <<>> ELSE IF s[n].at > t THEN Append(f[n - 1], s[n]) ELSE f[n - 1]
    <3>1. n # 0 => n \in 1 .. N
      BY <1>0
    <3> QED
      BY <1>4, <3>1 DEF Keeps
  <2> QED
    BY <2>1, <2>2, Zenon
<1> QED
  BY <1>5 DEF IsKept, N

LEMMA AfterIs ==
  ASSUME NEW s \in Seq(Span), NEW t \in Nat, Sorted(s)
  PROVE  /\ After(s, t) \in Seq(Span) /\ Sorted(After(s, t))
         /\ \A x : x \in Range(After(s, t)) <=> x \in Range(s) /\ x.at > t
<1> DEFINE f == CHOOSE g : IsKept(g, s, t)
           Part(q, k) == \A x : x \in Range(q) <=> \E i \in 1 .. k : x = s[i] /\ s[i].at > t
           S == {k \in 0 .. Len(s) : f[k] \in Seq(Span) /\ Sorted(f[k]) /\ Part(f[k], k)}
<1>1. IsKept(f, s, t)
  BY KeptExists
<1>2. After(s, t) = f[Len(s)]
  BY DEF After, IsKept
<1> HIDE DEF f
<1>3. Len(s) \in Nat /\ \A n \in 1 .. Len(s) : s[n] \in Span /\ s[n].at \in Nat
  BY SpanIs
<1>4. Keeps(f, Len(s), s, t)
  <2>1. f = [n \in 0 .. Len(s) |-> IF n = 0 THEN <<>>
                                 ELSE IF s[n].at > t THEN Append(f[n - 1], s[n]) ELSE f[n - 1]]
    BY <1>1 DEF IsKept
  <2>2. 0 \in 0 .. Len(s) /\ \A n \in 1 .. Len(s) : n \in 0 .. Len(s) /\ n # 0
    BY <1>3
  <2>3. f[0] = <<>>
    BY <2>1, <2>2
  <2>4. ASSUME NEW n \in 1 .. Len(s)
        PROVE  f[n] = IF s[n].at > t THEN Append(f[n - 1], s[n]) ELSE f[n - 1]
    BY <2>1, <2>2, Zenon
  <2> QED
    BY <2>3, <2>4 DEF Keeps
<1>5. 0 \in S
  <2>1. f[0] = <<>>
    BY <1>4 DEF Keeps
  <2>2. <<>> \in Seq(Span) /\ Sorted(<<>>)
    BY DEF Sorted
  <2>3. \A x : x \notin Range(<<>>)
    BY RangeIs
  <2>4. Part(<<>>, 0)
    BY <2>3
  <2>5. 0 \in 0 .. Len(s)
    BY <1>3
  <2> HIDE DEF Part
  <2> QED
    BY <2>1, <2>2, <2>4, <2>5
<1>6. ASSUME NEW k \in 0 .. Len(s) - 1, k \in S PROVE k + 1 \in S
  <2>1. /\ k \in Nat /\ k + 1 \in 1 .. Len(s) /\ k + 1 \in 0 .. Len(s) /\ (k + 1) - 1 = k
        /\ \A i \in 1 .. k + 1 : i \in 1 .. k \/ i = k + 1
        /\ \A i \in 1 .. k : i \in 1 .. k + 1 /\ i \in DOMAIN s /\ i < k + 1
        /\ k + 1 \in DOMAIN s
        /\ k + 1 \in 1 .. k + 1
    BY <1>3
  <2>2. f[k] \in Seq(Span) /\ Sorted(f[k]) /\ Part(f[k], k)
    BY <1>6
  <2> HIDE DEF S
  <2>3. f[k + 1] = IF s[k + 1].at > t THEN Append(f[k], s[k + 1]) ELSE f[k]
    BY <1>4, <2>1 DEF Keeps
  <2>4. CASE s[k + 1].at > t
    <3>1. f[k + 1] = Append(f[k], s[k + 1]) /\ s[k + 1] \in Span
      BY <1>3, <2>1, <2>3, <2>4
    <3>2. Range(f[k + 1]) = Range(f[k]) \cup {s[k + 1]}
      BY <2>2, <3>1, RangeAppend
    <3>3. ASSUME NEW x \in Range(f[k]) PROVE x.at < s[k + 1].at
      <4>1. PICK i \in 1 .. k : x = s[i]
        BY <2>2
      <4> QED
        BY <2>1, <4>1 DEF Sorted
    <3>4. Sorted(f[k + 1])
      BY <2>2, <3>1, <3>3, SortedAppend
    <3>5. Part(f[k + 1], k + 1)
      BY <2>1, <2>2, <2>4, <3>2
    <3>6. f[k + 1] \in Seq(Span)
      BY <2>2, <3>1
    <3> HIDE DEF Part
    <3> QED
      BY <2>1, <3>4, <3>5, <3>6 DEF S
  <2>5. CASE ~(s[k + 1].at > t)
    <3>1. f[k + 1] = f[k]
      BY <2>3, <2>5
    <3>2. Part(f[k], k + 1)
      BY <2>1, <2>2, <2>5
    <3> HIDE DEF Part
    <3> QED
      BY <2>1, <2>2, <3>1, <3>2 DEF S
  <2> QED
    BY <2>4, <2>5
<1> HIDE DEF S
<1>7. Len(s) \in S
  <2>1. \A k \in 0 .. Len(s) : k \in S
    BY <1>3, <1>5, <1>6, Reaches
  <2> QED
    BY <1>3, <2>1
<1>8. f[Len(s)] \in Seq(Span) /\ Sorted(f[Len(s)]) /\ Part(f[Len(s)], Len(s))
  BY <1>7 DEF S
<1>9. \A x : x \in Range(f[Len(s)]) <=> x \in Range(s) /\ x.at > t
  <2>1. \A x : x \in Range(s) <=> \E i \in 1 .. Len(s) : x = s[i]
    BY RangeIs
  <2> QED
    BY <1>8, <2>1
<1> QED
  BY <1>2, <1>8, <1>9

-----------------------------------------------------------------------------
(* The disk.                                                               *)

LEMMA TimesIs == Times \subseteq Nat /\ 0 \in Times /\ MaxTime \in Nat
BY LimitsAssumption DEF LimitsAssumption, Times

LEMMA FileIs ==
  \A f \in File : /\ f.name \in Times /\ f.run \in Times /\ f.lines \in Seq(Span) /\ f.modified \in Times
                  /\ f.name \in Nat /\ f.modified \in Nat
<1>1. \A f \in File : f.name \in Times /\ f.run \in Times /\ f.lines \in Seq(Span) /\ f.modified \in Times
  BY DEF File
<1> QED
  BY <1>1, TimesIs

LEMMA FilesAre ==
  ASSUME NEW fs \in Seq(File)
  PROVE  /\ Len(fs) \in Nat /\ DOMAIN fs = 1 .. Len(fs)
         /\ \A i \in DOMAIN fs : i \in Nat /\ fs[i] \in File /\ fs[i].lines \in Seq(Span)
<1>1. Len(fs) \in Nat /\ DOMAIN fs = 1 .. Len(fs) /\ \A i \in DOMAIN fs : i \in Nat /\ fs[i] \in File
  OBVIOUS
<1> QED
  BY <1>1, FileIs

\* The spans of a file.
LEMMA LinesAre ==
  ASSUME NEW fs, NEW t \in Nat, DiskOK(fs, t), NEW i \in DOMAIN fs, NEW x \in Range(fs[i].lines)
  PROVE  /\ x \in Span /\ x.at \in Nat
         /\ fs[i].name >= 1 /\ fs[i].name <= x.at /\ x.at <= fs[i].modified /\ fs[i].modified <= t
<1>1. fs[i] \in File /\ fs[i].lines \in Seq(Span)
  BY FilesAre DEF DiskOK
<1>2. x \in Span
  <2>1. PICK k \in DOMAIN fs[i].lines : x = fs[i].lines[k]
    BY RangeIs
  <2> QED
    BY <1>1, <2>1
<1>3. FileOK(fs[i], t)
  BY DEF DiskOK
<1>4. fs[i].name \in Nat /\ fs[i].modified \in Nat /\ x.at \in Nat
  BY <1>1, <1>2, FileIs, SpanIs
<1> QED
  BY <1>2, <1>3, <1>4 DEF FileOK

\* Time passes.
LEMMA DiskLater ==
  ASSUME NEW fs, NEW t \in Nat, NEW u \in Nat, t <= u, DiskOK(fs, t)
  PROVE  DiskOK(fs, u)
<1>1. ASSUME NEW i \in DOMAIN fs PROVE FileOK(fs[i], u)
  <2>1. FileOK(fs[i], t)
    BY DEF DiskOK
  <2>2. fs[i].name \in Nat /\ fs[i].modified \in Nat
    BY FilesAre, FileIs DEF DiskOK
  <2>3. fs[i].name \in 1 .. u /\ fs[i].modified \in fs[i].name .. u
    BY <2>1, <2>2 DEF FileOK
  <2> QED
    BY <2>1, <2>3 DEF FileOK
<1> QED
  BY <1>1 DEF DiskOK

LEMMA NotesLater ==
  ASSUME NEW fs, NEW m, NEW t \in Nat, NEW u \in Nat, t <= u, Notes(fs, m, t)
  PROVE  Notes(fs, m, u)
<1>1. ASSUME NEW k \in Times, k > u PROVE m[k] = 0
  <2>1. k > t
    BY <1>1, TimesIs
  <2> QED
    BY <2>1 DEF Notes
<1> QED
  BY <1>1 DEF Notes

LEMMA CurLater ==
  ASSUME NEW fs, NEW c, NEW r, NEW t \in Nat, NEW u \in Nat, t <= u, CurOK(fs, c, r, t)
  PROVE  CurOK(fs, c, r, u)
<1>1. r \in 1 .. u /\ c.name \in r .. u
  BY DEF CurOK
<1>2. Notes(fs, c.newest, u)
  BY NotesLater DEF CurOK
<1> QED
  BY <1>1, <1>2 DEF CurOK

LEMMA MemLater ==
  ASSUME NEW s, NEW t \in Nat, NEW u \in Nat, t <= u, MemOK(s, t)
  PROVE  MemOK(s, u)
<1>1. ASSUME NEW x \in Range(s) PROVE x.at \in 1 .. u
  <2>1. x.at \in 1 .. t
    BY DEF MemOK
  <2> QED
    BY <2>1
<1> QED
  BY <1>1 DEF MemOK

LEMMA LoadLater ==
  ASSUME NEW fs, NEW ld, NEW r, NEW t \in Nat, NEW u \in Nat, t <= u, LoadOK(fs, ld, r, t)
  PROVE  LoadOK(fs, ld, r, u)
<1>1. ASSUME NEW x \in Range(ld.spans) PROVE x.at \in 1 .. u
  <2>1. x.at \in 1 .. t
    BY DEF LoadOK
  <2> QED
    BY <2>1
<1> QED
  BY <1>1 DEF LoadOK

LEMMA GoneLater ==
  ASSUME NEW fs, NEW s, NEW ld, NEW d, NEW ex, NEW t \in Nat, NEW u \in Nat, t <= u, GoneOK(fs, s, ld, d, ex, t)
  PROVE  GoneOK(fs, s, ld, d, ex, u)
<1>1. d \in 0 .. u
  BY DEF GoneOK
<1>2. ASSUME NEW x \in ex PROVE x.at <= u
  <2>1. x.at <= t /\ x.at \in Nat
    BY SpanIs DEF GoneOK
  <2> QED
    BY <2>1
<1> QED
  BY <1>1, <1>2 DEF GoneOK

LEMMA ServedLater ==
  ASSUME NEW fs, NEW s, NEW ld, NEW d, NEW sv, NEW t \in Nat, NEW u \in Nat, t <= u, ServedOK(fs, s, ld, d, sv, t)
  PROVE  ServedOK(fs, s, ld, d, sv, u)
<1>1. sv \subseteq 1 .. u
  BY DEF ServedOK
<1> QED
  BY <1>1 DEF ServedOK

LEMMA Later ==
  ASSUME NEW fs, NEW c, NEW s, NEW ld, NEW d, NEW r, NEW rs, NEW sv, NEW ex, NEW t \in Nat, NEW u \in Nat, t <= u,
         Sound(fs, c, s, ld, d, r, rs, sv, ex, t)
  PROVE  Sound(fs, c, s, ld, d, r, rs, sv, ex, u)
BY DiskLater, CurLater, MemLater, LoadLater, GoneLater, ServedLater DEF Sound

-----------------------------------------------------------------------------
(* Files that hold what files before them have held, and new ones.         *)

Same(g, f) == g.name = f.name /\ g.run = f.run /\ g.lines = f.lines /\ f.modified <= g.modified

Covered(gs, fs, u) ==
  \A j \in DOMAIN gs : \/ gs[j].lines = <<>> /\ gs[j].name = u
                       \/ \E i \in DOMAIN fs : Same(gs[j], fs[i])

LEMMA NoLines == Range(<<>>) = {}
BY DEF Range

\* What is in no file of fs is in none of gs.
LEMMA CoveredLines ==
  ASSUME NEW fs, NEW gs, NEW u, Covered(gs, fs, u), NEW j \in DOMAIN gs, NEW x \in Range(gs[j].lines)
  PROVE  \E i \in DOMAIN fs : Same(gs[j], fs[i]) /\ x \in Range(fs[i].lines)
BY NoLines DEF Covered, Same

LEMMA PastCovered ==
  ASSUME NEW fs, NEW gs, NEW u, Covered(gs, fs, u), NEW s, NEW ld, NEW d, NEW k, Past(k, fs, s, ld, d)
  PROVE  Past(k, gs, s, ld, d)
<1>1. \A j \in DOMAIN gs : \A x \in Range(gs[j].lines) : k < x.at
  BY CoveredLines DEF Past
<1> QED
  BY <1>1 DEF Past

LEMMA GoneCovered ==
  ASSUME NEW fs, NEW gs, NEW u, Covered(gs, fs, u), NEW s, NEW ld, NEW d, NEW ex, NEW t,
         GoneOK(fs, s, ld, d, ex, t)
  PROVE  GoneOK(gs, s, ld, d, ex, t)
<1>1. ASSUME NEW j \in DOMAIN gs, NEW y \in Range(gs[j].lines)
      PROVE  d < y.at /\ \A x \in ex : x.at < y.at
  <2>1. PICK i \in DOMAIN fs : y \in Range(fs[i].lines)
    BY CoveredLines
  <2> QED
    BY <2>1 DEF GoneOK
<1> QED
  BY <1>1 DEF GoneOK

LEMMA HoleCovered ==
  ASSUME NEW fs, NEW gs, NEW u, Covered(gs, fs, u), NEW s, NEW ld, NEW r, HoleOK(fs, s, ld, r)
  PROVE  HoleOK(gs, s, ld, r)
<1> SUFFICES ASSUME ld.pc = "done" /\ s # <<>>, NEW j \in DOMAIN gs, NEW x \in Range(gs[j].lines),
                    x.at >= s[1].at /\ x.at < r
             PROVE  x \in Range(s)
  BY DEF HoleOK
<1>1. PICK i \in DOMAIN fs : x \in Range(fs[i].lines)
  BY CoveredLines
<1> QED
  BY <1>1 DEF HoleOK

LEMMA NotesCovered ==
  ASSUME NEW fs \in Seq(File), NEW gs \in Seq(File), NEW u \in Times, Covered(gs, fs, u), NEW m, NEW t, Notes(fs, m, t),
         m[u] = 0
  PROVE  Notes(gs, m, t)
<1> SUFFICES ASSUME NEW j \in DOMAIN gs, m[gs[j].name] # 0
             PROVE  m[gs[j].name] \in gs[j].name .. gs[j].modified /\ \A x \in Range(gs[j].lines) : x.at <= m[gs[j].name]
  BY DEF Notes
<1>1. PICK i \in DOMAIN fs : Same(gs[j], fs[i])
  BY DEF Covered
<1>2. m[fs[i].name] \in fs[i].name .. fs[i].modified /\ \A x \in Range(fs[i].lines) : x.at <= m[fs[i].name]
  BY <1>1 DEF Notes, Same
<1>3. fs[i].name \in Nat /\ fs[i].modified \in Nat /\ gs[j].modified \in Nat
  BY FilesAre, FileIs
<1>4. gs[j].name = fs[i].name /\ gs[j].lines = fs[i].lines /\ fs[i].modified <= gs[j].modified
  BY <1>1 DEF Same
<1> QED
  BY <1>2, <1>3, <1>4

LEMMA LoadCovered ==
  ASSUME NEW fs \in Seq(File), NEW gs \in Seq(File), NEW u \in Times, Covered(gs, fs, u), NEW ld, NEW r \in Nat, r <= u, NEW t,
         LoadOK(fs, ld, r, t)
  PROVE  LoadOK(gs, ld, r, t)
<1>0. u \in Nat /\ u \notin ld.names /\ ~(u < r) /\ u > r - 1
  <2>1. u \in Nat
    BY TimesIs
  <2>2. \A k \in ld.names : k < r
    BY DEF LoadOK
  <2> QED
    BY <2>1, <2>2
<1>1. ASSUME NEW j \in DOMAIN gs, gs[j].name \in ld.names, NEW x \in Range(ld.spans), NEW y \in Range(gs[j].lines)
      PROVE  x.at < y.at
  <2>1. PICK i \in DOMAIN fs : Same(gs[j], fs[i]) /\ y \in Range(fs[i].lines)
    BY CoveredLines
  <2>2. fs[i].name \in ld.names
    BY <1>1, <2>1 DEF Same
  <2> QED
    BY <2>1, <2>2 DEF LoadOK
<1>2. Notes(gs, ld.newest, r - 1)
  <2>1. Notes(fs, ld.newest, r - 1)
    BY DEF LoadOK
  <2>2. ld.newest[u] = 0
    BY <1>0, <2>1 DEF Notes
  <2> QED
    BY <2>1, <2>2, NotesCovered
<1>3. ASSUME ld.pc = "read", NEW j \in DOMAIN gs, gs[j].name < r
      PROVE  gs[j].name \in ld.names \/ Range(gs[j].lines) \subseteq Range(ld.spans)
  <2>1. PICK i \in DOMAIN fs : Same(gs[j], fs[i])
    BY <1>0, <1>3 DEF Covered
  <2>2. gs[j].name = fs[i].name /\ gs[j].lines = fs[i].lines
    BY <2>1 DEF Same
  <2> QED
    BY <1>3, <2>2 DEF LoadOK
<1> QED
  BY <1>1, <1>2, <1>3 DEF LoadOK

LEMMA ServedCovered ==
  ASSUME NEW fs, NEW gs, NEW u, Covered(gs, fs, u), NEW s, NEW ld, NEW d, NEW sv, NEW t, u \notin sv,
         ServedOK(fs, s, ld, d, sv, t),
         \A k \in sv : (\E i \in DOMAIN fs : fs[i].name = k) => (\E j \in DOMAIN gs : gs[j].name = k) \/ Past(k, gs, s, ld, d)
  PROVE  ServedOK(gs, s, ld, d, sv, t)
<1>1. ASSUME NEW j \in DOMAIN gs, gs[j].name \in sv PROVE gs[j].run = gs[j].name
  <2>1. PICK i \in DOMAIN fs : Same(gs[j], fs[i])
    BY <1>1 DEF Covered
  <2> QED
    BY <1>1, <2>1 DEF ServedOK, Same
<1>2. ASSUME NEW k \in sv PROVE (\E j \in DOMAIN gs : gs[j].name = k) \/ Past(k, gs, s, ld, d)
  <2>1. (\E i \in DOMAIN fs : fs[i].name = k) \/ Past(k, fs, s, ld, d)
    BY DEF ServedOK
  <2> QED
    BY <2>1, PastCovered
<1> QED
  BY <1>1, <1>2 DEF ServedOK

LEMMA ToldCovered ==
  ASSUME NEW fs, NEW gs, NEW u, Covered(gs, fs, u), NEW ld, NEW r, NEW rs, NEW sv, u \notin sv, ToldOK(fs, ld, r, rs, sv)
  PROVE  ToldOK(gs, ld, r, rs, sv)
<1>1. ASSUME NEW j \in DOMAIN gs, gs[j].name \in sv PROVE \E i \in DOMAIN fs : gs[j].name = fs[i].name
  BY <1>1 DEF Covered, Same
<1>2. ASSUME ld.pc = "read", NEW j \in DOMAIN gs, gs[j].name \in sv, gs[j].name < r
      PROVE  gs[j].name \in ld.names \cup ld.runs
  <2>1. PICK i \in DOMAIN fs : gs[j].name = fs[i].name
    BY <1>1, <1>2
  <2> QED
    BY <1>2, <2>1 DEF ToldOK
<1>3. ASSUME ld.pc = "done", NEW j \in DOMAIN gs, gs[j].name \in sv PROVE gs[j].name \in rs
  <2>1. PICK i \in DOMAIN fs : gs[j].name = fs[i].name
    BY <1>1, <1>3
  <2> QED
    BY <1>3, <2>1 DEF ToldOK
<1> QED
  BY <1>2, <1>3 DEF ToldOK

-----------------------------------------------------------------------------
(* A new file.                                                             *)

CurSet == [open : BOOLEAN, name : Times, earlier : SUBSET Times, newest : [Times -> Times]]

LEMMA HeaderIs ==
  ASSUME NEW u \in Times, NEW q \in Times
  PROVE  /\ Header(u, q) \in File /\ Header(u, q).name = u /\ Header(u, q).run = q
         /\ Header(u, q).lines = <<>> /\ Header(u, q).modified = u
BY DEF Header, File

LEMMA HeadAdded ==
  ASSUME NEW fs \in Seq(File), NEW u \in Times, NEW q \in Times
  PROVE  LET gs == Append(fs, Header(u, q)) IN
         /\ gs \in Seq(File) /\ Len(gs) = Len(fs) + 1 /\ gs[Len(fs) + 1] = Header(u, q)
         /\ \A i \in DOMAIN fs : i \in DOMAIN gs /\ gs[i] = fs[i] /\ i < Len(fs) + 1
         /\ \A j \in DOMAIN gs : j \in Nat /\ (j \in DOMAIN fs \/ j = Len(fs) + 1)
         /\ Len(fs) + 1 \in DOMAIN gs
<1> DEFINE h == Header(u, q)
<1>1. h \in File
  BY HeaderIs
<1> HIDE DEF h
<1> SUFFICES LET gs == Append(fs, h) IN
         /\ gs \in Seq(File) /\ Len(gs) = Len(fs) + 1 /\ gs[Len(fs) + 1] = h
         /\ \A i \in DOMAIN fs : i \in DOMAIN gs /\ gs[i] = fs[i] /\ i < Len(fs) + 1
         /\ \A j \in DOMAIN gs : j \in Nat /\ (j \in DOMAIN fs \/ j = Len(fs) + 1)
         /\ Len(fs) + 1 \in DOMAIN gs
  BY DEF h
<1> QED
  BY <1>1

LEMMA HeadCovered ==
  ASSUME NEW fs \in Seq(File), NEW u \in Times, NEW q \in Times
  PROVE  Covered(Append(fs, Header(u, q)), fs, u)
<1> DEFINE gs == Append(fs, Header(u, q))
<1>1. /\ \A i \in DOMAIN fs : gs[i] = fs[i]
      /\ \A j \in DOMAIN gs : j \in DOMAIN fs \/ j = Len(fs) + 1
      /\ gs[Len(fs) + 1].lines = <<>> /\ gs[Len(fs) + 1].name = u
  BY HeadAdded, HeaderIs
<1> HIDE DEF gs
<1>2. \A i \in DOMAIN fs : fs[i].modified <= fs[i].modified
  BY FilesAre, FileIs
<1>3. Covered(gs, fs, u)
  BY <1>1, <1>2 DEF Covered, Same
<1> QED
  BY <1>3 DEF gs

LEMMA HeadDisk ==
  ASSUME NEW fs, NEW u \in Times, u # 0, NEW q \in Times, DiskOK(fs, u), \A i \in DOMAIN fs : fs[i].name < u
  PROVE  DiskOK(Append(fs, Header(u, q)), u)
<1> DEFINE gs == Append(fs, Header(u, q))
<1>0. fs \in Seq(File)
  BY DEF DiskOK
<1>1. /\ gs \in Seq(File) /\ Len(fs) \in Nat
      /\ \A i \in DOMAIN fs : gs[i] = fs[i] /\ i < Len(fs) + 1 /\ i \in Nat
      /\ \A j \in DOMAIN gs : j \in DOMAIN fs \/ j = Len(fs) + 1
      /\ gs[Len(fs) + 1].lines = <<>> /\ gs[Len(fs) + 1].name = u /\ gs[Len(fs) + 1].modified = u
  BY <1>0, HeadAdded, HeaderIs, FilesAre
<1> HIDE DEF gs
<1>2. ASSUME NEW j \in DOMAIN gs PROVE FileOK(gs[j], u)
  <2>1. CASE j \in DOMAIN fs
    BY <1>1, <2>1 DEF DiskOK
  <2>2. CASE j = Len(fs) + 1
    <3>1. u \in Nat /\ u \in 1 .. u /\ u \in u .. u
      BY TimesIs
    <3>2. Sorted(<<>>)
      BY DEF Sorted
    <3> QED
      BY <1>1, <2>2, <3>1, <3>2, NoLines DEF FileOK
  <2> QED
    BY <1>1, <2>1, <2>2
<1>3. ASSUME NEW i \in DOMAIN gs, NEW j \in DOMAIN gs, i < j
      PROVE  gs[i].name < gs[j].name /\ \A x \in Range(gs[j].lines) : gs[i].modified < x.at
  <2>1. CASE j \in DOMAIN fs
    <3>1. i \in DOMAIN fs
      BY <1>1, <1>3, <2>1
    <3> QED
      BY <1>1, <1>3, <2>1, <3>1 DEF DiskOK
  <2>2. CASE j = Len(fs) + 1
    <3>1. i \in DOMAIN fs
      BY <1>1, <1>3, <2>2
    <3> QED
      BY <1>1, <2>2, <3>1, NoLines
  <2> QED
    BY <1>1, <2>1, <2>2
<1>4. DiskOK(gs, u)
  BY <1>1, <1>2, <1>3 DEF DiskOK
<1> QED
  BY <1>4 DEF gs

LEMMA HeadNotes ==
  ASSUME NEW fs \in Seq(File), NEW t \in Nat, NEW u \in Times, u = t + 1, NEW q \in Times, NEW m, Notes(fs, m, t)
  PROVE  Notes(Append(fs, Header(u, q)), m, u)
<1> DEFINE gs == Append(fs, Header(u, q))
<1>1. gs \in Seq(File)
  BY HeadAdded
<1>2. Covered(gs, fs, u)
  BY HeadCovered
<1> HIDE DEF gs
<1>3. u \in Nat /\ t <= u /\ u > t
  BY TimesIs
<1>4. m[u] = 0
  BY <1>3 DEF Notes
<1>5. Notes(gs, m, t)
  BY <1>1, <1>2, <1>4, NotesCovered
<1>6. Notes(gs, m, u)
  BY <1>3, <1>5, NotesLater
<1> QED
  BY <1>6 DEF gs

\* All that is known of the files at t + 1, when nothing has happened yet.
LEMMA Names ==
  ASSUME NEW fs, NEW t \in Nat, DiskOK(fs, t), NEW i \in DOMAIN fs
  PROVE  /\ fs[i].name \in Nat /\ fs[i].modified \in Nat /\ fs[i].name >= 1
         /\ fs[i].name <= fs[i].modified /\ fs[i].modified <= t /\ fs[i].name <= t
<1>1. FileOK(fs[i], t)
  BY DEF DiskOK
<1>2. fs[i].name \in Nat /\ fs[i].modified \in Nat
  BY FilesAre, FileIs DEF DiskOK
<1> QED
  BY <1>1, <1>2 DEF FileOK

LEMMA Opened ==
  ASSUME NEW fs, NEW c, NEW s, NEW ld, NEW d, NEW r, NEW rs, NEW sv, NEW ex,
         NEW t \in Nat, NEW u \in Times, u = t + 1, NEW q \in Times,
         Sound(fs, c, s, ld, d, r, rs, sv, ex, t),
         NEW e \in CurSet, e.earlier = c.earlier, e.newest = c.newest, e.name \in {c.name, u}
  PROVE  Sound(Append(fs, Header(u, q)), e, s, ld, d, r, rs, sv, ex, u)
<1> DEFINE gs == Append(fs, Header(u, q))
<1>1. u \in Nat /\ u # 0 /\ t <= u /\ t < u
  BY TimesIs
<1>2. fs \in Seq(File) /\ DiskOK(fs, t) /\ CurOK(fs, c, r, t)
  BY DEF Sound, DiskOK
<1>3. \A i \in DOMAIN fs : fs[i].name < u /\ fs[i].name \in Nat
  BY <1>1, <1>2, Names
<1>4. r \in Nat /\ 1 <= r /\ r <= t /\ r <= u
  BY <1>1, <1>2 DEF CurOK
<1>5. DiskOK(gs, u)
  BY <1>1, <1>2, <1>3, DiskLater, HeadDisk
<1>6. /\ gs \in Seq(File) /\ Covered(gs, fs, u)
      /\ \A i \in DOMAIN fs : i \in DOMAIN gs /\ gs[i] = fs[i]
      /\ \A j \in DOMAIN gs : j \in DOMAIN fs \/ (gs[j].lines = <<>> /\ gs[j].name = u)
  BY <1>2, HeadAdded, HeadCovered, HeaderIs
<1>7. Notes(gs, c.newest, u)
  BY <1>1, <1>2, HeadNotes DEF CurOK
<1> HIDE DEF gs
<1>8. u \notin sv
  BY <1>1 DEF Sound, ServedOK
<1>9. CurOK(gs, e, r, u)
  <2>1. e \in CurSet /\ r \in 1 .. u /\ e.name \in r .. u /\ c.name \in Nat /\ c.name <= t
    BY <1>1, <1>2, <1>4 DEF CurOK
  <2>2. \A k \in e.earlier : k < r
    BY <1>2 DEF CurOK
  <2>3. ASSUME NEW j \in DOMAIN gs, gs[j].name < r PROVE gs[j].name \in e.earlier /\ gs[j].modified < r
    <3>1. j \in DOMAIN fs
      BY <1>1, <1>4, <1>6, <2>3
    <3> QED
      BY <1>2, <1>6, <2>3, <3>1 DEF CurOK
  <2>4. ASSUME NEW j \in DOMAIN gs, gs[j].name > e.name PROVE gs[j].lines = <<>>
    <3>1. CASE j \in DOMAIN fs
      <4>1. gs[j] = fs[j] /\ fs[j].name < u /\ fs[j].name \in Nat
        BY <1>3, <1>6, <3>1
      <4>2. fs[j].name > c.name
        BY <1>1, <2>1, <2>4, <4>1
      <4> QED
        BY <1>2, <3>1, <4>1, <4>2 DEF CurOK
    <3> QED
      BY <1>6, <3>1
  <2> QED
    BY <1>7, <2>1, <2>2, <2>3, <2>4 DEF CurOK, CurSet
<1>10. MemOK(s, u) /\ LoadOK(gs, ld, r, u) /\ Arrived(s, ld, r) /\ GoneOK(gs, s, ld, d, ex, u) /\ HoleOK(gs, s, ld, r)
  <2>1. MemOK(s, u)
    BY <1>1, MemLater DEF Sound
  <2>2. LoadOK(fs, ld, r, u) /\ GoneOK(fs, s, ld, d, ex, u) /\ HoleOK(fs, s, ld, r)
    BY <1>1, LoadLater, GoneLater DEF Sound
  <2>3. LoadOK(gs, ld, r, u)
    BY <1>2, <1>4, <1>6, <2>2, LoadCovered
  <2> QED
    BY <1>6, <2>1, <2>2, <2>3, GoneCovered, HoleCovered DEF Sound
<1>11. ServedOK(gs, s, ld, d, sv, u) /\ ToldOK(gs, ld, r, rs, sv)
  <2>1. ServedOK(fs, s, ld, d, sv, u) /\ ToldOK(fs, ld, r, rs, sv)
    BY <1>1, ServedLater DEF Sound
  <2>2. \A k \in sv : (\E i \in DOMAIN fs : fs[i].name = k) => \E j \in DOMAIN gs : gs[j].name = k
    BY <1>6
  <2> QED
    BY <1>6, <1>8, <2>1, <2>2, ServedCovered, ToldCovered
<1>12. Fit(s)
  BY DEF Sound
<1>13. Sound(gs, e, s, ld, d, r, rs, sv, ex, u)
  BY <1>5, <1>9, <1>10, <1>11, <1>12 DEF Sound
<1> QED
  BY <1>13 DEF gs

-----------------------------------------------------------------------------
(* A write that fails half way.                                            *)

LEMMA FunSeq == ASSUME NEW X, NEW n \in Nat, NEW f \in [1 .. n -> X] PROVE f \in Seq(X) /\ DOMAIN f = 1 .. n
OBVIOUS

LEMMA TornFile ==
  ASSUME NEW f \in File, NEW u \in Times
  PROVE  LET g == [f EXCEPT !.torn = TRUE, !.modified = u] IN
         g \in File /\ g.name = f.name /\ g.run = f.run /\ g.lines = f.lines /\ g.modified = u
BY DEF File

LEMMA TornIs ==
  ASSUME NEW fs \in Seq(File), NEW c, NEW u \in Times
  PROVE  LET gs == Torn(fs, c, u) IN
         /\ gs \in Seq(File) /\ DOMAIN gs = DOMAIN fs
         /\ \A i \in DOMAIN fs : /\ gs[i].name = fs[i].name /\ gs[i].run = fs[i].run /\ gs[i].lines = fs[i].lines
                                 /\ fs[i].name # c.name => gs[i].modified = fs[i].modified
                                 /\ fs[i].name = c.name => gs[i].modified = u
<1> DEFINE gs == Torn(fs, c, u)
<1>1. gs = [i \in DOMAIN fs |-> IF fs[i].name = c.name THEN [fs[i] EXCEPT !.torn = TRUE, !.modified = u] ELSE fs[i]]
  BY DEF Torn
<1> HIDE DEF gs
<1>2. Len(fs) \in Nat /\ DOMAIN fs = 1 .. Len(fs) /\ \A i \in DOMAIN fs : fs[i] \in File
  BY FilesAre
<1>3. \A i \in DOMAIN fs : gs[i] = IF fs[i].name = c.name THEN [fs[i] EXCEPT !.torn = TRUE, !.modified = u] ELSE fs[i]
  BY <1>1
<1>4. ASSUME NEW i \in DOMAIN fs
      PROVE  /\ gs[i] \in File /\ gs[i].name = fs[i].name /\ gs[i].run = fs[i].run /\ gs[i].lines = fs[i].lines
             /\ fs[i].name # c.name => gs[i].modified = fs[i].modified
             /\ fs[i].name = c.name => gs[i].modified = u
  <2>1. CASE fs[i].name = c.name
    <3> DEFINE g == [fs[i] EXCEPT !.torn = TRUE, !.modified = u]
    <3>1. gs[i] = g
      BY <1>3, <2>1
    <3>2. fs[i] \in File
      BY <1>2
    <3>3. g \in File /\ g.name = fs[i].name /\ g.run = fs[i].run /\ g.lines = fs[i].lines /\ g.modified = u
      BY <3>2, TornFile
    <3> HIDE DEF g
    <3> QED
      BY <2>1, <3>1, <3>3
  <2>2. CASE fs[i].name # c.name
    <3>1. gs[i] = fs[i]
      BY <1>3, <2>2
    <3> QED
      BY <1>2, <2>2, <3>1
  <2> QED
    BY <2>1, <2>2
<1>5. DOMAIN gs = DOMAIN fs /\ gs = [i \in 1 .. Len(fs) |-> gs[i]]
  BY <1>1, <1>2
<1>6. gs \in [1 .. Len(fs) -> File]
  BY <1>2, <1>4, <1>5
<1>7. gs \in Seq(File)
  BY <1>2, <1>6, FunSeq
<1> QED
  BY <1>4, <1>5, <1>7 DEF gs

LEMMA TornCovered ==
  ASSUME NEW fs, NEW c, NEW u \in Times, DiskOK(fs, u)
  PROVE  Covered(Torn(fs, c, u), fs, u)
<1> DEFINE gs == Torn(fs, c, u)
<1>1. /\ DOMAIN gs = DOMAIN fs
      /\ \A i \in DOMAIN fs : /\ gs[i].name = fs[i].name /\ gs[i].run = fs[i].run /\ gs[i].lines = fs[i].lines
                              /\ gs[i].modified = fs[i].modified \/ gs[i].modified = u
  BY TornIs DEF DiskOK
<1>2. u \in Nat
  BY TimesIs
<1>3. \A i \in DOMAIN fs : fs[i].modified <= u /\ fs[i].modified <= fs[i].modified
  BY <1>2, Names
<1> HIDE DEF gs
<1>4. Covered(gs, fs, u)
  BY <1>1, <1>3 DEF Covered, Same
<1> QED
  BY <1>4 DEF gs

LEMMA TornDisk ==
  ASSUME NEW fs, NEW c, NEW u \in Times, DiskOK(fs, u), c.name \in Nat, \A i \in DOMAIN fs : fs[i].name > c.name => fs[i].lines = <<>>
  PROVE  DiskOK(Torn(fs, c, u), u)
<1> DEFINE gs == Torn(fs, c, u)
<1>1. /\ gs \in Seq(File) /\ DOMAIN gs = DOMAIN fs
      /\ \A i \in DOMAIN fs : /\ gs[i].name = fs[i].name /\ gs[i].run = fs[i].run /\ gs[i].lines = fs[i].lines
                              /\ fs[i].name # c.name => gs[i].modified = fs[i].modified
                              /\ fs[i].name = c.name => gs[i].modified = u
  BY TornIs DEF DiskOK
<1> HIDE DEF gs
<1>2. u \in Nat
  BY TimesIs
<1>3. ASSUME NEW i \in DOMAIN fs PROVE FileOK(gs[i], u)
  <2>1. FileOK(fs[i], u)
    BY DEF DiskOK
  <2>2. fs[i].name \in Nat /\ fs[i].modified \in Nat /\ fs[i].name <= u /\ fs[i].modified <= u
    BY <1>2, Names
  <2>3. gs[i].modified \in gs[i].name .. u /\ fs[i].modified <= gs[i].modified
    BY <1>1, <1>2, <2>1, <2>2 DEF FileOK
  <2>4. ASSUME NEW x \in Range(fs[i].lines) PROVE x.at \in fs[i].name .. gs[i].modified
    <3>1. x.at \in fs[i].name .. fs[i].modified
      BY <2>1 DEF FileOK
    <3> QED
      BY <1>1, <1>2, <2>2, <2>3, <3>1
  <2> QED
    BY <1>1, <2>1, <2>3, <2>4 DEF FileOK
<1>4. ASSUME NEW i \in DOMAIN fs, NEW j \in DOMAIN fs, i < j
      PROVE  gs[i].name < gs[j].name /\ \A x \in Range(gs[j].lines) : gs[i].modified < x.at
  <2>1. fs[i].name < fs[j].name /\ \A x \in Range(fs[j].lines) : fs[i].modified < x.at
    BY <1>4 DEF DiskOK
  <2>2. fs[i].name = c.name => fs[j].lines = <<>>
    <3>1. fs[i].name \in Nat /\ fs[j].name \in Nat
      BY <1>2, Names
    <3> QED
      BY <2>1, <3>1
  <2> QED
    BY <1>1, <2>1, <2>2, NoLines
<1>5. DiskOK(gs, u)
  BY <1>1, <1>3, <1>4 DEF DiskOK
<1> QED
  BY <1>5 DEF gs

LEMMA TornSound ==
  ASSUME NEW fs, NEW c, NEW s, NEW ld, NEW d, NEW r, NEW rs, NEW sv, NEW ex, NEW u \in Times,
         Sound(fs, c, s, ld, d, r, rs, sv, ex, u)
  PROVE  Sound(Torn(fs, c, u), c, s, ld, d, r, rs, sv, ex, u)
<1> DEFINE gs == Torn(fs, c, u)
<1>1. u \in Nat /\ DiskOK(fs, u) /\ CurOK(fs, c, r, u) /\ fs \in Seq(File)
  BY TimesIs DEF Sound, DiskOK
<1>2. c.name \in Nat /\ r \in Nat /\ r <= c.name /\ r <= u /\ c.name \in Times
  BY <1>1, TimesIs DEF CurOK
<1>3. DiskOK(gs, u) /\ Covered(gs, fs, u)
  BY <1>1, <1>2, TornDisk, TornCovered DEF CurOK
<1>4. /\ gs \in Seq(File) /\ DOMAIN gs = DOMAIN fs
      /\ \A i \in DOMAIN fs : /\ gs[i].name = fs[i].name /\ gs[i].run = fs[i].run /\ gs[i].lines = fs[i].lines
                              /\ fs[i].name # c.name => gs[i].modified = fs[i].modified
                              /\ fs[i].name = c.name => gs[i].modified = u
  BY <1>1, TornIs
<1> HIDE DEF gs
<1>5. ASSUME NEW m, NEW n \in Nat, n <= u, Notes(fs, m, n) PROVE Notes(gs, m, n)
  <2> SUFFICES ASSUME NEW i \in DOMAIN gs, m[gs[i].name] # 0
               PROVE  m[gs[i].name] \in gs[i].name .. gs[i].modified /\ \A x \in Range(gs[i].lines) : x.at <= m[gs[i].name]
    BY <1>5 DEF Notes
  <2>1. /\ m[fs[i].name] \in fs[i].name .. fs[i].modified /\ \A x \in Range(fs[i].lines) : x.at <= m[fs[i].name]
    BY <1>4, <1>5 DEF Notes
  <2>2. fs[i].name \in Nat /\ fs[i].modified \in Nat /\ fs[i].modified <= u
    BY <1>1, <1>4, Names
  <2> QED
    BY <1>1, <1>4, <2>1, <2>2
<1>6. CurOK(gs, c, r, u)
  <2>1. Notes(gs, c.newest, u)
    BY <1>1, <1>5 DEF CurOK
  <2>2. ASSUME NEW i \in DOMAIN gs, gs[i].name < r PROVE gs[i].name \in c.earlier /\ gs[i].modified < r
    <3>1. fs[i].name # c.name /\ fs[i].name < r
      BY <1>2, <1>4, <2>2
    <3> QED
      BY <1>1, <1>4, <3>1 DEF CurOK
  <2>3. ASSUME NEW i \in DOMAIN gs, gs[i].name > c.name PROVE gs[i].lines = <<>>
    BY <1>1, <1>4, <2>3 DEF CurOK
  <2> QED
    BY <1>1, <2>1, <2>2, <2>3 DEF CurOK
<1>7. LoadOK(gs, ld, r, u)
  <2>1. LoadOK(fs, ld, r, u)
    BY DEF Sound
  <2>2. Notes(fs, ld.newest, r - 1) /\ r - 1 \in Nat /\ r - 1 <= u
    BY <1>1, <1>2, <2>1 DEF LoadOK, CurOK
  <2>3. Notes(gs, ld.newest, r - 1)
    BY <1>5, <2>2
  <2> QED
    BY <1>4, <2>1, <2>3 DEF LoadOK
<1>8. GoneOK(gs, s, ld, d, ex, u) /\ HoleOK(gs, s, ld, r)
  BY <1>3, GoneCovered, HoleCovered DEF Sound
<1>9. ServedOK(gs, s, ld, d, sv, u)
  <2>1. ServedOK(fs, s, ld, d, sv, u)
    BY DEF Sound
  <2>2. \A k : Past(k, fs, s, ld, d) => Past(k, gs, s, ld, d)
    BY <1>3, PastCovered
  <2> QED
    BY <1>4, <2>1, <2>2 DEF ServedOK
<1>10. ToldOK(gs, ld, r, rs, sv)
  <2>1. ToldOK(fs, ld, r, rs, sv)
    BY DEF Sound
  <2> QED
    BY <1>4, <2>1 DEF ToldOK
<1>11. Sound(gs, c, s, ld, d, r, rs, sv, ex, u)
  BY <1>3, <1>6, <1>7, <1>8, <1>9, <1>10 DEF Sound
<1> QED
  BY <1>11 DEF gs

\* Whether the file is open says nothing of what is in it.
LEMMA OpenOrNot ==
  ASSUME NEW fs, NEW c, NEW s, NEW ld, NEW d, NEW r, NEW rs, NEW sv, NEW ex, NEW u,
         Sound(fs, c, s, ld, d, r, rs, sv, ex, u), NEW b \in BOOLEAN
  PROVE  Sound(fs, [c EXCEPT !.open = b], s, ld, d, r, rs, sv, ex, u)
<1> DEFINE e == [c EXCEPT !.open = b]
<1>1. CurOK(fs, c, r, u) /\ c \in CurSet
  BY DEF Sound, CurOK, CurSet
<1>2. e \in CurSet /\ e.name = c.name /\ e.earlier = c.earlier /\ e.newest = c.newest
  BY <1>1 DEF CurSet
<1> HIDE DEF e
<1>3. CurOK(fs, e, r, u)
  BY <1>1, <1>2 DEF CurOK, CurSet
<1>4. Sound(fs, e, s, ld, d, r, rs, sv, ex, u)
  BY <1>3 DEF Sound
<1> QED
  BY <1>4 DEF e

-----------------------------------------------------------------------------
(* A span is written.                                                      *)

Longer(s, x) == Append(s, x)

LEMMA WrittenFile ==
  ASSUME NEW f \in File, NEW x \in Span, NEW u \in Times
  PROVE  LET g == [f EXCEPT !.lines = Append(@, x), !.modified = u] IN
         g \in File /\ g.name = f.name /\ g.run = f.run /\ g.lines = Append(f.lines, x) /\ g.modified = u
<1>1. f.lines \in Seq(Span)
  BY FileIs
<1>2. Append(f.lines, x) \in Seq(Span)
  BY <1>1
<1> DEFINE l == Append(f.lines, x)
<1> HIDE DEF l
<1>3. LET g == [f EXCEPT !.lines = l, !.modified = u] IN
      g \in File /\ g.name = f.name /\ g.run = f.run /\ g.lines = l /\ g.modified = u
  BY <1>2 DEF File, l
<1> QED
  BY <1>3 DEF l

Line(g, f, c, x, u) ==
  /\ g \in File /\ g.name = f.name /\ g.run = f.run
  /\ f.name # c.name => g = f
  /\ f.name = c.name => g.modified = u /\ g.lines = Longer(f.lines, x)

LEMMA WrittenAt ==
  ASSUME NEW fs \in Seq(File), NEW c, NEW x \in Span, NEW u \in Times, NEW i \in DOMAIN fs
  PROVE  Line(Written(fs, c, x, u)[i], fs[i], c, x, u)
<1> DEFINE gs == Written(fs, c, x, u)
<1>1. gs = [k \in DOMAIN fs |-> IF fs[k].name = c.name
                                THEN [fs[k] EXCEPT !.lines = Append(@, x), !.modified = u] ELSE fs[k]]
  BY DEF Written
<1> HIDE DEF gs
<1>2. \A k \in DOMAIN fs : fs[k] \in File
  BY FilesAre
<1>3. \A k \in DOMAIN fs : gs[k] = IF fs[k].name = c.name
                                   THEN [fs[k] EXCEPT !.lines = Append(@, x), !.modified = u] ELSE fs[k]
  BY <1>1
<1> SUFFICES Line(gs[i], fs[i], c, x, u)
  BY DEF gs
<1>4. CASE fs[i].name = c.name
  <2> DEFINE g == [fs[i] EXCEPT !.lines = Append(@, x), !.modified = u]
  <2>1. gs[i] = g
    BY <1>3, <1>4
  <2>2. fs[i] \in File
    BY <1>2
  <2>3. g \in File /\ g.name = fs[i].name /\ g.run = fs[i].run /\ g.lines = Longer(fs[i].lines, x) /\ g.modified = u
    BY <2>2, WrittenFile DEF Longer
  <2> HIDE DEF g
  <2> QED
    BY <1>4, <2>1, <2>3 DEF Line
<1>5. CASE fs[i].name # c.name
  <2>1. gs[i] = fs[i]
    BY <1>3, <1>5
  <2> QED
    BY <1>2, <1>5, <2>1 DEF Line
<1> QED
  BY <1>4, <1>5

LEMMA WrittenSeq ==
  ASSUME NEW fs \in Seq(File), NEW c, NEW x \in Span, NEW u \in Times
  PROVE  Written(fs, c, x, u) \in Seq(File) /\ DOMAIN Written(fs, c, x, u) = DOMAIN fs
<1> DEFINE gs == Written(fs, c, x, u)
<1>1. Len(fs) \in Nat /\ DOMAIN fs = 1 .. Len(fs)
  BY FilesAre
<1>2. \A i \in DOMAIN fs : gs[i] \in File
  <2> SUFFICES ASSUME NEW i \in DOMAIN fs PROVE gs[i] \in File
    OBVIOUS
  <2>1. Line(gs[i], fs[i], c, x, u)
    BY WrittenAt
  <2> HIDE DEF gs
  <2> QED
    BY <2>1 DEF Line
<1>3. DOMAIN gs = DOMAIN fs /\ gs = [i \in 1 .. Len(fs) |-> gs[i]]
  BY <1>1 DEF Written
<1> HIDE DEF gs
<1>4. gs \in [1 .. Len(fs) -> File]
  BY <1>1, <1>2, <1>3
<1>5. gs \in Seq(File)
  BY <1>1, <1>4, FunSeq
<1> QED
  BY <1>3, <1>5 DEF gs

\* The span is newer than all there is, but for the file it goes to, which may
\* have been opened for it.
FreshDisk(fs, c, d, sv, ex, u) ==
  /\ \A i \in DOMAIN fs : fs[i].name # c.name => fs[i].modified < u
  /\ \A i \in DOMAIN fs : \A y \in Range(fs[i].lines) : y.at < u
  /\ d < u /\ (\A y \in ex : y.at < u) /\ \A k \in sv : k < u

IsWritten(gs, fs, c, x, u) ==
  /\ gs \in Seq(File) /\ DOMAIN gs = DOMAIN fs
  /\ \A i \in DOMAIN fs : /\ gs[i].name = fs[i].name /\ gs[i].run = fs[i].run
                          /\ fs[i].name # c.name => gs[i] = fs[i]
                          /\ fs[i].name = c.name => gs[i].modified = u /\ gs[i].lines = Longer(fs[i].lines, x)
  /\ \A i \in DOMAIN fs : \A y \in Range(gs[i].lines) : y \in Range(fs[i].lines) \/ (fs[i].name = c.name /\ y = x)

LEMMA WrittenIs ==
  ASSUME NEW fs \in Seq(File), NEW c, NEW x \in Span, NEW u \in Times
  PROVE  IsWritten(Written(fs, c, x, u), fs, c, x, u)
<1> DEFINE gs == Written(fs, c, x, u)
<1>1. ASSUME NEW i \in DOMAIN fs
      PROVE  /\ gs[i].name = fs[i].name /\ gs[i].run = fs[i].run
             /\ fs[i].name # c.name => gs[i] = fs[i]
             /\ fs[i].name = c.name => gs[i].modified = u /\ gs[i].lines = Longer(fs[i].lines, x)
  <2>1. Line(gs[i], fs[i], c, x, u)
    BY WrittenAt
  <2> HIDE DEF gs
  <2> QED
    BY <2>1 DEF Line
<1>2. gs \in Seq(File) /\ DOMAIN gs = DOMAIN fs
  BY WrittenSeq
<1> HIDE DEF gs
<1>3. ASSUME NEW i \in DOMAIN fs, NEW y \in Range(gs[i].lines)
      PROVE  y \in Range(fs[i].lines) \/ (fs[i].name = c.name /\ y = x)
  <2>1. fs[i].lines \in Seq(Span)
    BY FilesAre
  <2>2. Range(Longer(fs[i].lines, x)) = Range(fs[i].lines) \cup {x}
    BY <2>1, RangeAppend DEF Longer
  <2> QED
    BY <1>1, <2>2
<1>4. IsWritten(gs, fs, c, x, u)
  BY <1>1, <1>2, <1>3 DEF IsWritten
<1> QED
  BY <1>4 DEF gs

LEMMA WrittenDisk ==
  ASSUME NEW fs, NEW c, NEW x \in Span, NEW u \in Times, x.at = u, DiskOK(fs, u), c.name \in Nat,
         \A i \in DOMAIN fs : fs[i].name > c.name => fs[i].lines = <<>>,
         NEW d, NEW sv, NEW ex, FreshDisk(fs, c, d, sv, ex, u)
  PROVE  DiskOK(Written(fs, c, x, u), u)
<1> DEFINE gs == Written(fs, c, x, u)
<1>00. fs \in Seq(File)
  BY DEF DiskOK
<1>0. fs \in Seq(File) /\ u \in Nat
  BY <1>00, TimesIs
<1>6. IsWritten(gs, fs, c, x, u)
  BY <1>00, WrittenIs
<1> HIDE DEF gs
<1>1. /\ gs \in Seq(File) /\ DOMAIN gs = DOMAIN fs
      /\ \A i \in DOMAIN fs : /\ gs[i].name = fs[i].name
                              /\ fs[i].name # c.name => gs[i] = fs[i]
                              /\ fs[i].name = c.name => gs[i].modified = u /\ gs[i].lines = Longer(fs[i].lines, x)
  BY <1>6 DEF IsWritten
<1>2. \A i \in DOMAIN fs : \A y \in Range(gs[i].lines) : y \in Range(fs[i].lines) \/ (fs[i].name = c.name /\ y = x)
  BY <1>6 DEF IsWritten
<1>3. ASSUME NEW i \in DOMAIN fs PROVE FileOK(gs[i], u)
  <2>1. FileOK(fs[i], u)
    BY DEF DiskOK
  <2>2. fs[i].name \in Nat /\ fs[i].modified \in Nat /\ fs[i].name <= u /\ fs[i].modified <= u
    BY <1>0, Names
  <2>3. CASE fs[i].name = c.name
    <3>1. gs[i].name \in 1 .. u /\ gs[i].modified \in gs[i].name .. u
      BY <1>0, <1>1, <2>1, <2>2, <2>3 DEF FileOK
    <3>2. fs[i].lines \in Seq(Span)
      BY <1>0, FilesAre
    <3>3. Sorted(gs[i].lines)
      <4>1. \A y \in Range(fs[i].lines) : y.at < x.at
        BY DEF FreshDisk
      <4>2. Sorted(fs[i].lines)
        BY <2>1 DEF FileOK
      <4>3. Sorted(Longer(fs[i].lines, x))
        BY <3>2, <4>1, <4>2, SortedAppend DEF Longer
      <4> QED
        BY <1>1, <2>3, <4>3
    <3>4. ASSUME NEW y \in Range(gs[i].lines) PROVE y.at \in gs[i].name .. gs[i].modified
      <4>1. CASE y = x
        BY <1>0, <1>1, <2>2, <2>3, <4>1
      <4>2. CASE y \in Range(fs[i].lines)
        <5>1. y.at \in fs[i].name .. fs[i].modified
          BY <2>1, <4>2 DEF FileOK
        <5> QED
          BY <1>0, <1>1, <2>2, <2>3, <5>1
      <4> QED
        BY <1>2, <4>1, <4>2
    <3> QED
      BY <3>1, <3>3, <3>4 DEF FileOK
  <2>4. CASE fs[i].name # c.name
    BY <1>1, <2>1, <2>4
  <2> QED
    BY <2>3, <2>4
<1>4. ASSUME NEW i \in DOMAIN fs, NEW j \in DOMAIN fs, i < j
      PROVE  gs[i].name < gs[j].name /\ \A y \in Range(gs[j].lines) : gs[i].modified < y.at
  <2>1. fs[i].name < fs[j].name /\ \A y \in Range(fs[j].lines) : fs[i].modified < y.at
    BY <1>4 DEF DiskOK
  <2>2. fs[i].name \in Nat /\ fs[j].name \in Nat
    BY <1>0, Names
  <2>3. ASSUME NEW y \in Range(gs[j].lines) PROVE gs[i].modified < y.at
    <3>1. CASE fs[j].name = c.name
      <4>1. fs[i].name # c.name /\ gs[i] = fs[i] /\ fs[i].modified < u
        BY <1>1, <2>1, <2>2, <3>1 DEF FreshDisk
      <4> QED
        BY <1>2, <2>1, <4>1
    <3>2. CASE fs[j].name # c.name
      <4>1. y \in Range(fs[j].lines)
        BY <1>2, <3>2
      <4>2. fs[i].name # c.name
        <5> SUFFICES ASSUME fs[i].name = c.name PROVE FALSE
          OBVIOUS
        <5>1. fs[j].lines = <<>>
          BY <2>1, <2>2
        <5> QED
          BY <4>1, <5>1, NoLines
      <4> QED
        BY <1>1, <2>1, <4>1, <4>2
    <3> QED
      BY <3>1, <3>2
  <2> QED
    BY <1>1, <2>1, <2>3
<1>5. DiskOK(gs, u)
  BY <1>1, <1>3, <1>4 DEF DiskOK
<1> QED
  BY <1>5 DEF gs

LEMMA NotedIs ==
  ASSUME NEW c \in CurSet, NEW x \in Span
  PROVE  LET e == Noted(c, x) IN
         /\ e \in CurSet /\ e.open = c.open /\ e.name = c.name /\ e.earlier = c.earlier
         /\ e.newest = [c.newest EXCEPT ![c.name] = x.at]
         /\ e.newest[c.name] = x.at /\ \A k \in Times : k # c.name => e.newest[k] = c.newest[k]
<1>1. x.at \in Times
  BY SpanIs
<1> QED
  BY <1>1 DEF Noted, CurSet

LEMMA WrittenSound ==
  ASSUME NEW fs, NEW c, NEW s, NEW ld, NEW d, NEW r, NEW rs, NEW sv, NEW ex, NEW u \in Times,
         Sound(fs, c, s, ld, d, r, rs, sv, ex, u), NEW x \in Span, x.at = u, FreshDisk(fs, c, d, sv, ex, u)
  PROVE  Sound(Written(fs, c, x, u), Noted(c, x), s, ld, d, r, rs, sv, ex, u)
<1> DEFINE gs == Written(fs, c, x, u)
           e  == Noted(c, x)
<1>0. fs \in Seq(File)
  BY DEF Sound, DiskOK
<1>1. u \in Nat /\ DiskOK(fs, u) /\ CurOK(fs, c, r, u) /\ fs \in Seq(File) /\ c \in CurSet
  BY TimesIs DEF Sound, DiskOK, CurOK, CurSet
<1>2. c.name \in Nat /\ r \in Nat /\ 1 <= r /\ r <= c.name /\ r <= u /\ c.name <= u /\ c.name \in Times
  BY <1>1, TimesIs DEF CurOK
<1>3. DiskOK(gs, u)
  BY <1>1, <1>2, WrittenDisk DEF CurOK
<1>15. IsWritten(gs, fs, c, x, u)
  BY <1>0, WrittenIs
<1> HIDE DEF gs
<1>4. /\ gs \in Seq(File) /\ DOMAIN gs = DOMAIN fs
      /\ \A i \in DOMAIN fs : /\ gs[i].name = fs[i].name /\ gs[i].run = fs[i].run
                              /\ fs[i].name # c.name => gs[i] = fs[i]
                              /\ fs[i].name = c.name => gs[i].modified = u /\ gs[i].lines = Longer(fs[i].lines, x)
  BY <1>15 DEF IsWritten
<1>5. \A i \in DOMAIN fs : \A y \in Range(gs[i].lines) : y \in Range(fs[i].lines) \/ (fs[i].name = c.name /\ y = x)
  BY <1>15 DEF IsWritten
<1>6. /\ e \in CurSet /\ e.name = c.name /\ e.earlier = c.earlier
      /\ e.newest[c.name] = u /\ \A k \in Times : k # c.name => e.newest[k] = c.newest[k]
  BY <1>1, NotedIs
<1> HIDE DEF e
<1>7. \A i \in DOMAIN fs : fs[i].name \in Nat /\ fs[i].name \in Times /\ fs[i].name <= u
  BY <1>1, Names, FilesAre, FileIs
<1>8. CurOK(gs, e, r, u)
  <2>1. Notes(fs, c.newest, u)
    BY <1>1 DEF CurOK
  <2>2. ASSUME NEW k \in Times, k > u PROVE e.newest[k] = 0
    <3>1. k # c.name
      BY <1>1, <1>2, <2>2
    <3> QED
      BY <1>6, <2>1, <2>2, <3>1 DEF Notes
  <2>3. ASSUME NEW i \in DOMAIN gs, e.newest[gs[i].name] # 0
        PROVE  /\ e.newest[gs[i].name] \in gs[i].name .. gs[i].modified
               /\ \A y \in Range(gs[i].lines) : y.at <= e.newest[gs[i].name]
    <3>1. CASE fs[i].name = c.name
      <4>1. e.newest[gs[i].name] = u /\ gs[i].modified = u /\ gs[i].name = fs[i].name
        BY <1>4, <1>6, <3>1
      <4>2. u \in gs[i].name .. gs[i].modified
        BY <1>1, <1>4, <1>7, <4>1
      <4>3. ASSUME NEW y \in Range(gs[i].lines) PROVE y.at <= u
        <5>1. CASE y = x
          BY <1>1, <5>1
        <5>2. CASE y \in Range(fs[i].lines)
          <6>1. y.at < u /\ y.at \in Nat
            BY <1>1, <1>4, <5>2, LinesAre DEF FreshDisk
          <6> QED
            BY <1>1, <6>1
        <5> QED
          BY <1>4, <1>5, <5>1, <5>2
      <4> QED
        BY <4>1, <4>2, <4>3
    <3>2. CASE fs[i].name # c.name
      <4>1. gs[i] = fs[i] /\ e.newest[fs[i].name] = c.newest[fs[i].name] /\ i \in DOMAIN fs
        BY <1>4, <1>6, <1>7, <3>2
      <4>2. c.newest[fs[i].name] # 0
        BY <2>3, <4>1
      <4> QED
        BY <2>1, <4>1, <4>2 DEF Notes
    <3> QED
      BY <3>1, <3>2
  <2>4. Notes(gs, e.newest, u)
    BY <1>6, <2>2, <2>3 DEF Notes, CurSet
  <2>5. ASSUME NEW i \in DOMAIN gs, gs[i].name < r PROVE gs[i].name \in e.earlier /\ gs[i].modified < r
    <3>1. fs[i].name # c.name /\ gs[i] = fs[i] /\ i \in DOMAIN fs
      BY <1>2, <1>4, <2>5
    <3> QED
      BY <1>1, <1>6, <2>5, <3>1 DEF CurOK
  <2>6. ASSUME NEW i \in DOMAIN gs, gs[i].name > e.name PROVE gs[i].lines = <<>>
    <3>1. fs[i].name # c.name /\ gs[i] = fs[i] /\ i \in DOMAIN fs
      BY <1>2, <1>4, <1>6, <2>6
    <3> QED
      BY <1>1, <1>6, <2>6, <3>1 DEF CurOK
  <2>7. r \in 1 .. u /\ e.name \in r .. u /\ \A k \in e.earlier : k < r
    BY <1>1, <1>6 DEF CurOK
  <2> QED
    BY <1>6, <2>4, <2>5, <2>6, <2>7 DEF CurOK, CurSet
<1>9. LoadOK(gs, ld, r, u)
  <2>1. LoadOK(fs, ld, r, u)
    BY DEF Sound
  <2>2. ASSUME NEW i \in DOMAIN gs, gs[i].name \in ld.names \/ gs[i].name < r PROVE gs[i] = fs[i] /\ i \in DOMAIN fs
    <3>1. gs[i].name < r
      BY <2>1, <2>2 DEF LoadOK
    <3>2. gs[i].name # c.name
      BY <1>2, <3>1
    <3> QED
      BY <1>4, <3>2
  <2>3. ASSUME NEW i \in DOMAIN gs, gs[i].name \in ld.names, NEW z \in Range(ld.spans), NEW y \in Range(gs[i].lines)
        PROVE  z.at < y.at
    <3>1. gs[i] = fs[i] /\ i \in DOMAIN fs
      BY <2>2, <2>3
    <3> QED
      BY <2>1, <2>3, <3>1 DEF LoadOK
  <2>4. ASSUME ld.pc = "read", NEW i \in DOMAIN gs, gs[i].name < r
        PROVE  gs[i].name \in ld.names \/ Range(gs[i].lines) \subseteq Range(ld.spans)
    <3>1. gs[i] = fs[i] /\ i \in DOMAIN fs
      BY <2>2, <2>4
    <3> QED
      BY <2>1, <2>4, <3>1 DEF LoadOK
  <2>5. Notes(gs, ld.newest, r - 1)
    <3>1. Notes(fs, ld.newest, r - 1)
      BY <2>1 DEF LoadOK
    <3>2. ASSUME NEW i \in DOMAIN gs, ld.newest[gs[i].name] # 0 PROVE gs[i] = fs[i] /\ i \in DOMAIN fs
      <4>1. c.name > r - 1
        BY <1>2
      <4>2. ld.newest[c.name] = 0
        BY <1>2, <3>1, <4>1 DEF Notes
      <4> QED
        BY <1>4, <3>2, <4>2
    <3> QED
      BY <3>1, <3>2 DEF Notes
  <2> QED
    BY <2>1, <2>3, <2>4, <2>5 DEF LoadOK
<1>10. GoneOK(gs, s, ld, d, ex, u)
  <2>1. GoneOK(fs, s, ld, d, ex, u)
    BY DEF Sound
  <2>2. ASSUME NEW i \in DOMAIN gs, NEW y \in Range(gs[i].lines) PROVE d < y.at /\ \A z \in ex : z.at < y.at
    BY <1>4, <1>5, <2>1 DEF GoneOK, FreshDisk
  <2> QED
    BY <2>1, <2>2 DEF GoneOK
<1>11. HoleOK(gs, s, ld, r)
  <2> SUFFICES ASSUME ld.pc = "done" /\ s # <<>>, NEW i \in DOMAIN gs, NEW y \in Range(gs[i].lines),
                      y.at >= s[1].at /\ y.at < r
               PROVE  y \in Range(s)
    BY DEF HoleOK
  <2>1. y # x
    BY <1>1, <1>2
  <2>2. i \in DOMAIN fs /\ y \in Range(fs[i].lines)
    BY <1>4, <1>5, <2>1
  <2> QED
    BY <2>2 DEF Sound, HoleOK
<1>12. ServedOK(gs, s, ld, d, sv, u)
  <2>1. ServedOK(fs, s, ld, d, sv, u)
    BY DEF Sound
  <2>2. ASSUME NEW k \in sv, Past(k, fs, s, ld, d) PROVE Past(k, gs, s, ld, d)
    <3>1. \A i \in DOMAIN gs : \A y \in Range(gs[i].lines) : k < y.at
      BY <1>4, <1>5, <2>2 DEF Past, FreshDisk
    <3> QED
      BY <2>2, <3>1 DEF Past
  <2> QED
    BY <1>4, <2>1, <2>2 DEF ServedOK
<1>13. ToldOK(gs, ld, r, rs, sv)
  <2>1. ToldOK(fs, ld, r, rs, sv)
    BY DEF Sound
  <2> QED
    BY <1>4, <2>1 DEF ToldOK
<1>14. Sound(gs, e, s, ld, d, r, rs, sv, ex, u)
  BY <1>3, <1>8, <1>9, <1>10, <1>11, <1>12, <1>13 DEF Sound
<1> QED
  BY <1>14 DEF gs, e

-----------------------------------------------------------------------------
(* Memory.                                                                 *)

\* A span arrives.
LEMMA StoredSound ==
  ASSUME NEW fs, NEW c, NEW s, NEW ld, NEW d, NEW r, NEW rs, NEW sv, NEW ex, NEW u \in Times,
         Sound(fs, c, s, ld, d, r, rs, sv, ex, u), NEW x \in Span, x.at = u,
         \A y \in Range(s) \cup ex : y.at < u, \A k \in sv : k < u
  PROVE  Sound(fs, c, Stored(s, x), ld, d, r, rs, sv, ex, u)
<1> DEFINE a == Append(s, x)
           q == Stored(s, x)
<1>1. u \in Nat /\ s \in Seq(Span) /\ Sorted(s) /\ r \in Nat /\ r <= u /\ 1 <= u
  BY TimesIs DEF Sound, MemOK, CurOK
<1>2. a \in Seq(Span) /\ Range(a) = Range(s) \cup {x}
  BY <1>1, RangeAppend
<1>3. Sorted(a)
  BY <1>1, SortedAppend
<1>4. Suffix(q, a) /\ Fit(q)
  BY <1>1, StoredIs
<1>5. s # <<>> => a[1] = s[1]
  BY <1>1
<1>10. s = <<>> => a[1] = x
  BY <1>1
<1> HIDE DEF a, q
<1>6. q \in Seq(Span) /\ Sorted(q) /\ Range(q) \subseteq Range(s) \cup {x}
      /\ (q # <<>> => a # <<>> /\ a[1].at <= q[1].at /\ \A y \in Range(a) : y.at >= q[1].at => y \in Range(q))
  <2>1. q \in Seq(Span) /\ Range(q) \subseteq Range(a)
    BY <1>2, <1>4, SuffixIs
  <2>2. Sorted(q) /\ (q # <<>> => a # <<>> /\ a[1].at <= q[1].at /\ \A y \in Range(a) : y.at >= q[1].at => y \in Range(q))
    BY <1>2, <1>3, <1>4, SuffixSorted
  <2> QED
    BY <1>2, <2>1, <2>2
<1>7. MemOK(q, u)
  <2>1. \A y \in Range(s) : y.at \in 1 .. u
    BY DEF Sound, MemOK
  <2>2. x.at \in 1 .. u
    BY <1>1
  <2> QED
    BY <1>6, <2>1, <2>2 DEF MemOK
<1>8. Arrived(q, ld, r)
  <2>1. x.at >= r
    BY <1>1
  <2> QED
    BY <1>6, <2>1 DEF Sound, Arrived
<1>9. GoneOK(fs, q, ld, d, ex, u)
  <2>1. x \notin ex
    BY <1>1
  <2> QED
    BY <1>6, <2>1 DEF Sound, GoneOK
<1>11. HoleOK(fs, q, ld, r)
  <2> SUFFICES ASSUME ld.pc = "done" /\ q # <<>>, NEW i \in DOMAIN fs, NEW y \in Range(fs[i].lines),
                      y.at >= q[1].at /\ y.at < r
               PROVE  y \in Range(q)
    BY DEF HoleOK
  <2>1. DiskOK(fs, u) /\ HoleOK(fs, s, ld, r)
    BY DEF Sound
  <2>2. y.at \in Nat
    BY <1>1, <2>1, LinesAre
  <2>3. q[1] \in Range(q) /\ a[1] \in Range(a)
    BY <1>2, <1>6, RangeIs
  <2>4. q[1].at \in Nat /\ a[1].at \in Nat
    <3>1. q[1] \in Span /\ a[1] \in Span
      BY <1>2, <1>6
    <3> QED
      BY <3>1, SpanIs
  <2>5. s # <<>>
    BY <1>1, <1>6, <1>10, <2>2, <2>4
  <2>6. y.at >= s[1].at
    BY <1>5, <1>6, <2>2, <2>4, <2>5
  <2>7. y \in Range(s)
    BY <2>1, <2>5, <2>6 DEF HoleOK
  <2> QED
    BY <1>2, <1>6, <2>7
<1>12. ServedOK(fs, q, ld, d, sv, u)
  <2>1. ServedOK(fs, s, ld, d, sv, u)
    BY DEF Sound
  <2>2. ASSUME NEW k \in sv, Past(k, fs, s, ld, d) PROVE Past(k, fs, q, ld, d)
    <3>1. \A y \in Range(q) : k < y.at
      BY <1>1, <1>6, <2>2 DEF Past
    <3> QED
      BY <2>2, <3>1 DEF Past
  <2> QED
    BY <2>1, <2>2 DEF ServedOK
<1>13. Sound(fs, c, q, ld, d, r, rs, sv, ex, u)
  BY <1>4, <1>7, <1>8, <1>9, <1>11, <1>12 DEF Sound
<1> QED
  BY <1>13 DEF q

\* The oldest are dropped.
LEMMA DroppedSound ==
  ASSUME NEW fs, NEW c, NEW s, NEW ld, NEW d, NEW r, NEW rs, NEW sv, NEW ex, NEW u \in Times,
         Sound(fs, c, s, ld, d, r, rs, sv, ex, u), NEW q, Suffix(q, s)
  PROVE  Sound(fs, c, q, ld, d, r, rs, sv, ex, u)
<1>1. s \in Seq(Span) /\ Sorted(s) /\ u \in Nat
  BY TimesIs DEF Sound, MemOK
<1>2. q \in Seq(Span) /\ Range(q) \subseteq Range(s) /\ Len(q) <= Len(s)
  BY <1>1, SuffixIs
<1>3. Sorted(q) /\ (q # <<>> => s # <<>> /\ s[1].at <= q[1].at /\ \A x \in Range(s) : x.at >= q[1].at => x \in Range(q))
  BY <1>1, SuffixSorted
<1>4. MemOK(q, u) /\ Arrived(q, ld, r) /\ GoneOK(fs, q, ld, d, ex, u)
  BY <1>2, <1>3 DEF Sound, MemOK, Arrived, GoneOK
<1>5. HoleOK(fs, q, ld, r)
  <2> SUFFICES ASSUME ld.pc = "done" /\ q # <<>>, NEW i \in DOMAIN fs, NEW y \in Range(fs[i].lines),
                      y.at >= q[1].at /\ y.at < r
               PROVE  y \in Range(q)
    BY DEF HoleOK
  <2>1. DiskOK(fs, u) /\ HoleOK(fs, s, ld, r)
    BY DEF Sound
  <2>2. y.at \in Nat
    BY <1>1, <2>1, LinesAre
  <2>3. q[1].at \in Nat /\ s[1].at \in Nat
    <3>1. q[1] \in Span /\ s[1] \in Span
      BY <1>1, <1>2, <1>3
    <3> QED
      BY <3>1, SpanIs
  <2>4. y.at >= s[1].at
    BY <1>3, <2>2, <2>3
  <2>5. y \in Range(s)
    BY <1>3, <2>1, <2>4 DEF HoleOK
  <2> QED
    BY <1>3, <2>5
<1>6. ServedOK(fs, q, ld, d, sv, u)
  <2>1. ServedOK(fs, s, ld, d, sv, u)
    BY DEF Sound
  <2>2. \A k : Past(k, fs, s, ld, d) => Past(k, fs, q, ld, d)
    BY <1>2 DEF Past
  <2> QED
    BY <2>1, <2>2 DEF ServedOK
<1>7. Fit(q)
  <2>1. Fit(s) /\ SumOf(q) <= SumOf(s) /\ SumOf(q) \in Nat /\ SumOf(s) \in Nat /\ MaxBytes \in Nat /\ MaxSpans \in Nat
        /\ (q = <<>> => SumOf(q) = 0)
    BY <1>1, <1>2, SumSuffix, SumTyped, LimitsAssumption DEF Sound, LimitsAssumption
  <2>2. Len(q) \in Nat /\ Len(s) \in Nat /\ (Len(q) = 0 => q = <<>>)
    BY <1>1, <1>2
  <2>3. Len(q) <= MaxSpans
    BY <1>2, <2>1, <2>2 DEF Fit
  <2>4. ASSUME SumOf(q) > MaxBytes PROVE Len(q) = 1
    <3>1. SumOf(s) > MaxBytes /\ SumOf(q) # 0
      BY <2>1, <2>4
    <3>2. Len(s) = 1
      BY <2>1, <3>1 DEF Fit
    <3>3. Len(q) # 0
      BY <2>1, <2>2, <3>1
    <3>4. Len(q) <= 1
      BY <1>2, <3>2
    <3> QED
      BY <2>2, <3>3, <3>4, ZeroOrOne, Zenon
  <2> QED
    BY <2>3, <2>4 DEF Fit
<1> QED
  BY <1>4, <1>5, <1>6, <1>7 DEF Sound

-----------------------------------------------------------------------------
(* The oldest files are deleted.                                           *)

LEMMA ModIs ==
  ASSUME NEW fs, NEW t \in Nat, DiskOK(fs, t), NEW c, Notes(fs, c.newest, t), NEW i \in DOMAIN fs
  PROVE  /\ ModOf(fs[i], c) \in Nat /\ fs[i].name <= ModOf(fs[i], c) /\ ModOf(fs[i], c) <= fs[i].modified
         /\ \A x \in Range(fs[i].lines) : x.at <= ModOf(fs[i], c)
<1>1. fs[i].name \in Nat /\ fs[i].modified \in Nat /\ fs[i].name <= fs[i].modified
  BY Names
<1>2. \A x \in Range(fs[i].lines) : x.at <= fs[i].modified
  BY LinesAre
<1>3. CASE c.newest[fs[i].name] # 0
  <2>1. ModOf(fs[i], c) = c.newest[fs[i].name]
    BY <1>3 DEF ModOf
  <2>2. /\ c.newest[fs[i].name] \in fs[i].name .. fs[i].modified
        /\ \A x \in Range(fs[i].lines) : x.at <= c.newest[fs[i].name]
    BY <1>3 DEF Notes
  <2> QED
    BY <1>1, <2>1, <2>2
<1>4. CASE c.newest[fs[i].name] = 0
  <2>1. ModOf(fs[i], c) = fs[i].modified
    BY <1>4 DEF ModOf
  <2> QED
    BY <1>1, <1>2, <2>1
<1> QED
  BY <1>3, <1>4

GoneFiles(fs, n) == Range(SubSeq(fs, 1, n))

LEMMA GoneFilesAre ==
  ASSUME NEW fs \in Seq(File), NEW n \in 0 .. Len(fs)
  PROVE  \A f : f \in GoneFiles(fs, n) <=> \E i \in 1 .. n : f = fs[i]
<1> DEFINE g == SubSeq(fs, 1, n)
<1>1. Len(fs) \in Nat /\ n \in Nat
  OBVIOUS
<1>2. DOMAIN g = 1 .. n /\ \A i \in 1 .. n : g[i] = fs[i]
  BY <1>1
<1>3. \A f : f \in Range(g) <=> \E i \in DOMAIN g : f = g[i]
  BY RangeIs
<1> HIDE DEF g
<1>4. \A f : f \in Range(g) <=> \E i \in 1 .. n : f = fs[i]
  BY <1>2, <1>3
<1> QED
  BY <1>4 DEF g, GoneFiles

LEMMA RestIs ==
  ASSUME NEW fs \in Seq(File), NEW n \in 0 .. Len(fs)
  PROVE  LET gs == Newest(fs, n) IN
         /\ gs \in Seq(File)
         /\ \A j \in DOMAIN gs : n + j \in DOMAIN fs /\ gs[j] = fs[n + j] /\ j \in Nat
         /\ \A i \in DOMAIN fs : i > n => i - n \in DOMAIN gs /\ gs[i - n] = fs[i]
<1> DEFINE gs == Newest(fs, n)
<1>1. Len(fs) \in Nat /\ n \in Nat /\ DOMAIN fs = 1 .. Len(fs)
  OBVIOUS
<1>2. gs \in Seq(File) /\ Len(gs) = Len(fs) - n /\ \A i \in 1 .. Len(fs) - n : gs[i] = fs[n + i]
  BY NewestIs
<1> HIDE DEF gs
<1>3. DOMAIN gs = 1 .. Len(fs) - n
  BY <1>2
<1>4. ASSUME NEW j \in DOMAIN gs PROVE n + j \in DOMAIN fs /\ gs[j] = fs[n + j] /\ j \in Nat
  BY <1>1, <1>2, <1>3
<1>5. ASSUME NEW i \in DOMAIN fs, i > n PROVE i - n \in DOMAIN gs /\ gs[i - n] = fs[i]
  <2>1. i - n \in 1 .. Len(fs) - n /\ n + (i - n) = i
    BY <1>1, <1>5
  <2> QED
    BY <1>2, <1>3, <2>1
<1> QED
  BY <1>2, <1>4, <1>5 DEF gs

LastGone(fs, c, n) == Max({0} \cup {ModOf(f, c) : f \in GoneFiles(fs, n)})

\* What is deleted is not newer than this, and what is left is.
LEMMA LastGoneIs ==
  ASSUME NEW fs, NEW t \in Nat, DiskOK(fs, t), NEW c, Notes(fs, c.newest, t), NEW n \in 0 .. Len(fs)
  PROVE  LET last == LastGone(fs, c, n) IN
         /\ last \in 0 .. t
         /\ n = 0 => last = 0
         /\ \A i \in 1 .. n : fs[i].name <= last /\ \A x \in Range(fs[i].lines) : x.at <= last
         /\ \A j \in DOMAIN fs : j > n => \A y \in Range(fs[j].lines) : last < y.at
<1> DEFINE S == {0} \cup {ModOf(f, c) : f \in GoneFiles(fs, n)}
           last == LastGone(fs, c, n)
<1>0. fs \in Seq(File)
  BY DEF DiskOK
<1>1. Len(fs) \in Nat /\ n \in Nat /\ DOMAIN fs = 1 .. Len(fs) /\ \A i \in 1 .. n : i \in DOMAIN fs
  BY <1>0, FilesAre
<1>2. \A f : f \in GoneFiles(fs, n) <=> \E i \in 1 .. n : f = fs[i]
  BY <1>0, GoneFilesAre
<1>3. \A m : m \in S <=> m = 0 \/ \E i \in 1 .. n : m = ModOf(fs[i], c)
  BY <1>2
<1>4. last = Max(S)
  BY DEF LastGone
<1> HIDE DEF S, last
<1>5. \A i \in DOMAIN fs : /\ ModOf(fs[i], c) \in Nat /\ fs[i].name <= ModOf(fs[i], c) /\ ModOf(fs[i], c) <= fs[i].modified
                           /\ \A x \in Range(fs[i].lines) : x.at <= ModOf(fs[i], c)
                           /\ fs[i].name \in Nat /\ fs[i].modified \in Nat /\ fs[i].modified <= t
  BY ModIs, Names
<1>6. S \in SUBSET (0 .. t) /\ 0 \in S
  <2>1. ASSUME NEW m \in S PROVE m \in 0 .. t
    <3>1. CASE m = 0
      BY <3>1
    <3>2. CASE \E i \in 1 .. n : m = ModOf(fs[i], c)
      BY <1>1, <1>5, <3>2
    <3> QED
      BY <1>3, <3>1, <3>2
  <2> QED
    BY <1>3, <2>1
<1>7. last \in S /\ \A m \in S : m <= last
  BY <1>4, <1>6, MaxIs
<1>8. last \in 0 .. t /\ last \in Nat
  BY <1>6, <1>7
<1>9. n = 0 => last = 0
  <2>1. n = 0 => ~ \E i \in 1 .. n : TRUE
    OBVIOUS
  <2> QED
    BY <1>3, <1>7, <2>1
<1>10. ASSUME NEW i \in 1 .. n
       PROVE  fs[i].name <= last /\ \A x \in Range(fs[i].lines) : x.at <= last
  <2>1. ModOf(fs[i], c) <= last /\ ModOf(fs[i], c) \in Nat
    BY <1>1, <1>3, <1>5, <1>7
  <2>2. fs[i].name <= last
    BY <1>1, <1>5, <1>8, <2>1
  <2>3. ASSUME NEW x \in Range(fs[i].lines) PROVE x.at <= last
    <3>1. x.at \in Nat
      BY <1>1, LinesAre
    <3>2. x.at <= ModOf(fs[i], c)
      BY <1>1, <1>5
    <3> QED
      BY <1>8, <2>1, <3>1, <3>2
  <2> QED
    BY <2>2, <2>3
<1>11. ASSUME NEW j \in DOMAIN fs, j > n, NEW y \in Range(fs[j].lines) PROVE last < y.at
  <2>1. y.at \in Nat /\ 1 <= y.at
    <3>1. y.at \in Nat /\ fs[j].name >= 1 /\ fs[j].name <= y.at
      BY LinesAre
    <3> QED
      BY <1>5, <3>1
  <2>2. CASE last = 0
    BY <2>1, <2>2
  <2>3. CASE last # 0
    <3>1. PICK i \in 1 .. n : last = ModOf(fs[i], c)
      BY <1>3, <1>7, <2>3
    <3>2. i < j /\ i \in DOMAIN fs
      BY <1>1, <1>11
    <3>3. fs[i].modified < y.at
      BY <3>2 DEF DiskOK
    <3>4. last <= fs[i].modified /\ fs[i].modified \in Nat
      BY <1>5, <3>1, <3>2
    <3> QED
      BY <1>8, <2>1, <3>3, <3>4
  <2> QED
    BY <2>2, <2>3
<1> QED
  BY <1>8, <1>9, <1>10, <1>11 DEF last

LEMMA RestCovered ==
  ASSUME NEW fs \in Seq(File), NEW n \in 0 .. Len(fs), NEW u
  PROVE  Covered(Newest(fs, n), fs, u)
<1> DEFINE gs == Newest(fs, n)
<1>1. \A j \in DOMAIN gs : n + j \in DOMAIN fs /\ gs[j] = fs[n + j]
  BY RestIs
<1> HIDE DEF gs
<1>2. \A i \in DOMAIN fs : fs[i].modified <= fs[i].modified
  BY FilesAre, FileIs
<1>3. Covered(gs, fs, u)
  BY <1>1, <1>2 DEF Covered, Same
<1> QED
  BY <1>3 DEF gs

LEMMA RestDisk ==
  ASSUME NEW fs, NEW t, DiskOK(fs, t), NEW n \in 0 .. Len(fs)
  PROVE  DiskOK(Newest(fs, n), t)
<1> DEFINE gs == Newest(fs, n)
<1>0. fs \in Seq(File) /\ n \in Nat
  BY FilesAre DEF DiskOK
<1>1. gs \in Seq(File) /\ \A j \in DOMAIN gs : n + j \in DOMAIN fs /\ gs[j] = fs[n + j] /\ j \in Nat
  BY <1>0, RestIs
<1> HIDE DEF gs
<1>2. ASSUME NEW i \in DOMAIN gs, NEW j \in DOMAIN gs, i < j
      PROVE  gs[i].name < gs[j].name /\ \A x \in Range(gs[j].lines) : gs[i].modified < x.at
  <2>1. n + i < n + j
    BY <1>0, <1>1, <1>2
  <2> QED
    BY <1>1, <2>1 DEF DiskOK
<1>3. \A i \in DOMAIN gs : FileOK(gs[i], t)
  BY <1>1 DEF DiskOK
<1>4. DiskOK(gs, t)
  BY <1>1, <1>2, <1>3 DEF DiskOK
<1> QED
  BY <1>4 DEF gs

GoneNames(fs, n) == {f.name : f \in GoneFiles(fs, n)}
GoneLines(fs, n) == UNION {Range(f.lines) : f \in GoneFiles(fs, n)}

\* What Disk forgets with them.
Forget(c, names) ==
  [c EXCEPT !.earlier = @ \ names, !.newest = [k \in Times |-> IF k \in names THEN 0 ELSE @[k]]]

LEMMA ForgetIs ==
  ASSUME NEW c \in CurSet, NEW names
  PROVE  LET e == Forget(c, names) IN
         /\ e \in CurSet /\ e.name = c.name /\ e.earlier = c.earlier \ names
         /\ \A k \in Times : e.newest[k] = IF k \in names THEN 0 ELSE c.newest[k]
<1> DEFINE m == [k \in Times |-> IF k \in names THEN 0 ELSE c.newest[k]]
<1>1. c.newest \in [Times -> Times] /\ c.earlier \in SUBSET Times
  BY DEF CurSet
<1>2. m \in [Times -> Times]
  BY <1>1, TimesIs
<1>3. \A k \in Times : m[k] = IF k \in names THEN 0 ELSE c.newest[k]
  OBVIOUS
<1>4. Forget(c, names) = [c EXCEPT !.earlier = c.earlier \ names, !.newest = m]
  BY DEF Forget, CurSet
<1> HIDE DEF m
<1> DEFINE g == c.earlier \ names
<1>5. g \in SUBSET Times
  BY <1>1
<1> HIDE DEF g
<1>6. LET e == [c EXCEPT !.earlier = g, !.newest = m] IN
      e \in CurSet /\ e.name = c.name /\ e.earlier = g /\ e.newest = m
  BY <1>2, <1>5 DEF CurSet
<1> QED
  BY <1>3, <1>4, <1>6 DEF g

LEMMA CutSound ==
  ASSUME NEW fs, NEW c, NEW s, NEW ld, NEW d, NEW r, NEW rs, NEW sv, NEW ex, NEW u \in Times,
         Sound(fs, c, s, ld, d, r, rs, sv, ex, u), NEW n \in 0 .. Len(fs),
         \A x \in Range(s) : x.at > LastGone(fs, c, n)
  PROVE  Sound(Newest(fs, n), Forget(c, GoneNames(fs, n)), s, ld, Max({d, LastGone(fs, c, n)}), r, rs, sv,
               ex \cup GoneLines(fs, n), u)
<1> DEFINE gs    == Newest(fs, n)
           names == GoneNames(fs, n)
           e     == Forget(c, names)
           last  == LastGone(fs, c, n)
           m     == Max({d, last})
           all   == ex \cup GoneLines(fs, n)
<1>1. u \in Nat /\ DiskOK(fs, u) /\ CurOK(fs, c, r, u) /\ fs \in Seq(File) /\ c \in CurSet /\ Notes(fs, c.newest, u)
  BY TimesIs DEF Sound, DiskOK, CurOK, CurSet
<1>2. r \in Nat /\ r <= u /\ n \in Nat
  BY <1>1 DEF CurOK
<1>3. /\ last \in 0 .. u
      /\ \A i \in 1 .. n : fs[i].name <= last /\ \A x \in Range(fs[i].lines) : x.at <= last
      /\ \A j \in DOMAIN fs : j > n => \A y \in Range(fs[j].lines) : last < y.at
  BY <1>1, LastGoneIs
<1>4. \A x \in Range(s) : last < x.at
  BY <1>3, SpanIs DEF Sound, MemOK
<1>5. \A f : f \in GoneFiles(fs, n) <=> \E i \in 1 .. n : f = fs[i]
  BY <1>1, GoneFilesAre
<1>6. \A k : k \in names <=> \E i \in 1 .. n : k = fs[i].name
  BY <1>5 DEF GoneNames
<1>7. \A x : x \in GoneLines(fs, n) <=> \E i \in 1 .. n : x \in Range(fs[i].lines)
  BY <1>5 DEF GoneLines
<1>8. DiskOK(gs, u) /\ Covered(gs, fs, u)
  BY <1>1, RestDisk, RestCovered
<1>9. /\ gs \in Seq(File)
      /\ \A j \in DOMAIN gs : n + j \in DOMAIN fs /\ gs[j] = fs[n + j] /\ j \in Nat
      /\ \A i \in DOMAIN fs : i > n => i - n \in DOMAIN gs /\ gs[i - n] = fs[i]
  BY <1>1, RestIs
<1>10. /\ e \in CurSet /\ e.name = c.name /\ e.earlier = c.earlier \ names
       /\ \A k \in Times : e.newest[k] = IF k \in names THEN 0 ELSE c.newest[k]
  BY <1>1, ForgetIs
<1>11. d \in Nat /\ d <= u
  <2>1. d \in 0 .. u
    BY DEF Sound, GoneOK
  <2> QED
    BY <1>1, <2>1
<1>12. m \in {d, last} /\ d <= m /\ last <= m
  <2>1. {d, last} \in SUBSET (0 .. u)
    BY <1>1, <1>3, <1>11
  <2> QED
    BY <1>1, <2>1, MaxIs
<1>13. Len(fs) \in Nat /\ DOMAIN fs = 1 .. Len(fs) /\ \A i \in 1 .. n : i \in DOMAIN fs /\ i \in Nat
  BY <1>1, FilesAre
<1> HIDE DEF gs, names, e, last, m, all
<1>14. \A j \in DOMAIN gs : n + j > n /\ \A y \in Range(gs[j].lines) : last < y.at
  <2> SUFFICES ASSUME NEW j \in DOMAIN gs PROVE n + j > n /\ \A y \in Range(gs[j].lines) : last < y.at
    OBVIOUS
  <2>1. n + j \in DOMAIN fs /\ gs[j] = fs[n + j] /\ j \in Nat /\ j >= 1
    BY <1>9
  <2>2. n + j > n
    BY <1>2, <2>1
  <2> QED
    BY <1>3, <2>1, <2>2
<1>15. \A j \in DOMAIN gs : gs[j].name \notin names
  <2> SUFFICES ASSUME NEW j \in DOMAIN gs, NEW i \in 1 .. n, gs[j].name = fs[i].name PROVE FALSE
    BY <1>6
  <2>1. n + j \in DOMAIN fs /\ i \in DOMAIN fs /\ i < n + j
    <3>1. n + j \in DOMAIN fs /\ i \in DOMAIN fs /\ n + j > n /\ i \in Nat /\ i <= n /\ j \in Nat
      BY <1>9, <1>13, <1>14
    <3> QED
      BY <1>2, <3>1
  <2>2. fs[i].name < fs[n + j].name
    BY <1>1, <2>1 DEF DiskOK
  <2>3. fs[i].name \in Nat /\ fs[n + j].name = fs[i].name
    BY <1>1, <1>9, <2>1, Names
  <2> QED
    BY <2>2, <2>3
<1>16. \A j \in DOMAIN gs : gs[j].name \in Times
  BY <1>9, FilesAre, FileIs
<1>17. CurOK(gs, e, r, u)
  <2>1. Notes(gs, e.newest, u)
    <3>1. \A k \in Times : k > u => e.newest[k] = 0
      BY <1>1, <1>10 DEF Notes
    <3>2. ASSUME NEW j \in DOMAIN gs, e.newest[gs[j].name] # 0
          PROVE  /\ e.newest[gs[j].name] \in gs[j].name .. gs[j].modified
                 /\ \A x \in Range(gs[j].lines) : x.at <= e.newest[gs[j].name]
      <4>1. e.newest[gs[j].name] = c.newest[gs[j].name]
        BY <1>10, <1>15, <1>16
      <4>2. n + j \in DOMAIN fs /\ gs[j] = fs[n + j]
        BY <1>9
      <4> QED
        BY <1>1, <3>2, <4>1, <4>2 DEF Notes
    <3> QED
      BY <1>10, <3>1, <3>2 DEF Notes, CurSet
  <2>2. ASSUME NEW j \in DOMAIN gs, gs[j].name < r PROVE gs[j].name \in e.earlier /\ gs[j].modified < r
    <3>1. gs[j].name \in c.earlier /\ gs[j].modified < r
      BY <1>1, <1>9, <2>2 DEF CurOK
    <3> QED
      BY <1>10, <1>15, <3>1
  <2>3. ASSUME NEW j \in DOMAIN gs, gs[j].name > e.name PROVE gs[j].lines = <<>>
    BY <1>1, <1>9, <1>10, <2>3 DEF CurOK
  <2>4. r \in 1 .. u /\ e.name \in r .. u /\ \A k \in e.earlier : k < r
    BY <1>1, <1>10 DEF CurOK
  <2> QED
    BY <1>10, <2>1, <2>2, <2>3, <2>4 DEF CurOK, CurSet
<1>18. LoadOK(gs, ld, r, u) /\ HoleOK(gs, s, ld, r)
  BY <1>1, <1>2, <1>8, <1>9, LoadCovered, HoleCovered DEF Sound
<1>19. GoneOK(gs, s, ld, m, all, u)
  <2>1. GoneOK(fs, s, ld, d, ex, u)
    BY DEF Sound
  <2>2. all \subseteq Span /\ \A x \in all : x.at <= u
    <3>1. ASSUME NEW x \in GoneLines(fs, n) PROVE x \in Span /\ x.at <= u
      <4>1. PICK i \in 1 .. n : x \in Range(fs[i].lines)
        BY <1>7
      <4>2. x \in Span /\ x.at \in Nat /\ fs[i].modified \in Nat /\ x.at <= fs[i].modified /\ fs[i].modified <= u
        BY <1>1, <1>13, <4>1, LinesAre, Names
      <4> QED
        BY <1>1, <4>2
    <3> QED
      BY <2>1, <3>1 DEF GoneOK, all
  <2>3. m \in 0 .. u
    BY <1>3, <1>11, <1>12
  <2>4. ASSUME NEW x \in GoneLines(fs, n) PROVE x.at <= last /\ x.at \in Nat
    <3>1. PICK i \in 1 .. n : x \in Range(fs[i].lines)
      BY <1>7
    <3> QED
      BY <1>1, <1>3, <1>13, <3>1, LinesAre
  <2>5. last \in Nat /\ m \in Nat
    BY <1>3, <2>3
  <2>6. ASSUME NEW j \in DOMAIN gs, NEW y \in Range(gs[j].lines) PROVE m < y.at /\ \A x \in all : x.at < y.at
    <3>1. n + j \in DOMAIN fs /\ y \in Range(fs[n + j].lines) /\ y.at \in Nat
      BY <1>1, <1>9, LinesAre
    <3>2. d < y.at /\ \A x \in ex : x.at < y.at
      BY <2>1, <3>1 DEF GoneOK
    <3>3. last < y.at
      BY <1>14
    <3>4. \A x \in GoneLines(fs, n) : x.at < y.at
      BY <2>4, <2>5, <3>1, <3>3
    <3> QED
      BY <1>12, <3>2, <3>3, <3>4 DEF all
  <2>7. ASSUME NEW x \in Range(ld.spans), x \in all PROVE x.at <= m
    <3>1. CASE x \in ex
      <4>1. x.at <= d /\ x.at \in Nat
        BY <2>1, <3>1, SpanIs DEF GoneOK
      <4> QED
        BY <1>11, <1>12, <2>5, <4>1
    <3>2. CASE x \in GoneLines(fs, n)
      BY <1>12, <2>4, <2>5, <3>2
    <3> QED
      BY <2>7, <3>1, <3>2 DEF all
  <2>8. Range(s) \cap all = {}
    <3> SUFFICES ASSUME NEW x \in Range(s), x \in GoneLines(fs, n) PROVE FALSE
      BY <2>1 DEF GoneOK, all
    <3>1. last < x.at /\ x.at <= last /\ x.at \in Nat
      BY <1>4, <2>4
    <3> QED
      BY <2>5, <3>1
  <2> QED
    BY <2>2, <2>3, <2>6, <2>7, <2>8 DEF GoneOK
<1>20. u \in Nat /\ m \in Nat /\ last \in Nat
  BY <1>1, <1>3, <1>11, <1>12
<1>21. ServedOK(gs, s, ld, m, sv, u)
  <2>1. ServedOK(fs, s, ld, d, sv, u)
    BY DEF Sound
  <2>2. ASSUME NEW k \in sv, NEW i \in DOMAIN fs, fs[i].name = k
        PROVE  (\E j \in DOMAIN gs : gs[j].name = k) \/ Past(k, gs, s, ld, m)
    <3>1. CASE i > n
      BY <1>9, <2>2, <3>1
    <3>2. CASE ~(i > n)
      <4>1. i \in 1 .. n
        BY <1>2, <1>13, <3>2
      <4>2. k <= last /\ k \in Nat
        BY <1>1, <1>3, <2>2, <4>1, Names
      <4>3. ASSUME NEW j \in DOMAIN gs, NEW y \in Range(gs[j].lines) PROVE k < y.at
        <5>1. y.at \in Nat /\ last < y.at
          BY <1>1, <1>9, <1>14, LinesAre
        <5> QED
          BY <1>20, <4>2, <5>1
      <4>4. ASSUME NEW x \in Range(s) PROVE k < x.at
        <5>1. x.at \in Nat
          BY DEF Sound, MemOK
        <5> QED
          BY <1>4, <1>20, <4>2, <5>1
      <4>5. ASSUME NEW x \in Range(ld.spans), x.at > m PROVE k < x.at
        <5>1. x.at \in Nat
          BY DEF Sound, LoadOK
        <5> QED
          BY <1>12, <1>20, <4>2, <4>5, <5>1
      <4> QED
        BY <4>3, <4>4, <4>5 DEF Past
    <3> QED
      BY <3>1, <3>2
  <2>3. ASSUME NEW k, Past(k, fs, s, ld, d) PROVE Past(k, gs, s, ld, m)
    <3>1. Past(k, gs, s, ld, d)
      BY <1>8, <2>3, PastCovered
    <3>2. ASSUME NEW x \in Range(ld.spans), x.at > m PROVE k < x.at
      <4>1. x.at \in Nat
        BY DEF Sound, LoadOK
      <4>2. x.at > d
        BY <1>11, <1>12, <1>20, <3>2, <4>1
      <4> QED
        BY <3>1, <4>2 DEF Past
    <3> QED
      BY <3>1, <3>2 DEF Past
  <2>4. ASSUME NEW k \in sv PROVE (\E j \in DOMAIN gs : gs[j].name = k) \/ Past(k, gs, s, ld, m)
    <3>1. (\E i \in DOMAIN fs : fs[i].name = k) \/ Past(k, fs, s, ld, d)
      BY <2>1 DEF ServedOK
    <3> QED
      BY <2>2, <2>3, <3>1
  <2>5. ASSUME NEW j \in DOMAIN gs, gs[j].name \in sv PROVE gs[j].run = gs[j].name
    BY <1>9, <2>1, <2>5 DEF ServedOK
  <2> QED
    BY <2>1, <2>4, <2>5 DEF ServedOK
<1>22. ToldOK(gs, ld, r, rs, sv)
  <2>1. ToldOK(fs, ld, r, rs, sv)
    BY DEF Sound
  <2> QED
    BY <1>9, <2>1 DEF ToldOK
<1>23. Sound(gs, e, s, ld, m, r, rs, sv, all, u)
  BY <1>8, <1>17, <1>18, <1>19, <1>21, <1>22 DEF Sound
<1> QED
  BY <1>23 DEF gs, names, e, last, m, all

LEMMA DeletedIs ==
  ASSUME NEW fs \in Seq(File), NEW c, NEW t
  PROVE  Deleted(fs, c, t) \in 0 .. Len(fs)
<1> DEFINE S == {n \in 0 .. Len(fs) : \/ n = Len(fs)
                                      \/ fs[n + 1].name = c.name
                                      \/ ~Deletable(Newest(fs, n), c, t)}
<1>1. Upto(fs, S)
  <2>1. Len(fs) \in Nat
    OBVIOUS
  <2> QED
    BY <2>1 DEF Upto
<1>2. Deleted(fs, c, t) = Min(S)
  BY DEF Deleted
<1> HIDE DEF S
<1>3. Min(S) \in S
  BY <1>1, LeastLeft
<1> QED
  BY <1>1, <1>2, <1>3 DEF Upto

\* expire, whatever it finds too old or too large.
LEMMA ExpireSound ==
  ASSUME NEW fs, NEW c, NEW s, NEW ld, NEW r, NEW rs, NEW sv, NEW u \in Times,
         Sound(fs, c, s, ld, dropped, r, rs, sv, expired, u), Expire(fs, c, s, u)
  PROVE  Sound(segs', cur', mem', ld, dropped', r, rs, sv, expired', u) /\ bytes' = SumOf(mem')
<1> DEFINE n    == Deleted(fs, c, u)
           last == LastGone(fs, c, n)
           kept == IF n = 0 THEN s ELSE Through(s, last)
<1>1. fs \in Seq(File) /\ DiskOK(fs, u) /\ Notes(fs, c.newest, u) /\ u \in Nat /\ s \in Seq(Span) /\ Sorted(s)
  BY TimesIs DEF Sound, DiskOK, CurOK, MemOK
<1>2. n \in 0 .. Len(fs)
  BY <1>1, DeletedIs
<1>3. /\ segs' = Newest(fs, n) /\ mem' = kept /\ bytes' = SumOf(kept)
      /\ dropped' = Max({dropped, last}) /\ cur' = Forget(c, GoneNames(fs, n))
      /\ expired' = expired \cup GoneLines(fs, n)
  BY DEF Expire, Hold, LastGone, GoneFiles, GoneNames, GoneLines, Forget
<1> HIDE DEF n
<1>4. last \in 0 .. u /\ (n = 0 => last = 0)
  BY <1>1, <1>2, LastGoneIs
<1>5. Suffix(kept, s) /\ \A x \in Range(kept) : x.at > last
  <2>1. CASE n = 0
    <3>1. \A x \in Range(s) : x.at \in 1 .. u
      BY DEF Sound, MemOK
    <3>2. \A x \in Range(s) : x.at > last
      BY <1>4, <2>1, <3>1
    <3> QED
      BY <1>1, <2>1, <3>2, SuffixSelf
  <2>2. CASE n # 0
    <3>1. last \in Nat
      BY <1>4
    <3> HIDE DEF last
    <3> QED
      BY <1>1, <2>2, <3>1, ThroughIs
  <2> QED
    BY <2>1, <2>2
<1> HIDE DEF kept
<1>6. Sound(fs, c, kept, ld, dropped, r, rs, sv, expired, u)
  BY <1>5, DroppedSound
<1>7. Sound(Newest(fs, n), Forget(c, GoneNames(fs, n)), kept, ld, Max({dropped, last}), r, rs, sv,
            expired \cup GoneLines(fs, n), u)
  BY <1>2, <1>5, <1>6, CutSound
<1> QED
  BY <1>3, <1>7

-----------------------------------------------------------------------------
(* The load.                                                               *)

Up == Sound(segs, cur, mem, load, dropped, run, runs, served, expired, now)

LoadSet == [pc : {"off", "begin", "read", "done"}, names : SUBSET Times, spans : Seq(Span),
            newest : [Times -> Times], runs : SUBSET Times]

LEMMA UnknownIs == Unknown \in [Times -> Times] /\ \A k \in Times : Unknown[k] = 0
BY TimesIs DEF Unknown

\* A load that has read nothing.
IsUnread(l, p) ==
  l \in LoadSet /\ l.pc = p /\ l.names = {} /\ l.spans = <<>> /\ l.newest = Unknown /\ l.runs = {}

LEMMA LoadingIs == ASSUME NEW p \in {"off", "begin", "done"} PROVE IsUnread(Loading(p), p)
<1>1. <<>> \in Seq(Span) /\ {} \in SUBSET Times
  OBVIOUS
<1> QED
  BY <1>1, UnknownIs DEF LoadSet, Loading, IsUnread

LEMMA NoNotes == ASSUME NEW fs \in Seq(File), NEW t PROVE Notes(fs, Unknown, t)
<1>1. \A i \in DOMAIN fs : fs[i].name \in Times
  BY FilesAre, FileIs
<1> QED
  BY <1>1, UnknownIs DEF Notes

\* A load that has read nothing says nothing.
LEMMA Unread ==
  ASSUME NEW fs \in Seq(File), NEW r, NEW t, NEW p \in {"off", "begin", "done"}
  PROVE  LoadOK(fs, Loading(p), r, t)
<1> DEFINE l == Loading(p)
<1>1. l \in LoadSet /\ l.pc = p /\ l.names = {} /\ l.spans = <<>> /\ l.newest = Unknown
  BY LoadingIs DEF IsUnread
<1> HIDE DEF l
<1>2. Notes(fs, l.newest, r - 1)
  BY <1>1, NoNotes
<1>3. Sorted(l.spans)
  BY <1>1 DEF Sorted
<1>4. Range(l.spans) = {}
  BY <1>1, NoLines
<1>5. LoadOK(fs, l, r, t)
  BY <1>1, <1>2, <1>3, <1>4 DEF LoadOK, LoadSet
<1> QED
  BY <1>5 DEF l

LEMMA BeginsIs ==
  ASSUME NEW l \in LoadSet, NEW names \in SUBSET Times
  PROVE  LET m == [l EXCEPT !.pc = "read", !.names = names] IN
         /\ m \in LoadSet /\ m.pc = "read" /\ m.names = names /\ m.spans = l.spans
         /\ m.newest = l.newest /\ m.runs = l.runs
BY DEF LoadSet

LEMMA LoadBeginsSound ==
  ASSUME Up, LoadBegins
  PROVE  Sound(segs, cur, mem, load', dropped, run, runs, served, expired, now)
<1>1. /\ DiskOK(segs, now) /\ CurOK(segs, cur, run, now) /\ LoadOK(segs, load, run, now) /\ load.pc = "begin"
      /\ load \in LoadSet /\ cur.earlier \in SUBSET Times /\ load.spans = <<>>
  BY DEF Up, LoadBegins, Sound, LoadOK, LoadSet, CurOK
<1>2. /\ load' \in LoadSet /\ load'.pc = "read" /\ load'.names = cur.earlier /\ load'.spans = <<>>
      /\ load'.newest = load.newest /\ load'.runs = load.runs
  BY <1>1, BeginsIs DEF LoadBegins
<1> DEFINE l == load'
<1> HIDE DEF l
<1>3. /\ l \in LoadSet /\ l.pc = "read" /\ l.names = cur.earlier /\ l.spans = <<>>
      /\ l.newest = load.newest /\ l.runs = load.runs
  BY <1>2 DEF l
<1>4. Range(l.spans) = {} /\ Range(load.spans) = {} /\ Sorted(l.spans)
  BY <1>1, <1>3, NoLines DEF Sorted
<1>5. LoadOK(segs, l, run, now)
  <2>1. \A k \in l.names : k < run
    BY <1>1, <1>3 DEF CurOK
  <2>2. Notes(segs, l.newest, run - 1)
    BY <1>1, <1>3 DEF LoadOK
  <2>3. \A i \in DOMAIN segs : segs[i].name < run => segs[i].name \in l.names
    BY <1>1, <1>3 DEF CurOK
  <2> QED
    BY <1>3, <1>4, <2>1, <2>2, <2>3 DEF LoadOK, LoadSet
<1>6. Arrived(mem, l, run)
  BY <1>1, <1>3 DEF Up, Sound, Arrived
<1>7. GoneOK(segs, mem, l, dropped, expired, now)
  BY <1>4 DEF Up, Sound, GoneOK
<1>8. HoleOK(segs, mem, l, run)
  BY <1>3 DEF HoleOK
<1>9. ServedOK(segs, mem, l, dropped, served, now)
  <2>1. ServedOK(segs, mem, load, dropped, served, now)
    BY DEF Up, Sound
  <2>2. \A k : Past(k, segs, mem, load, dropped) => Past(k, segs, mem, l, dropped)
    BY <1>4 DEF Past
  <2> QED
    BY <2>1, <2>2 DEF ServedOK
<1>10. ToldOK(segs, l, run, runs, served)
  <2>1. \A i \in DOMAIN segs : segs[i].name < run => segs[i].name \in l.names
    BY <1>1, <1>3 DEF CurOK
  <2> QED
    BY <1>3, <2>1 DEF Up, Sound, ToldOK
<1>11. Sound(segs, cur, mem, l, dropped, run, runs, served, expired, now)
  BY <1>5, <1>6, <1>7, <1>8, <1>9, <1>10 DEF Up, Sound
<1> QED
  BY <1>11 DEF l

\* The file that has a name, if any.
LEMMA Found ==
  ASSUME NEW fs, NEW t \in Nat, DiskOK(fs, t), NEW name
  PROVE  LET found == {f \in Range(fs) : f.name = name} IN
         \/ found = {} /\ \A i \in DOMAIN fs : fs[i].name # name
         \/ \E i \in DOMAIN fs : found = {fs[i]} /\ fs[i].name = name /\ \A j \in DOMAIN fs : fs[j].name = name => j = i
<1> DEFINE found == {f \in Range(fs) : f.name = name}
<1>1. \A f : f \in found <=> \E i \in DOMAIN fs : f = fs[i] /\ fs[i].name = name
  BY RangeIs
<1> HIDE DEF found
<1>2. CASE found = {}
  BY <1>1, <1>2 DEF found
<1>3. CASE found # {}
  <2>1. PICK i \in DOMAIN fs : fs[i].name = name
    BY <1>1, <1>3
  <2>2. ASSUME NEW j \in DOMAIN fs, fs[j].name = name PROVE j = i
    <3>1. i \in Nat /\ j \in Nat /\ fs[i].name \in Nat
      BY FilesAre, Names DEF DiskOK
    <3>2. ~(fs[i].name < fs[j].name) /\ ~(fs[j].name < fs[i].name)
      BY <2>1, <2>2, <3>1
    <3>3. ~(i < j) /\ ~(j < i)
      BY <3>2 DEF DiskOK
    <3> QED
      BY <3>1, <3>3
  <2>3. found = {fs[i]}
    BY <1>1, <2>1, <2>2
  <2> QED
    BY <2>1, <2>2, <2>3 DEF found
<1> QED
  BY <1>2, <1>3

IsRead(m, l, name, lines, v, R) ==
  /\ m \in LoadSet /\ m.pc = l.pc /\ m.names = l.names \ {name} /\ m.spans = l.spans \o lines
  /\ m.newest[name] = v /\ (\A k \in Times : k # name => m.newest[k] = l.newest[k])
  /\ m.runs = l.runs \cup R

LEMMA ReadsIs ==
  ASSUME NEW l \in LoadSet, NEW name \in Times, NEW lines \in Seq(Span), NEW v \in Times, NEW R \in SUBSET Times
  PROVE  IsRead([l EXCEPT !.names = @ \ {name}, !.spans = @ \o lines,
                          !.newest = [@ EXCEPT ![name] = v], !.runs = @ \cup R], l, name, lines, v, R)
<1> DEFINE a == l.names \ {name}
           b == l.spans \o lines
           c == [l.newest EXCEPT ![name] = v]
           d == l.runs \cup R
           m == [l EXCEPT !.names = a, !.spans = b, !.newest = c, !.runs = d]
<1>1. a \in SUBSET Times /\ b \in Seq(Span) /\ c \in [Times -> Times] /\ d \in SUBSET Times
  BY DEF LoadSet
<1>2. c[name] = v /\ \A k \in Times : k # name => c[k] = l.newest[k]
  BY DEF LoadSet
<1>3. [l EXCEPT !.names = @ \ {name}, !.spans = @ \o lines, !.newest = [@ EXCEPT ![name] = v], !.runs = @ \cup R] = m
  OBVIOUS
<1> HIDE DEF a, b, c, d
<1>4. m \in LoadSet /\ m.pc = l.pc /\ m.names = a /\ m.spans = b /\ m.newest = c /\ m.runs = d
  BY <1>1 DEF LoadSet
<1> HIDE DEF m
<1>5. IsRead(m, l, name, lines, v, R)
  BY <1>2, <1>4 DEF a, b, d, IsRead
<1> QED
  BY <1>3, <1>5

LEMMA LoadReadsSound ==
  ASSUME Up, LoadReads, now \in Nat
  PROVE  Sound(segs, cur, mem, load', dropped, run, runs, served, expired, now)
<1> DEFINE name  == Min(load.names)
           found == {f \in Range(segs) : f.name = name}
           lines == IF found = {} THEN <<>> ELSE (CHOOSE f \in found : TRUE).lines
           R     == {f.run : f \in found} \ {0}
           v     == IF lines = <<>> THEN load.newest[name] ELSE Last(lines).at
           l     == load'
<1>1. /\ DiskOK(segs, now) /\ CurOK(segs, cur, run, now) /\ LoadOK(segs, load, run, now) /\ load.pc = "read"
      /\ load \in LoadSet /\ segs \in Seq(File) /\ load.names # {} /\ load.names \in SUBSET Times
      /\ load.spans \in Seq(Span) /\ run \in Nat
  BY DEF Up, LoadReads, Sound, LoadOK, LoadSet, CurOK, DiskOK
<1>2. name \in load.names /\ name \in Times /\ name \in Nat /\ name < run /\ \A k \in load.names : name <= k
  <2>1. load.names \in SUBSET Nat
    BY <1>1, TimesIs
  <2>2. name \in load.names /\ \A k \in load.names : name <= k
    BY <1>1, <2>1, MinIs
  <2> HIDE DEF name
  <2> QED
    BY <1>1, <2>1, <2>2 DEF LoadOK
<1>3. load' = [load EXCEPT !.names = @ \ {name}, !.spans = @ \o lines,
                           !.newest = [@ EXCEPT ![name] = v], !.runs = @ \cup R]
  BY Zenon DEF LoadReads
<1> HIDE DEF name, lines, found
\* What is read is the file that has this name, if there is one.
<1>4. \/ lines = <<>> /\ R = {} /\ \A i \in DOMAIN segs : segs[i].name # name
      \/ \E i \in DOMAIN segs : /\ lines = segs[i].lines /\ R = {segs[i].run} \ {0} /\ segs[i].name = name
                                /\ \A j \in DOMAIN segs : segs[j].name = name => j = i
  <2>1. \/ found = {} /\ \A i \in DOMAIN segs : segs[i].name # name
        \/ \E i \in DOMAIN segs : found = {segs[i]} /\ segs[i].name = name /\ \A j \in DOMAIN segs : segs[j].name = name => j = i
    BY <1>1, Found DEF found
  <2>2. CASE found = {} /\ \A i \in DOMAIN segs : segs[i].name # name
    BY <2>2 DEF lines
  <2>3. CASE \E i \in DOMAIN segs : found = {segs[i]} /\ segs[i].name = name /\ \A j \in DOMAIN segs : segs[j].name = name => j = i
    <3>1. PICK i \in DOMAIN segs : found = {segs[i]} /\ segs[i].name = name /\ \A j \in DOMAIN segs : segs[j].name = name => j = i
      BY <2>3
    <3>2. (CHOOSE f \in found : TRUE) = segs[i]
      BY <3>1
    <3>3. lines = segs[i].lines
      BY <3>1, <3>2 DEF lines
    <3>4. R = {segs[i].run} \ {0}
      BY <3>1
    <3> HIDE DEF R
    <3> QED
      BY <3>1, <3>3, <3>4
  <2> QED
    BY <2>1, <2>2, <2>3
<1> HIDE DEF R
<1>5. lines \in Seq(Span) /\ R \in SUBSET Times
  <2>1. CASE lines = <<>> /\ R = {}
    BY <2>1
  <2>2. CASE \E i \in DOMAIN segs : lines = segs[i].lines /\ R = {segs[i].run} \ {0}
    BY <1>1, <2>2, FilesAre, FileIs
  <2> QED
    BY <1>4, <2>1, <2>2
\* Its spans are in order, and older than this run.
<1>6. Sorted(lines) /\ \A x \in Range(lines) : x.at \in 1 .. now /\ x.at < run /\ x.at \in Nat /\ name <= x.at /\ x \notin expired
  <2>1. CASE lines = <<>>
    BY <2>1, NoLines DEF Sorted
  <2>2. CASE \E i \in DOMAIN segs : lines = segs[i].lines /\ segs[i].name = name
    <3>1. PICK i \in DOMAIN segs : lines = segs[i].lines /\ segs[i].name = name
      BY <2>2
    <3>2. Sorted(lines) /\ segs[i].modified < run
      BY <1>1, <1>2, <3>1 DEF DiskOK, FileOK, CurOK
    <3>3. ASSUME NEW x \in Range(lines)
          PROVE  x.at \in 1 .. now /\ x.at < run /\ x.at \in Nat /\ name <= x.at /\ x \notin expired
      <4>1. x.at \in Nat /\ segs[i].name >= 1 /\ segs[i].name <= x.at /\ x.at <= segs[i].modified /\ segs[i].modified <= now
        BY <1>1, <3>1, LinesAre
      <4>2. segs[i].modified \in Nat
        BY <1>1, Names
      <4>3. x \notin expired
        <5>1. \A y \in expired : y.at < x.at
          BY <3>1 DEF Up, Sound, GoneOK
        <5> QED
          BY <4>1, <5>1
      <4> QED
        BY <1>1, <1>2, <3>1, <3>2, <4>1, <4>2, <4>3
    <3> QED
      BY <3>2, <3>3
  <2> QED
    BY <1>4, <2>1, <2>2
\* What is noted of it is true.
<1>7. v \in Times /\ (lines # <<>> => Last(lines) \in Range(lines) /\ v = Last(lines).at /\ \A x \in Range(lines) : x.at <= v)
      /\ (lines = <<>> => v = load.newest[name])
  <2>1. CASE lines = <<>>
    BY <1>1, <1>2, <2>1 DEF LoadSet
  <2>2. CASE lines # <<>>
    <3>1. Len(lines) \in Nat /\ DOMAIN lines = 1 .. Len(lines) /\ Len(lines) \in DOMAIN lines /\ Last(lines) = lines[Len(lines)]
      BY <1>5, <2>2 DEF Last
    <3>2. Last(lines) \in Range(lines) /\ Last(lines) \in Span
      BY <1>5, <3>1, RangeIs
    <3>3. ASSUME NEW x \in Range(lines) PROVE x.at <= Last(lines).at
      <4>1. PICK i \in DOMAIN lines : x = lines[i]
        BY RangeIs
      <4>2. i = Len(lines) \/ x.at < lines[Len(lines)].at
        BY <1>6, <3>1, <4>1 DEF Sorted
      <4>3. x.at \in Nat /\ Last(lines).at \in Nat
        BY <1>6, <3>2
      <4> QED
        BY <3>1, <4>1, <4>2, <4>3
    <3>4. v = Last(lines).at
      BY <2>2
    <3> HIDE DEF v
    <3> QED
      BY <2>2, <3>2, <3>3, <3>4, SpanIs
  <2> QED
    BY <2>1, <2>2
<1> HIDE DEF v
<1>8. /\ l \in LoadSet /\ l.pc = "read" /\ l.names = load.names \ {name} /\ l.spans = load.spans \o lines
      /\ l.newest[name] = v /\ (\A k \in Times : k # name => l.newest[k] = load.newest[k]) /\ l.runs = load.runs \cup R
  <2>1. IsRead([load EXCEPT !.names = @ \ {name}, !.spans = @ \o lines,
                            !.newest = [@ EXCEPT ![name] = v], !.runs = @ \cup R], load, name, lines, v, R)
    BY <1>1, <1>2, <1>5, <1>7, ReadsIs
  <2>2. IsRead(l, load, name, lines, v, R)
    BY <1>3, <2>1
  <2> HIDE DEF l
  <2> QED
    BY <1>1, <2>2 DEF IsRead
<1> HIDE DEF l
<1>9. l.spans \in Seq(Span) /\ Range(l.spans) = Range(load.spans) \cup Range(lines)
  BY <1>1, <1>5, <1>8, Joined
<1>10. \A i \in DOMAIN segs : /\ segs[i].name \in Times /\ segs[i].name \in Nat /\ segs[i].modified \in Nat
                              /\ segs[i].name <= segs[i].modified /\ i \in Nat
  BY <1>1, Names, FilesAre, FileIs
<1>11. \A x \in Range(load.spans), y \in Range(lines) : x.at < y.at
  <2>1. CASE lines = <<>>
    BY <2>1, NoLines
  <2>2. CASE \E i \in DOMAIN segs : lines = segs[i].lines /\ segs[i].name = name
    BY <1>1, <1>2, <2>2 DEF LoadOK
  <2> QED
    BY <1>4, <2>1, <2>2
<1>12. Sorted(l.spans)
  <2>1. Sorted(load.spans)
    BY <1>1 DEF LoadOK
  <2> QED
    BY <1>1, <1>5, <1>6, <1>8, <1>11, <2>1, JoinSorted
<1>13. \A x \in Range(l.spans) : x.at \in 1 .. now /\ x.at < run
  BY <1>1, <1>6, <1>9 DEF LoadOK
<1>14. ASSUME NEW j \in DOMAIN segs, segs[j].name \in l.names, NEW x \in Range(l.spans), NEW y \in Range(segs[j].lines)
       PROVE  x.at < y.at
  <2>1. segs[j].name \in load.names /\ segs[j].name # name /\ name < segs[j].name
    <3>1. segs[j].name \in load.names /\ segs[j].name # name
      BY <1>8, <1>14
    <3>2. name <= segs[j].name
      BY <1>2, <3>1
    <3> QED
      BY <1>2, <1>10, <3>1, <3>2
  <2>2. CASE x \in Range(load.spans)
    BY <1>1, <2>1, <2>2 DEF LoadOK
  <2>3. CASE x \in Range(lines)
    <3>1. lines # <<>>
      BY <2>3, NoLines
    <3>2. PICK i \in DOMAIN segs : lines = segs[i].lines /\ segs[i].name = name
      BY <1>4, <3>1
    <3>3. ~(j < i) /\ j # i
      <4>1. ~(segs[j].name < segs[i].name)
        BY <1>2, <1>10, <2>1, <3>2
      <4> QED
        BY <1>1, <2>1, <3>2, <4>1 DEF DiskOK
    <3>4. i < j
      BY <1>10, <3>3
    <3>5. segs[i].modified < y.at
      BY <1>1, <3>4 DEF DiskOK
    <3>6. x.at <= segs[i].modified /\ x.at \in Nat /\ y.at \in Nat
      BY <1>1, <2>3, <3>2, LinesAre
    <3> QED
      BY <1>10, <3>5, <3>6
  <2> QED
    BY <1>9, <2>2, <2>3
<1>15. Notes(segs, l.newest, run - 1)
  <2>1. Notes(segs, load.newest, run - 1)
    BY <1>1 DEF LoadOK
  <2>2. ASSUME NEW k \in Times, k > run - 1 PROVE l.newest[k] = 0
    <3>1. k # name
      BY <1>1, <1>2, <2>2
    <3> QED
      BY <1>8, <2>1, <2>2, <3>1 DEF Notes
  <2>3. ASSUME NEW i \in DOMAIN segs, l.newest[segs[i].name] # 0
        PROVE  /\ l.newest[segs[i].name] \in segs[i].name .. segs[i].modified
               /\ \A x \in Range(segs[i].lines) : x.at <= l.newest[segs[i].name]
    <3>1. CASE segs[i].name # name
      <4>1. l.newest[segs[i].name] = load.newest[segs[i].name]
        BY <1>8, <1>10, <3>1
      <4> QED
        BY <2>1, <2>3, <4>1 DEF Notes
    <3>2. CASE segs[i].name = name /\ lines = <<>>
      <4>1. l.newest[segs[i].name] = load.newest[segs[i].name]
        BY <1>7, <1>8, <3>2
      <4> QED
        BY <2>1, <2>3, <4>1 DEF Notes
    <3>3. CASE segs[i].name = name /\ lines # <<>>
      <4>1. lines = segs[i].lines
        BY <1>4, <3>3
      <4>2. l.newest[segs[i].name] = v /\ v = Last(lines).at /\ Last(lines) \in Range(segs[i].lines)
        BY <1>7, <1>8, <3>3, <4>1
      <4>3. v \in segs[i].name .. segs[i].modified
        <5>1. v \in Nat /\ segs[i].name <= v /\ v <= segs[i].modified
          BY <1>1, <4>2, LinesAre
        <5> QED
          BY <1>10, <5>1
      <4> QED
        BY <1>7, <3>3, <4>1, <4>2, <4>3
    <3> QED
      BY <3>1, <3>2, <3>3
  <2>4. l.newest \in [Times -> Times]
    BY <1>8 DEF LoadSet
  <2> QED
    BY <2>2, <2>3, <2>4 DEF Notes
<1>16. ASSUME NEW i \in DOMAIN segs, segs[i].name < run
       PROVE  segs[i].name \in l.names \/ Range(segs[i].lines) \subseteq Range(l.spans)
  <2>1. segs[i].name \in load.names \/ Range(segs[i].lines) \subseteq Range(load.spans)
    BY <1>1, <1>16 DEF LoadOK
  <2>2. segs[i].name = name => segs[i].lines = lines
    BY <1>4
  <2> QED
    BY <1>8, <1>9, <2>1, <2>2
<1>17. LoadOK(segs, l, run, now)
  <2>1. \A k \in l.names : k < run
    BY <1>1, <1>8 DEF LoadOK
  <2>2. l.pc # "begin"
    BY <1>8
  <2> QED
    BY <1>8, <1>12, <1>13, <1>14, <1>15, <1>16, <2>1, <2>2 DEF LoadOK, LoadSet
<1>18. Arrived(mem, l, run)
  BY <1>1, <1>8 DEF Up, Sound, Arrived
<1>19. GoneOK(segs, mem, l, dropped, expired, now)
  BY <1>6, <1>9 DEF Up, Sound, GoneOK
<1>20. HoleOK(segs, mem, l, run)
  BY <1>8 DEF HoleOK
<1>21. ServedOK(segs, mem, l, dropped, served, now)
  <2>1. ServedOK(segs, mem, load, dropped, served, now)
    BY DEF Up, Sound
  <2>2. ASSUME NEW k, Past(k, segs, mem, load, dropped) PROVE Past(k, segs, mem, l, dropped)
    <3>1. ASSUME NEW x \in Range(lines) PROVE k < x.at
      <4>1. lines # <<>>
        BY <3>1, NoLines
      <4>2. PICK i \in DOMAIN segs : lines = segs[i].lines
        BY <1>4, <4>1
      <4> QED
        BY <2>2, <3>1, <4>2 DEF Past
    <3> QED
      BY <1>9, <2>2, <3>1 DEF Past
  <2> QED
    BY <2>1, <2>2 DEF ServedOK
<1>22. ToldOK(segs, l, run, runs, served)
  <2>1. ToldOK(segs, load, run, runs, served) /\ ServedOK(segs, mem, load, dropped, served, now)
    BY DEF Up, Sound
  <2>2. ASSUME NEW i \in DOMAIN segs, segs[i].name \in served, segs[i].name < run
        PROVE  segs[i].name \in l.names \cup l.runs
    <3>1. segs[i].name \in load.names \cup load.runs
      BY <1>1, <2>1, <2>2 DEF ToldOK
    <3>2. CASE segs[i].name = name
      <4>1. R = {segs[i].run} \ {0}
        BY <1>4, <3>2
      <4>2. segs[i].run = segs[i].name /\ segs[i].name # 0
        BY <2>1, <2>2 DEF ServedOK
      <4> QED
        BY <1>8, <4>1, <4>2
    <3>3. CASE segs[i].name # name
      BY <1>8, <3>1, <3>3
    <3> QED
      BY <3>2, <3>3
  <2>3. l.pc # "done"
    BY <1>8
  <2> QED
    BY <2>1, <2>2, <2>3 DEF ToldOK
<1>23. Sound(segs, cur, mem, l, dropped, run, runs, served, expired, now)
  BY <1>17, <1>18, <1>19, <1>20, <1>21, <1>22 DEF Up, Sound
<1> QED
  BY <1>23 DEF l

\* What has been read of a file counts where nothing has been noted since.
Merged(c, l) == [c EXCEPT !.newest =
  [k \in Times |-> IF l.newest[k] # 0 /\ @[k] = 0 /\ k \in c.earlier THEN l.newest[k] ELSE @[k]]]

LEMMA MergedIs ==
  ASSUME NEW c \in CurSet, NEW l \in LoadSet
  PROVE  LET e == Merged(c, l) IN
         /\ e \in CurSet /\ e.name = c.name /\ e.earlier = c.earlier
         /\ \A k \in Times : e.newest[k] \in {c.newest[k], l.newest[k]}
<1> DEFINE m == [k \in Times |-> IF l.newest[k] # 0 /\ c.newest[k] = 0 /\ k \in c.earlier THEN l.newest[k] ELSE c.newest[k]]
           e == [c EXCEPT !.newest = m]
<1>1. Merged(c, l) = e
  BY DEF Merged
<1>2. c.newest \in [Times -> Times] /\ l.newest \in [Times -> Times]
  BY DEF CurSet, LoadSet
<1>3. m \in [Times -> Times] /\ \A k \in Times : m[k] \in {c.newest[k], l.newest[k]}
  BY <1>2
<1> HIDE DEF m
<1>4. e \in CurSet /\ e.name = c.name /\ e.earlier = c.earlier /\ e.newest = m
  BY <1>3 DEF CurSet
<1> HIDE DEF e
<1> QED
  BY <1>1, <1>3, <1>4

LEMMA MergedNotes ==
  ASSUME NEW fs \in Seq(File), NEW m \in [Times -> Times], NEW a, NEW b, NEW t \in Nat, NEW r \in Nat, r <= t,
         Notes(fs, a, t), Notes(fs, b, r - 1), \A k \in Times : m[k] \in {a[k], b[k]}
  PROVE  Notes(fs, m, t)
<1>1. \A i \in DOMAIN fs : fs[i].name \in Times
  BY FilesAre, FileIs
<1>2. ASSUME NEW k \in Times, k > t PROVE m[k] = 0
  <2>1. k > r - 1
    BY <1>2, TimesIs
  <2> QED
    BY <1>2, <2>1 DEF Notes
<1>3. ASSUME NEW i \in DOMAIN fs, m[fs[i].name] # 0
      PROVE  m[fs[i].name] \in fs[i].name .. fs[i].modified /\ \A x \in Range(fs[i].lines) : x.at <= m[fs[i].name]
  <2>1. CASE m[fs[i].name] = a[fs[i].name]
    BY <1>3, <2>1 DEF Notes
  <2>2. CASE m[fs[i].name] = b[fs[i].name]
    BY <1>3, <2>2 DEF Notes
  <2> QED
    BY <1>1, <2>1, <2>2
<1> QED
  BY <1>2, <1>3 DEF Notes

LEMMA LoadEndsSound ==
  ASSUME Up, LoadEnds, now \in Times
  PROVE  /\ Sound(segs, cur', mem', load', dropped, run, runs', served, expired, now)
         /\ bytes' = SumOf(mem')
<1> DEFINE back == After(load.spans, dropped)
           both == back \o mem
           kept == Fitting(Aged(both, now))
           c    == Merged(cur, load)
           l    == Loading("done")
           all  == runs \cup load.runs
<1>1. /\ mem' = kept /\ bytes' = SumOf(kept) /\ cur' = c /\ load' = l /\ runs' = all
      /\ load.pc = "read" /\ load.names = {}
  BY DEF LoadEnds, Hold, Merged
<1>2. /\ DiskOK(segs, now) /\ CurOK(segs, cur, run, now) /\ LoadOK(segs, load, run, now) /\ MemOK(mem, now)
      /\ GoneOK(segs, mem, load, dropped, expired, now)
  BY DEF Up, Sound
<1>3. load \in LoadSet /\ cur \in CurSet /\ segs \in Seq(File) /\ mem \in Seq(Span) /\ load.spans \in Seq(Span)
  BY <1>2 DEF LoadOK, CurOK, LoadSet, CurSet, DiskOK, MemOK
<1>4. now \in Nat /\ run \in Nat /\ run <= now /\ dropped \in Nat /\ dropped <= now
  BY <1>2, TimesIs DEF CurOK, GoneOK
<1>5. Sorted(load.spans) /\ Sorted(mem)
  BY <1>2 DEF LoadOK, MemOK
<1>6. back \in Seq(Span) /\ Sorted(back) /\ \A x : x \in Range(back) <=> x \in Range(load.spans) /\ x.at > dropped
  BY <1>3, <1>4, <1>5, AfterIs
<1> HIDE DEF back
<1>7. \A x \in Range(back) : x.at \in 1 .. now /\ x.at < run
  BY <1>2, <1>6 DEF LoadOK
<1>8. \A x \in Range(mem) : x.at >= run /\ x.at \in 1 .. now
  BY <1>1, <1>2 DEF Up, Sound, Arrived, MemOK
<1>9. both \in Seq(Span) /\ Range(both) = Range(back) \cup Range(mem) /\ Sorted(both)
  <2>1. \A x \in Range(back), y \in Range(mem) : x.at < y.at
    BY <1>4, <1>7, <1>8
  <2> QED
    BY <1>3, <1>5, <1>6, <2>1, Joined, JoinSorted
<1> HIDE DEF both
<1>10. Suffix(kept, both) /\ Fit(kept)
  <2> DEFINE aged == Aged(both, now)
  <2>1. Suffix(aged, both)
    BY <1>9, AgedIs
  <2> HIDE DEF aged
  <2>2. aged \in Seq(Span)
    BY <1>9, <2>1, SuffixIs
  <2>3. Suffix(Fitting(aged), aged) /\ Fit(Fitting(aged))
    BY <2>2, FittingIs
  <2> QED
    BY <1>9, <2>1, <2>3, SuffixChain DEF aged
<1> HIDE DEF kept
<1>11. /\ kept \in Seq(Span) /\ Range(kept) \subseteq Range(both) /\ Sorted(kept)
       /\ kept # <<>> => \A x \in Range(both) : x.at >= kept[1].at => x \in Range(kept)
  BY <1>9, <1>10, SuffixIs, SuffixSorted
<1>12. c \in CurSet /\ c.name = cur.name /\ c.earlier = cur.earlier /\ \A k \in Times : c.newest[k] \in {cur.newest[k], load.newest[k]}
  BY <1>3, MergedIs
<1> HIDE DEF c
<1>13. IsUnread(l, "done")
  BY LoadingIs
<1>14. LoadOK(segs, l, run, now)
  BY <1>3, Unread
<1> HIDE DEF l, all
<1>15. l.pc = "done" /\ l.spans = <<>> /\ Range(l.spans) = {}
  BY <1>13, NoLines DEF IsUnread
<1>16. CurOK(segs, c, run, now)
  <2>1. Notes(segs, cur.newest, now) /\ Notes(segs, load.newest, run - 1)
    BY <1>2 DEF CurOK, LoadOK
  <2>2. c.newest \in [Times -> Times]
    BY <1>12 DEF CurSet
  <2>3. Notes(segs, c.newest, now)
    BY <1>3, <1>4, <1>12, <2>1, <2>2, MergedNotes
  <2> QED
    BY <1>2, <1>12, <2>3 DEF CurOK, CurSet
<1>17. MemOK(kept, now)
  BY <1>7, <1>8, <1>9, <1>11 DEF MemOK
<1>18. GoneOK(segs, kept, l, dropped, expired, now)
  <2>1. ASSUME NEW x \in Range(kept) PROVE x \notin expired
    <3>1. CASE x \in Range(back)
      <4>1. x \in Range(load.spans) /\ x.at > dropped /\ x.at \in Nat
        BY <1>6, <1>7, <3>1
      <4>2. x \in expired => x.at <= dropped
        BY <1>2, <4>1 DEF GoneOK
      <4> QED
        BY <1>4, <4>1, <4>2
    <3>2. CASE x \in Range(mem)
      BY <1>2, <3>2 DEF GoneOK
    <3> QED
      BY <1>9, <1>11, <3>1, <3>2
  <2> QED
    BY <1>2, <1>15, <2>1 DEF GoneOK
<1>19. HoleOK(segs, kept, l, run)
  <2> SUFFICES ASSUME kept # <<>>, NEW i \in DOMAIN segs, NEW x \in Range(segs[i].lines), x.at >= kept[1].at, x.at < run
               PROVE  x \in Range(kept)
    BY DEF HoleOK
  <2>1. segs[i].name < run
    <3>1. segs[i].name \in Nat /\ x.at \in Nat /\ segs[i].name <= x.at
      BY <1>2, <1>4, LinesAre, Names
    <3> QED
      BY <1>4, <3>1
  <2>2. x \in Range(load.spans)
    BY <1>1, <1>2, <2>1 DEF LoadOK
  <2>3. x.at > dropped
    <3>1. dropped < x.at /\ x.at \in Nat
      BY <1>2, <1>4, LinesAre DEF GoneOK
    <3> QED
      BY <1>4, <3>1
  <2> QED
    BY <1>6, <1>9, <1>11, <2>2, <2>3
<1>20. ServedOK(segs, kept, l, dropped, served, now)
  <2>1. ServedOK(segs, mem, load, dropped, served, now)
    BY DEF Up, Sound
  <2>2. ASSUME NEW k, Past(k, segs, mem, load, dropped) PROVE Past(k, segs, kept, l, dropped)
    <3>1. \A x \in Range(kept) : k < x.at
      BY <1>6, <1>9, <1>11, <2>2 DEF Past
    <3> QED
      BY <1>15, <2>2, <3>1 DEF Past
  <2> QED
    BY <2>1, <2>2 DEF ServedOK
<1>21. ToldOK(segs, l, run, all, served)
  <2>1. ToldOK(segs, load, run, runs, served)
    BY DEF Up, Sound
  <2>2. all \subseteq Times /\ run \in all /\ \A k \in served : k <= run
    BY <1>3, <2>1 DEF ToldOK, LoadSet, all
  <2>3. ASSUME NEW i \in DOMAIN segs, segs[i].name \in served PROVE segs[i].name \in all
    <3>1. segs[i].name \in Nat /\ segs[i].name <= run
      BY <1>2, <1>4, <2>2, <2>3, Names
    <3>2. CASE segs[i].name = run
      BY <2>2, <3>2
    <3>3. CASE segs[i].name < run
      BY <1>1, <2>1, <2>3, <3>3 DEF ToldOK, all
    <3> QED
      BY <1>4, <3>1, <3>2, <3>3
  <2> QED
    BY <1>15, <2>2, <2>3 DEF ToldOK
<1>22. Arrived(kept, l, run)
  BY <1>15 DEF Arrived
<1> QED
  BY <1>1, <1>2, <1>10, <1>14, <1>16, <1>17, <1>18, <1>19, <1>20, <1>21, <1>22 DEF Sound

-----------------------------------------------------------------------------
(* Runs begin and end.                                                     *)

LEMMA EmptyIs ==
  /\ MemOK(<<>>, now) /\ Range(<<>>) = {} /\ Fit(<<>>) /\ SumOf(<<>>) = 0
<1>1. <<>> \in Seq(Span) /\ Range(<<>>) = {} /\ Sorted(<<>>) /\ Len(<<>>) = 0
  BY NoLines DEF Sorted
<1>2. SumOf(<<>>) = 0
  BY <1>1, SumTyped
<1>3. Fit(<<>>)
  BY <1>1, <1>2, LimitsAssumption DEF Fit
<1> QED
  BY <1>1, <1>2, <1>3 DEF MemOK

\* With no memory and no load, what is past is what the disk has nothing of.
LEMMA PastEmpty ==
  ASSUME NEW fs, NEW s, NEW ld, NEW d, NEW e, NEW k, Past(k, fs, s, ld, d), NEW q, NEW m, Range(q) = {}, Range(m.spans) = {}
  PROVE  Past(k, fs, q, m, e)
BY DEF Past

LEMMA StartRunSound ==
  ASSUME Off, now \in Times, StartRun
  PROVE  Sound(segs', cur', mem', load', dropped', run', runs', served', expired', now')
<1> DEFINE u  == now'
           gs == segs'
           c  == cur'
           l  == load'
           sv == served'
<1>1. /\ u = now + 1 /\ gs = Append(segs, Header(u, u)) /\ l = Loading("begin") /\ sv = served \cup {u}
      /\ c = [open |-> TRUE, name |-> u, earlier |-> Disk, newest |-> Unknown]
      /\ run' = u /\ runs' = {u} /\ mem' = <<>> /\ dropped' = 0 /\ expired' = expired
  BY DEF StartRun, Passes, Off
<1>2. u \in Times /\ u \in Nat /\ u # 0 /\ now \in Nat /\ now <= u /\ now < u
  <2>1. now < MaxTime
    BY DEF StartRun, Passes
  <2> HIDE DEF u
  <2> QED
    BY <1>1, <2>1, TimesIs DEF Times
<1> HIDE DEF u, gs, c, l, sv
<1>3. /\ DiskOK(segs, now) /\ GoneOK(segs, <<>>, NoLoad, 0, expired, now)
      /\ ServedOK(segs, <<>>, NoLoad, 0, served, now) /\ segs \in Seq(File)
  BY DEF Off, DiskOK
<1>4. \A i \in DOMAIN segs : segs[i].name \in Times /\ segs[i].name \in Nat /\ segs[i].name < u /\ segs[i].modified < u
  <2> SUFFICES ASSUME NEW i \in DOMAIN segs
               PROVE  segs[i].name \in Times /\ segs[i].name \in Nat /\ segs[i].name < u /\ segs[i].modified < u
    OBVIOUS
  <2>1. segs[i].name \in Nat /\ segs[i].modified \in Nat /\ segs[i].name <= segs[i].modified /\ segs[i].modified <= now
    BY <1>2, <1>3, Names
  <2>2. segs[i].name \in Times
    BY <1>3, FilesAre, FileIs
  <2> QED
    BY <1>2, <2>1, <2>2
<1>5. DiskOK(gs, u)
  <2>1. DiskOK(segs, u)
    BY <1>2, <1>3, DiskLater
  <2> QED
    BY <1>1, <1>2, <1>4, <2>1, HeadDisk
<1>6. Covered(gs, segs, u)
  BY <1>1, <1>2, <1>3, HeadCovered
<1>7. /\ gs \in Seq(File) /\ gs[Len(segs) + 1] = Header(u, u) /\ Len(segs) + 1 \in DOMAIN gs
      /\ \A i \in DOMAIN segs : i \in DOMAIN gs /\ gs[i] = segs[i]
      /\ \A j \in DOMAIN gs : j \in DOMAIN segs \/ j = Len(segs) + 1
  BY <1>1, <1>2, <1>3, HeadAdded
<1>8. Header(u, u).name = u /\ Header(u, u).run = u
  BY <1>2, HeaderIs
<1>9. CurOK(gs, c, u, u)
  <2>1. c \in CurSet /\ c.name = u /\ c.earlier = Disk /\ c.newest = Unknown
    <3>1. Disk \in SUBSET Times
      BY <1>4 DEF Disk
    <3> HIDE DEF Disk
    <3> QED
      BY <1>1, <1>2, <3>1, UnknownIs DEF CurSet
  <2>2. \A k \in Disk : k < u
    BY <1>4 DEF Disk
  <2>3. ASSUME NEW j \in DOMAIN gs PROVE /\ gs[j].name < u => gs[j].name \in Disk /\ gs[j].modified < u
                                         /\ ~(gs[j].name > u)
    <3>1. CASE j \in DOMAIN segs
      BY <1>2, <1>4, <1>7, <3>1 DEF Disk
    <3>2. CASE j = Len(segs) + 1
      BY <1>2, <1>7, <1>8, <3>2
    <3> QED
      BY <1>7, <3>1, <3>2
  <2>4. Notes(gs, c.newest, u)
    BY <1>7, <2>1, NoNotes
  <2>5. u \in 1 .. u
    BY <1>2
  <2> QED
    BY <2>1, <2>2, <2>3, <2>4, <2>5 DEF CurOK, CurSet
<1>10. LoadOK(gs, l, u, u) /\ l.pc = "begin" /\ Range(l.spans) = {}
  <2>1. IsUnread(l, "begin")
    BY <1>1, LoadingIs
  <2>2. LoadOK(gs, l, u, u)
    BY <1>1, <1>7, Unread
  <2> QED
    BY <2>1, <2>2, NoLines DEF IsUnread
<1>11. MemOK(<<>>, u) /\ Range(<<>>) = {} /\ Fit(<<>>)
  BY EmptyIs DEF MemOK
<1>12. GoneOK(gs, <<>>, l, 0, expired, u)
  <2>1. GoneOK(gs, <<>>, NoLoad, 0, expired, u)
    BY <1>2, <1>3, <1>6, GoneCovered, GoneLater
  <2> QED
    BY <1>10, <2>1 DEF GoneOK
<1>13. ServedOK(gs, <<>>, l, 0, sv, u)
  <2>1. sv \subseteq 1 .. u
    BY <1>1, <1>2, <1>3 DEF ServedOK
  <2>2. ASSUME NEW j \in DOMAIN gs, gs[j].name \in sv PROVE gs[j].run = gs[j].name
    <3>1. CASE j \in DOMAIN segs
      <4>1. gs[j] = segs[j] /\ segs[j].name # u
        BY <1>2, <1>4, <1>7, <3>1
      <4> QED
        BY <1>1, <1>3, <2>2, <3>1, <4>1 DEF ServedOK
    <3>2. CASE j = Len(segs) + 1
      BY <1>7, <1>8, <3>2
    <3> QED
      BY <1>7, <3>1, <3>2
  <2>3. ASSUME NEW k \in sv PROVE (\E j \in DOMAIN gs : gs[j].name = k) \/ Past(k, gs, <<>>, l, 0)
    <3>1. CASE k = u
      BY <1>7, <1>8, <3>1
    <3>2. CASE k \in served /\ \E i \in DOMAIN segs : segs[i].name = k
      BY <1>7, <3>2
    <3>3. CASE k \in served /\ Past(k, segs, <<>>, NoLoad, 0)
      <4>1. Past(k, gs, <<>>, NoLoad, 0)
        BY <1>6, <3>3, PastCovered
      <4> QED
        BY <1>10, <1>11, <4>1, PastEmpty
    <3> QED
      BY <1>1, <1>3, <3>1, <3>2, <3>3 DEF ServedOK
  <2> QED
    BY <2>1, <2>2, <2>3 DEF ServedOK
<1>14. ToldOK(gs, l, u, {u}, sv)
  <2>1. served \subseteq 1 .. now
    BY <1>3 DEF ServedOK
  <2>2. \A k \in served \cup {u} : k <= u
    BY <1>2, <2>1
  <2> QED
    BY <1>1, <1>2, <1>10, <2>2 DEF ToldOK
<1>15. Arrived(<<>>, l, u) /\ HoleOK(gs, <<>>, l, u)
  BY <1>11 DEF Arrived, HoleOK
<1>16. Sound(gs, c, <<>>, l, 0, u, {u}, sv, expired, u)
  BY <1>5, <1>9, <1>10, <1>11, <1>12, <1>13, <1>14, <1>15 DEF Sound
<1> QED
  BY <1>1, <1>16 DEF u, gs, c, l, sv

LEMMA EndRunOff ==
  ASSUME Up, now \in Times, EndRun
  PROVE  Off'
<1> DEFINE gs == segs'
<1>1. gs = segs \/ gs = Torn(segs, cur, now)
  BY DEF EndRun
<1> HIDE DEF gs
<1>2. Sound(gs, cur, mem, load, dropped, run, runs, served, expired, now)
  BY <1>1, TornSound DEF Up
<1>3. DiskOK(gs, now) /\ GoneOK(gs, mem, load, dropped, expired, now) /\ ServedOK(gs, mem, load, dropped, served, now)
  BY <1>2 DEF Sound
<1>4. now \in Nat
  BY TimesIs
<1>5. Range(<<>>) = {} /\ Range(NoLoad.spans) = {}
  BY LoadingIs, NoLines DEF NoLoad, IsUnread
<1>6. GoneOK(gs, <<>>, NoLoad, 0, expired, now)
  <2>1. ASSUME NEW i \in DOMAIN gs, NEW y \in Range(gs[i].lines) PROVE 0 < y.at
    <3>1. gs[i].name >= 1 /\ gs[i].name \in Nat /\ gs[i].name <= y.at /\ y.at \in Nat
      BY <1>3, <1>4, LinesAre, Names
    <3> QED
      BY <3>1
  <2> QED
    BY <1>3, <1>4, <1>5, <2>1 DEF GoneOK
<1>7. ServedOK(gs, <<>>, NoLoad, 0, served, now)
  <2>1. \A k : Past(k, gs, mem, load, dropped) => Past(k, gs, <<>>, NoLoad, 0)
    BY <1>5, PastEmpty
  <2> QED
    BY <1>3, <2>1 DEF ServedOK
<1>8. /\ mem' = <<>> /\ dropped' = 0 /\ load' = NoLoad /\ run' = 0 /\ runs' = {} /\ now' = now
      /\ cur' = [open |-> FALSE, name |-> 0, earlier |-> {}, newest |-> Unknown]
      /\ served' = served /\ expired' = expired
  BY DEF EndRun, history
<1>9. DiskOK(segs', now') /\ GoneOK(segs', mem', load', dropped', expired', now')
      /\ ServedOK(segs', mem', load', dropped', served', now')
  BY <1>3, <1>6, <1>7, <1>8 DEF gs
<1> QED
  BY <1>8, <1>9 DEF Off

-----------------------------------------------------------------------------
(* The clock moves: a span arrives, or a second start opens the directory.  *)

\* All there is is older than what the next event brings.
LEMMA Fresh ==
  ASSUME NEW fs, NEW c, NEW s, NEW ld, NEW d, NEW r, NEW rs, NEW sv, NEW ex, NEW t \in Nat, NEW u \in Times, u = t + 1,
         Sound(fs, c, s, ld, d, r, rs, sv, ex, t)
  PROVE  /\ FreshDisk(fs, c, d, sv, ex, u)
         /\ (\A y \in Range(s) \cup ex : y.at < u) /\ (\A k \in sv : k < u)
<1>1. DiskOK(fs, t) /\ u \in Nat
  BY TimesIs DEF Sound
<1>2. ASSUME NEW i \in DOMAIN fs PROVE fs[i].modified < u /\ \A y \in Range(fs[i].lines) : y.at < u
  <2>1. fs[i].modified \in Nat /\ fs[i].modified <= t
    BY <1>1, Names
  <2>2. ASSUME NEW y \in Range(fs[i].lines) PROVE y.at < u
    <3>1. y.at \in Nat /\ y.at <= fs[i].modified
      BY <1>1, LinesAre
    <3> QED
      BY <1>1, <2>1, <3>1
  <2> QED
    BY <1>1, <2>1, <2>2
<1>3. ASSUME NEW y \in ex PROVE y.at < u
  <2>1. y.at <= t /\ y \in Span
    BY DEF Sound, GoneOK
  <2>2. y.at \in Nat
    BY <2>1, SpanIs
  <2> QED
    BY <1>1, <2>1, <2>2
<1>4. ASSUME NEW y \in Range(s) PROVE y.at < u
  <2>1. y.at \in 1 .. t
    BY DEF Sound, MemOK
  <2> QED
    BY <1>1, <2>1
<1>5. ASSUME NEW k \in sv PROVE k < u
  <2>1. sv \subseteq 1 .. t
    BY DEF Sound, ServedOK
  <2> QED
    BY <1>1, <2>1
<1>6. d < u
  <2>1. d \in 0 .. t
    BY DEF Sound, GoneOK
  <2> QED
    BY <1>1, <2>1
<1> QED
  BY <1>2, <1>3, <1>4, <1>5, <1>6 DEF FreshDisk

\* A file that has just been opened changes nothing of that.
LEMMA HeadFresh ==
  ASSUME NEW fs \in Seq(File), NEW c, NEW d, NEW sv, NEW ex, NEW u \in Times, NEW q \in Times,
         FreshDisk(fs, c, d, sv, ex, u), NEW e, e.name = u,
         \A i \in DOMAIN fs : fs[i].modified < u
  PROVE  FreshDisk(Append(fs, Header(u, q)), e, d, sv, ex, u)
<1> DEFINE gs == Append(fs, Header(u, q))
<1>1. /\ gs[Len(fs) + 1] = Header(u, q)
      /\ \A i \in DOMAIN fs : gs[i] = fs[i]
      /\ \A j \in DOMAIN gs : j \in DOMAIN fs \/ j = Len(fs) + 1
  BY HeadAdded
<1>2. Header(u, q).name = u /\ Range(Header(u, q).lines) = {}
  BY HeaderIs, NoLines
<1> HIDE DEF gs
<1>3. ASSUME NEW j \in DOMAIN gs
      PROVE  (gs[j].name # u => gs[j].modified < u) /\ \A y \in Range(gs[j].lines) : y.at < u
  <2>1. CASE j \in DOMAIN fs
    BY <1>1, <2>1 DEF FreshDisk
  <2>2. CASE j = Len(fs) + 1
    BY <1>1, <1>2, <2>2
  <2> QED
    BY <1>1, <2>1, <2>2
<1>4. FreshDisk(gs, e, d, sv, ex, u)
  BY <1>3 DEF FreshDisk
<1> QED
  BY <1>4 DEF gs

LEMMA Modified ==
  ASSUME NEW fs, NEW t \in Nat, NEW u, u = t + 1, DiskOK(fs, t)
  PROVE  \A i \in DOMAIN fs : fs[i].modified < u
<1> SUFFICES ASSUME NEW i \in DOMAIN fs PROVE fs[i].modified < u
  OBVIOUS
<1>1. fs[i].modified \in Nat /\ fs[i].modified <= t
  BY Names
<1> QED
  BY <1>1

LEMMA RollToIs ==
  ASSUME cur \in CurSet, NEW u \in Times
  PROVE  LET e == RollTo(u) IN e \in CurSet /\ e.name = u /\ e.earlier = cur.earlier /\ e.newest = cur.newest
BY DEF CurSet, RollTo

\* A roll, and a span that is held whether or not it is saved.
LEMMA RolledSound ==
  ASSUME Up, now \in Nat, NEW u \in Times, u = now + 1, NEW x \in Span, x.at = u
  PROVE  /\ Sound(Rolled(u), RollTo(u), Stored(mem, x), load, dropped, run, runs, served, expired, u)
         /\ FreshDisk(Rolled(u), RollTo(u), dropped, served, expired, u)
<1> DEFINE e == RollTo(u)
<1>1. DiskOK(segs, now) /\ segs \in Seq(File) /\ cur \in CurSet /\ run \in Times
  <2>1. DiskOK(segs, now) /\ CurOK(segs, cur, run, now) /\ ToldOK(segs, load, run, runs, served)
    BY DEF Up, Sound
  <2> QED
    BY <2>1 DEF DiskOK, CurOK, CurSet, ToldOK
<1>2. e \in CurSet /\ e.name = u /\ e.earlier = cur.earlier /\ e.newest = cur.newest
  BY <1>1, RollToIs
<1> HIDE DEF e
<1>3. Sound(Append(segs, Header(u, run)), e, mem, load, dropped, run, runs, served, expired, u)
  BY <1>1, <1>2, Opened DEF Up
<1>4. /\ FreshDisk(segs, cur, dropped, served, expired, u)
      /\ (\A y \in Range(mem) \cup expired : y.at < u) /\ (\A k \in served : k < u)
  BY Fresh DEF Up
<1>5. Sound(Append(segs, Header(u, run)), e, Stored(mem, x), load, dropped, run, runs, served, expired, u)
  BY <1>3, <1>4, StoredSound
<1>6. FreshDisk(Append(segs, Header(u, run)), e, dropped, served, expired, u)
  BY <1>1, <1>2, <1>4, HeadFresh, Modified
<1> QED
  BY <1>5, <1>6 DEF e, Rolled

LEMMA HeldSound ==
  ASSUME Up, now \in Nat, NEW u \in Times, u = now + 1, NEW x \in Span, x.at = u
  PROVE  /\ Sound(segs, cur, Stored(mem, x), load, dropped, run, runs, served, expired, u)
         /\ FreshDisk(segs, cur, dropped, served, expired, u)
<1>1. u \in Nat /\ now <= u
  BY TimesIs
<1>2. Sound(segs, cur, mem, load, dropped, run, runs, served, expired, u)
  BY <1>1, Later DEF Up
<1>3. /\ FreshDisk(segs, cur, dropped, served, expired, u)
      /\ (\A y \in Range(mem) \cup expired : y.at < u) /\ (\A k \in served : k < u)
  BY Fresh DEF Up
<1> QED
  BY <1>2, <1>3, StoredSound

\* What every call of a running Running Man leaves.
StillUp ==
  /\ Sound(segs', cur', mem', load', dropped', run', runs', served', expired', now')
  /\ bytes' = SumOf(mem')

LEMMA Passing ==
  ASSUME now \in Times, Passes
  PROVE  now \in Nat /\ now' \in Times /\ now' = now + 1 /\ now <= now'
BY TimesIs DEF Passes, Times

LEMMA Arrives ==
  ASSUME NEW u \in Times, NEW n \in Sizes
  PROVE  LET x == [at |-> u, size |-> n] IN x \in Span /\ x.at = u
BY DEF Span

LEMMA AddSavedSound ==
  ASSUME Up, now \in Times, AddSaved
  PROVE  StillUp
<1> DEFINE u == now'
<1>1. u \in Times /\ now \in Nat /\ u = now + 1
  BY Passing DEF AddSaved
<1>2. PICK n \in Sizes :
       LET x == [at |-> u, size |-> n]
           s == Stored(mem, x)
       IN  IF MustRoll(u)
           THEN LET c == RollTo(u) IN
                  Expire(Written(Rolled(u), c, x, u), Noted(c, x), s, u)
           ELSE /\ segs' = Written(segs, cur, x, u)
                /\ cur' = Noted(cur, x)
                /\ Hold(s) /\ UNCHANGED <<dropped, expired>>
  BY Zenon DEF AddSaved
<1>3. run' = run /\ runs' = runs /\ load' = load /\ served' = served
  BY DEF AddSaved
<1> DEFINE x == [at |-> u, size |-> n]
           s == Stored(mem, x)
           e == RollTo(u)
<1>4. \/ Expire(Written(Rolled(u), e, x, u), Noted(e, x), s, u)
      \/ /\ segs' = Written(segs, cur, x, u) /\ cur' = Noted(cur, x)
         /\ Hold(s) /\ dropped' = dropped /\ expired' = expired
  BY <1>2
<1> HIDE <1>2 DEF u
<1>5. x \in Span /\ x.at = u
  BY <1>1, Arrives
<1> HIDE DEF x
<1>6. CASE Expire(Written(Rolled(u), e, x, u), Noted(e, x), s, u)
  <2> DEFINE fs == Written(Rolled(u), e, x, u)
             c  == Noted(e, x)
  <2>1. Sound(Rolled(u), e, s, load, dropped, run, runs, served, expired, u)
        /\ FreshDisk(Rolled(u), e, dropped, served, expired, u)
    BY <1>1, <1>5, RolledSound
  <2> HIDE DEF s, e
  <2>2. Sound(fs, c, s, load, dropped, run, runs, served, expired, u)
    BY <1>1, <1>5, <2>1, WrittenSound
  <2>3. Expire(fs, c, s, u)
    BY <1>6
  <2> HIDE DEF fs, c
  <2>4. Sound(segs', cur', mem', load, dropped', run, runs, served, expired', u) /\ bytes' = SumOf(mem')
    BY <1>1, <2>2, <2>3, ExpireSound
  <2> QED
    BY <1>3, <2>4 DEF StillUp, u
<1>7. CASE /\ segs' = Written(segs, cur, x, u) /\ cur' = Noted(cur, x)
           /\ Hold(s) /\ dropped' = dropped /\ expired' = expired
  <2>1. Sound(segs, cur, s, load, dropped, run, runs, served, expired, u)
        /\ FreshDisk(segs, cur, dropped, served, expired, u)
    BY <1>1, <1>5, HeldSound
  <2> HIDE DEF s
  <2>2. Sound(Written(segs, cur, x, u), Noted(cur, x), s, load, dropped, run, runs, served, expired, u)
    BY <1>1, <1>5, <2>1, WrittenSound
  <2>3. mem' = s /\ bytes' = SumOf(s)
    BY <1>7 DEF Hold
  <2> QED
    BY <1>3, <1>7, <2>2, <2>3 DEF StillUp, u
<1> QED
  BY <1>4, <1>6, <1>7

LEMMA AddUnsavedSound ==
  ASSUME Up, now \in Times, AddUnsaved
  PROVE  StillUp
<1> DEFINE u == now'
<1>1. u \in Times /\ now \in Nat /\ u = now + 1
  BY Passing DEF AddUnsaved
<1>2. PICK n \in Sizes :
       LET x == [at |-> u, size |-> n]
           s == Stored(mem, x)
           c == RollTo(u)
       IN  \/ /\ MustRoll(u)
              /\ segs' \in {segs, Append(segs, Header(u, 0))}
              /\ cur' = [cur EXCEPT !.open = FALSE]
              /\ Hold(s) /\ UNCHANGED <<dropped, expired>>
           \/ /\ MustRoll(u)
              /\ \E fs \in {Rolled(u), Torn(Rolled(u), c, u)} :
                   Expire(fs, [c EXCEPT !.open = FALSE], s, u)
           \/ /\ ~MustRoll(u)
              /\ segs' \in {segs, Torn(segs, cur, u)}
              /\ cur' = [cur EXCEPT !.open = FALSE]
              /\ Hold(s) /\ UNCHANGED <<dropped, expired>>
  BY Zenon DEF AddUnsaved
<1>3. run' = run /\ runs' = runs /\ load' = load /\ served' = served
  BY DEF AddUnsaved
<1> DEFINE x == [at |-> u, size |-> n]
           s == Stored(mem, x)
           e == RollTo(u)
<1>4. \/ \E fs \in {Rolled(u), Torn(Rolled(u), e, u)} : Expire(fs, [e EXCEPT !.open = FALSE], s, u)
      \/ /\ segs' \in {segs, Torn(segs, cur, u)} /\ cur' = [cur EXCEPT !.open = FALSE]
         /\ Hold(s) /\ dropped' = dropped /\ expired' = expired
      \/ /\ segs' = Append(segs, Header(u, 0)) /\ cur' = [cur EXCEPT !.open = FALSE]
         /\ Hold(s) /\ dropped' = dropped /\ expired' = expired
  BY <1>2
<1> HIDE <1>2 DEF u
<1>5. x \in Span /\ x.at = u
  BY <1>1, Arrives
<1> HIDE DEF x
<1>6. CASE \E fs \in {Rolled(u), Torn(Rolled(u), e, u)} : Expire(fs, [e EXCEPT !.open = FALSE], s, u)
  <2>1. PICK fs \in {Rolled(u), Torn(Rolled(u), e, u)} : Expire(fs, [e EXCEPT !.open = FALSE], s, u)
    BY <1>6
  <2>2. Sound(Rolled(u), e, s, load, dropped, run, runs, served, expired, u)
    BY <1>1, <1>5, RolledSound
  <2> HIDE DEF s, e
  <2>3. Sound(fs, e, s, load, dropped, run, runs, served, expired, u)
    BY <1>1, <2>1, <2>2, TornSound
  <2> DEFINE c == [e EXCEPT !.open = FALSE]
  <2>4. Sound(fs, c, s, load, dropped, run, runs, served, expired, u)
    BY <2>3, OpenOrNot
  <2>5. Expire(fs, c, s, u)
    BY <2>1
  <2> HIDE DEF c
  <2>6. Sound(segs', cur', mem', load, dropped', run, runs, served, expired', u) /\ bytes' = SumOf(mem')
    BY <1>1, <2>4, <2>5, ExpireSound
  <2> QED
    BY <1>3, <2>6 DEF StillUp, u
<1>7. CASE /\ segs' \in {segs, Torn(segs, cur, u)} /\ cur' = [cur EXCEPT !.open = FALSE]
           /\ Hold(s) /\ dropped' = dropped /\ expired' = expired
  <2> DEFINE c == [cur EXCEPT !.open = FALSE]
             gs == segs'
  <2>1. Sound(segs, cur, s, load, dropped, run, runs, served, expired, u)
    BY <1>1, <1>5, HeldSound
  <2>2. gs = segs \/ gs = Torn(segs, cur, u)
    BY <1>7
  <2> HIDE DEF s, gs
  <2>3. Sound(gs, cur, s, load, dropped, run, runs, served, expired, u)
    BY <1>1, <2>1, <2>2, TornSound
  <2>4. Sound(gs, c, s, load, dropped, run, runs, served, expired, u)
    BY <2>3, OpenOrNot
  <2>5. mem' = s /\ bytes' = SumOf(s) /\ cur' = c
    BY <1>7 DEF Hold
  <2> QED
    BY <1>3, <1>7, <2>4, <2>5 DEF StillUp, u, gs
<1>8. CASE /\ segs' = Append(segs, Header(u, 0)) /\ cur' = [cur EXCEPT !.open = FALSE]
           /\ Hold(s) /\ dropped' = dropped /\ expired' = expired
  <2> DEFINE c == [cur EXCEPT !.open = FALSE]
  <2>1. cur \in CurSet /\ 0 \in Times
    <3>1. cur \in CurSet
      BY DEF Up, Sound, CurOK, CurSet
    <3>2. 0 \in Times
      BY LimitsAssumption DEF Times
    <3> QED
      BY <3>1, <3>2
  <2>2. Sound(Append(segs, Header(u, 0)), cur, mem, load, dropped, run, runs, served, expired, u)
    BY <1>1, <2>1, Opened DEF Up
  <2>3. (\A y \in Range(mem) \cup expired : y.at < u) /\ (\A k \in served : k < u)
    BY <1>1, Fresh DEF Up
  <2>4. Sound(Append(segs, Header(u, 0)), cur, s, load, dropped, run, runs, served, expired, u)
    BY <1>1, <1>5, <2>2, <2>3, StoredSound
  <2> HIDE DEF s
  <2>5. Sound(Append(segs, Header(u, 0)), c, s, load, dropped, run, runs, served, expired, u)
    BY <2>4, OpenOrNot
  <2>6. mem' = s /\ bytes' = SumOf(s) /\ cur' = c
    BY <1>8 DEF Hold
  <2> QED
    BY <1>3, <1>8, <2>5, <2>6 DEF StillUp, u
<1> QED
  BY <1>4, <1>6, <1>7, <1>8

LEMMA ExpireDiskSound ==
  ASSUME Up, now \in Times, ExpireDisk
  PROVE  StillUp
<1>1. Expire(segs, cur, mem, now)
  BY DEF ExpireDisk
<1>2. Sound(segs', cur', mem', load, dropped', run, runs, served, expired', now) /\ bytes' = SumOf(mem')
  BY <1>1, ExpireSound DEF Up
<1> QED
  BY <1>2 DEF ExpireDisk, StillUp

LEMMA RefusedRunSound ==
  ASSUME Up, now \in Times, bytes = SumOf(mem), RefusedRun
  PROVE  StillUp
<1> DEFINE u == now'
<1>1. u \in Times /\ now \in Nat /\ u = now + 1
  BY Passing DEF RefusedRun
<1>2. segs' = Append(segs, Header(u, u)) /\ mem' = mem /\ bytes' = bytes /\ dropped' = dropped /\ run' = run
      /\ runs' = runs /\ cur' = cur /\ load' = load /\ served' = served /\ expired' = expired
  BY DEF RefusedRun, memory, history
<1>3. cur \in CurSet
  BY DEF Up, Sound, CurOK, CurSet
<1> HIDE DEF u
<1>4. Sound(Append(segs, Header(u, u)), cur, mem, load, dropped, run, runs, served, expired, u)
  BY <1>1, <1>3, Opened DEF Up
<1> QED
  BY <1>2, <1>4 DEF StillUp, u

LEMMA TickSound ==
  ASSUME Up, now \in Times, bytes = SumOf(mem), Tick
  PROVE  StillUp
<1> DEFINE u == now'
<1>1. u \in Times /\ u \in Nat /\ now \in Nat /\ now <= u
  BY Passing, TimesIs DEF Tick
<1>2. segs' = segs /\ mem' = mem /\ bytes' = bytes /\ dropped' = dropped /\ run' = run
      /\ runs' = runs /\ cur' = cur /\ load' = load /\ served' = served /\ expired' = expired
  BY DEF Tick, memory, history
<1> HIDE DEF u
<1>3. Sound(segs, cur, mem, load, dropped, run, runs, served, expired, u)
  BY <1>1, Later DEF Up
<1> QED
  BY <1>2, <1>3 DEF StillUp, u

-----------------------------------------------------------------------------
(* The invariant, and what follows from it.                                *)

LEMMA OffEmpty == ASSUME Off PROVE mem = <<>> /\ Range(mem) = {} /\ Fit(mem) /\ SumOf(mem) = 0
BY EmptyIs DEF Off

LEMMA InitOff == ASSUME Init PROVE Inv
<1>1. /\ now = 0 /\ segs = <<>> /\ up = FALSE /\ mem = <<>> /\ bytes = 0 /\ dropped = 0 /\ run = 0 /\ runs = {}
      /\ cur = [open |-> FALSE, name |-> 0, earlier |-> {}, newest |-> Unknown]
      /\ load = NoLoad /\ served = {} /\ expired = {}
  BY DEF Init
<1>2. segs \in Seq(File) /\ DOMAIN segs = {}
  BY <1>1
<1>3. DiskOK(segs, now)
  BY <1>2 DEF DiskOK
<1>4. Range(mem) = {} /\ Range(load.spans) = {}
  BY <1>1, LoadingIs, NoLines DEF NoLoad, IsUnread
<1>5. GoneOK(segs, mem, load, dropped, expired, now)
  BY <1>1, <1>2, <1>4 DEF GoneOK
<1>6. ServedOK(segs, mem, load, dropped, served, now)
  BY <1>1, <1>2 DEF ServedOK
<1>7. Off
  BY <1>1, <1>3, <1>5, <1>6 DEF Off
<1>8. bytes = SumOf(mem) /\ now \in Times
  BY <1>1, EmptyIs, TimesIs
<1> QED
  BY <1>1, <1>7, <1>8 DEF Inv

\* A running Running Man stays so by every step but EndRun.
LEMMA StaysUp ==
  ASSUME up' = TRUE, now' \in Times, StillUp
  PROVE  Inv'
BY DEF StillUp, Inv

LEMMA StepKeeps == ASSUME Inv, Next PROVE Inv'
<1>1. now \in Times /\ bytes = SumOf(mem) /\ (up => Up) /\ (~up => Off)
  BY DEF Inv, Up
<1>2. ASSUME Passes PROVE now' \in Times
  BY <1>1, <1>2, Passing
<1>3. CASE AddSaved
  <2>1. up' = TRUE /\ now' \in Times /\ Up
    BY <1>1, <1>2, <1>3 DEF AddSaved, Inv
  <2> QED
    BY <1>1, <1>3, <2>1, AddSavedSound, StaysUp
<1>4. CASE AddUnsaved
  <2>1. up' = TRUE /\ now' \in Times /\ Up
    BY <1>1, <1>2, <1>4 DEF AddUnsaved, Inv
  <2> QED
    BY <1>1, <1>4, <2>1, AddUnsavedSound, StaysUp
<1>5. CASE ExpireDisk
  <2>1. up' = TRUE /\ now' \in Times /\ Up
    BY <1>1, <1>5 DEF ExpireDisk, Inv
  <2> QED
    BY <1>1, <1>5, <2>1, ExpireDiskSound, StaysUp
<1>6. CASE LoadBegins
  <2>1. up' = TRUE /\ now' = now /\ Up
    BY <1>1, <1>6 DEF LoadBegins, Inv
  <2>2. Sound(segs, cur, mem, load', dropped, run, runs, served, expired, now)
    BY <1>6, <2>1, LoadBeginsSound
  <2>3. StillUp
    BY <1>1, <1>6, <2>2 DEF StillUp, LoadBegins, memory, history
  <2> QED
    BY <1>1, <2>1, <2>3, StaysUp
<1>7. CASE LoadReads
  <2>1. up' = TRUE /\ now' = now /\ Up
    BY <1>1, <1>7 DEF LoadReads, Inv
  <2>2. Sound(segs, cur, mem, load', dropped, run, runs, served, expired, now)
    BY <1>1, <1>7, <2>1, LoadReadsSound, TimesIs
  <2>3. /\ segs' = segs /\ cur' = cur /\ mem' = mem /\ bytes' = bytes /\ dropped' = dropped /\ run' = run
        /\ runs' = runs /\ served' = served /\ expired' = expired
    BY <1>7 DEF LoadReads, memory, history
  <2>4. StillUp
    BY <1>1, <2>1, <2>2, <2>3 DEF StillUp
  <2> QED
    BY <1>1, <2>1, <2>4, StaysUp
<1>8. CASE LoadEnds
  <2>1. /\ up' = TRUE /\ now' = now /\ Up /\ segs' = segs /\ dropped' = dropped /\ run' = run
        /\ served' = served /\ expired' = expired
    BY <1>1, <1>8 DEF LoadEnds, Inv, history
  <2>2. Sound(segs, cur', mem', load', dropped, run, runs', served, expired, now) /\ bytes' = SumOf(mem')
    BY <1>1, <1>8, <2>1, LoadEndsSound
  <2>3. StillUp
    BY <2>1, <2>2 DEF StillUp
  <2> QED
    BY <1>1, <2>1, <2>3, StaysUp
<1>9. CASE StartRun
  <2>1. up' = TRUE /\ now' \in Times /\ Off /\ mem' = mem /\ bytes' = bytes
    BY <1>1, <1>2, <1>9 DEF StartRun
  <2>2. Sound(segs', cur', mem', load', dropped', run', runs', served', expired', now')
    BY <1>1, <1>9, <2>1, StartRunSound
  <2>3. StillUp
    BY <1>1, <2>1, <2>2 DEF StillUp
  <2> QED
    BY <2>1, <2>3, StaysUp
<1>10. CASE EndRun
  <2>1. up' = FALSE /\ now' = now /\ Up /\ mem' = <<>> /\ bytes' = 0
    BY <1>1, <1>10 DEF EndRun, Inv
  <2>2. Off'
    BY <1>1, <1>10, <2>1, EndRunOff
  <2>3. SumOf(<<>>) = 0
    BY EmptyIs
  <2> QED
    BY <1>1, <2>1, <2>2, <2>3 DEF Inv
<1>11. CASE RefusedRun
  <2>1. up' = TRUE /\ now' \in Times /\ Up
    BY <1>1, <1>2, <1>11 DEF RefusedRun, Inv
  <2> QED
    BY <1>1, <1>11, <2>1, RefusedRunSound, StaysUp
<1>12. CASE Tick /\ up
  <2>1. up' = TRUE /\ now' \in Times /\ Up
    BY <1>1, <1>2, <1>12 DEF Tick, Inv
  <2> QED
    BY <1>1, <1>12, <2>1, TickSound, StaysUp
<1>13. CASE Tick /\ ~up
  <2>1. /\ up' = up /\ now' \in Times /\ now' = now + 1 /\ now \in Nat /\ now' \in Nat /\ now <= now' /\ Off
    BY <1>1, <1>13, Passing, TimesIs DEF Tick
  <2>2. /\ segs' = segs /\ mem' = mem /\ bytes' = bytes /\ dropped' = dropped /\ run' = run
        /\ runs' = runs /\ cur' = cur /\ load' = load /\ served' = served /\ expired' = expired
    BY <1>13 DEF Tick, memory, history
  <2> DEFINE u == now'
  <2> HIDE DEF u
  <2>3. u \in Nat /\ now <= u
    BY <2>1 DEF u
  <2>4. DiskOK(segs, u) /\ GoneOK(segs, mem, load, dropped, expired, u) /\ ServedOK(segs, mem, load, dropped, served, u)
    BY <2>1, <2>3, DiskLater, GoneLater, ServedLater DEF Off
  <2>5. Off'
    BY <2>1, <2>2, <2>4 DEF Off, u
  <2> QED
    BY <1>1, <1>13, <2>1, <2>2, <2>5 DEF Inv
<1> QED
  BY <1>3, <1>4, <1>5, <1>6, <1>7, <1>8, <1>9, <1>10, <1>11, <1>12, <1>13 DEF Next

LEMMA StutterKeeps == ASSUME Inv, UNCHANGED vars PROVE Inv'
<1>1. /\ now' = now /\ segs' = segs /\ up' = up /\ mem' = mem /\ bytes' = bytes /\ dropped' = dropped /\ run' = run
      /\ runs' = runs /\ cur' = cur /\ load' = load /\ served' = served /\ expired' = expired
  BY DEF vars
<1> QED
  BY <1>1 DEF Inv, Off

LEMMA Invariant == Spec => []Inv
<1>1. Init => Inv
  BY InitOff
<1>2. Inv /\ [Next]_vars => Inv'
  BY StepKeeps, StutterKeeps
<1> QED
  BY <1>1, <1>2, PTL DEF Spec

LEMMA Typed == ASSUME Inv PROVE TypeOK
<1>1. now \in Times /\ up \in BOOLEAN /\ bytes = SumOf(mem) /\ now \in Nat
  BY TimesIs DEF Inv
<1>3. 0 .. now \subseteq Times
  <2>1. now <= MaxTime /\ MaxTime \in Nat
    BY <1>1, TimesIs DEF Times
  <2> QED
    BY <1>1, <2>1 DEF Times
<1>2. \A S : S \subseteq 1 .. now => S \subseteq Times
  BY <1>1, <1>3
<1>4. CASE up
  <2>1. /\ DiskOK(segs, now) /\ CurOK(segs, cur, run, now) /\ MemOK(mem, now) /\ LoadOK(segs, load, run, now)
        /\ GoneOK(segs, mem, load, dropped, expired, now) /\ ServedOK(segs, mem, load, dropped, served, now)
        /\ ToldOK(segs, load, run, runs, served)
    BY <1>4 DEF Inv, Sound
  <2>2. segs \in Seq(File) /\ mem \in Seq(Span) /\ cur \in CurSet /\ load \in LoadSet
    BY <2>1 DEF DiskOK, MemOK, CurOK, LoadOK, CurSet, LoadSet
  <2>3. dropped \in Times /\ expired \subseteq Span /\ served \subseteq Times
    BY <1>2, <1>3, <2>1 DEF GoneOK, ServedOK
  <2>4. run \in Times /\ runs \subseteq Times
    BY <2>1 DEF ToldOK
  <2>5. bytes \in Nat
    BY <1>1, <2>2, SumTyped
  <2> QED
    BY <1>1, <2>2, <2>3, <2>4, <2>5 DEF TypeOK, CurSet, LoadSet
<1>5. CASE ~up
  <2>1. Off
    BY <1>5 DEF Inv
  <2>2. segs \in Seq(File) /\ mem \in Seq(Span) /\ bytes \in Nat
    BY <1>1, <2>1, OffEmpty DEF Off, DiskOK
  <2>3. load \in LoadSet
    BY <2>1, LoadingIs DEF Off, NoLoad, IsUnread
  <2>4. dropped \in Times /\ run \in Times /\ runs \subseteq Times
    BY <2>1, TimesIs DEF Off
  <2>5. cur \in CurSet
    BY <2>1, TimesIs, UnknownIs DEF Off, CurSet
  <2>6. expired \subseteq Span /\ served \subseteq Times
    BY <1>2, <2>1 DEF Off, GoneOK, ServedOK
  <2> QED
    BY <1>1, <2>2, <2>3, <2>4, <2>5, <2>6 DEF TypeOK, CurSet, LoadSet
<1> QED
  BY <1>4, <1>5

\* After every call of the storage (storage.go: Add, LoadFromDisk, ExpireDisk)
\* the spans held are in the order of their arrival, their bytes are counted
\* right and they are within the limits, whatever the limits are, whatever has
\* expired and whenever the load of what earlier runs left has ended.
THEOREM MemoryIsSound == Spec => []MemorySound
<1>1. ASSUME Inv PROVE MemorySound
  <2>1. TypeOK /\ BytesAreSum
    BY <1>1, Typed DEF Inv, BytesAreSum
  <2>2. Sorted(mem) /\ Fit(mem)
    <3>1. CASE up
      BY <1>1, <3>1 DEF Inv, Sound, MemOK
    <3>2. CASE ~up
      <4>1. Off
        BY <1>1, <3>2 DEF Inv
      <4> QED
        BY <4>1, OffEmpty DEF Sorted
    <3> QED
      BY <3>1, <3>2
  <2> QED
    BY <2>1, <2>2 DEF MemorySound, ArrivalOrder, WithinLimits, Sorted, Fit, BytesAreSum
<1> QED
  BY <1>1, Invariant, PTL

\* No span is held whose segment has been deleted (expireDisk), also when it
\* was read from that segment by a load that had not ended when it was.
THEOREM NothingComesBack == Spec => []ExpiredStaysGone
<1>1. ASSUME Inv PROVE ExpiredStaysGone
  BY <1>1 DEF Inv, Sound, GoneOK, ExpiredStaysGone
<1> QED
  BY <1>1, Invariant, PTL

\* When the load has ended (LoadFromDisk), memory has every span of an earlier
\* run that is on the disk and not older than the oldest it holds, and knows
\* of every run that has started since that one, whatever files were torn and
\* whatever arrived, rolled or expired while it was reading.
THEOREM RestartIsComplete == Spec => []RestartComplete
<1>1. ASSUME Inv PROVE RestartComplete
  <2> SUFFICES ASSUME Loaded, mem # <<>>
               PROVE  /\ \A x \in OnDisk : x.at >= mem[1].at /\ x.at < run => x \in Range(mem)
                      /\ {r \in served : r > mem[1].at} \subseteq Restarts
    BY DEF RestartComplete, NoHole, RestartsAreTold
  <2>1. /\ up /\ load.pc = "done" /\ MemOK(mem, now) /\ HoleOK(segs, mem, load, run)
        /\ ServedOK(segs, mem, load, dropped, served, now) /\ ToldOK(segs, load, run, runs, served)
    BY <1>1 DEF Inv, Sound, Loaded
  <2>2. ASSUME NEW x \in OnDisk, x.at >= mem[1].at, x.at < run PROVE x \in Range(mem)
    BY <2>1, <2>2 DEF OnDisk, HoleOK
  <2>3. ASSUME NEW k \in served, k > mem[1].at PROVE k \in runs
    <3>1. CASE \E i \in DOMAIN segs : segs[i].name = k
      BY <2>1, <3>1 DEF ToldOK
    <3>2. CASE Past(k, segs, mem, load, dropped)
      <4>1. mem \in Seq(Span) /\ 1 \in DOMAIN mem
        BY <2>1 DEF MemOK
      <4>2. mem[1] \in Range(mem)
        BY <4>1, RangeIs
      <4>3. k < mem[1].at
        BY <3>2, <4>2 DEF Past
      <4>4. mem[1].at \in Nat /\ k \in Nat
        <5>1. mem[1].at \in 1 .. now /\ k \in 1 .. now
          BY <2>1, <4>2 DEF MemOK, ServedOK
        <5> QED
          BY <5>1
      <4> QED
        BY <2>3, <4>3, <4>4
    <3> QED
      BY <2>1, <3>1, <3>2 DEF ServedOK
  <2> QED
    BY <2>2, <2>3 DEF Restarts
<1> QED
  BY <1>1, Invariant, PTL
=============================================================================
