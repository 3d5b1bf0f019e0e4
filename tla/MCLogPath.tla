----------------------------- MODULE MCLogPath -----------------------------
(* Instances of LogPath for TLC: the streams of a process and the lines    *)
(* they may carry.                                                         *)
EXTENDS LogPath, TLC

CONSTANTS r1, r2, r3, out, err, t1

AnyLines == Seq(Nat)

\* Two runs that write to stderr, one of them to stdout too.
TwoRuns == (r1 :> out) @@ (r2 :> err) @@ (r3 :> err)

\* What a run prints: tracebacks and the like to stderr, the other run plain lines.
Prints ==
  LET Inp(kinds, traces) == [kind : kinds, trace : traces]
  IN (r1 :> Inp({"plain"}, {t1}))
     @@ (r2 :> Inp({"start", "exception", "blank"}, {NoTrace}) \cup Inp({"indented"}, {t1}))
     @@ (r3 :> Inp({"plain"}, {NoTrace}))
=============================================================================
