SPECIFICATION Spec
CONSTANTS
  Child = child
  Heirs = {kid}
  Strangers = {other}
  Pids = {p1, p2}
  NoPid = NoPid
  MaxTime = 1
  OutsideGroup = {kid}
  PipeHolders = {kid}
  Stubborn = {child, kid}
  Streams = {out}
  MaxLines = 1
  Waiters = {w1, w2}
  Stoppers = {s1}
  Reaper = Reaper
  NoStop = NoStop
SYMMETRY Symmetry
INVARIANTS OutputKept ExitedIsOver SweepSparesStrangers NobodyStuck
CHECK_DEADLOCK FALSE
