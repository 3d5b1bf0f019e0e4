SPECIFICATION Spec
CONSTANTS
  r1 = r1
  r2 = r2
  r3 = r3
  out = out
  err = err
  t1 = t1
  Appenders = {r1, r2, r3}
  Readers = {r1, r2, r3}
  KeyOf <- TwoRuns
  Inputs <- Prints
  Lines <- AnyLines
  Traces = {t1}
  NoTrace = NoTrace
  MaxSize = 2
  MaxBytes = 3
  MaxAge = 0
  MaxLines = 4
  MaxTime = 1
CHECK_DEADLOCK FALSE
INVARIANTS RingInv LinesArrive StreamInOrder TracebacksWhole
