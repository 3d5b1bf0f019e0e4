SPECIFICATION Spec
CONSTANTS
  Runs = {r1, r2}
  Earlier = Earlier
  NoRun = NoRun
SYMMETRY Symmetry
CHECK_DEADLOCK FALSE
INVARIANTS StartSound MarkerUnlessCrossed LeavesNothing
