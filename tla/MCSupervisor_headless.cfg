SPECIFICATION Spec
CONSTANTS
  db = db
  app = app
  web = web
  job = job
  svc = svc
  mail = mail
  Procs = {db, app, web}
  Services = {svc, mail}
  Order <- TrioOrder
  DependsOn <- TripleDeps
  Recurring = {}
  RestartOnCrash = {db, app}
  HasCheck = {db}
  Callers = {}
  Restartable = {}
  EarlyCalls = FALSE
  Headless = TRUE
  Runs = {r1, r2, r3, r4}
  NoRun = NoRun
  Placeholder = Placeholder
  NoProc = NoProc
SYMMETRY Symmetry
INVARIANTS SingleRun SweptRunsStop RunsOnlyWhenReady ExitLeavesNoRun 
