SPECIFICATION Spec
CONSTANTS
  db = db
  app = app
  web = web
  job = job
  svc = svc
  mail = mail
  Procs = {db, app, web}
  Services = {svc}
  Order <- TrioOrder
  DependsOn <- TrioDeps
  Recurring = {}
  RestartOnCrash = {}
  HasCheck = {db}
  Callers = {c1}
  Restartable = {app, web}
  EarlyCalls = FALSE
  Headless = FALSE
  Runs = {r1, r2, r3, r4}
  NoRun = NoRun
  Placeholder = Placeholder
  NoProc = NoProc
SYMMETRY Symmetry
INVARIANTS RestartKeepsSingle RestartKeepsStopped RegisteredRunsSwept
PROPERTY ImplementsContract
