SPECIFICATION Spec
CONSTANTS
  db = db
  app = app
  web = web
  job = job
  svc = svc
  mail = mail
  Procs = {db, app}
  Services = {}
  Order <- PairOrder
  DependsOn <- PairDeps
  Recurring = {}
  RestartOnCrash = {}
  HasCheck = {db}
  Callers = {c1}
  Restartable = {app}
  EarlyCalls = FALSE
  Headless = FALSE
  Runs = {r1, r2, r3}
  NoRun = NoRun
  Placeholder = Placeholder
  NoProc = NoProc
SYMMETRY Symmetry
INVARIANT SingleRun
