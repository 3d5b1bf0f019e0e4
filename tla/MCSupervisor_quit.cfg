SPECIFICATION FairSpec
CONSTANTS
  db = db
  app = app
  web = web
  job = job
  svc = svc
  mail = mail
  Procs = {db, job}
  Services = {}
  Order <- JobOrder
  DependsOn <- JobDeps
  Recurring = {job}
  RestartOnCrash = {}
  HasCheck = {db}
  Callers = {c1}
  Restartable = {job}
  EarlyCalls = FALSE
  Headless = FALSE
  Runs = {r1, r2, r3}
  NoRun = NoRun
  Placeholder = Placeholder
  NoProc = NoProc
INVARIANT TypeOK
PROPERTIES  GatesSettle
