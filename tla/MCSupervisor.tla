---------------------------- MODULE MCSupervisor ----------------------------
(* Instances of Supervisor for TLC: which processes are configured, in     *)
(* which order, and what each depends on.                                  *)
EXTENDS Supervisor, TLC

CONSTANTS db, app, web, job, svc, mail

\* app waits for a Compose service and then for db, web for nothing.
TrioOrder == <<app, db, web>>
TrioDeps == (db :> <<>>) @@ (app :> <<svc, db>>) @@ (web :> <<>>)

\* app and web wait for a Compose service each and then for db.
TripleDeps == (db :> <<>>) @@ (app :> <<svc, db>>) @@ (web :> <<mail, db>>)

\* app and web wait for a Compose service each.
TwoOrder == <<app, web>>
TwoDeps == (app :> <<svc>>) @@ (web :> <<mail>>)

PairOrder == <<app, db>>
PairDeps == (db :> <<>>) @@ (app :> <<db>>)

\* A recurring process that waits for db.
JobOrder == <<job, db>>
JobDeps == (db :> <<>>) @@ (job :> <<db>>)

WebOrder == <<web>>
WebDeps == web :> <<>>

Symmetry == Permutations(Runs)
=============================================================================
