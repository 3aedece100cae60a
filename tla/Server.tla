------------------------------- MODULE Server -------------------------------
(***************************************************************************)
(* The process: fx builds the database manager before the HTTP server,      *)
(* OnStart listens and leaves Serve to a goroutine, OnStop shuts the HTTP   *)
(* server down, waits for the requests in flight up to a timeout, and then  *)
(* closes the database.  Requests of the API hold a connection while their  *)
(* statements run; requests of the health endpoint call HealthCheck.        *)
(***************************************************************************)
EXTENDS DbManager

CONSTANT Clients    \* requests of the API

ASSUME Separate == Clients \cap Checkers = {}

HealthRequests == Checkers \ {Routine}
Requests       == Clients \cup HealthRequests

VARIABLES
  app,      \* where the fx application is
  serve,    \* is the goroutine in srv.Serve?
  reqs,     \* per request: new, run, conn (holds a connection), done, cut
  expired   \* did the shutdown time out?

srvVars == <<app, serve, reqs, expired>>
vars == <<dbVars, srvVars>>
db   == <<up, bootVars, pool, conns, status, checkVars>>   \* all but the history
Alive == app \notin {"exited", "crashed"}

InFlight == {r \in Requests : reqs[r] \in {"run", "conn"}}

Init ==
  /\ DbInit
  /\ app = "building"
  /\ serve = FALSE
  /\ reqs = [r \in Requests |-> "new"]
  /\ expired = FALSE

(* The process ends with status s: requests in flight are cut off. *)
End(s) ==
  /\ app' = s
  /\ reqs' = [r \in Requests |-> IF r \in InFlight THEN "cut" ELSE reqs[r]]

(* ProvideGormPostgres: the manager is ready, or the process exits. *)
ProvideDatabase ==
  /\ app = "building"
  /\ \/ /\ boot = "ready"
        /\ app' = "starting"
        /\ UNCHANGED reqs
     \/ boot = "failed" /\ End("exited")
  /\ UNCHANGED <<db, serve, expired>>

OnStart ==
  /\ app = "starting"
  /\ \/ /\ app' = "running"
        /\ serve' = TRUE
        /\ UNCHANGED reqs
     \/ End("exited") /\ UNCHANGED serve
  /\ UNCHANGED <<db, expired>>

-----------------------------------------------------------------------------
(* Requests. *)

Accept(r) ==
  /\ app = "running" /\ serve /\ reqs[r] = "new"
  /\ reqs' = [reqs EXCEPT ![r] = "run"]
  /\ UNCHANGED <<db, app, serve, expired>>

Acquire(r) ==
  /\ r \in Clients /\ reqs[r] = "run"
  /\ pool = "open" /\ Cardinality(conns) < MaxOpen
  /\ conns' = conns \cup {r}
  /\ reqs' = [reqs EXCEPT ![r] = "conn"]
  /\ UNCHANGED <<up, bootVars, pool, status, checkVars, app, serve, expired>>

(* The handler answers: a client's after its statements, or without any; a   *)
(* health request once HealthCheck has returned.                             *)
Respond(r) ==
  /\ r \in InFlight
  /\ r \in Checkers => ~Calling(r) /\ ans[r] # "none"
  /\ conns' = conns \ {r}
  /\ reqs' = [reqs EXCEPT ![r] = "done"]
  /\ UNCHANGED <<up, bootVars, pool, status, checkVars, app, serve, expired>>

HealthHandler(r) == reqs[r] = "run" /\ ans[r] = "none" /\ BeginCheck(r)

-----------------------------------------------------------------------------
(* OnStop. *)

(* A signal; Shutdown closes the listener first. *)
BeginShutdown ==
  /\ app = "running"
  /\ app' = "stopping"
  /\ UNCHANGED <<db, serve, reqs, expired>>

(* Mutant: Close in place of Shutdown, which waits for nobody. *)
ShutdownAtOnce ==
  /\ app = "stopping"
  /\ app' = "closing"
  /\ UNCHANGED <<db, serve, reqs, expired>>

(* Shutdown returns nil once no request is in flight. *)
ShutdownDone ==
  /\ app = "stopping" /\ InFlight = {}
  /\ app' = "closing"
  /\ UNCHANGED <<db, serve, reqs, expired>>

(* Mutant: Shutdown(context.Background()). *)
NoTimeout == FALSE /\ UNCHANGED <<db, srvVars>>

(* Shutdown returns the context's error: OnStop returns without closing the  *)
(* database and the process exits.                                           *)
ShutdownTimesOut ==
  /\ app = "stopping" /\ InFlight # {}
  /\ expired' = TRUE
  /\ End("exited")
  /\ UNCHANGED <<db, serve>>

CloseDatabase ==
  /\ app = "closing"
  /\ Close
  /\ app' = "closed"
  /\ UNCHANGED <<serve, reqs, expired>>

Exit ==
  /\ app = "closed"
  /\ End("exited")
  /\ UNCHANGED <<db, serve, expired>>

(* Once Shutdown has been called Serve returns http.ErrServerClosed, which   *)
(* the goroutine takes for a failure: log.Panic ends the process.            *)
ServeReturns ==
  /\ serve /\ app \in {"stopping", "closing", "closed"}
  /\ serve' = FALSE
  /\ End("crashed")
  /\ UNCHANGED <<db, expired>>

-----------------------------------------------------------------------------
(* A step of the manager's goroutines, or of its surroundings; a step of the *)
(* application.  Both end with the process.                                  *)
Db(A)  == Alive /\ A /\ UNCHANGED srvVars /\ Record
Srv(A) == Alive /\ A /\ Record

Stopping == ShutdownDone \/ ShutdownTimesOut \/ CloseDatabase \/ Exit

Ended == ~Alive /\ UNCHANGED vars

Next ==
  \/ Db(Booting) \/ Db(Tick) \/ Db(BeginCheck(Routine)) \/ Db(Outage)
  \/ \E c \in Checkers : Db(Checking(c))
  \/ \E r \in HealthRequests : Db(HealthHandler(r))
  \/ Srv(ProvideDatabase) \/ Srv(OnStart)
  \/ \E r \in Requests : Srv(Accept(r)) \/ Srv(Acquire(r)) \/ Srv(Respond(r))
  \/ Srv(BeginShutdown) \/ Srv(Stopping) \/ Srv(ServeReturns)
  \/ Ended

Spec == Init /\ [][Next]_vars

(* Goroutines that can run do, the ticker ticks, pings and the shutdown time *)
(* out.  Nothing makes a statement, a client or an outage end.               *)
FairSpec ==
  /\ Spec
  /\ WF_vars(Db(Booting)) /\ WF_vars(Db(Tick)) /\ WF_vars(Db(BeginCheck(Routine)))
  /\ \A c \in Checkers : WF_vars(Db(Checking(c)))
  /\ WF_vars(Srv(ProvideDatabase)) /\ WF_vars(Srv(Stopping))

-----------------------------------------------------------------------------
(* Properties. *)

(* Types of the manager's and the application's variables. *)
TypeOK ==
  /\ DbTypeOK
  /\ conns \subseteq Clients
  /\ app \in {"building", "starting", "running", "stopping", "closing", "closed",
              "exited", "crashed"}
  /\ serve \in BOOLEAN
  /\ reqs \in [Requests -> {"new", "run", "conn", "done", "cut"}]
  /\ expired \in BOOLEAN

(* A request in flight finds the pool open: the server does not listen       *)
(* before the database is connected, and the database is not closed while a  *)
(* request that was accepted, before the shutdown or during it, still runs.  *)
RequestsSeeOpenPool == InFlight # {} => pool = "open"

(* A HealthCheck that no other one overlapped tells the truth: "healthy"     *)
(* only if the database could answer, "unhealthy" only if it could not, at   *)
(* some time between the call and its return.                                *)
LoneCheckTruthful ==
  \A c \in Checkers : "other" \notin seen[c] =>
    /\ ans[c] = "healthy" => "up" \in seen[c]
    /\ ans[c] = "unhealthy" => "down" \in seen[c]

(* README.md:768, "Automatic health checks every 30 seconds": while the      *)
(* server runs, the status follows the database for good, also after checks  *)
(* that overlapped have overwritten each other's results.                    *)
HealthSettles ==
  /\ <>[](app = "running" /\ Serviceable) => <>[]status.healthy
  /\ <>[](app = "running" /\ ~Serviceable) => <>[]~status.healthy

(* The start ends: the attempts to connect are bounded, and the process      *)
(* either goes on with a database or exits.                                  *)
StartDecided == app = "building" ~> app # "building"

(* A shutdown ends the process, whatever requests still run.                 *)
StopEnds == app = "stopping" ~> ~Alive

(* internal/db/manager.go:184, "HealthCheck performs a health check on the   *)
(* database connection": it returns healthy only if the database could       *)
(* answer at some time during the call.                                      *)
HealthyWasUp == \A c \in Checkers : ans[c] = "healthy" => "up" \in seen[c]

(* cmd/server/main.go:71, "Graceful shutdown with timeout": a request in     *)
(* flight is cut off only if the shutdown's timeout expired.                 *)
CutOnlyOnTimeout == (\E r \in Requests : reqs[r] = "cut") => expired
============================================================================
