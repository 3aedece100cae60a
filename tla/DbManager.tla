----------------------------- MODULE DbManager -----------------------------
(***************************************************************************)
(* The DatabaseManager: it connects with a bounded number of attempts, then *)
(* a background routine and the health handlers call HealthCheck, each of   *)
(* them pinging the database without the lock, writing the shared status    *)
(* under it, and reading the status back in a second critical section.      *)
(*                                                                         *)
(* Abstractions.  Durations are left out: the ticker's period, the pause    *)
(* between attempts and the ping's timeout are steps that may happen; the   *)
(* connection metrics and FastHealthCheck, which nothing calls, are left    *)
(* out.  Server composes this module with the process it lives in.          *)
(***************************************************************************)
EXTENDS Naturals, FiniteSets

CONSTANTS
  Checkers,     \* goroutines that call HealthCheck
  Routine,      \* the one startHealthCheck runs in
  MaxOpen,      \* DATABASE_MAX_OPEN_CONNS
  MaxAttempts   \* DATABASE_RETRY_ATTEMPTS

ASSUME RoutineChecks == Routine \in Checkers
ASSUME PoolSize      == MaxOpen \in Nat \ {0}
ASSUME AttemptsOK    == MaxAttempts \in Nat

VARIABLES
  up,         \* the environment: PostgreSQL is reachable and answers
  boot,       \* NewDatabaseManager's progress
  attempt,    \* connectWithRetry's loop variable
  pool,       \* dm.db: none yet, open, or closed
  conns,      \* who holds a connection of the pool
  status,     \* dm.healthStatus: IsHealthy and RetryCount
  due,        \* the health ticker's channel holds a tick
  chk, got,   \* per checker: step of HealthCheck, result of its ping
  ans,        \* per checker: what its last HealthCheck returned
  seen        \* history, per checker: what was so at some time of that call

bootVars  == <<boot, attempt>>
checkVars == <<due, chk, got, ans>>
dbVars    == <<up, boot, attempt, pool, conns, status, due, chk, got, ans, seen>>

DbInit ==
  /\ up \in BOOLEAN
  /\ boot = "connecting"
  /\ attempt = 1
  /\ pool = "none"
  /\ conns = {}
  /\ status = [healthy |-> FALSE, retries |-> 0]
  /\ due = FALSE
  /\ chk = [c \in Checkers |-> "idle"]
  /\ got = [c \in Checkers |-> FALSE]
  /\ ans = [c \in Checkers |-> "none"]
  /\ seen = [c \in Checkers |-> {}]

(* A statement or a ping issued now would be answered. *)
Serviceable == up /\ pool = "open" /\ Cardinality(conns) < MaxOpen

Calling(c) == chk[c] # "idle"

(* The history variable: every step records what each call in progress sees. *)
Record ==
  seen' = [c \in Checkers |->
             IF ~Calling(c)' THEN seen[c]
             ELSE (IF Calling(c) THEN seen[c] ELSE {})
                  \cup {IF Serviceable' THEN "up" ELSE "down"}
                  \cup {"other" : d \in {d \in Checkers \ {c} : Calling(d)'}}]

-----------------------------------------------------------------------------
(* connectWithRetry: gorm.Open, the pool's limits, and a ping. *)

Connect ==
  /\ boot = "connecting" /\ attempt <= MaxAttempts
  /\ up
  /\ pool' = "open"
  /\ status' = [healthy |-> TRUE, retries |-> 0]
  /\ boot' = "ready"
  /\ UNCHANGED <<up, attempt, conns, checkVars>>

ConnectFails ==
  /\ boot = "connecting" /\ attempt <= MaxAttempts
  /\ ~up
  /\ status' = [healthy |-> status.healthy, retries |-> attempt]
  /\ boot' = IF attempt < MaxAttempts THEN "sleeping" ELSE "failed"
  /\ UNCHANGED <<up, attempt, pool, conns, checkVars>>

(* Mutant: the loop variable is not advanced. *)
RetryForever ==
  /\ boot = "sleeping"
  /\ boot' = "connecting"
  /\ UNCHANGED <<up, attempt, pool, conns, status, checkVars>>

(* Mutant: the loop is bounded after the pause only, one attempt too late. *)
RetryPastTheEnd ==
  /\ boot \in {"sleeping", "failed"} /\ attempt <= MaxAttempts + 1
  /\ boot' = "connecting"
  /\ attempt' = attempt + 1
  /\ UNCHANGED <<up, pool, conns, status, checkVars>>

Retry ==
  /\ boot = "sleeping"
  /\ boot' = "connecting"
  /\ attempt' = attempt + 1
  /\ UNCHANGED <<up, pool, conns, status, checkVars>>

(* No attempt is allowed: the loop is not entered. *)
NoAttempt ==
  /\ boot = "connecting" /\ attempt > MaxAttempts
  /\ boot' = "failed"
  /\ UNCHANGED <<up, attempt, pool, conns, status, checkVars>>

-----------------------------------------------------------------------------
(* HealthCheck, by the routine at its ticks and by the health handlers. *)

(* Mutant: time.NewTimer instead of time.NewTicker. *)
TickOnce ==
  /\ boot = "ready" /\ ~due /\ ~Calling(Routine) /\ ans[Routine] = "none"
  /\ due' = TRUE
  /\ UNCHANGED <<up, bootVars, pool, conns, status, chk, got, ans>>

Tick ==
  /\ boot = "ready" /\ ~due
  /\ due' = TRUE
  /\ UNCHANGED <<up, bootVars, pool, conns, status, chk, got, ans>>

BeginCheck(c) ==
  /\ boot = "ready" /\ ~Calling(c)
  /\ IF c = Routine THEN due /\ due' = FALSE ELSE UNCHANGED due
  /\ chk' = [chk EXCEPT ![c] = "ping"]
  /\ ans' = [ans EXCEPT ![c] = "none"]
  /\ UNCHANGED <<up, bootVars, pool, conns, status, got>>

(* PingContext fails at its timeout when no connection of the pool is free. *)
Ping(c) ==
  /\ chk[c] = "ping"
  /\ got' = [got EXCEPT ![c] = Serviceable]
  /\ chk' = [chk EXCEPT ![c] = "update"]
  /\ UNCHANGED <<up, bootVars, pool, conns, status, due, ans>>

(* Mutant: a failed ping returns without updateHealthStatus. *)
UpdateIfHealthy(c) ==
  /\ chk[c] = "update"
  /\ status' = [healthy |-> status.healthy \/ got[c], retries |-> status.retries]
  /\ chk' = [chk EXCEPT ![c] = "answer"]
  /\ UNCHANGED <<up, bootVars, pool, conns, due, got, ans>>

UpdateStatus(c) ==
  /\ chk[c] = "update"
  /\ status' = [healthy |-> got[c], retries |-> status.retries]
  /\ chk' = [chk EXCEPT ![c] = "answer"]
  /\ UNCHANGED <<up, bootVars, pool, conns, due, got, ans>>

ReturnStatus(c) ==
  /\ chk[c] = "answer"
  /\ ans' = [ans EXCEPT ![c] = IF status.healthy THEN "healthy" ELSE "unhealthy"]
  /\ chk' = [chk EXCEPT ![c] = "idle"]
  /\ UNCHANGED <<up, bootVars, pool, conns, status, due, got>>

-----------------------------------------------------------------------------
(* sql.DB.Close: connections in use are closed when they are given back. *)
Close ==
  /\ pool' = "closed"
  /\ UNCHANGED <<up, bootVars, conns, status, checkVars>>

(* PostgreSQL, or the network to it, goes down or comes back. *)
Outage ==
  /\ up' = ~up
  /\ UNCHANGED <<bootVars, pool, conns, status, checkVars>>

Booting    == Connect \/ ConnectFails \/ Retry \/ NoAttempt
Checking(c) == Ping(c) \/ UpdateStatus(c) \/ ReturnStatus(c)

DbTypeOK ==
  /\ up \in BOOLEAN
  /\ boot \in {"connecting", "sleeping", "ready", "failed"}
  /\ attempt \in 1 .. MaxAttempts + 1
  /\ pool \in {"none", "open", "closed"}
  /\ Cardinality(conns) <= MaxOpen
  /\ status \in [healthy : BOOLEAN, retries : 0 .. MaxAttempts]
  /\ due \in BOOLEAN
  /\ chk \in [Checkers -> {"idle", "ping", "update", "answer"}]
  /\ got \in [Checkers -> BOOLEAN]
  /\ ans \in [Checkers -> {"none", "healthy", "unhealthy"}]
  /\ seen \in [Checkers -> SUBSET {"up", "down", "other"}]
============================================================================
