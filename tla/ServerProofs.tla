---------------------------- MODULE ServerProofs ----------------------------
(***************************************************************************)
(* Theorems about Server, for every set of requests and checkers, size of   *)
(* the pool and number of attempts.                                         *)
(***************************************************************************)
EXTENDS Server, FiniteSetTheorems, TLAPS

(* Where the application is tells what the database manager has done, and    *)
(* requests are only in flight while it runs or stops.                       *)
Phases ==
  /\ app \in {"starting", "running", "stopping", "closing"} => pool = "open"
  /\ pool # "none" <=> boot = "ready"
  /\ pool = "closed" => app \notin {"building", "starting"}
  /\ InFlight # {} => app \in {"running", "stopping"}
  /\ IsFiniteSet(conns)
  /\ boot = "sleeping" => attempt < MaxAttempts

(* A check in progress has seen what its ping found, and the status is its   *)
(* own unless another one was in progress too.                               *)
CallsSeen ==
  \A c \in Checkers :
    /\ Calling(c) => boot = "ready"
    /\ Calling(c) => \A d \in Checkers \ {c} : Calling(d) => "other" \in seen[c]
    /\ chk[c] \in {"update", "answer"} =>
         (IF got[c] THEN "up" ELSE "down") \in seen[c]
    /\ chk[c] = "answer" /\ "other" \notin seen[c] => status.healthy = got[c]
    /\ Calling(c) => ans[c] = "none"

SInv == TypeOK /\ Phases /\ CallsSeen /\ LoneCheckTruthful

LEMMA InitInv == Init => SInv
  <1> SUFFICES ASSUME Init PROVE SInv
    OBVIOUS
  <1>1. IsFiniteSet({}) /\ Cardinality({}) = 0
    BY FS_EmptySet
  <1>2. TypeOK
    <2>1. /\ attempt \in 1 .. MaxAttempts + 1
          /\ Cardinality(conns) <= MaxOpen
          /\ 0 \in 0 .. MaxAttempts
      BY <1>1, PoolSize, AttemptsOK DEF Init, DbInit
    <2>2. status \in [healthy : BOOLEAN, retries : 0 .. MaxAttempts]
      BY <2>1 DEF Init, DbInit
    <2> QED BY <2>1, <2>2 DEF Init, DbInit, TypeOK, DbTypeOK
  <1>3. Phases
    BY <1>1 DEF Init, DbInit, Phases, InFlight
  <1>4. CallsSeen /\ LoneCheckTruthful
    BY DEF Init, DbInit, CallsSeen, Calling, LoneCheckTruthful
  <1> QED BY <1>2, <1>3, <1>4 DEF SInv

(* The history variable keeps its type and only grows during a call. *)
LEMMA RecordFacts ==
  ASSUME TypeOK, Record, chk' \in [Checkers -> {"idle", "ping", "update", "answer"}]
  PROVE  /\ seen' \in [Checkers -> SUBSET {"up", "down", "other"}]
         /\ \A c \in Checkers :
              /\ ~Calling(c)' => seen'[c] = seen[c]
              /\ Calling(c)' /\ Calling(c) => seen[c] \subseteq seen'[c]
              /\ Calling(c)' => (IF Serviceable' THEN "up" ELSE "down") \in seen'[c]
              /\ Calling(c)' => \A d \in Checkers \ {c} :
                                  Calling(d)' => "other" \in seen'[c]
  <1>1. seen' \in [Checkers -> SUBSET {"up", "down", "other"}]
    BY DEF TypeOK, DbTypeOK, Record
  <1>2. ASSUME NEW c \in Checkers
        PROVE  /\ ~Calling(c)' => seen'[c] = seen[c]
               /\ Calling(c)' /\ Calling(c) => seen[c] \subseteq seen'[c]
               /\ Calling(c)' => (IF Serviceable' THEN "up" ELSE "down") \in seen'[c]
               /\ Calling(c)' => \A d \in Checkers \ {c} :
                                   Calling(d)' => "other" \in seen'[c]
    BY <1>2 DEF Record
  <1> QED BY <1>1, <1>2

-----------------------------------------------------------------------------

(* A step that leaves the checks, the status and boot alone keeps what calls *)
(* have seen.                                                                *)
LEMMA QuietStep ==
  ASSUME SInv, Record, UNCHANGED <<chk, got, ans, status>>,
         boot = "ready" => boot' = "ready"
  PROVE  /\ CallsSeen' /\ LoneCheckTruthful'
         /\ seen' \in [Checkers -> SUBSET {"up", "down", "other"}]
  <1>1. chk' \in [Checkers -> {"idle", "ping", "update", "answer"}]
    BY DEF SInv, TypeOK, DbTypeOK
  <1> USE RecordFacts, <1>1 DEF SInv
  <1>2. seen' \in [Checkers -> SUBSET {"up", "down", "other"}]
    OBVIOUS
  <1>3. \A c \in Checkers : /\ Calling(c)' = Calling(c)
                            /\ seen[c] \subseteq seen'[c]
                            /\ ~Calling(c) => seen'[c] = seen[c]
    BY DEF Calling
  <1>4. CallsSeen'
    <2> SUFFICES ASSUME NEW c \in Checkers
                 PROVE  /\ Calling(c) => boot' = "ready"
                        /\ Calling(c) => \A d \in Checkers \ {c} :
                                           Calling(d)' => "other" \in seen'[c]
                        /\ chk[c] \in {"update", "answer"} =>
                             (IF got[c] THEN "up" ELSE "down") \in seen'[c]
                        /\ chk[c] = "answer" /\ "other" \notin seen'[c] =>
                             status.healthy = got[c]
                        /\ Calling(c) => ans[c] = "none"
      BY <1>3 DEF CallsSeen
    <2> QED BY <1>3 DEF CallsSeen
  <1>5. LoneCheckTruthful'
    BY <1>3 DEF CallsSeen, LoneCheckTruthful
  <1> QED BY <1>2, <1>4, <1>5

(* The types of a step that ends the process. *)
LEMMA EndTypes ==
  ASSUME TypeOK, NEW s \in {"exited", "crashed"}, End(s)
  PROVE  /\ app' = s
         /\ reqs' \in [Requests -> {"new", "run", "conn", "done", "cut"}]
         /\ InFlight' = {}
  BY DEF TypeOK, End, InFlight

-----------------------------------------------------------------------------
(* The manager's steps. *)

LEMMA BootStep ==
  ASSUME SInv, Db(Booting)
  PROVE  SInv'
  <1> USE DEF SInv
  <1>1. Record /\ UNCHANGED <<app, serve, reqs, expired, up, conns, due, chk, got, ans>>
    BY DEF Db, srvVars, Booting, Connect, ConnectFails, Retry, NoAttempt, checkVars
  <1>2. boot # "ready"
    BY DEF Db, Booting, Connect, ConnectFails, Retry, NoAttempt
  <1>3. \A c \in Checkers : ~Calling(c)
    BY <1>2 DEF CallsSeen
  <1>4. seen' \in [Checkers -> SUBSET {"up", "down", "other"}]
        /\ \A c \in Checkers : seen'[c] = seen[c] /\ ~Calling(c)'
    BY <1>1, <1>3, RecordFacts DEF Calling, TypeOK, DbTypeOK
  <1>5. TypeOK'
    <2>1. /\ attempt' \in 1 .. MaxAttempts + 1
          /\ status' \in [healthy : BOOLEAN, retries : 0 .. MaxAttempts]
          /\ boot' \in {"connecting", "sleeping", "ready", "failed"}
          /\ pool' \in {"none", "open", "closed"}
      <3>1. CASE Connect
        BY <3>1, AttemptsOK DEF Connect, TypeOK, DbTypeOK
      <3>2. CASE ConnectFails
        BY <3>2, AttemptsOK DEF ConnectFails, TypeOK, DbTypeOK
      <3>3. CASE Retry
        BY <3>3, AttemptsOK DEF Retry, TypeOK, DbTypeOK, Phases
      <3>4. CASE NoAttempt
        BY <3>4, AttemptsOK DEF NoAttempt, TypeOK, DbTypeOK
      <3> QED BY <3>1, <3>2, <3>3, <3>4 DEF Db, Booting
    <2> QED BY <2>1, <1>1, <1>4 DEF TypeOK, DbTypeOK
  <1>6. Phases'
    <2>1. pool = "none"
      BY <1>2 DEF Phases
    <2>2. IF boot' = "ready" THEN pool' = "open" ELSE pool' = "none"
      <3>1. CASE Connect
        BY <3>1 DEF Connect
      <3>2. CASE ConnectFails
        BY <3>2, <2>1 DEF ConnectFails
      <3>3. CASE Retry \/ NoAttempt
        BY <3>3, <2>1 DEF Retry, NoAttempt
      <3> QED BY <3>1, <3>2, <3>3 DEF Db, Booting
    <2>3. boot' = "sleeping" => attempt' < MaxAttempts
      BY DEF Db, Booting, Connect, ConnectFails, Retry, NoAttempt
    <2> QED BY <2>1, <2>2, <2>3, <1>1 DEF Phases, InFlight
  <1>7. CallsSeen' /\ LoneCheckTruthful'
    BY <1>1, <1>4 DEF CallsSeen, LoneCheckTruthful, Calling, TypeOK, DbTypeOK
  <1> QED BY <1>5, <1>6, <1>7

(* The ticker and the environment touch neither the checks nor the pool. *)
LEMMA SurroundingsStep ==
  ASSUME SInv, Db(Tick) \/ Db(Outage)
  PROVE  SInv'
  <1> USE DEF SInv
  <1>1. /\ Record
        /\ UNCHANGED <<app, serve, reqs, expired, boot, attempt, pool, conns, status, chk, got, ans>>
        /\ up' \in BOOLEAN /\ due' \in BOOLEAN
    BY DEF Db, srvVars, Tick, Outage, bootVars, checkVars, TypeOK, DbTypeOK
  <1>2. CallsSeen' /\ LoneCheckTruthful' /\ seen' \in [Checkers -> SUBSET {"up", "down", "other"}]
    BY <1>1, QuietStep
  <1>3. TypeOK'
    BY <1>1, <1>2 DEF TypeOK, DbTypeOK
  <1>4. Phases'
    BY <1>1 DEF Phases, InFlight
  <1> QED BY <1>2, <1>3, <1>4

(* A step of one goroutine's check keeps everything outside the manager, and *)
(* the database's pool; what it has to show is about the calls.              *)
LEMMA CheckFrame ==
  ASSUME SInv, Record,
         UNCHANGED <<app, serve, reqs, expired, up, boot, attempt, pool, conns>>,
         status' \in [healthy : BOOLEAN, retries : 0 .. MaxAttempts],
         due' \in BOOLEAN,
         chk' \in [Checkers -> {"idle", "ping", "update", "answer"}],
         got' \in [Checkers -> BOOLEAN],
         ans' \in [Checkers -> {"none", "healthy", "unhealthy"}]
  PROVE  TypeOK' /\ Phases'
  <1>1. seen' \in [Checkers -> SUBSET {"up", "down", "other"}]
    BY RecordFacts DEF SInv
  <1>2. TypeOK'
    BY <1>1 DEF SInv, TypeOK, DbTypeOK
  <1>3. Phases'
    BY DEF SInv, Phases, InFlight
  <1> QED BY <1>2, <1>3

(* What the calls that a step leaves alone have seen. *)
LEMMA OtherCalls ==
  ASSUME SInv, Record, NEW c \in Checkers,
         chk' \in [Checkers -> {"idle", "ping", "update", "answer"}],
         boot' = boot,
         NEW e \in Checkers \ {c},
         chk'[e] = chk[e], got'[e] = got[e], ans'[e] = ans[e],
         status' = status \/ Calling(c)'
  PROVE  /\ Calling(e)' => boot' = "ready"
         /\ chk'[e] \in {"update", "answer"} =>
              (IF got'[e] THEN "up" ELSE "down") \in seen'[e]
         /\ chk'[e] = "answer" /\ "other" \notin seen'[e] => status'.healthy = got'[e]
         /\ Calling(e)' => ans'[e] = "none"
         /\ "other" \notin seen'[e] =>
              /\ ans'[e] = "healthy" => "up" \in seen'[e]
              /\ ans'[e] = "unhealthy" => "down" \in seen'[e]
  <1>1. /\ ~Calling(e)' => seen'[e] = seen[e]
        /\ Calling(e)' /\ Calling(e) => seen[e] \subseteq seen'[e]
        /\ Calling(e)' /\ Calling(c)' => "other" \in seen'[e]
    BY RecordFacts DEF SInv
  <1>2. Calling(e)' = Calling(e)
    BY DEF Calling
  <1>3. chk[e] \in {"update", "answer"} => Calling(e)
    BY DEF Calling
  <1>4. chk[e] = "answer" /\ "other" \notin seen'[e] => status' = status
    BY <1>1, <1>2, <1>3
  <1> QED BY <1>1, <1>2, <1>3, <1>4 DEF SInv, CallsSeen, LoneCheckTruthful

LEMMA BeginStep ==
  ASSUME SInv, NEW c \in Checkers,
         Db(BeginCheck(c)) \/ Db(HealthHandler(c))
  PROVE  SInv'
  <1>1. /\ Record /\ BeginCheck(c)
        /\ UNCHANGED <<app, serve, reqs, expired, up, boot, attempt, pool, conns, status, got>>
    BY DEF Db, srvVars, HealthHandler, BeginCheck, bootVars
  <1>2. /\ due' \in BOOLEAN
        /\ chk' \in [Checkers -> {"idle", "ping", "update", "answer"}]
        /\ ans' \in [Checkers -> {"none", "healthy", "unhealthy"}]
        /\ chk'[c] = "ping" /\ ans'[c] = "none" /\ boot = "ready"
        /\ \A e \in Checkers \ {c} : chk'[e] = chk[e] /\ ans'[e] = ans[e]
    BY <1>1 DEF BeginCheck, SInv, TypeOK, DbTypeOK
  <1>3. TypeOK' /\ Phases'
    BY <1>1, <1>2, CheckFrame DEF SInv, TypeOK, DbTypeOK
  <1>4. CallsSeen' /\ LoneCheckTruthful'
    BY <1>1, <1>2, OtherCalls, RecordFacts DEF SInv, CallsSeen, LoneCheckTruthful, Calling
  <1> QED BY <1>3, <1>4 DEF SInv

LEMMA CheckingStep ==
  ASSUME SInv, NEW c \in Checkers, Db(Checking(c))
  PROVE  SInv'
  <1>1. /\ Record
        /\ UNCHANGED <<app, serve, reqs, expired, up, boot, attempt, pool, conns, due>>
    BY DEF Db, srvVars, Checking, Ping, UpdateStatus, ReturnStatus, bootVars
  <1>2. Calling(c) /\ boot = "ready" /\ ans[c] = "none"
    BY DEF Db, Checking, Ping, UpdateStatus, ReturnStatus, Calling, SInv, CallsSeen
  <1>3. /\ due' \in BOOLEAN
        /\ got \in [Checkers -> BOOLEAN]
        /\ chk \in [Checkers -> {"idle", "ping", "update", "answer"}]
        /\ ans \in [Checkers -> {"none", "healthy", "unhealthy"}]
        /\ status \in [healthy : BOOLEAN, retries : 0 .. MaxAttempts]
    BY <1>1 DEF SInv, TypeOK, DbTypeOK
  <1>4. CASE Ping(c)
    <2>1. /\ chk' \in [Checkers -> {"idle", "ping", "update", "answer"}]
          /\ got' \in [Checkers -> BOOLEAN]
          /\ chk'[c] = "update" /\ got'[c] = Serviceable' /\ Calling(c)'
          /\ UNCHANGED <<status, ans>>
          /\ \A e \in Checkers \ {c} : chk'[e] = chk[e] /\ got'[e] = got[e]
      <3>1. Serviceable \in BOOLEAN /\ Serviceable' = Serviceable
        BY <1>1 DEF Serviceable, SInv, TypeOK, DbTypeOK
      <3>2. chk' = [chk EXCEPT ![c] = "update"] /\ got' = [got EXCEPT ![c] = Serviceable]
            /\ UNCHANGED <<status, ans>>
        BY <1>4 DEF Ping, bootVars
      <3>3. /\ chk' \in [Checkers -> {"idle", "ping", "update", "answer"}]
            /\ chk'[c] = "update" /\ Calling(c)'
            /\ \A e \in Checkers \ {c} : chk'[e] = chk[e]
        BY <3>2, <1>3 DEF Calling
      <3>4. /\ got' \in [Checkers -> BOOLEAN] /\ got'[c] = Serviceable
            /\ \A e \in Checkers \ {c} : got'[e] = got[e]
        BY <3>1, <3>2, <1>3
      <3> QED BY <3>1, <3>2, <3>3, <3>4
    <2>2. TypeOK' /\ Phases'
      BY <1>1, <1>3, <2>1, CheckFrame
    <2>3. CallsSeen' /\ LoneCheckTruthful'
      BY <1>1, <1>2, <2>1, OtherCalls, RecordFacts DEF SInv, CallsSeen, LoneCheckTruthful
    <2> QED BY <2>2, <2>3 DEF SInv
  <1>5. CASE UpdateStatus(c)
    <2>1. /\ chk' \in [Checkers -> {"idle", "ping", "update", "answer"}]
          /\ status' \in [healthy : BOOLEAN, retries : 0 .. MaxAttempts]
          /\ chk[c] = "update" /\ chk'[c] = "answer" /\ status'.healthy = got[c] /\ Calling(c)'
          /\ UNCHANGED <<got, ans>>
          /\ \A e \in Checkers \ {c} : chk'[e] = chk[e]
      BY <1>1, <1>3, <1>5 DEF UpdateStatus, Calling
    <2>2. TypeOK' /\ Phases'
      BY <1>1, <1>3, <2>1, CheckFrame
    <2>3. CallsSeen' /\ LoneCheckTruthful'
      BY <1>1, <1>2, <2>1, OtherCalls, RecordFacts DEF SInv, CallsSeen, LoneCheckTruthful
    <2> QED BY <2>2, <2>3 DEF SInv
  <1>6. CASE ReturnStatus(c)
    <2>1. /\ chk' \in [Checkers -> {"idle", "ping", "update", "answer"}]
          /\ ans' \in [Checkers -> {"none", "healthy", "unhealthy"}]
          /\ chk[c] = "answer" /\ chk'[c] = "idle" /\ ~Calling(c)'
          /\ ans'[c] = IF status.healthy THEN "healthy" ELSE "unhealthy"
          /\ UNCHANGED <<got, status>>
          /\ \A e \in Checkers \ {c} : chk'[e] = chk[e] /\ ans'[e] = ans[e]
      BY <1>1, <1>3, <1>6 DEF ReturnStatus, Calling
    <2>2. TypeOK' /\ Phases'
      BY <1>1, <1>3, <2>1, CheckFrame
    <2>3. seen'[c] = seen[c]
      BY <1>1, <2>1, RecordFacts DEF SInv
    <2>4. "other" \notin seen'[c] =>
            /\ ans'[c] = "healthy" => "up" \in seen'[c]
            /\ ans'[c] = "unhealthy" => "down" \in seen'[c]
      BY <2>1, <2>3 DEF SInv, CallsSeen
    <2>5. CallsSeen' /\ LoneCheckTruthful'
      BY <1>1, <1>2, <2>1, <2>4, OtherCalls, RecordFacts DEF SInv, CallsSeen, LoneCheckTruthful
    <2> QED BY <2>2, <2>5 DEF SInv
  <1> QED BY <1>4, <1>5, <1>6 DEF Db, Checking

-----------------------------------------------------------------------------
(* The application's steps. *)

(* A connection taken leaves the pool within its size; one given back too. *)
LEMMA PoolBounded ==
  ASSUME IsFiniteSet(conns), Cardinality(conns) <= MaxOpen, NEW r
  PROVE  /\ IsFiniteSet(conns \cup {r}) /\ IsFiniteSet(conns \ {r})
         /\ Cardinality(conns) < MaxOpen => Cardinality(conns \cup {r}) <= MaxOpen
         /\ Cardinality(conns \ {r}) <= MaxOpen
  <1>1. /\ IsFiniteSet(conns \cup {r})
        /\ Cardinality(conns \cup {r}) =
             IF r \in conns THEN Cardinality(conns) ELSE Cardinality(conns) + 1
    BY FS_AddElement
  <1>2. /\ IsFiniteSet(conns \ {r})
        /\ Cardinality(conns \ {r}) =
             IF r \in conns THEN Cardinality(conns) - 1 ELSE Cardinality(conns)
    BY FS_RemoveElement
  <1>3. Cardinality(conns) \in Nat
    BY FS_CardinalityType
  <1> QED BY <1>1, <1>2, <1>3, PoolSize

(* What a step of the application leaves alone. *)
LEMMA AppFrame ==
  ASSUME SInv, Record,
         UNCHANGED <<up, boot, attempt, status, due, chk, got, ans>>,
         pool' \in {"none", "open", "closed"},
         conns' \subseteq Clients, Cardinality(conns') <= MaxOpen,
         app' \in {"building", "starting", "running", "stopping", "closing", "closed",
                   "exited", "crashed"},
         serve' \in BOOLEAN, expired' \in BOOLEAN,
         reqs' \in [Requests -> {"new", "run", "conn", "done", "cut"}]
  PROVE  TypeOK' /\ CallsSeen' /\ LoneCheckTruthful'
  <1>1. CallsSeen' /\ LoneCheckTruthful' /\ seen' \in [Checkers -> SUBSET {"up", "down", "other"}]
    BY QuietStep
  <1> QED BY <1>1 DEF SInv, TypeOK, DbTypeOK

(* Requests come and go while the server runs or stops: the pool is open. *)
LEMMA RequestStep ==
  ASSUME SInv, NEW r \in Requests, Srv(Accept(r)) \/ Srv(Acquire(r)) \/ Srv(Respond(r))
  PROVE  SInv'
  <1>1. /\ Record
        /\ UNCHANGED <<up, boot, attempt, status, due, chk, got, ans, pool, app, serve, expired>>
    BY DEF Srv, Accept, Acquire, Respond, db, bootVars, checkVars
  <1>2. reqs' \in [Requests -> {"new", "run", "conn", "done", "cut"}]
    BY DEF Srv, Accept, Acquire, Respond, SInv, TypeOK
  <1>3. app \in {"running", "stopping"}
    BY DEF Srv, Accept, Acquire, Respond, InFlight, SInv, Phases
  <1>4. conns' \subseteq Clients /\ IsFiniteSet(conns') /\ Cardinality(conns') <= MaxOpen
    <2>1. IsFiniteSet(conns) /\ Cardinality(conns) <= MaxOpen /\ conns \subseteq Clients
      BY DEF SInv, TypeOK, DbTypeOK, Phases
    <2>2. CASE Accept(r)
      BY <2>1, <2>2 DEF Accept, db
    <2>3. CASE Acquire(r)
      <3>1. conns' = conns \cup {r} /\ r \in Clients /\ Cardinality(conns) < MaxOpen
        BY <2>3 DEF Acquire
      <3> QED BY <2>1, <3>1, PoolBounded
    <2>4. CASE Respond(r)
      <3>1. conns' = conns \ {r}
        BY <2>4 DEF Respond
      <3> QED BY <2>1, <3>1, PoolBounded
    <2> QED BY <2>2, <2>3, <2>4 DEF Srv
  <1>5. TypeOK' /\ CallsSeen' /\ LoneCheckTruthful'
    BY <1>1, <1>2, <1>4, AppFrame DEF SInv, TypeOK, DbTypeOK
  <1>6. Phases'
    BY <1>1, <1>3, <1>4 DEF SInv, Phases
  <1> QED BY <1>5, <1>6 DEF SInv

(* Starting, shutting down and ending: no request is in flight in the steps  *)
(* that leave "running" and "stopping".                                      *)
LEMMA LifeStep ==
  ASSUME SInv,
         \/ Srv(ProvideDatabase) \/ Srv(OnStart) \/ Srv(BeginShutdown)
         \/ Srv(Stopping) \/ Srv(ServeReturns)
  PROVE  SInv'
  <1>1. /\ Record
        /\ UNCHANGED <<up, boot, attempt, status, due, chk, got, ans, conns>>
    BY DEF Srv, ProvideDatabase, OnStart, BeginShutdown, Stopping, ShutdownDone,
           ShutdownTimesOut, CloseDatabase, Close, Exit, ServeReturns, db, bootVars, checkVars
  <1>2. /\ app' \in {"starting", "running", "stopping", "closing", "closed", "exited", "crashed"}
        /\ serve' \in BOOLEAN /\ expired' \in BOOLEAN
        /\ pool' \in {"none", "open", "closed"}
        /\ reqs' \in [Requests -> {"new", "run", "conn", "done", "cut"}]
    <2> USE DEF SInv, TypeOK, DbTypeOK
    <2>1. CASE ProvideDatabase
      BY <2>1, EndTypes DEF ProvideDatabase, db
    <2>2. CASE OnStart
      BY <2>2, EndTypes DEF OnStart, db
    <2>3. CASE BeginShutdown \/ ShutdownDone
      BY <2>3 DEF BeginShutdown, ShutdownDone, db
    <2>4. CASE ShutdownTimesOut
      BY <2>4, EndTypes DEF ShutdownTimesOut, db
    <2>5. CASE CloseDatabase
      BY <2>5 DEF CloseDatabase, Close
    <2>6. CASE Exit \/ ServeReturns
      BY <2>6, EndTypes DEF Exit, ServeReturns, db
    <2> QED BY <2>1, <2>2, <2>3, <2>4, <2>5, <2>6 DEF Srv, Stopping
  <1>3. TypeOK' /\ CallsSeen' /\ LoneCheckTruthful'
    BY <1>1, <1>2, AppFrame DEF SInv, TypeOK, DbTypeOK
  <1>4. /\ InFlight' # {} => app' \in {"running", "stopping"}
        /\ app' \in {"starting", "running", "stopping", "closing"} => pool' = "open"
        /\ (pool' # "none") <=> (pool # "none")
        /\ pool' = "closed" => app' \notin {"building", "starting"}
    <2> USE DEF SInv, Phases
    <2>1. CASE ProvideDatabase
      BY <2>1, <1>1, EndTypes DEF ProvideDatabase, db, InFlight, TypeOK, DbTypeOK
    <2>2. CASE OnStart
      BY <2>2, <1>1, EndTypes DEF OnStart, db, InFlight
    <2>3. CASE BeginShutdown
      BY <2>3 DEF BeginShutdown, db, InFlight
    <2>4. CASE ShutdownDone
      BY <2>4 DEF ShutdownDone, db, InFlight
    <2>5. CASE ShutdownTimesOut
      BY <2>5, EndTypes DEF ShutdownTimesOut, db
    <2>6. CASE CloseDatabase
      BY <2>6 DEF CloseDatabase, Close, InFlight
    <2>7. CASE Exit
      BY <2>7, EndTypes DEF Exit, db
    <2>8. CASE ServeReturns
      BY <2>8, EndTypes DEF ServeReturns, db
    <2> QED BY <2>1, <2>2, <2>3, <2>4, <2>5, <2>6, <2>7, <2>8 DEF Srv, Stopping
  <1>5. Phases'
    BY <1>1, <1>4 DEF SInv, Phases
  <1> QED BY <1>3, <1>5 DEF SInv

-----------------------------------------------------------------------------

LEMMA Stutter ==
  ASSUME SInv, UNCHANGED vars
  PROVE  SInv'
  BY DEF SInv, vars, dbVars, bootVars, checkVars, srvVars, TypeOK, DbTypeOK, Phases,
         InFlight, CallsSeen, Calling, LoneCheckTruthful

(* The invariant of the process. *)
THEOREM Invariance == Spec => []SInv
  <1>1. SInv /\ [Next]_vars => SInv'
    <2> SUFFICES ASSUME SInv, [Next]_vars PROVE SInv'
      OBVIOUS
    <2>1. CASE Db(Booting)
      BY <2>1, BootStep
    <2>2. CASE Db(Tick) \/ Db(Outage)
      BY <2>2, SurroundingsStep
    <2>3. CASE Db(BeginCheck(Routine))
      BY <2>3, BeginStep, RoutineChecks
    <2>4. ASSUME NEW c \in Checkers, Db(Checking(c)) PROVE SInv'
      BY <2>4, CheckingStep
    <2>5. ASSUME NEW r \in HealthRequests, Db(HealthHandler(r)) PROVE SInv'
      BY <2>5, BeginStep DEF HealthRequests
    <2>6. ASSUME NEW r \in Requests, Srv(Accept(r)) \/ Srv(Acquire(r)) \/ Srv(Respond(r))
          PROVE SInv'
      BY <2>6, RequestStep
    <2>7. CASE \/ Srv(ProvideDatabase) \/ Srv(OnStart) \/ Srv(BeginShutdown)
               \/ Srv(Stopping) \/ Srv(ServeReturns)
      BY <2>7, LifeStep
    <2>8. CASE Ended \/ UNCHANGED vars
      BY <2>8, Stutter DEF Ended
    <2> QED BY <2>1, <2>2, <2>3, <2>4, <2>5, <2>6, <2>7, <2>8 DEF Next
  <1> QED BY InitInv, <1>1, PTL DEF Spec

(* The variables of the process keep their types; in particular the pool     *)
(* never holds more than DATABASE_MAX_OPEN_CONNS connections.                *)
THEOREM TypeCorrect == Spec => []TypeOK
  BY Invariance, PTL DEF SInv

(* cmd/server/main.go's order of start and stop: no request is in flight     *)
(* before the database is connected or after it is closed.                   *)
THEOREM PoolOutlivesRequests == Spec => []RequestsSeeOpenPool
  <1>1. SInv => RequestsSeeOpenPool
    BY DEF SInv, Phases, RequestsSeeOpenPool
  <1> QED BY Invariance, <1>1, PTL

(* HealthCheck's result is the database's state during the call, as long as  *)
(* no other call overlaps it.                                                *)
THEOREM LoneChecksTellTruth == Spec => []LoneCheckTruthful
  BY Invariance, PTL DEF SInv
============================================================================
